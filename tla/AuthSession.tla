----------------------------- MODULE AuthSession -----------------------------
(***************************************************************************)
(* What the credential storage promises its callers about the stored login *)
(* (packages/core/README.md, "Authentication storage"): a register holding *)
(* at most one session.  A login installs a session of its own, a token    *)
(* refresh replaces the session by another one of the SAME login, a logout *)
(* empties the register.  A refresh never brings a login back and never    *)
(* replaces somebody else's login.                                         *)
(***************************************************************************)
CONSTANTS
  Sessions,  \* every session that may be stored
  None       \* the register is empty

VARIABLES
  session,   \* the stored session, or None
  login      \* the session whose login the stored session descends from

vars == <<session, login>>

TypeOK ==
  /\ session \in Sessions \cup {None}
  /\ login \in Sessions \cup {None}

Init ==
  /\ session = None
  /\ login = None

Login ==
  \E s \in Sessions :
    /\ session' = s
    /\ login' = s

Refresh ==
  /\ session # None
  /\ session' \in Sessions \ {session, login}
  /\ UNCHANGED login

Logout ==
  /\ session' = None
  /\ login' = None

Next == Login \/ Refresh \/ Logout

Spec == Init /\ [][Next]_vars
=============================================================================
