---------------------------- MODULE VaultFactors ----------------------------
(***************************************************************************)
(* The vault commands that take an unlock factor, `inflow vault unlock`    *)
(* and `inflow vault change-passphrase` (commands/vault and secure-storage *)
(* /vault-client), run by several people or terminals at once with `lock`  *)
(* and `reset` and the vault's own timers.                                 *)
(*                                                                         *)
(* The service answers one request at a time (vault-socket, modelled in    *)
(* VaultService), so a request is a step here.  A command is many requests,*)
(* and what it reports at the end must be true of the vault though others  *)
(* came between.  A header is the factor that opens it and the salt it was *)
(* made with; a wrapping key opens it if both are the header's.            *)
(***************************************************************************)
EXTENDS Naturals

CONSTANTS
  Clients,   \* commands, each run again once it has ended
  Factors,   \* PINs and passphrases
  Salts,     \* salts; one nothing refers to is drawn again
  None

VARIABLES
  header,    \* the header in force, or None before the first unlock
  open,      \* the service holds the master key
  cmd        \* every command

vars == <<header, open, cmd>>

\* Whatever salts the commands and the header have, there is another.
SaltsAssumption ==
  /\ \A of \in [Clients -> Salts \cup {None}], headers \in Salts \cup {None} :
       \E s \in Salts : s # headers /\ \A c \in Clients : of[c] # s
  /\ None \notin Factors \cup Salts \cup [factor : Factors, salt : Salts]

Header == [factor : Factors, salt : Salts]

\* `at` names the request the command sends next, or how it ended.
Command ==
  [at : {"idle", "status", "salt", "unlock", "opened", "confirm",
         "rotateSalt", "rotate", "lock", "oldSalt", "old", "oldOpened", "relock",
         "closed", "newSalt", "new", "newOpened",
         "lockOnly", "reset", "unlocked", "changed"},
   factor : Factors \cup {None},     \* the factor the command is to establish
   previous : Factors \cup {None},   \* the one `change-passphrase` replaces
   salt : Salts \cup {None},   \* the salt its wrapping key is derived with
   outlived : BOOLEAN]   \* history: a reset has removed the vault since it read that salt

TypeOK ==
  /\ header \in Header \cup {None} /\ open \in BOOLEAN
  /\ cmd \in [Clients -> Command]

\* It ended, with a report about a factor or with none.
Ended == {"idle", "unlocked", "changed"}
Idle == [at |-> "idle", factor |-> None, previous |-> None, salt |-> None, outlived |-> FALSE]

Init ==
  /\ header = None /\ open = FALSE
  /\ cmd = [c \in Clients |-> Idle]

-----------------------------------------------------------------------------
(* The service (vault-daemon-handler and vault-local-backend).              *)

\* A random salt is one nobody has seen.
FreshSalt ==
  CHOOSE x \in Salts : (header = None \/ header.salt # x) /\ \A c \in Clients : cmd[c].salt # x

\* vault.unlockSalt: before there is a header, every answer is a new salt.
UnlockSalt == IF header = None THEN FreshSalt ELSE header.salt

\* vault.unlock: creates the vault if there is none.
Opens(f, s) == header = None \/ header = [factor |-> f, salt |-> s]

-----------------------------------------------------------------------------
(* Commands.                                                                *)

Go(c, at) == cmd' = [cmd EXCEPT ![c] = IF at = "idle" THEN Idle ELSE [@ EXCEPT !.at = at]]

Fail(c) == Go(c, "idle") /\ UNCHANGED <<header, open>>

Begin(c) ==
  /\ cmd[c].at \in Ended
  /\ \/ \E at \in {"lockOnly", "reset"} : cmd' = [cmd EXCEPT ![c] = [Idle EXCEPT !.at = at]]
     \/ \E f \in Factors :
          cmd' = [cmd EXCEPT ![c] = [Idle EXCEPT !.at = "status", !.factor = f]]
     \/ \E f, g \in Factors :
          /\ f # g
          /\ cmd' = [cmd EXCEPT ![c] =
               [Idle EXCEPT !.at = "rotateSalt", !.factor = f, !.previous = g]]
  /\ UNCHANGED <<header, open>>

\* `vault unlock` asks for a factor only if the vault is closed.
Look(c) ==
  /\ cmd[c].at = "status"
  /\ Go(c, IF open THEN "idle" ELSE "salt")
  /\ UNCHANGED <<header, open>>

\* The salt the next wrapping key is derived with, in `unlock` and before a rotation.
NextAfterSalt ==
  [salt |-> "unlock", rotateSalt |-> "rotate", oldSalt |-> "old", newSalt |-> "new"]

ReadSalt(c) ==
  /\ cmd[c].at \in DOMAIN NextAfterSalt
  /\ cmd' = [cmd EXCEPT ![c].at = NextAfterSalt[@], ![c].salt = UnlockSalt,
                                          ![c].outlived = FALSE]
  /\ UNCHANGED <<header, open>>

\* The factor a step of the command tries, and what follows success.
Tried(c) == IF cmd[c].at = "old" THEN cmd[c].previous ELSE cmd[c].factor
NextAfterUnlock == [unlock |-> "opened", old |-> "oldOpened", new |-> "newOpened"]

\* A factor that does not open the vault ends the command, but the replaced
\* factor is expected not to.
Unlock(c) ==
  /\ cmd[c].at \in DOMAIN NextAfterUnlock
  /\ IF Opens(Tried(c), cmd[c].salt)
       THEN /\ header' = [factor |-> Tried(c), salt |-> cmd[c].salt]
            /\ open' = TRUE
            /\ Go(c, NextAfterUnlock[cmd[c].at])
       ELSE /\ Go(c, IF cmd[c].at = "old" THEN "closed" ELSE "idle")
            /\ UNCHANGED <<header, open>>

\* LocalVaultClient.unlock asks for the status once more.  The error of a vault
\* that was locked meanwhile is that of a wrong factor, so a replaced factor that
\* did open the vault then counts as rejected.
Opened(c) ==
  /\ \/ cmd[c].at = "opened" /\ Go(c, IF open THEN "confirm" ELSE "idle")
     \/ cmd[c].at = "oldOpened" /\ Go(c, IF open THEN "relock" ELSE "closed")
     \/ cmd[c].at = "newOpened" /\ Go(c, IF open THEN "changed" ELSE "idle")
  /\ UNCHANGED <<header, open>>

\* `vault unlock` reads the status again on a connection of its own.
Confirm(c) ==
  /\ cmd[c].at = "confirm"
  /\ Go(c, IF open THEN "unlocked" ELSE "idle")
  /\ UNCHANGED <<header, open>>

\* vault.changePassphrase: a new header under a new salt, for the same master key.
Rotate(c) ==
  /\ cmd[c].at = "rotate"
  /\ IF header = [factor |-> cmd[c].previous, salt |-> cmd[c].salt]
       THEN /\ header' = [factor |-> cmd[c].factor, salt |-> FreshSalt]
            /\ open' = TRUE
            /\ Go(c, "lock")
       ELSE Fail(c)

NextAfterLock == [lock |-> "oldSalt", relock |-> "idle", lockOnly |-> "idle"]

Lock(c) ==
  /\ cmd[c].at \in DOMAIN NextAfterLock
  /\ open' = FALSE
  /\ Go(c, NextAfterLock[cmd[c].at])
  /\ UNCHANGED header

\* A rejected old factor taken for a proof of the new one.
RejectionProves(c) ==
  /\ cmd[c].at = "closed"
  /\ Go(c, IF ~open /\ header # None THEN "changed" ELSE "idle")
  /\ UNCHANGED <<header, open>>

\* Between the two unlocks of a rotation the vault has to be closed, and there.
StillClosed(c) ==
  /\ cmd[c].at = "closed"
  /\ Go(c, IF ~open /\ header # None THEN "newSalt" ELSE "idle")
  /\ UNCHANGED <<header, open>>

Reset(c) ==
  /\ cmd[c].at = "reset"
  /\ header' = None /\ open' = FALSE
  /\ cmd' = [d \in Clients |->
       IF d = c THEN Idle ELSE [cmd[d] EXCEPT !.outlived = cmd[d].salt # None]]

\* A request is not answered: it never arrived, or its answer is lost.
Lost(c) == cmd[c].at \notin Ended /\ Fail(c)

\* The timers of the vault's policy, or the service starting again.
LockItself ==
  /\ open
  /\ open' = FALSE
  /\ UNCHANGED <<header, cmd>>

Next ==
  \/ \E c \in Clients :
       \/ Begin(c) \/ Look(c) \/ ReadSalt(c) \/ Unlock(c) \/ Opened(c) \/ Confirm(c)
       \/ Rotate(c) \/ Lock(c) \/ StillClosed(c) \/ Reset(c) \/ Lost(c)
  \/ LockItself

Spec == Init /\ [][Next]_vars

-----------------------------------------------------------------------------
\* What a command reports is true of the vault: a factor it says opens the vault,
\* or replaced another, is that of the header it last derived a key for, whatever
\* other commands and timers did in the midst of it.  (Once another command
\* replaces that header, its salt is a new one and the report is history.)  A vault
\* that was reset meanwhile is another matter: a third command that had derived its
\* key can make the vault anew under the old salt, with a factor of its own.
ReportedFactorOpens ==
  \A c \in Clients :
    /\ cmd[c].at \in {"unlocked", "changed"} /\ ~cmd[c].outlived
    /\ header # None
    /\ header.salt = cmd[c].salt
    => header.factor = cmd[c].factor

=============================================================================
