------------------------------ MODULE AuthFlows ------------------------------
(***************************************************************************)
(* The commands that change who the CLI is: auth login by device flow      *)
(* (flows/auth-login.ts), auth login with an API key, auth status, which   *)
(* drives a device flow left pending by another command (auth/poll.ts),    *)
(* and auth logout, in several processes over one credential storage.      *)
(*                                                                         *)
(* Each write of a setting is one step: its own steps are those of         *)
(* CredentialStorage.  A session is the pair of tokens of one grant.       *)
(***************************************************************************)
EXTENDS Naturals, FiniteSets

CONSTANTS
  Procs,        \* processes
  Codes,        \* device codes; their number bounds the device logins
  MaxSessions,  \* bound on the sessions the server grants
  MaxCommands,  \* bound on the commands
  MaxCrashes    \* bound on crashes

Nothing == 0
Sessions == 1..MaxSessions

CodesAssumption == Nothing \notin Codes
BoundsAssumption == MaxSessions \in Nat \ {0} /\ MaxCommands \in Nat /\ MaxCrashes \in Nat

VARIABLES
  auth,      \* the stored session, or Nothing
  apiKey,    \* is an API key stored?
  pending,   \* the stored device code, or Nothing
  code,      \* state of each device code at the server
  live,      \* sessions whose refresh token the server accepts
  granted,   \* number of sessions granted
  flow,      \* the command each process runs
  commands, crashes,
  kept,      \* history: codes whose tokens were stored
  dropped,   \* history: codes whose tokens were lost on the way
  rebound    \* history: sessions a login has revoked

settings == <<auth, apiKey, pending>>
server == <<code, live, granted>>
bounds == <<commands, crashes>>
history == <<kept, dropped, rebound>>
vars == <<settings, server, flow, bounds, history>>

(***************************************************************************)
(* Where a command is.  Device login: start, announce, poll, store,        *)
(* clearKey, clearPending, revoke; status joins it at poll, reading the    *)
(* prior session after the tokens arrived.  API key: probe, keyAuth,       *)
(* keyPending, keySet.  Logout: outRevoke, outAuth, outKey, outPending,    *)
(* outReset.                                                               *)
(***************************************************************************)
Labels == {"idle", "start", "announce", "poll", "prior", "store", "clearKey", "clearPending",
           "revoke", "probe", "keyAuth", "keyPending", "keySet",
           "outRevoke", "outAuth", "outKey", "outPending", "outReset"}

Flow == [kind   : {"none", "tty", "agent", "status", "apiKey", "logout"},
         at     : Labels,
         code   : {Nothing} \cup Codes,
         prior  : {Nothing} \cup Sessions,  \* priorRefreshToken
         tokens : {Nothing} \cup Sessions]

NoFlow == [kind |-> "none", at |-> "idle", code |-> Nothing, prior |-> Nothing, tokens |-> Nothing]

TypeOK ==
  /\ auth \in {Nothing} \cup Sessions /\ apiKey \in BOOLEAN /\ pending \in {Nothing} \cup Codes
  /\ code \in [Codes -> {"unused", "waiting", "approved", "denied", "exchanged"}]
  /\ live \subseteq Sessions /\ granted \in 0..MaxSessions
  /\ flow \in [Procs -> Flow]
  /\ commands \in 0..MaxCommands /\ crashes \in 0..MaxCrashes
  /\ kept \subseteq Codes /\ dropped \subseteq Codes /\ rebound \subseteq Sessions

Init ==
  /\ auth = 1 /\ apiKey = FALSE /\ pending = Nothing
  /\ code = [c \in Codes |-> "unused"] /\ live = {1} /\ granted = 1
  /\ flow = [p \in Procs |-> NoFlow]
  /\ commands = 0 /\ crashes = 0
  /\ kept = {} /\ dropped = {} /\ rebound = {}

At(p, label) == flow[p].at = label
Goto(p, label) == flow' = [flow EXCEPT ![p].at = label]
End(p) == flow' = [flow EXCEPT ![p] = NoFlow]

Command(p) ==
  /\ At(p, "idle")
  /\ commands < MaxCommands
  /\ commands' = commands + 1

-----------------------------------------------------------------------------
(* Device login.                                                            *)

\* The interactive shell probes a stored session and, if it works and the user
\* agrees, remembers its refresh token; the agent mode remembers none.
BeginLogin(p) ==
  /\ Command(p)
  /\ \E kind \in {"tty", "agent"}, ask \in {Nothing, auth} :
       /\ kind = "agent" => ask = Nothing
       /\ flow' = [flow EXCEPT ![p] = [NoFlow EXCEPT !.kind = kind, !.at = "start", !.prior = ask]]
  /\ UNCHANGED <<settings, server, crashes, history>>

InitiateDeviceAuth(p) ==
  /\ At(p, "start")
  /\ \E c \in Codes :
       /\ code[c] = "unused"
       /\ code' = [code EXCEPT ![c] = "waiting"]
       /\ flow' = [flow EXCEPT ![p].code = c,
                                ![p].at = IF flow[p].kind = "agent" THEN "announce" ELSE "poll"]
  /\ UNCHANGED <<settings, live, granted, bounds, history>>

InitiateFailed(p) ==
  /\ At(p, "start")
  /\ End(p)
  /\ UNCHANGED <<settings, server, bounds, history>>

\* Agent mode records the code; without an interval the command ends here and
\* leaves the flow to auth status.
SetPendingDeviceAuth(p) ==
  /\ At(p, "announce")
  /\ pending' = flow[p].code
  /\ \/ Goto(p, "poll")
     \/ End(p)
  /\ UNCHANGED <<auth, apiKey, server, bounds, history>>

\* auth status reads the record of a flow in progress and polls once.
BeginStatus(p) ==
  /\ Command(p)
  /\ pending # Nothing
  /\ flow' = [flow EXCEPT ![p] = [NoFlow EXCEPT !.kind = "status", !.at = "poll", !.code = pending]]
  /\ UNCHANGED <<settings, server, crashes, history>>

\* pollDeviceAuth returned null; status ends or polls again at its interval,
\* reading the record again.
PollPending(p) ==
  /\ At(p, "poll")
  /\ code[flow[p].code] = "waiting"
  /\ flow[p].kind = "status"
  /\ IF pending = Nothing THEN End(p) ELSE flow' = [flow EXCEPT ![p].code = pending]
  /\ UNCHANGED <<settings, server, bounds, history>>

\* The user approves: the tokens go to whoever polls first.
PollGranted(p) ==
  /\ At(p, "poll")
  /\ code[flow[p].code] = "approved"
  /\ granted < MaxSessions
  /\ granted' = granted + 1
  /\ live' = live \cup {granted + 1}
  /\ code' = [code EXCEPT ![flow[p].code] = "exchanged"]
  /\ \/ /\ flow' = [flow EXCEPT ![p].tokens = granted + 1,
                                ![p].at = IF flow[p].kind = "status" THEN "prior" ELSE "store"]
        /\ UNCHANGED dropped
     \/ /\ End(p)  \* the answer is lost, and the code with it
        /\ dropped' = dropped \cup {flow[p].code}
  /\ UNCHANGED <<settings, bounds, kept, rebound>>

\* The code is denied, expired or exchanged already, or polling timed out, or
\* the user pressed Escape between two polls: the record stays.
PollEnds(p) ==
  /\ At(p, "poll")
  /\ End(p)
  /\ UNCHANGED <<settings, server, bounds, history>>

\* Escape while the poll that brings the tokens is in flight: they are dropped.
Cancel(p) ==
  /\ At(p, "store")
  /\ flow[p].kind = "tty"
  /\ End(p)
  /\ dropped' = dropped \cup {flow[p].code}
  /\ UNCHANGED <<settings, server, bounds, kept, rebound>>

\* advancePendingFlow captures the prior refresh token before overwriting it.
ReadPrior(p) ==
  /\ At(p, "prior")
  /\ flow' = [flow EXCEPT ![p].prior = auth, ![p].at = "store"]
  /\ UNCHANGED <<settings, server, bounds, history>>

\* Mistake: the prior session is revoked first and the new one stored after.
StoreAfterRevoke(p) ==
  /\ At(p, "store")
  /\ Goto(p, "clearKey")
  /\ live' = live \ {flow[p].prior}
  /\ rebound' = rebound \cup ({flow[p].prior} \ {Nothing})
  /\ UNCHANGED <<settings, code, granted, bounds, kept, dropped>>

StoreTokens(p) ==
  /\ At(p, "store")
  /\ auth' = flow[p].tokens
  /\ kept' = kept \cup {flow[p].code}
  /\ Goto(p, "clearKey")
  /\ UNCHANGED <<apiKey, pending, server, bounds, dropped, rebound>>

ClearApiKey(p) ==
  /\ At(p, "clearKey")
  /\ apiKey' = FALSE
  /\ Goto(p, "clearPending")
  /\ UNCHANGED <<auth, pending, server, bounds, history>>

\* Mistake: the record of the flow that completed stays.
PendingNotCleared(p) ==
  /\ At(p, "clearPending")
  /\ Goto(p, "revoke")
  /\ UNCHANGED <<settings, server, bounds, history>>

ClearPendingDeviceAuth(p) ==
  /\ At(p, "clearPending")
  /\ pending' = Nothing
  /\ Goto(p, "revoke")
  /\ UNCHANGED <<auth, apiKey, server, bounds, history>>

\* Best effort, and never waited for: it may reach the server or not.
RevokePrior(p) ==
  /\ At(p, "revoke")
  /\ \/ /\ flow[p].prior # Nothing
        /\ live' = live \ {flow[p].prior}
        /\ rebound' = rebound \cup {flow[p].prior}
     \/ UNCHANGED <<live, rebound>>
  /\ End(p)
  /\ UNCHANGED <<settings, code, granted, bounds, kept, dropped>>

-----------------------------------------------------------------------------
(* API key login: nothing is written before the key is known to work.       *)

BeginApiKey(p) ==
  /\ Command(p)
  /\ flow' = [flow EXCEPT ![p] = [NoFlow EXCEPT !.kind = "apiKey", !.at = "probe"]]
  /\ UNCHANGED <<settings, server, crashes, history>>

Probe(p) ==
  /\ At(p, "probe")
  /\ \/ Goto(p, "keyAuth")
     \/ End(p)
  /\ UNCHANGED <<settings, server, bounds, history>>

KeyClearsAuth(p) ==
  /\ At(p, "keyAuth")
  /\ auth' = Nothing
  /\ Goto(p, "keyPending")
  /\ UNCHANGED <<apiKey, pending, server, bounds, history>>

KeyClearsPending(p) ==
  /\ At(p, "keyPending")
  /\ pending' = Nothing
  /\ Goto(p, "keySet")
  /\ UNCHANGED <<auth, apiKey, server, bounds, history>>

SetApiKey(p) ==
  /\ At(p, "keySet")
  /\ apiKey' = TRUE
  /\ End(p)
  /\ UNCHANGED <<auth, pending, server, bounds, history>>

-----------------------------------------------------------------------------
(* Logout.                                                                  *)

BeginLogout(p) ==
  /\ Command(p)
  /\ flow' = [flow EXCEPT ![p] = [NoFlow EXCEPT !.kind = "logout", !.prior = auth,
                                  !.at = IF auth = Nothing THEN "outAuth" ELSE "outRevoke"]]
  /\ UNCHANGED <<settings, server, crashes, history>>

LogoutRevokes(p) ==
  /\ At(p, "outRevoke")
  /\ live' \in {live, live \ {flow[p].prior}}
  /\ Goto(p, "outAuth")
  /\ UNCHANGED <<settings, code, granted, bounds, history>>

LogoutClearsAuth(p) ==
  /\ At(p, "outAuth")
  /\ auth' = Nothing
  /\ Goto(p, "outKey")
  /\ UNCHANGED <<apiKey, pending, server, bounds, history>>

LogoutClearsKey(p) ==
  /\ At(p, "outKey")
  /\ apiKey' = FALSE
  /\ Goto(p, "outPending")
  /\ UNCHANGED <<auth, pending, server, bounds, history>>

LogoutClearsPending(p) ==
  /\ At(p, "outPending")
  /\ pending' = Nothing
  /\ Goto(p, "outReset")
  /\ UNCHANGED <<auth, apiKey, server, bounds, history>>

\* resetLocalVault: the whole database is cleared in one transaction.
LogoutResets(p) ==
  /\ At(p, "outReset")
  /\ auth' = Nothing /\ apiKey' = FALSE /\ pending' = Nothing
  /\ End(p)
  /\ UNCHANGED <<server, bounds, history>>

-----------------------------------------------------------------------------
(* The surroundings.                                                        *)

\* A request of another command refreshes the stored session.
RefreshStored ==
  /\ auth \in live /\ granted < MaxSessions
  /\ auth' = granted + 1 /\ granted' = granted + 1
  /\ live' = (live \ {auth}) \cup {granted + 1}
  /\ UNCHANGED <<apiKey, pending, code, flow, bounds, history>>

\* getPendingDeviceAuth forgets a record whose code has expired.
PendingExpires ==
  /\ pending # Nothing
  /\ code[pending] # "approved"
  /\ pending' = Nothing
  /\ UNCHANGED <<auth, apiKey, server, flow, bounds, history>>

\* The user answers at the verification page.
Answer(c) ==
  /\ code[c] = "waiting"
  /\ code' = [code EXCEPT ![c] = "approved"] \/ code' = [code EXCEPT ![c] = "denied"]
  /\ UNCHANGED <<settings, live, granted, flow, bounds, history>>

\* The process dies, or a write throws, which ends a login or a status in the same way.
\* Left out: a logout whose write throws still resets the vault.
Crash(p) ==
  /\ ~ At(p, "idle")
  /\ crashes < MaxCrashes
  /\ crashes' = crashes + 1
  /\ dropped' = IF flow[p].tokens = Nothing THEN dropped ELSE dropped \cup {flow[p].code}
  /\ End(p)
  /\ UNCHANGED <<settings, server, commands, kept, rebound>>

Begin(p) == BeginLogin(p) \/ BeginStatus(p) \/ BeginApiKey(p) \/ BeginLogout(p)

DeviceLogin(p) ==
  \/ InitiateDeviceAuth(p) \/ InitiateFailed(p) \/ SetPendingDeviceAuth(p)
  \/ PollPending(p) \/ PollGranted(p) \/ PollEnds(p) \/ Cancel(p) \/ ReadPrior(p)
  \/ StoreTokens(p) \/ ClearApiKey(p) \/ ClearPendingDeviceAuth(p) \/ RevokePrior(p)

ApiKeyLogin(p) == Probe(p) \/ KeyClearsAuth(p) \/ KeyClearsPending(p) \/ SetApiKey(p)

Logout(p) ==
  \/ LogoutRevokes(p) \/ LogoutClearsAuth(p) \/ LogoutClearsKey(p)
  \/ LogoutClearsPending(p) \/ LogoutResets(p)

Next ==
  \/ \E p \in Procs : Begin(p) \/ DeviceLogin(p) \/ ApiKeyLogin(p) \/ Logout(p) \/ Crash(p)
  \/ RefreshStored \/ PendingExpires
  \/ \E c \in Codes : Answer(c)

Spec == Init /\ [][Next]_vars

-----------------------------------------------------------------------------
(* Properties.                                                              *)

\* "The safe-rebind invariant: revoke fires only after new tokens are durable"
\* (auth/poll.ts:99): the stored session is never one that a login has revoked,
\* however old the refresh token it remembered, and whoever refreshed, logged
\* in or logged out since it remembered it.
SafeRebind == auth \notin rebound

\* Tokens the server granted to a device login reach the storage, unless the
\* answer was lost, the user cancelled, or the process died: of two commands
\* that drive the same code one stores them and the other gives up.
InHand(c) == \E p \in Procs : flow[p].code = c /\ flow[p].tokens # Nothing

GrantKept ==
  \A c \in Codes : code[c] = "exchanged" => c \in kept \cup dropped \/ InHand(c)

\* A login that has ended leaves no record of its code behind, "so a later
\* auth status reports the saved tokens instead of a stale pending frame"
\* (auth-login.ts): a stored code that was exchanged belongs to a command that
\* is still storing its tokens, or to tokens that were lost.
NoStalePending ==
  pending # Nothing /\ code[pending] = "exchanged" => pending \in dropped \/ InHand(pending)

\* The two together.
LoginKept == GrantKept /\ NoStalePending

\* "Single active auth method at a time" (auth/poll.ts:102): when no command is
\* running, an API key and a session are not both stored.
OneActiveMethod ==
  (\A p \in Procs : At(p, "idle")) => ~ (auth # Nothing /\ apiKey)
=============================================================================
