---------------------------- MODULE AepCredentials ----------------------------
(***************************************************************************)
(* What the aep commands keep of one Service: the setting that holds the   *)
(* agent's identity and its credentials (aep/storage.ts, the AEP part of   *)
(* utils/storage.ts), the secrets it refers to, and the commands that read *)
(* and write it (cli/src/commands/aep), each in a process of its own, with *)
(* logins and logouts beside them.                                         *)
(*                                                                         *)
(* An identity is the user the platform gave it to.  A write of the state  *)
(* stores every credential anew, so a secret is the credential and the     *)
(* number of the write that stored it.  The lifecycle of one secret is     *)
(* that of CredentialStorage.  Platform and Service answer at will.        *)
(***************************************************************************)
EXTENDS Naturals, Sequences, FiniteSets

CONSTANTS
  Procs,        \* processes, each running one command at a time
  Users,        \* users of the platform
  None,         \* no user, no identity
  MaxIssued,    \* bound on the credentials the Service issues
  MaxWrites,    \* number of writes whose secrets can be told apart
  MaxCommands,  \* bound on the commands
  MaxEvents     \* bound on logins beside the commands, failed writes, crashes

ASSUME NoneAssumption == None \notin Users
ASSUME BoundsAssumption ==
  /\ MaxIssued \in Nat \ {0} /\ MaxWrites \in Nat /\ MaxCommands \in Nat
  /\ MaxEvents \in Nat

Ids == 1..MaxIssued
NoCredential == 0
NoWrite == 0
Refs == (1..MaxWrites) \X Ids

VARIABLES
  stored,     \* the "aep.state" setting
  vault,      \* secrets the vault can give
  session,    \* the user logged in, or None
  issued,     \* the user of each credential the Service has issued
  expired,    \* credentials past their expiresAt
  cmd,        \* the command of each process
  overtaken,  \* history: kinds of writes made over a state they had not read
  strayed,    \* history: an identity was given to a command of another user
  outlived,   \* history: a command wrote for a user no longer logged in, or a logout was cut
  kept,       \* history: the credentials saved and not revoked or cleared
  commands, events

history == <<overtaken, strayed, outlived, kept>>
bounds == <<commands, events>>
vars == <<stored, vault, session, issued, expired, cmd, history, bounds>>

\* AepPersistedState; "write" is the write that made its secrets.
State == [owner : Users, identity : Users \cup {None}, ids : SUBSET Ids, write : 0..MaxWrites]
NoState == [owner |-> None, identity |-> None, ids |-> {}, write |-> NoWrite]
Created(user) == [NoState EXCEPT !.owner = user]

RefsOf(state) == {state.write} \X state.ids

Kinds == {"enroll", "status", "grant", "revoke", "fetch", "logout"}
Operations == {"none", "inspect", "list", "usable", "find", "saveCredential", "identity", "saveIdentity", "delete"}

\* Of storage: "load" and "secrets" are state(), "write" to "discard"
\* setAepState, "clear" and "forget" clearAepState, "delete" and "rewrite"
\* deleteAepCredentials, "look" findAepIdentity.  The others are the flow's.
Labels == {"idle", "load", "secrets", "write", "upsert", "discard", "clear", "forget", "delete",
           "rewrite", "look", "recover", "status", "sign", "revoke", "present", "signout"}

\* After "discard": the empty state is created, then changed, then the
\* operation returns.
Continuations == {"create", "change", "return"}

Command == [kind     : Kinds \cup {"none"},
            owner    : Users \cup {None},     \* AepOwner, asked for at the start
            at       : Labels,
            op       : Operations,
            then     : Continuations,
            view     : State \cup {NoState},  \* the state in memory
            base     : State \cup {NoState},  \* the state it was made from
            old      : SUBSET Refs,           \* what "discard" deletes
            identity : Users \cup {None},
            cred     : {NoCredential} \cup Ids,
            sel      : SUBSET Ids,            \* what revoke was asked for
            again    : BOOLEAN]               \* recoveredStaleIdentity

NoCommand == [kind |-> "none", owner |-> None, at |-> "idle", op |-> "none", then |-> "return",
              view |-> NoState, base |-> NoState, old |-> {}, identity |-> None,
              cred |-> NoCredential, sel |-> {}, again |-> FALSE]

TypeOK ==
  /\ stored \in State \cup {NoState}
  /\ vault \subseteq Refs
  /\ session \in Users \cup {None}
  /\ issued \in Seq(Users) /\ Len(issued) <= MaxIssued
  /\ expired \subseteq Ids
  /\ cmd \in [Procs -> Command]
  /\ overtaken \subseteq {"save", "revoke", "clear"}
  /\ strayed \in BOOLEAN /\ outlived \in BOOLEAN
  /\ kept \subseteq Ids
  /\ commands \in 0..MaxCommands /\ events \in 0..MaxEvents

Init ==
  /\ stored = NoState
  /\ vault = {}
  /\ session \in Users
  /\ issued = <<>>
  /\ expired = {}
  /\ cmd = [p \in Procs |-> NoCommand]
  /\ overtaken = {} /\ strayed = FALSE /\ outlived = FALSE /\ kept = {}
  /\ commands = 0 /\ events = 0

-----------------------------------------------------------------------------
(* The commands between their storage operations.                           *)

Do(c, op) ==
  [c EXCEPT !.op = op, !.view = NoState, !.base = NoState, !.old = {}, !.then = "return",
            !.at = IF op = "identity" THEN "look" ELSE IF op = "delete" THEN "delete" ELSE "load"]

At(c, label) ==
  [c EXCEPT !.at = label, !.op = "none", !.view = NoState, !.base = NoState, !.old = {}, !.then = "return"]

\* The newest usable credential of a purged state (findUsableCredential).
Newest(ids) == IF ids = {} THEN NoCredential ELSE CHOOSE i \in ids : \A j \in ids : j <= i

\* Where a command goes on when its storage operation returns.

AfterEnroll(c) ==
  CASE c.op = "list" -> Do(c, "identity")
    [] c.op = "identity" /\ c.identity = None -> At(c, "recover")
    [] OTHER -> At(c, "status")

AfterStatus(c) ==
  IF c.op = "identity" /\ c.identity # None THEN At(c, "status") ELSE NoCommand

AfterGrant(c) ==
  IF c.op = "identity" /\ c.identity # None THEN At(c, "status") ELSE NoCommand

AfterRevoke(c) ==
  CASE c.op = "identity" /\ c.identity # None -> At(c, "sign")
    [] c.op = "find" /\ c.sel \subseteq c.view.ids -> At(c, "revoke")
    [] OTHER -> NoCommand

\* The SDK caches what it inspects, looks for a credential to present, and signs
\* with the identity when there is none.
AfterFetch(c) ==
  LET newest == Newest(c.view.ids) IN
  CASE c.op = "inspect" -> Do(c, "usable")
    [] c.op = "usable" /\ newest # NoCredential -> [At(c, "present") EXCEPT !.cred = newest]
    [] c.op = "usable" /\ newest = NoCredential -> Do(c, "identity")
    [] c.op = "identity" /\ c.identity = None -> At(c, "recover")
    [] OTHER -> At(c, "sign")

Returned(c) ==
  CASE c.kind = "enroll" -> AfterEnroll(c)
    [] c.kind = "status" -> AfterStatus(c)
    [] c.kind = "grant" -> AfterGrant(c)
    [] c.kind = "revoke" -> AfterRevoke(c)
    [] c.kind = "fetch" -> AfterFetch(c)
    [] c.kind = "logout" -> NoCommand

Become(p, c) == cmd' = [cmd EXCEPT ![p] = c]

Local == UNCHANGED <<stored, vault, session, issued, expired, history, bounds>>

\* The storage operation a command begins with; a fetch may find the inspection
\* in its cache.
First(kind) ==
  CASE kind = "enroll" -> {"list"}
    [] kind = "fetch" -> {"inspect", "usable"}
    [] OTHER -> {"identity"}

\* runStatus, runGrant, runRevoke, runEnroll, runFetch: a session, and the user
\* it belongs to (stores).
Begin(p) ==
  /\ cmd[p].at = "idle"
  /\ commands < MaxCommands /\ commands' = commands + 1
  /\ session # None
  /\ \E kind \in Kinds \ {"logout"} :
       \E sel \in IF kind = "revoke" THEN {Ids} \cup {{i} : i \in DOMAIN issued} ELSE {{}} :
         \E op \in First(kind) :
           Become(p, Do([NoCommand EXCEPT !.kind = kind, !.owner = session, !.sel = sel], op))
  /\ UNCHANGED <<stored, vault, session, issued, expired, history, events>>

\* getOrCreateIdentity, or the lookup fetch makes instead: the identity is that
\* of the user whose session the headers carry.
Recover(p) ==
  LET c == cmd[p] IN
  /\ c.at = "recover"
  /\ session # None
  /\ Become(p, [Do(c, "saveIdentity") EXCEPT !.identity = session])
  /\ strayed' = (strayed \/ session # c.owner)
  /\ UNCHANGED <<stored, vault, session, issued, expired, overtaken, outlived, kept, bounds>>

\* statusService: the Service knows the agent or the command goes on without.
\* What enroll does then, approval, enrollment, leaves no state here.
StatusKnown(p) ==
  LET c == cmd[p] IN
  /\ c.at = "status"
  /\ c.kind # "enroll"
  /\ session = c.identity
  /\ Become(p, IF c.kind = "status" THEN Do(c, "list") ELSE At(c, "sign"))
  /\ Local

\* agent_identity_not_found: enroll asks for an identity once more.
StatusStale(p) ==
  LET c == cmd[p] IN
  /\ c.at = "status"
  /\ c.kind = "enroll" /\ ~ c.again
  /\ session # None
  /\ Become(p, [At(c, "recover") EXCEPT !.again = TRUE])
  /\ Local

\* approvedAssertion or directAssertion, then grantService: the platform signs
\* for an identity of the user who is logged in.
SignGrant(p) ==
  LET c == cmd[p] IN
  /\ c.at = "sign" /\ c.kind = "grant"
  /\ session = c.identity
  /\ Len(issued) < MaxIssued
  /\ issued' = Append(issued, c.identity)
  /\ Become(p, [Do(c, "saveCredential") EXCEPT !.cred = Len(issued) + 1])
  /\ UNCHANGED <<stored, vault, session, expired, history, bounds>>

SignRevoke(p) ==
  LET c == cmd[p] IN
  /\ c.at = "sign" /\ c.kind = "revoke"
  /\ session = c.identity
  /\ Become(p, IF c.sel = Ids THEN At(c, "revoke") ELSE Do(c, "find"))
  /\ Local

\* revokeService.
Revoke(p) ==
  /\ cmd[p].at = "revoke"
  /\ Become(p, Do(cmd[p], "delete"))
  /\ Local

\* Anything that ends the command: an answer that is an error, a denied,
\* cancelled or pending approval, or the end of the work.
End(p) ==
  /\ cmd[p].at \in {"recover", "status", "sign", "revoke", "present"}
  /\ Become(p, NoCommand)
  /\ Local

-----------------------------------------------------------------------------
(* AepStorage.state() and setAepState.                                      *)

\* Mistake: the state of any user is taken.
AnyOwner(state, user) == TRUE

SameOwner(state, user) == state.owner = user

\* Mistake: a credential is saved only beside others.
ChangedBeside(c, state) ==
  CASE c.op = "saveCredential" /\ state.ids # {} -> [state EXCEPT !.ids = (@ \ expired) \cup {c.cred}]
    [] c.op = "saveIdentity" -> [state EXCEPT !.identity = c.identity]
    [] c.op = "inspect" -> state
    [] OTHER -> [state EXCEPT !.ids = @ \ expired]

\* The operation's change of the state in memory; credentials() purge first.
Changed(c, state) ==
  CASE c.op = "saveCredential" -> [state EXCEPT !.ids = (@ \ expired) \cup {c.cred}]
    [] c.op = "saveIdentity" -> [state EXCEPT !.identity = c.identity]
    [] c.op = "inspect" -> state
    [] OTHER -> [state EXCEPT !.ids = @ \ expired]

ToChange(c, state) ==
  [c EXCEPT !.at = "write", !.then = "return", !.base = state, !.view = Changed(c, state)]

ToCreate(c) ==
  [c EXCEPT !.at = "write", !.then = "change", !.base = NoState, !.view = Created(c.owner)]

ToClear(c, then) == [c EXCEPT !.at = "clear", !.then = then]

Load(p) ==
  LET c == cmd[p] IN
  /\ c.at = "load"
  /\ Become(p, IF stored = NoState THEN ToCreate(c) ELSE [c EXCEPT !.at = "secrets", !.view = stored])
  /\ Local

\* getAepState reads every secret, and fails when one is missing; the state of
\* another user is cleared after that.
ReadSecrets(p) ==
  LET c == cmd[p] IN
  /\ c.at = "secrets"
  /\ Become(p, IF ~ RefsOf(c.view) \subseteq vault THEN NoCommand
               ELSE IF SameOwner(c.view, c.owner) THEN ToChange(c, c.view)
               ELSE ToClear(c, "create"))
  /\ Local

\* Secrets of a write that is in no state, no memory and not in the vault.
UsedWrites ==
  {stored.write} \cup {r[1] : r \in vault}
    \cup UNION {{cmd[p].view.write, cmd[p].base.write} \cup {r[1] : r \in cmd[p].old} : p \in Procs}

FreshWrite == CHOOSE w \in (1..MaxWrites) \ UsedWrites : \A v \in (1..MaxWrites) \ UsedWrites : w <= v

\* setAepState reads the previous value and stores every secret anew.
Prepare(p) ==
  LET c == cmd[p]
      new == [c.view EXCEPT !.write = IF c.view.ids = {} THEN NoWrite ELSE FreshWrite] IN
  /\ c.at = "write"
  /\ c.view.ids # {} => (1..MaxWrites) \ UsedWrites # {}
  /\ vault' = vault \cup RefsOf(new)
  /\ Become(p, [c EXCEPT !.at = "upsert", !.view = new, !.old = RefsOf(stored)])
  /\ UNCHANGED <<stored, session, issued, expired, history, bounds>>

\* A secret or the setting cannot be written: what was created is discarded.
Abandon(p) ==
  LET c == cmd[p] IN
  /\ c.at = "upsert"
  /\ events < MaxEvents /\ events' = events + 1
  /\ vault' = vault \ RefsOf(c.view)
  /\ Become(p, NoCommand)
  /\ UNCHANGED <<stored, session, issued, expired, history, commands>>

Overtaking(c, kind) == overtaken' = IF stored # c.base THEN overtaken \cup {kind} ELSE overtaken

Outliving(c) == outlived' = (outlived \/ session # c.owner)

Upsert(p) ==
  LET c == cmd[p] IN
  /\ c.at = "upsert"
  /\ stored' = c.view
  /\ Become(p, [c EXCEPT !.at = "discard"])
  /\ kept' = IF c.op = "saveCredential" /\ c.then = "return" THEN kept \cup {c.cred} ELSE kept
  /\ Overtaking(c, "save")
  /\ Outliving(c)
  /\ UNCHANGED <<vault, session, issued, expired, strayed, bounds>>

\* discardSecrets, and what comes after it.
Discard(p) ==
  LET c == cmd[p] IN
  /\ c.at = "discard"
  /\ vault' = vault \ c.old
  /\ LET d == [c EXCEPT !.old = {}] IN
     Become(p, CASE c.then = "create" -> ToCreate(d)
                 [] c.then = "change" -> ToChange(d, Created(c.owner))
                 [] c.then = "return" -> Returned(d))
  /\ UNCHANGED <<stored, session, issued, expired, history, bounds>>

-----------------------------------------------------------------------------
(* clearAepState, findAepIdentity and deleteAepCredentials.                 *)

ClearRead(p) ==
  LET c == cmd[p] IN
  /\ c.at = "clear"
  /\ Become(p, [c EXCEPT !.at = "forget", !.base = stored, !.old = RefsOf(stored)])
  /\ Local

Forget(p) ==
  LET c == cmd[p] IN
  /\ c.at = "forget"
  /\ stored' = NoState
  /\ kept' = {}
  /\ Overtaking(c, "clear")
  /\ Become(p, [c EXCEPT !.at = "discard", !.base = NoState])
  /\ UNCHANGED <<vault, session, issued, expired, strayed, outlived, bounds>>

\* The stored state is another user's.
Foreign(c) == stored # NoState /\ ~ SameOwner(stored, c.owner)

FindIdentity(p) ==
  LET c == cmd[p] IN
  /\ c.at = "look"
  /\ Become(p, IF Foreign(c) THEN ToClear(c, "return")
               ELSE Returned([c EXCEPT !.identity = stored.identity]))
  /\ Local

\* deleteAepCredentials: nothing to do without a record.
DeleteRead(p) ==
  LET c == cmd[p] IN
  /\ c.at = "delete"
  /\ Become(p, IF Foreign(c) THEN ToClear(c, "return")
               ELSE IF stored.ids = {} THEN Returned(c)
               ELSE [c EXCEPT !.at = "rewrite", !.base = stored, !.view = [stored EXCEPT !.ids = @ \ c.sel],
                              !.old = {r \in RefsOf(stored) : r[2] \in c.sel}])
  /\ Local

\* The records that stay keep the secrets they had.
Rewrite(p) ==
  LET c == cmd[p] IN
  /\ c.at = "rewrite"
  /\ stored' = [c.view EXCEPT !.write = IF c.view.ids = {} THEN NoWrite ELSE @]
  /\ kept' = kept \ c.sel
  /\ Overtaking(c, "revoke")
  /\ Outliving(c)
  /\ Become(p, [c EXCEPT !.at = "discard"])
  /\ UNCHANGED <<vault, session, issued, expired, strayed, bounds>>

-----------------------------------------------------------------------------
(* Logins, logouts, time and crashes.                                       *)

Login(user) ==
  /\ events < MaxEvents /\ events' = events + 1
  /\ session # user
  /\ session' = user
  /\ UNCHANGED <<stored, vault, issued, expired, cmd, history, commands>>

BeginLogout(p) ==
  /\ cmd[p].at = "idle"
  /\ commands < MaxCommands /\ commands' = commands + 1
  /\ Become(p, [NoCommand EXCEPT !.kind = "logout", !.at = "signout"])
  /\ UNCHANGED <<stored, vault, session, issued, expired, history, events>>

\* runAuthLogout: the session is cleared first.  What follows in the command, the reset of the
\* vault and of the database with the whole state in it, is left to SessionReset and VaultStartup.
Signout(p) ==
  /\ cmd[p].at = "signout"
  /\ session' = None
  /\ Become(p, ToClear(cmd[p], "return"))
  /\ UNCHANGED <<stored, vault, issued, expired, history, bounds>>

\* Left out where nobody could see it: no state holds the credential.
Expire(i) ==
  /\ i \in stored.ids \ expired
  /\ expired' = expired \cup {i}
  /\ UNCHANGED <<stored, vault, session, issued, cmd, history, bounds>>

\* The process dies, or a read or write throws where Abandon does not say so.
Crash(p) ==
  /\ cmd[p].at # "idle"
  /\ events < MaxEvents /\ events' = events + 1
  /\ outlived' = (outlived \/ cmd[p].kind = "logout")
  /\ Become(p, NoCommand)
  /\ UNCHANGED <<stored, vault, session, issued, expired, overtaken, strayed, kept, commands>>

Flow(p) ==
  Begin(p) \/ Recover(p) \/ StatusKnown(p) \/ StatusStale(p) \/ SignGrant(p) \/ SignRevoke(p)
    \/ Revoke(p) \/ End(p) \/ BeginLogout(p) \/ Signout(p)

Store(p) ==
  Load(p) \/ ReadSecrets(p) \/ Prepare(p) \/ Abandon(p) \/ Upsert(p) \/ Discard(p)
    \/ ClearRead(p) \/ Forget(p) \/ FindIdentity(p) \/ DeleteRead(p) \/ Rewrite(p)

Next ==
  \/ \E p \in Procs : Flow(p) \/ Store(p) \/ Crash(p)
  \/ \E user \in Users : Login(user)
  \/ \E i \in Ids : Expire(i)

Spec == Init /\ [][Next]_vars

-----------------------------------------------------------------------------
(* Properties.                                                              *)

\* The stored credentials can be read, without which every further aep command
\* of the user fails (getAepState).  Saves beside saves, clears and crashes
\* keep this; only a revoke that writes back a state it read before another
\* process saved a new one breaks it (deleteAepCredentials).
CredentialsReadable == "revoke" \notin overtaken => RefsOf(stored) \subseteq vault

\* A credential that was saved is kept until it is revoked, expires or is
\* cleared with the state, and one that was revoked does not come back, unless
\* a process wrote over a state it had not read (AepStorage reads, changes and
\* writes without a transaction).
GrantedKept == overtaken = {} => stored.ids \ expired = kept \ expired

\* What was granted and not given up can be found and read.
AccessKept == CredentialsReadable /\ GrantedKept

\* "Stored state belongs to the canonical InFlow Platform origin and
\* authenticated user." (cli/README.md, Access and credential storage): every
\* identity and credential is its owner's and no command presents another
\* user's, except after a command began as one user and got its identity as
\* another.
OwnedByUser ==
  ~ strayed =>
    /\ stored.identity \in {None, stored.owner}
    /\ \A i \in stored.ids : issued[i] = stored.owner
    /\ \A p \in Procs : cmd[p].at = "present" => issued[cmd[p].cred] = cmd[p].owner

\* "Logout clears it." (ibid.): a state is left behind only when a command was
\* still writing for a user no longer logged in, or the logout was cut short.
ClearedByLogout ==
  session = None /\ ~ outlived /\ (\A p \in Procs : cmd[p].kind # "logout") => stored = NoState

OwnState == OwnedByUser /\ ClearedByLogout
=============================================================================
