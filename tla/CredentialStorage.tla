-------------------------- MODULE CredentialStorage --------------------------
(***************************************************************************)
(* The credential storage of the CLI: class Storage (utils/storage.ts) over *)
(* the synchronous secret-lifecycle coordinator (secure-storage/            *)
(* lifecycle.ts), one SQLite file and one vault, shared by every CLI        *)
(* process of the user.                                                    *)
(*                                                                         *)
(* Storage is synchronous, so a process runs one operation at a time; the  *)
(* processes interleave between SQLite transactions and vault calls, each  *)
(* of which is one step here.  A secret is known by its opaque reference,  *)
(* drawn at random and never drawn twice.  A setting (the JSON row under a *)
(* slot) is abstracted to the set of references it holds: the access and   *)
(* the refresh token for "auth", one reference for the other slots.  Two   *)
(* settings of "auth" with the same access reference are the same set, so  *)
(* comparing sets is comparing session identifiers.                        *)
(*                                                                         *)
(* References are compared for equality only, so numbering them in the     *)
(* order in which they are drawn loses nothing: a write draws the lowest   *)
(* numbers left, the access token's before the refresh token's, and every  *)
(* loop visits its references in that order.                               *)
(***************************************************************************)
EXTENDS Naturals, FiniteSets

CONSTANTS
  Procs,       \* CLI processes (a terminal, an MCP server, an SDK host)
  Refs,        \* secret references; their number bounds the writes
  Slots,       \* the settings in play
  Ops,         \* the operations in play: "login", "refresh", "set", "clear"
  MaxCrashes,  \* bound on process crashes
  MaxFaults    \* bound on failed vault calls and failed transactions

NoRef == 0

AllSlots == {"auth", "api_key", "pending_device"}

ASSUME RefsAssumption == Refs \subseteq Nat \ {0}
ASSUME SlotsAssumption == Slots \subseteq AllSlots
ASSUME BoundsAssumption == MaxCrashes \in Nat /\ MaxFaults \in Nat

VARIABLES
  setting,  \* settings table: what each slot refers to, {} when absent
  row,      \* secret_lifecycle table: state of each reference, "none" when absent
  vault,    \* references the vault holds a secret for
  issued,   \* references drawn so far
  pc,       \* where each process is
  job,      \* the operation each process is running
  login,    \* history: the login the stored session descends from
  swept,    \* history: references some recovery listed
  crashes,  \* crashes so far
  faults    \* failed calls so far

vars == <<setting, row, vault, issued, pc, job, login, swept, crashes, faults>>

disk == <<setting, row, vault>>

(***************************************************************************)
(* "closed": not started or not initialised; "ready": between operations.  *)
(*   recover, recoverRow            recoverInterruptedWork                 *)
(*   refreshing, granted            the refresh-token call of session.ts   *)
(*   insert, put, activate          lifecycle.create                       *)
(*   commit                         the write of the setting               *)
(*   unset                          clearX between its read and its delete *)
(*   mark, erase, drop              discardSecrets / lifecycle.delete      *)
(***************************************************************************)
PCs == {"closed", "ready", "recover", "recoverRow", "refreshing", "granted",
        "insert", "put", "activate", "commit", "unset", "mark", "erase", "drop"}

Kinds == {"none", "login", "refresh", "set", "clear"}

Job == [kind     : Kinds,
        slot     : AllSlots,
        expected : SUBSET Refs,      \* session the caller refreshes
        line     : SUBSET Refs,      \* login that session descends from
        prev     : SUBSET Refs,      \* what the setting held when it was read
        news     : SUBSET Refs,      \* references drawn by the operation
        todo     : SUBSET Refs,      \* references a loop has still to visit
        at       : Refs \cup {NoRef}]\* reference the loop is working on

NoJob == [kind |-> "none", slot |-> "auth", expected |-> {}, line |-> {}, prev |-> {},
          news |-> {}, todo |-> {}, at |-> NoRef]

TypeOK ==
  /\ setting \in [AllSlots -> SUBSET Refs]
  /\ row \in [Refs -> {"none", "pending", "active", "deleting"}]
  /\ vault \in SUBSET Refs
  /\ issued \in SUBSET Refs
  /\ pc \in [Procs -> PCs]
  /\ job \in [Procs -> Job]
  /\ login \in SUBSET Refs
  /\ swept \in SUBSET Refs
  /\ crashes \in 0..MaxCrashes
  /\ faults \in 0..MaxFaults

Init ==
  /\ setting = [s \in AllSlots |-> {}]
  /\ row = [r \in Refs |-> "none"]
  /\ vault = {}
  /\ issued = {}
  /\ pc = [p \in Procs |-> "closed"]
  /\ job = [p \in Procs |-> NoJob]
  /\ login = {}
  /\ swept = {}
  /\ crashes = 0
  /\ faults = 0

Goto(p, label) == pc' = [pc EXCEPT ![p] = label]

\* setAuth writes two secrets, setApiKey and setPendingDeviceAuth one.
Width(s) == IF s = "auth" THEN 2 ELSE 1

\* UPDATE ... SET state: no effect on a row that is gone.
SetState(r, state) ==
  row' = [row EXCEPT ![r] = IF @ = "none" THEN "none" ELSE state]

\* The reference a loop visits next.
IsNext(r, todo) == r \in todo /\ \A q \in todo : r <= q

Fault == faults < MaxFaults /\ faults' = faults + 1

-----------------------------------------------------------------------------
(* Storage.initialize: list what was interrupted, then remove it.           *)

\* Mistake: Recovery looks for pending rows only.
OnlyPendingInterrupted == {r \in Refs : row[r] = "pending"}

Interrupted == {r \in Refs : row[r] \in {"pending", "deleting"}}

Open(p) ==
  /\ pc[p] = "closed"
  /\ job' = [job EXCEPT ![p].todo = Interrupted]
  /\ swept' = swept \cup Interrupted
  /\ Goto(p, "recover")
  /\ UNCHANGED <<disk, issued, login, crashes, faults>>

RecoverSecret(p) ==
  /\ pc[p] = "recover"
  /\ \E r \in Refs :
       /\ IsNext(r, job[p].todo)
       /\ vault' = vault \ {r}
       /\ job' = [job EXCEPT ![p].at = r]
  /\ Goto(p, "recoverRow")
  /\ UNCHANGED <<setting, row, issued, login, swept, crashes, faults>>

RecoverRow(p) ==
  /\ pc[p] = "recoverRow"
  /\ row' = [row EXCEPT ![job[p].at] = "none"]
  /\ job' = [job EXCEPT ![p].todo = @ \ {job[p].at}, ![p].at = NoRef]
  /\ Goto(p, "recover")
  /\ UNCHANGED <<setting, vault, issued, login, swept, crashes, faults>>

\* The vault call throws (with or without effect) or the row cannot be removed:
\* initialize throws, and with it the operation that called it.
RecoverFail(p) ==
  /\ Fault
  /\ \/ /\ pc[p] = "recover"
        /\ \E r \in Refs : IsNext(r, job[p].todo) /\ vault' \in {vault, vault \ {r}}
     \/ pc[p] = "recoverRow" /\ UNCHANGED vault
  /\ job' = [job EXCEPT ![p] = NoJob]
  /\ Goto(p, "closed")
  /\ UNCHANGED <<setting, row, issued, login, swept, crashes>>

RecoverDone(p) ==
  /\ pc[p] = "recover"
  /\ job[p].todo = {}
  /\ Goto(p, "ready")
  /\ UNCHANGED <<disk, issued, job, login, swept, crashes, faults>>

-----------------------------------------------------------------------------
(* The writers.                                                             *)

\* Draw the references of a write; fields tells what the caller knows.
BeginWrite(p, s, kind, expected, line, prev) ==
  \E new \in SUBSET (Refs \ issued) :
    /\ Cardinality(new) = Width(s)
    /\ \A r \in new, q \in Refs \ (issued \cup new) : r < q
    /\ issued' = issued \cup new
    /\ job' = [job EXCEPT ![p] =
         [kind |-> kind, slot |-> s, expected |-> expected,
          line |-> IF kind = "login" THEN new ELSE line,
          prev |-> prev, news |-> new, todo |-> new, at |-> NoRef]]
    /\ Goto(p, "insert")
    /\ UNCHANGED <<disk, login, swept, crashes, faults>>

\* setAuth(tokens) without an expected session.
BeginLogin(p) ==
  /\ "login" \in Ops /\ "auth" \in Slots
  /\ pc[p] = "ready"
  /\ BeginWrite(p, "auth", "login", {}, {}, {})

\* setApiKey, setPendingDeviceAuth: the previous value is read first, outside
\* the transaction that will replace it.
BeginSet(p) ==
  /\ "set" \in Ops
  /\ pc[p] = "ready"
  /\ \E s \in Slots \ {"auth"} : BeginWrite(p, s, "set", {}, {}, setting[s])

\* createAccessTokenProvider: getAuthSession.
StartRefresh(p) ==
  /\ "refresh" \in Ops /\ "auth" \in Slots
  /\ pc[p] = "ready"
  /\ setting["auth"] # {}
  /\ job' = [job EXCEPT ![p] = [NoJob EXCEPT !.kind = "refresh",
                                             !.expected = setting["auth"],
                                             !.line = login]]
  /\ Goto(p, "refreshing")
  /\ UNCHANGED <<disk, issued, login, swept, crashes, faults>>

\* getAuthToken(id, "refresh"): read the secret, then check that the session is
\* still the one asked for.
ReadRefreshToken(p) ==
  /\ pc[p] = "refreshing"
  /\ setting["auth"] = job[p].expected
  /\ setting["auth"] \subseteq vault
  /\ Goto(p, "granted")
  /\ UNCHANGED <<disk, issued, job, login, swept, crashes, faults>>

\* ... which throws when the session changed, the secret is missing or the vault
\* fails.
RefuseRefreshToken(p) ==
  /\ pc[p] = "refreshing"
  /\ \/ setting["auth"] # job[p].expected /\ UNCHANGED faults
     \/ ~ setting["auth"] \subseteq vault /\ UNCHANGED faults
     \/ Fault
  /\ job' = [job EXCEPT ![p] = NoJob]
  /\ Goto(p, "ready")
  /\ UNCHANGED <<disk, issued, login, swept, crashes>>

\* setAuth(refreshed, id).
BeginRefresh(p) ==
  /\ pc[p] = "granted"
  /\ BeginWrite(p, "auth", "refresh", job[p].expected, job[p].line, {})

\* The server refuses the refresh token: nothing is written.
RefreshRejected(p) ==
  /\ pc[p] = "granted"
  /\ job' = [job EXCEPT ![p] = NoJob]
  /\ Goto(p, "ready")
  /\ UNCHANGED <<disk, issued, login, swept, crashes, faults>>

\* lifecycle.create: the "pending" row is committed before the secret exists.
InsertRow(p) ==
  /\ pc[p] = "insert"
  /\ \E r \in Refs :
       /\ IsNext(r, job[p].todo)
       /\ row' = [row EXCEPT ![r] = "pending"]
       /\ job' = [job EXCEPT ![p].at = r]
  /\ Goto(p, "put")
  /\ UNCHANGED <<setting, vault, issued, login, swept, crashes, faults>>

Put(p) ==
  /\ pc[p] = "put"
  /\ vault' = vault \cup {job[p].at}
  /\ Goto(p, "activate")
  /\ UNCHANGED <<setting, row, issued, job, login, swept, crashes, faults>>

\* The caller's catch block: discard every reference the operation drew.
Abandon(p) ==
  /\ job' = [job EXCEPT ![p].todo = job[p].news, ![p].at = NoRef]
  /\ Goto(p, "mark")

\* Mistake: A vault error during creation is swallowed.
PutErrorSwallowed(p) ==
  /\ pc[p] = "put"
  /\ Fault
  /\ vault' \in {vault, vault \cup {job[p].at}}
  /\ Goto(p, "activate")
  /\ UNCHANGED <<setting, row, issued, job, login, swept, crashes>>

\* The vault refuses, or answers too late: the secret may have been stored.
PutFail(p) ==
  /\ pc[p] = "put"
  /\ Fault
  /\ vault' \in {vault, vault \cup {job[p].at}}
  /\ Abandon(p)
  /\ UNCHANGED <<setting, row, issued, login, swept, crashes>>

Activate(p) ==
  /\ pc[p] = "activate"
  /\ SetState(job[p].at, "active")
  /\ job' = [job EXCEPT ![p].todo = @ \ {job[p].at}, ![p].at = NoRef]
  /\ Goto(p, IF job[p].todo = {job[p].at} THEN "commit" ELSE "insert")
  /\ UNCHANGED <<setting, vault, issued, login, swept, crashes, faults>>

\* Mistake: setAuth reads the previous session after its own upsert.
PreviousReadTooLate(p) == job[p].news

\* setAuth re-reads the setting inside its transaction; the others replace
\* whatever is there.
Replaced(p) == IF job[p].slot = "auth" THEN setting["auth"] ELSE job[p].prev

\* Mistake: A refresh does not compare the session it replaces.
SessionNotCompared(p) == FALSE

SessionChanged(p) ==
  /\ job[p].kind = "refresh"
  /\ setting["auth"] # job[p].expected

Commit(p) ==
  /\ pc[p] = "commit"
  /\ ~ SessionChanged(p)
  /\ setting' = [setting EXCEPT ![job[p].slot] = job[p].news]
  /\ login' = IF job[p].slot = "auth" THEN job[p].line ELSE login
  /\ job' = [job EXCEPT ![p].todo = Replaced(p)]
  /\ Goto(p, "mark")
  /\ UNCHANGED <<row, vault, issued, swept, crashes, faults>>

CommitRefused(p) ==
  /\ pc[p] = "commit"
  /\ SessionChanged(p)
  /\ Abandon(p)
  /\ UNCHANGED <<disk, issued, login, swept, crashes, faults>>

\* SQLite cannot commit one of the transactions of a write, that of a row or
\* that of the setting (busy, full): it is rolled back and the write throws.
CommitFail(p) ==
  /\ pc[p] \in {"insert", "activate", "commit"}
  /\ Fault
  /\ Abandon(p)
  /\ UNCHANGED <<disk, issued, login, swept, crashes>>

-----------------------------------------------------------------------------
(* clearAuth, clearApiKey, clearPendingDeviceAuth: read, delete, discard.   *)

BeginClear(p) ==
  /\ "clear" \in Ops
  /\ pc[p] = "ready"
  /\ \E s \in Slots :
       job' = [job EXCEPT ![p] = [NoJob EXCEPT !.kind = "clear", !.slot = s,
                                               !.prev = setting[s]]]
  /\ Goto(p, "unset")
  /\ UNCHANGED <<disk, issued, login, swept, crashes, faults>>

Unset(p) ==
  /\ pc[p] = "unset"
  /\ setting' = [setting EXCEPT ![job[p].slot] = {}]
  /\ login' = IF job[p].slot = "auth" THEN {} ELSE login
  /\ job' = [job EXCEPT ![p].todo = job[p].prev]
  /\ Goto(p, "mark")
  /\ UNCHANGED <<row, vault, issued, swept, crashes, faults>>

\* The setting cannot be deleted: clearX throws and discards nothing.
UnsetFail(p) ==
  /\ pc[p] = "unset"
  /\ Fault
  /\ job' = [job EXCEPT ![p] = NoJob]
  /\ Goto(p, "ready")
  /\ UNCHANGED <<disk, issued, login, swept, crashes>>

-----------------------------------------------------------------------------
(* discardSecrets: lifecycle.delete of each reference, failures swallowed.  *)

MarkDeleting(p) ==
  /\ pc[p] = "mark"
  /\ \E r \in Refs :
       /\ IsNext(r, job[p].todo)
       /\ SetState(r, "deleting")
       /\ job' = [job EXCEPT ![p].at = r]
  /\ Goto(p, "erase")
  /\ UNCHANGED <<setting, vault, issued, login, swept, crashes, faults>>

\* The row cannot be marked: the error is swallowed and the loop goes on with
\* the next reference.
MarkFail(p) ==
  /\ pc[p] = "mark"
  /\ Fault
  /\ \E r \in Refs :
       IsNext(r, job[p].todo) /\ job' = [job EXCEPT ![p].todo = @ \ {r}]
  /\ UNCHANGED <<disk, issued, pc, login, swept, crashes>>

Erase(p) ==
  /\ pc[p] = "erase"
  /\ vault' = vault \ {job[p].at}
  /\ Goto(p, "drop")
  /\ UNCHANGED <<setting, row, issued, job, login, swept, crashes, faults>>

\* The secret cannot be erased, or the row not removed after it was: swallowed
\* as well, and the row stays "deleting".
EraseFail(p) ==
  /\ Fault
  /\ \/ pc[p] = "erase" /\ vault' \in {vault, vault \ {job[p].at}}
     \/ pc[p] = "drop" /\ UNCHANGED vault
  /\ job' = [job EXCEPT ![p].todo = @ \ {job[p].at}, ![p].at = NoRef]
  /\ Goto(p, "mark")
  /\ UNCHANGED <<setting, row, issued, login, swept, crashes>>

DropRow(p) ==
  /\ pc[p] = "drop"
  /\ row' = [row EXCEPT ![job[p].at] = "none"]
  /\ job' = [job EXCEPT ![p].todo = @ \ {job[p].at}, ![p].at = NoRef]
  /\ Goto(p, "mark")
  /\ UNCHANGED <<setting, vault, issued, login, swept, crashes, faults>>

Finish(p) ==
  /\ pc[p] = "mark"
  /\ job[p].todo = {}
  /\ job' = [job EXCEPT ![p] = NoJob]
  /\ Goto(p, "ready")
  /\ UNCHANGED <<disk, issued, login, swept, crashes, faults>>

-----------------------------------------------------------------------------
Exit(p) ==
  /\ pc[p] = "ready"
  /\ Goto(p, "closed")
  /\ UNCHANGED <<disk, issued, job, login, swept, crashes, faults>>

Crash(p) ==
  /\ pc[p] \notin {"closed", "ready"}
  /\ crashes < MaxCrashes
  /\ crashes' = crashes + 1
  /\ job' = [job EXCEPT ![p] = NoJob]
  /\ Goto(p, "closed")
  /\ UNCHANGED <<disk, issued, login, swept, faults>>

Recover(p) == RecoverSecret(p) \/ RecoverRow(p) \/ RecoverFail(p) \/ RecoverDone(p)

Begin(p) == BeginLogin(p) \/ BeginSet(p) \/ StartRefresh(p) \/ BeginClear(p)

Refreshing(p) ==
  ReadRefreshToken(p) \/ RefuseRefreshToken(p) \/ BeginRefresh(p) \/ RefreshRejected(p)

Create(p) == InsertRow(p) \/ Put(p) \/ PutFail(p) \/ Activate(p)

Write(p) == Commit(p) \/ CommitRefused(p) \/ CommitFail(p) \/ Unset(p) \/ UnsetFail(p)

Discard(p) ==
  MarkDeleting(p) \/ MarkFail(p) \/ Erase(p) \/ EraseFail(p) \/ DropRow(p) \/ Finish(p)

Work(p) == Recover(p) \/ Refreshing(p) \/ Create(p) \/ Write(p) \/ Discard(p)

Next == \E p \in Procs : Open(p) \/ Begin(p) \/ Work(p) \/ Exit(p) \/ Crash(p)

Spec == Init /\ [][Next]_vars

(***************************************************************************)
(* A started operation runs on (synchronous code: nothing it waits for can *)
(* hold it for ever, vault calls end by their deadline), every command     *)
(* ends, and the user keeps using the CLI.                                 *)
(***************************************************************************)
Fairness ==
  \A p \in Procs : /\ WF_vars(Open(p))
                   /\ WF_vars(Work(p))
                   /\ SF_vars(Exit(p))

FairSpec == Spec /\ Fairness

-----------------------------------------------------------------------------
(* Properties.                                                              *)

\* References an operation of p has drawn and not yet stored or given up.
Making(p) == IF pc[p] \in {"insert", "put", "activate", "commit"} THEN job[p].news ELSE {}

\* References an operation of p is discarding.
Discarding(p) == IF pc[p] \in {"mark", "erase", "drop"} THEN job[p].todo ELSE {}

Referenced == UNION {setting[s] : s \in AllSlots}

\* No operation discards a secret that a setting refers to, whatever the other
\* processes wrote since the operation read the value it replaces
\* (discardSecrets of setAuth, setApiKey, clearAuth and the others).
DiscardSafe == \A p \in Procs : Discarding(p) \cap Referenced = {}

\* Why DiscardSafe holds: every reference has one owner at a time.  The
\* references a write has drawn are in no setting and in no other process's
\* hands until it commits; a value read for later (Held) belongs to the slot it
\* was read from and to no other.
Held(p) ==
  IF pc[p] \in {"insert", "put", "activate", "commit", "unset"} THEN job[p].prev ELSE {}

Ownership ==
  /\ \A s \in AllSlots : setting[s] \subseteq issued
  /\ \A p \in Procs : Making(p) \cup Held(p) \cup Discarding(p) \subseteq issued
  /\ \A s, t \in AllSlots : s # t => setting[s] \cap setting[t] = {}
  /\ \A p \in Procs, s \in AllSlots : Making(p) \cap setting[s] = {}
  /\ \A p \in Procs, s \in AllSlots : s # job[p].slot => Held(p) \cap setting[s] = {}
  /\ \A p \in Procs, s \in AllSlots : Discarding(p) \cap setting[s] = {}
  /\ \A p, q \in Procs : p # q => Making(p) \cap Making(q) = {}
  /\ \A p, q \in Procs : Making(p) \cap (Held(q) \cup Discarding(q)) = {}

\* A stored reference can be read back: its secret is in the vault and its row
\* is active, across crashes, vault failures and concurrent writers.  The one
\* exception is a reference that some process listed for recovery while its
\* creation was still running.
StoredSecretsReadable ==
  \A r \in Referenced \ swept : r \in vault /\ row[r] = "active"

\* Vault secrets that nothing accounts for: no setting refers to them, no
\* running operation owns them and no recovery will find their row.
Leaked ==
  {r \in vault \ (Referenced \cup swept) :
     /\ row[r] \notin {"pending", "deleting"}
     /\ \A p \in Procs : r \notin Making(p) \cup Discarding(p)}

\* The setting p is about to replace is not the one it has read: only setAuth
\* reads it in the transaction that replaces it.
Outdated(p) ==
  job[p].kind \in {"set", "clear"} /\ setting[job[p].slot] # job[p].prev

\* No step leaves a secret behind in the vault that nothing accounts for, with
\* three exceptions: a crash, a write that replaces a setting it has not read,
\* and a discarded reference whose row cannot be marked: it stays "active", and
\* the swallowed error was the last that is heard of it.  An error of the vault
\* or of any other transaction leaves a row for the next recovery, and setAuth
\* gives up its own two secrets when it loses.
NoSilentLeak ==
  [][\/ Leaked' \subseteq Leaked
     \/ \E p \in Procs :
          Crash(p) \/ MarkFail(p) \/ (Outdated(p) /\ (Commit(p) \/ Unset(p)))]_vars

\* The stored session behaves as the register of AuthSession: a refresh in
\* flight neither restores a logged-out session nor overwrites a login that
\* replaced it (packages/core/README.md:29-31).
Register == INSTANCE AuthSession WITH
              Sessions <- (SUBSET Refs) \ {{}}, None <- {},
              session <- setting["auth"], login <- login

SessionRegister == Register!Spec

\* Why it holds.  The session a refresh started from is matched to its login
\* until the commit compares it: while that session is stored, the login is
\* the one the refresh remembers, and no other write can store it again.
Refreshes(p) ==
  /\ job[p].kind = "refresh"
  /\ pc[p] \in {"refreshing", "granted", "insert", "put", "activate", "commit"}

Writes(p) == pc[p] \in {"insert", "put", "activate", "commit"}

Lineage ==
  /\ login \subseteq issued
  /\ \A p \in Procs : Writes(p) =>
       /\ job[p].news # {} /\ job[p].news \cap login = {}
       /\ job[p].slot = "auth" => job[p].kind \in {"login", "refresh"}
       /\ job[p].kind = "login" => job[p].line = job[p].news
  /\ \A p \in Procs : Refreshes(p) =>
       /\ job[p].expected # {} /\ job[p].expected \subseteq issued
       /\ setting["auth"] = job[p].expected => login = job[p].line
  /\ \A p, q \in Procs : Refreshes(p) => Making(q) \cap job[p].expected = {}

\* An interrupted creation or deletion does not stay in the database: as long
\* as the CLI is used and the vault answers in the end, its row is either
\* completed or removed by recoverInterruptedWork.
InterruptedWorkEnds ==
  \A r \in Refs : row[r] \in {"pending", "deleting"} ~> row[r] \in {"active", "none"}

\* recoverInterruptedWork removes what was interrupted: the reference it is
\* removing does not belong to a creation that is still running in another
\* process (lifecycle.test.ts:109 calls it interrupted work).
RecoveryFindsInterruptedWork ==
  \A p, q \in Procs : pc[p] = "recoverRow" => job[p].at \notin Making(q)
=============================================================================
