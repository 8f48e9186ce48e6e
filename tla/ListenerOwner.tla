---------------------------- MODULE ListenerOwner ----------------------------
(***************************************************************************)
(* How macOS is asked which process listens on a vault socket              *)
(* (listener_info in native/vault_peer_darwin.c), before a daemon that     *)
(* cannot be verified is told to end (vault-peer-recovery, the model       *)
(* VaultStartup).  The kernel has no such question: every process of the   *)
(* user is looked through for a socket bound to that name, while daemons   *)
(* end, others start with their pids, and the name is bound again.         *)
(***************************************************************************)
EXTENDS Naturals

CONSTANTS
  Pids,
  Programs,
  MaxStarts,   \* bound on the processes started
  Nobody

VARIABLES
  program,  \* what each process runs
  path,     \* the process whose socket has the name, living or not, or Nobody
  process,  \* the process that has each pid
  starts,   \* processes started so far
  scan      \* the search

vars == <<program, path, process, starts, scan>>

Processes == 1..MaxStarts   \* a process is known by the time it was started

\* Nobody is no pid, and no process that has one.
ConstantsAssumption ==
  /\ MaxStarts \in Nat
  /\ Nobody \notin Pids \cup [born : Processes, listens : BOOLEAN]

TypeOK ==
  /\ program \in [Processes -> Programs]
  /\ path \in Processes \cup {Nobody}
  /\ process \in [Pids -> [born : Processes, listens : BOOLEAN] \cup {Nobody}]
  /\ starts \in 0..MaxStarts
  /\ scan \in [at : {"idle", "pids", "path", "process", "name", "found", "failed"},
               before : Processes \cup {Nobody}, left : SUBSET Pids,
               pid : Pids \cup {Nobody}, born : Processes \cup {Nobody},
               reported : Programs \cup {Nobody}]

Idle == [at |-> "idle", before |-> Nobody, left |-> {},
         pid |-> Nobody, born |-> Nobody, reported |-> Nobody]

Init ==
  /\ program \in [Processes -> Programs]
  /\ path = Nobody
  /\ process = [p \in Pids |-> Nobody]
  /\ starts = 0
  /\ scan = Idle

-----------------------------------------------------------------------------
(* The processes of the user.                                               *)

Launch(p) ==
  /\ process[p] = Nobody
  /\ starts < MaxStarts
  /\ starts' = starts + 1
  /\ process' = [process EXCEPT ![p] = [born |-> starts', listens |-> FALSE]]
  /\ UNCHANGED <<program, path, scan>>

\* A daemon removes a name nobody answers at before it binds its own socket.
Bind(p) ==
  /\ process[p] # Nobody
  /\ process' = [process EXCEPT ![p].listens = TRUE]
  /\ path' = process[p].born
  /\ UNCHANGED <<program, starts, scan>>

\* It ends, and may have removed the name or left it.
End(p) ==
  /\ process[p] # Nobody
  /\ process' = [process EXCEPT ![p] = Nobody]
  /\ path' \in {path, Nobody}
  /\ UNCHANGED <<program, starts, scan>>

-----------------------------------------------------------------------------
(* The search.                                                              *)

Fail == scan' = [Idle EXCEPT !.at = "failed"]

Begin ==
  /\ scan.at \in {"idle", "found", "failed"}
  /\ IF path = Nobody THEN Fail
     ELSE scan' = [Idle EXCEPT !.at = "pids", !.before = path,
                               !.left = {p \in Pids : process[p] # Nobody}]

\* A second socket of the name, in whatever process, is one too many.
Look(p) ==
  /\ scan.at = "pids" /\ p \in scan.left
  /\ IF process[p] = Nobody THEN scan' = [scan EXCEPT !.left = @ \ {p}]
     ELSE IF ~process[p].listens THEN scan' = [scan EXCEPT !.left = @ \ {p}]
     ELSE IF scan.pid # Nobody THEN Fail
     ELSE scan' = [scan EXCEPT !.left = @ \ {p}, !.pid = p, !.born = process[p].born]

Looked ==
  /\ scan.at = "pids" /\ scan.left = {}
  /\ IF scan.pid = Nobody THEN Fail ELSE scan' = [scan EXCEPT !.at = "path"]

\* The program of whatever process has the pid now.
ReadProgram ==
  /\ scan.at = "path"
  /\ IF process[scan.pid] = Nobody THEN Fail
     ELSE scan' = [scan EXCEPT !.at = "process", !.reported = program[process[scan.pid].born]]

\* Mistake: any process that has the pid will do.
SamePid ==
  /\ scan.at = "process"
  /\ IF process[scan.pid] = Nobody THEN Fail ELSE scan' = [scan EXCEPT !.at = "name"]

\* The same process, by its start time, with the same socket.
SameProcess ==
  /\ scan.at = "process"
  /\ IF process[scan.pid] = [born |-> scan.born, listens |-> TRUE]
       THEN scan' = [scan EXCEPT !.at = "name"]
       ELSE Fail

SameName ==
  /\ scan.at = "name"
  /\ IF path = scan.before THEN scan' = [scan EXCEPT !.at = "found"] ELSE Fail

Search ==
  /\ \/ Begin \/ Looked \/ ReadProgram \/ SameProcess \/ SameName
     \/ \E p \in Pids : Look(p)
  /\ UNCHANGED <<program, path, process, starts>>

Next ==
  \/ \E p \in Pids : Launch(p) \/ Bind(p) \/ End(p)
  \/ Search

Spec == Init /\ [][Next]_vars

-----------------------------------------------------------------------------
\* The answer of the search, put together from many looks at a changing system, is
\* about one process: the program it reports is that of the process it found
\* listening, though that process may have ended and its pid may be another's.
OwnerTrue == scan.at = "found" => scan.reported = program[scan.born]
=============================================================================
