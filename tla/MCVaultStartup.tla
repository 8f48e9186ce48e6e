---------------------------- MODULE MCVaultStartup ----------------------------
(***************************************************************************)
(* Finite instances for TLC of VaultStartup, the processes of commands and *)
(* daemons, and of VaultControl, the connection of one command to its      *)
(* daemon.  `part` says which of the two a behaviour is of; the other      *)
(* stays in an initial state.                                              *)
(***************************************************************************)
EXTENDS VaultStartup

CONSTANTS r1, r2, r3, r4, None, Requests, Exempt, Closing, Size, MaxWaiting, MaxBytes

VARIABLES
  part, job, late, waiting, waitingBytes, active, connection, socket, zombies, disposed, blamed, known

\* r1 unlocks, r2 reads a secret, r3 asks for the status and r4 shuts down.
MCSize == [r \in Requests |-> IF r = r2 THEN 2 ELSE 1]

Control == INSTANCE VaultControl

ASSUME RequestsAssumption ==
  Control!NoneAssumption /\ Control!RequestsAssumption /\ Control!SizeAssumption
ASSUME ControlAssumption == Control!MethodsAssumption /\ Control!LimitsAssumption

controlVars ==
  <<job, late, waiting, waitingBytes, active, connection, socket, zombies, disposed, blamed, known>>

allVars == <<part, vars, controlVars>>

PartsInit ==
  /\ Init /\ Control!Init
  /\ \/ part = "startup"
     \/ part = "control" /\ ~shared /\ ~trusting /\ path = Nobody /\ ~sidecar

PartsNext ==
  \/ part = "startup" /\ Next /\ UNCHANGED <<part, controlVars>>
  \/ part = "control" /\ Control!Next /\ UNCHANGED <<part, vars>>

\* The fairness of each part, as its own module states it.
PartsFairness ==
  /\ \A c \in Clis :
       /\ WF_allVars(part = "startup" /\ Step(c) /\ UNCHANGED <<part, controlVars>>)
       /\ WF_allVars(part = "startup" /\ Deadline(c) /\ UNCHANGED <<part, controlVars>>)
  /\ \A d \in Daemons : WF_allVars(part = "startup" /\ Run(d) /\ UNCHANGED <<part, controlVars>>)
  /\ \A r \in Requests :
       /\ WF_allVars(part = "control" /\ Control!Deadline(r) /\ UNCHANGED <<part, vars>>)
       /\ WF_allVars(part = "control" /\ Control!TimesOut(r) /\ UNCHANGED <<part, vars>>)

PartsSafety == PartsInit /\ [][PartsNext]_allVars

PartsSpec == PartsSafety /\ PartsFairness

-----------------------------------------------------------------------------
(* Properties of VaultControl, stated and explained there.                  *)

\* The queue's bytes, its limits, one frame on one open connection, and no
\* request that fails for another.
ConnectionKept == Control!ConnectionKept

\* Secrets go only to a daemon that has proved its build on that connection.
DaemonChecked == Control!DaemonChecked

\* Every command that waits for a daemon ends, and every request on a control
\* connection is settled, even if the daemon never answers.
CommandsAndRequestsEnd == CommandsEnd /\ Control!EverySettles
=============================================================================
