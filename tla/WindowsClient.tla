---------------------------- MODULE WindowsClient ----------------------------
(***************************************************************************)
(* How a command on Windows reaches the vault service: it has the service  *)
(* control manager start it, opens the pipe, asks Windows which process    *)
(* serves it, and keeps the connection for later requests                  *)
(* (vault-windows-transport.ts, vault_peer_windows.c).  Meanwhile the      *)
(* service starts, stops, fails and is replaced by another release.        *)
(*                                                                         *)
(* A process has a main thread, which the service control manager talks    *)
(* to, and a runtime thread, which serves the pipe (WindowsVault).  The    *)
(* two share events and a flag.  Windows gives the process identifier of a *)
(* process that has ended to another one.                                  *)
(***************************************************************************)
EXTENDS Naturals

CONSTANTS
  Clients,     \* connections of commands
  Releases,    \* releases of the product, at the same path and of the same publisher
  Mine,        \* the commands' own release
  Other,       \* an executable at another path
  Processes,   \* processes; one nothing refers to stands for a new one
  Pids,
  Nobody,
  MaxEvents    \* upgrades, stops, failures and other processes

VARIABLES
  installed,   \* the installed release
  scm,         \* what the service control manager knows of the service
  proc,        \* processes
  owner,       \* the process whose pipe this is
  told,        \* history: the executables that were sent a secret or asked for one
  client,      \* clients
  events       \* events that may still happen

vars == <<installed, scm, proc, owner, told, client, events>>

ConstantsAssumption ==
  Mine \in Releases /\ Nobody \notin Processes \cup Pids /\ MaxEvents \in Nat

Process ==
  [exe : Releases \cup {Other}, pid : Pids \cup {Nobody},
   main : {"boot", "waiting", "running", "none"},
   runtime : {"boot", "listening", "serving", "ending", "none"},
   ready : BOOLEAN, stopped : BOOLEAN,   \* the two events
   stop : BOOLEAN]                       \* service_stop_requested

Methods == {"daemon.shutdown", "secret", "vault.reset", "vault.status"}
Guarded == {"secret", "vault.reset"}            \* not sent before the daemon is checked
Closing == {"daemon.shutdown", "vault.reset"}   \* the connection is closed after these

Client ==
  [at : {"idle", "start", "wait", "verify", "handshake", "info", "send"},
   method : Methods,
   conn : Processes \cup {Nobody},   \* the process at the other end, and its identifier
   pid : Pids \cup {Nobody},
   checked : BOOLEAN]

NoProcess == [exe |-> Other, pid |-> Nobody, main |-> "none", runtime |-> "none",
              ready |-> FALSE, stopped |-> FALSE, stop |-> FALSE]

NoRequest == [at |-> "idle", method |-> "vault.status", conn |-> Nobody, pid |-> Nobody, checked |-> FALSE]

Alive(p) == proc[p].pid # Nobody

TypeOK ==
  /\ installed \in Releases
  /\ scm \in [state : {"stopped", "start", "running", "stop"}, process : Processes \cup {Nobody}]
  /\ proc \in [Processes -> Process]
  /\ owner \in Processes \cup {Nobody}
  /\ told \subseteq Releases \cup {Other}
  /\ client \in [Clients -> Client]
  /\ events \in 0..MaxEvents

Init ==
  /\ installed \in Releases
  /\ scm = [state |-> "stopped", process |-> Nobody]
  /\ proc = [p \in Processes |-> NoProcess]
  /\ owner = Nobody /\ told = {}
  /\ client = [c \in Clients |-> NoRequest]
  /\ events = MaxEvents

-----------------------------------------------------------------------------
(* Processes and the service control manager.                               *)

\* Nothing refers to these but history; which of them is taken next makes no difference.
Unused == {p \in Processes : ~Alive(p) /\ scm.process # p /\ \A c \in Clients : client[c].conn # p}

NextUnused == CHOOSE p \in Processes : p \in Unused

FreePids == {n \in Pids : \A p \in Processes : proc[p].pid # n}

Launched(p, exe, main, pid) ==
  proc' = [proc EXCEPT ![p] = [NoProcess EXCEPT
    !.exe = exe, !.pid = pid, !.main = main, !.runtime = main]]

\* runServiceDispatcher resets the events, even if the runtime thread, which
\* runs since before, has signalled that it is ready.
Dispatch(p) ==
  /\ proc[p].main = "boot"
  /\ proc' = [proc EXCEPT ![p].main = "waiting", ![p].ready = FALSE, ![p].stopped = FALSE,
                          ![p].stop = FALSE]
  /\ UNCHANGED <<installed, scm, owner, told, client, events>>

\* A process ends when both of its threads have.
Exited(p, x) == IF x.main = "none" /\ x.runtime = "none" THEN NoProcess ELSE x

Report(p, state) == scm' = IF scm.process = p THEN
                             [state |-> state, process |-> IF state = "stopped" THEN Nobody ELSE p]
                           ELSE scm

\* vault_service_main: it waits 20 s for the runtime thread, then for its end.
Running(p) ==
  /\ proc[p].main = "waiting" /\ proc[p].ready
  /\ proc' = [proc EXCEPT ![p].main = "running"]
  /\ Report(p, "running")
  /\ UNCHANGED <<installed, owner, told, client, events>>

NotReady(p) ==
  /\ proc[p].main = "waiting" /\ ~proc[p].ready
  /\ proc' = [proc EXCEPT ![p] = Exited(p, [@ EXCEPT !.main = "none", !.stop = TRUE])]
  /\ Report(p, "stopped")
  /\ UNCHANGED <<installed, owner, told, client, events>>

Stopped(p) ==
  /\ proc[p].main = "running" /\ proc[p].stopped
  /\ proc' = [proc EXCEPT ![p] = Exited(p, [@ EXCEPT !.main = "none"])]
  /\ Report(p, "stopped")
  /\ UNCHANGED <<installed, owner, told, client, events>>

\* The runtime thread serves the pipe if no other process does, says it is ready,
\* and ends when the flag asks it to; the wait for what is in service is in WindowsVault.
Listen(p) ==
  /\ proc[p].runtime = "boot"
  /\ owner' = IF owner = Nobody THEN p ELSE owner
  /\ proc' = [proc EXCEPT ![p].runtime = IF owner = Nobody THEN "listening" ELSE "ending"]
  /\ UNCHANGED <<installed, scm, told, client, events>>

Ready(p) ==
  /\ proc[p].runtime = "listening"
  /\ proc' = [proc EXCEPT ![p].runtime = "serving", ![p].ready = TRUE]
  /\ UNCHANGED <<installed, scm, owner, told, client, events>>

ClosePipe(p) ==
  /\ proc' = [proc EXCEPT ![p].runtime = "ending"]
  /\ owner' = Nobody

Poll(p) ==
  /\ proc[p].runtime = "serving" /\ proc[p].stop
  /\ ClosePipe(p)
  /\ UNCHANGED <<installed, scm, told, client, events>>

CompleteStop(p) ==
  /\ proc[p].runtime = "ending"
  /\ proc' = [proc EXCEPT ![p] = Exited(p, [@ EXCEPT !.runtime = "none", !.stopped = TRUE])]
  /\ UNCHANGED <<installed, scm, owner, told, client, events>>

-----------------------------------------------------------------------------
(* What happens to the service.                                             *)

Event == events > 0 /\ events' = events - 1

\* Service control manager: a service accepts the stop only once it runs.
StopControl ==
  /\ scm.state = "running"
  /\ Event
  /\ scm' = [scm EXCEPT !.state = "stop"]
  /\ proc' = [proc EXCEPT ![scm.process].stop = TRUE]
  /\ UNCHANGED <<installed, owner, told, client>>

Fails(p) ==
  /\ proc[p].runtime = "serving"
  /\ Event
  /\ ClosePipe(p)
  /\ UNCHANGED <<installed, scm, told, client>>

\* The process is killed, and the service control manager notices.
Killed(p) ==
  /\ Alive(p)
  /\ Event
  /\ proc' = [proc EXCEPT ![p] = NoProcess]
  /\ owner' = IF owner = p THEN Nobody ELSE owner
  /\ Report(p, "stopped")
  /\ UNCHANGED <<installed, told, client>>

\* An installer replaces the files while the service is stopped.
Install ==
  /\ scm.state = "stopped"
  /\ Event
  /\ installed' \in Releases \ {installed}
  /\ UNCHANGED <<scm, proc, owner, told, client>>

\* A process that is not the service: another command, or any other program.
Unrelated(p) ==
  /\ p \in Unused /\ p = NextUnused
  /\ Event
  /\ \E exe \in Releases \cup {Other}, pid \in FreePids : Launched(p, exe, "none", pid)
  /\ UNCHANGED <<installed, scm, owner, told, client>>

-----------------------------------------------------------------------------
(* A request of a client.                                                   *)

\* What was checked of a connection, taken for the next one.
RetiredChecked(x) ==
  [x EXCEPT !.at = "idle", !.method = "vault.status", !.conn = Nobody, !.pid = Nobody]

\* close_pipe_connection; what was learnt about the connection is forgotten with it.
Retired(x) == [x EXCEPT !.at = "idle", !.method = "vault.status", !.conn = Nobody, !.pid = Nobody, !.checked = FALSE]

Fail(c) == client' = [client EXCEPT ![c] = Retired(@)] /\ UNCHANGED <<scm, proc, told>>

Go(c, at) == client' = [client EXCEPT ![c].at = at] /\ UNCHANGED <<scm, proc, told>>

Broken(c) == client[c].conn # owner

\* A request is sent and its answer awaited, together for 10 s.
Delivered(p, method) == told' = told \cup {proc[q].exe : q \in IF method \in Guarded THEN {p} ELSE {}}

\* What follows once the connection can be used.
AfterConnect(x) == IF ~x.checked /\ x.method \in Guarded THEN "info" ELSE "send"

\* A connection not used for 30 s is replaced.
Begin(c) ==
  /\ client[c].at = "idle"
  /\ \E m \in Methods :
       \/ client' = [client EXCEPT ![c] = [Retired(@) EXCEPT !.at = "start", !.method = m]]
       \/ /\ client[c].conn # Nobody
          /\ LET x == [client[c] EXCEPT !.method = m]
             IN client' = [client EXCEPT ![c] = [x EXCEPT !.at = AfterConnect(x)]]
  /\ UNCHANGED <<installed, scm, proc, owner, told, events>>

\* StartServiceW does nothing to a service that is not stopped, also to one that
\* is about to stop.
Start(c) ==
  /\ client[c].at = "start"
  /\ client' = [client EXCEPT ![c].at = "wait"]
  /\ IF scm.state # "stopped"
       THEN UNCHANGED <<scm, proc>>
       ELSE \E pid \in FreePids :
              /\ Unused # {}
              /\ scm' = [state |-> "start", process |-> NextUnused]
              /\ Launched(NextUnused, installed, "boot", pid)
  /\ UNCHANGED <<installed, owner, told, events>>

\* The command cannot let the service query it, or the service cannot be started.
NotStarted(c) ==
  /\ client[c].at = "start"
  /\ Fail(c)
  /\ UNCHANGED <<installed, owner, events>>

\* WaitNamedPipeW and CreateFileW, for 25 s.
Open(c) ==
  /\ client[c].at = "wait"
  /\ IF owner # Nobody
       THEN client' = [client EXCEPT ![c].at = "verify", ![c].conn = owner,
                                            ![c].pid = proc[owner].pid]
            /\ UNCHANGED <<scm, proc, told>>
       ELSE Fail(c)
  /\ UNCHANGED <<installed, owner, events>>

\* The pipe tells the identifier of the process that made it; the process which
\* has that identifier by now is opened, and its path and signature are checked.
Identified(c) == {p \in Processes : proc[p].pid = client[c].pid}

\* The path the process was started from: every release is installed at one path.
Identity(p) == IF proc[p].exe = Other THEN "other" ELSE "installed"

\* Who signed the file that is at the path by now, which need not be the file the
\* process was started from.
Signer(path) == IF path = "installed" THEN "own publisher" ELSE "unknown"

Verify(c) ==
  /\ client[c].at = "verify"
  /\ IF \E p \in Identified(c) : Identity(p) = "installed" /\ Signer(Identity(p)) = "own publisher"
       THEN Go(c, "handshake")
       ELSE Fail(c)
  /\ UNCHANGED <<installed, owner, events>>

Handshake(c) ==
  /\ client[c].at = "handshake"
  /\ IF Broken(c) THEN Fail(c) ELSE Go(c, AfterConnect(client[c]))
  /\ UNCHANGED <<installed, owner, events>>

\* daemon.info, and the comparison with the client's own release.
Info(c) ==
  /\ client[c].at = "info"
  /\ IF Broken(c) \/ proc[client[c].conn].exe # Mine
       THEN Fail(c)
       ELSE /\ client' = [client EXCEPT ![c].at = "send", ![c].checked = TRUE]
            /\ UNCHANGED <<scm, proc, told>>
  /\ UNCHANGED <<installed, owner, events>>

\* The exchange: it is answered, or its deadline passes, or the pipe breaks.
Exchange(c) ==
  /\ client[c].at = "send"
  /\ ~Broken(c)
  /\ Delivered(owner, client[c].method)
  /\ \/ client' = [client EXCEPT ![c] = Retired(@)]
     \/ /\ client[c].method \notin Closing
        /\ client' = [client EXCEPT ![c].at = "idle", ![c].method = "vault.status"]
  /\ UNCHANGED <<installed, scm, proc, owner, events>>

Refused(c) ==
  /\ client[c].at = "send"
  /\ Broken(c)
  /\ Fail(c)
  /\ UNCHANGED <<installed, owner, events>>

-----------------------------------------------------------------------------
Serve(p) ==
  \/ Dispatch(p) \/ Running(p) \/ NotReady(p) \/ Stopped(p)
  \/ Listen(p) \/ Ready(p) \/ Poll(p) \/ CompleteStop(p)

Next ==
  \/ \E p \in Processes : Serve(p) \/ Fails(p) \/ Killed(p) \/ Unrelated(p)
  \/ StopControl \/ Install
  \/ \E c \in Clients :
       Begin(c) \/ Start(c) \/ NotStarted(c) \/ Open(c) \/ Verify(c) \/ Handshake(c) \/ Info(c) \/ Exchange(c) \/ Refused(c)

Spec == Init /\ [][Next]_vars

-----------------------------------------------------------------------------
\* A request that carries a secret, or asks for one, goes to a service of the
\* command's own release and to no other process, though the service was stopped,
\* killed or replaced by another release between the check and the request.
ToldOwnRelease == told \subseteq {Mine}

\* No service lives on unknown to the service control manager: the one it knows
\* of, or one that has been asked to stop, also when the event by which a runtime
\* thread says it is ready was lost and the wait for it ended.
NoOrphan ==
  \A p \in Processes :
    proc[p].runtime \in {"listening", "serving"} => scm.process = p \/ proc[p].stop
=============================================================================
