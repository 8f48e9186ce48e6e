---------------------------- MODULE SystemService ----------------------------
(***************************************************************************)
(* The system vault service on a Linux host without systemd: `inflow vault *)
(* service start`, which runs a launcher that takes the startup lock, binds *)
(* the socket and becomes the broker; a second launcher, which waits for    *)
(* the first; and `vault-launcher --stop`, which the packages run before an *)
(* upgrade and after a removal.  They find each other by the lock and by    *)
(* the record in the lock file, a process identifier and a start time.      *)
(*                                                                          *)
(* A process here is one incarnation: its index stands for its start time,  *)
(* its pid may be given again once it is reaped.                            *)
(***************************************************************************)
EXTENDS Naturals

CONSTANTS
  Starts,    \* commands that start the service
  Stops,     \* commands that stop it
  Pids,      \* process identifiers
  Free,      \* no one holds the lock
  MaxProcs   \* bound on the processes ever created

Brokers == 1..MaxProcs

BoundsAssumption == MaxProcs \in Nat \ {0} /\ Pids \subseteq Nat \ {0} /\ Pids # {}

\* Who holds the lock is told apart.
LockAssumption == Free \notin Brokers \cup Stops /\ Brokers \cap Stops = {}

\* The socket of a systemd unit.
Systemd == MaxProcs + 1

VARIABLES
  proc,     \* every process, by its start time
  lock,     \* who holds /run/inflow/service.lock
  record,   \* what the lock file says
  path,     \* what is bound at /run/inflow/vault.sock: a process, Systemd or 0
  start, stop,  \* the commands
  struck    \* history: the live processes a stop has sent SIGTERM

commands == <<start, stop, struck>>
vars == <<proc, lock, record, path, commands>>

NoProc == [kind |-> "none", pid |-> 0, at |-> "unborn", said |-> FALSE]
NoRecord == [pid |-> 0, start |-> 0, ready |-> FALSE]
NoStop == [at |-> "idle", pid |-> 0, start |-> 0, handle |-> 0, same |-> FALSE]

Init ==
  /\ proc = [i \in Brokers |-> NoProc]
  /\ lock = Free /\ record = NoRecord
  /\ path \in {0, Systemd}
  /\ start = [c \in Starts |-> [at |-> "idle", child |-> 0]]
  /\ stop = [s \in Stops |-> NoStop]
  /\ struck = {}

\* A process that has ended keeps its pid until it is reaped.
Present(i) == proc[i].at \notin {"unborn", "gone"}
Alive(i) == Present(i) /\ proc[i].at # "zombie"

\* /proc/<pid>/stat: the start time of the process that has the pid now, or 0.
ProcessStart(pid) ==
  IF \E i \in Brokers : Present(i) /\ proc[i].pid = pid
  THEN CHOOSE i \in Brokers : Present(i) /\ proc[i].pid = pid
  ELSE 0

\* Processes whose executable is the packaged inflow: brokers, and other commands.
RunsInflow(i) == proc[i].kind = "other" \/ proc[i].at \in {"starting", "listening", "serving", "closing"}

\* The kernel accepts connections from listen() on, the broker answers them later.
Bound(i) == proc[i].kind = "service" /\ proc[i].at \in {"clear", "record", "exec", "starting", "listening", "serving"}
Answers(i) == proc[i].kind = "service" /\ proc[i].at \in {"listening", "serving"}

Become(i, at) == proc' = [proc EXCEPT ![i].at = at]
Released(i) == IF lock = i THEN Free ELSE lock

\* A process that ends releases what it holds.
End(i) == Become(i, "zombie") /\ lock' = Released(i)

-----------------------------------------------------------------------------
(* Processes of the host.                                                   *)

Born(i, pid, kind) ==
  /\ proc[i].at = "unborn" /\ \A j \in Brokers : j < i => proc[j].at # "unborn"
  /\ ProcessStart(pid) = 0
  /\ proc' = [proc EXCEPT ![i] = [kind |-> kind, pid |-> pid, at |-> IF kind = "other" THEN "running" ELSE "lock",
                                  said |-> FALSE]]

\* Another inflow command runs and ends.
OtherBegins(i) ==
  /\ \E pid \in Pids : Born(i, pid, "other")
  /\ UNCHANGED <<lock, record, path, commands>>

OtherEnds(i) ==
  /\ proc[i].at = "running"
  /\ Become(i, "zombie")
  /\ UNCHANGED <<lock, record, path, commands>>

Reaped(i) ==
  /\ proc[i].at = "zombie"
  /\ Become(i, "gone")
  /\ UNCHANGED <<lock, record, path, commands>>

\* SIGTERM closes a broker that has its handlers, and ends any other process.
Terminated(i) == IF proc[i].at = "serving" THEN Become(i, "closing") /\ lock' = lock ELSE End(i)

-----------------------------------------------------------------------------
(* The launcher, which becomes the broker.                                  *)

\* Mistake: the record is enough to keep a second launcher out.
LockOrNotReady(i) == lock = Free \/ ~record.ready

CanLock(i) == lock = Free

Lock(i) ==
  /\ proc[i].at = "lock"
  /\ IF CanLock(i) THEN lock' = i /\ Become(i, "probe")
     ELSE lock' = lock /\ Become(i, "wait")
  /\ UNCHANGED <<record, path, commands>>

\* The record is ready and its process is the one that wrote it.
OtherIsReady == record.ready /\ record.start # 0 /\ ProcessStart(record.pid) = record.start

Wait(i) ==
  /\ proc[i].at = "wait" /\ OtherIsReady
  /\ proc' = [proc EXCEPT ![i].at = "zombie", ![i].said = TRUE]
  /\ UNCHANGED <<lock, record, path, commands>>

\* A socket that answers belongs to a service this launcher did not start.
Probe(i) ==
  /\ proc[i].at = "probe"
  /\ IF path = Systemd \/ (path \in Brokers /\ Bound(path)) THEN End(i)
     ELSE Become(i, "bind") /\ lock' = lock
  /\ UNCHANGED <<record, path, commands>>

\* unlink, bind, chmod and listen.
Bind(i) ==
  /\ proc[i].at = "bind"
  /\ path' = i
  /\ Become(i, "clear")
  /\ UNCHANGED <<lock, record, commands>>

ClearRecord(i) ==
  /\ proc[i].at = "clear"
  /\ record' = NoRecord
  /\ Become(i, "record")
  /\ UNCHANGED <<lock, path, commands>>

WriteRecord(i) ==
  /\ proc[i].at = "record"
  /\ record' = [pid |-> proc[i].pid, start |-> i, ready |-> FALSE]
  /\ Become(i, "exec")
  /\ UNCHANGED <<lock, path, commands>>

\* The environment is cleared, the process confined and the broker executed.
Exec(i) ==
  /\ proc[i].at = "exec"
  /\ Become(i, "starting")
  /\ UNCHANGED <<lock, record, path, commands>>

\* Its worker is ready, its key readable: it listens, and says so to launchers.
Listen(i) ==
  /\ proc[i].at = "starting"
  /\ record' = [record EXCEPT !.ready = TRUE]
  /\ Become(i, "listening")
  /\ UNCHANGED <<lock, path, commands>>

\* ... and to the command that started it, if that still reads.
Notify(i) ==
  /\ proc[i].at = "listening"
  /\ IF \E c \in Starts : start[c].child = i /\ start[c].at = "waiting"
     THEN proc' = [proc EXCEPT ![i].at = "serving", ![i].said = TRUE] /\ lock' = lock
     ELSE End(i)
  /\ UNCHANGED <<record, path, commands>>

\* A check fails, a wait is over, the worker does not start.
Fails(i) ==
  /\ proc[i].at \in {"wait", "probe", "bind", "clear", "record", "exec", "starting"}
  /\ End(i)
  /\ UNCHANGED <<record, path, commands>>

\* The worker ends, and the broker with it.
WorkerEnds(i) ==
  /\ proc[i].at = "serving"
  /\ Become(i, "closing")
  /\ UNCHANGED <<lock, record, path, commands>>

Closed(i) ==
  /\ proc[i].at = "closing"
  /\ End(i)
  /\ UNCHANGED <<record, path, commands>>

-----------------------------------------------------------------------------
(* `inflow vault service start`.                                            *)

\* Bubblewrap runs the launcher, with a pipe for its readiness.
Launch(c) ==
  /\ start[c].at = "idle"
  /\ \E i \in Brokers, pid \in Pids :
       /\ Born(i, pid, "service")
       /\ start' = [start EXCEPT ![c] = [at |-> "waiting", child |-> i]]
  /\ UNCHANGED <<lock, record, path, stop, struck>>

\* What was written to the pipe is read before the exit is seen.
ReadReady(c) ==
  /\ start[c].at = "waiting" /\ proc[start[c].child].said
  /\ start' = [start EXCEPT ![c].at = "asking"]
  /\ UNCHANGED <<proc, lock, record, path, stop, struck>>

ChildExit(c) ==
  /\ start[c].at = "waiting" /\ proc[start[c].child].at = "gone" /\ ~proc[start[c].child].said
  /\ start' = [start EXCEPT ![c].at = "failed"]
  /\ UNCHANGED <<proc, lock, record, path, stop, struck>>

\* After 15 seconds what was started is ended.
StartTimeout(c) ==
  LET i == start[c].child IN
  /\ start[c].at = "waiting"
  /\ start' = [start EXCEPT ![c].at = "failed"]
  /\ IF Alive(i) THEN Terminated(i) ELSE UNCHANGED <<proc, lock>>
  /\ UNCHANGED <<record, path, stop, struck>>

\* daemon.info is asked at the socket.
Info(c) ==
  /\ start[c].at = "asking"
  /\ start' = [start EXCEPT ![c].at =
       IF path = Systemd \/ (path \in Brokers /\ Answers(path)) THEN "running" ELSE "failed"]
  /\ UNCHANGED <<proc, lock, record, path, stop, struck>>

-----------------------------------------------------------------------------
(* `vault-launcher --stop`.                                                 *)

Set(s, r) == stop' = [stop EXCEPT ![s] = r]

\* No one holds the lock: nothing to stop.  It is held until the process exits.
StopLock(s) ==
  /\ stop[s].at = "idle"
  /\ IF lock = Free THEN lock' = s /\ Set(s, [NoStop EXCEPT !.at = "exit"])
     ELSE lock' = lock /\ Set(s, [NoStop EXCEPT !.at = "read"])
  /\ UNCHANGED <<proc, record, path, start, struck>>

StopExit(s) ==
  /\ stop[s].at = "exit"
  /\ lock' = Free
  /\ Set(s, [NoStop EXCEPT !.at = "done"])
  /\ UNCHANGED <<proc, record, path, start, struck>>

StopRead(s) ==
  /\ stop[s].at = "read"
  /\ Set(s, IF record = NoRecord THEN [NoStop EXCEPT !.at = "failed"]
            ELSE [NoStop EXCEPT !.at = "open", !.pid = record.pid, !.start = record.start])
  /\ UNCHANGED <<proc, lock, record, path, start, struck>>

\* pidfd_open: the handle stays with the process that has the pid now.
StopOpen(s) ==
  LET found == ProcessStart(stop[s].pid) IN
  /\ stop[s].at = "open"
  /\ Set(s, IF found = 0 THEN [NoStop EXCEPT !.at = "done"] ELSE [stop[s] EXCEPT !.at = "exe", !.handle = found])
  /\ UNCHANGED <<proc, lock, record, path, start, struck>>

\* readlink /proc/<pid>/exe
StopExecutable(s) ==
  LET found == ProcessStart(stop[s].pid) IN
  /\ stop[s].at = "exe"
  /\ Set(s, IF found = 0 \/ ~Alive(found) THEN [NoStop EXCEPT !.at = "failed"]
            ELSE [stop[s] EXCEPT !.at = "check", !.same = RunsInflow(found)])
  /\ UNCHANGED <<proc, lock, record, path, start, struck>>

\* Mistake: a process that runs the right executable is the service.
SameExecutable(s) == stop[s].same

IsService(s) == ProcessStart(stop[s].pid) = stop[s].start /\ stop[s].same

StopCheck(s) ==
  /\ stop[s].at = "check"
  /\ Set(s, IF IsService(s) THEN [stop[s] EXCEPT !.at = "signal"] ELSE [NoStop EXCEPT !.at = "failed"])
  /\ UNCHANGED <<proc, lock, record, path, start, struck>>

StopSignal(s) ==
  LET i == stop[s].handle IN
  /\ stop[s].at = "signal"
  /\ Set(s, IF Present(i) THEN [stop[s] EXCEPT !.at = "poll"] ELSE [NoStop EXCEPT !.at = "failed"])
  /\ IF Alive(i) THEN Terminated(i) /\ struck' = struck \cup {i} ELSE UNCHANGED <<proc, lock, struck>>
  /\ UNCHANGED <<record, path, start>>

\* Up to ten seconds for it to exit.
StopPoll(s) ==
  /\ stop[s].at = "poll"
  /\ \E at \in {"done", "failed"} :
       /\ at = "done" => ~Alive(stop[s].handle)
       /\ Set(s, [NoStop EXCEPT !.at = at])
  /\ UNCHANGED <<proc, lock, record, path, start, struck>>

-----------------------------------------------------------------------------

Process(i) ==
  \/ OtherBegins(i) \/ OtherEnds(i) \/ Reaped(i)
  \/ Lock(i) \/ Wait(i) \/ Probe(i) \/ Bind(i) \/ ClearRecord(i) \/ WriteRecord(i) \/ Exec(i)
  \/ Listen(i) \/ Notify(i) \/ Fails(i) \/ WorkerEnds(i) \/ Closed(i)

StartStep(c) == Launch(c) \/ ReadReady(c) \/ ChildExit(c) \/ StartTimeout(c) \/ Info(c)

StopStep(s) ==
  \/ StopLock(s) \/ StopExit(s) \/ StopRead(s) \/ StopOpen(s) \/ StopExecutable(s)
  \/ StopCheck(s) \/ StopSignal(s) \/ StopPoll(s)

Next ==
  \/ \E i \in Brokers : Process(i)
  \/ \E c \in Starts : StartStep(c)
  \/ \E s \in Stops : StopStep(s)

Spec == Init /\ [][Next]_vars

-----------------------------------------------------------------------------
(* Properties.                                                              *)

\* Repeated and concurrent starts, failed ones and stops never leave a broker
\* that listens where no client finds it, and never two of them: whoever binds
\* the socket has it for as long as it listens, under the lock, and its record
\* names it once it says it is ready.
OneService ==
  \A i \in Brokers : Bound(i) =>
    /\ path = i /\ lock = i
    /\ Answers(i) => record = [pid |-> proc[i].pid, start |-> i, ready |-> TRUE]

\* A stop ends no other command of a user, whose pid may be the one a broker
\* had, and no launcher that still has to become the broker: what it is about
\* to signal runs inflow if it lives, and what it has signalled closes or ended.
StopsService ==
  /\ \A i \in struck : proc[i].kind = "service" /\ (Alive(i) => proc[i].at = "closing")
  /\ \A s \in Stops : stop[s].at = "signal" /\ Alive(stop[s].handle) => RunsInflow(stop[s].handle)
=============================================================================
