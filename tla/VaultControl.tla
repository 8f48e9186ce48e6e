---------------------------- MODULE VaultControl ----------------------------
(***************************************************************************)
(* The client's control connection to the vault daemon                     *)
(* (secure-storage/vault-control-connection.ts): requests wait in a        *)
(* bounded queue and use one verified connection one after the other; a    *)
(* request that misses its deadline gives up the connection, so that no    *)
(* late answer meets a later request.                                      *)
(*                                                                         *)
(* Each step is one turn of the event loop.  A connection is named by the  *)
(* request that opened it.                                                 *)
(***************************************************************************)
EXTENDS Naturals, Sequences, FiniteSets, SequencesExt

CONSTANTS
  Requests,    \* one request each
  None,
  Size,        \* bytes of each request's frame
  Exempt,      \* daemon.info, daemon.shutdown, vault.status: sent before the daemon is checked
  Closing,     \* vault.reset, daemon.shutdown: their success closes the connection
  MaxWaiting,  \* MAX_WAITING_REQUESTS
  MaxBytes     \* VAULT_IPC_MAX_MESSAGE_BYTES

NoneAssumption == None \notin Requests
RequestsAssumption == IsFiniteSet(Requests)
SizeAssumption == Size \in [Requests -> Nat]
MethodsAssumption == Exempt \subseteq Requests /\ Closing \subseteq Requests
LimitsAssumption == MaxWaiting \in Nat /\ MaxBytes \in Nat

VARIABLES
  job,           \* what became of each request
  late,          \* requests whose deadline has passed
  waiting,       \* queue of requests
  waitingBytes,
  active,        \* the request in execution, or None
  connection,    \* the current connection, or None
  socket,        \* every connection
  zombies,       \* executions that have not noticed yet that their request is settled
  disposed,
  blamed,        \* history: requests failed by a connection the client itself closed
  known          \* history: connections whose daemon has proved its build

vars == <<job, late, waiting, waitingBytes, active, connection, socket, zombies, disposed, blamed, known>>

Frame == [job : Requests, info : BOOLEAN]

Socket == [state   : {"unused", "opening", "verifying", "ready", "closed"},
           checked : BOOLEAN,                  \* daemonChecked
           idle    : BOOLEAN,                  \* idleTimer is armed
           frames  : Seq(Frame)]               \* requests the daemon has not answered

NoSocket == [state |-> "unused", checked |-> FALSE, idle |-> FALSE, frames |-> <<>>]

TypeOK ==
  /\ job \in [Requests -> {"new", "waiting", "active", "resolved", "rejected", "busy"}]
  /\ late \subseteq Requests
  /\ waiting \in Seq(Requests) /\ waitingBytes \in Nat
  /\ active \in Requests \cup {None}
  /\ connection \in Requests \cup {None}
  /\ socket \in [Requests -> Socket]
  /\ zombies \subseteq Requests /\ disposed \in BOOLEAN
  /\ blamed \subseteq Requests /\ known \subseteq Requests

Init ==
  /\ job = [r \in Requests |-> "new"] /\ late = {}
  /\ waiting = <<>> /\ waitingBytes = 0 /\ active = None
  /\ connection = None /\ socket = [r \in Requests |-> NoSocket]
  /\ zombies = {} /\ disposed = FALSE /\ blamed = {} /\ known = {}

-----------------------------------------------------------------------------
(* The connection.                                                          *)

Bytes(queue) ==
  LET sum[n \in 0..Len(queue)] == IF n = 0 THEN 0 ELSE sum[n - 1] + Size[queue[n]]
  IN  sum[Len(queue)]

Live(s) == s.state \in {"opening", "verifying", "ready"}

\* disconnect()
Closed(sockets, c) ==
  IF c = None THEN sockets ELSE [sockets EXCEPT ![c] = [NoSocket EXCEPT !.state = "closed"]]

\* The first frame of a request on a ready connection: its own, or daemon.info
\* while the daemon behind the connection is unknown.
Sent(s, r) ==
  [s EXCEPT !.frames = Append(@, [job |-> r, info |-> r \notin Exempt /\ ~s.checked])]

\* The start of execute(): reuse the connection or open another.
Start(sockets, c, r) ==
  IF c # None /\ sockets[c].state = "ready"
  THEN [sockets EXCEPT ![c] = [Sent(@, r) EXCEPT !.idle = FALSE]]
  ELSE [Closed(sockets, c) EXCEPT ![r] = [NoSocket EXCEPT !.state = "opening"]]

\* pump(), once nothing is active: the requests before the first that is not
\* late are rejected, and it is executed; without one the connection starts to idle.
Pump(jobs, queue, bytes, sockets, c) ==
  \E n \in 1..(Len(queue) + 1) :
    LET next == IF n \in DOMAIN queue THEN queue[n] ELSE None
        gone == {queue[i] : i \in 1..(n - 1)}
    IN  /\ gone \subseteq late /\ next \notin late
        /\ job' = [r \in Requests |-> IF r = next THEN "active" ELSE IF r \in gone THEN "rejected" ELSE jobs[r]]
        /\ waiting' = SubSeq(queue, n + 1, Len(queue))
        /\ waitingBytes' = bytes - Bytes(IF next = None THEN queue ELSE SubSeq(queue, 1, n))
        /\ active' = next
        /\ IF next = None
           THEN /\ connection' = c
                /\ socket' = IF c = None THEN sockets ELSE [sockets EXCEPT ![c].idle = TRUE]
           ELSE /\ connection' = IF c # None /\ sockets[c].state = "ready" THEN c ELSE next
                /\ socket' = Start(sockets, c, next)

\* finish() of the active request, which pumps the next.
Finish(result, sockets, c) == Pump([job EXCEPT ![active] = result], waiting, waitingBytes, sockets, c)

\* The execution of the active request fails: it gives up the connection.
Reject == Finish("rejected", Closed(socket, connection), None)

-----------------------------------------------------------------------------
(* Requests.                                                                *)

Full(r) == Len(waiting) >= MaxWaiting \/ waitingBytes + Size[r] > MaxBytes

\* Mistake: a request that need not wait is not counted before it is taken.
AskUncounted(r) ==
  /\ job[r] = "new"
  /\ CASE disposed -> /\ job' = [job EXCEPT ![r] = "rejected"]
                      /\ UNCHANGED <<waiting, waitingBytes, active, connection, socket>>
       [] ~disposed /\ active = None ->
            Pump(job, Append(waiting, r), waitingBytes, socket, connection)
       [] ~disposed /\ active # None /\ Full(r) ->
            /\ job' = [job EXCEPT ![r] = "busy"]
            /\ UNCHANGED <<waiting, waitingBytes, active, connection, socket>>
       [] OTHER -> /\ job' = [job EXCEPT ![r] = "waiting"]
                   /\ waiting' = Append(waiting, r) /\ waitingBytes' = waitingBytes + Size[r]
                   /\ UNCHANGED <<active, connection, socket>>
  /\ UNCHANGED <<late, zombies, disposed, blamed, known>>

Ask(r) ==
  /\ job[r] = "new"
  /\ CASE disposed -> /\ job' = [job EXCEPT ![r] = "rejected"]
                      /\ UNCHANGED <<waiting, waitingBytes, active, connection, socket>>
       [] ~disposed /\ active = None ->
            Pump(job, Append(waiting, r), waitingBytes + Size[r], socket, connection)
       [] ~disposed /\ active # None /\ Full(r) ->
            /\ job' = [job EXCEPT ![r] = "busy"]
            /\ UNCHANGED <<waiting, waitingBytes, active, connection, socket>>
       [] OTHER -> /\ job' = [job EXCEPT ![r] = "waiting"]
                   /\ waiting' = Append(waiting, r) /\ waitingBytes' = waitingBytes + Size[r]
                   /\ UNCHANGED <<active, connection, socket>>
  /\ UNCHANGED <<late, zombies, disposed, blamed, known>>

\* Ten seconds have passed since the request was made.
Deadline(r) ==
  /\ job[r] \in {"waiting", "active"} /\ r \notin late
  /\ late' = late \cup {r}
  /\ UNCHANGED <<job, waiting, waitingBytes, active, connection, socket, zombies, disposed, blamed, known>>

\* A request that is late while it waits leaves the queue.
WaitingTimesOut(r) ==
  /\ job[r] = "waiting" /\ r \in late
  /\ job' = [job EXCEPT ![r] = "rejected"]
  /\ \E i \in DOMAIN waiting :
       waiting[i] = r /\ (\A j \in 1..(i - 1) : waiting[j] # r) /\ waiting' = RemoveAt(waiting, i)
  /\ waitingBytes' = waitingBytes - Size[r]
  /\ UNCHANGED <<late, active, connection, socket, zombies, disposed, blamed, known>>

\* Mistake: the timer stops once the connection has a frame under way.
TimesOutUnsent(r) ==
  /\ job[r] = "active" /\ r \in late /\ socket[connection].frames = <<>>
  /\ Reject
  /\ zombies' = zombies \cup {r}
  /\ UNCHANGED <<late, disposed, blamed, known>>

\* The timer of the active request gives up the connection with it; its
\* execution notices later.
ActiveTimesOut(r) ==
  /\ job[r] = "active" /\ r \in late
  /\ Reject
  /\ zombies' = zombies \cup {r}
  /\ UNCHANGED <<late, disposed, blamed, known>>

\* An execution whose request is settled ends without effect.
ZombieEnds(r) ==
  /\ r \in zombies
  /\ zombies' = zombies \ {r}
  /\ UNCHANGED <<job, late, waiting, waitingBytes, active, connection, socket, disposed, blamed, known>>

-----------------------------------------------------------------------------
(* Execution of the active request.                                         *)

unchangedByExecution == <<late, zombies, disposed, blamed, known>>
unchangedByProgress == <<job, waiting, waitingBytes, active, connection, late, zombies, disposed, blamed>>

\* assertActive() after the connection is open and after its peer is verified.
Opened ==
  /\ active # None /\ socket[connection].state = "opening"
  /\ IF active \in late THEN Reject /\ UNCHANGED unchangedByExecution
     ELSE socket' = [socket EXCEPT ![connection].state = "verifying"] /\ UNCHANGED <<unchangedByProgress, known>>

Verified ==
  /\ active # None /\ socket[connection].state = "verifying"
  /\ IF active \in late THEN Reject /\ UNCHANGED unchangedByExecution
     ELSE /\ socket' = [socket EXCEPT ![connection] = Sent([@ EXCEPT !.state = "ready"], active)]
          /\ UNCHANGED <<unchangedByProgress, known>>

NotVerified ==
  /\ active # None /\ socket[connection].state \in {"opening", "verifying"}
  /\ Reject
  /\ UNCHANGED unchangedByExecution

\* The frame the daemon answers next, if the active request may take it.
Awaited(info) ==
  /\ active # None /\ active \notin late
  /\ socket[connection].frames # <<>>
  /\ Head(socket[connection].frames) = [job |-> active, info |-> info]

\* validateDaemon() accepts what the daemon says of itself.
Identified(s) == [s EXCEPT !.checked = TRUE, !.frames = Tail(@)]

InfoAnswered ==
  /\ Awaited(TRUE)
  /\ socket' = [socket EXCEPT ![connection] = Sent(Identified(@), active)]
  /\ known' = known \cup {connection}
  /\ UNCHANGED unchangedByProgress

\* Mistake: a daemon that has answered anything counts as checked.
AnsweredChecks ==
  /\ Awaited(FALSE)
  /\ LET answered == [socket EXCEPT ![connection].frames = Tail(@), ![connection].checked = TRUE]
     IN  \/ Finish("resolved", answered, connection)
         \/ active \in Closing /\ Finish("resolved", Closed(answered, connection), None)
  /\ UNCHANGED unchangedByExecution

\* A successful reset or shutdown gives up the connection.
Answered ==
  /\ Awaited(FALSE)
  /\ LET answered == [socket EXCEPT ![connection].frames = Tail(@)]
     IN  \/ Finish("resolved", answered, connection)
         \/ active \in Closing /\ Finish("resolved", Closed(answered, connection), None)
  /\ UNCHANGED unchangedByExecution

\* The answer is malformed, for another request, late, or from a daemon of
\* another build.
BadAnswer ==
  /\ active # None /\ socket[connection].frames # <<>>
  /\ Reject
  /\ UNCHANGED unchangedByExecution

-----------------------------------------------------------------------------
(* Connections end.                                                         *)

\* The daemon closes; a request in execution fails with its connection.
DaemonCloses ==
  /\ connection # None
  /\ IF active # None THEN Reject
     ELSE /\ socket' = Closed(socket, connection) /\ connection' = None
          /\ UNCHANGED <<job, waiting, waitingBytes, active>>
  /\ UNCHANGED unchangedByExecution

IdleFires ==
  /\ connection # None /\ socket[connection].idle
  /\ IF active # None THEN Reject /\ blamed' = blamed \cup {active}
     ELSE /\ socket' = Closed(socket, connection) /\ connection' = None
          /\ UNCHANGED <<job, waiting, waitingBytes, active, blamed>>
  /\ UNCHANGED <<late, zombies, disposed, known>>

Dispose ==
  /\ ~disposed /\ disposed' = TRUE
  /\ job' = [r \in Requests |-> IF job[r] \in {"waiting", "active"} THEN "rejected" ELSE job[r]]
  /\ waiting' = <<>> /\ waitingBytes' = waitingBytes - Bytes(waiting) /\ active' = None
  /\ socket' = Closed(socket, connection) /\ connection' = None
  /\ zombies' = zombies \cup ({active} \ {None})
  /\ UNCHANGED <<late, blamed, known>>

Next ==
  \/ \E r \in Requests : Ask(r) \/ Deadline(r) \/ WaitingTimesOut(r) \/ ActiveTimesOut(r) \/ ZombieEnds(r)
  \/ Opened \/ Verified \/ NotVerified \/ InfoAnswered \/ Answered \/ BadAnswer
  \/ DaemonCloses \/ IdleFires \/ Dispose

Spec == Init /\ [][Next]_vars

\* Time passes and timers fire; the daemon owes no answer.
TimesOut(r) == WaitingTimesOut(r) \/ ActiveTimesOut(r)

FairSpec == Spec /\ \A r \in Requests : WF_vars(Deadline(r)) /\ WF_vars(TimesOut(r))

-----------------------------------------------------------------------------
(* Properties.                                                              *)

\* The byte count is that of the queue, whichever way requests left it; the
\* queue keeps its limits; and a request waits only behind another.
QueueAccounting ==
  /\ waitingBytes = Bytes(waiting)
  /\ Len(waiting) <= MaxWaiting /\ waitingBytes <= MaxBytes
  /\ waiting # <<>> => active # None

\* At most one frame is under way on a connection, and it is the active
\* request's: no answer can be taken for another request.
OneInFlight ==
  \A c \in Requests : socket[c].frames # <<>> =>
    c = connection /\ Len(socket[c].frames) = 1 /\ Head(socket[c].frames).job = active

\* Whatever request gave up, no connection but the current one stays open, and
\* none after dispose().
OneConnection == \A c \in Requests : Live(socket[c]) => c = connection /\ ~disposed

\* Secrets go only to a daemon that has proved its build on that connection.
DaemonChecked ==
  \A c \in Requests : \A i \in DOMAIN socket[c].frames :
    LET f == socket[c].frames[i] IN f.info \/ f.job \in Exempt \/ c \in known

\* No request fails because of another's timeout or of the idle timer.
NoCollateral == blamed = {}

\* The four together: whatever requests, deadlines, bad answers and timers do,
\* the queue is accounted for, one request is under way on the one connection
\* that is kept, and none fails for another.
ConnectionKept == QueueAccounting /\ OneInFlight /\ OneConnection /\ NoCollateral

\* Every request is settled, even if the daemon never answers: each is made
\* once, so that no wait is for ever just when again and again none is left.
EverySettles == []<>(\A r \in Requests : job[r] \notin {"waiting", "active"})
=============================================================================
