----------------------------- MODULE WindowsVault -----------------------------
(***************************************************************************)
(* The Windows vault service: a native dispatcher of named pipes           *)
(* (vault_pipe_dispatcher_windows.h), the worker that drives it            *)
(* (vault-windows-transport.ts), the worker that runs the requests and     *)
(* obeys the service control manager (vault-windows-service.ts).           *)
(*                                                                         *)
(* The three are threads joined by queues: a connection is known to all of *)
(* them, each at its own moment.  A pipe instance (a "slot") serves one    *)
(* connection after another, and the number of the connection, its         *)
(* generation, goes with every message.  Each action is an iteration of    *)
(* the dispatcher's loop, or a turn of an event loop.                      *)
(*                                                                         *)
(* Connect and handshake are one step, and so are header and body.  The    *)
(* server's deadlines, and all a client can do to a connection, are        *)
(* Reconnect.  What the operations do is VaultService's.                   *)
(***************************************************************************)
EXTENDS Naturals, Sequences, SequencesExt

CONSTANTS
  Slots,          \* pipe instances, 32 in the code
  Users,          \* principals of the clients
  Nobody,
  Limit,          \* requests admitted at once, 32 in the code
  Bounds          \* the connections of each slot (2^32 - 1 in the code), their requests,
                  \* suspensions of the computer, and failures of a worker or of a lock

VARIABLES
  bounds,      \* one of Bounds
  slot,        \* the dispatcher: every pipe instance and its mailbox
  events,      \* from the dispatcher to the pipe worker
  peers,       \* pipe worker: the verified peer of each slot
  messages,    \* from the pipe worker to the runtime worker
  replies,     \* from the runtime worker to the pipe worker
  pipe,        \* the pipe worker and its dispatcher
  connections, \* runtime worker: the latest connection of each slot
  queue,       \* its request queue, the lock on sleep among the requests
  loop,        \* its control loop
  closing,     \* its flag, and the one of its queue
  failure,     \* why it ended
  store,       \* the manager is open
  control,     \* the flags of the service control handler
  faults       \* failures left

vars == <<bounds, slot, events, peers, messages, replies, pipe, connections, queue, loop, closing,
          failure, store, control, faults>>

dispatcher == <<bounds, slot, events>>

worker == <<bounds, peers, pipe>>

runtime == <<bounds, connections, queue, loop, closing, failure, store>>

Identities == [slot : Slots, generation : Nat, request : Nat]

NoMail == [mail |-> "none"]

(***************************************************************************)
(* A mailbox takes mail when its slot expects it: VAULT_PIPE_AUTHORIZE and *)
(* VAULT_PIPE_RESPONSE.  An answer carries the request it answers and the  *)
(* user whose vault was asked.                                             *)
(***************************************************************************)
Slot == [stage : {"connect", "authorize", "header", "response", "write"},
         generation : Nat, request : Nat, user : Users \cup {Nobody},
         box : {NoMail} \cup [mail : {"verdict"}, authorized : BOOLEAN]
               \cup [mail : {"answer"}, to : Identities, user : Users]]

Fresh(generation) ==
  [stage |-> "connect", generation |-> generation, request |-> 0, user |-> Nobody, box |-> NoMail]

NoConnection == [generation |-> 0, sequence |-> 0, active |-> FALSE, pending |-> FALSE, user |-> Nobody]

TypeOK ==
  /\ bounds \in Bounds
  /\ slot \in [Slots -> Slot]
  /\ peers \in [Slots -> [generation : Nat, user : Users \cup {Nobody}]]
  /\ pipe \in {"up", "gone"}
  /\ connections \in [Slots -> [generation : Nat, sequence : Nat,
                               active : BOOLEAN, pending : BOOLEAN, user : Users \cup {Nobody}]]
  /\ loop \in {"polling", "locking", "lockingLast", "terminating", "draining", "ended"}
  /\ closing \in BOOLEAN /\ store \in BOOLEAN
  /\ failure \in {"none", "sequence", "peer", "worker", "lock"}
  /\ control \in [ready : BOOLEAN, lock : BOOLEAN, stop : BOOLEAN, left : Nat]
  /\ faults \in Nat

Init ==
  /\ bounds \in Bounds
  /\ slot = [s \in Slots |-> Fresh(1)]
  /\ events = <<>> /\ replies = <<>>
  /\ peers = [s \in Slots |-> [generation |-> 0, user |-> Nobody]]
  /\ messages = <<[type |-> "ready"]>>
  /\ pipe = "up"
  /\ connections = [s \in Slots |-> NoConnection]
  /\ queue = <<>>
  /\ loop = "polling"
  /\ closing = FALSE /\ failure = "none" /\ store = TRUE
  /\ control = [ready |-> FALSE, lock |-> FALSE, stop |-> FALSE, left |-> bounds.controls]
  /\ faults = bounds.faults

Identity(s) == [slot |-> s, generation |-> slot[s].generation, request |-> slot[s].request]

Event(type, s) == [type |-> type, id |-> Identity(s), user |-> slot[s].user]

-----------------------------------------------------------------------------
(* The dispatcher.                                                          *)

\* A client connects to a free instance; the pipe worker is to verify it.
Connect(s) ==
  /\ pipe = "up" /\ slot[s].stage = "connect" /\ slot[s].generation <= bounds.connections[s]
  /\ \E u \in Users : slot' = [slot EXCEPT ![s].stage = "authorize", ![s].user = u]
  /\ events' = Append(events, [type |-> "verify", id |-> Identity(s), user |-> slot'[s].user])
  /\ UNCHANGED <<worker, runtime, messages, replies, control, faults>>

\* Cancels what is pending, clears the mailbox, and waits for the next client.
Reconnected(s) ==
  /\ slot' = [slot EXCEPT ![s] = Fresh(slot[s].generation + 1)]
  /\ events' = Append(events, Event("closed", s))

\* The deadline of the stage, or the client left.
Reconnect(s) ==
  /\ pipe = "up" /\ slot[s].stage # "connect"
  /\ Reconnected(s)
  /\ UNCHANGED <<worker, runtime, messages, replies, control, faults>>

\* A request has been read.  No other is read before it is answered.
Read(s) ==
  /\ pipe = "up" /\ slot[s].stage = "header" /\ slot[s].request < bounds.requests
  /\ slot' = [slot EXCEPT ![s].stage = "response", ![s].request = slot[s].request + 1]
  /\ events' = Append(events, [type |-> "request", user |-> slot[s].user,
                               id |-> [Identity(s) EXCEPT !.request = slot[s].request + 1]])
  /\ UNCHANGED <<worker, runtime, messages, replies, control, faults>>

\* process_mail.
Mail(s) ==
  /\ pipe = "up" /\ slot[s].box # NoMail /\ slot[s].stage # "write"
  /\ IF slot[s].stage = "response"
     THEN slot' = [slot EXCEPT ![s].stage = "write"] /\ UNCHANGED events
     ELSE IF slot[s].box.authorized
          THEN slot' = [slot EXCEPT ![s].stage = "header", ![s].box = NoMail] /\ UNCHANGED events
          ELSE Reconnected(s)
  /\ UNCHANGED <<worker, runtime, messages, replies, control, faults>>

Written(s) ==
  /\ pipe = "up" /\ slot[s].stage = "write"
  /\ slot' = [slot EXCEPT ![s].stage = "header", ![s].box = NoMail]
  /\ UNCHANGED <<events, worker, runtime, messages, replies, control, faults>>

-----------------------------------------------------------------------------
(* The pipe worker.                                                         *)

\* A mistake: whoever waits in the slot gets the mail.
AcceptsAny(id) == slot[id.slot].stage \in {"authorize", "response"} /\ slot[id.slot].box = NoMail

\* vault_pipe_submit: the mailbox waits for this very request.
Accepts(id) ==
  /\ Identity(id.slot) = id
  /\ slot[id.slot].stage \in {"authorize", "response"} /\ slot[id.slot].box = NoMail

Submit(id, mail) == slot' = IF Accepts(id) THEN [slot EXCEPT ![id.slot].box = mail] ELSE slot

Stopped ==
  /\ pipe' = "gone"
  /\ slot' = [s \in Slots |-> Fresh(slot[s].generation)]
  /\ events' = <<>> /\ replies' = <<>>

\* The callback of startDispatcher.
Dispatched ==
  /\ pipe = "up" /\ events # <<>>
  /\ LET e == Head(events)
         at == e.id.slot
     IN \/ /\ e.type = "verify"
           /\ \E verified \in BOOLEAN :
                /\ Submit(e.id, [mail |-> "verdict", authorized |-> verified])
                /\ peers' = IF verified /\ Accepts(e.id)
                            THEN [peers EXCEPT ![at] = [generation |-> e.id.generation, user |-> e.user]]
                            ELSE peers
           /\ events' = Tail(events)
           /\ UNCHANGED <<pipe, messages, replies>>
        \/ /\ e.type = "closed"
           /\ peers' = IF peers[at].generation = e.id.generation
                       THEN [peers EXCEPT ![at] = [generation |-> 0, user |-> Nobody]] ELSE peers
           /\ messages' = Append(messages, e)
           /\ events' = Tail(events)
           /\ UNCHANGED <<slot, pipe, replies>>
        \/ /\ e.type = "request" /\ peers[at].generation = e.id.generation
           /\ messages' = Append(messages, [e EXCEPT !.user = peers[at].user])
           /\ events' = Tail(events)
           /\ UNCHANGED <<slot, peers, pipe, replies>>
        \/ /\ e.type = "request" /\ peers[at].generation # e.id.generation
           /\ Stopped
           /\ messages' = Append(messages, [type |-> "exit", why |-> "peer"])
           /\ UNCHANGED peers
  /\ UNCHANGED <<runtime, control, faults>>

\* onResponse, transport.respond.
Respond ==
  /\ pipe = "up" /\ replies # <<>>
  /\ Submit(Head(replies).id, [mail |-> "answer", to |-> Head(replies).id, user |-> Head(replies).user])
  /\ replies' = Tail(replies)
  /\ UNCHANGED <<events, worker, runtime, messages, control, faults>>

WorkerFails ==
  /\ pipe = "up" /\ faults > 0
  /\ Stopped
  /\ messages' = Append(messages, [type |-> "exit", why |-> "worker"])
  /\ faults' = faults - 1
  /\ UNCHANGED <<peers, runtime, control>>

-----------------------------------------------------------------------------
(* The runtime worker: requests.                                            *)

\* isActive of the request.
Active(id) ==
  /\ ~closing /\ connections[id.slot].active
  /\ connections[id.slot].generation = id.generation /\ connections[id.slot].sequence = id.request

Reply(entry) == replies' = IF Active(entry.id) THEN Append(replies, [id |-> entry.id, user |-> entry.user]) ELSE replies

\* The request is over, with its turn in the queue.
Released(i) ==
  /\ queue' = RemoveAt(queue, i)
  /\ connections' = LET id == queue[i].id IN
       IF connections[id.slot].generation = id.generation
       THEN [connections EXCEPT ![id.slot].pending = FALSE] ELSE connections

\* "out of sequence"
OutOfSequence(m) ==
  LET c == connections[m.id.slot] IN
  \/ m.id.generation > c.generation /\ m.id.request # 1
  \/ m.id.generation < c.generation
  \/ /\ m.id.generation = c.generation
     /\ ~c.active \/ c.pending \/ m.id.request # c.sequence + 1 \/ m.user # c.user

Fail(why) == failure' = why /\ closing' = TRUE

Sleeping == [user |-> Nobody]

Asked == {i \in DOMAIN queue : queue[i] # Sleeping}

\* A request that finds the queue full is answered "unavailable" in the same turn.
Admit(m) ==
  LET full == Len(SelectSeq(queue, LAMBDA entry : entry # Sleeping)) >= Limit
      entry == [id |-> m.id, user |-> m.user, running |-> FALSE]
  IN /\ connections' = [connections EXCEPT ![m.id.slot] =
                          [generation |-> m.id.generation, sequence |-> m.id.request, active |-> TRUE,
                           pending |-> ~full, user |-> m.user]]
     /\ queue' = IF full THEN queue ELSE Append(queue, entry)
     /\ replies' = IF full THEN Append(replies, [id |-> m.id, user |-> m.user]) ELSE replies

\* pipe.on('message'), 'error' and 'exit'.
Receive ==
  /\ messages # <<>> /\ loop # "ended"
  /\ messages' = Tail(messages)
  /\ LET m == Head(messages) IN
     \/ closing /\ UNCHANGED <<connections, queue, closing, failure, control, replies>>
     \/ /\ ~closing /\ m.type = "ready"
        /\ control' = [control EXCEPT !.ready = TRUE]
        /\ UNCHANGED <<connections, queue, closing, failure, replies>>
     \/ /\ ~closing /\ m.type = "exit"
        /\ Fail(m.why)
        /\ UNCHANGED <<connections, queue, control, replies>>
     \/ /\ ~closing /\ m.type = "closed"
        /\ connections' = IF connections[m.id.slot].generation = m.id.generation
                          THEN [connections EXCEPT ![m.id.slot].active = FALSE] ELSE connections
        /\ UNCHANGED <<queue, closing, failure, control, replies>>
     \/ /\ ~closing /\ m.type = "request"
        /\ IF OutOfSequence(m)
           THEN Fail("sequence") /\ UNCHANGED <<connections, queue, replies>>
           ELSE Admit(m) /\ UNCHANGED <<closing, failure>>
        /\ UNCHANGED control
  /\ UNCHANGED <<dispatcher, worker, loop, store, faults>>

\* Two mistakes: the lock is forgotten; the tail is read after it is set.
BeforeOfUser(i) == {j \in 1..(i - 1) : queue[j].user = queue[i].user}

BeforeAndItself(i) == {j \in 1..i : queue[j].user \in {queue[i].user, Nobody}}

\* What a request waits for: the user's requests before it, and the lock.
Before(i) == {j \in 1..(i - 1) : queue[j].user \in {queue[i].user, Nobody}}

\* Its turn.  It does nothing when the connection is closed, or the queue.
Start(i) ==
  /\ i \in Asked /\ ~queue[i].running /\ Before(i) = {}
  /\ IF Active(queue[i].id)
     THEN queue' = [queue EXCEPT ![i].running = TRUE] /\ UNCHANGED connections
     ELSE Released(i)
  /\ UNCHANGED <<dispatcher, worker, messages, replies, loop, closing, failure, store, control, faults>>

Complete(i) ==
  /\ i \in Asked /\ queue[i].running
  /\ Reply(queue[i])
  /\ Released(i)
  /\ UNCHANGED <<dispatcher, worker, messages, loop, closing, failure, store, control, faults>>

-----------------------------------------------------------------------------
(* The runtime worker: the control loop.                                    *)

Suspend ==
  /\ control.ready /\ control.left > 0 /\ loop # "ended"
  /\ control' = [control EXCEPT !.lock = TRUE, !.left = control.left - 1]
  /\ UNCHANGED <<dispatcher, worker, runtime, messages, replies, faults>>

Stop ==
  /\ control.ready /\ ~control.stop
  /\ control' = [control EXCEPT !.stop = TRUE]
  /\ UNCHANGED <<dispatcher, worker, runtime, messages, replies, faults>>

Close == closing' = TRUE /\ loop' = "terminating"

\* Reading the flags clears the one of the suspension.
Poll ==
  /\ loop = "polling"
  /\ \/ failure # "none" /\ Close /\ control' = [control EXCEPT !.stop = TRUE] /\ UNCHANGED queue
     \/ /\ failure = "none" /\ control.lock
        /\ queue' = Append(queue, Sleeping)
        /\ loop' = IF control.stop THEN "lockingLast" ELSE "locking"
        /\ control' = [control EXCEPT !.lock = FALSE]
        /\ UNCHANGED closing
     \/ failure = "none" /\ ~control.lock /\ control.stop /\ Close /\ UNCHANGED <<control, queue>>
  /\ UNCHANGED <<dispatcher, worker, messages, replies, connections, failure, store, faults>>

\* lockForSleep: when the requests before it are over, manager.lockForSleep locks the
\* vaults in one turn.  A lock that throws ends the service.
Lock ==
  /\ queue # <<>> /\ Head(queue) = Sleeping /\ queue' = Tail(queue)
  /\ \/ /\ IF loop = "lockingLast" THEN Close /\ UNCHANGED failure
           ELSE loop' = "polling" /\ UNCHANGED <<closing, failure>>
        /\ UNCHANGED faults
     \/ /\ faults > 0 /\ faults' = faults - 1
        /\ Close /\ failure' = "lock"
  /\ control' = [control EXCEPT !.stop = control.stop \/ loop' = "terminating"]
  /\ UNCHANGED <<dispatcher, worker, messages, replies, connections, store>>

\* The pipe worker stops its dispatcher at once, or when it is terminated.
Terminate ==
  /\ loop = "terminating" /\ loop' = "draining"
  /\ Stopped
  /\ UNCHANGED <<bounds, peers, messages, connections, queue, closing, failure, store, control, faults>>

\* Nothing is in the queue: the manager is closed, and the stop is complete.
End == loop = "draining" /\ queue = <<>> /\ loop' = "ended" /\ store' = FALSE

Finish ==
  /\ End
  /\ UNCHANGED <<dispatcher, worker, messages, replies, connections, queue, closing, failure, control, faults>>

Next ==
  \/ \E s \in Slots : Connect(s) \/ Reconnect(s) \/ Read(s) \/ Mail(s) \/ Written(s)
  \/ Dispatched \/ Respond \/ WorkerFails \/ Receive
  \/ \E i \in DOMAIN queue : Start(i) \/ Complete(i)
  \/ Suspend \/ Stop \/ Poll \/ Lock \/ Terminate \/ Finish

Spec == Init /\ [][Next]_vars

Operate == \E i \in DOMAIN queue : Start(i) \/ Complete(i)

ControlLoop == Poll \/ Lock \/ Terminate \/ Finish

\* The runtime worker runs, and every operation of the vault ends.
Fairness == WF_vars(Receive) /\ WF_vars(Operate) /\ WF_vars(ControlLoop)

FairSpec == Spec /\ Fairness

-----------------------------------------------------------------------------
(* Properties.                                                              *)

Running == {i \in Asked : queue[i].running}

(***************************************************************************)
(* What a client is sent answers the request it waits for, and was done    *)
(* with the vault of its own user, whichever connection of the slot the    *)
(* other two threads have got to (vault_pipe_submit, startDispatcher).     *)
(* And no order of requests, answers, deadlines and closed connections     *)
(* looks to a worker like a dispatcher gone wrong: "out of sequence" and a *)
(* request without a verified peer end the service for everyone.  Nor is   *)
(* the manager closed under an operation (the "finally" of runRuntimeWorker). *)
(***************************************************************************)
AnswerToAsker ==
  /\ failure \notin {"sequence", "peer"}
  /\ Running # {} => store
  /\ \A s \in Slots :
       slot[s].stage \in {"response", "write"} /\ slot[s].box # NoMail =>
         slot[s].box = [mail |-> "answer", to |-> Identity(s), user |-> slot[s].user]

(***************************************************************************)
(* The vaults are locked on suspension between the operations of all the   *)
(* users, not in the midst of one (WindowsVaultRequestQueue).              *)
(***************************************************************************)
LockedBetween == [][(\E i \in DOMAIN queue : queue[i] = Sleeping) /\ (\A i \in DOMAIN queue' : queue'[i] # Sleeping)
                      => Running = {}]_vars

(***************************************************************************)
(* A suspension is obeyed though clients go on asking, and the service     *)
(* ends when it is told to: again and again, no control is left to obey.   *)
(***************************************************************************)
ControlsObeyed ==
  []<>(loop = "ended" \/ (~control.stop /\ ~control.lock /\ \A i \in DOMAIN queue : queue[i] # Sleeping))
=============================================================================
