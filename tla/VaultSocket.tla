------------------------------ MODULE VaultSocket ------------------------------
(***************************************************************************)
(* The server end of the vault's Unix socket: admission, requests and      *)
(* shutdown of vault-socket.ts with its reader, in a daemon of one user or *)
(* in the Linux service, to which a broker transfers the sockets it has    *)
(* authenticated (vault-daemon.ts, vault-broker-auth.ts).                  *)
(*                                                                         *)
(* Each action is a turn of an event loop, of the broker or of the process *)
(* that serves.  Where a client may wait for the server for ever, it may   *)
(* as well be suspended ("stuck") or have closed its end ("left").  What   *)
(* the operations do is VaultService's; here they take their time and end. *)
(* A frame is whole.                                                       *)
(***************************************************************************)
EXTENDS Naturals, FiniteSets

CONSTANTS
  Conns,      \* connections; one that is over is made again
  Nobody,
  Settings,   \* who serves, the connections for a user and in all (32 and 128
              \* in the code), and who makes which connection
  MaxFaults   \* bound: clients that get stuck and services that are killed

ASSUME ConnsAssumption == IsFiniteSet(Conns) /\ Nobody \notin Conns

ASSUME SettingsAssumption ==
  \A s \in Settings : s.host \in {"daemon", "service"} /\ s.limit.user \in Nat /\ s.limit.all \in Nat

ASSUME FaultsAssumption == MaxFaults \in Nat

VARIABLES
  setting,  \* one of Settings
  conn,     \* every connection: its handler, its socket and its client
  users,    \* admitted connections of each user
  tail,     \* the request last put into the queue of each user
  serving,  \* the process that serves
  store,    \* its backend and repository are open
  broker,   \* the broker, "none" beside a daemon
  faults

vars == <<setting, conn, users, tail, serving, store, broker, faults>>

host == setting.host

limit == setting.limit

user == setting.user  \* a daemon has one user, the service has many

Everyone == {user[c] : c \in Conns}

(***************************************************************************)
(* broker   the broker waits for the challenge                             *)
(* sent     on its way to the service                                      *)
(* verify   verifyConnection                                               *)
(* reading  the reader waits for a frame                                   *)
(* queued   a request in the queue, behind "after"                         *)
(* running, writing                                                        *)
(* ending   finishSocket                                                   *)
(***************************************************************************)
Stages == {"none", "broker", "sent", "verify", "reading", "queued", "running", "writing", "ending"}

Conn == [stage  : Stages,
         open   : BOOLEAN,   \* the server has not destroyed its socket
         slot   : BOOLEAN,   \* release is defined
         client : {"off", "shaking", "idle", "asking", "stuck", "left"},
         wire   : {"nothing", "challenge", "op", "shutdown"},
         asked  : {"op", "shutdown"},
         after  : Conns \cup {Nobody}]

NoConn == [stage |-> "none", open |-> FALSE, slot |-> FALSE, client |-> "off", wire |-> "nothing",
           asked |-> "op", after |-> Nobody]

TypeOK ==
  /\ setting \in Settings
  /\ conn \in [Conns -> Conn]
  /\ users \in [Everyone -> Nat]
  /\ tail \in [Everyone -> Conns \cup {Nobody}]
  /\ serving \in {"starting", "up", "closing", "down"}
  /\ store \in BOOLEAN
  /\ broker \in {"none", "starting", "up", "closing", "down"}
  /\ faults \in 0..MaxFaults

Init ==
  /\ setting \in Settings
  /\ conn = [c \in Conns |-> NoConn]
  /\ users = [u \in Everyone |-> 0]
  /\ tail = [u \in Everyone |-> Nobody]
  /\ serving = IF host = "daemon" THEN "up" ELSE "starting"
  /\ store = TRUE
  /\ broker = IF host = "daemon" THEN "none" ELSE "starting"
  /\ faults = 0

To(c, stage) == conn' = [conn EXCEPT ![c].stage = stage]

\* connections.size
Handled == {c \in Conns : conn[c].stage \notin {"none", "broker", "sent"}}

Alive(c) == conn[c].client \in {"shaking", "idle", "asking"}

-----------------------------------------------------------------------------
(* Clients.                                                                 *)

\* A client of the broker writes its challenge at once.  A daemon that closes
\* or has too many connections destroys the socket.
Connect(c) ==
  /\ conn[c].stage = "none"
  /\ \/ /\ host = "daemon" /\ serving = "up"
        /\ IF Cardinality(Handled) >= limit.all
           THEN UNCHANGED conn
           ELSE conn' = [conn EXCEPT ![c] = [NoConn EXCEPT !.stage = "verify", !.open = TRUE, !.client = "idle"]]
     \/ /\ host = "service" /\ broker = "up"
        /\ conn' = [conn EXCEPT ![c] = [NoConn EXCEPT !.stage = "broker", !.open = TRUE,
                                                      !.client = "shaking", !.wire = "challenge"]]
  /\ UNCHANGED <<setting, users, tail, serving, store, broker, faults>>

\* One request at a time: the next one is written when the answer has been read.
\* The service answers a shutdown as it does any other request.
Ask(c) ==
  /\ conn[c].client = "idle" /\ conn[c].open /\ conn[c].stage # "ending"
  /\ \E what \in IF host = "daemon" THEN {"op", "shutdown"} ELSE {"op"} :
       conn' = [conn EXCEPT ![c].client = "asking", ![c].wire = what]
  /\ UNCHANGED <<setting, users, tail, serving, store, broker, faults>>

\* A client ends, or gives up an answer it has waited for long enough.
Leave(c) ==
  /\ Alive(c) /\ conn[c].stage # "ending"
  /\ conn' = [conn EXCEPT ![c].client = "left"]
  /\ UNCHANGED <<setting, users, tail, serving, store, broker, faults>>

\* A client is suspended: it does not read, write or close any more.
Stick(c) ==
  /\ Alive(c) /\ conn[c].stage # "ending" /\ faults < MaxFaults
  /\ faults' = faults + 1
  /\ conn' = [conn EXCEPT ![c].client = "stuck"]
  /\ UNCHANGED <<setting, users, tail, serving, store, broker>>

-----------------------------------------------------------------------------
(* The broker.                                                              *)

Ready ==
  /\ broker = "starting" /\ serving = "starting"
  /\ broker' = "up" /\ serving' = "up"
  /\ UNCHANGED <<setting, conn, users, tail, store, faults>>

\* The service ends before it is ready.
StartFails ==
  /\ broker = "starting"
  /\ broker' = "down" /\ serving' = "down" /\ store' = FALSE
  /\ UNCHANGED <<setting, conn, users, tail, faults>>

\* Mistake: the broker acknowledges before it transfers the socket.
AuthenticateFirst(c) ==
  /\ conn[c].stage = "broker" /\ conn[c].wire = "challenge"
  /\ conn' = IF broker = "up" /\ serving # "down"
             THEN [conn EXCEPT ![c].stage = "sent", ![c].wire = "nothing",
                               ![c].client = IF @ = "shaking" THEN "idle" ELSE @]
             ELSE [conn EXCEPT ![c] = NoConn]
  /\ UNCHANGED <<setting, users, tail, serving, store, broker, faults>>

\* authenticateClient() and transferSocketToVaultService().
Authenticate(c) ==
  /\ conn[c].stage = "broker" /\ conn[c].wire = "challenge"
  /\ conn' = IF broker = "up" /\ serving # "down"
             THEN [conn EXCEPT ![c].stage = "sent", ![c].wire = "nothing"]
             ELSE [conn EXCEPT ![c] = NoConn]
  /\ UNCHANGED <<setting, users, tail, serving, store, broker, faults>>

\* The peer is not the CLI, its challenge malformed, or the client is gone.
Refuse(c) ==
  /\ conn[c].stage = "broker"
  /\ conn' = [conn EXCEPT ![c] = NoConn]
  /\ UNCHANGED <<setting, users, tail, serving, store, broker, faults>>

\* On a signal, or when the service has ended: sockets in hand are destroyed,
\* those on their way may be lost, and the channel is disconnected.
CloseBroker ==
  /\ broker = "up"
  /\ broker' = "closing"
  /\ \E lost \in SUBSET {c \in Conns : conn[c].stage = "sent"} :
       conn' = [c \in Conns |-> IF conn[c].stage = "broker" \/ c \in lost THEN NoConn ELSE conn[c]]
  /\ UNCHANGED <<setting, users, tail, serving, store, faults>>

\* server.close() has waited for the transferred sockets, and the service ended.
BrokerEnds ==
  /\ broker = "closing" /\ serving = "down"
  /\ broker' = "down"
  /\ UNCHANGED <<setting, conn, users, tail, serving, store, faults>>

-----------------------------------------------------------------------------
(* The handler of a connection.                                             *)

\* Mistake: the user is counted before the limit is looked at.
AdmitCounting(c, wire) ==
  /\ users' = [users EXCEPT ![user[c]] = @ + 1]
  /\ conn' = [conn EXCEPT ![c].stage = IF users[user[c]] >= limit.user THEN "ending" ELSE "reading",
                          ![c].slot = users[user[c]] < limit.user, ![c].wire = wire,
                          ![c].client = IF @ = "shaking" THEN "idle" ELSE @]

\* admit(): a slot of the user, or an error frame and the end.  "wire" is what
\* the reader will find.
Admit(c, wire) ==
  IF users[user[c]] >= limit.user
  THEN To(c, "ending") /\ UNCHANGED users
  ELSE /\ conn' = [conn EXCEPT ![c].stage = "reading", ![c].slot = TRUE, ![c].wire = wire,
                               ![c].client = IF @ = "shaking" THEN "idle" ELSE @]
       /\ users' = [users EXCEPT ![user[c]] = @ + 1]

\* The service takes a socket over and then acknowledges it to the client; what
\* the broker has read of it by now stays in the broker.
Receive(c) ==
  /\ conn[c].stage = "sent" /\ serving \in {"up", "closing"}
  /\ \/ conn' = [conn EXCEPT ![c] = NoConn] /\ UNCHANGED users
     \/ serving = "up" /\ Cardinality(Handled) < limit.all /\ Admit(c, "nothing")
  /\ UNCHANGED <<setting, tail, serving, store, broker, faults>>

Verified(c) ==
  /\ conn[c].stage = "verify"
  /\ Admit(c, conn[c].wire)
  /\ UNCHANGED <<setting, tail, serving, store, broker, faults>>

\* Another program, or no answer of the verifier in time.
VerifyFails(c) ==
  /\ conn[c].stage = "verify"
  /\ \/ To(c, "ending")
     \/ conn' = [conn EXCEPT ![c].stage = "ending", ![c].open = FALSE]
  /\ UNCHANGED <<setting, users, tail, serving, store, broker, faults>>

\* VaultSocketReader has a frame, and it enters the queue of its user.
Frame(c) ==
  /\ conn[c].stage = "reading" /\ conn[c].wire \in {"op", "shutdown"}
  /\ conn' = [conn EXCEPT ![c].stage = "queued", ![c].wire = "nothing",
                          ![c].asked = conn[c].wire, ![c].after = tail[user[c]]]
  /\ tail' = [tail EXCEPT ![user[c]] = c]
  /\ UNCHANGED <<setting, users, serving, store, broker, faults>>

\* The idle or the frame timer of the reader.
TimesOut(c) ==
  /\ conn[c].stage = "reading"
  /\ conn' = [conn EXCEPT ![c].stage = "ending", ![c].open = FALSE]
  /\ UNCHANGED <<setting, users, tail, serving, store, broker, faults>>

\* A socket is destroyed: the reader ends, and so does a write; an operation goes on.
Destroyed(r) ==
  [r EXCEPT !.open = FALSE, !.stage = IF @ \in {"verify", "reading", "writing"} THEN "ending" ELSE @]

\* The end of the client is heard while the socket flows, once its data is read.
Hear(c) ==
  /\ conn[c].client = "left" /\ conn[c].open /\ conn[c].wire = "nothing"
  /\ conn[c].stage \in {"reading", "queued", "running", "writing"}
  /\ conn' = [conn EXCEPT ![c] = Destroyed(@)]
  /\ UNCHANGED <<setting, users, tail, serving, store, broker, faults>>

\* Mistake: the entry of the queue is deleted when another request is behind it.
ReleasedForgetting(cs, c) ==
  /\ tail' = [tail EXCEPT ![user[c]] = Nobody]
  /\ conn' = [d \in Conns |-> [cs[d] EXCEPT !.after = IF @ = c THEN Nobody ELSE @]]

\* VaultBackendRequestQueue.run() ends, and the request behind goes on.
Released(cs, c) ==
  /\ tail' = [tail EXCEPT ![user[c]] = IF @ = c THEN Nobody ELSE @]
  /\ conn' = [d \in Conns |-> [cs[d] EXCEPT !.after = IF @ = c THEN Nobody ELSE @]]

\* The turn of a request comes: it runs unless its connection is gone.
Start(c) ==
  /\ conn[c].stage = "queued" /\ conn[c].after = Nobody
  /\ IF conn[c].open
     THEN To(c, "running") /\ UNCHANGED tail
     ELSE Released([conn EXCEPT ![c].stage = "ending"], c)
  /\ UNCHANGED <<setting, users, serving, store, broker, faults>>

\* An operation that throws is answered with an error frame, and that is the end.
Complete(c) ==
  /\ conn[c].stage = "running"
  /\ \E next \in IF conn[c].open THEN {"writing", "ending"} ELSE {"ending"} :
       Released([conn EXCEPT ![c].stage = next], c)
  /\ UNCHANGED <<setting, users, serving, store, broker, faults>>

\* close(): nothing is admitted any more and every socket is destroyed.
Closing(cs) == [d \in Conns |-> IF d \in Handled THEN Destroyed(cs[d]) ELSE cs[d]]

\* The answer is with the client, or in the buffers before it.  A daemon that
\* has reset the vault or was told to shut down closes.
Written(c) ==
  LET told == [conn EXCEPT ![c].client = IF @ = "asking" THEN "idle" ELSE @] IN
  /\ conn[c].stage = "writing"
  /\ IF host = "daemon" /\ conn[c].asked = "shutdown" /\ serving = "up"
     THEN conn' = Closing(told) /\ serving' = "closing"
     ELSE conn' = [told EXCEPT ![c].stage = "reading", ![c].asked = "op"] /\ UNCHANGED serving
  /\ UNCHANGED <<setting, users, tail, store, broker, faults>>

\* A client that does not read fills its buffers.
WriteTimesOut(c) ==
  /\ conn[c].stage = "writing" /\ conn[c].client = "stuck"
  /\ conn' = [conn EXCEPT ![c].stage = "ending", ![c].open = FALSE]
  /\ UNCHANGED <<setting, users, tail, serving, store, broker, faults>>

\* Mistake: finishSocket() waits for the client to close.
EndWithClient(c) ==
  /\ conn[c].stage = "ending" /\ (conn[c].open => conn[c].client # "stuck")
  /\ users' = [users EXCEPT ![user[c]] = IF conn[c].slot THEN @ - 1 ELSE @]
  /\ conn' = [conn EXCEPT ![c] = NoConn]
  /\ UNCHANGED <<setting, tail, serving, store, broker, faults>>

\* finishSocket() and release(): the socket closes, within a second.
End(c) ==
  /\ conn[c].stage = "ending"
  /\ users' = [users EXCEPT ![user[c]] = IF conn[c].slot THEN @ - 1 ELSE @]
  /\ conn' = [conn EXCEPT ![c] = NoConn]
  /\ UNCHANGED <<setting, tail, serving, store, broker, faults>>

-----------------------------------------------------------------------------
(* The process that serves.                                                 *)

CloseServing ==
  /\ serving' = "closing" /\ conn' = Closing(conn)
  /\ UNCHANGED <<setting, users, tail, store, broker, faults>>

\* A signal; in a daemon a timer of the vault's as well.
Signal == serving = "up" /\ CloseServing

\* The channel to the broker ends behind the sockets sent through it.
Disconnected ==
  /\ serving = "up" /\ broker = "closing" /\ \A c \in Conns : conn[c].stage # "sent"
  /\ CloseServing

\* The handlers have ended: backends and repository are closed, the process exits.
CloseStore ==
  /\ serving = "closing" /\ Handled = {}
  /\ serving' = "down" /\ store' = FALSE
  /\ conn' = [c \in Conns |-> IF conn[c].stage = "sent" THEN NoConn ELSE conn[c]]
  /\ UNCHANGED <<setting, users, tail, broker, faults>>

\* The process is killed.
Killed ==
  /\ serving \in {"up", "closing"} /\ faults < MaxFaults
  /\ faults' = faults + 1
  /\ serving' = "down" /\ store' = FALSE
  /\ conn' = [c \in Conns |-> IF conn[c].stage = "broker" THEN conn[c] ELSE NoConn]
  /\ users' = [u \in Everyone |-> 0]
  /\ tail' = [u \in Everyone |-> Nobody]
  /\ UNCHANGED <<setting, broker>>

-----------------------------------------------------------------------------
Client(c) == Connect(c) \/ Ask(c) \/ Leave(c) \/ Stick(c)

Handler(c) ==
  \/ Receive(c) \/ Verified(c) \/ VerifyFails(c) \/ Frame(c) \/ TimesOut(c) \/ Hear(c)
  \/ Start(c) \/ Complete(c) \/ Written(c) \/ WriteTimesOut(c) \/ End(c)

Next ==
  \/ \E c \in Conns : Client(c) \/ Authenticate(c) \/ Refuse(c) \/ Handler(c)
  \/ Ready \/ StartFails \/ CloseBroker \/ BrokerEnds
  \/ Signal \/ Disconnected \/ CloseStore \/ Killed

Spec == Init /\ [][Next]_vars

\* What closes goes on to do so, and the broker hears that the service has ended.
Ending ==
  \/ serving = "down" /\ CloseBroker
  \/ BrokerEnds \/ Disconnected \/ CloseStore

\* Handlers go on: timers fire and operations end.  Nothing is assumed of clients.
Fairness ==
  /\ \A c \in Conns : WF_vars(Handler(c))
  /\ WF_vars(Ending)

FairSpec == Spec /\ Fairness
-----------------------------------------------------------------------------
(* Properties.                                                              *)

\* admit() and release(): the count of a user is that of the connections that
\* hold a slot, whatever way they ended, and no limit is exceeded.
SlotsExact ==
  /\ \A u \in Everyone :
       /\ users[u] = Cardinality({c \in Conns : conn[c].slot /\ user[c] = u})
       /\ users[u] <= limit.user
  /\ Cardinality(Handled) <= limit.all

\* VaultBackendRequestQueue: operations of one user never overlap; and the
\* backend and its repository stay open under a running operation, also when its
\* client has gone and the server is closed (close() waits for operations).
OneAtATime ==
  /\ \A c \in Conns : conn[c].stage = "running" => store
  /\ \A c, d \in Conns :
       conn[c].stage = "running" /\ conn[d].stage = "running" /\ user[c] = user[d] => c = d

\* A request that a client waits for is before the reader or in service while
\* the connection is open: none stays behind in the broker.
RequestKept ==
  \A c \in Conns :
    conn[c].client = "asking" /\ conn[c].open
      => conn[c].wire # "nothing" \/ conn[c].stage \in {"queued", "running", "writing", "ending"}

\* The three together: what the server knows of its connections is exact.
ConnectionsExact == SlotsExact /\ OneAtATime /\ RequestKept

\* A client that is suspended or gone does not keep its slot, and what closes
\* ends, broker and service together: none waits for the other.
SlotsReturn ==
  /\ \A c \in Conns : conn[c].slot /\ conn[c].client \in {"stuck", "left"} ~> ~conn[c].slot
  /\ serving = "closing" \/ broker = "closing" ~> serving = "down" /\ broker \in {"none", "down"}
=============================================================================
