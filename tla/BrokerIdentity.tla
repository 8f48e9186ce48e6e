--------------------------- MODULE BrokerIdentity ---------------------------
(***************************************************************************)
(* How a command and the Linux broker prove to each other who they are.    *)
(*                                                                         *)
(* The broker keeps a key pair in two files (vault-broker-auth), which a   *)
(* crash can leave half written and a command may look for before they are *)
(* there; it signs a command's challenge once it has found out who is      *)
(* connected (vault-peer-verifier and native/vault_peer_linux.c), while    *)
(* processes end and their identifiers are given to others.                *)
(*                                                                         *)
(* There is one broker at a time (SystemService).  An answer, once signed, *)
(* reaches the command through the service (VaultSocket).                  *)
(***************************************************************************)
CONSTANTS
  Clients,   \* commands, each of which connects once
  Pids,
  Keys,      \* key pairs
  Nobody

VARIABLES
  private, public,   \* the two files
  broker,            \* the broker process
  occupant,          \* the process that has each pid
  conn               \* every command and its connection

vars == <<private, public, broker, occupant, conn>>

Stranger == "stranger"   \* a process of another program

ConstantsAssumption ==
  /\ Nobody \notin Clients /\ Nobody \notin Pids /\ Nobody \notin Keys
  /\ Nobody # Stranger /\ Stranger \notin Clients

Conn ==
  [at : {"idle", "waiting", "challenged", "verified", "refused", "failed"},   \* the command
   pid : Pids \cup {Nobody},               \* its pid when it connected
   key : Keys \cup {Nobody},               \* the public key it checks with
   peer : {"none", "accepted", "named", "trusted", "signed"},   \* how far the broker is
   seen : Clients \cup {Stranger, Nobody},   \* whose executable the broker read
   answer : Keys \cup {Nobody}]            \* what its challenge was signed with

TypeOK ==
  /\ private \in Keys \cup {Nobody} /\ public \in Keys \cup {Nobody}
  /\ broker \in [at : {"off", "reading", "generating", "reread", "checking", "publishing",
                       "listening", "refused"},
                 key : Keys \cup {Nobody}]
  /\ occupant \in [Pids -> Clients \cup {Stranger, Nobody}]
  /\ conn \in [Clients -> Conn]

Off == [at |-> "off", key |-> Nobody]

Init ==
  /\ private = Nobody /\ public = Nobody
  /\ broker = Off
  /\ occupant = [p \in Pids |-> Nobody]
  /\ conn = [c \in Clients |-> [at |-> "idle", pid |-> Nobody, key |-> Nobody,
                                peer |-> "none", seen |-> Nobody, answer |-> Nobody]]

-----------------------------------------------------------------------------
(* The broker's key pair (ensureLinuxVaultBrokerKey).                       *)

\* The service it spawned is ready, and no other broker runs.
Start ==
  /\ broker.at \in {"off", "refused"}
  /\ broker' = [Off EXCEPT !.at = "reading"]
  /\ UNCHANGED <<private, public, occupant, conn>>

ReadPrivate ==
  /\ broker.at \in {"reading", "reread"}
  /\ broker' = IF private # Nobody THEN [at |-> "checking", key |-> private]
               ELSE [Off EXCEPT !.at = IF broker.at = "reading" THEN "generating" ELSE "refused"]
  /\ UNCHANGED <<private, public, occupant, conn>>

\* A temporary file takes the name once it is complete.
Generate ==
  /\ broker.at = "generating"
  /\ \E k \in Keys \ {private, public} : private' = k
  /\ broker' = [broker EXCEPT !.at = "reread"]
  /\ UNCHANGED <<public, occupant, conn>>

\* A public key that is not that of the private one is an error, never replaced.
CheckPublic ==
  /\ broker.at = "checking"
  /\ broker' = [broker EXCEPT !.at = IF public = Nobody THEN "publishing"
                                     ELSE IF public = broker.key THEN "listening" ELSE "refused"]
  /\ UNCHANGED <<private, public, occupant, conn>>

Publish ==
  /\ broker.at = "publishing"
  /\ public' = broker.key
  /\ broker' = [broker EXCEPT !.at = "listening"]
  /\ UNCHANGED <<private, occupant, conn>>

\* The broker ends or is killed.  The connections it had accepted are closed; one
\* nobody has accepted stays in the queue of a socket that systemd holds, or is lost.
Crash ==
  /\ broker.at # "off"
  /\ broker' = Off
  /\ \E queue \in BOOLEAN :
       conn' = [c \in Clients |->
         IF /\ conn[c].at \in {"waiting", "challenged"}
            /\ conn[c].peer # "signed"
            /\ conn[c].peer # "none" \/ ~queue
         THEN [conn[c] EXCEPT !.at = "failed", !.peer = "none"] ELSE conn[c]]
  /\ UNCHANGED <<private, public, occupant>>

-----------------------------------------------------------------------------
(* A command (createLinuxVaultBrokerPeerVerifier).                          *)

Connect(c, p) ==
  /\ conn[c].at = "idle"
  /\ occupant[p] = Nobody
  /\ occupant' = [occupant EXCEPT ![p] = c]
  /\ conn' = [conn EXCEPT ![c].at = "waiting", ![c].pid = p]
  /\ UNCHANGED <<private, public, broker>>

Alive(c) == conn[c].pid # Nobody /\ occupant[conn[c].pid] = c

\* It waits two seconds for a public key, and then sends a challenge.
ReadPublic(c) ==
  /\ Alive(c) /\ conn[c].at = "waiting"
  /\ conn' = [conn EXCEPT ![c].at = IF public = Nobody THEN "failed" ELSE "challenged",
                          ![c].key = public]
  /\ UNCHANGED <<private, public, broker, occupant>>

\* The signature is of its own challenge, process and user.
CheckAnswer(c) ==
  /\ Alive(c) /\ conn[c].at = "challenged" /\ conn[c].peer = "signed"
  /\ conn' = [conn EXCEPT ![c].at = IF conn[c].answer = conn[c].key THEN "verified" ELSE "refused"]
  /\ UNCHANGED <<private, public, broker, occupant>>

\* The command ends; what it has sent can still be read.
Exit(c) ==
  /\ Alive(c)
  /\ occupant' = [occupant EXCEPT ![conn[c].pid] = Nobody]
  /\ UNCHANGED <<private, public, broker, conn>>

-----------------------------------------------------------------------------
(* The broker and a connection (runLinuxVaultBroker, peer_info).            *)

\* SO_PEERCRED and SO_PEERPIDFD name the process that connected.
Accept(c) ==
  /\ broker.at = "listening"
  /\ conn[c].at \in {"waiting", "challenged"} /\ conn[c].peer = "none"
  /\ conn' = [conn EXCEPT ![c].peer = "accepted"]
  /\ UNCHANGED <<private, public, broker, occupant>>

\* The broker destroys the socket.
Drop(c) == conn' = [conn EXCEPT ![c].at = "failed", ![c].peer = "none"]

Holds(c, peer) ==
  broker.at = "listening" /\ conn[c].at \in {"waiting", "challenged"} /\ conn[c].peer = peer

\* /proc/<pid>/exe is of whoever has the pid now.
ReadPath(c) ==
  /\ Holds(c, "accepted")
  /\ LET process == occupant[conn[c].pid] IN
       IF process = Nobody THEN Drop(c)
       ELSE conn' = [conn EXCEPT ![c].seen = process, ![c].peer = "named"]
  /\ UNCHANGED <<private, public, broker, occupant>>

\* createVaultSocketPeerVerifier: the installed executable, whoever runs it.
ExpectedProgram(program) == program # Stranger

\* Mistake: the process that connected is not asked for again.
PathIsEnough(c) ==
  /\ Holds(c, "named")
  /\ IF ExpectedProgram(conn[c].seen) THEN conn' = [conn EXCEPT ![c].peer = "trusted"] ELSE Drop(c)
  /\ UNCHANGED <<private, public, broker, occupant>>

\* The process that connected must still run, and the executable be the expected one.
CheckPeer(c) ==
  /\ Holds(c, "named")
  /\ IF Alive(c) /\ ExpectedProgram(conn[c].seen)
       THEN conn' = [conn EXCEPT ![c].peer = "trusted"]
       ELSE Drop(c)
  /\ UNCHANGED <<private, public, broker, occupant>>

Sign(c) ==
  /\ Holds(c, "trusted") /\ conn[c].at = "challenged"
  /\ conn' = [conn EXCEPT ![c].peer = "signed", ![c].answer = broker.key]
  /\ UNCHANGED <<private, public, broker, occupant>>

\* The end of the connection comes before a challenge.
NoChallenge(c) ==
  /\ Holds(c, "trusted") /\ conn[c].at = "waiting" /\ ~Alive(c)
  /\ Drop(c)
  /\ UNCHANGED <<private, public, broker, occupant>>

-----------------------------------------------------------------------------
\* Another program is started, with a pid that is free, or ends.
OtherProgram(p) ==
  /\ occupant[p] \in {Nobody, Stranger}
  /\ occupant' = [occupant EXCEPT ![p] = IF @ = Nobody THEN Stranger ELSE Nobody]
  /\ UNCHANGED <<private, public, broker, conn>>

Next ==
  \/ Start \/ ReadPrivate \/ Generate \/ CheckPublic \/ Publish \/ Crash
  \/ \E c \in Clients :
       \/ \E p \in Pids : Connect(c, p)
       \/ ReadPublic(c) \/ CheckAnswer(c) \/ Exit(c)
       \/ Accept(c) \/ ReadPath(c) \/ CheckPeer(c) \/ Sign(c) \/ NoChallenge(c)
  \/ \E p \in Pids : OtherProgram(p)

Spec == Init /\ [][Next]_vars

-----------------------------------------------------------------------------
\* The broker has one identity for ever, wherever it is cut off while it makes its
\* keys: it never finds files it must refuse, and no command that read the public
\* key, in whatever state of the broker, sees an answer it cannot verify.
\* And a process is judged by its own executable: a pid that was given to another
\* process while the broker looked never vouches for the one that connected.
IdentityKept ==
  /\ broker.at # "refused"
  /\ \A c \in Clients :
       /\ conn[c].at # "refused"
       /\ conn[c].peer \in {"trusted", "signed"} => conn[c].seen = c
=============================================================================
