-------------------------- MODULE VaultSocketProofs --------------------------
(***************************************************************************)
(* Theorems about VaultSocket, for any number of connections and users and *)
(* any limits: what the server counts, queues and keeps of its connections *)
(* is exact (ConnectionsExact).                                            *)
(*                                                                         *)
(* The counts follow the slots of the connections one by one.  The queue   *)
(* needs more than one request at a time: the requests of a user form a    *)
(* line from the one that runs to the one in "tail", and because a line is *)
(* entered only at its end it never closes to a circle (Line).             *)
(*                                                                         *)
(* And about VaultFrames, for messages of any length, any number of byte   *)
(* fields and any limit: what is encoded is decoded, and a client has the  *)
(* whole message of its peer or an error (FramesTrue).                     *)
(***************************************************************************)
EXTENDS MCVaultSocket, FiniteSetTheorems, SequenceTheorems, WellFoundedInduction, TLAPS

InQueue == {"queued", "running"}

\* The stages of a connection that is not, or not yet, with the server.
Outside == {"none", "broker", "sent"}

\* The requests in the queue of a user.
Waiting(u) == {c \in Conns : conn[c].stage \in InQueue /\ user[c] = u}

Holders(u) == {c \in Conns : conn[c].slot /\ user[c] = u}

-----------------------------------------------------------------------------
(* The inductive invariant.                                                 *)

\* What is true of a connection `r` by itself, in a process that is `serving`.
Sound(r, s) ==
  /\ r.stage \in Outside \cup {"verify"} => ~r.slot
  /\ r.stage \in Outside => r.client \notin {"idle", "asking"}
  /\ r.client = "asking" /\ r.open
       => r.wire # "nothing" \/ r.stage \in {"queued", "running", "writing", "ending"}
  /\ r.after # Nobody => r.stage = "queued"
  /\ s \in {"starting", "down"} => r.stage \in Outside

\* The requests of a user stand one behind the other: nobody behind two or behind
\* the last one, and there is no circle.
Line ==
  /\ \A c \in Conns : conn[c].after # Nobody =>
       conn[conn[c].after].stage \in InQueue /\ user[conn[c].after] = user[c]
  /\ \A c, d \in Conns :
       conn[c].stage \in InQueue /\ conn[d].stage \in InQueue /\ user[c] = user[d]
         /\ conn[c].after = conn[d].after => c = d
  /\ \A S \in SUBSET {c \in Conns : conn[c].stage \in InQueue} :
       S # {} => \E c \in S : conn[c].after \notin S

Tails ==
  \A u \in Everyone :
    /\ tail[u] = Nobody => Waiting(u) = {}
    /\ tail[u] # Nobody => tail[u] \in Waiting(u)
    /\ tail[u] # Nobody => \A c \in Conns : conn[c].after # tail[u]

Counts == \A u \in Everyone : users[u] = Cardinality(Holders(u)) /\ users[u] <= limit.user

\* The service is ready before its broker, or has ended.
BrokerFirst == broker = "starting" => serving \in {"starting", "down"}

IInv ==
  /\ TypeOK
  /\ store = (serving # "down")
  /\ \A c \in Conns : Sound(conn[c], serving)
  /\ Line /\ Tails /\ Counts
  /\ Cardinality(Handled) <= limit.all

-----------------------------------------------------------------------------
(* Lemmas.                                                                  *)

LEMMA Setting ==
  ASSUME setting' = setting
  PROVE  user' = user /\ limit' = limit /\ host' = host /\ Everyone' = Everyone
BY DEF user, limit, host, Everyone

\* The fields of a connection, as the provers use them.
LEMMA Fields ==
  ASSUME TypeOK, NEW c \in Conns
  PROVE  /\ conn[c] \in Conn /\ user[c] \in Everyone
         /\ conn[c].stage \in Stages
         /\ conn[c].open \in BOOLEAN /\ conn[c].slot \in BOOLEAN
         /\ conn[c].client \in {"off", "shaking", "idle", "asking", "stuck", "left"}
         /\ conn[c].wire \in {"nothing", "challenge", "op", "shutdown"}
         /\ conn[c].asked \in {"op", "shutdown"}
         /\ conn[c].after \in Conns \cup {Nobody}
         /\ users[user[c]] \in Nat /\ limit.user \in Nat /\ limit.all \in Nat
         /\ tail[user[c]] \in Conns \cup {Nobody}
<1>1. conn[c] \in Conn
  BY DEF TypeOK
<1>2. user[c] \in Everyone
  BY DEF Everyone
<1>3. users[user[c]] \in Nat /\ tail[user[c]] \in Conns \cup {Nobody}
  BY <1>2 DEF TypeOK
<1>4. limit.user \in Nat /\ limit.all \in Nat
  BY SettingsAssumption DEF TypeOK, limit
<1> QED
  BY <1>1, <1>2, <1>3, <1>4 DEF Conn

LEMMA Finite ==
  ASSUME NEW S, S \subseteq Conns
  PROVE  IsFiniteSet(S) /\ Cardinality(S) \in Nat
BY ConnsAssumption, FS_Subset, FS_CardinalityType

LEMMA NoConnIs ==
  /\ NoConn \in Conn /\ NoConn.stage = "none" /\ ~NoConn.open /\ ~NoConn.slot
  /\ NoConn.client = "off" /\ NoConn.wire = "nothing" /\ NoConn.after = Nobody
BY DEF NoConn, Conn, Stages

LEMMA NoConnSound == ASSUME NEW s PROVE Sound(NoConn, s)
BY NoConnIs DEF Sound, Outside

-----------------------------------------------------------------------------
(* The queue.                                                               *)

\* A step that takes no request in or out of a queue.
LEMMA LineStays ==
  ASSUME Line, Tails, TypeOK, setting' = setting, tail' = tail,
         \A c \in Conns : conn'[c].stage \in InQueue <=> conn[c].stage \in InQueue,
         \A c \in Conns : conn'[c].after = conn[c].after
  PROVE  Line' /\ Tails'
<1>1. user' = user /\ Everyone' = Everyone
  BY Setting
<1>2. \A u : Waiting(u)' = Waiting(u)
  BY <1>1 DEF Waiting
<1>3. Tails'
  BY <1>1, <1>2 DEF Tails
<1>4. \A c \in Conns : conn[c].after # Nobody => conn[c].after \in Conns
  BY Fields
<1>5. \A c \in Conns : conn'[c].after # Nobody =>
        conn'[conn'[c].after].stage \in InQueue /\ user'[conn'[c].after] = user'[c]
  BY <1>1, <1>4 DEF Line
<1>6. \A c, d \in Conns :
        conn'[c].stage \in InQueue /\ conn'[d].stage \in InQueue /\ user'[c] = user'[d]
          /\ conn'[c].after = conn'[d].after => c = d
  BY <1>1 DEF Line
<1>7. {c \in Conns : conn'[c].stage \in InQueue} = {c \in Conns : conn[c].stage \in InQueue}
  OBVIOUS
<1>8. \A S \in SUBSET {c \in Conns : conn'[c].stage \in InQueue} :
        S # {} => \E c \in S : conn'[c].after \notin S
  BY <1>7 DEF Line
<1> QED
  BY <1>3, <1>5, <1>6, <1>8 DEF Line

\* A request enters behind the last one of its user.
LEMMA LineEntered ==
  ASSUME Line, Tails, TypeOK, setting' = setting,
         NEW c \in Conns, conn[c].stage \notin InQueue, conn[c].after = Nobody,
         conn'[c].stage \in InQueue, conn'[c].after = tail[user[c]],
         \A d \in Conns \ {c} : conn'[d] = conn[d],
         tail' = [tail EXCEPT ![user[c]] = c]
  PROVE  Line' /\ Tails'
<1> DEFINE t == tail[user[c]]
<1>1. user' = user /\ Everyone' = Everyone
  BY Setting
<1>2. \A d \in Conns : conn[d].after \in Conns \cup {Nobody} /\ user[d] \in Everyone
  BY Fields
<1>3. c # Nobody /\ user[c] \in Everyone
  BY <1>2, ConnsAssumption
<1>4. t \in Conns \cup {Nobody}
  BY Fields
<1>5. t # Nobody => /\ t \in Conns /\ t # c /\ conn[t].stage \in InQueue /\ user[t] = user[c]
                    /\ \A d \in Conns : conn[d].after # t
  BY <1>3 DEF Tails, Waiting
<1>6. t = Nobody => \A d \in Conns : user[d] = user[c] => conn[d].stage \notin InQueue
  BY <1>3 DEF Tails, Waiting
<1>7. \A d \in Conns : conn[d].after # c
  BY <1>3 DEF Line
<1>8. tail' \in [Everyone -> Conns \cup {Nobody}] /\ tail'[user[c]] = c
      /\ \A u \in Everyone : u # user[c] => tail'[u] = tail[u]
  BY <1>3 DEF TypeOK
<1> HIDE DEF t
<1>9. conn'[c].after = t
  BY DEF t
<1>10. ASSUME NEW d \in Conns, conn'[d].after # Nobody
       PROVE  conn'[conn'[d].after].stage \in InQueue /\ user'[conn'[d].after] = user'[d]
  <2>1. CASE d = c
    <3>1. t # Nobody /\ conn'[t] = conn[t]
      BY <2>1, <1>9, <1>10, <1>5
    <3> QED
      BY <2>1, <3>1, <1>9, <1>5, <1>1
  <2>2. CASE d # c
    <3>1. conn'[d].after = conn[d].after /\ conn[d].after \in Conns \ {c}
      BY <2>2, <1>2, <1>7, <1>10
    <3> QED
      BY <3>1, <1>1, <1>10 DEF Line
  <2> QED
    BY <2>1, <2>2
<1>11. ASSUME NEW d \in Conns, NEW e \in Conns, conn'[d].stage \in InQueue, conn'[e].stage \in InQueue,
              user[d] = user[e], conn'[d].after = conn'[e].after
       PROVE  d = e
  <2>1. CASE d # c /\ e # c
    BY <2>1, <1>11 DEF Line
  <2>2. ASSUME NEW x \in Conns, x # c, user[x] = user[c], conn'[x].stage \in InQueue, conn'[x].after = t
        PROVE  FALSE
    BY <2>2, <1>5, <1>6
  <2> QED
    BY <2>1, <2>2, <1>9, <1>11
<1>12. ASSUME NEW S \in SUBSET {d \in Conns : conn'[d].stage \in InQueue}, S # {}
       PROVE  \E d \in S : conn'[d].after \notin S
  <2>1. CASE S = {c}
    BY <2>1, <1>9, <1>5, <1>3
  <2>2. CASE S # {c}
    <3>1. S \ {c} # {} /\ S \ {c} \in SUBSET {d \in Conns : conn[d].stage \in InQueue}
      BY <2>2, <1>12
    <3>2. PICK d \in S \ {c} : conn[d].after \notin S \ {c}
      BY <3>1 DEF Line
    <3>3. conn'[d].after \notin S
      BY <3>2, <1>7, <1>12
    <3> QED
      BY <3>2, <3>3
  <2> QED
    BY <2>1, <2>2
<1>13. Line'
  BY <1>1, <1>10, <1>11, <1>12 DEF Line
<1>14. ASSUME NEW u \in Everyone
       PROVE  /\ tail'[u] = Nobody => Waiting(u)' = {}
              /\ tail'[u] # Nobody => tail'[u] \in Waiting(u)'
              /\ tail'[u] # Nobody => \A d \in Conns : conn'[d].after # tail'[u]
  <2>1. CASE u = user[c]
    <3>1. \A d \in Conns : conn'[d].after # c
      BY <1>7, <1>9, <1>5, <1>3
    <3>2. c \in Waiting(u)'
      BY <2>1, <1>1 DEF Waiting
    <3> QED
      BY <2>1, <3>1, <3>2, <1>8, <1>3
  <2>2. CASE u # user[c]
    <3>1. Waiting(u)' = Waiting(u)
      BY <2>2, <1>1 DEF Waiting
    <3>2. tail[u] # Nobody => tail[u] # t
      BY <2>2, <1>5 DEF Tails, Waiting
    <3>3. tail[u] # Nobody => \A d \in Conns : conn'[d].after # tail[u]
      BY <3>2, <1>9 DEF Tails
    <3> QED
      BY <2>2, <3>1, <3>3, <1>8 DEF Tails
  <2> QED
    BY <2>1, <2>2
<1>15. Tails'
  BY <1>1, <1>14 DEF Tails
<1> QED
  BY <1>13, <1>15

\* The first request of a user leaves, and the one behind it is the first.
LEMMA LineLeft ==
  ASSUME Line, Tails, TypeOK, setting' = setting,
         NEW c \in Conns, conn[c].stage \in InQueue, conn[c].after = Nobody,
         conn'[c].stage \notin InQueue, conn'[c].after = Nobody,
         \A d \in Conns \ {c} : conn'[d].stage = conn[d].stage,
         \A d \in Conns \ {c} : conn'[d].after = IF conn[d].after = c THEN Nobody ELSE conn[d].after,
         tail' = [tail EXCEPT ![user[c]] = IF @ = c THEN Nobody ELSE @]
  PROVE  Line' /\ Tails'
<1>1. user' = user /\ Everyone' = Everyone
  BY Setting
<1>2. \A d \in Conns : conn[d].after \in Conns \cup {Nobody} /\ user[d] \in Everyone
  BY Fields
<1>3. c # Nobody /\ user[c] \in Everyone
  BY <1>2, ConnsAssumption
<1>4. \A d \in Conns : conn'[d].after # Nobody => conn'[d].after = conn[d].after /\ conn[d].after # c /\ d # c
  OBVIOUS
<1>5. /\ \A u \in Everyone : u # user[c] => tail'[u] = tail[u]
      /\ tail'[user[c]] = IF tail[user[c]] = c THEN Nobody ELSE tail[user[c]]
  BY <1>3 DEF TypeOK
<1>6. ASSUME NEW d \in Conns, conn'[d].after # Nobody
      PROVE  conn'[conn'[d].after].stage \in InQueue /\ user'[conn'[d].after] = user'[d]
  <2>1. conn'[d].after = conn[d].after /\ conn[d].after \in Conns \ {c}
    BY <1>4, <1>6, <1>2
  <2>2. conn[conn[d].after].stage \in InQueue /\ user[conn[d].after] = user[d]
    BY <2>1, <1>6 DEF Line
  <2> QED
    BY <2>1, <2>2, <1>1
<1>7. ASSUME NEW d \in Conns, NEW e \in Conns, conn'[d].stage \in InQueue, conn'[e].stage \in InQueue,
             user[d] = user[e], conn'[d].after = conn'[e].after
      PROVE  d = e
  <2>1. d # c /\ e # c /\ conn[d].stage \in InQueue /\ conn[e].stage \in InQueue
    BY <1>7
  <2>2. CASE conn[d].after = conn[e].after
    BY <2>1, <2>2, <1>7 DEF Line
  <2>3. ASSUME NEW x \in Conns, x # c, conn[x].stage \in InQueue, user[x] = user[c]
        PROVE  conn[x].after # Nobody
    BY <2>3 DEF Line
  <2>4. \A x \in Conns : conn[x].after = c => user[x] = user[c]
    BY <1>3 DEF Line
  <2>5. CASE conn[d].after # conn[e].after
    <3>1. \/ conn[d].after = c /\ conn[e].after = Nobody
          \/ conn[e].after = c /\ conn[d].after = Nobody
      BY <2>1, <2>5, <1>7
    <3> QED
      BY <3>1, <2>1, <2>3, <2>4, <1>7
  <2> QED
    BY <2>2, <2>5
<1>8. ASSUME NEW S \in SUBSET {d \in Conns : conn'[d].stage \in InQueue}, S # {}
      PROVE  \E d \in S : conn'[d].after \notin S
  <2>1. c \notin S /\ S \in SUBSET {d \in Conns : conn[d].stage \in InQueue}
    BY <1>8
  <2>2. PICK d \in S : conn[d].after \notin S
    BY <2>1, <1>8 DEF Line
  <2>3. Nobody \notin S /\ d \in Conns \ {c}
    BY <2>1, <2>2, ConnsAssumption
  <2> QED
    BY <2>2, <2>3
<1>9. Line'
  BY <1>1, <1>6, <1>7, <1>8 DEF Line
<1>10. ASSUME NEW u \in Everyone
       PROVE  /\ tail'[u] = Nobody => Waiting(u)' = {}
              /\ tail'[u] # Nobody => tail'[u] \in Waiting(u)'
              /\ tail'[u] # Nobody => \A d \in Conns : conn'[d].after # tail'[u]
  <2>1. CASE tail[u] = c
    <3>1. u = user[c] /\ tail'[u] = Nobody
      BY <2>1, <1>3, <1>5 DEF Tails, Waiting
    <3> DEFINE W == Waiting(u) \ {c}
    <3>2. W \in SUBSET {d \in Conns : conn[d].stage \in InQueue}
      BY DEF Waiting
    <3>3. ASSUME NEW d \in W
          PROVE  conn[d].after \in W
      <4>1. d \in Conns /\ conn[d].stage \in InQueue /\ user[d] = user[c] /\ d # c
        BY <3>1 DEF Waiting
      <4>2. conn[d].after # Nobody
        BY <4>1 DEF Line
      <4>3. conn[d].after # c
        BY <2>1, <4>1, <1>3 DEF Tails
      <4>4. conn[d].after \in Conns /\ conn[conn[d].after].stage \in InQueue
            /\ user[conn[d].after] = user[d]
        BY <4>1, <4>2, <1>2 DEF Line
      <4> QED
        BY <4>1, <4>3, <4>4, <3>1 DEF Waiting
    <3>4. W = {}
      BY <3>2, <3>3 DEF Line
    <3>5. Waiting(u)' = {}
      BY <3>4, <1>1 DEF Waiting
    <3> QED
      BY <3>1, <3>5
  <2>2. CASE tail[u] # c
    <3>1. tail'[u] = tail[u]
      BY <2>2, <1>5
    <3>2. tail[u] = Nobody => Waiting(u)' = {}
      BY <1>1 DEF Tails, Waiting
    <3>3. tail[u] # Nobody => tail[u] \in Waiting(u)'
      BY <2>2, <1>1 DEF Tails, Waiting
    <3>4. tail[u] # Nobody => \A d \in Conns : conn'[d].after # tail[u]
      BY <1>4 DEF Tails
    <3> QED
      BY <3>1, <3>2, <3>3, <3>4
  <2> QED
    BY <2>1, <2>2
<1>11. Tails'
  BY <1>1, <1>10 DEF Tails
<1> QED
  BY <1>9, <1>11

-----------------------------------------------------------------------------
(* The counts.                                                              *)

LEMMA CountsStay ==
  ASSUME Counts, setting' = setting, users' = users, \A c \in Conns : conn'[c].slot = conn[c].slot
  PROVE  Counts'
<1>1. user' = user /\ Everyone' = Everyone /\ limit' = limit
  BY Setting
<1>2. \A u : Holders(u)' = Holders(u)
  BY <1>1 DEF Holders
<1> QED
  BY <1>1, <1>2 DEF Counts

LEMMA SlotTaken ==
  ASSUME Counts, TypeOK, setting' = setting,
         NEW c \in Conns, ~conn[c].slot, conn'[c].slot, users[user[c]] < limit.user,
         \A d \in Conns \ {c} : conn'[d].slot = conn[d].slot,
         users' = [users EXCEPT ![user[c]] = @ + 1]
  PROVE  Counts' /\ users' \in [Everyone -> Nat]
<1>1. user' = user /\ Everyone' = Everyone /\ limit' = limit
  BY Setting
<1>2. user[c] \in Everyone /\ users[user[c]] \in Nat /\ limit.user \in Nat
  BY Fields
<1>3. users' \in [Everyone -> Nat] /\ users'[user[c]] = users[user[c]] + 1
      /\ \A u \in Everyone : u # user[c] => users'[u] = users[u]
  BY <1>2 DEF TypeOK
<1>4. \A u : u = user[c] => Holders(u)' = Holders(u) \cup {c} /\ c \notin Holders(u)
  BY <1>1 DEF Holders
<1>5. ASSUME NEW u \in Everyone, u = user[c]
      PROVE  Cardinality(Holders(u)') = Cardinality(Holders(u)) + 1
  <2>1. Holders(u) \subseteq Conns
    BY DEF Holders
  <2> QED
    BY <2>1, <1>4, <1>5, Finite, FS_AddElement
<1>6. \A u : u # user[c] => Holders(u)' = Holders(u)
  BY <1>1 DEF Holders
<1>7. ASSUME NEW u \in Everyone
      PROVE  users'[u] = Cardinality(Holders(u)') /\ users'[u] <= limit.user
  <2>1. CASE u = user[c]
    BY <2>1, <1>2, <1>3, <1>5 DEF Counts
  <2>2. CASE u # user[c]
    BY <2>2, <1>3, <1>6 DEF Counts
  <2> QED
    BY <2>1, <2>2
<1> QED
  BY <1>1, <1>3, <1>7 DEF Counts

LEMMA SlotFreed ==
  ASSUME Counts, TypeOK, setting' = setting,
         NEW c \in Conns, conn[c].slot, ~conn'[c].slot,
         \A d \in Conns \ {c} : conn'[d].slot = conn[d].slot,
         users' = [users EXCEPT ![user[c]] = @ - 1]
  PROVE  Counts' /\ users' \in [Everyone -> Nat]
<1>1. user' = user /\ Everyone' = Everyone /\ limit' = limit
  BY Setting
<1>2. user[c] \in Everyone /\ users[user[c]] \in Nat /\ limit.user \in Nat
  BY Fields
<1>3. users'[user[c]] = users[user[c]] - 1
      /\ \A u \in Everyone : u # user[c] => users'[u] = users[u]
  BY <1>2 DEF TypeOK
<1>4. \A u : u = user[c] => Holders(u)' = Holders(u) \ {c} /\ c \in Holders(u)
  BY <1>1 DEF Holders
<1>5. ASSUME NEW u \in Everyone, u = user[c]
      PROVE  /\ Cardinality(Holders(u)') = Cardinality(Holders(u)) - 1
             /\ Cardinality(Holders(u)') \in Nat
  <2>1. Holders(u) \subseteq Conns /\ Holders(u)' \subseteq Conns
    BY <1>4, <1>5 DEF Holders
  <2> QED
    BY <2>1, <1>4, <1>5, Finite, FS_RemoveElement
<1>6. \A u : u # user[c] => Holders(u)' = Holders(u)
  BY <1>1 DEF Holders
<1>7. users[user[c]] - 1 \in Nat
  BY <1>2, <1>5 DEF Counts
<1>8. users' \in [Everyone -> Nat]
  BY <1>2, <1>7 DEF TypeOK
<1>9. ASSUME NEW u \in Everyone
      PROVE  users'[u] = Cardinality(Holders(u)') /\ users'[u] <= limit.user
  <2>1. CASE u = user[c]
    BY <2>1, <1>2, <1>3, <1>5 DEF Counts
  <2>2. CASE u # user[c]
    BY <2>2, <1>3, <1>6 DEF Counts
  <2> QED
    BY <2>1, <2>2
<1> QED
  BY <1>1, <1>8, <1>9 DEF Counts

LEMMA HandledStays ==
  ASSUME Cardinality(Handled) <= limit.all, TypeOK, setting' = setting,
         \A c \in Conns : conn[c].stage \in Outside => conn'[c].stage \in Outside
  PROVE  Cardinality(Handled)' <= limit.all'
<1>1. limit' = limit /\ limit.all \in Nat
  BY Setting, SettingsAssumption DEF TypeOK, limit
<1>2. Handled' \subseteq Handled /\ Handled \subseteq Conns
  BY DEF Handled, Outside
<1>3. Cardinality(Handled') <= Cardinality(Handled) /\ Cardinality(Handled) \in Nat
      /\ Cardinality(Handled') \in Nat
  BY <1>2, Finite, FS_Subset
<1> QED
  BY <1>1, <1>3

LEMMA HandledGrows ==
  ASSUME Cardinality(Handled) < limit.all, TypeOK, setting' = setting, NEW c \in Conns,
         \A d \in Conns \ {c} : conn[d].stage \in Outside => conn'[d].stage \in Outside
  PROVE  Cardinality(Handled)' <= limit.all'
<1>1. limit' = limit /\ limit.all \in Nat
  BY Setting, SettingsAssumption DEF TypeOK, limit
<1>2. Handled' \subseteq Handled \cup {c} /\ Handled \subseteq Conns /\ Handled \cup {c} \subseteq Conns
  BY DEF Handled, Outside
<1>3. IsFiniteSet(Handled) /\ Cardinality(Handled) \in Nat
      /\ IsFiniteSet(Handled \cup {c}) /\ Cardinality(Handled \cup {c}) \in Nat
  BY <1>2, Finite
<1>4. Cardinality(Handled') <= Cardinality(Handled \cup {c}) /\ Cardinality(Handled') \in Nat
  BY <1>2, <1>3, Finite, FS_Subset
<1>5. Cardinality(Handled \cup {c}) <= Cardinality(Handled) + 1
  BY <1>3, FS_AddElement
<1> QED
  BY <1>1, <1>3, <1>4, <1>5

-----------------------------------------------------------------------------
(* Steps.                                                                   *)

\* A step that admits no connection and takes none out of a queue, whatever else
\* it does with them.
LEMMA Moves ==
  ASSUME IInv, setting' = setting, users' = users, tail' = tail,
         conn' \in [Conns -> Conn],
         \A c \in Conns : Sound(conn'[c], serving'),
         \A c \in Conns : conn'[c].slot = conn[c].slot,
         \A c \in Conns : conn'[c].stage \in InQueue <=> conn[c].stage \in InQueue,
         \A c \in Conns : conn'[c].after = conn[c].after,
         \A c \in Conns : conn[c].stage \in Outside => conn'[c].stage \in Outside,
         serving' \in {"starting", "up", "closing", "down"},
         store' = (serving' # "down"),
         broker' \in {"none", "starting", "up", "closing", "down"},
         faults' \in 0..MaxFaults
  PROVE  IInv'
<1>1. user' = user /\ Everyone' = Everyone
  BY Setting
<1>2. TypeOK'
  BY <1>1 DEF IInv, TypeOK
<1>3. Line' /\ Tails'
  BY LineStays DEF IInv
<1>4. Counts'
  BY CountsStay DEF IInv
<1>5. Cardinality(Handled)' <= limit.all'
  BY HandledStays DEF IInv
<1> QED
  BY <1>2, <1>3, <1>4, <1>5 DEF IInv

\* Such a step of one connection, in a process that serves on.
LEMMA OneMoves ==
  ASSUME IInv, NEW c \in Conns,
         setting' = setting, users' = users, tail' = tail, serving' = serving, store' = store,
         broker' = broker, faults' \in 0..MaxFaults,
         conn' \in [Conns -> Conn],
         \A d \in Conns \ {c} : conn'[d] = conn[d],
         Sound(conn'[c], serving),
         conn'[c].slot = conn[c].slot,
         conn'[c].stage \in InQueue <=> conn[c].stage \in InQueue,
         conn'[c].after = conn[c].after,
         conn[c].stage \in Outside => conn'[c].stage \in Outside
  PROVE  IInv'
<1>1. \A d \in Conns : Sound(conn[d], serving)
  BY DEF IInv
<1>2. \A d \in Conns : Sound(conn'[d], serving')
  BY <1>1
<1>3. /\ serving' \in {"starting", "up", "closing", "down"}
      /\ store' = (serving' # "down")
      /\ broker' \in {"none", "starting", "up", "closing", "down"}
  BY DEF IInv, TypeOK
<1> QED
  BY <1>2, <1>3, Moves

\* A step that leaves the connections alone.
LEMMA Rests ==
  ASSUME IInv, setting' = setting, users' = users, tail' = tail, conn' = conn,
         \A c \in Conns : Sound(conn[c], serving'),
         serving' \in {"starting", "up", "closing", "down"},
         store' = (serving' # "down"),
         broker' \in {"none", "starting", "up", "closing", "down"},
         faults' \in 0..MaxFaults
  PROVE  IInv'
<1>1. conn' \in [Conns -> Conn]
  BY DEF IInv, TypeOK
<1> QED
  BY <1>1, Moves

\* A step after which connection `c` is forgotten; it held nothing.
LEMMA Forgets ==
  ASSUME IInv, NEW c \in Conns, conn[c].stage \in Outside,
         conn' = [conn EXCEPT ![c] = NoConn],
         UNCHANGED <<setting, users, tail, serving, store, broker, faults>>
  PROVE  IInv'
<1>1. conn' \in [Conns -> Conn] /\ conn'[c] = NoConn /\ \A d \in Conns \ {c} : conn'[d] = conn[d]
  BY NoConnIs DEF IInv, TypeOK
<1>2. ~conn[c].slot /\ conn[c].after = Nobody /\ conn[c].stage \notin InQueue
  BY DEF IInv, Sound, Outside, InQueue
<1>3. ~conn'[c].slot /\ conn'[c].after = Nobody /\ conn'[c].stage = "none" /\ conn'[c].slot \in BOOLEAN
      /\ conn[c].slot \in BOOLEAN
  BY <1>1, NoConnIs, Fields DEF IInv, Conn
<1>4. conn'[c].slot = conn[c].slot /\ conn'[c].after = conn[c].after
      /\ (conn'[c].stage \in InQueue <=> conn[c].stage \in InQueue) /\ conn'[c].stage \in Outside
  BY <1>2, <1>3 DEF InQueue, Outside
<1>5. Sound(conn'[c], serving)
  BY <1>1, NoConnSound
<1>6. faults' \in 0..MaxFaults
  BY DEF IInv, TypeOK
<1> HIDE DEF NoConn
<1> QED
  BY <1>1, <1>4, <1>5, <1>6, OneMoves

LEMMA ConnectStep == ASSUME IInv, NEW c \in Conns, Connect(c) PROVE IInv'
<1>1. TypeOK /\ Sound(conn[c], serving) /\ faults' \in 0..MaxFaults
  BY DEF IInv, TypeOK, Connect
<1>2. conn[c].stage = "none" /\ ~conn[c].slot /\ conn[c].after = Nobody
  BY <1>1 DEF Connect, Sound, Outside
<1>3. CASE conn' = conn
  BY <1>1, <1>3, Rests DEF Connect, IInv, TypeOK
<1>4. CASE /\ conn' = [conn EXCEPT ![c] = [NoConn EXCEPT !.stage = "verify", !.open = TRUE, !.client = "idle"]]
           /\ serving = "up" /\ ~(Cardinality(Handled) >= limit.all)
  <2> DEFINE r == [NoConn EXCEPT !.stage = "verify", !.open = TRUE, !.client = "idle"]
  <2>1. r \in Conn /\ r.stage = "verify" /\ ~r.slot /\ r.client = "idle" /\ r.after = Nobody
    BY DEF NoConn, Conn, Stages
  <2>2. conn' \in [Conns -> Conn] /\ conn'[c] = r /\ \A d \in Conns \ {c} : conn'[d] = conn[d]
    BY <2>1, <1>1, <1>4 DEF TypeOK
  <2> HIDE DEF r
  <2>3. setting' = setting /\ users' = users /\ tail' = tail /\ serving' = serving /\ store' = store
        /\ broker' = broker
    BY DEF Connect
  <2>4. \A d \in Conns : Sound(conn'[d], serving')
    BY <2>1, <2>2, <2>3, <1>4 DEF IInv, Sound, Outside
  <2>5. /\ conn'[c].slot = conn[c].slot /\ conn'[c].after = conn[c].after
        /\ conn'[c].stage \in InQueue <=> conn[c].stage \in InQueue
    BY <2>1, <2>2, <1>1, <1>2, Fields DEF InQueue, Conn
  <2>6. Line' /\ Tails'
    BY <2>2, <2>3, <2>5, LineStays DEF IInv
  <2>7. Counts'
    BY <2>2, <2>3, <2>5, CountsStay DEF IInv
  <2>8. Cardinality(Handled) < limit.all
    <3>1. limit.all \in Nat /\ Cardinality(Handled) \in Nat
      BY <1>1, Fields, Finite DEF Handled
    <3> QED
      BY <3>1, <1>4
  <2>9. Cardinality(Handled)' <= limit.all'
    BY <2>2, <2>3, <2>8, <1>1, HandledGrows
  <2>10. TypeOK'
    BY <2>2, <2>3, <1>1, Setting DEF TypeOK
  <2> QED
    BY <2>3, <2>4, <2>6, <2>7, <2>9, <2>10 DEF IInv
<1>5. CASE conn' = [conn EXCEPT ![c] = [NoConn EXCEPT !.stage = "broker", !.open = TRUE,
                                                     !.client = "shaking", !.wire = "challenge"]]
  <2> DEFINE r == [NoConn EXCEPT !.stage = "broker", !.open = TRUE, !.client = "shaking", !.wire = "challenge"]
  <2>1. r \in Conn /\ r.stage = "broker" /\ ~r.slot /\ r.client = "shaking" /\ r.after = Nobody
    BY DEF NoConn, Conn, Stages
  <2>2. conn' \in [Conns -> Conn] /\ conn'[c] = r /\ \A d \in Conns \ {c} : conn'[d] = conn[d]
    BY <2>1, <1>1, <1>5 DEF TypeOK
  <2> HIDE DEF r
  <2>3. Sound(conn'[c], serving)
    BY <2>1, <2>2 DEF Sound, Outside
  <2>4. /\ conn'[c].slot = conn[c].slot /\ conn'[c].after = conn[c].after
        /\ conn'[c].stage \in InQueue <=> conn[c].stage \in InQueue
        /\ conn'[c].stage \in Outside
    BY <2>1, <2>2, <1>1, <1>2, Fields DEF InQueue, Outside, Conn
  <2> QED
    BY <2>2, <2>3, <2>4, <1>1, OneMoves DEF Connect
<1> QED
  BY <1>3, <1>4, <1>5 DEF Connect

LEMMA AskStep == ASSUME IInv, NEW c \in Conns, Ask(c) PROVE IInv'
<1>1. TypeOK /\ Sound(conn[c], serving) /\ faults' \in 0..MaxFaults
  BY DEF IInv, TypeOK, Ask
<1>2. PICK what \in {"op", "shutdown"} : conn' = [conn EXCEPT ![c].client = "asking", ![c].wire = what]
  BY DEF Ask
<1>3. conn' \in [Conns -> Conn] /\ \A d \in Conns \ {c} : conn'[d] = conn[d]
  <2>1. conn \in [Conns -> Conn]
    BY <1>1 DEF TypeOK
  <2>2. conn[c] \in Conn
    BY <2>1
  <2>3. [conn[c] EXCEPT !.client = "asking", !.wire = what] \in Conn
    BY <2>2 DEF Conn
  <2> QED
    BY <2>1, <2>3, <1>2
<1>4. /\ conn'[c].stage = conn[c].stage /\ conn'[c].slot = conn[c].slot
      /\ conn'[c].after = conn[c].after /\ conn'[c].wire = what
  BY <1>1, <1>2 DEF TypeOK, Conn
<1>5. conn[c].stage \notin Outside
  BY DEF Ask, IInv, Sound
<1> QED
  BY <1>1, <1>3, <1>4, <1>5, OneMoves DEF Ask, Sound

LEMMA LeaveStep == ASSUME IInv, NEW c \in Conns, Leave(c) PROVE IInv'
<1>1. TypeOK /\ Sound(conn[c], serving) /\ faults' \in 0..MaxFaults
  BY DEF IInv, TypeOK, Leave
<1>2. conn' = [conn EXCEPT ![c].client = "left"]
  BY DEF Leave
<1>3. conn' \in [Conns -> Conn] /\ \A d \in Conns \ {c} : conn'[d] = conn[d]
  <2>1. conn \in [Conns -> Conn]
    BY <1>1 DEF TypeOK
  <2>2. conn[c] \in Conn
    BY <2>1
  <2>3. [conn[c] EXCEPT !.client = "left"] \in Conn
    BY <2>2 DEF Conn
  <2> QED
    BY <2>1, <2>3, <1>2
<1>4. /\ conn'[c].stage = conn[c].stage /\ conn'[c].slot = conn[c].slot
      /\ conn'[c].after = conn[c].after /\ conn'[c].client = "left"
  BY <1>1, <1>2 DEF TypeOK, Conn
<1> QED
  BY <1>1, <1>3, <1>4, OneMoves DEF Leave, Sound

LEMMA StickStep == ASSUME IInv, NEW c \in Conns, Stick(c) PROVE IInv'
<1>1. TypeOK /\ Sound(conn[c], serving)
  BY DEF IInv
<1>2. conn' = [conn EXCEPT ![c].client = "stuck"]
  BY DEF Stick
<1>3. conn' \in [Conns -> Conn] /\ \A d \in Conns \ {c} : conn'[d] = conn[d]
  <2>1. conn \in [Conns -> Conn]
    BY <1>1 DEF TypeOK
  <2>2. conn[c] \in Conn
    BY <2>1
  <2>3. [conn[c] EXCEPT !.client = "stuck"] \in Conn
    BY <2>2 DEF Conn
  <2> QED
    BY <2>1, <2>3, <1>2
<1>4. /\ conn'[c].stage = conn[c].stage /\ conn'[c].slot = conn[c].slot
      /\ conn'[c].after = conn[c].after /\ conn'[c].client = "stuck"
  BY <1>1, <1>2 DEF TypeOK, Conn
<1>5. faults' \in 0..MaxFaults
  BY <1>1, FaultsAssumption DEF TypeOK, Stick
<1> QED
  BY <1>1, <1>3, <1>4, <1>5, OneMoves DEF Stick, Sound

LEMMA AuthenticateStep == ASSUME IInv, NEW c \in Conns, Authenticate(c) PROVE IInv'
<1>1. TypeOK /\ Sound(conn[c], serving) /\ faults' \in 0..MaxFaults
  BY DEF IInv, TypeOK, Authenticate
<1>2. conn[c].stage = "broker"
  BY DEF Authenticate
<1>3. CASE conn' = [conn EXCEPT ![c].stage = "sent", ![c].wire = "nothing"]
  <2>1. conn' \in [Conns -> Conn] /\ \A d \in Conns \ {c} : conn'[d] = conn[d]
    <3>1. [conn[c] EXCEPT !.stage = "sent", !.wire = "nothing"] \in Conn
      BY <1>1, Fields DEF Conn, Stages
    <3> QED
      BY <3>1, <1>1, <1>3 DEF TypeOK
  <2>2. /\ conn'[c].stage = "sent" /\ conn'[c].slot = conn[c].slot /\ conn'[c].open = conn[c].open
        /\ conn'[c].after = conn[c].after /\ conn'[c].client = conn[c].client
    BY <1>1, <1>3 DEF TypeOK, Conn
  <2>3. Sound(conn'[c], serving)
    BY <2>2, <1>1, <1>2 DEF Sound, Outside
  <2> QED
    BY <2>1, <2>2, <2>3, <1>1, <1>2, OneMoves DEF Authenticate, InQueue, Outside
<1>4. CASE conn' = [conn EXCEPT ![c] = NoConn]
  BY <1>2, <1>4, Forgets DEF Authenticate, Outside
<1> QED
  BY <1>3, <1>4 DEF Authenticate

LEMMA RefuseStep == ASSUME IInv, NEW c \in Conns, Refuse(c) PROVE IInv'
BY Forgets DEF Refuse, Outside

\* A slot of the user is given, or the connection is ended.
LEMMA Admission ==
  ASSUME IInv, NEW c \in Conns, NEW wire \in {"nothing", "challenge", "op", "shutdown"},
         Admit(c, wire),
         conn[c].stage \in {"sent", "verify"},
         conn[c].client = "asking" => wire = conn[c].wire,
         conn[c].stage = "sent" => Cardinality(Handled) < limit.all,
         serving = "up" \/ serving = "closing",
         UNCHANGED <<setting, tail, serving, store, broker, faults>>
  PROVE  IInv'
<1>1. TypeOK /\ Sound(conn[c], serving) /\ Line /\ Tails /\ Counts
  BY DEF IInv
<1>2. conn[c].after = Nobody /\ conn[c].stage \notin InQueue
  BY <1>1 DEF Sound, InQueue
<1>3. /\ conn' \in [Conns -> Conn] /\ \A d \in Conns \ {c} : conn'[d] = conn[d]
      /\ conn'[c].stage \in {"reading", "ending"} /\ conn'[c].after = Nobody
      /\ conn'[c].stage = "reading" => conn'[c].wire = wire
      /\ conn'[c].client = "asking" => conn[c].client = "asking"
      /\ conn'[c].open = conn[c].open
  BY <1>1, <1>2 DEF Admit, To, TypeOK, Conn, Stages
<1>4. Sound(conn'[c], serving)
  BY <1>1, <1>3 DEF Sound, Outside
<1>5. Line' /\ Tails'
  BY <1>1, <1>2, <1>3, LineStays DEF InQueue
<1>6. Counts' /\ users' \in [Everyone -> Nat]
  <2>1. CASE users[user[c]] >= limit.user
    <3>1. users' = users /\ conn'[c].slot = conn[c].slot
      BY <2>1, <1>1 DEF Admit, To, TypeOK, Conn
    <3> QED
      BY <3>1, <1>1, <1>3, CountsStay DEF TypeOK
  <2>2. CASE ~(users[user[c]] >= limit.user)
    <3>1. users' = [users EXCEPT ![user[c]] = @ + 1] /\ conn'[c].slot
      BY <2>2, <1>1 DEF Admit, TypeOK, Conn
    <3>2. users[user[c]] < limit.user
      BY <2>2, <1>1, Fields
    <3>3. ~conn[c].slot
      BY <1>1 DEF Sound, Outside
    <3> QED
      BY <3>1, <3>2, <3>3, <1>1, <1>3, SlotTaken
  <2> QED
    BY <2>1, <2>2
<1>7. Cardinality(Handled)' <= limit.all'
  <2>1. CASE conn[c].stage = "sent"
    BY <2>1, <1>1, <1>3, HandledGrows
  <2>2. CASE conn[c].stage = "verify"
    BY <2>2, <1>1, <1>3, HandledStays DEF IInv, Outside
  <2> QED
    BY <2>1, <2>2
<1>8. TypeOK'
  BY <1>1, <1>3, <1>6, Setting DEF TypeOK
<1>9. \A d \in Conns : Sound(conn'[d], serving')
  BY <1>3, <1>4 DEF IInv
<1> QED
  BY <1>5, <1>6, <1>7, <1>8, <1>9 DEF IInv

LEMMA ReceiveStep == ASSUME IInv, NEW c \in Conns, Receive(c) PROVE IInv'
<1>1. CASE conn' = [conn EXCEPT ![c] = NoConn] /\ UNCHANGED users
  BY <1>1, Forgets DEF Receive, Outside
<1>2. CASE serving = "up" /\ Cardinality(Handled) < limit.all /\ Admit(c, "nothing")
  <2>1. conn[c].client # "asking" /\ conn[c].stage = "sent"
    BY DEF Receive, IInv, Sound, Outside
  <2> QED
    BY <1>2, <2>1, Admission DEF Receive
<1> QED
  BY <1>1, <1>2 DEF Receive

LEMMA VerifiedStep == ASSUME IInv, NEW c \in Conns, Verified(c) PROVE IInv'
<1>1. conn[c].wire \in {"nothing", "challenge", "op", "shutdown"} /\ conn[c].stage = "verify"
  BY Fields DEF IInv, Verified
<1>2. serving = "up" \/ serving = "closing"
  BY <1>1 DEF IInv, TypeOK, Sound, Outside
<1> QED
  BY <1>1, <1>2, Admission DEF Verified

\* A step by which a connection with no request in the queue comes to its end, and
\* maybe its socket too.
LEMMA Ends ==
  ASSUME IInv, NEW c \in Conns, conn[c].stage \in {"verify", "reading", "writing"},
         conn' \in [Conns -> Conn],
         \A d \in Conns \ {c} : conn'[d] = conn[d],
         conn'[c].stage = "ending",
         conn'[c].slot = conn[c].slot,
         conn'[c].after = conn[c].after,
         UNCHANGED <<setting, users, tail, serving, store, broker, faults>>
  PROVE  IInv'
<1>1. TypeOK /\ Sound(conn[c], serving) /\ faults' \in 0..MaxFaults
  BY DEF IInv, TypeOK
<1>2. Sound(conn'[c], serving)
  BY <1>1 DEF Sound, Outside
<1> QED
  BY <1>1, <1>2, OneMoves DEF InQueue, Outside

LEMMA VerifyFailsStep == ASSUME IInv, NEW c \in Conns, VerifyFails(c) PROVE IInv'
<1>1. TypeOK /\ "ending" \in Stages
  BY DEF IInv, Stages
<1>2. CASE To(c, "ending")
  <2>1. /\ conn' \in [Conns -> Conn] /\ \A d \in Conns \ {c} : conn'[d] = conn[d]
        /\ conn'[c].stage = "ending" /\ conn'[c].slot = conn[c].slot /\ conn'[c].after = conn[c].after
    BY <1>1, <1>2 DEF To, TypeOK, Conn
  <2> QED
    BY <2>1, Ends DEF VerifyFails
<1>3. CASE conn' = [conn EXCEPT ![c].stage = "ending", ![c].open = FALSE]
  <2>1. /\ conn' \in [Conns -> Conn] /\ \A d \in Conns \ {c} : conn'[d] = conn[d]
        /\ conn'[c].stage = "ending" /\ conn'[c].slot = conn[c].slot /\ conn'[c].after = conn[c].after
    <3>1. conn \in [Conns -> Conn] /\ conn[c] \in Conn
      BY <1>1 DEF TypeOK
    <3>2. [conn[c] EXCEPT !.stage = "ending", !.open = FALSE] \in Conn
      BY <3>1, <1>1 DEF Conn
    <3>3. conn'[c] = [conn[c] EXCEPT !.stage = "ending", !.open = FALSE]
      BY <3>1, <1>3
    <3>4. /\ conn'[c].stage = "ending" /\ conn'[c].slot = conn[c].slot
          /\ conn'[c].after = conn[c].after
      BY <3>1, <3>3 DEF Conn
    <3> QED
      BY <3>1, <3>2, <3>4, <1>3
  <2> QED
    BY <2>1, Ends DEF VerifyFails
<1> QED
  BY <1>2, <1>3 DEF VerifyFails

LEMMA TimerStep ==
  ASSUME IInv, NEW c \in Conns, TimesOut(c) \/ WriteTimesOut(c)
  PROVE  IInv'
<1>1. TypeOK /\ "ending" \in Stages
  BY DEF IInv, Stages
<1>2. conn' = [conn EXCEPT ![c].stage = "ending", ![c].open = FALSE]
  BY DEF TimesOut, WriteTimesOut
<1>3. /\ conn' \in [Conns -> Conn] /\ \A d \in Conns \ {c} : conn'[d] = conn[d]
      /\ conn'[c].stage = "ending" /\ conn'[c].slot = conn[c].slot /\ conn'[c].after = conn[c].after
  <2>1. conn \in [Conns -> Conn] /\ conn[c] \in Conn
    BY <1>1 DEF TypeOK
  <2>2. [conn[c] EXCEPT !.stage = "ending", !.open = FALSE] \in Conn
    BY <2>1, <1>1 DEF Conn
  <2>3. conn'[c] = [conn[c] EXCEPT !.stage = "ending", !.open = FALSE]
    BY <2>1, <1>2
  <2>4. /\ conn'[c].stage = "ending" /\ conn'[c].slot = conn[c].slot
        /\ conn'[c].after = conn[c].after
    BY <2>1, <2>3 DEF Conn
  <2> QED
    BY <2>1, <2>2, <2>4, <1>2
<1> QED
  BY <1>3, Ends DEF TimesOut, WriteTimesOut

LEMMA FrameStep == ASSUME IInv, NEW c \in Conns, Frame(c) PROVE IInv'
<1>1. TypeOK /\ Sound(conn[c], serving) /\ Line /\ Tails /\ Counts /\ "queued" \in Stages
      /\ tail[user[c]] \in Conns \cup {Nobody} /\ user[c] \in Everyone
  BY Fields DEF IInv, Stages
<1>2. conn[c].after = Nobody /\ conn[c].stage \notin InQueue /\ conn[c].wire \in {"op", "shutdown"}
  BY <1>1 DEF Sound, InQueue, Frame
<1>3. /\ conn' \in [Conns -> Conn] /\ \A d \in Conns \ {c} : conn'[d] = conn[d]
      /\ conn'[c].stage = "queued" /\ conn'[c].after = tail[user[c]] /\ conn'[c].slot = conn[c].slot
  BY <1>1, <1>2 DEF Frame, TypeOK, Conn
<1>4. Line' /\ Tails'
  BY <1>1, <1>2, <1>3, LineEntered DEF Frame, InQueue
<1>5. Counts'
  BY <1>1, <1>3, CountsStay DEF Frame
<1>6. Cardinality(Handled)' <= limit.all'
  BY <1>1, <1>3, HandledStays DEF Frame, Outside, IInv
<1>7. Sound(conn'[c], serving)
  BY <1>1, <1>3 DEF Sound, Frame, Outside
<1>8. \A d \in Conns : Sound(conn'[d], serving')
  BY <1>3, <1>7 DEF IInv, Frame
<1>9. tail' \in [Everyone -> Conns \cup {Nobody}]
  BY <1>1 DEF Frame, TypeOK
<1>10. TypeOK'
  BY <1>1, <1>3, <1>9, Setting DEF TypeOK, Frame
<1> QED
  BY <1>4, <1>5, <1>6, <1>8, <1>10 DEF IInv, Frame

\* What becomes of a connection when its socket is destroyed.
LEMMA DestroyedIs ==
  ASSUME NEW r \in Conn, NEW s, Sound(r, s)
  PROVE  /\ Destroyed(r) \in Conn
         /\ Sound(Destroyed(r), s)
         /\ Destroyed(r).slot = r.slot /\ Destroyed(r).after = r.after
         /\ Destroyed(r).stage \in InQueue <=> r.stage \in InQueue
         /\ Destroyed(r).stage \in Outside <=> r.stage \in Outside
<1> DEFINE d == Destroyed(r)
<1>1. /\ ~d.open /\ d.slot = r.slot /\ d.client = r.client /\ d.wire = r.wire /\ d.after = r.after
      /\ d.stage = IF r.stage \in {"verify", "reading", "writing"} THEN "ending" ELSE r.stage
  BY DEF Destroyed, Conn
<1>2. d \in Conn
  BY DEF Destroyed, Conn, Stages
<1> HIDE DEF d
<1>3. Sound(d, s)
  BY <1>1 DEF Sound, Outside
<1>4. /\ d.stage \in InQueue <=> r.stage \in InQueue
      /\ d.stage \in Outside <=> r.stage \in Outside
  BY <1>1 DEF InQueue, Outside
<1> QED
  BY <1>1, <1>2, <1>3, <1>4 DEF d

LEMMA HearStep == ASSUME IInv, NEW c \in Conns, Hear(c) PROVE IInv'
<1>1. TypeOK /\ Sound(conn[c], serving) /\ conn[c] \in Conn /\ faults' \in 0..MaxFaults
  BY Fields DEF IInv, TypeOK, Hear
<1> DEFINE r == Destroyed(conn[c])
<1>2. /\ r \in Conn /\ Sound(r, serving) /\ r.slot = conn[c].slot /\ r.after = conn[c].after
      /\ r.stage \in InQueue <=> conn[c].stage \in InQueue
      /\ r.stage \in Outside <=> conn[c].stage \in Outside
  BY <1>1, DestroyedIs
<1>3. conn' = [conn EXCEPT ![c] = r]
  BY DEF Hear
<1> HIDE DEF r
<1>4. conn' \in [Conns -> Conn] /\ conn'[c] = r /\ \A d \in Conns \ {c} : conn'[d] = conn[d]
  BY <1>1, <1>2, <1>3 DEF TypeOK
<1> QED
  BY <1>1, <1>2, <1>4, OneMoves DEF Hear

\* The record of a connection whose request leaves the queue, and of one behind it.
LEMMA Leaving ==
  ASSUME IInv, NEW c \in Conns, conn[c].stage \in InQueue, conn[c].after = Nobody,
         NEW stage \in {"writing", "ending"}, stage = "writing" => conn[c].stage = "running",
         NEW cs, cs = [conn EXCEPT ![c].stage = stage],
         Released(cs, c),
         UNCHANGED <<setting, users, serving, store, broker, faults>>
  PROVE  IInv'
<1>1. TypeOK /\ Line /\ Tails /\ Counts /\ stage \in Stages /\ user[c] \in Everyone
  BY Fields DEF IInv, Stages
<1>2. cs \in [Conns -> Conn]
  BY <1>1 DEF TypeOK, Conn
<1>3. /\ \A d \in Conns \ {c} : cs[d] = conn[d]
      /\ cs[c].stage = stage /\ cs[c].slot = conn[c].slot /\ cs[c].after = conn[c].after
      /\ cs[c].client = conn[c].client /\ cs[c].open = conn[c].open /\ cs[c].wire = conn[c].wire
  BY <1>1 DEF TypeOK, Conn
<1>4. \A d \in Conns : conn'[d] = [cs[d] EXCEPT !.after = IF @ = c THEN Nobody ELSE @]
  BY DEF Released
<1>5. ASSUME NEW d \in Conns
      PROVE  /\ conn'[d] \in Conn
             /\ conn'[d].stage = cs[d].stage /\ conn'[d].slot = cs[d].slot
             /\ conn'[d].after = IF cs[d].after = c THEN Nobody ELSE cs[d].after
             /\ conn'[d].client = cs[d].client /\ conn'[d].open = cs[d].open
             /\ conn'[d].wire = cs[d].wire
  <2> DEFINE x == IF cs[d].after = c THEN Nobody ELSE cs[d].after
  <2>1. cs[d] \in Conn
    BY <1>2
  <2>2. x \in Conns \cup {Nobody}
    BY <2>1 DEF Conn
  <2>3. conn'[d] = [cs[d] EXCEPT !.after = x]
    BY <1>4
  <2> HIDE DEF x
  <2>4. /\ conn'[d] \in Conn /\ conn'[d].after = x
        /\ conn'[d].stage = cs[d].stage /\ conn'[d].slot = cs[d].slot
        /\ conn'[d].client = cs[d].client /\ conn'[d].open = cs[d].open /\ conn'[d].wire = cs[d].wire
    BY <2>1, <2>2, <2>3 DEF Conn
  <2> QED
    BY <2>4 DEF x
<1>6. conn' \in [Conns -> Conn]
  BY <1>5 DEF Released
<1>7. c # Nobody
  BY ConnsAssumption
<1>8. Line' /\ Tails'
  <2>1. conn'[c].stage \notin InQueue /\ conn'[c].after = Nobody
    BY <1>3, <1>5, <1>7 DEF InQueue
  <2>2. \A d \in Conns \ {c} : conn'[d].stage = conn[d].stage
    BY <1>3, <1>5
  <2>3. \A d \in Conns \ {c} : conn'[d].after = IF conn[d].after = c THEN Nobody ELSE conn[d].after
    BY <1>3, <1>5
  <2>4. tail' = [tail EXCEPT ![user[c]] = IF @ = c THEN Nobody ELSE @]
    BY DEF Released
  <2> QED
    BY <2>1, <2>2, <2>3, <2>4, <1>1, LineLeft
<1>9. Counts'
  BY <1>1, <1>3, <1>5, CountsStay
<1>10. Cardinality(Handled)' <= limit.all'
  <2>1. conn[c].stage \notin Outside
    BY DEF InQueue, Outside
  <2> QED
    BY <2>1, <1>1, <1>3, <1>5, HandledStays DEF IInv
<1>11. ASSUME NEW d \in Conns
       PROVE  Sound(conn'[d], serving')
  <2>1. Sound(conn[d], serving)
    BY DEF IInv
  <2>2. CASE d = c
    <3>1. conn'[c].stage = stage /\ conn'[c].after = Nobody
      BY <1>3, <1>5, <1>7
    <3>2. serving \notin {"starting", "down"}
      BY <2>1, <2>2 DEF Sound, InQueue, Outside
    <3> QED
      BY <2>2, <3>1, <3>2 DEF Sound, Outside
  <2>3. CASE d # c
    BY <2>1, <2>3, <1>3, <1>5 DEF Sound
  <2> QED
    BY <2>2, <2>3
<1>12. tail' \in [Everyone -> Conns \cup {Nobody}]
  BY <1>1 DEF Released, TypeOK
<1>13. TypeOK'
  BY <1>1, <1>6, <1>12, Setting DEF TypeOK
<1> QED
  BY <1>8, <1>9, <1>10, <1>11, <1>13 DEF IInv

LEMMA StartStep == ASSUME IInv, NEW c \in Conns, Start(c) PROVE IInv'
<1>1. TypeOK /\ Sound(conn[c], serving) /\ faults' \in 0..MaxFaults /\ "running" \in Stages
  BY DEF IInv, TypeOK, Start, Stages
<1>2. CASE To(c, "running") /\ UNCHANGED tail
  <2>1. conn' \in [Conns -> Conn] /\ \A d \in Conns \ {c} : conn'[d] = conn[d]
    BY <1>1, <1>2 DEF To, TypeOK, Conn
  <2>2. /\ conn'[c].stage = "running" /\ conn'[c].slot = conn[c].slot
        /\ conn'[c].after = conn[c].after /\ conn[c].stage = "queued" /\ conn[c].after = Nobody
    BY <1>1, <1>2 DEF To, TypeOK, Conn, Start
  <2>3. Sound(conn'[c], serving)
    BY <2>2, <1>1 DEF Sound, Outside
  <2> QED
    BY <1>1, <1>2, <2>1, <2>2, <2>3, OneMoves DEF Start, InQueue, Outside
<1>3. CASE Released([conn EXCEPT ![c].stage = "ending"], c)
  BY <1>3, Leaving DEF Start, InQueue
<1> QED
  BY <1>2, <1>3 DEF Start

LEMMA CompleteStep == ASSUME IInv, NEW c \in Conns, Complete(c) PROVE IInv'
<1>1. conn[c].stage = "running" /\ conn[c].after = Nobody
  BY DEF Complete, IInv, Sound
<1>2. PICK next \in {"writing", "ending"} : Released([conn EXCEPT ![c].stage = next], c)
  BY DEF Complete
<1> QED
  BY <1>1, <1>2, Leaving DEF Complete, InQueue

\* close() with `cs` for the connections, which differ in what clients wait for.
LEMMA ClosingStep ==
  ASSUME IInv, NEW cs \in [Conns -> Conn], conn' = Closing(cs),
         \A d \in Conns : Sound(cs[d], serving),
         \A d \in Conns : cs[d].slot = conn[d].slot /\ cs[d].stage = conn[d].stage
                            /\ cs[d].after = conn[d].after,
         serving = "up", serving' = "closing",
         UNCHANGED <<setting, users, tail, store, broker, faults>>
  PROVE  IInv'
<1>1. ASSUME NEW d \in Conns
      PROVE  /\ conn'[d] \in Conn
             /\ Sound(conn'[d], serving')
             /\ conn'[d].slot = conn[d].slot
             /\ conn'[d].stage \in InQueue <=> conn[d].stage \in InQueue
             /\ conn'[d].after = conn[d].after
             /\ conn[d].stage \in Outside => conn'[d].stage \in Outside
  <2>1. conn'[d] = Destroyed(cs[d]) \/ conn'[d] = cs[d]
    BY DEF Closing
  <2>2. cs[d] \in Conn /\ Sound(cs[d], serving')
    BY DEF Sound
  <2>3. CASE conn'[d] = Destroyed(cs[d])
    BY <2>2, <2>3, DestroyedIs
  <2>4. CASE conn'[d] = cs[d]
    BY <2>2, <2>4
  <2> QED
    BY <2>1, <2>3, <2>4
<1>2. conn' \in [Conns -> Conn]
  BY <1>1 DEF Closing
<1>3. /\ serving' \in {"starting", "up", "closing", "down"} /\ store' = (serving' # "down")
      /\ broker' \in {"none", "starting", "up", "closing", "down"} /\ faults' \in 0..MaxFaults
  BY DEF IInv, TypeOK
<1> QED
  BY <1>1, <1>2, <1>3, Moves

LEMMA CloseStep == ASSUME IInv, Signal \/ Disconnected PROVE IInv'
<1>1. serving = "up" /\ CloseServing
  BY DEF Signal, Disconnected
<1>2. conn \in [Conns -> Conn] /\ \A d \in Conns : Sound(conn[d], serving)
  BY DEF IInv, TypeOK
<1> QED
  BY <1>1, <1>2, ClosingStep DEF CloseServing

LEMMA WrittenStep == ASSUME IInv, NEW c \in Conns, Written(c) PROVE IInv'
<1> DEFINE told == [conn EXCEPT ![c].client = IF @ = "asking" THEN "idle" ELSE @]
<1>1. TypeOK /\ Sound(conn[c], serving) /\ conn[c].stage = "writing" /\ faults' \in 0..MaxFaults
      /\ conn[c] \in Conn
  BY Fields DEF IInv, TypeOK, Written
<1>2. told \in [Conns -> Conn]
  BY <1>1 DEF TypeOK, Conn
<1>3. /\ \A d \in Conns \ {c} : told[d] = conn[d]
      /\ told[c].client # "asking"
      /\ told[c].stage = conn[c].stage /\ told[c].slot = conn[c].slot
      /\ told[c].after = conn[c].after /\ told[c].open = conn[c].open
  BY <1>1 DEF TypeOK, Conn
<1>4. told[c] \in Conn
  BY <1>2
<1>5. CASE conn' = Closing(told) /\ serving = "up" /\ serving' = "closing"
  <2>1. Sound(told[c], serving)
    BY <1>1, <1>3 DEF Sound, Outside
  <2>2. /\ \A d \in Conns : Sound(told[d], serving)
        /\ \A d \in Conns : told[d].slot = conn[d].slot /\ told[d].stage = conn[d].stage
                              /\ told[d].after = conn[d].after
    BY <2>1, <1>3 DEF IInv
  <2> HIDE DEF told
  <2> QED
    BY <2>2, <1>2, <1>5, ClosingStep DEF Written
<1>6. CASE conn' = [told EXCEPT ![c].stage = "reading", ![c].asked = "op"] /\ UNCHANGED serving
  <2> DEFINE r == [told[c] EXCEPT !.stage = "reading", !.asked = "op"]
  <2>1. conn' = [told EXCEPT ![c] = r]
    BY <1>2, <1>6
  <2> HIDE DEF told
  <2>2. /\ r \in Conn /\ r.stage = "reading" /\ r.slot = told[c].slot /\ r.client = told[c].client
        /\ r.after = told[c].after
    BY <1>4 DEF Conn, Stages
  <2> HIDE DEF r
  <2>3. conn' \in [Conns -> Conn] /\ conn'[c] = r /\ \A d \in Conns \ {c} : conn'[d] = conn[d]
    BY <1>2, <1>3, <2>1, <2>2
  <2>4. Sound(conn'[c], serving)
    BY <2>2, <2>3, <1>1, <1>3 DEF Sound, Outside
  <2>5. /\ conn'[c].slot = conn[c].slot /\ conn'[c].after = conn[c].after
        /\ conn'[c].stage \in InQueue <=> conn[c].stage \in InQueue
        /\ conn[c].stage \in Outside => conn'[c].stage \in Outside
    BY <2>2, <2>3, <1>1, <1>3 DEF InQueue, Outside
  <2> QED
    BY <2>3, <2>4, <2>5, <1>1, <1>6, OneMoves DEF Written
<1> QED
  BY <1>5, <1>6 DEF Written

LEMMA EndStep == ASSUME IInv, NEW c \in Conns, End(c) PROVE IInv'
<1>1. TypeOK /\ Sound(conn[c], serving) /\ Line /\ Tails /\ Counts /\ conn[c].stage = "ending"
      /\ conn[c].slot \in BOOLEAN /\ user[c] \in Everyone
  BY Fields DEF IInv, End
<1>2. conn' \in [Conns -> Conn] /\ conn'[c] = NoConn /\ \A d \in Conns \ {c} : conn'[d] = conn[d]
  BY NoConnIs, <1>1 DEF End, TypeOK
<1>3. ~conn'[c].slot /\ conn'[c].stage = "none" /\ conn'[c].after = Nobody /\ conn[c].after = Nobody
  BY <1>1, <1>2, NoConnIs DEF Sound
<1>4. Line' /\ Tails'
  BY <1>1, <1>2, <1>3, LineStays DEF End, InQueue
<1>5. Counts' /\ users' \in [Everyone -> Nat]
  <2>1. CASE conn[c].slot
    <3>1. users' = [users EXCEPT ![user[c]] = @ - 1]
      BY <2>1 DEF End
    <3> QED
      BY <2>1, <3>1, <1>1, <1>2, <1>3, SlotFreed DEF End
  <2>2. CASE ~conn[c].slot
    <3>1. users' = users
      BY <2>2, <1>1 DEF End, TypeOK
    <3>2. conn'[c].slot = conn[c].slot
      BY <2>2, <1>1, <1>2, NoConnIs DEF Conn
    <3> QED
      BY <3>1, <3>2, <1>1, <1>2, CountsStay DEF End, TypeOK
  <2> QED
    BY <2>1, <2>2
<1>6. Cardinality(Handled)' <= limit.all'
  BY <1>1, <1>2, HandledStays DEF End, IInv, Outside
<1>7. \A d \in Conns : Sound(conn'[d], serving')
  BY <1>2, NoConnSound DEF IInv, End
<1>8. TypeOK'
  BY <1>1, <1>2, <1>5, Setting DEF TypeOK, End
<1> QED
  BY <1>4, <1>5, <1>6, <1>7, <1>8 DEF IInv, End

\* A step of the broker or of the process, by which connections that the server
\* does not handle may be lost.
LEMMA Loses ==
  ASSUME IInv, UNCHANGED <<setting, users, tail, faults>>,
         NEW L, L \subseteq {c \in Conns : conn[c].stage \in Outside},
         conn' = [c \in Conns |-> IF c \in L THEN NoConn ELSE conn[c]],
         \A c \in Conns : Sound(conn[c], serving'),
         serving' \in {"starting", "up", "closing", "down"},
         store' = (serving' # "down"),
         broker' \in {"none", "starting", "up", "closing", "down"}
  PROVE  IInv'
<1>1. TypeOK
  BY DEF IInv
<1>2. ASSUME NEW c \in Conns
      PROVE  /\ conn'[c] \in Conn /\ Sound(conn'[c], serving')
             /\ conn'[c].slot = conn[c].slot /\ conn'[c].after = conn[c].after
             /\ conn'[c].stage \in InQueue <=> conn[c].stage \in InQueue
             /\ conn[c].stage \in Outside => conn'[c].stage \in Outside
  <2>1. CASE c \in L
    <3>1. ~conn[c].slot /\ conn[c].after = Nobody /\ conn[c].stage \notin InQueue /\ conn[c].slot \in BOOLEAN
      BY <2>1, <1>1, Fields DEF IInv, Sound, Outside, InQueue
    <3>2. conn'[c] = NoConn /\ NoConn.slot \in BOOLEAN
      BY <2>1, NoConnIs DEF Conn
    <3> QED
      BY <3>1, <3>2, NoConnIs, NoConnSound DEF Outside, InQueue
  <2>2. CASE c \notin L
    BY <2>2, <1>1, Fields
  <2> QED
    BY <2>1, <2>2
<1>3. conn' \in [Conns -> Conn]
  BY <1>2
<1>4. faults' \in 0..MaxFaults
  BY <1>1 DEF TypeOK
<1> QED
  BY <1>2, <1>3, <1>4, Moves

LEMMA BrokerStep ==
  ASSUME IInv, BrokerFirst, Ready \/ StartFails \/ CloseBroker \/ BrokerEnds
  PROVE  IInv'
<1>1. /\ TypeOK /\ faults' = faults /\ faults \in 0..MaxFaults
      /\ \A c \in Conns : Sound(conn[c], serving)
      /\ store = (serving # "down")
  BY DEF IInv, TypeOK, Ready, StartFails, CloseBroker, BrokerEnds
<1>2. CASE Ready
  <2>1. \A c \in Conns : Sound(conn[c], serving')
    BY <1>1, <1>2 DEF Ready, Sound
  <2> QED
    BY <2>1, <1>1, <1>2, Rests DEF Ready
<1>3. CASE StartFails
  <2>1. \A c \in Conns : Sound(conn[c], serving')
    BY <1>1, <1>3 DEF StartFails, BrokerFirst, Sound
  <2> QED
    BY <2>1, <1>1, <1>3, Rests DEF StartFails
<1>4. CASE CloseBroker
  <2>1. PICK lost \in SUBSET {c \in Conns : conn[c].stage = "sent"} :
          conn' = [c \in Conns |-> IF conn[c].stage = "broker" \/ c \in lost THEN NoConn ELSE conn[c]]
    BY <1>4 DEF CloseBroker
  <2> DEFINE L == {c \in Conns : conn[c].stage = "broker"} \cup lost
  <2>2. L \subseteq {c \in Conns : conn[c].stage \in Outside}
    BY DEF Outside
  <2>3. conn' = [c \in Conns |-> IF c \in L THEN NoConn ELSE conn[c]]
    BY <2>1
  <2> HIDE DEF L
  <2> QED
    BY <2>2, <2>3, <1>1, <1>4, Loses DEF CloseBroker, TypeOK
<1>5. CASE BrokerEnds
  BY <1>1, <1>5, Rests DEF BrokerEnds, TypeOK
<1> QED
  BY <1>2, <1>3, <1>4, <1>5

LEMMA CloseStoreStep == ASSUME IInv, CloseStore PROVE IInv'
<1>1. TypeOK
  BY DEF IInv
<1> DEFINE L == {c \in Conns : conn[c].stage = "sent"}
<1>2. L \subseteq {c \in Conns : conn[c].stage \in Outside}
  BY DEF Outside
<1>3. conn' = [c \in Conns |-> IF c \in L THEN NoConn ELSE conn[c]]
  BY DEF CloseStore
<1> HIDE DEF L
<1>4. \A c \in Conns : conn[c].stage \in Outside
  BY DEF CloseStore, Handled, Outside
<1>5. \A c \in Conns : Sound(conn[c], serving')
  BY <1>4 DEF IInv, Sound
<1> QED
  BY <1>1, <1>2, <1>3, <1>5, Loses DEF CloseStore, TypeOK

LEMMA KilledStep == ASSUME IInv, Killed PROVE IInv'
<1>1. TypeOK /\ user' = user /\ Everyone' = Everyone /\ limit' = limit
  BY Setting DEF IInv, Killed
<1>2. ASSUME NEW c \in Conns
      PROVE  /\ conn'[c] \in Conn /\ ~conn'[c].slot /\ conn'[c].stage \in Outside
             /\ conn'[c].stage \notin InQueue /\ conn'[c].after = Nobody
             /\ Sound(conn'[c], serving')
  <2>1. CASE conn[c].stage = "broker"
    <3>1. conn'[c] = conn[c] /\ conn[c] \in Conn /\ Sound(conn[c], serving)
      BY <2>1, <1>1, Fields DEF Killed, IInv
    <3>2. ~conn[c].slot /\ conn[c].after = Nobody
      BY <2>1, <3>1 DEF Sound, Outside
    <3> QED
      BY <2>1, <3>1, <3>2 DEF Sound, Outside, InQueue
  <2>2. CASE conn[c].stage # "broker"
    <3>1. conn'[c] = NoConn
      BY <2>2 DEF Killed
    <3> QED
      BY <3>1, NoConnIs, NoConnSound DEF Outside, InQueue
  <2> QED
    BY <2>1, <2>2
<1>3. /\ users' \in [Everyone -> Nat] /\ \A u \in Everyone : users'[u] = 0
      /\ tail' \in [Everyone -> Conns \cup {Nobody}] /\ \A u \in Everyone : tail'[u] = Nobody
  BY DEF Killed
<1>4. limit.user \in Nat /\ limit.all \in Nat
  BY <1>1, SettingsAssumption DEF TypeOK, limit
<1>5. conn' \in [Conns -> Conn]
  BY <1>2 DEF Killed
<1>6. TypeOK'
  <2>1. faults' \in 0..MaxFaults
    BY <1>1, FaultsAssumption DEF TypeOK, Killed
  <2>2. setting' \in Settings /\ serving' = "down" /\ store' = FALSE
        /\ broker' \in {"none", "starting", "up", "closing", "down"}
    BY <1>1 DEF TypeOK, Killed
  <2> QED
    BY <2>1, <2>2, <1>1, <1>3, <1>5 DEF TypeOK
<1>7. Line'
  BY <1>2 DEF Line
<1>8. Tails'
  BY <1>1, <1>2, <1>3 DEF Tails, Waiting
<1>9. Counts'
  <2>1. \A u : Holders(u)' = {}
    BY <1>2 DEF Holders
  <2> QED
    BY <2>1, <1>1, <1>3, <1>4, FS_EmptySet DEF Counts
<1>10. Cardinality(Handled)' <= limit.all'
  <2>1. Handled' = {}
    BY <1>2 DEF Handled, Outside
  <2> QED
    BY <2>1, <1>1, <1>4, FS_EmptySet
<1> QED
  BY <1>2, <1>6, <1>7, <1>8, <1>9, <1>10 DEF IInv, Killed

LEMMA InitIs == Init => IInv
<1> SUFFICES ASSUME Init PROVE IInv
  OBVIOUS
<1>1. ASSUME NEW c \in Conns
      PROVE  conn[c] = NoConn
  BY DEF Init
<1>2. limit.user \in Nat /\ limit.all \in Nat
  BY SettingsAssumption DEF Init, limit
<1>3. TypeOK
  BY <1>1, NoConnIs, FaultsAssumption DEF TypeOK, Init
<1>4. Line
  BY <1>1, NoConnIs DEF Line, InQueue
<1>5. Tails
  BY <1>1, NoConnIs DEF Tails, Waiting, InQueue, Init
<1>6. Counts
  <2>1. \A u : Holders(u) = {}
    BY <1>1, NoConnIs DEF Holders
  <2> QED
    BY <2>1, <1>2, FS_EmptySet DEF Counts, Init
<1>7. Cardinality(Handled) <= limit.all
  <2>1. Handled = {}
    BY <1>1, NoConnIs DEF Handled
  <2> QED
    BY <2>1, <1>2, FS_EmptySet
<1>8. \A c \in Conns : Sound(conn[c], serving)
  BY <1>1, NoConnSound
<1> QED
  BY <1>3, <1>4, <1>5, <1>6, <1>7, <1>8 DEF IInv, Init

LEMMA BrokerFirstStep == BrokerFirst /\ [Next]_vars => BrokerFirst'
<1> SUFFICES ASSUME BrokerFirst, [Next]_vars PROVE BrokerFirst'
  OBVIOUS
<1>1. ASSUME NEW c \in Conns, Client(c) \/ Authenticate(c) \/ Refuse(c)
      PROVE  BrokerFirst'
  BY <1>1 DEF BrokerFirst, Client, Connect, Ask, Leave, Stick, Authenticate, Refuse
<1>2. ASSUME NEW c \in Conns, Handler(c)
      PROVE  BrokerFirst'
  BY <1>2 DEF BrokerFirst, Handler, Receive, Verified, VerifyFails, Frame, TimesOut, Hear, Start, Complete,
     Written, WriteTimesOut, End
<1>3. CASE Ready \/ StartFails \/ CloseBroker \/ BrokerEnds
  BY <1>3 DEF BrokerFirst, Ready, StartFails, CloseBroker, BrokerEnds
<1>4. CASE Signal \/ Disconnected \/ CloseStore \/ Killed
  BY <1>4 DEF BrokerFirst, Signal, Disconnected, CloseServing, CloseStore, Killed
<1>5. CASE UNCHANGED vars
  BY <1>5 DEF BrokerFirst, vars
<1> QED
  BY <1>1, <1>2, <1>3, <1>4, <1>5 DEF Next

\* No step of a client, the broker, a handler or the process disturbs the invariant.
LEMMA StepIs == IInv /\ BrokerFirst /\ [Next]_vars => IInv'
<1> SUFFICES ASSUME IInv, BrokerFirst, [Next]_vars PROVE IInv'
  OBVIOUS
<1>1. ASSUME NEW c \in Conns, Client(c) \/ Authenticate(c) \/ Refuse(c)
      PROVE  IInv'
  BY <1>1, ConnectStep, AskStep, LeaveStep, StickStep, AuthenticateStep, RefuseStep DEF Client
<1>2. ASSUME NEW c \in Conns, Handler(c)
      PROVE  IInv'
  BY <1>2, ReceiveStep, VerifiedStep, VerifyFailsStep, FrameStep, TimerStep, HearStep, StartStep,
     CompleteStep, WrittenStep, EndStep DEF Handler
<1>3. CASE Ready \/ StartFails \/ CloseBroker \/ BrokerEnds
  BY <1>3, BrokerStep
<1>4. CASE Signal \/ Disconnected \/ CloseStore \/ Killed
  BY <1>4, CloseStep, CloseStoreStep, KilledStep
<1>5. CASE UNCHANGED vars
  <2>1. user' = user /\ limit' = limit /\ Everyone' = Everyone
    BY <1>5, Setting DEF vars
  <2>2. faults' \in 0..MaxFaults
    BY <1>5 DEF vars, IInv, TypeOK
  <2> QED
    BY <1>5, <2>2, Rests DEF vars, IInv, TypeOK
<1> QED
  BY <1>1, <1>2, <1>3, <1>4, <1>5 DEF Next

-----------------------------------------------------------------------------
(* Theorems.                                                                *)

\* The queues and the counts of the server are what its connections make them.
THEOREM Invariance == Spec => []IInv
<1>1. Init => IInv
  BY InitIs
<1>2. IInv /\ BrokerFirst /\ [Next]_vars => IInv'
  BY StepIs
<1>3. Init => BrokerFirst
  BY DEF Init, BrokerFirst
<1>4. BrokerFirst /\ [Next]_vars => BrokerFirst'
  BY BrokerFirstStep
<1> QED
  BY <1>1, <1>2, <1>3, <1>4, PTL DEF Spec

\* The variables keep their types.
THEOREM TypeSafety == Spec => []TypeOK
<1>1. IInv => TypeOK
  BY DEF IInv
<1> QED
  BY <1>1, Invariance, PTL

\* admit(), release(), VaultBackendRequestQueue and close() together: for any
\* number of connections and users the counts are exact and within the limits, no
\* two operations of a user overlap, none runs without the store, and no request
\* that a client waits for is left behind.
THEOREM ServerIsExact == Spec => []ConnectionsExact
<1>1. IInv => ConnectionsExact
  <2> SUFFICES ASSUME IInv PROVE ConnectionsExact
    OBVIOUS
  <2>1. SlotsExact
    BY DEF IInv, Counts, Holders, SlotsExact
  <2>2. ASSUME NEW c \in Conns, conn[c].stage = "running"
        PROVE  store
    BY <2>2 DEF IInv, Sound, Outside
  <2>3. ASSUME NEW c \in Conns, NEW d \in Conns, conn[c].stage = "running", conn[d].stage = "running",
               user[c] = user[d]
        PROVE  c = d
    <3>1. conn[c].after = Nobody /\ conn[d].after = Nobody
      BY <2>3 DEF IInv, Sound
    <3> QED
      BY <2>3, <3>1 DEF IInv, Line, InQueue
  <2>4. OneAtATime
    BY <2>2, <2>3 DEF OneAtATime
  <2>5. RequestKept
    BY DEF IInv, Sound, RequestKept
  <2> QED
    BY <2>1, <2>4, <2>5 DEF ConnectionsExact
<1> QED
  BY <1>1, Invariance, PTL

-----------------------------------------------------------------------------
(* VaultFrames.  Recursive definitions: facts about them are proved by the  *)
(* least number that would refute them.                                     *)

LEMMA LeastNatural ==
  ASSUME NEW T \in SUBSET Nat, T # {}
  PROVE  \E n \in T : \A m \in T : n <= m
<1> DEFINE R == {ss \in Nat \X Nat : ss[1] < ss[2]}
<1>1. IsWellFoundedOn(R, Nat)
  BY NatLessThanWellFounded DEF OpToRel
<1> HIDE DEF R
<1>2. PICK x \in T : \A y \in T : ~(<<y, x>> \in R)
  BY <1>1, WFMin
<1>3. ASSUME NEW y \in T PROVE x <= y
  <2>1. x \in Nat /\ y \in Nat /\ <<y, x>> \in Nat \X Nat
    OBVIOUS
  <2>2. ~(<<y, x>>[1] < <<y, x>>[2])
    BY <1>2, <2>1 DEF R
  <2> QED
    BY <2>1, <2>2
<1> QED
  BY <1>3

\* A set of numbers that has 0 and with every number the next has all up to n.
LEMMA UpTo ==
  ASSUME NEW n \in Nat, NEW T, 0 \in T, \A k \in 0..(n - 1) : k \in T => k + 1 \in T
  PROVE  0..n \subseteq T
<1> SUFFICES ASSUME (0..n) \ T # {} PROVE FALSE
  OBVIOUS
<1> DEFINE U == (0..n) \ T
<1>0. U \in SUBSET Nat /\ U # {}
  OBVIOUS
<1> HIDE DEF U
<1>1. PICK k \in U : \A m \in U : k <= m
  BY <1>0, LeastNatural
<1>2. k \in (0..n) \ T /\ \A m \in (0..n) \ T : k <= m
  BY <1>1 DEF U
<1>3. k \in Nat /\ k # 0 /\ k <= n /\ k - 1 \in 0..(n - 1) /\ k - 1 \in 0..n /\ ~(k <= k - 1)
  BY <1>2
<1>4. k - 1 \in T
  BY <1>2, <1>3
<1>5. (k - 1) + 1 \in T /\ (k - 1) + 1 = k
  BY <1>3, <1>4
<1> QED
  BY <1>2, <1>5

\* A function that gives each value from the one before exists.
Recursor(n, V, base, F) == n \in Nat /\ base \in V /\ F \in [1..n -> [V -> V]]

Recursive(g, n, V, base, F) ==
  g \in [0..n -> V] /\ g[0] = base /\ \A k \in 1..n : g[k] = F[k][g[k - 1]]

LEMMA Recursion ==
  ASSUME NEW n, NEW V, NEW base, NEW F, Recursor(n, V, base, F)
  PROVE  \E g : Recursive(g, n, V, base, F)
<1> DEFINE T == {k \in 0..n : \E g : Recursive(g, k, V, base, F)}
<1>0. n \in Nat /\ base \in V /\ F \in [1..n -> [V -> V]]
  BY DEF Recursor
<1>1. 0 \in T
  <2>1. Recursive([j \in 0..0 |-> base], 0, V, base, F)
    BY <1>0 DEF Recursive
  <2>2. 0 \in 0..n
    BY <1>0
  <2> QED
    BY <2>1, <2>2
<1>2. ASSUME NEW k \in 0..(n - 1), k \in T
      PROVE  k + 1 \in T
  <2>1. PICK g : Recursive(g, k, V, base, F)
    BY <1>2
  <2> DEFINE h == [j \in 0..(k + 1) |-> IF j = k + 1 THEN F[k + 1][g[k]] ELSE g[j]]
  <2>2. k \in Nat /\ k + 1 \in 1..n /\ k + 1 \in 0..n /\ k \in 0..k
    BY <1>0
  <2>3. g[k] \in V /\ F[k + 1][g[k]] \in V
    BY <1>0, <2>1, <2>2 DEF Recursive
  <2>4. h \in [0..(k + 1) -> V] /\ h[0] = base
    BY <2>1, <2>2, <2>3 DEF Recursive
  <2>5. ASSUME NEW j \in 1..(k + 1) PROVE h[j] = F[j][h[j - 1]]
    <3>1. j \in 0..(k + 1) /\ j - 1 \in 0..(k + 1) /\ j - 1 # k + 1
      BY <2>2
    <3>2. h[j - 1] = g[j - 1]
      BY <3>1
    <3>3. CASE j = k + 1
      <4>1. j - 1 = k /\ h[j] = F[k + 1][g[k]]
        BY <2>2, <3>1, <3>3
      <4> QED
        BY <3>2, <3>3, <4>1
    <3>4. CASE j # k + 1
      <4>1. j \in 1..k /\ h[j] = g[j]
        BY <2>2, <3>1, <3>4
      <4> QED
        BY <2>1, <3>2, <4>1 DEF Recursive
    <3> QED
      BY <3>3, <3>4
  <2> HIDE DEF h
  <2>6. Recursive(h, k + 1, V, base, F)
    BY <2>4, <2>5 DEF Recursive
  <2> QED
    BY <2>2, <2>6
<1>3. n \in T
  <2>1. n \in 0..n
    BY <1>0
  <2> HIDE DEF T
  <2> QED
    BY <1>0, <1>1, <1>2, <2>1, UpTo
<1> QED
  BY <1>3

-----------------------------------------------------------------------------
(* Frames.                                                                  *)

Bits == {0, 1}

\* The numbers of two sequences, one after the other.
Numbers(s, n) == s \in Seq(Nat) /\ n \in Nat /\ Len(s) = n

At(s, i, x) == i \in 1..Len(s) /\ s[i] = x

LEMMA Joined ==
  ASSUME NEW s, NEW n, Numbers(s, n), NEW t, NEW k, Numbers(t, k)
  PROVE  /\ Numbers(s \o t, n + k)
         /\ \A i, x : At(s, i, x) => At(s \o t, i, x)
         /\ \A i, j, x : At(t, i, x) /\ j = n + i => At(s \o t, j, x)
<1>1. n \in Nat /\ k \in Nat /\ n + k \in Nat /\ s \in Seq(Nat) /\ t \in Seq(Nat) /\ Len(s) = n /\ Len(t) = k
  BY DEF Numbers
<1>2. /\ s \o t \in Seq(Nat) /\ Len(s \o t) = n + k
      /\ \A i \in 1..(n + k) : (s \o t)[i] = IF i <= n THEN s[i] ELSE t[i - n]
  BY <1>1, ConcatProperties
<1>3. ASSUME NEW i, NEW x, At(s, i, x) PROVE At(s \o t, i, x)
  <2>1. i \in 1..(n + k) /\ i <= n /\ s[i] = x
    BY <1>1, <1>3 DEF At
  <2> QED
    BY <1>2, <2>1 DEF At
<1>4. ASSUME NEW i, NEW j, NEW x, At(t, i, x), j = n + i PROVE At(s \o t, j, x)
  <2>1. j \in 1..(n + k) /\ ~(j <= n) /\ j - n = i /\ t[i] = x
    BY <1>1, <1>4 DEF At
  <2> QED
    BY <1>2, <2>1 DEF At
<1> QED
  BY <1>1, <1>2, <1>3, <1>4 DEF Numbers

LEMMA MessageIs ==
  ASSUME NEW m \in Frames!Messages
  PROVE  /\ m.kind \in {Frames!Request, Frames!Success, Frames!Failure}
         /\ m.parts \in Seq(Seq(Bits)) /\ m.parts \in Seq(Secrets) /\ Len(m.parts) \in 0..MaxParts
         /\ m = [kind |-> m.kind, parts |-> m.parts]
<1>1. PICK n \in 0..MaxParts : m.parts \in [1..n -> Secrets]
  BY DEF Frames!Messages
<1>2. n \in Nat /\ Secrets \subseteq Seq(Bits)
  BY FramesAssumption DEF Frames!MessagesAssumption, Bits
<1>3. m.parts \in Seq(Secrets) /\ m.parts \in Seq(Seq(Bits)) /\ Len(m.parts) = n
  BY <1>1, <1>2, SeqDef
<1>4. /\ m.kind \in {Frames!Request, Frames!Success, Frames!Failure}
      /\ m = [kind |-> m.kind, parts |-> m.parts]
  BY DEF Frames!Messages
<1> QED
  BY <1>3, <1>4

LEMMA XorIs ==
  ASSUME NEW x \in Bits, NEW mask \in Bits
  PROVE  Frames!Xor(x, mask) \in Bits /\ Frames!Xor(mask, Frames!Xor(x, mask)) = x
<1>1. 0 % 2 = 0 /\ 1 % 2 = 1 /\ 2 % 2 = 0
  OBVIOUS
<1> QED
  BY <1>1 DEF Bits, Frames!Xor

\* An attachment: its length, the mask and the masked bytes.
LEMMA MaskedIs ==
  ASSUME NEW s \in Seq(Bits), NEW mask \in Bits
  PROVE  LET t == Frames!Masked(s, mask)  n == Len(s) IN
         /\ n \in Nat /\ Numbers(t, 1 + 2 * n) /\ At(t, 1, 2 * n)
         /\ \A i \in 1..n : At(t, 1 + i, mask) /\ At(t, 1 + n + i, Frames!Xor(s[i], mask))
<1> DEFINE head == <<2 * Len(s)>>
           u == [i \in 1..Len(s) |-> mask]
           w == [i \in 1..Len(s) |-> Frames!Xor(s[i], mask)]
<1>1. PICK n \in Nat : n = Len(s)
  BY LenProperties
<1>2. Numbers(head, 1) /\ At(head, 1, 2 * n)
  BY <1>1 DEF Numbers, At
<1>3. Numbers(u, n) /\ \A i \in 1..n : At(u, i, mask)
  <2>1. \A i \in 1..n : mask \in Nat
    BY DEF Bits
  <2>2. u \in Seq(Nat) /\ Len(u) = n
    BY <1>1, <2>1, IsASeq
  <2> QED
    BY <1>1, <2>2 DEF Numbers, At
<1>4. Numbers(w, n) /\ \A i \in 1..n : At(w, i, Frames!Xor(s[i], mask))
  <2>1. \A i \in 1..n : Frames!Xor(s[i], mask) \in Nat
    <3>1. \A i \in 1..n : s[i] \in Bits
      BY <1>1, ElementOfSeq
    <3> QED
      BY <3>1, XorIs DEF Bits
  <2>2. w \in Seq(Nat) /\ Len(w) = n
    BY <1>1, <2>1, IsASeq
  <2> QED
    BY <1>1, <2>2 DEF Numbers, At
<1>5. Frames!Masked(s, mask) = (head \o u) \o w
  BY DEF Frames!Masked
<1> HIDE DEF head, u, w
<1> DEFINE v == head \o u
           t == v \o w
<1>6. /\ Numbers(v, 1 + n)
      /\ \A i, x : At(head, i, x) => At(v, i, x)
      /\ \A i, j, x : At(u, i, x) /\ j = 1 + i => At(v, j, x)
  BY <1>2, <1>3, Joined
<1> HIDE DEF v
<1>7. /\ Numbers(t, (1 + n) + n)
      /\ \A i, x : At(v, i, x) => At(t, i, x)
      /\ \A i, j, x : At(w, i, x) /\ j = (1 + n) + i => At(t, j, x)
  BY <1>4, <1>6, Joined
<1> HIDE DEF t
<1>8. At(t, 1, 2 * n)
  BY <1>2, <1>6, <1>7
<1>9. ASSUME NEW i \in 1..n PROVE At(t, 1 + i, mask) /\ At(t, 1 + n + i, Frames!Xor(s[i], mask))
  <2>1. At(t, 1 + i, mask)
    BY <1>3, <1>6, <1>7
  <2>2. At(t, (1 + n) + i, Frames!Xor(s[i], mask))
    BY <1>4, <1>7
  <2> QED
    BY <2>1, <2>2
<1>10. Numbers(t, 1 + 2 * n)
  <2>1. (1 + n) + n = 1 + 2 * n
    OBVIOUS
  <2> QED
    BY <1>7, <2>1
<1> QED
  BY <1>1, <1>5, <1>8, <1>9, <1>10 DEF t, v

\* The attachments of the first byte fields of a message.
Attached(f, m, mask) ==
  /\ f \in [0..Len(m.parts) -> Seq(Nat)] /\ f[0] = <<>>
  /\ \A n \in 1..Len(m.parts) : f[n] = f[n - 1] \o Frames!Masked(m.parts[n], mask)

LEMMA BodyIs ==
  ASSUME NEW m \in Frames!Messages, NEW mask \in Bits
  PROVE  \E f : Attached(f, m, mask) /\ Frames!Body(m, mask) =
                  <<Len(Frames!Text(m)), Len(m.parts)>> \o Frames!Text(m) \o f[Len(m.parts)]
<1> DEFINE N == Len(m.parts)
           f == CHOOSE g : g = [n \in 0..N |-> IF n = 0 THEN <<>> ELSE g[n - 1] \o Frames!Masked(m.parts[n], mask)]
           F == [n \in 1..N |-> [x \in Seq(Nat) |-> x \o Frames!Masked(m.parts[n], mask)]]
<1>0. N \in Nat /\ m.parts \in Seq(Seq(Bits)) /\ <<>> \in Seq(Nat)
  BY MessageIs, LenProperties
<1>1. ASSUME NEW n \in 1..N, NEW x \in Seq(Nat)
      PROVE  x \o Frames!Masked(m.parts[n], mask) \in Seq(Nat)
  <2>1. m.parts[n] \in Seq(Bits)
    BY <1>0, ElementOfSeq
  <2>2. Frames!Masked(m.parts[n], mask) \in Seq(Nat)
    BY <2>1, MaskedIs DEF Numbers
  <2> QED
    BY <2>2, ConcatProperties
<1>2. F \in [1..N -> [Seq(Nat) -> Seq(Nat)]]
  BY <1>1
<1>3. PICK g : g \in [0..N -> Seq(Nat)] /\ g[0] = <<>> /\ \A k \in 1..N : g[k] = F[k][g[k - 1]]
  <2>1. Recursor(N, Seq(Nat), <<>>, F)
    BY <1>0, <1>2 DEF Recursor
  <2>2. \E g : Recursive(g, N, Seq(Nat), <<>>, F)
    <3> HIDE DEF N, F
    <3> QED
      BY <2>1, Recursion
  <2> HIDE DEF N, F
  <2> QED
    BY <2>2 DEF Recursive
<1>4. ASSUME NEW k \in 1..N PROVE g[k] = g[k - 1] \o Frames!Masked(m.parts[k], mask)
  <2>1. k - 1 \in 0..N
    BY <1>0
  <2>2. g[k - 1] \in Seq(Nat)
    BY <1>3, <2>1
  <2> QED
    BY <1>3, <2>2
<1>5. g = [n \in 0..N |-> IF n = 0 THEN <<>> ELSE g[n - 1] \o Frames!Masked(m.parts[n], mask)]
  <2>1. ASSUME NEW n \in 0..N
        PROVE  g[n] = IF n = 0 THEN <<>> ELSE g[n - 1] \o Frames!Masked(m.parts[n], mask)
    <3>1. n # 0 => n \in 1..N
      BY <1>0
    <3> QED
      BY <1>3, <1>4, <3>1
  <2> HIDE DEF N
  <2> QED
    BY <1>3, <2>1
<1>6. f = [n \in 0..N |-> IF n = 0 THEN <<>> ELSE f[n - 1] \o Frames!Masked(m.parts[n], mask)]
  BY <1>5
<1>7. Frames!Body(m, mask) = <<Len(Frames!Text(m)), Len(m.parts)>> \o Frames!Text(m) \o f[N]
  BY DEF Frames!Body
<1> HIDE DEF f, F
<1> DEFINE T == {k \in 0..N : f[k] \in Seq(Nat)}
<1>8. 0..N \subseteq T
  <2>1. 0 \in T
    BY <1>0, <1>6
  <2>2. ASSUME NEW k \in 0..(N - 1), k \in T PROVE k + 1 \in T
    <3>1. k + 1 \in 0..N /\ k + 1 \in 1..N /\ k + 1 # 0 /\ (k + 1) - 1 = k
      BY <1>0
    <3>2. f[k + 1] = f[(k + 1) - 1] \o Frames!Masked(m.parts[k + 1], mask)
      BY <1>6, <3>1
    <3>3. f[k + 1] \in Seq(Nat)
      BY <1>1, <2>2, <3>1, <3>2
    <3> QED
      BY <3>1, <3>3
  <2> HIDE DEF T, N
  <2> QED
    BY <1>0, <2>1, <2>2, UpTo
<1>9. Attached(f, m, mask)
  <2>1. f \in [0..N -> Seq(Nat)]
    BY <1>6, <1>8
  <2>2. f[0] = <<>>
    BY <1>0, <1>6
  <2>3. ASSUME NEW n \in 1..N PROVE f[n] = f[n - 1] \o Frames!Masked(m.parts[n], mask)
    <3>1. n \in 0..N /\ n # 0
      BY <1>0
    <3> QED
      BY <1>6, <3>1
  <2> QED
    BY <2>1, <2>2, <2>3 DEF Attached
<1> QED
  BY <1>7, <1>9

\* The first byte fields of a message take these cells: the lengths, what follows
\* on what, and the attachment of one of them.
LEMMA AttachedIs ==
  ASSUME NEW m \in Frames!Messages, NEW mask \in Bits, NEW f, Attached(f, m, mask), NEW n \in 1..Len(m.parts)
  PROVE  LET o == Len(f[n - 1])  l == Len(m.parts[n]) IN
         /\ o \in Nat /\ l \in Nat /\ m.parts[n] \in Seq(Bits)
         /\ Numbers(f[n - 1], o) /\ Numbers(f[n], o + (1 + 2 * l))
         /\ \A i, x : At(f[n - 1], i, x) => At(f[n], i, x)
         /\ At(f[n], o + 1, 2 * l)
         /\ \A i \in 1..l : At(f[n], o + (1 + i), mask) /\ At(f[n], o + (1 + l + i), Frames!Xor(m.parts[n][i], mask))
<1> DEFINE t == Frames!Masked(m.parts[n], mask)
           s == f[n - 1]
<1>1. Len(m.parts) \in Nat /\ m.parts[n] \in Seq(Bits) /\ n - 1 \in 0..Len(m.parts)
  <2>1. m.parts \in Seq(Seq(Bits))
    BY MessageIs
  <2> QED
    BY <2>1, LenProperties, ElementOfSeq
<1>2. s \in Seq(Nat) /\ f[n] = s \o t
  BY <1>1 DEF Attached
<1>3. PICK l \in Nat : /\ l = Len(m.parts[n]) /\ Numbers(t, 1 + 2 * l) /\ At(t, 1, 2 * l)
                       /\ \A i \in 1..l : At(t, 1 + i, mask) /\ At(t, 1 + l + i, Frames!Xor(m.parts[n][i], mask))
  BY <1>1, MaskedIs
<1>4. PICK o \in Nat : o = Len(s) /\ Numbers(s, o)
  BY <1>2, LenProperties DEF Numbers
<1> HIDE DEF t, s
<1>5. /\ Numbers(s \o t, o + (1 + 2 * l))
      /\ \A i, x : At(s, i, x) => At(s \o t, i, x)
      /\ \A i, j, x : At(t, i, x) /\ j = o + i => At(s \o t, j, x)
  BY <1>3, <1>4, Joined
<1> QED
  BY <1>1, <1>2, <1>3, <1>4, <1>5 DEF s

\* What is there of one attachment stays as the others follow.
LEMMA AttachedGrows ==
  ASSUME NEW m \in Frames!Messages, NEW mask \in Bits, NEW f, Attached(f, m, mask), NEW k \in 0..Len(m.parts)
  PROVE  \A n \in 0..k : Len(f[n]) <= Len(f[k]) /\ \A i, x : At(f[n], i, x) => At(f[k], i, x)
<1> DEFINE P == Len(m.parts)
           T == {j \in 0..P : \A n \in 0..j : Len(f[n]) <= Len(f[j]) /\ \A i, x : At(f[n], i, x) => At(f[j], i, x)}
<1>0. P \in Nat /\ \A j \in 0..P : f[j] \in Seq(Nat) /\ Len(f[j]) \in Nat
  BY MessageIs, LenProperties DEF Attached
<1>1. 0 \in T
  BY <1>0
<1>2. ASSUME NEW j \in 0..(P - 1), j \in T PROVE j + 1 \in T
  <2>1. j + 1 \in 1..P /\ j + 1 \in 0..P /\ (j + 1) - 1 = j /\ j \in Nat /\ j \in 0..P
    BY <1>0
  <2>2. Numbers(f[j + 1], Len(f[j]) + (1 + 2 * Len(m.parts[j + 1]))) /\ Len(m.parts[j + 1]) \in Nat
        /\ \A i, x : At(f[j], i, x) => At(f[j + 1], i, x)
    BY <2>1, AttachedIs
  <2>3. Len(f[j]) <= Len(f[j + 1])
    <3>1. PICK o \in Nat, l \in Nat : o = Len(f[j]) /\ l = Len(m.parts[j + 1])
      BY <1>0, <2>1, <2>2
    <3>2. Len(f[j + 1]) = o + (1 + 2 * l)
      BY <2>2, <3>1 DEF Numbers
    <3>3. o <= o + (1 + 2 * l)
      OBVIOUS
    <3> QED
      BY <3>1, <3>2, <3>3
  <2>4. ASSUME NEW n \in 0..(j + 1)
        PROVE  Len(f[n]) <= Len(f[j + 1]) /\ \A i, x : At(f[n], i, x) => At(f[j + 1], i, x)
    <3>1. CASE n = j + 1
      BY <1>0, <2>1, <3>1
    <3>2. CASE n # j + 1
      <4>1. n \in 0..j /\ n \in 0..P
        BY <1>0, <2>1, <3>2
      <4>2. Len(f[n]) <= Len(f[j]) /\ \A i, x : At(f[n], i, x) => At(f[j], i, x)
        BY <1>2, <4>1
      <4>3. Len(f[n]) \in Nat /\ Len(f[j]) \in Nat /\ Len(f[j + 1]) \in Nat
        BY <1>0, <2>1, <4>1
      <4> QED
        BY <2>2, <2>3, <4>2, <4>3
    <3> QED
      BY <3>1, <3>2
  <2> QED
    BY <2>1, <2>4
<1>3. 0..P \subseteq T
  <2> HIDE DEF T, P
  <2> QED
    BY <1>0, <1>1, <1>2, UpTo
<1> QED
  BY <1>3

\* The mask does not change how much there is.
LEMMA SameLength ==
  ASSUME NEW m \in Frames!Messages, NEW mask \in Bits, NEW f, Attached(f, m, mask), NEW g, Attached(g, m, 0)
  PROVE  Len(f[Len(m.parts)]) = Len(g[Len(m.parts)])
<1> DEFINE P == Len(m.parts)
           T == {j \in 0..P : Len(f[j]) = Len(g[j])}
<1>0. P \in Nat /\ 0 \in Bits
  BY MessageIs, LenProperties DEF Bits
<1>1. 0 \in T
  BY <1>0 DEF Attached
<1>2. ASSUME NEW j \in 0..(P - 1), j \in T PROVE j + 1 \in T
  <2>1. j + 1 \in 1..P /\ j + 1 \in 0..P /\ (j + 1) - 1 = j /\ j \in Nat
    BY <1>0
  <2>2. Numbers(f[j + 1], Len(f[j]) + (1 + 2 * Len(m.parts[j + 1])))
    BY <2>1, AttachedIs
  <2>3. Numbers(g[j + 1], Len(g[j]) + (1 + 2 * Len(m.parts[j + 1])))
    BY <1>0, <2>1, AttachedIs
  <2> QED
    BY <1>2, <2>1, <2>2, <2>3 DEF Numbers
<1>3. 0..P \subseteq T
  <2> HIDE DEF T, P
  <2> QED
    BY <1>0, <1>1, <1>2, UpTo
<1> QED
  BY <1>0, <1>3

LEMMA TextIs ==
  ASSUME NEW m \in Frames!Messages
  PROVE  LET n == Len(m.parts) IN
         /\ n \in Nat /\ Numbers(Frames!Text(m), 1 + n) /\ At(Frames!Text(m), 1, m.kind)
         /\ \A i \in 1..n : At(Frames!Text(m), 1 + i, i - 1)
<1> DEFINE head == <<m.kind>>
           u == [i \in 1..Len(m.parts) |-> i - 1]
<1>1. PICK n \in Nat : n = Len(m.parts)
  BY MessageIs, LenProperties
<1>2. Numbers(head, 1) /\ At(head, 1, m.kind)
  <2>1. m.kind \in Nat
    BY MessageIs DEF Frames!Request, Frames!Success, Frames!Failure
  <2> QED
    BY <2>1 DEF Numbers, At
<1>3. Numbers(u, n) /\ \A i \in 1..n : At(u, i, i - 1)
  <2>1. \A i \in 1..n : i - 1 \in Nat
    OBVIOUS
  <2>2. u \in Seq(Nat) /\ Len(u) = n
    BY <1>1, <2>1, IsASeq
  <2> QED
    BY <1>1, <2>2 DEF Numbers, At
<1>4. Frames!Text(m) = head \o u
  BY DEF Frames!Text
<1> HIDE DEF head, u
<1>5. /\ Numbers(head \o u, 1 + n)
      /\ \A i, x : At(head, i, x) => At(head \o u, i, x)
      /\ \A i, j, x : At(u, i, x) /\ j = 1 + i => At(head \o u, j, x)
  BY <1>2, <1>3, Joined
<1> QED
  BY <1>1, <1>2, <1>3, <1>4, <1>5

\* The cells of a frame.
FrameOf(e, m, f) ==
  LET n == Len(m.parts)  l == Len(f[n]) IN
  /\ n \in Nat /\ l \in Nat /\ Numbers(e, 4 + n + l) /\ At(e, 1, 3 + n + l)
  /\ At(e, 2, 1 + n) /\ At(e, 3, n) /\ At(e, 4, m.kind)
  /\ \A i \in 1..n : At(e, 4 + i, i - 1)
  /\ \A i, j, x : At(f[n], i, x) /\ j = 4 + n + i => At(e, j, x)

LEMMA EncodeIs ==
  ASSUME NEW m \in Frames!Messages, NEW mask \in Bits
  PROVE  \E f : /\ Attached(f, m, mask) /\ FrameOf(Frames!Encode(m, mask), m, f)
                /\ Len(Frames!Body(m, mask)) = 3 + Len(m.parts) + Len(f[Len(m.parts)])
<1> DEFINE P == Len(m.parts)
           h == <<Len(Frames!Text(m)), Len(m.parts)>>
           t == Frames!Text(m)
<1>1. PICK f : Attached(f, m, mask) /\ Frames!Body(m, mask) = h \o t \o f[P]
  BY BodyIs
<1> DEFINE b == Frames!Body(m, mask)
           e == Frames!Encode(m, mask)
           r == f[P]
           size == <<Len(b)>>
<1>2. PICK n \in Nat : /\ n = Len(m.parts) /\ Numbers(t, 1 + n) /\ At(t, 1, m.kind)
                       /\ \A i \in 1..n : At(t, 1 + i, i - 1)
  BY TextIs
<1>3. PICK l \in Nat : l = Len(r) /\ Numbers(r, l)
  <2>1. r \in Seq(Nat)
    BY <1>1, <1>2 DEF Attached
  <2> QED
    BY <2>1, LenProperties DEF Numbers
<1>4. Numbers(h, 2) /\ At(h, 1, 1 + n) /\ At(h, 2, n)
  <2>1. Len(t) = 1 + n
    BY <1>2 DEF Numbers
  <2> QED
    BY <1>2, <2>1 DEF Numbers, At
<1> DEFINE v == h \o t
<1>5. b = v \o r /\ e = size \o b
  BY <1>1 DEF Frames!Encode
<1> HIDE DEF h, t, r, P
<1>6. /\ Numbers(v, 2 + (1 + n))
      /\ \A i, x : At(h, i, x) => At(v, i, x)
      /\ \A i, j, x : At(t, i, x) /\ j = 2 + i => At(v, j, x)
  BY <1>2, <1>4, Joined
<1> HIDE DEF v, b
<1>7. /\ Numbers(b, (2 + (1 + n)) + l)
      /\ \A i, x : At(v, i, x) => At(b, i, x)
      /\ \A i, j, x : At(r, i, x) /\ j = (2 + (1 + n)) + i => At(b, j, x)
  BY <1>3, <1>5, <1>6, Joined
<1>8. Numbers(size, 1) /\ At(size, 1, 3 + n + l) /\ Len(b) = 3 + n + l
  BY <1>7 DEF Numbers, At
<1> HIDE DEF size, e
<1>9. /\ Numbers(e, 1 + ((2 + (1 + n)) + l))
      /\ \A i, x : At(size, i, x) => At(e, i, x)
      /\ \A i, j, x : At(b, i, x) /\ j = 1 + i => At(e, j, x)
  BY <1>5, <1>7, <1>8, Joined
<1>10. 1 + ((2 + (1 + n)) + l) = 4 + n + l
  OBVIOUS
<1>11. Numbers(e, 4 + n + l) /\ At(e, 1, 3 + n + l)
  BY <1>8, <1>9, <1>10
<1>12. At(e, 2, 1 + n) /\ At(e, 3, n) /\ At(e, 4, m.kind)
  <2>1. At(b, 1, 1 + n) /\ At(b, 2, n)
    BY <1>4, <1>6, <1>7
  <2>2. At(b, 3, m.kind)
    BY <1>2, <1>6, <1>7
  <2> QED
    BY <1>9, <2>1, <2>2
<1>13. ASSUME NEW i \in 1..n PROVE At(e, 4 + i, i - 1)
  <2>1. At(t, 1 + i, i - 1)
    BY <1>2
  <2>2. 2 + (1 + i) = 3 + i /\ 1 + (3 + i) = 4 + i
    OBVIOUS
  <2>3. At(b, 3 + i, i - 1)
    BY <1>6, <1>7, <2>1, <2>2
  <2> QED
    BY <1>9, <2>2, <2>3
<1>14. ASSUME NEW i, NEW j, NEW x, At(r, i, x), j = 4 + n + i PROVE At(e, j, x)
  <2>1. i \in Nat
    BY <1>3, <1>14 DEF At, Numbers
  <2>2. PICK k \in Nat : k = (2 + (1 + n)) + i /\ j = 1 + k
    BY <1>14, <2>1
  <2>3. At(b, k, x)
    BY <1>7, <1>14, <2>2
  <2> QED
    BY <1>9, <2>2, <2>3
<1>15. FrameOf(e, m, f)
  <2>1. r = f[n]
    BY <1>2 DEF r, P
  <2> QED
    BY <1>2, <1>3, <1>11, <1>12, <1>13, <1>14, <2>1 DEF FrameOf
<1>16. Len(b) = 3 + Len(m.parts) + Len(f[Len(m.parts)])
  BY <1>2, <1>3, <1>8 DEF r, P
<1> QED
  BY <1>1, <1>15, <1>16 DEF e, b

\* Where decoding finds the end of each attachment of an encoded message.
LEMMA AttachmentEndIs ==
  ASSUME NEW m \in Frames!Messages, NEW mask \in Bits, NEW f, Attached(f, m, mask), NEW e, FrameOf(e, m, f),
         NEW n \in 0..Len(m.parts)
  PROVE  Frames!AttachmentEnd(e)[n] = 4 + Len(m.parts) + Len(f[n])
<1> DEFINE N == e[3]
           step(x, y) == IF x = 0 \/ y > Len(e) THEN 0
                         ELSE IF y + e[y] > Len(e) \/ e[y] % 2 = 1 THEN 0 ELSE y + e[y]
           g == CHOOSE end : end = [k \in 0..e[3] |-> IF k = 0 THEN Frames!TextEnd(e)
                  ELSE LET from == end[k - 1] + 1
                       IN IF end[k - 1] = 0 \/ from > Len(e) THEN 0
                          ELSE IF from + e[from] > Len(e) \/ e[from] % 2 = 1 THEN 0
                          ELSE from + e[from]]
           F == [k \in 1..N |-> [x \in Nat |-> step(x, x + 1)]]
<1>1. PICK p \in Nat, l \in Nat :
        /\ p = Len(m.parts) /\ l = Len(f[p]) /\ Numbers(e, 4 + p + l)
        /\ e[2] = 1 + p /\ e[3] = p
        /\ \A i, j, x : At(f[p], i, x) /\ j = 4 + p + i => At(e, j, x)
  BY DEF FrameOf, At
<1>2. N = p /\ Frames!TextEnd(e) = 4 + p /\ Len(e) = 4 + p + l /\ e \in Seq(Nat)
  BY <1>1 DEF Frames!TextEnd, Numbers
<1>3. ASSUME NEW x \in Nat PROVE step(x, x + 1) \in Nat
  <2>1. x + 1 <= Len(e) => e[x + 1] \in Nat
    BY <1>2, ElementOfSeq
  <2> QED
    BY <1>2, <2>1
<1>4. F \in [1..N -> [Nat -> Nat]]
  BY <1>3
<1>5. PICK h : h \in [0..N -> Nat] /\ h[0] = Frames!TextEnd(e) /\ \A k \in 1..N : h[k] = F[k][h[k - 1]]
  <2>1. Recursor(N, Nat, Frames!TextEnd(e), F)
    <3>1. N \in Nat /\ Frames!TextEnd(e) \in Nat
      BY <1>1, <1>2
    <3> HIDE DEF N, F
    <3> QED
      BY <1>4, <3>1 DEF Recursor
  <2>2. \E h : Recursive(h, N, Nat, Frames!TextEnd(e), F)
    <3> HIDE DEF N, F
    <3> QED
      BY <2>1, Recursion
  <2> HIDE DEF N, F
  <2> QED
    BY <2>2 DEF Recursive
<1>6. ASSUME NEW k \in 1..N PROVE h[k] = step(h[k - 1], h[k - 1] + 1)
  <2>1. h[k - 1] \in Nat
    <3>1. k - 1 \in 0..N
      BY <1>1, <1>2
    <3> HIDE DEF N, F
    <3> QED
      BY <1>5, <3>1
  <2> QED
    BY <1>5, <2>1
<1>7. h = [k \in 0..e[3] |-> IF k = 0 THEN Frames!TextEnd(e)
             ELSE LET from == h[k - 1] + 1
                  IN IF h[k - 1] = 0 \/ from > Len(e) THEN 0
                     ELSE IF from + e[from] > Len(e) \/ e[from] % 2 = 1 THEN 0
                     ELSE from + e[from]]
  <2>1. ASSUME NEW k \in 0..N PROVE h[k] = IF k = 0 THEN Frames!TextEnd(e) ELSE step(h[k - 1], h[k - 1] + 1)
    <3>1. k # 0 => k \in 1..N
      BY <1>1, <1>2
    <3> QED
      BY <1>5, <1>6, <3>1
  <2> QED
    BY <1>5, <2>1
<1>8. g = [k \in 0..e[3] |-> IF k = 0 THEN Frames!TextEnd(e)
             ELSE LET from == g[k - 1] + 1
                  IN IF g[k - 1] = 0 \/ from > Len(e) THEN 0
                     ELSE IF from + e[from] > Len(e) \/ e[from] % 2 = 1 THEN 0
                     ELSE from + e[from]]
  BY <1>7
<1>9. Frames!AttachmentEnd(e) = g
  BY DEF Frames!AttachmentEnd
<1> HIDE DEF g, F
<1>10. g[0] = 4 + p /\ \A k \in 1..p : g[k] = step(g[k - 1], g[k - 1] + 1)
  <2>1. 0 \in 0..e[3]
    BY <1>1
  <2>2. g[0] = 4 + p
    BY <1>2, <1>8, <2>1
  <2>3. ASSUME NEW k \in 1..p PROVE g[k] = step(g[k - 1], g[k - 1] + 1)
    <3>1. k \in 0..e[3] /\ k # 0
      BY <1>1
    <3> QED
      BY <1>8, <3>1
  <2> QED
    BY <2>2, <2>3
<1> HIDE DEF N
<1> DEFINE T == {k \in 0..p : g[k] = 4 + p + Len(f[k])}
<1>11. 0 \in T
  <2>1. Len(f[0]) = 0 /\ 0 \in 0..p
    BY <1>1 DEF Attached
  <2>2. 4 + p + Len(f[0]) = 4 + p
    BY <2>1
  <2> QED
    BY <1>10, <2>1, <2>2
<1>12. ASSUME NEW j \in 0..(p - 1), j \in T PROVE j + 1 \in T
  <2>1. j + 1 \in 1..p /\ j + 1 \in 0..p /\ (j + 1) - 1 = j /\ p \in 0..p /\ j + 1 \in 0..Len(m.parts) /\ p \in 0..Len(m.parts)
    BY <1>1
  <2>2. PICK o \in Nat, s \in Nat :
          /\ o = Len(f[j]) /\ Numbers(f[j + 1], o + (1 + 2 * s)) /\ At(f[j + 1], o + 1, 2 * s)
    <3>1. PICK k \in 1..Len(m.parts) : k = j + 1 /\ k - 1 = j
      BY <1>1, <2>1
    <3>2. PICK o \in Nat, s \in Nat :
            /\ o = Len(f[k - 1]) /\ Numbers(f[k], o + (1 + 2 * s)) /\ At(f[k], o + 1, 2 * s)
      BY AttachedIs
    <3> QED
      BY <3>1, <3>2
  <2>3. /\ Len(f[j + 1]) <= Len(f[p])
        /\ \A i, x : At(f[j + 1], i, x) => At(f[p], i, x)
    BY <1>1, <2>1, AttachedGrows
  <2>4. PICK from \in Nat : from = 4 + p + (o + 1)
    OBVIOUS
  <2>5. At(e, from, 2 * s)
    BY <1>1, <2>2, <2>3, <2>4
  <2>6. e[from] = 2 * s /\ from <= Len(e) /\ Len(f[j + 1]) = o + (1 + 2 * s)
    BY <1>2, <2>2, <2>4, <2>5 DEF At, Numbers
  <2>7. g[j] = 4 + p + o /\ g[j] + 1 = from /\ g[j] # 0
    <3>1. g[j] = 4 + p + o
      BY <1>12, <2>2
    <3>2. (4 + p + o) + 1 = from /\ 4 + p + o # 0
      BY <2>4
    <3> QED
      BY <3>1, <3>2
  <2>8. from + 2 * s = 4 + p + (o + (1 + 2 * s)) /\ from + 2 * s <= Len(e) /\ (2 * s) % 2 = 0
    <3>1. from + 2 * s = 4 + p + (o + (1 + 2 * s)) /\ (2 * s) % 2 = 0
      BY <2>4
    <3>2. o + (1 + 2 * s) <= l
      BY <1>1, <2>3, <2>6
    <3>3. from + 2 * s <= 4 + p + l
      BY <2>4, <3>2
    <3> QED
      BY <1>2, <3>1, <3>3
  <2>9. g[j + 1] = step(g[j], from)
    BY <1>10, <2>1, <2>7
  <2>10. step(g[j], from) = from + 2 * s
    <3>1. ~(from > Len(e)) /\ ~(from + e[from] > Len(e)) /\ ~(e[from] % 2 = 1)
      BY <1>2, <2>6, <2>8
    <3> QED
      BY <2>6, <2>7, <3>1
  <2> QED
    BY <2>1, <2>6, <2>8, <2>9, <2>10
<1>13. 0..p \subseteq T
  <2> HIDE DEF T
  <2> QED
    BY <1>11, <1>12, UpTo
<1> QED
  BY <1>1, <1>9, <1>13

\* Encoding gives a frame that is well formed, of the kind of the message, and as long as
\* its first number says; decoding gives back the message.
LEMMA EncodedIs ==
  ASSUME NEW m \in Frames!Messages, NEW mask \in Bits, Frames!Fits(m)
  PROVE  LET e == Frames!Encode(m, mask) IN
         /\ e \in Seq(Nat) /\ Len(e) >= 3 /\ Len(e) = e[1] + 1 /\ e[1] \in Nat /\ e[1] <= MaxBody
         /\ e[4] = m.kind /\ Frames!WellFormed(e) /\ Frames!Decode(e) = m
<1> DEFINE e == Frames!Encode(m, mask)
<1>1. PICK f : Attached(f, m, mask) /\ FrameOf(e, m, f)
               /\ Len(Frames!Body(m, mask)) = 3 + Len(m.parts) + Len(f[Len(m.parts)])
  BY EncodeIs
<1> HIDE DEF e
<1>2. PICK p \in Nat, l \in Nat :
        /\ p = Len(m.parts) /\ l = Len(f[p]) /\ Numbers(e, 4 + p + l)
        /\ e[1] = 3 + p + l /\ e[2] = 1 + p /\ e[3] = p /\ e[4] = m.kind
        /\ \A i \in 1..p : e[4 + i] = i - 1
        /\ \A i, j, x : At(f[p], i, x) /\ j = 4 + p + i => At(e, j, x)
  BY <1>1 DEF FrameOf, At
<1>3. 3 + p + l <= MaxBody
  <2>1. 0 \in Bits
    BY DEF Bits
  <2>2. PICK g : Attached(g, m, 0) /\ Len(Frames!Body(m, 0)) = 3 + Len(m.parts) + Len(g[Len(m.parts)])
    BY <2>1, EncodeIs
  <2>3. Len(f[Len(m.parts)]) = Len(g[Len(m.parts)])
    BY <1>1, <2>2, SameLength
  <2> QED
    BY <1>2, <2>2, <2>3 DEF Frames!Fits
<1>4. e \in Seq(Nat) /\ Len(e) = 4 + p + l /\ Frames!TextEnd(e) = 4 + p
  BY <1>2 DEF Numbers, Frames!TextEnd
<1>5. ASSUME NEW n \in 0..p PROVE Frames!AttachmentEnd(e)[n] = 4 + p + Len(f[n])
  <2>1. n \in 0..Len(m.parts)
    BY <1>2
  <2>2. Frames!AttachmentEnd(e)[n] = 4 + Len(m.parts) + Len(f[n])
    BY <1>1, <2>1, AttachmentEndIs
  <2> QED
    BY <1>2, <2>2
<1>6. Frames!WellFormed(e)
  <2>1. Frames!AttachmentEnd(e)[e[3]] = Len(e)
    <3>1. p \in 0..p
      OBVIOUS
    <3>2. Frames!AttachmentEnd(e)[p] = 4 + p + Len(f[p])
      BY <1>5, <3>1
    <3> QED
      BY <1>2, <1>4, <3>2
  <2>2. \A i \in 5..Frames!TextEnd(e) : e[i] < e[3]
    <3> SUFFICES ASSUME NEW i \in 5..(4 + p) PROVE e[i] < p
      BY <1>2, <1>4
    <3>1. i - 4 \in 1..p /\ 4 + (i - 4) = i
      OBVIOUS
    <3>2. e[i] = (i - 4) - 1
      BY <1>2, <3>1
    <3> QED
      BY <3>1, <3>2
  <2>3. e[4] \in {Frames!Request, Frames!Success, Frames!Failure}
    BY <1>2, MessageIs
  <2>4. /\ Len(e) >= 3 /\ e[1] <= MaxBody /\ Len(e) = e[1] + 1
        /\ Frames!TextEnd(e) <= Len(e) /\ e[2] >= 1
    <3>1. /\ 4 + p + l >= 3 /\ 4 + p + l = (3 + p + l) + 1 /\ 4 + p <= 4 + p + l /\ 1 + p >= 1
      OBVIOUS
    <3> QED
      BY <1>2, <1>3, <1>4, <3>1
  <2> QED
    BY <2>1, <2>2, <2>3, <2>4 DEF Frames!WellFormed
<1> DEFINE attachment(n) ==
             LET from == Frames!AttachmentEnd(e)[n] + 1
                 size == e[from] \div 2
             IN [i \in 1..size |-> Frames!Xor(e[from + i], e[from + size + i])]
<1>7. ASSUME NEW n \in 1..p PROVE attachment(n - 1) = m.parts[n]
  <2>1. PICK o \in Nat, s \in Nat :
          /\ o = Len(f[n - 1]) /\ s = Len(m.parts[n]) /\ m.parts[n] \in Seq(Bits)
          /\ At(f[n], o + 1, 2 * s)
          /\ \A i \in 1..s : /\ At(f[n], o + (1 + i), mask)
                             /\ At(f[n], o + (1 + s + i), Frames!Xor(m.parts[n][i], mask))
    BY <1>1, <1>2, AttachedIs
  <2>2. \A i, x : At(f[n], i, x) => At(f[p], i, x)
    <3>1. p \in 0..Len(m.parts) /\ n \in 0..p
      BY <1>2
    <3> QED
      BY <1>1, <3>1, AttachedGrows
  <2>3. PICK from \in Nat : from = 4 + p + (o + 1)
    OBVIOUS
  <2>4. Frames!AttachmentEnd(e)[n - 1] + 1 = from
    <3>1. n - 1 \in 0..p
      OBVIOUS
    <3>2. Frames!AttachmentEnd(e)[n - 1] = 4 + p + o
      BY <1>5, <2>1, <3>1
    <3> QED
      BY <2>3, <3>2
  <2>5. e[from] = 2 * s
    <3>1. At(e, from, 2 * s)
      BY <1>2, <2>1, <2>2, <2>3
    <3> QED
      BY <3>1 DEF At
  <2>6. (2 * s) \div 2 = s
    OBVIOUS
  <2>7. ASSUME NEW i \in 1..s PROVE Frames!Xor(e[from + i], e[from + s + i]) = m.parts[n][i]
    <3>1. At(f[p], o + (1 + i), mask) /\ At(f[p], o + (1 + s + i), Frames!Xor(m.parts[n][i], mask))
      BY <2>1, <2>2
    <3>2. from + i = 4 + p + (o + (1 + i)) /\ from + s + i = 4 + p + (o + (1 + s + i))
      BY <2>3
    <3>3. At(e, from + i, mask) /\ At(e, from + s + i, Frames!Xor(m.parts[n][i], mask))
      BY <1>2, <3>1, <3>2
    <3>4. m.parts[n][i] \in Bits
      BY <2>1, ElementOfSeq
    <3> QED
      BY <3>3, <3>4, XorIs DEF At
  <2>8. attachment(n - 1) = [i \in 1..s |-> Frames!Xor(e[from + i], e[from + s + i])]
    BY <2>4, <2>5, <2>6
  <2>9. [i \in 1..s |-> Frames!Xor(e[from + i], e[from + s + i])] = [i \in 1..s |-> m.parts[n][i]]
    BY <2>7
  <2>10. [i \in 1..s |-> m.parts[n][i]] = m.parts[n]
    BY <2>1, LenProperties
  <2> QED
    BY <2>8, <2>9, <2>10
<1>8. Frames!Decode(e) = m
  <2>1. Frames!Decode(e) = [kind |-> e[4], parts |-> [i \in 1..e[2] - 1 |-> attachment(e[4 + i])]]
    BY DEF Frames!Decode
  <2> HIDE DEF attachment
  <2>2. ASSUME NEW i \in 1..p PROVE attachment(e[4 + i]) = m.parts[i]
    BY <1>2, <1>7
  <2>3. e[2] - 1 = p
    BY <1>2
  <2>4. [i \in 1..e[2] - 1 |-> attachment(e[4 + i])] = [i \in 1..p |-> m.parts[i]]
    BY <2>2, <2>3
  <2>5. [i \in 1..p |-> m.parts[i]] = m.parts
    BY <1>2, MessageIs, LenProperties
  <2> QED
    BY <1>2, <2>1, <2>4, <2>5, MessageIs
<1>9. e \in Seq(Nat) /\ Len(e) >= 3 /\ Len(e) = e[1] + 1 /\ e[1] \in Nat /\ e[1] <= MaxBody
  <2>1. 3 + p + l \in Nat /\ (3 + p + l) + 1 = 4 + p + l /\ 4 + p + l >= 3
    OBVIOUS
  <2> QED
    BY <1>2, <1>3, <1>4, <2>1
<1> QED
  BY <1>2, <1>6, <1>8, <1>9 DEF e
-----------------------------------------------------------------------------
(* What a peer sends and a client makes of it.                              *)

\* Encoding and decoding give back every message that fits, whatever the mask
\* (encodeVaultIpcMessage, decodeVaultIpcFrame).
THEOREM MessagesSurvive == Frames!RoundTrip
<1> SUFFICES ASSUME NEW m \in Frames!Messages, NEW mask \in {0, 1}, Frames!Fits(m)
             PROVE  Frames!WellFormed(Frames!Encode(m, mask)) /\ Frames!Decode(Frames!Encode(m, mask)) = m
  BY DEF Frames!RoundTrip
<1>1. mask \in Bits
  BY DEF Bits
<1> QED
  BY <1>1, EncodedIs

\* The frame of a message that a peer may send.
Whole(s) ==
  \E m \in Frames!Messages, mask \in Bits :
    m.kind # Frames!Request /\ Frames!Fits(m) /\ s = Frames!Encode(m, mask)

LEMMA WholeIs ==
  ASSUME NEW s, Whole(s)
  PROVE  /\ s \in Seq(Nat) /\ Len(s) >= 3 /\ Len(s) = s[1] + 1 /\ s[1] \in Nat /\ s[1] <= MaxBody
         /\ s[4] # Frames!Request /\ Frames!WellFormed(s) /\ Frames!Decode(s) \in Frames!Messages
         /\ \E mask \in {0, 1} : s = Frames!Encode(Frames!Decode(s), mask)
<1>1. PICK m \in Frames!Messages, mask \in Bits :
        m.kind # Frames!Request /\ Frames!Fits(m) /\ s = Frames!Encode(m, mask)
  BY DEF Whole
<1>2. /\ s \in Seq(Nat) /\ Len(s) >= 3 /\ Len(s) = s[1] + 1 /\ s[1] \in Nat /\ s[1] <= MaxBody
      /\ s[4] = m.kind /\ Frames!WellFormed(s) /\ Frames!Decode(s) = m
  BY <1>1, EncodedIs
<1>3. mask \in {0, 1}
  BY DEF Bits
<1> QED
  BY <1>1, <1>2, <1>3

\* No part of a frame and no more than a frame is one.
LEMMA WholeOnly ==
  ASSUME NEW s, s = <<>> \/ s = Frames!Signature \/ Whole(s)
  PROVE  Frames!OnlyWhole(s)
<1>0. Frames!Signature \in Seq(Nat) /\ Len(Frames!Signature) = 2 /\ Frames!Signature[1] = 7
  BY DEF Frames!Signature
<1>1. s \in Seq(Nat) /\ Len(s) \in Nat
  <2>1. s \in Seq(Nat)
    BY <1>0, WholeIs, EmptySeq
  <2> QED
    BY <2>1
<1>2. ASSUME NEW n \in 0..(Len(s) - 1) PROVE ~Frames!WellFormed(SubSeq(s, 1, n))
  <2> DEFINE t == SubSeq(s, 1, n)
  <2>1. Len(t) = n /\ (n >= 1 => t[1] = s[1])
    BY <1>1
  <2> HIDE DEF t
  <2>2. n < 3 \/ n # s[1] + 1
    <3>1. CASE Whole(s)
      BY <1>1, <3>1, WholeIs
    <3>2. CASE s = <<>> \/ s = Frames!Signature
      <4>0. CASE s = <<>>
        BY <1>1, <4>0, EmptySeq
      <4>1. CASE s = Frames!Signature
        <5>1. Len(s) = 2
          BY <1>0, <4>1
        <5>2. n < 3
          BY <5>1
        <5> QED
          BY <5>2
      <4> QED
        BY <3>2, <4>0, <4>1
    <3> QED
      BY <3>1, <3>2
  <2> QED
    BY <2>1, <2>2 DEF Frames!WellFormed, t
<1>3. ~Frames!WellFormed(Append(s, 0))
  <2> DEFINE t == Append(s, 0)
  <2>1. Len(t) = Len(s) + 1 /\ (Len(s) >= 1 => t[1] = s[1])
    BY <1>1
  <2> HIDE DEF t
  <2>2. CASE Whole(s)
    <3>1. Len(s) = s[1] + 1 /\ s[1] \in Nat /\ Len(s) >= 1
      BY <1>1, <2>2, WholeIs
    <3> QED
      BY <2>1, <3>1 DEF Frames!WellFormed, t
  <2>3. CASE s = <<>>
    <3>1. Len(s) = 0
      BY <2>3
    <3> QED
      BY <2>1, <3>1 DEF Frames!WellFormed, t
  <2>4. CASE s = Frames!Signature
    <3>1. Len(s) = 2 /\ s[1] = 7
      BY <1>0, <2>4
    <3> QED
      BY <2>1, <3>1 DEF Frames!WellFormed, t
  <2> QED
    BY <2>2, <2>3, <2>4
<1> QED
  BY <1>2, <1>3 DEF Frames!OnlyWhole

\* The failure a peer sends when it has nothing else to say.
Fail == [kind |-> Frames!Failure, parts |-> <<>>]

LEMMA FailIs ==
  ASSUME NEW mask \in Bits
  PROVE  Whole(Frames!Encode(Fail, mask)) /\ Frames!Encode(Fail, mask)[1] = 3
<1>1. Fail \in Frames!Messages
  <2>1. <<>> \in [1..0 -> Secrets]
    OBVIOUS
  <2>2. [1..0 -> Secrets] \in {[1..n -> Secrets] : n \in 0..MaxParts}
    BY FramesAssumption DEF Frames!MessagesAssumption
  <2>3. <<>> \in UNION {[1..n -> Secrets] : n \in 0..MaxParts}
    BY <2>1, <2>2
  <2> QED
    BY <2>3 DEF Fail, Frames!Messages
<1>2. Fail.parts = <<>> /\ Len(Fail.parts) = 0 /\ Fail.kind # Frames!Request
  BY DEF Fail, Frames!Failure, Frames!Request
<1> HIDE DEF Fail
<1>3. 0 \in Bits
  BY DEF Bits
<1>4. PICK f : Attached(f, Fail, 0) /\ Len(Frames!Body(Fail, 0)) = 3 + Len(Fail.parts) + Len(f[Len(Fail.parts)])
  BY <1>1, <1>3, EncodeIs
<1>5. Len(Frames!Body(Fail, 0)) = 3
  <2>1. f[0] = <<>> /\ Len(f[0]) = 0
    BY <1>4 DEF Attached
  <2>2. Len(f[Len(Fail.parts)]) = 0
    BY <1>2, <2>1
  <2>3. 3 + Len(Fail.parts) + Len(f[Len(Fail.parts)]) = 3
    BY <1>2, <2>2
  <2> QED
    BY <1>4, <2>3
<1>6. Frames!Fits(Fail)
  BY <1>5, FramesAssumption DEF Frames!Fits, Frames!MessagesAssumption
<1>7. PICK g : Attached(g, Fail, mask) /\ FrameOf(Frames!Encode(Fail, mask), Fail, g)
  BY <1>1, EncodeIs
<1>8. At(Frames!Encode(Fail, mask), 1, 3)
  <2>1. g[0] = <<>> /\ Len(g[0]) = 0
    BY <1>7 DEF Attached
  <2>2. At(Frames!Encode(Fail, mask), 1, 3 + Len(Fail.parts) + Len(g[Len(Fail.parts)]))
    BY <1>7 DEF FrameOf
  <2> QED
    BY <1>2, <2>1, <2>2
<1> QED
  BY <1>1, <1>2, <1>6, <1>8 DEF Whole, At
-----------------------------------------------------------------------------
(* The invariant of one client and its peer: what the client has read and   *)
(* what it has not is the beginning of what the peer has sent.               *)

Points == {"connect", "verify", "challenge", "exchange", "settled", "stranded", "ended"}
Opened == {"connect", "verify", "challenge", "exchange"}
Writes == {"no", "pending", "yes", "failed"}
Endings == {"answered", "trusted", "truncated", "closed", "unavailable", "peer verification failed"}

Clients == [kind : Frames!Kinds, at : Points, written : Writes,
            frame : Seq(Nat), message : Frames!Messages, outcome : Frames!Outcomes]

\* The worker hears a signature or a failure, and nobody else a signature.
SaidRight(c, s) ==
  /\ s = <<>> \/ s = Frames!Signature \/ Whole(s)
  /\ s = Frames!Signature => c.kind = "worker"
  /\ c.kind = "worker" /\ Whole(s) => s[1] = 3

Stands(c, s, e) ==
  /\ c.at = "challenge" => c.kind = "worker"
  /\ c.at \in {"exchange", "settled"} => c.kind = "request"
  /\ c.at \in Opened \cup {"stranded"} => c.outcome = "none"
  /\ c.at = "settled" =>
       /\ c.outcome \in {"none", "truncated", "closed"}
       /\ c.outcome = "none" => Whole(s) /\ c.frame = s
  /\ c.at = "ended" =>
       /\ c.outcome \in Endings
       /\ c.outcome = "answered" => Whole(s) /\ c.message = Frames!Decode(s)
       /\ c.outcome = "trusted" /\ c.kind = "worker" => s = Frames!Signature
  /\ c.outcome = "truncated" => e

Begins(read, s) == \E rest \in Seq(Nat) : s = read \o rest

Arriving(c, read, s) == c.at \in Opened => Begins(read, s)

Held(c, k, h) ==
  /\ "request" \in h => c.written = "pending"
  /\ c.at = "ended" =>
       /\ k = "destroyed" /\ h \subseteq {"request", "message"}
       /\ "message" \in h => c.outcome = "answered"

FramesInv ==
  /\ client \in Clients
  /\ stream \in Seq(Nat) /\ chunks \in Seq(Nat) /\ ended \in BOOLEAN
  /\ SaidRight(client, said)
  /\ Stands(client, said, ended)
  /\ Arriving(client, chunks \o stream, said)
  /\ Held(client, socket, held)

LEMMA SaidTyped ==
  ASSUME NEW c, NEW s, SaidRight(c, s)
  PROVE  s \in Seq(Nat)
<1>1. Frames!Signature \in Seq(Nat)
  BY DEF Frames!Signature
<1> QED
  BY <1>1, WholeIs, EmptySeq DEF SaidRight

\* What begins with something and then with more begins with the former; a part of it is
\* no longer, and begins with the same cell.
LEMMA Beginning ==
  ASSUME NEW a \in Seq(Nat), NEW b \in Seq(Nat), NEW s \in Seq(Nat), Begins(a \o b, s)
  PROVE  /\ Begins(a, s) /\ Len(a) <= Len(s)
         /\ Len(a) >= 1 => a[1] = s[1]
         /\ Len(a) = Len(s) => a = s
         /\ s = <<>> => a = <<>> /\ b = <<>>
<1>1. PICK r \in Seq(Nat) : s = (a \o b) \o r
  BY DEF Begins
<1>2. (a \o b) \o r = a \o (b \o r) /\ b \o r \in Seq(Nat)
  <2>1. (a \o b) \o r = a \o (b \o r)
    BY ONLY a \in Seq(Nat), b \in Seq(Nat), r \in Seq(Nat), ConcatAssociative
  <2>2. b \o r \in Seq(Nat)
    OBVIOUS
  <2> QED
    BY <2>1, <2>2
<1> DEFINE t == b \o r
<1>3. s = a \o t /\ t \in Seq(Nat)
  BY <1>1, <1>2
<1>4. Begins(a, s)
  BY <1>3 DEF Begins
<1>5. Len(t) = Len(b) + Len(r) /\ Len(b) \in Nat /\ Len(r) \in Nat
  OBVIOUS
<1> HIDE DEF t
<1>6. Len(s) = Len(a) + Len(t) /\ Len(a) \in Nat /\ Len(t) \in Nat
  BY <1>3
<1>7. ASSUME NEW i \in 1..Len(a) PROVE a[i] = s[i]
  BY <1>3, <1>6
<1>8. Len(a) >= 1 => a[1] = s[1]
  BY <1>6, <1>7
<1>9. Len(a) = Len(s) => a = s
  BY <1>7, SeqEqual
<1>10. s = <<>> => a = <<>> /\ b = <<>>
  <2>1. ASSUME s = <<>> PROVE Len(a) = 0 /\ Len(b) = 0
    BY <1>5, <1>6, <2>1
  <2> QED
    BY <2>1, EmptySeq
<1> QED
  BY <1>4, <1>6, <1>8, <1>9, <1>10

\* The two parts of a sequence, and the sequence made of two parts.
LEMMA Cut ==
  ASSUME NEW b \in Seq(Nat), NEW n \in Nat, n <= Len(b)
  PROVE  /\ SubSeq(b, 1, n) \in Seq(Nat) /\ n = Len(SubSeq(b, 1, n))
         /\ SubSeq(b, n + 1, Len(b)) \in Seq(Nat) /\ Len(b) = n + Len(SubSeq(b, n + 1, Len(b)))
         /\ \A i \in 1..n : SubSeq(b, 1, n)[i] = b[i]
         /\ \A i \in 1..(Len(b) - n) : SubSeq(b, n + 1, Len(b))[i] = b[n + i]
<1>1. SubSeq(b, 1, n) \in Seq(Nat) /\ Len(SubSeq(b, 1, n)) = n /\ \A i \in 1..n : SubSeq(b, 1, n)[i] = b[i]
  OBVIOUS
<1>2. /\ SubSeq(b, n + 1, Len(b)) \in Seq(Nat) /\ Len(SubSeq(b, n + 1, Len(b))) = Len(b) - n
      /\ \A i \in 1..(Len(b) - n) : SubSeq(b, n + 1, Len(b))[i] = b[n + i]
  OBVIOUS
<1> QED
  BY <1>1, <1>2

LEMMA Joint ==
  ASSUME NEW x \in Seq(Nat), NEW y \in Seq(Nat), NEW b \in Seq(Nat), Len(b) = Len(x) + Len(y),
         \A i \in 1..Len(x) : x[i] = b[i],
         \A i \in 1..Len(y) : y[i] = b[Len(x) + i]
  PROVE  x \o y = b
<1>1. x \o y \in Seq(Nat) /\ Len(x \o y) = Len(x) + Len(y) /\ Len(x) \in Nat /\ Len(y) \in Nat
      /\ \A i \in 1..(Len(x) + Len(y)) : (x \o y)[i] = IF i <= Len(x) THEN x[i] ELSE y[i - Len(x)]
  OBVIOUS
<1>2. ASSUME NEW i \in 1..(Len(x) + Len(y)) PROVE (x \o y)[i] = b[i]
  <2>1. CASE i <= Len(x)
    BY <1>1, <2>1
  <2>2. CASE i > Len(x)
    <3>1. i - Len(x) \in 1..Len(y) /\ Len(x) + (i - Len(x)) = i
      BY <1>1, <2>2
    <3> QED
      BY <1>1, <2>2, <3>1
  <2> QED
    BY <1>1, <2>1, <2>2
<1> QED
  BY <1>1, <1>2, SeqEqual

\* To read moves the beginning of the wire behind what was read.
LEMMA ReadOn ==
  ASSUME NEW a \in Seq(Nat), NEW b \in Seq(Nat), NEW n \in Nat, n <= Len(b)
  PROVE  /\ SubSeq(b, 1, n) \in Seq(Nat) /\ SubSeq(b, n + 1, Len(b)) \in Seq(Nat)
         /\ n = Len(SubSeq(b, 1, n)) /\ a \o SubSeq(b, 1, n) \in Seq(Nat)
         /\ SubSeq(b, 1, n) \o SubSeq(b, n + 1, Len(b)) = b
         /\ (a \o SubSeq(b, 1, n)) \o SubSeq(b, n + 1, Len(b)) = a \o b
<1> DEFINE x == SubSeq(b, 1, n)
           y == SubSeq(b, n + 1, Len(b))
<1>1. /\ x \in Seq(Nat) /\ n = Len(x) /\ y \in Seq(Nat) /\ Len(b) = n + Len(y)
      /\ (\A i \in 1..n : x[i] = b[i]) /\ (\A i \in 1..(Len(b) - n) : y[i] = b[n + i])
  BY Cut
<1> HIDE DEF x, y
<1>2. Len(b) = Len(x) + Len(y) /\ \A i \in 1..Len(x) : x[i] = b[i]
  BY <1>1
<1>3. \A i \in 1..Len(y) : y[i] = b[Len(x) + i]
  BY <1>1
<1>4. x \in Seq(Nat) /\ y \in Seq(Nat)
  BY <1>1
<1>5. x \o y = b
  BY <1>2, <1>3, <1>4, Joint
<1>6. a \o x \in Seq(Nat) /\ (a \o x) \o y = a \o (x \o y)
  <2>1. (a \o x) \o y = a \o (x \o y)
    BY ONLY a \in Seq(Nat), <1>4, ConcatAssociative
  <2>2. a \o x \in Seq(Nat)
    BY <1>4
  <2> QED
    BY <2>1, <2>2
<1> QED
  BY <1>1, <1>4, <1>5, <1>6 DEF x, y
-----------------------------------------------------------------------------
(* The steps.                                                               *)

LEMMA ClientFields ==
  ASSUME NEW c \in Clients
  PROVE  /\ c.kind \in Frames!Kinds /\ c.at \in Points /\ c.written \in Writes
         /\ c.frame \in Seq(Nat) /\ c.message \in Frames!Messages /\ c.outcome \in Frames!Outcomes
  BY DEF Clients

LEMMA Becomes ==
  ASSUME client \in Clients, NEW a \in Points, NEW w \in Writes,
         client' = [client EXCEPT !.at = a, !.written = w]
  PROVE  /\ client' \in Clients /\ client'.at = a /\ client'.written = w
         /\ client'.kind = client.kind /\ client'.frame = client.frame
         /\ client'.message = client.message /\ client'.outcome = client.outcome
  BY DEF Clients

LEMMA Settles ==
  ASSUME client \in Clients, NEW code \in Frames!Outcomes, NEW frame \in Seq(Nat), Frames!Settle(code, frame)
  PROVE  /\ client' \in Clients /\ client'.at = "settled" /\ client'.outcome = code /\ client'.frame = frame
         /\ client'.kind = client.kind /\ client'.written = client.written
         /\ chunks' = <<>> /\ held' \subseteq held \cup {"frame"}
<1>1. client' = [client EXCEPT !.at = "settled", !.outcome = code, !.frame = frame]
  BY DEF Frames!Settle
<1>2. "settled" \in Points
  BY DEF Points
<1>3. /\ client' \in Clients /\ client'.at = "settled" /\ client'.outcome = code /\ client'.frame = frame
      /\ client'.kind = client.kind /\ client'.written = client.written
  BY <1>1, <1>2 DEF Clients
<1> QED
  BY <1>3 DEF Frames!Settle

LEMMA EndsWith ==
  ASSUME client \in Clients, NEW code \in Frames!Outcomes, Frames!EndWith(code)
  PROVE  /\ client' \in Clients /\ client'.at = "ended" /\ client'.outcome = Frames!Outcome(code)
         /\ client'.kind = client.kind /\ client'.written = client.written
         /\ socket' = "destroyed" /\ chunks' = <<>> /\ held' = held \cap {"request"}
<1>1. client' = [client EXCEPT !.at = "ended", !.outcome = Frames!Outcome(code), !.frame = <<>>]
  BY DEF Frames!EndWith
<1>2. Frames!Outcome(code) \in Frames!Outcomes
  BY DEF Frames!Outcome, Frames!Outcomes
<1>3. "ended" \in Points /\ <<>> \in Seq(Nat)
  BY EmptySeq DEF Points
<1>4. /\ client' \in Clients /\ client'.at = "ended" /\ client'.outcome = Frames!Outcome(code)
      /\ client'.kind = client.kind /\ client'.written = client.written
  BY <1>1, <1>2, <1>3 DEF Clients
<1> QED
  BY <1>4 DEF Frames!EndWith

\* A client may end with any failure but a broken message, which only the worker passes
\* on, as a failed check of its peer.
LEMMA ClientEnds ==
  ASSUME FramesInv, NEW code \in Frames!Outcomes \ {"none", "answered"}, Frames!EndWith(code),
         client.kind # "worker" => code \in Endings,
         code = "truncated" => ended,
         code = "trusted" /\ client.kind = "worker" => said = Frames!Signature,
         stream' \in Seq(Nat), UNCHANGED <<ended, said>>
  PROVE  FramesInv'
<1>1. client \in Clients /\ code \in Frames!Outcomes
  BY DEF FramesInv
<1>2. /\ client' \in Clients /\ client'.at = "ended" /\ client'.outcome = Frames!Outcome(code)
      /\ client'.kind = client.kind /\ client'.written = client.written
      /\ socket' = "destroyed" /\ chunks' = <<>> /\ held' = held \cap {"request"}
  BY <1>1, EndsWith
<1>3. SaidRight(client, said)'
  BY <1>2 DEF FramesInv, SaidRight
<1>4. client'.outcome \in Endings /\ client'.outcome # "answered"
  BY <1>2 DEF Frames!Outcome, Endings
<1>5. client'.outcome = "truncated" => ended
  BY <1>2 DEF Frames!Outcome
<1>6. client'.outcome = "trusted" /\ client'.kind = "worker" => said = Frames!Signature
  BY <1>2 DEF Frames!Outcome
<1>7. Stands(client, said, ended)'
  BY <1>2, <1>4, <1>5, <1>6 DEF Stands, Opened
<1>8. Arriving(client, chunks \o stream, said)'
  BY <1>2 DEF Arriving, Opened
<1>9. Held(client, socket, held)'
  BY <1>2 DEF FramesInv, Held
<1> QED
  BY <1>2, <1>3, <1>7, <1>8, <1>9, EmptySeq DEF FramesInv

LEMMA WholeNotSignature ==
  ASSUME NEW s, Whole(s)
  PROVE  s # Frames!Signature /\ s # <<>>
<1>1. Len(s) >= 3
  BY WholeIs
<1>2. ASSUME s = Frames!Signature PROVE FALSE
  <2>1. Len(s) = 2
    BY <1>2 DEF Frames!Signature
  <2> QED
    BY <1>1, <2>1
<1>3. ASSUME s = <<>> PROVE FALSE
  <2>1. Len(s) = 0
    BY <1>3
  <2> QED
    BY <1>1, <2>1
<1> QED
  BY <1>2, <1>3

LEMMA OpeningStep ==
  ASSUME FramesInv, Frames!Connect \/ Frames!Verify \/ Frames!RequestWritten
  PROVE  FramesInv'
<1>1. client \in Clients
  BY DEF FramesInv
<1>2. CASE Frames!Connect
  <2>1. CASE Frames!EndWith("unavailable")
    BY <1>2, <2>1, ClientEnds DEF Frames!Connect, FramesInv, Frames!Outcomes, Endings
  <2>2. CASE client' = [client EXCEPT !.at = "verify"] /\ UNCHANGED <<chunks, held>>
    <3>1. "verify" \in Points /\ client.written \in Writes
      BY <1>1, ClientFields DEF Points
    <3>2. client' = [client EXCEPT !.at = "verify", !.written = client.written]
      BY <1>1, <2>2 DEF Clients
    <3>3. /\ client' \in Clients /\ client'.at = "verify" /\ client'.written = client.written
          /\ client'.kind = client.kind /\ client'.frame = client.frame
          /\ client'.message = client.message /\ client'.outcome = client.outcome
      BY <1>1, <3>1, <3>2, Becomes
    <3> QED
      BY <1>2, <2>2, <3>3 DEF Frames!Connect, FramesInv, SaidRight, Stands, Arriving, Opened, Held
  <2> QED
    BY <1>2, <2>1, <2>2 DEF Frames!Connect
<1>3. CASE Frames!Verify
  <2>1. CASE Frames!EndWith("peer verification failed")
    BY <1>3, <2>1, ClientEnds DEF Frames!Verify, FramesInv, Frames!Outcomes, Endings
  <2>2. CASE client.kind = "inspect" /\ (Frames!EndWith("trusted") \/ Frames!EndWith("unavailable"))
    <3>1. client.kind # "worker"
      BY <2>2
    <3>2. {"trusted", "unavailable"} \subseteq Frames!Outcomes \ {"none", "answered"} /\ {"trusted", "unavailable"} \subseteq Endings
      BY DEF Frames!Outcomes, Endings
    <3>3. stream' \in Seq(Nat) /\ UNCHANGED <<ended, said>>
      BY <1>3 DEF Frames!Verify, FramesInv
    <3>4. CASE Frames!EndWith("trusted")
      BY <3>1, <3>2, <3>3, <3>4, ClientEnds
    <3>5. CASE Frames!EndWith("unavailable")
      BY <3>1, <3>2, <3>3, <3>5, ClientEnds
    <3> QED
      BY <2>2, <3>4, <3>5
  <2>3. CASE client.kind = "request" /\ client' = [client EXCEPT !.at = "exchange", !.written = "pending"]
             /\ held' = {"request"} /\ UNCHANGED <<socket, chunks>>
    <3>1. "exchange" \in Points /\ "pending" \in Writes
      BY DEF Points, Writes
    <3>2. /\ client' \in Clients /\ client'.at = "exchange" /\ client'.written = "pending"
          /\ client'.kind = client.kind /\ client'.frame = client.frame
          /\ client'.message = client.message /\ client'.outcome = client.outcome
      BY <1>1, <2>3, <3>1, Becomes
    <3> QED
      BY <1>3, <2>3, <3>2 DEF Frames!Verify, FramesInv, SaidRight, Stands, Arriving, Opened, Held
  <2>4. CASE client.kind = "worker" /\ client' = [client EXCEPT !.at = "challenge"]
             /\ UNCHANGED <<socket, chunks, held>>
    <3>1. "challenge" \in Points /\ client.written \in Writes
      BY <1>1, ClientFields DEF Points
    <3>2. client' = [client EXCEPT !.at = "challenge", !.written = client.written]
      BY <1>1, <2>4 DEF Clients
    <3>3. /\ client' \in Clients /\ client'.at = "challenge" /\ client'.written = client.written
          /\ client'.kind = client.kind /\ client'.frame = client.frame
          /\ client'.message = client.message /\ client'.outcome = client.outcome
      BY <1>1, <3>1, <3>2, Becomes
    <3> QED
      BY <1>3, <2>4, <3>3 DEF Frames!Verify, FramesInv, SaidRight, Stands, Arriving, Opened, Held
  <2>5. CASE client.kind = "request" /\ client' = [client EXCEPT !.at = "stranded"]
             /\ UNCHANGED <<socket, chunks, held>>
    <3>1. "stranded" \in Points /\ client.written \in Writes
      BY <1>1, ClientFields DEF Points
    <3>2. client' = [client EXCEPT !.at = "stranded", !.written = client.written]
      BY <1>1, <2>5 DEF Clients
    <3>3. /\ client' \in Clients /\ client'.at = "stranded" /\ client'.written = client.written
          /\ client'.kind = client.kind /\ client'.frame = client.frame
          /\ client'.message = client.message /\ client'.outcome = client.outcome
      BY <1>1, <3>1, <3>2, Becomes
    <3> QED
      BY <1>3, <2>5, <3>3 DEF Frames!Verify, FramesInv, SaidRight, Stands, Arriving, Opened, Held
  <2> QED
    BY <1>3, <2>1, <2>2, <2>3, <2>4, <2>5 DEF Frames!Verify
<1>4. CASE Frames!RequestWritten
  <2>1. PICK w \in {"yes", "failed"} : client' = [client EXCEPT !.written = w]
    BY <1>4 DEF Frames!RequestWritten
  <2>2. w \in Writes /\ client.at \in Points
    BY <1>1, ClientFields DEF Writes
  <2>3. client' = [client EXCEPT !.at = client.at, !.written = w]
    BY <1>1, <2>1 DEF Clients
  <2>4. /\ client' \in Clients /\ client'.at = client.at /\ client'.written = w
        /\ client'.kind = client.kind /\ client'.frame = client.frame
        /\ client'.message = client.message /\ client'.outcome = client.outcome
    BY <1>1, <2>2, <2>3, Becomes
  <2>5. "request" \notin held' /\ held' \subseteq held
    BY <1>4 DEF Frames!RequestWritten
  <2> QED
    BY <1>4, <2>4, <2>5 DEF Frames!RequestWritten, FramesInv, SaidRight, Stands, Arriving, Held
<1> QED
  BY <1>2, <1>3, <1>4

\* What a client has read with n more cells, and what it makes of it: it is part of what the
\* peer said, or all of it.
LEMMA ChunkIs ==
  ASSUME FramesInv, client.at \in Opened, NEW n \in Nat, n >= 1, n <= Len(stream)
  PROVE  LET bytes == chunks \o SubSeq(stream, 1, n) IN
         /\ bytes \in Seq(Nat) /\ SubSeq(stream, n + 1, Len(stream)) \in Seq(Nat)
         /\ Begins(bytes \o SubSeq(stream, n + 1, Len(stream)), said)
         /\ Len(bytes) >= 1 /\ Len(bytes) <= Len(said) /\ bytes[1] = said[1]
         /\ Len(bytes) = Len(said) => bytes = said
         /\ said # <<>>
<1> DEFINE x == SubSeq(stream, 1, n)
           y == SubSeq(stream, n + 1, Len(stream))
           bytes == chunks \o x
<1>1. chunks \in Seq(Nat) /\ stream \in Seq(Nat) /\ said \in Seq(Nat) /\ Begins(chunks \o stream, said)
  BY SaidTyped DEF FramesInv, Arriving
<1>2. /\ x \in Seq(Nat) /\ y \in Seq(Nat) /\ n = Len(x) /\ bytes \in Seq(Nat) /\ bytes \o y = chunks \o stream
  BY <1>1, ReadOn
<1>3. Len(bytes) = Len(chunks) + Len(x) /\ Len(chunks) \in Nat
  BY <1>1, <1>2
<1> HIDE DEF x, y, bytes
<1>4. Begins(bytes \o y, said)
  BY <1>1, <1>2
<1>5. /\ Len(bytes) <= Len(said)
      /\ Len(bytes) >= 1 => bytes[1] = said[1]
      /\ Len(bytes) = Len(said) => bytes = said
  BY <1>1, <1>2, <1>4, Beginning
<1>6. Len(bytes) >= 1
  BY <1>2, <1>3
<1>7. said # <<>>
  <2>1. ASSUME said = <<>> PROVE FALSE
    <3>1. Len(said) = 0
      BY <2>1
    <3> QED
      BY <1>5, <1>6, <3>1
  <2> QED
    BY <2>1
<1> QED
  BY <1>2, <1>4, <1>5, <1>6, <1>7 DEF x, y, bytes

LEMMA ReadStep ==
  ASSUME FramesInv, Frames!Read
  PROVE  FramesInv'
<1>1. client \in Clients /\ client.at = "exchange" /\ client.at \in Opened /\ client.kind = "request"
  BY DEF FramesInv, Frames!Read, Stands, Opened
<1>2. stream \in Seq(Nat) /\ Len(stream) \in Nat
  BY DEF FramesInv
<1> DEFINE bytes(n) == chunks \o SubSeq(stream, 1, n)
<1>3. PICK n \in 1..Len(stream) :
        /\ stream' = SubSeq(stream, n + 1, Len(stream))
        /\ \/ Frames!TooLarge(bytes(n)) /\ Frames!Settle("too large", <<>>) /\ socket' = "destroyed"
           \/ /\ ~Frames!TooLarge(bytes(n))
              /\ IF Frames!Complete(bytes(n)) THEN Frames!Settle("none", Frames!First(bytes(n)))
                 ELSE chunks' = bytes(n) /\ held' = held \cup {"chunks"} /\ UNCHANGED client
              /\ UNCHANGED socket
  BY DEF Frames!Read
<1>4. n \in Nat /\ n >= 1 /\ n <= Len(stream)
  BY <1>2
<1>5. PICK b : b = bytes(n)
  OBVIOUS
<1>6. /\ b \in Seq(Nat) /\ stream' \in Seq(Nat) /\ Begins(b \o stream', said)
      /\ Len(b) >= 1 /\ Len(b) <= Len(said) /\ b[1] = said[1]
      /\ Len(b) = Len(said) => b = said
      /\ said # <<>>
  BY <1>1, <1>3, <1>4, <1>5, ChunkIs
<1> HIDE DEF bytes
<1>7. Whole(said)
  BY <1>1, <1>6 DEF FramesInv, SaidRight
<1>8. PICK l \in Nat, f \in Nat : l = Len(said) /\ f = said[1] /\ l = f + 1 /\ f <= MaxBody
  BY <1>7, WholeIs
<1>9. PICK k \in Nat : k = Len(b)
  BY <1>6
<1>10. MaxBody \in Nat
  BY FramesAssumption DEF Frames!MessagesAssumption
<1>11. ~Frames!TooLarge(b)
  <2>1. ~(k > MaxBody + 1) /\ ~(f > MaxBody)
    BY <1>6, <1>8, <1>9, <1>10
  <2> QED
    BY <1>6, <1>8, <1>9, <2>1 DEF Frames!TooLarge
<1>12. UNCHANGED <<ended, said>>
  BY DEF Frames!Read
<1>13. CASE Frames!Complete(b)
  <2>1. k = l
    <3>1. k >= f + 1
      BY <1>6, <1>8, <1>9, <1>13 DEF Frames!Complete
    <3> QED
      BY <1>6, <1>8, <1>9, <3>1
  <2>2. b = said
    BY <1>6, <1>8, <1>9, <2>1
  <2>3. Frames!First(b) = said
    <3>1. k > b[1] /\ b[1] + 1 = k
      BY <1>6, <1>8, <2>1
    <3>2. Frames!First(b) = SubSeq(b, 1, Len(b))
      BY <1>9, <3>1 DEF Frames!First
    <3>3. SubSeq(b, 1, Len(b)) = b
      BY <1>6
    <3> QED
      BY <2>2, <3>2, <3>3
  <2>4. Frames!Settle("none", said)
    BY <1>3, <1>5, <1>11, <1>13, <2>3
  <2>5. "none" \in Frames!Outcomes /\ said \in Seq(Nat)
    BY <1>6, <2>2 DEF Frames!Outcomes
  <2>6. /\ client' \in Clients /\ client'.at = "settled" /\ client'.outcome = "none" /\ client'.frame = said
        /\ client'.kind = client.kind /\ client'.written = client.written
        /\ chunks' = <<>> /\ held' \subseteq held \cup {"frame"}
    BY <1>1, <2>4, <2>5, Settles
  <2>7. SaidRight(client, said)'
    BY <1>12, <2>6 DEF FramesInv, SaidRight
  <2>8. Stands(client, said, ended)'
    BY <1>1, <1>7, <1>12, <2>6 DEF Stands, Opened
  <2>9. Arriving(client, chunks \o stream, said)'
    BY <2>6 DEF Arriving, Opened
  <2>10. Held(client, socket, held)'
    BY <2>6 DEF FramesInv, Held
  <2> QED
    BY <1>6, <1>12, <2>6, <2>7, <2>8, <2>9, <2>10, EmptySeq DEF FramesInv
<1>14. CASE ~Frames!Complete(b)
  <2>1. chunks' = b /\ held' = held \cup {"chunks"} /\ client' = client
    BY <1>3, <1>5, <1>11, <1>14
  <2>2. Arriving(client, chunks \o stream, said)'
    BY <1>6, <1>12, <2>1 DEF Arriving
  <2>3. Held(client, socket, held)'
    BY <1>1, <2>1 DEF FramesInv, Held
  <2> QED
    BY <1>6, <1>12, <2>1, <2>2, <2>3 DEF FramesInv
<1> QED
  BY <1>13, <1>14

LEMMA ReadEndsStep ==
  ASSUME FramesInv, Frames!ReadEnds
  PROVE  FramesInv'
<1>1. client \in Clients /\ client.at = "exchange" /\ client.kind = "request"
  BY DEF FramesInv, Frames!ReadEnds, Stands
<1>2. PICK code \in {"truncated", "closed"} : Frames!Settle(code, <<>>) /\ (code = "truncated" => ended)
  BY DEF Frames!ReadEnds
<1>3. code \in Frames!Outcomes /\ <<>> \in Seq(Nat)
  BY EmptySeq DEF Frames!Outcomes
<1>4. /\ client' \in Clients /\ client'.at = "settled" /\ client'.outcome = code
      /\ client'.kind = client.kind /\ client'.written = client.written
      /\ chunks' = <<>> /\ held' \subseteq held \cup {"frame"}
  BY <1>1, <1>2, <1>3, Settles
<1>5. UNCHANGED <<stream, ended, said, socket>>
  BY DEF Frames!ReadEnds
<1>6. SaidRight(client, said)'
  BY <1>4, <1>5 DEF FramesInv, SaidRight
<1>7. Stands(client, said, ended)'
  BY <1>1, <1>2, <1>4, <1>5 DEF Stands, Opened
<1>8. Arriving(client, chunks \o stream, said)'
  BY <1>4 DEF Arriving, Opened
<1>9. Held(client, socket, held)'
  BY <1>4 DEF FramesInv, Held
<1> QED
  BY <1>4, <1>5, <1>6, <1>7, <1>8, <1>9, EmptySeq DEF FramesInv

LEMMA FinishStep ==
  ASSUME FramesInv, Frames!Finish
  PROVE  FramesInv'
<1>1. client \in Clients /\ client.at = "settled" /\ client.kind = "request"
  BY DEF FramesInv, Frames!Finish, Stands
<1>2. /\ client.outcome \in {"none", "truncated", "closed"}
      /\ client.outcome = "none" => Whole(said) /\ client.frame = said
      /\ client.outcome = "truncated" => ended
  BY <1>1 DEF FramesInv, Stands
<1>3. stream' \in Seq(Nat) /\ UNCHANGED <<ended, said>>
  BY DEF FramesInv, Frames!Finish
<1>4. {"truncated", "closed"} \subseteq Frames!Outcomes \ {"none", "answered"} /\ {"truncated", "closed"} \subseteq Endings
  BY DEF Frames!Outcomes, Endings
<1>5. CASE client.outcome # "none"
  <2>1. Frames!EndWith(client.outcome)
    BY <1>5 DEF Frames!Finish
  <2>2. PICK code \in {"truncated", "closed"} : code = client.outcome
    BY <1>2, <1>5
  <2>3. code # "trusted" /\ (code = "truncated" => ended) /\ Frames!EndWith(code)
    BY <1>2, <2>1, <2>2
  <2> QED
    BY <1>3, <1>4, <2>3, ClientEnds
<1>6. CASE client.outcome = "none" /\ client.written = "failed"
  <2>1. Frames!EndWith("closed")
    BY <1>6 DEF Frames!Finish
  <2> QED
    BY <1>3, <1>4, <2>1, ClientEnds
<1>7. CASE client.outcome = "none" /\ client.written # "failed"
  <2>1. Frames!WellFormed(client.frame) /\ client.frame[4] # Frames!Request
        /\ Frames!Decode(client.frame) \in Frames!Messages
    BY <1>2, <1>7, WholeIs
  <2>2. /\ client' = [client EXCEPT !.at = "ended", !.outcome = "answered",
                                    !.message = Frames!Decode(client.frame), !.frame = <<>>]
        /\ socket' = "destroyed" /\ chunks' = <<>> /\ held' = {"message"}
    BY <1>7, <2>1 DEF Frames!Finish
  <2>3. "ended" \in Points /\ "answered" \in Frames!Outcomes /\ <<>> \in Seq(Nat)
    BY EmptySeq DEF Points, Frames!Outcomes
  <2>4. PICK m \in Frames!Messages : m = Frames!Decode(client.frame)
    BY <2>1
  <2>5. client' = [client EXCEPT !.at = "ended", !.outcome = "answered", !.message = m, !.frame = <<>>]
    BY <2>2, <2>4
  <2>6. /\ client' \in Clients /\ client'.at = "ended" /\ client'.outcome = "answered" /\ client'.message = m
        /\ client'.kind = client.kind /\ client'.written = client.written
    BY <1>1, <2>3, <2>5 DEF Clients
  <2>7. SaidRight(client, said)'
    BY <1>3, <2>6 DEF FramesInv, SaidRight
  <2>8. Stands(client, said, ended)'
    BY <1>1, <1>2, <1>3, <1>7, <2>4, <2>6 DEF Stands, Opened, Endings
  <2>9. Arriving(client, chunks \o stream, said)'
    BY <2>6 DEF Arriving, Opened
  <2>10. Held(client, socket, held)'
    BY <2>2, <2>6 DEF Held
  <2> QED
    BY <1>3, <2>2, <2>6, <2>7, <2>8, <2>9, <2>10, EmptySeq DEF FramesInv
<1> QED
  BY <1>5, <1>6, <1>7

LEMMA ReadSignatureStep ==
  ASSUME FramesInv, Frames!ReadSignature
  PROVE  FramesInv'
<1>1. client \in Clients /\ client.at = "challenge" /\ client.at \in Opened /\ client.kind = "worker"
  BY DEF FramesInv, Frames!ReadSignature, Stands, Opened
<1>2. stream \in Seq(Nat) /\ Len(stream) \in Nat /\ UNCHANGED <<ended, said>>
  BY DEF FramesInv, Frames!ReadSignature
<1>3. {"trusted", "corrupt", "closed"} \subseteq Frames!Outcomes \ {"none", "answered"} /\ "closed" \in Endings
  BY DEF Frames!Outcomes, Endings
<1>4. CASE Frames!EndWith("closed") /\ UNCHANGED stream
  BY <1>2, <1>3, <1>4, ClientEnds
<1> DEFINE bytes(n) == chunks \o SubSeq(stream, 1, n)
<1>5. CASE \E n \in 1..Len(stream) :
             /\ stream' = SubSeq(stream, n + 1, Len(stream))
             /\ IF Len(bytes(n)) < Len(Frames!Signature) THEN chunks' = bytes(n) /\ UNCHANGED <<socket, client, held>>
                ELSE Frames!EndWith(IF bytes(n) = Frames!Signature THEN "trusted" ELSE "corrupt")
  <2>1. PICK n \in 1..Len(stream) :
          /\ stream' = SubSeq(stream, n + 1, Len(stream))
          /\ IF Len(bytes(n)) < Len(Frames!Signature) THEN chunks' = bytes(n) /\ UNCHANGED <<socket, client, held>>
             ELSE Frames!EndWith(IF bytes(n) = Frames!Signature THEN "trusted" ELSE "corrupt")
    BY <1>5
  <2>2. n \in Nat /\ n >= 1 /\ n <= Len(stream)
    BY <1>2
  <2>3. PICK b : b = bytes(n)
    OBVIOUS
  <2>4. /\ b \in Seq(Nat) /\ stream' \in Seq(Nat) /\ Begins(b \o stream', said)
        /\ b[1] = said[1] /\ said # <<>>
    BY <1>1, <2>1, <2>2, <2>3, ChunkIs
  <2> HIDE DEF bytes
  <2>5. CASE Len(b) < Len(Frames!Signature)
    <3>1. chunks' = b /\ UNCHANGED <<socket, client, held>>
      BY <2>1, <2>3, <2>5
    <3>2. Arriving(client, chunks \o stream, said)'
      BY <1>2, <2>4, <3>1 DEF Arriving
    <3> QED
      BY <1>2, <2>4, <3>1, <3>2 DEF FramesInv
  <2>6. CASE ~(Len(b) < Len(Frames!Signature)) /\ b = Frames!Signature
    <3>1. Frames!EndWith("trusted")
      BY <2>1, <2>3, <2>6
    <3>2. said[1] = 7
      BY <2>4, <2>6 DEF Frames!Signature
    <3>3. said = Frames!Signature
      BY <1>1, <2>4, <3>2 DEF FramesInv, SaidRight
    <3> QED
      BY <1>1, <1>2, <1>3, <2>4, <3>1, <3>3, ClientEnds
  <2>7. CASE ~(Len(b) < Len(Frames!Signature)) /\ b # Frames!Signature
    <3>1. Frames!EndWith("corrupt")
      BY <2>1, <2>3, <2>7
    <3> QED
      BY <1>1, <1>2, <1>3, <2>4, <3>1, ClientEnds
  <2> QED
    BY <2>5, <2>6, <2>7
<1> QED
  BY <1>4, <1>5 DEF Frames!ReadSignature

\* Whoever has said nothing yet may say anything: the client reads it from its start.
LEMMA FirstWords ==
  ASSUME NEW a \in Seq(Nat), NEW b \in Seq(Nat), NEW s \in Seq(Nat), Begins(a \o b, <<>>)
  PROVE  Begins(a \o (b \o s), s)
<1>1. a = <<>> /\ b = <<>>
  BY EmptySeq, Beginning
<1>2. a \o (b \o s) = s
  BY <1>1
<1>3. s = s \o <<>> /\ <<>> \in Seq(Nat)
  BY EmptySeq
<1> QED
  BY <1>2, <1>3 DEF Begins

LEMMA SpeakStep ==
  ASSUME FramesInv, said = <<>>, NEW s, s = Frames!Signature \/ Whole(s),
         stream' = stream \o s, said' = s, ended' \in BOOLEAN, ended => ended',
         UNCHANGED <<socket, client, chunks, held>>,
         s = Frames!Signature => client.kind = "worker",
         client.kind = "worker" /\ Whole(s) => s[1] = 3,
         client.at \in Opened \cup {"settled"}
  PROVE  FramesInv'
<1>1. client \in Clients /\ stream \in Seq(Nat) /\ chunks \in Seq(Nat)
  BY DEF FramesInv
<1>2. SaidRight(client, s)
  BY DEF SaidRight
<1>3. s \in Seq(Nat)
  BY <1>2, SaidTyped
<1>4. stream' \in Seq(Nat)
  BY <1>1, <1>3
<1>5. ~Whole(<<>>)
  BY WholeNotSignature
<1>6. Stands(client, s, ended')
  BY <1>5 DEF FramesInv, Stands, Opened
<1>7. Arriving(client, chunks \o (stream \o s), s)
  BY <1>1, <1>3, FirstWords DEF FramesInv, Arriving
<1>8. Held(client, socket, held)
  BY DEF FramesInv
<1>9. SaidRight(client, said)' /\ Stands(client, said, ended)' /\ Held(client, socket, held)'
      /\ Arriving(client, chunks \o stream, said)'
  BY <1>2, <1>6, <1>7, <1>8
<1> QED
  BY <1>1, <1>4, <1>9 DEF FramesInv

LEMMA PeerStep ==
  ASSUME FramesInv, Frames!Answer \/ Frames!Sign \/ Frames!Refuse \/ Frames!Leave
  PROVE  FramesInv'
<1>1. client \in Clients /\ stream \in Seq(Nat) /\ chunks \in Seq(Nat) /\ said \in Seq(Nat) /\ ended \in BOOLEAN
  BY SaidTyped DEF FramesInv
<1>2. CASE Frames!Answer
  <2>1. client.at \in {"exchange", "settled"} /\ said = <<>> /\ client.kind = "request"
    BY <1>2 DEF Frames!Answer, FramesInv, Stands
  <2>2. PICK m \in Frames!Messages, mask \in Bits :
          /\ m.kind # Frames!Request
          /\ Frames!Says(IF Frames!Fits(m) THEN m ELSE Fail, mask)
    BY <1>2 DEF Frames!Answer, Bits, Fail
  <2>3. PICK s : s = Frames!Encode(IF Frames!Fits(m) THEN m ELSE Fail, mask)
    OBVIOUS
  <2>4. Whole(s)
    BY <2>2, <2>3, FailIs DEF Whole
  <2>5. stream' = stream \o s /\ said' = s /\ UNCHANGED <<socket, client, ended, chunks, held>>
    BY <1>2, <2>2, <2>3 DEF Frames!Answer, Frames!Says
  <2>6. s # Frames!Signature /\ client.kind # "worker" /\ client.at \in Opened \cup {"settled"}
    BY <2>1, <2>4, WholeNotSignature DEF Opened
  <2> QED
    BY <1>1, <2>1, <2>4, <2>5, <2>6, SpeakStep
<1>3. CASE Frames!Sign
  <2>1. client.at = "challenge" /\ said = <<>> /\ client.kind = "worker" /\ stream = <<>>
    BY <1>3 DEF Frames!Sign, FramesInv, Stands
  <2>2. said' = Frames!Signature /\ UNCHANGED <<socket, client, ended, chunks, held>> /\ stream' = Frames!Signature
    BY <1>3 DEF Frames!Sign
  <2>3. stream' = stream \o Frames!Signature
    BY <2>1, <2>2 DEF Frames!Signature
  <2>4. ~Whole(Frames!Signature)
    BY WholeNotSignature
  <2>5. client.at \in Opened \cup {"settled"}
    BY <2>1 DEF Opened
  <2> QED
    BY <1>1, <2>1, <2>2, <2>3, <2>4, <2>5, SpeakStep
<1>4. CASE Frames!Refuse
  <2>1. client.at \in Opened \cup {"settled"} /\ said = <<>>
    BY <1>4 DEF Frames!Refuse, Opened
  <2>2. 0 \in Bits
    BY DEF Bits
  <2>3. PICK s : s = Frames!Encode(Fail, 0)
    OBVIOUS
  <2>4. Whole(s) /\ s[1] = 3 /\ s # Frames!Signature
    BY <2>2, <2>3, FailIs, WholeNotSignature
  <2>5. stream' = stream \o s /\ said' = s /\ ended' = TRUE /\ UNCHANGED <<socket, client, chunks, held>>
    BY <1>4, <2>3 DEF Frames!Refuse, Frames!Says, Fail
  <2> QED
    BY <1>1, <2>1, <2>4, <2>5, SpeakStep
<1>5. CASE Frames!Leave
  <2>1. PICK n \in 0..Len(stream) : stream' = SubSeq(stream, 1, n)
    BY <1>5 DEF Frames!Leave
  <2>2. n \in Nat /\ n <= Len(stream)
    BY <1>1
  <2>3. ended' = TRUE /\ UNCHANGED <<socket, client, chunks, said, held>>
    BY <1>5 DEF Frames!Leave
  <2>4. PICK y : y = SubSeq(stream, n + 1, Len(stream))
    OBVIOUS
  <2>5. stream' \in Seq(Nat) /\ y \in Seq(Nat) /\ chunks \o stream' \in Seq(Nat)
        /\ (chunks \o stream') \o y = chunks \o stream
    <3>1. /\ SubSeq(stream, 1, n) \in Seq(Nat) /\ SubSeq(stream, n + 1, Len(stream)) \in Seq(Nat)
          /\ chunks \o SubSeq(stream, 1, n) \in Seq(Nat)
          /\ (chunks \o SubSeq(stream, 1, n)) \o SubSeq(stream, n + 1, Len(stream)) = chunks \o stream
      BY <1>1, <2>2, ReadOn
    <3> QED
      BY <2>1, <2>4, <3>1
  <2>6. Arriving(client, chunks \o stream', said)
    <3>1. ASSUME client.at \in Opened PROVE Begins(chunks \o stream', said)
      <4>1. Begins((chunks \o stream') \o y, said)
        BY <2>5, <3>1 DEF FramesInv, Arriving
      <4> QED
        BY <1>1, <2>5, <4>1, Beginning
    <3> QED
      BY <3>1 DEF Arriving
  <2>7. Arriving(client, chunks \o stream, said)'
    BY <2>3, <2>6
  <2>8. Stands(client, said, ended)'
    BY <2>3 DEF FramesInv, Stands
  <2>9. SaidRight(client, said)' /\ Held(client, socket, held)'
    BY <2>3 DEF FramesInv
  <2> QED
    BY <1>1, <2>3, <2>5, <2>7, <2>8, <2>9 DEF FramesInv
<1> QED
  BY <1>2, <1>3, <1>4, <1>5

LEMMA FramesInit == Frames!Init => FramesInv
<1> SUFFICES ASSUME Frames!Init PROVE FramesInv
  OBVIOUS
<1>1. stream = <<>> /\ chunks = <<>> /\ said = <<>> /\ held = {} /\ ended = FALSE
  BY DEF Frames!Init
<1>2. /\ client.kind \in Frames!Kinds /\ client.at = "connect" /\ client.written = "no"
      /\ client.outcome = "none"
  BY DEF Frames!Init
<1>3. client \in Clients
  <2>1. [kind |-> Frames!Request, parts |-> <<>>] \in Frames!Messages
    <3>1. <<>> \in [1..0 -> Secrets]
      OBVIOUS
    <3>2. [1..0 -> Secrets] \in {[1..n -> Secrets] : n \in 0..MaxParts}
      BY FramesAssumption DEF Frames!MessagesAssumption
    <3>3. <<>> \in UNION {[1..n -> Secrets] : n \in 0..MaxParts}
      BY <3>1, <3>2
    <3> QED
      BY <3>3 DEF Frames!Messages
  <2>2. "connect" \in Points /\ "no" \in Writes /\ "none" \in Frames!Outcomes /\ <<>> \in Seq(Nat)
    BY EmptySeq DEF Points, Writes, Frames!Outcomes
  <2> QED
    BY <2>1, <2>2 DEF Frames!Init, Clients
<1>4. Begins(chunks \o stream, said)
  <2>1. <<>> = (<<>> \o <<>>) \o <<>> /\ <<>> \in Seq(Nat)
    BY EmptySeq
  <2> QED
    BY <1>1, <2>1 DEF Begins
<1>5. ~Whole(<<>>) /\ <<>> # Frames!Signature
  BY WholeNotSignature DEF Frames!Signature
<1>6. SaidRight(client, said)
  BY <1>1, <1>5 DEF SaidRight
<1>7. Stands(client, said, ended) /\ Arriving(client, chunks \o stream, said) /\ Held(client, socket, held)
  BY <1>1, <1>2, <1>4 DEF Stands, Arriving, Held
<1> QED
  BY <1>1, <1>3, <1>6, <1>7, EmptySeq DEF FramesInv

\* The invariant of a client and its peer, for messages of any length and number of byte
\* fields and any limit on frames, however the stream is cut into chunks.
THEOREM FramesInvariance == Frames!Spec => []FramesInv
<1>1. FramesInv /\ [Frames!Next]_(Frames!vars) => FramesInv'
  <2> SUFFICES ASSUME FramesInv, [Frames!Next]_(Frames!vars) PROVE FramesInv'
    OBVIOUS
  <2>1. CASE UNCHANGED Frames!vars
    BY <2>1 DEF Frames!vars, FramesInv, SaidRight, Stands, Arriving, Held
  <2>2. CASE Frames!Next
    BY <2>2, OpeningStep, ReadStep, ReadEndsStep, FinishStep, ReadSignatureStep, PeerStep DEF Frames!Next
  <2> QED
    BY <2>1, <2>2
<1> QED
  BY <1>1, FramesInit, PTL DEF Frames!Spec

\* However a message is cut into chunks and wherever the connection ends, a client has the
\* whole first message of its peer or an error, is never told of a broken message that
\* the connection did not break, and keeps nothing of what passed through it.
THEOREM FramesAreTrue == Frames!Spec => []FramesTrue
<1>1. FramesInv => FramesTrue
  <2> SUFFICES ASSUME FramesInv PROVE FramesTrue
    OBVIOUS
  <2>1. client \in Clients /\ client.at \in Points
    BY ClientFields DEF FramesInv
  <2>2. Frames!OnlyWhole(said)
    BY WholeOnly DEF FramesInv, SaidRight
  <2>3. ASSUME client.outcome = "answered" PROVE \E mask \in {0, 1} : said = Frames!Encode(client.message, mask)
    <3>1. Whole(said) /\ client.message = Frames!Decode(said)
      BY <2>1, <2>3 DEF FramesInv, Stands, Points, Opened
    <3> QED
      BY <3>1, WholeIs
  <2>4. client.outcome \notin {"corrupt", "too large"}
    BY <2>1 DEF FramesInv, Stands, Points, Opened, Endings
  <2>5. /\ client.outcome = "truncated" => ended
        /\ client.kind = "worker" /\ client.outcome = "trusted" => said = Frames!Signature
    BY <2>1 DEF FramesInv, Stands, Points, Opened
  <2>6. Frames!NothingLeft
    BY DEF FramesInv, Held, Frames!NothingLeft
  <2> QED
    BY <2>2, <2>3, <2>4, <2>5, <2>6 DEF FramesTrue, Frames!FramesTrue, Frames!WholeMessage
<1> QED
  BY <1>1, FramesInvariance, PTL

-----------------------------------------------------------------------------
\* Whichever part a behaviour of the checked specification is of, it is a behaviour of
\* every part's own, so all that is proved of them holds of it.
THEOREM PartsAreSafe == PartsSpec => [](ConnectionsExact /\ FramesTrue)
<1>1. PartsInit => Init /\ Frames!Init
  BY DEF PartsInit
<1>2. [PartsNext]_allVars => [Next]_vars /\ [Frames!Next]_(Frames!vars)
  <2> SUFFICES ASSUME [PartsNext]_allVars PROVE [Next]_vars /\ [Frames!Next]_(Frames!vars)
    OBVIOUS
  <2>1. (Next \/ UNCHANGED vars) /\ (Frames!Next \/ UNCHANGED framesVars)
    BY DEF PartsNext, allVars
  <2> QED
    BY <2>1 DEF framesVars, Frames!vars
<1>3. PartsSpec => Spec /\ Frames!Spec
  BY <1>1, <1>2, PTL DEF PartsSpec, Spec, Frames!Spec
<1> QED
  BY <1>3, ServerIsExact, FramesAreTrue, PTL

=============================================================================
