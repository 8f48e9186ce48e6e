------------------------- MODULE SessionRefreshProofs -------------------------
(***************************************************************************)
(* Proofs about SessionRefresh, for any processes, requests and bounds, and *)
(* about the commands of CommandParts, one section each, for any number of *)
(* polls, changes and restarts.                                            *)
(*                                                                         *)
(* Neither property of SessionRefresh is inductive.  Both rest on one fact  *)
(* about the store: the session it holds only ever gives way to one granted *)
(* later, so that a session that was replaced is never stored again (Past), *)
(* and one that was granted to a refresh and not stored yet is known to    *)
(* nobody else (FreshInv).                                                 *)
(***************************************************************************)
EXTENDS SessionRefresh, CommandParts, FiniteSetTheorems, NaturalsInduction, WellFoundedInduction, TLAPS

\* A session that is, or was, the stored one; and so None.
Past(s) == s <= granted /\ (stored = None \/ s <= stored)

\* What each request knows is a session that was stored; a forced refresh is
\* one still, until it has produced a later session.
Known(r) ==
  /\ Past(r.token) /\ Past(r.rejected) /\ Past(r.seen)
  /\ r.at = "idle" => ~ r.forced
  /\ r.at = "send" \/ r.at = "sent" => (r.forced => r.token > r.rejected)
  /\ r.forced /\ r.at \in {"headers", "choose", "waiting", "resume"} => r.force
  /\ r.at = "idle" => r.attempts = 0
  /\ r.force => r.forced /\ r.attempts < MaxAttempts
  /\ r.force /\ r.at = "choose" => r.renew
  /\ r.force /\ r.at \in {"choose", "waiting"} => r.seen >= r.rejected
  /\ r.force /\ r.at = "resume" => r.seen > r.rejected
  /\ r.at \in {"choose", "waiting", "resume"} => r.seen # None

RequestInv == \A c \in Requests : Known(req[c])

\* An answer that has arrived brings a session that works, is not stored, and
\* is known to nobody else: it is refreshed by no process and brought once.
Brought(p, s) ==
  LET new == flight[p][s].new IN
  /\ new \in live /\ new > s /\ new # stored
  /\ \A q \in Procs : asked[q][new] = 0 /\ flight[q][new].state = "none"
  /\ \A q \in Procs, t \in Sessions :
       flight[q][t].state = "granted" /\ flight[q][t].new = new => q = p /\ t = s

FreshInv ==
  /\ stored <= granted /\ live \subseteq 1..granted
  /\ \A p \in Procs, s \in Sessions : flight[p][s].state = "granted" => Brought(p, s)
  /\ \A p \in Procs, s \in Sessions :
       flight[p][s].state # "none" \/ asked[p][s] > 0 => Past(s)

\* A process has asked once more than it failed while the call is under way;
\* after a call that succeeded, it asks never again.
AskedInv ==
  \A p \in Procs, s \in Sessions :
    /\ failed[p][s] <= asked[p][s] /\ asked[p][s] <= failed[p][s] + 1
    /\ flight[p][s].state # "none" => asked[p][s] = failed[p][s] + 1
    /\ flight[p][s].state = "none" /\ asked[p][s] = failed[p][s] + 1 =>
         \/ stored # s
         \/ \A c \in Requests : home[c] = p => req[c].at = "done"

TypeInv == TypeOK /\ RequestInv
IInv == TypeInv /\ FreshInv /\ AskedInv /\ StoredSessionUsable

-----------------------------------------------------------------------------
(* The state of a request.                                                  *)

\* A request that is over knows nothing.
LEMMA OverKnown ==
  ASSUME TypeOK
  PROVE  Over \in Request /\ Known(Over) /\ Known(NotSending("idle")) /\ NotSending("idle") \in Request
  BY BoundsAssumption
     DEF Over, NotSending, Request, Labels, Known, Past, TypeOK, None, Sessions

\* Another attempt, of a request that has one left.
LEMMA AttemptKnown ==
  ASSUME TypeOK, NEW r \in Request, Known(r), r.at \in {"idle", "sent"}, r.attempts < MaxAttempts
  PROVE  Attempt(r) \in Request /\ Known(Attempt(r))
<1>1. r.attempts + 1 \in 0..MaxAttempts /\ (IF r.forced THEN "send" ELSE "headers") \in Labels
  BY BoundsAssumption DEF Request, Labels
<1>2. Attempt(r) \in Request
  BY <1>1 DEF Attempt, Request
<1>3. /\ Attempt(r).token = r.token /\ Attempt(r).rejected = r.rejected /\ Attempt(r).seen = r.seen
      /\ Attempt(r).forced = r.forced /\ Attempt(r).force = FALSE
      /\ Attempt(r).at = IF r.forced THEN "send" ELSE "headers"
  BY DEF Attempt, Request
<1> QED
  BY <1>2, <1>3 DEF Known

\* A request that is given the token of the session it looked for.
LEMMA WithTokenKnown ==
  ASSUME TypeOK, NEW r \in Request, Known(r), r.at \in {"choose", "resume"},
         r.force => r.at = "resume"
  PROVE  WithToken(r, r.seen) \in Request /\ Known(WithToken(r, r.seen))
<1>1. CASE stored = r.seen
  <2> DEFINE n == IF r.force THEN r.attempts + 1 ELSE r.attempts
             w == WithToken(r, r.seen)
  <2>1. n \in 0..MaxAttempts /\ "send" \in Labels
    BY BoundsAssumption DEF Request, Labels, Known
  <2>2. w = [r EXCEPT !.token = r.seen, !.seen = r.seen, !.at = "send", !.attempts = n,
                      !.force = FALSE, !.renew = FALSE]
    BY <1>1 DEF WithToken
  <2>3. w \in Request
    BY <2>1, <2>2 DEF Request
  <2>4. /\ w.token = r.seen /\ w.seen = r.seen /\ w.rejected = r.rejected
        /\ w.at = "send" /\ w.force = FALSE /\ w.forced = r.forced
    BY <2>2 DEF Request
  <2> QED
    BY <2>3, <2>4 DEF Known
<1>2. CASE stored # r.seen
  BY <1>2, OverKnown DEF WithToken
<1> QED
  BY <1>1, <1>2

\* A request that goes on as it is: it is sent, or waits.
LEMMA MovedKnown ==
  ASSUME NEW r \in Request, Known(r)
  PROVE  /\ r.at = "send" =>
              [r EXCEPT !.at = "sent"] \in Request /\ Known([r EXCEPT !.at = "sent"])
         /\ r.at = "choose" =>
              [r EXCEPT !.at = "waiting"] \in Request /\ Known([r EXCEPT !.at = "waiting"])
<1>1. \A l \in Labels : [r EXCEPT !.at = l] \in Request
  BY DEF Request
<1>2. "sent" \in Labels /\ "waiting" \in Labels
  BY DEF Labels
<1>3. \A l \in Labels :
        LET m == [r EXCEPT !.at = l] IN
        /\ m.token = r.token /\ m.rejected = r.rejected /\ m.seen = r.seen /\ m.at = l
        /\ m.forced = r.forced /\ m.force = r.force /\ m.renew = r.renew /\ m.attempts = r.attempts
  BY DEF Request
<1> QED
  BY <1>1, <1>2, <1>3 DEF Known

\* The steps of one request that leave the store, the server and the calls of
\* the processes alone.
Alone(c) ==
  \/ Start(c) \/ Send(c) \/ Answered(c) \/ Unauthorized(c) \/ Unanswered(c)
  \/ ReadSession(c) \/ UseStored(c) \/ JoinRefresh(c) \/ Resume(c) \/ ReadFails(c)

LEMMA AloneKnown ==
  ASSUME TypeInv, FreshInv, NEW c \in Requests, Alone(c)
  PROVE  /\ UNCHANGED <<home, stored, server, flight, history, crashes>>
         /\ turn' \in [Procs -> Requests \cup {None}] /\ losses' \in 0..MaxLost
         /\ req[c].at # "done"
         /\ \E r \in Request : Known(r) /\ req' = [req EXCEPT ![c] = r]
<1> USE DEF TypeInv, RequestInv
<1>0. /\ req \in [Requests -> Request] /\ req[c] \in Request /\ Known(req[c])
      /\ turn \in [Procs -> Requests \cup {None}] /\ losses \in 0..MaxLost /\ MaxLost \in Nat
      /\ home[c] \in Procs
      /\ stored \in {None} \cup Sessions
  BY BoundsAssumption, PlacementsAssumption DEF TypeOK
<1>1. CASE Start(c)
  <2>1. req[c].attempts < MaxAttempts
    BY <1>1, <1>0, BoundsAssumption DEF Start, Known
  <2> QED
    BY <1>0, <1>1, <2>1, AttemptKnown DEF Start
<1>2. CASE Send(c)
  BY <1>0, <1>2, MovedKnown DEF Send
<1>3. CASE Answered(c)
  BY <1>0, <1>3, OverKnown DEF Answered
<1>4. CASE Unauthorized(c)
  <2> DEFINE r == [req[c] EXCEPT !.forced = TRUE, !.force = TRUE, !.rejected = req[c].token, !.at = "headers"]
  <2>1. CASE ~ req[c].forced /\ req[c].attempts < MaxAttempts
    <3>1. "headers" \in Labels
      BY DEF Labels
    <3>2. r \in Request
      BY <1>0, <3>1 DEF Request
    <3>3. /\ r.token = req[c].token /\ r.rejected = req[c].token /\ r.seen = req[c].seen
          /\ r.at = "headers" /\ r.forced /\ r.force /\ r.attempts = req[c].attempts
      BY <1>0 DEF Request
    <3>4. Known(r)
      BY <1>0, <2>1, <3>3 DEF Known
    <3> QED
      BY <1>0, <1>4, <2>1, <3>2, <3>4 DEF Unauthorized
  <2>2. CASE ~(~ req[c].forced /\ req[c].attempts < MaxAttempts)
    BY <1>0, <1>4, <2>2, OverKnown DEF Unauthorized
  <2> QED
    BY <2>1, <2>2
<1>5. CASE Unanswered(c)
  <2>1. /\ req[c].at = "sent" /\ losses' \in 0..MaxLost
        /\ UNCHANGED <<home, stored, server, flight, turn, history, crashes>>
    BY <1>0, <1>5 DEF Unanswered, Loss
  <2>2. CASE req[c].attempts < MaxAttempts
    BY <1>0, <1>5, <2>1, <2>2, AttemptKnown DEF Unanswered
  <2>3. CASE ~(req[c].attempts < MaxAttempts)
    BY <1>0, <1>5, <2>1, <2>3, OverKnown DEF Unanswered
  <2> QED
    BY <2>2, <2>3
<1>6. CASE ReadSession(c)
  <2>1. CASE stored = None
    BY <1>0, <1>6, <2>1, OverKnown DEF ReadSession
  <2>2. CASE stored # None
    <3>1. PICK expired \in BOOLEAN :
            req' = [req EXCEPT ![c].at = "choose", ![c].seen = stored,
                               ![c].renew = NeedsRefresh(req[c], expired)]
      BY <1>6, <2>2 DEF ReadSession
    <3> DEFINE r == [req[c] EXCEPT !.at = "choose", !.seen = stored,
                                   !.renew = NeedsRefresh(req[c], expired)]
    <3>2. /\ NeedsRefresh(req[c], expired) \in BOOLEAN
          /\ req[c].force => NeedsRefresh(req[c], expired)
      BY <1>0 DEF NeedsRefresh, Request
    <3>3. Past(stored) /\ Past(req[c].rejected) /\ req[c].rejected <= stored
      BY <1>0, <2>2 DEF FreshInv, Past, Known, Request, Sessions, None
    <3>4. "choose" \in Labels
      BY DEF Labels
    <3>5. r \in Request
      BY <1>0, <3>2, <3>4 DEF Request
    <3>6. /\ r.token = req[c].token /\ r.rejected = req[c].rejected /\ r.seen = stored
          /\ r.at = "choose" /\ r.forced = req[c].forced /\ r.force = req[c].force
          /\ r.renew = NeedsRefresh(req[c], expired) /\ r.attempts = req[c].attempts
      BY <1>0 DEF Request
    <3>7. req[c].at = "headers" /\ r.rejected <= r.seen
      BY <1>6, <3>3, <3>6 DEF ReadSession
    <3>8. r.rejected \in Nat /\ r.seen \in Nat
      BY <1>0, <3>6 DEF Request, Sessions, None
    <3>9. Known(r)
      BY <1>0, <2>2, <3>2, <3>3, <3>6, <3>7, <3>8 DEF Known
    <3>10. req' = [req EXCEPT ![c] = r]
      BY <1>0, <3>1
    <3> QED
      BY <1>0, <1>6, <2>2, <3>5, <3>9, <3>10 DEF ReadSession
  <2> QED
    BY <2>1, <2>2
<1>7. CASE UseStored(c)
  <2>1. ~ req[c].force
    BY <1>0, <1>7 DEF UseStored, Known
  <2> QED
    BY <1>0, <1>7, <2>1, WithTokenKnown DEF UseStored
<1>8. CASE JoinRefresh(c)
  BY <1>0, <1>8, MovedKnown DEF JoinRefresh
<1>9. CASE Resume(c)
  BY <1>0, <1>9, WithTokenKnown DEF Resume
<1>10. CASE ReadFails(c)
  <2>1. /\ req[c].at \in {"headers", "choose", "resume"} /\ req' = [req EXCEPT ![c] = Over]
        /\ turn' = [turn EXCEPT ![home[c]] = None] /\ losses' \in 0..MaxLost
        /\ UNCHANGED <<home, stored, server, flight, history, crashes>>
    BY <1>0, <1>10 DEF ReadFails, Loss
  <2>2. turn' \in [Procs -> Requests \cup {None}]
    BY <1>0, <2>1
  <2> QED
    BY <1>0, <2>1, <2>2, OverKnown
<1> QED
  BY <1>1, <1>2, <1>3, <1>4, <1>5, <1>6, <1>7, <1>8, <1>9, <1>10 DEF Alone

-----------------------------------------------------------------------------
(* The store and the server.                                                *)

\* The stored session stays, goes, or gives way to one that was never stored.
Onward ==
  /\ granted' \in Nat /\ granted <= granted'
  /\ \/ stored' = stored \/ stored' = None
     \/ /\ stored' \in Sessions /\ stored' <= granted'
        /\ \A s \in Sessions : Past(s) => s < stored'

LEMMA PastKept ==
  ASSUME TypeOK, Onward, NEW s \in {None} \cup Sessions, Past(s)
  PROVE  s <= granted' /\ (stored' = None \/ s <= stored')
  BY BoundsAssumption DEF TypeOK, Onward, Past, Sessions, None

\* What the requests know stays true.
LEMMA RequestsKnow ==
  ASSUME TypeOK, Onward, req' \in [Requests -> Request], \A c \in Requests : Known(req'[c])
  PROVE  RequestInv'
<1> SUFFICES ASSUME NEW c \in Requests PROVE Known(req[c])'
  BY DEF RequestInv
<1>1. Past(req'[c].token) /\ Past(req'[c].rejected) /\ Past(req'[c].seen) /\ req'[c] \in Request
  BY DEF Known
<1>2. Past(req[c].token)' /\ Past(req[c].rejected)' /\ Past(req[c].seen)'
  BY <1>1, PastKept DEF Request, Past
<1> QED
  BY <1>2 DEF Known

\* A grant is a session nobody has heard of.
LEMMA GrantNew ==
  ASSUME TypeOK, FreshInv, Grant
  PROVE  /\ granted' = granted + 1 /\ granted' \in Sessions /\ granted < granted'
         /\ granted' \in 0..MaxSessions /\ granted' # stored /\ granted' \notin live
         /\ \A p \in Procs : asked[p][granted'] = 0 /\ flight[p][granted'].state = "none"
         /\ \A s \in Sessions : Past(s) => s < granted'
<1>1. granted' = granted + 1 /\ granted' \in Sessions /\ granted' \in 0..MaxSessions
  BY BoundsAssumption DEF TypeOK, Grant, Sessions
<1>2. ~ Past(granted') /\ granted' # stored /\ granted' \notin live
  BY <1>1 DEF Past, FreshInv, TypeOK
<1>3. \A s \in Sessions : Past(s) => s < granted'
  BY <1>1 DEF Past, TypeOK, Sessions
<1>4. \A p \in Procs : asked[p][granted'] \in Nat
  BY <1>1 DEF TypeOK
<1>5. \A p \in Procs : asked[p][granted'] = 0 /\ flight[p][granted'].state = "none"
  BY <1>1, <1>2, <1>4 DEF FreshInv
<1> QED
  BY <1>1, <1>2, <1>3, <1>5 DEF TypeOK

\* An exchange takes at most the session it is for.
LEMMA ExchangeNew ==
  ASSUME TypeOK, FreshInv, NEW s \in Sessions, Exchange(s)
  PROVE  /\ Grant
         /\ live' \subseteq Sessions /\ live' \subseteq 1..granted' /\ granted' \in live'
         /\ live \ {s} \subseteq live'
<1>1. Grant
  BY DEF Exchange
<1>2. granted' = granted + 1 /\ granted' \in Sessions
  BY <1>1, GrantNew
<1>3. live' = (IF Rotation THEN live \ {s} ELSE live) \cup {granted + 1}
  BY DEF Exchange
<1> QED
  BY <1>1, <1>2, <1>3 DEF TypeOK, FreshInv

-----------------------------------------------------------------------------
(* The calls of the processes.                                              *)

\* One call of one process changes.
LEMMA FlightAt ==
  ASSUME TypeOK, NEW p \in Procs, NEW s \in Sessions, NEW f \in Flight,
         flight' = [flight EXCEPT ![p][s] = f]
  PROVE  /\ flight' \in [Procs -> [Sessions -> Flight]]
         /\ \A q \in Procs, t \in Sessions :
              flight'[q][t] = IF q = p /\ t = s THEN f ELSE flight[q][t]
  BY DEF TypeOK

\* So does one of the counters of its history.
LEMMA CountAt ==
  ASSUME NEW n \in [Procs -> [Sessions -> Nat]], NEW p \in Procs, NEW s \in Sessions
  PROVE  /\ [n EXCEPT ![p][s] = @ + 1] \in [Procs -> [Sessions -> Nat]]
         /\ \A q \in Procs, t \in Sessions :
              [n EXCEPT ![p][s] = @ + 1][q][t] = IF q = p /\ t = s THEN n[p][s] + 1 ELSE n[q][t]
  OBVIOUS

\* A call that ends without a session is forgotten, with those who wait for it.
LEMMA RejectedKeeps ==
  ASSUME TypeInv, AskedInv, NEW p \in Procs, NEW s \in Sessions, Rejected(p, s),
         flight[p][s].state # "none", UNCHANGED <<home, asked, stored>>
  PROVE  /\ req' \in [Requests -> Request] /\ \A c \in Requests : req'[c] = Over \/ req'[c] = req[c]
         /\ flight' = [flight EXCEPT ![p][s] = NoFlight] /\ NoFlight \in Flight
         /\ failed' \in [Procs -> [Sessions -> Nat]]
         /\ AskedInv'
<1>1. NoFlight \in Flight
  BY BoundsAssumption DEF NoFlight, Flight
<1>2. /\ flight' = [flight EXCEPT ![p][s] = NoFlight]
      /\ failed' = [failed EXCEPT ![p][s] = @ + 1]
      /\ req' = [c \in Requests |-> IF c \in Waiting(p, s) THEN Over ELSE req[c]]
  BY DEF Rejected
<1>3. req' \in [Requests -> Request] /\ \A c \in Requests : req'[c] = Over \/ req'[c] = req[c]
  BY <1>2, OverKnown DEF TypeInv, TypeOK
<1>4. /\ failed' \in [Procs -> [Sessions -> Nat]]
      /\ \A q \in Procs, t \in Sessions :
           failed'[q][t] = IF q = p /\ t = s THEN failed[p][s] + 1 ELSE failed[q][t]
  BY <1>2, CountAt DEF TypeInv, TypeOK
<1>5. \A q \in Procs, t \in Sessions :
        flight'[q][t] = IF q = p /\ t = s THEN NoFlight ELSE flight[q][t]
  BY <1>1, <1>2, FlightAt DEF TypeInv
<1>6. AskedInv'
  <2> SUFFICES ASSUME NEW q \in Procs, NEW t \in Sessions
               PROVE  /\ failed'[q][t] <= asked[q][t] /\ asked[q][t] <= failed'[q][t] + 1
                      /\ flight'[q][t].state # "none" => asked[q][t] = failed'[q][t] + 1
                      /\ flight'[q][t].state = "none" /\ asked[q][t] = failed'[q][t] + 1 =>
                           \/ stored # t
                           \/ \A c \in Requests : home[c] = q => req'[c].at = "done"
    BY DEF AskedInv
  <2>1. asked[q][t] \in Nat /\ failed[q][t] \in Nat
    BY DEF TypeInv, TypeOK
  <2>2. CASE q = p /\ t = s
    <3>1. asked[q][t] = failed[q][t] + 1 /\ failed'[q][t] = asked[q][t]
      BY <1>4, <2>2 DEF AskedInv
    <3> QED
      BY <1>5, <2>1, <2>2, <3>1 DEF NoFlight
  <2>3. CASE ~(q = p /\ t = s)
    <3>1. failed'[q][t] = failed[q][t] /\ flight'[q][t] = flight[q][t]
      BY <1>4, <1>5, <2>3
    <3>2. Over.at = "done"
      BY DEF Over, NotSending
    <3> QED
      BY <1>3, <3>1, <3>2 DEF AskedInv
  <2> QED
    BY <2>2, <2>3
<1> QED
  BY <1>1, <1>2, <1>3, <1>4, <1>6

-----------------------------------------------------------------------------
(* The invariant.                                                           *)

LEMMA InvInit == Init => IInv
<1> SUFFICES ASSUME Init PROVE IInv
  OBVIOUS
<1>1. 1 \in Sessions /\ NoFlight \in Flight
  BY BoundsAssumption DEF Sessions, NoFlight, Flight
<1>2. TypeOK
  <2>1. NotSending("idle") \in Request
    BY BoundsAssumption DEF NotSending, Request, Labels, None, Sessions
  <2> QED
    BY <1>1, <2>1, BoundsAssumption DEF Init, TypeOK, None, Sessions
<1>3. RequestInv
  BY <1>2, OverKnown DEF Init, RequestInv
<1>4. FreshInv /\ AskedInv /\ StoredSessionUsable
  BY <1>1 DEF Init, FreshInv, Past, Brought, AskedInv, StoredSessionUsable, NoFlight, Sessions
<1> QED
  BY <1>2, <1>3, <1>4 DEF IInv, TypeInv

LEMMA AloneStep ==
  ASSUME IInv, NEW c \in Requests, Alone(c)
  PROVE  IInv'
<1> USE DEF IInv
<1>1. /\ UNCHANGED <<home, stored, live, granted, flight, asked, failed, stranded, revoked, crashes>>
      /\ turn' \in [Procs -> Requests \cup {None}] /\ losses' \in 0..MaxLost
      /\ req[c].at # "done"
  BY AloneKnown DEF server, history
<1>2. PICK r \in Request : Known(r) /\ req' = [req EXCEPT ![c] = r]
  BY AloneKnown
<1>3. TypeOK'
  BY <1>1, <1>2 DEF TypeInv, TypeOK
<1>4. Onward
  BY <1>1 DEF Onward, TypeInv, TypeOK
<1>5. RequestInv'
  <2>1. req' \in [Requests -> Request] /\ \A d \in Requests : Known(req'[d])
    BY <1>2 DEF TypeInv, TypeOK, RequestInv
  <2> QED
    BY <1>4, <2>1, RequestsKnow DEF TypeInv
<1>6. FreshInv'
  BY <1>1 DEF FreshInv, Past, Brought
<1>7. AskedInv'
  BY <1>1, <1>2 DEF AskedInv, TypeInv, TypeOK
<1>8. StoredSessionUsable'
  BY <1>1 DEF StoredSessionUsable
<1> QED
  BY <1>3, <1>5, <1>6, <1>7, <1>8 DEF TypeInv

LEMMA BeginStep ==
  ASSUME IInv, NEW c \in Requests, BeginRefresh(c)
  PROVE  IInv'
<1> USE DEF IInv, TypeInv
<1> DEFINE p == home[c]
           s == req[c].seen
           f == [state |-> "sent", tries |-> 1, new |-> None]
<1>1. /\ p \in Procs /\ req[c] \in Request /\ Known(req[c])
      /\ req[c].at = "choose" /\ s \in Sessions /\ flight[p][s].state = "none"
      /\ turn' = [turn EXCEPT ![p] = None]
      /\ UNCHANGED <<home, stored, live, granted, failed, stranded, revoked, losses, crashes>>
  <2>1. req[c] \in Request /\ Known(req[c]) /\ p \in Procs
    BY PlacementsAssumption DEF TypeOK, RequestInv
  <2>2. req[c].at = "choose" /\ s # None
    BY <2>1 DEF BeginRefresh, Known
  <2> QED
    BY <2>1, <2>2 DEF BeginRefresh, Request, InFlight, server
<1>2. Onward
  BY <1>1 DEF Onward, TypeOK
<1>3. turn' \in [Procs -> Requests \cup {None}]
  BY <1>1 DEF TypeOK
<1>4. CASE stored # s
  <2>1. req' = [req EXCEPT ![c] = Over] /\ flight' = flight /\ asked' = asked
    BY <1>4 DEF BeginRefresh
  <2>2. req' \in [Requests -> Request] /\ \A d \in Requests : Known(req'[d])
    BY <2>1, OverKnown DEF TypeOK, RequestInv
  <2>3. TypeOK' /\ RequestInv'
    BY <1>1, <1>2, <1>3, <2>1, <2>2, RequestsKnow DEF TypeOK
  <2>4. FreshInv' /\ StoredSessionUsable'
    BY <1>1, <2>1 DEF FreshInv, Past, Brought, StoredSessionUsable
  <2>5. AskedInv'
    BY <1>1, <2>1 DEF AskedInv, TypeOK
  <2> QED
    BY <2>3, <2>4, <2>5
<1>5. CASE stored = s
  <2>1. /\ req' = [req EXCEPT ![c].at = "waiting"]
        /\ flight' = [flight EXCEPT ![p][s] = f]
        /\ asked' = [asked EXCEPT ![p][s] = @ + 1]
    BY <1>5 DEF BeginRefresh
  <2>2. f \in Flight
    BY BoundsAssumption DEF Flight
  <2>3. req' \in [Requests -> Request] /\ \A d \in Requests : Known(req'[d])
    <3>1. req' = [req EXCEPT ![c] = [req[c] EXCEPT !.at = "waiting"]]
      BY <2>1
    <3> QED
      BY <1>1, <3>1, MovedKnown DEF TypeOK, RequestInv
  <2>4. /\ flight' \in [Procs -> [Sessions -> Flight]]
        /\ \A q \in Procs, t \in Sessions :
             flight'[q][t] = IF q = p /\ t = s THEN f ELSE flight[q][t]
    BY <1>1, <2>1, <2>2, FlightAt, ZenonT(60)
  <2>5. /\ asked' \in [Procs -> [Sessions -> Nat]]
        /\ \A q \in Procs, t \in Sessions :
             asked'[q][t] = IF q = p /\ t = s THEN asked[p][s] + 1 ELSE asked[q][t]
    BY <1>1, <2>1, CountAt DEF TypeOK
  <2>6. TypeOK' /\ RequestInv'
    BY <1>1, <1>2, <1>3, <2>3, <2>4, <2>5, RequestsKnow DEF TypeOK
  <2>7. FreshInv'
    <3>1. ASSUME NEW q \in Procs, NEW t \in Sessions, flight'[q][t].state = "granted"
          PROVE  Brought(q, t)'
      <4> DEFINE new == flight[q][t].new
      <4>1. flight'[q][t] = flight[q][t] /\ Brought(q, t)
        BY <2>4, <3>1 DEF FreshInv
      <4>2. new \in Sessions /\ new \in live /\ new > t /\ new # s
        BY <1>5, <4>1 DEF Brought, TypeOK
      <4>3. \A r \in Procs : asked'[r][new] = 0 /\ flight'[r][new].state = "none"
        BY <2>4, <2>5, <4>1, <4>2 DEF Brought
      <4>4. \A r \in Procs, u \in Sessions :
              flight'[r][u].state = "granted" /\ flight'[r][u].new = new => r = q /\ u = t
        BY <2>4, <4>1 DEF Brought
      <4> QED
        BY <1>1, <1>5, <4>1, <4>2, <4>3, <4>4 DEF Brought
    <3>2. Past(s)
      BY <1>1, <1>5 DEF FreshInv, Past, Sessions
    <3>3. \A q \in Procs, t \in Sessions : flight'[q][t].state # "none" \/ asked'[q][t] > 0 => Past(t)
      BY <2>4, <2>5, <3>2 DEF FreshInv
    <3> QED
      BY <1>1, <3>1, <3>3 DEF FreshInv, Past
  <2>8. asked[p][s] = failed[p][s]
    <3>1. asked[p][s] \in Nat /\ failed[p][s] \in Nat
      BY <1>1 DEF TypeOK
    <3> QED
      BY <1>1, <1>5, <3>1 DEF AskedInv
  <2>9. AskedInv'
    <3> SUFFICES ASSUME NEW q \in Procs, NEW t \in Sessions
                 PROVE  /\ failed[q][t] <= asked'[q][t] /\ asked'[q][t] <= failed[q][t] + 1
                        /\ flight'[q][t].state # "none" => asked'[q][t] = failed[q][t] + 1
                        /\ flight'[q][t].state = "none" /\ asked'[q][t] = failed[q][t] + 1 =>
                             \/ stored # t
                             \/ \A d \in Requests : home[d] = q => req'[d].at = "done"
      BY <1>1 DEF AskedInv
    <3>1. CASE q = p /\ t = s
      BY <1>1, <2>4, <2>5, <2>8, <3>1 DEF TypeOK
    <3>2. CASE ~(q = p /\ t = s)
      <4>1. asked'[q][t] = asked[q][t] /\ flight'[q][t] = flight[q][t]
        BY <2>4, <2>5, <3>2
      <4>2. \A d \in Requests : req[d].at = "done" => req'[d].at = "done"
        BY <1>1, <2>1 DEF TypeOK
      <4> QED
        BY <4>1, <4>2 DEF AskedInv
    <3> QED
      BY <3>1, <3>2
  <2>10. StoredSessionUsable'
    <3>1. flight[p][s].state # "granted"
      BY <1>1
    <3> QED
      BY <1>1, <1>5, <2>4, <3>1 DEF StoredSessionUsable
  <2> QED
    BY <2>6, <2>7, <2>9, <2>10
<1> QED
  BY <1>4, <1>5

\* A session that was brought stays so while nobody else hears of it.
LEMMA BroughtKept ==
  ASSUME TypeOK, FreshInv, NEW p \in Procs, NEW s \in Sessions,
         flight[p][s].state = "granted", flight'[p][s] = flight[p][s],
         flight[p][s].new \in live', flight[p][s].new # stored',
         \A q \in Procs : /\ asked'[q][flight[p][s].new] = asked[q][flight[p][s].new]
                          /\ flight'[q][flight[p][s].new].state = "none",
         \A q \in Procs, t \in Sessions : flight'[q][t].state = "granted" =>
           flight'[q][t] = flight[q][t] \/ flight'[q][t].new # flight[p][s].new
  PROVE  Brought(p, s)'
<1>1. Brought(p, s)
  BY DEF FreshInv
<1> QED
  BY <1>1 DEF Brought

LEMMA GrantStep ==
  ASSUME IInv, NEW p \in Procs, NEW s \in Sessions, GrantRefresh(p, s)
  PROVE  IInv'
<1> USE DEF IInv, TypeInv
<1> DEFINE f == [flight[p][s] EXCEPT !.state = "granted", !.new = granted + 1]
<1>1. /\ flight[p][s].state = "sent" /\ Exchange(s)
      /\ flight' = [flight EXCEPT ![p][s].state = "granted", ![p][s].new = granted + 1]
      /\ UNCHANGED <<home, stored, turn, req, asked, failed, stranded, revoked, losses, crashes>>
  BY DEF GrantRefresh, history
<1>2. /\ granted' = granted + 1 /\ granted' \in Sessions /\ granted < granted'
      /\ granted' \in 0..MaxSessions /\ granted' # stored /\ granted' \notin live
      /\ \A q \in Procs : asked[q][granted'] = 0 /\ flight[q][granted'].state = "none"
      /\ \A t \in Sessions : Past(t) => t < granted'
  BY <1>1, ExchangeNew, GrantNew
<1>3. /\ live' \subseteq Sessions /\ live' \subseteq 1..granted' /\ granted' \in live'
      /\ live \ {s} \subseteq live'
  BY <1>1, ExchangeNew
<1>4. f \in Flight /\ f.state = "granted" /\ f.new = granted'
  <2>1. flight[p][s] \in Flight /\ granted + 1 \in {None} \cup Sessions
    BY <1>2 DEF TypeOK
  <2> QED
    BY <1>2, <2>1 DEF Flight
<1>5. /\ flight' \in [Procs -> [Sessions -> Flight]]
      /\ \A q \in Procs, t \in Sessions :
           flight'[q][t] = IF q = p /\ t = s THEN f ELSE flight[q][t]
  <2>1. flight' = [flight EXCEPT ![p][s] = f]
    BY <1>1 DEF TypeOK
  <2> QED
    BY <2>1, <1>4, FlightAt
<1>6. Onward
  BY <1>1, <1>2 DEF Onward, TypeOK
<1>7. TypeOK'
  BY <1>1, <1>2, <1>3, <1>5 DEF TypeOK
<1>8. RequestInv'
  BY <1>1, <1>6, RequestsKnow DEF TypeOK, RequestInv
<1>9. FreshInv'
  <2>1. ASSUME NEW q \in Procs, NEW t \in Sessions, flight'[q][t].state = "granted"
        PROVE  Brought(q, t)'
    <3>1. CASE q = p /\ t = s
      <4>1. flight'[q][t].new = granted'
        BY <1>4, <1>5, <3>1
      <4>2. granted' > s
        BY <1>1, <1>2 DEF FreshInv
      <4>3. \A r \in Procs : asked'[r][granted'] = 0 /\ flight'[r][granted'].state = "none"
        <5>1. granted' # s
          BY <1>2, <4>2
        <5> QED
          BY <1>1, <1>2, <1>5, <5>1
      <4>4. \A r \in Procs, u \in Sessions :
              flight'[r][u].state = "granted" /\ flight'[r][u].new = granted' => r = p /\ u = s
        BY <1>2, <1>5 DEF FreshInv, Brought
      <4> QED
        BY <1>1, <1>2, <1>3, <3>1, <4>1, <4>2, <4>3, <4>4 DEF Brought
    <3>2. CASE ~(q = p /\ t = s)
      <4> DEFINE new == flight[q][t].new
      <4>1. flight'[q][t] = flight[q][t] /\ Brought(q, t)
        BY <1>5, <2>1, <3>2 DEF FreshInv
      <4>2. new \in live /\ new # stored /\ flight[p][new].state = "none"
        BY <4>1 DEF Brought
      <4>3. new # s /\ new # granted' /\ new \in live' /\ new \in Sessions
        BY <1>1, <1>2, <1>3, <4>2 DEF TypeOK
      <4>4. \A r \in Procs : asked'[r][new] = asked[r][new] /\ flight'[r][new].state = "none"
        BY <1>1, <1>5, <4>1, <4>3 DEF Brought
      <4>5. \A r \in Procs, u \in Sessions : flight'[r][u].state = "granted" =>
              flight'[r][u] = flight[r][u] \/ flight'[r][u].new # new
        BY <1>4, <1>5, <4>3
      <4>6. stored' = stored /\ flight[q][t].state = "granted"
        BY <1>1, <2>1, <4>1
      <4> QED
        BY <4>1, <4>2, <4>3, <4>4, <4>5, <4>6, BroughtKept
    <3> QED
      BY <3>1, <3>2
  <2>2. \A t \in Sessions : Past(t) => Past(t)'
    BY <1>6, PastKept DEF Past
  <2>3. \A q \in Procs, t \in Sessions : flight'[q][t].state # "none" \/ asked'[q][t] > 0 => Past(t)'
    BY <1>1, <1>5, <2>2 DEF FreshInv
  <2>4. stored <= granted'
    BY <1>2 DEF FreshInv, TypeOK, Sessions, None
  <2> QED
    BY <1>1, <1>3, <2>1, <2>3, <2>4 DEF FreshInv
<1>10. AskedInv'
  BY <1>1, <1>4, <1>5 DEF AskedInv
<1>11. StoredSessionUsable'
  BY <1>1, <1>3, <1>4, <1>5 DEF StoredSessionUsable, TypeOK
<1> QED
  BY <1>7, <1>8, <1>9, <1>10, <1>11

\* A call goes on or ends without a session, whatever it did at the server.
LEMMA LostKeeps ==
  ASSUME IInv, NEW p \in Procs, NEW s \in Sessions, NEW f \in Flight,
         f.state # "granted", flight' = [flight EXCEPT ![p][s] = f],
         f.state = "none" \/ flight[p][s].state # "none",
         \/ flight[p][s].state = "sent"
         \/ flight[p][s].state = "granted" /\ (stored # s \/ s \in stranded'),
         \/ UNCHANGED <<server, stranded>>
         \/ (Exchange(s) \/ UNCHANGED server) /\ stranded' = stranded \cup {s},
         req' \in [Requests -> Request], \A c \in Requests : req'[c] = Over \/ req'[c] = req[c],
         failed' \in [Procs -> [Sessions -> Nat]], AskedInv',
         losses' \in 0..MaxLost, UNCHANGED <<home, stored, turn, asked, revoked, crashes>>
  PROVE  IInv'
<1> USE DEF IInv, TypeInv
<1>2. /\ flight' \in [Procs -> [Sessions -> Flight]]
      /\ \A q \in Procs, t \in Sessions :
           flight'[q][t] = IF q = p /\ t = s THEN f ELSE flight[q][t]
  BY FlightAt
<1>3. /\ granted' \in 0..MaxSessions /\ granted <= granted'
      /\ live' \subseteq Sessions /\ live' \subseteq 1..granted' /\ live \ {s} \subseteq live'
      /\ stranded \subseteq stranded' /\ stranded' \subseteq Sessions
      /\ s \in live => s \in live' \/ s \in stranded'
  <2>1. CASE UNCHANGED <<server, stranded>>
    BY <2>1 DEF server, TypeOK, FreshInv
  <2>2. CASE Exchange(s) /\ stranded' = stranded \cup {s}
    BY <2>2, ExchangeNew, GrantNew DEF TypeOK
  <2>3. CASE UNCHANGED server /\ stranded' = stranded \cup {s}
    BY <2>3 DEF server, TypeOK, FreshInv
  <2> QED
    BY <2>1, <2>2, <2>3
<1>4. Onward
  BY <1>3 DEF Onward, TypeOK
<1>5. TypeOK'
  BY <1>2, <1>3 DEF TypeOK
<1>6. RequestInv'
  BY <1>4, OverKnown, RequestsKnow DEF RequestInv
<1>7. FreshInv'
  <2>1. ASSUME NEW q \in Procs, NEW t \in Sessions, flight'[q][t].state = "granted"
        PROVE  Brought(q, t)'
    <3> DEFINE new == flight[q][t].new
    <3>1. flight'[q][t] = flight[q][t] /\ Brought(q, t)
      BY <1>2, <2>1 DEF FreshInv
    <3>2. new \in live /\ new # stored /\ flight[p][new].state = "none"
      BY <3>1 DEF Brought
    <3>3. new # s /\ new \in live' /\ new \in Sessions
      BY <1>3, <3>2 DEF TypeOK
    <3>4. \A r \in Procs : asked'[r][new] = asked[r][new] /\ flight'[r][new].state = "none"
      BY <1>2, <3>1, <3>3 DEF Brought
    <3>5. \A r \in Procs, u \in Sessions : flight'[r][u].state = "granted" =>
            flight'[r][u] = flight[r][u] \/ flight'[r][u].new # new
      BY <1>2
    <3>6. flight[q][t].state = "granted"
      BY <2>1, <3>1
    <3> QED
      BY <3>1, <3>2, <3>3, <3>4, <3>5, <3>6, BroughtKept
  <2>2. \A t \in Sessions : Past(t) => Past(t)'
    BY <1>4, PastKept DEF Past
  <2>3. \A q \in Procs, t \in Sessions : flight'[q][t].state # "none" \/ asked'[q][t] > 0 => Past(t)'
    BY <1>2, <2>2 DEF FreshInv
  <2>4. stored <= granted'
    BY <1>3 DEF FreshInv, TypeOK, Sessions, None
  <2> QED
    BY <1>3, <2>1, <2>3, <2>4 DEF FreshInv
<1>8. StoredSessionUsable'
  BY <1>2, <1>3, ZenonT(60) DEF StoredSessionUsable, TypeOK
<1> QED
  BY <1>5, <1>6, <1>7, <1>8

LEMMA RejectedStep ==
  ASSUME IInv, NEW p \in Procs, NEW s \in Sessions, Rejected(p, s),
         \/ flight[p][s].state = "sent"
         \/ flight[p][s].state = "granted" /\ (stored # s \/ s \in stranded'),
         \/ UNCHANGED <<server, stranded>>
         \/ (Exchange(s) \/ UNCHANGED server) /\ stranded' = stranded \cup {s},
         losses' \in 0..MaxLost, UNCHANGED <<home, stored, turn, asked, revoked, crashes>>
  PROVE  IInv'
<1>1. /\ req' \in [Requests -> Request] /\ \A c \in Requests : req'[c] = Over \/ req'[c] = req[c]
      /\ flight' = [flight EXCEPT ![p][s] = NoFlight] /\ NoFlight \in Flight
      /\ failed' \in [Procs -> [Sessions -> Nat]]
      /\ AskedInv'
  BY RejectedKeeps DEF IInv
<1>2. NoFlight.state = "none"
  BY DEF NoFlight
<1> QED
  BY <1>1, <1>2, LostKeeps

LEMMA RefuseStep ==
  ASSUME IInv, NEW p \in Procs, NEW s \in Sessions, RefuseRefresh(p, s)
  PROVE  IInv'
<1>1. losses' \in 0..MaxLost
  BY DEF RefuseRefresh, IInv, TypeInv, TypeOK
<1> QED
  BY <1>1, RejectedStep DEF RefuseRefresh

LEMMA LoseStep ==
  ASSUME IInv, NEW p \in Procs, NEW s \in Sessions, LoseRefresh(p, s)
  PROVE  IInv'
<1>1. /\ flight[p][s].state = "sent" /\ losses' \in 0..MaxLost
      /\ UNCHANGED <<server, stranded>> \/ (Exchange(s) /\ stranded' = stranded \cup {s})
      /\ UNCHANGED <<home, stored, turn, asked, revoked, crashes>>
  <2>1. losses' \in 0..MaxLost
    <3>1. losses \in 0..MaxLost /\ losses < MaxLost /\ losses' = losses + 1 /\ MaxLost \in Nat
      BY BoundsAssumption DEF LoseRefresh, Loss, IInv, TypeInv, TypeOK
    <3> QED
      BY <3>1
  <2>2. UNCHANGED <<server, stranded>> \/ (Exchange(s) /\ stranded' = stranded \cup {s})
    BY DEF LoseRefresh
  <2> QED
    BY <2>1, <2>2 DEF LoseRefresh
<1>2. CASE flight[p][s].tries < MaxAttempts
  <2> DEFINE f == [flight[p][s] EXCEPT !.tries = @ + 1]
  <2>1. f \in Flight /\ f.state = "sent"
    <3>1. flight[p][s] \in Flight
      BY DEF IInv, TypeInv, TypeOK
    <3>2. flight[p][s].tries + 1 \in 0..MaxAttempts
      BY <1>2, <3>1, BoundsAssumption DEF Flight
    <3> QED
      BY <1>1, <3>1, <3>2 DEF Flight
  <2>2. flight' = [flight EXCEPT ![p][s] = f] /\ UNCHANGED <<req, failed>>
    BY <1>2 DEF LoseRefresh, IInv, TypeInv, TypeOK
  <2>3. \A q \in Procs, t \in Sessions : flight'[q][t].state = flight[q][t].state
    BY <1>1, <2>1, <2>2, FlightAt DEF IInv, TypeInv
  <2>4. AskedInv'
    BY <1>1, <2>2, <2>3 DEF IInv, AskedInv
  <2> QED
    BY <1>1, <2>1, <2>2, <2>4, LostKeeps DEF IInv, TypeInv, TypeOK
<1>3. CASE ~(flight[p][s].tries < MaxAttempts)
  BY <1>1, <1>3, RejectedStep DEF LoseRefresh
<1> QED
  BY <1>2, <1>3

\* Nothing is stored, and the session that stays is one the server has retired.
LEMMA StoreFailsStep ==
  ASSUME IInv, NEW p \in Procs, NEW s \in Sessions, StoreFails(p, s)
  PROVE  IInv'
<1>1. losses \in 0..MaxLost /\ losses < MaxLost /\ losses' = losses + 1 /\ MaxLost \in Nat
  BY BoundsAssumption DEF StoreFails, Loss, IInv, TypeInv, TypeOK
<1>2. losses' \in 0..MaxLost
  BY <1>1
<1> QED
  BY <1>2, RejectedStep DEF StoreFails

LEMMA StoreStep ==
  ASSUME IInv, NEW p \in Procs, NEW s \in Sessions, StoreRefreshed(p, s)
  PROVE  IInv'
<1> USE DEF IInv, TypeInv
<1> DEFINE n == flight[p][s].new
<1>1. /\ flight[p][s].state = "granted"
      /\ UNCHANGED <<home, live, granted, turn, asked, stranded, revoked, losses, crashes>>
  BY DEF StoreRefreshed, server
<1>2. CASE stored # s
  BY <1>1, <1>2, RejectedStep DEF StoreRefreshed, server, TypeOK
<1>3. CASE stored = s
  <2>1. /\ stored' = n /\ failed' = failed /\ flight' = [flight EXCEPT ![p][s] = NoFlight]
        /\ req' = [c \in Requests |->
             IF c \in Waiting(p, s) THEN [req[c] EXCEPT !.at = "resume", !.seen = n] ELSE req[c]]
    BY <1>3 DEF StoreRefreshed
  <2>2. Brought(p, s)
    BY <1>1 DEF FreshInv
  <2>3. n \in Sessions /\ n \in live /\ n > s /\ n <= granted
    <3>1. n \in live /\ n > s
      BY <2>2 DEF Brought
    <3>2. live \subseteq 1..granted /\ live \subseteq Sessions /\ granted \in Nat
      BY DEF FreshInv, TypeOK
    <3>3. n \in Sessions /\ n \in 1..granted
      BY <3>1, <3>2
    <3> HIDE DEF n
    <3> QED
      BY <3>1, <3>2, <3>3
  <2>4. NoFlight \in Flight /\ NoFlight.state = "none"
    BY BoundsAssumption DEF NoFlight, Flight
  <2>5. /\ flight' \in [Procs -> [Sessions -> Flight]]
        /\ \A q \in Procs, t \in Sessions :
             flight'[q][t] = IF q = p /\ t = s THEN NoFlight ELSE flight[q][t]
    BY <2>1, <2>4, FlightAt
  <2>6. Onward
    <3>1. \A t \in Sessions : Past(t) => t < n
      BY <1>3, <2>3 DEF Past, Sessions, None
    <3>2. stored' = n /\ granted' = granted
      BY <1>1, <2>1
    <3>3. granted \in Nat
      BY DEF TypeOK
    <3> HIDE DEF n
    <3> QED
      BY <2>3, <3>1, <3>2, <3>3 DEF Onward
  <2>7. req' \in [Requests -> Request] /\ RequestInv'
    <3>1. ASSUME NEW c \in Requests, c \in Waiting(p, s)
          PROVE  /\ req'[c] \in Request
                 /\ req'[c].token = req[c].token /\ req'[c].rejected = req[c].rejected
                 /\ req'[c].seen = n /\ req'[c].at = "resume" /\ req'[c].forced = req[c].forced
                 /\ req'[c].force = req[c].force /\ req'[c].attempts = req[c].attempts
      <4>1. "resume" \in Labels
        BY DEF Labels
      <4>2. req[c] \in Request /\ req'[c] = [req[c] EXCEPT !.at = "resume", !.seen = n]
        BY <2>1, <3>1 DEF TypeOK
      <4> QED
        BY <2>3, <4>1, <4>2 DEF Request
    <3>2. \A c \in Requests : c \notin Waiting(p, s) => req'[c] = req[c]
      BY <2>1
    <3>3. req' \in [Requests -> Request]
      BY <2>1, <3>1, <3>2 DEF TypeOK
    <3>4. ASSUME NEW c \in Requests PROVE Known(req[c])'
      <4>1. Past(req[c].token)' /\ Past(req[c].rejected)'
        <5>1. req'[c].token = req[c].token /\ req'[c].rejected = req[c].rejected
          BY <3>1, <3>2
        <5>2. Past(req[c].token) /\ Past(req[c].rejected) /\ req[c] \in Request
          BY DEF RequestInv, Known, TypeOK
        <5> QED
          BY <2>6, <5>1, <5>2, PastKept DEF Past, Request
      <4>2. CASE c \in Waiting(p, s)
        <5>1. req[c].at = "waiting" /\ req[c].seen = s /\ Known(req[c]) /\ req[c].rejected \in Nat
          BY <4>2 DEF Waiting, RequestInv, TypeOK, Request, None, Sessions
        <5>2. n > req[c].rejected \/ ~ req[c].force
          BY <2>3, <5>1 DEF Known, Sessions
        <5>3. Past(req[c].seen)' /\ n # None
          <6>1. req'[c].seen = n /\ stored' = n /\ n \in Nat /\ n <= granted' /\ n # 0
            <7>1. req'[c].seen = n /\ stored' = n /\ granted' = granted
              BY <1>1, <2>1, <3>1, <4>2
            <7> HIDE DEF n
            <7> QED
              BY <2>3, <7>1 DEF Sessions
          <6> QED
            BY <6>1 DEF Past, None
        <5> QED
          BY <3>1, <4>1, <4>2, <5>1, <5>2, <5>3 DEF Known
      <4>3. CASE c \notin Waiting(p, s)
        <5>1. req'[c] = req[c] /\ Known(req[c]) /\ req[c] \in Request
          BY <3>2, <4>3 DEF RequestInv, TypeOK
        <5>2. Past(req[c].seen)'
          BY <2>6, <5>1, PastKept DEF Past, Request, Known
        <5> QED
          BY <4>1, <5>1, <5>2 DEF Known
      <4> QED
        BY <4>2, <4>3
    <3> QED
      BY <3>3, <3>4 DEF RequestInv
  <2>8. TypeOK'
    BY <1>1, <2>1, <2>3, <2>5, <2>7 DEF TypeOK
  <2>9. FreshInv'
    <3>1. ASSUME NEW q \in Procs, NEW t \in Sessions, flight'[q][t].state = "granted"
          PROVE  Brought(q, t)'
      <4> DEFINE new == flight[q][t].new
      <4>1. flight'[q][t] = flight[q][t] /\ Brought(q, t) /\ ~(q = p /\ t = s)
        BY <2>4, <2>5, <3>1 DEF FreshInv
      <4>2. new \in Sessions /\ new \in live' /\ new # n
        BY <1>1, <2>2, <3>1, <4>1 DEF Brought, TypeOK
      <4>3. \A r \in Procs : asked'[r][new] = asked[r][new] /\ flight'[r][new].state = "none"
        BY <1>1, <2>4, <2>5, <4>1, <4>2 DEF Brought
      <4>4. \A r \in Procs, u \in Sessions : flight'[r][u].state = "granted" =>
              flight'[r][u] = flight[r][u] \/ flight'[r][u].new # new
        BY <2>4, <2>5
      <4>5. flight[q][t].state = "granted" /\ new # stored'
        BY <2>1, <3>1, <4>1, <4>2
      <4> QED
        BY <4>1, <4>2, <4>3, <4>4, <4>5, BroughtKept
    <3>2. \A t \in Sessions : Past(t) => Past(t)'
      BY <2>6, PastKept DEF Past
    <3>3. \A q \in Procs, t \in Sessions : flight'[q][t].state # "none" \/ asked'[q][t] > 0 => Past(t)'
      BY <1>1, <2>4, <2>5, <3>2 DEF FreshInv
    <3> QED
      BY <1>1, <2>1, <2>3, <3>1, <3>3 DEF FreshInv
  <2>10. AskedInv'
    <3>1. \A q \in Procs : asked[q][n] = 0
      BY <2>2 DEF Brought
    <3> SUFFICES ASSUME NEW q \in Procs, NEW t \in Sessions
                 PROVE  /\ failed[q][t] <= asked[q][t] /\ asked[q][t] <= failed[q][t] + 1
                        /\ flight'[q][t].state # "none" => asked[q][t] = failed[q][t] + 1
                        /\ flight'[q][t].state = "none" /\ asked[q][t] = failed[q][t] + 1 => stored' # t
      BY <1>1, <2>1 DEF AskedInv
    <3>2. asked[q][t] \in Nat /\ failed[q][t] \in Nat
      BY DEF TypeOK
    <3>3. asked[q][t] = failed[q][t] + 1 => stored' # t
      <4>1. stored' = n /\ asked[q][n] = 0
        BY <2>1, <3>1
      <4> HIDE DEF n
      <4> QED
        BY <3>2, <4>1
    <3>4. flight'[q][t].state # "none" => flight[q][t].state # "none"
      BY <2>4, <2>5
    <3> QED
      BY <3>3, <3>4 DEF AskedInv
  <2>11. StoredSessionUsable'
    BY <1>1, <2>1, <2>3 DEF StoredSessionUsable
  <2> QED
    BY <2>7, <2>8, <2>9, <2>10, <2>11
<1> QED
  BY <1>2, <1>3

\* A login, a logout and a crash.
LEMMA LoginStep == ASSUME IInv, Login PROVE IInv'
<1> USE DEF IInv, TypeInv
<1>1. /\ granted' = granted + 1 /\ granted' \in Sessions /\ granted < granted'
      /\ granted' \in 0..MaxSessions /\ granted' # stored /\ granted' \notin live
      /\ \A q \in Procs : asked[q][granted'] = 0 /\ flight[q][granted'].state = "none"
      /\ \A t \in Sessions : Past(t) => t < granted'
  BY GrantNew DEF Login
<1>2. /\ live' = live \cup {granted'} /\ stored' \in {stored, granted'} /\ losses' \in 0..MaxLost
      /\ UNCHANGED <<home, flight, turn, req, asked, failed, stranded, revoked, crashes>>
  BY <1>1, BoundsAssumption DEF Login, Loss, history, TypeOK
<1>3. Onward
  <2>1. CASE stored' = stored
    BY <1>1, <2>1 DEF Onward, TypeOK
  <2>2. CASE stored' = granted'
    BY <1>1, <2>2 DEF Onward, TypeOK
  <2> QED
    BY <1>2, <2>1, <2>2
<1>4. TypeOK' /\ RequestInv'
  <2>1. TypeOK'
    BY <1>1, <1>2 DEF TypeOK
  <2> QED
    BY <1>2, <1>3, <2>1, RequestsKnow DEF TypeOK, RequestInv
<1>5. FreshInv'
  <2>1. ASSUME NEW q \in Procs, NEW t \in Sessions, flight'[q][t].state = "granted"
        PROVE  Brought(q, t)'
    <3>1. Brought(q, t)
      BY <1>2, <2>1 DEF FreshInv
    <3> QED
      BY <1>1, <1>2, <3>1 DEF Brought
  <2>2. \A t \in Sessions : Past(t) => Past(t)'
    BY <1>3, PastKept DEF Past
  <2>3. \A q \in Procs, t \in Sessions : flight'[q][t].state # "none" \/ asked'[q][t] > 0 => Past(t)'
    BY <1>2, <2>2 DEF FreshInv
  <2>4. live' \subseteq 1..granted' /\ stored' <= granted'
    <3>1. live \subseteq 1..granted /\ granted \in Nat /\ stored \in Nat /\ stored <= granted
      BY DEF FreshInv, TypeOK, Sessions, None
    <3>2. live' \subseteq 1..granted'
      BY <1>1, <1>2, <3>1
    <3> QED
      BY <1>1, <1>2, <3>1, <3>2
  <2> QED
    BY <2>1, <2>3, <2>4 DEF FreshInv
<1>6. AskedInv'
  <2> SUFFICES ASSUME NEW q \in Procs, NEW t \in Sessions,
                      asked[q][t] = failed[q][t] + 1
               PROVE  stored' = stored \/ stored' # t
    BY <1>2 DEF AskedInv
  <2>1. asked[q][t] \in Nat /\ failed[q][t] \in Nat
    BY DEF TypeOK
  <2> QED
    BY <1>1, <1>2, <2>1
<1>7. StoredSessionUsable'
  BY <1>2 DEF StoredSessionUsable
<1> QED
  BY <1>4, <1>5, <1>6, <1>7

LEMMA LogoutStep == ASSUME IInv, Revoke \/ ClearAuth PROVE IInv'
<1> USE DEF IInv, TypeInv
<1>1. CASE ClearAuth
  <2>1. /\ stored' = None
        /\ UNCHANGED <<home, live, granted, flight, turn, req, asked, failed, stranded, revoked, losses, crashes>>
    BY <1>1 DEF ClearAuth, server, history
  <2>2. Onward /\ TypeOK'
    BY <2>1 DEF Onward, TypeOK
  <2>3. RequestInv'
    BY <2>1, <2>2, RequestsKnow DEF TypeOK, RequestInv
  <2>4. FreshInv'
    <3>1. ASSUME NEW q \in Procs, NEW t \in Sessions, flight'[q][t].state = "granted"
          PROVE  Brought(q, t)'
      <4>1. Brought(q, t)
        BY <2>1, <3>1 DEF FreshInv
      <4>2. flight[q][t].new # None
        BY <4>1 DEF Brought, TypeOK, Sessions, None
      <4> QED
        BY <2>1, <4>1, <4>2 DEF Brought
    <3> QED
      BY <2>1, <3>1 DEF FreshInv, Past, TypeOK, None
  <2>5. AskedInv'
    BY <2>1 DEF AskedInv, Sessions, None
  <2>6. StoredSessionUsable'
    BY <2>1 DEF StoredSessionUsable
  <2> QED
    BY <2>2, <2>3, <2>4, <2>5, <2>6
<1>2. CASE Revoke
  <2>1. /\ stored # None /\ live' = live \ {stored} /\ revoked' = revoked \cup {stored}
        /\ UNCHANGED <<home, stored, granted, flight, turn, req, asked, failed, stranded, losses, crashes>>
    BY <1>2 DEF Revoke
  <2>2. Onward /\ TypeOK'
    BY <2>1 DEF Onward, TypeOK
  <2>3. RequestInv'
    BY <2>1, <2>2, RequestsKnow DEF TypeOK, RequestInv
  <2>4. FreshInv'
    <3>1. ASSUME NEW q \in Procs, NEW t \in Sessions, flight'[q][t].state = "granted"
          PROVE  Brought(q, t)'
      <4>1. Brought(q, t)
        BY <2>1, <3>1 DEF FreshInv
      <4> QED
        BY <2>1, <4>1 DEF Brought
    <3> QED
      BY <2>1, <3>1 DEF FreshInv, Past
  <2>5. AskedInv'
    BY <2>1 DEF AskedInv
  <2>6. StoredSessionUsable'
    BY <2>1 DEF StoredSessionUsable
  <2> QED
    BY <2>2, <2>3, <2>4, <2>5, <2>6
<1> QED
  BY <1>1, <1>2

LEMMA CrashStep == ASSUME IInv, NEW p \in Procs, Crash(p) PROVE IInv'
<1> USE DEF IInv, TypeInv
<1>1. /\ crashes' \in 0..MaxCrashes
      /\ stranded' = stranded \cup {s \in Sessions : flight[p][s].state = "granted"}
      /\ flight' = [flight EXCEPT ![p] = [s \in Sessions |-> NoFlight]]
      /\ req' = [c \in Requests |-> IF home[c] = p THEN Over ELSE req[c]]
      /\ turn' = [turn EXCEPT ![p] = None]
      /\ UNCHANGED <<home, stored, live, granted, asked, failed, revoked, losses>>
  BY BoundsAssumption DEF Crash, server, TypeOK
<1>2. NoFlight \in Flight /\ NoFlight.state = "none"
  BY BoundsAssumption DEF NoFlight, Flight
<1>3. /\ flight' \in [Procs -> [Sessions -> Flight]]
      /\ \A q \in Procs, t \in Sessions :
           flight'[q][t] = IF q = p THEN NoFlight ELSE flight[q][t]
  BY <1>1, <1>2 DEF TypeOK
<1>4. req' \in [Requests -> Request] /\ \A c \in Requests : req'[c] = Over \/ req'[c] = req[c]
  BY <1>1, OverKnown DEF TypeOK
<1>5. turn' \in [Procs -> Requests \cup {None}] /\ stranded' \subseteq Sessions
  BY <1>1 DEF TypeOK
<1>6. TypeOK'
  BY <1>1, <1>3, <1>4, <1>5 DEF TypeOK
<1>7. Onward
  BY <1>1 DEF Onward, TypeOK
<1>8. RequestInv'
  BY <1>4, <1>7, OverKnown, RequestsKnow DEF RequestInv
<1>9. FreshInv'
  <2>1. ASSUME NEW q \in Procs, NEW t \in Sessions, flight'[q][t].state = "granted"
        PROVE  Brought(q, t)'
    <3> DEFINE new == flight[q][t].new
    <3>1. flight'[q][t] = flight[q][t] /\ Brought(q, t)
      BY <1>2, <1>3, <2>1 DEF FreshInv
    <3>2. new \in live' /\ new # stored' /\ new \in Sessions /\ flight[q][t].state = "granted"
      BY <1>1, <2>1, <3>1 DEF Brought, TypeOK
    <3>3. \A r \in Procs : asked'[r][new] = asked[r][new] /\ flight'[r][new].state = "none"
      BY <1>1, <1>2, <1>3, <3>1, <3>2 DEF Brought
    <3>4. \A r \in Procs, u \in Sessions : flight'[r][u].state = "granted" =>
            flight'[r][u] = flight[r][u] \/ flight'[r][u].new # new
      BY <1>2, <1>3
    <3> QED
      BY <3>1, <3>2, <3>3, <3>4, BroughtKept
  <2>2. \A q \in Procs, t \in Sessions : flight'[q][t].state # "none" \/ asked'[q][t] > 0 => Past(t)
    BY <1>1, <1>2, <1>3 DEF FreshInv
  <2> QED
    BY <1>1, <2>1, <2>2 DEF FreshInv, Past
<1>10. AskedInv'
  <2> SUFFICES ASSUME NEW q \in Procs, NEW t \in Sessions
               PROVE  /\ failed[q][t] <= asked[q][t] /\ asked[q][t] <= failed[q][t] + 1
                      /\ flight'[q][t].state # "none" => asked[q][t] = failed[q][t] + 1
                      /\ flight'[q][t].state = "none" /\ asked[q][t] = failed[q][t] + 1 =>
                           \/ stored # t
                           \/ \A c \in Requests : home[c] = q => req'[c].at = "done"
    BY <1>1 DEF AskedInv
  <2>1. CASE q = p
    <3>1. \A c \in Requests : home[c] = q => req'[c].at = "done"
      BY <1>1, <2>1 DEF Over, NotSending
    <3> QED
      BY <1>2, <1>3, <2>1, <3>1 DEF AskedInv
  <2>2. CASE q # p
    <3>1. flight'[q][t] = flight[q][t] /\ \A c \in Requests : home[c] = q => req'[c] = req[c]
      BY <1>1, <1>3, <2>2
    <3> QED
      BY <3>1 DEF AskedInv
  <2> QED
    BY <2>1, <2>2
<1>11. StoredSessionUsable'
  BY <1>1, <1>3 DEF StoredSessionUsable, TypeOK
<1> QED
  BY <1>6, <1>8, <1>9, <1>10, <1>11

LEMMA InvStep == IInv /\ [Next]_vars => IInv'
<1> SUFFICES ASSUME IInv, [Next]_vars PROVE IInv'
  OBVIOUS
<1>1. ASSUME NEW c \in Requests, Start(c) \/ Provide(c) \/ Deliver(c) PROVE IInv'
  <2>1. CASE BeginRefresh(c)
    BY <2>1, BeginStep
  <2>2. CASE Alone(c)
    BY <2>2, AloneStep
  <2> QED
    BY <1>1, <2>1, <2>2 DEF Provide, Deliver, Alone
<1>2. ASSUME NEW p \in Procs, NEW s \in Sessions, Refresh(p, s) PROVE IInv'
  BY <1>2, StoreStep, StoreFailsStep, GrantStep, RefuseStep, LoseStep DEF Refresh
<1>3. CASE Login \/ Revoke \/ ClearAuth
  BY <1>3, LoginStep, LogoutStep
<1>4. ASSUME NEW p \in Procs, Crash(p) PROVE IInv'
  BY <1>4, CrashStep
<1>5. CASE UNCHANGED vars
  <2>1. UNCHANGED <<home, stored, live, granted, flight, turn, req, asked, failed, stranded, revoked, losses, crashes>>
    BY <1>5 DEF vars, server, history
  <2>2. TypeOK' /\ AskedInv' /\ StoredSessionUsable'
    BY <2>1 DEF IInv, TypeInv, TypeOK, AskedInv, StoredSessionUsable
  <2>3. RequestInv' /\ FreshInv'
    BY <2>1 DEF IInv, TypeInv, RequestInv, Known, Past, FreshInv, Brought
  <2> QED
    BY <2>2, <2>3 DEF IInv, TypeInv
<1> QED
  BY <1>1, <1>2, <1>3, <1>4, <1>5 DEF Next

THEOREM Invariance == Spec => []IInv
<1> QED
  BY InvInit, InvStep, PTL DEF Spec

\* Every variable has its type.
THEOREM TypeSafety == Spec => []TypeOK
<1>1. IInv => TypeOK
  BY DEF IInv, TypeInv
<1> QED
  BY <1>1, Invariance, PTL

\* One exchange serves all callers of a process that wait for it, and a retry after
\* a 401 never repeats the rejected token (session.ts, sendWithRetries).
THEOREM RefreshIsShared == Spec => []RefreshShared
<1>1. IInv => SharedRefresh
  BY DEF IInv, AskedInv, SharedRefresh
<1>2. IInv => RetryUsesNewerToken
  BY DEF IInv, TypeInv, RequestInv, Known, RetryUsesNewerToken
<1> QED
  BY <1>1, <1>2, Invariance, PTL DEF RefreshShared

\* The user stays logged in, however many processes refresh at once (setAuth with
\* an expected id).
THEOREM StoredSessionIsUsable == Spec => []StoredSessionUsable
<1>1. IInv => StoredSessionUsable
  BY DEF IInv
<1> QED
  BY <1>1, Invariance, PTL

-----------------------------------------------------------------------------
(* SellerRequests, the requests of a command to a seller.                   *)

ErrandType ==
  [kind : {"inspect", "terms", "request", "call"}, pays : BOOLEAN,
   at : {"policy", "stored", "challenged", "acquire", "poll"} \cup Errands!Sending \cup Errands!Ends,
   auth : {"none", "credential", "signed"}, executed : Nat,
   last : {"none", "ok", "terms", "challenge", "lost"}]

ErrandTyped == errand \in ErrandType

\* Until an answer, or the loss of one, ends the command the seller has executed nothing.
ErrandUnexecuted ==
  errand.at \notin {"answered", "failed", "blocked", "unknown"} \/ (errand.at = "blocked" /\ errand.kind = "terms")
    => errand.executed = 0

\* Only the transport of the pay and fetch commands signs, and pays.
ErrandKind == errand.at \in {"acquire", "poll", "paid", "full"} => errand.kind = "request"

\* No approval is asked for before the command acquires its signature, and none is
\* outstanding once it has one.
ErrandSignature ==
  /\ errand.at \in {"policy", "stored", "challenged", "acquire", "anonymous", "authenticated", "paid"}
       => approval = "none" /\ errand.auth # "signed"
  /\ errand.at = "poll" => errand.auth # "signed"
  /\ errand.auth = "signed" => approval \in {"none", "approved"}

ErrandInv ==
  /\ ErrandTyped /\ ErrandUnexecuted /\ ErrandKind /\ ErrandSignature
  /\ errand.executed <= 1
  /\ errand.at = "answered" => (errand.executed = 1 <=> errand.last = "ok")

LEMMA ErrandInit == Errands!Init => ErrandInv
<1> SUFFICES ASSUME Errands!Init PROVE ErrandInv
  OBVIOUS
<1>1. PICK x \in Errands!Beginnings : seller = x[1] /\ access = x[2] /\ errand = x[3]
  BY DEF Errands!Init
<1>2. PICK e \in [kind : {"inspect", "terms", "request", "call"}, pays : BOOLEAN,
                  at : {"policy", "anonymous"}, auth : {"none"}, executed : {0}, last : {"none"}] : errand = e
  BY <1>1 DEF Errands!Beginnings
<1>3. e \in ErrandType
  <2>1. {"policy", "anonymous"} \subseteq {"policy", "stored", "challenged", "acquire", "poll"} \cup Errands!Sending \cup Errands!Ends
    BY DEF Errands!Sending
  <2>2. {0} \subseteq Nat /\ {"none"} \subseteq {"none", "credential", "signed"}
        /\ {"none"} \subseteq {"none", "ok", "terms", "challenge", "lost"}
    OBVIOUS
  <2> QED
    BY <2>1, <2>2 DEF ErrandType
<1>4. errand.at \in {"policy", "anonymous"}
      /\ errand.auth = "none" /\ errand.executed = 0 /\ errand.last = "none" /\ approval = "none"
  BY <1>2 DEF Errands!Init
<1> QED
  BY <1>2, <1>3, <1>4 DEF ErrandInv, ErrandTyped, ErrandUnexecuted, ErrandKind, ErrandSignature

\* What was sent is answered, lost, or asked for again with what was missing; only an answer
\* that asks for more, which executes nothing, is followed by another request.
LEMMA ErrandAfter ==
  ASSUME ErrandInv, errand.at \in Errands!Sending, NEW reply \in {Errands!Answer, "lost"}
  PROVE  LET next == Errands!After(reply) IN
         /\ next \in {"answered", "failed", "blocked", "unknown", "challenged", "acquire", "paid"}
         /\ next = "answered" => reply # "lost"
         /\ next \in {"challenged", "acquire", "paid"} => Errands!Answer # "ok" /\ errand.at # "full"
         /\ next \in {"acquire", "paid"} => errand.kind = "request"
         /\ next = "blocked" /\ errand.kind = "terms" => Errands!Answer # "ok"
         /\ Errands!Answer \in {"ok", "terms", "challenge"}
<1>1. Errands!Answer \in {"ok", "terms", "challenge"}
  BY DEF Errands!Answer
<1>2. errand.kind \in {"inspect", "terms", "request", "call"} /\ errand.at \in {"anonymous", "authenticated", "paid", "full"}
  BY DEF ErrandInv, ErrandType, ErrandTyped, Errands!Sending
<1> USE DEF ErrandInv, ErrandKind
<1>3. CASE errand.kind = "inspect"
  BY <1>1, <1>3 DEF Errands!After, Errands!InspectAfter
<1>4. CASE errand.kind = "terms"
  <2>1. Errands!After(reply) = Errands!TermsAfter(reply)
    BY <1>4 DEF Errands!After
  <2>2. errand.at # "full"
    BY <1>4
  <2>3. CASE reply = "lost"
    BY <1>1, <1>2, <1>4, <2>1, <2>2, <2>3 DEF Errands!TermsAfter
  <2>4. CASE reply = "challenge"
    BY <1>1, <1>2, <1>4, <2>1, <2>2, <2>4 DEF Errands!TermsAfter
  <2>5. CASE reply \notin {"lost", "challenge"}
    BY <1>1, <1>2, <1>4, <2>1, <2>2, <2>5 DEF Errands!TermsAfter
  <2> QED
    BY <2>3, <2>4, <2>5
<1>5. CASE errand.kind = "request"
  BY <1>1, <1>2, <1>5 DEF Errands!After, Errands!RequestAfter
<1>6. CASE errand.kind = "call"
  BY <1>1, <1>6 DEF Errands!After, Errands!CallAfter
<1> QED
  BY <1>2, <1>3, <1>4, <1>5, <1>6

\* The effect of a request: what was heard of it, and whether it was executed.
ErrandSays(e, f, at, reply, n) ==
  \/ f = [e EXCEPT !.at = at, !.last = reply] /\ reply = "lost"
  \/ f = [e EXCEPT !.at = at, !.last = reply, !.executed = @ + n]

LEMMA ErrandEffect ==
  ASSUME NEW e \in ErrandType, e.executed = 0, NEW at \in Errands!Sending \cup Errands!Ends \cup {"challenged", "acquire"},
         NEW reply \in {"ok", "terms", "challenge", "lost"}, NEW n \in {0, 1}, NEW f, ErrandSays(e, f, at, reply, n)
  PROVE  /\ f \in ErrandType
         /\ f.kind = e.kind /\ f.auth = e.auth /\ f.at = at /\ f.last = reply
         /\ f.executed = n \/ (f.executed = 0 /\ reply = "lost")
<1> DEFINE ats == {"policy", "stored", "challenged", "acquire", "poll"} \cup Errands!Sending \cup Errands!Ends
<1>1. at \in ats
  OBVIOUS
<1>2. e.executed + n = n /\ e.executed + n \in Nat
  OBVIOUS
<1>3. e \in [kind : {"inspect", "terms", "request", "call"}, pays : BOOLEAN, at : ats,
             auth : {"none", "credential", "signed"}, executed : Nat,
             last : {"none", "ok", "terms", "challenge", "lost"}]
  BY DEF ErrandType
<1> HIDE DEF ats
<1>4. CASE f = [e EXCEPT !.at = at, !.last = reply] /\ reply = "lost"
  BY <1>1, <1>3, <1>4 DEF ErrandType, ats
<1>5. CASE f = [e EXCEPT !.at = at, !.last = reply, !.executed = @ + n]
  BY <1>1, <1>2, <1>3, <1>5 DEF ErrandType, ats
<1> QED
  BY <1>4, <1>5 DEF ErrandSays

LEMMA ErrandSent == ErrandInv /\ Errands!Send => ErrandInv'
<1> SUFFICES ASSUME ErrandInv, Errands!Send PROVE ErrandInv'
  OBVIOUS
<1>1. errand.at \in Errands!Sending /\ UNCHANGED approval /\ errand \in ErrandType /\ errand.executed = 0
  BY DEF Errands!Send, ErrandInv, ErrandTyped, ErrandUnexecuted, Errands!Sending
<1> DEFINE n == IF Errands!Answer = "ok" THEN 1 ELSE 0
<1>9. n \in {0, 1} /\ (n = 1 <=> Errands!Answer = "ok") /\ Errands!Answer \in {"ok", "terms", "challenge"}
  BY DEF Errands!Answer
<1>2. PICK reply \in {Errands!Answer, "lost"} :
        ErrandSays(errand, errand', Errands!After(reply), reply, n)
  BY DEF Errands!Send, ErrandSays
<1> HIDE DEF n
<1> DEFINE next == Errands!After(reply)
<1>3. /\ next \in {"answered", "failed", "blocked", "unknown", "challenged", "acquire", "paid"}
      /\ next = "answered" => reply # "lost"
      /\ next \in {"challenged", "acquire", "paid"} => Errands!Answer # "ok" /\ errand.at # "full"
      /\ next \in {"acquire", "paid"} => errand.kind = "request"
      /\ next = "blocked" /\ errand.kind = "terms" => Errands!Answer # "ok"
      /\ Errands!Answer \in {"ok", "terms", "challenge"}
  BY <1>1, ErrandAfter
<1>10. next \in Errands!Sending \cup Errands!Ends \cup {"challenged", "acquire"}
       /\ reply \in {"ok", "terms", "challenge", "lost"}
  BY <1>3, <1>9 DEF Errands!Sending, Errands!Ends
<1>11. ErrandSays(errand, errand', next, reply, n)
  BY <1>2
<1> HIDE DEF next
<1>4. /\ errand' \in ErrandType
      /\ errand'.kind = errand.kind /\ errand'.auth = errand.auth /\ errand'.at = next /\ errand'.last = reply
      /\ errand'.executed = n \/ (errand'.executed = 0 /\ reply = "lost")
  BY <1>1, <1>9, <1>10, <1>11, ErrandEffect
<1>5. ErrandTyped'
  BY <1>4 DEF ErrandTyped
<1>6. ErrandUnexecuted'
  BY <1>3, <1>4, <1>9 DEF ErrandUnexecuted
<1>7. ErrandSignature' /\ ErrandKind'
  BY <1>1, <1>3, <1>4 DEF ErrandKind, ErrandInv, ErrandSignature, Errands!Sending
<1>8. errand'.executed <= 1 /\ (errand'.at = "answered" => (errand'.executed = 1 <=> errand'.last = "ok"))
  BY <1>2, <1>3, <1>4, <1>9
<1> QED
  BY <1>5, <1>6, <1>7, <1>8 DEF ErrandInv

LEMMA ErrandStep == ErrandInv /\ [Errands!Next]_(Errands!vars) => ErrandInv'
<1> SUFFICES ASSUME ErrandInv, [Errands!Next]_(Errands!vars) PROVE ErrandInv'
  OBVIOUS
<1> USE DEF ErrandInv, ErrandType, ErrandTyped, ErrandUnexecuted, ErrandKind, ErrandSignature, Errands!Sending, Errands!Ends, Errands!Goto
<1>1. CASE Errands!ReadPolicy
  BY <1>1 DEF Errands!ReadPolicy
<1>2. CASE Errands!InspectStored
  BY <1>2 DEF Errands!InspectStored, Errands!Authenticate
<1>3. CASE Errands!UseStored
  BY <1>3 DEF Errands!UseStored, Errands!Authenticate
<1>4. CASE Errands!InspectService
  BY <1>4 DEF Errands!InspectService
<1>5. CASE Errands!HandOver
  BY <1>5 DEF Errands!HandOver
<1>6. CASE Errands!Acquire
  BY <1>6 DEF Errands!Acquire
<1>7. CASE Errands!AwaitApproval
  BY <1>7 DEF Errands!AwaitApproval
<1>8. CASE Errands!Send
  BY <1>8, ErrandSent
<1>9. CASE Errands!SigningFails
  BY <1>9 DEF Errands!SigningFails
<1>10. CASE Errands!Decide
  BY <1>10 DEF Errands!Decide
<1>11. CASE Errands!Change
  BY <1>11 DEF Errands!Change
<1>12. CASE UNCHANGED Errands!vars
  BY <1>12 DEF Errands!vars
<1> QED
  BY <1>1, <1>2, <1>3, <1>4, <1>5, <1>6, <1>7, <1>8, <1>9, <1>10, <1>11, <1>12 DEF Errands!Next

LEMMA ErrandSound == ErrandInv => ExecutedOnce
  BY DEF ErrandInv, ErrandType, ErrandTyped, ErrandUnexecuted, ErrandKind, ErrandSignature, ExecutedOnce, Errands!ExecutedOnce,
         Errands!Unsent, Errands!Ends, Errands!Sending

\* However often a command sends the user's request, the seller executes it once, and the
\* command says so: for any number of changes of the seller and the credentials.
THEOREM RequestsExecuteOnce == Errands!Spec => []ExecutedOnce
<1>1. Errands!Spec => []ErrandInv
  BY ErrandInit, ErrandStep, PTL DEF Errands!Spec
<1> QED
  BY <1>1, ErrandSound, PTL

-----------------------------------------------------------------------------
(* Payment, one purchase.                                                   *)

\* Where the command is says what it has sent, and what the seller made of it.
PurchaseSent ==
  /\ cmd.sends = 0 <=> cmd.last = "none"
  /\ cmd.at \in {"probe", "create", "poll", "send"} => cmd.sends = 0 /\ served = 0
  /\ cmd.at \in {"status", "verify", "resend"} => cmd.sends = 1 /\ cmd.last = "refused" /\ served = 0
  /\ cmd.at = "resend" => card = "settled"
  /\ cmd.at = "finish" => cmd.last = "refused" \/ (cmd.last = "ok" /\ served = 1)

\* A purchase that may be resumed was not served.
PurchaseResumable ==
  /\ cmd.at # "idle" => ended = "none"
  /\ ended \in Purchase!Resumable => served = 0

\* What is polled was created, what is sent was approved; a cancellation that was granted is
\* of a transaction that is sent no more.
PurchaseApproved ==
  /\ cmd.at = "poll" => tx # "none"
  /\ cmd.at = "send" => tx \in {"ready", "expired"}
  /\ cmd.cancel = "done" => tx = "cancelled"
  /\ cmd.at \in {"idle", "probe", "create"} => cmd.cancel = "no"

PurchaseTyped == cmd \in Purchase!Cmd /\ served \in Nat /\ tx \in Purchase!TxStates

PurchaseInv ==
  /\ PurchaseTyped /\ PurchaseSent /\ PurchaseResumable /\ PurchaseApproved
  /\ Purchase!ServedOnce /\ Purchase!ReportedOutcome

LEMMA PurchaseInit == Purchase!Init => PurchaseInv
  BY DEF Purchase!Init, PurchaseInv, PurchaseTyped, PurchaseSent, PurchaseResumable, PurchaseApproved,
         Purchase!NoCmd, Purchase!Cmd, Purchase!Labels, Purchase!TxStates, Purchase!Resumable, Purchase!ServedOnce,
         Purchase!ReportedOutcome, Purchase!At

\* Where a command is on its way, what it holds, and how it ended.
PurchaseAt(label, sends, last1, cancel1, code) ==
  /\ cmd' \in Purchase!Cmd /\ cmd'.kind = cmd.kind
  /\ cmd'.at = label /\ cmd'.sends = sends /\ cmd'.last = last1 /\ cmd'.cancel = cancel1
  /\ ended' = code

LEMMA PurchaseGoto ==
  ASSUME PurchaseTyped, NEW label \in Purchase!Labels, Purchase!Goto(label)
  PROVE  PurchaseAt(label, cmd.sends, cmd.last, cmd.cancel, ended)
  BY DEF PurchaseTyped, Purchase!Goto, Purchase!Cmd, PurchaseAt

LEMMA PurchaseEnd ==
  ASSUME PurchaseTyped, NEW code, Purchase!End(code)
  PROVE  PurchaseAt("idle", cmd.sends, cmd.last, "no", code)
  BY DEF PurchaseTyped, Purchase!End, Purchase!Cmd, Purchase!Labels, PurchaseAt

LEMMA PurchaseCancels ==
  ASSUME PurchaseTyped, NEW x \in {"no", "asked", "done"}, cmd' = [cmd EXCEPT !.cancel = x]
  PROVE  PurchaseAt(cmd.at, cmd.sends, cmd.last, x, ended')
  BY DEF PurchaseTyped, Purchase!Cmd, PurchaseAt

LEMMA PurchaseAnswered ==
  ASSUME PurchaseTyped, NEW x \in {"ok", "refused"}, NEW label \in Purchase!Labels, NEW n \in 1..2, n = cmd.sends + 1,
         Purchase!Answered(x, label)
  PROVE  PurchaseAt(label, n, x, cmd.cancel, ended)
<1>1. n \in 0..2
  OBVIOUS
<1> QED
  BY <1>1 DEF PurchaseTyped, Purchase!Answered, Purchase!Cmd, PurchaseAt

LEMMA PurchaseLost ==
  ASSUME PurchaseTyped, NEW code, NEW n \in 1..2, n = cmd.sends + 1, Purchase!Lost(code)
  PROVE  PurchaseAt("idle", n, "lost", "no", code)
<1>1. n \in 0..2
  OBVIOUS
<1> QED
  BY <1>1 DEF PurchaseTyped, Purchase!Lost, Purchase!Cmd, Purchase!Labels, PurchaseAt

\* A command that has not ended has lost no answer.
LEMMA PurchaseHeard ==
  ASSUME PurchaseInv
  PROVE  /\ cmd.at \in Purchase!Labels /\ cmd.sends \in 0..2
         /\ cmd.at # "idle" => cmd.last # "lost"
         /\ cmd.at # "idle" /\ cmd.last = "ok" => cmd.at = "finish"
  BY DEF PurchaseInv, PurchaseTyped, PurchaseSent, Purchase!Cmd, Purchase!Labels

\* An ending that says what happened keeps what holds; the transaction may change while nothing
\* was sent.
LEMMA PurchaseEnds ==
  ASSUME PurchaseInv, NEW code, cmd.at # "idle", PurchaseAt("idle", cmd.sends, cmd.last, "no", code),
         UNCHANGED <<card, served>>, tx' \in Purchase!TxStates, tx' = tx \/ (cmd.sends = 0 /\ served = 0),
         code \in Purchase!Unsent => cmd.sends = 0,
         code # "PAYMENT_REPLAY_OUTCOME_UNKNOWN",
         code = "paid" => cmd.last = "ok",
         code = "rejected" => cmd.last = "refused",
         code \in Purchase!Resumable => served = 0
  PROVE  PurchaseInv'
<1>1. cmd.last # "lost" /\ (cmd.last = "ok" => served = 1) /\ cmd.sends \in 0..2
  BY PurchaseHeard DEF PurchaseInv, PurchaseSent
<1> QED
  BY <1>1 DEF PurchaseAt, PurchaseInv, PurchaseTyped, PurchaseSent, PurchaseResumable, PurchaseApproved,
              Purchase!ServedOnce, Purchase!ReportedOutcome, Purchase!At

\* So does a step on the way.
LEMMA PurchaseMoves ==
  ASSUME PurchaseInv, NEW label, NEW x, cmd.at # "idle", label # "idle",
         PurchaseAt(label, cmd.sends, cmd.last, x, ended),
         UNCHANGED <<card, served>>, tx' \in Purchase!TxStates, tx' = tx \/ (cmd.sends = 0 /\ served = 0),
         label \in {"probe", "create", "poll", "send"} => cmd.sends = 0 /\ served = 0,
         label \in {"status", "verify", "resend"} => cmd.sends = 1 /\ cmd.last = "refused" /\ served = 0,
         label = "resend" => card = "settled",
         label = "finish" => cmd.last = "refused" \/ (cmd.last = "ok" /\ served = 1),
         label = "poll" => tx' # "none",
         label = "send" => tx' \in {"ready", "expired"},
         x = "done" => tx' = "cancelled",
         label \in {"probe", "create"} => x = "no"
  PROVE  PurchaseInv'
<1>1. cmd.sends \in 0..2
  BY PurchaseHeard
<1> QED
  BY <1>1 DEF PurchaseAt, PurchaseInv, PurchaseTyped, PurchaseSent, PurchaseResumable, PurchaseApproved,
              Purchase!ServedOnce, Purchase!ReportedOutcome, Purchase!At

\* The codes of a transaction that is no longer pending.
PurchaseResolved == {"PAYMENT_CREDENTIAL_MISSING", "PAYMENT_FAILED", "INVALID_CARD_CREDENTIAL", "PAYMENT_EXPIRED",
                     "APPROVAL_TIMEOUT", "APPROVAL_FAILED", "APPROVAL_CANCELLED"}

LEMMA PurchaseResolves ==
  ASSUME PurchaseInv, NEW state \in {"ready", "expired", "failed", "cancelled"}, state = tx', Purchase!Resolve(state),
         cmd.at = "create" \/ (cmd.at = "poll" /\ tx' = tx), UNCHANGED <<card, served>>
  PROVE  PurchaseInv'
<1>1. cmd.sends = 0 /\ served = 0 /\ PurchaseTyped /\ cmd.cancel \in {"no", "asked", "done"}
  BY DEF PurchaseInv, PurchaseSent, PurchaseTyped, Purchase!Cmd
<1>2. CASE state = "ready" /\ Purchase!Goto("send")
  <2>1. PurchaseAt("send", cmd.sends, cmd.last, cmd.cancel, ended)
    BY <1>1, <1>2, PurchaseGoto DEF Purchase!Labels
  <2>2. cmd.cancel # "done"
    BY <1>2 DEF PurchaseInv, PurchaseApproved
  <2> QED
    BY <1>1, <1>2, <2>1, <2>2, PurchaseMoves DEF Purchase!TxStates, PurchaseTyped, PurchaseInv
<1>3. ASSUME NEW code \in PurchaseResolved, Purchase!End(code) PROVE PurchaseInv'
  <2>1. PurchaseAt("idle", cmd.sends, cmd.last, "no", code)
    BY <1>1, <1>3, PurchaseEnd
  <2>2. code \notin {"paid", "rejected", "PAYMENT_REPLAY_OUTCOME_UNKNOWN"}
    BY <1>3 DEF PurchaseResolved
  <2> QED
    BY <1>1, <2>1, <2>2, PurchaseEnds DEF Purchase!TxStates, PurchaseTyped, PurchaseInv
<1>4. \/ state = "ready" /\ Purchase!Goto("send")
      \/ \E code \in PurchaseResolved : Purchase!End(code)
  BY DEF Purchase!Resolve, PurchaseResolved
<1> QED
  BY <1>2, <1>3, <1>4

\* A request that carries the credential: it is answered, or its answer is lost.
LEMMA PurchaseDelivers ==
  ASSUME PurchaseInv, cmd.at \in {"send", "resend"}, NEW refused \in {"status", "finish"},
         refused = "status" => cmd.at = "send",
         Purchase!Deliver([ok |-> "finish", refused |-> refused]), UNCHANGED <<purchase, tx>>
  PROVE  PurchaseInv'
<1> DEFINE n == cmd.sends + 1
<1>1. /\ n \in 1..2 /\ (n = 1 <=> cmd.at = "send") /\ (n = 2 <=> cmd.at = "resend")
      /\ served = 0 /\ cmd.last # "lost" /\ PurchaseTyped /\ tx \in {"ready", "expired"} /\ cmd.cancel # "done"
      /\ cmd.at = "resend" => card = "settled"
      /\ cmd.cancel \in {"no", "asked", "done"}
  BY PurchaseHeard DEF PurchaseInv, PurchaseSent, PurchaseTyped, PurchaseApproved, Purchase!ServedOnce, Purchase!Cmd
<1> HIDE DEF n
<1>2. ASSUME card' = card, served' \in {0, 1}, Purchase!Lost("PAYMENT_REPLAY_OUTCOME_UNKNOWN") PROVE PurchaseInv'
  <2>1. PurchaseAt("idle", n, "lost", "no", "PAYMENT_REPLAY_OUTCOME_UNKNOWN")
    BY <1>1, <1>2, PurchaseLost DEF n
  <2> QED
    BY <1>1, <1>2, <2>1
       DEF PurchaseAt, PurchaseInv, PurchaseTyped, PurchaseSent, PurchaseResumable, PurchaseApproved,
           Purchase!ServedOnce, Purchase!ReportedOutcome, Purchase!At, Purchase!Unsent, Purchase!Resumable
<1>3. ASSUME NEW x \in {"ok", "refused"}, Purchase!Seller(x)
      PROVE  /\ served' = IF x = "ok" THEN 1 ELSE 0
             /\ card = "settled" => card' = "settled"
  BY <1>1, <1>3 DEF Purchase!Seller
<1>4. ASSUME NEW x \in {"ok", "refused"}, Purchase!Seller(x), Purchase!Lost("PAYMENT_REPLAY_OUTCOME_UNKNOWN")
      PROVE  PurchaseInv'
  <2>1. PurchaseAt("idle", n, "lost", "no", "PAYMENT_REPLAY_OUTCOME_UNKNOWN")
    BY <1>1, <1>4, PurchaseLost DEF n
  <2>2. served' \in {0, 1} /\ (cmd.at = "resend" => card' = "settled")
    BY <1>1, <1>3, <1>4
  <2> QED
    BY <1>1, <2>1, <2>2
       DEF PurchaseAt, PurchaseInv, PurchaseTyped, PurchaseSent, PurchaseResumable, PurchaseApproved,
           Purchase!ServedOnce, Purchase!ReportedOutcome, Purchase!At, Purchase!Unsent, Purchase!Resumable
<1>5. ASSUME NEW x \in {"ok", "refused"}, Purchase!Seller(x), NEW label \in {"status", "finish"},
             label = (IF x = "ok" THEN "finish" ELSE refused), Purchase!Answered(x, label)
      PROVE  PurchaseInv'
  <2>1. PurchaseAt(label, n, x, cmd.cancel, ended)
    BY <1>1, <1>5, PurchaseAnswered DEF n, Purchase!Labels
  <2>2. (x = "ok" => served' = 1) /\ (x = "refused" => served' = 0) /\ (cmd.at = "resend" => card' = "settled")
    BY <1>1, <1>3, <1>5
  <2>3. label = "status" => cmd.at = "send" /\ x = "refused"
    BY <1>5
  <2>4. ended = "none" /\ ended' = "none" /\ cmd'.at = label /\ cmd'.sends = n /\ cmd'.last = x /\ cmd'.cancel = cmd.cancel
    BY <1>1, <2>1 DEF PurchaseAt, PurchaseInv, PurchaseResumable
  <2>5. PurchaseTyped' /\ PurchaseResumable' /\ PurchaseApproved'
    BY <1>1, <2>1, <2>2, <2>4 DEF PurchaseAt, PurchaseTyped, PurchaseResumable, PurchaseApproved, Purchase!Resumable
  <2>6. PurchaseSent'
    BY <1>1, <1>5, <2>2, <2>3, <2>4 DEF PurchaseSent
  <2>7. Purchase!ServedOnce' /\ Purchase!ReportedOutcome'
    BY <1>1, <1>5, <2>2, <2>4 DEF Purchase!ServedOnce, Purchase!ReportedOutcome, Purchase!At
  <2> QED
    BY <2>5, <2>6, <2>7 DEF PurchaseInv
<1>6. \/ UNCHANGED <<card, served>> /\ Purchase!Lost("PAYMENT_REPLAY_OUTCOME_UNKNOWN")
      \/ \E x \in {"ok", "refused"} :
           /\ Purchase!Seller(x)
           /\ \/ Purchase!Lost("PAYMENT_REPLAY_OUTCOME_UNKNOWN")
              \/ Purchase!Answered(x, IF x = "ok" THEN "finish" ELSE refused)
  BY DEF Purchase!Deliver
<1> QED
  BY <1>1, <1>2, <1>4, <1>5, <1>6

LEMMA PurchaseStep == PurchaseInv /\ [Purchase!Next]_(Purchase!vars) => PurchaseInv'
<1> SUFFICES ASSUME PurchaseInv, [Purchase!Next]_(Purchase!vars) PROVE PurchaseInv'
  OBVIOUS
<1> USE DEF Purchase!At, Purchase!environment
<1>0. /\ PurchaseTyped /\ cmd.at \in Purchase!Labels /\ cmd.sends \in 0..2
      /\ cmd.cancel \in {"no", "asked", "done"}
      /\ cmd.at # "idle" => cmd.last # "lost" /\ ended = "none"
      /\ cmd.at \in {"probe", "create", "poll", "send"} => cmd.sends = 0 /\ served = 0
      /\ cmd.at \in {"status", "verify", "resend"} => cmd.sends = 1 /\ cmd.last = "refused" /\ served = 0
      /\ cmd.at = "finish" => cmd.last = "refused" \/ (cmd.last = "ok" /\ served = 1)
      /\ cmd.at \in {"idle", "probe", "create"} => cmd.cancel = "no"
      /\ cmd.cancel = "done" => tx = "cancelled"
      /\ cmd.sends > 0 \/ served > 0 => tx \in {"ready", "expired"}
  BY PurchaseHeard DEF PurchaseInv, PurchaseTyped, PurchaseSent, PurchaseResumable, PurchaseApproved,
                       Purchase!Cmd, Purchase!ServedOnce
<1> HIDE DEF Purchase!At, Purchase!environment
\* An ending with one of some codes, and a step to a label: what is left to show of each.
<1> DEFINE Calm == UNCHANGED <<tx, card, served>>
<1>e. ASSUME NEW code, Purchase!End(code), Calm, cmd.at # "idle", code \notin {"paid", "rejected", "PAYMENT_REPLAY_OUTCOME_UNKNOWN"},
             code \in Purchase!Unsent => cmd.sends = 0, code \in Purchase!Resumable => served = 0
      PROVE  PurchaseInv'
  <2>1. PurchaseAt("idle", cmd.sends, cmd.last, "no", code)
    BY <1>0, <1>e, PurchaseEnd
  <2> QED
    BY <1>0, <1>e, <2>1, PurchaseEnds DEF Purchase!TxStates, PurchaseTyped, PurchaseInv
<1>g. ASSUME NEW label \in Purchase!Labels \ {"idle", "probe", "create", "poll", "send"}, Purchase!Goto(label), Calm, cmd.at # "idle",
             label \in {"status", "verify", "resend"} => cmd.sends = 1 /\ cmd.last = "refused" /\ served = 0,
             label = "resend" => card = "settled",
             label = "finish" => cmd.last = "refused"
      PROVE  PurchaseInv'
  <2>1. PurchaseAt(label, cmd.sends, cmd.last, cmd.cancel, ended)
    BY <1>0, <1>g, PurchaseGoto
  <2> QED
    BY <1>0, <1>g, <2>1, PurchaseMoves DEF Purchase!TxStates, PurchaseTyped, PurchaseInv
<1>x. ASSUME NEW x \in {"no", "asked", "done"}, cmd' = [cmd EXCEPT !.cancel = x], UNCHANGED <<card, served, ended>>,
             cmd.at \notin {"idle", "probe", "create"},
             tx' = tx \/ (tx = "pending" /\ tx' = "cancelled"), x = "done" => tx' = "cancelled"
      PROVE  PurchaseInv'
  <2>1. PurchaseAt(cmd.at, cmd.sends, cmd.last, x, ended)
    BY <1>0, <1>x, PurchaseCancels
  <2>2. /\ cmd.at = "resend" => card = "settled"
        /\ cmd.at = "poll" => tx' # "none"
        /\ cmd.at = "send" => tx' \in {"ready", "expired"}
        /\ tx' = tx \/ (cmd.sends = 0 /\ served = 0)
    BY <1>0, <1>x DEF PurchaseInv, PurchaseTyped, PurchaseSent, PurchaseApproved
  <2> QED
    BY <1>0, <1>x, <2>1, <2>2, PurchaseMoves DEF Purchase!TxStates, PurchaseTyped, PurchaseInv
<1> DEFINE Codes == Purchase!Endings \ {"paid", "rejected", "PAYMENT_REPLAY_OUTCOME_UNKNOWN"}
<1>1. CASE Purchase!BeginPay \/ Purchase!BeginFetch
  <2>1. PICK kind \in {"pay", "fetch"}, label \in {"probe", "poll"} :
          /\ Purchase!Begin(kind, label)
          /\ label = "poll" => ended \in Purchase!Resumable /\ tx # "none"
          /\ label = "probe" => tx = "none"
    BY <1>1 DEF Purchase!BeginPay, Purchase!BeginFetch
  <2>2. PICK tty \in BOOLEAN, waits \in BOOLEAN :
          cmd' = [Purchase!NoCmd EXCEPT !.kind = kind, !.tty = tty, !.waits = waits, !.at = label]
    BY <2>1 DEF Purchase!Begin
  <2>3. cmd' = [kind |-> kind, tty |-> tty, waits |-> waits, at |-> label, sends |-> 0, last |-> "none", cancel |-> "no"]
    BY <2>2 DEF Purchase!NoCmd
  <2>4. UNCHANGED <<tx, card, served>> /\ ended' = "none"
    BY <2>1 DEF Purchase!Begin, Purchase!environment
  <2>5. served = 0
    BY <1>0, <2>1 DEF PurchaseInv, PurchaseTyped, PurchaseResumable
  <2>6. cmd' \in Purchase!Cmd
    BY <2>3 DEF Purchase!Cmd, Purchase!Labels
  <2>7. cmd'.at = label /\ cmd'.sends = 0 /\ cmd'.last = "none" /\ cmd'.cancel = "no"
    BY <2>3
  <2> QED
    BY <2>1, <2>4, <2>5, <2>6, <2>7
       DEF PurchaseInv, PurchaseTyped, PurchaseSent, PurchaseResumable, PurchaseApproved, Purchase!Resumable,
           Purchase!ServedOnce, Purchase!ReportedOutcome, Purchase!At
<1>2. CASE Purchase!Probe
  <2>1. CASE Purchase!Goto("create")
    <3>1. PurchaseAt("create", cmd.sends, cmd.last, cmd.cancel, ended)
      BY <1>0, <2>1, PurchaseGoto DEF Purchase!Labels
    <3> QED
      BY <1>0, <1>2, <3>1, PurchaseMoves DEF Purchase!Probe, Purchase!At, Purchase!environment, Purchase!TxStates, PurchaseTyped, PurchaseInv
  <2>2. CASE Purchase!End("NO_TRANSACTION")
    BY <1>0, <1>2, <2>2, <1>e DEF Purchase!Probe, Purchase!At, Purchase!environment
  <2> QED
    BY <1>2, <2>1, <2>2 DEF Purchase!Probe
<1>3. CASE Purchase!Create
  <2>1. cmd.at = "create" /\ tx' \in {"pending", "ready", "failed"} /\ UNCHANGED <<card, served>>
    BY <1>3 DEF Purchase!Create, Purchase!At
  <2>2. ASSUME NEW code \in {"HANDED_OVER", "PAYMENT_FAILED"}, Purchase!End(code) PROVE PurchaseInv'
    <3>1. PurchaseAt("idle", cmd.sends, cmd.last, "no", code)
      BY <1>0, <2>2, PurchaseEnd
    <3> QED
      BY <1>0, <2>1, <2>2, <3>1, PurchaseEnds DEF Purchase!TxStates, PurchaseTyped, PurchaseInv
  <2>3. CASE Purchase!Goto("poll")
    <3>1. PurchaseAt("poll", cmd.sends, cmd.last, cmd.cancel, ended)
      BY <1>0, <2>3, PurchaseGoto DEF Purchase!Labels
    <3> QED
      BY <1>0, <2>1, <3>1, PurchaseMoves DEF Purchase!TxStates, PurchaseTyped, PurchaseInv
  <2>4. CASE Purchase!Resolve(tx') /\ tx' # "pending"
    BY <2>1, <2>4, PurchaseResolves
  <2> QED
    BY <1>3, <2>2, <2>3, <2>4 DEF Purchase!Create, Purchase!Created
<1>4. CASE Purchase!CreateRefused
  BY <1>0, <1>4, <1>e DEF Purchase!CreateRefused, Purchase!At, Purchase!environment
<1>5. CASE Purchase!Poll
  <2>1. cmd.at = "poll" /\ UNCHANGED <<tx, card, served>> /\ tx \notin {"none", "pending"}
    BY <1>5 DEF Purchase!Poll, Purchase!At, Purchase!environment, Purchase!Pending, PurchaseInv, PurchaseApproved
  <2>2. tx \in {"ready", "expired", "failed", "cancelled"}
    BY <1>0, <2>1 DEF PurchaseTyped, Purchase!TxStates
  <2> QED
    BY <1>5, <2>1, <2>2, PurchaseResolves DEF Purchase!Poll
<1>6. CASE Purchase!PollFails
  BY <1>0, <1>6, <1>e DEF Purchase!PollFails, Purchase!At, Purchase!environment
<1>7. CASE Purchase!PollGivesUp
  <2>1. PICK code \in {"APPROVAL_TIMEOUT", "POLLING_TIMEOUT", "PAYMENT_NOT_READY"} : Purchase!End(code)
    BY <1>7 DEF Purchase!PollGivesUp
  <2> QED
    BY <1>0, <1>7, <2>1, <1>e DEF Purchase!PollGivesUp, Purchase!At, Purchase!environment
<1>8. CASE Purchase!StopWaiting
  BY <1>0, <1>8, <1>e DEF Purchase!StopWaiting, Purchase!At, Purchase!environment
<1>9. CASE Purchase!AskCancel
  BY <1>0, <1>9, <1>x DEF Purchase!AskCancel, Purchase!At, Purchase!environment
<1>10. CASE Purchase!ServerCancels
  <2>1. CASE tx = "pending"
    BY <1>0, <1>10, <2>1, <1>x DEF Purchase!ServerCancels
  <2>2. CASE tx # "pending"
    BY <1>0, <1>10, <2>2, <1>x DEF Purchase!ServerCancels
  <2> QED
    BY <2>1, <2>2
<1>11. CASE Purchase!CancelAnswered
  <2>1. CASE Purchase!End("APPROVAL_CANCELLED")
    BY <1>0, <1>11, <2>1, <1>e DEF Purchase!CancelAnswered, Purchase!environment, Purchase!Resumable
  <2>2. CASE cmd' = [cmd EXCEPT !.cancel = "no"] /\ UNCHANGED ended
    BY <1>0, <1>11, <2>2, <1>x DEF Purchase!CancelAnswered, Purchase!environment
  <2> QED
    BY <1>11, <2>1, <2>2 DEF Purchase!CancelAnswered
<1>12. CASE Purchase!Unauthenticated
  BY <1>0, <1>12, <1>e DEF Purchase!Unauthenticated, Purchase!At, Purchase!environment, Purchase!Unsent, Purchase!Resumable
<1>13. CASE Purchase!Send
  <2>1. PICK refused \in {"status", "finish"} : Purchase!Deliver([ok |-> "finish", refused |-> refused])
    BY <1>13 DEF Purchase!Send
  <2> QED
    BY <1>13, <2>1, PurchaseDelivers DEF Purchase!Send, Purchase!At
<1>14. CASE Purchase!Status
  <2>1. CASE Purchase!Goto("verify")
    BY <1>0, <1>14, <2>1, <1>g DEF Purchase!Status, Purchase!At, Purchase!environment, Purchase!Labels
  <2>2. CASE Purchase!Goto("finish")
    BY <1>0, <1>14, <2>2, <1>g DEF Purchase!Status, Purchase!At, Purchase!environment, Purchase!Labels
  <2>3. CASE Purchase!End("VERIFICATION_REQUIRED")
    BY <1>0, <1>14, <2>3, <1>e DEF Purchase!Status, Purchase!At, Purchase!environment, Purchase!Unsent
  <2> QED
    BY <1>14, <2>1, <2>2, <2>3 DEF Purchase!Status
<1>15. CASE Purchase!StatusFails
  <2>1. PICK code \in {"PAYMENT_STATUS_UNAVAILABLE", "INVALID_CARD_VERIFICATION"} : Purchase!End(code)
    BY <1>15 DEF Purchase!StatusFails
  <2> QED
    BY <1>0, <1>15, <2>1, <1>e DEF Purchase!StatusFails, Purchase!At, Purchase!environment, Purchase!Unsent, Purchase!Resumable
<1>16. CASE Purchase!Verify
  <2>1. CASE card = "settled" /\ Purchase!Goto("resend")
    BY <1>0, <1>16, <2>1, <1>g DEF Purchase!Verify, Purchase!At, Purchase!environment, Purchase!Labels
  <2>2. CASE Purchase!End("CARD_PAYMENT_FAILED")
    BY <1>0, <1>16, <2>2, <1>e DEF Purchase!Verify, Purchase!At, Purchase!environment, Purchase!Unsent, Purchase!Resumable
  <2> QED
    BY <1>16, <2>1, <2>2 DEF Purchase!Verify
<1>17. CASE Purchase!VerifyGivesUp
  BY <1>0, <1>17, <1>e DEF Purchase!VerifyGivesUp, Purchase!At, Purchase!environment, Purchase!Unsent
<1>18. CASE Purchase!StopVerifying
  BY <1>0, <1>18, <1>e DEF Purchase!StopVerifying, Purchase!At, Purchase!environment, Purchase!Unsent
<1>19. CASE Purchase!Resend
  BY <1>19, PurchaseDelivers DEF Purchase!Resend, Purchase!At
<1>20. CASE Purchase!Finish
  <2>1. CASE Purchase!End("PAYMENT_FAILED")
    BY <1>0, <1>20, <2>1, <1>e DEF Purchase!Finish, Purchase!At, Purchase!environment, Purchase!Unsent, Purchase!Resumable
  <2>2. ASSUME NEW code \in {"paid", "rejected"}, code = (IF cmd.last = "ok" THEN "paid" ELSE "rejected"), Purchase!End(code)
        PROVE  PurchaseInv'
    <3>1. PurchaseAt("idle", cmd.sends, cmd.last, "no", code)
      BY <1>0, <2>2, PurchaseEnd
    <3>2. cmd.at = "finish" /\ UNCHANGED <<tx, card, served>>
      BY <1>20 DEF Purchase!Finish, Purchase!At, Purchase!environment
    <3> QED
      BY <1>0, <2>2, <3>1, <3>2, PurchaseEnds DEF Purchase!Unsent, Purchase!Resumable, Purchase!TxStates, PurchaseTyped, PurchaseInv
  <2> QED
    BY <1>20, <2>1, <2>2 DEF Purchase!Finish
<1>21. CASE Purchase!Decide
  BY <1>0, <1>21 DEF Purchase!TxStates, Purchase!Decide, PurchaseInv, PurchaseTyped, PurchaseSent, PurchaseResumable, PurchaseApproved,
                     Purchase!ServedOnce, Purchase!ReportedOutcome, Purchase!At
<1>22. CASE Purchase!Bank
  BY <1>0, <1>22 DEF Purchase!Bank, PurchaseInv, PurchaseTyped, PurchaseSent, PurchaseResumable, PurchaseApproved,
                     Purchase!ServedOnce, Purchase!ReportedOutcome, Purchase!At
<1>23. CASE UNCHANGED Purchase!vars
  BY <1>23 DEF Purchase!vars, Purchase!environment, PurchaseInv, PurchaseTyped, PurchaseSent, PurchaseResumable, PurchaseApproved,
               Purchase!ServedOnce, Purchase!ReportedOutcome, Purchase!At
<1> QED
  BY <1>1, <1>2, <1>3, <1>4, <1>5, <1>6, <1>7, <1>8, <1>9, <1>10, <1>11, <1>12, <1>13, <1>14, <1>15, <1>16, <1>17,
     <1>18, <1>19, <1>20, <1>21, <1>22, <1>23
     DEF Purchase!Next, Purchase!Progress, Purchase!Failure, Purchase!Escape

-----------------------------------------------------------------------------
(* AepApprovals, two AEP commands.                                          *)

TaskReports ==
  Approve!Refusals \cup {"none", "not enrolled", "unavailable", "pending", "server error", "declined", "cancelled", "timeout",
                         "documents invalid", "done", "unconfirmed"}

TaskType ==
  [kind : Approve!Kinds, form : {"terminal", "waits", "defers"},
   at : {"start", "checking", "signing", "polling", "continuing", "submitting", "ended"},
   resumes : Nat, id : Nat, seen : Approve!Returned, ids : Approve!Returned, agent : Nat, refreshed : BOOLEAN,
   rounds : Nat, escape : {"none", "asked", "granted", "refused"}, aborted : BOOLEAN, asked : Nat,
   sent : BOOLEAN, executed : BOOLEAN, report : TaskReports, number : Nat]

ApprovalType ==
  [kind : Approve!Kinds, state : {"pending", "approved", "declined", "cancelled"}, documents : Approve!Returned]

ApproveTyped ==
  /\ task \in TaskType /\ approvals \in Seq(ApprovalType)
  /\ task.id \in 0..Len(approvals)
  /\ agents \in [stored : Nat, platform : Nat, made : Nat]
  /\ service.requires \in Approve!Returned

\* Nothing is sent or said before the end, and nothing is asked for before the signature.
ApproveBegins ==
  /\ task.at # "ended" => task.report = "none" /\ task.sent = FALSE /\ task.executed = FALSE
  /\ task.at \in {"start", "checking", "signing"} =>
       task.id = task.resumes /\ task.aborted = FALSE /\ task.escape = "none" /\ task.asked = 0

\* What goes on under an approval goes on under an approved one, and what was aborted was
\* cancelled.
ApproveUnder ==
  /\ task.at \in {"polling", "continuing"} => task.id # 0
  /\ task.at \in {"continuing", "submitting"} /\ task.id # 0 => approvals[task.id].state = "approved"
  /\ task.escape = "granted" \/ task.aborted = TRUE => task.id # 0 /\ approvals[task.id].state = "cancelled"
  /\ task.report = "declined" \/ (task.report = "cancelled" /\ task.kind # "fetch") => task.id # 0

\* The approval a command asked for is of the documents it has seen, and it goes on with the
\* identity that is kept.
ApproveSeen ==
  /\ task.id # 0 /\ task.resumes = 0 => approvals[task.id].documents = task.seen
  /\ task.kind = "enroll" /\ task.at \notin {"start", "ended"} => task.agent = agents.stored

ApproveInv == ApproveTyped /\ ApproveBegins /\ ApproveUnder /\ ApproveSeen /\ Approve!ApprovalsTrue

\* What most steps leave alone.
TaskKeeps ==
  /\ task'.kind = task.kind /\ task'.resumes = task.resumes /\ task'.id = task.id /\ task'.asked = task.asked
  /\ task'.seen = task.seen

\* What is under an approval.
TaskUnder ==
  /\ task'.aborted = task.aborted /\ task'.escape = task.escape

TaskSilent ==
  /\ task'.sent = task.sent /\ task'.executed = task.executed

LEMMA FreshTyped ==
  ASSUME NEW kind \in Approve!Kinds, NEW form \in {"terminal", "waits", "defers"}, NEW r \in Nat
  PROVE  Approve!Fresh(kind, form, r) \in TaskType
<1>1. {} \in Approve!Returned /\ "none" \in TaskReports
  BY DEF Approve!Returned, TaskReports
<1> QED
  BY <1>1 DEF Approve!Fresh, TaskType

LEMMA ApproveInit == Approve!Init => ApproveInv
<1> SUFFICES ASSUME Approve!Init PROVE ApproveInv
  OBVIOUS
<1>1. PICK k \in [kind : Approve!Kinds, form : {"terminal", "waits", "defers"}], r \in Approve!Returned, enrolled \in BOOLEAN, has \in BOOLEAN :
        /\ task = Approve!Fresh(k.kind, k.form, 0)
        /\ service = [requires |-> r, knows |-> IF enrolled THEN {1} ELSE {}, changed |-> FALSE]
        /\ agents = [stored |-> IF enrolled THEN 1 ELSE 0, platform |-> IF has THEN 1 ELSE 0, made |-> 1]
  <2>1. PICK x \in Approve!Beginnings : task = x[1] /\ service = x[2] /\ agents = x[3]
    BY DEF Approve!Init
  <2>2. PICK k \in {y \in [kind : Approve!Kinds, form : {"terminal", "waits", "defers"}] : y.form \in Approve!Forms(y.kind)},
             r \in Approve!Returned, enrolled \in BOOLEAN, has \in BOOLEAN :
          x = <<Approve!Fresh(k.kind, k.form, 0),
                [requires |-> r, knows |-> IF enrolled THEN {1} ELSE {}, changed |-> FALSE],
                [stored |-> IF enrolled THEN 1 ELSE 0, platform |-> IF has THEN 1 ELSE 0, made |-> 1]>>
    BY <2>1 DEF Approve!Beginnings
  <2> QED
    BY <2>1, <2>2
<1>2. task \in TaskType /\ approvals = <<>>
  <2>1. k.kind \in Approve!Kinds /\ k.form \in {"terminal", "waits", "defers"} /\ 0 \in Nat
    OBVIOUS
  <2> QED
    BY <1>1, <2>1, FreshTyped DEF Approve!Init
<1>3. approvals \in Seq(ApprovalType) /\ Len(approvals) = 0
  BY <1>2
<1>4. agents \in [stored : Nat, platform : Nat, made : Nat] /\ service.requires \in Approve!Returned
  BY <1>1
<1>5. task.at = "start" /\ task.id = 0 /\ task.resumes = 0 /\ task.report = "none" /\ task.sent = FALSE /\ task.executed = FALSE
      /\ task.aborted = FALSE /\ task.escape = "none" /\ task.asked = 0
  BY <1>1 DEF Approve!Fresh
<1> QED
  BY <1>2, <1>3, <1>4, <1>5 DEF ApproveInv, ApproveTyped, ApproveBegins, ApproveUnder, ApproveSeen, Approve!ApprovalsTrue,
     Approve!SentIsApproved, Approve!EnrolledAsAsked, Approve!ReportTrue

LEMMA ApproveReports ==
  ASSUME ApproveTyped, NEW code \in TaskReports, Approve!Report(code)
  PROVE  /\ task' \in TaskType /\ task'.at = "ended" /\ task'.report = code
         /\ TaskKeeps /\ TaskUnder /\ TaskSilent
  BY DEF ApproveTyped, TaskType, Approve!Report, TaskKeeps, TaskUnder, TaskSilent

LEMMA ApproveGoto ==
  ASSUME ApproveTyped, NEW label \in {"checking", "signing", "polling", "continuing", "submitting"}, Approve!Goto(label)
  PROVE  /\ task' \in TaskType /\ task'.at = label /\ task'.report = task.report /\ task'.agent = task.agent
         /\ TaskKeeps /\ TaskUnder /\ TaskSilent
  BY DEF ApproveTyped, TaskType, Approve!Goto, TaskKeeps, TaskUnder, TaskSilent

\* An ending without anything sent keeps what holds, if it says what became of the approval.
LEMMA ApproveEnds ==
  ASSUME ApproveInv, task.at # "ended", NEW code \in TaskReports, Approve!Report(code), UNCHANGED <<approvals, service>>,
         agents' = agents, code # "done",
         code = "declined" => task.id # 0 /\ approvals[task.id].state = "declined",
         code = "cancelled" => task.kind = "fetch" \/ (task.id # 0 /\ approvals[task.id].state = "cancelled")
  PROVE  ApproveInv'
<1>1. /\ task' \in TaskType /\ task'.at = "ended" /\ task'.report = code
      /\ TaskKeeps /\ TaskUnder /\ TaskSilent
  BY ApproveReports DEF ApproveInv
<1>2. task.sent = FALSE /\ task.executed = FALSE
  BY DEF ApproveInv, ApproveBegins
<1>3. ApproveTyped'
  BY <1>1 DEF ApproveInv, ApproveTyped, TaskKeeps
<1>4. ApproveBegins' /\ ApproveUnder' /\ ApproveSeen'
  BY <1>1 DEF ApproveInv, ApproveBegins, ApproveUnder, ApproveSeen, TaskKeeps, TaskUnder
<1>5. Approve!SentIsApproved' /\ Approve!EnrolledAsAsked'
  BY <1>1, <1>2 DEF ApproveInv, Approve!ApprovalsTrue, Approve!SentIsApproved, Approve!EnrolledAsAsked, TaskKeeps, TaskUnder, TaskSilent
<1>6. Approve!ReportTrue'
  BY <1>1, <1>2 DEF ApproveInv, Approve!ApprovalsTrue, Approve!ReportTrue, TaskKeeps, TaskSilent
<1> QED
  BY <1>3, <1>4, <1>5, <1>6 DEF ApproveInv, Approve!ApprovalsTrue

\* So does a step on the way.
LEMMA ApproveGoes ==
  ASSUME ApproveInv, task.at # "ended", task' \in TaskType, TaskKeeps, TaskUnder, TaskSilent, task'.report = task.report,
         UNCHANGED <<approvals, service>>, agents' = agents, task'.agent = task.agent,
         task'.at # "ended", task.at = "start" => task'.at = "start" \/ task.kind # "enroll",
         task'.at \in {"start", "checking", "signing"} => task.at \in {"start", "checking", "signing"},
         task'.at \in {"polling", "continuing"} => task.id # 0,
         task'.at \in {"continuing", "submitting"} /\ task.id # 0 => approvals[task.id].state = "approved"
  PROVE  ApproveInv'
<1>1. task.sent = FALSE /\ task.executed = FALSE /\ task.report = "none"
  BY DEF ApproveInv, ApproveBegins
<1>3. ApproveTyped'
  BY DEF ApproveInv, ApproveTyped, TaskKeeps
<1>4. ApproveBegins' /\ ApproveUnder' /\ ApproveSeen'
  BY <1>1 DEF ApproveInv, ApproveBegins, ApproveUnder, ApproveSeen, TaskKeeps, TaskUnder, TaskSilent
<1>5. Approve!SentIsApproved' /\ Approve!EnrolledAsAsked'
  BY <1>1 DEF ApproveInv, Approve!ApprovalsTrue, Approve!SentIsApproved, Approve!EnrolledAsAsked, TaskKeeps, TaskUnder, TaskSilent
<1>6. Approve!ReportTrue'
  BY <1>1 DEF ApproveInv, Approve!ApprovalsTrue, Approve!ReportTrue, TaskKeeps, TaskSilent
<1> QED
  BY <1>3, <1>4, <1>5, <1>6 DEF ApproveInv, Approve!ApprovalsTrue

\* What was sent under an approval, of which the command says what became of it.
LEMMA ApproveSends ==
  ASSUME ApproveInv, task.at = "submitting", NEW code \in TaskReports, NEW done \in BOOLEAN,
         task' \in TaskType, TaskKeeps, TaskUnder, task'.at = "ended", task'.report = code, task'.sent = TRUE,
         task'.executed = done, task'.agent = task.agent, task'.ids = task.ids,
         code \notin {"pending", "server error", "declined", "cancelled", "timeout", "unavailable", "documents invalid"},
         code = "not enrolled" => task.kind = "fetch",
         code = "done" => done, done => code \in {"done", "failed", "unconfirmed"},
         task.kind = "enroll" => (task.resumes = 0 => task.ids = task.seen),
         UNCHANGED <<approvals, agents>>, service'.requires = service.requires
  PROVE  ApproveInv'
<1>1. task.aborted = FALSE /\ (task.id # 0 => approvals[task.id].state = "approved")
  BY DEF ApproveInv, ApproveUnder, ApproveTyped, TaskType
<1>2. task.id # 0 /\ task.resumes = 0 => approvals[task.id].documents = task.seen
  BY DEF ApproveInv, ApproveSeen
<1>7. task.kind = "enroll" => task.agent = agents.stored
  BY DEF ApproveInv, ApproveSeen
<1>3. ApproveTyped'
  BY DEF ApproveInv, ApproveTyped, TaskKeeps
<1>4. ApproveBegins' /\ ApproveUnder' /\ ApproveSeen'
  BY <1>1 DEF ApproveInv, ApproveBegins, ApproveUnder, ApproveSeen, TaskKeeps, TaskUnder
<1>5. Approve!SentIsApproved' /\ Approve!EnrolledAsAsked'
  BY <1>1, <1>2, <1>7 DEF Approve!SentIsApproved, Approve!EnrolledAsAsked, TaskKeeps, TaskUnder
<1>6. Approve!ReportTrue'
  BY <1>1 DEF ApproveInv, Approve!ApprovalsTrue, Approve!ReportTrue, TaskKeeps
<1> QED
  BY <1>3, <1>4, <1>5, <1>6 DEF ApproveInv, Approve!ApprovalsTrue

\* An approval is decided, by the user or for him, while it is pending.
LEMMA ApproveDecides ==
  ASSUME ApproveInv, NEW i \in 1..Len(approvals), approvals[i].state = "pending",
         NEW state \in {"approved", "declined", "cancelled"}, approvals' = [approvals EXCEPT ![i].state = state]
  PROVE  /\ approvals' \in Seq(ApprovalType) /\ Len(approvals') = Len(approvals)
         /\ \A j \in 1..Len(approvals) :
              /\ approvals'[j].documents = approvals[j].documents
              /\ approvals[j].state # "pending" => approvals'[j].state = approvals[j].state
         /\ approvals'[i].state = state
<1>1. approvals \in Seq(ApprovalType) /\ \A j \in 1..Len(approvals) : approvals[j] \in ApprovalType
  BY DEF ApproveInv, ApproveTyped
<1>2. PICK x \in ApprovalType : x = [approvals[i] EXCEPT !.state = state]
  BY <1>1 DEF ApprovalType
<1>3. approvals' = [approvals EXCEPT ![i] = x]
  BY <1>2
<1>4. x.documents = approvals[i].documents /\ x.state = state
  BY <1>1, <1>2 DEF ApprovalType
<1> QED
  BY <1>1, <1>3, <1>4

\* Commands that are not in the middle of a decision do not notice one.
LEMMA ApproveUnmoved ==
  ASSUME ApproveInv, NEW i \in 1..Len(approvals), approvals[i].state = "pending",
         NEW state \in {"approved", "declined", "cancelled"}, approvals' = [approvals EXCEPT ![i].state = state],
         task' \in TaskType, TaskKeeps, TaskSilent, task'.at = task.at, task'.report = task.report, task'.agent = task.agent,
         task'.ids = task.ids, task'.aborted = task.aborted,
         task'.escape \in {"asked", "granted"} => task.at \in {"polling", "continuing"} \/ task'.escape = task.escape,
         task'.escape = "granted" => task.escape = "granted" \/ (task.id = i /\ state = "cancelled"),
         task'.escape # task.escape => task.at \in {"polling", "continuing"},
         UNCHANGED <<agents, service>>
  PROVE  ApproveInv'
<1>1. /\ approvals' \in Seq(ApprovalType) /\ Len(approvals') = Len(approvals)
      /\ \A j \in 1..Len(approvals) :
           /\ approvals'[j].documents = approvals[j].documents
           /\ approvals[j].state # "pending" => approvals'[j].state = approvals[j].state
      /\ approvals'[i].state = state
  BY ApproveDecides
<1>2. task.id \in 0..Len(approvals)
  BY DEF ApproveInv, ApproveTyped
<1>3. task.id # 0 => /\ approvals'[task.id].documents = approvals[task.id].documents
                     /\ approvals[task.id].state # "pending" => approvals'[task.id].state = approvals[task.id].state
  BY <1>1, <1>2
<1>4. ApproveTyped'
  BY <1>1 DEF ApproveInv, ApproveTyped, TaskKeeps
<1>5. ApproveBegins'
  BY DEF ApproveInv, ApproveBegins, TaskKeeps, TaskSilent
<1>6. ApproveUnder' /\ ApproveSeen'
  BY <1>1, <1>3 DEF ApproveInv, ApproveUnder, ApproveSeen, TaskKeeps
<1>7. Approve!SentIsApproved' /\ Approve!EnrolledAsAsked'
  BY <1>3 DEF ApproveInv, ApproveUnder, Approve!ApprovalsTrue, Approve!SentIsApproved, Approve!EnrolledAsAsked, TaskKeeps, TaskSilent
<1>8. task.report = "declined" \/ (task.report = "cancelled" /\ task.kind # "fetch") => task.id # 0
  BY DEF ApproveInv, ApproveUnder
<1>9. Approve!ReportTrue'
  BY <1>3, <1>8 DEF ApproveInv, Approve!ApprovalsTrue, Approve!ReportTrue, TaskKeeps, TaskSilent
<1> QED
  BY <1>4, <1>5, <1>6, <1>7, <1>9 DEF ApproveInv, Approve!ApprovalsTrue

\* Before it asks for anything a command looks at the Service, and for its identity.
LEMMA ApprovePrepares ==
  ASSUME ApproveInv, task.at \in {"start", "checking"}, task' \in TaskType,
         task'.kind = task.kind, task'.resumes = task.resumes, task'.id = task.id, task'.asked = task.asked,
         TaskUnder, TaskSilent, task'.report = task.report, task'.at \in {"checking", "signing"},
         agents' \in [stored : Nat, platform : Nat, made : Nat], task.kind = "enroll" => task'.agent = agents'.stored,
         UNCHANGED <<approvals, service>>
  PROVE  ApproveInv'
<1>1. /\ task.sent = FALSE /\ task.executed = FALSE /\ task.report = "none" /\ task.id = task.resumes
      /\ task.aborted = FALSE /\ task.escape = "none" /\ task.asked = 0
  BY DEF ApproveInv, ApproveBegins
<1>3. ApproveTyped'
  BY DEF ApproveInv, ApproveTyped
<1>4. ApproveBegins' /\ ApproveUnder' /\ ApproveSeen'
  BY <1>1 DEF ApproveBegins, ApproveUnder, ApproveSeen, TaskUnder, TaskSilent
<1>5. Approve!SentIsApproved' /\ Approve!EnrolledAsAsked' /\ Approve!ReportTrue'
  BY <1>1 DEF Approve!SentIsApproved, Approve!EnrolledAsAsked, Approve!ReportTrue, TaskUnder, TaskSilent
<1> QED
  BY <1>3, <1>4, <1>5 DEF ApproveInv, Approve!ApprovalsTrue

\* Escape, and what is heard of it.
LEMMA ApproveEscapes ==
  ASSUME ApproveInv, task.at \in {"polling", "continuing"}, NEW e \in {"none", "asked", "granted", "refused"}, NEW g \in BOOLEAN,
         task' = [task EXCEPT !.escape = e, !.aborted = g],
         e = "granted" \/ g = TRUE => task.id # 0 /\ approvals[task.id].state = "cancelled",
         UNCHANGED <<approvals, agents, service>>
  PROVE  ApproveInv'
<1>1. task \in TaskType
  BY DEF ApproveInv, ApproveTyped
<1>2. /\ task' \in TaskType /\ task'.at = task.at /\ task'.report = task.report /\ task'.agent = task.agent /\ task'.ids = task.ids
      /\ TaskKeeps /\ TaskSilent /\ task'.escape = e /\ task'.aborted = g
  BY <1>1 DEF TaskType, TaskKeeps, TaskSilent
<1>3. ApproveTyped'
  BY <1>2 DEF ApproveInv, ApproveTyped, TaskKeeps
<1>4. ApproveBegins' /\ ApproveUnder' /\ ApproveSeen'
  BY <1>2 DEF ApproveInv, ApproveBegins, ApproveUnder, ApproveSeen, TaskKeeps, TaskSilent
<1>5. task.sent = FALSE
  BY DEF ApproveInv, ApproveBegins
<1>6. Approve!SentIsApproved' /\ Approve!EnrolledAsAsked' /\ Approve!ReportTrue'
  BY <1>2, <1>5 DEF ApproveInv, Approve!ApprovalsTrue, Approve!SentIsApproved, Approve!EnrolledAsAsked, Approve!ReportTrue,
                    TaskKeeps, TaskSilent
<1> QED
  BY <1>3, <1>4, <1>6 DEF ApproveInv, Approve!ApprovalsTrue

\* An approval is asked for, with the documents that were seen.
LEMMA ApproveAsks ==
  ASSUME ApproveInv, task.at = "signing", task.resumes = 0,
         approvals' = Append(approvals, [kind |-> task.kind, state |-> "pending", documents |-> task.seen]),
         task' \in TaskType, task'.kind = task.kind, task'.resumes = 0, task'.seen = task.seen, task'.agent = task.agent,
         TaskUnder, TaskSilent, task'.id = Len(approvals'), task'.asked = 1,
         (task'.at = "ended" /\ task'.report = "pending") \/ (task'.at = "polling" /\ task'.report = "none"),
         UNCHANGED <<agents, service>>
  PROVE  ApproveInv'
<1> DEFINE x == [kind |-> task.kind, state |-> "pending", documents |-> task.seen]
<1>1. x \in ApprovalType
  BY DEF ApproveInv, ApproveTyped, TaskType, ApprovalType
<1>2. approvals \in Seq(ApprovalType)
  BY DEF ApproveInv, ApproveTyped
<1>3. x.state = "pending" /\ x.documents = task.seen
  OBVIOUS
<1> HIDE DEF x
<1>4. approvals' = Append(approvals, x)
  BY DEF x
<1>5. approvals' \in Seq(ApprovalType) /\ Len(approvals') # 0 /\ Len(approvals') \in 0..Len(approvals') /\ approvals'[Len(approvals')] = x
  BY <1>1, <1>2, <1>4
<1>6. /\ task.sent = FALSE /\ task.executed = FALSE /\ task.aborted = FALSE /\ task.escape = "none"
      /\ task.kind = "enroll" => task.agent = agents.stored
  BY DEF ApproveInv, ApproveBegins, ApproveSeen
<1>7. ApproveTyped'
  BY <1>5 DEF ApproveInv, ApproveTyped
<1>8. ApproveBegins' /\ ApproveUnder' /\ ApproveSeen'
  BY <1>3, <1>5, <1>6 DEF ApproveBegins, ApproveUnder, ApproveSeen, TaskUnder, TaskSilent
<1>9. Approve!SentIsApproved' /\ Approve!EnrolledAsAsked' /\ Approve!ReportTrue'
  BY <1>5, <1>6 DEF Approve!SentIsApproved, Approve!EnrolledAsAsked, Approve!ReportTrue, TaskUnder, TaskSilent
<1> QED
  BY <1>7, <1>8, <1>9 DEF ApproveInv, Approve!ApprovalsTrue

LEMMA ApproveStep == ApproveInv /\ [Approve!Next]_(Approve!vars) => ApproveInv'
<1> SUFFICES ASSUME ApproveInv, [Approve!Next]_(Approve!vars) PROVE ApproveInv'
  OBVIOUS
<1>a. /\ task \in TaskType /\ approvals \in Seq(ApprovalType) /\ task.id \in 0..Len(approvals)
      /\ agents \in [stored : Nat, platform : Nat, made : Nat] /\ service.requires \in Approve!Returned
      /\ \A i \in 1..Len(approvals) : approvals[i] \in ApprovalType
  BY DEF ApproveInv, ApproveTyped
<1>b. /\ task.at # "ended" => task.report = "none" /\ task.sent = FALSE /\ task.executed = FALSE
      /\ task.at \in {"start", "checking", "signing"} =>
           task.id = task.resumes /\ task.aborted = FALSE /\ task.escape = "none" /\ task.asked = 0
      /\ task.at \in {"polling", "continuing"} => task.id # 0
      /\ task.at \in {"continuing", "submitting"} /\ task.id # 0 => approvals[task.id].state = "approved"
      /\ task.escape = "granted" \/ task.aborted = TRUE => task.id # 0 /\ approvals[task.id].state = "cancelled"
      /\ task.kind = "enroll" /\ task.at \notin {"start", "ended"} => task.agent = agents.stored
  BY DEF ApproveInv, ApproveBegins, ApproveUnder, ApproveSeen
<1>c. {"failed", "not enrolled", "unavailable", "pending", "server error", "declined", "cancelled", "timeout",
       "documents invalid", "done", "unconfirmed", "denied", "requirements unmet"} \subseteq TaskReports
  BY DEF TaskReports, Approve!Refusals
\* An ending that needs nothing said of the approval.
<1>d. ASSUME NEW code \in TaskReports \ {"done", "declined", "cancelled"}, Approve!Report(code), task.at # "ended",
             UNCHANGED <<approvals, service, agents>>
      PROVE  ApproveInv'
  BY <1>d, ApproveEnds
<1>e. ASSUME Approve!Identified
      PROVE  agents' \in [stored : Nat, platform : Nat, made : Nat]
  <2> DEFINE new == IF agents.platform # 0 THEN agents.platform ELSE agents.made + 1
  <2>1. new \in Nat /\ agents.made \in Nat
    BY <1>a
  <2>2. agents' = [stored |-> new, platform |-> new, made |-> IF new > agents.made THEN new ELSE agents.made]
    BY <1>e DEF Approve!Identified
  <2> HIDE DEF new
  <2> QED
    BY <2>1, <2>2
<1>1. CASE Approve!LookEnroll
  <2>1. CASE Approve!Report("failed") /\ UNCHANGED agents
    BY <1>1, <1>c, <1>d, <2>1 DEF Approve!LookEnroll
  <2>2. CASE task' = [task EXCEPT !.at = "checking", !.seen = service.requires, !.agent = agents'.stored]
             /\ (Approve!Identified \/ UNCHANGED agents)
    <3>1. agents' \in [stored : Nat, platform : Nat, made : Nat]
      BY <1>a, <1>e, <2>2
    <3>2. PICK n \in Nat : n = agents'.stored
      BY <3>1
    <3>3. PICK r \in Approve!Returned : r = service.requires
      BY <1>a
    <3>4. task' = [task EXCEPT !.at = "checking", !.seen = r, !.agent = n]
      BY <2>2, <3>2, <3>3
    <3>5. /\ task' \in TaskType /\ task'.at = "checking" /\ task'.agent = n
          /\ task'.kind = task.kind /\ task'.resumes = task.resumes /\ task'.id = task.id /\ task'.asked = task.asked
          /\ TaskUnder /\ TaskSilent /\ task'.report = task.report
      BY <1>a, <3>4 DEF TaskType, TaskUnder, TaskSilent
    <3> QED
      BY <1>1, <3>1, <3>2, <3>5, ApprovePrepares DEF Approve!LookEnroll
  <2> QED
    BY <1>1, <2>1, <2>2 DEF Approve!LookEnroll
<1>2. CASE Approve!LookGrant
  <2>1. CASE \E code \in {"failed", "unavailable", "not enrolled"} : Approve!Report(code)
    BY <1>2, <1>c, <1>d, <2>1 DEF Approve!LookGrant
  <2>2. CASE task' = [task EXCEPT !.at = "checking", !.agent = agents.stored]
    <3>1. PICK n \in Nat : n = agents.stored
      BY <1>a
    <3>2. task' = [task EXCEPT !.at = "checking", !.agent = n]
      BY <2>2, <3>1
    <3>3. /\ task' \in TaskType /\ task'.at = "checking" /\ task'.agent = n
          /\ task'.kind = task.kind /\ task'.resumes = task.resumes /\ task'.id = task.id /\ task'.asked = task.asked
          /\ TaskUnder /\ TaskSilent /\ task'.report = task.report
      BY <1>a, <3>2 DEF TaskType, TaskUnder, TaskSilent
    <3> QED
      BY <1>2, <1>a, <3>1, <3>3, ApprovePrepares DEF Approve!LookGrant
  <2> QED
    BY <1>2, <2>1, <2>2 DEF Approve!LookGrant
<1>3. CASE Approve!LookFetch
  <2> DEFINE n == IF agents.stored # 0 THEN agents.stored ELSE agents.platform
  <2>0. n \in Nat
    BY <1>a
  <2> HIDE DEF n
  <2>1. CASE \E code \in {"failed", "not enrolled"} : Approve!Report(code)
    BY <1>3, <1>c, <1>d, <2>1 DEF Approve!LookFetch
  <2>2. CASE task' = [task EXCEPT !.at = "signing", !.agent = n]
    <3>3. /\ task' \in TaskType /\ task'.at = "signing" /\ task'.agent = n
          /\ task'.kind = task.kind /\ task'.resumes = task.resumes /\ task'.id = task.id /\ task'.asked = task.asked
          /\ TaskUnder /\ TaskSilent /\ task'.report = task.report
      BY <1>a, <2>0, <2>2 DEF TaskType, TaskUnder, TaskSilent
    <3> QED
      BY <1>3, <1>a, <3>3, ApprovePrepares DEF Approve!LookFetch
  <2> QED
    BY <1>3, <2>1, <2>2 DEF Approve!LookFetch, n
<1>4. CASE Approve!Check
  <2>1. CASE (Approve!Report("failed") \/ Approve!Report("not enrolled")) /\ UNCHANGED agents
    BY <1>4, <1>c, <1>d, <2>1 DEF Approve!Check
  <2>2. CASE Approve!Goto("signing") /\ UNCHANGED agents
    <3>1. /\ task' \in TaskType /\ task'.at = "signing" /\ task'.report = task.report /\ task'.agent = task.agent
          /\ TaskKeeps /\ TaskUnder /\ TaskSilent
      BY <2>2, ApproveGoto DEF ApproveInv
    <3> QED
      BY <1>4, <1>a, <1>b, <2>2, <3>1, ApprovePrepares DEF Approve!Check, TaskKeeps
  <2>3. CASE Approve!Identified /\ task' = [task EXCEPT !.agent = agents'.stored, !.refreshed = TRUE]
    <3>1. agents' \in [stored : Nat, platform : Nat, made : Nat]
      BY <1>e, <2>3
    <3>2. PICK n \in Nat : n = agents'.stored
      BY <3>1
    <3>3. task' = [task EXCEPT !.agent = n, !.refreshed = TRUE]
      BY <2>3, <3>2
    <3>5. /\ task' \in TaskType /\ task'.at = task.at /\ task'.agent = n
          /\ task'.kind = task.kind /\ task'.resumes = task.resumes /\ task'.id = task.id /\ task'.asked = task.asked
          /\ TaskUnder /\ TaskSilent /\ task'.report = task.report
      BY <1>a, <3>3 DEF TaskType, TaskUnder, TaskSilent
    <3> QED
      BY <1>4, <3>1, <3>2, <3>5, ApprovePrepares DEF Approve!Check
  <2> QED
    BY <1>4, <2>1, <2>2, <2>3 DEF Approve!Check
\* A signature that needs nothing more: the documents go with it.
<1>f. ASSUME NEW ids \in Approve!Returned, task' = [task EXCEPT !.at = "submitting", !.ids = ids],
             task.at \in {"signing", "continuing"}, UNCHANGED <<approvals, service, agents>>,
             task.at = "signing" => task.resumes = 0
      PROVE  ApproveInv'
  <2>1. /\ task' \in TaskType /\ task'.at = "submitting" /\ task'.report = task.report /\ task'.agent = task.agent
        /\ TaskKeeps /\ TaskUnder /\ TaskSilent
    BY <1>a, <1>f DEF TaskType, TaskKeeps, TaskUnder, TaskSilent
  <2> QED
    BY <1>a, <1>b, <1>f, <2>1, ApproveGoes
\* Another look.
<1>g. ASSUME task' = [task EXCEPT !.at = "polling", !.rounds = @ + 1], task.at \in {"polling", "continuing"},
             UNCHANGED <<approvals, service, agents>>
      PROVE  ApproveInv'
  <2>1. PICK n \in Nat : n = task.rounds + 1
    BY <1>a DEF TaskType
  <2>2. task' = [task EXCEPT !.at = "polling", !.rounds = n]
    BY <1>g, <2>1
  <2>3. /\ task' \in TaskType /\ task'.at = "polling" /\ task'.report = task.report /\ task'.agent = task.agent
        /\ TaskKeeps /\ TaskUnder /\ TaskSilent
    BY <1>a, <2>2 DEF TaskType, TaskKeeps, TaskUnder, TaskSilent
  <2> QED
    BY <1>a, <1>b, <1>g, <2>3, ApproveGoes
<1>5. CASE Approve!Sign
  <2>1. CASE task.resumes # 0 /\ Approve!Goto("polling") /\ UNCHANGED approvals
    <3>1. /\ task' \in TaskType /\ task'.at = "polling" /\ task'.report = task.report /\ task'.agent = task.agent
          /\ TaskKeeps /\ TaskUnder /\ TaskSilent
      BY <2>1, ApproveGoto DEF ApproveInv
    <3> QED
      BY <1>5, <1>a, <1>b, <2>1, <3>1, ApproveGoes DEF Approve!Sign
  <2>2. CASE UNCHANGED approvals /\ \E code \in {"not enrolled", "failed", "denied", "requirements unmet"} : Approve!Report(code)
    BY <1>5, <1>c, <1>d, <2>2 DEF Approve!Sign
  <2>3. CASE task.resumes = 0 /\ UNCHANGED approvals
             /\ \E ids \in Approve!Returned : task' = [task EXCEPT !.at = "submitting", !.ids = ids]
    BY <1>5, <1>f, <2>3 DEF Approve!Sign
  <2>4. CASE task.resumes = 0
             /\ approvals' = Append(approvals, [kind |-> task.kind, state |-> "pending", documents |-> task.seen])
             /\ LET asking == [task EXCEPT !.id = Len(approvals'), !.asked = @ + 1]
                IN  task' = IF task.form = "defers" THEN [asking EXCEPT !.at = "ended", !.report = "pending"]
                            ELSE [asking EXCEPT !.at = "polling"]
    <3>1. task.asked + 1 = 1 /\ 1 \in Nat /\ "pending" \in TaskReports
      <4>1. task.at = "signing"
        BY <1>5 DEF Approve!Sign
      <4>2. task.asked = 0
        BY <4>1, <1>b
      <4>3. task.asked + 1 = 1
        BY <4>2
      <4> QED
        BY <4>3, <1>c
    <3>2. PICK n \in Nat : n = Len(approvals')
      BY <1>a, <2>4
    <3>3. PICK t1 \in TaskType : t1 = [task EXCEPT !.id = n, !.asked = 1]
      BY <1>a DEF TaskType
    <3>4. [task EXCEPT !.id = Len(approvals'), !.asked = @ + 1] = t1
      BY <1>a, <3>1, <3>2, <3>3 DEF TaskType
    <3>5. \/ task' = [t1 EXCEPT !.at = "ended", !.report = "pending"]
          \/ task' = [t1 EXCEPT !.at = "polling"]
      BY <2>4, <3>4
    <3>6. /\ t1.id = n /\ t1.asked = 1 /\ t1.kind = task.kind /\ t1.resumes = task.resumes /\ t1.seen = task.seen /\ t1.agent = task.agent
          /\ t1.aborted = task.aborted /\ t1.escape = task.escape /\ t1.sent = task.sent /\ t1.executed = task.executed
          /\ t1.report = task.report
      BY <1>a, <3>3 DEF TaskType
    <3>7. /\ task' \in TaskType /\ task'.id = n /\ task'.asked = 1 /\ task'.kind = t1.kind /\ task'.resumes = t1.resumes
          /\ task'.seen = t1.seen /\ task'.agent = t1.agent /\ task'.aborted = t1.aborted /\ task'.escape = t1.escape
          /\ task'.sent = t1.sent /\ task'.executed = t1.executed
          /\ \/ task'.at = "ended" /\ task'.report = "pending"
             \/ task'.at = "polling" /\ task'.report = t1.report
      <4>1. CASE task' = [t1 EXCEPT !.at = "ended", !.report = "pending"]
        BY <3>1, <3>6, <4>1 DEF TaskType
      <4>2. CASE task' = [t1 EXCEPT !.at = "polling"]
        BY <3>6, <4>2 DEF TaskType
      <4> QED
        BY <3>5, <4>1, <4>2
    <3>8. TaskUnder /\ TaskSilent
      BY <3>6, <3>7 DEF TaskUnder, TaskSilent
    <3> QED
      BY <1>5, <1>b, <2>4, <3>2, <3>6, <3>7, <3>8, ApproveAsks DEF Approve!Sign
  <2> QED
    BY <1>5, <2>1, <2>2, <2>3, <2>4 DEF Approve!Sign, Approve!Refusals
<1>6. CASE Approve!Poll
  <2>0. task.at = "polling" /\ task.id # 0 /\ UNCHANGED <<approvals, service, agents>>
    BY <1>6, <1>b DEF Approve!Poll
  <2>1. CASE Approve!Report("failed") \/ Approve!Report("server error")
    BY <1>c, <1>d, <2>0, <2>1
  <2>2. CASE approvals[task.id].state = "approved" /\ Approve!Goto("continuing")
    <3>1. /\ task' \in TaskType /\ task'.at = "continuing" /\ task'.report = task.report /\ task'.agent = task.agent
          /\ TaskKeeps /\ TaskUnder /\ TaskSilent
      BY <2>2, ApproveGoto DEF ApproveInv
    <3> QED
      BY <2>0, <2>2, <3>1, ApproveGoes
  <2>3. CASE approvals[task.id].state = "declined" /\ Approve!Report("declined")
    BY <1>c, <2>0, <2>3, ApproveEnds
  <2>4. CASE approvals[task.id].state = "cancelled" /\ Approve!Report("cancelled")
    BY <1>c, <2>0, <2>4, ApproveEnds
  <2>5. CASE task' = [task EXCEPT !.rounds = @ + 1]
    <3>1. task' = [task EXCEPT !.at = "polling", !.rounds = @ + 1]
      BY <1>a, <2>0, <2>5 DEF TaskType
    <3> QED
      BY <1>g, <2>0, <3>1
  <2> QED
    BY <1>6, <2>1, <2>2, <2>3, <2>4, <2>5 DEF Approve!Poll
<1>7. CASE Approve!Continue
  <2>1. CASE \E code \in {"failed", "denied", "requirements unmet"} : Approve!Report(code)
    BY <1>7, <1>c, <1>d, <2>1 DEF Approve!Continue
  <2>2. CASE task' = [task EXCEPT !.at = "polling", !.rounds = @ + 1]
    BY <1>7, <1>g, <2>2 DEF Approve!Continue
  <2>3. CASE \E ids \in Approve!Returned : task' = [task EXCEPT !.at = "submitting", !.ids = ids]
    BY <1>7, <1>f, <2>3 DEF Approve!Continue
  <2> QED
    BY <1>7, <2>1, <2>2, <2>3 DEF Approve!Continue, Approve!Refusals
<1>8. CASE Approve!TimeUp
  <2>1. CASE Approve!Report("timeout")
    BY <1>8, <1>c, <1>d, <2>1 DEF Approve!TimeUp
  <2>2. CASE task.kind = "fetch" /\ Approve!Report("cancelled")
    BY <1>8, <1>c, <2>2, ApproveEnds DEF Approve!TimeUp
  <2> QED
    BY <1>8, <2>1, <2>2 DEF Approve!TimeUp
<1>9. CASE Approve!Escape
  <2>1. task' = [task EXCEPT !.escape = "asked", !.aborted = FALSE]
    BY <1>9, <1>a DEF Approve!Escape, TaskType
  <2> QED
    BY <1>9, <2>1, ApproveEscapes DEF Approve!Escape, Approve!Waiting
<1>10. CASE Approve!Cancel
  <2>0. task.at \in {"polling", "continuing"} /\ task.id \in 1..Len(approvals) /\ UNCHANGED <<service, agents>>
    BY <1>10, <1>a, <1>b DEF Approve!Cancel, Approve!Waiting
  <2>1. CASE /\ approvals[task.id].state = "pending" /\ approvals' = [approvals EXCEPT ![task.id].state = "cancelled"]
             /\ task' = [task EXCEPT !.escape = "granted"]
    <3>1. /\ task' \in TaskType /\ task'.at = task.at /\ task'.report = task.report /\ task'.agent = task.agent /\ task'.ids = task.ids
          /\ TaskKeeps /\ TaskSilent /\ task'.escape = "granted" /\ task'.aborted = task.aborted
      BY <1>a, <2>1 DEF TaskType, TaskKeeps, TaskSilent
    <3> QED
      BY <2>0, <2>1, <3>1, ApproveUnmoved
  <2>2. CASE UNCHANGED approvals /\ task' = [task EXCEPT !.escape = "refused"]
    <3>1. PICK g \in BOOLEAN : g = task.aborted
      BY <1>a DEF TaskType
    <3>2. task' = [task EXCEPT !.escape = "refused", !.aborted = g]
      BY <1>a, <2>2, <3>1 DEF TaskType
    <3> QED
      BY <1>b, <2>0, <2>2, <3>1, <3>2, ApproveEscapes
  <2> QED
    BY <1>10, <2>1, <2>2 DEF Approve!Cancel
<1>11. CASE Approve!Escaped
  <2>0. task.at \in {"polling", "continuing"} /\ UNCHANGED <<approvals, service, agents>>
    BY <1>11 DEF Approve!Escaped, Approve!Waiting
  <2>1. CASE task' = [task EXCEPT !.escape = "none"]
    <3>1. PICK g \in BOOLEAN : g = task.aborted
      BY <1>a DEF TaskType
    <3>2. task' = [task EXCEPT !.escape = "none", !.aborted = g]
      BY <1>a, <2>1, <3>1 DEF TaskType
    <3> QED
      BY <1>b, <2>0, <3>1, <3>2, ApproveEscapes
  <2>2. CASE task.escape = "granted" /\ task' = [task EXCEPT !.escape = "none", !.aborted = TRUE]
    BY <1>b, <2>0, <2>2, ApproveEscapes
  <2> QED
    BY <1>11, <2>1, <2>2 DEF Approve!Escaped
<1>12. CASE Approve!Aborted
  BY <1>12, <1>b, <1>c, ApproveEnds DEF Approve!Aborted
<1>s. ASSUME NEW code \in TaskReports, NEW done \in BOOLEAN, task.at = "submitting",
             \/ task' = [task EXCEPT !.at = "ended", !.report = code, !.sent = TRUE] /\ done = FALSE
             \/ task' = [task EXCEPT !.at = "ended", !.report = code, !.sent = TRUE, !.executed = TRUE] /\ done = TRUE
      PROVE  /\ task' \in TaskType /\ TaskKeeps /\ TaskUnder /\ task'.at = "ended" /\ task'.report = code /\ task'.sent = TRUE
             /\ task'.executed = done /\ task'.agent = task.agent /\ task'.ids = task.ids
  <2>1. task.executed = FALSE
    BY <1>b, <1>s
  <2>2. CASE task' = [task EXCEPT !.at = "ended", !.report = code, !.sent = TRUE] /\ done = FALSE
    BY <1>a, <1>s, <2>1, <2>2 DEF TaskType, TaskKeeps, TaskUnder
  <2>3. CASE task' = [task EXCEPT !.at = "ended", !.report = code, !.sent = TRUE, !.executed = TRUE] /\ done = TRUE
    BY <1>a, <1>s, <2>3 DEF TaskType, TaskKeeps, TaskUnder
  <2> QED
    BY <1>s, <2>2, <2>3
<1>13. CASE Approve!Enroll
  <2>0. task.at = "submitting" /\ task.kind = "enroll" /\ UNCHANGED <<approvals, agents>>
    BY <1>13 DEF Approve!Enroll
  <2>1. CASE Approve!Report("documents invalid") /\ UNCHANGED service
    BY <1>c, <1>d, <2>0, <2>1
  <2>2. ASSUME task.resumes = 0 => task.ids = task.seen, NEW code \in {"failed", "denied", "requirements unmet"},
               task' = [task EXCEPT !.at = "ended", !.report = code, !.sent = TRUE], UNCHANGED service
        PROVE  ApproveInv'
    BY <1>c, <1>s, <2>0, <2>2, ApproveSends
  <2>3. ASSUME task.resumes = 0 => task.ids = task.seen, NEW code \in {"done", "failed", "unconfirmed"},
               task' = [task EXCEPT !.at = "ended", !.report = code, !.sent = TRUE, !.executed = TRUE],
               service'.requires = service.requires
        PROVE  ApproveInv'
    BY <1>c, <1>s, <2>0, <2>3, ApproveSends
  <2>4. service' = [service EXCEPT !.knows = @ \cup {task.agent}] => service'.requires = service.requires
    OBVIOUS
  <2> QED
    BY <1>13, <2>1, <2>2, <2>3, <2>4 DEF Approve!Enroll, Approve!DocumentsValid, Approve!Refusals
<1>14. CASE Approve!Malformed
  BY <1>14, <1>c, <1>d DEF Approve!Malformed
<1>15. CASE Approve!Use
  <2>0. task.at = "submitting" /\ task.kind # "enroll" /\ UNCHANGED <<approvals, agents, service>>
    BY <1>15 DEF Approve!Use
  <2>1. ASSUME NEW code \in {"failed", "denied", "requirements unmet", "not enrolled"}, code = "not enrolled" => task.kind = "fetch",
               task' = [task EXCEPT !.at = "ended", !.report = code, !.sent = TRUE]
        PROVE  ApproveInv'
    BY <1>c, <1>s, <2>0, <2>1, ApproveSends
  <2>2. ASSUME NEW code \in {"done", "failed"},
               task' = [task EXCEPT !.at = "ended", !.report = code, !.sent = TRUE, !.executed = TRUE]
        PROVE  ApproveInv'
    BY <1>c, <1>s, <2>0, <2>2, ApproveSends
  <2> QED
    BY <1>15, <2>1, <2>2 DEF Approve!Use, Approve!Refusals
<1>16. CASE Approve!Again
  <2>1. PICK kind \in Approve!Kinds, form \in {"terminal", "waits", "defers"}, r \in 0..Len(approvals) :
          task' = [Approve!Fresh(kind, form, r) EXCEPT !.number = task.number + 1]
    <3>1. PICK kind \in Approve!Kinds :
            \E form \in Approve!Forms(kind) : \E r \in {0} \cup {i \in 1..Len(approvals) : approvals[i].kind = kind} :
              task' = [Approve!Fresh(kind, form, r) EXCEPT !.number = task.number + 1]
      BY <1>16 DEF Approve!Again
    <3>2. Approve!Forms(kind) \subseteq {"terminal", "waits", "defers"}
      BY DEF Approve!Forms
    <3>3. {0} \cup {i \in 1..Len(approvals) : approvals[i].kind = kind} \subseteq 0..Len(approvals)
      BY <1>a
    <3> QED
      BY <3>1, <3>2, <3>3
  <2>2. r \in Nat
    BY <1>a
  <2>3. PICK f \in TaskType : f = Approve!Fresh(kind, form, r)
    BY <2>2, FreshTyped
  <2>4. PICK n \in Nat : n = task.number + 1
    BY <1>a DEF TaskType
  <2>5. task' = [f EXCEPT !.number = n]
    BY <2>1, <2>3, <2>4
  <2>6. /\ f.at = "start" /\ f.id = r /\ f.resumes = r /\ f.report = "none" /\ f.sent = FALSE /\ f.executed = FALSE
        /\ f.aborted = FALSE /\ f.escape = "none" /\ f.asked = 0
    BY <2>3 DEF Approve!Fresh
  <2>7. /\ task' \in TaskType /\ task'.at = "start" /\ task'.id = r /\ task'.resumes = r /\ task'.report = "none"
        /\ task'.sent = FALSE /\ task'.executed = FALSE /\ task'.aborted = FALSE /\ task'.escape = "none" /\ task'.asked = 0
    BY <2>5, <2>6 DEF TaskType
  <2>8. UNCHANGED <<approvals, service, agents>>
    BY <1>16 DEF Approve!Again
  <2> QED
    BY <1>a, <2>1, <2>7, <2>8
       DEF ApproveInv, ApproveTyped, ApproveBegins, ApproveUnder, ApproveSeen, Approve!ApprovalsTrue,
           Approve!SentIsApproved, Approve!EnrolledAsAsked, Approve!ReportTrue
<1>17. CASE Approve!Change
  <2>1. /\ agents' \in [stored : Nat, platform : Nat, made : Nat] /\ agents'.stored = agents.stored
        /\ service'.requires \in Approve!Returned /\ UNCHANGED <<task, approvals>>
    <3>0. Approve!Change /\ UNCHANGED <<task, approvals>>
      BY <1>17 DEF Approve!Change
    <3>1. CASE UNCHANGED agents /\ \E r \in Approve!Returned \ {service.requires} :
                 service' = [service EXCEPT !.requires = r, !.changed = TRUE]
      <4>1. PICK r \in Approve!Returned : service' = [service EXCEPT !.requires = r, !.changed = TRUE]
        BY <3>1
      <4>2. service'.requires = r \/ service'.requires = service.requires
        BY <4>1
      <4> QED
        BY <3>0, <3>1, <4>2, <1>a
    <3>2. CASE agents' = [agents EXCEPT !.platform = 0] /\ service' = [service EXCEPT !.changed = TRUE]
      <4>1. agents' \in [stored : Nat, platform : Nat, made : Nat] /\ agents'.stored = agents.stored
        BY <1>a, <3>2
      <4>2. service'.requires = service.requires
        BY <3>2
      <4> QED
        BY <3>0, <4>1, <4>2, <1>a
    <3> QED
      BY <1>17, <3>1, <3>2 DEF Approve!Change
  <2> QED
    BY <2>1
       DEF ApproveInv, ApproveTyped, ApproveBegins, ApproveUnder, ApproveSeen, Approve!ApprovalsTrue,
           Approve!SentIsApproved, Approve!EnrolledAsAsked, Approve!ReportTrue
<1>18. ASSUME NEW i \in 1..Len(approvals), Approve!Decide(i) PROVE ApproveInv'
  <2>1. PICK state \in {"approved", "declined", "cancelled"} : approvals' = [approvals EXCEPT ![i].state = state]
    BY <1>18 DEF Approve!Decide
  <2>2. task' = task /\ task' \in TaskType /\ TaskKeeps /\ TaskSilent
    BY <1>18, <1>a DEF Approve!Decide, TaskKeeps, TaskSilent
  <2> QED
    BY <1>18, <2>1, <2>2, ApproveUnmoved DEF Approve!Decide
<1>19. CASE UNCHANGED Approve!vars
  BY <1>19
     DEF Approve!vars, ApproveInv, ApproveTyped, ApproveBegins, ApproveUnder, ApproveSeen, Approve!ApprovalsTrue,
         Approve!SentIsApproved, Approve!EnrolledAsAsked, Approve!ReportTrue
<1> QED
  BY <1>1, <1>2, <1>3, <1>4, <1>5, <1>6, <1>7, <1>8, <1>9, <1>10, <1>11, <1>12, <1>13, <1>14, <1>15, <1>16, <1>17, <1>18, <1>19
     DEF Approve!Next

-----------------------------------------------------------------------------
(* StatusWatch.  Changes is a recursive function: facts about it are proved *)
(* by the least number that would refute them.                              *)

LEMMA LeastNatural ==
  ASSUME NEW T \in SUBSET Nat, T # {}
  PROVE  \E n \in T : \A m \in T : n <= m
<1> DEFINE R == {ss \in Nat \X Nat : ss[1] < ss[2]}
<1>1. IsWellFoundedOn(R, Nat)
  BY NatLessThanWellFounded DEF OpToRel
<1> HIDE DEF R
<1>2. PICK x \in T : \A y \in T : ~(<<y, x>> \in R)
  BY <1>1, WFMin
<1>3. ASSUME NEW y \in T PROVE x <= y
  <2>1. x \in Nat /\ y \in Nat /\ <<y, x>> \in Nat \X Nat
    OBVIOUS
  <2>2. ~(<<y, x>>[1] < <<y, x>>[2])
    BY <1>2, <2>1 DEF R
  <2> QED
    BY <2>1, <2>2
<1> QED
  BY <1>3

\* A set of numbers that has 0 and with every number the next has all up to n.
LEMMA UpTo ==
  ASSUME NEW n \in Nat, NEW T, 0 \in T, \A k \in 0..(n - 1) : k \in T => k + 1 \in T
  PROVE  0..n \subseteq T
<1> SUFFICES ASSUME (0..n) \ T # {} PROVE FALSE
  OBVIOUS
<1> DEFINE U == (0..n) \ T
<1>0. U \in SUBSET Nat /\ U # {}
  OBVIOUS
<1> HIDE DEF U
<1>1. PICK k \in U : \A m \in U : k <= m
  BY <1>0, LeastNatural
<1>2. k \in (0..n) \ T /\ \A m \in (0..n) \ T : k <= m
  BY <1>1 DEF U
<1>3. k \in Nat /\ k # 0 /\ k <= n /\ k - 1 \in 0..(n - 1) /\ k - 1 \in 0..n /\ ~(k <= k - 1)
  BY <1>2
<1>4. k - 1 \in T
  BY <1>2, <1>3
<1>5. (k - 1) + 1 \in T /\ (k - 1) + 1 = k
  BY <1>3, <1>4
<1> QED
  BY <1>2, <1>5

\* A function that gives each value from the one before exists.
Recursor(n, V, base, F) == n \in Nat /\ base \in V /\ F \in [1..n -> [V -> V]]

Recursive(g, n, V, base, F) ==
  g \in [0..n -> V] /\ g[0] = base /\ \A k \in 1..n : g[k] = F[k][g[k - 1]]

LEMMA Recursion ==
  ASSUME NEW n, NEW V, NEW base, NEW F, Recursor(n, V, base, F)
  PROVE  \E g : Recursive(g, n, V, base, F)
<1> DEFINE T == {k \in 0..n : \E g : Recursive(g, k, V, base, F)}
<1>0. n \in Nat /\ base \in V /\ F \in [1..n -> [V -> V]]
  BY DEF Recursor
<1>1. 0 \in T
  <2>1. Recursive([j \in 0..0 |-> base], 0, V, base, F)
    BY <1>0 DEF Recursive
  <2>2. 0 \in 0..n
    BY <1>0
  <2> QED
    BY <2>1, <2>2
<1>2. ASSUME NEW k \in 0..(n - 1), k \in T
      PROVE  k + 1 \in T
  <2>1. PICK g : Recursive(g, k, V, base, F)
    BY <1>2
  <2> DEFINE h == [j \in 0..(k + 1) |-> IF j = k + 1 THEN F[k + 1][g[k]] ELSE g[j]]
  <2>2. k \in Nat /\ k + 1 \in 1..n /\ k + 1 \in 0..n /\ k \in 0..k
    BY <1>0
  <2>3. g[k] \in V /\ F[k + 1][g[k]] \in V
    BY <1>0, <2>1, <2>2 DEF Recursive
  <2>4. h \in [0..(k + 1) -> V] /\ h[0] = base
    BY <2>1, <2>2, <2>3 DEF Recursive
  <2>5. ASSUME NEW j \in 1..(k + 1) PROVE h[j] = F[j][h[j - 1]]
    <3>1. j \in 0..(k + 1) /\ j - 1 \in 0..(k + 1) /\ j - 1 # k + 1
      BY <2>2
    <3>2. h[j - 1] = g[j - 1]
      BY <3>1
    <3>3. CASE j = k + 1
      <4>1. j - 1 = k /\ h[j] = F[k + 1][g[k]]
        BY <2>2, <3>1, <3>3
      <4> QED
        BY <3>2, <3>3, <4>1
    <3>4. CASE j # k + 1
      <4>1. j \in 1..k /\ h[j] = g[j]
        BY <2>2, <3>1, <3>4
      <4> QED
        BY <2>1, <3>2, <4>1 DEF Recursive
    <3> QED
      BY <3>3, <3>4
  <2> HIDE DEF h
  <2>6. Recursive(h, k + 1, V, base, F)
    BY <2>4, <2>5 DEF Recursive
  <2> QED
    BY <2>2, <2>6
<1>3. n \in T
  <2>1. n \in 0..n
    BY <1>0
  <2> HIDE DEF T
  <2> QED
    BY <1>0, <1>1, <1>2, <2>1, UpTo
<1> QED
  BY <1>3

\* The changes among the first answers, and the next.
Walk(g, answers, X) ==
  /\ g \in [0..Len(answers) -> Seq(X)] /\ g[0] = <<>>
  /\ \A k \in 1..Len(answers) :
       g[k] = IF k > 1 /\ answers[k] = answers[k - 1] THEN g[k - 1] ELSE Append(g[k - 1], answers[k])

LEMMA WalkExists ==
  ASSUME NEW X, NEW answers \in Seq(X)
  PROVE  \E g : Walk(g, answers, X)
<1> DEFINE n == Len(answers)
           F == [k \in 1..n |-> [v \in Seq(X) |-> IF k > 1 /\ answers[k] = answers[k - 1] THEN v ELSE Append(v, answers[k])]]
<1>1. n \in Nat /\ <<>> \in Seq(X) /\ \A k \in 1..n : answers[k] \in X
  OBVIOUS
<1>2. F \in [1..n -> [Seq(X) -> Seq(X)]]
  BY <1>1
<1>3. \E g : Recursive(g, n, Seq(X), <<>>, F)
  <2>1. Recursor(n, Seq(X), <<>>, F)
    BY <1>1, <1>2 DEF Recursor
  <2> HIDE DEF n, F
  <2> QED
    BY <2>1, Recursion
<1>4. PICK g : Recursive(g, n, Seq(X), <<>>, F)
  BY <1>3
<1>5. ASSUME NEW k \in 1..n
      PROVE  g[k] = IF k > 1 /\ answers[k] = answers[k - 1] THEN g[k - 1] ELSE Append(g[k - 1], answers[k])
  <2>1. k - 1 \in 0..n
    BY <1>1
  <2>2. g[k - 1] \in Seq(X) /\ g[k] = F[k][g[k - 1]]
    BY <1>4, <2>1 DEF Recursive
  <2> QED
    BY <2>2
<1> QED
  BY <1>4, <1>5 DEF Recursive, Walk

LEMMA ChangesAre ==
  ASSUME NEW X, NEW answers \in Seq(X), NEW g, Walk(g, answers, X)
  PROVE  Status!Changes(answers) = g[Len(answers)]
<1> DEFINE n == Len(answers)
           Is(f) == f = [k \in 0..n |-> IF k = 0 THEN <<>>
                                        ELSE IF k > 1 /\ answers[k] = answers[k - 1] THEN f[k - 1] ELSE Append(f[k - 1], answers[k])]
           h == CHOOSE f : Is(f)
<1>1. n \in Nat
  OBVIOUS
<1>2. Is(g)
  <2>1. ASSUME NEW k \in 0..n
        PROVE  g[k] = IF k = 0 THEN <<>>
                      ELSE IF k > 1 /\ answers[k] = answers[k - 1] THEN g[k - 1] ELSE Append(g[k - 1], answers[k])
    <3>1. k = 0 \/ k \in 1..n
      BY <1>1
    <3> QED
      BY <3>1 DEF Walk
  <2>2. g = [k \in 0..n |-> g[k]]
    BY DEF Walk
  <2> QED
    BY <2>1, <2>2
<1>3. Is(h)
  <2> HIDE DEF Is
  <2> QED
    BY <1>2
<1>4. \A k \in 0..n : h[k] = IF k = 0 THEN <<>>
                             ELSE IF k > 1 /\ answers[k] = answers[k - 1] THEN h[k - 1] ELSE Append(h[k - 1], answers[k])
  <2> HIDE DEF h
  <2> QED
    BY <1>3
<1>5. Status!Changes(answers) = h[n]
  BY DEF Status!Changes
<1> HIDE DEF Is, h
<1> DEFINE T == {k \in 0..n : h[k] = g[k]}
<1>6. 0 \in T
  BY <1>1, <1>4 DEF Walk
<1>7. ASSUME NEW k \in 0..(n - 1), k \in T PROVE k + 1 \in T
  <2>1. k + 1 \in 1..n /\ k + 1 \in 0..n /\ k + 1 # 0 /\ (k + 1) - 1 = k
    BY <1>1
  <2>2. h[k] = g[k]
    BY <1>7
  <2> QED
    BY <1>4, <2>1, <2>2 DEF Walk
<1>8. 0..n \subseteq T
  <2> HIDE DEF T
  <2> QED
    BY <1>1, <1>6, <1>7, UpTo
<1>9. n \in T
  BY <1>1, <1>8
<1> QED
  BY <1>5, <1>9

LEMMA NoChanges == Status!Changes(<<>>) = <<>>
<1>1. PICK g : Walk(g, <<>>, {})
  <2>1. <<>> \in Seq({})
    OBVIOUS
  <2> QED
    BY <2>1, WalkExists
<1>2. <<>> \in Seq({}) /\ Len(<<>>) = 0 /\ g[0] = <<>>
  BY <1>1 DEF Walk
<1>3. Status!Changes(<<>>) = g[Len(<<>>)]
  BY <1>1, <1>2, ChangesAre
<1> QED
  BY <1>2, <1>3

\* Another answer is a change unless the last was the same.
LEMMA ChangesGrow ==
  ASSUME NEW X, NEW answers \in Seq(X), NEW x \in X
  PROVE  /\ Status!Changes(answers) \in Seq(X)
         /\ Status!Changes(Append(answers, x)) =
              IF answers # <<>> /\ Status!Last(answers) = x THEN Status!Changes(answers) ELSE Append(Status!Changes(answers), x)
<1> DEFINE n == Len(answers)
           more == Append(answers, x)
<1>1. n \in Nat /\ more \in Seq(X) /\ Len(more) = n + 1 /\ more[n + 1] = x /\ \A k \in 1..n : more[k] = answers[k]
  OBVIOUS
<1> HIDE DEF more
<1>2. PICK g : Walk(g, more, X)
  BY <1>1, WalkExists
<1> DEFINE h == [k \in 0..n |-> g[k]]
<1>3. 0..n \subseteq 0..(n + 1) /\ 0 \in 0..n /\ n \in 0..n
  BY <1>1
<1>4. ASSUME NEW k \in 1..n
      PROVE  h[k] = IF k > 1 /\ answers[k] = answers[k - 1] THEN h[k - 1] ELSE Append(h[k - 1], answers[k])
  <2>1. k \in 1..(n + 1) /\ k \in 0..n /\ k - 1 \in 0..n /\ (k > 1 => k - 1 \in 1..n)
    BY <1>1
  <2>2. h[k] = g[k] /\ h[k - 1] = g[k - 1] /\ more[k] = answers[k] /\ (k > 1 => more[k - 1] = answers[k - 1])
    BY <1>1, <2>1
  <2>3. g[k] = IF k > 1 /\ more[k] = more[k - 1] THEN g[k - 1] ELSE Append(g[k - 1], more[k])
    BY <1>1, <1>2, <2>1 DEF Walk
  <2> HIDE DEF h
  <2> QED
    BY <2>2, <2>3
<1>5. Walk(h, answers, X)
  <2>1. h \in [0..n -> Seq(X)] /\ h[0] = <<>>
    BY <1>1, <1>2, <1>3 DEF Walk
  <2> HIDE DEF h
  <2> QED
    BY <1>4, <2>1 DEF Walk
<1>6. Status!Changes(answers) = g[n] /\ g[n] \in Seq(X)
  <2>1. h[n] = g[n]
    BY <1>3
  <2>2. Status!Changes(answers) = h[n]
    <3> HIDE DEF h
    <3> QED
      BY <1>5, ChangesAre
  <2>3. g[n] \in Seq(X)
    BY <1>1, <1>2, <1>3 DEF Walk
  <2> QED
    BY <2>1, <2>2, <2>3
<1>7. Status!Changes(more) = g[n + 1]
  BY <1>1, <1>2, ChangesAre
<1>8. g[n + 1] = IF n + 1 > 1 /\ more[n + 1] = more[n] THEN g[n] ELSE Append(g[n], more[n + 1])
  <2>1. n + 1 \in 1..(n + 1) /\ (n + 1) - 1 = n
    BY <1>1
  <2>2. g[n + 1] = IF n + 1 > 1 /\ more[n + 1] = more[(n + 1) - 1] THEN g[(n + 1) - 1] ELSE Append(g[(n + 1) - 1], more[n + 1])
    BY <1>1, <1>2, <2>1 DEF Walk
  <2> QED
    BY <2>1, <2>2
<1>9. n + 1 > 1 <=> answers # <<>>
  BY <1>1
<1>10. answers # <<>> => more[n] = Status!Last(answers)
  <2>1. answers # <<>> => n \in 1..n
    BY <1>1
  <2> QED
    BY <1>1, <2>1 DEF Status!Last
<1> QED
  BY <1>1, <1>6, <1>7, <1>8, <1>9, <1>10 DEF more

\* The watch, the answers and the frames are of one protocol.
WatchTyped ==
  /\ watch \in Status!Watch /\ watch.options \in Status!Commands
  /\ watched \in Status!Transactions(watch.options.protocol)
  /\ seen \in Seq(Status!Transactions(watch.options.protocol))
  /\ shown \in Seq(Status!Transactions(watch.options.protocol))
  /\ file \in BOOLEAN

\* What an ending says of the last answer.
EndingIs(e) ==
  /\ e = "settled" => /\ Status!Class(Status!Last(seen)) = "settled"
                      /\ watch.options.protocol = "x402" /\ watch.options.saves => file
  /\ e = "expired" => Status!Class(Status!Last(seen)) = "expired"
  /\ e = "failed" => \/ Status!Class(Status!Last(seen)) = "failed"
                     \/ watch.options.view /\ ~watch.options.waits /\ Status!Class(Status!Last(seen)) = "pending"
  /\ e = "timed out" => /\ Status!Class(Status!Last(seen)) = "pending"
                        /\ Len(seen) = watch.options.attempts \/ watch.late

\* A watch that goes on has shown the last answer, which was pending, and has not counted enough.
WatchOn ==
  watch.at \in {"fetch", "sleep"} =>
    /\ watch.phase = "none" /\ watch.ending = "none"
    /\ shown = Status!Changes(seen)
    /\ seen = <<>> <=> shown = <<>>
    /\ seen # <<>> => Status!Last(shown) = Status!Last(seen) /\ Status!Class(Status!Last(seen)) = "pending"
    /\ watch.options.attempts > 0 => Len(seen) < watch.options.attempts

ShownIs(e) ==
  e # "thrown" => shown = Status!Changes(seen) \/ shown = Append(Status!Changes(seen), Status!Last(seen))

WatchBefore == \A i \in 1..Len(seen) - 1 : Status!Class(seen[i]) = "pending"

FileIs == file = (\E i \in 1..Len(shown) : Status!Saves(shown[i]))

WatchEnding ==
  /\ EndingIs(watch.phase) /\ EndingIs(watch.ending)
  /\ watch.at = "settling" => watch.ending = "none"
  /\ ShownIs(watch.ending)

WatchInv == WatchTyped /\ WatchOn /\ WatchBefore /\ FileIs /\ WatchEnding

LEMMA WatchTrue == WatchInv => Status!StatusTrue
<1> SUFFICES ASSUME WatchInv PROVE Status!StatusTrue
  OBVIOUS
<1>1. watch.at \in {"fetch", "sleep", "settling", "ended"} /\ watch.ending \in Status!Endings
  BY DEF WatchInv, WatchTyped, Status!Watch
<1>2. Status!FramesAreChanges
  BY <1>1 DEF WatchInv, WatchOn, WatchEnding, ShownIs, Status!FramesAreChanges
<1>3. Status!EndingTrue
  BY DEF WatchInv, WatchOn, WatchBefore, WatchEnding, EndingIs, Status!EndingTrue, Status!options
<1>4. Status!CredentialSaved
  BY DEF WatchInv, FileIs, WatchEnding, EndingIs, Status!CredentialSaved, Status!options
<1> QED
  BY <1>2, <1>3, <1>4 DEF Status!StatusTrue

LEMMA WatchInit == Status!Init => WatchInv
<1> SUFFICES ASSUME Status!Init PROVE WatchInv
  OBVIOUS
<1>1. PICK o \in Status!Commands :
        watch = [options |-> o, at |-> "fetch", late |-> o.deadline = "now", phase |-> "none", ending |-> "none"]
  BY DEF Status!Init
<1>2. watched = Status!Beginning(o.protocol) /\ seen = <<>> /\ shown = <<>> /\ file = FALSE
  BY <1>1 DEF Status!Init
<1>3. o \in Status!Options /\ o.attempts \in {0, 2} /\ o.protocol \in {"x402", "mpp"}
  BY DEF Status!Commands, Status!Options
<1>4. watch \in Status!Watch
  BY <1>1, <1>3 DEF Status!Watch, Status!Endings
<1>5. watched \in Status!Transactions(o.protocol)
  BY <1>2, <1>3 DEF Status!Beginning, Status!Transactions
<1>6. seen \in Seq(Status!Transactions(o.protocol)) /\ shown \in Seq(Status!Transactions(o.protocol)) /\ Len(seen) = 0 /\ Len(shown) = 0
  BY <1>2
<1>7. WatchTyped
  BY <1>1, <1>2, <1>4, <1>5, <1>6 DEF WatchTyped
<1>8. WatchOn
  BY <1>1, <1>2, <1>3, <1>6, NoChanges DEF WatchOn
<1>9. WatchBefore /\ FileIs
  <2>1. 1..(Len(seen) - 1) = {} /\ 1..Len(shown) = {}
    BY <1>6
  <2> QED
    BY <1>2, <2>1 DEF WatchBefore, FileIs
<1>10. WatchEnding
  BY <1>1, <1>2, <1>6, NoChanges DEF WatchEnding, EndingIs, ShownIs
<1> QED
  BY <1>7, <1>8, <1>9, <1>10 DEF WatchInv

\* Where the watch is after a step.
WatchAt(label, phase, ending) ==
  /\ watch' \in Status!Watch /\ watch'.options = watch.options /\ watch'.late = watch.late
  /\ watch'.at = label /\ watch'.phase = phase /\ watch'.ending = ending

LEMMA WatchEnds ==
  ASSUME WatchTyped, NEW e \in Status!Endings, Status!Ends(e)
  PROVE  \/ watch.options.view /\ WatchAt("settling", e, watch.ending)
         \/ ~watch.options.view /\ WatchAt("ended", watch.phase, e)
<1>1. watch \in Status!Watch
  BY DEF WatchTyped
<1>2. CASE Status!View(e)
  BY <1>1, <1>2 DEF Status!View, Status!options, Status!Watch, WatchAt
<1>3. CASE Status!Return(e)
  BY <1>1, <1>3 DEF Status!Return, Status!options, Status!Watch, WatchAt
<1> QED
  BY <1>2, <1>3 DEF Status!Ends

LEMMA WatchSleeps ==
  ASSUME WatchTyped, Status!Sleep
  PROVE  WatchAt("sleep", watch.phase, watch.ending)
  BY DEF WatchTyped, Status!Watch, Status!Sleep, WatchAt

\* What does not depend on where the watch is stays the same.
LEMMA SameOptions ==
  ASSUME watch'.options = watch.options, NEW t
  PROVE  Status!Class(t)' = Status!Class(t) /\ Status!Saves(t)' = Status!Saves(t)
  BY DEF Status!Class, Status!Saves, Status!Carries, Status!options, Status!PayloadClass, Status!TransactionClass,
         Status!CarriesPayload, Status!CarriesCredential

\* An answer: all before it were pending, and if it is shown it is a change or repeats the last.
LEMMA WatchAsks ==
  ASSUME WatchInv, watch.at = "fetch", watch'.options = watch.options, seen' = Append(seen, watched)
  PROVE  /\ seen' \in Seq(Status!Transactions(watch.options.protocol)) /\ seen' # <<>> /\ Status!Last(seen)' = watched
         /\ Len(seen') = Len(seen) + 1 /\ Len(seen) \in Nat
         /\ WatchBefore'
         /\ Status!Changes(seen)' = IF ~Status!Unequal(watched) THEN shown ELSE Append(shown, watched)
<1> DEFINE X == Status!Transactions(watch.options.protocol)
<1>1. seen \in Seq(X) /\ shown \in Seq(X) /\ watched \in X /\ Len(seen) \in Nat
  BY DEF WatchInv, WatchTyped
<1>2. /\ shown = Status!Changes(seen) /\ (seen = <<>> <=> shown = <<>>)
      /\ seen # <<>> => Status!Last(shown) = Status!Last(seen) /\ Status!Class(Status!Last(seen)) = "pending"
  BY DEF WatchInv, WatchOn
<1> HIDE DEF X
<1>3. seen' \in Seq(X) /\ Len(seen') = Len(seen) + 1 /\ seen'[Len(seen) + 1] = watched /\ \A i \in 1..Len(seen) : seen'[i] = seen[i]
  BY <1>1
<1>4. Status!Last(seen)' = watched /\ seen' # <<>>
  BY <1>1, <1>3 DEF Status!Last
<1>5. WatchBefore'
  <2>1. ASSUME NEW i \in 1..(Len(seen') - 1) PROVE Status!Class(seen[i])'  = "pending"
    <3>1. i \in 1..Len(seen)
      BY <1>1, <1>3
    <3>2. PICK t : t = seen[i]
      OBVIOUS
    <3>3. Status!Class(t) = "pending"
      <4>1. CASE i = Len(seen)
        <5>1. seen # <<>> /\ t = Status!Last(seen)
          BY <3>1, <3>2, <4>1 DEF Status!Last
        <5> QED
          BY <1>2, <5>1
      <4>2. CASE i # Len(seen)
        <5>1. i \in 1..(Len(seen) - 1)
          BY <1>1, <3>1, <4>2
        <5> QED
          BY <3>2, <5>1 DEF WatchInv, WatchBefore
      <4> QED
        BY <4>1, <4>2
    <3>4. Status!Class(t)' = Status!Class(t)
      BY SameOptions
    <3>5. seen'[i] = t
      BY <1>3, <3>1, <3>2
    <3>6. Status!Class(seen[i])' = Status!Class(t)'
      BY <3>5 DEF Status!Class, Status!PayloadClass, Status!TransactionClass
    <3> QED
      BY <3>3, <3>4, <3>6
  <2> QED
    BY <2>1 DEF WatchBefore
<1>6. Status!Changes(seen)' = Status!Changes(Append(seen, watched))
  BY DEF Status!Changes
<1>7. Status!Changes(Append(seen, watched)) =
        IF seen # <<>> /\ Status!Last(seen) = watched THEN Status!Changes(seen) ELSE Append(Status!Changes(seen), watched)
  BY <1>1, ChangesGrow
<1>8. Status!Unequal(watched) <=> ~(seen # <<>> /\ Status!Last(seen) = watched)
  BY <1>2 DEF Status!Unequal
<1> QED
  BY <1>1, <1>2, <1>3, <1>4, <1>5, <1>6, <1>7, <1>8 DEF X

\* A frame that is shown, and saved if it is to be.
LEMMA WatchFrames ==
  ASSUME WatchInv, watch'.options = watch.options, shown' = Append(shown, watched), file' = (file \/ Status!Saves(watched))
  PROVE  /\ shown' \in Seq(Status!Transactions(watch.options.protocol)) /\ shown' # <<>> /\ Status!Last(shown)' = watched
         /\ file' \in BOOLEAN /\ FileIs' /\ (Status!Saves(watched) => file')
<1> DEFINE X == Status!Transactions(watch.options.protocol)
<1>1. shown \in Seq(X) /\ watched \in X /\ Len(shown) \in Nat /\ file \in BOOLEAN
  BY DEF WatchInv, WatchTyped
<1> HIDE DEF X
<1>3. shown' \in Seq(X) /\ Len(shown') = Len(shown) + 1 /\ shown'[Len(shown) + 1] = watched /\ \A i \in 1..Len(shown) : shown'[i] = shown[i]
  BY <1>1
<1>4. Status!Last(shown)' = watched /\ shown' # <<>>
  BY <1>1, <1>3 DEF Status!Last
<1>5. Status!Saves(watched) \in BOOLEAN
  BY DEF Status!Saves
<1>6. file' \in BOOLEAN /\ (Status!Saves(watched) => file')
  BY <1>1, <1>5
<1>7. file = (\E i \in 1..Len(shown) : Status!Saves(shown[i]))
  BY DEF WatchInv, FileIs
<1>8. ASSUME NEW i, NEW t, shown'[i] = t
      PROVE  Status!Saves(shown[i])' = Status!Saves(t)
  <2>1. Status!Saves(t)' = Status!Saves(t)
    BY SameOptions
  <2>2. Status!Saves(shown[i])' = Status!Saves(t)'
    BY <1>8 DEF Status!Saves, Status!Carries, Status!CarriesPayload, Status!CarriesCredential
  <2> QED
    BY <2>1, <2>2
<1>9. ASSUME NEW i \in 1..Len(shown) PROVE Status!Saves(shown[i])' = Status!Saves(shown[i])
  <2>1. PICK t : t = shown[i]
    OBVIOUS
  <2> QED
    BY <1>3, <1>8, <2>1
<1>10. PICK m, x : m = Len(shown) + 1 /\ x = watched
  OBVIOUS
<1>11. Status!Saves(shown[m])' = Status!Saves(watched)
  BY <1>3, <1>8, <1>10
<1>12. \A i : i \in 1..Len(shown') <=> i \in 1..Len(shown) \/ i = m
  BY <1>1, <1>3, <1>10
<1>13. FileIs'
  <2>1. (\E i \in 1..Len(shown') : Status!Saves(shown[i])') <=> (\E i \in 1..Len(shown) : Status!Saves(shown[i])) \/ Status!Saves(watched)
    BY <1>9, <1>11, <1>12
  <2>2. (\E i \in 1..Len(shown') : Status!Saves(shown[i])') = file'
    BY <1>1, <1>5, <1>6, <1>7, <2>1
  <2> QED
    BY <2>2 DEF FileIs
<1> QED
  BY <1>3, <1>4, <1>6, <1>13 DEF X

\* A frame that cannot be saved.
LEMMA WatchThrows ==
  ASSUME WatchInv, watch.at = "fetch", Status!Ask,
         watch' = [watch EXCEPT !.at = "ended", !.ending = "thrown"], UNCHANGED <<shown, file>>
  PROVE  WatchInv'
<1>0. WatchTyped /\ watch.phase = "none" /\ watch.ending = "none" /\ seen' = Append(seen, watched) /\ watched' = watched
      /\ watch \in Status!Watch
  BY DEF WatchInv, WatchOn, WatchTyped, Status!Ask
<1>1. WatchAt("ended", "none", "thrown")
  BY <1>0 DEF WatchAt, Status!Watch, Status!Endings
<1>2. watch'.options = watch.options /\ watch'.late = watch.late /\ watch' \in Status!Watch
  BY <1>1 DEF WatchAt
<1>3. /\ seen' \in Seq(Status!Transactions(watch.options.protocol)) /\ WatchBefore'
  BY <1>0, <1>2, WatchAsks
<1>5. WatchTyped'
  BY <1>0, <1>2, <1>3 DEF WatchTyped
<1>6. FileIs'
  <2>1. ASSUME NEW i PROVE Status!Saves(shown[i])' = Status!Saves(shown[i])
    BY <1>2 DEF Status!Saves, Status!Carries, Status!CarriesPayload, Status!CarriesCredential, Status!options
  <2> QED
    BY <2>1 DEF WatchInv, FileIs
<1>7. WatchOn' /\ WatchEnding'
  BY <1>1 DEF WatchAt, WatchOn, WatchEnding, EndingIs, ShownIs
<1> QED
  BY <1>3, <1>5, <1>6, <1>7 DEF WatchInv

\* An answer that ends the watch, with what it came to.
LEMMA WatchTerminates ==
  ASSUME WatchInv, watch.at = "fetch", Status!Ask, NEW e \in Status!Endings, e # "none", e # "thrown",
         Status!Frame(watched, Status!Ends(e)),
         e = "settled" => /\ Status!Class(watched) = "settled"
                          /\ watch.options.protocol = "x402" /\ watch.options.saves => Status!Saves(watched),
         e = "expired" => Status!Class(watched) = "expired",
         e = "failed" => \/ Status!Class(watched) = "failed"
                         \/ watch.options.view /\ ~watch.options.waits /\ Status!Class(watched) = "pending",
         e = "timed out" => /\ Status!Class(watched) = "pending"
                            /\ Len(seen) + 1 = watch.options.attempts \/ watch.late
  PROVE  WatchInv'
<1>0. WatchTyped /\ watch.phase = "none" /\ watch.ending = "none" /\ seen' = Append(seen, watched) /\ watched' = watched
      /\ shown = Status!Changes(seen) /\ watch \in Status!Watch
  BY DEF WatchInv, WatchOn, WatchTyped, Status!Ask
<1>1. PICK x : x = watched
  OBVIOUS
<1>2. ASSUME watch'.options = watch.options
      PROVE  Status!Class(Status!Last(seen))' = Status!Class(watched)
  <2>1. Status!Last(seen)' = x
    BY <1>0, <1>1, <1>2, WatchAsks
  <2>2. Status!Class(Status!Last(seen))' = Status!Class(x)'
    BY <2>1 DEF Status!Class, Status!PayloadClass, Status!TransactionClass
  <2>3. Status!Class(x)' = Status!Class(x)
    BY <1>2, SameOptions
  <2> QED
    BY <1>1, <2>2, <2>3
<1>3. CASE Status!Ends(e) /\ shown' = Append(shown, watched) /\ file' = (file \/ Status!Saves(watched))
  <2>1. \/ watch.options.view /\ WatchAt("settling", e, "none")
        \/ ~watch.options.view /\ WatchAt("ended", "none", e)
    BY <1>0, <1>3, WatchEnds
  <2>2. watch'.options = watch.options /\ watch'.late = watch.late /\ watch' \in Status!Watch
    BY <2>1 DEF WatchAt
  <2>3. /\ seen' \in Seq(Status!Transactions(watch.options.protocol)) /\ seen' # <<>> /\ Status!Last(seen)' = watched
        /\ Len(seen') = Len(seen) + 1 /\ Len(seen) \in Nat
        /\ WatchBefore'
        /\ Status!Changes(seen)' = IF ~Status!Unequal(watched) THEN shown ELSE Append(shown, watched)
    BY <1>0, <2>2, WatchAsks
  <2>4. /\ shown' \in Seq(Status!Transactions(watch.options.protocol)) /\ shown' # <<>> /\ Status!Last(shown)' = watched
        /\ file' \in BOOLEAN /\ FileIs' /\ (Status!Saves(watched) => file')
    BY <1>3, <2>2, WatchFrames
  <2>5. WatchTyped'
    BY <1>0, <2>2, <2>3, <2>4 DEF WatchTyped
  <2>6. EndingIs(e)' /\ EndingIs("none")'
    BY <1>2, <2>2, <2>3, <2>4 DEF EndingIs
  <2>7. ShownIs(e)' /\ ShownIs("none")'
    BY <1>3, <2>3 DEF ShownIs
  <2>8. WatchOn' /\ WatchEnding'
    <3>1. EndingIs(watch.phase)' /\ EndingIs(watch.ending)'
      BY <2>1, <2>6 DEF WatchAt, EndingIs
    <3>2. ShownIs(watch.ending)'
      BY <2>1, <2>7 DEF WatchAt, ShownIs
    <3> QED
      BY <2>1, <3>1, <3>2 DEF WatchAt, WatchOn, WatchEnding
  <2> QED
    BY <2>3, <2>4, <2>5, <2>8 DEF WatchInv
<1> QED
  BY <1>3, WatchThrows DEF Status!Frame

\* What an answer was, once it is the last.
LEMMA WatchLast ==
  ASSUME WatchInv, watch.at = "fetch", watch'.options = watch.options, seen' = Append(seen, watched)
  PROVE  Status!Class(Status!Last(seen))' = Status!Class(watched)
<1>1. PICK x : x = watched
  OBVIOUS
<1>2. Status!Last(seen)' = x
  BY <1>1, WatchAsks
<1>3. Status!Class(Status!Last(seen))' = Status!Class(x)'
  BY <1>2 DEF Status!Class, Status!PayloadClass, Status!TransactionClass
<1>4. Status!Class(x)' = Status!Class(x)
  BY SameOptions
<1> QED
  BY <1>1, <1>3, <1>4

\* An answer after which the watch goes on.
LEMMA WatchGoesOn ==
  ASSUME WatchInv, watch.at = "fetch", Status!Repeat
  PROVE  WatchInv'
<1>0. WatchTyped /\ watch.phase = "none" /\ watch.ending = "none" /\ seen' = Append(seen, watched) /\ watched' = watched
      /\ shown = Status!Changes(seen) /\ watch \in Status!Watch /\ Status!Class(watched) = "pending" /\ ~Status!Counted
      /\ (seen = <<>> <=> shown = <<>>)
  BY DEF WatchInv, WatchOn, WatchTyped, Status!Ask, Status!Repeat
<1>f. CASE Status!Sleep /\ IF Status!Unequal(watched)
                           THEN shown' = Append(shown, watched) /\ file' = (file \/ Status!Saves(watched))
                           ELSE UNCHANGED <<shown, file>>
  <2>1. WatchAt("sleep", "none", "none")
    BY <1>0, <1>f, WatchSleeps
  <2>2. watch'.options = watch.options /\ watch'.late = watch.late /\ watch' \in Status!Watch
    BY <2>1 DEF WatchAt
  <2>3. /\ seen' \in Seq(Status!Transactions(watch.options.protocol)) /\ seen' # <<>> /\ Status!Last(seen)' = watched
        /\ Len(seen') = Len(seen) + 1 /\ Len(seen) \in Nat
        /\ WatchBefore'
        /\ Status!Changes(seen)' = IF ~Status!Unequal(watched) THEN shown ELSE Append(shown, watched)
    BY <1>0, <2>2, WatchAsks
  <2>4. Status!Class(Status!Last(seen))' = "pending"
    BY <1>0, <2>2, WatchLast
  <2>5. watch.options.attempts \in {0, 2} /\ (watch.options.attempts > 0 => Len(seen') < watch.options.attempts)
    <3>1. watch.options.attempts \in {0, 2}
      BY <1>0 DEF Status!Watch, Status!Options
    <3>2. watch.options.attempts > 0 => ~(Len(seen) + 1 >= watch.options.attempts)
      BY <1>0 DEF Status!Counted, Status!options
    <3> QED
      BY <2>3, <3>1, <3>2
  <2>6. /\ shown' \in Seq(Status!Transactions(watch.options.protocol)) /\ shown' # <<>> /\ Status!Last(shown)' = watched
        /\ file' \in BOOLEAN /\ FileIs' /\ shown' = Status!Changes(seen)'
    <3>1. CASE Status!Unequal(watched)
      BY <1>f, <2>2, <2>3, <3>1, WatchFrames
    <3>2. CASE ~Status!Unequal(watched)
      <4>1. ASSUME NEW i PROVE Status!Saves(shown[i])' = Status!Saves(shown[i])
        BY <1>f, <2>2, <3>2 DEF Status!Saves, Status!Carries, Status!CarriesPayload, Status!CarriesCredential, Status!options
      <4>2. FileIs'
        BY <1>f, <3>2, <4>1 DEF WatchInv, FileIs
      <4>3. shown # <<>> /\ Status!Last(shown) = watched
        BY <3>2 DEF Status!Unequal
      <4>4. shown' # <<>> /\ Status!Last(shown)' = watched
        BY <1>f, <3>2, <4>3 DEF Status!Last
      <4> QED
        BY <1>0, <1>f, <2>3, <3>2, <4>2, <4>4 DEF WatchTyped
    <3> QED
      BY <3>1, <3>2
  <2>7. WatchTyped'
    BY <1>0, <2>2, <2>3, <2>6 DEF WatchTyped
  <2>8. WatchOn'
    BY <2>1, <2>2, <2>3, <2>4, <2>5, <2>6 DEF WatchAt, WatchOn
  <2>9. WatchEnding'
    BY <2>1, <2>6 DEF WatchAt, WatchEnding, EndingIs, ShownIs
  <2> QED
    BY <2>3, <2>6, <2>7, <2>8, <2>9 DEF WatchInv
<1> QED
  BY <1>f, WatchThrows DEF Status!Repeat, Status!Frame

\* Steps of the watch without an answer, and all steps beside it.
LEMMA WatchQuiet ==
  ASSUME WatchInv, watch' \in Status!Watch, watch'.options = watch.options, watch.late => watch'.late,
         watched' \in Status!Transactions(watch.options.protocol), UNCHANGED <<seen, shown, file>>,
         \/ watch'.at = watch.at /\ watch'.phase = watch.phase /\ watch'.ending = watch.ending
         \/ watch.at = "sleep" /\ watch'.at = "fetch" /\ watch'.phase = watch.phase /\ watch'.ending = watch.ending
         \/ watch.at = "fetch" /\ watch'.at = "settling" /\ watch'.phase = "crashed" /\ watch'.ending = watch.ending
         \/ /\ watch.at # "ended" /\ watch'.at = "ended" /\ watch'.phase = watch.phase
            /\ watch'.ending \in {"crashed", "thrown", "stopped", watch.phase}
            /\ watch.at = "fetch" \/ watch'.ending \in {"stopped", watch.phase}
  PROVE  WatchInv'
<1>1. WatchTyped'
  BY DEF WatchInv, WatchTyped
<1>2. \A t : Status!Class(t)' = Status!Class(t) /\ Status!Saves(t)' = Status!Saves(t)
  BY SameOptions
<1>3. ASSUME NEW i PROVE Status!Class(seen[i])' = Status!Class(seen[i]) /\ Status!Saves(shown[i])' = Status!Saves(shown[i])
  <2>1. PICK t, u : t = seen[i] /\ u = shown[i]
    OBVIOUS
  <2>2. seen'[i] = t /\ shown'[i] = u
    BY <2>1
  <2>3. Status!Class(seen[i])' = Status!Class(t)'
    BY <2>2 DEF Status!Class, Status!PayloadClass, Status!TransactionClass
  <2>4. Status!Saves(shown[i])' = Status!Saves(u)'
    BY <2>2 DEF Status!Saves, Status!Carries, Status!CarriesPayload, Status!CarriesCredential
  <2> QED
    BY <1>2, <2>1, <2>3, <2>4
<1>4. WatchBefore' /\ FileIs'
  BY <1>3 DEF WatchInv, WatchBefore, FileIs
<1>5. Status!Last(seen)' = Status!Last(seen) /\ Status!Last(shown)' = Status!Last(shown) /\ Status!Changes(seen)' = Status!Changes(seen)
  BY DEF Status!Last, Status!Changes
<1>6. Status!Class(Status!Last(seen))' = Status!Class(Status!Last(seen))
  BY <1>3 DEF Status!Last
<1>7. ASSUME NEW e, EndingIs(e) PROVE EndingIs(e)'
  BY <1>6, <1>7 DEF EndingIs
<1>8. ASSUME NEW e, ShownIs(e) PROVE ShownIs(e)'
  BY <1>5, <1>8 DEF ShownIs
<1>9. WatchOn'
  BY <1>5, <1>6 DEF WatchInv, WatchOn
<1>10. PICK p, e : p = watch.phase /\ e = watch.ending
  OBVIOUS
<1>11. EndingIs(p) /\ EndingIs(e) /\ ShownIs(e)
  BY <1>10 DEF WatchInv, WatchEnding
<1>12. watch.at = "fetch" => ShownIs("crashed") /\ ShownIs("thrown")
  BY DEF WatchInv, WatchOn, ShownIs
<1>13. watch.at # "ended" => e = "none"
  BY <1>10 DEF WatchInv, WatchTyped, WatchEnding, WatchOn, Status!Watch
<1>14. EndingIs("crashed") /\ EndingIs("thrown") /\ EndingIs("stopped") /\ EndingIs("none")
  BY DEF EndingIs
<1>15. watch.at # "ended" => ShownIs("stopped") /\ ShownIs(p)
  BY <1>11, <1>13 DEF ShownIs
<1>16. WatchEnding'
  <2>1. PICK p1, e1 : p1 = watch'.phase /\ e1 = watch'.ending
    OBVIOUS
  <2>2. EndingIs(p1) /\ EndingIs(e1) /\ ShownIs(e1)
    BY <1>10, <1>11, <1>12, <1>14, <1>15, <2>1
  <2>3. EndingIs(p1)' /\ EndingIs(e1)' /\ ShownIs(e1)'
    BY <1>7, <1>8, <2>2
  <2>4. watch'.at = "settling" => watch'.ending = "none"
    BY <1>10, <1>13 DEF WatchInv, WatchEnding
  <2>5. EndingIs(watch.phase)' /\ EndingIs(watch.ending)' /\ ShownIs(watch.ending)'
    BY <2>1, <2>3 DEF EndingIs, ShownIs
  <2> QED
    BY <2>4, <2>5 DEF WatchEnding
<1> QED
  BY <1>1, <1>4, <1>9, <1>16 DEF WatchInv

LEMMA WatchStep == WatchInv /\ [Status!Next]_(Status!vars) => WatchInv'
<1> SUFFICES ASSUME WatchInv, [Status!Next]_(Status!vars) PROVE WatchInv'
  OBVIOUS
<1>0. /\ WatchTyped /\ watch \in Status!Watch /\ watch.options \in Status!Commands
      /\ watched \in Status!Transactions(watch.options.protocol) /\ watch.options.protocol \in {"x402", "mpp"}
  BY DEF WatchInv, WatchTyped, Status!Commands, Status!Options
<1>1. CASE Status!Snapshot
  BY <1>1, WatchTerminates DEF Status!Snapshot, Status!Ask, Status!Endings
<1>2. CASE Status!Terminal
  <2>0. Status!Ask /\ watch.at = "fetch" /\ Status!Frame(watched, Status!Ends(Status!TerminalEvent(watched)))
    BY <1>2 DEF Status!Terminal, Status!Ask
  <2>1. PICK e : e = Status!TerminalEvent(watched)
    OBVIOUS
  <2>2. e \in Status!Endings /\ e \in {"settled", "failed", "expired"}
    BY <2>1 DEF Status!TerminalEvent, Status!PayloadEvent, Status!TransactionEvent, Status!Endings
  <2>3. e = "settled" => /\ Status!Class(watched) = "settled"
                         /\ watch.options.protocol = "x402" /\ watch.options.saves => Status!Saves(watched)
    BY <1>0, <2>1 DEF Status!TerminalEvent, Status!PayloadEvent, Status!TransactionEvent, Status!Class, Status!options,
                      Status!PayloadClass, Status!Saves, Status!Carries, Status!CarriesPayload
  <2>4. e = "expired" => Status!Class(watched) = "expired"
    BY <2>1 DEF Status!TerminalEvent, Status!PayloadEvent, Status!TransactionEvent, Status!Class, Status!options
  <2>5. Status!Class(watched) \in {"pending", "settled", "failed", "expired"}
    BY <1>0 DEF Status!Class, Status!options, Status!PayloadClass, Status!TransactionClass, Status!Transactions
  <2>6. e = "failed" => Status!Class(watched) \in {"failed", "pending"}
    BY <2>1, <2>5 DEF Status!TerminalEvent, Status!PayloadEvent, Status!TransactionEvent, Status!Class, Status!options, Status!PayloadClass
  <2>7. Status!Class(watched) = "pending" => watch.options.view /\ ~watch.options.waits
    BY <1>2 DEF Status!Terminal, Status!options
  <2> QED
    BY <2>0, <2>1, <2>2, <2>3, <2>4, <2>6, <2>7, WatchTerminates
<1>3. CASE Status!GiveUp
  <2>1. watch.options.attempts \in {0, 2} /\ Len(seen) \in Nat
    BY <1>0 DEF WatchTyped, Status!Watch, Status!Options
  <2>2. watch.options.attempts > 0 => Len(seen) < watch.options.attempts
    BY <1>3 DEF WatchInv, WatchOn, Status!GiveUp, Status!Ask
  <2>3. Status!Counted => Len(seen) + 1 = watch.options.attempts
    BY <2>1, <2>2 DEF Status!Counted, Status!options
  <2> QED
    BY <1>3, <2>3, WatchTerminates DEF Status!GiveUp, Status!Ask, Status!Endings
<1>4. CASE Status!Repeat
  BY <1>4, WatchGoesOn DEF Status!Repeat, Status!Ask
<1>5. CASE Status!RequestFails
  <2>1. PICK e \in {"crashed", "thrown"} : Status!Ends(e) /\ (e = "thrown" => ~watch.options.view)
    BY <1>5 DEF Status!RequestFails, Status!options
  <2>2. e \in Status!Endings
    BY DEF Status!Endings
  <2>3. \/ watch.options.view /\ WatchAt("settling", e, watch.ending)
        \/ ~watch.options.view /\ WatchAt("ended", watch.phase, e)
    BY <1>0, <2>1, <2>2, WatchEnds
  <2> QED
    BY <1>0, <1>5, <2>1, <2>3, WatchQuiet DEF Status!RequestFails, WatchAt
<1>6. CASE Status!Wake
  <2>1. WatchAt("fetch", watch.phase, watch.ending)
    BY <1>0, <1>6 DEF Status!Wake, WatchAt, Status!Watch
  <2> QED
    BY <1>0, <1>6, <2>1, WatchQuiet DEF Status!Wake, WatchAt
<1>7. CASE Status!Finish
  <2>1. PICK p \in Status!Endings : p = watch.phase
    BY <1>0 DEF Status!Watch
  <2>2. WatchAt("ended", watch.phase, p)
    BY <1>0, <1>7, <2>1 DEF Status!Finish, WatchAt, Status!Watch
  <2> QED
    BY <1>0, <1>7, <2>1, <2>2, WatchQuiet DEF Status!Finish, WatchAt
<1>8. CASE Status!DeadlinePasses
  <2>1. watch' \in Status!Watch /\ watch'.options = watch.options /\ watch'.late = TRUE
        /\ watch'.at = watch.at /\ watch'.phase = watch.phase /\ watch'.ending = watch.ending
    BY <1>0, <1>8 DEF Status!DeadlinePasses, Status!Watch
  <2> QED
    BY <1>0, <1>8, <2>1, WatchQuiet DEF Status!DeadlinePasses
<1>9. CASE Status!Escape
  <2>1. WatchAt("ended", watch.phase, "stopped")
    BY <1>0, <1>9 DEF Status!Escape, WatchAt, Status!Watch, Status!Endings
  <2> QED
    BY <1>0, <1>9, <2>1, WatchQuiet DEF Status!Escape, WatchAt
<1>10. CASE Status!Move
  BY <1>0, <1>10, WatchQuiet DEF Status!Move, Status!options
<1>11. CASE Status!Cancel
  BY <1>0, <1>11, WatchQuiet DEF Status!Cancel
<1>12. CASE Status!Cancelled
  <2>1. watched' \in Status!Transactions(watch.options.protocol)
    <3>1. CASE ~Status!Open
      BY <1>0, <1>12, <3>1 DEF Status!Cancelled
    <3>2. CASE Status!Open /\ watch.options.protocol = "x402"
      BY <1>0, <1>12, <3>2 DEF Status!Cancelled, Status!Transactions, Status!options
    <3>3. CASE Status!Open /\ watch.options.protocol = "mpp"
      BY <1>0, <1>12, <3>3 DEF Status!Cancelled, Status!Transactions, Status!options
    <3> QED
      BY <1>0, <3>1, <3>2, <3>3
  <2> QED
    BY <1>0, <1>12, <2>1, WatchQuiet DEF Status!Cancelled
<1>13. CASE UNCHANGED Status!vars
  BY <1>0, <1>13, WatchQuiet DEF Status!vars
<1> QED
  BY <1>1, <1>2, <1>3, <1>4, <1>5, <1>6, <1>7, <1>8, <1>9, <1>10, <1>11, <1>12, <1>13 DEF Status!Next, Status!Step

-----------------------------------------------------------------------------
(* AuthStatus, one `auth status` beside another process.                    *)

Stored == [SignIn!Settings -> Nat]

\* What is stored is in the vault, one secret under each setting, and none of it is about to
\* be discarded; a reference made later is a greater one.
SettingsInv ==
  /\ settings \in Stored /\ owners \in Seq(Nat)
  /\ \A x \in SignIn!Settings : settings[x] <= Len(owners) /\ (settings[x] # 0 => settings[x] \in secrets)
  /\ \A x, y \in SignIn!Settings : settings[x] # 0 /\ settings[x] = settings[y] => x = y

\* The writes that are to be made.
WriteType ==
  [op : {"set", "refresh", "clear"}, setting : SignIn!Settings] \cup [op : {"discard"}, ref : Nat]

Discarded(w) == w.op = "discard" => w.ref \in 1..Len(owners) /\ \A x \in SignIn!Settings : settings[x] # w.ref

WritesInv ==
  /\ todo \in [{"other", "status"} -> Seq(WriteType)]
  /\ \A p \in {"other", "status"} : \A i \in 1..Len(todo[p]) : Discarded(todo[p][i])

AskerFields == {"at", "source", "options", "left", "next", "row", "read", "moments", "since", "report", "user"}

\* The settings in the order in which they are read, as far as they are still to be read.
Orders == {SignIn!ReadOrder, <<"apiKey", "pending">>, <<"pending">>}

Unread(order) == {order[i] : i \in 1..Len(order)}

Asked ==
  /\ DOMAIN inquiry = AskerFields
  /\ inquiry.at \in {"idle", "row", "secret", "advance", "advance secret", "poll", "storing", "request"}
  /\ inquiry.at \in {"row", "secret"} => inquiry.next \in Orders /\ inquiry.read \in Stored
  /\ inquiry.at \in {"advance", "advance secret"} => inquiry.next = <<"pending">>
  /\ inquiry.at \notin {"idle", "request"} => inquiry.source # "runtime"

\* What was stored at some moment since the reading began, or only after it.
New(moments, since) == \E m \in moments : \E x \in SignIn!Settings : m[x] > since

\* The moments of a reading: the last of them is the present.
MomentsInv ==
  inquiry.source # "runtime" /\ inquiry.at # "idle" =>
    /\ inquiry.moments \subseteq Stored /\ IsFiniteSet(inquiry.moments) /\ settings \in inquiry.moments
    /\ inquiry.since \in Nat /\ inquiry.since <= Len(owners)

\* What was read of a setting was stored; nothing was, and nothing is now, unless something new
\* came; and if nothing changed it is what is stored.
Reads(x, value, moments, since, now) ==
  /\ value # 0 => \E m \in moments : m[x] = value
  /\ value = 0 => New(moments, since) \/ now[x] = 0
  /\ moments = {now} => value = now[x]

ReadIs(x, value) == Reads(x, value, inquiry.moments, inquiry.since, settings)

ReadInv ==
  /\ inquiry.at \in {"row", "secret"} =>
       \A x \in SignIn!Settings : x \notin Unread(inquiry.next) => ReadIs(x, inquiry.read[x])
  /\ inquiry.at = "secret" =>
       LET x == Head(inquiry.next) IN
       /\ inquiry.row # 0 /\ \E m \in inquiry.moments : m[x] = inquiry.row
       /\ New(inquiry.moments, inquiry.since) \/ settings[x] \in {0, inquiry.row}
       /\ inquiry.moments = {settings} => inquiry.row = settings[x]

\* The frame that is probed.
ProbeInv ==
  inquiry.at = "request" /\ inquiry.source # "runtime" =>
    /\ last.frame.shows \in {"api key", "device token"}
    /\ inquiry.moments = {settings} =>
         last.frame.ref # 0 /\ last.frame.ref = settings[IF last.frame.shows = "api key" THEN "apiKey" ELSE "auth"]

\* The account that was shown.
UserInv ==
  inquiry.at = "idle" /\ inquiry.report = "user" /\ inquiry.source # "runtime" =>
    \/ SignIn!Cardinality(inquiry.moments) > 1
    \/ inquiry.source # (IF last.frame.shows = "api key" THEN "saved" ELSE "session")
    \/ last.frame.ref \in 1..Len(owners) /\ inquiry.user = owners[last.frame.ref]

SignInInv ==
  /\ SettingsInv /\ WritesInv /\ Asked /\ MomentsInv /\ ReadInv /\ ProbeInv /\ UserInv /\ SignIn!FrameTrue

LEMMA SignInTrue == SignInInv => SignIn!AuthStatusTrue
  BY DEF SignInInv, UserInv, SignIn!AuthStatusTrue, SignIn!UserTrue, SignIn!At

LEMMA OneMoment ==
  ASSUME NEW S, IsFiniteSet(S), NEW m \in S
  PROVE  /\ SignIn!Cardinality(S) = 1 => S = {m}
         /\ SignIn!Cardinality(S) > 1 \/ S = {m}
<1>1. SignIn!Cardinality(S) = Cardinality(S)
  BY DEF SignIn!Cardinality, Cardinality
<1>2. Cardinality(S) \in Nat /\ Cardinality(S) # 0
  BY FS_CardinalityType, FS_EmptySet
<1>3. Cardinality(S) = 1 => \E x : S = {x}
  BY FS_Singleton
<1>4. Cardinality(S) = 1 => S = {m}
  BY <1>3
<1> QED
  BY <1>1, <1>2, <1>4

LEMMA OrderIs ==
  /\ \A order \in Orders :
       /\ Head(order) \in SignIn!Settings /\ Head(order) \in Unread(order) /\ Unread(order) \subseteq SignIn!Settings
       /\ IF Len(order) > 1 THEN Tail(order) \in Orders /\ Unread(Tail(order)) = Unread(order) \ {Head(order)}
                            ELSE Unread(order) = {Head(order)}
  /\ SignIn!ReadOrder \in Orders /\ Unread(SignIn!ReadOrder) = SignIn!Settings
  /\ <<"pending">> \in Orders /\ Head(<<"pending">>) = "pending"
<1>1. ASSUME NEW order \in Orders
      PROVE  /\ Head(order) \in SignIn!Settings /\ Head(order) \in Unread(order) /\ Unread(order) \subseteq SignIn!Settings
             /\ IF Len(order) > 1 THEN Tail(order) \in Orders /\ Unread(Tail(order)) = Unread(order) \ {Head(order)}
                                  ELSE Unread(order) = {Head(order)}
  <2>1. CASE order = <<"auth", "apiKey", "pending">>
    BY <2>1 DEF Orders, Unread, SignIn!Settings, SignIn!ReadOrder
  <2>2. CASE order = <<"apiKey", "pending">>
    BY <2>2 DEF Orders, Unread, SignIn!Settings, SignIn!ReadOrder
  <2>3. CASE order = <<"pending">>
    BY <2>3 DEF Orders, Unread, SignIn!Settings, SignIn!ReadOrder
  <2> QED
    BY <2>1, <2>2, <2>3 DEF Orders, SignIn!ReadOrder
<1>2. SignIn!ReadOrder \in Orders /\ Unread(SignIn!ReadOrder) = SignIn!Settings
  BY DEF Orders, Unread, SignIn!Settings, SignIn!ReadOrder
<1> QED
  BY <1>1, <1>2 DEF Orders

LEMMA SignInInit == SignIn!Init => SignInInv
<1> SUFFICES ASSUME SignIn!Init PROVE SignInInv
  OBVIOUS
<1>1. settings \in [auth : {0, 1}, apiKey : {0, 1}, pending : {0, 2}] /\ (settings.auth = 0 \/ settings.apiKey = 0)
  BY DEF SignIn!Init, SignIn!Nothing
<1>2. settings \in Stored
  BY <1>1 DEF Stored, SignIn!Settings
<1>3. owners = <<1, 2>> /\ owners \in Seq(Nat) /\ Len(owners) = 2
  BY DEF SignIn!Init
<1>4. secrets = {settings[x] : x \in SignIn!Settings} \ {0}
  BY DEF SignIn!Init, SignIn!Nothing
<1>5. SettingsInv
  BY <1>1, <1>2, <1>3, <1>4 DEF SettingsInv, SignIn!Settings
<1>6. WritesInv
  <2>1. todo = [p \in {"other", "status"} |-> <<>>]
    BY DEF SignIn!Init
  <2> QED
    BY <2>1 DEF WritesInv
<1>7. /\ DOMAIN inquiry = AskerFields /\ inquiry.at = "idle" /\ inquiry.report = "none"
  BY DEF SignIn!Init, AskerFields
<1>8. last.frame.shows = "nothing yet"
  BY DEF SignIn!Init, SignIn!NoSnapshot
<1> QED
  BY <1>5, <1>6, <1>7, <1>8 DEF SignInInv, Asked, MomentsInv, ReadInv, ProbeInv, UserInv, SignIn!FrameTrue

\* The rest of the writes of a process, after what the first of them left to discard.
LEMMA WritesGoOn ==
  ASSUME WritesInv, NEW p \in {"other", "status"}, todo[p] # <<>>,
         NEW first \in Seq(WriteType), \A i \in 1..Len(first) : Discarded(first[i])',
         todo' = [todo EXCEPT ![p] = first \o Tail(@)],
         \A w \in WriteType : Discarded(w) => Discarded(w)'
  PROVE  WritesInv'
<1>0. todo \in [{"other", "status"} -> Seq(WriteType)] /\ todo[p] \in Seq(WriteType)
  BY DEF WritesInv
<1>1. PICK old, rest : old = todo[p] /\ rest = Tail(old)
  OBVIOUS
<1>2. /\ rest \in Seq(WriteType) /\ Len(rest) \in Nat /\ Len(first) \in Nat
      /\ \A i \in 1..Len(rest) : i + 1 \in 1..Len(old) /\ rest[i] = old[i + 1]
  BY <1>0, <1>1
<1>3. PICK new : new = first \o rest
  OBVIOUS
<1>4. /\ new \in Seq(WriteType) /\ Len(new) = Len(first) + Len(rest)
      /\ \A i \in 1..Len(new) : new[i] = IF i <= Len(first) THEN first[i] ELSE rest[i - Len(first)]
  BY <1>2, <1>3
<1>5. todo' = [todo EXCEPT ![p] = new]
  BY <1>0, <1>1, <1>3
<1>6. todo' \in [{"other", "status"} -> Seq(WriteType)]
  BY <1>0, <1>4, <1>5
<1>7. ASSUME NEW q \in {"other", "status"}, NEW i \in 1..Len(todo'[q]) PROVE Discarded(todo[q][i])'
  <2>1. ASSUME NEW w, w = todo'[q][i], Discarded(w)' PROVE Discarded(todo[q][i])'
    BY <2>1 DEF Discarded
  <2>2. CASE q # p
    <3>1. todo'[q] = todo[q]
      BY <1>0, <1>5, <2>2
    <3>2. PICK w : w = todo[q][i]
      OBVIOUS
    <3>3. w \in WriteType /\ Discarded(w)
      <4>1. todo[q] \in Seq(WriteType) /\ i \in 1..Len(todo[q])
        BY <1>0, <1>7, <3>1
      <4>2. Discarded(todo[q][i])
        BY <4>1 DEF WritesInv
      <4> QED
        BY <3>2, <4>1, <4>2 DEF Discarded
    <3> QED
      BY <2>1, <3>1, <3>2, <3>3
  <2>3. CASE q = p
    <3>1. todo'[q] = new
      BY <1>0, <1>5, <2>3
    <3>2. PICK w : w = new[i]
      OBVIOUS
    <3>3. Discarded(w)'
      <4>1. CASE i <= Len(first)
        BY <1>2, <1>4, <1>7, <3>1, <3>2, <4>1
      <4>2. CASE ~(i <= Len(first))
        <5>1. i - Len(first) \in 1..Len(rest)
          BY <1>2, <1>4, <1>7, <3>1, <4>2
        <5>2. PICK j \in 1..Len(old) : w = old[j]
          BY <1>2, <1>4, <1>7, <3>1, <3>2, <4>2, <5>1
        <5>3. w \in WriteType /\ Discarded(w)
          BY <1>0, <1>1, <5>2 DEF WritesInv
        <5> QED
          BY <5>3
      <4> QED
        BY <4>1, <4>2
    <3> QED
      BY <2>1, <3>1, <3>2, <3>3
  <2> QED
    BY <2>2, <2>3
<1> QED
  BY <1>6, <1>7 DEF WritesInv

\* The writes of a process that are replaced.
LEMMA WritesReplaced ==
  ASSUME WritesInv, NEW p \in {"other", "status"}, NEW new \in Seq(WriteType),
         \A i \in 1..Len(new) : new[i].op # "discard", todo' = [todo EXCEPT ![p] = new],
         UNCHANGED <<settings, owners>>
  PROVE  WritesInv'
<1>0. todo \in [{"other", "status"} -> Seq(WriteType)]
  BY DEF WritesInv
<1>1. todo' \in [{"other", "status"} -> Seq(WriteType)]
  BY <1>0
<1>2. ASSUME NEW q \in {"other", "status"}, NEW i \in 1..Len(todo'[q]) PROVE Discarded(todo[q][i])'
  <2>1. CASE q # p
    BY <1>0, <1>2, <2>1 DEF WritesInv, Discarded
  <2>2. CASE q = p
    BY <1>0, <1>2, <2>2 DEF Discarded
  <2> QED
    BY <2>1, <2>2
<1> QED
  BY <1>1, <1>2 DEF WritesInv

LEMMA Signings ==
  /\ \A writes \in SignIn!Others : writes \in Seq(WriteType) /\ \A i \in 1..Len(writes) : writes[i].op # "discard"
  /\ LET writes == <<SignIn!Write("set", "auth"), SignIn!Write("clear", "apiKey"), SignIn!Write("clear", "pending")>>
     IN  writes \in Seq(WriteType) /\ \A i \in 1..Len(writes) : writes[i].op # "discard"
<1>1. ASSUME NEW op \in {"set", "refresh", "clear"}, NEW x \in SignIn!Settings
      PROVE  SignIn!Write(op, x) \in WriteType /\ SignIn!Write(op, x).op # "discard"
  BY DEF WriteType, SignIn!Write
<1>2. "auth" \in SignIn!Settings /\ "apiKey" \in SignIn!Settings /\ "pending" \in SignIn!Settings
  BY DEF SignIn!Settings
<1>3. ASSUME NEW a \in WriteType, a.op # "discard", NEW b \in WriteType, b.op # "discard", NEW c \in WriteType, c.op # "discard"
      PROVE  /\ <<a>> \in Seq(WriteType) /\ \A i \in 1..Len(<<a>>) : <<a>>[i].op # "discard"
             /\ <<a, b, c>> \in Seq(WriteType) /\ \A i \in 1..Len(<<a, b, c>>) : <<a, b, c>>[i].op # "discard"
  <2>1. <<a>> \in Seq(WriteType) /\ Len(<<a>>) = 1 /\ <<a>>[1] = a
    OBVIOUS
  <2>2. <<a, b, c>> \in Seq(WriteType) /\ Len(<<a, b, c>>) = 3 /\ <<a, b, c>>[1] = a /\ <<a, b, c>>[2] = b /\ <<a, b, c>>[3] = c
    OBVIOUS
  <2>3. \A i \in 1..1 : i = 1
    OBVIOUS
  <2>4. \A i \in 1..3 : i = 1 \/ i = 2 \/ i = 3
    OBVIOUS
  <2> QED
    BY <1>3, <2>1, <2>2, <2>3, <2>4
<1> QED
  BY <1>1, <1>2, <1>3 DEF SignIn!Others

\* What an asker keeps when something is stored beside it.
SameAsker ==
  /\ DOMAIN inquiry' = AskerFields /\ inquiry'.at = inquiry.at /\ inquiry'.source = inquiry.source /\ inquiry'.next = inquiry.next
  /\ inquiry'.row = inquiry.row /\ inquiry'.read = inquiry.read /\ inquiry'.since = inquiry.since
  /\ inquiry'.report = inquiry.report /\ inquiry'.user = inquiry.user

\* One setting is replaced or cleared, with a reference made after the reading began.
Moves(M, now, later, since) ==
  /\ now \in M /\ now \in Stored /\ since \in Nat
  /\ \E x \in SignIn!Settings : \E v \in Nat : later = [now EXCEPT ![x] = v] /\ (v = 0 \/ v > since)

\* What was read stays true then.
Stays(M, now, later, since) ==
  LET N == M \cup {later} IN
  /\ New(M, since) => New(N, since)
  /\ New(N, since) \/ \A y \in SignIn!Settings : later[y] \in {0, now[y]}
  /\ N = {later} => M = {now} /\ later = now
  /\ \A y \in SignIn!Settings : \A value : Reads(y, value, M, since, now) => Reads(y, value, N, since, later)

LEMMA ReadsStay ==
  ASSUME NEW M, NEW now, NEW later, NEW since, Moves(M, now, later, since)
  PROVE  Stays(M, now, later, since)
<1>0. PICK x \in SignIn!Settings, v \in Nat : later = [now EXCEPT ![x] = v] /\ (v = 0 \/ v > since)
  BY DEF Moves
<1>1. later[x] = v /\ \A y \in SignIn!Settings : y # x => later[y] = now[y]
  BY <1>0 DEF Moves, Stored
<1>2. PICK N : N = M \cup {later}
  OBVIOUS
<1>3. New(M, since) => New(N, since)
  BY <1>2 DEF New
<1>4. v # 0 => New(N, since)
  BY <1>0, <1>1, <1>2 DEF New
<1>5. N = {later} => M = {now} /\ later = now
  BY <1>2 DEF Moves
<1>6. ASSUME NEW y \in SignIn!Settings, NEW value, Reads(y, value, M, since, now) PROVE Reads(y, value, N, since, later)
  <2>1. value # 0 => \E m \in N : m[y] = value
    BY <1>2, <1>6 DEF Reads
  <2>2. value = 0 => New(N, since) \/ later[y] = 0
    BY <1>1, <1>3, <1>4, <1>6 DEF Reads
  <2>3. N = {later} => value = later[y]
    BY <1>5, <1>6 DEF Reads
  <2> QED
    BY <2>1, <2>2, <2>3 DEF Reads
<1>7. New(N, since) \/ \A y \in SignIn!Settings : later[y] \in {0, now[y]}
  BY <1>1, <1>4
<1> QED
  BY <1>2, <1>3, <1>5, <1>6, <1>7 DEF Stays

\* A reading notices what is stored meanwhile.
LEMMA AskerSees ==
  ASSUME SignInInv, NEW x \in SignIn!Settings, NEW v \in Nat, settings' = [settings EXCEPT ![x] = v],
         v = 0 \/ v = Len(owners) + 1, owners' = owners \/ (\E a \in Nat : owners' = Append(owners, a)),
         inquiry' = IF SignIn!At("idle") THEN inquiry ELSE [inquiry EXCEPT !.moments = @ \cup {settings'}], last' = last
  PROVE  Asked' /\ MomentsInv' /\ ReadInv' /\ ProbeInv' /\ UserInv' /\ SignIn!FrameTrue'
<1>0. /\ settings \in Stored /\ owners \in Seq(Nat) /\ DOMAIN inquiry = AskerFields /\ Asked
  BY DEF SignInInv, SettingsInv, Asked
<1>1. settings' \in Stored /\ settings'[x] = v /\ \A y \in SignIn!Settings : y # x => settings'[y] = settings[y]
  BY <1>0 DEF Stored
<1>2. Len(owners) \in Nat /\ Len(owners) <= Len(owners') /\ Len(owners') \in Nat /\ \A i \in 1..Len(owners) : i \in 1..Len(owners') /\ owners'[i] = owners[i]
  BY <1>0
<1>3. SameAsker /\ (inquiry.at = "idle" => inquiry'.moments = inquiry.moments)
      /\ (inquiry.at # "idle" => inquiry'.moments = inquiry.moments \cup {settings'})
  BY <1>0 DEF SameAsker, AskerFields, SignIn!At
<1>4. SignIn!FrameTrue'
  BY <1>3 DEF SignInInv, SignIn!FrameTrue, SameAsker
<1>5. Asked'
  BY <1>0, <1>3 DEF Asked, SameAsker
<1>6. UserInv'
  BY <1>2, <1>3 DEF SignInInv, UserInv, SameAsker
<1>7. CASE inquiry.at = "idle" \/ inquiry.source = "runtime"
  BY <1>0, <1>3, <1>4, <1>5, <1>6, <1>7 DEF MomentsInv, ReadInv, ProbeInv, Asked, SameAsker
<1>8. CASE inquiry.at # "idle" /\ inquiry.source # "runtime"
  <2>0. PICK M, N, since : M = inquiry.moments /\ N = inquiry'.moments /\ since = inquiry.since
    OBVIOUS
  <2>1. /\ M \subseteq Stored /\ IsFiniteSet(M) /\ settings \in M /\ since \in Nat /\ since <= Len(owners)
    BY <1>8, <2>0 DEF SignInInv, MomentsInv
  <2>2. N = M \cup {settings'} /\ settings' \in N /\ M \subseteq N
    BY <1>3, <1>8, <2>0
  <2>3. IsFiniteSet(N) /\ N \subseteq Stored
    BY <1>1, <2>1, <2>2, FS_AddElement
  <2>4. MomentsInv'
    BY <1>2, <1>3, <2>0, <2>1, <2>2, <2>3 DEF MomentsInv, SameAsker
  <2>a. v = 0 \/ v > since
    BY <1>2, <2>1
  <2>5. /\ New(M, since) => New(N, since)
        /\ New(N, since) \/ \A y \in SignIn!Settings : settings'[y] \in {0, settings[y]}
        /\ N = {settings'} => M = {settings} /\ settings' = settings
        /\ \A y \in SignIn!Settings : \A value : Reads(y, value, M, since, settings) => Reads(y, value, N, since, settings')
    <3>1. PICK now, later : now = settings /\ later = settings'
      OBVIOUS
    <3>2. now \in M /\ now \in Stored /\ later = [now EXCEPT ![x] = v] /\ N = M \cup {later}
      BY <1>0, <2>1, <2>2, <3>1
    <3>3. Moves(M, now, later, since)
      BY <2>1, <2>a, <3>2 DEF Moves
    <3>4. Stays(M, now, later, since)
      BY <3>3, ReadsStay
    <3> QED
      BY <3>1, <3>2, <3>4 DEF Stays
  <2>8. ASSUME NEW y \in SignIn!Settings, NEW value, ReadIs(y, value) PROVE ReadIs(y, value)'
    BY <1>3, <2>0, <2>5, <2>8 DEF ReadIs, SameAsker
  <2>9. ReadInv'
    <3>1. inquiry.at \in {"row", "secret"} =>
            \A y \in SignIn!Settings : y \notin Unread(inquiry.next) => ReadIs(y, inquiry.read[y])'
      <4>1. ASSUME inquiry.at \in {"row", "secret"}, NEW y \in SignIn!Settings, y \notin Unread(inquiry.next)
            PROVE  ReadIs(y, inquiry.read[y])'
        <5>1. PICK value : value = inquiry.read[y]
          OBVIOUS
        <5>2. ReadIs(y, value)
          BY <4>1, <5>1 DEF SignInInv, ReadInv
        <5>3. ReadIs(y, value)'
          BY <2>8, <5>2
        <5>4. inquiry'.read[y] = value
          BY <1>3, <5>1 DEF SameAsker
        <5> QED
          BY <5>3, <5>4 DEF ReadIs
      <4> QED
        BY <4>1
    <3>2. ASSUME inquiry.at = "secret", NEW y, y = Head(inquiry.next)
          PROVE  /\ inquiry.row # 0 /\ \E m \in N : m[y] = inquiry.row
                 /\ New(N, since) \/ settings'[y] \in {0, inquiry.row}
                 /\ N = {settings'} => inquiry.row = settings'[y]
      <4>1. y \in SignIn!Settings
        BY <1>0, <3>2, OrderIs DEF Asked
      <4>2. /\ inquiry.row # 0 /\ \E m \in M : m[y] = inquiry.row
            /\ New(M, since) \/ settings[y] \in {0, inquiry.row}
            /\ M = {settings} => inquiry.row = settings[y]
        BY <2>0, <3>2 DEF SignInInv, ReadInv
      <4> QED
        BY <1>1, <2>2, <2>5, <4>1, <4>2
    <3>3. inquiry'.at \in {"row", "secret"} =>
            \A y \in SignIn!Settings : y \notin Unread(inquiry'.next) => ReadIs(y, inquiry.read[y])'
      BY <1>3, <3>1 DEF SameAsker
    <3>4. inquiry'.at = "secret" =>
            LET y == Head(inquiry'.next) IN
            /\ inquiry'.row # 0 /\ \E m \in inquiry'.moments : m[y] = inquiry'.row
            /\ New(inquiry'.moments, inquiry'.since) \/ settings'[y] \in {0, inquiry'.row}
            /\ inquiry'.moments = {settings'} => inquiry'.row = settings'[y]
      <4>1. PICK y : y = Head(inquiry.next)
        OBVIOUS
      <4>2. Head(inquiry'.next) = y /\ inquiry'.at = inquiry.at /\ inquiry'.row = inquiry.row /\ inquiry'.since = since /\ inquiry'.moments = N
        BY <1>3, <2>0, <4>1 DEF SameAsker
      <4>3. inquiry.at = "secret" => /\ inquiry.row # 0 /\ \E m \in N : m[y] = inquiry.row
                                     /\ New(N, since) \/ settings'[y] \in {0, inquiry.row}
                                     /\ N = {settings'} => inquiry.row = settings'[y]
        BY <3>2, <4>1
      <4> QED
        BY <4>2, <4>3
    <3> QED
      BY <3>3, <3>4 DEF ReadInv
  <2>10. ProbeInv'
    <3>1. ASSUME inquiry.at = "request"
          PROVE  /\ last.frame.shows \in {"api key", "device token"}
                 /\ N = {settings'} =>
                      last.frame.ref # 0 /\ last.frame.ref = settings'[IF last.frame.shows = "api key" THEN "apiKey" ELSE "auth"]
      BY <1>8, <2>0, <2>5, <3>1 DEF SignInInv, ProbeInv
    <3> QED
      BY <1>3, <2>0, <3>1 DEF ProbeInv, SameAsker
  <2> QED
    BY <1>4, <1>5, <1>6, <2>4, <2>9, <2>10
<1> QED
  BY <1>7, <1>8

\* Nothing is stored: the asker does not notice.
LEMMA AskerIdle ==
  ASSUME SignInInv, UNCHANGED <<settings, inquiry, last, owners>>
  PROVE  Asked' /\ MomentsInv' /\ ReadInv' /\ ProbeInv' /\ UserInv' /\ SignIn!FrameTrue'
<1>1. \A x, value : ReadIs(x, value)' = ReadIs(x, value)
  BY DEF ReadIs
<1> QED
  BY <1>1 DEF SignInInv, Asked, MomentsInv, ReadInv, ProbeInv, UserInv, SignIn!FrameTrue, ReadIs

\* A setting is replaced, by what it is called now or by nothing.
LEMMA SettingReplaced ==
  ASSUME SettingsInv, NEW x \in SignIn!Settings, NEW v \in Nat, settings' = [settings EXCEPT ![x] = v],
         \/ v = 0 /\ owners' = owners /\ secrets' \in {secrets, secrets \ {settings[x]}}
         \/ v = Len(owners) + 1 /\ (\E a \in Nat : owners' = Append(owners, a)) /\ secrets' = secrets \cup {v}
  PROVE  /\ SettingsInv'
         /\ \A w \in WriteType : Discarded(w) => Discarded(w)'
         /\ settings[x] # 0 => settings[x] \in 1..Len(owners') /\ \A y \in SignIn!Settings : settings'[y] # settings[x]
<1>0. /\ settings \in Stored /\ owners \in Seq(Nat) /\ Len(owners) \in Nat
      /\ \A y \in SignIn!Settings : settings[y] \in Nat /\ settings[y] <= Len(owners) /\ (settings[y] # 0 => settings[y] \in secrets)
      /\ \A y, z \in SignIn!Settings : settings[y] # 0 /\ settings[y] = settings[z] => y = z
  BY DEF SettingsInv, Stored
<1>1. settings' \in Stored /\ settings'[x] = v /\ \A y \in SignIn!Settings : y # x => settings'[y] = settings[y]
  BY <1>0 DEF Stored
<1>2. PICK n \in Nat : n = Len(owners)
  BY <1>0
<1>3. CASE v = 0 /\ owners' = owners /\ secrets' \in {secrets, secrets \ {settings[x]}}
  <2>1. \A y \in SignIn!Settings : settings'[y] <= Len(owners') /\ (settings'[y] # 0 => settings'[y] \in secrets')
    BY <1>0, <1>1, <1>3
  <2>2. \A y, z \in SignIn!Settings : settings'[y] # 0 /\ settings'[y] = settings'[z] => y = z
    BY <1>0, <1>1, <1>3
  <2>3. \A w \in WriteType : Discarded(w) => Discarded(w)'
    BY <1>1, <1>3 DEF Discarded
  <2>4. settings[x] # 0 => settings[x] \in 1..Len(owners') /\ \A y \in SignIn!Settings : settings'[y] # settings[x]
    BY <1>0, <1>1, <1>3
  <2> QED
    BY <1>0, <1>1, <1>3, <2>1, <2>2, <2>3, <2>4 DEF SettingsInv
<1>4. CASE v = Len(owners) + 1 /\ (\E a \in Nat : owners' = Append(owners, a)) /\ secrets' = secrets \cup {v}
  <2>0. owners' \in Seq(Nat) /\ Len(owners') = n + 1 /\ v = n + 1 /\ secrets' = secrets \cup {v}
    BY <1>0, <1>2, <1>4
  <2>1. \A y \in SignIn!Settings : settings'[y] <= Len(owners') /\ (settings'[y] # 0 => settings'[y] \in secrets')
    BY <1>0, <1>1, <1>2, <2>0
  <2>2. \A y, z \in SignIn!Settings : settings'[y] # 0 /\ settings'[y] = settings'[z] => y = z
    BY <1>0, <1>1, <1>2, <2>0
  <2>3. \A w \in WriteType : Discarded(w) => Discarded(w)'
    BY <1>1, <1>2, <2>0 DEF Discarded
  <2>4. settings[x] # 0 => settings[x] \in 1..Len(owners') /\ \A y \in SignIn!Settings : settings'[y] # settings[x]
    BY <1>0, <1>1, <1>2, <2>0
  <2> QED
    BY <1>1, <2>0, <2>1, <2>2, <2>3, <2>4 DEF SettingsInv
<1> QED
  BY <1>3, <1>4

\* A write of either process.
LEMMA SignInWrites ==
  ASSUME SignInInv, NEW p \in {"other", "status"}, SignIn!Step(p)
  PROVE  SignInInv'
<1>0. /\ SettingsInv /\ WritesInv /\ todo \in [{"other", "status"} -> Seq(WriteType)] /\ todo[p] # <<>> /\ todo[p] \in Seq(WriteType)
      /\ last' = last /\ owners \in Seq(Nat) /\ settings \in Stored
  BY DEF SignInInv, WritesInv, SettingsInv, SignIn!Step
<1>1. PICK w : w = Head(todo[p])
  OBVIOUS
<1>2. w \in WriteType /\ Discarded(w)
  <2>1. 1 \in 1..Len(todo[p]) /\ w = todo[p][1] /\ w \in WriteType
    BY <1>0, <1>1
  <2> QED
    BY <1>0, <2>1 DEF WritesInv
<1>a. ASSUME NEW x \in SignIn!Settings, NEW v \in Nat, SignIn!Stores([settings EXCEPT ![x] = v]),
             \/ v = 0 /\ owners' = owners /\ secrets' \in {secrets, secrets \ {settings[x]}}
             \/ v = Len(owners) + 1 /\ (\E a \in Nat : owners' = Append(owners, a)) /\ secrets' = secrets \cup {v},
             todo' = [todo EXCEPT ![p] = (IF settings[x] = 0 THEN <<>> ELSE <<[op |-> "discard", ref |-> settings[x]]>>) \o Tail(@)]
      PROVE  SignInInv'
  <2>1. settings' = [settings EXCEPT ![x] = v] /\ inquiry' = IF SignIn!At("idle") THEN inquiry ELSE [inquiry EXCEPT !.moments = @ \cup {settings'}]
    BY <1>a DEF SignIn!Stores
  <2>2. /\ SettingsInv'
        /\ \A u \in WriteType : Discarded(u) => Discarded(u)'
        /\ settings[x] # 0 => settings[x] \in 1..Len(owners') /\ \A y \in SignIn!Settings : settings'[y] # settings[x]
    BY <1>0, <1>a, <2>1, SettingReplaced
  <2>3. Asked' /\ MomentsInv' /\ ReadInv' /\ ProbeInv' /\ UserInv' /\ SignIn!FrameTrue'
    BY <1>0, <1>a, <2>1, AskerSees
  <2>4. PICK first : first = IF settings[x] = 0 THEN <<>> ELSE <<[op |-> "discard", ref |-> settings[x]]>>
    OBVIOUS
  <2>5. first \in Seq(WriteType) /\ \A i \in 1..Len(first) : Discarded(first[i])'
    <3>1. CASE settings[x] = 0
      BY <2>4, <3>1
    <3>2. CASE settings[x] # 0
      <4>1. PICK old \in Nat : old = settings[x]
        BY <1>0 DEF Stored
      <4>2. PICK d : d = [op |-> "discard", ref |-> old]
        OBVIOUS
      <4>3. d \in WriteType /\ Discarded(d)'
        BY <2>2, <3>2, <4>1, <4>2 DEF WriteType, Discarded
      <4>4. first = <<d>>
        BY <2>4, <3>2, <4>1, <4>2
      <4> QED
        BY <4>3, <4>4
    <3> QED
      BY <3>1, <3>2
  <2>6. WritesInv'
    BY <1>0, <1>a, <2>2, <2>4, <2>5, WritesGoOn
  <2> QED
    BY <2>2, <2>3, <2>6 DEF SignInInv
<1>b. ASSUME NEW x \in SignIn!Settings, NEW a \in Nat, SignIn!Set(p, x, a) PROVE SignInInv'
  <2>1. PICK v \in Nat : v = Len(owners) + 1
    BY <1>0
  <2>2. /\ owners' = Append(owners, a) /\ secrets' = secrets \cup {v} /\ SignIn!Stores([settings EXCEPT ![x] = v])
        /\ todo' = [todo EXCEPT ![p] = (IF settings[x] = 0 THEN <<>> ELSE <<[op |-> "discard", ref |-> settings[x]]>>) \o Tail(@)]
    BY <1>b, <2>1 DEF SignIn!Set, SignIn!Nothing
  <2> QED
    BY <1>a, <2>1, <2>2
<1>3. CASE w.op = "set" /\ SignIn!Set(p, w.setting, Len(owners) + 1)
  <2>1. w.setting \in SignIn!Settings /\ Len(owners) + 1 \in Nat
    BY <1>0, <1>2, <1>3 DEF WriteType
  <2> QED
    BY <1>3, <1>b, <2>1
<1>4. CASE settings.auth # 0 /\ SignIn!Set(p, "auth", owners[settings.auth])
  <2>1. "auth" \in SignIn!Settings
    BY DEF SignIn!Settings
  <2>2. settings["auth"] \in 1..Len(owners)
    BY <1>0, <1>4, <2>1 DEF SettingsInv, Stored
  <2>3. owners[settings.auth] \in Nat
    BY <1>0, <2>2
  <2> QED
    BY <1>4, <1>b, <2>1, <2>3
<1>5. CASE w.op = "clear" /\ SignIn!Clear(p, w.setting)
  <2>1. w.setting \in SignIn!Settings
    BY <1>2, <1>5 DEF WriteType
  <2> QED
    BY <1>0, <1>5, <1>a, <2>1 DEF SignIn!Clear, SignIn!Nothing
<1>6. CASE w.op = "discard" /\ SignIn!Discard(p, w.ref)
  <2>1. /\ UNCHANGED <<settings, owners, inquiry>> /\ todo' = [todo EXCEPT ![p] = Tail(@)]
        /\ secrets' \in {secrets, secrets \ {w.ref}}
    BY <1>6 DEF SignIn!Discard
  <2>2. \A x \in SignIn!Settings : settings[x] # w.ref
    BY <1>2, <1>6 DEF Discarded
  <2>3. SettingsInv'
    BY <1>0, <2>1, <2>2 DEF SettingsInv
  <2>4. todo' = [todo EXCEPT ![p] = <<>> \o Tail(@)]
    <3>1. Tail(todo[p]) \in Seq(WriteType)
      BY <1>0
    <3>2. <<>> \o Tail(todo[p]) = Tail(todo[p])
      BY <3>1
    <3> QED
      BY <1>0, <2>1, <3>2
  <2>5. \A u \in WriteType : Discarded(u) => Discarded(u)'
    BY <2>1 DEF Discarded
  <2>6. WritesInv'
    <3>1. <<>> \in Seq(WriteType) /\ \A i \in 1..Len(<<>>) : Discarded(<<>>[i])'
      OBVIOUS
    <3> QED
      BY <1>0, <2>4, <2>5, <3>1, WritesGoOn
  <2> QED
    BY <1>0, <2>1, <2>3, <2>6, AskerIdle DEF SignInInv
<1> QED
  BY <1>1, <1>3, <1>4, <1>5, <1>6 DEF SignIn!Step, SignIn!Nothing

-----------------------------------------------------------------------------
\* The frame of a snapshot.
FrameOf(frame, moments, since) ==
  /\ frame.shows \in DOMAIN SignIn!Behind => \E m \in moments : m[SignIn!Behind[frame.shows]] = frame.ref
  /\ frame.shows = "nobody" =>
       \/ \E m \in moments : SignIn!Shows(m).shows = "nobody"
       \/ \E m \in moments, setting \in SignIn!Settings : m[setting] > since
  /\ SignIn!Cardinality(moments) = 1 =>
       \A m \in moments : /\ frame.shows = "pending" <=> m.pending # 0
                          /\ frame.shows = "device token" => m.apiKey = 0

LEMMA SnapshotIs ==
  ASSUME NEW M, IsFiniteSet(M), NEW now \in M, NEW since, NEW read \in Stored,
         \A x \in SignIn!Settings : Reads(x, read[x], M, since, now)
  PROVE  LET frame == SignIn!Shows(read) IN
         /\ FrameOf(frame, M, since)
         /\ SignIn!SignedIn(frame) =>
              /\ frame.shows \in {"api key", "device token"} /\ frame.ref # 0
              /\ M = {now} => frame.ref = now[IF frame.shows = "api key" THEN "apiKey" ELSE "auth"]
<1>0. "auth" \in SignIn!Settings /\ "apiKey" \in SignIn!Settings /\ "pending" \in SignIn!Settings
  BY DEF SignIn!Settings
<1>1. PICK frame : frame = SignIn!Shows(read)
  OBVIOUS
<1>2. \/ frame.shows = "pending" /\ frame.ref = read["pending"] /\ read["pending"] # 0
      \/ frame.shows = "api key" /\ frame.ref = read["apiKey"] /\ read["apiKey"] # 0 /\ read["pending"] = 0
      \/ frame.shows = "device token" /\ frame.ref = read["auth"] /\ read["auth"] # 0 /\ read["pending"] = 0 /\ read["apiKey"] = 0
      \/ frame.shows = "nobody" /\ read["pending"] = 0 /\ read["apiKey"] = 0 /\ read["auth"] = 0
  <2>1. CASE read["pending"] # 0
    BY <1>1, <2>1 DEF SignIn!Shows, SignIn!Nothing
  <2>2. CASE read["pending"] = 0 /\ read["apiKey"] # 0
    BY <1>1, <2>2 DEF SignIn!Shows, SignIn!Nothing
  <2>3. CASE read["pending"] = 0 /\ read["apiKey"] = 0 /\ read["auth"] # 0
    BY <1>1, <2>3 DEF SignIn!Shows, SignIn!Nothing
  <2>4. CASE read["pending"] = 0 /\ read["apiKey"] = 0 /\ read["auth"] = 0
    BY <1>1, <2>4 DEF SignIn!Shows, SignIn!Nothing
  <2> QED
    BY <2>1, <2>2, <2>3, <2>4
<1>3. /\ DOMAIN SignIn!Behind = {"pending", "api key", "device token"}
      /\ SignIn!Behind["pending"] = "pending" /\ SignIn!Behind["api key"] = "apiKey" /\ SignIn!Behind["device token"] = "auth"
  BY DEF SignIn!Behind
<1>4. frame.shows \in DOMAIN SignIn!Behind => \E m \in M : m[SignIn!Behind[frame.shows]] = frame.ref
  <2>1. /\ "pending" \notin {"api key", "device token", "nobody"}
        /\ "api key" \notin {"device token", "nobody"} /\ "device token" # "nobody"
    OBVIOUS
  <2>2. \A setting \in SignIn!Settings : read[setting] # 0 => \E m \in M : m[setting] = read[setting]
    BY DEF Reads
  <2>3. CASE frame.shows = "pending"
    BY <1>0, <1>2, <1>3, <2>1, <2>2, <2>3
  <2>4. CASE frame.shows = "api key"
    BY <1>0, <1>2, <1>3, <2>1, <2>2, <2>4
  <2>5. CASE frame.shows = "device token"
    BY <1>0, <1>2, <1>3, <2>1, <2>2, <2>5
  <2> QED
    BY <1>3, <2>3, <2>4, <2>5
<1>5. frame.shows = "nobody" =>
        \/ \E m \in M : SignIn!Shows(m).shows = "nobody"
        \/ \E m \in M, setting \in SignIn!Settings : m[setting] > since
  <2>1. ASSUME frame.shows = "nobody", ~New(M, since) PROVE SignIn!Shows(now).shows = "nobody"
    <3>1. now["auth"] = 0 /\ now["apiKey"] = 0 /\ now["pending"] = 0
      BY <1>0, <1>2, <2>1 DEF Reads
    <3> QED
      BY <3>1 DEF SignIn!Shows, SignIn!Nothing
  <2> QED
    BY <2>1 DEF New
<1>6. M = {now} => read["auth"] = now["auth"] /\ read["apiKey"] = now["apiKey"] /\ read["pending"] = now["pending"]
  BY <1>0 DEF Reads
<1>7. SignIn!Cardinality(M) = 1 => \A m \in M : /\ frame.shows = "pending" <=> m.pending # 0
                                                /\ frame.shows = "device token" => m.apiKey = 0
  <2>1. SignIn!Cardinality(M) = 1 => M = {now}
    BY OneMoment
  <2> QED
    BY <1>2, <1>6, <2>1
<1>8. SignIn!SignedIn(frame) =>
        /\ frame.shows \in {"api key", "device token"} /\ frame.ref # 0
        /\ M = {now} => frame.ref = now[IF frame.shows = "api key" THEN "apiKey" ELSE "auth"]
  BY <1>2, <1>6 DEF SignIn!SignedIn
<1> QED
  BY <1>1, <1>4, <1>5, <1>7, <1>8 DEF FrameOf

\* A reading that has just begun.
Begun(r, now) ==
  /\ DOMAIN r = AskerFields /\ r.source = inquiry.source /\ r.moments = {now} /\ r.since = Len(owners) /\ r.read = SignIn!NoRead
  /\ \/ r.at = "row" /\ r.next = SignIn!ReadOrder
     \/ r.at = "advance" /\ r.next = <<"pending">>

LEMMA ReadingBegins ==
  ASSUME DOMAIN inquiry = AskerFields, NEW now
  PROVE  Begun(SignIn!Reading(SignIn!ReadOrder, now), now)
  BY DEF SignIn!Reading, Begun, AskerFields

LEMMA PassBegins ==
  ASSUME DOMAIN inquiry = AskerFields, NEW now, NEW passes
  PROVE  Begun(SignIn!Pass(passes, now), now)
<1>1. CASE Head(passes) = "tick"
  <2>1. PICK r : r = SignIn!Reading(<<"pending">>, now)
    OBVIOUS
  <2>2. /\ DOMAIN r = AskerFields /\ r.source = inquiry.source /\ r.moments = {now} /\ r.since = Len(owners) /\ r.read = SignIn!NoRead
        /\ r.next = <<"pending">>
    BY <2>1 DEF SignIn!Reading, AskerFields
  <2>3. SignIn!Pass(passes, now) = [r EXCEPT !.at = "advance", !.left = passes]
    BY <1>1, <2>1 DEF SignIn!Pass
  <2> QED
    BY <2>2, <2>3 DEF Begun, AskerFields
<1>2. CASE Head(passes) # "tick"
  <2>1. PICK r : r = SignIn!Reading(SignIn!ReadOrder, now)
    OBVIOUS
  <2>2. /\ DOMAIN r = AskerFields /\ r.source = inquiry.source /\ r.moments = {now} /\ r.since = Len(owners) /\ r.read = SignIn!NoRead
        /\ r.next = SignIn!ReadOrder
    BY <2>1 DEF SignIn!Reading, AskerFields
  <2>3. SignIn!Pass(passes, now) = [r EXCEPT !.at = "row", !.left = passes]
    BY <1>2, <2>1 DEF SignIn!Pass
  <2> QED
    BY <2>2, <2>3 DEF Begun, AskerFields
<1> QED
  BY <1>1, <1>2

LEMMA AskerBegins ==
  ASSUME SettingsInv, SettingsInv', owners' = owners, inquiry.source # "runtime", Begun(inquiry', settings')
  PROVE  Asked' /\ MomentsInv' /\ ReadInv' /\ ProbeInv' /\ UserInv'
<1>1. settings' \in Stored /\ Len(owners) \in Nat /\ IsFiniteSet({settings'})
  <2>1. PICK now : now = settings'
    OBVIOUS
  <2>2. IsFiniteSet({now})
    BY FS_Singleton
  <2> QED
    BY <2>1, <2>2 DEF SettingsInv
<1>2. SignIn!NoRead \in Stored
  BY DEF SignIn!NoRead, Stored, SignIn!Nothing
<1>3. Asked'
  BY <1>2, OrderIs DEF Asked, Begun
<1>4. MomentsInv'
  BY <1>1 DEF MomentsInv, Begun
<1>5. ReadInv'
  BY OrderIs DEF ReadInv, Begun
<1>6. ProbeInv' /\ UserInv'
  BY DEF ProbeInv, UserInv, Begun
<1> QED
  BY <1>3, <1>4, <1>5, <1>6

LEMMA AskerReports ==
  ASSUME DOMAIN inquiry = AskerFields, NEW code, code # "user", SignIn!Report(code)
  PROVE  Asked' /\ MomentsInv' /\ ReadInv' /\ ProbeInv' /\ UserInv' /\ inquiry'.source = inquiry.source
<1>1. DOMAIN inquiry' = AskerFields /\ inquiry'.at = "idle" /\ inquiry'.report = code /\ inquiry'.source = inquiry.source
  BY DEF SignIn!Report, AskerFields
<1> QED
  BY <1>1 DEF Asked, MomentsInv, ReadInv, ProbeInv, UserInv

\* A snapshot has been taken.
LEMMA AskerTakes ==
  ASSUME SignInInv, SettingsInv', owners' = owners, inquiry.at \in {"row", "secret"},
         NEW read \in Stored, NEW N, IsFiniteSet(N), N \subseteq Stored, settings' \in N,
         \A x \in SignIn!Settings : Reads(x, read[x], N, inquiry.since, settings'),
         SignIn!Take(read, settings', N)
  PROVE  Asked' /\ MomentsInv' /\ ReadInv' /\ ProbeInv' /\ UserInv' /\ SignIn!FrameTrue'
<1>0. /\ DOMAIN inquiry = AskerFields /\ inquiry.source # "runtime" /\ SettingsInv
      /\ inquiry.since \in Nat /\ inquiry.since <= Len(owners)
  BY DEF SignInInv, Asked, MomentsInv
<1>1. PICK frame, since, now : frame = SignIn!Shows(read) /\ since = inquiry.since /\ now = settings'
  OBVIOUS
<1>2. last' = [frame |-> frame, moments |-> N, since |-> since]
  BY <1>1 DEF SignIn!Take
<1>3. /\ FrameOf(frame, N, since)
      /\ SignIn!SignedIn(frame) =>
           /\ frame.shows \in {"api key", "device token"} /\ frame.ref # 0
           /\ N = {now} => frame.ref = now[IF frame.shows = "api key" THEN "apiKey" ELSE "auth"]
  <2>1. now \in N /\ \A x \in SignIn!Settings : Reads(x, read[x], N, since, now)
    BY <1>1
  <2> QED
    BY <1>1, <2>1, SnapshotIs
<1>4. last'.frame = frame /\ last'.moments = N /\ last'.since = since
  BY <1>2
<1>5. SignIn!FrameTrue'
  BY <1>3, <1>4 DEF FrameOf, SignIn!FrameTrue, SignIn!Nothing
<1>6. ASSUME NEW passes, inquiry' = SignIn!Pass(passes, settings')
      PROVE  Asked' /\ MomentsInv' /\ ReadInv' /\ ProbeInv' /\ UserInv' /\ SignIn!FrameTrue'
  <2>1. Begun(SignIn!Pass(passes, now), now)
    BY <1>0, PassBegins
  <2>2. inquiry' = SignIn!Pass(passes, now)
    BY <1>1, <1>6
  <2>3. PICK r : r = SignIn!Pass(passes, now)
    OBVIOUS
  <2>4. Begun(r, now) /\ inquiry' = r /\ settings' = now
    BY <1>1, <2>1, <2>2, <2>3
  <2>5. Begun(inquiry', settings')
    BY <2>4
  <2> QED
    BY <1>0, <1>5, <2>5, AskerBegins
<1>7. CASE SignIn!SignedIn(frame) /\ inquiry' = [inquiry EXCEPT !.at = "request", !.moments = N]
  <2>1. /\ DOMAIN inquiry' = AskerFields /\ inquiry'.at = "request" /\ inquiry'.moments = N /\ inquiry'.source = inquiry.source
        /\ inquiry'.since = inquiry.since
    BY <1>0, <1>7 DEF AskerFields
  <2>2. Asked' /\ ReadInv' /\ UserInv'
    BY <2>1 DEF Asked, ReadInv, UserInv
  <2>3. MomentsInv'
    BY <1>0, <2>1 DEF MomentsInv
  <2>4. ProbeInv'
    BY <1>1, <1>3, <1>4, <1>7, <2>1 DEF ProbeInv
  <2> QED
    BY <1>5, <2>2, <2>3, <2>4
<1>8. CASE SignIn!Report("frame")
  BY <1>0, <1>5, <1>8, AskerReports
<1>9. \/ \E passes : inquiry' = SignIn!Pass(passes, settings')
      \/ SignIn!SignedIn(frame) /\ inquiry' = [inquiry EXCEPT !.at = "request", !.moments = N]
      \/ SignIn!Report("frame")
  BY <1>1 DEF SignIn!Take
<1> QED
  BY <1>6, <1>7, <1>8, <1>9

\* The next setting has been read.
LEMMA AskerContinues ==
  ASSUME SignInInv, SettingsInv', owners' = owners, inquiry.at \in {"row", "secret"}, NEW value \in Nat,
         SignIn!Continue(value, settings'),
         settings' = settings \/ \E x \in SignIn!Settings : settings' = [settings EXCEPT ![x] = 0],
         Reads(Head(inquiry.next), value, inquiry.moments \cup {settings'}, inquiry.since, settings')
  PROVE  Asked' /\ MomentsInv' /\ ReadInv' /\ ProbeInv' /\ UserInv' /\ SignIn!FrameTrue'
<1>0. /\ DOMAIN inquiry = AskerFields /\ inquiry.source # "runtime" /\ inquiry.next \in Orders /\ inquiry.read \in Stored
      /\ inquiry.moments \subseteq Stored /\ IsFiniteSet(inquiry.moments) /\ settings \in inquiry.moments
      /\ inquiry.since \in Nat /\ inquiry.since <= Len(owners) /\ settings' \in Stored
  BY DEF SignInInv, Asked, MomentsInv, SettingsInv
<1>1. PICK h, N, now, since, read, order :
        /\ h = Head(inquiry.next) /\ N = inquiry.moments \cup {settings'} /\ now = settings' /\ since = inquiry.since
        /\ read = [inquiry.read EXCEPT ![h] = value] /\ order = inquiry.next
  OBVIOUS
<1>2. /\ h \in SignIn!Settings /\ h \in Unread(order) /\ Unread(order) \subseteq SignIn!Settings
      /\ IF Len(order) > 1 THEN Tail(order) \in Orders /\ Unread(Tail(order)) = Unread(order) \ {h} ELSE Unread(order) = {h}
  BY <1>0, <1>1, OrderIs
<1>3. IsFiniteSet(N) /\ N \subseteq Stored /\ now \in N
  BY <1>0, <1>1, FS_AddElement
<1>4. read \in Stored /\ read[h] = value /\ \A x \in SignIn!Settings : x # h => read[x] = inquiry.read[x]
  BY <1>0, <1>1, <1>2 DEF Stored
<1>5. ASSUME NEW x \in SignIn!Settings, x \notin Unread(order) PROVE Reads(x, inquiry.read[x], N, since, now)
  <2>1. PICK M, before, v : M = inquiry.moments /\ before = settings /\ v = inquiry.read[x]
    OBVIOUS
  <2>2. Reads(x, v, M, since, before)
    BY <1>1, <1>5, <2>1 DEF SignInInv, ReadInv, ReadIs
  <2>3. CASE now = before
    <3>1. N = M
      BY <1>0, <1>1, <2>1, <2>3
    <3> QED
      BY <2>1, <2>2, <2>3, <3>1
  <2>4. CASE \E y \in SignIn!Settings : now = [before EXCEPT ![y] = 0]
    <3>1. Moves(M, before, now, since)
      <4>1. PICK y \in SignIn!Settings : now = [before EXCEPT ![y] = 0]
        BY <2>4
      <4>2. before \in M /\ before \in Stored /\ since \in Nat /\ 0 \in Nat
        BY <1>0, <1>1, <2>1
      <4> QED
        BY <4>1, <4>2 DEF Moves
    <3>2. Stays(M, before, now, since)
      BY <3>1, ReadsStay
    <3> QED
      BY <1>1, <2>1, <2>2, <3>2 DEF Stays
  <2> QED
    BY <1>1, <2>1, <2>3, <2>4
<1>6. ASSUME NEW x \in SignIn!Settings, x \notin Unread(order) \ {h} PROVE Reads(x, read[x], N, since, now)
  BY <1>1, <1>4, <1>5, <1>6
<1>7. CASE Len(order) > 1
  <2>1. inquiry' = [inquiry EXCEPT !.at = "row", !.next = Tail(@), !.row = 0, !.read = read, !.moments = N] /\ last' = last
    BY <1>1, <1>7 DEF SignIn!Continue, SignIn!Nothing
  <2>2. /\ DOMAIN inquiry' = AskerFields /\ inquiry'.at = "row" /\ inquiry'.next = Tail(order) /\ inquiry'.read = read
        /\ inquiry'.moments = N /\ inquiry'.source = inquiry.source /\ inquiry'.since = since
    BY <1>0, <1>1, <2>1 DEF AskerFields
  <2>3. Asked'
    BY <1>0, <1>2, <1>4, <1>7, <2>2 DEF Asked
  <2>4. MomentsInv'
    BY <1>0, <1>1, <1>3, <2>2 DEF MomentsInv
  <2>5. ReadInv'
    <3>1. ASSUME NEW x \in SignIn!Settings, x \notin Unread(inquiry'.next)
          PROVE  ReadIs(x, inquiry.read[x])'
      <4>1. x \notin Unread(order) \ {h}
        BY <1>2, <1>7, <2>2, <3>1
      <4>2. PICK v : v = read[x]
        OBVIOUS
      <4>3. Reads(x, v, N, since, now) /\ inquiry'.read[x] = v
        BY <1>6, <2>2, <4>1, <4>2
      <4> QED
        BY <1>1, <2>2, <4>3 DEF ReadIs
    <3> QED
      BY <2>2, <3>1 DEF ReadInv
  <2>6. ProbeInv' /\ UserInv'
    BY <2>2 DEF ProbeInv, UserInv
  <2>7. SignIn!FrameTrue'
    BY <2>1, <2>2 DEF SignInInv, SignIn!FrameTrue
  <2> QED
    BY <2>3, <2>4, <2>5, <2>6, <2>7
<1>8. CASE ~(Len(order) > 1)
  <2>1. SignIn!Take(read, settings', N)
    BY <1>1, <1>8 DEF SignIn!Continue
  <2>2. \A x \in SignIn!Settings : Reads(x, read[x], N, inquiry.since, settings')
    BY <1>1, <1>2, <1>6, <1>8
  <2> QED
    BY <1>1, <1>3, <1>4, <2>1, <2>2, AskerTakes
<1> QED
  BY <1>7, <1>8

\* A tick looks for a flow in progress before it polls.
LEMMA AskerAdvances ==
  ASSUME SignInInv, SettingsInv', owners' = owners, inquiry.at \in {"advance", "advance secret"}, NEW value,
         SignIn!Continue(value, settings')
  PROVE  Asked' /\ MomentsInv' /\ ReadInv' /\ ProbeInv' /\ UserInv' /\ SignIn!FrameTrue'
<1>0. /\ DOMAIN inquiry = AskerFields /\ inquiry.source # "runtime" /\ SettingsInv /\ settings' \in Stored
      /\ inquiry.moments \subseteq Stored /\ IsFiniteSet(inquiry.moments)
      /\ inquiry.since \in Nat /\ inquiry.since <= Len(owners)
  BY DEF SignInInv, Asked, MomentsInv, SettingsInv
<1>1. PICK N, now : N = inquiry.moments \cup {settings'} /\ now = settings'
  OBVIOUS
<1>2. IsFiniteSet(N) /\ N \subseteq Stored /\ now \in N
  BY <1>0, <1>1, FS_AddElement
<1>3. CASE inquiry' = SignIn!Reading(SignIn!ReadOrder, settings') /\ last' = last
  <2>1. PICK r : r = SignIn!Reading(SignIn!ReadOrder, now)
    OBVIOUS
  <2>2. Begun(r, now)
    BY <1>0, <2>1, ReadingBegins
  <2>3. Begun(inquiry', settings') /\ inquiry'.source = inquiry.source
    BY <1>1, <1>3, <2>1, <2>2 DEF Begun
  <2>4. SignIn!FrameTrue'
    BY <1>3, <2>3 DEF SignInInv, SignIn!FrameTrue
  <2> QED
    BY <1>0, <2>3, <2>4, AskerBegins
<1>4. CASE inquiry' = [inquiry EXCEPT !.at = "poll", !.moments = N] /\ last' = last
  <2>1. /\ DOMAIN inquiry' = AskerFields /\ inquiry'.at = "poll" /\ inquiry'.moments = N /\ inquiry'.source = inquiry.source
        /\ inquiry'.since = inquiry.since
    BY <1>0, <1>4 DEF AskerFields
  <2>2. Asked' /\ ReadInv' /\ ProbeInv' /\ UserInv'
    BY <1>0, <2>1 DEF Asked, ReadInv, ProbeInv, UserInv
  <2>3. MomentsInv'
    BY <1>0, <1>1, <1>2, <2>1 DEF MomentsInv
  <2>4. SignIn!FrameTrue'
    BY <1>4, <2>1 DEF SignInInv, SignIn!FrameTrue
  <2> QED
    BY <2>2, <2>3, <2>4
<1> QED
  BY <1>1, <1>3, <1>4 DEF SignIn!Continue

\* A setting is looked up; what has expired is removed.
LEMMA AskerReadsRow ==
  ASSUME SignInInv, SignIn!ReadRow
  PROVE  SignInInv'
<1>0. /\ SettingsInv /\ WritesInv /\ settings \in Stored /\ DOMAIN inquiry = AskerFields /\ owners' = owners /\ todo' = todo
      /\ inquiry.at \in {"row", "advance"} /\ inquiry.source # "runtime"
      /\ inquiry.at = "row" => inquiry.next \in Orders
      /\ inquiry.at = "advance" => inquiry.next = <<"pending">>
      /\ settings \in inquiry.moments /\ inquiry.moments \subseteq Stored /\ IsFiniteSet(inquiry.moments)
      /\ inquiry.since \in Nat /\ inquiry.since <= Len(owners)
  BY DEF SignInInv, SettingsInv, Asked, MomentsInv, SignIn!ReadRow, SignIn!At
<1>1. PICK h, row : h = Head(inquiry.next) /\ row = settings[h]
  OBVIOUS
<1>2. h \in SignIn!Settings /\ row \in Nat /\ "pending" \in SignIn!Settings
  BY <1>0, <1>1, OrderIs DEF Stored, SignIn!Settings
<1>3. CASE row = 0 /\ SignIn!Continue(0, settings) /\ UNCHANGED <<settings, secrets>>
  <2>1. SettingsInv'
    BY <1>0, <1>3 DEF SettingsInv
  <2>2. WritesInv'
    BY <1>0, <1>3 DEF WritesInv, Discarded
  <2>3. SignIn!Continue(0, settings')
    BY <1>3
  <2>4. CASE inquiry.at = "row"
    <3>1. PICK N, now, since : N = inquiry.moments \cup {settings'} /\ now = settings' /\ since = inquiry.since
      OBVIOUS
    <3>2. now[h] = 0 /\ now \in N
      BY <1>1, <1>3, <3>1
    <3>3. Reads(h, 0, N, since, now)
      BY <3>2 DEF Reads
    <3>4. Reads(Head(inquiry.next), 0, inquiry.moments \cup {settings'}, inquiry.since, settings')
      BY <1>1, <3>1, <3>3
    <3> QED
      BY <1>0, <1>3, <2>1, <2>2, <2>3, <2>4, <3>4, AskerContinues DEF SignInInv
  <2>5. CASE inquiry.at = "advance"
    BY <1>0, <2>1, <2>2, <2>3, <2>5, AskerAdvances DEF SignInInv
  <2> QED
    BY <1>0, <2>4, <2>5
<1>4. CASE /\ row # 0 /\ inquiry' = [inquiry EXCEPT !.at = IF SignIn!At("advance") THEN "advance secret" ELSE "secret", !.row = row]
           /\ UNCHANGED <<settings, secrets, last>>
  <2>1. SettingsInv'
    BY <1>0, <1>4 DEF SettingsInv
  <2>2. WritesInv'
    BY <1>0, <1>4 DEF WritesInv, Discarded
  <2>3. PICK label \in {"advance secret", "secret"} :
          /\ inquiry' = [inquiry EXCEPT !.at = label, !.row = row]
          /\ label = "secret" <=> inquiry.at = "row"
    BY <1>0, <1>4 DEF SignIn!At
  <2>4. /\ DOMAIN inquiry' = AskerFields /\ inquiry'.at = label /\ inquiry'.row = row /\ inquiry'.source = inquiry.source
        /\ inquiry'.next = inquiry.next /\ inquiry'.read = inquiry.read /\ inquiry'.moments = inquiry.moments /\ inquiry'.since = inquiry.since
    BY <1>0, <2>3 DEF AskerFields
  <2>5. Asked'
    BY <1>0, <2>3, <2>4 DEF SignInInv, Asked
  <2>6. MomentsInv'
    BY <1>0, <1>4, <2>4 DEF MomentsInv
  <2>7. ReadInv'
    <3>1. ASSUME inquiry'.at = "secret", NEW x \in SignIn!Settings, x \notin Unread(inquiry'.next)
          PROVE  ReadIs(x, inquiry.read[x])'
      <4>1. PICK v : v = inquiry.read[x]
        OBVIOUS
      <4>2. ReadIs(x, v)
        BY <2>3, <2>4, <3>1, <4>1 DEF SignInInv, ReadInv
      <4>3. inquiry'.read[x] = v
        BY <2>4, <4>1
      <4> QED
        BY <1>4, <2>4, <4>2, <4>3 DEF ReadIs
    <3>2. Head(inquiry'.next) = h
      BY <1>1, <2>4
    <3>3. (\E m \in inquiry.moments : m[h] = row) /\ settings'[h] \in {0, row} /\ row = settings'[h] /\ inquiry'.at # "row"
      BY <1>0, <1>1, <1>4, <2>4
    <3> QED
      BY <1>4, <2>4, <3>1, <3>2, <3>3 DEF ReadInv
  <2>8. ProbeInv' /\ UserInv' /\ SignIn!FrameTrue'
    BY <1>4, <2>4 DEF SignInInv, ProbeInv, UserInv, SignIn!FrameTrue
  <2> QED
    BY <2>1, <2>2, <2>5, <2>6, <2>7, <2>8 DEF SignInInv
<1>5. CASE /\ row # 0 /\ h = "pending" /\ settings' = [settings EXCEPT !.pending = 0] /\ secrets' = secrets \ {row}
           /\ SignIn!Continue(0, settings')
  <2>0. settings' = [settings EXCEPT !["pending"] = 0] /\ row = settings["pending"] /\ 0 \in Nat
    BY <1>1, <1>5
  <2>1. SettingsInv' /\ \A w \in WriteType : Discarded(w) => Discarded(w)'
    BY <1>0, <1>2, <1>5, <2>0, SettingReplaced
  <2>2. WritesInv'
    <3>1. ASSUME NEW p \in {"other", "status"}, NEW i \in 1..Len(todo[p]) PROVE Discarded(todo[p][i])'
      <4>1. PICK w : w = todo[p][i]
        OBVIOUS
      <4>2. w \in WriteType /\ Discarded(w)
        BY <1>0, <4>1 DEF WritesInv
      <4>3. Discarded(w)' /\ todo'[p][i] = w
        BY <1>0, <2>1, <4>1, <4>2
      <4> QED
        BY <4>3 DEF Discarded
    <3> QED
      BY <1>0, <3>1 DEF WritesInv
  <2>3. settings'["pending"] = 0
    BY <1>0, <1>2, <2>0 DEF Stored
  <2>4. CASE inquiry.at = "row"
    <3>1. PICK N, now, since : N = inquiry.moments \cup {settings'} /\ now = settings' /\ since = inquiry.since
      OBVIOUS
    <3>2. now[h] = 0
      BY <1>5, <2>3, <3>1
    <3>3. Reads(h, 0, N, since, now)
      BY <3>2 DEF Reads
    <3>4. Reads(Head(inquiry.next), 0, inquiry.moments \cup {settings'}, inquiry.since, settings')
      BY <1>1, <3>1, <3>3
    <3> QED
      BY <1>0, <1>2, <1>5, <2>0, <2>1, <2>2, <2>4, <3>4, AskerContinues DEF SignInInv
  <2>5. CASE inquiry.at = "advance"
    BY <1>0, <1>5, <2>1, <2>2, <2>5, AskerAdvances DEF SignInInv
  <2> QED
    BY <1>0, <2>4, <2>5
<1> QED
  BY <1>1, <1>3, <1>4, <1>5 DEF SignIn!ReadRow, SignIn!Nothing

\* Its secret is read: one that has gone is of a setting that was replaced or cleared.
LEMMA AskerReadsSecret ==
  ASSUME SignInInv, SignIn!ReadSecret
  PROVE  SignInInv'
<1>0. /\ SettingsInv /\ WritesInv /\ settings \in Stored /\ DOMAIN inquiry = AskerFields /\ UNCHANGED <<settings, secrets, owners, todo>>
      /\ inquiry.at \in {"secret", "advance secret"} /\ inquiry.source # "runtime"
      /\ inquiry.at = "secret" => inquiry.next \in Orders
      /\ settings \in inquiry.moments /\ inquiry.moments \subseteq Stored
  BY DEF SignInInv, SettingsInv, Asked, MomentsInv, SignIn!ReadSecret, SignIn!At
<1>1. SettingsInv' /\ WritesInv'
  BY <1>0 DEF SettingsInv, WritesInv, Discarded
<1>2. CASE SignIn!Report("vault locked") /\ last' = last
  <2>1. Asked' /\ MomentsInv' /\ ReadInv' /\ ProbeInv' /\ UserInv' /\ inquiry'.source = inquiry.source
    BY <1>0, <1>2, AskerReports
  <2>2. SignIn!FrameTrue'
    BY <1>2, <2>1 DEF SignInInv, SignIn!FrameTrue
  <2> QED
    BY <1>1, <2>1, <2>2 DEF SignInInv
<1>3. CASE SignIn!Continue(IF inquiry.row \in secrets THEN inquiry.row ELSE 0, settings)
  <2>1. PICK value : value = IF inquiry.row \in secrets THEN inquiry.row ELSE 0
    OBVIOUS
  <2>2. SignIn!Continue(value, settings')
    BY <1>0, <1>3, <2>1
  <2>3. CASE inquiry.at = "advance secret"
    BY <1>0, <1>1, <2>2, <2>3, AskerAdvances DEF SignInInv
  <2>4. CASE inquiry.at = "secret"
    <3>1. PICK h, N, now, since : h = Head(inquiry.next) /\ N = inquiry.moments /\ now = settings /\ since = inquiry.since
      OBVIOUS
    <3>2. /\ inquiry.row # 0 /\ \E m \in N : m[h] = inquiry.row
          /\ New(N, since) \/ now[h] \in {0, inquiry.row}
          /\ N = {now} => inquiry.row = now[h]
      BY <2>4, <3>1 DEF SignInInv, ReadInv
    <3>3. h \in SignIn!Settings /\ (now[h] # 0 => now[h] \in secrets)
      BY <1>0, <2>4, <3>1, OrderIs DEF SettingsInv
    <3>4. Reads(h, value, N, since, now)
      BY <2>1, <3>2, <3>3 DEF Reads
    <3>5. Reads(Head(inquiry.next), value, inquiry.moments \cup {settings'}, inquiry.since, settings')
      <4>1. inquiry.moments \cup {settings'} = N /\ settings' = now
        BY <1>0, <3>1
      <4> QED
        BY <3>1, <3>4, <4>1
    <3>6. value \in Nat
      BY <1>0, <2>1, <3>2, <3>1, <3>3 DEF Stored
    <3> QED
      BY <1>0, <1>1, <2>2, <2>4, <3>5, <3>6, AskerContinues DEF SignInInv
  <2> QED
    BY <1>0, <2>3, <2>4
<1> QED
  BY <1>2, <1>3 DEF SignIn!ReadSecret, SignIn!Nothing

\* The account that a probe is answered with.
LEMMA AskerProbes ==
  ASSUME SignInInv, SignIn!Probe
  PROVE  SignInInv'
<1>0. /\ SettingsInv /\ WritesInv /\ DOMAIN inquiry = AskerFields /\ UNCHANGED <<settings, secrets, owners, todo, last>>
      /\ inquiry.at = "request"
  BY DEF SignInInv, Asked, SignIn!Probe, SignIn!At
<1>1. SettingsInv' /\ WritesInv'
  BY <1>0 DEF SettingsInv, WritesInv, Discarded
<1>2. CASE SignIn!Report("probe failed") \/ SignIn!Report("invalid")
  <2>1. Asked' /\ MomentsInv' /\ ReadInv' /\ ProbeInv' /\ UserInv' /\ inquiry'.source = inquiry.source
    BY <1>0, <1>2, AskerReports
  <2>2. SignIn!FrameTrue'
    BY <1>0, <2>1 DEF SignInInv, SignIn!FrameTrue
  <2> QED
    BY <1>1, <2>1, <2>2 DEF SignInInv
<1>3. CASE \E user : /\ user = (IF inquiry.source = "runtime" THEN 0 ELSE owners[SignIn!Carried])
                     /\ inquiry' = [inquiry EXCEPT !.at = "idle", !.left = <<>>, !.next = <<>>, !.report = "user", !.user = user]
  <2>1. PICK user : /\ user = (IF inquiry.source = "runtime" THEN 0 ELSE owners[SignIn!Carried])
                    /\ inquiry' = [inquiry EXCEPT !.at = "idle", !.left = <<>>, !.next = <<>>, !.report = "user", !.user = user]
    BY <1>3
  <2>2. /\ DOMAIN inquiry' = AskerFields /\ inquiry'.at = "idle" /\ inquiry'.source = inquiry.source /\ inquiry'.report = "user"
        /\ inquiry'.user = user /\ inquiry'.moments = inquiry.moments
    BY <1>0, <2>1 DEF AskerFields
  <2>3. Asked' /\ MomentsInv' /\ ReadInv' /\ ProbeInv'
    BY <2>2 DEF Asked, MomentsInv, ReadInv, ProbeInv
  <2>4. SignIn!FrameTrue'
    BY <1>0, <2>2 DEF SignInInv, SignIn!FrameTrue
  <2>5. UserInv'
    <3>1. CASE inquiry.source = "runtime"
      BY <2>2, <3>1 DEF UserInv
    <3>2. CASE inquiry.source # "runtime"
      <4>0. PICK N, frame : N = inquiry.moments /\ frame = last.frame
        OBVIOUS
      <4>1. /\ IsFiniteSet(N) /\ settings \in N
            /\ frame.shows \in {"api key", "device token"}
            /\ N = {settings} => frame.ref # 0 /\ frame.ref = settings[IF frame.shows = "api key" THEN "apiKey" ELSE "auth"]
        BY <1>0, <3>2, <4>0 DEF SignInInv, MomentsInv, ProbeInv
      <4>2. SignIn!Cardinality(N) > 1 \/ N = {settings}
        <5>1. PICK now : now = settings
          OBVIOUS
        <5>2. now \in N
          BY <4>1, <5>1
        <5> QED
          BY <4>1, <5>1, <5>2, OneMoment
      <4>3. ASSUME N = {settings}, inquiry.source = (IF frame.shows = "api key" THEN "saved" ELSE "session")
            PROVE  frame.ref \in 1..Len(owners) /\ user = owners[frame.ref]
        <5>1. frame.ref = SignIn!Carried
          <6>1. CASE frame.shows = "api key"
            BY <4>1, <4>3, <6>1 DEF SignIn!Carried
          <6>2. CASE frame.shows = "device token"
            BY <4>1, <4>3, <6>2 DEF SignIn!Carried
          <6> QED
            BY <4>1, <6>1, <6>2
        <5>2. PICK x \in SignIn!Settings : frame.ref = settings[x]
          BY <4>1, <4>3 DEF SignIn!Settings
        <5>3. frame.ref # 0 /\ frame.ref \in Nat /\ frame.ref <= Len(owners) /\ Len(owners) \in Nat
          <6>1. settings[x] \in Nat /\ settings[x] <= Len(owners) /\ Len(owners) \in Nat
            BY <1>0 DEF SettingsInv, Stored
          <6> QED
            BY <4>1, <4>3, <5>2, <6>1
        <5> QED
          BY <2>1, <3>2, <5>1, <5>3
      <4> QED
        BY <1>0, <2>2, <4>0, <4>2, <4>3 DEF UserInv
    <3> QED
      BY <3>1, <3>2
  <2> QED
    BY <1>1, <2>3, <2>4, <2>5 DEF SignInInv
<1> QED
  BY <1>2, <1>3 DEF SignIn!Probe, SignIn!Nothing

LEMMA SignInStep == SignInInv /\ [SignIn!Next]_(SignIn!vars) => SignInInv'
<1> SUFFICES ASSUME SignInInv, [SignIn!Next]_(SignIn!vars) PROVE SignInInv'
  OBVIOUS
<1>0. /\ SettingsInv /\ WritesInv /\ DOMAIN inquiry = AskerFields /\ todo \in [{"other", "status"} -> Seq(WriteType)]
  BY DEF SignInInv, WritesInv, Asked
<1>e. <<>> \in Seq(WriteType) /\ \A i \in 1..Len(<<>>) : FALSE
  OBVIOUS
<1>i. ASSUME UNCHANGED <<settings, secrets, owners, inquiry, last>>, WritesInv' PROVE SignInInv'
  <2>1. SettingsInv'
    BY <1>0, <1>i DEF SettingsInv
  <2> QED
    BY <1>i, <2>1, AskerIdle DEF SignInInv
<1>1. CASE SignIn!Begin
  <2>1. PICK writes \in SignIn!Others : todo' = [todo EXCEPT !["other"] = writes]
    BY <1>1 DEF SignIn!Begin
  <2>2. writes \in Seq(WriteType) /\ \A i \in 1..Len(writes) : writes[i].op # "discard"
    BY Signings
  <2>3. UNCHANGED <<settings, secrets, owners, inquiry, last>>
    BY <1>1 DEF SignIn!Begin
  <2>4. WritesInv'
    BY <1>0, <2>1, <2>2, <2>3, WritesReplaced
  <2> QED
    BY <1>i, <2>3, <2>4
<1>2. CASE SignIn!Stop
  <2>1. todo' = [todo EXCEPT !["other"] = <<>>] /\ UNCHANGED <<settings, secrets, owners, inquiry, last>>
    BY <1>2 DEF SignIn!Stop
  <2>2. WritesInv'
    BY <1>0, <1>e, <2>1, WritesReplaced
  <2> QED
    BY <1>i, <2>1, <2>2
<1>3. CASE SignIn!Lock
  <2>1. UNCHANGED <<settings, secrets, owners, inquiry, last, todo>>
    BY <1>3 DEF SignIn!Lock
  <2>2. WritesInv'
    BY <1>0, <2>1 DEF WritesInv, Discarded
  <2> QED
    BY <1>i, <2>1, <2>2
<1>4. CASE \E p \in {"other", "status"} : SignIn!Step(p)
  BY <1>4, SignInWrites
<1>5. CASE SignIn!Ask
  <2>0. UNCHANGED <<settings, secrets, owners, todo>> /\ inquiry.at = "idle"
    BY <1>5 DEF SignIn!Ask, SignIn!At
  <2>1. SettingsInv' /\ WritesInv'
    BY <1>0, <2>0 DEF SettingsInv, WritesInv, Discarded
  <2>2. PICK options \in SignIn!Options :
          IF inquiry.source = "runtime"
          THEN inquiry' = [inquiry EXCEPT !.options = options, !.at = IF options.probe THEN "request" ELSE "idle",
                                          !.user = 0, !.report = IF options.probe THEN "none" ELSE "frame"]
          ELSE /\ inquiry' = [SignIn!Pass(SignIn!Passes(options), settings) EXCEPT !.options = options, !.user = 0, !.report = "none"]
               /\ last' = SignIn!NoSnapshot
    BY <1>5 DEF SignIn!Ask, SignIn!Nothing
  <2>3. CASE inquiry.source = "runtime"
    <3>1. PICK label \in {"request", "idle"}, code \in {"none", "frame"} :
            inquiry' = [inquiry EXCEPT !.options = options, !.at = label, !.user = 0, !.report = code]
      BY <2>2, <2>3
    <3>2. DOMAIN inquiry' = AskerFields /\ inquiry'.at = label /\ inquiry'.report = code /\ inquiry'.source = "runtime"
      BY <1>0, <2>3, <3>1 DEF AskerFields
    <3> QED
      BY <2>1, <3>2 DEF SignInInv, Asked, MomentsInv, ReadInv, ProbeInv, UserInv, SignIn!FrameTrue
  <2>4. CASE inquiry.source # "runtime"
    <3>1. PICK r, now : r = SignIn!Pass(SignIn!Passes(options), settings) /\ now = settings
      OBVIOUS
    <3>2. Begun(r, now)
      BY <1>0, <3>1, PassBegins
    <3>3. inquiry' = [r EXCEPT !.options = options, !.user = 0, !.report = "none"] /\ last' = SignIn!NoSnapshot
      BY <2>2, <2>4, <3>1
    <3>4. /\ DOMAIN inquiry' = AskerFields /\ inquiry'.source = r.source /\ inquiry'.moments = r.moments /\ inquiry'.since = r.since
          /\ inquiry'.read = r.read /\ inquiry'.at = r.at /\ inquiry'.next = r.next
      BY <3>2, <3>3 DEF Begun, AskerFields
    <3>5. Begun(inquiry', settings')
      BY <2>0, <3>1, <3>2, <3>4 DEF Begun
    <3>6. SignIn!FrameTrue'
      BY <3>3 DEF SignIn!FrameTrue, SignIn!NoSnapshot
    <3> QED
      BY <1>0, <2>0, <2>1, <2>4, <3>5, <3>6, AskerBegins DEF SignInInv
  <2> QED
    BY <2>3, <2>4
<1>6. CASE SignIn!ReadRow
  BY <1>6, AskerReadsRow
<1>7. CASE SignIn!ReadSecret
  BY <1>7, AskerReadsSecret
\* The tokens of an approved flow are to be stored, or the settings are read; or it fails.
<1>r. ASSUME inquiry' = SignIn!Reading(SignIn!ReadOrder, settings), inquiry.source # "runtime",
             UNCHANGED <<settings, secrets, owners, todo, last>>
      PROVE  SignInInv'
  <2>1. SettingsInv' /\ WritesInv'
    BY <1>0, <1>r DEF SettingsInv, WritesInv, Discarded
  <2>2. PICK r, now : r = SignIn!Reading(SignIn!ReadOrder, now) /\ now = settings
    OBVIOUS
  <2>3. Begun(r, now)
    BY <1>0, <2>2, ReadingBegins
  <2>4. Begun(inquiry', settings') /\ inquiry'.source = inquiry.source
    BY <1>r, <2>2, <2>3 DEF Begun
  <2>5. SignIn!FrameTrue'
    BY <1>r, <2>4 DEF SignInInv, SignIn!FrameTrue
  <2> QED
    BY <1>0, <1>r, <2>1, <2>4, <2>5, AskerBegins DEF SignInInv
<1>f. ASSUME NEW code, code # "user", SignIn!Report(code), UNCHANGED <<settings, secrets, owners, last>>, WritesInv'
      PROVE  SignInInv'
  <2>1. SettingsInv'
    BY <1>0, <1>f DEF SettingsInv
  <2>2. Asked' /\ MomentsInv' /\ ReadInv' /\ ProbeInv' /\ UserInv' /\ inquiry'.source = inquiry.source
    BY <1>0, <1>f, AskerReports
  <2>3. SignIn!FrameTrue'
    BY <1>f, <2>2 DEF SignInInv, SignIn!FrameTrue
  <2> QED
    BY <1>f, <2>1, <2>2, <2>3 DEF SignInInv
<1>8. CASE SignIn!Advance
  <2>0. UNCHANGED <<settings, secrets, owners, last>> /\ inquiry.at = "poll" /\ inquiry.source # "runtime"
    BY <1>8 DEF SignInInv, Asked, SignIn!Advance, SignIn!At
  <2>1. todo' = todo => WritesInv'
    BY <1>0, <2>0 DEF WritesInv, Discarded
  <2>2. CASE inquiry' = SignIn!Reading(SignIn!ReadOrder, settings) /\ todo' = todo
    BY <1>r, <2>0, <2>2
  <2>3. CASE inquiry' = [inquiry EXCEPT !.at = "storing"]
             /\ todo' = [todo EXCEPT !["status"] =
                           <<SignIn!Write("set", "auth"), SignIn!Write("clear", "apiKey"), SignIn!Write("clear", "pending")>>]
    <3>1. SettingsInv'
      BY <1>0, <2>0 DEF SettingsInv
    <3>2. PICK new : new = <<SignIn!Write("set", "auth"), SignIn!Write("clear", "apiKey"), SignIn!Write("clear", "pending")>>
      OBVIOUS
    <3>3. new \in Seq(WriteType) /\ \A i \in 1..Len(new) : new[i].op # "discard"
      BY <3>2, Signings
    <3>4. WritesInv'
      BY <1>0, <2>0, <2>3, <3>2, <3>3, WritesReplaced
    <3>5. /\ DOMAIN inquiry' = AskerFields /\ inquiry'.at = "storing" /\ inquiry'.moments = inquiry.moments
          /\ inquiry'.source = inquiry.source /\ inquiry'.since = inquiry.since
      BY <1>0, <2>3 DEF AskerFields
    <3>6. Asked' /\ MomentsInv'
      BY <2>0, <3>5 DEF SignInInv, Asked, MomentsInv
    <3>7. ReadInv' /\ ProbeInv' /\ UserInv' /\ SignIn!FrameTrue'
      BY <2>0, <3>5 DEF SignInInv, ReadInv, ProbeInv, UserInv, SignIn!FrameTrue
    <3> QED
      BY <3>1, <3>4, <3>6, <3>7 DEF SignInInv
  <2>4. CASE SignIn!Report("failed") /\ todo' = todo
    BY <1>f, <2>0, <2>1, <2>4
  <2> QED
    BY <1>8, <2>2, <2>3, <2>4 DEF SignIn!Advance
<1>9. CASE SignIn!Advanced
  <2>0. UNCHANGED <<settings, secrets, owners, last>> /\ inquiry.at = "storing" /\ inquiry.source # "runtime"
    BY <1>9 DEF SignInInv, Asked, SignIn!Advanced, SignIn!At
  <2>1. CASE inquiry' = SignIn!Reading(SignIn!ReadOrder, settings) /\ todo' = todo
    BY <1>r, <2>0, <2>1
  <2>2. CASE todo' = [todo EXCEPT !["status"] = <<>>] /\ SignIn!Report("vault locked")
    <3>1. WritesInv'
      BY <1>0, <1>e, <2>0, <2>2, WritesReplaced
    <3> QED
      BY <1>f, <2>0, <2>2, <3>1
  <2> QED
    BY <1>9, <2>1, <2>2 DEF SignIn!Advanced
<1>10. CASE SignIn!Probe
  BY <1>10, AskerProbes
<1>11. CASE UNCHANGED SignIn!vars
  <2>1. UNCHANGED <<settings, secrets, owners, inquiry, last, todo>>
    BY <1>11 DEF SignIn!vars
  <2>2. WritesInv'
    BY <1>0, <2>1 DEF WritesInv, Discarded
  <2> QED
    BY <1>i, <2>1, <2>2
<1> QED
  BY <1>1, <1>2, <1>3, <1>4, <1>5, <1>6, <1>7, <1>8, <1>9, <1>10, <1>11 DEF SignIn!Next

-----------------------------------------------------------------------------
(* Catalog, one `odp` or `directory` command.                               *)

\* Nothing has failed and nothing is reported; the Service was looked at, and what the
\* command will ask for was offered then, unless the command does not look first.
Undecided ==
  /\ browse.report = Browse!Report("nothing", FALSE)
  /\ browse.suggested = "nothing"
  /\ happened = Browse!NoFailure

BrowseInv ==
  /\ DOMAIN browse = {"at", "saw", "report", "suggested", "items"}
  /\ browse.at \in {"input", "inspect", "request", "ended"}
  /\ browse.at # "ended" => Undecided
  /\ browse.at \in {"input", "inspect"} => questions = <<>>
  /\ browse.at = "inspect" => Browse!LooksFirst(input)
  /\ browse.at = "request" =>
       \/ ~Browse!LooksFirst(input) /\ questions = <<>>
       \/ /\ Browse!LooksFirst(input)
          /\ Browse!Operation(input) \in browse.saw
          /\ questions = <<[what |-> "inspect", over |-> "signed"]>>
  /\ browse.at = "ended" => Browse!CatalogTrue

LEMMA NoFailureIs == Browse!NoFailure.layer = "nothing" /\ Browse!NoFailure.cause = "nothing"
BY DEF Browse!NoFailure, Browse!Nothing

LEMMA FirstQuestion ==
  ASSUME NEW x
  PROVE  Append(<<>>, x) = <<x>>
<1>1. <<>> \in Seq({x}) /\ x \in {x}
  OBVIOUS
<1> QED BY <1>1

LEMMA NextQuestion ==
  ASSUME NEW x, NEW y
  PROVE  \A k \in DOMAIN Append(<<y>>, x) : Append(<<y>>, x)[k] \in {y, x}
<1> DEFINE s == <<y>>
<1>1. s \in Seq({x, y}) /\ x \in {x, y}
  OBVIOUS
<1> HIDE DEF s
<1>2. Append(s, x) \in Seq({x, y})
  BY <1>1
<1>3. \A k \in DOMAIN Append(s, x) : Append(s, x)[k] \in {x, y}
  BY <1>2
<1> QED BY <1>3 DEF s

LEMMA BrowseTrue == BrowseInv => Browse!CatalogTrue
<1> SUFFICES ASSUME BrowseInv, browse.at # "ended" PROVE Browse!CatalogTrue
  BY DEF BrowseInv
<1>1. Undecided
  BY DEF BrowseInv
<1>2. \A k \in DOMAIN questions : questions[k].what = "inspect" /\ questions[k].over = "signed"
  BY DEF BrowseInv
<1>0. browse.report.code = "nothing" /\ browse.suggested = "nothing"
  BY <1>1 DEF Undecided, Browse!Report
<1>3. Browse!AsksOnlyOffered
  BY <1>0, <1>2 DEF Browse!AsksOnlyOffered, Browse!Operations, Browse!InputErrors, Browse!Nothing
<1>4. Browse!FailureTrue
  BY DEF Browse!FailureTrue
<1>5. Browse!IdentityToServices
  BY <1>2 DEF Browse!IdentityToServices
<1> QED BY <1>3, <1>4, <1>5 DEF Browse!CatalogTrue

LEMMA BrowseInit == Browse!Init => BrowseInv
<1> SUFFICES ASSUME Browse!Init PROVE BrowseInv
  OBVIOUS
<1> QED BY DEF Browse!Init, BrowseInv, Undecided, Browse!Nothing

\* What is refused, and why.
LEMMA InputErrorIs ==
  ASSUME NEW i
  PROVE  Browse!InputError(i) \in Browse!InputErrors \cup {"nothing"}
BY DEF Browse!InputError, Browse!InputErrors, Browse!Nothing

LEMMA BrowseBegin == BrowseInv /\ Browse!Begin => BrowseInv'
<1> SUFFICES ASSUME BrowseInv, Browse!Begin PROVE BrowseInv'
  OBVIOUS
<1> USE DEF BrowseInv
<1>1. CASE Browse!InputError(input) # Browse!Nothing
  <2> PICK e : e = Browse!InputError(input)
    OBVIOUS
  <2>0. e \in Browse!InputErrors /\ e # "nothing"
    BY <1>1, InputErrorIs DEF Browse!Nothing, Browse!InputErrors
  <2>1. /\ browse' = [browse EXCEPT !.at = "ended", !.report = Browse!Report(e, FALSE)]
        /\ UNCHANGED <<input, offered, questions, happened>>
    BY <1>1 DEF Browse!Begin, Browse!End
  <2>2. /\ browse'.at = "ended" /\ browse'.report = Browse!Report(e, FALSE)
        /\ browse'.suggested = "nothing" /\ DOMAIN browse' = DOMAIN browse
    BY <2>1 DEF Undecided, Browse!Begin
  <2>3. questions' = <<>> /\ happened' = Browse!NoFailure
    BY <2>1 DEF Undecided, Browse!Begin
  <2>4. Browse!AsksOnlyOffered'
    BY <2>2, <2>3 DEF Browse!AsksOnlyOffered, Browse!Nothing
  <2>5. Browse!FailureTrue'
    <3>1. happened'.layer = "nothing" /\ happened'.cause = "nothing"
      BY <2>3, NoFailureIs
    <3>2. browse'.report.code = e /\ browse'.report.retryable = FALSE
      BY <2>2 DEF Browse!Report
    <3> QED BY <2>0, <3>1, <3>2 DEF Browse!FailureTrue, Browse!Authentication, Browse!Nothing, Browse!InputErrors
  <2>6. Browse!IdentityToServices'
    BY <2>3 DEF Browse!IdentityToServices
  <2> QED BY <2>2, <2>4, <2>5, <2>6 DEF Browse!CatalogTrue
<1>2. CASE Browse!InputError(input) = Browse!Nothing
  <2>1. /\ browse' = [browse EXCEPT !.at = IF Browse!LooksFirst(input) THEN "inspect" ELSE "request"]
        /\ browse.at = "input"
        /\ UNCHANGED <<input, offered, questions, happened>>
    BY <1>2 DEF Browse!Begin
  <2>2. /\ browse'.at = IF Browse!LooksFirst(input) THEN "inspect" ELSE "request"
        /\ browse'.report = browse.report /\ browse'.suggested = browse.suggested
        /\ DOMAIN browse' = DOMAIN browse
    BY <2>1
  <2>3. Browse!LooksFirst(input)' <=> Browse!LooksFirst(input)
    BY <2>1 DEF Browse!LooksFirst, Browse!Has, Browse!OfDirectory
  <2>4. Undecided'
    BY <2>1, <2>2 DEF Undecided, Browse!Report, Browse!NoFailure, Browse!Nothing
  <2> QED BY <2>1, <2>2, <2>3, <2>4
<1> QED BY <1>1, <1>2

LEMMA BrowseInspect == BrowseInv /\ Browse!Inspect => BrowseInv'
<1> SUFFICES ASSUME BrowseInv, Browse!Inspect PROVE BrowseInv'
  OBVIOUS
<1> USE DEF BrowseInv
<1>0. browse.at = "inspect" /\ UNCHANGED <<input, offered, happened>>
  BY DEF Browse!Inspect
<1>1. questions' = <<[what |-> "inspect", over |-> "signed"]>>
  <2>1. questions' = Append(<<>>, [what |-> "inspect", over |-> "signed"])
    BY <1>0 DEF Browse!Inspect, Browse!Ask, Browse!Transport
  <2> QED BY <2>1, FirstQuestion
<1> PICK o : o = Browse!Operation(input)
  OBVIOUS
<1> PICK a : a = Browse!Alternative(input)
  OBVIOUS
<1>2. Browse!Operation(input)' = o
  BY <1>0
<1>3. CASE o \in offered
  <2>1. browse' = [browse EXCEPT !.at = "request", !.saw = offered]
    BY <1>3 DEF Browse!Inspect
  <2>2. /\ browse'.at = "request" /\ browse'.saw = offered
        /\ browse'.report = browse.report /\ browse'.suggested = browse.suggested
        /\ DOMAIN browse' = DOMAIN browse
    BY <2>1
  <2>4. Undecided'
    BY <1>0, <2>2 DEF Undecided, Browse!Report, Browse!NoFailure, Browse!Nothing
  <2>5. Browse!LooksFirst(input)'
    BY <1>0 DEF Browse!LooksFirst
  <2> QED BY <1>1, <1>2, <1>3, <2>2, <2>4, <2>5
<1>4. CASE o \notin offered
  <2> PICK s : s = IF a \in offered THEN a ELSE Browse!Nothing
    OBVIOUS
  <2>1. browse' = [browse EXCEPT !.at = "ended", !.saw = offered, !.report = Browse!Report("not supported", FALSE),
                                 !.suggested = s]
    BY <1>4 DEF Browse!Inspect
  <2>2. /\ browse'.at = "ended" /\ browse'.saw = offered
        /\ browse'.report = Browse!Report("not supported", FALSE) /\ browse'.suggested = s
        /\ DOMAIN browse' = DOMAIN browse
    BY <2>1
  <2>3. Browse!AsksOnlyOffered'
    <3>1. \A k \in DOMAIN questions' : questions'[k].what = "inspect"
      BY <1>1
    <3>2. browse'.report.code = "not supported"
      <4> PICK r : r = Browse!Report("not supported", FALSE)
        OBVIOUS
      <4>1. r.code = "not supported"
        BY DEF Browse!Report
      <4> QED BY <2>2, <4>1
    <3> QED BY <1>2, <1>4, <2>2, <3>1, <3>2 DEF Browse!AsksOnlyOffered, Browse!Operations, Browse!InputErrors, Browse!Nothing
  <2>4. happened' = Browse!NoFailure
    BY <1>0 DEF Undecided
  <2>5. Browse!FailureTrue'
    <3> PICK r : r = Browse!Report("not supported", FALSE)
      OBVIOUS
    <3>1. r.code = "not supported" /\ r.retryable = FALSE
      BY DEF Browse!Report
    <3>2. happened'.layer = "nothing" /\ happened'.cause = "nothing"
      BY <2>4, NoFailureIs
    <3> QED BY <2>2, <3>1, <3>2 DEF Browse!FailureTrue, Browse!Authentication, Browse!Nothing
  <2>6. Browse!IdentityToServices'
    BY <1>1 DEF Browse!IdentityToServices
  <2> QED BY <2>2, <2>3, <2>5, <2>6 DEF Browse!CatalogTrue
<1> QED BY <1>3, <1>4

\* The last request of a command, and those before it.
LEMMA QuestionsAsked ==
  ASSUME BrowseInv, browse.at \in {"inspect", "request"}, NEW w, Browse!Ask(w)
  PROVE  \A k \in DOMAIN questions' :
           \/ questions'[k].what = "inspect" /\ questions'[k].over = "signed"
           \/ questions'[k].what = w /\ questions'[k].over = Browse!Transport(w)
<1> PICK q : q = [what |-> w, over |-> Browse!Transport(w)]
  OBVIOUS
<1>1. questions' = Append(questions, q)
  BY DEF Browse!Ask
<1>2. CASE questions = <<>>
  BY <1>1, <1>2, FirstQuestion
<1>3. CASE questions # <<>>
  <2> PICK y : y = [what |-> "inspect", over |-> "signed"]
    OBVIOUS
  <2>1. questions = <<y>>
    BY <1>3 DEF BrowseInv
  <2>2. \A k \in DOMAIN questions' : questions'[k] = y \/ questions'[k] = q
    BY <1>1, <2>1, NextQuestion
  <2> QED BY <2>2
<1> QED BY <1>2, <1>3

\* A command that asks for what it may ask for keeps the rule.
LEMMA AskedTrue ==
  ASSUME BrowseInv, browse.at \in {"inspect", "request"}, NEW w, Browse!Ask(w), UNCHANGED input,
         browse'.suggested = "nothing", browse'.saw = browse.saw, browse'.report.code \notin Browse!InputErrors,
         w \in Browse!Operations =>
           Browse!Has(input, "next") \/ input.command = "offerings discover" \/ w \in browse.saw
  PROVE  Browse!AsksOnlyOffered' /\ Browse!IdentityToServices'
<1>1. \A k \in DOMAIN questions' :
        \/ questions'[k].what = "inspect" /\ questions'[k].over = "signed"
        \/ questions'[k].what = w /\ questions'[k].over = Browse!Transport(w)
  BY QuestionsAsked
<1>2. Browse!AsksOnlyOffered'
  BY <1>1 DEF Browse!AsksOnlyOffered, Browse!Operations, Browse!Nothing, Browse!Has
<1>3. Browse!IdentityToServices'
  BY <1>1 DEF Browse!IdentityToServices, Browse!Transport
<1> QED BY <1>2, <1>3

\* What the command asks of a Service when it asks.
LEMMA MayAsk ==
  ASSUME BrowseInv, browse.at = "request", input.command \notin Browse!OfDirectory
  PROVE  Browse!Operation(input) \in Browse!Operations =>
           Browse!Has(input, "next") \/ Browse!Operation(input) \in browse.saw
<1>1. CASE Browse!LooksFirst(input)
  BY <1>1 DEF BrowseInv
<1>2. CASE ~Browse!LooksFirst(input)
  <2> SUFFICES ASSUME input.command \in {"inspect", "capabilities"} PROVE Browse!Operation(input) \notin Browse!Operations
    BY <1>2 DEF Browse!LooksFirst
  <2> QED BY DEF Browse!Operation, Browse!Operations
<1> QED BY <1>1, <1>2

LEMMA BrowseAnswer == BrowseInv /\ Browse!Answer => BrowseInv'
<1> SUFFICES ASSUME BrowseInv, Browse!Answer PROVE BrowseInv'
  OBVIOUS
<1> PICK w : w = Browse!Operation(input)
  OBVIOUS
<1>1. /\ browse.at = "request" /\ input.command \notin Browse!OfDirectory
      /\ Browse!Ask(w)
      /\ browse' = [browse EXCEPT !.at = "ended", !.report = Browse!Report("ok", FALSE), !.items = 1]
      /\ UNCHANGED <<input, offered, happened>>
  BY DEF Browse!Answer
<1>2. /\ browse'.at = "ended" /\ browse'.report = Browse!Report("ok", FALSE)
      /\ browse'.suggested = browse.suggested /\ browse'.saw = browse.saw /\ DOMAIN browse' = DOMAIN browse
  BY <1>1 DEF BrowseInv
<1>3. browse.suggested = "nothing" /\ happened' = Browse!NoFailure
  BY <1>1 DEF BrowseInv, Undecided
<1>4. browse'.report.code \notin Browse!InputErrors
  BY <1>2 DEF Browse!Report, Browse!InputErrors
<1>5. Browse!AsksOnlyOffered' /\ Browse!IdentityToServices'
  BY <1>1, <1>2, <1>3, <1>4, MayAsk, AskedTrue
<1>6. Browse!FailureTrue'
  BY <1>2, <1>3 DEF Browse!FailureTrue, Browse!NoFailure, Browse!Authentication, Browse!Report, Browse!Nothing
<1> QED BY <1>2, <1>5, <1>6 DEF BrowseInv, Browse!CatalogTrue

LEMMA BrowseSearch == BrowseInv /\ Browse!Search => BrowseInv'
<1> SUFFICES ASSUME BrowseInv, Browse!Search PROVE BrowseInv'
  OBVIOUS
<1>1. /\ browse.at = "request"
      /\ Browse!Ask("directory")
      /\ browse' = [browse EXCEPT !.at = "ended", !.report = Browse!Report("ok", FALSE), !.items = 1]
      /\ UNCHANGED <<input, offered, happened>>
  BY DEF Browse!Search
<1>2. /\ browse'.at = "ended" /\ browse'.report = Browse!Report("ok", FALSE)
      /\ browse'.suggested = browse.suggested /\ browse'.saw = browse.saw /\ DOMAIN browse' = DOMAIN browse
  BY <1>1 DEF BrowseInv
<1>3. browse.suggested = "nothing" /\ happened' = Browse!NoFailure
  BY <1>1 DEF BrowseInv, Undecided
<1>4. browse'.report.code \notin Browse!InputErrors /\ "directory" \notin Browse!Operations
  BY <1>2 DEF Browse!Report, Browse!InputErrors, Browse!Operations
<1>5. Browse!AsksOnlyOffered' /\ Browse!IdentityToServices'
  BY <1>1, <1>2, <1>3, <1>4, AskedTrue
<1>6. Browse!FailureTrue'
  BY <1>2, <1>3 DEF Browse!FailureTrue, Browse!NoFailure, Browse!Authentication, Browse!Report, Browse!Nothing
<1> QED BY <1>2, <1>5, <1>6 DEF BrowseInv, Browse!CatalogTrue

LEMMA BrowseDiscover == BrowseInv /\ Browse!Discover => BrowseInv'
<1> SUFFICES ASSUME BrowseInv, Browse!Discover PROVE BrowseInv'
  OBVIOUS
<1> PICK w : w = Browse!Operation(input)
  OBVIOUS
<1>0. input.command = "offerings discover" /\ browse.at = "request" /\ UNCHANGED input
  BY DEF Browse!Discover
<1>1. PICK n \in 0..MaxServed, failing \in 0..MaxServed :
        /\ questions' = Append(questions, [what |-> "directory", over |-> "bare"])
                          \o [k \in 1..n + failing |-> [what |-> w, over |-> "authenticated"]]
        /\ happened' = IF failing > 0 THEN [layer |-> "issue", signing |-> FALSE, cause |-> "no response"] ELSE happened
        /\ browse' = [browse EXCEPT !.at = "ended", !.report = Browse!Report("ok", FALSE), !.items = n]
  BY DEF Browse!Discover
<1>2. /\ browse'.at = "ended" /\ browse'.report = Browse!Report("ok", FALSE)
      /\ browse'.suggested = browse.suggested /\ browse'.saw = browse.saw /\ DOMAIN browse' = DOMAIN browse
  BY <1>1 DEF BrowseInv
<1>3. browse.suggested = "nothing" /\ happened = Browse!NoFailure
  BY <1>0 DEF BrowseInv, Undecided
<1>4. w \in {"list-offerings", "search-offerings", "list-collection-offerings"}
  BY <1>0 DEF Browse!Operation, Browse!DiscoveryOperation, Browse!Listing
<1>5. questions = <<>>
  <2>1. ~Browse!LooksFirst(input)
    BY <1>0 DEF Browse!LooksFirst, Browse!OfDirectory
  <2> QED BY <1>0, <2>1 DEF BrowseInv
<1>6. \A k \in DOMAIN questions' :
        \/ questions'[k].what = "directory" /\ questions'[k].over = "bare"
        \/ questions'[k].what = w /\ questions'[k].over = "authenticated"
  <2> PICK d, a, m : /\ d = [what |-> "directory", over |-> "bare"]
                     /\ a = [what |-> w, over |-> "authenticated"]
                     /\ m = n + failing
    OBVIOUS
  <2>0. m \in Nat
    OBVIOUS
  <2>1. questions' = <<d>> \o [k \in 1..m |-> a]
    BY <1>1, <1>5, FirstQuestion
  <2>2. <<d>> \in Seq({d, a}) /\ [k \in 1..m |-> a] \in Seq({d, a})
    BY <2>0
  <2>3. questions' \in Seq({d, a})
    BY <2>1, <2>2
  <2>4. \A k \in DOMAIN questions' : questions'[k] = d \/ questions'[k] = a
    BY <2>3
  <2> QED BY <2>4
<1>7. Browse!AsksOnlyOffered'
  <2>1. browse'.report.code = "ok" /\ browse'.suggested = "nothing" /\ input'.command = "offerings discover"
    <3> PICK r : r = Browse!Report("ok", FALSE)
      OBVIOUS
    <3>1. r.code = "ok"
      BY DEF Browse!Report
    <3> QED BY <1>0, <1>2, <1>3, <3>1
  <2>2. \A k \in DOMAIN questions' : input'.command = "offerings discover"
    BY <2>1
  <2> QED BY <2>1, <2>2 DEF Browse!AsksOnlyOffered, Browse!Nothing, Browse!InputErrors
<1>8. Browse!IdentityToServices'
  BY <1>4, <1>6 DEF Browse!IdentityToServices
<1>9. Browse!FailureTrue'
  <2>1. happened'.layer \in {"nothing", "issue"} /\ happened'.cause \in {"nothing", "no response"}
    BY <1>1, <1>3, NoFailureIs
  <2>2. browse'.report.code = "ok" /\ browse'.report.retryable = FALSE
    BY <1>2 DEF Browse!Report
  <2> QED BY <2>1, <2>2 DEF Browse!FailureTrue, Browse!Authentication, Browse!Nothing
<1> QED BY <1>2, <1>7, <1>8, <1>9 DEF BrowseInv, Browse!CatalogTrue

\* A report of a failure says what happened.
ReportsFailure(f, report) ==
  /\ f.layer # "nothing"
  /\ f.cause \in Browse!Authentication => report.code = f.cause
  /\ report.retryable => f.cause \in Browse!Transient
  /\ report.code \notin Browse!InputErrors \cup {"ok"}

LEMMA FailureReported ==
  ASSUME NEW S, "nothing" \notin S, NEW f \in Browse!Failures(S)
  PROVE  ReportsFailure(f, Browse!Failure(f))
<1>1. f.layer # "nothing"
  BY DEF Browse!Failures
<1>2. CASE f.cause \in Browse!Authentication
  BY <1>1, <1>2
     DEF ReportsFailure, Browse!Failure, Browse!Mapped, Browse!Report, Browse!Authentication, Browse!Transient, Browse!InputErrors
<1>3. CASE f.cause \notin Browse!Authentication
  BY <1>1, <1>3 DEF ReportsFailure, Browse!Failure, Browse!OfLayer, Browse!Report, Browse!InputErrors
<1> QED BY <1>2, <1>3

DirectoryFailures ==
  [layer : {"directory", "plain"}, signing : {FALSE},
   cause : {"status 429", "status 5xx", "status 4xx", "no response", "invalid"}]

LEMMA DirectoryFailureReported ==
  ASSUME NEW f \in DirectoryFailures
  PROVE  /\ ReportsFailure(f, Browse!Failure(f))
         /\ ReportsFailure(f, Browse!DirectoryFailure(f))
<1>1. f.layer \in {"directory", "plain"} /\ f.signing = FALSE /\ f.cause \notin Browse!Authentication
  BY DEF DirectoryFailures, Browse!Authentication
<1>2. ReportsFailure(f, Browse!Failure(f))
  BY <1>1 DEF ReportsFailure, Browse!Failure, Browse!OfLayer, Browse!Report, Browse!InputErrors
<1>3. ReportsFailure(f, Browse!DirectoryFailure(f))
  BY <1>1 DEF ReportsFailure, Browse!DirectoryFailure, Browse!Report, Browse!InputErrors, Browse!Transient
<1> QED BY <1>2, <1>3

LEMMA BrowseFails ==
  ASSUME BrowseInv, browse.at \in {"inspect", "request"}, UNCHANGED <<input, offered>>,
         NEW w, Browse!Ask(w), NEW f, happened' = f, NEW report, Browse!End(report), ReportsFailure(f, report),
         w \in Browse!Operations =>
           Browse!Has(input, "next") \/ input.command = "offerings discover" \/ w \in browse.saw
  PROVE  BrowseInv'
<1>2. /\ browse'.at = "ended" /\ browse'.report = report
      /\ browse'.suggested = browse.suggested /\ browse'.saw = browse.saw /\ DOMAIN browse' = DOMAIN browse
  BY DEF BrowseInv, Browse!End
<1>3. browse.suggested = "nothing"
  BY DEF BrowseInv, Undecided
<1>4. browse'.report.code \notin Browse!InputErrors
  BY <1>2 DEF ReportsFailure
<1>5. Browse!AsksOnlyOffered' /\ Browse!IdentityToServices'
  BY <1>2, <1>3, <1>4, AskedTrue
<1>6. happened' # Browse!NoFailure
  BY NoFailureIs DEF ReportsFailure
<1>7. Browse!FailureTrue'
  BY <1>2, <1>6
     DEF Browse!FailureTrue, ReportsFailure, Browse!NoFailure, Browse!Authentication, Browse!Transient, Browse!InputErrors
<1> QED BY <1>2, <1>5, <1>7 DEF BrowseInv, Browse!CatalogTrue

LEMMA BrowseFail == BrowseInv /\ Browse!Fail => BrowseInv'
<1> SUFFICES ASSUME BrowseInv, Browse!Fail PROVE BrowseInv'
  OBVIOUS
<1>0. browse.at \in {"inspect", "request"} /\ UNCHANGED <<input, offered>>
  BY DEF Browse!Fail
<1>1. CASE input.command \in Browse!OfDirectory /\ browse.at = "request"
  <2>1. Browse!Ask("directory")
    BY <1>1 DEF Browse!Fail
  <2>2. PICK f \in DirectoryFailures :
          /\ happened' = f
          /\ Browse!End(Browse!Failure(f)) \/ Browse!End(Browse!DirectoryFailure(f))
    BY <1>1 DEF Browse!Fail, DirectoryFailures
  <2>3. "directory" \notin Browse!Operations
    BY DEF Browse!Operations
  <2>4. ReportsFailure(f, Browse!Failure(f)) /\ ReportsFailure(f, Browse!DirectoryFailure(f))
    BY DirectoryFailureReported
  <2> QED BY <1>0, <2>1, <2>2, <2>3, <2>4, BrowseFails
<1>2. CASE ~(input.command \in Browse!OfDirectory /\ browse.at = "request")
  <2> PICK w : w = IF browse.at = "inspect" THEN "inspect" ELSE Browse!Operation(input)
    OBVIOUS
  <2> PICK S : S = {"inspection", "plain"} \cup (IF browse.at = "request" THEN {"request"} ELSE {})
    OBVIOUS
  <2>1. Browse!Ask(w) /\ \E f \in Browse!Failures(S) : happened' = f /\ Browse!End(Browse!Failure(f))
    BY <1>2 DEF Browse!Fail
  <2>2. PICK f \in Browse!Failures(S) : happened' = f /\ Browse!End(Browse!Failure(f))
    BY <2>1
  <2>3. "nothing" \notin S
    OBVIOUS
  <2>4. ReportsFailure(f, Browse!Failure(f))
    BY <2>3, FailureReported
  <2>5. w \in Browse!Operations => Browse!Has(input, "next") \/ w \in browse.saw
    BY <1>0, <1>2, MayAsk DEF Browse!Operations
  <2> QED BY <1>0, <2>1, <2>2, <2>4, <2>5, BrowseFails
<1> QED BY <1>1, <1>2

LEMMA BrowseStays ==
  ASSUME BrowseInv, UNCHANGED <<input, browse, questions, happened>>
  PROVE  BrowseInv'
<1>1. Browse!LooksFirst(input)' = Browse!LooksFirst(input) /\ Browse!Operation(input)' = Browse!Operation(input)
  OBVIOUS
<1>2. Browse!CatalogTrue => Browse!CatalogTrue'
  BY DEF Browse!CatalogTrue, Browse!AsksOnlyOffered, Browse!FailureTrue, Browse!IdentityToServices,
         Browse!Operations, Browse!InputErrors, Browse!Has, Browse!Authentication, Browse!Transient
<1>3. Undecided => Undecided'
  BY DEF Undecided
<1> QED BY <1>1, <1>2, <1>3 DEF BrowseInv

LEMMA BrowseStep == BrowseInv /\ [Browse!Next]_(Browse!vars) => BrowseInv'
<1> SUFFICES ASSUME BrowseInv, [Browse!Next]_(Browse!vars) PROVE BrowseInv'
  OBVIOUS
<1>1. CASE UNCHANGED Browse!vars
  BY <1>1, BrowseStays DEF Browse!vars
<1>2. CASE Browse!Change
  BY <1>2, BrowseStays DEF Browse!Change
<1> QED BY <1>1, <1>2, BrowseBegin, BrowseInspect, BrowseAnswer, BrowseSearch, BrowseDiscover, BrowseFail DEF Browse!Next

-----------------------------------------------------------------------------
(* Inspection, one `inspect`, `x402 inspect`, `mpp inspect` or `aep inspect`. *)

NothingHeard == answer.status = "none" /\ answer.aep = FALSE /\ answer = Inspect!NoAnswer /\ look.over = "nobody"

\* Why a stored credential is looked for: the document says that it is required, or the
\* resource has said so to nobody.
Needed ==
  /\ target.command # "aep inspect"
  /\ \/ NothingHeard
     \/ answer.aep /\ answer.status = "401" /\ look.over = "nobody" /\ look.policy # "required"

Reported ==
  /\ Inspect!CommandsAgree /\ Inspect!FormsAgree /\ Inspect!ShownWasAskedFor
  /\ Inspect!NotRequiredTrue /\ Inspect!AepTrue /\ Inspect!BlockedTrue /\ Inspect!ReportOfAnswer

LookIs ==
  /\ DOMAIN look = {"at", "policy", "over", "own"}
  /\ look.at \in {"input", "document", "service", "stored", "blocked", "resource", "policy", "heard", "ended"}
  /\ look.policy \in {"unknown", "required", "fallback", "public"}
  /\ look.over \in {"nobody", "agent"}

HeardIs ==
  /\ answer.aep \in BOOLEAN
  /\ answer.status \in {"2xx", "401", "402", "other"}
  /\ look.over = "nobody" => look.policy # "required"
  /\ target.command = "aep inspect" => look.over = "nobody"
  /\ \A c \in answer.mpp.offers : c.intent \in Inspect!Intents

InspectInv ==
  /\ target.command \in Inspect!Commands
  /\ target.command = "inspect" => target.filter = Inspect!NoFilter
  /\ LookIs
  /\ look.at \in {"input", "document", "service", "resource", "policy"} => NothingHeard
  /\ look.at = "resource" => look.policy # "required"
  /\ look.at = "policy" => look.policy \in {"required", "public"}
  /\ look.at = "service" => target.command # "aep inspect"
  /\ look.at \in {"stored", "blocked"} => Needed
  /\ look.at = "heard" => HeardIs
  /\ look.at = "ended" => Reported

LEMMA InspectTrue == InspectInv => Inspect!InspectionTrue
BY DEF InspectInv, Reported, Inspect!InspectionTrue

LEMMA InspectInit == Inspect!Init => InspectInv
<1> SUFFICES ASSUME Inspect!Init PROVE InspectInv
  OBVIOUS
<1>1. /\ target.command \in Inspect!Commands
      /\ target.command = "inspect" => target.filter = Inspect!NoFilter
  <2>1. PICK command \in Inspect!Commands : \E filter \in Inspect!Filters(command) :
               target = [command |-> command, filter |-> filter]
    BY DEF Inspect!Init
  <2>2. PICK filter \in Inspect!Filters(command) : target = [command |-> command, filter |-> filter]
    BY <2>1
  <2>3. command = "inspect" => filter = Inspect!NoFilter
    BY DEF Inspect!Filters, Inspect!NoFilter
  <2>4. target.command = command /\ target.filter = filter
    BY <2>2
  <2> QED BY <2>3, <2>4
<1>2. LookIs /\ look.at = "input" /\ look.over = "nobody"
  BY DEF Inspect!Init, LookIs
<1>3. answer = Inspect!NoAnswer /\ answer.status = "none" /\ answer.aep = FALSE
  BY DEF Inspect!Init, Inspect!NoAnswer
<1> QED BY <1>1, <1>2, <1>3 DEF InspectInv, NothingHeard

-----------------------------------------------------------------------------
(* Steps that end nothing.                                                  *)

LEMMA InspectGoes ==
  ASSUME InspectInv, UNCHANGED <<target, answer>>, look'.at # "ended", look'.at # "heard", look.over = "nobody",
         DOMAIN look' = DOMAIN look, look'.over = look.over,
         look'.at \in {"input", "document", "service", "stored", "blocked", "resource", "policy"},
         look'.policy \in {"unknown", "required", "fallback", "public"},
         NothingHeard \/ (look'.at \in {"stored", "blocked"} /\ Needed /\ look'.policy = look.policy),
         look'.at \in {"stored", "blocked", "service"} => target.command # "aep inspect",
         look'.at = "resource" => look'.policy # "required",
         look'.at = "policy" => look'.policy \in {"required", "public"}
  PROVE  InspectInv'
<1>1. LookIs'
  BY DEF InspectInv, LookIs
<1>2. NothingHeard => NothingHeard'
  BY DEF NothingHeard
<1>3. look'.at \in {"stored", "blocked"} => Needed'
  BY <1>2 DEF Needed
<1> QED BY <1>1, <1>2, <1>3 DEF InspectInv

LEMMA OffersOf ==
  ASSUME NEW S, NEW h \in Inspect!Headers(S)
  PROVE  h.offers \subseteq S
BY DEF Inspect!Headers, Inspect!Few

LEMMA NothingOffered == Inspect!NoHeader.offers = {}
BY DEF Inspect!NoHeader

\* Of challenges an answer has those of the methods and intents there are.
LEMMA ChallengesSeen ==
  ASSUME NEW command \in Inspect!Commands, NEW h \in Inspect!HeadersSeen(command)
  PROVE  h[1].offers \subseteq Inspect!Challenges
<1>1. CASE command = "mpp inspect"
  <2>1. h[1] \in Inspect!Headers(Inspect!Challenges)
    BY <1>1 DEF Inspect!HeadersSeen
  <2> QED BY <2>1, OffersOf
<1>2. CASE command = "x402 inspect"
  <2>1. h[1] \in {Inspect!NoHeader}
    BY <1>2 DEF Inspect!HeadersSeen
  <2> QED BY <2>1, NothingOffered
<1>4. CASE command = "aep inspect"
  <2> PICK n : n = Inspect!NoHeader
    OBVIOUS
  <2>1. h = <<n, n>>
    BY <1>4 DEF Inspect!HeadersSeen
  <2>2. h[1] = n
    BY <2>1
  <2> QED BY <2>2, NothingOffered
<1>3. CASE command = "inspect"
  <2> PICK one : one = [method |-> "inflow", intent |-> "charge", wanted |-> TRUE]
    OBVIOUS
  <2>1. one \in Inspect!Challenges
    BY DEF Inspect!Challenges, Inspect!Methods, Inspect!Intents
  <2>2. h[1] \in Inspect!Headers({c \in Inspect!Challenges : c.wanted}) \/ h[1] \in Inspect!Plain(one)
    BY <1>3 DEF Inspect!HeadersSeen
  <2>3. CASE h[1] \in Inspect!Headers({c \in Inspect!Challenges : c.wanted})
    BY <2>3, OffersOf
  <2>4. CASE h[1] \in Inspect!Plain(one)
    <3> PICK r : r = [form |-> "read", offers |-> {one}]
      OBVIOUS
    <3>1. h[1] = Inspect!NoHeader \/ h[1] = r
      BY <2>4 DEF Inspect!Plain
    <3>2. r.offers = {one}
      OBVIOUS
    <3> QED BY <2>1, <3>1, <3>2, NothingOffered
  <2> QED BY <2>2, <2>3, <2>4
<1> QED BY <1>1, <1>2, <1>3, <1>4 DEF Inspect!Commands

LEMMA AnswerIs ==
  ASSUME NEW command \in Inspect!Commands, NEW a \in Inspect!Answers(command)
  PROVE  /\ a.aep \in BOOLEAN
         /\ a.status \in {"2xx", "401", "402", "other"}
         /\ \A c \in a.mpp.offers : c.intent \in Inspect!Intents
<1>1. CASE \E status \in {"2xx", "401", "402", "other"}, aep \in BOOLEAN :
             a = [status |-> status, aep |-> aep, mpp |-> Inspect!NoHeader, x402 |-> Inspect!NoHeader]
  BY <1>1, NothingOffered
<1>2. CASE \E status \in {"401", "402"}, aep \in BOOLEAN, headers \in Inspect!HeadersSeen(command) :
             a = [status |-> status, aep |-> aep, mpp |-> headers[1], x402 |-> headers[2]]
  <2>1. PICK status \in {"401", "402"}, aep \in BOOLEAN, headers \in Inspect!HeadersSeen(command) :
               a = [status |-> status, aep |-> aep, mpp |-> headers[1], x402 |-> headers[2]]
    BY <1>2
  <2> PICK h : h = headers[1]
    OBVIOUS
  <2>2. h.offers \subseteq Inspect!Challenges
    BY ChallengesSeen
  <2>3. a.status = status /\ a.aep = aep /\ a.mpp = h
    BY <2>1
  <2>4. \A c \in a.mpp.offers : c.intent \in Inspect!Intents
    BY <2>2, <2>3 DEF Inspect!Challenges
  <2> QED BY <2>3, <2>4
<1>3. \A status : status \in (IF command = "inspect" THEN {"401", "402"} ELSE {"402"}) => status \in {"401", "402"}
  OBVIOUS
<1> QED BY <1>1, <1>2, <1>3 DEF Inspect!Answers

\* The resource answers.
LEMMA InspectHears ==
  ASSUME InspectInv, NEW over \in {"nobody", "agent"}, Inspect!Hear(over), UNCHANGED target,
         over = "nobody" => look.policy # "required",
         over = "agent" => target.command # "aep inspect"
  PROVE  InspectInv'
<1>1. PICK a \in Inspect!Answers(target.command) : answer' = a /\ look' = [look EXCEPT !.at = "heard", !.over = over]
  BY DEF Inspect!Hear
<1>2. /\ a.aep \in BOOLEAN /\ a.status \in {"2xx", "401", "402", "other"}
      /\ \A c \in a.mpp.offers : c.intent \in Inspect!Intents
  BY AnswerIs DEF InspectInv
<1>3. LookIs' /\ look'.at = "heard" /\ look'.over = over /\ look'.policy = look.policy
  BY <1>1 DEF LookIs, InspectInv
<1>4. HeardIs'
  BY <1>1, <1>2, <1>3 DEF HeardIs
<1> QED BY <1>3, <1>4 DEF InspectInv

-----------------------------------------------------------------------------
(* Steps that end in a report.                                              *)

SaysNothing(f) ==
  /\ f.status = "none" /\ f.aep = "absent"
  /\ f.mpp.shown = {} /\ f.x402.shown = {}

LEMMA FailingIs ==
  ASSUME NEW code
  PROVE  /\ Inspect!Failing(code).code = code
         /\ SaysNothing(Inspect!Failing(code))
         /\ DOMAIN Inspect!Failing(code) = {"code", "status", "aep", "odp", "mpp", "x402", "warning"}
         /\ Inspect!Failing(code).mpp.kind = "absent"
         /\ Inspect!Failing(code).x402.kind = "absent"
BY DEF SaysNothing, Inspect!Failing, Inspect!NoFinding, Inspect!Section

\* A report that ends the command keeps everything else.
LEMMA InspectEnds ==
  ASSUME InspectInv, UNCHANGED target, NEW f, Inspect!End(f), Reported'
  PROVE  InspectInv'
<1>1. LookIs' /\ look'.at = "ended"
  BY DEF InspectInv, LookIs, Inspect!End, Inspect!Goto
<1> QED BY <1>1 DEF InspectInv

\* What a step that ends leaves as it is.
LEMMA EndKeeps ==
  ASSUME InspectInv, NEW f, Inspect!End(f)
  PROVE  /\ finding' = f /\ answer' = answer
         /\ look'.policy = look.policy /\ look'.over = look.over /\ look'.own = look.own
BY DEF InspectInv, LookIs, Inspect!End, Inspect!Goto

\* A failure, and a document, say nothing of terms and of authentication.
LEMMA FailureEnds ==
  ASSUME InspectInv, UNCHANGED target, NEW f, Inspect!End(f), SaysNothing(f),
         f.code \notin {"inspected", "no payment required", "advertised", "terms"},
         f.code = "invalid 402" => answer.status = "402",
         f.code \in {"inspect failed", "vault"} => answer = Inspect!NoAnswer \/ (answer.aep /\ answer.status = "401")
  PROVE  InspectInv'
<1>1. finding' = f /\ answer' = answer
  BY EndKeeps
<1>2. Inspect!CommandsAgree' /\ Inspect!FormsAgree'
  BY <1>1 DEF Inspect!CommandsAgree, Inspect!FormsAgree
<1>3. Inspect!ShownWasAskedFor' /\ Inspect!NotRequiredTrue' /\ Inspect!AepTrue' /\ Inspect!BlockedTrue'
  BY <1>1 DEF SaysNothing, Inspect!ShownWasAskedFor, Inspect!NotRequiredTrue, Inspect!AepTrue, Inspect!BlockedTrue
<1>4. Inspect!ReportOfAnswer'
  BY <1>1 DEF SaysNothing, Inspect!ReportOfAnswer, Inspect!SaysNothingIn402
<1> QED BY <1>2, <1>3, <1>4, InspectEnds DEF Reported

\* A failure before anything was answered.
LEMMA EarlyFailure ==
  ASSUME InspectInv, UNCHANGED target, NothingHeard, NEW code, Inspect!End(Inspect!Failing(code)),
         code \notin {"inspected", "no payment required", "advertised", "terms", "invalid 402"}
  PROVE  InspectInv'
<1> PICK f : f = Inspect!Failing(code)
  OBVIOUS
<1>1. SaysNothing(f) /\ f.code = code
  BY FailingIs
<1> QED BY <1>1, FailureEnds DEF NothingHeard

-----------------------------------------------------------------------------
(* The beginning.                                                           *)

LEMMA InspectBegin == ASSUME NEW page, InspectInv, Inspect!Begin(page) PROVE InspectInv'
<1>0. look.at = "input" /\ target.command = "inspect" /\ NothingHeard /\ UNCHANGED target
  BY DEF Inspect!Begin, InspectInv
<1>1. CASE Inspect!Goto("document") /\ UNCHANGED <<answer, finding>>
  <2>1. /\ look'.at = "document" /\ DOMAIN look' = DOMAIN look /\ look'.over = look.over
        /\ look'.policy = look.policy /\ look.policy \in {"unknown", "required", "fallback", "public"}
    BY <1>1 DEF Inspect!Goto, InspectInv, LookIs
  <2> QED BY <1>0, <1>1, <2>1, InspectGoes DEF NothingHeard
<1>2. CASE \E code \in {"refresh requires document", "vault", "invalid header"} : Inspect!End(Inspect!Failing(code))
  BY <1>0, <1>2, EarlyFailure
<1>3. CASE look' = [look EXCEPT !.at = "service", !.own = page.headers = "accept"] /\ UNCHANGED <<answer, finding>>
  <2>1. /\ look'.at = "service" /\ DOMAIN look' = DOMAIN look /\ look'.over = look.over
        /\ look'.policy = look.policy /\ look.policy \in {"unknown", "required", "fallback", "public"}
    BY <1>3 DEF InspectInv, LookIs
  <2> QED BY <1>0, <1>3, <2>1, InspectGoes DEF NothingHeard
<1> QED BY <1>1, <1>2, <1>3 DEF Inspect!Begin

LEMMA InspectBeginAep == ASSUME NEW page, InspectInv, Inspect!BeginAep(page) PROVE InspectInv'
<1>0. look.at = "input" /\ target.command = "aep inspect" /\ NothingHeard /\ UNCHANGED target
  BY DEF Inspect!BeginAep, InspectInv
<1>1. CASE \E code \in {"not advertised", "inspect failed", "invalid header"} : Inspect!End(Inspect!Failing(code))
  BY <1>0, <1>1, EarlyFailure
<1>2. CASE Inspect!End([Inspect!Failing("advertised") EXCEPT !.aep = "not checked"])
  <2> PICK g : g = Inspect!Failing("advertised")
    OBVIOUS
  <2> PICK f : f = [g EXCEPT !.aep = "not checked"]
    OBVIOUS
  <2>0. g.code = "advertised" /\ SaysNothing(g) /\ DOMAIN g = {"code", "status", "aep", "odp", "mpp", "x402", "warning"}
    BY FailingIs
  <2>1. /\ f.code = "advertised" /\ f.aep = "not checked" /\ f.status = "none"
        /\ f.mpp.shown = {} /\ f.x402.shown = {}
    BY <2>0 DEF SaysNothing
  <2>2. finding' = f /\ answer' = answer
    BY <1>2, EndKeeps
  <2>3. Reported'
    BY <1>0, <2>1, <2>2
       DEF Reported, NothingHeard, Inspect!CommandsAgree, Inspect!FormsAgree, Inspect!ShownWasAskedFor,
           Inspect!NotRequiredTrue, Inspect!AepTrue, Inspect!BlockedTrue, Inspect!ReportOfAnswer, Inspect!SaysNothingIn402
  <2> QED BY <1>0, <1>2, <2>3, InspectEnds
<1>3. CASE /\ \E policy \in {"unknown", "required", "fallback", "public"} :
                look' = [look EXCEPT !.policy = policy,
                                     !.at = IF policy \in {"required", "public"} THEN "policy" ELSE "resource"]
           /\ UNCHANGED <<answer, finding>>
  <2>1. PICK policy \in {"unknown", "required", "fallback", "public"} :
          look' = [look EXCEPT !.policy = policy,
                               !.at = IF policy \in {"required", "public"} THEN "policy" ELSE "resource"]
    BY <1>3
  <2>2. /\ look'.at = IF policy \in {"required", "public"} THEN "policy" ELSE "resource"
        /\ DOMAIN look' = DOMAIN look /\ look'.over = look.over /\ look'.policy = policy
    BY <2>1 DEF InspectInv, LookIs
  <2>3. /\ look'.at \in {"policy", "resource"} /\ look'.at = "resource" => policy # "required"
        /\ look'.at = "policy" => policy \in {"required", "public"}
    BY <2>2
  <2> QED BY <1>0, <1>3, <2>2, <2>3, InspectGoes DEF NothingHeard
<1> QED BY <1>1, <1>2, <1>3 DEF Inspect!BeginAep

LEMMA InspectBeginTerms == ASSUME NEW page, InspectInv, Inspect!BeginTerms(page) PROVE InspectInv'
<1>0. look.at = "input" /\ target.command # "aep inspect" /\ NothingHeard /\ UNCHANGED target
  BY DEF Inspect!BeginTerms, Inspect!ForTerms, InspectInv
<1>1. CASE \E code \in {"invalid header", "inspect failed"} : Inspect!End(Inspect!Failing(code))
  BY <1>0, <1>1, EarlyFailure
<1>2. CASE look' = [look EXCEPT !.at = "service", !.own = page.headers = "accept"] /\ UNCHANGED <<answer, finding>>
  <2>1. /\ look'.at = "service" /\ DOMAIN look' = DOMAIN look /\ look'.over = look.over
        /\ look'.policy = look.policy /\ look.policy \in {"unknown", "required", "fallback", "public"}
    BY <1>2 DEF InspectInv, LookIs
  <2> QED BY <1>0, <1>2, <2>1, InspectGoes DEF NothingHeard
<1> QED BY <1>1, <1>2 DEF Inspect!BeginTerms

LEMMA InspectReadDocument == InspectInv /\ Inspect!ReadDocument => InspectInv'
<1> SUFFICES ASSUME InspectInv, Inspect!ReadDocument PROVE InspectInv'
  OBVIOUS
<1>0. NothingHeard /\ UNCHANGED target
  BY DEF Inspect!ReadDocument, InspectInv
<1>1. CASE Inspect!End(Inspect!Failing("document failed"))
  BY <1>0, <1>1, EarlyFailure
<1>2. CASE \E warning \in {"no warning", "documents unavailable"} :
             Inspect!End([Inspect!Failing("document inspected") EXCEPT !.warning = warning])
  <2>1. PICK warning : Inspect!End([Inspect!Failing("document inspected") EXCEPT !.warning = warning])
    BY <1>2
  <2> PICK g : g = Inspect!Failing("document inspected")
    OBVIOUS
  <2> PICK f : f = [g EXCEPT !.warning = warning]
    OBVIOUS
  <2>0. /\ g.code = "document inspected" /\ SaysNothing(g)
        /\ DOMAIN g = {"code", "status", "aep", "odp", "mpp", "x402", "warning"}
    BY FailingIs
  <2>2. f.code = "document inspected" /\ SaysNothing(f)
    BY <2>0 DEF SaysNothing
  <2> QED BY <1>0, <2>1, <2>2, FailureEnds
<1> QED BY <1>1, <1>2 DEF Inspect!ReadDocument

LEMMA InspectLook == InspectInv /\ Inspect!LookAtService => InspectInv'
<1> SUFFICES ASSUME InspectInv, Inspect!LookAtService PROVE InspectInv'
  OBVIOUS
<1>0. NothingHeard /\ UNCHANGED <<target, answer, finding>> /\ target.command # "aep inspect"
  BY DEF Inspect!LookAtService, InspectInv
<1>1. PICK policy \in {"unknown", "required", "fallback", "public"} :
        look' = [look EXCEPT !.policy = policy, !.at = IF policy = "required" THEN "stored" ELSE "resource"]
  BY DEF Inspect!LookAtService
<1>2. /\ look'.at = IF policy = "required" THEN "stored" ELSE "resource"
      /\ DOMAIN look' = DOMAIN look /\ look'.over = look.over /\ look'.policy = policy
  BY <1>1 DEF InspectInv, LookIs
<1> QED BY <1>0, <1>2, InspectGoes DEF NothingHeard

LEMMA InspectAsksAsAgent == InspectInv /\ Inspect!AskAsAgent => InspectInv'
<1> SUFFICES ASSUME InspectInv, Inspect!AskAsAgent PROVE InspectInv'
  OBVIOUS
<1>0. Needed /\ UNCHANGED target
  BY DEF Inspect!AskAsAgent, InspectInv
<1>1. CASE Inspect!Hear("agent")
  BY <1>0, <1>1, InspectHears DEF Needed
<1>2. CASE Inspect!Goto("blocked") /\ UNCHANGED <<answer, finding>>
  <2>1. /\ look'.at = "blocked" /\ DOMAIN look' = DOMAIN look /\ look'.over = look.over
        /\ look'.policy = look.policy /\ look.policy \in {"unknown", "required", "fallback", "public"}
    BY <1>2 DEF Inspect!Goto, InspectInv, LookIs
  <2> QED BY <1>0, <1>2, <2>1, InspectGoes DEF NothingHeard, Needed
<1>3. CASE \E code \in {"inspect failed", "vault"} : Inspect!End(Inspect!Failing(code))
  <2>1. PICK code \in {"inspect failed", "vault"} : Inspect!End(Inspect!Failing(code))
    BY <1>3
  <2> PICK f : f = Inspect!Failing(code)
    OBVIOUS
  <2>2. SaysNothing(f) /\ f.code = code
    BY FailingIs
  <2> QED BY <1>0, <2>1, <2>2, FailureEnds DEF Needed, NothingHeard
<1> QED BY <1>1, <1>2, <1>3 DEF Inspect!AskAsAgent, Inspect!FailureCodes

LEMMA InspectAsksAnonymously == InspectInv /\ Inspect!AskAnonymously => InspectInv'
<1> SUFFICES ASSUME InspectInv, Inspect!AskAnonymously PROVE InspectInv'
  OBVIOUS
<1>0. NothingHeard /\ UNCHANGED target /\ look.policy # "required"
  BY DEF Inspect!AskAnonymously, InspectInv
<1>1. CASE Inspect!Hear("nobody")
  BY <1>0, <1>1, InspectHears
<1>2. CASE \E code \in {"inspect failed", "vault"} : Inspect!End(Inspect!Failing(code))
  BY <1>0, <1>2, EarlyFailure
<1> QED BY <1>1, <1>2 DEF Inspect!AskAnonymously, Inspect!FailureCodes

LEMMA InspectChallenged == InspectInv /\ Inspect!Challenged => InspectInv'
<1> SUFFICES ASSUME InspectInv, Inspect!Challenged PROVE InspectInv'
  OBVIOUS
<1>0. /\ HeardIs /\ UNCHANGED target /\ target.command # "aep inspect"
      /\ answer.aep /\ answer.status = "401" /\ look.over = "nobody"
  BY DEF Inspect!Challenged, InspectInv, Inspect!ForTerms
<1>1. CASE Inspect!Goto("stored") /\ UNCHANGED <<answer, finding>>
  <2>1. /\ look'.at = "stored" /\ DOMAIN look' = DOMAIN look /\ look'.over = look.over
        /\ look'.policy = look.policy /\ look.policy \in {"unknown", "required", "fallback", "public"}
    BY <1>1 DEF Inspect!Goto, InspectInv, LookIs
  <2>2. Needed
    BY <1>0 DEF Needed, HeardIs
  <2> QED BY <1>0, <1>1, <2>1, <2>2, InspectGoes
<1>2. CASE \E code \in {"inspect failed", "vault"} : Inspect!End(Inspect!Failing(code))
  <2>1. PICK code \in {"inspect failed", "vault"} : Inspect!End(Inspect!Failing(code))
    BY <1>2
  <2> PICK f : f = Inspect!Failing(code)
    OBVIOUS
  <2>2. SaysNothing(f) /\ f.code = code
    BY FailingIs
  <2> QED BY <1>0, <2>1, <2>2, FailureEnds
<1> QED BY <1>1, <1>2 DEF Inspect!Challenged, Inspect!FailureCodes

-----------------------------------------------------------------------------
(* Reports.                                                                 *)

\* What could not be asked, or was answered with a 401.
LEMMA BlockedReported ==
  ASSUME InspectInv, UNCHANGED target, target.command # "aep inspect", Inspect!End(Inspect!Blocked),
         answer.status \in {"none", "401"},
         look.policy = "required" => look.over # "nobody" \/ answer = Inspect!NoAnswer
  PROVE  InspectInv'
<1> PICK f : f = Inspect!Blocked
  OBVIOUS
<1>1. /\ f.code = "blocked" /\ f.aep = "blocked" /\ f.status = "none"
      /\ f.mpp.shown = {} /\ f.x402.shown = {}
  BY FailingIs DEF SaysNothing, Inspect!Blocked
<1>2. finding' = f /\ answer' = answer /\ look'.policy = look.policy /\ look'.over = look.over
  BY EndKeeps
<1>3. Inspect!CommandsAgree' /\ Inspect!FormsAgree' /\ Inspect!NotRequiredTrue' /\ Inspect!AepTrue'
  BY <1>1, <1>2 DEF Inspect!CommandsAgree, Inspect!FormsAgree, Inspect!NotRequiredTrue, Inspect!AepTrue
<1>4. Inspect!ShownWasAskedFor'
  BY <1>1, <1>2 DEF Inspect!ShownWasAskedFor
<1>5. Inspect!BlockedTrue'
  BY <1>1, <1>2 DEF Inspect!BlockedTrue, Inspect!NoAnswer
<1>6. Inspect!ReportOfAnswer'
  BY <1>1, <1>2 DEF Inspect!ReportOfAnswer, Inspect!SaysNothingIn402
<1> QED BY <1>3, <1>4, <1>5, <1>6, InspectEnds DEF Reported

LEMMA InspectRejected == InspectInv /\ Inspect!Rejected => InspectInv'
BY BlockedReported DEF Inspect!Rejected, Inspect!ForTerms

LEMMA InspectReportBlocked == InspectInv /\ Inspect!ReportBlocked => InspectInv'
<1> SUFFICES ASSUME InspectInv, Inspect!ReportBlocked PROVE InspectInv'
  OBVIOUS
<1>1. Needed /\ UNCHANGED target /\ Inspect!End(Inspect!Blocked)
  BY DEF Inspect!ReportBlocked, InspectInv
<1> QED BY <1>1, BlockedReported DEF Needed, NothingHeard

\* What a report may show under a filter, of what was asked for.
LEMMA ShownAsked ==
  ASSUME NEW filter, NEW challenges, NEW c \in Inspect!Matching(Inspect!Payable(challenges), filter),
         \A x \in challenges : x.intent \in Inspect!Intents
  PROVE  <<c.method, c.intent>> \in Inspect!AcceptPayment(filter) \/ <<c.method, c.intent>> = <<"tempo", "subscription">>
<1>1. /\ filter.method \in {"any", c.method} /\ filter.intent \in {"any", c.intent}
      /\ c.method \in {"inflow", "tempo"} \/ (c.method = "card" /\ c.intent = "charge")
      /\ c.intent \in {"charge", "subscription"}
  BY DEF Inspect!Matching, Inspect!Payable, Inspect!Any, Inspect!Intents
<1> PICK m, i : m = c.method /\ i = c.intent
  OBVIOUS
<1>2. <<m, i>> \in Inspect!Capabilities \/ <<m, i>> = <<"tempo", "subscription">>
  BY <1>1 DEF Inspect!Capabilities
<1>3. <<m, i>>[1] = m /\ <<m, i>>[2] = i
  OBVIOUS
<1> QED BY <1>1, <1>2, <1>3 DEF Inspect!AcceptPayment, Inspect!Any

\* A report of terms.
LEMMA TermsReported ==
  ASSUME InspectInv, HeardIs, UNCHANGED target, Inspect!ForTerms, NEW f, Inspect!End(f),
         f.code \in {"terms", "no payment required"}, f.aep = "absent", f.status = answer.status,
         f.code = "terms" => answer.status = "402",
         f.mpp.shown \subseteq Inspect!Matching(Inspect!Payable(answer.mpp.offers), target.filter)
  PROVE  InspectInv'
<1>1. finding' = f /\ answer' = answer /\ look'.policy = look.policy /\ look'.over = look.over
  BY EndKeeps
<1>2. Inspect!CommandsAgree' /\ Inspect!FormsAgree' /\ Inspect!AepTrue' /\ Inspect!BlockedTrue'
  BY <1>1 DEF Inspect!CommandsAgree, Inspect!FormsAgree, Inspect!AepTrue, Inspect!BlockedTrue
<1>3. Inspect!NotRequiredTrue'
  BY <1>1 DEF Inspect!NotRequiredTrue, Inspect!ForTerms
<1>4. Inspect!ShownWasAskedFor'
  <2> PICK filter, challenges : filter = target.filter /\ challenges = answer.mpp.offers
    OBVIOUS
  <2>1. \A c \in f.mpp.shown :
          <<c.method, c.intent>> \in Inspect!AcceptPayment(filter) \/ <<c.method, c.intent>> = <<"tempo", "subscription">>
    BY ShownAsked DEF HeardIs
  <2>2. finding'.mpp.shown = f.mpp.shown /\ target'.filter = filter
    BY <1>1
  <2> QED BY <2>1, <2>2 DEF Inspect!ShownWasAskedFor
<1>5. Inspect!ReportOfAnswer'
  BY <1>1 DEF Inspect!ReportOfAnswer, Inspect!SaysNothingIn402
<1> QED BY <1>2, <1>3, <1>4, <1>5, InspectEnds DEF Reported

\* A failure, or terms of the answer of which the challenges are among those given.
TermsOf(f, a, S) ==
  \/ SaysNothing(f) /\ f.code \in {"invalid 402", "decode failed", "no inflow match", "no filtered match"}
  \/ f.code = "terms" /\ f.aep = "absent" /\ f.status = a.status /\ f.mpp.shown \subseteq S

\* The terms of x402 that a command reports.
LEMMA X402TermsAre ==
  ASSUME NEW a, NEW filter
  PROVE  TermsOf(Inspect!X402Terms(a, filter), a, {})
<1> PICK g, some, warning :
      g = Inspect!Failing("terms") /\ some = Inspect!Wanted(Inspect!Supported(a.x402.offers), filter)
      /\ warning = Inspect!Unsupported(a.x402.offers)
  OBVIOUS
<1> PICK section : section = Inspect!Section("accepts", some)
  OBVIOUS
<1> PICK t : t = [g EXCEPT !.status = a.status, !.x402 = section, !.warning = warning]
  OBVIOUS
<1>0. g.code = "terms" /\ SaysNothing(g) /\ DOMAIN g = {"code", "status", "aep", "odp", "mpp", "x402", "warning"}
  BY FailingIs
<1>1. t.code = "terms" /\ t.aep = "absent" /\ t.status = a.status /\ t.mpp.shown = {}
  BY <1>0 DEF SaysNothing
<1> PICK f : f = Inspect!X402Terms(a, filter)
  OBVIOUS
<1>2. f \in {Inspect!Failing("invalid 402"), Inspect!Failing("decode failed"), Inspect!Failing("no filtered match"), t}
  BY DEF Inspect!X402Terms
<1>3. \A code : f = Inspect!Failing(code) => SaysNothing(f) /\ f.code = code
  BY FailingIs
<1>4. TermsOf(f, a, {})
  BY <1>1, <1>2, <1>3 DEF TermsOf
<1> QED BY <1>4

\* Those of a payment challenge.
LEMMA MppTermsAre ==
  ASSUME NEW a, NEW filter, NEW f \in Inspect!MppTerms(a, filter)
  PROVE  TermsOf(f, a, Inspect!Matching(Inspect!Payable(a.mpp.offers), filter))
<1> PICK g, some : g = Inspect!Failing("terms") /\ some = Inspect!Matching(Inspect!Payable(a.mpp.offers), filter)
  OBVIOUS
<1> PICK section : section = Inspect!Section("challenges", some)
  OBVIOUS
<1> PICK t : t = [g EXCEPT !.status = a.status, !.mpp = section]
  OBVIOUS
<1>0. g.code = "terms" /\ SaysNothing(g) /\ DOMAIN g = {"code", "status", "aep", "odp", "mpp", "x402", "warning"}
  BY FailingIs
<1>1. section.shown = some
  BY DEF Inspect!Section
<1>2. t.code = "terms" /\ t.aep = "absent" /\ t.status = a.status /\ t.mpp.shown = some
  BY <1>0, <1>1 DEF SaysNothing
<1>3. f \in {Inspect!Failing("invalid 402"), Inspect!Failing("decode failed"), Inspect!Failing("no inflow match"),
              Inspect!Failing("no filtered match"), t}
  BY DEF Inspect!MppTerms
<1>4. \A code : SaysNothing(Inspect!Failing(code)) /\ Inspect!Failing(code).code = code
  BY FailingIs
<1> QED BY <1>2, <1>3, <1>4 DEF TermsOf

LEMMA InspectReportTerms == InspectInv /\ Inspect!ReportTerms => InspectInv'
<1> SUFFICES ASSUME InspectInv, Inspect!ReportTerms PROVE InspectInv'
  OBVIOUS
<1>0. HeardIs /\ UNCHANGED target /\ Inspect!ForTerms
  BY DEF Inspect!ReportTerms, InspectInv
<1> PICK filter, a, command : filter = target.filter /\ a = answer /\ command = target.command
  OBVIOUS
<1>1. PICK f \in Inspect!Terms(command, filter, a) : Inspect!End(f)
  BY DEF Inspect!ReportTerms
<1>2. CASE a.status = "2xx"
  <2> PICK g : g = Inspect!Failing("no payment required")
    OBVIOUS
  <2>0. /\ g.code = "no payment required" /\ SaysNothing(g)
        /\ DOMAIN g = {"code", "status", "aep", "odp", "mpp", "x402", "warning"}
    BY FailingIs
  <2>1. f = [g EXCEPT !.status = a.status]
    BY <1>1, <1>2 DEF Inspect!Terms
  <2>2. f.code = "no payment required" /\ f.aep = "absent" /\ f.status = a.status /\ f.mpp.shown = {}
    BY <2>0, <2>1 DEF SaysNothing
  <2> QED BY <1>0, <1>1, <2>2, TermsReported
<1>3. CASE a.status # "2xx" /\ a.status # "402"
  <2>1. f = Inspect!Failing("unexpected status")
    BY <1>1, <1>3 DEF Inspect!Terms
  <2>2. SaysNothing(f) /\ f.code = "unexpected status"
    BY <2>1, FailingIs
  <2> QED BY <1>0, <1>1, <2>2, FailureEnds
<1>4. CASE a.status = "402"
  <2> PICK S : S = Inspect!Matching(Inspect!Payable(a.mpp.offers), filter)
    OBVIOUS
  <2>1. TermsOf(f, a, S)
    <3>1. CASE command = "x402 inspect"
      <4>1. f = Inspect!X402Terms(a, filter)
        BY <1>1, <1>4, <3>1 DEF Inspect!Terms
      <4>2. TermsOf(f, a, {})
        BY <4>1, X402TermsAre
      <4> QED BY <4>2 DEF TermsOf
    <3>2. CASE command # "x402 inspect"
      <4>1. f \in Inspect!MppTerms(a, filter)
        BY <1>1, <1>4, <3>2 DEF Inspect!Terms
      <4> QED BY <4>1, MppTermsAre
    <3> QED BY <3>1, <3>2
  <2>2. CASE SaysNothing(f) /\ f.code \in {"invalid 402", "decode failed", "no inflow match", "no filtered match"}
    BY <1>0, <1>1, <1>4, <2>2, FailureEnds
  <2>3. CASE f.code = "terms" /\ f.aep = "absent" /\ f.status = a.status /\ f.mpp.shown \subseteq S
    BY <1>0, <1>1, <1>4, <2>3, TermsReported
  <2> QED BY <2>1, <2>2, <2>3 DEF TermsOf
<1> QED BY <1>2, <1>3, <1>4

-----------------------------------------------------------------------------
(* `aep inspect`.                                                           *)

\* Of an advertised Service nothing is said that the other commands say.
LEMMA AdvertisedReported ==
  ASSUME finding'.code = "advertised", finding'.aep \in {"authenticatable", "not required", "other"},
         finding'.mpp.shown = {}, finding'.status # "none" => finding'.status = answer'.status, Inspect!AepTrue'
  PROVE  Reported'
<1>1. Inspect!CommandsAgree' /\ Inspect!FormsAgree' /\ Inspect!NotRequiredTrue' /\ Inspect!BlockedTrue'
  BY DEF Inspect!CommandsAgree, Inspect!FormsAgree, Inspect!NotRequiredTrue, Inspect!BlockedTrue
<1>2. Inspect!ShownWasAskedFor'
  BY DEF Inspect!ShownWasAskedFor
<1>3. Inspect!ReportOfAnswer'
  BY DEF Inspect!ReportOfAnswer, Inspect!SaysNothingIn402
<1> QED BY <1>1, <1>2, <1>3 DEF Reported

LEMMA InspectReportAep == InspectInv /\ Inspect!ReportAep => InspectInv'
<1> SUFFICES ASSUME InspectInv, Inspect!ReportAep PROVE InspectInv'
  OBVIOUS
<1>0. UNCHANGED target /\ target.command = "aep inspect"
  BY DEF Inspect!ReportAep
<1> PICK g : g = Inspect!Failing("advertised")
  OBVIOUS
<1>1. /\ g.code = "advertised" /\ SaysNothing(g)
      /\ DOMAIN g = {"code", "status", "aep", "odp", "mpp", "x402", "warning"}
  BY FailingIs
<1>2. CASE look.at = "policy"
  <2> PICK aep : aep = IF look.policy = "required" THEN "authenticatable" ELSE "not required"
    OBVIOUS
  <2> PICK f : f = [g EXCEPT !.aep = aep]
    OBVIOUS
  <2>1. Inspect!End(f)
    BY <1>2 DEF Inspect!ReportAep
  <2>2. /\ f.code = "advertised" /\ f.aep = aep /\ f.status = "none"
        /\ f.mpp.shown = {} /\ f.x402.shown = {}
    BY <1>1 DEF SaysNothing
  <2>3. finding' = f /\ answer' = answer /\ look'.policy = look.policy /\ look'.over = look.over
    BY <2>1, EndKeeps
  <2>4. answer.status = "none" /\ look.policy \in {"required", "public"}
    BY <1>2 DEF InspectInv, NothingHeard
  <2>5. Inspect!AepTrue'
    <3>1. finding'.aep = aep /\ answer'.status = "none" /\ look'.policy = look.policy
      BY <2>2, <2>3, <2>4
    <3>2. aep = "authenticatable" => look'.policy = "required"
      BY <3>1
    <3>3. aep = "not required" => look'.policy = "public"
      BY <3>1, <2>4
    <3> QED BY <3>1, <3>2, <3>3 DEF Inspect!AepTrue
  <2>6. Reported'
    BY <2>2, <2>3, <2>5, AdvertisedReported
  <2> QED BY <1>0, <2>1, <2>6, InspectEnds
<1>3. CASE look.at = "heard"
  <2>0. HeardIs
    BY <1>3 DEF InspectInv
  <2> PICK aep : aep = IF answer.status # "401" THEN "not required" ELSE IF answer.aep THEN "authenticatable" ELSE "other"
    OBVIOUS
  <2> PICK f : f = [g EXCEPT !.status = answer.status, !.aep = aep]
    OBVIOUS
  <2>1. Inspect!End(f)
    BY <1>3 DEF Inspect!ReportAep
  <2>2. /\ f.code = "advertised" /\ f.aep = aep /\ f.status = answer.status
        /\ f.mpp.shown = {} /\ f.x402.shown = {}
    BY <1>1 DEF SaysNothing
  <2>3. finding' = f /\ answer' = answer /\ look'.policy = look.policy /\ look'.over = look.over
    BY <2>1, EndKeeps
  <2>4. look'.over = "nobody" /\ answer'.aep \in BOOLEAN /\ answer'.status \in {"2xx", "401", "402", "other"}
    BY <1>0, <2>0, <2>3 DEF HeardIs
  <2>5. Inspect!AepTrue'
    <3>1. answer'.status = "401" => (aep = "authenticatable" <=> \A x \in Inspect!AepSections' : x \in {"service", "error"})
      <4>1. CASE answer'.aep
        <5>1. \A x \in Inspect!AepSections' : x \in {"service", "error"}
          BY <2>4, <4>1 DEF Inspect!AepSections
        <5> QED BY <2>3, <4>1, <5>1
      <4>2. CASE ~answer'.aep
        <5>1. \E x \in Inspect!AepSections' : x \notin {"service", "error"}
          BY <2>4, <4>2 DEF Inspect!AepSections
        <5> QED BY <2>3, <4>2, <5>1
      <4> QED BY <4>1, <4>2
    <3>2. aep = "authenticatable" => answer'.aep
      BY <2>3
    <3>3. aep = "not required" => answer'.status \in {"2xx", "402", "other"}
      BY <2>3, <2>4
    <3> QED BY <2>2, <2>3, <3>1, <3>2, <3>3 DEF Inspect!AepTrue
  <2>6. Reported'
    BY <2>2, <2>3, <2>5, AdvertisedReported
  <2> QED BY <1>0, <2>1, <2>6, InspectEnds
<1> QED BY <1>2, <1>3 DEF Inspect!ReportAep

-----------------------------------------------------------------------------
(* `inspect`.                                                               *)

MppShown(a) == IF a.mpp.form \in {"absent", "garbled"} THEN {} ELSE Inspect!Payable(a.mpp.offers)

X402Shown(a) == IF a.x402.form \in {"absent", "garbled"} THEN {} ELSE Inspect!Supported(a.x402.offers)

\* The sections of an answer say what it has, and show what can be paid.
MppSectionOf(a, m) ==
  /\ m.shown = MppShown(a)
  /\ m.kind \in {"absent", "error", "none-inflow", "challenges"}
  /\ m.kind = "challenges" <=> m.shown # {}

X402SectionOf(a, x) ==
  /\ x.shown = X402Shown(a)
  /\ x.kind \in {"absent", "error", "accepts"}
  /\ x.kind = "accepts" => x.shown = Inspect!Supported(a.x402.offers)
  /\ x.kind # "accepts" => x.shown = {}

LEMMA SectionIs ==
  ASSUME NEW kind, NEW S
  PROVE  Inspect!Section(kind, S).kind = kind /\ Inspect!Section(kind, S).shown = S
BY DEF Inspect!Section

LEMMA SectionsOf ==
  ASSUME NEW a
  PROVE  MppSectionOf(a, Inspect!MppSection(a)) /\ X402SectionOf(a, Inspect!X402Section(a))
<1> PICK m, x : m = Inspect!MppSection(a) /\ x = Inspect!X402Section(a)
  OBVIOUS
<1>1. MppSectionOf(a, m)
  <2>1. CASE a.mpp.form = "absent"
    <3>1. m = Inspect!Section("absent", {})
      BY <2>1 DEF Inspect!MppSection
    <3>2. m.kind = "absent" /\ m.shown = {}
      BY <3>1, SectionIs
    <3> QED BY <2>1, <3>2 DEF MppSectionOf, MppShown
  <2>2. CASE a.mpp.form = "garbled"
    <3>1. m = Inspect!Section("error", {})
      BY <2>2 DEF Inspect!MppSection
    <3>2. m.kind = "error" /\ m.shown = {}
      BY <3>1, SectionIs
    <3> QED BY <2>2, <3>2 DEF MppSectionOf, MppShown
  <2>3. CASE a.mpp.form \notin {"absent", "garbled"}
    <3> PICK P : P = Inspect!Payable(a.mpp.offers)
      OBVIOUS
    <3>1. m = IF P = {} THEN Inspect!Section("none-inflow", {}) ELSE Inspect!Section("challenges", P)
      BY <2>3 DEF Inspect!MppSection
    <3>2. m.shown = P /\ m.kind = IF P = {} THEN "none-inflow" ELSE "challenges"
      <4>1. CASE P = {}
        <5>1. m = Inspect!Section("none-inflow", {})
          BY <3>1, <4>1
        <5> QED BY <4>1, <5>1, SectionIs
      <4>2. CASE P # {}
        <5>1. m = Inspect!Section("challenges", P)
          BY <3>1, <4>2
        <5> QED BY <4>2, <5>1, SectionIs
      <4> QED BY <4>1, <4>2
    <3> QED BY <2>3, <3>2 DEF MppSectionOf, MppShown
  <2> QED BY <2>1, <2>2, <2>3
<1>2. X402SectionOf(a, x)
  <2>1. CASE a.x402.form = "absent"
    <3>1. x = Inspect!Section("absent", {})
      BY <2>1 DEF Inspect!X402Section
    <3>2. x.kind = "absent" /\ x.shown = {}
      BY <3>1, SectionIs
    <3> QED BY <2>1, <3>2 DEF X402SectionOf, X402Shown
  <2>2. CASE a.x402.form = "garbled"
    <3>1. x = Inspect!Section("error", {})
      BY <2>2 DEF Inspect!X402Section
    <3>2. x.kind = "error" /\ x.shown = {}
      BY <3>1, SectionIs
    <3> QED BY <2>2, <3>2 DEF X402SectionOf, X402Shown
  <2>3. CASE a.x402.form \notin {"absent", "garbled"}
    <3> PICK P : P = Inspect!Supported(a.x402.offers)
      OBVIOUS
    <3>1. x = Inspect!Section("accepts", P)
      BY <2>3 DEF Inspect!X402Section
    <3>2. x.shown = P /\ x.kind = "accepts"
      BY <3>1, SectionIs
    <3> QED BY <2>3, <3>2 DEF X402SectionOf, X402Shown
  <2> QED BY <2>1, <2>2, <2>3
<1> QED BY <1>1, <1>2

LEMMA NoFilterIs ==
  /\ Inspect!NoFilter.method = Inspect!Any
  /\ Inspect!NoFilter.intent = Inspect!Any
  /\ Inspect!NoFilter.wanted = FALSE
BY DEF Inspect!NoFilter

\* Without filters the command of a protocol shows what `inspect` shows.
LEMMA X402Agree ==
  ASSUME NEW a
  PROVE  X402Shown(a) # {} <=>
           Inspect!X402Terms(a, Inspect!NoFilter).code = "terms" /\ Inspect!X402Terms(a, Inspect!NoFilter).x402.shown # {}
<1> PICK f : f = Inspect!X402Terms(a, Inspect!NoFilter)
  OBVIOUS
<1> PICK P, g, warning :
      P = Inspect!Supported(a.x402.offers) /\ g = Inspect!Failing("terms")
      /\ warning = Inspect!Unsupported(a.x402.offers)
  OBVIOUS
<1>2. CASE a.x402.form \in {"absent", "garbled"}
  <2>1. f \in {Inspect!Failing("invalid 402"), Inspect!Failing("decode failed")}
    BY <1>2 DEF Inspect!X402Terms
  <2>2. f.code # "terms"
    <3>1. Inspect!Failing("invalid 402").code # "terms" /\ Inspect!Failing("decode failed").code # "terms"
      BY FailingIs
    <3> QED BY <2>1, <3>1
  <2> QED BY <1>2, <2>2 DEF X402Shown
<1>3. CASE a.x402.form \notin {"absent", "garbled"}
  <2> PICK section : section = Inspect!Section("accepts", P)
    OBVIOUS
  <2>1. Inspect!Wanted(P, Inspect!NoFilter) = P
    BY NoFilterIs DEF Inspect!Wanted
  <2>2. f = [g EXCEPT !.status = a.status, !.x402 = section, !.warning = warning]
    BY <1>3, <2>1 DEF Inspect!X402Terms
  <2>3. g.code = "terms" /\ DOMAIN g = {"code", "status", "aep", "odp", "mpp", "x402", "warning"}
    BY FailingIs
  <2>4. f.code = "terms" /\ f.x402.shown = P
    BY <2>2, <2>3, SectionIs
  <2> QED BY <1>3, <2>4 DEF X402Shown
<1> QED BY <1>2, <1>3

LEMMA MppAgree ==
  ASSUME NEW a
  PROVE  /\ MppShown(a) # {} <=> \E f \in Inspect!MppTerms(a, Inspect!NoFilter) : f.code = "terms"
         /\ \A f \in Inspect!MppTerms(a, Inspect!NoFilter) : f.code = "terms" => f.mpp.shown = MppShown(a)
<1> PICK P, g : P = Inspect!Payable(a.mpp.offers) /\ g = Inspect!Failing("terms")
  OBVIOUS
<1>2. CASE MppShown(a) = {}
  <2>1. a.mpp.form \in {"absent", "garbled"} \/ P = {}
    BY <1>2 DEF MppShown
  <2>2. \A f \in Inspect!MppTerms(a, Inspect!NoFilter) :
          f \in {Inspect!Failing("invalid 402"), Inspect!Failing("decode failed"), Inspect!Failing("no inflow match")}
    BY <2>1 DEF Inspect!MppTerms
  <2>3. \A f \in Inspect!MppTerms(a, Inspect!NoFilter) : f.code # "terms"
    <3>1. /\ Inspect!Failing("invalid 402").code # "terms" /\ Inspect!Failing("decode failed").code # "terms"
          /\ Inspect!Failing("no inflow match").code # "terms"
      BY FailingIs
    <3> QED BY <2>2, <3>1
  <2> QED BY <1>2, <2>3
<1>3. CASE MppShown(a) # {}
  <2>0. a.mpp.form \notin {"absent", "garbled"} /\ P # {} /\ MppShown(a) = P
    BY <1>3 DEF MppShown
  <2> PICK section : section = Inspect!Section("challenges", P)
    OBVIOUS
  <2> PICK t : t = [g EXCEPT !.status = a.status, !.mpp = section]
    OBVIOUS
  <2>1. Inspect!Matching(P, Inspect!NoFilter) = P
    BY NoFilterIs DEF Inspect!Matching
  <2>2. Inspect!MppTerms(a, Inspect!NoFilter) = {t}
    BY <2>0, <2>1 DEF Inspect!MppTerms
  <2>3. g.code = "terms" /\ DOMAIN g = {"code", "status", "aep", "odp", "mpp", "x402", "warning"}
    BY FailingIs
  <2>4. t.code = "terms" /\ t.mpp.shown = P
    BY <2>3, SectionIs
  <2> QED BY <2>0, <2>2, <2>4
<1> QED BY <1>2, <1>3

\* A resource that is reported with its sections.
LEMMA SectionsReported ==
  ASSUME InspectInv, HeardIs, UNCHANGED target, target.command = "inspect", NEW f, Inspect!End(f),
         f.code = "inspected", f.status = answer.status, f.aep \in Inspect!AepSections,
         look.over = "agent" \/ answer.status = "402" \/ (answer.status = "401" /\ f.aep # "absent"),
         MppSectionOf(answer, f.mpp), X402SectionOf(answer, f.x402),
         target.filter = Inspect!NoFilter
  PROVE  InspectInv'
<1>0. /\ finding' = f /\ answer' = answer /\ look'.policy = look.policy /\ look'.over = look.over
      /\ look'.own = look.own
  BY EndKeeps
<1>1. f.aep \in {"openapi required", "service", "error", "absent", "openapi public", "discovered"}
  BY DEF Inspect!AepSections
<1>2. f.aep \notin {"openapi required", "service", "error"} =>
        look.over = "nobody" /\ ~answer.aep /\ (f.aep = "absent" <=> look.policy = "unknown")
  BY DEF Inspect!AepSections, HeardIs, InspectInv, LookIs
<1>3. Inspect!CommandsAgree'
  <2>1. "x402" \in Inspect!Detected(f) <=> f.x402.shown # {}
    BY DEF Inspect!Detected
  <2>2. "mpp" \in Inspect!Detected(f) <=> f.mpp.shown # {}
    BY DEF Inspect!Detected
  <2>3. f.x402.shown = X402Shown(answer) /\ f.mpp.shown = MppShown(answer)
    BY DEF MppSectionOf, X402SectionOf
  <2>4. /\ "x402" \in Inspect!Detected(f) <=>
             Inspect!X402Terms(answer, Inspect!NoFilter).code = "terms"
             /\ Inspect!X402Terms(answer, Inspect!NoFilter).x402.shown # {}
        /\ "mpp" \in Inspect!Detected(f) <=> \E t \in Inspect!MppTerms(answer, Inspect!NoFilter) : t.code = "terms"
        /\ \A t \in Inspect!MppTerms(answer, Inspect!NoFilter) : t.code = "terms" => t.mpp.shown = f.mpp.shown
    BY <2>1, <2>2, <2>3, X402Agree, MppAgree
  <2> QED BY <1>0, <2>4 DEF Inspect!CommandsAgree
<1>4. Inspect!FormsAgree'
  <2>1. Inspect!OdpRow(f) = "catalog available" <=> "odp" \in Inspect!Detected(f)
    BY DEF Inspect!OdpRow, Inspect!Detected
  <2>2. Inspect!AepRow(f) = "authentication required" <=> Inspect!AuthenticationRequired(f)
    BY <1>1 DEF Inspect!AepRow, Inspect!AuthenticationRequired
  <2>3. /\ "x402" \in Inspect!Detected(f) <=> f.x402.shown # {}
        /\ "mpp" \in Inspect!Detected(f) <=> f.mpp.shown # {}
    BY DEF Inspect!Detected
  <2>4. Inspect!Row(f, f.mpp) = "payment required" <=> f.mpp.kind = "challenges"
    BY <1>1 DEF Inspect!Row, MppSectionOf
  <2>5. Inspect!Row(f, f.x402) = "payment required" <=> f.x402.kind = "accepts"
    BY <1>1 DEF Inspect!Row, X402SectionOf
  <2>6. f.mpp.kind = "challenges" <=> f.mpp.shown # {}
    BY DEF MppSectionOf
  <2>7. f.x402.kind = "accepts" /\ f.x402.shown = {} => \A o \in answer.x402.offers : o.kind # "plain"
    BY DEF X402SectionOf, Inspect!Supported
  <2>8. f.x402.shown # {} => f.x402.kind = "accepts"
    BY DEF X402SectionOf
  <2> QED BY <1>0, <2>1, <2>2, <2>3, <2>4, <2>5, <2>6, <2>7, <2>8 DEF Inspect!FormsAgree
<1>5. Inspect!ShownWasAskedFor'
  <2> PICK filter, challenges : filter = target.filter /\ challenges = answer.mpp.offers
    OBVIOUS
  <2>1. Inspect!Matching(Inspect!Payable(challenges), filter) = Inspect!Payable(challenges)
    BY NoFilterIs DEF Inspect!Matching
  <2>2. f.mpp.shown \subseteq Inspect!Matching(Inspect!Payable(challenges), filter)
    BY <2>1 DEF MppSectionOf, MppShown
  <2>3. \A c \in f.mpp.shown :
          <<c.method, c.intent>> \in Inspect!AcceptPayment(filter) \/ <<c.method, c.intent>> = <<"tempo", "subscription">>
    BY <2>2, ShownAsked DEF HeardIs
  <2>4. finding'.mpp.shown = f.mpp.shown /\ target'.filter = filter
    BY <1>0
  <2> QED BY <2>3, <2>4 DEF Inspect!ShownWasAskedFor
<1>6. Inspect!NotRequiredTrue'
  <2>1. ~Inspect!AuthenticationRequired(f) => f.aep \notin {"openapi required", "service", "error"}
    BY DEF Inspect!AuthenticationRequired
  <2>2. look.over = "nobody" /\ answer.status = "401" /\ look.policy # "unknown" => look.policy \in {"fallback", "public"}
    BY DEF HeardIs, InspectInv, LookIs
  <2>3. look.over = "nobody" /\ answer.status = "401" => f.aep # "absent"
    OBVIOUS
  <2>4. answer.status # "none"
    BY DEF HeardIs
  <2> QED BY <1>0, <1>2, <2>1, <2>2, <2>3, <2>4 DEF Inspect!NotRequiredTrue
<1>7. Inspect!AepTrue' /\ Inspect!BlockedTrue'
  BY <1>0, <1>1 DEF Inspect!AepTrue, Inspect!BlockedTrue
<1>8. Inspect!ReportOfAnswer'
  <2>1. f.aep = "absent" => answer.status = "402"
    BY <1>2
  <2> QED BY <1>0, <2>1 DEF Inspect!ReportOfAnswer, Inspect!SaysNothingIn402
<1> QED BY <1>3, <1>4, <1>5, <1>6, <1>7, <1>8, InspectEnds DEF Reported

\* A resource that needs no payment.
LEMMA FreeReported ==
  ASSUME InspectInv, HeardIs, UNCHANGED target, target.command = "inspect", NEW f, Inspect!End(f),
         f.code = "no payment required", f.status = answer.status, f.aep \in Inspect!AepSections,
         answer.status = "2xx", f.mpp.shown = {}
  PROVE  InspectInv'
<1>0. finding' = f /\ answer' = answer /\ look'.policy = look.policy /\ look'.over = look.over
  BY EndKeeps
<1>1. f.aep \in {"openapi required", "service", "error", "absent", "openapi public", "discovered"}
  BY DEF Inspect!AepSections
<1>2. f.aep \notin {"openapi required", "service", "error"} => look.over = "nobody" /\ ~answer.aep
  BY DEF Inspect!AepSections, HeardIs, InspectInv, LookIs
<1>3. Inspect!CommandsAgree' /\ Inspect!FormsAgree' /\ Inspect!AepTrue' /\ Inspect!BlockedTrue'
  BY <1>0, <1>1 DEF Inspect!CommandsAgree, Inspect!FormsAgree, Inspect!AepTrue, Inspect!BlockedTrue
<1>4. Inspect!ShownWasAskedFor'
  BY <1>0 DEF Inspect!ShownWasAskedFor
<1>5. Inspect!NotRequiredTrue'
  BY <1>0, <1>1, <1>2 DEF Inspect!NotRequiredTrue, Inspect!AuthenticationRequired
<1>6. Inspect!ReportOfAnswer'
  BY <1>0 DEF Inspect!ReportOfAnswer, Inspect!SaysNothingIn402
<1> QED BY <1>3, <1>4, <1>5, <1>6, InspectEnds DEF Reported

\* A resource that could not be asked.
LEMMA BlockedInspected ==
  ASSUME InspectInv, Needed, UNCHANGED target, NEW f, Inspect!End(f),
         f.code = "inspected", f.aep = "blocked", f.status = "none", f.mpp.shown = {}, f.x402.shown = {}
  PROVE  InspectInv'
<1>0. finding' = f /\ answer' = answer /\ look'.policy = look.policy /\ look'.over = look.over
  BY EndKeeps
<1>1. /\ answer.status \in {"none", "401"}
      /\ look.policy = "required" => answer = Inspect!NoAnswer
  BY DEF Needed, NothingHeard
<1>2. Inspect!CommandsAgree'
  BY <1>0, <1>1 DEF Inspect!CommandsAgree
<1>3. Inspect!FormsAgree'
  <2>1. Inspect!OdpRow(f) = "catalog available" <=> "odp" \in Inspect!Detected(f)
    BY DEF Inspect!OdpRow, Inspect!Detected
  <2>2. Inspect!AepRow(f) = "authentication required" /\ Inspect!AuthenticationRequired(f)
    BY DEF Inspect!AepRow, Inspect!AuthenticationRequired
  <2>3. "x402" \notin Inspect!Detected(f) /\ "mpp" \notin Inspect!Detected(f)
    BY DEF Inspect!Detected
  <2>4. Inspect!Row(f, f.mpp) # "payment required" /\ Inspect!Row(f, f.x402) # "payment required"
    BY DEF Inspect!Row
  <2> QED BY <1>0, <2>1, <2>2, <2>3, <2>4 DEF Inspect!FormsAgree
<1>4. Inspect!ShownWasAskedFor' /\ Inspect!AepTrue'
  BY <1>0 DEF Inspect!ShownWasAskedFor, Inspect!AepTrue
<1>5. Inspect!NotRequiredTrue'
  BY <1>0 DEF Inspect!NotRequiredTrue, Inspect!AuthenticationRequired
<1>6. Inspect!BlockedTrue'
  BY <1>0, <1>1 DEF Inspect!BlockedTrue, Inspect!NoAnswer
<1>7. Inspect!ReportOfAnswer'
  BY <1>0 DEF Inspect!ReportOfAnswer, Inspect!SaysNothingIn402
<1> QED BY <1>2, <1>3, <1>4, <1>5, <1>6, <1>7, InspectEnds DEF Reported

LEMMA InspectReportInspected == InspectInv /\ Inspect!ReportInspected => InspectInv'
<1> SUFFICES ASSUME InspectInv, Inspect!ReportInspected PROVE InspectInv'
  OBVIOUS
<1>0. UNCHANGED target /\ target.command = "inspect"
  BY DEF Inspect!ReportInspected
<1>1. PICK odp \in Inspect!OdpSections :
        \/ look.at = "blocked" /\ Inspect!End([Inspect!Failing("inspected") EXCEPT !.aep = "blocked", !.odp = odp])
        \/ /\ look.at = "heard"
           /\ \E aep \in Inspect!AepSections :
                LET f == [Inspect!NoFinding EXCEPT !.status = answer.status, !.aep = aep, !.odp = odp]
                IN  IF look.over = "agent" \/ answer.status = "402" \/ (answer.status = "401" /\ aep # "absent")
                    THEN Inspect!End([f EXCEPT !.code = "inspected", !.mpp = Inspect!MppSection(answer),
                                               !.x402 = Inspect!X402Section(answer),
                                               !.warning = Inspect!Unsupported(answer.x402.offers)])
                    ELSE IF answer.status = "2xx" THEN Inspect!End([f EXCEPT !.code = "no payment required"])
                    ELSE Inspect!End(Inspect!Failing("unexpected status"))
  BY DEF Inspect!ReportInspected
<1>2. CASE look.at = "blocked" /\ Inspect!End([Inspect!Failing("inspected") EXCEPT !.aep = "blocked", !.odp = odp])
  <2> PICK g : g = Inspect!Failing("inspected")
    OBVIOUS
  <2> PICK f : f = [g EXCEPT !.aep = "blocked", !.odp = odp]
    OBVIOUS
  <2>1. g.code = "inspected" /\ SaysNothing(g) /\ DOMAIN g = {"code", "status", "aep", "odp", "mpp", "x402", "warning"}
    BY FailingIs
  <2>2. f.code = "inspected" /\ f.aep = "blocked" /\ f.status = "none" /\ f.mpp.shown = {} /\ f.x402.shown = {}
    BY <2>1 DEF SaysNothing
  <2>3. Needed
    BY <1>2 DEF InspectInv
  <2> QED BY <1>0, <1>2, <2>2, <2>3, BlockedInspected
<1>3. CASE /\ look.at = "heard"
           /\ \E aep \in Inspect!AepSections :
                LET f == [Inspect!NoFinding EXCEPT !.status = answer.status, !.aep = aep, !.odp = odp]
                IN  IF look.over = "agent" \/ answer.status = "402" \/ (answer.status = "401" /\ aep # "absent")
                    THEN Inspect!End([f EXCEPT !.code = "inspected", !.mpp = Inspect!MppSection(answer),
                                               !.x402 = Inspect!X402Section(answer),
                                               !.warning = Inspect!Unsupported(answer.x402.offers)])
                    ELSE IF answer.status = "2xx" THEN Inspect!End([f EXCEPT !.code = "no payment required"])
                    ELSE Inspect!End(Inspect!Failing("unexpected status"))
  <2>0. /\ DOMAIN Inspect!NoFinding = {"code", "status", "aep", "odp", "mpp", "x402", "warning"}
        /\ Inspect!NoFinding.mpp.shown = {} /\ HeardIs
    BY <1>3 DEF InspectInv, Inspect!NoFinding, Inspect!Section
  <2>1. PICK aep \in Inspect!AepSections :
          LET f == [Inspect!NoFinding EXCEPT !.status = answer.status, !.aep = aep, !.odp = odp]
          IN  IF look.over = "agent" \/ answer.status = "402" \/ (answer.status = "401" /\ aep # "absent")
              THEN Inspect!End([f EXCEPT !.code = "inspected", !.mpp = Inspect!MppSection(answer),
                                         !.x402 = Inspect!X402Section(answer),
                                         !.warning = Inspect!Unsupported(answer.x402.offers)])
              ELSE IF answer.status = "2xx" THEN Inspect!End([f EXCEPT !.code = "no payment required"])
              ELSE Inspect!End(Inspect!Failing("unexpected status"))
    BY <1>3
  <2> PICK g : g = [Inspect!NoFinding EXCEPT !.status = answer.status, !.aep = aep, !.odp = odp]
    OBVIOUS
  <2>2. /\ DOMAIN g = {"code", "status", "aep", "odp", "mpp", "x402", "warning"}
        /\ g.status = answer.status /\ g.aep = aep /\ g.mpp.shown = {}
    BY <2>0
  <2>3. CASE look.over = "agent" \/ answer.status = "402" \/ (answer.status = "401" /\ aep # "absent")
    <3> PICK f : f = [g EXCEPT !.code = "inspected", !.mpp = Inspect!MppSection(answer),
                               !.x402 = Inspect!X402Section(answer), !.warning = Inspect!Unsupported(answer.x402.offers)]
      OBVIOUS
    <3>1. Inspect!End(f)
      BY <2>1, <2>3
    <3>2. /\ f.code = "inspected" /\ f.status = answer.status /\ f.aep = aep
          /\ f.mpp = Inspect!MppSection(answer) /\ f.x402 = Inspect!X402Section(answer)
      BY <2>2
    <3>3. MppSectionOf(answer, f.mpp) /\ X402SectionOf(answer, f.x402)
      BY <3>2, SectionsOf
    <3>4. target.filter = Inspect!NoFilter
      BY <1>0 DEF InspectInv
    <3> QED BY <1>0, <2>0, <2>3, <3>1, <3>2, <3>3, <3>4, SectionsReported
  <2>4. CASE ~(look.over = "agent" \/ answer.status = "402" \/ (answer.status = "401" /\ aep # "absent"))
    <3>1. CASE answer.status = "2xx"
      <4> PICK f : f = [g EXCEPT !.code = "no payment required"]
        OBVIOUS
      <4>1. Inspect!End(f)
        BY <2>1, <2>4, <3>1
      <4>2. f.code = "no payment required" /\ f.status = answer.status /\ f.aep = aep /\ f.mpp.shown = {}
        BY <2>2
      <4> QED BY <1>0, <2>0, <3>1, <4>1, <4>2, FreeReported
    <3>2. CASE answer.status # "2xx"
      <4> PICK f : f = Inspect!Failing("unexpected status")
        OBVIOUS
      <4>1. Inspect!End(f)
        BY <2>1, <2>4, <3>2
      <4>2. SaysNothing(f) /\ f.code = "unexpected status"
        BY FailingIs
      <4> QED BY <1>0, <4>1, <4>2, FailureEnds
    <3> QED BY <3>1, <3>2
  <2> QED BY <2>3, <2>4
<1> QED BY <1>1, <1>2, <1>3

LEMMA InspectStays ==
  ASSUME InspectInv, UNCHANGED Inspect!vars
  PROVE  InspectInv'
<1>1. UNCHANGED <<target, look, answer, finding>>
  BY DEF Inspect!vars
<1>2. /\ Inspect!CommandsAgree => Inspect!CommandsAgree'
      /\ Inspect!FormsAgree => Inspect!FormsAgree'
  BY <1>1 DEF Inspect!CommandsAgree, Inspect!FormsAgree
<1>3. /\ Inspect!ShownWasAskedFor => Inspect!ShownWasAskedFor'
      /\ Inspect!NotRequiredTrue => Inspect!NotRequiredTrue'
      /\ Inspect!BlockedTrue => Inspect!BlockedTrue'
      /\ Inspect!ReportOfAnswer => Inspect!ReportOfAnswer'
  BY <1>1 DEF Inspect!ShownWasAskedFor, Inspect!NotRequiredTrue, Inspect!BlockedTrue, Inspect!ReportOfAnswer
<1>4. Inspect!AepTrue => Inspect!AepTrue'
  <2> PICK S : S = Inspect!AepSections
    OBVIOUS
  <2>1. Inspect!AepSections' = S
    BY <1>1 DEF Inspect!AepSections
  <2> QED BY <1>1, <2>1 DEF Inspect!AepTrue
<1>5. Reported => Reported'
  BY <1>2, <1>3, <1>4 DEF Reported
<1> QED BY <1>1, <1>5 DEF InspectInv, LookIs, NothingHeard, Needed, HeardIs

LEMMA InspectStep == InspectInv /\ [Inspect!Next]_(Inspect!vars) => InspectInv'
<1> SUFFICES ASSUME InspectInv, [Inspect!Next]_(Inspect!vars) PROVE InspectInv'
  OBVIOUS
<1>1. CASE \E page \in Inspect!Pages : Inspect!Begin(page) \/ Inspect!BeginTerms(page) \/ Inspect!BeginAep(page)
  BY <1>1, InspectBegin, InspectBeginTerms, InspectBeginAep
<1>2. CASE UNCHANGED Inspect!vars
  BY <1>2, InspectStays
<1> QED
  BY <1>1, <1>2, InspectReadDocument, InspectLook, InspectAsksAsAgent, InspectAsksAnonymously, InspectChallenged,
     InspectRejected, InspectReportBlocked, InspectReportTerms, InspectReportInspected, InspectReportAep
  DEF Inspect!Next

-----------------------------------------------------------------------------
(* The properties of the parts.                                             *)

\* A seller serves a purchase at most once and only if it was approved, a Service gets what
\* the user approved and nothing else, and the command reports what happened: for any number
\* of commands that resume it, of rounds of approval and of other agents.
THEOREM PurchasesAreTrue == Purchase!Spec /\ Approve!Spec => []OutcomeTrue
<1>1. Purchase!Spec => []PurchaseInv
  BY PurchaseInit, PurchaseStep, PTL DEF Purchase!Spec
<1>2. Approve!Spec => []ApproveInv
  BY ApproveInit, ApproveStep, PTL DEF Approve!Spec
<1>3. PurchaseInv /\ ApproveInv => OutcomeTrue
  BY DEF PurchaseInv, ApproveInv, OutcomeTrue
<1> QED
  BY <1>1, <1>2, <1>3, PTL

\* What a status command shows are the changes of the transaction, and it ends with what
\* the transaction came to; `auth status` shows who was signed in while it looked: for any
\* number of answers and restarts, and of writes by another process.
THEOREM StatusIsTrue == Status!Spec /\ SignIn!Spec => []StatusTrue
<1>1. Status!Spec => []WatchInv
  BY WatchInit, WatchStep, PTL DEF Status!Spec
<1>2. SignIn!Spec => []SignInInv
  BY SignInInit, SignInStep, PTL DEF SignIn!Spec
<1>3. WatchInv /\ SignInInv => StatusTrue
  BY WatchTrue, SignInTrue DEF StatusTrue
<1> QED
  BY <1>1, <1>2, <1>3, PTL

\* An `odp` command asks only for what it has seen offered and reports its failures as what
\* they are, the directory never sees the agent, and what an inspection reports is what was
\* answered: for every input, filter and answer.
THEOREM ReportsAreTrue == Browse!Spec /\ Inspect!Spec => []CatalogTrue
<1>1. Browse!Spec => []BrowseInv
  BY BrowseInit, BrowseStep, PTL DEF Browse!Spec
<1>2. Inspect!Spec => []InspectInv
  BY InspectInit, InspectStep, PTL DEF Inspect!Spec
<1>3. BrowseInv /\ InspectInv => CatalogTrue
  BY BrowseTrue, InspectTrue DEF CatalogTrue
<1> QED
  BY <1>1, <1>2, <1>3, PTL
=============================================================================
