--------------------------- MODULE SourceDocuments ---------------------------
(***************************************************************************)
(* How the openapi and odp commands find and keep the public documents of  *)
(* a Service: documents with their HTTP freshness and revalidation         *)
(* (openapi/documents.ts), discovery of the one that describes the         *)
(* Service and the memory of where it was (openapi/discovery.ts), both in  *)
(* the SQLite cache all processes share (openapi/cache.ts).                *)
(*                                                                         *)
(* The origin serves one version of its site after another.  A tick of     *)
(* the clock is the limit of one retrieval (15 seconds) or more.           *)
(***************************************************************************)
EXTENDS Naturals, Sequences, FiniteSets

CONSTANTS
  Procs,        \* processes
  Cases,         \* what the origin serves, a sequence of sites, and the commands of each process
  Life,         \* max-age, and the 600 seconds of a location
  MaxAge,       \* the age of what an intermediary may answer
  MaxHops,      \* redirects followed
  MaxTime       \* bound on the clock

\* The well-known places of the origin, the conventional ones, a document that
\* others advertise, and one that others refer to.
Places == {"odp", "x402", "api", "v1", "other", "schema"}

\* "odpApi" is an ODP document that advertises an OpenAPI document, "link" an
\* x402 document that does, "apiRef" an OpenAPI document that refers to another.
Kinds == {"gone", "error", "moved", "odp", "odpApi", "link", "api", "apiRef", "json"}

\* "fresh" is a max-age of Life, "stale" is no-cache, "never" is no-store.
Representation == [kind : Kinds, rev : Nat, policy : {"fresh", "stale", "never"}]

\* An inspection: of the origin itself, or of the exact URL of a document.
Requests == [format : {"auto", "openapi"}, refresh : BOOLEAN, of : Places \cup {"origin"}]

CasesAssumption ==
  \A x \in Cases :
    /\ x.sites # <<>> /\ x.sites \in Seq([Places -> Representation])
    /\ x.work \in [Procs -> Seq(Requests)]
    /\ x.evictions \in Nat /\ x.ages \in {{0}, {0, MaxAge}}
    /\ \A u \in Places, s, t \in DOMAIN x.sites : x.sites[s][u].rev = x.sites[t][u].rev => x.sites[s][u] = x.sites[t][u]

\* An intermediary answers with what was fresh when it was last asked.
BoundsAssumption ==
  Life \in Nat /\ MaxAge \in Nat /\ MaxAge <= Life + 1 /\ MaxHops \in Nat /\ MaxTime \in Nat

VARIABLES
  sites,      \* the history of the origin
  site,       \* the version it serves
  until,      \* when each earlier version ended
  now,        \* the clock
  cache,      \* row of each document
  location,   \* row of each format's location
  cmd,        \* the command of each process
  work,       \* the commands each process has to run
  evictions,  \* how many rows are deleted for documents of other origins
  ages        \* whether there are intermediaries

origin == <<sites, site, until>>
bounds == <<work, evictions, ages>>
vars == <<origin, now, cache, location, cmd, bounds>>

NoRow == [kind |-> "none", rev |-> 0, policy |-> "never", final |-> "odp", expires |-> 0]
NoLocation == [type |-> "none", candidates |-> {}, expires |-> 0]

Odp == {"odp", "odpApi"}
Api == {"api", "apiRef"}

\* One discovery: "step" says what the document under way is for, "reading" is
\* an OpenAPI document whose references are being read.
NoCommand ==
  [at |-> "idle", format |-> "auto", refresh |-> FALSE, began |-> 0, step |-> "none",
   source |-> "odp", url |-> "odp", hops |-> 0, row |-> NoRow, reply |-> NoRow, limit |-> 0,
   keep |-> TRUE, expires |-> 0, found |-> {}, reading |-> NoRow,
   type |-> "none", candidates |-> {}]

Init ==
  /\ \E x \in Cases : sites = x.sites /\ work = x.work /\ evictions = x.evictions /\ ages = x.ages
  /\ site = 1 /\ until = [s \in DOMAIN sites |-> 0]
  /\ now = 0
  /\ cache = [u \in Places |-> NoRow]
  /\ location = [f \in {"auto", "openapi"} |-> NoLocation]
  /\ cmd = [p \in Procs |-> NoCommand]

Become(p, c) == cmd' = [cmd EXCEPT ![p] = c]

-----------------------------------------------------------------------------
(* What a command does with a document: the next one it asks for, or its    *)
(* end.  An error ends it without a result.                                 *)

\* PublicSourceDocuments.get is called for a place.
Get(c, step, place) ==
  [c EXCEPT !.at = "look", !.step = step, !.source = place, !.url = place, !.hops = 0,
            !.row = NoRow, !.reply = NoRow, !.limit = 0]

\* The result is remembered before it is given; an exact URL's is not.
Found(c, type, candidates) ==
  [c EXCEPT !.at = IF c.step \in {"exact", "linked", "located"} THEN "done" ELSE "remember",
            !.type = type, !.candidates = candidates,
            !.source = "odp", !.url = "odp", !.hops = 0, !.row = NoRow, !.reply = NoRow, !.limit = 0]

\* readOpenApi: anything but an OpenAPI document fails, references are read.
Read(c, doc, candidates) ==
  IF doc.kind \notin Api THEN NoCommand
  ELSE IF doc.kind = "apiRef"
       THEN [Get(c, "reference", "schema") EXCEPT !.reading = doc, !.candidates = candidates, !.found = {c.step}]
       ELSE Found([c EXCEPT !.reading = doc], "openapi", candidates)

Evidence(c, doc) ==
  [c EXCEPT !.keep = @ /\ doc.policy # "never", !.expires = IF doc.expires < @ THEN doc.expires ELSE @]

\* After both conventional places: one OpenAPI document, none, or two.
Choose(c) ==
  CASE c.found = {} -> NoCommand
    [] c.found = {"api", "v1"} -> Found(c, "ambiguous", c.found)
    [] OTHER -> Read(c, c.reading, c.found)

Conventional(c, doc) ==
  IF doc.kind \in Api THEN [c EXCEPT !.found = @ \cup {c.step}, !.reading = doc] ELSE c

Continue(c, doc) ==
  LET e == Evidence(c, doc) IN
  CASE c.step = "native" /\ doc.kind = "gone" -> Get(e, "x402", "x402")
    [] c.step = "native" /\ doc.kind \notin Odp \cup {"gone"} -> NoCommand
    [] c.step = "native" /\ doc.kind \in Odp ->
         IF c.format = "auto" THEN Found([e EXCEPT !.reading = doc], "odp", {"odp"})
         ELSE IF doc.kind = "odpApi" THEN Get(e, "advertised", "other")
         ELSE Get(e, "x402", "x402")
    [] c.step = "x402" ->
         IF doc.kind = "link" THEN Get(e, "advertised", "other") ELSE Get(e, "api", "api")
    [] c.step = "api" -> Get(Conventional(e, doc), "v1", "v1")
    [] c.step = "v1" -> Choose(Conventional(e, doc))
    [] c.step = "advertised" -> Read(e, doc, {"other"})
    [] c.step = "reference" ->
         IF doc.kind = "gone" THEN NoCommand
         ELSE Found([c EXCEPT !.step = CHOOSE s \in c.found : TRUE], "openapi", c.candidates)
    [] c.step = "exact" ->
         IF doc.kind \in Odp /\ c.format = "auto" THEN Found([c EXCEPT !.reading = doc], "odp", {c.source})
         ELSE IF c.source = "x402" /\ doc.kind = "link" THEN Get(c, "linked", "other")
         ELSE Read(c, doc, {c.source})
    [] c.step = "linked" -> Read(c, doc, {"other"})
    [] c.step = "located" ->
         IF c.type = "odp"
         THEN IF doc.kind \in Odp THEN Found([c EXCEPT !.reading = doc], "odp", c.candidates) ELSE NoCommand
         ELSE Read(c, doc, c.candidates)

-----------------------------------------------------------------------------
(* SourceDiscovery.inspect.                                                 *)

Begin(p) ==
  /\ cmd[p].at = "idle" /\ work[p] # <<>>
  /\ work' = [work EXCEPT ![p] = Tail(@)]
  /\ LET r == Head(work[p])
         c == [NoCommand EXCEPT !.format = r.format, !.refresh = r.refresh, !.began = now, !.expires = MaxTime + Life] IN
     Become(p, IF r.of = "origin" THEN [c EXCEPT !.at = "location"] ELSE Get(c, "exact", r.of))
  /\ UNCHANGED <<origin, now, cache, location, evictions, ages>>

\* A location is used while it lasts.
Remembers(c) == ~c.refresh /\ location[c.format].expires > now

ReadLocation(p) ==
  LET c == cmd[p]
      l == location[c.format] IN
  /\ c.at = "location"
  /\ Become(p, IF ~Remembers(c) THEN [c EXCEPT !.at = "forget"]
               ELSE IF Cardinality(l.candidates) > 1 THEN Found([c EXCEPT !.step = "located"], "ambiguous", l.candidates)
               ELSE Get([c EXCEPT !.type = l.type, !.candidates = l.candidates], "located",
                        CHOOSE u \in l.candidates : TRUE))
  /\ UNCHANGED <<origin, now, cache, location, bounds>>

ForgetLocation(p) ==
  /\ cmd[p].at = "forget"
  /\ location' = [location EXCEPT ![cmd[p].format] = NoLocation]
  /\ Become(p, Get(cmd[p], "native", "odp"))
  /\ UNCHANGED <<origin, now, cache, bounds>>

\* At most ten minutes, and no longer than any document it was found with.
Lasts(c) == IF c.expires < now + Life THEN c.expires ELSE now + Life

Remember(p) ==
  LET c == cmd[p] IN
  /\ c.at = "remember"
  /\ location' = IF c.keep /\ Lasts(c) > now
                 THEN [location EXCEPT ![c.format] = [type |-> IF c.type = "odp" THEN "odp" ELSE "openapi",
                                                      candidates |-> c.candidates, expires |-> Lasts(c)]]
                 ELSE location
  /\ Become(p, [c EXCEPT !.at = "done", !.keep = TRUE, !.expires = 0])
  /\ UNCHANGED <<origin, now, cache, bounds>>

-----------------------------------------------------------------------------
(* PublicSourceDocuments.get.                                               *)

\* A fresh row answers; otherwise the origin is asked, within a limit.
Look(p) ==
  LET c == cmd[p]
      row == cache[c.source] IN
  /\ c.at = "look"
  /\ Become(p, IF row.expires > now /\ ~c.refresh THEN Continue(c, row)
               ELSE [c EXCEPT !.at = "ask", !.row = row, !.limit = now + 1])
  /\ UNCHANGED <<origin, now, cache, location, bounds>>

Ended(s) == IF s = site THEN now ELSE until[s]

\* If-None-Match is sent where the row was found (cached.finalUrl === url.href).
Validators(c) == c.row.final = c.url

\* The origin or an intermediary answers with what was so at most MaxAge ago.
\* A representation whose entity tag is the row's is not sent again.
Ask(p) ==
  LET c == cmd[p] IN
  /\ c.at = "ask" /\ now <= c.limit
  /\ \E age \in ages, s \in 1..site :
       LET r == sites[s][c.url] IN
       /\ Ended(s) + age >= now
       /\ Become(p,
            CASE r.kind = "error" -> NoCommand
              [] r.kind = "moved" ->
                   IF c.hops < MaxHops THEN [c EXCEPT !.url = "other", !.hops = @ + 1] ELSE NoCommand
              [] OTHER ->
                   [c EXCEPT !.at = "store", !.row = NoRow,
                             !.reply = [kind |-> IF c.row.kind # "none" /\ Validators(c) /\ c.row.rev = r.rev
                                                 THEN c.row.kind ELSE r.kind,
                                        rev |-> r.rev, policy |-> r.policy, final |-> c.url, expires |-> age]])
  /\ UNCHANGED <<origin, now, cache, location, bounds>>

\* Mistake: the age of an answer is not counted.
AgelessFreshness(policy, age) == IF policy = "fresh" THEN now + Life ELSE now

Freshness(policy, age) == IF policy = "fresh" /\ age < Life THEN now + (Life - age) ELSE now

\* The answer is complete: it is kept unless it may not be, or is a 404.
Store(p) ==
  LET c == cmd[p]
      doc == [c.reply EXCEPT !.expires = Freshness(c.reply.policy, c.reply.expires)] IN
  /\ c.at = "store" /\ now <= c.limit
  /\ cache' = [cache EXCEPT ![c.source] = IF doc.kind = "gone" \/ doc.policy = "never" THEN NoRow ELSE doc]
  /\ Become(p, Continue(c, doc))
  /\ UNCHANGED <<origin, now, location, bounds>>

\* The request fails, or its limit passes.
Fail(p) ==
  /\ cmd[p].at \in {"ask", "store"}
  /\ Become(p, NoCommand)
  /\ UNCHANGED <<origin, now, cache, location, bounds>>

\* The result is given, and the process ends.
Answer(p) ==
  /\ cmd[p].at = "done"
  /\ Become(p, NoCommand)
  /\ UNCHANGED <<origin, now, cache, location, bounds>>

-----------------------------------------------------------------------------
(* The origin, the clock, and other Services that fill the cache.           *)

Change ==
  /\ site < Len(sites)
  /\ until' = [until EXCEPT ![site] = now]
  /\ site' = site + 1
  /\ UNCHANGED <<sites, now, cache, location, cmd, bounds>>

Tick ==
  /\ now < MaxTime
  /\ now' = now + 1
  /\ UNCHANGED <<origin, cache, location, cmd, bounds>>

\* More than 128 documents or 32 MiB: the oldest rows are deleted.
Evict ==
  /\ evictions > 0 /\ evictions' = evictions - 1
  /\ \E u \in Places : cache[u] # NoRow /\ cache' = [cache EXCEPT ![u] = NoRow]
  /\ UNCHANGED <<origin, now, location, cmd, work, ages>>

Step(p) ==
  \/ Begin(p) \/ ReadLocation(p) \/ ForgetLocation(p) \/ Remember(p)
  \/ Look(p) \/ Ask(p) \/ Store(p) \/ Fail(p) \/ Answer(p)

Next == Change \/ Tick \/ Evict \/ \E p \in Procs : Step(p)

Spec == Init /\ [][Next]_vars

-----------------------------------------------------------------------------
(* Properties.                                                              *)

Oldest == CHOOSE a \in ages : \A b \in ages : b <= a

\* At some time since t the place, or where it redirects to, was of a kind.  The age of a
\* redirect is not counted: it may be of an intermediary, and older by as much.
Was(place, kinds, t) ==
  \/ \E s \in 1..site : Ended(s) >= t /\ sites[s][place].kind \in kinds
  \/ /\ \E s \in 1..site : Ended(s) + Oldest >= t /\ sites[s][place].kind = "moved"
     /\ \E o \in 1..site : Ended(o) >= t /\ sites[o]["other"].kind \in kinds

\* Every document that led to a location was there at some time since t.
Led(format, type, candidates, t) ==
  IF type = "odp" THEN Was("odp", Odp, t)
  ELSE IF candidates = {"other"}
  THEN \/ format = "openapi" /\ Was("odp", {"odpApi"}, t)
       \/ Was("odp", {"gone"} \cup IF format = "openapi" THEN {"odp"} ELSE {}, t) /\ Was("x402", {"link"}, t)
  ELSE /\ Was("odp", {"gone"} \cup IF format = "openapi" THEN {"odp"} ELSE {}, t)
       /\ Was("x402", Kinds \ {"link", "moved", "error"}, t)
       /\ \A u \in {"api", "v1"} :
            Was(u, IF u \in candidates THEN Api ELSE Kinds \ (Api \cup {"moved", "error"}), t)

\* The document that is given was there at some time since t.
Shown(c, t) ==
  c.type # "ambiguous" =>
    \E s \in 1..site : LET r == sites[s][c.reading.final] IN
      Ended(s) >= t /\ r.kind = c.reading.kind /\ r.rev = c.reading.rev

\* How long before a command began what it answers may have been replaced.
Slack(c) == IF c.refresh THEN Oldest ELSE Life + 1

\* A command may answer from two caches, its own and intermediaries', and from
\* documents fetched at different times by other processes.  What it answers,
\* and each document that led to it, was served by the origin within one
\* lifetime before the command began, give or take one retrieval; and when the
\* user asked for a refresh, it is what an origin or intermediary answered to
\* this command.
AnswersTrue ==
  \A p \in Procs : LET c == cmd[p]
                      t == IF c.began > Slack(c) THEN c.began - Slack(c) ELSE 0 IN
    c.at = "done" => Shown(c, t) /\ (c.step \in {"exact", "linked"} \/ Led(c.format, c.type, c.candidates, t))
=============================================================================
