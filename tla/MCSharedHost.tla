----------------------------- MODULE MCSharedHost -----------------------------
(***************************************************************************)
(* Finite instances for TLC of what the processes of one host share:       *)
(* CredentialStorage, the session several of them replace in the database; *)
(* SourceDocuments, the documents they cache in it; and SystemService, the *)
(* vault service they start and stop.  `part` says which of the three a    *)
(* behaviour is of; the others stay in their initial state.                *)
(***************************************************************************)
EXTENDS CredentialStorage, TLC

CONSTANTS Readers, Life, MaxAge, MaxHops, MaxTime, Starts, Stops, Pids, Free, MaxProcs

VARIABLES
  part,
  sites, site, until, now, cache, location, look, work, evictions, ages,
  proc, lock, record, path, start, stop, struck

sourceVars == <<sites, site, until, now, cache, location, look, work, evictions, ages>>

serviceVars == <<proc, lock, record, path, start, stop, struck>>
allVars == <<part, vars, sourceVars, serviceVars>>

-----------------------------------------------------------------------------
(* The sites of SourceDocuments: every answer is fresh for Life unless said *)
(* otherwise, places that are not named are gone.                           *)

Shows(kind, rev) == [kind |-> kind, rev |-> rev, policy |-> "fresh"]

Empty == [u \in {"odp", "x402", "api", "v1", "other", "schema"} |-> Shows("gone", 0)]

Asks(format, refresh, of) == [format |-> format, refresh |-> refresh, of |-> of]

\* Two processes, the first with commands f and the second with commands g.
Both(f, g) == [p \in Readers |-> IF p = CHOOSE q \in Readers : TRUE THEN f ELSE g]

Usual == Asks("openapi", FALSE, "origin")
Native == Asks("auto", FALSE, "origin")

OdpThenConventional ==
  << [Empty EXCEPT !["odp"] = Shows("odpApi", 1), !["other"] = Shows("api", 2)],
     [Empty EXCEPT !["odp"] = [Shows("odp", 2) EXCEPT !.policy = "never"],
                   !["v1"] = Shows("api", 1), !["api"] = Shows("api", 1)] >>

SourceCases ==
  { \* an x402 document that links to an OpenAPI document, then a conventional one that refers to another
    [sites |-> << [Empty EXCEPT !["x402"] = Shows("link", 1), !["other"] = Shows("api", 1)],
                  [Empty EXCEPT !["api"] = Shows("apiRef", 1), !["schema"] = Shows("json", 1)] >>,
     work |-> Both(<<Usual>>, <<Asks("openapi", FALSE, "x402")>>), evictions |-> 0, ages |-> {0}],
    \* a redirected ODP document, which then is none, while other Services fill the cache
    [sites |-> << [Empty EXCEPT !["odp"] = Shows("moved", 3), !["other"] = Shows("odp", 2)],
                  [Empty EXCEPT !["odp"] = Shows("json", 2)] >>,
     work |-> Both(<<Native, Native>>, <<Asks("auto", FALSE, "odp")>>), evictions |-> 1, ages |-> {0}],
    \* an ODP document that stops advertising, with intermediaries and a refresh
    [sites |-> OdpThenConventional,
     work |-> Both(<<Native, Native>>, <<Asks("auto", TRUE, "origin")>>), evictions |-> 0, ages |-> {0, MaxAge}],
    \* and the OpenAPI document it advertised, then two conventional ones
    [sites |-> OdpThenConventional,
     work |-> Both(<<Usual>>, <<Asks("openapi", TRUE, "origin")>>), evictions |-> 0, ages |-> {0}] }

Sources == INSTANCE SourceDocuments WITH Procs <- Readers, Cases <- SourceCases, cmd <- look

Service == INSTANCE SystemService

ASSUME SourcesAssumption == Sources!CasesAssumption /\ Sources!BoundsAssumption
ASSUME ServiceAssumption == Service!BoundsAssumption /\ Service!LockAssumption

-----------------------------------------------------------------------------

PartsInit ==
  /\ Init /\ Sources!Init /\ Service!Init
  /\ \/ part = "credentials" /\ evictions = 1 /\ path = 0
     \/ part = "sources" /\ path = 0
     \/ part = "service" /\ evictions = 1

PartsNext ==
  \/ part = "credentials" /\ Next /\ UNCHANGED <<part, sourceVars, serviceVars>>
  \/ part = "sources" /\ Sources!Next /\ UNCHANGED <<part, vars, serviceVars>>
  \/ part = "service" /\ Service!Next /\ UNCHANGED <<part, vars, sourceVars>>

PartsSpec == PartsInit /\ [][PartsNext]_allVars

\* The credentials alone, with the fairness of their module.
CredentialsInit == PartsInit /\ part = "credentials"

CredentialsSpec == CredentialsInit /\ [][PartsNext]_allVars /\ Fairness

Symmetry == Permutations(Procs) \cup Permutations(Starts)

-----------------------------------------------------------------------------
(* The properties of the parts, stated and explained in their modules.      *)

\* What a discovery answers was so within one lifetime before it began.
AnswersTrue == Sources!AnswersTrue

\* At most one broker listens, where clients find it and under the lock; and a stop
\* signals the service and no other process.
OneServiceStops == Service!OneService /\ Service!StopsService
=============================================================================
