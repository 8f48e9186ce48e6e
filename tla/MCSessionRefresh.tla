--------------------------- MODULE MCSessionRefresh ---------------------------
(***************************************************************************)
(* Finite instances for TLC of SessionRefresh, the requests of a command   *)
(* to InFlow; of the other commands of CommandParts; and of OpenApiCalls,   *)
(* one call of an operation.  `part` says which of them a behaviour is of;  *)
(* the others stay in an initial state.                                    *)
(***************************************************************************)
EXTENDS SessionRefresh, CommandParts, OpenApiCases, TLC

CONSTANTS p1, p2, a, b, MaxDepth

VARIABLES part, case, call, sent, performed

OneProcess == a :> p1 @@ b :> p1
TwoProcesses == a :> p1 @@ b :> p2
SharedOrSeparate == {OneProcess, TwoProcesses}

Calls == INSTANCE OpenApiCalls WITH Cases <- MCCases, Components <- MCComponents

purchaseVars == <<purchase, tx, card, served, cmd, ended, commands>>

errandVars == <<seller, access, approval, errand, changes>>

watchVars == <<watched, watch, seen, shown, file, cancel, moves>>

callVars == <<case, call, sent, performed>>

browseVars == <<input, offered, browse, questions, happened>>

signInVars == <<settings, secrets, owners, todo, inquiry, last, vault, counts>>

inspectVars == <<target, look, answer, finding>>

approveVars == <<task, approvals, service, agents>>

allVars == <<part, vars, purchaseVars, errandVars, watchVars, callVars, browseVars, signInVars, inspectVars, approveVars>>

PartsInit ==
  /\ part \in {"requests", "purchase", "errands", "status", "call", "catalog", "sign-in", "inspection", "approvals"}
  /\ Init /\ (part = "requests" \/ home = OneProcess)
  /\ Purchase!Init /\ (part = "purchase" \/ purchase = CHOOSE x \in Purchase!Purchases : TRUE)
  /\ Errands!Init /\ (part = "errands" \/ <<seller, access, errand>> = CHOOSE x \in Errands!Beginnings : TRUE)
  /\ Status!Init
  /\ part = "status" \/ Status!options = CHOOSE x \in Status!Commands : x.waits /\ x.attempts = 0 /\ x.deadline = "never"
  /\ Browse!Init /\ (part = "catalog" \/ <<input, offered>> = <<[command |-> "inspect", options |-> {}], {}>>)
  /\ SignIn!Init /\ (part = "sign-in" \/ (settings = SignIn!NoRead /\ inquiry.source = "session"))
  /\ Inspect!Init /\ (part = "inspection" \/ target = [command |-> "inspect", filter |-> Inspect!NoFilter])
  /\ Approve!Init /\ (part = "approvals" \/ <<task, service, agents>> = CHOOSE x \in Approve!Beginnings : TRUE)
  /\ IF part = "call" THEN Calls!Init ELSE Calls!InitWith(AnyCase)

PartsNext ==
  \/ part = "requests" /\ Next /\ UNCHANGED <<part, purchaseVars, errandVars, watchVars, callVars, browseVars, signInVars, inspectVars, approveVars>>
  \/ part = "purchase" /\ Purchase!Next /\ UNCHANGED <<part, vars, errandVars, watchVars, callVars, browseVars, signInVars, inspectVars, approveVars>>
  \/ part = "errands" /\ Errands!Next /\ UNCHANGED <<part, vars, purchaseVars, watchVars, callVars, browseVars, signInVars, inspectVars, approveVars>>
  \/ part = "status" /\ Status!Next /\ UNCHANGED <<part, vars, purchaseVars, errandVars, callVars, browseVars, signInVars, inspectVars, approveVars>>
  \/ part = "call" /\ Calls!Next /\ UNCHANGED <<part, vars, purchaseVars, errandVars, watchVars, browseVars, signInVars, inspectVars, approveVars>>
  \/ part = "catalog" /\ Browse!Next /\ UNCHANGED <<part, vars, purchaseVars, errandVars, watchVars, callVars, signInVars, inspectVars, approveVars>>
  \/ part = "sign-in" /\ SignIn!Next /\ UNCHANGED <<part, vars, purchaseVars, errandVars, watchVars, callVars, browseVars, inspectVars, approveVars>>
  \/ part = "inspection" /\ Inspect!Next
     /\ UNCHANGED <<part, vars, purchaseVars, errandVars, watchVars, callVars, browseVars, signInVars, approveVars>>
  \/ part = "approvals" /\ Approve!Next
     /\ UNCHANGED <<part, vars, purchaseVars, errandVars, watchVars, callVars, browseVars, signInVars, inspectVars>>

\* Of the steps that the fairness of each module is about, one is taken if one can be: less
\* than what the modules state of each request, refresh and command, and enough.
PartsFairness ==
  WF_allVars(\/ /\ part = "requests"
                /\ \/ \E c \in Requests : Provide(c) \/ Deliver(c)
                   \/ \E p \in Procs, s \in Sessions : Refresh(p, s)
                /\ UNCHANGED <<part, purchaseVars, errandVars, watchVars, callVars, browseVars, signInVars, inspectVars, approveVars>>
             \/ /\ part = "purchase" /\ Purchase!Progress
                /\ UNCHANGED <<part, vars, errandVars, watchVars, callVars, browseVars, signInVars, inspectVars, approveVars>>
             \/ /\ part = "status" /\ Status!Progress
                /\ UNCHANGED <<part, vars, purchaseVars, errandVars, callVars, browseVars, signInVars, inspectVars, approveVars>>)

PartsSpec == PartsInit /\ [][PartsNext]_allVars /\ PartsFairness

-----------------------------------------------------------------------------
(* Properties of the instances, stated and explained there.                 *)

\* What a schema is known to refuse is refused and nothing else, and a call of an operation
\* is sent once, with every input in its place, and shown without its credentials.
CallSound == Calls!ChecksSound /\ Calls!CallTrue

\* Every request ends, every command of the purchase ends, and every status command that
\* has a bound of its own.  The parts that do not run are over, so one formula says it of
\* all of them.
RequestsAndCommandsEnd == []<>(RequestsOver /\ Purchase!At("idle") /\ Status!WatchOver)
=============================================================================
