----------------------------- MODULE Inspection -----------------------------
(***************************************************************************)
(* What one `inspect`, `x402 inspect`, `mpp inspect` or `aep inspect`      *)
(* reports of a resource (flows/combined-inspect.ts, x402-inspect.ts, mpp- *)
(* inspect.ts and the commands around them).  SellerRequests is about the  *)
(* requests these commands send and what the seller does with them; here   *)
(* each request has any answer, or none, and the question is what the user *)
(* is told.                                                                *)
(***************************************************************************)
EXTENDS Naturals, FiniteSets

VARIABLES
  target,    \* the command and its filters
  look,      \* how far it is, and what it knows of the Service
  answer,    \* the last answer of the resource
  finding    \* what it reports

vars == <<target, look, answer, finding>>

-----------------------------------------------------------------------------
(* What a seller can say.  "wanted" is what the other filters tell apart:   *)
(* currency and rail, network and asset.                                    *)

Any == "any"

Commands == {"inspect", "x402 inspect", "mpp inspect", "aep inspect"}

Methods == {"inflow", "tempo", "card", "other"}
Intents == {"charge", "subscription"}

Challenges == [method : Methods, intent : Intents, wanted : BOOLEAN]

Offers == [kind : {"plain", "gateway", "permit2", "upto"}, wanted : BOOLEAN]

\* At most two of them: one that a condition is true of and one that it is not.
Few(S) == {{}} \cup {{x, y} : x \in S, y \in S}

Headers(S) == [form : {"absent", "garbled"}, offers : {{}}] \cup [form : {"read"}, offers : Few(S)]

NoHeader == [form |-> "absent", offers |-> {}]

Plain(offer) == {NoHeader, [form |-> "read", offers |-> {offer}]}

\* What a command can see of an answer: the challenges of one protocol, or those of both, which
\* are read apart, without filters.  They come with a 402, and `inspect` reads them in a 401 too.
HeadersSeen(command) ==
  CASE command = "mpp inspect" -> Headers(Challenges) \X {NoHeader}
    [] command = "x402 inspect" -> {NoHeader} \X Headers(Offers)
    [] command = "aep inspect" -> {<<NoHeader, NoHeader>>}
    [] OTHER ->
         (Headers({c \in Challenges : c.wanted}) \X Plain([kind |-> "plain", wanted |-> TRUE]))
         \cup (Plain([method |-> "inflow", intent |-> "charge", wanted |-> TRUE])
               \X Headers({o \in Offers : o.wanted}))

Answers(command) ==
  {[status |-> status, aep |-> aep, mpp |-> NoHeader, x402 |-> NoHeader] :
     status \in {"2xx", "401", "402", "other"}, aep \in BOOLEAN}
  \cup {[status |-> status, aep |-> aep, mpp |-> headers[1], x402 |-> headers[2]] :
          status \in IF command = "inspect" THEN {"401", "402"} ELSE {"402"}, aep \in BOOLEAN,
          headers \in HeadersSeen(command)}

NoAnswer == [status |-> "none", aep |-> FALSE, mpp |-> NoHeader, x402 |-> NoHeader]

Filters(command) ==
  CASE command = "mpp inspect" -> [method : Methods \cup {Any}, intent : Intents \cup {Any}, wanted : BOOLEAN]
    [] command = "x402 inspect" -> [method : {Any}, intent : {Any}, wanted : BOOLEAN]
    [] OTHER -> {[method |-> Any, intent |-> Any, wanted |-> FALSE]}

NoFilter == [method |-> Any, intent |-> Any, wanted |-> FALSE]

-----------------------------------------------------------------------------
(* What is made of an answer.                                               *)

\* filterPayableChallenges()
Payable(challenges) ==
  {c \in challenges : c.method \in {"inflow", "tempo"} \/ (c.method = "card" /\ c.intent = "charge")}

\* filterChallenges()
Matching(challenges, filter) ==
  {c \in challenges : /\ filter.method \in {Any, c.method}
                      /\ filter.intent \in {Any, c.intent}
                      /\ filter.wanted => c.wanted}

\* filterAccepts()
Wanted(offers, filter) == {o \in offers : filter.wanted => o.wanted}

\* excludeUnsupportedAccepts()
Supported(offers) == {o \in offers : o.kind = "plain"}

Unsupported(offers) ==
  IF Supported(offers) # {} \/ offers = {} THEN "no warning"
  ELSE IF \A o \in offers : o.kind = "gateway" THEN "gateway"
  ELSE IF \E o \in offers : o.kind = "gateway" THEN "gateway, permit2 or upto"
  ELSE "permit2 or upto"

\* What is asked for in Accept-Payment, unless the caller says it: what the buyer can pay
\* and the filters let pass, or everything if that is nothing.
Capabilities == {<<"inflow", "charge">>, <<"inflow", "subscription">>, <<"tempo", "charge">>, <<"card", "charge">>}

AcceptPayment(filter) ==
  LET matching == {c \in Capabilities : filter.method \in {Any, c[1]} /\ filter.intent \in {Any, c[2]}}
  IN  IF matching = {} THEN Capabilities ELSE matching

Section(kind, shown) == [kind |-> kind, shown |-> shown]

\* buildMppSection()
MppSection(a) ==
  IF a.mpp.form = "absent" THEN Section("absent", {})
  ELSE IF a.mpp.form = "garbled" THEN Section("error", {})
  ELSE IF Payable(a.mpp.offers) = {} THEN Section("none-inflow", {})
  ELSE Section("challenges", Payable(a.mpp.offers))

\* buildX402Section()
X402Section(a) ==
  CASE a.x402.form = "absent" -> Section("absent", {})
    [] a.x402.form = "garbled" -> Section("error", {})
    [] OTHER -> Section("accepts", Supported(a.x402.offers))

NoFinding ==
  [code |-> "none", status |-> "none", aep |-> "absent", odp |-> "absent",
   mpp |-> Section("absent", {}), x402 |-> Section("absent", {}), warning |-> "no warning"]

Failing(code) == [NoFinding EXCEPT !.code = code]

\* runX402InspectPipeline() on a 402
X402Terms(a, filter) ==
  LET supported == Supported(a.x402.offers)
      shown == Wanted(supported, filter)
  IN  IF a.x402.form = "absent" THEN Failing("invalid 402")
      ELSE IF a.x402.form = "garbled" THEN Failing("decode failed")
      ELSE IF filter # NoFilter /\ shown = {} THEN Failing("no filtered match")
      ELSE [Failing("terms") EXCEPT !.status = a.status, !.x402 = Section("accepts", shown),
                                    !.warning = Unsupported(a.x402.offers)]

\* runMppInspectPipeline() on a 402.  It reads every WWW-Authenticate header; of one that has
\* no challenge for a payment the codec makes nothing, or an error.
MppTerms(a, filter) ==
  LET payable == Payable(a.mpp.offers)
      shown == Matching(payable, filter)
  IN  IF a.mpp.form = "absent" /\ ~a.aep THEN {Failing("invalid 402")}
      ELSE IF a.mpp.form = "absent" THEN {Failing("decode failed"), Failing("no inflow match")}
      ELSE IF a.mpp.form = "garbled" THEN {Failing("decode failed")}
      ELSE IF payable = {} THEN {Failing("no inflow match")}
      ELSE IF filter # NoFilter /\ shown = {} THEN {Failing("no filtered match")}
      ELSE {[Failing("terms") EXCEPT !.status = a.status, !.mpp = Section("challenges", shown)]}

Terms(command, filter, a) ==
  CASE a.status = "2xx" -> {[Failing("no payment required") EXCEPT !.status = a.status]}
    [] a.status # "402" /\ a.status # "2xx" -> {Failing("unexpected status")}
    [] command = "x402 inspect" /\ a.status = "402" -> {X402Terms(a, filter)}
    [] OTHER -> MppTerms(a, filter)

\* detectedProtocols()
Detected(f) ==
  (IF f.odp = "service" THEN {"odp"} ELSE {})
  \cup (IF f.aep # "absent" THEN {"aep"} ELSE {})
  \cup (IF f.mpp.shown # {} THEN {"mpp"} ELSE {})
  \cup (IF f.x402.shown # {} THEN {"x402"} ELSE {})

\* paymentSummary()
Row(f, section) ==
  CASE f.aep = "blocked" -> "unknown until authenticated"
    [] f.aep # "blocked" /\ f.code = "no payment required" -> "payment not required"
    [] f.aep # "blocked" /\ f.code = "inspected" ->
         CASE section.kind = "absent" -> "no live challenge"
           [] section.kind = "error" -> "could not be decoded"
           [] section.kind = "none-inflow" -> "unsupported method"
           [] OTHER -> "payment required"
    [] OTHER -> "no row"

\* odpSummary()
OdpRow(f) ==
  CASE f.odp = "service" -> "catalog available" [] f.odp = "error" -> "catalog unknown" [] OTHER -> "catalog unavailable"

\* aepSummary()
AepRow(f) ==
  IF f.aep \in {"absent", "discovered", "openapi public"} THEN "authentication not required" ELSE "authentication required"

\* aepFrame()
AuthenticationRequired(f) == f.aep \in {"openapi required", "blocked", "service", "error"}

\* The warning of buildCombinedFrame() that names the status.
SaysNothingIn402(f) ==
  f.code = "inspected" /\ f.aep = "absent" /\ f.mpp.kind = "absent" /\ f.x402.kind = "absent"

-----------------------------------------------------------------------------
(* The command.                                                             *)

Init ==
  /\ \E command \in Commands :
       \E filter \in Filters(command) : target = [command |-> command, filter |-> filter]
  /\ look = [at |-> "input", policy |-> "unknown", over |-> "nobody", own |-> FALSE]
  /\ answer = NoAnswer
  /\ finding = NoFinding

Goto(at) == look' = [look EXCEPT !.at = at]

End(f) == Goto("ended") /\ finding' = f /\ UNCHANGED answer

\* How the URL is taken.  A document is one by its name, asked for without anything else; the
\* document of an origin is looked for when nothing but its root is asked for.
Pages == [name : {"document", "root", "did", "other"}, get : BOOLEAN, headers : {"none", "accept", "identity", "malformed"},
          refresh : BOOLEAN]

IsDocument(page) == page.name = "document" /\ page.get /\ page.headers = "none"

IsOrigin(page) == page.name = "root" /\ page.get

\* createInspectCommand() up to the pipeline.  The vault may have to be opened first, and the
\* origin's documents are read, whatever comes of it, before the headers are looked at.
Begin(page) ==
  /\ look.at = "input" /\ target.command = "inspect" /\ page.name # "did"
  /\ IF IsDocument(page) THEN Goto("document") /\ UNCHANGED <<answer, finding>>
     ELSE IF page.refresh /\ ~IsOrigin(page) THEN End(Failing("refresh requires document"))
     ELSE \/ End(Failing("vault"))
          \/ IF page.headers = "malformed" THEN End(Failing("invalid header"))
             ELSE /\ look' = [look EXCEPT !.at = "service", !.own = page.headers = "accept"]
                  /\ UNCHANGED <<answer, finding>>
  /\ UNCHANGED target

\* runInspect() of aep: the Service is looked at first, and says that it is none with a 404.  Of
\* a Service that is named by its DID no resource is looked at.
BeginAep(page) ==
  /\ look.at = "input" /\ target.command = "aep inspect"
  /\ page.name \in {"did", "other"} /\ ~page.refresh
  /\ \/ \E code \in {"not advertised", "inspect failed"} : End(Failing(code))
     \/ IF page.name = "did" THEN End([Failing("advertised") EXCEPT !.aep = "not checked"])
        ELSE IF page.headers = "malformed" THEN End(Failing("invalid header"))
        ELSE /\ \E policy \in {"unknown", "required", "fallback", "public"} :
                  look' = [look EXCEPT !.policy = policy,
                                       !.at = IF policy \in {"required", "public"} THEN "policy" ELSE "resource"]
             /\ UNCHANGED <<answer, finding>>
  /\ UNCHANGED target

\* The commands that are about the terms of one protocol.
ForTerms == target.command \in {"x402 inspect", "mpp inspect"}

\* runInspectCommand() of x402 and mpp, and the beginning of the probe.
BeginTerms(page) ==
  /\ look.at = "input" /\ ForTerms
  /\ page.name = "other" /\ page.get /\ ~page.refresh
  /\ IF page.headers = "malformed" THEN End(Failing("invalid header"))
     ELSE IF page.headers = "identity" THEN End(Failing("inspect failed"))
     ELSE /\ look' = [look EXCEPT !.at = "service", !.own = page.headers = "accept"]
          /\ UNCHANGED <<answer, finding>>
  /\ UNCHANGED target

\* inspectDocument(): a document that says that its Service enrolls agents is completed with
\* what the Service says, if that can be read.
ReadDocument ==
  /\ look.at = "document"
  /\ \E warning \in {"no warning", "documents unavailable"} :
       \/ End([Failing("document inspected") EXCEPT !.warning = warning])
       \/ warning = "no warning" /\ End(Failing("document failed"))
  /\ UNCHANGED target

\* inspectAep() and inspectAepPolicy(): a failure of either leaves the plain probe.  What the
\* policy is when it does not require authentication, only `inspect` looks at.
LookAtService ==
  /\ look.at = "service"
  /\ \E policy \in {"unknown", "required"} \cup (IF target.command = "inspect" THEN {"fallback", "public"} ELSE {}) :
       look' = [look EXCEPT !.policy = policy, !.at = IF policy = "required" THEN "stored" ELSE "resource"]
  /\ UNCHANGED <<target, answer, finding>>

Blocked == [Failing("blocked") EXCEPT !.aep = "blocked"]

\* Of a failure of `x402 inspect` and `mpp inspect` a closed vault is told apart.
FailureCodes == IF target.command = "inspect" THEN {"inspect failed"} ELSE {"inspect failed", "vault"}

\* The resource answers, or the request fails.
Hear(over) == \E a \in Answers(target.command) : answer' = a /\ look' = [look EXCEPT !.at = "heard", !.over = over]

\* Without a stored credential that can be used, nothing is sent.  `inspect` takes every
\* failure for that; for the others the failure of the request is one.
AskAsAgent ==
  /\ look.at = "stored"
  /\ \/ Hear("agent") /\ UNCHANGED finding
     \/ Goto("blocked") /\ UNCHANGED <<answer, finding>>
     \/ /\ target.command # "inspect"
        /\ \E code \in FailureCodes : End(Failing(code))
  /\ UNCHANGED target

AskAnonymously ==
  /\ look.at = "resource"
  /\ \/ Hear("nobody") /\ UNCHANGED finding
     \/ \E code \in FailureCodes : End(Failing(code))
  /\ UNCHANGED target

\* createAepAwareInspectProbe(): a challenge leads to a second request, if the Service is the
\* one that it names; a credential that is rejected blocks.
Challenged ==
  /\ look.at = "heard" /\ ForTerms /\ answer.aep /\ look.over = "nobody"
  /\ answer.status = "401"
  /\ \/ Goto("stored") /\ UNCHANGED <<answer, finding>>
     \/ \E code \in FailureCodes : End(Failing(code))
  /\ UNCHANGED target

Rejected ==
  /\ look.at = "heard" /\ ForTerms /\ answer.status = "401" /\ look.over = "agent"
  /\ End(Blocked)
  /\ UNCHANGED target

ReportBlocked ==
  /\ look.at = "blocked" /\ ForTerms
  /\ End(Blocked)
  /\ UNCHANGED target

ReportTerms ==
  /\ look.at = "heard" /\ ForTerms
  /\ answer.status # "401" \/ (look.over = "nobody" /\ ~answer.aep)
  /\ \E f \in Terms(target.command, target.filter, answer) : End(f)
  /\ UNCHANGED target

\* buildAepSection(): the Service is asked for after a challenge, if it was not before.
AepSections ==
  CASE look.over = "agent" -> {"openapi required"}
    [] look.over = "nobody" /\ answer.aep -> IF look.policy = "unknown" THEN {"service", "error"} ELSE {"service"}
    [] OTHER -> {IF look.policy = "unknown" THEN "absent"
                 ELSE IF look.policy = "public" THEN "openapi public" ELSE "discovered"}

\* buildOdpSection(): whatever the Service answers when it is asked for its catalog.
OdpSections == {"absent", "service", "error"}

\* runCombinedInspectPipeline() after the answer, or without one.  The catalog was asked for
\* at the beginning and is waited for now.
ReportInspected ==
  /\ target.command = "inspect"
  /\ \E odp \in OdpSections :
       \/ look.at = "blocked" /\ End([Failing("inspected") EXCEPT !.aep = "blocked", !.odp = odp])
       \/ /\ look.at = "heard"
          /\ \E aep \in AepSections :
               LET f == [NoFinding EXCEPT !.status = answer.status, !.aep = aep, !.odp = odp]
               IN  IF look.over = "agent" \/ answer.status = "402" \/ (answer.status = "401" /\ aep # "absent")
                   THEN End([f EXCEPT !.code = "inspected", !.mpp = MppSection(answer), !.x402 = X402Section(answer),
                                      !.warning = Unsupported(answer.x402.offers)])
                   ELSE IF answer.status = "2xx" THEN End([f EXCEPT !.code = "no payment required"])
                   ELSE End(Failing("unexpected status"))
  /\ UNCHANGED target

\* runInspect() of aep, of the policy or of the answer: whatever is no 401 is taken for an
\* answer without authentication.
ReportAep ==
  /\ target.command = "aep inspect"
  /\ \/ /\ look.at = "policy"
        /\ End([Failing("advertised") EXCEPT !.aep =
                  IF look.policy = "required" THEN "authenticatable" ELSE "not required"])
     \/ /\ look.at = "heard"
        /\ End([Failing("advertised") EXCEPT !.status = answer.status,
                                             !.aep = IF answer.status # "401" THEN "not required"
                                                     ELSE IF answer.aep THEN "authenticatable" ELSE "other"])
  /\ UNCHANGED target

Next ==
  \/ \E page \in Pages : Begin(page) \/ BeginTerms(page) \/ BeginAep(page)
  \/ ReadDocument \/ LookAtService \/ AskAsAgent \/ AskAnonymously \/ Challenged \/ Rejected
  \/ ReportBlocked \/ ReportTerms \/ ReportInspected \/ ReportAep

Spec == Init /\ [][Next]_vars

TypeOK ==
  /\ target.command \in Commands /\ target.filter \in Filters(target.command)
  /\ look.at \in {"input", "document", "service", "stored", "blocked", "resource", "policy", "heard", "ended"}
  /\ look.policy \in {"unknown", "required", "fallback", "public"}
  /\ look.over \in {"nobody", "agent"} /\ look.own \in BOOLEAN
  /\ answer \in Answers(target.command) \cup {NoAnswer}
  /\ DOMAIN finding = DOMAIN NoFinding

-----------------------------------------------------------------------------
(* Properties.                                                              *)

\* What `inspect` finds in an answer without a credential is what the command of the
\* protocol reports of it without filters.
CommandsAgree ==
  finding.code = "inspected" /\ look.over = "nobody" /\ answer.status = "402" =>
    /\ "x402" \in Detected(finding) <=>
         X402Terms(answer, NoFilter).code = "terms" /\ X402Terms(answer, NoFilter).x402.shown # {}
    /\ "mpp" \in Detected(finding) <=> \E f \in MppTerms(answer, NoFilter) : f.code = "terms"
    /\ \A f \in MppTerms(answer, NoFilter) : f.code = "terms" => f.mpp.shown = finding.mpp.shown

\* The reports for people and for agents agree on what is to be paid, except for x402 terms
\* of which nothing is supported: a payment is required that is not detected.
FormsAgree ==
  finding.code = "inspected" =>
    /\ OdpRow(finding) = "catalog available" <=> "odp" \in Detected(finding)
    /\ AepRow(finding) = "authentication required" <=> AuthenticationRequired(finding)
    /\ Row(finding, finding.mpp) = "payment required" <=> "mpp" \in Detected(finding)
    /\ "x402" \in Detected(finding) => Row(finding, finding.x402) = "payment required"
    /\ Row(finding, finding.x402) = "payment required" /\ "x402" \notin Detected(finding) =>
         \A o \in answer.x402.offers : o.kind # "plain"

\* The seller was asked for everything that is shown, except where the buyer takes more than
\* it asks for, a subscription with tempo; or the caller asked in its place.
ShownWasAskedFor ==
  ~look.own => \A c \in finding.mpp.shown :
    <<c.method, c.intent>> \in AcceptPayment(target.filter) \/ <<c.method, c.intent>> = <<"tempo", "subscription">>

\* Authentication is said not to be required only when the resource answered without it, not
\* with a challenge of AEP.  A 401 without one is such an answer if there is a Service.
NotRequiredTrue ==
  finding.code \in {"inspected", "no payment required"} /\ target.command = "inspect" /\ ~AuthenticationRequired(finding) =>
    /\ look.over = "nobody" /\ answer.status # "none" /\ ~answer.aep
    /\ answer.status = "401" => look.policy \in {"fallback", "public"}

\* `aep inspect` says of a resource that answers 401 what `inspect` would say of it, and
\* that no authentication is required only if the resource or its document says so, or
\* answers anything else: also with an error, of which `inspect` reports nothing.
AepTrue ==
  finding.code = "advertised" =>
    /\ answer.status = "401" =>
         (finding.aep = "authenticatable" <=> \A x \in AepSections : x \in {"service", "error"})
    /\ finding.aep = "authenticatable" => look.policy = "required" \/ answer.aep
    /\ finding.aep = "not required" => look.policy = "public" \/ answer.status \in {"2xx", "402", "other"}

\* Blocked is what could not be asked, or was answered with a 401; nothing is said of terms
\* then, and a resource that is known to require authentication is not asked without.
BlockedTrue ==
  finding.aep = "blocked" =>
    /\ answer.status \in {"none", "401"}
    /\ look.policy = "required" => look.over # "nobody" \/ answer = NoAnswer
    /\ finding.mpp.shown = {} /\ finding.x402.shown = {} /\ finding.status = "none"

\* Terms are of an answer, the last one; of 402 is spoken after a 402 only; and a failure
\* to inspect means that the resource did not answer, or that its challenge led nowhere.
ReportOfAnswer ==
  /\ finding.status # "none" => finding.status = answer.status
  /\ SaysNothingIn402(finding) => answer.status = "402"
  /\ finding.code \in {"invalid 402", "terms"} => answer.status = "402"
  /\ finding.code \in {"inspect failed", "vault"} => answer = NoAnswer \/ (answer.aep /\ answer.status = "401")

InspectionTrue ==
  look.at = "ended" => /\ CommandsAgree /\ FormsAgree /\ ShownWasAskedFor
                       /\ NotRequiredTrue /\ AepTrue /\ BlockedTrue /\ ReportOfAnswer
=============================================================================
