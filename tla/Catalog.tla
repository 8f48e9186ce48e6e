------------------------------- MODULE Catalog -------------------------------
(***************************************************************************)
(* One `odp` or `directory` command: it looks at its options, asks the     *)
(* service what it offers, and asks for it if it does (odp/offerings.tsx,  *)
(* odp/service.tsx, odp/actions.tsx, directory/index.tsx), over transports *)
(* that may sign a request or authenticate the agent (core/src/odp.ts).    *)
(* The service may change what it offers between the two requests, and     *)
(* either may fail anywhere in the layers below.                           *)
(***************************************************************************)
EXTENDS Naturals, Sequences, FiniteSets

CONSTANT MaxServed   \* services the directory names to `discover`

VARIABLES
  input,       \* the command and its options
  offered,     \* the operations the service offers now
  cmd,         \* how far the command is, and what it will report
  asked,       \* what was asked of whom, with which transport
  happened     \* the failure there was

vars == <<input, offered, cmd, asked, happened>>

Nothing == "nothing"

-----------------------------------------------------------------------------
(* Commands.  "refinement" stands for the other options of a search.        *)

PageOptions ==
  [c \in {"offerings list", "offerings search", "collections list", "collections search", "directory search"} |->
     CASE c = "offerings list" -> {"next", "collection", "limit"}
       [] c = "offerings search" -> {"next", "collection", "limit", "query", "filter", "malformed filter", "refinement"}
       [] c = "collections list" -> {"next", "limit"}
       [] c = "collections search" -> {"next", "limit", "query", "parent"}
       [] OTHER -> {"next", "limit", "query", "filter"}]

OtherOptions ==
  [c \in {"inspect", "capabilities", "offerings get", "collections get", "actions resolve", "offerings discover",
          "directory suggest"} |->
     IF c = "offerings discover" THEN {"collection", "query", "filter", "malformed filter", "refinement", "list"}
     ELSE {}]

Commands == DOMAIN PageOptions \cup DOMAIN OtherOptions

Options(c) == IF c \in DOMAIN PageOptions THEN PageOptions[c] ELSE OtherOptions[c]

Inputs == UNION {[command : {c}, options : SUBSET Options(c)] : c \in Commands}

Has(i, option) == option \in i.options

\* A filter that is no JSON object, a continuation with options of a new request, and a
\* search for nothing are refused.
InputError(i) ==
  IF Has(i, "malformed filter") THEN "filter malformed"
  ELSE IF Has(i, "next") /\ i.options # {"next"} THEN "next conflict"
  ELSE IF ~Has(i, "next") /\ \/ i.command = "offerings search" /\ ~Has(i, "query") /\ ~Has(i, "filter")
                             \/ i.command = "collections search" /\ ~Has(i, "query") /\ ~Has(i, "parent")
                             \/ i.command = "directory search" /\ i.options = {}
       THEN "input required"
  ELSE Nothing

Listing(i) == IF Has(i, "collection") THEN "list-collection-offerings" ELSE "list-offerings"

\* requiredDiscoveryOperation(): what the services must offer that the directory selects.
DiscoveryOperation(i) ==
  IF Has(i, "list") THEN "list-offerings"   \* --operation
  ELSE IF i.options \cap {"query", "filter", "refinement"} # {} THEN "search-offerings"
  ELSE Listing(i)

\* What the command asks of the service.
Operation(i) ==
  CASE i.command = "offerings list" -> Listing(i)
    [] i.command = "offerings search" -> "search-offerings"
    [] i.command \in {"offerings get", "actions resolve"} -> "get-offering"
    [] i.command = "collections list" -> "list-collections"
    [] i.command = "collections search" -> "search-collections"
    [] i.command = "collections get" -> "get-collection"
    [] i.command = "offerings discover" -> DiscoveryOperation(i)
    [] OTHER -> i.command

\* What can be suggested instead.
Alternative(i) ==
  CASE i.command = "offerings search" -> Listing(i)
    [] i.command = "collections search" -> "list-collections"
    [] OTHER -> Nothing

OfDirectory == {"directory search", "directory suggest", "offerings discover"}

\* The service is looked at first, but not to continue, and not by what is a look itself.
LooksFirst(i) == ~Has(i, "next") /\ i.command \notin OfDirectory \cup {"inspect", "capabilities"}

-----------------------------------------------------------------------------
(* Failures, as the layers below throw them: the error of a layer of ODP,    *)
(* or of none, around that of the signature, or of none, around a cause.     *)

Authentication ==
  {"vault locked", "vault not initialized", "storage failed", "not enrolled", "denied", "cancelled",
   "approval timed out", "approval server error", "header collision"}

Transient == {"aborted", "no response", "status 429", "status 5xx", "approval server error"}

Failures(layers) ==
  [layer : layers, signing : BOOLEAN, cause : Authentication]
  \cup [layer : layers, signing : {TRUE}, cause : {"not signed"}]
  \cup [layer : layers \ {"plain"}, signing : {FALSE}, cause : Transient \cup {"status 4xx", "invalid"}]
  \cup [layer : layers \cap {"plain"}, signing : {FALSE}, cause : {"invalid", "no response"}]

Report(code, retryable) == [code |-> code, retryable |-> retryable]

\* mapAepRuntimeError(): the user, or the platform, must act.
Mapped(cause) == Report(cause, cause = "approval server error")

\* What the layer says of its failure.
OfLayer(failure) ==
  IF failure.signing THEN Report("signing failed", FALSE)
  ELSE IF failure.layer = "inspection" THEN Report("inspection failed", failure.cause \in Transient)
  ELSE IF failure.layer = "request" THEN Report("service error", failure.cause \in Transient)
  ELSE Report("command failed", FALSE)

\* Mistake: a cause is not looked for behind a failed signature.
FailureUnsigned(failure) ==
  IF ~failure.signing /\ failure.cause \in Authentication THEN Mapped(failure.cause) ELSE OfLayer(failure)

\* odpServiceFailure(): a cause in authentication is looked for first, through the layers.
Failure(failure) == IF failure.cause \in Authentication THEN Mapped(failure.cause) ELSE OfLayer(failure)

\* The directory's own errors.
DirectoryFailure(failure) ==
  IF failure.layer = "directory" THEN Report("directory error", failure.cause \in {"status 429", "status 5xx"})
  ELSE Report("command failed", FALSE)

-----------------------------------------------------------------------------
(* The command.                                                             *)

NoFailure == [layer |-> Nothing, signing |-> FALSE, cause |-> Nothing]

Operations ==
  {"get-collection", "get-offering", "list-collection-offerings", "list-collections", "list-offerings",
   "search-collections", "search-offerings"}

Matter(i) == {Operation(i), Alternative(i)} \cap Operations

Init ==
  /\ input \in Inputs
  /\ offered \in SUBSET Matter(input)
  /\ cmd = [at |-> "input", saw |-> {}, report |-> Report(Nothing, FALSE), suggested |-> Nothing, items |-> 0]
  /\ asked = <<>>
  /\ happened = NoFailure

End(report) == cmd' = [cmd EXCEPT !.at = "ended", !.report = report]

\* Inspections are signed; other requests are authenticated too if the service asks for it;
\* the directory gets neither.
Transport(what) ==
  IF what = "inspect" THEN "signed" ELSE IF what = "directory" THEN "bare" ELSE "authenticated"

Ask(what) == asked' = Append(asked, [what |-> what, over |-> Transport(what)])

\* runOfferingList(), runCollectionSearch() and the like.
Begin ==
  /\ cmd.at = "input"
  /\ IF InputError(input) # Nothing THEN End(Report(InputError(input), FALSE))
     ELSE cmd' = [cmd EXCEPT !.at = IF LooksFirst(input) THEN "inspect" ELSE "request"]
  /\ UNCHANGED <<input, offered, asked, happened>>

\* requireServiceOperation()
Inspect ==
  /\ cmd.at = "inspect"
  /\ Ask("inspect")
  /\ IF Operation(input) \in offered
     THEN cmd' = [cmd EXCEPT !.at = "request", !.saw = offered]
     ELSE cmd' = [cmd EXCEPT !.at = "ended", !.saw = offered, !.report = Report("not supported", FALSE),
                             !.suggested = IF Alternative(input) \in offered THEN Alternative(input) ELSE Nothing]
  /\ UNCHANGED <<input, offered, happened>>

\* The page or the resource; of an operation that has gone the service knows nothing.
Answer ==
  /\ cmd.at = "request" /\ input.command \notin OfDirectory
  /\ Ask(Operation(input))
  /\ Operation(input) \in offered \cup {"inspect", "capabilities"} \/ Has(input, "next")
  /\ cmd' = [cmd EXCEPT !.at = "ended", !.report = Report("ok", FALSE), !.items = 1]
  /\ UNCHANGED <<input, offered, happened>>

\* The first page of the directory, or its suggestions.
Search ==
  /\ cmd.at = "request" /\ input.command \in OfDirectory \ {"offerings discover"}
  /\ Ask("directory")
  /\ cmd' = [cmd EXCEPT !.at = "ended", !.report = Report("ok", FALSE), !.items = 1]
  /\ UNCHANGED <<input, offered, happened>>

\* runOfferingDiscovery(): the offerings of the services that answer; one that fails is an
\* event of another type and is passed over.
Discover ==
  /\ cmd.at = "request" /\ input.command = "offerings discover"
  /\ \E answers \in 0..MaxServed, failing \in 0..MaxServed :
       /\ answers + failing <= MaxServed
       /\ asked' = Append(asked, [what |-> "directory", over |-> "bare"])
                     \o [k \in 1..answers + failing |-> [what |-> Operation(input), over |-> "authenticated"]]
       /\ happened' = IF failing > 0 THEN [layer |-> "issue", signing |-> FALSE, cause |-> "no response"] ELSE happened
       /\ cmd' = [cmd EXCEPT !.at = "ended", !.report = Report("ok", FALSE), !.items = answers]
  /\ UNCHANGED <<input, offered>>

\* A request fails.  The library looks at a service itself before some requests, so that its
\* failures may be those of an inspection.
Fail ==
  /\ cmd.at \in {"inspect", "request"}
  /\ IF input.command \in OfDirectory /\ cmd.at = "request"
     THEN /\ Ask("directory")
          /\ \E failure \in [layer : {"directory", "plain"}, signing : {FALSE},
                             cause : {"status 429", "status 5xx", "status 4xx", "no response", "invalid"}] :
               /\ happened' = failure
               /\ IF input.command = "offerings discover" THEN End(Failure(failure))
                  ELSE End(DirectoryFailure(failure))
     ELSE /\ Ask(IF cmd.at = "inspect" THEN "inspect" ELSE Operation(input))
          /\ \E failure \in Failures({"inspection", "plain"} \cup (IF cmd.at = "request" THEN {"request"} ELSE {})) :
               happened' = failure /\ End(Failure(failure))
  /\ UNCHANGED <<input, offered>>

Change ==
  /\ cmd.at \in {"inspect", "request"}
  /\ \E operations \in SUBSET Matter(input) : operations # offered /\ offered' = operations
  /\ UNCHANGED <<input, cmd, asked, happened>>

Next == Begin \/ Inspect \/ Answer \/ Search \/ Discover \/ Fail \/ Change

Spec == Init /\ [][Next]_vars

TypeOK ==
  /\ input \in Inputs /\ offered \subseteq Operations
  /\ cmd.at \in {"input", "inspect", "request", "ended"}

-----------------------------------------------------------------------------
(* Properties.                                                              *)

InputErrors == {"filter malformed", "next conflict", "input required"}

\* What was asked for was seen to be offered, unless it continues an answer or goes to the
\* directory; input is refused before anything is asked; and a suggestion is of something
\* that was seen to be offered when what was asked for was not.
AsksOnlyOffered ==
  /\ \A k \in DOMAIN asked : asked[k].what \in Operations =>
       Has(input, "next") \/ input.command = "offerings discover" \/ asked[k].what \in cmd.saw
  /\ cmd.report.code \in InputErrors => asked = <<>>
  /\ cmd.suggested # Nothing => cmd.suggested \in cmd.saw /\ Operation(input) \notin cmd.saw

\* A failure that the user can end is reported as what it is, through whatever layers it
\* came; a retry is advised only of what may pass; and one that is reported has happened.
FailureTrue ==
  cmd.at = "ended" =>
    /\ happened.cause \in Authentication => cmd.report.code = happened.cause
    /\ cmd.report.retryable => happened.cause \in Transient
    /\ cmd.report.code = "ok" => happened.layer \in {Nothing, "issue"}
    /\ cmd.report.code \notin InputErrors \cup {"ok", "not supported"} => happened # NoFailure

\* The identity of the agent goes to services only, never with a look or to the directory.
IdentityToServices == \A k \in DOMAIN asked : asked[k].over = "authenticated" => asked[k].what \notin {"inspect", "directory"}

CatalogTrue == AsksOnlyOffered /\ FailureTrue /\ IdentityToServices
=============================================================================
