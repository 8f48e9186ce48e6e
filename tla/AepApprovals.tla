---------------------------- MODULE AepApprovals ----------------------------
(***************************************************************************)
(* The approvals of AEP commands: `aep enroll`, `aep grant` and `aep fetch` *)
(* (cli commands/aep/index.tsx, approval-polling.ts, views.tsx).  Each asks *)
(* InFlow to sign for the user's agent; InFlow may want the user to approve *)
(* first, and the command waits, or ends and is called again with the      *)
(* approval.  Beside it the user decides in the app or presses Escape, and  *)
(* the Service changes what it requires.  AepCredentials is about what these *)
(* commands store; here it is the identity only.                           *)
(***************************************************************************)
EXTENDS Naturals, Sequences

CONSTANTS
  MaxTasks,    \* how many commands are run
  MaxRounds    \* how often a command looks at its approval: --max-attempts, or --timeout

VARIABLES
  task,        \* the command that runs, or ran last
  approvals,   \* the approvals of InFlow, in the order in which they were asked for
  service,     \* the Service: the documents it requires, the agents it knows
  agents       \* agent identities: the stored one, the one InFlow has (0 is none), all there were

vars == <<task, approvals, service, agents>>

\* The documents that the Service may require, and those that InFlow says were approved.
Returned == {{}, {"d"}}

Kinds == {"enroll", "grant", "fetch"}

\* In a terminal a view waits and can be left with Escape; an agent waits if it says how often
\* to look, or is told to come back.  A fetch always waits, and cannot be resumed.
Forms(kind) == IF kind = "fetch" THEN {"terminal", "waits"} ELSE {"terminal", "waits", "defers"}

Fresh(kind, form, resumes) ==
  [kind |-> kind, form |-> form, at |-> "start", resumes |-> resumes, id |-> resumes, seen |-> {}, ids |-> {},
   agent |-> 0, refreshed |-> FALSE, rounds |-> 0, escape |-> "none", aborted |-> FALSE, asked |-> 0,
   sent |-> FALSE, executed |-> FALSE, report |-> "none", number |-> 1]

Goto(at) == task' = [task EXCEPT !.at = at]

Report(code) == task' = [task EXCEPT !.at = "ended", !.report = code]

\* The first command; whether the agent is enrolled, and whether InFlow has an identity for it.
Beginnings ==
  {<<Fresh(k.kind, k.form, 0),
     [requires |-> requires, knows |-> IF enrolled THEN {1} ELSE {}, changed |-> FALSE],
     [stored |-> IF enrolled THEN 1 ELSE 0, platform |-> IF has THEN 1 ELSE 0, made |-> 1]>> :
     k \in {x \in [kind : Kinds, form : {"terminal", "waits", "defers"}] : x.form \in Forms(x.kind)},
     requires \in Returned, enrolled \in BOOLEAN, has \in BOOLEAN}

Init ==
  /\ \E x \in Beginnings : task = x[1] /\ service = x[2] /\ agents = x[3]
  /\ approvals = <<>>

Waiting == task.at \in {"polling", "continuing"}

-----------------------------------------------------------------------------
(* A command up to its signature.                                           *)

\* getOrCreateIdentity() and saveIdentity()
Identified ==
  LET new == IF agents.platform # 0 THEN agents.platform ELSE agents.made + 1
  IN  agents' = [stored |-> new, platform |-> new, made |-> IF new > agents.made THEN new ELSE agents.made]

\* runEnroll() until the identity: what the Service requires is read once.
LookEnroll ==
  /\ task.kind = "enroll" /\ task.at = "start"
  /\ \/ /\ IF agents.stored = 0 THEN Identified ELSE UNCHANGED agents
        /\ task' = [task EXCEPT !.at = "checking", !.seen = service.requires, !.agent = agents'.stored]
     \/ Report("failed") /\ UNCHANGED agents
  /\ UNCHANGED <<approvals, service>>

\* runGrant(): a Service may not advertise the grant type, or none.
LookGrant ==
  /\ task.kind = "grant" /\ task.at = "start"
  /\ \/ \E code \in {"failed", "unavailable"} : Report(code)
     \/ IF agents.stored = 0 THEN Report("not enrolled")
        ELSE task' = [task EXCEPT !.at = "checking", !.agent = agents.stored]
  /\ UNCHANGED <<approvals, service, agents>>

\* runFetch(): the identity that InFlow has is taken if none is stored; if there is none, the
\* user is sent to enroll.
LookFetch ==
  /\ task.kind = "fetch" /\ task.at = "start"
  /\ LET agent == IF agents.stored # 0 THEN agents.stored ELSE agents.platform
     IN  \/ Report("failed")
         \/ IF agent = 0 THEN Report("not enrolled")
            ELSE task' = [task EXCEPT !.at = "signing", !.agent = agent]
  /\ UNCHANGED <<approvals, service, agents>>

\* InFlow signs for the identity it has only: agent_identity_not_found.
Stale == task.agent # agents.platform

\* The status of the enrolment.  An identity that InFlow does not have any more is replaced
\* once; a grant needs a Service that recognizes the agent.
Check ==
  /\ task.at = "checking"
  /\ \/ Report("failed") /\ UNCHANGED agents
     \/ /\ Stale /\ task.kind = "enroll" /\ ~task.refreshed
        /\ Identified /\ task' = [task EXCEPT !.agent = agents'.stored, !.refreshed = TRUE]
     \/ /\ ~Stale /\ UNCHANGED agents
        /\ IF task.kind = "enroll" \/ task.agent \in service.knows THEN Goto("signing") ELSE Report("not enrolled")
  /\ UNCHANGED <<approvals, service>>

\* commandError(): a request to sign or to the Service that is answered with a problem, or not
\* answered.  A denial is told as one of an approval, whoever denied.
Refusals == {"failed", "denied", "requirements unmet"}

\* approvedAssertion() without an approval: InFlow signs, or asks for one, with the documents
\* the Service required.  With one it is not asked.
Sign ==
  /\ task.at = "signing"
  /\ IF task.resumes # 0 THEN Goto("polling") /\ UNCHANGED approvals
     ELSE \/ /\ UNCHANGED approvals
             /\ IF Stale THEN Report(IF task.kind = "fetch" THEN "not enrolled" ELSE "failed")
                ELSE \E code \in Refusals : Report(code)
          \/ /\ ~Stale /\ UNCHANGED approvals
             /\ \E ids \in Returned : task' = [task EXCEPT !.at = "submitting", !.ids = ids]
          \/ /\ ~Stale
             /\ approvals' = Append(approvals, [kind |-> task.kind, state |-> "pending", documents |-> task.seen])
             /\ LET asking == [task EXCEPT !.id = Len(approvals'), !.asked = @ + 1]
                IN  task' = IF task.form = "defers" THEN [asking EXCEPT !.at = "ended", !.report = "pending"]
                            ELSE [asking EXCEPT !.at = "polling"]
  /\ UNCHANGED <<service, agents>>

-----------------------------------------------------------------------------
(* The wait for the user, and what comes of it.                             *)

\* The user decides in the app.
Decide(i) ==
  /\ approvals[i].state = "pending"
  /\ \E state \in {"approved", "declined", "cancelled"} : approvals' = [approvals EXCEPT ![i].state = state]
  /\ UNCHANGED <<task, service, agents>>

\* One look at the approval.  Any other state is waited for.
Poll ==
  /\ task.at = "polling" /\ ~task.aborted
  /\ LET state == approvals[task.id].state
     IN  \/ Report(IF task.kind = "fetch" THEN "server error" ELSE "failed")
         \/ state = "approved" /\ Goto("continuing")
         \/ state = "declined" /\ Report("declined")
         \/ state = "cancelled" /\ Report("cancelled")
         \/ state = "pending" /\ task.rounds < MaxRounds /\ task' = [task EXCEPT !.rounds = @ + 1]
  /\ UNCHANGED <<approvals, service, agents>>

\* The second signature, with the approval.  InFlow may still say that it is pending.
Continue ==
  /\ task.at = "continuing"
  /\ \/ \E code \in Refusals : Report(code)
     \/ task.rounds < MaxRounds /\ task' = [task EXCEPT !.at = "polling", !.rounds = @ + 1]
     \/ ~Stale /\ \E ids \in Returned : task' = [task EXCEPT !.at = "submitting", !.ids = ids]
  /\ UNCHANGED <<approvals, service, agents>>

\* The deadline, or the last attempt.  The whole of a fetch has a deadline as well, which ends
\* it by the signal that says that it was cancelled.
TimeUp ==
  /\ task.at = "polling"
  /\ \E code \in {"timeout"} \cup (IF task.kind = "fetch" THEN {"cancelled"} ELSE {}) : Report(code)
  /\ UNCHANGED <<approvals, service, agents>>

\* PendingApprovalView and cancelApproval(): Escape asks InFlow to cancel the approval, and only
\* if it answers that it did the command is aborted; if not, Escape can be pressed again.
Escape ==
  /\ Waiting /\ task.form = "terminal" /\ task.escape = "none" /\ ~task.aborted
  /\ task' = [task EXCEPT !.escape = "asked"]
  /\ UNCHANGED <<approvals, service, agents>>

\* InFlow cancels what is pending.  What an Escape still does after the command has ended, the
\* user can do in the app.
Cancel ==
  /\ Waiting /\ task.escape = "asked"
  /\ IF approvals[task.id].state = "pending"
     THEN approvals' = [approvals EXCEPT ![task.id].state = "cancelled"] /\ task' = [task EXCEPT !.escape = "granted"]
     ELSE UNCHANGED approvals /\ task' = [task EXCEPT !.escape = "refused"]
  /\ UNCHANGED <<service, agents>>

\* The answer, which may be lost, as may be the request.
Escaped ==
  /\ Waiting /\ task.escape # "none"
  /\ \/ task' = [task EXCEPT !.escape = "none"]
     \/ task.escape = "granted" /\ task' = [task EXCEPT !.escape = "none", !.aborted = TRUE]
  /\ UNCHANGED <<approvals, service, agents>>

Aborted ==
  /\ task.at = "polling" /\ task.aborted
  /\ Report("cancelled")
  /\ UNCHANGED <<approvals, service, agents>>

-----------------------------------------------------------------------------
(* What is sent to the Service.                                             *)

\* approvedDocumentIds(): an enrolment of its own has exactly the documents that were asked for;
\* of a resumed one it is not known what was.
DocumentsValid(ids) == task.resumes = 0 => ids = task.seen

\* enrollService(): the Service knows the agent then, but its answer may be lost, or not
\* confirm the documents.
Enroll ==
  /\ task.kind = "enroll" /\ task.at = "submitting"
  /\ IF ~DocumentsValid(task.ids) THEN Report("documents invalid") /\ UNCHANGED service
     ELSE \/ /\ \E code \in Refusals :
                  task' = [task EXCEPT !.at = "ended", !.report = code, !.sent = TRUE]
             /\ UNCHANGED service
          \/ /\ service.requires \subseteq task.ids
             /\ service' = [service EXCEPT !.knows = @ \cup {task.agent}]
             /\ \E code \in {"done", "failed", "unconfirmed"} :
                  task' = [task EXCEPT !.at = "ended", !.report = code, !.sent = TRUE, !.executed = TRUE]
  /\ UNCHANGED <<approvals, agents>>

\* approvedDocumentIds() when what InFlow returns is no list of documents.
Malformed ==
  /\ task.kind = "enroll" /\ task.at = "submitting"
  /\ Report("documents invalid")
  /\ UNCHANGED <<approvals, service, agents>>

\* grantService() and saveCredential(), or what the SDK does with the signature of a fetch: the
\* credential may be lost on the way or fail to be stored.  A fetch finds out here that the
\* Service does not recognize the agent.
Use ==
  /\ task.kind # "enroll" /\ task.at = "submitting"
  /\ \/ \E code \in Refusals \cup {c \in {"not enrolled"} : task.kind = "fetch" /\ task.agent \notin service.knows} :
          task' = [task EXCEPT !.at = "ended", !.report = code, !.sent = TRUE]
     \/ /\ task.agent \in service.knows
        /\ \E code \in {"done", "failed"} :
             task' = [task EXCEPT !.at = "ended", !.report = code, !.sent = TRUE, !.executed = TRUE]
  /\ UNCHANGED <<approvals, service, agents>>

-----------------------------------------------------------------------------
(* Around the command.                                                      *)

\* The next command, of another kind, or with an approval of a command that ended.
Again ==
  /\ task.at = "ended" /\ task.number < MaxTasks
  /\ \E kind \in Kinds : \E form \in Forms(kind) :
       \E resumes \in {0} \cup {i \in 1..Len(approvals) : approvals[i].kind = kind} :
         /\ resumes = 0 \/ (kind # "fetch" /\ form # "defers")
         /\ resumes # 0 \/ kind # task.kind
         /\ task' = [Fresh(kind, form, resumes) EXCEPT !.number = task.number + 1]
  /\ UNCHANGED <<approvals, service, agents>>

\* The Service changes what it requires; InFlow gives the agent up.
Change ==
  /\ ~service.changed
  /\ \/ /\ \E requires \in Returned \ {service.requires} : service' = [service EXCEPT !.requires = requires, !.changed = TRUE]
        /\ UNCHANGED agents
     \/ /\ agents.platform # 0 /\ agents' = [agents EXCEPT !.platform = 0]
        /\ service' = [service EXCEPT !.changed = TRUE]
  /\ UNCHANGED <<task, approvals>>

Next ==
  \/ LookEnroll \/ LookGrant \/ LookFetch \/ Check \/ Sign
  \/ Poll \/ Continue \/ TimeUp \/ Escape \/ Cancel \/ Escaped \/ Aborted
  \/ Enroll \/ Malformed \/ Use \/ Again \/ Change
  \/ \E i \in 1..Len(approvals) : Decide(i)

Spec == Init /\ [][Next]_vars

-----------------------------------------------------------------------------
(* Properties.                                                              *)

\* Nothing reaches the Service under an approval that the user did not give, or that was
\* cancelled meanwhile by Escape; and nothing is heard of it after the command has said so.
SentIsApproved ==
  /\ task.sent /\ task.id # 0 => approvals[task.id].state = "approved"
  /\ task.aborted => approvals[task.id].state = "cancelled" /\ ~task.sent
  /\ task.report \in {"pending", "server error", "declined", "cancelled", "timeout", "unavailable",
                      "documents invalid"} => ~task.sent
  /\ task.report = "not enrolled" /\ task.kind # "fetch" => ~task.sent

\* An enrolment acknowledges what the user was asked about: the documents of its approval, which
\* the Service required when the command began; and it is of the identity that is kept.
EnrolledAsAsked ==
  task.kind = "enroll" /\ task.sent =>
    /\ task.agent = agents.stored
    /\ task.resumes = 0 => task.ids = task.seen /\ (task.id # 0 => approvals[task.id].documents = task.ids)

\* What is reported is what happened: done is done, it was the user who declined, and who
\* cancelled unless a fetch ran out of time; no command asks twice, a resumed one not at all.
ReportTrue ==
  /\ task.report = "done" => task.executed
  /\ task.executed => task.report \in {"done", "failed", "unconfirmed"}
  /\ task.report = "declined" => approvals[task.id].state = "declined"
  /\ task.report = "cancelled" /\ task.kind # "fetch" => approvals[task.id].state = "cancelled"
  /\ task.asked = (IF task.id # 0 /\ task.resumes = 0 THEN 1 ELSE 0)

ApprovalsTrue == SentIsApproved /\ EnrolledAsAsked /\ ReportTrue
=============================================================================
