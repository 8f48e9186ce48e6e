-------------------------- MODULE SyncSecretStore --------------------------
(***************************************************************************)
(* The synchronous secret store of the CLI (secure-storage/                *)
(* vault-sync-secret-store): the main thread blocks on a status word in    *)
(* shared memory until a worker thread has copied the daemon's answer next *)
(* to it, or until a deadline.  Calls follow one another; a worker and its *)
(* connection serve several, until one fails.                              *)
(*                                                                         *)
(* A worker is named by the call that started it, a job by its call and    *)
(* its part.  Loads, stores and exchanges of shared memory are steps of    *)
(* their own; a frame arrives whole.                                       *)
(***************************************************************************)
EXTENDS Naturals

CONSTANTS
  MaxCalls,  \* bound: calls of one store
  Checks     \* the store knows which daemon to expect

ASSUME MaxCallsAssumption == MaxCalls \in Nat
ASSUME ChecksAssumption == Checks \in BOOLEAN

Calls == 1..MaxCalls
None == 0
Jobs == Calls \X {"info", "request"}
NoJob == <<None, "info">>

\* The status word, 0 to 4 in the code; "copying" belongs to the worker,
\* "givenUp" to the main thread.
Status == {"waiting", "answered", "failed", "copying", "givenUp"}

VARIABLES
  main,      \* the main thread: where it is, in which call and part of it
  session,   \* the worker it would use
  checked,   \* the daemon behind the session is the expected one
  status,    \* the status word of each job
  input,     \* the shared bytes of each job's request: "whole" or "blank"
  output,    \* and of its answer
  inbox,     \* the job posted to each worker
  closed,    \* the shared flag of each worker
  dying,     \* workers the main thread has terminated
  doomed,    \* what is to be erased when a worker is gone
  worker,    \* worker threads
  pending,   \* the job the daemon has not answered, for each connection
  answer,    \* an answer on its way to the worker
  informed   \* history: workers whose daemon has been found the expected one

shared == <<status, input, output, inbox, closed>>
threads == <<dying, doomed, worker>>
daemon == <<pending, answer>>
vars == <<main, session, checked, shared, threads, daemon, informed>>

Worker == [thread : {"none", "boot", "loop", "check", "write", "claim", "copy", "publish", "dead"},
           conn : {"none", "connecting", "unverified", "ready"},
           open : BOOLEAN,        \* its port
           active : Jobs \cup {NoJob},
           written : BOOLEAN,
           response : {"none", "ok", "error", "junk"},
           job : Jobs \cup {NoJob}, bytes : {"ok", "error", "junk", "closed"}]   \* what it is finishing

NoWorker == [thread |-> "none", conn |-> "none", open |-> TRUE, active |-> NoJob,
             written |-> FALSE, response |-> "none", job |-> NoJob, bytes |-> "closed"]

TypeOK ==
  /\ main \in [at : {"idle", "post", "wait", "disposed"}, call : 0..MaxCalls, part : {"info", "request"}]
  /\ session \in 0..MaxCalls /\ checked \in BOOLEAN
  /\ status \in [Jobs -> Status] /\ input \in [Jobs -> {"whole", "blank"}]
  /\ output \in [Jobs -> {"blank", "ok", "error", "junk", "closed"}]
  /\ inbox \in [Calls -> Jobs \cup {NoJob}] /\ closed \in [Calls -> BOOLEAN]
  /\ dying \subseteq Calls /\ doomed \in [Calls -> Jobs \cup {NoJob}] /\ worker \in [Calls -> Worker]
  /\ pending \in [Calls -> Jobs \cup {NoJob}]
  /\ answer \in [Calls -> {"none", "ok", "error", "junk"}] /\ informed \subseteq Calls

Init ==
  /\ main = [at |-> "idle", call |-> 0, part |-> "request"] /\ session = None /\ checked = FALSE
  /\ status = [j \in Jobs |-> "waiting"] /\ input = [j \in Jobs |-> "blank"]
  /\ output = [j \in Jobs |-> "blank"]
  /\ inbox = [w \in Calls |-> NoJob] /\ closed = [w \in Calls |-> FALSE]
  /\ dying = {} /\ doomed = [w \in Calls |-> NoJob] /\ worker = [w \in Calls |-> NoWorker]
  /\ pending = [w \in Calls |-> NoJob] /\ answer = [w \in Calls |-> "none"] /\ informed = {}

-----------------------------------------------------------------------------
(* The main thread.                                                         *)

Job == <<main.call, main.part>>

\* retire(): a session is never used again once its worker was given up.
Retire(s) ==
  /\ session' = None /\ checked' = FALSE
  /\ closed' = [closed EXCEPT ![s] = TRUE]
  /\ dying' = dying \cup {s}

\* Mistake: what was checked of one daemon is believed of the next.
StillCheckedForGood == checked

\* The session serves the next call unless its worker has closed.
Usable == session # None /\ ~closed[session]
StillChecked == Usable /\ checked

Begin ==
  /\ main.at = "idle" /\ main.call < MaxCalls
  /\ LET c == main.call + 1 IN
     /\ main' = [at |-> "post", call |-> c,
                 part |-> IF Checks /\ ~StillChecked THEN "info" ELSE "request"]
     /\ checked' = StillChecked
     /\ session' = IF Usable THEN session ELSE c
     /\ worker' = IF Usable THEN worker ELSE [worker EXCEPT ![c].thread = "boot"]
     /\ dying' = IF Usable \/ session = None THEN dying ELSE dying \cup {session}
  /\ UNCHANGED <<shared, doomed, daemon, informed>>

\* An exchange throws: the worker is terminated, and its buffers are erased now
\* and once more when it is gone.
Fails ==
  /\ main' = [main EXCEPT !.at = "idle"]
  /\ Retire(session)
  /\ doomed' = [doomed EXCEPT ![session] = Job]
  /\ input' = [input EXCEPT ![Job] = "blank"] /\ output' = [output EXCEPT ![Job] = "blank"]
  /\ UNCHANGED <<inbox, worker, daemon, informed>>

Post ==
  /\ main.at = "post"
  /\ main' = [main EXCEPT !.at = "wait"]
  /\ input' = [input EXCEPT ![Job] = "whole"]
  /\ inbox' = [inbox EXCEPT ![session] = Job]
  /\ UNCHANGED <<session, checked, status, output, closed, threads, daemon, informed>>

\* Starting the worker, or the first part of the call, took all the time there was.
TooLate == main.at = "post" /\ Fails /\ UNCHANGED status

\* The worker's exchange has succeeded: the answer is copied and erased.
Taken ==
  /\ main.at = "wait" /\ status[Job] = "answered"
  /\ input' = [input EXCEPT ![Job] = "blank"] /\ output' = [output EXCEPT ![Job] = "blank"]
  /\ UNCHANGED <<status, inbox, worker, daemon>>

Succeed ==
  /\ Taken /\ output[Job] = "ok"
  /\ main' = IF main.part = "info" THEN [main EXCEPT !.at = "post", !.part = "request"]
                                  ELSE [main EXCEPT !.at = "idle"]
  /\ checked' = (checked \/ main.part = "info")
  /\ informed' = IF main.part = "info" THEN informed \cup {session} ELSE informed
  /\ UNCHANGED <<session, closed, dying, doomed>>

\* The daemon is another build or refuses to say, or the operation failed.
Refused ==
  /\ Taken
  /\ main' = [main EXCEPT !.at = "idle"]
  /\ \/ main.part = "info" /\ output[Job] \in {"ok", "error"} /\ Retire(session)
     \/ main.part = "request" /\ output[Job] = "error" /\ UNCHANGED <<session, checked, closed, dying>>
  /\ UNCHANGED <<doomed, informed>>

\* The worker reports that the daemon is lost, the answer is none, or it says
\* that the peer was not accepted.
Lost ==
  /\ main.at = "wait"
  /\ \/ status[Job] = "failed"
     \/ status[Job] = "answered" /\ output[Job] \in {"junk", "blank", "error"}
  /\ Fails
  /\ UNCHANGED status

\* Mistake: it waits without a deadline.
GiveUpNever == FALSE /\ UNCHANGED vars

\* The deadline, in the worker's copying too.
GiveUp ==
  /\ main.at = "wait" /\ status[Job] \in {"waiting", "copying"}
  /\ status' = [status EXCEPT ![Job] = "givenUp"]
  /\ Fails

Dispose ==
  /\ main.at = "idle"
  /\ main' = [main EXCEPT !.at = "disposed"]
  /\ IF session = None THEN UNCHANGED <<session, checked, closed, dying>> ELSE Retire(session)
  /\ UNCHANGED <<status, input, output, inbox, doomed, worker, daemon, informed>>

\* The event loop of the main thread runs between calls only.
Idle == main.at \in {"idle", "disposed"}

\* Mistake: the buffers of a terminated worker are left as they are.
CollectNothing(w) ==
  /\ Idle /\ worker[w].thread = "dead" /\ doomed[w] # NoJob
  /\ doomed' = [doomed EXCEPT ![w] = NoJob]
  /\ UNCHANGED <<main, session, checked, shared, dying, worker, daemon, informed>>

\* terminate() has ended the worker.
Collect(w) ==
  /\ Idle /\ worker[w].thread = "dead" /\ doomed[w] # NoJob
  /\ input' = [input EXCEPT ![doomed[w]] = "blank"]
  /\ output' = [output EXCEPT ![doomed[w]] = "blank"]
  /\ doomed' = [doomed EXCEPT ![w] = NoJob]
  /\ UNCHANGED <<main, session, checked, status, inbox, closed, dying, worker, daemon, informed>>

\* Its error or exit event.
Exited(w) ==
  /\ Idle /\ worker[w].thread = "dead" /\ ~closed[w]
  /\ closed' = [closed EXCEPT ![w] = TRUE]
  /\ UNCHANGED <<main, session, checked, status, input, output, inbox, threads, daemon, informed>>

-----------------------------------------------------------------------------
(* A worker.                                                                *)

Set(w, r) == worker' = [worker EXCEPT ![w] = r]
Others == UNCHANGED <<main, session, checked, dying, doomed, informed>>

\* It runs until the main thread terminates it, wherever it is.
Die(w) ==
  /\ w \in dying /\ worker[w].thread \notin {"none", "dead"}
  /\ Set(w, [worker[w] EXCEPT !.thread = "dead"])
  /\ UNCHANGED <<shared, daemon>> /\ Others

\* An error ends it (it runs out of memory), and it cannot say so.
Abort(w) ==
  /\ worker[w].thread = "loop"
  /\ Set(w, [worker[w] EXCEPT !.thread = "dead"])
  /\ UNCHANGED <<shared, daemon>> /\ Others

\* The imports of its script succeed or do not.
Boot(w) ==
  /\ worker[w].thread = "boot"
  /\ \E t \in {"loop", "dead"} : Set(w, [worker[w] EXCEPT !.thread = t])
  /\ UNCHANGED <<shared, daemon>> /\ Others

\* finish(): the request is erased before the status word is tried.
Finishing(r, bytes) ==
  [r EXCEPT !.thread = "claim", !.job = r.active, !.bytes = bytes, !.active = NoJob, !.response = "none"]

Erased(j) == IF j = NoJob THEN input ELSE [input EXCEPT ![j] = "blank"]

\* close(): the flag first, then whoever waits is told.
Close(w, r) ==
  /\ closed' = [closed EXCEPT ![w] = TRUE]
  /\ Set(w, IF r.active = NoJob THEN [r EXCEPT !.thread = "dead", !.open = FALSE]
                                ELSE [Finishing(r, "closed") EXCEPT !.open = FALSE])
  /\ input' = Erased(r.active)

\* The end of a turn of its event loop.
Rest(r) == [r EXCEPT !.thread = IF r.open THEN "loop" ELSE "dead", !.job = NoJob]

Listening(w) == worker[w].thread = "loop" /\ worker[w].open

\* receive()
Receive(w) ==
  /\ Listening(w) /\ inbox[w] # NoJob
  /\ inbox' = [inbox EXCEPT ![w] = NoJob]
  /\ LET r == worker[w]
         j == inbox[w]
     IN IF r.active # NoJob \/ closed[w]
        THEN /\ status' = [status EXCEPT ![j] = IF @ = "waiting" THEN "failed" ELSE @]
             /\ closed' = [closed EXCEPT ![w] = TRUE]
             /\ input' = [Erased(r.active) EXCEPT ![j] = "blank"]
             /\ Set(w, IF r.active = NoJob THEN [r EXCEPT !.thread = "dead", !.open = FALSE]
                                           ELSE [Finishing(r, "closed") EXCEPT !.open = FALSE])
        ELSE /\ Set(w, [r EXCEPT !.active = j, !.written = FALSE,
                                 !.conn = IF @ = "none" THEN "connecting" ELSE @,
                                 !.thread = IF r.conn = "ready" THEN "check" ELSE "loop"])
             /\ UNCHANGED <<status, input, closed>>
  /\ UNCHANGED <<output, daemon>> /\ Others

\* Connected and verified; a worker that was given up meanwhile waits for its timer.
Connected(w) ==
  /\ Listening(w) /\ worker[w].conn = "connecting"
  /\ Set(w, [worker[w] EXCEPT !.conn = IF closed[w] THEN "unverified" ELSE "ready",
                              !.thread = IF closed[w] THEN "loop" ELSE "check"])
  /\ UNCHANGED <<shared, daemon>> /\ Others

\* The last look before the request leaves.
Check(w) ==
  /\ worker[w].thread = "check"
  /\ IF status[worker[w].active] # "waiting" \/ closed[w]
     THEN Close(w, worker[w])
     ELSE /\ Set(w, [worker[w] EXCEPT !.thread = "write"])
          /\ UNCHANGED <<closed, input>>
  /\ UNCHANGED <<status, output, inbox, daemon>> /\ Others

Write(w) ==
  /\ worker[w].thread = "write"
  /\ Set(w, [worker[w] EXCEPT !.thread = "loop"])
  /\ pending' = [pending EXCEPT ![w] = worker[w].active]
  /\ UNCHANGED <<shared, answer>> /\ Others

\* complete(): the answer is handed on once the request is known to be written.
Completed(r) ==
  IF r.written /\ r.response # "none" THEN Finishing(r, r.response) ELSE r

Completes(w, r) ==
  /\ Set(w, Completed(r))
  /\ input' = IF r.written THEN Erased(r.active) ELSE input

\* The callback of the write.
Written(w) ==
  /\ Listening(w) /\ worker[w].active # NoJob /\ ~worker[w].written
  /\ pending[w] = worker[w].active \/ answer[w] # "none" \/ worker[w].response # "none"
  /\ Completes(w, [worker[w] EXCEPT !.written = TRUE])
  /\ UNCHANGED <<status, output, inbox, closed, daemon>> /\ Others

\* onData(): nothing but one answer to the request is expected.
Data(w) ==
  /\ Listening(w) /\ answer[w] # "none"
  /\ answer' = [answer EXCEPT ![w] = "none"]
  /\ IF worker[w].active = NoJob \/ worker[w].response # "none"
     THEN Close(w, worker[w])
     ELSE /\ Completes(w, [worker[w] EXCEPT !.response = answer[w]])
          /\ UNCHANGED closed
  /\ UNCHANGED <<status, output, inbox, pending>> /\ Others

\* The timer of the request or of an idle connection fires, the connection
\* cannot be made or verified, ends, or brings a frame of no length.
Broken(w) ==
  /\ Listening(w) /\ worker[w].conn # "none"
  /\ Close(w, worker[w])
  /\ UNCHANGED <<status, output, inbox, daemon>> /\ Others

Claim(w) ==
  /\ worker[w].thread = "claim"
  /\ IF status[worker[w].job] = "waiting"
     THEN /\ status' = [status EXCEPT ![worker[w].job] = "copying"]
          /\ Set(w, [worker[w] EXCEPT !.thread = "copy"])
     ELSE Set(w, Rest(worker[w])) /\ UNCHANGED status
  /\ UNCHANGED <<input, output, inbox, closed, daemon>> /\ Others

\* Mistake: the status word is set before the answer is in place.
CopyBehind(w) ==
  /\ worker[w].thread = "copy"
  /\ status' = [status EXCEPT ![worker[w].job] = IF @ = "copying" THEN "answered" ELSE @]
  /\ Set(w, [worker[w] EXCEPT !.thread = "publish"])
  /\ UNCHANGED <<input, output, inbox, closed, daemon>> /\ Others

Copy(w) ==
  /\ worker[w].thread = "copy"
  /\ output' = [output EXCEPT ![worker[w].job] = worker[w].bytes]
  /\ Set(w, [worker[w] EXCEPT !.thread = "publish"])
  /\ UNCHANGED <<status, input, inbox, closed, daemon>> /\ Others

\* An answer nobody waits for any more is erased.
Publish(w) ==
  /\ worker[w].thread = "publish"
  /\ LET j == worker[w].job IN
     IF status[j] = "copying"
     THEN /\ status' = [status EXCEPT ![j] = IF worker[w].bytes = "closed" THEN "failed" ELSE "answered"]
          /\ UNCHANGED output
     ELSE output' = [output EXCEPT ![j] = "blank"] /\ UNCHANGED status
  /\ Set(w, Rest(worker[w]))
  /\ UNCHANGED <<input, inbox, closed, daemon>> /\ Others

-----------------------------------------------------------------------------
\* The daemon answers a frame once, or never.
Answer(w) ==
  /\ pending[w] # NoJob /\ worker[w].thread # "dead"
  /\ \E a \in {"ok", "error", "junk"} : answer' = [answer EXCEPT ![w] = a]
  /\ pending' = [pending EXCEPT ![w] = NoJob]
  /\ UNCHANGED <<shared, worker>> /\ Others

Main == Begin \/ Post \/ TooLate \/ Succeed \/ Refused \/ Lost \/ GiveUp
Loop(w) == Abort(w) \/ Receive(w) \/ Connected(w) \/ Written(w) \/ Data(w) \/ Broken(w)
Turn(w) == Boot(w) \/ Check(w) \/ Write(w) \/ Claim(w) \/ Copy(w) \/ Publish(w) \/ Die(w)

Next ==
  \/ Main \/ Dispose
  \/ \E w \in Calls : Collect(w) \/ Exited(w) \/ Loop(w) \/ Turn(w) \/ Answer(w)

Spec == Init /\ [][Next]_vars

\* The main thread goes on, at the latest by the deadline of its call; a turn of
\* a worker's event loop ends, a terminated worker stops, and callbacks run.
FairSpec ==
  /\ Spec
  /\ WF_vars(Main)
  /\ \A w \in Calls : WF_vars(Turn(w)) /\ WF_vars(Collect(w))

-----------------------------------------------------------------------------
(* Properties.                                                              *)

\* The main thread never reads an answer that is not there: when the status
\* word says so, the whole answer lies behind it.  A worker is never given a job
\* while it has another: the calls after a deadline use a new one.  And a store
\* that knows its daemon sends no secret to another one, not after the daemon was
\* replaced either.
CallsApart ==
  /\ main.at = "wait" /\ status[Job] = "answered" => output[Job] \in {"ok", "error", "junk"}
  /\ \A w \in Calls : inbox[w] # NoJob /\ Listening(w) => worker[w].active = NoJob
  /\ \A w \in Calls : Checks /\ pending[w][2] = "request" => w \in informed

\* Secrets do not stay in shared memory, neither those sent nor those received,
\* whoever ended the call and wherever the worker was stopped.
SecretsErased ==
  \A j \in Jobs : input[j] = "whole" \/ output[j] # "blank" ~> input[j] = "blank" /\ output[j] = "blank"

\* Every call returns, although the daemon may never answer, the worker may not
\* start, and may close just when the call is posted to it.
CallsEnd == main.at = "wait" ~> Idle
=============================================================================
