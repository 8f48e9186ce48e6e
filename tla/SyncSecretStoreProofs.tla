------------------------- MODULE SyncSecretStoreProofs -------------------------
(***************************************************************************)
(* Proofs about SyncSecretStore for any number of calls.                   *)
(*                                                                         *)
(* A worker has one job at a time because the main thread posts to the     *)
(* worker of its session only, and that one is clear: it gave the answer   *)
(* of every job before it (Clear).  The answer of the job waited for lies  *)
(* in shared memory because no other worker holds the job (WaitInv).       *)
(***************************************************************************)
EXTENDS SyncSecretStore, TLAPS

Ending == {"claim", "copy", "publish"}
Busy == {"check", "write"} \cup Ending

\* What holds of a worker r with a job i posted to it, a frame f sent and an
\* answer a on its way.
Tidy(r, i, f, a) ==
  /\ i # NoJob => r.active = NoJob /\ r.thread \notin Busy
  /\ r.thread \in {"none", "boot"} => r.conn = "none" /\ r.active = NoJob
  /\ r.thread \in Ending =>
       r.active = NoJob /\ r.job \in Jobs /\ (r.conn = "connecting" => ~ r.open)
  /\ r.thread \in {"check", "write"} => r.active \in Jobs /\ r.conn = "ready"
  /\ r.thread = "loop" /\ r.open /\ r.conn = "connecting" => r.active # NoJob
  /\ r.conn \in {"none", "connecting"} => f = NoJob /\ a = "none" /\ r.response = "none"

\* A worker that has nothing to do.
Clear(r, i) == i = NoJob /\ r.active = NoJob /\ r.thread \notin Busy

Held(r, i) == {i, r.active, r.job}

\* A job that has not been posted.
Unposted(j, m) ==
  \/ j[1] > m.call
  \/ j[1] = m.call /\ m.part = "info" /\ j[2] = "request"
  \/ m.at = "post" /\ j = <<m.call, m.part>>

NameInv ==
  /\ session <= main.call
  /\ main.at \in {"post", "wait"} => session \in Calls /\ main.call \in Calls

WorkerInv == \A w \in Calls : Tidy(worker[w], inbox[w], pending[w], answer[w])

\* Workers not started and jobs not posted.
FreshInv ==
  /\ \A w \in Calls : w > main.call =>
       worker[w] = NoWorker /\ inbox[w] = NoJob /\ pending[w] = NoJob /\ answer[w] = "none"
  /\ \A j \in Jobs : Unposted(j, main) =>
       status[j] = "waiting" /\ \A w \in Calls : j \notin Held(worker[w], inbox[w])

\* Before a job is posted the worker is clear.
PostInv ==
  main.at \in {"idle", "post"} /\ session # None => Clear(worker[session], inbox[session])

\* The job waited for is in the hands of one worker, until its answer is there.
WaitInv ==
  main.at = "wait" =>
    /\ \A w \in Calls : w # session => Job \notin Held(worker[w], inbox[w])
    /\ status[Job] = "answered" =>
         output[Job] \in {"ok", "error", "junk"} /\ Clear(worker[session], inbox[session])
    /\ \A w \in Calls : worker[w].thread = "publish" /\ worker[w].job = Job /\ status[Job] = "copying" =>
         output[Job] = worker[w].bytes

\* Only a daemon found to be the expected one is sent a request.
InformedInv ==
  Checks =>
    /\ checked => session \in informed
    /\ main.at \in {"post", "wait"} /\ main.part = "request" => session \in informed
    /\ \A w \in Calls :
         inbox[w][2] = "request" \/ worker[w].active[2] = "request" \/ pending[w][2] = "request" =>
           w \in informed

IInv == TypeOK /\ NameInv /\ WorkerInv /\ FreshInv /\ PostInv /\ WaitInv /\ InformedInv

-----------------------------------------------------------------------------
(* What the invariant says, for the proofs of the steps.                    *)

LEMMA Types ==
  ASSUME IInv
  PROVE  /\ main \in [at : {"idle", "post", "wait", "disposed"}, call : 0..MaxCalls,
                      part : {"info", "request"}]
         /\ session \in 0..MaxCalls /\ checked \in BOOLEAN
         /\ status \in [Jobs -> Status] /\ input \in [Jobs -> {"whole", "blank"}]
         /\ output \in [Jobs -> {"blank", "ok", "error", "junk", "closed"}]
         /\ inbox \in [Calls -> Jobs \cup {NoJob}] /\ closed \in [Calls -> BOOLEAN]
         /\ dying \subseteq Calls /\ doomed \in [Calls -> Jobs \cup {NoJob}]
         /\ worker \in [Calls -> Worker] /\ pending \in [Calls -> Jobs \cup {NoJob}]
         /\ answer \in [Calls -> {"none", "ok", "error", "junk"}] /\ informed \subseteq Calls
  BY DEF IInv, TypeOK

LEMMA Names ==
  /\ MaxCalls \in Nat /\ Calls \subseteq Nat /\ None = 0 /\ None \notin Calls
  /\ \A c \in Calls : c \in 1..MaxCalls
  /\ NoJob \notin Jobs /\ NoJob[2] = "info"
  /\ \A j \in Jobs : j[1] \in Calls /\ j[2] \in {"info", "request"} /\ j = <<j[1], j[2]>>
  BY MaxCallsAssumption DEF Calls, None, Jobs, NoJob

LEMMA NoneIn == None \in 0..MaxCalls
  BY MaxCallsAssumption DEF None

\* The step of one worker: w becomes r, and touches nothing but its own job.
LEMMA TurnInv ==
  ASSUME IInv, NEW w \in Calls, NEW r \in Worker, Set(w, r), Others,
         TypeOK',
         Tidy(r, inbox'[w], pending'[w], answer'[w]),
         worker[w].thread # "none",
         \A x \in Calls : x # w =>
           inbox'[x] = inbox[x] /\ pending'[x] = pending[x] /\ answer'[x] = answer[x],
         inbox'[w] \in {NoJob, inbox[w]},
         r.active \in {NoJob, worker[w].active, inbox[w]},
         r.job \in {NoJob, worker[w].job, worker[w].active},
         pending'[w] \in {NoJob, pending[w], worker[w].active},
         \A j \in Jobs : j \notin Held(worker[w], inbox[w]) =>
           status'[j] = status[j] /\ output'[j] = output[j],
         Clear(worker[w], inbox[w]) =>
           Clear(r, inbox'[w]) /\ status' = status /\ output' = output,
         \A j \in Jobs :
           main.at = "wait" /\ j = Job /\ status'[j] = "answered" /\ status[j] # "answered" =>
             output'[j] \in {"ok", "error", "junk"} /\ Clear(r, inbox'[w]),
         \A j \in Jobs : status[j] = "answered" => status'[j] = "answered",
         r.thread = "publish" =>
           \/ output'[r.job] = r.bytes
           \/ r = worker[w] /\ status' = status /\ output' = output
  PROVE  IInv'
<1>1. /\ worker' = [worker EXCEPT ![w] = r] /\ main' = main /\ session' = session
      /\ checked' = checked /\ dying' = dying /\ doomed' = doomed /\ informed' = informed
  BY DEF Set, Others
<1>2. worker'[w] = r /\ \A x \in Calls : x # w => worker'[x] = worker[x]
  BY <1>1, Types
<1>3. NameInv'
  BY <1>1 DEF IInv, NameInv
<1>4. WorkerInv'
  BY <1>2 DEF IInv, WorkerInv
<1>5. NoJob \notin Jobs
  BY Names
<1>6. Held(r, inbox'[w]) \subseteq {NoJob} \cup Held(worker[w], inbox[w])
  BY DEF Held
<1>7. \A x \in Calls : \A j \in Jobs : j \in Held(worker'[x], inbox'[x]) => j \in Held(worker[x], inbox[x])
  <2>1. ASSUME NEW x \in Calls, NEW j \in Jobs, j \in Held(worker'[x], inbox'[x])
        PROVE  j \in Held(worker[x], inbox[x])
    <3>1. CASE x = w
      BY <1>2, <1>5, <1>6, <2>1, <3>1
    <3>2. CASE x # w
      BY <1>2, <2>1, <3>2 DEF Held
    <3> QED
      BY <3>1, <3>2
  <2> QED
    BY <2>1
<1>8. FreshInv'
  <2>1. ASSUME NEW x \in Calls, x > main.call
        PROVE  worker'[x] = NoWorker /\ inbox'[x] = NoJob /\ pending'[x] = NoJob /\ answer'[x] = "none"
    <3>1. /\ worker[x] = NoWorker /\ inbox[x] = NoJob /\ pending[x] = NoJob /\ answer[x] = "none"
      BY <2>1 DEF IInv, FreshInv
    <3>2. x # w
      BY <3>1 DEF NoWorker
    <3> QED
      BY <1>2, <3>1, <3>2
  <2>2. ASSUME NEW j \in Jobs, Unposted(j, main)
        PROVE  status'[j] = "waiting" /\ \A x \in Calls : j \notin Held(worker'[x], inbox'[x])
    <3>1. status[j] = "waiting" /\ \A x \in Calls : j \notin Held(worker[x], inbox[x])
      BY <2>2 DEF IInv, FreshInv
    <3> QED
      BY <1>7, <3>1
  <2> QED
    BY <1>1, <2>1, <2>2 DEF FreshInv
<1>9. PostInv'
  <2>1. SUFFICES ASSUME main.at \in {"idle", "post"}, session # None
                 PROVE  Clear(worker'[session], inbox'[session])
    BY <1>1 DEF PostInv
  <2>2. Clear(worker[session], inbox[session]) /\ session \in Calls
    BY <2>1, Types DEF IInv, PostInv, Calls, None
  <2> QED
    BY <1>2, <2>2
<1>10. WaitInv'
  <2>1. Job' = Job
    BY <1>1 DEF Job
  <2>2. SUFFICES ASSUME main.at = "wait"
                 PROVE  /\ \A x \in Calls : x # session => Job \notin Held(worker'[x], inbox'[x])
                        /\ status'[Job] = "answered" =>
                             /\ output'[Job] \in {"ok", "error", "junk"}
                             /\ Clear(worker'[session], inbox'[session])
                        /\ \A x \in Calls :
                             worker'[x].thread = "publish" /\ worker'[x].job = Job
                               /\ status'[Job] = "copying" => output'[Job] = worker'[x].bytes
    BY <1>1, <2>1 DEF WaitInv
  <2>3. Job \in Jobs /\ session \in Calls
    BY <2>2, Types DEF IInv, NameInv, Job, Jobs
  <2>4. /\ \A x \in Calls : x # session => Job \notin Held(worker[x], inbox[x])
        /\ status[Job] = "answered" =>
             output[Job] \in {"ok", "error", "junk"} /\ Clear(worker[session], inbox[session])
        /\ \A x \in Calls : worker[x].thread = "publish" /\ worker[x].job = Job /\ status[Job] = "copying" =>
             output[Job] = worker[x].bytes
    BY <2>2 DEF IInv, WaitInv
  <2>5. \A x \in Calls : x # session => Job \notin Held(worker'[x], inbox'[x])
    BY <1>7, <2>3, <2>4
  <2> HIDE DEF Job
  <2>6. CASE w = session
    <3>1. ASSUME status'[Job] = "answered"
          PROVE  output'[Job] \in {"ok", "error", "junk"} /\ Clear(r, inbox'[w])
      <4>1. CASE status[Job] = "answered"
        BY <2>4, <2>6, <4>1
      <4>2. CASE status[Job] # "answered"
        BY <2>2, <2>3, <3>1, <4>2
      <4> QED
        BY <4>1, <4>2
    <3>2. ASSUME NEW x \in Calls, worker'[x].thread = "publish", worker'[x].job = Job,
                 status'[Job] = "copying"
          PROVE  output'[Job] = worker'[x].bytes
      <4>1. x = w
        BY <2>5, <2>6, <3>2 DEF Held
      <4>2. CASE output'[r.job] = r.bytes
        BY <1>2, <3>2, <4>1, <4>2
      <4>3. CASE r = worker[w] /\ status' = status /\ output' = output
        BY <1>2, <2>4, <3>2, <4>1, <4>3
      <4> QED
        BY <1>2, <3>2, <4>1, <4>2, <4>3
    <3> QED
      BY <1>2, <2>5, <2>6, <3>1, <3>2
  <2>7. CASE w # session
    <3>1. status'[Job] = status[Job] /\ output'[Job] = output[Job]
      BY <2>3, <2>4, <2>7
    <3>2. worker'[session] = worker[session] /\ inbox'[session] = inbox[session]
      BY <1>2, <2>3, <2>7
    <3>3. ASSUME NEW x \in Calls, worker'[x].thread = "publish", worker'[x].job = Job,
                 status'[Job] = "copying"
          PROVE  output'[Job] = worker'[x].bytes
      <4>1. x = session
        BY <2>5, <3>3 DEF Held
      <4> QED
        BY <2>4, <3>1, <3>2, <3>3, <4>1
    <3> QED
      BY <2>4, <2>5, <3>1, <3>2, <3>3
  <2> QED
    BY <2>6, <2>7
<1>11. InformedInv'
  <2>1. SUFFICES ASSUME Checks PROVE InformedInv'
    BY DEF InformedInv
  <2>2. /\ checked => session \in informed
        /\ main.at \in {"post", "wait"} /\ main.part = "request" => session \in informed
        /\ \A x \in Calls :
             inbox[x][2] = "request" \/ worker[x].active[2] = "request" \/ pending[x][2] = "request" =>
               x \in informed
    BY <2>1 DEF IInv, InformedInv
  <2>3. NoJob[2] # "request"
    BY Names
  <2>4. \A x \in Calls :
          inbox'[x][2] = "request" \/ worker'[x].active[2] = "request" \/ pending'[x][2] = "request" =>
            x \in informed
    BY <1>2, <2>2, <2>3
  <2> QED
    BY <1>1, <2>2, <2>4 DEF InformedInv
<1> QED
  BY <1>3, <1>4, <1>8, <1>9, <1>10, <1>11 DEF IInv

\* A step of one worker that changes no status word and no answer in shared memory.
LEMMA QuietTurn ==
  ASSUME IInv, NEW w \in Calls, NEW r \in Worker, Set(w, r), Others,
         status' = status, output' = output,
         input' \in [Jobs -> {"whole", "blank"}], closed' \in [Calls -> BOOLEAN],
         inbox' = inbox,
         pending' \in [Calls -> Jobs \cup {NoJob}],
         answer' \in [Calls -> {"none", "ok", "error", "junk"}],
         \A x \in Calls : x # w => pending'[x] = pending[x] /\ answer'[x] = answer[x],
         pending'[w] \in {NoJob, pending[w], worker[w].active},
         Tidy(r, inbox[w], pending'[w], answer'[w]),
         worker[w].thread # "none", r.thread = "publish" => r = worker[w],
         r.active \in {NoJob, worker[w].active},
         r.job \in {NoJob, worker[w].job, worker[w].active},
         Clear(worker[w], inbox[w]) => Clear(r, inbox[w])
  PROVE  IInv'
<1>1. TypeOK'
  <2>1. worker' \in [Calls -> Worker]
    BY Types DEF Set
  <2>2. /\ main' = main /\ session' = session /\ checked' = checked /\ dying' = dying
        /\ doomed' = doomed /\ informed' = informed
    BY DEF Others
  <2> QED
    BY <2>1, <2>2, Types DEF TypeOK
<1> QED
  BY <1>1, TurnInv

LEMMA TheWorker ==
  ASSUME IInv, NEW w \in Calls
  PROVE  worker[w] \in Worker /\ Tidy(worker[w], inbox[w], pending[w], answer[w])
  BY Types DEF IInv, WorkerInv

\* What a closing worker becomes.
ClosedWorker(r) ==
  IF r.active = NoJob THEN [r EXCEPT !.thread = "dead", !.open = FALSE]
                      ELSE [Finishing(r, "closed") EXCEPT !.open = FALSE]

LEMMA Closing ==
  ASSUME NEW r \in Worker, NEW i, NEW f, NEW a, Tidy(r, i, f, a)
  PROVE  /\ ClosedWorker(r) \in Worker /\ Tidy(ClosedWorker(r), i, f, a)
         /\ ClosedWorker(r).thread \in {"dead", "claim"}
         /\ ClosedWorker(r).active = NoJob
         /\ ClosedWorker(r).job \in {NoJob, r.job, r.active}
         /\ Clear(r, i) => Clear(ClosedWorker(r), i)
<1>1. CASE r.active = NoJob
  <2> DEFINE s == [r EXCEPT !.thread = "dead", !.open = FALSE]
  <2>1. ClosedWorker(r) = s
    BY <1>1 DEF ClosedWorker
  <2>2. s \in Worker
    BY DEF Worker
  <2>3. /\ s.thread = "dead" /\ s.open = FALSE /\ s.active = NoJob /\ s.job = r.job
        /\ s.conn = r.conn /\ s.response = r.response
    BY <1>1 DEF Worker
  <2> HIDE DEF s
  <2>4. Tidy(s, i, f, a) /\ (Clear(r, i) => Clear(s, i))
    BY <2>3 DEF Tidy, Clear, Busy, Ending
  <2> QED
    BY <2>1, <2>2, <2>3, <2>4
<1>2. CASE r.active # NoJob
  <2> DEFINE s == [r EXCEPT !.thread = "claim", !.job = r.active, !.bytes = "closed",
                            !.active = NoJob, !.response = "none", !.open = FALSE]
  <2>1. ClosedWorker(r) = s
    BY <1>2 DEF ClosedWorker, Finishing, Worker
  <2>2. r.active \in Jobs
    BY <1>2 DEF Worker
  <2>3. s \in Worker
    BY <2>2 DEF Worker
  <2>4. /\ s.thread = "claim" /\ s.open = FALSE /\ s.active = NoJob /\ s.job = r.active
        /\ s.conn = r.conn /\ s.response = "none"
    BY DEF Worker
  <2> HIDE DEF s
  <2>5. i = NoJob
    BY <1>2 DEF Tidy
  <2>6. Tidy(s, i, f, a)
    BY <2>2, <2>4, <2>5 DEF Tidy, Busy, Ending
  <2>7. ~ Clear(r, i)
    BY <1>2 DEF Clear
  <2> QED
    BY <2>1, <2>3, <2>4, <2>6, <2>7
<1> QED
  BY <1>1, <1>2

\* A worker that may have completed its exchange.
LEMMA Completing ==
  ASSUME NEW r \in Worker, NEW i, NEW f, NEW a, Tidy(r, i, f, a), r.thread = "loop",
         r.active \in Jobs, r.conn \notin {"none", "connecting"}
  PROVE  /\ Completed(r) \in Worker /\ Tidy(Completed(r), i, f, a)
         /\ Completed(r).thread \in {"loop", "claim"}
         /\ Completed(r).active \in {NoJob, r.active}
         /\ Completed(r).job \in {NoJob, r.job, r.active}
<1>1. CASE r.written /\ r.response # "none"
  <2> DEFINE s == [r EXCEPT !.thread = "claim", !.job = r.active, !.bytes = r.response,
                            !.active = NoJob, !.response = "none"]
  <2>1. Completed(r) = s
    BY <1>1 DEF Completed, Finishing
  <2>2. s \in Worker
    BY <1>1 DEF Worker
  <2>3. /\ s.thread = "claim" /\ s.active = NoJob /\ s.job = r.active
        /\ s.conn = r.conn /\ s.response = "none"
    BY DEF Worker
  <2> HIDE DEF s
  <2>4. i = NoJob
    BY Names DEF Tidy
  <2>5. Tidy(s, i, f, a)
    BY <2>3, <2>4 DEF Tidy, Busy, Ending
  <2> QED
    BY <2>1, <2>2, <2>3, <2>5
<1>2. CASE ~ (r.written /\ r.response # "none")
  BY <1>2 DEF Completed
<1> QED
  BY <1>1, <1>2

-----------------------------------------------------------------------------
(* The steps of a worker.                                                   *)

\* A worker that stops running keeps nothing but what it held.
LEMMA Dies ==
  ASSUME IInv, NEW w \in Calls, worker[w].thread \notin {"none"},
         Set(w, [worker[w] EXCEPT !.thread = "dead"]), UNCHANGED <<shared, daemon>>, Others
  PROVE  IInv'
<1> DEFINE r == [worker[w] EXCEPT !.thread = "dead"]
<1>1. worker[w] \in Worker /\ Tidy(worker[w], inbox[w], pending[w], answer[w])
  BY TheWorker
<1>2. r \in Worker
  BY <1>1 DEF Worker
<1>3. /\ r.thread = "dead" /\ r.active = worker[w].active /\ r.job = worker[w].job
      /\ r.conn = worker[w].conn /\ r.response = worker[w].response
  BY <1>1 DEF Worker
<1>4. Set(w, r)
  OBVIOUS
<1> HIDE DEF r
<1>5. Tidy(r, inbox[w], pending[w], answer[w]) /\ (Clear(worker[w], inbox[w]) => Clear(r, inbox[w]))
  BY <1>1, <1>3 DEF Tidy, Clear, Busy, Ending
<1>6. /\ status' = status /\ output' = output /\ input' = input /\ closed' = closed
      /\ inbox' = inbox /\ pending' = pending /\ answer' = answer
  BY DEF shared, daemon
<1> QED
  BY <1>2, <1>3, <1>4, <1>5, <1>6, Types, QuietTurn

LEMMA DieStep == ASSUME IInv, NEW w \in Calls, Die(w) PROVE IInv'
  BY Dies DEF Die

LEMMA AbortStep == ASSUME IInv, NEW w \in Calls, Abort(w) PROVE IInv'
  BY Dies DEF Abort

LEMMA BootStep == ASSUME IInv, NEW w \in Calls, Boot(w) PROVE IInv'
<1>1. PICK t \in {"loop", "dead"} : Set(w, [worker[w] EXCEPT !.thread = t])
  BY DEF Boot
<1> DEFINE r == [worker[w] EXCEPT !.thread = t]
<1>2. worker[w] \in Worker /\ Tidy(worker[w], inbox[w], pending[w], answer[w])
      /\ worker[w].thread = "boot"
  BY TheWorker DEF Boot
<1>3. r \in Worker
  BY <1>2 DEF Worker
<1>4. /\ r.thread = t /\ r.active = worker[w].active /\ r.job = worker[w].job
      /\ r.conn = worker[w].conn /\ r.response = worker[w].response
  BY <1>2 DEF Worker
<1>5. Set(w, r) /\ Others
  BY <1>1 DEF Boot
<1> HIDE DEF r
<1>6. Tidy(r, inbox[w], pending[w], answer[w]) /\ (Clear(worker[w], inbox[w]) => Clear(r, inbox[w]))
  BY <1>2, <1>4 DEF Tidy, Clear, Busy, Ending
<1>7. /\ status' = status /\ output' = output /\ input' = input /\ closed' = closed
      /\ inbox' = inbox /\ pending' = pending /\ answer' = answer
  BY DEF Boot, shared, daemon
<1> QED
  BY <1>2, <1>3, <1>4, <1>5, <1>6, <1>7, Types, QuietTurn

LEMMA ConnectedStep == ASSUME IInv, NEW w \in Calls, Connected(w) PROVE IInv'
<1> DEFINE c == IF closed[w] THEN "unverified" ELSE "ready"
           t == IF closed[w] THEN "loop" ELSE "check"
           r == [worker[w] EXCEPT !.conn = c, !.thread = t]
<1>1. /\ worker[w] \in Worker /\ Tidy(worker[w], inbox[w], pending[w], answer[w])
      /\ worker[w].thread = "loop" /\ worker[w].open /\ worker[w].conn = "connecting"
  BY TheWorker DEF Connected, Listening
<1>2. worker[w].active # NoJob /\ inbox[w] = NoJob
  BY <1>1 DEF Tidy
<1>3. r \in Worker
  BY <1>1 DEF Worker
<1>4. /\ r.thread = t /\ r.active = worker[w].active /\ r.job = worker[w].job
      /\ r.conn = c /\ r.response = worker[w].response
  BY <1>1 DEF Worker
<1>5. Set(w, r) /\ Others
  BY DEF Connected
<1>6. c \in {"unverified", "ready"} /\ t \in {"loop", "check"} /\ (t = "check" => c = "ready")
  OBVIOUS
<1>7. worker[w].active \in Jobs
  BY <1>1, <1>2 DEF Worker
<1> HIDE DEF r, c, t
<1>8. Tidy(r, inbox[w], pending[w], answer[w])
  BY <1>2, <1>4, <1>6, <1>7 DEF Tidy, Busy, Ending
<1>9. ~ Clear(worker[w], inbox[w]) /\ r.thread # "publish"
  BY <1>2, <1>4, <1>6 DEF Clear
<1>10. /\ status' = status /\ output' = output /\ input' = input /\ closed' = closed
       /\ inbox' = inbox /\ pending' = pending /\ answer' = answer
  BY DEF Connected, shared, daemon
<1> QED
  BY <1>1, <1>3, <1>4, <1>5, <1>8, <1>9, <1>10, Types, QuietTurn

LEMMA CloseStep ==
  ASSUME IInv, NEW w \in Calls, Close(w, worker[w]), Others, worker[w].thread \notin {"none"},
         status' = status, output' = output, inbox' = inbox, pending' = pending,
         answer' \in [Calls -> {"none", "ok", "error", "junk"}],
         \A x \in Calls : answer'[x] = answer[x] \/ (x = w /\ answer'[x] = "none")
  PROVE  IInv'
<1> DEFINE r == ClosedWorker(worker[w])
<1>1. worker[w] \in Worker /\ Tidy(worker[w], inbox[w], pending[w], answer'[w])
  <2>1. worker[w] \in Worker /\ Tidy(worker[w], inbox[w], pending[w], answer[w])
    BY TheWorker
  <2>2. answer'[w] = answer[w] \/ answer'[w] = "none"
    OBVIOUS
  <2> QED
    BY <2>1, <2>2 DEF Tidy
<1>2. /\ r \in Worker /\ Tidy(r, inbox[w], pending[w], answer'[w])
      /\ r.thread \in {"dead", "claim"} /\ r.active = NoJob
      /\ r.job \in {NoJob, worker[w].job, worker[w].active}
      /\ Clear(worker[w], inbox[w]) => Clear(r, inbox[w])
  BY <1>1, Closing
<1>3. /\ Set(w, r) /\ closed' = [closed EXCEPT ![w] = TRUE] /\ input' = Erased(worker[w].active)
  BY DEF Close, ClosedWorker
<1> HIDE DEF r
<1>4. input' \in [Jobs -> {"whole", "blank"}] /\ closed' \in [Calls -> BOOLEAN]
  BY <1>3, Types DEF Erased
<1>5. pending' \in [Calls -> Jobs \cup {NoJob}]
  BY Types
<1> QED
  BY <1>2, <1>3, <1>4, <1>5, QuietTurn

LEMMA BrokenStep == ASSUME IInv, NEW w \in Calls, Broken(w) PROVE IInv'
<1>1. /\ Close(w, worker[w]) /\ Others /\ worker[w].thread = "loop"
      /\ status' = status /\ output' = output /\ inbox' = inbox /\ pending' = pending
      /\ answer' = answer
  BY DEF Broken, Listening, daemon
<1> QED
  BY <1>1, Types, CloseStep

LEMMA CheckStep == ASSUME IInv, NEW w \in Calls, Check(w) PROVE IInv'
<1>1. /\ worker[w] \in Worker /\ Tidy(worker[w], inbox[w], pending[w], answer[w])
      /\ worker[w].thread = "check"
  BY TheWorker DEF Check
<1>2. /\ status' = status /\ output' = output /\ inbox' = inbox /\ pending' = pending
      /\ answer' = answer /\ Others
  BY DEF Check, daemon
<1>3. CASE Close(w, worker[w])
  BY <1>1, <1>2, <1>3, Types, CloseStep
<1>4. CASE /\ Set(w, [worker[w] EXCEPT !.thread = "write"])
           /\ UNCHANGED <<closed, input>>
  <2> DEFINE r == [worker[w] EXCEPT !.thread = "write"]
  <2>1. r \in Worker
    BY <1>1 DEF Worker
  <2>2. /\ r.thread = "write" /\ r.active = worker[w].active /\ r.job = worker[w].job
        /\ r.conn = worker[w].conn /\ r.response = worker[w].response
    BY <1>1 DEF Worker
  <2>3. Set(w, r)
    BY <1>4
  <2> HIDE DEF r
  <2>4. Tidy(r, inbox[w], pending[w], answer[w]) /\ ~ Clear(worker[w], inbox[w])
    BY <1>1, <2>2 DEF Tidy, Clear, Busy, Ending
  <2> QED
    BY <1>1, <1>2, <1>4, <2>1, <2>2, <2>3, <2>4, Types, QuietTurn
<1> QED
  BY <1>3, <1>4 DEF Check

LEMMA WriteStep == ASSUME IInv, NEW w \in Calls, Write(w) PROVE IInv'
<1> DEFINE r == [worker[w] EXCEPT !.thread = "loop"]
<1>1. /\ worker[w] \in Worker /\ Tidy(worker[w], inbox[w], pending[w], answer[w])
      /\ worker[w].thread = "write"
  BY TheWorker DEF Write
<1>2. /\ status' = status /\ output' = output /\ inbox' = inbox /\ input' = input
      /\ closed' = closed /\ answer' = answer /\ Others
      /\ pending' = [pending EXCEPT ![w] = worker[w].active]
  BY DEF Write, shared
<1>3. worker[w].active \in Jobs /\ worker[w].conn = "ready"
  BY <1>1 DEF Tidy
<1>4. /\ pending' \in [Calls -> Jobs \cup {NoJob}] /\ pending'[w] = worker[w].active
      /\ \A x \in Calls : x # w => pending'[x] = pending[x]
  BY <1>2, <1>3, Types
<1>5. r \in Worker
  BY <1>1 DEF Worker
<1>6. /\ r.thread = "loop" /\ r.active = worker[w].active /\ r.job = worker[w].job
      /\ r.conn = worker[w].conn /\ r.response = worker[w].response
  BY <1>1 DEF Worker
<1>7. Set(w, r)
  BY DEF Write
<1> HIDE DEF r
<1>8. Tidy(r, inbox[w], pending'[w], answer'[w]) /\ ~ Clear(worker[w], inbox[w])
  BY <1>1, <1>3, <1>6 DEF Tidy, Clear, Busy, Ending
<1> QED
  BY <1>1, <1>2, <1>4, <1>5, <1>6, <1>7, <1>8, Types, QuietTurn

LEMMA CompleteStep ==
  ASSUME IInv, NEW w \in Calls, NEW b \in Worker, Completes(w, b), Others,
         worker[w].thread = "loop",
         b.thread = "loop", b.active = worker[w].active, b.active \in Jobs, b.job = worker[w].job,
         b.conn \notin {"none", "connecting"},
         Tidy(b, inbox[w], pending[w], answer'[w]),
         status' = status, output' = output, inbox' = inbox, pending' = pending, closed' = closed,
         answer' \in [Calls -> {"none", "ok", "error", "junk"}],
         \A x \in Calls : x # w => answer'[x] = answer[x]
  PROVE  IInv'
<1> DEFINE r == Completed(b)
<1>1. /\ r \in Worker /\ Tidy(r, inbox[w], pending[w], answer'[w])
      /\ r.thread \in {"loop", "claim"} /\ r.active \in {NoJob, b.active}
      /\ r.job \in {NoJob, b.job, b.active}
  BY Completing
<1>2. Set(w, r) /\ input' = (IF b.written THEN Erased(b.active) ELSE input)
  BY DEF Completes
<1>3. input' \in [Jobs -> {"whole", "blank"}]
  BY <1>2, Types DEF Erased
<1>4. ~ Clear(worker[w], inbox[w])
  BY Names DEF Clear
<1> HIDE DEF r
<1> QED
  BY <1>1, <1>2, <1>3, <1>4, Types, QuietTurn

LEMMA WrittenStep == ASSUME IInv, NEW w \in Calls, Written(w) PROVE IInv'
<1> DEFINE b == [worker[w] EXCEPT !.written = TRUE]
<1>1. /\ worker[w] \in Worker /\ Tidy(worker[w], inbox[w], pending[w], answer[w])
      /\ worker[w].thread = "loop" /\ worker[w].active # NoJob
  BY TheWorker DEF Written, Listening
<1>2. pending[w] = worker[w].active \/ answer[w] # "none" \/ worker[w].response # "none"
  BY DEF Written
<1>3. worker[w].active \in Jobs /\ worker[w].conn \notin {"none", "connecting"}
  BY <1>1, <1>2 DEF Tidy, Worker
<1>4. b \in Worker
  BY <1>1 DEF Worker
<1>5. /\ b.thread = "loop" /\ b.active = worker[w].active /\ b.job = worker[w].job
      /\ b.conn = worker[w].conn /\ b.response = worker[w].response
  BY <1>1 DEF Worker
<1>6. Completes(w, b)
  BY DEF Written
<1> HIDE DEF b
<1>7. Tidy(b, inbox[w], pending[w], answer[w])
  BY <1>1, <1>5 DEF Tidy, Busy, Ending
<1>8. /\ status' = status /\ output' = output /\ inbox' = inbox /\ closed' = closed
      /\ pending' = pending /\ answer' = answer /\ Others
  BY DEF Written, daemon
<1> QED
  BY <1>1, <1>3, <1>4, <1>5, <1>6, <1>7, <1>8, Types, CompleteStep

LEMMA DataStep == ASSUME IInv, NEW w \in Calls, Data(w) PROVE IInv'
<1>1. /\ worker[w] \in Worker /\ Tidy(worker[w], inbox[w], pending[w], answer[w])
      /\ worker[w].thread = "loop" /\ answer[w] # "none"
  BY TheWorker DEF Data, Listening
<1>2. /\ status' = status /\ output' = output /\ inbox' = inbox /\ pending' = pending /\ Others
      /\ answer' = [answer EXCEPT ![w] = "none"]
  BY DEF Data
<1>3. /\ answer' \in [Calls -> {"none", "ok", "error", "junk"}] /\ answer'[w] = "none"
      /\ \A x \in Calls : x # w => answer'[x] = answer[x]
  BY <1>2, Types
<1>4. CASE Close(w, worker[w])
  BY <1>1, <1>2, <1>3, <1>4, CloseStep
<1>5. CASE /\ worker[w].active # NoJob
           /\ Completes(w, [worker[w] EXCEPT !.response = answer[w]])
           /\ UNCHANGED closed
  <2> DEFINE b == [worker[w] EXCEPT !.response = answer[w]]
  <2>1. worker[w].active \in Jobs /\ worker[w].conn \notin {"none", "connecting"}
    BY <1>1, <1>5 DEF Tidy, Worker
  <2>2. answer[w] \in {"ok", "error", "junk"}
    BY <1>1, Types
  <2>3. b \in Worker
    BY <1>1, <2>2 DEF Worker
  <2>4. /\ b.thread = "loop" /\ b.active = worker[w].active /\ b.job = worker[w].job
        /\ b.conn = worker[w].conn
    BY <1>1 DEF Worker
  <2>5. Completes(w, b)
    BY <1>5
  <2> HIDE DEF b
  <2>6. Tidy(b, inbox[w], pending[w], answer'[w])
    BY <1>1, <2>1, <2>4 DEF Tidy, Busy, Ending
  <2> QED
    BY <1>1, <1>2, <1>3, <1>5, <2>1, <2>3, <2>4, <2>5, <2>6, CompleteStep
<1> QED
  BY <1>4, <1>5 DEF Data

LEMMA AnswerStep == ASSUME IInv, NEW w \in Calls, Answer(w) PROVE IInv'
<1> DEFINE r == worker[w]
<1>1. /\ r \in Worker /\ Tidy(r, inbox[w], pending[w], answer[w]) /\ pending[w] # NoJob
  BY TheWorker DEF Answer
<1>2. PICK a \in {"ok", "error", "junk"} : answer' = [answer EXCEPT ![w] = a]
  BY DEF Answer
<1>3. /\ status' = status /\ output' = output /\ inbox' = inbox /\ input' = input
      /\ closed' = closed /\ worker' = worker /\ Others
      /\ pending' = [pending EXCEPT ![w] = NoJob]
  BY DEF Answer, shared
<1>4. /\ answer' \in [Calls -> {"none", "ok", "error", "junk"}]
      /\ pending' \in [Calls -> Jobs \cup {NoJob}] /\ pending'[w] = NoJob
      /\ \A x \in Calls : x # w => pending'[x] = pending[x] /\ answer'[x] = answer[x]
  BY <1>2, <1>3, Types
<1>5. Set(w, r)
  BY <1>3, Types DEF Set
<1>6. r.conn \notin {"none", "connecting"} /\ r.thread # "none"
  BY <1>1 DEF Tidy
<1>7. Tidy(r, inbox[w], pending'[w], answer'[w])
  BY <1>1, <1>6 DEF Tidy
<1> QED
  BY <1>1, <1>3, <1>4, <1>5, <1>6, <1>7, Types, QuietTurn

LEMMA ReceiveStep == ASSUME IInv, NEW w \in Calls, Receive(w) PROVE IInv'
<1> DEFINE q == worker[w]
           j == inbox[w]
<1>1. /\ q \in Worker /\ Tidy(q, j, pending[w], answer[w])
      /\ q.thread = "loop" /\ q.open /\ j \in Jobs
  BY TheWorker, Types DEF Receive, Listening
<1>2. q.active = NoJob
  BY <1>1, Names DEF Tidy
<1>3. /\ output' = output /\ pending' = pending /\ answer' = answer /\ Others
      /\ inbox' = [inbox EXCEPT ![w] = NoJob]
  BY DEF Receive, daemon
<1>4. /\ inbox' \in [Calls -> Jobs \cup {NoJob}] /\ inbox'[w] = NoJob
      /\ \A x \in Calls : x # w => inbox'[x] = inbox[x]
  BY <1>3, Types
<1>5. /\ main' = main /\ session' = session /\ checked' = checked /\ dying' = dying
      /\ doomed' = doomed /\ informed' = informed
  BY <1>3 DEF Others
<1>6. ~ Clear(q, j) /\ j \in Held(q, j)
  BY <1>1, Names DEF Clear, Held
<1>7. CASE closed[w]
  <2> DEFINE r == [q EXCEPT !.thread = "dead", !.open = FALSE]
  <2>1. /\ status' = [status EXCEPT ![j] = IF status[j] = "waiting" THEN "failed" ELSE status[j]]
        /\ closed' = [closed EXCEPT ![w] = TRUE]
        /\ input' = [Erased(q.active) EXCEPT ![j] = "blank"]
        /\ Set(w, r)
    BY <1>2, <1>7 DEF Receive
  <2>2. r \in Worker
    BY <1>1 DEF Worker
  <2>3. /\ r.thread = "dead" /\ r.active = NoJob /\ r.job = q.job /\ r.conn = q.conn
        /\ r.response = q.response
    BY <1>1, <1>2 DEF Worker
  <2>4. status' \in [Jobs -> Status] /\ \A k \in Jobs : k # j => status'[k] = status[k]
    BY <2>1, Types DEF Status
  <2>5. status'[j] # "answered" \/ status[j] = "answered"
    BY <1>1, <2>1, Types
  <2>6. status[j] = "answered" => status'[j] = "answered"
    BY <1>1, <2>1, Types
  <2>7. input' \in [Jobs -> {"whole", "blank"}] /\ closed' \in [Calls -> BOOLEAN]
    BY <1>1, <1>2, <2>1, Types DEF Erased
  <2>8. worker' \in [Calls -> Worker]
    BY <2>1, <2>2, Types DEF Set
  <2> HIDE DEF r
  <2>9. TypeOK'
    BY <1>3, <1>4, <1>5, <2>4, <2>7, <2>8, Types DEF TypeOK
  <2>10. Tidy(r, inbox'[w], pending'[w], answer'[w])
    BY <1>1, <1>3, <1>4, <2>3 DEF Tidy, Busy, Ending
  <2>11. \A k \in Jobs : k \notin Held(q, j) => status'[k] = status[k] /\ output'[k] = output[k]
    BY <1>3, <1>6, <2>4
  <2>12. \A k \in Jobs : /\ status[k] = "answered" => status'[k] = "answered"
                         /\ status'[k] = "answered" => status[k] = "answered"
    BY <2>4, <2>5, <2>6
  <2> QED
    BY <1>1, <1>2, <1>3, <1>4, <1>6, <2>1, <2>2, <2>3, <2>9, <2>10, <2>11, <2>12, TurnInv
<1>8. CASE ~ closed[w]
  <2> DEFINE conn == IF q.conn = "none" THEN "connecting" ELSE q.conn
             t == IF q.conn = "ready" THEN "check" ELSE "loop"
             r == [q EXCEPT !.active = j, !.written = FALSE, !.conn = conn, !.thread = t]
  <2>1. /\ Set(w, r) /\ UNCHANGED <<status, input, closed>>
    BY <1>2, <1>8 DEF Receive
  <2>2. conn \in {"none", "connecting", "unverified", "ready"} /\ conn # "none"
    BY <1>1 DEF Worker
  <2>3. r \in Worker
    BY <1>1, <2>2 DEF Worker
  <2>4. /\ r.thread = t /\ r.active = j /\ r.job = q.job /\ r.conn = conn
        /\ r.response = q.response
    BY <1>1 DEF Worker
  <2>5. worker' \in [Calls -> Worker]
    BY <2>1, <2>3, Types DEF Set
  <2>6. /\ t \in {"check", "loop"} /\ (t = "check" => q.conn = "ready" /\ conn = "ready")
        /\ conn \in {"none", "connecting"} => q.conn \in {"none", "connecting"}
    OBVIOUS
  <2> HIDE DEF r, conn, t
  <2>7. TypeOK'
    BY <1>3, <1>4, <1>5, <2>1, <2>5, Types DEF TypeOK
  <2>8. Tidy(r, inbox'[w], pending'[w], answer'[w])
    BY <1>1, <1>3, <1>4, <2>4, <2>6, Names DEF Tidy, Busy, Ending
  <2> QED
    BY <1>1, <1>2, <1>3, <1>4, <1>6, <2>1, <2>3, <2>4, <2>6, <2>7, <2>8, TurnInv
<1> QED
  BY <1>7, <1>8

\* Whose turn it is to end a job.
LEMMA Ends ==
  ASSUME IInv, NEW w \in Calls, worker[w].thread \in Ending
  PROVE  /\ worker[w] \in Worker /\ Tidy(worker[w], inbox[w], pending[w], answer[w])
         /\ worker[w].active = NoJob /\ inbox[w] = NoJob /\ worker[w].job \in Jobs
         /\ worker[w].job \in Held(worker[w], inbox[w])
         /\ ~ Clear(worker[w], inbox[w]) /\ worker[w].thread # "none"
<1>1. worker[w] \in Worker /\ Tidy(worker[w], inbox[w], pending[w], answer[w])
  BY TheWorker
<1> QED
  BY <1>1 DEF Tidy, Held, Clear, Busy, Ending

\* The end of a turn.
LEMMA Resting ==
  ASSUME NEW q \in Worker, NEW i, NEW f, NEW a, Tidy(q, i, f, a), q.thread \in Ending
  PROVE  /\ Rest(q) \in Worker /\ Tidy(Rest(q), i, f, a) /\ Clear(Rest(q), i)
         /\ Rest(q).thread \in {"loop", "dead"} /\ Rest(q).active = NoJob /\ Rest(q).job = NoJob
<1> DEFINE t == IF q.open THEN "loop" ELSE "dead"
           r == [q EXCEPT !.thread = t, !.job = NoJob]
<1>1. Rest(q) = r
  BY DEF Rest
<1>2. r \in Worker
  BY DEF Worker
<1>3. /\ r.thread = t /\ r.job = NoJob /\ r.active = q.active /\ r.conn = q.conn
      /\ r.response = q.response /\ r.open = q.open
  BY DEF Worker
<1>4. t \in {"loop", "dead"} /\ (t = "loop" => q.open)
  OBVIOUS
<1> HIDE DEF r, t
<1>5. i = NoJob /\ q.active = NoJob
  BY DEF Tidy, Busy, Ending
<1>6. Tidy(r, i, f, a) /\ Clear(r, i)
  BY <1>3, <1>4, <1>5 DEF Tidy, Clear, Busy, Ending
<1> QED
  BY <1>1, <1>2, <1>3, <1>4, <1>5, <1>6

LEMMA ClaimStep == ASSUME IInv, NEW w \in Calls, Claim(w) PROVE IInv'
<1> DEFINE q == worker[w]
<1>1. /\ q \in Worker /\ Tidy(q, inbox[w], pending[w], answer[w]) /\ q.thread = "claim"
      /\ q.active = NoJob /\ inbox[w] = NoJob /\ q.job \in Jobs
      /\ q.job \in Held(q, inbox[w]) /\ ~ Clear(q, inbox[w])
  BY Ends DEF Claim, Ending
<1>2. /\ output' = output /\ inbox' = inbox /\ input' = input /\ closed' = closed
      /\ pending' = pending /\ answer' = answer /\ Others
  BY DEF Claim, daemon
<1>3. CASE status[q.job] = "waiting"
  <2> DEFINE r == [q EXCEPT !.thread = "copy"]
  <2>1. /\ status' = [status EXCEPT ![q.job] = "copying"] /\ Set(w, r)
    BY <1>3 DEF Claim
  <2>2. r \in Worker
    BY <1>1 DEF Worker
  <2>3. /\ r.thread = "copy" /\ r.active = q.active /\ r.job = q.job /\ r.conn = q.conn
        /\ r.response = q.response /\ r.open = q.open
    BY <1>1 DEF Worker
  <2>4. status' \in [Jobs -> Status] /\ \A k \in Jobs : k # q.job => status'[k] = status[k]
    BY <2>1, Types DEF Status
  <2>5. status'[q.job] = "copying"
    BY <1>1, <2>1, Types
  <2>6. worker' \in [Calls -> Worker]
    BY <2>1, <2>2, Types DEF Set
  <2> HIDE DEF r
  <2>7. TypeOK'
    BY <1>2, <2>4, <2>6, Types DEF TypeOK, Others
  <2>8. Tidy(r, inbox'[w], pending'[w], answer'[w])
    BY <1>1, <1>2, <2>3 DEF Tidy, Busy, Ending
  <2>9. \A k \in Jobs : /\ k \notin Held(q, inbox[w]) => status'[k] = status[k]
                        /\ status'[k] = "answered" => status[k] = "answered"
                        /\ status[k] = "answered" => status'[k] = "answered"
    BY <1>1, <1>3, <2>4, <2>5
  <2> QED
    BY <1>1, <1>2, <2>1, <2>2, <2>3, <2>7, <2>8, <2>9, TurnInv
<1>4. CASE status[q.job] # "waiting"
  <2> DEFINE r == Rest(q)
  <2>1. status' = status /\ Set(w, r)
    BY <1>4 DEF Claim
  <2>2. /\ r \in Worker /\ Tidy(r, inbox[w], pending[w], answer[w])
        /\ r.thread \in {"loop", "dead"} /\ r.active = NoJob /\ r.job = NoJob
    BY <1>1, Resting DEF Ending
  <2> HIDE DEF r
  <2> QED
    BY <1>1, <1>2, <2>1, <2>2, Types, QuietTurn
<1> QED
  BY <1>3, <1>4

LEMMA CopyStep == ASSUME IInv, NEW w \in Calls, Copy(w) PROVE IInv'
<1> DEFINE q == worker[w]
           r == [q EXCEPT !.thread = "publish"]
<1>1. /\ q \in Worker /\ Tidy(q, inbox[w], pending[w], answer[w]) /\ q.thread = "copy"
      /\ q.active = NoJob /\ inbox[w] = NoJob /\ q.job \in Jobs
      /\ q.job \in Held(q, inbox[w]) /\ ~ Clear(q, inbox[w])
  BY Ends DEF Copy, Ending
<1>2. /\ status' = status /\ inbox' = inbox /\ input' = input /\ closed' = closed
      /\ pending' = pending /\ answer' = answer /\ Others /\ Set(w, r)
      /\ output' = [output EXCEPT ![q.job] = q.bytes]
  BY DEF Copy, daemon
<1>3. r \in Worker
  BY <1>1 DEF Worker
<1>4. /\ r.thread = "publish" /\ r.active = q.active /\ r.job = q.job /\ r.conn = q.conn
      /\ r.response = q.response /\ r.open = q.open /\ r.bytes = q.bytes
  BY <1>1 DEF Worker
<1>5. /\ output' \in [Jobs -> {"blank", "ok", "error", "junk", "closed"}]
      /\ output'[q.job] = q.bytes /\ \A k \in Jobs : k # q.job => output'[k] = output[k]
  BY <1>1, <1>2, Types DEF Worker
<1>6. worker' \in [Calls -> Worker]
  BY <1>2, <1>3, Types DEF Set
<1> HIDE DEF r
<1>7. TypeOK'
  BY <1>2, <1>5, <1>6, Types DEF TypeOK, Others
<1>8. Tidy(r, inbox'[w], pending'[w], answer'[w])
  BY <1>1, <1>2, <1>4 DEF Tidy, Busy, Ending
<1>9. \A k \in Jobs : k \notin Held(q, inbox[w]) => output'[k] = output[k]
  BY <1>1, <1>5
<1> QED
  BY <1>1, <1>2, <1>3, <1>4, <1>5, <1>7, <1>8, <1>9, TurnInv

\* The status word is set over the bytes that were copied.
LEMMA PublishStep == ASSUME IInv, NEW w \in Calls, Publish(w) PROVE IInv'
<1> DEFINE q == worker[w]
           r == Rest(q)
           s == IF q.bytes = "closed" THEN "failed" ELSE "answered"
<1>1. /\ q \in Worker /\ Tidy(q, inbox[w], pending[w], answer[w]) /\ q.thread = "publish"
      /\ q.active = NoJob /\ inbox[w] = NoJob /\ q.job \in Jobs
      /\ q.job \in Held(q, inbox[w]) /\ ~ Clear(q, inbox[w])
  BY Ends DEF Publish, Ending
<1>2. /\ inbox' = inbox /\ input' = input /\ closed' = closed
      /\ pending' = pending /\ answer' = answer /\ Others /\ Set(w, r)
  BY DEF Publish, daemon
<1>3. /\ r \in Worker /\ Tidy(r, inbox[w], pending[w], answer[w]) /\ Clear(r, inbox[w])
      /\ r.thread \in {"loop", "dead"} /\ r.active = NoJob /\ r.job = NoJob
  BY <1>1, Resting DEF Ending
<1> HIDE DEF r
<1>4. worker' \in [Calls -> Worker]
  BY <1>2, <1>3, Types DEF Set
<1>5. CASE status[q.job] = "copying"
  <2>1. status' = [status EXCEPT ![q.job] = s] /\ output' = output
    BY <1>5 DEF Publish
  <2>2. status' \in [Jobs -> Status] /\ \A k \in Jobs : k # q.job => status'[k] = status[k]
    BY <2>1, Types DEF Status
  <2>3. status'[q.job] = s
    BY <1>1, <2>1, Types
  <2>4. main.at = "wait" /\ q.job = Job => output[Job] = q.bytes
    BY <1>1, <1>5 DEF IInv, WaitInv
  <2>5. ASSUME main.at = "wait", q.job = Job, s = "answered"
        PROVE  output'[Job] \in {"ok", "error", "junk"}
    BY <1>1, <2>1, <2>4, <2>5 DEF Worker
  <2>6. TypeOK'
    BY <1>2, <1>4, <2>1, <2>2, Types DEF TypeOK, Others
  <2> HIDE DEF s
  <2>7. \A k \in Jobs : /\ k \notin Held(q, inbox[w]) => status'[k] = status[k]
                        /\ main.at = "wait" /\ k = Job /\ status'[k] = "answered" /\ status[k] # "answered" =>
                             output'[k] \in {"ok", "error", "junk"}
                        /\ status[k] = "answered" => status'[k] = "answered"
    BY <1>1, <1>5, <2>2, <2>3, <2>5
  <2> QED
    BY <1>1, <1>2, <1>3, <2>1, <2>6, <2>7, TurnInv
<1>6. CASE status[q.job] # "copying"
  <2>1. status' = status /\ output' = [output EXCEPT ![q.job] = "blank"]
    BY <1>6 DEF Publish
  <2>2. /\ output' \in [Jobs -> {"blank", "ok", "error", "junk", "closed"}]
        /\ \A k \in Jobs : k # q.job => output'[k] = output[k]
    BY <2>1, Types
  <2>3. TypeOK'
    BY <1>2, <1>4, <2>1, <2>2, Types DEF TypeOK, Others
  <2>4. \A k \in Jobs : k \notin Held(q, inbox[w]) => output'[k] = output[k]
    BY <1>1, <2>2
  <2> QED
    BY <1>1, <1>2, <1>3, <2>1, <2>3, <2>4, TurnInv
<1> QED
  BY <1>5, <1>6

-----------------------------------------------------------------------------
(* The steps of the main thread.                                            *)

\* What the main thread relies on when it sends a secret.
Trusted(m, s, c, i) ==
  Checks => /\ c => s \in i
            /\ m.at \in {"post", "wait"} /\ m.part = "request" => s \in i

LEMMA MainInv ==
  ASSUME IInv, TypeOK', worker' = worker, inbox' = inbox, pending' = pending, answer' = answer,
         main'.call = main.call, NameInv', PostInv', WaitInv',
         Trusted(main', session', checked', informed'), informed \subseteq informed',
         \A j \in Jobs : Unposted(j, main') => Unposted(j, main) /\ status'[j] = status[j]
  PROVE  IInv'
<1>1. WorkerInv'
  BY DEF IInv, WorkerInv
<1>2. FreshInv'
  BY DEF IInv, FreshInv
<1>3. InformedInv'
  <2>1. SUFFICES ASSUME Checks PROVE InformedInv'
    BY DEF InformedInv
  <2>2. \A w \in Calls :
          inbox[w][2] = "request" \/ worker[w].active[2] = "request" \/ pending[w][2] = "request" =>
            w \in informed
    BY <2>1 DEF IInv, InformedInv
  <2> QED
    BY <2>1, <2>2 DEF InformedInv, Trusted
<1> QED
  BY <1>1, <1>2, <1>3 DEF IInv

\* The main thread and its job in a call.
LEMMA InCall ==
  ASSUME IInv, main.at \in {"post", "wait"}
  PROVE  /\ session \in Calls /\ main.call \in Calls /\ main.part \in {"info", "request"}
         /\ Job \in Jobs /\ Job = <<main.call, main.part>>
         /\ Trusted(main, session, checked, informed)
<1>1. session \in Calls /\ main.call \in Calls
  BY DEF IInv, NameInv
<1>2. main.part \in {"info", "request"}
  BY Types
<1> QED
  BY <1>1, <1>2 DEF Job, Jobs, IInv, InformedInv, Trusted

LEMMA ToIdle ==
  ASSUME IInv, NEW at \in {"idle", "disposed"}, main' = [main EXCEPT !.at = at]
  PROVE  /\ main'.at = at /\ main'.call = main.call /\ main'.part = main.part
         /\ main' \in [at : {"idle", "post", "wait", "disposed"}, call : 0..MaxCalls,
                       part : {"info", "request"}]
         /\ \A j : Unposted(j, main') => Unposted(j, main)
<1>1. main \in [at : {"idle", "post", "wait", "disposed"}, call : 0..MaxCalls,
                part : {"info", "request"}]
  BY Types
<1>2. /\ main'.at = at /\ main'.call = main.call /\ main'.part = main.part
      /\ main' \in [at : {"idle", "post", "wait", "disposed"}, call : 0..MaxCalls,
                    part : {"info", "request"}]
  BY <1>1
<1> QED
  BY <1>2 DEF Unposted

LEMMA FailsInv ==
  ASSUME IInv, main.at \in {"post", "wait"}, Fails, status' \in [Jobs -> Status],
         \A j \in Jobs : j # Job => status'[j] = status[j]
  PROVE  IInv'
<1>1. /\ session \in Calls /\ Job \in Jobs /\ Job = <<main.call, main.part>>
      /\ main.call \in Calls /\ main.part \in {"info", "request"}
  BY InCall
<1>2. /\ main' = [main EXCEPT !.at = "idle"] /\ session' = None /\ checked' = FALSE
      /\ closed' = [closed EXCEPT ![session] = TRUE] /\ dying' = dying \cup {session}
      /\ doomed' = [doomed EXCEPT ![session] = Job]
      /\ input' = [input EXCEPT ![Job] = "blank"] /\ output' = [output EXCEPT ![Job] = "blank"]
      /\ inbox' = inbox /\ worker' = worker /\ pending' = pending /\ answer' = answer
      /\ informed' = informed
  BY DEF Fails, Retire, daemon
<1>3. /\ main'.at = "idle" /\ main'.call = main.call /\ main'.part = main.part
      /\ main' \in [at : {"idle", "post", "wait", "disposed"}, call : 0..MaxCalls,
                    part : {"info", "request"}]
      /\ \A j : Unposted(j, main') => Unposted(j, main)
  BY <1>2, ToIdle
<1> HIDE DEF Job
<1>4. TypeOK'
  <2>1. /\ input' \in [Jobs -> {"whole", "blank"}]
        /\ output' \in [Jobs -> {"blank", "ok", "error", "junk", "closed"}]
        /\ doomed' \in [Calls -> Jobs \cup {NoJob}] /\ closed' \in [Calls -> BOOLEAN]
        /\ dying' \subseteq Calls
    BY <1>1, <1>2, Types
  <2>2. session' \in 0..MaxCalls /\ checked' \in BOOLEAN
    BY <1>2, NoneIn
  <2> QED
    BY <1>2, <1>3, <2>1, <2>2, Types DEF TypeOK
<1>5. NameInv' /\ PostInv' /\ WaitInv'
  <2>1. main.call \in Nat /\ None = 0
    BY Types, Names
  <2> QED
    BY <1>2, <1>3, <2>1 DEF NameInv, PostInv, WaitInv
<1>6. ASSUME NEW j \in Jobs, Unposted(j, main') PROVE status'[j] = status[j]
  <2>1. j # Job
    <3>1. main.call \in Nat
      BY <1>1, Names
    <3> QED
      BY <1>1, <1>3, <1>6, <3>1 DEF Unposted
  <2> QED
    BY <2>1
<1>7. Trusted(main', session', checked', informed')
  BY <1>2, <1>3 DEF Trusted
<1> QED
  BY <1>2, <1>3, <1>4, <1>5, <1>6, <1>7, MainInv

LEMMA TooLateStep == ASSUME IInv, TooLate PROVE IInv'
<1>1. Fails /\ main.at = "post" /\ status' = status
  BY DEF TooLate
<1> QED
  BY <1>1, Types, FailsInv

LEMMA LostStep == ASSUME IInv, Lost PROVE IInv'
<1>1. Fails /\ main.at = "wait" /\ status' = status
  BY DEF Lost
<1> QED
  BY <1>1, Types, FailsInv

LEMMA GiveUpStep == ASSUME IInv, GiveUp PROVE IInv'
<1>1. Fails /\ main.at = "wait" /\ status' = [status EXCEPT ![Job] = "givenUp"]
  BY DEF GiveUp
<1>2. status' \in [Jobs -> Status] /\ \A j \in Jobs : j # Job => status'[j] = status[j]
  BY <1>1, Types DEF Status
<1> QED
  BY <1>1, <1>2, FailsInv

\* An answer taken leaves the worker clear for the next job.
LEMMA TakenInv ==
  ASSUME IInv, Taken
  PROVE  /\ main.at = "wait" /\ session \in Calls /\ Job \in Jobs
         /\ Clear(worker[session], inbox[session])
         /\ input' \in [Jobs -> {"whole", "blank"}]
         /\ output' \in [Jobs -> {"blank", "ok", "error", "junk", "closed"}]
         /\ status' = status /\ inbox' = inbox /\ worker' = worker /\ pending' = pending
         /\ answer' = answer
<1>1. /\ main.at = "wait" /\ status[Job] = "answered"
      /\ input' = [input EXCEPT ![Job] = "blank"] /\ output' = [output EXCEPT ![Job] = "blank"]
      /\ status' = status /\ inbox' = inbox /\ worker' = worker /\ pending' = pending
      /\ answer' = answer
  BY DEF Taken, daemon
<1>2. session \in Calls /\ Job \in Jobs
  BY <1>1, InCall
<1>3. Clear(worker[session], inbox[session])
  BY <1>1 DEF IInv, WaitInv
<1> QED
  BY <1>1, <1>2, <1>3, Types

LEMMA SucceedStep == ASSUME IInv, Succeed PROVE IInv'
<1>1. /\ main.at = "wait" /\ session \in Calls
      /\ Clear(worker[session], inbox[session])
      /\ input' \in [Jobs -> {"whole", "blank"}]
      /\ output' \in [Jobs -> {"blank", "ok", "error", "junk", "closed"}]
      /\ status' = status /\ inbox' = inbox /\ worker' = worker /\ pending' = pending
      /\ answer' = answer
  BY TakenInv DEF Succeed
<1>2. /\ session' = session /\ closed' = closed /\ dying' = dying /\ doomed' = doomed
      /\ main' = IF main.part = "info" THEN [main EXCEPT !.at = "post", !.part = "request"]
                                       ELSE [main EXCEPT !.at = "idle"]
      /\ checked' = (checked \/ main.part = "info")
      /\ informed' = IF main.part = "info" THEN informed \cup {session} ELSE informed
  BY DEF Succeed
<1>3. /\ main \in [at : {"idle", "post", "wait", "disposed"}, call : 0..MaxCalls,
                   part : {"info", "request"}]
      /\ main.call \in Nat /\ session <= main.call /\ main.call \in Calls
      /\ Trusted(main, session, checked, informed)
  BY <1>1, Types, InCall, Names DEF IInv, NameInv
<1>4. /\ main' \in [at : {"idle", "post", "wait", "disposed"}, call : 0..MaxCalls,
                    part : {"info", "request"}]
      /\ main'.at \in {"post", "idle"} /\ main'.call = main.call /\ main'.part = "request"
      /\ main.part = "request" => main'.at = "idle"
  BY <1>2, <1>3
<1>5. checked' \in BOOLEAN /\ informed' \subseteq Calls /\ informed \subseteq informed'
  BY <1>1, <1>2, Types
<1>6. TypeOK'
  BY <1>1, <1>2, <1>4, <1>5, Types DEF TypeOK
<1>7. NameInv' /\ WaitInv' /\ PostInv'
  BY <1>1, <1>2, <1>3, <1>4 DEF NameInv, WaitInv, PostInv
<1>8. ASSUME NEW j \in Jobs, Unposted(j, main') PROVE Unposted(j, main)
  BY <1>3, <1>4, <1>8 DEF Unposted
<1>9. Trusted(main', session', checked', informed')
  BY <1>2, <1>3, <1>4 DEF Trusted
<1> QED
  BY <1>1, <1>4, <1>5, <1>6, <1>7, <1>8, <1>9, MainInv

LEMMA RefusedStep == ASSUME IInv, Refused PROVE IInv'
<1>1. /\ main.at = "wait" /\ session \in Calls
      /\ Clear(worker[session], inbox[session])
      /\ input' \in [Jobs -> {"whole", "blank"}]
      /\ output' \in [Jobs -> {"blank", "ok", "error", "junk", "closed"}]
      /\ status' = status /\ inbox' = inbox /\ worker' = worker /\ pending' = pending
      /\ answer' = answer
  BY TakenInv DEF Refused
<1>2. doomed' = doomed /\ informed' = informed /\ main' = [main EXCEPT !.at = "idle"]
  BY DEF Refused
<1>3. \/ /\ session' = None /\ checked' = FALSE /\ closed' = [closed EXCEPT ![session] = TRUE]
         /\ dying' = dying \cup {session}
      \/ session' = session /\ checked' = checked /\ closed' = closed /\ dying' = dying
  BY DEF Refused, Retire
<1>4. /\ main'.at = "idle" /\ main'.call = main.call /\ main'.part = main.part
      /\ main' \in [at : {"idle", "post", "wait", "disposed"}, call : 0..MaxCalls,
                    part : {"info", "request"}]
      /\ \A j : Unposted(j, main') => Unposted(j, main)
  BY <1>2, ToIdle
<1>5. /\ session' \in 0..MaxCalls /\ checked' \in BOOLEAN /\ closed' \in [Calls -> BOOLEAN]
      /\ dying' \subseteq Calls
  BY <1>1, <1>3, Types, NoneIn
<1>6. TypeOK'
  BY <1>1, <1>2, <1>4, <1>5, Types DEF TypeOK
<1>7. NameInv' /\ WaitInv' /\ PostInv'
  <2>1. main.call \in Nat /\ session <= main.call /\ None = 0
    BY Types, Names DEF IInv, NameInv
  <2> QED
    BY <1>1, <1>2, <1>3, <1>4, <2>1 DEF NameInv, WaitInv, PostInv
<1>8. Trusted(main', session', checked', informed')
  BY <1>1, <1>2, <1>3, <1>4, InCall DEF Trusted
<1> QED
  BY <1>1, <1>2, <1>4, <1>6, <1>7, <1>8, MainInv

LEMMA DisposeStep == ASSUME IInv, Dispose PROVE IInv'
<1>1. /\ main.at = "idle" /\ main' = [main EXCEPT !.at = "disposed"]
      /\ status' = status /\ input' = input /\ output' = output /\ inbox' = inbox
      /\ doomed' = doomed /\ worker' = worker /\ pending' = pending /\ answer' = answer
      /\ informed' = informed
  BY DEF Dispose, daemon
<1>2. \/ /\ session # None /\ session' = None /\ checked' = FALSE
         /\ closed' = [closed EXCEPT ![session] = TRUE] /\ dying' = dying \cup {session}
      \/ session' = session /\ checked' = checked /\ closed' = closed /\ dying' = dying
  BY DEF Dispose, Retire
<1>3. /\ main'.at = "disposed" /\ main'.call = main.call /\ main'.part = main.part
      /\ main' \in [at : {"idle", "post", "wait", "disposed"}, call : 0..MaxCalls,
                    part : {"info", "request"}]
      /\ \A j : Unposted(j, main') => Unposted(j, main)
  BY <1>1, ToIdle
<1>4. session # None => session \in Calls
  BY Types DEF Calls, None
<1>5. /\ session' \in 0..MaxCalls /\ checked' \in BOOLEAN /\ closed' \in [Calls -> BOOLEAN]
      /\ dying' \subseteq Calls
  BY <1>2, <1>4, Types, NoneIn
<1>6. TypeOK'
  BY <1>1, <1>3, <1>5, Types DEF TypeOK
<1>7. NameInv' /\ WaitInv' /\ PostInv'
  <2>1. main.call \in Nat /\ session <= main.call /\ None = 0
    BY Types, Names DEF IInv, NameInv
  <2> QED
    BY <1>2, <1>3, <2>1 DEF NameInv, WaitInv, PostInv
<1>8. Trusted(main', session', checked', informed')
  BY <1>1, <1>2, <1>3 DEF Trusted, IInv, InformedInv
<1> QED
  BY <1>1, <1>3, <1>6, <1>7, <1>8, MainInv

\* The callbacks of the main thread touch no job it waits for.
LEMMA CallbackInv ==
  ASSUME IInv, Idle, UNCHANGED <<main, session, checked, status, inbox, dying, worker, daemon, informed>>,
         input' \in [Jobs -> {"whole", "blank"}],
         output' \in [Jobs -> {"blank", "ok", "error", "junk", "closed"}],
         doomed' \in [Calls -> Jobs \cup {NoJob}], closed' \in [Calls -> BOOLEAN]
  PROVE  IInv'
<1>1. /\ main' = main /\ session' = session /\ checked' = checked /\ status' = status
      /\ inbox' = inbox /\ dying' = dying /\ worker' = worker /\ pending' = pending
      /\ answer' = answer /\ informed' = informed /\ main.at # "wait"
  BY DEF daemon, Idle
<1>2. TypeOK'
  BY <1>1, Types DEF TypeOK
<1>3. NameInv' /\ PostInv' /\ WaitInv'
  BY <1>1 DEF IInv, NameInv, PostInv, WaitInv
<1>4. Trusted(main', session', checked', informed')
  BY <1>1 DEF Trusted, IInv, InformedInv
<1> QED
  BY <1>1, <1>2, <1>3, <1>4, MainInv

LEMMA CollectStep == ASSUME IInv, NEW w \in Calls, Collect(w) PROVE IInv'
<1>1. doomed[w] \in Jobs
  BY Types DEF Collect
<1>2. /\ input' \in [Jobs -> {"whole", "blank"}]
      /\ output' \in [Jobs -> {"blank", "ok", "error", "junk", "closed"}]
      /\ doomed' \in [Calls -> Jobs \cup {NoJob}] /\ closed' = closed
  BY <1>1, Types DEF Collect
<1> QED
  BY <1>2, Types, CallbackInv DEF Collect

LEMMA ExitedStep == ASSUME IInv, NEW w \in Calls, Exited(w) PROVE IInv'
<1>1. closed' = [closed EXCEPT ![w] = TRUE] /\ input' = input /\ output' = output /\ doomed' = doomed
  BY DEF Exited, threads
<1>2. closed' \in [Calls -> BOOLEAN]
  BY <1>1, Types
<1>3. Idle /\ UNCHANGED <<main, session, checked, status, inbox, dying, worker, daemon, informed>>
  BY DEF Exited, threads
<1> QED
  BY <1>1, <1>2, <1>3, Types, CallbackInv

LEMMA BeginStep == ASSUME IInv, Begin PROVE IInv'
<1> DEFINE c == main.call + 1
           part == IF Checks /\ ~StillChecked THEN "info" ELSE "request"
<1>1. /\ main.at = "idle" /\ main.call < MaxCalls
      /\ main' = [at |-> "post", call |-> c, part |-> part]
      /\ checked' = StillChecked /\ session' = (IF Usable THEN session ELSE c)
      /\ worker' = (IF Usable THEN worker ELSE [worker EXCEPT ![c].thread = "boot"])
      /\ dying' = (IF Usable \/ session = None THEN dying ELSE dying \cup {session})
      /\ status' = status /\ input' = input /\ output' = output /\ inbox' = inbox
      /\ closed' = closed /\ doomed' = doomed /\ pending' = pending /\ answer' = answer
      /\ informed' = informed
  BY DEF Begin, shared, daemon
<1>2. main.call \in 0..MaxCalls /\ session \in 0..MaxCalls /\ session <= main.call /\ MaxCalls \in Nat
  BY Types, Names DEF IInv, NameInv
<1>3. c \in Calls /\ c \in 0..MaxCalls /\ c > main.call
  BY <1>1, <1>2 DEF Calls
<1>4. session # None => session \in Calls
  BY <1>2 DEF Calls, None
<1>5. /\ worker[c] = NoWorker /\ inbox[c] = NoJob /\ pending[c] = NoJob /\ answer[c] = "none"
  BY <1>3 DEF IInv, FreshInv
<1> DEFINE r == [NoWorker EXCEPT !.thread = "boot"]
<1>6. r \in Worker /\ Tidy(r, NoJob, NoJob, "none") /\ Clear(r, NoJob)
      /\ Held(r, NoJob) = {NoJob}
  <2>1. /\ r.thread = "boot" /\ r.active = NoJob /\ r.job = NoJob /\ r.conn = "none"
        /\ r.response = "none" /\ r.open = TRUE
    BY DEF NoWorker
  <2>2. r \in Worker
    BY DEF NoWorker, Worker
  <2> HIDE DEF r
  <2> QED
    BY <2>1, <2>2 DEF Tidy, Clear, Busy, Ending, Held
<1>7. Usable => session # None
  BY DEF Usable
<1>8. /\ ~ Usable => worker' = [worker EXCEPT ![c] = r]
      /\ Usable => worker' = worker
  BY <1>1, <1>3, <1>5, Types
<1> HIDE DEF r
<1>9. /\ \A w \in Calls : w # c => worker'[w] = worker[w]
      /\ worker'[c] = IF Usable THEN worker[c] ELSE r
      /\ worker' \in [Calls -> Worker]
  BY <1>3, <1>6, <1>8, Types
<1>10. part \in {"info", "request"} /\ StillChecked \in BOOLEAN
  BY Types DEF StillChecked, Usable
<1> HIDE DEF part, c
<1>11. main'.at = "post" /\ main'.call = c /\ main'.part = part
  BY <1>1
<1>12. TypeOK'
  <2>1. main' \in [at : {"idle", "post", "wait", "disposed"}, call : 0..MaxCalls,
                   part : {"info", "request"}]
    BY <1>1, <1>3, <1>10
  <2>2. session' \in 0..MaxCalls
    BY <1>1, <1>2, <1>3
  <2>3. dying' \subseteq Calls
    BY <1>1, <1>4, Types
  <2> QED
    BY <1>1, <1>9, <1>10, <2>1, <2>2, <2>3, Types DEF TypeOK
<1>13. NameInv'
  BY <1>1, <1>2, <1>3, <1>4, <1>7, <1>11 DEF NameInv
<1>14. WorkerInv'
  <2>1. ASSUME NEW w \in Calls PROVE Tidy(worker'[w], inbox[w], pending[w], answer[w])
    <3>1. Tidy(worker[w], inbox[w], pending[w], answer[w])
      BY TheWorker
    <3> QED
      BY <1>5, <1>6, <1>9, <3>1
  <2> QED
    BY <1>1, <2>1 DEF WorkerInv
<1>15. FreshInv'
  <2>1. ASSUME NEW w \in Calls, w > c
        PROVE  worker'[w] = NoWorker /\ inbox[w] = NoJob /\ pending[w] = NoJob /\ answer[w] = "none"
    <3>1. w > main.call /\ w # c
      BY <1>2, <1>3, <2>1, Names
    <3> QED
      BY <1>9, <3>1 DEF IInv, FreshInv
  <2>2. ASSUME NEW j \in Jobs, Unposted(j, main')
        PROVE  status[j] = "waiting" /\ \A w \in Calls : j \notin Held(worker'[w], inbox[w])
    <3>1. j[1] \in Nat
      BY Names
    <3>2. j[1] > main.call
      BY <1>2, <1>3, <1>11, <2>2, <3>1 DEF Unposted
    <3>3. status[j] = "waiting" /\ \A w \in Calls : j \notin Held(worker[w], inbox[w])
      BY <3>2 DEF IInv, FreshInv, Unposted
    <3>4. j # NoJob
      BY Names
    <3> QED
      BY <1>5, <1>6, <1>9, <3>3, <3>4
  <2> QED
    BY <1>1, <1>11, <2>1, <2>2 DEF FreshInv
<1>16. PostInv'
  <2>1. Clear(worker'[session'], inbox[session'])
    <3>1. CASE Usable
      BY <1>1, <1>4, <1>7, <1>8, <3>1 DEF IInv, PostInv
    <3>2. CASE ~ Usable
      BY <1>1, <1>5, <1>6, <1>9, <3>2
    <3> QED
      BY <3>1, <3>2
  <2> QED
    BY <1>1, <2>1 DEF PostInv
<1>17. WaitInv'
  BY <1>11 DEF WaitInv
<1>18. InformedInv'
  <2>1. SUFFICES ASSUME Checks PROVE InformedInv'
    BY DEF InformedInv
  <2>2. /\ checked => session \in informed
        /\ \A w \in Calls :
             inbox[w][2] = "request" \/ worker[w].active[2] = "request" \/ pending[w][2] = "request" =>
               w \in informed
    BY <2>1 DEF IInv, InformedInv
  <2>3. StillChecked => session' \in informed
    BY <1>1, <2>2 DEF StillChecked
  <2>4. part = "request" => StillChecked
    BY <2>1 DEF part
  <2>5. r.active[2] # "request"
    BY Names DEF r, NoWorker
  <2>6. \A w \in Calls :
          inbox[w][2] = "request" \/ worker'[w].active[2] = "request" \/ pending[w][2] = "request" =>
            w \in informed
    BY <1>9, <2>2, <2>5
  <2> QED
    BY <1>1, <1>11, <2>3, <2>4, <2>6 DEF InformedInv
<1> QED
  BY <1>12, <1>13, <1>14, <1>15, <1>16, <1>17, <1>18 DEF IInv

\* The job goes to the clear worker of the session, and nobody else has it.
LEMMA PostStep == ASSUME IInv, Post PROVE IInv'
<1>1. /\ main.at = "post" /\ main' = [main EXCEPT !.at = "wait"]
      /\ input' = [input EXCEPT ![Job] = "whole"]
      /\ inbox' = [inbox EXCEPT ![session] = Job]
      /\ session' = session /\ checked' = checked /\ status' = status /\ output' = output
      /\ closed' = closed /\ dying' = dying /\ doomed' = doomed /\ worker' = worker
      /\ pending' = pending /\ answer' = answer /\ informed' = informed
  BY DEF Post, threads, daemon
<1>2. /\ session \in Calls /\ main.call \in Calls /\ main.part \in {"info", "request"}
      /\ Job \in Jobs /\ Job = <<main.call, main.part>>
      /\ Trusted(main, session, checked, informed)
  BY <1>1, InCall
<1>3. /\ main'.at = "wait" /\ main'.call = main.call /\ main'.part = main.part
      /\ main' \in [at : {"idle", "post", "wait", "disposed"}, call : 0..MaxCalls,
                    part : {"info", "request"}]
  BY <1>1, Types
<1>4. Job' = Job
  BY <1>3 DEF Job
<1> HIDE DEF Job
<1>5. /\ inbox' \in [Calls -> Jobs \cup {NoJob}] /\ inbox'[session] = Job
      /\ \A w \in Calls : w # session => inbox'[w] = inbox[w]
      /\ input' \in [Jobs -> {"whole", "blank"}]
  BY <1>1, <1>2, Types
<1>6. Clear(worker[session], inbox[session])
  BY <1>1, <1>2, Names DEF IInv, PostInv
<1>7. status[Job] = "waiting" /\ \A w \in Calls : Job \notin Held(worker[w], inbox[w])
  BY <1>1, <1>2 DEF IInv, FreshInv, Unposted
<1>8. TypeOK'
  BY <1>1, <1>3, <1>5, Types DEF TypeOK
<1>9. NameInv' /\ PostInv'
  BY <1>1, <1>2, <1>3 DEF IInv, NameInv, PostInv
<1>10. WorkerInv'
  <2>1. ASSUME NEW w \in Calls PROVE Tidy(worker[w], inbox'[w], pending[w], answer[w])
    <3>1. worker[w] \in Worker /\ Tidy(worker[w], inbox[w], pending[w], answer[w])
      BY TheWorker
    <3>2. CASE w = session
      BY <1>6, <3>1, <3>2 DEF Tidy, Clear
    <3>3. CASE w # session
      BY <1>5, <3>1, <3>3
    <3> QED
      BY <3>2, <3>3
  <2> QED
    BY <1>1, <2>1 DEF WorkerInv
<1>11. FreshInv'
  <2>1. main.call \in Nat /\ session <= main.call /\ session \in Nat
    BY <1>2, Names DEF IInv, NameInv
  <2>2. ASSUME NEW w \in Calls, w > main.call
        PROVE  worker[w] = NoWorker /\ inbox'[w] = NoJob /\ pending[w] = NoJob /\ answer[w] = "none"
    <3>1. w # session
      BY <2>1, <2>2, Names
    <3> QED
      BY <1>5, <2>2, <3>1 DEF IInv, FreshInv
  <2>3. ASSUME NEW j \in Jobs, Unposted(j, main')
        PROVE  status[j] = "waiting" /\ \A w \in Calls : j \notin Held(worker[w], inbox'[w])
    <3>1. Unposted(j, main) /\ j # Job
      BY <1>2, <1>3, <2>1, <2>3 DEF Unposted
    <3>2. status[j] = "waiting" /\ \A w \in Calls : j \notin Held(worker[w], inbox[w])
      BY <3>1 DEF IInv, FreshInv
    <3> QED
      BY <1>5, <3>1, <3>2 DEF Held
  <2> QED
    BY <1>1, <1>3, <2>2, <2>3 DEF FreshInv
<1>12. WaitInv'
  <2>1. \A w \in Calls : w # session => Job \notin Held(worker[w], inbox'[w])
    BY <1>5, <1>7
  <2> QED
    BY <1>1, <1>4, <1>7, <2>1 DEF WaitInv
<1>13. InformedInv'
  <2>1. SUFFICES ASSUME Checks PROVE InformedInv'
    BY DEF InformedInv
  <2>2. /\ checked => session \in informed
        /\ main.part = "request" => session \in informed
        /\ \A w \in Calls :
             inbox[w][2] = "request" \/ worker[w].active[2] = "request" \/ pending[w][2] = "request" =>
               w \in informed
    BY <1>1, <2>1 DEF IInv, InformedInv
  <2>3. Job[2] = "request" => session \in informed
    BY <1>2, <2>2
  <2>4. \A w \in Calls :
          inbox'[w][2] = "request" \/ worker[w].active[2] = "request" \/ pending[w][2] = "request" =>
            w \in informed
    BY <1>5, <2>2, <2>3
  <2> QED
    BY <1>1, <1>3, <2>2, <2>4 DEF InformedInv
<1> QED
  BY <1>8, <1>9, <1>10, <1>11, <1>12, <1>13 DEF IInv

-----------------------------------------------------------------------------
(* The theorems.                                                            *)

LEMMA InitInv == ASSUME Init PROVE IInv
<1>1. /\ NoWorker \in Worker /\ NoWorker.thread = "none" /\ NoWorker.active = NoJob
      /\ NoWorker.job = NoJob /\ NoWorker.conn = "none" /\ NoWorker.response = "none"
  BY DEF NoWorker, Worker
<1>2. TypeOK
  <2>1. main \in [at : {"idle", "post", "wait", "disposed"}, call : 0..MaxCalls,
                  part : {"info", "request"}]
    BY Names DEF Init
  <2>2. session \in 0..MaxCalls
    BY NoneIn DEF Init
  <2> QED
    BY <1>1, <2>1, <2>2 DEF Init, TypeOK, Status
<1>3. main.at = "idle" /\ main.call = 0 /\ session = None /\ main.part = "request"
  BY DEF Init
<1>4. NameInv /\ PostInv /\ WaitInv
  BY <1>3 DEF NameInv, PostInv, WaitInv, None
<1>5. \A w \in Calls : worker[w] = NoWorker /\ inbox[w] = NoJob /\ pending[w] = NoJob /\ answer[w] = "none"
  BY DEF Init
<1>6. WorkerInv
  BY <1>1, <1>5 DEF WorkerInv, Tidy, Ending, Busy
<1>7. FreshInv
  <2>1. \A j \in Jobs : j # NoJob /\ status[j] = "waiting"
    BY Names DEF Init
  <2> QED
    BY <1>1, <1>5, <2>1 DEF FreshInv, Held
<1>8. InformedInv
  BY <1>1, <1>3, <1>5, Names DEF Init, InformedInv
<1> QED
  BY <1>2, <1>4, <1>6, <1>7, <1>8 DEF IInv

LEMMA NextInv == ASSUME IInv, [Next]_vars PROVE IInv'
<1>1. ASSUME Main PROVE IInv'
  BY <1>1, BeginStep, PostStep, TooLateStep, SucceedStep, RefusedStep, LostStep, GiveUpStep DEF Main
<1>2. ASSUME NEW w \in Calls, Loop(w) \/ Turn(w) PROVE IInv'
  BY <1>2, AbortStep, ReceiveStep, ConnectedStep, WrittenStep, DataStep, BrokenStep, BootStep,
     CheckStep, WriteStep, ClaimStep, CopyStep, PublishStep, DieStep DEF Loop, Turn
<1>3. CASE UNCHANGED vars
  <2>1. /\ main' = main /\ session' = session /\ checked' = checked /\ status' = status
        /\ input' = input /\ output' = output /\ inbox' = inbox /\ closed' = closed
        /\ dying' = dying /\ doomed' = doomed /\ worker' = worker /\ pending' = pending
        /\ answer' = answer /\ informed' = informed
    BY <1>3 DEF vars, shared, threads, daemon
  <2> QED
    BY <2>1 DEF IInv, TypeOK, NameInv, WorkerInv, FreshInv, PostInv, WaitInv, InformedInv, Job
<1> QED
  BY <1>1, <1>2, <1>3, DisposeStep, CollectStep, ExitedStep, AnswerStep DEF Next

\* Every reachable state of a store with any number of calls satisfies the invariant.
THEOREM Invariance == Spec => []IInv
<1>1. Init => IInv
  BY InitInv
<1>2. IInv /\ [Next]_vars => IInv'
  BY NextInv
<1> QED
  BY <1>1, <1>2, PTL DEF Spec

\* The variables keep their types.
THEOREM TypeSafety == Spec => []TypeOK
<1>1. IInv => TypeOK
  BY DEF IInv
<1> QED
  BY <1>1, Invariance, PTL

\* The main thread reads an answer only when it is there, a worker has one job at a
\* time, and no secret is sent to a daemon that is not the one expected
\* (VaultSyncSecretStore.request, worker receive and finish), after any calls.
THEOREM CallsKeepApart == Spec => []CallsApart
<1>1. ASSUME IInv PROVE CallsApart
  <2>1. main.at = "wait" /\ status[Job] = "answered" => output[Job] \in {"ok", "error", "junk"}
    BY <1>1 DEF IInv, WaitInv
  <2>2. \A w \in Calls : inbox[w] # NoJob /\ Listening(w) => worker[w].active = NoJob
    BY <1>1, TheWorker DEF Tidy
  <2>3. \A w \in Calls : Checks /\ pending[w][2] = "request" => w \in informed
    BY <1>1 DEF IInv, InformedInv
  <2> QED
    BY <2>1, <2>2, <2>3 DEF CallsApart
<1> QED
  BY <1>1, Invariance, PTL

=============================================================================
