----------------------------- MODULE StatusWatch -----------------------------
(***************************************************************************)
(* `x402 status` and `mpp status`: a command follows one transaction while *)
(* InFlow moves it and another command cancels its approval.               *)
(*                                                                         *)
(* pollAsync asks, compares and sleeps; runX402Status and runMppStatus     *)
(* turn what it yields into events; the command prints a frame for each of *)
(* them, or a view shows them until it ends or Escape is pressed.          *)
(***************************************************************************)
EXTENDS Integers, Sequences

CONSTANTS
  MaxPolls,    \* bound on the answers of a watch that neither counts them nor has a deadline
  MaxMoves     \* bound on the moves of the transaction

VARIABLES
  tx,       \* what InFlow answers about the transaction
  watch,    \* the status command: its options and its control
  seen,     \* every answer it got
  shown,    \* every answer it printed or showed
  file,     \* --payload-file or --credential-file holds the credential
  cancel,   \* a cancel command of another process
  moves

vars == <<tx, watch, seen, shown, file, cancel, moves>>

\* The transactions of a protocol, by what the code looks at.  An x402 payload has two parts.
Transactions(protocol) ==
  IF protocol = "x402"
  THEN [status : {"INITIATED", "APPROVED", "DECLINED", "CANCELLED"}, credential : BOOLEAN, payload : BOOLEAN]
  ELSE [status : {"pending", "ready", "failed", "expired"}, credential : BOOLEAN, payload : {FALSE}]

Beginning(protocol) ==
  [status |-> IF protocol = "x402" THEN "INITIATED" ELSE "pending", credential |-> FALSE, payload |-> FALSE]

Classes == {"pending", "settled", "failed", "expired"}

\* The endings: those of an event, those of useFlowExit and those of a thrown error.
Endings == {"none", "settled", "failed", "expired", "timed out", "crashed",
            "snapshot", "thrown", "stopped"}

\* interval > 0 waits; attempts is --max-attempts, deadline is --timeout (0, later or negative).
Options == [protocol : {"x402", "mpp"}, view : BOOLEAN, waits : BOOLEAN, saves : BOOLEAN,
            attempts : {0, 2}, deadline : {"now", "later", "never"}]

\* A view ignores the file option, and without an interval nothing is counted.
Commands ==
  {o \in Options :
     /\ ~(o.view /\ o.saves)
     /\ ~o.waits => o.attempts = 0 /\ o.deadline = "never"}

Watch == [options : Options,
          at : {"fetch", "sleep", "settling", "ended"},
          late : BOOLEAN,      \* the deadline has passed
          phase : Endings,     \* the event the view has yet to act on
          ending : Endings]

\* A command that prints passes an error on; a view says cancelled in any case.
Reports == {"cancelled", "error"}

TypeOK ==
  /\ watch \in Watch
  /\ tx \in Transactions(watch.options.protocol)
  /\ seen \in Seq(Transactions(watch.options.protocol))
  /\ shown \in Seq(Transactions(watch.options.protocol))
  /\ file \in BOOLEAN
  /\ cancel \in {"before", "sent"} \cup Reports
  /\ moves \in 0..MaxMoves

Init ==
  /\ \E o \in Commands :
       watch = [options |-> o, at |-> "fetch", late |-> o.deadline = "now",
                phase |-> "none", ending |-> "none"]
  /\ tx = Beginning(watch.options.protocol)
  /\ seen = <<>> /\ shown = <<>> /\ file = FALSE
  /\ cancel = "before"
  /\ moves = 0

options == watch.options
Last(s) == s[Len(s)]

-----------------------------------------------------------------------------
(* What an answer means.                                                    *)

\* classifyPayloadResponse.  An approval that was cancelled is pending for ever.
PayloadClass(t) ==
  IF t.credential /\ t.payload THEN "settled" ELSE IF t.status = "DECLINED" THEN "failed" ELSE "pending"

\* TERMINAL_STATES.  A credential is not required of a ready transaction.
TransactionClass(t) == IF t.status = "ready" THEN "settled" ELSE t.status

Class(t) == IF options.protocol = "x402" THEN PayloadClass(t) ELSE TransactionClass(t)

\* The event of a value that ends the poll without a reason: all the rest is a failure.
PayloadEvent(t) == IF PayloadClass(t) = "settled" THEN "settled" ELSE "failed"

TransactionEvent(t) ==
  IF TransactionClass(t) \in {"settled", "expired"} THEN TransactionClass(t) ELSE "failed"

TerminalEvent(t) == IF options.protocol = "x402" THEN PayloadEvent(t) ELSE TransactionEvent(t)

\* toStatusFrame: x402 gives any payload it gets, mpp the credential of a ready transaction.
CarriesPayload(t) == t.credential

CarriesCredential(t) == t.status = "ready" /\ t.credential

Carries(t) == IF options.protocol = "x402" THEN CarriesPayload(t) ELSE CarriesCredential(t)

Unequal(t) == shown = <<>> \/ Last(shown) # t

-----------------------------------------------------------------------------
(* What is done with an event.                                              *)

\* A view acts on the phase of the reducer after it has drawn it.
View(event) == options.view /\ watch' = [watch EXCEPT !.at = "settling", !.phase = event]

\* Else the loop over the events returns, with an error unless the event is a success.
Return(event) == ~options.view /\ watch' = [watch EXCEPT !.at = "ended", !.ending = event]

Ends(event) == View(event) \/ Return(event)

\* The command writes its file before it prints the frame: a path it cannot write to ends it.
Saves(t) == options.saves /\ Carries(t)

Frame(t, next) ==
  \/ next /\ shown' = Append(shown, t) /\ file' = (file \/ Saves(t))
  \/ /\ Saves(t)
     /\ watch' = [watch EXCEPT !.at = "ended", !.ending = "thrown"]
     /\ UNCHANGED <<shown, file>>

Sleep == watch' = [watch EXCEPT !.at = "sleep"]

-----------------------------------------------------------------------------
(* The command.                                                             *)

\* Mistake: only the answers that are shown count.
CountedShown == options.attempts > 0 /\ Len(shown) + 1 >= options.attempts /\ Unequal(tx)

Counted == options.attempts > 0 /\ Len(seen) + 1 >= options.attempts

Ask ==
  /\ watch.at = "fetch"
  /\ Len(seen) < MaxPolls \/ watch.late
  /\ seen' = Append(seen, tx)
  /\ UNCHANGED <<tx, cancel, moves>>

\* Without an interval the command prints the snapshot itself; a view has no such path.
Snapshot ==
  /\ Ask /\ ~options.waits /\ ~options.view
  /\ Frame(tx, Ends("snapshot"))

Terminal ==
  /\ Ask /\ (options.view \/ options.waits)
  /\ ~options.waits \/ Class(tx) # "pending"
  /\ Frame(tx, Ends(TerminalEvent(tx)))

GiveUp ==
  /\ Ask /\ options.waits /\ Class(tx) = "pending"
  /\ Counted \/ watch.late
  /\ Frame(tx, Ends("timed out"))

\* Mistake: every poll is yielded, as without isEqual.
RepeatEvery ==
  /\ Ask /\ options.waits /\ Class(tx) = "pending"
  /\ ~Counted /\ ~watch.late
  /\ Frame(tx, Sleep)

Repeat ==
  /\ Ask /\ options.waits /\ Class(tx) = "pending"
  /\ ~Counted /\ ~watch.late
  /\ IF Unequal(tx) THEN Frame(tx, Sleep) ELSE Sleep /\ UNCHANGED <<shown, file>>

\* A failed request is not repeated.
RequestFails ==
  /\ watch.at = "fetch"
  /\ Len(seen) < MaxPolls \/ watch.late
  /\ Ends(IF options.waits \/ options.view THEN "crashed" ELSE "thrown")
  /\ UNCHANGED <<tx, seen, shown, file, cancel, moves>>

Wake ==
  /\ watch.at = "sleep"
  /\ watch' = [watch EXCEPT !.at = "fetch"]
  /\ UNCHANGED <<tx, seen, shown, file, cancel, moves>>

DeadlinePasses ==
  /\ options.deadline = "later" /\ ~watch.late /\ watch.at # "ended"
  /\ watch' = [watch EXCEPT !.late = TRUE]
  /\ UNCHANGED <<tx, seen, shown, file, cancel, moves>>

\* The effect that ends the view; useFlowExit takes the first ending.
Finish ==
  /\ watch.at = "settling"
  /\ watch' = [watch EXCEPT !.at = "ended", !.ending = watch.phase]
  /\ UNCHANGED <<tx, seen, shown, file, cancel, moves>>

\* Escape, also in the moment between an event and the drawing of its phase.
Escape ==
  /\ options.view /\ watch.at # "ended"
  /\ watch' = [watch EXCEPT !.at = "ended", !.ending = "stopped"]
  /\ UNCHANGED <<tx, seen, shown, file, cancel, moves>>

-----------------------------------------------------------------------------
(* InFlow and the cancel command.                                           *)

\* What happens after the watch is not followed.
Followed == watch.at # "ended"

Open == tx.status \in {"INITIATED", "APPROVED", "pending"}

\* The parts of a credential appear with an approval, together or one after the other, or
\* never; a part that is there stays.
Move ==
  /\ Followed /\ Open /\ moves < MaxMoves
  /\ \E t \in Transactions(options.protocol) :
       /\ tx.credential => t.credential
       /\ tx.payload => t.payload
       /\ t.status \notin {"APPROVED", "ready"} => t.credential = tx.credential /\ t.payload = tx.payload
       /\ t.status = "INITIATED" => tx.status = "INITIATED"
       /\ t # tx /\ tx' = t
  /\ moves' = moves + 1
  /\ UNCHANGED <<watch, seen, shown, file, cancel>>

\* The request may be lost, and InFlow may come too late with it.
Cancel ==
  /\ cancel = "before" /\ Followed
  /\ cancel' \in {"sent"} \cup Reports
  /\ UNCHANGED <<tx, watch, seen, shown, file, moves>>

Cancelled ==
  /\ cancel = "sent"
  /\ cancel' \in Reports   \* the answer may be lost too
  /\ tx' = IF ~Open THEN tx
           ELSE [tx EXCEPT !.status = IF options.protocol = "x402" THEN "CANCELLED" ELSE "failed"]
  /\ UNCHANGED <<watch, seen, shown, file, moves>>

Step == Snapshot \/ Terminal \/ GiveUp \/ Repeat \/ RequestFails \/ Wake \/ Finish

Next == Step \/ DeadlinePasses \/ Escape \/ Move \/ Cancel \/ Cancelled

\* The event loop and the clock go on, and InFlow answers or the request fails.
Progress == Step \/ DeadlinePasses

Fairness == WF_vars(Progress)

Spec == Init /\ [][Next]_vars /\ Fairness

-----------------------------------------------------------------------------
(* Properties.                                                              *)

\* The answers of s that differ from the one before.
Changes(s) ==
  LET upTo[n \in 0..Len(s)] ==
        IF n = 0 THEN <<>>
        ELSE IF n > 1 /\ s[n] = s[n - 1] THEN upTo[n - 1] ELSE Append(upTo[n - 1], s[n])
  IN upTo[Len(s)]

\* What the command prints are the changes among the answers, in their order and with
\* none left out; only an ending repeats the last of them (pollAsync compares with what
\* it yielded, not with what it got).
FramesAreChanges ==
  watch.ending \in Endings \ {"thrown"} =>
    \/ shown = Changes(seen)
    \/ /\ watch.at \in {"settling", "ended"}
       /\ shown = Append(Changes(seen), Last(seen))

\* A watch ends at the first answer that is not pending, and with what that answer was.
\* The exception is a view without an interval, which calls a pending transaction failed.
EndingTrue ==
  /\ \A i \in 1..Len(seen) - 1 : Class(seen[i]) = "pending"
  /\ seen # <<>> /\ watch.at \in {"fetch", "sleep"} => Class(Last(seen)) = "pending"
  /\ watch.ending = "settled" => Class(Last(seen)) = "settled"
  /\ watch.ending = "expired" => Class(Last(seen)) = "expired"
  /\ watch.ending = "failed" =>
       \/ Class(Last(seen)) = "failed"
       \/ options.view /\ ~options.waits /\ Class(Last(seen)) = "pending"
  /\ watch.ending = "timed out" =>
       /\ Class(Last(seen)) = "pending"
       /\ Len(seen) = options.attempts \/ watch.late

\* The credential is in the file as soon as a printed frame speaks of it, and a settled
\* x402 payment always has it there.
CredentialSaved ==
  /\ file = (\E i \in 1..Len(shown) : Saves(shown[i]))
  /\ watch.ending = "settled" /\ options.protocol = "x402" /\ options.saves => file

StatusTrue == FramesAreChanges /\ EndingTrue /\ CredentialSaved

\* A watch that counts its polls, has a deadline or does not wait comes to its end.
Bounded == options.attempts > 0 \/ options.deadline # "never" \/ ~options.waits

WatchOver == Bounded => watch.at = "ended"

BoundedWatchEnds == []<>WatchOver
=============================================================================
