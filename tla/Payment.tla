------------------------------- MODULE Payment -------------------------------
(***************************************************************************)
(* One purchase: `mpp pay` or `x402 pay` (flows/mpp-pay.ts, x402-pay.ts),  *)
(* the later `fetch` commands that resume it (mpp-fetch.ts, x402-fetch.ts) *)
(* and the delivery of the payment credential to the seller, with the bank *)
(* verification of a linked card (payment-fetch.ts).                       *)
(*                                                                         *)
(* The user follows packages/cli/README.md: one command at a time, and     *)
(* fetch only after an ending that says to resume.                         *)
(***************************************************************************)
EXTENDS Naturals

CONSTANT MaxCommands  \* bound on the commands of the purchase

MaxCommandsAssumption == MaxCommands \in Nat

VARIABLES
  purchase,  \* protocol and rail of the selected challenge
  tx,        \* the transaction at InFlow
  card,      \* the charge on a linked card, which the seller's use of the credential starts
  served,    \* how often the seller accepted the credential
  cmd,       \* the running command
  ended,     \* how the last command ended
  commands

environment == <<tx, card, served>>
vars == <<purchase, environment, cmd, ended, commands>>

Purchases == [protocol : {"mpp"}, rail : {"instrument", "card", "other"}]
               \cup [protocol : {"x402"}, rail : {"instrument", "other"}]

TxStates == {"none", "pending", "ready", "failed", "expired", "cancelled"}
CardStates == {"unsubmitted", "action", "processing", "settled", "declined"}

\* A linked card may need its bank's verification; no other rail does.
instrument == purchase.rail = "instrument"

Labels == {"idle", "probe", "create", "poll", "send", "status", "verify", "resend", "finish"}

Cmd == [kind   : {"none", "pay", "fetch"},
        tty    : BOOLEAN,
        waits  : BOOLEAN,                               \* interval > 0
        at     : Labels,
        sends  : 0..2,                                  \* requests that carried the credential
        last   : {"none", "ok", "refused", "lost"},     \* what became of the last of them
        cancel : {"no", "asked", "done"}]               \* Escape while approval is awaited

NoCmd == [kind |-> "none", tty |-> FALSE, waits |-> FALSE, at |-> "idle",
          sends |-> 0, last |-> "none", cancel |-> "no"]

\* Endings after which the documentation has the user run fetch.
Resumable == {"HANDED_OVER", "POLLING_TIMEOUT", "PAYMENT_NOT_READY", "STOPPED",
              "VERIFICATION_REQUIRED", "PAYMENT_STATUS_UNAVAILABLE"}

\* Endings that come before the credential leaves the machine.
Unsent == {"NO_TRANSACTION", "HANDED_OVER", "POLLING_TIMEOUT", "PAYMENT_NOT_READY", "STOPPED",
           "PAYMENT_EXPIRED", "PAYMENT_CREDENTIAL_MISSING", "INVALID_CARD_CREDENTIAL",
           "APPROVAL_CANCELLED", "APPROVAL_FAILED", "APPROVAL_TIMEOUT"}

Endings == Unsent \cup {"none", "paid", "rejected", "PAYMENT_FAILED", "SELLER_AUTHENTICATION",
                        "PAYMENT_REPLAY_OUTCOME_UNKNOWN", "VERIFICATION_REQUIRED",
                        "INVALID_CARD_VERIFICATION", "PAYMENT_STATUS_UNAVAILABLE",
                        "CARD_PAYMENT_FAILED"}

TypeOK ==
  /\ purchase \in Purchases
  /\ tx \in TxStates /\ card \in CardStates /\ served \in Nat
  /\ cmd \in Cmd /\ ended \in Endings /\ commands \in 0..MaxCommands

Init ==
  /\ purchase \in Purchases
  /\ tx = "none" /\ card = "unsubmitted" /\ served = 0
  /\ cmd = NoCmd /\ ended = "none" /\ commands = 0

At(label) == cmd.at = label
Goto(label) == cmd' = [cmd EXCEPT !.at = label] /\ UNCHANGED ended

\* The terminal event; the view forwards the first ending only (useFlowExit).
End(code) == cmd' = [cmd EXCEPT !.at = "idle", !.cancel = "no"] /\ ended' = code

Begin(kind, label) ==
  /\ At("idle")
  /\ commands < MaxCommands
  /\ commands' = commands + 1
  /\ \E tty \in BOOLEAN, waits \in BOOLEAN :
       /\ tty => waits   \* the views poll every five seconds at least
       /\ cmd' = [NoCmd EXCEPT !.kind = kind, !.tty = tty, !.waits = waits, !.at = label]
  /\ ended' = "none"
  /\ UNCHANGED <<purchase, environment>>

-----------------------------------------------------------------------------
(* Obtaining a credential.                                                  *)

BeginPay == ended = "none" /\ tx = "none" /\ Begin("pay", "probe")

BeginFetch == ended \in Resumable /\ tx # "none" /\ Begin("fetch", "poll")

\* The unpaid request: anything but a usable 402 ends the command.
Probe ==
  /\ At("probe")
  /\ Goto("create") \/ End("NO_TRANSACTION")
  /\ UNCHANGED <<purchase, environment, commands>>

\* What a command does with a transaction that is no longer pending.
Resolve(state) ==
  CASE state = "ready" ->
         \/ Goto("send")
         \/ End(IF cmd.kind = "fetch" THEN "PAYMENT_CREDENTIAL_MISSING" ELSE "PAYMENT_FAILED")
         \/ purchase.rail = "card" /\ cmd.kind = "pay" /\ End("INVALID_CARD_CREDENTIAL")
    [] state = "expired" ->
         End(IF purchase.protocol = "mpp" THEN "PAYMENT_EXPIRED" ELSE "APPROVAL_TIMEOUT")
    [] state = "failed" ->
         IF purchase.protocol = "mpp" THEN End("PAYMENT_FAILED")
         ELSE End("APPROVAL_FAILED") \/ End("APPROVAL_CANCELLED")
    [] state = "cancelled" ->
         End(IF purchase.protocol = "mpp" THEN "PAYMENT_FAILED" ELSE "APPROVAL_CANCELLED")

\* classifyPayloadResponse takes a cancelled x402 transaction for a pending
\* one; the buyer SDK behind `x402 pay` and the MPP state do not.
Pending(state) ==
  \/ state = "pending"
  \/ state = "cancelled" /\ purchase.protocol = "x402" /\ cmd.kind = "fetch"

\* The transaction may be pending, or approved or failed at once.  An x402
\* command that does not wait hands over whatever its state.
Created(state) ==
  IF ~cmd.waits /\ (state = "pending" \/ purchase.protocol = "x402") THEN End("HANDED_OVER")
  ELSE IF state = "pending" \/ purchase.protocol = "x402" THEN Goto("poll")
  ELSE Resolve(state)

Create ==
  /\ At("create")
  /\ tx' \in {"pending", "ready", "failed"}
  /\ Created(tx') \/ End("PAYMENT_FAILED")   \* the answer was lost
  /\ UNCHANGED <<purchase, card, served, commands>>

CreateRefused ==
  /\ At("create")
  /\ End("PAYMENT_FAILED")
  /\ UNCHANGED <<purchase, environment, commands>>

Poll ==
  /\ At("poll")
  /\ ~Pending(tx)
  /\ Resolve(tx)
  /\ UNCHANGED <<purchase, environment, commands>>

PollFails ==
  /\ At("poll")
  /\ End("PAYMENT_FAILED")
  /\ UNCHANGED <<purchase, environment, commands>>

\* The deadline or the last attempt, judged on the answer just received.
PollGivesUp ==
  /\ At("poll")
  /\ Pending(tx)
  /\ End(IF purchase.protocol = "x402" /\ cmd.kind = "pay" THEN "APPROVAL_TIMEOUT"
         ELSE IF cmd.waits THEN "POLLING_TIMEOUT" ELSE "PAYMENT_NOT_READY")
  /\ UNCHANGED <<purchase, environment, commands>>

\* Escape in the view of a waiting fetch only stops waiting.
StopWaiting ==
  /\ At("poll") /\ cmd.kind = "fetch" /\ cmd.tty
  /\ End("STOPPED")
  /\ UNCHANGED <<purchase, environment, commands>>

\* Escape in the view of a waiting pay asks the server to cancel the approval;
\* the pipeline below the view goes on meanwhile.
AskCancel ==
  /\ At("poll") /\ cmd.kind = "pay" /\ cmd.tty /\ cmd.cancel = "no"
  /\ cmd' = [cmd EXCEPT !.cancel = "asked"]
  /\ UNCHANGED <<purchase, environment, ended, commands>>

\* The server cancels what is pending and refuses the rest.
ServerCancels ==
  /\ cmd.cancel = "asked"
  /\ IF tx = "pending" THEN tx' = "cancelled" /\ cmd' = [cmd EXCEPT !.cancel = "done"]
                       ELSE cmd' = [cmd EXCEPT !.cancel = "no"] /\ UNCHANGED tx
  /\ UNCHANGED <<purchase, card, served, ended, commands>>

CancelAnswered ==
  /\ cmd.cancel = "done"
  /\ \/ End("APPROVAL_CANCELLED")
     \/ cmd' = [cmd EXCEPT !.cancel = "no"] /\ UNCHANGED ended
  /\ UNCHANGED <<purchase, environment, commands>>

-----------------------------------------------------------------------------
(* Delivering the credential.                                               *)

\* The seller answers 2xx and serves, or refuses; with a linked card it serves
\* only a settled charge, which its first use of the credential starts.
Seller(answer) ==
  /\ answer \in {"ok", "refused"}
  /\ served' = IF answer = "ok" THEN served + 1 ELSE served
  /\ IF instrument /\ card = "unsubmitted" THEN card' \in CardStates \ {"unsubmitted"}
                                           ELSE UNCHANGED card
  /\ answer = "ok" /\ instrument => card' = "settled"

\* The request is sent and its answer arrives.
Answered(answer, next) ==
  /\ cmd' = [cmd EXCEPT !.sends = @ + 1, !.last = answer, !.at = next]
  /\ UNCHANGED ended

\* The request is sent, or seems to be, and no answer arrives.
Lost(code) ==
  /\ cmd' = [cmd EXCEPT !.sends = @ + 1, !.last = "lost", !.at = "idle", !.cancel = "no"]
  /\ ended' = code

\* Mistake: a failure of the transport is one of the failures to resume after.
DeliverResumable(next) ==
  \/ UNCHANGED <<card, served>> /\ Lost("PAYMENT_STATUS_UNAVAILABLE")
  \/ \E answer \in {"ok", "refused"} :
       /\ Seller(answer)
       /\ Lost("PAYMENT_STATUS_UNAVAILABLE") \/ Answered(answer, next[answer])

\* A failure of the transport says nothing of what the seller did.
Deliver(next) ==
  \/ UNCHANGED <<card, served>> /\ Lost("PAYMENT_REPLAY_OUTCOME_UNKNOWN")
  \/ \E answer \in {"ok", "refused"} :
       /\ Seller(answer)
       /\ Lost("PAYMENT_REPLAY_OUTCOME_UNKNOWN") \/ Answered(answer, next[answer])

\* Preparing the seller's authentication can fail before anything is sent.
Unauthenticated ==
  /\ At("send") \/ At("resend")
  /\ End("SELLER_AUTHENTICATION")
  /\ UNCHANGED <<purchase, environment, commands>>

Send ==
  /\ At("send")
  /\ Deliver([ok |-> "finish", refused |-> IF instrument THEN "status" ELSE "finish"])
  /\ UNCHANGED <<purchase, tx, commands>>

\* A refused linked card: does its bank want verification?
Status ==
  /\ At("status")
  /\ IF card = "action"
     THEN IF cmd.waits THEN Goto("verify") ELSE End("VERIFICATION_REQUIRED")
     ELSE Goto("finish")
  /\ UNCHANGED <<purchase, environment, commands>>

\* The status cannot be read, or names another transaction or address.
StatusFails ==
  /\ At("status") \/ At("verify")
  /\ End("PAYMENT_STATUS_UNAVAILABLE") \/ End("INVALID_CARD_VERIFICATION")
  /\ UNCHANGED <<purchase, environment, commands>>

Verify ==
  /\ At("verify")
  /\ \/ card = "settled" /\ Goto("resend")
     \/ card = "declined" /\ End("CARD_PAYMENT_FAILED")
  /\ UNCHANGED <<purchase, environment, commands>>

\* Mistake: only a charge that waits for the bank's page counts as waiting.
VerifyForever ==
  /\ At("verify")
  /\ card = "action"
  /\ End("VERIFICATION_REQUIRED")
  /\ UNCHANGED <<purchase, environment, commands>>

\* The deadline or the last attempt, as in PollGivesUp.
VerifyGivesUp ==
  /\ At("verify")
  /\ card \in {"action", "processing"}
  /\ End("VERIFICATION_REQUIRED")
  /\ UNCHANGED <<purchase, environment, commands>>

\* Escape in the view of a verification stops waiting, whatever the charge.
StopVerifying ==
  /\ At("verify") /\ cmd.tty
  /\ End("VERIFICATION_REQUIRED")
  /\ UNCHANGED <<purchase, environment, commands>>

Resend ==
  /\ At("resend")
  /\ Deliver([ok |-> "finish", refused |-> "finish"])
  /\ UNCHANGED <<purchase, tx, commands>>

\* finishPaymentReplay saves the body when asked to; a failure to write it
\* reaches the handler of every other failure.
Finish ==
  /\ At("finish")
  /\ \/ End(IF cmd.last = "ok" THEN "paid" ELSE "rejected")
     \/ End("PAYMENT_FAILED")
  /\ UNCHANGED <<purchase, environment, commands>>

-----------------------------------------------------------------------------
(* The approver, the clock and the bank.                                    *)

Decide ==
  /\ \/ tx = "pending" /\ tx' \in {"ready", "failed", "expired"}
     \/ tx = "ready" /\ tx' = "expired"
  /\ UNCHANGED <<purchase, card, served, cmd, ended, commands>>

Bank ==
  /\ \/ card = "action" /\ card' \in {"processing", "declined"}
     \/ card = "processing" /\ card' \in {"settled", "declined"}
  /\ UNCHANGED <<purchase, tx, served, cmd, ended, commands>>

\* What the program does by itself when its requests are answered.
Progress == Probe \/ Create \/ Poll \/ PollGivesUp \/ Send \/ Status \/ Verify \/ VerifyGivesUp
              \/ Resend \/ Finish

Failure == CreateRefused \/ PollFails \/ Unauthenticated \/ StatusFails

Escape == StopWaiting \/ AskCancel \/ ServerCancels \/ CancelAnswered \/ StopVerifying

Next == BeginPay \/ BeginFetch \/ Progress \/ Failure \/ Escape \/ Decide \/ Bank

Spec == Init /\ [][Next]_vars

\* The commands go on: every request is answered or times out, and the default
\* deadlines of the polls are in force.  No fairness for the user, the
\* approver, the bank or a failure.
FairSpec == Spec /\ WF_vars(Progress)

-----------------------------------------------------------------------------
(* Properties.                                                              *)

\* However often the purchase is resumed, the seller serves (and so may
\* charge) it at most once: a request is repeated only after a refusal, never
\* after an answer that was lost, and within a command only for a charge that
\* has settled.  And no credential of a transaction that was refused or
\* cancelled reaches the seller, also when Escape races with the approval.
ServedOnce ==
  /\ served <= 1
  /\ cmd.sends = 2 => card = "settled"
  /\ cmd.sends > 0 \/ served > 0 => tx \in {"ready", "expired"}

\* What a command reports is what happened: PAYMENT_REPLAY_OUTCOME_UNKNOWN for
\* every request whose answer was lost and for no other, a payment that the
\* seller served, a rejection that was the seller's last answer.  The endings
\* that tell the user nothing was sent (giving up, being cancelled, a rejected
\* credential) follow no request, whatever the approver did in between.
ReportedOutcome ==
  At("idle") /\ commands > 0 =>
    /\ ended \in Unsent => cmd.sends = 0
    /\ cmd.last = "lost" <=> ended = "PAYMENT_REPLAY_OUTCOME_UNKNOWN"
    /\ ended = "paid" => served = 1
    /\ ended = "rejected" => cmd.last = "refused"

\* Every command ends.
EveryCommandEnds == []<>At("idle")

\* PAYMENT_FAILED means that the transaction failed or no credential could be
\* produced (packages/cli/README.md, the table of errors): nothing was paid.
PaymentFailedUnpaid == At("idle") /\ ended = "PAYMENT_FAILED" => served = 0
=============================================================================
