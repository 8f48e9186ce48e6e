--------------------------- MODULE SellerRequests ---------------------------
(***************************************************************************)
(* The requests a command sends to a resource of a seller.                 *)
(*                                                                         *)
(*   inspect  `inflow inspect` (flows/combined-inspect)                    *)
(*   terms    `x402 inspect` and `mpp inspect` (createAepAwareInspectProbe)*)
(*   request  the transport of the pay and fetch commands                  *)
(*            (createTapAepAwareSellerTransport)                           *)
(*   call     `openapi call` (openapi/call)                                *)
(*                                                                         *)
(* One command may send the request of the user several times: without     *)
(* authentication, with it, with a payment; each may be lost, and the      *)
(* seller, the stored credentials and the approver change in between.  The *)
(* seller executes a request that has all it asks for.                     *)
(***************************************************************************)
EXTENDS Naturals

CONSTANT MaxChanges   \* bound on the changes of the seller and the credentials

VARIABLES
  seller,     \* what the seller asks for now
  stored,     \* the credential the machine holds for the seller, as the seller sees it
  approval,   \* the approval the command waits for
  cmd,
  changes

vars == <<seller, stored, approval, cmd, changes>>

Sending == {"anonymous", "authenticated", "paid", "full"}   \* the label of each request

Ends == {"answered", "failed", "blocked", "unknown",
         "unsigned", "handed over", "not enrolled", "denied", "cancelled", "timed out"}

Unsent == Ends \ {"answered", "failed", "blocked", "unknown"}   \* the report says so

TypeOK ==
  /\ seller \in [auth : BOOLEAN, price : BOOLEAN]
  /\ stored \in {"none", "good", "revoked"}
  /\ approval \in {"none", "pending", "approved", "declined", "cancelled"}
  /\ cmd \in [kind : {"inspect", "terms", "request", "call"},
              pays : BOOLEAN,                 \* it carries a payment credential
              at : {"policy", "stored", "challenged", "acquire", "poll"} \cup Sending \cup Ends,
              auth : {"none", "credential", "signed"},
              executed : Nat,                 \* requests the seller executed
              last : {"none", "ok", "terms", "challenge", "lost"}]
  /\ changes \in 0..MaxChanges

\* The seller, the stored credential and the command at the beginning.
Beginnings ==
  {x \in [auth : BOOLEAN, price : BOOLEAN] \X {"none", "good", "revoked"} \X
         [kind : {"inspect", "terms", "request", "call"}, pays : BOOLEAN,
          at : {"policy", "anonymous"}, auth : {"none"}, executed : {0}, last : {"none"}] :
     /\ x[3].pays => x[3].kind = "request"
     /\ x[3].at = "policy" <=> x[3].kind \in {"inspect", "terms"}}

Init ==
  /\ \E x \in Beginnings : seller = x[1] /\ stored = x[2] /\ cmd = x[3]
  /\ approval = "none"
  /\ changes = 0

Goto(at) == cmd' = [cmd EXCEPT !.at = at]

-----------------------------------------------------------------------------
(* What is sent next.                                                       *)

\* The OpenAPI document says whether this operation requires authentication.  It may
\* be missing, or be older than the seller.
ReadPolicy ==
  /\ cmd.at = "policy"
  /\ Goto("stored") \/ Goto("anonymous")
  /\ UNCHANGED <<seller, stored, approval, changes>>

\* Inspecting authenticates with a credential that is there and never asks for one;
\* when anything of that fails it is blocked.
Authenticate ==
  /\ stored # "none"
  /\ cmd' = [cmd EXCEPT !.at = "authenticated", !.auth = "credential"]

InspectStored ==
  /\ cmd.kind = "inspect" /\ cmd.at = "stored"
  /\ Authenticate \/ Goto("blocked")
  /\ UNCHANGED <<seller, stored, approval, changes>>

UseStored ==
  /\ cmd.kind = "terms" /\ cmd.at = "stored"
  /\ Authenticate \/ Goto("blocked")
  /\ UNCHANGED <<seller, stored, approval, changes>>

\* The Service a challenge names must be the one its document is of.
InspectService ==
  /\ cmd.at = "challenged"
  /\ Goto("stored") \/ Goto("failed")
  /\ UNCHANGED <<seller, stored, approval, changes>>

\* A call that is known to ask for payment is left to another command.
HandOver ==
  /\ cmd.kind = "call" /\ cmd.at = "anonymous"
  /\ Goto("handed over") \/ Goto("cancelled")   \* cancelled before it was sent
  /\ UNCHANGED <<seller, stored, approval, changes>>

\* The agent library uses a stored credential, or has the InFlow platform sign.
Acquire ==
  /\ cmd.at = "acquire"
  /\ \/ /\ stored # "none"
        /\ cmd' = [cmd EXCEPT !.at = "full", !.auth = "credential"]
        /\ UNCHANGED approval
     \/ /\ stored = "none"
        /\ \/ cmd' = [cmd EXCEPT !.at = "full", !.auth = "signed"] /\ UNCHANGED approval
           \/ Goto("poll") /\ approval' = "pending"
           \/ Goto("not enrolled") /\ UNCHANGED approval
  /\ UNCHANGED <<seller, stored, changes>>

\* pendingSignResolver.
AwaitApproval ==
  /\ cmd.at = "poll"
  /\ \/ approval = "approved" /\ cmd' = [cmd EXCEPT !.at = "full", !.auth = "signed"]
     \/ approval = "declined" /\ Goto("denied")
     \/ approval = "cancelled" /\ Goto("cancelled")
     \/ Goto("timed out")
     \/ Goto("failed")   \* the status cannot be read
  /\ UNCHANGED <<seller, stored, approval, changes>>

-----------------------------------------------------------------------------
(* Sending it.                                                              *)

Accepted == ~seller.auth \/ cmd.auth = "signed" \/ (cmd.auth = "credential" /\ stored = "good")

Paid == cmd.at = "paid" \/ (cmd.at = "full" /\ cmd.pays)

Answer ==
  IF ~Accepted THEN "challenge"
  ELSE IF seller.price /\ ~Paid THEN "terms"
  ELSE "ok"

\* What each command does with an answer, or with the loss of one.
InspectAfter(answer) ==
  IF answer # "lost" THEN "answered"
  ELSE IF cmd.at = "authenticated" THEN "blocked" ELSE "failed"

\* Mistake: a failure of the authenticated request is one of those after which the
\* resource is asked without authentication.
FallsBack(answer) ==
  CASE cmd.at = "authenticated" /\ answer = "lost" -> "anonymous"
    [] answer = "lost" -> "failed"
    [] answer = "challenge" -> IF cmd.at = "authenticated" THEN "blocked" ELSE "challenged"
    [] OTHER -> "answered"

TermsAfter(answer) ==
  CASE answer = "lost" -> "failed"
    [] answer = "challenge" -> IF cmd.at = "authenticated" THEN "blocked" ELSE "challenged"
    [] OTHER -> "answered"

\* The payment credential is sent only where it is asked for.
RequestAfter(answer) ==
  CASE answer = "lost" -> "failed"
    [] cmd.at = "anonymous" /\ answer = "challenge" -> "acquire"
    [] cmd.at = "anonymous" /\ answer = "terms" /\ cmd.pays -> "paid"
    [] OTHER -> "answered"

CallAfter(answer) == IF answer = "lost" THEN "unknown" ELSE "answered"

After(answer) ==
  CASE cmd.kind = "inspect" -> InspectAfter(answer)
    [] cmd.kind = "terms" -> TermsAfter(answer)
    [] cmd.kind = "request" -> RequestAfter(answer)
    [] cmd.kind = "call" -> CallAfter(answer)

\* The request never arrives, or its answer does not, or does.
Send ==
  /\ cmd.at \in Sending
  /\ \/ cmd' = [cmd EXCEPT !.at = After("lost"), !.last = "lost"]
     \/ \E answer \in {Answer, "lost"} :
          cmd' = [cmd EXCEPT !.at = After(answer), !.last = answer,
                             !.executed = @ + (IF Answer = "ok" THEN 1 ELSE 0)]
  /\ UNCHANGED <<seller, stored, approval, changes>>

\* InFlow signs every request of a command but a call; without a signature it is
\* not sent.
SigningFails ==
  /\ cmd.at \in Sending /\ cmd.kind # "call"
  /\ Goto(IF cmd.kind = "inspect" /\ cmd.at = "authenticated" THEN "blocked" ELSE "unsigned")
  /\ UNCHANGED <<seller, stored, approval, changes>>

-----------------------------------------------------------------------------
(* The others.                                                              *)

\* The user decides, here or on another device.
Decide ==
  /\ approval = "pending"
  /\ approval' \in {"approved", "declined", "cancelled"}
  /\ UNCHANGED <<seller, stored, cmd, changes>>

Change ==
  /\ changes < MaxChanges
  /\ changes' = changes + 1
  /\ \/ seller' \in [auth : BOOLEAN, price : BOOLEAN] /\ UNCHANGED stored
     \/ stored' \in {"none", "good", "revoked"} /\ UNCHANGED seller
  /\ UNCHANGED <<approval, cmd>>

Next ==
  \/ ReadPolicy \/ InspectStored \/ UseStored \/ InspectService \/ HandOver \/ Acquire \/ AwaitApproval
  \/ Send \/ SigningFails
  \/ Decide \/ Change

Spec == Init /\ [][Next]_vars

-----------------------------------------------------------------------------
\* However often a command sends the user's request, the seller executes it once: it
\* is sent again only after an answer that asks for more, never after one that was
\* lost.  What the command says of it is what the seller did: nothing was executed by
\* a request reported as not sent, not signed, not approved or blocked by
\* authentication, and an answer is that of the request that was executed.  And no
\* request goes out with a signature whose approval was not given.
ExecutedOnce ==
  /\ cmd.executed <= 1
  /\ cmd.at \in Unsent \/ (cmd.at = "blocked" /\ cmd.kind = "terms") => cmd.executed = 0
  /\ cmd.at = "answered" => (cmd.executed = 1 <=> cmd.last = "ok")
  /\ cmd.auth = "signed" => approval \in {"none", "approved"}
=============================================================================
