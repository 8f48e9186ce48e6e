---------------------------- MODULE CommandParts ----------------------------
(***************************************************************************)
(* Commands beside SessionRefresh that speak to InFlow and to sellers, each *)
(* a part of the run requests_and_purchase: SellerRequests, the requests   *)
(* to a seller; Payment, one purchase; StatusWatch, one status command;    *)
(* Catalog, one `odp` or `directory` command; AuthStatus, one `auth        *)
(* status`; Inspection, one `inspect`; and AepApprovals, two AEP commands.  *)
(***************************************************************************)
EXTENDS Naturals, Sequences, FiniteSets

CONSTANTS MaxCommands, MaxChanges, MaxPolls, MaxMoves, MaxServed, MaxOthers, MaxAsked, MaxTicks,
          MaxTasks, MaxRounds

VARIABLES
  purchase, tx, card, served, cmd, ended, commands,
  seller, access, approval, errand, changes,
  watched, watch, seen, shown, file, cancel, moves,
  input, offered, browse, questions, happened,
  settings, secrets, owners, todo, inquiry, last, vault, counts,
  target, look, answer, finding,
  task, approvals, service, agents

Purchase == INSTANCE Payment

Errands == INSTANCE SellerRequests WITH stored <- access, cmd <- errand

Status == INSTANCE StatusWatch WITH tx <- watched

Browse == INSTANCE Catalog WITH cmd <- browse, asked <- questions

SignIn == INSTANCE AuthStatus WITH stored <- settings, status <- inquiry

Inspect == INSTANCE Inspection

Approve == INSTANCE AepApprovals

ASSUME Purchase!MaxCommandsAssumption

-----------------------------------------------------------------------------
(* Properties of the parts, stated and explained in their modules.          *)

\* The seller serves the purchase at most once, and only if it was approved, however
\* often it is resumed; a Service gets what the user approved and nothing else; and what a
\* command reports is what happened.
OutcomeTrue == Purchase!ServedOnce /\ Purchase!ReportedOutcome /\ Approve!ApprovalsTrue

\* A seller executes what a command asks for once, and the command says so.
ExecutedOnce == Errands!ExecutedOnce

\* What a status command shows are the changes of the transaction, and it ends with what
\* the transaction came to; and `auth status` shows who was signed in while it looked.
StatusTrue == Status!StatusTrue /\ SignIn!AuthStatusTrue

\* What an odp command asks for is offered, its failures are reported as what they are, and
\* the directory never sees who the agent is; and an inspection reports what was answered.
CatalogTrue == Browse!CatalogTrue /\ Inspect!InspectionTrue
=============================================================================
