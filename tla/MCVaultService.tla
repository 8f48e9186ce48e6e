---------------------------- MODULE MCVaultService ----------------------------
(***************************************************************************)
(* Finite instances for TLC of VaultService, the service of one tenant;    *)
(* of WindowsVault, the program that serves many; and of KeyMemory, the    *)
(* memory that holds their secrets.  `part` says which of the three a      *)
(* behaviour is of; the others stay in an initial state.                   *)
(***************************************************************************)
EXTENDS VaultService, TLC

CONSTANTS s, t, u, v, Nobody, Slots, Users, Limit, Bounds, Records, MaxFailures

VARIABLES
  part, bounds, slot, events, peers, messages, replies, pipe, connections, admitted, loop, closing,
  failure, store, control, faults,
  windows, sidecar, held, key, record, pages, secret, call, failures, spoiled, wrong

\* Either nothing ever locks the vault by itself or both timers do.
MCPolicies == {Off, Default}

\* One slot with two connections; two slots, the second with one connection.
MCBounds ==
  {[connections |-> s :> 2 @@ t :> 0, requests |-> 2, controls |-> 1, faults |-> 1],
   [connections |-> s :> 1 @@ t :> 1, requests |-> 1, controls |-> 1, faults |-> 1]}

OneBound == CHOOSE x \in Bounds : TRUE

Windows == INSTANCE WindowsVault WITH queue <- admitted

windowsVars ==
  <<bounds, slot, events, peers, messages, replies, pipe, connections, admitted, loop, closing,
    failure, store, control, faults>>

Memory == INSTANCE KeyMemory WITH header <- sidecar

ASSUME MemoryAssumption == Memory!BoundsAssumption

memoryVars == <<windows, sidecar, held, key, record, pages, secret, call, failures, spoiled, wrong>>

allVars == <<part, vars, windowsVars, memoryVars>>

PartsInit ==
  /\ Init /\ Windows!Init /\ Memory!Init
  /\ \/ part = "tenant" /\ ~windows /\ bounds = OneBound
     \/ part = "windows" /\ ~windows
     \/ part = "memory" /\ bounds = OneBound

PartsNext ==
  \/ part = "tenant" /\ Next /\ UNCHANGED <<part, windowsVars, memoryVars>>
  \/ part = "windows" /\ Windows!Next /\ UNCHANGED <<part, vars, memoryVars>>
  \/ part = "memory" /\ Memory!Next /\ UNCHANGED <<part, vars, windowsVars>>

\* The fairness of each part, as its own module states it.
PartsFairness ==
  /\ WF_allVars(part = "tenant" /\ Progress /\ UNCHANGED <<part, windowsVars, memoryVars>>)
  /\ \A x \in Contexts : WF_allVars(part = "tenant" /\ Expire(x) /\ UNCHANGED <<part, windowsVars, memoryVars>>)
  /\ WF_allVars(part = "windows" /\ Windows!Receive /\ UNCHANGED <<part, vars, memoryVars>>)
  /\ WF_allVars(part = "windows" /\ Windows!Operate /\ UNCHANGED <<part, vars, memoryVars>>)
  /\ WF_allVars(part = "windows" /\ Windows!ControlLoop /\ UNCHANGED <<part, vars, memoryVars>>)

PartsSpec == PartsInit /\ [][PartsNext]_allVars /\ PartsFairness

-----------------------------------------------------------------------------
(* Properties of WindowsVault, stated and explained there.                  *)

\* What a client is sent answers the request it waits for, from its own vault.
AnswerToAsker == Windows!AnswerToAsker

\* The vaults are locked on suspension between operations, not in the midst of one, and
\* suspension and stop are obeyed though clients go on asking.
ControlsObeyed == Windows!LockedBetween /\ Windows!ControlsObeyed

-----------------------------------------------------------------------------
(* The property of KeyMemory, stated and explained there.                   *)

\* No page and no secret is left behind, and the key in use is the master key.
KeyKept == Memory!KeyKept
=============================================================================
