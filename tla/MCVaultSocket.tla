---------------------------- MODULE MCVaultSocket ----------------------------
(***************************************************************************)
(* Finite instances for TLC of VaultSocket, the connections of a server;   *)
(* and of VaultFrames, what one client reads from its connection.  `part`  *)
(* says which of them a behaviour is of; the other stays in an initial     *)
(* state.                                                                  *)
(***************************************************************************)
EXTENDS VaultSocket, TLC

CONSTANTS c1, c2, c3, u1, u2, MaxBody, Secrets, MaxParts

VARIABLES part, socket, client, stream, ended, chunks, said, held

Frames == INSTANCE VaultFrames WITH wire <- stream, closed <- ended, sent <- said

ASSUME FramesAssumption == Frames!MessagesAssumption

framesVars == <<socket, client, stream, ended, chunks, said, held>>

allVars == <<part, vars, framesVars>>

OneUser == c1 :> u1 @@ c2 :> u1 @@ c3 :> u1
TwoUsers == c1 :> u1 @@ c2 :> u1 @@ c3 :> u2

\* The third connection is one too many for its user, or in all, or not.
MCSettings ==
  {[host |-> "daemon",  limit |-> [user |-> 3, all |-> 2], user |-> OneUser],
   [host |-> "service", limit |-> [user |-> 3, all |-> 2], user |-> TwoUsers],
   [host |-> "service", limit |-> [user |-> 2, all |-> 3], user |-> OneUser],
   [host |-> "service", limit |-> [user |-> 2, all |-> 3], user |-> TwoUsers]}

\* No bytes, one and two of them.
MCSecrets == {<<>>, <<0>>, <<1, 0>>}

-----------------------------------------------------------------------------

PartsInit ==
  /\ Init /\ Frames!Init
  /\ \/ part = "connections" /\ client.kind = "request"
     \/ part = "frames" /\ host = "daemon"

PartsNext ==
  \/ part = "connections" /\ Next /\ UNCHANGED <<part, framesVars>>
  \/ part = "frames" /\ Frames!Next /\ UNCHANGED <<part, vars>>

\* Fairness is VaultSocket's: in "frames" none of its actions is enabled.
PartsSpec == PartsInit /\ [][PartsNext]_allVars /\ Fairness

-----------------------------------------------------------------------------
(* Properties of the instance, stated and explained there.                  *)

\* A client has the whole message of its peer or an error, and leaves nothing behind.
FramesTrue == Frames!FramesTrue
=============================================================================
