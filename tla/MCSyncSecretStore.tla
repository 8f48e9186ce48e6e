------------------------- MODULE MCSyncSecretStore -------------------------
(* Finite instances of SyncSecretStore for TLC.                            *)
EXTENDS SyncSecretStore

=============================================================================
