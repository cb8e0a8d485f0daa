----------------------- MODULE MCRefreshServiceProofs -----------------------
(* Values of the constants of RefreshService for checking the inductive    *)
(* invariant of its proofs.  --provider given twice with the same slug     *)
(* selects the provider twice.                                             *)
EXTENDS RefreshServiceProofs

CONSTANTS a, b

MCProviders == <<a, b, a>>

=============================================================================
