-------------------------- MODULE MCRefreshService --------------------------
(* Values of the constants of RefreshService for model checking.           *)
EXTENDS RefreshService

CONSTANTS a, b

MCProviders == <<a, b>>

=============================================================================
