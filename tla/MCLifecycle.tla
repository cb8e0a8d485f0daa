---------------------------- MODULE MCLifecycle ----------------------------
(* Values of the constants of Lifecycle for model checking.                *)
EXTENDS Lifecycle

CONSTANTS a, b

MCProviders == <<a, b>>

=============================================================================
