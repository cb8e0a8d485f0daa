------------------------- MODULE MCStoreTransactions -------------------------
(* Values of the constants of StoreTransactions for model checking: two    *)
(* threads that contend for the write lock and one request.                *)
EXTENDS StoreTransactions, TLC

CONSTANTS a, t, u

ThreadSymmetry == Permutations(Threads)

=============================================================================
