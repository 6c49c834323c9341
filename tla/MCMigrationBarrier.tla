------------------------- MODULE MCMigrationBarrier -------------------------
(* Interchangeable writers and one migration, retried after each failure.    *)
EXTENDS MigrationBarrier, TLC

Sym == Permutations(Writers)
=============================================================================
