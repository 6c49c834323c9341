--------------------------- MODULE MCAuditRepair ---------------------------
(* Two writers and two concurrent maintenance calls.                         *)
EXTENDS AuditRepair, TLC

Sym == Permutations(Writers) \cup Permutations(Operations)
=============================================================================
