---------------------------- MODULE MCAnchorKeys ----------------------------
(* Interchangeable keys and two ceremonies that overlap, or one beside a      *)
(* running process.                                                           *)
EXTENDS AnchorKeys, TLC

\* No ceremony reads what a process does, so a process is combined with one
\* ceremony at a time.
Apart ==
    \/ \A p \in Procs : proc[p].pc = "down"
    \/ Cardinality({o \in Operations : op[o].phase # "free"}) =< 1

Sym == Permutations(Keys) \cup Permutations(Operations)
=============================================================================
