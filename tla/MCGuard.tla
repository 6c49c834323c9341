------------------------------ MODULE MCGuard ------------------------------
(* Two loops, an operator and a clock that crosses window boundaries.         *)
EXTENDS Guard

CONSTANT tokens

TokensOnly == {<<tokens, 2>>}
=============================================================================
