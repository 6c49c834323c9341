------------------------------ MODULE MCNotary ------------------------------
(* One notarize() run at a time, with every failure and loss.                 *)
EXTENDS Notary
=============================================================================
