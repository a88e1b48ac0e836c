---------------------------- MODULE MCBasketRec -----------------------------
(* Instances of BasketRec for TLC. *)
EXTENDS BasketRec
=============================================================================
