---------------------------- MODULE MCBasketRead ----------------------------
(* Instances of BasketRead for TLC. *)
EXTENDS BasketRead
=============================================================================
