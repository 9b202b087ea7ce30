------------------------------ MODULE MCOrders ------------------------------
(***************************************************************************)
(* Small instances of Orders for TLC.                                      *)
(***************************************************************************)
EXTENDS OrdersProps, TLC

CONSTANTS s1, s2, tee

OneProduct  == [s \in Skus |-> tee]

CartSymmetry == Permutations(CartOrders)
LinkSymmetry == Permutations(LinkOrders)
=============================================================================
