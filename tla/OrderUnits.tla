----------------------------- MODULE OrderUnits -----------------------------
(***************************************************************************)
(* The units of a SKU in a set of orders, as a set: one pair <<o, i>> for  *)
(* each i up to the quantity of o's line, so that the sum of the lines of  *)
(* a set of orders is a cardinality. its stands for order_items.           *)
(***************************************************************************)
EXTENDS Integers, FiniteSets

Units(O, its, s)   == UNION {{o} \X (1..its[o][s]) : o \in O}
InUnits(O, its, s) == Cardinality(Units(O, its, s))
=============================================================================
