----------------------------- MODULE MCCheckout -----------------------------
(***************************************************************************)
(* Small instances of Checkout for TLC.                                    *)
(***************************************************************************)
EXTENDS Checkout, TLC

\* Half of 3 cents is rounded; 4 cents exceed some subtotals; a minimum that
\* one unit misses.
SmallTerms == { [type |-> "percentage", value |-> 50, min |-> 0],
                [type |-> "fixed", value |-> 4, min |-> 2] }

CONSTANTS s1, s2

\* One unit of a SKU and two of the other: rows of two units can be ordered
\* or can be too many.
UnevenInit == Init /\ stock = [s \in Skus |-> IF s = s1 THEN 1 ELSE 2]
UnevenSpec == UnevenInit /\ [][Next]_vars

CallSymmetry == Permutations(Calls)
=============================================================================
