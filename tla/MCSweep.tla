------------------------------ MODULE MCSweep ------------------------------
(***************************************************************************)
(* Small instances of StaleOrderSweep for TLC.                             *)
(***************************************************************************)
EXTENDS StaleOrderSweep, TLC

CONSTANTS s1, s2, tee, mug

OneEach == [s \in Skus |-> IF s = s1 THEN tee ELSE mug]
InstanceSymmetry == Permutations(Instances)
=============================================================================
