------------------------------- MODULE MCDesk -------------------------------
(***************************************************************************)
(* A small instance of OrderDesk for TLC: two clients, a manager, two      *)
(* delivery persons.                                                       *)
(***************************************************************************)
EXTENDS OrderDesk, TLC

CONSTANTS s1, s2, tee, ann, bob, boss, dan, eve

OneProduct == [s \in Skus |-> tee]
Staff == [u \in Users |->
  IF u \in {ann, bob} THEN "client"
  ELSE IF u = boss THEN "manager" ELSE "delivery_person"]
DeskSymmetry == Permutations({ann, bob}) \cup Permutations({dan, eve})
=============================================================================
