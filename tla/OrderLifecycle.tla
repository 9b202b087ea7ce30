--------------------------- MODULE OrderLifecycle ---------------------------
(***************************************************************************)
(* What the store promises of one order: the status lifecycle of           *)
(* README.md, one status at a time, no way back, cancellation at any point *)
(* before shipped.                                                         *)
(***************************************************************************)
CONSTANT OrderIds

VARIABLE status

Cancellable == {"pending", "paid", "processing"}

Edges ==
  { <<"absent", "pending">>, <<"pending", "paid">>, <<"paid", "processing">>,
    <<"processing", "shipped">>, <<"shipped", "delivered">> }
  \cup { <<from, "cancelled">> : from \in Cancellable }

Init == status = [o \in OrderIds |-> "absent"]

Move(o, from, to) ==
  /\ status[o] = from
  /\ status' = [status EXCEPT ![o] = to]

Next == \E o \in OrderIds : \E e \in Edges : Move(o, e[1], e[2])

Spec == Init /\ [][Next]_status
=============================================================================
