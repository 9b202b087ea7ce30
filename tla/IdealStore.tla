----------------------------- MODULE IdealStore -----------------------------
(***************************************************************************)
(* What the store promises its buyers, without counters: an order is taken *)
(* only when the units received cover it next to every order that is       *)
(* pending or sold, and an order then moves along the lifecycle. Stock,    *)
(* reservations and availability are not state here; they are what the     *)
(* orders and the deliveries received imply.                               *)
(***************************************************************************)
EXTENDS OrderUnits

CONSTANTS OrderIds, Skus, MaxQty, InitialStock

VARIABLES status, items, received

L == INSTANCE OrderLifecycle

Committed == {o \in OrderIds :
  status[o] \in {"pending", "paid", "processing", "shipped", "delivered"}}

Init ==
  /\ L!Init
  /\ items = [o \in OrderIds |-> [s \in Skus |-> 0]]
  /\ received \in [Skus -> InitialStock]

Place(o, q) ==
  /\ \A s \in Skus : InUnits(Committed, items, s) + q[s] <= received[s]
  /\ L!Move(o, "absent", "pending")
  /\ items' = [items EXCEPT ![o] = q]
  /\ UNCHANGED received

Advance(o) ==
  /\ \E e \in L!Edges : e[1] # "absent" /\ L!Move(o, e[1], e[2])
  /\ UNCHANGED <<items, received>>

Receive(s, n) ==
  /\ received' = [received EXCEPT ![s] = @ + n]
  /\ UNCHANGED <<status, items>>

Next ==
  \/ \E o \in OrderIds, q \in [Skus -> 0..MaxQty] : Place(o, q)
  \/ \E o \in OrderIds : Advance(o)
  \/ \E s \in Skus, n \in 1..MaxQty : Receive(s, n)

Spec == Init /\ [][Next]_<<status, items, received>>
=============================================================================
