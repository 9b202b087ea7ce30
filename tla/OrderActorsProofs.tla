-------------------------- MODULE OrderActorsProofs --------------------------
(***************************************************************************)
(* Those who act on orders, for any number of users, servers and orders:   *)
(* the callers of OrderDesk and the cron job of StaleOrderSweep. Both      *)
(* implement Orders, so what OrdersProofs proves holds with them too. Of   *)
(* the desk, also who signs the audit trail, who sees an order and who can *)
(* take its next step.                                                     *)
(***************************************************************************)
EXTENDS OrderDesk, StaleOrderSweep, OrdersProofs

(***************************************************************************)
(* The sweep.                                                              *)
(***************************************************************************)

\* A release by the sweep is the cancellation of a pending order; every other
\* step of the sweep is invisible in the store.
LEMMA SweepStepIsOrdersStep ==
  ASSUME [SweepNext]_allVars
  PROVE  [Next]_vars
<1>1. ASSUME NEW i \in Instances, NEW o \in OrderIds, SweepReleases(i, o)
      PROVE  Next
  <2>1. OrderStep(o)
    BY <1>1 DEF SweepReleases, CancelOrder, OrderStep
  <2> QED
    BY <2>1 DEF Next
<1>2. ASSUME NEW i \in Instances, SweepStep(i)
      PROVE  [Next]_vars
  BY <1>1, <1>2 DEF SweepStep, SweepSkips, SweepThrows
<1>3. ASSUME \/ \E o \in OrderIds : GrowOld(o)
             \/ \E i \in Instances : SweepStart(i)
      PROVE  UNCHANGED vars
  BY <1>3 DEF GrowOld, SweepStart
<1> QED
  BY <1>2, <1>3 DEF SweepNext, allVars

\* The other handlers see the sweep as a buyer who cancels, however its runs
\* on several servers interleave with them and with each other.
THEOREM SweepIsACancellingBuyer == SweepSpec => BehavesLikeOrders
<1>1. SweepInit => Init
  BY DEF SweepInit
<1> QED
  BY <1>1, SweepStepIsOrdersStep, PTL DEF SweepSpec, SweepSafety, BehavesLikeOrders, Spec

(***************************************************************************)
(* The desk implements the store.                                          *)
(***************************************************************************)

\* Every request a guard lets through is a step of Orders, and so is every
\* webhook and every release of a stale order.
LEMMA DeskStepIsOrdersStep ==
  ASSUME [DeskNext]_deskVars
  PROVE  [Next]_vars
<1>1. ASSUME NEW o \in OrderIds,
             \/ CancelOrder(o) \/ ProcessOrder(o) \/ ShipOrder(o) \/ DeliverOrder(o)
             \/ AskPaymentIntent(o) \/ InsertPayment(o) \/ Fulfil(o) \/ FulfilFails(o)
      PROVE  Next
  BY <1>1 DEF Next, OrderStep
<1>2. ASSUME NEW u \in Users, UserStep(u)
      PROVE  Next
  <2>1. ASSUME NEW o \in CartOrders, NEW q \in Quantities, NEW p \in Promos \cup {NoPromo},
               PlaceOrder(u, o, q, p)
        PROVE  Next
    BY <2>1 DEF PlaceOrder, Next
  <2>2. ASSUME NEW o \in LinkOrders, NEW s \in Skus, NEW n \in 1..MaxQty,
               PlaceLinkOrder(u, o, s, n)
        PROVE  Next
    BY <2>2 DEF PlaceLinkOrder, Next, LinkStep
  <2>3. ASSUME NEW o \in OrderIds, Cancel(u, o) \/ Advance(u, o) \/ Pay(u, o)
        PROVE  Next
    BY <1>1, <2>3 DEF Cancel, Advance, Pay
  <2>4. ASSUME Stockroom(u)
        PROVE  Next
    BY <2>4 DEF Stockroom, Next, ManagerStep
  <2> QED
    BY <1>2, <2>1, <2>2, <2>3, <2>4 DEF UserStep
<1>3. ASSUME NEW o \in OrderIds, Unattended(o)
      PROVE  Next
  <2>1. ASSUME status[o] = "pending", ReleasePending(o)
        PROVE  Next
    BY <1>1, <2>1 DEF CancelOrder
  <2>2. ASSUME o \in LinkOrders,
               \/ GetPaymentLink(o)
               \/ \E s \in Skus, n \in 1..MaxQty :
                    DirectSale(o, s, n) \/ DirectSaleFails(o, s, n)
        PROVE  Next
    BY <2>2 DEF Next, LinkStep
  <2> QED
    BY <1>1, <1>3, <2>1, <2>2 DEF Unattended
<1> QED
  BY <1>2, <1>3 DEF DeskNext, deskVars

\* The guards and the WHERE clauses only take behaviours away: whatever holds
\* of the store holds of the store with its callers.
THEOREM DeskImplementsOrders == DeskSpec => Spec
<1>1. DeskInit => Init
  BY DEF DeskInit
<1> QED
  BY <1>1, DeskStepIsOrdersStep, PTL DEF DeskSpec, Spec

\* The counters balance and every order keeps its lifecycle, whoever calls.
THEOREM BooksHoldAtTheDesk ==
  DeskSpec => [](TypeOK /\ ReservationLedger /\ StockLedger) /\ KeepsLifecycle
BY DeskImplementsOrders, TypeCorrect, ReservationsBalance, StockBalances,
   StoreKeepsLifecycle, PTL

(***************************************************************************)
(* Who is let through.                                                     *)
(***************************************************************************)

\* Who the guards of the order endpoints let through.
LEMMA AbilitiesOf ==
  ASSUME NEW role \in Roles
  PROVE  /\ <<"create", "Order">> \in createForUser(role) <=> role = "client"
         /\ <<"read", "Order">> \in createForUser(role)
         /\ <<"cancel", "Order">> \in createForUser(role) <=> role \in {"client", "manager"}
         /\ <<"process", "Order">> \in createForUser(role) <=> role = "manager"
         /\ <<"ship", "Order">> \in createForUser(role) <=> role = "manager"
         /\ <<"deliver", "Order">> \in createForUser(role) <=> role = "delivery_person"
<1>1. CASE role = "client"
  <2>1. createForUser(role) =
            ({"read"} \X {"Category", "Product", "Sku"})
            \cup Manage("Cart") \cup Manage("Like") \cup {<<"apply", "PromoCode">>}
            \cup ({"create", "read", "cancel"} \X {"Order"})
    BY <1>1 DEF createForUser
  <2> QED
    BY <1>1, <2>1 DEF Manage
<1>2. CASE role = "manager"
  <2>1. createForUser(role) =
          Manage("Category") \cup Manage("Product") \cup Manage("Sku")
          \cup (Manage("PromoCode") \ {<<"apply", "PromoCode">>})
          \cup ({"read", "process", "ship", "cancel"} \X {"Order"})
    BY <1>2 DEF createForUser
  <2> QED
    BY <1>2, <2>1 DEF Manage
<1>3. CASE role = "delivery_person"
  <2>1. createForUser(role) =
          ({"read"} \X {"Category", "Product", "Sku"})
          \cup ({"read", "deliver"} \X {"Order"})
    BY <1>3 DEF createForUser
  <2> QED
    BY <1>3, <2>1
<1> QED
  BY <1>1, <1>2, <1>3 DEF Roles

LEMMA Guarded ==
  ASSUME NEW role \in Roles, NEW action, NEW subject
  PROVE  Admitted(role, May(action, subject)) <=> <<action, subject>> \in createForUser(role)
BY DEF Admitted, handleRequest, canActivate, May

LEMMA OrderRoutes ==
  ASSUME NEW u \in Users
  PROVE  /\ RoleOf[u] \in Roles
         /\ MayCall(u, OrdersController.createOrder) <=> u \in Clients
         /\ MayCall(u, CheckoutController.createPaymentLinkCheckout) <=> u \in Clients
         /\ MayCall(u, PaymentsController.createPaymentIntent) <=> u \in Clients
         /\ MayCall(u, OrdersController.listOrders)
         /\ MayCall(u, OrdersController.cancelOrder) <=> RoleOf[u] \in {"client", "manager"}
         /\ MayCall(u, OrdersController.processOrder) <=> RoleOf[u] = "manager"
         /\ MayCall(u, OrdersController.shipOrder) <=> RoleOf[u] = "manager"
         /\ MayCall(u, OrdersController.deliverOrder) <=> RoleOf[u] = "delivery_person"
<1>1. RoleOf[u] \in Roles
  BY DeskAssumption
<1>2. /\ OrdersController.createOrder = May("create", "Order")
      /\ OrdersController.listOrders = May("read", "Order")
      /\ OrdersController.cancelOrder = May("cancel", "Order")
      /\ OrdersController.processOrder = May("process", "Order")
      /\ OrdersController.shipOrder = May("ship", "Order")
      /\ OrdersController.deliverOrder = May("deliver", "Order")
      /\ PaymentsController.createPaymentIntent = May("create", "Order")
      /\ CheckoutController.createPaymentLinkCheckout = May("create", "Order")
  BY DEF OrdersController, PaymentsController, CheckoutController
<1> QED
  BY <1>1, <1>2, AbilitiesOf, Guarded DEF MayCall, Clients

(***************************************************************************)
(* Who signs the audit trail.                                              *)
(***************************************************************************)
DeskTypeOK ==
  /\ owner \in [OrderIds -> Users \cup {System}]
  /\ by \in [OrderIds -> Seq(Users \cup {System})]

\* The hands that may write a row of an order placed by own.
Entitled(own, st, who) ==
  /\ st = "pending" => who = own /\ who \in Clients
  /\ st = "paid" => who = System
  /\ st \in {"processing", "shipped"} => who \in Users /\ RoleOf[who] = "manager"
  /\ st = "delivered" => who \in Users /\ RoleOf[who] = "delivery_person"
  /\ st = "cancelled" => \/ who \in {System, own}
                         \/ who \in Users /\ RoleOf[who] = "manager"

\* One row is written and signed, of the order that takes the edge.
Signs(o, to, who) ==
  /\ <<status[o], to>> \in Lifecycle!Edges
  /\ SetStatus(o, to)
  /\ by' = [by EXCEPT ![o] = Append(by[o], who)]
  /\ owner' = IF to = "pending" THEN [owner EXCEPT ![o] = who] ELSE owner
  /\ Entitled(owner'[o], to, who)

LEMMA SignedRow ==
  ASSUME TypeOK, DeskTypeOK, NEW o \in OrderIds, NEW to, NEW who,
         SetStatus(o, to), SignedBy(who)
  PROVE  by' = [by EXCEPT ![o] = Append(by[o], who)]
<1>1. history' = [history EXCEPT ![o] = Append(history[o], to)]
  BY DEF SetStatus
<1>2. \A x \in OrderIds : x # o => history'[x] = history[x]
  BY <1>1 DEF TypeOK
<1>3. history'[o] # history[o]
  <2>1. history[o] \in Seq(Statuses) /\ history'[o] = Append(history[o], to)
    BY <1>1 DEF TypeOK
  <2>2. Len(history'[o]) = Len(history[o]) + 1 /\ Len(history[o]) \in Nat
    BY <2>1
  <2> QED
    BY <2>2
<1> QED
  BY <1>2, <1>3 DEF SignedBy, DeskTypeOK

LEMMA NothingSigned ==
  ASSUME DeskTypeOK, NEW who, UNCHANGED history, SignedBy(who)
  PROVE  UNCHANGED by
BY DEF DeskTypeOK, SignedBy

LEMMA DeskMoves ==
  ASSUME TypeOK, DeskTypeOK, [DeskNext]_deskVars
  PROVE  \/ UNCHANGED <<status, history, owner, by>>
         \/ \E o \in OrderIds, to \in Statuses, who \in Users \cup {System} : Signs(o, to, who)
<1> DEFINE Signed == \E o \in OrderIds, to \in Statuses, who \in Users \cup {System} :
                       Signs(o, to, who)
<1>1. ASSUME NEW o \in OrderIds, NEW to \in Statuses \ {"pending"},
             NEW who \in Users \cup {System},
             <<status[o], to>> \in Lifecycle!Edges, SetStatus(o, to),
             SignedBy(who), UNCHANGED owner, Entitled(owner[o], to, who)
      PROVE  Signed
  <2>1. Signs(o, to, who)
    BY <1>1, SignedRow DEF Signs
  <2> QED
    BY <2>1
<1>2. ASSUME NEW o \in OrderIds, NEW u \in Clients, status[o] = "absent",
             SetStatus(o, "pending"), owner' = [owner EXCEPT ![o] = u], SignedBy(u)
      PROVE  Signed
  <2>1. <<status[o], "pending">> \in Lifecycle!Edges
    BY <1>2 DEF Lifecycle!Edges
  <2>2. Entitled(owner'[o], "pending", u)
    BY <1>2 DEF Entitled, DeskTypeOK
  <2>3. Signs(o, "pending", u) /\ u \in Users /\ "pending" \in Statuses
    BY <1>2, <2>1, <2>2, SignedRow DEF Signs, Clients, Statuses
  <2> QED
    BY <2>3
<1>3. ASSUME NEW u \in Users, UserStep(u)
      PROVE  UNCHANGED <<status, history, owner, by>> \/ Signed
  <2>1. ASSUME NEW o \in CartOrders, NEW q \in Quantities, NEW p \in Promos \cup {NoPromo},
               PlaceOrder(u, o, q, p)
        PROVE  Signed
    <3>1. u \in Clients /\ o \in OrderIds
      BY <2>1, OrderRoutes DEF PlaceOrder, OrderIds
    <3> QED
      BY <1>2, <2>1, <3>1 DEF PlaceOrder, CreateOrder
  <2>2. ASSUME NEW o \in LinkOrders, NEW s \in Skus, NEW n \in 1..MaxQty,
               PlaceLinkOrder(u, o, s, n)
        PROVE  Signed
    <3>1. u \in Clients /\ o \in OrderIds
      BY <2>2, OrderRoutes DEF PlaceLinkOrder, OrderIds
    <3> QED
      BY <1>2, <2>2, <3>1 DEF PlaceLinkOrder, CreateLinkOrder
  <2>3. ASSUME NEW o \in OrderIds, Cancel(u, o)
        PROVE  Signed
    <3>1. MayCall(u, OrdersController.cancelOrder) /\ ownershipWhere(u, o)
      BY <2>3, OrderRoutes
      DEF Cancel, cancelOrder, Answered, Outcome, Refusal, toProblem, NotFoundException
    <3>2. Entitled(owner[o], "cancelled", u)
      BY <3>1, OrderRoutes DEF Entitled, ownershipWhere
    <3>3. <<status[o], "cancelled">> \in Lifecycle!Edges /\ SetStatus(o, "cancelled")
      BY <2>3 DEF Cancel, CancelOrder, ReleasePending, RestockPaid, RestockableFrom,
                  Lifecycle!Edges, Lifecycle!Cancellable
    <3> QED
      BY <1>1, <2>3, <3>2, <3>3 DEF Cancel, Statuses
  <2>4. ASSUME NEW o \in OrderIds, Advance(u, o)
        PROVE  Signed
    <3>1. SignedBy(u) /\ UNCHANGED owner
      BY <2>4 DEF Advance
    <3>2. CASE MayCall(u, OrdersController.processOrder) /\ ProcessOrder(o)
      <4>1. /\ <<status[o], "processing">> \in Lifecycle!Edges /\ SetStatus(o, "processing")
            /\ "processing" \in Statuses \ {"pending"}
        BY <3>2 DEF ProcessOrder, Transition, Lifecycle!Edges, Statuses
      <4>2. Entitled(owner[o], "processing", u)
        BY <3>2, OrderRoutes DEF Entitled
      <4> QED
        BY <1>1, <3>1, <4>1, <4>2
    <3>3. CASE MayCall(u, OrdersController.shipOrder) /\ ShipOrder(o)
      <4>1. /\ <<status[o], "shipped">> \in Lifecycle!Edges /\ SetStatus(o, "shipped")
            /\ "shipped" \in Statuses \ {"pending"}
        BY <3>3 DEF ShipOrder, Transition, Lifecycle!Edges, Statuses
      <4>2. Entitled(owner[o], "shipped", u)
        BY <3>3, OrderRoutes DEF Entitled
      <4> QED
        BY <1>1, <3>1, <4>1, <4>2
    <3>4. CASE MayCall(u, OrdersController.deliverOrder) /\ DeliverOrder(o)
      <4>1. /\ <<status[o], "delivered">> \in Lifecycle!Edges /\ SetStatus(o, "delivered")
            /\ "delivered" \in Statuses \ {"pending"}
        BY <3>4 DEF DeliverOrder, Transition, Lifecycle!Edges, Statuses
      <4>2. Entitled(owner[o], "delivered", u)
        BY <3>4, OrderRoutes DEF Entitled
      <4> QED
        BY <1>1, <3>1, <4>1, <4>2
    <3> QED
      BY <2>4, <3>2, <3>3, <3>4 DEF Advance
  <2>5. ASSUME Stockroom(u) \/ \E o \in OrderIds : Pay(u, o)
        PROVE  UNCHANGED <<status, history, owner, by>>
    <3>1. UNCHANGED <<status, history, owner>> /\ SignedBy(u)
      BY <2>5 DEF Stockroom, RestockSku, Pay, AskPaymentIntent, orderVars
    <3> QED
      BY <3>1, NothingSigned
  <2> QED
    BY <1>3, <2>1, <2>2, <2>3, <2>4, <2>5 DEF UserStep
<1>4. ASSUME NEW o \in OrderIds, Unattended(o)
      PROVE  UNCHANGED <<status, history, owner, by>> \/ Signed
  <2>1. SignedBy(System) /\ UNCHANGED owner
    BY <1>4 DEF Unattended
  <2>2. /\ Entitled(owner[o], "paid", System) /\ Entitled(owner[o], "cancelled", System)
        /\ "paid" \in Statuses \ {"pending"} /\ "cancelled" \in Statuses \ {"pending"}
    BY DEF Entitled, Statuses
  <2>3. CASE Fulfil(o) \/ \E s \in Skus, n \in 1..MaxQty : DirectSale(o, s, n)
    <3>1. <<status[o], "paid">> \in Lifecycle!Edges /\ SetStatus(o, "paid")
      BY <2>3 DEF Fulfil, Charged, DirectSale, Lifecycle!Edges
    <3> QED
      BY <1>1, <2>1, <2>2, <3>1
  <2>4. CASE status[o] = "pending" /\ ReleasePending(o)
    <3>1. <<status[o], "cancelled">> \in Lifecycle!Edges /\ SetStatus(o, "cancelled")
      BY <2>4 DEF ReleasePending, Lifecycle!Edges, Lifecycle!Cancellable
    <3> QED
      BY <1>1, <2>1, <2>2, <3>1
  <2>5. CASE \/ InsertPayment(o) \/ FulfilFails(o) \/ GetPaymentLink(o)
             \/ \E s \in Skus, n \in 1..MaxQty : DirectSaleFails(o, s, n)
    <3>1. UNCHANGED <<status, history>>
      BY <2>5 DEF InsertPayment, FulfilFails, GetPaymentLink, DirectSaleFails, orderVars
    <3> QED
      BY <2>1, <3>1, NothingSigned
  <2> QED
    BY <1>4, <2>3, <2>4, <2>5 DEF Unattended
<1>5. CASE UNCHANGED deskVars
  BY <1>5 DEF deskVars, vars, orderVars
<1> QED
  BY <1>3, <1>4, <1>5 DEF DeskNext

\* The inductive invariant: history and by are row by row of one length, and
\* every row is signed by a hand entitled to it under the owner of today.
Hands ==
  \A o \in OrderIds :
    /\ Len(by[o]) = Len(history[o])
    /\ \A i \in 1..Len(history[o]) : Entitled(owner[o], history[o][i], by[o][i])

DeskInv == TypeOK /\ DeskTypeOK /\ AuditTrail /\ Hands

LEMMA DeskInvInit == DeskInit => DeskInv
<1> SUFFICES ASSUME DeskInit
             PROVE  DeskInv
  OBVIOUS
<1>1. Init
  BY DEF DeskInit
<1>2. TypeOK /\ AuditTrail
  BY <1>1, TypeInit, TrailInit
<1>3. DeskTypeOK
  BY DEF DeskInit, DeskTypeOK
<1>4. \A o \in OrderIds : history[o] = << >> /\ by[o] = << >>
  BY <1>1 DEF DeskInit, Init
<1>5. Hands
  BY <1>4 DEF Hands
<1> QED
  BY <1>2, <1>3, <1>5 DEF DeskInv

LEMMA DeskInvStep ==
  ASSUME DeskInv, [DeskNext]_deskVars
  PROVE  DeskInv'
<1>1. [Next]_vars
  BY DeskStepIsOrdersStep
<1>2. TypeOK' /\ AuditTrail'
  BY <1>1, TypeStep, TrailStep DEF DeskInv
<1>3. CASE UNCHANGED <<status, history, owner, by>>
  BY <1>2, <1>3 DEF DeskInv, DeskTypeOK, Hands
<1>4. ASSUME NEW o \in OrderIds, NEW to \in Statuses, NEW who \in Users \cup {System},
             Signs(o, to, who)
      PROVE  DeskTypeOK' /\ Hands'
  <2>1. /\ owner \in [OrderIds -> Users \cup {System}]
        /\ by \in [OrderIds -> Seq(Users \cup {System})]
        /\ history \in [OrderIds -> Seq(Statuses)]
    BY DEF DeskInv, TypeOK, DeskTypeOK
  <2>2. /\ history' = [history EXCEPT ![o] = Append(history[o], to)]
        /\ by' = [by EXCEPT ![o] = Append(by[o], who)]
        /\ owner' = IF to = "pending" THEN [owner EXCEPT ![o] = who] ELSE owner
        /\ Entitled(owner'[o], to, who)
    BY <1>4 DEF Signs, SetStatus
  <2>3. DeskTypeOK'
    <3>1. Append(by[o], who) \in Seq(Users \cup {System})
      BY <2>1
    <3> QED
      BY <2>1, <2>2, <3>1 DEF DeskTypeOK
  <2>4. ASSUME NEW x \in OrderIds, x # o
        PROVE  /\ Len(by'[x]) = Len(history'[x])
               /\ \A i \in 1..Len(history'[x]) : Entitled(owner'[x], history'[x][i], by'[x][i])
    <3>1. history'[x] = history[x] /\ by'[x] = by[x] /\ owner'[x] = owner[x]
      BY <2>1, <2>2, <2>4
    <3> QED
      BY <3>1 DEF DeskInv, Hands
  <2>5. /\ Len(by'[o]) = Len(history'[o])
        /\ \A i \in 1..Len(history'[o]) : Entitled(owner'[o], history'[o][i], by'[o][i])
    <3> DEFINE h == history[o]
               b == by[o]
    <3>1. /\ h \in Seq(Statuses) /\ b \in Seq(Users \cup {System})
          /\ history'[o] = Append(h, to) /\ by'[o] = Append(b, who) /\ Len(b) = Len(h)
      BY <2>1, <2>2 DEF DeskInv, Hands
    <3>2. /\ Len(h) \in Nat
          /\ Len(Append(h, to)) = Len(h) + 1 /\ Len(Append(b, who)) = Len(h) + 1
          /\ \A i \in 1..Len(h) : Append(h, to)[i] = h[i] /\ Append(b, who)[i] = b[i]
          /\ Append(h, to)[Len(h) + 1] = to /\ Append(b, who)[Len(h) + 1] = who
      BY <3>1
    \* A placed order has no earlier row; the owner of another stays.
    <3>3. \A i \in 1..Len(h) : Entitled(owner'[o], h[i], b[i])
      <4>1. CASE to = "pending"
        <5>1. status[o] = "absent"
          BY <1>4, <4>1 DEF Signs, Lifecycle!Edges, Lifecycle!Cancellable
        <5>2. Len(h) = 0
          BY <5>1 DEF DeskInv, AuditTrail
        <5> QED
          BY <5>2
      <4>2. CASE to # "pending"
        <5>1. owner'[o] = owner[o]
          BY <2>2, <4>2
        <5> QED
          BY <5>1 DEF DeskInv, Hands
      <4> QED
        BY <4>1, <4>2
    <3> HIDE DEF h, b
    <3>4. \A i \in 1..(Len(h) + 1) : i \in 1..Len(h) \/ i = Len(h) + 1
      BY <3>2
    <3> QED
      BY <2>2, <3>1, <3>2, <3>3, <3>4
  <2> QED
    BY <2>3, <2>4, <2>5 DEF Hands
<1> QED
  BY <1>2, <1>3, <1>4, DeskMoves DEF DeskInv

LEMMA DeskInductive == DeskSpec => []DeskInv
BY DeskInvInit, DeskInvStep, PTL DEF DeskSpec

\* Every row of the audit trail was written by a hand entitled to it, for any
\* number of clients, managers and delivery persons.
THEOREM TrailIsSigned == DeskSpec => []HandsOnOrder
<1>1. DeskInv => HandsOnOrder
  <2> SUFFICES ASSUME DeskInv, NEW o \in OrderIds, NEW i \in DOMAIN by[o]
               PROVE  LET who == by[o][i]
                          role == IF who = System THEN "system" ELSE RoleOf[who]
                      IN CASE history[o][i] = "pending" -> who = owner[o] /\ role = "client"
                           [] history[o][i] = "paid" -> role = "system"
                           [] history[o][i] \in {"processing", "shipped"} -> role = "manager"
                           [] history[o][i] = "delivered" -> role = "delivery_person"
                           [] OTHER -> who = owner[o] \/ role \in {"system", "manager"}
    BY DEF HandsOnOrder, DeskInv, Hands
  <2>1. /\ history[o] \in Seq(Statuses) /\ by[o] \in Seq(Users \cup {System})
        /\ Len(by[o]) = Len(history[o])
    BY DEF DeskInv, TypeOK, DeskTypeOK, Hands
  <2>2. i \in 1..Len(history[o]) /\ history[o][i] \in Statuses
    BY <2>1
  <2>3. Entitled(owner[o], history[o][i], by[o][i])
    BY <2>2 DEF DeskInv, Hands
  <2>4. System \notin Users
    BY DeskAssumption
  <2> QED
    BY <2>2, <2>3, <2>4 DEF Entitled, Clients, Statuses
<1> QED
  BY <1>1, DeskInductive, PTL

(***************************************************************************)
(* Who sees an order, and who can take its next step.                      *)
(***************************************************************************)

\* No state lets a client tell a foreign order from a missing one.
LEMMA ForeignLooksMissing == ForeignOrdersLookMissing
<1> SUFFICES ASSUME NEW u \in Clients, NEW o \in OrderIds, owner[o] # u
             PROVE  Answers(u, o) = MissingAnswers(u) /\ ~Finds(u, o)
  BY DEF ForeignOrdersLookMissing
<1>1. u \in Users /\ RoleOf[u] = "client"
  BY DEF Clients
<1>2. o \notin visibilityWhere(u) /\ ~ownershipWhere(u, o)
  BY <1>1 DEF visibilityWhere, ownershipWhere
<1>3. ~Finds(u, o)
  BY <1>1, <1>2 DEF Finds, MayAsk, listOrders
<1>4. /\ getOrder(u, o) = MissingAnswers(u).get
      /\ listOrderStatusHistory(u, o) = MissingAnswers(u).history
      /\ cancelOrder(u, o) = MissingAnswers(u).cancel
      /\ createPaymentIntent(u, o) = MissingAnswers(u).pay
  BY <1>2 DEF getOrder, listOrderStatusHistory, cancelOrder, createPaymentIntent,
              Outcome, MissingAnswers
\* The guard refuses a client before the order is looked up.
<1>5. /\ transition(u, o, OrdersController.processOrder, "paid") = MissingAnswers(u).process
      /\ transition(u, o, OrdersController.shipOrder, "processing") = MissingAnswers(u).ship
      /\ transition(u, o, OrdersController.deliverOrder, "shipped") = MissingAnswers(u).deliver
  BY <1>1, OrderRoutes DEF transition, Answered, MissingAnswers
<1> QED
  BY <1>3, <1>4, <1>5 DEF Answers, MissingAnswers

\* Whatever happened to an order, no endpoint tells a client that is not its
\* owner whether it exists, and no list shows it.
THEOREM ForeignOrdersStayHidden == DeskSpec => []ForeignOrdersLookMissing
BY ForeignLooksMissing, PTL

\* An order someone sees leaves shipped only as delivered, signed by whoever
\* delivers it, and a delivered one stays in the list of its deliverer.
LEMMA SightStep ==
  ASSUME DeskInv, DeskInv', [DeskNext]_deskVars
  PROVE  HidesDeliveredOrders
<1> SUFFICES ASSUME NEW u \in Users, NEW o \in OrderIds,
                    o \in visibilityWhere(u), o \notin visibilityWhere(u)'
             PROVE  /\ RoleOf[u] = "delivery_person" /\ status'[o] = "delivered"
                    /\ by'[o][Len(by'[o])] # u
  BY DEF HidesDeliveredOrders
<1>1. ~UNCHANGED <<status, history, owner, by>>
  BY DEF visibilityWhere, ownDeliveriesWhere
<1>2. PICK x \in OrderIds, to \in Statuses, who \in Users \cup {System} : Signs(x, to, who)
  BY <1>1, DeskMoves DEF DeskInv
<1>3. /\ status \in [OrderIds -> Statuses \cup {"absent"}]
      /\ owner \in [OrderIds -> Users \cup {System}]
      /\ by \in [OrderIds -> Seq(Users \cup {System})]
      /\ history \in [OrderIds -> Seq(Statuses)]
  BY DEF DeskInv, TypeOK, DeskTypeOK
<1>4. /\ <<status[x], to>> \in Lifecycle!Edges
      /\ status' = [status EXCEPT ![x] = to]
      /\ history' = [history EXCEPT ![x] = Append(history[x], to)]
      /\ by' = [by EXCEPT ![x] = Append(by[x], who)]
      /\ owner' = IF to = "pending" THEN [owner EXCEPT ![x] = who] ELSE owner
  BY <1>2 DEF Signs, SetStatus
<1>5. x = o
  <2> SUFFICES ASSUME x # o
               PROVE  FALSE
    OBVIOUS
  <2>1. /\ status'[o] = status[o] /\ history'[o] = history[o]
        /\ by'[o] = by[o] /\ owner'[o] = owner[o]
    BY <1>3, <1>4
  <2> QED
    BY <2>1 DEF visibilityWhere, ownDeliveriesWhere
<1>6. status[o] # "absent" /\ status'[o] = to /\ to # "absent"
  BY <1>3, <1>4, <1>5 DEF visibilityWhere, Statuses
<1>7. to # "pending" /\ owner'[o] = owner[o]
  BY <1>4, <1>5, <1>6 DEF Lifecycle!Edges, Lifecycle!Cancellable
<1>8. RoleOf[u] = "delivery_person"
  BY <1>6, <1>7 DEF visibilityWhere
<1>9. status[o] = "shipped" /\ to = "delivered"
  BY <1>4, <1>5, <1>8 DEF visibilityWhere, ownDeliveriesWhere,
                          Lifecycle!Edges, Lifecycle!Cancellable
<1>10. by'[o][Len(by'[o])] # u
  <2> DEFINE n == Len(history[o]) + 1
  <2>1. /\ history'[o] = Append(history[o], to) /\ by'[o] = Append(by[o], who)
        /\ Len(by[o]) = Len(history[o])
        /\ history[o] \in Seq(Statuses) /\ by[o] \in Seq(Users \cup {System})
    BY <1>3, <1>4, <1>5 DEF DeskInv, Hands
  <2>2. Len(by'[o]) = n /\ n \in DOMAIN by'[o] /\ history'[o][n] = to /\ by'[o][n] = who
    BY <2>1
  <2>3. ASSUME who = u
        PROVE  FALSE
    BY <1>6, <1>8, <1>9, <2>2, <2>3 DEF visibilityWhere, ownDeliveriesWhere
  <2> QED
    BY <2>2, <2>3
<1> QED
  BY <1>6, <1>8, <1>9, <1>10

\* An order leaves a user's sight only when someone else delivers it.
THEOREM SightIsOnlyLostSo == DeskSpec => SightIsLostToADeliverer
<1>1. DeskInv /\ DeskInv' /\ [DeskNext]_deskVars => [HidesDeliveredOrders]_deskVars
  BY SightStep
<1> QED
  BY <1>1, DeskInductive, PTL DEF DeskSpec, SightIsLostToADeliverer

\* The hypothesis of the next theorem: the store has staff.
Staffed ==
  /\ \E u \in Users : RoleOf[u] = "manager"
  /\ \E u \in Users : RoleOf[u] = "delivery_person"

\* Whoever asks for no status and no range finds all that is visible to him.
LEMMA VisibleIsFound ==
  ASSUME NEW u \in Users, NEW o \in OrderIds, o \in visibilityWhere(u)
  PROVE  Finds(u, o)
<1> DEFINE q == [status |-> NoStatusAsked, within |-> OrderIds, mine |-> FALSE]
<1>1. q \in OrderQueries
  BY DEF OrderQueries
<1>2. MayAsk(u, q)
  BY OrderRoutes DEF MayAsk
<1>3. o \in listOrders(u, q)
  BY DEF listOrders, listFiltersWhere
<1> HIDE DEF q
<1> QED
  BY <1>1, <1>2, <1>3 DEF Finds

\* A cart order finds what it reserved, unless a link order of its SKUs took
\* units without having reserved them.
LEMMA UnitsAreThere ==
  ASSUME TypeOK, ReservationLedger, NEW o \in OrderIds, status[o] = "pending", ~UnitsTaken(o)
  PROVE  CanRelease(items[o])
<1>1. ASSUME NEW s \in Skus
      PROVE  /\ items[o][s] <= reserved[s] /\ reserved[s] <= stock[s]
             /\ items[o][s] \in Nat /\ reserved[s] \in Nat /\ stock[s] \in Nat
  <2>1. /\ items \in [OrderIds -> Quantities] /\ MaxQty \in Nat
        /\ \A x \in OrderIds : items[x][s] \in 0..MaxQty
        /\ stock[s] \in Nat /\ reserved[s] \in Nat /\ reserved[s] <= stock[s]
    BY InventoryAssumption
    DEF TypeOK, InventoryTypeOK, StockCheck, Quantities, InventoryAssumption
  <2>2. items[o][s] \in Nat /\ (items[o][s] = 0 \/ items[o][s] > 0)
    BY <2>1
  <2>3. CASE items[o][s] = 0
    BY <2>1, <2>3
  <2>4. CASE items[o][s] > 0
    <3>1. \A l \in Overreleased : items[l][s] = 0
      <4> SUFFICES ASSUME NEW l \in Overreleased
                   PROVE  items[l][s] = 0
        OBVIOUS
      <4>1. l \in OrderIds /\ s \in Lines(items[o]) /\ s \notin Lines(items[l])
        BY <2>4 DEF Overreleased, OrderIds, UnitsTaken, Lines
      <4>2. items[l][s] \in 0..MaxQty /\ ~(items[l][s] > 0)
        BY <2>1, <4>1 DEF Lines
      <4> QED
        BY <4>2, <2>1
    <3>2. InUnits(Overreleased, items, s) = 0
      <4>1. \A l \in Overreleased : 1..items[l][s] = {}
        BY <3>1
      <4>2. Units(Overreleased, items, s) = {}
        BY <4>1 DEF Units
      <4> QED
        BY <4>2, FS_EmptySet DEF InUnits
    <3>3. o \in Holding /\ Holding \subseteq OrderIds /\ IsFiniteSet(Holding)
      BY OrdersAssumption, FS_Subset DEF Holding, OrderIds, OrdersAssumption, UnitsTaken
    <3>4. InUnits(Holding, items, s) = InUnits(Holding \ {o}, items, s) + items[o][s]
      <4>1. IsFiniteSet(Holding \ {o}) /\ (Holding \ {o}) \cup {o} = Holding
        BY <3>3, FS_RemoveElement
      <4>2. /\ \A x \in (Holding \ {o}) \cup {o} : items[x][s] \in 0..MaxQty
            /\ o \notin Holding \ {o} /\ MaxQty \in Nat
        BY <2>1, <3>3
      <4>3. InUnits((Holding \ {o}) \cup {o}, items, s)
              = InUnits(Holding \ {o}, items, s) + items[o][s]
        BY <4>1, <4>2, UnitsAdd
      <4> QED
        BY <4>1, <4>3
    <3>5. InUnits(Holding \ {o}, items, s) \in Nat
      BY <2>1, <3>3, FS_RemoveElement, UnitsFinite
    <3>6. reserved[s] + InUnits(Overreleased, items, s) = InUnits(Holding, items, s)
      BY DEF ReservationLedger
    <3> QED
      BY <2>1, <2>2, <3>2, <3>4, <3>5, <3>6
  <2> QED
    BY <2>2, <2>3, <2>4
<1> QED
  BY <1>1 DEF CanRelease, StockCheck, Minus

\* No order is stranded between roles: its owner finds it while it is pending
\* and may cancel it, which fails only where its units were taken; and a
\* store with a manager and a delivery person has someone who finds it and
\* may take each later step.
THEOREM NoOrderIsStranded ==
  ASSUME Staffed
  PROVE  DeskSpec => []SomeoneCanAct
<1>1. DeskInv /\ ReservationLedger => SomeoneCanAct
  <2> SUFFICES ASSUME DeskInv, ReservationLedger, NEW o \in OrderIds
               PROVE  /\ status[o] = "pending" =>
                           \E u \in Users :
                             /\ Finds(u, o)
                             /\ \/ Answers(u, o).cancel = "ok"
                                \/ Answers(u, o).cancel = "internal-error" /\ UnitsTaken(o)
                      /\ status[o] = "paid" =>
                           \E u \in Users : Finds(u, o) /\ Answers(u, o).process = "ok"
                      /\ status[o] = "processing" =>
                           \E u \in Users : Finds(u, o) /\ Answers(u, o).ship = "ok"
                      /\ status[o] = "shipped" =>
                           \E u \in Users : Finds(u, o) /\ Answers(u, o).deliver = "ok"
    BY DEF SomeoneCanAct
  <2>1. ASSUME NEW u \in Users
        PROVE  /\ Answers(u, o).cancel = cancelOrder(u, o)
               /\ Answers(u, o).process = transition(u, o, OrdersController.processOrder, "paid")
               /\ Answers(u, o).ship = transition(u, o, OrdersController.shipOrder, "processing")
               /\ Answers(u, o).deliver =
                    transition(u, o, OrdersController.deliverOrder, "shipped")
    BY DEF Answers
  <2>2. ASSUME status[o] = "pending"
        PROVE  \E u \in Users :
                 /\ Finds(u, o)
                 /\ \/ Answers(u, o).cancel = "ok"
                    \/ Answers(u, o).cancel = "internal-error" /\ UnitsTaken(o)
    <3>1. owner[o] \in Clients
      <4>1. history[o] \in Seq(Statuses) /\ history[o] # << >> /\ history[o][1] = "pending"
        BY <2>2 DEF DeskInv, TypeOK, AuditTrail
      <4>2. 1 \in 1..Len(history[o])
        BY <4>1
      <4> QED
        BY <4>1, <4>2 DEF DeskInv, Hands, Entitled
    <3>2. owner[o] \in Users /\ RoleOf[owner[o]] = "client"
      BY <3>1 DEF Clients
    <3>3. o \in visibilityWhere(owner[o])
      BY <2>2, <3>2 DEF visibilityWhere
    <3>4. CanRelease(items[o]) \/ UnitsTaken(o)
      BY <2>2, UnitsAreThere DEF DeskInv
    <3>5. cancelOrder(owner[o], o) =
            IF CanRelease(items[o]) THEN "ok" ELSE toProblem(DriverError)
      BY <2>2, <3>2, OrderRoutes
      DEF cancelOrder, Answered, Outcome, ownershipWhere, CanCancel, CancelRefused, RestockableFrom
    <3>6. toProblem(DriverError) = "internal-error"
      BY DEF toProblem, DriverError
    <3> QED
      BY <2>1, <3>2, <3>3, <3>4, <3>5, <3>6, VisibleIsFound
  <2>3. PICK m \in Users : RoleOf[m] = "manager"
    BY DEF Staffed
  <2>4. PICK d \in Users : RoleOf[d] = "delivery_person"
    BY DEF Staffed
  <2>5. status[o] # "absent" => Finds(m, o)
    BY <2>3, VisibleIsFound DEF visibilityWhere
  <2>6. ASSUME status[o] = "paid"
        PROVE  \E u \in Users : Finds(u, o) /\ Answers(u, o).process = "ok"
    <3>1. transition(m, o, OrdersController.processOrder, "paid") = "ok"
      BY <2>3, <2>6, OrderRoutes DEF transition, Answered, Outcome
    <3> QED
      BY <2>1, <2>5, <2>6, <3>1
  <2>7. ASSUME status[o] = "processing"
        PROVE  \E u \in Users : Finds(u, o) /\ Answers(u, o).ship = "ok"
    <3>1. transition(m, o, OrdersController.shipOrder, "processing") = "ok"
      BY <2>3, <2>7, OrderRoutes DEF transition, Answered, Outcome
    <3> QED
      BY <2>1, <2>5, <2>7, <3>1
  <2>8. ASSUME status[o] = "shipped"
        PROVE  \E u \in Users : Finds(u, o) /\ Answers(u, o).deliver = "ok"
    <3>1. transition(d, o, OrdersController.deliverOrder, "shipped") = "ok"
      BY <2>4, <2>8, OrderRoutes DEF transition, Answered, Outcome
    <3>2. Finds(d, o)
      BY <2>4, <2>8, VisibleIsFound DEF visibilityWhere
    <3> QED
      BY <2>1, <3>1, <3>2
  <2> QED
    BY <2>2, <2>6, <2>7, <2>8
<1> QED
  BY <1>1, DeskInductive, BooksHoldAtTheDesk, PTL
=============================================================================
