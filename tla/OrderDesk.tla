----------------------------- MODULE OrderDesk -----------------------------
(***************************************************************************)
(* Orders with its callers: each request of the order, payment and         *)
(* checkout endpoints is made by a user with a role, passes the guards of  *)
(* Access, and is narrowed by the WHERE clauses that hide one user's       *)
(* orders from another. Webhooks and the sweep act for nobody.             *)
(***************************************************************************)
EXTENDS OrdersProps, Access

CONSTANTS
  Users,
  RoleOf,    \* users.role; no endpoint changes it
  System     \* order_status_history.changed_by is null

ASSUME DeskAssumption ==
  /\ RoleOf \in [Users -> Roles]
  /\ System \notin Users

VARIABLES
  owner,     \* orders.user_id
  by         \* order_status_history.changed_by, row by row with history

deskVars == <<vars, owner, by>>

DeskInit ==
  /\ Init
  /\ owner = [o \in OrderIds |-> System]
  /\ by = [o \in OrderIds |-> << >>]

\* changed_by of the history row the step writes, if it writes one.
SignedBy(who) ==
  by' = [o \in OrderIds |->
          IF history'[o] = history[o] THEN by[o] ELSE Append(by[o], who)]

Clients == {u \in Users : RoleOf[u] = "client"}
MayCall(u, route) == Admitted(RoleOf[u], route)

(***************************************************************************)
(* What a user sees of the orders.                                         *)
(***************************************************************************)

\* Mutant of ownDeliveriesWhere: the user is looked for in the wrong row.
OwnShipmentsWhere(u) ==
  {o \in OrderIds : /\ status[o] = "delivered"
                    /\ \E i \in DOMAIN by[o] : by[o][i] = u /\ history[o][i] = "shipped"}

ownDeliveriesWhere(u) ==
  {o \in OrderIds : /\ status[o] = "delivered"
                    /\ \E i \in DOMAIN by[o] : by[o][i] = u /\ history[o][i] = "delivered"}

\* Mutant of visibilityWhere: a delivery person sees the delivered only.
VisibilityWithoutShipped(u) ==
  {o \in OrderIds : /\ status[o] # "absent"
                    /\ \/ RoleOf[u] = "manager"
                       \/ RoleOf[u] = "client" /\ owner[o] = u
                       \/ RoleOf[u] = "delivery_person" /\ o \in ownDeliveriesWhere(u)}

visibilityWhere(u) ==
  {o \in OrderIds : /\ status[o] # "absent"
                    /\ \/ RoleOf[u] = "manager"
                       \/ RoleOf[u] = "client" /\ owner[o] = u
                       \/ /\ RoleOf[u] = "delivery_person"
                          /\ status[o] = "shipped" \/ o \in ownDeliveriesWhere(u)}

\* A query of GET /orders: statuses asked for (none: any), the orders whose
\* date and total are in the ranges asked for, and deliveredBy=me.
NoStatusAsked == {}
OrderQueries == [status: {NoStatusAsked} \cup {{st} : st \in Statuses},
                 within: SUBSET OrderIds, mine: BOOLEAN]

listFiltersWhere(q) ==
  {o \in q.within : q.status = NoStatusAsked \/ status[o] \in q.status}

\* listOrders; only a delivery person may ask for deliveredBy=me.
MayAsk(u, q) ==
  MayCall(u, OrdersController.listOrders) /\ (q.mine => RoleOf[u] = "delivery_person")
listOrders(u, q) ==
  (IF q.mine THEN ownDeliveriesWhere(u) ELSE visibilityWhere(u)) \cap listFiltersWhere(q)

Finds(u, o) == \E q \in OrderQueries : MayAsk(u, q) /\ o \in listOrders(u, q)

(***************************************************************************)
(* What each endpoint answers for an order id, whether it exists or not.   *)
(***************************************************************************)
NotFoundException == [kind |-> "HttpException", status |-> 404]
InvalidStatusTransition == [kind |-> "AppException", slug |-> "invalid-status-transition"]
OrderNotPayable == [kind |-> "AppException", slug |-> "order-not-payable"]
DriverError == [kind |-> "DriverAdapterError"]

Outcome(found, accepted, otherwise) ==
  IF ~found THEN toProblem(NotFoundException)
  ELSE IF accepted THEN "ok" ELSE toProblem(otherwise)

Answered(u, route, answer) ==
  IF MayCall(u, route) THEN answer ELSE Refusal(RoleOf[u], route)

getOrder(u, o) ==
  Answered(u, OrdersController.getOrder,
           Outcome(o \in visibilityWhere(u), TRUE, InvalidStatusTransition))

listOrderStatusHistory(u, o) ==
  Answered(u, OrdersController.listOrderStatusHistory,
           Outcome(o \in visibilityWhere(u), TRUE, InvalidStatusTransition))

ownershipWhere(u, o) == RoleOf[u] = "client" => owner[o] = u

\* The claim of the order meets its status; releasing what it reserved meets
\* skus_stock_check, and what breaks it rolls the claim back.
CanCancel(o) ==
  \/ status[o] \in RestockableFrom
  \/ status[o] = "pending" /\ CanRelease(items[o])
CancelRefused(o) == IF status[o] = "pending" THEN DriverError ELSE InvalidStatusTransition

\* Mutant of cancelOrder: the order is looked up without its owner.
CancelOrderLooksAnywhere(u, o) ==
  Answered(u, OrdersController.cancelOrder,
           Outcome(status[o] # "absent", ownershipWhere(u, o) /\ CanCancel(o), CancelRefused(o)))

cancelOrder(u, o) ==
  Answered(u, OrdersController.cancelOrder,
           Outcome(status[o] # "absent" /\ ownershipWhere(u, o), CanCancel(o), CancelRefused(o)))

transition(u, o, route, from) ==
  Answered(u, route, Outcome(status[o] # "absent", status[o] = from, InvalidStatusTransition))

createPaymentIntent(u, o) ==
  Answered(u, PaymentsController.createPaymentIntent,
           Outcome(status[o] # "absent" /\ owner[o] = u,
                   status[o] = "pending" /\ succeeded[o] = "none", OrderNotPayable))

Answers(u, o) ==
  [get     |-> getOrder(u, o),
   history |-> listOrderStatusHistory(u, o),
   cancel  |-> cancelOrder(u, o),
   process |-> transition(u, o, OrdersController.processOrder, "paid"),
   ship    |-> transition(u, o, OrdersController.shipOrder, "processing"),
   deliver |-> transition(u, o, OrdersController.deliverOrder, "shipped"),
   pay     |-> createPaymentIntent(u, o)]

\* The answers for an id no order has.
MissingAnswers(u) ==
  LET missing(route) == Answered(u, route, toProblem(NotFoundException)) IN
  [get     |-> missing(OrdersController.getOrder),
   history |-> missing(OrdersController.listOrderStatusHistory),
   cancel  |-> missing(OrdersController.cancelOrder),
   process |-> missing(OrdersController.processOrder),
   ship    |-> missing(OrdersController.shipOrder),
   deliver |-> missing(OrdersController.deliverOrder),
   pay     |-> missing(PaymentsController.createPaymentIntent)]

(***************************************************************************)
(* The requests that change something.                                     *)
(***************************************************************************)
PlaceOrder(u, o, q, p) ==
  /\ MayCall(u, OrdersController.createOrder)
  /\ CreateOrder(o, q, p)
  /\ owner' = [owner EXCEPT ![o] = u]
  /\ SignedBy(u)

PlaceLinkOrder(u, o, s, n) ==
  /\ MayCall(u, CheckoutController.createPaymentLinkCheckout)
  /\ CreateLinkOrder(o, s, n)
  /\ owner' = [owner EXCEPT ![o] = u]
  /\ SignedBy(u)

\* Mutant of Cancel: the claim forgets whose order it is.
CancelAnyOrder(u, o) ==
  /\ MayCall(u, OrdersController.cancelOrder)
  /\ CancelOrder(o)
  /\ SignedBy(u)
  /\ UNCHANGED owner

Cancel(u, o) ==
  /\ cancelOrder(u, o) = "ok"
  /\ CancelOrder(o)
  /\ SignedBy(u)
  /\ UNCHANGED owner

Advance(u, o) ==
  /\ \/ MayCall(u, OrdersController.processOrder) /\ ProcessOrder(o)
     \/ MayCall(u, OrdersController.shipOrder)    /\ ShipOrder(o)
     \/ MayCall(u, OrdersController.deliverOrder) /\ DeliverOrder(o)
  /\ SignedBy(u)
  /\ UNCHANGED owner

Pay(u, o) ==
  /\ createPaymentIntent(u, o) = "ok"
  /\ AskPaymentIntent(o)
  /\ SignedBy(u)
  /\ UNCHANGED owner

\* Stripe's webhooks, the rest of a request that passed its checks, and the
\* sweep of a stale order.
Unattended(o) ==
  /\ \/ InsertPayment(o) \/ Fulfil(o) \/ FulfilFails(o)
     \/ status[o] = "pending" /\ ReleasePending(o)
     \/ /\ o \in LinkOrders
        /\ \/ GetPaymentLink(o)
           \/ \E s \in Skus, n \in 1..MaxQty : DirectSale(o, s, n) \/ DirectSaleFails(o, s, n)
  /\ SignedBy(System)
  /\ UNCHANGED owner

Stockroom(u) ==
  /\ MayCall(u, SkusController.restock)
  /\ \E s \in Skus, n \in 1..MaxQty : RestockSku(s, n)
  /\ SignedBy(u)
  /\ UNCHANGED owner

UserStep(u) ==
  \/ \E o \in CartOrders, q \in Quantities, p \in Promos \cup {NoPromo} : PlaceOrder(u, o, q, p)
  \/ \E o \in LinkOrders, s \in Skus, n \in 1..MaxQty : PlaceLinkOrder(u, o, s, n)
  \/ \E o \in OrderIds : Cancel(u, o) \/ Advance(u, o) \/ Pay(u, o)
  \/ Stockroom(u)

DeskNext == (\E u \in Users : UserStep(u)) \/ (\E o \in OrderIds : Unattended(o))

DeskSpec == DeskInit /\ [][DeskNext]_deskVars

(***************************************************************************)
(* Properties.                                                             *)
(***************************************************************************)

\* The audit trail is complete, and every row of it was written by a hand
\* entitled to it: the owner places, the webhook pays, the manager moves, the delivery person
\* delivers; the owner, a manager or the sweep cancels.
HandsOnOrder ==
  /\ AuditTrail
  /\ \A o \in OrderIds :
       /\ Len(by[o]) = Len(history[o])
       /\ \A i \in DOMAIN by[o] :
            LET who == by[o][i]
                role == IF who = System THEN "system" ELSE RoleOf[who]
            IN CASE history[o][i] = "pending" -> who = owner[o] /\ role = "client"
                 [] history[o][i] = "paid" -> role = "system"
                 [] history[o][i] \in {"processing", "shipped"} -> role = "manager"
                 [] history[o][i] = "delivered" -> role = "delivery_person"
                 [] OTHER -> who = owner[o] \/ role \in {"system", "manager"}

\* "404 when a user-scoped resource's ownership is what's hidden"
\* (docs/decisions.md:31): no endpoint tells a client a foreign order from
\* one that does not exist, whatever its status, and no list shows it.
ForeignOrdersLookMissing ==
  \A u \in Clients, o \in OrderIds :
    owner[o] # u => Answers(u, o) = MissingAnswers(u) /\ ~Finds(u, o)

\* What o reserved is not sure to be there: it reserved nothing, or a link
\* order that had not reserved any gave back or sold units of its SKUs.
UnitsTaken(o) ==
  o \in LinkOrders \/ \E l \in Overreleased : Lines(items[l]) \cap Lines(items[o]) # {}

\* No order is stranded between roles: whoever has to take its next step can
\* find it in a list and is let through. Only a cancellation whose units
\* were taken may break skus_stock_check and fail.
SomeoneCanAct ==
  \A o \in OrderIds :
    LET Someone(Accepts(_)) == \E u \in Users : Finds(u, o) /\ Accepts(u)
        Cancels(u) == \/ Answers(u, o).cancel = "ok"
                      \/ Answers(u, o).cancel = "internal-error" /\ UnitsTaken(o)
    IN /\ status[o] = "pending"    => Someone(Cancels)
       /\ status[o] = "paid"       => Someone(LAMBDA u : Answers(u, o).process = "ok")
       /\ status[o] = "processing" => Someone(LAMBDA u : Answers(u, o).ship = "ok")
       /\ status[o] = "shipped"    => Someone(LAMBDA u : Answers(u, o).deliver = "ok")

\* A step that hides an order from u is its delivery by someone else.
HidesDeliveredOrders ==
  \A u \in Users, o \in OrderIds :
    o \in visibilityWhere(u) \ visibilityWhere(u)' =>
      /\ RoleOf[u] = "delivery_person" /\ status'[o] = "delivered"
      /\ by'[o][Len(by'[o])] # u

\* An order leaves a user's sight only when someone else delivers it.
SightIsLostToADeliverer == [][HidesDeliveredOrders]_deskVars
=============================================================================
