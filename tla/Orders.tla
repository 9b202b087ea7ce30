------------------------------- MODULE Orders -------------------------------
(***************************************************************************)
(* The orders of the store with everything their handlers write: the       *)
(* status and its audit trail, the counters of Inventory, the redemption   *)
(* counters of Promotions, the payment rows, the payment links and the     *)
(* low-stock events.                                                       *)
(*                                                                         *)
(* One action is one database transaction. Each transaction that moves an  *)
(* order begins with UPDATE orders ... WHERE id = ? AND status = ?, keeps  *)
(* that row locked until it commits, and touches counters only through     *)
(* single relative UPDATEs, so the transactions of one order are           *)
(* serialised and those of two orders commute on the counters. A           *)
(* transaction that throws changes nothing, except that the webhook event  *)
(* that ran it is spent: see stuck. Handlers that await something between  *)
(* two statements outside a transaction are split there.                   *)
(*                                                                         *)
(* Order ids are split by the endpoint that creates the order, because     *)
(* only POST /orders reserves units; the program keeps no such column.     *)
(***************************************************************************)
EXTENDS Inventory, Promotions, LowStock, Sequences

CONSTANTS
  CartOrders,  \* ids POST /orders may assign
  LinkOrders   \* ids POST /checkout (payment links) may assign

ASSUME OrdersAssumption ==
  /\ IsFiniteSet(CartOrders)
  /\ IsFiniteSet(LinkOrders)
  /\ CartOrders \cap LinkOrders = {}
  /\ ProductOf \in [Skus -> Products]

OrderIds == CartOrders \cup LinkOrders

VARIABLES
  status,        \* orders.status, "absent" before the row exists
  items,         \* order_items of the order
  promoCodeId,   \* orders.promo_code_id
  history,       \* order_status_history of the order, oldest first
  asked,         \* createPaymentIntent calls that passed the payable check
  pendingIntent, \* orders with a pending payment_intent row in payments
  succeeded,     \* method of the order's succeeded payment row
  checkout,      \* link orders whose buyer was given the link's URL
  oversold,      \* history: direct sales whose stock UPDATE hit 0 rows
  stuck          \* charged orders whose webhook transaction was rolled back

paymentVars == <<asked, pendingIntent, succeeded, stuck>>
linkVars    == <<checkout, oversold>>
orderVars   == <<status, items, promoCodeId, history>>
vars == <<inventoryVars, promoVars, openEvent, orderVars, paymentVars, linkVars>>

\* Mutant of RestockableFrom: an order on its way may be cancelled.
RestockableUntilDelivered == {"paid", "processing", "shipped"}

RestockableFrom == {"paid", "processing"}
Statuses == {"pending", "paid", "processing", "shipped", "delivered", "cancelled"}
Methods  == {"payment_intent", "payment_link"}
NoLines  == [s \in Skus |-> 0]

Init ==
  /\ InventoryInit /\ PromotionsInit /\ LowStockInit
  /\ status = [o \in OrderIds |-> "absent"]
  /\ items = [o \in OrderIds |-> NoLines]
  /\ promoCodeId = [o \in OrderIds |-> NoPromo]
  /\ history = [o \in OrderIds |-> << >>]
  /\ asked = {} /\ pendingIntent = {} /\ stuck = {}
  /\ succeeded = [o \in OrderIds |-> "none"]
  /\ checkout = {} /\ oversold = {}

\* The status and its order_status_history row, written together by every
\* transaction that moves an order.
SetStatus(o, to) ==
  /\ status' = [status EXCEPT ![o] = to]
  /\ history' = [history EXCEPT ![o] = Append(@, to)]

(***************************************************************************)
(* Creation.                                                               *)
(***************************************************************************)

CreateOrder(o, q, p) ==
  /\ status[o] = "absent"
  /\ Lines(q) # {}
  /\ Reserve(q)
  /\ Redeem(p)
  /\ items' = [items EXCEPT ![o] = q]
  /\ promoCodeId' = [promoCodeId EXCEPT ![o] = p]
  /\ SetStatus(o, "pending")
  /\ UNCHANGED <<openEvent, paymentVars, linkVars>>

\* createPaymentLinkCheckout up to its first commit: an order is written and
\* nothing is reserved. The quantity is provisional.
CreateLinkOrder(o, s, n) ==
  /\ status[o] = "absent"
  /\ items' = [items EXCEPT ![o] = [NoLines EXCEPT ![s] = n]]
  /\ promoCodeId' = [promoCodeId EXCEPT ![o] = NoPromo]
  /\ SetStatus(o, "pending")
  /\ UNCHANGED <<inventoryVars, promoVars, openEvent,
                 paymentVars, linkVars>>

\* getOrCreatePaymentLinkUrl, seen from the order: its buyer is given a URL,
\* whatever happened to the stock or to the order meanwhile.
GetPaymentLink(o) ==
  /\ status[o] # "absent"
  /\ o \notin checkout
  /\ checkout' = checkout \cup {o}
  /\ UNCHANGED <<oversold, inventoryVars, promoVars, openEvent, orderVars, paymentVars>>

\* createPaymentIntent reads the order and its payments, then calls Stripe.
AskPaymentIntent(o) ==
  /\ status[o] = "pending"
  /\ succeeded[o] = "none"
  /\ o \notin pendingIntent \cup asked
  /\ asked' = asked \cup {o}
  /\ UNCHANGED <<pendingIntent, succeeded, stuck, inventoryVars, promoVars,
                 openEvent, orderVars, linkVars>>

\* It then inserts the pending row, whatever happened to the order meanwhile.
InsertPayment(o) ==
  /\ o \in asked
  /\ asked' = asked \ {o}
  /\ pendingIntent' = pendingIntent \cup {o}
  /\ UNCHANGED <<succeeded, stuck, inventoryVars, promoVars, openEvent,
                 orderVars, linkVars>>

(***************************************************************************)
(* Stripe webhooks. An event is processed once: the row inserted first in  *)
(* stripe_webhook_events turns every redelivery away, after a failed       *)
(* transaction too. An event for an order no longer pending writes         *)
(* nothing and needs no action.                                            *)
(***************************************************************************)

\* payment_intent.succeeded
FulfilCommits(o) ==
  /\ CanDeduct(items[o])
  /\ CanDetect(Lines(items[o]), Minus(stock, items[o]))

\* Mutant of Charged: Fulfil claims the order whatever its status.
ChargedInAnyStatus(o) ==
  o \in pendingIntent /\ <<o, "payment_intent">> \notin stuck

Charged(o) ==
  /\ status[o] = "pending"
  /\ o \in pendingIntent
  /\ <<o, "payment_intent">> \notin stuck

Fulfil(o) ==
  /\ Charged(o)
  /\ Deduct(items[o])
  /\ DetectAndOpen(Lines(items[o]), stock')
  /\ SetStatus(o, "paid")
  /\ pendingIntent' = pendingIntent \ {o}
  /\ succeeded' = [succeeded EXCEPT ![o] = "payment_intent"]
  /\ UNCHANGED <<items, promoCodeId, asked, stuck, promoVars, linkVars>>

FulfilFails(o) ==
  /\ Charged(o)
  /\ ~FulfilCommits(o)
  /\ stuck' = stuck \cup {<<o, "payment_intent">>}
  /\ UNCHANGED <<asked, pendingIntent, succeeded, inventoryVars, promoVars,
                 openEvent, orderVars, linkVars>>

\* checkout.session.completed, with the quantity chosen on Stripe's page.
StockAfterSale(s, n) == IF Available(s) >= n THEN stock[s] - n ELSE stock[s]

DirectSaleCommits(s, n) ==
  CanDetect({s}, [stock EXCEPT ![s] = StockAfterSale(s, n)])

\* Mutant of DirectSale: the quantity of the line stays provisional.
DirectSaleKeepsQuantity(o, s, n) ==
  /\ status[o] = "pending"
  /\ o \in checkout
  /\ s \in Lines(items[o])
  /\ SellDirect(s, n)
  /\ DetectAndOpen({s}, stock')
  /\ SetStatus(o, "paid")
  /\ succeeded' = [succeeded EXCEPT ![o] = "payment_link"]
  /\ oversold' = IF Available(s) >= n THEN oversold ELSE oversold \cup {o}
  /\ UNCHANGED <<items, promoCodeId, asked, pendingIntent, stuck, checkout, promoVars>>

\* Mutant of DirectSale: the order is claimed whatever its status.
DirectSaleOfAnyOrder(o, s, n) ==
  /\ status[o] # "absent"
  /\ o \in checkout
  /\ s \in Lines(items[o])
  /\ SellDirect(s, n)
  /\ DetectAndOpen({s}, stock')
  /\ items' = [items EXCEPT ![o] = [@ EXCEPT ![s] = n]]
  /\ SetStatus(o, "paid")
  /\ succeeded' = [succeeded EXCEPT ![o] = "payment_link"]
  /\ oversold' = IF Available(s) >= n THEN oversold ELSE oversold \cup {o}
  /\ UNCHANGED <<promoCodeId, asked, pendingIntent, stuck, checkout, promoVars>>

DirectSale(o, s, n) ==
  /\ status[o] = "pending"
  /\ o \in checkout
  /\ s \in Lines(items[o])
  /\ SellDirect(s, n)
  /\ DetectAndOpen({s}, stock')
  /\ items' = [items EXCEPT ![o] = [@ EXCEPT ![s] = n]]
  /\ SetStatus(o, "paid")
  /\ succeeded' = [succeeded EXCEPT ![o] = "payment_link"]
  /\ oversold' = IF Available(s) >= n THEN oversold ELSE oversold \cup {o}
  /\ UNCHANGED <<promoCodeId, asked, pendingIntent, stuck, checkout, promoVars>>

DirectSaleFails(o, s, n) ==
  /\ status[o] = "pending"
  /\ o \in checkout
  /\ s \in Lines(items[o])
  /\ ~DirectSaleCommits(s, n)
  /\ stuck' = stuck \cup {<<o, "payment_link">>}
  /\ UNCHANGED <<asked, pendingIntent, succeeded, inventoryVars, promoVars,
                 openEvent, orderVars, linkVars>>

(***************************************************************************)
(* Cancellation: finalizeCancellation after the status was claimed.        *)
(***************************************************************************)

\* Mutant of ReleasePending: the promo code keeps its redemption.
ReleasePendingKeepsCode(o) ==
  /\ Release(items[o])
  /\ SetStatus(o, "cancelled")
  /\ UNCHANGED <<items, promoCodeId, openEvent, paymentVars, linkVars, promoVars>>

ReleasePending(o) ==
  /\ Release(items[o])
  /\ ReleaseRedemption(promoCodeId[o])
  /\ SetStatus(o, "cancelled")
  /\ UNCHANGED <<items, promoCodeId, openEvent, paymentVars, linkVars>>

\* Mutant of RestockPaid: the event stays open.
RestockPaidKeepsEvent(o) ==
  /\ Restock(items[o])
  /\ ReleaseRedemption(promoCodeId[o])
  /\ SetStatus(o, "cancelled")
  /\ UNCHANGED <<items, promoCodeId, openEvent, paymentVars, linkVars>>

RestockPaid(o) ==
  /\ Restock(items[o])
  /\ ResolveIfCrossedAbove(Lines(items[o]), stock')
  /\ ReleaseRedemption(promoCodeId[o])
  /\ SetStatus(o, "cancelled")
  /\ UNCHANGED <<items, promoCodeId, paymentVars, linkVars>>

CancelOrder(o) ==
  \/ status[o] = "pending" /\ ReleasePending(o)
  \/ status[o] \in RestockableFrom /\ RestockPaid(o)

(***************************************************************************)
(* The manager and the delivery person.                                    *)
(***************************************************************************)

Transition(o, from, to) ==
  /\ status[o] = from
  /\ SetStatus(o, to)
  /\ UNCHANGED <<items, promoCodeId, inventoryVars, promoVars, openEvent,
                 paymentVars, linkVars>>

ProcessOrder(o) == Transition(o, "paid", "processing")
ShipOrder(o)    == Transition(o, "processing", "shipped")
DeliverOrder(o) == Transition(o, "shipped", "delivered")

RestockSku(s, n) ==
  /\ ReceiveUnits(s, n)
  /\ ResolveIfCrossedAbove({s}, stock')
  /\ UNCHANGED <<promoVars, orderVars, paymentVars, linkVars>>

ChangePromo(p, limit, live) ==
  /\ UpdatePromo(p, limit, live)
  /\ UNCHANGED <<inventoryVars, openEvent, orderVars, paymentVars, linkVars>>

OrderStep(o) ==
  \/ AskPaymentIntent(o) \/ InsertPayment(o)
  \/ Fulfil(o) \/ FulfilFails(o)
  \/ CancelOrder(o)
  \/ ProcessOrder(o) \/ ShipOrder(o) \/ DeliverOrder(o)

LinkStep(o) ==
  \/ GetPaymentLink(o)
  \/ \E s \in Skus, n \in 1..MaxQty :
       CreateLinkOrder(o, s, n) \/ DirectSale(o, s, n) \/ DirectSaleFails(o, s, n)

ManagerStep ==
  \/ \E s \in Skus, n \in 1..MaxQty : RestockSku(s, n)
  \/ \E p \in Promos, limit \in UsageLimits, live \in BOOLEAN :
       ChangePromo(p, limit, live)

Next ==
  \/ \E o \in CartOrders, q \in Quantities, p \in Promos \cup {NoPromo} :
       CreateOrder(o, q, p)
  \/ \E o \in OrderIds : OrderStep(o)
  \/ \E o \in LinkOrders : LinkStep(o)
  \/ ManagerStep

Spec == Init /\ [][Next]_vars
=============================================================================
