---------------------------- MODULE OrdersProps ----------------------------
(***************************************************************************)
(* The properties of Orders.                                               *)
(***************************************************************************)
EXTENDS Orders, OrderUnits

\* Orders that hold reserved units.
Holding == {o \in CartOrders : status[o] = "pending"}

\* Orders whose units left the shelf for a buyer and have not come back.
Sold == {o \in OrderIds :
          status[o] \in {"paid", "processing", "shipped", "delivered"}} \ oversold

\* Orders that gave back, or turned into a sale, a reservation they never
\* made: a link order paid by a payment intent or cancelled while pending.
Overreleased == {o \in LinkOrders :
  \/ succeeded[o] = "payment_intent"
  \/ succeeded[o] = "none" /\ status[o] = "cancelled"}

\* Direct sales that took nothing off the shelf and were later "restocked".
Phantom == {o \in oversold : status[o] = "cancelled"}

Redemptions(p) == {o \in OrderIds :
  promoCodeId[o] = p /\ status[o] \notin {"absent", "cancelled"}}

TypeOK ==
  /\ InventoryTypeOK /\ PromotionsTypeOK /\ LowStockTypeOK
  /\ status \in [OrderIds -> Statuses \cup {"absent"}]
  /\ items \in [OrderIds -> Quantities]
  /\ promoCodeId \in [OrderIds -> Promos \cup {NoPromo}]
  /\ history \in [OrderIds -> Seq(Statuses)]
  /\ asked \subseteq OrderIds
  /\ pendingIntent \subseteq OrderIds
  /\ succeeded \in [OrderIds -> Methods \cup {"none"}]
  /\ checkout \subseteq LinkOrders
  /\ oversold \subseteq LinkOrders
  /\ stuck \subseteq OrderIds \X Methods

\* Lemma of the ledgers: an order has its succeeded payment row from the step
\* that pays it on, and only payment links oversell.
PaymentMatchesStatus ==
  \A o \in OrderIds :
    /\ status[o] \in {"absent", "pending"} => succeeded[o] = "none"
    /\ status[o] \in {"paid", "processing", "shipped", "delivered"}
         => succeeded[o] # "none"
    /\ o \in oversold => succeeded[o] = "payment_link"

\* Lemma of the ledgers: POST /checkout writes one order_items row, so the
\* row directSale corrects is the whole order.
LinkOrderHasOneLine ==
  \A o \in LinkOrders : \A s, t \in Lines(items[o]) : s = t

\* What reserved_stock holds, whatever the interleaving of creations,
\* payments, cancellations and sweeps: the units of the pending cart orders,
\* minus those that link orders took out of it without ever having put them
\* in (Fulfil and Release decrement it for any order).
ReservationLedger ==
  \A s \in Skus : reserved[s] + InUnits(Overreleased, items, s) = InUnits(Holding, items, s)

\* What stock holds: every unit ever received, minus the sales that took
\* units, plus what the cancellation of an oversold direct sale "returned"
\* although nothing had left.
StockLedger ==
  \A s \in Skus : stock[s] + InUnits(Sold, items, s) = received[s] + InUnits(Phantom, items, s)

\* times_redeemed counts the orders that use the code and are not cancelled:
\* no lost increment, no double decrement by two cancellations.
PromoLedger ==
  \A p \in Promos : timesRedeemed[p] = Cardinality(Redemptions(p))

\* No unit is promised to two buyers: the units sold and the units held for
\* a pending cart order fit in what was received. Direct sales the guard
\* refused are set aside: the buyer must be refunded (docs/database, 9).
NoOverselling ==
  \A s \in Skus : InUnits(Sold, items, s) + InUnits(Holding, items, s) <= received[s]

\* No statement meets CHECK skus_stock_check: a pending order can be
\* released whenever its buyer or the sweep asks for it, and fulfilled
\* whenever its payment succeeds.
EveryUpdateIsChecked ==
  \A o \in OrderIds :
    /\ status[o] = "pending" => CanRelease(items[o])
    /\ Charged(o) => CanDeduct(items[o])

\* A cancellation after the payment puts back units that had left the shelf,
\* and only those: stock is what was received minus what is sold.
RestockReturnsSoldUnits ==
  \A s \in Skus : stock[s] + InUnits(Sold, items, s) = received[s]

\* Every charge Stripe reports for a pending order is recorded: no webhook
\* transaction is rolled back.
NoStuckPayment == stuck = {}

\* The three tables that tell the story of an order agree: the audit trail
\* ends in the current status and starts at pending, and "paid" is in it
\* exactly when the order has a succeeded payment row, of a method its
\* origin allows.
AuditTrail ==
  \A o \in OrderIds :
    LET trail == history[o]
        Saw(st) == \E i \in DOMAIN trail : trail[i] = st
    IN /\ status[o] = "absent" <=> trail = << >>
       /\ status[o] # "absent" =>
            trail[1] = "pending" /\ trail[Len(trail)] = status[o]
       /\ Saw("paid") <=> succeeded[o] # "none"
       /\ succeeded[o] = "payment_link" => o \in checkout

\* An open low-stock event tells the truth: some SKU of the product is at or
\* under the threshold. Only a write that takes a SKU above it can make the
\* event stale, and every such write closes it.
OpenEventIsTrue ==
  \A p \in Products : openEvent[p] =>
    \E s \in Skus : ProductOf[s] = p /\ stock[s] <= LowStockThreshold

\* A step that leaves what was paid for as it is.
KeepsPaidOrders ==
  \A o \in OrderIds : succeeded[o] # "none" =>
    /\ items'[o] = items[o]
    /\ promoCodeId'[o] = promoCodeId[o]
    /\ succeeded'[o] = succeeded[o]

\* An order's contents are frozen once it is paid: cancellation puts back
\* the very units the payment took, at whatever later step it comes.
PaidOrdersAreFrozen == [][KeepsPaidOrders]_vars

\* The store keeps the lifecycle of OrderLifecycle, order by order.
Lifecycle == INSTANCE OrderLifecycle
KeepsLifecycle == Lifecycle!Spec

\* Where every order comes from the cart, the counters implement the store
\* without counters: an order is accepted only if what was received covers
\* it and all the orders pending and sold.
Ideal == INSTANCE IdealStore
ImplementsIdealStore == Ideal!Spec
=============================================================================
