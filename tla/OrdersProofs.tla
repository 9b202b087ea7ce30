---------------------------- MODULE OrdersProofs ----------------------------
(***************************************************************************)
(* Theorems about Orders, for every set of SKUs, orders, promo codes and   *)
(* every bound: the type invariant, the agreement of payments with the     *)
(* status, the audit trail, the ledgers of reserved_stock, stock and       *)
(* times_redeemed, the low-stock events, and the refinement of             *)
(* OrderLifecycle and IdealStore.                                          *)
(***************************************************************************)
EXTENDS OrdersProps, OrderUnitsProofs

(***************************************************************************)
(* Types.                                                                  *)
(***************************************************************************)

LEMMA QuantityType ==
  ASSUME NEW f \in [Skus -> Nat], NEW q \in Quantities
  PROVE  /\ f \in [Skus -> Int]
         /\ Plus(f, q) \in [Skus -> Int]
         /\ Minus(f, q) \in [Skus -> Int]
BY InventoryAssumption DEF Plus, Minus, Quantities, InventoryAssumption

\* Write is the only statement that moves both counters, and the CHECK is
\* its guard, so it keeps their type.
LEMMA WriteType ==
  ASSUME NEW st \in [Skus -> Int], NEW rs \in [Skus -> Int],
         InventoryTypeOK, Write(st, rs)
  PROVE  InventoryTypeOK'
BY DEF Write, InventoryTypeOK, StockCheck

LEMMA CountType ==
  ASSUME NEW p \in Promos \cup {NoPromo}, NEW d \in {-1, 1}, PromotionsTypeOK,
         Count(p, d), UNCHANGED <<usageLimit, promoLive>>
  PROVE  PromotionsTypeOK'
BY DEF Count, PromotionsTypeOK

\* A new status and its row in the audit trail.
LEMMA SetStatusType ==
  ASSUME NEW o \in OrderIds, NEW to \in Statuses, TypeOK, SetStatus(o, to)
  PROVE  /\ status' \in [OrderIds -> Statuses \cup {"absent"}]
         /\ history' \in [OrderIds -> Seq(Statuses)]
<1>1. Append(history[o], to) \in Seq(Statuses)
  BY DEF TypeOK
<1>2. QED
  BY <1>1 DEF TypeOK, SetStatus

LEMMA CreateOrderType ==
  ASSUME NEW o \in CartOrders, NEW q \in Quantities,
         NEW p \in Promos \cup {NoPromo}, TypeOK, CreateOrder(o, q, p)
  PROVE  TypeOK'
<1>1. o \in OrderIds /\ "pending" \in Statuses
  BY DEF OrderIds, Statuses
<1>2. InventoryTypeOK'
  <2>1. stock \in [Skus -> Int] /\ Plus(reserved, q) \in [Skus -> Int]
    BY QuantityType DEF TypeOK, InventoryTypeOK
  <2>2. QED
    BY <2>1, WriteType DEF TypeOK, CreateOrder, Reserve
<1>3. PromotionsTypeOK'
  BY CountType DEF TypeOK, CreateOrder, Redeem
<1>4. /\ status' \in [OrderIds -> Statuses \cup {"absent"}]
      /\ history' \in [OrderIds -> Seq(Statuses)]
  BY <1>1, SetStatusType DEF CreateOrder
<1>5. QED
  BY <1>1, <1>2, <1>3, <1>4
  DEF TypeOK, CreateOrder, LowStockTypeOK, paymentVars, linkVars

LEMMA CreateLinkOrderType ==
  ASSUME NEW o \in LinkOrders, NEW s \in Skus, NEW n \in 1..MaxQty,
         TypeOK, CreateLinkOrder(o, s, n)
  PROVE  TypeOK'
<1>1. o \in OrderIds /\ "pending" \in Statuses
  BY DEF OrderIds, Statuses
<1>2. [NoLines EXCEPT ![s] = n] \in Quantities
  BY InventoryAssumption DEF NoLines, Quantities, InventoryAssumption
<1>3. InventoryTypeOK' /\ PromotionsTypeOK'
  BY DEF TypeOK, CreateLinkOrder, inventoryVars, promoVars,
         InventoryTypeOK, PromotionsTypeOK, StockCheck
<1>4. /\ status' \in [OrderIds -> Statuses \cup {"absent"}]
      /\ history' \in [OrderIds -> Seq(Statuses)]
  BY <1>1, SetStatusType DEF CreateLinkOrder
<1>5. QED
  BY <1>1, <1>2, <1>3, <1>4
  DEF TypeOK, CreateLinkOrder, LowStockTypeOK, paymentVars, linkVars

LEMMA DetectType ==
  ASSUME NEW lines, NEW st, LowStockTypeOK,
         DetectAndOpen(lines, st) \/ ResolveIfCrossedAbove(lines, st)
  PROVE  LowStockTypeOK'
BY DEF LowStockTypeOK, DetectAndOpen, ResolveIfCrossedAbove

LEMMA FulfilType ==
  ASSUME NEW o \in OrderIds, TypeOK, Fulfil(o)
  PROVE  TypeOK'
<1>1. "paid" \in Statuses /\ items[o] \in Quantities
  BY DEF TypeOK, Statuses
<1>2. InventoryTypeOK'
  <2>1. /\ Minus(stock, items[o]) \in [Skus -> Int]
        /\ Minus(reserved, items[o]) \in [Skus -> Int]
    BY <1>1, QuantityType DEF TypeOK, InventoryTypeOK
  <2>2. QED
    BY <2>1, WriteType DEF TypeOK, Fulfil, Deduct
<1>3. PromotionsTypeOK'
  BY DEF TypeOK, Fulfil, promoVars, PromotionsTypeOK
<1>4. /\ status' \in [OrderIds -> Statuses \cup {"absent"}]
      /\ history' \in [OrderIds -> Seq(Statuses)]
  BY <1>1, SetStatusType DEF Fulfil
<1>5. LowStockTypeOK'
  BY DetectType DEF TypeOK, Fulfil
<1>6. QED
  BY <1>1, <1>2, <1>3, <1>4, <1>5 DEF TypeOK, Fulfil, linkVars, Methods

LEMMA DirectSaleType ==
  ASSUME NEW o \in LinkOrders, NEW s \in Skus, NEW n \in 1..MaxQty,
         TypeOK, DirectSale(o, s, n)
  PROVE  TypeOK'
<1>1. o \in OrderIds /\ "paid" \in Statuses
  BY DEF OrderIds, Statuses
<1>2. InventoryTypeOK'
  <2>1. CASE Available(s) >= n
    <3>1. [stock EXCEPT ![s] = @ - n] \in [Skus -> Int] /\ reserved \in [Skus -> Int]
      BY DEF TypeOK, InventoryTypeOK
    <3>2. QED
      BY <2>1, <3>1, WriteType DEF TypeOK, DirectSale, SellDirect
  <2>2. CASE ~(Available(s) >= n)
    BY <2>2 DEF TypeOK, DirectSale, SellDirect, inventoryVars,
                InventoryTypeOK, StockCheck
  <2>3. QED
    BY <2>1, <2>2
<1>3. PromotionsTypeOK'
  BY DEF TypeOK, DirectSale, promoVars, PromotionsTypeOK
<1>4. /\ status' \in [OrderIds -> Statuses \cup {"absent"}]
      /\ history' \in [OrderIds -> Seq(Statuses)]
  BY <1>1, SetStatusType DEF DirectSale
<1>5. LowStockTypeOK'
  BY DetectType DEF TypeOK, DirectSale
<1>6. items' \in [OrderIds -> Quantities]
  <2>1. [items[o] EXCEPT ![s] = n] \in Quantities
    BY <1>1, InventoryAssumption DEF TypeOK, Quantities, InventoryAssumption
  <2>2. QED
    BY <1>1, <2>1 DEF TypeOK, DirectSale
<1>7. oversold' \subseteq LinkOrders
  BY DEF TypeOK, DirectSale
<1>8. succeeded' \in [OrderIds -> Methods \cup {"none"}]
  BY DEF TypeOK, DirectSale, Methods
<1>9. QED
  BY <1>1, <1>2, <1>3, <1>4, <1>5, <1>6, <1>7, <1>8 DEF TypeOK, DirectSale

LEMMA CancelOrderType ==
  ASSUME NEW o \in OrderIds, TypeOK, CancelOrder(o)
  PROVE  TypeOK'
<1>1. "cancelled" \in Statuses /\ items[o] \in Quantities
  BY DEF TypeOK, Statuses
<1>2. SetStatus(o, "cancelled") /\ ReleaseRedemption(promoCodeId[o])
  BY DEF CancelOrder, ReleasePending, RestockPaid
<1>3. InventoryTypeOK'
  <2>1. /\ Minus(reserved, items[o]) \in [Skus -> Int]
        /\ Plus(stock, items[o]) \in [Skus -> Int]
        /\ stock \in [Skus -> Int] /\ reserved \in [Skus -> Int]
    BY <1>1, QuantityType DEF TypeOK, InventoryTypeOK
  <2>2. QED
    BY <2>1, WriteType
    DEF TypeOK, CancelOrder, ReleasePending, RestockPaid, Release, Restock
<1>4. PromotionsTypeOK'
  BY <1>2, CountType DEF TypeOK, ReleaseRedemption
<1>5. /\ status' \in [OrderIds -> Statuses \cup {"absent"}]
      /\ history' \in [OrderIds -> Seq(Statuses)]
  BY <1>1, <1>2, SetStatusType
<1>6. LowStockTypeOK'
  BY DetectType
  DEF TypeOK, CancelOrder, ReleasePending, RestockPaid, LowStockTypeOK
<1>7. QED
  BY <1>3, <1>4, <1>5, <1>6
  DEF TypeOK, CancelOrder, ReleasePending, RestockPaid, paymentVars, linkVars

LEMMA TransitionType ==
  ASSUME NEW o \in OrderIds, NEW from, NEW to \in Statuses,
         TypeOK, Transition(o, from, to)
  PROVE  TypeOK'
<1>1. /\ status' \in [OrderIds -> Statuses \cup {"absent"}]
      /\ history' \in [OrderIds -> Seq(Statuses)]
  BY SetStatusType DEF Transition
<1>2. QED
  BY <1>1 DEF TypeOK, Transition, inventoryVars, promoVars, paymentVars, linkVars,
              InventoryTypeOK, PromotionsTypeOK, LowStockTypeOK, StockCheck

\* The steps that leave orders, counters and promo codes as they are.
LEMMA BookkeepingType ==
  ASSUME TypeOK,
         \/ \E o \in OrderIds :
              AskPaymentIntent(o) \/ InsertPayment(o) \/ FulfilFails(o)
         \/ \E o \in LinkOrders : \/ GetPaymentLink(o)
                                  \/ \E s \in Skus, n \in 1..MaxQty : DirectSaleFails(o, s, n)
  PROVE  TypeOK'
<1>1. /\ UNCHANGED <<inventoryVars, promoVars, openEvent, orderVars, succeeded, oversold>>
  BY DEF AskPaymentIntent, InsertPayment, FulfilFails, GetPaymentLink,
         DirectSaleFails, linkVars, paymentVars
<1>2. InventoryTypeOK' /\ PromotionsTypeOK' /\ LowStockTypeOK'
  BY <1>1 DEF TypeOK, InventoryTypeOK, PromotionsTypeOK, LowStockTypeOK,
              inventoryVars, promoVars, StockCheck
<1>3. asked' \subseteq OrderIds /\ pendingIntent' \subseteq OrderIds
  BY DEF TypeOK, AskPaymentIntent, InsertPayment, FulfilFails, GetPaymentLink,
         DirectSaleFails, paymentVars
<1>4. stuck' \subseteq OrderIds \X Methods
  BY DEF TypeOK, AskPaymentIntent, InsertPayment, FulfilFails, GetPaymentLink,
         DirectSaleFails, Methods, OrderIds, paymentVars
<1>5. checkout' \subseteq LinkOrders
  BY DEF TypeOK, AskPaymentIntent, InsertPayment, FulfilFails, GetPaymentLink,
         DirectSaleFails, linkVars
<1>6. QED
  BY <1>1, <1>2, <1>3, <1>4, <1>5 DEF TypeOK, orderVars

LEMMA ManagerType ==
  ASSUME TypeOK, ManagerStep
  PROVE  TypeOK'
<1>1. ASSUME NEW s \in Skus, NEW n \in 1..MaxQty, RestockSku(s, n)
      PROVE  TypeOK'
  <2>1. InventoryTypeOK'
    BY <1>1 DEF TypeOK, InventoryTypeOK, StockCheck, RestockSku, ReceiveUnits
  <2>2. LowStockTypeOK'
    BY <1>1, DetectType DEF TypeOK, RestockSku
  <2>3. QED
    BY <1>1, <2>1, <2>2 DEF TypeOK, RestockSku, promoVars, orderVars,
                            paymentVars, linkVars, PromotionsTypeOK
<1>2. ASSUME NEW p \in Promos, NEW limit \in UsageLimits, NEW live \in BOOLEAN,
             ChangePromo(p, limit, live)
      PROVE  TypeOK'
  BY <1>2 DEF TypeOK, ChangePromo, UpdatePromo, PromotionsTypeOK, InventoryTypeOK,
              LowStockTypeOK, StockCheck, inventoryVars, orderVars, paymentVars, linkVars
<1>3. QED
  BY <1>1, <1>2 DEF ManagerStep

\* Every column keeps its type, the two counters of a SKU stay within CHECK
\* skus_stock_check.
LEMMA TypeInit == Init => TypeOK
<1> SUFFICES ASSUME Init PROVE TypeOK
  OBVIOUS
<1>1. InventoryTypeOK
  <2>1. stock \in [Skus -> Nat]
    BY InventoryAssumption DEF Init, InventoryInit, InventoryAssumption
  <2>2. received = stock /\ reserved = [s \in Skus |-> 0]
    BY DEF Init, InventoryInit
  <2>3. QED
    BY <2>1, <2>2 DEF InventoryTypeOK, StockCheck
<1>2. PromotionsTypeOK /\ LowStockTypeOK
  BY DEF Init, PromotionsInit, PromotionsTypeOK, LowStockInit, LowStockTypeOK
<1>3. NoLines \in Quantities
  BY InventoryAssumption DEF NoLines, Quantities, InventoryAssumption
<1>4. << >> \in Seq(Statuses)
  OBVIOUS
<1>5. QED
  BY <1>1, <1>2, <1>3, <1>4 DEF Init, TypeOK

LEMMA TypeStep ==
  ASSUME TypeOK, [Next]_vars
  PROVE  TypeOK'
<1>1. ASSUME NEW o \in CartOrders, NEW q \in Quantities, NEW p \in Promos \cup {NoPromo},
             CreateOrder(o, q, p)
      PROVE  TypeOK'
  BY <1>1, CreateOrderType
<1>2. ASSUME NEW o \in OrderIds, OrderStep(o)
      PROVE  TypeOK'
  <2>1. CASE AskPaymentIntent(o) \/ InsertPayment(o) \/ FulfilFails(o)
    BY <2>1, BookkeepingType
  <2>2. CASE Fulfil(o)
    BY <2>2, FulfilType
  <2>3. CASE CancelOrder(o)
    BY <2>3, CancelOrderType
  <2>4. CASE ProcessOrder(o) \/ ShipOrder(o) \/ DeliverOrder(o)
    BY <2>4, TransitionType DEF ProcessOrder, ShipOrder, DeliverOrder, Statuses
  <2>5. QED
    BY <1>2, <2>1, <2>2, <2>3, <2>4 DEF OrderStep
<1>3. ASSUME NEW o \in LinkOrders, LinkStep(o)
      PROVE  TypeOK'
  BY <1>3, BookkeepingType, CreateLinkOrderType, DirectSaleType DEF LinkStep
<1>4. ASSUME ManagerStep
      PROVE  TypeOK'
  BY <1>4, ManagerType
<1>5. CASE UNCHANGED vars
  BY <1>5 DEF TypeOK, vars, inventoryVars, promoVars, orderVars, paymentVars, linkVars,
              InventoryTypeOK, PromotionsTypeOK, LowStockTypeOK, StockCheck
<1>6. QED
  BY <1>1, <1>2, <1>3, <1>4, <1>5 DEF Next

\* The type invariant holds in every reachable state of the store.
THEOREM TypeCorrect == Spec => []TypeOK
BY TypeInit, TypeStep, PTL DEF Spec

(***************************************************************************)
(* Payments and status.                                                    *)
(***************************************************************************)

LEMMA PaymentStep ==
  ASSUME TypeOK, PaymentMatchesStatus, [Next]_vars
  PROVE  PaymentMatchesStatus'
<1>1. ASSUME UNCHANGED <<status, succeeded, oversold>>
      PROVE  PaymentMatchesStatus'
  BY <1>1 DEF PaymentMatchesStatus
<1>2. ASSUME NEW o \in OrderIds, NEW to \in Statuses, SetStatus(o, to),
             UNCHANGED <<succeeded, oversold>>,
             to = "pending" => status[o] = "absent",
             to \in {"paid", "processing", "shipped", "delivered"} => succeeded[o] # "none"
      PROVE  PaymentMatchesStatus'
  BY <1>2 DEF TypeOK, PaymentMatchesStatus, SetStatus, Statuses
<1>3. ASSUME NEW o \in CartOrders, NEW q \in Quantities, NEW p \in Promos \cup {NoPromo},
             CreateOrder(o, q, p)
      PROVE  PaymentMatchesStatus'
  <2>1. o \in OrderIds /\ "pending" \in Statuses
    BY DEF OrderIds, Statuses
  <2>2. QED
    BY <1>2, <1>3, <2>1 DEF CreateOrder, paymentVars, linkVars
<1>4. ASSUME NEW o \in OrderIds, OrderStep(o)
      PROVE  PaymentMatchesStatus'
  <2>1. CASE AskPaymentIntent(o) \/ InsertPayment(o) \/ FulfilFails(o)
    BY <1>1, <2>1 DEF AskPaymentIntent, InsertPayment, FulfilFails, orderVars, linkVars
  <2>2. CASE Fulfil(o)
    BY <2>2 DEF TypeOK, PaymentMatchesStatus, Fulfil, Charged, SetStatus, linkVars
  <2>3. CASE CancelOrder(o)
    <3>1. SetStatus(o, "cancelled") /\ UNCHANGED <<succeeded, oversold>>
      BY <2>3 DEF CancelOrder, ReleasePending, RestockPaid, paymentVars, linkVars
    <3>2. QED
      BY <1>2, <3>1 DEF Statuses
  <2>4. CASE ProcessOrder(o) \/ ShipOrder(o) \/ DeliverOrder(o)
    BY <1>2, <2>4 DEF ProcessOrder, ShipOrder, DeliverOrder, Transition, Statuses,
                      paymentVars, linkVars, PaymentMatchesStatus
  <2>5. QED
    BY <1>4, <2>1, <2>2, <2>3, <2>4 DEF OrderStep
<1>5. ASSUME NEW o \in LinkOrders, LinkStep(o)
      PROVE  PaymentMatchesStatus'
  <2>1. o \in OrderIds
    BY DEF OrderIds
  <2>2. CASE GetPaymentLink(o)
    BY <1>1, <2>2 DEF GetPaymentLink, orderVars, paymentVars
  <2>3. ASSUME NEW s \in Skus, NEW n \in 1..MaxQty, CreateLinkOrder(o, s, n)
        PROVE  PaymentMatchesStatus'
    BY <1>2, <2>1, <2>3 DEF CreateLinkOrder, paymentVars, linkVars, Statuses
  <2>4. ASSUME NEW s \in Skus, NEW n \in 1..MaxQty, DirectSale(o, s, n)
        PROVE  PaymentMatchesStatus'
    BY <2>1, <2>4 DEF TypeOK, PaymentMatchesStatus, DirectSale, SetStatus
  <2>5. ASSUME NEW s \in Skus, NEW n \in 1..MaxQty, DirectSaleFails(o, s, n)
        PROVE  PaymentMatchesStatus'
    BY <1>1, <2>5 DEF DirectSaleFails, orderVars, linkVars
  <2>6. QED
    BY <1>5, <2>2, <2>3, <2>4, <2>5 DEF LinkStep
<1>6. ASSUME ManagerStep
      PROVE  PaymentMatchesStatus'
  BY <1>1, <1>6 DEF ManagerStep, RestockSku, ChangePromo, orderVars, paymentVars, linkVars
<1>7. CASE UNCHANGED vars
  BY <1>1, <1>7 DEF vars, orderVars, paymentVars, linkVars
<1>8. QED
  BY <1>3, <1>4, <1>5, <1>6, <1>7 DEF Next

LEMMA OneLineStep ==
  ASSUME TypeOK, LinkOrderHasOneLine, [Next]_vars
  PROVE  LinkOrderHasOneLine'
<1>1. CASE items' = items
  BY <1>1 DEF LinkOrderHasOneLine
<1>2. ASSUME NEW o \in CartOrders, NEW q \in Quantities, NEW p \in Promos \cup {NoPromo},
             CreateOrder(o, q, p)
      PROVE  LinkOrderHasOneLine'
  <2>1. \A x \in LinkOrders : items'[x] = items[x]
    BY <1>2, OrdersAssumption DEF TypeOK, CreateOrder, OrderIds, OrdersAssumption
  <2>2. QED
    BY <2>1 DEF LinkOrderHasOneLine
<1>3. ASSUME NEW o \in LinkOrders, NEW s \in Skus, NEW n \in 1..MaxQty,
             CreateLinkOrder(o, s, n) \/ DirectSale(o, s, n)
      PROVE  LinkOrderHasOneLine'
  <2>1. \A x \in LinkOrders \ {o} : items'[x] = items[x]
    BY <1>3 DEF TypeOK, CreateLinkOrder, DirectSale, OrderIds
  <2>2. Lines(items'[o]) \subseteq {s}
    <3>1. o \in OrderIds /\ items[o] \in Quantities
      BY DEF TypeOK, OrderIds
    <3>2. CASE CreateLinkOrder(o, s, n)
      BY <3>1, <3>2 DEF TypeOK, CreateLinkOrder, NoLines, Lines
    <3>3. CASE DirectSale(o, s, n)
      <4>1. s \in Lines(items[o]) /\ items'[o] = [items[o] EXCEPT ![s] = n]
        BY <3>1, <3>3 DEF TypeOK, DirectSale
      <4>2. QED
        BY <3>1, <4>1 DEF LinkOrderHasOneLine, Lines, Quantities
    <3>4. QED
      BY <1>3, <3>2, <3>3
  <2>3. QED
    BY <2>1, <2>2 DEF LinkOrderHasOneLine
<1>4. ASSUME NEW o \in OrderIds, OrderStep(o)
      PROVE  items' = items
  BY <1>4 DEF OrderStep, AskPaymentIntent, InsertPayment, Fulfil, FulfilFails,
              CancelOrder, ReleasePending, RestockPaid, ProcessOrder, ShipOrder,
              DeliverOrder, Transition, orderVars
<1>5. ASSUME NEW o \in LinkOrders,
             GetPaymentLink(o) \/ \E s \in Skus, n \in 1..MaxQty : DirectSaleFails(o, s, n)
      PROVE  items' = items
  BY <1>5 DEF GetPaymentLink, DirectSaleFails, orderVars
<1>6. ManagerStep \/ UNCHANGED vars => items' = items
  BY DEF ManagerStep, RestockSku, ChangePromo, vars, orderVars
<1>7. QED
  BY <1>1, <1>2, <1>3, <1>4, <1>5, <1>6 DEF Next, LinkStep

(***************************************************************************)
(* The ledgers.                                                            *)
(***************************************************************************)

\* What order o contributes to the units of the group O of orders.
Share(O, its, o, s) == IF o \in O THEN its[o][s] ELSE 0

\* When a step touches the single order o, each group moves by what o counts
\* before and after.
LEMMA BooksMove ==
  ASSUME TypeOK, TypeOK', NEW o \in OrderIds, NEW s \in Skus,
         \A x \in OrderIds \ {o} :
           /\ status'[x] = status[x] /\ succeeded'[x] = succeeded[x]
           /\ items'[x] = items[x] /\ (x \in oversold' <=> x \in oversold)
  PROVE  /\ InUnits(Holding, items, s)' = InUnits(Holding, items, s)
              + (IF o \in Holding' THEN items'[o][s] ELSE 0)
              - (IF o \in Holding THEN items[o][s] ELSE 0)
         /\ InUnits(Overreleased, items, s)' = InUnits(Overreleased, items, s)
              + (IF o \in Overreleased' THEN items'[o][s] ELSE 0)
              - (IF o \in Overreleased THEN items[o][s] ELSE 0)
         /\ InUnits(Sold, items, s)' = InUnits(Sold, items, s)
              + (IF o \in Sold' THEN items'[o][s] ELSE 0)
              - (IF o \in Sold THEN items[o][s] ELSE 0)
         /\ InUnits(Phantom, items, s)' = InUnits(Phantom, items, s)
              + (IF o \in Phantom' THEN items'[o][s] ELSE 0)
              - (IF o \in Phantom THEN items[o][s] ELSE 0)
<1>1. IsFiniteSet(OrderIds)
  BY OrdersAssumption, FS_Union DEF OrdersAssumption, OrderIds
<1>2. /\ Holding \subseteq OrderIds /\ Overreleased \subseteq OrderIds
      /\ Sold \subseteq OrderIds /\ Phantom \subseteq OrderIds
  BY DEF TypeOK, Holding, Overreleased, Sold, Phantom, OrderIds
<1>3. /\ Holding' \subseteq OrderIds /\ Overreleased' \subseteq OrderIds
      /\ Sold' \subseteq OrderIds /\ Phantom' \subseteq OrderIds
  BY DEF TypeOK, Holding, Overreleased, Sold, Phantom, OrderIds
<1>4. /\ MaxQty \in Nat
      /\ \A x \in OrderIds : items[x][s] \in 0..MaxQty /\ items'[x][s] \in 0..MaxQty
  BY InventoryAssumption DEF TypeOK, Quantities, InventoryAssumption
<1>5. \A x \in OrderIds \ {o} :
        /\ x \in Holding <=> x \in Holding'
        /\ x \in Overreleased <=> x \in Overreleased'
        /\ x \in Sold <=> x \in Sold'
        /\ x \in Phantom <=> x \in Phantom'
  BY DEF Holding, Overreleased, Sold, Phantom, OrderIds
<1>6. ASSUME NEW A, NEW B, A \subseteq OrderIds, B \subseteq OrderIds,
             \A x \in OrderIds \ {o} : x \in A <=> x \in B
      PROVE  InUnits(B, items', s) = InUnits(A, items, s)
               + (IF o \in B THEN items'[o][s] ELSE 0)
               - (IF o \in A THEN items[o][s] ELSE 0)
  <2>1. IsFiniteSet(A)
    BY <1>1, <1>6, FS_Subset
  <2>2. /\ \A x \in A \cup {o} : items[x][s] \in 0..MaxQty
        /\ items'[o][s] \in 0..MaxQty
        /\ \A x : x # o => (x \in A <=> x \in B)
        /\ \A x \in A : x # o => items'[x][s] = items[x][s]
    BY <1>4, <1>6
  <2>3. QED
    BY <1>4, <2>1, <2>2, UnitsMove
<1>7. /\ InUnits(Holding, items, s)' = InUnits(Holding', items', s)
      /\ InUnits(Overreleased, items, s)' = InUnits(Overreleased', items', s)
      /\ InUnits(Sold, items, s)' = InUnits(Sold', items', s)
      /\ InUnits(Phantom, items, s)' = InUnits(Phantom', items', s)
  BY DEF InUnits, Units
<1>8. QED
  BY <1>2, <1>3, <1>5, <1>6, <1>7

\* The sums of the ledgers are numbers.
LEMMA BooksType ==
  ASSUME TypeOK, NEW s \in Skus
  PROVE  /\ InUnits(Holding, items, s) \in Nat /\ InUnits(Overreleased, items, s) \in Nat
         /\ InUnits(Sold, items, s) \in Nat /\ InUnits(Phantom, items, s) \in Nat
<1>1. IsFiniteSet(OrderIds)
  BY OrdersAssumption, FS_Union DEF OrdersAssumption, OrderIds
<1>2. /\ Holding \subseteq OrderIds /\ Overreleased \subseteq OrderIds
      /\ Sold \subseteq OrderIds /\ Phantom \subseteq OrderIds
  BY DEF TypeOK, Holding, Overreleased, Sold, Phantom, OrderIds
<1>3. MaxQty \in Nat /\ \A x \in OrderIds : items[x][s] \in 0..MaxQty
  BY InventoryAssumption DEF TypeOK, Quantities, InventoryAssumption
<1>4. ASSUME NEW O, O \subseteq OrderIds PROVE InUnits(O, items, s) \in Nat
  <2>1. IsFiniteSet(O)
    BY <1>1, <1>4, FS_Subset
  <2>2. \A x \in O : items[x][s] \in 0..MaxQty
    BY <1>3, <1>4
  <2>3. QED
    BY <1>3, <2>1, <2>2, UnitsFinite
<1>5. QED
  BY <1>2, <1>4

\* A step that touches one order keeps the ledgers if the counters move by
\* what the order's shares move.
LEMMA BooksBalance ==
  ASSUME TypeOK, TypeOK', ReservationLedger, StockLedger, NEW o \in OrderIds,
         \A x \in OrderIds \ {o} :
           /\ status'[x] = status[x] /\ succeeded'[x] = succeeded[x]
           /\ items'[x] = items[x] /\ (x \in oversold' <=> x \in oversold),
         \A s \in Skus :
           /\ reserved'[s] = reserved[s]
                + Share(Holding', items', o, s) - Share(Holding, items, o, s)
                - Share(Overreleased', items', o, s) + Share(Overreleased, items, o, s)
           /\ stock'[s] = stock[s] + received'[s] - received[s]
                - Share(Sold', items', o, s) + Share(Sold, items, o, s)
                + Share(Phantom', items', o, s) - Share(Phantom, items, o, s)
  PROVE  ReservationLedger' /\ StockLedger'
<1> SUFFICES ASSUME NEW s \in Skus
             PROVE  /\ reserved'[s] + InUnits(Overreleased, items, s)'
                         = InUnits(Holding, items, s)'
                    /\ stock'[s] + InUnits(Sold, items, s)'
                         = received'[s] + InUnits(Phantom, items, s)'
  BY DEF ReservationLedger, StockLedger
<1>1. /\ reserved[s] + InUnits(Overreleased, items, s) = InUnits(Holding, items, s)
      /\ stock[s] + InUnits(Sold, items, s) = received[s] + InUnits(Phantom, items, s)
  BY DEF ReservationLedger, StockLedger
<1>2. /\ InUnits(Holding, items, s) \in Nat /\ InUnits(Overreleased, items, s) \in Nat
      /\ InUnits(Sold, items, s) \in Nat /\ InUnits(Phantom, items, s) \in Nat
  BY BooksType
<1>3. /\ stock[s] \in Nat /\ reserved[s] \in Nat /\ received[s] \in Nat
      /\ stock'[s] \in Nat /\ reserved'[s] \in Nat /\ received'[s] \in Nat
  BY DEF TypeOK, InventoryTypeOK
<1>4. items[o][s] \in Nat /\ items'[o][s] \in Nat
  BY InventoryAssumption DEF TypeOK, Quantities, InventoryAssumption
<1>5. /\ InUnits(Holding, items, s)' = InUnits(Holding, items, s)
           + Share(Holding', items', o, s) - Share(Holding, items, o, s)
      /\ InUnits(Overreleased, items, s)' = InUnits(Overreleased, items, s)
           + Share(Overreleased', items', o, s) - Share(Overreleased, items, o, s)
      /\ InUnits(Sold, items, s)' = InUnits(Sold, items, s)
           + Share(Sold', items', o, s) - Share(Sold, items, o, s)
      /\ InUnits(Phantom, items, s)' = InUnits(Phantom, items, s)
           + Share(Phantom', items', o, s) - Share(Phantom, items, o, s)
  BY BooksMove DEF Share
<1>6. /\ Share(Holding, items, o, s) \in Nat /\ Share(Holding', items', o, s) \in Nat
      /\ Share(Overreleased, items, o, s) \in Nat
      /\ Share(Overreleased', items', o, s) \in Nat
      /\ Share(Sold, items, o, s) \in Nat /\ Share(Sold', items', o, s) \in Nat
      /\ Share(Phantom, items, o, s) \in Nat /\ Share(Phantom', items', o, s) \in Nat
  BY <1>4 DEF Share
<1>7. /\ reserved'[s] = reserved[s]
           + Share(Holding', items', o, s) - Share(Holding, items, o, s)
           - Share(Overreleased', items', o, s) + Share(Overreleased, items, o, s)
      /\ stock'[s] = stock[s] + received'[s] - received[s]
           - Share(Sold', items', o, s) + Share(Sold, items, o, s)
           + Share(Phantom', items', o, s) - Share(Phantom, items, o, s)
  OBVIOUS
<1>8. reserved'[s] + InUnits(Overreleased, items, s)' = InUnits(Holding, items, s)'
  BY <1>1, <1>2, <1>3, <1>5, <1>6, <1>7
<1>9. stock'[s] + InUnits(Sold, items, s)' = received'[s] + InUnits(Phantom, items, s)'
  BY <1>1, <1>2, <1>3, <1>5, <1>6, <1>7
<1>10. QED
  BY <1>8, <1>9

\* A step that touches no order, and restocks at most.
LEMMA BooksStill ==
  ASSUME TypeOK, TypeOK', ReservationLedger, StockLedger,
         UNCHANGED <<status, items, succeeded, oversold, reserved>>,
         \A s \in Skus : stock'[s] - stock[s] = received'[s] - received[s]
  PROVE  ReservationLedger' /\ StockLedger'
<1>1. /\ Holding' = Holding /\ Overreleased' = Overreleased
      /\ Sold' = Sold /\ Phantom' = Phantom /\ items' = items
  BY DEF Holding, Overreleased, Sold, Phantom
<1> SUFFICES ASSUME NEW s \in Skus
             PROVE  /\ reserved'[s] + InUnits(Overreleased, items, s)'
                         = InUnits(Holding, items, s)'
                    /\ stock'[s] + InUnits(Sold, items, s)'
                         = received'[s] + InUnits(Phantom, items, s)'
  BY DEF ReservationLedger, StockLedger
<1>2. /\ InUnits(Holding, items, s)' = InUnits(Holding, items, s)
      /\ InUnits(Overreleased, items, s)' = InUnits(Overreleased, items, s)
      /\ InUnits(Sold, items, s)' = InUnits(Sold, items, s)
      /\ InUnits(Phantom, items, s)' = InUnits(Phantom, items, s)
  BY <1>1 DEF InUnits, Units
<1>3. /\ reserved[s] + InUnits(Overreleased, items, s) = InUnits(Holding, items, s)
      /\ stock[s] + InUnits(Sold, items, s) = received[s] + InUnits(Phantom, items, s)
  BY DEF ReservationLedger, StockLedger
<1>4. /\ stock[s] \in Nat /\ received[s] \in Nat
      /\ stock'[s] \in Nat /\ received'[s] \in Nat
      /\ InUnits(Sold, items, s) \in Nat /\ InUnits(Phantom, items, s) \in Nat
  BY BooksType DEF TypeOK, InventoryTypeOK
<1>5. reserved'[s] = reserved[s] /\ stock'[s] - stock[s] = received'[s] - received[s]
  OBVIOUS
<1>6. QED
  BY <1>2, <1>3, <1>4, <1>5

\* The state in which the ledgers are kept.
BooksHypothesis ==
  /\ TypeOK /\ PaymentMatchesStatus /\ LinkOrderHasOneLine
  /\ ReservationLedger /\ StockLedger

LEMMA CreateOrderBooks ==
  ASSUME BooksHypothesis, TypeOK', NEW o \in CartOrders, NEW q \in Quantities,
         NEW p \in Promos \cup {NoPromo}, CreateOrder(o, q, p)
  PROVE  ReservationLedger' /\ StockLedger'
<1>1. o \in OrderIds /\ o \notin LinkOrders /\ items'[o] = q
      /\ status[o] = "absent" /\ status'[o] = "pending"
  BY OrdersAssumption
  DEF BooksHypothesis, TypeOK, CreateOrder, SetStatus, OrderIds, OrdersAssumption
<1>2. \A x \in OrderIds \ {o} :
        /\ status'[x] = status[x] /\ succeeded'[x] = succeeded[x]
        /\ items'[x] = items[x] /\ (x \in oversold' <=> x \in oversold)
  BY DEF BooksHypothesis, TypeOK, CreateOrder, SetStatus, paymentVars, linkVars
<1>3. /\ o \notin Holding /\ o \notin Overreleased /\ o \notin Sold /\ o \notin Phantom
      /\ o \in Holding' /\ o \notin Overreleased' /\ o \notin Sold' /\ o \notin Phantom'
  BY <1>1 DEF Holding, Overreleased, Sold, Phantom
<1>4. \A s \in Skus : /\ reserved'[s] = reserved[s] + q[s]
                      /\ stock'[s] = stock[s] /\ received'[s] = received[s]
  BY DEF CreateOrder, Reserve, Write, Plus
<1>5. \A s \in Skus : q[s] \in Nat /\ stock[s] \in Nat /\ reserved[s] \in Nat /\ received[s] \in Nat
  BY InventoryAssumption
  DEF BooksHypothesis, TypeOK, InventoryTypeOK, Quantities, InventoryAssumption
<1>6. \A s \in Skus :
        /\ Share(Holding', items', o, s) = q[s] /\ Share(Holding, items, o, s) = 0
        /\ Share(Overreleased', items', o, s) = 0 /\ Share(Overreleased, items, o, s) = 0
        /\ Share(Sold', items', o, s) = 0 /\ Share(Sold, items, o, s) = 0
        /\ Share(Phantom', items', o, s) = 0 /\ Share(Phantom, items, o, s) = 0
  BY <1>1, <1>3 DEF Share
<1>7. \A s \in Skus :
        /\ reserved'[s] = reserved[s]
             + Share(Holding', items', o, s) - Share(Holding, items, o, s)
             - Share(Overreleased', items', o, s) + Share(Overreleased, items, o, s)
        /\ stock'[s] = stock[s] + received'[s] - received[s]
             - Share(Sold', items', o, s) + Share(Sold, items, o, s)
             + Share(Phantom', items', o, s) - Share(Phantom, items, o, s)
  BY <1>4, <1>5, <1>6
<1>8. QED
  BY <1>1, <1>2, <1>7, BooksBalance DEF BooksHypothesis

\* A link order reserves nothing and is in no group until it moves on.
LEMMA CreateLinkOrderBooks ==
  ASSUME BooksHypothesis, TypeOK', NEW o \in LinkOrders, NEW k \in Skus,
         NEW n \in 1..MaxQty, CreateLinkOrder(o, k, n)
  PROVE  ReservationLedger' /\ StockLedger'
<1>1. /\ o \in OrderIds /\ o \notin CartOrders /\ status[o] = "absent"
      /\ status'[o] = "pending" /\ succeeded[o] = "none" /\ succeeded' = succeeded
      /\ oversold' = oversold
  BY OrdersAssumption
  DEF BooksHypothesis, TypeOK, PaymentMatchesStatus, CreateLinkOrder, SetStatus,
      OrderIds, OrdersAssumption, paymentVars, linkVars
<1>2. \A x \in OrderIds \ {o} :
        /\ status'[x] = status[x] /\ succeeded'[x] = succeeded[x]
        /\ items'[x] = items[x] /\ (x \in oversold' <=> x \in oversold)
  BY DEF BooksHypothesis, TypeOK, CreateLinkOrder, SetStatus, paymentVars, linkVars
<1>3. /\ o \notin Holding /\ o \notin Overreleased /\ o \notin Sold /\ o \notin Phantom
      /\ o \notin Holding' /\ o \notin Overreleased' /\ o \notin Sold' /\ o \notin Phantom'
  BY <1>1 DEF Holding, Overreleased, Sold, Phantom
<1>4. \A s \in Skus : /\ reserved'[s] = reserved[s]
                      /\ stock'[s] = stock[s] /\ received'[s] = received[s]
  BY DEF CreateLinkOrder, inventoryVars
<1>5. \A s \in Skus : /\ items[o][s] \in Nat /\ items'[o][s] \in Nat
                      /\ stock[s] \in Nat /\ reserved[s] \in Nat /\ received[s] \in Nat
  BY <1>1, InventoryAssumption
  DEF BooksHypothesis, TypeOK, InventoryTypeOK, Quantities, InventoryAssumption
<1>6. \A s \in Skus :
        /\ reserved'[s] = reserved[s]
             + Share(Holding', items', o, s) - Share(Holding, items, o, s)
             - Share(Overreleased', items', o, s) + Share(Overreleased, items, o, s)
        /\ stock'[s] = stock[s] + received'[s] - received[s]
             - Share(Sold', items', o, s) + Share(Sold, items, o, s)
             + Share(Phantom', items', o, s) - Share(Phantom, items, o, s)
  BY <1>1, <1>3, <1>4, <1>5 DEF Share
<1>7. QED
  BY <1>1, <1>2, <1>6, BooksBalance DEF BooksHypothesis

\* Fulfil turns a held cart order into a sold one, and a link order into a
\* sold one at the expense of reservations it never made.
LEMMA FulfilBooks ==
  ASSUME BooksHypothesis, TypeOK', NEW o \in OrderIds, Fulfil(o)
  PROVE  ReservationLedger' /\ StockLedger'
<1>1. /\ status[o] = "pending" /\ status'[o] = "paid"
      /\ succeeded[o] = "none" /\ succeeded'[o] = "payment_intent"
      /\ items' = items /\ oversold' = oversold /\ o \notin oversold
  BY DEF BooksHypothesis, TypeOK, PaymentMatchesStatus, Fulfil, Charged, SetStatus, linkVars
<1>2. \A x \in OrderIds \ {o} :
        /\ status'[x] = status[x] /\ succeeded'[x] = succeeded[x]
        /\ items'[x] = items[x] /\ (x \in oversold' <=> x \in oversold)
  BY DEF BooksHypothesis, TypeOK, Fulfil, SetStatus, linkVars
<1>3. /\ o \in Holding <=> o \notin LinkOrders
      /\ o \notin Overreleased /\ o \notin Sold /\ o \notin Phantom
      /\ o \notin Holding' /\ (o \in Overreleased' <=> o \in LinkOrders)
      /\ o \in Sold' /\ o \notin Phantom'
  BY <1>1, OrdersAssumption
  DEF Holding, Overreleased, Sold, Phantom, OrderIds, OrdersAssumption
<1>4. \A s \in Skus : /\ reserved'[s] = reserved[s] - items[o][s]
                      /\ stock'[s] = stock[s] - items[o][s] /\ received'[s] = received[s]
  BY DEF Fulfil, Deduct, Write, Minus
<1>5. \A s \in Skus : /\ items[o][s] \in Nat /\ items'[o][s] \in Nat
                      /\ stock[s] \in Nat /\ reserved[s] \in Nat /\ received[s] \in Nat
  BY <1>1, InventoryAssumption
  DEF BooksHypothesis, TypeOK, InventoryTypeOK, Quantities, InventoryAssumption
<1>6. \A s \in Skus :
        /\ reserved'[s] = reserved[s]
             + Share(Holding', items', o, s) - Share(Holding, items, o, s)
             - Share(Overreleased', items', o, s) + Share(Overreleased, items, o, s)
        /\ stock'[s] = stock[s] + received'[s] - received[s]
             - Share(Sold', items', o, s) + Share(Sold, items, o, s)
             + Share(Phantom', items', o, s) - Share(Phantom, items, o, s)
  BY <1>1, <1>3, <1>4, <1>5 DEF Share
<1>7. QED
  BY <1>1, <1>2, <1>6, BooksBalance DEF BooksHypothesis

\* A direct sale either takes the units off the shelf or is oversold.
LEMMA DirectSaleBooks ==
  ASSUME BooksHypothesis, TypeOK', NEW o \in LinkOrders, NEW k \in Skus,
         NEW n \in 1..MaxQty, DirectSale(o, k, n)
  PROVE  ReservationLedger' /\ StockLedger'
<1>1. /\ o \in OrderIds /\ o \notin CartOrders /\ o \notin oversold
      /\ status[o] = "pending" /\ status'[o] = "paid"
      /\ succeeded[o] = "none" /\ succeeded'[o] = "payment_link"
      /\ items'[o] = [items[o] EXCEPT ![k] = n]
      /\ o \in oversold' <=> ~(Available(k) >= n)
  BY OrdersAssumption
  DEF BooksHypothesis, TypeOK, PaymentMatchesStatus, DirectSale, SetStatus,
      OrderIds, OrdersAssumption
<1>2. \A x \in OrderIds \ {o} :
        /\ status'[x] = status[x] /\ succeeded'[x] = succeeded[x]
        /\ items'[x] = items[x] /\ (x \in oversold' <=> x \in oversold)
  BY DEF BooksHypothesis, TypeOK, DirectSale, SetStatus
<1>3. /\ o \notin Holding /\ o \notin Overreleased /\ o \notin Sold /\ o \notin Phantom
      /\ o \notin Holding' /\ o \notin Overreleased' /\ o \notin Phantom'
      /\ o \in Sold' <=> Available(k) >= n
  BY <1>1 DEF Holding, Overreleased, Sold, Phantom
<1>4. \A s \in Skus :
        /\ reserved'[s] = reserved[s] /\ received'[s] = received[s]
        /\ Available(k) >= n => stock'[s] = stock[s] - items'[o][s]
        /\ ~(Available(k) >= n) => stock'[s] = stock[s]
  <2>1. \A s \in Skus : items'[o][s] = IF s = k THEN n ELSE 0
    <3>1. items[o] \in [Skus -> 0..MaxQty] /\ k \in Lines(items[o])
      BY <1>1 DEF BooksHypothesis, TypeOK, Quantities, DirectSale
    <3>2. \A s \in Skus \ {k} : items[o][s] = 0
      BY <3>1, InventoryAssumption
      DEF BooksHypothesis, LinkOrderHasOneLine, Lines, InventoryAssumption
    <3>3. QED
      BY <1>1, <3>1, <3>2
  <2>2. stock \in [Skus -> Nat]
    BY DEF BooksHypothesis, TypeOK, InventoryTypeOK
  <2>3. QED
    BY <2>1, <2>2 DEF DirectSale, SellDirect, Write, inventoryVars
<1>5. \A s \in Skus : /\ items[o][s] \in Nat /\ items'[o][s] \in Nat
                      /\ stock[s] \in Nat /\ reserved[s] \in Nat /\ received[s] \in Nat
  BY <1>1, InventoryAssumption
  DEF BooksHypothesis, TypeOK, InventoryTypeOK, Quantities, InventoryAssumption
<1>6. \A s \in Skus :
        /\ reserved'[s] = reserved[s]
             + Share(Holding', items', o, s) - Share(Holding, items, o, s)
             - Share(Overreleased', items', o, s) + Share(Overreleased, items, o, s)
        /\ stock'[s] = stock[s] + received'[s] - received[s]
             - Share(Sold', items', o, s) + Share(Sold, items, o, s)
             + Share(Phantom', items', o, s) - Share(Phantom, items, o, s)
  BY <1>1, <1>3, <1>4, <1>5 DEF Share
<1>7. QED
  BY <1>1, <1>2, <1>6, BooksBalance DEF BooksHypothesis

\* A pending order releases its reservation, a paid one comes back to the
\* shelf: phantom if it was oversold.
LEMMA CancelOrderBooks ==
  ASSUME BooksHypothesis, TypeOK', NEW o \in OrderIds, CancelOrder(o)
  PROVE  ReservationLedger' /\ StockLedger'
<1>1. /\ status'[o] = "cancelled" /\ succeeded' = succeeded
      /\ items' = items /\ oversold' = oversold
      /\ \/ status[o] = "pending" /\ ReleasePending(o)
         \/ status[o] \in RestockableFrom /\ RestockPaid(o)
  BY DEF BooksHypothesis, TypeOK, CancelOrder, ReleasePending, RestockPaid,
         SetStatus, paymentVars, linkVars
<1>2. \A x \in OrderIds \ {o} :
        /\ status'[x] = status[x] /\ succeeded'[x] = succeeded[x]
        /\ items'[x] = items[x] /\ (x \in oversold' <=> x \in oversold)
  BY <1>1 DEF BooksHypothesis, TypeOK, ReleasePending, RestockPaid, SetStatus
<1>5. \A s \in Skus : /\ items[o][s] \in Nat /\ items'[o][s] \in Nat
                      /\ stock[s] \in Nat /\ reserved[s] \in Nat /\ received[s] \in Nat
  BY <1>1, InventoryAssumption
  DEF BooksHypothesis, TypeOK, InventoryTypeOK, Quantities, InventoryAssumption
<1>6. CASE status[o] = "pending" /\ ReleasePending(o)
  <2>1. succeeded[o] = "none" /\ o \notin oversold
    BY <1>6 DEF BooksHypothesis, PaymentMatchesStatus
  <2>2. /\ o \in Holding <=> o \notin LinkOrders
        /\ o \notin Overreleased /\ o \notin Sold /\ o \notin Phantom
        /\ o \notin Holding' /\ (o \in Overreleased' <=> o \in LinkOrders)
        /\ o \notin Sold' /\ o \notin Phantom'
    BY <1>1, <1>6, <2>1, OrdersAssumption
    DEF Holding, Overreleased, Sold, Phantom, OrderIds, OrdersAssumption
  <2>3. \A s \in Skus : /\ reserved'[s] = reserved[s] - items[o][s]
                        /\ stock'[s] = stock[s] /\ received'[s] = received[s]
    BY <1>6 DEF ReleasePending, Release, Write, Minus
  <2>4. \A s \in Skus :
        /\ reserved'[s] = reserved[s]
             + Share(Holding', items', o, s) - Share(Holding, items, o, s)
             - Share(Overreleased', items', o, s) + Share(Overreleased, items, o, s)
        /\ stock'[s] = stock[s] + received'[s] - received[s]
             - Share(Sold', items', o, s) + Share(Sold, items, o, s)
             + Share(Phantom', items', o, s) - Share(Phantom, items, o, s)
    BY <1>1, <1>5, <2>2, <2>3 DEF Share
  <2>5. QED
    BY <1>2, <2>4, BooksBalance DEF BooksHypothesis
<1>7. CASE status[o] \in RestockableFrom /\ RestockPaid(o)
  <2>1. status[o] \in {"paid", "processing"} /\ succeeded[o] # "none"
    BY <1>7 DEF BooksHypothesis, PaymentMatchesStatus, RestockableFrom
  <2>2. /\ o \notin Holding /\ o \notin Phantom
        /\ o \in Sold <=> o \notin oversold
        /\ o \notin Holding' /\ o \notin Sold'
        /\ o \in Phantom' <=> o \in oversold
        /\ o \in Overreleased' <=> o \in Overreleased
    BY <1>1, <2>1 DEF Holding, Overreleased, Sold, Phantom
  <2>3. \A s \in Skus : /\ reserved'[s] = reserved[s]
                        /\ stock'[s] = stock[s] + items[o][s] /\ received'[s] = received[s]
    BY <1>7 DEF RestockPaid, Restock, Write, Plus
  <2>4. \A s \in Skus :
        /\ reserved'[s] = reserved[s]
             + Share(Holding', items', o, s) - Share(Holding, items, o, s)
             - Share(Overreleased', items', o, s) + Share(Overreleased, items, o, s)
        /\ stock'[s] = stock[s] + received'[s] - received[s]
             - Share(Sold', items', o, s) + Share(Sold, items, o, s)
             + Share(Phantom', items', o, s) - Share(Phantom, items, o, s)
    BY <1>1, <1>5, <2>2, <2>3 DEF Share
  <2>5. QED
    BY <1>2, <2>4, BooksBalance DEF BooksHypothesis
<1>8. QED
  BY <1>1, <1>6, <1>7

\* The manager and the delivery person move an order inside its group.
LEMMA TransitionBooks ==
  ASSUME BooksHypothesis, TypeOK', NEW o \in OrderIds,
         ProcessOrder(o) \/ ShipOrder(o) \/ DeliverOrder(o)
  PROVE  ReservationLedger' /\ StockLedger'
<1>1. /\ status[o] \in {"paid", "processing", "shipped"}
      /\ status'[o] \in {"processing", "shipped", "delivered"}
      /\ succeeded' = succeeded /\ items' = items /\ oversold' = oversold
  BY DEF BooksHypothesis, TypeOK, ProcessOrder, ShipOrder, DeliverOrder, Transition,
         SetStatus, paymentVars, linkVars
<1>2. \A x \in OrderIds \ {o} :
        /\ status'[x] = status[x] /\ succeeded'[x] = succeeded[x]
        /\ items'[x] = items[x] /\ (x \in oversold' <=> x \in oversold)
  BY <1>1 DEF BooksHypothesis, TypeOK, ProcessOrder, ShipOrder, DeliverOrder,
              Transition, SetStatus
<1>3. /\ o \notin Holding /\ o \notin Phantom /\ o \notin Holding' /\ o \notin Phantom'
      /\ o \in Sold <=> o \in Sold'
      /\ o \in Overreleased <=> o \in Overreleased'
  BY <1>1 DEF BooksHypothesis, PaymentMatchesStatus, Holding, Overreleased, Sold, Phantom
<1>4. \A s \in Skus : /\ reserved'[s] = reserved[s]
                      /\ stock'[s] = stock[s] /\ received'[s] = received[s]
  BY DEF ProcessOrder, ShipOrder, DeliverOrder, Transition, inventoryVars
<1>5. \A s \in Skus : /\ items[o][s] \in Nat /\ items'[o][s] \in Nat
                      /\ stock[s] \in Nat /\ reserved[s] \in Nat /\ received[s] \in Nat
  BY <1>1, InventoryAssumption
  DEF BooksHypothesis, TypeOK, InventoryTypeOK, Quantities, InventoryAssumption
<1>6. \A s \in Skus :
        /\ reserved'[s] = reserved[s]
             + Share(Holding', items', o, s) - Share(Holding, items, o, s)
             - Share(Overreleased', items', o, s) + Share(Overreleased, items, o, s)
        /\ stock'[s] = stock[s] + received'[s] - received[s]
             - Share(Sold', items', o, s) + Share(Sold, items, o, s)
             + Share(Phantom', items', o, s) - Share(Phantom, items, o, s)
  BY <1>1, <1>3, <1>4, <1>5 DEF Share
<1>7. QED
  BY <1>1, <1>2, <1>6, BooksBalance DEF BooksHypothesis

LEMMA BooksInit == Init => BooksHypothesis
<1> SUFFICES ASSUME Init PROVE BooksHypothesis
  OBVIOUS
<1>1. TypeOK
  BY TypeInit
<1>2. PaymentMatchesStatus /\ LinkOrderHasOneLine
  BY DEF Init, PaymentMatchesStatus, LinkOrderHasOneLine, NoLines, Lines, OrderIds
<1>3. /\ Holding = {} /\ Overreleased = {} /\ Sold = {} /\ Phantom = {}
  BY DEF Init, Holding, Overreleased, Sold, Phantom, OrderIds
<1>4. \A s \in Skus : InUnits({}, items, s) = 0
  BY FS_EmptySet DEF InUnits, Units
<1>5. \A s \in Skus : reserved[s] = 0 /\ stock[s] = received[s] /\ stock[s] \in Nat
  BY <1>1 DEF Init, InventoryInit, TypeOK, InventoryTypeOK
<1>6. ReservationLedger /\ StockLedger
  BY <1>3, <1>4, <1>5 DEF ReservationLedger, StockLedger
<1>7. QED
  BY <1>1, <1>2, <1>6 DEF BooksHypothesis

LEMMA BooksStep ==
  ASSUME BooksHypothesis, [Next]_vars
  PROVE  BooksHypothesis'
<1>1. TypeOK' /\ PaymentMatchesStatus' /\ LinkOrderHasOneLine'
  BY TypeStep, PaymentStep, OneLineStep DEF BooksHypothesis
<1>2. ASSUME UNCHANGED <<status, items, succeeded, oversold, inventoryVars>>
      PROVE  ReservationLedger' /\ StockLedger'
  <2>1. \A s \in Skus : stock'[s] - stock[s] = received'[s] - received[s]
    BY <1>2 DEF BooksHypothesis, TypeOK, InventoryTypeOK, inventoryVars
  <2>2. QED
    BY <1>1, <1>2, <2>1, BooksStill DEF BooksHypothesis, inventoryVars
<1>3. ASSUME NEW o \in CartOrders, NEW q \in Quantities, NEW p \in Promos \cup {NoPromo},
             CreateOrder(o, q, p)
      PROVE  ReservationLedger' /\ StockLedger'
  BY <1>1, <1>3, CreateOrderBooks
<1>4. ASSUME NEW o \in OrderIds, OrderStep(o)
      PROVE  ReservationLedger' /\ StockLedger'
  <2>1. CASE AskPaymentIntent(o) \/ InsertPayment(o) \/ FulfilFails(o)
    BY <1>2, <2>1 DEF AskPaymentIntent, InsertPayment, FulfilFails, orderVars, linkVars
  <2>2. CASE Fulfil(o)
    BY <1>1, <2>2, FulfilBooks
  <2>3. CASE CancelOrder(o)
    BY <1>1, <2>3, CancelOrderBooks
  <2>4. CASE ProcessOrder(o) \/ ShipOrder(o) \/ DeliverOrder(o)
    BY <1>1, <2>4, TransitionBooks
  <2>5. QED
    BY <1>4, <2>1, <2>2, <2>3, <2>4 DEF OrderStep
<1>5. ASSUME NEW o \in LinkOrders, LinkStep(o)
      PROVE  ReservationLedger' /\ StockLedger'
  <2>1. CASE GetPaymentLink(o)
    BY <1>2, <2>1 DEF GetPaymentLink, orderVars, paymentVars
  <2>2. ASSUME NEW s \in Skus, NEW n \in 1..MaxQty, DirectSaleFails(o, s, n)
        PROVE  ReservationLedger' /\ StockLedger'
    BY <1>2, <2>2 DEF DirectSaleFails, orderVars, linkVars
  <2>3. ASSUME NEW s \in Skus, NEW n \in 1..MaxQty,
               CreateLinkOrder(o, s, n) \/ DirectSale(o, s, n)
        PROVE  ReservationLedger' /\ StockLedger'
    BY <1>1, <2>3, CreateLinkOrderBooks, DirectSaleBooks
  <2>4. QED
    BY <1>5, <2>1, <2>2, <2>3 DEF LinkStep
<1>6. ASSUME ManagerStep
      PROVE  ReservationLedger' /\ StockLedger'
  <2>1. ASSUME NEW s \in Skus, NEW n \in 1..MaxQty, RestockSku(s, n)
        PROVE  ReservationLedger' /\ StockLedger'
    <3>1. \A t \in Skus : stock'[t] - stock[t] = received'[t] - received[t]
      BY <2>1, InventoryAssumption
      DEF BooksHypothesis, TypeOK, InventoryTypeOK, RestockSku, ReceiveUnits,
          InventoryAssumption
    <3>2. QED
      BY <1>1, <2>1, <3>1, BooksStill
      DEF BooksHypothesis, RestockSku, ReceiveUnits, orderVars, paymentVars, linkVars
  <2>2. ASSUME NEW p \in Promos, NEW limit \in UsageLimits, NEW live \in BOOLEAN,
               ChangePromo(p, limit, live)
        PROVE  ReservationLedger' /\ StockLedger'
    BY <1>2, <2>2 DEF ChangePromo, orderVars, paymentVars, linkVars
  <2>3. QED
    BY <1>6, <2>1, <2>2 DEF ManagerStep
<1>7. ASSUME UNCHANGED vars
      PROVE  ReservationLedger' /\ StockLedger'
  BY <1>2, <1>7 DEF vars, orderVars, paymentVars, linkVars
<1>8. ReservationLedger' /\ StockLedger'
  BY <1>3, <1>4, <1>5, <1>6, <1>7 DEF Next
<1>9. QED
  BY <1>1, <1>8 DEF BooksHypothesis

LEMMA BooksCorrect == Spec => []BooksHypothesis
BY BooksInit, BooksStep, PTL DEF Spec

\* reserved_stock is, in every reachable state, the units of the pending cart
\* orders less what link orders took out of it without reserving.
THEOREM ReservationsBalance == Spec => []ReservationLedger
<1>1. BooksHypothesis => ReservationLedger
  BY DEF BooksHypothesis
<1>2. QED
  BY <1>1, BooksCorrect, PTL

\* stock is, in every reachable state, what was received less what is sold,
\* plus what oversold and cancelled direct sales were "given back".
THEOREM StockBalances == Spec => []StockLedger
<1>1. BooksHypothesis => StockLedger
  BY DEF BooksHypothesis
<1>2. QED
  BY <1>1, BooksCorrect, PTL

\* Without link orders the ledgers say what one expects of the counters.
LEMMA CartBooks ==
  ASSUME LinkOrders = {}, BooksHypothesis, NEW s \in Skus
  PROVE  /\ reserved[s] = InUnits(Holding, items, s)
         /\ stock[s] + InUnits(Sold, items, s) = received[s]
         /\ reserved[s] <= stock[s]
         /\ InUnits(Sold, items, s) \in Nat /\ InUnits(Holding, items, s) \in Nat
         /\ stock[s] \in Nat /\ reserved[s] \in Nat /\ received[s] \in Nat
<1>1. Overreleased = {} /\ Phantom = {}
  BY DEF BooksHypothesis, TypeOK, Overreleased, Phantom
<1>2. InUnits({}, items, s) = 0
  BY FS_EmptySet DEF InUnits, Units
<1>3. /\ reserved[s] + InUnits(Overreleased, items, s) = InUnits(Holding, items, s)
      /\ stock[s] + InUnits(Sold, items, s) = received[s] + InUnits(Phantom, items, s)
  BY DEF BooksHypothesis, ReservationLedger, StockLedger
<1>4. /\ InUnits(Sold, items, s) \in Nat /\ InUnits(Holding, items, s) \in Nat
      /\ stock[s] \in Nat /\ reserved[s] \in Nat /\ received[s] \in Nat
      /\ reserved[s] <= stock[s]
  BY BooksType DEF BooksHypothesis, TypeOK, InventoryTypeOK, StockCheck
<1>5. QED
  BY <1>1, <1>2, <1>3, <1>4

\* If every order comes from the cart, no unit is promised twice, a
\* cancellation puts back exactly what was sold, and no statement of a
\* handler meets the CHECK of the skus table.
THEOREM CartOrdersNeverOversell ==
  ASSUME LinkOrders = {}
  PROVE  Spec => [](NoOverselling /\ RestockReturnsSoldUnits /\ EveryUpdateIsChecked)
<1>1. BooksHypothesis => NoOverselling /\ RestockReturnsSoldUnits
  <2> SUFFICES ASSUME BooksHypothesis, NEW s \in Skus
               PROVE  /\ InUnits(Sold, items, s) + InUnits(Holding, items, s) <= received[s]
                      /\ stock[s] + InUnits(Sold, items, s) = received[s]
    BY DEF NoOverselling, RestockReturnsSoldUnits
  <2>1. /\ reserved[s] = InUnits(Holding, items, s) /\ reserved[s] <= stock[s]
        /\ stock[s] + InUnits(Sold, items, s) = received[s]
        /\ InUnits(Sold, items, s) \in Nat /\ InUnits(Holding, items, s) \in Nat
        /\ stock[s] \in Nat /\ reserved[s] \in Nat /\ received[s] \in Nat
    BY CartBooks
  <2>2. QED
    BY <2>1
<1>2. BooksHypothesis => EveryUpdateIsChecked
  <2> SUFFICES ASSUME BooksHypothesis, NEW o \in OrderIds, status[o] = "pending"
               PROVE  CanRelease(items[o]) /\ CanDeduct(items[o])
    BY DEF EveryUpdateIsChecked, Charged
  <2>1. ASSUME NEW s \in Skus
        PROVE  /\ items[o][s] <= reserved[s] /\ reserved[s] <= stock[s]
               /\ items[o][s] \in Nat /\ reserved[s] \in Nat /\ stock[s] \in Nat
    <3>1. Overreleased = {} /\ InUnits({}, items, s) = 0
      BY FS_EmptySet DEF BooksHypothesis, TypeOK, Overreleased, InUnits, Units
    <3>2. o \in Holding /\ Holding \subseteq OrderIds /\ IsFiniteSet(Holding)
      BY OrdersAssumption, FS_Subset DEF Holding, OrderIds, OrdersAssumption
    <3>3. /\ MaxQty \in Nat /\ \A x \in Holding : items[x][s] \in 0..MaxQty
          /\ items[o][s] \in Nat
      BY <3>2, InventoryAssumption
      DEF BooksHypothesis, TypeOK, Quantities, InventoryAssumption
    <3>4. InUnits(Holding, items, s) = InUnits(Holding \ {o}, items, s) + items[o][s]
      <4>1. IsFiniteSet(Holding \ {o})
        BY <3>2, FS_RemoveElement
      <4>2. (Holding \ {o}) \cup {o} = Holding
        BY <3>2
      <4>3. InUnits((Holding \ {o}) \cup {o}, items, s)
              = InUnits(Holding \ {o}, items, s) + items[o][s]
        BY <3>3, <4>1, <4>2, UnitsAdd
      <4>4. QED
        BY <4>2, <4>3
    <3>5. InUnits(Holding \ {o}, items, s) \in Nat
      BY <3>2, <3>3, FS_RemoveElement, UnitsFinite
    <3>6. /\ reserved[s] + InUnits(Overreleased, items, s) = InUnits(Holding, items, s)
          /\ stock[s] \in Nat /\ reserved[s] \in Nat /\ reserved[s] <= stock[s]
      BY DEF BooksHypothesis, ReservationLedger, TypeOK, InventoryTypeOK, StockCheck
    <3>7. QED
      BY <3>1, <3>3, <3>4, <3>5, <3>6
  <2>2. QED
    BY <2>1 DEF CanRelease, CanDeduct, StockCheck, Minus
<1>3. QED
  BY <1>1, <1>2, BooksCorrect, PTL

(***************************************************************************)
(* The redemptions of a promo code.                                        *)
(***************************************************************************)

LEMMA RedemptionsFinite ==
  ASSUME NEW p \in Promos
  PROVE  /\ IsFiniteSet(Redemptions(p)) /\ Cardinality(Redemptions(p)) \in Nat
<1>1. IsFiniteSet(OrderIds)
  BY OrdersAssumption, FS_Union DEF OrdersAssumption, OrderIds
<1>2. Redemptions(p) \subseteq OrderIds
  BY DEF Redemptions
<1>3. QED
  BY <1>1, <1>2, FS_Subset, FS_CardinalityType

\* A step that leaves the counters and the orders that use each code.
LEMMA RedemptionsStill ==
  ASSUME PromoLedger, UNCHANGED timesRedeemed,
         \A p \in Promos : Redemptions(p)' = Redemptions(p)
  PROVE  PromoLedger'
BY DEF PromoLedger

LEMMA RedeemStep ==
  ASSUME TypeOK, PromoLedger, NEW o \in CartOrders, NEW q \in Quantities,
         NEW p \in Promos \cup {NoPromo}, CreateOrder(o, q, p)
  PROVE  PromoLedger'
<1> SUFFICES ASSUME NEW r \in Promos
             PROVE  timesRedeemed'[r] = Cardinality(Redemptions(r)')
  BY DEF PromoLedger
<1>1. o \in OrderIds /\ o \notin Redemptions(r)
  BY DEF OrderIds, Redemptions, CreateOrder
<1>2. timesRedeemed[r] = Cardinality(Redemptions(r)) /\ timesRedeemed[r] \in Int
  BY DEF PromoLedger, TypeOK, PromotionsTypeOK
<1>3. timesRedeemed'[r] = timesRedeemed[r] + IF r = p THEN 1 ELSE 0
  BY DEF CreateOrder, Redeem, Count
<1>4. /\ status' = [status EXCEPT ![o] = "pending"]
      /\ promoCodeId' = [promoCodeId EXCEPT ![o] = p]
      /\ status \in [OrderIds -> Statuses \cup {"absent"}]
      /\ promoCodeId \in [OrderIds -> Promos \cup {NoPromo}]
  BY DEF TypeOK, CreateOrder, SetStatus
<1>5. Redemptions(r)' = IF r = p THEN Redemptions(r) \cup {o} ELSE Redemptions(r)
  BY <1>1, <1>4 DEF Redemptions
<1>6. Cardinality(Redemptions(r) \cup {o}) = Cardinality(Redemptions(r)) + 1
  BY <1>1, RedemptionsFinite, FS_AddElement
<1>7. QED
  BY <1>2, <1>3, <1>5, <1>6

LEMMA ReleaseStep ==
  ASSUME TypeOK, PromoLedger, NEW o \in OrderIds, CancelOrder(o)
  PROVE  PromoLedger'
<1> SUFFICES ASSUME NEW r \in Promos
             PROVE  timesRedeemed'[r] = Cardinality(Redemptions(r)')
  BY DEF PromoLedger
<1>1. timesRedeemed[r] = Cardinality(Redemptions(r)) /\ timesRedeemed[r] \in Int
  BY DEF PromoLedger, TypeOK, PromotionsTypeOK
<1>2. timesRedeemed'[r] = timesRedeemed[r] + IF r = promoCodeId[o] THEN -1 ELSE 0
  BY DEF CancelOrder, ReleasePending, RestockPaid, ReleaseRedemption, Count
<1>3. /\ status' = [status EXCEPT ![o] = "cancelled"] /\ promoCodeId' = promoCodeId
      /\ status \in [OrderIds -> Statuses \cup {"absent"}]
      /\ status[o] \notin {"absent", "cancelled"}
  BY DEF TypeOK, CancelOrder, ReleasePending, RestockPaid, SetStatus, RestockableFrom
<1>4. Redemptions(r)' = Redemptions(r) \ {o}
  BY <1>3 DEF Redemptions
<1>5. o \in Redemptions(r) <=> promoCodeId[o] = r
  BY <1>3 DEF Redemptions
<1>6. /\ Cardinality(Redemptions(r)) \in Nat
      /\ Cardinality(Redemptions(r) \ {o}) =
           IF o \in Redemptions(r) THEN Cardinality(Redemptions(r)) - 1
                                   ELSE Cardinality(Redemptions(r))
  BY RedemptionsFinite, FS_RemoveElement
<1>7. QED
  BY <1>1, <1>2, <1>4, <1>5, <1>6

\* A step that moves an order without taking it into or out of the orders
\* that count.
LEMMA MoveKeepsRedemptions ==
  ASSUME TypeOK, PromoLedger, NEW o \in OrderIds,
         UNCHANGED <<timesRedeemed, promoCodeId>>,
         \A x \in OrderIds \ {o} : status'[x] = status[x],
         status[o] \notin {"absent", "cancelled"},
         status'[o] \notin {"absent", "cancelled"}
  PROVE  PromoLedger'
<1>1. \A p \in Promos : Redemptions(p)' = Redemptions(p)
  BY DEF Redemptions
<1>2. QED
  BY <1>1, RedemptionsStill

LEMMA PromoStep ==
  ASSUME TypeOK, PromoLedger, [Next]_vars
  PROVE  PromoLedger'
<1>1. ASSUME UNCHANGED <<status, promoCodeId, timesRedeemed>>
      PROVE  PromoLedger'
  BY <1>1, RedemptionsStill DEF Redemptions
<1>2. ASSUME NEW o \in CartOrders, NEW q \in Quantities, NEW p \in Promos \cup {NoPromo},
             CreateOrder(o, q, p)
      PROVE  PromoLedger'
  BY <1>2, RedeemStep
<1>3. ASSUME NEW o \in OrderIds, OrderStep(o)
      PROVE  PromoLedger'
  <2>1. CASE AskPaymentIntent(o) \/ InsertPayment(o) \/ FulfilFails(o)
    BY <1>1, <2>1 DEF AskPaymentIntent, InsertPayment, FulfilFails, orderVars, promoVars
  <2>2. CASE Fulfil(o) \/ ProcessOrder(o) \/ ShipOrder(o) \/ DeliverOrder(o)
    <3>1. /\ \A x \in OrderIds \ {o} : status'[x] = status[x]
          /\ status[o] \notin {"absent", "cancelled"}
          /\ status'[o] \notin {"absent", "cancelled"}
          /\ UNCHANGED <<timesRedeemed, promoCodeId>>
      BY <2>2 DEF TypeOK, Fulfil, Charged, ProcessOrder, ShipOrder, DeliverOrder,
                  Transition, SetStatus, promoVars
    <3>2. QED
      BY <3>1, MoveKeepsRedemptions
  <2>3. CASE CancelOrder(o)
    BY <2>3, ReleaseStep
  <2>4. QED
    BY <1>3, <2>1, <2>2, <2>3 DEF OrderStep
<1>4. ASSUME NEW o \in LinkOrders, LinkStep(o)
      PROVE  PromoLedger'
  <2>1. o \in OrderIds
    BY DEF OrderIds
  <2>2. CASE GetPaymentLink(o)
    BY <1>1, <2>2 DEF GetPaymentLink, orderVars, promoVars
  <2>3. ASSUME NEW s \in Skus, NEW n \in 1..MaxQty, CreateLinkOrder(o, s, n)
        PROVE  PromoLedger'
    <3>1. /\ status' = [status EXCEPT ![o] = "pending"]
          /\ promoCodeId' = [promoCodeId EXCEPT ![o] = NoPromo]
          /\ status[o] = "absent" /\ timesRedeemed' = timesRedeemed
      BY <2>3 DEF CreateLinkOrder, SetStatus, promoVars
    <3>2. \A p \in Promos : Redemptions(p)' = Redemptions(p)
      BY <2>1, <3>1, PromotionsAssumption DEF TypeOK, Redemptions, PromotionsAssumption
    <3>3. QED
      BY <3>1, <3>2, RedemptionsStill
  <2>4. ASSUME NEW s \in Skus, NEW n \in 1..MaxQty, DirectSale(o, s, n)
        PROVE  PromoLedger'
    <3>1. /\ \A x \in OrderIds \ {o} : status'[x] = status[x]
          /\ status[o] = "pending" /\ status'[o] = "paid"
          /\ UNCHANGED <<timesRedeemed, promoCodeId>>
      BY <2>1, <2>4 DEF TypeOK, DirectSale, SetStatus, promoVars
    <3>2. QED
      BY <2>1, <3>1, MoveKeepsRedemptions
  <2>5. ASSUME NEW s \in Skus, NEW n \in 1..MaxQty, DirectSaleFails(o, s, n)
        PROVE  PromoLedger'
    BY <1>1, <2>5 DEF DirectSaleFails, orderVars, promoVars
  <2>6. QED
    BY <1>4, <2>2, <2>3, <2>4, <2>5 DEF LinkStep
<1>5. ASSUME ManagerStep \/ UNCHANGED vars
      PROVE  PromoLedger'
  BY <1>1, <1>5 DEF ManagerStep, RestockSku, ChangePromo, UpdatePromo, vars, orderVars, promoVars
<1>6. QED
  BY <1>2, <1>3, <1>4, <1>5 DEF Next

LEMMA PromoInit == Init => PromoLedger
<1> SUFFICES ASSUME Init, NEW p \in Promos
             PROVE  timesRedeemed[p] = Cardinality(Redemptions(p))
  BY DEF PromoLedger
<1>1. Redemptions(p) = {} /\ timesRedeemed[p] = 0
  BY DEF Init, PromotionsInit, Redemptions
<1>2. QED
  BY <1>1, FS_EmptySet

\* times_redeemed is, in every reachable state, the number of orders that use
\* the code and are not cancelled.
THEOREM RedemptionsCounted == Spec => []PromoLedger
<1>1. TypeOK /\ PromoLedger /\ [Next]_vars => PromoLedger'
  BY PromoStep
<1>2. QED
  BY <1>1, PromoInit, TypeCorrect, PTL DEF Spec

(***************************************************************************)
(* The lifecycle.                                                          *)
(***************************************************************************)

LEMMA LifecycleStep ==
  ASSUME [Next]_vars
  PROVE  [Lifecycle!Next]_status
<1>1. ASSUME NEW o \in OrderIds, NEW e \in Lifecycle!Edges,
             status[o] = e[1], SetStatus(o, e[2])
      PROVE  Lifecycle!Next
  BY <1>1 DEF Lifecycle!Next, Lifecycle!Move, SetStatus
<1>2. ASSUME NEW o \in CartOrders, NEW q \in Quantities, NEW p \in Promos \cup {NoPromo},
             CreateOrder(o, q, p)
      PROVE  Lifecycle!Next
  <2>1. o \in OrderIds /\ <<"absent", "pending">> \in Lifecycle!Edges
    BY DEF OrderIds, Lifecycle!Edges
  <2>2. status[o] = "absent" /\ SetStatus(o, "pending")
    BY <1>2 DEF CreateOrder
  <2>3. QED
    BY <1>1, <2>1, <2>2
<1>3. ASSUME NEW o \in OrderIds, OrderStep(o)
      PROVE  [Lifecycle!Next]_status
  <2>1. CASE AskPaymentIntent(o) \/ InsertPayment(o) \/ FulfilFails(o)
    BY <2>1 DEF AskPaymentIntent, InsertPayment, FulfilFails, orderVars
  <2>2. CASE Fulfil(o)
    <3>1. <<"pending", "paid">> \in Lifecycle!Edges
      BY DEF Lifecycle!Edges
    <3>2. QED
      BY <1>1, <2>2, <3>1 DEF Fulfil, Charged
  <2>3. CASE CancelOrder(o)
    <3>1. <<status[o], "cancelled">> \in Lifecycle!Edges /\ SetStatus(o, "cancelled")
      BY <2>3 DEF CancelOrder, ReleasePending, RestockPaid, RestockableFrom,
                  Lifecycle!Edges, Lifecycle!Cancellable
    <3>2. QED
      BY <1>1, <3>1
  <2>4. CASE ProcessOrder(o) \/ ShipOrder(o) \/ DeliverOrder(o)
    <3>1. /\ <<"paid", "processing">> \in Lifecycle!Edges
          /\ <<"processing", "shipped">> \in Lifecycle!Edges
          /\ <<"shipped", "delivered">> \in Lifecycle!Edges
      BY DEF Lifecycle!Edges
    <3>2. QED
      BY <1>1, <2>4, <3>1 DEF ProcessOrder, ShipOrder, DeliverOrder, Transition
  <2>5. QED
    BY <1>3, <2>1, <2>2, <2>3, <2>4 DEF OrderStep
<1>4. ASSUME NEW o \in LinkOrders, LinkStep(o)
      PROVE  [Lifecycle!Next]_status
  <2>1. /\ o \in OrderIds
        /\ <<"absent", "pending">> \in Lifecycle!Edges
        /\ <<"pending", "paid">> \in Lifecycle!Edges
    BY DEF OrderIds, Lifecycle!Edges
  <2>2. CASE GetPaymentLink(o)
    BY <2>2 DEF GetPaymentLink, orderVars
  <2>3. ASSUME NEW s \in Skus, NEW n \in 1..MaxQty,
               CreateLinkOrder(o, s, n) \/ DirectSale(o, s, n)
        PROVE  Lifecycle!Next
    BY <1>1, <2>1, <2>3 DEF CreateLinkOrder, DirectSale
  <2>4. ASSUME NEW s \in Skus, NEW n \in 1..MaxQty, DirectSaleFails(o, s, n)
        PROVE  UNCHANGED status
    BY <2>4 DEF DirectSaleFails, orderVars
  <2>5. QED
    BY <1>4, <2>2, <2>3, <2>4 DEF LinkStep
<1>5. ASSUME ManagerStep \/ UNCHANGED vars
      PROVE  UNCHANGED status
  BY <1>5 DEF ManagerStep, RestockSku, ChangePromo, vars, orderVars
<1>6. QED
  BY <1>2, <1>3, <1>4, <1>5 DEF Next

\* Every order, however its handlers interleave, moves along the lifecycle
\* of OrderLifecycle.
THEOREM StoreKeepsLifecycle == Spec => KeepsLifecycle
<1>1. Init => Lifecycle!Init
  BY DEF Init, Lifecycle!Init
<1>2. QED
  BY <1>1, LifecycleStep, PTL DEF Spec, KeepsLifecycle, Lifecycle!Spec

(***************************************************************************)
(* The store without counters.                                             *)
(***************************************************************************)

\* IdealStore counts as Orders does.
LEMMA IdealCounts == \A S : Ideal!Cardinality(S) = Cardinality(S)
BY Zenon DEF Ideal!Cardinality, Cardinality

\* An order fits in what is available exactly when it fits in what was
\* received next to the orders pending and sold.
LEMMA PlacedFits ==
  ASSUME LinkOrders = {}, BooksHypothesis, NEW q \in Quantities, CanReserve(q),
         NEW s \in Skus
  PROVE  Ideal!InUnits(Ideal!Committed, items, s) + q[s] <= received[s]
<1>1. /\ reserved[s] = InUnits(Holding, items, s) /\ reserved[s] <= stock[s]
      /\ stock[s] + InUnits(Sold, items, s) = received[s]
      /\ InUnits(Sold, items, s) \in Nat /\ InUnits(Holding, items, s) \in Nat
      /\ stock[s] \in Nat /\ reserved[s] \in Nat /\ received[s] \in Nat
  BY CartBooks
<1>2. Ideal!Committed = Sold \cup Holding /\ Sold \cap Holding = {}
  BY DEF Ideal!Committed, Sold, Holding, BooksHypothesis, TypeOK, OrderIds
<1>3. IsFiniteSet(Sold) /\ IsFiniteSet(Holding)
  <2>1. IsFiniteSet(OrderIds)
    BY OrdersAssumption, FS_Union DEF OrdersAssumption, OrderIds
  <2>2. Sold \subseteq OrderIds /\ Holding \subseteq OrderIds
    BY DEF Sold, Holding, OrderIds
  <2>3. QED
    BY <2>1, <2>2, FS_Subset
<1>4. MaxQty \in Nat /\ \A o \in Sold \cup Holding : items[o][s] \in 0..MaxQty
  BY InventoryAssumption
  DEF Sold, Holding, OrderIds, BooksHypothesis, TypeOK, Quantities, InventoryAssumption
<1>5. InUnits(Sold \cup Holding, items, s)
        = InUnits(Sold, items, s) + InUnits(Holding, items, s)
  BY <1>2, <1>3, <1>4, UnitsUnion
<1>6. Ideal!InUnits(Ideal!Committed, items, s) = InUnits(Sold \cup Holding, items, s)
  BY <1>2, IdealCounts DEF Ideal!InUnits, Ideal!Units, InUnits, Units
<1>7. q[s] \in Nat /\ q[s] <= stock[s] - reserved[s]
  <2>1. q[s] \in Nat
    BY InventoryAssumption DEF Quantities, InventoryAssumption
  <2>2. q[s] > 0 => stock[s] - reserved[s] >= q[s]
    BY DEF CanReserve, Lines, Available
  <2>3. QED
    BY <1>1, <2>1, <2>2
<1>8. QED
  BY <1>1, <1>5, <1>6, <1>7

LEMMA IdealStep ==
  ASSUME LinkOrders = {}, BooksHypothesis, [Next]_vars
  PROVE  [Ideal!Next]_<<status, items, received>>
<1>1. ASSUME NEW o \in CartOrders, NEW q \in Quantities, NEW p \in Promos \cup {NoPromo},
             CreateOrder(o, q, p)
      PROVE  Ideal!Next
  <2>1. o \in OrderIds /\ q \in [Skus -> 0..MaxQty]
    BY DEF OrderIds, Quantities
  <2>2. /\ status[o] = "absent" /\ status' = [status EXCEPT ![o] = "pending"]
        /\ items' = [items EXCEPT ![o] = q] /\ received' = received /\ CanReserve(q)
    BY <1>1 DEF CreateOrder, Reserve, Write, SetStatus
  <2>3. \A s \in Skus : Ideal!InUnits(Ideal!Committed, items, s) + q[s] <= received[s]
    BY <2>2, PlacedFits
  <2>4. Ideal!Place(o, q)
    BY <2>2, <2>3 DEF Ideal!Place, Ideal!L!Move
  <2>5. QED
    BY <2>1, <2>4 DEF Ideal!Next
<1>2. ASSUME NEW o \in OrderIds, NEW e \in Ideal!L!Edges, e[1] # "absent",
             status[o] = e[1], SetStatus(o, e[2]), UNCHANGED <<items, received>>
      PROVE  Ideal!Next
  <2>1. Ideal!L!Move(o, e[1], e[2])
    BY <1>2 DEF Ideal!L!Move, SetStatus
  <2>2. Ideal!Advance(o)
    BY <1>2, <2>1 DEF Ideal!Advance
  <2>3. QED
    BY <2>2 DEF Ideal!Next
<1>3. ASSUME NEW o \in OrderIds, OrderStep(o)
      PROVE  [Ideal!Next]_<<status, items, received>>
  <2>1. CASE AskPaymentIntent(o) \/ InsertPayment(o) \/ FulfilFails(o)
    BY <2>1 DEF AskPaymentIntent, InsertPayment, FulfilFails, orderVars, inventoryVars
  <2>2. CASE Fulfil(o)
    <3>1. <<"pending", "paid">> \in Ideal!L!Edges
      BY DEF Ideal!L!Edges
    <3>2. /\ status[o] = "pending" /\ SetStatus(o, "paid")
          /\ UNCHANGED <<items, received>>
      BY <2>2 DEF Fulfil, Charged, Deduct, Write
    <3>3. QED
      BY <1>2, <3>1, <3>2
  <2>3. CASE CancelOrder(o)
    <3>1. /\ status[o] # "absent" /\ <<status[o], "cancelled">> \in Ideal!L!Edges
          /\ SetStatus(o, "cancelled") /\ UNCHANGED <<items, received>>
      BY <2>3 DEF CancelOrder, ReleasePending, RestockPaid, Release, Restock, Write,
                  RestockableFrom, Ideal!L!Edges, Ideal!L!Cancellable
    <3>2. QED
      BY <1>2, <3>1
  <2>4. CASE ProcessOrder(o) \/ ShipOrder(o) \/ DeliverOrder(o)
    <3>1. /\ <<"paid", "processing">> \in Ideal!L!Edges
          /\ <<"processing", "shipped">> \in Ideal!L!Edges
          /\ <<"shipped", "delivered">> \in Ideal!L!Edges
      BY DEF Ideal!L!Edges
    <3>2. QED
      BY <1>2, <2>4, <3>1 DEF ProcessOrder, ShipOrder, DeliverOrder, Transition, inventoryVars
  <2>5. QED
    BY <1>3, <2>1, <2>2, <2>3, <2>4 DEF OrderStep
<1>4. ASSUME NEW s \in Skus, NEW n \in 1..MaxQty, RestockSku(s, n)
      PROVE  Ideal!Next
  <2>1. Ideal!Receive(s, n)
    BY <1>4 DEF RestockSku, ReceiveUnits, Ideal!Receive, orderVars
  <2>2. QED
    BY <2>1 DEF Ideal!Next
<1>5. ASSUME \/ UNCHANGED vars
             \/ \E p \in Promos, limit \in UsageLimits, live \in BOOLEAN :
                  ChangePromo(p, limit, live)
      PROVE  UNCHANGED <<status, items, received>>
  BY <1>5 DEF ChangePromo, vars, orderVars, inventoryVars
<1>6. QED
  BY <1>1, <1>3, <1>4, <1>5 DEF Next, ManagerStep

\* Where every order comes from the cart, the counters implement the store
\* without counters: whatever the interleaving, an order is accepted only if
\* the units received cover it and every order pending or sold.
THEOREM CartStoreIsIdeal ==
  ASSUME LinkOrders = {}
  PROVE  Spec => ImplementsIdealStore
<1>1. Init => Ideal!Init
  BY DEF Init, InventoryInit, NoLines, Ideal!Init, Ideal!L!Init
<1>2. BooksHypothesis /\ [Next]_vars => [Ideal!Next]_<<status, items, received>>
  BY IdealStep
<1>3. QED
  BY <1>1, <1>2, BooksCorrect, PTL DEF Spec, ImplementsIdealStore, Ideal!Spec

(***************************************************************************)
(* What is paid for, and the low-stock events.                             *)
(***************************************************************************)

LEMMA PaymentInit == Init => PaymentMatchesStatus
BY DEF Init, PaymentMatchesStatus

\* Only steps that move an absent or a pending order write its lines, its
\* code or its succeeded row.
LEMMA FrozenStep ==
  ASSUME TypeOK, PaymentMatchesStatus, [Next]_vars
  PROVE  KeepsPaidOrders
<1>1. ASSUME NEW o \in OrderIds, status[o] \in {"absent", "pending"},
             \A x \in OrderIds \ {o} :
               /\ items'[x] = items[x] /\ promoCodeId'[x] = promoCodeId[x]
               /\ succeeded'[x] = succeeded[x]
      PROVE  KeepsPaidOrders
  BY <1>1 DEF PaymentMatchesStatus, KeepsPaidOrders
<1>2. ASSUME UNCHANGED <<items, promoCodeId, succeeded>>
      PROVE  KeepsPaidOrders
  BY <1>2 DEF KeepsPaidOrders
<1>3. ASSUME NEW o \in CartOrders, NEW q \in Quantities, NEW p \in Promos \cup {NoPromo},
             CreateOrder(o, q, p)
      PROVE  KeepsPaidOrders
  <2>1. o \in OrderIds
    BY DEF OrderIds
  <2>2. QED
    BY <1>1, <1>3, <2>1 DEF TypeOK, CreateOrder, paymentVars
<1>4. ASSUME NEW o \in OrderIds, OrderStep(o)
      PROVE  KeepsPaidOrders
  <2>1. CASE Fulfil(o)
    BY <1>1, <2>1 DEF TypeOK, Fulfil, Charged
  <2>2. CASE ~Fulfil(o)
    BY <1>2, <1>4, <2>2
    DEF OrderStep, AskPaymentIntent, InsertPayment, FulfilFails, CancelOrder, ReleasePending,
        RestockPaid, ProcessOrder, ShipOrder, DeliverOrder, Transition, orderVars, paymentVars
  <2>3. QED
    BY <2>1, <2>2
<1>5. ASSUME NEW o \in LinkOrders, LinkStep(o)
      PROVE  KeepsPaidOrders
  <2>1. o \in OrderIds
    BY DEF OrderIds
  <2>2. ASSUME NEW s \in Skus, NEW n \in 1..MaxQty, CreateLinkOrder(o, s, n)
        PROVE  KeepsPaidOrders
    BY <1>1, <2>1, <2>2 DEF TypeOK, CreateLinkOrder, paymentVars
  <2>3. ASSUME NEW s \in Skus, NEW n \in 1..MaxQty, DirectSale(o, s, n)
        PROVE  KeepsPaidOrders
    BY <1>1, <2>1, <2>3 DEF TypeOK, DirectSale
  <2>4. ASSUME GetPaymentLink(o) \/ \E s \in Skus, n \in 1..MaxQty : DirectSaleFails(o, s, n)
        PROVE  KeepsPaidOrders
    BY <1>2, <2>4 DEF GetPaymentLink, DirectSaleFails, orderVars, paymentVars
  <2>5. QED
    BY <1>5, <2>2, <2>3, <2>4 DEF LinkStep
<1>6. ASSUME ManagerStep \/ UNCHANGED vars
      PROVE  KeepsPaidOrders
  BY <1>2, <1>6 DEF ManagerStep, RestockSku, ChangePromo, vars, orderVars, paymentVars
<1>7. QED
  BY <1>3, <1>4, <1>5, <1>6 DEF Next

\* The lines, the code and the payment of a paid order never change again.
THEOREM PaidOrdersStayFrozen == Spec => PaidOrdersAreFrozen
<1>1. TypeOK /\ PaymentMatchesStatus /\ [Next]_vars => PaymentMatchesStatus'
  BY PaymentStep
<1>2. TypeOK /\ PaymentMatchesStatus /\ [Next]_vars => [KeepsPaidOrders]_vars
  BY FrozenStep
<1>3. QED
  BY <1>1, <1>2, PaymentInit, TypeCorrect, PTL DEF Spec, PaidOrdersAreFrozen

\* A sale takes units, or none, and opens events for SKUs it leaves low.
LEMMA EventOpens ==
  ASSUME TypeOK, TypeOK', OpenEventIsTrue, NEW lines \in SUBSET Skus,
         \A s \in Skus : stock'[s] <= stock[s],
         DetectAndOpen(lines, stock')
  PROVE  OpenEventIsTrue'
<1>1. ASSUME NEW p \in Products, openEvent'[p]
      PROVE  \E s \in Skus : ProductOf[s] = p /\ stock'[s] <= LowStockThreshold
  <2>1. openEvent[p] \/ \E s \in LowLines(lines, stock') : ProductOf[s] = p
    BY <1>1 DEF DetectAndOpen
  <2>2. ASSUME NEW s \in Skus, ProductOf[s] = p, stock[s] <= LowStockThreshold
        PROVE  \E t \in Skus : ProductOf[t] = p /\ stock'[t] <= LowStockThreshold
    <3>1. stock[s] \in Nat /\ stock'[s] \in Nat /\ LowStockThreshold \in Nat
      BY LowStockAssumption DEF TypeOK, InventoryTypeOK
    <3>2. stock'[s] <= LowStockThreshold
      BY <2>2, <3>1
    <3>3. QED
      BY <2>2, <3>2
  <2>3. QED
    BY <2>1, <2>2 DEF OpenEventIsTrue, LowLines
<1>2. QED
  BY <1>1 DEF OpenEventIsTrue

\* Units put back close the event of every SKU they lift over the threshold.
LEMMA EventCloses ==
  ASSUME OpenEventIsTrue, NEW lines \in SUBSET Skus,
         \A s \in Skus \ lines : stock'[s] = stock[s],
         ResolveIfCrossedAbove(lines, stock')
  PROVE  OpenEventIsTrue'
<1>1. ASSUME NEW p \in Products, openEvent'[p]
      PROVE  \E s \in Skus : ProductOf[s] = p /\ stock'[s] <= LowStockThreshold
  <2>1. openEvent[p] /\ \A s \in lines : ProductOf[s] = p => stock'[s] <= LowStockThreshold
    BY <1>1 DEF ResolveIfCrossedAbove
  <2>2. PICK s \in Skus : ProductOf[s] = p /\ stock[s] <= LowStockThreshold
    BY <2>1 DEF OpenEventIsTrue
  <2>3. QED
    BY <2>1, <2>2
<1>2. QED
  BY <1>1 DEF OpenEventIsTrue

LEMMA EventStep ==
  ASSUME TypeOK, TypeOK', OpenEventIsTrue, [Next]_vars
  PROVE  OpenEventIsTrue'
<1>1. ASSUME UNCHANGED <<stock, openEvent>>
      PROVE  OpenEventIsTrue'
  BY <1>1 DEF OpenEventIsTrue
<1>2. ASSUME NEW o \in CartOrders, NEW q \in Quantities, NEW p \in Promos \cup {NoPromo},
             CreateOrder(o, q, p)
      PROVE  OpenEventIsTrue'
  BY <1>1, <1>2 DEF CreateOrder, Reserve, Write
<1>3. ASSUME NEW o \in OrderIds, Fulfil(o)
      PROVE  OpenEventIsTrue'
  <2>1. stock' = Minus(stock, items[o]) /\ DetectAndOpen(Lines(items[o]), stock')
    BY <1>3 DEF Fulfil, Deduct, Write
  <2>2. \A s \in Skus : stock[s] \in Nat /\ items[o][s] \in Nat
    BY InventoryAssumption DEF TypeOK, InventoryTypeOK, Quantities
  <2>3. \A s \in Skus : stock'[s] <= stock[s]
    BY <2>1, <2>2 DEF Minus
  <2>4. Lines(items[o]) \in SUBSET Skus
    BY DEF Lines
  <2>5. QED
    BY <2>1, <2>3, <2>4, EventOpens
<1>4. ASSUME NEW o \in OrderIds, CancelOrder(o)
      PROVE  OpenEventIsTrue'
  <2>1. CASE ReleasePending(o)
    BY <1>1, <2>1 DEF ReleasePending, Release, Write
  <2>2. CASE RestockPaid(o)
    <3>1. /\ stock' = Plus(stock, items[o])
          /\ ResolveIfCrossedAbove(Lines(items[o]), stock')
      BY <2>2 DEF RestockPaid, Restock, Write
    <3>2. \A s \in Skus : stock[s] \in Nat /\ items[o][s] \in Nat
      BY InventoryAssumption DEF TypeOK, InventoryTypeOK, Quantities
    <3>3. \A s \in Skus \ Lines(items[o]) : stock'[s] = stock[s]
      BY <3>1, <3>2 DEF Plus, Lines
    <3>4. Lines(items[o]) \in SUBSET Skus
      BY DEF Lines
    <3>5. QED
      BY <3>1, <3>3, <3>4, EventCloses
  <2>3. QED
    BY <1>4, <2>1, <2>2 DEF CancelOrder
<1>5. ASSUME NEW o \in OrderIds, OrderStep(o), ~Fulfil(o), ~CancelOrder(o)
      PROVE  OpenEventIsTrue'
  BY <1>1, <1>5
  DEF OrderStep, AskPaymentIntent, InsertPayment, FulfilFails, ProcessOrder, ShipOrder,
      DeliverOrder, Transition, inventoryVars
<1>6. ASSUME NEW o \in LinkOrders, NEW s \in Skus, NEW n \in 1..MaxQty, DirectSale(o, s, n)
      PROVE  OpenEventIsTrue'
  <2>1. DetectAndOpen({s}, stock') /\ SellDirect(s, n)
    BY <1>6 DEF DirectSale
  <2>2. stock' = [stock EXCEPT ![s] = stock[s] - n] \/ stock' = stock
    BY <2>1 DEF SellDirect, Write, inventoryVars
  <2>3. stock \in [Skus -> Nat] /\ n \in Nat
    BY DEF TypeOK, InventoryTypeOK
  <2>4. \A t \in Skus : stock'[t] <= stock[t]
    BY <2>2, <2>3
  <2>5. {s} \in SUBSET Skus
    OBVIOUS
  <2>6. QED
    BY <2>1, <2>4, <2>5, EventOpens
<1>7. ASSUME NEW o \in LinkOrders,
             \/ GetPaymentLink(o)
             \/ \E s \in Skus, n \in 1..MaxQty :
                  CreateLinkOrder(o, s, n) \/ DirectSaleFails(o, s, n)
      PROVE  OpenEventIsTrue'
  BY <1>1, <1>7 DEF GetPaymentLink, CreateLinkOrder, DirectSaleFails, inventoryVars
<1>8. ASSUME NEW s \in Skus, NEW n \in 1..MaxQty, RestockSku(s, n)
      PROVE  OpenEventIsTrue'
  <2>1. /\ stock' = [stock EXCEPT ![s] = stock[s] + n]
        /\ ResolveIfCrossedAbove({s}, stock')
    BY <1>8 DEF RestockSku, ReceiveUnits
  <2>2. \A t \in Skus \ {s} : stock'[t] = stock[t]
    BY <2>1 DEF TypeOK, InventoryTypeOK
  <2>3. {s} \in SUBSET Skus
    OBVIOUS
  <2>4. QED
    BY <2>1, <2>2, <2>3, EventCloses
<1>9. ASSUME \/ UNCHANGED vars
             \/ \E p \in Promos, limit \in UsageLimits, live \in BOOLEAN :
                  ChangePromo(p, limit, live)
      PROVE  OpenEventIsTrue'
  BY <1>1, <1>9 DEF ChangePromo, vars, inventoryVars
<1>10. QED
  BY <1>2, <1>3, <1>4, <1>5, <1>6, <1>7, <1>8, <1>9 DEF Next, LinkStep, ManagerStep

\* An open low-stock event is never stale: its product has a SKU at or under
\* the threshold.
THEOREM OpenEventsAreTrue == Spec => []OpenEventIsTrue
<1>1. Init => OpenEventIsTrue
  BY DEF Init, LowStockInit, OpenEventIsTrue
<1>2. TypeOK /\ TypeOK' /\ OpenEventIsTrue /\ [Next]_vars => OpenEventIsTrue'
  BY EventStep
<1>3. QED
  BY <1>1, <1>2, TypeCorrect, PTL DEF Spec

(***************************************************************************)
(* The audit trail.                                                        *)
(***************************************************************************)

\* A step writes at most one row of one trail, with the status it names; the
\* payment row comes with "paid" and no other status.
Keeps == UNCHANGED <<status, history, succeeded>> /\ checkout \subseteq checkout'
Moves(o, to) ==
  /\ SetStatus(o, to)
  /\ to = "pending" <=> status[o] = "absent"
  /\ checkout' = checkout
  /\ IF to = "paid"
     THEN \E m \in Methods : /\ succeeded' = [succeeded EXCEPT ![o] = m]
                             /\ m = "payment_link" => o \in checkout
     ELSE succeeded' = succeeded

LEMMA TrailMoves ==
  ASSUME [Next]_vars
  PROVE  Keeps \/ \E o \in OrderIds, to \in Statuses : Moves(o, to)
<1>1. ASSUME NEW o \in CartOrders, NEW q \in Quantities, NEW p \in Promos \cup {NoPromo},
             CreateOrder(o, q, p)
      PROVE  o \in OrderIds /\ Moves(o, "pending")
  BY <1>1 DEF CreateOrder, Moves, OrderIds, paymentVars, linkVars
<1>2. ASSUME NEW o \in OrderIds, OrderStep(o)
      PROVE  Keeps \/ \E to \in Statuses : Moves(o, to)
  <2>1. CASE AskPaymentIntent(o) \/ InsertPayment(o) \/ FulfilFails(o)
    BY <2>1 DEF AskPaymentIntent, InsertPayment, FulfilFails, Keeps, orderVars, linkVars
  <2>2. CASE Fulfil(o)
    <3>1. succeeded' = [succeeded EXCEPT ![o] = "payment_intent"] /\ "payment_intent" \in Methods
      BY <2>2 DEF Fulfil, Methods
    <3>2. Moves(o, "paid") /\ "paid" \in Statuses
      BY <2>2, <3>1 DEF Fulfil, Charged, Moves, linkVars, Statuses
    <3> QED
      BY <3>2
  <2>3. CASE CancelOrder(o)
    <3>1. Moves(o, "cancelled") /\ "cancelled" \in Statuses
      BY <2>3 DEF CancelOrder, ReleasePending, RestockPaid, RestockableFrom, Moves,
                  paymentVars, linkVars, Statuses
    <3> QED
      BY <3>1
  <2>4. CASE ProcessOrder(o) \/ ShipOrder(o) \/ DeliverOrder(o)
    BY <2>4 DEF ProcessOrder, ShipOrder, DeliverOrder, Transition, Moves,
                paymentVars, linkVars, Statuses
  <2> QED
    BY <1>2, <2>1, <2>2, <2>3, <2>4 DEF OrderStep
<1>3. ASSUME NEW o \in LinkOrders, LinkStep(o)
      PROVE  Keeps \/ \E to \in Statuses : Moves(o, to)
  <2>1. CASE GetPaymentLink(o)
    BY <2>1 DEF GetPaymentLink, Keeps, orderVars, paymentVars
  <2>2. ASSUME NEW s \in Skus, NEW n \in 1..MaxQty, CreateLinkOrder(o, s, n)
        PROVE  Moves(o, "pending")
    BY <2>2 DEF CreateLinkOrder, Moves, paymentVars, linkVars
  <2>3. ASSUME NEW s \in Skus, NEW n \in 1..MaxQty, DirectSale(o, s, n)
        PROVE  Moves(o, "paid")
    <3>1. succeeded' = [succeeded EXCEPT ![o] = "payment_link"] /\ "payment_link" \in Methods
      BY <2>3 DEF DirectSale, Methods
    <3> QED
      BY <2>3, <3>1 DEF DirectSale, Moves
  <2>4. ASSUME NEW s \in Skus, NEW n \in 1..MaxQty, DirectSaleFails(o, s, n)
        PROVE  Keeps
    BY <2>4 DEF DirectSaleFails, Keeps, orderVars, linkVars
  <2> QED
    BY <1>3, <2>1, <2>2, <2>3, <2>4 DEF LinkStep, Statuses
<1>4. CASE ManagerStep \/ UNCHANGED vars
  BY <1>4 DEF ManagerStep, RestockSku, ChangePromo, Keeps, vars, orderVars, paymentVars, linkVars
<1>5. LinkOrders \subseteq OrderIds /\ "pending" \in Statuses
  BY DEF OrderIds, Statuses
<1> QED
  BY <1>1, <1>2, <1>3, <1>4, <1>5 DEF Next

\* AuditTrail, of one order.
TrailOf(o) ==
  /\ status[o] = "absent" <=> history[o] = << >>
  /\ status[o] # "absent" =>
       history[o][1] = "pending" /\ history[o][Len(history[o])] = status[o]
  /\ (\E i \in DOMAIN history[o] : history[o][i] = "paid") <=> succeeded[o] # "none"
  /\ succeeded[o] = "payment_link" => o \in checkout

LEMMA TrailsAre == AuditTrail <=> \A o \in OrderIds : TrailOf(o)
BY DEF AuditTrail, TrailOf

LEMMA TrailStep ==
  ASSUME TypeOK, AuditTrail, [Next]_vars
  PROVE  AuditTrail'
<1>1. \A o \in OrderIds : TrailOf(o)
  BY TrailsAre
<1>2. CASE Keeps
  BY <1>1, <1>2, TrailsAre DEF Keeps, TrailOf, AuditTrail
<1>3. ASSUME NEW o \in OrderIds, NEW to \in Statuses, Moves(o, to)
      PROVE  AuditTrail'
  <2>1. /\ status' = [status EXCEPT ![o] = to]
        /\ history' = [history EXCEPT ![o] = Append(history[o], to)]
        /\ checkout' = checkout
    BY <1>3 DEF Moves, SetStatus
  <2>2. /\ status \in [OrderIds -> Statuses \cup {"absent"}]
        /\ history \in [OrderIds -> Seq(Statuses)]
        /\ succeeded \in [OrderIds -> Methods \cup {"none"}]
    BY DEF TypeOK
  <2>3. ASSUME NEW x \in OrderIds, x # o
        PROVE  TrailOf(x)'
    <3>1. /\ status'[x] = status[x] /\ history'[x] = history[x]
          /\ succeeded'[x] = succeeded[x]
      BY <1>3, <2>1, <2>2, <2>3 DEF Moves
    <3>2. TrailOf(x) /\ checkout' = checkout
      BY <1>1, <2>1
    <3> QED
      BY <3>1, <3>2, Zenon DEF TrailOf
  <2>4. TrailOf(o)'
    <3> DEFINE h == history[o]
    <3>1. h \in Seq(Statuses) /\ history'[o] = Append(h, to) /\ status'[o] = to
      BY <2>1, <2>2
    <3>2. /\ Len(Append(h, to)) = Len(h) + 1
          /\ \A i \in 1..Len(h) : Append(h, to)[i] = h[i]
          /\ Append(h, to)[Len(h) + 1] = to
          /\ DOMAIN h = 1..Len(h) /\ DOMAIN Append(h, to) = 1..(Len(h) + 1)
          /\ Len(h) \in Nat
      BY <3>1
    <3>3. to # "absent" /\ history'[o] # << >>
      BY <3>1 DEF Statuses
    <3>4. history'[o][1] = "pending" /\ history'[o][Len(history'[o])] = status'[o]
      <4>1. CASE status[o] = "absent"
        <5>1. h = << >> /\ to = "pending"
          BY <1>1, <1>3, <4>1 DEF TrailOf, Moves
        <5> QED
          BY <3>1, <5>1
      <4>2. CASE status[o] # "absent"
        <5>1. h # << >> /\ h[1] = "pending"
          BY <1>1, <4>2 DEF TrailOf
        <5>2. 1 \in 1..Len(h)
          BY <3>1, <5>1
        <5> QED
          BY <3>1, <3>2, <5>1, <5>2
      <4> QED
        BY <4>1, <4>2
    <3>5. (\E i \in DOMAIN history'[o] : history'[o][i] = "paid")
            <=> (\E i \in DOMAIN h : h[i] = "paid") \/ to = "paid"
      BY <3>1, <3>2
    <3>6. CASE to = "paid"
      <4>1. PICK m \in Methods : /\ succeeded' = [succeeded EXCEPT ![o] = m]
                                 /\ m = "payment_link" => o \in checkout
        BY <1>3, <3>6 DEF Moves
      <4>2. succeeded'[o] = m /\ m # "none"
        BY <2>2, <4>1 DEF Methods
      <4> QED
        BY <2>1, <3>1, <3>3, <3>4, <3>5, <3>6, <4>1, <4>2 DEF TrailOf
    <3>7. CASE to # "paid"
      <4>1. succeeded' = succeeded
        BY <1>3, <3>7 DEF Moves
      <4> QED
        BY <1>1, <2>1, <3>1, <3>3, <3>4, <3>5, <3>7, <4>1 DEF TrailOf
    <3> QED
      BY <3>6, <3>7
  <2> QED
    BY <2>3, <2>4 DEF AuditTrail, TrailOf
<1> QED
  BY <1>2, <1>3, TrailMoves

LEMMA TrailInit == Init => AuditTrail
<1> SUFFICES ASSUME Init, NEW o \in OrderIds
             PROVE  TrailOf(o)
  BY TrailsAre
<1> QED
  BY DEF Init, TrailOf

\* Status, trail and payment row tell one story: the trail runs from pending
\* to the current status, and "paid" is in it exactly when a payment
\* succeeded, with a link only if its buyer was given one.
THEOREM TrailTellsTheOrder == Spec => []AuditTrail
BY TrailInit, TrailStep, TypeCorrect, PTL DEF Spec
=============================================================================
