--------------------------- MODULE CheckoutProofs ---------------------------
(***************************************************************************)
(* Checkout, for any number of calls, SKUs, prices and promo codes: what   *)
(* becomes of the rows and the units of a cart, and what the buyer owes.   *)
(***************************************************************************)
EXTENDS Checkout, OrderUnitsProofs

(***************************************************************************)
(* What computePromoDiscount guarantees for every code and subtotal.       *)
(***************************************************************************)
\* A rounded percentage is the nearest whole cent, a half cent going up.
LEMMA PercentIsNearest ==
  ASSUME NEW subtotal \in Nat, NEW percent \in 1..100
  PROVE  /\ PercentOf(subtotal, percent) \in Nat
         /\ 100 * PercentOf(subtotal, percent) - subtotal * percent \in -49..50
<1> DEFINE x == subtotal * percent
<1>1. x \in Nat
  OBVIOUS
<1>2. \A n \in Nat : /\ (n + 50) \div 100 \in Nat
                     /\ 100 * ((n + 50) \div 100) - n \in -49..50
  OBVIOUS
<1> QED
  BY <1>1, <1>2 DEF PercentOf

\* The discount is never negative and never exceeds the subtotal, so the
\* total of an order is never negative.
THEOREM DiscountIsBounded ==
  ASSUME NEW t \in ValidTerms, NEW subtotal \in Nat
  PROVE  Discount(t, subtotal) \in 0..subtotal
<1>1. CASE t.type = "percentage"
  <2> DEFINE d == PercentOf(subtotal, t.value)
             x == subtotal * t.value
  <2>1. t.value \in 1..100
    BY <1>1 DEF ValidTerms
  <2>2. d \in Nat /\ 100 * d - x <= 50
    <3>1. d \in Nat /\ 100 * d - x \in -49..50
      BY <2>1, PercentIsNearest
    <3>2. x \in Int
      BY <2>1
    <3> HIDE DEF x, d
    <3> QED
      BY <3>1, <3>2
  <2>3. x \in Nat /\ x <= 100 * subtotal
    BY <2>1
  <2>4. d <= subtotal
    <3> HIDE DEF x, d
    <3> QED
      BY <2>2, <2>3
  <2>5. Discount(t, subtotal) = d
    BY <1>1 DEF Discount
  <2> QED
    BY <2>2, <2>4, <2>5
<1>2. CASE t.type # "percentage"
  BY <1>2 DEF Discount, ValidTerms
<1> QED
  BY <1>1, <1>2

(***************************************************************************)
(* The tables.                                                             *)
(***************************************************************************)

LEMMA NoLinesTyped == NoLines \in Quantities
BY InventoryAssumption DEF NoLines, Quantities

LEMMA TypeInit == Init => TypeOK
<1> SUFFICES ASSUME Init
             PROVE  TypeOK
  OBVIOUS
<1>1. InventoryTypeOK
  <2>1. /\ stock \in [Skus -> Nat] /\ received = stock
        /\ reserved = [s \in Skus |-> 0]
    BY InventoryAssumption DEF Init, InventoryInit
  <2>2. \A s \in Skus : stock[s] >= 0 /\ reserved[s] >= 0 /\ reserved[s] <= stock[s]
    BY <2>1
  <2> QED
    BY <2>1, <2>2 DEF InventoryTypeOK, StockCheck
<1>2. PromotionsTypeOK
  BY DEF Init, PromotionsInit, PromotionsTypeOK
<1>3. added \in [Skus -> 0..MaxAdded]
  BY CheckoutAssumption DEF Init, NoLines
<1>4. NoCart.lines = NoLines /\ NoOrder.lines = NoLines /\ NoOffer.promo = NoPromo
  BY DEF NoCart, NoOrder, NoOffer
<1>5. /\ cart \in Quantities /\ price \in [Skus -> Prices] /\ terms \in [Promos -> Terms]
      /\ call \in [Calls -> {"idle", "read", "priced", "over"}]
      /\ held \in [Calls -> SUBSET Skus]
  BY NoLinesTyped DEF Init
<1>6. /\ DOMAIN read = Calls /\ DOMAIN offer = Calls /\ DOMAIN order = Calls
      /\ \A c \in Calls : /\ read[c] = NoCart /\ offer[c] = NoOffer
                          /\ order[c] = NoOrder /\ held[c] = {}
  BY DEF Init
<1>7. \A c \in Calls : /\ read[c].lines \in Quantities /\ order[c].lines \in Quantities
                      /\ held[c] \subseteq Lines(read[c].lines)
                      /\ offer[c].promo \in Promos \cup {NoPromo}
  BY <1>4, <1>6, NoLinesTyped
<1> QED
  BY <1>1, <1>2, <1>3, <1>5, <1>6, <1>7 DEF TypeOK

\* The tables the calls are about.
CallTypes ==
  /\ call \in [Calls -> {"idle", "read", "priced", "over"}]
  /\ held \in [Calls -> SUBSET Skus]
  /\ DOMAIN read = Calls /\ DOMAIN offer = Calls /\ DOMAIN order = Calls
  /\ \A c \in Calls :
       /\ read[c].lines \in Quantities
       /\ order[c].lines \in Quantities
       /\ held[c] \subseteq Lines(read[c].lines)
       /\ offer[c].promo \in Promos \cup {NoPromo}

OtherTypes ==
  /\ InventoryTypeOK /\ PromotionsTypeOK
  /\ cart \in Quantities
  /\ price \in [Skus -> Prices]
  /\ terms \in [Promos -> Terms]
  /\ added \in [Skus -> 0..MaxAdded]

LEMMA TypeParts ==
  /\ TypeOK => OtherTypes /\ CallTypes
  /\ OtherTypes' /\ CallTypes' => TypeOK'
BY DEF TypeOK, OtherTypes, CallTypes

\* A row's quantity is set, and what it gains is added.
LEMMA QuantitySet ==
  ASSUME TypeOK, NEW s \in Skus, NEW n \in 1..MaxQty,
         AddItem(s, n) \/ UpdateItem(s, n)
  PROVE  /\ cart' \in Quantities /\ added' \in [Skus -> 0..MaxAdded]
         /\ \A t \in Skus :
              /\ added[t] <= added'[t]
              /\ cart'[t] - cart[t] <= added'[t] - added[t]
              /\ cart[t] > 0 => cart'[t] > 0
         /\ UNCHANGED <<held, callVars, managerVars, inventoryVars>>
<1>1. PICK k \in 1..MaxQty : Quantity(s, k)
  BY InventoryAssumption DEF AddItem, UpdateItem, TypeOK, Quantities
<1>2. /\ MaxQty \in Nat /\ MaxAdded \in Nat
      /\ cart \in [Skus -> 0..MaxQty] /\ added \in [Skus -> 0..MaxAdded]
  BY InventoryAssumption, CheckoutAssumption DEF TypeOK, Quantities
<1>3. /\ cart' = [cart EXCEPT ![s] = k]
      /\ added' = [added EXCEPT ![s] = added[s] + (IF k > cart[s] THEN k - cart[s] ELSE 0)]
      /\ added'[s] <= MaxAdded
  BY <1>1 DEF Quantity
<1>4. added[s] + (IF k > cart[s] THEN k - cart[s] ELSE 0) \in 0..MaxAdded
  <2>1. added'[s] = added[s] + (IF k > cart[s] THEN k - cart[s] ELSE 0)
    BY <1>2, <1>3
  <2>2. added[s] \in Nat /\ cart[s] \in Nat /\ k \in Nat
    BY <1>2
  <2> QED
    BY <1>2, <1>3, <2>1, <2>2
<1>5. cart' \in Quantities /\ added' \in [Skus -> 0..MaxAdded]
  BY <1>2, <1>3, <1>4 DEF Quantities
<1>6. \A t \in Skus :
        /\ added[t] <= added'[t]
        /\ cart'[t] - cart[t] <= added'[t] - added[t]
        /\ cart[t] > 0 => cart'[t] > 0
  BY <1>2, <1>3
<1> QED
  BY <1>5, <1>6 DEF AddItem, UpdateItem

\* A transaction that commits takes the rows the call read, all of them.
LEMMA Committed ==
  ASSUME TypeOK, NEW c \in Calls, Commit(c)
  PROVE  /\ held[c] = Lines(read[c].lines)
         /\ cart' = [s \in Skus |-> IF s \in held[c] THEN 0 ELSE cart[s]]
         /\ held' = [d \in Calls |-> held[d] \ held[c]]
         /\ \A d \in Calls \ {c} : order'[d] = order[d] /\ read'[d] = read[d]
         /\ DOMAIN order' = Calls /\ DOMAIN read' = Calls /\ DOMAIN offer' = Calls
         /\ order'[c].lines = read[c].lines /\ read'[c] = NoCart
         /\ offer' = [offer EXCEPT ![c] = NoOffer]
         /\ call' = [call EXCEPT ![c] = "over"]
         /\ added' = added /\ price' = price /\ terms' = terms
<1>1. DOMAIN read = Calls /\ DOMAIN offer = Calls /\ DOMAIN order = Calls
  BY DEF TypeOK
<1> DEFINE row == [lines    |-> read[c].lines,
                   prices   |-> read[c].prices,
                   promo    |-> offer[c].promo,
                   subtotal |-> Subtotal(read[c]),
                   discount |-> offer[c].discount,
                   total    |-> Subtotal(read[c]) - offer[c].discount]
<1>2. order' = [order EXCEPT ![c] = row] /\ row.lines = read[c].lines
  BY DEF Commit
<1> HIDE DEF row
<1>3. /\ held[c] = Lines(read[c].lines)
      /\ cart' = [s \in Skus |-> IF s \in held[c] THEN 0 ELSE cart[s]]
      /\ held' = [d \in Calls |-> held[d] \ held[c]]
      /\ added' = added /\ price' = price /\ terms' = terms
  BY DEF Commit, ClaimsCart, DropRows
<1>4. /\ call' = [call EXCEPT ![c] = "over"] /\ read' = [read EXCEPT ![c] = NoCart]
      /\ offer' = [offer EXCEPT ![c] = NoOffer]
  BY DEF Commit, Over
<1>5. /\ DOMAIN order' = Calls /\ order'[c].lines = read[c].lines
      /\ \A d \in Calls \ {c} : order'[d] = order[d]
  BY <1>1, <1>2
<1>6. /\ DOMAIN read' = Calls /\ DOMAIN offer' = Calls /\ read'[c] = NoCart
      /\ \A d \in Calls \ {c} : read'[d] = read[d]
  BY <1>1, <1>4
<1> QED
  BY <1>3, <1>4, <1>5, <1>6

LEMMA TypeNext ==
  ASSUME TypeOK, [Next]_vars
  PROVE  TypeOK'
<1>1. OtherTypes /\ CallTypes
  BY TypeParts
<1>2. ASSUME UNCHANGED inventoryVars
      PROVE  InventoryTypeOK'
  BY <1>1, <1>2 DEF inventoryVars, OtherTypes, InventoryTypeOK, StockCheck
<1>3. ASSUME UNCHANGED promoVars
      PROVE  PromotionsTypeOK'
  BY <1>1, <1>3 DEF promoVars, OtherTypes, PromotionsTypeOK
<1>4. ASSUME UNCHANGED <<callVars, held>>
      PROVE  CallTypes'
  BY <1>1, <1>4 DEF callVars, CallTypes
<1>5. NoCart.lines = NoLines /\ NoOffer.promo = NoPromo
  BY DEF NoCart, NoOffer
<1>6. ASSUME NEW s \in Skus, NEW n \in 1..MaxQty, AddItem(s, n) \/ UpdateItem(s, n)
      PROVE  TypeOK'
  <2>1. CallTypes' /\ InventoryTypeOK' /\ PromotionsTypeOK'
    BY <1>2, <1>3, <1>4, <1>6, QuantitySet DEF managerVars
  <2>2. /\ cart' \in Quantities /\ added' \in [Skus -> 0..MaxAdded]
        /\ price' = price /\ terms' = terms
    BY <1>6, QuantitySet DEF managerVars
  <2> QED
    BY <1>1, <1>6, <2>1, <2>2, TypeParts DEF OtherTypes
<1>7. ASSUME NEW S \in SUBSET Skus, DropRows(S),
             UNCHANGED <<callVars, managerVars, inventoryVars>>
      PROVE  TypeOK'
  <2>1. InventoryTypeOK' /\ PromotionsTypeOK'
    BY <1>2, <1>3, <1>7 DEF managerVars
  <2>2. /\ call' = call /\ read' = read /\ offer' = offer /\ order' = order
        /\ held' = [c \in Calls |-> held[c] \ S]
    BY <1>7 DEF callVars, DropRows
  <2>3. CallTypes'
    BY <1>1, <2>2 DEF CallTypes
  <2>4. OtherTypes'
    BY <1>1, <1>7, <2>1, InventoryAssumption DEF OtherTypes, DropRows, Quantities, managerVars
  <2> QED
    BY <2>3, <2>4, TypeParts
<1>8. ASSUME NEW c \in Calls, ReadCart(c)
      PROVE  TypeOK'
  <2>1. InventoryTypeOK' /\ PromotionsTypeOK'
    BY <1>2, <1>3, <1>8 DEF ReadCart, managerVars
  <2>2. PICK p : read' = [read EXCEPT ![c] = [lines |-> cart, prices |-> p]]
    BY <1>8 DEF ReadCart
  <2>3. /\ call' = [call EXCEPT ![c] = "read"] /\ held' = [held EXCEPT ![c] = Lines(cart)]
        /\ offer' = offer /\ order' = order
    BY <1>8 DEF ReadCart
  <2>4. cart \in Quantities /\ Lines(cart) \subseteq Skus
    BY <1>1 DEF OtherTypes, Lines
  <2>5. /\ read'[c].lines = cart /\ DOMAIN read' = Calls
        /\ \A d \in Calls \ {c} : read'[d] = read[d]
    BY <1>1, <2>2 DEF CallTypes
  <2>6. CallTypes'
    BY <1>1, <2>3, <2>4, <2>5 DEF CallTypes
  <2>7. OtherTypes'
    BY <1>1, <1>8, <2>1 DEF OtherTypes, ReadCart, managerVars
  <2> QED
    BY <2>6, <2>7, TypeParts
<1>9. ASSUME NEW c \in Calls, NEW p \in Promos \cup {NoPromo}, EvaluatePromo(c, p)
      PROVE  TypeOK'
  <2>1. InventoryTypeOK' /\ PromotionsTypeOK'
    BY <1>2, <1>3, <1>9 DEF EvaluatePromo, managerVars
  <2>2. PICK x : offer' = [offer EXCEPT ![c] = [promo |-> p, discount |-> x]]
    BY <1>9 DEF EvaluatePromo
  <2>3. DOMAIN offer' = Calls /\ \A d \in Calls : offer'[d].promo \in Promos \cup {NoPromo}
    BY <1>1, <2>2 DEF CallTypes
  <2>4. /\ call' = [call EXCEPT ![c] = "priced"]
        /\ held' = held /\ read' = read /\ order' = order
    BY <1>9 DEF EvaluatePromo, cartVars
  <2>5. CallTypes'
    BY <1>1, <2>3, <2>4 DEF CallTypes
  <2>6. OtherTypes'
    BY <1>1, <1>9, <2>1 DEF OtherTypes, EvaluatePromo, managerVars, cartVars
  <2> QED
    BY <2>5, <2>6, TypeParts
<1>10. ASSUME NEW c \in Calls,
              RollBack(c) \/ \E p \in Promos \cup {NoPromo} : RefusePromo(c, p)
       PROVE  TypeOK'
  <2>1. /\ InventoryTypeOK' /\ PromotionsTypeOK'
        /\ cart' = cart /\ added' = added /\ price' = price /\ terms' = terms
    BY <1>2, <1>3, <1>10 DEF RollBack, RefusePromo, managerVars
  <2>2. /\ call' = [call EXCEPT ![c] = "over"] /\ read' = [read EXCEPT ![c] = NoCart]
        /\ offer' = [offer EXCEPT ![c] = NoOffer] /\ held' = [held EXCEPT ![c] = {}]
        /\ order' = order
    BY <1>10 DEF RollBack, RefusePromo, Over
  <2>3. CallTypes'
    BY <1>1, <1>5, <2>2, NoLinesTyped DEF CallTypes
  <2>4. OtherTypes'
    BY <1>1, <2>1 DEF OtherTypes
  <2> QED
    BY <2>3, <2>4, TypeParts
<1>11. ASSUME NEW c \in Calls, Commit(c)
       PROVE  TypeOK'
  <2>1. InventoryTypeOK'
    <3>1. Write(stock, Plus(reserved, read[c].lines))
      BY <1>11 DEF Commit, Reserve
    <3>2. /\ stock' = stock /\ received' = received
          /\ reserved' = [s \in Skus |-> reserved[s] + read[c].lines[s]]
          /\ StockCheck(stock', reserved')
      BY <3>1 DEF Write, Plus
    <3>3. \A s \in Skus : reserved[s] \in Nat /\ read[c].lines[s] \in Nat
      BY <1>1, InventoryAssumption
         DEF OtherTypes, CallTypes, InventoryTypeOK, Quantities
    <3>4. reserved' \in [Skus -> Nat]
      BY <3>2, <3>3
    <3> QED
      BY <1>1, <3>2, <3>4 DEF OtherTypes, InventoryTypeOK
  <2>2. PromotionsTypeOK'
    BY <1>1, <1>11 DEF Commit, Redeem, Count, OtherTypes, PromotionsTypeOK
  <2>3. \A d \in Calls : /\ read'[d].lines \in Quantities /\ order'[d].lines \in Quantities
                         /\ offer'[d].promo \in Promos \cup {NoPromo}
    BY <1>1, <1>5, <1>11, Committed, NoLinesTyped DEF CallTypes
  <2>4. \A d \in Calls : held'[d] \subseteq Lines(read'[d].lines)
    BY <1>1, <1>11, Committed DEF CallTypes
  <2>5. CallTypes'
    BY <1>1, <1>11, <2>3, <2>4, Committed DEF CallTypes
  <2>6. OtherTypes'
    BY <1>1, <1>11, <2>1, <2>2, Committed, InventoryAssumption DEF OtherTypes, Quantities
  <2> QED
    BY <2>5, <2>6, TypeParts
<1>12. ASSUME ManagerStep
       PROVE  TypeOK'
  <2>1. CallTypes' /\ InventoryTypeOK' /\ cart' = cart /\ added' = added
    BY <1>2, <1>4, <1>12 DEF ManagerStep, SetPrice, ChangePromo, cartVars
  <2>2. price' \in [Skus -> Prices] /\ terms' \in [Promos -> Terms]
    BY <1>1, <1>12 DEF ManagerStep, SetPrice, ChangePromo, OtherTypes
  <2>3. PromotionsTypeOK'
    BY <1>1, <1>3, <1>12
       DEF ManagerStep, SetPrice, ChangePromo, UpdatePromo, OtherTypes, PromotionsTypeOK
  <2> QED
    BY <1>1, <2>1, <2>2, <2>3, TypeParts DEF OtherTypes
<1>13. ASSUME UNCHANGED vars
       PROVE  TypeOK'
  <2>1. /\ CallTypes' /\ InventoryTypeOK' /\ PromotionsTypeOK'
        /\ cart' = cart /\ added' = added /\ price' = price /\ terms' = terms
    BY <1>2, <1>3, <1>4, <1>13 DEF vars, cartVars, managerVars
  <2> QED
    BY <1>1, <2>1, TypeParts DEF OtherTypes
<1>14. ASSUME CartStep
       PROVE  TypeOK'
  <2>1. ASSUME NEW s \in Skus, RemoveItem(s)
        PROVE  TypeOK'
    <3>1. {s} \in SUBSET Skus
      OBVIOUS
    <3> QED
      BY <1>7, <2>1, <3>1 DEF RemoveItem
  <2>2. ASSUME Clear
        PROVE  TypeOK'
    BY <1>7, <2>2 DEF Clear
  <2> QED
    BY <1>6, <1>14, <2>1, <2>2 DEF CartStep
<1> QED
  BY <1>8, <1>9, <1>10, <1>11, <1>12, <1>13, <1>14 DEF Next, CallStep

(***************************************************************************)
(* The units. What a call may still order, because the row it read is      *)
(* still there, has not been ordered by any other.                         *)
(***************************************************************************)
UnitsInv ==
  /\ NoUnitOrderedTwice
  /\ \A c \in Calls : \A s \in held[c] :
       cart[s] > 0 /\ read[c].lines[s] + Ordered(s) <= added[s]

OrderedAreUnits == \A s \in Skus : Ordered(s) \in Nat

LEMMA OrderedTyped == TypeOK => OrderedAreUnits
<1> SUFFICES ASSUME TypeOK, NEW s \in Skus
             PROVE  Ordered(s) \in Nat
  BY DEF OrderedAreUnits
<1> DEFINE its == [c \in Calls |-> order[c].lines]
<1>1. MaxQty \in Nat /\ IsFiniteSet(Calls)
  BY InventoryAssumption, CheckoutAssumption
<1>2. \A c \in Calls : its[c][s] \in 0..MaxQty
  BY DEF TypeOK, Quantities
<1> HIDE DEF its
<1>3. InUnits(Calls, its, s) \in Nat
  BY <1>1, <1>2, UnitsFinite
<1> QED
  BY <1>3 DEF Ordered, its

LEMMA OrderedTypedNext == TypeOK' => OrderedAreUnits'
BY OrderedTyped, PTL

LEMMA OrderedSame ==
  ASSUME order' = order
  PROVE  \A s : Ordered(s)' = Ordered(s)
BY DEF Ordered

\* An order adds its lines, and no more.
LEMMA OrderedGrows ==
  ASSUME TypeOK, TypeOK', NEW c \in Calls, NEW s \in Skus,
         \A d \in Calls \ {c} : order'[d] = order[d]
  PROVE  Ordered(s)' <= Ordered(s) + order'[c].lines[s]
<1> DEFINE its == [d \in Calls |-> order[d].lines]
           its2 == [d \in Calls |-> order'[d].lines]
<1>1. MaxQty \in Nat /\ IsFiniteSet(Calls)
  BY InventoryAssumption, CheckoutAssumption
<1>2. \A d \in Calls \cup {c} : its[d][s] \in 0..MaxQty
  BY DEF TypeOK, Quantities
<1>3. its2[c][s] \in 0..MaxQty
  BY DEF TypeOK, Quantities
<1>4. \A d \in Calls : d # c => its2[d][s] = its[d][s]
  OBVIOUS
<1>5. Ordered(s) = InUnits(Calls, its, s) /\ Ordered(s)' = InUnits(Calls, its2, s)
  BY DEF Ordered
<1>6. its2[c][s] = order'[c].lines[s]
  OBVIOUS
<1> HIDE DEF its, its2
<1>7. InUnits(Calls, its2, s) =
        InUnits(Calls, its, s) + (IF c \in Calls THEN its2[c][s] ELSE 0)
          - (IF c \in Calls THEN its[c][s] ELSE 0)
  BY <1>1, <1>2, <1>3, <1>4, UnitsMove
<1>8. Ordered(s) \in Nat
  BY OrderedTyped DEF OrderedAreUnits
<1> QED
  BY <1>1, <1>2, <1>3, <1>5, <1>6, <1>7, <1>8

LEMMA UnitsInit == Init => UnitsInv
<1> SUFFICES ASSUME Init
             PROVE  UnitsInv
  OBVIOUS
<1>1. \A c \in Calls : held[c] = {}
  BY DEF Init
<1>2. ASSUME NEW s \in Skus
      PROVE  Ordered(s) = 0
  <2> DEFINE its == [c \in Calls |-> order[c].lines]
  <2>1. \A c \in Calls : its[c][s] = 0
    BY DEF Init, NoOrder, NoLines
  <2>2. Units(Calls, its, s) = {}
    BY <2>1 DEF Units
  <2>3. Ordered(s) = Cardinality(Units(Calls, its, s))
    BY DEF Ordered, InUnits
  <2> QED
    BY <2>2, <2>3, FS_EmptySet
<1>3. \A s \in Skus : cart[s] = 0 /\ added[s] = 0
  BY DEF Init, NoLines
<1> QED
  BY <1>1, <1>2, <1>3 DEF UnitsInv, NoUnitOrderedTwice

LEMMA UnitsNext ==
  ASSUME TypeOK, TypeOK', UnitsInv, [Next]_vars
  PROVE  UnitsInv'
<1>0. /\ \A s \in Skus : cart[s] \in Nat /\ added[s] \in Nat /\ Ordered(s) \in Nat
      /\ \A s \in Skus : cart'[s] \in Nat /\ added'[s] \in Nat
      /\ \A c \in Calls, s \in Skus : read[c].lines[s] \in Nat
      /\ \A c \in Calls : held[c] \subseteq Skus
  BY InventoryAssumption, CheckoutAssumption, OrderedTyped
     DEF TypeOK, Quantities, OrderedAreUnits
\* The cart may lose rows no call holds any more, and gain what is added.
<1>1. ASSUME order' = order,
             \A c \in Calls : held'[c] \subseteq held[c],
             \A c \in Calls : held'[c] # {} => read'[c] = read[c],
             \A s \in Skus : /\ added[s] <= added'[s]
                             /\ cart'[s] - cart[s] <= added'[s] - added[s],
             \A c \in Calls : \A s \in held'[c] : cart'[s] > 0
      PROVE  UnitsInv'
  <2>1. \A s : Ordered(s)' = Ordered(s)
    BY <1>1, OrderedSame
  <2>2. \A s \in Skus : cart'[s] + Ordered(s) <= added'[s]
    BY <1>0, <1>1 DEF UnitsInv, NoUnitOrderedTwice
  <2>3. ASSUME NEW c \in Calls, NEW s \in held'[c]
        PROVE  cart'[s] > 0 /\ read'[c].lines[s] + Ordered(s) <= added'[s]
    <3>1. s \in held[c] /\ s \in Skus /\ read'[c] = read[c]
      BY <1>0, <1>1, <2>3
    <3>2. read[c].lines[s] + Ordered(s) <= added[s]
      BY <3>1 DEF UnitsInv
    <3> QED
      BY <1>0, <1>1, <2>3, <3>1, <3>2
  <2> QED
    BY <2>1, <2>2, <2>3 DEF UnitsInv, NoUnitOrderedTwice
<1>2. ASSUME NEW s \in Skus, NEW n \in 1..MaxQty, AddItem(s, n) \/ UpdateItem(s, n)
      PROVE  UnitsInv'
  <2>1. /\ held' = held /\ read' = read /\ order' = order
        /\ \A t \in Skus : /\ added[t] <= added'[t]
                           /\ cart'[t] - cart[t] <= added'[t] - added[t]
                           /\ cart[t] > 0 => cart'[t] > 0
    BY <1>2, QuantitySet DEF callVars
  <2> QED
    BY <1>0, <1>1, <2>1 DEF UnitsInv
<1>3. ASSUME NEW S \in SUBSET Skus, DropRows(S),
             UNCHANGED <<callVars, managerVars, inventoryVars>>
      PROVE  UnitsInv'
  <2>1. /\ read' = read /\ order' = order /\ added' = added
        /\ cart' = [s \in Skus |-> IF s \in S THEN 0 ELSE cart[s]]
        /\ held' = [c \in Calls |-> held[c] \ S]
    BY <1>3 DEF callVars, DropRows
  <2>2. \A s \in Skus : added[s] <= added'[s] /\ cart'[s] - cart[s] <= added'[s] - added[s]
    BY <1>0, <2>1
  <2>3. \A c \in Calls : \A s \in held'[c] : cart'[s] > 0
    BY <1>0, <2>1 DEF UnitsInv
  <2> QED
    BY <1>1, <2>1, <2>2, <2>3
<1>4. ASSUME NEW c \in Calls, ReadCart(c)
      PROVE  UnitsInv'
  <2>1. PICK p : read' = [read EXCEPT ![c] = [lines |-> cart, prices |-> p]]
    BY <1>4 DEF ReadCart
  <2>2. /\ held' = [held EXCEPT ![c] = Lines(cart)]
        /\ cart' = cart /\ added' = added /\ order' = order
    BY <1>4 DEF ReadCart
  <2>3. \A s : Ordered(s)' = Ordered(s)
    BY <2>2, OrderedSame
  <2>4. ASSUME NEW d \in Calls, NEW s \in held'[d]
        PROVE  cart'[s] > 0 /\ read'[d].lines[s] + Ordered(s) <= added'[s]
    <3>1. CASE d = c
      <4>1. s \in Skus /\ cart[s] > 0 /\ read'[d].lines = cart
        BY <2>1, <2>2, <2>4, <3>1 DEF TypeOK, Lines
      <4> QED
        BY <2>2, <4>1 DEF UnitsInv, NoUnitOrderedTwice
    <3>2. CASE d # c
      <4>1. s \in held[d] /\ read'[d] = read[d]
        BY <2>1, <2>2, <2>4, <3>2 DEF TypeOK
      <4> QED
        BY <2>2, <4>1 DEF UnitsInv
    <3> QED
      BY <3>1, <3>2
  <2> QED
    BY <2>2, <2>3, <2>4 DEF UnitsInv, NoUnitOrderedTwice
<1>5. ASSUME NEW c \in Calls,
             RollBack(c) \/ \E p \in Promos \cup {NoPromo} : RefusePromo(c, p)
      PROVE  UnitsInv'
  <2>1. /\ read' = [read EXCEPT ![c] = NoCart] /\ held' = [held EXCEPT ![c] = {}]
        /\ order' = order /\ cart' = cart /\ added' = added
    BY <1>5 DEF RollBack, RefusePromo, Over
  <2>2. /\ \A d \in Calls : held'[d] \subseteq held[d]
        /\ \A d \in Calls : held'[d] # {} => read'[d] = read[d]
    BY <2>1 DEF TypeOK
  <2>3. \A s \in Skus : added[s] <= added'[s] /\ cart'[s] - cart[s] <= added'[s] - added[s]
    BY <1>0, <2>1
  <2>4. \A d \in Calls : \A s \in held'[d] : cart'[s] > 0
    BY <2>1, <2>2 DEF UnitsInv
  <2> QED
    BY <1>1, <2>1, <2>2, <2>3, <2>4
<1>6. ASSUME NEW c \in Calls, Commit(c)
      PROVE  UnitsInv'
  <2>1. ASSUME NEW s \in Skus
        PROVE  /\ s \in held[c] => /\ cart'[s] = 0
                                   /\ Ordered(s)' <= added'[s]
               /\ s \notin held[c] => /\ cart'[s] = cart[s]
                                      /\ Ordered(s)' <= Ordered(s)
               /\ Ordered(s)' \in Nat /\ added'[s] = added[s]
    <3>1. Ordered(s)' <= Ordered(s) + read[c].lines[s]
      BY <1>6, Committed, OrderedGrows
    <3>2. Ordered(s)' \in Nat
      BY OrderedTypedNext DEF OrderedAreUnits
    <3>3. s \notin held[c] => read[c].lines[s] = 0
      BY <1>0, <1>6, Committed DEF Lines
    <3>4. s \in held[c] => read[c].lines[s] + Ordered(s) <= added[s]
      BY DEF UnitsInv
    <3> QED
      BY <1>0, <1>6, <3>1, <3>2, <3>3, <3>4, Committed
  <2>2. \A s \in Skus : cart'[s] + Ordered(s)' <= added'[s]
    BY <1>0, <2>1 DEF UnitsInv, NoUnitOrderedTwice
  <2>3. ASSUME NEW d \in Calls, NEW s \in held'[d]
        PROVE  cart'[s] > 0 /\ read'[d].lines[s] + Ordered(s)' <= added'[s]
    <3>1. s \in held[d] /\ s \notin held[c] /\ s \in Skus
      BY <1>0, <1>6, <2>3, Committed
    <3>2. read'[d] = read[d]
      BY <1>6, <3>1, Committed
    <3>3. cart[s] > 0 /\ read[d].lines[s] + Ordered(s) <= added[s]
      BY <3>1 DEF UnitsInv
    <3> QED
      BY <1>0, <2>1, <3>1, <3>2, <3>3
  <2> QED
    BY <2>2, <2>3 DEF UnitsInv, NoUnitOrderedTwice
<1>7. ASSUME UNCHANGED <<cartVars, read, order>>
      PROVE  UnitsInv'
  <2>1. \A s \in Skus : added[s] <= added'[s] /\ cart'[s] - cart[s] <= added'[s] - added[s]
    BY <1>0, <1>7 DEF cartVars
  <2> QED
    BY <1>1, <1>7, <2>1 DEF cartVars, UnitsInv
<1>8. ASSUME NEW c \in Calls, NEW p \in Promos \cup {NoPromo}, EvaluatePromo(c, p)
      PROVE  UnitsInv'
  BY <1>7, <1>8 DEF EvaluatePromo
<1>9. CASE ManagerStep \/ UNCHANGED vars
  BY <1>7, <1>9 DEF ManagerStep, SetPrice, ChangePromo, callVars, vars
<1>10. ASSUME CartStep
       PROVE  UnitsInv'
  <2>1. ASSUME NEW s \in Skus, RemoveItem(s)
        PROVE  UnitsInv'
    <3>1. {s} \in SUBSET Skus
      OBVIOUS
    <3> QED
      BY <1>3, <2>1, <3>1 DEF RemoveItem
  <2>2. ASSUME Clear
        PROVE  UnitsInv'
    BY <1>3, <2>2 DEF Clear
  <2> QED
    BY <1>2, <1>10, <2>1, <2>2 DEF CartStep
<1> QED
  BY <1>4, <1>5, <1>6, <1>8, <1>9, <1>10 DEF Next, CallStep

(***************************************************************************)
(* The amounts. A call that has worked out its discount bounded it by the  *)
(* subtotal of the very cart it will write, whatever the manager has       *)
(* changed since.                                                          *)
(***************************************************************************)
AmountsOf(c) ==
  /\ read[c].prices \in [Skus -> Nat]
  /\ call[c] = "priced" => offer[c].discount \in 0..Subtotal(read[c])
  /\ offer[c].promo = NoPromo => offer[c].discount = 0

AddsUp(o) ==
  /\ o.subtotal = Subtotal(o)
  /\ o.discount \in 0..o.subtotal
  /\ o.total = o.subtotal - o.discount
  /\ o.promo = NoPromo => o.discount = 0

AmountsInv == \A c \in Calls : AmountsOf(c) /\ AddsUp(order[c])

LEMMA SubtotalTyped ==
  ASSUME NEW c, c.lines \in Quantities, c.prices \in [Skus -> Nat]
  PROVE  Subtotal(c) \in Nat
<1> DEFINE its == [s \in Skus |-> [cents |-> c.prices[s] * c.lines[s]]]
<1>1. IsFiniteSet(Lines(c.lines)) /\ Lines(c.lines) \subseteq Skus
  BY InventoryAssumption, FS_Subset DEF Lines
<1>2. ASSUME NEW s \in Lines(c.lines)
      PROVE  its[s]["cents"] \in Nat
  <2>1. s \in Skus /\ c.prices[s] \in Nat /\ c.lines[s] \in Nat
    BY <1>1, InventoryAssumption DEF Quantities
  <2>2. \A a, b \in Nat : a * b \in Nat
    OBVIOUS
  <2>3. its[s]["cents"] = c.prices[s] * c.lines[s]
    BY <2>1
  <2> QED
    BY <2>1, <2>2, <2>3
<1> HIDE DEF its
<1>3. InUnits(Lines(c.lines), its, "cents") \in Nat
  BY <1>1, <1>2, UnitsAreFinite
<1> QED
  BY <1>3 DEF Subtotal, its

LEMMA SubtotalOf ==
  ASSUME NEW a, NEW b, a.lines = b.lines, a.prices = b.prices
  PROVE  Subtotal(a) = Subtotal(b)
BY DEF Subtotal

\* A row that was never written owes nothing.
LEMMA NothingOwed == Subtotal(NoOrder) = 0
<1> DEFINE its == [s \in Skus |-> [cents |-> NoOrder.prices[s] * NoOrder.lines[s]]]
<1>1. Lines(NoOrder.lines) = {}
  BY DEF NoOrder, NoLines, Lines
<1>2. Units({}, its, "cents") = {}
  BY DEF Units
<1>3. Subtotal(NoOrder) = Cardinality(Units({}, its, "cents"))
  BY <1>1 DEF Subtotal, InUnits
<1> QED
  BY <1>2, <1>3, FS_EmptySet

LEMMA AmountsInit == Init => AmountsInv
<1> SUFFICES ASSUME Init, NEW c \in Calls
             PROVE  AmountsOf(c) /\ AddsUp(order[c])
  BY DEF AmountsInv
<1>1. /\ call[c] = "idle" /\ read[c] = NoCart /\ offer[c] = NoOffer /\ order[c] = NoOrder
  BY DEF Init
<1>2. AmountsOf(c)
  BY <1>1 DEF AmountsOf, NoCart, NoOffer, NoLines
<1>3. /\ NoOrder.subtotal = 0 /\ NoOrder.discount = 0 /\ NoOrder.total = 0
  BY DEF NoOrder
<1>4. AddsUp(NoOrder)
  BY <1>3, NothingOwed DEF AddsUp
<1> QED
  BY <1>1, <1>2, <1>4

LEMMA AmountsNext ==
  ASSUME TypeOK, AmountsInv, [Next]_vars
  PROVE  AmountsInv'
<1>0. /\ call \in [Calls -> {"idle", "read", "priced", "over"}]
      /\ DOMAIN read = Calls /\ DOMAIN offer = Calls /\ DOMAIN order = Calls
      /\ \A c \in Calls : read[c].lines \in Quantities
  BY DEF TypeOK
<1>1. ASSUME UNCHANGED callVars
      PROVE  AmountsInv'
  BY <1>1 DEF callVars, AmountsInv, AmountsOf, Subtotal
<1>2. ASSUME NEW c \in Calls, Over(c)
      PROVE  \A d \in Calls : AmountsOf(d)'
  <2>1. ASSUME NEW d \in Calls, d # c
        PROVE  AmountsOf(d)'
    BY <1>0, <1>2, <2>1 DEF Over, AmountsInv, AmountsOf, Subtotal
  <2>2. read'[c] = NoCart /\ offer'[c] = NoOffer /\ call'[c] = "over"
    BY <1>0, <1>2 DEF Over
  <2>3. AmountsOf(c)'
    BY <2>2 DEF AmountsOf, NoCart, NoOffer, NoLines
  <2> QED
    BY <2>1, <2>3
<1>3. ASSUME NEW c \in Calls, ReadCart(c)
      PROVE  AmountsInv'
  <2> DEFINE seen == [s \in Skus |-> IF cart[s] > 0 THEN price[s] ELSE 0]
  <2>1. seen \in [Skus -> Nat]
    BY CheckoutAssumption DEF TypeOK
  <2>2. /\ read' = [read EXCEPT ![c] = [lines |-> cart, prices |-> seen]]
        /\ call' = [call EXCEPT ![c] = "read"] /\ offer' = offer /\ order' = order
    BY <1>3 DEF ReadCart
  <2> HIDE DEF seen
  <2>3. ASSUME NEW d \in Calls, d # c
        PROVE  AmountsOf(d)'
    BY <1>0, <2>2, <2>3 DEF AmountsInv, AmountsOf, Subtotal
  <2>4. /\ read'[c].prices = seen /\ call'[c] = "read" /\ offer'[c] = offer[c]
    BY <1>0, <2>2
  <2>5. AmountsOf(c)'
    BY <2>1, <2>4 DEF AmountsInv, AmountsOf
  <2> QED
    BY <2>2, <2>3, <2>5 DEF AmountsInv
<1>4. ASSUME NEW c \in Calls, NEW p \in Promos \cup {NoPromo}, EvaluatePromo(c, p)
      PROVE  AmountsInv'
  <2> DEFINE subtotal == Subtotal(read[c])
             discount == IF p \in Promos THEN Discount(terms[p], subtotal) ELSE 0
  <2>1. subtotal \in Nat
    BY <1>0, SubtotalTyped DEF AmountsInv, AmountsOf
  <2>2. discount \in 0..subtotal
    <3>1. CASE p \in Promos
      <4>1. terms[p] \in ValidTerms
        BY <3>1, CheckoutAssumption DEF TypeOK
      <4> HIDE DEF subtotal
      <4>2. Discount(terms[p], subtotal) \in 0..subtotal
        BY <2>1, <4>1, DiscountIsBounded
      <4> QED
        BY <3>1, <4>2
    <3>2. CASE p \notin Promos
      BY <2>1, <3>2
    <3> QED
      BY <3>1, <3>2
  <2>3. p = NoPromo => discount = 0
    BY PromotionsAssumption
  <2>4. /\ offer' = [offer EXCEPT ![c] = [promo |-> p, discount |-> discount]]
        /\ call' = [call EXCEPT ![c] = "priced"] /\ read' = read /\ order' = order
    BY <1>4 DEF EvaluatePromo
  <2> HIDE DEF discount
  <2>5. ASSUME NEW d \in Calls, d # c
        PROVE  AmountsOf(d)'
    BY <1>0, <2>4, <2>5 DEF AmountsInv, AmountsOf, Subtotal
  <2>6. offer'[c].promo = p /\ offer'[c].discount = discount /\ read'[c] = read[c]
    BY <1>0, <2>4
  <2>7. Subtotal(read[c])' = subtotal
    BY <2>6 DEF Subtotal
  <2>8. AmountsOf(c)'
    BY <2>2, <2>3, <2>6, <2>7 DEF AmountsInv, AmountsOf
  <2> QED
    BY <2>4, <2>5, <2>8 DEF AmountsInv
<1>5. ASSUME NEW c \in Calls,
             RollBack(c) \/ \E p \in Promos \cup {NoPromo} : RefusePromo(c, p)
      PROVE  AmountsInv'
  <2>1. Over(c) /\ order' = order
    BY <1>5 DEF RollBack, RefusePromo
  <2> QED
    BY <1>2, <2>1 DEF AmountsInv
<1>6. ASSUME NEW c \in Calls, Commit(c)
      PROVE  AmountsInv'
  <2> DEFINE row == [lines    |-> read[c].lines,
                     prices   |-> read[c].prices,
                     promo    |-> offer[c].promo,
                     subtotal |-> Subtotal(read[c]),
                     discount |-> offer[c].discount,
                     total    |-> Subtotal(read[c]) - offer[c].discount]
  <2>1. order' = [order EXCEPT ![c] = row] /\ Over(c) /\ call[c] = "priced"
    BY <1>6 DEF Commit
  <2>2. Subtotal(row) = Subtotal(read[c])
    BY SubtotalOf
  <2>3. AmountsOf(c)
    BY DEF AmountsInv
  <2>4. AddsUp(row)
    BY <2>1, <2>2, <2>3 DEF AddsUp, AmountsOf
  <2> HIDE DEF row
  <2>5. \A d \in Calls : AddsUp(order'[d])
    BY <1>0, <2>1, <2>4 DEF AmountsInv
  <2>6. \A d \in Calls : AmountsOf(d)'
    BY <1>2, <2>1
  <2>7. \A d \in Calls : AddsUp(order[d])'
    BY <2>5 DEF AddsUp, Subtotal
  <2> QED
    BY <2>6, <2>7 DEF AmountsInv
<1>7. CASE CartStep \/ ManagerStep \/ UNCHANGED vars
  <2>1. UNCHANGED callVars
    BY <1>7 DEF CartStep, ManagerStep, AddItem, UpdateItem, RemoveItem, Clear, SetPrice,
                ChangePromo, vars
  <2> QED
    BY <1>1, <2>1
<1> QED
  BY <1>3, <1>4, <1>5, <1>6, <1>7 DEF Next, CallStep

CheckoutInv == TypeOK /\ UnitsInv /\ AmountsInv

LEMMA CheckoutInductive == Spec => []CheckoutInv
<1>1. Init => CheckoutInv
  BY TypeInit, UnitsInit, AmountsInit DEF CheckoutInv
<1>2. CheckoutInv /\ [Next]_vars => CheckoutInv'
  BY TypeNext, UnitsNext, AmountsNext DEF CheckoutInv
<1> QED
  BY <1>1, <1>2, PTL DEF Spec

(***************************************************************************)
(* What it gives.                                                          *)
(***************************************************************************)

\* Every reachable state is well typed, skus_stock_check included; a call
\* holds only rows it read.
THEOREM CheckoutIsTyped == Spec => []TypeOK
<1>1. CheckoutInv => TypeOK
  BY DEF CheckoutInv
<1> QED
  BY <1>1, CheckoutInductive, PTL

\* A unit put in the cart once is never ordered twice, for any number of
\* calls of createOrder and whatever is edited in between.
THEOREM UnitsAreOrderedOnce == Spec => []NoUnitOrderedTwice
<1>1. CheckoutInv => NoUnitOrderedTwice
  BY DEF CheckoutInv, UnitsInv
<1> QED
  BY <1>1, CheckoutInductive, PTL

\* Every order adds up for the buyer, for any prices and terms and however
\* they change between the reads of a call: the total is the subtotal of the
\* order's own lines less a discount between nothing and that subtotal.
THEOREM AmountsAddUp == Spec => []OrderAddsUp
<1>1. CheckoutInv => OrderAddsUp
  BY DEF CheckoutInv, AmountsInv, AddsUp, OrderAddsUp
<1> QED
  BY <1>1, CheckoutInductive, PTL

\* An order takes whole rows that stood in the cart since they were read.
THEOREM OrdersTakeStandingRows == Spec => OrdersStandingRows
<1>1. ASSUME CheckoutInv, [Next]_vars, NEW c \in Calls, order'[c] # order[c]
      PROVE  /\ \A s \in Lines(order'[c].lines) : cart[s] > 0 /\ cart'[s] = 0
             /\ \A d \in Calls : held'[d] \cap Lines(order'[c].lines) = {}
  <2>1. TypeOK /\ UnitsInv
    BY <1>1 DEF CheckoutInv
  <2>2. PICK d \in Calls : Commit(d)
    BY <1>1 DEF Next, CartStep, ManagerStep, CallStep, AddItem, UpdateItem, RemoveItem, Clear,
                ReadCart, EvaluatePromo, RefusePromo, RollBack, SetPrice, ChangePromo, callVars,
                vars
  <2>3. d = c
    BY <1>1, <2>1, <2>2, Committed
  <2>4. Lines(order'[c].lines) = held[c] /\ held[c] \subseteq Skus
    BY <2>1, <2>2, <2>3, Committed DEF TypeOK
  <2> QED
    BY <2>1, <2>2, <2>3, <2>4, Committed DEF UnitsInv
<1>2. CheckoutInv /\ [Next]_vars => [TakesStandingRows]_vars
  BY <1>1 DEF TakesStandingRows
<1> QED
  BY <1>2, CheckoutInductive, PTL DEF Spec, OrdersStandingRows
=============================================================================
