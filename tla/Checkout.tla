------------------------------ MODULE Checkout ------------------------------
(***************************************************************************)
(* From a cart to its orders: one user's cart_items, edited in one tab     *)
(* while calls of createOrder run in others and a manager changes prices   *)
(* and promo codes. createOrder reads the cart, then the promo code, and   *)
(* opens its transaction on what it read; these are three steps here. The  *)
(* transaction claims the rows it read by deleting them.                   *)
(*                                                                         *)
(* (cart_id, sku_id) is unique, so a row is known by its SKU until it is   *)
(* deleted; held[c] are the rows call c read that still exist, which tells *)
(* a row from a later one of the same SKU.                                 *)
(***************************************************************************)
EXTENDS Inventory, Promotions, PromoTerms, OrderUnits

CONSTANTS
  Calls,    \* calls of createOrder by the owner of the cart
  Prices,   \* prices of a SKU, in cents
  Terms,    \* terms a manager gives a promo code
  MaxAdded  \* bound: units of one SKU ever put in the cart

ASSUME CheckoutAssumption ==
  /\ IsFiniteSet(Calls)
  /\ Prices \subseteq Nat
  /\ Terms \subseteq ValidTerms
  /\ MaxAdded \in Nat

VARIABLES
  cart,   \* cart_items.quantity, 0 where there is no row
  price,  \* skus.price
  terms,  \* discount_type, discount_value, min_purchase_amount
  call,   \* where each call of createOrder stands
  read,   \* the cart each call read, with the prices of its lines
  held,   \* rows of that cart that still exist
  offer,  \* promo code and discount each call worked out
  order,  \* the order each call wrote
  added   \* history: units ever put in the cart

cartVars    == <<cart, held, added>>
callVars    == <<call, read, offer, order>>
managerVars == <<price, terms, promoVars>>
vars == <<cartVars, callVars, managerVars, inventoryVars>>

NoLines == [s \in Skus |-> 0]
NoCart  == [lines |-> NoLines, prices |-> NoLines]
NoOffer == [promo |-> NoPromo, discount |-> 0]
NoOrder == [lines |-> NoLines, prices |-> NoLines, promo |-> NoPromo,
            subtotal |-> 0, discount |-> 0, total |-> 0]

\* CartResponseDto.subtotal: the cents of the lines, counted as units are.
Subtotal(c) ==
  InUnits(Lines(c.lines), [s \in Skus |-> [cents |-> c.prices[s] * c.lines[s]]], "cents")

Init ==
  /\ InventoryInit /\ PromotionsInit
  /\ cart = NoLines /\ added = NoLines
  /\ price \in [Skus -> Prices]
  /\ terms \in [Promos -> Terms]
  /\ call = [c \in Calls |-> "idle"]
  /\ read = [c \in Calls |-> NoCart]
  /\ held = [c \in Calls |-> {}]
  /\ offer = [c \in Calls |-> NoOffer]
  /\ order = [c \in Calls |-> NoOrder]

-----------------------------------------------------------------------------
\* The cart.

Quantity(s, n) ==
  /\ cart' = [cart EXCEPT ![s] = n]
  /\ added' = [added EXCEPT ![s] = @ + (IF n > cart[s] THEN n - cart[s] ELSE 0)]
  /\ added'[s] <= MaxAdded

\* An upsert: a new row, or the quantity of the row incremented.
AddItem(s, n) ==
  /\ cart[s] + n <= MaxQty
  /\ Quantity(s, cart[s] + n)
  /\ UNCHANGED <<held, callVars, managerVars, inventoryVars>>

\* The quantity of an existing row is overwritten.
UpdateItem(s, n) ==
  /\ cart[s] > 0
  /\ Quantity(s, n)
  /\ UNCHANGED <<held, callVars, managerVars, inventoryVars>>

DropRows(S) ==
  /\ cart' = [s \in Skus |-> IF s \in S THEN 0 ELSE cart[s]]
  /\ held' = [c \in Calls |-> held[c] \ S]
  /\ UNCHANGED added

\* RemoveItem drops one row, Clear drops them all.
RemoveItem(s) ==
  /\ cart[s] > 0
  /\ DropRows({s})
  /\ UNCHANGED <<callVars, managerVars, inventoryVars>>

Clear ==
  /\ DropRows(Skus)
  /\ UNCHANGED <<callVars, managerVars, inventoryVars>>

-----------------------------------------------------------------------------
\* createOrder.

\* The call returns, and what it read is forgotten.
Over(c) ==
  /\ call' = [call EXCEPT ![c] = "over"]
  /\ read' = [read EXCEPT ![c] = NoCart]
  /\ offer' = [offer EXCEPT ![c] = NoOffer]

\* The cart with the prices of the moment; an empty one is refused, which
\* changes nothing.
ReadCart(c) ==
  /\ call[c] = "idle"
  /\ Lines(cart) # {}
  /\ call' = [call EXCEPT ![c] = "read"]
  /\ read' = [read EXCEPT ![c] =
       [lines |-> cart, prices |-> [s \in Skus |-> IF cart[s] > 0 THEN price[s] ELSE 0]]]
  /\ held' = [held EXCEPT ![c] = Lines(cart)]
  /\ UNCHANGED <<cart, added, offer, order, managerVars, inventoryVars>>

\* evaluatePromoCode on the promo code as it is now and the cart as it was.
Applies(c, p) ==
  p \in Promos => CanRedeem(p) /\ MeetsMinimum(terms[p], Subtotal(read[c]))

EvaluatePromo(c, p) ==
  /\ call[c] = "read"
  /\ Applies(c, p)
  /\ call' = [call EXCEPT ![c] = "priced"]
  /\ offer' = [offer EXCEPT ![c] = [promo |-> p, discount |->
       IF p \in Promos THEN Discount(terms[p], Subtotal(read[c])) ELSE 0]]
  /\ UNCHANGED <<read, order, cartVars, managerVars, inventoryVars>>

RefusePromo(c, p) ==
  /\ call[c] = "read"
  /\ ~Applies(c, p)
  /\ Over(c)
  /\ held' = [held EXCEPT ![c] = {}]
  /\ UNCHANGED <<cart, added, order, managerVars, inventoryVars>>

\* Mutant of ClaimsCart: any row left is enough.
ClaimsSomeRow(c) == held[c] # {}

\* deleteMany finds every row that was read. Their quantities are not
\* compared with what was read.
ClaimsCart(c) == held[c] = Lines(read[c].lines)

\* The transaction writes the order from what was read: claim, Reserve,
\* Redeem, INSERT.
Commit(c) ==
  /\ call[c] = "priced"
  /\ ClaimsCart(c)
  /\ DropRows(held[c])
  /\ Reserve(read[c].lines)
  /\ Redeem(offer[c].promo)
  /\ LET subtotal == Subtotal(read[c])
     IN  order' = [order EXCEPT ![c] =
           [lines    |-> read[c].lines,
            prices   |-> read[c].prices,
            promo    |-> offer[c].promo,
            subtotal |-> subtotal,
            discount |-> offer[c].discount,
            total    |-> subtotal - offer[c].discount]]
  /\ Over(c)
  /\ UNCHANGED <<price, terms>>

\* One of the three guards finds nothing to update: everything is rolled
\* back, the deleted rows included.
RollBack(c) ==
  /\ call[c] = "priced"
  /\ ~(ClaimsCart(c) /\ CanReserve(read[c].lines) /\ CanRedeem(offer[c].promo))
  /\ Over(c)
  /\ held' = [held EXCEPT ![c] = {}]
  /\ UNCHANGED <<cart, added, order, managerVars, inventoryVars>>

-----------------------------------------------------------------------------
\* The manager.

SetPrice(s, v) ==
  /\ price' = [price EXCEPT ![s] = v]
  /\ UNCHANGED <<terms, promoVars, cartVars, callVars, inventoryVars>>

ChangePromo(p, t, limit, live) ==
  /\ terms' = [terms EXCEPT ![p] = t]
  /\ UpdatePromo(p, limit, live)
  /\ UNCHANGED <<price, cartVars, callVars, inventoryVars>>

CallStep(c) ==
  \/ ReadCart(c)
  \/ \E p \in Promos \cup {NoPromo} : EvaluatePromo(c, p) \/ RefusePromo(c, p)
  \/ Commit(c) \/ RollBack(c)

CartStep ==
  \/ \E s \in Skus, n \in 1..MaxQty : AddItem(s, n) \/ UpdateItem(s, n)
  \/ \E s \in Skus : RemoveItem(s)
  \/ Clear

ManagerStep ==
  \/ \E s \in Skus, v \in Prices : SetPrice(s, v)
  \/ \E p \in Promos, t \in Terms, limit \in UsageLimits, live \in BOOLEAN :
       ChangePromo(p, t, limit, live)

Next == CartStep \/ ManagerStep \/ \E c \in Calls : CallStep(c)

Spec == Init /\ [][Next]_vars

-----------------------------------------------------------------------------
Ordered(s) == InUnits(Calls, [c \in Calls |-> order[c].lines], s)

TypeOK ==
  /\ InventoryTypeOK /\ PromotionsTypeOK
  /\ cart \in Quantities
  /\ price \in [Skus -> Prices]
  /\ terms \in [Promos -> Terms]
  /\ added \in [Skus -> 0..MaxAdded]
  /\ call \in [Calls -> {"idle", "read", "priced", "over"}]
  /\ held \in [Calls -> SUBSET Skus]
  /\ DOMAIN read = Calls /\ DOMAIN offer = Calls /\ DOMAIN order = Calls
  /\ \A c \in Calls :
       /\ read[c].lines \in Quantities
       /\ order[c].lines \in Quantities
       /\ held[c] \subseteq Lines(read[c].lines)
       /\ offer[c].promo \in Promos \cup {NoPromo}

\* Adding units to the cart once never orders them twice, however many calls
\* of createOrder read them before one of them commits, and whatever is
\* edited in between.
NoUnitOrderedTwice == \A s \in Skus : cart[s] + Ordered(s) <= added[s]

\* The amounts of an order add up for the buyer: the lines give the subtotal,
\* the discount stays between nothing and everything, and what is left is the
\* total. The lines, the prices and the terms were read at different moments.
OrderAddsUp ==
  \A c \in Calls : LET o == order[c] IN
    /\ o.subtotal = Subtotal(o)
    /\ o.discount \in 0..o.subtotal
    /\ o.total = o.subtotal - o.discount
    /\ o.promo = NoPromo => o.discount = 0

\* A step that writes an order takes each of its lines out of the cart, and
\* out of what other calls still hold.
TakesStandingRows ==
  \A c \in Calls : order'[c] # order[c] =>
    /\ \A s \in Lines(order'[c].lines) : cart[s] > 0 /\ cart'[s] = 0
    /\ \A d \in Calls : held'[d] \cap Lines(order'[c].lines) = {}

\* An order takes over whole rows that were in the cart throughout: a line
\* removed, or removed and put back, after the call read it is not ordered,
\* and no row of the order is left behind.
OrdersStandingRows == [][TakesStandingRows]_vars
=============================================================================
