------------------------------ MODULE Shopping ------------------------------
(***************************************************************************)
(* What a client does with the catalogue: the cart, the likes, the promo   *)
(* codes; and the lists that are read in two queries at once. The calls    *)
(* are those of Catalog. What createOrder does to a cart is in Checkout.   *)
(***************************************************************************)
EXTENDS Catalog, PromoTerms

CONSTANTS
  Items, Promos,  \* row ids
  Letters,        \* promo codes, but for the case they are typed in
  Terms, Limits   \* what a manager gives a promo code

ASSUME ShoppingAssumption ==
  /\ Items \cup Promos \cup Limits \subseteq Nat \ {0}
  /\ IsFiniteSet(Promos)
  /\ Terms \subseteq ValidTerms

VARIABLES
  hasCart,  \* users with a row of carts
  item,     \* cart_items; the row names the owner of its cart
  likes,    \* createdAt of each user's like of a product, 0 if there is none
  promo     \* promo_codes

shopTables == <<hasCart, item, likes, promo>>

NoItem == [state |-> Unused, user |-> Visitor, sku |-> 0, quantity |-> 0]
NoPromo == [state |-> Unused]
ItemRows ==
  {NoItem} \cup [state : {"live", Gone}, user : Users, sku : Skus, quantity : 1 .. MaxInt]

Look(c, r)  == Query(c, r) /\ UNCHANGED shopTables
Touch(c, r) == Stales(c, r) /\ UNCHANGED tables  \* the caller writes a shop table

(***************************************************************************)
(* CartService.                                                            *)
(***************************************************************************)
Rows(u) == {i \in Items : item[i].state = "live" /\ item[i].user = u}
Subtotal(u) == MapThenSumSet(LAMBDA i : sku[item[i].sku].price * item[i].quantity, Rows(u))

\* The call has read its cart, and goes on.
WithCart(r) ==
  CASE r.op = "getCart"   -> Ends(r, "ok")
    [] r.op = "addItem"   -> Goes(r, "sku")
    [] r.op = "clearCart" -> Goes(r, "clear")
    [] r.op = "validatePromo" /\ Rows(r.by) = {} -> Ends(r, "cart-empty")
    [] r.op = "validatePromo" /\ Rows(r.by) # {} ->
         [Goes(r, "evaluate") EXCEPT !.total = Subtotal(r.by)]

findOrCreateCart(c, r) ==
  Look(c, IF r.by \in hasCart THEN WithCart(r) ELSE Goes(r, "createCart"))

\* Mutant of createCart: P2002 is not caught.
CreateCartOrFail(c) ==
  LET r == call[c]
  IN /\ r.pc = "createCart"
     /\ IF r.by \in hasCart
        THEN Look(c, Fails(r))
        ELSE /\ hasCart' = hasCart \cup {r.by}
             /\ UNCHANGED <<item, likes, promo>>
             /\ Touch(c, WithCart(r))

createCart(c) ==
  LET r == call[c]
  IN /\ r.pc = "createCart"
     /\ IF r.by \in hasCart
        THEN Look(c, Goes(r, "readWinner"))  \* P2002: another request created it
        ELSE /\ hasCart' = hasCart \cup {r.by}
             /\ UNCHANGED <<item, likes, promo>>
             /\ Touch(c, WithCart(r))

readWinner(c) ==
  /\ call[c].pc = "readWinner"
  /\ Look(c, IF call[c].by \in hasCart THEN WithCart(call[c]) ELSE Fails(call[c]))

getOrCreate(c) ==
  /\ Asked(c, "getCart")
  /\ \E u \in Callers(CartController.getCart) : findOrCreateCart(c, Request(u, "getCart", <<>>))

\* MaxInt + 1 stands for every quantity that is too large.
addItem(c) ==
  /\ Asked(c, "addItem")
  /\ \E u \in Callers(CartController.addItem), s \in Skus, n \in 1 .. MaxInt + 1 :
       findOrCreateCart(c, Request(u, "addItem", [sku |-> s, quantity |-> n]))

assertSkuIsPurchasable(c) ==
  /\ At(c, "addItem", "sku")
  /\ Look(c, IF SkuIsActive(call[c].arg.sku) THEN Goes(call[c], "upsert")
                                             ELSE NotFound(call[c]))

WriteItem(c, r, i, row) ==
  /\ item' = [item EXCEPT ![i] = row]
  /\ UNCHANGED <<hasCart, likes, promo>>
  /\ Touch(c, r)

\* INSERT ... ON CONFLICT (cart_id, sku_id). The cart is then read once more.
upsertItem(c) ==
  LET r == call[c]
      same == {i \in Rows(r.by) : item[i].sku = r.arg.sku}
      unused == {i \in Items : item[i].state = Unused}
  IN /\ At(c, "addItem", "upsert")
     /\ \/ \E i \in same :
             LET sum == item[i].quantity + r.arg.quantity
             IN IF sum > MaxInt THEN Look(c, Refused(r))
                ELSE WriteItem(c, Ends(r, "ok"), i, [item[i] EXCEPT !.quantity = sum])
        \/ same = {} /\ r.arg.quantity > MaxInt /\ Look(c, Refused(r))
        \/ /\ same = {} /\ unused # {} /\ r.arg.quantity <= MaxInt
           /\ WriteItem(c, Ends(r, "ok"), Min(unused),
                [state |-> "live", user |-> r.by, sku |-> r.arg.sku,
                 quantity |-> r.arg.quantity])

getOwnCartItemOrThrow(r, i, pc) ==
  IF item[i].state = "live" /\ item[i].user = r.by THEN Goes(r, pc) ELSE NotFound(r)

updateItem(c) ==
  /\ Asked(c, "updateItem")
  /\ \E u \in Callers(CartController.updateItem), i \in Items, n \in 1 .. MaxInt + 1 :
       Look(c, getOwnCartItemOrThrow(Request(u, "updateItem", [id |-> i, quantity |-> n]),
                                     i, "write"))

removeItem(c) ==
  /\ Asked(c, "removeItem")
  /\ \E u \in Callers(CartController.removeItem), i \in Items :
       Look(c, getOwnCartItemOrThrow(Request(u, "removeItem", [id |-> i]), i, "write"))

\* P2025: the row went meanwhile. A number too large is refused before.
writeItem(c) ==
  LET r == call[c]
      i == r.arg.id
      row == IF r.op = "updateItem" THEN [item[i] EXCEPT !.quantity = r.arg.quantity]
                                    ELSE [item[i] EXCEPT !.state = Gone]
  IN /\ r.op \in {"updateItem", "removeItem"} /\ r.pc = "write"
     /\ IF r.op = "updateItem" /\ r.arg.quantity > MaxInt THEN Look(c, Refused(r))
        ELSE IF item[i].state = "live" THEN WriteItem(c, Ends(r, "ok"), i, row)
        ELSE Look(c, NotFound(r))

clear(c) ==
  /\ Asked(c, "clearCart")
  /\ \E u \in Callers(CartController.clearCart) :
       findOrCreateCart(c, Request(u, "clearCart", <<>>))

deleteItems(c) ==
  /\ At(c, "clearCart", "clear")
  /\ item' = [i \in Items |-> IF i \in Rows(call[c].by) THEN [item[i] EXCEPT !.state = Gone]
                                                        ELSE item[i]]
  /\ UNCHANGED <<hasCart, likes, promo>>
  /\ Touch(c, Ends(call[c], "ok"))

(***************************************************************************)
(* LikesService.                                                           *)
(***************************************************************************)
assertProductExists(r, p, pc) == IF ProductExists(p) THEN Goes(r, pc) ELSE NotFound(r)
assertProductLikeable(r, p, pc) ==
  IF product[p].state = "active" THEN Goes(r, pc) ELSE NotFound(r)

like(c) ==
  /\ Asked(c, "like")
  /\ \E u \in Callers(LikesController.like), p \in Products :
       Look(c, assertProductLikeable(Request(u, "like", [id |-> p]), p, "write"))

unlike(c) ==
  /\ Asked(c, "unlike")
  /\ \E u \in Callers(LikesController.unlike), p \in Products :
       Look(c, assertProductExists(Request(u, "unlike", [id |-> p]), p, "write"))

Now(u) == Max({likes[u][p] : p \in Products} \cup {0}) + 1  \* later than the user's likes

writeLike(c) ==
  LET r == call[c]
  IN /\ r.op \in {"like", "unlike"} /\ r.pc = "write"
     /\ likes' = [likes EXCEPT ![r.by][r.arg.id] =
          CASE r.op = "unlike" -> 0
            [] r.op = "like" /\ @ # 0 -> @
            [] OTHER -> Now(r.by)]
     /\ UNCHANGED <<hasCart, item, promo>>
     /\ Touch(c, Ends(r, "ok"))

(***************************************************************************)
(* PromosService. A code is typed in any case and stored in upper case.    *)
(***************************************************************************)
Typed == [letters : Letters, upper : BOOLEAN]
PromoRows ==
  {NoPromo} \cup [state : {"live"}, code : Typed, terms : Terms, active : BOOLEAN,
                  expired : BOOLEAN, limit : Limits, redeemed : Nat]
toUpperCase(code) == [code EXCEPT !.upper = TRUE]
WithCode(code) == {p \in Promos : promo[p].state = "live" /\ promo[p].code = code}

WritePromo(c, r, p, row) ==
  /\ promo' = [promo EXCEPT ![p] = row]
  /\ UNCHANGED <<hasCart, item, likes>>
  /\ Touch(c, r)

\* Mutant of createPromo: the code is stored as it was typed.
CreatePromoAsTyped(c) ==
  /\ Asked(c, "createPromo")
  /\ \E u \in Callers(PromosController.create), typed \in Typed, terms \in Terms,
        limit \in Limits, expired \in BOOLEAN :
       LET r == Request(u, "createPromo", [code |-> typed])
           unused == {p \in Promos : promo[p].state = Unused}
       IN /\ unused # {} /\ WithCode(typed) = {}
          /\ WritePromo(c, Ends(r, "ok"), Min(unused),
               [state |-> "live", code |-> typed, terms |-> terms, active |-> TRUE,
                expired |-> expired, limit |-> limit, redeemed |-> 0])

createPromo(c) ==
  /\ Asked(c, "createPromo")
  /\ \E u \in Callers(PromosController.create), typed \in Typed, terms \in Terms,
        limit \in Limits, expired \in BOOLEAN :
       LET code == toUpperCase(typed)
           r == Request(u, "createPromo", [code |-> typed])
           unused == {p \in Promos : promo[p].state = Unused}
       IN \/ /\ unused # {}
             /\ IF WithCode(code) # {} THEN Look(c, Ends(r, "promo-code-taken"))
                ELSE WritePromo(c, Ends(r, "ok"), Min(unused),
                       [state |-> "live", code |-> code, terms |-> terms, active |-> TRUE,
                        expired |-> expired, limit |-> limit, redeemed |-> 0])
          \/ Look(c, Refused(r))

getEntityOrThrow(r, p, then) == IF promo[p].state = "live" THEN then ELSE NotFound(r)

getPromo(c) ==
  /\ Asked(c, "getPromo")
  /\ \E u \in Callers(PromosController.getById), p \in Promos :
       LET r == Request(u, "getPromo", [id |-> p])
       IN Look(c, getEntityOrThrow(r, p, Ends(r, "ok")))

updatePromo(c) ==
  /\ Asked(c, "updatePromo")
  /\ \E u \in Callers(PromosController.update), p \in Promos, terms \in Terms,
        limit \in Limits, active, expired \in BOOLEAN :
       LET r == Request(u, "updatePromo", [id |-> p, terms |-> terms, limit |-> limit,
                                           active |-> active, expired |-> expired])
       IN Look(c, getEntityOrThrow(r, p, Goes(r, "write")))

savePromo(c) ==
  LET r == call[c]
  IN /\ At(c, "updatePromo", "write")
     /\ WritePromo(c, Ends(r, "ok"), r.arg.id,
          [promo[r.arg.id] EXCEPT !.terms = r.arg.terms, !.limit = r.arg.limit,
                                  !.active = r.arg.active, !.expired = r.arg.expired])

evaluatePromoCode(found, subtotal) ==
  CASE \A p \in found : ~promo[p].active -> "invalid"
    [] \E p \in found : promo[p].active /\ promo[p].expired -> "expired"
    [] \E p \in found : promo[p].active /\ ~promo[p].expired
                        /\ promo[p].redeemed >= promo[p].limit -> "exhausted"
    [] \E p \in found : promo[p].active /\ ~promo[p].expired
                        /\ promo[p].redeemed < promo[p].limit
                        /\ ~MeetsMinimum(promo[p].terms, subtotal) -> "minimum-not-met"
    [] OTHER -> "valid"

validate(c) ==
  /\ Asked(c, "validatePromo")
  /\ \E u \in Callers(PromosController.validate), typed \in Typed :
       findOrCreateCart(c, Request(u, "validatePromo", [code |-> typed]))

\* The total after the discount stays in the record of the call.
evaluate(c) ==
  LET r == call[c]
      found == WithCode(toUpperCase(r.arg.code))
      reason == evaluatePromoCode(found, r.total)
      off == IF reason = "valid"
             THEN Discount(promo[CHOOSE p \in found : TRUE].terms, r.total) ELSE 0
  IN /\ At(c, "validatePromo", "evaluate")
     /\ Look(c, [Ends(r, reason) EXCEPT !.total = @ - off])

(***************************************************************************)
(* Lists read by two queries at once, the page and the count, which        *)
(* Promise.all runs in either order: categories, liked products, promos.   *)
(***************************************************************************)
ListRequests ==
  LET offsets == {k * PageSize : k \in 0 .. 1}
      at == [offset : offsets]
      filtered == [offset : offsets, isActive : {"any", "yes", "no"},
                   includeExpired : BOOLEAN]
  IN {Request(u, "listCategories", a) : u \in Callers(CategoriesController.list), a \in at}
     \cup {Request(u, "listLikedProducts", a) :
             u \in Callers(LikesController.listLikedProducts), a \in at}
     \cup {Request(u, "listPromos", a) :
             u \in Callers(PromosController.list), a \in filtered}

\* The rows a list is about, in its order.
Listed(r) ==
  CASE r.op = "listCategories" ->
         LET rows == {g \in Categories : CategoryExists(g)}
         IN Ordered([g \in rows |-> {h \in rows : category[h].name < category[g].name}])
    [] r.op = "listLikedProducts" ->
         LET rows == {p \in Products : likes[r.by][p] # 0 /\ product[p].state = "active"}
         IN Ordered([p \in rows |-> {q \in rows : likes[r.by][q] > likes[r.by][p]}])
    [] r.op = "listPromos" ->
         LET rows == {p \in Promos : promo[p].state = "live"
                        /\ r.arg.isActive \in {"any", IF promo[p].active THEN "yes" ELSE "no"}
                        /\ (promo[p].expired => r.arg.includeExpired)}
         IN Ordered([p \in rows |-> {q \in rows : q > p}])

PageOf(r) == PageFrom(Listed(r), r.arg.offset)

listAndCount(c) ==
  \E r \in ListRequests :
    /\ Asked(c, r.op)
    /\ \/ Look(c, [Goes(r, "count") EXCEPT !.found = PageOf(r)])
       \/ Look(c, [Goes(r, "page") EXCEPT !.total = Len(Listed(r))])

otherHalf(c) ==
  LET r == call[c]
  IN /\ r.op \in {"listCategories", "listLikedProducts", "listPromos"}
     /\ \/ r.pc = "count" /\ Look(c, [Ends(r, "ok") EXCEPT !.total = Len(Listed(r))])
        \/ r.pc = "page"  /\ Look(c, [Ends(r, "ok") EXCEPT !.found = PageOf(r)])

ShoppingRequest(c) ==
  \/ getOrCreate(c) \/ addItem(c) \/ updateItem(c) \/ removeItem(c) \/ clear(c)
  \/ like(c) \/ unlike(c)
  \/ createPromo(c) \/ getPromo(c) \/ updatePromo(c) \/ validate(c)
  \/ listAndCount(c)

ShoppingStep(c) ==
  \/ ShoppingRequest(c)
  \/ createCart(c) \/ readWinner(c) \/ assertSkuIsPurchasable(c) \/ upsertItem(c)
  \/ writeItem(c) \/ deleteItems(c) \/ writeLike(c)
  \/ savePromo(c) \/ evaluate(c) \/ otherHalf(c)

ShoppingInit ==
  /\ hasCart \subseteq Users
  /\ item \in [Items -> ItemRows]
  /\ \A i \in Items : item[i] # NoItem => item[i].user \in hasCart /\ sku[item[i].sku] # NoSku
  /\ likes \in [Users -> [Products -> Nat]]
  /\ \A u \in Users : \A p, q \in Products :
       likes[u][p] = likes[u][q] => p = q \/ likes[u][p] = 0
  /\ promo \in [Promos -> PromoRows]
  /\ \A p \in Promos : promo[p].state = "live" =>
       promo[p].code.upper /\ WithCode(promo[p].code) = {p}
=============================================================================
