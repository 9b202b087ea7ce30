---------------------------- MODULE MCStorefront ----------------------------
(***************************************************************************)
(* A small store for TLC. The calls of a behaviour come from one scope,    *)
(* a group of operations that work on the same tables.                     *)
(***************************************************************************)
EXTENDS Storefront

CONSTANTS boss, ann, bob, c1, c2, c3

Staff == [u \in Users |-> IF u = boss THEN "manager" ELSE "client"]
TwoTerms == {[type |-> "fixed", value |-> 1, min |-> 0], [type |-> "percentage", value |-> 50, min |-> 2]}

Scopes == [
  categories |-> {"createCategory", "updateCategory", "deleteCategory", "getCategory",
                  "listCategories", "createProduct", "updateProduct", "deleteProduct"},
  listings   |-> {"listProducts", "getProduct", "updateProduct", "deleteProduct"},
  skus       |-> {"createSku", "updateSku", "deleteSku", "deleteProduct"},
  carts      |-> {"getCart", "addItem", "updateItem", "removeItem", "clearCart", "deleteSku"},
  likes      |-> {"like", "unlike", "listLikedProducts", "updateProduct", "deleteProduct"},
  promos     |-> {"createPromo", "getPromo", "updatePromo", "validatePromo", "listPromos"},
  images     |-> {"uploadImage", "updateImage", "deleteImage", "deleteProduct"},
  links      |-> {"checkout"}]

\* One of the three filters, or the second page.
FewQueries ==
  {q \in ProductQueries :
     LET filter == <<q.status, q.category, q.maxPrice, q.offset>>
     IN filter \in {<<"any", 0, 0, 0>>, <<"active", 0, 0, 0>>, <<"disabled", 0, 0, 0>>,
                    <<"any", 1, 0, 0>>, <<"any", 0, 1, 0>>, <<"any", 0, 0, 1>>}}

LikesNothing  == [p \in Products |-> 0]
LikesTheFirst == [p \in Products |-> IF p = 1 THEN 1 ELSE 0]

\* Two listings do not meet; the third call is for the smallest scope.
MCInit(scope) ==
  /\ \E d \in {c1, c2} : menu = [c \in Calls |->
       CASE c = c3 -> IF scope = "links" THEN Scopes[scope] ELSE {}
         [] c = d  -> Scopes[scope]
         [] OTHER  -> Scopes[scope] \ {"listProducts"}]
  /\ category = [g \in Categories |-> IF g = 1 THEN [state |-> "live", name |-> 2] ELSE
                                      IF g = 2 THEN [state |-> "live", name |-> 1] ELSE NoCategory]
  /\ product \in [Products -> {NoProduct} \cup
       [state : {"active", "disabled", "deleted"}, category : {1}]]
  /\ product[1].state = "active"
  /\ product[2] = NoProduct <=> scope = "categories"
  /\ product[3] = IF scope = "listings" THEN product[1] ELSE NoProduct
  /\ product[2].state = "deleted" => scope \in {"categories", "listings", "likes"}
  /\ product[2].state = "disabled" => scope \in {"listings", "likes"}
  /\ sku = [s \in Skus |->
       IF s = 1 \/ (s = 2 /\ scope = "listings")
       THEN [state |-> "live", product |-> s, code |-> s, variant |-> s, price |-> s] ELSE NoSku]
  /\ hasCart \in {{}, {bob}}
  /\ item = [i \in Items |-> IF i = 1 /\ bob \in hasCart
                             THEN [state |-> "live", user |-> bob, sku |-> 1, quantity |-> 1]
                             ELSE NoItem]
  /\ hasCart = {bob} \/ scope \in {"carts", "promos"}
  /\ likes \in [Users -> {LikesNothing, LikesTheFirst}]
  /\ likes[boss] = LikesNothing /\ likes[bob] = LikesTheFirst
  /\ likes[ann] = LikesNothing \/ scope = "likes"
  /\ promo = [p \in Promos |-> IF p = 1 THEN
       [state |-> "live", code |-> [letters |-> 1, upper |-> TRUE],
        terms |-> [type |-> "fixed", value |-> 1, min |-> 0],
        active |-> TRUE, expired |-> FALSE, limit |-> 1, redeemed |-> 1] ELSE NoPromo]
  /\ image = [i \in Images |-> IF i <= 2 THEN [state |-> "live", product |-> 1, position |-> i - 1]
                               ELSE NoImage]
  /\ link = [l \in Links |-> NoLink]
  /\ StoreInit

MCSpec == (\E scope \in DOMAIN Scopes : MCInit(scope)) /\ [][StoreNext]_storeVars

MCSymmetry == Permutations({c1, c2})
=============================================================================
