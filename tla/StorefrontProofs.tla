-------------------------- MODULE StorefrontProofs --------------------------
(***************************************************************************)
(* Storefront, for any number of calls, rows and users: what the checks of *)
(* a call are still worth when its next query runs.                        *)
(***************************************************************************)
EXTENDS Storefront, FiniteSetTheorems, SequenceTheorems, WellFoundedInduction, TLAPS

(***************************************************************************)
(* Least and greatest numbers.                                             *)
(***************************************************************************)
LEMMA LeastExists ==
  ASSUME NEW S \in SUBSET Nat, S # {}
  PROVE  \E x \in S : \A y \in S : x <= y
<1>1. PICK x \in S : \A y \in S : ~(<<y, x>> \in OpToRel(<, Nat))
  BY NatLessThanWellFounded, WFMin
<1>2. \A y \in S : ~(y < x)
  BY <1>1 DEF OpToRel
<1>3. \A y \in S : x <= y
  BY <1>2
<1> QED
  BY <1>3

LEMMA MinIs ==
  ASSUME NEW S \in SUBSET Nat, S # {}
  PROVE  Min(S) \in S /\ \A y \in S : Min(S) <= y
<1>1. \E x \in S : \A y \in S : x =< y
  BY LeastExists
<1> QED
  BY <1>1 DEF Min

\* A finite set of integers has a greatest: a smallest one without would lose
\* a member and have one.
LEMMA GreatestExists ==
  ASSUME NEW S \in SUBSET Int, IsFiniteSet(S), S # {}
  PROVE  \E x \in S : \A y \in S : x >= y
<1> DEFINE Tops(T) == {x \in T : \A y \in T : x >= y}
           Bad(n) == \E T \in SUBSET Int :
                       IsFiniteSet(T) /\ T # {} /\ Cardinality(T) = n /\ Tops(T) = {}
           Sizes == {n \in Nat : Bad(n)}
<1>1. ASSUME Sizes # {}
      PROVE  FALSE
  <2>1. PICK n \in Sizes : \A m \in Sizes : n <= m
    BY <1>1, LeastExists
  <2>2. PICK T \in SUBSET Int :
          IsFiniteSet(T) /\ T # {} /\ Cardinality(T) = n /\ Tops(T) = {}
    BY <2>1
  <2>3. PICK x \in T : TRUE
    BY <2>2
  <2>4. /\ IsFiniteSet(T \ {x}) /\ Cardinality(T \ {x}) = n - 1
        /\ Cardinality(T \ {x}) \in Nat
    BY <2>2, <2>3, FS_RemoveElement, FS_CardinalityType
  <2>5. CASE T \ {x} = {}
    <3>1. x \in Tops(T)
      BY <2>3, <2>5
    <3> QED
      BY <2>2, <3>1
  <2>6. CASE T \ {x} # {}
    <3>1. n - 1 \notin Sizes /\ n - 1 \in Nat
      BY <2>1, <2>4
    <3>2. Tops(T \ {x}) # {}
      BY <2>2, <2>4, <2>6, <3>1
    <3>3. PICK m \in T \ {x} : \A y \in T \ {x} : m >= y
      BY <3>2
    <3>4. x \in Tops(T) \/ m \in Tops(T)
      BY <2>3, <3>3
    <3> QED
      BY <2>2, <3>4
  <2> QED
    BY <2>5, <2>6
<1>2. Cardinality(S) \in Nat
  BY FS_CardinalityType
<1>3. Tops(S) # {}
  BY <1>1, <1>2
<1> QED
  BY <1>3

LEMMA MaxIs ==
  ASSUME NEW S \in SUBSET Int, IsFiniteSet(S), S # {}
  PROVE  Max(S) \in S /\ \A y \in S : Max(S) >= y
<1>1. \E x \in S : \A y \in S : x >= y
  BY GreatestExists
<1> QED
  BY <1>1 DEF Max

(***************************************************************************)
(* Calls as records.                                                       *)
(***************************************************************************)
IsCall(r) == DOMAIN r = {"by", "op", "arg", "pc", "total", "found", "seen", "answer", "excuse"}

LEMMA RequestIs ==
  ASSUME NEW u, NEW op, NEW arg
  PROVE  LET r == Request(u, op, arg)
         IN /\ IsCall(r) /\ r.by = u /\ r.op = op /\ r.arg = arg /\ r.pc = "begun"
            /\ r.answer = "none" /\ r.excuse = {} /\ r.found = <<>>
BY DEF Request, IsCall, NoCall

\* What a call keeps while it goes on.
Keeps(q, r) ==
  IsCall(q) /\ q.by = r.by /\ q.op = r.op /\ q.arg = r.arg /\ q.found = r.found

LEMMA GoesIs ==
  ASSUME NEW r, IsCall(r), NEW pc
  PROVE  LET q == Goes(r, pc)
         IN Keeps(q, r) /\ q.pc = pc /\ q.answer = r.answer /\ q.excuse = r.excuse
BY DEF Goes, IsCall, Keeps

LEMMA EndsIs ==
  ASSUME NEW r, IsCall(r), NEW answer
  PROVE  LET q == Ends(r, answer)
         IN Keeps(q, r) /\ q.pc = "done" /\ q.answer = answer /\ q.excuse = r.excuse
BY DEF Ends, IsCall, Keeps

LEMMA NotFoundIs ==
  ASSUME NEW r, IsCall(r)
  PROVE  LET q == NotFound(r)
         IN Keeps(q, r) /\ q.pc = "done" /\ q.answer = "not-found" /\ q.excuse = r.excuse
BY EndsIs DEF NotFound, toProblem

LEMMA FailsIs ==
  ASSUME NEW r, IsCall(r)
  PROVE  LET q == Fails(r)
         IN Keeps(q, r) /\ q.pc = "done" /\ q.answer = "internal-error"
            /\ q.excuse = r.excuse
BY EndsIs DEF Fails, toProblem

LEMMA RefusedIs ==
  ASSUME NEW r, IsCall(r)
  PROVE  LET q == Refused(r)
         IN Keeps(q, r) /\ q.pc = "done" /\ q.answer = "internal-error"
            /\ q.excuse = r.excuse \cup {"value"}
<1> DEFINE f == Fails(r)
<1>1. Keeps(f, r) /\ f.pc = "done" /\ f.answer = "internal-error" /\ f.excuse = r.excuse
  BY FailsIs
<1>2. Refused(r) = [f EXCEPT !.excuse = @ \cup {"value"}]
  BY DEF Refused
<1> HIDE DEF f
<1> QED
  BY <1>1, <1>2 DEF Keeps, IsCall

\* A call one of whose queries threw: it is over, keeps what it was asked and
\* forgets what it read.
Thrown(q, r) ==
  /\ IsCall(q) /\ q.by = r.by /\ q.op = r.op /\ q.arg = r.arg /\ q.found = <<>>
  /\ q.pc = "done" /\ q.answer = "internal-error" /\ r.excuse \subseteq q.excuse
  /\ q.excuse \subseteq r.excuse \cup {"database", "value"}
  /\ q.excuse \cap {"database", "value"} # {}

LEMMA ThrowsIs ==
  ASSUME NEW r, IsCall(r)
  PROVE  Thrown(DbFault(Throws(r)), r) /\ Thrown(Refused(Throws(r)), r)
<1> DEFINE f == Fails(r)
           g == Throws(r)
<1>1. IsCall(f) /\ f.by = r.by /\ f.op = r.op /\ f.arg = r.arg /\ f.pc = "done"
      /\ f.answer = "internal-error" /\ f.excuse = r.excuse
  BY FailsIs DEF Keeps
<1>2. g = [f EXCEPT !.total = 0, !.found = <<>>, !.seen = {}]
  BY DEF Throws
<1> HIDE DEF f
<1>3. IsCall(g) /\ g.by = r.by /\ g.op = r.op /\ g.arg = r.arg /\ g.pc = "done"
      /\ g.answer = "internal-error" /\ g.excuse = r.excuse /\ g.found = <<>>
  BY <1>1, <1>2 DEF IsCall
<1> HIDE DEF g
<1>4. Thrown(DbFault(g), r)
  BY <1>3 DEF DbFault, Thrown, IsCall
<1>5. Thrown(Refused(g), r)
  BY <1>3, RefusedIs DEF Thrown, Keeps
<1> QED
  BY <1>4, <1>5 DEF g

\* Another call, as a step leaves it: nothing but its excuse grows.
SameCall(d) ==
  /\ Keeps(call'[d], call[d]) /\ call'[d].pc = call[d].pc
  /\ call'[d].answer = call[d].answer
  /\ call[d].excuse \subseteq call'[d].excuse
  /\ call'[d].excuse \subseteq call[d].excuse \cup {"race"}

CallsOK == DOMAIN call = Calls /\ \A c \in Calls : IsCall(call[c])

\* Call c leaves its step as r.
Leaves(c, r) ==
  /\ DOMAIN call' = Calls /\ call'[c] = r
  /\ \A d \in Calls \ {c} : SameCall(d)

Marks(c) == \A d \in Calls \ {c} : InFlight(d) => call'[d].excuse # {}

LEMMA CallMoves ==
  ASSUME CallsOK, NEW c \in Calls, NEW r, call' = [call EXCEPT ![c] = r]
  PROVE  Leaves(c, r)
BY DEF CallsOK, Leaves, SameCall, Keeps

LEMMA StalesMoves ==
  ASSUME CallsOK, NEW c \in Calls, NEW r, Stales(c, r)
  PROVE  Leaves(c, r) /\ Marks(c)
<1>1. DOMAIN call' = Calls /\ call'[c] = r
  BY DEF Stales
<1>2. ASSUME NEW d \in Calls \ {c}, InFlight(d)
      PROVE  SameCall(d) /\ call'[d].excuse # {}
  <2>1. PICK seen : call'[d] = [call[d] EXCEPT !.excuse = @ \cup {"race"}, !.seen = seen]
    BY <1>2 DEF Stales
  <2>2. IsCall(call[d])
    BY DEF CallsOK
  <2> QED
    BY <2>1, <2>2 DEF SameCall, Keeps, IsCall
<1>3. ASSUME NEW d \in Calls \ {c}, ~InFlight(d)
      PROVE  SameCall(d)
  BY <1>3 DEF Stales, SameCall, Keeps, CallsOK
<1> QED
  BY <1>1, <1>2, <1>3 DEF Leaves, Marks

(***************************************************************************)
(* What every call satisfies, and the catalogue's own tables and calls. A  *)
(* call nothing interfered with (no excuse) may rely on what it checked;   *)
(* any call may rely on rows never going back to unused.                   *)
(***************************************************************************)
EditOps == {"createCategory", "updateCategory", "deleteCategory", "getCategory",
            "getProduct", "createProduct", "updateProduct", "deleteProduct",
            "createSku", "updateSku", "deleteSku"}
CatalogOps == EditOps \cup {"listProducts"}
CartOps == {"getCart", "addItem", "clearCart", "validatePromo"}
ShopperOps == CartOps \cup {"updateItem", "removeItem", "like", "unlike", "createPromo",
                            "getPromo", "updatePromo"}
ListOps == {"listCategories", "listLikedProducts", "listPromos"}
ShoppingOps == ShopperOps \cup ListOps
ImageOps == {"uploadImage", "updateImage", "deleteImage"}
LinkOps  == {"checkout"}

CartPcs == {"createCart", "readWinner"}
Excuses == {"race", "s3", "database", "stripe", "value"}

CallSound(r) ==
  /\ IsCall(r)
  /\ r.excuse \subseteq Excuses
  /\ r.pc # "done" => r.answer = "none"
  /\ r.answer = "internal-error" => r.excuse # {}
  /\ r.pc \in CartPcs => r.op \in CartOps
  /\ r.pc = "idle" => r.op = "none"

\* A query that throws changes no table.
LEMMA QueryThrowsIs ==
  ASSUME CallsOK, NEW c \in Calls, CallSound(call[c]), QueryThrows(c)
  PROVE  /\ UNCHANGED tables /\ call[c].pc # "idle"
         /\ call[c].pc \notin Elsewhere
         /\ Leaves(c, call'[c]) /\ Thrown(call'[c], call[c])
         /\ call' = [call EXCEPT ![c] = call'[c]]
<1> DEFINE d == DbFault(Throws(call[c]))
           v == Refused(Throws(call[c]))
<1>1. IsCall(call[c]) /\ Thrown(d, call[c]) /\ Thrown(v, call[c])
  BY ThrowsIs DEF CallsOK
<1>2. /\ Query(c, d) \/ Query(c, v)
      /\ call[c].pc # "idle" /\ call[c].pc \notin Elsewhere
  BY DEF QueryThrows, DatabaseFails, ValueRefused, TakesValues, InFlight, At, CallSound,
         Elsewhere
<1> HIDE DEF d, v
<1>3. ASSUME NEW q, Thrown(q, call[c]), Query(c, q)
      PROVE  /\ UNCHANGED tables /\ Leaves(c, call'[c]) /\ Thrown(call'[c], call[c])
             /\ call' = [call EXCEPT ![c] = call'[c]]
  <2>1. UNCHANGED tables /\ call' = [call EXCEPT ![c] = q]
    BY <1>3 DEF Query
  <2>2. Leaves(c, q) /\ call'[c] = q
    BY <2>1, CallMoves DEF Leaves
  <2> QED
    BY <1>3, <2>1, <2>2
<1> QED
  BY <1>1, <1>2, <1>3

CatalogTables ==
  /\ category \in [Categories -> CategoryRows]
  /\ product \in [Products -> ProductRows]
  /\ sku \in [Skus -> SkuRows]
  /\ \A p \in Products : product[p] # NoProduct => CategoryExists(product[p].category)
  /\ \A s \in Skus : sku[s] # NoSku => product[sku[s].product] # NoProduct

RowsStay ==
  /\ \A p \in Products : product[p] # NoProduct => product'[p] # NoProduct
  /\ \A s \in Skus : sku[s] # NoSku => sku'[s] # NoSku

CatalogFact(r) ==
  /\ r.op = "updateCategory" /\ r.pc = "update" =>
       /\ r.arg.id \in Categories /\ r.arg.name \in CategoryNames
       /\ r.excuse = {} => CategoryExists(r.arg.id)
  /\ r.op = "deleteCategory" /\ r.pc = "delete" =>
       /\ r.arg.id \in Categories
       /\ r.excuse = {} => CategoryExists(r.arg.id) /\ ProductsOf(r.arg.id) = {}
  /\ r.op = "createProduct" /\ r.pc = "create" =>
       /\ r.arg.category \in Categories
       /\ r.excuse = {} => CategoryExists(r.arg.category)
  /\ r.op = "updateProduct" /\ r.pc \in {"category", "update"} =>
       /\ r.arg.id \in Products /\ product[r.arg.id] # NoProduct
       /\ r.arg.category \in Categories \cup {0}
       /\ r.arg.status \in {"any", "active", "disabled"}
       /\ r.pc = "update" /\ r.excuse = {} /\ r.arg.category # 0
          => CategoryExists(r.arg.category)
  /\ r.op = "deleteProduct" /\ r.pc = "delete" =>
       r.arg.id \in Products /\ product[r.arg.id] # NoProduct
  /\ r.op = "createSku" /\ r.pc = "create" =>
       /\ r.arg \in [state : {"live"}, product : Products, code : Codes,
                     variant : Variants, price : Prices]
       /\ product[r.arg.product] # NoProduct
  /\ r.op = "updateSku" /\ r.pc = "update" =>
       /\ r.arg.id \in Skus /\ sku[r.arg.id] # NoSku
       /\ r.arg.code \in Codes /\ r.arg.variant \in Variants /\ r.arg.price \in Prices
  /\ r.op = "deleteSku" /\ r.pc = "delete" =>
       r.arg.id \in Skus /\ sku[r.arg.id] # NoSku

\* A call of the catalogue lands on a record that keeps the facts; if it
\* wrote, it is over.
CatalogLands(r) ==
  CallSound(r) /\ r.op \in CatalogOps /\ r.pc \notin CartPcs \cup {"idle"} /\ CatalogFact(r)

CatalogDoes(c) ==
  \E r : /\ CatalogLands(r)
         /\ \/ Query(c, r)
            \/ r.pc = "done" /\ Stales(c, r) /\ CatalogTables' /\ RowsStay

\* A call on its way.
Begun(r, ops) ==
  /\ IsCall(r) /\ r.op \in ops /\ r.answer = "none" /\ r.excuse \subseteq Excuses

LEMMA CatalogEnds ==
  ASSUME NEW r, Begun(r, CatalogOps)
  PROVE  /\ \A answer : answer # "internal-error" =>
              CatalogLands(Ends(r, answer)) /\ Ends(r, answer).pc = "done"
         /\ CatalogLands(NotFound(r)) /\ CatalogLands(Refused(r))
         /\ r.excuse # {} => CatalogLands(Fails(r))
         /\ \A pc : /\ pc \notin CartPcs \cup {"idle", "done"}
                    /\ CatalogFact(Goes(r, pc))
                    => CatalogLands(Goes(r, pc))
<1>1. \A answer : answer # "internal-error" =>
        CatalogLands(Ends(r, answer)) /\ Ends(r, answer).pc = "done"
  BY EndsIs DEF Begun, CatalogLands, CallSound, CatalogFact, Keeps, CartPcs
<1>2. CatalogLands(NotFound(r))
  BY NotFoundIs DEF Begun, CatalogLands, CallSound, CatalogFact, Keeps, CartPcs
<1>3. r.excuse # {} => CatalogLands(Fails(r))
  BY FailsIs DEF Begun, CatalogLands, CallSound, CatalogFact, Keeps, CartPcs
<1>4. \A pc : /\ pc \notin CartPcs \cup {"idle", "done"}
              /\ CatalogFact(Goes(r, pc))
              => CatalogLands(Goes(r, pc))
  BY GoesIs DEF Begun, CatalogLands, CallSound, Keeps, CartPcs
<1>5. CatalogLands(Refused(r))
  BY RefusedIs DEF Begun, CatalogLands, CallSound, CatalogFact, Keeps, CartPcs, Excuses
<1> QED
  BY <1>1, <1>2, <1>3, <1>4, <1>5

LEMMA RequestBegun ==
  ASSUME NEW u, NEW op, NEW arg, NEW ops, op \in ops
  PROVE  Begun(Request(u, op, arg), ops)
BY RequestIs DEF Begun

\* A call that is no listing stays none.
EditLands(r) == CatalogLands(r) /\ r.op \in EditOps

EditDoes(c) ==
  \E r : /\ EditLands(r)
         /\ \/ Query(c, r)
            \/ r.pc = "done" /\ Stales(c, r) /\ CatalogTables' /\ RowsStay

LEMMA EditEnds ==
  ASSUME NEW r, Begun(r, EditOps)
  PROVE  /\ \A answer : answer # "internal-error" =>
              EditLands(Ends(r, answer)) /\ Ends(r, answer).pc = "done"
         /\ EditLands(NotFound(r)) /\ EditLands(Refused(r))
         /\ r.excuse # {} => EditLands(Fails(r))
         /\ \A pc : /\ pc \notin CartPcs \cup {"idle", "done"}
                    /\ CatalogFact(Goes(r, pc))
                    => EditLands(Goes(r, pc))
<1>1. Begun(r, CatalogOps) /\ IsCall(r) /\ r.op \in EditOps
  BY DEF Begun, CatalogOps
<1>2. /\ \A answer : Ends(r, answer).op \in EditOps
      /\ NotFound(r).op \in EditOps /\ Fails(r).op \in EditOps
      /\ Refused(r).op \in EditOps
      /\ \A pc : Goes(r, pc).op \in EditOps
  BY <1>1, EndsIs, NotFoundIs, FailsIs, RefusedIs, GoesIs DEF Keeps
<1> QED
  BY <1>1, <1>2, CatalogEnds DEF EditLands

\* The categories.
LEMMA CategoriesDo ==
  ASSUME CatalogTables, NEW c \in Calls, CallSound(call[c]), CatalogFact(call[c])
  PROVE  \/ createCategory(c) \/ getCategory(c) \/ updateCategory(c) \/ saveCategory(c)
         \/ deleteCategory(c) \/ removeCategory(c)
         => EditDoes(c)
<1>1. ASSUME createCategory(c)
      PROVE  EditDoes(c)
  <2>1. PICK u \in Callers(CategoriesController.create), n \in CategoryNames :
          LET r == Request(u, "createCategory", [name |-> n])
              unused == {g \in Categories : category[g].state = Unused}
          IN \/ Query(c, Ends(r, "category-name-taken"))
             \/ WriteCategory(c, Ends(r, "ok"), Min(unused), [state |-> "live", name |-> n])
             \/ Query(c, Refused(r))
    BY <1>1 DEF createCategory
  <2> DEFINE r == Request(u, "createCategory", [name |-> n])
  <2>2. Begun(r, EditOps)
    BY RequestBegun DEF EditOps
  <2> HIDE DEF r
  <2>3. ASSUME NEW g, WriteCategory(c, Ends(r, "ok"), g, [state |-> "live", name |-> n])
        PROVE  CatalogTables' /\ RowsStay /\ Stales(c, Ends(r, "ok"))
    BY <2>3 DEF WriteCategory, CatalogTables, CategoryRows, CategoryExists, RowsStay,
                ProductRows
  <2> QED
    BY <2>1, <2>2, <2>3, EditEnds DEF EditDoes, r
<1>2. ASSUME getCategory(c)
      PROVE  EditDoes(c)
  <2>1. PICK u \in Callers(CategoriesController.getById), g \in Categories :
          LET r == Request(u, "getCategory", [id |-> g])
          IN Query(c, IF CategoryExists(g) THEN Ends(r, "ok") ELSE NotFound(r))
    BY <1>2 DEF getCategory
  <2> DEFINE r == Request(u, "getCategory", [id |-> g])
  <2>2. Begun(r, EditOps)
    BY RequestBegun DEF EditOps
  <2> QED
    BY <2>1, <2>2, EditEnds DEF EditDoes
<1>3. ASSUME updateCategory(c)
      PROVE  EditDoes(c)
  <2>1. PICK u \in Callers(CategoriesController.update), g \in Categories, n \in CategoryNames :
          LET r == Request(u, "updateCategory", [id |-> g, name |-> n])
          IN Query(c, IF CategoryExists(g) THEN Goes(r, "update") ELSE NotFound(r))
    BY <1>3 DEF updateCategory
  <2> DEFINE r == Request(u, "updateCategory", [id |-> g, name |-> n])
  <2>2. Begun(r, EditOps) /\ IsCall(r) /\ r.arg = [id |-> g, name |-> n]
        /\ r.op = "updateCategory"
    BY RequestBegun, RequestIs DEF EditOps
  <2> HIDE DEF r
  <2>3. CategoryExists(g) => CatalogFact(Goes(r, "update"))
    BY <2>2, GoesIs DEF CatalogFact, Keeps
  <2> QED
    BY <2>1, <2>2, <2>3, EditEnds DEF EditDoes, CartPcs, r
<1>4. ASSUME saveCategory(c)
      PROVE  EditDoes(c)
  <2> DEFINE r == call[c]
  <2>1. Begun(r, EditOps) /\ r.op = "updateCategory" /\ r.pc = "update"
    BY <1>4 DEF saveCategory, At, Begun, CallSound, EditOps
  <2>2. /\ r.arg.id \in Categories /\ r.arg.name \in CategoryNames
        /\ r.excuse = {} => CategoryExists(r.arg.id)
    BY <2>1 DEF CatalogFact
  <2>3. \/ ~CategoryExists(r.arg.id) /\ Query(c, Fails(r))
        \/ Query(c, Ends(r, "category-name-taken"))
        \/ WriteCategory(c, Ends(r, "ok"), r.arg.id, [state |-> "live", name |-> r.arg.name])
    BY <1>4 DEF saveCategory
  <2> HIDE DEF r
  <2>4. ASSUME WriteCategory(c, Ends(r, "ok"), r.arg.id, [state |-> "live", name |-> r.arg.name])
        PROVE  CatalogTables' /\ RowsStay /\ Stales(c, Ends(r, "ok"))
    BY <2>2, <2>4 DEF WriteCategory, CatalogTables, CategoryRows, CategoryExists, RowsStay
  <2> QED
    BY <2>1, <2>2, <2>3, <2>4, EditEnds DEF EditDoes
<1>5. ASSUME deleteCategory(c)
      PROVE  EditDoes(c)
  <2>1. PICK u \in Callers(CategoriesController.delete), g \in Categories :
          LET r == Request(u, "deleteCategory", [id |-> g])
          IN \/ Query(c, NotFound(r))
             \/ Query(c, Ends(r, "category-not-empty"))
             \/ CategoryExists(g) /\ ProductsOf(g) = {} /\ Query(c, Goes(r, "delete"))
    BY <1>5 DEF deleteCategory
  <2> DEFINE r == Request(u, "deleteCategory", [id |-> g])
  <2>2. Begun(r, EditOps) /\ IsCall(r) /\ r.arg = [id |-> g] /\ r.op = "deleteCategory"
    BY RequestBegun, RequestIs DEF EditOps
  <2> HIDE DEF r
  <2>3. CategoryExists(g) /\ ProductsOf(g) = {} => CatalogFact(Goes(r, "delete"))
    BY <2>2, GoesIs DEF CatalogFact, Keeps
  <2> QED
    BY <2>1, <2>2, <2>3, EditEnds DEF EditDoes, CartPcs, r
<1>6. ASSUME removeCategory(c)
      PROVE  EditDoes(c)
  <2> DEFINE r == call[c]
             g == r.arg.id
  <2>1. Begun(r, EditOps) /\ r.op = "deleteCategory" /\ r.pc = "delete"
    BY <1>6 DEF removeCategory, At, Begun, CallSound, EditOps
  <2>2. g \in Categories /\ (r.excuse = {} => CategoryExists(g) /\ ProductsOf(g) = {})
    BY <2>1 DEF CatalogFact
  <2>3. \/ /\ ~CategoryExists(g) \/ ProductsOf(g) # {}
           /\ Query(c, Fails(r))
        \/ /\ CategoryExists(g) /\ ProductsOf(g) = {}
           /\ WriteCategory(c, Ends(r, "ok"), g, [category[g] EXCEPT !.state = Gone])
    BY <1>6 DEF removeCategory, ProductsOf
  <2> HIDE DEF r
  <2>4. ASSUME CategoryExists(g), ProductsOf(g) = {},
               WriteCategory(c, Ends(r, "ok"), g, [category[g] EXCEPT !.state = Gone])
        PROVE  CatalogTables' /\ RowsStay /\ Stales(c, Ends(r, "ok"))
    <3>1. [category[g] EXCEPT !.state = Gone] \in CategoryRows
      BY <2>2, <2>4 DEF CatalogTables, CategoryRows, NoCategory, Unused, Gone, CategoryExists
    <3> QED
      BY <2>2, <2>4, <3>1 DEF WriteCategory, CatalogTables, CategoryExists, RowsStay,
                              ProductsOf, ProductRows, NoProduct, Unused
  <2> QED
    BY <2>1, <2>2, <2>3, <2>4, EditEnds DEF EditDoes
<1> QED
  BY <1>1, <1>2, <1>3, <1>4, <1>5, <1>6

LEMMA ForbiddenIs ==
  toProblem([kind |-> "HttpException", status |-> 403]) # "internal-error"
BY DEF toProblem

\* A listing relies on nothing it read: it lands wherever it is.
LEMMA ListingLands ==
  ASSUME NEW r, CallSound(r), r.op = "listProducts", r.pc \notin CartPcs \cup {"idle"}
  PROVE  CatalogLands(r)
BY DEF CatalogLands, CatalogFact, CatalogOps, EditOps

\* The listings.
LEMMA ListingsDo ==
  ASSUME NEW c \in Calls, CallSound(call[c])
  PROVE  list(c) \/ listPage(c) \/ listRows(c) => CatalogDoes(c)
<1>1. ASSUME list(c)
      PROVE  CatalogDoes(c)
  <2>1. PICK u \in Callers(ProductsController.list), q \in Queries : \E n :
          LET r == Request(u, "listProducts", q)
          IN \/ Query(c, Ends(r, toProblem([kind |-> "HttpException", status |-> 403])))
             \/ Query(c, [r EXCEPT !.pc = "page", !.total = n])
    BY <1>1 DEF list
  <2>0. PICK n :
          LET r == Request(u, "listProducts", q)
          IN \/ Query(c, Ends(r, toProblem([kind |-> "HttpException", status |-> 403])))
             \/ Query(c, [r EXCEPT !.pc = "page", !.total = n])
    BY <2>1
  <2> DEFINE r == Request(u, "listProducts", q)
             p == [r EXCEPT !.pc = "page", !.total = n]
  <2>2. Begun(r, CatalogOps) /\ r.op = "listProducts"
    BY RequestBegun, RequestIs DEF CatalogOps, EditOps
  <2> HIDE DEF r
  <2>3. /\ CallSound(p) /\ p.op = "listProducts" /\ p.pc = "page"
    BY <2>2 DEF Begun, CallSound, IsCall, CartPcs
  <2> HIDE DEF p
  <2>4. CatalogLands(p)
    BY <2>3, ListingLands DEF CartPcs
  <2> QED
    BY <2>0, <2>2, <2>4, CatalogEnds, ForbiddenIs DEF CatalogDoes, r, p
<1>2. ASSUME listPage(c)
      PROVE  CatalogDoes(c)
  <2> DEFINE r == call[c]
  <2>1. r.op = "listProducts" /\ r.pc = "page" /\ Begun(r, CatalogOps)
    BY <1>2 DEF listPage, At, Begun, CallSound, CatalogOps, EditOps
  <2>2. PICK page, seen :
          \/ Query(c, [r EXCEPT !.pc = "rows", !.found = page])
          \/ Query(c, [Ends(r, "ok") EXCEPT !.found = page, !.seen = seen])
    BY <1>2 DEF listPage
  <2> HIDE DEF r
  <2>3. CatalogLands([r EXCEPT !.pc = "rows", !.found = page])
    <3> DEFINE p == [r EXCEPT !.pc = "rows", !.found = page]
    <3>1. CallSound(p) /\ p.op = "listProducts" /\ p.pc = "rows"
      BY <2>1 DEF Begun, CallSound, IsCall, CartPcs
    <3> HIDE DEF p
    <3>2. CatalogLands(p)
      BY <3>1, ListingLands DEF CartPcs
    <3> QED
      BY <3>2 DEF p
  <2>4. CatalogLands([Ends(r, "ok") EXCEPT !.found = page, !.seen = seen])
    <3> DEFINE e == Ends(r, "ok")
               p == [e EXCEPT !.found = page, !.seen = seen]
    <3>1. IsCall(e) /\ e.op = r.op /\ e.pc = "done" /\ e.answer = "ok" /\ e.excuse = r.excuse
      BY <2>1, EndsIs DEF Begun, Keeps
    <3> HIDE DEF e
    <3>2. CallSound(p) /\ p.op = "listProducts" /\ p.pc = "done"
      BY <2>1, <3>1 DEF Begun, CallSound, IsCall, CartPcs
    <3> HIDE DEF p
    <3>3. CatalogLands(p)
      BY <3>2, ListingLands DEF CartPcs
    <3> QED
      BY <3>3 DEF p, e
  <2> QED
    BY <2>2, <2>3, <2>4 DEF CatalogDoes
<1>3. ASSUME listRows(c)
      PROVE  CatalogDoes(c)
  <2> DEFINE r == call[c]
  <2>1. r.op = "listProducts" /\ r.pc = "rows" /\ Begun(r, CatalogOps)
    BY <1>3 DEF listRows, At, Begun, CallSound, CatalogOps, EditOps
  <2>2. PICK seen : Query(c, [Ends(r, "ok") EXCEPT !.seen = seen])
    BY <1>3 DEF listRows
  <2> DEFINE e == Ends(r, "ok")
             p == [e EXCEPT !.seen = seen]
  <2> HIDE DEF r
  <2>3. IsCall(e) /\ e.op = r.op /\ e.pc = "done" /\ e.answer = "ok" /\ e.excuse = r.excuse
    BY <2>1, EndsIs DEF Begun, Keeps
  <2> HIDE DEF e
  <2>4. CallSound(p) /\ p.op = "listProducts" /\ p.pc = "done"
    BY <2>1, <2>3 DEF Begun, CallSound, IsCall, CartPcs
  <2>5. Query(c, p)
    BY <2>2 DEF e
  <2> HIDE DEF p
  <2>6. CatalogLands(p)
    BY <2>4, ListingLands DEF CartPcs
  <2> QED
    BY <2>5, <2>6 DEF CatalogDoes
<1> QED
  BY <1>1, <1>2, <1>3

\* A write to one product: its category exists, and the row stays.
LEMMA ProductWritten ==
  ASSUME CatalogTables, NEW c, NEW r, NEW p, NEW row \in ProductRows,
         row # NoProduct, CategoryExists(row.category), WriteProduct(c, r, p, row)
  PROVE  CatalogTables' /\ RowsStay /\ Stales(c, r)
BY DEF WriteProduct, CatalogTables, ProductRows, SkuRows, CategoryExists, RowsStay

\* The products.
LEMMA ProductsDo ==
  ASSUME CatalogTables, NEW c \in Calls, CallSound(call[c]), CatalogFact(call[c])
  PROVE  \/ getProduct(c) \/ createProduct(c) \/ insertProduct(c) \/ updateProduct(c)
         \/ checkCategory(c) \/ saveProduct(c) \/ deleteProduct(c) \/ softDeleteProduct(c)
         => EditDoes(c)
<1>1. ASSUME getProduct(c)
      PROVE  EditDoes(c)
  <2>1. PICK u \in Callers(ProductsController.getById), p \in Products :
          LET r == Request(u, "getProduct", [id |-> p])
          IN Query(c, NotFound(r)) \/ Query(c, Ends(r, "ok"))
    BY <1>1 DEF getProduct
  <2> DEFINE r == Request(u, "getProduct", [id |-> p])
  <2>2. Begun(r, EditOps)
    BY RequestBegun DEF EditOps
  <2> QED
    BY <2>1, <2>2, EditEnds DEF EditDoes
<1>2. ASSUME createProduct(c)
      PROVE  EditDoes(c)
  <2>1. PICK u \in Callers(ProductsController.create), g \in Categories :
          LET r == Request(u, "createProduct", [category |-> g])
          IN Query(c, assertCategoryExists(r, g, "create"))
    BY <1>2 DEF createProduct
  <2> DEFINE r == Request(u, "createProduct", [category |-> g])
  <2>2. Begun(r, EditOps) /\ IsCall(r) /\ r.arg = [category |-> g]
        /\ r.op = "createProduct"
    BY RequestBegun, RequestIs DEF EditOps
  <2> HIDE DEF r
  <2>3. CategoryExists(g) => CatalogFact(Goes(r, "create"))
    BY <2>2, GoesIs DEF CatalogFact, Keeps
  <2> QED
    BY <2>1, <2>2, <2>3, EditEnds DEF EditDoes, CartPcs, assertCategoryExists, r
<1>3. ASSUME insertProduct(c)
      PROVE  EditDoes(c)
  <2> DEFINE r == call[c]
             row == [state |-> "active", category |-> r.arg.category]
  <2>1. Begun(r, EditOps) /\ r.op = "createProduct" /\ r.pc = "create"
    BY <1>3 DEF insertProduct, At, Begun, CallSound, EditOps
  <2>2. /\ r.arg.category \in Categories
        /\ r.excuse = {} => CategoryExists(r.arg.category)
    BY <2>1 DEF CatalogFact
  <2>3. PICK p : \/ ~CategoryExists(r.arg.category) /\ Query(c, Fails(r))
                 \/ /\ CategoryExists(r.arg.category)
                    /\ WriteProduct(c, Ends(r, "ok"), p, row)
    BY <1>3 DEF insertProduct
  <2>4. row \in ProductRows /\ row # NoProduct /\ row.category = r.arg.category
    BY <2>2 DEF ProductRows, NoProduct, Unused
  <2> HIDE DEF r, row
  <2> QED
    BY <2>1, <2>2, <2>3, <2>4, EditEnds, ProductWritten DEF EditDoes
<1>4. ASSUME updateProduct(c)
      PROVE  EditDoes(c)
  <2>1. PICK u \in Callers(ProductsController.update), p \in Products,
             g \in Categories \cup {0}, status \in {"any", "active", "disabled"} :
          LET r == Request(u, "updateProduct", [id |-> p, category |-> g, status |-> status])
          IN Query(c, IF ProductExists(p)
                      THEN Goes(r, IF g = 0 THEN "update" ELSE "category") ELSE NotFound(r))
    BY <1>4 DEF updateProduct
  <2> DEFINE r == Request(u, "updateProduct", [id |-> p, category |-> g, status |-> status])
  <2>2. /\ Begun(r, EditOps) /\ IsCall(r) /\ r.op = "updateProduct"
        /\ r.arg = [id |-> p, category |-> g, status |-> status]
    BY RequestBegun, RequestIs DEF EditOps
  <2> HIDE DEF r
  <2>3. ProductExists(p) => product[p] # NoProduct
    BY DEF ProductExists, NoProduct, Unused
  <2>4. ProductExists(p) => /\ CatalogFact(Goes(r, "category"))
                            /\ g = 0 => CatalogFact(Goes(r, "update"))
    BY <2>2, <2>3, GoesIs DEF CatalogFact, Keeps
  <2> QED
    BY <2>1, <2>2, <2>4, EditEnds DEF EditDoes, CartPcs, r
<1>5. ASSUME checkCategory(c)
      PROVE  EditDoes(c)
  <2> DEFINE r == call[c]
  <2>1. Begun(r, EditOps) /\ r.op = "updateProduct" /\ r.pc = "category"
    BY <1>5 DEF checkCategory, At, Begun, CallSound, EditOps
  <2>2. Query(c, assertCategoryExists(r, r.arg.category, "update"))
    BY <1>5 DEF checkCategory
  <2>3. CategoryExists(r.arg.category) => CatalogFact(Goes(r, "update"))
    BY <2>1, GoesIs DEF CatalogFact, Keeps, Begun
  <2> HIDE DEF r
  <2> QED
    BY <2>1, <2>2, <2>3, EditEnds DEF EditDoes, CartPcs, assertCategoryExists
<1>6. ASSUME saveProduct(c)
      PROVE  EditDoes(c)
  <2> DEFINE r == call[c]
             p == r.arg.id
             keeps == r.arg.status = "any" \/ product[p].state = "deleted"
             row == [state    |-> IF keeps THEN product[p].state ELSE r.arg.status,
                     category |-> IF r.arg.category = 0 THEN product[p].category
                                                        ELSE r.arg.category]
  <2>1. Begun(r, EditOps) /\ r.op = "updateProduct" /\ r.pc = "update"
    BY <1>6 DEF saveProduct, At, Begun, CallSound, EditOps
  <2>2. /\ p \in Products /\ product[p] # NoProduct
        /\ r.arg.category \in Categories \cup {0}
        /\ r.arg.status \in {"any", "active", "disabled"}
        /\ r.excuse = {} /\ r.arg.category # 0 => CategoryExists(r.arg.category)
    BY <2>1 DEF CatalogFact
  <2>3. IF CategoryExists(row.category) THEN WriteProduct(c, Ends(r, "ok"), p, row)
                                        ELSE Query(c, Fails(r))
    BY <1>6 DEF saveProduct
  <2>4. /\ product[p] \in [state : {"active", "disabled", "deleted"}, category : Categories]
        /\ CategoryExists(product[p].category)
    BY <2>2 DEF CatalogTables, ProductRows
  <2>5. row.state \in {"active", "disabled", "deleted"} /\ row.category \in Categories
    BY <2>2, <2>4
  <2>6. row \in ProductRows /\ row # NoProduct
    BY <2>5 DEF ProductRows, NoProduct, Unused
  <2>7. r.excuse = {} => CategoryExists(row.category)
    BY <2>2, <2>4
  <2> HIDE DEF r, row
  <2> QED
    BY <2>1, <2>3, <2>6, <2>7, EditEnds, ProductWritten DEF EditDoes
<1>7. ASSUME deleteProduct(c)
      PROVE  EditDoes(c)
  <2>1. PICK u \in Callers(ProductsController.delete), p \in Products :
          LET r == Request(u, "deleteProduct", [id |-> p])
          IN Query(c, IF ProductExists(p) THEN Goes(r, "delete") ELSE NotFound(r))
    BY <1>7 DEF deleteProduct
  <2> DEFINE r == Request(u, "deleteProduct", [id |-> p])
  <2>2. Begun(r, EditOps) /\ IsCall(r) /\ r.arg = [id |-> p] /\ r.op = "deleteProduct"
    BY RequestBegun, RequestIs DEF EditOps
  <2> HIDE DEF r
  <2>3. ProductExists(p) => product[p] # NoProduct
    BY DEF ProductExists, NoProduct, Unused
  <2>4. ProductExists(p) => CatalogFact(Goes(r, "delete"))
    BY <2>2, <2>3, GoesIs DEF CatalogFact, Keeps
  <2> QED
    BY <2>1, <2>2, <2>4, EditEnds DEF EditDoes, CartPcs, r
<1>8. ASSUME softDeleteProduct(c)
      PROVE  EditDoes(c)
  <2> DEFINE r == call[c]
             p == r.arg.id
             row == [product[p] EXCEPT !.state = "deleted"]
  <2>1. Begun(r, EditOps) /\ r.op = "deleteProduct" /\ r.pc = "delete"
    BY <1>8 DEF softDeleteProduct, At, Begun, CallSound, EditOps
  <2>2. p \in Products /\ product[p] # NoProduct
    BY <2>1 DEF CatalogFact
  <2>3. WriteProduct(c, Ends(r, "ok"), p, row)
    BY <1>8 DEF softDeleteProduct
  <2>4. /\ product[p] \in [state : {"active", "disabled", "deleted"}, category : Categories]
        /\ CategoryExists(product[p].category)
    BY <2>2 DEF CatalogTables, ProductRows
  <2>5. row \in ProductRows /\ row # NoProduct /\ row.category = product[p].category
    BY <2>4 DEF ProductRows, NoProduct, Unused
  <2> HIDE DEF r, row
  <2> QED
    BY <2>1, <2>3, <2>4, <2>5, EditEnds, ProductWritten DEF EditDoes
<1> QED
  BY <1>1, <1>2, <1>3, <1>4, <1>5, <1>6, <1>7, <1>8

\* A write to one SKU: its product has a row, and the SKU stays.
LEMMA SkuWritten ==
  ASSUME CatalogTables, NEW c, NEW r, NEW s, NEW row \in SkuRows,
         row # NoSku, product[row.product] # NoProduct, WriteSku(c, r, s, row)
  PROVE  CatalogTables' /\ RowsStay /\ Stales(c, r)
BY DEF WriteSku, CatalogTables, CategoryExists, RowsStay

LEMMA SkuSaved ==
  ASSUME CatalogTables, NEW c, NEW r, Begun(r, EditOps), NEW s, NEW row \in SkuRows,
         row # NoSku, product[row.product] # NoProduct, SaveSku(c, r, s, row)
  PROVE  EditDoes(c)
<1>1. PICK outcome \in {"ok", "duplicate-sku: skuCode", "duplicate-sku: size,color"} :
        \/ WriteSku(c, Ends(r, "ok"), s, row)
        \/ Query(c, Ends(r, outcome))
  <2>1. throwAsDuplicateSku(row, s)
          \in {"ok", "duplicate-sku: skuCode", "duplicate-sku: size,color"}
    BY DEF throwAsDuplicateSku
  <2> QED
    BY <2>1 DEF SaveSku
<1> QED
  BY <1>1, EditEnds, SkuWritten DEF EditDoes

\* The SKUs.
LEMMA SkusDo ==
  ASSUME CatalogTables, NEW c \in Calls, CallSound(call[c]), CatalogFact(call[c])
  PROVE  \/ createSku(c) \/ insertSku(c) \/ updateSku(c) \/ saveSku(c) \/ deleteSku(c)
         \/ softDeleteSku(c)
         => EditDoes(c)
<1>0. \A s \in Skus : SkuIsActive(s) => sku[s] # NoSku
  BY DEF SkuIsActive, NoSku, Unused
<1>1. ASSUME createSku(c)
      PROVE  EditDoes(c)
  <2>1. PICK u \in Callers(SkusController.create), p \in Products,
             code \in Codes, variant \in Variants, price \in Prices :
          LET r == Request(u, "createSku", [state |-> "live", product |-> p, code |-> code,
                                            variant |-> variant, price |-> price])
          IN Query(c, IF ProductExists(p) THEN Goes(r, "create") ELSE NotFound(r))
    BY <1>1 DEF createSku
  <2> DEFINE arg == [state |-> "live", product |-> p, code |-> code,
                     variant |-> variant, price |-> price]
             r == Request(u, "createSku", arg)
  <2>2. Begun(r, EditOps) /\ IsCall(r) /\ r.op = "createSku" /\ r.arg = arg
    BY RequestBegun, RequestIs DEF EditOps
  <2> HIDE DEF r
  <2>3. ProductExists(p) => product[p] # NoProduct
    BY DEF ProductExists, NoProduct, Unused
  <2>4. /\ arg.product = p
        /\ arg \in [state : {"live"}, product : Products, code : Codes,
                    variant : Variants, price : Prices]
    OBVIOUS
  <2> HIDE DEF arg
  <2>5. ProductExists(p) => CatalogFact(Goes(r, "create"))
    BY <2>2, <2>3, <2>4, GoesIs DEF CatalogFact, Keeps
  <2> QED
    BY <2>1, <2>2, <2>5, EditEnds DEF EditDoes, CartPcs, r, arg
<1>2. ASSUME insertSku(c)
      PROVE  EditDoes(c)
  <2> DEFINE r == call[c]
  <2>1. Begun(r, EditOps) /\ r.op = "createSku" /\ r.pc = "create"
    BY <1>2 DEF insertSku, At, Begun, CallSound, EditOps
  <2>2. /\ r.arg \in [state : {"live"}, product : Products, code : Codes,
                      variant : Variants, price : Prices]
        /\ product[r.arg.product] # NoProduct
    BY <2>1 DEF CatalogFact
  <2>3. r.arg \in SkuRows /\ r.arg # NoSku
    BY <2>2 DEF SkuRows, NoSku, Unused
  <2>4. PICK s : SaveSku(c, r, s, r.arg)
    BY <1>2 DEF insertSku
  <2> HIDE DEF r
  <2> QED
    BY <2>1, <2>2, <2>3, <2>4, SkuSaved
<1>3. ASSUME updateSku(c)
      PROVE  EditDoes(c)
  <2>1. PICK u \in Callers(SkusController.update), s \in Skus,
             code \in Codes, variant \in Variants, price \in Prices :
          LET r == Request(u, "updateSku", [id |-> s, code |-> code,
                                            variant |-> variant, price |-> price])
          IN Query(c, IF SkuIsActive(s) THEN Goes(r, "update") ELSE NotFound(r))
    BY <1>3 DEF updateSku
  <2> DEFINE r == Request(u, "updateSku", [id |-> s, code |-> code,
                                           variant |-> variant, price |-> price])
  <2>2. /\ Begun(r, EditOps) /\ IsCall(r) /\ r.op = "updateSku"
        /\ r.arg = [id |-> s, code |-> code, variant |-> variant, price |-> price]
    BY RequestBegun, RequestIs DEF EditOps
  <2> HIDE DEF r
  <2>3. SkuIsActive(s) => CatalogFact(Goes(r, "update"))
    BY <1>0, <2>2, GoesIs DEF CatalogFact, Keeps
  <2> QED
    BY <2>1, <2>2, <2>3, EditEnds DEF EditDoes, CartPcs, r
<1>4. ASSUME saveSku(c)
      PROVE  EditDoes(c)
  <2> DEFINE r == call[c]
             s == r.arg.id
             row == [sku[s] EXCEPT !.code = r.arg.code, !.variant = r.arg.variant,
                                   !.price = r.arg.price]
  <2>1. Begun(r, EditOps) /\ r.op = "updateSku" /\ r.pc = "update"
    BY <1>4 DEF saveSku, At, Begun, CallSound, EditOps
  <2>2. /\ s \in Skus /\ sku[s] # NoSku
        /\ r.arg.code \in Codes /\ r.arg.variant \in Variants /\ r.arg.price \in Prices
    BY <2>1 DEF CatalogFact
  <2>3. SaveSku(c, r, s, row)
    BY <1>4 DEF saveSku
  <2>4. /\ sku[s] \in [state : {"live", "deleted"}, product : Products, code : Codes,
                       variant : Variants, price : Prices]
        /\ product[sku[s].product] # NoProduct
    BY <2>2 DEF CatalogTables, SkuRows
  <2>5. /\ row \in [state : {"live", "deleted"}, product : Products, code : Codes,
                    variant : Variants, price : Prices]
        /\ row.product = sku[s].product
    BY <2>2, <2>4
  <2>6. row \in SkuRows /\ row # NoSku
    BY <2>5 DEF SkuRows, NoSku, Unused
  <2> HIDE DEF r, row
  <2> QED
    BY <2>1, <2>3, <2>4, <2>5, <2>6, SkuSaved
<1>5. ASSUME deleteSku(c)
      PROVE  EditDoes(c)
  <2>1. PICK u \in Callers(SkusController.delete), s \in Skus :
          LET r == Request(u, "deleteSku", [id |-> s])
          IN \/ Query(c, NotFound(r))
             \/ Query(c, Ends(r, "sku-reserved"))
             \/ SkuIsActive(s) /\ Query(c, Goes(r, "delete"))
    BY <1>5 DEF deleteSku
  <2> DEFINE r == Request(u, "deleteSku", [id |-> s])
  <2>2. Begun(r, EditOps) /\ IsCall(r) /\ r.op = "deleteSku" /\ r.arg = [id |-> s]
    BY RequestBegun, RequestIs DEF EditOps
  <2> HIDE DEF r
  <2>3. SkuIsActive(s) => CatalogFact(Goes(r, "delete"))
    BY <1>0, <2>2, GoesIs DEF CatalogFact, Keeps
  <2> QED
    BY <2>1, <2>2, <2>3, EditEnds DEF EditDoes, CartPcs, r
<1>6. ASSUME softDeleteSku(c)
      PROVE  EditDoes(c)
  <2> DEFINE r == call[c]
             s == r.arg.id
             row == [sku[s] EXCEPT !.state = "deleted"]
  <2>1. Begun(r, EditOps) /\ r.op = "deleteSku" /\ r.pc = "delete"
    BY <1>6 DEF softDeleteSku, At, Begun, CallSound, EditOps
  <2>2. s \in Skus /\ sku[s] # NoSku
    BY <2>1 DEF CatalogFact
  <2>3. WriteSku(c, Ends(r, "ok"), s, row)
    BY <1>6 DEF softDeleteSku
  <2>4. /\ sku[s] \in [state : {"live", "deleted"}, product : Products, code : Codes,
                       variant : Variants, price : Prices]
        /\ product[sku[s].product] # NoProduct
    BY <2>2 DEF CatalogTables, SkuRows
  <2>5. /\ row \in [state : {"live", "deleted"}, product : Products, code : Codes,
                    variant : Variants, price : Prices]
        /\ row.product = sku[s].product
    BY <2>4
  <2>6. row \in SkuRows /\ row # NoSku
    BY <2>5 DEF SkuRows, NoSku, Unused
  <2> HIDE DEF r, row
  <2> QED
    BY <2>1, <2>3, <2>4, <2>5, <2>6, EditEnds, SkuWritten DEF EditDoes
<1> QED
  BY <1>1, <1>2, <1>3, <1>4, <1>5, <1>6

LEMMA CatalogStepDoes ==
  ASSUME CatalogTables, NEW c \in Calls, CallSound(call[c]), CatalogFact(call[c]),
         CatalogStep(c)
  PROVE  CatalogDoes(c) /\ (call[c].pc = "idle" \/ call[c].op \in CatalogOps)
<1>1. CatalogDoes(c)
  BY CategoriesDo, ListingsDo, ProductsDo, SkusDo
  DEF CatalogStep, CatalogRequest, EditDoes, EditLands, CatalogDoes
<1>2. call[c].pc = "idle" \/ call[c].op \in CatalogOps
  BY DEF CatalogStep, CatalogRequest, createCategory, updateCategory, deleteCategory,
         getCategory, list, getProduct, createProduct, updateProduct, deleteProduct,
         createSku, updateSku, deleteSku, saveCategory, removeCategory, listPage, listRows,
         insertProduct, checkCategory, saveProduct, softDeleteProduct, insertSku, saveSku,
         softDeleteSku, Asked, At, CatalogOps, EditOps
<1> QED
  BY <1>1, <1>2

(***************************************************************************)
(* The shopper's tables and calls. Only the database, or a value too large *)
(* for its column, fails one of these calls.                               *)
(***************************************************************************)
ShopTables ==
  /\ hasCart \subseteq Users
  /\ item \in [Items -> ItemRows]
  /\ \A i \in Items : item[i] # NoItem => item[i].user \in hasCart
  /\ promo \in [Promos -> PromoRows]
  /\ \A p \in Promos : promo[p].state = "live" => promo[p].code.upper
  /\ \A p, q \in Promos :
       promo[p].state = "live" /\ promo[q].state = "live" /\ p # q
       => promo[p].code # promo[q].code

ShopStay ==
  /\ hasCart \subseteq hasCart'
  /\ \A i \in Items : item[i] # NoItem => item'[i] # NoItem
  /\ \A p \in Promos : promo[p] # NoPromo => promo'[p] # NoPromo

ShopArgs(r) ==
  /\ r.op \in CartOps => r.by \in Users
  /\ r.op = "addItem" => r.arg.sku \in Skus /\ r.arg.quantity \in 1 .. MaxInt + 1
  /\ r.op = "updateItem" => r.arg.quantity \in 1 .. MaxInt + 1
  /\ r.op = "validatePromo" => r.arg.code \in Typed

ShopFact(r) ==
  /\ r.pc = "readWinner" => r.by \in hasCart
  /\ r.op = "addItem" /\ r.pc \in {"sku", "upsert"} => r.by \in hasCart
  /\ r.op \in {"updateItem", "removeItem"} /\ r.pc = "write" =>
       r.arg.id \in Items /\ item[r.arg.id] # NoItem
  /\ r.op = "updatePromo" /\ r.pc = "write" =>
       /\ r.arg.id \in Promos /\ promo[r.arg.id] # NoPromo
       /\ r.arg.terms \in Terms /\ r.arg.limit \in Limits
       /\ r.arg.active \in BOOLEAN /\ r.arg.expired \in BOOLEAN

ShopLands(r) ==
  /\ CallSound(r) /\ r.op \in ShoppingOps /\ r.pc # "idle"
  /\ r.answer = "internal-error" => r.excuse \cap {"database", "value"} # {}
  /\ ShopArgs(r)

ShopDoes(c) ==
  \E r : /\ ShopLands(r)
         /\ \/ Look(c, r) /\ ShopFact(r)
            \/ Touch(c, r) /\ ShopTables' /\ ShopStay /\ ShopFact(r)'

\* A call that is no list stays none.
ShopperLands(r) == ShopLands(r) /\ r.op \in ShopperOps

ShopperDoes(c) ==
  \E r : /\ ShopperLands(r)
         /\ \/ Look(c, r) /\ ShopFact(r)
            \/ Touch(c, r) /\ ShopTables' /\ ShopStay /\ ShopFact(r)'

LEMMA ShopEnds ==
  ASSUME NEW r, Begun(r, ShopperOps), ShopArgs(r)
  PROVE  /\ \A answer : answer # "internal-error" =>
              /\ ShopperLands(Ends(r, answer))
              /\ ShopFact(Ends(r, answer)) /\ Ends(r, answer).pc = "done"
         /\ ShopperLands(NotFound(r)) /\ ShopFact(NotFound(r))
         /\ ShopperLands(Refused(r)) /\ ShopFact(Refused(r))
         /\ \A pc : pc \notin CartPcs \cup {"idle", "done"} => ShopperLands(Goes(r, pc))
<1>1. \A answer : answer # "internal-error" =>
        /\ ShopperLands(Ends(r, answer))
        /\ ShopFact(Ends(r, answer)) /\ Ends(r, answer).pc = "done"
  BY EndsIs
  DEF Begun, ShopperLands, ShopLands, ShopperOps, ShoppingOps, ShopArgs, CallSound,
      ShopFact, Keeps, CartPcs
<1>2. ShopperLands(NotFound(r)) /\ ShopFact(NotFound(r))
  BY NotFoundIs
  DEF Begun, ShopperLands, ShopLands, ShopperOps, ShoppingOps, ShopArgs, CallSound,
      ShopFact, Keeps, CartPcs
<1>3. \A pc : pc \notin CartPcs \cup {"idle", "done"} => ShopperLands(Goes(r, pc))
  BY GoesIs
  DEF Begun, ShopperLands, ShopLands, ShopperOps, ShoppingOps, ShopArgs, CallSound, Keeps,
      CartPcs
<1>4. ShopperLands(Refused(r)) /\ ShopFact(Refused(r))
  BY RefusedIs
  DEF Begun, ShopperLands, ShopLands, ShopperOps, ShoppingOps, ShopArgs, CallSound,
      ShopFact, Keeps, CartPcs, Excuses
<1> QED
  BY <1>1, <1>2, <1>3, <1>4

LEMMA ShopOver ==
  ASSUME NEW c, NEW r, ShopperLands(r), r.pc = "done", Touch(c, r), ShopTables', ShopStay
  PROVE  ShopperDoes(c)
<1>1. ShopFact(r)'
  BY DEF ShopFact
<1> QED
  BY <1>1 DEF ShopperDoes

\* Only accounts get past the guard of a route that asks for a token.
LEMMA AccountsOnly ==
  /\ Callers(CartController.getCart) \subseteq Users
  /\ Callers(CartController.addItem) \subseteq Users
  /\ Callers(CartController.clearCart) \subseteq Users
  /\ Callers(PromosController.validate) \subseteq Users
<1>1. ASSUME NEW route, route.guard = "jwt"
      PROVE  Callers(route) \subseteq Users
  BY <1>1 DEF Callers, Role, Admitted, handleRequest, Roles, Anonymous, Visitor
<1>2. /\ CartController.getCart.guard = "jwt" /\ CartController.addItem.guard = "jwt"
      /\ CartController.clearCart.guard = "jwt" /\ PromosController.validate.guard = "jwt"
  BY DEF CartController, PromosController, May
<1> QED
  BY <1>1, <1>2

LEMMA WithCartIs ==
  ASSUME NEW r, Begun(r, CartOps)
  PROVE  LET q == WithCart(r)
         IN /\ IsCall(q) /\ q.by = r.by /\ q.op = r.op /\ q.arg = r.arg
            /\ q.excuse = r.excuse /\ q.pc \in {"done", "sku", "clear", "evaluate"}
            /\ q.answer \in {"none", "ok", "cart-empty"}
            /\ q.pc # "done" => q.answer = "none"
<1> DEFINE e == Goes(r, "evaluate")
<1>1. /\ IsCall(e) /\ e.by = r.by /\ e.op = r.op /\ e.arg = r.arg /\ e.excuse = r.excuse
      /\ e.pc = "evaluate" /\ e.answer = "none"
  BY GoesIs DEF Begun, Keeps
<1>2. WithCart(r) \in {Ends(r, "ok"), Goes(r, "sku"), Goes(r, "clear"),
                       Ends(r, "cart-empty"), [e EXCEPT !.total = Subtotal(r.by)]}
  BY DEF WithCart, Begun, CartOps
<1> HIDE DEF e
<1>3. ASSUME NEW t, WithCart(r) = [e EXCEPT !.total = t]
      PROVE  LET q == WithCart(r)
             IN /\ IsCall(q) /\ q.by = r.by /\ q.op = r.op /\ q.arg = r.arg
                /\ q.excuse = r.excuse /\ q.pc = "evaluate" /\ q.answer = "none"
  BY <1>1, <1>3 DEF IsCall
<1> QED
  BY <1>2, <1>3, GoesIs, EndsIs DEF Begun, Keeps

\* A call that finds its cart, or creates it, goes on with it.
LEMMA CartGoesOn ==
  ASSUME NEW r, Begun(r, CartOps), ShopArgs(r), NEW q, q = WithCart(r)
  PROVE  /\ ShopperLands(q)
         /\ r.by \in hasCart => ShopFact(q)
         /\ r.by \in hasCart' => ShopFact(q)'
<1>1. /\ IsCall(q) /\ q.by = r.by /\ q.op = r.op /\ q.arg = r.arg
      /\ q.excuse = r.excuse /\ q.pc \in {"done", "sku", "clear", "evaluate"}
      /\ q.answer \in {"none", "ok", "cart-empty"}
      /\ q.pc # "done" => q.answer = "none"
  BY WithCartIs
<1>2. ShopperLands(q)
  BY <1>1
  DEF Begun, ShopperLands, ShopLands, CallSound, ShopArgs, ShopperOps, ShoppingOps,
      CartPcs
<1>3. r.by \in hasCart => ShopFact(q)
  BY <1>1 DEF ShopFact
<1>4. r.by \in hasCart' => ShopFact(q)'
  BY <1>1 DEF ShopFact
<1> QED
  BY <1>2, <1>3, <1>4

LEMMA CartAsked ==
  ASSUME NEW c \in Calls, NEW r, Begun(r, CartOps), ShopArgs(r), findOrCreateCart(c, r)
  PROVE  ShopperDoes(c)
<1> DEFINE q == Goes(r, "createCart")
<1>1. /\ IsCall(q) /\ q.by = r.by /\ q.op = r.op /\ q.arg = r.arg /\ q.pc = "createCart"
      /\ q.answer = "none" /\ q.excuse = r.excuse
  BY GoesIs DEF Begun, Keeps
<1>2. Look(c, q) \/ (r.by \in hasCart /\ Look(c, WithCart(r)))
  <2> HIDE DEF q
  <2>1. Look(c, IF r.by \in hasCart THEN WithCart(r) ELSE q)
    BY DEF findOrCreateCart, q
  <2> QED
    BY <2>1
<1> HIDE DEF q
<1>3. ShopperLands(q) /\ ShopFact(q)
  BY <1>1
  DEF Begun, ShopperLands, ShopLands, CallSound, ShopArgs, ShopperOps, ShoppingOps,
      CartPcs, ShopFact
<1> QED
  BY <1>2, <1>3, CartGoesOn DEF ShopperDoes

\* A write to one row of cart_items.
LEMMA ItemWritten ==
  ASSUME ShopTables, NEW c \in Calls, NEW r, NEW i, NEW row \in ItemRows, row # NoItem,
         row.user \in hasCart, WriteItem(c, r, i, row)
  PROVE  Touch(c, r) /\ ShopTables' /\ ShopStay
BY DEF WriteItem, ShopTables, ShopStay, ItemRows

LiveItem(i) ==
  item[i] \in [state : {"live", Gone}, user : Users, sku : Skus, quantity : 1 .. MaxInt]

LEMMA LiveItems ==
  ASSUME ShopTables, NEW i \in Items, item[i] # NoItem
  PROVE  LiveItem(i) /\ item[i].user \in hasCart
BY DEF ShopTables, ItemRows, LiveItem

LEMMA ItemRow ==
  ASSUME NEW row \in [state : {"live", Gone}, user : Users, sku : Skus,
                      quantity : 1 .. MaxInt]
  PROVE  row \in ItemRows /\ row # NoItem
BY DEF ItemRows, NoItem, Unused, Gone

\* The cart.
LEMMA CartDoes ==
  ASSUME ShopTables, NEW c \in Calls, CallSound(call[c]), ShopArgs(call[c]), ShopFact(call[c])
  PROVE  \/ getOrCreate(c) \/ addItem(c) \/ clear(c) \/ validate(c)
         \/ createCart(c) \/ readWinner(c) \/ assertSkuIsPurchasable(c) \/ upsertItem(c)
         => ShopperDoes(c)
<1>1. ASSUME getOrCreate(c)
      PROVE  ShopperDoes(c)
  <2>1. PICK u \in Callers(CartController.getCart) :
          findOrCreateCart(c, Request(u, "getCart", <<>>))
    BY <1>1 DEF getOrCreate
  <2> DEFINE r == Request(u, "getCart", <<>>)
  <2>2. Begun(r, CartOps) /\ ShopArgs(r)
    BY RequestBegun, RequestIs, AccountsOnly DEF CartOps, ShopArgs
  <2> QED
    BY <2>1, <2>2, CartAsked
<1>2. ASSUME addItem(c)
      PROVE  ShopperDoes(c)
  <2>1. PICK u \in Callers(CartController.addItem), s \in Skus, n \in 1 .. MaxInt + 1 :
          findOrCreateCart(c, Request(u, "addItem", [sku |-> s, quantity |-> n]))
    BY <1>2 DEF addItem
  <2> DEFINE r == Request(u, "addItem", [sku |-> s, quantity |-> n])
  <2>2. Begun(r, CartOps) /\ r.op = "addItem" /\ r.by = u
        /\ r.arg = [sku |-> s, quantity |-> n]
    BY RequestBegun, RequestIs DEF CartOps
  <2> HIDE DEF r
  <2>3. ShopArgs(r)
    BY <2>2, AccountsOnly DEF ShopArgs
  <2> QED
    BY <2>1, <2>2, <2>3, CartAsked DEF r
<1>3. ASSUME clear(c)
      PROVE  ShopperDoes(c)
  <2>1. PICK u \in Callers(CartController.clearCart) :
          findOrCreateCart(c, Request(u, "clearCart", <<>>))
    BY <1>3 DEF clear
  <2> DEFINE r == Request(u, "clearCart", <<>>)
  <2>2. Begun(r, CartOps) /\ ShopArgs(r)
    BY RequestBegun, RequestIs, AccountsOnly DEF CartOps, ShopArgs
  <2> QED
    BY <2>1, <2>2, CartAsked
<1>4. ASSUME validate(c)
      PROVE  ShopperDoes(c)
  <2>1. PICK u \in Callers(PromosController.validate), typed \in Typed :
          findOrCreateCart(c, Request(u, "validatePromo", [code |-> typed]))
    BY <1>4 DEF validate
  <2> DEFINE r == Request(u, "validatePromo", [code |-> typed])
  <2>2. Begun(r, CartOps) /\ r.op = "validatePromo" /\ r.by = u /\ r.arg = [code |-> typed]
    BY RequestBegun, RequestIs DEF CartOps
  <2> HIDE DEF r
  <2>3. ShopArgs(r)
    BY <2>2, AccountsOnly DEF ShopArgs
  <2> QED
    BY <2>1, <2>2, <2>3, CartAsked DEF r
<1>5. ASSUME createCart(c)
      PROVE  ShopperDoes(c)
  <2> DEFINE r == call[c]
             q == Goes(r, "readWinner")
  <2>1. r.pc = "createCart" /\ Begun(r, CartOps) /\ ShopArgs(r)
    BY <1>5 DEF createCart, CallSound, Begun, CartPcs
  <2>2. \/ r.by \in hasCart /\ Look(c, q)
        \/ /\ hasCart' = hasCart \cup {r.by}
           /\ UNCHANGED <<item, likes, promo>>
           /\ Touch(c, WithCart(r))
    BY <1>5 DEF createCart
  <2>3. /\ IsCall(q) /\ q.by = r.by /\ q.op = r.op /\ q.arg = r.arg /\ q.pc = "readWinner"
        /\ q.answer = "none" /\ q.excuse = r.excuse
    BY <2>1, GoesIs DEF Begun, Keeps
  <2>4. r.by \in Users
    BY <2>1 DEF Begun, ShopArgs
  <2> HIDE DEF r, q
  <2>5. ShopperLands(q) /\ (r.by \in hasCart => ShopFact(q))
    BY <2>1, <2>3
    DEF Begun, ShopperLands, ShopLands, CallSound, ShopArgs, ShopperOps, ShoppingOps,
        CartPcs, ShopFact
  <2>6. ASSUME hasCart' = hasCart \cup {r.by}, UNCHANGED <<item, likes, promo>>
        PROVE  ShopTables' /\ ShopStay
    BY <2>4, <2>6 DEF ShopTables, ShopStay
  <2>7. PICK cart : cart = WithCart(r)
    OBVIOUS
  <2>8. ShopperLands(cart)
    BY <2>1, <2>7, CartGoesOn
  <2>9. ASSUME hasCart' = hasCart \cup {r.by}
        PROVE  ShopFact(cart)'
    BY <2>1, <2>7, <2>9, CartGoesOn
  <2> QED
    BY <2>2, <2>5, <2>6, <2>7, <2>8, <2>9 DEF ShopperDoes
<1>6. ASSUME readWinner(c)
      PROVE  ShopperDoes(c)
  <2> DEFINE r == call[c]
  <2>1. r.pc = "readWinner" /\ Begun(r, CartOps) /\ ShopArgs(r) /\ r.by \in hasCart
    BY <1>6 DEF readWinner, CallSound, Begun, CartPcs, ShopFact
  <2>2. Look(c, WithCart(r))
    BY <1>6, <2>1 DEF readWinner
  <2> QED
    BY <2>1, <2>2, CartGoesOn DEF ShopperDoes
<1>7. ASSUME assertSkuIsPurchasable(c)
      PROVE  ShopperDoes(c)
  <2> DEFINE r == call[c]
  <2>1. r.op = "addItem" /\ r.pc = "sku" /\ Begun(r, ShopperOps) /\ r.by \in hasCart
    BY <1>7 DEF assertSkuIsPurchasable, At, CallSound, Begun, ShopperOps, CartOps, ShopFact
  <2>2. Look(c, Goes(r, "upsert")) \/ Look(c, NotFound(r))
    BY <1>7 DEF assertSkuIsPurchasable
  <2>3. ShopFact(Goes(r, "upsert"))
    BY <2>1, GoesIs DEF ShopFact, Begun, Keeps
  <2> HIDE DEF r
  <2> QED
    BY <2>1, <2>2, <2>3, ShopEnds DEF ShopperDoes, CartPcs, r
<1>8. ASSUME upsertItem(c)
      PROVE  ShopperDoes(c)
  <2> DEFINE r == call[c]
             e == Ends(r, "ok")
             new == [state |-> "live", user |-> r.by, sku |-> r.arg.sku,
                     quantity |-> r.arg.quantity]
  <2>1. /\ r.op = "addItem" /\ r.pc = "upsert" /\ Begun(r, ShopperOps) /\ ShopArgs(r)
        /\ r.by \in hasCart /\ r.by \in Users
        /\ r.arg.sku \in Skus /\ r.arg.quantity \in 1 .. MaxInt + 1
    BY <1>8 DEF upsertItem, At, CallSound, Begun, ShopperOps, CartOps, ShopFact, ShopArgs
  <2>2. ShopperLands(e) /\ e.pc = "done"
    BY <2>1, ShopEnds
  <2>3. \/ \E i : r.arg.quantity <= MaxInt /\ WriteItem(c, e, i, new)
        \/ \E j \in Items :
             /\ item[j].state = "live"
             /\ item[j].quantity + r.arg.quantity <= MaxInt
             /\ WriteItem(c, e, j, [item[j] EXCEPT !.quantity =
                                     item[j].quantity + r.arg.quantity])
        \/ Look(c, Refused(r))
    <3>1. CASE r.arg.quantity <= MaxInt /\ \E i : WriteItem(c, e, i, new)
      BY <3>1
    <3>2. ASSUME NEW j \in Items, item[j].state = "live",
                 LET sum == item[j].quantity + r.arg.quantity
                 IN IF sum > MaxInt THEN Look(c, Refused(r))
                    ELSE WriteItem(c, e, j, [item[j] EXCEPT !.quantity = sum])
          PROVE  \/ Look(c, Refused(r))
                 \/ /\ item[j].quantity + r.arg.quantity <= MaxInt
                    /\ WriteItem(c, e, j, [item[j] EXCEPT !.quantity =
                                            item[j].quantity + r.arg.quantity])
      <4>1. item[j].quantity \in Nat
        <5>1. LiveItem(j)
          BY <3>2, LiveItems DEF NoItem, Unused
        <5> QED
          BY <5>1, ShoppingAssumption, CatalogAssumption DEF LiveItem
      <4> QED
        BY <2>1, <3>2, <4>1, CatalogAssumption
    <3> QED
      BY <1>8, <3>1, <3>2 DEF upsertItem, Rows
  <2>4. ASSUME Look(c, Refused(r))
        PROVE  ShopperDoes(c)
    BY <2>1, <2>4, ShopEnds DEF ShopperDoes
  <2> HIDE DEF r, e
  <2>5. ASSUME NEW i, r.arg.quantity <= MaxInt, WriteItem(c, e, i, new)
        PROVE  ShopperDoes(c)
    <3>1. new \in ItemRows /\ new # NoItem /\ new.user \in hasCart
      BY <2>1, <2>5, ItemRow, CatalogAssumption
    <3> HIDE DEF new
    <3> QED
      BY <2>2, <2>5, <3>1, ItemWritten, ShopOver
  <2>6. ASSUME NEW j \in Items, item[j].state = "live",
               item[j].quantity + r.arg.quantity <= MaxInt,
               WriteItem(c, e, j, [item[j] EXCEPT !.quantity =
                                   item[j].quantity + r.arg.quantity])
        PROVE  ShopperDoes(c)
    <3> DEFINE sum == item[j].quantity + r.arg.quantity
               row == [item[j] EXCEPT !.quantity = sum]
    <3>1. LiveItem(j) /\ item[j].user \in hasCart
      BY <2>6, LiveItems DEF NoItem, Unused
    <3>2. sum \in 1 .. MaxInt
      BY <2>1, <2>6, <3>1, CatalogAssumption DEF LiveItem
    <3>3. WriteItem(c, e, j, row)
      BY <2>6
    <3> HIDE DEF sum
    <3>4. /\ row \in [state : {"live", Gone}, user : Users, sku : Skus,
                      quantity : 1 .. MaxInt]
          /\ row.user = item[j].user
      BY <3>1, <3>2 DEF LiveItem
    <3> HIDE DEF row
    <3>5. row \in ItemRows /\ row # NoItem
      BY <3>4, ItemRow
    <3> QED
      BY <2>2, <3>1, <3>3, <3>4, <3>5, ItemWritten, ShopOver
  <2> QED
    BY <2>3, <2>4, <2>5, <2>6
<1> QED
  BY <1>1, <1>2, <1>3, <1>4, <1>5, <1>6, <1>7, <1>8

\* The rows of a cart, edited and emptied.
LEMMA ItemsDo ==
  ASSUME ShopTables, NEW c \in Calls, CallSound(call[c]), ShopArgs(call[c]), ShopFact(call[c])
  PROVE  updateItem(c) \/ removeItem(c) \/ writeItem(c) \/ deleteItems(c) => ShopperDoes(c)
<1>0. \A i \in Items : item[i].state = "live" => item[i] # NoItem
  BY DEF NoItem, Unused
<1>1. ASSUME updateItem(c)
      PROVE  ShopperDoes(c)
  <2>1. PICK u \in Callers(CartController.updateItem), i \in Items, n \in 1 .. MaxInt + 1 :
          LET r == Request(u, "updateItem", [id |-> i, quantity |-> n])
          IN \/ item[i].state = "live" /\ Look(c, Goes(r, "write"))
             \/ Look(c, NotFound(r))
    BY <1>1 DEF updateItem, getOwnCartItemOrThrow
  <2> DEFINE r == Request(u, "updateItem", [id |-> i, quantity |-> n])
  <2>2. /\ Begun(r, ShopperOps) /\ r.op = "updateItem" /\ r.by = u
        /\ r.arg = [id |-> i, quantity |-> n]
    BY RequestBegun, RequestIs DEF ShopperOps
  <2> HIDE DEF r
  <2>3. ShopArgs(r)
    BY <2>2 DEF ShopArgs, CartOps
  <2>4. item[i].state = "live" => ShopFact(Goes(r, "write"))
    BY <1>0, <2>2, GoesIs DEF ShopFact, Begun, Keeps
  <2> QED
    BY <2>1, <2>2, <2>3, <2>4, ShopEnds DEF ShopperDoes, CartPcs, r
<1>2. ASSUME removeItem(c)
      PROVE  ShopperDoes(c)
  <2>1. PICK u \in Callers(CartController.removeItem), i \in Items :
          LET r == Request(u, "removeItem", [id |-> i])
          IN \/ item[i].state = "live" /\ Look(c, Goes(r, "write"))
             \/ Look(c, NotFound(r))
    BY <1>2 DEF removeItem, getOwnCartItemOrThrow
  <2> DEFINE r == Request(u, "removeItem", [id |-> i])
  <2>2. /\ Begun(r, ShopperOps) /\ r.op = "removeItem" /\ r.by = u /\ r.arg = [id |-> i]
    BY RequestBegun, RequestIs DEF ShopperOps
  <2> HIDE DEF r
  <2>3. ShopArgs(r)
    BY <2>2 DEF ShopArgs, CartOps
  <2>4. item[i].state = "live" => ShopFact(Goes(r, "write"))
    BY <1>0, <2>2, GoesIs DEF ShopFact, Begun, Keeps
  <2> QED
    BY <2>1, <2>2, <2>3, <2>4, ShopEnds DEF ShopperDoes, CartPcs, r
<1>3. ASSUME writeItem(c)
      PROVE  ShopperDoes(c)
  <2> DEFINE r == call[c]
             i == r.arg.id
             e == Ends(r, "ok")
             row == IF r.op = "updateItem" THEN [item[i] EXCEPT !.quantity = r.arg.quantity]
                                           ELSE [item[i] EXCEPT !.state = Gone]
  <2>1. /\ r.op \in {"updateItem", "removeItem"} /\ r.pc = "write" /\ Begun(r, ShopperOps)
        /\ ShopArgs(r) /\ i \in Items /\ item[i] # NoItem
        /\ r.op = "updateItem" => r.arg.quantity \in 1 .. MaxInt + 1
    BY <1>3 DEF writeItem, CallSound, Begun, ShopperOps, ShopFact, ShopArgs
  <2> DEFINE fits == r.op = "updateItem" => r.arg.quantity \in 1 .. MaxInt
  <2>2. (fits /\ WriteItem(c, e, i, row)) \/ Look(c, NotFound(r)) \/ Look(c, Refused(r))
    BY <1>3, <2>1, CatalogAssumption DEF writeItem
  <2>3. LiveItem(i) /\ item[i].user \in hasCart
    BY <2>1, LiveItems
  <2>4. fits => /\ row \in [state : {"live", Gone}, user : Users, sku : Skus,
                            quantity : 1 .. MaxInt]
                /\ row.user = item[i].user
    BY <2>1, <2>3 DEF LiveItem
  <2>5. ShopperLands(e) /\ e.pc = "done"
    BY <2>1, ShopEnds
  <2> HIDE DEF r, e, row, fits
  <2>6. fits => row \in ItemRows /\ row # NoItem
    BY <2>4, ItemRow
  <2>7. CASE fits /\ WriteItem(c, e, i, row)
    BY <2>3, <2>4, <2>5, <2>6, <2>7, ItemWritten, ShopOver
  <2>8. CASE Look(c, NotFound(r)) \/ Look(c, Refused(r))
    BY <2>1, <2>8, ShopEnds DEF ShopperDoes
  <2> QED
    BY <2>2, <2>7, <2>8
<1>4. ASSUME deleteItems(c)
      PROVE  ShopperDoes(c)
  <2> DEFINE r == call[c]
             e == Ends(r, "ok")
  <2>1. r.op = "clearCart" /\ Begun(r, ShopperOps) /\ ShopArgs(r)
    BY <1>4 DEF deleteItems, At, CallSound, Begun, ShopperOps, CartOps
  <2>2. ShopperLands(e) /\ e.pc = "done"
    BY <2>1, ShopEnds
  <2>3. /\ item' = [i \in Items |-> IF i \in Rows(call[c].by)
                                    THEN [item[i] EXCEPT !.state = Gone] ELSE item[i]]
        /\ UNCHANGED <<hasCart, likes, promo>> /\ Touch(c, e)
    BY <1>4 DEF deleteItems
  <2>4. ASSUME NEW i \in Items
        PROVE  /\ item'[i] \in ItemRows /\ (item'[i] # NoItem => item'[i].user \in hasCart)
               /\ item[i] # NoItem => item'[i] # NoItem
    <3>1. CASE i \in Rows(call[c].by)
      <4>1. item'[i] = [item[i] EXCEPT !.state = Gone] /\ item[i] # NoItem
        BY <1>0, <2>3, <3>1 DEF Rows
      <4>2. LiveItem(i) /\ item[i].user \in hasCart
        BY <4>1, LiveItems
      <4>3. /\ item'[i] \in [state : {"live", Gone}, user : Users, sku : Skus,
                             quantity : 1 .. MaxInt]
            /\ item'[i].user = item[i].user
        BY <4>1, <4>2 DEF LiveItem
      <4> QED
        BY <4>2, <4>3, ItemRow
    <3>2. CASE i \notin Rows(call[c].by)
      BY <2>3, <3>2 DEF ShopTables
    <3> QED
      BY <3>1, <3>2
  <2>5. ShopTables' /\ ShopStay
    BY <2>3, <2>4 DEF ShopTables, ShopStay
  <2> QED
    BY <2>2, <2>3, <2>5, ShopOver
<1> QED
  BY <1>1, <1>2, <1>3, <1>4

\* The likes.
LEMMA LikesDo ==
  ASSUME ShopTables, NEW c \in Calls, CallSound(call[c]), ShopArgs(call[c])
  PROVE  like(c) \/ unlike(c) \/ writeLike(c) => ShopperDoes(c)
<1>1. ASSUME like(c) \/ unlike(c)
      PROVE  ShopperDoes(c)
  <2>1. PICK op \in {"like", "unlike"} : \E u, p :
          LET r == Request(u, op, [id |-> p])
          IN Look(c, Goes(r, "write")) \/ Look(c, NotFound(r))
    BY <1>1 DEF like, unlike, assertProductLikeable, assertProductExists
  <2>0. PICK u, p : LET r == Request(u, op, [id |-> p])
                    IN Look(c, Goes(r, "write")) \/ Look(c, NotFound(r))
    BY <2>1
  <2> DEFINE r == Request(u, op, [id |-> p])
  <2>2. Begun(r, ShopperOps) /\ r.op \in {"like", "unlike"}
    BY RequestBegun, RequestIs DEF ShopperOps
  <2> HIDE DEF r
  <2>3. ShopArgs(r)
    BY <2>2 DEF ShopArgs, CartOps
  <2>4. ShopFact(Goes(r, "write"))
    BY <2>2, GoesIs DEF ShopFact, Begun, Keeps
  <2> QED
    BY <2>0, <2>2, <2>3, <2>4, ShopEnds DEF ShopperDoes, CartPcs, r
<1>2. ASSUME writeLike(c)
      PROVE  ShopperDoes(c)
  <2> DEFINE r == call[c]
             e == Ends(r, "ok")
  <2>1. Begun(r, ShopperOps) /\ ShopArgs(r)
    BY <1>2 DEF writeLike, CallSound, Begun, ShopperOps
  <2>2. ShopperLands(e) /\ e.pc = "done"
    BY <2>1, ShopEnds
  <2>3. UNCHANGED <<hasCart, item, promo>> /\ Touch(c, e)
    BY <1>2 DEF writeLike
  <2>4. ShopTables' /\ ShopStay
    BY <2>3 DEF ShopTables, ShopStay
  <2> QED
    BY <2>2, <2>3, <2>4, ShopOver
<1> QED
  BY <1>1, <1>2

\* A write to one row of promo_codes: the code stays the only one of its kind.
LEMMA PromoWritten ==
  ASSUME ShopTables, NEW c \in Calls, NEW r, NEW p, NEW row \in PromoRows,
         row.state = "live", row.code.upper,
         \A q \in Promos \ {p} : promo[q].state = "live" => promo[q].code # row.code,
         WritePromo(c, r, p, row)
  PROVE  Touch(c, r) /\ ShopTables' /\ ShopStay
<1>1. row # NoPromo
  BY DEF NoPromo, Unused
<1>2. /\ promo' = [promo EXCEPT ![p] = row] /\ promo \in [Promos -> PromoRows]
      /\ hasCart' = hasCart /\ item' = item /\ Touch(c, r)
  BY DEF WritePromo, ShopTables
<1>3. \A q \in Promos : promo'[q] = IF q = p THEN row ELSE promo[q]
  BY <1>2
<1>4. promo' \in [Promos -> PromoRows]
  BY <1>2
<1>5. /\ \A q \in Promos : promo'[q].state = "live" => promo'[q].code.upper
      /\ \A q, s \in Promos :
           promo'[q].state = "live" /\ promo'[s].state = "live" /\ q # s
           => promo'[q].code # promo'[s].code
  BY <1>3 DEF ShopTables
<1>6. ShopTables'
  BY <1>2, <1>4, <1>5 DEF ShopTables
<1>7. ShopStay
  BY <1>1, <1>2, <1>3 DEF ShopStay
<1> QED
  BY <1>2, <1>6, <1>7

FullPromo == [state : {"live"}, code : Typed, terms : Terms, active : BOOLEAN,
              expired : BOOLEAN, limit : Limits, redeemed : Nat]

\* The promo codes.
LEMMA PromosDo ==
  ASSUME ShopTables, NEW c \in Calls, CallSound(call[c]), ShopArgs(call[c]), ShopFact(call[c])
  PROVE  \/ createPromo(c) \/ getPromo(c) \/ updatePromo(c) \/ savePromo(c) \/ evaluate(c)
         => ShopperDoes(c)
<1>1. ASSUME createPromo(c)
      PROVE  ShopperDoes(c)
  <2>1. PICK u \in Callers(PromosController.create), typed \in Typed, terms \in Terms,
             limit \in Limits, expired \in BOOLEAN : \E p :
          LET code == toUpperCase(typed)
              r == Request(u, "createPromo", [code |-> typed])
          IN \/ Look(c, Ends(r, "promo-code-taken")) \/ Look(c, Refused(r))
             \/ /\ WithCode(code) = {}
                /\ WritePromo(c, Ends(r, "ok"), p,
                     [state |-> "live", code |-> code, terms |-> terms, active |-> TRUE,
                      expired |-> expired, limit |-> limit, redeemed |-> 0])
    BY <1>1 DEF createPromo
  <2>0. PICK p :
          LET code == toUpperCase(typed)
              r == Request(u, "createPromo", [code |-> typed])
          IN \/ Look(c, Ends(r, "promo-code-taken")) \/ Look(c, Refused(r))
             \/ /\ WithCode(code) = {}
                /\ WritePromo(c, Ends(r, "ok"), p,
                     [state |-> "live", code |-> code, terms |-> terms, active |-> TRUE,
                      expired |-> expired, limit |-> limit, redeemed |-> 0])
    BY <2>1
  <2> DEFINE code == toUpperCase(typed)
             r == Request(u, "createPromo", [code |-> typed])
             e == Ends(r, "ok")
             row == [state |-> "live", code |-> code, terms |-> terms, active |-> TRUE,
                     expired |-> expired, limit |-> limit, redeemed |-> 0]
  <2>2. Begun(r, ShopperOps) /\ r.op = "createPromo"
    BY RequestBegun, RequestIs DEF ShopperOps
  <2>3. code \in Typed /\ code.upper
    BY DEF toUpperCase, Typed
  <2> HIDE DEF r, code
  <2>4. ShopArgs(r)
    BY <2>2 DEF ShopArgs, CartOps
  <2>5. ShopperLands(e) /\ e.pc = "done"
    BY <2>2, <2>4, ShopEnds
  <2>6. row \in PromoRows /\ row.state = "live" /\ row.code = code
    BY <2>3 DEF PromoRows
  <2>7. CASE WithCode(code) = {} /\ WritePromo(c, e, p, row)
    <3> HIDE DEF row, e
    <3>1. \A q \in Promos \ {p} : promo[q].state = "live" => promo[q].code # row.code
      BY <2>6, <2>7 DEF WithCode
    <3> QED
      BY <2>3, <2>5, <2>6, <2>7, <3>1, PromoWritten, ShopOver
  <2>8. CASE Look(c, Ends(r, "promo-code-taken")) \/ Look(c, Refused(r))
    BY <2>2, <2>4, <2>8, ShopEnds DEF ShopperDoes
  <2> QED
    BY <2>0, <2>7, <2>8 DEF r, code
<1>2. ASSUME getPromo(c)
      PROVE  ShopperDoes(c)
  <2>1. PICK u \in Callers(PromosController.getById), p \in Promos :
          LET r == Request(u, "getPromo", [id |-> p])
          IN Look(c, Ends(r, "ok")) \/ Look(c, NotFound(r))
    BY <1>2 DEF getPromo, getEntityOrThrow
  <2> DEFINE r == Request(u, "getPromo", [id |-> p])
  <2>2. Begun(r, ShopperOps) /\ r.op = "getPromo"
    BY RequestBegun, RequestIs DEF ShopperOps
  <2> HIDE DEF r
  <2>3. ShopArgs(r)
    BY <2>2 DEF ShopArgs, CartOps
  <2> QED
    BY <2>1, <2>2, <2>3, ShopEnds DEF ShopperDoes, r
<1>3. ASSUME updatePromo(c)
      PROVE  ShopperDoes(c)
  <2>1. PICK u \in Callers(PromosController.update), p \in Promos, terms \in Terms, limit \in Limits,
             active \in BOOLEAN, expired \in BOOLEAN :
          LET r == Request(u, "updatePromo", [id |-> p, terms |-> terms, limit |-> limit,
                                              active |-> active, expired |-> expired])
          IN \/ promo[p].state = "live" /\ Look(c, Goes(r, "write"))
             \/ Look(c, NotFound(r))
    BY <1>3 DEF updatePromo, getEntityOrThrow
  <2> DEFINE arg == [id |-> p, terms |-> terms, limit |-> limit,
                     active |-> active, expired |-> expired]
             r == Request(u, "updatePromo", arg)
  <2>2. Begun(r, ShopperOps) /\ r.op = "updatePromo" /\ r.arg = arg
    BY RequestBegun, RequestIs DEF ShopperOps
  <2> HIDE DEF r
  <2>3. ShopArgs(r)
    BY <2>2 DEF ShopArgs, CartOps
  <2>4. promo[p].state = "live" => promo[p] # NoPromo
    BY DEF NoPromo, Unused
  <2>5. promo[p].state = "live" => ShopFact(Goes(r, "write"))
    BY <2>2, <2>4, GoesIs DEF ShopFact, Begun, Keeps
  <2> QED
    BY <2>1, <2>2, <2>3, <2>5, ShopEnds DEF ShopperDoes, CartPcs, r
<1>4. ASSUME savePromo(c)
      PROVE  ShopperDoes(c)
  <2> DEFINE r == call[c]
             p == r.arg.id
             e == Ends(r, "ok")
             row == [promo[p] EXCEPT !.terms = r.arg.terms, !.limit = r.arg.limit,
                                     !.active = r.arg.active, !.expired = r.arg.expired]
  <2>1. r.op = "updatePromo" /\ r.pc = "write" /\ Begun(r, ShopperOps) /\ ShopArgs(r)
    BY <1>4 DEF savePromo, At, CallSound, Begun, ShopperOps
  <2>2. /\ p \in Promos /\ promo[p] # NoPromo
        /\ r.arg.terms \in Terms /\ r.arg.limit \in Limits
        /\ r.arg.active \in BOOLEAN /\ r.arg.expired \in BOOLEAN
    BY <2>1 DEF ShopFact
  <2>3. WritePromo(c, e, p, row)
    BY <1>4 DEF savePromo
  <2>4. promo[p] \in FullPromo
    BY <2>2 DEF ShopTables, PromoRows, FullPromo
  <2>5. row \in FullPromo /\ row.code = promo[p].code
    BY <2>2, <2>4 DEF FullPromo
  <2>6. promo[p].state = "live"
    BY <2>4 DEF FullPromo
  <2>7. ShopperLands(e) /\ e.pc = "done"
    BY <2>1, ShopEnds
  <2> HIDE DEF r, e, row
  <2>8. row \in PromoRows /\ row.state = "live" /\ row.code.upper
    BY <2>2, <2>5, <2>6 DEF PromoRows, FullPromo, ShopTables
  <2>9. \A q \in Promos \ {p} : promo[q].state = "live" => promo[q].code # row.code
    BY <2>2, <2>5, <2>6 DEF ShopTables
  <2> QED
    BY <2>3, <2>7, <2>8, <2>9, PromoWritten, ShopOver
<1>5. ASSUME evaluate(c)
      PROVE  ShopperDoes(c)
  <2> DEFINE r == call[c]
  <2>1. r.op = "validatePromo" /\ Begun(r, ShopperOps) /\ ShopArgs(r)
    BY <1>5 DEF evaluate, At, CallSound, Begun, ShopperOps, CartOps
  <2>2. PICK reason, off :
          /\ reason # "internal-error"
          /\ Look(c, [Ends(r, reason) EXCEPT !.total = @ - off])
    <3>1. \A found, subtotal : evaluatePromoCode(found, subtotal) # "internal-error"
      BY DEF evaluatePromoCode
    <3> DEFINE found == WithCode(toUpperCase(r.arg.code))
               reason == evaluatePromoCode(found, r.total)
               off == IF reason = "valid"
                      THEN Discount(promo[CHOOSE p \in found : TRUE].terms, r.total) ELSE 0
    <3>2. Look(c, [Ends(r, reason) EXCEPT !.total = @ - off])
      BY <1>5 DEF evaluate
    <3>3. reason # "internal-error"
      BY <3>1
    <3> HIDE DEF reason, off
    <3> QED
      BY <3>2, <3>3
  <2> DEFINE e == Ends(r, reason)
             q == [e EXCEPT !.total = @ - off]
  <2>3. ShopperLands(e) /\ e.pc = "done"
    BY <2>1, <2>2, ShopEnds
  <2> HIDE DEF e
  <2>4. /\ IsCall(q) /\ q.by = e.by /\ q.op = e.op /\ q.arg = e.arg /\ q.pc = "done"
        /\ q.answer = e.answer /\ q.excuse = e.excuse
    BY <2>3 DEF ShopperLands, ShopLands, ShopperOps, ShoppingOps, CallSound, IsCall
  <2>5. Look(c, q)
    BY <2>2 DEF e
  <2> HIDE DEF q
  <2>6. ShopperLands(q) /\ ShopFact(q)
    BY <2>3, <2>4
    DEF ShopperLands, ShopLands, ShopperOps, ShoppingOps, CallSound, ShopArgs, ShopFact,
        CartPcs
  <2> QED
    BY <2>5, <2>6 DEF ShopperDoes
<1> QED
  BY <1>1, <1>2, <1>3, <1>4, <1>5

\* A list of two halves relies on nothing it read.
LEMMA HalfLands ==
  ASSUME NEW r, Begun(r, ListOps), NEW pc \in {"count", "page"}, NEW x
  PROVE  /\ LET q == [Goes(r, pc) EXCEPT !.found = x] IN ShopLands(q) /\ ShopFact(q)
         /\ LET q == [Goes(r, pc) EXCEPT !.total = x] IN ShopLands(q) /\ ShopFact(q)
         /\ LET q == [Ends(r, "ok") EXCEPT !.found = x] IN ShopLands(q) /\ ShopFact(q)
         /\ LET q == [Ends(r, "ok") EXCEPT !.total = x] IN ShopLands(q) /\ ShopFact(q)
<1> DEFINE Fine(q) ==
             /\ IsCall(q) /\ q.op \in ListOps /\ q.pc \in {"count", "page", "done"}
             /\ q.answer \in {"none", "ok"} /\ (q.pc # "done" => q.answer = "none")
             /\ q.excuse \subseteq Excuses
<1>1. Fine(Goes(r, pc)) /\ Fine(Ends(r, "ok"))
  BY GoesIs, EndsIs DEF Begun, Keeps
<1>2. ASSUME NEW q, Fine(q)
      PROVE  Fine([q EXCEPT !.found = x]) /\ Fine([q EXCEPT !.total = x])
  BY <1>2 DEF IsCall
<1>3. ASSUME NEW q, Fine(q)
      PROVE  ShopLands(q) /\ ShopFact(q)
  BY <1>3
  DEF ShopLands, CallSound, ShopArgs, ShopFact, ListOps, ShoppingOps, ShopperOps, CartOps,
      CartPcs
<1> HIDE DEF Fine
<1> QED
  BY <1>1, <1>2, <1>3

LEMMA ListsDo ==
  ASSUME NEW c \in Calls, CallSound(call[c])
  PROVE  listAndCount(c) \/ otherHalf(c) => ShopDoes(c)
<1>1. ASSUME listAndCount(c)
      PROVE  ShopDoes(c)
  <2>1. PICK r \in ListRequests :
          \/ Look(c, [Goes(r, "count") EXCEPT !.found = PageOf(r)])
          \/ Look(c, [Goes(r, "page") EXCEPT !.total = Len(Listed(r))])
    BY <1>1 DEF listAndCount
  <2>2. PICK op \in ListOps : \E u, arg : r = Request(u, op, arg)
    BY DEF ListRequests, ListOps
  <2>3. Begun(r, ListOps)
    BY <2>2, RequestBegun
  <2> QED
    BY <2>1, <2>3, HalfLands DEF ShopDoes
<1>2. ASSUME otherHalf(c)
      PROVE  ShopDoes(c)
  <2> DEFINE r == call[c]
  <2>1. Begun(r, ListOps)
    BY <1>2 DEF otherHalf, CallSound, Begun, ListOps
  <2>2. PICK x : \/ Look(c, [Ends(r, "ok") EXCEPT !.found = x])
                 \/ Look(c, [Ends(r, "ok") EXCEPT !.total = x])
    BY <1>2 DEF otherHalf
  <2> HIDE DEF r
  <2> QED
    BY <2>1, <2>2, HalfLands DEF ShopDoes
<1> QED
  BY <1>1, <1>2

LEMMA ShoppingStepDoes ==
  ASSUME ShopTables, NEW c \in Calls, CallSound(call[c]), ShopArgs(call[c]),
         ShopFact(call[c]), ShoppingStep(c)
  PROVE  ShopDoes(c) /\ (call[c].pc = "idle" \/ call[c].op \in ShoppingOps)
<1>1. ShopDoes(c)
  BY CartDoes, ItemsDo, LikesDo, PromosDo, ListsDo
  DEF ShoppingStep, ShoppingRequest, ShopperDoes, ShopperLands, ShopDoes
<1>2. call[c].pc = "idle" \/ call[c].op \in ShoppingOps
  BY DEF ShoppingStep, ShoppingRequest, getOrCreate, addItem, updateItem, removeItem, clear,
         like, unlike, createPromo, getPromo, updatePromo, validate, listAndCount, createCart,
         readWinner, assertSkuIsPurchasable, upsertItem, writeItem, deleteItems, writeLike,
         savePromo, evaluate, otherHalf, Asked, At, ShoppingOps, ShopperOps, ListOps, CartOps,
         CallSound, CartPcs
<1> QED
  BY <1>1, <1>2

(***************************************************************************)
(* The images: the object of a live row is there, but for an upload that   *)
(* cleans up after a lost reply; an object without a live row has a call   *)
(* that will remove it, or one that S3 or the reply to its DELETE failed.  *)
(***************************************************************************)
Uploading == {"put", "position", "insert", "clean"}

ImageTables ==
  /\ image \in [Images -> ImageRows]
  /\ objects \subseteq Images

ImageFact(r) ==
  /\ r.op = "uploadImage" =>
       /\ r.arg \in [product : Products, position : Nat, key : Images]
       /\ r.pc \in Uploading =>
            image[r.arg.key].state = Unused \/ (r.pc = "clean" /\ "database" \in r.excuse)
       /\ r.pc \in {"position", "insert"} => r.arg.key \in objects
       /\ r.pc = "clean" => r.excuse # {}
       /\ r.pc = "insert" /\ r.excuse = {} =>
            \A i \in ImagesOf(r.arg.product) : image[i].position < r.arg.position
  /\ r.op = "updateImage" /\ r.pc = "write" =>
       /\ r.arg.id \in Images /\ r.arg.position \in Nat
       /\ r.excuse = {} => image[r.arg.id].state = "live"
  /\ r.op = "deleteImage" /\ r.pc \in {"row", "object"} =>
       /\ r.arg.id \in Images
       /\ r.pc = "row" /\ r.excuse = {} => image[r.arg.id].state = "live"
       /\ r.pc = "object" => image[r.arg.id].state = Gone

\* The call that answers for an object without a row.
AnswersFor(r, i) ==
  \/ r.op = "uploadImage" /\ r.arg.key = i
     /\ (r.pc \in Uploading \/ "s3" \in r.excuse)
  \/ r.op = "deleteImage" /\ r.arg.id = i
     /\ (r.pc = "object" \/ r.excuse \cap {"s3", "database"} # {})

\* The upload that may have lost the object of a live row.
Lost(r, i) == r.op = "uploadImage" /\ r.arg.key = i /\ "database" \in r.excuse

ImageCalls ==
  /\ \A c, d \in Calls :
       c # d /\ call[c].op = "uploadImage" /\ call[d].op = "uploadImage"
       => call[c].arg.key # call[d].arg.key
  /\ \A i \in objects :
       image[i].state # "live" => \E c \in Calls : AnswersFor(call[c], i)
  /\ \A i \in Images :
       image[i].state = "live" => i \in objects \/ \E c \in Calls : Lost(call[c], i)

\* What the step of call c does to the images, for the other calls.
ImageCare(c) ==
  /\ \A i \in Images : image[i].state = Gone => image'[i].state = Gone
  /\ \A i \in Images :
       image[i].state = Unused /\ image'[i].state # Unused
       => call[c].op = "uploadImage" /\ call[c].arg.key = i
  /\ \A i \in objects \ objects' :
       \/ image[i].state = Gone
       \/ call[c].op = "uploadImage" /\ call[c].arg.key = i
  /\ image' = image \/ Marks(c)
  /\ \A i \in objects' :
       image'[i].state # "live" =>
         \/ i \in objects /\ image[i].state # "live" /\ ~AnswersFor(call[c], i)
         \/ AnswersFor(call'[c], i)
  /\ \A i \in Images :
       image'[i].state = "live" =>
         \/ i \in objects'
         \/ image[i].state = "live" /\ i \notin objects /\ ~Lost(call[c], i)
         \/ Lost(call'[c], i)

ImageLands(r) ==
  CallSound(r) /\ r.op \in ImageOps /\ r.pc \notin CartPcs \cup {"idle"}

\* An upload has a key that no other has, and keeps it with its excuses.
KeyIsOwn(c, r) ==
  /\ r.op = "uploadImage" =>
       \/ call[c].op = "uploadImage" /\ call[c].arg.key = r.arg.key
       \/ \A d \in Calls : call[d].op = "uploadImage" => call[d].arg.key # r.arg.key
  /\ call[c].op = "uploadImage" =>
       /\ r.op = "uploadImage" /\ r.arg.key = call[c].arg.key
       /\ call[c].excuse \subseteq r.excuse

ImageDoes(c) ==
  \E r : /\ ImageLands(r) /\ KeyIsOwn(c, r) /\ Leaves(c, r)
         /\ UNCHANGED tables
         /\ ImageTables' /\ ImageFact(r)' /\ ImageCare(c)

\* A call that has answered, or was refused, owes nothing to the tables.
LEMMA ImageEnds ==
  ASSUME NEW r, Begun(r, ImageOps), r.op = "uploadImage" =>
           r.arg \in [product : Products, position : Nat, key : Images]
  PROVE  /\ \A answer : answer # "internal-error" => ImageLands(Ends(r, answer))
         /\ ImageLands(NotFound(r))
         /\ r.excuse # {} => ImageLands(Fails(r))
         /\ \A pc : pc \notin CartPcs \cup {"idle", "done"} => ImageLands(Goes(r, pc))
<1>1. \A answer : answer # "internal-error" => ImageLands(Ends(r, answer))
  BY EndsIs DEF Begun, ImageLands, CallSound, Keeps, CartPcs
<1>2. ImageLands(NotFound(r))
  BY NotFoundIs DEF Begun, ImageLands, CallSound, Keeps, CartPcs
<1>3. r.excuse # {} => ImageLands(Fails(r))
  BY FailsIs DEF Begun, ImageLands, CallSound, Keeps, CartPcs
<1>4. \A pc : pc \notin CartPcs \cup {"idle", "done"} => ImageLands(Goes(r, pc))
  BY GoesIs DEF Begun, ImageLands, CallSound, Keeps, CartPcs
<1> QED
  BY <1>1, <1>2, <1>3, <1>4

\* A record with a fault of S3 or of the database.
LEMMA FaultIs ==
  ASSUME NEW r, IsCall(r)
  PROVE  /\ LET q == S3Fault(r)
            IN /\ Keeps(q, r) /\ q.pc = r.pc /\ q.answer = r.answer
               /\ q.excuse = r.excuse \cup {"s3"}
         /\ LET q == DbFault(r)
            IN /\ Keeps(q, r) /\ q.pc = r.pc /\ q.answer = r.answer
               /\ q.excuse = r.excuse \cup {"database"}
BY DEF S3Fault, DbFault, IsCall, Keeps

\* A step that leaves the tables of the images as they are.
LEMMA ImageSees ==
  ASSUME CallsOK, ImageTables, NEW c \in Calls, NEW r, ImageLands(r), KeyIsOwn(c, r),
         ImageFact(r), See(c, r),
         \A i \in objects :
           image[i].state # "live" /\ AnswersFor(call[c], i) => AnswersFor(r, i)
  PROVE  ImageDoes(c)
<1>1. UNCHANGED <<tables, image, objects>> /\ call' = [call EXCEPT ![c] = r]
  BY DEF See, Query, imageTables
<1>2. image' = image /\ objects' = objects /\ UNCHANGED tables
  BY <1>1
<1>3. Leaves(c, r) /\ call'[c] = r
  BY <1>1, CallMoves DEF Leaves
<1>4. ImageTables'
  BY <1>2 DEF ImageTables
<1>5. ImageFact(r)'
  BY <1>2 DEF ImageFact, ImagesOf
<1>6. ImageCare(c)
  BY <1>2, <1>3 DEF ImageCare, KeyIsOwn, Lost
<1> QED
  BY <1>2, <1>3, <1>4, <1>5, <1>6 DEF ImageDoes

\* A step that writes the row of an image.
LEMMA ImageWritten ==
  ASSUME CallsOK, ImageTables, NEW c \in Calls, NEW r, ImageLands(r), KeyIsOwn(c, r),
         NEW i \in Images, NEW row \in ImageRows, row # NoImage,
         \/ r.pc = "done"
         \/ r.op = "deleteImage" /\ r.pc = "object" /\ r.arg.id = i /\ row.state = Gone
         \/ r.op = "uploadImage" /\ r.pc = "clean" /\ "database" \in r.excuse,
         r.op = "uploadImage" => r.arg \in [product : Products, position : Nat, key : Images],
         row.state = "live" => i \in objects \/ image[i].state = "live",
         image[i].state = Gone => row.state = Gone,
         image[i].state = Unused => call[c].op = "uploadImage" /\ call[c].arg.key = i,
         row.state = Gone => AnswersFor(r, i),
         \A k \in Images \ {i} : ~AnswersFor(call[c], k),
         WriteImage(c, r, i, row)
  PROVE  ImageDoes(c)
<1>1. /\ image' = [image EXCEPT ![i] = row] /\ objects' = objects /\ UNCHANGED tables
      /\ Stales(c, r)
  BY DEF WriteImage
<1>2. Leaves(c, r) /\ Marks(c) /\ call'[c] = r
  BY <1>1, StalesMoves DEF Leaves
<1>3. \A k \in Images : image'[k] = IF k = i THEN row ELSE image[k]
  BY <1>1 DEF ImageTables
<1>4. image' \in [Images -> ImageRows]
  BY <1>1 DEF ImageTables
<1>5. ImageTables'
  BY <1>1, <1>4 DEF ImageTables
<1>6. row.state \in {"live", Gone}
  BY DEF ImageRows
<1>7. ImageFact(r)'
  BY <1>3, <1>6 DEF ImageFact, Uploading
<1>8. ImageCare(c)
  <2>1. \A k \in objects' :
          image'[k].state # "live" =>
            \/ k \in objects /\ image[k].state # "live" /\ ~AnswersFor(call[c], k)
            \/ AnswersFor(call'[c], k)
    BY <1>1, <1>2, <1>3, <1>6 DEF ImageTables
  <2>2. /\ \A k \in Images : image[k].state = Gone => image'[k].state = Gone
        /\ \A k \in Images :
             image[k].state = Unused /\ image'[k].state # Unused
             => call[c].op = "uploadImage" /\ call[c].arg.key = k
    BY <1>3
  <2>3. \A k \in Images :
          image'[k].state = "live" =>
            \/ k \in objects'
            \/ image[k].state = "live" /\ k \notin objects /\ ~Lost(call[c], k)
            \/ Lost(call'[c], k)
    BY <1>1, <1>2, <1>3 DEF KeyIsOwn, Lost
  <2> QED
    BY <1>1, <1>2, <2>1, <2>2, <2>3 DEF ImageCare
<1> QED
  BY <1>1, <1>2, <1>5, <1>7, <1>8 DEF ImageDoes

\* A request to S3 about one key, which leaves its object or removes it.
LEMMA ImageAsked ==
  ASSUME CallsOK, ImageTables, NEW c \in Calls, NEW r, ImageLands(r), KeyIsOwn(c, r),
         NEW k \in Images, NEW effect \in {objects \cup {k}, objects \ {k}},
         objects' \in {effect, objects}, UNCHANGED <<tables, image>>,
         call' = [call EXCEPT ![c] = r],
         (call[c].op = "uploadImage" /\ call[c].arg.key = k) \/ image[k].state = Gone,
         k \notin objects' => image[k].state # "live" \/ Lost(r, k),
         \A i \in Images \ {k} : ~AnswersFor(call[c], i),
         k \in objects' => AnswersFor(r, k),
         ImageFact(r)'
  PROVE  ImageDoes(c)
<1>1. image' = image /\ UNCHANGED tables
  OBVIOUS
<1>2. Leaves(c, r) /\ call'[c] = r
  BY CallMoves DEF Leaves
<1>3. objects \ {k} \subseteq objects' /\ objects' \subseteq objects \cup {k}
  OBVIOUS
<1>4. ImageTables'
  BY <1>1, <1>3 DEF ImageTables
<1>5. ImageCare(c)
  <2>1. \A i \in Images :
          image'[i].state = "live" =>
            \/ i \in objects'
            \/ image[i].state = "live" /\ i \notin objects /\ ~Lost(call[c], i)
            \/ Lost(call'[c], i)
    <3>1. \A i : Lost(call[c], i) => Lost(r, i)
      BY DEF KeyIsOwn, Lost
    <3> QED
      BY <1>1, <1>2, <1>3, <3>1
  <2> QED
    BY <1>1, <1>2, <1>3, <2>1 DEF ImageCare, ImageTables
<1> QED
  BY <1>1, <1>2, <1>4, <1>5 DEF ImageDoes

LEMMA FreshKeyIs ==
  ASSUME FreshKeys # {}
  PROVE  /\ Min(FreshKeys) \in Images /\ image[Min(FreshKeys)].state = Unused
         /\ \A d \in Calls : call[d].op = "uploadImage" => call[d].arg.key # Min(FreshKeys)
<1>1. FreshKeys \in SUBSET Nat
  BY ImagesAssumption DEF FreshKeys
<1>2. Min(FreshKeys) \in FreshKeys
  BY <1>1, MinIs
<1> QED
  BY <1>2 DEF FreshKeys

\* The position an upload reads is a number, and beyond every image there is.
LEMMA NextPositionIs ==
  ASSUME ImageTables, NEW p
  PROVE  /\ NextPosition(p) \in Nat
         /\ \A i \in ImagesOf(p) : image[i].position < NextPosition(p)
<1> DEFINE taken == {image[i].position : i \in ImagesOf(p)}
           f == [i \in ImagesOf(p) |-> image[i].position]
           S == taken \cup {-1}
<1>1. \A i \in ImagesOf(p) : image[i].position \in Nat
  BY DEF ImagesOf, ImageTables, ImageRows, NoImage
<1>2. IsFiniteSet(ImagesOf(p))
  <2>1. ImagesOf(p) \in SUBSET Images
    BY DEF ImagesOf
  <2> QED
    BY <2>1, FS_Subset, ImagesAssumption
<1>3. IsFiniteSet(taken)
  <2>1. f \in Surjection(ImagesOf(p), taken)
    BY DEF Surjection
  <2> HIDE DEF f, taken
  <2> QED
    BY <1>2, <2>1, FS_Surjection
<1>4. IsFiniteSet(S)
  <2> HIDE DEF taken
  <2> QED
    BY <1>3, FS_AddElement
<1>5. S \in SUBSET Int /\ -1 \in S
  BY <1>1
<1> DEFINE m == Max(S)
<1>6. NextPosition(p) = m + 1
  BY DEF NextPosition
<1>7. m \in S /\ \A y \in S : m >= y
  <2> HIDE DEF S
  <2> QED
    BY <1>4, <1>5, MaxIs
<1>8. m \in Int
  BY <1>5, <1>7
<1> HIDE DEF m
<1>9. m >= -1 /\ \A i \in ImagesOf(p) : m >= image[i].position
  BY <1>7
<1> QED
  BY <1>1, <1>6, <1>8, <1>9

\* A position read goes into the argument of the upload.
LEMMA PositionIs ==
  ASSUME NEW r, Begun(r, ImageOps), r.op = "uploadImage", NEW n \in Nat,
         r.arg \in [product : Products, position : Nat, key : Images]
  PROVE  LET q == [Goes(r, "insert") EXCEPT !.arg.position = n]
         IN /\ ImageLands(q) /\ q.op = r.op /\ q.pc = "insert" /\ q.excuse = r.excuse
            /\ q.arg \in [product : Products, position : Nat, key : Images]
            /\ q.arg.key = r.arg.key /\ q.arg.product = r.arg.product /\ q.arg.position = n
<1> DEFINE g == Goes(r, "insert")
           a == [r.arg EXCEPT !.position = n]
           q == [g EXCEPT !.arg = a]
<1>1. Keeps(g, r) /\ g.pc = "insert" /\ g.answer = "none" /\ g.excuse = r.excuse
  BY GoesIs DEF Begun
<1> HIDE DEF g
<1>2. [g EXCEPT !.arg.position = n] = q
  BY <1>1 DEF Keeps
<1>3. /\ a \in [product : Products, position : Nat, key : Images]
      /\ a.key = r.arg.key /\ a.product = r.arg.product /\ a.position = n
  OBVIOUS
<1> HIDE DEF a
<1>4. /\ IsCall(q) /\ q.op = r.op /\ q.arg = a /\ q.pc = "insert" /\ q.answer = "none"
      /\ q.excuse = r.excuse
  BY <1>1 DEF Keeps, IsCall
<1> HIDE DEF q
<1>5. ImageLands(q)
  BY <1>4 DEF ImageLands, CallSound, Begun, CartPcs
<1> QED
  BY <1>2, <1>3, <1>4, <1>5 DEF g

UploadArgs == [product : Products, position : Nat, key : Images]

LEMMA ImageOver ==
  ASSUME NEW r, r.pc = "done", r.op = "uploadImage" => r.arg \in UploadArgs
  PROVE  ImageFact(r) /\ ImageFact(r)'
BY DEF ImageFact, UploadArgs, Uploading

LEMMA UploadDoes ==
  ASSUME CallsOK, ImageTables, NEW c \in Calls, CallSound(call[c]), upload(c)
  PROVE  ImageDoes(c)
<1>1. PICK u \in Callers(ProductsController.uploadImage), p \in Products :
        /\ FreshKeys # {}
        /\ LET r == Request(u, "uploadImage", [product |-> p, position |-> 0,
                                               key |-> Min(FreshKeys)])
           IN \/ See(c, NotFound(r))
              \/ See(c, Ends(r, "image-too-large"))
              \/ See(c, Goes(r, "put"))
  BY DEF upload
<1>2. PICK k : k = Min(FreshKeys)
  OBVIOUS
<1>3. /\ k \in Images /\ image[k].state = Unused
      /\ \A d \in Calls : call[d].op = "uploadImage" => call[d].arg.key # k
  BY <1>1, <1>2, FreshKeyIs
<1> DEFINE arg == [product |-> p, position |-> 0, key |-> k]
           r == Request(u, "uploadImage", arg)
<1>4. arg \in UploadArgs /\ arg.key = k
  BY <1>3 DEF UploadArgs
<1>5. See(c, NotFound(r)) \/ See(c, Ends(r, "image-too-large")) \/ See(c, Goes(r, "put"))
  BY <1>1, <1>2
<1> HIDE DEF arg
<1>6. Begun(r, ImageOps) /\ IsCall(r) /\ r.op = "uploadImage" /\ r.arg = arg
  BY RequestBegun, RequestIs DEF ImageOps
<1> HIDE DEF r
<1>7. call[c].op = "none"
  BY DEF upload, Asked, CallSound
<1>8. \A i : ~AnswersFor(call[c], i)
  BY <1>7 DEF AnswersFor
<1>9. PICK q \in {NotFound(r), Ends(r, "image-too-large"), Goes(r, "put")} : See(c, q)
  BY <1>5
<1>10. /\ Keeps(q, r) /\ q.pc \in {"done", "put"}
  BY <1>6, <1>9, NotFoundIs, EndsIs, GoesIs
<1>11. ImageLands(q)
  BY <1>4, <1>6, <1>9, ImageEnds DEF UploadArgs, CartPcs
<1>12. ImageFact(q)
  <2>1. q.op = "uploadImage" /\ q.arg = arg
    BY <1>6, <1>10 DEF Keeps
  <2> QED
    BY <1>3, <1>4, <1>10, <2>1 DEF ImageFact, UploadArgs
<1>13. KeyIsOwn(c, q)
  BY <1>3, <1>4, <1>6, <1>7, <1>10 DEF KeyIsOwn, Keeps
<1> QED
  BY <1>8, <1>9, <1>11, <1>12, <1>13, ImageSees

\* An upload under way, as its next query finds it.
LEMMA UploadUnderWay ==
  ASSUME NEW c \in Calls, CallSound(call[c]), ImageFact(call[c]),
         call[c].op = "uploadImage", call[c].pc \in Uploading, NEW r, r = call[c]
  PROVE  /\ Begun(r, ImageOps) /\ r.arg \in UploadArgs /\ r.arg.key \in Images
         /\ \/ image[r.arg.key].state = Unused
            \/ r.pc = "clean" /\ "database" \in r.excuse
         /\ \A i \in Images \ {r.arg.key} : ~AnswersFor(call[c], i)
BY DEF Begun, CallSound, ImageOps, Uploading, ImageFact, UploadArgs, AnswersFor

LEMMA PutDoes ==
  ASSUME CallsOK, ImageTables, NEW c \in Calls, CallSound(call[c]), ImageFact(call[c]),
         putObject(c)
  PROVE  ImageDoes(c)
<1>1. PICK r : r = call[c]
  OBVIOUS
<1>2. r.op = "uploadImage" /\ r.pc = "put"
  BY <1>1 DEF putObject, At
<1>3. PICK k : k = r.arg.key
  OBVIOUS
<1>4. /\ Begun(r, ImageOps) /\ r.arg \in UploadArgs /\ k \in Images
      /\ image[k].state = Unused /\ IsCall(r)
      /\ \A i \in Images \ {k} : ~AnswersFor(call[c], i)
  BY <1>1, <1>2, <1>3, UploadUnderWay DEF Uploading, Begun
<1> DEFINE good == Goes(r, "position")
           bad == S3Fault(Fails(r))
           effect == objects \cup {k}
<1>5. /\ UNCHANGED <<tables, image>>
      /\ \/ objects' = effect /\ call' = [call EXCEPT ![c] = good]
         \/ objects' \in {effect, objects} /\ call' = [call EXCEPT ![c] = bad]
  BY <1>1, <1>3 DEF putObject, AskS3
<1>6. /\ Keeps(good, r) /\ good.pc = "position" /\ good.answer = "none"
      /\ good.excuse = r.excuse
      /\ Keeps(bad, r) /\ bad.pc = "done" /\ bad.answer = "internal-error"
      /\ bad.excuse = r.excuse \cup {"s3"}
  BY <1>4, GoesIs, FailsIs, FaultIs DEF Begun, Keeps
<1> HIDE DEF good, bad
<1>7. ImageLands(good) /\ ImageLands(bad)
  BY <1>2, <1>4, <1>6 DEF ImageLands, CallSound, Keeps, Begun, CartPcs, Excuses
<1>8. KeyIsOwn(c, good) /\ KeyIsOwn(c, bad)
  BY <1>1, <1>2, <1>6 DEF KeyIsOwn, Keeps
<1>9. AnswersFor(good, k) /\ AnswersFor(bad, k)
  BY <1>2, <1>3, <1>6 DEF AnswersFor, Keeps, Uploading
<1>10. image' = image
  BY <1>5
<1>11. objects' = effect => ImageFact(good)'
  <2>1. good.op = "uploadImage" /\ good.arg = r.arg
    BY <1>2, <1>6 DEF Keeps
  <2> QED
    BY <1>3, <1>4, <1>6, <1>10, <2>1 DEF ImageFact, UploadArgs
<1>12. ImageFact(bad)'
  BY <1>2, <1>4, <1>6, ImageOver DEF Keeps
<1>13. call[c].op = "uploadImage" /\ call[c].arg.key = k
  BY <1>1, <1>2, <1>3
<1>14. image[k].state # "live"
  BY <1>4 DEF Unused
<1> HIDE DEF effect
<1>15. effect \in {objects \cup {k}, objects \ {k}}
  BY DEF effect
<1> QED
  BY <1>4, <1>5, <1>7, <1>8, <1>9, <1>11, <1>12, <1>13, <1>14, <1>15, ImageAsked

LEMMA ReadDoes ==
  ASSUME CallsOK, ImageTables, NEW c \in Calls, CallSound(call[c]), ImageFact(call[c]),
         readPosition(c)
  PROVE  ImageDoes(c)
<1>1. PICK r : r = call[c]
  OBVIOUS
<1>2. r.op = "uploadImage" /\ r.pc = "position"
  BY <1>1 DEF readPosition, At
<1>3. PICK k : k = r.arg.key
  OBVIOUS
<1>4. /\ Begun(r, ImageOps) /\ r.arg \in UploadArgs /\ k \in Images /\ k \in objects
      /\ image[k].state = Unused /\ IsCall(r)
      /\ \A i \in Images \ {k} : ~AnswersFor(call[c], i)
  BY <1>1, <1>2, <1>3, UploadUnderWay DEF Uploading, Begun, ImageFact
<1>5. PICK n : n = NextPosition(r.arg.product)
  OBVIOUS
<1>6. n \in Nat /\ \A i \in ImagesOf(r.arg.product) : image[i].position < n
  BY <1>5, NextPositionIs
<1> DEFINE good == [Goes(r, "insert") EXCEPT !.arg.position = n]
           bad == DbFault(Goes(r, "clean"))
<1>7. See(c, good) \/ See(c, bad)
  BY <1>1, <1>5 DEF readPosition
<1>8. /\ ImageLands(good) /\ good.op = "uploadImage" /\ good.pc = "insert"
      /\ good.arg \in UploadArgs /\ good.arg.key = k /\ good.excuse = r.excuse
      /\ good.arg.product = r.arg.product /\ good.arg.position = n
  BY <1>2, <1>3, <1>4, <1>6, PositionIs DEF UploadArgs
<1>9. /\ Keeps(bad, r) /\ bad.pc = "clean" /\ bad.answer = "none"
      /\ bad.excuse = r.excuse \cup {"database"}
  BY <1>4, GoesIs, FaultIs DEF Begun, Keeps
<1> HIDE DEF good, bad
<1>10. ImageLands(bad)
  BY <1>2, <1>4, <1>9 DEF ImageLands, CallSound, Keeps, Begun, CartPcs, Excuses
<1>11. KeyIsOwn(c, good) /\ KeyIsOwn(c, bad)
  BY <1>1, <1>2, <1>3, <1>8, <1>9 DEF KeyIsOwn, Keeps
<1>12. AnswersFor(good, k) /\ AnswersFor(bad, k)
  BY <1>2, <1>3, <1>8, <1>9 DEF AnswersFor, Keeps, Uploading
<1>13. ImageFact(good)
  BY <1>4, <1>6, <1>8 DEF ImageFact, UploadArgs
<1>14. ImageFact(bad)
  <2>1. bad.op = "uploadImage" /\ bad.arg = r.arg
    BY <1>2, <1>9 DEF Keeps
  <2> QED
    BY <1>3, <1>4, <1>9, <2>1 DEF ImageFact, UploadArgs
<1>15. \A i \in objects : AnswersFor(call[c], i) => i = k
  BY <1>4 DEF ImageTables
<1> QED
  BY <1>7, <1>8, <1>10, <1>11, <1>12, <1>13, <1>14, <1>15, ImageSees

LEMMA InsertDoes ==
  ASSUME CallsOK, ImageTables, NEW c \in Calls, CallSound(call[c]), ImageFact(call[c]),
         insertImage(c)
  PROVE  ImageDoes(c)
<1>1. PICK r : r = call[c]
  OBVIOUS
<1>2. r.op = "uploadImage" /\ r.pc = "insert"
  BY <1>1 DEF insertImage, At
<1>3. PICK k : k = r.arg.key
  OBVIOUS
<1>4. /\ Begun(r, ImageOps) /\ r.arg \in UploadArgs /\ k \in Images /\ k \in objects
      /\ image[k].state = Unused /\ IsCall(r)
      /\ \A i \in Images \ {k} : ~AnswersFor(call[c], i)
  BY <1>1, <1>2, <1>3, UploadUnderWay DEF Uploading, Begun, ImageFact
<1> DEFINE row == [state |-> "live", product |-> r.arg.product, position |-> r.arg.position]
           good == Ends(r, "ok")
           bad == DbFault(Goes(r, "clean"))
<1>5. WriteImage(c, good, k, row) \/ WriteImage(c, bad, k, row) \/ See(c, bad)
  BY <1>1, <1>3 DEF insertImage
<1>6. /\ Keeps(bad, r) /\ bad.pc = "clean" /\ bad.answer = "none"
      /\ bad.excuse = r.excuse \cup {"database"}
      /\ Keeps(good, r) /\ good.pc = "done" /\ good.answer = "ok"
      /\ good.excuse = r.excuse
  BY <1>4, GoesIs, EndsIs, FaultIs DEF Begun, Keeps
<1>7. row \in ImageRows /\ row # NoImage /\ row.state = "live"
  BY <1>4 DEF ImageRows, NoImage, UploadArgs, Unused
<1> HIDE DEF good, bad, row
<1>8. ImageLands(good) /\ ImageLands(bad)
  BY <1>2, <1>4, <1>6 DEF ImageLands, CallSound, Keeps, Begun, CartPcs, Excuses
<1>9. KeyIsOwn(c, good) /\ KeyIsOwn(c, bad)
  BY <1>1, <1>2, <1>6 DEF KeyIsOwn, Keeps
<1>10. CASE WriteImage(c, good, k, row) \/ WriteImage(c, bad, k, row)
  <2>1. /\ good.op = "uploadImage" /\ good.arg \in UploadArgs
        /\ bad.op = "uploadImage" /\ bad.arg \in UploadArgs
    BY <1>2, <1>4, <1>6 DEF Keeps
  <2>2. image[k].state # Gone /\ row.state # Gone
    BY <1>4, <1>7 DEF Gone, Unused
  <2> QED
    BY <1>1, <1>2, <1>3, <1>4, <1>6, <1>7, <1>8, <1>9, <1>10, <2>1, <2>2, ImageWritten
       DEF UploadArgs
<1>11. CASE See(c, bad)
  <2>1. bad.op = "uploadImage" /\ bad.arg = r.arg
    BY <1>2, <1>6 DEF Keeps
  <2>2. ImageFact(bad)
    BY <1>3, <1>4, <1>6, <2>1 DEF ImageFact, UploadArgs
  <2>3. AnswersFor(bad, k)
    BY <1>3, <1>6, <2>1 DEF AnswersFor, Uploading
  <2> QED
    BY <1>4, <1>8, <1>9, <1>11, <2>2, <2>3, ImageSees DEF ImageTables
<1> QED
  BY <1>5, <1>10, <1>11

LEMMA CleanUpDoes ==
  ASSUME CallsOK, ImageTables, NEW c \in Calls, CallSound(call[c]), ImageFact(call[c]),
         cleanUp(c)
  PROVE  ImageDoes(c)
<1>1. PICK r : r = call[c]
  OBVIOUS
<1>2. r.op = "uploadImage" /\ r.pc = "clean"
  BY <1>1 DEF cleanUp, At
<1>3. PICK k : k = r.arg.key
  OBVIOUS
<1>4. /\ Begun(r, ImageOps) /\ r.arg \in UploadArgs /\ k \in Images /\ r.excuse # {}
      /\ image[k].state = Unused \/ "database" \in r.excuse
      /\ IsCall(r)
      /\ \A i \in Images \ {k} : ~AnswersFor(call[c], i)
  BY <1>1, <1>2, <1>3, UploadUnderWay DEF Uploading, Begun, ImageFact
<1> DEFINE good == Fails(r)
           bad == S3Fault(Fails(r))
           effect == objects \ {k}
<1>5. /\ UNCHANGED <<tables, image>>
      /\ \/ objects' = effect /\ call' = [call EXCEPT ![c] = good]
         \/ objects' \in {effect, objects} /\ call' = [call EXCEPT ![c] = bad]
  BY <1>1, <1>3 DEF cleanUp, AskS3
<1>6. /\ Keeps(good, r) /\ good.pc = "done" /\ good.answer = "internal-error"
      /\ good.excuse = r.excuse
      /\ Keeps(bad, r) /\ bad.pc = "done" /\ bad.answer = "internal-error"
      /\ bad.excuse = r.excuse \cup {"s3"}
  BY <1>4, FailsIs, FaultIs DEF Begun, Keeps
<1> HIDE DEF good, bad
<1>7. ImageLands(good) /\ ImageLands(bad)
  BY <1>2, <1>4, <1>6 DEF ImageLands, CallSound, Keeps, Begun, CartPcs, Excuses
<1>8. KeyIsOwn(c, good) /\ KeyIsOwn(c, bad)
  BY <1>1, <1>2, <1>6 DEF KeyIsOwn, Keeps
<1>9. AnswersFor(bad, k) /\ k \notin effect
  BY <1>2, <1>3, <1>6 DEF AnswersFor, Keeps
<1>10. ImageFact(good)' /\ ImageFact(bad)'
  BY <1>2, <1>4, <1>6, ImageOver DEF Keeps
<1>11. call[c].op = "uploadImage" /\ call[c].arg.key = k
  BY <1>1, <1>2, <1>3
<1>12. image[k].state # "live" \/ (Lost(good, k) /\ Lost(bad, k))
  BY <1>2, <1>3, <1>4, <1>6 DEF Unused, Lost, Keeps
<1> HIDE DEF effect
<1>13. effect \in {objects \cup {k}, objects \ {k}}
  BY DEF effect
<1> QED
  BY <1>4, <1>5, <1>7, <1>8, <1>9, <1>10, <1>11, <1>12, <1>13, ImageAsked

\* The positions.
LEMMA PositionsDo ==
  ASSUME CallsOK, ImageTables, NEW c \in Calls, CallSound(call[c]), ImageFact(call[c])
  PROVE  updatePosition(c) \/ savePosition(c) => ImageDoes(c)
<1>1. ASSUME updatePosition(c)
      PROVE  ImageDoes(c)
  <2>1. PICK u \in Callers(ProductsController.updateImage), i \in Images, n \in 0 .. MaxPosition :
          LET r == Request(u, "updateImage", [id |-> i, position |-> n])
          IN \/ image[i].state = "live" /\ See(c, Goes(r, "write"))
             \/ See(c, NotFound(r))
    BY <1>1 DEF updatePosition, assertImageExists
  <2> DEFINE arg == [id |-> i, position |-> n]
             r == Request(u, "updateImage", arg)
  <2>2. /\ Begun(r, ImageOps) /\ IsCall(r) /\ r.op = "updateImage" /\ r.arg = arg
    BY RequestBegun, RequestIs DEF ImageOps
  <2>3. arg.id = i /\ arg.position = n
    OBVIOUS
  <2> HIDE DEF r, arg
  <2>4. PICK q \in {Goes(r, "write"), NotFound(r)} :
          See(c, q) /\ (q = Goes(r, "write") => image[i].state = "live")
    <3>1. NotFound(r) # Goes(r, "write")
      BY <2>2, NotFoundIs, GoesIs
    <3> QED
      BY <2>1, <3>1 DEF r, arg
  <2>5. Keeps(q, r) /\ q.pc \in {"done", "write"} /\ (q.pc = "write" => image[i].state = "live")
    BY <2>2, <2>4, NotFoundIs, GoesIs
  <2>6. ImageLands(q)
    BY <2>2, <2>4, ImageEnds DEF CartPcs
  <2>7. q.op = "updateImage" /\ q.arg = arg
    BY <2>2, <2>5 DEF Keeps
  <2>8. n \in Nat
    BY ImagesAssumption
  <2>9. call[c].op = "none"
    BY <1>1 DEF updatePosition, Asked, CallSound
  <2>10. ImageFact(q) /\ KeyIsOwn(c, q) /\ \A k : ~AnswersFor(call[c], k)
    BY <2>3, <2>5, <2>7, <2>8, <2>9 DEF ImageFact, KeyIsOwn, AnswersFor
  <2> QED
    BY <2>4, <2>6, <2>10, ImageSees
<1>2. ASSUME savePosition(c)
      PROVE  ImageDoes(c)
  <2>1. PICK r : r = call[c]
    OBVIOUS
  <2>2. r.op = "updateImage" /\ r.pc = "write" /\ Begun(r, ImageOps) /\ IsCall(r)
    BY <1>2, <2>1 DEF savePosition, At, Begun, CallSound, ImageOps
  <2>3. PICK i : i = r.arg.id
    OBVIOUS
  <2>4. /\ i \in Images /\ r.arg.position \in Nat
        /\ r.excuse = {} => image[i].state = "live"
    BY <2>1, <2>2, <2>3 DEF ImageFact
  <2> DEFINE row == [image[i] EXCEPT !.position = r.arg.position]
             good == Ends(r, "ok")
             bad == Fails(r)
  <2>5. \/ image[i].state = "live" /\ WriteImage(c, good, i, row)
        \/ image[i].state # "live" /\ See(c, bad)
    BY <1>2, <2>1, <2>3 DEF savePosition
  <2>6. /\ Keeps(bad, r) /\ bad.pc = "done"
        /\ Keeps(good, r) /\ good.pc = "done"
        /\ ImageLands(good) /\ (r.excuse # {} => ImageLands(bad))
    BY <2>2, EndsIs, FailsIs, ImageEnds
  <2>7. \A k : ~AnswersFor(call[c], k)
    BY <2>1, <2>2 DEF AnswersFor
  <2>8. image[i].state = "live" => row \in ImageRows /\ row # NoImage /\ row.state = "live"
    BY <2>4 DEF ImageTables, ImageRows, NoImage, Unused
  <2> HIDE DEF good, bad, row
  <2>9. good.op = "updateImage" /\ bad.op = "updateImage"
    BY <2>2, <2>6 DEF Keeps
  <2>10. KeyIsOwn(c, good) /\ KeyIsOwn(c, bad)
    BY <2>1, <2>2, <2>9 DEF KeyIsOwn
  <2>11. CASE image[i].state = "live" /\ WriteImage(c, good, i, row)
    <3>1. image[i].state # Gone /\ image[i].state # Unused /\ row.state # Gone
      BY <2>8, <2>11 DEF Gone, Unused
    <3> QED
      BY <2>4, <2>6, <2>7, <2>8, <2>9, <2>10, <2>11, <3>1, ImageWritten
  <2>12. CASE image[i].state # "live" /\ See(c, bad)
    <3>1. ImageFact(bad)
      BY <2>6, <2>9, ImageOver
    <3>2. ImageLands(bad)
      BY <2>4, <2>6, <2>12
    <3> QED
      BY <2>7, <2>10, <2>12, <3>1, <3>2, ImageSees
  <2> QED
    BY <2>5, <2>11, <2>12
<1> QED
  BY <1>1, <1>2

\* The deletion.
LEMMA DeletionsDo ==
  ASSUME CallsOK, ImageTables, NEW c \in Calls, CallSound(call[c]), ImageFact(call[c])
  PROVE  deleteImage(c) \/ deleteRow(c) \/ deleteFromS3(c) => ImageDoes(c)
<1>1. ASSUME deleteImage(c)
      PROVE  ImageDoes(c)
  <2>1. PICK u \in Callers(ProductsController.deleteImage), i \in Images :
          LET r == Request(u, "deleteImage", [id |-> i])
          IN \/ image[i].state = "live" /\ See(c, Goes(r, "row"))
             \/ See(c, NotFound(r))
    BY <1>1 DEF deleteImage, assertImageExists
  <2> DEFINE arg == [id |-> i]
             r == Request(u, "deleteImage", arg)
  <2>2. /\ Begun(r, ImageOps) /\ IsCall(r) /\ r.op = "deleteImage" /\ r.arg = arg
    BY RequestBegun, RequestIs DEF ImageOps
  <2>3. arg.id = i
    OBVIOUS
  <2> HIDE DEF r, arg
  <2>4. PICK q \in {Goes(r, "row"), NotFound(r)} :
          See(c, q) /\ (q = Goes(r, "row") => image[i].state = "live")
    <3>1. NotFound(r) # Goes(r, "row")
      BY <2>2, NotFoundIs, GoesIs
    <3> QED
      BY <2>1, <3>1 DEF r, arg
  <2>5. Keeps(q, r) /\ q.pc \in {"done", "row"} /\ (q.pc = "row" => image[i].state = "live")
    BY <2>2, <2>4, NotFoundIs, GoesIs
  <2>6. ImageLands(q)
    BY <2>2, <2>4, ImageEnds DEF CartPcs
  <2>7. q.op = "deleteImage" /\ q.arg = arg
    BY <2>2, <2>5 DEF Keeps
  <2>8. call[c].op = "none"
    BY <1>1 DEF deleteImage, Asked, CallSound
  <2>9. ImageFact(q) /\ KeyIsOwn(c, q) /\ \A k : ~AnswersFor(call[c], k)
    BY <2>3, <2>5, <2>7, <2>8 DEF ImageFact, KeyIsOwn, AnswersFor
  <2> QED
    BY <2>4, <2>6, <2>9, ImageSees
<1>2. ASSUME deleteRow(c)
      PROVE  ImageDoes(c)
  <2>1. PICK r : r = call[c]
    OBVIOUS
  <2>2. r.op = "deleteImage" /\ r.pc = "row" /\ Begun(r, ImageOps) /\ IsCall(r)
    BY <1>2, <2>1 DEF deleteRow, At, Begun, CallSound, ImageOps
  <2>3. PICK i : i = r.arg.id
    OBVIOUS
  <2>4. i \in Images /\ (r.excuse = {} => image[i].state = "live")
    BY <2>1, <2>2, <2>3 DEF ImageFact
  <2> DEFINE row == [image[i] EXCEPT !.state = Gone]
             good == Goes(r, "object")
             bad == Fails(r)
             fault == DbFault(bad)
  <2>5. \/ /\ image[i].state = "live"
           /\ WriteImage(c, good, i, row) \/ WriteImage(c, fault, i, row)
        \/ image[i].state # "live" /\ See(c, bad)
        \/ See(c, fault)
    BY <1>2, <2>1, <2>3 DEF deleteRow
  <2>6. /\ Keeps(bad, r) /\ bad.pc = "done" /\ bad.answer = "internal-error"
        /\ bad.excuse = r.excuse
        /\ Keeps(good, r) /\ good.pc = "object"
        /\ ImageLands(good) /\ (r.excuse # {} => ImageLands(bad))
    BY <2>2, GoesIs, FailsIs, ImageEnds DEF CartPcs
  <2> HIDE DEF bad
  <2>7. /\ Keeps(fault, r) /\ fault.pc = "done" /\ fault.answer = "internal-error"
        /\ fault.excuse = r.excuse \cup {"database"}
    BY <2>6, FaultIs DEF Keeps
  <2> HIDE DEF good, fault
  <2>8. ImageLands(fault)
    BY <2>2, <2>7 DEF ImageLands, CallSound, Keeps, Begun, CartPcs, Excuses
  <2>9. \A k \in Images \ {i} : ~AnswersFor(call[c], k)
    BY <2>1, <2>2, <2>3 DEF AnswersFor
  <2>10. image[i].state = "live" => row \in ImageRows /\ row # NoImage /\ row.state = Gone
    BY <2>4 DEF ImageTables, ImageRows, NoImage, Unused, Gone
  <2> HIDE DEF row
  <2>11. \A q \in {good, bad, fault} : q.op = "deleteImage" /\ q.arg.id = i
    BY <2>2, <2>3, <2>6, <2>7 DEF Keeps
  <2>12. \A q \in {good, bad, fault} : KeyIsOwn(c, q)
    BY <2>1, <2>2, <2>11 DEF KeyIsOwn
  <2>13. CASE /\ image[i].state = "live"
              /\ WriteImage(c, good, i, row) \/ WriteImage(c, fault, i, row)
    <3>1. image[i].state # Unused /\ image[i].state # Gone /\ row.state # "live"
      BY <2>10, <2>13 DEF Gone, Unused
    <3>2. AnswersFor(good, i) /\ AnswersFor(fault, i)
      BY <2>6, <2>7, <2>11 DEF AnswersFor
    <3> QED
      BY <2>4, <2>6, <2>7, <2>8, <2>9, <2>10, <2>11, <2>12, <2>13, <3>1, <3>2, ImageWritten
  <2>14. ASSUME NEW q \in {bad, fault}, See(c, q), ImageLands(q)
         PROVE  ImageDoes(c)
    <3>1. q.pc = "done" /\ q.op = "deleteImage" /\ q.arg.id = i /\ r.excuse \subseteq q.excuse
      BY <2>6, <2>7, <2>11
    <3>2. ImageFact(q)
      BY <3>1, ImageOver
    <3>3. AnswersFor(call[c], i) => AnswersFor(q, i)
      BY <2>1, <2>2, <3>1 DEF AnswersFor
    <3> QED
      BY <2>9, <2>12, <2>14, <3>2, <3>3, ImageSees DEF ImageTables
  <2> QED
    BY <2>4, <2>5, <2>6, <2>8, <2>13, <2>14
<1>3. ASSUME deleteFromS3(c)
      PROVE  ImageDoes(c)
  <2>1. PICK r : r = call[c]
    OBVIOUS
  <2>2. r.op = "deleteImage" /\ r.pc = "object" /\ Begun(r, ImageOps) /\ IsCall(r)
    BY <1>3, <2>1 DEF deleteFromS3, At, Begun, CallSound, ImageOps
  <2>3. PICK k : k = r.arg.id
    OBVIOUS
  <2>4. k \in Images /\ image[k].state = Gone /\ Gone # "live"
    BY <2>1, <2>2, <2>3 DEF ImageFact, Gone
  <2> DEFINE good == Ends(r, "ok")
             bad == S3Fault(Ends(r, "ok"))
             effect == objects \ {k}
  <2>5. /\ UNCHANGED <<tables, image>>
        /\ \/ objects' = effect /\ call' = [call EXCEPT ![c] = good]
           \/ objects' \in {effect, objects} /\ call' = [call EXCEPT ![c] = bad]
    BY <1>3, <2>1, <2>3 DEF deleteFromS3, AskS3
  <2>6. /\ Keeps(good, r) /\ good.pc = "done" /\ good.answer = "ok"
        /\ good.excuse = r.excuse
        /\ Keeps(bad, r) /\ bad.pc = "done" /\ bad.answer = "ok"
        /\ bad.excuse = r.excuse \cup {"s3"}
    BY <2>2, EndsIs, FaultIs DEF Keeps
  <2> HIDE DEF good, bad
  <2>7. ImageLands(good) /\ ImageLands(bad)
    BY <2>2, <2>6 DEF ImageLands, CallSound, Keeps, Begun, CartPcs, Excuses
  <2>8. KeyIsOwn(c, good) /\ KeyIsOwn(c, bad)
    BY <2>1, <2>2, <2>6 DEF KeyIsOwn, Keeps
  <2>9. AnswersFor(bad, k) /\ k \notin effect
    BY <2>2, <2>3, <2>6 DEF AnswersFor, Keeps
  <2>10. ImageFact(good)' /\ ImageFact(bad)'
    BY <2>2, <2>6, ImageOver DEF Keeps
  <2>11. \A i \in Images \ {k} : ~AnswersFor(call[c], i)
    BY <2>1, <2>2, <2>3 DEF AnswersFor
  <2> HIDE DEF effect
  <2>12. effect \in {objects \cup {k}, objects \ {k}}
    BY DEF effect
  <2> QED
    BY <2>4, <2>5, <2>7, <2>8, <2>9, <2>10, <2>11, <2>12, ImageAsked
<1> QED
  BY <1>1, <1>2, <1>3

LEMMA ImagesStepDoes ==
  ASSUME CallsOK, ImageTables, NEW c \in Calls, CallSound(call[c]), ImageFact(call[c]),
         ImagesStep(c)
  PROVE  ImageDoes(c) /\ (call[c].pc = "idle" \/ call[c].op \in ImageOps)
<1>1. ImageDoes(c)
  BY UploadDoes, PutDoes, ReadDoes, InsertDoes, CleanUpDoes, PositionsDo, DeletionsDo
     DEF ImagesStep, ImagesRequest
<1>2. call[c].pc = "idle" \/ call[c].op \in ImageOps
  BY DEF ImagesStep, ImagesRequest, upload, updatePosition, deleteImage, putObject,
         readPosition, insertImage, cleanUp, savePosition, deleteRow, deleteFromS3,
         Asked, At, ImageOps
<1> QED
  BY <1>1, <1>2

(***************************************************************************)
(* The payment links: a row has a link that works at Stripe, and a working *)
(* link without a row has a checkout that will deal with it, or one whose  *)
(* request failed.                                                         *)
(***************************************************************************)
LinkTables ==
  /\ link \in [Links -> LinkRows]
  /\ url \in [Links -> {"none", "active", "inactive"}]
  /\ \A l \in Links : link[l] # NoLink => url[l] = "active"

CheckoutArgs == [sku : Skus, amount : Prices \cup {0}, made : Links \cup {0}]

LinkFact(r) ==
  r.op = "checkout" =>
    /\ r.arg \in CheckoutArgs
    /\ r.pc # "done" => r.arg.amount \in Prices
    /\ r.pc \in {"find", "make"} => r.arg.made = 0
    /\ r.arg.made # 0 => url[r.arg.made] # "none"
    /\ r.pc \in {"record", "deactivate"} =>
         r.arg.made # 0 /\ link[r.arg.made] = NoLink /\ url[r.arg.made] = "active"
    /\ r.pc \in {"deactivate", "winner"} /\ r.excuse = {} => ActiveLinks(r.arg.sku) # {}
    /\ r.pc = "retrieve" \/ r.answer = "ok" =>
         \E l \in Links : r.found = <<l>> /\ link[l] # NoLink /\ link[l].sku = r.arg.sku

\* The checkout that answers for a link without a row.
AnswersForLink(r, l) ==
  /\ r.op = "checkout" /\ r.arg.made = l
  /\ r.pc \in {"record", "deactivate"} \/ r.excuse \cap {"stripe", "database"} # {}

LinkCalls ==
  /\ \A c, d \in Calls :
       c # d /\ call[c].op = "checkout" /\ call[d].op = "checkout" /\ call[c].arg.made # 0
       => call[c].arg.made # call[d].arg.made
  /\ \A l \in Links :
       url[l] = "active" /\ link[l] = NoLink => \E c \in Calls : AnswersForLink(call[c], l)

Made(c, l) == call[c].op = "checkout" /\ call[c].arg.made = l

\* What the step of call c does to the links, for the other calls.
LinkCare(c) ==
  /\ \A l \in Links : link[l] # NoLink => link'[l] # NoLink /\ link'[l].sku = link[l].sku
  /\ \A l \in Links : link[l] = NoLink /\ link'[l] # NoLink => Made(c, l)
  /\ \A l \in Links : url[l] # "none" => url'[l] # "none"
  /\ \A l \in Links : url[l] = "active" /\ url'[l] # "active" => Made(c, l)
  /\ link' = link \/ Marks(c)
  /\ \A l \in Links :
       url'[l] = "active" /\ link'[l] = NoLink =>
         \/ url[l] = "active" /\ link[l] = NoLink /\ ~AnswersForLink(call[c], l)
         \/ AnswersForLink(call'[c], l)

LinkLands(r) ==
  CallSound(r) /\ r.op \in LinkOps /\ r.pc \notin CartPcs \cup {"idle"}

\* A checkout keeps the link it made, and no two made the same.
MadeIsOwn(c, r) ==
  r.arg.made # 0 =>
    \/ Made(c, r.arg.made)
    \/ \A d \in Calls : ~Made(d, r.arg.made)

LinkDoes(c) ==
  \E r : /\ LinkLands(r) /\ MadeIsOwn(c, r) /\ Leaves(c, r)
         /\ UNCHANGED tables
         /\ LinkTables' /\ LinkFact(r)' /\ LinkCare(c)

LEMMA LinkEnds ==
  ASSUME NEW r, Begun(r, LinkOps)
  PROVE  /\ \A answer : answer # "internal-error" => LinkLands(Ends(r, answer))
         /\ LinkLands(NotFound(r)) /\ LinkLands(Refused(r))
         /\ r.excuse # {} => LinkLands(Fails(r))
         /\ LinkLands(StripeFault(Fails(r)))
         /\ \A pc : pc \notin CartPcs \cup {"idle", "done"} =>
              LinkLands(Goes(r, pc)) /\ LinkLands(StripeFault(Goes(r, pc)))
<1>1. \A answer : answer # "internal-error" => LinkLands(Ends(r, answer))
  BY EndsIs DEF Begun, LinkLands, CallSound, Keeps, CartPcs
<1>2. LinkLands(NotFound(r)) /\ LinkLands(Refused(r))
  BY NotFoundIs, RefusedIs DEF Begun, LinkLands, CallSound, Keeps, CartPcs, Excuses
<1>3. r.excuse # {} => LinkLands(Fails(r))
  BY FailsIs DEF Begun, LinkLands, CallSound, Keeps, CartPcs
<1>4. \A pc : pc \notin CartPcs \cup {"idle", "done"} => LinkLands(Goes(r, pc))
  BY GoesIs DEF Begun, LinkLands, CallSound, Keeps, CartPcs
<1>5. ASSUME NEW q, IsCall(q), q.op \in LinkOps, q.excuse \subseteq Excuses,
             q.pc \notin CartPcs \cup {"idle"}, q.pc # "done" => q.answer = "none"
      PROVE  LinkLands(StripeFault(q))
  <2> DEFINE s == StripeFault(q)
  <2>1. IsCall(s) /\ s.op = q.op /\ s.pc = q.pc /\ s.answer = q.answer
        /\ s.excuse = q.excuse \cup {"stripe"}
    BY <1>5 DEF StripeFault, IsCall
  <2> HIDE DEF s
  <2>2. LinkLands(s)
    BY <1>5, <2>1 DEF LinkLands, CallSound, Excuses
  <2> QED
    BY <2>2 DEF s
<1>6. LinkLands(StripeFault(Fails(r)))
  BY <1>5, FailsIs DEF Begun, Keeps, CartPcs
<1>7. \A pc : pc \notin CartPcs \cup {"idle", "done"} => LinkLands(StripeFault(Goes(r, pc)))
  BY <1>5, GoesIs DEF Begun, Keeps
<1> QED
  BY <1>1, <1>2, <1>3, <1>4, <1>6, <1>7

LEMMA StripeFaultIs ==
  ASSUME NEW r, IsCall(r)
  PROVE  LET q == StripeFault(r)
         IN Keeps(q, r) /\ q.pc = r.pc /\ q.answer = r.answer
            /\ q.excuse = r.excuse \cup {"stripe"}
BY DEF StripeFault, IsCall, Keeps

\* A step that leaves the rows and the links at Stripe as they are.
LEMMA LinkReads ==
  ASSUME CallsOK, LinkTables, NEW c \in Calls, NEW r, LinkLands(r), MadeIsOwn(c, r),
         LinkFact(r), Read(c, r),
         \A l \in Links : link[l] = NoLink /\ url[l] = "active" /\ AnswersForLink(call[c], l)
                          => AnswersForLink(r, l)
  PROVE  LinkDoes(c)
<1>1. UNCHANGED <<tables, link, url>> /\ call' = [call EXCEPT ![c] = r]
  BY DEF Read, Query, linkTables
<1>2. link' = link /\ url' = url /\ UNCHANGED tables
  BY <1>1
<1>3. Leaves(c, r) /\ call'[c] = r
  BY <1>1, CallMoves DEF Leaves
<1>4. LinkTables'
  BY <1>2 DEF LinkTables
<1>5. LinkFact(r)'
  BY <1>2 DEF LinkFact, ActiveLinks
<1>6. LinkCare(c)
  BY <1>2, <1>3 DEF LinkCare
<1> QED
  BY <1>2, <1>3, <1>4, <1>5, <1>6 DEF LinkDoes

\* A step that makes or deactivates a link at Stripe.
LEMMA LinkAsked ==
  ASSUME CallsOK, LinkTables, NEW c \in Calls, NEW r, LinkLands(r), MadeIsOwn(c, r),
         NEW l \in Links, NEW state \in {"active", "inactive"}, link[l] = NoLink,
         AtStripe(c, r, l, state),
         state = "inactive" => Made(c, l),
         \A k \in Links \ {l} : ~AnswersForLink(call[c], k),
         state = "active" => AnswersForLink(r, l),
         LinkFact(r)'
  PROVE  LinkDoes(c)
<1>1. /\ url' = [url EXCEPT ![l] = state] /\ link' = link /\ UNCHANGED tables
      /\ call' = [call EXCEPT ![c] = r]
  BY DEF AtStripe
<1>2. Leaves(c, r) /\ call'[c] = r
  BY <1>1, CallMoves DEF Leaves
<1>3. url \in [Links -> {"none", "active", "inactive"}]
  BY DEF LinkTables
<1>4. \A k \in Links : url'[k] = IF k = l THEN state ELSE url[k]
  BY <1>1, <1>3
<1>5. url' \in [Links -> {"none", "active", "inactive"}]
  BY <1>1, <1>3
<1>6. LinkTables'
  BY <1>1, <1>4, <1>5 DEF LinkTables
<1>7. LinkCare(c)
  BY <1>1, <1>2, <1>4 DEF LinkCare
<1> QED
  BY <1>1, <1>2, <1>6, <1>7 DEF LinkDoes

\* A checkout under way, as its next query finds it.
LEMMA CheckoutUnderWay ==
  ASSUME NEW c \in Calls, CallSound(call[c]), LinkFact(call[c]),
         call[c].op = "checkout", call[c].pc # "done", NEW r, r = call[c]
  PROVE  /\ Begun(r, LinkOps) /\ IsCall(r) /\ r.op = "checkout" /\ r.arg \in CheckoutArgs
         /\ r.arg.amount \in Prices
         /\ \A l \in Links \ {r.arg.made} : ~AnswersForLink(call[c], l)
BY DEF Begun, CallSound, LinkOps, LinkFact, CheckoutArgs, AnswersForLink

LEMMA CheckoutDoes ==
  ASSUME CallsOK, CatalogTables, LinkTables, NEW c \in Calls, CallSound(call[c]),
         createPaymentLinkCheckout(c)
  PROVE  LinkDoes(c)
<1>1. PICK u \in Callers(CheckoutController.createPaymentLinkCheckout), s \in Skus :
        LET r == Request(u, "checkout", [sku |-> s, amount |-> sku[s].price, made |-> 0])
        IN \/ SkuIsActive(s) /\ Read(c, Goes(r, "find"))
           \/ Read(c, NotFound(r)) \/ Read(c, Refused(r))
  BY DEF createPaymentLinkCheckout
<1>2. PICK n : n = sku[s].price
  OBVIOUS
<1>3. n \in Prices \cup {0} /\ (SkuIsActive(s) => n \in Prices)
  <2>1. sku[s] \in SkuRows
    BY DEF CatalogTables
  <2> QED
    BY <1>2, <2>1 DEF SkuRows, NoSku, SkuIsActive, Unused
<1> DEFINE arg == [sku |-> s, amount |-> n, made |-> 0]
           r == Request(u, "checkout", arg)
<1>4. arg \in CheckoutArgs /\ arg.made = 0 /\ arg.amount = n
  BY <1>3 DEF CheckoutArgs
<1> HIDE DEF arg
<1>5. Begun(r, LinkOps) /\ IsCall(r) /\ r.op = "checkout" /\ r.arg = arg
  BY RequestBegun, RequestIs DEF LinkOps
<1>6. \/ SkuIsActive(s) /\ Read(c, Goes(r, "find"))
      \/ Read(c, NotFound(r)) \/ Read(c, Refused(r))
  BY <1>1, <1>2 DEF arg
<1> HIDE DEF r
<1>7. PICK q : /\ Read(c, q)
               /\ \/ q = Goes(r, "find") /\ SkuIsActive(s)
                  \/ q = NotFound(r) \/ q = Refused(r)
  BY <1>6
<1>8. /\ Keeps(q, r) /\ q.pc \in {"done", "find"}
      /\ q.answer \in {"none", "not-found", "internal-error"}
      /\ q.pc = "find" => SkuIsActive(s)
  BY <1>5, <1>7, NotFoundIs, GoesIs, RefusedIs DEF Begun
<1>9. LinkLands(q)
  BY <1>5, <1>7, LinkEnds DEF CartPcs
<1>10. q.op = "checkout" /\ q.arg = arg
  BY <1>5, <1>8 DEF Keeps
<1>11. LinkFact(q) /\ MadeIsOwn(c, q)
  <2>1. LinkFact(q)
    BY <1>3, <1>4, <1>8, <1>10 DEF LinkFact, CheckoutArgs
  <2>2. MadeIsOwn(c, q)
    BY <1>4, <1>10 DEF MadeIsOwn
  <2> QED
    BY <2>1, <2>2
<1>12. \A l : ~AnswersForLink(call[c], l)
  BY DEF createPaymentLinkCheckout, Asked, CallSound, AnswersForLink
<1> QED
  BY <1>7, <1>9, <1>11, <1>12, LinkReads

\* A checkout takes one of the active rows.
LEMMA LinkFound ==
  ASSUME CallsOK, LinkTables, NEW c \in Calls, NEW r, r = call[c], Begun(r, LinkOps),
         r.op = "checkout", r.arg \in CheckoutArgs, r.arg.amount \in Prices,
         LinkFact(r), r.pc \in {"find", "winner"},
         NEW l \in ActiveLinks(r.arg.sku), Read(c, [Goes(r, "retrieve") EXCEPT !.found = <<l>>])
  PROVE  LinkDoes(c)
<1> DEFINE g == Goes(r, "retrieve")
           q == [g EXCEPT !.found = <<l>>]
<1>1. Keeps(g, r) /\ g.pc = "retrieve" /\ g.answer = "none" /\ g.excuse = r.excuse
  BY GoesIs DEF Begun
<1> HIDE DEF g
<1>2. /\ IsCall(q) /\ q.op = "checkout" /\ q.arg = r.arg /\ q.pc = "retrieve"
      /\ q.answer = "none" /\ q.excuse = r.excuse /\ q.found = <<l>>
  BY <1>1 DEF Keeps, IsCall
<1>3. Read(c, q)
  BY DEF g
<1> HIDE DEF q
<1>4. LinkLands(q)
  BY <1>2 DEF LinkLands, CallSound, Begun, LinkOps, CartPcs
<1>5. l \in Links /\ link[l] # NoLink /\ link[l].sku = r.arg.sku
  BY DEF ActiveLinks, NoLink, Unused
<1>6. LinkFact(q)
  <2>1. r.arg.made # 0 => url[r.arg.made] # "none"
    BY DEF LinkFact
  <2> QED
    BY <1>2, <1>5, <2>1 DEF LinkFact
<1>7. MadeIsOwn(c, q)
  BY <1>2 DEF MadeIsOwn, Made
<1>8. \A k : AnswersForLink(call[c], k) => AnswersForLink(q, k)
  BY <1>2 DEF AnswersForLink
<1> QED
  BY <1>3, <1>4, <1>6, <1>7, <1>8, LinkReads

LEMMA FindDoes ==
  ASSUME CallsOK, LinkTables, NEW c \in Calls, CallSound(call[c]), LinkFact(call[c]),
         getOrCreatePaymentLinkUrl(c)
  PROVE  LinkDoes(c)
<1>1. PICK r : r = call[c]
  OBVIOUS
<1>2. r.op = "checkout" /\ r.pc = "find"
  BY <1>1 DEF getOrCreatePaymentLinkUrl, At
<1>3. /\ Begun(r, LinkOps) /\ IsCall(r) /\ r.arg \in CheckoutArgs /\ r.arg.amount \in Prices
      /\ LinkFact(r) /\ r.arg.made = 0
  BY <1>1, <1>2, CheckoutUnderWay DEF LinkFact
<1> DEFINE q == Goes(r, "make")
<1>4. \/ \E l \in ActiveLinks(r.arg.sku) :
           Read(c, [Goes(r, "retrieve") EXCEPT !.found = <<l>>])
      \/ Read(c, q)
  BY <1>1 DEF getOrCreatePaymentLinkUrl
<1>5. CASE \E l \in ActiveLinks(r.arg.sku) :
             Read(c, [Goes(r, "retrieve") EXCEPT !.found = <<l>>])
  BY <1>1, <1>2, <1>3, <1>5, LinkFound
<1>6. CASE Read(c, q)
  <2>1. Keeps(q, r) /\ q.pc = "make" /\ q.answer = "none" /\ q.excuse = r.excuse
    BY <1>3, GoesIs DEF Begun
  <2>2. LinkLands(q)
    BY <1>3, LinkEnds DEF CartPcs
  <2> HIDE DEF q
  <2>3. q.op = "checkout" /\ q.arg = r.arg
    BY <1>2, <2>1 DEF Keeps
  <2>4. LinkFact(q) /\ MadeIsOwn(c, q)
    BY <1>3, <2>1, <2>3 DEF LinkFact, MadeIsOwn
  <2>5. \A k : AnswersForLink(call[c], k) => AnswersForLink(q, k)
    BY <1>1, <1>2, <2>1, <2>3 DEF AnswersForLink
  <2> QED
    BY <1>6, <2>2, <2>4, <2>5, LinkReads
<1> QED
  BY <1>4, <1>5, <1>6

\* A link made goes into the argument of the checkout.
LEMMA MadeIs ==
  ASSUME NEW r, Begun(r, LinkOps), r.op = "checkout", NEW l \in Links,
         r.arg \in CheckoutArgs
  PROVE  LET q == [r EXCEPT !.arg.made = l]
         IN /\ IsCall(q) /\ Begun(q, LinkOps) /\ q.op = "checkout" /\ q.excuse = r.excuse
            /\ q.arg \in CheckoutArgs /\ q.arg.made = l /\ q.arg.amount = r.arg.amount
<1> DEFINE a == [r.arg EXCEPT !.made = l]
           q == [r EXCEPT !.arg = a]
<1>1. [r EXCEPT !.arg.made = l] = q
  BY DEF Begun, IsCall
<1>2. a \in CheckoutArgs /\ a.made = l /\ a.amount = r.arg.amount
  BY DEF CheckoutArgs
<1> HIDE DEF a
<1>3. /\ IsCall(q) /\ q.op = r.op /\ q.arg = a /\ q.answer = r.answer /\ q.excuse = r.excuse
  BY DEF Begun, IsCall
<1> QED
  BY <1>1, <1>2, <1>3 DEF Begun

LEMMA MadeFact ==
  ASSUME NEW q, q.op = "checkout", q.arg \in CheckoutArgs, q.arg.amount \in Prices,
         q.pc \in {"record", "done"}, q.answer # "ok",
         link[q.arg.made] = NoLink, link' = link, url'[q.arg.made] = "active",
         q.arg.made # 0
  PROVE  LinkFact(q)'
BY DEF LinkFact

LEMMA MakeDoes ==
  ASSUME CallsOK, LinkTables, NEW c \in Calls, CallSound(call[c]),
         \A d \in Calls : LinkFact(call[d]), makeLink(c)
  PROVE  LinkDoes(c)
<1>1. PICK r : r = call[c]
  OBVIOUS
<1>2. r.op = "checkout" /\ r.pc = "make"
  BY <1>1 DEF makeLink, At
<1>3. /\ Begun(r, LinkOps) /\ IsCall(r) /\ r.arg \in CheckoutArgs /\ r.arg.amount \in Prices
      /\ LinkFact(r) /\ r.arg.made = 0
      /\ \A k \in Links \ {r.arg.made} : ~AnswersForLink(call[c], k)
  BY <1>1, <1>2, CheckoutUnderWay DEF LinkFact
<1>4. PICK l : l = Min({k \in Links : url[k] = "none"})
  OBVIOUS
<1>5. l \in Links /\ url[l] = "none" /\ 0 \notin Links
  <2>1. {k \in Links : url[k] = "none"} \in SUBSET Nat
    BY LinksAssumption
  <2>2. {k \in Links : url[k] = "none"} # {}
    BY DEF makeLink
  <2> QED
    BY <1>4, <2>1, <2>2, MinIs, LinksAssumption
<1> DEFINE m == [r EXCEPT !.arg.made = l]
           good == Goes(m, "record")
           bad == StripeFault(Fails(m))
           none == StripeFault(Fails(r))
<1>6. AtStripe(c, good, l, "active") \/ AtStripe(c, bad, l, "active") \/ Read(c, none)
  BY <1>1, <1>4 DEF makeLink
<1>7. /\ IsCall(m) /\ Begun(m, LinkOps) /\ m.op = "checkout"
      /\ m.arg \in CheckoutArgs /\ m.arg.made = l /\ m.arg.amount \in Prices
  BY <1>2, <1>3, <1>5, MadeIs
<1> HIDE DEF m
<1>8. /\ Keeps(good, m) /\ good.pc = "record" /\ good.answer = "none"
      /\ Keeps(bad, m) /\ bad.pc = "done" /\ bad.answer = "internal-error"
      /\ bad.excuse = m.excuse \cup {"stripe"}
      /\ Keeps(none, r) /\ none.pc = "done" /\ none.answer = "internal-error"
  BY <1>3, <1>7, GoesIs, FailsIs, StripeFaultIs DEF Begun, Keeps
<1>9. LinkLands(good) /\ LinkLands(bad) /\ LinkLands(none)
  BY <1>3, <1>7, LinkEnds DEF CartPcs
<1> HIDE DEF good, bad, none
<1>10. /\ good.op = "checkout" /\ good.arg = m.arg
       /\ bad.op = "checkout" /\ bad.arg = m.arg
       /\ none.op = "checkout" /\ none.arg = r.arg
  BY <1>2, <1>7, <1>8 DEF Keeps
<1>11. \A d \in Calls : ~Made(d, l)
  BY <1>5 DEF Made, LinkFact
<1>12. MadeIsOwn(c, good) /\ MadeIsOwn(c, bad) /\ MadeIsOwn(c, none)
  BY <1>3, <1>7, <1>10, <1>11 DEF MadeIsOwn
<1>13. AnswersForLink(good, l) /\ AnswersForLink(bad, l)
  BY <1>7, <1>8, <1>10 DEF AnswersForLink
<1>14. link[l] = NoLink
  BY <1>5 DEF LinkTables
<1>15. \A k \in Links : ~AnswersForLink(call[c], k)
  BY <1>3, <1>5
<1>16. CASE Read(c, none)
  <2>1. LinkFact(none)
    BY <1>3, <1>8, <1>10 DEF LinkFact
  <2> QED
    BY <1>9, <1>12, <1>15, <1>16, <2>1, LinkReads
<1>17. ASSUME NEW q \in {good, bad}, AtStripe(c, q, l, "active")
       PROVE  LinkDoes(c)
  <2>1. url' = [url EXCEPT ![l] = "active"] /\ link' = link
    BY <1>17 DEF AtStripe
  <2>2. url'[l] = "active"
    BY <1>5, <2>1 DEF LinkTables
  <2>3. /\ q.op = "checkout" /\ q.arg = m.arg /\ q.pc \in {"record", "done"}
        /\ q.answer # "ok"
    BY <1>8, <1>10, <1>17
  <2>4. LinkFact(q)'
    BY <1>5, <1>7, <1>14, <2>1, <2>2, <2>3, MadeFact
  <2> QED
    BY <1>5, <1>9, <1>12, <1>13, <1>14, <1>15, <1>17, <2>4, LinkAsked
<1> QED
  BY <1>6, <1>16, <1>17

LEMMA RecordDoes ==
  ASSUME CallsOK, LinkTables, NEW c \in Calls, CallSound(call[c]), LinkFact(call[c]),
         recordLink(c)
  PROVE  LinkDoes(c)
<1>1. PICK r : r = call[c]
  OBVIOUS
<1>2. r.op = "checkout" /\ r.pc = "record"
  BY <1>1 DEF recordLink, At
<1>3. PICK l : l = r.arg.made
  OBVIOUS
<1>4. /\ Begun(r, LinkOps) /\ IsCall(r) /\ r.arg \in CheckoutArgs /\ r.arg.amount \in Prices
      /\ LinkFact(r) /\ l \in Links /\ l # 0 /\ link[l] = NoLink /\ url[l] = "active"
      /\ \A k \in Links \ {l} : ~AnswersForLink(call[c], k)
  BY <1>1, <1>2, <1>3, CheckoutUnderWay DEF LinkFact, CheckoutArgs
<1> DEFINE row == [state |-> "active", sku |-> r.arg.sku, amount |-> r.arg.amount]
           e == Ends(r, "ok")
           won == [e EXCEPT !.found = <<l>>]
           lost == Goes(r, "deactivate")
           failed == DbFault(Fails(r))
<1>5. \/ /\ link' = [link EXCEPT ![l] = row] /\ UNCHANGED <<tables, url>>
         /\ Stales(c, won) \/ Stales(c, failed)
      \/ ActiveLinks(r.arg.sku) # {} /\ Read(c, lost)
      \/ Read(c, failed)
  BY <1>1, <1>3 DEF recordLink, DbFault
<1>6. /\ Keeps(e, r) /\ e.pc = "done" /\ e.answer = "ok" /\ e.excuse = r.excuse
      /\ Keeps(lost, r) /\ lost.pc = "deactivate" /\ lost.answer = "none"
      /\ lost.excuse = r.excuse
      /\ Keeps(failed, r) /\ failed.pc = "done" /\ failed.answer = "internal-error"
      /\ failed.excuse = r.excuse \cup {"database"}
  BY <1>4, EndsIs, GoesIs, FailsIs, FaultIs DEF Begun, Keeps
<1> HIDE DEF e, lost, failed
<1>7. /\ IsCall(won) /\ won.op = "checkout" /\ won.arg = r.arg /\ won.pc = "done"
      /\ won.answer = "ok" /\ won.excuse = r.excuse /\ won.found = <<l>>
  BY <1>2, <1>6 DEF Keeps, IsCall
<1> HIDE DEF won
<1>8. LinkLands(won) /\ LinkLands(lost) /\ LinkLands(failed)
  BY <1>2, <1>4, <1>6, <1>7 DEF LinkLands, CallSound, Keeps, Begun, LinkOps, CartPcs, Excuses
<1>9. /\ lost.op = "checkout" /\ lost.arg = r.arg
      /\ failed.op = "checkout" /\ failed.arg = r.arg
  BY <1>2, <1>6 DEF Keeps
<1>10. MadeIsOwn(c, won) /\ MadeIsOwn(c, lost) /\ MadeIsOwn(c, failed)
  BY <1>1, <1>2, <1>7, <1>9 DEF MadeIsOwn, Made
<1>11. ASSUME NEW q \in {won, failed},
              link' = [link EXCEPT ![l] = row], UNCHANGED <<tables, url>>, Stales(c, q)
       PROVE  LinkDoes(c)
  <2>1. row \in LinkRows /\ row # NoLink /\ row.sku = r.arg.sku
    BY <1>4 DEF LinkRows, NoLink, CheckoutArgs, Unused
  <2> HIDE DEF row
  <2>2. Leaves(c, q) /\ Marks(c) /\ url' = url /\ UNCHANGED tables
    BY <1>11, StalesMoves
  <2>3. /\ link' \in [Links -> LinkRows]
        /\ \A k \in Links : link'[k] = IF k = l THEN row ELSE link[k]
    BY <1>11, <2>1 DEF LinkTables
  <2>4. LinkTables'
    BY <1>4, <2>2, <2>3 DEF LinkTables
  <2>5. LinkFact(q)'
    <3>1. q.op = "checkout" /\ q.arg = r.arg /\ q.pc = "done"
          /\ (q.answer = "ok" => q.found = <<l>>)
      BY <1>6, <1>7, <1>9, <1>11
    <3> QED
      BY <1>3, <1>4, <2>1, <2>2, <2>3, <3>1 DEF LinkFact
  <2>6. Made(c, l)
    BY <1>1, <1>2, <1>3 DEF Made
  <2>7. LinkCare(c)
    BY <1>4, <2>1, <2>2, <2>3, <2>6 DEF LinkCare
  <2> QED
    BY <1>8, <1>10, <2>2, <2>4, <2>5, <2>7 DEF LinkDoes
<1>12. CASE ActiveLinks(r.arg.sku) # {} /\ Read(c, lost)
  <2>1. LinkFact(lost)
    BY <1>3, <1>4, <1>6, <1>9, <1>12 DEF LinkFact
  <2>2. AnswersForLink(lost, l)
    BY <1>3, <1>6, <1>9 DEF AnswersForLink
  <2> QED
    BY <1>4, <1>8, <1>10, <1>12, <2>1, <2>2, LinkReads
<1>13. CASE Read(c, failed)
  <2>1. LinkFact(failed)
    BY <1>3, <1>4, <1>6, <1>9 DEF LinkFact
  <2>2. AnswersForLink(failed, l)
    BY <1>3, <1>6, <1>9 DEF AnswersForLink
  <2> QED
    BY <1>4, <1>8, <1>10, <1>13, <2>1, <2>2, LinkReads
<1> QED
  BY <1>5, <1>11, <1>12, <1>13

LEMMA DeactivateDoes ==
  ASSUME CallsOK, LinkTables, NEW c \in Calls, CallSound(call[c]), LinkFact(call[c]),
         deactivateOwn(c)
  PROVE  LinkDoes(c)
<1>1. PICK r : r = call[c]
  OBVIOUS
<1>2. r.op = "checkout" /\ r.pc = "deactivate"
  BY <1>1 DEF deactivateOwn, At
<1>3. PICK l : l = r.arg.made
  OBVIOUS
<1>4. /\ Begun(r, LinkOps) /\ IsCall(r) /\ r.arg \in CheckoutArgs /\ r.arg.amount \in Prices
      /\ LinkFact(r) /\ l \in Links /\ l # 0 /\ link[l] = NoLink /\ url[l] = "active"
      /\ \A k \in Links \ {l} : ~AnswersForLink(call[c], k)
  BY <1>1, <1>2, <1>3, CheckoutUnderWay DEF LinkFact, CheckoutArgs
<1> DEFINE good == Goes(r, "winner")
           bad == StripeFault(Goes(r, "winner"))
<1>5. AtStripe(c, good, l, "inactive") \/ Read(c, bad)
  BY <1>1, <1>3 DEF deactivateOwn
<1>6. /\ Keeps(good, r) /\ good.pc = "winner" /\ good.answer = "none"
      /\ good.excuse = r.excuse
      /\ Keeps(bad, r) /\ bad.pc = "winner" /\ bad.answer = "none"
      /\ bad.excuse = r.excuse \cup {"stripe"}
  BY <1>4, GoesIs, StripeFaultIs DEF Begun, Keeps
<1>7. LinkLands(good) /\ LinkLands(bad)
  BY <1>4, LinkEnds DEF CartPcs
<1> HIDE DEF good, bad
<1>8. good.op = "checkout" /\ good.arg = r.arg /\ bad.op = "checkout" /\ bad.arg = r.arg
  BY <1>2, <1>6 DEF Keeps
<1>9. MadeIsOwn(c, good) /\ MadeIsOwn(c, bad) /\ Made(c, l)
  BY <1>1, <1>2, <1>3, <1>8 DEF MadeIsOwn, Made
<1>10. r.excuse = {} => ActiveLinks(r.arg.sku) # {}
  BY <1>2, <1>4 DEF LinkFact
<1>11. CASE AtStripe(c, good, l, "inactive")
  <2>1. url' = [url EXCEPT ![l] = "inactive"] /\ link' = link
    BY <1>11 DEF AtStripe
  <2>2. url'[l] = "inactive"
    BY <1>4, <2>1 DEF LinkTables
  <2>3. ActiveLinks(r.arg.sku)' = ActiveLinks(r.arg.sku)
    BY <2>1 DEF ActiveLinks
  <2>4. LinkFact(good)'
    BY <1>3, <1>4, <1>6, <1>8, <1>10, <2>1, <2>2, <2>3 DEF LinkFact
  <2> QED
    BY <1>4, <1>7, <1>9, <1>11, <2>4, LinkAsked
<1>12. CASE Read(c, bad)
  <2>1. LinkFact(bad)
    BY <1>3, <1>4, <1>6, <1>8 DEF LinkFact
  <2>2. AnswersForLink(bad, l)
    BY <1>3, <1>6, <1>8 DEF AnswersForLink
  <2> QED
    BY <1>4, <1>7, <1>9, <1>12, <2>1, <2>2, LinkReads
<1> QED
  BY <1>5, <1>11, <1>12

LEMMA WinnerDoes ==
  ASSUME CallsOK, LinkTables, NEW c \in Calls, CallSound(call[c]), LinkFact(call[c]),
         findWinner(c)
  PROVE  LinkDoes(c)
<1>1. PICK r : r = call[c]
  OBVIOUS
<1>2. r.op = "checkout" /\ r.pc = "winner"
  BY <1>1 DEF findWinner, At
<1>3. /\ Begun(r, LinkOps) /\ IsCall(r) /\ r.arg \in CheckoutArgs /\ r.arg.amount \in Prices
      /\ LinkFact(r)
  BY <1>1, <1>2, CheckoutUnderWay
<1> DEFINE q == Fails(r)
<1>4. \/ \E l \in ActiveLinks(r.arg.sku) :
           Read(c, [Goes(r, "retrieve") EXCEPT !.found = <<l>>])
      \/ ActiveLinks(r.arg.sku) = {} /\ Read(c, q)
  BY <1>1 DEF findWinner
<1>5. CASE \E l \in ActiveLinks(r.arg.sku) :
             Read(c, [Goes(r, "retrieve") EXCEPT !.found = <<l>>])
  BY <1>1, <1>2, <1>3, <1>5, LinkFound
<1>6. CASE ActiveLinks(r.arg.sku) = {} /\ Read(c, q)
  <2>1. r.excuse # {}
    BY <1>2, <1>3, <1>6 DEF LinkFact
  <2>2. /\ Keeps(q, r) /\ q.pc = "done" /\ q.answer = "internal-error"
        /\ q.excuse = r.excuse /\ LinkLands(q)
    BY <1>3, <2>1, FailsIs, LinkEnds DEF Begun
  <2> HIDE DEF q
  <2>3. q.op = "checkout" /\ q.arg = r.arg
    BY <1>2, <2>2 DEF Keeps
  <2>4. LinkFact(q)
    <3>1. r.arg.made # 0 => url[r.arg.made] # "none"
      BY <1>2, <1>3 DEF LinkFact
    <3> QED
      BY <1>3, <2>2, <2>3, <3>1 DEF LinkFact
  <2>5. MadeIsOwn(c, q)
    BY <1>1, <1>2, <2>3 DEF MadeIsOwn, Made
  <2>6. \A k : AnswersForLink(call[c], k) => AnswersForLink(q, k)
    BY <1>1, <1>2, <2>2, <2>3 DEF AnswersForLink
  <2> QED
    BY <1>6, <2>2, <2>4, <2>5, <2>6, LinkReads
<1> QED
  BY <1>4, <1>5, <1>6

LEMMA RetrieveDoes ==
  ASSUME CallsOK, LinkTables, NEW c \in Calls, CallSound(call[c]), LinkFact(call[c]),
         retrievePaymentLinkUrl(c)
  PROVE  LinkDoes(c)
<1>1. PICK r : r = call[c]
  OBVIOUS
<1>2. r.op = "checkout" /\ r.pc = "retrieve"
  BY <1>1 DEF retrievePaymentLinkUrl, At
<1>3. /\ Begun(r, LinkOps) /\ IsCall(r) /\ r.arg \in CheckoutArgs /\ LinkFact(r)
  BY <1>1, <1>2, CheckoutUnderWay
<1>4. PICK q \in {Ends(r, "ok"), StripeFault(Fails(r))} : Read(c, q)
  BY <1>1 DEF retrievePaymentLinkUrl
<1>5. /\ Keeps(q, r) /\ q.pc = "done" /\ r.excuse \subseteq q.excuse /\ LinkLands(q)
  BY <1>3, <1>4, EndsIs, FailsIs, StripeFaultIs, LinkEnds DEF Keeps
<1>6. q.op = "checkout" /\ q.arg = r.arg /\ q.found = r.found
  BY <1>2, <1>5 DEF Keeps
<1>7. LinkFact(q)
  <2>1. /\ r.arg.made # 0 => url[r.arg.made] # "none"
        /\ \E l \in Links : r.found = <<l>> /\ link[l] # NoLink /\ link[l].sku = r.arg.sku
    BY <1>2, <1>3 DEF LinkFact
  <2> QED
    BY <1>3, <1>5, <1>6, <2>1 DEF LinkFact
<1>8. MadeIsOwn(c, q)
  BY <1>1, <1>2, <1>6 DEF MadeIsOwn, Made
<1>9. \A k : AnswersForLink(call[c], k) => AnswersForLink(q, k)
  BY <1>1, <1>2, <1>5, <1>6 DEF AnswersForLink
<1> QED
  BY <1>4, <1>5, <1>7, <1>8, <1>9, LinkReads

LEMMA LinksStepDoes ==
  ASSUME CallsOK, CatalogTables, LinkTables, NEW c \in Calls, CallSound(call[c]),
         \A d \in Calls : LinkFact(call[d]), LinksStep(c)
  PROVE  LinkDoes(c) /\ (call[c].pc = "idle" \/ call[c].op \in LinkOps)
<1>1. LinkFact(call[c])
  OBVIOUS
<1>2. LinkDoes(c)
  BY <1>1, CheckoutDoes, FindDoes, MakeDoes, RecordDoes, DeactivateDoes, WinnerDoes,
     RetrieveDoes DEF LinksStep
<1>3. call[c].pc = "idle" \/ call[c].op \in LinkOps
  BY DEF LinksStep, createPaymentLinkCheckout, getOrCreatePaymentLinkUrl, makeLink,
         recordLink, deactivateOwn, findWinner, retrievePaymentLinkUrl, Asked, At, LinkOps
<1> QED
  BY <1>2, <1>3

(***************************************************************************)
(* The whole store: every step keeps the tables in order, the facts of the *)
(* call that moves, and the facts of every other call.                     *)
(***************************************************************************)
CallStatic(r) ==
  /\ CallSound(r) /\ ShopArgs(r)
  /\ r.op \in ShoppingOps /\ r.answer = "internal-error"
     => r.excuse \cap {"database", "value"} # {}

CallFact(r) ==
  CallStatic(r) /\ CatalogFact(r) /\ ShopFact(r) /\ ImageFact(r) /\ LinkFact(r)

StoreInv ==
  /\ CallsOK
  /\ CatalogTables /\ ShopTables /\ ImageTables /\ LinkTables
  /\ ImageCalls /\ LinkCalls
  /\ \A c \in Calls : CallFact(call[c])

\* A call one of whose queries threw, while it waited for the database.
Breaks(d) ==
  Thrown(call'[d], call[d]) /\ call[d].pc # "idle" /\ call[d].pc \notin Elsewhere

\* A call the step did not change, or one with no business with those tables,
\* or one that is over without a change to any table.
Rests(d, ops) ==
  \/ SameCall(d)
  \/ call[d].op \notin ops /\ call'[d].op \notin ops
  \/ Breaks(d)

LEMMA StaticKept ==
  ASSUME NEW d, CallStatic(call[d]), SameCall(d)
  PROVE  CallStatic(call[d])'
<1>1. /\ IsCall(call'[d]) /\ call'[d].by = call[d].by /\ call'[d].op = call[d].op
      /\ call'[d].arg = call[d].arg /\ call'[d].pc = call[d].pc
      /\ call'[d].answer = call[d].answer /\ call[d].excuse \subseteq call'[d].excuse
      /\ call'[d].excuse \subseteq call[d].excuse \cup {"race"}
  BY DEF SameCall, Keeps
<1> QED
  BY <1>1 DEF CallStatic, CallSound, ShopArgs, Excuses

LEMMA CatalogKept ==
  ASSUME NEW d, CatalogFact(call[d]), SameCall(d), RowsStay,
         UNCHANGED <<category, product, sku>> \/ (InFlight(d) => call'[d].excuse # {})
  PROVE  CatalogFact(call[d])'
<1>1. /\ call'[d].op = call[d].op /\ call'[d].arg = call[d].arg /\ call'[d].pc = call[d].pc
      /\ call[d].excuse \subseteq call'[d].excuse
  BY DEF SameCall, Keeps
<1>2. CASE category' = category /\ product' = product /\ sku' = sku
  BY <1>1, <1>2 DEF CatalogFact, CategoryExists, ProductsOf
<1>3. CASE InFlight(d) => call'[d].excuse # {}
  BY <1>1, <1>3 DEF CatalogFact, RowsStay, InFlight
<1> QED
  BY <1>2, <1>3

LEMMA CatalogRests ==
  ASSUME NEW d, CatalogFact(call[d]), Rests(d, CatalogOps),
         UNCHANGED <<category, product, sku>>
  PROVE  CatalogFact(call[d])'
<1>1. CASE SameCall(d)
  <2>1. RowsStay
    BY DEF RowsStay
  <2> QED
    BY <1>1, <2>1, CatalogKept
<1>2. CASE call'[d].op \notin CatalogOps
  BY <1>2 DEF CatalogFact, CatalogOps, EditOps
<1>3. CASE Breaks(d)
  BY <1>3 DEF CatalogFact, Breaks, Thrown
<1> QED
  BY <1>1, <1>2, <1>3 DEF Rests

LEMMA ShopKept ==
  ASSUME NEW d, ShopFact(call[d]), SameCall(d), ShopStay
  PROVE  ShopFact(call[d])'
<1>1. /\ call'[d].op = call[d].op /\ call'[d].arg = call[d].arg /\ call'[d].pc = call[d].pc
      /\ call'[d].by = call[d].by
  BY DEF SameCall, Keeps
<1> QED
  BY <1>1 DEF ShopFact, ShopStay

LEMMA ShopRests ==
  ASSUME NEW d, ShopFact(call[d]), Rests(d, ShoppingOps), CallStatic(call[d])',
         UNCHANGED <<hasCart, item, promo>>
  PROVE  ShopFact(call[d])'
<1>1. CASE SameCall(d)
  <2>1. ShopStay
    BY DEF ShopStay
  <2> QED
    BY <1>1, <2>1, ShopKept
<1>2. CASE call'[d].op \notin ShoppingOps
  <2>1. call'[d].pc # "readWinner"
    BY <1>2 DEF ShoppingOps, ShopperOps, ListOps, CallStatic, CallSound, CartPcs
  <2> QED
    BY <1>2, <2>1 DEF ShopFact, ShoppingOps, ShopperOps, ListOps, CartOps
<1>3. CASE Breaks(d)
  BY <1>3 DEF ShopFact, Breaks, Thrown
<1> QED
  BY <1>1, <1>2, <1>3 DEF Rests

LEMMA ImageKept ==
  ASSUME ImageTables, ImageTables', ImageCalls, NEW c \in Calls, NEW d \in Calls, d # c,
         ImageFact(call[d]), SameCall(d), ImageCare(c)
  PROVE  ImageFact(call[d])'
<1>1. /\ call'[d].op = call[d].op /\ call'[d].arg = call[d].arg /\ call'[d].pc = call[d].pc
      /\ call[d].excuse \subseteq call'[d].excuse
  BY DEF SameCall, Keeps
<1>2. image' = image \/ (InFlight(d) => call'[d].excuse # {})
  BY DEF ImageCare, Marks
<1>3. ASSUME call[d].op = "uploadImage"
      PROVE  ImageFact(call[d])'
  <2>1. PICK k : k = call[d].arg.key
    OBVIOUS
  <2>2. k \in Images
    BY <1>3, <2>1 DEF ImageFact
  <2>3. ~(call[c].op = "uploadImage" /\ call[c].arg.key = k)
    BY <1>3, <2>1 DEF ImageCalls
  <2>4. image[k].state = Unused => image'[k].state = Unused
    BY <2>2, <2>3 DEF ImageCare
  <2>5. k \in objects /\ image[k].state = Unused => k \in objects'
    BY <2>3 DEF ImageCare, Unused, Gone
  <2>6. image' = image => \A p : ImagesOf(p)' = ImagesOf(p)
    BY DEF ImagesOf
  <2> QED
    BY <1>1, <1>2, <1>3, <2>1, <2>4, <2>5, <2>6 DEF ImageFact, Uploading, InFlight
<1>4. ASSUME call[d].op # "uploadImage"
      PROVE  ImageFact(call[d])'
  BY <1>1, <1>2, <1>4 DEF ImageFact, ImageCare, InFlight
<1> QED
  BY <1>3, <1>4

LEMMA ImageRests ==
  ASSUME NEW d, ImageFact(call[d]), Rests(d, ImageOps), UNCHANGED <<image, objects>>
  PROVE  ImageFact(call[d])'
<1>1. CASE SameCall(d)
  <2>1. /\ call'[d].op = call[d].op /\ call'[d].arg = call[d].arg /\ call'[d].pc = call[d].pc
        /\ call[d].excuse \subseteq call'[d].excuse
    BY <1>1 DEF SameCall, Keeps
  <2>2. image' = image /\ objects' = objects
    OBVIOUS
  <2>3. \A p : ImagesOf(p)' = ImagesOf(p)
    BY <2>2 DEF ImagesOf
  <2>4. call[d].excuse # {} => call'[d].excuse # {}
    BY <2>1
  <2> QED
    BY <2>1, <2>2, <2>3, <2>4 DEF ImageFact
<1>2. CASE call'[d].op \notin ImageOps
  BY <1>2 DEF ImageFact, ImageOps
<1>3. CASE Breaks(d)
  BY <1>3 DEF ImageFact, Breaks, Thrown, Uploading
<1> QED
  BY <1>1, <1>2, <1>3 DEF Rests

LEMMA ImageCallsKept ==
  ASSUME ImageCalls, NEW c \in Calls, NEW r, Leaves(c, r), KeyIsOwn(c, r), ImageCare(c)
  PROVE  ImageCalls'
<1>1. \A d \in Calls \ {c} :
        /\ call'[d].op = call[d].op /\ call'[d].arg = call[d].arg /\ call'[d].pc = call[d].pc
        /\ call[d].excuse \subseteq call'[d].excuse
  BY DEF Leaves, SameCall, Keeps
<1>2. call'[c] = r
  BY DEF Leaves
<1>3. ASSUME NEW a \in Calls, NEW b \in Calls, a # b,
             call'[a].op = "uploadImage", call'[b].op = "uploadImage"
      PROVE  call'[a].arg.key # call'[b].arg.key
  <2>1. CASE a # c /\ b # c
    BY <1>1, <1>3, <2>1 DEF ImageCalls
  <2>2. ASSUME NEW d \in Calls \ {c}, call'[d].op = "uploadImage", r.op = "uploadImage"
        PROVE  call'[d].arg.key # r.arg.key
    BY <1>1, <2>2 DEF ImageCalls, KeyIsOwn
  <2> QED
    BY <1>2, <1>3, <2>1, <2>2
<1>4. ASSUME NEW i \in objects', image'[i].state # "live"
      PROVE  \E d \in Calls : AnswersFor(call'[d], i)
  <2>1. CASE AnswersFor(call'[c], i)
    BY <2>1
  <2>2. CASE i \in objects /\ image[i].state # "live" /\ ~AnswersFor(call[c], i)
    <3>1. PICK d \in Calls : AnswersFor(call[d], i)
      BY <2>2 DEF ImageCalls
    <3>2. d # c
      BY <2>2, <3>1
    <3>3. AnswersFor(call'[d], i)
      BY <1>1, <3>1, <3>2 DEF AnswersFor
    <3> QED
      BY <3>3
  <2> QED
    BY <1>4, <2>1, <2>2 DEF ImageCare
<1>5. ASSUME NEW i \in Images, image'[i].state = "live", i \notin objects'
      PROVE  \E d \in Calls : Lost(call'[d], i)
  <2>1. CASE Lost(call'[c], i)
    BY <2>1
  <2>2. CASE image[i].state = "live" /\ i \notin objects /\ ~Lost(call[c], i)
    <3>1. PICK d \in Calls \ {c} : Lost(call[d], i)
      BY <2>2 DEF ImageCalls
    <3>2. Lost(call'[d], i)
      BY <1>1, <3>1 DEF Lost
    <3> QED
      BY <3>2
  <2> QED
    BY <1>5, <2>1, <2>2 DEF ImageCare
<1> QED
  BY <1>3, <1>4, <1>5 DEF ImageCalls, AnswersFor, Lost

LEMMA ImageCallsRest ==
  ASSUME ImageCalls, UNCHANGED <<image, objects>>, \A d \in Calls : Rests(d, ImageOps)
  PROVE  ImageCalls'
<1>1. \A d \in Calls :
        \/ /\ call'[d].op = call[d].op /\ call'[d].arg = call[d].arg
           /\ call[d].excuse \subseteq call'[d].excuse
           /\ call'[d].pc = call[d].pc \/ call[d].pc \notin Elsewhere
        \/ call[d].op \notin ImageOps /\ call'[d].op \notin ImageOps
  BY DEF Rests, SameCall, Keeps, Breaks, Thrown
<1>2. image' = image /\ objects' = objects
  OBVIOUS
<1>3. \A a, b \in Calls :
        a # b /\ call'[a].op = "uploadImage" /\ call'[b].op = "uploadImage"
        => call'[a].arg.key # call'[b].arg.key
  BY <1>1 DEF ImageCalls, ImageOps
<1>4. \A d \in Calls : \A i : AnswersFor(call[d], i) => AnswersFor(call'[d], i)
  BY <1>1 DEF AnswersFor, ImageOps, Uploading, Elsewhere
<1>6. \A d \in Calls : \A i : Lost(call[d], i) => Lost(call'[d], i)
  BY <1>1 DEF Lost, ImageOps
<1>7. \A i \in Images :
        image'[i].state = "live" => i \in objects' \/ \E d \in Calls : Lost(call'[d], i)
  BY <1>2, <1>6 DEF ImageCalls
<1>5. \A i \in objects' :
        image'[i].state # "live" => \E d \in Calls : AnswersFor(call'[d], i)
  BY <1>2, <1>4 DEF ImageCalls
<1> QED
  BY <1>3, <1>5, <1>7 DEF ImageCalls, AnswersFor, Lost

LEMMA LinkKept ==
  ASSUME LinkTables, LinkTables', LinkCalls, NEW c \in Calls, NEW d \in Calls, d # c,
         LinkFact(call[d]), SameCall(d), LinkCare(c)
  PROVE  LinkFact(call[d])'
<1>1. /\ call'[d].op = call[d].op /\ call'[d].arg = call[d].arg /\ call'[d].pc = call[d].pc
      /\ call'[d].answer = call[d].answer /\ call'[d].found = call[d].found
      /\ call[d].excuse \subseteq call'[d].excuse
  BY DEF SameCall, Keeps
<1> SUFFICES ASSUME call[d].op = "checkout"
             PROVE  LinkFact(call[d])'
  BY <1>1 DEF LinkFact
<1>2. PICK m : m = call[d].arg.made
  OBVIOUS
<1>3. m \in Links \cup {0} /\ (m # 0 => ~Made(c, m))
  BY <1>2 DEF LinkFact, CheckoutArgs, LinkCalls, Made
<1>4. /\ m # 0 /\ url[m] # "none" => url'[m] # "none"
      /\ m # 0 /\ link[m] = NoLink => link'[m] = NoLink
      /\ m # 0 /\ url[m] = "active" => url'[m] = "active"
  BY <1>3 DEF LinkCare
<1>5. /\ call[d].pc \in {"deactivate", "winner"} /\ call'[d].excuse = {}
      => ActiveLinks(call[d].arg.sku)' # {}
  <2>1. SUFFICES ASSUME call[d].pc \in {"deactivate", "winner"}, call'[d].excuse = {}
                 PROVE  ActiveLinks(call[d].arg.sku)' # {}
    OBVIOUS
  <2>2. link' = link
    BY <2>1 DEF LinkCare, Marks, InFlight
  <2>3. ActiveLinks(call[d].arg.sku) # {}
    BY <1>1, <2>1 DEF LinkFact
  <2> QED
    BY <1>1, <2>2, <2>3 DEF ActiveLinks
<1>6. \A l \in Links : link[l] # NoLink => link'[l] # NoLink /\ link'[l].sku = link[l].sku
  BY DEF LinkCare
<1> QED
  BY <1>1, <1>2, <1>4, <1>5, <1>6 DEF LinkFact

LEMMA LinkRests ==
  ASSUME NEW d, LinkFact(call[d]), Rests(d, LinkOps), UNCHANGED <<link, url>>
  PROVE  LinkFact(call[d])'
<1>1. CASE SameCall(d)
  <2>1. /\ call'[d].op = call[d].op /\ call'[d].arg = call[d].arg /\ call'[d].pc = call[d].pc
        /\ call'[d].answer = call[d].answer /\ call'[d].found = call[d].found
        /\ call[d].excuse # {} => call'[d].excuse # {}
    BY <1>1 DEF SameCall, Keeps
  <2>2. link' = link /\ url' = url
    OBVIOUS
  <2>3. \A s : ActiveLinks(s)' = ActiveLinks(s)
    BY <2>2 DEF ActiveLinks
  <2> QED
    BY <2>1, <2>2, <2>3 DEF LinkFact
<1>2. CASE call'[d].op \notin LinkOps
  BY <1>2 DEF LinkFact, LinkOps
<1>3. CASE Breaks(d)
  BY <1>3 DEF LinkFact, Breaks, Thrown
<1> QED
  BY <1>1, <1>2, <1>3 DEF Rests

LEMMA LinkCallsKept ==
  ASSUME LinkTables, LinkCalls, NEW c \in Calls, NEW r, Leaves(c, r), MadeIsOwn(c, r),
         r.op = "checkout", LinkCare(c)
  PROVE  LinkCalls'
<1>1. \A d \in Calls \ {c} :
        /\ call'[d].op = call[d].op /\ call'[d].arg = call[d].arg /\ call'[d].pc = call[d].pc
        /\ call[d].excuse \subseteq call'[d].excuse
  BY DEF Leaves, SameCall, Keeps
<1>2. call'[c] = r
  BY DEF Leaves
<1>3. ASSUME NEW a \in Calls, NEW b \in Calls, a # b,
             call'[a].op = "checkout", call'[b].op = "checkout", call'[a].arg.made # 0
      PROVE  call'[a].arg.made # call'[b].arg.made
  <2>1. CASE a # c /\ b # c
    BY <1>1, <1>3, <2>1 DEF LinkCalls
  <2>2. ASSUME NEW d \in Calls \ {c}, call'[d].op = "checkout", r.arg.made # 0
        PROVE  call'[d].arg.made # r.arg.made
    BY <1>1, <2>2 DEF LinkCalls, MadeIsOwn, Made
  <2> QED
    BY <1>2, <1>3, <2>1, <2>2
<1>4. ASSUME NEW l \in Links, url'[l] = "active", link'[l] = NoLink
      PROVE  \E d \in Calls : AnswersForLink(call'[d], l)
  <2>1. CASE AnswersForLink(call'[c], l)
    BY <2>1
  <2>2. CASE url[l] = "active" /\ link[l] = NoLink /\ ~AnswersForLink(call[c], l)
    <3>1. PICK d \in Calls : AnswersForLink(call[d], l)
      BY <2>2 DEF LinkCalls
    <3>2. d # c
      BY <2>2, <3>1
    <3>3. AnswersForLink(call'[d], l)
      BY <1>1, <3>1, <3>2 DEF AnswersForLink
    <3> QED
      BY <3>3
  <2> QED
    BY <1>4, <2>1, <2>2 DEF LinkCare
<1>5. \A l \in Links :
        url'[l] = "active" /\ link'[l] = NoLink
        => \E d \in Calls : AnswersForLink(call'[d], l)
  BY <1>4
<1> QED
  BY <1>3, <1>5 DEF LinkCalls, AnswersForLink

LEMMA LinkCallsRest ==
  ASSUME LinkCalls, \A d \in Calls : Rests(d, LinkOps), url' = url,
         \A l \in Links : link'[l] = NoLink => link[l] = NoLink
  PROVE  LinkCalls'
<1>1. \A d \in Calls :
        \/ /\ call'[d].op = call[d].op /\ call'[d].arg = call[d].arg
           /\ call[d].excuse \subseteq call'[d].excuse
           /\ call'[d].pc = call[d].pc \/ call[d].pc \notin Elsewhere
        \/ call[d].op \notin LinkOps /\ call'[d].op \notin LinkOps
  BY DEF Rests, SameCall, Keeps, Breaks, Thrown
<1>2. \A a, b \in Calls :
        a # b /\ call'[a].op = "checkout" /\ call'[b].op = "checkout"
        /\ call'[a].arg.made # 0
        => call'[a].arg.made # call'[b].arg.made
  BY <1>1 DEF LinkCalls, LinkOps
<1>3. \A d \in Calls : \A l : AnswersForLink(call[d], l) => AnswersForLink(call'[d], l)
  BY <1>1 DEF AnswersForLink, LinkOps, Elsewhere
<1>4. \A l \in Links :
        url'[l] = "active" /\ link'[l] = NoLink
        => \E d \in Calls : AnswersForLink(call'[d], l)
  BY <1>3 DEF LinkCalls
<1> QED
  BY <1>2, <1>4 DEF LinkCalls, AnswersForLink

\* The calls, after a step of one of them that lands on r.
LEMMA CallsKept ==
  ASSUME CallsOK, NEW c \in Calls, NEW r, Leaves(c, r), IsCall(r)
  PROVE  CallsOK'
BY DEF CallsOK, Leaves, SameCall, Keeps

LEMMA StaticsKept ==
  ASSUME \A d \in Calls : CallStatic(call[d]), NEW c \in Calls, NEW r, Leaves(c, r),
         CallStatic(r)
  PROVE  \A d \in Calls : CallStatic(call[d])'
<1>1. CallStatic(call[c])'
  BY DEF Leaves, CallStatic, CallSound, ShopArgs
<1>2. \A d \in Calls \ {c} : CallStatic(call[d])'
  BY StaticKept DEF Leaves
<1> QED
  BY <1>1, <1>2

\* Only the mover, with one of its own operations, may not be at rest.
LEMMA OthersRest ==
  ASSUME NEW c \in Calls, NEW r, Leaves(c, r), NEW own, NEW ops, own \cap ops = {},
         r.op \in own, "none" \notin ops, CallStatic(call[c]),
         call[c].pc = "idle" \/ call[c].op \in own
  PROVE  \A d \in Calls : Rests(d, ops)
<1>1. call[c].op \notin ops /\ call'[c].op \notin ops
  BY DEF Leaves, CallStatic, CallSound
<1> QED
  BY <1>1 DEF Leaves, Rests

LEMMA CatalogKeepsStore ==
  ASSUME StoreInv, NEW c \in Calls, CatalogStep(c),
         UNCHANGED <<shopTables, imageTables, linkTables>>
  PROVE  StoreInv'
<1>0. /\ CallStatic(call[c]) /\ CallSound(call[c]) /\ CatalogFact(call[c])
      /\ CallsOK /\ CatalogTables
      /\ \A d \in Calls : CallStatic(call[d]) /\ CatalogFact(call[d]) /\ ShopFact(call[d])
                          /\ ImageFact(call[d]) /\ LinkFact(call[d])
  BY DEF StoreInv, CallFact, CallStatic
<1>1. CatalogDoes(c) /\ (call[c].pc = "idle" \/ call[c].op \in CatalogOps)
  BY <1>0, CatalogStepDoes
<1>2. PICK r : /\ CatalogLands(r)
               /\ \/ Query(c, r)
                  \/ r.pc = "done" /\ Stales(c, r) /\ CatalogTables' /\ RowsStay
  BY <1>1 DEF CatalogDoes
<1>3. /\ Leaves(c, r) /\ CatalogTables' /\ RowsStay /\ CatalogFact(r)'
      /\ UNCHANGED <<category, product, sku>> \/ Marks(c)
  <2>1. CASE Query(c, r)
    <3>1. category' = category /\ product' = product /\ sku' = sku
          /\ call' = [call EXCEPT ![c] = r]
      BY <2>1 DEF Query, tables
    <3>2. Leaves(c, r)
      BY <1>0, <3>1, CallMoves
    <3>3. CatalogTables' /\ RowsStay
      BY <1>0, <3>1 DEF CatalogTables, RowsStay, CategoryExists
    <3>4. CatalogFact(r)'
      BY <1>2, <3>1 DEF CatalogLands, CatalogFact, CategoryExists, ProductsOf
    <3> QED
      BY <3>1, <3>2, <3>3, <3>4
  <2>2. CASE r.pc = "done" /\ Stales(c, r) /\ CatalogTables' /\ RowsStay
    <3>1. CatalogFact(r)'
      BY <2>2 DEF CatalogFact
    <3> QED
      BY <1>0, <2>2, <3>1, StalesMoves
  <2> QED
    BY <1>2, <2>1, <2>2
<1>4. r.op \in CatalogOps /\ CallStatic(r) /\ IsCall(r)
  BY <1>2
  DEF CatalogLands, CallStatic, CallSound, ShopArgs, CatalogOps, EditOps, ShoppingOps,
      ShopperOps, ListOps, CartOps
<1>5. CallsOK' /\ \A d \in Calls : CallStatic(call[d])'
  BY <1>0, <1>3, <1>4, CallsKept, StaticsKept
<1>6. /\ \A d \in Calls : Rests(d, ShoppingOps)
      /\ \A d \in Calls : Rests(d, ImageOps)
      /\ \A d \in Calls : Rests(d, LinkOps)
  <2>1. /\ CatalogOps \cap ShoppingOps = {} /\ CatalogOps \cap ImageOps = {}
        /\ CatalogOps \cap LinkOps = {}
        /\ "none" \notin ShoppingOps /\ "none" \notin ImageOps /\ "none" \notin LinkOps
    BY DEF CatalogOps, EditOps, ShoppingOps, ShopperOps, ListOps, CartOps, ImageOps, LinkOps
  <2> QED
    BY <1>0, <1>1, <1>3, <1>4, <2>1, OthersRest
<1>7. \A d \in Calls : CatalogFact(call[d])'
  <2>1. CatalogFact(call[c])'
    BY <1>3 DEF Leaves, CatalogFact
  <2>2. \A d \in Calls \ {c} : CatalogFact(call[d])'
    BY <1>0, <1>3, CatalogKept DEF Leaves, Marks
  <2> QED
    BY <2>1, <2>2
<1>8. /\ hasCart' = hasCart /\ item' = item /\ promo' = promo
      /\ image' = image /\ objects' = objects /\ link' = link /\ url' = url
  BY DEF shopTables, imageTables, linkTables
<1>9. \A d \in Calls : ShopFact(call[d])' /\ ImageFact(call[d])' /\ LinkFact(call[d])'
  BY <1>0, <1>5, <1>6, <1>8, ShopRests, ImageRests, LinkRests
<1>10. ShopTables' /\ ImageTables' /\ LinkTables'
  BY <1>8 DEF StoreInv, ShopTables, ImageTables, LinkTables
<1>11. ImageCalls' /\ LinkCalls'
  BY <1>6, <1>8, ImageCallsRest, LinkCallsRest DEF StoreInv
<1> QED
  BY <1>3, <1>5, <1>7, <1>9, <1>10, <1>11 DEF StoreInv, CallFact

LEMMA ShoppingKeepsStore ==
  ASSUME StoreInv, NEW c \in Calls, ShoppingStep(c), UNCHANGED <<imageTables, linkTables>>
  PROVE  StoreInv'
<1>0. /\ CallStatic(call[c]) /\ CallSound(call[c]) /\ ShopArgs(call[c]) /\ ShopFact(call[c])
      /\ CallsOK /\ ShopTables
      /\ \A d \in Calls : CallStatic(call[d]) /\ CatalogFact(call[d]) /\ ShopFact(call[d])
                          /\ ImageFact(call[d]) /\ LinkFact(call[d])
  BY DEF StoreInv, CallFact, CallStatic
<1>1. ShopDoes(c) /\ (call[c].pc = "idle" \/ call[c].op \in ShoppingOps)
  BY <1>0, ShoppingStepDoes
<1>2. PICK r : /\ ShopLands(r)
               /\ \/ Look(c, r) /\ ShopFact(r)
                  \/ Touch(c, r) /\ ShopTables' /\ ShopStay /\ ShopFact(r)'
  BY <1>1 DEF ShopDoes
<1>3. /\ Leaves(c, r) /\ ShopTables' /\ ShopStay /\ ShopFact(r)' /\ UNCHANGED tables
  <2>1. CASE Look(c, r) /\ ShopFact(r)
    <3>1. hasCart' = hasCart /\ item' = item /\ promo' = promo /\ UNCHANGED tables
          /\ call' = [call EXCEPT ![c] = r]
      BY <2>1 DEF Look, Query, shopTables
    <3>2. Leaves(c, r)
      BY <1>0, <3>1, CallMoves
    <3>3. ShopTables' /\ ShopStay
      BY <1>0, <3>1 DEF ShopTables, ShopStay
    <3>4. ShopFact(r)'
      BY <2>1, <3>1 DEF ShopFact
    <3> QED
      BY <3>1, <3>2, <3>3, <3>4
  <2>2. CASE Touch(c, r) /\ ShopTables' /\ ShopStay /\ ShopFact(r)'
    BY <1>0, <2>2, StalesMoves DEF Touch
  <2> QED
    BY <1>2, <2>1, <2>2
<1>4. r.op \in ShoppingOps /\ CallStatic(r) /\ IsCall(r)
  BY <1>2 DEF ShopLands, CallStatic, CallSound
<1>5. CallsOK' /\ \A d \in Calls : CallStatic(call[d])'
  BY <1>0, <1>3, <1>4, CallsKept, StaticsKept
<1>6. /\ \A d \in Calls : Rests(d, CatalogOps)
      /\ \A d \in Calls : Rests(d, ImageOps)
      /\ \A d \in Calls : Rests(d, LinkOps)
  <2>1. /\ ShoppingOps \cap CatalogOps = {} /\ ShoppingOps \cap ImageOps = {}
        /\ ShoppingOps \cap LinkOps = {}
        /\ "none" \notin CatalogOps /\ "none" \notin ImageOps /\ "none" \notin LinkOps
    BY DEF CatalogOps, EditOps, ShoppingOps, ShopperOps, ListOps, CartOps, ImageOps, LinkOps
  <2> QED
    BY <1>0, <1>1, <1>3, <1>4, <2>1, OthersRest
<1>7. \A d \in Calls : ShopFact(call[d])'
  <2>1. ShopFact(call[c])'
    BY <1>3 DEF Leaves, ShopFact
  <2>2. \A d \in Calls \ {c} : ShopFact(call[d])'
    BY <1>0, <1>3, ShopKept DEF Leaves
  <2> QED
    BY <2>1, <2>2
<1>8. /\ category' = category /\ product' = product /\ sku' = sku
      /\ image' = image /\ objects' = objects /\ link' = link /\ url' = url
  BY <1>3 DEF tables, imageTables, linkTables
<1>9. \A d \in Calls : CatalogFact(call[d])' /\ ImageFact(call[d])' /\ LinkFact(call[d])'
  BY <1>0, <1>6, <1>8, CatalogRests, ImageRests, LinkRests
<1>10. CatalogTables' /\ ImageTables' /\ LinkTables'
  BY <1>8 DEF StoreInv, CatalogTables, CategoryExists, ImageTables, LinkTables
<1>11. ImageCalls' /\ LinkCalls'
  BY <1>6, <1>8, ImageCallsRest, LinkCallsRest DEF StoreInv
<1> QED
  BY <1>3, <1>5, <1>7, <1>9, <1>10, <1>11 DEF StoreInv, CallFact

LEMMA ImagesKeepStore ==
  ASSUME StoreInv, NEW c \in Calls, ImagesStep(c), UNCHANGED <<shopTables, linkTables>>
  PROVE  StoreInv'
<1>0. /\ CallStatic(call[c]) /\ CallSound(call[c]) /\ ImageFact(call[c])
      /\ CallsOK /\ ImageTables /\ ImageCalls
      /\ \A d \in Calls : CallStatic(call[d]) /\ CatalogFact(call[d]) /\ ShopFact(call[d])
                          /\ ImageFact(call[d]) /\ LinkFact(call[d])
  BY DEF StoreInv, CallFact, CallStatic
<1>1. ImageDoes(c) /\ (call[c].pc = "idle" \/ call[c].op \in ImageOps)
  BY <1>0, ImagesStepDoes
<1>2. PICK r : /\ ImageLands(r) /\ KeyIsOwn(c, r) /\ Leaves(c, r)
               /\ UNCHANGED tables
               /\ ImageTables' /\ ImageFact(r)' /\ ImageCare(c)
  BY <1>1 DEF ImageDoes
<1>3. r.op \in ImageOps /\ CallStatic(r) /\ IsCall(r)
  BY <1>2
  DEF ImageLands, CallStatic, CallSound, ShopArgs, ImageOps, ShoppingOps, ShopperOps,
      ListOps, CartOps
<1>4. CallsOK' /\ \A d \in Calls : CallStatic(call[d])'
  BY <1>0, <1>2, <1>3, CallsKept, StaticsKept
<1>5. /\ \A d \in Calls : Rests(d, CatalogOps)
      /\ \A d \in Calls : Rests(d, ShoppingOps)
      /\ \A d \in Calls : Rests(d, LinkOps)
  <2>1. /\ ImageOps \cap CatalogOps = {} /\ ImageOps \cap ShoppingOps = {}
        /\ ImageOps \cap LinkOps = {}
        /\ "none" \notin CatalogOps /\ "none" \notin ShoppingOps /\ "none" \notin LinkOps
    BY DEF CatalogOps, EditOps, ShoppingOps, ShopperOps, ListOps, CartOps, ImageOps, LinkOps
  <2> QED
    BY <1>0, <1>1, <1>2, <1>3, <2>1, OthersRest
<1>6. \A d \in Calls : ImageFact(call[d])'
  <2>1. ImageFact(call[c])'
    BY <1>2 DEF Leaves, ImageFact
  <2>2. \A d \in Calls \ {c} : ImageFact(call[d])'
    BY <1>0, <1>2, ImageKept DEF Leaves
  <2> QED
    BY <2>1, <2>2
<1>7. /\ category' = category /\ product' = product /\ sku' = sku
      /\ hasCart' = hasCart /\ item' = item /\ promo' = promo /\ link' = link /\ url' = url
  BY <1>2 DEF tables, shopTables, linkTables
<1>8. \A d \in Calls : CatalogFact(call[d])' /\ ShopFact(call[d])' /\ LinkFact(call[d])'
  BY <1>0, <1>4, <1>5, <1>7, CatalogRests, ShopRests, LinkRests
<1>9. CatalogTables' /\ ShopTables' /\ LinkTables'
  BY <1>7 DEF StoreInv, CatalogTables, CategoryExists, ShopTables, LinkTables
<1>10. ImageCalls' /\ LinkCalls'
  BY <1>0, <1>2, <1>5, <1>7, ImageCallsKept, LinkCallsRest DEF StoreInv
<1> QED
  BY <1>2, <1>4, <1>6, <1>8, <1>9, <1>10 DEF StoreInv, CallFact

LEMMA LinksKeepStore ==
  ASSUME StoreInv, NEW c \in Calls, LinksStep(c), UNCHANGED <<shopTables, imageTables>>
  PROVE  StoreInv'
<1>0. /\ CallStatic(call[c]) /\ CallSound(call[c])
      /\ CallsOK /\ CatalogTables /\ LinkTables /\ LinkCalls
      /\ \A d \in Calls : CallStatic(call[d]) /\ CatalogFact(call[d]) /\ ShopFact(call[d])
                          /\ ImageFact(call[d]) /\ LinkFact(call[d])
  BY DEF StoreInv, CallFact, CallStatic
<1>1. LinkDoes(c) /\ (call[c].pc = "idle" \/ call[c].op \in LinkOps)
  BY <1>0, LinksStepDoes
<1>2. PICK r : /\ LinkLands(r) /\ MadeIsOwn(c, r) /\ Leaves(c, r)
               /\ UNCHANGED tables
               /\ LinkTables' /\ LinkFact(r)' /\ LinkCare(c)
  BY <1>1 DEF LinkDoes
<1>3. r.op \in LinkOps /\ r.op = "checkout" /\ CallStatic(r) /\ IsCall(r)
  BY <1>2
  DEF LinkLands, CallStatic, CallSound, ShopArgs, LinkOps, ShoppingOps, ShopperOps,
      ListOps, CartOps
<1>4. CallsOK' /\ \A d \in Calls : CallStatic(call[d])'
  BY <1>0, <1>2, <1>3, CallsKept, StaticsKept
<1>5. /\ \A d \in Calls : Rests(d, CatalogOps)
      /\ \A d \in Calls : Rests(d, ShoppingOps)
      /\ \A d \in Calls : Rests(d, ImageOps)
  <2>1. /\ LinkOps \cap CatalogOps = {} /\ LinkOps \cap ShoppingOps = {}
        /\ LinkOps \cap ImageOps = {}
        /\ "none" \notin CatalogOps /\ "none" \notin ShoppingOps /\ "none" \notin ImageOps
    BY DEF CatalogOps, EditOps, ShoppingOps, ShopperOps, ListOps, CartOps, ImageOps, LinkOps
  <2> QED
    BY <1>0, <1>1, <1>2, <1>3, <2>1, OthersRest
<1>6. \A d \in Calls : LinkFact(call[d])'
  <2>1. LinkFact(call[c])'
    BY <1>2 DEF Leaves, LinkFact
  <2>2. \A d \in Calls \ {c} : LinkFact(call[d])'
    BY <1>0, <1>2, LinkKept DEF Leaves
  <2> QED
    BY <2>1, <2>2
<1>7. /\ category' = category /\ product' = product /\ sku' = sku
      /\ hasCart' = hasCart /\ item' = item /\ promo' = promo
      /\ image' = image /\ objects' = objects
  BY <1>2 DEF tables, shopTables, imageTables
<1>8. \A d \in Calls : CatalogFact(call[d])' /\ ShopFact(call[d])' /\ ImageFact(call[d])'
  BY <1>0, <1>4, <1>5, <1>7, CatalogRests, ShopRests, ImageRests
<1>9. CatalogTables' /\ ShopTables' /\ ImageTables'
  BY <1>7 DEF StoreInv, CatalogTables, CategoryExists, ShopTables, ImageTables
<1>10. ImageCalls' /\ LinkCalls'
  BY <1>0, <1>2, <1>3, <1>5, <1>7, LinkCallsKept, ImageCallsRest DEF StoreInv
<1> QED
  BY <1>2, <1>4, <1>6, <1>8, <1>9, <1>10 DEF StoreInv, CallFact

\* Orders mark some calls as raced, and change nothing else of any call.
LEMMA AllRest ==
  ASSUME StoreInv, DOMAIN call' = Calls, \A d \in Calls : SameCall(d)
  PROVE  /\ CallsOK' /\ \A d \in Calls : CallStatic(call[d])'
         /\ \A d \in Calls : \A ops : Rests(d, ops)
<1>1. CallsOK'
  BY DEF CallsOK, SameCall, Keeps
<1>2. \A d \in Calls : CallStatic(call[d])
  BY DEF StoreInv, CallFact
<1>3. \A d \in Calls : CallStatic(call[d])'
  BY <1>2, StaticKept
<1> QED
  BY <1>1, <1>3 DEF Rests

LEMMA MarkedIsSame ==
  ASSUME CallsOK, NEW d \in Calls,
         \/ call'[d] = call[d]
         \/ call'[d] = [call[d] EXCEPT !.excuse = @ \cup {"race"}]
  PROVE  SameCall(d)
BY DEF CallsOK, IsCall, SameCall, Keeps

\* A query that throws ends one call and changes nothing else.
LEMMA ThrowsKeepStore ==
  ASSUME StoreInv, NEW c \in Calls, QueryThrows(c),
         UNCHANGED <<shopTables, imageTables, linkTables>>
  PROVE  StoreInv'
<1>0. /\ CallsOK /\ CallSound(call[c]) /\ CallStatic(call[c])
      /\ \A d \in Calls : CallStatic(call[d]) /\ CatalogFact(call[d]) /\ ShopFact(call[d])
                          /\ ImageFact(call[d]) /\ LinkFact(call[d])
  BY DEF StoreInv, CallFact, CallStatic
<1>1. /\ UNCHANGED tables /\ call[c].pc # "idle" /\ call[c].pc \notin Elsewhere
      /\ Leaves(c, call'[c]) /\ Thrown(call'[c], call[c])
  BY <1>0, QueryThrowsIs
<1>2. PICK r : r = call'[c]
  OBVIOUS
<1>3. Leaves(c, r) /\ Thrown(r, call[c])
  BY <1>1, <1>2
<1>4. IsCall(r) /\ CallStatic(r)
  BY <1>0, <1>1, <1>3 DEF CallStatic, CallSound, ShopArgs, Thrown, Excuses, CartPcs
<1>5. CallsOK' /\ \A d \in Calls : CallStatic(call[d])'
  BY <1>0, <1>3, <1>4, CallsKept, StaticsKept
<1>6. \A d \in Calls : \A ops : Rests(d, ops)
  BY <1>1 DEF Rests, Breaks, Leaves
<1>7. /\ category' = category /\ product' = product /\ sku' = sku
      /\ hasCart' = hasCart /\ item' = item /\ promo' = promo
      /\ image' = image /\ objects' = objects /\ link' = link /\ url' = url
  BY <1>1 DEF tables, shopTables, imageTables, linkTables
<1>8. \A d \in Calls : CatalogFact(call[d])' /\ ShopFact(call[d])'
                       /\ ImageFact(call[d])' /\ LinkFact(call[d])'
  BY <1>0, <1>5, <1>6, <1>7, CatalogRests, ShopRests, ImageRests, LinkRests
<1>9. CatalogTables' /\ ShopTables' /\ ImageTables' /\ LinkTables'
  BY <1>7 DEF StoreInv, CatalogTables, CategoryExists, ShopTables, ImageTables, LinkTables
<1>10. ImageCalls' /\ LinkCalls'
  BY <1>6, <1>7, ImageCallsRest, LinkCallsRest DEF StoreInv
<1> QED
  BY <1>5, <1>8, <1>9, <1>10 DEF StoreInv, CallFact

LEMMA ReservationKeepsStore ==
  ASSUME StoreInv, NEW s \in Skus, Reservation(s),
         UNCHANGED <<shopTables, imageTables, linkTables>>
  PROVE  StoreInv'
<1>1. /\ category' = category /\ product' = product /\ sku' = sku
      /\ hasCart' = hasCart /\ item' = item /\ promo' = promo
      /\ image' = image /\ objects' = objects /\ link' = link /\ url' = url
  BY DEF Reservation, shopTables, imageTables, linkTables
<1>2. DOMAIN call' = Calls /\ \A d \in Calls : SameCall(d)
  <2>1. CallsOK
    BY DEF StoreInv
  <2> QED
    BY <2>1, MarkedIsSame DEF Reservation
<1>3. /\ CallsOK' /\ \A d \in Calls : CallStatic(call[d])'
      /\ \A d \in Calls : \A ops : Rests(d, ops)
  BY <1>2, AllRest
<1>4. \A d \in Calls : CatalogFact(call[d]) /\ ShopFact(call[d])
                       /\ ImageFact(call[d]) /\ LinkFact(call[d])
  BY DEF StoreInv, CallFact
<1>5. \A d \in Calls : CatalogFact(call[d])' /\ ShopFact(call[d])'
                       /\ ImageFact(call[d])' /\ LinkFact(call[d])'
  BY <1>1, <1>3, <1>4, CatalogRests, ShopRests, ImageRests, LinkRests
<1>6. CatalogTables' /\ ShopTables' /\ ImageTables' /\ LinkTables'
  BY <1>1 DEF StoreInv, CatalogTables, CategoryExists, ShopTables, ImageTables,
              LinkTables
<1>7. ImageCalls' /\ LinkCalls'
  BY <1>1, <1>3, ImageCallsRest, LinkCallsRest DEF StoreInv
<1> QED
  BY <1>3, <1>5, <1>6, <1>7 DEF StoreInv, CallFact

LEMMA SoldOutKeepsStore ==
  ASSUME StoreInv, NEW s \in Skus, SoldOut(s), UNCHANGED <<shopTables, imageTables>>
  PROVE  StoreInv'
<1>1. /\ category' = category /\ product' = product /\ sku' = sku
      /\ hasCart' = hasCart /\ item' = item /\ promo' = promo
      /\ image' = image /\ objects' = objects /\ url' = url
  BY DEF SoldOut, tables, shopTables, imageTables
<1>2. DOMAIN call' = Calls /\ \A d \in Calls : SameCall(d)
  <2>1. CallsOK
    BY DEF StoreInv
  <2> QED
    BY <2>1, MarkedIsSame DEF SoldOut
<1>3. /\ CallsOK' /\ \A d \in Calls : CallStatic(call[d])'
      /\ \A d \in Calls : \A ops : Rests(d, ops)
  BY <1>2, AllRest
<1>4. CallsOK /\ LinkTables
      /\ \A d \in Calls : CatalogFact(call[d]) /\ ShopFact(call[d])
                          /\ ImageFact(call[d]) /\ LinkFact(call[d])
  BY DEF StoreInv, CallFact
<1>5. /\ link' \in [Links -> LinkRows]
      /\ \A l \in Links : link[l] # NoLink <=> link'[l] # NoLink
      /\ \A l \in Links : link[l] # NoLink => link'[l].sku = link[l].sku
  <2>1. /\ DOMAIN link' = Links /\ link' = [l \in Links |-> link'[l]]
        /\ \A l \in Links : link'[l] = IF l \in ActiveLinks(s)
                                       THEN [link[l] EXCEPT !.state = "deactivated"] ELSE link[l]
    BY DEF SoldOut
  <2>2. ASSUME NEW l \in Links
        PROVE  /\ link'[l] \in LinkRows /\ (link[l] # NoLink <=> link'[l] # NoLink)
               /\ link[l] # NoLink => link'[l].sku = link[l].sku
    <3>1. link[l] \in LinkRows
      BY <1>4 DEF LinkTables
    <3>2. CASE l \in ActiveLinks(s)
      <4>1. link[l] \in [state : {"active", "deactivated"}, sku : Skus, amount : Prices]
        BY <3>1, <3>2 DEF LinkRows, NoLink, ActiveLinks, Unused
      <4>2. /\ link'[l] \in [state : {"active", "deactivated"}, sku : Skus, amount : Prices]
            /\ link'[l].sku = link[l].sku
        BY <2>1, <3>2, <4>1
      <4> QED
        BY <4>1, <4>2 DEF LinkRows, NoLink, Unused
    <3>3. CASE l \notin ActiveLinks(s)
      BY <2>1, <3>1, <3>3
    <3> QED
      BY <3>2, <3>3
  <2> QED
    BY <2>1, <2>2
<1>6. LinkTables'
  BY <1>1, <1>4, <1>5 DEF LinkTables
<1>7. ASSUME NEW d \in Calls
      PROVE  LinkFact(call[d])'
  <2>1. /\ call'[d].op = call[d].op /\ call'[d].arg = call[d].arg /\ call'[d].pc = call[d].pc
        /\ call'[d].answer = call[d].answer /\ call'[d].found = call[d].found
    BY <1>2 DEF SameCall, Keeps
  <2>2. call[d].op = "checkout" /\ InFlight(d) => call'[d].excuse # {}
    <3>1. call[d].op = "checkout" /\ InFlight(d)
          => call'[d] = [call[d] EXCEPT !.excuse = @ \cup {"race"}]
      BY DEF SoldOut
    <3> QED
      BY <1>4, <3>1 DEF CallsOK, IsCall
  <2>3. LinkFact(call[d])
    BY <1>4
  <2> SUFFICES ASSUME call[d].op = "checkout"
               PROVE  LinkFact(call[d])'
    BY <2>1 DEF LinkFact
  <2>4. call[d].pc \in {"deactivate", "winner"} => call'[d].excuse # {}
    BY <2>2 DEF InFlight
  <2>5. call[d].arg.made \in Links \cup {0}
    BY <2>3 DEF LinkFact, CheckoutArgs
  <2> QED
    BY <1>1, <1>5, <2>1, <2>3, <2>4, <2>5 DEF LinkFact
<1>8. \A d \in Calls : CatalogFact(call[d])' /\ ShopFact(call[d])' /\ ImageFact(call[d])'
  BY <1>1, <1>3, <1>4, CatalogRests, ShopRests, ImageRests
<1>9. CatalogTables' /\ ShopTables' /\ ImageTables'
  BY <1>1 DEF StoreInv, CatalogTables, CategoryExists, ShopTables, ImageTables
<1>10. ImageCalls' /\ LinkCalls'
  BY <1>1, <1>3, <1>5, ImageCallsRest, LinkCallsRest DEF StoreInv
<1> QED
  BY <1>3, <1>6, <1>7, <1>8, <1>9, <1>10 DEF StoreInv, CallFact

LEMMA StoreInitInv ==
  StoreInit => StoreInv
<1> SUFFICES ASSUME StoreInit
             PROVE  StoreInv
  OBVIOUS
<1>1. \A c \in Calls : call[c] = NoCall
  BY DEF StoreInit, CatalogInit
<1>2. CallsOK
  BY DEF StoreInit, CatalogInit, CallsOK, IsCall, NoCall
<1>3. /\ IsCall(NoCall) /\ NoCall.op = "none" /\ NoCall.pc = "idle" /\ NoCall.answer = "none"
      /\ NoCall.excuse = {}
  BY DEF NoCall, IsCall
<1>4. CallFact(NoCall)
  BY <1>3
  DEF CallFact, CallStatic, CallSound, ShopArgs, ShoppingOps, ShopperOps, ListOps, CartOps,
      CartPcs,
              CatalogFact, ShopFact, ImageFact, LinkFact
<1>5. CatalogTables
  BY DEF StoreInit, CatalogInit, CatalogTables
<1>6. ShopTables
  <2>1. /\ hasCart \subseteq Users /\ item \in [Items -> ItemRows]
        /\ promo \in [Promos -> PromoRows]
        /\ \A i \in Items : item[i] # NoItem => item[i].user \in hasCart
        /\ \A p \in Promos : promo[p].state = "live" =>
             promo[p].code.upper /\ WithCode(promo[p].code) = {p}
    BY DEF StoreInit, ShoppingInit
  <2>2. ASSUME NEW p \in Promos, NEW q \in Promos, promo[p].state = "live",
               promo[q].state = "live", p # q
        PROVE  promo[p].code # promo[q].code
    <3>1. q \notin WithCode(promo[p].code)
      BY <2>1, <2>2
    <3> QED
      BY <2>2, <3>1 DEF WithCode
  <2> QED
    BY <2>1, <2>2 DEF ShopTables
<1>7. ImageTables
  BY DEF StoreInit, ImagesInit, ImageTables
<1>8. LinkTables
  BY DEF StoreInit, LinksInit, LinkTables
<1>9. ImageCalls
  BY <1>1, <1>3 DEF StoreInit, ImagesInit, ImageCalls
<1>10. LinkCalls
  BY <1>1, <1>3 DEF StoreInit, LinksInit, LinkCalls
<1> QED
  BY <1>1, <1>2, <1>4, <1>5, <1>6, <1>7, <1>8, <1>9, <1>10 DEF StoreInv

LEMMA StoreStep ==
  StoreInv /\ [StoreNext]_storeVars => StoreInv'
<1> SUFFICES ASSUME StoreInv, [StoreNext]_storeVars
             PROVE  StoreInv'
  OBVIOUS
<1>1. ASSUME NEW c \in Calls, CallStep(c)
      PROVE  StoreInv'
  BY <1>1, CatalogKeepsStore, ShoppingKeepsStore, ImagesKeepStore, LinksKeepStore,
     ThrowsKeepStore DEF CallStep
<1>2. CASE OrdersStep
  BY <1>2, ReservationKeepsStore, SoldOutKeepsStore DEF OrdersStep
<1>3. CASE UNCHANGED storeVars
  <2>1. /\ category' = category /\ product' = product /\ sku' = sku
        /\ hasCart' = hasCart /\ item' = item /\ promo' = promo
        /\ image' = image /\ objects' = objects /\ link' = link /\ url' = url
        /\ call' = call
    BY <1>3 DEF storeVars, tables, shopTables, imageTables, linkTables
  <2>2. \A d \in Calls : SameCall(d)
    <3>1. CallsOK
      BY DEF StoreInv
    <3> QED
      BY <2>1, <3>1, MarkedIsSame
  <2>3. DOMAIN call' = Calls
    BY <2>1 DEF StoreInv, CallsOK
  <2>4. /\ CallsOK' /\ \A d \in Calls : CallStatic(call[d])'
        /\ \A d \in Calls : \A ops : Rests(d, ops)
    BY <2>2, <2>3, AllRest
  <2>5. \A d \in Calls : CatalogFact(call[d])' /\ ShopFact(call[d])'
                         /\ ImageFact(call[d])' /\ LinkFact(call[d])'
    BY <2>1, <2>4, CatalogRests, ShopRests, ImageRests, LinkRests DEF StoreInv, CallFact
  <2>6. CatalogTables' /\ ShopTables' /\ ImageTables' /\ LinkTables'
    BY <2>1 DEF StoreInv, CatalogTables, CategoryExists, ShopTables, ImageTables,
                LinkTables
  <2>7. ImageCalls' /\ LinkCalls'
    BY <2>1, <2>4, ImageCallsRest, LinkCallsRest DEF StoreInv
  <2> QED
    BY <2>4, <2>5, <2>6, <2>7 DEF StoreInv, CallFact
<1> QED
  BY <1>1, <1>2, <1>3 DEF StoreNext

LEMMA StoreInvHolds ==
  StoreSpec => []StoreInv
BY StoreInitInv, StoreStep, PTL DEF StoreSpec

(***************************************************************************)
(* Lists and their totals. A list is sorted by how many rows come before   *)
(* each row; if the order is strict and total, these are all the numbers   *)
(* from none to the last, so every place of the list is taken.             *)
(***************************************************************************)
Shown(total, offset) == Max({0, Min({PageSize, total - offset})})

LEMMA MinOfTwo ==
  ASSUME NEW a \in Int, NEW b \in Int
  PROVE  Min({a, b}) = IF a <= b THEN a ELSE b
<1> DEFINE m == IF a <= b THEN a ELSE b
<1>1. m \in {a, b} /\ \A y \in {a, b} : m <= y
  OBVIOUS
<1>2. \A x \in {a, b} : (\A y \in {a, b} : x <= y) => x = m
  OBVIOUS
<1> QED
  BY <1>1, <1>2 DEF Min

LEMMA MaxOfTwo ==
  ASSUME NEW a \in Int, NEW b \in Int
  PROVE  Max({a, b}) = IF a >= b THEN a ELSE b
<1> DEFINE m == IF a >= b THEN a ELSE b
<1>1. m \in {a, b} /\ \A y \in {a, b} : m >= y
  OBVIOUS
<1>2. \A x \in {a, b} : (\A y \in {a, b} : x >= y) => x = m
  OBVIOUS
<1> QED
  BY <1>1, <1>2 DEF Max

LEMMA PlacesAreTaken ==
  ASSUME NEW rows, IsFiniteSet(rows), NEW before \in [rows -> SUBSET rows],
         \A p \in rows : p \notin before[p],
         \A p, r \in rows : p # r => \/ before[p] \cup {p} \subseteq before[r]
                                     \/ before[r] \cup {r} \subseteq before[p]
  PROVE  Ordered(before) \in [1 .. Cardinality(rows) -> rows]
<1> DEFINE n == Cardinality(rows)
           place == [p \in rows |-> Cardinality(before[p]) + 1]
<1>1. n \in Nat
  BY FS_CardinalityType
<1>2. ASSUME NEW p \in rows
      PROVE  /\ IsFiniteSet(before[p]) /\ Cardinality(before[p]) \in Nat
             /\ Cardinality(before[p]) < n
  <2>1. before[p] \in SUBSET rows /\ before[p] # rows
    OBVIOUS
  <2>2. IsFiniteSet(before[p]) /\ Cardinality(before[p]) <= n /\ Cardinality(before[p]) # n
    BY <2>1, FS_Subset
  <2> QED
    BY <1>1, <2>2, FS_CardinalityType
<1>3. place \in [rows -> 1 .. n]
  BY <1>1, <1>2
<1>4. ASSUME NEW p \in rows, NEW r \in rows, before[p] \cup {p} \subseteq before[r]
      PROVE  Cardinality(before[p]) # Cardinality(before[r])
  <2>1. before[p] \in SUBSET before[r] /\ before[r] # before[p]
    BY <1>4
  <2> QED
    BY <1>2, <2>1, FS_Subset
<1>5. ASSUME NEW p \in rows, NEW r \in rows, p # r
      PROVE  place[p] # place[r]
  <2>1. Cardinality(before[p]) # Cardinality(before[r])
    BY <1>4, <1>5
  <2> QED
    BY <1>2, <2>1
<1>6. place \in Injection(rows, 1 .. n)
  BY <1>3, <1>5 DEF Injection, IsInjective
<1>7. IsFiniteSet(1 .. n) /\ Cardinality(1 .. n) = n
  BY <1>1, FS_Interval
<1>8. place \in Surjection(rows, 1 .. n)
  BY <1>6, <1>7, FS_Injection
<1>9. ASSUME NEW k \in 1 .. n
      PROVE  (CHOOSE p \in rows : Cardinality(before[p]) = k - 1) \in rows
  <2>1. PICK p \in rows : place[p] = k
    BY <1>8 DEF Surjection
  <2>2. Cardinality(before[p]) = k - 1
    BY <1>2, <2>1
  <2> QED
    BY <2>2
<1>10. DOMAIN before = rows
  OBVIOUS
<1> QED
  BY <1>9, <1>10 DEF Ordered

\* A page shows rows of the list, and as many as the list has from there on.
LEMMA PageIs ==
  ASSUME NEW n \in Nat, NEW rows, DOMAIN rows = 1 .. n, NEW offset \in Nat,
         rows = [k \in 1 .. n |-> rows[k]]
  PROVE  /\ Len(rows) = n
         /\ Len(PageFrom(rows, offset)) = Shown(n, offset)
         /\ \A S : (\A k \in 1 .. n : rows[k] \in S)
                   => \A k \in DOMAIN PageFrom(rows, offset) : PageFrom(rows, offset)[k] \in S
<1> DEFINE T == {rows[k] : k \in 1 .. n}
           last == Min({offset + PageSize, Len(rows)})
           page == PageFrom(rows, offset)
<1>1. rows \in Seq(T) /\ Len(rows) = n
  <2>1. rows \in [1 .. n -> T]
    OBVIOUS
  <2> HIDE DEF T
  <2>2. rows \in Seq(T)
    BY <2>1, SeqDef
  <2>3. Len(rows) \in Nat /\ DOMAIN rows = 1 .. Len(rows)
    BY <2>2, LenProperties
  <2>4. 1 .. n = 1 .. Len(rows)
    BY <2>3
  <2>5. n = Len(rows)
    BY <2>3, <2>4
  <2> QED
    BY <2>2, <2>5
<1>2. PageSize \in Nat /\ PageSize > 0
  BY CatalogAssumption DEF CatalogAssumption
<1>3. last = (IF offset + PageSize <= n THEN offset + PageSize ELSE n) /\ last \in Nat
  <2>1. offset + PageSize \in Int /\ n \in Int
    BY <1>2
  <2>2. last = (IF offset + PageSize <= n THEN offset + PageSize ELSE n)
    BY <1>1, <2>1, MinOfTwo
  <2> HIDE DEF last
  <2> QED
    BY <1>2, <2>2
<1>4. page = SubSeq(rows, offset + 1, last)
  BY DEF PageFrom
<1> HIDE DEF last, page
<1>5. /\ Len(page) = IF offset + 1 <= last THEN last - offset ELSE 0
      /\ \A k \in 1 .. last - offset : page[k] = rows[offset + k]
      /\ DOMAIN page = 1 .. Len(page)
  <2>1. \A k \in (offset + 1) .. last : rows[k] \in T
    BY <1>2, <1>3
  <2>2. /\ SubSeq(rows, offset + 1, last) \in Seq(T)
        /\ Len(SubSeq(rows, offset + 1, last)) =
             IF offset + 1 <= last THEN last - (offset + 1) + 1 ELSE 0
        /\ \A i \in 1 .. last - (offset + 1) + 1 :
             SubSeq(rows, offset + 1, last)[i] = rows[offset + 1 + i - 1]
    BY <1>3, <2>1, SubSeqProperties
  <2>3. page \in Seq(T)
    BY <1>4, <2>2
  <2>4. DOMAIN page = 1 .. Len(page)
    BY <2>3, LenProperties
  <2> QED
    BY <1>3, <1>4, <2>2, <2>4
<1>6. Shown(n, offset) = IF offset + 1 <= last THEN last - offset ELSE 0
  <2> DEFINE m == Min({PageSize, n - offset})
  <2>1. PageSize \in Int /\ n - offset \in Int
    BY <1>2
  <2>2. m = IF PageSize <= n - offset THEN PageSize ELSE n - offset
    BY <2>1, MinOfTwo
  <2>3. Shown(n, offset) = Max({0, m})
    BY DEF Shown
  <2> HIDE DEF m
  <2>4. m \in Int
    BY <2>1, <2>2
  <2>5. Max({0, m}) = IF 0 >= m THEN 0 ELSE m
    BY <2>4, MaxOfTwo
  <2> QED
    BY <1>2, <1>3, <2>2, <2>3, <2>4, <2>5
<1>7. ASSUME NEW S, \A k \in 1 .. n : rows[k] \in S, NEW k \in DOMAIN page
      PROVE  page[k] \in S
  <2>1. k \in 1 .. last - offset /\ offset + k \in 1 .. n
    BY <1>2, <1>3, <1>5, <1>7
  <2> QED
    BY <1>5, <1>7, <2>1
<1> QED
  BY <1>1, <1>5, <1>6, <1>7 DEF page

LEMMA OffsetIs ==
  ASSUME NEW q \in ProductQueries
  PROVE  q.offset \in Nat
<1>1. PageSize \in Nat /\ Cardinality(Products) \in Nat
  BY FS_CardinalityType, CatalogAssumption DEF CatalogAssumption
<1>2. PICK k \in 0 .. Cardinality(Products) : q.offset = k * PageSize
  BY DEF ProductQueries
<1> QED
  BY <1>1, <1>2

LEMMA LowestPriceIs ==
  ASSUME CatalogTables, NEW p, ProductSkus(p) # {}
  PROVE  LowestPrice(p) \in Nat
<1> DEFINE prices == {sku[s].price : s \in ProductSkus(p)}
<1>1. \A s \in ProductSkus(p) : sku[s].price \in Prices
  BY DEF CatalogTables, ProductSkus, SkuRows, NoSku, Unused
<1>2. prices \in SUBSET Nat /\ prices # {}
  <2>1. \A x \in Prices : x \in Nat
    BY CatalogAssumption DEF CatalogAssumption
  <2> QED
    BY <1>1, <2>1
<1> HIDE DEF prices
<1>3. Min(prices) \in prices
  BY <1>2, MinIs
<1>4. LowestPrice(p) = Min(prices)
  BY DEF LowestPrice, prices
<1> QED
  BY <1>2, <1>3, <1>4

\* The order of a page is strict and total on rows that have what it sorts by.
LEMMA PrecedesIsAnOrder ==
  ASSUME NEW q, NEW rows \in SUBSET Nat,
         ByPrice(q) => \A p \in rows : LowestPrice(p) \in Nat
  PROVE  /\ \A p \in rows : ~Precedes(q, p, p)
         /\ \A p, r \in rows : p # r => Precedes(q, p, r) \/ Precedes(q, r, p)
         /\ \A p, r, s \in rows : Precedes(q, p, r) /\ Precedes(q, r, s) => Precedes(q, p, s)
<1>1. ASSUME NEW p, NEW r, q.sort = "price"
      PROVE  Precedes(q, p, r) <=>
               \/ LowestPrice(p) < LowestPrice(r)
               \/ LowestPrice(p) = LowestPrice(r) /\ p < r
  BY <1>1 DEF Precedes
<1>2. ASSUME NEW p, NEW r, q.sort = "-price"
      PROVE  Precedes(q, p, r) <=>
               \/ LowestPrice(p) > LowestPrice(r)
               \/ LowestPrice(p) = LowestPrice(r) /\ p < r
  BY <1>2 DEF Precedes
<1>3. ASSUME NEW p, NEW r, ~ByPrice(q)
      PROVE  Precedes(q, p, r) <=> IF q.sort = "createdAt" THEN p < r ELSE p > r
  BY <1>3 DEF Precedes, ByPrice
<1>4. CASE q.sort = "price"
  <2>1. \A p \in rows : LowestPrice(p) \in Nat
    BY <1>4 DEF ByPrice
  <2> QED
    BY <1>1, <1>4, <2>1
<1>5. CASE q.sort = "-price"
  <2>1. \A p \in rows : LowestPrice(p) \in Nat
    BY <1>5 DEF ByPrice
  <2> QED
    BY <1>2, <1>5, <2>1
<1>6. CASE ~ByPrice(q)
  BY <1>3, <1>6
<1> QED
  BY <1>4, <1>5, <1>6 DEF ByPrice

\* A page of products shows products the filters match, as many as the total
\* leaves from its offset on.
LEMMA ProductPageIs ==
  ASSUME CatalogTables, NEW q \in ProductQueries, NEW where \in SUBSET Products
  PROVE  LET page == findProductsPage(q, where)
         IN /\ \A k \in DOMAIN page : page[k] \in where
            /\ Len(page) = Shown(countTotal(q, where), q.offset)
<1> DEFINE rows == IF ByPrice(q) THEN {p \in where : ProductSkus(p) # {}} ELSE where
           before == [p \in rows |-> {r \in rows : Precedes(q, r, p)}]
           n == Cardinality(rows)
           sorted == Ordered(before)
<1>1. /\ rows \in SUBSET where /\ rows \in SUBSET Products /\ rows \in SUBSET Nat
      /\ IsFiniteSet(rows)
  <2>1. rows \in SUBSET where
    OBVIOUS
  <2>2. IsFiniteSet(Products) /\ Products \subseteq Nat
    BY CatalogAssumption DEF CatalogAssumption
  <2> HIDE DEF rows
  <2> QED
    BY <2>1, <2>2, FS_Subset
<1>2. ByPrice(q) => \A p \in rows : LowestPrice(p) \in Nat
  BY LowestPriceIs
<1>3. countTotal(q, where) = n
  BY DEF countTotal
<1>4. findProductsPage(q, where) = PageFrom(sorted, q.offset)
  BY DEF findProductsPage
<1> HIDE DEF rows
<1>5. /\ \A p \in rows : ~Precedes(q, p, p)
      /\ \A p, r \in rows : p # r => Precedes(q, p, r) \/ Precedes(q, r, p)
      /\ \A p, r, s \in rows : Precedes(q, p, r) /\ Precedes(q, r, s) => Precedes(q, p, s)
  BY <1>1, <1>2, PrecedesIsAnOrder
<1>6. /\ before \in [rows -> SUBSET rows]
      /\ \A p \in rows : p \notin before[p]
      /\ \A p, r \in rows : p # r => \/ before[p] \cup {p} \subseteq before[r]
                                     \/ before[r] \cup {r} \subseteq before[p]
  BY <1>5
<1> HIDE DEF before
<1>7. sorted \in [1 .. n -> rows]
  BY <1>1, <1>6, PlacesAreTaken
<1>8. n \in Nat /\ q.offset \in Nat
  BY <1>1, FS_CardinalityType, OffsetIs
<1> HIDE DEF sorted, n
<1>9. /\ DOMAIN sorted = 1 .. n /\ sorted = [k \in 1 .. n |-> sorted[k]]
      /\ \A k \in 1 .. n : sorted[k] \in where
  BY <1>1, <1>7
<1>10. /\ Len(PageFrom(sorted, q.offset)) = Shown(n, q.offset)
       /\ \A k \in DOMAIN PageFrom(sorted, q.offset) :
            PageFrom(sorted, q.offset)[k] \in where
  BY <1>8, <1>9, PageIs
<1> QED
  BY <1>3, <1>4, <1>10

\* The list and its count agree when read at the same moment.
LEMMA HalvesAgree ==
  ASSUME NEW r, r.op \in ListOps, r.arg.offset \in Nat
  PROVE  Len(PageOf(r)) = Shown(Len(Listed(r)), r.arg.offset)
<1>1. ASSUME NEW rows, IsFiniteSet(rows), NEW before, DOMAIN before = rows,
             Listed(r) = Ordered(before)
      PROVE  Len(PageOf(r)) = Shown(Len(Listed(r)), r.arg.offset)
  <2> DEFINE n == Cardinality(rows)
             listed == Ordered(before)
  <2>1. n \in Nat
    BY <1>1, FS_CardinalityType
  <2>2. DOMAIN listed = 1 .. n /\ listed = [k \in 1 .. n |-> listed[k]]
    BY <1>1 DEF Ordered
  <2> HIDE DEF n, listed
  <2>3. Len(listed) = n /\ Len(PageFrom(listed, r.arg.offset)) = Shown(n, r.arg.offset)
    BY <2>1, <2>2, PageIs
  <2> QED
    BY <1>1, <2>3 DEF PageOf, listed
<1>2. CASE r.op = "listCategories"
  <2> DEFINE rows == {g \in Categories : CategoryExists(g)}
             before == [g \in rows |-> {h \in rows : category[h].name < category[g].name}]
  <2>1. IsFiniteSet(rows)
    BY FS_Subset, CatalogAssumption DEF CatalogAssumption
  <2>2. Listed(r) = Ordered(before) /\ DOMAIN before = rows
    BY <1>2 DEF Listed
  <2> QED
    BY <1>1, <2>1, <2>2
<1>3. CASE r.op = "listLikedProducts"
  <2> DEFINE rows == {p \in Products : likes[r.by][p] # 0 /\ product[p].state = "active"}
             before == [p \in rows |-> {q \in rows : likes[r.by][q] > likes[r.by][p]}]
  <2>1. IsFiniteSet(rows)
    BY FS_Subset, CatalogAssumption DEF CatalogAssumption
  <2>2. Listed(r) = Ordered(before) /\ DOMAIN before = rows
    BY <1>3 DEF Listed
  <2> QED
    BY <1>1, <2>1, <2>2
<1>4. CASE r.op = "listPromos"
  <2> DEFINE rows == {p \in Promos : promo[p].state = "live"
                        /\ r.arg.isActive \in {"any", IF promo[p].active THEN "yes" ELSE "no"}
                        /\ (promo[p].expired => r.arg.includeExpired)}
             before == [p \in rows |-> {q \in rows : q > p}]
  <2>1. IsFiniteSet(rows)
    BY FS_Subset, ShoppingAssumption DEF ShoppingAssumption
  <2>2. Listed(r) = Ordered(before) /\ DOMAIN before = rows
    BY <1>4 DEF Listed
  <2> QED
    BY <1>1, <2>1, <2>2
<1> QED
  BY <1>2, <1>3, <1>4 DEF ListOps

(***************************************************************************)
(* What a list may rely on: nothing if it was interfered with, but that a  *)
(* listing has seen, or matches now, every product it has picked.          *)
(***************************************************************************)
Matches(r) == buildWhere(r.arg, Role(r.by) = "manager")

Adds(r) == r.excuse = {} => Len(r.found) = Shown(r.total, r.arg.offset)

ListingFact(r) ==
  /\ r.pc \in {"page", "rows"} => r.arg \in ProductQueries
  /\ r.pc = "page" /\ r.excuse = {} => r.total = countTotal(r.arg, Matches(r))
  /\ r.pc = "rows" => Range(r.found) \subseteq r.seen \cup Matches(r)
  /\ r.pc = "done" => Range(r.found) \subseteq r.seen
  /\ r.pc = "rows" \/ r.answer = "ok" => Adds(r)

HalvesFact(r) ==
  /\ r.pc \in {"count", "page"} => r.arg.offset \in Nat
  /\ r.pc = "count" /\ r.excuse = {} => Len(r.found) = Shown(Len(Listed(r)), r.arg.offset)
  /\ r.pc = "page" /\ r.excuse = {} => r.total = Len(Listed(r))
  /\ r.answer = "ok" => Adds(r)

ListFact(r) ==
  /\ r.op = "listProducts" => ListingFact(r)
  /\ r.op \in ListOps => HalvesFact(r)

Quiet == UNCHANGED <<category, product, sku, likes, promo>>

\* What the tables show a list stays while they stay.
LEMMA QuietShowsTheSame ==
  ASSUME NEW r, Quiet
  PROVE  /\ Listed(r)' = Listed(r) /\ Matches(r)' = Matches(r)
         /\ \A q, where : countTotal(q, where)' = countTotal(q, where)
<1>0. /\ category' = category /\ product' = product /\ sku' = sku
      /\ likes' = likes /\ promo' = promo
  BY DEF Quiet
<1>1. Listed(r)' = Listed(r)
  BY <1>0 DEF Listed, CategoryExists, Ordered
<1>2. Matches(r)' = Matches(r)
  BY <1>0 DEF Matches, buildWhere, ProductExists, ProductSkus
<1>3. \A q, where : countTotal(q, where)' = countTotal(q, where)
  BY <1>0 DEF countTotal, ProductSkus, ByPrice
<1> QED
  BY <1>1, <1>2, <1>3

LEMMA QuietKeepsTheFact ==
  ASSUME NEW r, Quiet, ListFact(r)
  PROVE  ListFact(r)'
<1> USE QuietShowsTheSame
<1>1. r.op = "listProducts" => ListingFact(r)'
  BY DEF ListFact, ListingFact, Adds, Shown
<1>2. r.op \in ListOps => HalvesFact(r)'
  BY DEF ListFact, HalvesFact, Adds, Shown
<1> QED
  BY <1>1, <1>2 DEF ListFact

\* A write elsewhere: a call under way has an excuse, and a listing has seen
\* what it matched.
LEMMA WriteKeepsTheFact ==
  ASSUME CallsOK, NEW c \in Calls, NEW d \in Calls \ {c}, NEW r, Stales(c, r),
         CallSound(call[d]), ListFact(call[d])
  PROVE  ListFact(call[d])'
<1>1. CASE InFlight(d)
  <2>1. PICK seen :
          /\ call'[d] = [call[d] EXCEPT !.excuse = @ \cup {"race"}, !.seen = seen]
          /\ Listing(d) => seen = call[d].seen \cup MatchNow(d)
    BY <1>1 DEF Stales
  <2>2. IsCall(call[d])
    BY DEF CallsOK
  <2>3. /\ call'[d].op = call[d].op /\ call'[d].arg = call[d].arg /\ call'[d].pc = call[d].pc
        /\ call'[d].found = call[d].found /\ call'[d].answer = call[d].answer
        /\ call'[d].excuse # {} /\ call'[d].seen = seen
    BY <2>1, <2>2 DEF IsCall
  <2>4. call[d].pc \notin {"idle", "done"} /\ call'[d].answer = "none"
    BY <1>1, <2>3 DEF InFlight, CallSound
  <2>5. MatchNow(d) = Matches(call[d])
    BY DEF MatchNow, Matches
  <2>6. ASSUME call[d].op = "listProducts"
        PROVE  ListingFact(call[d])'
    <3>1. ListingFact(call[d]) /\ seen = call[d].seen \cup Matches(call[d])
      BY <1>1, <2>1, <2>5, <2>6 DEF ListFact, Listing
    <3>2. /\ call'[d].pc \in {"page", "rows"} => call'[d].arg \in ProductQueries
          /\ call'[d].pc = "rows" => Range(call'[d].found) \subseteq call'[d].seen
      BY <2>3, <3>1 DEF ListingFact
    <3> QED
      BY <2>3, <2>4, <3>2 DEF ListingFact, Adds, ProductQueries
  <2>7. ASSUME call[d].op \in ListOps
        PROVE  HalvesFact(call[d])'
    <3>1. HalvesFact(call[d])
      BY <2>7 DEF ListFact
    <3> QED
      BY <2>3, <2>4, <3>1 DEF HalvesFact, Adds
  <2> QED
    BY <2>3, <2>6, <2>7 DEF ListFact
<1>2. CASE ~InFlight(d)
  <2>1. call'[d] = call[d] /\ call[d].pc \in {"idle", "done"}
    BY <1>2 DEF Stales, InFlight
  <2>2. call[d].op = "listProducts" => ListingFact(call[d])'
    BY <2>1 DEF ListFact, ListingFact, Adds
  <2>3. call[d].op \in ListOps => HalvesFact(call[d])'
    BY <2>1 DEF ListFact, HalvesFact, Adds
  <2> QED
    BY <2>1, <2>2, <2>3 DEF ListFact
<1> QED
  BY <1>1, <1>2

(***************************************************************************)
(* Every step leaves the lists their facts.                                *)
(***************************************************************************)
ListsMove(c) ==
  \E r : ListFact(r)' /\ (Stales(c, r) \/ (Quiet /\ call' = [call EXCEPT ![c] = r]))

LEMMA FactIsOfTheRecord ==
  ASSUME NEW c, NEW r, ListFact(r)', call'[c] = r
  PROVE  ListFact(call[c])'
BY Zenon
DEF ListFact, ListingFact, HalvesFact, Adds, Matches, Listed, buildWhere, countTotal

LEMMA MoveKeepsLists ==
  ASSUME CallsOK, NEW c \in Calls, ListsMove(c),
         \A d \in Calls : CallSound(call[d]) /\ ListFact(call[d])
  PROVE  \A d \in Calls : ListFact(call[d])'
<1>1. PICK r : ListFact(r)' /\ (Stales(c, r) \/ (Quiet /\ call' = [call EXCEPT ![c] = r]))
  BY DEF ListsMove
<1>2. call'[c] = r
  BY <1>1 DEF Stales, CallsOK
<1>3. ListFact(call[c])'
  BY <1>1, <1>2, FactIsOfTheRecord
<1>4. ASSUME NEW d \in Calls \ {c}
      PROVE  ListFact(call[d])'
  <2>1. CASE Stales(c, r)
    BY <2>1, WriteKeepsTheFact
  <2>2. CASE Quiet /\ call' = [call EXCEPT ![c] = r]
    <3>1. PICK q : q = call[d]
      OBVIOUS
    <3>2. call'[d] = q
      BY <2>2, <3>1 DEF CallsOK
    <3>3. ListFact(q)'
      BY <2>2, <3>1, QuietKeepsTheFact
    <3> QED
      BY <3>2, <3>3, FactIsOfTheRecord
  <2> QED
    BY <1>1, <2>1, <2>2
<1> QED
  BY <1>3, <1>4

\* A call that is no list.
LEMMA NoListMoves ==
  ASSUME NEW c, NEW r, r.op \notin ListOps \cup {"listProducts"},
         Stales(c, r) \/ (Quiet /\ call' = [call EXCEPT ![c] = r])
  PROVE  ListsMove(c)
<1>1. ListFact(r)'
  BY DEF ListFact
<1> QED
  BY <1>1 DEF ListsMove

LEMMA ListBegins ==
  ASSUME NEW c \in Calls, list(c), Quiet
  PROVE  ListsMove(c)
<1>1. PICK u \in Callers(ProductsController.list), q \in Queries :
        LET r == Request(u, "listProducts", q)
            isManager == Role(u) = "manager"
            where == buildWhere(q, isManager)
        IN Query(c, IF q.status # "any" /\ ~isManager
                    THEN Ends(r, toProblem([kind |-> "HttpException", status |-> 403]))
                    ELSE [r EXCEPT !.pc = "page", !.total = countTotal(q, where)])
  BY DEF list
<1> DEFINE r == Request(u, "listProducts", q)
           n == countTotal(q, buildWhere(q, Role(u) = "manager"))
           refused == Ends(r, toProblem([kind |-> "HttpException", status |-> 403]))
           counted == [r EXCEPT !.pc = "page", !.total = n]
<1>2. call' = [call EXCEPT ![c] = refused] \/ call' = [call EXCEPT ![c] = counted]
  BY <1>1 DEF Query
<1>3. /\ IsCall(r) /\ r.by = u /\ r.op = "listProducts" /\ r.arg = q /\ r.found = <<>>
      /\ r.answer = "none" /\ r.excuse = {}
  BY RequestIs
<1>4. q \in ProductQueries
  BY CatalogAssumption DEF CatalogAssumption
<1> HIDE DEF r, n
<1>5. ListFact(refused)
  <2>1. /\ refused.op = "listProducts" /\ refused.pc = "done" /\ refused.found = <<>>
        /\ refused.answer = toProblem([kind |-> "HttpException", status |-> 403])
    BY <1>3, EndsIs DEF Keeps
  <2>2. refused.answer # "ok"
    BY <2>1 DEF toProblem
  <2>3. Range(<<>>) = {}
    BY DEF Range
  <2> HIDE DEF refused
  <2> QED
    BY <2>1, <2>2, <2>3 DEF ListFact, ListingFact, ListOps
<1>6. ListFact(counted)
  <2>1. /\ counted.op = "listProducts" /\ counted.pc = "page" /\ counted.arg = q
        /\ counted.by = u /\ counted.answer = "none" /\ counted.total = n
    BY <1>3 DEF IsCall
  <2> HIDE DEF counted
  <2>2. counted.total = countTotal(counted.arg, Matches(counted))
    BY <2>1 DEF n, Matches
  <2> QED
    BY <1>4, <2>1, <2>2 DEF ListFact, ListingFact, ListOps
<1> HIDE DEF refused, counted
<1>7. PICK x : ListFact(x) /\ call' = [call EXCEPT ![c] = x]
  BY <1>2, <1>5, <1>6
<1>8. ListFact(x)'
  BY <1>7, QuietKeepsTheFact
<1> QED
  BY <1>7, <1>8 DEF ListsMove

LEMMA ListGoesOn ==
  ASSUME NEW c \in Calls, listPage(c) \/ listRows(c), Quiet, CatalogTables,
         CallSound(call[c]), ListFact(call[c])
  PROVE  ListsMove(c)
<1> DEFINE r == call[c]
           page == findProductsPage(r.arg, MatchNow(c))
<1>1. /\ IsCall(r) /\ r.op = "listProducts" /\ r.answer = "none" /\ ListingFact(r)
      /\ r.pc \in {"page", "rows"} /\ r.arg \in ProductQueries
  BY DEF listPage, listRows, At, CallSound, ListFact, ListingFact
<1>2. MatchNow(c) = Matches(r) /\ Matches(r) \in SUBSET Products
  BY DEF MatchNow, Matches, buildWhere
<1>3. ASSUME listPage(c)
      PROVE  \E x : ListFact(x) /\ call' = [call EXCEPT ![c] = x]
  <2> DEFINE picked == [r EXCEPT !.pc = "rows", !.found = page]
             over == [Ends(r, "ok") EXCEPT !.found = page, !.seen = @ \cup MatchNow(c)]
  <2>1. r.pc = "page" /\ (r.excuse = {} => r.total = countTotal(r.arg, Matches(r)))
    BY <1>1, <1>3 DEF listPage, At, ListingFact
  <2>2. \/ call' = [call EXCEPT ![c] = picked]
        \/ call' = [call EXCEPT ![c] = over]
    BY <1>3 DEF listPage, Query
  <2>3. /\ \A k \in DOMAIN page : page[k] \in Matches(r)
        /\ Len(page) = Shown(countTotal(r.arg, Matches(r)), r.arg.offset)
    BY <1>1, <1>2, ProductPageIs
  <2>4. Ends(r, "ok").pc = "done" /\ IsCall(Ends(r, "ok")) /\ Keeps(Ends(r, "ok"), r)
        /\ Ends(r, "ok").answer = "ok" /\ Ends(r, "ok").excuse = r.excuse
        /\ Ends(r, "ok").total = r.total
    BY <1>1, EndsIs DEF Ends, IsCall
  <2> HIDE DEF page, r
  <2>5. Range(page) \subseteq Matches(r)
    BY <2>3 DEF Range
  <2>6. ListFact(picked)
    <3>1. /\ picked.op = r.op /\ picked.by = r.by /\ picked.arg = r.arg /\ picked.pc = "rows"
          /\ picked.found = page /\ picked.total = r.total /\ picked.excuse = r.excuse
          /\ picked.answer = r.answer
      BY <1>1 DEF IsCall
    <3> HIDE DEF picked
    <3>2. Matches(picked) = Matches(r)
      BY <3>1 DEF Matches
    <3>3. Adds(picked)
      BY <2>1, <2>3, <3>1 DEF Adds
    <3> QED
      BY <1>1, <2>5, <3>1, <3>2, <3>3 DEF ListFact, ListingFact, ListOps
  <2>7. ListFact(over)
    <3>1. /\ over.op = r.op /\ over.arg = r.arg /\ over.pc = "done" /\ over.found = page
          /\ over.total = r.total /\ over.excuse = r.excuse
          /\ MatchNow(c) \subseteq over.seen
      BY <1>1, <2>4 DEF IsCall, Keeps
    <3> HIDE DEF over
    <3>2. Adds(over)
      BY <2>1, <2>3, <3>1 DEF Adds
    <3> QED
      BY <1>1, <1>2, <2>5, <3>1, <3>2 DEF ListFact, ListingFact, ListOps, r
  <2> QED
    BY <2>2, <2>6, <2>7
<1>4. ASSUME listRows(c)
      PROVE  \E x : ListFact(x) /\ call' = [call EXCEPT ![c] = x]
  <2> DEFINE e == Ends(r, "ok")
             over == [e EXCEPT !.seen = e.seen \cup MatchNow(c)]
  <2>1. /\ r.pc = "rows" /\ Range(r.found) \subseteq r.seen \cup Matches(r) /\ Adds(r)
    BY <1>1, <1>4 DEF listRows, At, ListingFact
  <2>2. call' = [call EXCEPT ![c] = over]
    BY <1>4 DEF listRows, Query
  <2>3. /\ IsCall(e) /\ Keeps(e, r) /\ e.pc = "done" /\ e.excuse = r.excuse
        /\ e.total = r.total /\ e.seen = r.seen
    BY <1>1, EndsIs DEF Ends, IsCall
  <2> HIDE DEF e, r
  <2>4. /\ over.op = r.op /\ over.arg = r.arg /\ over.pc = "done" /\ over.found = r.found
        /\ over.total = r.total /\ over.excuse = r.excuse
        /\ over.seen = r.seen \cup MatchNow(c)
    BY <2>3 DEF IsCall, Keeps
  <2> HIDE DEF over
  <2>5. Adds(over)
    BY <2>1, <2>4 DEF Adds
  <2>6. ListFact(over)
    BY <1>1, <1>2, <2>1, <2>4, <2>5 DEF ListFact, ListingFact, ListOps, r
  <2> QED
    BY <2>2, <2>6
<1>5. PICK x : ListFact(x) /\ call' = [call EXCEPT ![c] = x]
  BY <1>3, <1>4
<1>6. ListFact(x)'
  BY <1>5, QuietKeepsTheFact
<1> QED
  BY <1>5, <1>6 DEF ListsMove

LEMMA ListIsOfTheRequest ==
  ASSUME NEW q, NEW r, q.op = r.op, q.by = r.by, q.arg = r.arg
  PROVE  Listed(q) = Listed(r) /\ PageOf(q) = PageOf(r)
<1>1. Listed(q) = Listed(r)
  BY Zenon DEF Listed
<1> QED
  BY <1>1 DEF PageOf

LEMMA ListRequestIs ==
  ASSUME NEW r \in ListRequests
  PROVE  IsCall(r) /\ r.op \in ListOps /\ r.arg.offset \in Nat /\ r.answer = "none"
<1> DEFINE offsets == {k * PageSize : k \in 0 .. 1}
           at == [offset : offsets]
           filtered == [offset : offsets, isActive : {"any", "yes", "no"},
                        includeExpired : BOOLEAN]
<1>1. offsets \subseteq Nat
  BY CatalogAssumption DEF CatalogAssumption
<1> HIDE DEF offsets
<1>2. \A a \in at \cup filtered : a.offset \in Nat
  BY <1>1
<1>3. PICK op \in ListOps, a \in at \cup filtered : \E u : r = Request(u, op, a)
  <2>1. \/ \E a \in at : \/ \E u : r = Request(u, "listCategories", a)
                         \/ \E u : r = Request(u, "listLikedProducts", a)
        \/ \E a \in filtered : \E u : r = Request(u, "listPromos", a)
    BY DEF ListRequests, offsets
  <2> HIDE DEF at, filtered
  <2> QED
    BY <2>1 DEF ListOps
<1> HIDE DEF at, filtered
<1> QED
  BY <1>2, <1>3, RequestIs

\* The first half fixes one of the two, the second finds the other.
LEMMA HalvesMove ==
  ASSUME NEW c \in Calls, listAndCount(c) \/ otherHalf(c), Quiet,
         CallSound(call[c]), ListFact(call[c])
  PROVE  ListsMove(c)
<1>1. ASSUME listAndCount(c)
      PROVE  \E x : ListFact(x) /\ call' = [call EXCEPT ![c] = x]
  <2>1. PICK r \in ListRequests :
          \/ Look(c, [Goes(r, "count") EXCEPT !.found = PageOf(r)])
          \/ Look(c, [Goes(r, "page") EXCEPT !.total = Len(Listed(r))])
    BY <1>1 DEF listAndCount
  <2>2. /\ IsCall(r) /\ r.op \in ListOps /\ r.arg.offset \in Nat /\ r.answer = "none"
    BY ListRequestIs
  <2>3. Len(PageOf(r)) = Shown(Len(Listed(r)), r.arg.offset)
    BY <2>2, HalvesAgree
  <2> DEFINE paged == [Goes(r, "count") EXCEPT !.found = PageOf(r)]
             counted == [Goes(r, "page") EXCEPT !.total = Len(Listed(r))]
  <2>4. call' = [call EXCEPT ![c] = paged] \/ call' = [call EXCEPT ![c] = counted]
    BY <2>1 DEF Look, Query
  <2>5. ListFact(paged)
    <3>1. /\ paged.op = r.op /\ paged.by = r.by /\ paged.arg = r.arg /\ paged.pc = "count"
          /\ paged.found = PageOf(r) /\ paged.answer = "none"
      BY <2>2, GoesIs DEF IsCall, Keeps
    <3> HIDE DEF paged
    <3>2. Listed(paged) = Listed(r)
      BY <3>1, ListIsOfTheRequest
    <3> QED
      BY <2>2, <2>3, <3>1, <3>2 DEF ListFact, HalvesFact, ListOps
  <2>6. ListFact(counted)
    <3>1. /\ counted.op = r.op /\ counted.by = r.by /\ counted.arg = r.arg
          /\ counted.pc = "page" /\ counted.total = Len(Listed(r)) /\ counted.answer = "none"
      BY <2>2, GoesIs DEF IsCall, Keeps
    <3> HIDE DEF counted
    <3>2. Listed(counted) = Listed(r)
      BY <3>1, ListIsOfTheRequest
    <3> QED
      BY <2>2, <3>1, <3>2 DEF ListFact, HalvesFact, ListOps
  <2> QED
    BY <2>4, <2>5, <2>6
<1>2. ASSUME otherHalf(c)
      PROVE  \E x : ListFact(x) /\ call' = [call EXCEPT ![c] = x]
  <2> DEFINE r == call[c]
             e == Ends(r, "ok")
             counted == [e EXCEPT !.total = Len(Listed(r))]
             paged == [e EXCEPT !.found = PageOf(r)]
  <2>1. /\ \/ r.pc = "count" /\ call' = [call EXCEPT ![c] = counted]
           \/ r.pc = "page" /\ call' = [call EXCEPT ![c] = paged]
        /\ IsCall(r) /\ r.op \in ListOps /\ HalvesFact(r)
    BY <1>2 DEF otherHalf, Look, Query, CallSound, ListFact, ListOps
  <2>2. /\ IsCall(e) /\ Keeps(e, r) /\ e.pc = "done" /\ e.answer = "ok"
        /\ e.excuse = r.excuse /\ e.total = r.total
    BY <2>1, EndsIs DEF Ends, IsCall
  <2> HIDE DEF r, e
  <2>3. r.arg.offset \in Nat
    BY <2>1 DEF HalvesFact
  <2>4. ASSUME r.pc = "count"
        PROVE  ListFact(counted)
    <3>1. /\ counted.op = r.op /\ counted.arg = r.arg /\ counted.pc = "done"
          /\ counted.found = r.found /\ counted.total = Len(Listed(r))
          /\ counted.excuse = r.excuse
      BY <2>2 DEF IsCall, Keeps
    <3> HIDE DEF counted
    <3>2. Adds(counted)
      BY <2>1, <2>4, <3>1 DEF Adds, HalvesFact
    <3> QED
      BY <2>1, <3>1, <3>2 DEF ListFact, HalvesFact, ListOps
  <2>5. ASSUME r.pc = "page"
        PROVE  ListFact(paged)
    <3>1. /\ paged.op = r.op /\ paged.arg = r.arg /\ paged.pc = "done"
          /\ paged.found = PageOf(r) /\ paged.total = r.total /\ paged.excuse = r.excuse
      BY <2>2 DEF IsCall, Keeps
    <3>2. Len(PageOf(r)) = Shown(Len(Listed(r)), r.arg.offset)
      BY <2>1, <2>3, HalvesAgree
    <3> HIDE DEF paged
    <3>3. Adds(paged)
      BY <2>1, <2>5, <3>1, <3>2 DEF Adds, HalvesFact
    <3> QED
      BY <2>1, <3>1, <3>3 DEF ListFact, HalvesFact, ListOps
  <2> QED
    BY <2>1, <2>4, <2>5
<1>3. PICK x : ListFact(x) /\ call' = [call EXCEPT ![c] = x]
  BY <1>1, <1>2
<1>4. ListFact(x)'
  BY <1>3, QuietKeepsTheFact
<1> QED
  BY <1>3, <1>4 DEF ListsMove

LEMMA CatalogKeepsLists ==
  ASSUME StoreInv, NEW c \in Calls, ListFact(call[c]), CatalogStep(c), UNCHANGED shopTables
  PROVE  ListsMove(c)
<1>1. CatalogTables /\ CallSound(call[c]) /\ CatalogFact(call[c])
  BY DEF StoreInv, CallFact, CallStatic
<1>2. \A r : Query(c, r) => Quiet /\ call' = [call EXCEPT ![c] = r]
  BY DEF Query, tables, shopTables, Quiet
<1>3. EditDoes(c) => ListsMove(c)
  <2> SUFFICES ASSUME EditDoes(c)
               PROVE  ListsMove(c)
    OBVIOUS
  <2>1. PICK r : EditLands(r) /\ (Query(c, r) \/ Stales(c, r))
    BY DEF EditDoes
  <2>2. r.op \notin ListOps \cup {"listProducts"}
    BY <2>1 DEF EditLands, EditOps, ListOps
  <2> QED
    BY <1>2, <2>1, <2>2, NoListMoves
<1>4. list(c) \/ listPage(c) \/ listRows(c) => Quiet
  BY <1>2 DEF list, listPage, listRows
<1>5. list(c) \/ listPage(c) \/ listRows(c) => ListsMove(c)
  BY <1>1, <1>4, ListBegins, ListGoesOn
<1> QED
  BY <1>1, <1>3, <1>5, CategoriesDo, ProductsDo, SkusDo DEF CatalogStep, CatalogRequest

LEMMA ShoppingKeepsLists ==
  ASSUME StoreInv, NEW c \in Calls, ListFact(call[c]), ShoppingStep(c)
  PROVE  ListsMove(c)
<1>1. ShopTables /\ CallSound(call[c]) /\ ShopArgs(call[c]) /\ ShopFact(call[c])
  BY DEF StoreInv, CallFact, CallStatic
<1>2. \A r : Look(c, r) => Quiet /\ call' = [call EXCEPT ![c] = r]
  BY DEF Look, Query, tables, shopTables, Quiet
<1>3. ShopperDoes(c) => ListsMove(c)
  <2> SUFFICES ASSUME ShopperDoes(c)
               PROVE  ListsMove(c)
    OBVIOUS
  <2>1. PICK r : ShopperLands(r) /\ (Look(c, r) \/ Stales(c, r))
    BY DEF ShopperDoes, Touch
  <2>2. r.op \notin ListOps \cup {"listProducts"}
    BY <2>1 DEF ShopperLands, ShopperOps, CartOps, ListOps
  <2> QED
    BY <1>2, <2>1, <2>2, NoListMoves
<1>4. listAndCount(c) \/ otherHalf(c) => Quiet
  BY <1>2 DEF listAndCount, otherHalf
<1>5. listAndCount(c) \/ otherHalf(c) => ListsMove(c)
  BY <1>1, <1>4, HalvesMove
<1> QED
  BY <1>1, <1>3, <1>5, CartDoes, ItemsDo, LikesDo, PromosDo DEF ShoppingStep, ShoppingRequest

\* A step of a call that leaves the catalogue alone, or writes.
AwayFromLists(c) ==
  \E r : Stales(c, r) \/ (UNCHANGED tables /\ call' = [call EXCEPT ![c] = r])

LEMMA ElsewhereKeepsLists ==
  ASSUME CallsOK, NEW c \in Calls, AwayFromLists(c), UNCHANGED shopTables, NEW r,
         call'[c] = r, r.op \notin ListOps \cup {"listProducts"}
  PROVE  ListsMove(c)
<1>1. PICK q : Stales(c, q) \/ (UNCHANGED tables /\ call' = [call EXCEPT ![c] = q])
  BY DEF AwayFromLists
<1>2. CASE Stales(c, q)
  <2>1. call'[c] = q
    BY <1>2 DEF Stales
  <2> QED
    BY <1>2, <2>1, NoListMoves
<1>3. CASE UNCHANGED tables /\ call' = [call EXCEPT ![c] = q]
  <2>1. call'[c] = q /\ Quiet
    BY <1>3 DEF CallsOK, Quiet, tables, shopTables
  <2> QED
    BY <1>3, <2>1, NoListMoves
<1> QED
  BY <1>1, <1>2, <1>3

LEMMA ImagesAreElsewhere ==
  ASSUME NEW c \in Calls, ImagesStep(c)
  PROVE  AwayFromLists(c)
<1>1. \A r : See(c, r) => AwayFromLists(c)
  BY DEF See, Query, AwayFromLists
<1>2. \A r, i, row : WriteImage(c, r, i, row) => AwayFromLists(c)
  BY DEF WriteImage, AwayFromLists
<1>3. \A then, otherwise, effect : AskS3(c, then, otherwise, effect) => AwayFromLists(c)
  BY DEF AskS3, AwayFromLists
<1>4. upload(c) => AwayFromLists(c)
  BY <1>1 DEF upload
<1>5. putObject(c) \/ cleanUp(c) \/ deleteFromS3(c) => AwayFromLists(c)
  BY <1>3 DEF putObject, cleanUp, deleteFromS3
<1>6. readPosition(c) \/ insertImage(c) => AwayFromLists(c)
  BY <1>1, <1>2 DEF readPosition, insertImage
<1>7. updatePosition(c) \/ deleteImage(c) => AwayFromLists(c)
  BY <1>1 DEF updatePosition, deleteImage
<1>8. savePosition(c) \/ deleteRow(c) => AwayFromLists(c)
  BY <1>1, <1>2 DEF savePosition, deleteRow
<1> QED
  BY <1>4, <1>5, <1>6, <1>7, <1>8 DEF ImagesStep, ImagesRequest

LEMMA LinksAreElsewhere ==
  ASSUME NEW c \in Calls, LinksStep(c)
  PROVE  AwayFromLists(c)
<1>1. \A r : Read(c, r) => AwayFromLists(c)
  BY DEF Read, Query, AwayFromLists
<1>2. \A r, l, state : AtStripe(c, r, l, state) => AwayFromLists(c)
  BY DEF AtStripe, AwayFromLists
<1>3. createPaymentLinkCheckout(c) => AwayFromLists(c)
  BY <1>1 DEF createPaymentLinkCheckout
<1>4. getOrCreatePaymentLinkUrl(c) \/ findWinner(c) \/ retrievePaymentLinkUrl(c)
      => AwayFromLists(c)
  BY <1>1 DEF getOrCreatePaymentLinkUrl, findWinner, retrievePaymentLinkUrl
<1>5. makeLink(c) \/ deactivateOwn(c) => AwayFromLists(c)
  BY <1>1, <1>2 DEF makeLink, deactivateOwn
<1>6. recordLink(c) => AwayFromLists(c)
  BY <1>1 DEF recordLink, AwayFromLists
<1> QED
  BY <1>3, <1>4, <1>5, <1>6 DEF LinksStep

LEMMA ImagesKeepLists ==
  ASSUME StoreInv, NEW c \in Calls, ImagesStep(c), UNCHANGED shopTables
  PROVE  ListsMove(c)
<1>1. CallsOK /\ ImageTables /\ ImageCalls /\ CallSound(call[c]) /\ ImageFact(call[c])
  BY DEF StoreInv, CallFact, CallStatic
<1>2. PICK r : ImageLands(r) /\ Leaves(c, r)
  BY <1>1, ImagesStepDoes DEF ImageDoes
<1>3. call'[c] = r /\ r.op \notin ListOps \cup {"listProducts"}
  BY <1>2 DEF ImageLands, Leaves, ImageOps, ListOps
<1> QED
  BY <1>1, <1>3, ImagesAreElsewhere, ElsewhereKeepsLists

LEMMA LinksKeepLists ==
  ASSUME StoreInv, NEW c \in Calls, LinksStep(c), UNCHANGED shopTables
  PROVE  ListsMove(c)
<1>1. CallsOK /\ CatalogTables /\ LinkTables /\ CallSound(call[c])
      /\ \A d \in Calls : LinkFact(call[d])
  BY DEF StoreInv, CallFact, CallStatic
<1>2. PICK r : LinkLands(r) /\ Leaves(c, r)
  BY <1>1, LinksStepDoes DEF LinkDoes
<1>3. call'[c] = r /\ r.op \notin ListOps \cup {"listProducts"}
  BY <1>2 DEF LinkLands, Leaves, LinkOps, ListOps
<1> QED
  BY <1>1, <1>3, LinksAreElsewhere, ElsewhereKeepsLists

\* Orders and sales mark deletions and checkouts, which are no lists.
LEMMA OrdersKeepLists ==
  ASSUME StoreInv, OrdersStep \/ UNCHANGED storeVars,
         \A d \in Calls : ListFact(call[d])
  PROVE  \A d \in Calls : ListFact(call[d])'
<1>1. Quiet
  BY DEF OrdersStep, Reservation, SoldOut, storeVars, tables, shopTables, Quiet
<1>2. ASSUME NEW d \in Calls
      PROVE  \/ call'[d] = call[d]
             \/ /\ call[d].op \in {"deleteSku", "checkout"}
                /\ call'[d] = [call[d] EXCEPT !.excuse = @ \cup {"race"}]
  BY DEF OrdersStep, Reservation, SoldOut, storeVars, At
<1>3. ASSUME NEW d \in Calls
      PROVE  ListFact(call[d])'
  <2>1. IsCall(call[d])
    BY DEF StoreInv, CallsOK
  <2>2. PICK r : r = call'[d]
    OBVIOUS
  <2>3. ListFact(r)
    <3>1. CASE r = call[d]
      BY <3>1
    <3>2. CASE r.op \in {"deleteSku", "checkout"}
      BY <3>2 DEF ListFact, ListOps
    <3> QED
      BY <1>2, <2>1, <2>2, <3>1, <3>2 DEF IsCall
  <2>4. ListFact(r)'
    BY <1>1, <2>3, QuietKeepsTheFact
  <2> QED
    BY <2>2, <2>4, FactIsOfTheRecord
<1> QED
  BY <1>3

LEMMA ThrowsKeepLists ==
  ASSUME CallsOK, NEW c \in Calls, CallSound(call[c]), QueryThrows(c), UNCHANGED shopTables
  PROVE  ListsMove(c)
<1>1. PICK r : r = call'[c]
  OBVIOUS
<1>2. Thrown(r, call[c]) /\ call' = [call EXCEPT ![c] = r] /\ UNCHANGED tables
  BY <1>1, QueryThrowsIs
<1>3. Quiet
  BY <1>2 DEF Quiet, tables, shopTables
<1>4. ListFact(r)'
  BY <1>2 DEF ListFact, ListingFact, HalvesFact, Thrown, Range
<1> QED
  BY <1>2, <1>3, <1>4 DEF ListsMove

ListsInv == \A d \in Calls : ListFact(call[d])

LEMMA ListsInit ==
  StoreInit => ListsInv
<1>1. ASSUME StoreInit, NEW d \in Calls
      PROVE  ListFact(call[d])
  <2>1. call[d].op = "none"
    BY <1>1 DEF StoreInit, CatalogInit, NoCall
  <2> QED
    BY <2>1 DEF ListFact, ListOps
<1> QED
  BY <1>1 DEF ListsInv

LEMMA ListsStep ==
  StoreInv /\ ListsInv /\ [StoreNext]_storeVars => ListsInv'
<1> SUFFICES ASSUME StoreInv, ListsInv, [StoreNext]_storeVars
             PROVE  ListsInv'
  OBVIOUS
<1>0. /\ CallsOK /\ \A d \in Calls : CallSound(call[d])
      /\ \A d \in Calls : ListFact(call[d])
  BY DEF StoreInv, CallFact, CallStatic, ListsInv
<1>1. ASSUME NEW c \in Calls, CallStep(c)
      PROVE  ListsInv'
  <2>1. ListsMove(c)
    BY <1>0, <1>1, CatalogKeepsLists, ShoppingKeepsLists, ImagesKeepLists, LinksKeepLists,
       ThrowsKeepLists
    DEF CallStep
  <2>2. \A d \in Calls : ListFact(call[d])'
    BY <1>0, <2>1, MoveKeepsLists
  <2> QED
    BY <2>2 DEF ListsInv
<1>2. CASE OrdersStep \/ UNCHANGED storeVars
  <2>1. \A d \in Calls : ListFact(call[d])'
    BY <1>0, <1>2, OrdersKeepLists
  <2> QED
    BY <2>1 DEF ListsInv
<1> QED
  BY <1>1, <1>2 DEF StoreNext

LEMMA ListsInvHolds ==
  StoreSpec => []ListsInv
BY StoreInitInv, StoreStep, ListsInit, ListsStep, PTL DEF StoreSpec

(***************************************************************************)
(* What follows for the store.                                             *)
(***************************************************************************)

\* Rows refer to rows that exist, whatever calls raced: the foreign keys of
\* schema.prisma and the checks made before each write leave no other tables.
THEOREM RowsReferToRows == StoreSpec => []StoreTypeOK
<1>1. ASSUME StoreInv
      PROVE  StoreTypeOK
  <2>1. \A p \in Products : product[p] # NoProduct =>
          /\ product[p].state \in {"active", "disabled", "deleted"}
          /\ CategoryExists(product[p].category)
    BY <1>1 DEF StoreInv, CatalogTables, ProductRows
  <2>2. \A s \in Skus : sku[s] # NoSku => product[sku[s].product] # NoProduct
    BY <1>1 DEF StoreInv, CatalogTables
  <2>3. \A i \in Items : item[i] # NoItem =>
          item[i].user \in hasCart /\ item[i].quantity \in 1 .. MaxInt
    BY <1>1 DEF StoreInv, ShopTables, ItemRows
  <2>4. \A l \in Links : link[l] # NoLink => url[l] # "none"
    BY <1>1 DEF StoreInv, LinkTables
  <2>5. \A c \in Calls : call[c].excuse \subseteq {"race", "s3", "database", "stripe", "value"}
    BY <1>1 DEF StoreInv, CallFact, CallStatic, CallSound, Excuses
  <2> QED
    BY <2>1, <2>2, <2>3, <2>4, <2>5 DEF StoreTypeOK
<1> QED
  BY <1>1, StoreInvHolds, PTL

\* No call answers 500 unless another one got in between its queries, a service
\* failed or a value did not fit its column: the checks of the services foresee
\* every other refusal of the database (categories.service.ts:76-90).
THEOREM UnexpectedErrorsHaveACause == StoreSpec => []UnexpectedErrorsAreExcused
<1>1. ASSUME StoreInv
      PROVE  UnexpectedErrorsAreExcused
  BY <1>1 DEF StoreInv, CallFact, CallStatic, CallSound, UnexpectedErrorsAreExcused
<1> QED
  BY <1>1, StoreInvHolds, PTL

\* A race makes no call on the carts, the likes and the promo codes answer 500:
\* only a database that failed and a value beyond its column do
\* (cart.service.ts:71-76, 113-121).
THEOREM ShoppersSeeNoError == StoreSpec => []ShoppersNeverMeetAnError
<1>1. ASSUME StoreInv
      PROVE  ShoppersNeverMeetAnError
  BY <1>1
  DEF StoreInv, CallFact, CallStatic, ShoppersNeverMeetAnError, ShoppingOps, ShopperOps,
      ListOps, CartOps
<1> QED
  BY <1>1, StoreInvHolds, PTL

\* An image row has its object, but where its upload cleaned up after an INSERT
\* that took effect and threw; an object without a row has a call at work on
\* it, one that S3 failed, or a DELETE that took effect and threw
\* (product-images.service.ts:49-55, 84-97).
THEOREM ImagesKeepTheirObjects == StoreSpec => []ImagesMatchObjects
<1>1. ASSUME StoreInv
      PROVE  ImagesMatchObjects
  <2>1. NoDanglingImage
    BY <1>1 DEF StoreInv, ImageCalls, Lost, NoDanglingImage
  <2>2. ASSUME NEW i \in objects, image[i].state # "live"
        PROVE  \E c \in Calls :
                 \/ /\ call[c].op = "uploadImage" /\ call[c].arg.key = i
                    /\ InFlight(c) \/ "s3" \in call[c].excuse
                 \/ /\ call[c].op = "deleteImage" /\ call[c].arg.id = i
                    /\ InFlight(c) \/ call[c].excuse \cap {"s3", "database"} # {}
    <3>1. PICK c \in Calls : AnswersFor(call[c], i)
      BY <1>1, <2>2 DEF StoreInv, ImageCalls
    <3> QED
      BY <3>1 DEF AnswersFor, Uploading, InFlight
  <2> QED
    BY <2>1, <2>2 DEF ImagesMatchObjects, OrphansAreExplained
<1> QED
  BY <1>1, StoreInvHolds, PTL

\* A checkout answers with a link that works at Stripe and was made for its
\* SKU, and a working link without a row has a checkout under way or one whose
\* request failed (payments.service.ts:227-234).
THEOREM LinksHandedOutWork == StoreSpec => []LinksMatchStripe
<1>1. ASSUME StoreInv
      PROVE  LinksMatchStripe
  <2>1. ASSUME NEW c \in Calls, Answered(c, "checkout"), call[c].answer = "ok"
        PROVE  LET l == Head(call[c].found)
               IN url[l] = "active" /\ link[l].sku = call[c].arg.sku
    <3>1. LinkFact(call[c]) /\ call[c].op = "checkout"
      BY <1>1, <2>1 DEF StoreInv, CallFact, Answered, At
    <3>2. PICK l \in Links :
            call[c].found = <<l>> /\ link[l] # NoLink /\ link[l].sku = call[c].arg.sku
      BY <2>1, <3>1 DEF LinkFact
    <3>3. Head(call[c].found) = l
      BY <3>2
    <3> QED
      BY <1>1, <3>2, <3>3 DEF StoreInv, LinkTables
  <2>2. ASSUME NEW l \in Links, url[l] = "active", link[l] = NoLink
        PROVE  \E c \in Calls : /\ call[c].op = "checkout" /\ call[c].arg.made = l
                                /\ \/ InFlight(c)
                                   \/ call[c].excuse \cap {"stripe", "database"} # {}
    <3>1. PICK c \in Calls : AnswersForLink(call[c], l)
      BY <1>1, <2>2 DEF StoreInv, LinkCalls
    <3> QED
      BY <3>1 DEF AnswersForLink, InFlight
  <2> QED
    BY <2>1, <2>2 DEF LinksMatchStripe, HandedOutLinksWork, StrayLinksAreExplained
<1> QED
  BY <1>1, StoreInvHolds, PTL

\* A validation is refused as "invalid" only by its own last query, which
\* looked the code up in upper case.
LEMMA InvalidIsSaidOnLooking ==
  ASSUME StoreInv, StoreNext, NEW c \in Calls, At(c, "validatePromo", "evaluate"),
         call'[c].answer = "invalid"
  PROVE  evaluate(c)
<1>1. /\ CallsOK /\ CallStatic(call[c]) /\ call[c].answer = "none"
      /\ \A d \in Calls : CallSound(call[d]) /\ CatalogFact(call[d]) /\ ShopArgs(call[d])
                          /\ ShopFact(call[d]) /\ ImageFact(call[d]) /\ LinkFact(call[d])
      /\ CatalogTables /\ ShopTables /\ ImageTables /\ LinkTables
  BY DEF StoreInv, CallFact, CallStatic, CallSound, At
<1>2. ~SameCall(c)
  BY <1>1 DEF SameCall
<1>3. ASSUME NEW d \in Calls, CallStep(d)
      PROVE  d = c
  <2>1. CASE CatalogStep(d)
    <3>1. PICK r : Query(d, r) \/ Stales(d, r)
      BY <1>1, <2>1, CatalogStepDoes DEF CatalogDoes
    <3> QED
      BY <1>1, <1>2, <3>1, CallMoves, StalesMoves DEF Query, Leaves
  <2>2. CASE ShoppingStep(d)
    <3>1. PICK r : Look(d, r) \/ Touch(d, r)
      BY <1>1, <2>2, ShoppingStepDoes DEF ShopDoes
    <3> QED
      BY <1>1, <1>2, <3>1, CallMoves, StalesMoves DEF Look, Touch, Query, Leaves
  <2>3. CASE ImagesStep(d)
    BY <1>1, <1>2, <2>3, ImagesStepDoes DEF ImageDoes, Leaves
  <2>4. CASE LinksStep(d)
    BY <1>1, <1>2, <2>4, LinksStepDoes DEF LinkDoes, Leaves
  <2>5. CASE QueryThrows(d)
    BY <1>1, <1>2, <2>5, QueryThrowsIs DEF Leaves
  <2> QED
    BY <1>3, <2>1, <2>2, <2>3, <2>4, <2>5 DEF CallStep
<1>4. ~OrdersStep
  BY <1>1, <1>2, MarkedIsSame DEF OrdersStep, Reservation, SoldOut
<1>5. CallStep(c)
  BY <1>3, <1>4 DEF StoreNext
<1>6. call[c].op = "validatePromo" /\ call[c].pc = "evaluate"
  BY DEF At
<1>7. ~CatalogStep(c) /\ ~ImagesStep(c) /\ ~LinksStep(c)
  BY <1>1, <1>6, CatalogStepDoes, ImagesStepDoes, LinksStepDoes
     DEF CatalogOps, EditOps, ImageOps, LinkOps
<1>8. ~QueryThrows(c)
  BY <1>1, QueryThrowsIs DEF Thrown
<1>9. ShoppingStep(c)
  BY <1>5, <1>7, <1>8 DEF CallStep
<1> QED
  BY <1>6, <1>9 DEF ShoppingStep, ShoppingRequest, getOrCreate, addItem, updateItem,
     removeItem, clear, like, unlike, createPromo, getPromo, updatePromo, validate,
     listAndCount, createCart, readWinner, assertSkuIsPurchasable, upsertItem, writeItem,
     deleteItems, writeLike, savePromo, otherHalf, Asked, At

\* Two promo codes never differ by case alone, and a client finds a code in
\* whatever case it is typed (promos.service.ts:35, 111).
THEOREM CodesAreFoundInAnyCase == StoreSpec => CodesIgnoreCase
<1>1. ASSUME StoreInv'
      PROVE  \A p, q \in Promos :
               /\ promo'[p].state = "live" /\ promo'[q].state = "live" /\ p # q
               => promo'[p].code.letters # promo'[q].code.letters
  <2>1. /\ \A p \in Promos : promo'[p].state = "live" => promo'[p].code.upper
        /\ \A p, q \in Promos :
             promo'[p].state = "live" /\ promo'[q].state = "live" /\ p # q
             => promo'[p].code # promo'[q].code
        /\ promo' \in [Promos -> PromoRows]
    BY <1>1 DEF StoreInv, ShopTables
  <2>2. \A p \in Promos : promo'[p].state = "live" => promo'[p].code \in Typed
    BY <2>1 DEF PromoRows, NoPromo, Unused
  <2>3. \A a, b \in Typed : a.upper /\ b.upper /\ a # b => a.letters # b.letters
    BY DEF Typed
  <2> QED
    BY <2>1, <2>2, <2>3
<1>2. ASSUME StoreInv, StoreNext, NEW c \in Calls, At(c, "validatePromo", "evaluate"),
             call'[c].answer = "invalid", NEW p \in Promos, promo[p].state = "live",
             promo[p].active, promo[p].code.letters = call[c].arg.code.letters
      PROVE  FALSE
  <2>1. evaluate(c)
    BY <1>2, InvalidIsSaidOnLooking
  <2>2. IsCall(call[c]) /\ call[c].arg.code \in Typed
    BY <1>2 DEF StoreInv, CallsOK, CallFact, CallStatic, ShopArgs, At, CartOps
  <2>3. promo[p].code \in Typed /\ promo[p].code.upper
    BY <1>2 DEF StoreInv, ShopTables, PromoRows, NoPromo, Unused
  <2>4. \A a, b \in Typed : a.upper /\ a.letters = b.letters => a = toUpperCase(b)
    BY DEF Typed, toUpperCase
  <2>5. p \in WithCode(toUpperCase(call[c].arg.code))
    BY <1>2, <2>2, <2>3, <2>4 DEF WithCode
  <2>6. PICK found, total : /\ found = WithCode(toUpperCase(call[c].arg.code))
                            /\ total = call[c].total
    OBVIOUS
  <2>7. evaluatePromoCode(found, total) # "invalid"
    BY <1>2, <2>5, <2>6 DEF evaluatePromoCode
  <2>8. PICK off : call' = [call EXCEPT ![c] =
          [Ends(call[c], evaluatePromoCode(found, total)) EXCEPT !.total = @ - off]]
    BY <2>1, <2>6 DEF evaluate, Look, Query
  <2>9. PICK reason : reason = evaluatePromoCode(found, total)
    OBVIOUS
  <2> DEFINE e == Ends(call[c], reason)
  <2>10. IsCall(e) /\ e.answer = reason
    BY <2>2, EndsIs DEF Keeps
  <2>11. call'[c] = [e EXCEPT !.total = @ - off]
    BY <1>2, <2>8, <2>9 DEF StoreInv, CallsOK
  <2> HIDE DEF e
  <2>12. call'[c].answer = reason
    BY <2>10, <2>11 DEF IsCall
  <2> QED
    BY <1>2, <2>7, <2>9, <2>12
<1>3. StoreInv /\ StoreInv' /\ [StoreNext]_storeVars => [KnowsCodesByLetters]_storeVars
  BY <1>1, <1>2 DEF KnowsCodesByLetters
<1> QED
  BY <1>3, StoreInvHolds, PTL DEF StoreSpec, CodesIgnoreCase

\* An upload nothing interfered with puts its image after all the others of
\* its product (product-images.service.ts:38-41).
THEOREM ImagesAreAppended == StoreSpec => LaterImageComesLater
<1>1. ASSUME StoreInv
      PROVE  AppendsItsImage
  BY <1>1 DEF StoreInv, CallFact, ImageFact, AppendsItsImage, At
<1>2. StoreInv /\ [StoreNext]_storeVars => [AppendsItsImage]_storeVars
  BY <1>1
<1> QED
  BY <1>2, StoreInvHolds, PTL DEF StoreSpec, LaterImageComesLater

\* A listing shows only products its filters matched at some moment while it
\* ran, though the second query of findProductsPage asks by id alone
\* (products.service.ts:242-251).
THEOREM PagesShowWhatWasVisible == StoreSpec => []PageShowsWhatWasVisible
<1>1. ASSUME ListsInv
      PROVE  PageShowsWhatWasVisible
  BY <1>1 DEF ListsInv, ListFact, ListingFact, PageShowsWhatWasVisible, Answered, At
<1> QED
  BY <1>1, ListsInvHolds, PTL

\* The total a listing answers with is what its pages can reach, unless a write
\* got in between its queries: counted and listed rows come of one filter, and
\* every row has its place in the order (products.service.ts:191-251).
THEOREM TotalsAreReachable == StoreSpec => []TotalIsReachable
<1>1. ASSUME ListsInv
      PROVE  TotalIsReachable
  <2>1. ASSUME NEW c \in Calls, call[c].answer = "ok", call[c].excuse = {},
               call[c].op \in ListOps \cup {"listProducts"}
        PROVE  Len(call[c].found) = Shown(call[c].total, call[c].arg.offset)
    BY <1>1, <2>1 DEF ListsInv, ListFact, ListingFact, HalvesFact, Adds
  <2> QED
    BY <2>1 DEF TotalIsReachable, ListOps, Shown
<1> QED
  BY <1>1, ListsInvHolds, PTL
=============================================================================
