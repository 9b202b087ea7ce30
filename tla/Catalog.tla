------------------------------ MODULE Catalog ------------------------------
(***************************************************************************)
(* Categories, products and SKUs, and the calls that edit and list them.   *)
(* No call here opens a transaction: each awaits one query after another,  *)
(* so a call is a record that moves from query to query and every query is *)
(* a step of its own. A call that stops for good between two queries is    *)
(* one that takes no further step. Callers a guard refuses run no query    *)
(* (Access) and take no step.                                              *)
(*                                                                         *)
(* Rows get the least id not used yet, so ids follow createdAt. The slug   *)
(* of a category goes with its name; the text search and the least price   *)
(* of a listing, which narrow `where` as the other filters do, are left    *)
(* out.                                                                    *)
(***************************************************************************)
EXTENDS Access, Integers, SequencesExt

CONSTANTS
  Calls,          \* requests, each handled once
  Users, RoleOf,  \* accounts and their role
  Categories, Products, Skus,         \* row ids
  CategoryNames, Codes, Variants,     \* sku_code; size and color
  Prices,
  MaxInt,         \* the largest int4
  PageSize,       \* `limit` of a listing
  Queries         \* filters of the product listings

Visitor == Anonymous    \* the caller without a token

\* ListProductsQueryDto; 0 is a filter left out.
ProductQueries ==
  [status : {"any", "active", "disabled"}, category : Categories \cup {0},
   maxPrice : Prices \cup {0}, sort : {"createdAt", "-createdAt", "price", "-price"},
   offset : {k * PageSize : k \in 0 .. Cardinality(Products)}]

ASSUME CatalogAssumption ==
  /\ Categories \cup Products \cup Skus \subseteq Nat \ {0}
  /\ MaxInt \in Nat /\ Prices \subseteq 1 .. MaxInt
  /\ IsFiniteSet(Categories) /\ IsFiniteSet(Products)
  /\ RoleOf \in [Users -> Roles]
  /\ Visitor \notin Users
  /\ PageSize \in Nat \ {0}
  /\ Queries \subseteq ProductQueries

VARIABLES
  category, product, sku, reserved,  \* the tables; reserved_stock is zero or not
  call,   \* the calls
  menu    \* operations each call may turn out to ask for

tables == <<category, product, sku, reserved>>

Unused == "unused"  \* an id no row has had yet
Gone   == "gone"    \* an id whose row was deleted

NoCategory == [state |-> Unused, name |-> 0]
NoProduct == [state |-> Unused, category |-> 0]
NoSku == [state |-> Unused, product |-> 0, code |-> 0, variant |-> 0, price |-> 0]

CategoryRows == {NoCategory} \cup [state : {"live", Gone}, name : CategoryNames]
ProductRows ==
  {NoProduct} \cup [state : {"active", "disabled", "deleted"}, category : Categories]
SkuRows ==
  {NoSku} \cup [state : {"live", "deleted"}, product : Products, code : Codes,
                variant : Variants, price : Prices]

(***************************************************************************)
(* Calls.                                                                  *)
(***************************************************************************)
Role(u) == IF u = Visitor THEN Anonymous ELSE RoleOf[u]
Callers(route) == {u \in Users \cup {Visitor} : Admitted(Role(u), route)}

NoCall == [by |-> Visitor, op |-> "none", arg |-> <<>>, pc |-> "idle",
           total |-> 0, found |-> <<>>, seen |-> {}, answer |-> "none", excuse |-> {}]

Request(u, op, arg) ==
  [NoCall EXCEPT !.by = u, !.op = op, !.arg = arg, !.pc = "begun"]
Goes(r, pc)     == [r EXCEPT !.pc = pc]
Ends(r, answer) == [r EXCEPT !.pc = "done", !.answer = answer]
NotFound(r) == Ends(r, toProblem([kind |-> "HttpException", status |-> 404]))
Fails(r)    == Ends(r, toProblem([kind |-> "driver"]))  \* P2025, a foreign key
DbFault(r)  == [r EXCEPT !.excuse = @ \cup {"database"}]

\* A value its column cannot hold: numbers have a @Min and no @Max but go to an
\* int4, texts may hold a NUL.
Refused(r) == [Fails(r) EXCEPT !.excuse = @ \cup {"value"}]

Asked(c, op)  == call[c].pc = "idle" /\ op \in menu[c]
InFlight(c)   == call[c].pc \notin {"idle", "done"}
At(c, op, pc) == call[c].op = op /\ call[c].pc = pc

(***************************************************************************)
(* What the queries look for.                                              *)
(***************************************************************************)
ProductExists(p) == product[p].state \in {"active", "disabled"}
ProductSkus(p)   == {s \in Skus : sku[s].state = "live" /\ sku[s].product = p}
SkuIsActive(s)   == sku[s].state = "live" /\ ProductExists(sku[s].product)
CategoryExists(g) == category[g].state = "live"

buildWhere(q, isManager) ==
  {p \in Products :
     /\ ProductExists(p)
     /\ IF isManager THEN q.status \in {"any", product[p].state}
                     ELSE product[p].state = "active"
     /\ q.category \in {0, product[p].category}
     /\ q.maxPrice # 0 => \E s \in ProductSkus(p) : sku[s].price <= q.maxPrice}

ByPrice(q) == q.sort \in {"price", "-price"}

\* Mutant of countTotal: products without a live SKU count for every sort.
CountWhere(q, where) == Cardinality(where)

countTotal(q, where) ==
  Cardinality(IF ByPrice(q) THEN {p \in where : ProductSkus(p) # {}} ELSE where)

\* _min: { price } of a group of sku.groupBy.
LowestPrice(p) == Min({sku[s].price : s \in ProductSkus(p)})

\* ORDER BY of the page query; a tie on price is broken by id.
Precedes(q, p, r) ==
  LET first == LowestPrice(p)  second == LowestPrice(r)
  IN CASE q.sort = "price"  -> first < second \/ (first = second /\ p < r)
       [] q.sort = "-price" -> first > second \/ (first = second /\ p < r)
       [] q.sort = "createdAt" -> p < r
       [] OTHER -> p > r

\* ORDER BY: `before` gives each row the rows that come before it.
Ordered(before) ==
  [k \in 1 .. Cardinality(DOMAIN before) |->
     CHOOSE p \in DOMAIN before : Cardinality(before[p]) = k - 1]

\* OFFSET and LIMIT.
PageFrom(rows, offset) == SubSeq(rows, offset + 1, Min({offset + PageSize, Len(rows)}))

\* Mutant of findProductsPage: the groups are those of every live SKU.
PageOfAllGroups(q, where) ==
  LET rows == IF ByPrice(q) THEN {p \in Products : ProductSkus(p) # {}} ELSE where
  IN PageFrom(Ordered([p \in rows |-> {r \in rows : Precedes(q, r, p)}]), q.offset)

\* The page query: over products, or over the groups of live SKUs.
findProductsPage(q, where) ==
  LET rows == IF ByPrice(q) THEN {p \in where : ProductSkus(p) # {}} ELSE where
  IN PageFrom(Ordered([p \in rows |-> {r \in rows : Precedes(q, r, p)}]), q.offset)

(***************************************************************************)
(* One query of call c, which leaves it as r. A write marks the calls in   *)
(* flight, whose reads may be stale now, and a listing keeps in `seen`     *)
(* what its filters matched so far.                                        *)
(***************************************************************************)
Query(c, r) == call' = [call EXCEPT ![c] = r] /\ UNCHANGED tables

Listing(d) == call[d].op = "listProducts" /\ InFlight(d)
MatchNow(d) == buildWhere(call[d].arg, Role(call[d].by) = "manager")

Stales(c, r) ==
  call' = [d \in Calls |->
    CASE d = c -> r
      [] d # c /\ InFlight(d) ->
           [call[d] EXCEPT !.excuse = @ \cup {"race"},
                           !.seen = IF Listing(d) THEN @ \cup MatchNow(d) ELSE @]
      [] OTHER -> call[d]]

WriteCategory(c, r, g, row) ==
  /\ category' = [category EXCEPT ![g] = row]
  /\ UNCHANGED <<product, sku, reserved>>
  /\ Stales(c, r)

WriteProduct(c, r, p, row) ==
  /\ product' = [product EXCEPT ![p] = row]
  /\ UNCHANGED <<category, sku, reserved>>
  /\ Stales(c, r)

WriteSku(c, r, s, row) ==
  /\ sku' = [sku EXCEPT ![s] = row]
  /\ UNCHANGED <<category, product, reserved>>
  /\ Stales(c, r)

(***************************************************************************)
(* CategoriesService.                                                      *)
(***************************************************************************)
NameTaken(n, g) == \E h \in Categories \ {g} : CategoryExists(h) /\ category[h].name = n

createCategory(c) ==
  /\ Asked(c, "createCategory")
  /\ \E u \in Callers(CategoriesController.create), n \in CategoryNames :
       LET r == Request(u, "createCategory", [name |-> n])
           unused == {g \in Categories : category[g].state = Unused}
       IN \/ /\ unused # {}
             /\ IF NameTaken(n, 0) THEN Query(c, Ends(r, "category-name-taken"))
                ELSE WriteCategory(c, Ends(r, "ok"), Min(unused), [state |-> "live", name |-> n])
          \/ Query(c, Refused(r))

getCategory(c) ==
  /\ Asked(c, "getCategory")
  /\ \E u \in Callers(CategoriesController.getById), g \in Categories :
       LET r == Request(u, "getCategory", [id |-> g])
       IN Query(c, IF CategoryExists(g) THEN Ends(r, "ok") ELSE NotFound(r))

updateCategory(c) ==
  /\ Asked(c, "updateCategory")
  /\ \E u \in Callers(CategoriesController.update), g \in Categories, n \in CategoryNames :
       LET r == Request(u, "updateCategory", [id |-> g, name |-> n])
       IN Query(c, IF CategoryExists(g) THEN Goes(r, "update") ELSE NotFound(r))

saveCategory(c) ==
  LET r == call[c]
  IN /\ At(c, "updateCategory", "update")
     /\ \/ ~CategoryExists(r.arg.id) /\ Query(c, Fails(r))
        \/ /\ CategoryExists(r.arg.id) /\ NameTaken(r.arg.name, r.arg.id)
           /\ Query(c, Ends(r, "category-name-taken"))
        \/ /\ CategoryExists(r.arg.id) /\ ~NameTaken(r.arg.name, r.arg.id)
           /\ WriteCategory(c, Ends(r, "ok"), r.arg.id,
                            [state |-> "live", name |-> r.arg.name])

\* Mutant of ProductsOf: a soft-deleted product does not count.
VisibleProductsOf(g) == {p \in Products : ProductExists(p) /\ product[p].category = g}

\* Rows of products, the soft-deleted ones too: they keep their category.
ProductsOf(g) == {p \in Products : product[p].state # Unused /\ product[p].category = g}

deleteCategory(c) ==
  /\ Asked(c, "deleteCategory")
  /\ \E u \in Callers(CategoriesController.delete), g \in Categories :
       LET r == Request(u, "deleteCategory", [id |-> g])
       IN Query(c, CASE ~CategoryExists(g) -> NotFound(r)
                     [] CategoryExists(g) /\ ProductsOf(g) # {} -> Ends(r, "category-not-empty")
                     [] OTHER -> Goes(r, "delete"))

\* Mutant of removeCategory: no foreign key restricts it.
RemoveCategoryUnrestricted(c) ==
  /\ At(c, "deleteCategory", "delete")
  /\ WriteCategory(c, Ends(call[c], "ok"), call[c].arg.id,
                   [category[call[c].arg.id] EXCEPT !.state = Gone])

\* The row may be gone, or a product may refer to it by now (RESTRICT).
removeCategory(c) ==
  LET r == call[c]
      restricted == \E p \in Products : product[p].state # Unused
                                        /\ product[p].category = r.arg.id
  IN /\ At(c, "deleteCategory", "delete")
     /\ IF ~CategoryExists(r.arg.id) \/ restricted
        THEN Query(c, Fails(r))
        ELSE WriteCategory(c, Ends(r, "ok"), r.arg.id,
                           [category[r.arg.id] EXCEPT !.state = Gone])

(***************************************************************************)
(* ProductsService.                                                        *)
(***************************************************************************)
list(c) ==
  /\ Asked(c, "listProducts")
  /\ \E u \in Callers(ProductsController.list), q \in Queries :
       LET r == Request(u, "listProducts", q)
           isManager == Role(u) = "manager"
           where == buildWhere(q, isManager)
       IN Query(c, IF q.status # "any" /\ ~isManager
                   THEN Ends(r, toProblem([kind |-> "HttpException", status |-> 403]))
                   ELSE [r EXCEPT !.pc = "page", !.total = countTotal(q, where)])

listPage(c) ==
  LET r == call[c]
      page == findProductsPage(r.arg, MatchNow(c))
  IN /\ At(c, "listProducts", "page")
     /\ Query(c, IF ByPrice(r.arg)
                 THEN [r EXCEPT !.pc = "rows", !.found = page]
                 ELSE [Ends(r, "ok") EXCEPT !.found = page, !.seen = @ \cup MatchNow(c)])

\* The second query takes the rows by id alone; a product's row is never removed.
listRows(c) ==
  /\ At(c, "listProducts", "rows")
  /\ Query(c, [Ends(call[c], "ok") EXCEPT !.seen = @ \cup MatchNow(c)])

getProduct(c) ==
  /\ Asked(c, "getProduct")
  /\ \E u \in Callers(ProductsController.getById), p \in Products :
       LET r == Request(u, "getProduct", [id |-> p])
           hidden == Role(u) # "manager" /\ product[p].state = "disabled"
       IN Query(c, IF ~ProductExists(p) \/ hidden THEN NotFound(r) ELSE Ends(r, "ok"))

assertCategoryExists(r, g, pc) == IF CategoryExists(g) THEN Goes(r, pc) ELSE NotFound(r)

createProduct(c) ==
  /\ Asked(c, "createProduct")
  /\ \E u \in Callers(ProductsController.create), g \in Categories :
       LET r == Request(u, "createProduct", [category |-> g])
       IN /\ \E p \in Products : product[p].state = Unused
          /\ Query(c, assertCategoryExists(r, g, "create"))

insertProduct(c) ==
  LET r == call[c]
      unused == {p \in Products : product[p].state = Unused}
  IN /\ At(c, "createProduct", "create") /\ unused # {}
     /\ IF CategoryExists(r.arg.category)
        THEN WriteProduct(c, Ends(r, "ok"), Min(unused),
                          [state |-> "active", category |-> r.arg.category])
        ELSE Query(c, Fails(r))

\* A field the request leaves out: no category is 0, no status is "any".
updateProduct(c) ==
  /\ Asked(c, "updateProduct")
  /\ \E u \in Callers(ProductsController.update), p \in Products,
        g \in Categories \cup {0}, status \in {"any", "active", "disabled"} :
       LET r == Request(u, "updateProduct", [id |-> p, category |-> g, status |-> status])
           next == IF g = 0 THEN "update" ELSE "category"
       IN Query(c, IF ProductExists(p) THEN Goes(r, next) ELSE NotFound(r))

checkCategory(c) ==
  /\ At(c, "updateProduct", "category")
  /\ Query(c, assertCategoryExists(call[c], call[c].arg.category, "update"))

\* The row may be soft-deleted by now: it is written, and stays deleted.
saveProduct(c) ==
  LET r == call[c]
      p == r.arg.id
      keeps == r.arg.status = "any" \/ product[p].state = "deleted"
      row == [state    |-> IF keeps THEN product[p].state ELSE r.arg.status,
              category |-> IF r.arg.category = 0 THEN product[p].category
                                                 ELSE r.arg.category]
  IN /\ At(c, "updateProduct", "update")
     /\ IF CategoryExists(row.category) THEN WriteProduct(c, Ends(r, "ok"), p, row)
                                        ELSE Query(c, Fails(r))

deleteProduct(c) ==
  /\ Asked(c, "deleteProduct")
  /\ \E u \in Callers(ProductsController.delete), p \in Products :
       LET r == Request(u, "deleteProduct", [id |-> p])
       IN Query(c, IF ProductExists(p) THEN Goes(r, "delete") ELSE NotFound(r))

softDeleteProduct(c) ==
  LET p == call[c].arg.id
  IN /\ At(c, "deleteProduct", "delete")
     /\ WriteProduct(c, Ends(call[c], "ok"), p, [product[p] EXCEPT !.state = "deleted"])

(***************************************************************************)
(* SkusService. The unique indexes on sku_code and on (product, size,      *)
(* color) hold among the SKUs that are not deleted. Stock and restocking   *)
(* are in Inventory and Orders; orders reserve units meanwhile.            *)
(***************************************************************************)
throwAsDuplicateSku(row, s) ==
  LET others == {t \in Skus \ {s} : sku[t].state = "live"}
  IN CASE \E t \in others : sku[t].code = row.code -> "duplicate-sku: skuCode"
       [] \E t \in others : sku[t].product = row.product /\ sku[t].variant = row.variant
            -> "duplicate-sku: size,color"
       [] OTHER -> "ok"

SaveSku(c, r, s, row) ==
  LET outcome == IF row.state = "live" THEN throwAsDuplicateSku(row, s) ELSE "ok"
  IN IF outcome = "ok" THEN WriteSku(c, Ends(r, "ok"), s, row)
                       ELSE Query(c, Ends(r, outcome))

createSku(c) ==
  /\ Asked(c, "createSku")
  /\ \E u \in Callers(SkusController.create), p \in Products,
        code \in Codes, variant \in Variants, price \in Prices :
       LET r == Request(u, "createSku", [state |-> "live", product |-> p, code |-> code,
                                         variant |-> variant, price |-> price])
       IN /\ \E s \in Skus : sku[s].state = Unused
          /\ Query(c, IF ProductExists(p) THEN Goes(r, "create") ELSE NotFound(r))

insertSku(c) ==
  LET unused == {s \in Skus : sku[s].state = Unused}
  IN /\ At(c, "createSku", "create") /\ unused # {}
     /\ SaveSku(c, call[c], Min(unused), call[c].arg)

updateSku(c) ==
  /\ Asked(c, "updateSku")
  /\ \E u \in Callers(SkusController.update), s \in Skus,
        code \in Codes, variant \in Variants, price \in Prices :
       LET r == Request(u, "updateSku", [id |-> s, code |-> code,
                                         variant |-> variant, price |-> price])
       IN Query(c, IF SkuIsActive(s) THEN Goes(r, "update") ELSE NotFound(r))

saveSku(c) ==
  LET r == call[c]
      row == [sku[r.arg.id] EXCEPT !.code = r.arg.code, !.variant = r.arg.variant,
                                   !.price = r.arg.price]
  IN At(c, "updateSku", "update") /\ SaveSku(c, r, r.arg.id, row)

deleteSku(c) ==
  /\ Asked(c, "deleteSku")
  /\ \E u \in Callers(SkusController.delete), s \in Skus :
       LET r == Request(u, "deleteSku", [id |-> s])
       IN Query(c, CASE ~SkuIsActive(s) -> NotFound(r)
                     [] SkuIsActive(s) /\ reserved[s] -> Ends(r, "sku-reserved")
                     [] OTHER -> Goes(r, "delete"))

softDeleteSku(c) ==
  LET s == call[c].arg.id
  IN /\ At(c, "deleteSku", "delete")
     /\ WriteSku(c, Ends(call[c], "ok"), s, [sku[s] EXCEPT !.state = "deleted"])

\* An order reserves units of a SKU, or the last one gives them back; only
\* deleteSku looks.
Reservation(s) ==
  /\ sku[s].state # Unused /\ \E c \in Calls : "deleteSku" \in menu[c]
  /\ reserved' = [reserved EXCEPT ![s] = ~@]
  /\ UNCHANGED <<category, product, sku>>
  /\ call' = [d \in Calls |-> IF At(d, "deleteSku", "delete")
                              THEN [call[d] EXCEPT !.excuse = @ \cup {"race"}] ELSE call[d]]

CatalogRequest(c) ==
  \/ createCategory(c) \/ updateCategory(c) \/ deleteCategory(c) \/ getCategory(c)
  \/ list(c) \/ getProduct(c) \/ createProduct(c) \/ updateProduct(c) \/ deleteProduct(c)
  \/ createSku(c) \/ updateSku(c) \/ deleteSku(c)

CatalogStep(c) ==
  \/ CatalogRequest(c)
  \/ saveCategory(c) \/ removeCategory(c)
  \/ listPage(c) \/ listRows(c)
  \/ insertProduct(c) \/ checkCategory(c) \/ saveProduct(c) \/ softDeleteProduct(c)
  \/ insertSku(c) \/ saveSku(c) \/ softDeleteSku(c)

(***************************************************************************)
(* Queries that throw. What the call wrote before stays, and the error     *)
(* filter answers 500.                                                     *)
(***************************************************************************)

\* Where a call does not wait for the database: at S3, at Stripe; or where it
\* catches what the database throws.
Elsewhere == {"put", "position", "insert", "clean", "row", "object",
              "make", "record", "deactivate", "retrieve"}

\* The calls whose last query is a write that nothing catches.
Writes == {"createCategory", "updateCategory", "deleteCategory",
           "createProduct", "updateProduct", "deleteProduct",
           "createSku", "updateSku", "deleteSku",
           "addItem", "updateItem", "removeItem", "clearCart", "like", "unlike",
           "createPromo", "updatePromo", "updateImage"}

\* What the call has read is gone.
Throws(r) == [Fails(r) EXCEPT !.total = 0, !.found = <<>>, !.seen = {}]

\* The database fails the next query, or the reply to the last is lost.
DatabaseFails(c) ==
  LET r == call[c]
  IN /\ \/ InFlight(c) /\ r.pc \notin Elsewhere
        \/ r.answer = "ok" /\ r.op \in Writes
     /\ Query(c, DbFault(Throws(r)))

\* The queries that take a number or a text of the request as it is. Those of
\* a cart are told apart by their number, in Shopping.
TakesValues(c) ==
  \/ At(c, "updateCategory", "update")
  \/ At(c, "createProduct", "create") \/ At(c, "updateProduct", "update")
  \/ At(c, "createSku", "create") \/ At(c, "updateSku", "update")
  \/ At(c, "updateImage", "write")
  \/ At(c, "updatePromo", "write") \/ At(c, "validatePromo", "evaluate")
  \/ At(c, "listProducts", "page")

ValueRefused(c) == TakesValues(c) /\ Query(c, Refused(Throws(call[c])))

QueryThrows(c) == DatabaseFails(c) \/ ValueRefused(c)

\* A store some calls have already filled.
CatalogInit ==
  /\ category \in [Categories -> CategoryRows]
  /\ product \in [Products -> ProductRows]
  /\ sku \in [Skus -> SkuRows]
  /\ \A g \in Categories : CategoryExists(g) => ~NameTaken(category[g].name, g)
  /\ \A p \in Products : product[p] # NoProduct => CategoryExists(product[p].category)
  /\ \A s \in Skus : sku[s] # NoSku => product[sku[s].product] # NoProduct
  /\ reserved = [s \in Skus |-> FALSE]
  /\ call = [c \in Calls |-> NoCall]
=============================================================================
