----------------------------- MODULE Storefront -----------------------------
(***************************************************************************)
(* The catalogue, the shopper's part of it, the images and the payment     *)
(* links in one system: the calls of all four interleave query by query.   *)
(***************************************************************************)
EXTENDS Shopping, ProductImages, PaymentLinks

storeVars == <<tables, shopTables, imageTables, linkTables, call, menu>>

StoreInit == CatalogInit /\ ShoppingInit /\ ImagesInit /\ LinksInit

CallStep(c) ==
  \/ CatalogStep(c)  /\ UNCHANGED <<shopTables, imageTables, linkTables>>
  \/ ShoppingStep(c) /\ UNCHANGED <<imageTables, linkTables>>
  \/ ImagesStep(c)   /\ UNCHANGED <<shopTables, linkTables>>
  \/ LinksStep(c)    /\ UNCHANGED <<shopTables, imageTables>>
  \/ QueryThrows(c)  /\ UNCHANGED <<shopTables, imageTables, linkTables>>

OrdersStep ==
  \E s \in Skus :
    \/ Reservation(s) /\ UNCHANGED <<shopTables, imageTables, linkTables>>
    \/ SoldOut(s)     /\ UNCHANGED <<shopTables, imageTables>>

StoreNext == ((\E c \in Calls : CallStep(c)) \/ OrdersStep) /\ UNCHANGED menu

StoreSpec == StoreInit /\ [][StoreNext]_storeVars

(***************************************************************************)
(* Properties.                                                             *)
(***************************************************************************)
Answered(c, op) == At(c, op, "done")

\* Rows stay what the tables allow: a row refers to rows that exist, whatever
\* calls raced (foreign keys of schema.prisma, and the checks made before them).
StoreTypeOK ==
  /\ \A p \in Products : product[p] # NoProduct =>
       /\ product[p].state \in {"active", "disabled", "deleted"}
       /\ CategoryExists(product[p].category)
  /\ \A s \in Skus : sku[s] # NoSku => product[sku[s].product] # NoProduct
  /\ \A i \in Items : item[i] # NoItem =>
       item[i].user \in hasCart /\ item[i].quantity \in 1 .. MaxInt
  /\ \A l \in Links : link[l] # NoLink => url[l] # "none"
  /\ \A c \in Calls : call[c].excuse \subseteq {"race", "s3", "database", "stripe", "value"}

\* An unexpected error (500) is never the answer to a call that ran alone, with
\* its services up and values its columns can hold: the checks of
\* categories.service.ts:76-90 and of the products, images and links foresee
\* every other refusal of the database.
UnexpectedErrorsAreExcused ==
  \A c \in Calls : call[c].answer = "internal-error" => call[c].excuse # {}

\* Carts, likes and promo codes answer no unexpected error because of a race:
\* P2002 and P2025 are caught where another request can cause them
\* (cart.service.ts:71-76, 113-121). What is left is a database that fails and
\* a quantity, or another value, beyond its column.
ShoppersNeverMeetAnError ==
  \A c \in Calls :
    call[c].op \in {"getCart", "addItem", "clearCart", "updateItem", "removeItem",
                    "like", "unlike", "createPromo", "updatePromo", "validatePromo"}
    /\ call[c].answer = "internal-error"
    => call[c].excuse \cap {"database", "value"} # {}

\* A listing shows only products its filters matched at some moment while it
\* ran: the second query of findProductsPage, which asks by id alone, adds
\* none that were never visible (products.service.ts:242-251).
PageShowsWhatWasVisible ==
  \A c \in Calls :
    Answered(c, "listProducts") /\ call[c].answer = "ok" =>
      Range(call[c].found) \subseteq call[c].seen

\* The total of a listing nothing interfered with is what its pages can reach
\* (products.service.ts:191-196; the other lists count with their own filter).
TotalIsReachable ==
  \A c \in Calls :
    /\ call[c].op \in {"listProducts", "listCategories", "listLikedProducts", "listPromos"}
    /\ call[c].answer = "ok" /\ call[c].excuse = {}
    => Len(call[c].found) = Max({0, Min({PageSize, call[c].total - call[c].arg.offset})})

\* What a step leaves of the codes, and what a client is told of one.
KnowsCodesByLetters ==
  /\ \A p, q \in Promos :
       /\ promo'[p].state = "live" /\ promo'[q].state = "live" /\ p # q
       => promo'[p].code.letters # promo'[q].code.letters
  /\ \A c \in Calls :
       /\ At(c, "validatePromo", "evaluate") /\ call'[c].answer = "invalid"
       => ~\E p \in Promos : /\ promo[p].state = "live" /\ promo[p].active
                             /\ promo[p].code.letters = call[c].arg.code.letters

\* Two promo codes never differ by case alone, and a client finds a code in
\* whatever case it is typed (promos.service.ts:35, 111).
CodesIgnoreCase == [][KnowsCodesByLetters]_storeVars

\* Every image row has its object, since the object is put before the row and
\* taken after it: only the upload of that very image can lose it, by cleaning
\* up after an INSERT that was committed and whose reply was lost
\* (product-images.service.ts:49-55).
NoDanglingImage ==
  \A i \in Images : image[i].state = "live" =>
    \/ i \in objects
    \/ \E c \in Calls : /\ call[c].op = "uploadImage" /\ call[c].arg.key = i
                       /\ "database" \in call[c].excuse

\* An object without a row belongs to a call still at work, or S3 refused to
\* store or to delete it, or the DELETE of its row threw after its effect: no
\* failure of the database alone leaves an orphan of an upload
\* (product-images.service.ts:52-55, 84-97).
OrphansAreExplained ==
  \A i \in objects :
    image[i].state # "live" =>
      \E c \in Calls :
        \/ /\ call[c].op = "uploadImage" /\ call[c].arg.key = i
           /\ InFlight(c) \/ "s3" \in call[c].excuse
        \/ /\ call[c].op = "deleteImage" /\ call[c].arg.id = i
           /\ InFlight(c) \/ call[c].excuse \cap {"s3", "database"} # {}

\* The table and the bucket never disagree in a way a call has to answer for.
ImagesMatchObjects == NoDanglingImage /\ OrphansAreExplained

\* A step that inserts an image on an undisturbed reading puts it last.
AppendsItsImage ==
  \A c \in Calls :
    /\ At(c, "uploadImage", "insert") /\ call[c].excuse = {}
    /\ call'[c].answer = "ok"
    => \A i \in ImagesOf(call[c].arg.product) : image[i].position < call[c].arg.position

\* An image uploaded while nothing interfered comes after all the others of
\* its product, whatever was deleted or moved before
\* (product-images.service.ts:38-41).
LaterImageComesLater == [][AppendsItsImage]_storeVars

\* The link a checkout answers with works at Stripe and was made for its SKU:
\* a checkout that loses the claim deactivates its own link and hands out the
\* winner's (payments.service.ts:227-234).
HandedOutLinksWork ==
  \A c \in Calls :
    Answered(c, "checkout") /\ call[c].answer = "ok" =>
      LET l == Head(call[c].found)
      IN url[l] = "active" /\ link[l].sku = call[c].arg.sku

\* A link that works at Stripe but has no row was made by a checkout still at
\* work or one whose request failed: a lost claim leaves no second link that
\* can be paid (payments.service.ts:227-230).
StrayLinksAreExplained ==
  \A l \in Links :
    url[l] = "active" /\ link[l] = NoLink =>
      \E c \in Calls : /\ call[c].op = "checkout" /\ call[c].arg.made = l
                       /\ InFlight(c) \/ call[c].excuse \cap {"stripe", "database"} # {}

\* The table and Stripe agree on the links that can be paid, but for failures.
LinksMatchStripe == HandedOutLinksWork /\ StrayLinksAreExplained
=============================================================================
