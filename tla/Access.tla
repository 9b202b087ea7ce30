------------------------------- MODULE Access -------------------------------
(***************************************************************************)
(* Who may call what: the abilities of each role, the guards in front of   *)
(* each endpoint, and what a refused caller is told. Nothing here is state: *)
(* the role travels in the access token and each request is judged by it.  *)
(***************************************************************************)

Roles == {"client", "manager", "delivery_person"}
Anonymous == "anonymous"    \* no token, or one that does not verify

AppActions == {"create", "read", "update", "delete", "apply", "cancel",
               "process", "ship", "deliver", "manage"}

\* 'manage' stands for every action, the custom ones included.
Manage(subject) == AppActions \X {subject}

createForUser(role) ==
  CASE role = "manager" ->
         Manage("Category") \cup Manage("Product") \cup Manage("Sku")
         \cup (Manage("PromoCode") \ {<<"apply", "PromoCode">>})
         \cup ({"read", "process", "ship", "cancel"} \X {"Order"})
    [] role = "client" ->
         ({"read"} \X {"Category", "Product", "Sku"})
         \cup Manage("Cart") \cup Manage("Like") \cup {<<"apply", "PromoCode">>}
         \cup ({"create", "read", "cancel"} \X {"Order"})
    [] role = "delivery_person" ->
         ({"read"} \X {"Category", "Product", "Sku"})
         \cup ({"read", "deliver"} \X {"Order"})

(***************************************************************************)
(* The endpoints: the guard in front of each and the abilities its policy  *)
(* handlers ask for.                                                       *)
(***************************************************************************)
Public      == [guard |-> "none", needs |-> {}]
OptionalJwt == [guard |-> "optional", needs |-> {}]
May(action, subject) == [guard |-> "jwt", needs |-> {<<action, subject>>}]

OrdersController ==
  [createOrder  |-> May("create", "Order"),  listOrders   |-> May("read", "Order"),
   getOrder     |-> May("read", "Order"),    cancelOrder  |-> May("cancel", "Order"),
   processOrder |-> May("process", "Order"), shipOrder    |-> May("ship", "Order"),
   deliverOrder |-> May("deliver", "Order"),
   listOrderStatusHistory |-> May("read", "Order")]

PaymentsController == [createPaymentIntent |-> May("create", "Order")]
CheckoutController == [createPaymentLinkCheckout |-> May("create", "Order")]

ProductsController ==
  [list        |-> OptionalJwt,               getById     |-> OptionalJwt,
   create      |-> May("manage", "Product"),  update      |-> May("manage", "Product"),
   delete      |-> May("manage", "Product"),  uploadImage |-> May("manage", "Product"),
   updateImage |-> May("manage", "Product"),  deleteImage |-> May("manage", "Product")]

CategoriesController ==
  [list   |-> Public,                     getById |-> Public,
   create |-> May("manage", "Category"),  update  |-> May("manage", "Category"),
   delete |-> May("manage", "Category")]

SkusController ==
  [create |-> May("manage", "Sku"), update  |-> May("manage", "Sku"),
   delete |-> May("manage", "Sku"), restock |-> May("manage", "Sku")]

PromosController ==
  [create  |-> May("manage", "PromoCode"), list   |-> May("manage", "PromoCode"),
   getById |-> May("manage", "PromoCode"), update |-> May("manage", "PromoCode"),
   validate |-> May("apply", "PromoCode")]

CartController ==
  [getCart    |-> May("manage", "Cart"), addItem    |-> May("manage", "Cart"),
   clearCart  |-> May("manage", "Cart"), updateItem |-> May("manage", "Cart"),
   removeItem |-> May("manage", "Cart")]

LikesController ==
  [like |-> May("manage", "Like"), unlike |-> May("manage", "Like"),
   listLikedProducts |-> May("manage", "Like")]

\* JwtAuthGuard lets a verified token through, OptionalJwtAuthGuard anyone.
handleRequest(role, route) == route.guard = "jwt" => role \in Roles

\* PoliciesGuard: every policy handler holds for the caller's ability.
canActivate(role, route) ==
  route.needs # {} => route.needs \subseteq createForUser(role)

Admitted(role, route) == handleRequest(role, route) /\ canActivate(role, route)

(***************************************************************************)
(* What a refused caller is told, and what an error that no service raised *)
(* on purpose becomes.                                                     *)
(***************************************************************************)
Refusal(role, route) ==
  IF ~handleRequest(role, route) THEN "unauthenticated" ELSE "insufficient-permissions"

\* ProblemExceptionFilter: a service's own exception keeps its answer; a bare
\* HTTP exception gets the answer of its status; anything else, a driver
\* error included, is an internal error.
toProblem(exception) ==
  CASE exception.kind = "AppException"  -> exception.slug
    [] exception.kind = "HttpException" ->
         (CASE exception.status = 400 -> "malformed-request"
            [] exception.status = 401 -> "unauthenticated"
            [] exception.status = 403 -> "insufficient-permissions"
            [] exception.status = 404 -> "not-found"
            [] exception.status \in {413, 415} -> "unacceptable-image"
            [] OTHER -> "unexpected-error")
    [] OTHER -> "internal-error"
=============================================================================
