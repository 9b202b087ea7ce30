--------------------------- MODULE PaymentLinks ---------------------------
(***************************************************************************)
(* The payment link of a SKU: a row of payment_links and a link at Stripe, *)
(* made by the first checkout that finds no active row and claimed by the  *)
(* unique index on the active row of a SKU. The calls are those of         *)
(* Catalog; the order each checkout writes first is in Orders. A request   *)
(* to Stripe or to the database may fail, one to Stripe with its effect or *)
(* without.                                                                *)
(***************************************************************************)
EXTENDS Catalog

CONSTANT Links  \* payment links made at Stripe

ASSUME LinksAssumption == Links \subseteq Nat \ {0}

VARIABLES
  link,  \* payment_links, by the Stripe id
  url    \* links at Stripe: "none" yet, "active", "inactive"

linkTables == <<link, url>>

NoLink == [state |-> Unused, sku |-> 0, amount |-> 0]
LinkRows == {NoLink} \cup [state : {"active", "deactivated"}, sku : Skus, amount : Prices]
ActiveLinks(s) == {l \in Links : link[l].state = "active" /\ link[l].sku = s}

StripeFault(r) == [r EXCEPT !.excuse = @ \cup {"stripe"}]
Read(c, r) == Query(c, r) /\ UNCHANGED linkTables

AtStripe(c, r, l, state) ==
  /\ url' = [url EXCEPT ![l] = state]
  /\ UNCHANGED <<tables, link>>
  /\ call' = [call EXCEPT ![c] = r]

\* The order is written with the total of the n units asked for.
createPaymentLinkCheckout(c) ==
  /\ Asked(c, "checkout")
  /\ \E u \in Callers(CheckoutController.createPaymentLinkCheckout), s \in Skus,
        n \in 1 .. MaxInt + 1 :
       LET r == Request(u, "checkout", [sku |-> s, amount |-> sku[s].price, made |-> 0])
       IN Read(c, CASE ~SkuIsActive(s) -> NotFound(r)
                    [] SkuIsActive(s) /\ sku[s].price * n > MaxInt -> Refused(r)
                    [] OTHER -> Goes(r, "find"))

\* findFirst: any of the active rows; the index leaves one.
getOrCreatePaymentLinkUrl(c) ==
  LET r == call[c]
      existing == ActiveLinks(r.arg.sku)
  IN /\ At(c, "checkout", "find")
     /\ \/ \E l \in existing : Read(c, [Goes(r, "retrieve") EXCEPT !.found = <<l>>])
        \/ existing = {} /\ Read(c, Goes(r, "make"))

\* prices.create and paymentLinks.create.
makeLink(c) ==
  LET r == call[c]
      l == Min({k \in Links : url[k] = "none"})
      made == [r EXCEPT !.arg.made = l]
  IN /\ At(c, "checkout", "make") /\ \E k \in Links : url[k] = "none"
     /\ \/ AtStripe(c, Goes(made, "record"), l, "active")
        \/ AtStripe(c, StripeFault(Fails(made)), l, "active")
        \/ Read(c, StripeFault(Fails(r)))

\* The partial unique index payment_links_sku_id_active_key decides. Another
\* error, the loss of the reply to the INSERT included, is thrown on, and the
\* link stays as it is.
recordLink(c) ==
  LET r == call[c]
      row == [state |-> "active", sku |-> r.arg.sku, amount |-> r.arg.amount]
  IN /\ At(c, "checkout", "record")
     /\ \/ /\ ActiveLinks(r.arg.sku) = {}
           /\ link' = [link EXCEPT ![r.arg.made] = row]
           /\ UNCHANGED <<tables, url>>
           /\ \/ Stales(c, [Ends(r, "ok") EXCEPT !.found = <<r.arg.made>>])
              \/ Stales(c, DbFault(Fails(r)))
        \/ ActiveLinks(r.arg.sku) # {} /\ Read(c, Goes(r, "deactivate"))
        \/ Read(c, DbFault(Fails(r)))

\* The answer of Stripe is not looked at: .catch(() => {}).
deactivateOwn(c) ==
  LET r == call[c]
  IN /\ At(c, "checkout", "deactivate")
     /\ \/ AtStripe(c, Goes(r, "winner"), r.arg.made, "inactive")
        \/ Read(c, StripeFault(Goes(r, "winner")))

\* Mutant of findWinner: the loser goes on with the link it made.
KeepOwnLink(c) ==
  /\ At(c, "checkout", "winner")
  /\ Read(c, [Goes(call[c], "retrieve") EXCEPT !.found = <<call[c].arg.made>>])

\* findFirstOrThrow: a sale may have deactivated the winner meanwhile.
findWinner(c) ==
  LET r == call[c]
      winners == ActiveLinks(r.arg.sku)
  IN /\ At(c, "checkout", "winner")
     /\ \/ \E l \in winners : Read(c, [Goes(r, "retrieve") EXCEPT !.found = <<l>>])
        \/ winners = {} /\ Read(c, Fails(r))

retrievePaymentLinkUrl(c) ==
  LET r == call[c]
  IN /\ At(c, "checkout", "retrieve")
     /\ Read(c, Ends(r, "ok")) \/ Read(c, StripeFault(Fails(r)))

\* directSale, when nothing is left to sell: the rows only, not Stripe.
SoldOut(s) ==
  /\ ActiveLinks(s) # {}
  /\ link' = [l \in Links |-> IF l \in ActiveLinks(s)
                              THEN [link[l] EXCEPT !.state = "deactivated"] ELSE link[l]]
  /\ UNCHANGED <<tables, url>>
  /\ call' = [d \in Calls |-> IF InFlight(d) /\ call[d].op = "checkout"
                              THEN [call[d] EXCEPT !.excuse = @ \cup {"race"}] ELSE call[d]]

LinksStep(c) ==
  \/ createPaymentLinkCheckout(c)
  \/ getOrCreatePaymentLinkUrl(c) \/ makeLink(c) \/ recordLink(c)
  \/ deactivateOwn(c) \/ findWinner(c) \/ retrievePaymentLinkUrl(c)

LinksInit ==
  /\ link \in [Links -> LinkRows]
  /\ \A l \in Links : link[l] # NoLink => sku[link[l].sku] # NoSku
  /\ \A l \in Links : link[l].state = "active" => ActiveLinks(link[l].sku) = {l}
  /\ url = [l \in Links |-> IF link[l] = NoLink THEN "none" ELSE "active"]
=============================================================================
