----------------------------- MODULE Promotions -----------------------------
(***************************************************************************)
(* The redemption counter of promo_codes: the guarded UPDATE of            *)
(* createOrder, the unguarded decrement of finalizeCancellation, and what  *)
(* a manager or the clock changes under them.                              *)
(***************************************************************************)
EXTENDS Integers

CONSTANTS
  Promos,      \* rows of promo_codes
  NoPromo,     \* orders.promo_code_id IS NULL
  UsageLimits  \* values a manager gives usage_limit (validated >= 1)

ASSUME PromotionsAssumption ==
  /\ NoPromo \notin Promos
  /\ UsageLimits \subseteq Nat \ {0}
  /\ UsageLimits # {}

VARIABLES
  timesRedeemed,  \* promo_codes.times_redeemed
  usageLimit,     \* promo_codes.usage_limit
  promoLive       \* is_active AND expires_at > now()

promoVars == <<timesRedeemed, usageLimit, promoLive>>

PromotionsInit ==
  /\ timesRedeemed = [p \in Promos |-> 0]
  /\ usageLimit \in [Promos -> UsageLimits]
  /\ promoLive = [p \in Promos |-> TRUE]

CanRedeem(p) ==
  p \in Promos => promoLive[p] /\ timesRedeemed[p] < usageLimit[p]

Count(p, d) ==
  timesRedeemed' = [q \in Promos |-> timesRedeemed[q] + (IF q = p THEN d ELSE 0)]

Redeem(p) ==
  /\ CanRedeem(p)
  /\ Count(p, 1)
  /\ UNCHANGED <<usageLimit, promoLive>>

\* timesRedeemed: { decrement: 1 }, whatever the counter holds.
ReleaseRedemption(p) ==
  /\ Count(p, -1)
  /\ UNCHANGED <<usageLimit, promoLive>>

\* PromosService.update writes the limit and the active flag without looking
\* at the counter; expires_at may also be moved, or simply pass.
UpdatePromo(p, limit, live) ==
  /\ usageLimit' = [usageLimit EXCEPT ![p] = limit]
  /\ promoLive' = [promoLive EXCEPT ![p] = live]
  /\ UNCHANGED timesRedeemed

PromotionsTypeOK ==
  /\ timesRedeemed \in [Promos -> Int]  \* an integer column, no CHECK
  /\ usageLimit \in [Promos -> UsageLimits]
  /\ promoLive \in [Promos -> BOOLEAN]
=============================================================================
