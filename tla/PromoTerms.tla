----------------------------- MODULE PromoTerms -----------------------------
(***************************************************************************)
(* What a promo code is worth: promo-evaluation.util.ts, on the columns    *)
(* discount_type, discount_value and min_purchase_amount (min is 0 where   *)
(* the column is NULL). Amounts are cents. Whether the code is active,     *)
(* unexpired and unexhausted is CanRedeem of Promotions.                   *)
(***************************************************************************)
EXTENDS Integers

\* What the DTOs let a manager write.
ValidTerms ==
  { t \in [type: {"percentage", "fixed"}, value: Nat, min: Nat] :
      t.type = "percentage" => t.value \in 1..100 }

MeetsMinimum(t, subtotal) == subtotal >= t.min

\* Math.round(subtotal * percent / 100): a half is rounded up.
PercentOf(subtotal, percent) == (subtotal * percent + 50) \div 100

\* Mutant of Discount: a fixed amount is not capped.
DiscountUncapped(t, subtotal) ==
  IF t.type = "percentage" THEN PercentOf(subtotal, t.value) ELSE t.value

Discount(t, subtotal) ==
  IF t.type = "percentage" THEN PercentOf(subtotal, t.value)
  ELSE IF t.value < subtotal THEN t.value ELSE subtotal
=============================================================================
