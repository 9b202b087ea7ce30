------------------------------ MODULE LowStock ------------------------------
(***************************************************************************)
(* LowStockService over the low_stock_events table: detectAndOpen, run by  *)
(* a sale inside its transaction, and resolveIfCrossedAbove, run by a      *)
(* restock. At most one event per product is open: the partial unique      *)
(* index low_stock_events_product_id_open_key.                             *)
(*                                                                         *)
(* detectAndOpen catches the unique violation of a second INSERT and       *)
(* returns []. The INSERT is a statement of the caller's transaction, and  *)
(* PostgreSQL refuses every later statement of a transaction after one of  *)
(* its statements failed (SQLSTATE 25P02) unless a SAVEPOINT is rolled     *)
(* back to; the code opens none. A sale that meets an open event therefore *)
(* never commits.                                                          *)
(***************************************************************************)
EXTENDS Integers

CONSTANTS
  Products,
  ProductOf,                 \* skus.product_id, by SKU
  LowStockThreshold          \* LOW_STOCK_THRESHOLD

ASSUME LowStockAssumption == LowStockThreshold \in Nat

VARIABLE openEvent  \* is there an event of the product with resolved_at NULL?

LowStockInit == openEvent = [p \in Products |-> FALSE]

\* The lines of a sale whose SKU it leaves at or under the threshold; st is
\* skus.stock after the sale.
LowLines(lines, st) == {s \in lines : st[s] <= LowStockThreshold}

\* No INSERT of the sale meets an open event, of an earlier sale or of an
\* earlier line of the same one.
CanDetect(lines, st) ==
  \A s \in LowLines(lines, st) :
    /\ ~openEvent[ProductOf[s]]
    /\ \A t \in LowLines(lines, st) : ProductOf[t] = ProductOf[s] => t = s

DetectAndOpen(lines, st) ==
  /\ CanDetect(lines, st)
  /\ openEvent' = [p \in Products |->
       openEvent[p] \/ \E s \in LowLines(lines, st) : ProductOf[s] = p]

ResolveIfCrossedAbove(lines, st) ==
  openEvent' = [p \in Products |->
    openEvent[p] /\ \A s \in lines : ProductOf[s] = p => st[s] <= LowStockThreshold]

LowStockTypeOK == openEvent \in [Products -> BOOLEAN]
=============================================================================
