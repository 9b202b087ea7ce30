------------------------------ MODULE Inventory ------------------------------
(***************************************************************************)
(* The counters of the skus table and the guarded UPDATEs that move them.  *)
(* Every operator below is one statement of a transaction of the services, *)
(* written as an action on stock and reserved; the modules that own the    *)
(* transactions conjoin them with the other statements.                    *)
(*                                                                         *)
(* A "quantity" is the set of lines of one order seen as a function from   *)
(* SKUs to units, 0 standing for no line: (cart_id, sku_id) is unique, so  *)
(* an order never has two lines of one SKU.                                *)
(***************************************************************************)
EXTENDS Integers, FiniteSets

CONSTANTS
  Skus,          \* rows of skus
  MaxQty,        \* bound: most units of one line
  InitialStock,  \* stock values a SKU may be created with
  MaxStock       \* bound: the manager restocks only below it

ASSUME InventoryAssumption ==
  /\ IsFiniteSet(Skus)
  /\ MaxQty \in Nat \ {0}
  /\ InitialStock \subseteq Nat
  /\ MaxStock \in Nat

VARIABLES
  stock,     \* skus.stock
  reserved,  \* skus.reserved_stock
  received   \* history: units ever put on the shelf (create, restock)

inventoryVars == <<stock, reserved, received>>

Quantities == [Skus -> 0..MaxQty]
Lines(q)   == {s \in Skus : q[s] > 0}
Available(s) == stock[s] - reserved[s]

\* CHECK skus_stock_check. A statement that breaks it fails, and the
\* transaction it belongs to is rolled back.
StockCheck(st, rs) ==
  \A s \in Skus : st[s] >= 0 /\ rs[s] >= 0 /\ rs[s] <= st[s]

InventoryInit ==
  /\ stock \in [Skus -> InitialStock]
  /\ reserved = [s \in Skus |-> 0]
  /\ received = stock

Plus(f, q)  == [s \in Skus |-> f[s] + q[s]]
Minus(f, q) == [s \in Skus |-> f[s] - q[s]]

Write(st, rs) ==
  /\ StockCheck(st, rs)
  /\ stock' = st
  /\ reserved' = rs
  /\ UNCHANGED received

\* createOrder: reserve every line, WHERE stock - reserved_stock >= quantity.
CanReserve(q) == \A s \in Lines(q) : Available(s) >= q[s]

Reserve(q) == CanReserve(q) /\ Write(stock, Plus(reserved, q))

\* finalizeCancellation of a pending order: no guard of its own.
CanRelease(q) == StockCheck(stock, Minus(reserved, q))
Release(q)    == Write(stock, Minus(reserved, q))

\* finalizeCancellation of a paid or processing order.
Restock(q) == Write(Plus(stock, q), reserved)

\* fulfil: both columns together, no availability guard.
CanDeduct(q) == StockCheck(Minus(stock, q), Minus(reserved, q))

\* Mutants of Deduct: one of the two columns is forgotten (in the first, the
\* CHECK as well).
DeductStockOnly(q) ==
  stock' = Minus(stock, q) /\ UNCHANGED <<reserved, received>>
DeductReservedOnly(q) == Write(stock, Minus(reserved, q))

Deduct(q)    == Write(Minus(stock, q), Minus(reserved, q))

\* Mutant of SellDirect: discharges a reservation as Fulfil does.
SellDirectAsFulfil(s, n) ==
  IF Available(s) >= n /\ reserved[s] >= n
  THEN Write([stock EXCEPT ![s] = @ - n], [reserved EXCEPT ![s] = @ - n])
  ELSE UNCHANGED inventoryVars

\* directSale: WHERE stock - reserved_stock >= quantity; 0 rows is ignored.
SellDirect(s, n) ==
  IF Available(s) >= n
  THEN Write([stock EXCEPT ![s] = @ - n], reserved)
  ELSE UNCHANGED inventoryVars

\* SkusService.restock: the only other write to stock, a positive delta.
ReceiveUnits(s, n) ==
  /\ stock[s] + n <= MaxStock
  /\ stock' = [stock EXCEPT ![s] = @ + n]
  /\ received' = [received EXCEPT ![s] = @ + n]
  /\ UNCHANGED reserved

InventoryTypeOK ==
  /\ stock \in [Skus -> Nat]
  /\ reserved \in [Skus -> Nat]
  /\ received \in [Skus -> Nat]
  /\ StockCheck(stock, reserved)
==============================================================================
