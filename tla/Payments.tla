------------------------------ MODULE Payments ------------------------------
(***************************************************************************)
(* Everything that can charge the buyer of one order, and what the program *)
(* makes of it: concurrent calls of createPaymentIntent (double click, two *)
(* tabs, a retry after a declined card), the intents they create at        *)
(* Stripe, the rows of payments, the sessions completed on a payment       *)
(* link's page, and the webhook handlers with their idempotency gate.      *)
(* Orders share no state here, so one order stands for all.                *)
(*                                                                         *)
(* Stripe charges an intent at most once, lets the holder of its client    *)
(* secret pay it until it is canceled, lets a payment link be paid any     *)
(* number of times, and delivers the event of a charge until it is         *)
(* answered. A redelivery finds its row in stripe_webhook_events and       *)
(* returns, so it needs no action.                                         *)
(***************************************************************************)
EXTENDS Integers, FiniteSets

CONSTANTS
  Calls,     \* calls of createPaymentIntent for the order; each may create
             \* one intent, which is named after it
  Sessions   \* checkout sessions of its payment link; {} for a cart order

ASSUME PaymentsAssumption ==
  IsFiniteSet(Calls) /\ IsFiniteSet(Sessions) /\ Calls \cap Sessions = {}

Charges == Calls \cup Sessions

VARIABLES
  status,   \* orders.status; the steps after paid are of no interest here
  call,     \* where each call stands
  canceled, \* intents canceled at Stripe
  row,      \* payments.status of the row of an intent or session
  secrets,  \* intents whose client_secret a call returned to the buyer
  charged,  \* intents and sessions Stripe charged
  event,    \* where the handling of each charge's event stands
  warned    \* charges for which warnIfCancelledUnderPayment logged

callVars  == <<call, canceled, secrets>>
eventVars == <<event, warned>>
vars == <<status, row, charged, callVars, eventVars>>

CallStates  == {"idle", "checked", "created", "lost", "canceling", "done", "error"}
EventStates == {"none", "running", "committed", "stamped", "abandoned"}

PendingRows   == {c \in Charges : row[c] = "pending"}
SucceededRows == {c \in Charges : row[c] = "succeeded"}

Init ==
  /\ status = "pending"
  /\ call = [k \in Calls |-> "idle"]
  /\ canceled = {} /\ secrets = {} /\ charged = {} /\ warned = {}
  /\ row = [c \in Charges |-> "none"]
  /\ event = [c \in Charges |-> "none"]

(***************************************************************************)
(* createPaymentIntent, split at its awaits.                               *)
(***************************************************************************)

MoveCall(k, from, to) ==
  /\ call[k] = from
  /\ call' = [call EXCEPT ![k] = to]

\* The order is pending and has no succeeded payment; otherwise the call is
\* refused, which changes nothing.
Check(k) ==
  /\ status = "pending"
  /\ SucceededRows = {}
  /\ MoveCall(k, "idle", "checked")
  /\ UNCHANGED <<status, row, charged, canceled, secrets, eventVars>>

\* Retry fast path: the intent of the pending row is returned again.
ReuseExisting(k) ==
  /\ PendingRows # {}
  /\ MoveCall(k, "checked", "done")
  /\ secrets' = secrets \cup PendingRows
  /\ UNCHANGED <<status, row, charged, canceled, eventVars>>

CreateIntent(k) ==
  /\ PendingRows = {}
  /\ MoveCall(k, "checked", "created")
  /\ UNCHANGED <<status, row, charged, canceled, secrets, eventVars>>

\* The INSERT passes payments_order_id_pending_key. The order is not read
\* again.
InsertRow(k) ==
  /\ PendingRows = {}
  /\ MoveCall(k, "created", "done")
  /\ row' = [row EXCEPT ![k] = "pending"]
  /\ secrets' = secrets \cup {k}
  /\ UNCHANGED <<status, charged, canceled, eventVars>>

LoseClaim(k) ==
  /\ PendingRows # {}
  /\ MoveCall(k, "created", "lost")
  /\ UNCHANGED <<status, row, charged, canceled, secrets, eventVars>>

\* Best effort: a failure of the cancellation is swallowed.
CancelLoser(k) ==
  /\ MoveCall(k, "lost", "canceling")
  /\ canceled' \in {canceled, canceled \cup {k}}
  /\ UNCHANGED <<status, row, charged, secrets, eventVars>>

\* Mutant of ReuseWinner: returns the loser's own intent.
ReuseLoser(k) ==
  /\ MoveCall(k, "canceling", "done")
  /\ secrets' = secrets \cup {k}
  /\ UNCHANGED <<status, row, charged, canceled, eventVars>>

ReuseWinner(k) ==
  /\ PendingRows # {}
  /\ MoveCall(k, "canceling", "done")
  /\ secrets' = secrets \cup PendingRows
  /\ UNCHANGED <<status, row, charged, canceled, eventVars>>

\* findFirstOrThrow finds no pending row any more.
MissWinner(k) ==
  /\ PendingRows = {}
  /\ MoveCall(k, "canceling", "error")
  /\ UNCHANGED <<status, row, charged, canceled, secrets, eventVars>>

(***************************************************************************)
(* The buyer, on Stripe's side, and whoever cancels the order.             *)
(***************************************************************************)

PayIntent(k) ==
  /\ k \in secrets \ (canceled \cup charged)
  /\ charged' = charged \cup {k}
  /\ UNCHANGED <<status, row, callVars, eventVars>>

PaySession(x) ==
  /\ x \in Sessions \ charged
  /\ charged' = charged \cup {x}
  /\ UNCHANGED <<status, row, callVars, eventVars>>

\* cancelOrder, or releaseStalePendingOrder from pending. The payments of
\* the order and its open intent are left alone.
CancelOrder ==
  /\ status \in {"pending", "paid"}
  /\ status' = "cancelled"
  /\ UNCHANGED <<row, charged, callVars, eventVars>>

(***************************************************************************)
(* handleEvent, split at the commits of its three writes.                  *)
(***************************************************************************)

MoveEvent(c, from, to) ==
  /\ event[c] = from
  /\ event' = [event EXCEPT ![c] = to]

\* Mutant of Receive: events of cancelled orders are dropped at the door.
ReceiveForOpenOrder(c) ==
  /\ c \in charged
  /\ status # "cancelled"
  /\ MoveEvent(c, "none", "running")
  /\ UNCHANGED <<status, row, charged, callVars, warned>>

\* The INSERT on event.id.
Receive(c) ==
  /\ c \in charged
  /\ MoveEvent(c, "none", "running")
  /\ UNCHANGED <<status, row, charged, callVars, warned>>

\* Mutants of Settle: the status of the order is not part of the claim; the
\* row of the payment is not found.
SettleUnclaimed(c) ==
  /\ MoveEvent(c, "running", "committed")
  /\ status' = "paid"
  /\ row' = [row EXCEPT ![c] = "succeeded"]
  /\ UNCHANGED <<charged, callVars, warned>>

SettleKeepsRow(c) ==
  /\ status = "pending"
  /\ MoveEvent(c, "running", "committed")
  /\ status' = "paid"
  /\ UNCHANGED <<row, charged, callVars, warned>>

\* fulfil or directSale claims the pending order and commits, with the row
\* of the payment turned into, or inserted as, succeeded.
Settle(c) ==
  /\ status = "pending"
  /\ MoveEvent(c, "running", "committed")
  /\ status' = "paid"
  /\ row' = [row EXCEPT ![c] = "succeeded"]
  /\ UNCHANGED <<charged, callVars, warned>>

\* Mutant of Ignore: the warning is forgotten.
IgnoreSilently(c) ==
  /\ status # "pending"
  /\ MoveEvent(c, "running", "committed")
  /\ UNCHANGED <<status, row, charged, callVars, warned>>

\* The claim hits no row: nothing is written, a cancelled order is logged.
Ignore(c) ==
  /\ status # "pending"
  /\ MoveEvent(c, "running", "committed")
  /\ warned' = IF status = "cancelled" THEN warned \cup {c} ELSE warned
  /\ UNCHANGED <<status, row, charged, callVars>>

Stamp(c) ==
  /\ MoveEvent(c, "committed", "stamped")
  /\ UNCHANGED <<status, row, charged, callVars, warned>>

\* The transaction or the last UPDATE throws, or the server dies, before or
\* after the commit: processed_at stays NULL.
Abandon(c) ==
  /\ \E from \in {"running", "committed"} : MoveEvent(c, from, "abandoned")
  /\ UNCHANGED <<status, row, charged, callVars, warned>>

CallStep(k) ==
  \/ Check(k) \/ ReuseExisting(k) \/ CreateIntent(k)
  \/ InsertRow(k) \/ LoseClaim(k) \/ CancelLoser(k)
  \/ ReuseWinner(k) \/ MissWinner(k)

HandlerStep(c) == Settle(c) \/ Ignore(c) \/ Stamp(c) \/ Abandon(c)

Next ==
  \/ \E k \in Calls : CallStep(k) \/ PayIntent(k)
  \/ \E x \in Sessions : PaySession(x)
  \/ CancelOrder
  \/ \E c \in Charges : Receive(c) \/ HandlerStep(c)

Spec == Init /\ [][Next]_vars

\* Stripe delivers the event of every charge, and a handler that runs comes
\* to an end of one kind or another. Nobody is obliged to pay or to cancel,
\* and a call of the API may be dropped half way.
Fairness == \A c \in Charges : WF_vars(Receive(c)) /\ WF_vars(HandlerStep(c))

FairSpec == Spec /\ Fairness

-----------------------------------------------------------------------------

TypeOK ==
  /\ status \in {"pending", "paid", "cancelled"}
  /\ call \in [Calls -> CallStates]
  /\ canceled \subseteq Calls
  /\ row \in [Charges -> {"none", "pending", "succeeded"}]
  /\ secrets \subseteq Calls
  /\ charged \subseteq Charges
  /\ event \in [Charges -> EventStates]
  /\ warned \subseteq Charges

\* The two partial unique indexes of payments hold, the one on succeeded
\* rows without any statement ever being refused by it: the claim on the
\* order's status is enough, for intents and sessions alike.
OneRowOfEachKind ==
  Cardinality(PendingRows) <= 1 /\ Cardinality(SucceededRows) <= 1

\* Paid means paid: an order leaves pending for paid exactly with the row of
\* a payment Stripe really charged.
PaidByACharge ==
  /\ SucceededRows \subseteq charged
  /\ status = "pending" => SucceededRows = {}
  /\ status = "paid" => SucceededRows # {}

\* Concurrent and repeated calls for an unpaid order all hand out the same
\* intent, the one with the pending row, and never one canceled at Stripe.
OneUsableIntent ==
  SucceededRows = {} =>
    /\ secrets \subseteq PendingRows
    /\ secrets \cap canceled = {}

\* A charge whose event was processed to the end is in the books, or in the
\* log, or was made for an order another charge paid.
NoChargeIsLost ==
  \A c \in Charges : event[c] = "stamped" =>
    c \in warned \/ SucceededRows # {}

\* Every charge is accounted for in the end: handled as above, or left in
\* stripe_webhook_events with processed_at NULL for an operator to find.
EveryChargeIsAnswered ==
  \A c \in Charges : (c \in charged) ~> (event[c] \in {"stamped", "abandoned"})

\* An event for an order already paid is the duplicate delivery of the
\* charge that paid it: no other charge is passed over in silence.
PassedOverIsDuplicate ==
  \A c \in Charges : event[c] = "stamped" => c \in warned \/ c \in SucceededRows
=============================================================================
