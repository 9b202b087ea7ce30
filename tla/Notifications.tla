--------------------------- MODULE Notifications ---------------------------
(***************************************************************************)
(* Low-stock notifications of one product, from the sale that opens an     *)
(* event to the mail: the recipients detectAndOpen writes in the sale's    *)
(* transaction, the jobs enqueued after its commit, and the worker that    *)
(* mails and then updates the row. LowStock gives the rules of events;     *)
(* orders are seen as the one purchase a user has under way or behind, of  *)
(* one unit of one SKU.                                                    *)
(*                                                                         *)
(* The queue is BullMQ's: a job whose worker throws is tried up to         *)
(* Attempts times; the job of a worker that died is given to another one,  *)
(* until it has stalled more than MaxStalledCount times and is failed      *)
(* without a word to the worker.                                           *)
(***************************************************************************)
EXTENDS LowStock, FiniteSets

CONSTANTS
  Users,
  Product, Sku,  \* the product and its SKU
  MaxUnits,      \* bound: stock on the shelf
  MaxEvents,     \* bound: events opened
  Attempts,      \* defaultJobOptions.attempts
  MaxStalledCount \* the worker's maxStalledCount; BullMQ's default is 1

ASSUME NotificationsAssumption ==
  /\ IsFiniteSet(Users)
  /\ Products = {Product}
  /\ ProductOf = [s \in {Sku} |-> Product]
  /\ Attempts \in Nat \ {0}
  /\ MaxUnits \in Nat /\ MaxEvents \in Nat /\ MaxStalledCount \in Nat

Notes == (1..MaxEvents) \X Users  \* (low_stock_event_id, user_id) is unique

VARIABLES
  units,     \* skus.stock
  liked,     \* users with a likes row
  purchase,  \* of a user: none (cancelled counts as none), pending, paid
  events,    \* rows of low_stock_events; the last one may be open
  note,      \* stock_notifications.status
  outbox,    \* notificationIds in the hands of handlers, by event
  job,       \* where the job of a notification stands
  tries,     \* its attempts made
  deaths,    \* workers that died on it
  mails,     \* mails the SMTP server accepted for it
  disturbed  \* history: notifications on which a worker died, a statement
             \* threw or the answer of the SMTP server was lost

shopVars == <<units, liked, purchase, openEvent>>
jobVars  == <<job, tries, deaths, mails, disturbed>>
vars == <<shopVars, events, note, outbox, jobVars>>

Init ==
  /\ LowStockInit
  /\ units \in 1..MaxUnits
  /\ liked = {}
  /\ purchase = [u \in Users |-> "none"]
  /\ events = 0
  /\ note = [n \in Notes |-> "none"]
  /\ outbox = {}
  /\ job = [n \in Notes |-> "none"]
  /\ tries = [n \in Notes |-> 0]
  /\ deaths = [n \in Notes |-> 0]
  /\ mails = [n \in Notes |-> 0]
  /\ disturbed = {}

Shelf(k) == [s \in {Sku} |-> k]

Like(u) ==
  /\ liked' = liked \cup {u}
  /\ UNCHANGED <<units, purchase, openEvent, events, note, outbox, jobVars>>

Unlike(u) ==
  /\ liked' = liked \ {u}
  /\ UNCHANGED <<units, purchase, openEvent, events, note, outbox, jobVars>>

\* Reserve: the pending orders fit on the shelf.
Order(u) ==
  /\ purchase[u] = "none"
  /\ units > Cardinality({v \in Users : purchase[v] = "pending"})
  /\ purchase' = [purchase EXCEPT ![u] = "pending"]
  /\ UNCHANGED <<units, liked, openEvent, events, note, outbox, jobVars>>

\* like.findMany: users who like the product and have no order for it that
\* is neither pending nor cancelled.
Recipients(bought) == {v \in liked : bought[v] # "paid"}

\* fulfil: the order is claimed first, then the unit taken, the event opened
\* and its notifications written, all in one transaction.
Pay(u) ==
  /\ purchase[u] = "pending"
  /\ purchase' = [purchase EXCEPT ![u] = "paid"]
  /\ units' = units - 1
  /\ DetectAndOpen({Sku}, Shelf(units'))
  /\ LET opened == IF openEvent' # openEvent
                   THEN {<<events + 1, v>> : v \in Recipients(purchase')} ELSE {}
     IN /\ events' = IF openEvent' # openEvent THEN events + 1 ELSE events
        /\ note' = [n \in Notes |-> IF n \in opened THEN "pending" ELSE note[n]]
        /\ outbox' = outbox \cup opened
  /\ events' <= MaxEvents
  /\ UNCHANGED <<liked, jobVars>>

CancelPending(u) ==
  /\ purchase[u] = "pending"
  /\ purchase' = [purchase EXCEPT ![u] = "none"]
  /\ UNCHANGED <<units, liked, openEvent, events, note, outbox, jobVars>>

CancelPaid(u) ==
  /\ purchase[u] = "paid"
  /\ purchase' = [purchase EXCEPT ![u] = "none"]
  /\ units' = units + 1
  /\ ResolveIfCrossedAbove({Sku}, Shelf(units'))
  /\ UNCHANGED <<liked, events, note, outbox, jobVars>>

Restock ==
  /\ units < MaxUnits
  /\ units' = units + 1
  /\ ResolveIfCrossedAbove({Sku}, Shelf(units'))
  /\ UNCHANGED <<liked, purchase, events, note, outbox, jobVars>>

OutboxOf(e) == {n \in outbox : n[1] = e}

\* enqueueNotifications after the commit: one addBulk.
Enqueue(e) ==
  /\ OutboxOf(e) # {}
  /\ outbox' = outbox \ OutboxOf(e)
  /\ job' = [n \in Notes |-> IF n \in OutboxOf(e) THEN "waiting" ELSE job[n]]
  /\ UNCHANGED <<shopVars, events, note, tries, deaths, mails, disturbed>>

\* The server dies first, or Redis refuses: nobody enqueues them again.
LoseOutbox(e) ==
  /\ OutboxOf(e) # {}
  /\ outbox' = outbox \ OutboxOf(e)
  /\ UNCHANGED <<shopVars, events, note, jobVars>>

Untouched == <<shopVars, events, outbox>>

\* Someone's answer to the worker was an error that says nothing of the mail.
Disturbs(n) == disturbed' = disturbed \cup {n}

\* process throws: BullMQ tries again until the attempts are used up.
AttemptIsOver(n) ==
  /\ tries' = [tries EXCEPT ![n] = @ + 1]
  /\ job' = [job EXCEPT ![n] = IF tries[n] + 1 < Attempts THEN "waiting" ELSE "over"]

\* findUniqueOrThrow throws; no catch is around it.
ReadFails(n) ==
  /\ job[n] = "waiting"
  /\ AttemptIsOver(n)
  /\ Disturbs(n)
  /\ UNCHANGED <<Untouched, note, deaths, mails>>

\* A worker takes the job and the mail is accepted ...
Mail(n) ==
  /\ job[n] = "waiting"
  /\ job' = [job EXCEPT ![n] = "mailed"]
  /\ mails' = [mails EXCEPT ![n] = @ + 1]
  /\ UNCHANGED <<Untouched, note, tries, deaths, disturbed>>

\* ... or it is refused, or accepted and nobody hears of it: the catch.
MailFails(n) ==
  /\ job[n] = "waiting"
  /\ job' = [job EXCEPT ![n] = "failing"]
  /\ \/ UNCHANGED <<mails, disturbed>>
     \/ mails' = [mails EXCEPT ![n] = @ + 1] /\ Disturbs(n)
  /\ UNCHANGED <<Untouched, note, tries, deaths>>

MarkSent(n) ==
  /\ job[n] = "mailed"
  /\ note' = [note EXCEPT ![n] = "sent"]
  /\ job' = [job EXCEPT ![n] = "over"]
  /\ UNCHANGED <<Untouched, tries, deaths, mails, disturbed>>

\* The UPDATE to sent throws, committed or not, into the same catch as a
\* refused mail.
MarkSentFails(n) ==
  /\ job[n] = "mailed"
  /\ \E written \in {note[n], "sent"} : note' = [note EXCEPT ![n] = written]
  /\ job' = [job EXCEPT ![n] = "failing"]
  /\ Disturbs(n)
  /\ UNCHANGED <<Untouched, tries, deaths, mails>>

\* Mutant of WriteFailure: the failure is not written to the row.
ForgetFailure(n) ==
  /\ job[n] = "failing"
  /\ AttemptIsOver(n)
  /\ UNCHANGED <<Untouched, note, deaths, mails, disturbed>>

\* Mutant of WriteFailure: the catch does not throw the error on.
SwallowFailure(n) ==
  /\ job[n] = "failing"
  /\ note' = [note EXCEPT ![n] = "failed"]
  /\ job' = [job EXCEPT ![n] = "over"]
  /\ tries' = [tries EXCEPT ![n] = @ + 1]
  /\ UNCHANGED <<Untouched, deaths, mails, disturbed>>

\* The catch writes the failure and throws the error on.
WriteFailure(n) ==
  /\ job[n] = "failing"
  /\ note' = [note EXCEPT ![n] = "failed"]
  /\ AttemptIsOver(n)
  /\ UNCHANGED <<Untouched, deaths, mails, disturbed>>

\* The UPDATE of the catch throws, committed or not.
WriteFailureFails(n) ==
  /\ job[n] = "failing"
  /\ \E written \in {note[n], "failed"} : note' = [note EXCEPT ![n] = written]
  /\ AttemptIsOver(n)
  /\ Disturbs(n)
  /\ UNCHANGED <<Untouched, deaths, mails>>

\* The worker dies, wherever it is. BullMQ finds the job stalled and gives
\* it to another worker, or fails it if that happened too often.
WorkerDies(n) ==
  /\ job[n] \in {"waiting", "mailed", "failing"}
  /\ deaths' = [deaths EXCEPT ![n] = @ + 1]
  /\ job' = [job EXCEPT ![n] = IF deaths[n] < MaxStalledCount THEN "waiting" ELSE "over"]
  /\ Disturbs(n)
  /\ UNCHANGED <<Untouched, note, tries, mails>>

WorkerStep(n) ==
  \/ ReadFails(n) \/ Mail(n) \/ MailFails(n) \/ MarkSent(n) \/ MarkSentFails(n)
  \/ WriteFailure(n) \/ WriteFailureFails(n) \/ WorkerDies(n)

Next ==
  \/ \E u \in Users :
       Like(u) \/ Unlike(u) \/ Order(u) \/ Pay(u) \/ CancelPending(u) \/ CancelPaid(u)
  \/ Restock
  \/ \E e \in 1..MaxEvents : Enqueue(e) \/ LoseOutbox(e)
  \/ \E n \in Notes : WorkerStep(n)

Spec == Init /\ [][Next]_vars

\* Workers go on as long as there are jobs; nothing else is promised.
FairSpec == Spec /\ \A n \in Notes : WF_vars(WorkerStep(n))

-----------------------------------------------------------------------------

TypeOK ==
  /\ LowStockTypeOK
  /\ units \in 0..(MaxUnits + Cardinality(Users))
  /\ liked \subseteq Users
  /\ purchase \in [Users -> {"none", "pending", "paid"}]
  /\ events \in 0..MaxEvents
  /\ note \in [Notes -> {"none", "pending", "sent", "failed"}]
  /\ outbox \subseteq Notes
  /\ job \in [Notes -> {"none", "waiting", "mailed", "failing", "over"}]
  /\ tries \in [Notes -> 0..Attempts]
  /\ deaths \in [Notes -> 0..(MaxStalledCount + 1)]
  /\ mails \in [Notes -> Nat]
  /\ disturbed \subseteq Notes

\* The row tells what happened to the mail. A row that says sent is never
\* wrong; and where no worker died and no answer was lost, a job that is over
\* has mailed once and says so, or has failed, never mailing, as often as it
\* may.
RowTellsOutcome ==
  \A n \in Notes : job[n] = "over" =>
    /\ note[n] = "sent" => mails[n] > 0
    /\ n \notin disturbed =>
         \/ note[n] = "sent" /\ mails[n] = 1
         \/ note[n] = "failed" /\ mails[n] = 0 /\ tries[n] = Attempts

\* Every notification that reached the queue is settled, however many
\* workers die on it; its row can stay pending only if it was disturbed.
QueuedIsSettled ==
  \A n \in Notes :
    (job[n] = "waiting") ~>
      (job[n] = "over" /\ (note[n] \in {"sent", "failed"} \/ n \in disturbed))

=============================================================================
