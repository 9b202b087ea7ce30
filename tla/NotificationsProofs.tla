------------------------- MODULE NotificationsProofs -------------------------
(***************************************************************************)
(* Notifications, for any number of users, units, events, attempts and     *)
(* workers that die.                                                       *)
(***************************************************************************)
EXTENDS Notifications, FiniteSetTheorems, TLAPS

Pending == {u \in Users : purchase[u] = "pending"}
Paid    == {u \in Users : purchase[u] = "paid"}

(***************************************************************************)
(* The shelf: what is pending fits on it, and what was paid for can come   *)
(* back on top of a full one.                                              *)
(***************************************************************************)
ShelfInv ==
  /\ openEvent \in [Products -> BOOLEAN]
  /\ units \in Nat
  /\ liked \subseteq Users
  /\ purchase \in [Users -> {"none", "pending", "paid"}]
  /\ Cardinality(Pending) <= units
  /\ units + Cardinality(Paid) <= MaxUnits + Cardinality(Users)

LEMMA Counts ==
  ASSUME NEW S \in SUBSET Users
  PROVE  /\ IsFiniteSet(S) /\ Cardinality(S) \in Nat
         /\ Cardinality(S) <= Cardinality(Users) /\ Cardinality(Users) \in Nat
<1>1. IsFiniteSet(Users)
  BY NotificationsAssumption
<1> QED
  BY <1>1, FS_Subset, FS_CardinalityType

\* One purchase changes: it leaves the sets it was in and enters the new one.
LEMMA PurchaseMoves ==
  ASSUME ShelfInv, NEW u \in Users, NEW to \in {"none", "pending", "paid"},
         purchase[u] # to, purchase' = [purchase EXCEPT ![u] = to]
  PROVE  /\ to = "pending" => Cardinality(Pending') = Cardinality(Pending) + 1
         /\ purchase[u] = "pending" => Cardinality(Pending') = Cardinality(Pending) - 1
         /\ "pending" \notin {to, purchase[u]} => Cardinality(Pending') = Cardinality(Pending)
         /\ to = "paid" => Cardinality(Paid') = Cardinality(Paid) + 1
         /\ purchase[u] = "paid" => Cardinality(Paid') = Cardinality(Paid) - 1
         /\ "paid" \notin {to, purchase[u]} => Cardinality(Paid') = Cardinality(Paid)
<1>1. /\ Pending \in SUBSET Users /\ Paid \in SUBSET Users
  BY DEF Pending, Paid
<1>2. /\ IsFiniteSet(Pending) /\ IsFiniteSet(Paid)
      /\ Cardinality(Pending) \in Nat /\ Cardinality(Paid) \in Nat
  BY <1>1, Counts
<1>3. /\ Pending' = IF to = "pending" THEN Pending \cup {u} ELSE Pending \ {u}
      /\ Paid' = IF to = "paid" THEN Paid \cup {u} ELSE Paid \ {u}
  BY DEF Pending, Paid, ShelfInv
<1>4. /\ u \in Pending <=> purchase[u] = "pending"
      /\ u \in Paid <=> purchase[u] = "paid"
  BY DEF Pending, Paid
<1>5. /\ Cardinality(Pending \cup {u}) = IF u \in Pending THEN Cardinality(Pending)
                                         ELSE Cardinality(Pending) + 1
      /\ Cardinality(Pending \ {u}) = IF u \in Pending THEN Cardinality(Pending) - 1
                                      ELSE Cardinality(Pending)
  BY <1>2, FS_AddElement, FS_RemoveElement
<1>6. /\ Cardinality(Paid \cup {u}) = IF u \in Paid THEN Cardinality(Paid)
                                      ELSE Cardinality(Paid) + 1
      /\ Cardinality(Paid \ {u}) = IF u \in Paid THEN Cardinality(Paid) - 1
                                   ELSE Cardinality(Paid)
  BY <1>2, FS_AddElement, FS_RemoveElement
<1> QED
  BY <1>3, <1>4, <1>5, <1>6

LEMMA ShelfInit == Init => ShelfInv
<1> SUFFICES ASSUME Init
             PROVE  ShelfInv
  OBVIOUS
<1>1. Pending = {} /\ Paid = {}
  BY DEF Init, Pending, Paid
<1>2. Cardinality({}) = 0
  BY FS_EmptySet
<1>3. Cardinality(Users) \in Nat
  BY Counts
<1>4. units \in Nat /\ units <= MaxUnits /\ MaxUnits \in Nat
  BY NotificationsAssumption DEF Init
<1>5. Cardinality(Pending) = 0 /\ Cardinality(Paid) = 0
  BY <1>1, <1>2
<1>6. /\ Cardinality(Pending) <= units
      /\ units + Cardinality(Paid) <= MaxUnits + Cardinality(Users)
  BY <1>3, <1>4, <1>5
<1> QED
  BY <1>4, <1>6 DEF Init, LowStockInit, ShelfInv

LEMMA ShelfNext ==
  ASSUME ShelfInv, [Next]_vars
  PROVE  ShelfInv'
<1>0. /\ Cardinality(Pending) \in Nat /\ Cardinality(Paid) \in Nat
      /\ Cardinality(Users) \in Nat /\ MaxUnits \in Nat /\ units \in Nat
  BY Counts, NotificationsAssumption DEF Pending, Paid, ShelfInv
<1>1. ASSUME UNCHANGED shopVars
      PROVE  ShelfInv'
  BY <1>1 DEF shopVars, ShelfInv, Pending, Paid
<1>2. ASSUME NEW u \in Users, Like(u) \/ Unlike(u)
      PROVE  ShelfInv'
  BY <1>2 DEF Like, Unlike, ShelfInv, Pending, Paid
<1>3. ASSUME NEW u \in Users, Order(u)
      PROVE  ShelfInv'
  <2>1. /\ purchase[u] = "none" /\ units > Cardinality(Pending)
        /\ purchase' = [purchase EXCEPT ![u] = "pending"]
        /\ units' = units /\ liked' = liked /\ openEvent' = openEvent
    BY <1>3 DEF Order, Pending
  <2>2. /\ Cardinality(Pending') = Cardinality(Pending) + 1
        /\ Cardinality(Paid') = Cardinality(Paid)
    BY <1>0, <2>1, PurchaseMoves
  <2>3. /\ Cardinality(Pending)' <= units'
        /\ units' + Cardinality(Paid)' <= MaxUnits + Cardinality(Users)
    BY <1>0, <2>1, <2>2 DEF ShelfInv
  <2> QED
    BY <2>1, <2>3 DEF ShelfInv
<1>4. ASSUME NEW u \in Users, Pay(u)
      PROVE  ShelfInv'
  <2>1. /\ purchase[u] = "pending" /\ purchase' = [purchase EXCEPT ![u] = "paid"]
        /\ units' = units - 1 /\ liked' = liked
        /\ openEvent' \in [Products -> BOOLEAN]
    BY <1>4 DEF Pay, DetectAndOpen, ShelfInv
  <2>2. /\ Cardinality(Pending') = Cardinality(Pending) - 1
        /\ Cardinality(Paid') = Cardinality(Paid) + 1
    BY <1>0, <2>1, PurchaseMoves
  <2>3. /\ units' \in Nat
        /\ Cardinality(Pending)' <= units'
        /\ units' + Cardinality(Paid)' <= MaxUnits + Cardinality(Users)
    <3>1. Pending' \in SUBSET Users
      BY DEF Pending
    <3>2. Cardinality(Pending') \in Nat
      BY <3>1, Counts
    <3> QED
      BY <1>0, <2>1, <2>2, <3>2 DEF ShelfInv
  <2> QED
    BY <2>1, <2>3 DEF ShelfInv
<1>5. ASSUME NEW u \in Users, CancelPending(u)
      PROVE  ShelfInv'
  <2>1. /\ purchase[u] = "pending" /\ purchase' = [purchase EXCEPT ![u] = "none"]
        /\ units' = units /\ liked' = liked /\ openEvent' = openEvent
    BY <1>5 DEF CancelPending
  <2>2. /\ Cardinality(Pending') = Cardinality(Pending) - 1
        /\ Cardinality(Paid') = Cardinality(Paid)
    BY <1>0, <2>1, PurchaseMoves
  <2>3. /\ Cardinality(Pending)' <= units'
        /\ units' + Cardinality(Paid)' <= MaxUnits + Cardinality(Users)
    BY <1>0, <2>1, <2>2 DEF ShelfInv
  <2> QED
    BY <2>1, <2>3 DEF ShelfInv
<1>6. ASSUME NEW u \in Users, CancelPaid(u)
      PROVE  ShelfInv'
  <2>1. /\ purchase[u] = "paid" /\ purchase' = [purchase EXCEPT ![u] = "none"]
        /\ units' = units + 1 /\ liked' = liked
        /\ openEvent' \in [Products -> BOOLEAN]
    BY <1>6 DEF CancelPaid, ResolveIfCrossedAbove, ShelfInv
  <2>2. /\ Cardinality(Pending') = Cardinality(Pending)
        /\ Cardinality(Paid') = Cardinality(Paid) - 1
    BY <1>0, <2>1, PurchaseMoves
  <2>3. /\ units' \in Nat
        /\ Cardinality(Pending)' <= units'
        /\ units' + Cardinality(Paid)' <= MaxUnits + Cardinality(Users)
    BY <1>0, <2>1, <2>2 DEF ShelfInv
  <2> QED
    BY <2>1, <2>3 DEF ShelfInv
<1>7. ASSUME Restock
      PROVE  ShelfInv'
  <2>1. /\ units < MaxUnits /\ units' = units + 1
        /\ liked' = liked /\ purchase' = purchase
        /\ openEvent' \in [Products -> BOOLEAN]
    BY <1>7 DEF Restock, ResolveIfCrossedAbove, ShelfInv
  <2>2. Pending' = Pending /\ Paid' = Paid
    BY <2>1 DEF Pending, Paid
  <2>3. Cardinality(Paid) <= Cardinality(Users)
    BY Counts DEF Paid
  <2>4. /\ units' \in Nat
        /\ Cardinality(Pending)' <= units'
        /\ units' + Cardinality(Paid)' <= MaxUnits + Cardinality(Users)
    BY <1>0, <2>1, <2>2, <2>3 DEF ShelfInv
  <2> QED
    BY <2>1, <2>4 DEF ShelfInv
<1>8. ASSUME NEW e \in 1..MaxEvents, Enqueue(e) \/ LoseOutbox(e)
      PROVE  ShelfInv'
  BY <1>8, <1>1 DEF Enqueue, LoseOutbox
<1>9. ASSUME NEW n \in Notes, WorkerStep(n)
      PROVE  ShelfInv'
  BY <1>9, <1>1
     DEF WorkerStep, ReadFails, Mail, MailFails, MarkSent, MarkSentFails, WriteFailure,
         WriteFailureFails, WorkerDies, Untouched
<1>10. CASE UNCHANGED vars
  BY <1>10, <1>1 DEF vars
<1> QED
  BY <1>2, <1>3, <1>4, <1>5, <1>6, <1>7, <1>8, <1>9, <1>10 DEF Next

(***************************************************************************)
(* The jobs: a job has attempts left until it is over, and a notification  *)
(* of an event to come is written nowhere yet.                             *)
(***************************************************************************)
JobsTyped ==
  /\ events \in 0..MaxEvents
  /\ note \in [Notes -> {"none", "pending", "sent", "failed"}]
  /\ outbox \subseteq Notes
  /\ job \in [Notes -> {"none", "waiting", "mailed", "failing", "over"}]
  /\ tries \in [Notes -> 0..Attempts]
  /\ deaths \in [Notes -> 0..(MaxStalledCount + 1)]
  /\ mails \in [Notes -> Nat]
  /\ disturbed \subseteq Notes

Working == {"waiting", "mailed", "failing"}

\* What the worker of a notification that nothing disturbed has done so far.
Undisturbed(n) ==
  /\ job[n] \in {"none", "waiting", "failing"} => mails[n] = 0
  /\ job[n] = "mailed" => mails[n] = 1
  /\ job[n] = "over" => \/ note[n] = "sent" /\ mails[n] = 1
                        \/ note[n] = "failed" /\ mails[n] = 0 /\ tries[n] = Attempts

JobOf(n) ==
  /\ job[n] = "none" => tries[n] = 0 /\ deaths[n] = 0
  /\ job[n] \in Working => tries[n] < Attempts /\ deaths[n] <= MaxStalledCount
  /\ job[n] = "mailed" => mails[n] > 0
  /\ note[n] = "sent" => mails[n] > 0
  /\ n \in outbox => job[n] = "none"
  /\ n[1] > events => n \notin outbox /\ note[n] = "none" /\ job[n] = "none"
  /\ n \notin disturbed => Undisturbed(n)

JobsInv == JobsTyped /\ \A n \in Notes : JobOf(n)

LEMMA JobsInit == Init => JobsInv
<1>1. Attempts \in Nat \ {0} /\ MaxEvents \in Nat /\ MaxStalledCount \in Nat
  BY NotificationsAssumption
<1> QED
  BY <1>1 DEF Init, JobsInv, JobsTyped, JobOf, Working, Undisturbed

\* A worker's step concerns one notification.
LEMMA WorkerKeeps ==
  ASSUME JobsInv, NEW n \in Notes, WorkerStep(n)
  PROVE  JobsInv'
<1>1. /\ events' = events /\ outbox' = outbox
      /\ \A m \in Notes \ {n} :
           /\ note'[m] = note[m] /\ job'[m] = job[m] /\ tries'[m] = tries[m]
           /\ deaths'[m] = deaths[m] /\ mails'[m] = mails[m]
           /\ m \in disturbed' <=> m \in disturbed
  BY DEF WorkerStep, ReadFails, Mail, MailFails, MarkSent, MarkSentFails, WriteFailure,
         WriteFailureFails, WorkerDies, AttemptIsOver, Disturbs, Untouched, JobsInv, JobsTyped
<1>2. /\ job[n] \in Working /\ n \notin outbox /\ ~(n[1] > events)
      /\ tries[n] \in Nat /\ Attempts \in Nat /\ tries[n] < Attempts /\ mails[n] \in Nat
      /\ MaxStalledCount \in Nat /\ deaths[n] \in Nat /\ deaths[n] <= MaxStalledCount
  BY NotificationsAssumption
     DEF WorkerStep, ReadFails, Mail, MailFails, MarkSent, MarkSentFails, WriteFailure,
         WriteFailureFails, WorkerDies, JobsInv, JobsTyped, JobOf, Working
<1>3. JobsTyped' /\ JobOf(n)'
  <2>1. CASE ReadFails(n)
    BY <2>1, <1>2 DEF ReadFails, AttemptIsOver, Disturbs, Untouched, JobsInv, JobsTyped, JobOf,
                      Working, Undisturbed
  <2>2. CASE Mail(n)
    BY <2>2, <1>2 DEF Mail, Untouched, JobsInv, JobsTyped, JobOf, Working, Undisturbed
  <2>3. CASE MailFails(n)
    BY <2>3, <1>2 DEF MailFails, Disturbs, Untouched, JobsInv, JobsTyped, JobOf, Working,
                      Undisturbed
  <2>4. CASE MarkSent(n)
    BY <2>4, <1>2 DEF MarkSent, Untouched, JobsInv, JobsTyped, JobOf, Working, Undisturbed
  <2>5. CASE MarkSentFails(n)
    <3>1. PICK written \in {note[n], "sent"} :
            /\ job[n] = "mailed" /\ job' = [job EXCEPT ![n] = "failing"]
            /\ note' = [note EXCEPT ![n] = written] /\ disturbed' = disturbed \cup {n}
            /\ UNCHANGED <<events, outbox, tries, deaths, mails>>
      BY <2>5 DEF MarkSentFails, Disturbs, Untouched
    <3>2. written \in {"none", "pending", "sent", "failed"} /\ note'[n] = written
      BY <3>1 DEF JobsInv, JobsTyped
    <3>3. written = "sent" => mails[n] > 0
      BY <3>1 DEF JobsInv, JobOf
    <3>4. JobsTyped'
      BY <3>1, <3>2 DEF JobsInv, JobsTyped
    <3>5. /\ job'[n] = "failing" /\ "failing" \in Working /\ n \in disturbed'
          /\ tries'[n] = tries[n] /\ deaths'[n] = deaths[n] /\ mails'[n] = mails[n]
          /\ events' = events /\ outbox' = outbox
      BY <3>1 DEF JobsInv, JobsTyped, Working
    <3> QED
      BY <1>2, <3>1, <3>2, <3>3, <3>4, <3>5 DEF JobsInv, JobOf
  <2>6. CASE WriteFailure(n)
    <3>1. /\ job[n] = "failing" /\ note' = [note EXCEPT ![n] = "failed"]
          /\ tries' = [tries EXCEPT ![n] = @ + 1]
          /\ job' = [job EXCEPT ![n] = IF tries[n] + 1 < Attempts THEN "waiting" ELSE "over"]
          /\ UNCHANGED <<events, outbox, deaths, mails, disturbed>>
      BY <2>6 DEF WriteFailure, AttemptIsOver, Untouched
    <3>2. JobsTyped'
      BY <1>2, <3>1 DEF JobsInv, JobsTyped
    <3>3. /\ note'[n] = "failed" /\ tries'[n] = tries[n] + 1 /\ deaths'[n] = deaths[n]
          /\ job'[n] = IF tries[n] + 1 < Attempts THEN "waiting" ELSE "over"
          /\ mails'[n] = mails[n] /\ events' = events /\ outbox' = outbox
      BY <3>1 DEF JobsInv, JobsTyped
    <3>4. n \notin disturbed' => mails[n] = 0
      BY <3>1 DEF JobsInv, JobOf, Undisturbed
    <3> QED
      BY <1>2, <3>2, <3>3, <3>4 DEF JobOf, Working, Undisturbed
  <2>7. CASE WriteFailureFails(n)
    BY <2>7, <1>2 DEF WriteFailureFails, AttemptIsOver, Disturbs, Untouched, JobsInv, JobsTyped,
                      JobOf, Working, Undisturbed
  <2>8. CASE WorkerDies(n)
    BY <2>8, <1>2 DEF WorkerDies, Disturbs, Untouched, JobsInv, JobsTyped, JobOf, Working,
                      Undisturbed
  <2> QED
    BY <2>1, <2>2, <2>3, <2>4, <2>5, <2>6, <2>7, <2>8 DEF WorkerStep
<1>4. \A m \in Notes : JobOf(m)'
  BY <1>1, <1>3 DEF JobsInv, JobOf, Undisturbed
<1> QED
  BY <1>3, <1>4 DEF JobsInv

LEMMA QueueKeeps ==
  ASSUME JobsInv, NEW e \in 1..MaxEvents, Enqueue(e) \/ LoseOutbox(e)
  PROVE  JobsInv'
<1>1. /\ events' = events /\ note' = note /\ tries' = tries /\ deaths' = deaths
      /\ mails' = mails /\ disturbed' = disturbed /\ outbox' = outbox \ OutboxOf(e)
      /\ job' = job \/ job' = [n \in Notes |-> IF n \in OutboxOf(e) THEN "waiting" ELSE job[n]]
  BY DEF Enqueue, LoseOutbox, jobVars
<1>2. OutboxOf(e) \subseteq outbox /\ Attempts \in Nat \ {0} /\ MaxStalledCount \in Nat
  BY NotificationsAssumption DEF OutboxOf
<1>3. JobsTyped'
  BY <1>1 DEF JobsInv, JobsTyped
<1>4. \A n \in Notes : job'[n] = job[n] \/ (n \in OutboxOf(e) /\ job'[n] = "waiting")
  BY <1>1
<1>5. \A n \in Notes : JobOf(n)'
  BY <1>1, <1>2, <1>4 DEF JobsInv, JobOf, Working, Undisturbed
<1> QED
  BY <1>3, <1>5 DEF JobsInv

\* A sale writes the notifications of the event it opens, and of no other.
LEMMA PayWrites ==
  ASSUME ShelfInv, JobsInv, NEW u \in Users, Pay(u)
  PROVE  /\ UNCHANGED jobVars
         /\ \/ events' = events /\ note' = note /\ outbox' = outbox
            \/ /\ events' = events + 1 /\ events' <= MaxEvents
               /\ outbox' = outbox \cup {<<events + 1, v>> : v \in Recipients(purchase')}
               /\ note' = [n \in Notes |->
                    IF n \in {<<events + 1, v>> : v \in Recipients(purchase')}
                    THEN "pending" ELSE note[n]]
<1>1. note = [n \in Notes |-> note[n]]
  BY DEF JobsInv, JobsTyped
<1>2. CASE openEvent' = openEvent
  BY <1>1, <1>2 DEF Pay
<1>3. CASE openEvent' # openEvent
  BY <1>3 DEF Pay
<1> QED
  BY <1>2, <1>3 DEF Pay

LEMMA PayKeeps ==
  ASSUME ShelfInv, JobsInv, NEW u \in Users, Pay(u)
  PROVE  JobsInv'
<1>1. /\ job' = job /\ tries' = tries /\ deaths' = deaths /\ mails' = mails
      /\ disturbed' = disturbed
  BY PayWrites DEF jobVars
<1>2. CASE events' = events /\ note' = note /\ outbox' = outbox
  BY <1>1, <1>2 DEF JobsInv, JobsTyped, JobOf, Undisturbed
<1>3. CASE events' = events + 1
  <2> DEFINE opened == {<<events + 1, v>> : v \in Recipients(purchase')}
  <2>1. /\ events \in Nat /\ MaxEvents \in Nat /\ events + 1 <= MaxEvents
        /\ outbox' = outbox \cup opened
        /\ note' = [n \in Notes |-> IF n \in opened THEN "pending" ELSE note[n]]
    BY <1>3, PayWrites, NotificationsAssumption DEF JobsInv, JobsTyped
  <2>2. Recipients(purchase') \subseteq Users
    BY DEF Recipients, ShelfInv
  <2>3. opened \subseteq Notes
    BY <2>1, <2>2 DEF Notes
  <2>4. \A n \in opened : n[1] = events + 1
    OBVIOUS
  <2>5. \A n \in Notes : n[1] \in Nat
    BY <2>1 DEF Notes
  <2>6. \A n \in opened : job[n] = "none"
    BY <2>1, <2>3, <2>4 DEF JobsInv, JobOf
  <2> HIDE DEF opened
  <2>7. JobsTyped'
    BY <1>1, <1>3, <2>1, <2>3 DEF JobsInv, JobsTyped
  <2>8. \A n \in Notes : JobOf(n)'
    BY <1>1, <1>3, <2>1, <2>4, <2>5, <2>6 DEF JobsInv, JobOf, Undisturbed
  <2> QED
    BY <2>7, <2>8 DEF JobsInv
<1> QED
  BY <1>2, <1>3, PayWrites

LEMMA JobsNext ==
  ASSUME ShelfInv, JobsInv, [Next]_vars
  PROVE  JobsInv'
<1>1. ASSUME UNCHANGED <<events, note, outbox, jobVars>>
      PROVE  JobsInv'
  BY <1>1 DEF jobVars, JobsInv, JobsTyped, JobOf, Undisturbed
<1>2. ASSUME NEW u \in Users,
             Like(u) \/ Unlike(u) \/ Order(u) \/ CancelPending(u) \/ CancelPaid(u)
      PROVE  JobsInv'
  BY <1>2, <1>1 DEF Like, Unlike, Order, CancelPending, CancelPaid
<1>3. CASE Restock \/ UNCHANGED vars
  BY <1>3, <1>1 DEF Restock, vars
<1> QED
  BY <1>2, <1>3, PayKeeps, QueueKeeps, WorkerKeeps DEF Next

NotificationsInv == ShelfInv /\ JobsInv

LEMMA NotificationsInductive == Spec => []NotificationsInv
<1>1. Init => NotificationsInv
  BY ShelfInit, JobsInit DEF NotificationsInv
<1>2. NotificationsInv /\ [Next]_vars => NotificationsInv'
  BY ShelfNext, JobsNext DEF NotificationsInv
<1> QED
  BY <1>1, <1>2, PTL DEF Spec

(***************************************************************************)
(* What it gives.                                                          *)
(***************************************************************************)

\* Every reachable state is well typed; in particular no sale takes a unit
\* that is not on the shelf.
THEOREM NotificationsAreTyped == Spec => []TypeOK
<1>1. ASSUME NotificationsInv
      PROVE  TypeOK
  <2>1. /\ Cardinality(Paid) \in Nat /\ Cardinality(Users) \in Nat
        /\ MaxUnits \in Nat /\ units \in Nat
    BY <1>1, Counts, NotificationsAssumption DEF Paid, NotificationsInv, ShelfInv
  <2>2. units + Cardinality(Paid) <= MaxUnits + Cardinality(Users)
    BY <1>1 DEF NotificationsInv, ShelfInv
  <2>3. units \in 0..(MaxUnits + Cardinality(Users))
    BY <2>1, <2>2
  <2> QED
    BY <1>1, <2>3 DEF NotificationsInv, ShelfInv, JobsInv, JobsTyped, TypeOK, LowStockTypeOK
<1> QED
  BY <1>1, NotificationsInductive, PTL

\* A row that says sent is never wrong; and where no worker died and no
\* statement or answer was lost, a job that is over mailed once and says so,
\* or failed as often as it may and never mailed.
THEOREM RowsTellOutcomes == Spec => []RowTellsOutcome
<1>1. NotificationsInv => RowTellsOutcome
  BY DEF NotificationsInv, JobsInv, JobOf, Undisturbed, RowTellsOutcome
<1> QED
  BY <1>1, NotificationsInductive, PTL
=============================================================================
