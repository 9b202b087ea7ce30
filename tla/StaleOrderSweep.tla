-------------------------- MODULE StaleOrderSweep --------------------------
(***************************************************************************)
(* The cron job that cancels abandoned orders, next to everything else     *)
(* that happens to orders. Every instance of the server runs its own job   *)
(* (@nestjs/schedule, no coordination); waitForCompletion keeps the runs   *)
(* of one instance apart. A run reads the stale pending orders, then       *)
(* releases them one transaction at a time, so each order may have been    *)
(* paid or cancelled, by a person or by another instance, since it was     *)
(* read.                                                                   *)
(***************************************************************************)
EXTENDS OrdersProps

CONSTANT Instances  \* servers running the job

VARIABLES
  old,   \* orders whose created_at is before the cutoff
  todo   \* staleOrders of each instance's run, those not handled yet

sweepVars == <<old, todo>>
allVars   == <<vars, sweepVars>>

SweepInit == Init /\ old = {} /\ todo = [i \in Instances |-> {}]

\* Time passes over a pending order. The age of the others is never read.
GrowOld(o) ==
  /\ status[o] = "pending" /\ o \notin old
  /\ old' = old \cup {o}
  /\ UNCHANGED <<vars, todo>>

\* Mutant of StaleOrders: the cutoff compared the wrong way round.
YoungOrders == {o \in OrderIds \ old : status[o] = "pending"}

\* The query of sweep(). The order of its rows is unspecified.
StaleOrders == {o \in old : status[o] = "pending"}

SweepStart(i) ==
  /\ todo[i] = {}
  /\ StaleOrders # {}
  /\ todo' = [todo EXCEPT ![i] = StaleOrders]
  /\ UNCHANGED <<vars, old>>

\* Mutant of SweepReleases: the promo code is forgotten.
SweepReleasesStockOnly(i, o) ==
  /\ o \in todo[i]
  /\ status[o] = "pending"
  /\ Release(items[o])
  /\ SetStatus(o, "cancelled")
  /\ todo' = [todo EXCEPT ![i] = @ \ {o}]
  /\ UNCHANGED <<old, items, promoCodeId, openEvent, paymentVars, linkVars, promoVars>>

\* releaseStalePendingOrder of the next order of the run: the UPDATE claims
\* it and the release commits, ...
SweepReleases(i, o) ==
  /\ o \in todo[i]
  /\ status[o] = "pending"
  /\ ReleasePending(o)
  /\ todo' = [todo EXCEPT ![i] = @ \ {o}]
  /\ UNCHANGED old

\* ... or the UPDATE affects no row, ...
SweepSkips(i, o) ==
  /\ o \in todo[i]
  /\ status[o] # "pending"
  /\ todo' = [todo EXCEPT ![i] = @ \ {o}]
  /\ UNCHANGED <<vars, old>>

\* ... or the release breaks the CHECK of the skus table: the transaction is
\* rolled back and its exception leaves sweep() with the run unfinished.
SweepThrows(i, o) ==
  /\ o \in todo[i]
  /\ status[o] = "pending"
  /\ ~CanRelease(items[o])
  /\ todo' = [todo EXCEPT ![i] = {}]
  /\ UNCHANGED <<vars, old>>

SweepStep(i) == \E o \in OrderIds :
  SweepReleases(i, o) \/ SweepSkips(i, o) \/ SweepThrows(i, o)

SweepNext ==
  \/ Next /\ UNCHANGED sweepVars
  \/ \E o \in OrderIds : GrowOld(o)
  \/ \E i \in Instances : SweepStart(i) \/ SweepStep(i)

SweepSafety == SweepInit /\ [][SweepNext]_allVars

\* The clock does not stop, the cron fires every five minutes, and a run
\* goes on until it is done or throws. Nobody is obliged to pay, cancel, or
\* do anything else to an order.
SweepFairness ==
  /\ \A o \in OrderIds : WF_allVars(GrowOld(o))
  /\ \A i \in Instances : WF_allVars(SweepStart(i)) /\ WF_allVars(SweepStep(i))

SweepSpec == SweepSafety /\ SweepFairness

-----------------------------------------------------------------------------

\* An order nobody pays or cancels does not hold its units and its promo
\* code for ever: every pending order eventually leaves pending, unless a
\* stale order whose release throws stands in the way of the runs
\* (stale-order-sweep.service.ts:31-36). Among cart orders there is none:
\* EveryUpdateIsChecked.
HealthySweepReleases ==
  \A o \in OrderIds :
    (status[o] = "pending") ~>
      (status[o] # "pending" \/ \E p \in StaleOrders : ~CanRelease(items[p]))

\* The other handlers see the sweep as a buyer who cancels: the store with
\* the sweep behaves like the store without it.
BehavesLikeOrders == Spec
=============================================================================
