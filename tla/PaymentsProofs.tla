--------------------------- MODULE PaymentsProofs ---------------------------
(***************************************************************************)
(* Payments, for any number of calls of createPaymentIntent and of         *)
(* sessions of the payment link.                                           *)
(***************************************************************************)
EXTENDS Payments, FiniteSetTheorems, TLAPS

(***************************************************************************)
(* The invariant. A row exists for what was handed out, and what was       *)
(* canceled never gets one; that is why a charged intent is a usable one   *)
(* and why the row a webhook settles is there.                             *)
(***************************************************************************)
RowsAreUnique ==
  \A c, d \in Charges : row[c] = row[d] /\ row[c] # "none" => c = d

RowsFollowCalls ==
  /\ \A x \in Sessions : row[x] # "pending"
  /\ \A k \in Calls : row[k] # "none" => call[k] = "done"
  /\ \A k \in secrets : row[k] # "none"
  /\ \A k \in canceled : row[k] = "none" /\ call[k] \in {"canceling", "done", "error"}

ChargesAreReal ==
  /\ \A c \in Charges : row[c] = "succeeded" \/ event[c] # "none" => c \in charged
  /\ charged \cap Calls \subseteq secrets

StatusMatchesRows ==
  /\ status = "pending" => \A c \in Charges : row[c] # "succeeded"
  /\ status = "paid" => \E c \in Charges : row[c] = "succeeded"

SecretsAreUsable ==
  (\A c \in Charges : row[c] # "succeeded") => \A k \in secrets : row[k] = "pending"

HandledIsKnown ==
  \A c \in Charges : event[c] \in {"committed", "stamped"} =>
    c \in warned \/ \E d \in Charges : row[d] = "succeeded"

PaymentsInv ==
  /\ TypeOK
  /\ RowsAreUnique
  /\ RowsFollowCalls
  /\ ChargesAreReal
  /\ StatusMatchesRows
  /\ SecretsAreUsable
  /\ HandledIsKnown

LEMMA PaymentsInit == Init => PaymentsInv
BY DEF Init, PaymentsInv, TypeOK, RowsAreUnique, RowsFollowCalls, ChargesAreReal,
       StatusMatchesRows, SecretsAreUsable, HandledIsKnown, Charges, CallStates,
       EventStates

\* A step that moves a call and hands out nothing but what has a pending row.
LEMMA CallMovesKeep ==
  ASSUME PaymentsInv, NEW k \in Calls, NEW to \in CallStates,
         call[k] \in {"canceling", "done", "error"} => to \in {"done", "error"},
         row[k] # "none" => to = "done",
         call' = [call EXCEPT ![k] = to],
         secrets' \in {secrets, secrets \cup PendingRows},
         UNCHANGED <<status, row, charged, canceled, eventVars>>
  PROVE  PaymentsInv'
<1>1. /\ status' = status /\ row' = row /\ charged' = charged
      /\ canceled' = canceled /\ event' = event /\ warned' = warned
  BY DEF eventVars
<1>2. PendingRows \subseteq Calls
  BY DEF PaymentsInv, RowsFollowCalls, PendingRows, Charges
<1>3. TypeOK'
  BY <1>1, <1>2 DEF PaymentsInv, TypeOK
<1>4. RowsFollowCalls'
  <2>1. \A c \in secrets' : row'[c] # "none"
    BY <1>1 DEF PaymentsInv, RowsFollowCalls, PendingRows
  <2>2. k \in canceled => to \in {"canceling", "done", "error"}
    BY DEF PaymentsInv, RowsFollowCalls, CallStates
  <2>3. \A d \in Calls : call'[d] = IF d = k THEN to ELSE call[d]
    BY DEF PaymentsInv, TypeOK
  <2>4. \A d \in Calls : row'[d] # "none" => call'[d] = "done"
    BY <1>1, <2>3 DEF PaymentsInv, RowsFollowCalls
  <2>5. \A d \in canceled' : row'[d] = "none" /\ call'[d] \in {"canceling", "done", "error"}
    BY <1>1, <2>2, <2>3 DEF PaymentsInv, TypeOK, RowsFollowCalls
  <2> QED
    BY <1>1, <2>1, <2>4, <2>5 DEF PaymentsInv, RowsFollowCalls
<1>5. ChargesAreReal'
  BY <1>1 DEF PaymentsInv, ChargesAreReal
<1>6. SecretsAreUsable'
  BY <1>1 DEF PaymentsInv, SecretsAreUsable, PendingRows
<1> QED
  BY <1>1, <1>3, <1>4, <1>5, <1>6
     DEF PaymentsInv, RowsAreUnique, StatusMatchesRows, HandledIsKnown

LEMMA InsertRowKeeps ==
  ASSUME PaymentsInv, NEW k \in Calls, InsertRow(k)
  PROVE  PaymentsInv'
<1>1. /\ status' = status /\ charged' = charged /\ canceled' = canceled
      /\ event' = event /\ warned' = warned /\ secrets' = secrets \cup {k}
      /\ row' = [row EXCEPT ![k] = "pending"] /\ call' = [call EXCEPT ![k] = "done"]
      /\ call[k] = "created" /\ PendingRows = {}
  BY DEF InsertRow, MoveCall, eventVars
<1>2. k \in Charges /\ row \in [Charges -> {"none", "pending", "succeeded"}]
      /\ call \in [Calls -> CallStates]
  BY DEF Charges, PaymentsInv, TypeOK
<1>3. k \notin Sessions /\ row[k] = "none" /\ k \notin canceled
  BY <1>1, PaymentsAssumption DEF PaymentsInv, RowsFollowCalls
<1>4. \A c \in Charges : row[c] # "pending"
  BY <1>1 DEF PendingRows
<1>5. TypeOK'
  BY <1>1, <1>2 DEF PaymentsInv, TypeOK, CallStates
<1>6. RowsAreUnique'
  BY <1>1, <1>2, <1>4 DEF PaymentsInv, RowsAreUnique
<1>7. RowsFollowCalls'
  BY <1>1, <1>2, <1>3 DEF PaymentsInv, RowsFollowCalls, Charges, TypeOK
<1>8. ChargesAreReal'
  BY <1>1, <1>2 DEF PaymentsInv, ChargesAreReal
<1>9. StatusMatchesRows' /\ HandledIsKnown'
  BY <1>1, <1>2, <1>3 DEF PaymentsInv, StatusMatchesRows, HandledIsKnown
<1>10. SecretsAreUsable'
  BY <1>1, <1>2, <1>3, <1>4 DEF PaymentsInv, SecretsAreUsable, TypeOK, Charges
<1> QED
  BY <1>5, <1>6, <1>7, <1>8, <1>9, <1>10 DEF PaymentsInv

LEMMA CancelLoserKeeps ==
  ASSUME PaymentsInv, NEW k \in Calls, CancelLoser(k)
  PROVE  PaymentsInv'
<1>1. /\ status' = status /\ charged' = charged /\ row' = row
      /\ event' = event /\ warned' = warned /\ secrets' = secrets
      /\ call' = [call EXCEPT ![k] = "canceling"] /\ call[k] = "lost"
      /\ canceled' \in {canceled, canceled \cup {k}}
  BY DEF CancelLoser, MoveCall, eventVars
<1>2. row[k] = "none" /\ call \in [Calls -> CallStates] /\ canceled \subseteq Calls
  BY <1>1 DEF PaymentsInv, RowsFollowCalls, TypeOK
<1>3. TypeOK'
  BY <1>1, <1>2 DEF PaymentsInv, TypeOK, CallStates
<1>4. RowsFollowCalls'
  BY <1>1, <1>2 DEF PaymentsInv, RowsFollowCalls
<1> QED
  BY <1>1, <1>3, <1>4 DEF PaymentsInv, RowsAreUnique, ChargesAreReal, StatusMatchesRows,
                          SecretsAreUsable, HandledIsKnown

LEMMA CallStepKeeps ==
  ASSUME PaymentsInv, NEW k \in Calls, CallStep(k)
  PROVE  PaymentsInv'
<1>1. row[k] # "none" => call[k] = "done"
  BY DEF PaymentsInv, RowsFollowCalls
<1>2. CASE Check(k)
  BY <1>1, <1>2, CallMovesKeep DEF Check, MoveCall, CallStates
<1>3. CASE ReuseExisting(k)
  BY <1>1, <1>3, CallMovesKeep DEF ReuseExisting, MoveCall, CallStates
<1>4. CASE CreateIntent(k)
  BY <1>1, <1>4, CallMovesKeep DEF CreateIntent, MoveCall, CallStates
<1>5. CASE LoseClaim(k)
  BY <1>1, <1>5, CallMovesKeep DEF LoseClaim, MoveCall, CallStates
<1>6. CASE ReuseWinner(k)
  BY <1>1, <1>6, CallMovesKeep DEF ReuseWinner, MoveCall, CallStates
<1>7. CASE MissWinner(k)
  BY <1>1, <1>7, CallMovesKeep DEF MissWinner, MoveCall, CallStates
<1> QED
  BY <1>2, <1>3, <1>4, <1>5, <1>6, <1>7, InsertRowKeeps, CancelLoserKeeps DEF CallStep

\* Stripe charges what is paid, and the order is cancelled.
LEMMA BuyerKeeps ==
  ASSUME PaymentsInv,
         (\E k \in Calls : PayIntent(k)) \/ (\E x \in Sessions : PaySession(x)) \/ CancelOrder
  PROVE  PaymentsInv'
<1>1. /\ row' = row /\ call' = call /\ canceled' = canceled /\ secrets' = secrets
      /\ event' = event /\ warned' = warned
      /\ status' \in {status, "cancelled"}
      /\ charged \subseteq charged'
  BY DEF PayIntent, PaySession, CancelOrder, callVars, eventVars
<1>2. charged' \subseteq Charges /\ charged' \cap Calls \subseteq secrets
  BY PaymentsAssumption
     DEF PaymentsInv, TypeOK, ChargesAreReal, PayIntent, PaySession, CancelOrder, Charges
<1>3. TypeOK'
  BY <1>1, <1>2 DEF PaymentsInv, TypeOK
<1>4. ChargesAreReal'
  BY <1>1, <1>2 DEF PaymentsInv, ChargesAreReal
<1> QED
  BY <1>1, <1>3, <1>4 DEF PaymentsInv, RowsAreUnique, RowsFollowCalls, StatusMatchesRows,
                          SecretsAreUsable, HandledIsKnown

\* The claim: the payment of the order becomes its one succeeded row.
LEMMA SettleKeeps ==
  ASSUME PaymentsInv, NEW c \in Charges, Settle(c)
  PROVE  PaymentsInv'
<1>1. /\ charged' = charged /\ call' = call /\ canceled' = canceled /\ secrets' = secrets
      /\ warned' = warned /\ status = "pending" /\ status' = "paid"
      /\ event[c] = "running" /\ event' = [event EXCEPT ![c] = "committed"]
      /\ row' = [row EXCEPT ![c] = "succeeded"]
  BY DEF Settle, MoveEvent, callVars
<1>2. /\ row \in [Charges -> {"none", "pending", "succeeded"}]
      /\ event \in [Charges -> EventStates]
  BY DEF PaymentsInv, TypeOK
<1>3. \A d \in Charges : row[d] # "succeeded"
  BY <1>1 DEF PaymentsInv, StatusMatchesRows
<1>4. c \in charged
  BY <1>1 DEF PaymentsInv, ChargesAreReal
<1>5. c \in Calls => c \in secrets /\ row[c] # "none" /\ c \notin canceled
  BY <1>4 DEF PaymentsInv, ChargesAreReal, RowsFollowCalls
<1>6. TypeOK'
  BY <1>1, <1>2 DEF PaymentsInv, TypeOK, EventStates
<1>7. RowsAreUnique'
  BY <1>1, <1>2, <1>3 DEF PaymentsInv, RowsAreUnique
<1>8. RowsFollowCalls'
  BY <1>1, <1>2, <1>5 DEF PaymentsInv, RowsFollowCalls, Charges, TypeOK
<1>9. ChargesAreReal'
  BY <1>1, <1>2, <1>4 DEF PaymentsInv, ChargesAreReal
<1>10. row'[c] = "succeeded"
  BY <1>1, <1>2
<1> QED
  BY <1>1, <1>6, <1>7, <1>8, <1>9, <1>10
     DEF PaymentsInv, StatusMatchesRows, SecretsAreUsable, HandledIsKnown

\* The other steps of a handler move its event and at most log.
LEMMA HandlerKeeps ==
  ASSUME PaymentsInv, NEW c \in Charges,
         Receive(c) \/ Ignore(c) \/ Stamp(c) \/ Abandon(c)
  PROVE  PaymentsInv'
<1>1. /\ status' = status /\ row' = row /\ charged' = charged
      /\ call' = call /\ canceled' = canceled /\ secrets' = secrets
      /\ warned \subseteq warned' /\ warned' \subseteq warned \cup {c}
  BY DEF Receive, Ignore, Stamp, Abandon, callVars
<1>2. PICK to \in EventStates : event' = [event EXCEPT ![c] = to]
  BY DEF Receive, Ignore, Stamp, Abandon, MoveEvent, EventStates
<1>3. event \in [Charges -> EventStates]
  BY DEF PaymentsInv, TypeOK
<1>4. c \in charged
  BY DEF Receive, Ignore, Stamp, Abandon, MoveEvent, PaymentsInv, ChargesAreReal
<1>5. event'[c] \in {"committed", "stamped"} =>
        c \in warned' \/ \E d \in Charges : row[d] = "succeeded"
  <2>1. CASE Receive(c) \/ Abandon(c)
    BY <2>1, <1>3 DEF Receive, Abandon, MoveEvent
  <2>2. CASE Ignore(c)
    BY <2>2 DEF Ignore, PaymentsInv, TypeOK, StatusMatchesRows
  <2>3. CASE Stamp(c)
    BY <2>3, <1>1 DEF Stamp, MoveEvent, PaymentsInv, HandledIsKnown
  <2> QED
    BY <2>1, <2>2, <2>3
<1>6. TypeOK'
  BY <1>1, <1>2, <1>3 DEF PaymentsInv, TypeOK
<1>7. ChargesAreReal'
  BY <1>1, <1>2, <1>3, <1>4 DEF PaymentsInv, ChargesAreReal
<1>8. HandledIsKnown'
  BY <1>1, <1>2, <1>3, <1>5 DEF PaymentsInv, HandledIsKnown
<1> QED
  BY <1>1, <1>6, <1>7, <1>8
     DEF PaymentsInv, RowsAreUnique, RowsFollowCalls, StatusMatchesRows, SecretsAreUsable

LEMMA PaymentsInductive == Spec => []PaymentsInv
<1>1. PaymentsInv /\ [Next]_vars => PaymentsInv'
  <2> SUFFICES ASSUME PaymentsInv, [Next]_vars
               PROVE  PaymentsInv'
    OBVIOUS
  <2>1. CASE UNCHANGED vars
    BY <2>1 DEF vars, callVars, eventVars, PaymentsInv, TypeOK, RowsAreUnique, RowsFollowCalls,
                ChargesAreReal, StatusMatchesRows, SecretsAreUsable, HandledIsKnown
  <2>2. CASE Next
    BY <2>2, CallStepKeeps, BuyerKeeps, SettleKeeps, HandlerKeeps DEF Next, HandlerStep
  <2> QED
    BY <2>1, <2>2
<1> QED
  BY PaymentsInit, <1>1, PTL DEF Spec

(***************************************************************************)
(* What it gives.                                                          *)
(***************************************************************************)

\* Every reachable state of the payments of an order is well typed.
THEOREM PaymentsAreTyped == Spec => []TypeOK
<1>1. PaymentsInv => TypeOK
  BY DEF PaymentsInv
<1> QED
  BY <1>1, PaymentsInductive, PTL

LEMMA AtMostOne ==
  ASSUME NEW S, \A x, y \in S : x = y
  PROVE  Cardinality(S) <= 1
<1>1. CASE S = {}
  BY <1>1, FS_EmptySet
<1>2. CASE S # {}
  <2>1. PICK x \in S : S = {x}
    BY <1>2
  <2> QED
    BY <2>1, FS_Singleton
<1> QED
  BY <1>1, <1>2

\* However many calls race and whatever is charged, an order has at most one
\* pending and one succeeded payment (the partial unique indexes of payments).
THEOREM RowsStayUnique == Spec => []OneRowOfEachKind
<1>1. PaymentsInv => OneRowOfEachKind
  <2> SUFFICES ASSUME PaymentsInv
               PROVE  OneRowOfEachKind
    OBVIOUS
  <2>1. \A x, y \in PendingRows : x = y
    BY DEF PaymentsInv, RowsAreUnique, PendingRows
  <2>2. \A x, y \in SucceededRows : x = y
    BY DEF PaymentsInv, RowsAreUnique, SucceededRows
  <2> QED
    BY <2>1, <2>2, AtMostOne DEF OneRowOfEachKind
<1> QED
  BY <1>1, PaymentsInductive, PTL

\* An order is paid exactly with the row of a payment Stripe charged.
THEOREM PaidMeansCharged == Spec => []PaidByACharge
<1>1. PaymentsInv => PaidByACharge
  BY DEF PaymentsInv, PaidByACharge, ChargesAreReal, StatusMatchesRows, SucceededRows
<1> QED
  BY <1>1, PaymentsInductive, PTL

\* While no payment of an order succeeded, all calls hand out the one intent
\* that can be paid. A call that checked the order before it was paid may hand
\* out another later.
THEOREM IntentsAreUsable == Spec => []OneUsableIntent
<1>1. PaymentsInv => OneUsableIntent
  BY DEF PaymentsInv, TypeOK, OneUsableIntent, SecretsAreUsable, RowsFollowCalls, SucceededRows,
         PendingRows, Charges
<1> QED
  BY <1>1, PaymentsInductive, PTL

\* A charge handled to the end is in the log, or its order has a payment that
\* succeeded: its own, or another charge's, which then passes it over.
THEOREM ChargesAreKept == Spec => []NoChargeIsLost
<1>1. PaymentsInv => NoChargeIsLost
  BY DEF PaymentsInv, NoChargeIsLost, HandledIsKnown, SucceededRows
<1> QED
  BY <1>1, PaymentsInductive, PTL
=============================================================================
