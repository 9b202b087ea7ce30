--------------------------- MODULE SessionsProofs ---------------------------
(***************************************************************************)
(* What Sessions guarantees for any number of users, tokens and requests.  *)
(***************************************************************************)
EXTENDS Sessions, TLAPS

\* The steps a call takes, one name for each.
LEMMA CallSteps ==
  ASSUME Next
  PROVE  \/ \E c \in Calls :
              \/ \E u \in Users, pw \in Passwords : SignUp(c, u, pw) \/ SignIn(c, u, pw)
              \/ \E t \in RefreshTokens : Refresh(c, t) \/ SignOut(c, t)
              \/ \E u \in Users : ForgotPassword(c, u)
              \/ \E k \in ResetTokens, pw \in Passwords : ResetPassword(c, k, pw)
              \/ CreateUser(c) \/ IssueSession(c)
              \/ Rotate(c) \/ Revoke(c) \/ RevokedMeanwhile(c)
              \/ Invalidate(c) \/ InsertResetToken(c) \/ SendResetMail(c)
              \/ Consume(c) \/ CommitReset(c)
         \/ \E t \in RefreshTokens : ExpireRefresh(t)
         \/ \E k \in ResetTokens : ExpireReset(k)
         \/ Restart
BY DEF Next, Request, Continue

\* The type invariant holds initially.
LEMMA TypeInit == Init => TypeOK
BY SessionsAssumption DEF Init, TypeOK, CallRecords, CallCarries, RefreshRows,
   ResetRows, NoCall, States

(***************************************************************************)
(* Types.                                                                  *)
(***************************************************************************)

\* Rows are never taken away.
RowsPersist ==
  /\ \A t \in RefreshTokens : refresh[t] # NoRefresh => refresh'[t] # NoRefresh
  /\ \A k \in ResetTokens : reset[k] # NoReset => reset'[k] # NoReset

\* What a call carries stays good while it waits.
LEMMA OthersStillCarry ==
  ASSUME TypeOK, RowsPersist, NEW c \in Calls, NEW rec \in CallRecords,
         call' = [call EXCEPT ![c] = rec], CallCarries(c)'
  PROVE  /\ call' \in [Calls -> CallRecords]
         /\ \A d \in Calls : CallCarries(d)'
<1>1. call' \in [Calls -> CallRecords]
  BY DEF TypeOK
<1>2. ASSUME NEW d \in Calls PROVE CallCarries(d)'
  <2>1. CASE d = c
    BY <2>1
  <2>2. CASE d # c
    <3>1. call'[d] = call[d]
      BY <2>2 DEF TypeOK
    <3> QED
      BY <3>1 DEF TypeOK, CallCarries, RowsPersist
  <2> QED
    BY <2>1, <2>2
<1> QED
  BY <1>1, <1>2

\* The records a call can become.
LEMMA CallShapes ==
  /\ \A s \in States : NoCall(s) \in CallRecords
  /\ \A u \in Users, d \in Calls, n \in Nat :
       [NoCall("issue") EXCEPT !.user = u, !.chain = d, !.gen = n] \in CallRecords
  /\ \A s \in States, t \in RefreshTokens \cup ResetTokens :
       [NoCall(s) EXCEPT !.token = t] \in CallRecords
  /\ \A s \in States, u \in Users : [NoCall(s) EXCEPT !.user = u] \in CallRecords
  /\ \A s \in States, u \in Users, pw \in Passwords :
       [NoCall(s) EXCEPT !.user = u, !.password = pw] \in CallRecords
  /\ \A s \in States, k \in ResetTokens, pw \in Passwords :
       [NoCall(s) EXCEPT !.token = k, !.password = pw] \in CallRecords
BY DEF CallRecords, NoCall, States

\* Ending a call is always well typed.
LEMMA EndsTyped ==
  ASSUME TypeOK, RowsPersist, NEW c \in Calls, Ends(c)
  PROVE  /\ call' \in [Calls -> CallRecords]
         /\ \A d \in Calls : CallCarries(d)'
<1>1. NoCall("done") \in CallRecords
  BY CallShapes DEF States
<1>2. call' = [call EXCEPT ![c] = NoCall("done")]
  BY DEF Ends
<1>3. CallCarries(c)'
  BY <1>2 DEF TypeOK, CallCarries, NoCall
<1> QED
  BY <1>1, <1>2, <1>3, OthersStillCarry

\* Revoking a row leaves it a row.
LEMMA RevokeTyped ==
  ASSUME TypeOK, NEW t \in RefreshTokens, RevokeRow(t), UNCHANGED reset
  PROVE  refresh' \in [RefreshTokens -> RefreshRows] /\ RowsPersist
BY DEF RevokeRow, Unrevoked, TypeOK, RefreshRows, RowsPersist, NoRefresh

\* Every step keeps the type invariant.
LEMMA TypeNext ==
  ASSUME TypeOK, [Next]_vars
  PROVE  TypeOK'
<1>1. ASSUME NEW c \in Calls, NEW u \in Users, NEW pw \in Passwords, SignUp(c, u, pw)
      PROVE  TypeOK'
  <2>1. RowsPersist
    BY <1>1 DEF SignUp, RowsPersist
  <2>2. PICK rec \in CallRecords : call' = [call EXCEPT ![c] = rec] /\ rec = [NoCall("create") EXCEPT !.user = u, !.password = pw]
    BY <1>1, CallShapes DEF SignUp, Starts, States, TypeOK
  <2>3. CallCarries(c)'
    BY <1>1, <2>2 DEF SignUp, TypeOK, CallCarries, NoCall, NoRefresh, NoReset
  <2> QED
    BY <1>1, <2>1, <2>2, <2>3, OthersStillCarry DEF SignUp, TypeOK, history
<1>2. ASSUME NEW c \in Calls, NEW u \in Users, NEW pw \in Passwords, SignIn(c, u, pw)
      PROVE  TypeOK'
  <2>1. RowsPersist
    BY <1>2 DEF SignIn, RowsPersist
  <2>2. PICK rec \in CallRecords : call' = [call EXCEPT ![c] = rec] /\ rec = [NoCall("issue") EXCEPT !.user = u, !.chain = c, !.gen = gen[u]]
    BY <1>2, CallShapes DEF SignIn, Starts, States, TypeOK
  <2>3. CallCarries(c)'
    BY <1>2, <2>2 DEF SignIn, TypeOK, CallCarries, NoCall, NoRefresh, NoReset
  <2> QED
    BY <1>2, <2>1, <2>2, <2>3, OthersStillCarry DEF SignIn, TypeOK, history
<1>3. ASSUME NEW c \in Calls, NEW t \in RefreshTokens, Refresh(c, t)
      PROVE  TypeOK'
  <2>1. RowsPersist
    BY <1>3 DEF Refresh, RowsPersist
  <2>2. PICK rec \in CallRecords : call' = [call EXCEPT ![c] = rec] /\ rec = [NoCall("rotate") EXCEPT !.token = t]
    BY <1>3, CallShapes DEF Refresh, Starts, States, TypeOK
  <2>3. CallCarries(c)'
    BY <1>3, <2>2 DEF Refresh, TypeOK, CallCarries, NoCall, NoRefresh, NoReset, Live, Unrevoked
  <2> QED
    BY <1>3, <2>1, <2>2, <2>3, OthersStillCarry DEF Refresh, TypeOK, history
<1>4. ASSUME NEW c \in Calls, NEW t \in RefreshTokens, SignOut(c, t)
      PROVE  TypeOK'
  <2>1. RowsPersist
    BY <1>4 DEF SignOut, RowsPersist
  <2>2. PICK rec \in CallRecords : call' = [call EXCEPT ![c] = rec] /\ rec = [NoCall("signOut") EXCEPT !.token = t]
    BY <1>4, CallShapes DEF SignOut, Starts, States, TypeOK
  <2>3. CallCarries(c)'
    BY <1>4, <2>2 DEF SignOut, TypeOK, CallCarries, NoCall, NoRefresh, NoReset, Unrevoked
  <2> QED
    BY <1>4, <2>1, <2>2, <2>3, OthersStillCarry DEF SignOut, TypeOK, history
<1>5. ASSUME NEW c \in Calls, NEW u \in Users, ForgotPassword(c, u)
      PROVE  TypeOK'
  <2>1. RowsPersist
    BY <1>5 DEF ForgotPassword, RowsPersist
  <2>2. PICK rec \in CallRecords : call' = [call EXCEPT ![c] = rec] /\ rec = [NoCall("invalidate") EXCEPT !.user = u]
    BY <1>5, CallShapes DEF ForgotPassword, Starts, States, TypeOK
  <2>3. CallCarries(c)'
    BY <1>5, <2>2 DEF ForgotPassword, TypeOK, CallCarries, NoCall, NoRefresh, NoReset
  <2> QED
    BY <1>5, <2>1, <2>2, <2>3, OthersStillCarry DEF ForgotPassword, TypeOK, history
<1>6. ASSUME NEW c \in Calls, NEW k \in ResetTokens, NEW pw \in Passwords, ResetPassword(c, k, pw)
      PROVE  TypeOK'
  <2>1. RowsPersist
    BY <1>6 DEF ResetPassword, RowsPersist
  <2>2. PICK rec \in CallRecords : call' = [call EXCEPT ![c] = rec] /\ rec = [NoCall("consume") EXCEPT !.token = k, !.password = pw]
    BY <1>6, CallShapes DEF ResetPassword, Starts, States, TypeOK
  <2>3. CallCarries(c)'
    BY <1>6, <2>2 DEF ResetPassword, TypeOK, CallCarries, NoCall, NoRefresh, NoReset
  <2> QED
    BY <1>6, <2>1, <2>2, <2>3, OthersStillCarry DEF ResetPassword, TypeOK, history
<1>7. ASSUME NEW c \in Calls, CreateUser(c)
      PROVE  TypeOK'
  <2>1. RowsPersist
    BY <1>7 DEF CreateUser, RowsPersist
  <2>2. CASE Ends(c) /\ UNCHANGED <<password, creators>>
    BY <1>7, <2>1, <2>2, EndsTyped DEF CreateUser, TypeOK
  <2>3. CASE ~(Ends(c) /\ UNCHANGED <<password, creators>>)
    <3>1. call[c].user \in Users /\ call[c].password \in Passwords
      BY <1>7 DEF CreateUser, TypeOK, CallCarries
    <3> DEFINE rec == [NoCall("issue") EXCEPT !.user = call[c].user, !.chain = c,
                                             !.gen = gen[call[c].user]]
    <3>2. /\ password' = [password EXCEPT ![call[c].user] = call[c].password]
          /\ creators' = [creators EXCEPT ![call[c].user] = @ \cup {c}]
          /\ call' = [call EXCEPT ![c] = rec]
      BY <1>7, <2>3 DEF CreateUser
    <3>3. rec \in CallRecords
      BY <3>1, CallShapes DEF TypeOK
    <3>4. CallCarries(c)'
      BY <3>1, <3>2 DEF TypeOK, CallCarries, NoCall
    <3> QED
      BY <1>7, <2>1, <3>1, <3>2, <3>3, <3>4, OthersStillCarry DEF CreateUser, TypeOK
  <2> QED
    BY <2>2, <2>3
<1>8. ASSUME NEW c \in Calls, IssueSession(c)
      PROVE  TypeOK'
  <2>1. call[c].user \in Users /\ call[c].chain \in Calls /\ call[c].gen \in Nat
    BY <1>8 DEF IssueSession, Holding, TypeOK, CallCarries, CallRecords
  <2>2. refresh' \in [RefreshTokens -> RefreshRows]
    BY <1>8, <2>1 DEF IssueSession, TypeOK, RefreshRows
  <2>3. RowsPersist
    BY <1>8, <2>1 DEF IssueSession, TypeOK, RowsPersist, NoRefresh
  <2> QED
    BY <1>8, <2>2, <2>3, EndsTyped DEF IssueSession, TypeOK, history
<1>9. ASSUME NEW c \in Calls, Rotate(c)
      PROVE  TypeOK'
  <2> DEFINE t == call[c].token
  <2>1. t \in RefreshTokens /\ refresh[t] \in RefreshRows /\ refresh[t].state = "live"
    BY <1>9 DEF Rotate, RevokeRow, Unrevoked, TypeOK, CallCarries
  <2>2. refresh[t].user \in Users /\ refresh[t].chain \in Calls /\ refresh[t].gen \in Nat
    BY <2>1 DEF RefreshRows, NoRefresh
  <2>3. refresh' \in [RefreshTokens -> RefreshRows] /\ RowsPersist
    BY <1>9, <2>1, RevokeTyped DEF Rotate, TypeOK
  <2> DEFINE rec == [NoCall("issue") EXCEPT !.user = refresh[t].user,
                       !.chain = refresh[t].chain, !.gen = refresh[t].gen]
  <2>4. rec \in CallRecords /\ call' = [call EXCEPT ![c] = rec]
    BY <1>9, <2>2, CallShapes DEF Rotate
  <2>5. CallCarries(c)'
    BY <2>2, <2>4 DEF TypeOK, CallCarries, NoCall
  <2> QED
    BY <1>9, <2>3, <2>4, <2>5, OthersStillCarry DEF Rotate, TypeOK, history
<1>10. ASSUME NEW c \in Calls, Revoke(c)
      PROVE  TypeOK'
  <2>1. call[c].token \in RefreshTokens
    BY <1>10 DEF Revoke, TypeOK, CallCarries
  <2> QED
    BY <1>10, <2>1, RevokeTyped, EndsTyped DEF Revoke, TypeOK, history
<1>11. ASSUME NEW c \in Calls, RevokedMeanwhile(c)
      PROVE  TypeOK'
  BY <1>11, EndsTyped DEF RevokedMeanwhile, RowsPersist, TypeOK, history
<1>12. ASSUME NEW c \in Calls, Invalidate(c)
      PROVE  TypeOK'
  <2> DEFINE old == OwnTokens(call[c].user)
             rec == [call[c] EXCEPT !.pc = "insert", !.seen = old]
  <2>1. call[c].user \in Users
    BY <1>12 DEF Invalidate, TypeOK, CallCarries
  <2>2. \A k \in old : reset[k] # NoReset
    BY <2>1, SessionsAssumption DEF OwnTokens, NoReset
  <2>3. reset' \in [ResetTokens -> ResetRows] /\ RowsPersist
    BY <1>12, <2>2 DEF Invalidate, TypeOK, ResetRows, RowsPersist, NoReset
  <2>4. rec \in CallRecords /\ call' = [call EXCEPT ![c] = rec]
    BY <1>12 DEF Invalidate, TypeOK, CallRecords, States, OwnTokens
  <2>5. CallCarries(c)'
    BY <2>1, <2>4 DEF TypeOK, CallCarries, CallRecords
  <2> QED
    BY <1>12, <2>3, <2>4, <2>5, OthersStillCarry DEF Invalidate, TypeOK, history
<1>13. ASSUME NEW c \in Calls, InsertResetToken(c)
      PROVE  TypeOK'
  <2>1. call[c].user \in Users /\ call[c].seen \in SUBSET ResetTokens
    BY <1>13 DEF InsertResetToken, TypeOK, CallCarries, CallRecords
  <2>2. PICK k \in ResetTokens :
          /\ reset[k] = NoReset
          /\ reset' = [reset EXCEPT ![k] =
               [state |-> "unused", user |-> call[c].user, expired |-> FALSE,
                mailed |-> FALSE, after |-> call[c].seen]]
          /\ call' = [call EXCEPT ![c] = [NoCall("mail") EXCEPT !.token = k]]
    BY <1>13 DEF InsertResetToken
  <2>3. reset' \in [ResetTokens -> ResetRows] /\ reset'[k] # NoReset
    BY <2>1, <2>2 DEF TypeOK, ResetRows, NoReset
  <2>4. RowsPersist
    BY <1>13, <2>2, <2>3 DEF InsertResetToken, TypeOK, RowsPersist
  <2>5. [NoCall("mail") EXCEPT !.token = k] \in CallRecords
    BY CallShapes DEF States
  <2>6. CallCarries(c)'
    BY <2>2, <2>3 DEF TypeOK, CallCarries, NoCall
  <2> QED
    BY <1>13, <2>2, <2>3, <2>4, <2>5, <2>6, OthersStillCarry
       DEF InsertResetToken, TypeOK, history
<1>14. ASSUME NEW c \in Calls, SendResetMail(c)
      PROVE  TypeOK'
  <2>1. call[c].token \in ResetTokens /\ reset[call[c].token] # NoReset
    BY <1>14 DEF SendResetMail, TypeOK, CallCarries
  <2>2. reset' \in [ResetTokens -> ResetRows] /\ RowsPersist
    <3>1. PICK sent \in BOOLEAN : reset' = [reset EXCEPT ![call[c].token].mailed = sent]
      BY <1>14 DEF SendResetMail
    <3> DEFINE row == reset[call[c].token]
    <3>2. [row EXCEPT !.mailed = sent] \in ResetRows \ {NoReset}
      <4>1. row \in ResetRows \ {NoReset}
        BY <2>1 DEF TypeOK
      <4>2. row \in [state: {"unused", "used"}, user: Users, expired: BOOLEAN,
                     mailed: BOOLEAN, after: SUBSET ResetTokens]
        BY <4>1 DEF ResetRows
      <4> HIDE DEF row
      <4>3. [row EXCEPT !.mailed = sent] \in ResetRows
        BY <3>1, <4>2, Zenon DEF ResetRows
      <4>4. [row EXCEPT !.mailed = sent].state # NoReset.state
        BY <4>2 DEF NoReset
      <4> QED
        BY <4>3, <4>4
    <3> QED
      BY <1>14, <2>1, <3>1, <3>2 DEF SendResetMail, TypeOK, RowsPersist
  <2> QED
    BY <1>14, <2>2, EndsTyped DEF SendResetMail, TypeOK, history
<1>15. ASSUME NEW c \in Calls, Consume(c)
      PROVE  TypeOK'
  <2> DEFINE k == call[c].token
             rec == [call[c] EXCEPT !.pc = "commit"]
  <2>1. k \in ResetTokens /\ reset[k] # NoReset /\ call[c].password \in Passwords
    BY <1>15 DEF Consume, TypeOK, CallCarries
  <2>2. CASE Ends(c) /\ UNCHANGED reset
    BY <1>15, <2>2, EndsTyped DEF Consume, RowsPersist, TypeOK, history
  <2>3. CASE Goes(c, "commit") /\ reset' = [reset EXCEPT ![k].state = "used"]
    <3>1. reset' \in [ResetTokens -> ResetRows] /\ RowsPersist
      BY <1>15, <2>1, <2>3 DEF Consume, TypeOK, ResetRows, RowsPersist, NoReset
    <3>2. rec \in CallRecords /\ call' = [call EXCEPT ![c] = rec]
      BY <2>3 DEF Goes, TypeOK, CallRecords, States
    <3>3. reset'[k] # NoReset
      BY <2>1, <3>1 DEF RowsPersist
    <3>4. CallCarries(c)'
      BY <2>1, <3>2, <3>3 DEF TypeOK, CallCarries, CallRecords
    <3> QED
      BY <1>15, <3>1, <3>2, <3>4, OthersStillCarry DEF Consume, TypeOK, history
  <2> QED
    BY <1>15, <2>2, <2>3 DEF Consume
<1>16. ASSUME NEW c \in Calls, CommitReset(c)
      PROVE  TypeOK'
  <2> DEFINE k == call[c].token
             u == reset[k].user
  <2>1. k \in ResetTokens /\ reset[k] # NoReset /\ call[c].password \in Passwords
    BY <1>16 DEF CommitReset, TypeOK, CallCarries
  <2>2. u \in Users
    BY <2>1 DEF TypeOK, ResetRows
  <2>3. refresh' \in [RefreshTokens -> RefreshRows]
    BY <1>16, <2>2, SessionsAssumption
       DEF CommitReset, RevokeAllForUser, TypeOK, RefreshRows, NoRefresh
  <2>4. RowsPersist
    BY <1>16, <2>2, SessionsAssumption
       DEF CommitReset, RevokeAllForUser, TypeOK, RowsPersist, RefreshRows, NoRefresh
  <2>5. late' \subseteq Calls
    BY <1>16 DEF CommitReset, TypeOK, Holding, CallCarries
  <2>6. password' \in [Users -> Passwords \cup {NoPassword}] /\ gen' \in [Users -> Nat]
        /\ spent' \in [ResetTokens -> Nat]
    BY <1>16, <2>1, <2>2 DEF CommitReset, TypeOK
  <2> QED
    BY <1>16, <2>3, <2>4, <2>5, <2>6, EndsTyped DEF CommitReset, TypeOK
<1>17. ASSUME NEW t \in RefreshTokens, ExpireRefresh(t)
      PROVE  TypeOK'
  <2>1. refresh' \in [RefreshTokens -> RefreshRows] /\ RowsPersist
    <3>1. refresh[t] \in RefreshRows \ {NoRefresh}
      BY <1>17 DEF ExpireRefresh, Live, Unrevoked, TypeOK, NoRefresh
    <3>2. [refresh[t] EXCEPT !.expired = TRUE] \in RefreshRows \ {NoRefresh}
      BY <3>1 DEF RefreshRows, NoRefresh
    <3> QED
      BY <1>17, <3>2 DEF ExpireRefresh, TypeOK, RowsPersist
  <2> QED
    BY <1>17, <2>1 DEF ExpireRefresh, TypeOK, CallCarries, RowsPersist, history
<1>18. ASSUME NEW k \in ResetTokens, ExpireReset(k)
      PROVE  TypeOK'
  <2>1. reset' \in [ResetTokens -> ResetRows] /\ RowsPersist
    <3>1. reset[k] \in ResetRows \ {NoReset}
      BY <1>18 DEF ExpireReset, TypeOK, NoReset
    <3>2. [reset[k] EXCEPT !.expired = TRUE] \in ResetRows \ {NoReset}
      BY <3>1 DEF ResetRows, NoReset
    <3> QED
      BY <1>18, <3>2 DEF ExpireReset, TypeOK, RowsPersist
  <2> QED
    BY <1>18, <2>1 DEF ExpireReset, TypeOK, CallCarries, RowsPersist, history
<1>19. CASE Restart
  <2>1. \A c \in Calls : call'[c] = call[c] \/ call'[c] = NoCall("done")
    BY <1>19 DEF Restart
  <2>2. call' \in [Calls -> CallRecords]
    BY <1>19, CallShapes DEF Restart, TypeOK, States
  <2>3. \A c \in Calls : CallCarries(c)'
    BY <1>19, <2>1 DEF Restart, TypeOK, CallCarries, NoCall
  <2> QED
    BY <1>19, <2>2, <2>3 DEF Restart, TypeOK, history
<1>20. CASE UNCHANGED vars
  BY <1>20 DEF vars, TypeOK, CallCarries
<1> QED
  BY <1>1, <1>2, <1>3, <1>4, <1>5, <1>6, <1>7, <1>8, <1>9, <1>10, <1>11, <1>12,
     <1>13, <1>14, <1>15, <1>16, <1>17, <1>18, <1>19, <1>20, CallSteps, Zenon

(***************************************************************************)
(* Sessions have one holder. The chains of the rows and of the calls that   *)
(* hold a session were opened by calls that are past their first step, so a *)
(* sign-in opens a chain nobody holds; and every holder carries the user's  *)
(* generation unless a reset found its session between two tokens.          *)
(***************************************************************************)
Unopened(c) == call[c].pc \in {"idle", "create"}

ChainsAreOpened ==
  /\ \A t \in RefreshTokens : refresh[t] # NoRefresh => ~Unopened(refresh[t].chain)
  /\ \A c \in Calls : Holding(c) => ~Unopened(call[c].chain)

GenerationsKept ==
  /\ \A t \in RefreshTokens :
       Unrevoked(t) => refresh[t].gen = gen[refresh[t].user] \/ refresh[t].chain \in late
  /\ \A c \in Calls :
       Holding(c) => call[c].gen = gen[call[c].user] \/ call[c].chain \in late

HolderInv == OneHolder /\ ChainsAreOpened /\ GenerationsKept

\* A step after which nobody holds a session who did not hold it before.
NoNewHolder ==
  /\ \A t \in RefreshTokens :
       /\ refresh'[t] # NoRefresh => refresh[t] # NoRefresh
       /\ refresh'[t].chain = refresh[t].chain
       /\ refresh'[t].user = refresh[t].user
       /\ refresh'[t].gen = refresh[t].gen
  /\ \A t \in RefreshTokens : refresh'[t].state = "live" => refresh[t].state = "live"
  /\ \A c \in Calls : call'[c].pc = "issue" => call'[c] = call[c]
  /\ \A c \in Calls : call'[c].pc \in {"idle", "create"} => call[c].pc \in {"idle", "create"}

\* A revocation or an expiry changes one field of one row.
LEMMA RowChanged ==
  ASSUME TypeOK, NEW t \in RefreshTokens, refresh[t] # NoRefresh,
         \/ refresh' = [refresh EXCEPT ![t].state = "revoked"]
         \/ refresh' = [refresh EXCEPT ![t].expired = TRUE]
  PROVE  /\ refresh[t].user \in Users /\ refresh[t].chain \in Calls
         /\ refresh[t].gen \in Nat
         /\ refresh'[t].chain = refresh[t].chain
         /\ refresh'[t].user = refresh[t].user
         /\ refresh'[t].gen = refresh[t].gen
         /\ refresh'[t].state \in {refresh[t].state, "revoked"}
         /\ \A s \in RefreshTokens : s # t => refresh'[s] = refresh[s]
<1>1. refresh[t] \in [state: {"live", "revoked"}, user: Users, chain: Calls, gen: Nat,
                      expired: BOOLEAN]
  BY DEF TypeOK, RefreshRows
<1>2. refresh'[t] \in {[refresh[t] EXCEPT !.state = "revoked"], [refresh[t] EXCEPT !.expired = TRUE]}
  BY DEF TypeOK
<1>3. \A s \in RefreshTokens : s # t => refresh'[s] = refresh[s]
  BY DEF TypeOK
<1> QED
  BY <1>1, <1>2, <1>3

LEMMA NoNewHolderKeepsOne ==
  ASSUME TypeOK, TypeOK', HolderInv, NoNewHolder
  PROVE  OneHolder' /\ ChainsAreOpened'
<1>1. \A t \in RefreshTokens : refresh'[t].state = "live" => refresh'[t] # NoRefresh
  BY DEF NoRefresh
<1>2. OneHolder'
  BY <1>1 DEF HolderInv, OneHolder, NoNewHolder, Unrevoked, Holding
<1>3. \A t \in RefreshTokens : refresh'[t] # NoRefresh => ~Unopened(refresh[t].chain)'
  BY DEF HolderInv, ChainsAreOpened, NoNewHolder, Unopened, TypeOK, RefreshRows
<1>4. \A c \in Calls : Holding(c)' => ~Unopened(call[c].chain)'
  BY DEF HolderInv, ChainsAreOpened, NoNewHolder, Holding, Unopened, TypeOK, CallCarries
<1> QED
  BY <1>2, <1>3, <1>4 DEF ChainsAreOpened, NoNewHolder

LEMMA NoNewHolderKeeps ==
  ASSUME TypeOK, TypeOK', HolderInv, NoNewHolder, UNCHANGED <<gen, late>>
  PROVE  HolderInv'
<1>1. \A t \in RefreshTokens : refresh'[t].state = "live" => refresh'[t] # NoRefresh
  BY DEF NoRefresh
<1>2. GenerationsKept'
  BY <1>1 DEF HolderInv, GenerationsKept, NoNewHolder, Unrevoked, Holding
<1> QED
  BY <1>2, NoNewHolderKeepsOne DEF HolderInv

\* Opening a session: the call becomes the one holder of its own chain.
LEMMA OpeningKeeps ==
  ASSUME TypeOK, TypeOK', HolderInv, NEW c \in Calls, NEW u \in Users, Unopened(c),
         call' = [call EXCEPT ![c] = [NoCall("issue") EXCEPT
                                        !.user = u, !.chain = c, !.gen = gen[u]]],
         UNCHANGED <<refresh, gen, late>>
  PROVE  HolderInv'
<1>1. /\ call'[c].pc = "issue" /\ call'[c].chain = c
      /\ call'[c].user = u /\ call'[c].gen = gen[u]
  BY DEF TypeOK, NoCall
<1>2. \A d \in Calls : d # c => call'[d] = call[d]
  BY DEF TypeOK
<1>3. \A t \in RefreshTokens : Unrevoked(t) => refresh[t].chain # c
  BY DEF HolderInv, ChainsAreOpened, Unrevoked, NoRefresh
<1>4. \A d \in Calls : Holding(d) => call[d].chain # c
  BY DEF HolderInv, ChainsAreOpened
<1>5. OneHolder'
  BY <1>1, <1>2, <1>3, <1>4 DEF HolderInv, OneHolder, Unrevoked, Holding
<1>6. ChainsAreOpened'
  <2>1. \A d \in Calls : Unopened(d)' => Unopened(d)
    BY <1>1, <1>2 DEF Unopened
  <2>2. \A t \in RefreshTokens : refresh'[t] # NoRefresh => ~Unopened(refresh[t].chain)'
    BY <2>1 DEF HolderInv, ChainsAreOpened, TypeOK, RefreshRows, Unopened
  <2>3. \A d \in Calls : Holding(d)' => ~Unopened(call[d].chain)'
    BY <1>1, <1>2, <2>1
       DEF HolderInv, ChainsAreOpened, TypeOK, CallCarries, Holding, Unopened
  <2> QED
    BY <2>2, <2>3 DEF ChainsAreOpened
<1>7. GenerationsKept'
  BY <1>1, <1>2 DEF HolderInv, GenerationsKept, Unrevoked, Holding
<1> QED
  BY <1>5, <1>6, <1>7 DEF HolderInv

\* rotate moves the session from its token to the call.
LEMMA RotateKeeps ==
  ASSUME TypeOK, TypeOK', HolderInv, NEW c \in Calls, Rotate(c)
  PROVE  HolderInv'
<1>1. PICK t \in RefreshTokens : t = call[c].token
  BY DEF Rotate, TypeOK, CallCarries
<1>2. /\ refresh[t].state = "live" /\ refresh[t] # NoRefresh
      /\ refresh' = [refresh EXCEPT ![t].state = "revoked"]
  BY <1>1 DEF Rotate, RevokeRow, Unrevoked, NoRefresh
<1>3. /\ call'[c].pc = "issue" /\ call'[c].chain = refresh[t].chain
      /\ call'[c].user = refresh[t].user /\ call'[c].gen = refresh[t].gen
      /\ call[c].pc = "rotate"
  BY <1>1 DEF Rotate, TypeOK, NoCall
<1>4. \A d \in Calls : d # c => call'[d] = call[d]
  BY DEF Rotate, TypeOK
<1>5. /\ refresh[t].user \in Users /\ refresh[t].chain \in Calls
      /\ refresh'[t].chain = refresh[t].chain
      /\ \A s \in RefreshTokens : s # t => refresh'[s] = refresh[s]
  BY <1>2, RowChanged
<1>6. refresh'[t].state = "revoked"
  <2>1. refresh[t] \in [state: {"live", "revoked"}, user: Users, chain: Calls, gen: Nat,
                        expired: BOOLEAN]
    BY <1>2 DEF TypeOK, RefreshRows
  <2> QED
    BY <1>2, <2>1 DEF TypeOK
<1>7. OneHolder'
  <2>1. ASSUME NEW s \in RefreshTokens, refresh'[s].state = "live"
        PROVE  /\ refresh[s].state = "live" /\ refresh'[s] = refresh[s]
               /\ refresh[s].chain # refresh[t].chain
    <3>1. s # t
      BY <1>6, <2>1
    <3> QED
      BY <1>2, <1>5, <2>1, <3>1 DEF Unrevoked, HolderInv, OneHolder
  <2>2. \A d \in Calls : d # c /\ call'[d].pc = "issue" =>
          call[d].pc = "issue" /\ call'[d] = call[d] /\ call[d].chain # refresh[t].chain
    BY <1>2, <1>4 DEF Holding, Unrevoked, HolderInv, OneHolder
  <2> QED
    BY <1>3, <2>1, <2>2 DEF HolderInv, OneHolder, Unrevoked, Holding
<1>8. ChainsAreOpened'
  <2>1. \A d \in Calls : call'[d].pc \in {"idle", "create"} => call[d].pc \in {"idle", "create"}
    BY <1>3, <1>4
  <2>2. \A s \in RefreshTokens : refresh'[s] # NoRefresh =>
          refresh'[s].chain = refresh[s].chain /\ refresh[s] # NoRefresh
    BY <1>2, <1>5
  <2>3. ~Unopened(refresh[t].chain)'
    BY <1>2, <1>5, <2>1 DEF HolderInv, ChainsAreOpened, Unopened
  <2>4. \A s \in RefreshTokens : refresh'[s] # NoRefresh => ~Unopened(refresh[s].chain)'
    BY <2>1, <2>2 DEF HolderInv, ChainsAreOpened, TypeOK, RefreshRows, Unopened
  <2>5. \A d \in Calls : d # c /\ call'[d].pc = "issue" => ~Unopened(call[d].chain)'
    BY <1>4, <2>1
       DEF HolderInv, ChainsAreOpened, TypeOK, CallCarries, Holding, Unopened
  <2> QED
    <3>1. \A d \in Calls : Holding(d)' => ~Unopened(call[d].chain)'
      BY <1>3, <1>5, <2>3, <2>5 DEF Holding, Unopened
    <3> QED
      BY <2>4, <3>1 DEF ChainsAreOpened
<1>9. GenerationsKept'
  <2>1. gen' = gen /\ late' = late
    BY DEF Rotate, history
  <2>2. \A s \in RefreshTokens : refresh'[s].state = "live" => refresh'[s] = refresh[s]
    BY <1>5, <1>6
  <2>3. refresh[t].gen = gen[refresh[t].user] \/ refresh[t].chain \in late
    BY <1>2 DEF HolderInv, GenerationsKept, Unrevoked
  <2> QED
    BY <1>3, <1>4, <2>1, <2>2, <2>3 DEF HolderInv, GenerationsKept, Unrevoked, Holding
<1> QED
  BY <1>7, <1>8, <1>9 DEF HolderInv

\* issue hands the session from the call to a token that was not in use.
LEMMA IssueKeeps ==
  ASSUME TypeOK, TypeOK', HolderInv, NEW c \in Calls, IssueSession(c)
  PROVE  HolderInv'
<1>1. PICK t \in RefreshTokens :
        /\ refresh[t] = NoRefresh
        /\ refresh' = [refresh EXCEPT ![t] =
             [state |-> "live", user |-> call[c].user, chain |-> call[c].chain,
              gen |-> call[c].gen, expired |-> FALSE]]
  BY DEF IssueSession
<1>2. /\ refresh'[t].state = "live" /\ refresh'[t].chain = call[c].chain
      /\ refresh'[t].user = call[c].user /\ refresh'[t].gen = call[c].gen
      /\ \A s \in RefreshTokens : s # t => refresh'[s] = refresh[s]
  BY <1>1 DEF TypeOK
<1>3. /\ Holding(c) /\ call[c].chain \in Calls /\ call'[c].pc = "done"
      /\ \A d \in Calls : d # c => call'[d] = call[d]
  BY DEF IssueSession, Ends, NoCall, TypeOK, CallCarries, Holding
<1>4. OneHolder'
  <2>1. \A s \in RefreshTokens : s # t /\ Unrevoked(s)' =>
          Unrevoked(s) /\ refresh'[s] = refresh[s] /\ refresh[s].chain # call[c].chain
    BY <1>2, <1>3 DEF Unrevoked, HolderInv, OneHolder
  <2>2. \A d \in Calls : Holding(d)' =>
          Holding(d) /\ call'[d] = call[d] /\ call[d].chain # call[c].chain
    BY <1>3 DEF Holding, HolderInv, OneHolder
  <2> QED
    BY <1>2, <2>1, <2>2 DEF HolderInv, OneHolder
<1>5. ChainsAreOpened'
  <2>1. \A d \in Calls : call'[d].pc \in {"idle", "create"} => call[d].pc \in {"idle", "create"}
    BY <1>3
  <2>2. ~Unopened(call[c].chain)
    BY <1>3 DEF HolderInv, ChainsAreOpened
  <2>3. \A s \in RefreshTokens : refresh'[s] # NoRefresh => ~Unopened(refresh[s].chain)'
    BY <1>2, <1>3, <2>1, <2>2
       DEF HolderInv, ChainsAreOpened, TypeOK, RefreshRows, Unopened
  <2>4. \A d \in Calls : Holding(d)' => ~Unopened(call[d].chain)'
    BY <1>3, <2>1
       DEF HolderInv, ChainsAreOpened, TypeOK, CallCarries, Holding, Unopened
  <2> QED
    BY <2>3, <2>4 DEF ChainsAreOpened
<1>6. GenerationsKept'
  <2>1. gen' = gen /\ late' = late
    BY DEF IssueSession, history
  <2> QED
    BY <1>2, <1>3, <2>1 DEF HolderInv, GenerationsKept, Unrevoked, Holding
<1> QED
  BY <1>4, <1>5, <1>6 DEF HolderInv

\* The reset's transaction gives nobody a session.
LEMMA ResetIsQuiet ==
  ASSUME TypeOK, NEW c \in Calls, CommitReset(c)
  PROVE  NoNewHolder
<1> DEFINE u == reset[call[c].token].user
<1>1. u \in Users
  BY DEF CommitReset, TypeOK, CallCarries, ResetRows
<1>2. \A d \in Calls : call'[d].pc = "done" \/ call'[d] = call[d]
  BY DEF CommitReset, Ends, NoCall, TypeOK
<1>3. \A t \in RefreshTokens :
        refresh'[t] = IF refresh[t].user = u THEN [refresh[t] EXCEPT !.state = "revoked"]
                                             ELSE refresh[t]
  BY DEF CommitReset, RevokeAllForUser, TypeOK
<1>4. \A t \in RefreshTokens :
        /\ refresh'[t] # NoRefresh => refresh[t] # NoRefresh
        /\ refresh'[t].chain = refresh[t].chain
        /\ refresh'[t].user = refresh[t].user
        /\ refresh'[t].gen = refresh[t].gen
  <2>1. ASSUME NEW t \in RefreshTokens, refresh[t].user # u
        PROVE  refresh'[t] = refresh[t]
    BY <1>3, <2>1
  <2>2. ASSUME NEW t \in RefreshTokens, refresh[t].user = u
        PROVE  /\ refresh[t] # NoRefresh
               /\ refresh'[t].chain = refresh[t].chain
               /\ refresh'[t].user = refresh[t].user
               /\ refresh'[t].gen = refresh[t].gen
    <3>1. refresh[t] # NoRefresh
      BY <1>1, <2>2, SessionsAssumption DEF NoRefresh
    <3>2. refresh[t] \in [state: {"live", "revoked"}, user: Users, chain: Calls, gen: Nat,
                          expired: BOOLEAN]
      BY <3>1 DEF TypeOK, RefreshRows
    <3> QED
      BY <1>3, <2>2, <3>1, <3>2
  <2> QED
    BY <2>1, <2>2
<1>5. \A t \in RefreshTokens : refresh'[t].state = "live" => refresh[t].state = "live"
  BY <1>3 DEF TypeOK, RefreshRows, NoRefresh
<1> QED
  BY <1>2, <1>4, <1>5 DEF NoNewHolder

\* The reset's transaction revokes every row of the user and leaves only the
\* sessions it found between two tokens, which it notes as late.
LEMMA ResetKeeps ==
  ASSUME TypeOK, TypeOK', HolderInv, NEW c \in Calls, CommitReset(c)
  PROVE  HolderInv'
<1> DEFINE u == reset[call[c].token].user
<1>1. /\ u \in Users /\ gen' = [gen EXCEPT ![u] = @ + 1]
      /\ late' = late \cup {call[d].chain : d \in {e \in Calls : Holding(e) /\ call[e].user = u}}
  BY DEF CommitReset, TypeOK, CallCarries, ResetRows
<1>2. /\ call'[c].pc = "done"
      /\ \A d \in Calls : d # c => call'[d] = call[d]
  BY DEF CommitReset, Ends, NoCall, TypeOK
<1>3. \A t \in RefreshTokens :
        refresh'[t] = IF refresh[t].user = u THEN [refresh[t] EXCEPT !.state = "revoked"]
                                             ELSE refresh[t]
  BY DEF CommitReset, RevokeAllForUser, TypeOK
<1>4. NoNewHolder
  BY ResetIsQuiet
<1>5. GenerationsKept'
  <2>1. ASSUME NEW t \in RefreshTokens, Unrevoked(t)'
        PROVE  /\ Unrevoked(t) /\ refresh'[t] = refresh[t]
               /\ refresh[t].user \in Users \ {u}
    <3>1. refresh[t].user # u
      BY <1>3, <2>1 DEF Unrevoked, TypeOK, RefreshRows, NoRefresh
    <3> QED
      BY <1>3, <2>1, <3>1 DEF Unrevoked, TypeOK, RefreshRows, NoRefresh
  <2>2. \A t \in RefreshTokens : Unrevoked(t)' =>
          (refresh[t].gen = gen[refresh[t].user] \/ refresh[t].chain \in late)'
    BY <1>1, <2>1 DEF HolderInv, GenerationsKept, TypeOK
  <2>3. ASSUME NEW d \in Calls, Holding(d)'
        PROVE  Holding(d) /\ call'[d] = call[d] /\ call[d].user \in Users
    BY <1>2, <2>3 DEF Holding, TypeOK, CallCarries
  <2>4. \A d \in Calls : Holding(d)' =>
          (call[d].gen = gen[call[d].user] \/ call[d].chain \in late)'
    BY <1>1, <2>3 DEF HolderInv, GenerationsKept, TypeOK
  <2> QED
    BY <2>2, <2>4 DEF GenerationsKept
<1> QED
  BY <1>4, <1>5, NoNewHolderKeepsOne DEF HolderInv

LEMMA HolderInit == Init => HolderInv
BY DEF Init, HolderInv, OneHolder, ChainsAreOpened, GenerationsKept, Unrevoked,
   Holding, NoRefresh, NoCall

\* The call opens a session: nobody holds its chain yet.
Opens(c) ==
  /\ Unopened(c)
  /\ \E u \in Users :
       call' = [call EXCEPT ![c] = [NoCall("issue") EXCEPT
                                      !.user = u, !.chain = c, !.gen = gen[u]]]
  /\ UNCHANGED <<refresh, gen, late>>

Quiet == NoNewHolder /\ UNCHANGED <<gen, late>>

\* Every step is quiet, opens a session, moves one, or resets a password.
LEMMA StepKinds ==
  ASSUME TypeOK, [Next]_vars
  PROVE  Quiet \/ \E c \in Calls : Opens(c) \/ Rotate(c) \/ IssueSession(c) \/ CommitReset(c)
<1>1. ASSUME NEW c \in Calls, NEW u \in Users, NEW pw \in Passwords, SignUp(c, u, pw)
      PROVE  Quiet
  <2>1. NoNewHolder
    BY <1>1 DEF SignUp, Starts, NoNewHolder, TypeOK, NoCall
  <2> QED
    BY <1>1, <2>1 DEF SignUp, history, Quiet
<1>2. ASSUME NEW c \in Calls, NEW t \in RefreshTokens, Refresh(c, t) \/ SignOut(c, t)
      PROVE  Quiet
  <2>1. NoNewHolder
    BY <1>2 DEF Refresh, SignOut, Starts, NoNewHolder, TypeOK, NoCall
  <2> QED
    BY <1>2, <2>1 DEF Refresh, SignOut, history, Quiet
<1>3. ASSUME NEW c \in Calls, NEW u \in Users, ForgotPassword(c, u)
      PROVE  Quiet
  <2>1. NoNewHolder
    BY <1>3 DEF ForgotPassword, Starts, NoNewHolder, TypeOK, NoCall
  <2> QED
    BY <1>3, <2>1 DEF ForgotPassword, history, Quiet
<1>4. ASSUME NEW c \in Calls, NEW k \in ResetTokens, NEW pw \in Passwords, ResetPassword(c, k, pw)
      PROVE  Quiet
  <2>1. NoNewHolder
    BY <1>4 DEF ResetPassword, Starts, NoNewHolder, TypeOK, NoCall
  <2> QED
    BY <1>4, <2>1 DEF ResetPassword, history, Quiet
<1>5. ASSUME NEW c \in Calls, Revoke(c)
      PROVE  Quiet
  <2>1. PICK t \in RefreshTokens : t = call[c].token
    BY <1>5 DEF Revoke, TypeOK, CallCarries
  <2>2. /\ refresh[t].state = "live" /\ refresh[t] # NoRefresh
        /\ refresh' = [refresh EXCEPT ![t].state = "revoked"]
    BY <1>5, <2>1 DEF Revoke, RevokeRow, Unrevoked, NoRefresh
  <2>3. \A d \in Calls : call'[d] = call[d] \/ call'[d].pc = "done"
    BY <1>5 DEF Revoke, Ends, TypeOK, NoCall
  <2>4. NoNewHolder
    BY <2>2, <2>3, RowChanged DEF NoNewHolder
  <2> QED
    BY <1>5, <2>4 DEF Revoke, history, Quiet
<1>6. ASSUME NEW c \in Calls, RevokedMeanwhile(c)
      PROVE  Quiet
  <2>1. NoNewHolder
    BY <1>6 DEF RevokedMeanwhile, Ends, NoNewHolder, TypeOK, NoCall
  <2> QED
    BY <1>6, <2>1 DEF RevokedMeanwhile, history, Quiet
<1>7. ASSUME NEW c \in Calls, Invalidate(c)
      PROVE  Quiet
  <2>1. NoNewHolder
    BY <1>7 DEF Invalidate, NoNewHolder, TypeOK, NoCall
  <2> QED
    BY <1>7, <2>1 DEF Invalidate, history, Quiet
<1>8. ASSUME NEW c \in Calls, InsertResetToken(c)
      PROVE  Quiet
  <2>1. NoNewHolder
    BY <1>8 DEF InsertResetToken, NoNewHolder, TypeOK, NoCall
  <2> QED
    BY <1>8, <2>1 DEF InsertResetToken, history, Quiet
<1>9. ASSUME NEW c \in Calls, SendResetMail(c)
      PROVE  Quiet
  <2>1. NoNewHolder
    BY <1>9 DEF SendResetMail, Ends, NoNewHolder, TypeOK, NoCall
  <2> QED
    BY <1>9, <2>1 DEF SendResetMail, history, Quiet
<1>10. ASSUME NEW c \in Calls, Consume(c)
      PROVE  Quiet
  <2>1. NoNewHolder
    BY <1>10 DEF Consume, Ends, Goes, NoNewHolder, TypeOK, CallRecords, NoCall
  <2> QED
    BY <1>10, <2>1 DEF Consume, history, Quiet
<1>11. ASSUME NEW t \in RefreshTokens, ExpireRefresh(t)
      PROVE  Quiet
  <2>1. /\ refresh[t].state = "live" /\ refresh[t] # NoRefresh
        /\ refresh' = [refresh EXCEPT ![t].expired = TRUE]
    BY <1>11 DEF ExpireRefresh, Live, Unrevoked, NoRefresh
  <2>2. NoNewHolder
    BY <1>11, <2>1, RowChanged DEF ExpireRefresh, NoNewHolder
  <2> QED
    BY <1>11, <2>2 DEF ExpireRefresh, history, Quiet
<1>12. ASSUME NEW k \in ResetTokens, ExpireReset(k)
      PROVE  Quiet
  <2>1. NoNewHolder
    BY <1>12 DEF ExpireReset, NoNewHolder
  <2> QED
    BY <1>12, <2>1 DEF ExpireReset, history, Quiet
<1>13. CASE Restart
  <2>1. NoNewHolder
    BY <1>13 DEF Restart, NoNewHolder, TypeOK, NoCall
  <2> QED
    BY <1>13, <2>1 DEF Restart, history, Quiet
<1>14. CASE UNCHANGED vars
  <2>1. NoNewHolder
    <3>1. refresh' = refresh /\ call' = call
      BY <1>14 DEF vars
    <3> QED
      BY <3>1 DEF NoNewHolder
  <2> QED
    BY <1>14, <2>1 DEF vars, Quiet
<1>15. ASSUME NEW c \in Calls, NEW u \in Users, NEW pw \in Passwords, SignIn(c, u, pw)
      PROVE  Opens(c)
  BY <1>15 DEF SignIn, Starts, Unopened, Opens, history
<1>16. ASSUME NEW c \in Calls, CreateUser(c)
      PROVE  Quiet \/ Opens(c)
  <2>1. CASE Ends(c)
    <3>1. NoNewHolder
      BY <1>16, <2>1 DEF CreateUser, Ends, NoNewHolder, TypeOK, NoCall
    <3> QED
      BY <1>16, <3>1 DEF CreateUser, Quiet
  <2>2. CASE ~Ends(c)
    <3>1. call[c].user \in Users /\ Unopened(c)
      BY <1>16 DEF CreateUser, TypeOK, CallCarries, Unopened
    <3> QED
      BY <1>16, <2>2, <3>1 DEF CreateUser, Opens
  <2> QED
    BY <2>1, <2>2
<1> QED
  BY <1>1, <1>2, <1>3, <1>4, <1>5, <1>6, <1>7, <1>8, <1>9, <1>10, <1>11, <1>12, <1>13,
     <1>14, <1>15, <1>16, CallSteps, Zenon

LEMMA HolderNext ==
  ASSUME TypeOK, TypeOK', HolderInv, [Next]_vars
  PROVE  HolderInv'
<1>1. CASE Quiet
  BY <1>1, NoNewHolderKeeps DEF Quiet
<1>2. ASSUME NEW c \in Calls, Opens(c)
      PROVE  HolderInv'
  BY <1>2, OpeningKeeps DEF Opens
<1> QED
  BY <1>1, <1>2, StepKinds, RotateKeeps, IssueKeeps, ResetKeeps

(***************************************************************************)
(* A reset link is spent once. Only an unused token is consumed, so one     *)
(* call at most carries it to the commit, and none after the commit; a      *)
(* token is never unused again.                                             *)
(***************************************************************************)
Committing(c, k) == call[c].pc = "commit" /\ call[c].token = k

LinksSpent ==
  \A k \in ResetTokens :
    /\ spent[k] \in {0, 1}
    /\ reset[k].state # "used" => spent[k] = 0 /\ \A c \in Calls : ~Committing(c, k)
    /\ \A c \in Calls : Committing(c, k) => spent[k] = 0
    /\ \A c, d \in Calls : Committing(c, k) /\ Committing(d, k) => c = d

OldLinksDead ==
  /\ OldLinksAreDead
  /\ \A c \in Calls : call[c].pc = "insert" => \A k \in call[c].seen : reset[k].state = "used"

LinkInv == LinksSpent /\ OldLinksDead

\* A step that brings no call to its commit or its insert, and no link back.
LinksWait ==
  /\ spent' = spent
  /\ \A k \in ResetTokens : reset[k].state = "used" => reset'[k].state = "used"
  /\ \A k \in ResetTokens : reset'[k].after = reset[k].after
  /\ \A c \in Calls : call'[c].pc \in {"commit", "insert"} => call'[c] = call[c]

LEMMA LinksWaitKeeps ==
  ASSUME TypeOK, LinkInv, LinksWait
  PROVE  LinkInv'
<1>1. LinksSpent'
  BY DEF LinkInv, LinksSpent, LinksWait, Committing
<1>2. OldLinksDead'
  <2>1. \A k \in ResetTokens : reset[k].after \subseteq ResetTokens
    BY DEF TypeOK, ResetRows, NoReset
  <2>2. \A c \in Calls : call[c].seen \subseteq ResetTokens
    BY DEF TypeOK, CallRecords
  <2> QED
    BY <2>1, <2>2 DEF LinkInv, OldLinksDead, OldLinksAreDead, LinksWait
<1> QED
  BY <1>1, <1>2 DEF LinkInv

LEMMA LinkInit == Init => LinkInv
BY DEF Init, LinkInv, LinksSpent, OldLinksDead, OldLinksAreDead, Committing,
   NoReset, NoCall

LEMMA ConsumeKeepsLinks ==
  ASSUME TypeOK, LinkInv, NEW c \in Calls, Consume(c)
  PROVE  LinkInv'
<1>1. PICK k \in ResetTokens : k = call[c].token /\ reset[k] # NoReset
  BY DEF Consume, TypeOK, CallCarries
<1>2. CASE Ends(c) /\ UNCHANGED reset
  <2>1. LinksWait
    BY <1>2 DEF Consume, Ends, LinksWait, TypeOK, NoCall, history
  <2> QED
    BY <2>1, LinksWaitKeeps
<1>3. CASE /\ reset[k].state = "unused" /\ Goes(c, "commit")
           /\ reset' = [reset EXCEPT ![k].state = "used"]
  <2>1. /\ spent' = spent
        /\ call'[c] = [call[c] EXCEPT !.pc = "commit"]
        /\ call'[c].pc = "commit" /\ call'[c].token = k
        /\ \A d \in Calls : d # c => call'[d] = call[d]
    BY <1>1, <1>3 DEF Consume, Goes, TypeOK, CallRecords, history
  <2>2. /\ reset'[k] = [reset[k] EXCEPT !.state = "used"]
        /\ \A j \in ResetTokens : j # k => reset'[j] = reset[j]
    BY <1>3 DEF TypeOK
  <2>3. reset'[k].state = "used" /\ reset'[k].after = reset[k].after
    <3>1. reset[k] \in [state: {"unused", "used"}, user: Users, expired: BOOLEAN,
                        mailed: BOOLEAN, after: SUBSET ResetTokens]
      BY <1>1 DEF TypeOK, ResetRows
    <3> QED
      BY <2>2, <3>1
  <2>4. LinksSpent'
    <3>1. spent[k] = 0 /\ \A d \in Calls : ~Committing(d, k)
      BY <1>3 DEF LinkInv, LinksSpent
    <3>2. \A d \in Calls, j \in ResetTokens :
            Committing(d, j)' => (d = c /\ j = k) \/ (d # c /\ j # k /\ Committing(d, j))
      BY <2>1, <3>1 DEF Committing
    <3>3. \A j \in ResetTokens : reset'[j].state # "used" => j # k /\ reset[j].state # "used"
      BY <2>2, <2>3
    <3>4. spent' = spent
      BY <2>1
    <3> QED
      BY <3>1, <3>2, <3>3, <3>4 DEF LinkInv, LinksSpent
  <2>5. OldLinksDead'
    <3>1. \A j \in ResetTokens : reset[j].after \subseteq ResetTokens
      BY DEF TypeOK, ResetRows, NoReset
    <3>2. \A d \in Calls : call[d].seen \subseteq ResetTokens
      BY DEF TypeOK, CallRecords
    <3>3. \A j \in ResetTokens : /\ reset'[j].after = reset[j].after
                                 /\ reset[j].state = "used" => reset'[j].state = "used"
      BY <2>2, <2>3
    <3>4. \A d \in Calls : call'[d].pc = "insert" => call'[d] = call[d]
      BY <2>1
    <3> QED
      BY <3>1, <3>2, <3>3, <3>4 DEF LinkInv, OldLinksDead, OldLinksAreDead
  <2> QED
    BY <2>4, <2>5 DEF LinkInv
<1> QED
  BY <1>1, <1>2, <1>3 DEF Consume

LEMMA CommitKeepsLinks ==
  ASSUME TypeOK, LinkInv, NEW c \in Calls, CommitReset(c)
  PROVE  LinkInv'
<1>1. PICK k \in ResetTokens : k = call[c].token
  BY DEF CommitReset, TypeOK, CallCarries
<1>2. /\ spent' = [spent EXCEPT ![k] = @ + 1] /\ reset' = reset
      /\ Committing(c, k) /\ call'[c].pc = "done"
      /\ \A d \in Calls : d # c => call'[d] = call[d]
  BY <1>1 DEF CommitReset, Committing, Ends, NoCall, TypeOK
<1>3. spent'[k] = 1 /\ \A j \in ResetTokens : j # k => spent'[j] = spent[j]
  BY <1>2 DEF LinkInv, LinksSpent, TypeOK
<1>4. LinksSpent'
  BY <1>2, <1>3 DEF LinkInv, LinksSpent, Committing
<1>5. OldLinksDead'
  BY <1>2 DEF LinkInv, OldLinksDead, OldLinksAreDead
<1> QED
  BY <1>4, <1>5 DEF LinkInv

LEMMA InvalidateKeepsLinks ==
  ASSUME TypeOK, LinkInv, NEW c \in Calls, Invalidate(c)
  PROVE  LinkInv'
<1> DEFINE old == OwnTokens(call[c].user)
<1>1. /\ spent' = spent
      /\ call'[c] = [call[c] EXCEPT !.pc = "insert", !.seen = old]
      /\ \A d \in Calls : d # c => call'[d] = call[d]
  BY DEF Invalidate, TypeOK, history
<1>2. call'[c].pc = "insert" /\ call'[c].seen = old
  BY <1>1 DEF TypeOK, CallRecords
<1>3. \A k \in ResetTokens :
        reset'[k] = IF k \in old THEN [reset[k] EXCEPT !.state = "used"] ELSE reset[k]
  BY DEF Invalidate
<1> HIDE DEF old
<1>4. \A k \in ResetTokens : /\ k \in old \/ reset[k].state = "used" => reset'[k].state = "used"
                             /\ reset'[k].after = reset[k].after
  BY <1>3 DEF TypeOK, ResetRows, NoReset
<1>5. LinksSpent'
  <2>1. \A d \in Calls, j \in ResetTokens : Committing(d, j)' => Committing(d, j)
    BY <1>1, <1>2 DEF Committing
  <2>2. \A j \in ResetTokens : reset'[j].state # "used" => reset[j].state # "used"
    BY <1>4
  <2> QED
    BY <1>1, <2>1, <2>2 DEF LinkInv, LinksSpent
<1>6. OldLinksDead'
  <2>1. \A k \in ResetTokens : reset[k].after \subseteq ResetTokens
    BY DEF TypeOK, ResetRows, NoReset
  <2>2. \A d \in Calls : call[d].seen \subseteq ResetTokens
    BY DEF TypeOK, CallRecords
  <2>3. old \subseteq ResetTokens
    BY DEF old, OwnTokens
  <2> QED
    BY <1>1, <1>2, <1>4, <2>1, <2>2, <2>3 DEF LinkInv, OldLinksDead, OldLinksAreDead
<1> QED
  BY <1>5, <1>6 DEF LinkInv

LEMMA InsertKeepsLinks ==
  ASSUME TypeOK, LinkInv, NEW c \in Calls, InsertResetToken(c)
  PROVE  LinkInv'
<1>1. PICK k \in ResetTokens :
        /\ reset[k] = NoReset
        /\ reset' = [reset EXCEPT ![k] =
             [state |-> "unused", user |-> call[c].user, expired |-> FALSE,
              mailed |-> FALSE, after |-> call[c].seen]]
        /\ call' = [call EXCEPT ![c] = [NoCall("mail") EXCEPT !.token = k]]
  BY DEF InsertResetToken
<1>2. /\ spent' = spent /\ call[c].pc = "insert" /\ call'[c].pc = "mail"
      /\ \A d \in Calls : d # c => call'[d] = call[d]
  BY <1>1 DEF InsertResetToken, TypeOK, NoCall, history
<1>3. /\ reset[k].state = "absent" /\ reset'[k].state = "unused"
      /\ reset'[k].after = call[c].seen
      /\ \A j \in ResetTokens : j # k => reset'[j] = reset[j]
  BY <1>1 DEF TypeOK, NoReset
<1>4. LinksSpent'
  <2>1. \A d \in Calls, j \in ResetTokens : Committing(d, j)' => Committing(d, j)
    BY <1>2 DEF Committing
  <2>2. \A j \in ResetTokens : reset'[j].state # "used" => reset[j].state # "used"
    BY <1>3
  <2> QED
    BY <1>2, <2>1, <2>2 DEF LinkInv, LinksSpent
<1>5. OldLinksDead'
  <2>1. \A j \in ResetTokens : reset[j].after \subseteq ResetTokens
    BY DEF TypeOK, ResetRows, NoReset
  <2>2. \A d \in Calls : call[d].seen \subseteq ResetTokens
    BY DEF TypeOK, CallRecords
  <2>3. \A j \in ResetTokens : reset[j].state = "used" => reset'[j].state = "used"
    BY <1>3
  <2> QED
    BY <1>2, <1>3, <2>1, <2>2, <2>3 DEF LinkInv, OldLinksDead, OldLinksAreDead
<1> QED
  BY <1>4, <1>5 DEF LinkInv

\* The call that ends or goes on to issue is the only one to move.
LEMMA Moved ==
  ASSUME TypeOK, NEW c \in Calls, NEW rec, rec.pc \in {"issue", "done"},
         call' = [call EXCEPT ![c] = rec]
  PROVE  /\ call'[c].pc \in {"issue", "done"}
         /\ \A e \in Calls : e # c => call'[e] = call[e]
BY DEF TypeOK

LEMMA LinkNext ==
  ASSUME TypeOK, LinkInv, [Next]_vars
  PROVE  LinkInv'
<1>1. ASSUME NEW c \in Calls, NEW u \in Users, NEW pw \in Passwords, SignUp(c, u, pw) \/ SignIn(c, u, pw)
      PROVE  LinkInv'
  <2>1. LinksWait
    BY <1>1 DEF SignUp, SignIn, Starts, LinksWait, TypeOK, NoCall, history
  <2> QED
    BY <2>1, LinksWaitKeeps
<1>2. ASSUME NEW c \in Calls, NEW t \in RefreshTokens, Refresh(c, t) \/ SignOut(c, t)
      PROVE  LinkInv'
  <2>1. LinksWait
    BY <1>2 DEF Refresh, SignOut, Starts, LinksWait, TypeOK, NoCall, history
  <2> QED
    BY <2>1, LinksWaitKeeps
<1>3. ASSUME NEW c \in Calls, NEW u \in Users, ForgotPassword(c, u)
      PROVE  LinkInv'
  <2>1. LinksWait
    BY <1>3 DEF ForgotPassword, Starts, LinksWait, TypeOK, NoCall, history
  <2> QED
    BY <2>1, LinksWaitKeeps
<1>4. ASSUME NEW c \in Calls, NEW k \in ResetTokens, NEW pw \in Passwords, ResetPassword(c, k, pw)
      PROVE  LinkInv'
  <2>1. LinksWait
    BY <1>4 DEF ResetPassword, Starts, LinksWait, TypeOK, NoCall, history
  <2> QED
    BY <2>1, LinksWaitKeeps
<1>5. ASSUME NEW c \in Calls, CreateUser(c)
      PROVE  LinkInv'
  <2>1. LinksWait
    <3>1. /\ call'[c].pc \in {"issue", "done"}
          /\ \A d \in Calls : d # c => call'[d] = call[d]
      <4> DEFINE next == [NoCall("issue") EXCEPT !.user = call[c].user, !.chain = c, !.gen = gen[call[c].user]]
      <4>1. \/ call' = [call EXCEPT ![c] = NoCall("done")]
            \/ call' = [call EXCEPT ![c] = next]
        BY <1>5 DEF CreateUser, Ends
      <4>2. next.pc = "issue" /\ NoCall("done").pc = "done"
        BY DEF NoCall
      <4> HIDE DEF next
      <4> QED
        BY <4>1, <4>2, Moved
    <3>2. spent' = spent /\ reset' = reset
      BY <1>5 DEF CreateUser
    <3> QED
      BY <3>1, <3>2 DEF LinksWait
  <2> QED
    BY <2>1, LinksWaitKeeps
<1>6. ASSUME NEW c \in Calls, IssueSession(c)
      PROVE  LinkInv'
  <2>1. LinksWait
    BY <1>6 DEF IssueSession, Ends, LinksWait, TypeOK, NoCall, history
  <2> QED
    BY <2>1, LinksWaitKeeps
<1>7. ASSUME NEW c \in Calls, Rotate(c) \/ Revoke(c) \/ RevokedMeanwhile(c)
      PROVE  LinkInv'
  <2>1. LinksWait
    <3>1. /\ call'[c].pc \in {"issue", "done"}
          /\ \A d \in Calls : d # c => call'[d] = call[d]
      <4> DEFINE t == call[c].token
                 next == [NoCall("issue") EXCEPT !.user = refresh[t].user, !.chain = refresh[t].chain, !.gen = refresh[t].gen]
      <4>1. \/ call' = [call EXCEPT ![c] = NoCall("done")]
            \/ call' = [call EXCEPT ![c] = next]
        BY <1>7 DEF Rotate, Revoke, RevokedMeanwhile, Ends
      <4>2. next.pc = "issue" /\ NoCall("done").pc = "done"
        BY DEF NoCall
      <4> HIDE DEF next
      <4> QED
        BY <4>1, <4>2, Moved
    <3>2. spent' = spent /\ reset' = reset
      BY <1>7 DEF Rotate, Revoke, RevokedMeanwhile, history
    <3> QED
      BY <3>1, <3>2 DEF LinksWait
  <2> QED
    BY <2>1, LinksWaitKeeps
<1>8. ASSUME NEW t \in RefreshTokens, ExpireRefresh(t)
      PROVE  LinkInv'
  <2>1. LinksWait
    BY <1>8 DEF ExpireRefresh, LinksWait, TypeOK, NoCall, history
  <2> QED
    BY <2>1, LinksWaitKeeps
<1>9. ASSUME NEW c \in Calls, SendResetMail(c)
      PROVE  LinkInv'
  <2>1. PICK k \in ResetTokens : k = call[c].token /\ reset[k] # NoReset
    BY <1>9 DEF SendResetMail, TypeOK, CallCarries
  <2>2. PICK sent \in BOOLEAN : reset' = [reset EXCEPT ![k].mailed = sent]
    BY <1>9, <2>1 DEF SendResetMail
  <2>3. reset'[k] = [reset[k] EXCEPT !.mailed = sent]
        /\ \A j \in ResetTokens : j # k => reset'[j] = reset[j]
    BY <2>2 DEF TypeOK
  <2>4. reset[k] \in [state: {"unused", "used"}, user: Users, expired: BOOLEAN,
                      mailed: BOOLEAN, after: SUBSET ResetTokens]
    BY <2>1 DEF TypeOK, ResetRows
  <2>5. reset'[k].state = reset[k].state /\ reset'[k].after = reset[k].after
    BY <2>3, <2>4
  <2>6. /\ \A j \in ResetTokens : reset[j].state = "used" => reset'[j].state = "used"
        /\ \A j \in ResetTokens : reset'[j].after = reset[j].after
    BY <2>3, <2>5
  <2>7. spent' = spent /\ \A d \in Calls : call'[d].pc = "done" \/ call'[d] = call[d]
    BY <1>9 DEF SendResetMail, Ends, TypeOK, NoCall, history
  <2>8. LinksWait
    BY <2>6, <2>7 DEF LinksWait
  <2> QED
    BY <2>8, LinksWaitKeeps
<1>10. ASSUME NEW k \in ResetTokens, ExpireReset(k)
      PROVE  LinkInv'
  <2>1. reset'[k] = [reset[k] EXCEPT !.expired = TRUE]
        /\ \A j \in ResetTokens : j # k => reset'[j] = reset[j]
    BY <1>10 DEF ExpireReset, TypeOK
  <2>2. reset[k] \in [state: {"unused", "used"}, user: Users, expired: BOOLEAN,
                      mailed: BOOLEAN, after: SUBSET ResetTokens]
    BY <1>10 DEF ExpireReset, TypeOK, ResetRows, NoReset
  <2>3. reset'[k].state = reset[k].state /\ reset'[k].after = reset[k].after
    BY <2>1, <2>2
  <2>4. /\ \A j \in ResetTokens : reset[j].state = "used" => reset'[j].state = "used"
        /\ \A j \in ResetTokens : reset'[j].after = reset[j].after
    BY <2>1, <2>3
  <2>5. spent' = spent /\ call' = call
    BY <1>10 DEF ExpireReset, history
  <2>6. LinksWait
    BY <2>4, <2>5 DEF LinksWait
  <2> QED
    BY <2>6, LinksWaitKeeps
<1>11. CASE Restart
  <2>1. LinksWait
    <3>1. spent' = spent /\ reset' = reset
      BY <1>11 DEF Restart, history
    <3>2. \A c \in Calls : call'[c] = call[c] \/ call'[c].pc = "done"
      BY <1>11 DEF Restart, NoCall
    <3> QED
      BY <3>1, <3>2 DEF LinksWait
  <2> QED
    BY <2>1, LinksWaitKeeps
<1>12. CASE UNCHANGED vars
  <2>1. LinksWait
    <3>1. spent' = spent /\ reset' = reset /\ call' = call
      BY <1>12 DEF vars
    <3> QED
      BY <3>1 DEF LinksWait
  <2> QED
    BY <2>1, LinksWaitKeeps
<1> QED
  BY <1>1, <1>2, <1>3, <1>4, <1>5, <1>6, <1>7, <1>8, <1>9, <1>10, <1>11, <1>12, CallSteps,
     ConsumeKeepsLinks, CommitKeepsLinks, InvalidateKeepsLinks, InsertKeepsLinks, Zenon

(***************************************************************************)
(* One sign-up per e-mail: who inserted the row left it registered.         *)
(***************************************************************************)
SignUpInv == OneSignUpWins /\ \A u \in Users : creators[u] # {} => Registered(u)

LEMMA SignUpNext ==
  ASSUME TypeOK, SignUpInv, [Next]_vars
  PROVE  SignUpInv'
<1>1. ASSUME NEW c \in Calls, CreateUser(c)
      PROVE  SignUpInv'
  <2>1. call[c].user \in Users /\ call[c].password \in Passwords
    BY <1>1 DEF CreateUser, TypeOK, CallCarries
  <2> QED
    BY <1>1, <2>1, SessionsAssumption
       DEF CreateUser, SignUpInv, OneSignUpWins, Registered, TypeOK
<1>2. ASSUME NEW c \in Calls, CommitReset(c)
      PROVE  SignUpInv'
  <2>1. call[c].password \in Passwords
    BY <1>2 DEF CommitReset, TypeOK, CallCarries
  <2> QED
    BY <1>2, <2>1, SessionsAssumption
       DEF CommitReset, SignUpInv, OneSignUpWins, Registered, TypeOK
<1>3. CASE UNCHANGED <<password, creators>>
  BY <1>3 DEF SignUpInv, OneSignUpWins, Registered
<1>4. \/ \E c \in Calls : CreateUser(c) \/ CommitReset(c)
      \/ UNCHANGED <<password, creators>>
  BY CallSteps DEF vars, history, SignUp, SignIn, Refresh, SignOut, ForgotPassword,
     ResetPassword, IssueSession, Rotate, Revoke, RevokedMeanwhile, Invalidate,
     InsertResetToken, SendResetMail, Consume, ExpireRefresh, ExpireReset, Restart
<1> QED
  BY <1>1, <1>2, <1>3, <1>4

(***************************************************************************)
(* The theorems.                                                            *)
(***************************************************************************)
SessionsInv == TypeOK /\ HolderInv /\ LinkInv /\ SignUpInv

LEMMA SessionsInductive == Spec => []SessionsInv
<1>1. Init => SignUpInv
  BY DEF Init, SignUpInv, OneSignUpWins
<1>2. Init => SessionsInv
  BY <1>1, TypeInit, HolderInit, LinkInit DEF SessionsInv
<1>3. SessionsInv /\ [Next]_vars => SessionsInv'
  BY TypeNext, HolderNext, LinkNext, SignUpNext DEF SessionsInv
<1> QED
  BY <1>2, <1>3, PTL DEF Spec

\* Whatever the interleaving of auth.service, its rows stay well formed.
THEOREM SessionsAreTyped == Spec => []TypeOK
<1>1. SessionsInv => TypeOK
  BY DEF SessionsInv
<1> QED
  BY <1>1, SessionsInductive, PTL

\* rotate and revoke guard their UPDATE by what they read: of two concurrent
\* refreshes of one token one fails, for any number of calls and tokens.
THEOREM SessionsHaveOneHolder == Spec => []OneHolder
<1>1. SessionsInv => OneHolder
  BY DEF SessionsInv, HolderInv
<1> QED
  BY <1>1, SessionsInductive, PTL

\* resetPassword closes every older session it finds a row of; only a call
\* that stands between two tokens when it commits carries one past it.
THEOREM ResetClosesSessions == Spec => []OnlyLateSessionsSurvive
<1>1. SessionsInv => OnlyLateSessionsSurvive
  BY DEF SessionsInv, HolderInv, GenerationsKept, OnlyLateSessionsSurvive, Live
<1> QED
  BY <1>1, SessionsInductive, PTL

\* consume's WHERE used_at IS NULL lets one call through per mailed link.
THEOREM ResetLinksWorkOnce == Spec => []LinkWorksOnce
<1>1. SessionsInv => LinkWorksOnce
  BY DEF SessionsInv, LinkInv, LinksSpent, LinkWorksOnce
<1> QED
  BY <1>1, SessionsInductive, PTL

\* What issue invalidated before it inserted stays unusable.
THEOREM OlderLinksStayDead == Spec => []OldLinksAreDead
<1>1. SessionsInv => OldLinksAreDead
  BY DEF SessionsInv, LinkInv, OldLinksDead
<1> QED
  BY <1>1, SessionsInductive, PTL

\* The unique e-mail decides between concurrent sign-ups.
THEOREM SignUpsAreExclusive == Spec => []OneSignUpWins
<1>1. SessionsInv => OneSignUpWins
  BY DEF SessionsInv, SignUpInv
<1> QED
  BY <1>1, SessionsInductive, PTL

(***************************************************************************)
(* The refinement: what each step does to the sessions.                     *)
(***************************************************************************)
IsOpen(x) == \E t \in RefreshTokens : Unrevoked(t) /\ refresh[t].chain = x
HasRow(x) == \E t \in RefreshTokens : refresh[t].chain = x
IsMoving(x) == \E d \in Calls : Holding(d) /\ call[d].chain = x

Session == [c \in Calls |-> SessionOf(c)]

LEMMA SessionStates ==
  ASSUME NEW x
  PROVE  SessionOf(x) = IF IsOpen(x) THEN "open"
                        ELSE IF ~HasRow(x) THEN "none"
                        ELSE IF IsMoving(x) THEN "moving" ELSE "closed"
BY DEF SessionOf, IsOpen, HasRow, IsMoving

\* The same at the next state.
LEMMA SessionStatesNext ==
  ASSUME NEW x
  PROVE  SessionOf(x)' = IF IsOpen(x)' THEN "open"
                         ELSE IF ~HasRow(x)' THEN "none"
                         ELSE IF IsMoving(x)' THEN "moving" ELSE "closed"
BY DEF SessionOf, IsOpen, HasRow, IsMoving

\* An open session is not moving.
LEMMA OpenIsNotMoving ==
  ASSUME OneHolder, NEW x PROVE ~(IsOpen(x) /\ IsMoving(x))
BY DEF OneHolder, IsOpen, IsMoving

\* Where nobody becomes a holder, sessions close or stay.
LEMMA NoNewHolderCloses ==
  ASSUME OneHolder, NoNewHolder
  PROVE  Chain!Close
<1> DEFINE closed == {x \in Calls : SessionOf(x)' # SessionOf(x)}
<1>1. ASSUME NEW x \in Calls
      PROVE  \/ SessionOf(x)' = SessionOf(x)
             \/ SessionOf(x) \in {"open", "moving"} /\ SessionOf(x)' = "closed"
  <2>1. IsOpen(x)' => IsOpen(x)
    BY DEF IsOpen, NoNewHolder, Unrevoked, NoRefresh
  <2>2. HasRow(x)' <=> HasRow(x)
    BY DEF HasRow, NoNewHolder
  <2>3. IsMoving(x)' => IsMoving(x)
    BY DEF IsMoving, NoNewHolder, Holding
  <2>4. IsOpen(x) => HasRow(x)
    BY DEF IsOpen, HasRow
  <2> QED
    BY <2>1, <2>2, <2>3, <2>4, OpenIsNotMoving, SessionStates, SessionStatesNext
<1>2. closed \in SUBSET {x \in Calls : Session[x] \in {"open", "moving"}}
  BY <1>1 DEF Session
<1>3. Session' = [x \in Calls |-> IF x \in closed THEN "closed" ELSE Session[x]]
  BY <1>1 DEF Session
<1> QED
  BY <1>2, <1>3 DEF Chain!Close, Session

\* Opening a session leaves it without a token yet.
LEMMA OpeningStutters ==
  ASSUME TypeOK, HolderInv, NEW c \in Calls, NEW u, NEW n, Unopened(c),
         call' = [call EXCEPT ![c] = [NoCall("issue") EXCEPT
                                        !.user = u, !.chain = c, !.gen = n]],
         refresh' = refresh
  PROVE  Session' = Session
<1>1. call'[c].chain = c /\ \A d \in Calls : d # c => call'[d] = call[d]
  BY DEF TypeOK, NoCall
<1>2. ~HasRow(c) /\ ~IsOpen(c)
  BY SessionsAssumption
     DEF HolderInv, ChainsAreOpened, HasRow, IsOpen, NoRefresh
<1>3. call[c].pc # "issue"
  BY DEF Unopened
<1>4. ASSUME NEW x \in Calls
      PROVE  SessionOf(x)' = SessionOf(x)
  <2>1. (IsOpen(x)' <=> IsOpen(x)) /\ (HasRow(x)' <=> HasRow(x))
    BY DEF IsOpen, HasRow, Unrevoked
  <2>2. x # c => (IsMoving(x)' <=> IsMoving(x))
    BY <1>1, <1>3 DEF IsMoving, Holding
  <2> QED
    BY <1>2, <2>1, <2>2, SessionStates, SessionStatesNext
<1> QED
  BY <1>4 DEF Session

\* rotate takes its session from open to moving.
LEMMA RotateGivesUp ==
  ASSUME TypeOK, OneHolder, NEW c \in Calls, Rotate(c)
  PROVE  \E x \in Calls : Chain!GiveUp(x)
<1>1. PICK t \in RefreshTokens : t = call[c].token
  BY DEF Rotate, TypeOK, CallCarries
<1>2. /\ refresh[t].state = "live" /\ refresh[t] # NoRefresh
      /\ refresh' = [refresh EXCEPT ![t].state = "revoked"]
  BY <1>1 DEF Rotate, RevokeRow, Unrevoked, NoRefresh
<1>3. PICK x \in Calls : x = refresh[t].chain
  BY <1>2, RowChanged
<1>4. /\ call'[c].pc = "issue" /\ call'[c].chain = x /\ call[c].pc = "rotate"
      /\ \A d \in Calls : d # c => call'[d] = call[d]
  BY <1>1, <1>3 DEF Rotate, TypeOK, NoCall
<1>5. /\ refresh'[t].chain = x
      /\ \A s \in RefreshTokens : s # t => refresh'[s] = refresh[s]
  BY <1>2, <1>3, RowChanged
<1>6. refresh'[t].state = "revoked"
  <2>1. refresh[t] \in [state: {"live", "revoked"}, user: Users, chain: Calls, gen: Nat,
                        expired: BOOLEAN]
    BY <1>2 DEF TypeOK, RefreshRows
  <2> QED
    BY <1>2, <2>1 DEF TypeOK
<1>7. SessionOf(x) = "open"
  BY <1>2, <1>3, SessionStates DEF IsOpen, Unrevoked
<1>8. SessionOf(x)' = "moving"
  <2>1. ~IsOpen(x)'
    BY <1>2, <1>3, <1>5, <1>6 DEF IsOpen, OneHolder, Unrevoked
  <2>2. HasRow(x)'
    BY <1>5 DEF HasRow
  <2>3. IsMoving(x)'
    BY <1>4 DEF IsMoving, Holding
  <2> QED
    BY <2>1, <2>2, <2>3, SessionStatesNext
<1>9. ASSUME NEW y \in Calls, y # x
      PROVE  SessionOf(y)' = SessionOf(y)
  <2>1. (IsOpen(y)' <=> IsOpen(y)) /\ (HasRow(y)' <=> HasRow(y))
    BY <1>3, <1>5, <1>9 DEF IsOpen, HasRow, Unrevoked
  <2>2. IsMoving(y)' <=> IsMoving(y)
    BY <1>4, <1>9 DEF IsMoving, Holding
  <2> QED
    BY <2>1, <2>2, SessionStates, SessionStatesNext
<1>10. Session' = [Session EXCEPT ![x] = "moving"]
  BY <1>8, <1>9 DEF Session
<1> QED
  BY <1>7, <1>10 DEF Chain!GiveUp, Chain!Become, Session

\* issue opens the session: a new one, or one that was moving.
LEMMA IssueOpens ==
  ASSUME TypeOK, OneHolder, NEW c \in Calls, IssueSession(c)
  PROVE  \E x \in Calls : Chain!Open(x) \/ Chain!Renew(x)
<1>1. PICK t \in RefreshTokens :
        /\ refresh[t] = NoRefresh
        /\ refresh' = [refresh EXCEPT ![t] =
             [state |-> "live", user |-> call[c].user, chain |-> call[c].chain,
              gen |-> call[c].gen, expired |-> FALSE]]
  BY DEF IssueSession
<1>2. PICK x \in Calls : x = call[c].chain
  BY DEF IssueSession, Holding, TypeOK, CallCarries
<1>3. /\ refresh'[t].state = "live" /\ refresh'[t].chain = x
      /\ refresh[t].state = "absent" /\ refresh[t].chain = Nobody
      /\ \A s \in RefreshTokens : s # t => refresh'[s] = refresh[s]
  BY <1>1, <1>2 DEF TypeOK, NoRefresh
<1>4. /\ Holding(c) /\ call'[c].pc = "done"
      /\ \A d \in Calls : d # c => call'[d] = call[d]
  BY DEF IssueSession, Ends, NoCall, TypeOK
<1>5. SessionOf(x) \in {"none", "moving"}
  <2>1. IsMoving(x)
    BY <1>2, <1>4 DEF IsMoving
  <2> QED
    BY <2>1, OpenIsNotMoving, SessionStates
<1>6. SessionOf(x)' = "open"
  BY <1>3, SessionStatesNext DEF IsOpen, Unrevoked
<1>7. ASSUME NEW y \in Calls, y # x
      PROVE  SessionOf(y)' = SessionOf(y)
  <2>1. (IsOpen(y)' <=> IsOpen(y)) /\ (HasRow(y)' <=> HasRow(y))
    BY <1>3, <1>7, SessionsAssumption DEF IsOpen, HasRow, Unrevoked
  <2>2. IsMoving(y)' <=> IsMoving(y)
    BY <1>2, <1>4, <1>7 DEF IsMoving, Holding
  <2> QED
    BY <2>1, <2>2, SessionStates, SessionStatesNext
<1>8. Session' = [Session EXCEPT ![x] = "open"]
  BY <1>6, <1>7 DEF Session
<1> QED
  BY <1>5, <1>8 DEF Chain!Open, Chain!Renew, Chain!Become, Session

\* Seen without their tokens, the sessions of any number of users keep the
\* promise of SessionChain: opened once, held once, closed for good.
THEOREM SessionsImplementChains == Spec => ImplementsSessionChain
<1>1. Init => Chain!Init
  BY SessionsAssumption, SessionStates
     DEF Init, Chain!Init, IsOpen, HasRow, Unrevoked, NoRefresh
<1>2. ASSUME SessionsInv, [Next]_vars
      PROVE  Chain!Next \/ Session' = Session
  <2>1. TypeOK /\ HolderInv /\ OneHolder
    BY <1>2 DEF SessionsInv, HolderInv
  <2>2. CASE NoNewHolder
    BY <2>1, <2>2, NoNewHolderCloses DEF Chain!Next
  <2>3. ASSUME NEW c \in Calls, Opens(c)
        PROVE  Session' = Session
    BY <2>1, <2>3, OpeningStutters DEF Opens
  <2>4. ASSUME NEW c \in Calls, Rotate(c)
        PROVE  Chain!Next
    BY <2>1, <2>4, RotateGivesUp DEF Chain!Next
  <2>5. ASSUME NEW c \in Calls, IssueSession(c)
        PROVE  Chain!Next
    BY <2>1, <2>5, IssueOpens DEF Chain!Next
  <2> QED
    BY <1>2, <2>1, <2>2, <2>3, <2>4, <2>5, StepKinds, ResetIsQuiet DEF Quiet
<1>3. SessionsInv /\ [Next]_vars => [Chain!Next]_Session
  BY <1>2
<1> QED
  BY <1>1, <1>3, SessionsInductive, PTL DEF Spec, ImplementsSessionChain, Chain!Spec, Session
=============================================================================
