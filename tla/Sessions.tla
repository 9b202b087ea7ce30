------------------------------ MODULE Sessions ------------------------------
(***************************************************************************)
(* Accounts, refresh tokens and password-reset tokens.                     *)
(*                                                                         *)
(* A request is a call that awaits between its statements; each statement  *)
(* (or transaction) is one action, so calls interleave where the service   *)
(* awaits. A request refused at its first read changes nothing and needs   *)
(* no action. Access tokens are stateless and leave no trace here.         *)
(***************************************************************************)
EXTENDS Naturals

CONSTANTS
  Users,          \* accounts, named by their unique e-mail
  Passwords,
  NoPassword,     \* no account has this e-mail yet
  Calls,          \* requests; each is made once
  RefreshTokens,  \* opaque tokens generateOpaqueToken may draw
  ResetTokens,
  Nobody          \* fills the unused fields of a row or a call

ASSUME SessionsAssumption ==
  /\ NoPassword \notin Passwords
  /\ Nobody \notin Users \cup Calls \cup RefreshTokens \cup ResetTokens

VARIABLES
  password,   \* users.password_hash, up to the hash
  gen,        \* history: password resets committed for the user
  refresh,    \* refresh_tokens
  reset,      \* password_reset_tokens, and whether the mail left
  call,       \* the requests in flight
  creators,   \* history: sign-ups that inserted the user
  spent,      \* history: resets committed with the reset token
  late        \* history: sessions a reset found between two tokens

vars == <<password, gen, refresh, reset, call, creators, spent, late>>
history == <<gen, creators, spent, late>>

States == {"idle", "create", "issue", "rotate", "signOut", "invalidate",
           "insert", "mail", "consume", "commit", "done"}

NoCall(state) == [pc |-> state, user |-> Nobody, token |-> Nobody,
                  chain |-> Nobody, gen |-> 0, password |-> NoPassword,
                  seen |-> {}]
NoRefresh == [state |-> "absent", user |-> Nobody, chain |-> Nobody,
              gen |-> 0, expired |-> FALSE]
NoReset == [state |-> "absent", user |-> Nobody, expired |-> FALSE,
            mailed |-> FALSE, after |-> {}]

Init ==
  /\ password \in [Users -> Passwords \cup {NoPassword}]
  /\ gen = [u \in Users |-> 0]
  /\ refresh = [t \in RefreshTokens |-> NoRefresh]
  /\ reset = [k \in ResetTokens |-> NoReset]
  /\ call = [c \in Calls |-> NoCall("idle")]
  /\ creators = [u \in Users |-> {}]
  /\ spent = [k \in ResetTokens |-> 0]
  /\ late = {}

Registered(u) == password[u] # NoPassword
Unrevoked(t) == refresh[t].state = "live"
Live(t) == Unrevoked(t) /\ ~refresh[t].expired
Holding(c) == call[c].pc = "issue"

Ends(c) == call' = [call EXCEPT ![c] = NoCall("done")]
Goes(c, pc) == call' = [call EXCEPT ![c].pc = pc]
Starts(c, rec) == call[c].pc = "idle" /\ call' = [call EXCEPT ![c] = rec]

(***************************************************************************)
(* signUp and signIn.                                                      *)
(***************************************************************************)
SignUp(c, u, pw) ==
  /\ ~Registered(u)
  /\ Starts(c, [NoCall("create") EXCEPT !.user = u, !.password = pw])
  /\ UNCHANGED <<password, refresh, reset, history>>

\* user.create: the unique e-mail refuses the second of two sign-ups that
\* both passed the lookup.
CreateUser(c) ==
  LET u == call[c].user IN
  /\ call[c].pc = "create"
  /\ \/ /\ Registered(u)
        /\ Ends(c)
        /\ UNCHANGED <<password, creators>>
     \/ /\ ~Registered(u)
        /\ password' = [password EXCEPT ![u] = call[c].password]
        /\ creators' = [creators EXCEPT ![u] = @ \cup {c}]
        /\ call' = [call EXCEPT ![c] = [NoCall("issue") EXCEPT
                                    !.user = u, !.chain = c, !.gen = gen[u]]]
  /\ UNCHANGED <<gen, refresh, reset, spent, late>>

\* The row is read and the password compared with that read.
SignIn(c, u, pw) ==
  /\ Registered(u) /\ password[u] = pw
  /\ Starts(c, [NoCall("issue") EXCEPT !.user = u, !.chain = c, !.gen = gen[u]])
  /\ UNCHANGED <<password, refresh, reset, history>>

\* issueSession: whatever happened since the call's last read.
IssueSession(c) ==
  /\ Holding(c)
  /\ \E t \in RefreshTokens :
       /\ refresh[t] = NoRefresh
       /\ refresh' = [refresh EXCEPT ![t] =
            [state |-> "live", user |-> call[c].user, chain |-> call[c].chain,
             gen |-> call[c].gen, expired |-> FALSE]]
  /\ Ends(c)
  /\ UNCHANGED <<password, reset, history>>

(***************************************************************************)
(* refreshTokens and signOut: a read, then the guarded revocation.         *)
(***************************************************************************)
Refresh(c, t) ==
  /\ Live(t)
  /\ Starts(c, [NoCall("rotate") EXCEPT !.token = t])
  /\ UNCHANGED <<password, refresh, reset, history>>

SignOut(c, t) ==
  /\ Unrevoked(t)
  /\ Starts(c, [NoCall("signOut") EXCEPT !.token = t])
  /\ UNCHANGED <<password, refresh, reset, history>>

\* Mutant of RevokeRow: the UPDATE's count is not looked at.
RevokeRowUnchecked(t) ==
  refresh' = [refresh EXCEPT ![t].state = "revoked"]

\* revokeRowOrThrow, when its UPDATE hits the row.
RevokeRow(t) ==
  /\ Unrevoked(t)
  /\ refresh' = [refresh EXCEPT ![t].state = "revoked"]

Rotate(c) ==
  LET t == call[c].token IN
  /\ call[c].pc = "rotate"
  /\ RevokeRow(t)
  /\ call' = [call EXCEPT ![c] = [NoCall("issue") EXCEPT
                !.user = refresh[t].user, !.chain = refresh[t].chain,
                !.gen = refresh[t].gen]]
  /\ UNCHANGED <<password, reset, history>>

Revoke(c) ==
  /\ call[c].pc = "signOut"
  /\ RevokeRow(call[c].token)
  /\ Ends(c)
  /\ UNCHANGED <<password, reset, history>>

\* ... and when it hits none, the call is refused.
RevokedMeanwhile(c) ==
  /\ call[c].pc \in {"rotate", "signOut"}
  /\ refresh[call[c].token].state = "revoked"
  /\ Ends(c)
  /\ UNCHANGED <<password, refresh, reset, history>>

(***************************************************************************)
(* forgotPassword: look the user up, use up old tokens, insert, mail.      *)
(***************************************************************************)
ForgotPassword(c, u) ==
  /\ Registered(u)
  /\ Starts(c, [NoCall("invalidate") EXCEPT !.user = u])
  /\ UNCHANGED <<password, refresh, reset, history>>

OwnTokens(u) == {k \in ResetTokens : reset[k].user = u}

\* Mutant of Invalidate: older links stay usable.
InvalidateNone(c) ==
  /\ call[c].pc = "invalidate"
  /\ call' = [call EXCEPT ![c].pc = "insert", ![c].seen = OwnTokens(call[c].user)]
  /\ UNCHANGED <<password, refresh, reset, history>>

Invalidate(c) ==
  LET old == OwnTokens(call[c].user) IN
  /\ call[c].pc = "invalidate"
  /\ reset' = [k \in ResetTokens |->
       IF k \in old THEN [reset[k] EXCEPT !.state = "used"] ELSE reset[k]]
  /\ call' = [call EXCEPT ![c].pc = "insert", ![c].seen = old]
  /\ UNCHANGED <<password, refresh, history>>

InsertResetToken(c) ==
  /\ call[c].pc = "insert"
  /\ \E k \in ResetTokens :
       /\ reset[k] = NoReset
       /\ reset' = [reset EXCEPT ![k] =
            [state |-> "unused", user |-> call[c].user, expired |-> FALSE,
             mailed |-> FALSE, after |-> call[c].seen]]
       /\ call' = [call EXCEPT ![c] = [NoCall("mail") EXCEPT !.token = k]]
  /\ UNCHANGED <<password, refresh, history>>

\* The mail leaves, or the mail server refuses it and the token is useless.
SendResetMail(c) ==
  /\ call[c].pc = "mail"
  /\ \E sent \in BOOLEAN :
       reset' = [reset EXCEPT ![call[c].token].mailed = sent]
  /\ Ends(c)
  /\ UNCHANGED <<password, refresh, history>>

(***************************************************************************)
(* resetPassword: consume the token, hash, then one transaction.           *)
(***************************************************************************)
ResetPassword(c, k, pw) ==
  /\ reset[k].state = "unused" /\ reset[k].mailed /\ ~reset[k].expired
  /\ Starts(c, [NoCall("consume") EXCEPT !.token = k, !.password = pw])
  /\ UNCHANGED <<password, refresh, reset, history>>

\* Mutant of Consume: the token is marked without WHERE used_at IS NULL.
ConsumeUnguarded(c) ==
  /\ call[c].pc = "consume"
  /\ reset' = [reset EXCEPT ![call[c].token].state = "used"]
  /\ Goes(c, "commit")
  /\ UNCHANGED <<password, refresh, history>>

Consume(c) ==
  LET k == call[c].token IN
  /\ call[c].pc = "consume"
  /\ \/ /\ reset[k].state = "unused"
        /\ reset' = [reset EXCEPT ![k].state = "used"]
        /\ Goes(c, "commit")
     \/ /\ reset[k].state = "used"
        /\ Ends(c)
        /\ UNCHANGED reset
  /\ UNCHANGED <<password, refresh, history>>

\* Mutant of RevokeAllForUser: only one session of the user is closed.
RevokeOneForUser(u) ==
  \E t \in RefreshTokens :
    /\ refresh[t].user = u
    /\ refresh' = [refresh EXCEPT ![t].state = "revoked"]

RevokeAllForUser(u) ==
  refresh' = [t \in RefreshTokens |->
    IF refresh[t].user = u THEN [refresh[t] EXCEPT !.state = "revoked"] ELSE refresh[t]]

\* The transaction: new password, and every refresh token there is revoked.
\* What is in flight between two tokens has no row to revoke.
CommitReset(c) ==
  LET k == call[c].token
      u == reset[k].user
  IN
  /\ call[c].pc = "commit"
  /\ password' = [password EXCEPT ![u] = call[c].password]
  /\ RevokeAllForUser(u)
  /\ gen' = [gen EXCEPT ![u] = @ + 1]
  /\ spent' = [spent EXCEPT ![k] = @ + 1]
  /\ late' = late \cup {call[d].chain : d \in {e \in Calls : Holding(e) /\ call[e].user = u}}
  /\ Ends(c)
  /\ UNCHANGED <<reset, creators>>

(***************************************************************************)
(* Time and failures.                                                      *)
(***************************************************************************)
ExpireRefresh(t) ==
  /\ Live(t)
  /\ refresh' = [refresh EXCEPT ![t].expired = TRUE]
  /\ UNCHANGED <<password, reset, call, history>>

ExpireReset(k) ==
  /\ reset[k].state = "unused" /\ ~reset[k].expired
  /\ reset' = [reset EXCEPT ![k].expired = TRUE]
  /\ UNCHANGED <<password, refresh, call, history>>

\* The server stops: the calls in flight are gone, what they committed stays.
Restart ==
  /\ \E c \in Calls : call[c].pc \notin {"idle", "done"}
  /\ call' = [c \in Calls |-> IF call[c].pc = "idle" THEN call[c] ELSE NoCall("done")]
  /\ UNCHANGED <<password, refresh, reset, history>>

Request(c) ==
  \/ \E u \in Users, pw \in Passwords : SignUp(c, u, pw) \/ SignIn(c, u, pw)
  \/ \E t \in RefreshTokens : Refresh(c, t) \/ SignOut(c, t)
  \/ \E u \in Users : ForgotPassword(c, u)
  \/ \E k \in ResetTokens, pw \in Passwords : ResetPassword(c, k, pw)

Continue(c) ==
  \/ CreateUser(c) \/ IssueSession(c)
  \/ Rotate(c) \/ Revoke(c) \/ RevokedMeanwhile(c)
  \/ Invalidate(c) \/ InsertResetToken(c) \/ SendResetMail(c)
  \/ Consume(c) \/ CommitReset(c)

Next ==
  \/ \E c \in Calls : Request(c) \/ Continue(c)
  \/ \E t \in RefreshTokens : ExpireRefresh(t)
  \/ \E k \in ResetTokens : ExpireReset(k)
  \/ Restart

Spec == Init /\ [][Next]_vars

(***************************************************************************)
(* Properties.                                                             *)
(***************************************************************************)
RefreshRows ==
  {NoRefresh} \cup
  [state: {"live", "revoked"}, user: Users, chain: Calls, gen: Nat, expired: BOOLEAN]
ResetRows ==
  {NoReset} \cup
  [state: {"unused", "used"}, user: Users, expired: BOOLEAN, mailed: BOOLEAN,
   after: SUBSET ResetTokens]

CallRecords ==
  [pc: States, user: Users \cup {Nobody},
   token: RefreshTokens \cup ResetTokens \cup {Nobody},
   chain: Calls \cup {Nobody}, gen: Nat,
   password: Passwords \cup {NoPassword}, seen: SUBSET ResetTokens]

\* What a call carries across its next await: a user, and rows that exist.
CallCarries(c) ==
  LET r == call[c] IN
  /\ r.pc \in {"create", "issue", "invalidate", "insert"} => r.user \in Users
  /\ r.pc = "issue" => r.chain \in Calls
  /\ r.pc \in {"create", "consume", "commit"} => r.password \in Passwords
  /\ r.pc \in {"rotate", "signOut"} =>
       r.token \in RefreshTokens /\ refresh[r.token] # NoRefresh
  /\ r.pc \in {"mail", "consume", "commit"} =>
       r.token \in ResetTokens /\ reset[r.token] # NoReset

\* Rows and calls are well formed: every session belongs to a user and was
\* opened by a call, and what a call read before an await is still there after.
TypeOK ==
  /\ password \in [Users -> Passwords \cup {NoPassword}]
  /\ gen \in [Users -> Nat]
  /\ refresh \in [RefreshTokens -> RefreshRows]
  /\ reset \in [ResetTokens -> ResetRows]
  /\ call \in [Calls -> CallRecords]
  /\ \A c \in Calls : CallCarries(c)
  /\ creators \in [Users -> SUBSET Calls]
  /\ spent \in [ResetTokens -> Nat]
  /\ late \subseteq Calls

\* A session has one holder: its one unrevoked token, or the one call that spent
\* it and has not issued the next. Two concurrent refreshes of a token never
\* both win (refresh-token.service.ts:41).
OneHolder ==
  /\ \A t, s \in RefreshTokens :
       Unrevoked(t) /\ Unrevoked(s) /\ refresh[t].chain = refresh[s].chain => t = s
  /\ \A c, d \in Calls :
       Holding(c) /\ Holding(d) /\ call[c].chain = call[d].chain => c = d
  /\ \A t \in RefreshTokens, c \in Calls :
       ~(Unrevoked(t) /\ Holding(c) /\ refresh[t].chain = call[c].chain)

\* Of the sessions opened with an older password, a reset closes all but
\* those it found between two tokens.
OnlyLateSessionsSurvive ==
  \A t \in RefreshTokens :
    Live(t) => refresh[t].gen = gen[refresh[t].user] \/ refresh[t].chain \in late

\* "A reset must ... kill any session an attacker may already hold"
\* (auth.service.ts:133).
NoSessionOutlivesReset ==
  \A t \in RefreshTokens : Live(t) => refresh[t].gen = gen[refresh[t].user]

\* A mailed link changes the password at most once, however many requests
\* present it at the same time.
LinkWorksOnce == \A k \in ResetTokens : spent[k] <= 1

\* A link that existed when a later forgotPassword ran its UPDATE is dead.
\* (Two that overlap may both insert after both UPDATEs.)
OldLinksAreDead ==
  \A k \in ResetTokens : \A j \in reset[k].after : reset[j].state = "used"

\* Two sign-ups with one e-mail: one account, one password, one session.
OneSignUpWins == \A u \in Users : \A c, d \in creators[u] : c = d

\* The sessions, seen without their tokens, keep SessionChain.
SessionOf(c) ==
  IF \E t \in RefreshTokens : Unrevoked(t) /\ refresh[t].chain = c THEN "open"
  ELSE IF \A t \in RefreshTokens : refresh[t].chain # c THEN "none"
  ELSE IF \E d \in Calls : Holding(d) /\ call[d].chain = c THEN "moving"
  ELSE "closed"

Chain == INSTANCE SessionChain WITH
  Chains <- Calls,
  session <- [c \in Calls |-> SessionOf(c)]
ImplementsSessionChain == Chain!Spec
=============================================================================
