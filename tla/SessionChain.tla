---------------------------- MODULE SessionChain ----------------------------
(***************************************************************************)
(* What sign-in promises: a session is opened once, passes from one        *)
(* refresh token to the next, and once closed stays closed.                *)
(***************************************************************************)
CONSTANT Chains

VARIABLE session

Init == session = [c \in Chains |-> "none"]

Become(c, from, to) ==
  /\ session[c] \in from
  /\ session' = [session EXCEPT ![c] = to]

Open(c)   == Become(c, {"none"}, "open")
GiveUp(c) == Become(c, {"open"}, "moving")     \* the token was spent ...
Renew(c)  == Become(c, {"moving"}, "open")     \* ... and its successor issued

\* A password reset closes all the sessions of its user at once, a restart
\* all those that were moving.
Close ==
  \E closed \in SUBSET {c \in Chains : session[c] \in {"open", "moving"}} :
    session' = [c \in Chains |-> IF c \in closed THEN "closed" ELSE session[c]]

Next == Close \/ \E c \in Chains : Open(c) \/ GiveUp(c) \/ Renew(c)

Spec == Init /\ [][Next]_session
=============================================================================
