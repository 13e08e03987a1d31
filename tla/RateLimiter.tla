---------------------------- MODULE RateLimiter -----------------------------
(***************************************************************************)
(* The middleware in front of the auction's handlers (13,14-day): the user *)
(* of a request comes from its X-User-ID header, and his bids take tokens  *)
(* from a bucket that is filled again when a window has passed.            *)
(***************************************************************************)
EXTENDS Naturals, Sequences, FiniteSets

CONSTANTS
  Users,
  Limit,       \* bids, 5 in main
  Period,      \* the window, a minute in main
  MaxTime,     \* bound on the clock
  MaxRequests  \* bound on the requests

ASSUME LimiterConstants == Limit \in Nat \ {0} /\ Period \in Nat /\ MaxTime \in Nat

VARIABLES
  buckets,   \* by user: [tokens, lastRefill], or NoBucket
  admitted,  \* history: when each user's bids were let through
  refused,   \* history: the user and time of the last bid refused
  requests,  \* requests so far
  now

limiterVars == <<buckets, admitted, refused, requests, now>>

NoBucket == [tokens |-> 0, lastRefill |-> MaxTime + 1]
Nobody == [user |-> "nobody", at |-> 0]
NoHeader == "none"

LimiterInit ==
  /\ buckets = [u \in Users |-> NoBucket] /\ admitted = [u \in Users |-> <<>>]
  /\ refused = Nobody /\ requests = 0 /\ now = 0

\* Broken variant: the bucket is filled again and its clock not.
Refilled_KeepsTime(b) == IF now - b.lastRefill >= Period THEN [b EXCEPT !.tokens = Limit] ELSE b

Refilled(b) == IF now - b.lastRefill >= Period THEN [tokens |-> Limit, lastRefill |-> now] ELSE b

\* allow, under the limiter's mutex: the bucket after the request, and whether it passes.
Allow(b) ==
  IF b = NoBucket THEN [bucket |-> [tokens |-> Limit - 1, lastRefill |-> now], pass |-> TRUE]
  ELSE LET r == Refilled(b)
       IN  IF r.tokens = 0 THEN [bucket |-> r, pass |-> FALSE]
           ELSE [bucket |-> [r EXCEPT !.tokens = @ - 1], pass |-> TRUE]

\* A bid of user u.
Bid(u) ==
  LET a == Allow(buckets[u])
  IN  /\ buckets' = [buckets EXCEPT ![u] = a.bucket]
      /\ admitted' = IF a.pass THEN [admitted EXCEPT ![u] = Append(@, now)] ELSE admitted
      /\ refused' = IF a.pass THEN Nobody ELSE [user |-> u, at |-> now]

\* Only bids whose header names a user are limited.
Request ==
  /\ requests < MaxRequests /\ requests' = requests + 1
  /\ \E header \in Users \cup {NoHeader}, isBid \in BOOLEAN :
       IF isBid /\ header # NoHeader THEN Bid(header)
       ELSE refused' = Nobody /\ UNCHANGED <<buckets, admitted>>
  /\ UNCHANGED now

LimiterTick == now < MaxTime /\ now' = now + 1 /\ refused' = Nobody /\ UNCHANGED <<buckets, admitted, requests>>

LimiterNext == Request \/ LimiterTick

LimiterSpec == LimiterInit /\ [][LimiterNext]_limiterVars

-----------------------------------------------------------------------------

\* Which bids of u were let through from time t on, and before t + Period.
Passed(u, t) == {k \in DOMAIN admitted[u] : admitted[u][k] \in t..(t + Period - 1)}

\* RateBounded: a user gets through less than twice the limit in any stretch as long as the window
\* (not the limit itself: a late refill may follow a burst), and is refused only when he
\* has had the limit within it.
RateBounded ==
  /\ \A u \in Users, t \in 0..MaxTime : Cardinality(Passed(u, t)) < 2 * Limit
  /\ refused # Nobody =>
       \E t \in 0..now : t + Period > refused.at /\ Cardinality(Passed(refused.user, t)) >= Limit
=============================================================================
