------------------------------ MODULE RateLimit ------------------------------
(***************************************************************************)
(* The limiter in front of the management routes (management.go): a bucket *)
(* per client, refilled with time, and dropped when the map has grown and  *)
(* the client has been idle.  One mutex covers a request, so a request is  *)
(* a step; the clock moves between any two.                                *)
(*                                                                         *)
(* Time is in seconds.  A bucket is counted in the seconds its tokens take *)
(* to grow, so a token is Refill and a full bucket is Full; the code has   *)
(* the quotients as floats.                                                *)
(***************************************************************************)
EXTENDS Integers, FiniteSets

CONSTANT Clients   \* the addresses requests come from, "_global" among them

mgmtRateLimitCapacity == 5
mgmtRateLimitRefill == 6
mgmtRateLimitTTL == 600
Many == 1024

Full == mgmtRateLimitCapacity * mgmtRateLimitRefill
NoBucket == [tokens |-> -1, lastSeen |-> 0]

VARIABLES
    bucket,      \* mgmtRateLimit
    clock,
    from,        \* history: when the observed span began
    granted,     \* history: requests granted to each client since then
    last         \* history: when each was granted its last one, -1 for never

rateVars == <<bucket, clock, from, granted, last>>

Capped(n) == IF n > Full THEN Full ELSE n

\* What a request finds: a new bucket is full, an old one has been refilled.
Refilled(b) == IF b = NoBucket THEN Full ELSE Capped(b.tokens + (clock - b.lastSeen))

Stale(c) == bucket[c] # NoBucket /\ clock - bucket[c].lastSeen > mgmtRateLimitTTL

\* allowManagementRequest, granted: the idle entries of a large map go.
Grant(c) ==
    LET full == Cardinality({d \in Clients : bucket[d] # NoBucket} \cup {c}) > Many IN
    /\ Refilled(bucket[c]) >= mgmtRateLimitRefill
    /\ bucket' = [d \in Clients |->
            IF d = c THEN [tokens |-> Refilled(bucket[c]) - mgmtRateLimitRefill, lastSeen |-> clock]
            ELSE IF full /\ Stale(d) THEN NoBucket ELSE bucket[d]]
    /\ granted' = [granted EXCEPT ![c] = @ + 1]
    /\ last' = [last EXCEPT ![c] = clock]
    /\ UNCHANGED <<clock, from>>

\* allowManagementRequest, refused: what has grown since is kept.
Refuse(c) ==
    /\ Refilled(bucket[c]) < mgmtRateLimitRefill
    /\ bucket' = [bucket EXCEPT ![c] = [tokens |-> Refilled(bucket[c]), lastSeen |-> clock]]
    /\ UNCHANGED <<clock, from, granted, last>>

Second == clock' = clock + 1 /\ UNCHANGED <<bucket, from, granted, last>>

\* Begin to observe, at any moment.
Observe ==
    /\ from' = clock /\ granted' = [c \in Clients |-> 0]
    /\ UNCHANGED <<bucket, clock, last>>

RateInit ==
    /\ bucket = [c \in Clients |-> NoBucket] /\ clock = 0
    /\ from = 0 /\ granted = [c \in Clients |-> 0] /\ last = [c \in Clients |-> -1]

RateNext == (\E c \in Clients : Grant(c) \/ Refuse(c)) \/ Second \/ Observe

RateSpec == RateInit /\ [][RateNext]_rateVars

-----------------------------------------------------------------------------
(* Properties.                                                             *)

RateTypeOK ==
    /\ clock \in Nat /\ from \in Nat /\ from <= clock
    /\ bucket \in [Clients -> [tokens : -1 .. Full, lastSeen : Nat]]
    /\ \A c \in Clients :
         bucket[c] # NoBucket => bucket[c].tokens >= 0 /\ bucket[c].lastSeen <= clock
    /\ granted \in [Clients -> Nat]
    /\ last \in [Clients -> Int] /\ \A c \in Clients : last[c] <= clock

\* In no span of time is a client granted more than a full bucket and what grows
\* in that span, evictions of its entry included: dropping an idle entry gives
\* nothing away, since the bucket was full again by then.
RateHolds ==
    \A c \in Clients :
        granted[c] * mgmtRateLimitRefill <= Full + (clock - from)

\* A client is refused only within a refill interval of a granted request: being
\* refused, however often, costs nothing, and nobody's first request is refused.
RefusedEarly ==
    \A c \in Clients :
        Refilled(bucket[c]) < mgmtRateLimitRefill =>
            last[c] >= 0 /\ clock - last[c] < mgmtRateLimitRefill

=============================================================================
