----------------------------- MODULE RateLimit ------------------------------
(***************************************************************************)
(* The token buckets in front of the API (httpapi/ratelimit.go), by client *)
(* IP or by user.  A bucket refills when it is asked; tokens are counted   *)
(* in fractions, Unit of them a whole one, so that a refill may leave a    *)
(* part of a token.                                                        *)
(***************************************************************************)
EXTENDS Integers

CONSTANTS
    Keys,       \* client IPs or users
    Unit,       \* fractions in a token
    Capacity,   \* burst, in fractions
    Rate,       \* refill, in fractions per tick
    MaxClock    \* bound: clock

VARIABLES
    now,
    buckets,    \* Limiter.buckets: the keys that were seen
    passed      \* history: requests let through by the end of each instant, by key

vars == <<now, buckets, passed>>

Init ==
    /\ now = 0 /\ buckets = [k \in {} |-> 0]
    /\ passed = [k \in Keys |-> [t \in 0 .. MaxClock |-> 0]]

\* A new bucket is full.
NewBucket == [tokens |-> Capacity, last |-> now]

\* LoadOrStore.
BucketOf(k) == IF k \in DOMAIN buckets THEN buckets[k] ELSE NewBucket

\* One request more, from now on.
Counted(p) == [t \in 0 .. MaxClock |-> IF t >= now THEN p[t] + 1 ELSE p[t]]

\* Mutant: the refill is a token at most.
RefilledOnce(b) ==
    LET n == b.tokens + (IF (now - b.last) * Rate > Unit THEN Unit ELSE (now - b.last) * Rate)
    IN  IF n > Capacity THEN Capacity ELSE n

\* The tokens of bucket b, now.
Refilled(b) ==
    IF b.tokens + (now - b.last) * Rate > Capacity THEN Capacity ELSE b.tokens + (now - b.last) * Rate

\* Mutant: the time of the refill is taken only when a request passes.
AllowKeepsTime(k) ==
    LET n == Refilled(BucketOf(k))
        after == IF n < Unit THEN [BucketOf(k) EXCEPT !.tokens = n] ELSE [tokens |-> n - Unit, last |-> now]
    IN  /\ buckets' = [j \in DOMAIN buckets \cup {k} |-> IF j = k THEN after ELSE buckets[j]]
        /\ passed' = IF n < Unit THEN passed ELSE [passed EXCEPT ![k] = Counted(@)]
        /\ UNCHANGED now

\* Allow, from ipLimit, userLimit or requireAuth: a request passes when there
\* is a whole token; the time of the refill is taken either way.
Allow(k) ==
    LET n == Refilled(BucketOf(k))
        after == [tokens |-> IF n < Unit THEN n ELSE n - Unit, last |-> now]
    IN  /\ buckets' = [j \in DOMAIN buckets \cup {k} |-> IF j = k THEN after ELSE buckets[j]]
        /\ passed' = IF n < Unit THEN passed ELSE [passed EXCEPT ![k] = Counted(@)]
        /\ UNCHANGED now

Tick == now < MaxClock /\ now' = now + 1 /\ UNCHANGED <<buckets, passed>>

Next == Tick \/ \E k \in Keys : Allow(k)

Spec == Init /\ [][Next]_vars

\* The requests of k that were let through from instant a to instant b.
Passed(k, a, b) == passed[k][b] - (IF a = 0 THEN 0 ELSE passed[k][a - 1])

\* Between any two instants a key passes at most the burst and what the rate
\* refills between them, whatever other keys do and however often it was
\* refused.
RateHolds ==
    \A k \in Keys : \A a \in 0 .. MaxClock : \A b \in a .. MaxClock :
        Unit * Passed(k, a, b) <= Capacity + (b - a) * Rate

\* The burst is there for a key that was quiet long enough to refill it, and
\* a refusal costs nothing.
QuietRefills ==
    \A k \in DOMAIN buckets :
        /\ (now - buckets[k].last) * Rate >= Capacity => Refilled(buckets[k]) = Capacity
        /\ Refilled(buckets[k]) + Unit * passed[k][MaxClock] >= Capacity
=============================================================================
