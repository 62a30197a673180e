----------------------------- MODULE RateLimit -----------------------------
(***************************************************************************)
(* The in-memory token bucket of internal/ratelimit, as the upload and the *)
(* sign-in routes use it: one bucket per key, a sweep that forgets idle    *)
(* buckets, and a table of at most MaxKeys keys that forgets the key used  *)
(* least recently to make room.                                            *)
(*                                                                         *)
(* Credit is counted in clock ticks: a bucket gains one per tick, a        *)
(* request costs Cost of them and a bucket holds Full, so the float        *)
(* arithmetic of the code is exact here.  Allow reads the clock before it  *)
(* takes the mutex, so it works with a time n that may be long past.       *)
(*                                                                         *)
(* The history variable budget is the bucket a key would have if nothing   *)
(* were ever forgotten and every request read the clock under the mutex;   *)
(* late is the delay its admitted requests have met between the two since  *)
(* that bucket was last full.  A key pushed out of a full table starts     *)
(* over, as the package says.                                              *)
(***************************************************************************)
EXTENDS Integers, Sequences, FiniteSets, SequencesExt

CONSTANTS
    Keys,      \* who is limited: accounts and networks
    MaxKeys,   \* how many keys one Limiter tracks
    Cost,      \* ticks of refill one request costs: 1 / rate
    Burst,     \* requests a full bucket allows
    Interval,  \* gcInterval
    TTL,       \* bucketTTL
    MaxTime    \* bound on the clock

ASSUME LimiterAssumption ==
    /\ MaxKeys \in Nat \ {0}
    /\ Cost \in Nat \ {0}
    /\ Burst \in Nat \ {0}
    /\ Interval \in Nat \ {0}
    /\ TTL \in Nat
    /\ MaxTime \in Nat

VARIABLES
    clock,    \* the wall clock
    buckets,  \* the tracked keys, each with the credit it had when last refilled
    order,    \* the tracked keys, most recently used first
    lastGC,   \* when idle buckets were last swept
    budget,   \* history: the bucket each key would have if none were forgotten
    late      \* history: the delay each key's admitted requests have met

limiter == <<clock, buckets, order, lastGC, budget, late>>

-----------------------------------------------------------------------------

Full == Burst * Cost

\* Credit after refilling for a while, never past the bucket's capacity.
Topped(tokens, ticks) == IF tokens + ticks > Full THEN Full ELSE tokens + ticks

Fresh(n) == [tokens |-> Full, last |-> n]

\* A bucket is refilled only forwards: a request that read the clock before
\* the one served last gains nothing.
Refilled(b, n) ==
    IF n > b.last THEN [tokens |-> Topped(b.tokens, n - b.last), last |-> n] ELSE b

\* Mutant: an idle bucket is forgotten whatever it holds.
IdleAtAnyLevel(n) == {k \in DOMAIN buckets : n - buckets[k].last > TTL}

\* Buckets a sweep forgets: idle for longer than TTL and, if they were
\* refilled now, full.
Idle(n) ==
    {k \in DOMAIN buckets :
        /\ Topped(buckets[k].tokens, n - buckets[k].last) >= Full
        /\ n - buckets[k].last > TTL}

Swept(n) == IF n - lastGC < Interval THEN {} ELSE Idle(n)

\* The list s once the elements of S are removed: SelectSeq, stated by the
\* place each remaining element takes.
Without(s, S) ==
    LET kept == {i \in DOMAIN s : s[i] \notin S}
        Rank(i) == Cardinality({h \in kept : h <= i})
    IN [j \in 1..Cardinality(kept) |-> s[CHOOSE i \in kept : Rank(i) = j]]

\* Mutant: room is never made.
PushedNobody(k, n) == {}

\* The key forgotten to make room for k, if any: the one at the back.
PushedOut(k, n) ==
    LET kept == DOMAIN buckets \ Swept(n)
    IN IF k \in kept \/ Cardinality(kept) < MaxKeys
       THEN {} ELSE {Last(Without(order, Swept(n)))}

Forgotten(k, n) == Swept(n) \cup PushedOut(k, n)

\* The bucket a request by k at time n is charged to.
BucketFor(k, n) ==
    IF k \in DOMAIN buckets \ Forgotten(k, n) THEN Refilled(buckets[k], n) ELSE Fresh(n)

Admits(k, n) == BucketFor(k, n).tokens >= Cost

Charged(k, n) ==
    LET b == BucketFor(k, n)
    IN IF Admits(k, n) THEN [b EXCEPT !.tokens = @ - Cost] ELSE b

\* The tracked keys once k has been used, k first.
Fronted(k, n) == <<k>> \o Without(order, {k} \cup Forgotten(k, n))

\* What the unforgetting bucket of k holds at this moment.
Due(k) == Topped(budget[k].tokens, clock - budget[k].last)

\* Allow, under the mutex, for a request that read the clock at n.
Charge(k, n) ==
    /\ lastGC' = IF n - lastGC < Interval THEN lastGC ELSE n
    /\ buckets' = [x \in (DOMAIN buckets \ Forgotten(k, n)) \cup {k} |->
                      IF x = k THEN Charged(k, n) ELSE buckets[x]]
    /\ order' = Fronted(k, n)
    /\ budget' = [x \in Keys |->
                     IF x = k THEN [tokens |-> Due(k) - (IF Admits(k, n) THEN Cost ELSE 0),
                                    last |-> clock]
                     ELSE IF x \in PushedOut(k, n) THEN Fresh(clock)
                     ELSE budget[x]]
    /\ late' = [x \in Keys |->
                   IF x = k THEN (IF Due(k) = Full THEN 0 ELSE late[x])
                                 + (IF Admits(k, n) THEN clock - n ELSE 0)
                   ELSE IF x \in PushedOut(k, n) THEN 0
                   ELSE late[x]]
    /\ UNCHANGED clock

LimiterInit ==
    /\ clock = 0
    /\ buckets = << >>
    /\ order = << >>
    /\ lastGC = -Interval
    /\ budget = [k \in Keys |-> Fresh(0)]
    /\ late = [k \in Keys |-> 0]

Tick ==
    /\ clock < MaxTime
    /\ clock' = clock + 1
    /\ UNCHANGED <<buckets, order, lastGC, budget, late>>

-----------------------------------------------------------------------------

\* The table never tracks more than MaxKeys keys, and the recency list names
\* exactly the keys tracked, each once: a key in one and not in the other would
\* never be forgotten, or would be forgotten twice (ratelimit.go, bucketLocked,
\* removeLocked and gcLocked keep the two in step).
TableBounded ==
    /\ {order[i] : i \in DOMAIN order} = DOMAIN buckets
    /\ Len(order) = Cardinality(DOMAIN buckets)
    /\ Len(order) <= MaxKeys

\* However the table sweeps and whatever order its requests reach the mutex in,
\* no key spends more than its burst and what the rate has refilled since, in
\* any stretch of time, but for the delay its own requests met between reading
\* the clock and taking the mutex.
BudgetKept == \A k \in Keys : budget[k].tokens + late[k] >= 0
=============================================================================
