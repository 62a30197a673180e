--------------------------- MODULE UploadGateProofs ---------------------------
(***************************************************************************)
(* Proofs that the limiter admits no more than its budget, whatever its    *)
(* rate, its burst, the size of its table and the order requests reach its *)
(* mutex in, and that the gates' slots are counted exactly, for any number *)
(* of requests and slots.                                                  *)
(***************************************************************************)
EXTENDS UploadGate, FiniteSetTheorems, TLAPS

-----------------------------------------------------------------------------
(* The limiter: a bucket never holds more than the key is due, but for the *)
(* delays its requests have met.                                           *)

Bucket == [tokens : Int, last : Int]

LimiterTyped ==
    /\ clock \in Nat
    /\ \A k \in DOMAIN buckets : buckets[k] \in Bucket
    /\ budget \in [Keys -> Bucket]
    /\ late \in [Keys -> Nat]

\* Nothing is refilled from the future, and no bucket holds more than Full.
WithinBucket(b) == b.tokens <= Full /\ b.last <= clock
BucketsWithin ==
    /\ \A k \in DOMAIN buckets : WithinBucket(buckets[k])
    /\ \A k \in Keys : WithinBucket(budget[k])

\* What k could spend at this moment.
Level(k) ==
    IF k \in DOMAIN buckets THEN Topped(buckets[k].tokens, clock - buckets[k].last) ELSE Full

\* A key may spend what it is due and what the delay of its requests refilled.
Covered(k) == Level(k) <= Due(k) + late[k] /\ budget[k].tokens + late[k] >= 0

LimiterInv == LimiterTyped /\ BucketsWithin /\ \A k \in Keys : Covered(k)

\* A bucket holds at least one request.
LEMMA FullHoldsOne == Full \in Nat /\ Cost \in Nat /\ Full >= Cost
<1>1. Burst \in Nat /\ Burst >= 1 /\ Cost \in Nat /\ Cost >= 1
  BY LimiterAssumption
<1>2. Burst * Cost \in Nat /\ (Burst - 1) * Cost \in Nat
  BY <1>1
<1>3. Burst * Cost = (Burst - 1) * Cost + Cost
  BY <1>1
<1> QED BY <1>1, <1>2, <1>3 DEF Full

\* Every key starts with a full bucket and no delay.
LEMMA InitLimiter == LimiterInit => LimiterInv
BY FullHoldsOne DEF LimiterInit, LimiterInv, LimiterTyped, BucketsWithin, WithinBucket,
   Covered, Level, Due, Topped, Bucket, Fresh

\* Refilling gains a bucket no more than the time that has passed.
LEMMA ToppedBound ==
  ASSUME NEW t \in Int, NEW d \in Int
  PROVE  Topped(t, d) \in Int /\ Topped(t, d) <= Full /\ Topped(t, d) <= t + d
BY FullHoldsOne DEF Topped

\* Time tops up what a key may spend and what it is due alike.
LEMMA TickKeepsLimiter == LimiterInv /\ Tick => LimiterInv'
<1> SUFFICES ASSUME LimiterInv, Tick PROVE LimiterInv'
  OBVIOUS
<1>1. LimiterTyped' /\ BucketsWithin'
  BY DEF LimiterInv, LimiterTyped, BucketsWithin, WithinBucket, Tick, Bucket
<1>2. ASSUME NEW k \in Keys PROVE Covered(k)'
  <2>1. budget[k] \in Bucket /\ late[k] \in Nat /\ clock \in Nat /\ Covered(k)
    BY DEF LimiterInv, LimiterTyped
  <2>2. CASE k \in DOMAIN buckets
    <3>1. buckets[k] \in Bucket
      BY <2>2 DEF LimiterInv, LimiterTyped
    <3> QED BY <2>1, <2>2, <3>1, FullHoldsOne DEF Covered, Level, Due, Topped, Tick, Bucket
  <2>3. CASE k \notin DOMAIN buckets
    BY <2>1, <2>3, FullHoldsOne DEF Covered, Level, Due, Topped, Tick, Bucket
  <2> QED BY <2>2, <2>3
<1> QED BY <1>1, <1>2 DEF LimiterInv

\* Refilling a bucket for a request that read the clock at n, and again now,
\* leaves no more than refilling it now.
LEMMA RefilledBound ==
  ASSUME NEW b \in Bucket, NEW n \in Int, clock \in Nat, n <= clock, WithinBucket(b)
  PROVE  /\ Refilled(b, n) \in Bucket
         /\ WithinBucket(Refilled(b, n))
         /\ n <= Refilled(b, n).last
         /\ Refilled(b, n).tokens <= Topped(b.tokens, clock - b.last)
         /\ Topped(Refilled(b, n).tokens, clock - Refilled(b, n).last)
               <= Topped(b.tokens, clock - b.last)
<1>1. b.tokens \in Int /\ b.last \in Int /\ b.tokens <= Full /\ b.last <= clock
  BY DEF Bucket, WithinBucket
<1>2. CASE n > b.last
  <2>1. /\ Refilled(b, n).tokens = Topped(b.tokens, n - b.last)
        /\ Refilled(b, n).last = n
        /\ Refilled(b, n) = [tokens |-> Topped(b.tokens, n - b.last), last |-> n]
    BY <1>2 DEF Refilled
  <2>2. Topped(b.tokens, n - b.last) \in Int
    BY <1>1, FullHoldsOne DEF Topped
  <2> QED BY <1>1, <1>2, <2>1, <2>2, FullHoldsOne DEF Topped, Bucket, WithinBucket
<1>3. CASE ~(n > b.last)
  <2>1. Refilled(b, n) = b
    BY <1>3 DEF Refilled
  <2> QED BY <1>1, <1>3, <2>1, FullHoldsOne DEF Topped, WithinBucket
<1> QED BY <1>2, <1>3

\* A bucket a sweep forgets would be full by now.
LEMMA SweptIsFull ==
  ASSUME LimiterInv, NEW n \in Int, n <= clock, NEW k \in Swept(n)
  PROVE  k \in DOMAIN buckets /\ Level(k) = Full
<1>1. k \in DOMAIN buckets /\ Topped(buckets[k].tokens, n - buckets[k].last) >= Full
  BY DEF Swept, Idle
<1>2. buckets[k] \in Bucket /\ WithinBucket(buckets[k]) /\ clock \in Nat
  BY <1>1 DEF LimiterInv, LimiterTyped, BucketsWithin
<1> QED BY <1>1, <1>2, FullHoldsOne DEF Level, Topped, Bucket

\* Nobody makes room for himself while he is tracked.
LEMMA PushedOutIsUntracked ==
  ASSUME NEW k, NEW n, PushedOut(k, n) # {}
  PROVE  k \notin DOMAIN buckets \ Swept(n)
BY DEF PushedOut

\* The bucket a request is charged to is well formed, and holds no more than
\* its key could have spent.
LEMMA BucketCharged ==
  ASSUME LimiterInv, NEW k, NEW n \in Int, n <= clock
  PROVE  /\ BucketFor(k, n) \in Bucket
         /\ WithinBucket(BucketFor(k, n))
         /\ n <= BucketFor(k, n).last
         /\ BucketFor(k, n).tokens <= Level(k)
         /\ Topped(BucketFor(k, n).tokens, clock - BucketFor(k, n).last) <= Level(k)
<1>0. clock \in Nat
  BY DEF LimiterInv, LimiterTyped
<1>1. CASE k \in DOMAIN buckets \ Forgotten(k, n)
  <2>1. buckets[k] \in Bucket /\ WithinBucket(buckets[k])
    BY <1>1 DEF LimiterInv, LimiterTyped, BucketsWithin
  <2>2. /\ BucketFor(k, n) = Refilled(buckets[k], n)
        /\ Level(k) = Topped(buckets[k].tokens, clock - buckets[k].last)
    BY <1>1 DEF BucketFor, Level
  <2> QED BY <1>0, <2>1, <2>2, RefilledBound
<1>2. CASE k \notin DOMAIN buckets \ Forgotten(k, n)
  <2>1. Level(k) = Full
    BY <1>2, SweptIsFull, PushedOutIsUntracked DEF Forgotten, Level
  <2>2. BucketFor(k, n) = [tokens |-> Full, last |-> n]
    BY <1>2 DEF BucketFor, Fresh
  <2> QED BY <1>0, <2>1, <2>2, FullHoldsOne DEF Topped, Bucket, WithinBucket
<1> QED BY <1>1, <1>2

\* What is left in the bucket once the request is charged, and what of that its
\* key can spend now: the delay may have refilled what the request cost.
LEMMA BucketLeft ==
  ASSUME LimiterInv, NEW k, NEW n \in Int, n <= clock
  PROVE  LET spent == IF Admits(k, n) THEN Cost ELSE 0
             slack == IF Admits(k, n) THEN clock - n ELSE 0
             b == Charged(k, n) IN
         /\ b \in Bucket /\ WithinBucket(b)
         /\ Topped(b.tokens, clock - b.last) + spent <= Level(k) + slack
         /\ Admits(k, n) => Cost <= Level(k)
<1> DEFINE b == BucketFor(k, n)
<1>1. /\ b \in Bucket /\ WithinBucket(b) /\ n <= b.last /\ b.tokens <= Level(k)
      /\ Topped(b.tokens, clock - b.last) <= Level(k)
  BY BucketCharged
<1>2. clock \in Nat /\ b.tokens \in Int /\ b.last \in Int /\ b.last <= clock /\ b.tokens <= Full
  BY <1>1 DEF LimiterInv, LimiterTyped, Bucket, WithinBucket
<1>3. Level(k) \in Int
  <2>1. CASE k \in DOMAIN buckets
    BY <2>1, FullHoldsOne DEF LimiterInv, LimiterTyped, Bucket, Level, Topped
  <2> QED BY <2>1, FullHoldsOne DEF Level
<1>4. CASE Admits(k, n)
  <2>1. b.tokens >= Cost /\ Charged(k, n) = [b EXCEPT !.tokens = b.tokens - Cost]
    BY <1>4 DEF Admits, Charged
  <2>2. /\ Charged(k, n) = [tokens |-> b.tokens - Cost, last |-> b.last]
        /\ Charged(k, n).tokens = b.tokens - Cost /\ Charged(k, n).last = b.last
    BY <1>1, <2>1 DEF Bucket
  <2>3. Topped(b.tokens - Cost, clock - b.last) <= b.tokens - Cost + (clock - b.last)
    BY <1>2, FullHoldsOne DEF Topped
  <2>4. Charged(k, n) \in Bucket /\ WithinBucket(Charged(k, n))
    BY <1>2, <2>2, FullHoldsOne DEF Bucket, WithinBucket
  <2>5. Topped(b.tokens - Cost, clock - b.last) \in Int
    BY <1>2, FullHoldsOne DEF Topped
  <2>6. Topped(b.tokens - Cost, clock - b.last) + Cost <= Level(k) + (clock - n)
    BY <1>1, <1>2, <1>3, <2>3, <2>5, FullHoldsOne
  <2> QED BY <1>1, <1>2, <1>3, <1>4, <2>1, <2>2, <2>4, <2>6, FullHoldsOne
<1>5. CASE ~Admits(k, n)
  <2>1. Charged(k, n) = b
    BY <1>5 DEF Charged
  <2>2. Topped(b.tokens, clock - b.last) \in Int
    BY <1>2, FullHoldsOne DEF Topped
  <2> QED BY <1>1, <1>2, <1>3, <1>5, <2>1, <2>2
<1> QED BY <1>4, <1>5

\* The key charged is covered after the charge.
LEMMA ChargedIsCovered ==
  ASSUME LimiterInv, NEW k \in Keys, NEW n \in Int, n <= clock, Charge(k, n)
  PROVE  /\ budget'[k] \in Bucket /\ WithinBucket(budget'[k])
         /\ late'[k] \in Nat
         /\ Covered(k)'
<1> DEFINE spent == IF Admits(k, n) THEN Cost ELSE 0
           slack == IF Admits(k, n) THEN clock - n ELSE 0
           b == Charged(k, n)
<1>1. /\ b \in Bucket /\ WithinBucket(b)
      /\ Topped(b.tokens, clock - b.last) + spent <= Level(k) + slack
      /\ Admits(k, n) => Cost <= Level(k)
  BY BucketLeft
<1>2. /\ clock \in Nat /\ clock' = clock
      /\ budget[k] \in Bucket /\ WithinBucket(budget[k]) /\ late[k] \in Nat
      /\ Level(k) <= Due(k) + late[k] /\ budget[k].tokens + late[k] >= 0
  BY DEF LimiterInv, LimiterTyped, BucketsWithin, Covered, Charge
<1>3. /\ budget'[k] = [tokens |-> Due(k) - spent, last |-> clock]
      /\ late'[k] = (IF Due(k) = Full THEN 0 ELSE late[k]) + slack
      /\ k \in DOMAIN buckets' /\ buckets'[k] = b
  BY DEF Charge
<1>4. Due(k) \in Int /\ Due(k) <= Full /\ Due(k) + late[k] >= 0
  BY <1>2, FullHoldsOne DEF Due, Topped, Bucket, WithinBucket
<1>5. Level(k) \in Int /\ Level(k) <= Full
  BY FullHoldsOne DEF LimiterInv, LimiterTyped, Bucket, Level, Topped
<1>6. spent \in Nat /\ slack \in Nat
  BY <1>2, FullHoldsOne
<1>7. /\ Due(k)' = Due(k) - spent
      /\ Level(k)' = Topped(b.tokens, clock - b.last)
  <2>1. Due(k)' = Topped(Due(k) - spent, 0)
    BY <1>2, <1>3 DEF Due, Topped, Full
  <2>2. Due(k)' = Due(k) - spent
    BY <2>1, <1>4, <1>6, FullHoldsOne DEF Topped
  <2>3. Level(k)' = Topped(b.tokens, clock - b.last)
    BY <1>2, <1>3 DEF Level, Topped, Full
  <2> QED BY <2>2, <2>3
<1>8. Level(k) <= (IF Due(k) = Full THEN 0 ELSE late[k]) + Due(k)
  BY <1>2, <1>4, <1>5
<1>9. Topped(b.tokens, clock - b.last) \in Int
  BY <1>1, <1>2, FullHoldsOne DEF Topped, Bucket
<1>10. Level(k)' <= Due(k)' + late'[k]
  BY <1>1, <1>2, <1>3, <1>4, <1>5, <1>6, <1>7, <1>8, <1>9
<1>11. budget'[k].tokens + late'[k] >= 0
  <2>1. budget'[k].tokens = Due(k) - spent
    BY <1>3
  <2>2. Due(k) + (IF Due(k) = Full THEN 0 ELSE late[k]) >= spent
    BY <1>1, <1>2, <1>4, <1>5, <1>8, FullHoldsOne
  <2>3. budget'[k].tokens + late'[k]
           = (Due(k) - spent) + ((IF Due(k) = Full THEN 0 ELSE late[k]) + slack)
    BY <2>1, <1>3
  <2> QED BY <2>2, <2>3, <1>2, <1>4, <1>6
<1>12. budget'[k] \in Bucket /\ WithinBucket(budget'[k])
  <2>1. Due(k) - spent \in Int /\ Due(k) - spent <= Full
    BY <1>4, <1>6, FullHoldsOne
  <2>2. /\ budget'[k] = [tokens |-> Due(k) - spent, last |-> clock]
        /\ budget'[k].tokens = Due(k) - spent /\ budget'[k].last = clock
    BY <1>3
  <2> HIDE DEF spent
  <2> QED BY <2>1, <2>2, <1>2 DEF Bucket, WithinBucket
<1>13. late'[k] \in Nat
  BY <1>2, <1>3, <1>6
<1> QED BY <1>10, <1>11, <1>12, <1>13 DEF Covered

\* Nobody else loses what he was due, or gains what he was not: one pushed out
\* of the table starts over with a full budget.
LEMMA OthersStayCovered ==
  ASSUME LimiterInv, NEW k, NEW n \in Int, n <= clock, Charge(k, n),
         NEW x \in Keys, x # k
  PROVE  /\ budget'[x] \in Bucket /\ WithinBucket(budget'[x])
         /\ late'[x] \in Nat
         /\ Covered(x)'
<1>1. /\ clock \in Nat /\ clock' = clock
      /\ budget[x] \in Bucket /\ WithinBucket(budget[x]) /\ late[x] \in Nat
      /\ Covered(x)
  BY DEF LimiterInv, LimiterTyped, BucketsWithin, Charge
<1>2. CASE x \in PushedOut(k, n)
  <2>1. budget'[x] = [tokens |-> Full, last |-> clock] /\ late'[x] = 0
    BY <1>2 DEF Charge, Fresh
  <2>2. x \notin DOMAIN buckets'
    BY <1>2 DEF Charge, Forgotten
  <2> QED BY <1>1, <2>1, <2>2, FullHoldsOne
          DEF Covered, Level, Due, Topped, Full, Bucket, WithinBucket
<1>3. CASE x \notin PushedOut(k, n)
  <2>1. budget'[x] = budget[x] /\ late'[x] = late[x] /\ Due(x)' = Due(x)
    BY <1>1, <1>3 DEF Charge, Due, Topped, Full
  <2>2. Level(x)' = Level(x)
    <3>1. CASE x \in Swept(n)
      <4>1. Level(x) = Full /\ x \notin DOMAIN buckets'
        BY <3>1, SweptIsFull DEF Charge, Forgotten
      <4> QED BY <4>1 DEF Level, Full
    <3>2. CASE x \notin Swept(n)
      <4>1. (x \in DOMAIN buckets') <=> x \in DOMAIN buckets
        BY <1>3, <3>2 DEF Charge, Forgotten
      <4>2. x \in DOMAIN buckets => buckets'[x] = buckets[x]
        BY <1>3, <3>2 DEF Charge, Forgotten
      <4> QED BY <4>1, <4>2, <1>1 DEF Level, Topped, Full
    <3> QED BY <3>1, <3>2
  <2> QED BY <1>1, <2>1, <2>2 DEF Covered, WithinBucket
<1> QED BY <1>2, <1>3

\* Every call of Allow keeps every key covered.
LEMMA ChargeKeepsLimiter ==
  ASSUME LimiterInv, NEW k, NEW n \in Int, n <= clock, Charge(k, n)
  PROVE  LimiterInv'
<1>1. clock \in Nat /\ clock' = clock
  BY DEF LimiterInv, LimiterTyped, Charge
<1>2. ASSUME NEW x \in Keys
      PROVE  /\ budget'[x] \in Bucket /\ WithinBucket(budget'[x])
             /\ late'[x] \in Nat /\ Covered(x)'
  BY ChargedIsCovered, OthersStayCovered
<1>3. ASSUME NEW x \in DOMAIN buckets'
      PROVE  buckets'[x] \in Bucket /\ WithinBucket(buckets'[x])
  <2>1. CASE x = k
    <3>1. buckets'[x] = Charged(k, n)
      BY <2>1 DEF Charge
    <3>2. Charged(k, n) \in Bucket /\ WithinBucket(Charged(k, n))
      BY BucketLeft
    <3> QED BY <3>1, <3>2
  <2>2. CASE x # k
    <3>1. x \in DOMAIN buckets /\ buckets'[x] = buckets[x]
      BY <2>2, <1>3 DEF Charge
    <3> QED BY <3>1 DEF LimiterInv, LimiterTyped, BucketsWithin
  <2> QED BY <2>1, <2>2
<1>4. DOMAIN budget' = Keys /\ budget' = [x \in Keys |-> budget'[x]]
      /\ late' = [x \in Keys |-> late'[x]]
  BY DEF Charge
<1>5. budget' \in [Keys -> Bucket] /\ late' \in [Keys -> Nat]
  BY <1>2, <1>4
<1> QED BY <1>1, <1>2, <1>3, <1>5
        DEF LimiterInv, LimiterTyped, BucketsWithin, WithinBucket

-----------------------------------------------------------------------------
(* The gates: how far each handler has come says which slots it holds.     *)

\* What a handler has yet to do, and what it holds meanwhile.
Place(t, h) ==
    \/ t = << >> /\ h = {}
    \/ t = <<"clock", "limit", "policy", Processing, "body", "work", "answer">> /\ h = {}
    \/ t = <<"limit", "policy", Processing, "body", "work", "answer">> /\ h = {}
    \/ t = <<"policy", Processing, "body", "work", "answer">> /\ h = {}
    \/ t = <<Processing, "body", "work", "answer">> /\ h = {}
    \/ t = <<"body", "work", "answer">> /\ h = {Processing}
    \/ t = <<"work", "answer">> /\ h = {Processing}
    \/ t = <<"answer">> /\ h = {Processing}
    \/ t = <<"work">> /\ h = {Processing}
    \/ t = <<"body", Processing, "work">> /\ h = {}
    \/ t = <<Processing, "work">> /\ h = {}
    \/ t = <<Processing, "decode", "send">> /\ h \in {{}, {Exports}}
    \/ t = <<"decode", "send">> /\ h \in {{Processing}, {Processing, Exports}}
    \/ t = <<"send">> /\ h \in {{}, {Exports}}
    \/ t = <<Exports, Processing, "decode", "send">> /\ h = {}
    \/ t = <<Exports, "work", "send">> /\ h = {}
    \/ t = <<"work", "send">> /\ h = {Exports}

\* Gates are not steps of another name.
LEMMA GatesApart ==
  /\ Processing # Exports
  /\ \A g \in Gates : g \notin {"clock", "limit", "policy", "body", "work", "answer",
                           "decode", "send"}
BY GateAssumption

\* Where a handler goes from a place by each kind of step.
Onward(t, h) ==
    /\ Head(t) \in {"clock", "limit", "policy", "body"} => Place(Tail(t), h)
    /\ Head(t) = "work" /\ Len(t) > 1 => Place(Tail(t), h)
    /\ Head(t) = "body" /\ Processing \in h => Place(<<"answer">>, h)
    /\ Head(t) = "decode" => Place(Tail(t), h \ {Processing})
    /\ \A g \in Gates : Head(t) = g =>
          g \notin h /\ h \subseteq {Exports} /\ Place(Tail(t), h \cup {g})

\* Every step of a handler leads from place to place.
LEMMA PlacesOnward ==
  ASSUME NEW t, NEW h, Place(t, h), t # << >>
  PROVE  Onward(t, h)
<1>1. CASE t = <<"clock", "limit", "policy", Processing, "body", "work", "answer">> /\ h = {}
  <2>1. Head(t) = "clock" /\ Tail(t) = <<"limit", "policy", Processing, "body", "work", "answer">>
    BY <1>1
  <2> QED BY <1>1, <2>1, GatesApart DEF Onward, Place, Gates
<1>2. CASE t = <<"limit", "policy", Processing, "body", "work", "answer">> /\ h = {}
  <2>1. Head(t) = "limit" /\ Tail(t) = <<"policy", Processing, "body", "work", "answer">>
    BY <1>2
  <2> QED BY <1>2, <2>1, GatesApart DEF Onward, Place, Gates
<1>3. CASE t = <<"policy", Processing, "body", "work", "answer">> /\ h = {}
  <2>1. Head(t) = "policy" /\ Tail(t) = <<Processing, "body", "work", "answer">>
    BY <1>3
  <2> QED BY <1>3, <2>1, GatesApart DEF Onward, Place, Gates
<1>4. CASE t = <<Processing, "body", "work", "answer">> /\ h = {}
  <2>1. Head(t) = Processing /\ Tail(t) = <<"body", "work", "answer">>
    BY <1>4
  <2> QED BY <1>4, <2>1, GatesApart DEF Onward, Place, Gates
<1>5. CASE t = <<"body", "work", "answer">> /\ h = {Processing}
  <2>1. Head(t) = "body" /\ Tail(t) = <<"work", "answer">>
    BY <1>5
  <2> QED BY <1>5, <2>1, GatesApart DEF Onward, Place, Gates
<1>6. CASE t = <<"work", "answer">> /\ h = {Processing}
  <2>1. Head(t) = "work" /\ Tail(t) = <<"answer">>
    BY <1>6
  <2> QED BY <1>6, <2>1, GatesApart DEF Onward, Place, Gates
<1>7. CASE t = <<"answer">> /\ h = {Processing}
  <2>1. Head(t) = "answer" /\ Tail(t) = << >>
    BY <1>7
  <2> QED BY <1>7, <2>1, GatesApart DEF Onward, Place, Gates
<1>8. CASE t = <<"work">> /\ h = {Processing}
  <2>1. Head(t) = "work" /\ Tail(t) = << >> /\ Len(t) = 1
    BY <1>8
  <2> QED BY <1>8, <2>1, GatesApart DEF Onward, Place, Gates
<1>9. CASE t = <<"body", Processing, "work">> /\ h = {}
  <2>1. Head(t) = "body" /\ Tail(t) = <<Processing, "work">>
    BY <1>9
  <2> QED BY <1>9, <2>1, GatesApart DEF Onward, Place, Gates
<1>10. CASE t = <<Processing, "work">> /\ h = {}
  <2>1. Head(t) = Processing /\ Tail(t) = <<"work">>
    BY <1>10
  <2> QED BY <1>10, <2>1, GatesApart DEF Onward, Place, Gates
<1>11. CASE t = <<Processing, "decode", "send">> /\ h \in {{}, {Exports}}
  <2>1. Head(t) = Processing /\ Tail(t) = <<"decode", "send">>
    BY <1>11
  <2> QED BY <1>11, <2>1, GatesApart DEF Onward, Place, Gates
<1>12. CASE t = <<"decode", "send">> /\ h \in {{Processing}, {Processing, Exports}}
  <2>1. Head(t) = "decode" /\ Tail(t) = <<"send">>
    BY <1>12
  <2> QED BY <1>12, <2>1, GatesApart DEF Onward, Place, Gates
<1>13. CASE t = <<"send">> /\ h \in {{}, {Exports}}
  <2>1. Head(t) = "send" /\ Tail(t) = << >>
    BY <1>13
  <2> QED BY <1>13, <2>1, GatesApart DEF Onward, Place, Gates
<1>14. CASE t = <<Exports, Processing, "decode", "send">> /\ h = {}
  <2>1. Head(t) = Exports /\ Tail(t) = <<Processing, "decode", "send">>
    BY <1>14
  <2> QED BY <1>14, <2>1, GatesApart DEF Onward, Place, Gates
<1>15. CASE t = <<Exports, "work", "send">> /\ h = {}
  <2>1. Head(t) = Exports /\ Tail(t) = <<"work", "send">>
    BY <1>15
  <2> QED BY <1>15, <2>1, GatesApart DEF Onward, Place, Gates
<1>16. CASE t = <<"work", "send">> /\ h = {Exports}
  <2>1. Head(t) = "work" /\ Tail(t) = <<"send">>
    BY <1>16
  <2> QED BY <1>16, <2>1, GatesApart DEF Onward, Place, Gates
<1> QED BY <1>1, <1>2, <1>3, <1>4, <1>5, <1>6, <1>7, <1>8, <1>9, <1>10,
           <1>11, <1>12, <1>13, <1>14, <1>15, <1>16 DEF Place

-----------------------------------------------------------------------------
(* The slots in use are those of the requests that hold them.              *)

Holders(g) == {r \in Requests : g \in held[r]}

PlacesInv ==
    /\ DOMAIN todo = Requests
    /\ held \in [Requests -> SUBSET Gates]
    /\ queued \subseteq Requests
    /\ \A r \in Requests : Place(todo[r], held[r])
    /\ \A r \in queued : todo[r] # << >> /\ Head(todo[r]) \in Gates

CountInv ==
    /\ taken \in [Gates -> Nat]
    /\ \A g \in Gates : taken[g] = Cardinality(Holders(g)) /\ taken[g] <= Limit[g]

ClocksInv ==
    /\ now \in [Requests -> Int]
    /\ \A r \in Requests : now[r] <= clock

GateInv == LimiterInv /\ ClocksInv /\ PlacesInv /\ CountInv

\* Nobody is served at first.
LEMMA InitGate == GateInit => GateInv
<1> SUFFICES ASSUME GateInit PROVE GateInv
  OBVIOUS
<1>1. LimiterInv
  BY InitLimiter DEF GateInit
<1>2. ClocksInv
  BY DEF GateInit, LimiterInit, ClocksInv
<1>3. PlacesInv
  BY DEF GateInit, PlacesInv, Place
<1>4. \A g \in Gates : Holders(g) = {}
  BY DEF GateInit, Holders
<1>5. CountInv
  <2>1. \A g \in Gates : Cardinality(Holders(g)) = 0
    BY <1>4, FS_EmptySet
  <2>2. \A g \in Gates : 0 <= Limit[g]
    BY GateAssumption
  <2> QED BY <2>1, <2>2 DEF GateInit, CountInv
<1> QED BY <1>1, <1>2, <1>3, <1>5 DEF GateInv

\* A handler that moves to another place keeps everybody in place.
LEMMA MovesPlaces ==
  ASSUME PlacesInv, NEW r \in Requests, NEW t, NEW h \in SUBSET Gates, Place(t, h),
         todo' = [todo EXCEPT ![r] = t], held' = [held EXCEPT ![r] = h],
         queued' = queued \ {r}
  PROVE  PlacesInv'
<1>1. DOMAIN todo' = Requests /\ held' \in [Requests -> SUBSET Gates] /\ queued' \subseteq Requests
  BY DEF PlacesInv
<1>2. ASSUME NEW x \in Requests PROVE Place(todo'[x], held'[x])
  <2>1. CASE x = r
    BY <2>1 DEF PlacesInv
  <2>2. CASE x # r
    <3>1. todo'[x] = todo[x] /\ held'[x] = held[x]
      BY <2>2 DEF PlacesInv
    <3> QED BY <3>1 DEF PlacesInv
  <2> QED BY <2>1, <2>2
<1>3. ASSUME NEW x \in queued' PROVE todo'[x] # << >> /\ Head(todo'[x]) \in Gates
  BY <1>3 DEF PlacesInv
<1>4. Place(todo'[r], held'[r])
  BY <1>2
<1> QED BY <1>1, <1>2, <1>3 DEF PlacesInv, Place

\* Counts stay exact when a request gives back slots of S, held or not.
LEMMA GivesBack ==
  ASSUME PlacesInv, CountInv, NEW r \in Requests, NEW S,
         held' = [held EXCEPT ![r] = held[r] \ S], taken' = Released(r, S)
  PROVE  CountInv'
<1>1. ASSUME NEW g \in Gates
      PROVE  taken'[g] \in Nat /\ taken'[g] = Cardinality(Holders(g)') /\ taken'[g] <= Limit[g]
  <2>1. taken[g] \in Nat /\ taken[g] = Cardinality(Holders(g)) /\ taken[g] <= Limit[g]
        /\ Limit[g] \in Nat
    BY GateAssumption DEF CountInv
  <2>2. IsFiniteSet(Holders(g))
    BY GateAssumption, FS_Subset DEF Holders
  <2>3. CASE g \in S \cap held[r]
    <3>1. Holders(g)' = Holders(g) \ {r} /\ r \in Holders(g)
      BY <2>3 DEF Holders, PlacesInv
    <3>2. taken'[g] = taken[g] - 1
      BY <2>3 DEF Released
    <3>3. Cardinality(Holders(g) \ {r}) = Cardinality(Holders(g)) - 1
          /\ IsFiniteSet(Holders(g) \ {r})
      BY <2>2, <3>1, FS_RemoveElement
    <3>4. Cardinality(Holders(g) \ {r}) \in Nat
      BY <3>3, FS_CardinalityType
    <3> QED BY <2>1, <3>1, <3>2, <3>3, <3>4
  <2>4. CASE g \notin S \cap held[r]
    <3>1. Holders(g)' = Holders(g)
      BY <2>4 DEF Holders, PlacesInv
    <3>2. taken'[g] = taken[g]
      BY <2>1, <2>4 DEF Released
    <3> QED BY <2>1, <3>1, <3>2
  <2> QED BY <2>3, <2>4
<1>2. taken' = [g \in Gates |-> taken'[g]]
  BY DEF Released
<1>3. taken' \in [Gates -> Nat]
  BY <1>1, <1>2
<1> QED BY <1>1, <1>3 DEF CountInv

\* Counts stay exact when nobody's slots change.
LEMMA SlotsAlone ==
  ASSUME CountInv, held' = held, taken' = taken
  PROVE  CountInv'
BY DEF CountInv, Holders

\* A handler that returns leaves nothing behind.
LEMMA EndKeeps ==
  ASSUME PlacesInv, CountInv, NEW r \in Requests, End(r)
  PROVE  PlacesInv' /\ CountInv'
<1>1. held' = [held EXCEPT ![r] = held[r] \ held[r]]
  <2>1. held[r] \ held[r] = {}
    OBVIOUS
  <2> QED BY <2>1 DEF End
<1>2. CountInv'
  BY <1>1, GivesBack DEF End
<1>3. PlacesInv'
  <2>1. Place(<< >>, {})
    BY DEF Place
  <2> QED BY <2>1, MovesPlaces DEF End
<1> QED BY <1>2, <1>3

\* A handler that goes on without taking or giving back a slot.
LEMMA StepKeeps ==
  ASSUME PlacesInv, CountInv, NEW r \in Requests, Step(r), todo[r] # << >>,
         \/ Head(todo[r]) \in {"clock", "limit", "policy", "body"}
         \/ Head(todo[r]) = "work" /\ Len(todo[r]) > 1,
         UNCHANGED <<held, queued, taken>>
  PROVE  PlacesInv' /\ CountInv'
<1>1. Onward(todo[r], held[r])
  BY PlacesOnward DEF PlacesInv
<1>2. Place(Tail(todo[r]), held[r])
  BY <1>1 DEF Onward
<1>3. r \notin queued
  BY GatesApart DEF PlacesInv
<1>4. /\ todo' = [todo EXCEPT ![r] = Tail(todo[r])]
      /\ held' = [held EXCEPT ![r] = held[r]]
      /\ queued' = queued \ {r} /\ held[r] \in SUBSET Gates
  BY <1>3 DEF Step, PlacesInv
<1>5. PlacesInv'
  BY <1>2, <1>4, MovesPlaces
<1> QED BY <1>5, SlotsAlone

\* An upload whose body stops goes on to its answer with its slot.
LEMMA AnswerKeeps ==
  ASSUME PlacesInv, CountInv, NEW r \in Requests, todo[r] # << >>, Head(todo[r]) = "body",
         Processing \in held[r], todo' = [todo EXCEPT ![r] = <<"answer">>],
         UNCHANGED <<held, queued, taken>>
  PROVE  PlacesInv' /\ CountInv'
<1>1. Onward(todo[r], held[r])
  BY PlacesOnward DEF PlacesInv
<1>2. Place(<<"answer">>, held[r])
  BY <1>1 DEF Onward
<1>3. held' = [held EXCEPT ![r] = held[r]] /\ queued' = queued \ {r} /\ held[r] \in SUBSET Gates
  BY GatesApart DEF PlacesInv
<1>4. PlacesInv'
  BY <1>2, <1>3, MovesPlaces
<1> QED BY <1>4, SlotsAlone

\* A request takes a slot only when it has none of that gate and one is free.
LEMMA AcquireKeeps ==
  ASSUME PlacesInv, CountInv, NEW r \in Requests, Acquire(r)
  PROVE  PlacesInv' /\ CountInv'
<1>1. PICK g \in Gates : At(r, g) /\ Take(r, g)
  BY DEF Acquire
<1>2. todo[r] # << >> /\ Head(todo[r]) = g
  BY <1>1 DEF At, Active
<1>3. Onward(todo[r], held[r])
  BY <1>2, PlacesOnward DEF PlacesInv
<1>4. g \notin held[r] /\ Place(Tail(todo[r]), held[r] \cup {g})
  BY <1>2, <1>3 DEF Onward
<1>5. PlacesInv'
  <2>1. /\ todo' = [todo EXCEPT ![r] = Tail(todo[r])]
        /\ held' = [held EXCEPT ![r] = held[r] \cup {g}]
        /\ queued' = queued \ {r}
    BY <1>1 DEF Take, Step
  <2>2. held[r] \cup {g} \in SUBSET Gates
    BY DEF PlacesInv
  <2> QED BY <1>4, <2>1, <2>2, MovesPlaces
<1>6. ASSUME NEW x \in Gates
      PROVE  taken'[x] \in Nat /\ taken'[x] = Cardinality(Holders(x)') /\ taken'[x] <= Limit[x]
  <2>1. taken[x] \in Nat /\ taken[x] = Cardinality(Holders(x)) /\ taken[x] <= Limit[x]
        /\ Limit[x] \in Nat
    BY GateAssumption DEF CountInv
  <2>2. CASE x = g
    <3>1. Holders(x)' = Holders(x) \cup {r} /\ r \notin Holders(x)
      BY <2>2, <1>1, <1>4 DEF Take, Holders, PlacesInv
    <3>2. IsFiniteSet(Holders(x))
      BY GateAssumption, FS_Subset DEF Holders
    <3>3. Cardinality(Holders(x)') = Cardinality(Holders(x)) + 1
      BY <3>1, <3>2, FS_AddElement
    <3>4. taken'[x] = taken[x] + 1 /\ taken[x] < Limit[x]
      BY <2>2, <1>1 DEF Take, CountInv
    <3> QED BY <2>1, <3>3, <3>4
  <2>3. CASE x # g
    <3>1. Holders(x)' = Holders(x)
      BY <2>3, <1>1 DEF Take, Holders, PlacesInv
    <3>2. taken'[x] = taken[x]
      BY <2>3, <1>1 DEF Take, CountInv
    <3> QED BY <2>1, <3>1, <3>2
  <2> QED BY <2>2, <2>3
<1>7. taken' \in [Gates -> Nat]
  <2>1. taken' = [x \in Gates |-> taken'[x]]
    BY <1>1 DEF Take, CountInv
  <2> QED BY <1>6, <2>1
<1> QED BY <1>5, <1>6, <1>7 DEF CountInv

\* A picture is ready: the processing slot is given back and the rest is sending.
LEMMA DecodeKeeps ==
  ASSUME PlacesInv, CountInv, NEW r \in Requests, Decode(r)
  PROVE  PlacesInv' /\ CountInv'
<1>1. todo[r] # << >> /\ Head(todo[r]) = "decode"
  BY DEF Decode, At, Active
<1>2. Onward(todo[r], held[r])
  BY <1>1, PlacesOnward DEF PlacesInv
<1>3. CASE End(r)
  BY <1>3, EndKeeps
<1>4. CASE ~End(r)
  <2>1. /\ todo' = [todo EXCEPT ![r] = Tail(todo[r])]
        /\ held' = [held EXCEPT ![r] = held[r] \ {Processing}]
        /\ taken' = Released(r, {Processing}) /\ queued' = queued
    BY <1>4 DEF Decode, Step
  <2>2. Place(Tail(todo[r]), held[r] \ {Processing})
    BY <1>1, <1>2 DEF Onward
  <2>3. queued' = queued \ {r} /\ held[r] \ {Processing} \in SUBSET Gates
    BY <1>1, <2>1, GatesApart DEF PlacesInv
  <2>4. PlacesInv'
    BY <2>1, <2>2, <2>3, MovesPlaces
  <2> QED BY <2>1, <2>4, GivesBack
<1> QED BY <1>3, <1>4

-----------------------------------------------------------------------------
(* Every step of the gate keeps the invariant.                             *)

\* A request reads the clock once, and forgets what it read when it ends.
LEMMA ClocksKept ==
  ASSUME LimiterInv, ClocksInv, clock' = clock, NEW r \in Requests,
         \/ now' = now
         \/ now' = [now EXCEPT ![r] = clock]
         \/ now' = [now EXCEPT ![r] = 0]
  PROVE  ClocksInv'
BY DEF LimiterInv, LimiterTyped, ClocksInv

LEMMA LimiterAlone ==
  ASSUME LimiterInv, UNCHANGED limiter
  PROVE  LimiterInv'
<1>1. /\ clock' = clock /\ buckets' = buckets /\ budget' = budget /\ late' = late
  BY DEF limiter
<1> QED BY <1>1 DEF LimiterInv, LimiterTyped, BucketsWithin, WithinBucket, Covered, Level, Due,
                 Topped, Full

\* What a step of one request does to the gates.
LEMMA ServeKeepsPlaces ==
  ASSUME GateInv, NEW r \in Requests,
         \/ Serve(r) \/ TimerFires(r) \/ ClientLeaves(r) \/ BodyArrives(r) \/ Sent(r)
         \/ \E kind \in DOMAIN Plans, k \in Keys : Arrive(r, kind, k)
  PROVE  PlacesInv' /\ CountInv'
<1> USE DEF GateInv
<1>1. CASE \E kind \in DOMAIN Plans, k \in Keys : Arrive(r, kind, k)
  <2>1. PICK kind \in DOMAIN Plans, k \in Keys : Arrive(r, kind, k)
    BY <1>1
  <2>2. todo[r] = << >> /\ held[r] = {} /\ r \notin queued
    <3>1. todo[r] = << >> /\ r \notin queued /\ Place(<< >>, held[r])
      BY <2>1 DEF Arrive, Active, PlacesInv
    <3> QED BY <3>1 DEF Place
  <2>3. Place(Planned(kind), {})
    <3>1. kind \in {"upload", "avatar", "photo", "download", "export"}
      BY DEF Plans
    <3>2. CASE kind = "upload"
      <4>1. Plans[kind] = <<"clock", "limit", "policy", Processing, "body", "work", "answer">>
        BY <3>2 DEF Plans
      <4>2. Tail(Tail(Plans[kind])) = <<"policy", Processing, "body", "work", "answer">>
        BY <4>1
      <4>3. Planned(kind) \in {Plans[kind], Tail(Tail(Plans[kind]))}
        BY DEF Planned
      <4> QED BY <4>1, <4>2, <4>3 DEF Place
    <3>3. CASE kind # "upload"
      <4>1. Planned(kind) = Plans[kind]
        BY <3>3 DEF Planned
      <4>2. Plans[kind] \in {<<"body", Processing, "work">>, <<Processing, "decode", "send">>,
                             <<Exports, Processing, "decode", "send">>,
                             <<Exports, "work", "send">>}
        BY <3>1, <3>3 DEF Plans
      <4> QED BY <4>1, <4>2 DEF Place
    <3> QED BY <3>2, <3>3
  <2>4. /\ todo' = [todo EXCEPT ![r] = Planned(kind)]
        /\ held' = [held EXCEPT ![r] = {}]
        /\ queued' = queued \ {r}
    BY <2>1, <2>2 DEF Arrive, PlacesInv
  <2>5. PlacesInv'
    BY <2>3, <2>4, MovesPlaces
  <2> QED BY <2>1, <2>5, SlotsAlone DEF Arrive
<1>2. CASE ReadClock(r)
  BY <1>2, StepKeeps DEF ReadClock, At, Active
<1>3. CASE Allow(r)
  BY <1>3, StepKeeps, EndKeeps DEF Allow, At, Active
<1>4. CASE CheckPolicy(r)
  BY <1>4, StepKeeps, EndKeeps DEF CheckPolicy, At, Active
<1>5. CASE Acquire(r)
  BY <1>5, AcquireKeeps
<1>6. CASE Queue(r)
  <2>1. PlacesInv'
    BY <1>6 DEF Queue, At, Active, PlacesInv, Place
  <2> QED BY <1>6, <2>1, SlotsAlone DEF Queue
<1>7. CASE GiveUp(r) \/ Sent(r) \/ WriteFails(r)
  BY <1>7, EndKeeps DEF GiveUp, Sent, WriteFails
<1>8. CASE Work(r)
  BY <1>8, StepKeeps, EndKeeps DEF Work, At, Active
<1>9. CASE Decode(r)
  BY <1>9, DecodeKeeps
<1>10. CASE BodyArrives(r)
  BY <1>10, StepKeeps DEF BodyArrives, At, Active
<1>11. CASE TimerFires(r) \/ ClientLeaves(r)
  <2>1. UNCHANGED <<todo, held, queued, taken>>
    BY <1>11 DEF TimerFires, ClientLeaves
  <2> QED BY <2>1, SlotsAlone DEF PlacesInv, Place
<1>12. CASE BodyStops(r)
  BY <1>12, AnswerKeeps, EndKeeps DEF BodyStops, At, Active
<1> QED BY <1>1, <1>2, <1>3, <1>4, <1>5, <1>6, <1>7, <1>8, <1>9, <1>10, <1>11, <1>12 DEF Serve

\* What a step of one request does to the limiter and to what it read.
LEMMA ServeKeepsLimiter ==
  ASSUME GateInv, NEW r \in Requests,
         \/ Serve(r) \/ TimerFires(r) \/ ClientLeaves(r) \/ BodyArrives(r) \/ Sent(r)
         \/ \E kind \in DOMAIN Plans, k \in Keys : Arrive(r, kind, k)
  PROVE  LimiterInv' /\ ClocksInv'
<1> USE DEF GateInv
<1>1. CASE Allow(r)
  <2>1. Charge(key[r], now[r]) /\ clock' = clock
    BY <1>1 DEF Allow, Charge
  <2>2. now[r] \in Int /\ now[r] <= clock
    BY DEF ClocksInv
  <2>3. LimiterInv'
    BY <2>1, <2>2, ChargeKeepsLimiter
  <2>4. now' = now \/ now' = [now EXCEPT ![r] = 0]
    BY <1>1 DEF Allow, End
  <2> QED BY <2>1, <2>3, <2>4, ClocksKept
<1>2. CASE ~Allow(r)
  <2>1. UNCHANGED limiter
    BY <1>2 DEF Serve, TimerFires, ClientLeaves, BodyArrives, Sent, Arrive, ReadClock,
       CheckPolicy, Acquire, Take, Queue, GiveUp, BodyStops, Work, Decode,
       WriteFails
  <2>2. \/ now' = now
        \/ now' = [now EXCEPT ![r] = clock]
        \/ now' = [now EXCEPT ![r] = 0]
    BY <1>2 DEF Serve, TimerFires, ClientLeaves, BodyArrives, Sent, Arrive, ReadClock,
       CheckPolicy, Acquire, Take, Queue, GiveUp, BodyStops, Work, Decode,
       WriteFails, End
  <2>3. clock' = clock
    BY <2>1 DEF limiter
  <2> QED BY <2>1, <2>2, <2>3, LimiterAlone, ClocksKept
<1> QED BY <1>1, <1>2

\* The inductive invariant of the gate.
LEMMA NextGate == GateInv /\ [GateNext]_gateVars => GateInv'
<1> SUFFICES ASSUME GateInv, [GateNext]_gateVars PROVE GateInv'
  OBVIOUS
<1>1. CASE \E r \in Requests :
              \/ \E kind \in DOMAIN Plans, k \in Keys : Arrive(r, kind, k)
              \/ Serve(r) \/ TimerFires(r) \/ ClientLeaves(r) \/ BodyArrives(r) \/ Sent(r)
  BY <1>1, ServeKeepsPlaces, ServeKeepsLimiter DEF GateInv
<1>2. CASE Tick /\ UNCHANGED <<enabled, requests>>
  <2>1. LimiterInv'
    BY <1>2, TickKeepsLimiter DEF GateInv
  <2>2. UNCHANGED <<todo, now, held, queued, taken>> /\ clock' = clock + 1 /\ clock \in Nat
    BY <1>2 DEF requests, Tick, GateInv, LimiterInv, LimiterTyped
  <2>3. ClocksInv'
    BY <2>2 DEF ClocksInv, GateInv
  <2>4. PlacesInv' /\ CountInv'
    BY <2>2, SlotsAlone DEF GateInv, PlacesInv, Place
  <2> QED BY <2>1, <2>3, <2>4 DEF GateInv
<1>3. CASE UNCHANGED gateVars
  <2>1. UNCHANGED limiter /\ UNCHANGED <<todo, now, held, queued, taken>> /\ clock' = clock
    BY <1>3 DEF gateVars, requests, limiter
  <2>2. LimiterInv' /\ CountInv'
    BY <2>1, LimiterAlone, SlotsAlone DEF GateInv
  <2>3. ClocksInv' /\ PlacesInv'
    BY <2>1 DEF GateInv, ClocksInv, PlacesInv, Place
  <2> QED BY <2>2, <2>3 DEF GateInv
<1> QED BY <1>1, <1>2, <1>3 DEF GateNext

\* A table that forgets, and requests that overtake one another, admit no more
\* than one bucket per key would: ratelimit.Limiter, for every rate, burst,
\* table size, sweep and interleaving.
THEOREM BudgetHolds == GateSpec => []BudgetKept
<1>1. GateInv => BudgetKept
  BY DEF GateInv, LimiterInv, Covered, BudgetKept
<1> QED BY <1>1, InitGate, NextGate, PTL DEF GateSpec

\* Each gate has exactly as many slots out as requests hold one and are being
\* served, never more than its limit: gate.acquire and the deferred releases of
\* its callers, for any number of requests and slots.
THEOREM SlotsHold == GateSpec => []SlotsExact
<1>1. GateInv => SlotsExact
  <2> SUFFICES ASSUME GateInv PROVE SlotsExact
    OBVIOUS
  <2>1. \A g \in Gates :
          taken[g] = Cardinality({r \in Requests : g \in held[r]}) /\ taken[g] <= Limit[g]
    BY DEF GateInv, CountInv, Holders
  <2>2. ASSUME NEW r \in Requests, held[r] # {} PROVE Active(r)
    BY <2>2 DEF GateInv, PlacesInv, Place, Active
  <2>3. ASSUME NEW r \in Requests, held[r] # {}, r \in queued PROVE held[r] = {Exports}
    <3>1. todo[r] # << >> /\ Head(todo[r]) \in Gates /\ Place(todo[r], held[r])
      BY <2>3 DEF GateInv, PlacesInv
    <3>2. held[r] \subseteq {Exports}
      BY <3>1, PlacesOnward DEF Onward
    <3> QED BY <2>3, <3>2
  <2> QED BY <2>1, <2>2, <2>3 DEF SlotsExact
<1> QED BY <1>1, InitGate, NextGate, PTL DEF GateSpec
-----------------------------------------------------------------------------
(* The recency list: it names exactly the keys of the table, each once.    *)

Listed(s) == {s[i] : i \in DOMAIN s}
Distinct(s) == \A i, j \in DOMAIN s : s[i] = s[j] => i = j

TableInv ==
    /\ order \in Seq(Listed(order))
    /\ Listed(order) = DOMAIN buckets
    /\ Distinct(order)
    /\ Len(order) <= MaxKeys

\* A list without repetitions is as long as the set it names.
LEMMA LengthCounts ==
  ASSUME NEW s, s \in Seq(Listed(s)), Distinct(s)
  PROVE  IsFiniteSet(Listed(s)) /\ Cardinality(Listed(s)) = Len(s)
<1> DEFINE n == Len(s)
           f == [i \in 1..n |-> s[i]]
<1>0. n \in Nat /\ DOMAIN s = 1..n
  OBVIOUS
<1>1. f \in Bijection(1..n, Listed(s))
  BY <1>0 DEF Bijection, Injection, Surjection, IsInjective, Listed, Distinct
<1>2. ExistsBijection(1..n, Listed(s))
  BY <1>1 DEF ExistsBijection
<1>3. IsFiniteSet(1..n) /\ Cardinality(1..n) = n
  BY <1>0, FS_Interval
<1> QED BY <1>2, <1>3, FS_Bijection

\* The ranks of a finite set's elements: each element has its own, and every
\* rank up to the size of the set is some element's.
LEMMA RanksFill ==
  ASSUME NEW K, IsFiniteSet(K), K \in SUBSET Int
  PROVE  LET Rank(i) == Cardinality({h \in K : h <= i})
         IN /\ Cardinality(K) \in Nat
            /\ \A i \in K : Rank(i) \in 1..Cardinality(K)
            /\ \A i, k \in K : Rank(i) = Rank(k) => i = k
            /\ \A j \in 1..Cardinality(K) : \E i \in K : Rank(i) = j
<1> DEFINE Rank(i) == Cardinality({h \in K : h <= i})
           f == [i \in K |-> Rank(i)]
           n == Cardinality(K)
<1>1. n \in Nat /\ IsFiniteSet(1..n) /\ Cardinality(1..n) = n
  BY FS_CardinalityType, FS_Interval
<1>2. ASSUME NEW i \in K PROVE Rank(i) \in 1..n
  <2> DEFINE B == {h \in K : h <= i}
  <2>1. B \in SUBSET K /\ IsFiniteSet(B) /\ Cardinality(B) <= n
    BY FS_Subset
  <2>2. {i} \in SUBSET B /\ Cardinality({i}) = 1
    BY FS_Singleton
  <2>3. 1 <= Cardinality(B) /\ Cardinality(B) \in Nat
    BY <2>1, <2>2, FS_Subset, FS_CardinalityType
  <2> QED BY <1>1, <2>1, <2>3
<1>3. ASSUME NEW i \in K, NEW k \in K, i < k PROVE Rank(i) # Rank(k)
  <2> DEFINE B == {h \in K : h <= i}
             C == {h \in K : h <= k}
  <2>0. i \in Int /\ k \in Int /\ \A h \in K : h \in Int
    OBVIOUS
  <2>1. C \subseteq K /\ k \in C /\ k \notin B
    BY <1>3, <2>0
  <2>2. ASSUME NEW h \in K, h <= i PROVE h <= k
    BY <1>3, <2>0, <2>2
  <2>3. B \subseteq C
    BY <2>2
  <2>4. IsFiniteSet(C)
    BY <2>1, FS_Subset
  <2>5. Cardinality(C) = Cardinality(B) => C = B
    BY <2>3, <2>4, FS_Subset
  <2> QED BY <2>1, <2>5
<1>4. \A i, k \in K : Rank(i) = Rank(k) => i = k
  <2> HIDE DEF Rank
  <2> QED BY <1>3
<1>5. f \in Injection(K, 1..n)
  <2> HIDE DEF Rank, n
  <2> QED BY <1>2, <1>4 DEF Injection, IsInjective
<1>6. f \in Surjection(K, 1..n)
  BY <1>1, <1>5, FS_Injection
<1>7. \A j \in 1..n : \E i \in K : Rank(i) = j
  <2> HIDE DEF Rank, n
  <2> QED BY <1>6 DEF Surjection
<1> QED BY <1>1, <1>2, <1>4, <1>7

\* Removing elements leaves the others, each once.
LEMMA WithoutKeeps ==
  ASSUME NEW s, s \in Seq(Listed(s)), Distinct(s), NEW S
  PROVE  LET t == Without(s, S)
         IN t \in Seq(Listed(s)) /\ Listed(t) = Listed(s) \ S /\ Distinct(t)
<1> DEFINE K == {i \in DOMAIN s : s[i] \notin S}
           Rank(i) == Cardinality({h \in K : h <= i})
           m == Cardinality(K)
           From(j) == CHOOSE i \in K : Rank(i) = j
           t == Without(s, S)
<1>0. Len(s) \in Nat /\ DOMAIN s = 1..Len(s)
  OBVIOUS
<1>1. IsFiniteSet(K) /\ K \in SUBSET Int
  <2>1. IsFiniteSet(1..Len(s))
    BY <1>0, FS_Interval
  <2> QED BY <1>0, <2>1, FS_Subset
<1>2. /\ m \in Nat
      /\ \A i \in K : Rank(i) \in 1..m
      /\ \A i, k \in K : Rank(i) = Rank(k) => i = k
      /\ \A j \in 1..m : \E i \in K : Rank(i) = j
  BY <1>1, RanksFill
<1>3. t = [j \in 1..m |-> s[From(j)]]
  BY DEF Without
<1>4. \A i \in K : i \in DOMAIN s /\ s[i] \notin S /\ s[i] \in Listed(s)
  BY DEF Listed
<1>5. \A x \in Listed(s) \ S : \E i \in K : s[i] = x
  BY DEF Listed
<1> HIDE DEF K, t, m, Rank
<1>6. \A j \in 1..m : From(j) \in K /\ Rank(From(j)) = j
  BY <1>2
<1>7. \A i \in K : From(Rank(i)) = i
  BY <1>2, <1>6
<1> HIDE DEF From
<1>8. DOMAIN t = 1..m /\ \A j \in 1..m : t[j] = s[From(j)]
  BY <1>3
<1>9. t \in Seq(Listed(s))
  BY <1>2, <1>3, <1>4, <1>6
<1>10. Listed(t) \subseteq Listed(s) \ S
  BY <1>4, <1>6, <1>8 DEF Listed
<1>11. \A x \in Listed(s) \ S : \E j \in 1..m : t[j] = x
  BY <1>2, <1>5, <1>7, <1>8
<1>12. Listed(s) \ S \subseteq Listed(t)
  BY <1>8, <1>11 DEF Listed
<1>13. Distinct(t)
  <2> SUFFICES ASSUME NEW a \in 1..m, NEW b \in 1..m, t[a] = t[b] PROVE a = b
    BY <1>8 DEF Distinct
  <2>1. From(a) = From(b)
    BY <1>4, <1>6, <1>8 DEF Distinct
  <2> QED BY <1>6, <2>1
<1> QED BY <1>9, <1>10, <1>12, <1>13 DEF t

\* Putting a new element in front adds it, once.
LEMMA InFront ==
  ASSUME NEW T, NEW s \in Seq(T), Distinct(s), NEW k, k \notin Listed(s)
  PROVE  LET u == <<k>> \o s
         IN u \in Seq(Listed(u)) /\ Listed(u) = {k} \cup Listed(s) /\ Distinct(u)
<1> DEFINE u == <<k>> \o s
<1>0. Len(s) \in Nat /\ DOMAIN s = 1..Len(s)
  OBVIOUS
<1>1. s \in Seq(T \cup {k}) /\ <<k>> \in Seq(T \cup {k})
  OBVIOUS
<1>2. u \in Seq(T \cup {k}) /\ Len(u) = Len(s) + 1
  BY <1>1
<1>3. DOMAIN u = 1..(Len(s) + 1)
  BY <1>2
<1>4. u[1] = k /\ \A i \in 1..Len(s) : u[i + 1] = s[i]
  BY <1>1
<1> HIDE DEF u
<1>5. \A i \in DOMAIN u : i = 1 \/ (i - 1 \in DOMAIN s /\ i # 1 /\ u[i] = s[i - 1])
  <2> SUFFICES ASSUME NEW i \in 1..(Len(s) + 1), i # 1
               PROVE  i - 1 \in 1..Len(s) /\ u[i] = s[i - 1]
    BY <1>0, <1>3
  <2>1. i - 1 \in 1..Len(s) /\ (i - 1) + 1 = i
    BY <1>0
  <2> QED BY <1>4, <2>1
<1>6. Listed(u) \subseteq {k} \cup Listed(s)
  BY <1>4, <1>5 DEF Listed
<1>7. {k} \cup Listed(s) \subseteq Listed(u)
  <2>1. k \in Listed(u)
    BY <1>0, <1>3, <1>4 DEF Listed
  <2>2. ASSUME NEW i \in DOMAIN s PROVE s[i] \in Listed(u)
    <3>1. i + 1 \in DOMAIN u /\ u[i + 1] = s[i]
      BY <1>0, <1>3, <1>4
    <3> QED BY <3>1 DEF Listed
  <2> QED BY <2>1, <2>2 DEF Listed
<1>8. Distinct(u)
  <2> SUFFICES ASSUME NEW a \in DOMAIN u, NEW b \in DOMAIN u, u[a] = u[b] PROVE a = b
    BY DEF Distinct
  <2>1. \A i \in DOMAIN u : i # 1 => u[i] \in Listed(s)
    BY <1>5 DEF Listed
  <2>2. CASE a = 1 \/ b = 1
    BY <1>4, <2>1, <2>2
  <2>3. CASE a # 1 /\ b # 1
    <3>1. a - 1 \in DOMAIN s /\ b - 1 \in DOMAIN s /\ s[a - 1] = s[b - 1]
      BY <1>5, <2>3
    <3>2. a - 1 = b - 1
      BY <3>1 DEF Distinct
    <3> QED BY <1>3, <3>2
  <2> QED BY <2>2, <2>3
<1>9. u \in Seq(Listed(u))
  <2>1. \A i \in 1..Len(u) : u[i] \in Listed(u)
    BY <1>0, <1>2, <1>3 DEF Listed
  <2> QED BY <1>2, <2>1
<1> QED BY <1>6, <1>7, <1>8, <1>9 DEF u

\* One key is pushed out at most, and only when nothing less leaves room.
LEMMA RoomIsMade ==
  ASSUME TableInv, NEW k, NEW n
  PROVE  LET kept == DOMAIN buckets \ Forgotten(k, n)
         IN IsFiniteSet(kept \cup {k}) /\ Cardinality(kept \cup {k}) <= MaxKeys
<1> DEFINE rest == DOMAIN buckets \ Swept(n)
           list == Without(order, Swept(n))
           kept == DOMAIN buckets \ Forgotten(k, n)
<1>1. /\ IsFiniteSet(DOMAIN buckets) /\ Cardinality(DOMAIN buckets) = Len(order)
      /\ Len(order) \in Nat /\ MaxKeys \in Nat \ {0} /\ Len(order) <= MaxKeys
  BY LengthCounts, LimiterAssumption DEF TableInv
<1>2. list \in Seq(Listed(order)) /\ Listed(list) = rest /\ Distinct(list)
  BY WithoutKeeps DEF TableInv
<1>3. /\ IsFiniteSet(rest) /\ Cardinality(rest) \in Nat
      /\ Cardinality(rest) <= MaxKeys
  BY <1>1, FS_Subset, FS_CardinalityType
<1>4. Len(list) = Cardinality(rest) /\ list \in Seq(rest)
  <2>1. \A i \in 1..Len(list) : list[i] \in Listed(list)
    BY <1>2 DEF Listed
  <2>2. list \in Seq(Listed(list))
    BY <1>2, <2>1
  <2> QED BY <1>2, <2>2, LengthCounts
<1>5. PushedOut(k, n) = IF k \in rest \/ Cardinality(rest) < MaxKeys THEN {} ELSE {Last(list)}
  BY DEF PushedOut
<1> HIDE DEF list
<1>6. kept = rest \ PushedOut(k, n)
  BY DEF Forgotten
<1>7. CASE k \in rest
  <2>1. kept \cup {k} = rest
    BY <1>5, <1>6, <1>7
  <2> QED BY <1>3, <2>1
<1>8. CASE k \notin rest /\ Cardinality(rest) < MaxKeys
  <2>1. kept = rest
    BY <1>5, <1>6, <1>8
  <2>2. IsFiniteSet(rest \cup {k}) /\ Cardinality(rest \cup {k}) = Cardinality(rest) + 1
    BY <1>3, <1>8, FS_AddElement
  <2>3. Cardinality(rest) + 1 <= MaxKeys
    BY <1>1, <1>3, <1>4, <1>8
  <2> HIDE DEF rest, kept
  <2> QED BY <2>1, <2>2, <2>3 DEF kept
<1>9. CASE k \notin rest /\ ~(Cardinality(rest) < MaxKeys)
  <2>1. Len(list) \in Nat /\ Len(list) # 0
    BY <1>1, <1>3, <1>4, <1>9
  <2>2. Last(list) \in rest
    BY <1>4, <2>1 DEF Last
  <2>3. kept = rest \ {Last(list)}
    BY <1>5, <1>6, <1>9
  <2>4. IsFiniteSet(kept) /\ Cardinality(kept) = Cardinality(rest) - 1
    BY <1>3, <2>2, <2>3, FS_RemoveElement
  <2>5. k \notin kept
    BY <1>9, <2>3
  <2>6. IsFiniteSet(kept \cup {k}) /\ Cardinality(kept \cup {k}) = Cardinality(kept) + 1
    BY <2>4, <2>5, FS_AddElement
  <2> QED BY <1>3, <2>4, <2>6
<1> QED BY <1>7, <1>8, <1>9

\* A request leaves the list and the table in step.
LEMMA ChargeKeepsTable ==
  ASSUME TableInv, NEW k, NEW n, Charge(k, n)
  PROVE  TableInv'
<1> DEFINE gone1 == {k} \cup Forgotten(k, n)
           rest == Without(order, gone1)
           kept == DOMAIN buckets \ Forgotten(k, n)
<1>1. /\ rest \in Seq(Listed(order)) /\ Listed(rest) = Listed(order) \ gone1
      /\ Distinct(rest)
  BY WithoutKeeps DEF TableInv
<1>2. order' = <<k>> \o rest /\ DOMAIN buckets' = kept \cup {k}
  BY DEF Charge, Fronted
<1>3. k \notin Listed(rest) /\ {k} \cup Listed(rest) = kept \cup {k}
  BY <1>1 DEF TableInv
<1> HIDE DEF rest, kept
<1>4. /\ order' \in Seq(Listed(order')) /\ Listed(order') = DOMAIN buckets'
      /\ Distinct(order')
  BY <1>1, <1>2, <1>3, InFront
<1>5. Cardinality(DOMAIN buckets') <= MaxKeys
  BY <1>2, RoomIsMade DEF kept
<1>6. Len(order') = Cardinality(DOMAIN buckets')
  BY <1>4, LengthCounts
<1> QED BY <1>4, <1>5, <1>6 DEF TableInv, Listed, Distinct

\* The table starts empty, and a request to a limiter is all that changes it.
LEMMA InitTable == GateInit => TableInv
<1> SUFFICES ASSUME GateInit PROVE TableInv
  OBVIOUS
<1>1. order = << >> /\ buckets = << >>
  BY DEF GateInit, LimiterInit
<1>2. Listed(order) = {} /\ DOMAIN buckets = {} /\ Distinct(order) /\ Len(order) = 0
  BY <1>1 DEF Listed, Distinct
<1> QED BY <1>1, <1>2, LimiterAssumption DEF TableInv

LEMMA NextTable == TableInv /\ [GateNext]_gateVars => TableInv'
<1> SUFFICES ASSUME TableInv, [GateNext]_gateVars PROVE TableInv'
  OBVIOUS
<1>1. \/ \E k, n : Charge(k, n)
      \/ UNCHANGED <<buckets, order>>
  <2>1. ASSUME NEW r \in Requests, ~Allow(r),
               \/ Serve(r) \/ TimerFires(r) \/ ClientLeaves(r) \/ BodyArrives(r) \/ Sent(r)
               \/ \E kind \in DOMAIN Plans, k \in Keys : Arrive(r, kind, k)
        PROVE  UNCHANGED <<buckets, order>>
    BY <2>1 DEF Serve, TimerFires, ClientLeaves, BodyArrives, Sent, Arrive, ReadClock,
       CheckPolicy, Acquire, Take, Queue, GiveUp, BodyStops, Work, Decode,
       WriteFails, limiter
  <2>2. ASSUME NEW r \in Requests, Allow(r) PROVE Charge(key[r], now[r])
    BY <2>2 DEF Allow
  <2>3. Tick \/ UNCHANGED gateVars => UNCHANGED <<buckets, order>>
    BY DEF Tick, gateVars, limiter
  <2> QED BY <2>1, <2>2, <2>3 DEF GateNext
<1>2. CASE \E k, n : Charge(k, n)
  BY <1>2, ChargeKeepsTable
<1>3. CASE UNCHANGED <<buckets, order>>
  BY <1>3 DEF TableInv, Listed, Distinct
<1> QED BY <1>1, <1>2, <1>3

\* The table never tracks more than MaxKeys keys, and its recency list names
\* each of them once: bucketLocked, gcLocked and removeLocked, for every size of
\* table and every sweep.
THEOREM TableStaysBounded == GateSpec => []TableBounded
<1>1. TableInv => TableBounded
  BY LengthCounts DEF TableInv, TableBounded, Listed
<1> QED BY <1>1, InitTable, NextTable, PTL DEF GateSpec
=============================================================================
