--------------------------- MODULE MailQueueProofs ---------------------------
(***************************************************************************)
(* A proof that no message is at the relay twice at once, for any number   *)
(* of messages, workers, attempts and failures, as long as administrators  *)
(* retry only parked messages and the lease outlasts the relay's timeout.  *)
(***************************************************************************)
EXTENDS MailQueue, FiniteSetTheorems, TLAPS

\* The queue starts empty, and nobody is delivering.
LEMMA InitMail == Init => MailInv
BY DEF Init, MailInv, ShapesFit, RowFits, OneAttemptAtATime, Leased, Fresh, NoJob, InFlight

\* The delay before a retry is a number.
LEMMA BackoffType ==
  ASSUME NEW attempts \in Int
  PROVE  Backoff(attempts) \in Int
<1>1. attempts - 1 \in Int
  OBVIOUS
<1> QED BY MailAssumption, <1>1 DEF Backoff

\* Rows stay rows when their fields are written.
LEMMA RowWrites ==
  ASSUME NEW row, RowFits(row)
  PROVE  /\ \A b \in BOOLEAN : RowFits([row EXCEPT !.stored = b])
         /\ \A b \in BOOLEAN : RowFits([row EXCEPT !.sent = b])
         /\ \A n \in Int : RowFits([row EXCEPT !.wait = n])
         /\ \A b \in BOOLEAN, k \in Int, n \in Int :
               RowFits([row EXCEPT !.attempts = k, !.failed = b, !.wait = n])
         /\ \A b \in BOOLEAN, k \in Int, n \in Int :
               RowFits([row EXCEPT !.failed = b, !.attempts = k, !.wait = n])
BY DEF RowFits

\* RetryMail's UPDATE leaves a row.
LEMMA RetriedRow ==
  ASSUME NEW row, RowFits(row)
  PROVE  RowFits([row EXCEPT !.failed = FALSE, !.attempts = 0, !.wait = 0])
<1>1. FALSE \in BOOLEAN /\ 0 \in Int
  OBVIOUS
<1> QED BY <1>1, RowWrites, Zenon

\* A worker goes on with its delivery, whose row is as it was or was deleted.
GoesOn(v) ==
    LET m == job[v].msg IN
    /\ pc[v] \in InFlight
    /\ job'[v] = job[v]
    /\ mail'[m].stored => mail'[m] = mail[m]
    /\ mail'[m].stored \/ mail'[m].sent

\* A step after which every delivery under way was under way before it.
LEMMA NoNewDelivery ==
  ASSUME MailInv, ShapesFit', \A v \in Workers : pc'[v] \notin InFlight \/ GoesOn(v)
  PROVE  MailInv'
<1>1. OneAttemptAtATime'
  BY DEF MailInv, OneAttemptAtATime, GoesOn
<1>2. ASSUME NEW v \in Workers PROVE Leased(v)'
  BY DEF MailInv, Leased, GoesOn
<1> QED BY <1>1, <1>2 DEF MailInv

\* A step of one worker, which has no delivery under way after it.
LEMMA OneWorker ==
  ASSUME MailInv, ShapesFit', NEW w \in Workers, pc'[w] \notin InFlight,
         \A v \in Workers \ {w} : pc'[v] = pc[v] /\ job'[v] = job[v],
         \A v \in Workers \ {w} : pc[v] \in InFlight => mail'[job[v].msg] = mail[job[v].msg]
  PROVE  MailInv'
<1>1. ASSUME NEW v \in Workers \ {w}, pc'[v] \in InFlight PROVE GoesOn(v)
  BY <1>1 DEF MailInv, Leased, GoesOn
<1> QED BY <1>1, NoNewDelivery

\* Queueing a message, or retrying a parked one, meets no delivery of it.
LEMMA EnqueueKeeps ==
  ASSUME MailInv, NEW w \in Workers, NEW m \in Messages, Enqueue(w, m) \/ RetryMail(w, m),
         "queued" \notin Retriable
  PROVE  MailInv'
<1>1. ShapesFit'
  <2>1. \A n \in Messages : RowFits(mail[n]) /\ DOMAIN mail = Messages
    BY DEF MailInv, ShapesFit
  <2>2. CASE Enqueue(w, m)
    <3>1. {<<m, 0>>} \in SUBSET (Messages \X Int)
      OBVIOUS
    <3>2. DOMAIN mail' = Messages /\ \A n \in Messages : RowFits(mail'[n])
      BY <2>1, <2>2, RowWrites DEF Enqueue
    <3> QED BY <2>2, <3>1, <3>2 DEF Enqueue, MailInv, ShapesFit
  <2>3. CASE RetryMail(w, m)
    <3>1. RowFits([mail[m] EXCEPT !.failed = FALSE, !.attempts = 0, !.wait = 0])
      BY <2>1, RetriedRow
    <3>2. mail'[m] = [mail[m] EXCEPT !.failed = FALSE, !.attempts = 0, !.wait = 0]
      BY <2>1, <2>3 DEF RetryMail
    <3>3. DOMAIN mail' = Messages /\ \A n \in Messages \ {m} : mail'[n] = mail[n]
      BY <2>1, <2>3 DEF RetryMail
    <3>4. \A n \in Messages : RowFits(mail'[n])
      BY <2>1, <3>1, <3>2, <3>3
    <3> QED BY <2>3, <3>3, <3>4 DEF RetryMail, MailInv, ShapesFit
  <2> QED BY <2>2, <2>3
<1>2. ASSUME NEW v \in Workers, pc[v] \in InFlight PROVE job[v].msg # m
  BY <1>2 DEF Enqueue, RetryMail, MailInv, Leased, Fresh
<1>3. \A n \in Messages \ {m} : mail'[n] = mail[n]
  BY DEF Enqueue, RetryMail, MailInv, ShapesFit
<1>4. \A v \in Workers \ {w} : pc[v] \in InFlight => mail'[job[v].msg] = mail[job[v].msg]
  BY <1>2, <1>3 DEF MailInv, Leased
<1>5. /\ pc'[w] \notin InFlight
      /\ \A v \in Workers \ {w} : pc'[v] = pc[v] /\ job'[v] = job[v]
  BY DEF Enqueue, RetryMail, MailInv, ShapesFit, InFlight
<1> QED BY <1>1, <1>4, <1>5, OneWorker

\* Listing the due messages starts no delivery.
LEMMA DrainKeeps ==
  ASSUME MailInv, NEW w \in Workers, Drain(w)
  PROVE  MailInv'
<1>1. DueMail \subseteq Messages \X Int
  BY DEF DueMail, MailInv, ShapesFit, RowFits
<1>2. ShapesFit'
  BY <1>1 DEF Drain, MailInv, ShapesFit, InFlight
<1>3. /\ pc'[w] \notin InFlight
      /\ \A v \in Workers \ {w} : pc'[v] = pc[v] /\ job'[v] = job[v]
  BY DEF Drain, MailInv, ShapesFit, InFlight
<1> QED BY <1>2, <1>3, OneWorker DEF Drain

\* A worker that goes on to its next message has no delivery under way.
LEMMA AdvanceFits ==
  ASSUME MailInv, NEW w \in Workers, NEW rest \in SUBSET (Messages \X Int), Advance(w, rest)
  PROVE  /\ pc' \in [Workers -> {"idle", "drain", "claim"} \cup InFlight]
         /\ batch' \in [Workers -> SUBSET (Messages \X Int)]
         /\ job' \in [Workers -> [msg : Messages \cup {None}, attempts : Int, age : Int]]
         /\ pc'[w] \notin InFlight
         /\ \A v \in Workers \ {w} : pc'[v] = pc[v] /\ job'[v] = job[v]
BY DEF Advance, MailInv, ShapesFit, NoJob, InFlight

\* The claim is won only if nobody else can still be at the relay.
LEMMA ClaimKeeps ==
  ASSUME MailInv, NEW w \in Workers, Claim(w)
  PROVE  MailInv'
<1>1. PICK listed \in batch[w] :
          LET m == listed[1] IN
          \/ /\ Claimable(m)
             /\ mail' = [mail EXCEPT ![m].wait = Lease]
             /\ job' = [job EXCEPT ![w] = [msg |-> m, attempts |-> listed[2], age |-> 0]]
             /\ batch' = [batch EXCEPT ![w] = @ \ {listed}]
             /\ pc' = [pc EXCEPT ![w] = "sending"]
          \/ Advance(w, batch[w] \ {listed}) /\ UNCHANGED mail
  BY DEF Claim
<1>2. PICK m \in Messages, k \in Int : listed = <<m, k>>
  BY DEF MailInv, ShapesFit
<1>3. CASE /\ Claimable(m)
           /\ mail' = [mail EXCEPT ![m].wait = Lease]
           /\ job' = [job EXCEPT ![w] = [msg |-> m, attempts |-> k, age |-> 0]]
           /\ batch' = [batch EXCEPT ![w] = @ \ {listed}]
           /\ pc' = [pc EXCEPT ![w] = "sending"]
  <2>1. ShapesFit'
    BY <1>3, MailAssumption, SMTT(30) DEF MailInv, ShapesFit, RowFits, InFlight
  <2>2. ASSUME NEW v \in Workers, pc[v] \in InFlight PROVE job[v].msg # m
    <3>1. ~(mail[m].wait + job[v].age >= Lease)
      BY <1>3, <2>2, MailAssumption
         DEF MailInv, ShapesFit, Leased, Claimable, Due
    <3> QED BY <1>3, <2>2, <3>1 DEF MailInv, Leased, Claimable, Due, Pending
  <2>3. /\ \A v \in Workers \ {w} : pc'[v] = pc[v] /\ job'[v] = job[v]
        /\ job'[w].msg = m /\ job'[w].age = 0
        /\ \A n \in Messages \ {m} : mail'[n] = mail[n]
    BY <1>3 DEF MailInv, ShapesFit
  <2>4. OneAttemptAtATime'
    BY <2>2, <2>3 DEF MailInv, OneAttemptAtATime
  <2>5. ASSUME NEW v \in Workers \ {w} PROVE Leased(v)'
    BY <2>2, <2>3 DEF MailInv, Leased
  <2>6. Leased(w)'
    <3>1. /\ mail'[m].wait = Lease /\ mail'[m].stored
          /\ ~mail'[m].sent /\ ~mail'[m].failed
      BY <1>3 DEF MailInv, ShapesFit, RowFits, Claimable, Due, Pending
    <3> QED BY <2>3, <3>1, MailAssumption DEF Leased
  <2> QED BY <2>1, <2>4, <2>5, <2>6 DEF MailInv
<1>4. CASE Advance(w, batch[w] \ {listed}) /\ UNCHANGED mail
  <2>1. batch[w] \ {listed} \in SUBSET (Messages \X Int)
    BY DEF MailInv, ShapesFit
  <2>2. ShapesFit'
    BY <1>4, <2>1, AdvanceFits DEF MailInv, ShapesFit
  <2> QED BY <1>4, <2>1, <2>2, AdvanceFits, OneWorker
<1> QED BY <1>1, <1>2, <1>3, <1>4

\* The relay's answer does not end a delivery: marking it does.
LEMMA DeliverKeeps ==
  ASSUME MailInv, NEW w \in Workers, Deliver(w)
  PROVE  MailInv'
<1>1. ShapesFit'
  BY DEF Deliver, MailInv, ShapesFit, InFlight
<1>2. \A v \in Workers : pc'[v] \notin InFlight \/ GoesOn(v)
  BY DEF Deliver, MailInv, ShapesFit, InFlight, GoesOn, Leased
<1> QED BY <1>1, <1>2, NoNewDelivery

\* Marking a message writes no row that another worker is delivering.
LEMMA MarkKeeps ==
  ASSUME MailInv, NEW w \in Workers, MarkMailSent(w) \/ MarkMailAttempt(w)
  PROVE  MailInv'
<1>1. PICK m \in Messages : m = job[w].msg
  BY DEF MarkMailSent, MarkMailAttempt, MailInv, Leased, InFlight
<1>2. batch[w] \in SUBSET (Messages \X Int) /\ Advance(w, batch[w])
  BY DEF MarkMailSent, MarkMailAttempt, MailInv, ShapesFit
<1>3. job[w].attempts + 1 \in Int
  BY DEF MailInv, ShapesFit
<1>4. \/ mail' = mail
      \/ mail' = [mail EXCEPT ![m].sent = TRUE]
      \/ mail' = [mail EXCEPT ![m] = Marked(@, job[w].attempts + 1)]
  BY <1>1 DEF MarkMailSent, MarkMailAttempt
<1>5. \A row : RowFits(row) => RowFits(Marked(row, job[w].attempts + 1))
  <2>1. GivesUp(job[w].attempts + 1) \in BOOLEAN
    BY DEF GivesUp
  <2>2. (IF GivesUp(job[w].attempts + 1) THEN 0 ELSE Backoff(job[w].attempts + 1)) \in Int
    BY <1>3, BackoffType
  <2> QED BY <1>3, <2>1, <2>2, RowWrites DEF Marked
<1>6. /\ DOMAIN mail' = Messages /\ \A n \in Messages : RowFits(mail'[n])
      /\ \A n \in Messages \ {m} : mail'[n] = mail[n]
  <2>1. DOMAIN mail = Messages /\ \A n \in Messages : RowFits(mail[n])
    BY DEF MailInv, ShapesFit
  <2>2. CASE mail' = [mail EXCEPT ![m].sent = TRUE]
    <3>1. mail'[m] = [mail[m] EXCEPT !.sent = TRUE]
      BY <2>1, <2>2
    <3>2. RowFits([mail[m] EXCEPT !.sent = TRUE])
      BY <2>1, RowWrites
    <3> QED BY <2>1, <2>2, <3>1, <3>2
  <2>3. CASE mail' = [mail EXCEPT ![m] = Marked(@, job[w].attempts + 1)]
    BY <1>5, <2>1, <2>3
  <2> QED BY <1>4, <2>1, <2>2, <2>3
<1>7. ShapesFit'
  BY <1>2, <1>6, AdvanceFits DEF ShapesFit
<1>8. \A v \in Workers \ {w} : pc[v] \in InFlight => job[v].msg \in Messages \ {m}
  BY <1>1 DEF MarkMailSent, MarkMailAttempt, MailInv, OneAttemptAtATime, Leased, InFlight
<1> QED BY <1>2, <1>6, <1>7, <1>8, AdvanceFits, OneWorker

\* A crash or a cancelled request only ends deliveries.
LEMMA StopKeeps ==
  ASSUME MailInv, NEW lost \in SUBSET Workers, Stop(lost)
  PROVE  MailInv'
<1>1. ShapesFit'
  BY DEF Stop, MailInv, ShapesFit, NoJob, InFlight
<1>2. \A v \in Workers : pc'[v] \notin InFlight \/ GoesOn(v)
  BY DEF Stop, MailInv, Leased, GoesOn, InFlight
<1> QED BY <1>1, <1>2, NoNewDelivery

\* Rows that go away take nothing from a delivery under way.
LEMMA GoneKeeps ==
  ASSUME MailInv, UNCHANGED workers, DOMAIN mail' = Messages,
         \A m \in Messages : mail'[m] \in {mail[m], Gone}
  PROVE  MailInv'
<1>1. RowFits(Gone) /\ ~Gone.stored /\ Gone.sent
  <2>1. RowFits(Fresh) /\ ~Fresh.stored
    BY DEF Fresh, RowFits
  <2>2. RowFits(Gone)
    BY <2>1, RowWrites DEF Gone
  <2> QED BY <2>1, <2>2 DEF Gone, Fresh
<1>2. ShapesFit'
  BY <1>1 DEF MailInv, ShapesFit, workers
<1>3. \A v \in Workers : pc'[v] \notin InFlight \/ GoesOn(v)
  BY <1>1 DEF MailInv, Leased, GoesOn, workers
<1> QED BY <1>2, <1>3, NoNewDelivery

\* While time passes a lease shrinks no faster than a delivery ages.
LEMMA TickKeeps ==
  ASSUME MailInv, Tick
  PROVE  MailInv'
<1>1. \A m \in Messages : mail'[m] = [mail[m] EXCEPT !.wait = IF @ > 0 THEN @ - 1 ELSE 0]
  BY DEF Tick
<1>2. ShapesFit'
  <2>1. ASSUME NEW m \in Messages PROVE RowFits(mail'[m])
    <3>1. RowFits(mail[m])
      BY DEF MailInv, ShapesFit
    <3>2. PICK n \in Int : n = IF mail[m].wait > 0 THEN mail[m].wait - 1 ELSE 0
      BY <3>1 DEF RowFits
    <3>3. mail'[m] = [mail[m] EXCEPT !.wait = n]
      BY <1>1, <3>2
    <3>4. RowFits([mail[m] EXCEPT !.wait = n])
      BY <3>1, RowWrites
    <3> QED BY <3>3, <3>4
  <2>2. DOMAIN mail' = Messages
    BY DEF Tick
  <2>3. job' \in [Workers -> [msg : Messages \cup {None}, attempts : Int, age : Int]]
    BY DEF Tick, MailInv, ShapesFit
  <2> QED BY <2>1, <2>2, <2>3 DEF Tick, MailInv, ShapesFit
<1>3. \A w \in Workers : pc'[w] = pc[w] /\ job'[w].msg = job[w].msg
  BY DEF Tick, MailInv, ShapesFit
<1>4. OneAttemptAtATime'
  BY <1>3 DEF MailInv, OneAttemptAtATime
<1>5. ASSUME NEW w \in Workers PROVE Leased(w)'
  <2>1. CASE pc[w] \in InFlight
    <3>1. PICK m \in Messages : m = job[w].msg
      BY <2>1 DEF MailInv, Leased
    <3>2. job'[w].age = job[w].age + 1 /\ job[w].age < RelayTimeout /\ job[w].age \in Int
      BY <2>1 DEF Tick, MailInv, ShapesFit
    <3>3. /\ mail'[m].stored = mail[m].stored /\ mail'[m].sent = mail[m].sent
          /\ mail'[m].failed = mail[m].failed /\ mail'[m].wait >= mail[m].wait - 1
          /\ mail[m].wait \in Int /\ mail'[m].wait \in Int
      <4>1. RowFits(mail[m]) /\ mail[m].wait \in Int
        BY DEF MailInv, ShapesFit, RowFits
      <4>2. mail'[m] = [mail[m] EXCEPT !.wait = IF mail[m].wait > 0 THEN mail[m].wait - 1 ELSE 0]
        BY <1>1
      <4>3. /\ mail'[m].stored = mail[m].stored /\ mail'[m].sent = mail[m].sent
            /\ mail'[m].failed = mail[m].failed
        BY <4>1, <4>2, Zenon DEF RowFits
      <4>4. mail'[m].wait = IF mail[m].wait > 0 THEN mail[m].wait - 1 ELSE 0
        BY <4>1, <4>2 DEF RowFits
      <4> QED BY <4>1, <4>3, <4>4
    <3>4. mail[m].wait + job[w].age >= Lease => mail'[m].wait + job'[w].age >= Lease
      BY <3>2, <3>3, MailAssumption
    <3>5. job'[w].age <= RelayTimeout
      BY <3>2, MailAssumption
    <3> QED BY <1>3, <2>1, <3>1, <3>3, <3>4, <3>5 DEF MailInv, Leased
  <2>2. CASE pc[w] \notin InFlight
    BY <1>3, <2>2 DEF Leased
  <2> QED BY <2>1, <2>2
<1> QED BY <1>2, <1>4, <1>5 DEF MailInv

\* The lease invariant is inductive.
LEMMA MailStep ==
  ASSUME "queued" \notin Retriable
  PROVE  MailInv /\ [Next]_vars => MailInv'
<1> SUFFICES ASSUME MailInv, [Next]_vars PROVE MailInv'
  OBVIOUS
<1>1. ASSUME NEW w \in Workers, WorkerStep(w) PROVE MailInv'
  <2>1. CASE Abandon(w)
    BY <2>1, StopKeeps DEF Abandon
  <2> QED BY <1>1, <2>1, EnqueueKeeps, DrainKeeps, ClaimKeeps, DeliverKeeps, MarkKeeps
          DEF WorkerStep
<1>2. ASSUME NEW m \in Messages, SendDirectly(m) \/ DeleteMail(m) PROVE MailInv'
  BY <1>2, GoneKeeps DEF SendDirectly, DeleteMail, MailInv, ShapesFit
<1>3. ASSUME NEW old \in SUBSET Messages, PruneSentMail(old) PROVE MailInv'
  BY <1>3, GoneKeeps DEF PruneSentMail
<1>4. CASE Crash
  BY <1>4, StopKeeps DEF Crash
<1>5. CASE UNCHANGED vars
  BY <1>5, GoneKeeps DEF vars, workers, MailInv, ShapesFit
<1> QED BY <1>1, <1>2, <1>3, <1>4, <1>5, TickKeeps DEF Next

\* The claim and its lease keep a message from being at the relay twice at once,
\* for any number of workers, across failures and restarts: ClaimMail's promise,
\* when administrators retry only messages that have been given up.
THEOREM OneAttemptAlways ==
  ASSUME "queued" \notin Retriable
  PROVE  Spec => []OneAttemptAtATime
<1>1. Init => MailInv
  BY InitMail
<1>2. MailInv /\ [Next]_vars => MailInv'
  BY MailStep
<1>3. MailInv => OneAttemptAtATime
  BY DEF MailInv
<1> QED BY <1>1, <1>2, <1>3, PTL DEF Spec

-----------------------------------------------------------------------------
(* A message is delivered once: whoever has had it accepted either records  *)
(* that or is counted among those that cannot.                              *)

At(w, label, m) == pc[w] = label /\ job[w].msg = m

\* A delivery nobody has counted yet is at a worker that will record it, or was
\* recorded, and then nobody is at the relay with the message.
Accounted(m) ==
    /\ delivered[m] \in Nat /\ unrecorded[m] \in Nat
    /\ delivered[m] <= unrecorded[m] + 1
    /\ delivered[m] > unrecorded[m] =>
          \/ \E w \in Workers : At(w, "accepted", m)
          \/ mail[m].sent /\ \A w \in Workers : ~At(w, "sending", m)

Tables == delivered \in [Messages -> Nat] /\ unrecorded \in [Messages -> Nat]
CountInv == MailInv /\ Tables /\ \A m \in Messages : Accounted(m)

\* Nothing is delivered at first.
LEMMA InitCount == Init => CountInv
BY InitMail DEF Init, CountInv, Tables, Accounted

\* A message that no worker is about to record and that is not sent, or is at the
\* relay, has no delivery to account for.
LEMMA Settled ==
  ASSUME CountInv, NEW m \in Messages, \A w \in Workers : ~At(w, "accepted", m),
         ~mail[m].sent \/ \E w \in Workers : At(w, "sending", m)
  PROVE  delivered[m] <= unrecorded[m]
BY DEF CountInv, Accounted

\* Who is at the relay with a message is there alone.
LEMMA Alone ==
  ASSUME MailInv, NEW w \in Workers, pc[w] \in InFlight
  PROVE  /\ job[w].msg \in Messages
         /\ \A v \in Workers \ {w}, label \in InFlight : ~At(v, label, job[w].msg)
BY DEF MailInv, OneAttemptAtATime, Leased, At

\* A step that leaves the counts alone, takes no message that was sent back, starts
\* no delivery and ends none that was accepted.
LEMMA CountsStay ==
  ASSUME CountInv, UNCHANGED relay, NEW m \in Messages,
         mail[m].sent => mail'[m].sent,
         \A w \in Workers : At(w, "accepted", m) => At(w, "accepted", m)',
         \A w \in Workers : At(w, "sending", m)' => At(w, "sending", m)
  PROVE  Accounted(m)'
BY DEF CountInv, Accounted, relay

\* Queueing, listing, retrying, discarding and pruning, and a refused attempt.
LEMMA QuietCounts ==
  ASSUME CountInv, UNCHANGED relay,
         \A m \in Messages : mail[m].sent => mail'[m].sent,
         \A w \in Workers : \/ pc'[w] = pc[w] /\ job'[w].msg = job[w].msg
                            \/ pc[w] # "accepted" /\ pc'[w] # "sending"
  PROVE  Tables' /\ \A m \in Messages : Accounted(m)'
<1>1. ASSUME NEW m \in Messages PROVE Accounted(m)'
  <2>1. \A w \in Workers : At(w, "accepted", m) => At(w, "accepted", m)'
    BY DEF At
  <2>2. \A w \in Workers : At(w, "sending", m)' => At(w, "sending", m)
    BY DEF At
  <2> QED BY <2>1, <2>2, CountsStay
<1> QED BY <1>1 DEF CountInv, Tables, relay

\* A claimed message has had no delivery that is not accounted for.
LEMMA ClaimCounts ==
  ASSUME CountInv, NEW w \in Workers, Claim(w)
  PROVE  Tables' /\ \A m \in Messages : Accounted(m)'
<1>0. PICK listed \in batch[w] :
          \/ /\ Claimable(listed[1])
             /\ mail' = [mail EXCEPT ![listed[1]].wait = Lease]
             /\ job' = [job EXCEPT ![w] = [msg |-> listed[1], attempts |-> listed[2], age |-> 0]]
             /\ pc' = [pc EXCEPT ![w] = "sending"]
          \/ Advance(w, batch[w] \ {listed}) /\ UNCHANGED mail
  BY Zenon DEF Claim
<1>1. PICK m \in Messages, k \in Int : listed = <<m, k>>
  BY DEF CountInv, MailInv, ShapesFit
<1>2. pc[w] = "claim" /\ UNCHANGED relay
  BY DEF Claim
<1>3. DOMAIN pc = Workers /\ DOMAIN job = Workers
  BY DEF CountInv, MailInv, ShapesFit, InFlight
<1>4. CASE Advance(w, batch[w] \ {listed}) /\ UNCHANGED mail
  <2>1. \A v \in Workers : \/ pc'[v] = pc[v] /\ job'[v].msg = job[v].msg
                           \/ pc[v] # "accepted" /\ pc'[v] # "sending"
    BY <1>2, <1>3, <1>4 DEF Advance
  <2> QED BY <1>2, <1>4, <2>1, QuietCounts
<1>5. CASE /\ Claimable(m)
           /\ mail' = [mail EXCEPT ![m].wait = Lease]
           /\ job' = [job EXCEPT ![w] = [msg |-> m, attempts |-> k, age |-> 0]]
           /\ pc' = [pc EXCEPT ![w] = "sending"]
  <2>1. /\ \A v \in Workers \ {w} : pc'[v] = pc[v] /\ job'[v] = job[v]
        /\ job'[w].msg = m
        /\ \A n \in Messages : mail'[n].sent = mail[n].sent
    BY <1>3, <1>5 DEF CountInv, MailInv, ShapesFit, RowFits
  <2>2. ASSUME NEW n \in Messages, n # m PROVE Accounted(n)'
    <3>1. \A v \in Workers : At(v, "accepted", n) => At(v, "accepted", n)'
      BY <1>2, <2>1 DEF At
    <3>2. \A v \in Workers : At(v, "sending", n)' => At(v, "sending", n)
      BY <2>1, <2>2 DEF At
    <3> QED BY <1>2, <2>1, <3>1, <3>2, CountsStay
  <2>3. Accounted(m)'
    <3>1. ~mail[m].sent
      BY <1>5 DEF Claimable, Due, Pending
    <3>2. ASSUME NEW v \in Workers, pc[v] \in InFlight PROVE job[v].msg # m
      <4>1. ~(mail[m].wait + job[v].age >= Lease)
        BY <1>5, <3>2, MailAssumption DEF CountInv, MailInv, ShapesFit, Leased, Claimable, Due
      <4> QED BY <1>5, <3>2, <4>1 DEF CountInv, MailInv, Leased, Claimable, Due, Pending
    <3>3. delivered[m] <= unrecorded[m]
      BY <3>1, <3>2, Settled DEF At, InFlight
    <3> QED BY <1>2, <3>3 DEF CountInv, Accounted, Tables, relay
  <2> QED BY <1>2, <2>2, <2>3 DEF CountInv, Tables, relay
<1> QED BY <1>0, <1>1, <1>4, <1>5

\* A delivery is accounted for by the worker that is told of it, or counted as
\* one that nobody will record.
LEMMA DeliverCounts ==
  ASSUME CountInv, NEW w \in Workers, Deliver(w)
  PROVE  Tables' /\ \A m \in Messages : Accounted(m)'
<1>0. PICK m \in Messages : m = job[w].msg
  BY Alone DEF Deliver, CountInv, InFlight
<1>1. /\ pc[w] = "sending" /\ job[w].msg = m /\ UNCHANGED <<mail, job>>
      /\ \A v \in Workers \ {w}, label \in InFlight : ~At(v, label, m)
  BY <1>0, Alone DEF Deliver, CountInv, InFlight
<1>2. pc'[w] \in {"accepted", "refused"} /\ \A v \in Workers \ {w} : pc'[v] = pc[v]
  BY DEF Deliver, CountInv, MailInv, ShapesFit
<1>3. delivered[m] <= unrecorded[m] /\ Tables
  BY <1>1, Settled DEF At, InFlight, CountInv
<1>4. \/ /\ delivered' = [delivered EXCEPT ![m] = @ + 1] /\ pc'[w] = "accepted"
         /\ unrecorded' = unrecorded
      \/ UNCHANGED relay
      \/ /\ delivered' = [delivered EXCEPT ![m] = @ + 1]
         /\ unrecorded' = [unrecorded EXCEPT ![m] = @ + 1]
  BY <1>1 DEF Deliver, CountInv, MailInv, ShapesFit, relay
<1>5. Tables' /\ \A n \in Messages \ {m} : delivered'[n] = delivered[n] /\ unrecorded'[n] = unrecorded[n]
  BY <1>3, <1>4 DEF Tables, relay
<1>6. ASSUME NEW n \in Messages \ {m} PROVE Accounted(n)'
  <2>1. \A v \in Workers : At(v, "accepted", n) => At(v, "accepted", n)'
    BY <1>1, <1>2 DEF At
  <2>2. \A v \in Workers : At(v, "sending", n)' => At(v, "sending", n)
    BY <1>1, <1>2 DEF At
  <2> QED BY <1>1, <1>5, <2>1, <2>2 DEF CountInv, Accounted
<1>7. Accounted(m)'
  <2>1. delivered[m] \in Nat /\ unrecorded[m] \in Nat
    BY <1>1, <1>3 DEF Tables
  <2>2. CASE delivered' = [delivered EXCEPT ![m] = @ + 1] /\ pc'[w] = "accepted" /\ unrecorded' = unrecorded
    BY <1>1, <1>3, <2>1, <2>2 DEF Accounted, At, Tables
  <2>3. CASE UNCHANGED relay
    BY <1>1, <1>3, <2>1, <2>3 DEF Accounted, relay
  <2>4. CASE /\ delivered' = [delivered EXCEPT ![m] = @ + 1]
             /\ unrecorded' = [unrecorded EXCEPT ![m] = @ + 1]
    BY <1>1, <1>3, <2>1, <2>4 DEF Accounted, Tables
  <2> QED BY <1>4, <2>2, <2>3, <2>4
<1> QED BY <1>5, <1>6, <1>7

\* Recording a delivery, or failing to.
LEMMA SentCounts ==
  ASSUME CountInv, NEW w \in Workers, MarkMailSent(w)
  PROVE  Tables' /\ \A m \in Messages : Accounted(m)'
<1>0. PICK m \in Messages : m = job[w].msg
  BY Alone DEF MarkMailSent, CountInv, InFlight
<1>1. /\ pc[w] = "accepted" /\ job[w].msg = m /\ delivered' = delivered
      /\ \A v \in Workers \ {w}, label \in InFlight : ~At(v, label, m)
  BY <1>0, Alone DEF MarkMailSent, CountInv, InFlight
<1>2. /\ pc'[w] \in {"idle", "claim"}
      /\ \A v \in Workers \ {w} : pc'[v] = pc[v] /\ job'[v] = job[v]
  BY DEF MarkMailSent, Advance, CountInv, MailInv, ShapesFit
<1>3. /\ DOMAIN mail = Messages /\ \A n \in Messages : RowFits(mail[n])
      /\ mail[m].stored \/ mail[m].sent
  BY <1>1 DEF CountInv, MailInv, ShapesFit, Leased, InFlight
<1>4. \/ mail'[m].sent /\ unrecorded' = unrecorded
      \/ unrecorded' = [unrecorded EXCEPT ![m] = @ + 1]
  BY <1>1, <1>3 DEF MarkMailSent, RowFits
<1>5. /\ Tables /\ Tables'
      /\ \A n \in Messages \ {m} : unrecorded'[n] = unrecorded[n] /\ mail'[n] = mail[n]
  BY <1>1, <1>3 DEF MarkMailSent, CountInv, Tables
<1>6. ASSUME NEW n \in Messages \ {m} PROVE Accounted(n)'
  <2>1. \A v \in Workers : At(v, "accepted", n) => At(v, "accepted", n)'
    BY <1>1, <1>2 DEF At
  <2>2. \A v \in Workers : At(v, "sending", n)' => At(v, "sending", n)
    BY <1>2 DEF At
  <2> QED BY <1>1, <1>5, <2>1, <2>2 DEF CountInv, Accounted
<1>7. Accounted(m)'
  <2>1. /\ delivered[m] \in Nat /\ unrecorded[m] \in Nat
        /\ delivered[m] <= unrecorded[m] + 1
    BY <1>1 DEF CountInv, Accounted
  <2>2. CASE mail'[m].sent /\ unrecorded' = unrecorded
    <3>1. \A v \in Workers : ~At(v, "sending", m)'
      BY <1>1, <1>2 DEF At, InFlight
    <3> QED BY <1>1, <2>1, <2>2, <3>1 DEF Accounted
  <2>3. CASE unrecorded' = [unrecorded EXCEPT ![m] = @ + 1]
    BY <1>1, <1>5, <2>1, <2>3 DEF Accounted, Tables
  <2> QED BY <1>4, <2>2, <2>3
<1> QED BY <1>5, <1>6, <1>7

\* A stopped worker was the only one with the message it delivered, so at most one
\* delivery is counted for it.
LEMMA StopCounts ==
  ASSUME CountInv, NEW lost \in SUBSET Workers, Stop(lost)
  PROVE  Tables' /\ \A m \in Messages : Accounted(m)'
<1> DEFINE Late(m) == {w \in lost : pc[w] = "accepted" /\ job[w].msg = m}
<1>1. ASSUME NEW m \in Messages
      PROVE  /\ Cardinality(Late(m)) \in Nat
             /\ Late(m) # {} => Cardinality(Late(m)) = 1
  <2>1. CASE Late(m) = {}
    <3>1. Cardinality({}) = 0
      BY FS_EmptySet
    <3> HIDE DEF Late
    <3> QED BY <2>1, <3>1
  <2>2. CASE Late(m) # {}
    <3>1. PICK w \in lost : pc[w] = "accepted" /\ job[w].msg = m
      BY <2>2
    <3>2. Late(m) = {w}
      BY <3>1 DEF CountInv, MailInv, OneAttemptAtATime, InFlight
    <3>3. Cardinality({w}) = 1
      BY FS_Singleton
    <3> HIDE DEF Late
    <3> QED BY <3>2, <3>3
  <2> QED BY <2>1, <2>2
<1>2. /\ mail' = mail /\ delivered' = delivered
      /\ unrecorded' = [m \in Messages |-> unrecorded[m] + Cardinality(Late(m))]
      /\ pc' = [w \in Workers |-> IF w \in lost THEN "idle" ELSE pc[w]]
      /\ job' = [w \in Workers |-> IF w \in lost THEN NoJob ELSE job[w]]
  BY DEF Stop, Unmarked
<1>3. Tables'
  BY <1>1, <1>2 DEF CountInv, Tables
<1>4. ASSUME NEW m \in Messages PROVE Accounted(m)'
  <2>1. /\ delivered[m] \in Nat /\ unrecorded[m] \in Nat
        /\ delivered'[m] = delivered[m]
        /\ unrecorded'[m] = unrecorded[m] + Cardinality(Late(m))
        /\ unrecorded'[m] \in Nat
    BY <1>1, <1>2, <1>3 DEF CountInv, Tables
  <2>2. delivered[m] <= unrecorded[m] + 1
    BY DEF CountInv, Accounted
  <2>3. CASE Late(m) # {}
    <3>1. delivered'[m] <= unrecorded'[m]
      BY <1>1, <2>1, <2>2, <2>3
    <3> QED BY <2>1, <3>1 DEF Accounted
  <2>4. CASE Late(m) = {}
    <3>1. \A w \in Workers : At(w, "accepted", m) => At(w, "accepted", m)'
      BY <1>2, <2>4 DEF At
    <3>2. \A w \in Workers : At(w, "sending", m)' => At(w, "sending", m)
      BY <1>2 DEF At
    <3>3. unrecorded'[m] = unrecorded[m]
      <4>1. Cardinality({}) = 0
        BY FS_EmptySet
      <4> HIDE DEF Late
      <4> QED BY <2>1, <2>4, <4>1
    <3> QED BY <1>2, <2>1, <2>2, <3>1, <3>2, <3>3 DEF CountInv, Accounted
  <2> QED BY <2>3, <2>4
<1> QED BY <1>3, <1>4

\* A direct delivery is the only one of its message.
LEMMA DirectCounts ==
  ASSUME CountInv, NEW m \in Messages, SendDirectly(m)
  PROVE  Tables' /\ \A n \in Messages : Accounted(n)'
<1>1. /\ mail[m] = Fresh /\ UNCHANGED <<workers, unrecorded>>
      /\ mail' = [mail EXCEPT ![m] = Gone]
      /\ delivered' \in {delivered, [delivered EXCEPT ![m] = @ + 1]}
  BY DEF SendDirectly
<1>2. \A w \in Workers : pc[w] \in InFlight => job[w].msg # m
  BY <1>1 DEF CountInv, MailInv, Leased, Fresh
<1>3. ~mail[m].sent /\ DOMAIN mail = Messages
  BY <1>1 DEF Fresh, CountInv, MailInv, ShapesFit
<1>4. delivered[m] <= unrecorded[m]
  BY <1>2, <1>3, Settled DEF At, InFlight
<1>5. Tables /\ Tables'
  BY <1>1 DEF CountInv, Tables
<1>6. ASSUME NEW n \in Messages \ {m} PROVE Accounted(n)'
  BY <1>1, <1>3, <1>5 DEF CountInv, Accounted, Tables, At, workers
<1>7. Accounted(m)'
  <2>1. mail'[m].sent
    BY <1>1, <1>3 DEF Gone, Fresh
  <2>2. \A w \in Workers : ~At(w, "sending", m)'
    BY <1>1, <1>2 DEF At, InFlight, workers
  <2>3. /\ delivered[m] \in Nat /\ unrecorded[m] \in Nat /\ unrecorded' = unrecorded
        /\ delivered'[m] \in {delivered[m], delivered[m] + 1}
    BY <1>1, <1>5 DEF Tables
  <2> QED BY <1>4, <2>1, <2>2, <2>3 DEF Accounted
<1> QED BY <1>5, <1>6, <1>7

\* The accounts are inductive.
LEMMA CountStep ==
  ASSUME "queued" \notin Retriable
  PROVE  CountInv /\ [Next]_vars => CountInv'
<1> SUFFICES ASSUME CountInv, [Next]_vars PROVE Tables' /\ \A m \in Messages : Accounted(m)'
  BY MailStep DEF CountInv
<1>0. /\ DOMAIN mail = Messages /\ \A m \in Messages : RowFits(mail[m])
      /\ DOMAIN pc = Workers /\ DOMAIN job = Workers
  BY DEF CountInv, MailInv, ShapesFit
<1>1. ASSUME NEW w \in Workers, WorkerStep(w) PROVE Tables' /\ \A m \in Messages : Accounted(m)'
  <2>1. ASSUME NEW m \in Messages, Enqueue(w, m) \/ RetryMail(w, m)
        PROVE  Tables' /\ \A n \in Messages : Accounted(n)'
    <3>1. UNCHANGED relay /\ \A n \in Messages : mail[n].sent => mail'[n].sent
      BY <1>0, <2>1 DEF Enqueue, RetryMail, RowFits
    <3>2. \A v \in Workers : \/ pc'[v] = pc[v] /\ job'[v].msg = job[v].msg
                             \/ pc[v] # "accepted" /\ pc'[v] # "sending"
      BY <1>0, <2>1 DEF Enqueue, RetryMail
    <3> QED BY <3>1, <3>2, QuietCounts
  <2>2. CASE Drain(w)
    <3>1. \A v \in Workers : \/ pc'[v] = pc[v] /\ job'[v].msg = job[v].msg
                             \/ pc[v] # "accepted" /\ pc'[v] # "sending"
      BY <1>0, <2>2 DEF Drain
    <3> QED BY <2>2, <3>1, QuietCounts DEF Drain
  <2>3. CASE MarkMailAttempt(w)
    <3>1. \A v \in Workers : \/ pc'[v] = pc[v] /\ job'[v].msg = job[v].msg
                             \/ pc[v] # "accepted" /\ pc'[v] # "sending"
      BY <1>0, <2>3 DEF MarkMailAttempt, Advance
    <3> DEFINE m == job[w].msg
               attempts == job[w].attempts + 1
               row == Marked(mail[m], attempts)
    <3>2. UNCHANGED relay /\ (mail' = mail \/ mail' = [mail EXCEPT ![m] = row])
      BY <2>3 DEF MarkMailAttempt
    <3>3. m \in Messages => row.sent = mail[m].sent
      BY <1>0 DEF Marked, RowFits
    <3> HIDE DEF m, row
    <3>4. \A n \in Messages : mail'[n].sent = mail[n].sent
      BY <1>0, <3>2, <3>3
    <3> QED BY <3>1, <3>2, <3>4, QuietCounts
  <2>4. CASE Abandon(w)
    BY <2>4, StopCounts DEF Abandon
  <2> QED BY <1>1, <2>1, <2>2, <2>3, <2>4, ClaimCounts, DeliverCounts, SentCounts DEF WorkerStep
<1>2. ASSUME NEW m \in Messages, DeleteMail(m) PROVE Tables' /\ \A n \in Messages : Accounted(n)'
  <2>1. UNCHANGED relay /\ UNCHANGED workers /\ \A n \in Messages : mail[n].sent => mail'[n].sent
    BY <1>0, <1>2 DEF DeleteMail, Gone, Fresh
  <2> QED BY <2>1, QuietCounts DEF workers
<1>3. ASSUME NEW old \in SUBSET Messages, PruneSentMail(old)
      PROVE  Tables' /\ \A n \in Messages : Accounted(n)'
  <2>1. UNCHANGED relay /\ UNCHANGED workers /\ \A n \in Messages : mail[n].sent => mail'[n].sent
    BY <1>3 DEF PruneSentMail, Gone, Fresh
  <2> QED BY <2>1, QuietCounts DEF workers
<1>4. CASE Tick
  <2>1. UNCHANGED relay /\ pc' = pc /\ \A w \in Workers : job'[w].msg = job[w].msg
    BY <1>0, <1>4 DEF Tick, CountInv, MailInv, ShapesFit
  <2>2. \A n \in Messages : mail[n].sent => mail'[n].sent
    BY <1>0, <1>4 DEF Tick, RowFits
  <2> QED BY <2>1, <2>2, QuietCounts
<1>5. CASE Crash
  BY <1>5, StopCounts DEF Crash
<1>6. CASE UNCHANGED vars
  BY <1>6, QuietCounts DEF vars, relay
<1> QED BY <1>1, <1>2, <1>3, <1>4, <1>5, <1>6, DirectCounts DEF Next

\* A message is delivered twice only if a delivery of it could not be recorded,
\* for any number of messages, workers and failures: what Send and drainMail may
\* promise, when administrators retry only messages that have been given up.
THEOREM DeliveredOnceAlways ==
  ASSUME "queued" \notin Retriable
  PROVE  Spec => []DeliveredOnce
<1>1. CountInv => DeliveredOnce
  <2> SUFFICES ASSUME CountInv, NEW m \in Messages PROVE delivered[m] <= 1 + unrecorded[m]
    BY DEF DeliveredOnce
  <2> QED BY DEF CountInv, Accounted
<1> QED BY <1>1, InitCount, CountStep, PTL DEF Spec
=============================================================================
