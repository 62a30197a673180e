------------------------------ MODULE MailQueue ------------------------------
(***************************************************************************)
(* Imvault's outbound mail queue: messages are rows of outbound_mail before *)
(* the first attempt, and are delivered by the request that queued them, by *)
(* the retry sweep, or by an administrator who presses "Retry now".        *)
(*                                                                         *)
(* A worker is one of these goroutines.  It takes a batch of messages and  *)
(* claims, delivers and marks them one by one; each of these is a step, so *)
(* workers interleave while a relay is slow.  Time is kept in units of     *)
(* the backoff's base: a row counts down to its next attempt, a worker     *)
(* counts how long its delivery has taken.                                 *)
(***************************************************************************)
EXTENDS Integers, FiniteSets

CONSTANTS
    Messages,      \* ids of outbound_mail; AUTOINCREMENT never reuses one
    Workers,       \* goroutines that deliver mail
    Sweeper,       \* the one that runs StartMailRetry
    MaxAttempts,   \* IMVAULT_MAIL_MAX_ATTEMPTS
    BackoffBase,   \* mailBackoffBase
    BackoffMax,    \* mailBackoffMax
    Lease,         \* mailClaimLease
    RelayTimeout,  \* the longest a delivery takes, its marking included
    Retriable,     \* what administrators retry: "parked", "queued" messages
    Faults,        \* which failures may happen
    MaxFailures,   \* bound: how many of them
    None           \* no message

\* "write": a database write fails.  "reply": the relay accepts a message and
\* its answer is lost.  "cancel": a request's context ends.  "crash": the
\* process dies.
FaultKinds == {"write", "reply", "cancel", "crash"}

\* The lease outlasts any relay timeout (mailqueue.go:29).
ASSUME MailAssumption ==
    /\ Sweeper \in Workers
    /\ MaxAttempts \in Nat \ {0}
    /\ BackoffBase \in Nat \ {0} /\ BackoffMax \in Nat \ {0}
    /\ RelayTimeout \in Nat /\ Lease \in Nat /\ RelayTimeout < Lease
    /\ Retriable \subseteq {"parked", "queued"}
    /\ Faults \subseteq FaultKinds
    /\ MaxFailures \in Nat
    /\ None \notin Messages

VARIABLES
    mail,        \* rows of outbound_mail
    pc,          \* what each worker does next
    batch,       \* messages a worker has listed and not yet reached, each with
                 \* the attempts its row had then
    job,         \* the delivery a worker is making
    delivered,   \* how often the relay accepted each message
    unrecorded,  \* how many of those no worker will ever record
    failures     \* failures so far

vars == <<mail, pc, batch, job, delivered, unrecorded, failures>>
workers == <<pc, batch, job>>
relay == <<delivered, unrecorded>>

Row == [stored : BOOLEAN, sent : BOOLEAN, failed : BOOLEAN,
        attempts : 0..MaxAttempts, wait : Nat]
NoJob == [msg |-> None, attempts |-> 0, age |-> 0]
InFlight == {"sending", "accepted", "refused"}

\* A row is written once: `unused' ids were never issued, the others were.
Fresh == [stored |-> FALSE, sent |-> FALSE, failed |-> FALSE, attempts |-> 0, wait |-> 0]
Gone == [Fresh EXCEPT !.sent = TRUE]

----------------------------------------------------------------------------
(* The table *)

Pending(m) == mail[m].stored /\ ~mail[m].sent /\ ~mail[m].failed
Due(m) == Pending(m) /\ mail[m].wait = 0

\* mailBackoff: four times longer after each failure, up to a cap.
Backoff(attempts) ==
    LET delay == BackoffBase * 4 ^ (attempts - 1)
    IN  IF delay > BackoffMax THEN BackoffMax ELSE delay

Fails(kind) ==
    /\ kind \in Faults
    /\ failures < MaxFailures
    /\ failures' = failures + 1

----------------------------------------------------------------------------
(* Queueing *)

\* Send: the row is written, due at once, before the first attempt.
Enqueue(w, m) ==
    /\ pc[w] = "idle" /\ w # Sweeper
    /\ mail[m] = Fresh
    /\ mail' = [mail EXCEPT ![m].stored = TRUE]
    /\ batch' = [batch EXCEPT ![w] = {<<m, 0>>}]
    /\ pc' = [pc EXCEPT ![w] = "claim"]
    /\ UNCHANGED <<job, relay, failures>>

\* The queue is broken: one direct delivery, which nothing retries.
SendDirectly(m) ==
    /\ mail[m] = Fresh
    /\ Fails("write")
    /\ mail' = [mail EXCEPT ![m] = Gone]
    /\ delivered' \in {delivered, [delivered EXCEPT ![m] = @ + 1]}
    /\ UNCHANGED <<workers, unrecorded>>

\* drainMail: the messages that are due, with their rows as they are now.
DueMail == {<<m, mail[m].attempts>> : m \in {n \in Messages : Due(n)}}

Drain(w) ==
    /\ pc[w] = "drain" \/ (pc[w] = "idle" /\ w = Sweeper /\ DueMail # {})
    /\ batch' = [batch EXCEPT ![w] = DueMail]
    /\ pc' = [pc EXCEPT ![w] = IF DueMail = {} THEN "idle" ELSE "claim"]
    /\ UNCHANGED <<mail, job, relay, failures>>

----------------------------------------------------------------------------
(* One attempt *)

\* The worker goes on to its next message, or is done.
Advance(w, rest) ==
    /\ batch' = [batch EXCEPT ![w] = rest]
    /\ pc' = [pc EXCEPT ![w] = IF rest = {} THEN "idle" ELSE "claim"]
    /\ job' = [job EXCEPT ![w] = NoJob]

\* Mutant: the claim checks only that the message was not delivered.
ClaimUnsent(m) == mail[m].stored /\ ~mail[m].sent

\* Mutant: the claim checks only that the message is due.
ClaimUnread(m) == mail[m].stored /\ mail[m].wait = 0

\* ClaimMail: unsent, not given up, and due.
Claimable(m) == Due(m)

Claim(w) ==
    /\ pc[w] = "claim"
    /\ \E listed \in batch[w] :
          LET m == listed[1] IN
          \/ /\ Claimable(m)
             /\ mail' = [mail EXCEPT ![m].wait = Lease]
             /\ job' = [job EXCEPT ![w] = [msg |-> m, attempts |-> listed[2], age |-> 0]]
             /\ batch' = [batch EXCEPT ![w] = @ \ {listed}]
             /\ pc' = [pc EXCEPT ![w] = "sending"]
             /\ UNCHANGED failures
          \/ /\ \/ ~Claimable(m) /\ UNCHANGED failures
                \/ Fails("write")
             /\ Advance(w, batch[w] \ {listed})
             /\ UNCHANGED mail
    /\ UNCHANGED relay

\* The relay accepts the message, refuses it, or accepts it and says nothing.
Deliver(w) ==
    LET m == job[w].msg IN
    /\ pc[w] = "sending"
    /\ \/ /\ delivered' = [delivered EXCEPT ![m] = @ + 1]
          /\ pc' = [pc EXCEPT ![w] = "accepted"]
          /\ UNCHANGED <<unrecorded, failures>>
       \/ /\ pc' = [pc EXCEPT ![w] = "refused"]
          /\ UNCHANGED <<relay, failures>>
       \/ /\ Fails("reply")
          /\ delivered' = [delivered EXCEPT ![m] = @ + 1]
          /\ unrecorded' = [unrecorded EXCEPT ![m] = @ + 1]
          /\ pc' = [pc EXCEPT ![w] = "refused"]
    /\ UNCHANGED <<mail, batch, job>>

GivesUp(attempts) == attempts >= MaxAttempts

MarkMailSent(w) ==
    LET m == job[w].msg IN
    /\ pc[w] = "accepted"
    /\ \/ /\ mail' = IF mail[m].stored THEN [mail EXCEPT ![m].sent = TRUE] ELSE mail
          /\ UNCHANGED <<unrecorded, failures>>
       \/ /\ Fails("write")
          /\ unrecorded' = [unrecorded EXCEPT ![m] = @ + 1]
          /\ UNCHANGED mail
    /\ Advance(w, batch[w])
    /\ UNCHANGED delivered

\* Mutant: a failed attempt is not counted.
MarkedUncounted(row, attempts) ==
    [row EXCEPT !.failed = GivesUp(row.attempts), !.wait = Backoff(attempts)]

\* MarkMailAttempt writes failed_at either way: it is cleared while attempts
\* are left.  They are counted from what the worker listed.
Marked(row, attempts) ==
    [row EXCEPT !.attempts = attempts,
                !.failed = GivesUp(attempts),
                !.wait = IF GivesUp(attempts) THEN 0 ELSE Backoff(attempts)]

MarkMailAttempt(w) ==
    LET m == job[w].msg IN
    /\ pc[w] = "refused"
    /\ \/ /\ mail' = IF mail[m].stored
                     THEN [mail EXCEPT ![m] = Marked(@, job[w].attempts + 1)]
                     ELSE mail
          /\ UNCHANGED failures
       \/ Fails("write") /\ UNCHANGED mail
    /\ Advance(w, batch[w])
    /\ UNCHANGED relay

----------------------------------------------------------------------------
(* Administrators, housekeeping, time and failures *)

\* RetryMail asks only that the message was not delivered.
RetryMail(w, m) ==
    /\ pc[w] = "idle" /\ w # Sweeper
    /\ mail[m].stored /\ ~mail[m].sent
    /\ IF mail[m].failed THEN "parked" \in Retriable ELSE "queued" \in Retriable
    /\ mail' = [mail EXCEPT ![m].failed = FALSE, ![m].attempts = 0, ![m].wait = 0]
    /\ pc' = [pc EXCEPT ![w] = "drain"]
    /\ UNCHANGED <<batch, job, relay, failures>>

DeleteMail(m) ==
    /\ mail[m].stored
    /\ mail' = [mail EXCEPT ![m] = Gone]
    /\ UNCHANGED <<workers, relay, failures>>

\* PruneSentMail: delivered and parked messages go after a week.
PruneSentMail(old) ==
    /\ old # {}
    /\ \A m \in old : mail[m].stored /\ (mail[m].sent \/ mail[m].failed)
    /\ mail' = [m \in Messages |-> IF m \in old THEN Gone ELSE mail[m]]
    /\ UNCHANGED <<workers, relay, failures>>

\* A unit of time passes; no delivery takes longer than the relay's timeout.
Tick ==
    /\ \A w \in Workers : pc[w] \in InFlight => job[w].age < RelayTimeout
    /\ mail' = [m \in Messages |->
          [mail[m] EXCEPT !.wait = IF @ > 0 THEN @ - 1 ELSE 0]]
    /\ job' = [w \in Workers |->
          IF pc[w] \in InFlight THEN [job[w] EXCEPT !.age = @ + 1] ELSE job[w]]
    /\ UNCHANGED <<pc, batch, relay, failures>>

\* Deliveries that the workers in `lost' would have recorded.
Unmarked(lost) ==
    [m \in Messages |->
        unrecorded[m] + Cardinality({w \in lost : pc[w] = "accepted" /\ job[w].msg = m})]
Stop(lost) ==
    /\ unrecorded' = Unmarked(lost)
    /\ pc' = [w \in Workers |-> IF w \in lost THEN "idle" ELSE pc[w]]
    /\ batch' = [w \in Workers |-> IF w \in lost THEN {} ELSE batch[w]]
    /\ job' = [w \in Workers |-> IF w \in lost THEN NoJob ELSE job[w]]
    /\ UNCHANGED <<mail, delivered>>

\* A request's context ends: what its worker has left to write fails.
Abandon(w) ==
    /\ pc[w] # "idle" /\ w # Sweeper
    /\ Fails("cancel")
    /\ Stop({w})

Crash ==
    /\ Fails("crash")
    /\ Stop(Workers)

----------------------------------------------------------------------------
(* The specification *)

Init ==
    /\ mail = [m \in Messages |-> Fresh]
    /\ pc = [w \in Workers |-> "idle"]
    /\ batch = [w \in Workers |-> {}]
    /\ job = [w \in Workers |-> NoJob]
    /\ delivered = [m \in Messages |-> 0]
    /\ unrecorded = [m \in Messages |-> 0]
    /\ failures = 0

WorkerStep(w) ==
    \/ \E m \in Messages : Enqueue(w, m) \/ RetryMail(w, m)
    \/ Drain(w) \/ Claim(w) \/ Deliver(w)
    \/ MarkMailSent(w) \/ MarkMailAttempt(w) \/ Abandon(w)

Next ==
    \/ \E w \in Workers : WorkerStep(w)
    \/ \E m \in Messages : SendDirectly(m) \/ DeleteMail(m)
    \/ \E old \in SUBSET Messages : PruneSentMail(old)
    \/ Tick
    \/ Crash

Spec == Init /\ [][Next]_vars

\* A goroutine that can run does, the retry ticker keeps firing, time passes.
Fairness ==
    /\ \A w \in Workers :
          WF_vars(Drain(w) \/ Claim(w) \/ Deliver(w) \/ MarkMailSent(w) \/ MarkMailAttempt(w))
    /\ SF_vars(Tick)

FairSpec == Spec /\ Fairness

----------------------------------------------------------------------------
(* Properties *)

\* Rows, batches and deliveries have the shape of the table and the code's
\* locals; no wait is longer than the backoff's cap or the lease.
TypeOK ==
    /\ mail \in [Messages -> Row]
    /\ \A m \in Messages : mail[m].wait <= Lease \/ mail[m].wait <= BackoffMax
    /\ pc \in [Workers -> {"idle", "drain", "claim"} \cup InFlight]
    /\ \A w \in Workers : batch[w] \subseteq Messages \X (0..MaxAttempts - 1)
    /\ \A w \in Workers : job[w] = NoJob \/
          job[w] \in [msg : Messages, attempts : 0..MaxAttempts - 1, age : 0..RelayTimeout]
    /\ delivered \in [Messages -> Nat]
    /\ unrecorded \in [Messages -> Nat]
    /\ failures \in 0..MaxFailures

\* A message is never at the relay twice at once, however slow the relay is:
\* only the caller that claims it delivers it (mailqueue.go:93, mail_claim.go).
OneAttemptAtATime ==
    \A w, v \in Workers :
        pc[w] \in InFlight /\ pc[v] \in InFlight /\ job[w].msg = job[v].msg => w = v

\* A message is delivered a second time only if the first delivery could not be
\* recorded: a failed write, a lost answer, a cancelled request or a crash.
DeliveredOnce == \A m \in Messages : delivered[m] <= 1 + unrecorded[m]

\* A queued message does not stay queued: it is delivered, parked for an
\* administrator, or discarded, across relay outages, failures and restarts.
Settles == \A m \in Messages : Pending(m) ~> ~Pending(m)

----------------------------------------------------------------------------
(* Why one attempt at a time is inductive: a message at a relay is leased for *)
(* as long as the relay may take, and is neither delivered nor given up.      *)

RowFits(row) ==
    row \in [stored : BOOLEAN, sent : BOOLEAN, failed : BOOLEAN, attempts : Int, wait : Int]

ShapesFit ==
    /\ DOMAIN mail = Messages /\ \A m \in Messages : RowFits(mail[m])
    /\ pc \in [Workers -> {"idle", "drain", "claim"} \cup InFlight]
    /\ batch \in [Workers -> SUBSET (Messages \X Int)]
    /\ job \in [Workers -> [msg : Messages \cup {None}, attempts : Int, age : Int]]

Leased(w) ==
    LET m == job[w].msg IN
    pc[w] \in InFlight =>
        /\ m \in Messages
        /\ job[w].age <= RelayTimeout
        /\ mail[m].stored \/ mail[m].sent
        /\ mail[m].stored => /\ ~mail[m].sent /\ ~mail[m].failed
                             /\ mail[m].wait + job[w].age >= Lease

MailInv ==
    /\ ShapesFit
    /\ OneAttemptAtATime
    /\ \A w \in Workers : Leased(w)
=============================================================================
