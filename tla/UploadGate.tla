----------------------------- MODULE UploadGate -----------------------------
(***************************************************************************)
(* The two semaphores of internal/web/gate.go and the requests that pass   *)
(* through them: uploads (after the rate limiter), avatars, account        *)
(* exports, and rotated photographs, which are decoded under a processing  *)
(* slot and, when downloaded, while an export slot is held as well.        *)
(*                                                                         *)
(* A request is the list of steps its handler takes.  A step that takes a  *)
(* slot tries at once, then waits for the slot, the timer or the client's  *)
(* leaving, and Go picks any of those that are ready.  Slots are given     *)
(* back by deferred calls, so every way out of a handler returns them.     *)
(***************************************************************************)
EXTENDS RateLimit

CONSTANTS
    Requests,   \* requests being served at the same time
    Processing, \* the processing gate
    Exports,    \* the exports gate
    Limit,      \* slots of each gate
    Nobody      \* the key of a request that is not limited

Gates == {Processing, Exports}

ASSUME GateAssumption ==
    /\ Limit \in [Gates -> Nat \ {0}]
    /\ Processing # Exports
    /\ Gates \cap {"clock", "limit", "policy", "body", "work", "answer", "decode", "send"} = {}
    /\ IsFiniteSet(Requests)

VARIABLES
    enabled,  \* whether the limiter is configured on
    todo,     \* the steps each request has yet to take, << >> when there is none
    key,      \* whom each request is limited as
    now,      \* the time each request's Allow has read
    held,     \* the slots each request holds
    queued,   \* requests waiting for a slot, past the fast path
    fired,    \* of those, whose timer has fired
    gone,     \* requests whose client has left
    taken     \* slots in use, the length of each gate's channel

requests == <<todo, key, now, held, queued, fired, gone, taken>>
gateVars == <<limiter, enabled, requests>>

\* What each handler does, in order.  "decode" gives the processing slot back
\* when it succeeds.  "answer" and "send" are paced by the client, as the server
\* sets no write timeout: an upload answers with a page of what became of each
\* file.  Shorter answers wait in the server's buffer until the handler is done.
Plans ==
    [upload   |-> <<"clock", "limit", "policy", Processing, "body", "work", "answer">>,
     avatar   |-> <<"body", Processing, "work">>,
     photo    |-> <<Processing, "decode", "send">>,
     download |-> <<Exports, Processing, "decode", "send">>,
     export   |-> <<Exports, "work", "send">>]

Active(r) == todo[r] # << >>
At(r, step) == Active(r) /\ Head(todo[r]) = step

\* A request with no budget to check goes straight to its handler.
Planned(kind) ==
    IF kind = "upload" /\ ~enabled THEN Tail(Tail(Plans[kind])) ELSE Plans[kind]

\* The slots in use once request r has given up those it holds in S.
Released(r, S) == [g \in Gates |-> taken[g] - (IF g \in S \cap held[r] THEN 1 ELSE 0)]

-----------------------------------------------------------------------------

Arrive(r, kind, k) ==
    /\ ~Active(r)
    /\ todo' = [todo EXCEPT ![r] = Planned(kind)]
    /\ key' = [key EXCEPT ![r] = IF kind = "upload" /\ enabled THEN k ELSE Nobody]
    /\ UNCHANGED <<limiter, enabled, now, held, queued, fired, gone, taken>>

\* Mutant: the slot of a request that failed is never given back.
EndUnreleased(r) ==
    /\ todo' = [todo EXCEPT ![r] = << >>]
    /\ held' = [held EXCEPT ![r] = {}]
    /\ taken' = taken
    /\ queued' = queued \ {r}
    /\ fired' = fired \ {r}
    /\ gone' = gone \ {r}
    /\ key' = [key EXCEPT ![r] = Nobody]
    /\ now' = [now EXCEPT ![r] = 0]

\* Every return of a handler: its deferred releases run, holding or not.
End(r) ==
    /\ todo' = [todo EXCEPT ![r] = << >>]
    /\ held' = [held EXCEPT ![r] = {}]
    /\ taken' = Released(r, held[r])
    /\ queued' = queued \ {r}
    /\ fired' = fired \ {r}
    /\ gone' = gone \ {r}
    /\ key' = [key EXCEPT ![r] = Nobody]
    /\ now' = [now EXCEPT ![r] = 0]

Step(r) == todo' = [todo EXCEPT ![r] = Tail(@)]

\* Allow reads the clock, and only then takes the mutex.
ReadClock(r) ==
    /\ At(r, "clock")
    /\ Step(r)
    /\ now' = [now EXCEPT ![r] = clock]
    /\ UNCHANGED <<limiter, enabled, key, held, queued, fired, gone, taken>>

Allow(r) ==
    /\ At(r, "limit")
    /\ Charge(key[r], now[r])
    /\ IF Admits(key[r], now[r])
       THEN Step(r) /\ UNCHANGED <<key, now, held, queued, fired, gone, taken>>
       ELSE End(r)
    /\ UNCHANGED enabled

\* handleUpload turns an anonymous caller away where the policy says so.
CheckPolicy(r) ==
    /\ At(r, "policy")
    /\ \/ Step(r) /\ UNCHANGED <<key, now, held, queued, fired, gone, taken>>
       \/ End(r)
    /\ UNCHANGED <<limiter, enabled>>

\* The request now holds a slot of g and goes on.
Take(r, g) ==
    /\ taken[g] < Limit[g]
    /\ taken' = [taken EXCEPT ![g] = @ + 1]
    /\ held' = [held EXCEPT ![r] = @ \cup {g}]
    /\ queued' = queued \ {r}
    /\ fired' = fired \ {r}
    /\ Step(r)
    /\ UNCHANGED <<limiter, enabled, key, now, gone>>

\* Both selects of acquire take a free slot the same way.
Acquire(r) == \E g \in Gates : At(r, g) /\ Take(r, g)

\* No slot is free: the request arms its timer and waits.
Queue(r) ==
    /\ r \notin queued
    /\ \E g \in Gates : At(r, g) /\ taken[g] = Limit[g]
    /\ queued' = queued \cup {r}
    /\ UNCHANGED <<limiter, enabled, todo, key, now, held, fired, gone, taken>>

TimerFires(r) ==
    /\ r \in queued \ fired
    /\ fired' = fired \cup {r}
    /\ UNCHANGED <<limiter, enabled, todo, key, now, held, queued, gone, taken>>

GiveUp(r) ==
    /\ r \in queued
    /\ r \in fired \cup gone
    /\ End(r)
    /\ UNCHANGED <<limiter, enabled>>

ClientLeaves(r) ==
    /\ Active(r)
    /\ r \notin gone
    /\ gone' = gone \cup {r}
    /\ UNCHANGED <<limiter, enabled, todo, key, now, held, queued, fired, taken>>

\* The client sends the rest of its body, when it likes.
BodyArrives(r) ==
    /\ At(r, "body")
    /\ r \notin gone
    /\ Step(r)
    /\ UNCHANGED <<limiter, enabled, key, now, held, queued, fired, gone, taken>>

\* The read deadline requestLimitsMW set passes, or the connection is gone: an
\* upload still answers.
BodyStops(r) ==
    /\ At(r, "body")
    /\ IF Processing \in held[r]
       THEN /\ todo' = [todo EXCEPT ![r] = <<"answer">>]
            /\ UNCHANGED <<key, now, held, queued, fired, gone, taken>>
       ELSE End(r)
    /\ UNCHANGED <<limiter, enabled>>

\* The handler's own work succeeds, or fails: an upload answers all the same.
Work(r) ==
    /\ At(r, "work")
    /\ \/ /\ Len(todo[r]) > 1
          /\ Step(r)
          /\ UNCHANGED <<key, now, held, queued, fired, gone, taken>>
       \/ /\ Len(todo[r]) = 1 \/ Exports \in held[r]
          /\ End(r)
    /\ UNCHANGED <<limiter, enabled>>

\* Mutant: the slot is kept until the client has the picture.
DecodeHolding(r) ==
    /\ At(r, "decode")
    /\ \/ Step(r) /\ UNCHANGED <<key, now, held, queued, fired, gone, taken>>
       \/ End(r)
    /\ UNCHANGED <<limiter, enabled>>

\* serveRotatedPhoto gives its slot back once the pixels are ready, so a slow
\* client holds none, and its deferred release then finds nothing to do.
Decode(r) ==
    /\ At(r, "decode")
    /\ \/ /\ Step(r)
          /\ held' = [held EXCEPT ![r] = @ \ {Processing}]
          /\ taken' = Released(r, {Processing})
          /\ UNCHANGED <<key, now, queued, fired, gone>>
       \/ End(r)
    /\ UNCHANGED <<limiter, enabled>>

Writing(r) == At(r, "answer") \/ At(r, "send")

\* The client takes the rest of the answer, when it likes.
Sent(r) ==
    /\ Writing(r)
    /\ r \notin gone
    /\ End(r)
    /\ UNCHANGED <<limiter, enabled>>

\* Nothing can be written to a client that has left.
WriteFails(r) ==
    /\ Writing(r)
    /\ r \in gone
    /\ End(r)
    /\ UNCHANGED <<limiter, enabled>>

-----------------------------------------------------------------------------

GateInit ==
    /\ LimiterInit
    /\ enabled \in BOOLEAN
    /\ todo = [r \in Requests |-> << >>]
    /\ key = [r \in Requests |-> Nobody]
    /\ now = [r \in Requests |-> 0]
    /\ held = [r \in Requests |-> {}]
    /\ queued = {} /\ fired = {} /\ gone = {}
    /\ taken = [g \in Gates |-> 0]

Serve(r) ==
    \/ ReadClock(r) \/ Allow(r) \/ CheckPolicy(r)
    \/ Acquire(r) \/ Queue(r) \/ GiveUp(r)
    \/ BodyStops(r) \/ Work(r) \/ Decode(r) \/ WriteFails(r)

GateNext ==
    \/ \E r \in Requests :
        \/ \E kind \in DOMAIN Plans, k \in Keys : Arrive(r, kind, k)
        \/ Serve(r)
        \/ TimerFires(r) \/ ClientLeaves(r) \/ BodyArrives(r) \/ Sent(r)
    \/ Tick /\ UNCHANGED <<enabled, requests>>

GateSpec == GateInit /\ [][GateNext]_gateVars

\* Timers fire, read deadlines pass, handlers run and a connection that is gone
\* is found to be; what a client does, and so how long it takes over an answer,
\* is nobody's promise.
FairGateSpec ==
    GateSpec /\ \A r \in Requests : WF_gateVars(Serve(r)) /\ WF_gateVars(TimerFires(r))

-----------------------------------------------------------------------------

\* Each channel holds exactly one token for every request that holds its slot
\* and is still being served: no path out of a handler keeps a slot, gives one
\* back twice, or leaves one to a request that gave up waiting, and no gate has
\* more slots out than its limit (gate.acquire and its deferred releases).
SlotsExact ==
    /\ \A g \in Gates :
          /\ taken[g] = Cardinality({r \in Requests : g \in held[r]})
          /\ taken[g] <= Limit[g]
    /\ \A r \in Requests : held[r] # {} => Active(r) /\ (r \in queued => held[r] = {Exports})

\* Nobody waits for ever, and a slot is kept for no client but one that takes its
\* answer and is still there: a body that trickles in meets its deadline, a wait
\* meets its timer, a picture sent to a slow client holds no processing slot, and
\* a client that leaves holds none (gate.acquire, requestLimitsMW,
\* serveRotatedPhoto).  A client that stays and never reads the answer to its
\* upload, or its archive, does keep the slot.
SlotsComeBack ==
    \A r \in Requests :
        /\ (r \in queued) ~> (r \notin queued)
        /\ (Processing \in held[r]) ~> (Processing \notin held[r] \/ (At(r, "answer") /\ r \notin gone))
        /\ (Exports \in held[r]) ~> (Exports \notin held[r] \/ (At(r, "send") /\ r \notin gone))
=============================================================================
