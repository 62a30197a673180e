------------------------- MODULE InstanceLocksProofs -------------------------
(***************************************************************************)
(* Proofs that the locks of InstanceLocks keep what they promise, for any  *)
(* number of servers, commands, backups and deletions, whatever they run   *)
(* in and whenever they die.                                               *)
(***************************************************************************)
EXTENDS InstanceLocks, TLAPS

\* An actor is of one kind.
LEMMA Kinds ==
  /\ \A a \in Servers : a \in Actors /\ a \notin OldServers /\ a \notin Commands
                        /\ a \notin Offline /\ a \notin Backups /\ a \notin Deletions
  /\ \A a \in OldServers : a \in Actors /\ a \notin Commands /\ a \notin Offline
                           /\ a \notin Backups /\ a \notin Deletions
  /\ \A a \in Commands : a \in Actors /\ a \notin Offline /\ a \notin Backups
                         /\ a \notin Deletions
  /\ \A a \in Offline : a \in Actors /\ a \notin Backups /\ a \notin Deletions
  /\ \A a \in Backups : a \in Actors /\ a \notin Deletions
  /\ \A a \in Deletions : a \in Actors
BY ActorsAssumption DEF Actors, Processes

\* Nobody holds anything at first.
LEMMA InitLocks == LockInit => LockInv
BY DEF LockInit, LockInv, LockTypeOK, Modes, Stages, Exclusive, HoldsItsLocks, Past

\* Whoever takes a lock that may be taken keeps it exclusive.
LEMMA TakeKeepsExclusive ==
  ASSUME LockTypeOK, Exclusive, NEW a \in Actors, NEW l \in Locks,
         NEW mode \in {"shared", "exclusive"}, NEW next \in Stages,
         held[l][a] = "none", Take(a, l, mode, next)
  PROVE  LockTypeOK' /\ Exclusive'
<1>1. LockTypeOK'
  BY DEF LockTypeOK, Take, Goto, Modes, Stages
<1>2. ASSUME NEW k \in Locks, NEW b \in Actors, NEW c \in Actors, b # c,
             held'[k][b] = "exclusive"
      PROVE  held'[k][c] = "none"
  <2>1. CASE k # l
    BY <1>2, <2>1 DEF LockTypeOK, Exclusive, Take
  <2>2. CASE k = l /\ b = a
    <3>1. mode = "exclusive" /\ held[l][c] = "none"
      BY <1>2, <2>2 DEF LockTypeOK, Take, CanTake
    <3> QED BY <1>2, <2>2, <3>1 DEF LockTypeOK, Take
  <2>3. CASE k = l /\ b # a
    <3>1. held[l][b] = "exclusive"
      BY <1>2, <2>3 DEF LockTypeOK, Take
    <3> QED BY <3>1, <2>3 DEF Take, CanTake
  <2> QED BY <2>1, <2>2, <2>3
<1> QED BY <1>1, <1>2 DEF Exclusive

\* Giving locks back, or nothing, keeps them exclusive.
LEMMA GivingBack ==
  ASSUME Exclusive, \A l \in Locks, a \in Actors : held'[l][a] \in {held[l][a], "none"}
  PROVE  Exclusive'
BY DEF Exclusive

\* An actor that neither moves nor takes or loses a lock holds what it held.
LEMMA Bystander ==
  ASSUME NEW a \in Actors, HoldsItsLocks(a), stage'[a] = stage[a],
         \A l \in Locks : held'[l][a] = held[l][a]
  PROVE  HoldsItsLocks(a)'
BY DEF HoldsItsLocks, Past, Locks, LifecycleMode

\* Taking one more lock.
LEMMA TakeStep ==
  ASSUME LockInv, NEW a \in Actors, NEW l \in Locks,
         NEW mode \in {"shared", "exclusive"}, NEW next \in Stages,
         held[l][a] = "none", Take(a, l, mode, next), HoldsItsLocks(a)'
  PROVE  LockInv'
<1>1. LockTypeOK' /\ Exclusive'
  BY TakeKeepsExclusive DEF LockInv
<1>2. ASSUME NEW b \in Actors, b # a PROVE HoldsItsLocks(b)'
  <2>1. stage'[b] = stage[b] /\ \A k \in Locks : held'[k][b] = held[k][b]
    BY <1>2 DEF LockInv, LockTypeOK, Take, Goto
  <2> QED BY <2>1, Bystander DEF LockInv
<1> QED BY <1>1, <1>2 DEF LockInv

\* Turning back, with the locks one has.
LEMMA TurnBack ==
  ASSUME LockInv, NEW a \in Actors, Goto(a, "closing"), UNCHANGED held
  PROVE  LockInv'
<1>1. LockTypeOK'
  BY DEF LockInv, LockTypeOK, Goto, Stages
<1>2. Exclusive'
  BY DEF LockInv, Exclusive
<1>3. ASSUME NEW b \in Actors PROVE HoldsItsLocks(b)'
  <2>1. CASE b = a
    <3>1. stage'[a] = "closing"
      BY DEF LockInv, LockTypeOK, Goto
    <3> QED BY <2>1, <3>1 DEF HoldsItsLocks, Past
  <2>2. CASE b # a
    <3>1. stage'[b] = stage[b]
      BY <2>2 DEF LockInv, LockTypeOK, Goto
    <3> QED BY <3>1, Bystander DEF LockInv
  <2> QED BY <2>1, <2>2
<1> QED BY <1>1, <1>2, <1>3 DEF LockInv

\* What an actor has not reached yet it has not taken: needed where a lock is
\* taken, so part of the invariant of the proof.
Holdings(a) ==
    /\ a \notin Servers \cup OldServers \cup Backups => held["server"][a] = "none"
    /\ a \notin Servers => held["current"][a] = "none"
    /\ a \notin Backups \cup Deletions => held["objects"][a] = "none"
    /\ Past(a, {"entered"}) => \A l \in Locks \ {"lifecycle"} : held[l][a] = "none"
    /\ Past(a, {"slotted"}) => held["current"][a] = "none"
    /\ Past(a, {"pinned"}) => held["server"][a] = "none"

ProofInv == LockInv /\ \A a \in Actors : Holdings(a)

LEMMA InitProof == LockInit => ProofInv
BY InitLocks DEF LockInit, ProofInv, Holdings, Past, Locks

LEMMA BystanderHoldings ==
  ASSUME NEW a \in Actors, Holdings(a), stage'[a] = stage[a],
         \A l \in Locks : held'[l][a] = held[l][a]
  PROVE  Holdings(a)'
BY DEF Holdings, Past, Locks

LEMMA TakeProof ==
  ASSUME ProofInv, NEW a \in Actors, NEW l \in Locks,
         NEW mode \in {"shared", "exclusive"}, NEW next \in Stages,
         held[l][a] = "none", Take(a, l, mode, next),
         HoldsItsLocks(a)', Holdings(a)'
  PROVE  ProofInv'
<1>1. LockInv'
  BY TakeStep DEF ProofInv
<1>2. ASSUME NEW b \in Actors, b # a PROVE Holdings(b)'
  <2>1. stage'[b] = stage[b] /\ \A k \in Locks : held'[k][b] = held[k][b]
    BY <1>2 DEF ProofInv, LockInv, LockTypeOK, Take, Goto
  <2> QED BY <2>1, BystanderHoldings DEF ProofInv
<1> QED BY <1>1, <1>2 DEF ProofInv

LEMMA TurnBackProof ==
  ASSUME ProofInv, NEW a \in Actors, Goto(a, "closing"), UNCHANGED held
  PROVE  ProofInv'
<1>1. LockInv'
  BY TurnBack DEF ProofInv
<1>2. ASSUME NEW b \in Actors PROVE Holdings(b)'
  <2>1. stage'[b] = IF b = a THEN "closing" ELSE stage[b]
    BY DEF ProofInv, LockInv, LockTypeOK, Goto
  <2> QED BY <2>1 DEF ProofInv, Holdings, Past, Locks
<1> QED BY <1>1, <1>2 DEF ProofInv

\* The values a taken lock leaves behind.
LEMMA TakeEffect ==
  ASSUME LockTypeOK, NEW a \in Actors, NEW l \in Locks, NEW mode, NEW next,
         Take(a, l, mode, next)
  PROVE  /\ held'[l][a] = mode
         /\ stage'[a] = next
         /\ \A k \in Locks : k # l => held'[k][a] = held[k][a]
BY DEF LockTypeOK, Take, Goto

LEMMA EnterStep ==
  ASSUME ProofInv, NEW a \in Actors, Enter(a)
  PROVE  ProofInv'
<1> DEFINE next == IF a \in Commands \cup Offline THEN "running" ELSE "entered"
<1>1. /\ next \in Stages
      /\ LifecycleMode(a) \in {"shared", "exclusive"}
      /\ "lifecycle" \in Locks
  BY DEF Stages, LifecycleMode, Locks
<1>2. Take(a, "lifecycle", LifecycleMode(a), next) /\ stage[a] = "idle"
  BY DEF Enter
<1>3. \A l \in Locks : held[l][a] = "none"
  BY <1>2 DEF ProofInv, LockInv, HoldsItsLocks, Past
<1>4. /\ held'["lifecycle"][a] = LifecycleMode(a) /\ stage'[a] = next
      /\ \A k \in Locks : k # "lifecycle" => held'[k][a] = "none"
  BY <1>1, <1>2, <1>3, TakeEffect DEF ProofInv, LockInv
<1> HIDE DEF next
<1>5. HoldsItsLocks(a)'
  BY <1>4, Kinds DEF HoldsItsLocks, Past, next, LifecycleMode
<1>6. Holdings(a)'
  BY <1>4, Kinds DEF Holdings, Past, next, Locks
<1> QED BY <1>1, <1>2, <1>3, <1>5, <1>6, TakeProof

LEMMA TakeServerSlotStep ==
  ASSUME ProofInv, NEW a \in Actors, TakeServerSlot(a)
  PROVE  ProofInv'
<1>1. a \in Servers /\ stage[a] = "entered"
  BY DEF TakeServerSlot
<1>2. CASE Take(a, "server", "shared", "slotted")
  <2>1. /\ held'["server"][a] = "shared" /\ stage'[a] = "slotted"
        /\ \A k \in Locks : k # "server" => held'[k][a] = held[k][a]
    BY <1>2, TakeEffect DEF ProofInv, LockInv, Locks
  <2>2. HoldsItsLocks(a)'
    BY <1>1, <2>1, Kinds DEF ProofInv, LockInv, HoldsItsLocks, Past, Locks, LifecycleMode
  <2>3. Holdings(a)'
    BY <1>1, <2>1, Kinds DEF ProofInv, Holdings, Past, Locks
  <2>4. held["server"][a] = "none"
    BY <1>1 DEF ProofInv, Holdings, Past, Locks
  <2> QED BY <1>2, <2>2, <2>3, <2>4, TakeProof DEF Locks, Stages
<1>3. CASE Goto(a, "closing") /\ UNCHANGED held
  BY <1>3, TurnBackProof
<1> QED BY <1>2, <1>3 DEF TakeServerSlot, Try

LEMMA TakeProcessSlotStep ==
  ASSUME ProofInv, NEW a \in Actors, TakeProcessSlot(a)
  PROVE  ProofInv'
<1>1. a \in Servers /\ stage[a] = "slotted"
  BY DEF TakeProcessSlot
<1>2. CASE Take(a, "current", "exclusive", "running")
  <2>1. /\ held'["current"][a] = "exclusive" /\ stage'[a] = "running"
        /\ \A k \in Locks : k # "current" => held'[k][a] = held[k][a]
    BY <1>2, TakeEffect DEF ProofInv, LockInv, Locks
  <2>2. HoldsItsLocks(a)'
    BY <1>1, <2>1, Kinds DEF ProofInv, LockInv, HoldsItsLocks, Past, Locks, LifecycleMode
  <2>3. Holdings(a)'
    BY <1>1, <2>1, Kinds DEF ProofInv, Holdings, Past, Locks
  <2>4. held["current"][a] = "none"
    BY <1>1 DEF ProofInv, Holdings, Past, Locks
  <2> QED BY <1>2, <2>2, <2>3, <2>4, TakeProof DEF Locks, Stages
<1>3. CASE Goto(a, "closing") /\ UNCHANGED held
  BY <1>3, TurnBackProof
<1> QED BY <1>2, <1>3 DEF TakeProcessSlot, Try

LEMMA TakeOldSlotStep ==
  ASSUME ProofInv, NEW a \in Actors, TakeOldSlot(a)
  PROVE  ProofInv'
<1>1. a \in OldServers /\ stage[a] = "entered"
  BY DEF TakeOldSlot
<1>2. CASE Take(a, "server", "exclusive", "running")
  <2>1. /\ held'["server"][a] = "exclusive" /\ stage'[a] = "running"
        /\ \A k \in Locks : k # "server" => held'[k][a] = held[k][a]
    BY <1>2, TakeEffect DEF ProofInv, LockInv, Locks
  <2>2. HoldsItsLocks(a)'
    BY <1>1, <2>1, Kinds DEF ProofInv, LockInv, HoldsItsLocks, Past, Locks, LifecycleMode
  <2>3. Holdings(a)'
    BY <1>1, <2>1, Kinds DEF ProofInv, Holdings, Past, Locks
  <2>4. held["server"][a] = "none"
    BY <1>1 DEF ProofInv, Holdings, Past, Locks
  <2> QED BY <1>2, <2>2, <2>3, <2>4, TakeProof DEF Locks, Stages
<1>3. CASE Goto(a, "closing") /\ UNCHANGED held
  BY <1>3, TurnBackProof
<1> QED BY <1>2, <1>3 DEF TakeOldSlot, Try

LEMMA PinObjectsStep ==
  ASSUME ProofInv, NEW a \in Actors, PinObjects(a)
  PROVE  ProofInv'
<1>1. a \in Backups /\ stage[a] = "entered" /\ Take(a, "objects", "exclusive", "pinned")
  BY DEF PinObjects
<1>2. /\ held'["objects"][a] = "exclusive" /\ stage'[a] = "pinned"
      /\ \A k \in Locks : k # "objects" => held'[k][a] = held[k][a]
  BY <1>1, TakeEffect DEF ProofInv, LockInv, Locks
<1>3. HoldsItsLocks(a)'
  BY <1>1, <1>2, Kinds DEF ProofInv, LockInv, HoldsItsLocks, Past, Locks, LifecycleMode
<1>4. Holdings(a)'
  BY <1>1, <1>2, Kinds DEF ProofInv, Holdings, Past, Locks
<1>5. held["objects"][a] = "none"
  BY <1>1 DEF ProofInv, Holdings, Past, Locks
<1> QED BY <1>1, <1>3, <1>4, <1>5, TakeProof DEF Locks, Stages

LEMMA ShareObjectsStep ==
  ASSUME ProofInv, NEW a \in Actors, ShareObjects(a)
  PROVE  ProofInv'
<1>1. a \in Deletions /\ stage[a] = "entered" /\ Take(a, "objects", "shared", "running")
  BY DEF ShareObjects
<1>2. /\ held'["objects"][a] = "shared" /\ stage'[a] = "running"
      /\ \A k \in Locks : k # "objects" => held'[k][a] = held[k][a]
  BY <1>1, TakeEffect DEF ProofInv, LockInv, Locks
<1>3. HoldsItsLocks(a)'
  BY <1>1, <1>2, Kinds DEF ProofInv, LockInv, HoldsItsLocks, Past, Locks, LifecycleMode
<1>4. Holdings(a)'
  BY <1>1, <1>2, Kinds DEF ProofInv, Holdings, Past, Locks
<1>5. held["objects"][a] = "none"
  BY <1>1 DEF ProofInv, Holdings, Past, Locks
<1> QED BY <1>1, <1>3, <1>4, <1>5, TakeProof DEF Locks, Stages

LEMMA TakeBackupSlotStep ==
  ASSUME ProofInv, NEW a \in Actors, TakeBackupSlot(a)
  PROVE  ProofInv'
<1>1. a \in Backups /\ stage[a] = "pinned"
  BY DEF TakeBackupSlot
<1>2. CASE Take(a, "server", "shared", "running")
  <2>1. /\ held'["server"][a] = "shared" /\ stage'[a] = "running"
        /\ \A k \in Locks : k # "server" => held'[k][a] = held[k][a]
    BY <1>2, TakeEffect DEF ProofInv, LockInv, Locks
  <2>2. HoldsItsLocks(a)'
    BY <1>1, <2>1, Kinds DEF ProofInv, LockInv, HoldsItsLocks, Past, Locks, LifecycleMode
  <2>3. Holdings(a)'
    BY <1>1, <2>1, Kinds DEF ProofInv, Holdings, Past, Locks
  <2>4. held["server"][a] = "none"
    BY <1>1 DEF ProofInv, Holdings, Past, Locks
  <2> QED BY <1>2, <2>2, <2>3, <2>4, TakeProof DEF Locks, Stages
<1>3. CASE Goto(a, "closing") /\ UNCHANGED held
  BY <1>3, TurnBackProof
<1> QED BY <1>2, <1>3 DEF TakeBackupSlot, Try

\* Closing one lock.
LEMMA ReleaseStep ==
  ASSUME ProofInv, NEW a \in Actors, Release(a)
  PROVE  ProofInv'
<1>0. \A i \in DOMAIN CloseOrder : CloseOrder[i] \in Locks
  <2>1. DOMAIN CloseOrder = 1..4
    BY DEF CloseOrder
  <2> QED BY <2>1 DEF CloseOrder, Locks
<1>1. PICK l \in Locks : held' = [held EXCEPT ![l][a] = "none"]
  BY <1>0 DEF Release
<1>2. stage[a] = "closing" /\ stage' = stage
  BY DEF Release
<1>3. \A k \in Locks, b \in Actors :
         held'[k][b] = IF k = l /\ b = a THEN "none" ELSE held[k][b]
  BY <1>1 DEF ProofInv, LockInv, LockTypeOK
<1>4. LockTypeOK'
  BY <1>1, <1>2 DEF ProofInv, LockInv, LockTypeOK, Modes
<1>5. Exclusive'
  BY <1>3, GivingBack DEF ProofInv, LockInv
<1>6. ASSUME NEW b \in Actors PROVE HoldsItsLocks(b)' /\ Holdings(b)'
  <2>1. CASE b = a
    BY <1>2, <1>3, <2>1 DEF ProofInv, LockInv, HoldsItsLocks, Holdings, Past, Locks
  <2>2. CASE b # a
    BY <1>2, <1>3, <2>2, Bystander, BystanderHoldings DEF ProofInv, LockInv
  <2> QED BY <2>1, <2>2
<1> QED BY <1>4, <1>5, <1>6 DEF ProofInv, LockInv

\* A process dies, and all that it hosts.
LEMMA DieStep ==
  ASSUME ProofInv, NEW p, Die(p)
  PROVE  ProofInv'
<1>1. \A b \in Actors :
         \/ stage'[b] = "idle" /\ \A k \in Locks : held'[k][b] = "none"
         \/ stage'[b] = stage[b] /\ \A k \in Locks : held'[k][b] = held[k][b]
  BY DEF Die
<1>2. LockTypeOK'
  BY DEF ProofInv, LockInv, LockTypeOK, Die, Modes, Stages
<1>3. Exclusive'
  BY <1>1, GivingBack DEF ProofInv, LockInv
<1>4. ASSUME NEW b \in Actors PROVE HoldsItsLocks(b)' /\ Holdings(b)'
  <2>1. CASE stage'[b] = "idle" /\ \A k \in Locks : held'[k][b] = "none"
    BY <2>1 DEF HoldsItsLocks, Holdings, Past, Locks
  <2>2. CASE stage'[b] = stage[b] /\ \A k \in Locks : held'[k][b] = held[k][b]
    BY <2>2, Bystander, BystanderHoldings DEF ProofInv, LockInv
  <2> QED BY <1>1, <2>1, <2>2
<1> QED BY <1>2, <1>3, <1>4 DEF ProofInv, LockInv

LEMMA ExitStep ==
  ASSUME ProofInv, NEW a \in Actors, Exit(a)
  PROVE  ProofInv'
<1>1. CASE Die(a)
  BY <1>1, DieStep
<1>2. CASE Goto(a, "idle") /\ UNCHANGED held
  <2>1. \A b \in Actors : stage'[b] = IF b = a THEN "idle" ELSE stage[b]
    BY <1>2 DEF ProofInv, LockInv, LockTypeOK, Goto
  <2>2. LockTypeOK' /\ Exclusive'
    BY <1>2 DEF ProofInv, LockInv, LockTypeOK, Exclusive, Goto, Stages
  <2>3. ASSUME NEW b \in Actors PROVE HoldsItsLocks(b)' /\ Holdings(b)'
    <3>1. CASE b = a
      BY <1>2, <2>1, <3>1 DEF Exit, HoldsItsLocks, Holdings, Past, Locks
    <3>2. CASE b # a
      BY <1>2, <2>1, <3>2, Bystander, BystanderHoldings DEF ProofInv, LockInv
    <3> QED BY <3>1, <3>2
  <2> QED BY <2>2, <2>3 DEF ProofInv, LockInv
<1> QED BY <1>1, <1>2 DEF Exit

\* Every step of an actor keeps the invariant.
LEMMA LockStepInv ==
  ASSUME ProofInv, NEW a \in Actors, LockStep(a)
  PROVE  ProofInv'
<1>1. CASE Coming(a)
  BY <1>1, EnterStep, TakeServerSlotStep, TakeProcessSlotStep, TakeOldSlotStep,
     PinObjectsStep, ShareObjectsStep, TakeBackupSlotStep, TurnBackProof DEF Coming, GiveUp
<1>2. CASE Leave(a)
  BY <1>2, TurnBackProof DEF Leave
<1>3. CASE Going(a)
  BY <1>3, ReleaseStep, ExitStep DEF Going
<1>4. CASE Crash(a)
  BY <1>4, DieStep DEF Crash
<1> QED BY <1>1, <1>2, <1>3, <1>4 DEF LockStep

LEMMA Unmoved ==
  ASSUME ProofInv, UNCHANGED lockVars
  PROVE  ProofInv'
BY DEF ProofInv, LockInv, LockTypeOK, Exclusive, HoldsItsLocks, Holdings, Past, lockVars

\* An actor works under the locks it needs, and what has ended holds none.
THEOREM LocksHeld == LockSpec => []LockInv
<1>1. ProofInv /\ [LockNext]_lockVars => ProofInv'
  BY LockStepInv, Unmoved DEF LockNext
<1>2. ProofInv => LockInv
  BY DEF ProofInv
<1> QED BY InitProof, <1>1, <1>2, PTL DEF LockSpec

\* The locks held exclude what must be excluded.
LEMMA LockInvExcludes ==
  ASSUME LockInv
  PROVE  OneAtATime /\ SnapshotsPinned
<1>1. OfflineAlone
  <2> SUFFICES ASSUME NEW o \in Running(Offline), NEW a \in Running(Actors), a # o
               PROVE  FALSE
    BY Kinds DEF OfflineAlone, Running
  <2>1. o \in Offline /\ o \in Actors /\ a \in Actors /\ "lifecycle" \in Locks
    BY Kinds DEF Running, Locks
  <2>2. held["lifecycle"][o] = "exclusive"
    BY <2>1 DEF LockInv, HoldsItsLocks, Past, Running, LifecycleMode
  <2>3. held["lifecycle"][a] = LifecycleMode(a)
    BY <2>1 DEF LockInv, HoldsItsLocks, Past, Running
  <2> QED BY <2>1, <2>2, <2>3 DEF LockInv, Exclusive, LifecycleMode
<1>2. OneServer
  <2> SUFFICES ASSUME NEW s \in Running(Servers \cup OldServers),
                      NEW t \in Running(Servers \cup OldServers), s # t
               PROVE  FALSE
    BY DEF OneServer
  <2>1. s \in Actors /\ t \in Actors /\ "server" \in Locks /\ "current" \in Locks
    BY Kinds DEF Running, Locks
  <2>2. \A a \in {s, t} : \/ a \in Servers /\ held["server"][a] = "shared"
                            /\ held["current"][a] = "exclusive"
                         \/ held["server"][a] = "exclusive"
    BY <2>1 DEF LockInv, HoldsItsLocks, Past, Running
  <2> QED BY <2>1, <2>2 DEF LockInv, Exclusive
<1>3. SnapshotsPinned
  <2> SUFFICES ASSUME NEW b \in Running(Backups),
                      NEW a \in Running(Backups \cup Deletions \cup OldServers), a # b
               PROVE  FALSE
    BY DEF SnapshotsPinned, Running
  <2>1. a \in Actors /\ b \in Actors /\ "server" \in Locks /\ "objects" \in Locks
    BY Kinds DEF Running, Locks
  <2>2. held["objects"][b] = "exclusive" /\ held["server"][b] = "shared"
    BY <2>1 DEF LockInv, HoldsItsLocks, Past, Running
  <2>3. held["objects"][a] # "none" \/ held["server"][a] = "exclusive"
    BY <2>1 DEF LockInv, HoldsItsLocks, Past, Running
  <2> QED BY <2>1, <2>2, <2>3 DEF LockInv, Exclusive
<1> QED BY <1>1, <1>2, <1>3 DEF OneAtATime

\* Offline maintenance runs alone, and one server runs at a time, whatever its
\* version, for any number of processes of each kind.
THEOREM OnlyOneRuns == LockSpec => []OneAtATime
BY LocksHeld, LockInvExcludes, PTL

\* A backup copies beside no deletion, no other backup and no older server, though
\* it gets its locks one after another and others start and stop between.
THEOREM SnapshotsArePinned == LockSpec => []SnapshotsPinned
BY LocksHeld, LockInvExcludes, PTL
=============================================================================
