----------------------------- MODULE BackupProofs -----------------------------
(***************************************************************************)
(* Proofs about Backup for any contents, names, processes and faults: what *)
(* is published is whole, what is restored is whole, the work keeps to the *)
(* locks of InstanceLocks, and under them no original disappears from      *)
(* under a backup that has yet to copy it; a migration carries everything, *)
(* and a rotation keeps the newest.                                        *)
(***************************************************************************)
EXTENDS Backup, InstanceLocksProofs, FiniteSetTheorems, WellFoundedInduction

-----------------------------------------------------------------------------
(* Directories and restores.                                               *)

Jobs == [step : {"none", "staged", "copying", "renamed", "done", "failed"},
         name : Names \cup {Nil}, db : SUBSET Contents,
         left : SUBSET Objects, got : SUBSET Objects]
Directories == [state : {"unused", "whole", "partial", "gone"}, db : SUBSET Contents,
                objects : SUBSET Objects, damaged : SUBSET Objects,
                manifest : BOOLEAN, mark : {"none", "written", "synced"}, synced : BOOLEAN]
Restores == [step : {"none", "reading", "published"}, name : Names \cup {Nil},
             db : SUBSET Contents, objects : SUBSET Objects]

\* An original that a backup has not copied it still has to.
Listed(j) == j.step = "copying" => Originals(j.db) \subseteq j.left \cup j.got
Whole(d) == d.state = "whole" => Originals(d.db) \subseteq d.objects
Restored(r) == r.step \in {"reading", "published"} => Originals(r.db) \subseteq r.objects

DirsInv == dirs \in [Names -> Directories] /\ \A n \in Names : Whole(dirs[n])
JobsInv == job \in [Backups -> Jobs] /\ \A b \in Backups : Listed(job[b])
RestoreInv == restore \in Restores /\ Restored(restore)
CopyInv == DirsInv /\ JobsInv /\ RestoreInv

LEMMA NothingYet ==
  /\ NoJob \in Jobs /\ Listed(NoJob) /\ NoJob.step = "none"
  /\ Failed \in Jobs /\ Listed(Failed) /\ Failed.step = "failed"
  /\ Unused \in Directories /\ Whole(Unused)
  /\ NoRestore \in Restores /\ Restored(NoRestore)
BY DEF NoJob, Failed, Jobs, Listed, Unused, Directories, Whole, NoRestore, Restores, Restored

LEMMA InitCopy == Init => CopyInv
BY NothingYet DEF Init, CopyInv, DirsInv, JobsInv, RestoreInv

\* What a content's record names are objects, and its original among them.
LEMMA InventoryOf ==
  ASSUME NEW C \in SUBSET Contents, NEW named
  PROVE  Inventory(C, named) \in SUBSET Objects /\ Originals(C) \subseteq Inventory(C, named)
BY DEF Inventory, KeysOf, Originals, Objects, Original, Derived

\* One backup's work changes its own job.
LEMMA JobSet ==
  ASSUME JobsInv, NEW b \in Backups, NEW j \in Jobs, Listed(j), SetJob(b, j)
  PROVE  JobsInv'
BY DEF JobsInv, SetJob, Listed

\* One directory changes.
LEMMA DirSet ==
  ASSUME DirsInv, NEW n \in Names, NEW d \in Directories, Whole(d),
         dirs' = [dirs EXCEPT ![n] = d]
  PROVE  DirsInv'
BY DEF DirsInv, Whole

\* Notes on a directory do not change what is in it.
LEMMA DirNoted ==
  ASSUME DirsInv, NEW n,
         \/ \E m \in {"written", "synced"} : dirs' = [dirs EXCEPT ![n].mark = m]
         \/ dirs' = [dirs EXCEPT ![n].synced = TRUE]
  PROVE  DirsInv'
<1>1. CASE n \notin Names
  <2>1. dirs' = dirs
    BY <1>1 DEF DirsInv
  <2> QED BY <2>1 DEF DirsInv
<1>2. CASE n \in Names
  <2>1. dirs[n] \in Directories /\ Whole(dirs[n])
    BY <1>2 DEF DirsInv
  <2>2. CASE dirs' = [dirs EXCEPT ![n].synced = TRUE]
    <3>1. /\ [dirs[n] EXCEPT !.synced = TRUE] \in Directories
          /\ Whole([dirs[n] EXCEPT !.synced = TRUE])
      BY <2>1 DEF Directories, Whole
    <3> QED BY <1>2, <2>2, <3>1, DirSet
  <2>3. ASSUME NEW m \in {"written", "synced"}, dirs' = [dirs EXCEPT ![n].mark = m]
        PROVE  DirsInv'
    <3>1. /\ [dirs[n] EXCEPT !.mark = m] \in Directories
          /\ Whole([dirs[n] EXCEPT !.mark = m])
      BY <2>1 DEF Directories, Whole
    <3> QED BY <1>2, <2>3, <3>1, DirSet
  <2> QED BY <2>2, <2>3
<1> QED BY <1>1, <1>2

LEMMA CopyObjectStep ==
  ASSUME JobsInv, NEW b \in Backups, CopyObject(b)
  PROVE  JobsInv'
<1>1. job[b] \in Jobs /\ Listed(job[b]) /\ job[b].step = "copying"
  BY DEF JobsInv, CopyObject, JobStep
<1>2. PICK k \in job[b].left :
          \/ /\ SetJob(b, [job[b] EXCEPT !.left = @ \ {k}, !.got = @ \cup {k}])
          \/ /\ k[2] = "derived"
             /\ SetJob(b, [job[b] EXCEPT !.left = @ \ {k}])
          \/ SetJob(b, Failed)
  BY DEF CopyObject
<1>3. CASE SetJob(b, [job[b] EXCEPT !.left = @ \ {k}, !.got = @ \cup {k}])
  <2> DEFINE j == [job[b] EXCEPT !.left = job[b].left \ {k}, !.got = job[b].got \cup {k}]
  <2>1. j \in Jobs /\ j.db = job[b].db /\ j.left = job[b].left \ {k} /\ j.got = job[b].got \cup {k}
    BY <1>1 DEF Jobs
  <2>2. Listed(j)
    BY <1>1, <2>1 DEF Listed
  <2>3. SetJob(b, j)
    BY <1>3
  <2> QED BY <2>1, <2>2, <2>3, JobSet
<1>4. CASE k[2] = "derived" /\ SetJob(b, [job[b] EXCEPT !.left = @ \ {k}])
  <2> DEFINE j == [job[b] EXCEPT !.left = job[b].left \ {k}]
  <2>1. j \in Jobs /\ j.db = job[b].db /\ j.left = job[b].left \ {k} /\ j.got = job[b].got
    BY <1>1 DEF Jobs
  <2>2. k \notin Originals(job[b].db)
    BY <1>4 DEF Originals, Original
  <2>3. Listed(j)
    BY <1>1, <2>1, <2>2 DEF Listed
  <2>4. SetJob(b, j)
    BY <1>4
  <2> QED BY <2>1, <2>3, <2>4, JobSet
<1>5. CASE SetJob(b, Failed)
  BY <1>5, NothingYet, JobSet
<1> QED BY <1>2, <1>3, <1>4, <1>5

\* What a backup does until it has returned.
LEMMA BackupWorkStep ==
  ASSUME DirsInv, JobsInv, NEW b \in Backups, WorkOnBackup(b) \/ FailBackup(b)
  PROVE  DirsInv' /\ JobsInv'
<1>0. job[b] \in Jobs
  BY DEF JobsInv
<1>1. CASE StageDirectory(b)
  <2>1. PICK n \in Names : SetJob(b, [NoJob EXCEPT !.step = "staged", !.name = n])
    BY <1>1 DEF StageDirectory
  <2>2. [NoJob EXCEPT !.step = "staged", !.name = n] \in Jobs
        /\ Listed([NoJob EXCEPT !.step = "staged", !.name = n])
    BY DEF NoJob, Jobs, Listed
  <2>3. JobsInv'
    BY <2>1, <2>2, JobSet
  <2> QED BY <1>1, <2>3 DEF StageDirectory, DirsInv
<1>2. CASE Snapshot(b)
  <2> DEFINE j == [job[b] EXCEPT !.step = "copying", !.db = Live, !.left = Inventory(Live, copies)]
  <2>1. Live \in SUBSET Contents
    BY DEF Live
  <2>2. Inventory(Live, copies) \in SUBSET Objects /\ Originals(Live) \subseteq Inventory(Live, copies)
    BY <2>1, InventoryOf
  <2>3. j \in Jobs /\ j.db = Live /\ j.left = Inventory(Live, copies)
    BY <1>0, <2>1, <2>2 DEF Jobs
  <2>4. JobsInv'
    BY <1>2, <2>2, <2>3, JobSet DEF Snapshot, Listed
  <2> QED BY <1>2, <2>4 DEF Snapshot, DirsInv
<1>3. CASE CopyObject(b)
  BY <1>3, CopyObjectStep DEF CopyObject, DirsInv
<1>4. CASE Publish(b)
  <2>1. job[b].step = "copying" /\ job[b].left = {} /\ Listed(job[b])
    BY <1>4 DEF Publish, JobStep, JobsInv
  <2>2. CASE dirs[job[b].name].state = "unused"
    <3> DEFINE d == [Unused EXCEPT !.state = "whole", !.db = job[b].db, !.objects = job[b].got,
                                   !.manifest = TRUE]
               j == [NoJob EXCEPT !.step = "renamed", !.name = job[b].name]
    <3>1. dirs' = [dirs EXCEPT ![job[b].name] = d] /\ SetJob(b, j)
      BY <1>4, <2>2 DEF Publish
    <3>2. d \in Directories /\ Whole(d)
      BY <1>0, <2>1 DEF Unused, Directories, Jobs, Whole, Listed
    <3>3. j \in Jobs /\ Listed(j)
      BY <1>0 DEF NoJob, Jobs, Listed
    <3>4. DirsInv'
      <4>1. CASE job[b].name \in Names
        BY <4>1, <3>1, <3>2, DirSet
      <4>2. CASE job[b].name \notin Names
        BY <4>2, <3>1 DEF DirsInv
      <4> QED BY <4>1, <4>2
    <3> QED BY <3>1, <3>3, <3>4, JobSet
  <2>3. CASE dirs[job[b].name].state # "unused"
    BY <1>4, <2>3, NothingYet, JobSet DEF Publish, DirsInv
  <2> QED BY <2>2, <2>3
<1>5. CASE SyncParent(b)
  <2>1. JobsInv'
    <3>1. [job[b] EXCEPT !.step = "done"] \in Jobs /\ Listed([job[b] EXCEPT !.step = "done"])
      BY <1>0 DEF Jobs, Listed
    <3> QED BY <1>5, <3>1, JobSet DEF SyncParent
  <2>2. DirsInv'
    BY <1>5, DirNoted DEF SyncParent
  <2> QED BY <2>1, <2>2
<1>6. CASE FailBackup(b)
  BY <1>6, NothingYet, JobSet DEF FailBackup, DirsInv
<1> QED BY <1>1, <1>2, <1>3, <1>4, <1>5, <1>6 DEF WorkOnBackup

\* A rotation marks directories and removes them.
LEMMA RotationStep ==
  ASSUME DirsInv, NEW h, Rotate(h) \/ FailRotation(h)
  PROVE  DirsInv' /\ job' = job
<1>1. CASE Mark(h)
  BY <1>1, DirNoted DEF Mark
<1>2. CASE SyncMark(h)
  BY <1>2, DirNoted DEF SyncMark
<1>3. CASE RemoveSome(h)
  <2> DEFINE v == Oldest(rota[h].victims)
  <2>1. PICK manifest \in BOOLEAN, mark \in BOOLEAN :
          dirs' = [dirs EXCEPT ![v].state = "partial", ![v].manifest = manifest,
                               ![v].mark = IF mark THEN @ ELSE "none"]
    BY <1>3 DEF RemoveSome
  <2> DEFINE row == [dirs[v] EXCEPT !.state = "partial", !.manifest = manifest,
                                    !.mark = IF mark THEN @ ELSE "none"]
  <2>2. v \in Names => row \in Directories /\ Whole(row)
    <3> SUFFICES ASSUME v \in Names PROVE row \in Directories /\ Whole(row)
      OBVIOUS
    <3>1. dirs[v] \in Directories
      BY DEF DirsInv
    <3> HIDE DEF v
    <3> QED BY <3>1 DEF Directories, Whole
  <2>3. dirs' = [dirs EXCEPT ![v] = row]
    BY <2>1
  <2> HIDE DEF v, row
  <2>4. DirsInv'
    BY <2>2, <2>3 DEF DirsInv
  <2> QED BY <1>3, <2>4 DEF RemoveSome
<1>4. CASE RemoveRest(h)
  BY <1>4 DEF RemoveRest, DirsInv, Directories, Whole, Unused
<1>5. CASE LockDestination(h) \/ ListSnapshots(h) \/ UnlockDestination(h) \/ FailRotation(h)
  BY <1>5 DEF LockDestination, ListSnapshots, UnlockDestination, FailRotation, DirsInv
<1> QED BY <1>1, <1>2, <1>3, <1>4, <1>5 DEF Rotate

\* A restore reads what a directory holds, and publishes what it read.
LEMMA RestoreStep ==
  ASSUME DirsInv, RestoreInv, Restoring
  PROVE  RestoreInv'
<1>1. CASE StartRestore
  <2>1. PICK n \in Names :
          /\ Restorable(n)
          /\ restore' = [step |-> "reading", name |-> n, db |-> dirs[n].db, objects |-> dirs[n].objects]
    BY <1>1 DEF StartRestore
  <2>2. dirs[n] \in Directories /\ Originals(dirs[n].db) \subseteq dirs[n].objects
    BY <2>1 DEF DirsInv, Restorable
  <2>3. restore' \in Restores /\ restore'.db = dirs[n].db /\ restore'.objects = dirs[n].objects
    BY <2>1, <2>2 DEF Restores, Directories
  <2> QED BY <2>2, <2>3 DEF RestoreInv, Restored
<1>2. CASE PublishRestore
  BY <1>2 DEF PublishRestore, RestoreInv, Restores, Restored
<1>3. CASE StopRestore
  BY <1>3, NothingYet DEF StopRestore, RestoreInv
<1> QED BY <1>1, <1>2, <1>3 DEF Restoring

\* Processes that end leave no job, and power takes what was not synced.
LEMMA ForgetStep ==
  ASSUME JobsInv, NEW P, Forget(P)
  PROVE  JobsInv'
BY NothingYet DEF Forget, JobsInv

LEMMA PowerStep ==
  ASSUME CopyInv, PowerFails
  PROVE  CopyInv'
<1>1. JobsInv'
  BY ForgetStep DEF PowerFails, CopyInv
<1>2. PICK lost \in SUBSET {n \in Names : dirs[n].state = "whole" /\ ~dirs[n].synced} :
      \E unmarked \in SUBSET {n \in Names : dirs[n].mark = "written"} :
          dirs' = [n \in Names |->
              IF n \in lost THEN [Unused EXCEPT !.state = "gone"]
              ELSE IF n \in unmarked THEN [dirs[n] EXCEPT !.mark = "none"]
              ELSE dirs[n]]
  BY DEF PowerFails
<1>3. PICK unmarked :
          dirs' = [n \in Names |->
              IF n \in lost THEN [Unused EXCEPT !.state = "gone"]
              ELSE IF n \in unmarked THEN [dirs[n] EXCEPT !.mark = "none"]
              ELSE dirs[n]]
  BY <1>2
<1>4. ASSUME NEW n \in Names PROVE dirs'[n] \in Directories /\ Whole(dirs'[n])
  <2>1. dirs[n] \in Directories /\ Whole(dirs[n])
    BY DEF CopyInv, DirsInv
  <2>2. CASE n \in lost
    BY <1>3, <2>2 DEF Unused, Directories, Whole
  <2>3. CASE n \notin lost /\ n \in unmarked
    BY <1>3, <2>1, <2>3 DEF Directories, Whole
  <2>4. CASE n \notin lost /\ n \notin unmarked
    BY <1>3, <2>1, <2>4
  <2> QED BY <2>2, <2>3, <2>4
<1>5. DirsInv'
  BY <1>3, <1>4 DEF DirsInv
<1>6. RestoreInv'
  BY NothingYet DEF PowerFails, RestoreInv
<1> QED BY <1>1, <1>5, <1>6 DEF CopyInv

\* What is published is whole, under every name and whatever happens.
LEMMA NextCopy == CopyInv /\ [Next]_vars => CopyInv'
<1> SUFFICES ASSUME CopyInv, [Next]_vars PROVE CopyInv'
  OBVIOUS
<1> USE DEF CopyInv
<1>1. CASE UNCHANGED <<job, dirs, restore>>
  BY <1>1 DEF DirsInv, JobsInv, RestoreInv
<1>2. CASE Damaging
  <2>1. job' = job /\ restore' = restore
    BY <1>2 DEF Damaging
  <2>2. DirsInv'
    <3>1. CASE dirs' = dirs
      BY <3>1 DEF DirsInv
    <3>2. CASE \E n \in Names : LoseCopy(n)
      <4>1. PICK n \in Names : LoseCopy(n)
        BY <3>2
      <4>2. PICK k \in dirs[n].objects : dirs' = [dirs EXCEPT ![n].damaged = @ \cup {k}]
        BY <4>1 DEF LoseCopy
      <4> QED BY <4>2 DEF DirsInv, Directories, Whole
    <3> QED BY <1>2, <3>1, <3>2 DEF Damaging, Damage
  <2> QED BY <2>1, <2>2 DEF JobsInv, RestoreInv
<1>3. ASSUME NEW b \in Backups, BackupWork(b) PROVE CopyInv'
  BY <1>3, BackupWorkStep DEF BackupWork, RestoreInv
<1>4. ASSUME NEW h \in Commands, RotationWork(h) PROVE CopyInv'
  BY <1>4, RotationStep DEF RotationWork, RestoreInv, JobsInv
<1>5. CASE RestoreWork
  BY <1>5, RestoreStep DEF RestoreWork, DirsInv, JobsInv
<1>6. ASSUME NEW b \in Backups, EndBackup(b) \/ NextJob(b) PROVE CopyInv'
  <2>1. PICK j \in {Failed, NoJob, job[b]} : SetJob(b, j)
    BY <1>6 DEF EndBackup, NextJob
  <2>2. j \in Jobs /\ Listed(j)
    BY NothingYet DEF JobsInv
  <2>3. JobsInv'
    BY <2>1, <2>2, JobSet
  <2> QED BY <1>6, <2>3 DEF EndBackup, NextJob, DirsInv, RestoreInv
<1>7. ASSUME NEW p \in Processes, ProcessEnds(p) PROVE CopyInv'
  BY <1>7, ForgetStep DEF ProcessEnds, DirsInv, RestoreInv
<1>8. CASE PowerFails
  BY <1>8, PowerStep
<1>9. CASE Content \/ Deleting \/ (\E m \in Offline : MoveWork(m)) \/ (\E a \in Actors : Lock(a))
  BY <1>9, <1>1 DEF Content, Deleting, MoveWork, Lock
<1>10. CASE UNCHANGED vars
  BY <1>10, <1>1 DEF vars
<1> QED BY <1>2, <1>3, <1>4, <1>5, <1>6, <1>7, <1>8, <1>9, <1>10 DEF Next

\* A backup that has its name has every original its database refers to: for
\* any number of backups at once, and whatever fails (backup.go: Backup).
THEOREM BackupsHold == Spec => []BackupsWhole
<1>1. CopyInv => BackupsWhole
  BY DEF CopyInv, DirsInv, Whole, BackupsWhole
<1> QED BY <1>1, InitCopy, NextCopy, PTL DEF Spec

\* What a restore publishes has every original its database refers to, even
\* while a rotation removes the directory it reads (backup.go: Restore).
THEOREM RestoresHold == Spec => []RestoresWhole
<1>1. CopyInv => RestoresWhole
  BY DEF CopyInv, RestoreInv, Restored, RestoresWhole
<1> QED BY <1>1, InitCopy, NextCopy, PTL DEF Spec

-----------------------------------------------------------------------------
(* The work keeps to the locks.                                            *)

\* Every step of the work is a step of one actor's locks, or of none; when the
\* power fails everybody's are gone.
LEMMA NextLocks == ProofInv /\ [Next]_vars => ProofInv'
<1> SUFFICES ASSUME ProofInv, [Next]_vars PROVE ProofInv'
  OBVIOUS
<1>1. CASE UNCHANGED lockVars
  BY <1>1, Unmoved
<1>2. ASSUME NEW a \in Actors, LockStep(a) PROVE ProofInv'
  BY <1>2, LockStepInv
<1>3. CASE Deleting
  <2>1. PICK d \in Deletions : Enter(d) \/ Exit(d)
    BY <1>3 DEF Deleting, StartDeletion, EndDeletion
  <2> QED BY <2>1, <1>2, Kinds DEF LockStep, Coming, Going
<1>4. ASSUME NEW a \in Actors, Lock(a) PROVE ProofInv'
  <2>1. LockStep(a)
    BY <1>4 DEF Lock, LockStep, Coming, Going
  <2> QED BY <2>1, <1>2
<1>5. ASSUME NEW b \in Backups, EndBackup(b) PROVE ProofInv'
  BY <1>5, <1>2, Kinds DEF EndBackup, LockStep, Going
<1>6. ASSUME NEW p \in Processes, ProcessEnds(p) PROVE ProofInv'
  BY <1>6, <1>2 DEF ProcessEnds, LockStep, Going, Actors
<1>7. CASE PowerFails
  <2>1. /\ held' = [l \in Locks |-> [a \in Actors |-> "none"]]
        /\ stage' = [a \in Actors |-> "idle"]
    BY <1>7 DEF PowerFails
  <2> QED BY <2>1 DEF ProofInv, LockInv, LockTypeOK, Modes, Stages, Exclusive, HoldsItsLocks,
             Holdings, Past, Locks
<1>8. CASE Content \/ Damaging \/ RestoreWork \/ (\E b \in Backups : BackupWork(b) \/ NextJob(b))
           \/ (\E h \in Commands : RotationWork(h)) \/ (\E m \in Offline : MoveWork(m))
  BY <1>8, <1>1 DEF Content, Damaging, RestoreWork, BackupWork, NextJob, RotationWork, MoveWork
<1>9. CASE UNCHANGED vars
  BY <1>9, <1>1 DEF vars, lockVars
<1> QED BY <1>3, <1>4, <1>5, <1>6, <1>7, <1>8, <1>9 DEF Next

\* The work of backups, deletions, rotations and migrations, and power failures,
\* leave the locks what they promise by themselves: the two modules compose.
THEOREM WorkUnderLocks == Spec => [](OneAtATime /\ SnapshotsPinned)
<1>1. Init => ProofInv
  BY InitProof DEF Init
<1>2. ProofInv => OneAtATime /\ SnapshotsPinned
  BY LockInvExcludes DEF ProofInv
<1> QED BY <1>1, <1>2, NextLocks, PTL DEF Spec

-----------------------------------------------------------------------------
(* What a backup has yet to copy is there.                                 *)

DataTyped ==
    /\ rows \in [Contents -> {"none", "live", "dead"}]
    /\ store \in [Objects -> {"none", "good", "bad"}]
    /\ target \in [Deletions -> Contents \cup {Nil}]
    /\ faults \in Nat

\* A deletion works on a dead content, and nobody else on the same.
Targets ==
    /\ \A d \in Deletions :
          /\ stage[d] \in {"entered", "running"} => target[d] # Nil
          /\ target[d] # Nil => rows[target[d]] = "dead"
    /\ \A d, e \in Deletions : d # e /\ target[d] # Nil => target[d] # target[e]

Working == {"staged", "copying", "renamed"}
UnderLocks == \A b \in Backups : job[b].step \in Working => stage[b] = "running"

Unharmed ==
    faults = 0 =>
        /\ \A k \in Objects : store[k] # "bad"
        /\ \A c \in Live : store[Original(c)] = "good"
        /\ \A b \in Backups, c \in Contents :
              job[b].step = "copying" /\ Original(c) \in job[b].left
                  => store[Original(c)] = "good"

PinInv == DataTyped /\ Targets /\ UnderLocks /\ Unharmed
WorkInv == ProofInv /\ CopyInv /\ PinInv

\* No original that a backup has yet to copy disappears under it, although the
\* server goes on removing files: nothing but damage to the store makes a
\* backup fail for want of an original.
OriginalsPinned ==
    faults = 0 =>
        \A b \in Backups : stage[b] = "running" /\ job[b].step = "copying" =>
            \A k \in job[b].left \cap Originals(Contents) : store[k] = "good"

LEMMA Keys ==
  ASSUME NEW c \in Contents
  PROVE  /\ Original(c) \in Objects /\ Derived(c) \in Objects
         /\ \A e \in Contents : Original(c) # Derived(e) /\ (Original(c) = Original(e) => c = e)
BY DEF Original, Derived, Objects, Originals

LEMMA InitPin == Init => PinInv
BY NothingYet DEF Init, LockInit, PinInv, DataTyped, Targets, UnderLocks, Working, Unharmed, Live,
   Actors

\* Steps of the locks that neither end an actor's work nor begin it.
LEMMA LockEffect ==
  ASSUME LockTypeOK, NEW a \in Actors, Lock(a)
  PROVE  \E next \in Stages :
            /\ stage' = [stage EXCEPT ![a] = next]
            /\ a \in Deletions /\ next \in {"entered", "running"} =>
                  stage[a] \in {"entered", "running"}
            /\ a \in Backups /\ job[a].step \in Working /\ stage[a] = "running" =>
                  next = "running"
<1>1. stage' = [stage EXCEPT ![a] = stage'[a]] /\ stage'[a] \in Stages
  BY DEF LockTypeOK, Stages, Lock, Enter, TakeServerSlot, TakeProcessSlot, TakeOldSlot, PinObjects,
     ShareObjects, TakeBackupSlot, GiveUp, Leave, Release, Try, Take, Goto
<1>2. ASSUME a \in Deletions, stage'[a] \in {"entered", "running"}
      PROVE  stage[a] \in {"entered", "running"}
  BY <1>2, Kinds, ActorsAssumption DEF LockTypeOK, Lock, Enter, TakeServerSlot, TakeProcessSlot,
     TakeOldSlot, PinObjects, ShareObjects, TakeBackupSlot, GiveUp, Leave, Release, Try, Take, Goto
<1>3. ASSUME a \in Backups, job[a].step \in Working, stage[a] = "running"
      PROVE  stage'[a] = "running"
  BY <1>3, Kinds, ActorsAssumption DEF LockTypeOK, Lock, Enter, TakeServerSlot, TakeProcessSlot,
     TakeOldSlot, PinObjects, ShareObjects, TakeBackupSlot, GiveUp, Leave, Release, Try, Take, Goto,
     Working
<1> QED BY <1>1, <1>2, <1>3

LEMMA LockPin ==
  ASSUME WorkInv, NEW a \in Actors, Lock(a)
  PROVE  PinInv'
<1>1. PICK next \in Stages :
            /\ stage' = [stage EXCEPT ![a] = next]
            /\ a \in Deletions /\ next \in {"entered", "running"} =>
                  stage[a] \in {"entered", "running"}
            /\ a \in Backups /\ job[a].step \in Working /\ stage[a] = "running" =>
                  next = "running"
  BY LockEffect DEF WorkInv, ProofInv, LockInv
<1>2. UNCHANGED <<rows, copies, store, target, job, faults>> /\ DOMAIN stage = Actors
  BY DEF Lock, data, WorkInv, ProofInv, LockInv, LockTypeOK
<1>3. UnderLocks'
  BY <1>1, <1>2, Kinds DEF WorkInv, PinInv, UnderLocks
<1>4. Targets'
  BY <1>1, <1>2, Kinds DEF WorkInv, PinInv, Targets
<1>5. DataTyped' /\ Unharmed'
  BY <1>2 DEF WorkInv, PinInv, DataTyped, Unharmed, Live
<1> QED BY <1>3, <1>4, <1>5 DEF PinInv

\* Content comes and goes: what is removed is dead, and no backup is copying.
LEMMA ContentPin ==
  ASSUME WorkInv, Content
  PROVE  PinInv'
<1>0. UNCHANGED <<held, stage, target, job, faults>>
  BY DEF Content, lockVars
<1>1. UnderLocks'
  BY <1>0 DEF WorkInv, PinInv, UnderLocks
<1>2. ASSUME NEW c \in Contents, Upload(c) PROVE DataTyped' /\ Targets' /\ Unharmed'
  <2>1. /\ rows' = [rows EXCEPT ![c] = "live"]
        /\ store' = [store EXCEPT ![Original(c)] = IF store[Original(c)] = "none" THEN "good"
                                                   ELSE store[Original(c)]]
        /\ \A d \in Deletions : target[d] # c
    BY <1>2 DEF Upload, Claimed
  <2>2. DataTyped'
    BY <1>0, <2>1 DEF WorkInv, PinInv, DataTyped
  <2>3. Targets'
    BY <1>0, <2>1, BackupAssumption DEF WorkInv, PinInv, Targets, DataTyped
  <2>4. Unharmed'
    BY <1>0, <2>1, Keys DEF WorkInv, PinInv, DataTyped, Unharmed, Live
  <2> QED BY <2>2, <2>3, <2>4
<1>3. ASSUME NEW c \in Contents, Derive(c) PROVE DataTyped' /\ Targets' /\ Unharmed'
  <2>1. rows' = rows /\ store' = [store EXCEPT ![Derived(c)] = "good"]
    BY <1>3 DEF Derive
  <2> QED BY <1>0, <2>1, Keys DEF WorkInv, PinInv, DataTyped, Targets, Unharmed, Live
<1>4. ASSUME NEW c \in Contents, Discard(c) PROVE DataTyped' /\ Targets' /\ Unharmed'
  <2>1. rows' = [rows EXCEPT ![c] = "dead"] /\ store' = store
    BY <1>4 DEF Discard
  <2> QED BY <1>0, <2>1 DEF WorkInv, PinInv, DataTyped, Targets, Unharmed, Live
<1>5. ASSUME NEW d \in Deletions, DeleteObject(d) PROVE DataTyped' /\ Targets' /\ Unharmed'
  <2>1. PICK k \in KeysOf(target[d], copies) : store' = [store EXCEPT ![k] = "none"]
    BY <1>5 DEF DeleteObject
  <2>2. /\ stage[d] = "running" /\ target[d] \in Contents /\ rows[target[d]] = "dead"
        /\ rows' = rows
    BY <1>5 DEF DeleteObject, WorkInv, PinInv, Targets, DataTyped
  <2>3. \A c \in Live : store'[Original(c)] = store[Original(c)]
    BY <2>1, <2>2, Keys DEF KeysOf, Live, WorkInv, PinInv, DataTyped
  <2>4. \A b \in Backups : job[b].step # "copying"
    <3> SUFFICES ASSUME NEW b \in Backups, job[b].step = "copying" PROVE FALSE
      OBVIOUS
    <3>1. b \in Running(Backups)
      BY DEF WorkInv, PinInv, UnderLocks, Working, Running
    <3>2. d \in Running(Backups \cup Deletions \cup OldServers)
      BY <2>2 DEF Running
    <3>3. d = b
      BY <3>1, <3>2, LockInvExcludes DEF WorkInv, ProofInv, SnapshotsPinned
    <3> QED BY <3>3, Kinds
  <2>5. DataTyped'
    BY <1>0, <2>1, <2>2 DEF WorkInv, PinInv, DataTyped
  <2>6. Targets'
    BY <1>0, <2>2 DEF WorkInv, PinInv, Targets
  <2>7. \A k2 \in Objects : store'[k2] \in {store[k2], "none"}
    BY <2>1 DEF WorkInv, PinInv, DataTyped
  <2>8. Unharmed'
    BY <1>0, <2>2, <2>3, <2>4, <2>7 DEF WorkInv, PinInv, Unharmed, Live
  <2> QED BY <2>5, <2>6, <2>8
<1> QED BY <1>1, <1>2, <1>3, <1>4, <1>5 DEF Content, PinInv

\* A deletion takes its content for itself, and leaves with the record or without.
LEMMA DeletingPin ==
  ASSUME WorkInv, Deleting
  PROVE  PinInv'
<1>0. UNCHANGED <<store, job, faults>> /\ DOMAIN stage = Actors
  BY DEF Deleting, data, WorkInv, ProofInv, LockInv, LockTypeOK
<1>1. ASSUME NEW d \in Deletions, StartDeletion(d), UNCHANGED data PROVE PinInv'
  <2>1. PICK c \in Contents :
          /\ rows[c] = "dead" /\ \A e \in Deletions : target[e] # c
          /\ target' = [target EXCEPT ![d] = c]
    BY <1>1 DEF StartDeletion, Claimed
  <2>2. \A a \in Actors : a # d => stage'[a] = stage[a]
    BY <1>0, <1>1 DEF StartDeletion, Enter, Take, Goto
  <2>3. rows' = rows
    BY <1>1 DEF data
  <2>4. Targets'
    BY <2>1, <2>2, <2>3, Kinds, BackupAssumption DEF WorkInv, PinInv, Targets, DataTyped
  <2>5. UnderLocks'
    BY <1>0, <2>2, Kinds DEF WorkInv, PinInv, UnderLocks
  <2>6. DataTyped' /\ Unharmed'
    BY <1>0, <2>1, <2>3 DEF WorkInv, PinInv, DataTyped, Unharmed, Live
  <2> QED BY <2>4, <2>5, <2>6 DEF PinInv
<1>2. ASSUME NEW d \in Deletions, EndDeletion(d) PROVE PinInv'
  <2>1. /\ target' = [target EXCEPT ![d] = Nil]
        /\ target[d] # Nil /\ rows[target[d]] = "dead" /\ target[d] \in Contents
        /\ rows' = rows \/ rows' = [rows EXCEPT ![target[d]] = "none"]
    BY <1>2 DEF EndDeletion, WorkInv, PinInv, Targets, DataTyped
  <2>2. stage'[d] = "idle" /\ \A a \in Actors : a # d => stage'[a] = stage[a]
    BY <1>0, <1>2, Kinds, ActorsAssumption DEF EndDeletion, Exit, Goto
  <2>3. Targets'
    BY <2>1, <2>2, Kinds DEF WorkInv, PinInv, Targets, DataTyped
  <2>4. UnderLocks'
    BY <1>0, <2>2, Kinds DEF WorkInv, PinInv, UnderLocks
  <2>5. DataTyped'
    BY <1>0, <2>1 DEF WorkInv, PinInv, DataTyped
  <2>6. Unharmed'
    BY <1>0, <2>1 DEF WorkInv, PinInv, DataTyped, Unharmed, Live
  <2> QED BY <2>3, <2>4, <2>5, <2>6 DEF PinInv
<1> QED BY <1>1, <1>2 DEF Deleting

\* A snapshot lists what live contents have; copying only shortens the list.
LEMMA BackupPin ==
  ASSUME WorkInv, NEW b \in Backups, BackupWork(b)
  PROVE  PinInv'
<1>0. UNCHANGED <<held, stage, rows, copies, store, target, faults>>
  BY DEF BackupWork, lockVars, data
<1>1. job[b] \in Jobs /\ stage[b] = "running" /\ DOMAIN job = Backups
  BY DEF WorkInv, CopyInv, JobsInv, BackupWork, WorkOnBackup, FailBackup, StageDirectory, Snapshot,
     CopyObject, Publish, SyncParent, JobStep
<1>2. PICK j : SetJob(b, j)
  BY DEF BackupWork, WorkOnBackup, FailBackup, StageDirectory, Snapshot, CopyObject, Publish,
     SyncParent
<1>3. job'[b] = j /\ \A a \in Backups : a # b => job'[a] = job[a]
  BY <1>1, <1>2 DEF SetJob
<1>4. UnderLocks'
  BY <1>0, <1>1, <1>3 DEF WorkInv, PinInv, UnderLocks
<1>5. DataTyped' /\ Targets'
  BY <1>0 DEF WorkInv, PinInv, DataTyped, Targets
<1>6. ASSUME faults = 0, NEW c \in Contents, job'[b].step = "copying", Original(c) \in job'[b].left
      PROVE  store[Original(c)] = "good"
  <2>1. CASE Snapshot(b)
    <3>1. job'[b].left = Inventory(Live, copies)
      BY <1>1, <2>1 DEF Snapshot, SetJob, Jobs
    <3>2. PICK e \in Live : Original(c) \in KeysOf(e, copies)
      BY <1>6, <3>1 DEF Inventory
    <3>3. c = e
      BY <3>2, Keys DEF KeysOf, Live
    <3> QED BY <1>6, <3>2, <3>3 DEF WorkInv, PinInv, Unharmed
  <2>2. CASE CopyObject(b)
    <3>1. job[b].step = "copying" /\ job'[b].left \subseteq job[b].left
      <4>1. job[b].step = "copying"
        BY <2>2 DEF CopyObject, JobStep
      <4>2. PICK k \in job[b].left :
              \/ SetJob(b, [job[b] EXCEPT !.left = @ \ {k}, !.got = @ \cup {k}])
              \/ SetJob(b, [job[b] EXCEPT !.left = @ \ {k}])
              \/ SetJob(b, Failed)
        BY <2>2 DEF CopyObject
      <4>3. job'[b].left = job[b].left \ {k} \/ job'[b] = Failed
        BY <1>1, <4>2 DEF SetJob, Jobs
      <4> QED BY <1>6, <4>1, <4>3, NothingYet
    <3> QED BY <1>6, <3>1 DEF WorkInv, PinInv, Unharmed
  <2>3. CASE ~Snapshot(b) /\ ~CopyObject(b)
    <3>1. job'[b].step # "copying"
      BY <1>1, <2>3 DEF BackupWork, WorkOnBackup, FailBackup, StageDirectory, Publish, SyncParent,
         SetJob, Jobs, Failed, NoJob
    <3> QED BY <1>6, <3>1
  <2> QED BY <2>1, <2>2, <2>3
<1>7. Unharmed'
  BY <1>0, <1>3, <1>6 DEF WorkInv, PinInv, Unharmed, Live
<1> QED BY <1>4, <1>5, <1>7 DEF PinInv

\* Whoever ends leaves nothing under way.
LEMMA EndingPin ==
  ASSUME WorkInv, NEW P \in SUBSET Processes, Forget(P),
         \A a \in Actors : stage'[a] = IF Host[a] \in P THEN "idle" ELSE stage[a],
         rows' = rows, store' = store, faults' \in Nat, faults' = 0 => faults = 0
  PROVE  PinInv'
<1>1. /\ \A d \in Deletions : target'[d] = IF Host[d] \in P THEN Nil ELSE target[d]
      /\ \A b \in Backups : job'[b] = IF Host[b] \in P THEN NoJob ELSE job[b]
  BY DEF Forget
<1>2. UnderLocks'
  BY <1>1, NothingYet, Kinds DEF WorkInv, PinInv, UnderLocks, Working
<1>3. Targets'
  BY <1>1, Kinds DEF WorkInv, PinInv, Targets
<1>4. DataTyped'
  BY DEF Forget, WorkInv, PinInv, DataTyped
<1>5. Unharmed'
  BY <1>1, NothingYet DEF WorkInv, PinInv, Unharmed, Live
<1> QED BY <1>2, <1>3, <1>4, <1>5 DEF PinInv

LEMMA NextPin == WorkInv /\ [Next]_vars => PinInv'
<1> SUFFICES ASSUME WorkInv, [Next]_vars PROVE PinInv'
  OBVIOUS
<1>1. CASE UNCHANGED <<stage, rows, store, target, job, faults>>
  BY <1>1 DEF WorkInv, PinInv, DataTyped, Targets, UnderLocks, Unharmed, Live
<1>2. CASE Content
  BY <1>2, ContentPin
<1>3. CASE Deleting
  BY <1>3, DeletingPin
<1>4. CASE Damaging
  <2>1. /\ faults' = faults + 1 /\ faults \in Nat
        /\ UNCHANGED <<stage, target, job, rows>> /\ store' \in [Objects -> {"none", "good", "bad"}]
    BY <1>4 DEF Damaging, Damage, LoseObject, LoseMoved, LoseCopy, data, lockVars, WorkInv, PinInv,
       DataTyped
  <2>2. DataTyped' /\ Targets' /\ UnderLocks'
    BY <2>1 DEF WorkInv, PinInv, DataTyped, Targets, UnderLocks
  <2>3. Unharmed'
    BY <2>1 DEF Unharmed
  <2> QED BY <2>2, <2>3 DEF PinInv
<1>5. ASSUME NEW b \in Backups, BackupWork(b) PROVE PinInv'
  BY <1>5, BackupPin
<1>6. ASSUME NEW a \in Actors, Lock(a) PROVE PinInv'
  BY <1>6, LockPin
<1>7. ASSUME NEW b \in Backups, EndBackup(b) \/ NextJob(b) PROVE PinInv'
  <2>0. b \notin Processes /\ b \in Actors /\ DOMAIN stage = Actors
    BY Kinds, ActorsAssumption DEF WorkInv, ProofInv, LockInv, LockTypeOK
  <2>1. /\ UNCHANGED <<rows, copies, store, target, faults>>
        /\ \A a \in Actors : a # b => stage'[a] = stage[a]
        /\ stage[b] # "running"
    <3>1. CASE EndBackup(b)
      BY <2>0, <3>1 DEF EndBackup, Exit, Goto, data
    <3>2. CASE NextJob(b)
      BY <2>0, <3>2 DEF NextJob, data, lockVars
    <3> QED BY <1>7, <3>1, <3>2
  <2>2. /\ \A a \in Backups : a # b => job'[a] = job[a]
        /\ job'[b] \in {job[b], Failed, NoJob}
    BY <1>7 DEF EndBackup, NextJob, SetJob, WorkInv, CopyInv, JobsInv
  <2>3. job[b].step \notin Working
    BY <2>1 DEF WorkInv, PinInv, UnderLocks
  <2>4. UnderLocks'
    BY <2>1, <2>2, <2>3, NothingYet, Kinds DEF WorkInv, PinInv, UnderLocks, Working
  <2>5. Targets' /\ DataTyped'
    BY <2>1, Kinds DEF WorkInv, PinInv, Targets, DataTyped
  <2>6. Unharmed'
    BY <2>1, <2>2, <2>3, NothingYet DEF WorkInv, PinInv, Unharmed, Live, Working
  <2> QED BY <2>4, <2>5, <2>6 DEF PinInv
<1>8. ASSUME NEW p \in Processes, ProcessEnds(p) PROVE PinInv'
  <2>1. Die(p)
    BY <1>8 DEF ProcessEnds, Exit, Crash
  <2>2. \A a \in Actors : stage'[a] = IF Host[a] \in {p} THEN "idle" ELSE stage[a]
    BY <2>1 DEF Die, Hosted
  <2>3. Forget({p}) /\ rows' = rows /\ store' = store /\ faults' = faults
    BY <1>8 DEF ProcessEnds, data
  <2> QED BY <2>2, <2>3, EndingPin DEF WorkInv, PinInv, DataTyped
<1>9. CASE PowerFails
  <2>1. \A a \in Actors : stage'[a] = IF Host[a] \in Processes THEN "idle" ELSE stage[a]
    BY <1>9, ActorsAssumption DEF PowerFails
  <2>2. Forget(Processes) /\ rows' = rows /\ store' = store /\ faults' = faults + 1 /\ faults \in Nat
    BY <1>9 DEF PowerFails, data, WorkInv, PinInv, DataTyped
  <2>3. faults' \in Nat /\ faults' # 0
    BY <2>2
  <2> QED BY <2>1, <2>2, <2>3, EndingPin
<1>10. CASE RestoreWork \/ (\E h \in Commands : RotationWork(h)) \/ (\E m \in Offline : MoveWork(m))
  <2>1. job' = job
    BY <1>10, RotationStep DEF RestoreWork, RotationWork, MoveWork, WorkInv, CopyInv
  <2> QED BY <1>1, <1>10, <2>1 DEF RestoreWork, RotationWork, MoveWork, data, lockVars
<1>11. CASE UNCHANGED vars
  BY <1>1, <1>11 DEF vars
<1> QED BY <1>2, <1>3, <1>4, <1>5, <1>6, <1>7, <1>8, <1>9, <1>10, <1>11 DEF Next

\* An online backup does not lose a file to the server that goes on deleting:
\* what its snapshot names stays until it is copied, under the exclusive object
\* lock, and a content that is coming back is not deleted (backup.go: Backup,
\* lock.go: AcquireSnapshot, content_lock.go).
THEOREM OriginalsStay == Spec => []OriginalsPinned
<1>1. Init => WorkInv
  BY InitProof, InitCopy, InitPin DEF Init, WorkInv
<1>2. WorkInv /\ [Next]_vars => WorkInv'
  BY NextLocks, NextCopy, NextPin DEF WorkInv
<1>3. WorkInv => OriginalsPinned
  BY DEF WorkInv, PinInv, Unharmed, OriginalsPinned, Originals
<1> QED BY <1>1, <1>2, <1>3, PTL DEF Spec

-----------------------------------------------------------------------------
(* What a migration has verified is there.                                 *)

Moves == [step : {"none", "copying", "verified", "failed"}, left : SUBSET Objects]

\* What a migration under way has still to copy, or has at its destination.
Carried(m) ==
    stage[m] = "running" /\ move[m].step \in {"copying", "verified"} =>
        \A c \in Live : \/ away[Original(c)] = "good"
                        \/ move[m].step = "copying" /\ Original(c) \in move[m].left

MoveInv ==
    /\ away \in [Objects -> {"none", "good", "bad"}]
    /\ move \in [Offline -> Moves]
    /\ \A m \in Offline : move[m].step = "none" \/ stage[m] \in {"running", "closing"}
    /\ \A m \in Offline : Carried(m)

LEMMA InitMove == Init => MoveInv
BY DEF Init, LockInit, MoveInv, Moves, NoMove, Carried

\* Beside a migration nothing works on the instance.
LEMMA MovesAlone ==
  ASSUME WorkInv, NEW m \in Offline, stage[m] = "running"
  PROVE  /\ \A a \in Actors : stage[a] = "running" => a = m
         /\ ~ServerUp
<1>1. OfflineAlone
  BY LockInvExcludes DEF WorkInv, ProofInv, OneAtATime
<1>2. \A a \in Actors : stage[a] = "running" => a = m
  BY <1>1, Kinds DEF OfflineAlone, Running
<1>3. \A a \in Servers : stage[a] # "running"
  BY <1>2, Kinds
<1> QED BY <1>2, <1>3 DEF ServerUp, Running

\* Steps that move nothing, start no migration and make no content live beside one.
LEMMA MoveStays ==
  ASSUME WorkInv, MoveInv, UNCHANGED <<move, away>>,
         \A m \in Offline : stage[m] # "idle" => stage'[m] \in {stage[m], "closing"},
         (\E m \in Offline : stage[m] = "running") => Live' \subseteq Live
  PROVE  MoveInv'
<1>1. ASSUME NEW m \in Offline
      PROVE  Carried(m)' /\ (move'[m].step = "none" \/ stage'[m] \in {"running", "closing"})
  <2>1. CASE move[m].step = "none"
    BY <2>1 DEF Carried
  <2>2. CASE move[m].step # "none"
    <3>1. stage[m] \in {"running", "closing"} /\ stage'[m] \in {"running", "closing"}
      BY <2>2 DEF MoveInv
    <3>2. stage'[m] = "running" => stage[m] = "running" /\ Live' \subseteq Live
      BY <2>2 DEF MoveInv
    <3> QED BY <3>1, <3>2 DEF MoveInv, Carried
  <2> QED BY <2>1, <2>2
<1> QED BY <1>1 DEF MoveInv

\* One object more is at its destination, with the recorded bytes.
LEMMA MovingStep ==
  ASSUME WorkInv, MoveInv, NEW m \in Offline, MoveWork(m)
  PROVE  MoveInv'
<1>1. /\ UNCHANGED <<stage, rows, copies, store>> /\ stage[m] = "running"
      /\ \A n \in Offline : n # m => stage[n] # "running" /\ move'[n] = move[n]
      /\ Live' = Live
  <2>1. UNCHANGED <<stage, rows, copies, store>>
    BY DEF MoveWork, data, lockVars
  <2>2. stage[m] = "running"
    BY DEF MoveWork, Moving, StartMove, MoveObject, EndMove, FailMove, MoveStep
  <2>3. \A n \in Offline : n # m => stage[n] # "running"
    BY <2>2, MovesAlone, Kinds
  <2>4. \A n \in Offline : n # m => move'[n] = move[n]
    BY DEF MoveWork, Moving, StartMove, MoveObject, EndMove, FailMove, MoveInv
  <2> QED BY <2>1, <2>2, <2>3, <2>4 DEF Live
<1>2. /\ Live \subseteq Contents /\ \A c \in Contents : Original(c) \in Objects
      /\ Inventory(Live, copies) \subseteq Objects
      /\ \A c \in Live : Original(c) \in Inventory(Live, copies)
  BY Keys DEF Live, Inventory, KeysOf
<1>3. /\ away' \in [Objects -> {"none", "good", "bad"}] /\ move' \in [Offline -> Moves]
      /\ Carried(m)'
  <2>1. CASE StartMove(m)
    <3>1. away' = away /\ move'[m] = [step |-> "copying", left |-> Inventory(Live, copies)]
      BY <2>1 DEF StartMove, MoveInv
    <3>2. move' \in [Offline -> Moves]
      BY <2>1, <1>2 DEF StartMove, MoveInv, Moves
    <3> QED BY <1>1, <1>2, <3>1, <3>2 DEF MoveInv, Carried
  <2>2. CASE MoveObject(m)
    <3>0. move[m] \in Moves /\ move[m].step = "copying" /\ DOMAIN move = Offline
      BY <2>2 DEF MoveObject, MoveStep, MoveInv
    <3>1. PICK k \in move[m].left :
            \/ /\ store[k] = "good" \/ (store[k] = "bad" /\ k[2] = "derived")
               /\ away[k] \in {"none", store[k]}
               /\ away' = [away EXCEPT ![k] = store[k]]
               /\ move' = [move EXCEPT ![m].left = @ \ {k}]
            \/ /\ k[2] = "derived" /\ away' = away
               /\ move' = [move EXCEPT ![m].left = @ \ {k}]
            \/ away' = away /\ move' = [move EXCEPT ![m] = [NoMove EXCEPT !.step = "failed"]]
      BY <2>2 DEF MoveObject
    <3>10. (away' = away /\ move' = [move EXCEPT ![m] = [NoMove EXCEPT !.step = "failed"]])
             => move'[m].step = "failed"
      BY <3>0 DEF NoMove
    <3>2. /\ k \in Objects /\ store[k] \in {"none", "good", "bad"}
          /\ \A c \in Contents : Original(c)[2] # "derived"
      BY <3>0, <3>1 DEF Moves, WorkInv, PinInv, DataTyped, Original
    <3>3. \/ move'[m] = [move[m] EXCEPT !.left = @ \ {k}]
          \/ move'[m] = [NoMove EXCEPT !.step = "failed"]
      BY <3>0, <3>1
    <3>4. move'[m] \in Moves
      BY <3>0, <3>3 DEF Moves, NoMove
    <3>5. move' \in [Offline -> Moves]
      BY <3>1, <3>4 DEF MoveInv
    <3>6. away' \in [Objects -> {"none", "good", "bad"}]
      BY <3>1, <3>2 DEF MoveInv
    <3>7. \A o \in Objects : away[o] = "good" => away'[o] = "good"
      BY <3>1, <3>2 DEF MoveInv
    <3>8. ASSUME move'[m].step = "copying" PROVE Carried(m)'
      <4>1. move'[m].step = "copying" /\ move'[m].left = move[m].left \ {k}
        BY <3>0, <3>3, <3>8 DEF Moves, NoMove
      <4>2. \A c \in Contents : Original(c) = k => away'[Original(c)] = "good"
        <5> SUFFICES ASSUME NEW c \in Contents, Original(c) = k PROVE away'[k] = "good"
          OBVIOUS
        <5>1. k[2] # "derived"
          BY <3>2
        <5>2. store[k] = "good" /\ away[k] \in {"none", store[k]}
          BY <3>1, <3>8, <3>10, <5>1
        <5> QED BY <3>1, <3>2, <3>8, <3>10, <5>1, <5>2 DEF MoveInv
      <4>3. \A c \in Live : away[Original(c)] = "good" \/ Original(c) \in move[m].left
        <5>1. Carried(m)
          BY DEF MoveInv
        <5> QED BY <1>1, <3>0, <5>1 DEF Carried
      <4>4. ASSUME NEW c \in Live
            PROVE  away'[Original(c)] = "good" \/ Original(c) \in move'[m].left
        <5>1. c \in Contents /\ Original(c) \in Objects
          BY <1>2
        <5> QED BY <3>7, <4>1, <4>2, <4>3, <5>1
      <4>5. \A c \in Live' : away'[Original(c)] = "good" \/ Original(c) \in move'[m].left
        BY <1>1, <4>4
      <4> QED BY <4>1, <4>5 DEF Carried
    <3>9. ASSUME move'[m].step # "copying" PROVE Carried(m)'
      <4>1. move'[m].step = "failed"
        BY <3>0, <3>3, <3>9 DEF Moves, NoMove
      <4> QED BY <4>1 DEF Carried
    <3> QED BY <3>5, <3>6, <3>8, <3>9
  <2>3. CASE EndMove(m)
    <3>1. away' = away /\ move[m].left = {} /\ move[m].step = "copying"
      BY <2>3 DEF EndMove, MoveStep
    <3>2. move' \in [Offline -> Moves]
      BY <2>3 DEF EndMove, MoveInv, Moves
    <3> QED BY <1>1, <1>2, <3>1, <3>2 DEF MoveInv, Carried
  <2>4. CASE FailMove(m)
    <3>1. away' = away /\ move'[m] = [NoMove EXCEPT !.step = "failed"]
      BY <2>4 DEF FailMove, MoveInv
    <3>2. move' \in [Offline -> Moves] /\ move'[m].step = "failed"
      BY <2>4, <3>1 DEF FailMove, MoveInv, Moves, NoMove
    <3> QED BY <3>1, <3>2 DEF MoveInv, Carried
  <2> QED BY <2>1, <2>2, <2>3, <2>4 DEF MoveWork, Moving
<1>4. \A n \in Offline : n # m => Carried(n)'
  BY <1>1 DEF Carried
<1> QED BY <1>1, <1>3, <1>4 DEF MoveInv

\* The locks never bring a migration back to work.
LEMMA LockMove ==
  ASSUME WorkInv, MoveInv, NEW a \in Actors, Lock(a)
  PROVE  MoveInv'
<1>1. UNCHANGED <<move, away, rows>>
  BY DEF Lock, data, migration
<1>2. ASSUME NEW m \in Offline, stage[m] # "idle" PROVE stage'[m] \in {stage[m], "closing"}
  <2>1. /\ m \in Actors /\ m \notin Servers /\ m \notin OldServers /\ m \notin Backups
        /\ m \notin Deletions /\ DOMAIN stage = Actors
    BY Kinds DEF WorkInv, ProofInv, LockInv, LockTypeOK
  <2>2. CASE a # m
    BY <2>1, <2>2 DEF Lock, Enter, TakeServerSlot, TakeProcessSlot, TakeOldSlot, PinObjects,
       ShareObjects, TakeBackupSlot, GiveUp, Leave, Release, Try, Take, Goto
  <2>3. CASE a = m
    BY <1>2, <2>1, <2>3 DEF Lock, Enter, TakeServerSlot, TakeProcessSlot, TakeOldSlot, PinObjects,
       ShareObjects, TakeBackupSlot, GiveUp, Leave, Release, Goto
  <2> QED BY <2>2, <2>3
<1> QED BY <1>1, <1>2, MoveStays DEF Live

LEMMA NextMove == WorkInv /\ MoveInv /\ [Next]_vars => MoveInv'
<1> SUFFICES ASSUME WorkInv, MoveInv, [Next]_vars PROVE MoveInv'
  OBVIOUS
<1>1. CASE UNCHANGED <<stage, rows, move, away>>
  BY <1>1, MoveStays DEF Live
<1>2. CASE Content
  <2>1. UNCHANGED <<stage, move, away>>
    BY <1>2 DEF Content, lockVars, migration
  <2>2. ASSUME NEW m \in Offline, stage[m] = "running" PROVE rows' = rows
    BY <1>2, <2>2, MovesAlone DEF Content, Upload, Derive, Discard, DeleteObject
  <2> QED BY <2>1, <2>2, MoveStays DEF Live
<1>3. CASE Deleting
  <2>1. PICK d \in Deletions : (StartDeletion(d) /\ UNCHANGED data) \/ EndDeletion(d)
    BY <1>3 DEF Deleting
  <2>2. UNCHANGED <<move, away>>
    BY <1>3 DEF Deleting, migration
  <2>3. \A m \in Offline : stage'[m] = stage[m]
    BY <2>1, Kinds, ActorsAssumption DEF StartDeletion, EndDeletion, Enter, Exit, Take, Goto, WorkInv,
       ProofInv, LockInv, LockTypeOK
  <2>4. Live' \subseteq Live
    BY <2>1 DEF EndDeletion, Live, data, WorkInv, PinInv, DataTyped
  <2> QED BY <2>2, <2>3, <2>4, MoveStays
<1>4. CASE Damaging
  <2>1. UNCHANGED <<stage, move, rows>>
    BY <1>4 DEF Damaging, Damage, LoseObject, lockVars, data
  <2>2. CASE away' = away
    BY <1>1, <2>1, <2>2
  <2>3. CASE \E k \in Objects : LoseMoved(k)
    BY <2>1, <2>3 DEF LoseMoved, Running, MoveInv, Carried
  <2> QED BY <1>4, <2>2, <2>3 DEF Damaging, Damage
<1>5. ASSUME NEW m \in Offline, MoveWork(m) PROVE MoveInv'
  BY <1>5, MovingStep
<1>6. ASSUME NEW b \in Backups, EndBackup(b) PROVE MoveInv'
  <2>1. UNCHANGED <<move, away, rows>>
    BY <1>6 DEF EndBackup, data, migration
  <2>2. \A m \in Offline : stage'[m] = stage[m]
    BY <1>6, Kinds, ActorsAssumption DEF EndBackup, Exit, Goto, WorkInv, ProofInv, LockInv, LockTypeOK
  <2> QED BY <2>1, <2>2, MoveStays DEF Live
<1>7. ASSUME NEW P \in SUBSET Processes, Forget(P), UNCHANGED <<rows, away>>,
             \A m \in Offline : stage'[m] = IF m \in P THEN "idle" ELSE stage[m]
      PROVE  MoveInv'
  <2>1. move' = [m \in Offline |-> IF m \in P THEN NoMove ELSE move[m]]
    BY <1>7 DEF Forget
  <2>2. NoMove \in Moves /\ NoMove.step = "none"
    BY DEF NoMove, Moves
  <2>3. move' \in [Offline -> Moves]
    BY <2>1, <2>2 DEF MoveInv
  <2>4. \A m \in Offline : move'[m].step = "none" \/ stage'[m] \in {"running", "closing"}
    BY <1>7, <2>1, <2>2 DEF MoveInv
  <2>5. \A m \in Offline : Carried(m)'
    BY <1>7, <2>1, <2>2 DEF MoveInv, Carried, Live
  <2> QED BY <1>7, <2>3, <2>4, <2>5 DEF MoveInv
<1>8. ASSUME NEW p \in Processes, ProcessEnds(p) PROVE MoveInv'
  <2>1. Die(p) /\ Forget({p}) /\ UNCHANGED <<rows, away>>
    BY <1>8 DEF ProcessEnds, Exit, Crash, data
  <2>2. \A m \in Offline : stage'[m] = IF m \in {p} THEN "idle" ELSE stage[m]
    BY <2>1, Kinds, ActorsAssumption DEF Die, Hosted, Processes
  <2> QED BY <2>1, <2>2, <1>7
<1>9. CASE PowerFails
  <2>1. Forget(Processes) /\ UNCHANGED <<rows, away>>
    BY <1>9 DEF PowerFails, data
  <2>2. \A m \in Offline : m \in Processes /\ stage'[m] = "idle"
    BY <1>9, Kinds DEF PowerFails, Processes
  <2> QED BY <2>1, <2>2, <1>7
<1>10. ASSUME NEW a \in Actors, Lock(a) PROVE MoveInv'
  BY <1>10, LockMove
<1>11. CASE RestoreWork \/ (\E h \in Commands : RotationWork(h))
            \/ (\E b \in Backups : BackupWork(b) \/ NextJob(b))
  BY <1>1, <1>11 DEF RestoreWork, RotationWork, BackupWork, NextJob, lockVars, data, migration
<1>12. CASE UNCHANGED vars
  BY <1>1, <1>12 DEF vars
<1> QED BY <1>2, <1>3, <1>4, <1>5, <1>6, <1>8, <1>9, <1>10, <1>11, <1>12 DEF Next

\* When a migration says that it is done, the other store has every original the
\* database refers to: what is left to copy and what is there always add up, and
\* under the lifecycle lock nothing comes in between (objects.go: CopyVerified).
THEOREM MigrationsHold == Spec => []MigrationWhole
<1>1. Init => WorkInv /\ MoveInv
  BY InitProof, InitCopy, InitPin, InitMove DEF Init, WorkInv
<1>2. WorkInv /\ MoveInv /\ [Next]_vars => (WorkInv /\ MoveInv)'
  BY NextLocks, NextCopy, NextPin, NextMove DEF WorkInv
<1>3. MoveInv => MigrationWhole
  BY DEF MoveInv, Carried, MigrationWhole, MoveStep
<1> QED BY <1>1, <1>2, <1>3, PTL DEF Spec

-----------------------------------------------------------------------------
(* Rotation.                                                               *)

\* Others than the one just made, newer than n, and the one just made: what a
\* rotation keeps when it removes n.
Kept(n, made) == {m \in Snapshots \ {n} : m > n \/ m = made}

\* Whoever has begun to back up holds the destination's lock; a name is noted
\* from the marker on, and is that of a whole backup; what a rotation is going to
\* remove is marked, and not all there is.
Rotas == [step : {"none", "backup", "marked", "listing", "pruning", "failed", "over"},
          name : Names \cup {Nil}, victims : SUBSET Names]
Quiet(r) ==
    /\ r.step \in {"none", "backup", "over"} => r.name = Nil
    /\ r.step \in {"marked", "listing"} => r.victims = {}
Marked(r) == r.step \in {"marked", "listing", "pruning"} => r.name \in Names /\ Complete(r.name)
Sure(r) ==
    r.step = "pruning" =>
        \A n \in r.victims :
           /\ n # r.name /\ dirs[n].state # "unused"
           /\ dirs[n].state = "whole" => dirs[n].mark # "none"
           /\ Cardinality(Kept(n, r.name)) >= Keep
RotaOK(h) ==
    /\ rota[h].step \notin {"none", "over"} => dest = h
    /\ Quiet(rota[h]) /\ Marked(rota[h]) /\ Sure(rota[h])

\* What a backup has renamed is there, unmarked, until its command marks it.
Renamed(b) == job[b].step \in {"renamed", "done"}
Named(b) == job[b].step \in {"staged", "copying"} => job[b].name \in Names
Unmarked(b) == Host[b] \in Commands => rota[Host[b]].step \in {"none", "backup"}
JobOK(b) ==
    Renamed(b) =>
        /\ job[b].name \in Names /\ dirs[job[b].name].state # "unused"
        /\ Unmarked(b) => /\ dirs[job[b].name].state = "whole"
                          /\ dirs[job[b].name].manifest /\ dirs[job[b].name].mark = "none"
NamesDiffer == \A b, d \in Backups : Renamed(b) /\ Renamed(d) /\ job[b].name = job[d].name => b = d

RotaInv ==
    /\ rota \in [Commands -> Rotas]
    /\ \A h \in Commands : RotaOK(h)
    /\ \A b \in Backups : Named(b) /\ JobOK(b)
    /\ NamesDiffer
    /\ \A n \in Names : dirs[n].state = "unused" => dirs[n].mark = "none"
KeepInv == CopyInv /\ RotaInv

LEMMA NoRotaYet == NoRota \in Rotas /\ NoRota.step = "none" /\ NoRota.name = Nil /\ NoRota.victims = {}
BY DEF NoRota, Rotas

LEMMA InitRota == Init => RotaInv
BY NoRotaYet, NothingYet DEF Init, RotaInv, RotaOK, Quiet, Marked, Sure, Named, JobOK, Renamed, NamesDiffer, Unused

\* The oldest of some names is one of them.
LEMMA OldestOf ==
  ASSUME NEW S \in SUBSET Names, S # {}
  PROVE  Oldest(S) \in S /\ \A m \in S : Oldest(S) <= m
<1>1. S \subseteq Nat
  BY BackupAssumption
<1> DEFINE below == {ss \in Nat \X Nat : ss[1] < ss[2]}
<1>2. IsWellFoundedOn(below, Nat)
  BY NatLessThanWellFounded DEF OpToRel
<1> HIDE DEF below
<1>3. PICK n \in S : \A m \in S : ~ (<<m, n>> \in below)
  BY <1>1, <1>2, WFMin
<1>4. ASSUME NEW m \in S PROVE n <= m
  <2>1. m \in Nat /\ n \in Nat /\ <<m, n>> \notin below
    BY <1>1, <1>3
  <2>2. ~ (m < n)
    BY <2>1 DEF below
  <2> QED BY <2>1, <2>2
<1> QED BY <1>4 DEF Oldest

\* Marks, manifests and states are as they were.
SameBackups ==
    /\ DOMAIN dirs' = Names
    /\ \A n \in Names : /\ dirs'[n].state = dirs[n].state /\ dirs'[n].mark = dirs[n].mark
                        /\ dirs'[n].manifest = dirs[n].manifest

LEMMA NothingRotates ==
  ASSUME RotaInv, UNCHANGED <<rota, dest>>, SameBackups,
         \A b \in Backups : /\ Renamed(b)' => Renamed(b) /\ job'[b].name = job[b].name
                            /\ Named(b)'
  PROVE  RotaInv'
<1>1. Snapshots' = Snapshots /\ \A n \in Names : Complete(n)' = Complete(n)
  BY DEF SameBackups, Snapshots, Complete
<1>2. ASSUME NEW h \in Commands PROVE RotaOK(h)'
  <2>1. rota[h] \in Rotas /\ rota'[h] = rota[h] /\ dest' = dest /\ RotaOK(h)
    BY DEF RotaInv
  <2>2. Quiet(rota[h])' /\ Marked(rota[h])'
    BY <1>1, <2>1 DEF RotaOK, Quiet, Marked
  <2>3. Sure(rota[h])'
    BY <1>1, <2>1 DEF RotaOK, Sure, Kept, SameBackups, Rotas
  <2> QED BY <2>1, <2>2, <2>3 DEF RotaOK
<1>3. ASSUME NEW b \in Backups PROVE JobOK(b)'
  BY DEF RotaInv, JobOK, SameBackups, Unmarked
<1>4. NamesDiffer'
  BY DEF RotaInv, NamesDiffer
<1> QED BY <1>2, <1>3, <1>4 DEF RotaInv, SameBackups

\* A new name is nobody's yet.
LEMMA PublishRota ==
  ASSUME CopyInv, RotaInv, NEW b \in Backups, Publish(b), UNCHANGED <<rota, dest>>
  PROVE  RotaInv'
<1> DEFINE n == job[b].name
<1>1. job \in [Backups -> Jobs] /\ n \in Names \cup {Nil}
  BY DEF CopyInv, JobsInv, Jobs
<1>2. n \in Names
  BY DEF RotaInv, Named, Publish, JobStep
<1>3. CASE dirs[n].state # "unused"
  <2>1. dirs' = dirs /\ job' = [job EXCEPT ![b] = Failed]
    BY <1>3 DEF Publish, SetJob
  <2>2. \A d \in Backups : (Renamed(d)' => Renamed(d) /\ job'[d].name = job[d].name) /\ Named(d)'
    BY <1>1, <2>1, NothingYet DEF RotaInv, Renamed, Named
  <2> QED BY <2>1, <2>2, NothingRotates DEF SameBackups, CopyInv, DirsInv
<1>4. CASE dirs[n].state = "unused"
  <2> DEFINE d == [Unused EXCEPT !.state = "whole", !.db = job[b].db, !.objects = job[b].got,
                                 !.manifest = TRUE]
             j == [NoJob EXCEPT !.step = "renamed", !.name = n]
  <2>1. dirs' = [dirs EXCEPT ![n] = d] /\ job' = [job EXCEPT ![b] = j]
    BY <1>4 DEF Publish, SetJob
  <2>2. /\ d.state = "whole" /\ d.mark = "none" /\ d.manifest
        /\ j.step = "renamed" /\ j.name = n
    BY DEF Unused, NoJob
  <2> HIDE DEF d, j
  <2>3. /\ DOMAIN dirs' = Names /\ dirs'[n] = d /\ \A m \in Names : m # n => dirs'[m] = dirs[m]
        /\ job'[b] = j /\ \A c \in Backups : c # b => job'[c] = job[c]
    BY <1>1, <1>2, <2>1 DEF CopyInv, DirsInv
  <2>4. n \notin Snapshots /\ Snapshots' = Snapshots /\ ~Complete(n)
    BY <1>2, <1>4, <2>2, <2>3 DEF Snapshots, Complete, RotaInv
  <2>5. ASSUME NEW h \in Commands PROVE RotaOK(h)'
    <3>1. rota[h] \in Rotas /\ rota'[h] = rota[h] /\ dest' = dest /\ RotaOK(h)
      BY DEF RotaInv
    <3>2. Quiet(rota[h])' /\ Marked(rota[h])'
      BY <2>3, <2>4, <3>1 DEF RotaOK, Quiet, Marked, Complete
    <3>3. ASSUME NEW m \in rota[h].victims, rota[h].step = "pruning"
          PROVE  /\ m # rota[h].name /\ dirs'[m].state # "unused"
                 /\ dirs'[m].state = "whole" => dirs'[m].mark # "none"
                 /\ Cardinality(Kept(m, rota[h].name))' >= Keep
      BY <1>4, <2>2, <2>3, <2>4, <3>1, <3>3 DEF RotaOK, Sure, Rotas, Kept
    <3> QED BY <3>1, <3>2, <3>3 DEF RotaOK, Sure
  <2>6. ASSUME NEW c \in Backups, c # b, Renamed(c) PROVE job[c].name # n
    BY <1>4, <2>6 DEF RotaInv, JobOK
  <2>7. ASSUME NEW c \in Backups PROVE Named(c)' /\ JobOK(c)'
    BY <1>2, <2>2, <2>3, <2>6 DEF RotaInv, Named, JobOK, Renamed, Unmarked
  <2>8. NamesDiffer'
    BY <2>2, <2>3, <2>6 DEF RotaInv, NamesDiffer, Renamed
  <2> QED BY <2>2, <2>3, <2>5, <2>7, <2>8 DEF RotaInv
<1> QED BY <1>3, <1>4

\* Processes that end take their jobs and their rotation with them.
LEMMA ForgetRota ==
  ASSUME CopyInv, RotaInv, NEW P \in SUBSET Processes, Forget(P), dirs' = dirs
  PROVE  RotaInv'
<1>1. /\ job' = [b \in Backups |-> IF Host[b] \in P THEN NoJob ELSE job[b]]
      /\ rota' = [h \in Commands |-> IF h \in P THEN NoRota ELSE rota[h]]
      /\ dest' = IF dest \in P THEN Nil ELSE dest
  BY DEF Forget
<1>2. Snapshots' = Snapshots /\ \A n \in Names : Complete(n)' = Complete(n)
  BY DEF Snapshots, Complete
<1>3. rota' \in [Commands -> Rotas]
  BY <1>1, NoRotaYet DEF RotaInv
<1>4. ASSUME NEW h \in Commands PROVE RotaOK(h)'
  <2>1. CASE h \in P
    BY <1>1, <2>1, NoRotaYet DEF RotaOK, Quiet, Marked, Sure
  <2>2. CASE h \notin P
    <3>1. rota'[h] = rota[h] /\ RotaOK(h) /\ rota[h] \in Rotas
      BY <1>1, <2>2 DEF RotaInv
    <3>2. rota[h].step \notin {"none", "over"} => dest' = h
      BY <1>1, <2>2, <3>1 DEF RotaOK
    <3>3. Quiet(rota[h])' /\ Marked(rota[h])' /\ Sure(rota[h])'
      BY <1>2, <3>1 DEF RotaOK, Quiet, Marked, Sure, Kept
    <3> QED BY <3>1, <3>2, <3>3 DEF RotaOK
  <2> QED BY <2>1, <2>2
<1>5. ASSUME NEW b \in Backups PROVE Named(b)' /\ JobOK(b)'
  <2>1. CASE Host[b] \in P
    BY <1>1, <2>1, NothingYet DEF Named, JobOK, Renamed
  <2>2. CASE Host[b] \notin P
    BY <1>1, <2>2 DEF RotaInv, Named, JobOK, Renamed, Unmarked
  <2> QED BY <2>1, <2>2
<1>6. NamesDiffer'
  BY <1>1, NothingYet DEF RotaInv, NamesDiffer, Renamed
<1> QED BY <1>3, <1>4, <1>5, <1>6 DEF RotaInv

\* After a power failure nobody rotates.
LEMMA PowerRota ==
  ASSUME CopyInv, RotaInv, PowerFails
  PROVE  RotaInv'
<1>1. /\ rota' = [h \in Commands |-> NoRota] /\ job' = [b \in Backups |-> NoJob]
  BY ActorsAssumption DEF PowerFails, Forget, Processes
<1>2. ASSUME NEW n \in Names, dirs'[n].state = "unused" PROVE dirs'[n].mark = "none"
  BY <1>2, NothingYet DEF PowerFails, RotaInv, CopyInv, DirsInv, Directories, Unused
<1>3. ASSUME NEW h \in Commands PROVE RotaOK(h)' /\ rota'[h] \in Rotas
  BY <1>1, NoRotaYet DEF RotaOK, Quiet, Marked, Sure
<1>4. ASSUME NEW b \in Backups PROVE Named(b)' /\ ~Renamed(b)'
  BY <1>1, NothingYet DEF Named, Renamed
<1> QED BY <1>1, <1>2, <1>3, <1>4 DEF RotaInv, JobOK, NamesDiffer

\* One at a time rotates.
LEMMA OneRotates ==
  ASSUME RotaInv, NEW h \in Commands, rota[h].step \notin {"none", "over"}
  PROVE  dest = h /\ \A g \in Commands : g # h => rota[g].step \in {"none", "over"} /\ rota[g].name = Nil
BY DEF RotaInv, RotaOK, Quiet

LEMMA RotaTurn ==
  ASSUME RotaInv, NEW h \in Commands, NEW r \in Rotas,
         rota' = [rota EXCEPT ![h] = r], job' = job,
         \A g \in Commands : g # h => rota[g].step \in {"none", "over"},
         r.step \notin {"none", "over"} => dest' = h,
         Quiet(r), Marked(r)', Sure(r)', DOMAIN dirs' = Names,
         \A n \in Names : dirs'[n].state = "unused" => dirs'[n] = dirs[n],
         \A b \in Backups : Renamed(b) /\ Unmarked(b)' =>
             Unmarked(b) /\ dirs'[job[b].name] = dirs[job[b].name]
  PROVE  RotaInv'
<1>1. rota' \in [Commands -> Rotas] /\ rota'[h] = r /\ \A g \in Commands : g # h => rota'[g] = rota[g]
  BY DEF RotaInv
<1>2. ASSUME NEW g \in Commands PROVE RotaOK(g)'
  <2>1. CASE g = h
    BY <1>1, <2>1 DEF RotaOK, Quiet, Marked, Sure
  <2>2. CASE g # h
    BY <1>1, <2>2 DEF RotaInv, RotaOK, Quiet, Marked, Sure
  <2> QED BY <2>1, <2>2
<1>3. ASSUME NEW b \in Backups PROVE Named(b)' /\ JobOK(b)'
  <2>1. Named(b) /\ JobOK(b)
    BY DEF RotaInv
  <2>2. Renamed(b) => dirs'[job[b].name].state # "unused"
    BY <2>1 DEF JobOK
  <2> QED BY <2>1, <2>2 DEF Named, JobOK, Renamed
<1>4. NamesDiffer'
  BY DEF RotaInv, NamesDiffer, Renamed
<1> QED BY <1>1, <1>2, <1>3, <1>4 DEF RotaInv

\* What a rotation lists to be removed: as many as are kept are newer.
LEMMA ListedRota ==
  ASSUME CopyInv, RotaInv, NEW h \in Commands, ListSnapshots(h)
  PROVE  RotaInv'
<1> DEFINE made == rota[h].name
           older == Snapshots \ {made}
           old == {n \in older : Cardinality({m \in older : m > n}) >= Keep - 1}
<1>1. /\ rota[h] \in Rotas /\ rota[h].step = "listing" /\ made \in Names /\ Complete(made)
      /\ dest = h /\ \A g \in Commands : g # h => rota[g].step \in {"none", "over"}
  BY OneRotates DEF ListSnapshots, RotaStep, RotaInv, RotaOK, Marked
<1>2. old \subseteq Snapshots /\ made \notin old /\ Snapshots \subseteq Names
  BY DEF Snapshots
<1> DEFINE given == [rota[h] EXCEPT !.step = "failed"]
           all == [rota[h] EXCEPT !.step = "pruning"]
           listed == [rota[h] EXCEPT !.step = "pruning", !.victims = old]
<1>3. /\ given \in Rotas /\ given.step = "failed"
      /\ all \in Rotas /\ all.step = "pruning" /\ all.name = made /\ all.victims = {}
      /\ listed \in Rotas /\ listed.step = "pruning" /\ listed.name = made /\ listed.victims = old
  <2>1. rota[h].victims = {}
    BY <1>1 DEF RotaInv, RotaOK, Quiet
  <2>2. old \in SUBSET Names
    BY <1>2
  <2> HIDE DEF old
  <2> QED BY <1>1, <2>1, <2>2 DEF Rotas
<1>4. ASSUME NEW n \in old PROVE Cardinality(Kept(n, made)) >= Keep
  <2> DEFINE newer == {m \in older : m > n}
  <2>1. IsFiniteSet(newer)
    <3>1. newer \subseteq Names
      BY <1>2
    <3> QED BY <3>1, BackupAssumption, FS_Subset
  <2>2. Cardinality(newer) >= Keep - 1 /\ made \notin newer
    OBVIOUS
  <2>3. made \in Snapshots
    BY <1>1 DEF Snapshots, Complete
  <2>4. n \in Nat /\ n # made /\ Snapshots \subseteq Nat
    BY <1>2, BackupAssumption
  <2>5. Kept(n, made) = newer \cup {made}
    BY <2>3, <2>4 DEF Kept
  <2> HIDE DEF newer
  <2>6. Cardinality(newer) \in Nat /\ Cardinality(newer \cup {made}) = Cardinality(newer) + 1
    BY <2>1, <2>2, FS_AddElement, FS_CardinalityType
  <2> QED BY <2>2, <2>5, <2>6, BackupAssumption
<1> HIDE DEF old, given, all, listed
<1>5. PICK r \in {given, all, listed} : rota' = [rota EXCEPT ![h] = r]
  BY DEF ListSnapshots, SetRota, given, all, listed, old
<1>6. UNCHANGED <<dirs, dest, job>>
  BY DEF ListSnapshots
<1>7. Quiet(r)
  BY <1>3 DEF Quiet
<1>8. Marked(r)'
  BY <1>1, <1>3, <1>6 DEF Marked, Complete
<1>9. Sure(r)'
  <2>1. ASSUME NEW n \in old PROVE n # made /\ dirs[n].state # "unused" /\ dirs[n].mark # "none"
    BY <1>2, <2>1 DEF RotaInv, Snapshots
  <2>2. Snapshots' = Snapshots
    BY <1>6 DEF Snapshots
  <2>3. \A n \in old : Kept(n, r.name)' = Kept(n, r.name)
    BY <2>2 DEF Kept
  <2>4. r.step = "pruning" => r.name = made /\ r.victims \subseteq old
    BY <1>3
  <2> HIDE DEF made
  <2> QED BY <1>4, <1>6, <2>1, <2>3, <2>4 DEF Sure
<1>10. ASSUME NEW b \in Backups, Unmarked(b)' PROVE Unmarked(b)
  BY <1>1, <1>3, <1>5, <1>10 DEF Unmarked, RotaInv
<1>11. r \in Rotas /\ dest' = h /\ job' = job /\ dirs' = dirs /\ DOMAIN dirs' = Names
  BY <1>1, <1>3, <1>6 DEF CopyInv, DirsInv
<1> HIDE DEF made
<1> QED BY <1>1, <1>5, <1>7, <1>8, <1>9, <1>10, <1>11, RotaTurn

\* The oldest of what is to be removed goes, first its files, then the directory.
LEMMA RemovedRota ==
  ASSUME CopyInv, RotaInv, NEW h \in Commands, RemoveSome(h) \/ RemoveRest(h)
  PROVE  RotaInv'
<1>0. rota[h].step = "pruning" /\ rota[h].victims # {} /\ job' = job /\ dest' = dest
  BY DEF RemoveSome, RemoveRest, RotaStep
<1> PICK n : n = Oldest(rota[h].victims)
  OBVIOUS
<1>1. /\ rota[h] \in Rotas /\ rota[h].step = "pruning" /\ RotaOK(h)
      /\ dest = h /\ \A g \in Commands : g # h => rota[g].step \in {"none", "over"}
  BY <1>0, OneRotates DEF RotaInv
<1>2. n \in rota[h].victims /\ n \in Names /\ \A m \in rota[h].victims : n <= m
  <2>1. rota[h].victims \in SUBSET Names
    BY <1>1 DEF Rotas
  <2> QED BY <1>0, <2>1, OldestOf
<1>3. n # rota[h].name /\ (dirs[n].state = "whole" => dirs[n].mark # "none")
  BY <1>1, <1>2 DEF RotaOK, Sure
<1>4. /\ DOMAIN dirs' = Names /\ dirs'[n].state \in {"partial", "gone"}
      /\ \A m \in Names : m # n => dirs'[m] = dirs[m]
  <2>1. dirs \in [Names -> Directories]
    BY DEF CopyInv, DirsInv
  <2>2. CASE RemoveSome(h)
    <3>1. PICK manifest \in BOOLEAN, mark \in BOOLEAN :
            dirs' = [dirs EXCEPT ![n].state = "partial", ![n].manifest = manifest,
                                 ![n].mark = IF mark THEN @ ELSE "none"]
      BY <2>2 DEF RemoveSome
    <3> QED BY <1>2, <2>1, <3>1 DEF Directories
  <2>3. CASE RemoveRest(h)
    <3>1. dirs' = [dirs EXCEPT ![n] = [Unused EXCEPT !.state = "gone"]]
      BY <2>3 DEF RemoveRest
    <3> QED BY <1>2, <2>1, <3>1 DEF Unused
  <2> QED BY <2>2, <2>3
<1>5. PICK V \in {rota[h].victims, rota[h].victims \ {n}} :
        rota' = [rota EXCEPT ![h] = [rota[h] EXCEPT !.victims = V]]
  <2>1. CASE RemoveSome(h)
    <3>1. rota[h] = [rota[h] EXCEPT !.victims = rota[h].victims]
      BY <1>1 DEF Rotas
    <3>2. rota' = [rota EXCEPT ![h] = rota[h]]
      BY <2>1 DEF RemoveSome, RotaInv
    <3> QED BY <3>1, <3>2
  <2>2. CASE RemoveRest(h)
    BY <2>2 DEF RemoveRest, SetRota
  <2> QED BY <2>1, <2>2
<1> PICK r : r = [rota[h] EXCEPT !.victims = V]
  OBVIOUS
<1>6. /\ r \in Rotas /\ r.step = "pruning" /\ r.name = rota[h].name
      /\ r.victims \subseteq rota[h].victims
  BY <1>1, <1>5 DEF Rotas
<1>7. Quiet(r) /\ Marked(r)'
  BY <1>1, <1>3, <1>4, <1>6 DEF RotaOK, Marked, Quiet, Complete
<1>8. Sure(r)'
  <2>1. ASSUME NEW m \in rota[h].victims PROVE Kept(m, r.name)' = Kept(m, r.name)
    <3>1. m \in Nat /\ n \in Nat /\ n <= m
      BY <1>1, <1>2, BackupAssumption DEF Rotas
    <3>2. n \notin Kept(m, r.name) /\ n \notin Kept(m, r.name)'
      BY <1>3, <1>6, <3>1 DEF Kept
    <3>3. \A k \in Names : k # n => (k \in Snapshots' <=> k \in Snapshots)
      BY <1>4 DEF Snapshots
    <3>4. Snapshots \subseteq Names /\ Snapshots' \subseteq Names
      BY DEF Snapshots
    <3> QED BY <3>2, <3>3, <3>4 DEF Kept
  <2>2. ASSUME NEW m \in rota[h].victims
        PROVE  /\ m # r.name /\ dirs'[m].state # "unused"
               /\ dirs'[m].state = "whole" => dirs'[m].mark # "none"
               /\ Cardinality(Kept(m, r.name)) >= Keep
    BY <1>1, <1>4, <1>6, <2>2 DEF RotaOK, Sure, Rotas
  <2> QED BY <1>6, <2>1, <2>2 DEF Sure
<1>9. ASSUME NEW b \in Backups, Renamed(b), Unmarked(b)'
      PROVE  Unmarked(b) /\ dirs'[job[b].name] = dirs[job[b].name]
  <2>1. Unmarked(b)
    BY <1>1, <1>5, <1>6, <1>9 DEF Unmarked, RotaInv
  <2>2. JobOK(b)
    BY DEF RotaInv
  <2> QED BY <1>3, <1>4, <1>9, <2>1, <2>2 DEF JobOK
<1>10. rota' = [rota EXCEPT ![h] = r] /\ job' = job /\ dest' = h
  BY <1>0, <1>1, <1>5
<1>11. \A m \in Names : dirs'[m].state = "unused" => dirs'[m] = dirs[m]
  BY <1>4
<1> QED BY <1>1, <1>4, <1>6, <1>7, <1>8, <1>9, <1>10, <1>11, RotaTurn

\* The marker is written, of a backup of one's own...
LEMMA MarkRota ==
  ASSUME CopyInv, RotaInv, NEW h \in Commands, Mark(h)
  PROVE  RotaInv'
<1>1. /\ rota[h].step = "backup" /\ dest = h
      /\ \A g \in Commands : g # h => rota[g].step \in {"none", "over"}
  BY OneRotates DEF Mark, RotaStep
<1>2. PICK b \in Backups :
        /\ Host[b] = h /\ job[b].step = "done"
        /\ dirs' = [dirs EXCEPT ![job[b].name].mark = "written"]
        /\ rota' = [rota EXCEPT ![h] = [NoRota EXCEPT !.step = "marked", !.name = job[b].name]]
  BY DEF Mark, SetRota
<1> PICK n, r : n = job[b].name /\ r = [NoRota EXCEPT !.step = "marked", !.name = n]
  OBVIOUS
<1>3. /\ n \in Names /\ dirs[n].state = "whole" /\ dirs[n].manifest
      /\ JobOK(b) /\ Renamed(b)
  BY <1>1, <1>2 DEF RotaInv, JobOK, Renamed, Unmarked
<1>4. r \in Rotas /\ r.step = "marked" /\ r.name = n /\ r.victims = {}
  BY <1>3 DEF Rotas, NoRota
<1>5. /\ DOMAIN dirs' = Names /\ \A m \in Names : m # n => dirs'[m] = dirs[m]
      /\ dirs'[n].state = "whole" /\ dirs'[n].manifest /\ dirs'[n].mark = "written"
  BY <1>2, <1>3 DEF CopyInv, DirsInv, Directories
<1>6. rota' = [rota EXCEPT ![h] = r] /\ job' = job /\ dest' = h
  BY <1>1, <1>2 DEF Mark
<1>7. Quiet(r) /\ Marked(r)' /\ Sure(r)'
  BY <1>3, <1>4, <1>5 DEF Quiet, Marked, Sure, Complete
<1>8. ASSUME NEW d \in Backups, Renamed(d), Unmarked(d)'
      PROVE  Unmarked(d) /\ dirs'[job[d].name] = dirs[job[d].name]
  <2>1. Host[d] # h
    BY <1>4, <1>6, <1>8 DEF Unmarked, RotaInv
  <2>2. d # b /\ JobOK(d)
    BY <1>2, <2>1 DEF RotaInv
  <2>3. job[d].name \in Names /\ job[d].name # n
    BY <1>3, <1>8, <2>2 DEF RotaInv, NamesDiffer, JobOK
  <2> QED BY <1>5, <1>6, <1>8, <2>1, <2>3 DEF Unmarked, RotaInv
<1>9. \A m \in Names : dirs'[m].state = "unused" => dirs'[m] = dirs[m]
  BY <1>5
<1> QED BY <1>1, <1>4, <1>5, <1>6, <1>7, <1>8, <1>9, RotaTurn

\* ... and synced.
LEMMA SyncMarkRota ==
  ASSUME CopyInv, RotaInv, NEW h \in Commands, SyncMark(h)
  PROVE  RotaInv'
<1> PICK n, r : n = rota[h].name /\ r = [rota[h] EXCEPT !.step = "listing"]
  OBVIOUS
<1>1. /\ rota[h] \in Rotas /\ rota[h].step = "marked" /\ rota[h].victims = {}
      /\ n \in Names /\ Complete(n) /\ dest = h
      /\ \A g \in Commands : g # h => rota[g].step \in {"none", "over"}
  BY OneRotates DEF SyncMark, RotaStep, RotaInv, RotaOK, Marked, Quiet
<1>2. r \in Rotas /\ r.step = "listing" /\ r.name = n /\ r.victims = {}
  BY <1>1 DEF Rotas
<1>3. rota' = [rota EXCEPT ![h] = r] /\ job' = job /\ dest' = h
  BY <1>1 DEF SyncMark, SetRota
<1>4. /\ DOMAIN dirs' = Names /\ \A m \in Names : m # n => dirs'[m] = dirs[m]
      /\ dirs'[n].state = "whole" /\ dirs'[n].manifest /\ dirs'[n].mark = "synced"
  BY <1>1 DEF SyncMark, Complete, CopyInv, DirsInv, Directories
<1>5. Quiet(r) /\ Marked(r)' /\ Sure(r)'
  BY <1>1, <1>2, <1>4 DEF Quiet, Marked, Sure, Complete
<1>6. ASSUME NEW d \in Backups, Renamed(d), Unmarked(d)'
      PROVE  Unmarked(d) /\ dirs'[job[d].name] = dirs[job[d].name]
  <2>1. Unmarked(d)
    BY <1>2, <1>3, <1>6 DEF Unmarked, RotaInv
  <2>2. JobOK(d)
    BY DEF RotaInv
  <2> QED BY <1>1, <1>4, <1>6, <2>1, <2>2 DEF JobOK, Complete
<1>7. \A m \in Names : dirs'[m].state = "unused" => dirs'[m] = dirs[m]
  BY <1>4
<1> QED BY <1>1, <1>2, <1>3, <1>4, <1>5, <1>6, <1>7, RotaTurn

\* The lock is taken, and closed when all is over; a rotation stops.
LEMMA TurnRota ==
  ASSUME CopyInv, RotaInv, NEW h \in Commands,
         LockDestination(h) \/ UnlockDestination(h) \/ FailRotation(h)
  PROVE  RotaInv'
<1> DEFINE taken == [NoRota EXCEPT !.step = "backup"]
           over == [NoRota EXCEPT !.step = "over"]
           failed == [rota[h] EXCEPT !.step = "failed"]
<1>1. rota[h] \in Rotas /\ RotaOK(h)
  BY DEF RotaInv
<1>2. /\ taken \in Rotas /\ taken.step = "backup" /\ taken.name = Nil
      /\ over \in Rotas /\ over.step = "over" /\ over.name = Nil
      /\ failed \in Rotas /\ failed.step = "failed"
  BY <1>1 DEF Rotas, NoRota
<1>3. /\ dirs' = dirs /\ job' = job /\ DOMAIN dirs' = Names
      /\ \A g \in Commands : g # h => rota[g].step \in {"none", "over"}
  BY OneRotates, BackupAssumption DEF LockDestination, UnlockDestination, FailRotation, RotaStep,
     CopyInv, DirsInv, RotaInv, RotaOK, Actors, Processes
<1> HIDE DEF taken, over, failed
<1>4. PICK r \in {taken, over, failed} :
        /\ rota' = [rota EXCEPT ![h] = r]
        /\ r = taken => dest' = h /\ rota[h].step = "none"
        /\ r = failed => dest' = h
  BY <1>1, OneRotates, <1>2 DEF LockDestination, UnlockDestination, FailRotation, SetRota, RotaStep,
     taken, over, failed
<1>5. r \in Rotas /\ (r.step \notin {"none", "over"} => dest' = h)
  BY <1>2, <1>4
<1>6. Quiet(r) /\ Marked(r)' /\ Sure(r)'
  BY <1>2, <1>4 DEF Quiet, Marked, Sure
<1>7. ASSUME NEW b \in Backups, Unmarked(b)' PROVE Unmarked(b)
  BY <1>2, <1>4, <1>7 DEF Unmarked, RotaInv
<1> QED BY <1>3, <1>4, <1>5, <1>6, <1>7, RotaTurn

LEMMA NextRota == KeepInv /\ [Next]_vars => RotaInv'
<1> SUFFICES ASSUME CopyInv, RotaInv, [Next]_vars PROVE RotaInv'
  BY DEF KeepInv
<1>1. CASE UNCHANGED <<rota, dest, job>> /\ SameBackups
  BY <1>1, NothingRotates DEF RotaInv, Named, Renamed
<1>2. dirs' = dirs => SameBackups
  BY DEF SameBackups, CopyInv, DirsInv
<1>3. CASE Damaging
  <2>1. UNCHANGED <<rota, dest, job>>
    BY <1>3 DEF Damaging
  <2>2. CASE \E n \in Names : LoseCopy(n)
    <3>1. PICK n \in Names : \E k : dirs' = [dirs EXCEPT ![n].damaged = @ \cup {k}]
      BY <2>2 DEF LoseCopy
    <3>2. SameBackups
      BY <3>1 DEF SameBackups, CopyInv, DirsInv, Directories
    <3> QED BY <1>1, <2>1, <3>2
  <2> QED BY <1>1, <1>2, <1>3, <2>1, <2>2 DEF Damaging, Damage
<1>4. ASSUME NEW b \in Backups, BackupWork(b) PROVE RotaInv'
  <2>1. UNCHANGED <<rota, dest>> /\ job \in [Backups -> Jobs]
    BY <1>4 DEF BackupWork, CopyInv, JobsInv
  <2>2. CASE Publish(b)
    BY <2>1, <2>2, PublishRota
  <2>3. CASE StageDirectory(b) \/ Snapshot(b) \/ CopyObject(b) \/ FailBackup(b)
    <3>1. PICK j : /\ job' = [job EXCEPT ![b] = j] /\ j.step \notin {"renamed", "done"}
                   /\ j.step \in {"staged", "copying"} => j.name \in Names
      <4>1. job[b] \in Jobs /\ Named(b)
        BY <2>1 DEF RotaInv
      <4>2. CASE StageDirectory(b)
        <5>1. PICK n \in Names : SetJob(b, [NoJob EXCEPT !.step = "staged", !.name = n])
          BY <4>2 DEF StageDirectory
        <5> DEFINE j == [NoJob EXCEPT !.step = "staged", !.name = n]
        <5>2. j.step = "staged" /\ j.name = n /\ job' = [job EXCEPT ![b] = j]
          BY <5>1 DEF SetJob, NoJob
        <5> HIDE DEF j
        <5> QED BY <5>2
      <4>3. CASE Snapshot(b)
        <5> DEFINE j == [job[b] EXCEPT !.step = "copying", !.db = Live, !.left = Inventory(Live, copies)]
        <5>1. j.step = "copying" /\ j.name = job[b].name /\ job' = [job EXCEPT ![b] = j]
          BY <4>1, <4>3 DEF Snapshot, SetJob, Jobs
        <5>2. job[b].name \in Names
          BY <4>1, <4>3 DEF Snapshot, JobStep, Named
        <5> HIDE DEF j
        <5> QED BY <5>1, <5>2
      <4>4. CASE CopyObject(b)
        <5>1. PICK j : /\ job' = [job EXCEPT ![b] = j]
                       /\ j = Failed \/ (j.step = job[b].step /\ j.name = job[b].name)
          <6>1. PICK k \in job[b].left :
                  \/ SetJob(b, [job[b] EXCEPT !.left = @ \ {k}, !.got = @ \cup {k}])
                  \/ SetJob(b, [job[b] EXCEPT !.left = @ \ {k}])
                  \/ SetJob(b, Failed)
            BY <4>4 DEF CopyObject
          <6>2. PICK j \in {[job[b] EXCEPT !.left = @ \ {k}, !.got = @ \cup {k}],
                            [job[b] EXCEPT !.left = @ \ {k}], Failed} :
                  job' = [job EXCEPT ![b] = j]
            BY <6>1 DEF SetJob
          <6>3. j = Failed \/ (j.step = job[b].step /\ j.name = job[b].name)
            BY <4>1, <6>2 DEF Jobs
          <6> QED BY <6>2, <6>3
        <5> QED BY <4>1, <4>4, <5>1, NothingYet DEF CopyObject, JobStep, Named
      <4>5. CASE FailBackup(b)
        BY <4>5, NothingYet DEF FailBackup, SetJob
      <4> QED BY <2>3, <4>2, <4>3, <4>4, <4>5
    <3>2. dirs' = dirs
      BY <2>3 DEF StageDirectory, Snapshot, CopyObject, FailBackup
    <3>3. \A d \in Backups : (Renamed(d)' => Renamed(d) /\ job'[d].name = job[d].name) /\ Named(d)'
      BY <2>1, <3>1 DEF Renamed, Named, RotaInv
    <3> QED BY <1>2, <2>1, <3>2, <3>3, NothingRotates
  <2>4. CASE SyncParent(b)
    <3>1. SameBackups
      BY <2>4 DEF SyncParent, SameBackups, CopyInv, DirsInv, Directories
    <3>2. \A d \in Backups : (Renamed(d)' => Renamed(d) /\ job'[d].name = job[d].name) /\ Named(d)'
      BY <2>1, <2>4 DEF SyncParent, JobStep, SetJob, Jobs, Renamed, Named, RotaInv
    <3> QED BY <2>1, <3>1, <3>2, NothingRotates
  <2> QED BY <1>4, <2>2, <2>3, <2>4 DEF BackupWork, WorkOnBackup
<1>5. ASSUME NEW b \in Backups, EndBackup(b) \/ NextJob(b) PROVE RotaInv'
  <2>1. PICK j \in {Failed, NoJob, job[b]} : SetJob(b, j)
    BY <1>5 DEF EndBackup, NextJob
  <2>2. UNCHANGED <<rota, dest, dirs>>
    BY <1>5 DEF EndBackup, NextJob
  <2>3. \A d \in Backups : (Renamed(d)' => Renamed(d) /\ job'[d].name = job[d].name) /\ Named(d)'
    BY <2>1, NothingYet DEF SetJob, Renamed, Named, RotaInv, CopyInv, JobsInv
  <2> QED BY <1>2, <2>2, <2>3, NothingRotates
<1>6. ASSUME NEW h \in Commands, RotationWork(h) PROVE RotaInv'
  BY <1>6, MarkRota, SyncMarkRota, ListedRota, RemovedRota, TurnRota DEF RotationWork, Rotate
<1>7. ASSUME NEW p \in Processes, ProcessEnds(p) PROVE RotaInv'
  BY <1>7, ForgetRota DEF ProcessEnds
<1>8. CASE PowerFails
  BY <1>8, PowerRota
<1>9. CASE Content \/ Deleting \/ RestoreWork \/ (\E m \in Offline : MoveWork(m))
           \/ (\E a \in Actors : Lock(a))
  BY <1>1, <1>2, <1>9 DEF Content, Deleting, RestoreWork, MoveWork, Lock
<1>10. CASE UNCHANGED vars
  BY <1>1, <1>2, <1>10 DEF vars
<1> QED BY <1>3, <1>4, <1>5, <1>6, <1>7, <1>8, <1>9, <1>10 DEF Next

\* What a rotation removes is marked and not what was just made, which is there
\* and complete, and enough others are newer.
LEMMA RemovalsKeep ==
  ASSUME CopyInv, RotaInv, NEW h \in Commands, RemoveSome(h), NEW n \in Names,
         dirs[n].state = "whole", dirs'[n].state # "whole"
  PROVE  /\ dirs[n].mark # "none" /\ n \notin Current
         /\ \E m \in Names \cap Current : Complete(m)
         /\ Cardinality({m \in Snapshots \ {n} : m > n \/ m \in Current}) >= Keep
<1>1. /\ rota[h] \in Rotas /\ rota[h].step = "pruning" /\ rota[h].victims # {} /\ RotaOK(h)
      /\ \A g \in Commands : g # h => rota[g].name = Nil
  BY OneRotates DEF RemoveSome, RotaStep, RotaInv
<1>2. n = Oldest(rota[h].victims)
  BY DEF RemoveSome, CopyInv, DirsInv
<1>3. n \in rota[h].victims
  <2>1. rota[h].victims \in SUBSET Names
    BY <1>1 DEF Rotas
  <2> QED BY <1>1, <1>2, <2>1, OldestOf
<1>4. /\ n # rota[h].name /\ dirs[n].mark # "none" /\ Cardinality(Kept(n, rota[h].name)) >= Keep
      /\ rota[h].name \in Names /\ Complete(rota[h].name)
  BY <1>1, <1>3 DEF RotaOK, Sure, Marked
<1>5. Names \cap Current = {rota[h].name}
  BY <1>1, <1>4, BackupAssumption DEF Current
<1>6. {m \in Snapshots \ {n} : m > n \/ m \in Current} = Kept(n, rota[h].name)
  BY <1>5 DEF Kept, Snapshots
<1> QED BY <1>4, <1>5, <1>6

\* Rotation touches only marked backups, never the one just made, and leaves
\* --keep others that are newer or just made: with any number of commands and
\* any --keep, whatever the clock says and whatever failed before
\* (rotation.go: pruneScheduledBackups).
THEOREM RotationsKeepNewest == Spec => RotationKeepsNewest
<1>1. Init => KeepInv
  BY InitCopy, InitRota DEF KeepInv
<1>2. KeepInv /\ [Next]_vars => KeepInv'
  BY NextCopy, NextRota DEF KeepInv
<1> DEFINE Kind(n) ==
      \/ ~dirs[n].synced /\ dirs'[n].state = "gone"
      \/ /\ dirs[n].mark # "none" /\ n \notin Current
         /\ \E m \in Names \cap Current : Complete(m)
         /\ Cardinality({m \in Snapshots \ {n} : m > n \/ m \in Current}) >= Keep
    Step == \A n \in Names : dirs[n].state = "whole" /\ dirs'[n].state # "whole" => Kind(n)
<1>3. KeepInv /\ [Next]_vars => [Step]_vars
  <2> SUFFICES ASSUME CopyInv, RotaInv, [Next]_vars, NEW n \in Names,
                      dirs[n].state = "whole", dirs'[n].state # "whole"
               PROVE  Kind(n)
    BY DEF KeepInv
  <2>1. dirs \in [Names -> Directories] /\ dirs' # dirs
    BY DEF CopyInv, DirsInv
  <2>2. CASE PowerFails
    BY <2>2 DEF PowerFails, Unused
  <2>3. ASSUME NEW h \in Commands, RotationWork(h) PROVE Kind(n)
    <3>1. CASE RemoveSome(h)
      BY <3>1, RemovalsKeep
    <3>2. CASE RemoveRest(h)
      BY <2>1, <3>2 DEF RemoveRest
    <3>3. CASE Mark(h) \/ SyncMark(h)
      <4>1. PICK m, mark : dirs' = [dirs EXCEPT ![m].mark = mark]
        BY <3>3 DEF Mark, SyncMark
      <4> QED BY <2>1, <4>1 DEF Directories
    <3> QED BY <2>1, <2>3, <3>1, <3>2, <3>3 DEF RotationWork, Rotate, LockDestination,
               ListSnapshots, UnlockDestination, FailRotation
  <2>4. ASSUME NEW b \in Backups, BackupWork(b) PROVE Kind(n)
    <3>1. CASE SyncParent(b)
      BY <2>1, <3>1 DEF SyncParent, Directories
    <3>2. CASE Publish(b)
      BY <2>1, <3>2 DEF Publish, Unused
    <3> QED BY <2>1, <2>4, <3>1, <3>2 DEF BackupWork, WorkOnBackup, StageDirectory, Snapshot,
               CopyObject, FailBackup
  <2>5. CASE Damaging
    <3>1. PICK m \in Names : LoseCopy(m)
      BY <2>1, <2>5 DEF Damaging, Damage
    <3>2. PICK k \in dirs[m].objects : dirs' = [dirs EXCEPT ![m].damaged = @ \cup {k}]
      BY <3>1 DEF LoseCopy
    <3> QED BY <2>1, <3>2 DEF Directories
  <2>6. CASE Content \/ Deleting \/ RestoreWork \/ (\E m \in Offline : MoveWork(m))
             \/ (\E a \in Actors : Lock(a)) \/ (\E p \in Processes : ProcessEnds(p))
             \/ (\E b \in Backups : EndBackup(b) \/ NextJob(b)) \/ UNCHANGED vars
    BY <2>1, <2>6 DEF Content, Deleting, RestoreWork, MoveWork, Lock, ProcessEnds, EndBackup,
       NextJob, vars
  <2> QED BY <2>2, <2>3, <2>4, <2>5, <2>6 DEF Next
<1> QED BY <1>1, <1>2, <1>3, PTL DEF Spec, RotationKeepsNewest
=============================================================================
