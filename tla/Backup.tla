------------------------------- MODULE Backup -------------------------------
(***************************************************************************)
(* Online backups of an instance: the snapshot of the database, the copy   *)
(* of the objects it names, the publication of the directory, the rotation *)
(* of scheduled backups, and restores from them, while a server goes on    *)
(* storing and removing content; and the migration to another object store *)
(* by the same copying.                                                    *)
(*                                                                         *)
(* The instance is what ContentStore describes, kept to what a backup      *)
(* reads: for each content a record of the database and the objects it     *)
(* names, an original and a derived copy.  Uploads and removals of one     *)
(* content exclude each other (web/content_lock.go), so each is one step   *)
(* here; a deletion takes its own locks and works object by object.        *)
(***************************************************************************)
EXTENDS InstanceLocks, FiniteSets

CONSTANTS
    Contents,    \* SHA-256 values
    Names,       \* backup directories; a larger one has a later timestamp
    Scheduled,   \* commands that run backup --output-dir
    Keep,        \* --keep
    MaxFaults,   \* bound: objects lost or damaged, and power failures
    Nil

ASSUME BackupAssumption ==
    /\ Names \subseteq Nat /\ IsFiniteSet(Names)
    /\ Scheduled \subseteq Commands
    /\ Keep \in Nat /\ MaxFaults \in Nat
    /\ Nil \notin Contents \cup Names \cup Actors

Original(c) == <<c, "original">>
Derived(c) == <<c, "derived">>
Originals(C) == {Original(c) : c \in C}
Objects == Originals(Contents) \cup {Derived(c) : c \in Contents}

VARIABLES
    rows,      \* content records: none, live (referenced) or dead
    copies,    \* contents whose record names a derived copy
    store,     \* the object store: none, good or bad bytes for each key
    target,    \* the content each deletion removes
    job,       \* what each backup has done
    dirs,      \* published backup directories
    dest,      \* who holds the destination's lock
    rota,      \* what each scheduled command has done
    move,      \* what each migration has still to copy
    away,      \* the store it copies to
    restore,   \* a restore under way, or the last published
    faults

data == <<rows, copies, store>>
migration == <<move, away>>
vars == <<held, stage, rows, copies, store, target, job, dirs, dest, rota,
          move, away, restore, faults>>

NoJob == [step |-> "none", name |-> Nil, db |-> {}, left |-> {}, got |-> {}]
NoRota == [step |-> "none", name |-> Nil, victims |-> {}]
NoMove == [step |-> "none", left |-> {}]
NoRestore == [step |-> "none", name |-> Nil, db |-> {}, objects |-> {}]

\* A directory is whole until a rotation starts to remove it; db is what its
\* database refers to, objects what its manifest names, damaged the ones whose
\* files have been lost or changed since.  mark is the marker file of scheduled
\* backups, synced says that the rename is on disk.
Unused == [state |-> "unused", db |-> {}, objects |-> {}, damaged |-> {},
           manifest |-> FALSE, mark |-> "none", synced |-> FALSE]

----------------------------------------------------------------------------
(* The instance at work *)

ServerUp == Running(Servers) # {}
Claimed(c) == \E d \in Deletions : target[d] = c

\* An upload stores the original unless it is there, then writes the record.
Upload(c) ==
    /\ ServerUp /\ ~Claimed(c) /\ rows[c] # "live"
    /\ rows' = [rows EXCEPT ![c] = "live"]
    /\ store' = [store EXCEPT ![Original(c)] = IF @ = "none" THEN "good" ELSE @]
    /\ UNCHANGED copies

\* A derived copy is written before the record names it.
Derive(c) ==
    /\ ServerUp /\ rows[c] = "live" /\ c \notin copies
    /\ store[Original(c)] = "good"
    /\ store' = [store EXCEPT ![Derived(c)] = "good"]
    /\ copies' = copies \cup {c}
    /\ UNCHANGED rows

\* The last file of a content is removed.
Discard(c) ==
    /\ ServerUp /\ rows[c] = "live"
    /\ rows' = [rows EXCEPT ![c] = "dead"]
    /\ UNCHANGED <<copies, store>>

KeysOf(c, named) == {Original(c)} \cup (IF c \in named THEN {Derived(c)} ELSE {})

\* releaseBlobLocked looks at the record, then deleteKeys takes its locks...
StartDeletion(d) ==
    /\ target[d] = Nil
    /\ \E c \in Contents :
          /\ rows[c] = "dead" /\ ~Claimed(c)
          /\ target' = [target EXCEPT ![d] = c]
    /\ Enter(d)

\* ... and deletes object after object...
DeleteObject(d) ==
    /\ d \in Deletions /\ stage[d] = "running"
    /\ \E k \in KeysOf(target[d], copies) :
          /\ store[k] # "none"
          /\ store' = [store EXCEPT ![k] = "none"]
    /\ UNCHANGED <<rows, copies>>

\* ... and the record goes once all of them have.
EndDeletion(d) ==
    LET c == target[d] IN
    /\ target[d] # Nil /\ stage[d] = "closing" /\ Exit(d)
    /\ IF \A k \in KeysOf(c, copies) : store[k] = "none"
       THEN rows' = [rows EXCEPT ![c] = "none"] /\ copies' = copies \ {c}
       ELSE UNCHANGED <<rows, copies>>
    /\ target' = [target EXCEPT ![d] = Nil]

\* Bytes are lost or damaged in the object store.
LoseObject(k) ==
    /\ store[k] = "good"
    /\ \E damage \in {"none", "bad"} : store' = [store EXCEPT ![k] = damage]
    /\ UNCHANGED <<rows, copies>>

\* ... in the store a migration copies to, between two of its runs...
LoseMoved(k) ==
    /\ Running(Offline) = {}
    /\ away[k] = "good"
    /\ \E damage \in {"none", "bad"} : away' = [away EXCEPT ![k] = damage]

\* ... or in a backup.
LoseCopy(n) ==
    /\ dirs[n].state = "whole"
    /\ \E k \in dirs[n].objects : dirs' = [dirs EXCEPT ![n].damaged = @ \cup {k}]

----------------------------------------------------------------------------
(* Backup *)

\* Inventory: what the records that something refers to name.
Live == {c \in Contents : rows[c] = "live"}
Inventory(db, named) == UNION {KeysOf(c, named) : c \in db}

Failed == [NoJob EXCEPT !.step = "failed"]
SetJob(b, j) == job' = [job EXCEPT ![b] = j]
JobStep(b, step) == stage[b] = "running" /\ job[b].step = step

\* stageDirectory: the output does not exist.
StageDirectory(b) ==
    /\ JobStep(b, "none")
    /\ \E n \in Names :
          /\ dirs[n].state = "unused"
          /\ SetJob(b, [NoJob EXCEPT !.step = "staged", !.name = n])
    /\ UNCHANGED dirs

\* VACUUM INTO takes the database as one transaction left it.
Snapshot(b) ==
    /\ JobStep(b, "staged")
    /\ SetJob(b, [job[b] EXCEPT !.step = "copying", !.db = Live,
                                !.left = Inventory(Live, copies)])
    /\ UNCHANGED dirs

\* Mutant: any object that is missing is skipped.
CopyAnyObject(b) ==
    /\ JobStep(b, "copying")
    /\ \E k \in job[b].left :
          \/ /\ store[k] = "good"
             /\ SetJob(b, [job[b] EXCEPT !.left = @ \ {k}, !.got = @ \cup {k}])
          \/ /\ store[k] = "none"
             /\ SetJob(b, [job[b] EXCEPT !.left = @ \ {k}])
    /\ UNCHANGED dirs

\* CopyVerified for one entry: an original must have its recorded hash; a
\* derived copy may be missing, and has no hash to be held to.
CopyObject(b) ==
    /\ JobStep(b, "copying")
    /\ \E k \in job[b].left :
          \/ /\ store[k] = "good" \/ (store[k] = "bad" /\ k[2] = "derived")
             /\ SetJob(b, [job[b] EXCEPT !.left = @ \ {k}, !.got = @ \cup {k}])
          \/ /\ store[k] = "none" /\ k[2] = "derived"
             /\ SetJob(b, [job[b] EXCEPT !.left = @ \ {k}])
          \/ /\ store[k] # "good" /\ k[2] = "original"
             /\ SetJob(b, Failed)
    /\ UNCHANGED dirs

\* The manifest is written, the tree synced and the stage renamed.  The name
\* may have been taken since StageDirectory looked.
Publish(b) ==
    /\ JobStep(b, "copying") /\ job[b].left = {}
    /\ IF dirs[job[b].name].state = "unused"
       THEN /\ dirs' = [dirs EXCEPT ![job[b].name] =
                   [Unused EXCEPT !.state = "whole", !.db = job[b].db,
                                  !.objects = job[b].got, !.manifest = TRUE]]
            /\ SetJob(b, [NoJob EXCEPT !.step = "renamed", !.name = job[b].name])
       ELSE SetJob(b, Failed) /\ UNCHANGED dirs

SyncParent(b) ==
    /\ JobStep(b, "renamed")
    /\ dirs' = [dirs EXCEPT ![job[b].name].synced = TRUE]
    /\ SetJob(b, [job[b] EXCEPT !.step = "done"])

\* The disk is full, the copy cap reached, the context cancelled, a sync fails.
FailBackup(b) ==
    /\ stage[b] = "running" /\ job[b].step \in {"none", "staged", "copying", "renamed"}
    /\ SetJob(b, Failed)
    /\ UNCHANGED dirs

WorkOnBackup(b) ==
    \/ StageDirectory(b) \/ Snapshot(b) \/ CopyObject(b)
    \/ Publish(b) \/ SyncParent(b)

----------------------------------------------------------------------------
(* Rotation *)

SetRota(h, r) == rota' = [rota EXCEPT ![h] = r]
RotaStep(h, step) == stage[h] = "running" /\ rota[h].step = step

\* lockBackupDestination
LockDestination(h) ==
    /\ h \in Scheduled /\ RotaStep(h, "none") /\ dest = Nil
    /\ dest' = h
    /\ SetRota(h, [NoRota EXCEPT !.step = "backup"])
    /\ UNCHANGED <<dirs, job>>

\* A backup starts: the server's by its timer, a command's once.
MayBackUp(b) ==
    LET h == Host[b] IN
    /\ job[b].step = "none"
    /\ h \in Scheduled => rota[h].step = "backup"

\* The marker is written when Backup has returned, and its locks are closed.
Mark(h) ==
    /\ RotaStep(h, "backup")
    /\ \E b \in Backups :
          /\ Host[b] = h /\ stage[b] = "idle" /\ job[b].step = "done"
          /\ dirs' = [dirs EXCEPT ![job[b].name].mark = "written"]
          /\ SetRota(h, [NoRota EXCEPT !.step = "marked", !.name = job[b].name])
    /\ UNCHANGED <<dest, job>>

SyncMark(h) ==
    /\ RotaStep(h, "marked")
    /\ dirs' = [dirs EXCEPT ![rota[h].name].mark = "synced"]
    /\ SetRota(h, [rota[h] EXCEPT !.step = "listing"])
    /\ UNCHANGED <<dest, job>>

\* scheduledSnapshots: marked for this instance, with a manifest that reads.
Snapshots == {n \in Names : dirs[n].mark # "none" /\ dirs[n].manifest}

\* Mutant: the newest names are kept, the backup just made among them or not.
KeepNewestNames(h) ==
    /\ RotaStep(h, "listing")
    /\ LET old == {n \in Snapshots : Cardinality({m \in Snapshots : m > n}) >= Keep}
       IN SetRota(h, [rota[h] EXCEPT !.step = "pruning", !.victims = IF Keep = 0 THEN {} ELSE old])
    /\ UNCHANGED <<dirs, dest, job>>

\* pruneScheduledBackups keeps the snapshot just made and the newest others.
ListSnapshots(h) ==
    /\ RotaStep(h, "listing")
    /\ LET older == Snapshots \ {rota[h].name}
           old == {n \in older : Cardinality({m \in older : m > n}) >= Keep - 1}
       IN SetRota(h, IF Keep = 0 THEN [rota[h] EXCEPT !.step = "pruning"]
                     ELSE IF rota[h].name \notin Snapshots
                          THEN [rota[h] EXCEPT !.step = "failed"]
                          ELSE [rota[h] EXCEPT !.step = "pruning", !.victims = old])
    /\ UNCHANGED <<dirs, dest, job>>

Oldest(S) == CHOOSE n \in S : \A m \in S : n <= m

\* RemoveAll of the oldest: its files go in no particular order...
RemoveSome(h) ==
    /\ RotaStep(h, "pruning") /\ rota[h].victims # {}
    /\ LET n == Oldest(rota[h].victims) IN
       /\ dirs[n].state = "whole"
       /\ \E manifest, mark \in BOOLEAN :
             dirs' = [dirs EXCEPT ![n].state = "partial", ![n].manifest = manifest,
                                  ![n].mark = IF mark THEN @ ELSE "none"]
    /\ UNCHANGED <<dest, rota, job>>

\* ... and in the end the directory.
RemoveRest(h) ==
    /\ RotaStep(h, "pruning") /\ rota[h].victims # {}
    /\ LET n == Oldest(rota[h].victims) IN
       /\ dirs[n].state # "whole"
       /\ dirs' = [dirs EXCEPT ![n] = [Unused EXCEPT !.state = "gone"]]
       /\ SetRota(h, [rota[h] EXCEPT !.victims = @ \ {n}])
    /\ UNCHANGED <<dest, job>>

\* A rotation stops at its first error.
FailRotation(h) ==
    /\ stage[h] = "running"
    /\ \/ rota[h].step \in {"marked", "listing", "pruning"}
       \/ /\ rota[h].step = "backup"
          /\ \E b \in Backups : Host[b] = h /\ stage[b] = "idle" /\ job[b].step = "failed"
    /\ SetRota(h, [rota[h] EXCEPT !.step = "failed"])
    /\ UNCHANGED <<dirs, dest, job>>

\* The destination's lock is closed last; the next run is another process.
UnlockDestination(h) ==
    /\ stage[h] = "running"
    /\ \/ rota[h].step = "failed"
       \/ rota[h].step = "pruning" /\ rota[h].victims = {}
    /\ dest' = Nil
    /\ SetRota(h, [NoRota EXCEPT !.step = "over"])
    /\ UNCHANGED <<dirs, job>>

Rotate(h) ==
    \/ LockDestination(h) \/ Mark(h) \/ SyncMark(h) \/ ListSnapshots(h)
    \/ RemoveSome(h) \/ RemoveRest(h) \/ UnlockDestination(h)

----------------------------------------------------------------------------
(* migrate-storage *)

MoveStep(m, step) == stage[m] = "running" /\ move[m].step = step

StartMove(m) ==
    /\ MoveStep(m, "none")
    /\ move' = [move EXCEPT ![m] = [step |-> "copying", left |-> Inventory(Live, copies)]]
    /\ UNCHANGED away

\* Mutant: an object that is already there is taken for the right one.
MoveUnlessThere(m) ==
    /\ MoveStep(m, "copying")
    /\ \E k \in move[m].left :
          /\ store[k] = "good"
          /\ away' = [away EXCEPT ![k] = IF @ = "none" THEN store[k] ELSE @]
          /\ move' = [move EXCEPT ![m].left = @ \ {k}]

\* CopyVerified into the other store: what an earlier run left there is
\* verified and kept, what differs is an error.
MoveObject(m) ==
    /\ MoveStep(m, "copying")
    /\ \E k \in move[m].left :
          LET readable == store[k] = "good" \/ (store[k] = "bad" /\ k[2] = "derived")
              skipped == store[k] = "none" /\ k[2] = "derived"
              same == away[k] \in {"none", store[k]}
          IN \/ /\ readable /\ same
                /\ away' = [away EXCEPT ![k] = store[k]]
                /\ move' = [move EXCEPT ![m].left = @ \ {k}]
             \/ /\ skipped /\ UNCHANGED away
                /\ move' = [move EXCEPT ![m].left = @ \ {k}]
             \/ /\ ~skipped /\ ~(readable /\ same) /\ UNCHANGED away
                /\ move' = [move EXCEPT ![m] = [NoMove EXCEPT !.step = "failed"]]

EndMove(m) ==
    /\ MoveStep(m, "copying") /\ move[m].left = {}
    /\ move' = [move EXCEPT ![m].step = "verified"]
    /\ UNCHANGED away

FailMove(m) ==
    /\ MoveStep(m, "copying")
    /\ move' = [move EXCEPT ![m] = [NoMove EXCEPT !.step = "failed"]]
    /\ UNCHANGED away

Moving(m) == StartMove(m) \/ MoveObject(m) \/ EndMove(m) \/ FailMove(m)

----------------------------------------------------------------------------
(* Restore, which needs no instance and takes no lock *)

Restorable(n) == dirs[n].manifest /\ Originals(dirs[n].db) \subseteq dirs[n].objects

\* readManifest, and the database checked against it (validateInventory).
StartRestore ==
    /\ restore.step # "reading"
    /\ \E n \in Names :
          /\ Restorable(n)
          /\ restore' = [step |-> "reading", name |-> n, db |-> dirs[n].db,
                         objects |-> dirs[n].objects]

\* Mutant: what was read is not held to the manifest's hashes.
PublishUnread ==
    /\ restore.step = "reading"
    /\ restore' = [restore EXCEPT !.step = "published",
                                  !.objects = @ \ dirs[restore.name].damaged]

\* Every entry of a manifest has a hash that what is copied must match.  The
\* copies may be ahead of a rotation that removes the directory.
PublishRestore ==
    /\ restore.step = "reading"
    /\ restore.objects \cap dirs[restore.name].damaged = {}
    /\ restore' = [restore EXCEPT !.step = "published"]

StopRestore ==
    /\ restore.step = "reading"
    /\ restore' = NoRestore

Restoring == StartRestore \/ PublishRestore \/ StopRestore

----------------------------------------------------------------------------
(* Processes end *)

\* What is left of a process that ends: a stage under a name nobody reads.
Forget(P) ==
    /\ target' = [d \in Deletions |-> IF Host[d] \in P THEN Nil ELSE target[d]]
    /\ job' = [b \in Backups |-> IF Host[b] \in P THEN NoJob ELSE job[b]]
    /\ rota' = [h \in Commands |-> IF h \in P THEN NoRota ELSE rota[h]]
    /\ move' = [m \in Offline |-> IF m \in P THEN NoMove ELSE move[m]]
    /\ dest' = IF dest \in P THEN Nil ELSE dest

\* Power fails: what was not synced may be lost.
PowerFails ==
    /\ faults < MaxFaults /\ faults' = faults + 1
    /\ held' = [l \in Locks |-> [a \in Actors |-> "none"]]
    /\ stage' = [a \in Actors |-> "idle"]
    /\ Forget(Processes)
    /\ \E lost \in SUBSET {n \in Names : dirs[n].state = "whole" /\ ~dirs[n].synced} :
       \E unmarked \in SUBSET {n \in Names : dirs[n].mark = "written"} :
          dirs' = [n \in Names |->
              IF n \in lost THEN [Unused EXCEPT !.state = "gone"]
              ELSE IF n \in unmarked THEN [dirs[n] EXCEPT !.mark = "none"]
              ELSE dirs[n]]
    /\ restore' = NoRestore
    /\ UNCHANGED <<data, away>>

\* A process has done what it was started for.
Finished(h) ==
    /\ h \in Scheduled => rota[h].step \in {"none", "over"}
    /\ h \in Offline => move[h].step \in {"verified", "failed"}

----------------------------------------------------------------------------
Init ==
    /\ LockInit
    /\ rows = [c \in Contents |-> "none"] /\ copies = {}
    /\ store = [k \in Objects |-> "none"]
    /\ target = [d \in Deletions |-> Nil]
    /\ job = [b \in Backups |-> NoJob]
    /\ dirs = [n \in Names |-> Unused]
    /\ dest = Nil
    /\ rota = [h \in Commands |-> NoRota]
    /\ move = [m \in Offline |-> NoMove]
    /\ away = [k \in Objects |-> "none"]
    /\ restore = NoRestore /\ faults = 0

Content ==
    /\ \/ \E c \in Contents : Upload(c) \/ Derive(c) \/ Discard(c)
       \/ \E d \in Deletions : DeleteObject(d)
    /\ UNCHANGED <<lockVars, target, job, dirs, dest, rota, migration, restore, faults>>

Damage ==
    \/ /\ \E k \in Objects : LoseObject(k)
       /\ UNCHANGED <<dirs, away>>
    \/ /\ \E k \in Objects : LoseMoved(k)
       /\ UNCHANGED <<data, dirs>>
    \/ /\ \E n \in Names : LoseCopy(n)
       /\ UNCHANGED <<data, away>>

Damaging ==
    /\ faults < MaxFaults /\ faults' = faults + 1
    /\ Damage
    /\ UNCHANGED <<lockVars, target, job, dest, rota, move, restore>>

Deleting ==
    \/ /\ \E d \in Deletions : StartDeletion(d)
       /\ UNCHANGED <<data, job, dirs, dest, rota, migration, restore, faults>>
    \/ /\ \E d \in Deletions : EndDeletion(d)
       /\ UNCHANGED <<store, job, dirs, dest, rota, migration, restore, faults>>

BackupWork(b) ==
    /\ WorkOnBackup(b) \/ FailBackup(b)
    /\ UNCHANGED <<lockVars, data, target, dest, rota, migration, restore, faults>>

RotationWork(h) ==
    /\ Rotate(h) \/ FailRotation(h)
    /\ UNCHANGED <<lockVars, data, target, migration, restore, faults>>

MoveWork(m) ==
    /\ Moving(m)
    /\ UNCHANGED <<lockVars, data, target, job, dirs, dest, rota, restore, faults>>

RestoreWork ==
    /\ Restoring
    /\ UNCHANGED <<lockVars, data, target, job, dirs, dest, rota, migration, faults>>

\* The steps of the locks, held back until the work under them is done.
Lock(a) ==
    /\ \/ a \notin Backups \cup Deletions /\ Enter(a)
       \/ a \in Backups /\ MayBackUp(a) /\ Enter(a)
       \/ TakeServerSlot(a) \/ TakeProcessSlot(a) \/ TakeOldSlot(a)
       \/ PinObjects(a) \/ ShareObjects(a) \/ TakeBackupSlot(a) \/ GiveUp(a)
       \/ a \in Backups /\ job[a].step \in {"done", "failed"} /\ Leave(a)
       \/ a \in Processes /\ Finished(a) /\ Leave(a)
       \/ a \in Deletions /\ Leave(a)
       \/ Release(a)
    /\ UNCHANGED <<data, target, job, dirs, dest, rota, migration, restore, faults>>

\* Backup returns; when it got no lock it did nothing.
EndBackup(b) ==
    /\ Exit(b)
    /\ SetJob(b, IF job[b].step = "none" THEN Failed ELSE job[b])
    /\ UNCHANGED <<data, target, dirs, dest, rota, migration, restore, faults>>

\* A server's next backup is another job.
NextJob(b) ==
    /\ Host[b] \in Servers /\ stage[b] = "idle" /\ job[b].step \in {"done", "failed"}
    /\ SetJob(b, NoJob)
    /\ UNCHANGED <<lockVars, data, target, dirs, dest, rota, migration, restore, faults>>

ProcessEnds(p) ==
    /\ p \in Processes
    /\ Exit(p) \/ Crash(p)
    /\ Forget({p})
    /\ UNCHANGED <<data, dirs, away, restore, faults>>

Next ==
    \/ Content \/ Damaging \/ Deleting \/ RestoreWork
    \/ \E b \in Backups : BackupWork(b) \/ EndBackup(b) \/ NextJob(b)
    \/ \E h \in Commands : RotationWork(h)
    \/ \E m \in Offline : MoveWork(m)
    \/ \E a \in Actors : Lock(a)
    \/ \E p \in Processes : ProcessEnds(p)
    \/ PowerFails

Spec == Init /\ [][Next]_vars

----------------------------------------------------------------------------
(* Properties *)

\* A directory under its published name holds every original that its database
\* refers to, with the recorded bytes, whenever the processes or the power
\* failed, until a rotation removes it (backup.go: "the output appears only
\* after every database, key and object check succeeds").
BackupsWhole ==
    \A n \in Names : dirs[n].state = "whole" => Originals(dirs[n].db) \subseteq dirs[n].objects

\* What a restore publishes has every original its database refers to, even
\* when the backup is rotated away or damaged while it is read.
RestoresWhole ==
    restore.step = "published" => Originals(restore.db) \subseteq restore.objects

\* When migrate-storage says it has verified everything, the other store holds
\* every original the database refers to, also when earlier runs were cut short
\* and left objects there (objects.go: CopyVerified).
MigrationWhole ==
    \A m \in Offline : MoveStep(m, "verified") =>
        \A c \in Live : away[Original(c)] = "good"

Current == {rota[h].name : h \in Commands}
Complete(n) == dirs[n].state = "whole" /\ dirs[n].mark # "none" /\ dirs[n].manifest

\* Rotation touches only marked backups; the one just made is there, complete,
\* and is not touched, whether the clock has moved back, an earlier rotation
\* died halfway or the power failed; and --keep others are newer than what is
\* touched or just made (rotation.go: pruneScheduledBackups).  These others are
\* what a rotation takes for backups: a directory an earlier rotation has begun
\* to remove is one of them while its marker and its manifest are there.
RotationKeepsNewest ==
    [][\A n \in Names : dirs[n].state = "whole" /\ dirs'[n].state # "whole" =>
          \/ ~dirs[n].synced /\ dirs'[n].state = "gone"
          \/ /\ dirs[n].mark # "none" /\ n \notin Current
             /\ \E m \in Names \cap Current : Complete(m)
             /\ Cardinality({m \in Snapshots \ {n} : m > n \/ m \in Current}) >= Keep]_vars
=============================================================================
