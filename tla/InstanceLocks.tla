---------------------------- MODULE InstanceLocks ----------------------------
(***************************************************************************)
(* The file locks that keep Imvault's processes out of each other's way.   *)
(* Every activity that touches the instance is an actor: servers, servers  *)
(* older than online backups, commands that work beside a server, offline  *)
(* maintenance, and, hosted by the process that runs them, backups and     *)
(* deletions of objects.  Each lock is a flock on a file beside the        *)
(* database; each attempt on one of them is a step, so two processes that  *)
(* start together interleave.                                              *)
(***************************************************************************)
EXTENDS Integers, Sequences

CONSTANTS
    Servers,      \* processes that run the server
    OldServers,   \* ... of a version that knows no online backup
    Commands,     \* create-admin, refresh-metadata, backup
    Offline,      \* migrate-storage, rebuild-thumbnails
    Backups,      \* activities that copy the instance
    Deletions,    \* activities that delete objects
    Host          \* the process an actor lives in

Processes == Servers \cup OldServers \cup Commands \cup Offline
Actors == Processes \cup Backups \cup Deletions
Hosted(p) == {a \in Actors : Host[a] = p}

ASSUME ActorsAssumption ==
    /\ Host \in [Actors -> Processes]
    /\ \A p \in Processes : Host[p] = p
    /\ \A b \in Backups : Host[b] \in Servers \cup Commands
    /\ \A d \in Deletions : Host[d] \in Servers
    /\ Servers \cap (OldServers \cup Commands \cup Offline) = {}
    /\ OldServers \cap (Commands \cup Offline) = {}
    /\ Commands \cap Offline = {}
    /\ Backups \cap (Processes \cup Deletions) = {}
    /\ Deletions \cap Processes = {}

\* <db>.maintenance.lock, and the same with .server, .server-current, .objects.
Locks == {"lifecycle", "server", "current", "objects"}
Modes == {"none", "shared", "exclusive"}
Stages == {"idle", "entered", "slotted", "pinned", "running", "closing"}

VARIABLES
    held,    \* how each actor holds each lock
    stage    \* how far it has come

lockVars == <<held, stage>>

----------------------------------------------------------------------------
(* flock *)

CanTake(l, mode) ==
    IF mode = "exclusive" THEN \A b \in Actors : held[l][b] = "none"
                          ELSE \A b \in Actors : held[l][b] # "exclusive"

Goto(a, next) == stage' = [stage EXCEPT ![a] = next]

Take(a, l, mode, next) ==
    /\ CanTake(l, mode)
    /\ held' = [held EXCEPT ![l][a] = mode]
    /\ Goto(a, next)

\* An actor that is refused gives back what it has.
Try(a, l, mode, next) ==
    \/ Take(a, l, mode, next)
    \/ ~CanTake(l, mode) /\ Goto(a, "closing") /\ UNCHANGED held

----------------------------------------------------------------------------
(* Acquire *)

\* Mutant: offline maintenance asks for the lifecycle lock like any command.
AlwaysShared(a) == "shared"

\* Everything but offline maintenance shares the lifecycle lock.
LifecycleMode(a) == IF a \in Offline THEN "exclusive" ELSE "shared"

\* Commands need no other lock.  An actor that is refused here holds nothing.
Enter(a) ==
    /\ stage[a] = "idle"
    /\ Host[a] = a \/ stage[Host[a]] = "running"
    /\ Take(a, "lifecycle", LifecycleMode(a),
            IF a \in Commands \cup Offline THEN "running" ELSE "entered")

\* AcquireServer: the slot older servers hold exclusively...
TakeServerSlot(s) ==
    /\ s \in Servers /\ stage[s] = "entered"
    /\ Try(s, "server", "shared", "slotted")

\* Mutant: the slot of current servers is shared too.
ProcessSlotShared(s) ==
    /\ s \in Servers /\ stage[s] = "slotted"
    /\ Try(s, "current", "shared", "running")

\* ... then the slot of current servers.
TakeProcessSlot(s) ==
    /\ s \in Servers /\ stage[s] = "slotted"
    /\ Try(s, "current", "exclusive", "running")

TakeOldSlot(o) ==
    /\ o \in OldServers /\ stage[o] = "entered"
    /\ Try(o, "server", "exclusive", "running")

\* Mutant: a backup shares the object lock, as a deletion does.
PinShared(b) ==
    /\ b \in Backups /\ stage[b] = "entered"
    /\ Take(b, "objects", "shared", "pinned")

\* AcquireSnapshot polls the object lock until its context ends.
PinObjects(b) ==
    /\ b \in Backups /\ stage[b] = "entered"
    /\ Take(b, "objects", "exclusive", "pinned")

ShareObjects(d) ==
    /\ d \in Deletions /\ stage[d] = "entered"
    /\ Take(d, "objects", "shared", "running")

GiveUp(a) ==
    /\ a \in Backups \cup Deletions /\ stage[a] = "entered"
    /\ Goto(a, "closing")
    /\ UNCHANGED held

\* Mutant: a backup that is refused the server slot returns without closing.
BackupSlotLeak(b) ==
    /\ b \in Backups /\ stage[b] = "pinned"
    /\ \/ Take(b, "server", "shared", "running")
       \/ ~CanTake("server", "shared") /\ Goto(b, "idle") /\ UNCHANGED held

\* AcquireBackup: what the older server holds, for the whole snapshot.
TakeBackupSlot(b) ==
    /\ b \in Backups /\ stage[b] = "pinned"
    /\ Try(b, "server", "shared", "running")

----------------------------------------------------------------------------
(* Close *)

\* A process waits for its backups; deletions may outlive their server's locks
\* until the process exits.
Leave(a) ==
    /\ stage[a] = "running"
    /\ \A b \in Backups : Host[b] = a => stage[b] = "idle"
    /\ Goto(a, "closing")
    /\ UNCHANGED held

CloseOrder == <<"server", "current", "objects", "lifecycle">>

\* Locks are closed one by one.
Release(a) ==
    /\ stage[a] = "closing"
    /\ \E i \in DOMAIN CloseOrder :
          /\ held[CloseOrder[i]][a] # "none"
          /\ \A j \in 1..(i - 1) : held[CloseOrder[j]][a] = "none"
          /\ held' = [held EXCEPT ![CloseOrder[i]][a] = "none"]
    /\ UNCHANGED stage

\* The operating system releases what a process still holds.
Die(p) ==
    /\ held' = [l \in Locks |->
                  [a \in Actors |-> IF a \in Hosted(p) THEN "none" ELSE held[l][a]]]
    /\ stage' = [a \in Actors |-> IF a \in Hosted(p) THEN "idle" ELSE stage[a]]

\* An activity is over, or the process returns from main.
Exit(a) ==
    /\ stage[a] = "closing"
    /\ \A l \in Locks : held[l][a] = "none"
    /\ IF a \in Processes THEN Die(a) ELSE Goto(a, "idle") /\ UNCHANGED held

Crash(p) ==
    /\ p \in Processes /\ stage[p] # "idle"
    /\ Die(p)

----------------------------------------------------------------------------
LockInit ==
    /\ held = [l \in Locks |-> [a \in Actors |-> "none"]]
    /\ stage = [a \in Actors |-> "idle"]

\* Starting and stopping, but for the point where the work is done.
Coming(a) ==
    \/ Enter(a)
    \/ TakeServerSlot(a) \/ TakeProcessSlot(a) \/ TakeOldSlot(a)
    \/ PinObjects(a) \/ ShareObjects(a) \/ TakeBackupSlot(a) \/ GiveUp(a)
Going(a) == Release(a) \/ Exit(a)

LockStep(a) == Coming(a) \/ Leave(a) \/ Going(a) \/ Crash(a)
LockNext == \E a \in Actors : LockStep(a)

\* Work under a backup's or a deletion's locks ends, and what ends closes its
\* locks.  A deletion polls every 100 ms, far more often than backups follow
\* one another, so it sees a moment between two of them.
LockFairness ==
    /\ \A b \in Backups :
          WF_lockVars(PinObjects(b) \/ TakeBackupSlot(b) \/ Leave(b) \/ Going(b))
    /\ \A d \in Deletions :
          /\ SF_lockVars(ShareObjects(d))
          /\ WF_lockVars(Leave(d) \/ Going(d))

LockSpec == LockInit /\ [][LockNext]_lockVars
FairLockSpec == LockSpec /\ LockFairness

----------------------------------------------------------------------------
(* Properties *)

LockTypeOK ==
    /\ held \in [Locks -> [Actors -> Modes]]
    /\ stage \in [Actors -> Stages]

\* What flock promises.
Exclusive ==
    \A l \in Locks : \A a, b \in Actors :
        a # b /\ held[l][a] = "exclusive" => held[l][b] = "none"

\* Past this point an actor has taken the lock, and has not begun to close.
Past(a, stages) == stage[a] \in stages

HoldsItsLocks(a) ==
    /\ Past(a, {"idle"}) => \A l \in Locks : held[l][a] = "none"
    /\ Past(a, {"entered", "slotted", "pinned", "running"}) =>
          held["lifecycle"][a] = LifecycleMode(a)
    /\ a \in Servers /\ Past(a, {"slotted", "running"}) => held["server"][a] = "shared"
    /\ a \in Servers /\ Past(a, {"running"}) => held["current"][a] = "exclusive"
    /\ a \in OldServers /\ Past(a, {"running"}) => held["server"][a] = "exclusive"
    /\ a \in Backups /\ Past(a, {"pinned", "running"}) => held["objects"][a] = "exclusive"
    /\ a \in Backups /\ Past(a, {"running"}) => held["server"][a] = "shared"
    /\ a \in Deletions /\ Past(a, {"running"}) => held["objects"][a] = "shared"

\* No path through the acquiring functions, failed or not, loses a lock: an
\* actor works under the locks it needs, and what has ended holds none.
LockInv == LockTypeOK /\ Exclusive /\ \A a \in Actors : HoldsItsLocks(a)

Running(A) == {a \in A : stage[a] = "running"}

\* While migrate-storage or rebuild-thumbnails runs, nothing else works on the
\* instance: no server, command, backup or deletion (lock.go: Acquire).
OfflineAlone ==
    \A o \in Running(Offline) : Running(Actors) = {o}

\* One server at a time, of whatever version: the two slots AcquireServer takes
\* exclude older and current servers alike, in whatever order they start.
OneServer ==
    \A s, t \in Running(Servers \cup OldServers) : s = t

\* Both of what the server lock is for: nothing runs beside offline work, and no
\* two servers run, in whatever order the processes start, refuse and die.
OneAtATime == OfflineAlone /\ OneServer

\* While a backup copies, no object is being deleted, no other backup copies
\* and no server runs that does not know the object lock, even one that starts
\* after the current server crashed (backup.go: AcquireBackup).
SnapshotsPinned ==
    \A b \in Running(Backups) :
        Running(Backups \cup Deletions \cup OldServers) = {b}

\* A deletion that waits for a backup goes on when the backup has ended,
\* whichever way it ended.
DeletionsResume ==
    \A d \in Deletions : stage[d] = "entered" ~> stage[d] # "entered"
=============================================================================
