------------------------------ MODULE MCBackup -------------------------------
(* A small instance of Backup for TLC: a server with a backup and a deletion  *)
(* of its own, and a backup command.                                          *)
EXTENDS Backup

CONSTANTS server, command, auto, manual, sweep, mover, c1

HostOf ==
    [a \in Actors |-> CASE a \in {auto, sweep} -> server
                        [] a = manual -> command [] OTHER -> a]
\* Four instances in one.  A busy one has one name left, and its content changes
\* while a backup copies; a quiet one has content, no server, and three backups to
\* rotate and restore; an empty one has a fourth backup to rotate, and none that
\* is worth restoring; a moving one has no names and is migrated.  The names that
\* are not theirs have been used up.
Spend(N) == dirs = [n \in Names |-> IF n \in N THEN [Unused EXCEPT !.state = "gone"] ELSE Unused]
Stored(C) ==
    /\ rows = [c \in Contents |-> IF c \in C THEN "live" ELSE "none"]
    /\ store = [k \in Objects |-> IF k \in Originals(C) THEN "good" ELSE "none"]
Moved == \A n \in Names : dirs[n].state = "gone"
Busy == \A n \in Names \ {0} : dirs[n].state = "gone"
InitEither ==
    /\ LockInit
    /\ \/ Spend(Names \ {0}) /\ Stored({})
       \/ Spend({0, 4}) /\ Stored({c1})
       \/ Spend({0}) /\ Stored({})
       \/ Spend(Names) /\ Stored({c1})
    /\ copies = {}
    /\ target = [d \in Deletions |-> Nil]
    /\ job = [b \in Backups |-> NoJob]
    /\ dest = Nil
    /\ rota = [h \in Commands |-> NoRota]
    /\ move = [m \in Offline |-> NoMove]
    /\ away = [k \in Objects |-> "none"]
    /\ restore = NoRestore /\ faults = 0

\* The server starts, again after a power failure, and does not stop: how it
\* does is MCInstanceLocks' question.
NextServing ==
    \/ Busy /\ (Content \/ Deleting)
    \/ Damaging \/ PowerFails
    \/ ~Busy /\ Live # {} /\ RestoreWork
    \/ \E b \in Backups : BackupWork(b) \/ EndBackup(b) \/ NextJob(b)
    \/ \E h \in Commands : RotationWork(h) \/ ProcessEnds(h)
    \/ \E m \in Offline : MoveWork(m) \/ ProcessEnds(m)
    \/ \E a \in Actors : Lock(a) /\ (a \in Servers => Busy /\ stage'[a] # "closing")
                          /\ (a \in Offline => Moved)
SpecServing == InitEither /\ [][NextServing]_vars
=============================================================================
