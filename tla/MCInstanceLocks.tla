--------------------------- MODULE MCInstanceLocks ----------------------------
(* A small instance of InstanceLocks for TLC: two servers, an older one, a    *)
(* backup and a deletion in the first server, a backup command and offline    *)
(* maintenance.                                                               *)
EXTENDS InstanceLocks

CONSTANTS s1, s2, old, command, offline, auto, manual, sweep

HostOf ==
    [a \in Actors |-> CASE a = auto -> s1 [] a = sweep -> s1
                        [] a = manual -> command [] OTHER -> a]
=============================================================================
