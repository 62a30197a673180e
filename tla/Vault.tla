------------------------------- MODULE Vault --------------------------------
(***************************************************************************)
(* What the content store promises: a catalogue of files, each naming the  *)
(* content it was uploaded with, and the set of contents whose bytes are   *)
(* held.  Content may be held before any file names it and after the last  *)
(* one is gone, but is let go only while no file names it.                 *)
(***************************************************************************)
CONSTANTS Contents, FileIds, None

VARIABLES
    catalogue,  \* the content each file names, None for no such file
    held        \* contents whose bytes are in storage

vars == <<catalogue, held>>

Named == {catalogue[f] : f \in FileIds} \ {None}

Init ==
    /\ catalogue = [f \in FileIds |-> None]
    /\ held = {}

Keep(c) ==
    /\ held' = held \cup {c}
    /\ UNCHANGED catalogue

Enter(f, c) ==
    /\ catalogue[f] = None
    /\ c \in held
    /\ catalogue' = [catalogue EXCEPT ![f] = c]
    /\ UNCHANGED held

Remove(gone) ==
    /\ catalogue' = [f \in FileIds |-> IF f \in gone THEN None ELSE catalogue[f]]
    /\ UNCHANGED held

Release(c) ==
    /\ c \notin Named
    /\ held' = held \ {c}
    /\ UNCHANGED catalogue

Next ==
    \/ \E c \in Contents : Keep(c) \/ Release(c)
    \/ \E f \in FileIds, c \in Contents : Enter(f, c)
    \/ \E gone \in SUBSET FileIds : Remove(gone)

Spec == Init /\ [][Next]_vars

\* The bytes of every file in the catalogue are held.
Readable == Named \subseteq held
=============================================================================
