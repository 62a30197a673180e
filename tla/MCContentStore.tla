--------------------------- MODULE MCContentStore ---------------------------
(* Small instances of ContentStore for TLC. *)
EXTENDS ContentStore, TLC

CONSTANTS c1, c2, f1, f2, f3, f4, u1, u2, h1, h2, s1, s2

UnitSize == [c \in Contents |-> 1]
QuotaOfTwo == [u \in Users |-> 2]
AllSymmetry ==
    Permutations(Handlers) \cup Permutations(Contents)
        \cup Permutations(FileIds) \cup Permutations(Users)

\* While there is an account no copies of files are built and nobody changes the
\* rendition settings; once it is gone, which it may be at once, both happen.
EitherCopiesOrUploads ==
    accounts # {} =>
        /\ setting' = setting
        /\ \A p \in Handlers : task'[p].op # "copy"

\* An id is random and nothing depends on which it is: rows are named in the order
\* they are created.
IdsInOrder ==
    LET ids == <<f1, f2, f3, f4>> IN
    \A i \in 1..3 : files'[ids[i]].state = "unused" => files'[ids[i + 1]].state = "unused"

\* A backup's lock is taken when it matters: while somebody is about to delete.
PinDeletions ==
    /\ \E p \in Handlers : pc[p] \in {"erase", "unstore"}
    /\ PinObjects

\* What goes on while the server runs, without what lets an account's usage
\* drift (staff removals, recomputation) and without the offline rebuild.
NextServing ==
    /\ \/ \E p \in Handlers :
             \/ UploadStep(p) \/ ReleaseStep(p) \/ OwnerStep(p)
             \/ CleanupStep(p) \/ Abandon(p) \/ RecomputeBlobRefcounts(p)
       \/ RowStep
       \/ PinDeletions \/ UnpinObjects \/ Crash
    /\ IdsInOrder
SpecServing == Init /\ [][NextServing]_vars

FairServing == SpecServing /\ Fairness
=============================================================================
