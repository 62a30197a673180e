---------------------------- MODULE ContentStore ----------------------------
(***************************************************************************)
(* The content-addressed store at the heart of Imvault: uploads that share *)
(* one copy of identical bytes, the file rows and the reference-counted    *)
(* blob records of the database, the objects of the storage backend, the   *)
(* quota reservations, and every path that removes a row or an object.     *)
(*                                                                         *)
(* A handler (an HTTP request, or the cleanup goroutine) runs one database *)
(* statement or one storage call per step, so the steps of two handlers    *)
(* interleave wherever the Go code lets them.  A database statement is     *)
(* atomic (SQLite, one connection).  `holder' is the per-content lock,     *)
(* `pinned' the object lock that a backup takes exclusively.               *)
(*                                                                         *)
(* A thumbnail and its preview are written, recorded and removed together: *)
(* they are one "rendition" object, named by the settings that made it.    *)
(***************************************************************************)
EXTENDS Integers, FiniteSets, FiniteSetsExt

CONSTANTS
    Contents,    \* distinct uploads, i.e. SHA-256 hashes
    FileIds,     \* row ids; a random id is never issued twice
    Users,       \* accounts
    Handlers,    \* requests and workers running at the same time
    Settings,    \* rendition settings (IMVAULT_THUMB_MAX and the like)
    CopyRoles,   \* metadata-filtered copies: "clean", "camera", "location"
    Size,        \* bytes of each content
    Quota,       \* users.quota_bytes, 0 for no quota
    TotalLimit,  \* policy MaxTotalBytes, 0 for no ceiling
    Faults,      \* which failures may happen, a subset of FaultKinds
    Anonymous,   \* the owner of an upload made without an account
    None         \* no value

\* "cancel": the request's context ends and every later call of it fails.
\* "save": a Save stores nothing and fails.  "sync": it fails after the rename.
\* "delete": some of a list of deletions fail.  "write": a database write
\* fails.  "read": a database read fails; "reread": the one that decides
\* whether a failed upload's objects are shared.  "crash": the process dies.
FaultKinds ==
    {"cancel", "save", "sync", "delete", "write", "read", "reread", "crash"}

ASSUME StoreAssumption ==
    /\ IsFiniteSet(FileIds) /\ IsFiniteSet(Handlers)
    /\ None \notin Contents /\ None \notin Users /\ None \notin Handlers
    /\ Anonymous \notin Users /\ Anonymous # None
    /\ Settings # {}
    /\ "original" \notin Settings /\ "rebuilt" \notin Settings
    /\ "original" \notin CopyRoles /\ "rebuilt" \notin CopyRoles
    /\ Settings \cap CopyRoles = {}
    /\ Size \in [Contents -> Nat \ {0}]
    /\ Quota \in [Users -> Nat]
    /\ TotalLimit \in Nat
    /\ Faults \subseteq FaultKinds

VARIABLES
    accounts,  \* rows of users
    used,      \* users.storage_used
    files,     \* rows of files
    blobs,     \* rows of blobs
    objects,   \* keys present in the storage backend
    setting,   \* the rendition settings the server runs with
    holder,    \* which handler holds the lock of a content
    pinned,    \* a backup holds the object lock
    pc,        \* what each handler does next
    task       \* the local variables of each handler

vars == <<accounts, used, files, blobs, objects, setting, holder, pinned, pc, task>>

db == <<accounts, used, files, blobs>>
env == <<setting, pinned>>

Owners == Users \cup {Anonymous}
Renditions == Settings \cup {"rebuilt"}
Roles == {"original"} \cup Renditions \cup CopyRoles
Keys == Contents \X Roles

\* A row is present while it names content.  A "live" row is neither trashed
\* nor past its deadline; an "overdue" one is past it: an anonymous upload
\* whose retention ended, or a trashed file older than the trash retention.
Unused == [state |-> "unused", sha |-> None, owner |-> None]
Deleted == [state |-> "deleted", sha |-> None, owner |-> None]
Row == {Unused, Deleted}
         \cup [state : {"live", "trashed", "overdue"}, sha : Contents, owner : Owners]

\* A blob row names its objects by role; a content without one has no roles.
Blob == [refcount : Int, roles : SUBSET Roles]
NoBlob == [refcount |-> 0, roles |-> {}]

Ops == {"none", "upload", "remove", "reap", "sweep", "copy", "serve"}
Labels ==
    {"idle", "waiting", "lookup", "reserve", "save", "renditions", "ensure",
     "record", "undo", "discard", "unstore", "deleteRow", "inspect", "erase",
     "drop", "refund", "reap", "scan", "build", "note", "open", "forget"}
Task == [op : Ops, sha : Contents \cup {None}, owner : Owners \cup {None},
         role : Roles \cup {None}, reuse : BOOLEAN, keys : SUBSET Keys,
         batch : SUBSET FileIds, orphans : SUBSET Contents]
NoTask == [op |-> "none", sha |-> None, owner |-> None, role |-> None,
           reuse |-> FALSE, keys |-> {}, batch |-> {}, orphans |-> {}]

----------------------------------------------------------------------------
(* The database *)

RowsOf(c) == {f \in FileIds : files[f].sha = c}
RowsOwned(u) == {f \in FileIds : files[f].owner = u}
Recorded(c) == "original" \in blobs[c].roles
\* Mutant: only a count below zero marks content as unreferenced.
OverdrawnOnly(c) == blobs[c].refcount < 0
Orphaned(c) == blobs[c].refcount <= 0
BlobKeys(c) == {c} \X blobs[c].roles
UploadKeys(c) == {c} \X {"original", setting}

Bytes(rows) == MapThenSumSet(LAMBDA f : Size[files[f].sha], rows)
Present == {f \in FileIds : files[f].sha # None}

\* The instance ceiling, measured over the files table.
CeilingAllows(c) == TotalLimit = 0 \/ Bytes(Present) + Size[c] <= TotalLimit

\* Whether ReserveStorage (and CheckQuota before it) accepts the claim.
Fits(u, c) ==
    /\ CeilingAllows(c)
    /\ u # Anonymous =>
         /\ u \in accounts
         /\ Quota[u] = 0 \/ used[u] + Size[c] <= Quota[u]

\* ReleaseStorage: clamped at zero, and nothing to do for an anonymous upload.
GiveBack(u, c) ==
    IF u \in accounts
    THEN [used EXCEPT ![u] = IF @ >= Size[c] THEN @ - Size[c] ELSE 0]
    ELSE used

\* Mutant: the trigger fires once per statement.
UncountedOnce(gone) ==
    [c \in Contents |->
        IF Recorded(c) /\ gone \cap RowsOf(c) # {}
        THEN [blobs[c] EXCEPT !.refcount = @ - 1]
        ELSE blobs[c]]

\* Deleting rows fires the refcount trigger once per row, cascades included.
Uncounted(gone) ==
    [c \in Contents |->
        IF Recorded(c)
        THEN [blobs[c] EXCEPT !.refcount = @ - Cardinality(gone \cap RowsOf(c))]
        ELSE blobs[c]]
DeleteRows(gone) ==
    /\ files' = [f \in FileIds |-> IF f \in gone THEN Deleted ELSE files[f]]
    /\ blobs' = Uncounted(gone)

----------------------------------------------------------------------------
(* Handlers *)

Goto(p, label) == pc' = [pc EXCEPT ![p] = label]

Unlocked(p) == [c \in Contents |-> IF holder[c] = p THEN None ELSE holder[c]]

\* The handler returns: its deferred unlock runs and its locals are gone.
Finish(p) ==
    /\ Goto(p, "idle")
    /\ task' = [task EXCEPT ![p] = NoTask]
    /\ holder' = Unlocked(p)

\* The next steps after releaseBlob returned.
Released(p, ok) ==
    /\ holder' = Unlocked(p)
    /\ \/ /\ task[p].op = "upload"
          /\ Goto(p, "idle")
          /\ task' = [task EXCEPT ![p] = NoTask]
       \/ /\ task[p].op \in {"remove", "reap"}
          /\ Goto(p, "refund")
          /\ UNCHANGED task
       \/ /\ task[p].op = "sweep" /\ ok
          /\ \E c \in task[p].orphans :
                /\ Goto(p, "waiting")
                /\ task' = [task EXCEPT ![p].sha = c, ![p].orphans = @ \ {c}]
       \/ /\ task[p].op = "sweep" /\ (~ok \/ task[p].orphans = {})
          /\ Goto(p, "idle")
          /\ task' = [task EXCEPT ![p] = NoTask]

AfterAcquire(op) ==
    CASE op = "upload" -> "lookup"
      [] op = "copy"   -> "build"
      [] OTHER         -> "inspect"

\* Mutant: the lock is taken without waiting for whoever holds it.
AcquireAtOnce(p) ==
    /\ pc[p] = "waiting"
    /\ holder' = [holder EXCEPT ![task[p].sha] = p]
    /\ Goto(p, AfterAcquire(task[p].op))
    /\ UNCHANGED <<db, objects, env, task>>

\* contentLocks.acquire: at most one handler per content.
AcquireContent(p) ==
    /\ pc[p] = "waiting"
    /\ holder[task[p].sha] = None
    /\ holder' = [holder EXCEPT ![task[p].sha] = p]
    /\ Goto(p, AfterAcquire(task[p].op))
    /\ UNCHANGED <<db, objects, env, task>>

\* The request's context ends: every later call of the handler, the ones that
\* would undo its work included, returns the context's error.
Abandon(p) ==
    /\ "cancel" \in Faults
    /\ pc[p] # "idle"
    /\ task[p].op # "reap"
    /\ Finish(p)
    /\ UNCHANGED <<db, objects, env>>

----------------------------------------------------------------------------
(* Uploads *)

\* Row ids not yet issued and not awaited by an upload: the bound on uploads.
IdsLeft ==
    Cardinality({f \in FileIds : files[f].state = "unused"})
        > Cardinality({p \in Handlers : task[p].op = "upload"})

\* ingest: the pre-flight quota check passes, then the bytes are hashed.
StartUpload(p, u, c) ==
    /\ pc[p] = "idle" /\ IdsLeft
    /\ Fits(u, c)
    /\ task' = [task EXCEPT ![p] = [NoTask EXCEPT !.op = "upload", !.sha = c, !.owner = u]]
    /\ Goto(p, "waiting")
    /\ UNCHANGED <<db, objects, env, holder>>

\* reusableUpload: some row has the same bytes, and its rendition is the one
\* the current settings would make, or a rebuilt one.
Reusable(c) ==
    /\ RowsOf(c) # {}
    /\ Recorded(c)
    /\ blobs[c].roles \cap {setting, "rebuilt"} # {}

LookUp(p) ==
    /\ pc[p] = "lookup"
    /\ \/ /\ Reusable(task[p].sha)
          /\ task' = [task EXCEPT ![p].reuse = TRUE]
       \/ /\ ~Reusable(task[p].sha) \/ "read" \in Faults
          /\ UNCHANGED task
    /\ Goto(p, "reserve")
    /\ UNCHANGED <<db, objects, env, holder>>

\* ProcessStill cannot decode the bytes: nothing has been written yet.
RefuseMedia(p) ==
    /\ pc[p] = "reserve" /\ ~task[p].reuse
    /\ Finish(p)
    /\ UNCHANGED <<db, objects, env>>

AfterReserve(p) == IF task[p].reuse THEN "record" ELSE "save"

\* Mutant: the claim trusts the check made before the bytes were hashed.
ReserveUnchecked(p) ==
    /\ pc[p] = "reserve"
    /\ used' = IF task[p].owner = Anonymous THEN used
               ELSE [used EXCEPT ![task[p].owner] = @ + Size[task[p].sha]]
    /\ Goto(p, AfterReserve(p))
    /\ UNCHANGED <<accounts, files, blobs, objects, env, holder, task>>

\* ReserveStorage: the check and the claim are one UPDATE.
Reserve(p) ==
    /\ pc[p] = "reserve"
    /\ \/ /\ task[p].owner = Anonymous
          /\ UNCHANGED used
       \/ /\ task[p].owner # Anonymous
          /\ Fits(task[p].owner, task[p].sha)
          /\ used' = [used EXCEPT ![task[p].owner] = @ + Size[task[p].sha]]
    /\ Goto(p, AfterReserve(p))
    /\ UNCHANGED <<accounts, files, blobs, objects, env, holder, task>>

RefuseReserve(p) ==
    /\ pc[p] = "reserve"
    /\ \/ task[p].owner # Anonymous /\ ~Fits(task[p].owner, task[p].sha)
       \/ "write" \in Faults
    /\ Finish(p)
    /\ UNCHANGED <<db, objects, env>>

\* Mutant: a handler that fails leaves what it stored behind.
FailAndLeave(p, keys) ==
    /\ Goto(p, "undo")
    /\ UNCHANGED task

\* A handler that fails gives its reservation back, and then discards `keys'.
FailWith(p, keys) ==
    /\ Goto(p, "undo")
    /\ task' = [task EXCEPT ![p].keys = keys]

\* storeObject: a failure here is not followed by discardFailedUpload.
SaveOriginal(p) ==
    LET key == <<task[p].sha, "original">> IN
    /\ pc[p] = "save"
    /\ \/ /\ objects' = objects \cup {key}
          /\ Goto(p, "renditions")
          /\ UNCHANGED task
       \/ /\ \/ "save" \in Faults /\ UNCHANGED objects
             \/ "sync" \in Faults /\ objects' = objects \cup {key}
          /\ FailWith(p, {})
    /\ UNCHANGED <<db, env, holder>>

SaveRenditions(p) ==
    LET key == <<task[p].sha, setting>> IN
    /\ pc[p] = "renditions"
    /\ \/ /\ objects' = objects \cup {key}
          /\ Goto(p, "ensure")
          /\ UNCHANGED task
       \/ /\ \/ "save" \in Faults /\ UNCHANGED objects
             \/ "sync" \in Faults /\ objects' = objects \cup {key}
          /\ FailWith(p, UploadKeys(task[p].sha))
    /\ UNCHANGED <<db, env, holder>>

\* storeVideo probes the clip after its original is stored; a clip that cannot
\* be probed is discarded by its original's key alone.
RefuseClip(p) ==
    /\ pc[p] = "renditions"
    /\ FailWith(p, {<<task[p].sha, "original">>})
    /\ UNCHANGED <<db, objects, env, holder>>

\* Mutant: ON CONFLICT DO NOTHING, an orphan's old keys included.
EnsuredOnce(c) ==
    IF ~Recorded(c)
    THEN [blobs EXCEPT ![c].roles = {"original", setting}]
    ELSE blobs

\* EnsureBlob: a new record, or new keys for a record nothing refers to.
Ensured(c) ==
    IF ~Recorded(c) \/ Orphaned(c)
    THEN [blobs EXCEPT ![c].roles = {"original", setting}]
    ELSE blobs

EnsureBlob(p) ==
    /\ pc[p] = "ensure"
    /\ \/ /\ blobs' = Ensured(task[p].sha)
          /\ Goto(p, "record")
          /\ UNCHANGED task
       \/ /\ "write" \in Faults
          /\ FailWith(p, UploadKeys(task[p].sha))
          /\ UNCHANGED blobs
    /\ UNCHANGED <<accounts, used, files, objects, env, holder>>

\* CreateFileWithLimit: the ceiling is part of the INSERT, the owner is a
\* foreign key, and the trigger counts the new reference.
CreateFile(p) ==
    LET c == task[p].sha IN
    /\ pc[p] = "record"
    /\ CeilingAllows(c)
    /\ task[p].owner \in accounts \cup {Anonymous}
    /\ \E f \in FileIds :
          /\ files[f].state = "unused"
          /\ files' = [files EXCEPT ![f] =
                [state |-> "live", sha |-> c, owner |-> task[p].owner]]
    /\ blobs' = IF Recorded(c) THEN [blobs EXCEPT ![c].refcount = @ + 1] ELSE blobs
    /\ Finish(p)
    /\ UNCHANGED <<accounts, used, objects, env>>

RefuseFile(p) ==
    LET c == task[p].sha IN
    /\ pc[p] = "record"
    /\ \/ ~CeilingAllows(c)
       \/ task[p].owner \notin accounts \cup {Anonymous}
       \/ "write" \in Faults
    /\ FailWith(p, IF task[p].reuse THEN {} ELSE UploadKeys(c))
    /\ UNCHANGED <<db, objects, env, holder>>

\* Mutant: a failed upload keeps its reservation.
UndoUnreleased(p) ==
    /\ pc[p] = "undo"
    /\ IF task[p].keys = {}
       THEN Finish(p)
       ELSE Goto(p, "discard") /\ UNCHANGED <<task, holder>>
    /\ UNCHANGED <<db, objects, env>>

Undo(p) ==
    /\ pc[p] = "undo"
    /\ \/ used' = GiveBack(task[p].owner, task[p].sha)
       \/ "write" \in Faults /\ UNCHANGED used
    /\ IF task[p].keys = {}
       THEN Finish(p)
       ELSE Goto(p, "discard") /\ UNCHANGED <<task, holder>>
    /\ UNCHANGED <<accounts, files, blobs, objects, env>>

\* discardFailedUpload: any error reading the record, not only "no such
\* record", leads to the deletion of the upload's keys.
Discard(p) ==
    LET c == task[p].sha IN
    /\ pc[p] = "discard"
    /\ \/ /\ Recorded(c) /\ ~Orphaned(c)
          /\ Finish(p)
       \/ /\ Recorded(c) /\ Orphaned(c)
          /\ Goto(p, "inspect")
          /\ UNCHANGED <<task, holder>>
       \/ /\ ~Recorded(c) \/ "reread" \in Faults
          /\ Goto(p, "unstore")
          /\ UNCHANGED <<task, holder>>
    /\ UNCHANGED <<db, objects, env>>

\* deleteKeys, under a shared object lock: which of the keys it removes.
Removable(keys) == IF "delete" \in Faults THEN SUBSET keys ELSE {keys}

Unstore(p) ==
    /\ pc[p] = "unstore" /\ ~pinned
    /\ \E gone \in Removable(task[p].keys) : objects' = objects \ gone
    /\ Finish(p)
    /\ UNCHANGED <<db, env>>

----------------------------------------------------------------------------
(* Releasing content *)

\* Mutant: a release does not look again whether the content is still unused.
InspectOnce(p) ==
    /\ pc[p] = "inspect"
    /\ Recorded(task[p].sha)
    /\ task' = [task EXCEPT ![p].keys = BlobKeys(task[p].sha)]
    /\ Goto(p, "erase")
    /\ UNCHANGED <<db, objects, env, holder>>

\* releaseBlobLocked reads the record and stops unless nothing refers to it.
Inspect(p) ==
    LET c == task[p].sha IN
    /\ pc[p] = "inspect"
    /\ \/ /\ ~Recorded(c) \/ ~Orphaned(c)
          /\ Released(p, TRUE)
       \/ /\ "read" \in Faults
          /\ Released(p, FALSE)
       \/ /\ Recorded(c) /\ Orphaned(c)
          /\ task' = [task EXCEPT ![p].keys = BlobKeys(c)]
          /\ Goto(p, "erase")
          /\ UNCHANGED holder
    /\ UNCHANGED <<db, objects, env>>

\* The record is kept until every one of its objects is gone.
Erase(p) ==
    /\ pc[p] = "erase" /\ ~pinned
    /\ \E gone \in Removable(task[p].keys) :
          /\ objects' = objects \ gone
          /\ IF gone = task[p].keys
             THEN Goto(p, "drop") /\ UNCHANGED <<task, holder>>
             ELSE Released(p, FALSE)
    /\ UNCHANGED <<db, env>>

\* DeleteBlobIfUnreferenced: the condition is part of the DELETE.
Dropped(c) == IF Orphaned(c) THEN [blobs EXCEPT ![c] = NoBlob] ELSE blobs

Drop(p) ==
    /\ pc[p] = "drop"
    /\ \/ blobs' = Dropped(task[p].sha) /\ Released(p, TRUE)
       \/ "write" \in Faults /\ UNCHANGED blobs /\ Released(p, FALSE)
    /\ UNCHANGED <<accounts, used, files, objects, env>>

\* The owner of a removed file gets the bytes back, whatever releaseBlob did.
Refund(p) ==
    /\ pc[p] = "refund"
    /\ \/ used' = GiveBack(task[p].owner, task[p].sha)
       \/ "write" \in Faults /\ UNCHANGED used
    /\ \/ /\ task[p].op = "remove"
          /\ Finish(p)
       \/ /\ task[p].op = "reap"
          /\ Goto(p, "reap")
          /\ UNCHANGED <<task, holder>>
    /\ UNCHANGED <<accounts, files, blobs, objects, env>>

----------------------------------------------------------------------------
(* Removing rows *)

\* What a handler that works on a file knows of it.
Working(op, f, role) ==
    [NoTask EXCEPT !.op = op, !.sha = files[f].sha, !.owner = files[f].owner,
                   !.role = role, !.batch = {f}]

\* Staff open a file (FileForModeration, trashed ones included) to remove it.
StartStaffRemoval(p, f) ==
    /\ pc[p] = "idle"
    /\ files[f].sha # None
    /\ task' = [task EXCEPT ![p] = Working("remove", f, None)]
    /\ Goto(p, "deleteRow")
    /\ UNCHANGED <<db, objects, env, holder>>

\* DeleteFile does not tell a row it removed from one that was already gone.
DeleteFile(p) ==
    /\ pc[p] = "deleteRow"
    /\ \/ /\ DeleteRows(task[p].batch)
          /\ Goto(p, "waiting")
          /\ UNCHANGED <<task, holder>>
       \/ /\ "write" \in Faults
          /\ Finish(p)
          /\ UNCHANGED <<files, blobs>>
    /\ UNCHANGED <<accounts, used, objects, env>>

\* The owner's own deletion is a move to the trash, and can be undone.
TrashFile(f) ==
    /\ files[f].state = "live" /\ files[f].owner \in Users
    /\ files' = [files EXCEPT ![f].state = "trashed"]
    /\ UNCHANGED <<accounts, used, blobs, objects, env, holder, pc, task>>

RestoreTrashedFile(f) ==
    /\ files[f].state = "trashed"
    /\ files' = [files EXCEPT ![f].state = "live"]
    /\ UNCHANGED <<accounts, used, blobs, objects, env, holder, pc, task>>

\* PurgeTrashedFile reads and deletes the trashed row in one transaction.
PurgeTrashedFile(p, f) ==
    /\ pc[p] = "idle"
    /\ files[f].state \in {"trashed", "overdue"} /\ files[f].owner \in Users
    /\ task' = [task EXCEPT ![p] = Working("remove", f, None)]
    /\ DeleteRows({f})
    /\ Goto(p, "waiting")
    /\ UNCHANGED <<accounts, used, objects, env, holder>>

\* Time passes a deadline: trash retention, or an anonymous upload's expiry.
Overdue == {f \in FileIds : files[f].state = "overdue"}
DeadlinePasses(f) ==
    /\ \/ files[f].state = "trashed"
       \/ files[f].state = "live" /\ files[f].owner = Anonymous
    /\ files' = [files EXCEPT ![f].state = "overdue"]
    /\ UNCHANGED <<accounts, used, blobs, objects, env, holder, pc, task>>

\* An administrator changes the anonymous window: every deadline is rewritten.
ApplyAnonymousRetention(late) ==
    /\ files' = [f \in FileIds |->
          IF files[f].owner # Anonymous THEN files[f]
          ELSE [files[f] EXCEPT !.state = IF f \in late THEN "overdue" ELSE "live"]]
    /\ files' # files
    /\ UNCHANGED <<accounts, used, blobs, objects, env, holder, pc, task>>

----------------------------------------------------------------------------
(* The cleanup worker, account deletion and the sweep *)

\* cleanupLoop: one pass at a time lists the overdue files...
StartCleanup(p) ==
    /\ pc[p] = "idle"
    /\ \A q \in Handlers : task[q].op # "reap"
    /\ task' = [task EXCEPT ![p] = [NoTask EXCEPT !.op = "reap", !.batch = Overdue]]
    /\ Goto(p, "reap")
    /\ UNCHANGED <<db, objects, env, holder>>

\* Mutant: the reaper deletes what it listed without checking again.
StillThere(f) == files[f].sha # None

\* ...and DeleteExpiredFile checks each deadline again as it deletes the row.
Expired(f) == files[f].state = "overdue"

ReapFile(p) ==
    /\ pc[p] = "reap"
    /\ \E f \in task[p].batch :
          \/ /\ Expired(f)
             /\ task' = [task EXCEPT ![p].sha = files[f].sha,
                                     ![p].owner = files[f].owner,
                                     ![p].batch = @ \ {f}]
             /\ DeleteRows({f})
             /\ Goto(p, "waiting")
          \/ /\ ~Expired(f) \/ "write" \in Faults
             /\ task' = [task EXCEPT ![p].batch = @ \ {f}]
             /\ UNCHANGED <<files, blobs, pc>>
    /\ UNCHANGED <<accounts, used, objects, env, holder>>

FinishReaping(p) ==
    /\ pc[p] = "reap" /\ task[p].batch = {}
    /\ task' = [task EXCEPT ![p] = [NoTask EXCEPT !.op = "sweep"]]
    /\ Goto(p, "scan")
    /\ UNCHANGED <<db, objects, env, holder>>

\* DeleteUser: the rows of the account's files go with it by cascade.
DeleteAccount(p, u) ==
    /\ pc[p] = "idle"
    /\ u \in accounts
    /\ accounts' = accounts \ {u}
    /\ used' = [used EXCEPT ![u] = 0]
    /\ DeleteRows(RowsOwned(u))
    /\ task' = [task EXCEPT ![p] = [NoTask EXCEPT !.op = "sweep"]]
    /\ Goto(p, "scan")
    /\ UNCHANGED <<objects, env, holder>>

\* handleAdminRecomputeBlobs: counts are recomputed, then the sweep runs.
RecomputeBlobRefcounts(p) ==
    /\ pc[p] = "idle"
    /\ blobs' = [c \in Contents |->
          IF Recorded(c) THEN [blobs[c] EXCEPT !.refcount = Cardinality(RowsOf(c))]
          ELSE blobs[c]]
    /\ task' = [task EXCEPT ![p] = [NoTask EXCEPT !.op = "sweep"]]
    /\ Goto(p, "scan")
    /\ UNCHANGED <<accounts, used, files, objects, env, holder>>

\* sweepOrphanedBlobs: the first failure ends it.
Orphans == {c \in Contents : Recorded(c) /\ Orphaned(c)}

Scan(p) ==
    /\ pc[p] = "scan"
    /\ \/ \E c \in Orphans :
             /\ task' = [task EXCEPT ![p].sha = c, ![p].orphans = Orphans \ {c}]
             /\ Goto(p, "waiting")
             /\ UNCHANGED holder
       \/ /\ Orphans = {} \/ "read" \in Faults
          /\ Finish(p)
    /\ UNCHANGED <<db, objects, env>>

\* handleAdminRecomputeStorage: usage becomes what the files table adds up to.
RecomputeStorageUsage ==
    /\ used' = [u \in Users |-> Bytes(RowsOwned(u))]
    /\ UNCHANGED <<accounts, files, blobs, objects, env, holder, pc, task>>

----------------------------------------------------------------------------
(* Reading: renditions, originals and filtered copies *)

\* A request loads a file and serves one of the objects its content names; of a
\* trashed one, its owner the thumbnail (handleTrashThumb).
StartServe(p, f, r) ==
    /\ pc[p] = "idle"
    /\ \/ files[f].state = "live"
       \/ files[f].state = "trashed" /\ r # "original"
    /\ r \in blobs[files[f].sha].roles \ CopyRoles
    /\ task' = [task EXCEPT ![p] = Working("serve", f, r)]
    /\ Goto(p, "open")
    /\ UNCHANGED <<db, objects, env, holder>>

\* scopedObjectKey: the policy asks for a filtered copy instead.
StartCopy(p, f, r) ==
    /\ pc[p] = "idle"
    /\ files[f].state = "live"
    /\ task' = [task EXCEPT ![p] = Working("copy", f, r)]
    /\ Goto(p, "waiting")
    /\ UNCHANGED <<db, objects, env, holder>>

\* cleanObject trusts a recorded key, filteredObject looks for the object too.
CopyKnown(c, r) ==
    r \in blobs[c].roles /\ (r = "clean" \/ <<c, r>> \in objects)

\* The copy's request goes on to serve it once the lock is released.
ServeCopy(p) ==
    /\ holder' = Unlocked(p)
    /\ Goto(p, "open")
    /\ UNCHANGED task

BuildCopy(p) ==
    LET c == task[p].sha  r == task[p].role IN
    /\ pc[p] = "build"
    /\ \/ /\ Recorded(c) /\ CopyKnown(c, r)
          /\ ServeCopy(p)
          /\ UNCHANGED objects
       \/ /\ Recorded(c) /\ ~CopyKnown(c, r)
          /\ <<c, "original">> \in objects
          /\ objects' = objects \cup {<<c, r>>}
          /\ Goto(p, "note")
          /\ UNCHANGED <<task, holder>>
    /\ UNCHANGED <<db, env>>

\* No record, no original, or the copy cannot be made: nothing is served.
RefuseCopy(p) ==
    LET c == task[p].sha  r == task[p].role IN
    /\ pc[p] = "build"
    /\ ~(Recorded(c) /\ CopyKnown(c, r))
    /\ \/ "sync" \in Faults /\ objects' = objects \cup {<<c, r>>}
       \/ UNCHANGED objects
    /\ Finish(p)
    /\ UNCHANGED <<db, env>>

\* SetBlobCleanKey and SetBlobFilteredKey, after the bytes are stored.
Noted(c, r) ==
    IF Recorded(c) THEN [blobs EXCEPT ![c].roles = @ \cup {r}] ELSE blobs

NoteCopy(p) ==
    /\ pc[p] = "note"
    /\ \/ blobs' = Noted(task[p].sha, task[p].role) /\ ServeCopy(p)
       \/ "write" \in Faults /\ UNCHANGED blobs /\ Finish(p)
    /\ UNCHANGED <<accounts, used, files, objects, env>>

\* serveObject: a missing object other than the original makes it forget the
\* copies, without the content lock.
OpenObject(p) ==
    LET key == <<task[p].sha, task[p].role>> IN
    /\ pc[p] = "open"
    /\ \/ /\ key \in objects \/ task[p].role = "original"
          /\ Finish(p)
       \/ /\ key \notin objects /\ task[p].role # "original"
          /\ Goto(p, "forget")
          /\ UNCHANGED <<task, holder>>
    /\ UNCHANGED <<db, objects, env>>

ForgetCopies(p) ==
    /\ pc[p] = "forget"
    /\ \/ blobs' = [blobs EXCEPT ![task[p].sha].roles = @ \ CopyRoles]
       \/ "write" \in Faults /\ UNCHANGED blobs
    /\ Finish(p)
    /\ UNCHANGED <<accounts, used, files, objects, env>>

----------------------------------------------------------------------------
(* The process and its surroundings *)

\* A backup takes the object lock exclusively, and lets it go.
PinObjects ==
    /\ ~pinned
    /\ pinned' = TRUE
    /\ UNCHANGED <<db, objects, setting, holder, pc, task>>

UnpinObjects ==
    /\ pinned
    /\ pinned' = FALSE
    /\ UNCHANGED <<db, objects, setting, holder, pc, task>>

\* The process dies and is started again: locks and locals are gone.
Crash ==
    /\ "crash" \in Faults
    /\ \E p \in Handlers : pc[p] # "idle"
    /\ holder' = [c \in Contents |-> None]
    /\ pc' = [p \in Handlers |-> "idle"]
    /\ task' = [p \in Handlers |-> NoTask]
    /\ UNCHANGED <<db, objects, env>>

\* The server is restarted, between requests, with other rendition settings.
Reconfigure(s) ==
    /\ \A p \in Handlers : pc[p] = "idle"
    /\ s # setting
    /\ setting' = s
    /\ UNCHANGED <<db, objects, pinned, holder, pc, task>>

\* `imvault rebuild-thumbnails', with the server stopped: the rebuilt rendition is
\* stored, published, and only then is the one it replaces removed.
Regenerate(c) ==
    LET key == <<c, "rebuilt">>
        old == {c} \X (blobs[c].roles \cap Settings)
    IN
    /\ \A p \in Handlers : pc[p] = "idle"
    /\ ~pinned
    /\ Recorded(c) /\ ~Orphaned(c)
    /\ \/ /\ \/ objects' = (objects \cup {key}) \ old
             \/ "delete" \in Faults /\ objects' = objects \cup {key}
          /\ blobs' = [blobs EXCEPT ![c].roles = (@ \ Settings) \cup {"rebuilt"}]
       \/ /\ "write" \in Faults
          /\ objects' = objects \cup {key}
          /\ UNCHANGED blobs
    /\ UNCHANGED <<accounts, used, files, env, holder, pc, task>>

----------------------------------------------------------------------------
(* The specification *)

Init ==
    /\ accounts = Users
    /\ used = [u \in Users |-> 0]
    /\ files = [f \in FileIds |-> Unused]
    /\ blobs = [c \in Contents |-> NoBlob]
    /\ objects = {}
    /\ setting \in Settings
    /\ holder = [c \in Contents |-> None]
    /\ pinned = FALSE
    /\ pc = [p \in Handlers |-> "idle"]
    /\ task = [p \in Handlers |-> NoTask]

UploadStep(p) ==
    \/ \E c \in Contents, u \in accounts \cup {Anonymous} : StartUpload(p, u, c)
    \/ LookUp(p) \/ RefuseMedia(p) \/ Reserve(p) \/ RefuseReserve(p)
    \/ SaveOriginal(p) \/ SaveRenditions(p) \/ RefuseClip(p)
    \/ EnsureBlob(p) \/ CreateFile(p) \/ RefuseFile(p)
    \/ Undo(p) \/ Discard(p) \/ Unstore(p)

ReleaseStep(p) ==
    \/ AcquireContent(p) \/ Inspect(p) \/ Erase(p) \/ Drop(p) \/ Refund(p)

StaffStep(p) ==
    \/ \E f \in FileIds : StartStaffRemoval(p, f)
    \/ DeleteFile(p)

OwnerStep(p) ==
    \/ \E f \in FileIds : PurgeTrashedFile(p, f)
    \/ \E u \in Users : DeleteAccount(p, u)

CleanupStep(p) ==
    \/ StartCleanup(p) \/ ReapFile(p) \/ FinishReaping(p) \/ Scan(p)

ReadStep(p) ==
    \/ \E f \in FileIds, r \in Roles : StartServe(p, f, r)
    \/ \E f \in FileIds, r \in CopyRoles : StartCopy(p, f, r)
    \/ BuildCopy(p) \/ RefuseCopy(p) \/ NoteCopy(p)
    \/ OpenObject(p) \/ ForgetCopies(p)

\* Statements that touch a row's trash state or deadline and nothing else.
RowStep ==
    \/ \E f \in FileIds : TrashFile(f) \/ RestoreTrashedFile(f) \/ DeadlinePasses(f)
    \/ \E late \in SUBSET FileIds : ApplyAnonymousRetention(late)

ServerStep ==
    \/ PinObjects \/ UnpinObjects \/ Crash
    \/ \E s \in Settings : Reconfigure(s)
    \/ \E c \in Contents : Regenerate(c)

HandlerStep(p) ==
    \/ UploadStep(p) \/ ReleaseStep(p) \/ StaffStep(p) \/ OwnerStep(p)
    \/ CleanupStep(p) \/ ReadStep(p) \/ Abandon(p) \/ RecomputeBlobRefcounts(p)

Next ==
    \/ \E p \in Handlers : HandlerStep(p)
    \/ RowStep
    \/ ServerStep
    \/ RecomputeStorageUsage

Spec == Init /\ [][Next]_vars

----------------------------------------------------------------------------
(* Properties *)

\* Every variable keeps to the shape of the tables, keys and locals it models:
\* a row is issued once, and one that is gone stays gone.  (What `used' may
\* hold is UsageExact's to say.)
TypeOK ==
    /\ accounts \subseteq Users
    /\ DOMAIN used = Users
    /\ files \in [FileIds -> Row]
    /\ blobs \in [Contents -> Blob]
    /\ objects \subseteq Keys
    /\ setting \in Settings
    /\ holder \in [Contents -> Handlers \cup {None}]
    /\ pinned \in BOOLEAN
    /\ pc \in [Handlers -> Labels]
    /\ task \in [Handlers -> Task]

\* The reference count the triggers keep equals the number of rows naming the
\* content, and no row names content without a record (migration 011).
RefcountsExact ==
    \A c \in Contents :
        /\ Recorded(c) => blobs[c].refcount = Cardinality(RowsOf(c))
        /\ ~Recorded(c) => RowsOf(c) = {}

\* Every row's bytes, renditions and recorded copies are in storage: no
\* deletion, failed upload or sweep takes content that a file still names,
\* which is what discardFailedUpload and releaseBlob are careful about.
FilesReadable ==
    \A c \in Contents : RowsOf(c) # {} => BlobKeys(c) \subseteq objects

\* A request that goes to open an object of a file that still exists finds it.
ServedIfPresent ==
    \A p \in Handlers : pc[p] = "open" =>
        \A f \in task[p].batch :
            files[f].sha # None => <<task[p].sha, task[p].role>> \in objects

\* A live file disappears only when staff remove it or its account goes:
\* neither the reaper nor a purge takes a file that was restored, or given a
\* later deadline, since it was listed.
LiveFilesStay ==
    [][\A f \in FileIds :
          files[f].state = "live" /\ files'[f].sha = None =>
             \/ files[f].owner \in accounts \ accounts'
             \/ \E p \in Handlers : task[p].op = "remove" /\ f \in task[p].batch]_vars

\* Bytes claimed for an upload not yet recorded, or not yet given back after a
\* row was removed.
Claimed(p) ==
    \/ task[p].op = "upload" /\ pc[p] \in {"save", "renditions", "ensure", "record", "undo"}
    \/ task[p].op \in {"remove", "reap"}
       /\ pc[p] \in {"waiting", "inspect", "erase", "drop", "refund"}
ClaimedFor(u) ==
    MapThenSumSet(LAMBDA p : Size[task[p].sha],
                  {p \in Handlers : task[p].owner = u /\ Claimed(p)})

\* While every statement succeeds storage_used is exactly the account's files
\* and its claims in flight: nothing is released twice, and no reservation
\* outlives its upload (migration 004: reserved atomically on upload, released
\* on delete).
UsageExact ==
    \A u \in accounts : used[u] = Bytes(RowsOwned(u)) + ClaimedFor(u)

\* What makes usage drift, and an administrator recompute it: two removals of
\* one file, since DeleteFile does not say whether there was a row to delete and
\* each gives its bytes back, and a recomputation that comes between a claim and
\* its file.  A calm step is neither.
Calm ==
    /\ \A p \in Handlers : pc[p] = "deleteRow" /\ pc'[p] = "waiting" =>
          \A f \in task[p].batch : files[f].sha # None
    /\ RecomputeStorageUsage => \A p \in Handlers : ~Claimed(p)

\* No account's files exceed its quota, and the files table never exceeds the
\* instance ceiling, however many uploads were admitted at the same time.
WithinCeiling == TotalLimit > 0 => Bytes(Present) <= TotalLimit
WithinQuotas == \A u \in accounts : Quota[u] > 0 => Bytes(RowsOwned(u)) <= Quota[u]
LimitsHold == WithinCeiling /\ WithinQuotas

\* While no handler is at work on a content, every object stored for it is
\* named by its record, and so will be removed with it.
NoStrayObjects ==
    \A c \in Contents : holder[c] = None =>
        \A r \in Roles : <<c, r>> \in objects => r \in blobs[c].roles

\* What leaves an object no record names although nothing failed: an upload that
\* stores a rendition its content's record does not name, one whose EnsureBlob
\* replaces the keys of a record nothing refers to, and a reader that forgets
\* copies which are in storage.  A tidy step does none of it.
Tidy ==
    \A p \in Handlers : LET c == task[p].sha IN
        /\ pc[p] = "renditions" /\ pc'[p] = "ensure" /\ Recorded(c) =>
              setting \in blobs[c].roles
        /\ pc[p] = "ensure" /\ pc'[p] = "record" /\ Recorded(c) /\ Orphaned(c) =>
              blobs[c].roles \subseteq {"original", setting}
        /\ pc[p] = "forget" /\ pc'[p] = "idle" =>
              \A r \in CopyRoles : <<c, r>> \notin objects

----------------------------------------------------------------------------
(* The inductive invariant: what makes the store's promises inductive is what *)
(* each handler may rely on between two of its own steps.                     *)

\* The labels at which a handler holds the lock of its content.
Locked ==
    {"lookup", "reserve", "save", "renditions", "ensure", "record", "undo",
     "discard", "unstore", "inspect", "erase", "drop", "build", "note"}

\* What a handler's locals hold at each label.
LocalsFit(label, t) ==
    /\ label \in Locked \cup {"waiting", "deleteRow", "open", "forget"}
          => t.sha \in Contents
    /\ label \in {"undo", "discard", "unstore", "erase"}
          => t.keys \subseteq {t.sha} \X Roles
    /\ label = "lookup" => t.op = "upload"
    /\ label \in {"build", "note"} => t.op = "copy"
    /\ t.op = "copy" => t.role \in CopyRoles
    /\ t.reuse => /\ t.op = "upload"
                  /\ label \notin {"waiting", "lookup", "deleteRow", "reap", "scan"}

HandlersOK ==
    /\ holder \in [Contents -> Handlers \cup {None}]
    /\ pc \in [Handlers -> Labels]
    /\ task \in [Handlers -> Task]
    /\ \A p \in Handlers : LocalsFit(pc[p], task[p])

TypeInv == TypeOK /\ HandlersOK

LocksHeld ==
    \A p \in Handlers : pc[p] \in Locked => holder[task[p].sha] = p

\* A content without a record has neither a count nor keys.
RecordsWhole == \A c \in Contents : ~Recorded(c) => blobs[c] = NoBlob

\* A content whose row is about to be written has a record to count it.
Countable(p) ==
    (pc[p] = "reserve" /\ task[p].reuse) \/ pc[p] = "record"
        => Recorded(task[p].sha)

CountInv ==
    /\ LocksHeld
    /\ RecordsWhole
    /\ RefcountsExact
    /\ \A p \in Handlers : Countable(p)

\* What a handler found in storage, or put there, stays while it has the lock.
Complete(c) == BlobKeys(c) \subseteq objects

Relied(p) ==
    LET c == task[p].sha IN
    /\ pc[p] = "reserve" /\ task[p].reuse => Complete(c)
    /\ pc[p] = "renditions" => <<c, "original">> \in objects
    /\ pc[p] = "ensure" => UploadKeys(c) \subseteq objects
    /\ pc[p] = "record" => Complete(c)
    /\ pc[p] = "unstore" => ~Recorded(c)
    /\ pc[p] = "erase" => RowsOf(c) = {}
    /\ pc[p] = "note" => <<c, task[p].role>> \in objects

ObjectInv ==
    /\ FilesReadable
    /\ \A p \in Handlers : Relied(p)

\* What a handler has yet to do follows from where it is: only an upload reserves,
\* stores and undoes, and only the removal of a row gives bytes back.
Errand(label, t) ==
    /\ label \in {"reserve", "save", "renditions", "ensure", "record", "undo",
                  "discard", "unstore"} => t.op = "upload"
    /\ label = "refund" => t.op \in {"remove", "reap"} /\ t.sha \in Contents

\* Staff who are about to delete a row know whose it is, if it is still there.
AboutToDelete(p) ==
    pc[p] = "deleteRow" => \E f \in FileIds :
        /\ task[p].batch = {f}
        /\ files[f].state # "unused"
        /\ files[f].sha # None =>
             files[f].sha = task[p].sha /\ files[f].owner = task[p].owner

Errands == \A p \in Handlers : Errand(pc[p], task[p]) /\ AboutToDelete(p)

\* An account's usage covers its files and its claims, and keeps to its quota; if
\* nothing cuts a handler short or fails to write, it covers nothing else.
UsageInv ==
    \A u \in accounts :
        /\ used[u] \in Nat
        /\ Bytes(RowsOwned(u)) + ClaimedFor(u) <= used[u]
        /\ Quota[u] > 0 => used[u] <= Quota[u]
        /\ Faults \cap {"cancel", "write", "crash"} = {} =>
             used[u] = Bytes(RowsOwned(u)) + ClaimedFor(u)

\* What is stored for a content and named by no record.
Strays(c) == {r \in Roles : <<c, r>> \in objects} \ blobs[c].roles

\* Whoever holds a content's lock is at work on it, and accounts for its strays:
\* he has the objects he stored still to record, or to discard.
HoldersWork ==
    \A c \in Contents : holder[c] # None =>
        pc[holder[c]] \in Locked /\ task[holder[c]].sha = c

Accounted(p) ==
    LET c == task[p].sha IN
    /\ pc[p] \in {"lookup", "reserve", "save", "record", "inspect", "erase", "build"} =>
          Strays(c) = {}
    /\ pc[p] = "renditions" => Strays(c) \subseteq {"original"}
    /\ pc[p] = "ensure" =>
          /\ Strays(c) \subseteq {"original", setting}
          /\ Recorded(c) => setting \in blobs[c].roles
    /\ pc[p] \in {"undo", "discard", "unstore"} => {c} \X Strays(c) \subseteq task[p].keys
    /\ pc[p] \in {"undo", "discard"} /\ Recorded(c) => Strays(c) = {}
    /\ pc[p] = "erase" => BlobKeys(c) \subseteq task[p].keys
    /\ pc[p] = "drop" => \A r \in Roles : <<c, r>> \notin objects
    /\ pc[p] = "note" => Recorded(c) /\ Strays(c) \subseteq {task[p].role}

StrayInv == HoldersWork /\ NoStrayObjects /\ \A p \in Handlers : Accounted(p)

----------------------------------------------------------------------------
(* The store implements the vault: what each row names, and whose original *)
(* is in storage. *)

V == INSTANCE Vault WITH
        catalogue <- [f \in FileIds |-> files[f].sha],
        held <- {c \in Contents : <<c, "original">> \in objects}

\* Every step of every handler is one step of the vault or none of it: no
\* deletion, failed upload or sweep lets go of bytes that a file names, and no
\* file is recorded before its bytes are held.
ImplementsVault == V!Spec

----------------------------------------------------------------------------
(* Fairness: a goroutine that can run does; a Go channel serves its waiters  *)
(* in turn, so a handler is not passed over for a content lock for ever; the *)
(* cleanup ticker keeps starting passes; a backup ends.                      *)

Runs(p) ==
    \/ LookUp(p) \/ Reserve(p) \/ RefuseReserve(p)
    \/ SaveOriginal(p) \/ SaveRenditions(p) \/ EnsureBlob(p)
    \/ CreateFile(p) \/ RefuseFile(p) \/ Undo(p) \/ Discard(p)
    \/ Inspect(p) \/ Drop(p) \/ Refund(p) \/ DeleteFile(p)
    \/ ReapFile(p) \/ FinishReaping(p) \/ Scan(p)
    \/ BuildCopy(p) \/ RefuseCopy(p) \/ NoteCopy(p)
    \/ OpenObject(p) \/ ForgetCopies(p)

Fairness ==
    /\ \A p \in Handlers :
          /\ WF_vars(Runs(p))
          /\ SF_vars(AcquireContent(p))
          /\ SF_vars(Erase(p) \/ Unstore(p))
    /\ SF_vars(\E p \in Handlers : StartCleanup(p))
    /\ WF_vars(UnpinObjects)

\* Bytes in storage that no file names are filed by the upload that brought
\* them or removed in the end, by whoever took the last file or by the sweep.
UnfiledBytesGo ==
    \A c \in Contents :
        (RowsOf(c) = {} /\ \E r \in Roles : <<c, r>> \in objects)
            ~> (RowsOf(c) # {} \/ \A r \in Roles : <<c, r>> \notin objects)
=============================================================================
