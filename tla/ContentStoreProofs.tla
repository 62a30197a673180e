------------------------ MODULE ContentStoreProofs -------------------------
(***************************************************************************)
(* Proofs about the content store, for every set of contents, rows,        *)
(* accounts and handlers and any choice of failures.  Four layers, each    *)
(* inductive given the ones before it: the shape of the state (TypeInv),   *)
(* the locks and the reference counts (CountInv), the objects (ObjectInv), *)
(* and the refinement of the vault.  On these rest further parts: what a   *)
(* handler is for (Purposes), by which live files keep their rows; what is *)
(* being served (ServeInv), by which readers find what they open; what     *)
(* each handler has yet to do (Errands) and each account is charged        *)
(* (UsageInv), by which quotas and the instance ceiling hold; and what     *)
(* each handler has stored and not recorded (StrayInv), by which no object *)
(* is left that no record names.                                           *)
(***************************************************************************)
EXTENDS ContentStore, FiniteSetTheorems, WellFoundedInduction, TLAPS

\* The values the actions write are of their types.
LEMMA Typed == NoTask \in Task /\ ~NoTask.reuse /\ Unused \in Row /\ NoBlob \in Blob
<1>1. NoTask \in Task /\ ~NoTask.reuse
  BY DEF NoTask, Task, Ops
<1>2. Unused \in Row
  BY DEF Row
<1>3. NoBlob \in Blob
  BY DEF NoBlob, Blob
<1> QED BY <1>1, <1>2, <1>3

\* The server starts with well-formed tables and idle handlers.
LEMMA InitType == Init => TypeInv
<1> SUFFICES ASSUME Init PROVE TypeInv
  OBVIOUS
<1>1. TypeOK
  BY Typed DEF TypeOK, Init, Labels
<1>2. HandlersOK
  BY Typed DEF HandlersOK, LocalsFit, Locked, NoTask, Init, Labels
<1> QED BY <1>1, <1>2 DEF TypeInv

\* A handler that moves to a label with locals that fit it leaves every handler's
\* locals fitting its label.
LEMMA HandlerMoves ==
  ASSUME HandlersOK, NEW p \in Handlers, NEW label \in Labels, NEW t \in Task,
         LocalsFit(label, t),
         pc' = [pc EXCEPT ![p] = label],
         task' = [task EXCEPT ![p] = t],
         holder' \in [Contents -> Handlers \cup {None}]
  PROVE  HandlersOK'
<1>1. /\ pc' \in [Handlers -> Labels]
      /\ task' \in [Handlers -> Task]
  BY DEF HandlersOK
<1>2. ASSUME NEW q \in Handlers PROVE LocalsFit(pc[q], task[q])'
  <2>1. CASE q = p
    BY <2>1 DEF HandlersOK, LocalsFit
  <2>2. CASE q # p
    BY <2>2 DEF HandlersOK, LocalsFit
  <2> QED BY <2>1, <2>2
<1> QED BY <1>1, <1>2 DEF HandlersOK

\* ...in particular one that returns,
LEMMA Finishes ==
  ASSUME HandlersOK, NEW p \in Handlers, Finish(p)
  PROVE  HandlersOK'
<1>1. LocalsFit("idle", NoTask)
  BY DEF LocalsFit, Locked, NoTask
<1>2. Unlocked(p) \in [Contents -> Handlers \cup {None}]
  BY DEF Unlocked, HandlersOK
<1> QED BY <1>1, <1>2, Typed, HandlerMoves DEF Finish, Goto, Labels

\* ...one that has released a content (releaseBlob),
LEMMA Releases ==
  ASSUME HandlersOK, NEW p \in Handlers, NEW ok \in BOOLEAN, Released(p, ok)
  PROVE  HandlersOK'
<1>1. LocalsFit("idle", NoTask)
  BY DEF LocalsFit, Locked, NoTask
<1>2. Unlocked(p) \in [Contents -> Handlers \cup {None}]
  BY DEF Unlocked, HandlersOK
<1>3. CASE Goto(p, "idle") /\ task' = [task EXCEPT ![p] = NoTask]
  BY <1>1, <1>2, <1>3, Typed, HandlerMoves DEF Released, Goto, Labels
<1>4. CASE Goto(p, "refund") /\ UNCHANGED task
  <2>1. LocalsFit("refund", task[p]) /\ task[p] \in Task
    BY DEF HandlersOK, LocalsFit, Locked
  <2>2. task' = [task EXCEPT ![p] = task[p]]
    BY <1>4 DEF HandlersOK
  <2> QED BY <1>2, <1>4, <2>1, <2>2, HandlerMoves DEF Released, Goto, Labels
<1>5. ASSUME task[p].op = "sweep", NEW c \in task[p].orphans, Goto(p, "waiting"),
             task' = [task EXCEPT ![p].sha = c, ![p].orphans = @ \ {c}]
      PROVE  HandlersOK'
  <2> DEFINE t == [task[p] EXCEPT !.sha = c, !.orphans = @ \ {c}]
  <2>1. t \in Task /\ t.sha \in Contents /\ t.op = "sweep" /\ t.reuse = task[p].reuse
    BY <1>5 DEF HandlersOK, Task
  <2>2. LocalsFit("waiting", t)
    BY <1>5, <2>1 DEF LocalsFit, Locked, HandlersOK
  <2>3. task' = [task EXCEPT ![p] = t]
    BY <1>5 DEF HandlersOK
  <2> HIDE DEF t
  <2> QED BY <1>2, <1>5, <2>1, <2>2, <2>3, HandlerMoves DEF Released, Goto, Labels
<1> QED BY <1>3, <1>4, <1>5 DEF Released

\* ...one that goes on with the locals it has,
LEMMA Proceeds ==
  ASSUME HandlersOK, NEW p \in Handlers, NEW label \in Labels,
         LocalsFit(label, task[p]), Goto(p, label), UNCHANGED <<task, holder>>
  PROVE  HandlersOK'
<1>1. task' = [task EXCEPT ![p] = task[p]] /\ task[p] \in Task
  BY DEF HandlersOK
<1> QED BY <1>1, HandlerMoves DEF Goto, HandlersOK

\* ...one that goes on with new locals,
LEMMA Sets ==
  ASSUME HandlersOK, NEW p \in Handlers, NEW label \in Labels, NEW t \in Task,
         LocalsFit(label, t), Goto(p, label), task' = [task EXCEPT ![p] = t],
         UNCHANGED holder
  PROVE  HandlersOK'
BY HandlerMoves DEF Goto, HandlersOK

\* ...and one that fails (releaseStorage, then discardFailedUpload).
LEMMA FailsWith ==
  ASSUME HandlersOK, NEW p \in Handlers, pc[p] \in {"save", "renditions", "ensure", "record"},
         NEW keys \in SUBSET ({task[p].sha} \X Roles), FailWith(p, keys), UNCHANGED holder
  PROVE  HandlersOK'
<1> DEFINE t == [task[p] EXCEPT !.keys = keys]
<1>1. task[p] \in Task /\ LocalsFit(pc[p], task[p])
  BY DEF HandlersOK
<1>2. task[p].sha \in Contents
  BY <1>1 DEF LocalsFit, Locked
<1>3. keys \in SUBSET Keys
  BY <1>2 DEF Keys
<1>4. t \in Task /\ t.sha = task[p].sha /\ t.keys = keys
         /\ t.op = task[p].op /\ t.role = task[p].role /\ t.reuse = task[p].reuse
  BY <1>1, <1>3 DEF Task
<1>5. LocalsFit("undo", t)
  BY <1>1, <1>2, <1>4 DEF LocalsFit
<1>6. task' = [task EXCEPT ![p] = t]
  BY DEF FailWith, HandlersOK
<1> HIDE DEF t
<1> QED BY <1>4, <1>5, <1>6, Sets DEF FailWith, Labels

\* The steps of an upload leave locks, labels and locals well-formed.
LEMMA UploadHandlers ==
  ASSUME TypeInv, NEW p \in Handlers, UploadStep(p)
  PROVE  HandlersOK'
<1>0. HandlersOK /\ task[p] \in Task /\ LocalsFit(pc[p], task[p]) /\ setting \in Settings
  BY DEF TypeInv, TypeOK, HandlersOK
<1>1. ASSUME NEW c \in Contents, NEW u \in accounts \cup {Anonymous}, StartUpload(p, u, c)
      PROVE  HandlersOK'
  <2> DEFINE t == [NoTask EXCEPT !.op = "upload", !.sha = c, !.owner = u]
  <2>1. u \in Owners
    BY DEF TypeInv, TypeOK, Owners
  <2>2. t \in Task /\ t.sha = c /\ t.op = "upload" /\ ~t.reuse
    BY <2>1, Typed DEF Task, Ops
  <2>3. LocalsFit("waiting", t)
    BY <2>2 DEF LocalsFit
  <2> HIDE DEF t
  <2> QED BY <1>0, <1>1, <2>2, <2>3, Sets DEF StartUpload, Labels, t
<1>2. CASE LookUp(p)
  <2>1. LocalsFit("reserve", task[p])
    BY <1>0, <1>2 DEF LookUp, LocalsFit, Locked
  <2>2. CASE UNCHANGED task
    BY <1>0, <1>2, <2>1, <2>2, Proceeds DEF LookUp, Labels
  <2>3. CASE task' = [task EXCEPT ![p].reuse = TRUE]
    <3> DEFINE t == [task[p] EXCEPT !.reuse = TRUE]
    <3>1. t \in Task /\ t.sha = task[p].sha /\ t.op = task[p].op /\ t.role = task[p].role
      BY <1>0 DEF Task
    <3>2. LocalsFit("reserve", t)
      BY <1>0, <1>2, <2>1, <3>1 DEF LocalsFit, LookUp
    <3>3. task' = [task EXCEPT ![p] = t]
      BY <2>3 DEF HandlersOK
    <3> HIDE DEF t
    <3> QED BY <1>0, <1>2, <3>1, <3>2, <3>3, Sets DEF LookUp, Labels
  <2> QED BY <1>2, <2>2, <2>3 DEF LookUp
<1>3. CASE RefuseMedia(p) \/ RefuseReserve(p)
  BY <1>0, <1>3, Finishes DEF RefuseMedia, RefuseReserve
<1>4. CASE Reserve(p)
  <2>1. LocalsFit("record", task[p]) /\ LocalsFit("save", task[p])
    BY <1>0, <1>4 DEF Reserve, LocalsFit, Locked
  <2>2. AfterReserve(p) \in {"record", "save"}
    BY DEF AfterReserve
  <2> QED BY <1>0, <1>4, <2>1, <2>2, Proceeds DEF Reserve, Labels
<1>5. {} \in SUBSET ({task[p].sha} \X Roles)
  OBVIOUS
<1>6. UploadKeys(task[p].sha) \in SUBSET ({task[p].sha} \X Roles)
  BY <1>0 DEF UploadKeys, Roles, Renditions
<1>7. CASE SaveOriginal(p)
  <2>1. LocalsFit("renditions", task[p])
    BY <1>0, <1>7 DEF SaveOriginal, LocalsFit, Locked
  <2>2. CASE FailWith(p, {})
    BY <1>0, <1>5, <1>7, <2>2, FailsWith DEF SaveOriginal
  <2>3. CASE Goto(p, "renditions") /\ UNCHANGED task
    BY <1>0, <1>7, <2>1, <2>3, Proceeds DEF SaveOriginal, Labels
  <2> QED BY <1>7, <2>2, <2>3 DEF SaveOriginal
<1>8. CASE SaveRenditions(p)
  <2>1. LocalsFit("ensure", task[p])
    BY <1>0, <1>8 DEF SaveRenditions, LocalsFit, Locked
  <2>2. CASE FailWith(p, UploadKeys(task[p].sha))
    BY <1>0, <1>6, <1>8, <2>2, FailsWith DEF SaveRenditions
  <2>3. CASE Goto(p, "ensure") /\ UNCHANGED task
    BY <1>0, <1>8, <2>1, <2>3, Proceeds DEF SaveRenditions, Labels
  <2> QED BY <1>8, <2>2, <2>3 DEF SaveRenditions
<1>9. CASE RefuseClip(p)
  <2>1. {<<task[p].sha, "original">>} \in SUBSET ({task[p].sha} \X Roles)
    BY DEF Roles
  <2> QED BY <1>0, <1>9, <2>1, FailsWith DEF RefuseClip
<1>10. CASE EnsureBlob(p)
  <2>1. LocalsFit("record", task[p])
    BY <1>0, <1>10 DEF EnsureBlob, LocalsFit, Locked
  <2>2. CASE FailWith(p, UploadKeys(task[p].sha))
    BY <1>0, <1>6, <1>10, <2>2, FailsWith DEF EnsureBlob
  <2>3. CASE Goto(p, "record") /\ UNCHANGED task
    BY <1>0, <1>10, <2>1, <2>3, Proceeds DEF EnsureBlob, Labels
  <2> QED BY <1>10, <2>2, <2>3 DEF EnsureBlob
<1>11. CASE CreateFile(p) \/ Unstore(p)
  BY <1>0, <1>11, Finishes DEF CreateFile, Unstore
<1>12. CASE RefuseFile(p)
  BY <1>0, <1>5, <1>6, <1>12, FailsWith DEF RefuseFile
<1>13. CASE Undo(p)
  <2>1. LocalsFit("discard", task[p])
    BY <1>0, <1>13 DEF Undo, LocalsFit, Locked
  <2> QED BY <1>0, <1>13, <2>1, Finishes, Proceeds DEF Undo, Labels
<1>14. CASE Discard(p)
  <2>1. LocalsFit("inspect", task[p]) /\ LocalsFit("unstore", task[p])
    BY <1>0, <1>14 DEF Discard, LocalsFit, Locked
  <2> QED BY <1>0, <1>14, <2>1, Finishes, Proceeds DEF Discard, Labels
<1> QED BY <1>1, <1>2, <1>3, <1>4, <1>7, <1>8, <1>9, <1>10, <1>11, <1>12, <1>13, <1>14
         DEF UploadStep

\* So do the steps of releaseBlob,
LEMMA ReleaseHandlers ==
  ASSUME TypeInv, NEW p \in Handlers, ReleaseStep(p)
  PROVE  HandlersOK'
<1>0. /\ HandlersOK /\ task[p] \in Task /\ LocalsFit(pc[p], task[p])
      /\ blobs \in [Contents -> Blob]
  BY DEF TypeInv, TypeOK, HandlersOK
<1>1. CASE AcquireContent(p)
  <2>1. LocalsFit(AfterAcquire(task[p].op), task[p])
    BY <1>0, <1>1 DEF AcquireContent, AfterAcquire, LocalsFit, Locked
  <2>2. AfterAcquire(task[p].op) \in Labels
    BY DEF AfterAcquire, Labels
  <2>3. task' = [task EXCEPT ![p] = task[p]]
    BY <1>0, <1>1 DEF AcquireContent, HandlersOK
  <2>4. holder' \in [Contents -> Handlers \cup {None}]
    BY <1>0, <1>1 DEF AcquireContent, HandlersOK
  <2> QED BY <1>0, <1>1, <2>1, <2>2, <2>3, <2>4, HandlerMoves DEF AcquireContent, Goto
<1>2. CASE Inspect(p)
  <2>1. CASE Released(p, TRUE) \/ Released(p, FALSE)
    BY <1>0, <2>1, Releases
  <2>2. CASE /\ Goto(p, "erase") /\ UNCHANGED holder
             /\ task' = [task EXCEPT ![p].keys = BlobKeys(task[p].sha)]
    <3> DEFINE t == [task[p] EXCEPT !.keys = BlobKeys(task[p].sha)]
    <3>1. task[p].sha \in Contents
      BY <1>0, <1>2 DEF Inspect, LocalsFit, Locked
    <3>2. BlobKeys(task[p].sha) \in SUBSET ({task[p].sha} \X Roles)
      BY <1>0, <3>1 DEF BlobKeys, Blob
    <3>3. {task[p].sha} \X Roles \subseteq Keys
      BY <3>1 DEF Keys
    <3>4. t \in Task /\ t.sha = task[p].sha /\ t.keys = BlobKeys(task[p].sha)
            /\ t.op = task[p].op /\ t.role = task[p].role /\ t.reuse = task[p].reuse
      BY <1>0, <3>2, <3>3 DEF Task
    <3>5. LocalsFit("erase", t)
      BY <1>0, <3>1, <3>2, <3>4 DEF LocalsFit
    <3>6. task' = [task EXCEPT ![p] = t]
      BY <1>0, <2>2 DEF HandlersOK
    <3> HIDE DEF t
    <3> QED BY <1>0, <2>2, <3>4, <3>5, <3>6, Sets DEF Labels
  <2> QED BY <1>2, <2>1, <2>2 DEF Inspect
<1>3. CASE Erase(p)
  <2>1. LocalsFit("drop", task[p])
    BY <1>0, <1>3 DEF Erase, LocalsFit, Locked
  <2> QED BY <1>0, <1>3, <2>1, Releases, Proceeds DEF Erase, Labels
<1>4. CASE Drop(p)
  BY <1>0, <1>4, Releases DEF Drop
<1>5. CASE Refund(p)
  <2>1. LocalsFit("reap", task[p])
    BY <1>0, <1>5 DEF Refund, LocalsFit, Locked
  <2> QED BY <1>0, <1>5, <2>1, Finishes, Proceeds DEF Refund, Labels
<1> QED BY <1>1, <1>2, <1>3, <1>4, <1>5 DEF ReleaseStep

\* A row is present exactly while it is in one of the states a file can be in.
LEMMA Rows ==
  ASSUME TypeInv, NEW f \in FileIds
  PROVE  /\ files[f].sha # None <=> files[f].state \in {"live", "trashed", "overdue"}
         /\ files[f].sha # None => files[f].sha \in Contents /\ files[f].owner \in Owners
<1>1. files[f] \in Row
  BY DEF TypeInv, TypeOK
<1>2. CASE files[f] \in {Unused, Deleted}
  BY <1>2 DEF Unused, Deleted
<1>3. CASE files[f] \in
             [state : {"live", "trashed", "overdue"}, sha : Contents, owner : Owners]
  BY <1>3, StoreAssumption
<1> QED BY <1>1, <1>2, <1>3 DEF Row

\* A handler that starts on a file knows the content the file names.
LEMMA Works ==
  ASSUME TypeInv, NEW f \in FileIds, files[f].sha # None,
         NEW op \in Ops, NEW role \in Roles \cup {None},
         op = "copy" => role \in CopyRoles,
         NEW label \in {"waiting", "deleteRow", "open"}
  PROVE  Working(op, f, role) \in Task /\ LocalsFit(label, Working(op, f, role))
<1>1. files[f].sha \in Contents /\ files[f].owner \in Owners
  BY Rows
<1> DEFINE t == Working(op, f, role)
<1>2. t \in Task /\ t.op = op /\ t.sha \in Contents /\ t.role = role /\ ~t.reuse
  BY <1>1, Typed DEF Task, Working
<1> QED BY <1>2 DEF LocalsFit, Locked

\* ...of a removal by staff or by the owner,
LEMMA RemovalHandlers ==
  ASSUME TypeInv, NEW p \in Handlers, StaffStep(p) \/ OwnerStep(p)
  PROVE  HandlersOK'
<1>0. HandlersOK /\ task[p] \in Task /\ LocalsFit(pc[p], task[p])
  BY DEF TypeInv, HandlersOK
<1>1. ASSUME NEW f \in FileIds, StartStaffRemoval(p, f) PROVE HandlersOK'
  <2> DEFINE t == Working("remove", f, None)
  <2>1. t \in Task /\ LocalsFit("deleteRow", t)
    BY <1>1, Works DEF StartStaffRemoval, Ops
  <2> HIDE DEF t
  <2> QED BY <1>0, <1>1, <2>1, Sets DEF StartStaffRemoval, Labels, t
<1>2. CASE DeleteFile(p)
  <2>1. LocalsFit("waiting", task[p])
    BY <1>0, <1>2 DEF DeleteFile, LocalsFit, Locked
  <2> QED BY <1>0, <1>2, <2>1, Finishes, Proceeds DEF DeleteFile, Labels
<1>3. ASSUME NEW f \in FileIds, PurgeTrashedFile(p, f) PROVE HandlersOK'
  <2> DEFINE t == Working("remove", f, None)
  <2>1. files[f].sha # None
    BY <1>3, Rows DEF PurgeTrashedFile
  <2>2. t \in Task /\ LocalsFit("waiting", t)
    BY <2>1, Works DEF Ops
  <2> HIDE DEF t
  <2> QED BY <1>0, <1>3, <2>2, Sets DEF PurgeTrashedFile, Labels, t
<1>4. ASSUME NEW u \in Users, DeleteAccount(p, u) PROVE HandlersOK'
  <2> DEFINE t == [NoTask EXCEPT !.op = "sweep"]
  <2>1. t \in Task /\ t.op = "sweep" /\ ~t.reuse
    BY Typed DEF Task, Ops
  <2>2. LocalsFit("scan", t)
    BY <2>1 DEF LocalsFit, Locked
  <2> HIDE DEF t
  <2> QED BY <1>0, <1>4, <2>1, <2>2, Sets DEF DeleteAccount, Labels, t
<1> QED BY <1>1, <1>2, <1>3, <1>4 DEF StaffStep, OwnerStep

\* ...of the cleanup pass,
LEMMA CleanupHandlers ==
  ASSUME TypeInv, NEW p \in Handlers,
         CleanupStep(p) \/ RecomputeBlobRefcounts(p) \/ Abandon(p)
  PROVE  HandlersOK'
<1>0. /\ HandlersOK /\ task[p] \in Task /\ LocalsFit(pc[p], task[p])
      /\ files \in [FileIds -> Row]
  BY DEF TypeInv, TypeOK, HandlersOK
<1>1. CASE StartCleanup(p)
  <2> DEFINE t == [NoTask EXCEPT !.op = "reap", !.batch = Overdue]
  <2>1. t \in Task /\ t.op = "reap" /\ ~t.reuse
    BY Typed DEF Task, Ops, Overdue
  <2>2. LocalsFit("reap", t)
    BY <2>1 DEF LocalsFit, Locked
  <2> HIDE DEF t
  <2> QED BY <1>0, <1>1, <2>1, <2>2, Sets DEF StartCleanup, Labels, t
<1>2. CASE ReapFile(p)
  <2>1. PICK f \in task[p].batch :
          \/ /\ Expired(f)
             /\ task' = [task EXCEPT ![p].sha = files[f].sha,
                                     ![p].owner = files[f].owner,
                                     ![p].batch = @ \ {f}]
             /\ Goto(p, "waiting")
          \/ /\ task' = [task EXCEPT ![p].batch = @ \ {f}]
             /\ UNCHANGED pc
    BY <1>2, ZenonT(60) DEF ReapFile
  <2>2. f \in FileIds
    BY <1>0 DEF Task
  <2>3. CASE Expired(f) /\ Goto(p, "waiting")
             /\ task' = [task EXCEPT ![p].sha = files[f].sha,
                                     ![p].owner = files[f].owner,
                                     ![p].batch = @ \ {f}]
    <3> DEFINE t == [task[p] EXCEPT !.sha = files[f].sha, !.owner = files[f].owner,
                                    !.batch = @ \ {f}]
    <3>1. files[f].sha \in Contents /\ files[f].owner \in Owners
      BY <1>0, <2>2, <2>3 DEF Expired, Row, Unused, Deleted
    <3>2. t \in Task /\ t.sha \in Contents /\ t.op = task[p].op /\ t.role = task[p].role /\ t.reuse = task[p].reuse
      BY <1>0, <3>1 DEF Task
    <3>3. LocalsFit("waiting", t)
      BY <1>0, <1>2, <3>2 DEF LocalsFit, ReapFile
    <3>4. task' = [task EXCEPT ![p] = t]
      BY <1>0, <2>3 DEF HandlersOK
    <3> HIDE DEF t
    <3> QED BY <1>0, <1>2, <2>3, <3>2, <3>3, <3>4, Sets DEF ReapFile, Labels
  <2>4. CASE UNCHANGED pc /\ task' = [task EXCEPT ![p].batch = @ \ {f}]
    <3> DEFINE t == [task[p] EXCEPT !.batch = @ \ {f}]
    <3>1. t \in Task /\ t.sha = task[p].sha /\ t.op = task[p].op /\ t.role = task[p].role /\ t.reuse = task[p].reuse
      BY <1>0 DEF Task
    <3>2. LocalsFit("reap", t)
      BY <1>0, <1>2, <3>1 DEF LocalsFit, Locked, ReapFile
    <3>3. task' = [task EXCEPT ![p] = t] /\ Goto(p, "reap")
      BY <1>0, <1>2, <2>4 DEF HandlersOK, ReapFile, Goto
    <3> HIDE DEF t
    <3> QED BY <1>0, <1>2, <3>1, <3>2, <3>3, Sets DEF ReapFile, Labels
  <2> QED BY <2>1, <2>3, <2>4, SMTT(30)
<1>3. [NoTask EXCEPT !.op = "sweep"] \in Task /\ LocalsFit("scan", [NoTask EXCEPT !.op = "sweep"])
  <2> DEFINE t == [NoTask EXCEPT !.op = "sweep"]
  <2>1. t \in Task /\ t.op = "sweep" /\ ~t.reuse
    BY Typed DEF Task, Ops
  <2> HIDE DEF t
  <2>2. t \in Task /\ LocalsFit("scan", t)
    BY <2>1 DEF LocalsFit, Locked
  <2> QED BY <2>2 DEF t
<1>4. CASE FinishReaping(p) \/ RecomputeBlobRefcounts(p)
  BY <1>0, <1>3, <1>4, Sets DEF FinishReaping, RecomputeBlobRefcounts, Labels
<1>5. CASE Scan(p)
  <2>1. ASSUME NEW c \in Orphans, Goto(p, "waiting"), UNCHANGED holder,
               task' = [task EXCEPT ![p].sha = c, ![p].orphans = Orphans \ {c}]
        PROVE  HandlersOK'
    <3> DEFINE t == [task[p] EXCEPT !.sha = c, !.orphans = Orphans \ {c}]
    <3>1. Orphans \subseteq Contents
      BY DEF Orphans
    <3>2. t \in Task /\ t.sha \in Contents /\ t.op = task[p].op /\ t.role = task[p].role /\ t.reuse = task[p].reuse
      BY <1>0, <3>1 DEF Task
    <3>3. LocalsFit("waiting", t)
      BY <1>0, <1>5, <3>2 DEF LocalsFit, Scan
    <3>4. task' = [task EXCEPT ![p] = t]
      BY <1>0, <2>1 DEF HandlersOK
    <3> HIDE DEF t
    <3> QED BY <1>0, <2>1, <3>2, <3>3, <3>4, Sets DEF Labels
  <2> QED BY <1>0, <1>5, <2>1, Finishes DEF Scan
<1>6. CASE Abandon(p)
  BY <1>0, <1>6, Finishes DEF Abandon
<1> QED BY <1>1, <1>2, <1>4, <1>5, <1>6 DEF CleanupStep

\* ...and of the requests that serve objects and build filtered copies.
LEMMA ReadHandlers ==
  ASSUME TypeInv, NEW p \in Handlers, ReadStep(p)
  PROVE  HandlersOK'
<1>0. HandlersOK /\ task[p] \in Task /\ LocalsFit(pc[p], task[p])
  BY DEF TypeInv, HandlersOK
<1>1. \A f \in FileIds : files[f].state \in {"live", "trashed"} => files[f].sha # None
  BY Rows
<1>2. ASSUME NEW f \in FileIds, NEW r \in Roles, StartServe(p, f, r) PROVE HandlersOK'
  <2> DEFINE t == Working("serve", f, r)
  <2>1. t \in Task /\ LocalsFit("open", t)
    BY <1>1, <1>2, Works DEF StartServe, Ops
  <2> HIDE DEF t
  <2> QED BY <1>0, <1>2, <2>1, Sets DEF StartServe, Labels, t
<1>3. ASSUME NEW f \in FileIds, NEW r \in CopyRoles, StartCopy(p, f, r) PROVE HandlersOK'
  <2> DEFINE t == Working("copy", f, r)
  <2>1. t \in Task /\ LocalsFit("waiting", t)
    BY <1>1, <1>3, Works DEF StartCopy, Ops, Roles
  <2> HIDE DEF t
  <2> QED BY <1>0, <1>3, <2>1, Sets DEF StartCopy, Labels, t
<1>4. ASSUME ServeCopy(p), pc[p] \in {"build", "note"} PROVE HandlersOK'
  <2>1. LocalsFit("open", task[p])
    BY <1>0, <1>4 DEF LocalsFit, Locked
  <2>2. holder' \in [Contents -> Handlers \cup {None}]
    BY <1>0, <1>4 DEF ServeCopy, Unlocked, HandlersOK
  <2>3. task' = [task EXCEPT ![p] = task[p]]
    BY <1>0, <1>4 DEF ServeCopy, HandlersOK
  <2> QED BY <1>0, <1>4, <2>1, <2>2, <2>3, HandlerMoves DEF ServeCopy, Goto, Labels
<1>5. CASE BuildCopy(p)
  <2>1. LocalsFit("note", task[p])
    BY <1>0, <1>5 DEF BuildCopy, LocalsFit, Locked
  <2> QED BY <1>0, <1>4, <1>5, <2>1, Proceeds DEF BuildCopy, Labels
<1>6. CASE RefuseCopy(p) \/ ForgetCopies(p)
  BY <1>0, <1>6, Finishes DEF RefuseCopy, ForgetCopies
<1>7. CASE NoteCopy(p)
  BY <1>0, <1>4, <1>7, Finishes DEF NoteCopy
<1>8. CASE OpenObject(p)
  <2>1. LocalsFit("forget", task[p])
    BY <1>0, <1>8 DEF OpenObject, LocalsFit, Locked
  <2> QED BY <1>0, <1>8, <2>1, Finishes, Proceeds DEF OpenObject, Labels
<1> QED BY <1>2, <1>3, <1>5, <1>6, <1>7, <1>8 DEF ReadStep

DataOK ==
    /\ accounts \subseteq Users
    /\ DOMAIN used = Users
    /\ files \in [FileIds -> Row]
    /\ blobs \in [Contents -> Blob]
    /\ objects \subseteq Keys
    /\ setting \in Settings
    /\ pinned \in BOOLEAN

\* Any set of rows can be counted.
LEMMA RowsFinite ==
  ASSUME NEW S \in SUBSET FileIds
  PROVE  IsFiniteSet(S) /\ Cardinality(S) \in Nat
BY StoreAssumption, FS_Subset, FS_CardinalityType

\* Deleting rows, and the trigger it fires, leave both tables well-formed.
LEMMA RowsDeleted ==
  ASSUME TypeInv, NEW gone \in SUBSET FileIds, DeleteRows(gone)
  PROVE  files' \in [FileIds -> Row] /\ blobs' \in [Contents -> Blob]
<1>1. Deleted \in Row
  BY DEF Row
<1>2. files' \in [FileIds -> Row]
  BY <1>1 DEF DeleteRows, TypeInv, TypeOK
<1>3. ASSUME NEW c \in Contents
      PROVE  blobs[c] \in Blob
               /\ [blobs[c] EXCEPT !.refcount = @ - Cardinality(gone \cap RowsOf(c))] \in Blob
  <2>1. Cardinality(gone \cap RowsOf(c)) \in Nat
    BY RowsFinite DEF RowsOf
  <2> QED BY <2>1 DEF TypeInv, TypeOK, Blob
<1>4. blobs' \in [Contents -> Blob]
  BY <1>3 DEF DeleteRows, Uncounted
<1> QED BY <1>2, <1>4

\* Giving bytes back keeps one usage per account.
LEMMA GiveBackType ==
  ASSUME TypeInv, NEW u, NEW c
  PROVE  DOMAIN GiveBack(u, c) = Users
BY DEF GiveBack, TypeInv, TypeOK

\* The steps of an upload leave the tables and the storage well-formed.
LEMMA UploadData ==
  ASSUME TypeInv, NEW p \in Handlers, UploadStep(p)
  PROVE  DataOK'
<1>0. /\ DataOK /\ task[p] \in Task /\ LocalsFit(pc[p], task[p])
      /\ UploadKeys(task[p].sha) \subseteq {task[p].sha} \X Roles
  BY DEF TypeInv, TypeOK, HandlersOK, DataOK, UploadKeys, Roles, Renditions
<1> USE DEF DataOK
<1>1. CASE \E c \in Contents, u \in accounts \cup {Anonymous} : StartUpload(p, u, c)
  BY <1>0, <1>1 DEF StartUpload, db, env
<1>2. CASE LookUp(p) \/ RefuseMedia(p) \/ RefuseReserve(p) \/ RefuseClip(p) \/ RefuseFile(p)
           \/ Discard(p)
  BY <1>0, <1>2 DEF LookUp, RefuseMedia, RefuseReserve, RefuseClip, RefuseFile, Discard, db, env
<1>3. CASE Reserve(p)
  BY <1>0, <1>3 DEF Reserve, env
<1>4. CASE SaveOriginal(p) \/ SaveRenditions(p)
  <2>1. task[p].sha \in Contents
    BY <1>0, <1>4 DEF SaveOriginal, SaveRenditions, LocalsFit, Locked
  <2>2. <<task[p].sha, "original">> \in Keys /\ <<task[p].sha, setting>> \in Keys
    BY <1>0, <2>1 DEF Keys, Roles, Renditions
  <2> QED BY <1>0, <1>4, <2>2 DEF SaveOriginal, SaveRenditions, db, env
<1>5. CASE EnsureBlob(p)
  <2>1. {"original", setting} \in SUBSET Roles
    BY <1>0 DEF Roles, Renditions
  <2>2. Ensured(task[p].sha) \in [Contents -> Blob]
    BY <1>0, <2>1 DEF Ensured, Blob
  <2> QED BY <1>0, <1>5, <2>2 DEF EnsureBlob, env
<1>6. CASE CreateFile(p)
  <2> DEFINE c == task[p].sha
  <2>1. c \in Contents
    BY <1>0, <1>6 DEF CreateFile, LocalsFit, Locked
  <2>2. task[p].owner \in Owners
    BY <1>0, <1>6 DEF CreateFile, Owners
  <2>3. [state |-> "live", sha |-> c, owner |-> task[p].owner] \in Row
    BY <2>1, <2>2 DEF Row
  <2>4. files' \in [FileIds -> Row]
    BY <1>0, <1>6, <2>3 DEF CreateFile
  <2>5. [blobs EXCEPT ![c].refcount = @ + 1] \in [Contents -> Blob]
    BY <1>0, <2>1 DEF Blob
  <2>6. blobs' \in [Contents -> Blob]
    BY <1>0, <1>6, <2>5 DEF CreateFile
  <2> QED BY <1>0, <1>6, <2>4, <2>6 DEF CreateFile, env
<1>7. CASE Undo(p)
  BY <1>0, <1>7, GiveBackType DEF Undo, env
<1>8. CASE Unstore(p)
  BY <1>0, <1>8 DEF Unstore, db, env
<1> QED BY <1>1, <1>2, <1>3, <1>4, <1>5, <1>6, <1>7, <1>8 DEF UploadStep

\* So do releasing content and removing rows,
LEMMA RemovalData ==
  ASSUME TypeInv, NEW p \in Handlers, ReleaseStep(p) \/ StaffStep(p) \/ OwnerStep(p)
  PROVE  DataOK'
<1>0. DataOK /\ task[p] \in Task
  BY DEF TypeInv, TypeOK, HandlersOK, DataOK
<1> USE DEF DataOK
<1>1. CASE AcquireContent(p) \/ Inspect(p) \/ Erase(p)
  BY <1>0, <1>1 DEF AcquireContent, Inspect, Erase, db, env
<1>2. CASE Drop(p)
  <2>1. Dropped(task[p].sha) \in [Contents -> Blob]
    BY <1>0, Typed DEF Dropped
  <2> QED BY <1>0, <1>2, <2>1 DEF Drop, env
<1>3. CASE Refund(p)
  BY <1>0, <1>3, GiveBackType DEF Refund, env
<1>4. CASE \E f \in FileIds : StartStaffRemoval(p, f)
  BY <1>0, <1>4 DEF StartStaffRemoval, db, env
<1>5. CASE DeleteFile(p)
  <2>1. task[p].batch \in SUBSET FileIds
    BY <1>0 DEF Task
  <2> QED BY <1>0, <1>5, <2>1, RowsDeleted DEF DeleteFile, env
<1>6. CASE \E f \in FileIds : PurgeTrashedFile(p, f)
  BY <1>0, <1>6, RowsDeleted DEF PurgeTrashedFile, env
<1>7. CASE \E u \in Users : DeleteAccount(p, u)
  BY <1>0, <1>7, RowsDeleted DEF DeleteAccount, RowsOwned, env
<1> QED BY <1>1, <1>2, <1>3, <1>4, <1>5, <1>6, <1>7 DEF ReleaseStep, StaffStep, OwnerStep

\* ...the cleanup pass and recomputing counts,
LEMMA CleanupData ==
  ASSUME TypeInv, NEW p \in Handlers,
         CleanupStep(p) \/ RecomputeBlobRefcounts(p) \/ Abandon(p)
  PROVE  DataOK'
<1>0. DataOK /\ task[p] \in Task
  BY DEF TypeInv, TypeOK, HandlersOK, DataOK
<1> USE DEF DataOK
<1>1. CASE StartCleanup(p) \/ FinishReaping(p) \/ Scan(p) \/ Abandon(p)
  BY <1>0, <1>1 DEF StartCleanup, FinishReaping, Scan, Abandon, db, env
<1>2. CASE ReapFile(p)
  <2>1. task[p].batch \in SUBSET FileIds
    BY <1>0 DEF Task
  <2> QED BY <1>0, <1>2, <2>1, RowsDeleted DEF ReapFile, env
<1>3. CASE RecomputeBlobRefcounts(p)
  <2>1. ASSUME NEW c \in Contents
        PROVE  [blobs[c] EXCEPT !.refcount = Cardinality(RowsOf(c))] \in Blob
    BY <1>0, RowsFinite DEF RowsOf, Blob
  <2>2. blobs' \in [Contents -> Blob]
    BY <1>0, <1>3, <2>1 DEF RecomputeBlobRefcounts
  <2> QED BY <1>0, <1>3, <2>2 DEF RecomputeBlobRefcounts, env
<1> QED BY <1>1, <1>2, <1>3 DEF CleanupStep

\* ...and the requests that serve objects and build filtered copies.
LEMMA ReadData ==
  ASSUME TypeInv, NEW p \in Handlers, ReadStep(p)
  PROVE  DataOK'
<1>0. DataOK /\ task[p] \in Task /\ LocalsFit(pc[p], task[p])
  BY DEF TypeInv, TypeOK, HandlersOK, DataOK
<1> USE DEF DataOK
<1>1. CASE (\E f \in FileIds, r \in Roles : StartServe(p, f, r))
           \/ (\E f \in FileIds, r \in CopyRoles : StartCopy(p, f, r)) \/ OpenObject(p)
  BY <1>0, <1>1 DEF StartServe, StartCopy, OpenObject, db, env
<1>2. CASE BuildCopy(p) \/ RefuseCopy(p)
  <2>1. task[p].sha \in Contents /\ task[p].role \in CopyRoles
    BY <1>0, <1>2 DEF BuildCopy, RefuseCopy, LocalsFit, Locked
  <2>2. <<task[p].sha, task[p].role>> \in Keys
    BY <2>1 DEF Keys, Roles
  <2> QED BY <1>0, <1>2, <2>2 DEF BuildCopy, RefuseCopy, db, env
<1>3. CASE NoteCopy(p)
  <2>1. task[p].role \in Roles
    BY <1>0, <1>3 DEF NoteCopy, LocalsFit, Locked, Roles
  <2>2. Noted(task[p].sha, task[p].role) \in [Contents -> Blob]
    BY <1>0, <2>1 DEF Noted, Blob
  <2> QED BY <1>0, <1>3, <2>2 DEF NoteCopy, env
<1>4. CASE ForgetCopies(p)
  <2>1. [blobs EXCEPT ![task[p].sha].roles = @ \ CopyRoles] \in [Contents -> Blob]
    BY <1>0 DEF Blob
  <2> QED BY <1>0, <1>4, <2>1 DEF ForgetCopies, env
<1> QED BY <1>1, <1>2, <1>3, <1>4 DEF ReadStep

\* Statements on the files table alone leave everything well-formed.
LEMMA RowType ==
  ASSUME TypeInv, RowStep
  PROVE  DataOK' /\ HandlersOK'
<1>0. DataOK /\ HandlersOK
  BY DEF TypeInv, TypeOK, DataOK
<1>1. UNCHANGED <<accounts, used, blobs, objects, env, holder, pc, task>>
  BY DEF RowStep, TrashFile, RestoreTrashedFile, DeadlinePasses, ApplyAnonymousRetention
<1>2. ASSUME NEW f \in FileIds, NEW state \in {"live", "trashed", "overdue"}, files[f].sha # None
      PROVE  [files[f] EXCEPT !.state = state] \in Row
  <2>1. files[f] \in [state : {"live", "trashed", "overdue"}, sha : Contents, owner : Owners]
    BY <1>0, <1>2 DEF DataOK, Row, Unused, Deleted
  <2> QED BY <2>1 DEF Row
<1>3. files' \in [FileIds -> Row]
  <2>1. ASSUME NEW f \in FileIds, TrashFile(f) \/ RestoreTrashedFile(f) \/ DeadlinePasses(f)
        PROVE  files' \in [FileIds -> Row]
    BY <1>0, <1>2, <2>1, Rows DEF TrashFile, RestoreTrashedFile, DeadlinePasses, DataOK
  <2>2. ASSUME NEW late \in SUBSET FileIds, ApplyAnonymousRetention(late)
        PROVE  files' \in [FileIds -> Row]
    <3>1. ASSUME NEW f \in FileIds, files[f].owner = Anonymous PROVE files[f].sha # None
      BY <1>0, <3>1, StoreAssumption DEF DataOK, Row, Unused, Deleted
    <3> QED BY <1>0, <1>2, <2>2, <3>1 DEF ApplyAnonymousRetention, DataOK
  <2> QED BY <2>1, <2>2 DEF RowStep
<1> QED BY <1>0, <1>1, <1>3 DEF DataOK, HandlersOK, env

\* So do backups, crashes, restarts and `rebuild-thumbnails'.
LEMMA ServerType ==
  ASSUME TypeInv, ServerStep \/ RecomputeStorageUsage
  PROVE  DataOK' /\ HandlersOK'
<1>0. DataOK /\ HandlersOK
  BY DEF TypeInv, TypeOK, DataOK
<1>1. CASE PinObjects \/ UnpinObjects \/ RecomputeStorageUsage
           \/ \E s \in Settings : Reconfigure(s)
  BY <1>0, <1>1 DEF PinObjects, UnpinObjects, RecomputeStorageUsage, Reconfigure,
                    DataOK, HandlersOK, db, env
<1>2. CASE Crash
  <2>1. HandlersOK'
    BY <1>2, Typed DEF Crash, HandlersOK, LocalsFit, Locked, NoTask, Labels
  <2> QED BY <1>0, <1>2, <2>1 DEF Crash, DataOK, db, env
<1>3. ASSUME NEW c \in Contents, Regenerate(c) PROVE DataOK' /\ HandlersOK'
  <2>1. <<c, "rebuilt">> \in Keys
    BY DEF Keys, Roles, Renditions
  <2>2. [blobs EXCEPT ![c].roles = (@ \ Settings) \cup {"rebuilt"}] \in [Contents -> Blob]
    BY <1>0 DEF DataOK, Blob, Roles, Renditions
  <2>3. blobs' \in [Contents -> Blob] /\ objects' \subseteq Keys
    BY <1>0, <1>3, <2>1, <2>2 DEF Regenerate, DataOK
  <2> QED BY <1>0, <1>3, <2>3 DEF Regenerate, DataOK, HandlersOK, env
<1> QED BY <1>1, <1>2, <1>3 DEF ServerStep

\* The type invariant is inductive.
LEMMA TypeStep == TypeInv /\ [Next]_vars => TypeInv'
<1> SUFFICES ASSUME TypeInv, [Next]_vars PROVE DataOK' /\ HandlersOK'
  BY DEF TypeInv, TypeOK, DataOK, HandlersOK
<1>1. ASSUME NEW p \in Handlers, HandlerStep(p) PROVE DataOK' /\ HandlersOK'
  BY <1>1, UploadHandlers, UploadData, ReleaseHandlers, RemovalHandlers, RemovalData,
     CleanupHandlers, CleanupData, ReadHandlers, ReadData DEF HandlerStep
<1>2. CASE UNCHANGED vars
  BY <1>2 DEF vars, TypeInv, TypeOK, DataOK, HandlersOK
<1> QED BY <1>1, <1>2, RowType, ServerType DEF Next

\* Every reachable state has well-formed tables, keys, locks and locals, for any
\* numbers of contents, rows, accounts and handlers, and whatever fails.
THEOREM StoreTyped == Spec => []TypeOK
<1>1. Init => TypeInv
  BY InitType
<1>2. TypeInv /\ [Next]_vars => TypeInv'
  BY TypeStep
<1>3. TypeInv => TypeOK
  BY DEF TypeInv
<1> QED BY <1>1, <1>2, <1>3, PTL DEF Spec

----------------------------------------------------------------------------
(* Locks *)

\* A step of one handler leaves the others, and what they hold, alone...
OthersAlone(p) ==
    \A q \in Handlers \ {p} :
        /\ pc'[q] = pc[q] /\ task'[q] = task[q]
        /\ \A c \in Contents : holder[c] = q => holder'[c] = q

\* ...and has the lock it needs for its next one.
OwnLock(p) == pc'[p] \in Locked => holder'[task'[p].sha] = p

\* A handler that returns lets its locks go and touches no other.
LEMMA LockFinishes ==
  ASSUME HandlersOK, NEW p \in Handlers, Finish(p)
  PROVE  OthersAlone(p) /\ OwnLock(p) /\ pc'[p] = "idle"
BY DEF HandlersOK, Finish, Goto, Unlocked, OthersAlone, OwnLock, Locked

\* So does one that has released a content.
LEMMA LockReleases ==
  ASSUME HandlersOK, NEW p \in Handlers, NEW ok \in BOOLEAN, Released(p, ok)
  PROVE  OthersAlone(p) /\ OwnLock(p) /\ pc'[p] \in {"idle", "refund", "waiting"}
<1>1. /\ holder' = Unlocked(p)
      /\ \E label \in {"idle", "refund", "waiting"} : pc' = [pc EXCEPT ![p] = label]
      /\ \A q \in Handlers \ {p} : task'[q] = task[q]
  BY DEF Released, Goto, HandlersOK
<1> QED BY <1>1 DEF HandlersOK, Unlocked, OthersAlone, OwnLock, Locked

\* The lock is kept, or not needed, and the next step is on the same content.
LEMMA LockKept ==
  ASSUME HandlersOK, LocksHeld, NEW p \in Handlers, NEW label, Goto(p, label), UNCHANGED holder,
         \A q \in Handlers \ {p} : task'[q] = task[q],
         label \in Locked => pc[p] \in Locked /\ task'[p].sha = task[p].sha
  PROVE  OthersAlone(p) /\ OwnLock(p) /\ pc'[p] = label
BY DEF HandlersOK, LocksHeld, Goto, OthersAlone, OwnLock

\* No step of an upload acts on content it has not locked.
LEMMA UploadLocks ==
  ASSUME TypeInv, LocksHeld, NEW p \in Handlers, UploadStep(p)
  PROVE  OthersAlone(p) /\ OwnLock(p)
<1>0. HandlersOK /\ task[p] \in Task
  BY DEF TypeInv, HandlersOK
<1> USE <1>0
<1>1. CASE \E c \in Contents, u \in accounts \cup {Anonymous} : StartUpload(p, u, c)
  BY <1>1, LockKept DEF StartUpload, Locked, HandlersOK
<1>2. CASE LookUp(p)
  <2>1. /\ Goto(p, "reserve") /\ pc[p] \in Locked /\ UNCHANGED holder
        /\ task'[p].sha = task[p].sha /\ \A q \in Handlers \ {p} : task'[q] = task[q]
    BY <1>2 DEF LookUp, Locked, HandlersOK, Task
  <2> QED BY <2>1, LockKept
<1>3. CASE Reserve(p)
  BY <1>3, LockKept DEF Reserve, Locked
<1>4. CASE RefuseMedia(p) \/ RefuseReserve(p) \/ CreateFile(p) \/ Unstore(p)
  BY <1>4, LockFinishes DEF RefuseMedia, RefuseReserve, CreateFile, Unstore
<1>5. ASSUME NEW keys, FailWith(p, keys), pc[p] \in Locked, UNCHANGED holder
      PROVE  OthersAlone(p) /\ OwnLock(p)
  <2>1. task'[p].sha = task[p].sha /\ \A q \in Handlers \ {p} : task'[q] = task[q]
    BY <1>5 DEF FailWith, HandlersOK, Task
  <2> QED BY <1>5, <2>1, LockKept DEF FailWith
<1>6. CASE SaveOriginal(p)
  BY <1>5, <1>6, LockKept DEF SaveOriginal, Locked
<1>7. CASE SaveRenditions(p)
  BY <1>5, <1>7, LockKept DEF SaveRenditions, Locked
<1>8. CASE RefuseClip(p) \/ RefuseFile(p)
  BY <1>5, <1>8 DEF RefuseClip, RefuseFile, Locked
<1>9. CASE EnsureBlob(p)
  BY <1>5, <1>9, LockKept DEF EnsureBlob, Locked
<1>10. CASE Undo(p)
  BY <1>10, LockFinishes, LockKept DEF Undo, Locked
<1>11. CASE Discard(p)
  BY <1>11, LockFinishes, LockKept DEF Discard, Locked
<1> QED BY <1>1, <1>2, <1>3, <1>4, <1>6, <1>7, <1>8, <1>9, <1>10, <1>11 DEF UploadStep

\* Nor does a step of any other handler.
LEMMA OtherLocks ==
  ASSUME TypeInv, LocksHeld, NEW p \in Handlers, HandlerStep(p)
  PROVE  OthersAlone(p) /\ OwnLock(p)
<1>0. HandlersOK /\ task[p] \in Task
  BY DEF TypeInv, HandlersOK
<1> USE <1>0
<1>1. CASE AcquireContent(p)
  <2>1. task[p].sha \in Contents
    BY <1>1 DEF AcquireContent, HandlersOK, LocalsFit
  <2> QED BY <1>1, <2>1, StoreAssumption DEF AcquireContent, Goto, HandlersOK, OthersAlone, OwnLock
<1>2. CASE Inspect(p)
  <2>1. ASSUME Goto(p, "erase"), UNCHANGED holder,
               task' = [task EXCEPT ![p].keys = BlobKeys(task[p].sha)]
        PROVE  OthersAlone(p) /\ OwnLock(p)
    <3>1. task'[p].sha = task[p].sha /\ \A q \in Handlers \ {p} : task'[q] = task[q]
      BY <2>1 DEF HandlersOK, Task
    <3> QED BY <1>2, <2>1, <3>1, LockKept DEF Inspect, Locked
  <2> QED BY <1>2, <2>1, LockReleases DEF Inspect
<1>3. CASE Erase(p)
  BY <1>3, LockReleases, LockKept DEF Erase, Locked
<1>4. CASE Drop(p)
  BY <1>4, LockReleases DEF Drop
<1>5. CASE Refund(p)
  BY <1>5, LockFinishes, LockKept DEF Refund, Locked
<1>6. CASE (\E f \in FileIds : StartStaffRemoval(p, f) \/ PurgeTrashedFile(p, f))
           \/ \E u \in Users : DeleteAccount(p, u)
  BY <1>6, LockKept DEF StartStaffRemoval, PurgeTrashedFile, DeleteAccount, Locked, HandlersOK
<1>7. CASE DeleteFile(p)
  BY <1>7, LockFinishes, LockKept DEF DeleteFile, Locked
<1>8. CASE StartCleanup(p) \/ FinishReaping(p) \/ RecomputeBlobRefcounts(p)
  BY <1>8, LockKept DEF StartCleanup, FinishReaping, RecomputeBlobRefcounts, Locked, HandlersOK
<1>9. CASE ReapFile(p)
  <2>1. /\ \/ Goto(p, "waiting") \/ Goto(p, "reap")
        /\ UNCHANGED holder /\ \A q \in Handlers \ {p} : task'[q] = task[q]
    BY <1>9 DEF ReapFile, HandlersOK, Goto
  <2> QED BY <2>1, LockKept DEF Locked
<1>10. CASE Scan(p)
  <2>1. \/ Finish(p)
        \/ /\ Goto(p, "waiting") /\ UNCHANGED holder
           /\ \A q \in Handlers \ {p} : task'[q] = task[q]
    BY <1>10 DEF Scan, HandlersOK
  <2> QED BY <2>1, LockFinishes, LockKept DEF Locked
<1>11. CASE \/ \E f \in FileIds, r \in Roles : StartServe(p, f, r)
            \/ \E f \in FileIds, r \in CopyRoles : StartCopy(p, f, r)
  BY <1>11, LockKept DEF StartServe, StartCopy, Locked, HandlersOK
<1>12. ASSUME ServeCopy(p) PROVE OthersAlone(p) /\ OwnLock(p)
  BY <1>12 DEF ServeCopy, Unlocked, Goto, HandlersOK, OthersAlone, OwnLock, Locked
<1>13. CASE BuildCopy(p)
  BY <1>12, <1>13, LockKept DEF BuildCopy, Locked
<1>14. CASE RefuseCopy(p) \/ ForgetCopies(p) \/ Abandon(p)
  BY <1>14, LockFinishes DEF RefuseCopy, ForgetCopies, Abandon
<1>15. CASE NoteCopy(p)
  BY <1>12, <1>15, LockFinishes DEF NoteCopy
<1>16. CASE OpenObject(p)
  BY <1>16, LockFinishes, LockKept DEF OpenObject, Locked
<1> QED BY <1>1, <1>2, <1>3, <1>4, <1>5, <1>6, <1>7, <1>8, <1>9, <1>10, <1>11, <1>13, <1>14,
           <1>15, <1>16, UploadLocks
        DEF HandlerStep, ReleaseStep, StaffStep, OwnerStep, CleanupStep, ReadStep

\* Whoever is at a label under the lock has the lock of its content.
LEMMA LocksStep == TypeInv /\ LocksHeld /\ [Next]_vars => LocksHeld'
<1> SUFFICES ASSUME TypeInv, LocksHeld, [Next]_vars PROVE LocksHeld'
  OBVIOUS
<1>1. ASSUME NEW p \in Handlers, HandlerStep(p) PROVE LocksHeld'
  <2>1. OthersAlone(p) /\ OwnLock(p)
    BY <1>1, OtherLocks
  <2>2. \A q \in Handlers : pc[q] \in Locked => task[q].sha \in Contents
    BY DEF TypeInv, HandlersOK, LocalsFit
  <2> QED BY <2>1, <2>2 DEF OthersAlone, OwnLock, LocksHeld
<1>2. CASE RowStep \/ RecomputeStorageUsage \/ UNCHANGED vars
  BY <1>2 DEF LocksHeld, RowStep, TrashFile, RestoreTrashedFile, DeadlinePasses,
              ApplyAnonymousRetention, RecomputeStorageUsage, vars
<1>3. CASE ServerStep
  BY <1>3 DEF LocksHeld, ServerStep, PinObjects, UnpinObjects, Crash, Reconfigure, Regenerate,
              Locked
<1> QED BY <1>1, <1>2, <1>3 DEF Next

----------------------------------------------------------------------------
(* Reference counts *)

CountsOK == RecordsWhole /\ RefcountsExact

\* Only the handler that drops a content, under its lock, makes it unrecorded.
RecordsKept(p) ==
    \A c \in Contents :
        Recorded(c) /\ ~(Recorded(c))' => pc[p] = "drop" /\ c = task[p].sha

\* A step that neither adds nor removes a row or a record keeps the counts.
LEMMA CountsQuiet ==
  ASSUME TypeInv, CountsOK, \A f \in FileIds : files'[f].sha = files[f].sha,
         \A c \in Contents : /\ (Recorded(c))' <=> Recorded(c)
                             /\ blobs'[c].refcount = blobs[c].refcount
                             /\ ~Recorded(c) => blobs'[c] = blobs[c]
  PROVE  CountsOK' /\ \A p \in Handlers : RecordsKept(p)
<1>1. \A c \in Contents : (RowsOf(c))' = RowsOf(c)
  BY DEF RowsOf
<1> QED BY <1>1 DEF CountsOK, RecordsWhole, RefcountsExact, RecordsKept

\* Deleting any set of rows brings every count down by what it removed.
LEMMA CountsDeleted ==
  ASSUME TypeInv, CountsOK, NEW gone \in SUBSET FileIds, DeleteRows(gone)
  PROVE  CountsOK' /\ \A p \in Handlers : RecordsKept(p)
<1>1. ASSUME NEW c \in Contents
      PROVE  /\ (RowsOf(c))' = RowsOf(c) \ gone
             /\ Cardinality(RowsOf(c) \ gone)
                  = Cardinality(RowsOf(c)) - Cardinality(gone \cap RowsOf(c))
  <2>1. (RowsOf(c))' = RowsOf(c) \ gone
    BY StoreAssumption DEF DeleteRows, RowsOf, Deleted
  <2>2. IsFiniteSet(RowsOf(c))
    BY RowsFinite DEF RowsOf
  <2>3. RowsOf(c) \cap gone = gone \cap RowsOf(c)
    OBVIOUS
  <2> QED BY <2>1, <2>2, <2>3, FS_Difference, ZenonT(40), ZenonT(40)
<1>2. ASSUME NEW c \in Contents
      PROVE  /\ (Recorded(c))' <=> Recorded(c)
             /\ Recorded(c) =>
                  blobs'[c].refcount = blobs[c].refcount - Cardinality(gone \cap RowsOf(c))
             /\ ~Recorded(c) => blobs'[c] = blobs[c]
  BY DEF DeleteRows, Uncounted, Recorded, TypeInv, TypeOK, Blob
<1>3. RecordsWhole'
  BY <1>2 DEF CountsOK, RecordsWhole
<1>4. RefcountsExact'
  BY <1>1, <1>2 DEF CountsOK, RefcountsExact
<1> QED BY <1>2, <1>3, <1>4 DEF CountsOK, RecordsKept

\* An upload that is recorded takes one unused row and leaves the others alone.
LEMMA FilesOne ==
  ASSUME NEW p, CreateFile(p)
  PROVE  \E f \in FileIds :
            /\ files[f].state = "unused"
            /\ files' = [files EXCEPT ![f] =
                 [state |-> "live", sha |-> task[p].sha, owner |-> task[p].owner]]
BY DEF CreateFile

\* CreateFile's trigger counts the new row.
LEMMA CountsCreated ==
  ASSUME TypeInv, CountsOK, NEW p \in Handlers, Countable(p), CreateFile(p)
  PROVE  CountsOK' /\ RecordsKept(p)
<1> DEFINE c == task[p].sha
<1>1. c \in Contents
  BY DEF CreateFile, TypeInv, HandlersOK, LocalsFit, Locked
<1>2. Recorded(c) /\ blobs' = [blobs EXCEPT ![c].refcount = @ + 1]
  BY DEF CreateFile, Countable
<1>3. PICK f \in FileIds :
        /\ files[f].state = "unused"
        /\ files' = [files EXCEPT ![f] =
              [state |-> "live", sha |-> c, owner |-> task[p].owner]]
  BY FilesOne
<1>4. files[f].sha = None
  BY <1>3, Rows
<1>5. \A d \in Contents : (RowsOf(d))' = IF d = c THEN RowsOf(d) \cup {f} ELSE RowsOf(d)
  BY <1>3, <1>4, StoreAssumption DEF RowsOf, TypeInv, TypeOK
<1>6. f \notin RowsOf(c) /\ IsFiniteSet(RowsOf(c))
  BY <1>1, <1>4, RowsFinite, StoreAssumption DEF RowsOf
<1>7. Cardinality(RowsOf(c) \cup {f}) = Cardinality(RowsOf(c)) + 1
  BY <1>6, FS_AddElement
<1>8. \A d \in Contents : /\ (Recorded(d))' <=> Recorded(d)
                          /\ d # c => blobs'[d] = blobs[d]
                          /\ blobs'[c].refcount = blobs[c].refcount + 1
  BY <1>1, <1>2 DEF Recorded, TypeInv, TypeOK, Blob
<1>9. RecordsWhole'
  BY <1>2, <1>8 DEF CountsOK, RecordsWhole
<1>10. RefcountsExact'
  BY <1>1, <1>2, <1>5, <1>7, <1>8 DEF CountsOK, RefcountsExact
<1> QED BY <1>8, <1>9, <1>10 DEF CountsOK, RecordsKept

\* Content that the count calls unreferenced has no rows.
LEMMA NothingLeft ==
  ASSUME CountsOK, NEW c \in Contents, ~Recorded(c) \/ Orphaned(c)
  PROVE  RowsOf(c) = {}
<1>1. IsFiniteSet(RowsOf(c)) /\ Cardinality(RowsOf(c)) \in Nat
  BY RowsFinite DEF RowsOf
<1>2. Recorded(c) => Cardinality(RowsOf(c)) <= 0
  BY DEF CountsOK, RefcountsExact, Orphaned
<1>3. ~Recorded(c) => RowsOf(c) = {}
  BY DEF CountsOK, RefcountsExact
<1> QED BY <1>1, <1>2, <1>3, FS_EmptySet

\* DeleteBlobIfUnreferenced removes only a record without rows.
LEMMA CountsDropped ==
  ASSUME TypeInv, CountsOK, NEW p \in Handlers, pc[p] = "drop", UNCHANGED files,
         blobs' = Dropped(task[p].sha)
  PROVE  CountsOK' /\ RecordsKept(p)
<1>1. PICK c \in Contents : c = task[p].sha
  BY DEF TypeInv, HandlersOK, LocalsFit, Locked
<1>2. \A d \in Contents : d # c => blobs'[d] = blobs[d]
  BY <1>1 DEF Dropped, TypeInv, TypeOK
<1>3. \A d \in Contents : (RowsOf(d))' = RowsOf(d)
  BY DEF RowsOf
<1>4. CASE ~Orphaned(c)
  BY <1>1, <1>4, CountsQuiet DEF Dropped, Recorded
<1>5. CASE Orphaned(c)
  <2>0. blobs'[c] = NoBlob
    BY <1>1, <1>5 DEF Dropped, TypeInv, TypeOK
  <2>1. ~(Recorded(c))'
    BY <2>0 DEF Recorded, NoBlob
  <2>2. RowsOf(c) = {}
    BY <1>5, NothingLeft
  <2>3. \A d \in Contents : d # c => ((Recorded(d))' <=> Recorded(d))
    BY <1>2 DEF Recorded
  <2>4. RecordsWhole'
    BY <1>2, <2>0, <2>3 DEF CountsOK, RecordsWhole
  <2>5. RefcountsExact'
    BY <1>2, <1>3, <2>1, <2>2, <2>3 DEF CountsOK, RefcountsExact
  <2>6. RecordsKept(p)
    BY <1>1, <2>3 DEF RecordsKept
  <2> QED BY <2>4, <2>5, <2>6 DEF CountsOK
<1> QED BY <1>4, <1>5

\* EnsureBlob leaves a record, with the count it should have.
LEMMA CountsEnsured ==
  ASSUME TypeInv, CountsOK, NEW p \in Handlers, NEW c \in Contents, UNCHANGED files,
         blobs' = Ensured(c)
  PROVE  CountsOK' /\ RecordsKept(p) /\ (Recorded(c))'
<1>1. \A d \in Contents : (RowsOf(d))' = RowsOf(d)
  BY DEF RowsOf
<1>2. \A d \in Contents : /\ d # c => blobs'[d] = blobs[d]
                          /\ blobs'[d].refcount = blobs[d].refcount
                          /\ Recorded(d) => (Recorded(d))'
  BY DEF Ensured, Recorded, TypeInv, TypeOK, Blob
<1>3. (Recorded(c))'
  BY DEF Ensured, Recorded, TypeInv, TypeOK, Blob
<1>4. ~Recorded(c) => blobs[c].refcount = Cardinality(RowsOf(c))
  BY FS_EmptySet DEF CountsOK, RecordsWhole, RefcountsExact, NoBlob
<1>5. RecordsWhole'
  BY <1>2, <1>3 DEF CountsOK, RecordsWhole, Recorded
<1>6. RefcountsExact'
  BY <1>1, <1>2, <1>3, <1>4 DEF CountsOK, RefcountsExact, Recorded
<1> QED BY <1>2, <1>3, <1>5, <1>6 DEF CountsOK, RecordsKept

\* No step of a handler makes a count wrong.
LEMMA HandlerCounts ==
  ASSUME TypeInv, CountsOK, NEW p \in Handlers, Countable(p), HandlerStep(p)
  PROVE  CountsOK' /\ RecordsKept(p)
<1>0. /\ task[p] \in Task /\ LocalsFit(pc[p], task[p])
      /\ blobs \in [Contents -> Blob]
  BY DEF TypeInv, TypeOK, HandlersOK
<1>1. CASE UNCHANGED <<files, blobs>>
  BY <1>1, CountsQuiet DEF Recorded
<1>2. CASE EnsureBlob(p)
  <2>1. PICK c \in Contents : c = task[p].sha
    BY <1>0, <1>2 DEF EnsureBlob, LocalsFit, Locked
  <2> QED BY <1>1, <1>2, <2>1, CountsEnsured DEF EnsureBlob
<1>3. CASE CreateFile(p)
  BY <1>3, CountsCreated
<1>4. CASE Drop(p)
  BY <1>1, <1>4, CountsDropped DEF Drop
<1>5. CASE DeleteFile(p)
  <2>1. task[p].batch \in SUBSET FileIds
    BY <1>0 DEF Task
  <2> QED BY <1>1, <1>5, <2>1, CountsDeleted DEF DeleteFile
<1>6. CASE \E f \in FileIds : PurgeTrashedFile(p, f)
  BY <1>6, CountsDeleted DEF PurgeTrashedFile
<1>7. CASE \E u \in Users : DeleteAccount(p, u)
  BY <1>7, CountsDeleted DEF DeleteAccount, RowsOwned
<1>8. CASE ReapFile(p)
  <2>1. task[p].batch \in SUBSET FileIds
    BY <1>0 DEF Task
  <2> QED BY <1>1, <1>8, <2>1, CountsDeleted DEF ReapFile
<1>9. CASE RecomputeBlobRefcounts(p)
  <2>1. ASSUME NEW c \in Contents
        PROVE  /\ (Recorded(c))' <=> Recorded(c)
               /\ blobs'[c].refcount = blobs[c].refcount
               /\ ~Recorded(c) => blobs'[c] = blobs[c]
    BY <1>0, <1>9 DEF RecomputeBlobRefcounts, Recorded, Blob, CountsOK, RefcountsExact
  <2> QED BY <1>9, <2>1, CountsQuiet DEF RecomputeBlobRefcounts
<1>10. ASSUME NEW c \in Contents, UNCHANGED files, NEW roles \in SUBSET Roles,
              blobs' = [blobs EXCEPT ![c].roles = roles],
              "original" \in roles <=> Recorded(c), ~Recorded(c) => roles = blobs[c].roles
       PROVE  CountsOK' /\ RecordsKept(p)
  <2>1. ASSUME NEW d \in Contents
        PROVE  /\ (Recorded(d))' <=> Recorded(d)
               /\ blobs'[d].refcount = blobs[d].refcount
               /\ ~Recorded(d) => blobs'[d] = blobs[d]
    BY <1>0, <1>10 DEF Recorded, Blob
  <2> QED BY <1>10, <2>1, CountsQuiet
<1>11. CASE NoteCopy(p)
  <2>1. PICK c \in Contents : c = task[p].sha
    BY <1>0, <1>11 DEF NoteCopy, LocalsFit, Locked
  <2>2. CASE Recorded(c) /\ blobs' = Noted(c, task[p].role)
    <3>1. blobs[c].roles \cup {task[p].role} \in SUBSET Roles
      BY <1>0, <1>11 DEF NoteCopy, LocalsFit, Blob, Roles
    <3>2. blobs' = [blobs EXCEPT ![c].roles = blobs[c].roles \cup {task[p].role}]
      BY <2>2 DEF Noted
    <3> QED BY <1>10, <1>11, <2>2, <3>1, <3>2 DEF NoteCopy, Recorded
  <2> QED BY <1>1, <1>11, <2>1, <2>2 DEF NoteCopy, Noted
<1>12. CASE ForgetCopies(p)
  <2>1. PICK c \in Contents : c = task[p].sha
    BY <1>0, <1>12 DEF ForgetCopies, LocalsFit, Locked
  <2>2. CASE blobs' = [blobs EXCEPT ![c].roles = @ \ CopyRoles]
    <3>1. blobs' = [blobs EXCEPT ![c].roles = blobs[c].roles \ CopyRoles]
      BY <2>2
    <3>2. blobs[c].roles \ CopyRoles \in SUBSET Roles
      BY <1>0 DEF Blob
    <3>3. ~Recorded(c) => blobs[c].roles = {}
      BY DEF CountsOK, RecordsWhole, NoBlob
    <3> QED BY <1>10, <1>12, <3>1, <3>2, <3>3, StoreAssumption DEF ForgetCopies, Recorded
  <2> QED BY <1>1, <1>12, <2>1, <2>2 DEF ForgetCopies
<1>13. CASE UploadStep(p)
  <2>1. EnsureBlob(p) \/ CreateFile(p) \/ UNCHANGED <<files, blobs>>
    BY <1>13 DEF UploadStep, StartUpload, LookUp, RefuseMedia, Reserve, RefuseReserve, SaveOriginal,
                 SaveRenditions, RefuseClip, RefuseFile, Undo, Discard, Unstore, db
  <2> QED BY <1>1, <1>2, <1>3, <2>1
<1>14. CASE ReleaseStep(p) \/ StaffStep(p) \/ OwnerStep(p)
  <2>1. \/ Drop(p) \/ DeleteFile(p) \/ UNCHANGED <<files, blobs>>
        \/ \E f \in FileIds : PurgeTrashedFile(p, f)
        \/ \E u \in Users : DeleteAccount(p, u)
    BY <1>14 DEF ReleaseStep, StaffStep, OwnerStep, AcquireContent, Inspect, Erase, Refund,
                 StartStaffRemoval, db
  <2> QED BY <1>1, <1>4, <1>5, <1>6, <1>7, <2>1
<1>15. CASE CleanupStep(p) \/ Abandon(p)
  <2>1. ReapFile(p) \/ UNCHANGED <<files, blobs>>
    BY <1>15 DEF CleanupStep, StartCleanup, FinishReaping, Scan, Abandon, db
  <2> QED BY <1>1, <1>8, <2>1
<1>16. CASE ReadStep(p)
  <2>1. NoteCopy(p) \/ ForgetCopies(p) \/ UNCHANGED <<files, blobs>>
    BY <1>16 DEF ReadStep, StartServe, StartCopy, BuildCopy, RefuseCopy, OpenObject, db
  <2> QED BY <1>1, <1>11, <1>12, <2>1
<1> QED BY <1>9, <1>13, <1>14, <1>15, <1>16 DEF HandlerStep

\* The labels at which a handler relies on what an earlier step of it found or
\* did, and the steps that lead to them.
Promising ==
    {"reserve", "renditions", "ensure", "record", "unstore", "erase", "note"}

\* Only eight of a handler's steps lead to such a label.
LEMMA ReachesPromise ==
  ASSUME TypeInv, NEW p \in Handlers, HandlerStep(p), pc'[p] \in Promising
  PROVE  \/ LookUp(p) \/ Reserve(p) \/ EnsureBlob(p)
         \/ SaveOriginal(p) \/ SaveRenditions(p) \/ Discard(p) \/ Inspect(p) \/ BuildCopy(p)
<1>0. HandlersOK
  BY DEF TypeInv
<1>1. ASSUME NEW ok \in BOOLEAN PROVE ~Released(p, ok)
  BY <1>0, <1>1, LockReleases DEF Promising
<1>2. ~Finish(p)
  BY <1>0, LockFinishes DEF Promising
<1>3. ~ServeCopy(p) /\ \A keys : ~FailWith(p, keys)
  BY <1>0 DEF ServeCopy, FailWith, Goto, HandlersOK, Promising
<1>4. CASE UploadStep(p)
  BY <1>0, <1>2, <1>3, <1>4
     DEF UploadStep, StartUpload, RefuseMedia, RefuseReserve, RefuseClip, CreateFile, RefuseFile,
         Undo, Unstore, Goto, HandlersOK, Promising
<1>5. CASE ReleaseStep(p)
  <2>1. ~AcquireContent(p)
    BY <1>0 DEF AcquireContent, AfterAcquire, Goto, HandlersOK, Promising
  <2> QED BY <1>0, <1>1, <1>2, <1>5, <2>1
          DEF ReleaseStep, Erase, Drop, Refund, Goto, HandlersOK, Promising
<1>6. CASE StaffStep(p) \/ OwnerStep(p)
  BY <1>0, <1>2, <1>6 DEF StaffStep, OwnerStep, StartStaffRemoval, DeleteFile, PurgeTrashedFile,
                          DeleteAccount, Goto, HandlersOK, Promising
<1>7. CASE CleanupStep(p) \/ RecomputeBlobRefcounts(p) \/ Abandon(p)
  BY <1>0, <1>2, <1>7 DEF CleanupStep, StartCleanup, ReapFile, FinishReaping, Scan, Abandon,
                          RecomputeBlobRefcounts, Goto, HandlersOK, Promising
<1>8. CASE ReadStep(p)
  BY <1>0, <1>2, <1>3, <1>8 DEF ReadStep, StartServe, StartCopy, RefuseCopy, NoteCopy,
                                OpenObject, ForgetCopies, Goto, HandlersOK, Promising
<1> QED BY <1>4, <1>5, <1>6, <1>7, <1>8 DEF HandlerStep

\* Only three steps lead to a label at which the content has to be recorded.
LEMMA ReachesRecord ==
  ASSUME TypeInv, NEW p \in Handlers, HandlerStep(p), pc'[p] \in {"reserve", "record"}
  PROVE  LookUp(p) \/ Reserve(p) \/ EnsureBlob(p)
<1>1. HandlersOK
  BY DEF TypeInv
<1>2. ~SaveOriginal(p) /\ ~SaveRenditions(p)
  BY <1>1 DEF SaveOriginal, SaveRenditions, FailWith, Goto, HandlersOK
<1>3. ~Discard(p) /\ ~Inspect(p) /\ ~BuildCopy(p)
  BY <1>1, LockFinishes, LockReleases
     DEF Discard, Inspect, BuildCopy, ServeCopy, Goto, HandlersOK
<1> QED BY <1>2, <1>3, ReachesPromise DEF Promising

\* ...and content about to be given a row stays recorded until it has it.
LEMMA HandlerCountInv ==
  ASSUME TypeInv, CountInv, NEW p \in Handlers, HandlerStep(p)
  PROVE  CountInv'
<1>1. CountsOK /\ LocksHeld /\ \A q \in Handlers : Countable(q)
  BY DEF CountInv, CountsOK
<1>2. CountsOK' /\ RecordsKept(p)
  BY <1>1, HandlerCounts
<1>3. LocksHeld' /\ OthersAlone(p)
  BY <1>1, LocksStep, OtherLocks DEF Next
<1>4. TypeInv'
  BY TypeStep DEF Next
<1>5. ASSUME NEW q \in Handlers \ {p} PROVE (Countable(q))'
  <2>1. pc'[q] = pc[q] /\ task'[q] = task[q]
    BY <1>3 DEF OthersAlone
  <2>2. CASE (pc[q] = "reserve" /\ task[q].reuse) \/ pc[q] = "record"
    <3>1. PICK c \in Contents : c = task[q].sha
      BY <2>2 DEF TypeInv, HandlersOK, LocalsFit, Locked
    <3>2. Recorded(c) /\ holder[c] = q
      BY <1>1, <2>2, <3>1 DEF Countable, LocksHeld, Locked
    <3>3. pc[p] = "drop" => holder[task[p].sha] = p
      BY <1>1 DEF LocksHeld, Locked
    <3>4. (Recorded(c))'
      BY <1>2, <3>1, <3>2, <3>3 DEF RecordsKept
    <3> QED BY <2>1, <3>1, <3>4 DEF Countable, Recorded
  <2> QED BY <2>1, <2>2 DEF Countable
<1>6. (Countable(p))'
  <2>1. CASE pc'[p] \notin {"reserve", "record"}
    BY <2>1 DEF Countable
  <2>2. CASE LookUp(p)
    <3>1. pc'[p] = "reserve" /\ UNCHANGED blobs /\ task'[p].sha = task[p].sha
      BY <2>2 DEF LookUp, Goto, TypeInv, HandlersOK, Task, db
    <3>2. task'[p].reuse => task[p].reuse \/ Reusable(task[p].sha)
      BY <2>2 DEF LookUp, TypeInv, HandlersOK, Task
    <3>3. ~task[p].reuse
      BY <2>2 DEF LookUp, TypeInv, HandlersOK, LocalsFit
    <3> QED BY <3>1, <3>2, <3>3 DEF Reusable, Countable, Recorded
  <2>3. CASE Reserve(p)
    <3>1. /\ pc'[p] = AfterReserve(p) /\ pc[p] = "reserve"
          /\ UNCHANGED blobs /\ task'[p] = task[p]
      BY <2>3 DEF Reserve, Goto, TypeInv, HandlersOK
    <3> QED BY <1>1, <3>1 DEF AfterReserve, Countable, Recorded
  <2>4. CASE EnsureBlob(p)
    <3>1. PICK c \in Contents : c = task[p].sha
      BY <2>4 DEF EnsureBlob, TypeInv, HandlersOK, LocalsFit, Locked
    <3>2. CASE blobs' = Ensured(c) /\ UNCHANGED task
      <4>1. (Recorded(c))'
        BY <1>1, <2>4, <3>1, <3>2, CountsEnsured DEF EnsureBlob
      <4> QED BY <3>1, <3>2, <4>1 DEF Countable, Recorded
    <3>3. CASE FailWith(p, UploadKeys(task[p].sha))
      BY <3>3 DEF FailWith, Goto, TypeInv, HandlersOK, Countable
    <3> QED BY <2>4, <3>1, <3>2, <3>3 DEF EnsureBlob
  <2> QED BY <2>1, <2>2, <2>3, <2>4, ReachesRecord
<1> QED BY <1>2, <1>3, <1>5, <1>6 DEF CountInv, CountsOK

\* Steps of the tables and of the process: no row comes or goes, or changes hands.
LEMMA RowsStay ==
  ASSUME TypeInv, RowStep \/ ServerStep \/ RecomputeStorageUsage
  PROVE  \A f \in FileIds : files'[f].sha = files[f].sha /\ files'[f].owner = files[f].owner
<1>1. files \in [FileIds -> Row]
  BY DEF TypeInv, TypeOK
<1>2. ASSUME NEW row \in Row, NEW state, NEW new, new = [row EXCEPT !.state = state]
      PROVE  new.sha = row.sha /\ new.owner = row.owner
  <2>1. CASE row \in {Unused, Deleted}
    BY <1>2, <2>1 DEF Unused, Deleted
  <2>2. CASE row \in [state : {"live", "trashed", "overdue"}, sha : Contents, owner : Owners]
    BY <1>2, <2>2
  <2> QED BY <2>1, <2>2 DEF Row
<1>3. CASE RowStep
  <2>1. ASSUME NEW f \in FileIds, NEW state, files' = [files EXCEPT ![f].state = state]
        PROVE  \A g \in FileIds : files'[g].sha = files[g].sha /\ files'[g].owner = files[g].owner
    <3> SUFFICES ASSUME NEW g \in FileIds
                 PROVE  files'[g].sha = files[g].sha /\ files'[g].owner = files[g].owner
      OBVIOUS
    <3>1. g # f => files'[g] = files[g]
      BY <1>1, <2>1
    <3>2. g = f => files'[g] = [files[g] EXCEPT !.state = state]
      BY <1>1, <2>1
    <3> QED BY <1>1, <1>2, <3>1, <3>2
  <2>2. ASSUME NEW late \in SUBSET FileIds, ApplyAnonymousRetention(late)
        PROVE  \A g \in FileIds : files'[g].sha = files[g].sha /\ files'[g].owner = files[g].owner
    <3> SUFFICES ASSUME NEW g \in FileIds
                 PROVE  files'[g].sha = files[g].sha /\ files'[g].owner = files[g].owner
      OBVIOUS
    <3>1. \/ files'[g] = files[g]
          \/ files'[g] = [files[g] EXCEPT !.state = "overdue"]
          \/ files'[g] = [files[g] EXCEPT !.state = "live"]
      BY <2>2 DEF ApplyAnonymousRetention
    <3> QED BY <1>1, <1>2, <3>1
  <2>3. \/ \E f \in FileIds, state \in {"live", "trashed", "overdue"} :
              files' = [files EXCEPT ![f].state = state]
        \/ \E late \in SUBSET FileIds : ApplyAnonymousRetention(late)
    BY <1>3 DEF RowStep, TrashFile, RestoreTrashedFile, DeadlinePasses
  <2> QED BY <2>1, <2>2, <2>3
<1>4. CASE ServerStep \/ RecomputeStorageUsage
  BY <1>4 DEF ServerStep, PinObjects, UnpinObjects, Crash, Reconfigure, Regenerate,
              RecomputeStorageUsage, db
<1> QED BY <1>3, <1>4

\* The counts are an inductive invariant.
LEMMA CountStep == TypeInv /\ CountInv /\ [Next]_vars => CountInv'
<1> SUFFICES ASSUME TypeInv, CountInv, [Next]_vars PROVE CountInv'
  OBVIOUS
<1>1. CountsOK /\ LocksHeld /\ LocksHeld' /\ \A q \in Handlers : Countable(q)
  BY LocksStep DEF CountInv, CountsOK
<1>2. CASE \E p \in Handlers : HandlerStep(p)
  BY <1>2, HandlerCountInv
<1>3. CASE (RowStep \/ RecomputeStorageUsage) /\ UNCHANGED <<blobs, pc, task>>
  <2>1. CountsOK'
    BY <1>1, <1>3, RowsStay, CountsQuiet DEF Recorded
  <2>2. \A q \in Handlers : (Countable(q))'
    BY <1>1, <1>3 DEF Countable, Recorded
  <2> QED BY <1>1, <2>1, <2>2 DEF CountInv, CountsOK
<1>4. (RowStep \/ RecomputeStorageUsage) => UNCHANGED <<blobs, pc, task>>
  BY DEF RowStep, TrashFile, RestoreTrashedFile, DeadlinePasses, ApplyAnonymousRetention,
         RecomputeStorageUsage
<1>5. CASE ServerStep /\ UNCHANGED blobs
  <2>1. CountsOK'
    BY <1>1, <1>5, RowsStay, CountsQuiet DEF Recorded
  <2>2. \A q \in Handlers : UNCHANGED <<pc, task>> \/ pc'[q] = "idle"
    BY <1>5 DEF ServerStep, PinObjects, UnpinObjects, Crash, Reconfigure, Regenerate
  <2>3. \A q \in Handlers : (Countable(q))'
    BY <1>1, <1>5, <2>2 DEF Countable, Recorded
  <2> QED BY <1>1, <2>1, <2>3 DEF CountInv, CountsOK
<1>6. ASSUME NEW c \in Contents, Regenerate(c),
             blobs' = [blobs EXCEPT ![c].roles = (@ \ Settings) \cup {"rebuilt"}]
      PROVE  CountInv'
  <2>1. ASSUME NEW d \in Contents
        PROVE  /\ (Recorded(d))' <=> Recorded(d)
               /\ blobs'[d].refcount = blobs[d].refcount
               /\ ~Recorded(d) => blobs'[d] = blobs[d]
    BY <1>6, StoreAssumption DEF Regenerate, Recorded, TypeInv, TypeOK, Blob
  <2>2. CountsOK'
    BY <1>1, <1>6, <2>1, RowsStay, CountsQuiet DEF ServerStep
  <2>3. \A q \in Handlers : (Countable(q))'
    BY <1>6 DEF Regenerate, Countable
  <2> QED BY <1>1, <2>2, <2>3 DEF CountInv, CountsOK
<1>7. ServerStep => UNCHANGED blobs \/ \E c \in Contents :
          Regenerate(c) /\ blobs' = [blobs EXCEPT ![c].roles = (@ \ Settings) \cup {"rebuilt"}]
  BY DEF ServerStep, PinObjects, UnpinObjects, Crash, Reconfigure, Regenerate, db
<1>8. CASE UNCHANGED vars
  <2>1. \A q \in Handlers : (Countable(q))'
    BY <1>1, <1>8 DEF vars, Countable, Recorded
  <2> QED BY <1>1, <1>8, <2>1, CountsQuiet DEF vars, CountInv, CountsOK, Recorded
<1> QED BY <1>2, <1>3, <1>4, <1>5, <1>6, <1>7, <1>8 DEF Next

\* An empty database counts right.
LEMMA InitCounts == Init => CountInv
<1> SUFFICES ASSUME Init PROVE CountInv
  OBVIOUS
<1>1. \A c \in Contents : ~Recorded(c) /\ RowsOf(c) = {}
  BY StoreAssumption DEF Init, Recorded, NoBlob, RowsOf, Unused
<1> QED BY <1>1 DEF CountInv, LocksHeld, Locked, RecordsWhole, RefcountsExact, Countable, Init

\* The counts the triggers keep are exact in every reachable state, whatever
\* fails or crashes and however many handlers run.
THEOREM RefcountsStayExact == Spec => []RefcountsExact
<1>1. Init => TypeInv /\ CountInv
  BY InitType, InitCounts
<1>2. TypeInv /\ CountInv /\ [Next]_vars => (TypeInv /\ CountInv)'
  BY TypeStep, CountStep
<1>3. TypeInv /\ CountInv => RefcountsExact
  BY DEF CountInv
<1> QED BY <1>1, <1>2, <1>3, PTL DEF Spec

----------------------------------------------------------------------------
(* Objects *)

\* Nothing a content's files need goes: no object, and no row or key is added.
Quiet(c) ==
    /\ \A r \in Roles : <<c, r>> \in objects => <<c, r>> \in objects'
    /\ blobs'[c].roles \subseteq blobs[c].roles
    /\ (RowsOf(c))' \subseteq RowsOf(c)

\* The steps that do more than that, each to the content its handler has locked.
Loud(p) == Unstore(p) \/ Erase(p) \/ EnsureBlob(p) \/ CreateFile(p) \/ NoteCopy(p)

\* Deleting rows needs nothing of any object.
LEMMA DeletingIsQuiet ==
  ASSUME TypeInv, NEW gone \in SUBSET FileIds, DeleteRows(gone), UNCHANGED objects
  PROVE  \A c \in Contents : Quiet(c)
<1> SUFFICES ASSUME NEW c \in Contents PROVE Quiet(c)
  OBVIOUS
<1>1. (RowsOf(c))' \subseteq RowsOf(c)
  BY StoreAssumption DEF DeleteRows, RowsOf, Deleted
<1>2. blobs'[c].roles = blobs[c].roles
  BY DEF DeleteRows, Uncounted, TypeInv, TypeOK, Blob
<1> QED BY <1>1, <1>2 DEF Quiet

\* All other steps are quiet about every content.
LEMMA QuietSteps ==
  ASSUME TypeInv, NEW p \in Handlers, HandlerStep(p), ~Loud(p)
  PROVE  \A c \in Contents : Quiet(c)
<1>0. /\ task[p] \in Task /\ LocalsFit(pc[p], task[p])
      /\ blobs \in [Contents -> Blob]
  BY DEF TypeInv, TypeOK, HandlersOK
<1>1. CASE UNCHANGED <<files, blobs>> /\ objects \subseteq objects'
  BY <1>1 DEF Quiet, RowsOf
<1>2. CASE UploadStep(p)
  BY <1>1, <1>2
     DEF Loud, UploadStep, StartUpload, LookUp, RefuseMedia, Reserve, RefuseReserve, SaveOriginal,
         SaveRenditions, RefuseClip, RefuseFile, Undo, Discard, db
<1>3. CASE Drop(p)
  <2>1. PICK c \in Contents : c = task[p].sha
    BY <1>0, <1>3 DEF Drop, LocalsFit, Locked
  <2>2. \A d \in Contents : blobs'[d] \in {blobs[d], NoBlob}
    BY <1>0, <1>3, <2>1 DEF Drop, Dropped
  <2> QED BY <1>3, <2>2 DEF Drop, Quiet, RowsOf, NoBlob
<1>4. CASE ReleaseStep(p) /\ ~Drop(p)
  BY <1>1, <1>4 DEF Loud, ReleaseStep, AcquireContent, Inspect, Refund, db
<1>5. CASE DeleteFile(p)
  <2>1. task[p].batch \in SUBSET FileIds
    BY <1>0 DEF Task
  <2> QED BY <1>1, <1>5, <2>1, DeletingIsQuiet DEF DeleteFile
<1>6. CASE ReapFile(p)
  <2>1. task[p].batch \in SUBSET FileIds
    BY <1>0 DEF Task
  <2> QED BY <1>1, <1>6, <2>1, DeletingIsQuiet DEF ReapFile
<1>7. CASE StaffStep(p) \/ OwnerStep(p)
  <2>1. CASE \E u \in Users : DeleteAccount(p, u)
    BY <2>1, DeletingIsQuiet DEF DeleteAccount, RowsOwned
  <2>2. CASE \E f \in FileIds : PurgeTrashedFile(p, f)
    BY <2>2, DeletingIsQuiet DEF PurgeTrashedFile
  <2>3. CASE \E f \in FileIds : StartStaffRemoval(p, f)
    BY <1>1, <2>3 DEF StartStaffRemoval, db
  <2> QED BY <1>5, <1>7, <2>1, <2>2, <2>3 DEF StaffStep, OwnerStep
<1>8. CASE CleanupStep(p) \/ Abandon(p)
  BY <1>1, <1>6, <1>8 DEF CleanupStep, StartCleanup, FinishReaping, Scan, Abandon, db
<1>9. CASE RecomputeBlobRefcounts(p)
  <2>1. \A c \in Contents : blobs'[c].roles = blobs[c].roles
    BY <1>0, <1>9 DEF RecomputeBlobRefcounts, Blob
  <2> QED BY <1>9, <2>1 DEF RecomputeBlobRefcounts, Quiet, RowsOf
<1>10. CASE ForgetCopies(p)
  <2>1. \A c \in Contents : blobs'[c].roles \subseteq blobs[c].roles
    BY <1>0, <1>10 DEF ForgetCopies, Blob
  <2> QED BY <1>10, <2>1 DEF ForgetCopies, Quiet, RowsOf
<1>11. CASE ReadStep(p) /\ ~ForgetCopies(p)
  BY <1>1, <1>11
     DEF Loud, ReadStep, StartServe, StartCopy, BuildCopy, RefuseCopy, OpenObject, db
<1> QED BY <1>2, <1>3, <1>4, <1>7, <1>8, <1>9, <1>10, <1>11 DEF HandlerStep

\* A loud step is quiet about every content but its own, which it has locked.
LEMMA LoudAtHome ==
  ASSUME TypeInv, LocksHeld, NEW p \in Handlers, Loud(p)
  PROVE  \E c \in Contents : /\ c = task[p].sha /\ holder[c] = p
                             /\ \A d \in Contents \ {c} : Quiet(d)
<1>0. /\ task[p] \in Task /\ LocalsFit(pc[p], task[p])
      /\ blobs \in [Contents -> Blob]
  BY DEF TypeInv, TypeOK, HandlersOK
<1>1. pc[p] \in {"unstore", "erase", "ensure", "record", "note"}
  BY DEF Loud, Unstore, Erase, EnsureBlob, CreateFile, NoteCopy
<1>2. PICK c \in Contents : c = task[p].sha
  BY <1>0, <1>1 DEF LocalsFit, Locked
<1>3. holder[c] = p
  BY <1>1, <1>2 DEF LocksHeld, Locked
<1>4. ASSUME NEW d \in Contents \ {c} PROVE Quiet(d)
  <2>1. CASE Unstore(p) \/ Erase(p)
    <3>1. task[p].keys \subseteq {c} \X Roles
      BY <1>0, <1>2, <2>1 DEF LocalsFit, Unstore, Erase
    <3>2. UNCHANGED <<files, blobs>> /\ objects \ task[p].keys \subseteq objects'
      BY <2>1 DEF Unstore, Erase, Removable, db
    <3> QED BY <3>1, <3>2 DEF Quiet, RowsOf
  <2>2. CASE EnsureBlob(p)
    <3>1. blobs'[d] = blobs[d]
      BY <1>0, <1>2, <2>2 DEF EnsureBlob, Ensured
    <3> QED BY <2>2, <3>1 DEF EnsureBlob, Quiet, RowsOf
  <2>3. CASE CreateFile(p)
    <3>1. blobs'[d] = blobs[d]
      BY <1>0, <1>2, <2>3 DEF CreateFile
    <3>2. PICK f \in FileIds : files' = [files EXCEPT ![f] =
                [state |-> "live", sha |-> c, owner |-> task[p].owner]]
      BY <1>2, <2>3 DEF CreateFile
    <3>3. (RowsOf(d))' \subseteq RowsOf(d)
      BY <3>2 DEF RowsOf, TypeInv, TypeOK
    <3> QED BY <2>3, <3>1, <3>3 DEF CreateFile, Quiet
  <2>4. CASE NoteCopy(p)
    <3>1. blobs'[d] = blobs[d]
      BY <1>0, <1>2, <2>4 DEF NoteCopy, Noted
    <3> QED BY <2>4, <3>1 DEF NoteCopy, Quiet, RowsOf
  <2> QED BY <2>1, <2>2, <2>3, <2>4 DEF Loud
<1> QED BY <1>2, <1>3, <1>4

\* No step of a handler takes an object from a file that is left.
LEMMA ReadableStays ==
  ASSUME TypeInv, CountInv, ObjectInv, NEW p \in Handlers, HandlerStep(p)
  PROVE  FilesReadable'
<1>0. /\ task[p] \in Task /\ LocalsFit(pc[p], task[p])
      /\ blobs \in [Contents -> Blob] /\ setting \in Settings
  BY DEF TypeInv, TypeOK, HandlersOK
<1>1. CountsOK /\ LocksHeld /\ Relied(p)
  BY DEF CountInv, CountsOK, ObjectInv
<1>2. ASSUME NEW c \in Contents, Quiet(c), (RowsOf(c))' # {}
      PROVE  (BlobKeys(c) \subseteq objects)'
  <2>1. RowsOf(c) # {}
    BY <1>2 DEF Quiet
  <2>2. BlobKeys(c) \subseteq objects /\ blobs[c].roles \subseteq Roles
    BY <1>0, <2>1 DEF ObjectInv, FilesReadable, Blob
  <2> QED BY <1>2, <2>2 DEF Quiet, BlobKeys
<1>3. CASE Loud(p)
  <2>1. PICK c \in Contents : /\ c = task[p].sha /\ holder[c] = p
                              /\ \A d \in Contents \ {c} : Quiet(d)
    BY <1>1, <1>3, LoudAtHome
  <2>2. ASSUME (RowsOf(c))' # {} PROVE (BlobKeys(c) \subseteq objects)'
    <3>1. CASE Unstore(p)
      <4>1. RowsOf(c) = {}
        BY <1>1, <2>1, <3>1, NothingLeft DEF Relied, Unstore
      <4> QED BY <2>2, <3>1, <4>1 DEF Unstore, RowsOf, db
    <3>2. CASE Erase(p)
      <4>1. RowsOf(c) = {}
        BY <1>1, <2>1, <3>2 DEF Relied, Erase
      <4> QED BY <2>2, <3>2, <4>1 DEF Erase, RowsOf, db
    <3>3. CASE EnsureBlob(p)
      <4>1. UploadKeys(c) \subseteq objects /\ UNCHANGED <<files, objects>>
        BY <1>1, <2>1, <3>3 DEF Relied, EnsureBlob
      <4>2. BlobKeys(c) \subseteq objects
        BY <2>2, <4>1 DEF ObjectInv, FilesReadable, RowsOf
      <4>3. blobs'[c].roles \in {blobs[c].roles, {"original", setting}}
        BY <1>0, <2>1, <3>3 DEF EnsureBlob, Ensured, Blob
      <4> QED BY <4>1, <4>2, <4>3 DEF BlobKeys, UploadKeys
    <3>4. CASE CreateFile(p)
      <4>1. Complete(c) /\ UNCHANGED objects
        BY <1>1, <2>1, <3>4 DEF Relied, CreateFile
      <4>2. blobs'[c].roles = blobs[c].roles
        BY <1>0, <2>1, <3>4 DEF CreateFile, Blob
      <4> QED BY <4>1, <4>2 DEF Complete, BlobKeys
    <3>5. CASE NoteCopy(p)
      <4>1. <<c, task[p].role>> \in objects /\ UNCHANGED <<files, objects>>
        BY <1>1, <2>1, <3>5 DEF Relied, NoteCopy
      <4>2. BlobKeys(c) \subseteq objects
        BY <2>2, <4>1 DEF ObjectInv, FilesReadable, RowsOf
      <4>3. blobs'[c].roles \in {blobs[c].roles, blobs[c].roles \cup {task[p].role}}
        BY <1>0, <2>1, <3>5 DEF NoteCopy, Noted, Blob
      <4> QED BY <4>1, <4>2, <4>3 DEF BlobKeys
    <3> QED BY <1>3, <3>1, <3>2, <3>3, <3>4, <3>5 DEF Loud
  <2> QED BY <1>2, <2>1, <2>2 DEF FilesReadable
<1>4. CASE ~Loud(p)
  BY <1>2, <1>4, QuietSteps DEF FilesReadable
<1> QED BY <1>3, <1>4

\* The rendition settings do not change while requests run.
LEMMA SettingKept ==
  ASSUME NEW p \in Handlers, HandlerStep(p)
  PROVE  setting' = setting
<1>1. CASE UploadStep(p)
  BY <1>1 DEF UploadStep, StartUpload, LookUp, RefuseMedia, Reserve, RefuseReserve, SaveOriginal,
              SaveRenditions, RefuseClip, EnsureBlob, CreateFile, RefuseFile, Undo, Discard,
              Unstore, env
<1>2. CASE ReleaseStep(p) \/ StaffStep(p) \/ OwnerStep(p)
  BY <1>2 DEF ReleaseStep, AcquireContent, Inspect, Erase, Drop, Refund, StaffStep,
              StartStaffRemoval, DeleteFile, OwnerStep, PurgeTrashedFile, DeleteAccount, env
<1>3. CASE CleanupStep(p) \/ Abandon(p) \/ RecomputeBlobRefcounts(p)
  BY <1>3 DEF CleanupStep, StartCleanup, ReapFile, FinishReaping, Scan, Abandon,
              RecomputeBlobRefcounts, env
<1>4. CASE ReadStep(p)
  BY <1>4 DEF ReadStep, StartServe, StartCopy, BuildCopy, RefuseCopy, NoteCopy, OpenObject,
              ForgetCopies, env
<1> QED BY <1>1, <1>2, <1>3, <1>4 DEF HandlerStep

\* What one handler relies on survives the steps of the others.
LEMMA ReliedByOthers ==
  ASSUME TypeInv, CountInv, ObjectInv, NEW p \in Handlers, HandlerStep(p),
         NEW q \in Handlers \ {p}
  PROVE  (Relied(q))'
<1>1. LocksHeld /\ Relied(q) /\ OthersAlone(p)
  BY OtherLocks DEF CountInv, ObjectInv
<1>2. pc'[q] = pc[q] /\ task'[q] = task[q]
  BY <1>1 DEF OthersAlone
<1>3. CASE pc[q] \in Promising
  <2>1. PICK c \in Contents : c = task[q].sha
    BY <1>3 DEF TypeInv, HandlersOK, LocalsFit, Locked, Promising
  <2>2. holder[c] = q
    BY <1>1, <1>3, <2>1 DEF LocksHeld, Locked, Promising
  <2>3. Quiet(c)
    BY <1>1, <2>2, QuietSteps, LoudAtHome
  <2>4. /\ blobs[c].roles \subseteq Roles /\ setting \in Settings
        /\ task[q].role \in CopyRoles \/ pc[q] # "note"
    BY DEF TypeInv, TypeOK, HandlersOK, LocalsFit, Blob
  <2>5. setting' = setting
    BY SettingKept
  <2>6. Complete(c) => (Complete(c))'
    BY <2>3, <2>4 DEF Quiet, Complete, BlobKeys
  <2>7. Recorded(c)' => Recorded(c)
    BY <2>3 DEF Quiet, Recorded
  <2>8. UploadKeys(c) \subseteq objects => (UploadKeys(c) \subseteq objects)'
    <3>1. UploadKeys(c) = {<<c, "original">>, <<c, setting>>}
      BY DEF UploadKeys
    <3>2. (UploadKeys(c))' = UploadKeys(c)
      BY <2>5 DEF UploadKeys
    <3>3. "original" \in Roles /\ setting \in Roles
      BY <2>4 DEF Roles, Renditions
    <3>4. /\ <<c, "original">> \in objects => <<c, "original">> \in objects'
          /\ <<c, setting>> \in objects => <<c, setting>> \in objects'
      BY <2>3, <3>3 DEF Quiet
    <3> QED BY <3>1, <3>2, <3>4
  <2>9. \A r \in Roles : <<c, r>> \in objects => <<c, r>> \in objects'
    BY <2>3 DEF Quiet
  <2>10. RowsOf(c) = {} => (RowsOf(c))' = {}
    BY <2>3 DEF Quiet
  <2> QED BY <1>1, <1>2, <2>1, <2>4, <2>6, <2>7, <2>8, <2>9, <2>10
          DEF Relied, Roles, Complete, Recorded, RowsOf, UploadKeys, BlobKeys
<1>4. CASE pc[q] \notin Promising
  BY <1>2, <1>4 DEF Relied, Promising
<1> QED BY <1>3, <1>4

\* What a handler comes to rely on is what its step just found or did.
LEMMA ReliedByItself ==
  ASSUME TypeInv, CountInv, ObjectInv, NEW p \in Handlers, HandlerStep(p), "reread" \notin Faults
  PROVE  (Relied(p))'
<1>0. HandlersOK /\ task[p] \in Task /\ LocalsFit(pc[p], task[p]) /\ setting' = setting
  BY SettingKept DEF TypeInv, HandlersOK
<1>1. CountsOK /\ Relied(p)
  BY DEF CountInv, CountsOK, ObjectInv
<1>2. CASE pc'[p] \notin Promising
  BY <1>2 DEF Relied, Promising
<1>3. CASE LookUp(p)
  <2>1. PICK c \in Contents : c = task[p].sha
    BY <1>0, <1>3 DEF LookUp, LocalsFit, Locked
  <2>2. /\ pc'[p] = "reserve" /\ task'[p].sha = c
        /\ UNCHANGED <<blobs, objects>>
        /\ task'[p].reuse => task[p].reuse \/ Reusable(c)
    BY <1>0, <1>3, <2>1 DEF LookUp, Goto, HandlersOK, Task, db
  <2>3. ~task[p].reuse
    BY <1>0, <1>3 DEF LookUp, LocalsFit
  <2>4. Reusable(c) => Complete(c)
    BY DEF Reusable, Complete, ObjectInv, FilesReadable
  <2>5. task'[p].reuse => (Complete(c))'
    BY <2>2, <2>3, <2>4 DEF Complete, BlobKeys
  <2> QED BY <2>2, <2>5 DEF Relied
<1>4. CASE Reserve(p)
  <2>1. /\ pc'[p] = AfterReserve(p) /\ pc[p] = "reserve" /\ task'[p] = task[p]
        /\ UNCHANGED <<blobs, objects>>
    BY <1>0, <1>4 DEF Reserve, Goto, HandlersOK
  <2> QED BY <1>1, <2>1 DEF AfterReserve, Relied, Complete, BlobKeys
<1>5. CASE SaveOriginal(p)
  <2>1. \/ pc'[p] = "undo"
        \/ /\ pc'[p] = "renditions" /\ task'[p] = task[p]
           /\ <<task[p].sha, "original">> \in objects'
    BY <1>0, <1>5 DEF SaveOriginal, FailWith, Goto, HandlersOK
  <2> QED BY <2>1 DEF Relied
<1>6. CASE SaveRenditions(p)
  <2>1. \/ pc'[p] = "undo"
        \/ /\ pc'[p] = "ensure" /\ task'[p] = task[p] /\ pc[p] = "renditions"
           /\ objects' = objects \cup {<<task[p].sha, setting>>}
    BY <1>0, <1>6 DEF SaveRenditions, FailWith, Goto, HandlersOK
  <2>2. pc'[p] = "ensure" => (UploadKeys(task[p].sha))' \subseteq objects'
    BY <1>0, <1>1, <2>1 DEF Relied, UploadKeys
  <2> QED BY <2>1, <2>2 DEF Relied, UploadKeys
<1>7. CASE EnsureBlob(p)
  <2>1. PICK c \in Contents : c = task[p].sha
    BY <1>0, <1>7 DEF EnsureBlob, LocalsFit, Locked
  <2>2. CASE blobs' = Ensured(c) /\ pc'[p] = "record" /\ task'[p] = task[p]
    <3>1. UploadKeys(c) \subseteq objects /\ UNCHANGED <<files, objects>>
      BY <1>1, <1>7, <2>1 DEF Relied, EnsureBlob
    <3>2. CASE ~Recorded(c) \/ Orphaned(c)
      <4>1. blobs'[c].roles = {"original", setting}
        BY <2>2, <3>2 DEF Ensured, TypeInv, TypeOK, Blob
      <4> QED BY <2>1, <2>2, <3>1, <4>1 DEF Relied, Complete, BlobKeys, UploadKeys
    <3>3. CASE Recorded(c) /\ ~Orphaned(c)
      <4>1. blobs'[c] = blobs[c]
        BY <2>2, <3>3 DEF Ensured
      <4>2. RowsOf(c) # {}
        BY <1>1, <3>3, FS_EmptySet DEF CountsOK, RefcountsExact, Orphaned
      <4>3. Complete(c)
        BY <4>2 DEF ObjectInv, FilesReadable, Complete
      <4> QED BY <2>1, <2>2, <3>1, <4>1, <4>3 DEF Relied, Complete, BlobKeys
    <3> QED BY <3>2, <3>3
  <2>3. CASE pc'[p] = "undo"
    BY <2>3 DEF Relied
  <2> QED BY <1>0, <1>7, <2>1, <2>2, <2>3 DEF EnsureBlob, FailWith, Goto, HandlersOK
<1>8. CASE Discard(p)
  <2>1. \/ pc'[p] \in {"idle", "inspect"}
        \/ /\ pc'[p] = "unstore" /\ task'[p] = task[p]
           /\ ~Recorded(task[p].sha) /\ UNCHANGED blobs
    BY <1>0, <1>8, LockFinishes DEF Discard, Goto, HandlersOK, db
  <2> QED BY <2>1 DEF Relied, Recorded
<1>9. CASE Inspect(p)
  <2>1. PICK c \in Contents : c = task[p].sha
    BY <1>0, <1>9 DEF Inspect, LocalsFit, Locked
  <2>2. \/ pc'[p] \in {"idle", "refund", "waiting"}
        \/ pc'[p] = "erase" /\ task'[p].sha = c /\ Orphaned(c) /\ UNCHANGED files
    <3>1. UNCHANGED files
      BY <1>9 DEF Inspect, db
    <3>2. CASE Released(p, TRUE) \/ Released(p, FALSE)
      BY <1>0, <3>2, LockReleases
    <3>3. CASE /\ Orphaned(c) /\ Goto(p, "erase")
               /\ task' = [task EXCEPT ![p].keys = BlobKeys(c)]
      BY <1>0, <2>1, <3>1, <3>3 DEF Goto, HandlersOK, Task
    <3> QED BY <1>9, <2>1, <3>2, <3>3 DEF Inspect
  <2>3. Orphaned(c) => RowsOf(c) = {}
    BY <1>1, NothingLeft
  <2> QED BY <2>2, <2>3 DEF Relied, RowsOf
<1>10. CASE BuildCopy(p)
  <2>1. \/ pc'[p] = "open"
        \/ /\ pc'[p] = "note" /\ task'[p] = task[p]
           /\ <<task[p].sha, task[p].role>> \in objects'
    BY <1>0, <1>10 DEF BuildCopy, ServeCopy, Goto, HandlersOK
  <2> QED BY <2>1 DEF Relied
<1> QED BY <1>2, <1>3, <1>4, <1>5, <1>6, <1>7, <1>8, <1>9, <1>10, ReachesPromise

\* What files and handlers rely on is an inductive invariant.
LEMMA ObjectStep ==
  ASSUME "reread" \notin Faults
  PROVE  TypeInv /\ CountInv /\ ObjectInv /\ [Next]_vars => ObjectInv'
<1> SUFFICES ASSUME TypeInv, CountInv, ObjectInv, [Next]_vars PROVE ObjectInv'
  OBVIOUS
<1>1. CASE \E p \in Handlers : HandlerStep(p)
  BY <1>1, ReadableStays, ReliedByOthers, ReliedByItself DEF ObjectInv
<1>2. ASSUME UNCHANGED <<blobs, objects>>, \A f \in FileIds : files'[f].sha = files[f].sha,
             UNCHANGED <<pc, task, setting>> \/ \A p \in Handlers : pc'[p] = "idle"
      PROVE  ObjectInv'
  <2>1. \A c \in Contents : (RowsOf(c))' = RowsOf(c) /\ (BlobKeys(c))' = BlobKeys(c)
    BY <1>2 DEF RowsOf, BlobKeys
  <2>2. FilesReadable'
    BY <1>2, <2>1 DEF ObjectInv, FilesReadable
  <2>3. ASSUME NEW p \in Handlers PROVE (Relied(p))'
    <3>1. CASE pc'[p] = "idle"
      BY <3>1 DEF Relied
    <3>2. CASE UNCHANGED <<pc, task, setting>>
      <4>1. RowsOf(task[p].sha) = {f \in FileIds : files'[f].sha = task[p].sha}
        BY <1>2 DEF RowsOf
      <4>2. Relied(p)
        BY DEF ObjectInv
      <4> QED BY <1>2, <3>2, <4>1, <4>2
              DEF Relied, Complete, BlobKeys, UploadKeys, Recorded, RowsOf
    <3> QED BY <1>2, <3>1, <3>2
  <2> QED BY <2>2, <2>3 DEF ObjectInv
<1>3. CASE RowStep \/ RecomputeStorageUsage
  <2>1. UNCHANGED <<blobs, objects, pc, task, setting>>
    BY <1>3 DEF RowStep, TrashFile, RestoreTrashedFile, DeadlinePasses,
                ApplyAnonymousRetention, RecomputeStorageUsage, env
  <2> QED BY <1>2, <1>3, <2>1, RowsStay
<1>4. CASE PinObjects \/ UnpinObjects \/ Crash \/ \E s \in Settings : Reconfigure(s)
  BY <1>2, <1>4 DEF PinObjects, UnpinObjects, Crash, Reconfigure, db, env
<1>5. ASSUME NEW c \in Contents, Regenerate(c) PROVE ObjectInv'
  <2>1. \A p \in Handlers : (Relied(p))'
    BY <1>5 DEF Regenerate, Relied
  <2>2. UNCHANGED files /\ blobs \in [Contents -> Blob]
    BY <1>5 DEF Regenerate, TypeInv, TypeOK
  <2>3. ASSUME NEW d \in Contents, (RowsOf(d))' # {} PROVE (BlobKeys(d) \subseteq objects)'
    <3>1. BlobKeys(d) \subseteq objects
      BY <2>2, <2>3 DEF ObjectInv, FilesReadable, RowsOf
    <3>2. CASE objects \subseteq objects' /\ UNCHANGED blobs
      BY <3>1, <3>2 DEF BlobKeys
    <3>3. CASE blobs' = [blobs EXCEPT ![c].roles = (@ \ Settings) \cup {"rebuilt"}]
      <4>1. /\ (objects \cup {<<c, "rebuilt">>}) \ ({c} \X (blobs[c].roles \cap Settings))
                 \subseteq objects'
            /\ <<c, "rebuilt">> \in objects'
        BY <1>5, StoreAssumption DEF Regenerate
      <4>2. CASE d = c
        <5>1. blobs'[d].roles = (blobs[d].roles \ Settings) \cup {"rebuilt"}
          BY <2>2, <3>3, <4>2 DEF Blob
        <5> QED BY <3>1, <4>1, <4>2, <5>1 DEF BlobKeys
      <4>3. CASE d # c
        <5>1. blobs'[d] = blobs[d]
          BY <2>2, <3>3, <4>3
        <5> QED BY <3>1, <4>1, <4>3, <5>1 DEF BlobKeys
      <4> QED BY <4>2, <4>3
    <3> QED BY <1>5, <3>2, <3>3 DEF Regenerate
  <2> QED BY <2>1, <2>3 DEF ObjectInv, FilesReadable
<1>6. CASE UNCHANGED vars
  BY <1>2, <1>6 DEF vars
<1> QED BY <1>1, <1>3, <1>4, <1>5, <1>6 DEF Next, ServerStep

\* An empty server has nothing to rely on.
LEMMA InitObjects == Init => ObjectInv
<1> SUFFICES ASSUME Init PROVE ObjectInv
  OBVIOUS
<1>1. \A c \in Contents : RowsOf(c) = {}
  BY StoreAssumption DEF Init, RowsOf, Unused
<1> QED BY <1>1 DEF ObjectInv, FilesReadable, Relied, Init

\* Every file stays readable: as long as discardFailedUpload takes no failed read
\* for a missing record, no order of uploads, removals, sweeps, copies, backups,
\* crashes and failing calls takes an object that a file's content needs.
THEOREM FilesStayReadable ==
  ASSUME "reread" \notin Faults
  PROVE  Spec => []FilesReadable
<1>1. Init => TypeInv /\ CountInv /\ ObjectInv
  BY InitType, InitCounts, InitObjects
<1>2. TypeInv /\ CountInv /\ ObjectInv /\ [Next]_vars => (TypeInv /\ CountInv /\ ObjectInv)'
  BY TypeStep, CountStep, ObjectStep
<1>3. TypeInv /\ CountInv /\ ObjectInv => FilesReadable
  BY DEF ObjectInv
<1> QED BY <1>1, <1>2, <1>3, PTL DEF Spec

----------------------------------------------------------------------------
(* The store implements the vault *)

Catalogue == [f \in FileIds |-> files[f].sha]
Held == {c \in Contents : <<c, "original">> \in objects}

\* A step of the vault, or none.
VaultStep == V!Next \/ UNCHANGED <<Catalogue, Held>>

\* Deleting rows removes them from the vault's catalogue.
LEMMA DeletingRemoves ==
  ASSUME TypeInv, NEW gone \in SUBSET FileIds, DeleteRows(gone), UNCHANGED objects
  PROVE  VaultStep
<1>1. Catalogue' = [f \in FileIds |-> IF f \in gone THEN None ELSE Catalogue[f]]
  BY DEF DeleteRows, Catalogue, Deleted
<1>2. Held' = Held
  BY DEF Held
<1>3. V!Remove(gone)
  BY <1>1, <1>2 DEF V!Remove, Catalogue, Held
<1> QED BY <1>3 DEF VaultStep, V!Next

\* Letting go of objects of content that no file names.
LEMMA UnstoringReleases ==
  ASSUME TypeInv, NEW c \in Contents, RowsOf(c) = {}, UNCHANGED files,
         NEW gone \in SUBSET ({c} \X Roles), objects' = objects \ gone
  PROVE  VaultStep
<1>1. Catalogue' = Catalogue
  BY DEF Catalogue
<1>2. c \notin V!Named
  BY DEF V!Named, RowsOf
<1>3. Held' = Held \/ Held' = Held \ {c}
  BY DEF Held
<1>4. CASE Held' = Held \ {c}
  <2>1. V!Release(c)
    BY <1>1, <1>2, <1>4 DEF V!Release, Catalogue, Held
  <2> QED BY <2>1 DEF VaultStep, V!Next
<1> QED BY <1>1, <1>3, <1>4 DEF VaultStep

\* Each step of a handler is one step of the vault or none.
LEMMA HandlerVault ==
  ASSUME TypeInv, CountInv, ObjectInv, NEW p \in Handlers, HandlerStep(p)
  PROVE  VaultStep
<1>0. /\ task[p] \in Task /\ LocalsFit(pc[p], task[p])
      /\ blobs \in [Contents -> Blob] /\ setting \in Settings
  BY DEF TypeInv, TypeOK, HandlersOK
<1>1. CountsOK /\ Relied(p) /\ Countable(p)
  BY DEF CountInv, CountsOK, ObjectInv
<1>2. CASE UNCHANGED <<files, objects>>
  BY <1>2 DEF VaultStep, Catalogue, Held
<1>3. ASSUME UNCHANGED files, NEW key \in Keys, key[2] # "original",
             objects' \in {objects, objects \cup {key}}
      PROVE  VaultStep
  BY <1>3 DEF VaultStep, Catalogue, Held, Keys
<1>4. CASE SaveOriginal(p)
  <2>1. PICK c \in Contents : c = task[p].sha
    BY <1>0, <1>4 DEF SaveOriginal, LocalsFit, Locked
  <2>2. objects' \in {objects, objects \cup {<<c, "original">>}} /\ UNCHANGED files
    BY <1>4, <2>1 DEF SaveOriginal, db
  <2>3. CASE objects' = objects \cup {<<c, "original">>}
    <3>1. Held' = Held \cup {c}
      BY <2>3 DEF Held
    <3>2. V!Keep(c)
      BY <2>2, <3>1 DEF V!Keep, Held
    <3> QED BY <3>2 DEF VaultStep, V!Next
  <2> QED BY <1>2, <2>2, <2>3
<1>5. CASE SaveRenditions(p)
  <2>1. <<task[p].sha, setting>> \in Keys /\ setting # "original"
    BY <1>0, <1>5, StoreAssumption DEF SaveRenditions, LocalsFit, Locked, Keys, Roles, Renditions
  <2> QED BY <1>3, <1>5, <2>1 DEF SaveRenditions, db
<1>6. CASE BuildCopy(p) \/ RefuseCopy(p)
  <2>1. pc[p] = "build"
    BY <1>6 DEF BuildCopy, RefuseCopy
  <2>2. <<task[p].sha, task[p].role>> \in Keys /\ task[p].role # "original"
    BY <1>0, <2>1, StoreAssumption DEF LocalsFit, Locked, Keys, Roles
  <2> QED BY <1>3, <1>6, <2>2 DEF BuildCopy, RefuseCopy, db
<1>7. CASE CreateFile(p)
  <2>1. PICK c \in Contents : c = task[p].sha
    BY <1>0, <1>7 DEF CreateFile, LocalsFit, Locked
  <2>2. PICK f \in FileIds :
          /\ files[f].state = "unused"
          /\ files' = [files EXCEPT ![f] =
                [state |-> "live", sha |-> c, owner |-> task[p].owner]]
    BY <1>7, <2>1 DEF CreateFile
  <2>3. Catalogue[f] = None
    BY <2>2, Rows DEF Catalogue
  <2>4. Catalogue' = [Catalogue EXCEPT ![f] = c]
    BY <2>2 DEF Catalogue, TypeInv, TypeOK
  <2>5. c \in Held /\ Held' = Held
    BY <1>1, <1>7, <2>1 DEF CreateFile, Relied, Countable, Recorded, Complete, BlobKeys, Held
  <2>6. V!Enter(f, c)
    BY <2>3, <2>4, <2>5 DEF V!Enter, Catalogue, Held
  <2> QED BY <2>6 DEF VaultStep, V!Next
<1>8. CASE Unstore(p) \/ Erase(p)
  <2>1. PICK c \in Contents : c = task[p].sha
    BY <1>0, <1>8 DEF Unstore, Erase, LocalsFit, Locked
  <2>2. RowsOf(c) = {}
    BY <1>1, <1>8, <2>1, NothingLeft DEF Unstore, Erase, Relied
  <2>3. task[p].keys \subseteq {c} \X Roles
    BY <1>0, <1>8, <2>1 DEF Unstore, Erase, LocalsFit
  <2>4. PICK gone \in SUBSET task[p].keys : objects' = objects \ gone
    BY <1>8 DEF Unstore, Erase, Removable
  <2>5. UNCHANGED files
    BY <1>8 DEF Unstore, Erase, db
  <2> QED BY <2>2, <2>3, <2>4, <2>5, UnstoringReleases
<1>9. CASE DeleteFile(p) \/ ReapFile(p)
  <2>1. task[p].batch \in SUBSET FileIds
    BY <1>0 DEF Task
  <2> QED BY <1>2, <1>9, <2>1, DeletingRemoves DEF DeleteFile, ReapFile
<1>10. CASE OwnerStep(p)
  BY <1>10, DeletingRemoves DEF OwnerStep, PurgeTrashedFile, DeleteAccount, RowsOwned
<1>11. CASE UploadStep(p)
  BY <1>2, <1>4, <1>5, <1>7, <1>8, <1>11
     DEF UploadStep, StartUpload, LookUp, RefuseMedia, Reserve, RefuseReserve, RefuseClip,
         EnsureBlob, RefuseFile, Undo, Discard, db
<1>12. CASE ReleaseStep(p) \/ StaffStep(p)
  BY <1>2, <1>8, <1>9, <1>12
     DEF ReleaseStep, AcquireContent, Inspect, Drop, Refund, StaffStep, StartStaffRemoval, db
<1>13. CASE CleanupStep(p) \/ Abandon(p) \/ RecomputeBlobRefcounts(p)
  BY <1>2, <1>9, <1>13
     DEF CleanupStep, StartCleanup, FinishReaping, Scan, Abandon, RecomputeBlobRefcounts, db
<1>14. CASE ReadStep(p)
  BY <1>2, <1>6, <1>14
     DEF ReadStep, StartServe, StartCopy, NoteCopy, OpenObject, ForgetCopies, db
<1> QED BY <1>10, <1>11, <1>12, <1>13, <1>14 DEF HandlerStep

\* So is each step of the store.
LEMMA NextVault ==
  ASSUME TypeInv, CountInv, ObjectInv, [Next]_vars
  PROVE  [V!Next]_(V!vars)
<1>1. CASE \E p \in Handlers : HandlerStep(p)
  BY <1>1, HandlerVault DEF VaultStep, Catalogue, Held, V!vars
<1>2. ASSUME UNCHANGED objects, \A f \in FileIds : files'[f].sha = files[f].sha
      PROVE  UNCHANGED V!vars
  BY <1>2 DEF V!vars
<1>3. CASE RowStep \/ RecomputeStorageUsage
  <2>1. UNCHANGED objects
    BY <1>3 DEF RowStep, TrashFile, RestoreTrashedFile, DeadlinePasses,
                ApplyAnonymousRetention, RecomputeStorageUsage
  <2> QED BY <1>2, <1>3, <2>1, RowsStay
<1>4. CASE PinObjects \/ UnpinObjects \/ Crash \/ \E s \in Settings : Reconfigure(s)
  BY <1>2, <1>4 DEF PinObjects, UnpinObjects, Crash, Reconfigure, db
<1>5. ASSUME NEW c \in Contents, Regenerate(c) PROVE UNCHANGED V!vars
  <2>1. UNCHANGED files
    BY <1>5 DEF Regenerate
  <2>2. \A d \in Contents : <<d, "original">> \in objects' <=> <<d, "original">> \in objects
    BY <1>5, StoreAssumption DEF Regenerate
  <2> QED BY <2>1, <2>2 DEF V!vars
<1>6. CASE UNCHANGED vars
  BY <1>2, <1>6 DEF vars
<1> QED BY <1>1, <1>3, <1>4, <1>5, <1>6 DEF Next, ServerStep

\* The whole store, with all its handlers, locks and failures, is an
\* implementation of the vault: content is let go only while no file names it,
\* and a file is recorded only once its bytes are held.
THEOREM StoreImplementsVault ==
  ASSUME "reread" \notin Faults
  PROVE  Spec => ImplementsVault
<1>1. Init => TypeInv /\ CountInv /\ ObjectInv
  BY InitType, InitCounts, InitObjects
<1>2. TypeInv /\ CountInv /\ ObjectInv /\ [Next]_vars => (TypeInv /\ CountInv /\ ObjectInv)'
  BY TypeStep, CountStep, ObjectStep
<1>3. Init => V!Init
  BY DEF Init, V!Init, Unused
<1>4. TypeInv /\ CountInv /\ ObjectInv /\ [Next]_vars => [V!Next]_(V!vars)
  BY NextVault
<1> QED BY <1>1, <1>2, <1>3, <1>4, PTL DEF Spec, ImplementsVault, V!Spec

\* What the store inherits by implementing the vault: the bytes of every
\* catalogued file are held, in every state the vault can reach.
THEOREM VaultReadable == V!Spec => []V!Readable
<1>1. V!Init => V!Readable
  BY DEF V!Init, V!Readable, V!Named
<1>2. V!Readable /\ [V!Next]_(V!vars) => V!Readable'
  <2> SUFFICES ASSUME V!Readable, [V!Next]_(V!vars) PROVE V!Readable'
    OBVIOUS
  <2>1. ASSUME NEW c \in Contents, V!Keep(c) \/ V!Release(c) PROVE V!Readable'
    BY <2>1 DEF V!Keep, V!Release, V!Readable, V!Named
  <2>2. ASSUME NEW f \in FileIds, NEW c \in Contents, V!Enter(f, c) PROVE V!Readable'
    <3> DEFINE catalogue == [g \in FileIds |-> files[g].sha]
    <3>1. \A g \in FileIds : catalogue'[g] \in {catalogue[g], c}
      <4>1. catalogue' = [catalogue EXCEPT ![f] = c]
        BY <2>2 DEF V!Enter
      <4>2. DOMAIN catalogue = FileIds
        OBVIOUS
      <4> HIDE DEF catalogue
      <4> QED BY <4>1, <4>2
    <3>2. (V!Named)' \subseteq V!Named \cup {c}
      BY <3>1 DEF V!Named
    <3> QED BY <2>2, <3>2 DEF V!Enter, V!Readable
  <2>3. ASSUME NEW gone \in SUBSET FileIds, V!Remove(gone) PROVE V!Readable'
    BY <2>3 DEF V!Remove, V!Readable, V!Named
  <2>4. CASE UNCHANGED V!vars
    BY <2>4 DEF V!vars, V!Readable, V!Named
  <2> QED BY <2>1, <2>2, <2>3, <2>4 DEF V!Next
<1> QED BY <1>1, <1>2, PTL DEF V!Spec

----------------------------------------------------------------------------
(* What a handler is for *)

\* The labels that only one kind of handler reaches.
Purpose(label, op) ==
    /\ label = "deleteRow" => op = "remove"
    /\ label = "reap" => op = "reap"
    /\ label = "scan" => op = "sweep"
    /\ label = "open" => op \in {"serve", "copy"}

Purposes == \A p \in Handlers : Purpose(pc[p], task[p].op)

\* Where a handler p goes on, with which task t.
Turns(p, label, t) ==
    pc' = [pc EXCEPT ![p] = label] /\ task' = [task EXCEPT ![p] = t]

\* What is left of the purpose: nothing, or the same file and content.
Same(t, u) == t.op = u.op /\ t.sha = u.sha /\ t.role = u.role /\ t.batch = u.batch

\* A handler that returns, goes on with what it has, or has another object or
\* content to see to.
Goes(p) ==
    \E label \in Labels, t \in Task :
        /\ Turns(p, label, t)
        /\ \/ t = NoTask /\ label = "idle"
           \/ Same(t, task[p]) /\ label \notin {"deleteRow", "reap", "scan", "open"}
           \/ Same(t, task[p]) /\ label = "reap" /\ t.op = "reap"
           \/ t.op = "sweep" /\ label \in {"waiting", "scan"}
           \/ t.op = "upload" /\ label = "waiting"

\* A handler that starts to work on a file, or to serve it.
Starts(p) ==
    \/ \E f \in FileIds, op \in {"remove", "serve", "copy"}, r \in Roles \cup {None} :
          /\ files[f].sha # None /\ pc[p] = "idle"
          /\ \/ op = "remove" /\ Turns(p, "deleteRow", Working(op, f, r))
             \/ op = "remove" /\ Turns(p, "waiting", Working(op, f, r))
             \/ op = "copy" /\ Turns(p, "waiting", Working(op, f, r))
             \/ /\ op = "serve" /\ Turns(p, "open", Working(op, f, r))
                /\ r \in blobs[files[f].sha].roles /\ UNCHANGED <<files, objects>>
    \/ \E t \in Task : t.op = "reap" /\ \/ Turns(p, "reap", t)
                                        \/ Turns(p, "waiting", t)

\* A handler that has the copy it was to build.
ServesBuilt(p) ==
    /\ ServeCopy(p) /\ pc[p] \in {"build", "note"} /\ UNCHANGED <<files, objects>>
    /\ pc[p] = "build" => task[p].role \in blobs[task[p].sha].roles

LEMMA Returns ==
  ASSUME TypeInv, NEW p \in Handlers, Finish(p)
  PROVE  Goes(p)
<1>1. Turns(p, "idle", NoTask) /\ NoTask \in Task /\ "idle" \in Labels
  BY Typed DEF Finish, Goto, Turns, Labels
<1> QED BY <1>1 DEF Goes

LEMMA GoesOn ==
  ASSUME TypeInv, NEW p \in Handlers, NEW label \in Labels, Goto(p, label), UNCHANGED task,
         \/ label \notin {"deleteRow", "reap", "scan", "open"}
         \/ label = "reap" /\ task[p].op = "reap"
  PROVE  Goes(p)
<1>1. Turns(p, label, task[p]) /\ task[p] \in Task
  BY DEF TypeInv, HandlersOK, Goto, Turns
<1> QED BY <1>1 DEF Goes, Same

LEMMA GoesWith ==
  ASSUME TypeInv, NEW p \in Handlers, NEW label \in Labels, NEW keys, NEW reuse,
         Goto(p, label), label \notin {"deleteRow", "reap", "scan", "open"},
         task' \in [Handlers -> Task],
         \/ task' = [task EXCEPT ![p].keys = keys]
         \/ task' = [task EXCEPT ![p].reuse = reuse]
  PROVE  Goes(p)
<1>1. /\ Turns(p, label, task'[p]) /\ task'[p] \in Task /\ Same(task'[p], task[p])
  BY DEF TypeInv, HandlersOK, Goto, Turns, Same, Task
<1> QED BY <1>1 DEF Goes

LEMMA ReleasedGoes ==
  ASSUME TypeInv, NEW p \in Handlers, NEW ok, Released(p, ok), task' \in [Handlers -> Task]
  PROVE  Goes(p)
<1>1. CASE Goto(p, "idle") /\ task' = [task EXCEPT ![p] = NoTask]
  BY <1>1, Typed DEF Goto, Turns, Goes, Labels
<1>2. CASE Goto(p, "refund") /\ UNCHANGED task
  BY <1>2, GoesOn DEF Labels
<1>3. ASSUME task[p].op = "sweep", NEW c \in task[p].orphans, Goto(p, "waiting"),
             task' = [task EXCEPT ![p].sha = c, ![p].orphans = @ \ {c}]
      PROVE  Goes(p)
  <2>1. Turns(p, "waiting", task'[p]) /\ task'[p] \in Task /\ task'[p].op = "sweep"
    BY <1>3 DEF TypeInv, HandlersOK, Goto, Turns, Task
  <2> QED BY <2>1 DEF Goes, Labels
<1> QED BY <1>1, <1>2, <1>3 DEF Released

\* Every step of a handler is one of these, or hands a copy over to be served.
LEMMA HandlerGoes ==
  ASSUME TypeInv, Purposes, NEW p \in Handlers, HandlerStep(p)
  PROVE  \/ Goes(p) \/ Starts(p)
         \/ ServesBuilt(p)
<1>0. /\ pc \in [Handlers -> Labels] /\ task \in [Handlers -> Task]
      /\ task[p] \in Task /\ LocalsFit(pc[p], task[p]) /\ Purpose(pc[p], task[p].op)
  BY DEF TypeInv, HandlersOK, Purposes
<1>00. task' \in [Handlers -> Task]
  BY TypeStep DEF TypeInv, HandlersOK, Next
<1>1. CASE UploadStep(p)
  <2>1. CASE \E c \in Contents, u \in accounts \cup {Anonymous} : StartUpload(p, u, c)
    <3>1. Turns(p, "waiting", task'[p]) /\ task'[p].op = "upload" /\ task'[p] \in Task
      BY <1>0, <1>00, <2>1 DEF StartUpload, Goto, Turns, NoTask
    <3> QED BY <3>1 DEF Goes, Labels
  <2>2. CASE LookUp(p)
    BY <1>00, <2>2, GoesOn, GoesWith DEF LookUp, Labels
  <2>3. CASE RefuseMedia(p) \/ RefuseReserve(p) \/ CreateFile(p) \/ Unstore(p)
    BY <2>3, Returns DEF RefuseMedia, RefuseReserve, CreateFile, Unstore
  <2>4. CASE Reserve(p)
    BY <2>4, GoesOn DEF Reserve, AfterReserve, Labels
  <2>5. ASSUME NEW keys, FailWith(p, keys) PROVE Goes(p)
    BY <1>00, <2>5, GoesWith DEF FailWith, Labels
  <2>6. CASE SaveOriginal(p) \/ SaveRenditions(p) \/ RefuseClip(p) \/ EnsureBlob(p) \/ RefuseFile(p)
    BY <2>5, <2>6, GoesOn
       DEF SaveOriginal, SaveRenditions, RefuseClip, EnsureBlob, RefuseFile, Labels
  <2>7. CASE Undo(p) \/ Discard(p)
    BY <2>7, GoesOn, Returns DEF Undo, Discard, Labels
  <2> QED BY <1>1, <2>1, <2>2, <2>3, <2>4, <2>6, <2>7 DEF UploadStep
<1>2. CASE ReleaseStep(p)
  <2>1. CASE AcquireContent(p)
    BY <2>1, GoesOn DEF AcquireContent, AfterAcquire, Labels
  <2>2. CASE Inspect(p)
    BY <1>00, <2>2, ReleasedGoes, GoesWith DEF Inspect, Labels
  <2>3. CASE Erase(p) \/ Drop(p)
    BY <1>00, <2>3, ReleasedGoes, GoesOn DEF Erase, Drop, Labels
  <2>4. CASE Refund(p)
    BY <2>4, GoesOn, Returns DEF Refund, Labels
  <2> QED BY <1>2, <2>1, <2>2, <2>3, <2>4 DEF ReleaseStep
<1>3. CASE StaffStep(p) \/ OwnerStep(p) \/ RecomputeBlobRefcounts(p) \/ Abandon(p)
  <2>1. ASSUME NEW f \in FileIds, StartStaffRemoval(p, f) PROVE Starts(p)
    BY <2>1 DEF StartStaffRemoval, Goto, Starts, Turns
  <2>2. CASE DeleteFile(p)
    BY <2>2, GoesOn, Returns DEF DeleteFile, Labels
  <2>3. ASSUME NEW f \in FileIds, PurgeTrashedFile(p, f) PROVE Starts(p)
    <3>1. files[f].sha # None
      BY <2>3, Rows DEF PurgeTrashedFile
    <3> QED BY <2>3, <3>1 DEF PurgeTrashedFile, Goto, Starts, Turns
  <2>4. CASE RecomputeBlobRefcounts(p) \/ \E u \in Users : DeleteAccount(p, u)
    <3>1. Turns(p, "scan", task'[p]) /\ task'[p].op = "sweep" /\ task'[p] \in Task
      BY <1>0, <1>00, <2>4 DEF RecomputeBlobRefcounts, DeleteAccount, Goto, Turns, NoTask
    <3> QED BY <3>1 DEF Goes, Labels
  <2>5. CASE Abandon(p)
    BY <2>5, Returns DEF Abandon
  <2> QED BY <1>3, <2>1, <2>2, <2>3, <2>4, <2>5 DEF StaffStep, OwnerStep
<1>4. CASE CleanupStep(p)
  <2>1. CASE StartCleanup(p) \/ ReapFile(p)
    <3>1. /\ Turns(p, "reap", task'[p]) \/ Turns(p, "waiting", task'[p])
          /\ task'[p].op = "reap" /\ task'[p] \in Task
      <4>1. CASE StartCleanup(p)
        BY <1>0, <1>00, <4>1 DEF StartCleanup, Goto, Turns, NoTask
      <4>2. CASE ReapFile(p)
        <5>1. task[p].op = "reap" /\ pc[p] = "reap"
          BY <1>0, <4>2 DEF ReapFile, Purpose
        <5>2. PICK f \in task[p].batch :
                 \/ /\ task' = [task EXCEPT ![p].sha = files[f].sha, ![p].owner = files[f].owner,
                                            ![p].batch = @ \ {f}]
                    /\ Goto(p, "waiting")
                 \/ task' = [task EXCEPT ![p].batch = @ \ {f}] /\ UNCHANGED pc
          BY <4>2, ZenonT(60) DEF ReapFile
        <5>3. task'[p].op = "reap" /\ task'[p] \in Task /\ task' = [task EXCEPT ![p] = task'[p]]
          <6>1. CASE task' = [task EXCEPT ![p].sha = files[f].sha, ![p].owner = files[f].owner,
                                          ![p].batch = @ \ {f}]
            <7> DEFINE t == [task[p] EXCEPT !.sha = files[f].sha, !.owner = files[f].owner,
                                            !.batch = @ \ {f}]
            <7>1. task' = [task EXCEPT ![p] = t] /\ t.op = "reap"
              BY <1>0, <5>1, <6>1 DEF Task
            <7> HIDE DEF t
            <7> QED BY <1>0, <1>00, <7>1
          <6>2. CASE task' = [task EXCEPT ![p].batch = @ \ {f}]
            BY <1>0, <1>00, <5>1, <6>2 DEF Task
          <6> QED BY <5>2, <6>1, <6>2
        <5>4. pc' = [pc EXCEPT ![p] = "reap"] \/ pc' = [pc EXCEPT ![p] = "waiting"]
          BY <1>0, <5>1, <5>2 DEF Goto
        <5> QED BY <5>3, <5>4 DEF Turns
      <4> QED BY <2>1, <4>1, <4>2
    <3> QED BY <3>1 DEF Starts
  <2>2. CASE FinishReaping(p)
    <3>1. Turns(p, "scan", task'[p]) /\ task'[p].op = "sweep" /\ task'[p] \in Task
      BY <1>0, <1>00, <2>2 DEF FinishReaping, Goto, Turns, NoTask
    <3> QED BY <3>1 DEF Goes, Labels
  <2>3. CASE Scan(p) /\ ~Finish(p)
    <3>1. task[p].op = "sweep"
      BY <1>0, <2>3 DEF Scan, Purpose
    <3>2. PICK c \in Orphans : /\ task' = [task EXCEPT ![p].sha = c, ![p].orphans = Orphans \ {c}]
                               /\ Goto(p, "waiting")
      BY <2>3 DEF Scan
    <3>3. task'[p].op = "sweep" /\ task'[p] \in Task /\ task' = [task EXCEPT ![p] = task'[p]]
      BY <1>0, <1>00, <3>1, <3>2 DEF Task
    <3>4. Turns(p, "waiting", task'[p])
      BY <3>2, <3>3 DEF Goto, Turns
    <3> QED BY <3>3, <3>4 DEF Goes, Labels
  <2> QED BY <1>4, <2>1, <2>2, <2>3, Returns DEF CleanupStep
<1>5. CASE ReadStep(p)
  <2>1. ASSUME NEW f \in FileIds, NEW r \in Roles, StartServe(p, f, r) PROVE Starts(p)
    BY <2>1, Rows DEF StartServe, Goto, Starts, Turns, db
  <2>2. ASSUME NEW f \in FileIds, NEW r \in CopyRoles, StartCopy(p, f, r) PROVE Starts(p)
    <3>1. r \in Roles /\ files[f].sha # None
      BY <2>2, Rows DEF Roles, StartCopy
    <3> QED BY <2>2, <3>1 DEF StartCopy, Goto, Starts, Turns
  <2>3. CASE BuildCopy(p) \/ NoteCopy(p)
    BY <2>3, GoesOn, Returns DEF BuildCopy, NoteCopy, CopyKnown, ServesBuilt, Labels, db
  <2>4. CASE RefuseCopy(p) \/ OpenObject(p) \/ ForgetCopies(p)
    BY <2>4, GoesOn, Returns DEF RefuseCopy, OpenObject, ForgetCopies, Labels
  <2> QED BY <1>5, <2>1, <2>2, <2>3, <2>4 DEF ReadStep
<1> QED BY <1>1, <1>2, <1>3, <1>4, <1>5 DEF HandlerStep

\* So every step leaves the other handlers alone, and goes where its purpose leads.
LEMMA HandlerPurpose ==
  ASSUME TypeInv, Purposes, NEW p \in Handlers, HandlerStep(p)
  PROVE  /\ \A q \in Handlers : q # p => pc'[q] = pc[q] /\ task'[q] = task[q]
         /\ Purpose(pc'[p], task'[p].op)
<1>0. /\ pc \in [Handlers -> Labels] /\ task \in [Handlers -> Task]
      /\ LocalsFit(pc[p], task[p]) /\ Purpose(pc[p], task[p].op)
  BY DEF TypeInv, HandlersOK, Purposes
<1>1. ASSUME NEW label, NEW t, Turns(p, label, t), Purpose(label, t.op)
      PROVE  /\ \A q \in Handlers : q # p => pc'[q] = pc[q] /\ task'[q] = task[q]
             /\ Purpose(pc'[p], task'[p].op)
  BY <1>0, <1>1 DEF Turns
<1>2. CASE Goes(p)
  BY <1>0, <1>1, <1>2 DEF Goes, Purpose, Same
<1>3. CASE Starts(p)
  <2>1. \A op, f, r : Working(op, f, r).op = op
    BY DEF Working, NoTask
  <2> QED BY <1>1, <1>3, <2>1 DEF Starts, Purpose
<1>4. CASE ServesBuilt(p)
  <2>1. Turns(p, "open", task[p]) /\ task[p].op = "copy"
    BY <1>0, <1>4 DEF ServesBuilt, ServeCopy, Goto, Turns, LocalsFit
  <2> QED BY <1>1, <2>1 DEF Purpose
<1> QED BY <1>2, <1>3, <1>4, HandlerGoes

\* The rest of the server leaves handlers alone, or ends them all.
LEMMA HandlersAlone ==
  ASSUME TypeInv, RowStep \/ ServerStep \/ RecomputeStorageUsage \/ UNCHANGED vars
  PROVE  UNCHANGED <<pc, task>> \/ \A p \in Handlers : pc'[p] = "idle" /\ task'[p] = NoTask
BY DEF RowStep, ServerStep, RecomputeStorageUsage, vars, TrashFile, RestoreTrashedFile,
       DeadlinePasses, ApplyAnonymousRetention, PinObjects, UnpinObjects, Crash, Reconfigure,
       Regenerate

LEMMA PurposeStep == TypeInv /\ Purposes /\ [Next]_vars => Purposes'
<1> SUFFICES ASSUME TypeInv, Purposes, [Next]_vars PROVE Purposes'
  OBVIOUS
<1>1. ASSUME NEW p \in Handlers, HandlerStep(p) PROVE Purposes'
  BY <1>1, HandlerPurpose DEF Purposes
<1>2. CASE RowStep \/ ServerStep \/ RecomputeStorageUsage \/ UNCHANGED vars
  BY <1>2, HandlersAlone DEF Purposes, Purpose
<1> QED BY <1>1, <1>2 DEF Next

\* The steps of a handler that touch the rows of files.
LEMMA RowSteps ==
  ASSUME NEW p \in Handlers, HandlerStep(p)
  PROVE  \/ UNCHANGED files \/ CreateFile(p) \/ DeleteFile(p) \/ ReapFile(p)
         \/ (\E g \in FileIds : PurgeTrashedFile(p, g))
         \/ (\E u \in Users : DeleteAccount(p, u))
<1>1. CASE UploadStep(p)
  <2>1. CASE LookUp(p) \/ RefuseMedia(p) \/ Reserve(p) \/ RefuseReserve(p) \/ SaveOriginal(p)
    BY <2>1 DEF LookUp, RefuseMedia, Reserve, RefuseReserve, SaveOriginal, db
  <2>4. CASE \E c \in Contents, u \in accounts \cup {Anonymous} : StartUpload(p, u, c)
    BY <2>4 DEF StartUpload, db
  <2>2. CASE SaveRenditions(p) \/ RefuseClip(p) \/ EnsureBlob(p) \/ RefuseFile(p)
    BY <2>2 DEF SaveRenditions, RefuseClip, EnsureBlob, RefuseFile, db
  <2>3. CASE Undo(p) \/ Discard(p) \/ Unstore(p)
    BY <2>3 DEF Undo, Discard, Unstore, db
  <2> QED BY <1>1, <2>1, <2>2, <2>3, <2>4 DEF UploadStep
<1>2. CASE ReleaseStep(p)
  BY <1>2 DEF ReleaseStep, AcquireContent, Inspect, Erase, Drop, Refund, db
<1>3. CASE StaffStep(p) \/ OwnerStep(p) \/ RecomputeBlobRefcounts(p) \/ Abandon(p)
  BY <1>3 DEF StaffStep, OwnerStep, StartStaffRemoval, RecomputeBlobRefcounts, Abandon, db
<1>4. CASE CleanupStep(p)
  BY <1>4 DEF CleanupStep, StartCleanup, FinishReaping, Scan, db
<1>5. CASE ReadStep(p)
  BY <1>5 DEF ReadStep, StartServe, StartCopy, BuildCopy, RefuseCopy, NoteCopy, OpenObject,
              ForgetCopies, db
<1> QED BY <1>1, <1>2, <1>3, <1>4, <1>5 DEF HandlerStep

\* A handler that does not bring a file takes some away, or none.
LEMMA RowsGo ==
  ASSUME TypeInv, NEW p \in Handlers, HandlerStep(p), ~CreateFile(p)
  PROVE  UNCHANGED files \/ \E gone \in SUBSET FileIds : DeleteRows(gone)
<1>0. task[p].batch \in SUBSET FileIds
  BY DEF TypeInv, TypeOK, Task
<1>1. CASE DeleteFile(p)
  BY <1>0, <1>1 DEF DeleteFile
<1>2. CASE ReapFile(p)
  <2>1. UNCHANGED files \/ \E g \in task[p].batch : DeleteRows({g})
    BY <1>2, ZenonT(60) DEF ReapFile
  <2> QED BY <1>0, <2>1
<1>3. CASE \E g \in FileIds : PurgeTrashedFile(p, g)
  BY <1>3 DEF PurgeTrashedFile
<1>4. CASE \E u \in Users : DeleteAccount(p, u)
  BY <1>4 DEF DeleteAccount, RowsOwned
<1> QED BY <1>1, <1>2, <1>3, <1>4, RowSteps

\* A live file goes by a removal, or with the account that owns it.
LEMMA LiveStep ==
  ASSUME TypeInv, Purposes, [Next]_vars, NEW f \in FileIds,
         files[f].state = "live", files'[f].sha = None
  PROVE  \/ files[f].owner \in accounts \ accounts'
         \/ \E p \in Handlers : task[p].op = "remove" /\ f \in task[p].batch
<1>0. files[f].sha # None
  BY Rows
<1>1. CASE RowStep \/ ServerStep \/ RecomputeStorageUsage \/ UNCHANGED vars
  BY <1>0, <1>1, RowsStay DEF vars
<1>2. ASSUME NEW p \in Handlers, HandlerStep(p)
      PROVE  \/ files[f].owner \in accounts \ accounts'
             \/ \E q \in Handlers : task[q].op = "remove" /\ f \in task[q].batch
  <2>1. CASE DeleteFile(p)
    <3>1. task[p].op = "remove" /\ f \in task[p].batch
      BY <1>0, <2>1 DEF DeleteFile, DeleteRows, Purposes, Purpose
    <3> QED BY <3>1
  <2>2. CASE ReapFile(p)
    BY <1>0, <2>2 DEF ReapFile, DeleteRows, Expired
  <2>3. CASE \E g \in FileIds : PurgeTrashedFile(p, g)
    BY <1>0, <2>3 DEF PurgeTrashedFile, DeleteRows
  <2>4. CASE \E u \in Users : DeleteAccount(p, u)
    <3>1. PICK u \in Users : DeleteAccount(p, u)
      BY <2>4
    <3>2. f \in RowsOwned(u)
      BY <1>0, <3>1 DEF DeleteAccount, DeleteRows
    <3> QED BY <3>1, <3>2 DEF DeleteAccount, RowsOwned
  <2>5. CASE CreateFile(p)
    BY <1>0, <2>5 DEF CreateFile, TypeInv, TypeOK
  <2>6. CASE UNCHANGED files
    BY <1>0, <2>6
  <2> QED BY <1>2, <2>1, <2>2, <2>3, <2>4, <2>5, <2>6, RowSteps
<1> QED BY <1>1, <1>2 DEF Next

\* No file that is live is taken by the reaper or a purge, however old the list
\* it works from: DeleteExpiredFile and PurgeTrashedFile look again as they
\* delete, so only staff and the account's end take it.
THEOREM LiveFilesAreKept == Spec => LiveFilesStay
<1>1. Init => TypeInv /\ Purposes
  BY InitType DEF Init, Purposes, Purpose
<1>2. TypeInv /\ Purposes /\ [Next]_vars => (TypeInv /\ Purposes)'
  BY TypeStep, PurposeStep
<1>3. TypeInv /\ Purposes /\ [Next]_vars =>
        [\A f \in FileIds :
          files[f].state = "live" /\ files'[f].sha = None =>
             \/ files[f].owner \in accounts \ accounts'
             \/ \E p \in Handlers : task[p].op = "remove" /\ f \in task[p].batch]_vars
  BY LiveStep
<1> QED BY <1>1, <1>2, <1>3, PTL DEF Spec, LiveFilesStay

----------------------------------------------------------------------------
(* What is being served *)

\* A reader's file still names the content it was loaded with, or is gone.
BatchKept(p) ==
    task[p].op \in {"serve", "copy"} =>
        \A f \in task[p].batch :
            files[f].state # "unused" /\ files[f].sha \in {None, task[p].sha}

ServeInv == ServedIfPresent /\ \A p \in Handlers : BatchKept(p)

\* A row is issued once: it keeps its content and its owner, or goes for good.
LEMMA RowsAge ==
  ASSUME TypeInv, [Next]_vars, NEW f \in FileIds, files[f].state # "unused"
  PROVE  /\ files'[f].state # "unused" /\ files'[f].sha \in {None, files[f].sha}
         /\ files'[f].sha # None => files'[f].owner = files[f].owner
<1>0. files \in [FileIds -> Row] /\ files' \in [FileIds -> Row]
  BY TypeStep DEF TypeInv, TypeOK
<1>1. ASSUME NEW gone \in SUBSET FileIds, DeleteRows(gone)
      PROVE  /\ files'[f].state # "unused" /\ files'[f].sha \in {None, files[f].sha}
             /\ files'[f].sha # None => files'[f].owner = files[f].owner
  BY <1>1 DEF DeleteRows, Deleted
<1>2. CASE UNCHANGED files
  BY <1>2
<1>3. CASE RowStep
  <2>1. files'[f].sha = files[f].sha /\ files'[f].owner = files[f].owner
    BY <1>3, RowsStay
  <2>2. ASSUME NEW g \in FileIds, TrashFile(g) \/ RestoreTrashedFile(g) \/ DeadlinePasses(g)
        PROVE  files'[f].state # "unused"
    BY <1>0, <2>2 DEF TrashFile, RestoreTrashedFile, DeadlinePasses, Row, Unused, Deleted
  <2>3. ASSUME NEW late \in SUBSET FileIds, ApplyAnonymousRetention(late)
        PROVE  files'[f].state # "unused"
    BY <1>0, <2>3 DEF ApplyAnonymousRetention, Row, Unused, Deleted
  <2> QED BY <1>3, <2>1, <2>2, <2>3 DEF RowStep
<1>4. CASE ServerStep \/ RecomputeStorageUsage \/ UNCHANGED vars
  BY <1>2, <1>4 DEF ServerStep, PinObjects, UnpinObjects, Crash, Reconfigure, Regenerate,
                    RecomputeStorageUsage, vars, db
<1>5. ASSUME NEW p \in Handlers, HandlerStep(p)
      PROVE  /\ files'[f].state # "unused" /\ files'[f].sha \in {None, files[f].sha}
             /\ files'[f].sha # None => files'[f].owner = files[f].owner
  <2>1. CASE ~CreateFile(p)
    BY <1>1, <1>2, <1>5, <2>1, RowsGo
  <2>2. CASE CreateFile(p)
    <3>1. PICK g \in FileIds : files[g].state = "unused" /\ files' = [files EXCEPT ![g] =
             [state |-> "live", sha |-> task[p].sha, owner |-> task[p].owner]]
      BY <2>2 DEF CreateFile
    <3>2. files'[f] = files[f]
      BY <1>0, <3>1
    <3> QED BY <3>2
  <2> QED BY <2>1, <2>2
<1> QED BY <1>3, <1>4, <1>5 DEF Next

\* No handler takes an object of a content that a file names.
LEMMA ObjectsOfFilesStay ==
  ASSUME TypeInv, CountInv, ObjectInv, NEW p \in Handlers, HandlerStep(p),
         NEW c \in Contents, (RowsOf(c))' # {}, NEW r \in Roles, <<c, r>> \in objects
  PROVE  <<c, r>> \in objects'
<1>1. CASE ~Loud(p)
  BY <1>1, QuietSteps DEF Quiet
<1>2. CASE Loud(p) /\ c # task[p].sha
  BY <1>2, LoudAtHome DEF Quiet, CountInv
<1>3. CASE Loud(p) /\ c = task[p].sha
  <2>1. CASE Unstore(p)
    <3>1. RowsOf(c) = {}
      BY <1>3, <2>1 DEF Unstore, ObjectInv, Relied, CountInv, RefcountsExact
    <3> QED BY <2>1, <3>1 DEF Unstore, RowsOf, db
  <2>2. CASE Erase(p)
    <3>1. RowsOf(c) = {}
      BY <1>3, <2>2 DEF Erase, ObjectInv, Relied
    <3> QED BY <2>2, <3>1 DEF Erase, RowsOf, db
  <2>3. CASE EnsureBlob(p) \/ CreateFile(p) \/ NoteCopy(p)
    BY <2>3 DEF EnsureBlob, CreateFile, NoteCopy
  <2> QED BY <1>3, <2>1, <2>2, <2>3 DEF Loud
<1> QED BY <1>1, <1>2, <1>3

\* A handler that is served keeps what it found, and finds what it goes to open.
LEMMA HandlerServes ==
  ASSUME TypeInv, CountInv, ObjectInv, Purposes, ServeInv, [Next]_vars,
         NEW p \in Handlers, HandlerStep(p)
  PROVE  ServeInv'
<1>0. /\ pc \in [Handlers -> Labels] /\ task \in [Handlers -> Task]
      /\ \A q \in Handlers : task[q] \in Task /\ LocalsFit(pc[q], task[q])
      /\ \A q \in Handlers : task[q].batch \subseteq FileIds /\ BatchKept(q)
      /\ \A q \in Handlers : Purpose(pc[q], task[q].op)
  BY DEF TypeInv, HandlersOK, ServeInv, Task, Purposes
<1>1. ASSUME NEW q \in Handlers, NEW u, Same(u, task[q]), NEW f \in u.batch,
             u.op \in {"serve", "copy"}
      PROVE  files'[f].state # "unused" /\ files'[f].sha \in {None, u.sha}
  BY <1>0, <1>1, RowsAge DEF BatchKept, Same
<1>2. ASSUME NEW q \in Handlers, pc[q] = "open", task'[q] = task[q], NEW f \in task[q].batch,
             files'[f].sha # None
      PROVE  <<task[q].sha, task[q].role>> \in objects'
  <2>1. task[q].op \in {"serve", "copy"} /\ task[q].sha \in Contents /\ f \in FileIds
    BY <1>0, <1>2 DEF Purpose, LocalsFit
  <2>2. files'[f].sha = task[q].sha /\ files[f].sha # None
    BY <1>0, <1>2, <2>1, RowsAge DEF BatchKept
  <2>3. <<task[q].sha, task[q].role>> \in objects
    BY <1>2, <2>2 DEF ServeInv, ServedIfPresent
  <2>4. task[q].role \in Roles
    BY <2>3 DEF TypeInv, TypeOK, Keys
  <2>5. (RowsOf(task[q].sha))' # {}
    <3>1. f \in {g \in FileIds : files'[g].sha = task[q].sha}
      BY <2>1, <2>2
    <3>2. task'[q].sha = task[q].sha
      BY <1>2
    <3> QED BY <3>1, <3>2 DEF RowsOf
  <2> QED BY <1>2, <2>1, <2>3, <2>4, <2>5, ObjectsOfFilesStay
<1>3. ASSUME NEW q \in Handlers, q # p
      PROVE  /\ BatchKept(q)'
             /\ pc'[q] = "open" => \A f \in task'[q].batch :
                    files'[f].sha # None => <<task'[q].sha, task'[q].role>> \in objects'
  <2>1. pc'[q] = pc[q] /\ task'[q] = task[q]
    BY <1>3, HandlerPurpose
  <2>2. BatchKept(q)'
    BY <1>1, <2>1 DEF BatchKept, Same
  <2> QED BY <1>2, <2>1, <2>2
<1>4. CASE Goes(p)
  <2>1. PICK label \in Labels, t \in Task :
          /\ Turns(p, label, t) /\ label # "open"
          /\ t.op \in {"serve", "copy"} => Same(t, task[p])
    BY <1>4 DEF Goes, NoTask
  <2>2. pc'[p] # "open" /\ task'[p] = t
    BY <1>0, <2>1 DEF Turns
  <2>3. BatchKept(p)'
    BY <1>1, <2>1, <2>2 DEF BatchKept
  <2> QED BY <1>3, <2>2, <2>3 DEF ServeInv, ServedIfPresent
<1>5. CASE Starts(p)
  <2>1. CASE \E t \in Task : t.op = "reap" /\ (Turns(p, "reap", t) \/ Turns(p, "waiting", t))
    <3>1. pc'[p] # "open" /\ task'[p].op = "reap"
      BY <1>0, <2>1 DEF Turns
    <3> QED BY <1>3, <3>1 DEF ServeInv, ServedIfPresent, BatchKept
  <2>2. ASSUME NEW f \in FileIds, NEW op \in {"remove", "serve", "copy"},
               NEW r \in Roles \cup {None}, NEW label \in {"deleteRow", "waiting", "open"},
               files[f].sha # None, Turns(p, label, Working(op, f, r)),
               label = "open" => r \in blobs[files[f].sha].roles /\ UNCHANGED <<files, objects>>
        PROVE  ServeInv'
    <3>1. /\ pc'[p] = label /\ task'[p].op = op /\ task'[p].sha = files[f].sha
          /\ task'[p].role = r /\ task'[p].batch = {f}
      BY <1>0, <2>2 DEF Turns, Working, NoTask
    <3>2. files[f].state # "unused" /\ files[f].sha \in Contents
      BY <2>2, Rows
    <3>3. BatchKept(p)'
      BY <3>1, <3>2, RowsAge DEF BatchKept
    <3>4. label = "open" => <<files[f].sha, r>> \in objects'
      <4> SUFFICES ASSUME label = "open" PROVE <<files[f].sha, r>> \in objects
        BY <2>2
      <4>1. f \in RowsOf(files[f].sha)
        BY DEF RowsOf
      <4> QED BY <2>2, <3>2, <4>1 DEF ObjectInv, FilesReadable, BlobKeys
    <3> QED BY <1>3, <3>1, <3>3, <3>4 DEF ServeInv, ServedIfPresent
  <2> QED BY <1>5, <2>1, <2>2 DEF Starts
<1>6. CASE ServesBuilt(p)
  <2>1. task'[p] = task[p] /\ task[p].op = "copy" /\ task[p].sha \in Contents
    BY <1>0, <1>6 DEF ServesBuilt, ServeCopy, LocalsFit, Locked
  <2>2. BatchKept(p)'
    BY <1>1, <2>1 DEF BatchKept, Same
  <2>3. UNCHANGED <<files, objects>>
    BY <1>6 DEF ServesBuilt
  <2>4. ASSUME NEW f \in task[p].batch, files[f].sha # None
        PROVE  <<task[p].sha, task[p].role>> \in objects
    <3>1. f \in FileIds /\ files[f].sha = task[p].sha
      BY <1>0, <2>1, <2>4 DEF BatchKept
    <3>2. CASE pc[p] = "build"
      <4>1. task[p].role \in blobs[task[p].sha].roles
        BY <1>6, <3>2 DEF ServesBuilt
      <4>2. RowsOf(task[p].sha) # {}
        BY <3>1 DEF RowsOf
      <4> QED BY <2>1, <4>1, <4>2 DEF ObjectInv, FilesReadable, BlobKeys
    <3>3. CASE pc[p] = "note"
      BY <3>3 DEF ObjectInv, Relied
    <3> QED BY <1>6, <3>2, <3>3 DEF ServesBuilt
  <2> QED BY <1>3, <2>1, <2>2, <2>3, <2>4 DEF ServeInv, ServedIfPresent
<1> QED BY <1>4, <1>5, <1>6, HandlerGoes

LEMMA ServeStep ==
  TypeInv /\ CountInv /\ ObjectInv /\ Purposes /\ ServeInv /\ [Next]_vars => ServeInv'
<1> SUFFICES ASSUME TypeInv, CountInv, ObjectInv, Purposes, ServeInv, [Next]_vars PROVE ServeInv'
  OBVIOUS
<1>1. CASE \E p \in Handlers : HandlerStep(p)
  BY <1>1, HandlerServes
<1>2. CASE RowStep \/ ServerStep \/ RecomputeStorageUsage \/ UNCHANGED vars
  <2>1. CASE UNCHANGED <<pc, task, objects>>
    <3>1. ASSUME NEW p \in Handlers PROVE BatchKept(p)'
      <4>1. BatchKept(p) /\ task[p].batch \subseteq FileIds
        BY DEF ServeInv, TypeInv, HandlersOK, Task
      <4> QED BY <2>1, <4>1, RowsAge DEF BatchKept
    <3>2. \A f \in FileIds : files'[f].sha = files[f].sha
      BY <1>2, RowsStay DEF vars
    <3>3. \A p \in Handlers : task[p].batch \subseteq FileIds
      BY DEF TypeInv, HandlersOK, Task
    <3>4. ServedIfPresent'
      BY <2>1, <3>2, <3>3 DEF ServeInv, ServedIfPresent
    <3> QED BY <3>1, <3>4 DEF ServeInv
  <2>2. CASE \A p \in Handlers : pc'[p] = "idle" /\ task'[p] = NoTask
    BY <2>2 DEF ServeInv, ServedIfPresent, BatchKept, NoTask
  <2>3. CASE \E c \in Contents : Regenerate(c)
    <3>1. UNCHANGED <<pc, task, files>> /\ \A p \in Handlers : pc[p] = "idle"
      BY <2>3 DEF Regenerate
    <3> QED BY <3>1 DEF ServeInv, ServedIfPresent, BatchKept
  <2> QED BY <1>2, <2>1, <2>2, <2>3
          DEF RowStep, ServerStep, RecomputeStorageUsage, vars, TrashFile, RestoreTrashedFile,
              DeadlinePasses, ApplyAnonymousRetention, PinObjects, UnpinObjects, Crash, Reconfigure
<1> QED BY <1>1, <1>2 DEF Next

\* Whoever goes to open an object of a file that is still there finds it, though
\* it let go of the content's lock, or never had it: the objects of a content
\* outlive its last row, and only a failed upload that takes a failed read for a
\* missing record could be ahead of it.
THEOREM ReadersAreServed ==
  ASSUME "reread" \notin Faults
  PROVE  Spec => []ServedIfPresent
<1>1. Init => TypeInv /\ CountInv /\ ObjectInv /\ Purposes /\ ServeInv
  BY InitType, InitCounts, InitObjects
     DEF Init, Purposes, Purpose, ServeInv, ServedIfPresent, BatchKept, NoTask
<1>2. TypeInv /\ CountInv /\ ObjectInv /\ Purposes /\ ServeInv /\ [Next]_vars
        => (TypeInv /\ CountInv /\ ObjectInv /\ Purposes /\ ServeInv)'
  BY TypeStep, CountStep, ObjectStep, PurposeStep, ServeStep
<1>3. ServeInv => ServedIfPresent
  BY DEF ServeInv
<1> QED BY <1>1, <1>2, <1>3, PTL DEF Spec

----------------------------------------------------------------------------
(* Sums.  A sum over a finite set is the number of units that its members  *)
(* have together, which is what makes it one to reason about: the sets of  *)
(* the model grow and shrink by a member at a time.                        *)

\* w[x] units for each member x of S, and how many they are.
Units(w, S) == {pair \in S \X Nat : 1 <= pair[2] /\ pair[2] <= w[pair[1]]}
Total(w, S) == Cardinality(Units(w, S))

\* Among some subsets of a finite set there is one that is none of them any more,
\* whichever member it loses.
LEMMA Smallest ==
  ASSUME NEW S, IsFiniteSet(S), NEW Bad \in SUBSET SUBSET S, Bad # {}
  PROVE  \E T \in Bad : \A x \in T : T \ {x} \notin Bad
<1>1. FiniteSubsetsOf(S) = SUBSET S
  BY FS_FiniteSubsetsOfFinite
<1>2. IsWellFoundedOn(StrictSubsetOrdering(S), SUBSET S)
  BY <1>1, FS_StrictSubsetOrderingWellFounded
<1>3. PICK T \in Bad : \A U \in Bad : ~ (<<U, T>> \in StrictSubsetOrdering(S))
  BY <1>2, WFMin
<1>4. ASSUME NEW x \in T, T \ {x} \in Bad PROVE FALSE
  <2>1. <<T \ {x}, T>> \in StrictSubsetOrdering(S)
    BY <1>4 DEF StrictSubsetOrdering
  <2> QED BY <1>3, <1>4, <2>1
<1> QED BY <1>4

\* A member brings its own units,
LEMMA OneMore ==
  ASSUME NEW S, NEW w, NEW x \in S, w[x] \in Nat, IsFiniteSet(Units(w, S \ {x}))
  PROVE  IsFiniteSet(Units(w, S)) /\ Total(w, S) = w[x] + Total(w, S \ {x})
<1> DEFINE own == {x} \X (1 .. w[x])
<1>1. IsFiniteSet({x}) /\ Cardinality({x}) = 1
  BY FS_Singleton
<1>2. IsFiniteSet(1 .. w[x]) /\ Cardinality(1 .. w[x]) = w[x]
  <2>1. PICK n \in Nat : n = w[x]
    OBVIOUS
  <2>2. /\ IsFiniteSet(1 .. n)
        /\ Cardinality(1 .. n) = IF 1 > n THEN 0 ELSE n - 1 + 1
    BY FS_Interval
  <2>3. (IF 1 > n THEN 0 ELSE n - 1 + 1) = n
    OBVIOUS
  <2> QED BY <2>1, <2>2, <2>3
<1>3. IsFiniteSet(own) /\ Cardinality(own) = w[x]
  <2> DEFINE one == {x}
             many == 1 .. w[x]
  <2>1. IsFiniteSet(one) /\ Cardinality(one) = 1 /\ IsFiniteSet(many) /\ Cardinality(many) = w[x]
    BY <1>1, <1>2
  <2> HIDE DEF one, many
  <2>2. IsFiniteSet(one \X many) /\ Cardinality(one \X many) = Cardinality(one) * Cardinality(many)
    BY <2>1, FS_Product
  <2>3. 1 * w[x] = w[x]
    OBVIOUS
  <2> QED BY <2>1, <2>2, <2>3 DEF one, many
<1>4. Units(w, S) = Units(w, S \ {x}) \cup own
  <2>1. ASSUME NEW pair \in Units(w, S) PROVE pair \in Units(w, S \ {x}) \cup own
    BY DEF Units
  <2>2. ASSUME NEW pair \in own PROVE pair \in Units(w, S)
    BY DEF Units
  <2>3. ASSUME NEW pair \in Units(w, S \ {x}) PROVE pair \in Units(w, S)
    BY DEF Units
  <2> QED BY <2>1, <2>2, <2>3
<1>5. Units(w, S \ {x}) \cap own = {}
  BY DEF Units
<1>6. Cardinality(Units(w, S \ {x}) \cap own) = 0 /\ Cardinality(Units(w, S \ {x})) \in Nat
  BY <1>5, FS_EmptySet, FS_CardinalityType
<1> HIDE DEF own
<1>7. /\ IsFiniteSet(Units(w, S \ {x}) \cup own)
      /\ Cardinality(Units(w, S \ {x}) \cup own)
           = Cardinality(Units(w, S \ {x})) + Cardinality(own)
               - Cardinality(Units(w, S \ {x}) \cap own)
  BY <1>3, FS_Union
<1> QED BY <1>3, <1>4, <1>6, <1>7 DEF Total

LEMMA NoUnits ==
  ASSUME NEW w
  PROVE  IsFiniteSet(Units(w, {})) /\ Total(w, {}) = 0
<1>1. Units(w, {}) = {}
  BY DEF Units
<1> QED BY <1>1, FS_EmptySet DEF Total

\* so that the units of a finite set can be counted,
LEMMA UnitsFinite ==
  ASSUME NEW S, IsFiniteSet(S), NEW w, \A x \in S : w[x] \in Nat
  PROVE  IsFiniteSet(Units(w, S)) /\ Total(w, S) \in Nat
<1> DEFINE Bad == {T \in SUBSET S : ~ IsFiniteSet(Units(w, T))}
<1>1. ASSUME Bad # {} PROVE FALSE
  <2>1. PICK T \in Bad : \A x \in T : T \ {x} \notin Bad
    <3>1. Bad \in SUBSET SUBSET S
      OBVIOUS
    <3> HIDE DEF Bad
    <3> QED BY <1>1, <3>1, Smallest
  <2>2. T # {}
    BY NoUnits
  <2>3. PICK x \in T : TRUE
    BY <2>2
  <2>4. IsFiniteSet(Units(w, T \ {x}))
    BY <2>1
  <2>5. w[x] \in Nat
    OBVIOUS
  <2>6. IsFiniteSet(Units(w, T))
    BY <2>4, <2>5, OneMore
  <2> QED BY <2>1, <2>6
<1>2. IsFiniteSet(Units(w, S))
  BY <1>1
<1> QED BY <1>2, FS_CardinalityType DEF Total

\* a member taken away takes its part of the total,
LEMMA TotalOneMore ==
  ASSUME NEW S, IsFiniteSet(S), NEW w, \A x \in S : w[x] \in Nat, NEW x \in S
  PROVE  Total(w, S) = w[x] + Total(w, S \ {x}) /\ Total(w, S \ {x}) \in Nat
<1>1. IsFiniteSet(S \ {x})
  BY FS_RemoveElement
<1>2. IsFiniteSet(Units(w, S \ {x})) /\ Total(w, S \ {x}) \in Nat
  BY <1>1, UnitsFinite
<1> QED BY <1>2, OneMore

\* the total is a matter of the members and their parts alone,
LEMMA TotalSame ==
  ASSUME NEW S, NEW w, NEW v, \A x \in S : w[x] = v[x]
  PROVE  Total(w, S) = Total(v, S)
<1>1. Units(w, S) = Units(v, S)
  BY DEF Units
<1> QED BY <1>1 DEF Total

\* and some of the members add up to no more than all.
LEMMA TotalOfLess ==
  ASSUME NEW S, IsFiniteSet(S), NEW w, \A x \in S : w[x] \in Nat, NEW T \in SUBSET S
  PROVE  Total(w, T) <= Total(w, S) /\ Total(w, T) \in Nat
<1>1. IsFiniteSet(Units(w, S)) /\ Total(w, S) \in Nat
  BY UnitsFinite
<1>2. Units(w, T) \subseteq Units(w, S)
  BY DEF Units
<1>3. IsFiniteSet(T)
  BY FS_Subset
<1> QED BY <1>1, <1>2, <1>3, FS_Subset, UnitsFinite DEF Total

\* The recursion by which a fold adds the members up, one picked after another,
Pick(s) == CHOOSE x \in s : TRUE
Folds(iter, w, S) ==
    iter = [s \in SUBSET S |-> IF s = {} THEN 0 ELSE w[Pick(s)] + iter[s \ {Pick(s)}]]

\* has one outcome: the total.
LEMMA FoldIsTotal ==
  ASSUME NEW S, IsFiniteSet(S), NEW w, \A x \in S : w[x] \in Nat
  PROVE  /\ \E iter : Folds(iter, w, S)
         /\ \A iter : Folds(iter, w, S) => iter[S] = Total(w, S)
<1>1. ASSUME NEW s \in SUBSET S, s # {}
      PROVE  Pick(s) \in s /\ Total(w, s) = w[Pick(s)] + Total(w, s \ {Pick(s)})
  <2>1. Pick(s) \in s
    BY <1>1 DEF Pick
  <2>2. IsFiniteSet(s)
    BY FS_Subset
  <2> QED BY <2>1, <2>2, TotalOneMore
<1>2. Total(w, {}) = 0
  BY NoUnits
<1>3. \E iter : Folds(iter, w, S)
  <2> DEFINE total == [s \in SUBSET S |-> Total(w, s)]
  <2>1. ASSUME NEW s \in SUBSET S
        PROVE  total[s] = IF s = {} THEN 0 ELSE w[Pick(s)] + total[s \ {Pick(s)}]
    <3>1. CASE s = {}
      BY <1>2, <3>1
    <3>2. CASE s # {}
      BY <1>1, <3>2
    <3> QED BY <3>1, <3>2
  <2>2. DOMAIN total = SUBSET S /\ total = [s \in SUBSET S |-> total[s]]
    OBVIOUS
  <2> HIDE DEF total
  <2>3. Folds(total, w, S)
    BY <2>1, <2>2 DEF Folds
  <2> QED BY <2>3
<1>4. ASSUME NEW iter, Folds(iter, w, S) PROVE iter[S] = Total(w, S)
  <2> DEFINE Bad == {T \in SUBSET S : iter[T] # Total(w, T)}
  <2>1. ASSUME Bad # {} PROVE FALSE
    <3>1. PICK T \in Bad : \A x \in T : T \ {x} \notin Bad
      <4>1. Bad \in SUBSET SUBSET S
        OBVIOUS
      <4> HIDE DEF Bad
      <4> QED BY <2>1, <4>1, Smallest
    <3>2. T \in SUBSET S /\ iter[T] # Total(w, T)
      OBVIOUS
    <3>3. iter[T] = IF T = {} THEN 0 ELSE w[Pick(T)] + iter[T \ {Pick(T)}]
      BY <1>4, <3>2 DEF Folds
    <3>4. T # {}
      BY <1>2, <3>2, <3>3
    <3>5. Pick(T) \in T /\ Total(w, T) = w[Pick(T)] + Total(w, T \ {Pick(T)})
      BY <1>1, <3>2, <3>4
    <3>6. iter[T \ {Pick(T)}] = Total(w, T \ {Pick(T)})
      BY <3>1, <3>2, <3>5
    <3> QED BY <3>2, <3>3, <3>4, <3>5, <3>6
  <2> QED BY <2>1
<1> QED BY <1>3, <1>4

\* The bytes of some rows are the total of what each of them has,
LEMMA BytesAre ==
  ASSUME NEW rows, IsFiniteSet(rows), \A f \in rows : Size[files[f].sha] \in Nat
  PROVE  Bytes(rows) = Total([f \in rows |-> Size[files[f].sha]], rows)
<1> DEFINE w == [f \in rows |-> Size[files[f].sha]]
           Sums(iter) == iter = [s \in SUBSET rows |->
                IF s = {} THEN 0 ELSE Size[files[CHOOSE x \in s : TRUE].sha] + iter[s \ {CHOOSE x \in s : TRUE}]]
<1>1. ASSUME NEW iter PROVE Sums(iter) <=> Folds(iter, w, rows)
  <2>1. ASSUME NEW s \in SUBSET rows, s # {} PROVE Pick(s) \in rows /\ w[Pick(s)] = Size[files[Pick(s)].sha]
    BY <2>1 DEF Pick
  <2>2. ASSUME NEW s \in SUBSET rows
        PROVE (IF s = {} THEN 0 ELSE w[Pick(s)] + iter[s \ {Pick(s)}])
             = IF s = {} THEN 0 ELSE Size[files[Pick(s)].sha] + iter[s \ {Pick(s)}]
    BY <2>1
  <2>3. [s \in SUBSET rows |-> IF s = {} THEN 0 ELSE w[Pick(s)] + iter[s \ {Pick(s)}]]
      = [s \in SUBSET rows |-> IF s = {} THEN 0 ELSE Size[files[Pick(s)].sha] + iter[s \ {Pick(s)}]]
    BY <2>2, Zenon
  <2> QED BY <2>3, Zenon DEF Folds, Pick
<1>2. \A x \in rows : w[x] \in Nat
  OBVIOUS
<1> HIDE DEF w
<1>3. /\ \E iter : Folds(iter, w, rows)
      /\ \A iter : Folds(iter, w, rows) => iter[rows] = Total(w, rows)
  BY <1>2, FoldIsTotal
<1> DEFINE sum == CHOOSE iter : Sums(iter)
<1>4. Bytes(rows) = sum[rows]
  BY DEF Bytes, MapThenSumSet, MapThenFoldSet
<1> HIDE DEF Sums
<1>5. Sums(sum)
  BY <1>1, <1>3
<1> HIDE DEF sum
<1> QED BY <1>1, <1>3, <1>4, <1>5 DEF w


----------------------------------------------------------------------------
(* Errands: what a handler has claimed, and when it gives it back *)

\* A handler's claim is what it was, and no row or usage has changed.
ClaimKept(p) ==
    /\ UNCHANGED <<accounts, used, files>>
    /\ (Claimed(p))' <=> Claimed(p)
    /\ Claimed(p) => task'[p].sha = task[p].sha /\ task'[p].owner = task[p].owner

\* The steps of a handler that add to what an account is charged, or take from it.
Charges(p) ==
    \/ Reserve(p) \/ CreateFile(p) \/ Undo(p) \/ Refund(p) \/ DeleteFile(p)
    \/ ReapFile(p) \/ Abandon(p)
    \/ (\E f \in FileIds : PurgeTrashedFile(p, f))
    \/ (\E u \in Users : DeleteAccount(p, u))

\* A handler that has returned has no claim and no errand.
LEMMA NoErrand ==
  ASSUME TypeInv, NEW p \in Handlers, Finish(p)
  PROVE  /\ Errand(pc'[p], task'[p]) /\ ~(Claimed(p))'
         /\ pc'[p] = "idle" /\ task'[p] = NoTask
BY DEF TypeInv, HandlersOK, Finish, Goto, Errand, Claimed, NoTask

\* One that goes on with its locals is where it says.
LEMMA Stays ==
  ASSUME TypeInv, NEW p \in Handlers, NEW label, Goto(p, label), UNCHANGED task
  PROVE  pc'[p] = label /\ task'[p] = task[p]
BY DEF TypeInv, HandlersOK, Goto

\* ...and so is one that has learnt of keys to remove, or of content to share.
LEMMA Learns ==
  ASSUME TypeInv, NEW p \in Handlers, NEW label, Goto(p, label), NEW keys,
         task' = [task EXCEPT ![p].keys = keys] \/ task' = [task EXCEPT ![p].reuse = TRUE]
  PROVE  /\ pc'[p] = label
         /\ task'[p].op = task[p].op /\ task'[p].sha = task[p].sha
         /\ task'[p].owner = task[p].owner
BY DEF TypeInv, HandlersOK, Goto, Task

\* The steps of an upload.
LEMMA UploadErrands ==
  ASSUME TypeInv, NEW p \in Handlers, Errand(pc[p], task[p]), UploadStep(p)
  PROVE  Errand(pc'[p], task'[p]) /\ (ClaimKept(p) \/ Charges(p))
<1>0. /\ pc \in [Handlers -> Labels] /\ task \in [Handlers -> Task]
      /\ task[p] \in Task /\ LocalsFit(pc[p], task[p])
  BY DEF TypeInv, HandlersOK
<1>1. CASE \E c \in Contents, u \in accounts \cup {Anonymous} : StartUpload(p, u, c)
  <2>1. /\ pc[p] = "idle" /\ pc'[p] = "waiting" /\ task'[p].op = "upload"
        /\ UNCHANGED <<accounts, used, files>>
    BY <1>0, <1>1 DEF StartUpload, Goto, NoTask, db
  <2> QED BY <2>1 DEF Errand, ClaimKept, Claimed
<1>2. CASE LookUp(p)
  <2>1. /\ pc[p] = "lookup" /\ pc'[p] = "reserve" /\ task'[p].op = task[p].op
        /\ UNCHANGED <<accounts, used, files>>
    BY <1>2, Stays, Learns DEF LookUp, db
  <2>2. task[p].op = "upload"
    BY <1>0, <2>1 DEF LocalsFit
  <2> QED BY <2>1, <2>2 DEF Errand, ClaimKept, Claimed
<1>3. CASE RefuseMedia(p) \/ RefuseReserve(p) \/ Unstore(p)
  <2>1. /\ Finish(p) /\ pc[p] \in {"reserve", "unstore"} /\ UNCHANGED <<accounts, used, files>>
    BY <1>3 DEF RefuseMedia, RefuseReserve, Unstore, db
  <2>2. ~Claimed(p)
    BY <2>1 DEF Claimed
  <2> QED BY <2>1, <2>2, NoErrand DEF ClaimKept
<1>4. CASE Reserve(p)
  <2>1. pc[p] = "reserve" /\ pc'[p] \in {"record", "save"} /\ task'[p] = task[p]
    BY <1>4, Stays DEF Reserve, AfterReserve
  <2> QED BY <1>4, <2>1 DEF Errand, Charges
<1>5. CASE SaveOriginal(p) \/ SaveRenditions(p) \/ RefuseClip(p) \/ EnsureBlob(p) \/ RefuseFile(p)
  <2>1. pc[p] \in {"save", "renditions", "ensure", "record"} /\ UNCHANGED <<accounts, used, files>>
    BY <1>5 DEF SaveOriginal, SaveRenditions, RefuseClip, EnsureBlob, RefuseFile, db
  <2>2. ASSUME NEW keys, FailWith(p, keys)
        PROVE  /\ pc'[p] = "undo" /\ task'[p].op = task[p].op /\ task'[p].sha = task[p].sha
               /\ task'[p].owner = task[p].owner
    BY <2>2, Learns DEF FailWith
  <2>3. /\ pc'[p] \in {"renditions", "ensure", "record", "undo"}
        /\ task'[p].op = task[p].op /\ task'[p].sha = task[p].sha
        /\ task'[p].owner = task[p].owner
    BY <1>5, <2>2, Stays DEF SaveOriginal, SaveRenditions, RefuseClip, EnsureBlob, RefuseFile
  <2> QED BY <2>1, <2>3 DEF Errand, ClaimKept, Claimed
<1>6. CASE CreateFile(p)
  <2>1. Finish(p)
    BY <1>6 DEF CreateFile
  <2> QED BY <1>6, <2>1, NoErrand DEF Charges
<1>7. CASE Undo(p)
  <2>1. pc[p] = "undo" /\ (Finish(p) \/ (pc'[p] = "discard" /\ task'[p] = task[p]))
    BY <1>7, Stays DEF Undo
  <2>2. Errand(pc'[p], task'[p])
    BY <2>1, NoErrand DEF Errand
  <2> QED BY <1>7, <2>2 DEF Charges
<1>8. CASE Discard(p)
  <2>1. /\ pc[p] = "discard" /\ UNCHANGED <<accounts, used, files>>
        /\ Finish(p) \/ (pc'[p] \in {"inspect", "unstore"} /\ task'[p] = task[p])
    BY <1>8, Stays DEF Discard, db
  <2>2. task[p].op = "upload"
    BY <2>1 DEF Errand
  <2>3. ~Claimed(p) /\ ~(Claimed(p))' /\ Errand(pc'[p], task'[p])
    BY <2>1, <2>2, NoErrand DEF Errand, Claimed
  <2> QED BY <2>1, <2>3 DEF ClaimKept
<1> QED BY <1>1, <1>2, <1>3, <1>4, <1>5, <1>6, <1>7, <1>8 DEF UploadStep

\* A handler that has released a content returns, or goes on to give its bytes back,
\* or to the next orphan.
LEMMA ReleasedTo ==
  ASSUME TypeInv, NEW p \in Handlers, NEW ok, Released(p, ok)
  PROVE  \/ task[p].op \in {"upload", "sweep"} /\ pc'[p] = "idle" /\ task'[p] = NoTask
         \/ task[p].op \in {"remove", "reap"} /\ pc'[p] = "refund" /\ task'[p] = task[p]
         \/ task[p].op = "sweep" /\ pc'[p] = "waiting" /\ task'[p].op = "sweep"
<1>0. pc \in [Handlers -> Labels] /\ task \in [Handlers -> Task] /\ task[p] \in Task
  BY DEF TypeInv, HandlersOK
<1>1. CASE task[p].op \in {"upload", "sweep"} /\ Goto(p, "idle")
             /\ task' = [task EXCEPT ![p] = NoTask]
  BY <1>0, <1>1 DEF Goto
<1>2. CASE task[p].op \in {"remove", "reap"} /\ Goto(p, "refund") /\ UNCHANGED task
  BY <1>0, <1>2 DEF Goto
<1>3. ASSUME task[p].op = "sweep", NEW c \in task[p].orphans, Goto(p, "waiting"),
             task' = [task EXCEPT ![p].sha = c, ![p].orphans = @ \ {c}]
      PROVE  pc'[p] = "waiting" /\ task'[p].op = "sweep"
  BY <1>0, <1>3 DEF Goto, Task
<1> QED BY <1>1, <1>2, <1>3 DEF Released

\* The steps of releaseBlob,
LEMMA ReleaseErrands ==
  ASSUME TypeInv, NEW p \in Handlers, Errand(pc[p], task[p]), ReleaseStep(p)
  PROVE  Errand(pc'[p], task'[p]) /\ (ClaimKept(p) \/ Charges(p))
<1>0. /\ pc \in [Handlers -> Labels] /\ task \in [Handlers -> Task]
      /\ task[p] \in Task /\ LocalsFit(pc[p], task[p])
  BY DEF TypeInv, HandlersOK
<1>1. CASE AcquireContent(p)
  <2>1. /\ pc[p] = "waiting" /\ pc'[p] = AfterAcquire(task[p].op) /\ task'[p] = task[p]
        /\ UNCHANGED <<accounts, used, files>>
    BY <1>1, Stays DEF AcquireContent, db
  <2>2. /\ task[p].op = "upload" => pc'[p] = "lookup"
        /\ task[p].op = "copy" => pc'[p] = "build"
        /\ task[p].op \notin {"upload", "copy"} => pc'[p] = "inspect"
    BY <2>1 DEF AfterAcquire
  <2> QED BY <2>1, <2>2 DEF Errand, ClaimKept, Claimed
<1>2. ASSUME NEW ok, Released(p, ok), pc[p] \in {"inspect", "erase", "drop"},
             UNCHANGED <<accounts, used, files>>
      PROVE  Errand(pc'[p], task'[p]) /\ ClaimKept(p)
  <2>1. task[p].sha \in Contents
    BY <1>0, <1>2 DEF LocalsFit, Locked
  <2>2. CASE task[p].op \in {"upload", "sweep"} /\ pc'[p] = "idle" /\ task'[p] = NoTask
    BY <1>2, <2>2 DEF Errand, ClaimKept, Claimed, NoTask
  <2>3. CASE task[p].op \in {"remove", "reap"} /\ pc'[p] = "refund" /\ task'[p] = task[p]
    BY <1>2, <2>1, <2>3 DEF Errand, ClaimKept, Claimed
  <2>4. CASE task[p].op = "sweep" /\ pc'[p] = "waiting" /\ task'[p].op = "sweep"
    BY <1>2, <2>4 DEF Errand, ClaimKept, Claimed
  <2> QED BY <1>2, <2>2, <2>3, <2>4, ReleasedTo
<1>3. ASSUME pc[p] \in {"inspect", "erase"}, pc'[p] \in {"erase", "drop"},
             task'[p].op = task[p].op, task'[p].sha = task[p].sha, task'[p].owner = task[p].owner,
             UNCHANGED <<accounts, used, files>>
      PROVE  Errand(pc'[p], task'[p]) /\ ClaimKept(p)
  BY <1>3 DEF Errand, ClaimKept, Claimed
<1>4. CASE Inspect(p)
  <2>1. pc[p] = "inspect" /\ UNCHANGED <<accounts, used, files>>
    BY <1>4 DEF Inspect, db
  <2>2. CASE /\ Goto(p, "erase")
             /\ task' = [task EXCEPT ![p].keys = BlobKeys(task[p].sha)]
    BY <1>3, <2>1, <2>2, Learns
  <2> QED BY <1>2, <1>4, <2>1, <2>2 DEF Inspect
<1>5. CASE Erase(p)
  <2>1. pc[p] = "erase" /\ UNCHANGED <<accounts, used, files>>
    BY <1>5 DEF Erase, db
  <2>2. CASE Goto(p, "drop") /\ UNCHANGED task
    BY <1>3, <2>1, <2>2, Stays
  <2> QED BY <1>2, <1>5, <2>1, <2>2 DEF Erase
<1>6. CASE Drop(p)
  BY <1>2, <1>6 DEF Drop
<1>7. CASE Refund(p)
  <2>1. Finish(p) \/ (pc'[p] = "reap" /\ task'[p] = task[p])
    BY <1>7, Stays DEF Refund
  <2>2. Errand(pc'[p], task'[p])
    BY <2>1, NoErrand DEF Errand
  <2> QED BY <1>7, <2>2 DEF Charges
<1> QED BY <1>1, <1>4, <1>5, <1>6, <1>7 DEF ReleaseStep

\* ...and all the others.
LEMMA OtherErrands ==
  ASSUME TypeInv, Purposes, NEW p \in Handlers, Errand(pc[p], task[p]),
         \/ StaffStep(p) \/ OwnerStep(p) \/ CleanupStep(p) \/ ReadStep(p)
         \/ Abandon(p) \/ RecomputeBlobRefcounts(p)
  PROVE  Errand(pc'[p], task'[p]) /\ (ClaimKept(p) \/ Charges(p))
<1>0. /\ pc \in [Handlers -> Labels] /\ task \in [Handlers -> Task]
      /\ task[p] \in Task /\ LocalsFit(pc[p], task[p]) /\ Purpose(pc[p], task[p].op)
  BY DEF TypeInv, HandlersOK, Purposes
<1>1. ASSUME pc'[p] \in {"idle", "waiting", "deleteRow", "reap", "scan", "open", "note", "forget"}
      PROVE  Errand(pc'[p], task'[p])
  BY <1>1 DEF Errand
<1>2. CASE \E f \in FileIds : StartStaffRemoval(p, f)
  <2>1. pc[p] = "idle" /\ pc'[p] = "deleteRow" /\ UNCHANGED <<accounts, used, files>>
    BY <1>0, <1>2 DEF StartStaffRemoval, Goto, db
  <2> QED BY <1>1, <2>1 DEF ClaimKept, Claimed
<1>3. CASE DeleteFile(p) \/ Abandon(p)
  BY <1>0, <1>1, <1>3, NoErrand DEF DeleteFile, Abandon, Charges, Goto
<1>4. CASE (\E f \in FileIds : PurgeTrashedFile(p, f)) \/ \E u \in Users : DeleteAccount(p, u)
  BY <1>0, <1>1, <1>4 DEF PurgeTrashedFile, DeleteAccount, Charges, Goto
<1>5. CASE ReapFile(p)
  <2>1. pc[p] = "reap" /\ (Goto(p, "waiting") \/ UNCHANGED pc)
    BY <1>5, ZenonT(60) DEF ReapFile
  <2>2. pc'[p] \in {"reap", "waiting"}
    BY <1>0, <2>1 DEF Goto
  <2> QED BY <1>1, <1>5, <2>2 DEF Charges
<1>6. CASE StartCleanup(p) \/ FinishReaping(p) \/ RecomputeBlobRefcounts(p)
  <2>1. pc[p] \in {"idle", "reap"} /\ pc'[p] \in {"reap", "scan"}
          /\ UNCHANGED <<accounts, used, files>>
    BY <1>0, <1>6 DEF StartCleanup, FinishReaping, RecomputeBlobRefcounts, Goto, db
  <2> QED BY <1>1, <2>1 DEF ClaimKept, Claimed
<1>7. CASE Scan(p)
  <2>1. pc[p] = "scan" /\ task[p].op = "sweep" /\ UNCHANGED <<accounts, used, files>>
    BY <1>0, <1>7 DEF Scan, Purpose, db
  <2>2. CASE Finish(p)
    BY <2>1, <2>2, NoErrand DEF ClaimKept, Claimed
  <2>3. ASSUME NEW c \in Orphans, Goto(p, "waiting"),
               task' = [task EXCEPT ![p].sha = c, ![p].orphans = Orphans \ {c}]
        PROVE  Errand(pc'[p], task'[p]) /\ ClaimKept(p)
    <3>1. pc'[p] = "waiting" /\ task'[p].op = "sweep"
      BY <1>0, <2>1, <2>3 DEF Goto, Task
    <3> QED BY <1>1, <2>1, <3>1 DEF ClaimKept, Claimed
  <2> QED BY <1>7, <2>2, <2>3, NoErrand DEF Scan
<1>8. CASE ReadStep(p)
  <2>1. pc[p] \in {"idle", "build", "note", "open", "forget"} /\ UNCHANGED <<accounts, used, files>>
    BY <1>8 DEF ReadStep, StartServe, StartCopy, BuildCopy, RefuseCopy, NoteCopy, OpenObject,
                ForgetCopies, db
  <2>2. \/ Finish(p) \/ pc'[p] \in {"open", "note", "forget"}
        \/ pc'[p] = "waiting" /\ task'[p].op = "copy"
    BY <1>0, <1>8 DEF ReadStep, StartServe, StartCopy, BuildCopy, RefuseCopy, NoteCopy, OpenObject,
                      ForgetCopies, ServeCopy, Goto, Working, NoTask
  <2>3. ~Claimed(p) /\ ~(Claimed(p))'
    BY <2>1, <2>2, NoErrand DEF Claimed
  <2> QED BY <1>1, <2>1, <2>2, <2>3, NoErrand DEF ClaimKept
<1> QED BY <1>2, <1>3, <1>4, <1>5, <1>6, <1>7, <1>8 DEF StaffStep, OwnerStep, CleanupStep

LEMMA HandlerErrands ==
  ASSUME TypeInv, Purposes, Errands, NEW p \in Handlers, HandlerStep(p)
  PROVE  Errand(pc'[p], task'[p]) /\ (ClaimKept(p) \/ Charges(p))
BY UploadErrands, ReleaseErrands, OtherErrands DEF HandlerStep, Errands

\* A handler comes to delete a row as it opens the file.
LEMMA ReachesDelete ==
  ASSUME TypeInv, Purposes, NEW p \in Handlers, HandlerStep(p), pc'[p] = "deleteRow"
  PROVE  \E f \in FileIds :
            /\ files[f].sha # None /\ task'[p].batch = {f}
            /\ task'[p].sha = files[f].sha /\ task'[p].owner = files[f].owner
<1>0. pc \in [Handlers -> Labels] /\ task \in [Handlers -> Task]
  BY DEF TypeInv, HandlersOK
<1>1. ASSUME NEW label, NEW t, Turns(p, label, t) PROVE pc'[p] = label /\ task'[p] = t
  BY <1>0, <1>1 DEF Turns
<1>2. ~Goes(p)
  BY <1>1 DEF Goes
<1>3. ~ServesBuilt(p)
  BY <1>0 DEF ServesBuilt, ServeCopy, Goto
<1>4. PICK f \in FileIds, op \in {"remove", "serve", "copy"}, r \in Roles \cup {None} :
           files[f].sha # None /\ task'[p] = Working(op, f, r)
  BY <1>1, <1>2, <1>3, HandlerGoes DEF Starts
<1> QED BY <1>4 DEF Working, NoTask

LEMMA ErrandStep == TypeInv /\ Purposes /\ Errands /\ [Next]_vars => Errands'
<1> SUFFICES ASSUME TypeInv, Purposes, Errands, [Next]_vars PROVE Errands'
  OBVIOUS
<1>1. ASSUME NEW q \in Handlers, UNCHANGED <<pc[q], task[q]>>
      PROVE  (Errand(pc[q], task[q]))' /\ (AboutToDelete(q))'
  <2>1. Errand(pc[q], task[q]) /\ AboutToDelete(q)
    BY DEF Errands
  <2>2. CASE pc[q] = "deleteRow"
    <3>1. PICK f \in FileIds :
             /\ task[q].batch = {f} /\ files[f].state # "unused"
             /\ files[f].sha # None =>
                  files[f].sha = task[q].sha /\ files[f].owner = task[q].owner
      BY <2>1, <2>2 DEF AboutToDelete
    <3>2. /\ files'[f].state # "unused" /\ files'[f].sha \in {None, files[f].sha}
          /\ files'[f].sha # None => files'[f].owner = files[f].owner
      BY <3>1, RowsAge
    <3> QED BY <1>1, <2>1, <3>1, <3>2 DEF Errand, AboutToDelete
  <2> QED BY <1>1, <2>1, <2>2 DEF Errand, AboutToDelete
<1>2. ASSUME NEW p \in Handlers, HandlerStep(p) PROVE Errands'
  <2>1. \A q \in Handlers : q # p => UNCHANGED <<pc[q], task[q]>>
    BY <1>2, HandlerPurpose
  <2>2. (Errand(pc[p], task[p]))'
    BY <1>2, HandlerErrands
  <2>3. ASSUME pc'[p] = "deleteRow" PROVE (AboutToDelete(p))'
    <3>1. PICK f \in FileIds :
            /\ files[f].sha # None /\ task'[p].batch = {f}
            /\ task'[p].sha = files[f].sha /\ task'[p].owner = files[f].owner
      BY <1>2, <2>3, ReachesDelete
    <3>2. files[f].state # "unused"
      BY <3>1, Rows
    <3>3. /\ files'[f].state # "unused" /\ files'[f].sha \in {None, files[f].sha}
          /\ files'[f].sha # None => files'[f].owner = files[f].owner
      BY <3>2, RowsAge
    <3> QED BY <3>1, <3>3 DEF AboutToDelete
  <2>4. (AboutToDelete(p))'
    BY <2>3 DEF AboutToDelete
  <2> QED BY <1>1, <2>1, <2>2, <2>4 DEF Errands
<1>3. CASE RowStep \/ ServerStep \/ RecomputeStorageUsage \/ UNCHANGED vars
  <2>1. CASE UNCHANGED <<pc, task>>
    BY <1>1, <2>1 DEF Errands
  <2>2. CASE \A q \in Handlers : pc'[q] = "idle" /\ task'[q] = NoTask
    BY <2>2 DEF Errands, Errand, AboutToDelete
  <2> QED BY <1>3, <2>1, <2>2, HandlersAlone
<1> QED BY <1>2, <1>3 DEF Next

----------------------------------------------------------------------------
(* What an account is charged *)

\* The bytes of each row, and those of each handler's content.
RowBytes == [f \in FileIds |-> IF files[f].sha \in Contents THEN Size[files[f].sha] ELSE 0]
ClaimBytes == [p \in Handlers |-> IF task[p].sha \in Contents THEN Size[task[p].sha] ELSE 0]

Claimants(u) == {p \in Handlers : task[p].owner = u /\ Claimed(p)}
Filed(u) == Total(RowBytes, RowsOwned(u))
Owed(u) == Total(ClaimBytes, Claimants(u))

\* What handler p has claimed for an account.
Charge(p, u) == IF p \in Claimants(u) THEN ClaimBytes[p] ELSE 0

LEMMA BytesFit ==
  /\ \A f \in FileIds : RowBytes[f] \in Nat
  /\ \A p \in Handlers : ClaimBytes[p] \in Nat
BY StoreAssumption DEF RowBytes, ClaimBytes

LEMMA Charged ==
  ASSUME NEW p \in Handlers, NEW u
  PROVE  Charge(p, u) \in Nat
BY BytesFit DEF Charge

\* A handler with a claim knows the content it is for.
LEMMA ClaimsFit ==
  ASSUME TypeInv, Errands, NEW p \in Handlers, Claimed(p)
  PROVE  task[p].sha \in Contents
BY DEF Claimed, Errands, Errand, TypeInv, HandlersOK, LocalsFit, Locked

\* and so are the bytes that an account's handlers have claimed.
LEMMA ClaimsAre ==
  ASSUME NEW u, IsFiniteSet(Claimants(u)), \A p \in Claimants(u) : Size[task[p].sha] \in Nat
  PROVE  ClaimedFor(u) = Total([p \in Claimants(u) |-> Size[task[p].sha]], Claimants(u))
<1> DEFINE claims == Claimants(u)
           w == [p \in claims |-> Size[task[p].sha]]
           Sums(iter) == iter = [s \in SUBSET claims |->
                IF s = {} THEN 0 ELSE Size[task[CHOOSE x \in s : TRUE].sha] + iter[s \ {CHOOSE x \in s : TRUE}]]
<1>1. ASSUME NEW iter PROVE Sums(iter) <=> Folds(iter, w, claims)
  <2>1. ASSUME NEW s \in SUBSET claims, s # {} PROVE Pick(s) \in claims /\ w[Pick(s)] = Size[task[Pick(s)].sha]
    BY <2>1 DEF Pick
  <2>2. ASSUME NEW s \in SUBSET claims
        PROVE (IF s = {} THEN 0 ELSE w[Pick(s)] + iter[s \ {Pick(s)}])
             = IF s = {} THEN 0 ELSE Size[task[Pick(s)].sha] + iter[s \ {Pick(s)}]
    BY <2>1
  <2>3. [s \in SUBSET claims |-> IF s = {} THEN 0 ELSE w[Pick(s)] + iter[s \ {Pick(s)}]]
      = [s \in SUBSET claims |-> IF s = {} THEN 0 ELSE Size[task[Pick(s)].sha] + iter[s \ {Pick(s)}]]
    BY <2>2, Zenon
  <2> QED BY <2>3, Zenon DEF Folds, Pick
<1>2. \A x \in claims : w[x] \in Nat
  OBVIOUS
<1> HIDE DEF w
<1>3. /\ \E iter : Folds(iter, w, claims)
      /\ \A iter : Folds(iter, w, claims) => iter[claims] = Total(w, claims)
  BY <1>2, FoldIsTotal
<1> DEFINE sum == CHOOSE iter : Sums(iter)
<1>4. ClaimedFor(u) = sum[claims]
  BY DEF ClaimedFor, Claimants, MapThenSumSet, MapThenFoldSet
<1> HIDE DEF Sums
<1>5. Sums(sum)
  BY <1>1, <1>3
<1> HIDE DEF sum
<1> QED BY <1>1, <1>3, <1>4, <1>5 DEF w

\* The sums of the model are totals: of the rows there are, of an account's rows,
\* and of its claims.
LEMMA SumsAreTotals ==
  TypeInv /\ Errands =>
    /\ Bytes(Present) = Total(RowBytes, Present)
    /\ \A u \in Users : /\ Bytes(RowsOwned(u)) = Filed(u) /\ Filed(u) \in Nat
                        /\ ClaimedFor(u) = Owed(u) /\ Owed(u) \in Nat
<1> SUFFICES ASSUME TypeInv, Errands
             PROVE  /\ Bytes(Present) = Total(RowBytes, Present)
                    /\ \A u \in Users : /\ Bytes(RowsOwned(u)) = Filed(u) /\ Filed(u) \in Nat
                                        /\ ClaimedFor(u) = Owed(u) /\ Owed(u) \in Nat
  OBVIOUS
<1>1. ASSUME NEW rows \in SUBSET FileIds, \A f \in rows : files[f].sha \in Contents
      PROVE  Bytes(rows) = Total(RowBytes, rows) /\ Total(RowBytes, rows) \in Nat
  <2> DEFINE w == [f \in rows |-> Size[files[f].sha]]
  <2>1. IsFiniteSet(rows) /\ \A f \in rows : Size[files[f].sha] \in Nat
    BY <1>1, RowsFinite, StoreAssumption
  <2>2. Bytes(rows) = Total(w, rows)
    BY <2>1, BytesAre
  <2>3. \A f \in rows : w[f] = RowBytes[f]
    BY <1>1 DEF RowBytes
  <2> HIDE DEF w
  <2>4. Total(w, rows) = Total(RowBytes, rows)
    BY <2>3, TotalSame
  <2>5. Total(RowBytes, rows) \in Nat
    BY <2>1, BytesFit, UnitsFinite
  <2> QED BY <2>2, <2>4, <2>5
<1>2. Present \in SUBSET FileIds /\ \A f \in Present : files[f].sha \in Contents
  BY Rows DEF Present
<1>3. ASSUME NEW u \in Users
      PROVE  RowsOwned(u) \in SUBSET FileIds /\ \A f \in RowsOwned(u) : files[f].sha \in Contents
  <2>1. ASSUME NEW f \in RowsOwned(u) PROVE files[f].sha \in Contents
    <3>1. files[f] \in Row /\ files[f].owner # None
      BY StoreAssumption DEF TypeInv, TypeOK, RowsOwned
    <3> QED BY <3>1 DEF Row, Unused, Deleted
  <2> QED BY <2>1 DEF RowsOwned
<1>4. ASSUME NEW u \in Users PROVE ClaimedFor(u) = Owed(u) /\ Owed(u) \in Nat
  <2> DEFINE w == [p \in Claimants(u) |-> Size[task[p].sha]]
  <2>1. /\ IsFiniteSet(Claimants(u))
        /\ \A p \in Claimants(u) : p \in Handlers /\ task[p].sha \in Contents
    BY StoreAssumption, FS_Subset, ClaimsFit DEF Claimants
  <2>2. \A p \in Claimants(u) : Size[task[p].sha] \in Nat
    BY <2>1, StoreAssumption
  <2>3. ClaimedFor(u) = Total(w, Claimants(u))
    BY <2>1, <2>2, ClaimsAre
  <2>4. \A p \in Claimants(u) : w[p] = ClaimBytes[p]
    BY <2>1 DEF ClaimBytes
  <2> HIDE DEF w
  <2>5. Total(w, Claimants(u)) = Total(ClaimBytes, Claimants(u))
    BY <2>4, TotalSame
  <2>6. Total(ClaimBytes, Claimants(u)) \in Nat
    BY <2>1, BytesFit, UnitsFinite
  <2> QED BY <2>3, <2>5, <2>6 DEF Owed
<1> QED BY <1>1, <1>2, <1>3, <1>4 DEF Filed

\* The sums before a step and after it are the ones the totals give.
LEMMA SumsAfterwards ==
  ASSUME TypeInv, Purposes, Errands, [Next]_vars
  PROVE  /\ TypeInv' /\ Purposes' /\ Errands'
         /\ (Bytes(Present) = Total(RowBytes, Present))'
         /\ \A u \in Users : /\ (Bytes(RowsOwned(u)) = Filed(u))' /\ (Filed(u))' \in Nat
                             /\ (ClaimedFor(u) = Owed(u))' /\ (Owed(u))' \in Nat
<1>1. TypeInv' /\ Purposes' /\ Errands'
  BY TypeStep, PurposeStep, ErrandStep
<1>2. (TypeInv /\ Errands =>
         /\ Bytes(Present) = Total(RowBytes, Present)
         /\ \A u \in Users : /\ Bytes(RowsOwned(u)) = Filed(u) /\ Filed(u) \in Nat
                             /\ ClaimedFor(u) = Owed(u) /\ Owed(u) \in Nat)'
  BY SumsAreTotals, PTL
<1> QED BY <1>1, <1>2

LEMMA SumFitted ==
  ASSUME NEW u
  PROVE  Filed(u) \in Nat /\ IsFiniteSet(RowsOwned(u))
<1>1. RowsOwned(u) \in SUBSET FileIds
  BY DEF RowsOwned
<1>2. IsFiniteSet(RowsOwned(u)) /\ \A f \in RowsOwned(u) : RowBytes[f] \in Nat
  BY <1>1, RowsFinite, BytesFit
<1> QED BY <1>2, UnitsFinite DEF Filed

\* An account whose rows neither come, go nor change has the same bytes filed.
LEMMA FiledSame ==
  ASSUME NEW u \in Users,
         \A f \in FileIds : /\ files'[f].owner = u <=> files[f].owner = u
                            /\ files[f].owner = u => files'[f].sha = files[f].sha
  PROVE  (Filed(u))' = Filed(u)
<1>1. (RowsOwned(u))' = RowsOwned(u)
  BY DEF RowsOwned
<1>2. \A f \in RowsOwned(u) : RowBytes'[f] = RowBytes[f]
  BY DEF RowsOwned, RowBytes
<1>3. Total(RowBytes', RowsOwned(u)) = Total(RowBytes, RowsOwned(u))
  BY <1>2, TotalSame
<1> QED BY <1>1, <1>3 DEF Filed

\* What the owner of a new row has filed grows by its bytes,
LEMMA FiledMore ==
  ASSUME TypeInv, TypeInv', NEW f \in FileIds, files[f].state = "unused",
         NEW c \in Contents, NEW v, NEW u \in Users,
         files'[f].owner = v, files'[f].sha = c, \A g \in FileIds \ {f} : files'[g] = files[g]
  PROVE  (Filed(u))' = Filed(u) + (IF v = u THEN Size[c] ELSE 0)
<1>1. files[f].owner # u
  BY StoreAssumption DEF TypeInv, TypeOK, Row, Unused, Deleted
<1>2. files'[f].owner = v /\ files'[f].sha = c /\ \A g \in FileIds \ {f} : files'[g] = files[g]
  OBVIOUS
<1>3. CASE v # u
  BY <1>1, <1>2, <1>3, FiledSame, SumFitted
<1>4. CASE v = u
  <2>1. (RowsOwned(u))' \in SUBSET FileIds /\ f \in (RowsOwned(u))'
          /\ (RowsOwned(u))' \ {f} = RowsOwned(u)
    BY <1>1, <1>2, <1>4 DEF RowsOwned
  <2>2. \A g \in FileIds : RowBytes'[g] \in Nat
    BY StoreAssumption DEF RowBytes
  <2>3. Total(RowBytes', (RowsOwned(u))') = RowBytes'[f] + Total(RowBytes', RowsOwned(u))
    <3> DEFINE w == RowBytes'
               S == (RowsOwned(u))'
    <3>1. IsFiniteSet(S) /\ (\A g \in S : w[g] \in Nat) /\ f \in S
      BY <2>1, <2>2, RowsFinite
    <3>2. S \ {f} = RowsOwned(u)
      BY <2>1
    <3> HIDE DEF w, S
    <3>3. Total(w, S) = w[f] + Total(w, S \ {f})
      BY <3>1, TotalOneMore
    <3> QED BY <3>2, <3>3 DEF w, S
  <2>4. \A g \in RowsOwned(u) : RowBytes'[g] = RowBytes[g]
    BY <1>1, <1>2 DEF RowsOwned, RowBytes
  <2>5. Total(RowBytes', RowsOwned(u)) = Total(RowBytes, RowsOwned(u))
    BY <2>4, TotalSame
  <2>6. RowBytes'[f] = Size[c] /\ Size[c] \in Nat
    BY <1>2, StoreAssumption DEF RowBytes
  <2>7. Filed(u) \in Nat
    BY SumFitted
  <2> QED BY <1>4, <2>3, <2>5, <2>6, <2>7 DEF Filed
<1> QED BY <1>3, <1>4

\* ...and what the owner of a deleted row has shrinks by them.
LEMMA FiledLess ==
  ASSUME TypeInv, TypeInv', NEW f \in FileIds, files[f].sha # None, DeleteRows({f}),
         NEW u \in Users
  PROVE  Filed(u) = (Filed(u))' + (IF files[f].owner = u THEN Size[files[f].sha] ELSE 0)
<1>1. files[f].sha \in Contents /\ files[f].owner \in Owners
  BY Rows
<1>2. files'[f] = Deleted /\ \A g \in FileIds \ {f} : files'[g] = files[g]
  BY DEF DeleteRows
<1>3. files'[f].owner # u
  BY <1>2, StoreAssumption DEF Deleted
<1>4. CASE files[f].owner # u
  BY <1>2, <1>3, <1>4, FiledSame, SumFitted
<1>5. CASE files[f].owner = u
  <2>1. RowsOwned(u) \in SUBSET FileIds /\ f \in RowsOwned(u)
          /\ (RowsOwned(u))' = RowsOwned(u) \ {f}
    BY <1>2, <1>3, <1>5 DEF RowsOwned
  <2>2. IsFiniteSet(RowsOwned(u)) /\ \A g \in RowsOwned(u) : RowBytes[g] \in Nat
    BY <2>1, BytesFit, RowsFinite
  <2>3. Total(RowBytes, RowsOwned(u)) = RowBytes[f] + Total(RowBytes, RowsOwned(u) \ {f})
          /\ Total(RowBytes, RowsOwned(u) \ {f}) \in Nat
    BY <2>1, <2>2, TotalOneMore
  <2>4. \A g \in RowsOwned(u) \ {f} : RowBytes'[g] = RowBytes[g]
    BY <1>2, <2>1 DEF RowBytes
  <2>5. Total(RowBytes', RowsOwned(u) \ {f}) = Total(RowBytes, RowsOwned(u) \ {f})
    BY <2>4, TotalSame
  <2>6. RowBytes[f] = Size[files[f].sha] /\ Size[files[f].sha] \in Nat
    BY <1>1, StoreAssumption DEF RowBytes
  <2> QED BY <1>5, <2>1, <2>3, <2>5, <2>6 DEF Filed
<1> QED BY <1>4, <1>5

\* The account that is deleted takes its own rows with it, and nobody else's.
LEMMA FiledByOthers ==
  ASSUME TypeInv, NEW v \in Users, NEW u \in Users \ {v}, DeleteRows(RowsOwned(v))
  PROVE  (Filed(u))' = Filed(u)
<1>1. ASSUME NEW f \in FileIds
      PROVE  /\ files'[f].owner = u <=> files[f].owner = u
             /\ files[f].owner = u => files'[f].sha = files[f].sha
  BY StoreAssumption DEF DeleteRows, RowsOwned, Deleted
<1> QED BY <1>1, FiledSame

\* A handler's step changes what is owed by its own claim alone.
LEMMA OwedStep ==
  ASSUME TypeInv, NEW p \in Handlers, NEW u \in Users,
         \A q \in Handlers : q # p => pc'[q] = pc[q] /\ task'[q] = task[q]
  PROVE  \E rest \in Nat : /\ Owed(u) = rest + Charge(p, u)
                           /\ (Owed(u))' = rest + (Charge(p, u))'
<1> DEFINE S == Claimants(u)
           T == (Claimants(u))'
           w == ClaimBytes
           v == ClaimBytes'
<1>1. IsFiniteSet(S) /\ IsFiniteSet(T)
  BY StoreAssumption, FS_Subset DEF Claimants
<1>2. S \ {p} = T \ {p}
  BY DEF Claimants, Claimed
<1>3. (\A q \in Handlers : w[q] \in Nat /\ v[q] \in Nat) /\ \A q \in S \ {p} : w[q] = v[q]
  BY StoreAssumption DEF ClaimBytes, Claimants
<1>4. S \subseteq Handlers /\ T \subseteq Handlers
  BY DEF Claimants
<1> HIDE DEF S, T, w, v
<1>5. Total(w, S) = (IF p \in S THEN w[p] ELSE 0) + Total(w, S \ {p})
        /\ Total(w, S \ {p}) \in Nat
  <2>1. CASE p \in S
    BY <1>1, <1>3, <1>4, <2>1, TotalOneMore
  <2>2. CASE p \notin S
    <3>1. S \ {p} = S
      BY <2>2
    <3>2. Total(w, S) \in Nat
      BY <1>1, <1>3, <1>4, UnitsFinite
    <3> QED BY <2>2, <3>1, <3>2
  <2> QED BY <2>1, <2>2
<1>6. Total(v, T) = (IF p \in T THEN v[p] ELSE 0) + Total(v, T \ {p})
        /\ Total(v, T \ {p}) \in Nat
  <2>1. CASE p \in T
    BY <1>1, <1>3, <1>4, <2>1, TotalOneMore
  <2>2. CASE p \notin T
    <3>1. T \ {p} = T
      BY <2>2
    <3>2. Total(v, T) \in Nat
      BY <1>1, <1>3, <1>4, UnitsFinite
    <3> QED BY <2>2, <3>1, <3>2
  <2> QED BY <2>1, <2>2
<1>7. Total(w, S \ {p}) = Total(v, S \ {p})
  BY <1>3, TotalSame
<1>8. Total(v, T \ {p}) = Total(w, S \ {p})
  BY <1>2, <1>7
<1> DEFINE rest == Total(w, S \ {p})
<1>9. /\ rest \in Nat
      /\ Owed(u) = rest + Charge(p, u)
      /\ (Owed(u))' = rest + (Charge(p, u))'
  <2>1. Charge(p, u) = (IF p \in S THEN w[p] ELSE 0) /\ Owed(u) = Total(w, S)
    BY DEF Charge, Owed, S, w
  <2>2. (Charge(p, u))' = (IF p \in T THEN v[p] ELSE 0) /\ (Owed(u))' = Total(v, T)
    BY DEF Charge, Owed, T, v
  <2>3. (IF p \in S THEN w[p] ELSE 0) \in Nat /\ (IF p \in T THEN v[p] ELSE 0) \in Nat
    BY <1>3
  <2> HIDE DEF rest
  <2> QED BY <1>5, <1>6, <1>8, <2>1, <2>2, <2>3 DEF rest
<1> QED BY <1>9

\* What UsageInv says of one account, with the sums as totals.
Covered(u) ==
    /\ used[u] \in Nat
    /\ Filed(u) + Owed(u) <= used[u]
    /\ Quota[u] > 0 => used[u] <= Quota[u]
    /\ Faults \cap {"cancel", "write", "crash"} = {} => used[u] = Filed(u) + Owed(u)

LEMMA UsageCovers ==
  TypeInv /\ Errands => (UsageInv <=> \A u \in accounts : Covered(u))
<1> SUFFICES ASSUME TypeInv, Errands PROVE UsageInv <=> \A u \in accounts : Covered(u)
  OBVIOUS
<1>1. accounts \subseteq Users
  BY DEF TypeInv, TypeOK
<1>2. \A u \in accounts : Bytes(RowsOwned(u)) = Filed(u) /\ ClaimedFor(u) = Owed(u)
  BY <1>1, SumsAreTotals
<1> QED BY <1>2 DEF UsageInv, Covered

LEMMA UsageCoversAfterwards ==
  ASSUME TypeInv', Errands'
  PROVE  UsageInv' <=> \A u \in accounts' : (Covered(u))'
<1>1. (TypeInv /\ Errands => (UsageInv <=> \A u \in accounts : Covered(u)))'
  BY UsageCovers, PTL
<1> QED BY <1>1

\* What a handler has claimed, by what it is at.
LEMMA ChargeIs ==
  ASSUME TypeInv, Errands, NEW p \in Handlers, NEW u
  PROVE  /\ ~Claimed(p) => Charge(p, u) = 0
         /\ task[p].owner # u => Charge(p, u) = 0
         /\ Claimed(p) /\ task[p].owner = u =>
              Charge(p, u) = Size[task[p].sha] /\ Size[task[p].sha] \in Nat
<1>1. Claimed(p) => task[p].sha \in Contents /\ Size[task[p].sha] \in Nat
  BY ClaimsFit, StoreAssumption
<1> QED BY <1>1 DEF Charge, Claimants, ClaimBytes

LEMMA ChargeBecomes ==
  ASSUME TypeInv', Errands', NEW p \in Handlers, NEW u
  PROVE  /\ ~(Claimed(p))' => (Charge(p, u))' = 0
         /\ task'[p].owner # u => (Charge(p, u))' = 0
         /\ (Claimed(p))' /\ task'[p].owner = u =>
              (Charge(p, u))' = Size[task'[p].sha] /\ Size[task'[p].sha] \in Nat
<1>1. (TypeInv /\ Errands /\ p \in Handlers =>
         /\ ~Claimed(p) => Charge(p, u) = 0
         /\ task[p].owner # u => Charge(p, u) = 0
         /\ Claimed(p) /\ task[p].owner = u =>
              Charge(p, u) = Size[task[p].sha] /\ Size[task[p].sha] \in Nat)'
  BY ChargeIs, PTL
<1> QED BY <1>1

\* An account stays covered by a step of a handler that adds to its usage what it
\* adds to its files and claims,
LEMMA Balanced ==
  ASSUME NEW p \in Handlers, NEW u, Covered(u), NEW rest \in Nat,
         Owed(u) = rest + Charge(p, u), (Owed(u))' = rest + (Charge(p, u))',
         Charge(p, u) \in Nat, (Charge(p, u))' \in Nat,
         Filed(u) \in Nat, (Filed(u))' \in Nat,
         used'[u] \in Int,
         used'[u] + Filed(u) + Charge(p, u) = used[u] + (Filed(u))' + (Charge(p, u))',
         Quota[u] > 0 => used'[u] <= Quota[u]
  PROVE  (Covered(u))'
<1>0. used[u] \in Nat /\ Filed(u) + Owed(u) <= used[u]
  BY DEF Covered
<1>1. (Filed(u))' + (Owed(u))' <= used'[u]
  BY <1>0
<1>2. used[u] = Filed(u) + Owed(u) => used'[u] = (Filed(u))' + (Owed(u))'
  BY <1>0
<1>3. used'[u] \in Nat
  BY <1>1
<1> QED BY <1>1, <1>2, <1>3 DEF Covered

\* ...and, where something may be cut short, by one that drops a claim.
LEMMA Forgotten ==
  ASSUME NEW p \in Handlers, NEW u, Covered(u), NEW rest \in Nat,
         Owed(u) = rest + Charge(p, u), (Owed(u))' = rest + (Charge(p, u))',
         Charge(p, u) \in Nat, (Charge(p, u))' = 0,
         Filed(u) \in Nat, (Filed(u))' = Filed(u), used'[u] = used[u],
         Faults \cap {"cancel", "write", "crash"} # {}
  PROVE  (Covered(u))'
<1>1. (Filed(u))' + (Owed(u))' <= used'[u]
  BY DEF Covered
<1> QED BY <1>1 DEF Covered

\* No handler makes an account.
LEMMA AccountsGo ==
  ASSUME TypeInv, Purposes, Errands, NEW p \in Handlers, HandlerStep(p)
  PROVE  accounts' \subseteq accounts
<1>1. ClaimKept(p) \/ Charges(p)
  BY HandlerErrands
<1> QED BY <1>1 DEF Charges, ClaimKept, Reserve, CreateFile, Undo, Refund, DeleteFile, ReapFile,
                    Abandon, PurgeTrashedFile, DeleteAccount, db

\* A handler's step leaves an account that remains covered.
LEMMA HandlerCovers ==
  ASSUME TypeInv, Purposes, Errands, Calm, NEW p \in Handlers, HandlerStep(p),
         NEW u \in accounts', Covered(u)
  PROVE  (Covered(u))'
<1> DEFINE n == Size[task[p].sha]
           v == task[p].owner
<1>0. /\ pc \in [Handlers -> Labels] /\ task \in [Handlers -> Task] /\ DOMAIN used = Users
      /\ files \in [FileIds -> Row] /\ accounts \subseteq Users /\ LocalsFit(pc[p], task[p])
      /\ Errand(pc[p], task[p]) /\ Purpose(pc[p], task[p].op)
  BY DEF TypeInv, TypeOK, HandlersOK, Errands, Purposes
<1>1. TypeInv' /\ Errands' /\ \A w \in Users : (Filed(w))' \in Nat
  BY SumsAfterwards DEF Next
<1>2. u \in Users /\ None \notin Users
  BY <1>1, StoreAssumption DEF TypeInv, TypeOK
<1>3. Filed(u) \in Nat /\ (Filed(u))' \in Nat
  BY <1>1, <1>2, SumFitted
<1>4. PICK rest \in Nat : Owed(u) = rest + Charge(p, u) /\ (Owed(u))' = rest + (Charge(p, u))'
  BY <1>2, HandlerPurpose, OwedStep
<1>5. /\ Charge(p, u) \in Nat /\ (Charge(p, u))' \in Nat /\ used[u] \in Nat
      /\ Filed(u) + rest + Charge(p, u) <= used[u]
  <2>1. (Charge(p, u))' \in Nat
    BY StoreAssumption DEF Charge, ClaimBytes
  <2>2. Charge(p, u) \in Nat
    BY Charged
  <2> QED BY <1>3, <1>4, <2>1, <2>2 DEF Covered
<1>6. Quota[u] > 0 => used[u] <= Quota[u]
  BY DEF Covered
<1>7. /\ ~Claimed(p) => Charge(p, u) = 0
      /\ v # u => Charge(p, u) = 0
      /\ Claimed(p) /\ v = u => Charge(p, u) = n /\ n \in Nat
  BY ChargeIs
<1>8. /\ ~(Claimed(p))' => (Charge(p, u))' = 0
      /\ task'[p].owner # u => (Charge(p, u))' = 0
      /\ (Claimed(p))' /\ task'[p].owner = u =>
           (Charge(p, u))' = Size[task'[p].sha] /\ Size[task'[p].sha] \in Nat
  BY <1>1, ChargeBecomes
<1>9. UNCHANGED files => (Filed(u))' = Filed(u)
  BY <1>2, FiledSame
<1>10. ASSUME used'[u] = used[u], Filed(u) + Charge(p, u) = (Filed(u))' + (Charge(p, u))'
       PROVE  (Covered(u))'
  BY <1>3, <1>4, <1>5, <1>6, <1>10, Balanced
<1>11. ASSUME used'[u] = used[u], (Filed(u))' = Filed(u), (Charge(p, u))' = 0,
              Charge(p, u) = 0 \/ Faults \cap {"cancel", "write", "crash"} # {}
       PROVE  (Covered(u))'
  BY <1>3, <1>4, <1>5, <1>10, <1>11, Forgotten
<1>12. CASE ClaimKept(p)
  <2>1. (Charge(p, u))' = Charge(p, u)
    BY <1>7, <1>8, <1>12 DEF ClaimKept
  <2> QED BY <1>3, <1>5, <1>9, <1>10, <1>12, <2>1 DEF ClaimKept
<1>13. CASE Reserve(p)
  <2>1. /\ pc[p] = "reserve" /\ pc'[p] \in {"record", "save"} /\ task'[p] = task[p]
        /\ UNCHANGED <<accounts, files>>
    BY <1>13, Stays DEF Reserve, AfterReserve
  <2>2. ~Claimed(p) /\ (Claimed(p))'
    BY <1>0, <2>1 DEF Errand, Claimed
  <2>3. CASE v = u
    <3>1. /\ used' = [used EXCEPT ![u] = @ + n]
          /\ Quota[u] = 0 \/ used[u] + n <= Quota[u]
      BY <1>2, <1>13, <2>3, StoreAssumption DEF Reserve, Fits
    <3>2. used'[u] = used[u] + n /\ (Charge(p, u))' = n /\ n \in Nat /\ Charge(p, u) = 0
      BY <1>0, <1>2, <1>7, <1>8, <2>1, <2>2, <2>3, <3>1
    <3>3. Quota[u] \in Nat
      BY <1>2, StoreAssumption
    <3> HIDE DEF n
    <3> QED BY <1>3, <1>4, <1>5, <1>9, <2>1, <3>1, <3>2, <3>3, Balanced
  <2>4. CASE v # u
    <3>1. used'[u] = used[u]
      BY <1>0, <1>2, <1>13, <2>4 DEF Reserve
    <3> QED BY <1>7, <1>8, <1>9, <1>11, <2>1, <2>2, <2>4, <3>1
  <2> QED BY <2>1, <2>3, <2>4
<1>14. CASE CreateFile(p)
  <2>1. pc[p] = "record" /\ Finish(p) /\ UNCHANGED <<accounts, used>>
    BY <1>14 DEF CreateFile
  <2>2. Claimed(p) /\ ~(Claimed(p))'
    BY <1>0, <2>1, NoErrand DEF Errand, Claimed
  <2>3. v \in Owners /\ task[p].sha \in Contents
    BY <1>0, <1>14, <2>1 DEF CreateFile, Owners, LocalsFit, Locked
  <2>4. PICK f \in FileIds : files[f].state = "unused" /\ files' = [files EXCEPT ![f] =
           [state |-> "live", sha |-> task[p].sha, owner |-> v]]
    BY <1>14, FilesOne
  <2>5. (Filed(u))' = Filed(u) + (IF v = u THEN n ELSE 0)
    <3>1. /\ files'[f].owner = v /\ files'[f].sha = task[p].sha
          /\ \A g \in FileIds \ {f} : files'[g] = files[g]
      BY <1>0, <2>4
    <3>2. files[f].state = "unused"
      BY <2>4
    <3> HIDE DEF v
    <3> QED BY <1>1, <1>2, <2>3, <3>1, <3>2, FiledMore
  <2>6. used'[u] = used[u] /\ (Charge(p, u))' = 0
    BY <1>8, <2>1, <2>2
  <2>7. CASE v = u
    <3>1. Charge(p, u) = n /\ n \in Nat /\ (Filed(u))' = Filed(u) + n
      BY <1>7, <2>2, <2>5, <2>7
    <3>2. Filed(u) + Charge(p, u) = (Filed(u))' + (Charge(p, u))'
      BY <1>3, <2>6, <3>1
    <3> QED BY <1>10, <2>6, <3>2
  <2>8. CASE v # u
    <3>1. Charge(p, u) = 0 /\ (Filed(u))' = Filed(u)
      BY <1>3, <1>7, <2>5, <2>8
    <3> QED BY <1>11, <2>6, <3>1
  <2> QED BY <2>7, <2>8
<1>15. CASE Undo(p) \/ Refund(p)
  <2>1. /\ pc[p] \in {"undo", "refund"} /\ UNCHANGED <<accounts, files>>
        /\ Finish(p) \/ pc'[p] \in {"discard", "reap"}
    BY <1>15, Stays DEF Undo, Refund
  <2>2. Claimed(p) /\ ~(Claimed(p))'
    BY <1>0, <2>1, NoErrand DEF Errand, Claimed
  <2>3. CASE used' = GiveBack(v, task[p].sha)
    <3>1. CASE v = u
      <4>1. n \in Nat /\ n <= used[u]
        BY <1>3, <1>5, <1>7, <2>2, <3>1
      <4>2. used'[u] = used[u] - n
        BY <1>0, <1>2, <2>1, <2>3, <3>1, <4>1 DEF GiveBack
      <4>3. Charge(p, u) = n /\ (Charge(p, u))' = 0
        BY <1>7, <1>8, <2>2, <3>1
      <4>4. Quota[u] \in Nat
        BY <1>2, StoreAssumption
      <4> HIDE DEF n
      <4> QED BY <1>3, <1>4, <1>5, <1>6, <1>9, <2>1, <4>1, <4>2, <4>3, <4>4, Balanced
    <3>2. CASE v # u
      <4>1. used'[u] = used[u]
        BY <1>0, <1>2, <2>3, <3>2 DEF GiveBack
      <4> QED BY <1>7, <1>8, <1>9, <1>11, <2>1, <2>2, <3>2, <4>1
    <3> QED BY <3>1, <3>2
  <2>4. CASE "write" \in Faults /\ UNCHANGED used
    BY <1>8, <1>9, <1>11, <2>1, <2>2, <2>4
  <2> QED BY <1>15, <2>1, <2>3, <2>4 DEF Undo, Refund
<1>16. ASSUME NEW f \in FileIds, files[f].sha # None, DeleteRows({f}),
              UNCHANGED <<accounts, used>>, ~Claimed(p), (Claimed(p))',
              task'[p].sha = files[f].sha, task'[p].owner = files[f].owner
       PROVE  (Covered(u))'
  <2>1. Filed(u) = (Filed(u))' + (IF files[f].owner = u THEN Size[files[f].sha] ELSE 0)
    BY <1>1, <1>2, <1>16, FiledLess
  <2>2. CASE files[f].owner = u
    <3>1. (Charge(p, u))' = Size[files[f].sha] /\ Size[files[f].sha] \in Nat /\ Charge(p, u) = 0
      BY <1>7, <1>8, <1>16, <2>2
    <3> QED BY <1>3, <1>10, <1>16, <2>1, <2>2, <3>1
  <2>3. CASE files[f].owner # u
    BY <1>3, <1>7, <1>8, <1>11, <1>16, <2>1, <2>3
  <2> QED BY <2>2, <2>3
<1>17. CASE DeleteFile(p)
  <2>1. pc[p] = "deleteRow" /\ ~Claimed(p) /\ task[p].op = "remove" /\ UNCHANGED <<accounts, used>>
    BY <1>0, <1>17 DEF DeleteFile, Claimed, Purpose
  <2>2. CASE DeleteRows(task[p].batch) /\ Goto(p, "waiting") /\ UNCHANGED task
    <3>1. pc'[p] = "waiting" /\ task'[p] = task[p] /\ (Claimed(p))'
      BY <2>1, <2>2, Stays DEF Claimed
    <3>2. PICK f \in FileIds :
            /\ task[p].batch = {f}
            /\ files[f].sha # None => files[f].sha = task[p].sha /\ files[f].owner = v
      BY <2>1 DEF Errands, AboutToDelete
    <3>3. files[f].sha # None
      BY <2>1, <3>1, <3>2 DEF Calm
    <3> QED BY <1>16, <2>1, <2>2, <3>1, <3>2, <3>3
  <2>3. CASE Finish(p) /\ UNCHANGED <<files, blobs>>
    BY <1>7, <1>8, <1>9, <1>11, <2>1, <2>3, NoErrand
  <2> QED BY <1>17, <2>1, <2>2, <2>3 DEF DeleteFile
<1>18. ASSUME NEW f \in FileIds, PurgeTrashedFile(p, f) PROVE (Covered(u))'
  <2>1. files[f].sha # None /\ pc[p] = "idle" /\ DeleteRows({f}) /\ UNCHANGED <<accounts, used>>
    BY <1>18, Rows DEF PurgeTrashedFile
  <2>2. pc'[p] = "waiting" /\ task'[p] = Working("remove", f, None)
    BY <1>0, <1>18 DEF PurgeTrashedFile, Goto
  <2>3. task'[p].op = "remove" /\ task'[p].sha = files[f].sha /\ task'[p].owner = files[f].owner
    BY <2>2 DEF Working, NoTask
  <2>4. ~Claimed(p) /\ (Claimed(p))'
    BY <2>1, <2>2, <2>3 DEF Claimed
  <2> QED BY <1>16, <2>1, <2>3, <2>4
<1>19. CASE ReapFile(p)
  <2>1. pc[p] = "reap" /\ ~Claimed(p) /\ task[p].op = "reap" /\ UNCHANGED <<accounts, used>>
    BY <1>0, <1>19 DEF ReapFile, Claimed, Purpose
  <2>2. PICK f \in task[p].batch :
          \/ /\ Expired(f)
             /\ task' = [task EXCEPT ![p].sha = files[f].sha, ![p].owner = files[f].owner,
                                     ![p].batch = @ \ {f}]
             /\ DeleteRows({f}) /\ Goto(p, "waiting")
          \/ /\ task' = [task EXCEPT ![p].batch = @ \ {f}]
             /\ UNCHANGED <<files, pc>>
    BY <1>19, ZenonT(60) DEF ReapFile
  <2>3. f \in FileIds /\ task[p] \in Task
    BY <1>0 DEF Task
  <2>4. CASE /\ Expired(f)
             /\ task' = [task EXCEPT ![p].sha = files[f].sha, ![p].owner = files[f].owner,
                                     ![p].batch = @ \ {f}]
             /\ DeleteRows({f}) /\ Goto(p, "waiting")
    <3> DEFINE t == [task[p] EXCEPT !.sha = files[f].sha, !.owner = files[f].owner,
                                    !.batch = @ \ {f}]
    <3>1. t.op = "reap" /\ t.sha = files[f].sha /\ t.owner = files[f].owner
      BY <2>1, <2>3 DEF Task
    <3>2. task'[p] = t /\ pc'[p] = "waiting"
      BY <1>0, <2>4 DEF Goto
    <3> HIDE DEF t
    <3>3. (Claimed(p))'
      BY <3>1, <3>2 DEF Claimed
    <3>4. files[f].sha # None
      BY <2>3, <2>4, Rows DEF Expired
    <3> QED BY <1>16, <2>1, <2>3, <2>4, <3>1, <3>2, <3>3, <3>4
  <2>5. CASE UNCHANGED <<files, pc>>
    <3>1. ~(Claimed(p))'
      BY <2>1, <2>5 DEF Claimed
    <3> QED BY <1>7, <1>8, <1>9, <1>11, <2>1, <2>5, <3>1
  <2> QED BY <2>1, <2>2, <2>4, <2>5
<1>20. CASE Abandon(p)
  <2>1. "cancel" \in Faults /\ Finish(p) /\ UNCHANGED <<accounts, used, files>>
    BY <1>20 DEF Abandon, db
  <2> QED BY <1>8, <1>9, <1>11, <2>1, NoErrand
<1>21. ASSUME NEW w \in Users, DeleteAccount(p, w) PROVE (Covered(u))'
  <2>1. /\ pc[p] = "idle" /\ accounts' = accounts \ {w} /\ used' = [used EXCEPT ![w] = 0]
        /\ DeleteRows(RowsOwned(w)) /\ pc'[p] = "scan"
    BY <1>0, <1>21 DEF DeleteAccount, Goto
  <2>2. u # w /\ u \in accounts /\ used'[u] = used[u]
    BY <1>0, <1>2, <2>1
  <2>3. (Filed(u))' = Filed(u)
    BY <1>2, <2>1, <2>2, FiledByOthers
  <2>4. ~Claimed(p) /\ ~(Claimed(p))'
    BY <2>1 DEF Claimed
  <2> QED BY <1>7, <1>8, <1>11, <2>2, <2>3, <2>4
<1>22. ClaimKept(p) \/ Charges(p)
  BY HandlerErrands
<1> QED BY <1>12, <1>13, <1>14, <1>15, <1>17, <1>18, <1>19, <1>20, <1>21, <1>22 DEF Charges

\* So does a crash, where there is one, and a recomputation while no claim is out.
LEMMA UsageStep ==
  TypeInv /\ Purposes /\ Errands /\ UsageInv /\ [Next]_vars /\ [Calm]_vars => UsageInv'
<1> SUFFICES ASSUME TypeInv, Purposes, Errands, UsageInv, [Next]_vars, [Calm]_vars
             PROVE  UsageInv'
  OBVIOUS
<1>1. TypeInv' /\ Errands' /\ accounts \subseteq Users
  BY SumsAfterwards DEF TypeInv, TypeOK
<1>2. \A u \in accounts : Covered(u)
  BY UsageCovers
<1>3. \A u \in Users : /\ Filed(u) \in Nat /\ Owed(u) \in Nat
                       /\ (Filed(u))' \in Nat /\ (Owed(u))' \in Nat
                       /\ Bytes(RowsOwned(u)) = Filed(u)
  BY SumsAreTotals, SumsAfterwards
<1> SUFFICES ASSUME NEW u \in accounts' PROVE (Covered(u))'
  BY <1>1, UsageCoversAfterwards
<1>4. ASSUME UNCHANGED <<accounts, used, pc, task>>,
             \A f \in FileIds : files'[f].sha = files[f].sha /\ files'[f].owner = files[f].owner
      PROVE  (Covered(u))'
  <2>1. u \in accounts /\ u \in Users
    BY <1>1, <1>4
  <2>2. (Filed(u))' = Filed(u)
    BY <1>4, <2>1, FiledSame
  <2>3. (Claimants(u))' = Claimants(u) /\ ClaimBytes' = ClaimBytes
    BY <1>4 DEF Claimants, Claimed, ClaimBytes
  <2>4. (Owed(u))' = Owed(u)
    BY <2>3 DEF Owed
  <2> QED BY <1>2, <1>4, <2>1, <2>2, <2>4 DEF Covered
<1>5. CASE UNCHANGED vars
  BY <1>4, <1>5 DEF vars
<1>6. ASSUME NEW p \in Handlers, HandlerStep(p), Calm PROVE (Covered(u))'
  <2>1. u \in accounts
    BY <1>6, AccountsGo
  <2> QED BY <1>2, <1>6, <2>1, HandlerCovers
<1>7. CASE RowStep
  <2>1. UNCHANGED <<accounts, used, pc, task>>
    BY <1>7 DEF RowStep, TrashFile, RestoreTrashedFile, DeadlinePasses, ApplyAnonymousRetention
  <2> QED BY <1>4, <1>7, <2>1, RowsStay
<1>8. CASE Crash
  <2>1. /\ "crash" \in Faults /\ UNCHANGED <<accounts, used, files>>
        /\ \A p \in Handlers : pc'[p] = "idle"
    BY <1>8 DEF Crash, db
  <2>2. u \in accounts /\ u \in Users
    BY <1>1, <2>1
  <2>3. (Filed(u))' = Filed(u)
    BY <2>1, <2>2, FiledSame
  <2>4. (Claimants(u))' = {}
    BY <2>1 DEF Claimants, Claimed
  <2>5. (Owed(u))' = 0
    BY <2>4, NoUnits DEF Owed
  <2>6. Filed(u) <= used[u]
    BY <1>2, <1>3, <2>2 DEF Covered
  <2>7. (Filed(u))' + (Owed(u))' <= used'[u]
    BY <1>3, <2>1, <2>2, <2>3, <2>5, <2>6
  <2> QED BY <1>2, <2>1, <2>2, <2>7 DEF Covered
<1>9. CASE ServerStep /\ ~Crash
  <2>1. UNCHANGED <<accounts, used, pc, task>>
    BY <1>9 DEF ServerStep, PinObjects, UnpinObjects, Reconfigure, Regenerate, db
  <2> QED BY <1>4, <1>9, <2>1, RowsStay
<1>10. CASE RecomputeStorageUsage /\ Calm
  <2>1. UNCHANGED <<accounts, files, pc, task>> /\ \A p \in Handlers : ~Claimed(p)
    BY <1>10 DEF RecomputeStorageUsage, Calm
  <2>2. u \in accounts /\ u \in Users
    BY <1>1, <2>1
  <2>3. used'[u] = Filed(u)
    BY <1>3, <1>10, <2>2 DEF RecomputeStorageUsage
  <2>4. (Filed(u))' = Filed(u)
    BY <2>1, <2>2, FiledSame
  <2>5. (Claimants(u))' = {}
    BY <2>1 DEF Claimants, Claimed
  <2>6. (Owed(u))' = 0
    BY <2>5, NoUnits DEF Owed
  <2>7. used[u] \in Nat /\ Filed(u) <= used[u] /\ (Quota[u] > 0 => used[u] <= Quota[u])
    BY <1>2, <1>3, <2>2 DEF Covered
  <2>8. Quota[u] \in Nat
    BY <2>2, StoreAssumption
  <2>9. used'[u] \in Nat /\ used'[u] = (Filed(u))' + (Owed(u))'
    BY <1>3, <2>2, <2>3, <2>4, <2>6
  <2>10. Quota[u] > 0 => used'[u] <= Quota[u]
    BY <1>3, <2>2, <2>3, <2>7, <2>8
  <2> QED BY <1>3, <2>2, <2>9, <2>10 DEF Covered
<1> QED BY <1>5, <1>6, <1>7, <1>8, <1>9, <1>10 DEF Next

LEMMA InitUsage == Init => Purposes /\ Errands /\ UsageInv
<1> SUFFICES ASSUME Init PROVE Purposes /\ Errands /\ UsageInv
  OBVIOUS
<1>1. Purposes /\ Errands
  BY DEF Init, Purposes, Purpose, Errands, Errand, AboutToDelete, NoTask
<1>2. TypeInv /\ accounts = Users
  BY InitType DEF Init
<1>3. ASSUME NEW u \in Users PROVE Covered(u)
  <2>1. RowsOwned(u) = {} /\ Claimants(u) = {} /\ used[u] = 0
    BY StoreAssumption DEF Init, RowsOwned, Unused, Claimants, Claimed, NoTask
  <2>2. Filed(u) = 0 /\ Owed(u) = 0
    BY <2>1, NoUnits DEF Filed, Owed
  <2>3. Quota[u] \in Nat
    BY StoreAssumption
  <2> QED BY <2>1, <2>2, <2>3 DEF Covered
<1> QED BY <1>1, <1>2, <1>3, UsageCovers

\* The files table keeps to the ceiling, since only CreateFileWithLimit adds a row,
\* and the ceiling is part of its INSERT.
LEMMA CeilingStep ==
  TypeInv /\ Purposes /\ Errands /\ WithinCeiling /\ [Next]_vars => WithinCeiling'
<1> SUFFICES ASSUME TypeInv, Purposes, Errands, WithinCeiling, [Next]_vars, TotalLimit > 0
             PROVE  (Bytes(Present))' <= TotalLimit
  BY DEF WithinCeiling
<1>1. /\ (Bytes(Present))' = Total(RowBytes', Present') /\ Bytes(Present) = Total(RowBytes, Present)
      /\ TypeInv'
  BY SumsAreTotals, SumsAfterwards
<1>2. /\ IsFiniteSet(Present) /\ IsFiniteSet(Present')
      /\ \A f \in FileIds : RowBytes[f] \in Nat /\ RowBytes'[f] \in Nat
      /\ Present \subseteq FileIds /\ Present' \subseteq FileIds
    BY RowsFinite, StoreAssumption DEF Present, RowBytes
<1>3. Total(RowBytes, Present) \in Nat /\ TotalLimit \in Nat
  BY <1>2, UnitsFinite, StoreAssumption
<1>4. ASSUME \A f \in FileIds : files'[f].sha \in {None, files[f].sha}
      PROVE  (Bytes(Present))' <= TotalLimit
  <2>1. Present' \in SUBSET Present
    BY <1>4 DEF Present
  <2>2. Total(RowBytes, Present') <= Total(RowBytes, Present) /\ Total(RowBytes, Present') \in Nat
    BY <1>2, <2>1, TotalOfLess
  <2>3. \A f \in Present' : RowBytes'[f] = RowBytes[f]
    BY <1>4 DEF Present, RowBytes
  <2>4. Total(RowBytes', Present') = Total(RowBytes, Present')
    BY <2>3, TotalSame
  <2>5. Bytes(Present) <= TotalLimit
    BY DEF WithinCeiling
  <2> QED BY <1>1, <1>3, <2>2, <2>4, <2>5
<1>5. ASSUME NEW p \in Handlers, HandlerStep(p), ~CreateFile(p)
      PROVE  (Bytes(Present))' <= TotalLimit
  <2>1. \A gone : DeleteRows(gone) => \A f \in FileIds : files'[f].sha \in {None, files[f].sha}
    BY DEF DeleteRows, Deleted
  <2> QED BY <1>4, <1>5, <2>1, RowsGo
<1>6. ASSUME NEW p \in Handlers, CreateFile(p) PROVE (Bytes(Present))' <= TotalLimit
  <2> DEFINE c == task[p].sha
  <2>1. c \in Contents /\ c # None /\ CeilingAllows(c)
    BY <1>6, StoreAssumption DEF CreateFile, TypeInv, HandlersOK, LocalsFit, Locked
  <2>2. PICK f \in FileIds : files[f].state = "unused" /\ files' = [files EXCEPT ![f] =
           [state |-> "live", sha |-> c, owner |-> task[p].owner]]
    BY <1>6, FilesOne
  <2>3. files'[f].sha = c /\ \A g \in FileIds \ {f} : files'[g] = files[g]
    BY <2>2 DEF TypeInv, TypeOK
  <2>4. f \in Present' /\ Present' \ {f} = Present
    BY <2>1, <2>2, <2>3, Rows DEF Present
  <2>5. Total(RowBytes', Present') = RowBytes'[f] + Total(RowBytes', Present)
    <3> DEFINE w == RowBytes'
               S == Present'
    <3>1. IsFiniteSet(S) /\ (\A g \in S : w[g] \in Nat) /\ f \in S /\ S \ {f} = Present
      BY <1>2, <2>4
    <3> HIDE DEF w, S
    <3>2. Total(w, S) = w[f] + Total(w, S \ {f})
      BY <3>1, TotalOneMore
    <3> QED BY <3>1, <3>2 DEF w, S
  <2>6. \A g \in Present : RowBytes'[g] = RowBytes[g]
    BY <2>3, <2>4 DEF Present, RowBytes
  <2>7. Total(RowBytes', Present) = Total(RowBytes, Present)
    BY <2>6, TotalSame
  <2>8. RowBytes'[f] = Size[c] /\ Size[c] \in Nat
    BY <2>1, <2>3, StoreAssumption DEF RowBytes
  <2>9. Bytes(Present) + Size[c] <= TotalLimit
    BY <1>3, <2>1 DEF CeilingAllows
  <2> QED BY <1>1, <1>3, <2>5, <2>7, <2>8, <2>9
<1>7. CASE RowStep \/ ServerStep \/ RecomputeStorageUsage
  BY <1>4, <1>7, RowsStay
<1>8. CASE UNCHANGED vars
  BY <1>4, <1>8 DEF vars
<1> QED BY <1>5, <1>6, <1>7, <1>8 DEF Next

LEMMA InitCeiling == Init => WithinCeiling
<1> SUFFICES ASSUME Init, TotalLimit > 0 PROVE Bytes(Present) <= TotalLimit
  BY DEF WithinCeiling
<1>1. Present = {}
  BY DEF Init, Unused, Present
<1>2. TypeInv /\ Errands
  BY InitType, InitUsage
<1>3. Bytes(Present) = 0
  BY <1>1, <1>2, SumsAreTotals, NoUnits
<1> QED BY <1>3, StoreAssumption

\* However many uploads are admitted at the same time, and whatever fails, what the
\* files table adds up to never exceeds the instance ceiling.
THEOREM FilesKeepToCeiling == Spec => []WithinCeiling
<1>1. Init => TypeInv /\ Purposes /\ Errands /\ WithinCeiling
  BY InitType, InitUsage, InitCeiling
<1>2. TypeInv /\ Purposes /\ Errands /\ WithinCeiling /\ [Next]_vars
        => (TypeInv /\ Purposes /\ Errands /\ WithinCeiling)'
  BY TypeStep, PurposeStep, ErrandStep, CeilingStep
<1> QED BY <1>1, <1>2, PTL DEF Spec

LEMMA UsageStays ==
  Spec /\ [][Calm]_vars => [](TypeInv /\ Errands /\ UsageInv)
<1>1. Init => TypeInv /\ Purposes /\ Errands /\ UsageInv
  BY InitType, InitUsage
<1>2. TypeInv /\ Purposes /\ Errands /\ UsageInv /\ [Next]_vars /\ [Calm]_vars
        => (TypeInv /\ Purposes /\ Errands /\ UsageInv)'
  BY TypeStep, PurposeStep, ErrandStep, UsageStep
<1> QED BY <1>1, <1>2, PTL DEF Spec

LEMMA QuotasKept == TypeInv /\ Errands /\ UsageInv => WithinQuotas
<1> SUFFICES ASSUME TypeInv, Errands, UsageInv, NEW u \in accounts, Quota[u] > 0
             PROVE  Bytes(RowsOwned(u)) <= Quota[u]
  BY DEF WithinQuotas
<1>1. u \in Users
  BY DEF TypeInv, TypeOK
<1>2. Bytes(RowsOwned(u)) \in Nat /\ ClaimedFor(u) \in Nat /\ Quota[u] \in Nat
  BY <1>1, SumsAreTotals, StoreAssumption
<1>3. Bytes(RowsOwned(u)) + ClaimedFor(u) <= used[u] /\ used[u] <= Quota[u] /\ used[u] \in Nat
  BY DEF UsageInv
<1> QED BY <1>2, <1>3

\* Neither does any account exceed its quota, as long as no two removals of one file
\* both give its bytes back, and usage is not recomputed while a claim is out: a
\* request that is cut short, a write that fails or a crash can only leave an
\* account charged for more than it has.
THEOREM FilesKeepToLimits == Spec /\ [][Calm]_vars => []LimitsHold
<1>1. TypeInv /\ Errands /\ UsageInv /\ WithinCeiling => LimitsHold
  BY QuotasKept DEF LimitsHold
<1> QED BY <1>1, FilesKeepToCeiling, UsageStays, PTL

\* Without those either, an account is charged for its files and its claims and for
\* nothing else.
THEOREM UsageStaysExact ==
  ASSUME Faults \cap {"cancel", "write", "crash"} = {}
  PROVE  Spec /\ [][Calm]_vars => []UsageExact
<1>1. UsageInv => UsageExact
  BY DEF UsageInv, UsageExact
<1> QED BY <1>1, UsageStays, PTL

----------------------------------------------------------------------------
(* No strays.  Whoever holds a content's lock accounts for the objects stored *)
(* for it that its record does not name (StrayInv): an upload is about to     *)
(* record them or to discard them, a reader is about to note the copy it has  *)
(* built.  A step under the lock leaves its content settled; every other      *)
(* content, and a content whose lock nobody holds, it leaves undisturbed.     *)

\* Nothing cuts a handler short, and what it writes, stores or removes it does
\* completely; a Save or a read may still fail.
Serene == Faults \cap {"cancel", "sync", "delete", "write", "crash"} = {}

\* A handler lets its locks go, keeps what it has, or takes one.
Holding(p) ==
    \/ holder' = Unlocked(p)
    \/ UNCHANGED holder /\ pc[p] \notin Locked /\ pc'[p] \notin Locked
    \/ /\ UNCHANGED holder /\ pc[p] \in Locked
       /\ pc'[p] \in Locked /\ task'[p].sha = task[p].sha
    \/ AcquireContent(p)

\* A step leads to the label it says,
LEMMA GoesToLabel ==
  ASSUME TypeInv, NEW p \in Handlers, NEW label, Goto(p, label)
  PROVE  pc'[p] = label
BY DEF Goto, TypeInv, HandlersOK

\* ...and one that fails to the undoing of its upload.
LEMMA FailsTo ==
  ASSUME TypeInv, NEW p \in Handlers, NEW keys, FailWith(p, keys)
  PROVE  pc'[p] = "undo" /\ task'[p].sha = task[p].sha /\ task'[p].keys = keys
BY DEF FailWith, Goto, TypeInv, HandlersOK, Task

\* So it is for the steps of an upload,
LEMMA UploadHolds ==
  ASSUME TypeInv, NEW p \in Handlers, UploadStep(p)
  PROVE  Holding(p)
<1>1. CASE \E c \in Contents, u \in accounts \cup {Anonymous} : StartUpload(p, u, c)
  BY <1>1, GoesToLabel DEF StartUpload, Holding, Locked
<1>2. CASE LookUp(p)
  <2>1. pc'[p] = "reserve" /\ task'[p].sha = task[p].sha
    BY <1>2, GoesToLabel DEF LookUp, TypeInv, HandlersOK, Task
  <2> QED BY <1>2, <2>1 DEF LookUp, Holding, Locked
<1>3. CASE Reserve(p)
  <2>1. pc'[p] \in {"record", "save"}
    BY <1>3, GoesToLabel DEF Reserve, AfterReserve
  <2> QED BY <1>3, <2>1 DEF Reserve, Holding, Locked
<1>4. CASE RefuseMedia(p) \/ RefuseReserve(p) \/ CreateFile(p) \/ Unstore(p)
  BY <1>4 DEF RefuseMedia, RefuseReserve, CreateFile, Unstore, Finish, Holding
<1>5. CASE SaveOriginal(p) \/ SaveRenditions(p) \/ EnsureBlob(p)
  <2>1. /\ pc[p] \in {"save", "renditions", "ensure"} /\ UNCHANGED holder
        /\ \/ \E label \in {"renditions", "ensure", "record"} : Goto(p, label) /\ UNCHANGED task
           \/ \E keys : FailWith(p, keys)
    BY <1>5 DEF SaveOriginal, SaveRenditions, EnsureBlob
  <2>2. pc'[p] \in {"renditions", "ensure", "record", "undo"} /\ task'[p].sha = task[p].sha
    BY <2>1, GoesToLabel, FailsTo
  <2> QED BY <2>1, <2>2 DEF Holding, Locked
<1>6. CASE RefuseClip(p) \/ RefuseFile(p)
  <2>1. pc[p] \in {"renditions", "record"} /\ UNCHANGED holder /\ \E keys : FailWith(p, keys)
    BY <1>6 DEF RefuseClip, RefuseFile
  <2>2. pc'[p] = "undo" /\ task'[p].sha = task[p].sha
    BY <2>1, FailsTo
  <2> QED BY <2>1, <2>2 DEF Holding, Locked
<1>7. CASE Undo(p) \/ Discard(p)
  <2>1. /\ pc[p] \in {"undo", "discard"}
        /\ \/ Finish(p)
           \/ \E label \in {"discard", "inspect", "unstore"} :
                 Goto(p, label) /\ UNCHANGED <<task, holder>>
    BY <1>7 DEF Undo, Discard
  <2>2. CASE Finish(p)
    BY <2>2 DEF Finish, Holding
  <2>3. ASSUME NEW label \in {"discard", "inspect", "unstore"},
               Goto(p, label), UNCHANGED <<task, holder>>
        PROVE  Holding(p)
    BY <2>1, <2>3, GoesToLabel DEF Holding, Locked
  <2> QED BY <2>1, <2>2, <2>3
<1> QED BY <1>1, <1>2, <1>3, <1>4, <1>5, <1>6, <1>7 DEF UploadStep

\* ...and for those of any handler.
LEMMA HandlerHolds ==
  ASSUME TypeInv, NEW p \in Handlers, HandlerStep(p)
  PROVE  Holding(p)
<1>1. CASE Inspect(p)
  <2>1. CASE Goto(p, "erase") /\ task' = [task EXCEPT ![p].keys = BlobKeys(task[p].sha)]
             /\ UNCHANGED holder
    <3>1. pc'[p] = "erase" /\ task'[p].sha = task[p].sha
      BY <2>1, GoesToLabel DEF TypeInv, HandlersOK, Task
    <3> QED BY <1>1, <2>1, <3>1 DEF Inspect, Holding, Locked
  <2> QED BY <1>1, <2>1 DEF Inspect, Released, Holding
<1>2. CASE Erase(p)
  <2>1. CASE Goto(p, "drop") /\ UNCHANGED <<task, holder>>
    BY <1>2, <2>1, GoesToLabel DEF Erase, Holding, Locked
  <2> QED BY <1>2, <2>1 DEF Erase, Released, Holding
<1>3. CASE Drop(p)
  BY <1>3 DEF Drop, Released, Holding
<1>4. CASE Refund(p) \/ DeleteFile(p) \/ OpenObject(p) \/ Scan(p)
  <2>1. /\ pc[p] \in {"refund", "deleteRow", "open", "scan"}
        /\ \/ Finish(p)
           \/ \E label \in {"reap", "waiting", "forget"} : Goto(p, label) /\ UNCHANGED holder
    BY <1>4 DEF Refund, DeleteFile, OpenObject, Scan
  <2>2. CASE Finish(p)
    BY <2>2 DEF Finish, Holding
  <2>3. ASSUME NEW label \in {"reap", "waiting", "forget"}, Goto(p, label), UNCHANGED holder
        PROVE  Holding(p)
    BY <2>1, <2>3, GoesToLabel DEF Holding, Locked
  <2> QED BY <2>1, <2>2, <2>3
<1>5. CASE \/ \E f \in FileIds : StartStaffRemoval(p, f) \/ PurgeTrashedFile(p, f)
           \/ \E u \in Users : DeleteAccount(p, u)
           \/ StartCleanup(p) \/ FinishReaping(p) \/ RecomputeBlobRefcounts(p)
           \/ \E f \in FileIds, r \in Roles : StartServe(p, f, r)
           \/ \E f \in FileIds, r \in CopyRoles : StartCopy(p, f, r)
  <2>1. /\ pc[p] \in {"idle", "reap"} /\ UNCHANGED holder
        /\ \E label \in {"deleteRow", "waiting", "reap", "scan", "open"} : Goto(p, label)
    BY <1>5 DEF StartStaffRemoval, PurgeTrashedFile, DeleteAccount, StartCleanup, FinishReaping,
       RecomputeBlobRefcounts, StartServe, StartCopy
  <2> QED BY <2>1, GoesToLabel DEF Holding, Locked
<1>6. CASE ReapFile(p)
  <2>1. pc[p] = "reap" /\ UNCHANGED holder /\ pc'[p] \in {"waiting", "reap"}
    BY <1>6, GoesToLabel DEF ReapFile
  <2> QED BY <2>1 DEF Holding, Locked
<1>7. CASE BuildCopy(p)
  <2>1. CASE ServeCopy(p)
    BY <2>1 DEF ServeCopy, Holding
  <2>2. CASE Goto(p, "note") /\ UNCHANGED <<task, holder>>
    BY <1>7, <2>2, GoesToLabel DEF BuildCopy, Holding, Locked
  <2> QED BY <1>7, <2>1, <2>2 DEF BuildCopy
<1>8. CASE RefuseCopy(p) \/ ForgetCopies(p) \/ Abandon(p) \/ NoteCopy(p)
  BY <1>8 DEF RefuseCopy, ForgetCopies, Abandon, NoteCopy, Finish, ServeCopy, Holding
<1>9. CASE AcquireContent(p)
  BY <1>9 DEF Holding
<1> QED BY <1>1, <1>2, <1>3, <1>4, <1>5, <1>6, <1>7, <1>8, <1>9, UploadHolds
        DEF HandlerStep, ReleaseStep, StaffStep, OwnerStep, CleanupStep, ReadStep

\* Whoever holds a content's lock is at a label under it.
LEMMA HoldersStay ==
  ASSUME TypeInv, LocksHeld, HoldersWork, NEW p \in Handlers, HandlerStep(p)
  PROVE  HoldersWork'
<1>0. /\ Holding(p) /\ OthersAlone(p) /\ HandlersOK /\ HandlersOK' /\ None \notin Handlers
      /\ task[p] \in Task
  BY HandlerHolds, OtherLocks, TypeStep, StoreAssumption DEF TypeInv, HandlersOK, Next
<1> SUFFICES ASSUME NEW c \in Contents, holder'[c] # None
             PROVE  pc'[holder'[c]] \in Locked /\ task'[holder'[c]].sha = c
  BY DEF HoldersWork
<1>1. holder'[c] \in Handlers /\ holder[c] \in Handlers \cup {None}
  BY <1>0 DEF HandlersOK
<1>2. CASE holder[c] = holder'[c] /\ holder[c] # p
  BY <1>0, <1>1, <1>2 DEF HoldersWork, OthersAlone
<1>3. CASE holder[c] = holder'[c] /\ holder[c] = p
  <2>1. pc[p] \in Locked /\ task[p].sha = c
    BY <1>1, <1>3 DEF HoldersWork
  <2>2. holder' # Unlocked(p)
    BY <1>0, <1>3 DEF Unlocked
  <2>3. ~AcquireContent(p)
    BY <2>1 DEF AcquireContent, Locked
  <2> QED BY <1>0, <1>3, <2>1, <2>2, <2>3 DEF Holding
<1>4. CASE holder[c] # holder'[c]
  <2>1. holder' # Unlocked(p)
    BY <1>0, <1>1, <1>4 DEF Unlocked, HandlersOK
  <2>2. AcquireContent(p)
    BY <1>0, <1>4, <2>1 DEF Holding
  <2>3. /\ holder'[c] = p /\ task[p].sha = c
        /\ pc'[p] = AfterAcquire(task[p].op) /\ task' = task
    BY <1>0, <1>4, <2>2, GoesToLabel DEF AcquireContent, HandlersOK
  <2> QED BY <2>3 DEF AfterAcquire, Locked
<1> QED BY <1>2, <1>3, <1>4

\* What is stored for a content and what its record names stay as they are, but
\* for the names of copies that are gone.
Undisturbed(c) ==
    /\ \A r \in Roles : <<c, r>> \in objects' <=> <<c, r>> \in objects
    /\ \/ blobs'[c].roles = blobs[c].roles
       \/ /\ blobs'[c].roles = blobs[c].roles \ CopyRoles
          /\ \A r \in CopyRoles : <<c, r>> \notin objects

\* Then its strays stay what they were,
LEMMA StraysStay ==
  ASSUME TypeInv, NEW c \in Contents, Undisturbed(c)
  PROVE  /\ (Strays(c))' = Strays(c)
         /\ (Recorded(c))' <=> Recorded(c)
         /\ setting' = setting => (setting \in blobs[c].roles => setting' \in blobs'[c].roles)
         /\ blobs'[c].roles \subseteq blobs[c].roles
<1>1. "original" \notin CopyRoles /\ setting \notin CopyRoles
  BY StoreAssumption DEF TypeInv, TypeOK
<1>2. blobs'[c].roles \subseteq blobs[c].roles
  BY DEF Undisturbed
<1>3. (Recorded(c))' <=> Recorded(c)
  BY <1>1 DEF Undisturbed, Recorded
<1>4. setting' = setting => (setting \in blobs[c].roles => setting' \in blobs'[c].roles)
  BY <1>1 DEF Undisturbed
<1>5. ASSUME NEW r \in Roles PROVE r \in (Strays(c))' <=> r \in Strays(c)
  <2>1. CASE blobs'[c].roles = blobs[c].roles
    BY <2>1 DEF Undisturbed, Strays
  <2>2. CASE /\ blobs'[c].roles = blobs[c].roles \ CopyRoles
             /\ \A q \in CopyRoles : <<c, q>> \notin objects
    BY <2>2 DEF Undisturbed, Strays
  <2> QED BY <2>1, <2>2 DEF Undisturbed
<1>6. (Strays(c))' \subseteq Roles /\ Strays(c) \subseteq Roles
  BY DEF Strays
<1> QED BY <1>2, <1>3, <1>4, <1>5, <1>6

\* The steps that store, record or remove objects, each under its content's lock.
Stores(p) ==
    \/ SaveOriginal(p) \/ SaveRenditions(p) \/ EnsureBlob(p) \/ Unstore(p)
    \/ Erase(p) \/ Drop(p) \/ BuildCopy(p) \/ NoteCopy(p)

LEMMA StoresUnderLock ==
  ASSUME TypeInv, NEW p \in Handlers, Stores(p)
  PROVE  pc[p] \in Locked
BY DEF Stores, SaveOriginal, SaveRenditions, EnsureBlob, Unstore, Erase, Drop, BuildCopy,
   NoteCopy, Locked

\* Deleting rows changes counts, and no keys.
LEMMA RowsUndisturbed ==
  ASSUME TypeInv, NEW gone \in SUBSET FileIds, DeleteRows(gone), UNCHANGED objects
  PROVE  \A c \in Contents : Undisturbed(c)
<1>1. \A c \in Contents : blobs'[c].roles = blobs[c].roles
  BY DEF DeleteRows, Uncounted, TypeInv, TypeOK, Blob
<1> QED BY <1>1 DEF Undisturbed

\* Every other step leaves every content undisturbed.
LEMMA OthersUndisturbed ==
  ASSUME TypeInv, Tidy, Serene, NEW p \in Handlers, HandlerStep(p), ~Stores(p)
  PROVE  \A c \in Contents : Undisturbed(c)
<1>0. /\ task[p] \in Task /\ LocalsFit(pc[p], task[p]) /\ blobs \in [Contents -> Blob]
      /\ task[p].batch \in SUBSET FileIds
      /\ "sync" \notin Faults /\ "write" \notin Faults /\ "cancel" \notin Faults
  BY DEF TypeInv, TypeOK, HandlersOK, Task, Serene
<1>1. ASSUME UNCHANGED <<blobs, objects>> PROVE \A c \in Contents : Undisturbed(c)
  BY <1>1 DEF Undisturbed
<1>2. CASE CreateFile(p)
  <2>1. \A c \in Contents : blobs'[c].roles = blobs[c].roles
    BY <1>0, <1>2 DEF CreateFile, Blob
  <2> QED BY <1>2, <2>1 DEF CreateFile, Undisturbed
<1>3. CASE UploadStep(p) /\ ~CreateFile(p)
  BY <1>1, <1>3 DEF Stores, UploadStep, StartUpload, LookUp, RefuseMedia, Reserve, RefuseReserve,
     RefuseClip, RefuseFile, Undo, Discard, db
<1>4. CASE ReleaseStep(p)
  BY <1>1, <1>4 DEF Stores, ReleaseStep, AcquireContent, Inspect, Refund, db
<1>5. CASE DeleteFile(p)
  BY <1>0, <1>5, RowsUndisturbed DEF DeleteFile
<1>6. CASE StaffStep(p) /\ ~DeleteFile(p)
  BY <1>1, <1>6 DEF StaffStep, StartStaffRemoval, db
<1>7. CASE OwnerStep(p)
  <2>1. CASE \E u \in Users : DeleteAccount(p, u)
    BY <2>1, RowsUndisturbed DEF DeleteAccount, RowsOwned
  <2>2. CASE \E f \in FileIds : PurgeTrashedFile(p, f)
    BY <2>2, RowsUndisturbed DEF PurgeTrashedFile
  <2> QED BY <1>7, <2>1, <2>2 DEF OwnerStep
<1>8. CASE ReapFile(p)
  <2>1. UNCHANGED objects /\ \/ \E f \in task[p].batch : DeleteRows({f})
                             \/ UNCHANGED blobs
    BY <1>8 DEF ReapFile
  <2> QED BY <1>0, <1>1, <2>1, RowsUndisturbed
<1>9. CASE CleanupStep(p) /\ ~ReapFile(p)
  BY <1>1, <1>9 DEF CleanupStep, StartCleanup, FinishReaping, Scan, db
<1>10. CASE RecomputeBlobRefcounts(p)
  <2>1. \A c \in Contents : blobs'[c].roles = blobs[c].roles
    BY <1>0, <1>10 DEF RecomputeBlobRefcounts, Blob
  <2> QED BY <1>10, <2>1 DEF RecomputeBlobRefcounts, Undisturbed
<1>11. CASE ForgetCopies(p)
  <2>1. PICK c \in Contents : c = task[p].sha
    BY <1>0, <1>11 DEF ForgetCopies, LocalsFit
  <2>2. pc[p] = "forget" /\ pc'[p] = "idle" /\ UNCHANGED objects
        /\ blobs' = [blobs EXCEPT ![c].roles = @ \ CopyRoles]
    BY <1>0, <1>11, <2>1, LockFinishes DEF ForgetCopies, TypeInv
  <2>3. \A r \in CopyRoles : <<c, r>> \notin objects
    BY <2>1, <2>2 DEF Tidy
  <2>4. blobs'[c].roles = blobs[c].roles \ CopyRoles
    BY <1>0, <2>2 DEF Blob
  <2>5. \A d \in Contents \ {c} : blobs'[d] = blobs[d]
    BY <1>0, <2>2
  <2> QED BY <2>2, <2>3, <2>4, <2>5 DEF Undisturbed
<1>12. CASE ReadStep(p) /\ ~ForgetCopies(p)
  BY <1>0, <1>1, <1>12 DEF Stores, ReadStep, StartServe, StartCopy, RefuseCopy, OpenObject, db
<1>13. CASE Abandon(p)
  BY <1>0, <1>13 DEF Abandon
<1> QED BY <1>2, <1>3, <1>4, <1>5, <1>6, <1>7, <1>8, <1>9, <1>10, <1>11, <1>12, <1>13
        DEF HandlerStep

\* A step that stores or removes objects leaves every other content alone.
LEMMA StoresAtHome ==
  ASSUME TypeInv, NEW p \in Handlers, Stores(p), NEW d \in Contents, d # task[p].sha
  PROVE  Undisturbed(d)
<1>0. /\ task[p] \in Task /\ LocalsFit(pc[p], task[p]) /\ blobs \in [Contents -> Blob]
  BY DEF TypeInv, TypeOK, HandlersOK
<1>1. PICK c \in Contents : c = task[p].sha
  BY <1>0, StoresUnderLock DEF LocalsFit
<1>2. CASE SaveOriginal(p) \/ SaveRenditions(p) \/ BuildCopy(p)
  <2>1. UNCHANGED blobs /\ \E r : objects' \in {objects, objects \cup {<<c, r>>}}
    BY <1>1, <1>2 DEF SaveOriginal, SaveRenditions, BuildCopy, db
  <2> QED BY <1>1, <2>1 DEF Undisturbed
<1>3. CASE Unstore(p) \/ Erase(p)
  <2>1. task[p].keys \subseteq {c} \X Roles
    BY <1>0, <1>1, <1>3 DEF LocalsFit, Unstore, Erase
  <2>2. UNCHANGED blobs /\ \E gone \in SUBSET task[p].keys : objects' = objects \ gone
    BY <1>3 DEF Unstore, Erase, Removable, db
  <2> QED BY <1>1, <2>1, <2>2 DEF Undisturbed
<1>4. CASE EnsureBlob(p) \/ Drop(p) \/ NoteCopy(p)
  <2>1. UNCHANGED objects /\ blobs'[d] = blobs[d]
    BY <1>0, <1>1, <1>4 DEF EnsureBlob, Ensured, Drop, Dropped, NoteCopy, Noted
  <2> QED BY <2>1 DEF Undisturbed
<1> QED BY <1>2, <1>3, <1>4 DEF Stores

\* What a step at a content leaves of it: no strays if the lock goes with it, and
\* otherwise no more than its handler accounts for.
Settled(p, c) ==
    \/ pc'[p] \notin Locked /\ (Strays(c))' = {}
    \/ pc'[p] \in Locked /\ task'[p].sha = c /\ (Accounted(p))'

\* The steps under a lock that store and remove nothing,
LEMMA CalmlySettled ==
  ASSUME TypeInv, RecordsWhole, Serene, NEW p \in Handlers, NEW c \in Contents, c = task[p].sha,
         Accounted(p), Undisturbed(c), setting' = setting,
         \/ LookUp(p) \/ RefuseMedia(p) \/ Reserve(p) \/ RefuseReserve(p) \/ RefuseClip(p)
         \/ CreateFile(p) \/ RefuseFile(p) \/ Undo(p) \/ Discard(p) \/ Inspect(p) \/ RefuseCopy(p)
  PROVE  Settled(p, c)
<1>0. /\ HandlersOK /\ task[p] \in Task
      /\ "write" \notin Faults /\ "cancel" \notin Faults
      /\ (Strays(c))' = Strays(c) /\ ((Recorded(c))' <=> Recorded(c))
      /\ blobs'[c].roles \subseteq blobs[c].roles
  BY StraysStay DEF TypeInv, HandlersOK, Serene
<1>1. CASE LookUp(p)
  <2>1. pc'[p] = "reserve" /\ task'[p].sha = c
    BY <1>1, GoesToLabel DEF LookUp, TypeInv, HandlersOK, Task
  <2>2. Strays(c) = {}
    BY <1>1 DEF LookUp, Accounted
  <2> QED BY <1>0, <2>1, <2>2 DEF Settled, Accounted, Locked
<1>2. CASE RefuseMedia(p) \/ RefuseReserve(p) \/ CreateFile(p) \/ RefuseCopy(p)
  <2>1. pc[p] \in {"reserve", "record", "build"} /\ Finish(p)
    BY <1>2 DEF RefuseMedia, RefuseReserve, CreateFile, RefuseCopy
  <2>2. pc'[p] = "idle"
    BY <1>0, <2>1, LockFinishes
  <2>3. Strays(c) = {}
    BY <2>1 DEF Accounted
  <2> QED BY <1>0, <2>2, <2>3 DEF Settled, Locked
<1>3. CASE Reserve(p)
  <2>1. pc'[p] \in {"record", "save"} /\ task' = task
    BY <1>3, GoesToLabel DEF Reserve, AfterReserve
  <2>2. Strays(c) = {}
    BY <1>3 DEF Reserve, Accounted
  <2> QED BY <1>0, <2>1, <2>2 DEF Settled, Accounted, Locked
<1>4. CASE RefuseClip(p)
  <2>1. /\ pc'[p] = "undo" /\ task'[p].sha = c
        /\ task'[p].keys = {<<c, "original">>}
    BY <1>4, FailsTo DEF RefuseClip
  <2>2. Strays(c) \subseteq {"original"}
    BY <1>4 DEF RefuseClip, Accounted
  <2>3. Recorded(c) => Strays(c) = {}
    BY <2>2 DEF Recorded, Strays
  <2>4. {c} \X Strays(c) \subseteq task'[p].keys
    BY <2>1, <2>2
  <2> QED BY <1>0, <2>1, <2>3, <2>4 DEF Settled, Accounted, Locked
<1>5. CASE RefuseFile(p)
  <2>1. pc'[p] = "undo" /\ task'[p].sha = c
    BY <1>5, FailsTo DEF RefuseFile
  <2>2. Strays(c) = {}
    BY <1>5 DEF RefuseFile, Accounted
  <2> QED BY <1>0, <2>1, <2>2 DEF Settled, Accounted, Locked
<1>6. CASE Undo(p)
  <2>1. {c} \X Strays(c) \subseteq task[p].keys /\ (Recorded(c) => Strays(c) = {})
    BY <1>6 DEF Undo, Accounted
  <2>2. CASE task[p].keys = {}
    <3>1. pc'[p] = "idle"
      BY <1>0, <1>6, <2>2, LockFinishes DEF Undo
    <3>2. ASSUME NEW r \in Strays(c) PROVE FALSE
      <4>1. <<c, r>> \in {c} \X Strays(c)
        OBVIOUS
      <4> QED BY <2>1, <2>2, <4>1
    <3> QED BY <1>0, <3>1, <3>2 DEF Settled, Locked
  <2>3. CASE task[p].keys # {}
    <3>1. pc'[p] = "discard" /\ task' = task
      BY <1>6, <2>3, GoesToLabel DEF Undo
    <3> QED BY <1>0, <2>1, <3>1 DEF Settled, Accounted, Locked
  <2> QED BY <2>2, <2>3
<1>7. CASE Discard(p)
  <2>1. {c} \X Strays(c) \subseteq task[p].keys /\ (Recorded(c) => Strays(c) = {})
    BY <1>7 DEF Discard, Accounted
  <2>2. CASE Recorded(c) /\ Finish(p)
    <3>1. pc'[p] = "idle"
      BY <1>0, <2>2, LockFinishes
    <3> QED BY <1>0, <2>1, <2>2, <3>1 DEF Settled, Locked
  <2>3. CASE Recorded(c) /\ Goto(p, "inspect") /\ UNCHANGED task
    <3>1. pc'[p] = "inspect" /\ task' = task
      BY <2>3, GoesToLabel
    <3> QED BY <1>0, <2>1, <2>3, <3>1 DEF Settled, Accounted, Locked
  <2>4. CASE Goto(p, "unstore") /\ UNCHANGED task
    <3>1. pc'[p] = "unstore" /\ task' = task
      BY <2>4, GoesToLabel
    <3> QED BY <1>0, <2>1, <3>1 DEF Settled, Accounted, Locked
  <2> QED BY <1>7, <2>2, <2>3, <2>4 DEF Discard
<1>8. CASE Inspect(p)
  <2>1. Strays(c) = {} /\ pc[p] = "inspect" /\ UNCHANGED blobs
    BY <1>8 DEF Inspect, Accounted, db
  <2>2. CASE \E ok \in BOOLEAN : Released(p, ok)
    <3>1. pc'[p] \in {"idle", "refund", "waiting"}
      BY <1>0, <2>2, LockReleases
    <3> QED BY <1>0, <2>1, <3>1 DEF Settled, Locked
  <2>3. CASE Goto(p, "erase") /\ task' = [task EXCEPT ![p].keys = BlobKeys(c)]
    <3>1. pc'[p] = "erase" /\ task'[p].sha = c /\ task'[p].keys = BlobKeys(c)
      BY <1>0, <2>3, GoesToLabel DEF HandlersOK, Task
    <3>2. (BlobKeys(c))' = BlobKeys(c)
      BY <2>1 DEF BlobKeys
    <3> QED BY <1>0, <2>1, <3>1, <3>2 DEF Settled, Accounted, Locked
  <2> QED BY <1>8, <2>2, <2>3 DEF Inspect
<1> QED BY <1>1, <1>2, <1>3, <1>4, <1>5, <1>6, <1>7, <1>8

\* ...those that store,
LEMMA SavesSettled ==
  ASSUME TypeInv, Tidy, Serene, NEW p \in Handlers, NEW c \in Contents, c = task[p].sha,
         Accounted(p), setting' = setting,
         SaveOriginal(p) \/ SaveRenditions(p) \/ BuildCopy(p)
  PROVE  Settled(p, c)
<1>0. /\ HandlersOK /\ task[p] \in Task /\ "sync" \notin Faults
      /\ UNCHANGED blobs /\ ((Recorded(c))' <=> Recorded(c))
  BY DEF TypeInv, HandlersOK, Serene, SaveOriginal, SaveRenditions, BuildCopy, db, Recorded
<1>1. ASSUME NEW key \in Roles, objects' = objects \cup {<<c, key>>}
      PROVE  (Strays(c))' \subseteq Strays(c) \cup {key}
  BY <1>0, <1>1 DEF Strays
<1>2. ASSUME UNCHANGED objects PROVE (Strays(c))' = Strays(c)
  BY <1>0, <1>2 DEF Strays
<1>3. setting \in Roles /\ "original" \in Roles
  BY DEF TypeInv, TypeOK, Roles, Renditions
<1>4. CASE SaveOriginal(p)
  <2>1. Strays(c) = {}
    BY <1>4 DEF SaveOriginal, Accounted
  <2>2. CASE Goto(p, "renditions") /\ UNCHANGED task /\ objects' = objects \cup {<<c, "original">>}
    <3>1. pc'[p] = "renditions" /\ task' = task
      BY <2>2, GoesToLabel
    <3>2. (Strays(c))' \subseteq {"original"}
      BY <1>1, <1>3, <2>1, <2>2
    <3> QED BY <3>1, <3>2 DEF Settled, Accounted, Locked
  <2>3. CASE FailWith(p, {}) /\ UNCHANGED objects
    <3>1. pc'[p] = "undo" /\ task'[p].sha = c
      BY <2>3, FailsTo
    <3>2. (Strays(c))' = {}
      BY <1>2, <2>1, <2>3
    <3> QED BY <3>1, <3>2 DEF Settled, Accounted, Locked
  <2> QED BY <1>0, <1>4, <2>2, <2>3 DEF SaveOriginal
<1>5. CASE SaveRenditions(p)
  <2>1. pc[p] = "renditions" /\ Strays(c) \subseteq {"original"} /\ (Recorded(c) => Strays(c) = {})
    BY <1>5 DEF SaveRenditions, Accounted, Recorded, Strays
  <2>2. CASE Goto(p, "ensure") /\ UNCHANGED task /\ objects' = objects \cup {<<c, setting>>}
    <3>1. pc'[p] = "ensure" /\ task' = task
      BY <2>2, GoesToLabel
    <3>2. (Strays(c))' \subseteq {"original", setting}
      BY <1>1, <1>3, <2>1, <2>2
    <3>3. Recorded(c) => setting \in blobs[c].roles
      BY <2>1, <3>1 DEF Tidy
    <3> QED BY <1>0, <3>1, <3>2, <3>3 DEF Settled, Accounted, Locked
  <2>3. CASE FailWith(p, UploadKeys(c)) /\ UNCHANGED objects
    <3>1. pc'[p] = "undo" /\ task'[p].sha = c /\ task'[p].keys = UploadKeys(c)
      BY <2>3, FailsTo
    <3>2. (Strays(c))' = Strays(c)
      BY <1>2, <2>3
    <3>3. {c} \X (Strays(c))' \subseteq task'[p].keys
      BY <2>1, <3>1, <3>2 DEF UploadKeys
    <3> QED BY <1>0, <2>1, <3>1, <3>2, <3>3 DEF Settled, Accounted, Locked
  <2> QED BY <1>0, <1>5, <2>2, <2>3 DEF SaveRenditions
<1>6. CASE BuildCopy(p)
  <2>1. pc[p] = "build" /\ Strays(c) = {} /\ Recorded(c)
    BY <1>6 DEF BuildCopy, Accounted
  <2>2. CASE ServeCopy(p) /\ UNCHANGED objects
    <3>1. pc'[p] = "open"
      BY <2>2, GoesToLabel DEF ServeCopy
    <3> QED BY <1>2, <2>1, <2>2, <3>1 DEF Settled, Locked
  <2>3. CASE Goto(p, "note") /\ UNCHANGED task /\ objects' = objects \cup {<<c, task[p].role>>}
    <3>1. pc'[p] = "note" /\ task' = task
      BY <2>3, GoesToLabel
    <3>2. task[p].role \in Roles
      BY <1>0, <2>1 DEF HandlersOK, LocalsFit, Roles
    <3>3. (Strays(c))' \subseteq {task[p].role}
      BY <1>1, <2>1, <2>3, <3>2
    <3> QED BY <1>0, <2>1, <3>1, <3>3 DEF Settled, Accounted, Locked
  <2> QED BY <1>6, <2>2, <2>3 DEF BuildCopy
<1> QED BY <1>4, <1>5, <1>6

\* ...those that record,
LEMMA RecordsSettled ==
  ASSUME TypeInv, RecordsWhole, Tidy, Serene, NEW p \in Handlers, NEW c \in Contents, c = task[p].sha,
         Accounted(p), setting' = setting,
         EnsureBlob(p) \/ NoteCopy(p)
  PROVE  Settled(p, c)
<1>0. /\ HandlersOK /\ task[p] \in Task /\ "write" \notin Faults
      /\ blobs \in [Contents -> Blob] /\ UNCHANGED objects
  BY DEF TypeInv, TypeOK, HandlersOK, Serene, EnsureBlob, NoteCopy
<1>1. CASE EnsureBlob(p)
  <2>1. /\ pc[p] = "ensure" /\ Goto(p, "record") /\ UNCHANGED task
        /\ blobs' = Ensured(c)
        /\ Strays(c) \subseteq {"original", setting}
        /\ Recorded(c) => setting \in blobs[c].roles
    BY <1>0, <1>1 DEF EnsureBlob, Accounted
  <2>2. pc'[p] = "record" /\ task' = task
    BY <2>1, GoesToLabel
  <2>3. CASE ~Recorded(c) \/ Orphaned(c)
    <3>1. blobs'[c].roles = {"original", setting}
      BY <1>0, <2>1, <2>3 DEF Ensured, Blob
    <3>2. blobs[c].roles \subseteq {"original", setting}
      BY <2>1, <2>2, <2>3 DEF Tidy, RecordsWhole, NoBlob
    <3> QED BY <1>0, <2>1, <2>2, <3>1, <3>2 DEF Settled, Accounted, Locked, Strays
  <2>4. CASE Recorded(c) /\ ~Orphaned(c)
    <3>1. blobs' = blobs
      BY <2>1, <2>4 DEF Ensured
    <3>2. Strays(c) = {}
      BY <2>1, <2>4 DEF Strays, Recorded
    <3>3. (Strays(c))' = {}
      BY <1>0, <3>1, <3>2 DEF Strays
    <3> QED BY <2>2, <3>3 DEF Settled, Accounted, Locked
  <2> QED BY <2>3, <2>4
<1>2. CASE NoteCopy(p)
  <2>1. /\ pc[p] = "note" /\ ServeCopy(p) /\ blobs' = Noted(c, task[p].role)
        /\ Recorded(c) /\ Strays(c) \subseteq {task[p].role}
    BY <1>0, <1>2 DEF NoteCopy, Accounted
  <2>2. pc'[p] = "open"
    BY <2>1, GoesToLabel DEF ServeCopy
  <2>3. blobs'[c].roles = blobs[c].roles \cup {task[p].role}
    BY <1>0, <2>1 DEF Noted, Blob
  <2>4. (Strays(c))' = {}
    BY <1>0, <2>1, <2>3 DEF Strays
  <2> QED BY <2>2, <2>4 DEF Settled, Locked
<1> QED BY <1>1, <1>2

\* ...and those that remove.
LEMMA RemovesSettled ==
  ASSUME TypeInv, Serene, NEW p \in Handlers, NEW c \in Contents, c = task[p].sha,
         Accounted(p), setting' = setting,
         Unstore(p) \/ Erase(p) \/ Drop(p)
  PROVE  Settled(p, c)
<1>0. /\ HandlersOK /\ task[p] \in Task /\ "write" \notin Faults /\ "delete" \notin Faults
      /\ LocalsFit(pc[p], task[p]) /\ Removable(task[p].keys) = {task[p].keys}
  BY DEF TypeInv, HandlersOK, Serene, Removable
<1>1. CASE Unstore(p)
  <2>1. /\ pc[p] = "unstore" /\ Finish(p) /\ objects' = objects \ task[p].keys /\ UNCHANGED blobs
        /\ {c} \X Strays(c) \subseteq task[p].keys
    BY <1>0, <1>1 DEF Unstore, Accounted, db
  <2>2. pc'[p] = "idle"
    BY <1>0, <2>1, LockFinishes
  <2>3. ASSUME NEW r \in (Strays(c))' PROVE FALSE
    <3>1. r \in Strays(c) /\ <<c, r>> \notin task[p].keys
      BY <2>1, <2>3 DEF Strays
    <3>2. <<c, r>> \in {c} \X Strays(c)
      BY <3>1
    <3> QED BY <2>1, <3>1, <3>2
  <2> QED BY <2>2, <2>3 DEF Settled, Locked
<1>2. CASE Erase(p)
  <2>1. /\ pc[p] = "erase" /\ objects' = objects \ task[p].keys /\ UNCHANGED blobs
        /\ Goto(p, "drop") /\ UNCHANGED task
        /\ Strays(c) = {} /\ BlobKeys(c) \subseteq task[p].keys
    BY <1>0, <1>2 DEF Erase, Accounted, db
  <2>2. pc'[p] = "drop" /\ task' = task
    BY <2>1, GoesToLabel
  <2>3. ASSUME NEW r \in Roles PROVE <<c, r>> \notin objects'
    <3>1. <<c, r>> \in objects => r \in blobs[c].roles
      BY <2>1 DEF Strays
    <3>2. r \in blobs[c].roles => <<c, r>> \in task[p].keys
      BY <2>1 DEF BlobKeys
    <3> QED BY <2>1, <3>1, <3>2
  <2> QED BY <2>2, <2>3 DEF Settled, Accounted, Locked
<1>3. CASE Drop(p)
  <2>1. /\ pc[p] = "drop" /\ Released(p, TRUE) /\ UNCHANGED objects
        /\ \A r \in Roles : <<c, r>> \notin objects
    BY <1>0, <1>3 DEF Drop, Accounted
  <2>2. pc'[p] \in {"idle", "refund", "waiting"}
    BY <1>0, <2>1, LockReleases
  <2>3. (Strays(c))' = {}
    BY <2>1 DEF Strays
  <2> QED BY <2>2, <2>3 DEF Settled, Locked
<1> QED BY <1>1, <1>2, <1>3

\* A step under a content's lock leaves it settled...
LEMMA HandlerSettled ==
  ASSUME TypeInv, CountInv, StrayInv, Tidy, Serene, NEW p \in Handlers, HandlerStep(p),
         pc[p] \in Locked, NEW c \in Contents, c = task[p].sha
  PROVE  Settled(p, c)
<1>1. Accounted(p) /\ RecordsWhole /\ setting' = setting /\ "cancel" \notin Faults
  BY SettingKept DEF StrayInv, CountInv, Serene
<1>2. CASE Stores(p)
  BY <1>1, <1>2, SavesSettled, RecordsSettled, RemovesSettled DEF Stores
<1>3. CASE ~Stores(p)
  <2>1. Undisturbed(c)
    BY <1>3, OthersUndisturbed
  <2>2. CASE UploadStep(p)
    <3>1. ASSUME NEW d \in Contents, NEW u, StartUpload(p, u, d) PROVE FALSE
      BY <3>1 DEF StartUpload, Locked
    <3>2. \/ LookUp(p) \/ RefuseMedia(p) \/ Reserve(p) \/ RefuseReserve(p) \/ RefuseClip(p)
          \/ CreateFile(p) \/ RefuseFile(p) \/ Undo(p) \/ Discard(p)
      BY <1>3, <2>2, <3>1 DEF UploadStep, Stores
    <3> QED BY <1>1, <2>1, <3>2, CalmlySettled
  <2>3. CASE ReleaseStep(p) \/ ReadStep(p)
    <3>1. Inspect(p) \/ RefuseCopy(p)
      BY <1>3, <2>3 DEF ReleaseStep, ReadStep, Stores, Locked, AcquireContent, Refund, StartServe,
                        StartCopy, OpenObject, ForgetCopies
    <3> QED BY <1>1, <2>1, <3>1, CalmlySettled
  <2>4. CASE \/ StaffStep(p) \/ OwnerStep(p) \/ CleanupStep(p) \/ Abandon(p)
             \/ RecomputeBlobRefcounts(p)
    BY <1>1, <2>4 DEF StaffStep, StartStaffRemoval, DeleteFile, OwnerStep, PurgeTrashedFile,
                      DeleteAccount, CleanupStep, StartCleanup, ReapFile, FinishReaping, Scan,
                      Abandon, RecomputeBlobRefcounts, Locked
  <2> QED BY <2>2, <2>3, <2>4 DEF HandlerStep
<1> QED BY <1>2, <1>3

\* ...and every other content undisturbed.
LEMMA ElsewhereUndisturbed ==
  ASSUME TypeInv, Tidy, Serene, NEW p \in Handlers, HandlerStep(p),
         NEW d \in Contents, pc[p] \in Locked => d # task[p].sha
  PROVE  Undisturbed(d)
BY OthersUndisturbed, StoresUnderLock, StoresAtHome

\* A step leaves no strays where no lock is held: it disturbs no content but the one
\* it has locked, and that one it leaves without any if it lets the lock go.
LEMMA NoneLeft ==
  ASSUME TypeInv, CountInv, StrayInv, Tidy, Serene, NEW p \in Handlers, HandlerStep(p)
  PROVE  NoStrayObjects'
<1>0. /\ HandlersOK /\ HandlersOK' /\ LocksHeld /\ LocksHeld' /\ OthersAlone(p)
      /\ None \notin Handlers /\ HoldersWork
  BY OtherLocks, TypeStep, LocksStep, StoreAssumption DEF TypeInv, Next, CountInv, StrayInv
<1> SUFFICES ASSUME NEW d \in Contents, holder'[d] = None
             PROVE  (Strays(d))' = {}
  BY DEF NoStrayObjects, Strays
<1>1. CASE holder[d] = None
  <2>1. Strays(d) = {}
    BY <1>1 DEF StrayInv, NoStrayObjects, Strays
  <2>2. pc[p] \in Locked => d # task[p].sha
    BY <1>0, <1>1 DEF LocksHeld
  <2> QED BY <2>1, <2>2, ElsewhereUndisturbed, StraysStay
<1>2. CASE holder[d] # None
  <2>1. holder[d] = p
    BY <1>0, <1>2 DEF OthersAlone, HandlersOK
  <2>2. pc[p] \in Locked /\ task[p].sha = d
    BY <1>0, <1>2, <2>1 DEF HoldersWork
  <2>3. Settled(p, d)
    BY <2>2, HandlerSettled
  <2>4. ~(pc'[p] \in Locked /\ task'[p].sha = d)
    BY <1>0 DEF LocksHeld
  <2> QED BY <2>3, <2>4 DEF Settled
<1> QED BY <1>1, <1>2

\* Every handler accounts for the strays of its content after a step of any of them.
LEMMA AllAccounted ==
  ASSUME TypeInv, CountInv, StrayInv, Tidy, Serene, NEW p \in Handlers, HandlerStep(p),
         NEW q \in Handlers
  PROVE  (Accounted(q))'
<1>0. /\ HandlersOK /\ HandlersOK' /\ LocksHeld /\ OthersAlone(p) /\ Holding(p)
      /\ setting' = setting /\ Accounted(q) /\ NoStrayObjects /\ LocalsFit(pc[q], task[q])
      /\ LocalsFit(pc[p], task[p])
  BY OtherLocks, TypeStep, HandlerHolds, SettingKept DEF TypeInv, Next, CountInv, StrayInv, HandlersOK
<1>1. CASE pc'[q] \notin Locked
  BY <1>1 DEF Accounted, Locked
<1>2. CASE pc'[q] \in Locked /\ q # p
  <2>1. pc'[q] = pc[q] /\ task'[q] = task[q]
    BY <1>0, <1>2 DEF OthersAlone
  <2>2. PICK c \in Contents : c = task[q].sha
    BY <1>0, <1>2, <2>1 DEF LocalsFit
  <2>3. pc[p] \in Locked => c # task[p].sha
    BY <1>0, <1>2, <2>1, <2>2 DEF LocksHeld
  <2>4. Undisturbed(c)
    BY <2>3, ElsewhereUndisturbed
  <2>5. /\ (Strays(c))' = Strays(c) /\ ((Recorded(c))' <=> Recorded(c))
        /\ (setting \in blobs[c].roles => setting' \in blobs'[c].roles)
        /\ (BlobKeys(c))' \subseteq BlobKeys(c)
        /\ \A r \in Roles : <<c, r>> \in objects' <=> <<c, r>> \in objects
    BY <1>0, <2>4, StraysStay DEF BlobKeys, Undisturbed
  <2> QED BY <1>0, <2>1, <2>2, <2>5 DEF Accounted
<1>3. CASE pc'[q] \in Locked /\ q = p /\ pc[p] \in Locked
  <2>1. PICK c \in Contents : c = task[p].sha
    BY <1>0, <1>3 DEF LocalsFit
  <2> QED BY <1>3, <2>1, HandlerSettled DEF Settled
<1>4. CASE pc'[q] \in Locked /\ q = p /\ pc[p] \notin Locked
  <2>1. AcquireContent(p)
    <3>1. holder' # Unlocked(p) \/ pc'[p] \notin Locked
      <4>1. SUFFICES ASSUME holder' = Unlocked(p), pc'[p] \in Locked PROVE FALSE
        OBVIOUS
      <4>2. holder'[task'[p].sha] = p /\ task'[p].sha \in Contents
        BY <1>0, <4>1, OtherLocks DEF OwnLock, HandlersOK, LocalsFit
      <4> QED BY <4>1, <4>2, StoreAssumption DEF Unlocked
    <3> QED BY <1>0, <1>4, <3>1 DEF Holding
  <2>2. PICK c \in Contents : c = task[p].sha
    BY <1>0, <2>1 DEF AcquireContent, LocalsFit
  <2>3. /\ holder[c] = None /\ task' = task /\ pc'[p] \in {"lookup", "build", "inspect"}
        /\ UNCHANGED <<blobs, objects>>
    BY <1>0, <2>1, <2>2, GoesToLabel DEF AcquireContent, AfterAcquire, db
  <2>4. (Strays(c))' = {}
    BY <1>0, <2>3 DEF NoStrayObjects, Strays
  <2> QED BY <1>4, <2>2, <2>3, <2>4 DEF Accounted
<1> QED BY <1>1, <1>2, <1>3, <1>4

\* The rest of the server leaves no strays either: thumbnails are rebuilt while no
\* handler is at work.
LEMMA ServerLeavesNone ==
  ASSUME TypeInv, StrayInv, Serene,
         RowStep \/ ServerStep \/ RecomputeStorageUsage \/ UNCHANGED vars
  PROVE  StrayInv'
<1>1. ASSUME UNCHANGED <<blobs, objects, setting, holder, pc, task>> PROVE StrayInv'
  <2>1. HoldersWork'
    BY <1>1 DEF StrayInv, HoldersWork
  <2>2. NoStrayObjects'
    BY <1>1 DEF StrayInv, NoStrayObjects
  <2>3. ASSUME NEW p \in Handlers PROVE (Accounted(p))'
    BY <1>1 DEF StrayInv, Accounted, Strays, Recorded, BlobKeys
  <2> QED BY <2>1, <2>2, <2>3 DEF StrayInv
<1>2. CASE RowStep \/ RecomputeStorageUsage \/ UNCHANGED vars \/ PinObjects \/ UnpinObjects
  BY <1>1, <1>2 DEF RowStep, TrashFile, RestoreTrashedFile, DeadlinePasses,
                    ApplyAnonymousRetention, RecomputeStorageUsage, vars, db, env, PinObjects,
                    UnpinObjects
<1>3. CASE Crash
  BY <1>3 DEF Crash, Serene
<1>4. ASSUME UNCHANGED <<holder, pc, task>>, \A p \in Handlers : pc[p] = "idle",
             NoStrayObjects'
      PROVE  StrayInv'
  BY <1>4 DEF StrayInv, HoldersWork, Accounted
<1>5. CASE \E s \in Settings : Reconfigure(s)
  BY <1>4, <1>5 DEF Reconfigure, StrayInv, NoStrayObjects, db
<1>6. ASSUME NEW c \in Contents, Regenerate(c) PROVE StrayInv'
  <2>0. /\ \A p \in Handlers : pc[p] = "idle"
        /\ "write" \notin Faults /\ "delete" \notin Faults
        /\ blobs \in [Contents -> Blob] /\ UNCHANGED <<holder, pc, task>>
        /\ holder \in [Contents -> Handlers \cup {None}]
    BY <1>6 DEF Regenerate, Serene, TypeInv, TypeOK, HandlersOK
  <2>1. \A d \in Contents : holder[d] = None
    BY <2>0 DEF StrayInv, HoldersWork, Locked
  <2>2. /\ objects' = (objects \cup {<<c, "rebuilt">>}) \ ({c} \X (blobs[c].roles \cap Settings))
        /\ blobs' = [blobs EXCEPT ![c].roles = (@ \ Settings) \cup {"rebuilt"}]
    BY <1>6, <2>0 DEF Regenerate
  <2>3. blobs'[c].roles = (blobs[c].roles \ Settings) \cup {"rebuilt"}
    BY <2>0, <2>2 DEF Blob
  <2>4. ASSUME NEW d \in Contents, NEW r \in Roles, <<d, r>> \in objects' PROVE r \in blobs'[d].roles
    <3>1. <<d, r>> \in objects => r \in blobs[d].roles
      BY <2>1 DEF StrayInv, NoStrayObjects
    <3>2. CASE d # c
      BY <2>0, <2>2, <2>4, <3>1, <3>2
    <3>3. CASE d = c
      BY <2>2, <2>3, <2>4, <3>1, <3>3
    <3> QED BY <3>2, <3>3
  <2>5. NoStrayObjects'
    BY <2>4 DEF NoStrayObjects
  <2> QED BY <1>4, <2>0, <2>5
<1> QED BY <1>2, <1>3, <1>5, <1>6 DEF ServerStep

LEMMA StrayStep ==
  ASSUME Serene
  PROVE  TypeInv /\ CountInv /\ StrayInv /\ [Next]_vars /\ [Tidy]_vars => StrayInv'
<1> SUFFICES ASSUME TypeInv, CountInv, StrayInv, [Next]_vars, [Tidy]_vars PROVE StrayInv'
  OBVIOUS
<1>1. ASSUME NEW p \in Handlers, HandlerStep(p), Tidy PROVE StrayInv'
  <2>1. HoldersWork'
    BY <1>1, HoldersStay DEF CountInv, StrayInv
  <2> QED BY <1>1, <2>1, NoneLeft, AllAccounted DEF StrayInv
<1>2. CASE RowStep \/ ServerStep \/ RecomputeStorageUsage \/ UNCHANGED vars
  BY <1>2, ServerLeavesNone
<1>3. CASE Tidy /\ \E p \in Handlers : HandlerStep(p)
  BY <1>1, <1>3
<1> QED BY <1>2, <1>3 DEF Next

LEMMA InitStray == Init => StrayInv
BY DEF Init, StrayInv, HoldersWork, NoStrayObjects, Accounted

\* As long as no request is cut short and no write, deletion or save fails half way,
\* and apart from the three ways the code has of leaving an object behind although
\* nothing failed (Tidy), every object stored for a content is named by its record
\* whenever no handler has the content's lock: failed uploads, refused files and
\* filtered copies included.
THEOREM NothingIsStray ==
  ASSUME Faults \cap {"cancel", "sync", "delete", "write", "crash"} = {}
  PROVE  Spec /\ [][Tidy]_vars => []NoStrayObjects
<1>0. Serene
  BY DEF Serene
<1>1. Init => TypeInv /\ CountInv /\ StrayInv
  BY InitType, InitCounts, InitStray
<1>2. TypeInv /\ CountInv /\ StrayInv /\ [Next]_vars /\ [Tidy]_vars
        => (TypeInv /\ CountInv /\ StrayInv)'
  BY <1>0, TypeStep, CountStep, StrayStep
<1>3. StrayInv => NoStrayObjects
  BY DEF StrayInv
<1> QED BY <1>1, <1>2, <1>3, PTL DEF Spec
=============================================================================
