-------------------------- MODULE ModerationProofs ---------------------------
(***************************************************************************)
(* Proofs about what members share and how it is moderated, for any number *)
(* of accounts, files, albums, tags, reports and requests in flight.  The  *)
(* invariant says of each table that its rows are well-formed (FilesOK,    *)
(* AlbumsOK, LabelsOK, ReportsOK, LogOK), and of each request that what it *)
(* read or did earlier still bears out what it is about to write (Handed). *)
(* Writes says once which steps write which table; each table's lemma has  *)
(* those cases alone.                                                      *)
(***************************************************************************)
EXTENDS Moderation, FiniteSetTheorems, TLAPS

FileRow == [state : {"none", "kept", "trashed", "gone"}, owner : Everyone \cup {Nil},
            visibility : Visibility, metadata : MetadataPolicy, location : MetadataPolicy]
AlbumRow == [state : {"none", "kept", "gone"}, owner : Users \cup {Nil},
             slug : (Titles \X (Albums \cup {Nil})) \cup {Nil}, visibility : Visibility,
             access : AlbumAccess, metadata : MetadataPolicy, location : MetadataPolicy]
ReportRow == [status : {"none", "open", "actioned", "dismissed"}, reporter : Users \cup {Nil},
              target : Content \cup {Nil}, resolver : Users \cup {Nil}]

Known(x) == RowOf(x).state # "none"
Gone(x) == RowOf(x).state = "gone"
Closed(r) == report[r].status \in {"actioned", "dismissed"}

\* What a file's settings disclose has been noted as opened by its owner.
FilesOK ==
    /\ file \in [Files -> FileRow]
    /\ \A f \in Files : ForModeration(f) => Opening(f, file[f]) \subseteq opened
AlbumsOK ==
    /\ album \in [Albums -> AlbumRow]
    /\ \A a \in Albums : Kept(a) => Sensible(album[a])
LabelsOK == labels \subseteq Files \X TagIds
ReportsOK ==
    /\ report \in [Reports -> ReportRow]
    /\ \A r \in Reports : report[r].status # "none" => report[r].target \in Content /\ Known(report[r].target)
    /\ ActionedMeansGone
LogOK ==
    \A e \in modlog :
        IF e.action = "removed" THEN e.target \in Content /\ Gone(e.target)
        ELSE /\ e.report \in Reports /\ Closed(e.report)
             /\ report[e.report].status = e.action
             /\ report[e.report].resolver = e.actor
             /\ report[e.report].target = e.target

----------------------------------------------------------------------------
(* What a request in flight may rely on *)

Showing(r) == r.target \in Files /\ r.row \in FileRow /\ Opening(r.target, r.row) \subseteq opened
Changing(r) == r.target \in Files /\ r.patch \in FilePatches
Patching(r) == r.target \in Albums /\ r.row \in AlbumRow /\ r.row.state = "kept" /\ Sensible(r.row)
Reporting(r) == r.user \in Users /\ r.target \in Content /\ Known(r.target)
Resolving(r) ==
    /\ r.user \in Users /\ r.report \in Reports /\ report[r.report].status # "none"
    /\ r.in \in {"actioned", "dismissed"}
    /\ r.step \in {"find", "delete", "log"} => r.in = "actioned"
    /\ r.step \in {"delete", "log"} => r.target = report[r.report].target
    /\ r.step = "log" => Gone(r.target)
    /\ r.step = "close" /\ r.in = "actioned" => Gone(report[r.report].target)
    /\ r.step = "record" => report[r.report].status = r.in /\ report[r.report].resolver = r.user
Removing(r) ==
    /\ r.user \in Users /\ r.target \in Content
    /\ r.step = "record" => Gone(r.target)

Fields == {"op", "step", "user", "target", "in", "row", "patch", "report"}

Handed(h) ==
    LET r == req[h] IN
    /\ DOMAIN r = Fields
    /\ r.op = "show" => Showing(r)
    /\ r.op = "change" => Changing(r)
    /\ r.op \in {"patch", "edit"} => Patching(r)
    /\ r.op = "label" => r.target \in Files
    /\ r.op = "report" => Reporting(r)
    /\ r.op = "resolve" => Resolving(r)
    /\ r.op = "remove" => Removing(r)

RequestsOK == DOMAIN req = Requests /\ \A h \in Requests : Handed(h)

Inv ==
    /\ FilesOK /\ AlbumsOK /\ LabelsOK /\ ReportsOK
    /\ RequestsOK /\ OwnersDisclose /\ LogOK

----------------------------------------------------------------------------
(* Which step writes what *)

\* A removal or a report's resolution of it is under way.
Requested(x) ==
    \E h \in Requests :
        \/ req[h].op = "remove" /\ req[h].target = x
        \/ req[h].op = "resolve" /\ report[req[h].report].target = x

FileWrite ==
    \/ \E f \in Files, u \in Everyone : Upload(f, u)
    \/ \E h \in Requests : UpdateFile(h)
    \/ \E u \in Users, S \in SUBSET Files, v \in Levels : SetFilesVisibility(u, S, v)
    \/ \E f \in Files :
          \/ DropFile(f) /\ (Requested(f) \/ file[f].state = "trashed")
          \/ TrashFile(f) \/ RestoreTrashedFile(f)
AlbumWrite ==
    \/ \E a \in Albums, u \in Users, title \in Titles :
          CreateAlbum(a, u, title) \/ \E S \in SUBSET Files : CreateAlbumWithFiles(a, u, S, title)
    \/ \E h \in Requests : UpdateAlbum(h)
    \/ \E a \in Albums : DropAlbum(a) /\ Requested(a)
LabelWrite ==
    \/ \E h \in Requests : AddTag(h) \/ RemoveTag(h)
    \/ \E u \in Users, S \in SUBSET Files, n \in Names : AddTagsToFiles(u, S, n)
    \/ PruneUnusedTags
    \/ \E f \in Files : DropFile(f)
ReportWrite == \E h \in Requests : CreateReport(h) \/ ResolveReport(h)
LogWrite == \E h \in Requests : LogRemoval(h) \/ RecordDecision(h) \/ RecordRemoval(h)
RequestMove(h) ==
    \/ AskShow(h) \/ AskChange(h) \/ AskPatch(h) \/ AskEdit(h) \/ AskFile(h) \/ AskUnfile(h)
    \/ AskLabel(h) \/ AskUnlabel(h) \/ AskFavorite(h) \/ AskReport(h) \/ AskResolve(h) \/ AskRemove(h)
    \/ FindReported(h) \/ RemoveReported(h) \/ LogRemoval(h) \/ ResolveReport(h) \/ Remove(h)

Writes ==
    /\ UNCHANGED <<file, opened>> \/ FileWrite
    /\ UNCHANGED album \/ AlbumWrite
    /\ UNCHANGED labels \/ LabelWrite
    /\ UNCHANGED report \/ ReportWrite
    /\ UNCHANGED sent \/ \E h \in Requests : Send(h)
    /\ UNCHANGED modlog \/ LogWrite
    /\ UNCHANGED req \/ \E h \in Requests : End(h) \/ RequestMove(h)

LEMMA MemberWrites ==
  ASSUME UNCHANGED mvars, FileStep \/ AlbumStep \/ ShowStep \/ TagStep \/ FailStep
  PROVE  Writes
<1>1. CASE FileStep
  <2>1. ASSUME NEW f \in Files, NEW u \in Everyone, Upload(f, u) PROVE Writes
    BY <2>1 DEF Writes, Upload, mvars, albumVars, tagVars, FileWrite
  <2>2. ASSUME NEW f \in Files, RestoreTrashedFile(f) PROVE Writes
    BY <2>2 DEF Writes, RestoreTrashedFile, mvars, albumVars, tagVars, FileWrite
  <2>3. ASSUME NEW f \in Files, PurgeTrashedFile(f) PROVE Writes
    <3>1. DropFile(f) /\ file[f].state = "trashed" /\ req' = req
      BY <2>3 DEF PurgeTrashedFile
    <3> QED BY <3>1 DEF Writes, DropFile, mvars, albumVars, FileWrite, LabelWrite
  <2>4. ASSUME NEW u \in Users, NEW S \in SUBSET Files, NEW v \in Levels, SetFilesVisibility(u, S, v)
        PROVE  Writes
    BY <2>4 DEF Writes, SetFilesVisibility, mvars, albumVars, tagVars, FileWrite
  <2>5. ASSUME NEW h \in Requests, AskChange(h) PROVE Writes
    BY <2>5 DEF Writes, AskChange, mvars, fileVars, albumVars, tagVars, RequestMove
  <2>6. ASSUME NEW h \in Requests, UpdateFile(h) PROVE Writes
    BY <2>6 DEF Writes, UpdateFile, mvars, albumVars, tagVars, FileWrite
  <2> QED BY <1>1, <2>1, <2>2, <2>3, <2>4, <2>5, <2>6 DEF FileStep
<1>2. CASE AlbumStep
  <2>1. ASSUME NEW a \in Albums, NEW u \in Users, NEW title \in Titles, CreateAlbum(a, u, title)
        PROVE  Writes
    BY <2>1 DEF Writes, CreateAlbum, mvars, fileVars, tagVars, AlbumWrite
  <2>2. ASSUME NEW a \in Albums, NEW u \in Users, NEW title \in Titles, NEW S \in SUBSET Files,
               CreateAlbumWithFiles(a, u, S, title)
        PROVE  Writes
    BY <2>2 DEF Writes, CreateAlbumWithFiles, mvars, fileVars, tagVars, AlbumWrite
  <2>3. ASSUME NEW a \in Albums, NEW u \in Users, NEW S \in SUBSET Files, AddFilesToAlbum(u, S, a)
        PROVE  Writes
    BY <2>3 DEF Writes, AddFilesToAlbum, mvars, fileVars, albumVars, tagVars
  <2>4. ASSUME NEW a \in Albums, NEW u \in Users, NEW link \in Links, NEW remove \in BOOLEAN,
               LinkAlbumDiscussion(u, a, link, remove)
        PROVE  Writes
    BY <2>4 DEF Writes, LinkAlbumDiscussion, mvars, fileVars, tagVars
  <2>5. ASSUME NEW h \in Requests, AskPatch(h) \/ AskEdit(h) \/ AskFile(h) \/ AskUnfile(h) PROVE Writes
    <3>1. UNCHANGED <<fileVars, albumVars, tagVars>> /\ RequestMove(h)
      BY <2>5 DEF AskPatch, AskEdit, AskFile, AskUnfile, RequestMove
    <3> QED BY <3>1 DEF Writes, mvars, fileVars, albumVars, tagVars
  <2>6. ASSUME NEW h \in Requests, AddFileToAlbum(h) \/ RemoveFileFromAlbum(h) PROVE Writes
    <3>1. UNCHANGED <<fileVars, albumVars, tagVars>> /\ End(h)
      BY <2>6 DEF AddFileToAlbum, RemoveFileFromAlbum
    <3> QED BY <3>1 DEF Writes, mvars, fileVars, albumVars, tagVars
  <2>7. ASSUME NEW h \in Requests, UpdateAlbum(h) PROVE Writes
    BY <2>7 DEF Writes, UpdateAlbum, mvars, fileVars, tagVars, AlbumWrite
  <2> QED BY <1>2, <2>1, <2>2, <2>3, <2>4, <2>5, <2>6, <2>7 DEF AlbumStep
<1>3. ASSUME NEW h \in Requests, AskShow(h) \/ Send(h) \/ Fail(h) PROVE Writes
  <2>1. CASE AskShow(h)
    BY <2>1 DEF Writes, AskShow, mvars, fileVars, albumVars, tagVars, RequestMove
  <2>2. CASE Send(h)
    BY <2>2 DEF Writes, Send, mvars, albumVars, tagVars
  <2>3. CASE Fail(h)
    BY <2>3 DEF Writes, Fail, mvars, fileVars, albumVars, tagVars
  <2> QED BY <1>3, <2>1, <2>2, <2>3
<1>4. CASE TagStep
  <2>1. ASSUME NEW h \in Requests, AskLabel(h) \/ AskUnlabel(h) \/ AskFavorite(h) PROVE Writes
    <3>1. UNCHANGED <<fileVars, albumVars, tagVars>> /\ RequestMove(h)
      BY <2>1 DEF AskLabel, AskUnlabel, AskFavorite, RequestMove
    <3> QED BY <3>1 DEF Writes, mvars, fileVars, albumVars, tagVars
  <2>2. ASSUME NEW h \in Requests, AddTag(h) \/ RemoveTag(h) PROVE Writes
    <3>1. UNCHANGED <<fileVars, albumVars>> /\ End(h) /\ LabelWrite
      BY <2>2 DEF AddTag, RemoveTag, LabelWrite
    <3> QED BY <3>1 DEF Writes, mvars, fileVars, albumVars
  <2>3. ASSUME NEW h \in Requests, SetFavorite(h) PROVE Writes
    BY <2>3 DEF Writes, SetFavorite, mvars, fileVars, albumVars, tagVars
  <2>4. ASSUME PruneUnusedTags \/
               \E u \in Users, S \in SUBSET Files, n \in Names : AddTagsToFiles(u, S, n)
        PROVE  Writes
    <3>1. UNCHANGED <<fileVars, albumVars, req>> /\ LabelWrite
      BY <2>4 DEF PruneUnusedTags, AddTagsToFiles, LabelWrite
    <3> QED BY <3>1 DEF Writes, mvars, fileVars, albumVars
  <2> QED BY <1>4, <2>1, <2>2, <2>3, <2>4 DEF TagStep
<1> QED BY <1>1, <1>2, <1>3, <1>4 DEF ShowStep, FailStep

\* Taking content away writes the table it is in, and its labels.
LEMMA DropWrites ==
  ASSUME NEW x \in Content, Drop(x), Requested(x)
  PROVE  /\ UNCHANGED <<file, opened>> \/ FileWrite
         /\ UNCHANGED album \/ AlbumWrite
         /\ UNCHANGED labels \/ LabelWrite
         /\ UNCHANGED sent
<1>1. CASE x \in Files
  BY <1>1 DEF Drop, DropFile, FileWrite, LabelWrite, albumVars
<1>2. CASE x \notin Files
  BY <1>2 DEF Drop, DropAlbum, AlbumWrite, Content, fileVars, tagVars
<1> QED BY <1>1, <1>2

LEMMA ModeratorWrites ==
  ASSUME RequestsOK, ReportsOK, NEW h \in Requests,
         \/ AskReport(h) \/ CreateReport(h)
         \/ AskResolve(h) \/ FindReported(h) \/ RemoveReported(h)
         \/ LogRemoval(h) \/ ResolveReport(h) \/ RecordDecision(h)
         \/ AskRemove(h) \/ Remove(h) \/ RecordRemoval(h)
  PROVE  Writes
<1>1. CASE AskReport(h) \/ AskResolve(h) \/ FindReported(h) \/ AskRemove(h)
  <2>1. UNCHANGED <<fileVars, albumVars, tagVars, mvars>> /\ RequestMove(h)
    BY <1>1 DEF AskReport, AskResolve, FindReported, AskRemove, RequestMove
  <2> QED BY <2>1 DEF Writes, mvars, fileVars, albumVars, tagVars
<1>2. CASE CreateReport(h)
  <2>1. UNCHANGED <<fileVars, albumVars, tagVars, modlog>> /\ End(h)
    BY <1>2 DEF CreateReport
  <2> QED BY <1>2, <2>1 DEF Writes, fileVars, albumVars, tagVars, ReportWrite
<1>3. CASE RemoveReported(h)
  <2>1. req[h].target \in Content /\ Requested(req[h].target)
    BY <1>3 DEF RemoveReported, At, Doing, RequestsOK, Handed, Resolving, ReportsOK, Requested
  <2>2. Drop(req[h].target) /\ UNCHANGED mvars /\ RequestMove(h)
    BY <1>3 DEF RemoveReported, RequestMove
  <2> QED BY <2>1, <2>2, DropWrites DEF Writes, mvars
<1>4. CASE LogRemoval(h) \/ RecordDecision(h) \/ RecordRemoval(h)
  <2>1. UNCHANGED <<fileVars, albumVars, tagVars, report>> /\ (End(h) \/ RequestMove(h)) /\ LogWrite
    BY <1>4 DEF LogRemoval, RecordDecision, RecordRemoval, RequestMove, LogWrite
  <2> QED BY <2>1 DEF Writes, fileVars, albumVars, tagVars
<1>5. CASE ResolveReport(h)
  <2>1. UNCHANGED <<fileVars, albumVars, tagVars, modlog>> /\ RequestMove(h) /\ ReportWrite
    BY <1>5 DEF ResolveReport, RequestMove, ReportWrite
  <2> QED BY <2>1 DEF Writes, fileVars, albumVars, tagVars
<1>6. CASE Remove(h)
  <2>1. req[h].target \in Content /\ Requested(req[h].target)
    <3>1. req[h].op = "remove"
      BY <1>6 DEF Remove, At, Doing
    <3>2. req[h].target \in Content
      BY <3>1 DEF RequestsOK, Handed, Removing
    <3>3. Requested(req[h].target)
      BY <3>1 DEF Requested
    <3> QED BY <3>2, <3>3
  <2>2. /\ UNCHANGED mvars /\ RequestMove(h)
        /\ Drop(req[h].target) \/ (req[h].target \in Files /\ TrashFile(req[h].target))
    BY <1>6 DEF Remove, RequestMove
  <2>3. CASE Drop(req[h].target)
    BY <2>1, <2>2, <2>3, DropWrites DEF Writes, mvars
  <2>4. CASE req[h].target \in Files /\ TrashFile(req[h].target)
    BY <2>2, <2>4 DEF Writes, TrashFile, FileWrite, mvars, albumVars, tagVars
  <2> QED BY <2>2, <2>3, <2>4
<1> QED BY <1>1, <1>2, <1>3, <1>4, <1>5, <1>6

LEMMA StepWrites == RequestsOK /\ ReportsOK /\ [Next]_vars => Writes
<1> SUFFICES ASSUME RequestsOK, ReportsOK, [Next]_vars PROVE Writes
  OBVIOUS
<1>1. CASE UNCHANGED vars
  BY <1>1 DEF vars, svars, mvars, fileVars, albumVars, tagVars, Writes
<1>2. CASE ModerationStep
  BY <1>2, ModeratorWrites DEF ModerationStep
<1> QED BY <1>1, <1>2, MemberWrites DEF Next

----------------------------------------------------------------------------
(* Files and albums *)

\* Rows come once and go for good.
FilesAge ==
    \A f \in Files : /\ file[f].state # "none" => file'[f].state # "none"
                     /\ file[f].state = "gone" => file'[f].state = "gone"
AlbumsAge ==
    \A a \in Albums : /\ album[a].state # "none" => album'[a].state # "none"
                      /\ album[a].state = "gone" => album'[a].state = "gone"

\* A change keeps the row's state and owner.
LEMMA Merged ==
  ASSUME NEW row \in FileRow, NEW patch \in FilePatches
  PROVE  MergeFile(patch, row) \in FileRow /\ MergeFile(patch, row).state = row.state
<1>1. patch \in [visibility : Levels \cup {Nil}, metadata : Policies \cup {Nil}, location : Policies \cup {Nil}]
  BY SharingAssumption
<1>2. Levels \subseteq Visibility /\ Policies \subseteq MetadataPolicy
  BY SharingAssumption
<1> QED BY <1>1, <1>2 DEF MergeFile, Coalesce, FileRow

LEMMA MergedAlbum ==
  ASSUME NEW row \in AlbumRow, NEW patch \in AlbumPatches
  PROVE  MergeAlbum(patch, row) \in AlbumRow /\ MergeAlbum(patch, row).state = row.state
<1>1. patch \in [visibility : Levels \cup {Nil}, access : AlbumAccess \cup {Nil},
                 metadata : Policies \cup {Nil}, location : Policies \cup {Nil}]
  BY SharingAssumption
<1>2. Levels \subseteq Visibility /\ Policies \subseteq MetadataPolicy
  BY SharingAssumption
<1> DEFINE visibility == Coalesce(patch.visibility, row.visibility)
           access == Coalesce(patch.access, row.access)
           metadata == Coalesce(patch.metadata, row.metadata)
           location == Coalesce(patch.location, row.location)
<1>3. /\ visibility \in Visibility /\ access \in AlbumAccess
      /\ metadata \in MetadataPolicy /\ location \in MetadataPolicy
  BY <1>1, <1>2 DEF Coalesce, AlbumRow
<1>4. MergeAlbum(patch, row)
        = [row EXCEPT !.visibility = visibility, !.access = access,
                      !.metadata = metadata, !.location = location]
  BY DEF MergeAlbum, AlbumRow
<1> HIDE DEF visibility, access, metadata, location
<1> QED BY <1>3, <1>4 DEF AlbumRow

\* What may be disclosed rests on the levels alone.
LEMMA OpeningAlike ==
  ASSUME NEW f, NEW row \in FileRow, NEW other \in FileRow, other.visibility = row.visibility,
         other.metadata = row.metadata, other.location = row.location
  PROVE  Opening(f, other) = Opening(f, row)
BY DEF Opening, OwnerShows, Kinds, FileRow

\* A write of one file's row: what it discloses is noted, or was before.
LEMMA OneFile ==
  ASSUME FilesOK, NEW f \in Files, NEW row \in FileRow, file' = [file EXCEPT ![f] = row],
         opened \subseteq opened', row.state # "gone" => Opening(f, row) \subseteq opened',
         file[f].state # "none" => row.state # "none",
         file[f].state = "gone" => row.state = "gone"
  PROVE  FilesOK' /\ FilesAge
<1>1. \A g \in Files : file'[g] = IF g = f THEN row ELSE file[g]
  BY DEF FilesOK
<1>2. file' \in [Files -> FileRow]
  BY DEF FilesOK
<1>3. FilesAge
  BY <1>1 DEF FilesAge
<1>4. ASSUME NEW g \in Files, file'[g].state \in {"kept", "trashed"}
      PROVE  Opening(g, file'[g]) \subseteq opened'
  BY <1>1, <1>4 DEF FilesOK, ForModeration
<1> QED BY <1>2, <1>3, <1>4 DEF FilesOK, ForModeration, Opening, OwnerShows

LEMMA FilesStep ==
  ASSUME FilesOK, RequestsOK, UNCHANGED <<file, opened>> \/ FileWrite
  PROVE  FilesOK' /\ FilesAge /\ opened \subseteq opened'
<1>0. file \in [Files -> FileRow]
  BY DEF FilesOK
<1>1. CASE UNCHANGED <<file, opened>>
  BY <1>1 DEF FilesOK, FilesAge, ForModeration, Opening, OwnerShows
<1>2. ASSUME NEW f \in Files, NEW u \in Everyone, Upload(f, u)
      PROVE  FilesOK' /\ FilesAge /\ opened \subseteq opened'
  <2>1. PICK v \in Levels, m \in Policies, l \in Policies :
          LET row == [state |-> "kept", owner |-> u, visibility |-> v, metadata |-> m, location |-> l]
          IN file' = [file EXCEPT ![f] = row] /\ opened' = opened \cup Opening(f, row)
    BY <1>2 DEF Upload
  <2> DEFINE row == [state |-> "kept", owner |-> u, visibility |-> v, metadata |-> m, location |-> l]
  <2>2. row \in FileRow /\ row.state = "kept"
    BY SharingAssumption DEF FileRow
  <2>3. file[f].state = "none"
    BY <1>2 DEF Upload
  <2>4. file' = [file EXCEPT ![f] = row] /\ opened' = opened \cup Opening(f, row)
    BY <2>1
  <2> HIDE DEF row
  <2> QED BY <2>2, <2>3, <2>4, OneFile
<1>3. ASSUME NEW h \in Requests, UpdateFile(h)
      PROVE  FilesOK' /\ FilesAge /\ opened \subseteq opened'
  <2>1. req[h].target \in Files /\ req[h].patch \in FilePatches
    BY <1>3 DEF UpdateFile, Doing, RequestsOK, Handed, Changing
  <2>2. CASE UNCHANGED <<file, opened>>
    BY <1>1, <2>2
  <2>3. CASE ForModeration(req[h].target)
    <3> DEFINE f == req[h].target
               row == MergeFile(req[h].patch, file[f])
    <3>1. f \in Files /\ row \in FileRow /\ row.state = file[f].state
      BY <1>0, <2>1, Merged
    <3>2. file' = [file EXCEPT ![f] = row] /\ opened' = opened \cup Opening(f, file'[f])
      BY <1>3, <2>3 DEF UpdateFile
    <3>3. file'[f] = row
      BY <1>0, <3>1, <3>2
    <3> HIDE DEF f, row
    <3> QED BY <3>1, <3>2, <3>3, OneFile
  <2> QED BY <1>3, <2>2, <2>3 DEF UpdateFile
<1>4. ASSUME NEW u \in Users, NEW S \in SUBSET Files, NEW v \in Levels, SetFilesVisibility(u, S, v)
      PROVE  FilesOK' /\ FilesAge /\ opened \subseteq opened'
  <2>1. /\ file' = [f \in Files |-> IF f \in S THEN [file[f] EXCEPT !.visibility = v] ELSE file[f]]
        /\ opened' = opened \cup UNION {Opening(f, file'[f]) : f \in S}
    BY <1>4 DEF SetFilesVisibility
  <2>2. \A f \in Files : file'[f] \in FileRow /\ file'[f].state = file[f].state
    BY <1>0, <2>1, SharingAssumption DEF FileRow
  <2>3. ASSUME NEW f \in Files, file'[f].state \in {"kept", "trashed"}
        PROVE  Opening(f, file'[f]) \subseteq opened'
    <3>1. CASE f \in S
      BY <2>1, <3>1
    <3>2. CASE f \notin S
      <4>1. file'[f] = file[f] /\ opened \subseteq opened'
        BY <2>1, <3>2
      <4> QED BY <2>3, <4>1 DEF FilesOK, ForModeration
    <3> QED BY <3>1, <3>2
  <2>4. file' \in [Files -> FileRow]
    BY <2>1, <2>2
  <2>5. FilesOK'
    BY <2>3, <2>4 DEF FilesOK, ForModeration, Opening, OwnerShows
  <2> QED BY <2>1, <2>2, <2>5 DEF FilesAge
<1>5. ASSUME NEW f \in Files, DropFile(f) \/ TrashFile(f) \/ RestoreTrashedFile(f)
      PROVE  FilesOK' /\ FilesAge /\ opened \subseteq opened'
  <2>1. /\ opened' = opened
        /\ \/ file' = [file EXCEPT ![f].state = "gone"]
           \/ Found(f) /\ file' = [file EXCEPT ![f].state = "trashed"]
           \/ file[f].state = "trashed" /\ file' = [file EXCEPT ![f].state = "kept"]
           \/ file' = file
    BY <1>5, Zenon DEF DropFile, TrashFile, RestoreTrashedFile
  <2>2. CASE file' = file
    BY <1>1, <2>1, <2>2
  <2>3. ASSUME NEW s \in {"kept", "trashed", "gone"}, file' = [file EXCEPT ![f].state = s],
               s # "gone" => file[f].state \in {"kept", "trashed"}
        PROVE  FilesOK' /\ FilesAge
    <3> DEFINE row == [file[f] EXCEPT !.state = s]
    <3>1. row \in FileRow /\ row.state = s /\ file' = [file EXCEPT ![f] = row]
      BY <1>0, <2>3 DEF FileRow
    <3>2. Opening(f, row) = Opening(f, file[f])
      BY <1>0, <3>1, OpeningAlike DEF FileRow
    <3>3. s # "gone" => Opening(f, row) \subseteq opened'
      BY <2>1, <2>3, <3>2 DEF FilesOK, ForModeration
    <3>4. file[f].state # "none" => row.state # "none"
      BY <3>1
    <3>5. file[f].state = "gone" => row.state = "gone"
      BY <2>3, <3>1
    <3> HIDE DEF row
    <3> QED BY <2>1, <3>1, <3>3, <3>4, <3>5, OneFile
  <2> QED BY <2>1, <2>2, <2>3 DEF Found
<1> QED BY <1>1, <1>2, <1>3, <1>4, <1>5 DEF FileWrite

LEMMA AlbumsStep ==
  ASSUME AlbumsOK, RequestsOK, UNCHANGED album \/ AlbumWrite
  PROVE  AlbumsOK' /\ AlbumsAge
<1>0. album \in [Albums -> AlbumRow]
  BY DEF AlbumsOK
<1>1. CASE UNCHANGED album
  BY <1>1 DEF AlbumsOK, AlbumsAge, Kept
<1>2. ASSUME NEW a \in Albums, NEW row \in AlbumRow, album' = [album EXCEPT ![a] = row],
             row.state = "kept" => Sensible(row),
             album[a].state # "none" => row.state # "none",
             album[a].state = "gone" => row.state = "gone"
      PROVE  AlbumsOK' /\ AlbumsAge
  <2>1. \A b \in Albums : album'[b] = IF b = a THEN row ELSE album[b]
    BY <1>0, <1>2
  <2>2. album' \in [Albums -> AlbumRow]
    BY <1>0, <1>2
  <2>3. ASSUME NEW b \in Albums, album'[b].state = "kept" PROVE Sensible(album'[b])
    BY <1>2, <2>1, <2>3 DEF AlbumsOK, Kept
  <2>4. AlbumsOK'
    BY <2>2, <2>3 DEF AlbumsOK, Kept, Sensible
  <2> QED BY <1>2, <2>1, <2>4 DEF AlbumsAge
<1>3. ASSUME NEW a \in Albums, NEW u \in Users, NEW title \in Titles
      PROVE  NewAlbum(a, u, title) \in AlbumRow /\ NewAlbum(a, u, title).state = "kept"
             /\ Sensible(NewAlbum(a, u, title))
  <2>1. SlugFor(a, title) \in Titles \X (Albums \cup {Nil})
    BY DEF SlugFor
  <2>2. NoAlbum \in AlbumRow /\ NoAlbum.access = "owner"
    BY DEF NoAlbum, AlbumRow, Visibility, AlbumAccess, MetadataPolicy
  <2>3. NewAlbum(a, u, title) =
          [NoAlbum EXCEPT !.state = "kept", !.owner = u, !.slug = SlugFor(a, title)]
    BY DEF NewAlbum
  <2> QED BY <2>1, <2>2, <2>3 DEF AlbumRow, Sensible
<1>4. ASSUME NEW a \in Albums, NEW u \in Users, NEW title \in Titles,
             \/ CreateAlbum(a, u, title)
             \/ \E S \in SUBSET Files : CreateAlbumWithFiles(a, u, S, title)
      PROVE  AlbumsOK' /\ AlbumsAge
  <2>1. PICK row \in AlbumRow : AddAlbum(a, row) /\ row.state = "kept" /\ Sensible(row)
    <3>1. CASE CreateAlbum(a, u, title)
      <4>1. PICK patch \in AlbumPatches :
              LET row == MergeAlbum(patch, NewAlbum(a, u, title)) IN Sensible(row) /\ AddAlbum(a, row)
        BY <3>1 DEF CreateAlbum
      <4>2. MergeAlbum(patch, NewAlbum(a, u, title)) \in AlbumRow
            /\ MergeAlbum(patch, NewAlbum(a, u, title)).state = "kept"
        BY <1>3, MergedAlbum
      <4> QED BY <4>1, <4>2
    <3>2. CASE \E S \in SUBSET Files : CreateAlbumWithFiles(a, u, S, title)
      BY <1>3, <3>2 DEF CreateAlbumWithFiles
    <3> QED BY <1>4, <3>1, <3>2
  <2>2. album[a].state = "none" /\ album' = [album EXCEPT ![a] = row]
    BY <2>1, SharingAssumption DEF AddAlbum
  <2> QED BY <1>2, <2>1, <2>2
<1>5. ASSUME NEW h \in Requests, UpdateAlbum(h) PROVE AlbumsOK' /\ AlbumsAge
  <2>1. Patching(req[h])
    BY <1>5 DEF UpdateAlbum, RequestsOK, Handed
  <2>2. CASE Kept(req[h].target)
    <3>1. album' = [album EXCEPT ![req[h].target] = req[h].row]
      BY <1>5, <2>2 DEF UpdateAlbum, Written
    <3> QED BY <1>2, <2>1, <2>2, <3>1 DEF Patching, Kept
  <2>3. CASE ~Kept(req[h].target)
    BY <1>1, <1>5, <2>3 DEF UpdateAlbum
  <2> QED BY <2>2, <2>3
<1>6. ASSUME NEW a \in Albums, DropAlbum(a) PROVE AlbumsOK' /\ AlbumsAge
  <2> DEFINE row == [album[a] EXCEPT !.state = "gone"]
  <2>1. row \in AlbumRow /\ row.state = "gone" /\ album' = [album EXCEPT ![a] = row]
    BY <1>0, <1>6 DEF DropAlbum, AlbumRow
  <2> HIDE DEF row
  <2> QED BY <1>2, <2>1
<1> QED BY <1>1, <1>4, <1>5, <1>6 DEF AlbumWrite

\* Of files and albums together.
LEMMA ContentAges ==
  ASSUME FilesAge, AlbumsAge, NEW x \in Content
  PROVE  (Known(x) => Known(x)') /\ (Gone(x) => Gone(x)')
BY DEF Content, Known, Gone, RowOf, FilesAge, AlbumsAge

----------------------------------------------------------------------------
(* Labels *)

\* Pruning takes only what no file carries.
LEMMA PruningTakesNothing ==
  ASSUME NEW S, NEW L, L \subseteq Files \X TagIds, PruneFrom(S, L)
  PROVE  labels' = L
<1>1. ASSUME NEW l \in L PROVE ~(l[2] \in S /\ Tagged(l[2]) /\ Unused(l[2], L))
  <2>1. PICK f \in Files, t \in TagIds : l = <<f, t>>
    OBVIOUS
  <2> QED BY <2>1 DEF Unused
<1> QED BY <1>1 DEF PruneFrom

\* A label goes with its file, or by a request that takes it away.
LEMMA LabelsStep ==
  ASSUME LabelsOK, FilesOK, RequestsOK, UNCHANGED labels \/ LabelWrite
  PROVE  /\ LabelsOK'
         /\ \A l \in labels \ labels' :
               \/ file'[l[1]].state = "gone"
               \/ \E h \in Requests : req[h].op = "unlabel" /\ req[h].target = l[1] /\ req[h].in = l[2]
<1>1. ASSUME NEW h \in Requests, AddTag(h)
      PROVE  labels \subseteq labels' /\ LabelsOK'
  <2>1. req[h].target \in Files
    BY <1>1 DEF AddTag, Doing, RequestsOK, Handed
  <2>2. PICK t \in TagIds : labels' = labels \cup {<<req[h].target, t>>}
    BY <1>1 DEF AddTag
  <2> QED BY <2>1, <2>2 DEF LabelsOK
<1>2. ASSUME NEW u \in Users, NEW S \in SUBSET Files, NEW n \in Names, AddTagsToFiles(u, S, n)
      PROVE  labels \subseteq labels' /\ LabelsOK'
  <2>1. PICK t \in TagIds : labels' = labels \cup (S \X {t})
    BY <1>2 DEF AddTagsToFiles
  <2> QED BY <2>1 DEF LabelsOK
<1>3. CASE PruneUnusedTags
  <2>1. labels' = labels
    BY <1>3, PruningTakesNothing DEF PruneUnusedTags, LabelsOK
  <2> QED BY <2>1 DEF LabelsOK
<1>4. ASSUME NEW h \in Requests, RemoveTag(h)
      PROVE  /\ labels' = labels \ {<<req[h].target, req[h].in>>}
             /\ req[h].op = "unlabel"
  <2>1. labels \ {<<req[h].target, req[h].in>>} \subseteq Files \X TagIds
    BY DEF LabelsOK
  <2> QED BY <1>4, <2>1, PruningTakesNothing DEF RemoveTag, Doing
<1>5. ASSUME NEW f \in Files, DropFile(f)
      PROVE  labels' = {l \in labels : l[1] # f} /\ file'[f].state = "gone"
  BY <1>5 DEF DropFile, FilesOK, FileRow
<1>6. CASE UNCHANGED labels
  BY <1>6 DEF LabelsOK
<1>7. CASE LabelWrite
  <2>1. CASE \E h \in Requests : RemoveTag(h)
    <3>1. PICK h \in Requests : labels' = labels \ {<<req[h].target, req[h].in>>} /\ req[h].op = "unlabel"
      BY <1>4, <2>1
    <3>2. \A l \in labels \ labels' : l[1] = req[h].target /\ l[2] = req[h].in
      BY <3>1
    <3> QED BY <3>1, <3>2 DEF LabelsOK
  <2>2. CASE \E f \in Files : DropFile(f)
    BY <1>5, <2>2 DEF LabelsOK
  <2> QED BY <1>1, <1>2, <1>3, <1>7, <2>1, <2>2 DEF LabelWrite
<1> QED BY <1>6, <1>7

----------------------------------------------------------------------------
(* Reports and the log *)

\* What is reported stays reported, and what is closed stays as it was closed.
ReportsAge ==
    \A r \in Reports :
        /\ report[r].status # "none" =>
              report'[r].status # "none" /\ report'[r].target = report[r].target
        /\ Closed(r) => report'[r] = report[r]

LEMMA ReportsStep ==
  ASSUME ReportsOK, RequestsOK, FilesAge, AlbumsAge, UNCHANGED report \/ ReportWrite
  PROVE  ReportsOK' /\ ReportsAge
<1>0. report \in [Reports -> ReportRow]
  BY DEF ReportsOK
<1>1. CASE UNCHANGED report
  <2>1. ASSUME NEW r \in Reports, report[r].status # "none"
        PROVE  report[r].target \in Content /\ (Known(report[r].target))'
    <3>1. report[r].target \in Content /\ Known(report[r].target)
      BY <2>1 DEF ReportsOK
    <3> QED BY <1>1, <3>1, ContentAges DEF Known, RowOf
  <2>2. ASSUME NEW r \in Reports, report[r].status = "actioned"
        PROVE  (RowOf(report[r].target).state = "gone")'
    <3>1. report[r].target \in Content /\ Gone(report[r].target)
      BY <2>2 DEF ReportsOK, ActionedMeansGone, Gone
    <3> QED BY <1>1, <3>1, ContentAges DEF Gone, RowOf
  <2> QED BY <1>0, <1>1, <2>1, <2>2 DEF ReportsOK, ReportsAge, ActionedMeansGone
<1>2. ASSUME NEW s \in Reports, NEW row \in ReportRow, report' = [report EXCEPT ![s] = row],
             row.target \in Content, Known(row.target), row.status # "none",
             row.status = "actioned" => Gone(row.target),
             report[s].status # "none" => row.target = report[s].target,
             ~Closed(s)
      PROVE  ReportsOK' /\ ReportsAge
  <2>1. \A r \in Reports : report'[r] = IF r = s THEN row ELSE report[r]
    BY <1>0, <1>2
  <2>2. report' \in [Reports -> ReportRow]
    BY <1>0, <1>2
  <2>3. ASSUME NEW r \in Reports, report'[r].status # "none"
        PROVE  report'[r].target \in Content /\ (Known(report[r].target))'
    <3>1. report'[r].target \in Content /\ Known(report'[r].target)
      BY <1>2, <2>1, <2>3 DEF ReportsOK
    <3> QED BY <3>1, ContentAges DEF Known, RowOf
  <2>4. ASSUME NEW r \in Reports, report'[r].status = "actioned"
        PROVE  (RowOf(report[r].target).state = "gone")'
    <3>1. report'[r].target \in Content /\ Gone(report'[r].target)
      BY <1>2, <2>1, <2>4 DEF ReportsOK, ActionedMeansGone, Gone
    <3> QED BY <3>1, ContentAges DEF Gone, RowOf
  <2>5. ReportsOK'
    BY <2>2, <2>3, <2>4 DEF ReportsOK, ActionedMeansGone
  <2>6. ReportsAge
    BY <1>2, <2>1 DEF ReportsAge
  <2> QED BY <2>5, <2>6
<1>3. ASSUME NEW h \in Requests, CreateReport(h) PROVE ReportsOK' /\ ReportsAge
  <2>1. Reporting(req[h])
    BY <1>3 DEF CreateReport, Doing, RequestsOK, Handed
  <2>2. CASE \E r \in Reports :
               /\ report[r] = NoReport
               /\ report' = [report EXCEPT ![r] = [status |-> "open", reporter |-> req[h].user,
                                                   target |-> req[h].target, resolver |-> Nil]]
    <3>1. PICK r \in Reports :
               /\ report[r] = NoReport
               /\ report' = [report EXCEPT ![r] = [status |-> "open", reporter |-> req[h].user,
                                                   target |-> req[h].target, resolver |-> Nil]]
      BY <2>2
    <3> DEFINE row == [status |-> "open", reporter |-> req[h].user,
                       target |-> req[h].target, resolver |-> Nil]
    <3>2. row \in ReportRow /\ row.status = "open" /\ row.target = req[h].target
      BY <2>1 DEF Reporting, ReportRow
    <3>3. report[r].status = "none"
      BY <3>1 DEF NoReport
    <3>4. report' = [report EXCEPT ![r] = row]
      BY <3>1
    <3> HIDE DEF row
    <3> QED BY <1>2, <2>1, <3>2, <3>3, <3>4 DEF Reporting, Closed
  <2> QED BY <1>1, <1>3, <2>2 DEF CreateReport
<1>4. ASSUME NEW h \in Requests, ResolveReport(h) PROVE ReportsOK' /\ ReportsAge
  <2>1. Resolving(req[h]) /\ req[h].step = "close"
    BY <1>4 DEF ResolveReport, At, Doing, RequestsOK, Handed
  <2>2. CASE Closable(req[h].report)
    <3> DEFINE s == req[h].report
               row == [report[s] EXCEPT !.status = req[h].in, !.resolver = req[h].user]
    <3>1. s \in Reports /\ report[s].status = "open"
      BY <2>1, <2>2 DEF Resolving, Closable
    <3>2. /\ row \in ReportRow /\ row.status = req[h].in /\ row.target = report[s].target
      BY <1>0, <2>1, <3>1 DEF Resolving, ReportRow
    <3>3. report' = [report EXCEPT ![s] = row]
      <4>1. report' = [report EXCEPT ![req[h].report].status = req[h].in,
                                     ![req[h].report].resolver = req[h].user]
        BY <1>4, <2>2 DEF ResolveReport
      <4> QED BY <1>0, <3>1, <4>1
    <3>4. report[s].target \in Content /\ Known(report[s].target) /\ ~Closed(s)
      BY <3>1 DEF ReportsOK, Closed
    <3>5. req[h].in # "none" /\ (req[h].in = "actioned" => Gone(report[s].target))
      BY <2>1 DEF Resolving
    <3> HIDE DEF s, row
    <3> QED BY <1>2, <3>1, <3>2, <3>3, <3>4, <3>5
  <2> QED BY <1>1, <1>4, <2>2 DEF ResolveReport
<1> QED BY <1>1, <1>3, <1>4 DEF ReportWrite

\* A line of the log stays true.
LEMMA LogStep ==
  ASSUME LogOK, ReportsOK, RequestsOK, FilesAge, AlbumsAge, ReportsAge, UNCHANGED modlog \/ LogWrite
  PROVE  LogOK'
<1> DEFINE True(e) == IF e.action = "removed" THEN e.target \in Content /\ Gone(e.target)
                      ELSE /\ e.report \in Reports /\ Closed(e.report)
                           /\ report[e.report].status = e.action
                           /\ report[e.report].resolver = e.actor
                           /\ report[e.report].target = e.target
<1>1. ASSUME NEW e, True(e)
      PROVE  IF e.action = "removed" THEN e.target \in Content /\ Gone(e.target)'
             ELSE /\ e.report \in Reports /\ Closed(e.report)'
                  /\ report'[e.report].status = e.action
                  /\ report'[e.report].resolver = e.actor
                  /\ report'[e.report].target = e.target
  <2>1. CASE e.action = "removed"
    BY <1>1, <2>1, ContentAges
  <2>2. CASE e.action # "removed"
    BY <1>1, <2>2 DEF ReportsAge, Closed
  <2> QED BY <2>1, <2>2
<1>2. ASSUME NEW h \in Requests, LogRemoval(h) \/ RecordDecision(h) \/ RecordRemoval(h)
      PROVE  \A e \in modlog' \ modlog : True(e)
  <2>1. CASE LogRemoval(h)
    <3>1. Resolving(req[h]) /\ req[h].step = "log"
      BY <2>1 DEF LogRemoval, At, Doing, RequestsOK, Handed
    <3>2. req[h].target \in Content /\ Gone(req[h].target)
      BY <3>1 DEF Resolving, ReportsOK
    <3> QED BY <2>1, <3>2 DEF LogRemoval, Entry
  <2>2. CASE RecordDecision(h)
    <3>1. Resolving(req[h]) /\ req[h].step = "record"
      BY <2>2 DEF RecordDecision, At, Doing, RequestsOK, Handed
    <3>2. \A e \in modlog' \ modlog :
             e = Entry(req[h].in, req[h].user, report[req[h].report].target, req[h].report)
      BY <2>2 DEF RecordDecision
    <3> QED BY <3>1, <3>2 DEF Resolving, Closed, Entry
  <2>3. CASE RecordRemoval(h)
    <3>1. Removing(req[h]) /\ req[h].step = "record"
      BY <2>3 DEF RecordRemoval, At, Doing, RequestsOK, Handed
    <3> QED BY <2>3, <3>1 DEF RecordRemoval, Entry, Removing
  <2> QED BY <1>2, <2>1, <2>2, <2>3
<1>3. \A e \in modlog' : True(e)
  BY <1>2 DEF LogOK, LogWrite
<1> HIDE DEF True
<1>4. \A e \in modlog' : True(e) =>
          IF e.action = "removed" THEN e.target \in Content /\ Gone(e.target)'
          ELSE /\ e.report \in Reports /\ Closed(e.report)'
               /\ report'[e.report].status = e.action
               /\ report'[e.report].resolver = e.actor
               /\ report'[e.report].target = e.target
  BY <1>1
<1> QED BY <1>3, <1>4 DEF LogOK, Closed, Gone, RowOf

----------------------------------------------------------------------------
(* Requests in flight *)

\* What a request relies on outlasts the steps of the others.
LEMMA HandedStays ==
  ASSUME ReportsOK, FilesAge, AlbumsAge, ReportsAge, opened \subseteq opened',
         NEW h \in Requests, Handed(h), req'[h] = req[h]
  PROVE  Handed(h)'
<1>1. Showing(req[h]) => Showing(req[h])'
  BY DEF Showing, Opening, OwnerShows
<1>2. (Changing(req[h]) => Changing(req[h])') /\ (Patching(req[h]) => Patching(req[h])')
  BY DEF Changing, Patching, Sensible
<1>3. Reporting(req[h]) => Reporting(req[h])'
  <2>1. Reporting(req[h]) => (Known(req[h].target))'
    BY ContentAges DEF Reporting, Known, RowOf
  <2> QED BY <2>1 DEF Reporting
<1>4. Resolving(req[h]) => Resolving(req[h])'
  <2> SUFFICES ASSUME Resolving(req[h]) PROVE Resolving(req[h])'
    OBVIOUS
  <2> DEFINE r == req[h].report
  <2>1. r \in Reports /\ report'[r].status # "none" /\ report'[r].target = report[r].target
        /\ report[r].target \in Content
    BY DEF Resolving, ReportsAge, ReportsOK
  <2>2. Gone(report[r].target) => (Gone(report[r].target))'
    BY <2>1, ContentAges DEF Gone, RowOf
  <2>3. req[h].step = "log" => (Gone(req[h].target))'
    BY <2>1, ContentAges DEF Resolving, Gone, RowOf
  <2>4. req[h].step = "record" => report'[r] = report[r]
    BY <2>1 DEF Resolving, ReportsAge, Closed
  <2> QED BY <2>1, <2>2, <2>3, <2>4 DEF Resolving
<1>5. Removing(req[h]) => Removing(req[h])'
  <2>1. Removing(req[h]) /\ req[h].step = "record" => (Gone(req[h].target))'
    BY ContentAges DEF Removing, Gone, RowOf
  <2> QED BY <2>1 DEF Removing
<1> QED BY <1>1, <1>2, <1>3, <1>4, <1>5 DEF Handed

\* A request begins with what was read for it, or goes on to its next statement.
Asked(h, r) == req' = [req EXCEPT ![h] = r]

LEMMA RequestIs ==
  ASSUME NEW op, NEW u, NEW x
  PROVE  /\ DOMAIN Request(op, u, x) = Fields
         /\ Request(op, u, x).op = op
         /\ Request(op, u, x).user = u
         /\ Request(op, u, x).target = x
BY DEF Request, NoRequest, Fields

\* Requests about which nothing is remembered, and those that remember a row.
LEMMA MemberAsks ==
  ASSUME RequestsOK, FilesOK, AlbumsOK, opened \subseteq opened', NEW h \in Requests,
         \/ AskShow(h) \/ AskChange(h) \/ AskPatch(h) \/ AskEdit(h) \/ AskFile(h) \/ AskUnfile(h)
         \/ AskLabel(h) \/ AskUnlabel(h) \/ AskFavorite(h)
  PROVE  Handed(h)' /\ \E r : Asked(h, r)
<1>0. DOMAIN req = Requests
  BY DEF RequestsOK
<1>1. CASE AskShow(h)
  <2>1. PICK u \in Everyone, f \in Files :
          Found(f) /\ Begin(h, [Request("show", u, f) EXCEPT !.row = file[f]])
    BY <1>1 DEF AskShow, Viewable
  <2>2. /\ DOMAIN req'[h] = Fields
        /\ req'[h].op = "show" /\ req'[h].target = f /\ req'[h].row = file[f]
    BY <1>0, <2>1, RequestIs DEF Begin, Fields
  <2>3. file[f] \in FileRow /\ Opening(f, file[f]) \subseteq opened'
    BY <2>1 DEF FilesOK, ForModeration, Found
  <2> QED BY <2>1, <2>2, <2>3 DEF Handed, Showing, Opening, OwnerShows, Begin, Asked
<1>2. CASE AskChange(h)
  <2>1. PICK u \in Users, f \in Files, patch \in FilePatches :
          Begin(h, [Request("change", u, f) EXCEPT !.patch = patch])
    BY <1>2 DEF AskChange
  <2>2. /\ DOMAIN req'[h] = Fields
        /\ req'[h].op = "change" /\ req'[h].target = f /\ req'[h].patch = patch
    BY <1>0, <2>1, RequestIs DEF Begin, Fields
  <2> QED BY <2>1, <2>2 DEF Handed, Changing, Begin, Asked
<1>3. CASE AskPatch(h) \/ AskEdit(h)
  <2>1. PICK u \in Users, a \in Albums, patch \in AlbumPatches, row \in AlbumRow, op \in {"patch", "edit"} :
          /\ row.state = "kept" /\ Sensible(row)
          /\ Begin(h, [Request(op, u, a) EXCEPT !.row = row, !.patch = patch])
    <3>1. CASE AskPatch(h)
      <4>1. PICK u \in Users, a \in Albums, patch \in AlbumPatches :
              /\ Kept(a) /\ Sensible(MergeAlbum(patch, album[a]))
              /\ Begin(h, [Request("patch", u, a) EXCEPT !.row = MergeAlbum(patch, album[a]), !.patch = patch])
        BY <3>1 DEF AskPatch, Administerable
      <4> DEFINE row == MergeAlbum(patch, album[a])
      <4>2. row \in AlbumRow /\ row.state = "kept"
        BY <4>1, MergedAlbum DEF AlbumsOK, Kept
      <4> QED BY <4>1, <4>2
    <3>2. CASE AskEdit(h)
      <4>1. PICK u \in Users, a \in Albums, patch \in AlbumPatches :
              LET row == MergeAlbum(patch, [album[a] EXCEPT
                           !.visibility = "private", !.access = "owner", !.metadata = "inherit"])
              IN /\ Kept(a) /\ Sensible(row)
                 /\ Begin(h, [Request("edit", u, a) EXCEPT !.row = row, !.patch = patch])
        BY <3>2 DEF AskEdit, Administerable
      <4> DEFINE bare == [album[a] EXCEPT !.visibility = "private", !.access = "owner", !.metadata = "inherit"]
                 row == MergeAlbum(patch, bare)
      <4>2. bare \in AlbumRow /\ bare.state = "kept"
        BY <4>1 DEF AlbumsOK, AlbumRow, Kept, Visibility, AlbumAccess, MetadataPolicy
      <4>3. row \in AlbumRow /\ row.state = "kept"
        BY <4>2, MergedAlbum
      <4>4. Sensible(row) /\ Begin(h, [Request("edit", u, a) EXCEPT !.row = row, !.patch = patch])
        BY <4>1
      <4> HIDE DEF row
      <4> QED BY <4>3, <4>4
    <3> QED BY <1>3, <3>1, <3>2
  <2>2. /\ DOMAIN req'[h] = Fields
        /\ req'[h].op = op /\ req'[h].target = a /\ req'[h].row = row
    BY <1>0, <2>1, RequestIs DEF Begin, Fields
  <2> QED BY <2>1, <2>2 DEF Handed, Patching, Sensible, Begin, Asked
<1>4. CASE AskLabel(h)
  <2>1. PICK u \in Users, f \in Files, n \in Names :
          Begin(h, [Request("label", u, f) EXCEPT !.in = n, !.row = TagOwner(u, file[f])])
    BY <1>4 DEF AskLabel
  <2>2. DOMAIN req'[h] = Fields /\ req'[h].op = "label" /\ req'[h].target = f
    BY <1>0, <2>1, RequestIs DEF Begin, Fields
  <2> QED BY <2>1, <2>2 DEF Handed, Begin, Asked
<1>5. CASE AskFile(h) \/ AskUnfile(h) \/ AskUnlabel(h) \/ AskFavorite(h)
  <2>1. PICK op \in {"file", "unfile", "unlabel", "favorite"} : \E u, f, x :
          Begin(h, [Request(op, u, f) EXCEPT !.in = x])
    BY <1>5 DEF AskFile, AskUnfile, AskUnlabel, AskFavorite
  <2>2. PICK u, f, x : Begin(h, [Request(op, u, f) EXCEPT !.in = x])
    BY <2>1
  <2>3. DOMAIN req'[h] = Fields /\ req'[h].op = op
    BY <1>0, <2>2, RequestIs DEF Begin, Fields
  <2> QED BY <2>2, <2>3 DEF Handed, Begin, Asked
<1> QED BY <1>1, <1>2, <1>3, <1>4, <1>5

LEMMA ModeratorAsks ==
  ASSUME RequestsOK, ReportsOK, FilesOK, AlbumsOK, FilesAge, AlbumsAge, ReportsAge, NEW h \in Requests,
         AskReport(h) \/ AskResolve(h) \/ AskRemove(h)
  PROVE  Handed(h)' /\ \E r : Asked(h, r)
<1>0. DOMAIN req = Requests
  BY DEF RequestsOK
<1>1. CASE AskReport(h)
  <2>1. PICK u \in Users, x \in Content : Shown(x) /\ Begin(h, Request("report", u, x))
    BY <1>1 DEF AskReport
  <2>2. DOMAIN req'[h] = Fields /\ req'[h].op = "report" /\ req'[h].user = u /\ req'[h].target = x
    BY <1>0, <2>1, RequestIs DEF Begin
  <2>3. Known(x)'
    BY <2>1, ContentAges DEF Known, Shown
  <2> QED BY <2>1, <2>2, <2>3 DEF Handed, Reporting, Known, RowOf, Begin, Asked
<1>2. CASE AskResolve(h)
  <2>1. PICK u \in Users, r \in Reports, step \in {"find", "close"}, verdict \in {"actioned", "dismissed"} :
          /\ report[r].status = "open" /\ (step = "find" <=> verdict = "actioned")
          /\ Begin(h, [Request("resolve", u, report[r].target) EXCEPT
                          !.step = step, !.in = verdict, !.report = r])
    BY <1>2, Zenon DEF AskResolve
  <2>2. /\ DOMAIN req'[h] = Fields /\ req'[h].op = "resolve" /\ req'[h].user = u
        /\ req'[h].step = step /\ req'[h].in = verdict /\ req'[h].report = r
    BY <1>0, <2>1, RequestIs DEF Begin, Fields
  <2>3. report'[r].status # "none"
    BY <2>1 DEF ReportsAge
  <2> QED BY <2>1, <2>2, <2>3 DEF Handed, Resolving, Begin, Asked
<1>3. CASE AskRemove(h)
  <2>1. PICK u \in Users, x \in Content :
          Shown(x) /\ Begin(h, [Request("remove", u, x) EXCEPT !.step = "delete"])
    BY <1>3 DEF AskRemove
  <2>2. /\ DOMAIN req'[h] = Fields /\ req'[h].op = "remove" /\ req'[h].user = u
        /\ req'[h].target = x /\ req'[h].step = "delete"
    BY <1>0, <2>1, RequestIs DEF Begin, Fields
  <2> QED BY <2>1, <2>2 DEF Handed, Removing, Begin, Asked
<1> QED BY <1>1, <1>2, <1>3

\* The statements of a moderator's request, each resting on the one before.
LEMMA Moderates ==
  ASSUME RequestsOK, ReportsOK, FilesOK, AlbumsOK, FilesAge, AlbumsAge, ReportsAge, NEW h \in Requests,
         FindReported(h) \/ RemoveReported(h) \/ LogRemoval(h) \/ ResolveReport(h) \/ Remove(h)
  PROVE  End(h) \/ (Handed(h)' /\ \E r : Asked(h, r))
<1>0. DOMAIN req = Requests /\ DOMAIN req[h] = Fields
  BY DEF RequestsOK, Handed
<1>1. ASSUME NEW s, Goto(h, s)
      PROVE  /\ DOMAIN req'[h] = Fields /\ req'[h].step = s
             /\ \A k \in Fields \ {"step"} : req'[h][k] = req[h][k]
             /\ \E r : Asked(h, r)
  BY <1>0, <1>1 DEF Goto, Fields, Asked
<1>2. CASE FindReported(h) /\ Reported(req[h].report) = {}
  <2>1. Resolving(req[h]) /\ req[h].step = "find" /\ req[h].op = "resolve" /\ Goto(h, "close")
    BY <1>2 DEF FindReported, At, Doing, RequestsOK, Handed
  <2> DEFINE x == report[req[h].report].target
  <2>2. x \in Content /\ Known(x)
    BY <2>1 DEF Resolving, ReportsOK
  <2>3. Gone(x)
    BY <1>2, <2>2 DEF Reported, ForModeration, Kept, Known, Gone, RowOf, Content, FilesOK, AlbumsOK,
                      FileRow, AlbumRow
  <2>4. report'[req[h].report].target = x /\ report'[req[h].report].status # "none"
    BY <2>1 DEF Resolving, ReportsAge
  <2>5. /\ DOMAIN req'[h] = Fields /\ req'[h].step = "close" /\ req'[h].op = "resolve"
        /\ req'[h].user = req[h].user /\ req'[h].in = req[h].in /\ req'[h].report = req[h].report
    BY <1>1, <2>1 DEF Fields
  <2> HIDE DEF x
  <2>6. (Gone(report[req[h].report].target))'
    BY <2>2, <2>3, <2>4, <2>5, ContentAges DEF Gone, RowOf
  <2>7. Resolving(req[h])'
    BY <2>1, <2>4, <2>5, <2>6 DEF Resolving
  <2> QED BY <1>1, <2>1, <2>5, <2>7 DEF Handed
<1>3. CASE FindReported(h) /\ Reported(req[h].report) # {}
  <2>1. Resolving(req[h]) /\ req[h].step = "find" /\ req[h].op = "resolve"
    BY <1>3 DEF FindReported, At, Doing, RequestsOK, Handed
  <2>2. PICK x \in Reported(req[h].report) :
           req' = [req EXCEPT ![h] = [req[h] EXCEPT !.step = "delete", !.target = x]]
    BY <1>0, <1>3 DEF FindReported
  <2>3. x = report[req[h].report].target
    BY DEF Reported
  <2>4. /\ DOMAIN req'[h] = Fields /\ req'[h].step = "delete" /\ req'[h].op = "resolve"
        /\ req'[h].user = req[h].user /\ req'[h].in = req[h].in /\ req'[h].report = req[h].report
        /\ req'[h].target = x
    BY <1>0, <2>1, <2>2 DEF Fields
  <2>5. Resolving(req[h])'
    BY <2>1, <2>3, <2>4 DEF Resolving, ReportsAge
  <2> QED BY <2>2, <2>4, <2>5 DEF Handed, Asked
<1>4. ASSUME NEW x \in Content, Drop(x) PROVE (Gone(x))'
  BY <1>4 DEF Drop, DropFile, DropAlbum, Gone, RowOf, Content, FilesOK, AlbumsOK, FileRow, AlbumRow
<1>5. CASE RemoveReported(h)
  <2>1. /\ Resolving(req[h]) /\ req[h].step = "delete" /\ req[h].op = "resolve"
        /\ Goto(h, "log") /\ Drop(req[h].target)
    BY <1>5 DEF RemoveReported, At, Doing, RequestsOK, Handed
  <2>2. /\ DOMAIN req'[h] = Fields /\ req'[h].step = "log" /\ req'[h].op = "resolve"
        /\ req'[h].user = req[h].user /\ req'[h].in = req[h].in /\ req'[h].report = req[h].report
        /\ req'[h].target = req[h].target
    BY <1>1, <2>1 DEF Fields
  <2>3. req[h].target \in Content
    BY <2>1 DEF Resolving, ReportsOK
  <2>4. (Gone(req[h].target))'
    BY <1>4, <2>1, <2>2, <2>3 DEF Gone, RowOf
  <2>5. Resolving(req[h])'
    BY <2>1, <2>2, <2>4 DEF Resolving, ReportsAge
  <2> QED BY <1>1, <2>1, <2>2, <2>5 DEF Handed
<1>6. CASE LogRemoval(h)
  <2>1. /\ Resolving(req[h]) /\ req[h].step = "log" /\ req[h].op = "resolve" /\ Goto(h, "close")
    BY <1>6 DEF LogRemoval, At, Doing, RequestsOK, Handed
  <2>2. /\ DOMAIN req'[h] = Fields /\ req'[h].step = "close" /\ req'[h].op = "resolve"
        /\ req'[h].user = req[h].user /\ req'[h].in = req[h].in /\ req'[h].report = req[h].report
    BY <1>1, <2>1 DEF Fields
  <2> DEFINE x == report[req[h].report].target
  <2>3. x \in Content /\ Gone(x)
    BY <2>1 DEF Resolving, ReportsOK
  <2>4. report'[req[h].report].target = x /\ report'[req[h].report].status # "none"
    BY <2>1 DEF Resolving, ReportsAge
  <2> HIDE DEF x
  <2>5. (Gone(report[req[h].report].target))'
    BY <2>2, <2>3, <2>4, ContentAges DEF Gone, RowOf
  <2>6. Resolving(req[h])'
    BY <2>1, <2>2, <2>4, <2>5 DEF Resolving
  <2> QED BY <1>1, <2>1, <2>2, <2>6 DEF Handed
<1>7. CASE ResolveReport(h)
  <2>1. Resolving(req[h]) /\ req[h].step = "close" /\ req[h].op = "resolve"
    BY <1>7 DEF ResolveReport, At, Doing, RequestsOK, Handed
  <2>2. CASE Closable(req[h].report)
    <3>1. /\ Goto(h, "record")
          /\ report' = [report EXCEPT ![req[h].report].status = req[h].in,
                                      ![req[h].report].resolver = req[h].user]
      BY <1>7, <2>2 DEF ResolveReport
    <3>2. /\ DOMAIN req'[h] = Fields /\ req'[h].step = "record" /\ req'[h].op = "resolve"
          /\ req'[h].user = req[h].user /\ req'[h].in = req[h].in /\ req'[h].report = req[h].report
      BY <1>1, <2>1, <3>1 DEF Fields
    <3>3. report'[req[h].report].status = req[h].in /\ report'[req[h].report].resolver = req[h].user
      BY <2>1, <3>1 DEF Resolving, ReportsOK, ReportRow
    <3>4. Resolving(req[h])'
      BY <2>1, <3>2, <3>3 DEF Resolving
    <3> QED BY <1>1, <3>1, <3>2, <3>4 DEF Handed
  <2> QED BY <1>7, <2>2 DEF ResolveReport, Lost
<1>8. CASE Remove(h)
  <2>1. Removing(req[h]) /\ req[h].op = "remove"
    BY <1>8 DEF Remove, At, Doing, RequestsOK, Handed
  <2>2. CASE Drop(req[h].target) /\ Goto(h, "record")
    <3>1. /\ DOMAIN req'[h] = Fields /\ req'[h].op = "remove"
          /\ req'[h].user = req[h].user /\ req'[h].target = req[h].target
      BY <1>1, <2>1, <2>2 DEF Fields
    <3>2. (Gone(req[h].target))'
      BY <1>4, <2>1, <2>2, <3>1 DEF Removing, Gone, RowOf
    <3>3. Removing(req[h])'
      BY <2>1, <3>1, <3>2 DEF Removing
    <3> QED BY <1>1, <2>2, <3>1, <3>3 DEF Handed
  <2> QED BY <1>8, <2>2 DEF Remove
<1> QED BY <1>2, <1>3, <1>5, <1>6, <1>7, <1>8

LEMMA RequestsStep ==
  ASSUME RequestsOK, ReportsOK, FilesOK, AlbumsOK, FilesAge, AlbumsAge, ReportsAge,
         opened \subseteq opened', UNCHANGED req \/ \E h \in Requests : End(h) \/ RequestMove(h)
  PROVE  RequestsOK'
<1>1. CASE UNCHANGED req
  BY <1>1, HandedStays DEF RequestsOK
<1>2. ASSUME NEW h \in Requests, End(h) PROVE RequestsOK'
  <2>1. req' = [req EXCEPT ![h] = NoRequest] /\ DOMAIN req = Requests
    BY <1>2 DEF End, RequestsOK
  <2>2. Handed(h)'
    BY <2>1 DEF NoRequest, Handed, Fields
  <2>3. \A k \in Requests : k # h => Handed(k)'
    BY <2>1, HandedStays DEF RequestsOK
  <2> QED BY <2>1, <2>2, <2>3 DEF RequestsOK
<1>3. ASSUME NEW h \in Requests, Handed(h)', \E r : Asked(h, r) PROVE RequestsOK'
  <2>1. PICK r : req' = [req EXCEPT ![h] = r]
    BY <1>3 DEF Asked
  <2>2. \A k \in Requests : k # h => Handed(k)'
    BY <2>1, HandedStays DEF RequestsOK
  <2> QED BY <1>3, <2>1, <2>2 DEF RequestsOK
<1>4. ASSUME NEW h \in Requests, RequestMove(h) PROVE RequestsOK'
  BY <1>2, <1>3, <1>4, MemberAsks, ModeratorAsks, Moderates DEF RequestMove
<1> QED BY <1>1, <1>2, <1>4

----------------------------------------------------------------------------
(* What goes out *)

\* The strictest of the owner's choice and the albums' is no looser than the
\* owner's: whatever albums a file is in, what goes out with it its owner's
\* settings disclose.
LEMMA AlbumsOnlyTighten ==
  ASSUME NEW f \in Files, NEW row \in FileRow
  PROVE  Disclosed(f, row) \subseteq OwnerShows(row)
<1> DEFINE own == Resolve(row.metadata, row.visibility)
           place == WithFallback(row.location, own)
<1>1. own \in {"shown", "hidden"} /\ place \in {"shown", "hidden"}
  BY DEF Resolve, WithFallback, FileRow, MetadataPolicy
<1>2. ASSUME NEW S, NEW p \in {"shown", "hidden"}, Strictest({p} \cup S) = "shown" PROVE p = "shown"
  BY <1>2 DEF Strictest
<1>3. "metadata" \in Disclosed(f, row) => own = "shown"
  <2>1. EffectiveMetadataPolicies(f, row).metadata
           = Strictest({own} \cup {r.metadata : r \in AlbumsOf(f)})
    BY DEF EffectiveMetadataPolicies
  <2> HIDE DEF own
  <2> QED BY <1>1, <1>2, <2>1 DEF Disclosed
<1>4. "location" \in Disclosed(f, row) => place = "shown"
  <2>1. EffectiveMetadataPolicies(f, row).location
           = Strictest({place} \cup {WithFallback(r.location, r.metadata) : r \in AlbumsOf(f)})
    BY DEF EffectiveMetadataPolicies
  <2> HIDE DEF place
  <2> QED BY <1>1, <1>2, <2>1 DEF Disclosed
<1>5. own = "shown" => "metadata" \in OwnerShows(row)
  BY DEF Resolve, OwnerShows, Kinds, FileRow, MetadataPolicy
<1>6. place = "shown" => "location" \in OwnerShows(row)
  BY DEF Resolve, WithFallback, OwnerShows, Kinds, FileRow, MetadataPolicy
<1>7. Disclosed(f, row) \subseteq Kinds
  BY DEF Disclosed
<1> HIDE DEF own, place
<1> QED BY <1>3, <1>4, <1>5, <1>6, <1>7 DEF Kinds

LEMMA SentStep ==
  ASSUME RequestsOK, OwnersDisclose, opened \subseteq opened',
         UNCHANGED sent \/ \E h \in Requests : Send(h)
  PROVE  OwnersDisclose'
<1>1. CASE UNCHANGED sent
  BY <1>1 DEF OwnersDisclose
<1>2. ASSUME NEW h \in Requests, Send(h) PROVE OwnersDisclose'
  <2>1. Showing(req[h])
    BY <1>2 DEF Send, Doing, RequestsOK, Handed
  <2>2. \A k \in Disclosed(req[h].target, req[h].row) : <<req[h].target, k>> \in opened
    BY <2>1, AlbumsOnlyTighten DEF Showing, Opening
  <2> QED BY <1>2, <2>2 DEF Send, OwnersDisclose
<1> QED BY <1>1, <1>2

----------------------------------------------------------------------------
(* All together *)

LEMMA InitInv == Init => Inv
<1> SUFFICES ASSUME Init PROVE Inv
  OBVIOUS
<1>1. FilesOK /\ AlbumsOK /\ LabelsOK
  BY DEF Init, SharingInit, FilesOK, AlbumsOK, LabelsOK, NoFile, NoAlbum, FileRow, AlbumRow, Kept,
         ForModeration, Visibility, AlbumAccess, MetadataPolicy
<1>2. ReportsOK /\ LogOK
  BY DEF Init, NoReport, ReportsOK, ReportRow, LogOK, ActionedMeansGone
<1>3. RequestsOK
  BY DEF Init, SharingInit, RequestsOK, Handed, NoRequest, Fields
<1> QED BY <1>1, <1>2, <1>3 DEF Init, SharingInit, OwnersDisclose, Inv

LEMMA InvStep ==
  Inv /\ [Next]_vars => Inv' /\ Writes
<1> SUFFICES ASSUME Inv, [Next]_vars PROVE Inv' /\ Writes
  OBVIOUS
<1>1. Writes
  BY StepWrites DEF Inv
<1>2. FilesOK' /\ FilesAge /\ opened \subseteq opened' /\ AlbumsOK' /\ AlbumsAge /\ LabelsOK'
  BY <1>1, FilesStep, AlbumsStep, LabelsStep DEF Inv, Writes
<1>3. ReportsOK' /\ ReportsAge
  BY <1>1, <1>2, ReportsStep DEF Inv, Writes
<1> QED BY <1>1, <1>2, <1>3, RequestsStep, SentStep, LogStep DEF Inv, Writes

LEMMA AlwaysInv == Spec => []Inv
BY InitInv, InvStep, PTL DEF Spec

\* Nobody else is sent a file's metadata or coordinates unless its owner's own
\* settings disclosed them: an album's choice can hide and not show, and a handler
\* that decides on an old row sends no more than that row's settings opened.
THEOREM OwnersDiscloseAlways == Spec => []OwnersDisclose
BY AlwaysInv, PTL DEF Inv

\* Content whose report was closed as actioned is gone for good, whichever request
\* deleted it: each rests on a deletion that came first, or on what it found gone.
THEOREM ActionedContentIsGone == Spec => []ActionedMeansGone
BY AlwaysInv, PTL DEF Inv, ReportsOK

\* The moderation log tells the truth: what it calls removed is gone for good, and
\* its decisions are those the reports show, by whom they show, however many
\* moderators worked on one.
THEOREM LogTellsTheTruth == Spec => []LogIsTrue
<1>1. Inv => LogIsTrue
  BY DEF Inv, LogOK, LogIsTrue, Gone
<1> QED BY <1>1, AlwaysInv, PTL

\* How many albums are newer is a number.
LEMMA NewerCounted ==
  ASSUME NEW u \in Users, NEW a \in Albums
  PROVE  Cardinality(Newer(a, SharedWith(u))) \in Nat
<1>1. Newer(a, SharedWith(u)) \subseteq Albums
  BY DEF Newer, SharedWith
<1> QED BY <1>1, SharingAssumption, FS_Subset, FS_CardinalityType

\* Every member can find the albums that members may add to, until the page is full
\* of newer ones: two changes that were each checked against what they read do not
\* add up to an album nobody sees.
THEOREM SharedAlbumsAreFound == Spec => []SharedAlbumsFound
<1>1. AlbumsOK => SharedAlbumsFound
  <2> SUFFICES ASSUME AlbumsOK, NEW a \in Albums, NEW u \in Users, Kept(a), album[a].access = "members"
               PROVE  \/ a \in AlbumsPage(u)
                      \/ a \in SharedWith(u) /\ Cardinality(Newer(a, SharedWith(u))) >= ListLimit
    BY DEF SharedAlbumsFound
  <2>1. album[a].visibility \in {"public", "members"}
    BY DEF AlbumsOK, AlbumRow, Sensible, Visibility
  <2>2. u # Anonymous
    BY SharingAssumption
  <2>3. a \in AlbumsByUser(u) \/ a \in SharedWith(u)
    BY <2>1, <2>2 DEF AlbumsByUser, SharedWith, Owns
  <2>4. \/ Cardinality(Newer(a, SharedWith(u))) < ListLimit
        \/ Cardinality(Newer(a, SharedWith(u))) >= ListLimit
    BY NewerCounted, SharingAssumption
  <2> QED BY <2>3, <2>4 DEF AlbumsPage, AlbumsVisibleTo
<1> QED BY <1>1, AlwaysInv, PTL DEF Inv

\* A tag leaves a file only with the file or by a request that takes it away:
\* pruning unused tags takes it from nobody.
THEOREM LabelsAreKept == Spec => LabelsStay
<1>1. Inv /\ [Next]_vars =>
        [\A l \in labels \ labels' :
            \/ file'[l[1]].state = "gone"
            \/ \E h \in Requests : req[h].op = "unlabel" /\ req[h].target = l[1] /\ req[h].in = l[2]]_svars
  BY InvStep, LabelsStep DEF Inv, Writes
<1> QED BY <1>1, AlwaysInv, PTL DEF Spec, LabelsStay

\* What leaves for good was asked to be removed, or was reported: a moderator who
\* acts on a report deletes what was reported and nothing else.
LEMMA RemovalStep ==
  ASSUME Inv, Writes, NEW x \in Content, RowOf(x).state = "kept", (RowOf(x)).state' = "gone"
  PROVE  Requested(x)
<1>1. CASE x \in Files
  <2>1. /\ file \in [Files -> FileRow] /\ x \in Files
        /\ file[x].state = "kept" /\ file'[x].state = "gone"
    BY <1>1 DEF Inv, FilesOK, RowOf
  <2>2. ASSUME NEW f \in Files, NEW u \in Everyone, Upload(f, u) PROVE FALSE
    BY <2>1, <2>2 DEF Upload
  <2>3. ASSUME NEW h \in Requests, UpdateFile(h) PROVE FALSE
    <3>1. req[h].target \in Files /\ req[h].patch \in FilePatches
      BY <2>3 DEF UpdateFile, Doing, Inv, RequestsOK, Handed, Changing
    <3> DEFINE f == req[h].target
               row == MergeFile(req[h].patch, file[f])
    <3>2. row.state = file[f].state
      BY <2>1, <3>1, Merged
    <3>3. file' = [file EXCEPT ![f] = row] \/ file' = file
      BY <2>3 DEF UpdateFile
    <3> HIDE DEF f, row
    <3> QED BY <2>1, <3>2, <3>3
  <2>4. ASSUME NEW u \in Users, NEW S \in SUBSET Files, NEW v \in Levels, SetFilesVisibility(u, S, v)
        PROVE  FALSE
    BY <2>1, <2>4 DEF SetFilesVisibility, FileRow
  <2>5. ASSUME NEW f \in Files, TrashFile(f) \/ RestoreTrashedFile(f) PROVE FALSE
    BY <2>1, <2>5 DEF TrashFile, RestoreTrashedFile, FileRow
  <2>6. ASSUME NEW f \in Files, DropFile(f), Requested(f) \/ file[f].state = "trashed" PROVE Requested(x)
    BY <2>1, <2>6 DEF DropFile
  <2> QED BY <2>1, <2>2, <2>3, <2>4, <2>5, <2>6 DEF Writes, FileWrite
<1>2. CASE x \notin Files
  <2>1. /\ album \in [Albums -> AlbumRow] /\ x \in Albums
        /\ album[x].state = "kept" /\ album'[x].state = "gone"
    BY <1>2 DEF Inv, AlbumsOK, RowOf, Content
  <2>2. ASSUME NEW a \in Albums, NEW u \in Users, NEW title \in Titles,
               \/ CreateAlbum(a, u, title)
               \/ \E S \in SUBSET Files : CreateAlbumWithFiles(a, u, S, title)
        PROVE  FALSE
    <3>1. \E row : AddAlbum(a, row)
      BY <2>2 DEF CreateAlbum, CreateAlbumWithFiles
    <3> QED BY <2>1, <3>1, SharingAssumption DEF AddAlbum
  <2>3. ASSUME NEW h \in Requests, UpdateAlbum(h) PROVE FALSE
    <3>1. Patching(req[h])
      BY <2>3 DEF UpdateAlbum, Inv, RequestsOK, Handed
    <3>2. album' = album \/ album' = [album EXCEPT ![req[h].target] = req[h].row]
      BY <2>3 DEF UpdateAlbum, Written
    <3> QED BY <2>1, <3>1, <3>2 DEF Patching
  <2>4. ASSUME NEW a \in Albums, DropAlbum(a), Requested(a) PROVE Requested(x)
    BY <2>1, <2>4 DEF DropAlbum
  <2> QED BY <2>1, <2>2, <2>3, <2>4 DEF Writes, AlbumWrite
<1> QED BY <1>1, <1>2

\* Content leaves for good by a request about that very content, or a report
\* somebody made of it: no report is taken to mean another album.
THEOREM RemovalsWereReported == Spec => RemovalsAreReported
<1>1. Inv /\ [Next]_vars =>
        [\A x \in Content :
            (RowOf(x).state = "kept" /\ RowOf(x)'.state = "gone") =>
                \E h \in Requests :
                    \/ req[h].op = "remove" /\ req[h].target = x
                    \/ req[h].op = "resolve" /\ report[req[h].report].target = x]_vars
  BY InvStep, RemovalStep DEF Requested
<1> QED BY <1>1, AlwaysInv, PTL DEF Spec, RemovalsAreReported

----------------------------------------------------------------------------
(* Who is listed what *)

\* The clause that lists files and the check that opens one agree, for everybody
\* but staff, who may open more.
LEMMA ClauseAgrees ==
  ASSUME NEW u \in Everyone, NEW row
  PROVE  /\ VisibilityClause(u, row) => CanView(u, row)
         /\ ~CanModerate(u) /\ CanView(u, row) => VisibilityClause(u, row)
<1>1. Anonymous \notin Users
  BY SharingAssumption
<1> QED BY <1>1 DEF VisibilityClause, CanView, CanViewVisibility, CanDelete, Owns

\* Every listing names only files that the viewer may open, a tag is named to those
\* who may open a file under it, and the counts agree with what is shown (an album's
\* for those who may open all of it), in every state the tables can be in.
THEOREM ListingsAlwaysAgree == Spec => []ListingsAgree
<1>1. ListingsAgree
  <2> SUFFICES ASSUME NEW u \in Everyone
      PROVE  LET open == {f \in Files : Viewable(u, f)}
                 listed ==
                     UNION ({AlbumPage(u, a) \cup GetAlbum(u, a) \cup Library(u, a) \cup Preview(a) : a \in Albums}
                            \cup {TagPage(u, t) : t \in TagIds}
                            \cup {Recent(u), Gallery(u)} \cup {FavoritesPage(u) : w \in Users \cap {u}})
             IN /\ listed \subseteq open
                /\ ~CanModerate(u) => Recent(u) = open
                /\ \A t \in TagIndex(u) : Carrying(t) \cap open # {}
                /\ ~CanModerate(u) => \A t \in TagIds : TagCount(u, t) = Cardinality(Carrying(t) \cap open)
                /\ \A a \in Albums :
                      ~CanModerate(u) /\ CanView(u, album[a]) /\ {f \in Members(a) : Found(f)} \subseteq open
                          => FileCount(a) = Cardinality(AlbumPage(u, a))
    BY DEF ListingsAgree
  <2> DEFINE open == {f \in Files : Viewable(u, f)}
  <2>1. \A S \in SUBSET Files : ListFiles(u, S) \subseteq open
    BY ClauseAgrees DEF ListFiles, Viewable
  <2>2. Gallery(u) \subseteq open
    BY DEF Gallery, Viewable, CanView, CanDelete
  <2>3. \A a \in Albums : Preview(a) \subseteq open
    BY DEF Preview, Members, Viewable, CanView, CanViewVisibility
  <2>4. \A a \in Albums : AlbumPage(u, a) \subseteq open /\ GetAlbum(u, a) \subseteq open
    <3>1. \A a \in Albums : Members(a) \in SUBSET Files
      BY DEF Members
    <3> HIDE DEF open
    <3> QED BY <2>1, <3>1 DEF AlbumPage, GetAlbum
  <2>5. \A a \in Albums : Library(u, a) \subseteq open
    BY <2>2 DEF Library
  <2>6. \A t \in TagIds : TagPage(u, t) \subseteq open /\ TagPage(u, t) \subseteq Carrying(t)
    <3>1. \A t \in TagIds : Carrying(t) \in SUBSET Files
      BY DEF Carrying
    <3> HIDE DEF open
    <3> QED BY <2>1, <3>1 DEF TagPage, ListFiles
  <2>7. Recent(u) \subseteq open /\ (~CanModerate(u) => Recent(u) = open)
    BY ClauseAgrees DEF Recent, ListFiles, Viewable
  <2>8. FavoritesPage(u) \subseteq open
    <3>1. CASE CanModerate(u)
      BY <3>1 DEF FavoritesPage, Viewable, CanView, CanDelete
    <3>2. CASE ~CanModerate(u)
      <4>1. {f \in Files : <<u, f>> \in favorites} \in SUBSET Files
        OBVIOUS
      <4> HIDE DEF open
      <4> QED BY <2>1, <3>2, <4>1 DEF FavoritesPage
    <3> QED BY <3>1, <3>2
  <2>9. \A t \in TagIndex(u) : Carrying(t) \cap open # {}
    <3> HIDE DEF open
    <3> QED BY <2>6 DEF TagIndex
  <2>11. ASSUME ~CanModerate(u), NEW S \in SUBSET Files
         PROVE  ListFiles(u, S) = S \cap open
    BY <2>11, ClauseAgrees DEF ListFiles, Viewable
  <2>12. ASSUME ~CanModerate(u), NEW t \in TagIds
         PROVE  TagCount(u, t) = Cardinality(Carrying(t) \cap open)
    <3>1. Carrying(t) \in SUBSET Files
      BY DEF Carrying
    <3> HIDE DEF open
    <3> QED BY <2>11, <2>12, <3>1 DEF TagCount, TagPage
  <2>13. ASSUME NEW a \in Albums, ~CanModerate(u), CanView(u, album[a]),
                {f \in Members(a) : Found(f)} \subseteq open
         PROVE  FileCount(a) = Cardinality(AlbumPage(u, a))
    <3>1. Members(a) \in SUBSET Files
      BY DEF Members
    <3>2. ListFiles(u, Members(a)) = Members(a) \cap open
      BY <2>11, <2>13, <3>1
    <3>3. {f \in Members(a) : Found(f)} = Members(a) \cap open
      BY <2>13 DEF Viewable
    <3> HIDE DEF open
    <3> QED BY <2>13, <3>2, <3>3 DEF FileCount, AlbumPage
  <2> HIDE DEF open
  <2>10. UNION ({AlbumPage(u, a) \cup GetAlbum(u, a) \cup Library(u, a) \cup Preview(a) : a \in Albums}
                \cup {TagPage(u, t) : t \in TagIds}
                \cup {Recent(u), Gallery(u)} \cup {FavoritesPage(u) : w \in Users \cap {u}}) \subseteq open
    BY <2>2, <2>3, <2>4, <2>5, <2>6, <2>7, <2>8
  <2> QED BY <2>7, <2>9, <2>10, <2>12, <2>13 DEF open
<1> QED BY <1>1, PTL
=============================================================================
