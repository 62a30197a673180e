---------------------------- MODULE MCModeration -----------------------------
(* Small instances of Moderation for TLC.  What shares state is explored      *)
(* together, in four parts: albums and who adds to them, what goes out with a *)
(* file, tags and favourites, and moderation; Fail belongs to all four.       *)
EXTENDS Moderation, TLC

VARIABLE focus

CONSTANTS ann, bob, mod, adm, f1, f2, a1, a2, t1, t2, t3, r1, r2, h1, h2, anyone

Roles == (ann :> "member") @@ (bob :> "member") @@ (mod :> "moderator") @@ (adm :> "admin")

\* One field of a file; the visibility and access of an album, or its policies.
FileFields(vs, ms, ls) == [visibility : vs, metadata : ms, location : ls]
AFilePatch ==
    FileFields(Levels, {Nil}, {Nil}) \cup FileFields({Nil}, Policies, {Nil})
    \cup FileFields({Nil}, {Nil}, Policies)
AlbumFields(vs, as, ms, ls) == [visibility : vs, access : as, metadata : ms, location : ls]
AnAlbumPatch ==
    AlbumFields(Levels \cup {Nil}, AlbumAccess \cup {Nil}, {Nil}, {Nil})
    \cup AlbumFields({"members"}, {"members"}, {"inherit", "shown"}, {"inherit"})
    \cup AlbumFields({"members"}, {"members"}, {"inherit"}, {"shown"})
    \cup AlbumFields({"members"}, {"members"}, {"hidden"}, {"hidden"})

Symmetric == Permutations(Requests)

\* Who takes part, how much there is, and what stays at its default.  In "albums" the
\* second album is only there to push the first off the others' pages.
Focuses == {"albums", "show", "tags", "saved", "moderation"}
Cast(part) ==
    CASE part = "albums" -> {ann, bob, adm}
      [] part = "tags" -> {ann, adm}
      [] part = "moderation" -> {ann, bob, mod, adm}
      [] OTHER -> {ann, bob}
Used(table) == {i \in DOMAIN table : table[i].state # "none"}
Plain(row) == row.metadata = "inherit" /\ row.location = "inherit"
NewFiles ==
    IF Used(file) = {} THEN {f1} ELSE IF focus = "tags" /\ Used(file) = {f1} THEN {f2} ELSE {}
NewAlbums ==
    IF Used(album) = {} THEN {a1} ELSE IF focus \in {"albums", "moderation"} /\ Used(album) = {a1} THEN {a2} ELSE {}

FilesWithin ==
    \A f \in Used(file') :
        LET row == file'[f] IN
        /\ row.owner = Anonymous => focus = "tags"
        /\ focus # "show" => Plain(row)
        /\ focus = "show" => row.visibility # "private"
        /\ focus \in {"albums", "tags", "moderation"} => row.visibility = "members"
        /\ focus \in {"show", "saved", "moderation"} => row.owner = ann

AlbumsWithin ==
    /\ focus = "moderation" => Used(file') = {} \/ Used(album') = {}
    /\ \A a \in Used(album') :
          LET row == album'[a] IN
          /\ focus # "show" => Plain(row)
          /\ focus = "albums" => row.visibility # "public"
          /\ focus = "albums" /\ a = a2 =>
                row.owner = adm /\ row.visibility = "members" /\ row.access = "owner" /\ Members(a)' = {}
          /\ focus = "show" => row.visibility = "members" /\ row.access = "members" /\ row.owner = bob
          /\ focus \in {"saved", "moderation"} => row.visibility = "members" /\ row.access = "owner"
          /\ focus = "moderation" => row.owner = ann

RequestsWithin ==
    /\ Cardinality({h \in Requests : req'[h].op = "show"}) <= 1
    /\ Cardinality({h \in Requests : req'[h].op \in {"change", "file", "unfile"}}) <= 1
    /\ \A h \in Requests :
          LET r == req'[h] IN
          /\ r.user \in Cast(focus) \cup {Nil}
          /\ r.op = "remove" => r.user # adm
          /\ r.op = "show" => r.user # r.row.owner
          /\ focus = "albums" => a2 \notin {r.target, r.in}
          /\ r.op \in {"patch", "edit"} => r.patch.metadata = Nil /\ r.row.visibility # "public"

AlbumFocus(h) ==
    \/ AskFile(h) \/ AddFileToAlbum(h) \/ AskUnfile(h) \/ RemoveFileFromAlbum(h)
    \/ focus = "albums" /\ (AskPatch(h) \/ AskEdit(h) \/ UpdateAlbum(h))
ShowFocus(h) == AskShow(h) \/ Send(h) \/ AskChange(h) \/ UpdateFile(h)
TagFocus(h) == AskLabel(h) \/ AddTag(h) \/ AskUnlabel(h) \/ RemoveTag(h)
SavedFocus(h) == AskFavorite(h) \/ SetFavorite(h)

Bulk(w, S) ==
    \/ focus = "saved" /\ \E l \in Levels : SetFilesVisibility(w, S, l)
    \/ focus # "tags" /\ \E a \in Used(album) : AddFilesToAlbum(w, S, a)
    \/ focus # "tags" /\ \E a \in NewAlbums, title \in Titles : CreateAlbumWithFiles(a, w, S, title)
    \/ focus = "tags" /\ \E n \in Names : AddTagsToFiles(w, S, n)

NextFocus ==
    /\ UNCHANGED focus
    /\ \/ /\ UNCHANGED mvars
          /\ \/ FailStep
             \/ \E f \in NewFiles, w \in Cast(focus) \cup {Anonymous} : Upload(f, w)
             \/ focus # "moderation" /\ \E w \in Cast(focus), S \in SUBSET Used(file) : Bulk(w, S)
             \/ focus # "tags" /\ \E a \in NewAlbums, w \in Cast(focus), title \in Titles : CreateAlbum(a, w, title)
             \/ \E h \in Requests :
                   \/ focus \in {"albums", "show"} /\ AlbumFocus(h)
                   \/ focus = "show" /\ ShowFocus(h)
                   \/ focus = "tags" /\ TagFocus(h)
                   \/ focus = "saved" /\ SavedFocus(h)
             \/ focus = "tags" /\ PruneUnusedTags
             \/ /\ focus = "saved"
                /\ \E w \in Users, a \in Used(album), link \in Links, remove \in BOOLEAN :
                      LinkAlbumDiscussion(w, a, link, remove)
             \/ focus = "moderation" /\ \E f \in Files : RestoreTrashedFile(f) \/ PurgeTrashedFile(f)
       \/ focus = "moderation" /\ ModerationStep
    /\ FilesWithin /\ AlbumsWithin /\ RequestsWithin
    /\ Used(tag') \in {{}, {t1}, TagIds}
    /\ report'[r2] # NoReport => report'[r1] # NoReport /\ Used(album') = {}
InitFocus == Init /\ focus \in Focuses
SpecFocus == InitFocus /\ [][NextFocus]_<<vars, focus>>
=============================================================================
