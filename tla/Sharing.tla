------------------------------- MODULE Sharing -------------------------------
(***************************************************************************)
(* What members share: files and albums at their levels, who may add to an *)
(* album, the ceilings albums put on metadata and location, tags in their  *)
(* namespaces, favourites and linked discussions.                          *)
(*                                                                         *)
(* A handler reads a row, decides by it, and writes by the row's id later; *)
(* what it read is in req until then, and other requests run in between.   *)
(* The bulk operations check and write in one transaction.  The bytes,     *)
(* quotas and expiry of files are in ContentStore, accounts and roles in   *)
(* Accounts: here an account and its role stay.                            *)
(***************************************************************************)
EXTENDS Integers, FiniteSets

CONSTANTS
    Users, Role,            \* accounts, and the role of each
    Files, Albums, TagIds,  \* row ids, never used twice; an album's grows with time
    Titles, Names, Links,   \* album titles, tag names, discussion URLs
    Levels, Policies,       \* the visibilities and metadata policies in play
    FilePatches,            \* what a change of a file may give, Nil being left alone
    AlbumPatches,           \* and of an album
    ListLimit,              \* how many of others' albums a page lists: 100
    Requests,               \* requests in flight
    Anonymous,              \* a visitor, and the owner of an anonymous upload
    Nil

Visibility == {"private", "members", "public"}
MetadataPolicy == {"inherit", "shown", "hidden"}
AlbumAccess == {"owner", "members"}
Everyone == Users \cup {Anonymous}
Kinds == {"metadata", "location"}

ASSUME SharingAssumption ==
    /\ Role \in [Users -> {"member", "moderator", "admin"}]
    /\ IsFiniteSet(Files) /\ IsFiniteSet(Albums) /\ Albums \subseteq Nat /\ ListLimit \in Nat
    /\ Levels \subseteq Visibility /\ Policies \subseteq MetadataPolicy
    /\ FilePatches \subseteq [visibility : Levels \cup {Nil},
                             metadata : Policies \cup {Nil}, location : Policies \cup {Nil}]
    /\ AlbumPatches \subseteq [visibility : Levels \cup {Nil}, access : AlbumAccess \cup {Nil},
                              metadata : Policies \cup {Nil}, location : Policies \cup {Nil}]
    /\ Anonymous \notin Users
    /\ Nil \notin Everyone \cup Files \cup Albums \cup TagIds
    /\ Nil \notin Visibility \cup MetadataPolicy \cup AlbumAccess
    /\ Files \cap Albums = {}

VARIABLES
    file, album,     \* rows: none yet, kept, in the trash, or gone
    filed,           \* album_files
    tag, labels,     \* rows of tags, and file_tags
    favorites, discussions,
    req

\* What has been possible or has happened, for the properties.
VARIABLES
    opened,    \* what owners' own settings of their files have disclosed
    sent       \* what has been sent to others

fileVars == <<file, opened, sent>>
albumVars == <<album, discussions>>
tagVars == <<tag, labels>>
svars == <<fileVars, albumVars, filed, tagVars, favorites, req>>

NoFile == [state |-> "none", owner |-> Nil, visibility |-> "private",
           metadata |-> "inherit", location |-> "inherit"]
NoAlbum == [state |-> "none", owner |-> Nil, slug |-> Nil, visibility |-> "private",
            access |-> "owner", metadata |-> "inherit", location |-> "inherit"]
NoTag == [state |-> "none", owner |-> Nil, name |-> Nil]

Found(f) == file[f].state = "kept"                    \* FileByID
ForModeration(f) == file[f].state \in {"kept", "trashed"}
Kept(a) == album[a].state = "kept"
Tagged(t) == tag[t].state = "kept"

----------------------------------------------------------------------------
(* Who may do what; row is a file's or an album's *)

Owns(u, row) == u # Anonymous /\ row.owner = u
IsAdmin(u) == u # Anonymous /\ Role[u] = "admin"
CanModerate(u) == u # Anonymous /\ Role[u] \in {"moderator", "admin"}
CanViewVisibility(u, level) == level = "public" \/ (level = "members" /\ u # Anonymous)
CanChange(u, row) == Owns(u, row) \/ IsAdmin(u)
CanDelete(u, row) == Owns(u, row) \/ CanModerate(u)
CanView(u, row) == CanViewVisibility(u, row.visibility) \/ CanDelete(u, row)
CanContribute(u, row) ==
    CanChange(u, row) \/ (u # Anonymous /\ row.access = "members" /\ CanView(u, row))

\* What a handler loads before it does anything.
Viewable(u, f) == Found(f) /\ CanView(u, file[f])
Changeable(u, f) == Found(f) /\ CanChange(u, file[f])
Administerable(u, a) == Kept(a) /\ CanChange(u, album[a])
Contributable(u, a) == Kept(a) /\ CanContribute(u, album[a])

\* Nobody files another's uploads, administrators included.
MayFile(u, row) == Owns(u, row)

\* The SQL that lists files is another account of who may see them.
\* Mutant: a signed-in viewer's clause for everybody.
VisibleToMember(u, row) == row.visibility \in {"public", "members"} \/ row.owner = u
VisibilityClause(u, row) ==
    IF u = Anonymous THEN row.visibility = "public"
    ELSE row.visibility \in {"public", "members"} \/ row.owner = u
ListFiles(u, S) == {f \in S : Found(f) /\ VisibilityClause(u, file[f])}
Members(a) == {f \in Files : <<a, f>> \in filed}
Carrying(t) == {f \in Files : <<f, t>> \in labels}

AlbumPage(u, a) == IF CanView(u, album[a]) THEN ListFiles(u, Members(a)) ELSE {}
GetAlbum(u, a) == IF CanChange(u, album[a]) THEN ListFiles(u, Members(a)) ELSE {}
TagPage(u, t) == ListFiles(u, Carrying(t))
Recent(u) == ListFiles(u, Files)
Gallery(u) == {f \in Files : Found(f) /\ Owns(u, file[f])}
Library(u, a) == IF CanChange(u, album[a]) THEN Gallery(u) \cap Members(a) ELSE {}
FavoritesPage(u) ==
    LET saved == {f \in Files : <<u, f>> \in favorites} IN
    IF CanModerate(u) THEN {f \in saved : Found(f)} ELSE ListFiles(u, saved)

\* What a discussion server is told of an album counts its public files.
Preview(a) == {f \in Members(a) : album[a].visibility = "public" /\ Found(f) /\ file[f].visibility = "public"}
TagIndex(u) == {t \in TagIds : Tagged(t) /\ TagPage(u, t) # {}}

\* What is counted: a tag's files through the clause (ListTags, CountTagVisibleTo),
\* an album's without it (albumColumns).
TagCount(u, t) == Cardinality(TagPage(u, t))
FileCount(a) == Cardinality({f \in Members(a) : Found(f)})

AlbumsByUser(u) == {a \in Albums : Kept(a) /\ Owns(u, album[a])}
SharedWith(u) ==
    {a \in Albums : Kept(a) /\ album[a].owner # u /\ album[a].visibility \in {"public", "members"}}
Newer(a, S) == {b \in S : b > a}

\* The newest of them: there is no second page.
AlbumsVisibleTo(u) == {a \in SharedWith(u) : Cardinality(Newer(a, SharedWith(u))) < ListLimit}
AlbumsPage(u) == AlbumsByUser(u) \cup AlbumsVisibleTo(u)

----------------------------------------------------------------------------
(* Metadata policies *)

Resolve(policy, visibility) ==
    IF policy # "inherit" THEN policy
    ELSE IF visibility = "public" THEN "hidden" ELSE "shown"
WithFallback(policy, fallback) == IF policy = "inherit" THEN fallback ELSE policy
\* Mutant: an album's explicit choice outranks the file's.
Loosest(S) ==
    IF "shown" \in S THEN "shown" ELSE IF "hidden" \in S THEN "hidden" ELSE "inherit"
Strictest(S) ==
    IF "hidden" \in S THEN "hidden" ELSE IF "shown" \in S THEN "shown" ELSE "inherit"

AlbumsOf(f) == {album[a] : a \in {b \in Albums : <<b, f>> \in filed}}

\* The file's own choice as read, and the albums it is in by now.
EffectiveMetadataPolicies(f, row) ==
    LET own == Resolve(row.metadata, row.visibility) IN
    [metadata |-> Strictest({own} \cup {r.metadata : r \in AlbumsOf(f)}),
     location |-> Strictest({WithFallback(row.location, own)}
                     \cup {WithFallback(r.location, r.metadata) : r \in AlbumsOf(f)})]

Disclosed(f, row) == {k \in Kinds : EffectiveMetadataPolicies(f, row)[k] = "shown"}

\* What the owner's settings disclose by themselves.
OwnerShows(row) ==
    LET kept == row.visibility # "public" IN
    {k \in Kinds :
        \/ row[k] = "shown"
        \/ k = "metadata" /\ row.metadata = "inherit" /\ kept
        \/ k = "location" /\ row.location = "inherit"
           /\ (row.metadata = "shown" \/ (row.metadata = "inherit" /\ kept))}
Opening(f, row) == {<<f, k>> : k \in OwnerShows(row)}

----------------------------------------------------------------------------
(* Requests *)

NoRequest == [op |-> "none", step |-> "none", user |-> Nil, target |-> Nil, in |-> Nil,
              row |-> Nil, patch |-> Nil, report |-> Nil]
Request(op, u, x) == [NoRequest EXCEPT !.op = op, !.user = u, !.target = x]
Begin(h, r) == req[h] = NoRequest /\ req' = [req EXCEPT ![h] = r]
End(h) == req' = [req EXCEPT ![h] = NoRequest]
Doing(h, op) == req[h].op = op

\* A field the request gives, or leaves alone.
Coalesce(new, old) == IF new = Nil THEN old ELSE new
MergeFile(patch, row) ==
    [row EXCEPT !.visibility = Coalesce(patch.visibility, @),
                !.metadata = Coalesce(patch.metadata, @),
                !.location = Coalesce(patch.location, @)]
MergeAlbum(patch, row) ==
    [row EXCEPT !.visibility = Coalesce(patch.visibility, @),
                !.access = Coalesce(patch.access, @),
                !.metadata = Coalesce(patch.metadata, @),
                !.location = Coalesce(patch.location, @)]

\* albumVisibilityError
Sensible(row) == ~(row.access = "members" /\ row.visibility = "private")

----------------------------------------------------------------------------
(* Files *)

\* An upload's row (its bytes are ContentStore's).
Upload(f, u) ==
    /\ file[f].state = "none"
    /\ \E v \in Levels, m, l \in Policies :
          LET row == [state |-> "kept", owner |-> u, visibility |-> v, metadata |-> m, location |-> l]
          IN /\ file' = [file EXCEPT ![f] = row]
             /\ opened' = opened \cup Opening(f, row)
    /\ UNCHANGED <<sent, albumVars, filed, tagVars, favorites, req>>

AskChange(h) ==
    /\ \E u \in Users, f \in Files :
          /\ Changeable(u, f)
          /\ \E patch \in FilePatches :
                /\ \E k \in DOMAIN patch : patch[k] # Nil
                /\ Begin(h, [Request("change", u, f) EXCEPT !.patch = patch])
    /\ UNCHANGED <<fileVars, albumVars, filed, tagVars, favorites>>

\* One statement changes what was supplied, of a row in the trash too.
UpdateFile(h) ==
    LET f == req[h].target IN
    /\ Doing(h, "change")
    /\ IF ForModeration(f)
       THEN /\ file' = [file EXCEPT ![f] = MergeFile(req[h].patch, @)]
            /\ opened' = opened \cup Opening(f, file'[f])
       ELSE UNCHANGED <<file, opened>>
    /\ End(h)
    /\ UNCHANGED <<sent, albumVars, filed, tagVars, favorites>>

\* withOwnedFiles: all of the selection, or none.
OwnSelection(u, S) == S # {} /\ \A f \in S : Found(f) /\ Owns(u, file[f])

SetFilesVisibility(u, S, v) ==
    /\ OwnSelection(u, S)
    /\ file' = [f \in Files |-> IF f \in S THEN [file[f] EXCEPT !.visibility = v] ELSE file[f]]
    /\ opened' = opened \cup UNION {Opening(f, file'[f]) : f \in S}
    /\ UNCHANGED <<sent, albumVars, filed, tagVars, favorites, req>>

\* A page, a download or the API reads the file and decides who is asking...
AskShow(h) ==
    /\ \E u \in Everyone, f \in Files :
          /\ Viewable(u, f)
          /\ Begin(h, [Request("show", u, f) EXCEPT !.row = file[f]])
    /\ UNCHANGED <<fileVars, albumVars, filed, tagVars, favorites>>

\* ... and then what goes out with it.
Send(h) ==
    LET r == req[h] IN
    /\ Doing(h, "show")
    /\ sent' = IF CanChange(r.user, r.row) THEN sent
               ELSE sent \cup {<<r.target, k>> : k \in Disclosed(r.target, r.row)}
    /\ End(h)
    /\ UNCHANGED <<file, opened, albumVars, filed, tagVars, favorites>>

----------------------------------------------------------------------------
(* Albums *)

\* A slug comes from the title, with a suffix when another album has it.
Taken(slug) == \E b \in Albums : Kept(b) /\ album[b].slug = slug
SlugFor(a, title) == IF Taken(<<title, Nil>>) THEN <<title, a>> ELSE <<title, Nil>>

NewAlbum(a, u, title) ==
    [NoAlbum EXCEPT !.state = "kept", !.owner = u, !.slug = SlugFor(a, title)]
AddAlbum(a, row) ==
    /\ \A b \in Albums : b >= a => album[b].state = "none"
    /\ album' = [album EXCEPT ![a] = row]
    /\ UNCHANGED discussions

CreateAlbum(a, u, title) ==
    /\ \E patch \in AlbumPatches :
          LET row == MergeAlbum(patch, NewAlbum(a, u, title)) IN
          /\ Sensible(row)
          /\ AddAlbum(a, row)
    /\ UNCHANGED <<fileVars, filed, tagVars, favorites, req>>

CreateAlbumWithFiles(a, u, S, title) ==
    /\ OwnSelection(u, S)
    /\ AddAlbum(a, NewAlbum(a, u, title))
    /\ filed' = filed \cup ({a} \X S)
    /\ UNCHANGED <<fileVars, tagVars, favorites, req>>

\* The row to write is put together from the row as read...
AskPatch(h) ==
    /\ \E u \in Users, a \in Albums :
          /\ Administerable(u, a)
          /\ \E patch \in AlbumPatches :
                LET row == MergeAlbum(patch, album[a]) IN
                /\ Sensible(row)
                /\ Begin(h, [Request("patch", u, a) EXCEPT !.row = row, !.patch = patch])
    /\ UNCHANGED <<fileVars, albumVars, filed, tagVars, favorites>>

\* The page's form gives every field but the location: what it lacks is closed.
AskEdit(h) ==
    /\ \E u \in Users, a \in Albums :
          /\ Administerable(u, a)
          /\ \E patch \in AlbumPatches :
                LET row == MergeAlbum(patch, [album[a] EXCEPT
                              !.visibility = "private", !.access = "owner", !.metadata = "inherit"])
                IN /\ Sensible(row)
                   /\ Begin(h, [Request("edit", u, a) EXCEPT !.row = row, !.patch = patch])
    /\ UNCHANGED <<fileVars, albumVars, filed, tagVars, favorites>>

\* ... and the whole of it is written.
\* Mutant: only the fields that were supplied.
WrittenFields(a, r) == MergeAlbum(r.patch, album[a])
Written(a, r) == r.row

UpdateAlbum(h) ==
    LET a == req[h].target IN
    /\ req[h].op \in {"patch", "edit"}
    /\ IF Kept(a)
       THEN album' = [album EXCEPT ![a] = Written(a, req[h])]
       ELSE UNCHANGED album
    /\ End(h)
    /\ UNCHANGED <<discussions, fileVars, filed, tagVars, favorites>>

\* One of the files a form or an upload names: the album was read first.
AskFile(h) ==
    /\ \E u \in Users, a \in Albums, f \in Files :
          /\ Contributable(u, a)
          /\ Begin(h, [Request("file", u, f) EXCEPT !.in = a])
    /\ UNCHANGED <<fileVars, albumVars, filed, tagVars, favorites>>

\* (The look at the file and the insert are one step here.)
AddFileToAlbum(h) ==
    LET r == req[h] IN
    /\ Doing(h, "file")
    /\ filed' = IF Found(r.target) /\ MayFile(r.user, file[r.target]) /\ Kept(r.in)
                THEN filed \cup {<<r.in, r.target>>} ELSE filed
    /\ End(h)
    /\ UNCHANGED <<fileVars, albumVars, tagVars, favorites>>

\* The statement asks again who may add.
AddFilesToAlbum(u, S, a) ==
    /\ OwnSelection(u, S)
    /\ Kept(a)
    /\ \/ album[a].owner = u
       \/ album[a].access = "members" /\ album[a].visibility \in {"public", "members"}
       \/ Role[u] = "admin"
    /\ filed' = filed \cup ({a} \X S)
    /\ UNCHANGED <<fileVars, albumVars, tagVars, favorites, req>>

AskUnfile(h) ==
    /\ \E u \in Users, a \in Albums, f \in Files :
          /\ Contributable(u, a)
          /\ CanDelete(u, album[a]) \/ (Found(f) /\ file[f].owner = u)
          /\ Begin(h, [Request("unfile", u, f) EXCEPT !.in = a])
    /\ UNCHANGED <<fileVars, albumVars, filed, tagVars, favorites>>

RemoveFileFromAlbum(h) ==
    /\ Doing(h, "unfile")
    /\ filed' = filed \ {<<req[h].in, req[h].target>>}
    /\ End(h)
    /\ UNCHANGED <<fileVars, albumVars, tagVars, favorites>>

\* The statement itself asks whose album it is.
LinkAlbumDiscussion(u, a, link, remove) ==
    /\ Kept(a) /\ album[a].owner = u
    /\ discussions' = IF remove THEN discussions \ {<<a, link>>} ELSE discussions \cup {<<a, link>>}
    /\ UNCHANGED <<album, fileVars, filed, tagVars, favorites, req>>

----------------------------------------------------------------------------
(* Tags and favourites *)

\* The namespace of a file's tags is its owner, whoever tags it.
TagOwner(u, row) == row.owner

\* The tag of a name in a namespace: the row there is, or a new one.
TagFor(t, owner, name) ==
    LET same == {x \in TagIds : Tagged(x) /\ tag[x].owner = owner /\ tag[x].name = name} IN
    IF same # {} THEN t \in same /\ UNCHANGED tag
    ELSE /\ tag[t].state = "none"
         /\ tag' = [tag EXCEPT ![t] = [state |-> "kept", owner |-> owner, name |-> name]]

AskLabel(h) ==
    /\ \E u \in Users, f \in Files, n \in Names :
          /\ Changeable(u, f)
          /\ Begin(h, [Request("label", u, f) EXCEPT !.in = n, !.row = TagOwner(u, file[f])])
    /\ UNCHANGED <<fileVars, albumVars, filed, tagVars, favorites>>

AddTag(h) ==
    LET r == req[h] IN
    /\ Doing(h, "label") /\ ForModeration(r.target)
    /\ \E t \in TagIds : TagFor(t, r.row, r.in) /\ labels' = labels \cup {<<r.target, t>>}
    /\ End(h)
    /\ UNCHANGED <<fileVars, albumVars, filed, favorites>>

AddTagsToFiles(u, S, n) ==
    /\ OwnSelection(u, S)
    /\ \E t \in TagIds : TagFor(t, u, n) /\ labels' = labels \cup (S \X {t})
    /\ UNCHANGED <<fileVars, albumVars, filed, favorites, req>>

\* The id is one the page showed, which may be of a tag that is gone by now.
AskUnlabel(h) ==
    /\ \E u \in Users, f \in Files, t \in TagIds :
          /\ Changeable(u, f) /\ tag[t].state # "none"
          /\ Begin(h, [Request("unlabel", u, f) EXCEPT !.in = t])
    /\ UNCHANGED <<fileVars, albumVars, filed, tagVars, favorites>>

\* A tag goes with its last file; the files still under a tag that goes lose it.
\* Mutant: the tag goes with any file.
UnusedAlways(t, L) == TRUE
Unused(t, L) == \A f \in Files : <<f, t>> \notin L
PruneFrom(S, L) ==
    LET gone == {t \in S : Tagged(t) /\ Unused(t, L)} IN
    /\ tag' = [t \in TagIds |-> IF t \in gone THEN [tag[t] EXCEPT !.state = "gone"] ELSE tag[t]]
    /\ labels' = {l \in L : l[2] \notin gone}

RemoveTag(h) ==
    /\ Doing(h, "unlabel")
    /\ PruneFrom({req[h].in}, labels \ {<<req[h].target, req[h].in>>})
    /\ End(h)
    /\ UNCHANGED <<fileVars, albumVars, filed, favorites>>

PruneUnusedTags ==
    /\ PruneFrom(TagIds, labels)
    /\ UNCHANGED <<fileVars, albumVars, filed, favorites, req>>

AskFavorite(h) ==
    /\ \E u \in Users, f \in Files, on \in BOOLEAN :
          /\ Viewable(u, f)
          /\ Begin(h, [Request("favorite", u, f) EXCEPT !.in = on])
    /\ UNCHANGED <<fileVars, albumVars, filed, tagVars, favorites>>

SetFavorite(h) ==
    LET r == req[h] IN
    /\ Doing(h, "favorite")
    /\ favorites' = IF ~r.in THEN favorites \ {<<r.user, r.target>>}
                    ELSE IF ForModeration(r.target) THEN favorites \cup {<<r.user, r.target>>}
                    ELSE favorites
    /\ End(h)
    /\ UNCHANGED <<fileVars, albumVars, filed, tagVars>>

----------------------------------------------------------------------------
(* Rows that go take what refers to them along *)

DropFile(f) ==
    /\ file' = [file EXCEPT ![f].state = "gone"]
    /\ filed' = {m \in filed : m[2] # f}
    /\ labels' = {l \in labels : l[1] # f}
    /\ favorites' = {s \in favorites : s[2] # f}
    /\ UNCHANGED <<opened, sent, albumVars, tag>>

DropAlbum(a) ==
    /\ album' = [album EXCEPT ![a].state = "gone"]
    /\ filed' = {m \in filed : m[1] # a}
    /\ discussions' = {d \in discussions : d[1] # a}
    /\ UNCHANGED <<fileVars, tagVars, favorites>>

TrashFile(f) ==
    /\ file' = IF Found(f) THEN [file EXCEPT ![f].state = "trashed"] ELSE file
    /\ UNCHANGED <<opened, sent, albumVars, filed, tagVars, favorites>>

RestoreTrashedFile(f) ==
    /\ file[f].state = "trashed"
    /\ file' = [file EXCEPT ![f].state = "kept"]
    /\ UNCHANGED <<opened, sent, albumVars, filed, tagVars, favorites, req>>

PurgeTrashedFile(f) ==
    /\ file[f].state = "trashed"
    /\ DropFile(f)
    /\ UNCHANGED req

\* A statement fails, the client goes, the server stops.
Fail(h) ==
    /\ req[h] # NoRequest
    /\ End(h)
    /\ UNCHANGED <<fileVars, albumVars, filed, tagVars, favorites>>

----------------------------------------------------------------------------
(* All of it *)

SharingInit ==
    /\ file = [f \in Files |-> NoFile]
    /\ album = [a \in Albums |-> NoAlbum]
    /\ tag = [t \in TagIds |-> NoTag]
    /\ filed = {} /\ labels = {} /\ favorites = {} /\ discussions = {}
    /\ req = [h \in Requests |-> NoRequest]
    /\ opened = {} /\ sent = {}

FileStep ==
    \/ \E f \in Files : (\E u \in Everyone : Upload(f, u)) \/ RestoreTrashedFile(f) \/ PurgeTrashedFile(f)
    \/ \E u \in Users, S \in SUBSET Files, v \in Levels : SetFilesVisibility(u, S, v)
    \/ \E h \in Requests : AskChange(h) \/ UpdateFile(h)

AlbumStep ==
    \/ \E a \in Albums, u \in Users, title \in Titles :
          \/ CreateAlbum(a, u, title)
          \/ \E S \in SUBSET Files : CreateAlbumWithFiles(a, u, S, title)
    \/ \E a \in Albums, u \in Users :
          \/ \E S \in SUBSET Files : AddFilesToAlbum(u, S, a)
          \/ \E link \in Links, remove \in BOOLEAN : LinkAlbumDiscussion(u, a, link, remove)
    \/ \E h \in Requests :
          \/ AskPatch(h) \/ AskEdit(h) \/ UpdateAlbum(h)
          \/ AskFile(h) \/ AddFileToAlbum(h)
          \/ AskUnfile(h) \/ RemoveFileFromAlbum(h)

ShowStep == \E h \in Requests : AskShow(h) \/ Send(h)

TagStep ==
    \/ \E h \in Requests :
          \/ AskLabel(h) \/ AddTag(h) \/ AskUnlabel(h) \/ RemoveTag(h)
          \/ AskFavorite(h) \/ SetFavorite(h)
    \/ \E u \in Users, S \in SUBSET Files, n \in Names : AddTagsToFiles(u, S, n)
    \/ PruneUnusedTags

FailStep == \E h \in Requests : Fail(h)

----------------------------------------------------------------------------
(* Properties *)

\* An album shared with the members can be found by them until the page is full of
\* newer ones.  Every change is checked against the row it was read from
\* (albumVisibilityError), and two changes in flight, each sensible by itself, must
\* not add up to one that is not.  (The comment of AlbumsVisibleTo has no "until":
\* with more than ListLimit albums, the oldest are reached by their links alone.)
SharedAlbumsFound ==
    \A a \in Albums, u \in Users :
        Kept(a) /\ album[a].access = "members" =>
            \/ a \in AlbumsPage(u)
            \/ a \in SharedWith(u) /\ Cardinality(Newer(a, SharedWith(u))) >= ListLimit

\* Nobody else is sent a file's EXIF or coordinates unless its owner's own
\* settings disclosed them at some time, whatever albums it was put into and
\* whatever their owners chose (EffectiveMetadataPolicies).
OwnersDisclose == sent \subseteq opened

\* The listings, the tag index, the counts and the checks of single files agree:
\* everybody is listed only what canViewFile lets them open, a tag is named to those
\* who can open a file under it and its count says how many (visibilityClause's
\* comment, store.go:152-156; staff may open more than they are listed).  An album's
\* own count does not go through the clause: it agrees with the page only for those
\* who may open everything in the album.
ListingsAgree ==
    \A u \in Everyone :
        LET open == {f \in Files : Viewable(u, f)}
            listed ==
                UNION ({AlbumPage(u, a) \cup GetAlbum(u, a) \cup Library(u, a) \cup Preview(a) : a \in Albums}
                       \cup {TagPage(u, t) : t \in TagIds}
                       \cup {Recent(u), Gallery(u)} \cup {FavoritesPage(u) : w \in Users \cap {u}})
        IN
        /\ listed \subseteq open
        /\ ~CanModerate(u) => Recent(u) = open
        /\ \A t \in TagIndex(u) : Carrying(t) \cap open # {}
        /\ ~CanModerate(u) => \A t \in TagIds : TagCount(u, t) = Cardinality(Carrying(t) \cap open)
        /\ \A a \in Albums :
              ~CanModerate(u) /\ CanView(u, album[a]) /\ {f \in Members(a) : Found(f)} \subseteq open
                  => FileCount(a) = Cardinality(AlbumPage(u, a))

\* A tag leaves a file only with the file, or because a request took it from that
\* very file: pruning an unused tag takes it from nobody (RemoveTag).
LabelsStay ==
    [][\A l \in labels \ labels' :
          \/ file'[l[1]].state = "gone"
          \/ \E h \in Requests : req[h].op = "unlabel" /\ req[h].target = l[1] /\ req[h].in = l[2]]_svars

\* A change of an album leaves the fields it does not supply as they are
\* (apiPatchAlbum's comment, api_albums.go:199-200).
OmittedFieldsStay ==
    [][\A h \in Requests, a \in Albums :
          (req[h].op = "patch" /\ req[h].target = a /\ req'[h] = NoRequest /\ album[a] # album'[a])
          => \A k \in DOMAIN req[h].patch : req[h].patch[k] = Nil => album'[a][k] = album[a][k]]_svars
=============================================================================
