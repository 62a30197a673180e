----------------------------- MODULE Moderation ------------------------------
(***************************************************************************)
(* Reports about what members share, the removals that answer them, and    *)
(* the log of both, over the files and albums of Sharing.                  *)
(*                                                                         *)
(* A moderator works a report in five statements: it is read, its target   *)
(* is looked up and deleted, the removal is logged, the report is closed,  *)
(* and the decision is logged.  Other moderators, the owner and the        *)
(* server's death come in between.                                         *)
(***************************************************************************)
EXTENDS Sharing

CONSTANT Reports    \* report ids

VARIABLES
    report,    \* the reports
    modlog     \* what the moderation log says

mvars == <<report, modlog>>
vars == <<svars, mvars>>

NoReport == [status |-> "none", reporter |-> Nil, target |-> Nil, resolver |-> Nil]
Entry(action, actor, x, r) == [action |-> action, actor |-> actor, target |-> x, report |-> r]

Content == Files \cup Albums
RowOf(x) == IF x \in Files THEN file[x] ELSE album[x]
Shown(x) == RowOf(x).state = "kept"

\* Where a report's target is now.  An owner's Trash does not hide a file from
\* staff, and an album is found by its id: its slug may be another's by now.
\* Mutants: a file in the trash counts as gone; an album is found by its slug.
ReportedShown(r) == {report[r].target} \cap {x \in Content : Shown(x)}
ReportedSlug(r) ==
    LET x == report[r].target IN
    IF x \in Files THEN {f \in {x} : ForModeration(f)}
    ELSE {a \in Albums : Kept(a) /\ album[a].slug = album[x].slug}
Reported(r) ==
    LET x == report[r].target IN
    IF x \in Files THEN {f \in {x} : ForModeration(f)} ELSE {a \in {x} : Kept(a)}

----------------------------------------------------------------------------
(* Reporting *)

AskReport(h) ==
    /\ \E u \in Users, x \in Content :
          /\ Shown(x) /\ CanView(u, RowOf(x))
          /\ ~Owns(u, RowOf(x)) /\ ~CanModerate(u)
          /\ Begin(h, Request("report", u, x))
    /\ UNCHANGED <<fileVars, albumVars, filed, tagVars, favorites, mvars>>

\* One open report of an account about a target: the index refuses a second.
CreateReport(h) ==
    LET u == req[h].user
        x == req[h].target
        open == {r \in Reports : report[r].status = "open" /\ report[r].reporter = u /\ report[r].target = x}
    IN
    /\ Doing(h, "report")
    /\ IF open # {} THEN UNCHANGED report
       ELSE \E r \in Reports :
               /\ report[r] = NoReport
               /\ report' = [report EXCEPT ![r] =
                                [status |-> "open", reporter |-> u, target |-> x, resolver |-> Nil]]
    /\ End(h)
    /\ UNCHANGED <<fileVars, albumVars, filed, tagVars, favorites, modlog>>

----------------------------------------------------------------------------
(* Resolving *)

At(h, op, step) == Doing(h, op) /\ req[h].step = step
Goto(h, step) == req' = [req EXCEPT ![h].step = step]

\* in is the verdict asked for.
AskResolve(h) ==
    /\ \E u \in Users, r \in Reports :
          /\ CanModerate(u) /\ report[r].status = "open"
          /\ \/ Begin(h, [Request("resolve", u, report[r].target) EXCEPT
                             !.step = "find", !.in = "actioned", !.report = r])
             \/ Begin(h, [Request("resolve", u, report[r].target) EXCEPT
                             !.step = "close", !.in = "dismissed", !.report = r])
    /\ UNCHANGED <<fileVars, albumVars, filed, tagVars, favorites, mvars>>

\* What is gone already is what the moderator wanted.
FindReported(h) ==
    LET found == Reported(req[h].report) IN
    /\ At(h, "resolve", "find")
    /\ IF found = {} THEN Goto(h, "close")
       ELSE \E x \in found : req' = [req EXCEPT ![h].step = "delete", ![h].target = x]
    /\ UNCHANGED <<fileVars, albumVars, filed, tagVars, favorites, mvars>>

\* By id, there or not.
Drop(x) == IF x \in Files THEN DropFile(x) ELSE DropAlbum(x)

RemoveReported(h) ==
    /\ At(h, "resolve", "delete")
    /\ Drop(req[h].target)
    /\ Goto(h, "log")
    /\ UNCHANGED mvars

\* A log line that cannot be written fails nothing.
LogRemoval(h) ==
    /\ At(h, "resolve", "log")
    /\ \/ modlog' = modlog \cup {Entry("removed", req[h].user, req[h].target, Nil)}
       \/ UNCHANGED modlog
    /\ Goto(h, "close")
    /\ UNCHANGED <<fileVars, albumVars, filed, tagVars, favorites, report>>

\* The statement closes a report that is open.
Closable(r) == report[r].status = "open"

\* Another moderator got there first.
\* Mutant: the decision is logged all the same.
LostToOther(h) == Goto(h, "record")
Lost(h) == End(h)

ResolveReport(h) ==
    LET r == req[h].report IN
    /\ At(h, "resolve", "close")
    /\ IF Closable(r)
       THEN /\ report' = [report EXCEPT ![r].status = req[h].in, ![r].resolver = req[h].user]
            /\ Goto(h, "record")
       ELSE Lost(h) /\ UNCHANGED report
    /\ UNCHANGED <<fileVars, albumVars, filed, tagVars, favorites, modlog>>

RecordDecision(h) ==
    /\ At(h, "resolve", "record")
    /\ modlog' = modlog \cup {Entry(req[h].in, req[h].user, report[req[h].report].target, req[h].report)}
    /\ End(h)
    /\ UNCHANGED <<fileVars, albumVars, filed, tagVars, favorites, report>>

----------------------------------------------------------------------------
(* Deleting without a report *)

AskRemove(h) ==
    /\ \E u \in Users, x \in Content :
          /\ Shown(x) /\ CanDelete(u, RowOf(x))
          /\ Begin(h, [Request("remove", u, x) EXCEPT !.step = "delete"])
    /\ UNCHANGED <<fileVars, albumVars, filed, tagVars, favorites, mvars>>

\* An owner's file goes to the trash; what staff removes goes for good.
Remove(h) ==
    LET x == req[h].target
        own == Owns(req[h].user, RowOf(x))
    IN
    /\ At(h, "remove", "delete")
    /\ IF own /\ x \in Files THEN TrashFile(x) ELSE Drop(x)
    /\ IF own THEN End(h) ELSE Goto(h, "record")
    /\ UNCHANGED mvars

RecordRemoval(h) ==
    /\ At(h, "remove", "record")
    /\ modlog' = modlog \cup {Entry("removed", req[h].user, req[h].target, Nil)}
    /\ End(h)
    /\ UNCHANGED <<fileVars, albumVars, filed, tagVars, favorites, report>>

----------------------------------------------------------------------------
(* All of it *)

ModerationStep ==
    \E h \in Requests :
        \/ AskReport(h) \/ CreateReport(h)
        \/ AskResolve(h) \/ FindReported(h) \/ RemoveReported(h)
        \/ LogRemoval(h) \/ ResolveReport(h) \/ RecordDecision(h)
        \/ AskRemove(h) \/ Remove(h) \/ RecordRemoval(h)

Init == SharingInit /\ report = [r \in Reports |-> NoReport] /\ modlog = {}
Next ==
    \/ (FileStep \/ AlbumStep \/ ShowStep \/ TagStep \/ FailStep) /\ UNCHANGED mvars
    \/ ModerationStep
Spec == Init /\ [][Next]_vars

----------------------------------------------------------------------------
(* Properties *)

\* A report closed as actioned means its content is gone for good, whichever
\* moderator or owner deleted it: it is not in a trash to be restored from
\* (FileForModeration's comment, trash.go:15-17).
ActionedMeansGone ==
    \A r \in Reports : report[r].status = "actioned" => RowOf(report[r].target).state = "gone"

\* What the moderation log says is so: what it calls removed is gone, and a
\* decision it records is the one the report shows, by the moderator it shows,
\* so two moderators on one report leave one decision (recordModeration).
LogIsTrue ==
    \A e \in modlog :
        IF e.action = "removed" THEN RowOf(e.target).state = "gone"
        ELSE /\ report[e.report].status = e.action
             /\ report[e.report].resolver = e.actor
             /\ report[e.report].target = e.target

\* Content leaves for good by a request about that very content, its purge, or a
\* report somebody made of it: a report is never taken to mean the next album
\* with the same slug (handleReport's comment, handlers_moderation.go:134-137).
RemovalsAreReported ==
    [][\A x \in Content :
          (RowOf(x).state = "kept" /\ RowOf(x)'.state = "gone") =>
              \E h \in Requests :
                  \/ req[h].op = "remove" /\ req[h].target = x
                  \/ req[h].op = "resolve" /\ report[req[h].report].target = x]_vars
=============================================================================
