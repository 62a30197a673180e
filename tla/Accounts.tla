------------------------------ MODULE Accounts ------------------------------
(***************************************************************************)
(* Imvault's accounts and invitations: who is an administrator, who may    *)
(* invite, which codes admit, and the handlers that change these.          *)
(*                                                                         *)
(* A handler reads the account behind its session (sessionMW), then the    *)
(* account it is about (UserByID) or the code it was given (admit), then   *)
(* writes in one transaction.  The three are steps, so what it has read    *)
(* may be old when it writes; what the transaction reads again is not.     *)
(***************************************************************************)
EXTENDS Integers, FiniteSets

CONSTANTS
    Accounts,       \* ids of users; AUTOINCREMENT never reuses one
    Codes,          \* ids of invites; no row of them is ever deleted
    Handlers,       \* requests under way
    MostUses,       \* maxInviteUses
    DelegatedUses,  \* MaxDelegatedInviteUses
    Roles,          \* models.Role
    Delegation,     \* whether members are given invitation access here
    None            \* no account, no code

ASSUME AccountsAssumption ==
    /\ IsFiniteSet(Accounts)
    /\ MostUses \in Nat
    /\ DelegatedUses \in 1..MostUses
    /\ {"member", "admin"} \subseteq Roles
    /\ Delegation \in BOOLEAN
    /\ None \notin Accounts \cup Codes

VARIABLES
    users,    \* rows of users, and of those deleted the code they came by
    invites,  \* rows of invites
    pc,       \* what each handler does next
    task      \* its form and what it has read

vars == <<users, invites, pc, task>>
handlers == <<pc, task>>

\* How long a code lasts: without end, beyond what a member may grant, within
\* it, or over.
Lives == {"forever", "long", "short", "lapsed"}

Blank == [row |-> "unused", role |-> "member", disabled |-> FALSE,
          canInvite |-> FALSE, code |-> None]
Unminted == [minted |-> FALSE, by |-> None, max |-> 0, uses |-> 0,
             revoked |-> FALSE, life |-> "forever"]
NoTask == [op |-> "none", me |-> None, admin |-> FALSE, target |-> None,
           code |-> None, role |-> "member"]

\* What an administrator does to an account.
AdminOps == {"disable", "role", "access", "delete"}

Stored(a) == users[a].row = "stored"
IsAdmin(a) == users[a].role = "admin"
EnabledAdmins == {a \in Accounts : Stored(a) /\ IsAdmin(a) /\ ~users[a].disabled}

\* inviteIssuerRole, and the condition of RevokeInviteByCreator.
MayIssue(a) == Stored(a) /\ ~users[a].disabled /\ (IsAdmin(a) \/ users[a].canInvite)

\* Mutant: protectEnabledAdmin counts disabled administrators too.
LastAdminOfAll(a) ==
    /\ a \in EnabledAdmins
    /\ Cardinality({b \in Accounts : Stored(b) /\ IsAdmin(b)}) <= 1

\* protectEnabledAdmin refuses: a is the last enabled administrator.
LastAdmin(a) == a \in EnabledAdmins /\ Cardinality(EnabledAdmins) <= 1

\* Invite.Usable: what admit looks at.
Usable(c) ==
    /\ ~invites[c].revoked
    /\ invites[c].life # "lapsed"
    /\ invites[c].max = 0 \/ invites[c].uses < invites[c].max

\* Mutant: redemption trusts the check admit made.
RedeemChecked(c) == invites[c].by # None /\ ~users[invites[c].by].disabled

\* Mutant: redemption leaves the issuer to the revocation of codes.
RedeemAnyIssuer(c) == Usable(c)

\* The WHERE clause of redeemInvite.
Redeemable(c) ==
    /\ Usable(c)
    /\ invites[c].by # None
    /\ ~users[invites[c].by].disabled

\* Mutant: an account's codes keep admitting without it.
KeepOpenOf(a) == invites

\* revokeOpenInvitesByCreator
RevokeOpenOf(a) ==
    [c \in Codes |-> IF invites[c].by = a THEN [invites[c] EXCEPT !.revoked = TRUE]
                                          ELSE invites[c]]

\* ON DELETE SET NULL
Orphaned(rows, a) ==
    [c \in Codes |-> IF rows[c].by = a THEN [rows[c] EXCEPT !.by = None] ELSE rows[c]]

Init ==
    /\ users = [a \in Accounts |-> Blank]
    /\ invites = [c \in Codes |-> Unminted]
    /\ pc = [p \in Handlers |-> "idle"]
    /\ task = [p \in Handlers |-> NoTask]

-----------------------------------------------------------------------------
(* Requests.  What a form says is chosen in the step that first looks at   *)
(* it; a task holds what a handler has read and still uses.                *)

\* A request begins with the account of its session as it is now.
Begin(p, step, read) ==
    /\ pc[p] = "idle"
    /\ pc' = [pc EXCEPT ![p] = step]
    /\ task' = [task EXCEPT ![p] = read]
    /\ UNCHANGED <<users, invites>>

\* The handler returns.
Done(p) ==
    /\ pc' = [pc EXCEPT ![p] = "idle"]
    /\ task' = [task EXCEPT ![p] = NoTask]

\* sessionMW takes a disabled account for nobody.
SignedIn(a) == Stored(a) /\ ~users[a].disabled

\* requireAdmin
AskAdmin(p) ==
    \E a \in Accounts :
        /\ SignedIn(a) /\ IsAdmin(a)
        /\ Begin(p, "load", [NoTask EXCEPT !.me = a])

\* handleAccountDelete, once the password and code it asks for are right.
AskLeave(p) ==
    \E a \in Accounts :
        /\ SignedIn(a)
        /\ Begin(p, "write", [NoTask EXCEPT !.op = "delete", !.target = a])

\* requireAdmin or requireInviter, before handleCreateInvite or
\* handleRevokeInvite.
AskInvites(p) ==
    \E a \in Accounts, op \in {"issue", "revoke"} :
        /\ SignedIn(a) /\ MayIssue(a)
        /\ Begin(p, "write", [NoTask EXCEPT !.op = op, !.me = a, !.admin = IsAdmin(a)])

\* admit lets a registration go on: with a code that looks usable, or without
\* one where the instance is open.
AskRegister(p) ==
    \E c \in Codes \cup {None} :
        /\ c # None => invites[c].minted /\ Usable(c)
        /\ Begin(p, "write", [NoTask EXCEPT !.op = "register", !.code = c])

-----------------------------------------------------------------------------
(* The administrator's handlers *)

Writes(p, op) == pc[p] = "write" /\ task[p].op = op

\* What a handler refuses on the row it has read.
Refused(op, me, t, role) ==
    \/ ~Stored(t)
    \/ op \in {"disable", "delete"} /\ t = me
    \/ op = "role" /\ role = users[t].role
    \/ op = "role" /\ t = me /\ role # "admin"
    \/ op = "access" /\ IsAdmin(t)

\* The handler reads its target, and goes on.
Load(p) ==
    /\ pc[p] = "load"
    /\ \E op \in AdminOps, t \in Accounts, role \in Roles :
          /\ op # "role" => role = "member"
          /\ op = "access" => Delegation
          /\ ~Refused(op, task[p].me, t, role)
          /\ task' = [task EXCEPT ![p] = [NoTask EXCEPT !.op = op, !.target = t, !.role = role]]
    /\ pc' = [pc EXCEPT ![p] = "write"]
    /\ UNCHANGED <<users, invites>>

SetUserDisabled(p) ==
    LET t == task[p].target IN
    /\ Writes(p, "disable")
    /\ Stored(t)
    /\ \E disabled \in BOOLEAN :
          /\ disabled => ~LastAdmin(t)
          /\ users' = [users EXCEPT ![t].disabled = disabled]
    /\ Done(p)
    /\ UNCHANGED invites

SetUserRole(p) ==
    LET t == task[p].target IN
    /\ Writes(p, "role")
    /\ Stored(t)
    /\ task[p].role # "admin" => ~LastAdmin(t)
    /\ users' = [users EXCEPT ![t].role = task[p].role]
    /\ Done(p)
    /\ UNCHANGED invites

SetUserInvitePermission(p) ==
    LET t == task[p].target IN
    /\ Writes(p, "access")
    /\ Stored(t) /\ ~IsAdmin(t)
    /\ \E allowed \in BOOLEAN :
          /\ users' = [users EXCEPT ![t].canInvite = allowed]
          /\ invites' = IF allowed THEN invites ELSE RevokeOpenOf(t)
    /\ Done(p)

\* handleAdminDeleteUser and handleAccountDelete end in this transaction.
DeleteUser(p) ==
    LET t == task[p].target IN
    /\ Writes(p, "delete")
    /\ Stored(t) /\ ~LastAdmin(t)
    /\ users' = [users EXCEPT ![t] = [Blank EXCEPT !.row = "deleted", !.code = users[t].code]]
    /\ invites' = Orphaned(RevokeOpenOf(t), t)
    /\ Done(p)

-----------------------------------------------------------------------------
(* Codes *)

\* Zero is without limit.
FormUses == 0..MostUses

\* What parseInviteForm lets through, by the role the session's account had.
FormAllows(admin, n, life) ==
    admin \/ (n \in 1..DelegatedUses /\ life = "short")

\* Mutant: the transaction believes the form.
StoreTrusts(me, n, life) == TRUE

\* What CreateInvite's transaction lets through, by the role of the row now.
StoreAllows(me, n, life) ==
    IsAdmin(me) \/ (n \in 1..DelegatedUses /\ life # "long")

CreateInvite(p) ==
    LET me == task[p].me IN
    /\ Writes(p, "issue")
    /\ MayIssue(me)
    /\ \E c \in Codes, n \in FormUses, life \in Lives \ {"lapsed"} :
          /\ ~invites[c].minted
          /\ FormAllows(task[p].admin, n, life)
          /\ StoreAllows(me, n, life)
          /\ invites' = [invites EXCEPT ![c] =
                [Unminted EXCEPT !.minted = TRUE, !.by = me, !.max = n,
                    !.life = IF ~IsAdmin(me) /\ life = "forever" THEN "short" ELSE life]]
    /\ Done(p)
    /\ UNCHANGED users

\* An administrator's request revokes any code; a member's its own, while it
\* may still issue.
RevokeInvite(p) ==
    LET me == task[p].me IN
    /\ Writes(p, "revoke")
    /\ \E c \in Codes :
          /\ invites[c].minted
          /\ task[p].admin \/ (invites[c].by = me /\ MayIssue(me))
          /\ invites' = [invites EXCEPT ![c].revoked = TRUE]
    /\ Done(p)
    /\ UNCHANGED users

\* createUser gives the account the next id.
Joins(a, role, c) ==
    /\ users[a].row = "unused"
    /\ users' = [users EXCEPT ![a] = [Blank EXCEPT !.row = "stored", !.role = role, !.code = c]]

\* CreateUser, without a code.
Register(p) ==
    /\ Writes(p, "register") /\ task[p].code = None
    /\ \E a \in Accounts : Joins(a, "member", None)
    /\ Done(p)
    /\ UNCHANGED invites

\* RegisterWithInvite, and CreateUserWithIdentity with a code.
RegisterWithInvite(p) ==
    LET c == task[p].code IN
    /\ Writes(p, "register") /\ c # None
    /\ Redeemable(c)
    /\ invites' = [invites EXCEPT ![c].uses = @ + 1]
    /\ \E a \in Accounts : Joins(a, "member", c)
    /\ Done(p)

\* The handler refuses, its transaction finds the row gone, the username taken
\* or a condition not met, a statement fails, or the client goes away: the
\* transaction rolls back and nothing has changed.
GiveUp(p) ==
    /\ pc[p] # "idle"
    /\ Done(p)
    /\ UNCHANGED <<users, invites>>

-----------------------------------------------------------------------------

\* imvault create-admin
CreateAdmin ==
    /\ \E a \in Accounts : Joins(a, "admin", None)
    /\ UNCHANGED <<invites, handlers>>

\* The deadline of an open code passes.
Lapse(c) ==
    /\ invites[c].minted /\ ~invites[c].revoked
    /\ invites[c].life \in {"long", "short"}
    /\ invites' = [invites EXCEPT ![c].life = "lapsed"]
    /\ UNCHANGED <<users, handlers>>

Step(p) ==
    \/ AskAdmin(p) \/ AskLeave(p) \/ AskInvites(p) \/ AskRegister(p)
    \/ Load(p)
    \/ SetUserDisabled(p) \/ SetUserRole(p) \/ SetUserInvitePermission(p) \/ DeleteUser(p)
    \/ CreateInvite(p) \/ RevokeInvite(p)
    \/ Register(p) \/ RegisterWithInvite(p)
    \/ GiveUp(p)

Next ==
    \/ \E p \in Handlers : Step(p)
    \/ CreateAdmin
    \/ \E c \in Codes : Lapse(c)

Spec == Init /\ [][Next]_vars

-----------------------------------------------------------------------------
(* Properties *)

\* Rows, tasks and steps are of their shapes.
UserRow == [row : {"unused", "stored", "deleted"}, role : Roles, disabled : BOOLEAN,
            canInvite : BOOLEAN, code : Codes \cup {None}]
InviteRow == [minted : BOOLEAN, by : Accounts \cup {None}, max : 0..MostUses, uses : Nat,
              revoked : BOOLEAN, life : Lives]
Task == [op : AdminOps \cup {"none", "issue", "revoke", "register"},
         me : Accounts \cup {None}, admin : BOOLEAN,
         target : Accounts \cup {None}, code : Codes \cup {None}, role : Roles]
TypeOK ==
    /\ users \in [Accounts -> UserRow]
    /\ invites \in [Codes -> InviteRow]
    /\ pc \in [Handlers -> {"idle", "load", "write"}]
    /\ task \in [Handlers -> Task]

\* The accounts that came by a code, the deleted ones included.
CameBy(c) == {a \in Accounts : users[a].row # "unused" /\ users[a].code = c}

\* A code's uses are the accounts it admitted and no more than it may admit:
\* a refused registration costs none, and two people racing for the last use
\* do not both get in (RegisterWithInvite, redeemInvite).
UsesExact ==
    \A c \in Codes :
        /\ invites[c].uses = Cardinality(CameBy(c))
        /\ invites[c].max # 0 => invites[c].uses <= invites[c].max

\* An instance with an enabled administrator keeps one, whoever demotes,
\* disables or deletes whom at the same time (protectEnabledAdmin).
AdminRemains == [][EnabledAdmins # {} => EnabledAdmins' # {}]_vars

\* A code admits somebody only while it is not revoked or over, and its issuer
\* exists and is enabled, whatever the registration had seen before; and a
\* revoked code stays revoked, whoever is given access again.
AdmitsWhileOpen(c) ==
    /\ invites'[c].uses # invites[c].uses =>
          /\ ~invites[c].revoked /\ invites[c].life # "lapsed"
          /\ invites[c].by \in Accounts
          /\ SignedIn(invites[c].by)
    /\ invites[c].revoked => invites'[c].revoked

CodesAdmitWhileOpen == [][\A c \in Codes : AdmitsWhileOpen(c)]_vars

\* A code nobody has revoked has a stored issuer: deleting an account takes
\* its codes along, also one that was minted while the account was going
\* (DeleteUser).
CodesHaveIssuers ==
    \A c \in Codes :
        invites[c].minted /\ ~invites[c].revoked =>
            invites[c].by \in Accounts /\ Stored(invites[c].by)

\* A code minted by somebody who is no administrator at that moment is of few
\* uses and a bounded life, whatever role the request began with.
MintedBounded(c) ==
    invites'[c].minted /\ ~invites[c].minted =>
        \/ IsAdmin(invites'[c].by)
        \/ invites'[c].max \in 1..DelegatedUses /\ invites'[c].life = "short"

DelegationBounded == [][\A c \in Codes : MintedBounded(c)]_vars
=============================================================================
