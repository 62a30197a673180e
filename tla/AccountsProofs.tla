--------------------------- MODULE AccountsProofs ---------------------------
(***************************************************************************)
(* Proofs about accounts and invitations, for any number of accounts,      *)
(* codes and handlers: an enabled administrator is always left, a code's   *)
(* uses are the accounts it admitted, and a code admits nobody once it is  *)
(* revoked, over or without an enabled issuer.                             *)
(***************************************************************************)
EXTENDS Accounts, FiniteSetTheorems, TLAPS

-----------------------------------------------------------------------------
(* Types *)

\* The tables are empty and every handler is idle.
LEMMA InitTyped == Init => TypeOK
BY AccountsAssumption
DEF Init, TypeOK, UserRow, InviteRow, Task, Blank, Unminted, NoTask, Lives, AdminOps

\* A handler that returns has no task.
LEMMA DoneTyped ==
  ASSUME TypeOK, NEW p \in Handlers, Done(p)
  PROVE  pc' \in [Handlers -> {"idle", "load", "write"}] /\ task' \in [Handlers -> Task]
<1>1. NoTask \in Task
  BY AccountsAssumption DEF NoTask, Task, AdminOps
<1> QED BY <1>1 DEF TypeOK, Done

\* Revoking and orphaning an account's codes leaves rows.
LEMMA CodesTyped ==
  ASSUME TypeOK, NEW a
  PROVE  /\ RevokeOpenOf(a) \in [Codes -> InviteRow]
         /\ Orphaned(RevokeOpenOf(a), a) \in [Codes -> InviteRow]
<1>1. RevokeOpenOf(a) \in [Codes -> InviteRow]
  BY DEF TypeOK, RevokeOpenOf, InviteRow
<1>2. ASSUME NEW rows \in [Codes -> InviteRow] PROVE Orphaned(rows, a) \in [Codes -> InviteRow]
  BY <1>2 DEF Orphaned, InviteRow
<1> QED BY <1>1, <1>2

\* A request starts with a well-typed task.
LEMMA BeginTyped ==
  ASSUME TypeOK, NEW p \in Handlers,
         AskAdmin(p) \/ AskLeave(p) \/ AskInvites(p) \/ AskRegister(p)
  PROVE  TypeOK'
<1>1. ASSUME NEW step \in {"load", "write"}, NEW read \in Task, Begin(p, step, read)
      PROVE  TypeOK'
  BY <1>1 DEF TypeOK, Begin
<1>2. CASE AskAdmin(p)
  BY <1>1, <1>2, AccountsAssumption DEF AskAdmin, NoTask, Task, AdminOps
<1>3. CASE AskLeave(p)
  BY <1>1, <1>3, AccountsAssumption DEF AskLeave, NoTask, Task, AdminOps
<1>4. CASE AskInvites(p)
  <2>1. PICK a \in Accounts, op \in {"issue", "revoke"} :
           Begin(p, "write", [NoTask EXCEPT !.op = op, !.me = a, !.admin = IsAdmin(a)])
    BY <1>4 DEF AskInvites
  <2>2. IsAdmin(a) \in BOOLEAN
    BY DEF IsAdmin
  <2>3. [NoTask EXCEPT !.op = op, !.me = a, !.admin = IsAdmin(a)] \in Task
    BY <2>2, AccountsAssumption DEF NoTask, Task, AdminOps
  <2> QED BY <1>1, <2>1, <2>3
<1>5. CASE AskRegister(p)
  BY <1>1, <1>5, AccountsAssumption DEF AskRegister, NoTask, Task, AdminOps
<1> QED BY <1>2, <1>3, <1>4, <1>5

\* A new account is a row.
LEMMA JoinsTyped ==
  ASSUME TypeOK, NEW a \in Accounts, NEW role \in Roles, NEW c \in Codes \cup {None},
         Joins(a, role, c)
  PROVE  users' \in [Accounts -> UserRow]
BY AccountsAssumption DEF TypeOK, Joins, Blank, UserRow

\* A handler that mints or revokes knows who asks, and one that changes an
\* account which.
TasksFit ==
  \A p \in Handlers :
     /\ task[p].op \in {"issue", "revoke"} => task[p].me # None
     /\ task[p].op \in AdminOps => task[p].target # None

\* A handler's transaction commits and the handler returns.
LEMMA CommitTyped ==
  ASSUME TypeOK, NEW p \in Handlers, Done(p),
         users' \in [Accounts -> UserRow], invites' \in [Codes -> InviteRow]
  PROVE  TypeOK'
BY DoneTyped DEF TypeOK

\* One row of users is written.
LEMMA UserWrites ==
  ASSUME TypeOK, NEW t
  PROVE  /\ \A b \in BOOLEAN : [users EXCEPT ![t].disabled = b] \in [Accounts -> UserRow]
         /\ \A r \in Roles : [users EXCEPT ![t].role = r] \in [Accounts -> UserRow]
         /\ \A b \in BOOLEAN : [users EXCEPT ![t].canInvite = b] \in [Accounts -> UserRow]
<1>1. users \in [Accounts -> UserRow]
  BY DEF TypeOK
<1>2. ASSUME NEW b \in BOOLEAN, NEW row \in UserRow PROVE [row EXCEPT !.disabled = b] \in UserRow
  BY DEF UserRow
<1>3. ASSUME NEW r \in Roles, NEW row \in UserRow PROVE [row EXCEPT !.role = r] \in UserRow
  BY DEF UserRow
<1>4. ASSUME NEW b \in BOOLEAN, NEW row \in UserRow PROVE [row EXCEPT !.canInvite = b] \in UserRow
  BY DEF UserRow
<1>5. \A b \in BOOLEAN : [users EXCEPT ![t].disabled = b] \in [Accounts -> UserRow]
  BY <1>1, <1>2
<1>6. \A r \in Roles : [users EXCEPT ![t].role = r] \in [Accounts -> UserRow]
  BY <1>1, <1>3
<1>7. \A b \in BOOLEAN : [users EXCEPT ![t].canInvite = b] \in [Accounts -> UserRow]
  BY <1>1, <1>4
<1> QED BY <1>5, <1>6, <1>7

\* A code is minted as somebody asks for it.
LEMMA MintTyped ==
  ASSUME TypeOK, NEW me \in Accounts, NEW c \in Codes, NEW n \in FormUses, NEW life \in Lives
  PROVE  [invites EXCEPT ![c] = [Unminted EXCEPT !.minted = TRUE, !.by = me, !.max = n,
                                                 !.life = life]] \in [Codes -> InviteRow]
<1>1. [Unminted EXCEPT !.minted = TRUE, !.by = me, !.max = n, !.life = life] \in InviteRow
  BY DEF Unminted, InviteRow, FormUses
<1> QED BY <1>1 DEF TypeOK

\* Every step keeps the types.
LEMMA NextTyped == TypeOK /\ TasksFit /\ [Next]_vars => TypeOK'
<1> SUFFICES ASSUME TypeOK, TasksFit, [Next]_vars PROVE TypeOK'
  OBVIOUS
<1>0. users \in [Accounts -> UserRow] /\ invites \in [Codes -> InviteRow]
  BY DEF TypeOK
<1>1. ASSUME NEW p \in Handlers, Step(p) PROVE TypeOK'
  <2>0. /\ task[p].role \in Roles
        /\ task[p].target \in Accounts \cup {None}
        /\ task[p].me \in Accounts \cup {None}
        /\ task[p].code \in Codes \cup {None}
    BY DEF TypeOK, Task
  <2>1. CASE AskAdmin(p) \/ AskLeave(p) \/ AskInvites(p) \/ AskRegister(p)
    BY <2>1, BeginTyped
  <2>2. CASE Load(p)
    <3>1. PICK op \in AdminOps, t \in Accounts, role \in Roles :
             task' = [task EXCEPT ![p] = [NoTask EXCEPT !.op = op, !.target = t, !.role = role]]
      BY <2>2 DEF Load
    <3>2. [NoTask EXCEPT !.op = op, !.target = t, !.role = role] \in Task
      BY AccountsAssumption DEF NoTask, Task, AdminOps
    <3> QED BY <2>2, <3>1, <3>2 DEF Load, TypeOK
  <2>3. CASE SetUserDisabled(p)
    BY <1>0, <2>3, UserWrites, CommitTyped DEF SetUserDisabled
  <2>4. CASE SetUserRole(p)
    BY <1>0, <2>0, <2>4, UserWrites, CommitTyped DEF SetUserRole
  <2>5. CASE SetUserInvitePermission(p)
    <3>1. RevokeOpenOf(task[p].target) \in [Codes -> InviteRow]
      BY CodesTyped
    <3> QED BY <1>0, <2>5, <3>1, UserWrites, CommitTyped DEF SetUserInvitePermission
  <2>6. CASE DeleteUser(p)
    <3>1. Orphaned(RevokeOpenOf(task[p].target), task[p].target) \in [Codes -> InviteRow]
      BY CodesTyped
    <3>2. [users EXCEPT ![task[p].target] =
              [Blank EXCEPT !.row = "deleted", !.code = users[task[p].target].code]]
             \in [Accounts -> UserRow]
      BY <1>0, AccountsAssumption DEF Blank, UserRow
    <3> QED BY <2>6, <3>1, <3>2, CommitTyped DEF DeleteUser
  <2>7. CASE CreateInvite(p)
    <3>1. task[p].me \in Accounts
      BY <2>0, <2>7 DEF CreateInvite, Writes, TasksFit
    <3> DEFINE Kept(life) ==
          IF ~IsAdmin(task[p].me) /\ life = "forever" THEN "short" ELSE life
    <3>2. PICK c \in Codes, n \in FormUses, life \in Lives :
             invites' = [invites EXCEPT ![c] = [Unminted EXCEPT !.minted = TRUE,
                            !.by = task[p].me, !.max = n, !.life = Kept(life)]]
      BY <2>7 DEF CreateInvite
    <3>3. Kept(life) \in Lives
      BY DEF Lives
    <3> HIDE DEF Kept
    <3>4. invites' \in [Codes -> InviteRow]
      BY <3>1, <3>2, <3>3, MintTyped
    <3> QED BY <1>0, <2>7, <3>4, CommitTyped DEF CreateInvite
  <2>8. CASE RevokeInvite(p)
    <3>1. PICK c \in Codes : invites' = [invites EXCEPT ![c].revoked = TRUE]
      BY <2>8 DEF RevokeInvite
    <3>2. \A b \in BOOLEAN : [invites EXCEPT ![c].revoked = b] \in [Codes -> InviteRow]
      BY <1>0 DEF InviteRow
    <3>3. invites' \in [Codes -> InviteRow]
      BY <3>1, <3>2
    <3> QED BY <1>0, <2>8, <3>3, CommitTyped DEF RevokeInvite
  <2>9. CASE Register(p)
    <3>1. users' \in [Accounts -> UserRow]
      BY <2>9, JoinsTyped, AccountsAssumption DEF Register
    <3> QED BY <1>0, <2>9, <3>1, CommitTyped DEF Register
  <2>10. CASE RegisterWithInvite(p)
    <3>1. users' \in [Accounts -> UserRow]
      BY <2>10, <2>0, JoinsTyped, AccountsAssumption DEF RegisterWithInvite
    <3>2. \A c \in Codes, n \in Nat : [invites EXCEPT ![c].uses = n] \in [Codes -> InviteRow]
      BY <1>0 DEF InviteRow
    <3>3. task[p].code \in Codes
      BY <2>0, <2>10 DEF RegisterWithInvite
    <3>4. invites[task[p].code].uses + 1 \in Nat
      BY <1>0, <3>3 DEF InviteRow
    <3>5. invites' \in [Codes -> InviteRow]
      BY <2>10, <3>2, <3>3, <3>4 DEF RegisterWithInvite
    <3> QED BY <2>10, <3>1, <3>5, CommitTyped DEF RegisterWithInvite
  <2>11. CASE GiveUp(p)
    BY <1>0, <2>11, CommitTyped DEF GiveUp
  <2> QED BY <1>1, <2>1, <2>2, <2>3, <2>4, <2>5, <2>6, <2>7, <2>8, <2>9, <2>10, <2>11 DEF Step
<1>2. CASE CreateAdmin
  <2>1. users' \in [Accounts -> UserRow]
    BY <1>2, JoinsTyped, AccountsAssumption DEF CreateAdmin
  <2> QED BY <1>2, <2>1 DEF CreateAdmin, TypeOK, handlers
<1>3. ASSUME NEW c \in Codes, Lapse(c) PROVE TypeOK'
  BY <1>3 DEF Lapse, TypeOK, InviteRow, Lives, handlers
<1>4. CASE UNCHANGED vars
  BY <1>4 DEF vars, TypeOK
<1> QED BY <1>1, <1>2, <1>3, <1>4 DEF Next

\* Every step keeps tasks complete.
LEMMA NextFit == TypeOK /\ TasksFit /\ [Next]_vars => TasksFit'
<1> SUFFICES ASSUME TypeOK, TasksFit, [Next]_vars PROVE TasksFit'
  OBVIOUS
<1>1. ASSUME NEW p \in Handlers, Done(p) PROVE TasksFit'
  BY <1>1 DEF Done, NoTask, TasksFit, TypeOK, AdminOps
<1>2. ASSUME NEW p \in Handlers, NEW step, NEW read, Begin(p, step, read),
             read.op \in {"issue", "revoke"} => read.me # None,
             read.op \in AdminOps => read.target # None
      PROVE  TasksFit'
  BY <1>2 DEF Begin, TasksFit, TypeOK
<1>3. ASSUME NEW p \in Handlers, Step(p) PROVE TasksFit'
  <2>1. CASE AskAdmin(p)
    BY <1>2, <2>1 DEF AskAdmin, NoTask, AdminOps
  <2>2. CASE AskLeave(p)
    BY <1>2, <2>2, AccountsAssumption DEF AskLeave, NoTask, AdminOps
  <2>3. CASE AskInvites(p)
    BY <1>2, <2>3, AccountsAssumption DEF AskInvites, NoTask, AdminOps
  <2>4. CASE AskRegister(p)
    BY <1>2, <2>4 DEF AskRegister, NoTask, AdminOps
  <2>5. CASE Load(p)
    BY <2>5, AccountsAssumption DEF Load, NoTask, TasksFit, TypeOK, AdminOps
  <2>6. CASE SetUserDisabled(p) \/ SetUserRole(p) \/ SetUserInvitePermission(p) \/ DeleteUser(p)
    BY <1>1, <2>6 DEF SetUserDisabled, SetUserRole, SetUserInvitePermission, DeleteUser
  <2>7. CASE CreateInvite(p) \/ RevokeInvite(p)
    BY <1>1, <2>7 DEF CreateInvite, RevokeInvite
  <2>8. CASE Register(p) \/ RegisterWithInvite(p) \/ GiveUp(p)
    BY <1>1, <2>8 DEF Register, RegisterWithInvite, GiveUp
  <2> QED BY <1>3, <2>1, <2>2, <2>3, <2>4, <2>5, <2>6, <2>7, <2>8 DEF Step
<1>4. CASE UNCHANGED task
  BY <1>4 DEF TasksFit
<1> QED BY <1>3, <1>4 DEF Next, CreateAdmin, Lapse, handlers, vars

\* The state is well typed in every reachable state, for any number of
\* accounts, codes and handlers.
THEOREM AccountsTyped == Spec => []TypeOK
<1>1. Init => TasksFit
  BY DEF Init, TasksFit, NoTask, AdminOps
<1> QED BY <1>1, InitTyped, NextTyped, NextFit, PTL DEF Spec

-----------------------------------------------------------------------------
(* The last administrator *)

\* Who is not the last enabled administrator leaves another.
LEMMA Another ==
  ASSUME NEW t, ~LastAdmin(t), EnabledAdmins # {}
  PROVE  \E b \in EnabledAdmins : b # t
<1> SUFFICES ASSUME \A b \in EnabledAdmins : b = t PROVE FALSE
  OBVIOUS
<1>1. EnabledAdmins = {t}
  OBVIOUS
<1>2. Cardinality(EnabledAdmins) = 1
  BY <1>1, FS_Singleton
<1> QED BY <1>1, <1>2 DEF LastAdmin

\* A step that writes one row, whose account is not the last administrator.
LEMMA OthersRemain ==
  ASSUME NEW t, ~LastAdmin(t), EnabledAdmins # {},
         \A b \in Accounts \ {t} : users'[b] = users[b]
  PROVE  EnabledAdmins' # {}
<1>1. PICK b \in EnabledAdmins : b # t
  BY Another
<1> QED BY <1>1 DEF EnabledAdmins, Stored, IsAdmin

\* A step after which every enabled administrator is one still.
LEMMA AllRemain ==
  ASSUME EnabledAdmins # {},
         \A b \in EnabledAdmins : users'[b].row = "stored" /\ users'[b].role = "admin"
                                   /\ ~users'[b].disabled
  PROVE  EnabledAdmins' # {}
BY DEF EnabledAdmins, Stored, IsAdmin

\* An instance with an enabled administrator keeps one at every step
\* (protectEnabledAdmin), whatever handlers have read before.
THEOREM AdminsRemain == Spec => AdminRemains
<1>1. ASSUME TypeOK, [Next]_vars, EnabledAdmins # {} PROVE EnabledAdmins' # {}
  <2>1. ASSUME NEW a \in Accounts, NEW role, NEW c, Joins(a, role, c)
        PROVE  EnabledAdmins' # {}
    <3>1. \A b \in EnabledAdmins : b # a /\ b \in Accounts
      BY <2>1 DEF Joins, EnabledAdmins, Stored
    <3>2. \A b \in EnabledAdmins : users'[b] = users[b]
      BY <1>1, <2>1, <3>1 DEF Joins, TypeOK
    <3> QED BY <1>1, <3>2, AllRemain DEF EnabledAdmins, Stored, IsAdmin
  <2>2. CASE users' = users
    BY <1>1, <2>2 DEF EnabledAdmins, Stored, IsAdmin
  <2>3. ASSUME NEW p \in Handlers, SetUserDisabled(p) PROVE EnabledAdmins' # {}
    <3> DEFINE t == task[p].target
    <3>1. PICK disabled \in BOOLEAN :
             /\ disabled => ~LastAdmin(t)
             /\ users' = [users EXCEPT ![t].disabled = disabled]
      BY <2>3 DEF SetUserDisabled
    <3>2. \A b \in Accounts \ {t} : users'[b] = users[b]
      BY <1>1, <3>1 DEF TypeOK
    <3>3. CASE disabled
      BY <1>1, <3>1, <3>2, <3>3, OthersRemain
    <3>4. CASE ~disabled
      BY <1>1, <3>1, <3>4, AllRemain DEF TypeOK, UserRow, EnabledAdmins, Stored, IsAdmin
    <3> QED BY <3>3, <3>4
  <2>4. ASSUME NEW p \in Handlers, SetUserRole(p) PROVE EnabledAdmins' # {}
    <3> DEFINE t == task[p].target
    <3>1. /\ task[p].role # "admin" => ~LastAdmin(t)
          /\ users' = [users EXCEPT ![t].role = task[p].role]
      BY <2>4 DEF SetUserRole
    <3>2. \A b \in Accounts \ {t} : users'[b] = users[b]
      BY <1>1, <3>1 DEF TypeOK
    <3>3. CASE task[p].role # "admin"
      BY <1>1, <3>1, <3>2, <3>3, OthersRemain
    <3>4. CASE task[p].role = "admin"
      BY <1>1, <3>1, <3>4, AllRemain DEF TypeOK, UserRow, EnabledAdmins, Stored, IsAdmin
    <3> QED BY <3>3, <3>4
  <2>5. ASSUME NEW p \in Handlers, SetUserInvitePermission(p) PROVE EnabledAdmins' # {}
    <3>1. PICK allowed : users' = [users EXCEPT ![task[p].target].canInvite = allowed]
      BY <2>5 DEF SetUserInvitePermission
    <3> QED BY <1>1, <3>1, AllRemain DEF TypeOK, UserRow, EnabledAdmins, Stored, IsAdmin
  <2>6. ASSUME NEW p \in Handlers, DeleteUser(p) PROVE EnabledAdmins' # {}
    <3>1. \A b \in Accounts \ {task[p].target} : users'[b] = users[b]
      BY <1>1, <2>6 DEF DeleteUser, TypeOK
    <3> QED BY <1>1, <2>6, <3>1, OthersRemain DEF DeleteUser
  <2>7. ASSUME NEW p \in Handlers, Register(p) \/ RegisterWithInvite(p) PROVE EnabledAdmins' # {}
    BY <2>1, <2>7 DEF Register, RegisterWithInvite
  <2>8. CASE CreateAdmin
    BY <2>1, <2>8 DEF CreateAdmin
  <2>9. ASSUME NEW p \in Handlers,
               \/ AskAdmin(p) \/ AskLeave(p) \/ AskInvites(p) \/ AskRegister(p) \/ Load(p)
               \/ CreateInvite(p) \/ RevokeInvite(p) \/ GiveUp(p)
        PROVE  users' = users
    BY <2>9 DEF AskAdmin, AskLeave, AskInvites, AskRegister, Begin, Load,
                CreateInvite, RevokeInvite, GiveUp
  <2>10. ASSUME NEW c \in Codes, Lapse(c) PROVE users' = users
    BY <2>10 DEF Lapse
  <2>11. CASE UNCHANGED vars
    BY <2>2, <2>11 DEF vars
  <2>12. ASSUME NEW p \in Handlers, Step(p) PROVE EnabledAdmins' # {}
    BY <2>2, <2>3, <2>4, <2>5, <2>6, <2>7, <2>9, <2>12 DEF Step
  <2> QED BY <1>1, <2>2, <2>8, <2>10, <2>11, <2>12 DEF Next
<1> QED BY <1>1, AccountsTyped, PTL DEF Spec, AdminRemains

-----------------------------------------------------------------------------
(* Codes: what a step may do to them, and what follows *)

\* A code that was not minted is blank.
Unissued == \A c \in Codes : ~invites[c].minted => invites[c] = Unminted

\* Accounts neither come nor go, and codes are at most closed.
Withdraws ==
  /\ \A a \in Accounts : users'[a].row = users[a].row /\ users'[a].code = users[a].code
  /\ \A c \in Codes :
        \/ invites'[c] = invites[c]
        \/ /\ invites[c].minted
           /\ \/ invites'[c] = [invites[c] EXCEPT !.revoked = TRUE]
              \/ invites'[c] = [invites[c] EXCEPT !.life = "lapsed"]

\* Somebody joins without a code.
WalksIn == invites' = invites /\ \E a \in Accounts, role \in Roles : Joins(a, role, None)

\* Somebody joins with one.
Redeems(c) ==
  /\ Redeemable(c)
  /\ invites' = [invites EXCEPT ![c].uses = @ + 1]
  /\ \E a \in Accounts : Joins(a, "member", c)

\* An account goes, and its codes are closed.
Leaves(t) ==
  /\ Stored(t)
  /\ users' = [users EXCEPT ![t] = [Blank EXCEPT !.row = "deleted", !.code = users[t].code]]
  /\ invites' = Orphaned(RevokeOpenOf(t), t)

\* A code is minted.
Mints(me, c, n, life) ==
  /\ MayIssue(me)
  /\ ~invites[c].minted
  /\ ~IsAdmin(me) => n \in 1..DelegatedUses /\ life = "short"
  /\ users' = users
  /\ invites' = [invites EXCEPT ![c] = [Unminted EXCEPT !.minted = TRUE, !.by = me,
                                                        !.max = n, !.life = life]]

\* Revoking an account's codes changes no other.
LEMMA RevokedRows ==
  ASSUME TypeOK, Unissued, NEW t, t # None, NEW c \in Codes
  PROVE  \/ RevokeOpenOf(t)[c] = invites[c] /\ invites[c].by # t
         \/ /\ invites[c].minted /\ invites[c].by = t
            /\ RevokeOpenOf(t)[c] = [invites[c] EXCEPT !.revoked = TRUE]
BY DEF RevokeOpenOf, Unissued, Unminted

\* A step only closes codes, or is one of the four others.
LEMMA Effects ==
  ASSUME TypeOK, TasksFit, Unissued, [Next]_vars
  PROVE  \/ Withdraws
         \/ WalksIn
         \/ \E c \in Codes : Redeems(c)
         \/ \E t \in Accounts : Leaves(t)
         \/ \E me \in Accounts, c \in Codes, n \in FormUses, life \in Lives : Mints(me, c, n, life)
<1>1. ASSUME users' = users, invites' = invites PROVE Withdraws
  BY <1>1 DEF Withdraws
<1>2. ASSUME NEW p \in Handlers,
             SetUserDisabled(p) \/ SetUserRole(p) \/ SetUserInvitePermission(p)
      PROVE  Withdraws
  <2> DEFINE t == task[p].target
  <2>1. \A a \in Accounts : users'[a].row = users[a].row /\ users'[a].code = users[a].code
    <3>1. CASE SetUserDisabled(p)
      BY <3>1 DEF SetUserDisabled, TypeOK, UserRow
    <3>2. CASE SetUserRole(p)
      BY <3>2 DEF SetUserRole, TypeOK, UserRow
    <3>3. CASE SetUserInvitePermission(p)
      BY <3>3 DEF SetUserInvitePermission, TypeOK, UserRow
    <3> QED BY <1>2, <3>1, <3>2, <3>3
  <2>2. invites' = invites \/ (invites' = RevokeOpenOf(t) /\ task[p].op = "access")
    BY <1>2 DEF SetUserDisabled, SetUserRole, SetUserInvitePermission, Writes
  <2>3. task[p].op = "access" => t # None
    BY DEF TasksFit, AdminOps
  <2> QED BY <2>1, <2>2, <2>3, RevokedRows DEF Withdraws
<1>3. ASSUME NEW p \in Handlers, DeleteUser(p) PROVE \E t \in Accounts : Leaves(t)
  <2>1. task[p].target \in Accounts
    BY <1>3 DEF DeleteUser, Writes, TasksFit, AdminOps, TypeOK, Task
  <2> QED BY <1>3, <2>1 DEF DeleteUser, Leaves
<1>4. ASSUME NEW p \in Handlers, CreateInvite(p)
      PROVE  \E me \in Accounts, c \in Codes, n \in FormUses, life \in Lives : Mints(me, c, n, life)
  <2> DEFINE me == task[p].me
             Kept(life) == IF ~IsAdmin(me) /\ life = "forever" THEN "short" ELSE life
  <2>1. me \in Accounts
    BY <1>4 DEF CreateInvite, Writes, TasksFit, TypeOK, Task
  <2>2. PICK c \in Codes, n \in FormUses, life \in Lives \ {"lapsed"} :
           /\ ~invites[c].minted
           /\ StoreAllows(me, n, life)
           /\ invites' = [invites EXCEPT ![c] = [Unminted EXCEPT !.minted = TRUE,
                          !.by = me, !.max = n, !.life = Kept(life)]]
    BY <1>4 DEF CreateInvite
  <2>3. Kept(life) \in Lives
    BY DEF Lives
  <2>4. ~IsAdmin(me) => n \in 1..DelegatedUses /\ Kept(life) = "short"
    BY <2>2 DEF StoreAllows, Lives
  <2>5. MayIssue(me) /\ users' = users
    BY <1>4 DEF CreateInvite
  <2> HIDE DEF me, Kept
  <2>6. Mints(me, c, n, Kept(life))
    BY <2>2, <2>4, <2>5 DEF Mints
  <2> QED BY <2>1, <2>3, <2>6
<1>5. ASSUME NEW p \in Handlers, RevokeInvite(p) PROVE Withdraws
  <2>1. PICK c \in Codes : invites[c].minted /\ invites' = [invites EXCEPT ![c].revoked = TRUE]
    BY <1>5 DEF RevokeInvite
  <2>2. users' = users
    BY <1>5 DEF RevokeInvite
  <2> QED BY <2>1, <2>2 DEF Withdraws, TypeOK
<1>6. ASSUME NEW p \in Handlers, Register(p) PROVE WalksIn
  BY <1>6, AccountsAssumption DEF Register, WalksIn
<1>7. ASSUME NEW p \in Handlers, RegisterWithInvite(p) PROVE \E c \in Codes : Redeems(c)
  <2>1. task[p].code \in Codes
    BY <1>7 DEF RegisterWithInvite, TypeOK, Task
  <2> QED BY <1>7, <2>1 DEF RegisterWithInvite, Redeems
<1>8. CASE CreateAdmin
  BY <1>8, AccountsAssumption DEF CreateAdmin, WalksIn
<1>9. ASSUME NEW c \in Codes, Lapse(c) PROVE Withdraws
  BY <1>9 DEF Lapse, Withdraws, TypeOK
<1>10. ASSUME NEW p \in Handlers,
              \/ AskAdmin(p) \/ AskLeave(p) \/ AskInvites(p) \/ AskRegister(p)
              \/ Load(p) \/ GiveUp(p)
       PROVE  Withdraws
  BY <1>1, <1>10 DEF AskAdmin, AskLeave, AskInvites, AskRegister, Begin, Load, GiveUp
<1>11. CASE UNCHANGED vars
  BY <1>1, <1>11 DEF vars
<1>12. ASSUME Next, ~CreateAdmin, \A c \in Codes : ~Lapse(c) PROVE \E p \in Handlers : Step(p)
  BY <1>12 DEF Next
<1> QED BY <1>2, <1>3, <1>4, <1>5, <1>6, <1>7, <1>8, <1>9, <1>10, <1>11, <1>12 DEF Step

\* The invariant: blank codes, stored issuers, and uses that are accounts.
CodeInv == TypeOK /\ TasksFit /\ Unissued /\ CodesHaveIssuers

\* A code that may be redeemed has been minted.
LEMMA RedeemableIsMinted ==
  ASSUME Unissued, NEW c \in Codes, Redeemable(c)
  PROVE  invites[c].minted
BY DEF Unissued, Redeemable, Unminted

\* Blank codes stay blank and open codes keep their issuers.
LEMMA CodeStep == CodeInv /\ [Next]_vars => CodeInv'
<1> SUFFICES ASSUME CodeInv, [Next]_vars PROVE CodeInv'
  OBVIOUS
<1>0. TypeOK /\ TasksFit /\ Unissued /\ CodesHaveIssuers
  BY DEF CodeInv
<1>1. TypeOK' /\ TasksFit'
  BY <1>0, NextTyped, NextFit
<1>2. CASE Withdraws
  <2>0. ASSUME NEW c \in Codes
        PROVE  \/ invites'[c] = invites[c]
               \/ /\ invites[c].minted /\ invites'[c].minted
                  /\ invites'[c].by = invites[c].by
                  /\ invites[c].revoked => invites'[c].revoked
    <3>1. invites[c] \in InviteRow
      BY <1>0 DEF TypeOK
    <3> QED BY <1>2, <3>1 DEF Withdraws, InviteRow
  <2>1. Unissued'
    BY <1>0, <2>0 DEF Unissued
  <2>2. CodesHaveIssuers'
    BY <1>0, <1>2, <2>0 DEF Withdraws, CodesHaveIssuers, Stored
  <2> QED BY <1>1, <2>1, <2>2 DEF CodeInv
<1>3. ASSUME NEW a \in Accounts, NEW role, NEW c, Joins(a, role, c)
      PROVE  \A b \in Accounts : Stored(b) => Stored(b)'
  BY <1>0, <1>3 DEF Joins, Stored, TypeOK, Blank
<1>4. CASE WalksIn
  BY <1>0, <1>1, <1>3, <1>4 DEF WalksIn, CodeInv, Unissued, CodesHaveIssuers
<1>5. ASSUME NEW c \in Codes, Redeems(c) PROVE CodeInv'
  <2>1. \A d \in Codes : invites'[d].minted = invites[d].minted /\ invites'[d].by = invites[d].by
                          /\ invites'[d].revoked = invites[d].revoked
    BY <1>0, <1>5 DEF Redeems, TypeOK, InviteRow
  <2>2. \A d \in Codes : d # c => invites'[d] = invites[d]
    BY <1>0, <1>5 DEF Redeems, TypeOK
  <2>3. invites[c].minted
    BY <1>0, <1>5, RedeemableIsMinted DEF Redeems
  <2>4. Unissued'
    BY <1>0, <2>1, <2>2, <2>3 DEF Unissued
  <2>5. \A b \in Accounts : Stored(b) => Stored(b)'
    BY <1>3, <1>5 DEF Redeems
  <2>6. CodesHaveIssuers'
    BY <1>0, <2>1, <2>5 DEF CodesHaveIssuers
  <2> QED BY <1>1, <2>4, <2>6 DEF CodeInv
<1>6. ASSUME NEW t \in Accounts, Leaves(t) PROVE CodeInv'
  <2>1. t # None
    BY AccountsAssumption
  <2>2. \A c \in Codes :
           \/ invites'[c] = invites[c] /\ invites[c].by # t
           \/ invites[c].minted /\ invites'[c].minted /\ invites'[c].revoked
    <3>1. ASSUME NEW c \in Codes
          PROVE  \/ invites'[c] = invites[c] /\ invites[c].by # t
                 \/ invites[c].minted /\ invites'[c].minted /\ invites'[c].revoked
      <4> DEFINE r == RevokeOpenOf(t)
      <4>1. \/ r[c] = invites[c] /\ invites[c].by # t
            \/ invites[c].minted /\ invites[c].by = t /\ r[c] = [invites[c] EXCEPT !.revoked = TRUE]
        BY <1>0, <2>1, RevokedRows
      <4>2. invites'[c] = IF r[c].by = t THEN [r[c] EXCEPT !.by = None] ELSE r[c]
        BY <1>6 DEF Leaves, Orphaned
      <4> HIDE DEF r
      <4>3. invites[c] \in InviteRow
        BY <1>0 DEF TypeOK
      <4> QED BY <4>1, <4>2, <4>3 DEF InviteRow
    <3> QED BY <3>1
  <2>3. \A a \in Accounts : a # t => users'[a] = users[a]
    BY <1>0, <1>6 DEF Leaves, TypeOK
  <2>4. Unissued'
    BY <1>0, <2>2 DEF Unissued
  <2>5. CodesHaveIssuers'
    BY <1>0, <2>2, <2>3 DEF CodesHaveIssuers, Stored
  <2> QED BY <1>1, <2>4, <2>5 DEF CodeInv
<1>7. ASSUME NEW me \in Accounts, NEW c \in Codes, NEW n, NEW life, Mints(me, c, n, life)
      PROVE  CodeInv'
  <2>1. \A d \in Codes : d # c => invites'[d] = invites[d]
    BY <1>0, <1>7 DEF Mints, TypeOK
  <2>2. invites'[c].minted /\ invites'[c].by = me
    BY <1>0, <1>7 DEF Mints, TypeOK, Unminted
  <2>3. Unissued'
    BY <1>0, <2>1, <2>2 DEF Unissued
  <2>4. CodesHaveIssuers'
    BY <1>0, <1>7, <2>1, <2>2 DEF Mints, MayIssue, CodesHaveIssuers, Stored
  <2> QED BY <1>1, <2>3, <2>4 DEF CodeInv
<1> QED BY <1>0, <1>2, <1>4, <1>5, <1>6, <1>7, Effects

\* The invariant holds from the start.
LEMMA CodesFit == Spec => []CodeInv
<1>1. Init => CodeInv
  BY InitTyped DEF CodeInv, Init, TasksFit, NoTask, AdminOps, Unissued, CodesHaveIssuers, Unminted
<1> QED BY <1>1, CodeStep, PTL DEF Spec

\* A code nobody has revoked has a stored issuer, however deletions and
\* minting interleave (DeleteUser, CreateInvite).
THEOREM OpenCodesHaveIssuers == Spec => []CodesHaveIssuers
BY CodesFit, PTL DEF CodeInv

\* A registration with a code that is revoked, over, or without a stored and
\* enabled issuer never goes through, and a revoked code stays revoked
\* (redeemInvite).
THEOREM ClosedCodesAdmitNobody == Spec => CodesAdmitWhileOpen
<1>1. ASSUME CodeInv, [Next]_vars, NEW c \in Codes PROVE AdmitsWhileOpen(c)
  <2>0. TypeOK /\ TasksFit /\ Unissued /\ CodesHaveIssuers
    BY <1>1 DEF CodeInv
  <2>1. ASSUME Withdraws
        PROVE  invites'[c].uses = invites[c].uses /\ (invites[c].revoked => invites'[c].revoked)
    <3>1. DOMAIN invites = Codes /\ invites[c] \in InviteRow
      BY <2>0 DEF TypeOK
    <3>2. \/ invites'[c] = invites[c]
          \/ invites'[c] = [invites[c] EXCEPT !.revoked = TRUE]
          \/ invites'[c] = [invites[c] EXCEPT !.life = "lapsed"]
      BY <2>1, <3>1 DEF Withdraws
    <3> QED BY <3>1, <3>2 DEF InviteRow
  <2>2. CASE WalksIn
    BY <2>2 DEF WalksIn, AdmitsWhileOpen
  <2>3. ASSUME NEW d \in Codes, Redeems(d), invites'[c].uses # invites[c].uses PROVE Redeemable(c)
    BY <2>0, <2>3 DEF Redeems, TypeOK
  <2>4. ASSUME NEW d \in Codes, Redeems(d) PROVE invites'[c].revoked = invites[c].revoked
    BY <2>0, <2>4 DEF Redeems, TypeOK, InviteRow
  <2>5. ASSUME Redeemable(c)
        PROVE  /\ ~invites[c].revoked /\ invites[c].life # "lapsed"
               /\ invites[c].by \in Accounts
               /\ SignedIn(invites[c].by)
    BY <2>0, <2>5, RedeemableIsMinted DEF Redeemable, Usable, CodesHaveIssuers, SignedIn
  <2>6. ASSUME NEW t \in Accounts, Leaves(t)
        PROVE  invites'[c].uses = invites[c].uses /\ (invites[c].revoked => invites'[c].revoked)
    BY <2>0, <2>6 DEF Leaves, RevokeOpenOf, Orphaned, TypeOK, InviteRow
  <2>7. ASSUME NEW me, NEW d \in Codes, NEW n, NEW life, Mints(me, d, n, life)
        PROVE  invites'[c].uses = invites[c].uses /\ (invites[c].revoked => invites'[c].revoked)
    BY <2>0, <2>7 DEF Mints, Unissued, Unminted, TypeOK
  <2> QED BY <1>1, <2>0, <2>1, <2>2, <2>3, <2>4, <2>5, <2>6, <2>7, Effects
      DEF AdmitsWhileOpen
<1>2. CodeInv /\ [Next]_vars => \A c \in Codes : AdmitsWhileOpen(c)
  BY <1>1
<1> QED BY <1>2, CodesFit, PTL DEF Spec, CodesAdmitWhileOpen

\* Whoever is no administrator when its code is minted gets few uses and a
\* bounded life, whatever it was when its request began (CreateInvite).
THEOREM DelegationStaysBounded == Spec => DelegationBounded
<1>1. ASSUME CodeInv, [Next]_vars, NEW c \in Codes, invites'[c].minted, ~invites[c].minted
      PROVE  MintedBounded(c)
  <2>0. TypeOK /\ TasksFit /\ Unissued
    BY <1>1 DEF CodeInv
  <2>1. ~Withdraws /\ ~WalksIn
    BY <1>1 DEF Withdraws, WalksIn
  <2>2. ASSUME NEW d \in Codes, Redeems(d) PROVE FALSE
    BY <1>1, <2>0, <2>2 DEF Redeems, TypeOK, InviteRow
  <2>3. ASSUME NEW t \in Accounts, Leaves(t) PROVE FALSE
    BY <1>1, <2>0, <2>3 DEF Leaves, RevokeOpenOf, Orphaned, TypeOK, InviteRow
  <2>4. PICK me \in Accounts, d \in Codes, n \in FormUses, life \in Lives : Mints(me, d, n, life)
    BY <1>1, <2>0, <2>1, <2>2, <2>3, Effects
  <2>5. d = c
    BY <1>1, <2>0, <2>4 DEF Mints, TypeOK
  <2>6. invites'[c].by = me /\ invites'[c].max = n /\ invites'[c].life = life
    BY <2>0, <2>4, <2>5 DEF Mints, Unminted, TypeOK
  <2> QED BY <2>4, <2>6 DEF Mints, MintedBounded, IsAdmin
<1>2. CodeInv /\ [Next]_vars => \A c \in Codes : MintedBounded(c)
  BY <1>1 DEF MintedBounded
<1> QED BY <1>2, CodesFit, PTL DEF Spec, DelegationBounded

-----------------------------------------------------------------------------
(* Uses *)

\* A code's uses, and the accounts that came by it.
Exact(c) ==
  /\ invites[c].uses = Cardinality(CameBy(c))
  /\ invites[c].max # 0 => invites[c].uses <= invites[c].max

\* A step that moves nobody and leaves the code's numbers.
LEMMA SameUses ==
  ASSUME NEW c \in Codes, Exact(c), CameBy(c)' = CameBy(c),
         invites'[c].uses = invites[c].uses, invites'[c].max = invites[c].max
  PROVE  Exact(c)'
BY DEF Exact

\* An account that joins came by the code it gave, and by no other.
LEMMA JoinedBy ==
  ASSUME TypeOK, NEW a \in Accounts, NEW role \in Roles, NEW d \in Codes \cup {None},
         Joins(a, role, d), NEW c \in Codes
  PROVE  /\ a \notin CameBy(c)
         /\ CameBy(c)' = IF c = d THEN CameBy(c) \cup {a} ELSE CameBy(c)
<1>1. a \notin CameBy(c)
  BY DEF Joins, CameBy
<1>2. users'[a].row = "stored" /\ users'[a].code = d
  BY DEF Joins, TypeOK, Blank
<1>3. \A b \in Accounts : b # a => users'[b] = users[b]
  BY DEF Joins, TypeOK
<1> QED BY <1>1, <1>2, <1>3 DEF CameBy

\* Every step keeps the uses exact.
LEMMA UsesStep == CodeInv /\ UsesExact /\ [Next]_vars => UsesExact'
<1> SUFFICES ASSUME CodeInv, UsesExact, [Next]_vars, NEW c \in Codes PROVE Exact(c)'
  BY DEF UsesExact, Exact
<1>0. TypeOK /\ TasksFit /\ Unissued /\ Exact(c) /\ invites[c] \in InviteRow
  BY DEF CodeInv, UsesExact, Exact, TypeOK
<1>1. CASE Withdraws
  <2>1. CameBy(c)' = CameBy(c)
    BY <1>1 DEF Withdraws, CameBy
  <2>2. invites'[c].uses = invites[c].uses /\ invites'[c].max = invites[c].max
    BY <1>0, <1>1 DEF Withdraws, InviteRow
  <2> QED BY <1>0, <2>1, <2>2, SameUses
<1>2. CASE WalksIn
  <2>1. None \notin Codes /\ invites' = invites
    BY <1>2, AccountsAssumption DEF WalksIn
  <2>2. CameBy(c)' = CameBy(c)
    BY <1>0, <1>2, <2>1, JoinedBy DEF WalksIn
  <2> QED BY <1>0, <2>1, <2>2, SameUses
<1>3. ASSUME NEW d \in Codes, Redeems(d) PROVE Exact(c)'
  <2>1. PICK a \in Accounts : Joins(a, "member", d)
    BY <1>3 DEF Redeems
  <2>2. a \notin CameBy(c) /\ CameBy(c)' = IF c = d THEN CameBy(c) \cup {a} ELSE CameBy(c)
    BY <1>0, <2>1, JoinedBy, AccountsAssumption
  <2>3. CASE c = d
    <3>1. IsFiniteSet(CameBy(c))
      BY FS_Subset, AccountsAssumption DEF CameBy
    <3>2. Cardinality(CameBy(c)') = Cardinality(CameBy(c)) + 1
      BY <2>2, <2>3, <3>1, FS_AddElement
    <3>3. invites'[c].uses = invites[c].uses + 1 /\ invites'[c].max = invites[c].max
      BY <1>0, <1>3, <2>3 DEF Redeems, TypeOK, InviteRow
    <3>4. invites[c].max # 0 => invites[c].uses < invites[c].max
      BY <1>3, <2>3 DEF Redeems, Redeemable, Usable
    <3>5. invites[c].uses \in Nat /\ invites[c].max \in Nat
      BY <1>0, AccountsAssumption DEF InviteRow
    <3> QED BY <1>0, <3>2, <3>3, <3>4, <3>5 DEF Exact
  <2>4. CASE c # d
    BY <1>0, <1>3, <2>2, <2>4, SameUses DEF Redeems, TypeOK
  <2> QED BY <2>3, <2>4
<1>4. ASSUME NEW t \in Accounts, Leaves(t) PROVE Exact(c)'
  <2>1. users'[t].row = "deleted" /\ users'[t].code = users[t].code /\ users[t].row = "stored"
    BY <1>0, <1>4 DEF Leaves, TypeOK, Blank, Stored
  <2>2. \A a \in Accounts : a # t => users'[a] = users[a]
    BY <1>0, <1>4 DEF Leaves, TypeOK
  <2>3. CameBy(c)' = CameBy(c)
    BY <2>1, <2>2 DEF CameBy
  <2>4. invites'[c].uses = invites[c].uses /\ invites'[c].max = invites[c].max
    BY <1>0, <1>4 DEF Leaves, RevokeOpenOf, Orphaned, InviteRow
  <2> QED BY <1>0, <2>3, <2>4, SameUses
<1>5. ASSUME NEW me \in Accounts, NEW d \in Codes, NEW n \in FormUses, NEW life \in Lives,
             Mints(me, d, n, life)
      PROVE  Exact(c)'
  <2>1. CameBy(c)' = CameBy(c)
    BY <1>5 DEF Mints, CameBy
  <2>2. CASE c # d
    BY <1>0, <1>5, <2>1, <2>2, SameUses DEF Mints, TypeOK
  <2>3. CASE c = d
    <3>1. invites[c].uses = 0
      BY <1>0, <1>5, <2>3 DEF Mints, Unissued, Unminted
    <3>2. invites'[c].uses = 0 /\ invites'[c].max = n
      BY <1>0, <1>5, <2>3 DEF Mints, TypeOK, Unminted
    <3>3. n \in Nat
      BY AccountsAssumption DEF FormUses
    <3> QED BY <1>0, <2>1, <3>1, <3>2, <3>3 DEF Exact
  <2> QED BY <2>2, <2>3
<1> QED BY <1>0, <1>1, <1>2, <1>3, <1>4, <1>5, Effects

\* A code's uses are the accounts it admitted, and no more than it may admit,
\* for any number of registrations in any order (RegisterWithInvite).
THEOREM UsesStayExact == Spec => []UsesExact
<1>1. Init => UsesExact
  <2> SUFFICES ASSUME Init, NEW c \in Codes PROVE Exact(c)
    BY DEF UsesExact, Exact
  <2>1. CameBy(c) = {}
    BY DEF Init, Blank, CameBy
  <2>2. Cardinality(CameBy(c)) = 0
    BY <2>1, FS_EmptySet
  <2> QED BY <2>2 DEF Init, Unminted, Exact
<1> QED BY <1>1, CodesFit, UsesStep, PTL DEF Spec
=============================================================================
