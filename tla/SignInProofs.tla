---------------------------- MODULE SignInProofs ----------------------------
(***************************************************************************)
(* Whoever signs in, changes a password, turns the second factor on or     *)
(* off, disables or deletes an account, and however their handlers         *)
(* interleave: what SignIn promises of credentials, codes and identities   *)
(* holds for any number of accounts, sessions, tokens and handlers.        *)
(*                                                                         *)
(* The invariant has three parts.  Handled is about handlers alone: what   *)
(* each holds at each of its steps, whatever the tables say by now.        *)
(* Enrolled is about the second factor, Granted about sessions, tokens     *)
(* and keys.  A handler's steps keep the first; the other two rest on it.  *)
(***************************************************************************)
EXTENDS SignIn, TLAPS

Rows == [state : States, pw : Nat, set : BOOLEAN,
         email : Emails \cup {Nil}, verified : BOOLEAN,
         secret : Nat, enabled : BOOLEAN, last : Nat]
Purposes == {"pending", "link", "verify"}
Ops == Settings \cup {"none", "login", "second", "register", "reset", "provider", "address",
                      "complete", "connect", "unlink", "suspend", "verify"}
Labels == {"idle", "forget", "mint", "open", "check", "act", "spend", "reload", "prove", "resolve",
           "read", "address", "end", "endKeys", "reissue", "link", "refusal", "count",
           "unlink"}
Tasks == [op : Ops, user : Users \cup {Nil}, row : Rows, proved : Nat, factor : BOOLEAN,
          late : BOOLEAN, proof : BOOLEAN, token : TokenIds \cup {Nil},
          purpose : Purposes \cup {"none"}, subject : Subjects \cup {Nil},
          email : Emails \cup {Nil}]

Tables ==
    /\ account \in [Users -> Rows]
    /\ session \in [SessionIds -> Sessions \cup {Nil}]
    /\ token \in [TokenIds -> Tokens \cup {Nil}]
    /\ keys \subseteq Users \X States \X BOOLEAN
    /\ codes \in [Users -> SUBSET Nat]
    /\ identity \in [Subjects -> Users \cup {Nil}]
    /\ clock \in Nat /\ drawn \in Nat
    /\ spent \in [Users -> SUBSET ({"step", "code"} \X Nat)]
    /\ replayed \in BOOLEAN

Typed ==
    /\ Tables
    /\ pc \in [Handlers -> Labels] /\ task \in [Handlers -> Tasks]

----------------------------------------------------------------------------
(* Handlers *)

\* A handler that will open something by a password has proved the one of the
\* row it holds...
Based(t, l) ==
    t.op # "verify" /\ ~t.late => t.proved = t.row.pw

\* ... and the second factor, if that row has it on.
Shown(t, l) ==
    (t.op \in {"password", "confirm"} \/ l \in {"spend", "open"}) /\ ~t.late /\ t.row.enabled
        => t.factor

\* ... and, unless it follows a reset link, has seen the account active.
Entrants == {"login", "second", "register", "provider", "address", "complete", "password",
             "confirm", "key"}
Entitled(t, l) ==
    t.op \in Entrants /\ l \notin {"resolve", "reload", "link"} => t.row.state = "active"

\* Which request can be where.
Routed(t, l) ==
    /\ l # "idle" => t.user \in Users
    /\ l \in {"forget", "mint"} => t.purpose # "none"
    /\ t.op = "verify" => l \in {"idle", "read", "address"}
    /\ l = "read" => t.op = "verify"
    /\ l = "reload" => t.op \in {"reset", "provider"}
    /\ l \in {"resolve", "spend"} => t.op = "second"
    /\ l = "open" => t.op \in Entrants \cup {"reset"}
    /\ l \in {"refusal", "count", "unlink"} => t.op = "unlink"

Proper(t, l) == Based(t, l) /\ Shown(t, l) /\ Entitled(t, l) /\ Routed(t, l)
Handled == \A p \in Handlers : Proper(task[p], pc[p])

\* Handlers one step on: where their steps lead is as proper as where they were.
HandlersOn ==
    task' \in [Handlers -> Tasks] /\ pc' \in [Handlers -> Labels] /\ Handled'

\* What a request that begins on the row of u holds.
LEMMA Readings ==
    ASSUME Typed, NEW u \in Users, NEW op \in Ops
    PROVE  /\ Reading(op, u) \in Tasks /\ NoTask \in Tasks
           /\ Reading(op, u).op = op /\ Reading(op, u).user = u
           /\ Reading(op, u).row = account[u] /\ Reading(op, u).proved = account[u].pw
<1> DEFINE row == account[u]
<1>1. row \in Rows /\ row.pw \in Nat
  BY DEF Typed, Tables, Rows
<1>2. NoAccount \in Rows
  BY DEF NoAccount, Rows, States
<1>3. NoTask \in Tasks
  BY <1>2 DEF NoTask, Tasks, Ops
<1>4. Reading(op, u) = [NoTask EXCEPT !.op = op, !.user = u, !.row = row, !.proved = row.pw]
  BY DEF Reading
<1>5. row = account[u]
  OBVIOUS
<1> HIDE DEF row
<1>6. Reading(op, u) \in Tasks
  BY <1>1, <1>3, <1>4 DEF Tasks
<1>7. Reading(op, u).op = op /\ Reading(op, u).user = u
  BY <1>3, <1>4 DEF Tasks
<1>8. Reading(op, u).row = row /\ Reading(op, u).proved = row.pw
  BY <1>3, <1>4 DEF Tasks
<1> QED
  BY <1>3, <1>5, <1>6, <1>7, <1>8

\* One step of one handler keeps what holds of handlers.
LEMMA Moves ==
    ASSUME Typed, Handled, NEW p \in Handlers, NEW t \in Tasks, NEW l \in Labels,
           Proper(t, l), Continue(p, t, l)
    PROVE  HandlersOn
  BY DEF Typed, Tables, Handled, HandlersOn, Continue, Proper, Based, Shown, Entitled, Entrants, Routed

LEMMA MovesOn ==
    ASSUME Typed, Handled, NEW p \in Handlers, NEW l \in Labels,
           Proper(task[p], l), Goto(p, l)
    PROVE  HandlersOn
<1>1. task[p] \in Tasks
  BY DEF Typed, Tables
<1> QED
  BY <1>1, Moves DEF Goto

LEMMA MovesOut ==
    ASSUME Typed, Handled, NEW p \in Handlers, Done(p)
    PROVE  HandlersOn
<1>1. NoTask \in Tasks
  BY DEF NoTask, NoAccount, Tasks, Rows, States, Ops
<1>2. Proper(NoTask, "idle")
  BY DEF Proper, Based, Shown, Entitled, Entrants, Routed, NoTask, NoAccount
<1>3. "idle" \in Labels
  BY DEF Labels
<1> QED
  BY <1>1, <1>2, <1>3, Moves DEF Done

LEMMA Stays ==
    ASSUME Typed, Handled, UNCHANGED <<pc, task>>
    PROVE  HandlersOn
  BY DEF Typed, Tables, Handled, HandlersOn, Proper, Based, Shown, Entitled, Entrants, Routed

\* A password was accepted: the second step if the row has it on, else a session.
LEMMA MovesPastPassword ==
    ASSUME Typed, Handled, NEW p \in Handlers, NEW t \in Tasks,
           t.user \in Users,
           ~t.late => t.proved = t.row.pw,
           t.op \in (Entrants \cup {"reset"}) \ {"password", "confirm"},
           t.op # "reset" => t.row.state = "active",
           PasswordAccepted(p, t)
    PROVE  HandlersOn
<1>1. AfterPassword(t) \in Tasks
  BY DEF AfterPassword, Tasks, Purposes
<1>2. NextAfterPassword(t) \in Labels
  BY DEF NextAfterPassword, Labels
<1>3. Proper(AfterPassword(t), NextAfterPassword(t))
  <2>1. CASE t.row.enabled
    <3>1. NextAfterPassword(t) = "forget" /\ AfterPassword(t) = [t EXCEPT !.purpose = "pending"]
      BY <2>1 DEF NextAfterPassword, AfterPassword
    <3>2. LET n == AfterPassword(t) IN
          /\ n.op = t.op /\ n.user = t.user /\ n.row = t.row /\ n.proved = t.proved
          /\ n.late = t.late /\ n.factor = t.factor /\ n.purpose = "pending"
      BY <3>1 DEF Tasks
    <3> QED
      BY <3>1, <3>2 DEF Proper, Based, Shown, Entitled, Entrants, Routed
  <2>2. CASE ~t.row.enabled
    <3>1. NextAfterPassword(t) = "open" /\ AfterPassword(t) = t
      BY <2>2 DEF NextAfterPassword, AfterPassword
    <3> QED
      BY <3>1, <2>2 DEF Proper, Based, Shown, Entitled, Entrants, Routed
  <2> QED
    BY <2>1, <2>2
<1> QED
  BY <1>1, <1>2, <1>3, Moves DEF PasswordAccepted

LEMMA ReadsPastPassword ==
    ASSUME Typed, Handled, NEW p \in Handlers, NEW u \in Users, NEW op \in Ops,
           op \in (Entrants \cup {"reset"}) \ {"password", "confirm"},
           op # "reset" => account[u].state = "active",
           PasswordAccepted(p, Reading(op, u))
    PROVE  HandlersOn
<1> DEFINE r == Reading(op, u)
<1>0. u \in Users /\ op \in Ops
  OBVIOUS
<1>1. /\ r \in Tasks /\ r.op = op /\ r.user = u
      /\ r.row = account[u] /\ r.proved = account[u].pw
  BY ONLY <1>0, Typed, Readings
<1>2. PasswordAccepted(p, r)
  OBVIOUS
<1> HIDE DEF r
<1>3. r.proved = r.row.pw
  BY <1>1
<1> QED
  BY <1>1, <1>2, <1>3, MovesPastPassword DEF Entrants

\* A request that reads the account once more holds that row, and proved its
\* password unless it is late by now.
LEMMA Rereads ==
    ASSUME Typed, Handled, NEW p \in Handlers, task[p].user \in Users, task[p].op # "verify"
    PROVE  LET n == Rereading(p) IN
           /\ n \in Tasks /\ n.op = task[p].op /\ n.user = task[p].user
           /\ n.row = account[task[p].user] /\ n.factor = task[p].factor
           /\ n.proved = task[p].proved /\ n.late = Late(p)
           /\ (n.late \/ n.proved = n.row.pw)
<1> DEFINE row == account[task[p].user]
           late == Late(p)
           n == [task[p] EXCEPT !.row = row, !.late = late]
<1>1. task[p] \in Tasks /\ Based(task[p], pc[p]) /\ row \in Rows
  BY DEF Typed, Tables, Handled, Proper
<1>2. late \in BOOLEAN
  BY <1>1 DEF Late, Tasks
<1>3. late \/ (~task[p].late /\ task[p].row.pw = row.pw)
  BY DEF Late, Grounds
<1>4. Rereading(p) = n
  BY DEF Rereading
<1> HIDE DEF row, late
<1>5. /\ n \in Tasks /\ n.op = task[p].op /\ n.user = task[p].user /\ n.row = row
      /\ n.factor = task[p].factor /\ n.proved = task[p].proved /\ n.late = late
  BY <1>1, <1>2 DEF Tasks
<1>6. late \/ task[p].proved = row.pw
  BY <1>1, <1>3 DEF Based
<1> QED
  BY <1>4, <1>5, <1>6 DEF row, late

----------------------------------------------------------------------------
(* What is granted rests on the account as it is *)

\* What the record of a session, a token or a key says by itself: granted in time,
\* it was granted on the grounds of its moment...
SoundSession(c) ==
    /\ ~c.late => c.pw = c.at.pw /\ (c.at.on # 0 => c.factor)
    /\ c.at.state # "active" => c.late \/ c.link
SoundToken(c) == c.purpose # "verify" /\ ~c.late => c.pw = c.at
SoundKey(k) == k[2] # "active" => k[3]

\* ... and, granted at any time, it rests on what its account is now, or it is
\* about to be ended.
HeldSession(c) ==
    LET a == account[c.user] IN
    /\ Stored(c.user)
    /\ c.at.pw = a.pw
    /\ a.enabled => c.at.on = a.secret \/ Ending(c.user, "sessions")
    /\ a.state = "disabled" => c.at.state = "disabled" \/ Ending(c.user, "sessions")
HeldToken(c) ==
    Stored(c.user) /\ (c.purpose # "verify" => c.at = account[c.user].pw)
HeldKey(k) ==
    /\ Stored(k[1])
    /\ account[k[1]].state = "disabled" => k[2] = "disabled" \/ Ending(k[1], "keys")

SessionsGranted ==
    \A s \in SessionIds : session[s] # Nil => SoundSession(session[s]) /\ HeldSession(session[s])
TokensGranted ==
    \A t \in TokenIds : token[t] # Nil => SoundToken(token[t]) /\ HeldToken(token[t])
KeysGranted == \A k \in keys : SoundKey(k) /\ HeldKey(k)

Granted == SessionsGranted /\ TokensGranted /\ KeysGranted

LEMMA GrantingHandled ==
    ASSUME Typed, Handled, NEW p \in Handlers, Granting(p)
    PROVE  HandlersOn
<1>0. task[p] \in Tasks /\ Proper(task[p], pc[p])
  BY DEF Typed, Tables, Handled
<1>1. CASE Forget(p)
  <2>1. Proper(task[p], "mint")
    BY <1>0, <1>1 DEF Forget, At, Proper, Based, Shown, Entitled, Entrants, Routed
  <2> QED
    BY <1>1, <2>1, MovesOn DEF Forget, Labels, HandlersOn
<1>2. CASE Mint(p)
  BY <1>2, MovesOut DEF Mint, HandlersOn
<1>3. CASE Open(p)
  <2> DEFINE t == task[p]
  <2>1. At(p, "open")
    BY <1>3 DEF Open
  <2>2. CASE t.op = "confirm"
    <3>1. Goto(p, "reissue")
      BY <1>3, <2>2 DEF Open
    <3>2. Proper(task[p], "reissue")
      BY <1>0, <2>1, <2>2 DEF At, Proper, Based, Shown, Entitled, Entrants, Routed
    <3> QED
      BY <3>1, <3>2, MovesOn DEF Labels, HandlersOn
  <2>3. CASE t.op = "register" /\ t.row.email # Nil
    <3> DEFINE n == [t EXCEPT !.purpose = "verify"]
    <3>1. Continue(p, n, "forget")
      BY <1>3, <2>3 DEF Open
    <3>2. n \in Tasks
      BY <1>0 DEF Tasks, Purposes
    <3>3. Proper(n, "forget")
      BY <1>0, <2>1, <2>3 DEF Tasks, At, Proper, Based, Shown, Entitled, Entrants, Routed
    <3> HIDE DEF n
    <3> QED
      BY <3>1, <3>2, <3>3, Moves DEF Labels, HandlersOn
  <2>4. CASE t.op # "confirm" /\ ~(t.op = "register" /\ t.row.email # Nil)
    <3>1. Done(p)
      BY <1>3, <2>4 DEF Open
    <3> QED
      BY <3>1, MovesOut DEF HandlersOn
  <2> QED
    BY <2>2, <2>3, <2>4
<1> QED
  BY <1>1, <1>2, <1>3 DEF Granting

LEMMA EnteringHandled ==
    ASSUME SignInAssumption, Typed, Handled, Granted, NEW p \in Handlers, Entering(p)
    PROVE  HandlersOn
<1>0. task[p] \in Tasks /\ Proper(task[p], pc[p])
  BY DEF Typed, Tables, Handled
<1>1. CASE AskLogin(p)
  <2>1. PICK u \in Users : account[u].state = "active" /\ PasswordAccepted(p, Reading("login", u))
    BY <1>1 DEF AskLogin
  <2>2. "login" \in Ops /\ "login" \in Entrants
    BY DEF Ops, Entrants
  <2> QED
    BY <2>1, <2>2, ReadsPastPassword
<1>2. CASE AskSecondStep(p)
  <2>1. PICK t \in TokenIds :
           /\ token[t] # Nil /\ token[t].purpose = "pending"
           /\ Continue(p, [Reading("second", token[t].user) EXCEPT
                             !.proved = token[t].pw, !.late = token[t].late, !.token = t],
                      "resolve")
    BY <1>2 DEF AskSecondStep
  <2> DEFINE u == token[t].user
             r == Reading("second", u)
             n == [r EXCEPT !.proved = token[t].pw, !.late = token[t].late, !.token = t]
  <2>2. token[t] \in Tokens /\ u \in Users
    BY <2>1 DEF Typed, Tables, Tokens
  <2>3. "second" \in Ops
    BY DEF Ops
  <2>4. /\ r \in Tasks /\ r.op = "second" /\ r.user = u
        /\ r.row = account[u]
    BY <2>2, <2>3, Readings
  <2>5. token[t].late \/ token[t].pw = account[u].pw
    BY <2>1 DEF Granted, TokensGranted, SoundToken, HeldToken
  <2>6. token[t].pw \in Nat /\ token[t].late \in BOOLEAN
    BY <2>2 DEF Tokens
  <2> HIDE DEF r, u
  <2>7. /\ n \in Tasks /\ n.op = "second" /\ n.user = u /\ n.row = account[u]
        /\ n.proved = token[t].pw /\ n.late = token[t].late
    BY <2>4, <2>6 DEF Tasks
  <2>8. Continue(p, n, "resolve")
    BY <2>1 DEF r, u
  <2> HIDE DEF n
  <2>9. Proper(n, "resolve")
    BY <2>2, <2>5, <2>7 DEF u, Proper, Based, Shown, Entitled, Entrants, Routed
  <2> QED
    BY <2>7, <2>8, <2>9, Moves DEF Labels
<1>3. ASSUME At(p, "check"), NEW what, Accept(p, what)
      PROVE  HandlersOn
  <2> DEFINE n == [task[p] EXCEPT !.factor = TRUE]
             l == IF task[p].op = "second" THEN "spend" ELSE "act"
  <2>1. Continue(p, n, l) /\ l \in Labels
    BY <1>3 DEF Accept, Labels
  <2>2. n \in Tasks
    BY <1>0 DEF Tasks
  <2>3. Proper(n, l)
    BY <1>0, <1>3 DEF Tasks, At, Proper, Based, Shown, Entitled, Entrants, Routed
  <2> HIDE DEF n, l
  <2> QED
    BY <2>1, <2>2, <2>3, Moves
<1>4. CASE CheckStep(p)
  BY <1>3, <1>4 DEF CheckStep
<1>5. CASE CheckRecoveryCode(p)
  BY <1>3, <1>5 DEF CheckRecoveryCode
<1>6. CASE SpendPending(p)
  <2>1. Proper(task[p], "open")
    BY <1>0, <1>6 DEF SpendPending, At, Proper, Based, Shown, Entitled, Entrants, Routed
  <2> QED
    BY <1>6, <2>1, MovesOn DEF SpendPending, Labels
<1>7. CASE ResolvePending(p)
  <2> DEFINE n == Rereading(p)
  <2>1. /\ At(p, "resolve") /\ account[task[p].user].state = "active"
        /\ Continue(p, n, "check")
    BY <1>7 DEF ResolvePending
  <2>2. task[p].user \in Users /\ task[p].op = "second"
    BY <1>0, <2>1 DEF At, Proper, Routed
  <2>3. /\ n \in Tasks /\ n.op = "second" /\ n.user = task[p].user
        /\ n.row = account[task[p].user] /\ (n.late \/ n.proved = n.row.pw)
    BY <2>2, Rereads
  <2> HIDE DEF n
  <2>4. Proper(n, "check")
    BY <2>1, <2>2, <2>3 DEF Proper, Based, Shown, Entitled, Entrants, Routed
  <2> QED
    BY <2>1, <2>3, <2>4, Moves DEF Labels
<1> QED
  BY <1>1, <1>2, <1>4, <1>5, <1>6, <1>7 DEF Entering

LEMMA RecoveringHandled ==
    ASSUME Typed, Handled, NEW p \in Handlers, Recovering(p)
    PROVE  HandlersOn
<1>0. task[p] \in Tasks /\ Proper(task[p], pc[p])
  BY DEF Typed, Tables, Handled
<1>1. CASE AskReset(p)
  <2>1. PICK u \in Users : Continue(p, [Reading("reset", u) EXCEPT !.purpose = "link"], "forget")
    BY <1>1 DEF AskReset
  <2> DEFINE r == Reading("reset", u)
             n == [r EXCEPT !.purpose = "link"]
  <2>2. "reset" \in Ops
    BY DEF Ops
  <2>3. /\ r \in Tasks /\ r.op = "reset" /\ r.user = u
        /\ r.row = account[u] /\ r.proved = account[u].pw
    BY <2>2, Readings
  <2> HIDE DEF r
  <2>4. /\ n \in Tasks /\ n.op = "reset" /\ n.user = u /\ n.purpose = "link"
        /\ n.proved = n.row.pw
    BY <2>3 DEF Tasks, Purposes
  <2>5. Continue(p, n, "forget")
    BY <2>1 DEF r
  <2> HIDE DEF n
  <2>6. Proper(n, "forget")
    BY <2>4 DEF Proper, Based, Shown, Entitled, Entrants, Routed
  <2> QED
    BY <2>4, <2>5, <2>6, Moves DEF Labels
<1>2. CASE FollowReset(p)
  <2>1. PICK t \in TokenIds :
           /\ token[t] # Nil
           /\ SetPassword(token[t].user)
           /\ Continue(p, [NoTask EXCEPT !.op = "reset", !.user = token[t].user,
                                !.row = account'[token[t].user],
                                !.proved = account[token[t].user].pw + 1], "reload")
    BY <1>2 DEF FollowReset
  <2> DEFINE u == token[t].user
             row == [account[u] EXCEPT !.pw = account[u].pw + 1, !.set = TRUE]
             n == [NoTask EXCEPT !.op = "reset", !.user = u, !.row = row,
                                 !.proved = account[u].pw + 1]
  <2>2. u \in Users
    BY <2>1 DEF Typed, Tables, Tokens
  <2>3. account[u] \in Rows /\ account[u].pw + 1 \in Nat /\ "reset" \in Ops
    BY <2>2 DEF Typed, Tables, Rows, Ops
  <2>4. NoTask \in Tasks
    BY <2>2, <2>3, Readings
  <2>30. row \in Rows /\ row.pw = account[u].pw + 1
    BY <2>3 DEF Rows
  <2>31. account'[u] = row
    BY <2>1, <2>2 DEF SetPassword, Typed, Tables
  <2> HIDE DEF row
  <2>5. n \in Tasks /\ n.op = "reset" /\ n.user = u /\ n.proved = n.row.pw
    BY <2>2, <2>3, <2>4, <2>30 DEF Tasks
  <2>6. Proper(n, "reload")
    BY <2>2, <2>5 DEF Proper, Based, Shown, Entitled, Entrants, Routed
  <2> HIDE DEF n
  <2>7. Continue(p, n, "reload")
    BY <2>1, <2>31 DEF n
  <2> QED
    BY <2>5, <2>6, <2>7, Moves DEF Labels
<1>3. CASE Reload(p)
  <2> DEFINE u == task[p].user
  <2>1. At(p, "reload") /\ u \in Users /\ task[p].op \in {"reset", "provider"}
    BY <1>0, <1>3 DEF Reload, At, Proper, Routed
  <2>2. CASE task[p].op = "provider"
    <3>1. PasswordAccepted(p, Reading("provider", u)) /\ account[u].state = "active"
      BY <1>3, <2>2 DEF Reload
    <3>2. "provider" \in Ops /\ "provider" \in Entrants
      BY DEF Ops, Entrants
    <3> QED
      BY <2>1, <3>1, <3>2, ReadsPastPassword
  <2>3. CASE task[p].op = "reset"
    <3> DEFINE n == Rereading(p)
    <3>1. PasswordAccepted(p, n)
      BY <1>3, <2>3 DEF Reload
    <3>2. /\ n \in Tasks /\ n.op = "reset" /\ n.user = u
          /\ (n.late \/ n.proved = n.row.pw)
      BY <2>1, <2>3, Rereads
    <3> HIDE DEF n
    <3> QED
      BY <2>1, <3>1, <3>2, MovesPastPassword
  <2> QED
    BY <2>1, <2>2, <2>3
<1> QED
  BY <1>1, <1>2, <1>3 DEF Recovering

LEMMA ChangingHandled ==
    ASSUME SignInAssumption, Typed, Handled, Granted, NEW p \in Handlers, Changing(p)
    PROVE  HandlersOn
<1>0. task[p] \in Tasks /\ Proper(task[p], pc[p])
  BY DEF Typed, Tables, Handled
<1>1. CASE AskSettings(p)
  <2>1. PICK s \in SessionIds, op \in Settings :
           /\ session[s] # Nil /\ account[session[s].user].state = "active"
           /\ Continue(p, [Reading(op, session[s].user) EXCEPT
                             !.proved = session[s].pw, !.factor = session[s].factor,
                             !.late = Outlived(s), !.proof = session[s].proof],
                       IF op \in {"begin", "confirm", "key"} THEN "act" ELSE "prove")
    BY <1>1 DEF AskSettings
  <2> DEFINE u == session[s].user
             r == Reading(op, u)
             old == Outlived(s)
             n == [r EXCEPT !.proved = session[s].pw, !.factor = session[s].factor,
                            !.late = old, !.proof = session[s].proof]
             l == IF op \in {"begin", "confirm", "key"} THEN "act" ELSE "prove"
  <2>2. session[s] \in Sessions /\ u \in Users
    BY <2>1 DEF Typed, Tables, Sessions
  <2>3. op \in Ops /\ op # "verify" /\ op # "unlink"
    BY DEF Ops, Settings
  <2>4. r \in Tasks /\ r.op = op /\ r.user = u /\ r.row = account[u]
    BY ONLY <2>2, <2>3, Typed, Readings
  <2>5. /\ session[s].pw \in Nat /\ session[s].factor \in BOOLEAN
        /\ session[s].late \in BOOLEAN /\ session[s].proof \in BOOLEAN
        /\ account[u].enabled \in BOOLEAN
    BY <2>2 DEF Sessions, Typed, Tables, Rows
  <2>6. old \in BOOLEAN
    BY <2>5 DEF Outlived
  <2>7. /\ old \/ session[s].pw = account[u].pw
        /\ old \/ ~account[u].enabled \/ session[s].factor
    BY <2>1 DEF Granted, SessionsGranted, SoundSession, HeldSession, Outlived
  <2>8. Continue(p, n, l)
    BY <2>1
  <2> HIDE DEF r, u, old
  <2>9. /\ n \in Tasks /\ n.op = op /\ n.user = u /\ n.row = account[u]
        /\ n.proved = session[s].pw /\ n.factor = session[s].factor
        /\ n.late = old
    BY <2>4, <2>5, <2>6 DEF Tasks
  <2> HIDE DEF n
  <2>70. account[u].state = "active"
    BY <2>1 DEF u
  <2>10. Based(n, l) /\ Shown(n, l) /\ Entitled(n, l)
    BY <2>3, <2>7, <2>70, <2>9 DEF Based, Shown, Entitled
  <2>11. Routed(n, l) /\ l \in Labels
    BY <2>2, <2>3, <2>9 DEF u, Routed, Labels
  <2> HIDE DEF l
  <2> QED
    BY <2>8, <2>9, <2>10, <2>11, Moves DEF Proper
<1>2. CASE Prove(p)
  <2> DEFINE t == task[p]
             l == IF t.op \in {"disable", "recovery", "delete"} /\ t.row.enabled
                  THEN "check" ELSE "act"
  <2>1. Goto(p, l) /\ At(p, "prove")
    BY <1>2 DEF Prove
  <2>2. Proper(task[p], l)
    BY <1>0, <2>1 DEF At, Proper, Based, Shown, Entitled, Entrants, Routed
  <2> QED
    BY <2>1, <2>2, MovesOn DEF Labels
<1>3. CASE ChangePassword(p)
  <2> DEFINE u == task[p].user
             new == account[u].pw + 1
             late == Late(p)
             n == [task[p] EXCEPT !.proved = new, !.row.pw = new, !.late = late]
  <2>1. At(p, "act") /\ task[p].op = "password" /\ Continue(p, n, "open")
    BY <1>3 DEF ChangePassword, Acts
  <2>2. u \in Users
    BY <1>0, <2>1 DEF At, Proper, Routed
  <2>3. new \in Nat
    BY <2>2 DEF Typed, Tables, Rows
  <2>4. late \in BOOLEAN /\ (task[p].late => late)
    BY <1>0 DEF Late, Tasks
  <2> HIDE DEF new, late
  <2>5. /\ n \in Tasks /\ n.op = "password" /\ n.user = u /\ n.late = late
        /\ n.proved = new /\ n.row.pw = new /\ n.row.state = task[p].row.state
        /\ n.row.enabled = task[p].row.enabled /\ n.factor = task[p].factor
    BY <1>0, <2>1, <2>3, <2>4 DEF Tasks, Rows
  <2> HIDE DEF n
  <2>6. Proper(n, "open")
    BY <1>0, <2>1, <2>2, <2>4, <2>5 DEF At, Proper, Based, Shown, Entitled, Entrants, Routed
  <2> QED
    BY <2>1, <2>5, <2>6, Moves DEF Labels
<1>4. CASE MintKey(p)
  BY <1>4, MovesOut DEF MintKey
<1>5. CASE DeleteUser(p)
  BY <1>5, MovesOut DEF DeleteUser
<1> QED
  BY <1>1, <1>2, <1>3, <1>4, <1>5 DEF Changing

LEMMA AddressingHandled ==
    ASSUME SignInAssumption, Typed, Handled, NEW p \in Handlers, Addressing(p)
    PROVE  HandlersOn
<1>0. task[p] \in Tasks /\ Proper(task[p], pc[p])
  BY DEF Typed, Tables, Handled
<1>1. CASE ChangeEmail(p)
  <2>1. At(p, "act") /\ task[p].op = "email"
    BY <1>1 DEF ChangeEmail, Acts
  <2>2. PICK e \in Emails \cup {Nil} :
           IF e = Nil THEN Done(p)
           ELSE Continue(p, [task[p] EXCEPT !.row.email = e, !.purpose = "verify"], "forget")
    BY <1>1 DEF ChangeEmail
  <2>3. CASE e = Nil
    BY <2>2, <2>3, MovesOut
  <2>4. CASE e # Nil
    <3> DEFINE n == [task[p] EXCEPT !.row.email = e, !.purpose = "verify"]
    <3>1. /\ n \in Tasks /\ n.op = "email" /\ n.user = task[p].user
          /\ n.purpose = "verify" /\ n.late = task[p].late
          /\ n.proved = task[p].proved /\ n.row.pw = task[p].row.pw
      BY <1>0, <2>1 DEF Tasks, Rows, Purposes
    <3>2. Continue(p, n, "forget")
      BY <2>2, <2>4
    <3> HIDE DEF n
    <3>3. Proper(n, "forget")
      BY <1>0, <2>1, <3>1 DEF At, Proper, Based, Shown, Entitled, Entrants, Routed
    <3> QED
      BY <3>1, <3>2, <3>3, Moves DEF Labels
  <2> QED
    BY <2>3, <2>4
<1>2. CASE FollowVerify(p)
  <2>1. PICK t \in TokenIds :
           /\ token[t] # Nil
           /\ Continue(p, [NoTask EXCEPT !.op = "verify", !.user = token[t].user], "read")
    BY <1>2 DEF FollowVerify
  <2> DEFINE u == token[t].user
             n == [NoTask EXCEPT !.op = "verify", !.user = u]
  <2>2. u \in Users /\ "verify" \in Ops
    BY <2>1 DEF Typed, Tables, Tokens, Ops
  <2>3. NoTask \in Tasks
    BY <2>2, Readings
  <2>4. n \in Tasks /\ n.op = "verify" /\ n.user = u
    BY <2>2, <2>3 DEF Tasks
  <2>5. Continue(p, n, "read")
    BY <2>1
  <2> HIDE DEF n
  <2>6. Proper(n, "read")
    BY <2>2, <2>4 DEF Proper, Based, Shown, Entitled, Entrants, Routed
  <2> QED
    BY <2>4, <2>5, <2>6, Moves DEF Labels
<1>3. CASE ReadAddress(p)
  <2> DEFINE u == task[p].user
             row == account[u]
             n == [task[p] EXCEPT !.row = row, !.email = row.email]
  <2>1. At(p, "read") /\ Continue(p, n, "address")
    BY <1>3 DEF ReadAddress
  <2>2. u \in Users /\ task[p].op = "verify"
    BY <1>0, <2>1 DEF At, Proper, Routed
  <2>3. row \in Rows /\ row.email \in Emails \cup {Nil}
    BY <2>2 DEF Typed, Tables, Rows
  <2> HIDE DEF row
  <2>4. n \in Tasks /\ n.op = "verify" /\ n.user = u
    BY <1>0, <2>2, <2>3 DEF Tasks
  <2> HIDE DEF n
  <2>5. Proper(n, "address")
    BY <2>2, <2>4 DEF Proper, Based, Shown, Entitled, Entrants, Routed
  <2> QED
    BY <2>1, <2>4, <2>5, Moves DEF Labels
<1>4. CASE ConfirmAddress(p)
  <2>1. At(p, "address")
    BY <1>4 DEF ConfirmAddress
  <2>2. CASE task[p].op = "complete"
    <3>1. PasswordAccepted(p, task[p])
      BY <1>4, <2>2 DEF ConfirmAddress
    <3>2. /\ task[p].user \in Users /\ (~task[p].late => task[p].proved = task[p].row.pw)
          /\ task[p].row.state = "active"
      BY <1>0, <2>1, <2>2 DEF At, Proper, Based, Entitled, Entrants, Routed
    <3> QED
      BY <1>0, <2>2, <3>1, <3>2, MovesPastPassword DEF Entrants
  <2>3. CASE task[p].op # "complete"
    BY <1>4, <2>3, MovesOut DEF ConfirmAddress
  <2> QED
    BY <2>2, <2>3
<1> QED
  BY <1>1, <1>2, <1>3, <1>4 DEF Addressing

LEMMA EnrollingHandled ==
    ASSUME SignInAssumption, Typed, Handled, NEW p \in Handlers, Enrolling(p)
    PROVE  HandlersOn
<1>0. task[p] \in Tasks /\ Proper(task[p], pc[p])
  BY DEF Typed, Tables, Handled
<1>1. CASE BeginTOTP(p)
  BY <1>1, MovesOut DEF BeginTOTP
<1>2. CASE EnableTOTP(p)
  <2> DEFINE n == [task[p] EXCEPT !.factor = TRUE, !.row.enabled = TRUE]
  <2>1. At(p, "act") /\ task[p].op = "confirm" /\ Continue(p, n, "end")
    BY <1>2 DEF EnableTOTP, Acts
  <2> DEFINE row == [task[p].row EXCEPT !.enabled = TRUE]
  <2>20. task[p].row \in Rows
    BY <1>0 DEF Tasks
  <2>21. row \in Rows /\ row.pw = task[p].row.pw /\ row.state = task[p].row.state
    BY <2>20 DEF Rows
  <2>22. n = [task[p] EXCEPT !.factor = TRUE, !.row = row]
    BY <1>0 DEF Tasks
  <2> HIDE DEF n, row
  <2>23. n \in Tasks
    BY <1>0, <2>21, <2>22 DEF Tasks
  <2>24. n.op = task[p].op /\ n.user = task[p].user /\ n.factor = TRUE /\ n.row = row
    BY <1>0, <2>22 DEF Tasks
  <2>25. n.late = task[p].late /\ n.proved = task[p].proved
    BY <1>0, <2>22 DEF Tasks
  <2>2. /\ n \in Tasks /\ n.op = "confirm" /\ n.user = task[p].user
        /\ n.factor = TRUE /\ n.late = task[p].late
        /\ n.proved = task[p].proved /\ n.row.pw = task[p].row.pw
        /\ n.row.state = task[p].row.state
    BY <2>1, <2>21, <2>23, <2>24, <2>25
  <2>3. Proper(n, "end")
    BY <1>0, <2>1, <2>2 DEF At, Proper, Based, Shown, Entitled, Entrants, Routed
  <2> QED
    BY <2>1, <2>2, <2>3, Moves DEF Labels
<1>3. CASE EndSessions(p)
  <2> DEFINE l == IF task[p].op = "confirm" THEN "open" ELSE "endKeys"
  <2>1. At(p, "end") /\ Goto(p, l)
    BY <1>3 DEF EndSessions
  <2>2. Proper(task[p], l)
    BY <1>0, <2>1 DEF At, Proper, Based, Shown, Entitled, Entrants, Routed
  <2> QED
    BY <2>1, <2>2, MovesOn DEF Labels
<1>4. CASE EndKeys(p)
  BY <1>4, MovesOut DEF EndKeys
<1>40. CASE FailToEnd(p)
  <2>1. At(p, "end") /\ task[p].op = "suspend" /\ Goto(p, "endKeys")
    BY <1>40 DEF FailToEnd
  <2>2. Proper(task[p], "endKeys")
    BY <1>0, <2>1 DEF At, Proper, Based, Shown, Entitled, Entrants, Routed
  <2> QED
    BY <2>1, <2>2, MovesOn DEF Labels
<1>5. CASE ReplaceRecoveryCodes(p)
  BY <1>5, MovesOut DEF ReplaceRecoveryCodes
<1>6. CASE DisableTOTP(p)
  BY <1>6, MovesOut DEF DisableTOTP
<1>7. ASSUME NEW u \in Users, NEW op \in {"disable", "suspend"}, NEW l \in {"act", "end"},
             Continue(p, Reading(op, u), l)
      PROVE  HandlersOn
  <2> DEFINE r == Reading(op, u)
  <2>1. op \in Ops /\ u \in Users
    BY DEF Ops, Settings
  <2>2. /\ r \in Tasks /\ r.op = op /\ r.user = u
        /\ r.row = account[u] /\ r.proved = account[u].pw
    BY ONLY <2>1, Typed, Readings
  <2>3. Continue(p, r, l)
    BY <1>7
  <2> HIDE DEF r
  <2>4. Proper(r, l)
    BY <2>2 DEF Proper, Based, Shown, Entitled, Entrants, Routed
  <2> QED
    BY <2>2, <2>3, <2>4, Moves DEF Labels
<1>8. CASE AskClear(p)
  BY <1>7, <1>8 DEF AskClear
<1>9. CASE SetUserDisabled(p)
  <2>1. PICK u \in Users, disabled \in BOOLEAN :
           IF disabled THEN Continue(p, Reading("suspend", u), "end") ELSE UNCHANGED <<pc, task>>
    BY <1>9 DEF SetUserDisabled
  <2> QED
    BY <1>7, <2>1, Stays
<1> QED
  BY <1>1, <1>2, <1>3, <1>4, <1>40, <1>5, <1>6, <1>8, <1>9 DEF Enrolling

LEMMA ConnectingHandled ==
    ASSUME SignInAssumption, Typed, Handled, Granted, NEW p \in Handlers, Connecting(p)
    PROVE  HandlersOn
<1>0. task[p] \in Tasks /\ Proper(task[p], pc[p])
  BY DEF Typed, Tables, Handled
<1>1. CASE Callback(p)
  <2>1. PICK s \in Subjects :
           /\ identity[s] # Nil
           /\ Continue(p, [NoTask EXCEPT !.op = "provider", !.user = identity[s]], "reload")
    BY <1>1 DEF Callback
  <2> DEFINE u == identity[s]
             n == [NoTask EXCEPT !.op = "provider", !.user = u]
  <2>2. u \in Users /\ "provider" \in Ops
    BY <2>1 DEF Typed, Tables, Ops
  <2>3. NoTask \in Tasks
    BY <2>2, Readings
  <2>30. NoTask.proved = NoTask.row.pw
    BY DEF NoTask, NoAccount
  <2>4. n \in Tasks /\ n.op = "provider" /\ n.user = u /\ n.proved = n.row.pw
    BY <2>2, <2>3, <2>30 DEF Tasks
  <2>5. Continue(p, n, "reload")
    BY <2>1
  <2> HIDE DEF n
  <2>6. Proper(n, "reload")
    BY <2>2, <2>4 DEF Proper, Based, Shown, Entitled, Entrants, Routed
  <2> QED
    BY <2>4, <2>5, <2>6, Moves DEF Labels
<1>2. CASE CallbackByAddress(p)
  <2>1. PICK s \in Subjects, u \in Users :
           Continue(p, [Reading("address", u) EXCEPT !.subject = s], "link")
    BY <1>2 DEF CallbackByAddress
  <2> DEFINE r == Reading("address", u)
             n == [r EXCEPT !.subject = s]
  <2>2. "address" \in Ops
    BY DEF Ops
  <2>3. /\ r \in Tasks /\ r.op = "address" /\ r.user = u
        /\ r.row = account[u] /\ r.proved = account[u].pw
    BY <2>2, Readings
  <2>4. Continue(p, n, "link")
    BY <2>1
  <2> HIDE DEF r
  <2>50. n \in Tasks
    BY <2>3 DEF Tasks
  <2>51. n.op = r.op /\ n.user = r.user /\ n.proved = r.proved /\ n.row = r.row
    BY <2>3 DEF Tasks
  <2>5. /\ n \in Tasks /\ n.op = "address" /\ n.user = u
        /\ n.proved = n.row.pw
    BY <2>3, <2>50, <2>51
  <2> HIDE DEF n
  <2>6. Proper(n, "link")
    BY <2>5 DEF Proper, Based, Shown, Entitled, Entrants, Routed
  <2> QED
    BY <2>4, <2>5, <2>6, Moves DEF Labels
<1>3. CASE Complete(p)
  <2>1. PICK e \in Emails, u \in Users :
           Continue(p, [NoTask EXCEPT !.op = "complete", !.user = u, !.email = e, !.proved = 1,
                                      !.row = NewAccount(e, FALSE)], "address")
    BY <1>3 DEF Complete
  <2> DEFINE row == NewAccount(e, FALSE)
             n == [NoTask EXCEPT !.op = "complete", !.user = u, !.email = e, !.proved = 1,
                                 !.row = row]
  <2>2. row \in Rows /\ row.pw = 1 /\ row.state = "active"
    BY DEF NewAccount, NoAccount, Rows, States
  <2>3. "complete" \in Ops
    BY DEF Ops
  <2>4. NoTask \in Tasks
    BY <2>3, Readings
  <2>5. Continue(p, n, "address")
    BY <2>1
  <2> HIDE DEF row
  <2>6. /\ n \in Tasks /\ n.op = "complete" /\ n.user = u
        /\ n.proved = n.row.pw /\ n.row.state = "active"
    BY <2>2, <2>3, <2>4 DEF Tasks
  <2> HIDE DEF n
  <2>7. Proper(n, "address")
    BY <2>6 DEF Proper, Based, Shown, Entitled, Entrants, Routed
  <2> QED
    BY <2>5, <2>6, <2>7, Moves DEF Labels
<1>4. CASE AskConnection(p)
  <2>1. PICK s \in SessionIds, subject \in Subjects, op \in {"connect", "unlink"} :
           /\ session[s] # Nil
           /\ Continue(p, [Reading(op, session[s].user) EXCEPT
                              !.subject = subject, !.late = session[s].late],
                       IF op = "connect" THEN "link" ELSE "refusal")
    BY <1>4 DEF AskConnection
  <2> DEFINE u == session[s].user
             r == Reading(op, u)
             n == [r EXCEPT !.subject = subject, !.late = session[s].late]
             l == IF op = "connect" THEN "link" ELSE "refusal"
  <2>2. u \in Users /\ session[s].late \in BOOLEAN
    BY <2>1 DEF Typed, Tables, Sessions
  <2>3. op \in Ops
    BY DEF Ops
  <2>4. /\ r \in Tasks /\ r.op = op /\ r.user = u
        /\ r.row = account[u] /\ r.proved = account[u].pw
    BY ONLY <2>2, <2>3, Typed, Readings
  <2>5. Continue(p, n, l)
    BY <2>1
  <2> HIDE DEF r, u
  <2>6. /\ n \in Tasks /\ n.op = op /\ n.user = u
        /\ n.proved = n.row.pw
    BY <2>2, <2>4 DEF Tasks
  <2> HIDE DEF n
  <2>7. Proper(n, l)
    BY <2>2, <2>6 DEF Proper, Based, Shown, Entitled, Entrants, Routed
  <2> QED
    BY <2>5, <2>6, <2>7, Moves DEF Labels
<1>5. CASE LinkIdentity(p)
  <2> DEFINE t == task[p]
  <2>1. At(p, "link")
    BY <1>5 DEF LinkIdentity
  <2>2. CASE t.op = "address" /\ t.row.state = "active"
    <3>1. PasswordAccepted(p, task[p])
      BY <1>5, <2>2 DEF LinkIdentity
    <3>2. t.user \in Users /\ (~t.late => t.proved = t.row.pw)
      BY <1>0, <2>1, <2>2 DEF At, Proper, Based, Routed
    <3> QED
      BY <1>0, <2>2, <3>1, <3>2, MovesPastPassword DEF Entrants
  <2>3. CASE ~(t.op = "address" /\ t.row.state = "active")
    BY <1>5, <2>3, MovesOut DEF LinkIdentity
  <2> QED
    BY <2>2, <2>3
<1>6. CASE AllowUnlink(p)
  <2> DEFINE l == IF account[task[p].user].set THEN "unlink" ELSE "count"
  <2>1. At(p, "refusal") /\ Goto(p, l)
    BY <1>6 DEF AllowUnlink
  <2>2. Proper(task[p], l)
    BY <1>0, <2>1 DEF At, Proper, Based, Shown, Entitled, Entrants, Routed
  <2> QED
    BY <2>1, <2>2, MovesOn DEF Labels
<1>7. CASE CountIdentities(p)
  <2>1. At(p, "count") /\ Goto(p, "unlink")
    BY <1>7 DEF CountIdentities
  <2>2. Proper(task[p], "unlink")
    BY <1>0, <2>1 DEF At, Proper, Based, Shown, Entitled, Entrants, Routed
  <2> QED
    BY <2>1, <2>2, MovesOn DEF Labels
<1>8. CASE UnlinkIdentity(p)
  BY <1>8, MovesOut DEF UnlinkIdentity
<1> QED
  BY <1>1, <1>2, <1>3, <1>4, <1>5, <1>6, <1>7, <1>8 DEF Connecting

LEMMA RegisterHandled ==
    ASSUME SignInAssumption, Typed, Handled, NEW p \in Handlers, Register(p)
    PROVE  HandlersOn
<1>1. PICK u \in Users, e \in Emails \cup {Nil} :
         Continue(p, [NoTask EXCEPT !.op = "register", !.user = u, !.proved = 1,
                                    !.row = NewAccount(e, TRUE)], "open")
  BY DEF Register
<1> DEFINE row == NewAccount(e, TRUE)
           n == [NoTask EXCEPT !.op = "register", !.user = u, !.proved = 1, !.row = row]
<1>2. row \in Rows /\ row.pw = 1 /\ row.enabled = FALSE /\ row.state = "active"
  BY DEF NewAccount, NoAccount, Rows, States
<1>3. "register" \in Ops
  BY DEF Ops
<1>4. NoTask \in Tasks
  BY <1>3, Readings
<1>5. Continue(p, n, "open")
  BY <1>1
<1> HIDE DEF row
<1>6. /\ n \in Tasks /\ n.op = "register" /\ n.user = u
      /\ n.proved = n.row.pw /\ n.row.enabled = FALSE /\ n.row.state = "active"
  BY <1>2, <1>3, <1>4 DEF Tasks
<1> HIDE DEF n
<1>7. Proper(n, "open")
  BY <1>6 DEF Proper, Based, Shown, Entitled, Entrants, Routed
<1> QED
  BY <1>5, <1>6, <1>7, Moves DEF Labels

\* A handler's own steps keep what holds of handlers; nobody else moves them.
LEMMA HandlersStep ==
    ASSUME SignInAssumption, Typed, Handled, Granted, [Next]_vars
    PROVE  HandlersOn
<1>1. ASSUME NEW p \in Handlers, Handle(p)
      PROVE  HandlersOn
  <2>1. CASE Granting(p)
    BY <2>1, GrantingHandled
  <2>2. CASE Entering(p)
    BY <2>2, EnteringHandled
  <2>3. CASE Recovering(p)
    BY <2>3, RecoveringHandled
  <2>4. CASE Changing(p)
    BY <2>4, ChangingHandled
  <2>5. CASE Addressing(p)
    BY <2>5, AddressingHandled
  <2>6. CASE Enrolling(p)
    BY <2>6, EnrollingHandled
  <2>7. CASE Connecting(p)
    BY <2>7, ConnectingHandled
  <2>8. CASE Register(p)
    BY <2>8, RegisterHandled
  <2>9. CASE GiveUp(p)
    BY <2>9, MovesOut DEF GiveUp
  <2> QED
    BY <1>1, <2>1, <2>2, <2>3, <2>4, <2>5, <2>6, <2>7, <2>8, <2>9 DEF Handle
<1>2. CASE Lapsing
  BY <1>2, Stays DEF Lapsing, Logout, Reauthenticate, ProofLapses, TokenLapses, DropKey
<1>3. CASE Tick
  BY <1>3, Stays DEF Tick
<1>4. ASSUME NEW u \in Users, Dismiss(u)
      PROVE  HandlersOn
  BY <1>4, Stays DEF Dismiss
<1>5. CASE UNCHANGED vars
  BY <1>5, Stays DEF vars
<1> QED
  BY <1>1, <1>2, <1>3, <1>4, <1>5 DEF Next

----------------------------------------------------------------------------
(* Tables *)

LEMMA AtWork ==
    ASSUME Typed, Handled, NEW p \in Handlers, pc[p] # "idle"
    PROVE  /\ task[p] \in Tasks /\ task[p].user \in Users
           /\ account[task[p].user] \in Rows
  BY DEF Typed, Tables, Handled, Proper, Routed

LEMMA LateIsKnown ==
    ASSUME Typed, Handled, NEW p \in Handlers, pc[p] # "idle"
    PROVE  Late(p) \in BOOLEAN
<1>1. task[p] \in Tasks
  BY AtWork
<1>2. task[p].late \in BOOLEAN
  BY <1>1 DEF Tasks
<1> QED
  BY <1>2 DEF Late

LEMMA WithoutTyped ==
    ASSUME NEW D, NEW R, NEW f \in [D -> R \cup {Nil}], NEW S
    PROVE  Without(f, S) \in [D -> R \cup {Nil}]
  BY DEF Without

LEMMA TablesStay ==
    ASSUME Tables, UNCHANGED <<account, session, token, keys, codes, identity, clock, drawn,
                               spent, replayed>>
    PROVE  Tables'
  BY DEF Tables

LEMMA GrantingTables ==
    ASSUME SignInAssumption, Typed, Handled, NEW p \in Handlers, Granting(p)
    PROVE  Tables'
<1>1. CASE Forget(p)
  <2>1. token' \in [TokenIds -> Tokens \cup {Nil}]
    BY <1>1, WithoutTyped DEF Forget, Typed, Tables
  <2> QED
    BY <1>1, <2>1 DEF Forget, Typed, Tables, history
<1>2. CASE Mint(p)
  <2> DEFINE u == task[p].user
             late == Late(p)
             n == [user |-> u, purpose |-> task[p].purpose, pw |-> task[p].proved,
                   at |-> account[u].pw, late |-> late, email |-> task[p].row.email]
  <2>1. PICK t \in Unused : token' = [token EXCEPT ![t] = n]
    BY <1>2 DEF Mint
  <2>2. pc[p] = "mint"
    BY <1>2 DEF Mint, At
  <2>3. task[p] \in Tasks /\ u \in Users /\ late \in BOOLEAN /\ account[u].pw \in Nat
    BY <2>2, AtWork, LateIsKnown DEF Rows
  <2>4. task[p].purpose # "none"
    BY <2>2 DEF Handled, Proper, Routed
  <2> HIDE DEF late
  <2>5. n \in Tokens
    BY <2>3, <2>4 DEF Tasks, Rows, Purposes, Tokens
  <2>6. token' \in [TokenIds -> Tokens \cup {Nil}]
    BY <2>1, <2>5 DEF Unused, Typed, Tables
  <2> QED
    BY <1>2, <2>6 DEF Mint, Typed, Tables, history
<1>3. CASE Open(p)
  <2> DEFINE u == task[p].user
             late == Late(p)
             link == task[p].op = "reset"
             at == Grounds(account[u])
             n == [user |-> u, pw |-> task[p].proved, factor |-> task[p].factor,
                   late |-> late, link |-> link, at |-> at, proof |-> FALSE]
  <2>1. PICK s \in SessionIds : session' = [session EXCEPT ![s] = n]
    BY <1>3 DEF Open
  <2>2. pc[p] = "open"
    BY <1>3 DEF Open, At
  <2>3. task[p] \in Tasks /\ u \in Users /\ late \in BOOLEAN /\ account[u] \in Rows
    BY <2>2, AtWork, LateIsKnown
  <2>30. at \in [state : States, pw : Nat, on : Nat] /\ link \in BOOLEAN
    BY <2>3 DEF Grounds, Rows
  <2> HIDE DEF late, link, at
  <2>4. n \in Sessions
    BY <2>3, <2>30 DEF Tasks, Sessions
  <2>5. session' \in [SessionIds -> Sessions \cup {Nil}]
    BY <2>1, <2>4 DEF Typed, Tables
  <2> QED
    BY <1>3, <2>5 DEF Open, Typed, Tables, history
<1> QED
  BY <1>1, <1>2, <1>3 DEF Granting

LEMMA CheckingTables ==
    ASSUME SignInAssumption, Typed, Handled, NEW p \in Handlers,
           CheckStep(p) \/ CheckRecoveryCode(p)
    PROVE  Tables'
<1> DEFINE u == task[p].user
<1>0. u \in Users /\ account[u] \in Rows
  BY AtWork DEF CheckStep, CheckRecoveryCode, At
<1>1. CASE CheckStep(p)
  <2>1. PICK n \in Window : account' = [account EXCEPT ![u].last = n] /\ Accept(p, <<"step", n>>)
    BY <1>1 DEF CheckStep
  <2>2. n \in Nat
    BY DEF Window
  <2>3. account' \in [Users -> Rows]
    BY <1>0, <2>1, <2>2 DEF Typed, Tables, Rows
  <2>4. spent' \in [Users -> SUBSET ({"step", "code"} \X Nat)]
    BY <1>0, <2>1, <2>2 DEF Accept, Typed, Tables
  <2>5. replayed' \in BOOLEAN
    BY <2>1 DEF Accept, Typed, Tables
  <2> QED
    BY <1>1, <2>3, <2>4, <2>5 DEF CheckStep, Typed, Tables
<1>2. CASE CheckRecoveryCode(p)
  <2>1. PICK c \in codes[u] :
           codes' = [codes EXCEPT ![u] = @ \ {c}] /\ Accept(p, <<"code", c>>)
    BY <1>2 DEF CheckRecoveryCode
  <2>2. c \in Nat
    BY <1>0, <2>1 DEF Typed, Tables
  <2>3. codes' \in [Users -> SUBSET Nat]
    BY <1>0, <2>1, <2>2 DEF Typed, Tables
  <2>4. spent' \in [Users -> SUBSET ({"step", "code"} \X Nat)]
    BY <1>0, <2>1, <2>2 DEF Accept, Typed, Tables
  <2>5. replayed' \in BOOLEAN
    BY <2>1 DEF Accept, Typed, Tables
  <2> QED
    BY <1>2, <2>3, <2>4, <2>5 DEF CheckRecoveryCode, Typed, Tables
<1> QED
  BY <1>1, <1>2

LEMMA SetPasswordTables ==
    ASSUME Tables, NEW u \in Users, SetPassword(u)
    PROVE  /\ account' \in [Users -> Rows]
           /\ session' \in [SessionIds -> Sessions \cup {Nil}]
           /\ token' \in [TokenIds -> Tokens \cup {Nil}]
<1>1. account' \in [Users -> Rows]
  <2>1. account[u] \in Rows /\ account[u].pw + 1 \in Nat
    BY DEF Tables, Rows
  <2>2. [account[u] EXCEPT !.pw = @ + 1, !.set = TRUE] \in Rows
    BY <2>1 DEF Rows
  <2> QED
    BY <2>1, <2>2 DEF SetPassword, Tables, Rows
<1>2. session' \in [SessionIds -> Sessions \cup {Nil}]
  BY WithoutTyped DEF SetPassword, Tables
<1>3. token' \in [TokenIds -> Tokens \cup {Nil}]
  BY WithoutTyped DEF SetPassword, Tables
<1> QED
  BY <1>1, <1>2, <1>3

LEMMA DeletedTables ==
    ASSUME SignInAssumption, Tables, NEW u \in Users, Deleted(u)
    PROVE  /\ account' \in [Users -> Rows]
           /\ session' \in [SessionIds -> Sessions \cup {Nil}]
           /\ token' \in [TokenIds -> Tokens \cup {Nil}]
           /\ keys' \subseteq Users \X States \X BOOLEAN
           /\ codes' \in [Users -> SUBSET Nat]
           /\ identity' \in [Subjects -> Users \cup {Nil}]
<1>1. [NoAccount EXCEPT !.state = "gone"] \in Rows
  BY DEF NoAccount, Rows, States
<1>2. account' \in [Users -> Rows]
  BY <1>1 DEF Deleted, Tables
<1>3. session' \in [SessionIds -> Sessions \cup {Nil}]
  BY WithoutTyped DEF Deleted, Tables
<1>4. token' \in [TokenIds -> Tokens \cup {Nil}]
  BY WithoutTyped DEF Deleted, Tables
<1>5. /\ keys' \subseteq Users \X States \X BOOLEAN
      /\ codes' \in [Users -> SUBSET Nat]
      /\ identity' \in [Subjects -> Users \cup {Nil}]
  BY DEF Deleted, Tables
<1> QED
  BY <1>2, <1>3, <1>4, <1>5

LEMMA NewAccountRow ==
    ASSUME SignInAssumption, NEW e \in Emails \cup {Nil}, NEW set \in BOOLEAN
    PROVE  NewAccount(e, set) \in Rows
  BY DEF NewAccount, NoAccount, Rows, States

\* The actions of handlers that change the row of the account they work on.
LEMMA ChangingTables ==
    ASSUME SignInAssumption, Typed, Handled, NEW p \in Handlers, Changing(p) \/ Recovering(p)
    PROVE  Tables'
<1> DEFINE u == task[p].user
<1>1. CASE AskSettings(p) \/ Prove(p) \/ AskReset(p) \/ Reload(p)
  BY <1>1, TablesStay DEF AskSettings, Prove, AskReset, Reload, Typed, history
<1>2. CASE ChangePassword(p)
  <2>1. u \in Users
    BY <1>2, AtWork DEF ChangePassword, Acts, At
  <2>2. SetPassword(u)
    BY <1>2 DEF ChangePassword
  <2>3. /\ account' \in [Users -> Rows]
        /\ session' \in [SessionIds -> Sessions \cup {Nil}]
        /\ token' \in [TokenIds -> Tokens \cup {Nil}]
    BY <2>1, <2>2, SetPasswordTables DEF Typed
  <2> QED
    BY <1>2, <2>3 DEF ChangePassword, Typed, Tables
<1>3. CASE FollowReset(p)
  <2>1. PICK t \in TokenIds : token[t] # Nil /\ SetPassword(token[t].user)
    BY <1>3 DEF FollowReset
  <2>2. token[t].user \in Users
    BY <2>1 DEF Typed, Tables, Tokens
  <2>3. /\ account' \in [Users -> Rows]
        /\ session' \in [SessionIds -> Sessions \cup {Nil}]
        /\ token' \in [TokenIds -> Tokens \cup {Nil}]
    BY <2>1, <2>2, SetPasswordTables DEF Typed
  <2> QED
    BY <1>3, <2>3 DEF FollowReset, Typed, Tables
<1>4. CASE MintKey(p)
  <2>1. u \in Users /\ Late(p) \in BOOLEAN /\ account[u].state \in States
    BY <1>4, AtWork, LateIsKnown DEF MintKey, Acts, At, Rows
  <2>2. keys' \subseteq Users \X States \X BOOLEAN
    BY <1>4, <2>1 DEF MintKey, Typed, Tables
  <2> QED
    BY <1>4, <2>2 DEF MintKey, Typed, Tables, history
<1>5. CASE DeleteUser(p)
  <2>1. u \in Users
    BY <1>5, AtWork DEF DeleteUser, Acts, At
  <2>2. Deleted(u)
    BY <1>5 DEF DeleteUser
  <2> QED
    BY <1>5, <2>1, <2>2, DeletedTables DEF DeleteUser, Typed, Tables, history
<1> QED
  BY <1>1, <1>2, <1>3, <1>4, <1>5 DEF Changing, Recovering

LEMMA AddressingTables ==
    ASSUME SignInAssumption, Typed, Handled, NEW p \in Handlers, Addressing(p)
    PROVE  Tables'
<1> DEFINE u == task[p].user
<1>1. CASE ChangeEmail(p)
  <2>1. u \in Users
    BY <1>1, AtWork DEF ChangeEmail, Acts, At
  <2>2. PICK e \in Emails \cup {Nil} :
           account' = [account EXCEPT ![u].email = e, ![u].verified = FALSE]
    BY <1>1 DEF ChangeEmail
  <2> DEFINE row == [account[u] EXCEPT !.email = e, !.verified = FALSE]
  <2>30. account[u] \in Rows
    BY <2>1 DEF Typed, Tables
  <2>31. row \in Rows
    BY <2>30 DEF Rows
  <2>3. account' \in [Users -> Rows]
    BY <2>1, <2>2, <2>31 DEF Typed, Tables
  <2> QED
    BY <1>1, <2>3 DEF ChangeEmail, Typed, Tables, history
<1>2. CASE FollowVerify(p)
  BY <1>2 DEF FollowVerify, Typed, Tables
<1>3. CASE ReadAddress(p)
  BY <1>3, TablesStay DEF ReadAddress, Typed, history
<1>4. CASE ConfirmAddress(p)
  <2>1. u \in Users /\ task[p] \in Tasks
    BY <1>4, AtWork DEF ConfirmAddress, At
  <2>2. account' = [account EXCEPT ![u].email = task[p].email, ![u].verified = TRUE]
    BY <1>4 DEF ConfirmAddress
  <2> DEFINE e == task[p].email
             row == [account[u] EXCEPT !.email = e, !.verified = TRUE]
  <2>3. e \in Emails \cup {Nil} /\ account[u] \in Rows
    BY <2>1 DEF Tasks, Typed, Tables
  <2>4. account' = [account EXCEPT ![u].email = e, ![u].verified = TRUE]
    BY <2>2
  <2> HIDE DEF e
  <2>5. row \in Rows
    BY <2>3 DEF Rows
  <2>6. account' \in [Users -> Rows]
    BY <2>1, <2>4, <2>5 DEF Typed, Tables
  <2> QED
    BY <1>4, <2>6 DEF ConfirmAddress, Typed, Tables, history
<1> QED
  BY <1>1, <1>2, <1>3, <1>4 DEF Addressing

LEMMA EnrollingTables ==
    ASSUME SignInAssumption, Typed, Handled, NEW p \in Handlers, Enrolling(p)
    PROVE  Tables'
<1> DEFINE u == task[p].user
<1>1. CASE BeginTOTP(p)
  <2>1. u \in Users
    BY <1>1, AtWork DEF BeginTOTP, Acts, At
  <2>2. account' = [account EXCEPT ![u].secret = drawn + 1, ![u].enabled = FALSE, ![u].last = 0]
    BY <1>1 DEF BeginTOTP
  <2> DEFINE row == [account[u] EXCEPT !.secret = drawn + 1, !.enabled = FALSE, !.last = 0]
  <2>3. account[u] \in Rows /\ drawn + 1 \in Nat
    BY <2>1 DEF Typed, Tables
  <2>4. row \in Rows
    BY <2>3 DEF Rows
  <2>5. account' \in [Users -> Rows]
    BY <2>1, <2>2, <2>4 DEF Typed, Tables
  <2> QED
    BY <1>1, <2>5 DEF BeginTOTP, Typed, Tables, history
<1>2. CASE EnableTOTP(p)
  <2>1. u \in Users
    BY <1>2, AtWork DEF EnableTOTP, Acts, At
  <2>2. PICK n \in Window :
           /\ account' = [account EXCEPT ![u].enabled = TRUE, ![u].last = n]
           /\ spent' = [spent EXCEPT ![u] = {<<"step", n>>}]
    BY <1>2 DEF EnableTOTP
  <2>3. n \in Nat
    BY DEF Window
  <2> DEFINE row == [account[u] EXCEPT !.enabled = TRUE, !.last = n]
             used == {<<"step", n>>}
  <2>30. account[u] \in Rows
    BY <2>1 DEF Typed, Tables
  <2>4. row \in Rows
    BY <2>30, <2>3 DEF Rows
  <2>5. account' \in [Users -> Rows]
    BY <2>1, <2>2, <2>4 DEF Typed, Tables
  <2>6. used \in SUBSET ({"step", "code"} \X Nat)
    BY <2>3
  <2> HIDE DEF used
  <2>7. spent' \in [Users -> SUBSET ({"step", "code"} \X Nat)]
    BY <2>2, <2>6 DEF used, Typed, Tables
  <2> QED
    BY <1>2, <2>5, <2>7 DEF EnableTOTP, Typed, Tables
<1>3. CASE EndSessions(p)
  <2>1. session' \in [SessionIds -> Sessions \cup {Nil}]
    BY <1>3, WithoutTyped DEF EndSessions, Typed, Tables
  <2> QED
    BY <1>3, <2>1 DEF EndSessions, Typed, Tables
<1>4. CASE EndKeys(p) \/ FailToEnd(p)
  BY <1>4 DEF EndKeys, FailToEnd, Typed, Tables
<1>5. CASE ReplaceRecoveryCodes(p)
  <2> DEFINE new == {drawn + 1}
  <2>1. new \in SUBSET Nat /\ drawn + 1 \in Nat
    BY DEF Typed, Tables
  <2>2. codes' = [codes EXCEPT ![u] = new]
    BY <1>5 DEF ReplaceRecoveryCodes
  <2> HIDE DEF new
  <2>3. codes' \in [Users -> SUBSET Nat]
    BY <2>1, <2>2 DEF Typed, Tables
  <2> QED
    BY <1>5, <2>1, <2>3 DEF ReplaceRecoveryCodes, Typed, Tables, history
<1>6. CASE DisableTOTP(p)
  <2>1. u \in Users
    BY <1>6, AtWork DEF DisableTOTP, Acts, At
  <2>2. account' = [account EXCEPT ![u].secret = 0, ![u].enabled = FALSE, ![u].last = 0]
    BY <1>6 DEF DisableTOTP
  <2> DEFINE row == [account[u] EXCEPT !.secret = 0, !.enabled = FALSE, !.last = 0]
  <2>30. account[u] \in Rows
    BY <2>1 DEF Typed, Tables
  <2>3. row \in Rows
    BY <2>30 DEF Rows
  <2>4. account' \in [Users -> Rows]
    BY <2>1, <2>2, <2>3 DEF Typed, Tables
  <2>5. codes' \in [Users -> SUBSET Nat]
    BY <1>6 DEF DisableTOTP, Typed, Tables
  <2> QED
    BY <1>6, <2>4, <2>5 DEF DisableTOTP, Typed, Tables, history
<1>7. CASE AskClear(p)
  BY <1>7, TablesStay DEF AskClear, Typed, history
<1>8. CASE SetUserDisabled(p)
  <2>1. PICK u2 \in Users, disabled \in BOOLEAN :
           account' = [account EXCEPT ![u2].state = IF disabled THEN "disabled" ELSE "active"]
    BY <1>8 DEF SetUserDisabled
  <2> DEFINE state == IF disabled THEN "disabled" ELSE "active"
             row == [account[u2] EXCEPT !.state = state]
  <2>20. account[u2] \in Rows /\ state \in {"active", "disabled"}
    BY DEF Typed, Tables
  <2> HIDE DEF state
  <2>21. row \in Rows
    BY <2>20 DEF Rows, States
  <2>2. account' \in [Users -> Rows]
    BY <2>1, <2>21 DEF state, Typed, Tables
  <2> QED
    BY <1>8, <2>2 DEF SetUserDisabled, Typed, Tables, history
<1> QED
  BY <1>1, <1>2, <1>3, <1>4, <1>5, <1>6, <1>7, <1>8 DEF Enrolling

LEMMA ConnectingTables ==
    ASSUME SignInAssumption, Typed, Handled, NEW p \in Handlers, Connecting(p)
    PROVE  Tables'
<1>1. CASE Callback(p) \/ CallbackByAddress(p) \/ AskConnection(p) \/ AllowUnlink(p)
           \/ CountIdentities(p)
  BY <1>1, TablesStay
  DEF Callback, CallbackByAddress, AskConnection, AllowUnlink, CountIdentities, Typed, history
<1>2. CASE Complete(p)
  <2>1. PICK s \in Subjects, e \in Emails, u \in Users :
           /\ identity' = [identity EXCEPT ![s] = u]
           /\ account' = [account EXCEPT ![u] = NewAccount(e, FALSE)]
    BY <1>2 DEF Complete
  <2>2. NewAccount(e, FALSE) \in Rows
    BY NewAccountRow
  <2>3. account' \in [Users -> Rows] /\ identity' \in [Subjects -> Users \cup {Nil}]
    BY <2>1, <2>2 DEF Typed, Tables
  <2> QED
    BY <1>2, <2>3 DEF Complete, Typed, Tables
<1>3. CASE LinkIdentity(p)
  <2>1. task[p].user \in Users
    BY <1>3, AtWork DEF LinkIdentity, At
  <2>2. identity' \in [Subjects -> Users \cup {Nil}]
    BY <1>3, <2>1 DEF LinkIdentity, Typed, Tables
  <2> QED
    BY <1>3, <2>2 DEF LinkIdentity, Typed, Tables, history
<1>4. CASE UnlinkIdentity(p)
  BY <1>4 DEF UnlinkIdentity, Typed, Tables, history
<1> QED
  BY <1>1, <1>2, <1>3, <1>4 DEF Connecting

LEMMA LapsingTables ==
    ASSUME Typed, Lapsing
    PROVE  Tables'
<1>1. ASSUME NEW s \in SessionIds, Reauthenticate(s) \/ ProofLapses(s)
      PROVE  Tables'
  <2>1. session[s] \in Sessions
    BY <1>1 DEF Reauthenticate, ProofLapses, Typed, Tables
  <2>2. PICK b \in BOOLEAN : session' = [session EXCEPT ![s].proof = b]
    BY <1>1 DEF Reauthenticate, ProofLapses
  <2>3. session' \in [SessionIds -> Sessions \cup {Nil}]
    BY <2>1, <2>2 DEF Sessions, Typed, Tables
  <2> QED
    BY <1>1, <2>3 DEF Reauthenticate, ProofLapses, Typed, Tables, history
<1>2. ASSUME NEW s \in SessionIds, Logout(s)
      PROVE  Tables'
  BY <1>2 DEF Logout, Typed, Tables, history
<1>3. ASSUME NEW t \in TokenIds, TokenLapses(t)
      PROVE  Tables'
  BY <1>3 DEF TokenLapses, Typed, Tables, history
<1>4. ASSUME NEW k \in keys, DropKey(k)
      PROVE  Tables'
  BY <1>4 DEF DropKey, Typed, Tables, history
<1> QED
  BY <1>1, <1>2, <1>3, <1>4 DEF Lapsing

LEMMA TablesStep ==
    ASSUME SignInAssumption, Typed, Handled, [Next]_vars
    PROVE  Tables'
<1>1. ASSUME NEW p \in Handlers, Handle(p)
      PROVE  Tables'
  <2>1. CASE Granting(p)
    BY <2>1, GrantingTables
  <2>2. CASE CheckStep(p) \/ CheckRecoveryCode(p)
    BY <2>2, CheckingTables
  <2>3. CASE AskLogin(p) \/ AskSecondStep(p) \/ ResolvePending(p)
    BY <2>3, TablesStay DEF AskLogin, AskSecondStep, ResolvePending, Typed, history
  <2>4. CASE SpendPending(p)
    <3>1. token' \in [TokenIds -> Tokens \cup {Nil}]
      BY <2>4, WithoutTyped DEF SpendPending, Typed, Tables
    <3> QED
      BY <2>4, <3>1 DEF SpendPending, Typed, Tables, history
  <2>5. CASE Recovering(p) \/ Changing(p)
    BY <2>5, ChangingTables
  <2>6. CASE Addressing(p)
    BY <2>6, AddressingTables
  <2>7. CASE Enrolling(p)
    BY <2>7, EnrollingTables
  <2>8. CASE Connecting(p)
    BY <2>8, ConnectingTables
  <2>9. CASE Register(p)
    <3>1. PICK u \in Users, e \in Emails \cup {Nil} :
             account' = [account EXCEPT ![u] = NewAccount(e, TRUE)]
      BY <2>9 DEF Register
    <3>2. NewAccount(e, TRUE) \in Rows
      BY NewAccountRow
    <3>3. account' \in [Users -> Rows]
      BY <3>1, <3>2 DEF Typed, Tables
    <3> QED
      BY <2>9, <3>3 DEF Register, Typed, Tables, history
  <2>10. CASE GiveUp(p)
    BY <2>10, TablesStay DEF GiveUp, Typed, history
  <2> QED
    BY <1>1, <2>1, <2>2, <2>3, <2>4, <2>5, <2>6, <2>7, <2>8, <2>9, <2>10 DEF Handle, Entering
<1>2. CASE Lapsing
  BY <1>2, LapsingTables
<1>3. CASE Tick
  BY <1>3 DEF Tick, Typed, Tables, history
<1>4. ASSUME NEW u \in Users, Dismiss(u)
      PROVE  Tables'
  BY <1>4, DeletedTables DEF Dismiss, Typed, Tables, history
<1>5. CASE UNCHANGED vars
  BY <1>5, TablesStay DEF vars, history, Typed
<1> QED
  BY <1>1, <1>2, <1>3, <1>4, <1>5 DEF Next

----------------------------------------------------------------------------
(* The second factor *)

\* What an enrolment in force has accepted lies behind it: its steps up to the
\* last one, its codes among those drawn and no more among those unused.
StepsBehind ==
    \A u \in Users : account[u].enabled =>
        \A n \in Nat : <<"step", n>> \in spent[u] => n <= account[u].last
CodesBehind ==
    \A u \in Users :
        /\ \A c \in Nat : <<"code", c>> \in spent[u] => c \notin codes[u] /\ c <= drawn
        /\ \A c \in codes[u] : c <= drawn
Enrolled == FactorConfirmed /\ StepsBehind /\ CodesBehind /\ CodesSpentOnce

\* Enrolments go on as they were, or end.
EnrolmentsStay ==
    \A u \in Users : account'[u].enabled =>
        /\ account[u].enabled /\ account'[u].secret = account[u].secret
        /\ account'[u].last = account[u].last

\* A row with the same second factor, on or off.
SameFactor(new, old) ==
    new.enabled = old.enabled /\ new.secret = old.secret /\ new.last = old.last

LEMMA FactorKept ==
    ASSUME Typed, NEW u \in Users, NEW row, SameFactor(row, account[u]),
           account' = [account EXCEPT ![u] = row]
    PROVE  EnrolmentsStay
<1>1. \A v \in Users : account'[v] = account[v] \/ (v = u /\ account'[v] = row)
  BY DEF Typed, Tables
<1> QED
  BY <1>1 DEF EnrolmentsStay, SameFactor

LEMMA EnrolledStays ==
    ASSUME Tables, Tables', Enrolled, EnrolmentsStay,
           \A u \in Users : codes'[u] \subseteq codes[u],
           spent' = spent, drawn' \in {drawn, drawn + 1}, confirmed' = confirmed,
           replayed' = replayed
    PROVE  Enrolled'
<1>1. FactorConfirmed'
  BY DEF Enrolled, FactorConfirmed, EnrolmentsStay
<1>2. StepsBehind'
  BY DEF Enrolled, StepsBehind, EnrolmentsStay
<1>3. CodesBehind'
  <2>1. drawn \in Nat /\ drawn <= drawn'
    BY DEF Tables
  <2>2. ASSUME NEW u \in Users, NEW c \in Nat, <<"code", c>> \in spent'[u]
        PROVE  c \notin codes'[u] /\ c <= drawn'
    BY <2>1, <2>2 DEF Enrolled, CodesBehind, Tables
  <2>3. ASSUME NEW u \in Users, NEW c \in codes'[u]
        PROVE  c <= drawn'
    BY <2>1, <2>3 DEF Enrolled, CodesBehind, Tables
  <2> QED
    BY <2>2, <2>3 DEF CodesBehind
<1>4. CodesSpentOnce'
  BY DEF Enrolled, CodesSpentOnce
<1> QED
  BY <1>1, <1>2, <1>3, <1>4 DEF Enrolled

\* No code of the factor in force is accepted twice.
LEMMA CheckingEnrolled ==
    ASSUME SignInAssumption, Typed, Tables', Handled, Enrolled, NEW p \in Handlers,
           CheckStep(p) \/ CheckRecoveryCode(p)
    PROVE  Enrolled'
<1> DEFINE u == task[p].user
           inForce == account[u].enabled /\ task[p].row.secret = account[u].secret
<1>0. u \in Users /\ account[u] \in Rows
  BY AtWork DEF CheckStep, CheckRecoveryCode, At
<1>1. CASE CheckStep(p)
  <2>1. PICK n \in Window :
           /\ account[u].last < n
           /\ account' = [account EXCEPT ![u].last = n]
           /\ Accept(p, <<"step", n>>)
    BY <1>1 DEF CheckStep
  <2>2. n \in Nat /\ account[u].last \in Nat
    BY <1>0 DEF Window, Rows
  <2>3. /\ spent' = IF inForce THEN [spent EXCEPT ![u] = @ \cup {<<"step", n>>}] ELSE spent
        /\ replayed' = (replayed \/ (inForce /\ <<"step", n>> \in spent[u]))
        /\ confirmed' = confirmed
    BY <2>1 DEF Accept
  <2>4. codes' = codes /\ drawn' = drawn
    BY <1>1 DEF CheckStep
  <2>5. /\ account'[u].enabled = account[u].enabled
        /\ account'[u].secret = account[u].secret /\ account'[u].last = n
        /\ \A v \in Users \ {u} : account'[v] = account[v]
    BY <1>0, <2>1 DEF Rows, Typed, Tables
  <2>6. \A v \in Users : \A x : x \in spent'[v] =>
           x \in spent[v] \/ (v = u /\ x = <<"step", n>>)
    BY <1>0, <2>3 DEF Typed, Tables
  <2>7. FactorConfirmed'
    BY <2>3, <2>5 DEF Enrolled, FactorConfirmed
  <2>8. StepsBehind'
    <3> SUFFICES ASSUME NEW v \in Users, account'[v].enabled, NEW m \in Nat,
                        <<"step", m>> \in spent'[v]
                 PROVE  m <= account'[v].last
      BY DEF StepsBehind
    <3>1. CASE <<"step", m>> \in spent[v]
      <4>1. m <= account[v].last
        BY <2>5, <3>1 DEF Enrolled, StepsBehind
      <4> QED
        BY <2>1, <2>2, <2>5, <4>1
    <3>2. CASE v = u /\ m = n
      BY <2>2, <2>5, <3>2
    <3> QED
      BY <2>6, <3>1, <3>2
  <2>9. CodesBehind'
    BY <2>4, <2>6 DEF Enrolled, CodesBehind
  <2>10. CodesSpentOnce'
    <3>1. ~(inForce /\ <<"step", n>> \in spent[u])
      BY <1>0, <2>1, <2>2 DEF Enrolled, StepsBehind
    <3> QED
      BY <2>3, <3>1 DEF Enrolled, CodesSpentOnce
  <2> QED
    BY <2>7, <2>8, <2>9, <2>10 DEF Enrolled
<1>2. CASE CheckRecoveryCode(p)
  <2>1. PICK c \in codes[u] :
           /\ codes' = [codes EXCEPT ![u] = @ \ {c}]
           /\ Accept(p, <<"code", c>>)
    BY <1>2 DEF CheckRecoveryCode
  <2>2. c \in Nat
    BY <1>0, <2>1 DEF Typed, Tables
  <2>3. /\ spent' = IF inForce THEN [spent EXCEPT ![u] = @ \cup {<<"code", c>>}] ELSE spent
        /\ replayed' = (replayed \/ (inForce /\ <<"code", c>> \in spent[u]))
        /\ confirmed' = confirmed
    BY <2>1 DEF Accept
  <2>4. account' = account /\ drawn' = drawn
    BY <1>2 DEF CheckRecoveryCode
  <2>5. /\ c \notin codes'[u]
        /\ \A v \in Users : codes'[v] \subseteq codes[v]
    BY <1>0, <2>1 DEF Typed, Tables
  <2>6. \A v \in Users : \A x : x \in spent'[v] =>
           x \in spent[v] \/ (v = u /\ x = <<"code", c>>)
    BY <1>0, <2>3 DEF Typed, Tables
  <2>7. FactorConfirmed'
    BY <2>3, <2>4 DEF Enrolled, FactorConfirmed
  <2>8. StepsBehind'
    BY <2>4, <2>6 DEF Enrolled, StepsBehind
  <2>9. CodesBehind'
    <3>1. ASSUME NEW v \in Users, NEW d \in Nat, <<"code", d>> \in spent'[v]
          PROVE  d \notin codes'[v] /\ d <= drawn'
      <4>1. CASE <<"code", d>> \in spent[v]
        BY <2>4, <2>5, <4>1 DEF Enrolled, CodesBehind
      <4>2. CASE v = u /\ d = c
        BY <1>0, <2>1, <2>4, <2>5, <4>2 DEF Enrolled, CodesBehind
      <4> QED
        BY <2>6, <3>1, <4>1, <4>2
    <3>2. ASSUME NEW v \in Users, NEW d \in codes'[v]
          PROVE  d <= drawn'
      BY <2>4, <2>5, <3>2 DEF Enrolled, CodesBehind
    <3> QED
      BY <3>1, <3>2 DEF CodesBehind
  <2>10. CodesSpentOnce'
    <3>1. <<"code", c>> \notin spent[u]
      BY <1>0, <2>1, <2>2 DEF Enrolled, CodesBehind
    <3> QED
      BY <2>3, <3>1 DEF Enrolled, CodesSpentOnce
  <2> QED
    BY <2>7, <2>8, <2>9, <2>10 DEF Enrolled
<1> QED
  BY <1>1, <1>2

\* Turning the factor on accepts the code that proved its secret, and no more.
LEMMA EnablingEnrolled ==
    ASSUME SignInAssumption, Typed, Tables', Handled, Enrolled, NEW p \in Handlers,
           EnableTOTP(p)
    PROVE  Enrolled'
<1> DEFINE u == task[p].user
<1>1. u \in Users /\ account[u] \in Rows
  BY AtWork DEF EnableTOTP, Acts, At
<1>2. PICK n \in Window :
         /\ account' = [account EXCEPT ![u].enabled = TRUE, ![u].last = n]
         /\ spent' = [spent EXCEPT ![u] = {<<"step", n>>}]
  BY DEF EnableTOTP
<1>3. /\ account[u].secret = task[p].row.secret /\ confirmed' = confirmed \cup {task[p].row.secret}
      /\ codes' = codes /\ drawn' = drawn /\ replayed' = replayed
  BY DEF EnableTOTP
<1>4. n \in Nat
  BY DEF Window
<1>5. /\ account'[u].secret = account[u].secret /\ account'[u].last = n
      /\ \A v \in Users \ {u} : account'[v] = account[v]
  BY <1>1, <1>2 DEF Rows, Typed, Tables
<1>6. spent'[u] = {<<"step", n>>} /\ \A v \in Users \ {u} : spent'[v] = spent[v]
  BY <1>1, <1>2 DEF Typed, Tables
<1>7. FactorConfirmed'
  BY <1>3, <1>5 DEF Enrolled, FactorConfirmed
<1>8. StepsBehind'
  BY <1>4, <1>5, <1>6 DEF Enrolled, StepsBehind
<1>9. CodesBehind'
  BY <1>3, <1>6 DEF Enrolled, CodesBehind
<1>10. CodesSpentOnce'
  BY <1>3 DEF Enrolled, CodesSpentOnce
<1> QED
  BY <1>7, <1>8, <1>9, <1>10 DEF Enrolled

\* A set of codes drawn anew holds none that was spent.
LEMMA ReissuingEnrolled ==
    ASSUME SignInAssumption, Typed, Tables', Handled, Enrolled, NEW p \in Handlers,
           ReplaceRecoveryCodes(p)
    PROVE  Enrolled'
<1> DEFINE u == task[p].user
           new == {drawn + 1}
<1>1. /\ codes' = [codes EXCEPT ![u] = new] /\ drawn' = drawn + 1
      /\ account' = account /\ spent' = spent /\ confirmed' = confirmed
      /\ replayed' = replayed
  BY DEF ReplaceRecoveryCodes, history
<1>2. drawn \in Nat
  BY DEF Typed, Tables
<1>3. \A v \in Users : codes'[v] = codes[v] \/ codes'[v] = new
  BY <1>1 DEF Typed, Tables
<1>4. FactorConfirmed' /\ StepsBehind' /\ CodesSpentOnce'
  BY <1>1 DEF Enrolled, FactorConfirmed, StepsBehind, CodesSpentOnce
<1>5. CodesBehind'
  <2>1. ASSUME NEW v \in Users, NEW d \in Nat, <<"code", d>> \in spent'[v]
        PROVE  d \notin codes'[v] /\ d <= drawn'
    <3>1. d \notin codes[v] /\ d <= drawn
      BY <1>1, <2>1 DEF Enrolled, CodesBehind
    <3>2. d \notin new
      BY <1>2, <3>1
    <3> QED
      BY <1>1, <1>2, <1>3, <3>1, <3>2
  <2>2. ASSUME NEW v \in Users, NEW d \in codes'[v]
        PROVE  d <= drawn'
    <3>1. CASE codes'[v] = codes[v]
      <4>1. d \in Nat /\ d <= drawn
        BY <2>2, <3>1 DEF Enrolled, CodesBehind, Typed, Tables
      <4> QED
        BY <1>1, <1>2, <4>1
    <3>2. CASE codes'[v] = new
      BY <1>1, <1>2, <2>2, <3>2
    <3> QED
      BY <1>3, <3>1, <3>2
  <2> QED
    BY <2>1, <2>2 DEF CodesBehind
<1> QED
  BY <1>4, <1>5 DEF Enrolled

LEMMA EnrolledUntouched ==
    ASSUME Tables, Tables', Enrolled,
           UNCHANGED <<account, codes, drawn, confirmed, spent, replayed>>
    PROVE  Enrolled'
<1>1. EnrolmentsStay /\ \A u \in Users : codes'[u] \subseteq codes[u]
  BY DEF EnrolmentsStay
<1> QED
  BY <1>1, EnrolledStays

LEMMA ChangingEnrolled ==
    ASSUME SignInAssumption, Typed, Tables', Handled, Enrolled, NEW p \in Handlers,
           Changing(p) \/ Recovering(p)
    PROVE  Enrolled'
<1>1. CASE AskSettings(p) \/ Prove(p) \/ MintKey(p) \/ AskReset(p) \/ Reload(p)
  BY <1>1, EnrolledUntouched DEF AskSettings, Prove, MintKey, AskReset, Reload, Typed, history
<1>2. ASSUME NEW u \in Users, SetPassword(u)
      PROVE  EnrolmentsStay
  BY <1>2 DEF SetPassword, EnrolmentsStay, Typed, Tables, Rows
<1>3. CASE ChangePassword(p)
  <2>1. task[p].user \in Users
    BY <1>3, AtWork DEF ChangePassword, Acts, At
  <2>2. EnrolmentsStay
    BY <1>2, <1>3, <2>1 DEF ChangePassword
  <2> QED
    BY <1>3, <2>2, EnrolledStays DEF ChangePassword, Typed
<1>4. CASE FollowReset(p)
  <2>1. PICK t \in TokenIds : token[t] # Nil /\ SetPassword(token[t].user)
    BY <1>4 DEF FollowReset
  <2>2. token[t].user \in Users
    BY <2>1 DEF Typed, Tables, Tokens
  <2>3. EnrolmentsStay
    BY <1>2, <2>1, <2>2
  <2> QED
    BY <1>4, <2>3, EnrolledStays DEF FollowReset, Typed
<1>5. CASE DeleteUser(p)
  <2>1. EnrolmentsStay /\ \A u \in Users : codes'[u] \subseteq codes[u]
    BY <1>5 DEF DeleteUser, Deleted, NoAccount, EnrolmentsStay, Typed, Tables
  <2> QED
    BY <1>5, <2>1, EnrolledStays DEF DeleteUser, Typed, history
<1> QED
  BY <1>1, <1>3, <1>4, <1>5 DEF Changing, Recovering

LEMMA AddressingEnrolled ==
    ASSUME SignInAssumption, Typed, Tables', Handled, Enrolled, NEW p \in Handlers,
           Addressing(p)
    PROVE  Enrolled'
<1> DEFINE u == task[p].user
<1>1. CASE ChangeEmail(p)
  <2>1. u \in Users
    BY <1>1, AtWork DEF ChangeEmail, Acts, At
  <2>2. PICK e \in Emails \cup {Nil} :
           account' = [account EXCEPT ![u].email = e, ![u].verified = FALSE]
    BY <1>1 DEF ChangeEmail
  <2> DEFINE row == [account[u] EXCEPT !.email = e, !.verified = FALSE]
  <2>20. account[u] \in Rows
    BY <2>1 DEF Typed, Tables
  <2>21. SameFactor(row, account[u])
    BY <2>20 DEF SameFactor, Rows
  <2>22. account' = [account EXCEPT ![u] = row]
    BY <2>2
  <2> HIDE DEF row
  <2>3. EnrolmentsStay
    BY <2>1, <2>21, <2>22, FactorKept
  <2> QED
    BY <1>1, <2>3, EnrolledStays DEF ChangeEmail, Typed, history
<1>2. CASE FollowVerify(p) \/ ReadAddress(p)
  BY <1>2, EnrolledUntouched DEF FollowVerify, ReadAddress, Typed, history
<1>3. CASE ConfirmAddress(p)
  <2>1. u \in Users
    BY <1>3, AtWork DEF ConfirmAddress, At
  <2>2. account' = [account EXCEPT ![u].email = task[p].email, ![u].verified = TRUE]
    BY <1>3 DEF ConfirmAddress
  <2> DEFINE row == [account[u] EXCEPT !.email = task[p].email, !.verified = TRUE]
  <2>20. account[u] \in Rows
    BY <2>1 DEF Typed, Tables
  <2>21. SameFactor(row, account[u])
    BY <2>20 DEF SameFactor, Rows
  <2>22. account' = [account EXCEPT ![u] = row]
    BY <2>2
  <2> HIDE DEF row
  <2>3. EnrolmentsStay
    BY <2>1, <2>21, <2>22, FactorKept
  <2> QED
    BY <1>3, <2>3, EnrolledStays DEF ConfirmAddress, Typed, history
<1> QED
  BY <1>1, <1>2, <1>3 DEF Addressing

LEMMA EnrollingEnrolled ==
    ASSUME SignInAssumption, Typed, Tables', Handled, Enrolled, NEW p \in Handlers,
           Enrolling(p)
    PROVE  Enrolled'
<1> DEFINE u == task[p].user
<1>1. CASE BeginTOTP(p)
  <2>1. account' = [account EXCEPT ![u].secret = drawn + 1, ![u].enabled = FALSE, ![u].last = 0]
    BY <1>1 DEF BeginTOTP
  <2>2. u \in Users
    BY <1>1, AtWork DEF BeginTOTP, Acts, At
  <2>3. ~account'[u].enabled /\ \A v \in Users \ {u} : account'[v] = account[v]
    BY <2>1, <2>2 DEF Typed, Tables, Rows
  <2>4. EnrolmentsStay
    BY <2>3 DEF EnrolmentsStay
  <2> QED
    BY <1>1, <2>4, EnrolledStays DEF BeginTOTP, Typed, history
<1>2. CASE EnableTOTP(p)
  BY <1>2, EnablingEnrolled
<1>3. CASE EndSessions(p) \/ FailToEnd(p) \/ EndKeys(p) \/ AskClear(p)
  BY <1>3, EnrolledUntouched DEF EndSessions, FailToEnd, EndKeys, AskClear, Typed, history
<1>4. CASE ReplaceRecoveryCodes(p)
  BY <1>4, ReissuingEnrolled
<1>5. CASE DisableTOTP(p)
  <2>1. account' = [account EXCEPT ![u].secret = 0, ![u].enabled = FALSE, ![u].last = 0]
    BY <1>5 DEF DisableTOTP
  <2>2. u \in Users
    BY <1>5, AtWork DEF DisableTOTP, Acts, At
  <2>3. ~account'[u].enabled /\ \A v \in Users \ {u} : account'[v] = account[v]
    BY <2>1, <2>2 DEF Typed, Tables, Rows
  <2>4. EnrolmentsStay /\ \A v \in Users : codes'[v] \subseteq codes[v]
    BY <1>5, <2>3 DEF DisableTOTP, EnrolmentsStay, Typed, Tables
  <2> QED
    BY <1>5, <2>4, EnrolledStays DEF DisableTOTP, Typed, history
<1>6. CASE SetUserDisabled(p)
  <2>1. PICK v \in Users, disabled \in BOOLEAN :
           account' = [account EXCEPT ![v].state = IF disabled THEN "disabled" ELSE "active"]
    BY <1>6 DEF SetUserDisabled
  <2>2. EnrolmentsStay
    BY <2>1 DEF EnrolmentsStay, Typed, Tables, Rows
  <2> QED
    BY <1>6, <2>2, EnrolledStays DEF SetUserDisabled, Typed, history
<1> QED
  BY <1>1, <1>2, <1>3, <1>4, <1>5, <1>6 DEF Enrolling

LEMMA NewRowEnrolled ==
    ASSUME SignInAssumption, Tables, NEW u \in Users, NEW e, NEW set,
           account' = [account EXCEPT ![u] = NewAccount(e, set)]
    PROVE  EnrolmentsStay
<1>1. ~NewAccount(e, set).enabled
  BY DEF NewAccount, NoAccount
<1>2. account'[u] = NewAccount(e, set) /\ \A v \in Users \ {u} : account'[v] = account[v]
  BY DEF Tables
<1> QED
  BY <1>1, <1>2 DEF EnrolmentsStay

LEMMA EnrolledStep ==
    ASSUME SignInAssumption, Typed, Tables', Handled, Enrolled, [Next]_vars
    PROVE  Enrolled'
<1>1. ASSUME NEW p \in Handlers, Handle(p)
      PROVE  Enrolled'
  <2>1. CASE Granting(p)
    BY <2>1, EnrolledUntouched DEF Granting, Forget, Mint, Open, Typed, history
  <2>2. CASE CheckStep(p) \/ CheckRecoveryCode(p)
    BY <2>2, CheckingEnrolled
  <2>3. CASE AskLogin(p) \/ AskSecondStep(p) \/ ResolvePending(p) \/ SpendPending(p)
    BY <2>3, EnrolledUntouched
    DEF AskLogin, AskSecondStep, ResolvePending, SpendPending, Typed, history
  <2>4. CASE Recovering(p) \/ Changing(p)
    BY <2>4, ChangingEnrolled
  <2>5. CASE Addressing(p)
    BY <2>5, AddressingEnrolled
  <2>6. CASE Enrolling(p)
    BY <2>6, EnrollingEnrolled
  <2>7. CASE Callback(p) \/ CallbackByAddress(p) \/ AskConnection(p) \/ LinkIdentity(p)
             \/ AllowUnlink(p) \/ CountIdentities(p) \/ UnlinkIdentity(p)
    BY <2>7, EnrolledUntouched
    DEF Callback, CallbackByAddress, AskConnection, LinkIdentity, AllowUnlink,
        CountIdentities, UnlinkIdentity, Typed, history
  <2>8. CASE Complete(p)
    <3>1. PICK e \in Emails, u \in Users : account' = [account EXCEPT ![u] = NewAccount(e, FALSE)]
      BY <2>8 DEF Complete
    <3> QED
      BY <2>8, <3>1, NewRowEnrolled, EnrolledStays DEF Complete, Typed
  <2>9. CASE Register(p)
    <3>1. PICK u \in Users, e \in Emails \cup {Nil} :
             account' = [account EXCEPT ![u] = NewAccount(e, TRUE)]
      BY <2>9 DEF Register
    <3> QED
      BY <2>9, <3>1, NewRowEnrolled, EnrolledStays DEF Register, Typed, history
  <2>10. CASE GiveUp(p)
    BY <2>10, EnrolledUntouched DEF GiveUp, Typed, history
  <2> QED
    BY <1>1, <2>1, <2>2, <2>3, <2>4, <2>5, <2>6, <2>7, <2>8, <2>9, <2>10
    DEF Handle, Entering, Connecting
<1>2. CASE Lapsing
  BY <1>2, EnrolledUntouched
  DEF Lapsing, Logout, Reauthenticate, ProofLapses, TokenLapses, DropKey, Typed, history
<1>3. CASE Tick
  BY <1>3, EnrolledUntouched DEF Tick, Typed, history
<1>4. ASSUME NEW u \in Users, Dismiss(u)
      PROVE  Enrolled'
  <2>1. EnrolmentsStay /\ \A v \in Users : codes'[v] \subseteq codes[v]
    BY <1>4 DEF Dismiss, Deleted, NoAccount, EnrolmentsStay, Typed, Tables
  <2> QED
    BY <1>4, <2>1, EnrolledStays DEF Dismiss, Typed, history
<1>5. CASE UNCHANGED vars
  BY <1>5, EnrolledUntouched DEF vars, history, Typed
<1> QED
  BY <1>1, <1>2, <1>3, <1>4, <1>5 DEF Next

----------------------------------------------------------------------------
(* Sessions, tokens, keys *)

\* Every other handler is where it was.
Alone(p) == \A q \in Handlers \ {p} : pc'[q] = pc[q] /\ task'[q] = task[q]

\* Whatever was about to end, or failed to, is still, or has failed by now.
EndingsStay ==
    \A u \in Users, what \in {"sessions", "keys"} : Ending(u, what) => Ending(u, what)'

\* Nothing is granted; what is there may go.
SameSession(new, old) ==
    /\ new.user = old.user /\ new.pw = old.pw /\ new.factor = old.factor
    /\ new.late = old.late /\ new.link = old.link /\ new.at = old.at
NothingGranted ==
    /\ \A s \in SessionIds : session'[s] # Nil =>
          session[s] # Nil /\ SameSession(session'[s], session[s])
    /\ \A t \in TokenIds : token'[t] # Nil => token'[t] = token[t]
    /\ keys' \subseteq keys

\* An account keeps what its sessions and keys rest on, or they are about to end.
GroundStays(u) ==
    /\ Stored(u)' /\ account'[u].pw = account[u].pw
    /\ account'[u].enabled =>
          \/ Ending(u, "sessions")'
          \/ account[u].enabled /\ account'[u].secret = account[u].secret
    /\ account'[u].state = "disabled" =>
          \/ Ending(u, "sessions")' /\ Ending(u, "keys")'
          \/ account[u].state = "disabled"
GroundsStay == \A u \in Users : Stored(u) => GroundStays(u)

LEMMA Granters ==
    ASSUME Tables
    PROVE  /\ \A s \in SessionIds : session[s] # Nil =>
                 session[s] \in Sessions /\ session[s].user \in Users
           /\ \A t \in TokenIds : token[t] # Nil =>
                 token[t] \in Tokens /\ token[t].user \in Users
           /\ \A k \in keys : k[1] \in Users
  BY DEF Tables, Sessions, Tokens

\* Where a request is says what it has still to end.
LEMMA EndingIs ==
    ASSUME NEW u, NEW what
    PROVE  /\ Ending(u, what) <=>
                 \/ <<u, what>> \in abandoned
                 \/ \E p \in Handlers : u = task[p].user /\ what \in Due(task[p], pc[p])
           /\ Ending(u, what)' <=>
                 \/ <<u, what>> \in abandoned'
                 \/ \E p \in Handlers : u = task'[p].user /\ what \in Due(task'[p], pc'[p])
  BY DEF Ending, Unfinished

\* What a handler's step leaves about to end: it only has to account for its own.
LEMMA EndingStays ==
    ASSUME NEW p \in Handlers, Alone(p), NEW u, NEW what, Ending(u, what),
           <<u, what>> \in abandoned => <<u, what>> \in abandoned',
           u = task[p].user /\ what \in Due(task[p], pc[p]) =>
              \/ <<u, what>> \in abandoned'
              \/ u = task'[p].user /\ what \in Due(task'[p], pc'[p])
    PROVE  Ending(u, what)'
<1>1. CASE <<u, what>> \in abandoned
  BY <1>1, EndingIs
<1>2. ASSUME NEW q \in Handlers, u = task[q].user, what \in Due(task[q], pc[q])
      PROVE  Ending(u, what)'
  <2>1. CASE q = p
    BY <1>2, <2>1, EndingIs
  <2>2. CASE q # p
    <3>1. pc'[q] = pc[q] /\ task'[q] = task[q]
      BY <2>2 DEF Alone
    <3> QED
      BY <1>2, <3>1, EndingIs
  <2> QED
    BY <2>1, <2>2
<1> QED
  BY <1>1, <1>2, EndingIs

LEMMA EndingsOfOthers ==
    ASSUME NEW p \in Handlers, Alone(p), pc[p] \notin {"end", "endKeys"}, abandoned' = abandoned
    PROVE  EndingsStay
<1>1. Due(task[p], pc[p]) = {}
  BY DEF Due
<1> QED
  BY <1>1, EndingStays DEF EndingsStay

LEMMA EndingsUntouched ==
    ASSUME UNCHANGED <<pc, task, abandoned>>
    PROVE  EndingsStay
  BY EndingIs DEF EndingsStay

LEMMA ContinueAlone ==
    ASSUME Typed, NEW p \in Handlers, NEW t, NEW l, Continue(p, t, l)
    PROVE  Alone(p)
  BY DEF Continue, Alone, Typed

\* A table keeps to its account when what it gains does, and what it keeps has an
\* account whose grounds stay.
LEMMA GrantedStays ==
    ASSUME Tables, Granted, NothingGranted, GroundsStay, EndingsStay
    PROVE  Granted'
<1>1. SessionsGranted'
  <2> SUFFICES ASSUME NEW s \in SessionIds, session'[s] # Nil
               PROVE  (SoundSession(session[s]) /\ HeldSession(session[s]))'
    BY DEF SessionsGranted
  <2>1. session[s] # Nil /\ SameSession(session'[s], session[s])
    BY DEF NothingGranted
  <2>2. SoundSession(session[s]) /\ HeldSession(session[s]) /\ session[s].user \in Users
    BY <2>1, Granters DEF Granted, SessionsGranted
  <2>3. PICK u \in Users : u = session[s].user
    BY <2>2
  <2>4. GroundStays(u) /\ (Ending(u, "sessions") => Ending(u, "sessions")')
    BY <2>2, <2>3 DEF HeldSession, GroundsStay, EndingsStay
  <2>5. /\ session[s].at.pw = account[u].pw
        /\ account[u].enabled =>
              session[s].at.on = account[u].secret \/ Ending(u, "sessions")
        /\ account[u].state = "disabled" =>
              session[s].at.state = "disabled" \/ Ending(u, "sessions")
    BY <2>2, <2>3 DEF HeldSession
  <2>6. session'[s].user = u /\ session'[s].at = session[s].at
    BY <2>1, <2>3 DEF SameSession
  <2>7. HeldSession(session[s])'
    BY <2>4, <2>5, <2>6 DEF HeldSession, GroundStays
  <2>8. SoundSession(session[s])'
    BY <2>1, <2>2 DEF SoundSession, SameSession
  <2> QED
    BY <2>7, <2>8
<1>2. TokensGranted'
  BY Granters DEF NothingGranted, Granted, TokensGranted, SoundToken, HeldToken, GroundsStay,
                  GroundStays, Stored
<1>3. KeysGranted'
  <2> SUFFICES ASSUME NEW k \in keys'
               PROVE  SoundKey(k) /\ HeldKey(k)'
    BY DEF KeysGranted
  <2>1. k \in keys /\ SoundKey(k) /\ HeldKey(k) /\ k[1] \in Users
    BY Granters DEF NothingGranted, Granted, KeysGranted
  <2>2. GroundStays(k[1]) /\ (Ending(k[1], "keys") => Ending(k[1], "keys")')
    BY <2>1 DEF HeldKey, GroundsStay, EndingsStay
  <2> QED
    BY <2>1, <2>2 DEF HeldKey, GroundStays
<1> QED
  BY <1>1, <1>2, <1>3 DEF Granted

\* What is not late rests on the account as it is now.
LEMMA InTime ==
    ASSUME Typed, Handled, NEW p \in Handlers, pc[p] # "idle", task[p].op # "verify", ~Late(p)
    PROVE  LET t == task[p] a == account[t.user] IN
           /\ t.proved = a.pw /\ t.row.state = a.state
           /\ pc[p] = "open" /\ Grounds(a).on # 0 => t.factor
           /\ pc[p] = "open" /\ t.op # "reset" => a.state = "active"
           /\ t.op = "key" /\ pc[p] = "act" => a.state = "active"
<1>1. Proper(task[p], pc[p]) /\ ~task[p].late
  BY DEF Handled, Late
<1>2. LET r == task[p].row a == account[task[p].user] IN
      /\ r.state = a.state /\ r.pw = a.pw
      /\ Grounds(a).on # 0 => r.enabled
  BY DEF Late, Grounds
<1> QED
  BY <1>1, <1>2 DEF Proper, Based, Shown, Entitled, Entrants, Routed

\* Tables that are left alone keep what holds of them.
LEMMA SessionsAsTheyWere ==
    ASSUME SessionsGranted, Tables, UNCHANGED <<account, session>>, EndingsStay
    PROVE  SessionsGranted'
<1> SUFFICES ASSUME NEW s \in SessionIds, session[s] # Nil
             PROVE  (SoundSession(session[s]) /\ HeldSession(session[s]))'
  BY DEF SessionsGranted
<1>1. PICK u \in Users : u = session[s].user
  BY Granters
<1>2. SoundSession(session[s]) /\ HeldSession(session[s])
  BY DEF SessionsGranted
<1>3. Ending(u, "sessions") => Ending(u, "sessions")'
  BY DEF EndingsStay
<1>4. HeldSession(session[s])'
  BY <1>1, <1>2, <1>3 DEF HeldSession, Stored
<1> QED
  BY <1>2, <1>4 DEF SoundSession

LEMMA TokensAsTheyWere ==
    ASSUME TokensGranted, UNCHANGED <<account, token>>
    PROVE  TokensGranted'
  BY DEF TokensGranted, SoundToken, HeldToken, Stored

LEMMA KeysAsTheyWere ==
    ASSUME KeysGranted, Tables, UNCHANGED <<account, keys>>, EndingsStay
    PROVE  KeysGranted'
<1> SUFFICES ASSUME NEW k \in keys
             PROVE  SoundKey(k) /\ HeldKey(k)'
  BY DEF KeysGranted
<1>1. SoundKey(k) /\ HeldKey(k) /\ k[1] \in Users
  BY Granters DEF KeysGranted
<1> QED
  BY <1>1 DEF HeldKey, Stored, EndingsStay

\* A handler that grants something.
LEMMA MintGranted ==
    ASSUME SignInAssumption, Typed, Handled, Granted, NEW p \in Handlers, Mint(p)
    PROVE  Granted'
<1> DEFINE u == task[p].user
           late == Late(p)
           n == [user |-> u, purpose |-> task[p].purpose, pw |-> task[p].proved,
                 at |-> account[u].pw, late |-> late, email |-> task[p].row.email]
<1>1. PICK t \in Unused : token' = [token EXCEPT ![t] = n]
  BY DEF Mint
<1>2. pc[p] = "mint" /\ Stored(u) /\ Done(p)
  BY DEF Mint, At
<1>3. UNCHANGED <<account, session, keys, abandoned>>
  BY DEF Mint, history
<1>4. task[p].op # "verify"
  BY <1>2 DEF Handled, Proper, Routed
<1>5. late \/ task[p].proved = account[u].pw
  BY <1>2, <1>4, InTime
<1> HIDE DEF late
<1>6. t \in TokenIds /\ token'[t] = n /\ \A x \in TokenIds \ {t} : token'[x] = token[x]
  BY <1>1 DEF Unused, Typed, Tables
<1>7. EndingsStay
  BY <1>2, <1>3, ContinueAlone, EndingsOfOthers DEF Done
<1>8. TokensGranted'
  <2>1. (SoundToken(token[t]) /\ HeldToken(token[t]))'
    BY <1>2, <1>3, <1>5, <1>6 DEF SoundToken, HeldToken, Stored
  <2>2. \A x \in TokenIds \ {t} :
           token'[x] # Nil => (SoundToken(token[x]) /\ HeldToken(token[x]))'
    BY <1>3, <1>6 DEF Granted, TokensGranted, SoundToken, HeldToken, Stored
  <2> QED
    BY <2>1, <2>2 DEF TokensGranted
<1> QED
  BY <1>3, <1>7, <1>8, SessionsAsTheyWere, KeysAsTheyWere DEF Granted, Typed

LEMMA OpenGranted ==
    ASSUME SignInAssumption, Typed, Handled, Granted, NEW p \in Handlers, Open(p)
    PROVE  Granted'
<1> DEFINE late == Late(p)
           link == task[p].op = "reset"
<1>1. pc[p] = "open" /\ Stored(task[p].user) /\ Alone(p)
  BY ContinueAlone DEF Open, At, Goto, Done
<1>2. PICK u \in Users : u = task[p].user
  BY <1>1, AtWork
<1> DEFINE a == account[u]
           at == Grounds(a)
           n == [user |-> u, pw |-> task[p].proved, factor |-> task[p].factor,
                 late |-> late, link |-> link, at |-> at, proof |-> FALSE]
<1>3. PICK s \in SessionIds : session' = [session EXCEPT ![s] = n]
  BY <1>2 DEF Open
<1>4. UNCHANGED <<account, token, keys, abandoned>>
  BY DEF Open, history
<1>5. task[p].op # "verify"
  BY <1>1 DEF Handled, Proper, Routed
<1>6. late \/ /\ task[p].proved = a.pw /\ (at.on # 0 => task[p].factor)
              /\ link \/ a.state = "active"
  BY <1>1, <1>2, <1>5, InTime
<1>7. at.pw = a.pw /\ at.state = a.state /\ (a.enabled => at.on = a.secret)
  BY DEF Grounds
<1>8. EndingsStay
  BY <1>1, <1>4, EndingsOfOthers
<1> HIDE DEF late, link, at
<1>9. session'[s] = n /\ \A x \in SessionIds \ {s} : session'[x] = session[x]
  BY <1>3 DEF Typed, Tables
<1>10. SessionsGranted'
  <2>1. SoundSession(n)
    BY <1>6, <1>7 DEF SoundSession
  <2>2. HeldSession(session[s])'
    BY <1>1, <1>2, <1>4, <1>7, <1>9 DEF HeldSession, Stored
  <2>3. SoundSession(session[s])'
    BY <1>9, <2>1 DEF SoundSession
  <2>4. ASSUME NEW x \in SessionIds \ {s}, session'[x] # Nil
        PROVE  (SoundSession(session[x]) /\ HeldSession(session[x]))'
    <3>1. session'[x] = session[x] /\ session[x] # Nil
      BY <1>9, <2>4
    <3>2. SoundSession(session[x]) /\ HeldSession(session[x])
      BY <3>1 DEF Granted, SessionsGranted
    <3>3. PICK v \in Users : v = session[x].user
      BY <3>1, Granters DEF Typed
    <3>4. Ending(v, "sessions") => Ending(v, "sessions")'
      BY <1>8 DEF EndingsStay
    <3>5. HeldSession(session[x])'
      BY <1>4, <3>1, <3>2, <3>3, <3>4 DEF HeldSession, Stored
    <3> QED
      BY <3>1, <3>2, <3>5 DEF SoundSession
  <2> QED
    BY <2>2, <2>3, <2>4 DEF SessionsGranted
<1> QED
  BY <1>4, <1>8, <1>10, TokensAsTheyWere, KeysAsTheyWere DEF Granted, Typed

LEMMA MintKeyGranted ==
    ASSUME SignInAssumption, Typed, Handled, Granted, NEW p \in Handlers, MintKey(p)
    PROVE  Granted'
<1> DEFINE late == Late(p)
<1>1. pc[p] = "act" /\ task[p].op = "key" /\ Stored(task[p].user) /\ Done(p)
  BY DEF MintKey, Acts, At
<1>2. PICK u \in Users : u = task[p].user
  BY <1>1, AtWork
<1>3. keys' = keys \cup {<<u, account[u].state, late>>}
  BY <1>2 DEF MintKey
<1>4. UNCHANGED <<account, session, token, abandoned>>
  BY DEF MintKey, history
<1>5. late \/ account[u].state = "active"
  BY <1>1, <1>2, InTime
<1> HIDE DEF late
<1>6. EndingsStay
  BY <1>1, <1>4, ContinueAlone, EndingsOfOthers DEF Done
<1>7. KeysGranted'
  <2> SUFFICES ASSUME NEW k \in keys'
               PROVE  SoundKey(k) /\ HeldKey(k)'
    BY DEF KeysGranted
  <2>1. CASE k \in keys
    BY <1>4, <1>6, <2>1, Granters DEF Granted, KeysGranted, HeldKey, Stored, EndingsStay, Typed
  <2>2. CASE k = <<u, account[u].state, late>>
    BY <1>1, <1>2, <1>4, <1>5, <2>2 DEF SoundKey, HeldKey, Stored
  <2> QED
    BY <1>3, <2>1, <2>2
<1> QED
  BY <1>4, <1>6, <1>7, SessionsAsTheyWere, TokensAsTheyWere DEF Granted, Typed

\* Tables that lose what is of one account keep what holds of the others.
LEMMA SessionsOfOthers ==
    ASSUME SessionsGranted, Tables, NEW u \in Users,
           \A v \in Users \ {u} : account'[v] = account[v],
           \A v \in Users \ {u} : Ending(v, "sessions") => Ending(v, "sessions")',
           \A s \in SessionIds : session'[s] # Nil =>
               session'[s] = session[s] /\ session[s].user # u
    PROVE  SessionsGranted'
<1> SUFFICES ASSUME NEW s \in SessionIds, session'[s] # Nil
             PROVE  (SoundSession(session[s]) /\ HeldSession(session[s]))'
  BY DEF SessionsGranted
<1>1. session'[s] = session[s] /\ session[s] # Nil /\ session[s].user # u
  OBVIOUS
<1>2. PICK v \in Users \ {u} : v = session[s].user
  BY <1>1, Granters
<1>3. SoundSession(session[s]) /\ HeldSession(session[s])
  BY <1>1 DEF SessionsGranted
<1>4. account'[v] = account[v] /\ (Ending(v, "sessions") => Ending(v, "sessions")')
  OBVIOUS
<1>5. HeldSession(session[s])'
  BY <1>1, <1>2, <1>3, <1>4 DEF HeldSession, Stored
<1> QED
  BY <1>1, <1>3, <1>5 DEF SoundSession

LEMMA KeysOfOthers ==
    ASSUME KeysGranted, Tables, NEW u \in Users,
           \A v \in Users \ {u} : account'[v] = account[v],
           \A v \in Users \ {u} : Ending(v, "keys") => Ending(v, "keys")',
           \A k \in keys' : k \in keys /\ k[1] # u
    PROVE  KeysGranted'
<1> SUFFICES ASSUME NEW k \in keys'
             PROVE  SoundKey(k) /\ HeldKey(k)'
  BY DEF KeysGranted
<1>1. SoundKey(k) /\ HeldKey(k) /\ k[1] \in Users \ {u}
  BY Granters DEF KeysGranted
<1> QED
  BY <1>1 DEF HeldKey, Stored

\* A new password leaves nothing that was granted by the old one.
LEMMA SetPasswordGranted ==
    ASSUME SignInAssumption, Tables, Granted, NEW u \in Users, SetPassword(u), keys' = keys,
           NEW p \in Handlers, Alone(p), pc[p] \notin {"end", "endKeys"}
    PROVE  Granted'
<1>1. \A s \in SessionIds : session'[s] # Nil =>
         session'[s] = session[s] /\ session[s].user # u
  BY DEF SetPassword, Without, SessionsOf, Tables
<1>2. \A t \in TokenIds : token'[t] # Nil =>
         token'[t] = token[t] /\ ~(token[t].user = u /\ token[t].purpose \in {"link", "pending"})
  BY DEF SetPassword, Without, Revoked, TokensOf, Tables
<1>3. /\ account'[u].state = account[u].state
      /\ \A v \in Users \ {u} : account'[v] = account[v]
  BY DEF SetPassword, Tables, Rows
<1>4. Due(task[p], pc[p]) = {} /\ abandoned' = abandoned \ {<<u, "sessions">>}
  BY DEF Due, SetPassword
<1>5. \A v \in Users \ {u} : Ending(v, "sessions") => Ending(v, "sessions")'
  BY <1>4, EndingStays
<1>6. \A v \in Users : Ending(v, "keys") => Ending(v, "keys")'
  BY <1>4, EndingStays
<1>7. SessionsGranted'
  BY <1>1, <1>3, <1>5, SessionsOfOthers DEF Granted
<1>8. TokensGranted'
  <2> SUFFICES ASSUME NEW t \in TokenIds, token'[t] # Nil
               PROVE  (SoundToken(token[t]) /\ HeldToken(token[t]))'
    BY DEF TokensGranted
  <2>1. /\ token'[t] = token[t] /\ token[t].user \in Users
        /\ SoundToken(token[t]) /\ HeldToken(token[t])
    BY <1>2, Granters DEF Granted, TokensGranted
  <2>2. token[t].user = u => token[t].purpose = "verify"
    BY <1>2, <2>1, Granters DEF Tokens
  <2> QED
    BY <1>3, <2>1, <2>2 DEF SoundToken, HeldToken, Stored
<1>9. KeysGranted'
  <2> SUFFICES ASSUME NEW k \in keys
               PROVE  SoundKey(k) /\ HeldKey(k)'
    BY DEF KeysGranted
  <2>1. SoundKey(k) /\ HeldKey(k) /\ k[1] \in Users
    BY Granters DEF Granted, KeysGranted
  <2>2. account'[k[1]].state = account[k[1]].state
    BY <1>3, <2>1
  <2> QED
    BY <1>6, <2>1, <2>2 DEF HeldKey, Stored
<1> QED
  BY <1>7, <1>8, <1>9 DEF Granted

\* What goes with an account names no other.
LEMMA DeletedGranted ==
    ASSUME SignInAssumption, Tables, Granted, NEW u \in Users, Deleted(u), EndingsStay
    PROVE  Granted'
<1>1. \A s \in SessionIds : session'[s] # Nil =>
         session'[s] = session[s] /\ session[s].user # u
  BY DEF Deleted, Without, SessionsOf, Tables
<1>2. \A t \in TokenIds : token'[t] # Nil => token'[t] = token[t] /\ token[t].user # u
  BY DEF Deleted, Without, Tables
<1>3. \A k \in keys' : k \in keys /\ k[1] # u
  BY DEF Deleted, KeysOf
<1>4. \A v \in Users \ {u} : account'[v] = account[v]
  BY DEF Deleted, Tables
<1>5. \A v \in Users \ {u} :
         /\ Ending(v, "sessions") => Ending(v, "sessions")'
         /\ Ending(v, "keys") => Ending(v, "keys")'
  BY DEF EndingsStay
<1>6. SessionsGranted'
  BY <1>1, <1>4, <1>5, SessionsOfOthers DEF Granted
<1>7. TokensGranted'
  <2> SUFFICES ASSUME NEW t \in TokenIds, token'[t] # Nil
               PROVE  (SoundToken(token[t]) /\ HeldToken(token[t]))'
    BY DEF TokensGranted
  <2>1. /\ token'[t] = token[t] /\ token[t].user \in Users \ {u}
        /\ SoundToken(token[t]) /\ HeldToken(token[t])
    BY <1>2, Granters DEF Granted, TokensGranted
  <2> QED
    BY <1>4, <2>1 DEF SoundToken, HeldToken, Stored
<1>8. KeysGranted'
  BY <1>3, <1>4, <1>5, KeysOfOthers DEF Granted
<1> QED
  BY <1>6, <1>7, <1>8 DEF Granted

\* Turning the factor on, or disabling, leads to where the sessions are ended.
LEMMA EnableGranted ==
    ASSUME SignInAssumption, Typed, Handled, Granted, NEW p \in Handlers, EnableTOTP(p)
    PROVE  Granted'
<1>1. pc[p] = "act" /\ UNCHANGED <<session, token, keys, abandoned>>
  BY DEF EnableTOTP, Acts, At
<1>2. task[p] \in Tasks /\ task[p].user \in Users
  BY <1>1, AtWork
<1>3. PICK u \in Users : u = task[p].user
  BY <1>2
<1>4. PICK n \in Window : account' = [account EXCEPT ![u].enabled = TRUE, ![u].last = n]
  BY <1>3 DEF EnableTOTP
<1>5. /\ account'[u].state = account[u].state /\ account'[u].pw = account[u].pw
      /\ \A v \in Users \ {u} : account'[v] = account[v]
  BY <1>4 DEF Typed, Tables, Rows
<1>6. Continue(p, [task[p] EXCEPT !.factor = TRUE, !.row.enabled = TRUE], "end")
  BY DEF EnableTOTP
<1>7. EndingsStay
  BY <1>1, <1>6, ContinueAlone, EndingsOfOthers
<1>8. Ending(u, "sessions")'
  <2>1. pc'[p] = "end" /\ task'[p].user = u
    BY <1>2, <1>3, <1>6 DEF Continue, Typed, Tasks
  <2>2. "sessions" \in Due(task'[p], pc'[p])
    BY <2>1 DEF Due
  <2> QED
    BY <2>1, <2>2, EndingIs
<1>9. GroundsStay
  BY <1>5, <1>8 DEF GroundsStay, GroundStays, Stored
<1>10. NothingGranted
  BY <1>1 DEF NothingGranted, SameSession
<1> QED
  BY <1>7, <1>9, <1>10, GrantedStays DEF Typed

LEMMA DisablingGranted ==
    ASSUME SignInAssumption, Typed, Handled, Granted, NEW p \in Handlers, SetUserDisabled(p)
    PROVE  Granted'
<1>1. pc[p] = "idle" /\ UNCHANGED <<session, token, keys, abandoned>>
  BY DEF SetUserDisabled, At, history
<1>2. PICK u \in Users, disabled \in BOOLEAN :
         /\ Stored(u)
         /\ account' = [account EXCEPT ![u].state = IF disabled THEN "disabled" ELSE "active"]
         /\ IF disabled THEN Continue(p, Reading("suspend", u), "end") ELSE UNCHANGED <<pc, task>>
  BY DEF SetUserDisabled
<1>3. /\ account'[u].state = IF disabled THEN "disabled" ELSE "active"
      /\ account'[u].pw = account[u].pw /\ account'[u].enabled = account[u].enabled
      /\ account'[u].secret = account[u].secret
      /\ \A v \in Users \ {u} : account'[v] = account[v]
  BY <1>2 DEF Typed, Tables, Rows
<1>4. Alone(p)
  BY <1>2, ContinueAlone DEF Alone
<1>5. EndingsStay
  BY <1>1, <1>4, EndingsOfOthers
<1>6. disabled => Ending(u, "sessions")' /\ Ending(u, "keys")'
  <2> SUFFICES ASSUME disabled
               PROVE  Ending(u, "sessions")' /\ Ending(u, "keys")'
    OBVIOUS
  <2>1. pc'[p] = "end" /\ task'[p] = Reading("suspend", u)
    BY <1>2 DEF Continue, Typed
  <2>2. Reading("suspend", u).op = "suspend" /\ Reading("suspend", u).user = u
    BY Readings DEF Ops
  <2>3. "sessions" \in Due(task'[p], pc'[p]) /\ "keys" \in Due(task'[p], pc'[p])
    BY <2>1, <2>2 DEF Due
  <2>4. u = task'[p].user
    BY <2>1, <2>2
  <2> QED
    BY <2>3, <2>4, EndingIs
<1>7. GroundsStay
  BY <1>3, <1>6 DEF GroundsStay, GroundStays, Stored
<1>8. NothingGranted
  BY <1>1 DEF NothingGranted, SameSession
<1> QED
  BY <1>5, <1>7, <1>8, GrantedStays DEF Typed

\* Where they are ended, nothing is left to end, or it failed.
LEMMA EndSessionsGranted ==
    ASSUME SignInAssumption, Typed, Handled, Granted, NEW p \in Handlers, EndSessions(p)
    PROVE  Granted'
<1> DEFINE l == IF task[p].op = "confirm" THEN "open" ELSE "endKeys"
<1>1. pc[p] = "end" /\ UNCHANGED <<account, token, keys>> /\ Goto(p, l)
  BY DEF EndSessions, At
<1>2. PICK u \in Users : u = task[p].user
  BY <1>1, AtWork
<1>3. \A s \in SessionIds : session'[s] # Nil =>
         session'[s] = session[s] /\ session[s].user # u
  BY <1>2 DEF EndSessions, Without, SessionsOf, Typed, Tables
<1>4. abandoned' = abandoned \ {<<u, "sessions">>}
  BY <1>2 DEF EndSessions
<1>5. Alone(p) /\ pc'[p] = l /\ task'[p] = task[p]
  BY <1>1, ContinueAlone DEF Goto, Continue, Typed
<1>6. \A v \in Users \ {u} : Ending(v, "sessions") => Ending(v, "sessions")'
  BY <1>2, <1>4, <1>5, EndingStays
<1>7. \A v \in Users : Ending(v, "keys") => Ending(v, "keys")'
  <2>1. "keys" \in Due(task[p], pc[p]) => "keys" \in Due(task'[p], pc'[p])
    BY <1>1, <1>5 DEF Due
  <2> QED
    BY <1>4, <1>5, <2>1, EndingStays
<1>8. SessionsGranted'
  BY <1>1, <1>3, <1>6, SessionsOfOthers DEF Granted, Typed
<1>9. KeysGranted'
  BY <1>1, <1>7, Granters DEF Granted, KeysGranted, HeldKey, Stored, Typed
<1> QED
  BY <1>1, <1>8, <1>9, TokensAsTheyWere DEF Granted

LEMMA FailToEndGranted ==
    ASSUME SignInAssumption, Typed, Handled, Granted, NEW p \in Handlers, FailToEnd(p)
    PROVE  Granted'
<1>1. /\ pc[p] = "end" /\ task[p].op = "suspend" /\ UNCHANGED <<account, session, token, keys>>
      /\ Goto(p, "endKeys") /\ abandoned' = abandoned \cup {<<task[p].user, "sessions">>}
  BY DEF FailToEnd, At
<1>2. Alone(p) /\ pc'[p] = "endKeys" /\ task'[p] = task[p]
  BY <1>1, ContinueAlone DEF Goto, Continue, Typed
<1>3. "keys" \in Due(task'[p], pc'[p])
  BY <1>2 DEF Due
<1>4. EndingsStay
  BY <1>1, <1>2, <1>3, EndingStays DEF EndingsStay
<1> QED
  BY <1>1, <1>4, SessionsAsTheyWere, TokensAsTheyWere, KeysAsTheyWere DEF Granted, Typed

LEMMA EndKeysGranted ==
    ASSUME SignInAssumption, Typed, Handled, Granted, NEW p \in Handlers, EndKeys(p)
    PROVE  Granted'
<1>1. pc[p] = "endKeys" /\ UNCHANGED <<account, session, token>> /\ Done(p)
  BY DEF EndKeys, At
<1>2. PICK u \in Users : u = task[p].user
  BY <1>1, AtWork
<1>3. /\ \A k \in keys' : k \in keys /\ k[1] # u
      /\ abandoned' = abandoned \ {<<u, "keys">>}
  BY <1>2 DEF EndKeys, KeysOf
<1>4. Alone(p) /\ Due(task[p], pc[p]) = {"keys"}
  BY <1>1, ContinueAlone DEF Done, Due
<1>5. \A v \in Users \ {u} : Ending(v, "keys") => Ending(v, "keys")'
  BY <1>2, <1>3, <1>4, EndingStays
<1>6. \A v \in Users : Ending(v, "sessions") => Ending(v, "sessions")'
  BY <1>3, <1>4, EndingStays
<1>7. SessionsGranted'
  <2> SUFFICES ASSUME NEW s \in SessionIds, session[s] # Nil
               PROVE  (SoundSession(session[s]) /\ HeldSession(session[s]))'
    BY <1>1 DEF SessionsGranted
  <2>1. PICK v \in Users : v = session[s].user
    BY Granters DEF Typed
  <2>2. SoundSession(session[s]) /\ HeldSession(session[s])
    BY DEF Granted, SessionsGranted
  <2>3. HeldSession(session[s])'
    BY <1>1, <1>6, <2>1, <2>2 DEF HeldSession, Stored
  <2> QED
    BY <1>1, <2>2, <2>3 DEF SoundSession
<1>8. KeysGranted'
  BY <1>1, <1>3, <1>5, KeysOfOthers DEF Granted, Typed
<1> QED
  BY <1>1, <1>7, <1>8, TokensAsTheyWere DEF Granted

\* A request given up leaves what it had still to end on record.
LEMMA GiveUpGranted ==
    ASSUME SignInAssumption, Typed, Handled, Granted, NEW p \in Handlers, GiveUp(p)
    PROVE  Granted'
<1>1. /\ UNCHANGED <<account, session, token, keys>> /\ Done(p)
      /\ abandoned' = abandoned \cup Unfinished(p)
  BY DEF GiveUp
<1>2. Alone(p)
  BY <1>1, ContinueAlone DEF Done
<1>3. EndingsStay
  BY <1>1, <1>2, EndingStays DEF EndingsStay, Unfinished
<1> QED
  BY <1>1, <1>3, SessionsAsTheyWere, TokensAsTheyWere, KeysAsTheyWere DEF Granted, Typed

\* A handler that is nowhere near an end leaves whatever is about to end so.
LEMMA GrantedUntouched ==
    ASSUME Tables, Granted, NothingGranted, UNCHANGED <<account, abandoned>>,
           NEW p \in Handlers, Alone(p), pc[p] \notin {"end", "endKeys"}
    PROVE  Granted'
<1>1. EndingsStay
  BY EndingsOfOthers
<1>2. GroundsStay
  BY DEF GroundsStay, GroundStays, Stored
<1> QED
  BY <1>1, <1>2, GrantedStays

\* Requests that grant nothing and change no ground of what was granted.
LEMMA AskingGranted ==
    ASSUME SignInAssumption, Typed, Handled, Granted, NEW p \in Handlers,
           \/ Forget(p) \/ SpendPending(p) \/ FollowVerify(p)
           \/ AskLogin(p) \/ AskSecondStep(p) \/ ResolvePending(p) \/ CheckRecoveryCode(p)
           \/ AskReset(p) \/ Reload(p) \/ AskSettings(p) \/ Prove(p) \/ ReadAddress(p)
           \/ ReplaceRecoveryCodes(p) \/ AskClear(p)
           \/ Callback(p) \/ CallbackByAddress(p) \/ AskConnection(p) \/ LinkIdentity(p)
           \/ AllowUnlink(p) \/ CountIdentities(p) \/ UnlinkIdentity(p)
    PROVE  Granted'
<1>1. CASE Forget(p) \/ SpendPending(p) \/ FollowVerify(p)
  <2>1. NothingGranted /\ UNCHANGED <<account, abandoned>> /\ pc[p] \notin {"end", "endKeys"}
    BY <1>1
    DEF Forget, SpendPending, FollowVerify, At, NothingGranted, SameSession, Without, history,
        Typed, Tables
  <2>2. Alone(p)
    BY <1>1, ContinueAlone DEF Forget, SpendPending, FollowVerify, Goto
  <2> QED
    BY <2>1, <2>2, GrantedUntouched DEF Typed
<1>2. CASE CheckRecoveryCode(p)
  <2>1. NothingGranted /\ UNCHANGED <<account, abandoned>> /\ pc[p] \notin {"end", "endKeys"}
    BY <1>2 DEF CheckRecoveryCode, Accept, At, NothingGranted, SameSession
  <2>2. Alone(p)
    BY <1>2, ContinueAlone DEF CheckRecoveryCode, Accept
  <2> QED
    BY <2>1, <2>2, GrantedUntouched DEF Typed
<1>3. CASE \/ AskLogin(p) \/ AskSecondStep(p) \/ ResolvePending(p) \/ AskReset(p) \/ Reload(p)
           \/ AskSettings(p) \/ Prove(p) \/ ReadAddress(p) \/ ReplaceRecoveryCodes(p)
           \/ AskClear(p)
  <2>1. /\ UNCHANGED <<account, session, token, keys, abandoned>>
        /\ pc[p] \notin {"end", "endKeys"}
    BY <1>3
    DEF AskLogin, AskSecondStep, ResolvePending, AskReset, Reload, AskSettings, Prove,
        ReadAddress, ReplaceRecoveryCodes, AskClear, Acts, At, history
  <2>2. Alone(p)
    BY <1>3, ContinueAlone
    DEF AskLogin, AskSecondStep, ResolvePending, AskReset, Reload, AskSettings, Prove,
        ReadAddress, ReplaceRecoveryCodes, AskClear, PasswordAccepted, Goto, Done
  <2>3. NothingGranted
    BY <2>1 DEF NothingGranted, SameSession
  <2> QED
    BY <2>1, <2>2, <2>3, GrantedUntouched DEF Typed
<1>4. CASE Callback(p) \/ CallbackByAddress(p) \/ AskConnection(p) \/ LinkIdentity(p)
           \/ AllowUnlink(p) \/ CountIdentities(p) \/ UnlinkIdentity(p)
  <2>1. /\ UNCHANGED <<account, session, token, keys, abandoned>>
        /\ pc[p] \notin {"end", "endKeys"}
    BY <1>4
    DEF Callback, CallbackByAddress, AskConnection, LinkIdentity, AllowUnlink,
        CountIdentities, UnlinkIdentity, At, history
  <2>2. Alone(p)
    BY <1>4, ContinueAlone
    DEF Callback, CallbackByAddress, AskConnection, LinkIdentity, AllowUnlink,
        CountIdentities, UnlinkIdentity, PasswordAccepted, Goto, Done
  <2>3. NothingGranted
    BY <2>1 DEF NothingGranted, SameSession
  <2> QED
    BY <2>1, <2>2, <2>3, GrantedUntouched DEF Typed
<1> QED
  BY <1>1, <1>2, <1>3, <1>4

\* A row with the state, the password and no other factor than before.
SameGrounds(new, old) ==
    /\ new.state = old.state /\ new.pw = old.pw
    /\ new.enabled => old.enabled /\ new.secret = old.secret

LEMMA GroundsKept ==
    ASSUME Typed, NEW u, NEW row,
           u \in Users => SameGrounds(row, account[u]),
           account' = [account EXCEPT ![u] = row]
    PROVE  GroundsStay
<1>1. \A v \in Users : account'[v] = account[v] \/ (v = u /\ account'[v] = row)
  BY DEF Typed, Tables
<1>2. \A v \in Users : SameGrounds(account'[v], account[v])
  BY <1>1 DEF SameGrounds
<1> QED
  BY <1>2 DEF GroundsStay, GroundStays, Stored, SameGrounds

LEMMA NewRowGranted ==
    ASSUME SignInAssumption, Tables, NEW u \in Users, account[u].state = "none", NEW e, NEW set,
           account' = [account EXCEPT ![u] = NewAccount(e, set)]
    PROVE  GroundsStay
<1>1. \A v \in Users \ {u} : account'[v] = account[v]
  BY DEF Tables
<1>2. ~Stored(u)
  BY DEF Stored
<1> QED
  BY <1>1, <1>2 DEF GroundsStay, GroundStays, Stored

\* Requests that change the row of the account, but not what sessions rest on.
LEMMA RowsGranted ==
    ASSUME SignInAssumption, Typed, Handled, Granted, NEW p \in Handlers,
           \/ CheckStep(p) \/ ChangeEmail(p) \/ ConfirmAddress(p)
           \/ BeginTOTP(p) \/ DisableTOTP(p) \/ Complete(p) \/ Register(p)
    PROVE  Granted'
<1> DEFINE u == task[p].user
<1>1. NothingGranted /\ abandoned' = abandoned /\ pc[p] \notin {"end", "endKeys"}
  BY DEF CheckStep, Accept, ChangeEmail, ConfirmAddress, BeginTOTP, DisableTOTP, Complete,
         Register, Acts, At, history, NothingGranted, SameSession
<1>4. Alone(p)
  BY ContinueAlone
  DEF CheckStep, Accept, ChangeEmail, ConfirmAddress, BeginTOTP, DisableTOTP, Complete,
      Register, PasswordAccepted, Done
<1>5. EndingsStay
  BY <1>1, <1>4, EndingsOfOthers
<1>3. u \in Users => account[u] \in Rows
  BY DEF Typed, Tables
<1>2. GroundsStay
  <2>1. CASE CheckStep(p)
    <3>1. PICK n \in Window : account' = [account EXCEPT ![u].last = n]
      BY <2>1 DEF CheckStep
    <3> DEFINE row == [account[u] EXCEPT !.last = n]
    <3>2. u \in Users => SameGrounds(row, account[u])
      BY <1>3 DEF SameGrounds, Rows
    <3>3. account' = [account EXCEPT ![u] = row]
      BY <3>1
    <3> HIDE DEF row
    <3> QED
      BY <3>2, <3>3, GroundsKept
  <2>2. CASE ChangeEmail(p)
    <3>1. PICK e \in Emails \cup {Nil} :
             account' = [account EXCEPT ![u].email = e, ![u].verified = FALSE]
      BY <2>2 DEF ChangeEmail
    <3> DEFINE row == [account[u] EXCEPT !.email = e, !.verified = FALSE]
    <3>2. u \in Users => SameGrounds(row, account[u])
      BY <1>3 DEF SameGrounds, Rows
    <3>3. account' = [account EXCEPT ![u] = row]
      BY <3>1
    <3> HIDE DEF row
    <3> QED
      BY <3>2, <3>3, GroundsKept
  <2>3. CASE ConfirmAddress(p)
    <3>1. account' = [account EXCEPT ![u].email = task[p].email, ![u].verified = TRUE]
      BY <2>3 DEF ConfirmAddress
    <3> DEFINE row == [account[u] EXCEPT !.email = task[p].email, !.verified = TRUE]
    <3>2. u \in Users => SameGrounds(row, account[u])
      BY <1>3 DEF SameGrounds, Rows
    <3>3. account' = [account EXCEPT ![u] = row]
      BY <3>1
    <3> HIDE DEF row
    <3> QED
      BY <3>2, <3>3, GroundsKept
  <2>4. CASE BeginTOTP(p)
    <3>1. account' = [account EXCEPT ![u].secret = drawn + 1, ![u].enabled = FALSE, ![u].last = 0]
      BY <2>4 DEF BeginTOTP
    <3> DEFINE row == [account[u] EXCEPT !.secret = drawn + 1, !.enabled = FALSE, !.last = 0]
    <3>2. u \in Users => SameGrounds(row, account[u])
      BY <1>3 DEF SameGrounds, Rows
    <3>3. account' = [account EXCEPT ![u] = row]
      BY <3>1
    <3> HIDE DEF row
    <3> QED
      BY <3>2, <3>3, GroundsKept
  <2>5. CASE DisableTOTP(p)
    <3>1. account' = [account EXCEPT ![u].secret = 0, ![u].enabled = FALSE, ![u].last = 0]
      BY <2>5 DEF DisableTOTP
    <3> DEFINE row == [account[u] EXCEPT !.secret = 0, !.enabled = FALSE, !.last = 0]
    <3>2. u \in Users => SameGrounds(row, account[u])
      BY <1>3 DEF SameGrounds, Rows
    <3>3. account' = [account EXCEPT ![u] = row]
      BY <3>1
    <3> HIDE DEF row
    <3> QED
      BY <3>2, <3>3, GroundsKept
  <2>6. CASE Complete(p)
    <3>1. PICK e \in Emails, v \in Users :
             /\ account[v].state = "none"
             /\ account' = [account EXCEPT ![v] = NewAccount(e, FALSE)]
      BY <2>6 DEF Complete
    <3> QED
      BY <3>1, NewRowGranted DEF Typed
  <2>7. CASE Register(p)
    <3>1. PICK v \in Users, e \in Emails \cup {Nil} :
             /\ account[v].state = "none"
             /\ account' = [account EXCEPT ![v] = NewAccount(e, TRUE)]
      BY <2>7 DEF Register
    <3> QED
      BY <3>1, NewRowGranted DEF Typed
  <2> QED
    BY <2>1, <2>2, <2>3, <2>4, <2>5, <2>6, <2>7
<1> QED
  BY <1>1, <1>2, <1>5, GrantedStays DEF Typed

LEMMA PasswordsGranted ==
    ASSUME SignInAssumption, Typed, Handled, Granted, NEW p \in Handlers,
           ChangePassword(p) \/ FollowReset(p) \/ DeleteUser(p)
    PROVE  Granted'
<1>1. CASE ChangePassword(p)
  <2>1. pc[p] = "act" /\ SetPassword(task[p].user) /\ keys' = keys /\ Alone(p)
    BY <1>1, ContinueAlone DEF ChangePassword, Acts, At
  <2>2. PICK u \in Users : u = task[p].user
    BY <2>1, AtWork
  <2>3. SetPassword(u)
    BY <2>1, <2>2 DEF SetPassword
  <2> QED
    BY <2>1, <2>3, SetPasswordGranted DEF Typed
<1>2. CASE FollowReset(p)
  <2>1. PICK t \in TokenIds : token[t] # Nil /\ SetPassword(token[t].user)
    BY <1>2 DEF FollowReset
  <2>2. PICK u \in Users : u = token[t].user
    BY <2>1, Granters DEF Typed
  <2>3. SetPassword(u)
    BY <2>1, <2>2 DEF SetPassword
  <2>4. pc[p] = "idle" /\ keys' = keys /\ Alone(p)
    BY <1>2, ContinueAlone DEF FollowReset, At
  <2> QED
    BY <2>3, <2>4, SetPasswordGranted DEF Typed
<1>3. CASE DeleteUser(p)
  <2>1. pc[p] = "act" /\ Deleted(task[p].user) /\ abandoned' = abandoned /\ Alone(p)
    BY <1>3, ContinueAlone DEF DeleteUser, Acts, At, Done, history
  <2>2. PICK u \in Users : u = task[p].user
    BY <2>1, AtWork
  <2>3. Deleted(u) /\ EndingsStay
    BY <2>1, <2>2, EndingsOfOthers DEF Deleted
  <2> QED
    BY <2>3, DeletedGranted DEF Typed
<1> QED
  BY <1>1, <1>2, <1>3

LEMMA GrantedStep ==
    ASSUME SignInAssumption, Typed, Handled, Granted, [Next]_vars
    PROVE  Granted'
<1>1. ASSUME NEW p \in Handlers, Handle(p)
      PROVE  Granted'
  <2>1. CASE Granting(p)
    BY <2>1, AskingGranted, MintGranted, OpenGranted DEF Granting
  <2>2. CASE Entering(p)
    BY <2>2, AskingGranted, RowsGranted DEF Entering
  <2>3. CASE Recovering(p)
    BY <2>3, AskingGranted, PasswordsGranted DEF Recovering
  <2>4. CASE Changing(p)
    BY <2>4, AskingGranted, PasswordsGranted, MintKeyGranted DEF Changing
  <2>5. CASE Addressing(p)
    BY <2>5, AskingGranted, RowsGranted DEF Addressing
  <2>6. CASE Enrolling(p)
    BY <2>6, AskingGranted, RowsGranted, EnableGranted, DisablingGranted,
       EndSessionsGranted, FailToEndGranted, EndKeysGranted DEF Enrolling
  <2>7. CASE Connecting(p)
    BY <2>7, AskingGranted, RowsGranted DEF Connecting
  <2>8. CASE Register(p) \/ GiveUp(p)
    BY <2>8, GiveUpGranted, RowsGranted
  <2> QED
    BY <1>1, <2>1, <2>2, <2>3, <2>4, <2>5, <2>6, <2>7, <2>8 DEF Handle
<1>2. CASE Lapsing
  <2>1. ASSUME NEW s \in SessionIds, Reauthenticate(s) \/ ProofLapses(s)
        PROVE  NothingGranted
    <3>1. PICK b \in BOOLEAN : session' = [session EXCEPT ![s].proof = b]
      BY <2>1 DEF Reauthenticate, ProofLapses
    <3>2. session[s] \in Sessions /\ UNCHANGED <<token, keys>>
      BY <2>1 DEF Reauthenticate, ProofLapses, Typed, Tables
    <3>3. \A x \in SessionIds \ {s} : session'[x] = session[x]
      BY <3>1 DEF Typed, Tables
    <3>4. SameSession(session'[s], session[s])
      BY <3>1, <3>2 DEF SameSession, Sessions, Typed, Tables
    <3>5. session[s] # Nil
      BY <2>1 DEF Reauthenticate, ProofLapses
    <3> QED
      BY <3>2, <3>3, <3>4, <3>5 DEF NothingGranted, SameSession
  <2>2. ASSUME NEW s \in SessionIds, Logout(s)
        PROVE  NothingGranted
    BY <2>2 DEF Logout, NothingGranted, SameSession, Typed, Tables
  <2>3. ASSUME NEW t \in TokenIds, TokenLapses(t)
        PROVE  NothingGranted
    BY <2>3 DEF TokenLapses, NothingGranted, SameSession, Typed, Tables
  <2>4. ASSUME NEW k \in keys, DropKey(k)
        PROVE  NothingGranted
    BY <2>4 DEF DropKey, NothingGranted, SameSession
  <2>5. UNCHANGED <<account, pc, task, abandoned>>
    BY <1>2 DEF Lapsing, Logout, Reauthenticate, ProofLapses, TokenLapses, DropKey, history
  <2>6. GroundsStay /\ EndingsStay
    BY <2>5, EndingsUntouched DEF GroundsStay, GroundStays, Stored
  <2> QED
    BY <1>2, <2>1, <2>2, <2>3, <2>4, <2>6, GrantedStays DEF Lapsing, Typed
<1>3. CASE Tick \/ UNCHANGED vars
  <2>1. UNCHANGED <<account, session, token, keys, pc, task, abandoned>>
    BY <1>3 DEF Tick, vars, history
  <2>2. EndingsStay
    BY <2>1, EndingsUntouched
  <2> QED
    BY <2>1, <2>2, SessionsAsTheyWere, TokensAsTheyWere, KeysAsTheyWere DEF Granted, Typed
<1>4. ASSUME NEW u \in Users, Dismiss(u)
      PROVE  Granted'
  <2>1. Deleted(u) /\ UNCHANGED <<pc, task, abandoned>>
    BY <1>4 DEF Dismiss, history
  <2>2. EndingsStay
    BY <2>1, EndingsUntouched
  <2> QED
    BY <2>1, <2>2, DeletedGranted DEF Typed
<1> QED
  BY <1>1, <1>2, <1>3, <1>4 DEF Next

----------------------------------------------------------------------------
(* Theorems *)

SignInInv == Typed /\ Handled /\ Enrolled /\ Granted

LEMMA SignInInit == SignInAssumption /\ Init => SignInInv
<1> SUFFICES ASSUME SignInAssumption, Init
             PROVE  SignInInv
  OBVIOUS
<1>1. NoAccount \in Rows /\ NoTask \in Tasks
  BY DEF NoAccount, NoTask, Rows, States, Tasks, Ops
<1>2. Typed
  BY <1>1 DEF Init, Typed, Tables, Labels
<1>3. Handled
  BY DEF Init, Handled, Proper, Based, Shown, Entitled, Entrants, Routed, NoTask, NoAccount
<1>4. Enrolled
  BY DEF Init, Enrolled, FactorConfirmed, StepsBehind, CodesBehind, CodesSpentOnce, NoAccount
<1>5. Granted
  BY DEF Init, Granted, SessionsGranted, TokensGranted, KeysGranted
<1> QED
  BY <1>2, <1>3, <1>4, <1>5 DEF SignInInv

LEMMA SignInStep == SignInAssumption /\ SignInInv /\ [Next]_vars => SignInInv'
<1> SUFFICES ASSUME SignInAssumption, SignInInv, [Next]_vars
             PROVE  SignInInv'
  OBVIOUS
<1>1. Tables'
  BY TablesStep DEF SignInInv
<1>2. HandlersOn
  BY HandlersStep DEF SignInInv
<1>3. Enrolled'
  BY <1>1, EnrolledStep DEF SignInInv
<1>4. Granted'
  BY GrantedStep DEF SignInInv
<1> QED
  BY <1>1, <1>2, <1>3, <1>4 DEF SignInInv, Typed, HandlersOn

LEMMA SignInAlways == Spec => []SignInInv
  BY SignInAssumption, SignInInit, SignInStep, PTL DEF Spec

LEMMA GrantedCurrent == Granted => CredentialsCurrent
  BY DEF Granted, SessionsGranted, TokensGranted, SoundSession, HeldSession, SoundToken,
         HeldToken, CredentialsCurrent, SessionsCurrent, LinksCurrent

LEMMA GrantedSignedOut == SignInAssumption /\ Tables /\ Granted => DisabledSignedOut
<1> SUFFICES ASSUME Tables, Granted, NEW u \in Users, account[u].state = "disabled"
             PROVE  /\ \A s \in SessionsOf(u) :
                          \/ session[s].at.state = "disabled"
                             /\ (session[s].late \/ session[s].link)
                          \/ Ending(u, "sessions")
                    /\ \A k \in KeysOf(u) : (k[2] = "disabled" /\ k[3]) \/ Ending(u, "keys")
  BY DEF DisabledSignedOut
<1>1. ASSUME NEW s \in SessionsOf(u)
      PROVE  \/ session[s].at.state = "disabled" /\ (session[s].late \/ session[s].link)
             \/ Ending(u, "sessions")
  <2>1. session[s] # Nil /\ session[s].user = u /\ s \in SessionIds
    BY DEF SessionsOf
  <2>2. SoundSession(session[s]) /\ HeldSession(session[s])
    BY <2>1 DEF Granted, SessionsGranted
  <2> QED
    BY <2>1, <2>2 DEF SoundSession, HeldSession
<1>2. ASSUME NEW k \in KeysOf(u)
      PROVE  (k[2] = "disabled" /\ k[3]) \/ Ending(u, "keys")
  <2>1. k \in keys /\ k[1] = u
    BY DEF KeysOf
  <2>2. SoundKey(k) /\ HeldKey(k)
    BY <2>1 DEF Granted, KeysGranted
  <2> QED
    BY <2>1, <2>2 DEF SoundKey, HeldKey
<1> QED
  BY <1>1, <1>2

\* No session, reset link or half-finished sign-in outlives a change of the
\* password or of the second factor, not even one a request under way granted
\* later; what was granted in time rests on the password and the factor of its
\* moment, for any number of accounts and handlers (setPassword, rotateSession).
THEOREM CredentialsHold == Spec => []CredentialsCurrent
<1>1. SignInInv => CredentialsCurrent
  BY GrantedCurrent DEF SignInInv
<1> QED
  BY <1>1, SignInAlways, PTL

\* Past the request that disables an account, unless that failed, nothing is left
\* of what the account was signed in to, and what is granted it afterwards is
\* what requests under way were granting, or follows a reset link
\* (handleAdminSetDisabled).
THEOREM DisabledStaysOut == Spec => []DisabledSignedOut
<1>1. SignInInv => DisabledSignedOut
  BY SignInAssumption, GrantedSignedOut DEF SignInInv, Typed
<1> QED
  BY <1>1, SignInAlways, PTL

\* The secret that is on was proved by a code of its own (EnableTOTP).
THEOREM FactorHolds == Spec => []FactorConfirmed
<1>1. SignInInv => FactorConfirmed
  BY DEF SignInInv, Enrolled
<1> QED
  BY <1>1, SignInAlways, PTL

\* No code is accepted twice within an enrolment (AcceptTOTPStep,
\* ConsumeRecoveryCode).
THEOREM CodesHold == Spec => []CodesSpentOnce
<1>1. SignInInv => CodesSpentOnce
  BY DEF SignInInv, Enrolled
<1> QED
  BY <1>1, SignInAlways, PTL

\* Only its account's own request, or its deletion, lets an identity go.
LEMMA IdentitiesStep ==
    ASSUME SignInAssumption, SignInInv, [Next]_vars, NEW s \in Subjects,
           identity[s] # Nil, identity'[s] # identity[s]
    PROVE  /\ identity'[s] = Nil
           /\ \/ account'[identity[s]].state = "gone"
              \/ \E p \in Handlers : task[p].op = "unlink" /\ task[p].user = identity[s]
<1> DEFINE Goal == /\ identity'[s] = Nil
                   /\ \/ account'[identity[s]].state = "gone"
                      \/ \E p \in Handlers : task[p].op = "unlink" /\ task[p].user = identity[s]
<1>0. Typed /\ Tables /\ Handled /\ identity[s] \in Users
  BY DEF SignInInv, Typed, Tables
<1>1. ASSUME NEW u \in Users, Deleted(u)
      PROVE  Goal
  BY <1>0, <1>1 DEF Deleted, NoAccount, Tables
<1>2. ASSUME NEW p \in Handlers, Handle(p)
      PROVE  Goal
  <2>1. CASE DeleteUser(p)
    <3>1. task[p].user \in Users
      BY <1>0, <2>1, AtWork DEF DeleteUser, Acts, At
    <3> QED
      BY <1>1, <2>1, <3>1 DEF DeleteUser
  <2>2. CASE Complete(p)
    BY <1>0, <2>2 DEF Complete, Tables
  <2>3. CASE LinkIdentity(p)
    BY <1>0, <2>3 DEF LinkIdentity, Tables
  <2>4. CASE UnlinkIdentity(p)
    <3>1. task[p].op = "unlink"
      BY <1>0, <2>4 DEF UnlinkIdentity, At, Handled, Proper, Routed
    <3> QED
      BY <1>0, <2>4, <3>1 DEF UnlinkIdentity, Tables
  <2>5. CASE Granting(p) \/ Entering(p) \/ Recovering(p) \/ Addressing(p) \/ Enrolling(p)
             \/ Register(p) \/ GiveUp(p)
    BY <2>5
    DEF Granting, Forget, Mint, Open,
        Entering, AskLogin, AskSecondStep, ResolvePending, CheckStep, CheckRecoveryCode,
        SpendPending,
        Recovering, AskReset, FollowReset, Reload,
        Addressing, ChangeEmail, FollowVerify, ReadAddress, ConfirmAddress,
        Enrolling, BeginTOTP, EnableTOTP, EndSessions, FailToEnd, EndKeys, ReplaceRecoveryCodes,
        DisableTOTP, AskClear, SetUserDisabled, Register, GiveUp
  <2>6. CASE AskSettings(p) \/ Prove(p) \/ ChangePassword(p) \/ MintKey(p)
    BY <2>6 DEF AskSettings, Prove, ChangePassword, MintKey
  <2>7. CASE Callback(p) \/ CallbackByAddress(p) \/ AskConnection(p) \/ AllowUnlink(p)
             \/ CountIdentities(p)
    BY <2>7 DEF Callback, CallbackByAddress, AskConnection, AllowUnlink, CountIdentities
  <2> QED
    BY <1>2, <2>1, <2>2, <2>3, <2>4, <2>5, <2>6, <2>7 DEF Handle, Changing, Connecting
<1>3. CASE Lapsing \/ Tick \/ UNCHANGED vars
  BY <1>3
  DEF Lapsing, Logout, Reauthenticate, ProofLapses, TokenLapses, DropKey, Tick, vars
<1>4. ASSUME NEW u \in Users, Dismiss(u)
      PROVE  Goal
  BY <1>1, <1>4 DEF Dismiss
<1> QED
  BY <1>2, <1>3, <1>4 DEF Next

\* An identity never moves from one account to another, whatever callbacks and
\* registrations race for it (LinkIdentity).
THEOREM IdentitiesHold == Spec => IdentitiesKept
<1>1. SignInInv /\ [Next]_vars =>
        [\A s \in Subjects : identity[s] # Nil /\ identity'[s] # identity[s] =>
          /\ identity'[s] = Nil
          /\ \/ account'[identity[s]].state = "gone"
             \/ \E p \in Handlers : task[p].op = "unlink" /\ task[p].user = identity[s]]_vars
  BY SignInAssumption, IdentitiesStep
<1> QED
  BY <1>1, SignInAlways, PTL DEF Spec, IdentitiesKept
=============================================================================
