------------------------------- MODULE SignIn -------------------------------
(***************************************************************************)
(* How accounts sign in and look after their credentials: passwords,       *)
(* sessions, API keys, mailed links, the second factor, and identities at  *)
(* a provider.  Handlers interleave statement by statement; each works on  *)
(* the row of the account it read at its start (row) while others change   *)
(* the account.                                                            *)
(*                                                                         *)
(* A password is its version: each change makes a new one.  A secret of    *)
(* the second factor and a set of recovery codes are numbers drawn afresh, *)
(* and a set is kept as one code.  The code an authenticator shows is the  *)
(* secret and the time step.  Digests, sealing and cookies are left out:   *)
(* whoever shows a token was given it.                                     *)
(***************************************************************************)
EXTENDS Integers, FiniteSets

CONSTANTS
    Users,
    SessionIds, TokenIds,   \* bounds: sessions and tokens at a time
    Emails,
    Subjects,               \* people at the identity provider
    Handlers,
    MaxPassword, MaxDrawn, MaxClock,   \* bounds: changes, drawings, time steps
    Nil

States == {"none", "active", "disabled", "gone"}

\* Rows of the tables of sessions and of tokens.  Beside what the code keeps: the
\* password each rests on (pw) and whether a code was shown (factor), what the
\* account was when it was granted (at), whether the account had changed under
\* the request that granted it (late), and whether that followed a reset link.
Sessions == [user : Users, pw : Nat, factor : BOOLEAN, late : BOOLEAN, link : BOOLEAN,
             at : [state : States, pw : Nat, on : Nat], proof : BOOLEAN]
Tokens == [user : Users, purpose : {"pending", "link", "verify"}, pw : Nat,
           at : Nat, late : BOOLEAN, email : Emails \cup {Nil}]

ASSUME SignInAssumption ==
    /\ MaxPassword \in Nat /\ MaxDrawn \in Nat /\ MaxClock \in Nat
    /\ Nil \notin Users \cup Emails \cup Subjects \cup TokenIds
    /\ Nil \notin Sessions /\ Nil \notin Tokens

VARIABLES
    account,   \* rows of users, with password_set as set
    session, token,
    keys,      \* API keys: whose, the account's state when minted, and late
    codes,     \* unused recovery codes
    identity,  \* the account each subject is linked to
    clock,     \* the current TOTP step
    drawn,     \* secrets and code sets drawn so far
    pc, task

\* What has happened, for the properties.
VARIABLES
    confirmed,   \* secrets a code of which was proved at enrolment
    spent,       \* what the enrolment in force has accepted
    replayed,    \* something was accepted twice
    proven,      \* addresses that were shown to be an account's
    abandoned    \* accounts whose sessions or keys a request failed to end

history == <<confirmed, spent, replayed, proven, abandoned>>
vars == <<account, session, token, keys, codes, identity, clock, drawn, pc, task, history>>

----------------------------------------------------------------------------
(* Accounts, handlers *)

NoAccount == [state |-> "none", pw |-> 0, set |-> FALSE, email |-> Nil, verified |-> FALSE,
              secret |-> 0, enabled |-> FALSE, last |-> 0]
NewAccount(e, set) ==
    [NoAccount EXCEPT !.state = "active", !.pw = 1, !.set = set, !.email = e]
Stored(u) == account[u].state \in {"active", "disabled"}

NoTask == [op |-> "none", user |-> Nil, row |-> NoAccount, proved |-> 0, factor |-> FALSE,
           late |-> FALSE, proof |-> FALSE, token |-> Nil, purpose |-> "none",
           subject |-> Nil, email |-> Nil]

\* The row a handler reads, and the password that proves itself by it.
Reading(op, u) ==
    [NoTask EXCEPT !.op = op, !.user = u, !.row = account[u], !.proved = account[u].pw]

At(p, label) == pc[p] = label
Continue(p, t, label) ==
    /\ task' = [task EXCEPT ![p] = t]
    /\ pc' = [pc EXCEPT ![p] = label]
Goto(p, label) == Continue(p, task[p], label)
Done(p) == Continue(p, NoTask, "idle")

\* What a row says of who may sign in, and how.
Grounds(row) ==
    [state |-> row.state, pw |-> row.pw, on |-> IF row.enabled THEN row.secret ELSE 0]

\* The grounds have moved since the request began.
Late(p) == task[p].late \/ Grounds(task[p].row) # Grounds(account[task[p].user])

\* TwoFactorRequired
AfterPassword(t) ==
    IF t.row.enabled THEN [t EXCEPT !.purpose = "pending"] ELSE t
NextAfterPassword(t) == IF t.row.enabled THEN "forget" ELSE "open"
PasswordAccepted(p, t) == Continue(p, AfterPassword(t), NextAfterPassword(t))

----------------------------------------------------------------------------
(* Tokens and sessions *)

TokensOf(u, purposes) ==
    {t \in TokenIds : token[t] # Nil /\ token[t].user = u /\ token[t].purpose \in purposes}
Without(f, S) == [x \in DOMAIN f |-> IF x \in S THEN Nil ELSE f[x]]
SessionsOf(u) == {s \in SessionIds : session[s] # Nil /\ session[s].user = u}
KeysOf(u) == {k \in keys : k[1] = u}
Unused == {t \in TokenIds : token[t] = Nil /\ \A q \in Handlers : task[q].token # t}

\* DeleteAuthTokensForUser: only the newest should work...
Forget(p) ==
    /\ At(p, "forget")
    /\ token' = Without(token, TokensOf(task[p].user, {task[p].purpose}))
    /\ Goto(p, "mint")
    /\ UNCHANGED <<account, session, keys, codes, identity, clock, drawn, history>>

\* ... CreateAuthToken.
Mint(p) ==
    /\ At(p, "mint") /\ Stored(task[p].user)
    /\ \E t \in Unused :
          token' = [token EXCEPT ![t] =
              [user |-> task[p].user, purpose |-> task[p].purpose, pw |-> task[p].proved,
               at |-> account[task[p].user].pw, late |-> Late(p), email |-> task[p].row.email]]
    /\ Done(p)
    /\ UNCHANGED <<account, session, keys, codes, identity, clock, drawn, history>>

\* newSession, and what its request still has to do.
Open(p) ==
    LET t == task[p] IN
    /\ At(p, "open") /\ Stored(t.user)
    /\ \E s \in SessionIds :
          /\ session[s] = Nil
          /\ session' = [session EXCEPT ![s] =
                [user |-> t.user, pw |-> t.proved, factor |-> t.factor, late |-> Late(p),
                 link |-> t.op = "reset", at |-> Grounds(account[t.user]), proof |-> FALSE]]
    /\ CASE t.op = "confirm" -> Goto(p, "reissue")
         [] t.op = "register" /\ t.row.email # Nil ->
                Continue(p, [t EXCEPT !.purpose = "verify"], "forget")
         [] OTHER -> Done(p)
    /\ UNCHANGED <<account, token, keys, codes, identity, clock, drawn, history>>

Logout(s) ==
    /\ session[s] # Nil
    /\ session' = [session EXCEPT ![s] = Nil]
    /\ UNCHANGED <<account, token, keys, codes, identity, clock, drawn, pc, task, history>>

\* Tokens and keys lapse as sessions do; the reaper's prunes change nothing more.
TokenLapses(t) ==
    /\ token[t] # Nil
    /\ token' = [token EXCEPT ![t] = Nil]
    /\ UNCHANGED <<account, session, keys, codes, identity, clock, drawn, pc, task, history>>

----------------------------------------------------------------------------
(* Signing in *)

\* handleLogin: the account, the password and the switch in one reading.
AskLogin(p) ==
    /\ At(p, "idle")
    /\ \E u \in Users :
          /\ account[u].state = "active" /\ account[u].set
          /\ PasswordAccepted(p, Reading("login", u))
    /\ UNCHANGED <<account, session, token, keys, codes, identity, clock, drawn, history>>

\* handleLoginTwoFactor, AuthTokenValid: the pending token is looked up (the row
\* is the account as the request found it)...
AskSecondStep(p) ==
    /\ At(p, "idle")
    /\ \E t \in TokenIds :
          /\ token[t] # Nil /\ token[t].purpose = "pending"
          /\ Continue(p, [Reading("second", token[t].user) EXCEPT
                             !.proved = token[t].pw, !.late = token[t].late, !.token = t],
                      "resolve")
    /\ UNCHANGED <<account, session, token, keys, codes, identity, clock, drawn, history>>

\* A request reads the account once more.
Rereading(p) == [task[p] EXCEPT !.row = account[task[p].user], !.late = Late(p)]

\* ... and then the account, whatever has become of the token by now.
ResolvePending(p) ==
    /\ At(p, "resolve") /\ account[task[p].user].state = "active"
    /\ Continue(p, Rereading(p), "check")
    /\ UNCHANGED <<account, session, token, keys, codes, identity, clock, drawn, history>>

Window == {n \in 1..(MaxClock + 1) : clock - 1 <= n /\ n <= clock + 1}

\* What a check accepts is on record while the secret it checked is the one on.
Accept(p, what) ==
    LET u == task[p].user
        inForce == account[u].enabled /\ task[p].row.secret = account[u].secret
    IN /\ spent' = IF inForce THEN [spent EXCEPT ![u] = @ \cup {what}] ELSE spent
       /\ replayed' = (replayed \/ (inForce /\ what \in spent[u]))
       /\ Continue(p, [task[p] EXCEPT !.factor = TRUE],
                   IF task[p].op = "second" THEN "spend" ELSE "act")
       /\ UNCHANGED <<confirmed, proven, abandoned>>

\* Mutant: the step last accepted is accepted again.
CheckStepAgain(p) ==
    LET u == task[p].user IN
    /\ At(p, "check") /\ task[p].row.secret # 0 /\ Stored(u)
    /\ \E n \in Window :
          /\ account[u].last <= n
          /\ account' = [account EXCEPT ![u].last = n]
          /\ Accept(p, <<"step", n>>)
    /\ UNCHANGED <<session, token, keys, codes, identity, clock, drawn>>

\* checkSecondFactor with a code of the secret that was read: AcceptTOTPStep.
CheckStep(p) ==
    LET u == task[p].user IN
    /\ At(p, "check") /\ task[p].row.secret # 0 /\ Stored(u)
    /\ \E n \in Window :
          /\ account[u].last < n
          /\ account' = [account EXCEPT ![u].last = n]
          /\ Accept(p, <<"step", n>>)
    /\ UNCHANGED <<session, token, keys, codes, identity, clock, drawn>>

\* ... and with a recovery code: ConsumeRecoveryCode.
CheckRecoveryCode(p) ==
    LET u == task[p].user IN
    /\ At(p, "check")
    /\ \E c \in codes[u] :
          /\ codes' = [codes EXCEPT ![u] = @ \ {c}]
          /\ Accept(p, <<"code", c>>)
    /\ UNCHANGED <<account, session, token, keys, identity, clock, drawn>>

\* The pending token is spent on success; that it is gone by then is no error.
SpendPending(p) ==
    /\ At(p, "spend")
    /\ token' = Without(token, {task[p].token})
    /\ Goto(p, "open")
    /\ UNCHANGED <<account, session, keys, codes, identity, clock, drawn, history>>

----------------------------------------------------------------------------
(* Passwords *)

\* setPassword, with the trigger that marks it as somebody's.
Revoked(u) == TokensOf(u, {"link", "pending"})

\* Mutant: half-finished sign-ins outlive the password they began with.
SetPasswordKeepPending(u) ==
    /\ account[u].pw < MaxPassword
    /\ account' = [account EXCEPT ![u].pw = @ + 1, ![u].set = TRUE]
    /\ session' = Without(session, SessionsOf(u))
    /\ token' = Without(token, TokensOf(u, {"link"}))
    /\ abandoned' = abandoned \ {<<u, "sessions">>}

SetPassword(u) ==
    /\ account[u].pw < MaxPassword
    /\ account' = [account EXCEPT ![u].pw = @ + 1, ![u].set = TRUE]
    /\ session' = Without(session, SessionsOf(u))
    /\ token' = Without(token, Revoked(u))
    /\ abandoned' = abandoned \ {<<u, "sessions">>}

\* handleForgot, for an account with an address, and handleAdminIssueReset.
AskReset(p) ==
    /\ At(p, "idle")
    /\ \E u \in Users :
          /\ Stored(u)
          /\ Continue(p, [Reading("reset", u) EXCEPT !.purpose = "link"], "forget")
    /\ UNCHANGED <<account, session, token, keys, codes, identity, clock, drawn, history>>

\* ResetPassword: the link is spent in the transaction that changes the password.
FollowReset(p) ==
    /\ At(p, "idle")
    /\ \E t \in TokenIds :
          /\ token[t] # Nil /\ token[t].purpose = "link"
          /\ SetPassword(token[t].user)
          /\ LET u == token[t].user IN
             Continue(p, [NoTask EXCEPT !.op = "reset", !.user = u, !.row = account'[u],
                                        !.proved = account[u].pw + 1], "reload")
    /\ UNCHANGED <<keys, codes, identity, clock, drawn, confirmed, spent, replayed, proven>>

\* UserByID, and on to a session or to the second step.
Reload(p) ==
    LET u == task[p].user IN
    /\ At(p, "reload") /\ Stored(u)
    /\ task[p].op = "provider" => account[u].state = "active"
    /\ PasswordAccepted(p, IF task[p].op = "provider" THEN Reading("provider", u)
                             ELSE Rereading(p))
    /\ UNCHANGED <<account, session, token, keys, codes, identity, clock, drawn, history>>

----------------------------------------------------------------------------
(* Settings *)

Settings == {"password", "email", "begin", "confirm", "disable", "recovery", "delete", "key"}

\* A session from before the factor was turned on is about to be ended: what is
\* asked through it until then is late.
Outlived(s) ==
    session[s].late \/ (account[session[s].user].enabled /\ ~session[s].factor)

\* requireUser, and the handler's first look at the row the middleware read.
AskSettings(p) ==
    /\ At(p, "idle")
    /\ \E s \in SessionIds, op \in Settings :
          /\ session[s] # Nil
          /\ LET u == session[s].user IN
             /\ account[u].state = "active"
             /\ op \in {"begin", "confirm"} => ~account[u].enabled
             /\ op = "recovery" => account[u].enabled
             /\ Continue(p, [Reading(op, u) EXCEPT
                                !.proved = session[s].pw, !.factor = session[s].factor,
                                !.late = Outlived(s), !.proof = session[s].proof],
                         IF op \in {"begin", "confirm", "key"} THEN "act" ELSE "prove")
    /\ UNCHANGED <<account, session, token, keys, codes, identity, clock, drawn, history>>

\* checkCurrentPassword asks the store whether there is a password and compares
\* with the hash it read before; verifySensitiveAction also asks for a code.
Prove(p) ==
    LET t == task[p] IN
    /\ At(p, "prove") /\ Stored(t.user)
    /\ IF account[t.user].set THEN t.row.set ELSE t.proof
    /\ Goto(p, IF t.op \in {"disable", "recovery", "delete"} /\ t.row.enabled
               THEN "check" ELSE "act")
    /\ UNCHANGED <<account, session, token, keys, codes, identity, clock, drawn, history>>

Acts(p, op) == At(p, "act") /\ task[p].op = op

\* applyNewPassword
ChangePassword(p) ==
    /\ Acts(p, "password") /\ Stored(task[p].user)
    /\ SetPassword(task[p].user)
    /\ LET new == account[task[p].user].pw + 1 IN
       Continue(p, [task[p] EXCEPT !.proved = new, !.row.pw = new, !.late = Late(p)], "open")
    /\ UNCHANGED <<keys, codes, identity, clock, drawn, confirmed, spent, replayed, proven>>

\* handleChangeEmail; a new address is mailed a link, and no link is taken back
\* when the address is removed.
ChangeEmail(p) ==
    LET u == task[p].user IN
    /\ Acts(p, "email") /\ Stored(u)
    /\ \E e \in Emails \cup {Nil} :
          /\ account' = [account EXCEPT ![u].email = e, ![u].verified = FALSE]
          /\ IF e = Nil THEN Done(p)
             ELSE Continue(p, [task[p] EXCEPT !.row.email = e, !.purpose = "verify"], "forget")
    /\ UNCHANGED <<session, token, keys, codes, identity, clock, drawn, history>>

\* handleVerifyEmail spends the link...
FollowVerify(p) ==
    /\ At(p, "idle")
    /\ \E t \in TokenIds :
          /\ token[t] # Nil /\ token[t].purpose = "verify"
          /\ token' = [token EXCEPT ![t] = Nil]
          /\ proven' = proven \cup {<<token[t].user, token[t].email>>}
          /\ Continue(p, [NoTask EXCEPT !.op = "verify", !.user = token[t].user], "read")
    /\ UNCHANGED <<account, session, keys, codes, identity, clock, drawn,
                   confirmed, spent, replayed, abandoned>>

\* ... reads the account...
ReadAddress(p) ==
    /\ At(p, "read") /\ Stored(task[p].user)
    /\ Continue(p, [task[p] EXCEPT !.row = account[task[p].user],
                                   !.email = account[task[p].user].email], "address")
    /\ UNCHANGED <<account, session, token, keys, codes, identity, clock, drawn, history>>

\* ... and confirms the address it read: SetEmail.  A registration through a
\* provider does the same with the address the provider has checked.
ConfirmAddress(p) ==
    LET t == task[p] IN
    /\ At(p, "address") /\ Stored(t.user)
    /\ account' = [account EXCEPT ![t.user].email = t.email, ![t.user].verified = TRUE]
    /\ IF t.op = "complete" THEN PasswordAccepted(p, t) ELSE Done(p)
    /\ UNCHANGED <<session, token, keys, codes, identity, clock, drawn, history>>

MintKey(p) ==
    /\ Acts(p, "key") /\ Stored(task[p].user)
    /\ keys' = keys \cup {<<task[p].user, account[task[p].user].state, Late(p)>>}
    /\ Done(p)
    /\ UNCHANGED <<account, session, token, codes, identity, clock, drawn, history>>

\* DeleteAPIKey, or its time is up.
DropKey(k) ==
    /\ keys' = keys \ {k}
    /\ UNCHANGED <<account, session, token, codes, identity, clock, drawn, pc, task, history>>

\* DeleteUser, by its owner or an administrator, with the rows that go with it.
Deleted(u) ==
    /\ account' = [account EXCEPT ![u] = [NoAccount EXCEPT !.state = "gone"]]
    /\ session' = Without(session, SessionsOf(u))
    /\ token' = Without(token, {t \in TokenIds : token[t] # Nil /\ token[t].user = u})
    /\ keys' = keys \ KeysOf(u)
    /\ codes' = [codes EXCEPT ![u] = {}]
    /\ identity' = [s \in Subjects |-> IF identity[s] = u THEN Nil ELSE identity[s]]

DeleteUser(p) ==
    /\ Acts(p, "delete") /\ Deleted(task[p].user)
    /\ Done(p)
    /\ UNCHANGED <<clock, drawn, history>>

----------------------------------------------------------------------------
(* The second factor *)

BeginTOTP(p) ==
    /\ Acts(p, "begin") /\ Stored(task[p].user) /\ drawn < MaxDrawn
    /\ drawn' = drawn + 1
    /\ account' = [account EXCEPT ![task[p].user].secret = drawn + 1,
                                  ![task[p].user].enabled = FALSE, ![task[p].user].last = 0]
    /\ Done(p)
    /\ UNCHANGED <<session, token, keys, codes, identity, clock, history>>

\* Mutant: whatever secret is pending is turned on.
EnablePending(p) ==
    LET t == task[p] IN
    /\ Acts(p, "confirm") /\ t.row.secret # 0
    /\ account[t.user].secret # 0 /\ ~account[t.user].enabled
    /\ \E n \in Window :
          /\ account' = [account EXCEPT ![t.user].enabled = TRUE, ![t.user].last = n]
          /\ spent' = [spent EXCEPT ![t.user] = {<<"step", n>>}]
    /\ confirmed' = confirmed \cup {t.row.secret}
    /\ Continue(p, [t EXCEPT !.factor = TRUE, !.row.enabled = TRUE], "end")
    /\ UNCHANGED <<session, token, keys, codes, identity, clock, drawn, replayed, proven,
                   abandoned>>

\* handleTwoFactorConfirm: a code matches the secret that was read, and EnableTOTP
\* turns on that one, if it is still pending, with the step spent.
EnableTOTP(p) ==
    LET t == task[p] IN
    /\ Acts(p, "confirm") /\ t.row.secret # 0
    /\ account[t.user].secret = t.row.secret /\ ~account[t.user].enabled
    /\ \E n \in Window :
          /\ account' = [account EXCEPT ![t.user].enabled = TRUE, ![t.user].last = n]
          /\ spent' = [spent EXCEPT ![t.user] = {<<"step", n>>}]
    /\ confirmed' = confirmed \cup {t.row.secret}
    /\ Continue(p, [t EXCEPT !.factor = TRUE, !.row.enabled = TRUE], "end")
    /\ UNCHANGED <<session, token, keys, codes, identity, clock, drawn, replayed, proven,
                   abandoned>>

\* DeleteSessionsForUser, for rotateSession and for an account being disabled.
EndSessions(p) ==
    LET t == task[p] IN
    /\ At(p, "end")
    /\ session' = Without(session, SessionsOf(t.user))
    /\ abandoned' = abandoned \ {<<t.user, "sessions">>}
    /\ Goto(p, IF t.op = "confirm" THEN "open" ELSE "endKeys")
    /\ UNCHANGED <<account, token, keys, codes, identity, clock, drawn,
                   confirmed, spent, replayed, proven>>

\* Disabling an account goes on to its keys when its sessions could not be ended.
FailToEnd(p) ==
    /\ At(p, "end") /\ task[p].op = "suspend"
    /\ abandoned' = abandoned \cup {<<task[p].user, "sessions">>}
    /\ Goto(p, "endKeys")
    /\ UNCHANGED <<account, session, token, keys, codes, identity, clock, drawn,
                   confirmed, spent, replayed, proven>>

\* Mutant: disabling an account leaves its keys.
EndNoKeys(p) ==
    /\ At(p, "endKeys")
    /\ Done(p)
    /\ UNCHANGED <<account, session, token, keys, codes, identity, clock, drawn, history>>

\* DeleteAPIKeysForUser
EndKeys(p) ==
    /\ At(p, "endKeys")
    /\ keys' = keys \ KeysOf(task[p].user)
    /\ abandoned' = abandoned \ {<<task[p].user, "keys">>}
    /\ Done(p)
    /\ UNCHANGED <<account, session, token, codes, identity, clock, drawn,
                   confirmed, spent, replayed, proven>>

\* ReplaceRecoveryCodes, when the factor was turned on and on request.
ReplaceRecoveryCodes(p) ==
    /\ At(p, "reissue") \/ Acts(p, "recovery")
    /\ Stored(task[p].user) /\ drawn < MaxDrawn
    /\ drawn' = drawn + 1
    /\ codes' = [codes EXCEPT ![task[p].user] = {drawn + 1}]
    /\ Done(p)
    /\ UNCHANGED <<account, session, token, keys, identity, clock, history>>

\* DisableTOTP, by the account or by an administrator (handleAdminClearTwoFactor).
DisableTOTP(p) ==
    LET u == task[p].user IN
    /\ Acts(p, "disable") /\ Stored(u)
    /\ account' = [account EXCEPT ![u].secret = 0, ![u].enabled = FALSE, ![u].last = 0]
    /\ codes' = [codes EXCEPT ![u] = {}]
    /\ Done(p)
    /\ UNCHANGED <<session, token, keys, identity, clock, drawn, history>>

AskClear(p) ==
    /\ At(p, "idle")
    /\ \E u \in Users :
          /\ Stored(u) /\ account[u].enabled
          /\ Continue(p, Reading("disable", u), "act")
    /\ UNCHANGED <<account, session, token, keys, codes, identity, clock, drawn, history>>

\* handleAdminSetDisabled: disabling goes on to end what is signed in.
SetUserDisabled(p) ==
    /\ At(p, "idle")
    /\ \E u \in Users, disabled \in BOOLEAN :
          /\ Stored(u)
          /\ account' = [account EXCEPT ![u].state = IF disabled THEN "disabled" ELSE "active"]
          /\ IF disabled THEN Continue(p, Reading("suspend", u), "end")
                         ELSE UNCHANGED <<pc, task>>
    /\ UNCHANGED <<session, token, keys, codes, identity, clock, drawn, history>>

----------------------------------------------------------------------------
(* Identity providers *)

LinkedTo(u) == {s \in Subjects : identity[s] = u}

\* resolveOIDCIdentity: a known identity signs in...
Callback(p) ==
    /\ At(p, "idle")
    /\ \E s \in Subjects :
          /\ identity[s] # Nil
          /\ Continue(p, [NoTask EXCEPT !.op = "provider", !.user = identity[s]], "reload")
    /\ UNCHANGED <<account, session, token, keys, codes, identity, clock, drawn, history>>

Confirmed(e) == {u \in Users : Stored(u) /\ account[u].email = e /\ account[u].verified}

\* ... one that is new is linked to the one account with its address...
CallbackByAddress(p) ==
    /\ At(p, "idle")
    /\ \E s \in Subjects, e \in Emails, u \in Users :
          /\ identity[s] = Nil /\ Confirmed(e) = {u}
          /\ Continue(p, [Reading("address", u) EXCEPT !.subject = s], "link")
    /\ UNCHANGED <<account, session, token, keys, codes, identity, clock, drawn, history>>

\* ... or registers (handleOIDCCompleteSubmit, CreateUserWithIdentity).
Complete(p) ==
    /\ At(p, "idle")
    /\ \E s \in Subjects, e \in Emails, u \in Users :
          /\ identity[s] = Nil /\ account[u].state = "none"
          /\ identity' = [identity EXCEPT ![s] = u]
          /\ account' = [account EXCEPT ![u] = NewAccount(e, FALSE)]
          /\ proven' = proven \cup {<<u, e>>}
          /\ Continue(p, [NoTask EXCEPT !.op = "complete", !.user = u, !.email = e, !.proved = 1,
                                        !.row = NewAccount(e, FALSE)], "address")
    /\ UNCHANGED <<session, token, keys, codes, clock, drawn,
                   confirmed, spent, replayed, abandoned>>

\* The account page's connect and disconnect.
AskConnection(p) ==
    /\ At(p, "idle")
    /\ \E s \in SessionIds, subject \in Subjects, op \in {"connect", "unlink"} :
          /\ session[s] # Nil /\ account[session[s].user].state = "active"
          /\ op = "unlink" => identity[subject] = session[s].user
          /\ Continue(p, [Reading(op, session[s].user) EXCEPT
                             !.subject = subject, !.late = session[s].late],
                      IF op = "connect" THEN "link" ELSE "refusal")
    /\ UNCHANGED <<account, session, token, keys, codes, identity, clock, drawn, history>>

\* Mutant: the link is written whoever has the subject by now.
LinkAnyIdentity(p) ==
    LET t == task[p] IN
    /\ At(p, "link") /\ Stored(t.user)
    /\ identity' = [identity EXCEPT ![t.subject] = t.user]
    /\ IF t.op = "address" /\ t.row.state = "active" THEN PasswordAccepted(p, t) ELSE Done(p)
    /\ UNCHANGED <<account, session, token, keys, codes, clock, drawn, history>>

\* LinkIdentity: a subject that is spoken for is refused.
LinkIdentity(p) ==
    LET t == task[p] IN
    /\ At(p, "link") /\ Stored(t.user)
    /\ identity[t.subject] = Nil
    /\ identity' = [identity EXCEPT ![t.subject] = t.user]
    /\ IF t.op = "address" /\ t.row.state = "active" THEN PasswordAccepted(p, t) ELSE Done(p)
    /\ UNCHANGED <<account, session, token, keys, codes, clock, drawn, history>>

\* unlinkRefusal: an account with a password may always...
AllowUnlink(p) ==
    /\ At(p, "refusal") /\ Stored(task[p].user)
    /\ Goto(p, IF account[task[p].user].set THEN "unlink" ELSE "count")
    /\ UNCHANGED <<account, session, token, keys, codes, identity, clock, drawn, history>>

\* ... others while another connection is left.
CountIdentities(p) ==
    /\ At(p, "count")
    /\ Cardinality(LinkedTo(task[p].user)) > 1
    /\ Goto(p, "unlink")
    /\ UNCHANGED <<account, session, token, keys, codes, identity, clock, drawn, history>>

UnlinkIdentity(p) ==
    /\ At(p, "unlink")
    /\ identity[task[p].subject] = task[p].user
    /\ identity' = [identity EXCEPT ![task[p].subject] = Nil]
    /\ Done(p)
    /\ UNCHANGED <<account, session, token, keys, codes, clock, drawn, history>>

\* finishReauth and grantReauth: the session that asked is confirmed...
Reauthenticate(s) ==
    /\ session[s] # Nil
    /\ LinkedTo(session[s].user) # {}
    /\ session' = [session EXCEPT ![s].proof = TRUE]
    /\ UNCHANGED <<account, token, keys, codes, identity, clock, drawn, pc, task, history>>

\* ... for ten minutes.
ProofLapses(s) ==
    /\ session[s] # Nil /\ session[s].proof
    /\ session' = [session EXCEPT ![s].proof = FALSE]
    /\ UNCHANGED <<account, token, keys, codes, identity, clock, drawn, pc, task, history>>

\* A registration with a password (see Accounts) signs in and mails a link.
Register(p) ==
    /\ At(p, "idle")
    /\ \E u \in Users, e \in Emails \cup {Nil} :
          /\ account[u].state = "none"
          /\ account' = [account EXCEPT ![u] = NewAccount(e, TRUE)]
          /\ Continue(p, [NoTask EXCEPT !.op = "register", !.user = u, !.proved = 1,
                                        !.row = NewAccount(e, TRUE)], "open")
    /\ UNCHANGED <<session, token, keys, codes, identity, clock, drawn, history>>

\* An administrator deletes the account (handleAdminDeleteUser).
Dismiss(u) ==
    /\ Stored(u) /\ Deleted(u)
    /\ UNCHANGED <<clock, drawn, pc, task, history>>

----------------------------------------------------------------------------
\* What a request on its way still has to end.
Due(t, l) ==
    (IF l = "end" THEN {"sessions"} ELSE {})
        \cup (IF l = "endKeys" \/ (l = "end" /\ t.op = "suspend") THEN {"keys"} ELSE {})
Unfinished(p) == {task[p].user} \X Due(task[p], pc[p])

\* A refusal, an error, a crash or a client that has gone ends a request anywhere.
GiveUp(p) ==
    /\ ~At(p, "idle")
    /\ abandoned' = abandoned \cup Unfinished(p)
    /\ Done(p)
    /\ UNCHANGED <<account, session, token, keys, codes, identity, clock, drawn,
                   confirmed, spent, replayed, proven>>

Tick ==
    /\ clock < MaxClock
    /\ clock' = clock + 1
    /\ UNCHANGED <<account, session, token, keys, codes, identity, drawn, pc, task, history>>

Init ==
    /\ account = [u \in Users |-> NoAccount]
    /\ session = [s \in SessionIds |-> Nil] /\ token = [t \in TokenIds |-> Nil]
    /\ keys = {} /\ codes = [u \in Users |-> {}]
    /\ identity = [s \in Subjects |-> Nil]
    /\ clock = 0 /\ drawn = 0
    /\ pc = [p \in Handlers |-> "idle"] /\ task = [p \in Handlers |-> NoTask]
    /\ confirmed = {} /\ spent = [u \in Users |-> {}] /\ replayed = FALSE
    /\ proven = {} /\ abandoned = {}

Granting(p) == Forget(p) \/ Mint(p) \/ Open(p)
Entering(p) ==
    \/ AskLogin(p) \/ AskSecondStep(p) \/ ResolvePending(p)
    \/ CheckStep(p) \/ CheckRecoveryCode(p) \/ SpendPending(p)
Recovering(p) == AskReset(p) \/ FollowReset(p) \/ Reload(p)
Changing(p) == AskSettings(p) \/ Prove(p) \/ ChangePassword(p) \/ MintKey(p) \/ DeleteUser(p)
Addressing(p) == ChangeEmail(p) \/ FollowVerify(p) \/ ReadAddress(p) \/ ConfirmAddress(p)
Enrolling(p) ==
    \/ BeginTOTP(p) \/ EnableTOTP(p) \/ EndSessions(p) \/ FailToEnd(p) \/ EndKeys(p)
    \/ ReplaceRecoveryCodes(p) \/ DisableTOTP(p) \/ AskClear(p) \/ SetUserDisabled(p)
Connecting(p) ==
    \/ Callback(p) \/ CallbackByAddress(p) \/ Complete(p) \/ AskConnection(p)
    \/ LinkIdentity(p) \/ AllowUnlink(p) \/ CountIdentities(p) \/ UnlinkIdentity(p)
Handle(p) ==
    \/ Granting(p) \/ Entering(p) \/ Recovering(p) \/ Changing(p) \/ Addressing(p)
    \/ Enrolling(p) \/ Connecting(p) \/ Register(p) \/ GiveUp(p)
Lapsing ==
    \/ \E s \in SessionIds : Logout(s) \/ Reauthenticate(s) \/ ProofLapses(s)
    \/ \E t \in TokenIds : TokenLapses(t)
    \/ \E k \in keys : DropKey(k)

Next ==
    \/ \E p \in Handlers : Handle(p)
    \/ Lapsing \/ Tick
    \/ \E u \in Users : Dismiss(u)

Spec == Init /\ [][Next]_vars

----------------------------------------------------------------------------
(* Properties *)

\* A request is about to end u's sessions or keys, or has failed to.
Ending(u, what) == <<u, what>> \in abandoned \/ \E p \in Handlers : <<u, what>> \in Unfinished(p)

\* No session, whoever opened it and when, outlives a change of the password or,
\* past the request that turns it on, the second factor's; and it was opened on
\* the password of that moment, with a code if the factor was on, unless a
\* request it comes from was overtaken by a change (auth_tokens.go: setPassword;
\* handlers_twofactor.go: rotateSession).
SessionsCurrent ==
    \A s \in SessionIds : session[s] # Nil =>
        LET c == session[s] a == account[c.user] IN
        /\ Stored(c.user)
        /\ c.at.pw = a.pw
        /\ a.enabled => c.at.on = a.secret \/ Ending(c.user, "sessions")
        /\ ~c.late => c.pw = c.at.pw /\ (c.at.on # 0 => c.factor)

\* No reset link and no half-finished sign-in outlives a change of the password,
\* whichever of them is redeemed first, by whichever of two requests; and each
\* was issued on the password of that moment, unless a change overtook the
\* request (auth_tokens.go: ResetPassword).
LinksCurrent ==
    \A t \in TokenIds : token[t] # Nil /\ token[t].purpose # "verify" =>
        /\ token[t].at = account[token[t].user].pw
        /\ ~token[t].late => token[t].pw = token[t].at

\* Whatever lets somebody into an account without its password was issued under
\* the password it has now, and is gone with the account.  On an older password
\* rests only what a request under way at the change granted after it: one that
\* had read the row, or found the pending token, before.
CredentialsCurrent == SessionsCurrent /\ LinksCurrent

\* A disabled account keeps no session and no key from before, past the request
\* that disabled it unless that failed; what it gets afterwards is from requests
\* under way at that time, and from reset links, which nobody refuses
\* (handlers_admin.go: handleAdminSetDisabled).
DisabledSignedOut ==
    \A u \in Users : account[u].state = "disabled" =>
        /\ \A s \in SessionsOf(u) :
              \/ session[s].at.state = "disabled" /\ (session[s].late \/ session[s].link)
              \/ Ending(u, "sessions")
        /\ \A k \in KeysOf(u) : (k[2] = "disabled" /\ k[3]) \/ Ending(u, "keys")

\* The secret that is on was proved by a code of its own, though another tab
\* may have drawn a new one meanwhile (two_factor.go: EnableTOTP).
FactorConfirmed ==
    \A u \in Users : account[u].enabled => account[u].secret \in confirmed

\* No authenticator code and no recovery code is accepted twice within one
\* enrolment, the code that proved the enrolment included, although handlers
\* check codes by secrets they read before (two_factor.go: AcceptTOTPStep).
CodesSpentOnce == ~replayed

\* Two callbacks for one subject, or a registration and a connection, never move
\* it from one account to another: whoever comes second is refused, and only the
\* account's own request, or its deletion, lets it go (identities.go: LinkIdentity).
IdentitiesKept ==
    [][\A s \in Subjects : identity[s] # Nil /\ identity'[s] # identity[s] =>
          /\ identity'[s] = Nil
          /\ \/ account'[identity[s]].state = "gone"
             \/ \E p \in Handlers : task[p].op = "unlink" /\ task[p].user = identity[s]]_vars
=============================================================================
