------------------------------ MODULE MCSignIn -------------------------------
(* Small instances of SignIn for TLC.  The requests that share state are      *)
(* explored together, in four parts: passwords and links, the second factor,  *)
(* identities, and addresses; GiveUp and the lapses belong to all four.       *)
EXTENDS SignIn, TLC

VARIABLE focus

CONSTANTS u1, u2, s1, t1, t2, x, y, h1, h2

Symmetric ==
    Permutations(Users) \cup Permutations(TokenIds) \cup Permutations(Subjects) \cup Permutations(Handlers)

\* An account as a registration leaves it; with the second factor on; empty rows.
Plain == [NewAccount(Nil, TRUE) EXCEPT !.pw = 1]
Guarded == [Plain EXCEPT !.secret = 1, !.enabled = TRUE, !.last = 0]

Only(row, v) == [u \in Users |-> IF u = v THEN row ELSE [NoAccount EXCEPT !.state = "gone"]]

InitFocus ==
    /\ \/ focus = "password" /\ \E v \in Users : account = Only(Plain, v)
       \/ focus \in {"password", "factor"} /\ \E v \in Users : account = Only(Guarded, v)
       \/ focus \in {"identity", "address"} /\ account = [u \in Users |-> NoAccount]
    /\ session = [s \in SessionIds |-> Nil] /\ token = [t \in TokenIds |-> Nil]
    /\ keys = {} /\ codes = [u \in Users |-> IF focus = "factor" /\ Stored(u) THEN {1} ELSE {}]
    /\ identity = [s \in Subjects |-> Nil]
    /\ clock = 0 /\ drawn = 1
    /\ pc = [p \in Handlers |-> "idle"] /\ task = [p \in Handlers |-> NoTask]
    /\ confirmed = {1} /\ spent = [u \in Users |-> {}] /\ replayed = FALSE
    /\ proven = {} /\ abandoned = {}

Asked == [password |-> {"password", "key", "recovery", "disable"},
          factor |-> {"begin", "confirm", "password"},
          identity |-> {"password", "delete"},
          address |-> {"email"}]
\* A password is changed while the sessions from before the factor still last.
AskOf(p) ==
    /\ AskSettings(p)
    /\ task'[p].op \in Asked[focus]
    /\ focus = "factor" /\ task'[p].op = "password" =>
          \E q \in Handlers : At(q, "end")

\* Requests about the second factor give up where something is left undone.
GiveUpOf(p) ==
    /\ focus = "factor" => pc[p] \in {"end", "open", "reissue"}
    /\ GiveUp(p)

NextFocus ==
    /\ UNCHANGED focus
    /\ \/ \E p \in Handlers :
             \/ Granting(p) \/ SpendPending(p) \/ Reload(p) \/ GiveUpOf(p) \/ AskOf(p) \/ Prove(p)
             \/ ChangePassword(p) \/ MintKey(p) \/ DeleteUser(p) \/ Addressing(p)
             \/ ReplaceRecoveryCodes(p) \/ DisableTOTP(p) \/ EndSessions(p) \/ FailToEnd(p) \/ EndKeys(p)
             \/ ResolvePending(p)
             \/ focus \in {"password", "factor"} /\ (AskLogin(p) \/ AskSecondStep(p) \/ CheckStep(p))
             \/ focus = "password" /\ (AskReset(p) \/ FollowReset(p) \/ SetUserDisabled(p))
             \/ /\ focus = "factor"
                /\ \/ CheckRecoveryCode(p) \/ BeginTOTP(p) \/ EnableTOTP(p)
                   \/ AskClear(p)
             \/ focus = "identity" /\ Connecting(p)
             \/ focus = "address" /\ Register(p)
       \/ focus # "factor" /\ Lapsing
       \/ focus = "factor" /\ \E s \in SessionIds : Logout(s)
       \/ focus = "factor" /\ Tick
       \/ focus = "identity" /\ \E u \in Users : Dismiss(u)
    /\ focus = "factor" /\ (\E u \in Users : account[u].pw = MaxPassword) =>
          \A p \in Handlers : At(p, "idle") => pc'[p] = "idle"
    /\ focus # "password" => Cardinality({t \in TokenIds : token'[t] # Nil}) <= 1
    /\ Cardinality(keys') <= 1
SpecFocus == InitFocus /\ [][NextFocus]_<<vars, focus>>
=============================================================================
