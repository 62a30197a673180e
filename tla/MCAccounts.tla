----------------------------- MODULE MCAccounts -----------------------------
(* Small instances of Accounts for TLC: three accounts of two roles, of whom  *)
(* only administrators issue a code of one use; and two of any role, one of   *)
(* whom may be given invitation access.                                       *)
EXTENDS Accounts, TLC

VARIABLE focus

CONSTANTS u1, u2, u3, c1, c2, h1, h2

\* Ids, codes and handlers are interchangeable.
Interchangeable == Permutations(Accounts) \cup Permutations(Codes) \cup Permutations(Handlers)

Within ==
    CASE focus = "admission" ->
            /\ \A a \in Accounts : users'[a].role # "moderator" /\ ~users'[a].canInvite
            /\ \A p \in Handlers : task'[p].op # "access"
            /\ \A c \in Codes : invites'[c].max <= 1
      [] focus = "delegation" ->
            Cardinality({a \in Accounts : users'[a].row = "unused"}) > 0

InitFocus == Init /\ focus \in {"admission", "delegation"}
SpecFocus == InitFocus /\ [][Next /\ Within /\ UNCHANGED focus]_<<vars, focus>>
=============================================================================
