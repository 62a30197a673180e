---------------------------- MODULE MCUploadGate ----------------------------
EXTENDS UploadGate

\* One processing slot and the one export slot of the server.
MCLimit == [g \in Gates |-> 1]

\* With the limiter on, the run is about budgets: an upload ends at the policy
\* check and the slots stay free.  One request at a time is overtaken between
\* reading the clock and taking the mutex, by two ticks at most.
Budgets ==
    /\ enabled
    /\ taken' = taken /\ gone' = gone
    /\ clock' # clock =>
          /\ Cardinality({r \in Requests : Active(r)}) <= 1
          /\ \A r \in Requests : At(r, "limit") => clock' - now[r] <= 2
          /\ \A r \in Requests : ~At(r, "clock") /\ ~At(r, "policy")
    /\ \A r \in Requests :
          /\ At(r, "policy") => todo'[r] \in {todo[r], << >>}
          /\ ~Active(r) => todo'[r] \in {<< >>, Plans.upload}

\* With the limiter off it is about the slots, and time plays no part.
Slots == ~enabled /\ clock' = clock

FocusSpec ==
    /\ GateInit
    /\ [][GateNext /\ (Budgets \/ Slots)]_gateVars
    /\ \A r \in Requests : WF_gateVars(Serve(r)) /\ WF_gateVars(TimerFires(r))
=============================================================================
