---------------------------- MODULE RunLifecycle ----------------------------
(***************************************************************************)
(* What a client of the server may rely on for the runs it creates: a run  *)
(* goes from pending to running to success or error and stays there, it    *)
(* may be forgotten at any time, and an answer to "wait" is the status a   *)
(* run ends with.                                                          *)
(***************************************************************************)
CONSTANT RunId

VARIABLES
    runStatus,      \* run -> how far it has come
    known,          \* the runs that can be asked for
    answered        \* the pairs of a run and its status that waits returned

Final == {"success", "error"}

Init ==
    /\ runStatus = [r \in RunId |-> "none"]
    /\ known = {} /\ answered = {}

Create(r) ==
    /\ runStatus[r] = "none"
    /\ runStatus' = [runStatus EXCEPT ![r] = "pending"]
    /\ known' = known \cup {r}
    /\ UNCHANGED answered

Advance(r, from, to) ==
    /\ runStatus[r] = from
    /\ runStatus' = [runStatus EXCEPT ![r] = to]
    /\ UNCHANGED <<known, answered>>

Forget(r) ==
    /\ known' = known \ {r}
    /\ UNCHANGED <<runStatus, answered>>

Answer(r) ==
    /\ runStatus[r] \in Final
    /\ answered' = answered \cup {<<r, runStatus[r]>>}
    /\ UNCHANGED <<runStatus, known>>

Next == \E r \in RunId :
    \/ Create(r) \/ Advance(r, "pending", "running")
    \/ \E s \in Final : Advance(r, "running", s)
    \/ Forget(r) \/ Answer(r)

Spec == Init /\ [][Next]_<<runStatus, known, answered>>
=============================================================================
