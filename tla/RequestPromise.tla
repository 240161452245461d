--------------------------- MODULE RequestPromise ---------------------------
(***************************************************************************)
(* What the guest worker promises of a request with a client:              *)
(* it either completes, with its output closed and its client's            *)
(* acknowledgement, and then its remaining processes are left to finish;   *)
(* or it is cancelled, and then its processes are killed.  Nothing is both,*)
(* and the request is over only when none of its processes is left.        *)
(***************************************************************************)
CONSTANT Requests

VARIABLES
    phase,      \* how far each request is
    populated,  \* requests with live processes
    talking     \* requests with a process that still holds the output

vars == <<phase, populated, talking>>

Phase == {"new", "running", "finishing", "cancelling", "killed",
          "over", "abandoned"}

TypeOK ==
    /\ phase \in [Requests -> Phase]
    /\ populated \subseteq Requests
    /\ talking \subseteq populated

Init ==
    /\ phase = [r \in Requests |-> "new"]
    /\ populated = {}
    /\ talking = {}

To(r, from, to) ==
    /\ phase[r] \in from
    /\ phase' = [phase EXCEPT ![r] = to]

Start(r) ==
    /\ To(r, {"new"}, "running")
    /\ populated' = populated \cup {r}
    /\ talking' = talking \cup {r}

Refuse(r) == To(r, {"new"}, "over") /\ UNCHANGED <<populated, talking>>

Complete(r) ==
    /\ r \notin talking
    /\ To(r, {"running"}, "finishing")
    /\ UNCHANGED <<populated, talking>>

Cancel(r) == To(r, {"running"}, "cancelling") /\ UNCHANGED <<populated, talking>>

Kill(r) == To(r, {"cancelling"}, "killed") /\ UNCHANGED <<populated, talking>>

\* The last process that holds the output closes it, and perhaps exits.
Quiet(r) ==
    /\ r \in talking
    /\ talking' = talking \ {r}
    /\ populated' \in {populated, populated \ {r}}
    /\ UNCHANGED phase

Empty(r) ==
    /\ r \in populated \ talking
    /\ populated' = populated \ {r}
    /\ UNCHANGED <<phase, talking>>

Retire(r) ==
    /\ r \notin populated
    /\ To(r, {"finishing", "killed"}, "over")
    /\ UNCHANGED <<populated, talking>>

\* The guest could not run the helper that kills or removes the group.
Abandon(r) ==
    /\ phase[r] = "cancelling" \/ r \notin populated
    /\ To(r, {"finishing", "cancelling", "killed"}, "abandoned")
    /\ UNCHANGED <<populated, talking>>

Next ==
    \E r \in Requests :
        \/ Start(r) \/ Refuse(r) \/ Complete(r) \/ Cancel(r) \/ Kill(r)
        \/ Quiet(r) \/ Empty(r) \/ Retire(r) \/ Abandon(r)

Spec == Init /\ [][Next]_vars

\* A cancelled request is killed, a killed one empties and is retired.
Fairness ==
    \A r \in Requests :
        /\ WF_vars(Kill(r) \/ Abandon(r))
        /\ WF_vars(Retire(r) \/ Abandon(r))
        /\ WF_vars(phase[r] = "killed" /\ (Quiet(r) \/ Empty(r)))

FairSpec == Spec /\ Fairness
=============================================================================
