-------------------------------- MODULE Gate --------------------------------
(***************************************************************************)
(* What an inline gate promises about one request, and nothing about how: *)
(* the backend is shown a request only after the gate cleared it, a refused *)
(* request never reaches the backend, and a request is answered at most    *)
(* once, after which nothing more happens to it.  RequestPath (the model   *)
(* of budu-proxy and budu-pipeline) is shown to implement this.            *)
(***************************************************************************)
CONSTANT Request

VARIABLES
    phase,      \* where each request is
    backend     \* the requests the backend has been sent

gateVars == <<phase, backend>>

Phase == {"new", "screening", "cleared", "replied", "refused", "failed", "gone"}

\* A request leaves the gate for good in one of these.
Final == {"replied", "refused", "failed", "gone"}

GateInit ==
    /\ phase = [r \in Request |-> "new"]
    /\ backend = {}

Move(r, to) == phase' = [phase EXCEPT ![r] = to]

Arrive(r) ==
    /\ phase[r] = "new"
    /\ Move(r, "screening")
    /\ UNCHANGED backend

\* Cleared by inspection, by the allowlist, or because nothing is enforced.
Pass(r) ==
    /\ phase[r] = "screening"
    /\ Move(r, "cleared")
    /\ UNCHANGED backend

\* Refused on the request, or on the backend's reply (phase "cleared").
Refuse(r) ==
    /\ phase[r] = "screening" \/ (phase[r] = "cleared" /\ r \in backend)
    /\ Move(r, "refused")
    /\ UNCHANGED backend

Send(r) ==
    /\ phase[r] = "cleared"
    /\ r \notin backend
    /\ backend' = backend \cup {r}
    /\ UNCHANGED phase

Reply(r) ==
    /\ phase[r] = "cleared"
    /\ r \in backend
    /\ Move(r, "replied")
    /\ UNCHANGED backend

Fail(r) ==
    /\ phase[r] = "cleared"
    /\ Move(r, "failed")
    /\ UNCHANGED backend

\* The client hung up or the process is going down.
Abandon(r) ==
    /\ phase[r] \in {"screening", "cleared"}
    /\ Move(r, "gone")
    /\ UNCHANGED backend

GateNext ==
    \E r \in Request :
        Arrive(r) \/ Pass(r) \/ Refuse(r) \/ Send(r) \/ Reply(r) \/ Fail(r) \/ Abandon(r)

GateSpec == GateInit /\ [][GateNext]_gateVars
=============================================================================
