---------------------------- MODULE ATSLeaseGate ----------------------------
(***************************************************************************)
(* The ATS lease outbound is a gate with one lease. A flow belongs to it   *)
(* while it is registered; its position is decided by the flags and the    *)
(* monotonic deadlines alone, whatever the wall clock says.                *)
(***************************************************************************)
EXTENDS ATSLease

TheLease == "lease"

GateOf(l) ==
    IF terminateActive \/ mono >= activeDeadline THEN "terminated"
    ELSE IF revoked \/ mono >= newDeadline THEN "drained" ELSE "open"

MemberOf(f) ==
    IF pc[f] = "idle" THEN "out"
    ELSE IF f \notin flows THEN "gone"
    ELSE IF f \in attached THEN "live" ELSE "waiting"

Gate == INSTANCE LeaseGate WITH
    Leases <- {TheLease},
    NoLease <- "none",
    gate   <- [l \in {TheLease} |-> GateOf(l)],
    member <- [f \in Flows |-> MemberOf(f)],
    of     <- [f \in Flows |-> IF pc[f] = "idle" THEN "none" ELSE TheLease]

\* A dial returns once its context is dead, the contract of DialContext, and
\* an error is handled.
UpstreamObeys(f) == f \in ctxDead /\ UpstreamReturns(f)

\* The dials, timers, revocations and two-step closes of the ATS outbound are
\* steps of the abstract gate, and it expels whom the gate expels.
ImplementsLeaseGate == Gate!Spec
=============================================================================
