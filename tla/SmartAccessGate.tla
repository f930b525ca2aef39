-------------------------- MODULE SmartAccessGate ---------------------------
(***************************************************************************)
(* The Smart Access outbound is one gate for each of its leases: a renewal *)
(* opens another gate and moves no flow, and each gate closes by its own   *)
(* latches and deadlines or together with the whole outbound.              *)
(***************************************************************************)
EXTENDS SmartAccess

GateOf(l) ==
    IF hTerminate \/ l \in terminated \/ age[l] = 2 THEN "terminated"
    ELSE IF hRevoked \/ l \in revoked \/ age[l] = 1 THEN "drained"
    ELSE IF l \in expired \/ failure[l] # "none" THEN "shut" ELSE "open"

MemberOf(f) ==
    IF auth[f] = NoLease THEN "out"
    ELSE IF f \notin flows THEN "gone"
    ELSE IF f \in active THEN "live" ELSE "waiting"

Gate == INSTANCE LeaseGate WITH
    gate   <- [l \in Leases |-> GateOf(l)],
    member <- [f \in Flows |-> MemberOf(f)],
    of     <- auth

\* Handshakes, renewals, revocations and late dials of the Smart Access
\* outbound are steps of the abstract gates, lease by lease, and it expels
\* whom they expel.
ImplementsLeaseGate == Gate!Spec
=============================================================================
