----------------------------- MODULE LeaseGate ------------------------------
(***************************************************************************)
(* What a leased outbound promises, whichever way it is built. Each lease  *)
(* has a gate that only ever closes further: open, shut (a failure was     *)
(* noticed: nobody passes), drained, terminated. A flow is let in and      *)
(* becomes live only through an open gate, and it stays with the lease     *)
(* that let it in. Flows may leave at any time; a flow that waits at a     *)
(* drained gate, or lives behind a terminated one, leaves in the end.      *)
(*                                                                         *)
(* ATSLeaseGate and SmartAccessGate show that the two leased outbounds of  *)
(* the engine, with their timers, late dials and two-step closes, do this. *)
(***************************************************************************)
CONSTANTS Flows, Leases, NoLease

VARIABLES gate, member, of

gateVars == <<gate, member, of>>

Positions == {"open", "shut", "drained", "terminated"}

Inner(p) ==
    CASE p = "open" -> Positions
      [] p = "shut" -> {"shut", "drained", "terminated"}
      [] p = "drained" -> {"drained", "terminated"}
      [] p = "terminated" -> {"terminated"}

Init ==
    /\ gate \in [Leases -> Positions]
    /\ member = [f \in Flows |-> "out"]
    /\ of = [f \in Flows |-> NoLease]

\* A revocation, a deadline or a failure closes some gates further.
Tighten ==
    /\ gate' \in [Leases -> Positions]
    /\ \A l \in Leases : gate'[l] \in Inner(gate[l])
    /\ UNCHANGED <<member, of>>

Admit(f, l) ==
    /\ member[f] = "out" /\ gate[l] = "open"
    /\ member' = [member EXCEPT ![f] = "waiting"]
    /\ of' = [of EXCEPT ![f] = l]
    /\ UNCHANGED gate

Connect(f) ==
    /\ member[f] = "waiting" /\ gate[of[f]] = "open"
    /\ member' = [member EXCEPT ![f] = "live"]
    /\ UNCHANGED <<gate, of>>

Leave(f) ==
    /\ member[f] \in {"waiting", "live"}
    /\ member' = [member EXCEPT ![f] = "gone"]
    /\ UNCHANGED <<gate, of>>

\* The departures the gate insists on.
Expel(f) ==
    /\ \/ member[f] = "waiting" /\ gate[of[f]] \in {"drained", "terminated"}
       \/ member[f] = "live" /\ gate[of[f]] = "terminated"
    /\ Leave(f)

Next ==
    \/ Tighten
    \/ \E f \in Flows :
          (\E l \in Leases : Admit(f, l)) \/ Connect(f) \/ Leave(f)

\* What no schedule and no clock may break, and what fair schedules add.
Safe == Init /\ [][Next]_gateVars

Spec == Safe /\ \A f \in Flows : WF_gateVars(Expel(f))

=============================================================================
