--------------------------- MODULE ATSLeaseProofs ---------------------------
(***************************************************************************)
(* What TLAPS proves of ATSLease, for any number of flows, any window and  *)
(* any behaviour of the two clocks.                                        *)
(***************************************************************************)
EXTENDS ATSLeaseGate, TLAPS

\* A flow whose goroutine is under way is registered until it is closed, and
\* a closed one is never registered again.
RegisteredInv ==
    \A f \in Flows :
        /\ pc[f] \in {"dialing", "gotConn", "gotErr", "using", "reading"} =>
             (f \in flows <=> f \notin fclosed)
        /\ pc[f] = "idle" => f \notin flows \cup fclosed \cup queue
        /\ pc[f] = "done" => f \in fclosed /\ f \notin flows
        /\ f \in tail => f \in fclosed

\* Where the socket of a flow can be: nowhere before the upstream answers,
\* in the hands of finishDial, or attached to the flow.
SocketInv ==
    \A f \in Flows :
        /\ pc[f] \in {"idle", "dialing", "gotErr"} => sock[f] = "none"
        /\ pc[f] \in {"using", "reading"} => f \in attached
        /\ f \in attached => pc[f] \in {"using", "reading", "done"}
        /\ sock[f] = "open" /\ f \notin attached => pc[f] = "gotConn"

\* A termination is a revocation, and no flow is admitted after the end of the
\* active window: the position of the gate is one of an order.
GateInv == newDeadline <= activeDeadline /\ (terminateActive => revoked)

IndInv ==
    /\ TypeOK
    /\ GateInv
    /\ RegisteredInv
    /\ SocketInv
    /\ SocketOwned

\* A freshly built outbound satisfies the inductive invariant.
LEMMA InitIndInv == Init => IndInv
<1> SUFFICES ASSUME Init PROVE IndInv
  OBVIOUS
<1>1. wall \in Nat /\ newDeadline \in Nat /\ activeDeadline \in Nat
  BY WindowAssumption DEF Init
<1>2. TypeOK
  BY <1>1 DEF Init, TypeOK, PCs
<1>3. RegisteredInv /\ SocketInv /\ SocketOwned
  BY DEF Init, RegisteredInv, SocketInv, SocketOwned
<1>4. GateInv
  BY <1>1, WindowAssumption DEF Init, GateInv
<1>5. QED
  BY <1>2, <1>3, <1>4 DEF IndInv

\* flow.close, whoever calls it, keeps the bookkeeping of registered flows.
LEMMA MarkClosedRegistered ==
  ASSUME TypeOK, RegisteredInv, NEW f \in Flows, MarkClosed(f),
         pc[f] # "idle", pc' \in {pc, [pc EXCEPT ![f] = "done"]},
         queue' \subseteq queue
  PROVE  RegisteredInv'
  BY DEF TypeOK, PCs, RegisteredInv, MarkClosed

\* Every step preserves the inductive invariant.
LEMMA NextIndInv == IndInv /\ [Next]_vars => IndInv'
<1> SUFFICES ASSUME IndInv, [Next]_vars PROVE IndInv'
  OBVIOUS
<1> USE WindowAssumption
    DEF IndInv, TypeOK, PCs, GateInv, SocketInv, SocketOwned, clocks, window, flags
<1>1. CASE Start
  BY <1>1 DEF Start, RegisteredInv
<1>2. CASE Drain \/ Terminate \/ Close
  BY <1>2 DEF Drain, Terminate, Close, revoke, RegisteredInv
<1>3. ASSUME NEW f \in Flows, begin(f) PROVE IndInv'
  BY <1>3 DEF begin, RegisteredInv
<1>4. ASSUME NEW f \in Flows, DialDeadline(f) PROVE IndInv'
  BY <1>4 DEF DialDeadline, RegisteredInv
<1>5. ASSUME NEW f \in Flows, UpstreamReturns(f) PROVE IndInv'
  BY <1>5 DEF UpstreamReturns, RegisteredInv
<1>6. ASSUME NEW f \in Flows, DialFailed(f) PROVE IndInv'
  <2>1. RegisteredInv'
    BY <1>6, MarkClosedRegistered DEF DialFailed
  <2>2. QED
    BY <1>6, <2>1 DEF DialFailed, MarkClosed, RegisteredInv
<1>7. ASSUME NEW f \in Flows, finishDial(f) PROVE IndInv'
  <2>1. CASE DialAccepted(f)
    BY <1>7, <2>1 DEF finishDial, DialAccepted, RegisteredInv
  <2>2. CASE ~DialAccepted(f)
    <3>1. RegisteredInv'
      BY <1>7, <2>2, MarkClosedRegistered DEF finishDial
    <3>2. QED
      BY <1>7, <2>2, <3>1 DEF finishDial, MarkClosed, RegisteredInv
  <2>3. QED
    BY <2>1, <2>2
<1>8. ASSUME NEW f \in Flows, ReadBegins(f) PROVE IndInv'
  BY <1>8 DEF ReadBegins, RegisteredInv
<1>9. ASSUME NEW f \in Flows, ReadDelivers(f) PROVE IndInv'
  BY <1>9 DEF ReadDelivers, RegisteredInv
<1>10. ASSUME NEW f \in Flows, Refused(f) PROVE IndInv'
  <2>1. RegisteredInv'
    BY <1>10, MarkClosedRegistered DEF Refused
  <2>2. QED
    BY <1>10, <2>1 DEF Refused, MarkClosed, RegisteredInv
<1>11. ASSUME NEW f \in Flows, UserCloses(f) PROVE IndInv'
  <2>1. RegisteredInv'
    BY <1>11, MarkClosedRegistered DEF UserCloses
  <2>2. QED
    BY <1>11, <2>1 DEF UserCloses, MarkClosed, RegisteredInv
<1>12. ASSUME NEW f \in Flows, FlowTimer(f) PROVE IndInv'
  <2>1. RegisteredInv'
    BY <1>12, MarkClosedRegistered DEF FlowTimer
  <2>2. QED
    BY <1>12, <2>1 DEF FlowTimer, MarkClosed, RegisteredInv
<1>13. ASSUME NEW f \in Flows, RevokeCloses(f) PROVE IndInv'
  <2>1. RegisteredInv'
    BY <1>13, MarkClosedRegistered DEF RevokeCloses, RegisteredInv
  <2>2. QED
    BY <1>13, <2>1 DEF RevokeCloses, MarkClosed, RegisteredInv
<1>14. ASSUME NEW f \in Flows, CloseTail(f) PROVE IndInv'
  BY <1>14 DEF CloseTail, RegisteredInv
<1>15. CASE Tick \/ StepWall
  BY <1>15 DEF Tick, StepWall, RegisteredInv
<1>16. CASE UNCHANGED vars
  BY <1>16 DEF vars, RegisteredInv
<1>17. QED
  BY <1>1, <1>2, <1>3, <1>4, <1>5, <1>6, <1>7, <1>8, <1>9, <1>10, <1>11,
     <1>12, <1>13, <1>14, <1>15, <1>16
  DEF Next, FlowStep

\* The inductive invariant holds in every reachable state.
THEOREM Invariance == Spec => []IndInv
  BY InitIndInv, NextIndInv, PTL DEF Spec

\* The leased outbound never leaks an upstream socket: dial, revocation,
\* timers and users may meet in any order.
THEOREM NoSocketLeak == Spec => []SocketOwned
<1>1. IndInv => SocketOwned
  BY DEF IndInv
<1>2. QED
  BY Invariance, <1>1, PTL

\* After a revocation, or after the original window by the monotonic clock,
\* no connection is handed out and no dial begins, however the wall clock is
\* set and whichever dials were under way.
THEOREM AdmissionEnds == Spec => NoLateAdmission
<1> DEFINE Ends == revoked \/ mono >= newDeadline =>
                     attached' \subseteq attached /\ flows' \subseteq flows
<1>1. IndInv /\ [Next]_vars => [Ends]_vars
  <2> SUFFICES ASSUME IndInv, Next PROVE Ends
    OBVIOUS
  <2> USE DEF IndInv, TypeOK, clocks, window, flags, MarkClosed
  <2>1. CASE \E f \in Flows : begin(f) \/ finishDial(f)
    BY <2>1 DEF begin, finishDial, DialAccepted, admits
  <2>2. CASE \E f \in Flows :
               \/ DialDeadline(f) \/ UpstreamReturns(f) \/ DialFailed(f)
               \/ ReadBegins(f) \/ ReadDelivers(f) \/ Refused(f)
               \/ UserCloses(f) \/ FlowTimer(f) \/ RevokeCloses(f)
               \/ CloseTail(f)
    BY <2>2 DEF DialDeadline, UpstreamReturns, DialFailed, ReadBegins,
                ReadDelivers, Refused, UserCloses, FlowTimer, RevokeCloses,
                CloseTail
  <2>3. CASE Start \/ Drain \/ Terminate \/ Close \/ Tick \/ StepWall
    BY <2>3 DEF Start, Drain, Terminate, Close, revoke, Tick, StepWall
  <2>4. QED
    BY <2>1, <2>2, <2>3 DEF Next, FlowStep
<1>2. QED
  BY Invariance, <1>1, PTL DEF Spec, NoLateAdmission

\* Every variable of the leased outbound has its type.
THEOREM TypeCorrect == Spec => []TypeOK
<1>1. IndInv => TypeOK
  BY DEF IndInv
<1>2. QED
  BY Invariance, <1>1, PTL

\* A read that leasedConn.Read or leasedPacket.ReadPacket was blocked in when
\* the lease ended is refused, whoever ended it.
THEOREM DataEnds == Spec => NoLateData
<1> DEFINE Refuses == \A f \in Flows : pc[f] = "reading" /\ pc'[f] = "using" =>
                        ~terminateActive /\ f \notin fclosed /\ mono < activeDeadline
<1>1. IndInv /\ [Next]_vars => [Refuses]_vars
  <2> SUFFICES ASSUME IndInv, Next, NEW f \in Flows,
                      pc[f] = "reading", pc'[f] = "using"
               PROVE  ~terminateActive /\ f \notin fclosed /\ mono < activeDeadline
    OBVIOUS
  <2> USE DEF IndInv, TypeOK, PCs
  <2>1. CASE Start \/ Drain \/ Terminate \/ Close \/ Tick \/ StepWall
    BY <2>1 DEF Start, Drain, Terminate, Close, revoke, Tick, StepWall
  <2>2. ASSUME NEW g \in Flows, ReadDelivers(g)
        PROVE  ~terminateActive /\ f \notin fclosed /\ mono < activeDeadline
    BY <2>2 DEF ReadDelivers, current, active
  <2>3. ASSUME NEW g \in Flows, finishDial(g) PROVE FALSE
    BY <2>3 DEF finishDial
  <2>4. ASSUME NEW g \in Flows,
               \/ begin(g) \/ DialDeadline(g) \/ UpstreamReturns(g) \/ DialFailed(g)
               \/ ReadBegins(g) \/ Refused(g) \/ UserCloses(g) \/ FlowTimer(g)
               \/ RevokeCloses(g) \/ CloseTail(g)
        PROVE  FALSE
    BY <2>4 DEF begin, DialDeadline, UpstreamReturns, DialFailed, ReadBegins,
                Refused, UserCloses, FlowTimer, RevokeCloses, CloseTail
  <2>5. QED
    BY <2>1, <2>2, <2>3, <2>4 DEF Next, FlowStep
<1>2. QED
  BY Invariance, <1>1, PTL DEF Spec, NoLateData

\* After the end of the lease no flow is admitted and no byte of a blocked read
\* is delivered.
THEOREM LateUseRefused == Spec => NoLateUse
  BY AdmissionEnds, DataEnds, PTL DEF NoLateUse

-----------------------------------------------------------------------------
(* The leased outbound implements the gate.                                *)

\* The three variables of the gate, as functions of the outbound's state.
TheGate == [l \in {TheLease} |-> GateOf(l)]
TheMembers == [f \in Flows |-> MemberOf(f)]
TheLeaseOf == [f \in Flows |-> IF pc[f] = "idle" THEN "none" ELSE TheLease]

\* The gate only closes further, when none of its flows moves.
LEMMA GateTightens ==
  ASSUME IndInv, mono <= mono', mono' \in Nat, UNCHANGED window,
         revoked => revoked', terminateActive => terminateActive',
         UNCHANGED <<TheMembers, TheLeaseOf>>
  PROVE  Gate!Tighten
<1>1. TheGate' \in [{TheLease} -> Gate!Positions]
  BY DEF TheGate, GateOf, Gate!Positions
<1>2. TheGate'[TheLease] \in Gate!Inner(TheGate[TheLease])
  BY DEF TheGate, GateOf, Gate!Inner, Gate!Positions, IndInv, TypeOK, window
<1>3. QED
  BY <1>1, <1>2 DEF Gate!Tighten, TheGate, TheMembers, TheLeaseOf

\* A flow moves and the others and the gate stay.
LEMMA OneMoves ==
  ASSUME NEW f \in Flows,
         \A g \in Flows \ {f} : MemberOf(g)' = MemberOf(g)
                              /\ (pc'[g] = "idle" <=> pc[g] = "idle"),
         pc'[f] = "idle" <=> pc[f] = "idle"
  PROVE  /\ TheMembers' = [TheMembers EXCEPT ![f] = MemberOf(f)']
         /\ TheLeaseOf' = TheLeaseOf
  BY DEF TheMembers, TheLeaseOf

\* flow.close makes a member leave, and nothing of a flow that has left.
LEMMA CloseLeaves ==
  ASSUME IndInv, NEW f \in Flows, MarkClosed(f), pc[f] # "idle",
         pc' = pc \/ pc' = [pc EXCEPT ![f] = "done"],
         UNCHANGED <<clocks, window, flags, attached>>
  PROVE  Gate!Leave(f) \/ UNCHANGED Gate!gateVars
<1>1. \A g \in Flows \ {f} : MemberOf(g)' = MemberOf(g)
                           /\ (pc'[g] = "idle" <=> pc[g] = "idle")
  BY DEF MarkClosed, MemberOf, IndInv, TypeOK
<1>2. /\ pc'[f] # "idle" /\ MemberOf(f)' = "gone"
      /\ MemberOf(f) \in {"waiting", "live", "gone"}
  BY DEF MarkClosed, MemberOf, IndInv, TypeOK
<1>3. TheGate' = TheGate
  BY DEF TheGate, GateOf, clocks, window, flags
<1>4. /\ TheMembers' = [TheMembers EXCEPT ![f] = "gone"] /\ TheLeaseOf' = TheLeaseOf
      /\ TheMembers[f] = MemberOf(f)
  BY <1>1, <1>2, OneMoves DEF TheMembers
<1>5. CASE MemberOf(f) = "gone"
  <2>1. TheMembers' = TheMembers
    BY <1>4, <1>5 DEF TheMembers
  <2>2. QED
    BY <2>1, <1>3, <1>4 DEF Gate!gateVars, TheGate, TheMembers, TheLeaseOf
<1>6. CASE MemberOf(f) \in {"waiting", "live"}
  BY <1>3, <1>4, <1>6 DEF Gate!Leave, TheGate, TheMembers, TheLeaseOf
<1>7. QED
  BY <1>2, <1>5, <1>6

\* Every step of the outbound is a step of the gate or leaves it as it is.
LEMMA GateStep == IndInv /\ [Next]_vars => [Gate!Next]_(Gate!gateVars)
<1> SUFFICES ASSUME IndInv, [Next]_vars PROVE [Gate!Next]_(Gate!gateVars)
  OBVIOUS
<1>1. CASE Drain \/ Terminate \/ Close \/ Tick
  <2>1. UNCHANGED <<pc, flows, attached>>
    BY <1>1 DEF Drain, Terminate, Close, revoke, Tick
  <2>2. UNCHANGED <<TheMembers, TheLeaseOf>>
    BY <2>1 DEF TheMembers, TheLeaseOf, MemberOf
  <2>3. /\ mono <= mono' /\ mono' \in Nat /\ UNCHANGED window
        /\ revoked => revoked'
        /\ terminateActive => terminateActive'
    BY <1>1 DEF Drain, Terminate, Close, revoke, Tick, clocks, flags, IndInv, TypeOK
  <2>4. Gate!Tighten
    BY <2>2, <2>3, GateTightens
  <2>5. QED
    BY <2>4 DEF Gate!Next
<1>2. ASSUME NEW f \in Flows, begin(f) PROVE Gate!Next
  <2>1. MemberOf(f) = "out" /\ MemberOf(f)' = "waiting" /\ GateOf(TheLease) = "open"
    BY <1>2 DEF begin, admits, MemberOf, GateOf, IndInv, TypeOK, GateInv, SocketInv
  <2>2. \A g \in Flows \ {f} : MemberOf(g)' = MemberOf(g) /\ pc'[g] = pc[g]
    BY <1>2 DEF begin, MemberOf, IndInv, TypeOK
  <2>3. pc[f] = "idle" /\ pc'[f] = "dialing"
    BY <1>2 DEF begin, IndInv, TypeOK
  <2>4. /\ TheMembers' = [TheMembers EXCEPT ![f] = "waiting"]
        /\ TheLeaseOf' = [TheLeaseOf EXCEPT ![f] = TheLease]
    BY <2>1, <2>2, <2>3 DEF TheMembers, TheLeaseOf
  <2>5. TheGate' = TheGate /\ TheGate[TheLease] = "open" /\ TheMembers[f] = "out"
    BY <1>2, <2>1 DEF begin, TheGate, GateOf, TheMembers, clocks, window, flags
  <2>6. Gate!Admit(f, TheLease)
    BY <2>4, <2>5 DEF Gate!Admit, TheGate, TheMembers, TheLeaseOf
  <2>7. QED
    BY <2>6 DEF Gate!Next
<1>3. ASSUME NEW f \in Flows, finishDial(f) PROVE [Gate!Next]_(Gate!gateVars)
  <2>1. CASE DialAccepted(f) /\ attached' = attached \cup {f}
    <3>1. MemberOf(f) = "waiting" /\ MemberOf(f)' = "live"
          /\ pc[f] # "idle" /\ pc'[f] # "idle"
      BY <1>3, <2>1 DEF finishDial, DialAccepted, MemberOf, IndInv, TypeOK,
         RegisteredInv, SocketInv
    <3>2. GateOf(TheLease) = "open"
      BY <2>1 DEF DialAccepted, admits, active, GateOf, IndInv, TypeOK, GateInv
    <3>3. \A g \in Flows \ {f} : MemberOf(g)' = MemberOf(g)
                               /\ (pc'[g] = "idle" <=> pc[g] = "idle")
      BY <1>3, <2>1 DEF finishDial, MemberOf, IndInv, TypeOK
    <3>4. /\ TheMembers' = [TheMembers EXCEPT ![f] = "live"] /\ TheLeaseOf' = TheLeaseOf
      BY <3>1, <3>3, OneMoves
    <3>5. /\ TheGate' = TheGate /\ TheGate[TheLeaseOf[f]] = "open"
          /\ TheMembers[f] = "waiting"
      BY <1>3, <3>1, <3>2 DEF finishDial, TheGate, GateOf, TheMembers, TheLeaseOf,
         clocks, window, flags
    <3>6. Gate!Connect(f)
      BY <3>4, <3>5 DEF Gate!Connect, TheGate, TheMembers, TheLeaseOf
    <3>7. QED
      BY <3>6 DEF Gate!Next
  <2>2. CASE MarkClosed(f) /\ pc' = [pc EXCEPT ![f] = "done"] /\ UNCHANGED attached
    <3>1. pc[f] # "idle" /\ UNCHANGED <<clocks, window, flags>>
      BY <1>3 DEF finishDial
    <3>2. QED
      BY <2>2, <3>1, CloseLeaves DEF Gate!Next
  <2>3. QED
    BY <1>3, <2>1, <2>2 DEF finishDial
<1>4. ASSUME NEW f \in Flows,
             \/ DialFailed(f) \/ Refused(f) \/ UserCloses(f) \/ FlowTimer(f)
             \/ RevokeCloses(f)
      PROVE  [Gate!Next]_(Gate!gateVars)
  <2>1. MarkClosed(f) /\ UNCHANGED <<clocks, window, flags, attached>>
        /\ (pc' = pc \/ pc' = [pc EXCEPT ![f] = "done"])
    BY <1>4 DEF DialFailed, Refused, UserCloses, FlowTimer, RevokeCloses
  <2>2. pc[f] # "idle"
    BY <1>4 DEF DialFailed, Refused, UserCloses, FlowTimer, RevokeCloses, IndInv,
                RegisteredInv, SocketInv
  <2>3. QED
    BY <2>1, <2>2, CloseLeaves DEF Gate!Next
<1>5. ASSUME NEW f \in Flows,
             \/ DialDeadline(f) \/ UpstreamReturns(f) \/ ReadBegins(f)
             \/ ReadDelivers(f) \/ CloseTail(f)
      PROVE  UNCHANGED Gate!gateVars
  <2>1. UNCHANGED <<flows, attached, mono, window, flags>>
    BY <1>5 DEF DialDeadline, UpstreamReturns, ReadBegins, ReadDelivers, CloseTail,
       clocks
  <2>2. \A g \in Flows : pc'[g] = "idle" <=> pc[g] = "idle"
    BY <1>5 DEF DialDeadline, UpstreamReturns, ReadBegins, ReadDelivers, CloseTail,
       IndInv, TypeOK
  <2>3. \A g \in Flows : MemberOf(g)' = MemberOf(g)
    BY <2>1, <2>2 DEF MemberOf
  <2>4. QED
    BY <2>1, <2>2, <2>3 DEF Gate!gateVars, GateOf, window, flags
<1>6. CASE Start \/ StepWall \/ UNCHANGED vars
  <2>1. /\ UNCHANGED <<pc, flows, attached, mono, newDeadline, activeDeadline>>
        /\ UNCHANGED <<revoked, terminateActive>>
    BY <1>6 DEF Start, StepWall, vars, clocks, window, flags
  <2>2. \A g \in Flows : MemberOf(g)' = MemberOf(g)
    BY <2>1 DEF MemberOf
  <2>3. QED
    BY <2>1, <2>2 DEF Gate!gateVars, GateOf
<1>7. QED
  BY <1>1, <1>2, <1>3, <1>4, <1>5, <1>6 DEF Next, FlowStep

\* The dials, timers, revocations and two-step closes of the outbound are steps
\* of the gate LeaseGate describes: the safety half of ImplementsLeaseGate.
THEOREM ImplementsSafeGate == Spec => Gate!Safe
<1>1. Init => Gate!Init
  BY WindowAssumption DEF Init, Gate!Init, GateOf, MemberOf, Gate!Positions
<1>2. QED
  BY <1>1, Invariance, GateStep, PTL DEF Spec, Gate!Safe
=============================================================================
