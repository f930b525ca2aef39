------------------------------ MODULE ATSLease ------------------------------
(***************************************************************************)
(* The leased outbound of engine/sing-box/protocol/pokrov/atslease: a gate *)
(* in front of one upstream. A lease admits new flows until newUntil and   *)
(* lets admitted ones live until activeUntil, on the wall clock and, from  *)
(* the deadlines computed when the outbound is built, on the monotonic     *)
(* one: the wall clock may be stepped in either direction while it runs.   *)
(*                                                                         *)
(* A flow is one DialContext or ListenPacket call and the connection it    *)
(* returns. Its goroutine, the dial deadline timer, the flow's own timer,  *)
(* the revoking host and Close all meet at h.mu, and each of them does its *)
(* closing after it has released it.                                       *)
(***************************************************************************)
EXTENDS Integers

CONSTANTS
    Flows,         \* the flows the router may ask for
    Issued, NewUntil, ActiveUntil,   \* the signed window (wall clock)
    MaxTime        \* bound on both clocks

ASSUME WindowAssumption ==
    /\ Issued \in Nat /\ NewUntil \in Nat /\ ActiveUntil \in Nat
    /\ Issued < NewUntil /\ NewUntil <= ActiveUntil
    /\ MaxTime \in Nat

VARIABLES
    wall, mono,                          \* the two clocks
    newDeadline, activeDeadline,         \* monotonic deadlines
    upstream,                            \* h.upstream # nil
    closed, revoked, terminateActive,    \* flags of the outbound
    flows,      \* h.flows
    pc,         \* the goroutine that dials and then uses each flow
    ctxDead,    \* flows whose dial context is cancelled
    attached,   \* flows with flow.connection or flow.packet set
    fclosed,    \* flows with flow.closed set
    sock,       \* the upstream socket of each flow
    queue,      \* flows a revoke has picked and not yet closed
    tail        \* flows marked closed whose socket is still to be closed

clocks == <<wall, mono>>
window == <<newDeadline, activeDeadline>>
flags == <<upstream, closed, revoked, terminateActive>>
vars == <<wall, mono, newDeadline, activeDeadline, upstream, closed, revoked,
          terminateActive, flows, pc, ctxDead, attached, fclosed, sock, queue,
          tail>>

PCs == {"idle", "dialing", "gotConn", "gotErr", "using", "reading", "done"}

-----------------------------------------------------------------------------
admits ==
    /\ ~closed /\ ~revoked
    /\ wall >= Issued /\ wall < NewUntil
    /\ mono < newDeadline

active == wall < ActiveUntil /\ mono < activeDeadline

current(f) == f \notin fclosed /\ ~terminateActive /\ active

\* NewOutbound accepts only a window that contains the present.
Init ==
    /\ wall \in Issued .. (NewUntil - 1)
    /\ mono = 0
    /\ newDeadline = NewUntil - wall
    /\ activeDeadline = ActiveUntil - wall
    /\ upstream = FALSE
    /\ closed = FALSE /\ revoked = FALSE /\ terminateActive = FALSE
    /\ flows = {}
    /\ pc = [f \in Flows |-> "idle"]
    /\ ctxDead = {} /\ attached = {} /\ fclosed = {}
    /\ sock = [f \in Flows |-> "none"]
    /\ queue = {} /\ tail = {}

\* Start resolves the upstream unless the outbound was closed before.
Start ==
    /\ ~upstream /\ ~closed
    /\ upstream' = TRUE
    /\ UNCHANGED <<clocks, window, closed, revoked, terminateActive, flows, pc,
                   ctxDead, attached, fclosed, sock, queue, tail>>

\* The first half of flow.close, under the mutex; nothing if already closed.
MarkClosed(f) ==
    /\ fclosed' = fclosed \cup {f}
    /\ flows' = flows \ {f}
    /\ tail' = IF f \in fclosed THEN tail ELSE tail \cup {f}

\* The second half of flow.close, after the mutex is released: stop the
\* timer, cancel the dial, close what was attached.
CloseTail(f) ==
    /\ f \in tail
    /\ tail' = tail \ {f}
    /\ ctxDead' = ctxDead \cup {f}
    /\ sock' = [sock EXCEPT ![f] = IF f \in attached THEN "closed" ELSE @]
    /\ UNCHANGED <<clocks, window, flags, flows, pc, attached, fclosed, queue>>

-----------------------------------------------------------------------------
(* DialContext and ListenPacket.                                           *)

begin(f) ==
    /\ pc[f] = "idle"
    /\ upstream /\ admits
    /\ flows' = flows \cup {f}
    /\ pc' = [pc EXCEPT ![f] = "dialing"]
    /\ UNCHANGED <<clocks, window, flags, ctxDead, attached, fclosed, sock,
                   queue, tail>>

\* The AfterFunc of the dial cancels it when the window for new flows ends.
DialDeadline(f) ==
    /\ pc[f] = "dialing" /\ mono >= newDeadline /\ f \notin ctxDead
    /\ ctxDead' = ctxDead \cup {f}
    /\ UNCHANGED <<clocks, window, flags, flows, pc, attached, fclosed, sock,
                   queue, tail>>

\* The upstream answers: with a socket, also after a cancellation, or an error.
UpstreamReturns(f) ==
    /\ pc[f] = "dialing"
    /\ \/ /\ sock' = [sock EXCEPT ![f] = "open"]
          /\ pc' = [pc EXCEPT ![f] = "gotConn"]
       \/ /\ pc' = [pc EXCEPT ![f] = "gotErr"]
          /\ UNCHANGED sock
    /\ UNCHANGED <<clocks, window, flags, flows, ctxDead, attached, fclosed,
                   queue, tail>>

DialFailed(f) ==
    /\ pc[f] = "gotErr"
    /\ MarkClosed(f)
    /\ pc' = [pc EXCEPT ![f] = "done"]
    /\ UNCHANGED <<clocks, window, flags, ctxDead, attached, sock, queue>>

\* finishDial decides under the mutex whether the socket may be used.
DialAccepted(f) ==
    f \notin fclosed /\ f \notin ctxDead /\ admits /\ active

\* Mutant: a refused socket is left to flow.close, which does not know it.
BugFinishDial(f) ==
    /\ pc[f] = "gotConn"
    /\ \/ /\ DialAccepted(f)
          /\ attached' = attached \cup {f}
          /\ pc' = [pc EXCEPT ![f] = "using"]
          /\ UNCHANGED <<fclosed, flows, tail>>
       \/ /\ ~DialAccepted(f)
          /\ MarkClosed(f)
          /\ pc' = [pc EXCEPT ![f] = "done"]
          /\ UNCHANGED attached
    /\ UNCHANGED <<clocks, window, flags, ctxDead, sock, queue>>

finishDial(f) ==
    /\ pc[f] = "gotConn"
    /\ \/ /\ DialAccepted(f)
          /\ attached' = attached \cup {f}
          /\ pc' = [pc EXCEPT ![f] = "using"]
          /\ UNCHANGED <<sock, fclosed, flows, tail>>
       \/ /\ ~DialAccepted(f)
          /\ sock' = [sock EXCEPT ![f] = "closed"]
          /\ MarkClosed(f)
          /\ pc' = [pc EXCEPT ![f] = "done"]
          /\ UNCHANGED attached
    /\ UNCHANGED <<clocks, window, flags, ctxDead, queue>>

-----------------------------------------------------------------------------
(* leasedConn and leasedPacket. A write, a CloseWrite or the first test of *)
(* a read that finds the flow no longer current closes it; a write that    *)
(* finds it current leaves no trace in this state.                         *)

ReadBegins(f) ==
    /\ pc[f] = "using" /\ current(f)
    /\ pc' = [pc EXCEPT ![f] = "reading"]
    /\ UNCHANGED <<clocks, window, flags, flows, ctxDead, attached, fclosed,
                   sock, queue, tail>>

\* Mutant: the flow is not tested again after the upstream read.
BugReadDelivers(f) ==
    /\ pc[f] = "reading"
    /\ pc' = [pc EXCEPT ![f] = "using"]
    /\ UNCHANGED <<clocks, window, flags, flows, ctxDead, attached, fclosed,
                   sock, queue, tail>>

ReadDelivers(f) ==
    /\ pc[f] = "reading" /\ current(f)
    /\ pc' = [pc EXCEPT ![f] = "using"]
    /\ UNCHANGED <<clocks, window, flags, flows, ctxDead, attached, fclosed,
                   sock, queue, tail>>

Refused(f) ==
    /\ pc[f] \in {"using", "reading"} /\ ~current(f)
    /\ MarkClosed(f)
    /\ pc' = [pc EXCEPT ![f] = "done"]
    /\ UNCHANGED <<clocks, window, flags, ctxDead, attached, sock, queue>>

\* Close from the user's side, possibly while another goroutine reads.
UserCloses(f) ==
    /\ pc[f] \in {"using", "reading"} /\ f \notin fclosed
    /\ MarkClosed(f)
    /\ UNCHANGED <<clocks, window, flags, pc, ctxDead, attached, sock, queue>>

\* The AfterFunc armed by finishDial at the active deadline.
FlowTimer(f) ==
    /\ f \in attached /\ f \notin fclosed /\ mono >= activeDeadline
    /\ MarkClosed(f)
    /\ UNCHANGED <<clocks, window, flags, pc, ctxDead, attached, sock, queue>>

-----------------------------------------------------------------------------
(* revoke: Revoke(drain), Revoke(terminate) and Close. The flows to close  *)
(* are picked under the mutex and closed one by one after it.              *)

revoke(closeOutbound, terminate) ==
    /\ closed' = (closed \/ closeOutbound)
    /\ revoked' = TRUE
    /\ terminateActive' = (terminateActive \/ terminate)
    /\ queue' = queue \cup IF terminate THEN flows ELSE flows \ attached
    /\ UNCHANGED <<clocks, window, upstream, flows, pc, ctxDead, attached,
                   fclosed, sock, tail>>

Drain == revoke(FALSE, FALSE)
Terminate == revoke(FALSE, TRUE)
Close == revoke(TRUE, TRUE)

RevokeCloses(f) ==
    /\ f \in queue
    /\ queue' = queue \ {f}
    /\ MarkClosed(f)
    /\ UNCHANGED <<clocks, window, flags, pc, ctxDead, attached, sock>>

-----------------------------------------------------------------------------
Tick ==
    /\ mono < MaxTime
    /\ mono' = mono + 1
    /\ wall' = IF wall < MaxTime THEN wall + 1 ELSE wall
    /\ UNCHANGED <<window, flags, flows, pc, ctxDead, attached, fclosed, sock,
                   queue, tail>>

\* The user or a time service sets the wall clock.
StepWall ==
    /\ wall' \in 0 .. MaxTime
    /\ UNCHANGED <<mono, window, flags, flows, pc, ctxDead, attached, fclosed,
                   sock, queue, tail>>

FlowStep(f) ==
    \/ begin(f) \/ DialDeadline(f) \/ UpstreamReturns(f) \/ DialFailed(f)
    \/ finishDial(f) \/ ReadBegins(f) \/ ReadDelivers(f) \/ Refused(f)
    \/ UserCloses(f) \/ FlowTimer(f) \/ RevokeCloses(f) \/ CloseTail(f)

Next ==
    \/ Start \/ Drain \/ Terminate \/ Close
    \/ \E f \in Flows : FlowStep(f)
    \/ Tick \/ StepWall

\* Timers fire, and a goroutine that has something to close goes on. Neither
\* the upstream nor the user of a connection owes a step, and time may stop.
Fairness ==
    \A f \in Flows :
        /\ WF_vars(finishDial(f)) /\ WF_vars(DialDeadline(f))
        /\ WF_vars(FlowTimer(f)) /\ WF_vars(RevokeCloses(f))
        /\ WF_vars(CloseTail(f))

Spec == Init /\ [][Next]_vars
FairSpec == Spec /\ Fairness

-----------------------------------------------------------------------------
(* Properties.                                                             *)

\* Every variable has its type.
TypeOK ==
    /\ wall \in Nat /\ mono \in Nat
    /\ newDeadline \in Nat /\ activeDeadline \in Nat
    /\ upstream \in BOOLEAN /\ closed \in BOOLEAN
    /\ revoked \in BOOLEAN /\ terminateActive \in BOOLEAN
    /\ flows \subseteq Flows /\ ctxDead \subseteq Flows
    /\ attached \subseteq Flows /\ fclosed \subseteq Flows
    /\ queue \subseteq Flows /\ tail \subseteq Flows
    /\ pc \in [Flows -> PCs]
    /\ sock \in [Flows -> {"none", "open", "closed"}]

\* No race of a late dial, a revocation, a timer and a user leaks a socket:
\* an open one is in the hands of its dial, belongs to a registered flow
\* that a later revoke will find, or is about to be closed.
SocketOwned ==
    \A f \in Flows : sock[f] = "open" =>
        pc[f] = "gotConn" \/ f \in flows \/ f \in tail

\* A revoked lease, or one whose original monotonic window has ended, hands
\* out no further connection, neither to a dial that was admitted earlier nor
\* after the wall clock was set back; the admitted ones only get fewer.
NoLateAdmission ==
    [][revoked \/ mono >= newDeadline =>
         attached' \subseteq attached /\ flows' \subseteq flows]_vars

\* A read that was blocked in the upstream when the lease was terminated or
\* ran out hands its bytes to nobody.
NoLateData ==
    [][\A f \in Flows : pc[f] = "reading" /\ pc'[f] = "using" =>
         ~terminateActive /\ f \notin fclosed /\ mono < activeDeadline]_vars

\* After the end of the lease no flow is admitted and no byte of a read that
\* was blocked is delivered.
NoLateUse == NoLateAdmission /\ NoLateData

\* After a termination, a close or the end of the active window every socket
\* is closed in the end, also one whose dial was under way.
TerminatedSocketsClose ==
    terminateActive \/ mono >= activeDeadline
        ~> \A f \in Flows : sock[f] # "open"
=============================================================================
