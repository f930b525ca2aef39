------------------------------ MODULE TelegramWS ------------------------------
(***************************************************************************)
(* The Telegram WebSocket outbound                                         *)
(* (src/engine/sing-box/protocol/pokrov/telegramws/{outbound,conn,         *)
(* admission}.go): an admission that can only be closed, and flows that    *)
(* read 64 bytes, dial a gateway and either become a WebSocket stream or   *)
(* fall back to the VPN with the bytes they read.                          *)
(*                                                                         *)
(* Whoever finds that the admission is over (a flow, a write, a call of    *)
(* the owner, the expiry timer, the parent context, a change of interface) *)
(* denies it under the outbound's mutex and then, without the mutex,       *)
(* cancels the setups and withdraws the flows it listed.  A flow's own     *)
(* mutex decides between that withdrawal, its attachment and its transfer  *)
(* to the VPN.                                                             *)
(*                                                                         *)
(* telegramFlow.close marks the flow under that mutex and cancels and      *)
(* closes everything afterwards; a second caller returns at once and waits *)
(* for nothing.  `tail` names the one between the two halves.              *)
(*                                                                         *)
(* The signed window is inside or outside of the wall clock, which may be  *)
(* set to anything; the deadline on the monotonic clock is ahead or over.  *)
(* One datacenter stands for the path a flow's address selects.            *)
(***************************************************************************)
EXTENDS Naturals, FiniteSets

CONSTANT Flows

Owner == "owner"
Nobody == "nobody"

FlowsAssumption == Owner \notin Flows /\ Nobody \notin Flows

VARIABLES
    inWindow,    \* the wall clock is inside the signed window
    ahead,       \* the monotonic deadline is ahead
    parent,      \* the start context is live
    admitted,    \* h.admitted
    withdrawn,   \* h.withdrawn
    closed,      \* h.closed
    cancelled,   \* withdrawCtx was cancelled by the cleanup
    cleaner,     \* who runs the cleanup of the denial
    list,        \* flows the cleanup has still to withdraw
    closer,      \* where Close is
    closeList,   \* flows Close has still to close
    down,        \* dc.unavailable
    registered,  \* h.flows
    pc,          \* [Flows -> where the flow's goroutine is]
    ctx,         \* [Flows -> f.closed and the flow's context, see below]
    tail,        \* [Flows -> who has marked f.closed and still has to close]
    marked,      \* [Flows -> BOOLEAN]: f.setupWithdrawn
    transferred, \* [Flows -> BOOLEAN]: f.vpnTransferred
    deadline,    \* [Flows -> read deadline of the client]
    sock,        \* [Flows -> the gateway's socket, or how its dial failed]
    payload      \* [Flows -> BOOLEAN]: f.payloadCommitted

admissionVars == <<admitted, withdrawn, cleaner, list>>
clockVars == <<inWindow, ahead, parent>>
closeVars == <<closer, closeList>>
streamVars == <<sock, payload>>
closingVars == <<ctx, tail>>
flowVars == <<registered, pc, closingVars, marked, transferred, deadline, streamVars>>
vars == <<clockVars, admissionVars, closed, cancelled, closeVars, down, flowVars>>

(* Types; a flow that was transferred is no longer registered, and no flow *)
(* carries payload without an attached gateway.                            *)
TypeOK ==
    /\ inWindow \in BOOLEAN /\ ahead \in BOOLEAN /\ parent \in BOOLEAN
    /\ admitted \in BOOLEAN /\ withdrawn \in BOOLEAN /\ closed \in BOOLEAN
    /\ cancelled \in BOOLEAN /\ down \in BOOLEAN
    /\ cleaner \in Flows \cup {Owner, Nobody} /\ list \subseteq Flows
    /\ closer \in {"no", "withdrawing", "marking", "flows", "done"}
    /\ closeList \subseteq Flows
    /\ registered \subseteq {f \in Flows : ~transferred[f]}
    /\ pc \in [Flows -> {"new", "registered", "reading", "read", "dialing", "gateway",
                         "blame", "marking", "fallback", "active", "onVPN", "finishing",
                         "deleting", "done"}]
    /\ ctx \in [Flows -> {"live", "cancelled", "closing", "closed"}]
    /\ tail \in [Flows -> {"none", "finish", "cancel", "cleanup", "close"}]
    /\ marked \in [Flows -> BOOLEAN] /\ transferred \in [Flows -> BOOLEAN]
    /\ deadline \in [Flows -> {"none", "setup", "now"}]
    /\ sock \in [Flows -> {"none", "refused", "aborted", "held", "active", "closed"}]
    /\ payload \in [Flows -> BOOLEAN]
    /\ \A f \in Flows : payload[f] => sock[f] \in {"active", "closed"}

Init ==
    /\ inWindow = TRUE /\ ahead = TRUE /\ parent = TRUE
    /\ admitted = FALSE /\ withdrawn = FALSE /\ closed = FALSE /\ cancelled = FALSE
    /\ cleaner = Nobody /\ list = {} /\ closer = "no" /\ closeList = {}
    /\ down = FALSE /\ registered = {}
    /\ pc = [f \in Flows |-> "new"] /\ ctx = [f \in Flows |-> "live"]
    /\ tail = [f \in Flows |-> "none"]
    /\ marked = [f \in Flows |-> FALSE] /\ transferred = [f \in Flows |-> FALSE]
    /\ deadline = [f \in Flows |-> "none"]
    /\ sock = [f \in Flows |-> "none"] /\ payload = [f \in Flows |-> FALSE]

-----------------------------------------------------------------------------
(* currentLocked.                                                          *)
Current == ~closed /\ ~withdrawn /\ ~cancelled /\ parent /\ inWindow /\ ahead

(* denyLocked: the first denial lists the flows; its caller cleans up.     *)
Deny(who) ==
    IF withdrawn THEN UNCHANGED admissionVars
    ELSE /\ withdrawn' = TRUE /\ admitted' = FALSE
         /\ cleaner' = who /\ list' = registered

(* What every section that looks at the admission does when it is over.    *)
DenyIfOver(who) == IF Current THEN UNCHANGED admissionVars ELSE Deny(who)

(* A goroutine that denied goes on only after its cleanup.                 *)
Free(f) == cleaner # f

Go(f, where) == pc' = [pc EXCEPT ![f] = where]

(* f.closed, and flowCtx.Err() # nil.  A flow is "cancelled" when only its *)
(* context is done, "closing" when only f.closed is set, "closed" when     *)
(* both are.                                                               *)
Closed(f) == ctx[f] \in {"closing", "closed"}
CtxDone(f) == ctx[f] \in {"cancelled", "closed"}

(* telegramFlow.close, its section; a second call has nothing to do.       *)
MarkClosed(f, who) ==
    IF Closed(f) THEN UNCHANGED closingVars
    ELSE /\ ctx' = [ctx EXCEPT ![f] = IF @ = "live" THEN "closing" ELSE "closed"]
         /\ tail' = [tail EXCEPT ![f] = who]

(* A caller that runs through several flows is in the middle of one.       *)
Busy(who) == \E f \in Flows : tail[f] = who

BugCloseTail(f) ==
    /\ tail[f] # "none"
    /\ tail' = [tail EXCEPT ![f] = "none"] /\ ctx' = [ctx EXCEPT ![f] = "closed"]
    /\ UNCHANGED <<clockVars, admissionVars, closed, cancelled, closeVars, down,
                   registered, pc, marked, transferred, deadline, streamVars>>

(* telegramFlow.close, the rest, without the mutex: the context, the       *)
(* gateway it found attached and the client.                               *)
CloseTail(f) ==
    /\ tail[f] # "none"
    /\ tail' = [tail EXCEPT ![f] = "none"] /\ ctx' = [ctx EXCEPT ![f] = "closed"]
    /\ sock' = [sock EXCEPT ![f] = IF @ = "active" THEN "closed" ELSE @]
    /\ UNCHANGED <<clockVars, admissionVars, closed, cancelled, closeVars, down,
                   registered, pc, marked, transferred, deadline, payload>>

-----------------------------------------------------------------------------
(* NewConnection.                                                          *)

(* A flow of an open admission is registered; any other goes to the VPN at *)
(* once, or is closed by a closed outbound, and is never this outbound's.  *)
Arrive(f) ==
    /\ pc[f] = "new"
    /\ IF closed THEN UNCHANGED admissionVars ELSE DenyIfOver(f)
    /\ IF admitted /\ Current /\ ~down
       THEN Go(f, "registered") /\ registered' = registered \cup {f}
       ELSE Go(f, "done") /\ UNCHANGED registered
    /\ UNCHANGED <<clockVars, closed, cancelled, closeVars, down, closingVars, marked,
                   transferred, deadline, streamVars>>

(* The read of the initialization begins, unless the flow was withdrawn or *)
(* its client is closed and takes no deadline.                             *)
ReadBegins(f) ==
    /\ pc[f] = "registered" /\ Free(f)
    /\ \/ marked[f] /\ Go(f, "fallback") /\ UNCHANGED deadline
       \/ /\ ~marked[f]
          /\ deadline' = [deadline EXCEPT ![f] = "setup"] /\ Go(f, "reading")
       \/ ~marked[f] /\ Go(f, "finishing") /\ UNCHANGED deadline
    /\ UNCHANGED <<clockVars, admissionVars, closed, cancelled, closeVars, down,
                   registered, closingVars, marked, transferred, streamVars>>

(* It returns 64 bytes, fewer of them, or none; the deadline is taken off. *)
(* A client that cannot have its deadline set is closed.                   *)
ReadReturns(f) ==
    /\ pc[f] = "reading"
    /\ deadline' = [deadline EXCEPT ![f] = "none"]
    /\ \/ Go(f, "read") \/ Go(f, "fallback") \/ Go(f, "finishing")
    /\ UNCHANGED <<clockVars, admissionVars, closed, cancelled, closeVars, down,
                   registered, closingVars, marked, transferred, streamVars>>

(* IsReady after the read.                                                 *)
CheckReady(f) ==
    /\ pc[f] = "read"
    /\ DenyIfOver(f)
    /\ Go(f, IF Current /\ admitted THEN "dialing" ELSE "fallback")
    /\ UNCHANGED <<clockVars, closed, cancelled, closeVars, down, registered, closingVars,
                   marked, transferred, deadline, streamVars>>

(* connectGateway returns a socket, an error of the gateway or the setup   *)
(* timer, or the end of its context with the flow or with the withdrawal.  *)
GatewayReturns(f) ==
    /\ pc[f] = "dialing"
    /\ \E end \in IF ~CtxDone(f) /\ ~cancelled /\ parent
                 THEN {"held", "refused"} ELSE {"aborted"} :
          sock' = [sock EXCEPT ![f] = end]
    /\ Go(f, "gateway")
    /\ UNCHANGED <<clockVars, admissionVars, closed, cancelled, closeVars, down,
                   registered, closingVars, marked, transferred, deadline, payload>>

BugMayAttach(f) == ctx[f] = "live" /\ sock[f] = "held" /\ ~closed

(* The conditions of attach and of the section around it.  A setup whose   *)
(* context ended after the gateway answered is not attached either.        *)
MayAttach(f) ==
    /\ admitted /\ Current /\ ctx[f] = "live" /\ sock[f] = "held" /\ ~marked[f]

(* Under the mutex the gateway becomes the flow's, or the flow falls back. *)
Judge(f) ==
    /\ pc[f] = "gateway"
    /\ DenyIfOver(f)
    /\ \/ /\ MayAttach(f)
          /\ sock' = [sock EXCEPT ![f] = "active"] /\ Go(f, "active")
       \/ /\ sock' = [sock EXCEPT ![f] = IF @ = "held" THEN "closed" ELSE @]
          /\ Go(f, "blame")
    /\ UNCHANGED <<clockVars, closed, cancelled, closeVars, down, registered, closingVars,
                   marked, transferred, deadline, payload>>

(* A setup that failed under a live context asks IsReady before it blames. *)
Blame(f) ==
    /\ pc[f] = "blame" /\ Free(f)
    /\ IF CtxDone(f) THEN UNCHANGED admissionVars ELSE DenyIfOver(f)
    /\ Go(f, IF ~CtxDone(f) /\ Current /\ admitted THEN "marking" ELSE "fallback")
    /\ UNCHANGED <<clockVars, closed, cancelled, closeVars, down, registered, closingVars, marked,
                   transferred, deadline, streamVars>>

(* markUnavailable, in a section of its own.                               *)
MarkUnavailable(f) ==
    /\ pc[f] = "marking"
    /\ down' = TRUE /\ Go(f, "fallback")
    /\ UNCHANGED <<clockVars, admissionVars, closed, cancelled, closeVars, registered,
                   closingVars, marked, transferred, deadline, streamVars>>

(* fallback: the flow leaves the outbound and is transferred, unless the   *)
(* outbound or the flow is closed or its context done.  What its dial      *)
(* brought is behind it.                                                   *)
Fallback(f) ==
    /\ pc[f] = "fallback" /\ Free(f)
    /\ registered' = registered \ {f}
    /\ transferred' = [transferred EXCEPT ![f] = ~Closed(f)]
    /\ sock' = [sock EXCEPT ![f] = "none"]
    /\ Go(f, IF closed \/ ctx[f] # "live" THEN "finishing" ELSE "onVPN")
    /\ UNCHANGED <<clockVars, admissionVars, closed, cancelled, closeVars, down, closingVars,
                   marked, deadline, payload>>

BugWrite(f) ==
    /\ pc[f] = "active" /\ Free(f)
    /\ payload' = [payload EXCEPT ![f] = ctx[f] = "live" \/ @]
    /\ UNCHANGED <<clockVars, admissionVars, closed, cancelled, closeVars, down,
                   registered, pc, closingVars, marked, transferred, deadline, sock>>

(* admittedConn.Write: every write asks the admission and commits the      *)
(* payload under the same mutex as a denial.                               *)
Write(f) ==
    /\ pc[f] = "active" /\ Free(f)
    /\ DenyIfOver(f)
    /\ payload' = [payload EXCEPT ![f] = @ \/ (Current /\ admitted /\ ctx[f] = "live")]
    /\ UNCHANGED <<clockVars, closed, cancelled, closeVars, down, registered, pc, closingVars,
                   marked, transferred, deadline, sock>>

(* gatewayConn: an error on a socket the core has not closed.              *)
GatewayFails(f) ==
    /\ pc[f] = "active" /\ sock[f] = "active"
    /\ down' = TRUE /\ Go(f, "finishing")
    /\ UNCHANGED <<clockVars, admissionVars, closed, cancelled, closeVars, registered,
                   closingVars, marked, transferred, deadline, streamVars>>

StreamEnds(f) ==
    /\ pc[f] \in {"active", "onVPN"}
    /\ Go(f, "finishing")
    /\ UNCHANGED <<clockVars, admissionVars, closed, cancelled, closeVars, down,
                   registered, closingVars, marked, transferred, deadline, streamVars>>

(* finish: the AfterFunc is stopped and the flow closed; the flow leaves   *)
(* h.flows in a section of its own, once that close has returned.          *)
Finish(f) ==
    /\ pc[f] = "finishing"
    /\ MarkClosed(f, "finish") /\ Go(f, "deleting")
    /\ UNCHANGED <<clockVars, admissionVars, closed, cancelled, closeVars, down,
                   registered, marked, transferred, deadline, streamVars>>

Unregister(f) ==
    /\ pc[f] = "deleting" /\ tail[f] # "finish"
    /\ registered' = registered \ {f} /\ Go(f, "done")
    /\ UNCHANGED <<clockVars, admissionVars, closed, cancelled, closeVars, down,
                   closingVars, marked, transferred, deadline, streamVars>>

(* The caller cancels a flow; its AfterFunc closes it.                     *)
Cancel(f) ==
    /\ ~CtxDone(f) /\ pc[f] \notin {"new", "done"}
    /\ ctx' = [ctx EXCEPT ![f] = IF @ = "live" THEN "cancelled" ELSE "closed"]
    /\ UNCHANGED <<clockVars, admissionVars, closed, cancelled, closeVars, down, tail,
                   registered, pc, marked, transferred, deadline, streamVars>>

CancelCloses(f) ==
    /\ ctx[f] = "cancelled" /\ MarkClosed(f, "cancel")
    /\ UNCHANGED <<clockVars, admissionVars, closed, cancelled, closeVars, down,
                   registered, pc, marked, transferred, deadline, streamVars>>

-----------------------------------------------------------------------------
(* The owner, the cleanup of a denial, Close, and time.                    *)

(* AdmitAdmission with the identity of this runtime.                       *)
Admit ==
    /\ ~admitted
    /\ IF Current THEN admitted' = TRUE /\ UNCHANGED <<withdrawn, cleaner, list>>
       ELSE Deny(Owner)
    /\ UNCHANGED <<clockVars, closed, cancelled, closeVars, down, flowVars>>

(* WithdrawAdmission, by the owner, the expiry timer, the end of the       *)
(* parent context or a change of interface.                                *)
Withdraw ==
    /\ ~withdrawn /\ Deny(Owner)
    /\ UNCHANGED <<clockVars, closed, cancelled, closeVars, down, flowVars>>

CleanupCancels ==
    /\ cleaner # Nobody /\ ~cancelled
    /\ cancelled' = TRUE
    /\ UNCHANGED <<clockVars, admissionVars, closed, closeVars, down, flowVars>>

(* telegramFlow.withdraw, of one flow after the other: a pending read is   *)
(* woken, an active stream closed, a transferred flow left alone.          *)
CleanupWithdraws ==
    /\ cleaner # Nobody /\ cancelled /\ ~Busy("cleanup")
    /\ \E f \in list :
          /\ list' = list \ {f}
          /\ IF transferred[f] THEN UNCHANGED <<marked, deadline, closingVars>>
             ELSE /\ marked' = [marked EXCEPT ![f] = TRUE]
                  /\ deadline' = [deadline EXCEPT
                                     ![f] = IF pc[f] = "reading" THEN "now" ELSE @]
                  /\ IF sock[f] = "active" THEN MarkClosed(f, "cleanup")
                     ELSE UNCHANGED closingVars
    /\ UNCHANGED <<clockVars, admitted, withdrawn, cleaner, closed, cancelled, closeVars,
                   down, registered, pc, transferred, streamVars>>

CleanupEnds ==
    /\ cleaner # Nobody /\ cancelled /\ ~Busy("cleanup") /\ list = {}
    /\ cleaner' = Nobody
    /\ UNCHANGED <<clockVars, admitted, withdrawn, list, closed, cancelled, closeVars,
                   down, flowVars>>

(* Close withdraws first; beside another denial its own has no effect.     *)
Close ==
    /\ closer = "no"
    /\ Deny(Owner) /\ closer' = IF withdrawn THEN "marking" ELSE "withdrawing"
    /\ UNCHANGED <<clockVars, closed, cancelled, closeList, down, flowVars>>

CloseMarks ==
    /\ closer = "marking" \/ (closer = "withdrawing" /\ cleaner = Nobody)
    /\ closed' = TRUE /\ closer' = "flows" /\ closeList' = registered
    /\ UNCHANGED <<clockVars, admissionVars, cancelled, down, flowVars>>

CloseFlows ==
    /\ closer = "flows" /\ ~Busy("close")
    /\ IF closeList = {} THEN closer' = "done" /\ UNCHANGED <<closeList, closingVars>>
       ELSE \E f \in closeList : /\ MarkClosed(f, "close") /\ closeList' = closeList \ {f}
                                 /\ UNCHANGED closer
    /\ UNCHANGED <<clockVars, admissionVars, closed, cancelled, down, registered, pc,
                   marked, transferred, deadline, streamVars>>

WallMoves ==
    /\ inWindow' = ~inWindow
    /\ UNCHANGED <<ahead, parent, admissionVars, closed, cancelled, closeVars, down,
                   flowVars>>

DeadlinePasses ==
    /\ ahead /\ ahead' = FALSE
    /\ UNCHANGED <<inWindow, parent, admissionVars, closed, cancelled, closeVars, down,
                   flowVars>>

ParentEnds ==
    /\ parent /\ parent' = FALSE
    /\ UNCHANGED <<inWindow, ahead, admissionVars, closed, cancelled, closeVars, down,
                   flowVars>>

-----------------------------------------------------------------------------
Cleanup == CleanupCancels \/ CleanupWithdraws \/ CleanupEnds

FlowGoesOn(f) == \/ ReadBegins(f) \/ CheckReady(f) \/ Judge(f) \/ Blame(f)
                 \/ MarkUnavailable(f) \/ Fallback(f) \/ Finish(f) \/ Unregister(f)
                 \/ CancelCloses(f)

Next == \/ \E f \in Flows : \/ FlowGoesOn(f) \/ CloseTail(f) \/ Arrive(f) \/ ReadReturns(f)
                            \/ GatewayReturns(f) \/ Write(f) \/ GatewayFails(f)
                            \/ StreamEnds(f) \/ Cancel(f)
        \/ Admit \/ Withdraw \/ Cleanup \/ Close \/ CloseMarks \/ CloseFlows
        \/ WallMoves \/ DeadlinePasses \/ ParentEnds

Spec == Init /\ [][Next]_vars

(* The goroutines run, a close that has begun ends, a read returns at an   *)
(* expired deadline or on a closed client, a dial under a done context.    *)
(* Nothing is assumed of the setup timer, so a flow is woken by the        *)
(* withdrawal alone.                                                       *)
Fairness ==
    /\ WF_vars(Cleanup) /\ WF_vars(CloseMarks \/ CloseFlows)
    /\ \A f \in Flows :
          /\ WF_vars(FlowGoesOn(f)) /\ WF_vars(CloseTail(f))
          /\ WF_vars((deadline[f] = "now" \/ (Closed(f) /\ tail[f] = "none")) /\ ReadReturns(f))
          /\ WF_vars((cancelled \/ CtxDone(f)) /\ GatewayReturns(f))

FairSpec == Spec /\ Fairness

-----------------------------------------------------------------------------
(* No WebSocket stream survives the admission: an attached gateway was     *)
(* attached under an admission that is open, or the cleanup has its flow   *)
(* on its list, or a close of that flow is under way (admission.go:303,    *)
(* outbound.go:321, conn.go:163).                                          *)
StreamsEndWithAdmission ==
    \A f \in Flows : sock[f] = "active" => ~withdrawn \/ f \in list \/ tail[f] # "none"

(* Once the admission is denied, the gateway of every flow is closed in    *)
(* the end, whoever marked the flow first and whoever returned early.      *)
StreamsClose ==
    \A f \in Flows : (withdrawn /\ sock[f] = "active") ~> sock[f] # "active"

(* Payload is committed only under an open admission, also when the        *)
(* connection manager writes cached bytes long after the attachment        *)
(* (conn.go:101), and never on a flow the VPN owns.                        *)
NoLatePayload ==
    [][\A f \in Flows : payload'[f] /\ ~payload[f] =>
          Current /\ admitted /\ ~transferred[f]]_vars

(* A flow handed to the VPN or to the gateway has no read deadline left:   *)
(* neither the setup's own nor the one a withdrawal wakes a reader with,   *)
(* whichever came first (conn.go:154, outbound.go:303).                    *)
HandedOverClean ==
    \A f \in Flows : pc[f] \in {"active", "onVPN"} => deadline[f] = "none"

(* "Ordinary VPN now owns the stream" (outbound.go:281): neither the       *)
(* withdrawal nor the close of this outbound closes a transferred flow.    *)
TransferredStays ==
    [][\A f \in Flows : pc[f] = "onVPN" /\ ctx[f] = "live" => ~Closed(f)']_vars

(* A path is put aside only for what the path did: a setup that was        *)
(* abandoned with its flow or ended by a withdrawal takes the path from no *)
(* other flow (outbound.go:339, conn.go:80).                               *)
BlameIsEarned ==
    [][down' /\ ~down =>
          \E f \in Flows :
             \/ pc[f] = "marking" /\ pc'[f] # "marking" /\ sock[f] # "aborted"
             \/ pc[f] = "active" /\ sock[f] = "active"]_vars

(* After Close has returned no flow of this outbound can still be          *)
(* transferred.  A gateway may still be attached (Close joins nobody), but *)
(* only while another goroutine is between the two halves of closing it.   *)
ClosedIsEmpty ==
    closer = "done" =>
        /\ \A f \in registered : Closed(f)
        /\ \A f \in Flows : sock[f] = "active" => tail[f] \in {"finish", "cancel", "cleanup"}

(* Every flow that is being set up when the admission is denied leaves the *)
(* setup, without the help of its own timer.                               *)
WithdrawalWakes ==
    \A f \in Flows : (withdrawn /\ pc[f] \in {"reading", "dialing"})
        ~> pc[f] \notin {"reading", "dialing"}
=============================================================================
