------------------------------- MODULE LocalDpi -------------------------------
(***************************************************************************)
(* The local DPI outbounds of one running instance ("holders"):            *)
(* src/engine/sing-box/protocol/pokrov/localdpi/{outbound,conn,            *)
(* runtime_retry}.go, and the calls of the native owner that reach them    *)
(* (src/engine/sing-box/daemon/routing_catalog.go).                        *)
(*                                                                         *)
(* A holder is unpublished until the owner has proved the local path and   *)
(* admits it by the identity it captured; it fails at the first failure of *)
(* a used local stream, is withdrawn for good, or is replaced once, with   *)
(* all the others, by a holder with a new identity.  A flow that arrives   *)
(* waits for the proof, dials the local path or the protected VPN, and     *)
(* belongs to whichever it was attached to.  Everything meets under the    *)
(* holder's mutex, but dials, closes and reports happen outside of it.     *)
(*                                                                         *)
(* An identity is the number of the holder's generation.  The deadline of  *)
(* the proof is ahead or over, an error of the local path is one that      *)
(* allows a retry (early bytes, IPv4) or not (IPv6).  The counters of the  *)
(* observation are left out: nothing reads them inside the outbound.       *)
(***************************************************************************)
EXTENDS Naturals, FiniteSets

CONSTANTS
    Holders,      \* the Windows holders of the instance
    Flows,        \* connections the router gives to them
    HolderOf,     \* [Flows -> Holders]
    Kind          \* [Flows -> {"tcp", "other", "quic"}]: eligible TCP to port
                  \* 443, other TCP, UDP 443 of a holder that prefers TCP

FlowsAssumption == /\ HolderOf \in [Flows -> Holders]
                   /\ Kind \in [Flows -> {"tcp", "other", "quic"}]

Generations == 1 .. 2

VARIABLES
    admission,   \* [Holders -> the latch]
    id,          \* [Holders -> Generations]: admissionID
    proofWait,   \* [Holders -> BOOLEAN]: admissionDeadline is ahead
    cancelled,   \* withdraw contexts that are done, as <<holder, generation>>
    runtime,     \* the instance's context is live
    completed,   \* [Holders -> BOOLEAN]: withdrawCompleted
    reason,      \* [Holders -> why it failed first]
    withdrawal,  \* [Holders -> where the one WithdrawAdmission is]
    doomed,      \* [Holders -> flows it has still to look at]
    stop,        \* [Holders -> where Close is]; h.closed unless "no"
    stopList,    \* [Holders -> flows Close has still to close]
    retry,       \* "no", "closing" or "done": retryPrepared unless "no"
    retryList,   \* flows the retry has still to look at
    pc,          \* [Flows -> where the flow's goroutine is]
    local,       \* [Flows -> BOOLEAN]: f.local
    gen,         \* [Flows -> the generation it captured last]
    ctx,         \* [Flows -> "live", "cancelled" or "closed" (f.closed)]
    sock,        \* [Flows -> the remote socket]
    used,        \* [Flows -> BOOLEAN]: observedConn.wrote
    responded,   \* [Flows -> BOOLEAN]: observedConn.responded
    writing,     \* [Flows -> BOOLEAN]: a write is between its check and its end
    reports      \* [Flows -> failures noticed and not yet reported]

holderVars == <<admission, id, proofWait, cancelled, runtime, completed, reason>>
ownerVars == <<withdrawal, doomed, stop, stopList, retry, retryList>>
streamVars == <<used, responded, writing, reports>>
flowVars == <<pc, local, gen, ctx, sock, streamVars>>
vars == <<holderVars, ownerVars, flowVars>>

Closed(h) == stop[h] # "no"

Ready(h) == admission[h] = "ready"

(* The withdraw context of a generation.                                   *)
Withdrawn(h, g) == ~runtime \/ <<h, g>> \in cancelled

Registered(h) == {f \in Flows : /\ HolderOf[f] = h /\ Kind[f] # "quic"
                                /\ pc[f] \notin {"new", "done"}}

TypeOK ==
    /\ admission \in [Holders -> {"unpublished", "ready", "failed", "withdrawn"}]
    /\ id \in [Holders -> Generations] /\ proofWait \in [Holders -> BOOLEAN]
    /\ cancelled \subseteq Holders \X Generations /\ runtime \in BOOLEAN
    /\ completed \in [Holders -> BOOLEAN]
    /\ reason \in [Holders -> {"none", "retryable", "final"}]
    /\ withdrawal \in [Holders -> {"no", "cancel", "closing", "done"}]
    /\ doomed \in [Holders -> SUBSET Flows]
    /\ stop \in [Holders -> {"no", "withdraw", "joined", "done"}]
    /\ stopList \in [Holders -> SUBSET Flows]
    /\ retry \in {"no", "closing", "done"} /\ retryList \subseteq Flows
    /\ pc \in [Flows -> {"new", "entered", "waiting", "waited", "decide", "dialing",
                         "attach", "report", "fallback", "vpn", "vpnDialing", "local",
                         "onVPN", "packet", "finishing", "done"}]
    /\ local \in [Flows -> BOOLEAN] /\ gen \in [Flows -> Generations]
    /\ ctx \in [Flows -> {"live", "cancelled", "closed"}]
    /\ sock \in [Flows -> {"none", "held", "local", "vpn", "closed"}]
    /\ used \in [Flows -> BOOLEAN] /\ responded \in [Flows -> BOOLEAN]
    /\ writing \in [Flows -> BOOLEAN]
    /\ reports \in [Flows -> SUBSET {"retryable", "final"}]

Init ==
    /\ admission = [h \in Holders |-> "unpublished"]
    /\ id = [h \in Holders |-> 1] /\ proofWait = [h \in Holders |-> TRUE]
    /\ cancelled = {} /\ runtime = TRUE
    /\ completed = [h \in Holders |-> FALSE] /\ reason = [h \in Holders |-> "none"]
    /\ withdrawal = [h \in Holders |-> "no"] /\ doomed = [h \in Holders |-> {}]
    /\ stop = [h \in Holders |-> "no"] /\ stopList = [h \in Holders |-> {}]
    /\ retry = "no" /\ retryList = {}
    /\ pc = [f \in Flows |-> "new"] /\ local = [f \in Flows |-> FALSE]
    /\ gen = [f \in Flows |-> 1] /\ ctx = [f \in Flows |-> "live"]
    /\ sock = [f \in Flows |-> "none"]
    /\ used = [f \in Flows |-> FALSE] /\ responded = [f \in Flows |-> FALSE]
    /\ writing = [f \in Flows |-> FALSE] /\ reports = [f \in Flows |-> {}]

-----------------------------------------------------------------------------
(* What the steps of a flow do.                                            *)

Go(f, where) == pc' = [pc EXCEPT ![f] = where]

(* flow.close: f.mu makes the mark and the reading of the remote one step, *)
(* closeOnce makes every caller wait until context and sockets are closed. *)
CloseFlow(f) ==
    /\ ctx' = [ctx EXCEPT ![f] = "closed"]
    /\ sock' = [sock EXCEPT ![f] = IF ctx[f] # "closed" /\ @ \in {"local", "vpn"}
                                   THEN "closed" ELSE @]

(* flow.attach and, on refusal, the close of the remote.                   *)
Attach(f, kind) ==
    sock' = [sock EXCEPT ![f] = IF ctx[f] = "closed" THEN "closed" ELSE kind]

(* The first section of NewConnection: a closed holder refuses, any other  *)
(* registers the flow.  A routed UDP flow is not registered.               *)
Arrive(f) ==
    /\ pc[f] = "new"
    /\ LET h == HolderOf[f]
       IN  IF Closed(h) THEN Go(f, "done") /\ UNCHANGED <<local, gen>>
           ELSE /\ Go(f, "entered")
                /\ local' = [local EXCEPT ![f] = Kind[f] = "tcp" /\ Ready(h)]
                /\ gen' = [gen EXCEPT ![f] = id[h]]
    /\ UNCHANGED <<holderVars, ownerVars, ctx, sock, streamVars>>

(* waitAdmission up to its select: the flow notes the identity and the     *)
(* withdraw context; only an unpublished holder is waited for.             *)
WaitBegins(f) ==
    /\ pc[f] = "entered"
    /\ LET h == HolderOf[f]
       IN  /\ Go(f, IF ctx[f] # "live" THEN "finishing"
                    ELSE IF Kind[f] = "other" THEN "vpn"
                    ELSE IF Closed(h) THEN "finishing"
                    ELSE IF admission[h] = "unpublished" /\ proofWait[h]
                         THEN "waiting" ELSE "waited")
           /\ gen' = [gen EXCEPT ![f] = id[h]]
    /\ UNCHANGED <<holderVars, ownerVars, local, ctx, sock, streamVars>>

(* A generation that has been replaced or published has closed its channel *)
(* admissionResolved.                                                      *)
Resolved(h, g) == g < id[h] \/ admission[h] # "unpublished"

BugWaitEnds(f) ==
    /\ pc[f] = "waiting"
    /\ Resolved(HolderOf[f], gen[f]) \/ ctx[f] # "live"
    /\ Go(f, "waited")
    /\ UNCHANGED <<holderVars, ownerVars, local, gen, ctx, sock, streamVars>>

(* The select of waitAdmission.                                            *)
WaitEnds(f) ==
    /\ pc[f] = "waiting"
    /\ LET h == HolderOf[f]
       IN  \/ Resolved(h, gen[f]) \/ Withdrawn(h, gen[f])
           \/ ctx[f] # "live" \/ ~proofWait[h]
    /\ Go(f, "waited")
    /\ UNCHANGED <<holderVars, ownerVars, local, gen, ctx, sock, streamVars>>

(* The end of waitAdmission: a closed holder or a runtime that ended, as   *)
(* opposed to a withdrawal, must not start a fallback.                     *)
WaitJudged(f) ==
    /\ pc[f] = "waited"
    /\ LET h == HolderOf[f]
           over == \/ ctx[f] # "live" \/ Closed(h)
                   \/ /\ gen[f] = id[h] /\ Withdrawn(h, gen[f])
                      /\ admission[h] # "withdrawn"
       IN  Go(f, IF over THEN "finishing" ELSE IF Kind[f] = "quic" THEN "packet"
                 ELSE "decide")
    /\ UNCHANGED <<holderVars, ownerVars, local, gen, ctx, sock, streamVars>>

(* NewPacketConnection after the wait: a ready holder refuses the flow, so *)
(* that its client tries TCP; otherwise the VPN has it and its end.        *)
Packet(f) ==
    /\ pc[f] = "packet"
    /\ Go(f, IF Closed(HolderOf[f]) \/ Ready(HolderOf[f]) THEN "finishing" ELSE "onVPN")
    /\ UNCHANGED <<holderVars, ownerVars, local, gen, ctx, sock, streamVars>>

(* NewConnection chooses under the lock, with the identity of that moment. *)
Decide(f) ==
    /\ pc[f] = "decide"
    /\ LET h == HolderOf[f]
       IN  IF Closed(h) THEN Go(f, "finishing") /\ UNCHANGED <<local, gen>>
           ELSE /\ local' = [local EXCEPT ![f] = Ready(h)]
                /\ gen' = [gen EXCEPT ![f] = id[h]]
                /\ Go(f, IF Ready(h) THEN "dialing" ELSE "vpn")
    /\ UNCHANGED <<holderVars, ownerVars, ctx, sock, streamVars>>

(* The local dial returns.  A flow or a holder that is over while it ran   *)
(* ends the flow, and a late socket is closed.                             *)
LocalDialReturns(f) ==
    /\ pc[f] = "dialing"
    /\ IF ctx[f] # "live" \/ Withdrawn(HolderOf[f], gen[f])
       THEN Go(f, "finishing") /\ UNCHANGED <<sock, reports>>
       ELSE \/ /\ Go(f, "attach") /\ sock' = [sock EXCEPT ![f] = "held"]
               /\ UNCHANGED reports
            \/ /\ Go(f, "report") /\ UNCHANGED sock
               /\ \E r \in {"retryable", "final"} :
                     reports' = [reports EXCEPT ![f] = {r}]
    /\ UNCHANGED <<holderVars, ownerVars, local, gen, ctx, used, responded, writing>>

(* failAdmission: only a ready holder of the flow's own generation fails.  *)
Fails(f, r) ==
    LET h == HolderOf[f]
    IN  IF gen[f] = id[h] /\ Ready(h)
        THEN /\ admission' = [admission EXCEPT ![h] = "failed"]
             /\ reason' = [reason EXCEPT ![h] = r]
        ELSE UNCHANGED <<admission, reason>>

(* A failure that was noticed is reported, by the goroutine of the flow    *)
(* after a dial or by a reader or a writer of its stream.                  *)
Report(f) ==
    \E r \in reports[f] :
        /\ Fails(f, r)
        /\ reports' = [reports EXCEPT ![f] = @ \ {r}]
        /\ IF pc[f] = "report" THEN Go(f, "fallback") ELSE UNCHANGED pc
        /\ UNCHANGED <<id, proofWait, cancelled, runtime, completed, ownerVars,
                       local, gen, ctx, sock, used, responded, writing>>

(* A flow whose local dial failed goes on to the VPN unless its holder has *)
(* been withdrawn or replaced.                                             *)
Fallback(f) ==
    /\ pc[f] = "fallback"
    /\ LET h == HolderOf[f]
       IN  Go(f, IF \/ id[h] # gen[f] \/ admission[h] = "withdrawn"
                    \/ Withdrawn(h, gen[f])
                 THEN "finishing" ELSE "vpn")
    /\ UNCHANGED <<holderVars, ownerVars, local, gen, ctx, sock, streamVars>>

(* The local socket is attached under the lock, if everything the choice   *)
(* was based on still holds.                                               *)
Handoff(f) ==
    /\ pc[f] = "attach"
    /\ LET h == HolderOf[f]
       IN  IF ~Closed(h) /\ gen[f] = id[h] /\ Ready(h) /\ ctx[f] = "live"
           THEN sock' = [sock EXCEPT ![f] = "local"] /\ Go(f, "local")
           ELSE sock' = [sock EXCEPT ![f] = "closed"] /\ Go(f, "finishing")
    /\ UNCHANGED <<holderVars, ownerVars, local, gen, ctx, streamVars>>

(* connectVPN: the flow stops being a local one, then dials.               *)
ConnectVPN(f) ==
    /\ pc[f] = "vpn"
    /\ local' = [local EXCEPT ![f] = FALSE]
    /\ Go(f, IF ctx[f] # "live" THEN "finishing" ELSE "vpnDialing")
    /\ UNCHANGED <<holderVars, ownerVars, gen, ctx, sock, streamVars>>

VPNDialReturns(f) ==
    /\ pc[f] = "vpnDialing"
    /\ \/ /\ Attach(f, "vpn")
          /\ Go(f, IF sock'[f] = "vpn" THEN "onVPN" ELSE "finishing")
       \/ Go(f, "finishing") /\ UNCHANGED sock
    /\ UNCHANGED <<holderVars, ownerVars, local, gen, ctx, streamVars>>

-----------------------------------------------------------------------------
(* A local stream in the connection manager.                               *)

(* observedConn.Write up to the unlock: a replaced or withdrawn holder     *)
(* denies it; the first payload arms the deadline of the first response.   *)
WriteBegins(f) ==
    /\ pc[f] = "local" /\ ~writing[f] /\ ctx[f] = "live"
    /\ gen[f] = id[HolderOf[f]] /\ admission[HolderOf[f]] # "withdrawn"
    /\ used' = [used EXCEPT ![f] = TRUE] /\ writing' = [writing EXCEPT ![f] = TRUE]
    /\ UNCHANGED <<holderVars, ownerVars, pc, local, gen, ctx, sock, responded,
                   reports>>

(* observedConn.observe: an error counts only before the first response    *)
(* and not on a stream the core itself has closed.                         *)
Observable(f) == ~responded[f] /\ sock[f] = "local" /\ ctx[f] = "live"

WriteEnds(f) ==
    /\ writing[f]
    /\ writing' = [writing EXCEPT ![f] = FALSE]
    /\ \/ UNCHANGED reports
       \/ Observable(f) /\ reports' = [reports EXCEPT ![f] = @ \cup {"retryable"}]
    /\ UNCHANGED <<holderVars, ownerVars, pc, local, gen, ctx, sock, used, responded>>

ReadReturns(f) ==
    /\ pc[f] = "local" /\ sock[f] = "local" /\ ~responded[f]
    /\ responded' = [responded EXCEPT ![f] = TRUE]
    /\ UNCHANGED <<holderVars, ownerVars, pc, local, gen, ctx, sock, used, writing,
                   reports>>

(* A read fails, or the first response does not come in time, on a stream  *)
(* that carried payload.                                                   *)
ReadFails(f) ==
    /\ pc[f] = "local" /\ used[f] /\ Observable(f)
    /\ reports' = [reports EXCEPT ![f] = @ \cup {"retryable"}]
    /\ UNCHANGED <<holderVars, ownerVars, pc, local, gen, ctx, sock, used, responded,
                   writing>>

(* The connection manager is done with a stream.                           *)
StreamEnds(f) ==
    /\ pc[f] \in {"local", "onVPN"}
    /\ Go(f, "finishing")
    /\ UNCHANGED <<holderVars, ownerVars, local, gen, ctx, sock, streamVars>>

(* finish: the flow is closed and its registration removed.                *)
Finish(f) ==
    /\ pc[f] = "finishing"
    /\ CloseFlow(f) /\ Go(f, "done")
    /\ UNCHANGED <<holderVars, ownerVars, local, gen, streamVars>>

(* The caller cancels the flow; its AfterFunc closes it.                   *)
Cancel(f) ==
    /\ ctx[f] = "live" /\ pc[f] \notin {"new", "done"}
    /\ ctx' = [ctx EXCEPT ![f] = "cancelled"]
    /\ UNCHANGED <<holderVars, ownerVars, pc, local, gen, sock, streamVars>>

CancelCloses(f) ==
    /\ ctx[f] = "cancelled"
    /\ CloseFlow(f)
    /\ UNCHANGED <<holderVars, ownerVars, pc, local, gen, streamVars>>

-----------------------------------------------------------------------------
(* The native owner, through StartedService: the retry has the service     *)
(* exclusively, admission and withdrawal share it.                         *)

BugAdmit(h) ==
    /\ ~Closed(h) /\ admission[h] = "unpublished"
    /\ admission' = [admission EXCEPT ![h] = "ready"]
    /\ UNCHANGED <<id, proofWait, cancelled, runtime, completed, reason, ownerVars,
                   flowVars>>

(* AdmitAdmission with the identity of the current holder; any other       *)
(* identity is refused without effect.                                     *)
Admit(h) ==
    /\ retry # "closing"
    /\ ~Closed(h) /\ admission[h] = "unpublished"
    /\ admission' = [admission EXCEPT ![h] = "ready"]
    /\ UNCHANGED <<id, proofWait, cancelled, runtime, completed, reason, ownerVars,
                   flowVars>>

(* The first section of WithdrawAdmission: the latch, and the list of the  *)
(* flows that are local at that moment.                                    *)
Deny(h) ==
    /\ admission[h] # "withdrawn"
    /\ admission' = [admission EXCEPT ![h] = "withdrawn"]
    /\ doomed' = [doomed EXCEPT ![h] = {f \in Registered(h) : local[f]}]
    /\ withdrawal' = [withdrawal EXCEPT ![h] = "cancel"]
    /\ UNCHANGED <<id, proofWait, cancelled, runtime, completed, reason, retry,
                   retryList, flowVars>>

Withdraw(h) == retry # "closing" /\ Deny(h) /\ UNCHANGED <<stop, stopList>>

WithdrawCancels(h) ==
    /\ withdrawal[h] = "cancel"
    /\ cancelled' = cancelled \cup {<<h, id[h]>>}
    /\ withdrawal' = [withdrawal EXCEPT ![h] = "closing"]
    /\ UNCHANGED <<admission, id, proofWait, runtime, completed, reason, doomed, stop,
                   stopList, retry, retryList, flowVars>>

(* One flow of the list is closed, if it is still a local one.             *)
WithdrawCloses(h) ==
    /\ withdrawal[h] = "closing"
    /\ \E f \in doomed[h] :
          /\ IF local[f] THEN CloseFlow(f) ELSE UNCHANGED <<ctx, sock>>
          /\ doomed' = [doomed EXCEPT ![h] = @ \ {f}]
    /\ UNCHANGED <<holderVars, withdrawal, stop, stopList, retry, retryList, pc, local,
                   gen, streamVars>>

WithdrawCompletes(h) ==
    /\ withdrawal[h] = "closing" /\ doomed[h] = {}
    /\ completed' = [completed EXCEPT ![h] = TRUE]
    /\ withdrawal' = [withdrawal EXCEPT ![h] = "done"]
    /\ UNCHANGED <<admission, id, proofWait, cancelled, runtime, reason, doomed, stop,
                   stopList, retry, retryList, flowVars>>

Withdrawing(h) == WithdrawCancels(h) \/ WithdrawCloses(h) \/ WithdrawCompletes(h)

BugMayRetry ==
    /\ retry # "closing" /\ runtime
    /\ \A h \in Holders : ~Closed(h) /\ admission[h] \in {"ready", "failed"}
    /\ \E h \in Holders : admission[h] = "failed" /\ reason[h] = "retryable"

(* What the set of captured holders is tested for with all locks held.     *)
MayRetry ==
    /\ retry = "no" /\ runtime
    /\ \A h \in Holders : ~Closed(h) /\ admission[h] \in {"ready", "failed"}
    /\ \E h \in Holders : admission[h] = "failed" /\ reason[h] = "retryable"

(* PrepareWindowsRetry up to the unlock: every holder gets a new identity. *)
Retry ==
    /\ \A h \in Holders : withdrawal[h] \in {"no", "done"}
    /\ MayRetry
    /\ admission' = [h \in Holders |-> "unpublished"]
    /\ cancelled' = cancelled \cup {<<h, id[h]>> : h \in Holders}
    /\ id' = [h \in Holders |-> id[h] + 1]
    /\ proofWait' = [h \in Holders |-> FALSE]
    /\ completed' = [h \in Holders |-> FALSE]
    /\ reason' = [h \in Holders |-> "none"]
    /\ retry' = "closing"
    /\ retryList' = {f \in UNION {Registered(h) : h \in Holders} : local[f]}
    /\ UNCHANGED <<runtime, withdrawal, doomed, stop, stopList, flowVars>>

RetryCloses ==
    /\ retry = "closing"
    /\ \E f \in retryList :
          /\ IF local[f] THEN CloseFlow(f) ELSE UNCHANGED <<ctx, sock>>
          /\ retryList' = retryList \ {f}
    /\ UNCHANGED <<holderVars, withdrawal, doomed, stop, stopList, retry, pc, local, gen,
                   streamVars>>

RetryReturns ==
    /\ retry = "closing" /\ retryList = {}
    /\ retry' = "done"
    /\ UNCHANGED <<holderVars, withdrawal, doomed, stop, stopList, retryList, flowVars>>

-----------------------------------------------------------------------------
(* Close, the end of the runtime, and time.                                *)

(* Close denies new flows and lists the registered ones.                   *)
Stop(h) ==
    /\ stop[h] = "no" /\ retry # "closing"
    /\ stop' = [stop EXCEPT ![h] = "withdraw"]
    /\ stopList' = [stopList EXCEPT ![h] = Registered(h)]
    /\ UNCHANGED <<holderVars, withdrawal, doomed, retry, retryList, flowVars>>

(* Its own withdrawal, which has nothing to do beside or after another.    *)
StopWithdraws(h) ==
    /\ stop[h] = "withdraw"
    /\ stop' = [stop EXCEPT ![h] = "joined"]
    /\ UNCHANGED stopList
    /\ \/ Deny(h)
       \/ /\ admission[h] = "withdrawn"
          /\ UNCHANGED <<holderVars, withdrawal, doomed, retry, retryList, flowVars>>

(* It then closes the listed flows, local or not.                          *)
StopCloses(h) ==
    /\ stop[h] = "joined"
    /\ IF stopList[h] = {}
       THEN stop' = [stop EXCEPT ![h] = "done"] /\ UNCHANGED <<stopList, ctx, sock>>
       ELSE \E f \in stopList[h] :
               /\ CloseFlow(f)
               /\ stopList' = [stopList EXCEPT ![h] = @ \ {f}]
               /\ UNCHANGED stop
    /\ UNCHANGED <<holderVars, withdrawal, doomed, retry, retryList, pc, local, gen,
                   streamVars>>

RuntimeEnds ==
    /\ runtime /\ runtime' = FALSE
    /\ UNCHANGED <<admission, id, proofWait, cancelled, completed, reason, ownerVars,
                   flowVars>>

ProofDeadline(h) ==
    /\ proofWait[h] /\ proofWait' = [proofWait EXCEPT ![h] = FALSE]
    /\ UNCHANGED <<admission, id, cancelled, runtime, completed, reason, ownerVars,
                   flowVars>>

-----------------------------------------------------------------------------
FlowGoesOn(f) ==
    \/ WaitBegins(f) \/ WaitEnds(f) \/ WaitJudged(f) \/ Packet(f) \/ Decide(f)
    \/ Fallback(f) \/ Handoff(f) \/ ConnectVPN(f) \/ Report(f) \/ Finish(f)
    \/ WriteEnds(f) \/ CancelCloses(f)

FlowIsOver(f) ==
    \/ ctx[f] # "live" /\ (VPNDialReturns(f) \/ StreamEnds(f))
    \/ /\ ctx[f] # "live" \/ Withdrawn(HolderOf[f], gen[f])
       /\ LocalDialReturns(f)

FlowAwaits(f) ==
    \/ Arrive(f) \/ LocalDialReturns(f) \/ VPNDialReturns(f) \/ WriteBegins(f)
    \/ ReadReturns(f) \/ ReadFails(f) \/ StreamEnds(f) \/ Cancel(f)

Owner(h) == Admit(h) \/ Withdraw(h) \/ Stop(h)

Closing(h) == Withdrawing(h) \/ StopWithdraws(h) \/ StopCloses(h)

Next == \/ \E f \in Flows : FlowGoesOn(f) \/ FlowAwaits(f)
        \/ \E h \in Holders : Owner(h) \/ Closing(h) \/ ProofDeadline(h)
        \/ Retry \/ RetryCloses \/ RetryReturns \/ RuntimeEnds

Spec == Init /\ [][Next]_vars

(* The goroutines run and the timer of the proof fires.  A dial ends when  *)
(* its context does and a stream when its socket is closed; the network    *)
(* owes nothing else, and the owner no call.                               *)
Fairness ==
    /\ \A f \in Flows : WF_vars(FlowGoesOn(f) \/ FlowIsOver(f))
    /\ \A h \in Holders : WF_vars(Closing(h)) /\ WF_vars(ProofDeadline(h))

FairSpec == Spec /\ Fairness

-----------------------------------------------------------------------------
(* An open local stream belongs to the current generation of a holder that *)
(* was not withdrawn, or whoever withdrew or replaced it still has it on   *)
(* its list.  So after a completed withdrawal, and after a retry returned, *)
(* no old stream is left when the owner stops its filter                   *)
(* (outbound.go:215, runtime_retry.go:89), whatever was being dialled.     *)
OldStreamsClose ==
    \A f \in Flows : sock[f] = "local" =>
        LET h == HolderOf[f]
        IN  \/ gen[f] = id[h] /\ admission[h] \in {"ready", "failed"}
            \/ f \in retryList \/ f \in doomed[h]

(* Withdrawal and retry take local streams only: a flow that reached the   *)
(* VPN, by falling back while the list was being worked off too, is closed *)
(* by its own end, its caller or Close.                                    *)
VPNStreamsStay ==
    [][\A f \in Flows : sock[f] = "vpn" /\ sock'[f] = "closed" =>
          pc[f] = "finishing" \/ ctx[f] = "cancelled" \/ Closed(HolderOf[f])]_vars

(* A withdrawn holder stays withdrawn, through retries and late reports.   *)
WithdrawnForGood ==
    [][\A h \in DOMAIN admission :
          admission[h] = "withdrawn" => admission'[h] = "withdrawn"]_vars

(* A holder fails only by a flow of its own generation that carried        *)
(* payload or could not be dialled: neither an unused socket nor the late  *)
(* failure of a stream of the replaced holder counts (outbound.go:175,     *)
(* conn.go:39).                                                            *)
FailureIsOwn ==
    [][\A h \in Holders : admission[h] = "ready" /\ admission'[h] = "failed" =>
          \E f \in Flows : /\ HolderOf[f] = h /\ gen[f] = id[h] /\ reports[f] # {}
                           /\ used[f] \/ pc[f] = "report"]_vars

(* A flow that chose the new holder is not closed by the retry that made   *)
(* it, although the retry closes flows after it has released the locks.    *)
RetrySparesNew ==
    [][\A f \in retryList \ retryList' : gen[f] = 2 => sock[f] # "local"]_vars

(* After Close has returned no socket is attached and no dial runs under a *)
(* live context: nothing can be handed to a VPN that is being torn down.   *)
ClosedIsEmpty ==
    \A f \in Flows : stop[HolderOf[f]] = "done" /\ Kind[f] # "quic" =>
        /\ sock[f] \notin {"local", "vpn"}
        /\ pc[f] \in {"dialing", "vpnDialing"} => ctx[f] = "closed"

(* A flow that waits for the first proof does not escape to the VPN before *)
(* the holder is resolved or the shared deadline over; the end of the      *)
(* runtime wakes it and must not start a fallback (outbound.go:309-311).   *)
NoEscapeBeforeProof ==
    [][\A f \in Flows :
          LET h == HolderOf[f]
          IN  /\ Kind[f] # "other" /\ id[h] = 1 /\ admission[h] = "unpublished"
              /\ pc[f] # pc'[f] /\ pc'[f] \in {"vpn", "onVPN"}
              => ~proofWait[h]]_vars

(* No flow waits for a proof for ever: admission, withdrawal, a retry, the *)
(* end of the runtime, its caller or the deadline wakes it.                *)
WaitersWake == \A f \in Flows : pc[f] = "waiting" ~> pc[f] # "waiting"

(* A closed holder gets rid of all its flows.                              *)
CloseReleases ==
    \A f \in Flows : (Closed(HolderOf[f]) /\ Kind[f] # "quic")
        ~> (pc[f] \in {"new", "done"} /\ sock[f] \in {"none", "closed"})
=============================================================================
