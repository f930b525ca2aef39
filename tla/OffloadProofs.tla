----------------------------- MODULE OffloadProofs ----------------------------
(***************************************************************************)
(* What TLAPS proves of the offloads beside the VPN (MCOffload): the       *)
(* preparations of Telegram outbounds, the Telegram outbound and the local *)
(* DPI outbounds.  Nothing bounds the number of tokens, instances, flows   *)
(* and holders.                                                            *)
(***************************************************************************)
EXTENDS MCOffload, TLAPS

-----------------------------------------------------------------------------
(* The preparations, for every set of tokens, instances, options and       *)
(* graphs and every length of time.                                        *)

(* What makes the properties inductive: a token that was used is gone, and *)
(* an instance on its way to a start carries what was registered.          *)
Held ==
    /\ pc = [i \in Instances |-> pc[i]] /\ inst = [i \in Instances |-> inst[i]]
    /\ DOMAIN values \subseteq DOMAIN issued
    /\ \A t \in DOMAIN values : values[t] = issued[t]

Used == \A i \in Instances : pc[i] = "started" =>
           inst[i].token \in DOMAIN issued \ DOMAIN values

Checked == \A i \in Instances : (pc[i] \in {"bound", "built"} /\ inst[i].bound) =>
              /\ inst[i].token \in DOMAIN issued
              /\ issued[inst[i].token].options = inst[i].options
              /\ issued[inst[i].token].graph = inst[i].graph

IInv == Held /\ Used /\ OneUse /\ Checked

LEMMA InitIInv == Init => IInv
BY DEF Init, IInv, Held, Used, OneUse, Checked

(* A registration adds a token that nobody can have used or bound.         *)
LEMMA RegisterKeeps ==
    ASSUME IInv, NEW t \in Tokens, NEW p \in Preparation, Register(t, p)
    PROVE  IInv'
<1>1. Held'
  BY DEF IInv, Held, Register, Kept
<1>2. Used'
  BY DEF IInv, Held, Used, Register, Kept
<1>3. OneUse'
  BY DEF IInv, OneUse, Register
<1>4. Checked'
  BY DEF IInv, Checked, Register
<1> QED BY <1>1, <1>2, <1>3, <1>4 DEF IInv

LEMMA BindKeeps ==
    ASSUME IInv, NEW k \in Instances, NEW t \in Tokens, NEW options \in Scopes,
           NEW g \in Graphs, Bind(k, t, options, g)
    PROVE  IInv'
<1>0. /\ \A i \in Instances \ {k} : inst'[i] = inst[i] /\ pc'[i] = pc[i]
      /\ pc'[k] \in {"bound", "refused"} /\ inst'[k].token = t
      /\ inst'[k].options = options /\ inst'[k].graph = g
      /\ pc'[k] = "bound" => Bound(t, options, g)
      /\ UNCHANGED <<values, issued>>
  BY DEF IInv, Held, Bind, Takes, Go
<1>1. Held'
  BY DEF IInv, Held, Bind, Takes, Go
<1>2. Used'
  BY <1>0 DEF IInv, Used
<1>3. OneUse'
  BY <1>0 DEF IInv, OneUse
<1>4. Checked'
  BY <1>0 DEF IInv, Held, Checked, Bound, Current
<1> QED BY <1>1, <1>2, <1>3, <1>4 DEF IInv

LEMMA BuildUnboundKeeps ==
    ASSUME IInv, NEW k \in Instances, NEW t \in Tokens, NEW options \in Scopes,
           NEW g \in Graphs, BuildUnbound(k, t, options, g)
    PROVE  IInv'
<1>0. /\ \A i \in Instances \ {k} : inst'[i] = inst[i] /\ pc'[i] = pc[i]
      /\ pc'[k] = "bound" /\ inst'[k].bound = FALSE
      /\ UNCHANGED <<values, issued>>
  BY DEF IInv, Held, BuildUnbound, Takes, Go
<1>1. Held'
  BY DEF IInv, Held, BuildUnbound, Takes, Go
<1>2. Used'
  BY <1>0 DEF IInv, Used
<1>3. OneUse'
  BY <1>0 DEF IInv, OneUse
<1>4. Checked'
  BY <1>0 DEF IInv, Checked
<1> QED BY <1>1, <1>2, <1>3, <1>4 DEF IInv

(* The look of the constructor and the dropped instance change only where  *)
(* an instance is.                                                         *)
LEMMA ConstructKeeps ==
    ASSUME IInv, NEW k \in Instances, Construct(k) \/ Drop(k)
    PROVE  IInv'
<1>0. /\ \A i \in Instances \ {k} : inst'[i] = inst[i] /\ pc'[i] = pc[i]
      /\ pc[k] \in {"bound", "built"} /\ pc'[k] \in {"built", "refused"}
      /\ inst'[k].token = inst[k].token /\ inst'[k].bound = inst[k].bound
      /\ inst'[k].options = inst[k].options /\ inst'[k].graph = inst[k].graph
      /\ UNCHANGED <<values, issued>>
  BY DEF IInv, Held, Construct, Drop, Go
<1>1. Held'
  BY DEF IInv, Held, Construct, Drop, Go
<1>2. Used'
  BY <1>0 DEF IInv, Used
<1>3. OneUse'
  BY <1>0 DEF IInv, OneUse
<1>4. Checked'
  BY <1>0 DEF IInv, Checked
<1> QED BY <1>1, <1>2, <1>3, <1>4 DEF IInv

(* A start takes the token it may use, which no earlier start had taken.   *)
LEMMA StartKeeps ==
    ASSUME IInv, NEW k \in Instances, Start(k)
    PROVE  IInv'
<1>0. /\ \A i \in Instances \ {k} : inst'[i] = inst[i] /\ pc'[i] = pc[i]
      /\ pc'[k] \in {"started", "refused"}
      /\ inst'[k].token = inst[k].token
      /\ pc'[k] = "started" => inst[k].token \in DOMAIN values
      /\ values' = [u \in DOMAIN values \ {inst[k].token} |-> values[u]]
      /\ UNCHANGED issued
  BY DEF IInv, Held, Start, Found, Current, Go
<1>1. Held'
  BY DEF IInv, Held, Start, Go
<1>2. Used'
  BY <1>0 DEF IInv, Held, Used
<1>3. OneUse'
  BY <1>0 DEF IInv, Used, OneUse
<1>4. Checked'
  BY <1>0 DEF IInv, Checked
<1> QED BY <1>1, <1>2, <1>3, <1>4 DEF IInv

LEMMA NextKeeps == IInv /\ [Next]_vars => IInv'
<1> SUFFICES ASSUME IInv, [Next]_vars PROVE IInv'
  OBVIOUS
<1>1. ASSUME NEW t \in Tokens, NEW p \in Preparation, Register(t, p) PROVE IInv'
  BY <1>1, RegisterKeeps
<1>2. ASSUME NEW i \in Instances, NEW t \in Tokens, NEW options \in Scopes,
             NEW g \in Graphs, Bind(i, t, options, g)
      PROVE  IInv'
  BY <1>2, BindKeeps
<1>3. ASSUME NEW i \in Instances, NEW t \in Tokens, NEW options \in Scopes,
             NEW g \in Graphs, BuildUnbound(i, t, options, g)
      PROVE  IInv'
  BY <1>3, BuildUnboundKeeps
<1>4. ASSUME NEW i \in Instances, Construct(i) \/ Drop(i) PROVE IInv'
  BY <1>4, ConstructKeeps
<1>5. ASSUME NEW i \in Instances, Start(i) PROVE IInv'
  BY <1>5, StartKeeps
<1>6. CASE Tick \/ UNCHANGED vars
  BY <1>6 DEF IInv, Held, Used, OneUse, Checked, Tick, vars
<1> QED BY <1>1, <1>2, <1>3, <1>4, <1>5, <1>6 DEF Next

LEMMA Invariance == Spec => []IInv
BY InitIInv, NextKeeps, PTL DEF Spec

(* However many instances are built from one prepared profile, one starts: *)
(* the start takes the preparation, and nothing brings it back.            *)
THEOREM PreparationIsUsedOnce == Spec => []OneUse
<1>1. IInv => OneUse
  BY DEF IInv
<1> QED BY <1>1, Invariance, PTL

LEMMA StepStartsAsPrepared ==
    ASSUME IInv, [Next]_vars, NEW k \in Instances,
           pc[k] # "started", pc'[k] = "started"
    PROVE  /\ issued[inst[k].token].options = inst[k].options
           /\ issued[inst[k].token].graph = inst[k].graph
           /\ now < issued[inst[k].token].deadline
<1>1. ASSUME NEW t \in Tokens, NEW p \in Preparation, Register(t, p) PROVE FALSE
  BY <1>1 DEF Register
<1>2. ASSUME NEW i \in Instances, NEW t \in Tokens, NEW options \in Scopes,
             NEW g \in Graphs, Bind(i, t, options, g) \/ BuildUnbound(i, t, options, g)
      PROVE  FALSE
  BY <1>2 DEF IInv, Held, Bind, BuildUnbound, Go
<1>3. ASSUME NEW i \in Instances, Construct(i) \/ Drop(i) PROVE FALSE
  BY <1>3 DEF IInv, Held, Construct, Drop, Go
<1>4. CASE Tick \/ UNCHANGED vars
  BY <1>4 DEF Tick, vars
<1>5. ASSUME NEW i \in Instances, Start(i)
      PROVE  /\ issued[inst[k].token].options = inst[k].options
             /\ issued[inst[k].token].graph = inst[k].graph
             /\ now < issued[inst[k].token].deadline
  <2>1. i = k
    BY <1>5 DEF IInv, Held, Start, Go
  <2>2. pc[k] = "built" /\ inst[k].bound /\ Current(inst[k].token)
    BY <1>5, <2>1 DEF IInv, Held, Start, Found, Go
  <2> QED BY <2>2 DEF IInv, Held, Checked, Current
<1> QED BY <1>1, <1>2, <1>3, <1>4, <1>5 DEF Next

(* An outbound starts only with the options and the fallback graph that    *)
(* were registered under its token, within their lifetime, whatever was    *)
(* registered, bound or started between its binding and its start.         *)
THEOREM OutboundStartsAsPrepared == Spec => StartsAsPrepared
<1>1. IInv /\ [Next]_vars =>
         [\A i \in Instances : pc[i] # "started" /\ pc'[i] = "started" =>
             LET r == inst[i]
             IN  /\ issued[r.token].options = r.options /\ issued[r.token].graph = r.graph
                 /\ now < issued[r.token].deadline]_vars
  BY StepStartsAsPrepared
<1> QED BY <1>1, Invariance, PTL DEF Spec, StartsAsPrepared

(* The preparations that are held have their types and are the ones that   *)
(* were registered; nothing alters an entry once it is in the map.         *)
THEOREM PreparationTypes == Spec => []TypeOK
<1>1. Init => TypeOK
  BY ClockAssumption DEF Init, TypeOK
<1>2. TypeOK /\ IInv /\ [Next]_vars => TypeOK'
  <2> SUFFICES ASSUME TypeOK, IInv, [Next]_vars PROVE TypeOK'
    OBVIOUS
  <2>1. ASSUME NEW t \in Tokens, NEW p \in Preparation, Register(t, p) PROVE TypeOK'
    BY <2>1 DEF TypeOK, Register, Kept
  <2>2. ASSUME NEW i \in Instances, NEW t \in Tokens, NEW options \in Scopes,
               NEW g \in Graphs, Bind(i, t, options, g) \/ BuildUnbound(i, t, options, g)
        PROVE  TypeOK'
    <3>1. \E b \in BOOLEAN : inst' = [inst EXCEPT ![i] = [token |-> t, options |-> options,
                                                         graph |-> g, bound |-> b]]
      BY <2>2 DEF Bind, BuildUnbound, Takes
    <3>2. /\ pc' \in [Instances -> {"new", "bound", "built", "started", "refused"}]
          /\ \A j \in Instances \ {i} : pc'[j] = pc[j]
          /\ UNCHANGED <<now, values, issued>>
      BY <2>2 DEF TypeOK, Bind, BuildUnbound, Go
    <3>3. \A j \in Instances : pc'[j] # "new" => inst'[j] \in Profile
      BY <3>1, <3>2 DEF TypeOK, IInv, Held, Profile
    <3> QED BY <3>2, <3>3 DEF TypeOK
  <2>3. ASSUME NEW i \in Instances, Construct(i) \/ Start(i) \/ Drop(i) PROVE TypeOK'
    BY <2>3 DEF TypeOK, Construct, Start, Drop, Go
  <2>4. CASE Tick \/ UNCHANGED vars
    BY <2>4, ClockAssumption DEF TypeOK, Tick, vars
  <2> QED BY <2>1, <2>2, <2>3, <2>4 DEF Next
<1> QED BY <1>1, <1>2, Invariance, PTL DEF Spec

LEMMA StepLosesToStart ==
    ASSUME TypeOK, [Next]_vars, NEW t \in DOMAIN values, t \notin DOMAIN values'
    PROVE  \/ now >= values[t].deadline
           \/ \E i \in Instances : pc[i] = "built" /\ inst[i].token = t /\ pc'[i] # "built"
<1>0. now \in 0..MaxClock /\ values[t].deadline \in 0..MaxClock
  BY DEF TypeOK, Preparation
<1>1. ASSUME NEW u \in Tokens, NEW p \in Preparation, Register(u, p)
      PROVE  now >= values[t].deadline
  BY <1>0, <1>1, ClockAssumption DEF Register, Kept
<1>2. ASSUME NEW i \in Instances, Start(i)
      PROVE  pc[i] = "built" /\ inst[i].token = t /\ pc'[i] # "built"
  BY <1>2 DEF TypeOK, Start, Go
<1>3. ASSUME NEW i \in Instances, NEW u \in Tokens, NEW options \in Scopes,
             NEW g \in Graphs, Bind(i, u, options, g) \/ BuildUnbound(i, u, options, g)
      PROVE  FALSE
  BY <1>3 DEF Bind, BuildUnbound
<1>4. ASSUME NEW i \in Instances, Construct(i) \/ Drop(i) PROVE FALSE
  BY <1>4 DEF Construct, Drop
<1>5. CASE Tick \/ UNCHANGED vars
  BY <1>5 DEF Tick, vars
<1> QED BY <1>1, <1>2, <1>3, <1>4, <1>5 DEF Next

(* A preparation that is alive is lost to a start of its own token only: a *)
(* check, a refused binding or another registration leaves it.             *)
THEOREM PreparationIsKept == Spec => LostOnlyToStart
<1>1. TypeOK /\ [Next]_vars =>
         [\A t \in DOMAIN values \ DOMAIN values' :
             \/ now >= values[t].deadline
             \/ \E i \in Instances : /\ pc[i] = "built" /\ inst[i].token = t
                                     /\ pc'[i] # "built"]_vars
  BY StepLosesToStart
<1> QED BY <1>1, PreparationTypes, PTL DEF Spec, LostOnlyToStart

-----------------------------------------------------------------------------
(* Local DPI, for any holders, flows of theirs and kinds of flows.         *)

\* The types of Dpi!TypeOK, by who writes the variables.
HolderTypes(Hs) ==
    /\ admission \in [Hs -> {"unpublished", "ready", "failed", "withdrawn"}]
    /\ id \in [Hs -> 1 .. 2] /\ proofWait \in [Hs -> BOOLEAN]
    /\ dpiCancelled \subseteq Hs \X (1 .. 2) /\ runtime \in BOOLEAN
    /\ completed \in [Hs -> BOOLEAN]
    /\ reason \in [Hs -> {"none", "retryable", "final"}]

ListTypes(Hs) ==
    /\ withdrawal \in [Hs -> {"no", "cancel", "closing", "done"}]
    /\ doomed \in [Hs -> SUBSET DpiFlows]
    /\ stop \in [Hs -> {"no", "withdraw", "joined", "done"}]
    /\ stopList \in [Hs -> SUBSET DpiFlows]
    /\ retry \in {"no", "closing", "done"} /\ retryList \subseteq DpiFlows

FlowTypes ==
    /\ dpiPc \in [DpiFlows -> {"new", "entered", "waiting", "waited", "decide", "dialing",
                               "attach", "report", "fallback", "vpn", "vpnDialing",
                               "local", "onVPN", "packet", "finishing", "done"}]
    /\ local \in [DpiFlows -> BOOLEAN] /\ gen \in [DpiFlows -> 1 .. 2]
    /\ dpiCtx \in [DpiFlows -> {"live", "cancelled", "closed"}]
    /\ dpiSock \in [DpiFlows -> {"none", "held", "local", "vpn", "closed"}]
    /\ used \in [DpiFlows -> BOOLEAN] /\ responded \in [DpiFlows -> BOOLEAN]
    /\ writing \in [DpiFlows -> BOOLEAN]
    /\ reports \in [DpiFlows -> SUBSET {"retryable", "final"}]

\* A retry happens once: the generation of every holder tells whether it did.
\* While its streams are closed no holder is published, withdrawn or closed.
RetryInv(Hs) ==
    /\ \A h \in Hs : id[h] = IF retry = "no" THEN 1 ELSE 2
    /\ retry # "closing" => retryList = {}
    /\ retry = "closing" => \A h \in Hs : admission[h] = "unpublished" /\ stop[h] = "no"

\* What a withdrawal and a Close have on their lists.
ListInv(Hs, Ho) ==
    \A h \in Hs :
        /\ doomed[h] # {} => admission[h] = "withdrawn"
        /\ \A f \in stopList[h] : Ho[f] = h
        /\ stop[h] = "done" => stopList[h] = {}

\* Where a socket may be, and that f.local says whose it is.
SocketInv(Ho, K) ==
    \A f \in DpiFlows :
        /\ gen[f] <= id[Ho[f]]
        /\ dpiSock[f] = "held" => dpiPc[f] = "attach"
        /\ dpiSock[f] = "local" => dpiPc[f] \in {"local", "finishing"} /\ local[f]
        /\ dpiSock[f] = "vpn" => dpiPc[f] \in {"onVPN", "finishing"} /\ ~local[f]
        /\ dpiPc[f] \in {"dialing", "attach"} => local[f]
        /\ dpiPc[f] = "vpnDialing" => ~local[f]
        /\ dpiCtx[f] = "closed" => dpiSock[f] \notin {"local", "vpn"}
        /\ K[f] = "quic" =>
              /\ dpiSock[f] = "none"
              /\ dpiPc[f] \in {"new", "entered", "waiting", "waited", "packet", "onVPN",
                               "finishing", "done"}
        /\ retry = "closing" /\ dpiSock[f] = "local" => gen[f] = 1

\* A closed holder takes no flow; those it had are closed or on its list.
StoppedInv(Ho, K) ==
    \A f \in DpiFlows :
        stop[Ho[f]] # "no" /\ K[f] # "quic" /\ dpiPc[f] \notin {"new", "done"} =>
            f \in stopList[Ho[f]] \/ dpiCtx[f] = "closed"

\* A failure is noticed by a dial or on a stream that carried payload.
ReportInv ==
    \A f \in DpiFlows :
        /\ writing[f] => used[f]
        /\ used[f] => dpiPc[f] \in {"local", "finishing", "done"}
        /\ reports[f] # {} => used[f] \/ dpiPc[f] = "report"
        /\ dpiPc[f] = "report" => reports[f] \in {{"retryable"}, {"final"}}

\* Before the first proof a flow gets past its wait only to end.
ProofInv(Ho, K) ==
    \A f \in DpiFlows :
        /\ K[f] # "other" /\ id[Ho[f]] = 1 /\ admission[Ho[f]] = "unpublished"
        /\ proofWait[Ho[f]] /\ dpiPc[f] \notin {"new", "entered", "waiting", "finishing", "done"}
        => /\ dpiPc[f] = "waited"
           /\ \/ dpiCtx[f] # "live" \/ ~runtime \/ <<Ho[f], 1>> \in dpiCancelled

DpiInv(Hs, Ho, K) ==
    /\ HolderTypes(Hs) /\ ListTypes(Hs) /\ FlowTypes
    /\ RetryInv(Hs) /\ ListInv(Hs, Ho) /\ SocketInv(Ho, K) /\ StoppedInv(Ho, K)
    /\ ReportInv /\ ProofInv(Ho, K)
    /\ Dpi(Hs, Ho, K)!OldStreamsClose

\* The initial state satisfies the invariant.
LEMMA DpiInit ==
  ASSUME NEW Hs, NEW Ho, NEW K, Dpi(Hs, Ho, K)!FlowsAssumption, Dpi(Hs, Ho, K)!Init
  PROVE  DpiInv(Hs, Ho, K)
  BY DEF Dpi!FlowsAssumption, Dpi!Init, DpiInv, HolderTypes, ListTypes, FlowTypes, RetryInv,
         ListInv, SocketInv, StoppedInv, ReportInv, ProofInv, Dpi!OldStreamsClose

\* The steps of a flow's own goroutines, of the owner and of the closes that follow
\* an unlock. A report of a failure is the one step that is of two kinds.
DpiFlowStep(Hs, Ho, K, f) ==
    \/ Dpi(Hs, Ho, K)!Arrive(f)
    \/ Dpi(Hs, Ho, K)!WaitBegins(f)
    \/ Dpi(Hs, Ho, K)!WaitEnds(f)
    \/ Dpi(Hs, Ho, K)!WaitJudged(f)
    \/ Dpi(Hs, Ho, K)!Packet(f)
    \/ Dpi(Hs, Ho, K)!Decide(f)
    \/ Dpi(Hs, Ho, K)!LocalDialReturns(f)
    \/ Dpi(Hs, Ho, K)!Fallback(f)
    \/ Dpi(Hs, Ho, K)!Handoff(f)
    \/ Dpi(Hs, Ho, K)!ConnectVPN(f)
    \/ Dpi(Hs, Ho, K)!VPNDialReturns(f)
    \/ Dpi(Hs, Ho, K)!WriteBegins(f)
    \/ Dpi(Hs, Ho, K)!WriteEnds(f)
    \/ Dpi(Hs, Ho, K)!ReadReturns(f)
    \/ Dpi(Hs, Ho, K)!ReadFails(f)
    \/ Dpi(Hs, Ho, K)!StreamEnds(f)
    \/ Dpi(Hs, Ho, K)!Finish(f)
    \/ Dpi(Hs, Ho, K)!Cancel(f)
    \/ Dpi(Hs, Ho, K)!CancelCloses(f)

DpiStreamStep(Hs, Ho, K, f) ==
    \/ Dpi(Hs, Ho, K)!WriteBegins(f) \/ Dpi(Hs, Ho, K)!WriteEnds(f)
    \/ Dpi(Hs, Ho, K)!ReadReturns(f) \/ Dpi(Hs, Ho, K)!ReadFails(f)

DpiOwnerStep(Hs, Ho, K) ==
    \/ \E h \in Hs :
          \/ Dpi(Hs, Ho, K)!Admit(h)
          \/ Dpi(Hs, Ho, K)!Withdraw(h)
          \/ Dpi(Hs, Ho, K)!WithdrawCancels(h)
          \/ Dpi(Hs, Ho, K)!WithdrawCompletes(h)
          \/ Dpi(Hs, Ho, K)!Stop(h)
          \/ Dpi(Hs, Ho, K)!StopWithdraws(h)
          \/ Dpi(Hs, Ho, K)!ProofDeadline(h)
    \/ Dpi(Hs, Ho, K)!Retry
    \/ Dpi(Hs, Ho, K)!RetryReturns
    \/ Dpi(Hs, Ho, K)!RuntimeEnds

DpiCloseStep(Hs, Ho, K) ==
    \/ \E h \in Hs : Dpi(Hs, Ho, K)!WithdrawCloses(h) \/ Dpi(Hs, Ho, K)!StopCloses(h)
    \/ Dpi(Hs, Ho, K)!RetryCloses

LEMMA DpiActions ==
  ASSUME NEW Hs, NEW Ho, NEW K, Dpi(Hs, Ho, K)!Next
  PROVE  \/ \E f \in DpiFlows : DpiFlowStep(Hs, Ho, K, f) \/ Dpi(Hs, Ho, K)!Report(f)
         \/ DpiOwnerStep(Hs, Ho, K) \/ DpiCloseStep(Hs, Ho, K)
  BY DEF DpiFlowStep, DpiOwnerStep, DpiCloseStep, Dpi!Next, Dpi!FlowGoesOn,
         Dpi!FlowAwaits, Dpi!Owner, Dpi!Closing, Dpi!Withdrawing

LEMMA FlowFrame ==
  ASSUME NEW Hs, NEW Ho, NEW K, NEW f, DpiFlowStep(Hs, Ho, K, f)
  PROVE  UNCHANGED <<admission, id, proofWait, dpiCancelled, runtime, completed, reason,
                     withdrawal, doomed, stop, stopList, retry, retryList>>
  BY DEF DpiFlowStep, Dpi!Arrive, Dpi!WaitBegins, Dpi!WaitEnds, Dpi!WaitJudged,
         Dpi!Packet, Dpi!Decide, Dpi!LocalDialReturns, Dpi!Fallback, Dpi!Handoff,
         Dpi!ConnectVPN, Dpi!VPNDialReturns, Dpi!WriteBegins, Dpi!WriteEnds,
         Dpi!ReadReturns, Dpi!ReadFails, Dpi!StreamEnds, Dpi!Finish, Dpi!Cancel,
         Dpi!CancelCloses, Dpi!holderVars, Dpi!ownerVars

LEMMA StreamFrame ==
  ASSUME NEW Hs, NEW Ho, NEW K, NEW f, DpiStreamStep(Hs, Ho, K, f)
  PROVE  UNCHANGED <<admission, id, proofWait, dpiCancelled, runtime, doomed, stop,
                     stopList, retry, retryList, dpiPc, local, gen, dpiCtx, dpiSock>>
  BY DEF DpiStreamStep, Dpi!WriteBegins, Dpi!WriteEnds, Dpi!ReadReturns,
         Dpi!ReadFails, Dpi!holderVars, Dpi!ownerVars

LEMMA OwnerFrame ==
  ASSUME NEW Hs, NEW Ho, NEW K, DpiOwnerStep(Hs, Ho, K)
  PROVE  UNCHANGED <<dpiPc, local, gen, dpiCtx, dpiSock, used, responded, writing, reports>>
  BY DEF DpiOwnerStep, Dpi!Deny, Dpi!Admit, Dpi!Withdraw, Dpi!WithdrawCancels, Dpi!WithdrawCompletes,
           Dpi!Stop, Dpi!StopWithdraws, Dpi!ProofDeadline, Dpi!Retry, Dpi!RetryReturns,
           Dpi!RuntimeEnds,
           Dpi!flowVars, Dpi!streamVars

LEMMA OwnerKinds ==
  ASSUME NEW Hs, NEW Ho, NEW K, DpiOwnerStep(Hs, Ho, K)
  PROVE  /\ UNCHANGED <<id, retry>> \/ Dpi(Hs, Ho, K)!Retry \/ Dpi(Hs, Ho, K)!RetryReturns
         /\ \/ UNCHANGED <<stop, stopList>>
            \/ \E h \in Hs : Dpi(Hs, Ho, K)!Stop(h) \/ Dpi(Hs, Ho, K)!StopWithdraws(h)
<1>1. ASSUME NEW h \in Hs,
             \/ Dpi(Hs, Ho, K)!Admit(h) \/ Dpi(Hs, Ho, K)!Withdraw(h)
             \/ Dpi(Hs, Ho, K)!WithdrawCancels(h) \/ Dpi(Hs, Ho, K)!WithdrawCompletes(h)
             \/ Dpi(Hs, Ho, K)!ProofDeadline(h)
      PROVE  UNCHANGED <<id, retry, stop, stopList>>
  BY <1>1 DEF Dpi!Admit, Dpi!Withdraw, Dpi!Deny, Dpi!WithdrawCancels,
              Dpi!WithdrawCompletes, Dpi!ProofDeadline, Dpi!ownerVars
<1>2. ASSUME NEW h \in Hs, Dpi(Hs, Ho, K)!Stop(h) \/ Dpi(Hs, Ho, K)!StopWithdraws(h)
      PROVE  UNCHANGED <<id, retry>>
  BY <1>2 DEF Dpi!Stop, Dpi!StopWithdraws, Dpi!Deny, Dpi!holderVars
<1>3. CASE Dpi(Hs, Ho, K)!Retry \/ Dpi(Hs, Ho, K)!RetryReturns
  BY <1>3 DEF Dpi!Retry, Dpi!RetryReturns
<1>4. CASE Dpi(Hs, Ho, K)!RuntimeEnds
  BY <1>4 DEF Dpi!RuntimeEnds, Dpi!ownerVars
<1>5. QED
  BY <1>1, <1>2, <1>3, <1>4 DEF DpiOwnerStep

LEMMA CloseFrame ==
  ASSUME NEW Hs, NEW Ho, NEW K, DpiCloseStep(Hs, Ho, K)
  PROVE  UNCHANGED <<admission, id, proofWait, dpiCancelled, runtime, completed, reason,
                     withdrawal, retry, dpiPc, local, gen, used, responded, writing, reports>>
  BY DEF DpiCloseStep, Dpi!WithdrawCloses, Dpi!StopCloses, Dpi!RetryCloses,
         Dpi!holderVars, Dpi!streamVars

\* A second retry would make a third generation.
LEMMA HolderTypesStep ==
  ASSUME NEW Hs, NEW Ho, NEW K, Dpi(Hs, Ho, K)!FlowsAssumption, DpiInv(Hs, Ho, K),
         Dpi(Hs, Ho, K)!Next
  PROVE  HolderTypes(Hs)'
<1> USE DEF Dpi!FlowsAssumption, DpiInv, HolderTypes, FlowTypes, Dpi!Generations,
        RetryInv, Dpi!holderVars, Dpi!ownerVars, Dpi!flowVars, Dpi!streamVars
<1>1. ASSUME NEW f \in DpiFlows, DpiFlowStep(Hs, Ho, K, f) PROVE HolderTypes(Hs)'
  BY <1>1, FlowFrame
<1>2. ASSUME NEW f \in DpiFlows, Dpi(Hs, Ho, K)!Report(f) PROVE HolderTypes(Hs)'
  BY <1>2 DEF Dpi!Report, Dpi!Go, Dpi!Fails, Dpi!Ready
<1>3. ASSUME NEW h \in Hs, Dpi(Hs, Ho, K)!Admit(h) PROVE HolderTypes(Hs)'
  BY <1>3 DEF Dpi!Admit, Dpi!Closed
<1>4. ASSUME NEW h \in Hs, Dpi(Hs, Ho, K)!Withdraw(h) PROVE HolderTypes(Hs)'
  BY <1>4 DEF Dpi!Withdraw, Dpi!Deny, Dpi!Registered
<1>5. ASSUME NEW h \in Hs, Dpi(Hs, Ho, K)!WithdrawCancels(h) PROVE HolderTypes(Hs)'
  BY <1>5 DEF Dpi!WithdrawCancels
<1>6. ASSUME NEW h \in Hs, Dpi(Hs, Ho, K)!WithdrawCompletes(h) PROVE HolderTypes(Hs)'
  BY <1>6 DEF Dpi!WithdrawCompletes
<1>7. ASSUME NEW h \in Hs, Dpi(Hs, Ho, K)!Stop(h) PROVE HolderTypes(Hs)'
  BY <1>7 DEF Dpi!Stop, Dpi!Registered
<1>8. ASSUME NEW h \in Hs, Dpi(Hs, Ho, K)!StopWithdraws(h) PROVE HolderTypes(Hs)'
  BY <1>8 DEF Dpi!StopWithdraws, Dpi!Deny, Dpi!Registered
<1>9. ASSUME NEW h \in Hs, Dpi(Hs, Ho, K)!ProofDeadline(h) PROVE HolderTypes(Hs)'
  BY <1>9 DEF Dpi!ProofDeadline
<1>10. CASE Dpi(Hs, Ho, K)!Retry
  BY <1>10 DEF Dpi!Retry, Dpi!MayRetry, Dpi!Registered, Dpi!Closed
<1>11. CASE Dpi(Hs, Ho, K)!RetryReturns
  BY <1>11 DEF Dpi!RetryReturns
<1>12. CASE Dpi(Hs, Ho, K)!RuntimeEnds
  BY <1>12 DEF Dpi!RuntimeEnds
<1>13. CASE DpiCloseStep(Hs, Ho, K)
  BY <1>13, CloseFrame
<1>14. QED
  BY DpiActions, <1>1, <1>2, <1>3, <1>4, <1>5, <1>6, <1>7, <1>8, <1>9, <1>10, <1>11,
     <1>12, <1>13 DEF DpiOwnerStep

\* The lists hold flows.
LEMMA ListTypesStep ==
  ASSUME NEW Hs, NEW Ho, NEW K, Dpi(Hs, Ho, K)!FlowsAssumption, DpiInv(Hs, Ho, K),
         Dpi(Hs, Ho, K)!Next
  PROVE  ListTypes(Hs)'
<1> USE DEF Dpi!FlowsAssumption, DpiInv, ListTypes, Dpi!holderVars, Dpi!ownerVars,
        Dpi!flowVars, Dpi!streamVars
<1>1. ASSUME NEW f \in DpiFlows, DpiFlowStep(Hs, Ho, K, f) PROVE ListTypes(Hs)'
  BY <1>1, FlowFrame
<1>2. ASSUME NEW f \in DpiFlows, Dpi(Hs, Ho, K)!Report(f) PROVE ListTypes(Hs)'
  BY <1>2 DEF Dpi!Report, Dpi!Go, Dpi!Fails, Dpi!Ready
<1>3. ASSUME NEW h \in Hs, Dpi(Hs, Ho, K)!Admit(h) PROVE ListTypes(Hs)'
  BY <1>3 DEF Dpi!Admit, Dpi!Closed
<1>4. ASSUME NEW h \in Hs, Dpi(Hs, Ho, K)!Withdraw(h) PROVE ListTypes(Hs)'
  BY <1>4 DEF Dpi!Withdraw, Dpi!Deny, Dpi!Registered
<1>5. ASSUME NEW h \in Hs, Dpi(Hs, Ho, K)!WithdrawCancels(h) PROVE ListTypes(Hs)'
  BY <1>5 DEF Dpi!WithdrawCancels
<1>6. ASSUME NEW h \in Hs, Dpi(Hs, Ho, K)!WithdrawCompletes(h) PROVE ListTypes(Hs)'
  BY <1>6 DEF Dpi!WithdrawCompletes
<1>7. ASSUME NEW h \in Hs, Dpi(Hs, Ho, K)!Stop(h) PROVE ListTypes(Hs)'
  BY <1>7 DEF Dpi!Stop, Dpi!Registered
<1>8. ASSUME NEW h \in Hs, Dpi(Hs, Ho, K)!StopWithdraws(h) PROVE ListTypes(Hs)'
  BY <1>8 DEF Dpi!StopWithdraws, Dpi!Deny, Dpi!Registered
<1>9. ASSUME NEW h \in Hs, Dpi(Hs, Ho, K)!ProofDeadline(h) PROVE ListTypes(Hs)'
  BY <1>9 DEF Dpi!ProofDeadline
<1>10. CASE Dpi(Hs, Ho, K)!Retry
  BY <1>10 DEF Dpi!Retry, Dpi!MayRetry, Dpi!Registered, Dpi!Closed
<1>11. CASE Dpi(Hs, Ho, K)!RetryReturns
  BY <1>11 DEF Dpi!RetryReturns
<1>12. CASE Dpi(Hs, Ho, K)!RuntimeEnds
  BY <1>12 DEF Dpi!RuntimeEnds
<1>13. ASSUME NEW h \in Hs, Dpi(Hs, Ho, K)!WithdrawCloses(h) PROVE ListTypes(Hs)'
  BY <1>13 DEF Dpi!WithdrawCloses, Dpi!CloseFlow
<1>14. ASSUME NEW h \in Hs, Dpi(Hs, Ho, K)!StopCloses(h) PROVE ListTypes(Hs)'
  BY <1>14 DEF Dpi!StopCloses, Dpi!CloseFlow
<1>15. CASE Dpi(Hs, Ho, K)!RetryCloses
  BY <1>15 DEF Dpi!RetryCloses, Dpi!CloseFlow
<1>16. QED
  BY DpiActions, <1>1, <1>2, <1>3, <1>4, <1>5, <1>6, <1>7, <1>8, <1>9, <1>10, <1>11,
     <1>12, <1>13, <1>14, <1>15 DEF DpiOwnerStep, DpiCloseStep

\* The goroutines of a flow keep its types.
LEMMA FlowTypesStep ==
  ASSUME NEW Hs, NEW Ho, NEW K, Dpi(Hs, Ho, K)!FlowsAssumption, DpiInv(Hs, Ho, K),
         Dpi(Hs, Ho, K)!Next
  PROVE  FlowTypes'
<1> USE DEF Dpi!FlowsAssumption, DpiInv, HolderTypes, FlowTypes, Dpi!Generations,
        Dpi!holderVars, Dpi!ownerVars, Dpi!flowVars, Dpi!streamVars
<1>1. ASSUME NEW f \in DpiFlows, Dpi(Hs, Ho, K)!Arrive(f) PROVE FlowTypes'
  <2>1. local' \in [DpiFlows -> BOOLEAN]
    <3> DEFINE b == K[f] = "tcp" /\ Dpi(Hs, Ho, K)!Ready(Ho[f])
    <3>1. local' \in {local, [local EXCEPT ![f] = b]}
      BY <1>1 DEF Dpi!Arrive
    <3>2. b \in BOOLEAN
      OBVIOUS
    <3>3. local \in [DpiFlows -> BOOLEAN]
      OBVIOUS
    <3> HIDE DEF b
    <3>4. QED
      BY ONLY <3>1, <3>2, <3>3
  <2>2. QED
    BY <1>1, <2>1 DEF Dpi!Arrive, Dpi!Go
<1>2. ASSUME NEW f \in DpiFlows, Dpi(Hs, Ho, K)!WaitBegins(f) PROVE FlowTypes'
  BY <1>2 DEF Dpi!WaitBegins, Dpi!Go, Dpi!Closed
<1>3. ASSUME NEW f \in DpiFlows, Dpi(Hs, Ho, K)!WaitEnds(f) PROVE FlowTypes'
  BY <1>3 DEF Dpi!WaitEnds, Dpi!Go, Dpi!Resolved, Dpi!Withdrawn
<1>4. ASSUME NEW f \in DpiFlows, Dpi(Hs, Ho, K)!WaitJudged(f) PROVE FlowTypes'
  BY <1>4 DEF Dpi!WaitJudged, Dpi!Go, Dpi!Closed, Dpi!Withdrawn
<1>5. ASSUME NEW f \in DpiFlows, Dpi(Hs, Ho, K)!Packet(f) PROVE FlowTypes'
  BY <1>5 DEF Dpi!Packet, Dpi!Go, Dpi!Closed, Dpi!Ready
<1>6. ASSUME NEW f \in DpiFlows, Dpi(Hs, Ho, K)!Decide(f) PROVE FlowTypes'
  <2>1. local' \in [DpiFlows -> BOOLEAN]
    BY <1>6 DEF Dpi!Decide, Dpi!Ready
  <2>2. QED
    BY <1>6, <2>1 DEF Dpi!Decide, Dpi!Go
<1>7. ASSUME NEW f \in DpiFlows, Dpi(Hs, Ho, K)!LocalDialReturns(f) PROVE FlowTypes'
  BY <1>7 DEF Dpi!LocalDialReturns, Dpi!Go, Dpi!Withdrawn
<1>8. ASSUME NEW f \in DpiFlows, Dpi(Hs, Ho, K)!Fallback(f) PROVE FlowTypes'
  BY <1>8 DEF Dpi!Fallback, Dpi!Go, Dpi!Withdrawn
<1>9. ASSUME NEW f \in DpiFlows, Dpi(Hs, Ho, K)!Handoff(f) PROVE FlowTypes'
  BY <1>9 DEF Dpi!Handoff, Dpi!Go, Dpi!Closed, Dpi!Ready
<1>10. ASSUME NEW f \in DpiFlows, Dpi(Hs, Ho, K)!ConnectVPN(f) PROVE FlowTypes'
  BY <1>10 DEF Dpi!ConnectVPN, Dpi!Go
<1>11. ASSUME NEW f \in DpiFlows, Dpi(Hs, Ho, K)!VPNDialReturns(f) PROVE FlowTypes'
  BY <1>11 DEF Dpi!VPNDialReturns, Dpi!Go, Dpi!Attach
<1>12. ASSUME NEW f \in DpiFlows, Dpi(Hs, Ho, K)!WriteBegins(f) PROVE FlowTypes'
  BY <1>12 DEF Dpi!WriteBegins
<1>13. ASSUME NEW f \in DpiFlows, Dpi(Hs, Ho, K)!WriteEnds(f) PROVE FlowTypes'
  BY <1>13 DEF Dpi!WriteEnds, Dpi!Observable
<1>14. ASSUME NEW f \in DpiFlows, Dpi(Hs, Ho, K)!ReadReturns(f) PROVE FlowTypes'
  BY <1>14 DEF Dpi!ReadReturns
<1>15. ASSUME NEW f \in DpiFlows, Dpi(Hs, Ho, K)!ReadFails(f) PROVE FlowTypes'
  BY <1>15 DEF Dpi!ReadFails, Dpi!Observable
<1>16. ASSUME NEW f \in DpiFlows, Dpi(Hs, Ho, K)!StreamEnds(f) PROVE FlowTypes'
  BY <1>16 DEF Dpi!StreamEnds, Dpi!Go
<1>17. ASSUME NEW f \in DpiFlows, Dpi(Hs, Ho, K)!Finish(f) PROVE FlowTypes'
  BY <1>17 DEF Dpi!Finish, Dpi!Go, Dpi!CloseFlow
<1>18. ASSUME NEW f \in DpiFlows, Dpi(Hs, Ho, K)!Cancel(f) PROVE FlowTypes'
  BY <1>18 DEF Dpi!Cancel
<1>19. ASSUME NEW f \in DpiFlows, Dpi(Hs, Ho, K)!CancelCloses(f) PROVE FlowTypes'
  BY <1>19 DEF Dpi!CancelCloses, Dpi!CloseFlow
<1>20. ASSUME NEW f \in DpiFlows, Dpi(Hs, Ho, K)!Report(f) PROVE FlowTypes'
  BY <1>20 DEF Dpi!Report, Dpi!Go, Dpi!Fails, Dpi!Ready
<1>21. CASE DpiOwnerStep(Hs, Ho, K)
  BY <1>21, OwnerFrame
<1>22. ASSUME NEW h \in Hs, Dpi(Hs, Ho, K)!WithdrawCloses(h) PROVE FlowTypes'
  BY <1>22 DEF Dpi!WithdrawCloses, Dpi!CloseFlow
<1>23. ASSUME NEW h \in Hs, Dpi(Hs, Ho, K)!StopCloses(h) PROVE FlowTypes'
  BY <1>23 DEF Dpi!StopCloses, Dpi!CloseFlow
<1>24. CASE Dpi(Hs, Ho, K)!RetryCloses
  BY <1>24 DEF Dpi!RetryCloses, Dpi!CloseFlow
<1>25. QED
  BY DpiActions, <1>1, <1>2, <1>3, <1>4, <1>5, <1>6, <1>7, <1>8, <1>9, <1>10, <1>11,
     <1>12, <1>13, <1>14, <1>15, <1>16, <1>17, <1>18, <1>19, <1>20, <1>21, <1>22,
     <1>23, <1>24 DEF DpiFlowStep, DpiCloseStep

\* The one retry finds no holder closed, and nobody publishes or closes one before it returns.
LEMMA RetryStep ==
  ASSUME NEW Hs, NEW Ho, NEW K, Dpi(Hs, Ho, K)!FlowsAssumption, DpiInv(Hs, Ho, K),
         Dpi(Hs, Ho, K)!Next
  PROVE  RetryInv(Hs)'
<1> USE DEF Dpi!FlowsAssumption, DpiInv, HolderTypes, ListTypes, RetryInv,
        Dpi!holderVars, Dpi!ownerVars, Dpi!flowVars, Dpi!streamVars
<1>1. ASSUME NEW f \in DpiFlows, DpiFlowStep(Hs, Ho, K, f) PROVE RetryInv(Hs)'
  BY <1>1, FlowFrame
<1>2. ASSUME NEW f \in DpiFlows, Dpi(Hs, Ho, K)!Report(f) PROVE RetryInv(Hs)'
  BY <1>2 DEF Dpi!Report, Dpi!Go, Dpi!Fails, Dpi!Ready
<1>3. ASSUME NEW h \in Hs, Dpi(Hs, Ho, K)!Admit(h) PROVE RetryInv(Hs)'
  BY <1>3 DEF Dpi!Admit, Dpi!Closed
<1>4. ASSUME NEW h \in Hs, Dpi(Hs, Ho, K)!Withdraw(h) PROVE RetryInv(Hs)'
  BY <1>4 DEF Dpi!Withdraw, Dpi!Deny, Dpi!Registered
<1>5. ASSUME NEW h \in Hs, Dpi(Hs, Ho, K)!WithdrawCancels(h) PROVE RetryInv(Hs)'
  BY <1>5 DEF Dpi!WithdrawCancels
<1>6. ASSUME NEW h \in Hs, Dpi(Hs, Ho, K)!WithdrawCompletes(h) PROVE RetryInv(Hs)'
  BY <1>6 DEF Dpi!WithdrawCompletes
<1>7. ASSUME NEW h \in Hs, Dpi(Hs, Ho, K)!Stop(h) PROVE RetryInv(Hs)'
  BY <1>7 DEF Dpi!Stop, Dpi!Registered
<1>8. ASSUME NEW h \in Hs, Dpi(Hs, Ho, K)!StopWithdraws(h) PROVE RetryInv(Hs)'
  BY <1>8 DEF Dpi!StopWithdraws, Dpi!Deny, Dpi!Registered
<1>9. ASSUME NEW h \in Hs, Dpi(Hs, Ho, K)!ProofDeadline(h) PROVE RetryInv(Hs)'
  BY <1>9 DEF Dpi!ProofDeadline
<1>10. CASE Dpi(Hs, Ho, K)!Retry
  BY <1>10 DEF Dpi!Retry, Dpi!MayRetry, Dpi!Registered, Dpi!Closed
<1>11. CASE Dpi(Hs, Ho, K)!RetryReturns
  BY <1>11 DEF Dpi!RetryReturns
<1>12. CASE Dpi(Hs, Ho, K)!RuntimeEnds
  BY <1>12 DEF Dpi!RuntimeEnds
<1>13. ASSUME NEW h \in Hs, Dpi(Hs, Ho, K)!WithdrawCloses(h) PROVE RetryInv(Hs)'
  BY <1>13 DEF Dpi!WithdrawCloses, Dpi!CloseFlow
<1>14. ASSUME NEW h \in Hs, Dpi(Hs, Ho, K)!StopCloses(h) PROVE RetryInv(Hs)'
  BY <1>14 DEF Dpi!StopCloses, Dpi!CloseFlow
<1>15. CASE Dpi(Hs, Ho, K)!RetryCloses
  BY <1>15 DEF Dpi!RetryCloses, Dpi!CloseFlow
<1>16. QED
  BY DpiActions, <1>1, <1>2, <1>3, <1>4, <1>5, <1>6, <1>7, <1>8, <1>9, <1>10, <1>11,
     <1>12, <1>13, <1>14, <1>15 DEF DpiOwnerStep, DpiCloseStep

\* A list of a withdrawal is made with the latch, that of a Close from its own flows.
LEMMA ListStep ==
  ASSUME NEW Hs, NEW Ho, NEW K, Dpi(Hs, Ho, K)!FlowsAssumption, DpiInv(Hs, Ho, K),
         Dpi(Hs, Ho, K)!Next
  PROVE  ListInv(Hs, Ho)'
<1> USE DEF Dpi!FlowsAssumption, DpiInv, HolderTypes, ListTypes, RetryInv, ListInv,
        Dpi!holderVars, Dpi!ownerVars, Dpi!flowVars, Dpi!streamVars
<1>1. ASSUME NEW f \in DpiFlows, DpiFlowStep(Hs, Ho, K, f) PROVE ListInv(Hs, Ho)'
  BY <1>1, FlowFrame
<1>2. ASSUME NEW f \in DpiFlows, Dpi(Hs, Ho, K)!Report(f) PROVE ListInv(Hs, Ho)'
  BY <1>2 DEF Dpi!Report, Dpi!Go, Dpi!Fails, Dpi!Ready
<1>3. ASSUME NEW h \in Hs, Dpi(Hs, Ho, K)!Admit(h) PROVE ListInv(Hs, Ho)'
  BY <1>3 DEF Dpi!Admit, Dpi!Closed
<1>4. ASSUME NEW h \in Hs, Dpi(Hs, Ho, K)!Withdraw(h) PROVE ListInv(Hs, Ho)'
  BY <1>4 DEF Dpi!Withdraw, Dpi!Deny, Dpi!Registered
<1>5. ASSUME NEW h \in Hs, Dpi(Hs, Ho, K)!WithdrawCancels(h) PROVE ListInv(Hs, Ho)'
  BY <1>5 DEF Dpi!WithdrawCancels
<1>6. ASSUME NEW h \in Hs, Dpi(Hs, Ho, K)!WithdrawCompletes(h) PROVE ListInv(Hs, Ho)'
  BY <1>6 DEF Dpi!WithdrawCompletes
<1>7. ASSUME NEW h \in Hs, Dpi(Hs, Ho, K)!Stop(h) PROVE ListInv(Hs, Ho)'
  BY <1>7 DEF Dpi!Stop, Dpi!Registered
<1>8. ASSUME NEW h \in Hs, Dpi(Hs, Ho, K)!StopWithdraws(h) PROVE ListInv(Hs, Ho)'
  BY <1>8 DEF Dpi!StopWithdraws, Dpi!Deny, Dpi!Registered
<1>9. ASSUME NEW h \in Hs, Dpi(Hs, Ho, K)!ProofDeadline(h) PROVE ListInv(Hs, Ho)'
  BY <1>9 DEF Dpi!ProofDeadline
<1>10. CASE Dpi(Hs, Ho, K)!Retry
  BY <1>10 DEF Dpi!Retry, Dpi!MayRetry, Dpi!Registered, Dpi!Closed
<1>11. CASE Dpi(Hs, Ho, K)!RetryReturns
  BY <1>11 DEF Dpi!RetryReturns
<1>12. CASE Dpi(Hs, Ho, K)!RuntimeEnds
  BY <1>12 DEF Dpi!RuntimeEnds
<1>13. ASSUME NEW h \in Hs, Dpi(Hs, Ho, K)!WithdrawCloses(h) PROVE ListInv(Hs, Ho)'
  BY <1>13 DEF Dpi!WithdrawCloses, Dpi!CloseFlow
<1>14. ASSUME NEW h \in Hs, Dpi(Hs, Ho, K)!StopCloses(h) PROVE ListInv(Hs, Ho)'
  BY <1>14 DEF Dpi!StopCloses, Dpi!CloseFlow
<1>15. CASE Dpi(Hs, Ho, K)!RetryCloses
  BY <1>15 DEF Dpi!RetryCloses, Dpi!CloseFlow
<1>16. QED
  BY DpiActions, <1>1, <1>2, <1>3, <1>4, <1>5, <1>6, <1>7, <1>8, <1>9, <1>10, <1>11,
     <1>12, <1>13, <1>14, <1>15 DEF DpiOwnerStep, DpiCloseStep

\* A socket is attached, closed and counted as local where SocketInv says.
LEMMA SocketStep ==
  ASSUME NEW Hs, NEW Ho, NEW K, Dpi(Hs, Ho, K)!FlowsAssumption, DpiInv(Hs, Ho, K),
         Dpi(Hs, Ho, K)!Next
  PROVE  SocketInv(Ho, K)'
<1> USE DEF Dpi!FlowsAssumption, DpiInv, HolderTypes, FlowTypes, Dpi!Generations,
        RetryInv, SocketInv, Dpi!holderVars, Dpi!ownerVars, Dpi!flowVars,
        Dpi!streamVars
<1>1. ASSUME NEW f \in DpiFlows, Dpi(Hs, Ho, K)!Arrive(f) PROVE SocketInv(Ho, K)'
  BY <1>1 DEF Dpi!Arrive, Dpi!Go, Dpi!Closed, Dpi!Ready
<1>2. ASSUME NEW f \in DpiFlows, Dpi(Hs, Ho, K)!WaitBegins(f) PROVE SocketInv(Ho, K)'
  BY <1>2 DEF Dpi!WaitBegins, Dpi!Go, Dpi!Closed
<1>3. ASSUME NEW f \in DpiFlows, Dpi(Hs, Ho, K)!WaitEnds(f) PROVE SocketInv(Ho, K)'
  BY <1>3 DEF Dpi!WaitEnds, Dpi!Go, Dpi!Resolved, Dpi!Withdrawn
<1>4. ASSUME NEW f \in DpiFlows, Dpi(Hs, Ho, K)!WaitJudged(f) PROVE SocketInv(Ho, K)'
  BY <1>4 DEF Dpi!WaitJudged, Dpi!Go, Dpi!Closed, Dpi!Withdrawn
<1>5. ASSUME NEW f \in DpiFlows, Dpi(Hs, Ho, K)!Packet(f) PROVE SocketInv(Ho, K)'
  BY <1>5 DEF Dpi!Packet, Dpi!Go, Dpi!Closed, Dpi!Ready
<1>6. ASSUME NEW f \in DpiFlows, Dpi(Hs, Ho, K)!Decide(f) PROVE SocketInv(Ho, K)'
  <2>1. /\ \A g \in DpiFlows \ {f} : UNCHANGED <<dpiPc[g], local[g], gen[g]>>
        /\ gen'[f] <= id[Ho[f]]
        /\ dpiPc[f] = "decide" /\ dpiPc'[f] \in {"finishing", "dialing", "vpn"}
        /\ UNCHANGED <<id, retry, dpiCtx, dpiSock>>
    BY <1>6 DEF Dpi!Decide, Dpi!Go
  <2>2. dpiPc'[f] = "dialing" => local'[f]
    BY <1>6 DEF Dpi!Decide, Dpi!Go
  <2>3. QED
    BY <2>1, <2>2
<1>7. ASSUME NEW f \in DpiFlows, Dpi(Hs, Ho, K)!LocalDialReturns(f)
      PROVE  SocketInv(Ho, K)'
  BY <1>7 DEF Dpi!LocalDialReturns, Dpi!Go, Dpi!Withdrawn
<1>8. ASSUME NEW f \in DpiFlows, Dpi(Hs, Ho, K)!Fallback(f) PROVE SocketInv(Ho, K)'
  BY <1>8 DEF Dpi!Fallback, Dpi!Go, Dpi!Withdrawn
<1>9. ASSUME NEW f \in DpiFlows, Dpi(Hs, Ho, K)!Handoff(f) PROVE SocketInv(Ho, K)'
  BY <1>9 DEF Dpi!Handoff, Dpi!Go, Dpi!Closed, Dpi!Ready
<1>10. ASSUME NEW f \in DpiFlows, Dpi(Hs, Ho, K)!ConnectVPN(f) PROVE SocketInv(Ho, K)'
  BY <1>10 DEF Dpi!ConnectVPN, Dpi!Go
<1>11. ASSUME NEW f \in DpiFlows, Dpi(Hs, Ho, K)!VPNDialReturns(f) PROVE SocketInv(Ho, K)'
  BY <1>11 DEF Dpi!VPNDialReturns, Dpi!Go, Dpi!Attach
<1>12. ASSUME NEW f \in DpiFlows, Dpi(Hs, Ho, K)!StreamEnds(f) PROVE SocketInv(Ho, K)'
  BY <1>12 DEF Dpi!StreamEnds, Dpi!Go
<1>13. ASSUME NEW f \in DpiFlows, Dpi(Hs, Ho, K)!Finish(f) PROVE SocketInv(Ho, K)'
  BY <1>13 DEF Dpi!Finish, Dpi!Go, Dpi!CloseFlow
<1>14. ASSUME NEW f \in DpiFlows, Dpi(Hs, Ho, K)!Cancel(f) PROVE SocketInv(Ho, K)'
  BY <1>14 DEF Dpi!Cancel
<1>15. ASSUME NEW f \in DpiFlows, Dpi(Hs, Ho, K)!CancelCloses(f) PROVE SocketInv(Ho, K)'
  BY <1>15 DEF Dpi!CancelCloses, Dpi!CloseFlow
<1>16. ASSUME NEW f \in DpiFlows, DpiStreamStep(Hs, Ho, K, f) PROVE SocketInv(Ho, K)'
  BY <1>16, StreamFrame
<1>17. ASSUME NEW f \in DpiFlows, Dpi(Hs, Ho, K)!Report(f) PROVE SocketInv(Ho, K)'
  BY <1>17 DEF Dpi!Report, Dpi!Go, Dpi!Fails, Dpi!Ready
<1>18. CASE DpiOwnerStep(Hs, Ho, K) /\ UNCHANGED <<id, retry>>
  BY <1>18, OwnerFrame
<1>19. CASE Dpi(Hs, Ho, K)!Retry
  BY <1>19 DEF Dpi!Retry, Dpi!MayRetry, Dpi!Registered, Dpi!Closed
<1>20. CASE Dpi(Hs, Ho, K)!RetryReturns
  BY <1>20 DEF Dpi!RetryReturns
<1>21. ASSUME NEW h \in Hs, Dpi(Hs, Ho, K)!WithdrawCloses(h) PROVE SocketInv(Ho, K)'
  BY <1>21 DEF Dpi!WithdrawCloses, Dpi!CloseFlow
<1>22. ASSUME NEW h \in Hs, Dpi(Hs, Ho, K)!StopCloses(h) PROVE SocketInv(Ho, K)'
  BY <1>22 DEF Dpi!StopCloses, Dpi!CloseFlow
<1>23. CASE Dpi(Hs, Ho, K)!RetryCloses
  BY <1>23 DEF Dpi!RetryCloses, Dpi!CloseFlow
<1>24. CASE DpiOwnerStep(Hs, Ho, K)
  BY <1>18, <1>19, <1>20, <1>24, OwnerKinds
<1>25. QED
  BY DpiActions, <1>24, <1>1, <1>2, <1>3, <1>4, <1>5, <1>6, <1>7, <1>8, <1>9,
     <1>10, <1>11, <1>12, <1>13, <1>14, <1>15, <1>16, <1>17, <1>18, <1>19, <1>20,
     <1>21, <1>22, <1>23 DEF DpiFlowStep, DpiCloseStep, DpiStreamStep

\* Close lists every registered flow under the lock that refuses new ones.
LEMMA StoppedStep ==
  ASSUME NEW Hs, NEW Ho, NEW K, Dpi(Hs, Ho, K)!FlowsAssumption, DpiInv(Hs, Ho, K),
         Dpi(Hs, Ho, K)!Next
  PROVE  StoppedInv(Ho, K)'
<1> USE DEF Dpi!FlowsAssumption, DpiInv, HolderTypes, ListTypes, FlowTypes,
        Dpi!Generations, RetryInv, ListInv, SocketInv, StoppedInv, Dpi!holderVars,
        Dpi!ownerVars, Dpi!flowVars, Dpi!streamVars
<1>1. ASSUME NEW f \in DpiFlows, Dpi(Hs, Ho, K)!Arrive(f) PROVE StoppedInv(Ho, K)'
  BY <1>1 DEF Dpi!Arrive, Dpi!Go, Dpi!Closed, Dpi!Ready
<1>2. ASSUME NEW f \in DpiFlows, Dpi(Hs, Ho, K)!WaitBegins(f) PROVE StoppedInv(Ho, K)'
  BY <1>2 DEF Dpi!WaitBegins, Dpi!Go, Dpi!Closed
<1>3. ASSUME NEW f \in DpiFlows, Dpi(Hs, Ho, K)!WaitEnds(f) PROVE StoppedInv(Ho, K)'
  BY <1>3 DEF Dpi!WaitEnds, Dpi!Go, Dpi!Resolved, Dpi!Withdrawn
<1>4. ASSUME NEW f \in DpiFlows, Dpi(Hs, Ho, K)!WaitJudged(f) PROVE StoppedInv(Ho, K)'
  BY <1>4 DEF Dpi!WaitJudged, Dpi!Go, Dpi!Closed, Dpi!Withdrawn
<1>5. ASSUME NEW f \in DpiFlows, Dpi(Hs, Ho, K)!Packet(f) PROVE StoppedInv(Ho, K)'
  BY <1>5 DEF Dpi!Packet, Dpi!Go, Dpi!Closed, Dpi!Ready
<1>6. ASSUME NEW f \in DpiFlows, Dpi(Hs, Ho, K)!Decide(f) PROVE StoppedInv(Ho, K)'
  BY <1>6 DEF Dpi!Decide, Dpi!Go, Dpi!Closed, Dpi!Ready
<1>7. ASSUME NEW f \in DpiFlows, Dpi(Hs, Ho, K)!LocalDialReturns(f)
      PROVE  StoppedInv(Ho, K)'
  BY <1>7 DEF Dpi!LocalDialReturns, Dpi!Go, Dpi!Withdrawn
<1>8. ASSUME NEW f \in DpiFlows, Dpi(Hs, Ho, K)!Fallback(f) PROVE StoppedInv(Ho, K)'
  BY <1>8 DEF Dpi!Fallback, Dpi!Go, Dpi!Withdrawn
<1>9. ASSUME NEW f \in DpiFlows, Dpi(Hs, Ho, K)!Handoff(f) PROVE StoppedInv(Ho, K)'
  BY <1>9 DEF Dpi!Handoff, Dpi!Go, Dpi!Closed, Dpi!Ready
<1>10. ASSUME NEW f \in DpiFlows, Dpi(Hs, Ho, K)!ConnectVPN(f) PROVE StoppedInv(Ho, K)'
  BY <1>10 DEF Dpi!ConnectVPN, Dpi!Go
<1>11. ASSUME NEW f \in DpiFlows, Dpi(Hs, Ho, K)!VPNDialReturns(f)
       PROVE  StoppedInv(Ho, K)'
  BY <1>11 DEF Dpi!VPNDialReturns, Dpi!Go, Dpi!Attach
<1>12. ASSUME NEW f \in DpiFlows, Dpi(Hs, Ho, K)!StreamEnds(f) PROVE StoppedInv(Ho, K)'
  BY <1>12 DEF Dpi!StreamEnds, Dpi!Go
<1>13. ASSUME NEW f \in DpiFlows, Dpi(Hs, Ho, K)!Finish(f) PROVE StoppedInv(Ho, K)'
  BY <1>13 DEF Dpi!Finish, Dpi!Go, Dpi!CloseFlow
<1>14. ASSUME NEW f \in DpiFlows, Dpi(Hs, Ho, K)!Cancel(f) PROVE StoppedInv(Ho, K)'
  BY <1>14 DEF Dpi!Cancel
<1>15. ASSUME NEW f \in DpiFlows, Dpi(Hs, Ho, K)!CancelCloses(f) PROVE StoppedInv(Ho, K)'
  BY <1>15 DEF Dpi!CancelCloses, Dpi!CloseFlow
<1>16. ASSUME NEW f \in DpiFlows, DpiStreamStep(Hs, Ho, K, f) PROVE StoppedInv(Ho, K)'
  BY <1>16, StreamFrame
<1>17. ASSUME NEW f \in DpiFlows, Dpi(Hs, Ho, K)!Report(f) PROVE StoppedInv(Ho, K)'
  BY <1>17 DEF Dpi!Report, Dpi!Go, Dpi!Fails, Dpi!Ready
<1>18. CASE DpiOwnerStep(Hs, Ho, K) /\ UNCHANGED <<stop, stopList>>
  BY <1>18, OwnerFrame
<1>19. ASSUME NEW h \in Hs, Dpi(Hs, Ho, K)!Stop(h) PROVE StoppedInv(Ho, K)'
  BY <1>19 DEF Dpi!Stop, Dpi!Registered
<1>20. ASSUME NEW h \in Hs, Dpi(Hs, Ho, K)!StopWithdraws(h) PROVE StoppedInv(Ho, K)'
  BY <1>20 DEF Dpi!StopWithdraws, Dpi!Deny, Dpi!Registered
<1>21. ASSUME NEW h \in Hs, Dpi(Hs, Ho, K)!WithdrawCloses(h) PROVE StoppedInv(Ho, K)'
  BY <1>21 DEF Dpi!WithdrawCloses, Dpi!CloseFlow
<1>22. ASSUME NEW h \in Hs, Dpi(Hs, Ho, K)!StopCloses(h) PROVE StoppedInv(Ho, K)'
  BY <1>22 DEF Dpi!StopCloses, Dpi!CloseFlow
<1>23. CASE Dpi(Hs, Ho, K)!RetryCloses
  BY <1>23 DEF Dpi!RetryCloses, Dpi!CloseFlow
<1>24. CASE DpiOwnerStep(Hs, Ho, K)
  BY <1>18, <1>19, <1>20, <1>24, OwnerKinds
<1>25. QED
  BY DpiActions, <1>24, <1>1, <1>2, <1>3, <1>4, <1>5, <1>6, <1>7, <1>8, <1>9,
     <1>10, <1>11, <1>12, <1>13, <1>14, <1>15, <1>16, <1>17, <1>18, <1>19, <1>20,
     <1>21, <1>22, <1>23 DEF DpiFlowStep, DpiCloseStep, DpiStreamStep

\* Failures are noticed by the dial and by used streams only.
LEMMA ReportStep ==
  ASSUME NEW Hs, NEW Ho, NEW K, Dpi(Hs, Ho, K)!FlowsAssumption, DpiInv(Hs, Ho, K),
         Dpi(Hs, Ho, K)!Next
  PROVE  ReportInv'
<1> USE DEF Dpi!FlowsAssumption, DpiInv, FlowTypes, ReportInv, Dpi!holderVars,
        Dpi!ownerVars, Dpi!flowVars, Dpi!streamVars
<1>1. ASSUME NEW f \in DpiFlows, Dpi(Hs, Ho, K)!Arrive(f) PROVE ReportInv'
  BY <1>1 DEF Dpi!Arrive, Dpi!Go, Dpi!Closed, Dpi!Ready
<1>2. ASSUME NEW f \in DpiFlows, Dpi(Hs, Ho, K)!WaitBegins(f) PROVE ReportInv'
  BY <1>2 DEF Dpi!WaitBegins, Dpi!Go, Dpi!Closed
<1>3. ASSUME NEW f \in DpiFlows, Dpi(Hs, Ho, K)!WaitEnds(f) PROVE ReportInv'
  BY <1>3 DEF Dpi!WaitEnds, Dpi!Go, Dpi!Resolved, Dpi!Withdrawn
<1>4. ASSUME NEW f \in DpiFlows, Dpi(Hs, Ho, K)!WaitJudged(f) PROVE ReportInv'
  BY <1>4 DEF Dpi!WaitJudged, Dpi!Go, Dpi!Closed, Dpi!Withdrawn
<1>5. ASSUME NEW f \in DpiFlows, Dpi(Hs, Ho, K)!Packet(f) PROVE ReportInv'
  BY <1>5 DEF Dpi!Packet, Dpi!Go, Dpi!Closed, Dpi!Ready
<1>6. ASSUME NEW f \in DpiFlows, Dpi(Hs, Ho, K)!Decide(f) PROVE ReportInv'
  BY <1>6 DEF Dpi!Decide, Dpi!Go, Dpi!Closed, Dpi!Ready
<1>7. ASSUME NEW f \in DpiFlows, Dpi(Hs, Ho, K)!LocalDialReturns(f) PROVE ReportInv'
  BY <1>7 DEF Dpi!LocalDialReturns, Dpi!Go, Dpi!Withdrawn
<1>8. ASSUME NEW f \in DpiFlows, Dpi(Hs, Ho, K)!Fallback(f) PROVE ReportInv'
  BY <1>8 DEF Dpi!Fallback, Dpi!Go, Dpi!Withdrawn
<1>9. ASSUME NEW f \in DpiFlows, Dpi(Hs, Ho, K)!Handoff(f) PROVE ReportInv'
  BY <1>9 DEF Dpi!Handoff, Dpi!Go, Dpi!Closed, Dpi!Ready
<1>10. ASSUME NEW f \in DpiFlows, Dpi(Hs, Ho, K)!ConnectVPN(f) PROVE ReportInv'
  BY <1>10 DEF Dpi!ConnectVPN, Dpi!Go
<1>11. ASSUME NEW f \in DpiFlows, Dpi(Hs, Ho, K)!VPNDialReturns(f) PROVE ReportInv'
  BY <1>11 DEF Dpi!VPNDialReturns, Dpi!Go, Dpi!Attach
<1>12. ASSUME NEW f \in DpiFlows, Dpi(Hs, Ho, K)!WriteBegins(f) PROVE ReportInv'
  BY <1>12 DEF Dpi!WriteBegins
<1>13. ASSUME NEW f \in DpiFlows, Dpi(Hs, Ho, K)!WriteEnds(f) PROVE ReportInv'
  BY <1>13 DEF Dpi!WriteEnds, Dpi!Observable
<1>14. ASSUME NEW f \in DpiFlows, Dpi(Hs, Ho, K)!ReadReturns(f) PROVE ReportInv'
  BY <1>14 DEF Dpi!ReadReturns
<1>15. ASSUME NEW f \in DpiFlows, Dpi(Hs, Ho, K)!ReadFails(f) PROVE ReportInv'
  BY <1>15 DEF Dpi!ReadFails, Dpi!Observable
<1>16. ASSUME NEW f \in DpiFlows, Dpi(Hs, Ho, K)!StreamEnds(f) PROVE ReportInv'
  BY <1>16 DEF Dpi!StreamEnds, Dpi!Go
<1>17. ASSUME NEW f \in DpiFlows, Dpi(Hs, Ho, K)!Finish(f) PROVE ReportInv'
  BY <1>17 DEF Dpi!Finish, Dpi!Go, Dpi!CloseFlow
<1>18. ASSUME NEW f \in DpiFlows, Dpi(Hs, Ho, K)!Cancel(f) PROVE ReportInv'
  BY <1>18 DEF Dpi!Cancel
<1>19. ASSUME NEW f \in DpiFlows, Dpi(Hs, Ho, K)!CancelCloses(f) PROVE ReportInv'
  BY <1>19 DEF Dpi!CancelCloses, Dpi!CloseFlow
<1>20. ASSUME NEW f \in DpiFlows, Dpi(Hs, Ho, K)!Report(f) PROVE ReportInv'
  BY <1>20 DEF Dpi!Report, Dpi!Go, Dpi!Fails, Dpi!Ready
<1>21. CASE DpiOwnerStep(Hs, Ho, K)
  BY <1>21, OwnerFrame
<1>22. CASE DpiCloseStep(Hs, Ho, K)
  BY <1>22, CloseFrame
<1>23. QED
  BY DpiActions, <1>1, <1>2, <1>3, <1>4, <1>5, <1>6, <1>7, <1>8, <1>9, <1>10, <1>11,
     <1>12, <1>13, <1>14, <1>15, <1>16, <1>17, <1>18, <1>19, <1>20, <1>21, <1>22 DEF
     DpiFlowStep

\* Whatever wakes a flow before the first proof ends it.
LEMMA ProofStep ==
  ASSUME NEW Hs, NEW Ho, NEW K, Dpi(Hs, Ho, K)!FlowsAssumption, DpiInv(Hs, Ho, K),
         Dpi(Hs, Ho, K)!Next
  PROVE  ProofInv(Ho, K)'
<1> USE DEF Dpi!FlowsAssumption, DpiInv, HolderTypes, FlowTypes, Dpi!Generations,
        RetryInv, SocketInv, ProofInv, Dpi!holderVars, Dpi!ownerVars, Dpi!flowVars,
        Dpi!streamVars
<1>1. ASSUME NEW f \in DpiFlows, Dpi(Hs, Ho, K)!Arrive(f) PROVE ProofInv(Ho, K)'
  BY <1>1 DEF Dpi!Arrive, Dpi!Go, Dpi!Closed, Dpi!Ready
<1>2. ASSUME NEW f \in DpiFlows, Dpi(Hs, Ho, K)!WaitBegins(f) PROVE ProofInv(Ho, K)'
  BY <1>2 DEF Dpi!WaitBegins, Dpi!Go, Dpi!Closed
<1>3. ASSUME NEW f \in DpiFlows, Dpi(Hs, Ho, K)!WaitEnds(f) PROVE ProofInv(Ho, K)'
  BY <1>3 DEF Dpi!WaitEnds, Dpi!Go, Dpi!Resolved, Dpi!Withdrawn
<1>4. ASSUME NEW f \in DpiFlows, Dpi(Hs, Ho, K)!WaitJudged(f) PROVE ProofInv(Ho, K)'
  BY <1>4 DEF Dpi!WaitJudged, Dpi!Go, Dpi!Closed, Dpi!Withdrawn
<1>5. ASSUME NEW f \in DpiFlows, Dpi(Hs, Ho, K)!Packet(f) PROVE ProofInv(Ho, K)'
  BY <1>5 DEF Dpi!Packet, Dpi!Go, Dpi!Closed, Dpi!Ready
<1>6. ASSUME NEW f \in DpiFlows, Dpi(Hs, Ho, K)!Decide(f) PROVE ProofInv(Ho, K)'
  BY <1>6 DEF Dpi!Decide, Dpi!Go, Dpi!Closed, Dpi!Ready
<1>7. ASSUME NEW f \in DpiFlows, Dpi(Hs, Ho, K)!LocalDialReturns(f) PROVE ProofInv(Ho, K)'
  BY <1>7 DEF Dpi!LocalDialReturns, Dpi!Go, Dpi!Withdrawn
<1>8. ASSUME NEW f \in DpiFlows, Dpi(Hs, Ho, K)!Fallback(f) PROVE ProofInv(Ho, K)'
  BY <1>8 DEF Dpi!Fallback, Dpi!Go, Dpi!Withdrawn
<1>9. ASSUME NEW f \in DpiFlows, Dpi(Hs, Ho, K)!Handoff(f) PROVE ProofInv(Ho, K)'
  BY <1>9 DEF Dpi!Handoff, Dpi!Go, Dpi!Closed, Dpi!Ready
<1>10. ASSUME NEW f \in DpiFlows, Dpi(Hs, Ho, K)!ConnectVPN(f) PROVE ProofInv(Ho, K)'
  BY <1>10 DEF Dpi!ConnectVPN, Dpi!Go
<1>11. ASSUME NEW f \in DpiFlows, Dpi(Hs, Ho, K)!VPNDialReturns(f) PROVE ProofInv(Ho, K)'
  BY <1>11 DEF Dpi!VPNDialReturns, Dpi!Go, Dpi!Attach
<1>12. ASSUME NEW f \in DpiFlows, Dpi(Hs, Ho, K)!StreamEnds(f) PROVE ProofInv(Ho, K)'
  BY <1>12 DEF Dpi!StreamEnds, Dpi!Go
<1>13. ASSUME NEW f \in DpiFlows, Dpi(Hs, Ho, K)!Finish(f) PROVE ProofInv(Ho, K)'
  BY <1>13 DEF Dpi!Finish, Dpi!Go, Dpi!CloseFlow
<1>14. ASSUME NEW f \in DpiFlows, Dpi(Hs, Ho, K)!Cancel(f) PROVE ProofInv(Ho, K)'
  BY <1>14 DEF Dpi!Cancel
<1>15. ASSUME NEW f \in DpiFlows, Dpi(Hs, Ho, K)!CancelCloses(f) PROVE ProofInv(Ho, K)'
  BY <1>15 DEF Dpi!CancelCloses, Dpi!CloseFlow
<1>16. ASSUME NEW f \in DpiFlows, DpiStreamStep(Hs, Ho, K, f) PROVE ProofInv(Ho, K)'
  BY <1>16, StreamFrame
<1>17. ASSUME NEW f \in DpiFlows, Dpi(Hs, Ho, K)!Report(f) PROVE ProofInv(Ho, K)'
  BY <1>17 DEF Dpi!Report, Dpi!Go, Dpi!Fails, Dpi!Ready
<1>18. ASSUME NEW h \in Hs, Dpi(Hs, Ho, K)!Admit(h) PROVE ProofInv(Ho, K)'
  BY <1>18 DEF Dpi!Admit, Dpi!Closed
<1>19. ASSUME NEW h \in Hs, Dpi(Hs, Ho, K)!Withdraw(h) PROVE ProofInv(Ho, K)'
  BY <1>19 DEF Dpi!Withdraw, Dpi!Deny, Dpi!Registered
<1>20. ASSUME NEW h \in Hs, Dpi(Hs, Ho, K)!WithdrawCancels(h) PROVE ProofInv(Ho, K)'
  BY <1>20 DEF Dpi!WithdrawCancels
<1>21. ASSUME NEW h \in Hs, Dpi(Hs, Ho, K)!WithdrawCompletes(h) PROVE ProofInv(Ho, K)'
  BY <1>21 DEF Dpi!WithdrawCompletes
<1>22. ASSUME NEW h \in Hs, Dpi(Hs, Ho, K)!Stop(h) PROVE ProofInv(Ho, K)'
  BY <1>22 DEF Dpi!Stop, Dpi!Registered
<1>23. ASSUME NEW h \in Hs, Dpi(Hs, Ho, K)!StopWithdraws(h) PROVE ProofInv(Ho, K)'
  BY <1>23 DEF Dpi!StopWithdraws, Dpi!Deny, Dpi!Registered
<1>24. ASSUME NEW h \in Hs, Dpi(Hs, Ho, K)!ProofDeadline(h) PROVE ProofInv(Ho, K)'
  BY <1>24 DEF Dpi!ProofDeadline
<1>25. CASE Dpi(Hs, Ho, K)!Retry
  BY <1>25 DEF Dpi!Retry, Dpi!MayRetry, Dpi!Registered, Dpi!Closed
<1>26. CASE Dpi(Hs, Ho, K)!RetryReturns
  BY <1>26 DEF Dpi!RetryReturns
<1>27. CASE Dpi(Hs, Ho, K)!RuntimeEnds
  BY <1>27 DEF Dpi!RuntimeEnds
<1>28. ASSUME NEW h \in Hs, Dpi(Hs, Ho, K)!WithdrawCloses(h) PROVE ProofInv(Ho, K)'
  BY <1>28 DEF Dpi!WithdrawCloses, Dpi!CloseFlow
<1>29. ASSUME NEW h \in Hs, Dpi(Hs, Ho, K)!StopCloses(h) PROVE ProofInv(Ho, K)'
  BY <1>29 DEF Dpi!StopCloses, Dpi!CloseFlow
<1>30. CASE Dpi(Hs, Ho, K)!RetryCloses
  BY <1>30 DEF Dpi!RetryCloses, Dpi!CloseFlow
<1>31. QED
  BY DpiActions, <1>1, <1>2, <1>3, <1>4, <1>5, <1>6, <1>7, <1>8, <1>9, <1>10, <1>11,
     <1>12, <1>13, <1>14, <1>15, <1>16, <1>17, <1>18, <1>19, <1>20, <1>21, <1>22,
     <1>23, <1>24, <1>25, <1>26, <1>27, <1>28, <1>29, <1>30 DEF DpiFlowStep,
     DpiOwnerStep, DpiCloseStep, DpiStreamStep

\* Whoever ends a generation has its local streams on a list until they are closed.
LEMMA OldStreamsStep ==
  ASSUME NEW Hs, NEW Ho, NEW K, Dpi(Hs, Ho, K)!FlowsAssumption, DpiInv(Hs, Ho, K),
         Dpi(Hs, Ho, K)!Next
  PROVE  Dpi(Hs, Ho, K)!OldStreamsClose'
<1> USE DEF Dpi!FlowsAssumption, DpiInv, HolderTypes, ListTypes, FlowTypes,
        Dpi!Generations, RetryInv, ListInv, SocketInv, Dpi!OldStreamsClose,
        Dpi!holderVars, Dpi!ownerVars, Dpi!flowVars, Dpi!streamVars
<1>1. ASSUME NEW f \in DpiFlows, Dpi(Hs, Ho, K)!Arrive(f)
      PROVE  Dpi(Hs, Ho, K)!OldStreamsClose'
  BY <1>1 DEF Dpi!Arrive, Dpi!Go, Dpi!Closed, Dpi!Ready
<1>2. ASSUME NEW f \in DpiFlows, Dpi(Hs, Ho, K)!WaitBegins(f)
      PROVE  Dpi(Hs, Ho, K)!OldStreamsClose'
  BY <1>2 DEF Dpi!WaitBegins, Dpi!Go, Dpi!Closed
<1>3. ASSUME NEW f \in DpiFlows, Dpi(Hs, Ho, K)!WaitEnds(f)
      PROVE  Dpi(Hs, Ho, K)!OldStreamsClose'
  BY <1>3 DEF Dpi!WaitEnds, Dpi!Go, Dpi!Resolved, Dpi!Withdrawn
<1>4. ASSUME NEW f \in DpiFlows, Dpi(Hs, Ho, K)!WaitJudged(f)
      PROVE  Dpi(Hs, Ho, K)!OldStreamsClose'
  BY <1>4 DEF Dpi!WaitJudged, Dpi!Go, Dpi!Closed, Dpi!Withdrawn
<1>5. ASSUME NEW f \in DpiFlows, Dpi(Hs, Ho, K)!Packet(f)
      PROVE  Dpi(Hs, Ho, K)!OldStreamsClose'
  BY <1>5 DEF Dpi!Packet, Dpi!Go, Dpi!Closed, Dpi!Ready
<1>6. ASSUME NEW f \in DpiFlows, Dpi(Hs, Ho, K)!Decide(f)
      PROVE  Dpi(Hs, Ho, K)!OldStreamsClose'
  BY <1>6 DEF Dpi!Decide, Dpi!Go, Dpi!Closed, Dpi!Ready
<1>7. ASSUME NEW f \in DpiFlows, Dpi(Hs, Ho, K)!LocalDialReturns(f)
      PROVE  Dpi(Hs, Ho, K)!OldStreamsClose'
  BY <1>7 DEF Dpi!LocalDialReturns, Dpi!Go, Dpi!Withdrawn
<1>8. ASSUME NEW f \in DpiFlows, Dpi(Hs, Ho, K)!Fallback(f)
      PROVE  Dpi(Hs, Ho, K)!OldStreamsClose'
  BY <1>8 DEF Dpi!Fallback, Dpi!Go, Dpi!Withdrawn
<1>9. ASSUME NEW f \in DpiFlows, Dpi(Hs, Ho, K)!Handoff(f)
      PROVE  Dpi(Hs, Ho, K)!OldStreamsClose'
  BY <1>9 DEF Dpi!Handoff, Dpi!Go, Dpi!Closed, Dpi!Ready
<1>10. ASSUME NEW f \in DpiFlows, Dpi(Hs, Ho, K)!ConnectVPN(f)
       PROVE  Dpi(Hs, Ho, K)!OldStreamsClose'
  BY <1>10 DEF Dpi!ConnectVPN, Dpi!Go
<1>11. ASSUME NEW f \in DpiFlows, Dpi(Hs, Ho, K)!VPNDialReturns(f)
       PROVE  Dpi(Hs, Ho, K)!OldStreamsClose'
  BY <1>11 DEF Dpi!VPNDialReturns, Dpi!Go, Dpi!Attach
<1>12. ASSUME NEW f \in DpiFlows, Dpi(Hs, Ho, K)!StreamEnds(f)
       PROVE  Dpi(Hs, Ho, K)!OldStreamsClose'
  BY <1>12 DEF Dpi!StreamEnds, Dpi!Go
<1>13. ASSUME NEW f \in DpiFlows, Dpi(Hs, Ho, K)!Finish(f)
       PROVE  Dpi(Hs, Ho, K)!OldStreamsClose'
  BY <1>13 DEF Dpi!Finish, Dpi!Go, Dpi!CloseFlow
<1>14. ASSUME NEW f \in DpiFlows, Dpi(Hs, Ho, K)!Cancel(f)
       PROVE  Dpi(Hs, Ho, K)!OldStreamsClose'
  BY <1>14 DEF Dpi!Cancel
<1>15. ASSUME NEW f \in DpiFlows, Dpi(Hs, Ho, K)!CancelCloses(f)
       PROVE  Dpi(Hs, Ho, K)!OldStreamsClose'
  BY <1>15 DEF Dpi!CancelCloses, Dpi!CloseFlow
<1>16. ASSUME NEW f \in DpiFlows, DpiStreamStep(Hs, Ho, K, f)
       PROVE  Dpi(Hs, Ho, K)!OldStreamsClose'
  BY <1>16, StreamFrame
<1>17. ASSUME NEW f \in DpiFlows, Dpi(Hs, Ho, K)!Report(f)
       PROVE  Dpi(Hs, Ho, K)!OldStreamsClose'
  BY <1>17 DEF Dpi!Report, Dpi!Go, Dpi!Fails, Dpi!Ready
<1>18. ASSUME NEW h \in Hs, Dpi(Hs, Ho, K)!Admit(h) PROVE Dpi(Hs, Ho, K)!OldStreamsClose'
  BY <1>18 DEF Dpi!Admit, Dpi!Closed
<1>19. ASSUME NEW h \in Hs, Dpi(Hs, Ho, K)!Withdraw(h)
       PROVE  Dpi(Hs, Ho, K)!OldStreamsClose'
  BY <1>19 DEF Dpi!Withdraw, Dpi!Deny, Dpi!Registered
<1>20. ASSUME NEW h \in Hs, Dpi(Hs, Ho, K)!WithdrawCancels(h)
       PROVE  Dpi(Hs, Ho, K)!OldStreamsClose'
  BY <1>20 DEF Dpi!WithdrawCancels
<1>21. ASSUME NEW h \in Hs, Dpi(Hs, Ho, K)!WithdrawCompletes(h)
       PROVE  Dpi(Hs, Ho, K)!OldStreamsClose'
  BY <1>21 DEF Dpi!WithdrawCompletes
<1>22. ASSUME NEW h \in Hs, Dpi(Hs, Ho, K)!Stop(h) PROVE Dpi(Hs, Ho, K)!OldStreamsClose'
  BY <1>22 DEF Dpi!Stop, Dpi!Registered
<1>23. ASSUME NEW h \in Hs, Dpi(Hs, Ho, K)!StopWithdraws(h)
       PROVE  Dpi(Hs, Ho, K)!OldStreamsClose'
  <2>1. CASE Dpi(Hs, Ho, K)!Deny(h)
    BY <2>1 DEF Dpi!Deny, Dpi!Registered
  <2>2. QED
    BY <1>23, <2>1 DEF Dpi!StopWithdraws
<1>24. ASSUME NEW h \in Hs, Dpi(Hs, Ho, K)!ProofDeadline(h)
       PROVE  Dpi(Hs, Ho, K)!OldStreamsClose'
  BY <1>24 DEF Dpi!ProofDeadline
<1>25. CASE Dpi(Hs, Ho, K)!Retry
  <2>1. ASSUME NEW f \in DpiFlows, dpiSock[f] = "local" PROVE f \in retryList'
    <3>1. f \in Dpi(Hs, Ho, K)!Registered(Ho[f]) /\ Ho[f] \in Hs /\ local[f]
      BY <2>1 DEF Dpi!Registered
    <3>2. QED
      BY <1>25, <3>1 DEF Dpi!Retry
  <2>2. dpiSock' = dpiSock
    BY <1>25 DEF Dpi!Retry
  <2>3. QED
    BY <2>1, <2>2
<1>26. CASE Dpi(Hs, Ho, K)!RetryReturns
  BY <1>26 DEF Dpi!RetryReturns
<1>27. CASE Dpi(Hs, Ho, K)!RuntimeEnds
  BY <1>27 DEF Dpi!RuntimeEnds
<1>28. ASSUME NEW h \in Hs, Dpi(Hs, Ho, K)!WithdrawCloses(h)
       PROVE  Dpi(Hs, Ho, K)!OldStreamsClose'
  BY <1>28 DEF Dpi!WithdrawCloses, Dpi!CloseFlow
<1>29. ASSUME NEW h \in Hs, Dpi(Hs, Ho, K)!StopCloses(h)
       PROVE  Dpi(Hs, Ho, K)!OldStreamsClose'
  BY <1>29 DEF Dpi!StopCloses, Dpi!CloseFlow
<1>30. CASE Dpi(Hs, Ho, K)!RetryCloses
  BY <1>30 DEF Dpi!RetryCloses, Dpi!CloseFlow
<1>31. QED
  BY DpiActions, <1>1, <1>2, <1>3, <1>4, <1>5, <1>6, <1>7, <1>8, <1>9, <1>10, <1>11,
     <1>12, <1>13, <1>14, <1>15, <1>16, <1>17, <1>18, <1>19, <1>20, <1>21, <1>22,
     <1>23, <1>24, <1>25, <1>26, <1>27, <1>28, <1>29, <1>30 DEF DpiFlowStep,
     DpiOwnerStep, DpiCloseStep, DpiStreamStep

LEMMA DpiStep ==
  ASSUME NEW Hs, NEW Ho, NEW K, Dpi(Hs, Ho, K)!FlowsAssumption, DpiInv(Hs, Ho, K),
         [Dpi(Hs, Ho, K)!Next]_dpiVars
  PROVE  DpiInv(Hs, Ho, K)'
<1>1. CASE Dpi(Hs, Ho, K)!Next
  <2>1. HolderTypes(Hs)' /\ ListTypes(Hs)' /\ FlowTypes'
    BY <1>1, HolderTypesStep, ListTypesStep, FlowTypesStep
  <2>2. RetryInv(Hs)' /\ ListInv(Hs, Ho)' /\ SocketInv(Ho, K)' /\ StoppedInv(Ho, K)'
    BY <1>1, RetryStep, ListStep, SocketStep, StoppedStep
  <2>3. ReportInv' /\ ProofInv(Ho, K)' /\ Dpi(Hs, Ho, K)!OldStreamsClose'
    BY <1>1, ReportStep, ProofStep, OldStreamsStep
  <2>4. QED
    BY <2>1, <2>2, <2>3 DEF DpiInv
<1>2. CASE UNCHANGED dpiVars
  BY <1>2 DEF dpiVars, DpiInv, HolderTypes, ListTypes, FlowTypes, RetryInv, ListInv,
         SocketInv, StoppedInv, ReportInv, ProofInv, Dpi!OldStreamsClose
<1>3. QED
  BY <1>1, <1>2

\* What the invariant says of the streams of a closed holder.
LEMMA DpiTyped ==
  ASSUME NEW Hs, NEW Ho, NEW K, DpiInv(Hs, Ho, K)
  PROVE  Dpi(Hs, Ho, K)!TypeOK
  BY DEF DpiInv, HolderTypes, ListTypes, FlowTypes, Dpi!TypeOK, Dpi!Generations

LEMMA DpiClosedIsEmpty ==
  ASSUME NEW Hs, NEW Ho, NEW K, Dpi(Hs, Ho, K)!FlowsAssumption, DpiInv(Hs, Ho, K)
  PROVE  Dpi(Hs, Ho, K)!ClosedIsEmpty
  BY DEF Dpi!FlowsAssumption, DpiInv, FlowTypes, ListInv, SocketInv, StoppedInv,
         Dpi!ClosedIsEmpty

\* The steps of a flow that touch its socket.
LEMMA SocketFrame ==
  ASSUME NEW Hs, NEW Ho, NEW K, NEW f, DpiFlowStep(Hs, Ho, K, f)
  PROVE  \/ UNCHANGED dpiSock
         \/ Dpi(Hs, Ho, K)!LocalDialReturns(f) \/ Dpi(Hs, Ho, K)!Handoff(f)
         \/ Dpi(Hs, Ho, K)!VPNDialReturns(f) \/ Dpi(Hs, Ho, K)!Finish(f)
         \/ Dpi(Hs, Ho, K)!CancelCloses(f)
  BY DEF DpiFlowStep, Dpi!Arrive, Dpi!WaitBegins, Dpi!WaitEnds, Dpi!WaitJudged, Dpi!Packet,
         Dpi!Decide, Dpi!Fallback, Dpi!ConnectVPN, Dpi!WriteBegins, Dpi!WriteEnds,
         Dpi!ReadReturns, Dpi!ReadFails, Dpi!StreamEnds, Dpi!Cancel

\* Only Close closes a flow that is not its own and not local any more.
LEMMA VPNStreamsStep ==
  ASSUME NEW Hs, NEW Ho, NEW K, Dpi(Hs, Ho, K)!FlowsAssumption, DpiInv(Hs, Ho, K),
         Dpi(Hs, Ho, K)!Next,
         NEW f \in DpiFlows, dpiSock[f] = "vpn", dpiSock'[f] = "closed"
  PROVE  dpiPc[f] = "finishing" \/ dpiCtx[f] = "cancelled" \/ stop[Ho[f]] # "no"
<1> USE DEF DpiInv, FlowTypes, SocketInv
<1>1. ASSUME NEW g \in DpiFlows, DpiFlowStep(Hs, Ho, K, g)
      PROVE  dpiPc[f] = "finishing" \/ dpiCtx[f] = "cancelled"
  BY <1>1, SocketFrame DEF Dpi!LocalDialReturns, Dpi!Handoff, Dpi!VPNDialReturns, Dpi!Attach,
     Dpi!Finish, Dpi!CancelCloses, Dpi!CloseFlow
<1>2. ASSUME NEW g \in DpiFlows, Dpi(Hs, Ho, K)!Report(g) PROVE FALSE
  BY <1>2 DEF Dpi!Report
<1>3. CASE DpiOwnerStep(Hs, Ho, K)
  BY <1>3, OwnerFrame
<1>4. ASSUME NEW h \in Hs, Dpi(Hs, Ho, K)!WithdrawCloses(h) PROVE FALSE
  BY <1>4 DEF Dpi!WithdrawCloses, Dpi!CloseFlow, ListTypes
<1>5. ASSUME NEW h \in Hs, Dpi(Hs, Ho, K)!StopCloses(h) PROVE stop[Ho[f]] # "no"
  BY <1>5 DEF Dpi!StopCloses, Dpi!CloseFlow, ListTypes, ListInv
<1>6. CASE Dpi(Hs, Ho, K)!RetryCloses
  BY <1>6 DEF Dpi!RetryCloses, Dpi!CloseFlow, ListTypes
<1>7. QED
  BY DpiActions, <1>1, <1>2, <1>3, <1>4, <1>5, <1>6 DEF DpiCloseStep

\* While the retry closes streams, none of the new generation is attached.
LEMMA RetrySparesStep ==
  ASSUME NEW Hs, NEW Ho, NEW K, Dpi(Hs, Ho, K)!FlowsAssumption, DpiInv(Hs, Ho, K),
         Dpi(Hs, Ho, K)!Next,
         NEW f \in retryList, f \notin retryList', gen[f] = 2
  PROVE  dpiSock[f] # "local"
  BY DEF DpiInv, ListTypes, RetryInv, SocketInv

\* A holder fails by the report of one of its own flows.
LEMMA FailureStep ==
  ASSUME NEW Hs, NEW Ho, NEW K, Dpi(Hs, Ho, K)!FlowsAssumption, DpiInv(Hs, Ho, K),
         Dpi(Hs, Ho, K)!Next,
         NEW h \in Hs, admission[h] = "ready", admission'[h] = "failed"
  PROVE  \E f \in DpiFlows : /\ Ho[f] = h /\ gen[f] = id[h] /\ reports[f] # {}
                             /\ used[f] \/ dpiPc[f] = "report"
<1> USE DEF DpiInv, HolderTypes
<1>1. ASSUME NEW g \in DpiFlows, DpiFlowStep(Hs, Ho, K, g) PROVE FALSE
  BY <1>1, FlowFrame
<1>2. ASSUME NEW g \in DpiFlows, Dpi(Hs, Ho, K)!Report(g)
      PROVE  \E f \in DpiFlows : /\ Ho[f] = h /\ gen[f] = id[h] /\ reports[f] # {}
                                 /\ used[f] \/ dpiPc[f] = "report"
  <2>1. Ho[g] = h /\ gen[g] = id[h] /\ reports[g] # {}
    BY <1>2 DEF Dpi!Report, Dpi!Fails, Dpi!Ready
  <2>2. QED
    BY <2>1 DEF ReportInv
<1>3. CASE DpiOwnerStep(Hs, Ho, K)
  BY <1>3 DEF DpiOwnerStep, Dpi!Deny, Dpi!Admit, Dpi!Withdraw, Dpi!WithdrawCancels,
     Dpi!WithdrawCompletes, Dpi!Stop, Dpi!StopWithdraws, Dpi!ProofDeadline, Dpi!Retry,
     Dpi!RetryReturns, Dpi!RuntimeEnds, Dpi!holderVars
<1>4. CASE DpiCloseStep(Hs, Ho, K)
  BY <1>4, CloseFrame
<1>5. QED
  BY DpiActions, <1>1, <1>2, <1>3, <1>4

\* No step takes the withdrawal back: a report and an admission ask for another
\* state, a retry for holders that were not withdrawn.
LEMMA WithdrawnStep ==
  ASSUME NEW Hs, NEW Ho, NEW K, Dpi(Hs, Ho, K)!FlowsAssumption, DpiInv(Hs, Ho, K),
         Dpi(Hs, Ho, K)!Next,
         NEW h \in Hs, admission[h] = "withdrawn"
  PROVE  admission'[h] = "withdrawn"
<1> USE DEF DpiInv, HolderTypes
<1>1. ASSUME NEW g \in DpiFlows, DpiFlowStep(Hs, Ho, K, g)
      PROVE  admission'[h] = "withdrawn"
  BY <1>1, FlowFrame
<1>2. ASSUME NEW g \in DpiFlows, Dpi(Hs, Ho, K)!Report(g)
      PROVE  admission'[h] = "withdrawn"
  BY <1>2 DEF Dpi!Report, Dpi!Fails, Dpi!Ready
<1>3. CASE DpiOwnerStep(Hs, Ho, K)
  BY <1>3 DEF DpiOwnerStep, Dpi!Deny, Dpi!Admit, Dpi!Withdraw, Dpi!WithdrawCancels,
     Dpi!WithdrawCompletes, Dpi!Stop, Dpi!StopWithdraws, Dpi!ProofDeadline, Dpi!Retry,
     Dpi!MayRetry, Dpi!RetryReturns, Dpi!RuntimeEnds, Dpi!holderVars
<1>4. CASE DpiCloseStep(Hs, Ho, K)
  BY <1>4, CloseFrame
<1>5. QED
  BY DpiActions, <1>1, <1>2, <1>3, <1>4

\* The steps that send a flow to the VPN come after the wait.
LEMMA EscapeStep ==
  ASSUME NEW Hs, NEW Ho, NEW K, Dpi(Hs, Ho, K)!FlowsAssumption, DpiInv(Hs, Ho, K),
         Dpi(Hs, Ho, K)!Next,
         NEW f \in DpiFlows, K[f] # "other", id[Ho[f]] = 1, admission[Ho[f]] = "unpublished",
         dpiPc[f] # dpiPc'[f], dpiPc'[f] \in {"vpn", "onVPN"}
  PROVE  ~proofWait[Ho[f]]
<1> SUFFICES ASSUME proofWait[Ho[f]] PROVE FALSE
  OBVIOUS
<1> USE DEF DpiInv, FlowTypes, ProofInv
<1>1. ASSUME NEW g \in DpiFlows, DpiFlowStep(Hs, Ho, K, g) PROVE FALSE
  <2>1. CASE Dpi(Hs, Ho, K)!WaitBegins(g)
    BY <2>1 DEF Dpi!WaitBegins, Dpi!Go
  <2>2. CASE Dpi(Hs, Ho, K)!Packet(g) \/ Dpi(Hs, Ho, K)!Decide(g) \/ Dpi(Hs, Ho, K)!Fallback(g)
    BY <2>2 DEF Dpi!Packet, Dpi!Decide, Dpi!Fallback, Dpi!Go
  <2>3. CASE Dpi(Hs, Ho, K)!VPNDialReturns(g)
    BY <2>3 DEF Dpi!VPNDialReturns, Dpi!Go
  <2>4. CASE Dpi(Hs, Ho, K)!Arrive(g) \/ Dpi(Hs, Ho, K)!WaitEnds(g) \/ Dpi(Hs, Ho, K)!WaitJudged(g)
    BY <2>4 DEF Dpi!Arrive, Dpi!WaitEnds, Dpi!WaitJudged, Dpi!Go
  <2>5. CASE Dpi(Hs, Ho, K)!LocalDialReturns(g) \/ Dpi(Hs, Ho, K)!Handoff(g)
             \/ Dpi(Hs, Ho, K)!ConnectVPN(g)
    BY <2>5 DEF Dpi!LocalDialReturns, Dpi!Handoff, Dpi!ConnectVPN, Dpi!Go
  <2>6. CASE Dpi(Hs, Ho, K)!StreamEnds(g) \/ Dpi(Hs, Ho, K)!Finish(g)
             \/ Dpi(Hs, Ho, K)!Cancel(g) \/ Dpi(Hs, Ho, K)!CancelCloses(g)
    BY <2>6 DEF Dpi!StreamEnds, Dpi!Finish, Dpi!Cancel, Dpi!CancelCloses, Dpi!Go
  <2>7. CASE DpiStreamStep(Hs, Ho, K, g)
    BY <2>7, StreamFrame
  <2>8. QED
    BY <1>1, <2>1, <2>2, <2>3, <2>4, <2>5, <2>6, <2>7 DEF DpiFlowStep, DpiStreamStep
<1>2. ASSUME NEW g \in DpiFlows, Dpi(Hs, Ho, K)!Report(g) PROVE FALSE
  BY <1>2 DEF Dpi!Report, Dpi!Go
<1>3. CASE DpiOwnerStep(Hs, Ho, K)
  BY <1>3, OwnerFrame
<1>4. CASE DpiCloseStep(Hs, Ho, K)
  BY <1>4, CloseFrame
<1>5. QED
  BY DpiActions, <1>1, <1>2, <1>3, <1>4

-----------------------------------------------------------------------------
(* The Telegram outbound, for any flows.                                   *)

\* Where a gateway's socket, a read deadline and committed payload may be.  A
\* gateway that nobody is closing belongs to a registered flow that is not closed.
GatewayInv ==
    \A f \in TelegramFlows :
        /\ wsPc[f] \in {"new", "registered", "reading", "read", "dialing"} => sock[f] = "none"
        /\ wsPc[f] \in {"registered", "reading", "read", "dialing", "gateway"} =>
              f \in registered
        /\ wsPc[f] = "gateway" => sock[f] \in {"held", "refused", "aborted"}
        /\ wsPc[f] = "active" => sock[f] = "active" \/ (sock[f] = "closed" /\ ctx[f] = "closed")
        /\ sock[f] = "active" => wsPc[f] \in {"active", "finishing", "deleting", "done"}
        /\ sock[f] = "active" /\ tail[f] = "none" => f \in registered /\ ~Telegram!Closed(f)
        /\ deadline[f] # "none" => wsPc[f] = "reading"
        /\ payload[f] => wsPc[f] \in {"active", "finishing", "deleting", "done"}

\* A close under way: the flow is marked before anything is closed, and Close
\* does not return from the middle of its own.
TailInv ==
    \A f \in TelegramFlows :
        /\ tail[f] # "none" => Telegram!Closed(f)
        /\ wsPc[f] = "deleting" => Telegram!Closed(f)
        /\ tail[f] = "close" => closer = "flows"

TransferInv ==
    \A f \in TelegramFlows :
        /\ transferred[f] =>
              wsPc[f] \in {"onVPN", "finishing", "deleting", "done"} /\ sock[f] # "active"
        /\ wsPc[f] = "onVPN" => transferred[f]
        /\ f \in closeList => wsPc[f] # "onVPN"

\* An abandoned setup stays recognisable: what ended it does not come back.
AbandonedInv ==
    \A f \in TelegramFlows :
        /\ sock[f] = "aborted" => Telegram!CtxDone(f) \/ cancelled \/ ~parent
        /\ wsPc[f] = "marking" => sock[f] # "aborted"

\* A closed outbound was withdrawn before; its flows are closed or on the list.
ClosingInv ==
    /\ closed <=> closer \in {"flows", "done"}
    /\ closeList # {} => closer = "flows"
    /\ closed => \A f \in registered : f \in closeList \/ Telegram!Closed(f)

WsInv ==
    /\ Telegram!TypeOK /\ GatewayInv /\ TailInv /\ TransferInv /\ AbandonedInv
    /\ ClosingInv /\ Telegram!StreamsEndWithAdmission

\* The initial state satisfies the invariant.
LEMMA WsInit == Telegram!Init => WsInv
<1> SUFFICES ASSUME Telegram!Init PROVE WsInv
  OBVIOUS
<1>1. Telegram!TypeOK
  BY DEF Telegram!Init, Telegram!TypeOK, Telegram!Owner, Telegram!Nobody
<1>2. GatewayInv /\ TailInv /\ TransferInv /\ AbandonedInv
      /\ Telegram!StreamsEndWithAdmission
  BY DEF Telegram!Init, GatewayInv, TailInv, TransferInv, AbandonedInv,
         Telegram!StreamsEndWithAdmission
<1>3. ClosingInv
  BY DEF Telegram!Init, ClosingInv
<1>4. QED
  BY <1>1, <1>2, <1>3 DEF WsInv

\* A denial keeps the types of the admission.
LEMMA DenialTypes ==
  ASSUME Telegram!TypeOK, NEW who \in TelegramFlows \cup {Telegram!Owner},
         Telegram!DenyIfOver(who) \/ Telegram!Deny(who) \/ UNCHANGED Telegram!admissionVars
  PROVE  /\ admitted' \in BOOLEAN /\ withdrawn' \in BOOLEAN
         /\ cleaner' \in TelegramFlows \cup {Telegram!Owner, Telegram!Nobody}
         /\ list' \subseteq TelegramFlows
  BY DEF Telegram!TypeOK, Telegram!DenyIfOver, Telegram!Deny, Telegram!admissionVars

\* A flow that falls back leaves the outbound before it is transferred.
LEMMA WsTypesStep ==
  ASSUME Telegram!FlowsAssumption, WsInv, Telegram!Next
  PROVE  Telegram!TypeOK'
<1> USE DEF WsInv, Telegram!TypeOK, Telegram!Owner, Telegram!Nobody, Telegram!Closed,
        Telegram!CtxDone, GatewayInv,
        TransferInv, Telegram!clockVars, Telegram!admissionVars, Telegram!closeVars,
        Telegram!flowVars, Telegram!closingVars, Telegram!streamVars
<1>1. ASSUME NEW f \in TelegramFlows, Telegram!Arrive(f) PROVE Telegram!TypeOK'
  <2>1. registered' \subseteq {g \in TelegramFlows : ~transferred'[g]}
    BY <1>1 DEF Telegram!Arrive, TransferInv
  <2>2. UNCHANGED Telegram!admissionVars \/ Telegram!DenyIfOver(f)
    BY <1>1 DEF Telegram!Arrive
  <2>3. QED
    BY <1>1, <2>1, <2>2, DenialTypes DEF Telegram!Arrive, Telegram!Go
<1>2. ASSUME NEW f \in TelegramFlows, Telegram!ReadBegins(f) PROVE Telegram!TypeOK'
  BY <1>2 DEF Telegram!ReadBegins, Telegram!Go, Telegram!Free
<1>3. ASSUME NEW f \in TelegramFlows, Telegram!ReadReturns(f) PROVE Telegram!TypeOK'
  BY <1>3 DEF Telegram!ReadReturns, Telegram!Go
<1>4. ASSUME NEW f \in TelegramFlows, Telegram!CheckReady(f) PROVE Telegram!TypeOK'
  <2>1. Telegram!DenyIfOver(f)
    BY <1>4 DEF Telegram!CheckReady
  <2>2. QED
    BY <1>4, <2>1, DenialTypes DEF Telegram!CheckReady, Telegram!Go
<1>5. ASSUME NEW f \in TelegramFlows, Telegram!GatewayReturns(f) PROVE Telegram!TypeOK'
  BY <1>5 DEF Telegram!GatewayReturns, Telegram!Go
<1>6. ASSUME NEW f \in TelegramFlows, Telegram!Judge(f) PROVE Telegram!TypeOK'
  <2>1. sock' \in [TelegramFlows -> {"none", "refused", "aborted", "held", "active", "closed"}]
    BY <1>6 DEF Telegram!Judge
  <2>2. \A g \in TelegramFlows : payload[g] => sock'[g] \in {"active", "closed"}
    BY <1>6 DEF Telegram!Judge
  <2>3. QED
    BY <1>6, <2>1, <2>2, DenialTypes DEF Telegram!Judge, Telegram!Go
<1>7. ASSUME NEW f \in TelegramFlows, Telegram!Blame(f) PROVE Telegram!TypeOK'
  <2>1. UNCHANGED Telegram!admissionVars \/ Telegram!DenyIfOver(f)
    BY <1>7 DEF Telegram!Blame
  <2>2. QED
    BY <1>7, <2>1, DenialTypes DEF Telegram!Blame, Telegram!Go
<1>8. ASSUME NEW f \in TelegramFlows, Telegram!MarkUnavailable(f) PROVE Telegram!TypeOK'
  BY <1>8 DEF Telegram!MarkUnavailable, Telegram!Go
<1>9. ASSUME NEW f \in TelegramFlows, Telegram!Fallback(f) PROVE Telegram!TypeOK'
  BY <1>9 DEF Telegram!Fallback, Telegram!Go, Telegram!Free
<1>10. ASSUME NEW f \in TelegramFlows, Telegram!Write(f) PROVE Telegram!TypeOK'
  <2>1. Telegram!DenyIfOver(f)
    BY <1>10 DEF Telegram!Write
  <2>2. payload' \in [TelegramFlows -> BOOLEAN]
    BY <1>10 DEF Telegram!Write
  <2>3. \A g \in TelegramFlows : payload'[g] => payload[g] \/ (g = f /\ ctx[f] = "live")
    BY <1>10 DEF Telegram!Write
  <2>4. ctx[f] = "live" => sock[f] = "active"
    BY <1>10 DEF Telegram!Write
  <2>5. QED
    BY <1>10, <2>1, <2>2, <2>3, <2>4, DenialTypes DEF Telegram!Write
<1>11. ASSUME NEW f \in TelegramFlows, Telegram!GatewayFails(f) PROVE Telegram!TypeOK'
  BY <1>11 DEF Telegram!GatewayFails, Telegram!Go
<1>12. ASSUME NEW f \in TelegramFlows, Telegram!StreamEnds(f) PROVE Telegram!TypeOK'
  BY <1>12 DEF Telegram!StreamEnds, Telegram!Go
<1>13. ASSUME NEW f \in TelegramFlows, Telegram!Finish(f) PROVE Telegram!TypeOK'
  BY <1>13 DEF Telegram!Finish, Telegram!Go, Telegram!MarkClosed
<1>14. ASSUME NEW f \in TelegramFlows, Telegram!Cancel(f) PROVE Telegram!TypeOK'
  BY <1>14 DEF Telegram!Cancel
<1>15. ASSUME NEW f \in TelegramFlows, Telegram!CancelCloses(f) PROVE Telegram!TypeOK'
  BY <1>15 DEF Telegram!CancelCloses, Telegram!MarkClosed
<1>16. CASE Telegram!Admit
  BY <1>16, ZenonT(40) DEF Telegram!Admit, Telegram!Current, Telegram!Deny
<1>17. CASE Telegram!Withdraw
  BY <1>17 DEF Telegram!Withdraw, Telegram!Deny
<1>18. CASE Telegram!CleanupCancels
  BY <1>18 DEF Telegram!CleanupCancels
<1>19. CASE Telegram!CleanupWithdraws
  <2>1. PICK f \in list :
           \/ UNCHANGED <<marked, deadline, ctx, tail>>
           \/ /\ marked' = [marked EXCEPT ![f] = TRUE]
              /\ deadline' = [deadline EXCEPT ![f] = IF wsPc[f] = "reading" THEN "now" ELSE @]
              /\ Telegram!MarkClosed(f, "cleanup") \/ UNCHANGED <<ctx, tail>>
    BY <1>19 DEF Telegram!CleanupWithdraws
  <2>2. /\ marked' \in [TelegramFlows -> BOOLEAN]
        /\ deadline' \in [TelegramFlows -> {"none", "setup", "now"}]
    BY <2>1, ZenonT(40)
  <2>3. /\ ctx' \in [TelegramFlows -> {"live", "cancelled", "closing", "closed"}]
        /\ tail' \in [TelegramFlows -> {"none", "finish", "cancel", "cleanup", "close"}]
    BY <2>1 DEF Telegram!MarkClosed
  <2>4. QED
    BY <1>19, <2>2, <2>3 DEF Telegram!CleanupWithdraws
<1>20. CASE Telegram!CleanupEnds
  BY <1>20 DEF Telegram!CleanupEnds
<1>21. CASE Telegram!Close
  BY <1>21, ZenonT(40) DEF Telegram!Close, Telegram!Deny
<1>22. CASE Telegram!CloseMarks
  BY <1>22 DEF Telegram!CloseMarks
<1>23. CASE Telegram!CloseFlows
  BY <1>23 DEF Telegram!CloseFlows, Telegram!MarkClosed
<1>24. CASE Telegram!WallMoves
  BY <1>24 DEF Telegram!WallMoves
<1>25. CASE Telegram!DeadlinePasses
  BY <1>25, ZenonT(40) DEF Telegram!DeadlinePasses
<1>26. CASE Telegram!ParentEnds
  BY <1>26, ZenonT(40) DEF Telegram!ParentEnds
<1>27. ASSUME NEW f \in TelegramFlows, Telegram!CloseTail(f) PROVE Telegram!TypeOK'
  BY <1>27 DEF Telegram!CloseTail
<1>28. ASSUME NEW f \in TelegramFlows, Telegram!Unregister(f) PROVE Telegram!TypeOK'
  BY <1>28 DEF Telegram!Unregister, Telegram!Go
<1>29. QED
  BY <1>1, <1>2, <1>3, <1>4, <1>5, <1>6, <1>7, <1>8, <1>9, <1>10, <1>11, <1>12, <1>13,
     <1>14, <1>15, <1>16, <1>17, <1>18, <1>19, <1>20, <1>21, <1>22, <1>23, <1>24, <1>25,
     <1>26, <1>27, <1>28 DEF Telegram!Next, Telegram!FlowGoesOn, Telegram!Cleanup

\* A gateway is attached to a registered flow and closed with it.
LEMMA GatewayStep ==
  ASSUME Telegram!FlowsAssumption, WsInv, Telegram!Next
  PROVE  GatewayInv'
<1> USE DEF WsInv, Telegram!TypeOK, Telegram!Owner, Telegram!Nobody, Telegram!Closed,
        Telegram!CtxDone, GatewayInv, TailInv,
        Telegram!clockVars, Telegram!admissionVars, Telegram!closeVars,
        Telegram!flowVars, Telegram!closingVars, Telegram!streamVars
<1>1. ASSUME NEW f \in TelegramFlows, Telegram!Arrive(f) PROVE GatewayInv'
  BY <1>1 DEF Telegram!Arrive, Telegram!Go, Telegram!DenyIfOver, Telegram!Deny,
     Telegram!Current
<1>2. ASSUME NEW f \in TelegramFlows, Telegram!ReadBegins(f) PROVE GatewayInv'
  BY <1>2 DEF Telegram!ReadBegins, Telegram!Go, Telegram!Free
<1>3. ASSUME NEW f \in TelegramFlows, Telegram!ReadReturns(f) PROVE GatewayInv'
  BY <1>3 DEF Telegram!ReadReturns, Telegram!Go
<1>4. ASSUME NEW f \in TelegramFlows, Telegram!CheckReady(f) PROVE GatewayInv'
  BY <1>4 DEF Telegram!CheckReady, Telegram!Go, Telegram!DenyIfOver, Telegram!Deny,
     Telegram!Current
<1>5. ASSUME NEW f \in TelegramFlows, Telegram!GatewayReturns(f) PROVE GatewayInv'
  BY <1>5 DEF Telegram!GatewayReturns, Telegram!Go
<1>6. ASSUME NEW f \in TelegramFlows, Telegram!Judge(f) PROVE GatewayInv'
  <2>1. CASE sock' = [sock EXCEPT ![f] = "active"] /\ Telegram!Go(f, "active")
             /\ ctx[f] = "live"
    BY <1>6, <2>1 DEF Telegram!Judge, Telegram!Go
  <2>2. CASE sock' = [sock EXCEPT ![f] = IF @ = "held" THEN "closed" ELSE @]
             /\ Telegram!Go(f, "blame")
    BY <1>6, <2>2 DEF Telegram!Judge, Telegram!Go
  <2>3. QED
    BY <1>6, <2>1, <2>2 DEF Telegram!Judge, Telegram!MayAttach
<1>7. ASSUME NEW f \in TelegramFlows, Telegram!Blame(f) PROVE GatewayInv'
  BY <1>7 DEF Telegram!Blame, Telegram!Go, Telegram!DenyIfOver, Telegram!Deny,
     Telegram!Current, Telegram!Free
<1>8. ASSUME NEW f \in TelegramFlows, Telegram!MarkUnavailable(f) PROVE GatewayInv'
  BY <1>8 DEF Telegram!MarkUnavailable, Telegram!Go
<1>9. ASSUME NEW f \in TelegramFlows, Telegram!Fallback(f) PROVE GatewayInv'
  BY <1>9 DEF Telegram!Fallback, Telegram!Go, Telegram!Free
<1>10. ASSUME NEW f \in TelegramFlows, Telegram!Write(f) PROVE GatewayInv'
  BY <1>10 DEF Telegram!Write, Telegram!DenyIfOver, Telegram!Deny, Telegram!Current,
     Telegram!Free
<1>11. ASSUME NEW f \in TelegramFlows, Telegram!GatewayFails(f) PROVE GatewayInv'
  BY <1>11 DEF Telegram!GatewayFails, Telegram!Go
<1>12. ASSUME NEW f \in TelegramFlows, Telegram!StreamEnds(f) PROVE GatewayInv'
  BY <1>12 DEF Telegram!StreamEnds, Telegram!Go
<1>13. ASSUME NEW f \in TelegramFlows, Telegram!Finish(f) PROVE GatewayInv'
  BY <1>13 DEF Telegram!Finish, Telegram!Go, Telegram!MarkClosed
<1>14. ASSUME NEW f \in TelegramFlows, Telegram!Cancel(f) PROVE GatewayInv'
  BY <1>14 DEF Telegram!Cancel
<1>15. ASSUME NEW f \in TelegramFlows, Telegram!CancelCloses(f) PROVE GatewayInv'
  BY <1>15 DEF Telegram!CancelCloses, Telegram!MarkClosed
<1>16. CASE Telegram!Admit
  BY <1>16 DEF Telegram!Admit, Telegram!Current, Telegram!Deny
<1>17. CASE Telegram!Withdraw
  BY <1>17 DEF Telegram!Withdraw, Telegram!Deny
<1>18. CASE Telegram!CleanupCancels
  BY <1>18 DEF Telegram!CleanupCancels
<1>19. CASE Telegram!CleanupWithdraws
  BY <1>19 DEF Telegram!CleanupWithdraws, Telegram!MarkClosed
<1>20. CASE Telegram!CleanupEnds
  BY <1>20 DEF Telegram!CleanupEnds
<1>21. CASE Telegram!Close
  BY <1>21 DEF Telegram!Close, Telegram!Deny
<1>22. CASE Telegram!CloseMarks
  BY <1>22 DEF Telegram!CloseMarks
<1>23. CASE Telegram!CloseFlows
  BY <1>23 DEF Telegram!CloseFlows, Telegram!MarkClosed
<1>24. CASE Telegram!WallMoves
  BY <1>24 DEF Telegram!WallMoves
<1>25. CASE Telegram!DeadlinePasses
  BY <1>25 DEF Telegram!DeadlinePasses
<1>26. CASE Telegram!ParentEnds
  BY <1>26 DEF Telegram!ParentEnds
<1>27. ASSUME NEW f \in TelegramFlows, Telegram!CloseTail(f) PROVE GatewayInv'
  BY <1>27 DEF Telegram!CloseTail
<1>28. ASSUME NEW f \in TelegramFlows, Telegram!Unregister(f) PROVE GatewayInv'
  BY <1>28 DEF Telegram!Unregister, Telegram!Go
<1>29. QED
  BY <1>1, <1>2, <1>3, <1>4, <1>5, <1>6, <1>7, <1>8, <1>9, <1>10, <1>11, <1>12, <1>13,
     <1>14, <1>15, <1>16, <1>17, <1>18, <1>19, <1>20, <1>21, <1>22, <1>23, <1>24, <1>25,
     <1>26, <1>27, <1>28 DEF Telegram!Next, Telegram!FlowGoesOn, Telegram!Cleanup

\* Only a marked flow is being closed, and Close waits for its own closes.
LEMMA TailStep ==
  ASSUME Telegram!FlowsAssumption, WsInv, Telegram!Next
  PROVE  TailInv'
<1> USE DEF WsInv, Telegram!TypeOK, Telegram!Owner, Telegram!Nobody, Telegram!Closed,
        Telegram!CtxDone, TailInv,
        Telegram!clockVars, Telegram!admissionVars, Telegram!closeVars,
        Telegram!flowVars, Telegram!closingVars, Telegram!streamVars
<1>1. ASSUME NEW f \in TelegramFlows, Telegram!Arrive(f) PROVE TailInv'
  BY <1>1 DEF Telegram!Arrive, Telegram!Go, Telegram!DenyIfOver, Telegram!Deny,
     Telegram!Current
<1>2. ASSUME NEW f \in TelegramFlows, Telegram!ReadBegins(f) PROVE TailInv'
  BY <1>2 DEF Telegram!ReadBegins, Telegram!Go, Telegram!Free
<1>3. ASSUME NEW f \in TelegramFlows, Telegram!ReadReturns(f) PROVE TailInv'
  BY <1>3 DEF Telegram!ReadReturns, Telegram!Go
<1>4. ASSUME NEW f \in TelegramFlows, Telegram!CheckReady(f) PROVE TailInv'
  BY <1>4 DEF Telegram!CheckReady, Telegram!Go, Telegram!DenyIfOver, Telegram!Deny,
     Telegram!Current
<1>5. ASSUME NEW f \in TelegramFlows, Telegram!GatewayReturns(f) PROVE TailInv'
  BY <1>5 DEF Telegram!GatewayReturns, Telegram!Go
<1>6. ASSUME NEW f \in TelegramFlows, Telegram!Judge(f) PROVE TailInv'
  BY <1>6 DEF Telegram!Judge, Telegram!Go, Telegram!DenyIfOver, Telegram!Deny,
     Telegram!Current
<1>7. ASSUME NEW f \in TelegramFlows, Telegram!Blame(f) PROVE TailInv'
  BY <1>7 DEF Telegram!Blame, Telegram!Go, Telegram!DenyIfOver, Telegram!Deny,
     Telegram!Current, Telegram!Free
<1>8. ASSUME NEW f \in TelegramFlows, Telegram!MarkUnavailable(f) PROVE TailInv'
  BY <1>8 DEF Telegram!MarkUnavailable, Telegram!Go
<1>9. ASSUME NEW f \in TelegramFlows, Telegram!Fallback(f) PROVE TailInv'
  BY <1>9 DEF Telegram!Fallback, Telegram!Go, Telegram!Free
<1>10. ASSUME NEW f \in TelegramFlows, Telegram!Write(f) PROVE TailInv'
  BY <1>10 DEF Telegram!Write, Telegram!DenyIfOver, Telegram!Deny, Telegram!Current,
     Telegram!Free
<1>11. ASSUME NEW f \in TelegramFlows, Telegram!GatewayFails(f) PROVE TailInv'
  BY <1>11 DEF Telegram!GatewayFails, Telegram!Go
<1>12. ASSUME NEW f \in TelegramFlows, Telegram!StreamEnds(f) PROVE TailInv'
  BY <1>12 DEF Telegram!StreamEnds, Telegram!Go
<1>13. ASSUME NEW f \in TelegramFlows, Telegram!Finish(f) PROVE TailInv'
  BY <1>13 DEF Telegram!Finish, Telegram!Go, Telegram!MarkClosed
<1>14. ASSUME NEW f \in TelegramFlows, Telegram!Cancel(f) PROVE TailInv'
  BY <1>14 DEF Telegram!Cancel
<1>15. ASSUME NEW f \in TelegramFlows, Telegram!CancelCloses(f) PROVE TailInv'
  BY <1>15 DEF Telegram!CancelCloses, Telegram!MarkClosed
<1>16. CASE Telegram!Admit
  BY <1>16 DEF Telegram!Admit, Telegram!Current, Telegram!Deny
<1>17. CASE Telegram!Withdraw
  BY <1>17 DEF Telegram!Withdraw, Telegram!Deny
<1>18. CASE Telegram!CleanupCancels
  BY <1>18 DEF Telegram!CleanupCancels
<1>19. CASE Telegram!CleanupWithdraws
  BY <1>19 DEF Telegram!CleanupWithdraws, Telegram!MarkClosed
<1>20. CASE Telegram!CleanupEnds
  BY <1>20 DEF Telegram!CleanupEnds
<1>21. CASE Telegram!Close
  BY <1>21 DEF Telegram!Close, Telegram!Deny
<1>22. CASE Telegram!CloseMarks
  BY <1>22 DEF Telegram!CloseMarks
<1>23. CASE Telegram!CloseFlows
  BY <1>23 DEF Telegram!CloseFlows, Telegram!MarkClosed, Telegram!Busy
<1>24. CASE Telegram!WallMoves
  BY <1>24 DEF Telegram!WallMoves
<1>25. CASE Telegram!DeadlinePasses
  BY <1>25 DEF Telegram!DeadlinePasses
<1>26. CASE Telegram!ParentEnds
  BY <1>26 DEF Telegram!ParentEnds
<1>27. ASSUME NEW f \in TelegramFlows, Telegram!CloseTail(f) PROVE TailInv'
  BY <1>27 DEF Telegram!CloseTail
<1>28. ASSUME NEW f \in TelegramFlows, Telegram!Unregister(f) PROVE TailInv'
  BY <1>28 DEF Telegram!Unregister, Telegram!Go
<1>29. QED
  BY <1>1, <1>2, <1>3, <1>4, <1>5, <1>6, <1>7, <1>8, <1>9, <1>10, <1>11, <1>12, <1>13,
     <1>14, <1>15, <1>16, <1>17, <1>18, <1>19, <1>20, <1>21, <1>22, <1>23, <1>24, <1>25,
     <1>26, <1>27, <1>28 DEF Telegram!Next, Telegram!FlowGoesOn, Telegram!Cleanup

\* Only the flow itself hands its client to the VPN.
LEMMA TransferStep ==
  ASSUME Telegram!FlowsAssumption, WsInv, Telegram!Next
  PROVE  TransferInv'
<1> USE DEF WsInv, Telegram!TypeOK, Telegram!Owner, Telegram!Nobody, Telegram!Closed,
        Telegram!CtxDone, GatewayInv,
        TransferInv, ClosingInv, Telegram!clockVars, Telegram!admissionVars,
        Telegram!closeVars, Telegram!flowVars, Telegram!closingVars, Telegram!streamVars
<1>1. ASSUME NEW f \in TelegramFlows, Telegram!Arrive(f) PROVE TransferInv'
  BY <1>1 DEF Telegram!Arrive, Telegram!Go, Telegram!DenyIfOver, Telegram!Deny,
     Telegram!Current
<1>2. ASSUME NEW f \in TelegramFlows, Telegram!ReadBegins(f) PROVE TransferInv'
  BY <1>2 DEF Telegram!ReadBegins, Telegram!Go, Telegram!Free
<1>3. ASSUME NEW f \in TelegramFlows, Telegram!ReadReturns(f) PROVE TransferInv'
  BY <1>3 DEF Telegram!ReadReturns, Telegram!Go
<1>4. ASSUME NEW f \in TelegramFlows, Telegram!CheckReady(f) PROVE TransferInv'
  BY <1>4 DEF Telegram!CheckReady, Telegram!Go, Telegram!DenyIfOver, Telegram!Deny,
     Telegram!Current
<1>5. ASSUME NEW f \in TelegramFlows, Telegram!GatewayReturns(f) PROVE TransferInv'
  BY <1>5 DEF Telegram!GatewayReturns, Telegram!Go
<1>6. ASSUME NEW f \in TelegramFlows, Telegram!Judge(f) PROVE TransferInv'
  BY <1>6 DEF Telegram!Judge, Telegram!Go, Telegram!DenyIfOver, Telegram!Deny,
     Telegram!Current, Telegram!MayAttach
<1>7. ASSUME NEW f \in TelegramFlows, Telegram!Blame(f) PROVE TransferInv'
  BY <1>7 DEF Telegram!Blame, Telegram!Go, Telegram!DenyIfOver, Telegram!Deny,
     Telegram!Current, Telegram!Free
<1>8. ASSUME NEW f \in TelegramFlows, Telegram!MarkUnavailable(f) PROVE TransferInv'
  BY <1>8 DEF Telegram!MarkUnavailable, Telegram!Go
<1>9. ASSUME NEW f \in TelegramFlows, Telegram!Fallback(f) PROVE TransferInv'
  <2>1. /\ sock'[f] = "none" /\ UNCHANGED <<closeList, closed>>
        /\ \A g \in TelegramFlows \ {f} : sock'[g] = sock[g]
    BY <1>9 DEF Telegram!Fallback
  <2>2. transferred'[f] <=> ~Telegram!Closed(f)
    BY <1>9, ZenonT(40) DEF Telegram!Fallback
  <2>3. wsPc'[f] \in {"onVPN", "finishing"} /\ (wsPc'[f] = "onVPN" => ~closed /\ ctx[f] = "live")
    BY <1>9 DEF Telegram!Fallback, Telegram!Go
  <2>4. \A g \in TelegramFlows \ {f} : transferred'[g] = transferred[g] /\ wsPc'[g] = wsPc[g]
    BY <1>9 DEF Telegram!Fallback, Telegram!Go
  <2>5. ~closed => closeList = {}
    OBVIOUS
  <2>6. QED
    BY <2>1, <2>2, <2>3, <2>4, <2>5
<1>10. ASSUME NEW f \in TelegramFlows, Telegram!Write(f) PROVE TransferInv'
  BY <1>10 DEF Telegram!Write, Telegram!DenyIfOver, Telegram!Deny, Telegram!Current,
     Telegram!Free
<1>11. ASSUME NEW f \in TelegramFlows, Telegram!GatewayFails(f) PROVE TransferInv'
  BY <1>11 DEF Telegram!GatewayFails, Telegram!Go
<1>12. ASSUME NEW f \in TelegramFlows, Telegram!StreamEnds(f) PROVE TransferInv'
  BY <1>12 DEF Telegram!StreamEnds, Telegram!Go
<1>13. ASSUME NEW f \in TelegramFlows, Telegram!Finish(f) PROVE TransferInv'
  BY <1>13 DEF Telegram!Finish, Telegram!Go, Telegram!MarkClosed
<1>14. ASSUME NEW f \in TelegramFlows, Telegram!Cancel(f) PROVE TransferInv'
  BY <1>14 DEF Telegram!Cancel
<1>15. ASSUME NEW f \in TelegramFlows, Telegram!CancelCloses(f) PROVE TransferInv'
  BY <1>15 DEF Telegram!CancelCloses, Telegram!MarkClosed
<1>16. CASE Telegram!Admit
  BY <1>16 DEF Telegram!Admit, Telegram!Current, Telegram!Deny
<1>17. CASE Telegram!Withdraw
  BY <1>17 DEF Telegram!Withdraw, Telegram!Deny
<1>18. CASE Telegram!CleanupCancels
  BY <1>18 DEF Telegram!CleanupCancels
<1>19. CASE Telegram!CleanupWithdraws
  BY <1>19 DEF Telegram!CleanupWithdraws, Telegram!MarkClosed
<1>20. CASE Telegram!CleanupEnds
  BY <1>20 DEF Telegram!CleanupEnds
<1>21. CASE Telegram!Close
  BY <1>21 DEF Telegram!Close, Telegram!Deny
<1>22. CASE Telegram!CloseMarks
  BY <1>22 DEF Telegram!CloseMarks
<1>23. CASE Telegram!CloseFlows
  BY <1>23 DEF Telegram!CloseFlows, Telegram!MarkClosed
<1>24. CASE Telegram!WallMoves
  BY <1>24 DEF Telegram!WallMoves
<1>25. CASE Telegram!DeadlinePasses
  BY <1>25 DEF Telegram!DeadlinePasses
<1>26. CASE Telegram!ParentEnds
  BY <1>26 DEF Telegram!ParentEnds
<1>27. ASSUME NEW f \in TelegramFlows, Telegram!CloseTail(f) PROVE TransferInv'
  BY <1>27 DEF Telegram!CloseTail
<1>28. ASSUME NEW f \in TelegramFlows, Telegram!Unregister(f) PROVE TransferInv'
  BY <1>28 DEF Telegram!Unregister, Telegram!Go
<1>29. QED
  BY <1>1, <1>2, <1>3, <1>4, <1>5, <1>6, <1>7, <1>8, <1>9, <1>10, <1>11, <1>12, <1>13,
     <1>14, <1>15, <1>16, <1>17, <1>18, <1>19, <1>20, <1>21, <1>22, <1>23, <1>24, <1>25,
     <1>26, <1>27, <1>28 DEF Telegram!Next, Telegram!FlowGoesOn, Telegram!Cleanup

\* A context that is done stays done.
LEMMA AbandonedStep ==
  ASSUME Telegram!FlowsAssumption, WsInv, Telegram!Next
  PROVE  AbandonedInv'
<1> USE DEF WsInv, Telegram!TypeOK, Telegram!Owner, Telegram!Nobody, Telegram!Closed,
        Telegram!CtxDone, GatewayInv,
        AbandonedInv, Telegram!clockVars, Telegram!admissionVars, Telegram!closeVars,
        Telegram!flowVars, Telegram!closingVars, Telegram!streamVars
<1>1. ASSUME NEW f \in TelegramFlows, Telegram!Arrive(f) PROVE AbandonedInv'
  BY <1>1 DEF Telegram!Arrive, Telegram!Go, Telegram!DenyIfOver, Telegram!Deny,
     Telegram!Current
<1>2. ASSUME NEW f \in TelegramFlows, Telegram!ReadBegins(f) PROVE AbandonedInv'
  BY <1>2 DEF Telegram!ReadBegins, Telegram!Go, Telegram!Free
<1>3. ASSUME NEW f \in TelegramFlows, Telegram!ReadReturns(f) PROVE AbandonedInv'
  BY <1>3 DEF Telegram!ReadReturns, Telegram!Go
<1>4. ASSUME NEW f \in TelegramFlows, Telegram!CheckReady(f) PROVE AbandonedInv'
  BY <1>4 DEF Telegram!CheckReady, Telegram!Go, Telegram!DenyIfOver, Telegram!Deny,
     Telegram!Current
<1>5. ASSUME NEW f \in TelegramFlows, Telegram!GatewayReturns(f) PROVE AbandonedInv'
  BY <1>5 DEF Telegram!GatewayReturns, Telegram!Go
<1>6. ASSUME NEW f \in TelegramFlows, Telegram!Judge(f) PROVE AbandonedInv'
  BY <1>6 DEF Telegram!Judge, Telegram!Go, Telegram!DenyIfOver, Telegram!Deny,
     Telegram!Current, Telegram!MayAttach
<1>7. ASSUME NEW f \in TelegramFlows, Telegram!Blame(f) PROVE AbandonedInv'
  BY <1>7 DEF Telegram!Blame, Telegram!Go, Telegram!DenyIfOver, Telegram!Deny,
     Telegram!Current, Telegram!Free
<1>8. ASSUME NEW f \in TelegramFlows, Telegram!MarkUnavailable(f) PROVE AbandonedInv'
  BY <1>8 DEF Telegram!MarkUnavailable, Telegram!Go
<1>9. ASSUME NEW f \in TelegramFlows, Telegram!Fallback(f) PROVE AbandonedInv'
  BY <1>9 DEF Telegram!Fallback, Telegram!Go, Telegram!Free
<1>10. ASSUME NEW f \in TelegramFlows, Telegram!Write(f) PROVE AbandonedInv'
  BY <1>10 DEF Telegram!Write, Telegram!DenyIfOver, Telegram!Deny, Telegram!Current,
     Telegram!Free
<1>11. ASSUME NEW f \in TelegramFlows, Telegram!GatewayFails(f) PROVE AbandonedInv'
  BY <1>11 DEF Telegram!GatewayFails, Telegram!Go
<1>12. ASSUME NEW f \in TelegramFlows, Telegram!StreamEnds(f) PROVE AbandonedInv'
  BY <1>12 DEF Telegram!StreamEnds, Telegram!Go
<1>13. ASSUME NEW f \in TelegramFlows, Telegram!Finish(f) PROVE AbandonedInv'
  BY <1>13 DEF Telegram!Finish, Telegram!Go, Telegram!MarkClosed
<1>14. ASSUME NEW f \in TelegramFlows, Telegram!Cancel(f) PROVE AbandonedInv'
  BY <1>14 DEF Telegram!Cancel
<1>15. ASSUME NEW f \in TelegramFlows, Telegram!CancelCloses(f) PROVE AbandonedInv'
  BY <1>15 DEF Telegram!CancelCloses, Telegram!MarkClosed
<1>16. CASE Telegram!Admit
  BY <1>16 DEF Telegram!Admit, Telegram!Current, Telegram!Deny
<1>17. CASE Telegram!Withdraw
  BY <1>17 DEF Telegram!Withdraw, Telegram!Deny
<1>18. CASE Telegram!CleanupCancels
  BY <1>18 DEF Telegram!CleanupCancels
<1>19. CASE Telegram!CleanupWithdraws
  BY <1>19 DEF Telegram!CleanupWithdraws, Telegram!MarkClosed
<1>20. CASE Telegram!CleanupEnds
  BY <1>20 DEF Telegram!CleanupEnds
<1>21. CASE Telegram!Close
  BY <1>21 DEF Telegram!Close, Telegram!Deny
<1>22. CASE Telegram!CloseMarks
  BY <1>22 DEF Telegram!CloseMarks
<1>23. CASE Telegram!CloseFlows
  BY <1>23 DEF Telegram!CloseFlows, Telegram!MarkClosed
<1>24. CASE Telegram!WallMoves
  BY <1>24 DEF Telegram!WallMoves
<1>25. CASE Telegram!DeadlinePasses
  BY <1>25 DEF Telegram!DeadlinePasses
<1>26. CASE Telegram!ParentEnds
  BY <1>26 DEF Telegram!ParentEnds
<1>27. ASSUME NEW f \in TelegramFlows, Telegram!CloseTail(f) PROVE AbandonedInv'
  BY <1>27 DEF Telegram!CloseTail
<1>28. ASSUME NEW f \in TelegramFlows, Telegram!Unregister(f) PROVE AbandonedInv'
  BY <1>28 DEF Telegram!Unregister, Telegram!Go
<1>29. QED
  BY <1>1, <1>2, <1>3, <1>4, <1>5, <1>6, <1>7, <1>8, <1>9, <1>10, <1>11, <1>12, <1>13,
     <1>14, <1>15, <1>16, <1>17, <1>18, <1>19, <1>20, <1>21, <1>22, <1>23, <1>24, <1>25,
     <1>26, <1>27, <1>28 DEF Telegram!Next, Telegram!FlowGoesOn, Telegram!Cleanup

\* No flow is registered by a closed outbound.
LEMMA ClosingStep ==
  ASSUME Telegram!FlowsAssumption, WsInv, Telegram!Next
  PROVE  ClosingInv'
<1> USE DEF WsInv, Telegram!TypeOK, Telegram!Owner, Telegram!Nobody, Telegram!Closed,
        Telegram!CtxDone, ClosingInv,
        Telegram!clockVars, Telegram!admissionVars, Telegram!closeVars,
        Telegram!flowVars, Telegram!closingVars, Telegram!streamVars
<1>1. ASSUME NEW f \in TelegramFlows, Telegram!Arrive(f) PROVE ClosingInv'
  BY <1>1 DEF Telegram!Arrive, Telegram!Go, Telegram!DenyIfOver, Telegram!Deny,
     Telegram!Current
<1>2. ASSUME NEW f \in TelegramFlows, Telegram!ReadBegins(f) PROVE ClosingInv'
  BY <1>2 DEF Telegram!ReadBegins, Telegram!Go, Telegram!Free
<1>3. ASSUME NEW f \in TelegramFlows, Telegram!ReadReturns(f) PROVE ClosingInv'
  BY <1>3 DEF Telegram!ReadReturns, Telegram!Go
<1>4. ASSUME NEW f \in TelegramFlows, Telegram!CheckReady(f) PROVE ClosingInv'
  BY <1>4 DEF Telegram!CheckReady, Telegram!Go, Telegram!DenyIfOver, Telegram!Deny,
     Telegram!Current
<1>5. ASSUME NEW f \in TelegramFlows, Telegram!GatewayReturns(f) PROVE ClosingInv'
  BY <1>5 DEF Telegram!GatewayReturns, Telegram!Go
<1>6. ASSUME NEW f \in TelegramFlows, Telegram!Judge(f) PROVE ClosingInv'
  BY <1>6 DEF Telegram!Judge, Telegram!Go, Telegram!DenyIfOver, Telegram!Deny,
     Telegram!Current, Telegram!MayAttach
<1>7. ASSUME NEW f \in TelegramFlows, Telegram!Blame(f) PROVE ClosingInv'
  BY <1>7 DEF Telegram!Blame, Telegram!Go, Telegram!DenyIfOver, Telegram!Deny,
     Telegram!Current, Telegram!Free
<1>8. ASSUME NEW f \in TelegramFlows, Telegram!MarkUnavailable(f) PROVE ClosingInv'
  BY <1>8 DEF Telegram!MarkUnavailable, Telegram!Go
<1>9. ASSUME NEW f \in TelegramFlows, Telegram!Fallback(f) PROVE ClosingInv'
  BY <1>9 DEF Telegram!Fallback, Telegram!Go, Telegram!Free
<1>10. ASSUME NEW f \in TelegramFlows, Telegram!Write(f) PROVE ClosingInv'
  BY <1>10 DEF Telegram!Write, Telegram!DenyIfOver, Telegram!Deny, Telegram!Current,
     Telegram!Free
<1>11. ASSUME NEW f \in TelegramFlows, Telegram!GatewayFails(f) PROVE ClosingInv'
  BY <1>11 DEF Telegram!GatewayFails, Telegram!Go
<1>12. ASSUME NEW f \in TelegramFlows, Telegram!StreamEnds(f) PROVE ClosingInv'
  BY <1>12 DEF Telegram!StreamEnds, Telegram!Go
<1>13. ASSUME NEW f \in TelegramFlows, Telegram!Finish(f) PROVE ClosingInv'
  BY <1>13 DEF Telegram!Finish, Telegram!Go, Telegram!MarkClosed
<1>14. ASSUME NEW f \in TelegramFlows, Telegram!Cancel(f) PROVE ClosingInv'
  BY <1>14 DEF Telegram!Cancel
<1>15. ASSUME NEW f \in TelegramFlows, Telegram!CancelCloses(f) PROVE ClosingInv'
  BY <1>15 DEF Telegram!CancelCloses, Telegram!MarkClosed
<1>16. CASE Telegram!Admit
  BY <1>16 DEF Telegram!Admit, Telegram!Current, Telegram!Deny
<1>17. CASE Telegram!Withdraw
  BY <1>17 DEF Telegram!Withdraw, Telegram!Deny
<1>18. CASE Telegram!CleanupCancels
  BY <1>18 DEF Telegram!CleanupCancels
<1>19. CASE Telegram!CleanupWithdraws
  BY <1>19 DEF Telegram!CleanupWithdraws, Telegram!MarkClosed
<1>20. CASE Telegram!CleanupEnds
  BY <1>20 DEF Telegram!CleanupEnds
<1>21. CASE Telegram!Close
  BY <1>21 DEF Telegram!Close, Telegram!Deny
<1>22. CASE Telegram!CloseMarks
  BY <1>22 DEF Telegram!CloseMarks
<1>23. CASE Telegram!CloseFlows
  BY <1>23 DEF Telegram!CloseFlows, Telegram!MarkClosed
<1>24. CASE Telegram!WallMoves
  BY <1>24 DEF Telegram!WallMoves
<1>25. CASE Telegram!DeadlinePasses
  BY <1>25 DEF Telegram!DeadlinePasses
<1>26. CASE Telegram!ParentEnds
  BY <1>26 DEF Telegram!ParentEnds
<1>27. ASSUME NEW f \in TelegramFlows, Telegram!CloseTail(f) PROVE ClosingInv'
  BY <1>27 DEF Telegram!CloseTail
<1>28. ASSUME NEW f \in TelegramFlows, Telegram!Unregister(f) PROVE ClosingInv'
  BY <1>28 DEF Telegram!Unregister, Telegram!Go
<1>29. QED
  BY <1>1, <1>2, <1>3, <1>4, <1>5, <1>6, <1>7, <1>8, <1>9, <1>10, <1>11, <1>12, <1>13,
     <1>14, <1>15, <1>16, <1>17, <1>18, <1>19, <1>20, <1>21, <1>22, <1>23, <1>24, <1>25,
     <1>26, <1>27, <1>28 DEF Telegram!Next, Telegram!FlowGoesOn, Telegram!Cleanup

\* A denial lists every registered flow; only the open admission attaches a gateway.
LEMMA WsStreamsStep ==
  ASSUME Telegram!FlowsAssumption, WsInv, Telegram!Next
  PROVE  Telegram!StreamsEndWithAdmission'
<1> USE DEF WsInv, Telegram!TypeOK, Telegram!Owner, Telegram!Nobody, Telegram!Closed,
        Telegram!CtxDone, GatewayInv,
        TailInv, TransferInv, Telegram!StreamsEndWithAdmission, Telegram!clockVars,
        Telegram!admissionVars, Telegram!closeVars, Telegram!flowVars,
        Telegram!closingVars, Telegram!streamVars
<1>1. ASSUME NEW f \in TelegramFlows, Telegram!Arrive(f)
      PROVE  Telegram!StreamsEndWithAdmission'
  BY <1>1 DEF Telegram!Arrive, Telegram!Go, Telegram!DenyIfOver, Telegram!Deny,
     Telegram!Current
<1>2. ASSUME NEW f \in TelegramFlows, Telegram!ReadBegins(f)
      PROVE  Telegram!StreamsEndWithAdmission'
  BY <1>2 DEF Telegram!ReadBegins, Telegram!Go, Telegram!Free
<1>3. ASSUME NEW f \in TelegramFlows, Telegram!ReadReturns(f)
      PROVE  Telegram!StreamsEndWithAdmission'
  BY <1>3 DEF Telegram!ReadReturns, Telegram!Go
<1>4. ASSUME NEW f \in TelegramFlows, Telegram!CheckReady(f)
      PROVE  Telegram!StreamsEndWithAdmission'
  BY <1>4 DEF Telegram!CheckReady, Telegram!Go, Telegram!DenyIfOver, Telegram!Deny,
     Telegram!Current
<1>5. ASSUME NEW f \in TelegramFlows, Telegram!GatewayReturns(f)
      PROVE  Telegram!StreamsEndWithAdmission'
  BY <1>5 DEF Telegram!GatewayReturns, Telegram!Go
<1>6. ASSUME NEW f \in TelegramFlows, Telegram!Judge(f)
      PROVE  Telegram!StreamsEndWithAdmission'
  BY <1>6 DEF Telegram!Judge, Telegram!Go, Telegram!DenyIfOver, Telegram!Deny,
     Telegram!Current, Telegram!MayAttach
<1>7. ASSUME NEW f \in TelegramFlows, Telegram!Blame(f)
      PROVE  Telegram!StreamsEndWithAdmission'
  BY <1>7 DEF Telegram!Blame, Telegram!Go, Telegram!DenyIfOver, Telegram!Deny,
     Telegram!Current, Telegram!Free
<1>8. ASSUME NEW f \in TelegramFlows, Telegram!MarkUnavailable(f)
      PROVE  Telegram!StreamsEndWithAdmission'
  BY <1>8 DEF Telegram!MarkUnavailable, Telegram!Go
<1>9. ASSUME NEW f \in TelegramFlows, Telegram!Fallback(f)
      PROVE  Telegram!StreamsEndWithAdmission'
  BY <1>9 DEF Telegram!Fallback, Telegram!Go, Telegram!Free
<1>10. ASSUME NEW f \in TelegramFlows, Telegram!Write(f)
       PROVE  Telegram!StreamsEndWithAdmission'
  BY <1>10 DEF Telegram!Write, Telegram!DenyIfOver, Telegram!Deny, Telegram!Current,
     Telegram!Free
<1>11. ASSUME NEW f \in TelegramFlows, Telegram!GatewayFails(f)
       PROVE  Telegram!StreamsEndWithAdmission'
  BY <1>11 DEF Telegram!GatewayFails, Telegram!Go
<1>12. ASSUME NEW f \in TelegramFlows, Telegram!StreamEnds(f)
       PROVE  Telegram!StreamsEndWithAdmission'
  BY <1>12 DEF Telegram!StreamEnds, Telegram!Go
<1>13. ASSUME NEW f \in TelegramFlows, Telegram!Finish(f)
       PROVE  Telegram!StreamsEndWithAdmission'
  BY <1>13 DEF Telegram!Finish, Telegram!Go, Telegram!MarkClosed
<1>14. ASSUME NEW f \in TelegramFlows, Telegram!Cancel(f)
       PROVE  Telegram!StreamsEndWithAdmission'
  BY <1>14 DEF Telegram!Cancel
<1>15. ASSUME NEW f \in TelegramFlows, Telegram!CancelCloses(f)
       PROVE  Telegram!StreamsEndWithAdmission'
  BY <1>15 DEF Telegram!CancelCloses, Telegram!MarkClosed
<1>16. CASE Telegram!Admit
  BY <1>16 DEF Telegram!Admit, Telegram!Current, Telegram!Deny
<1>17. CASE Telegram!Withdraw
  BY <1>17 DEF Telegram!Withdraw, Telegram!Deny
<1>18. CASE Telegram!CleanupCancels
  BY <1>18 DEF Telegram!CleanupCancels
<1>19. CASE Telegram!CleanupWithdraws
  BY <1>19 DEF Telegram!CleanupWithdraws, Telegram!MarkClosed
<1>20. CASE Telegram!CleanupEnds
  BY <1>20 DEF Telegram!CleanupEnds
<1>21. CASE Telegram!Close
  BY <1>21 DEF Telegram!Close, Telegram!Deny
<1>22. CASE Telegram!CloseMarks
  BY <1>22 DEF Telegram!CloseMarks
<1>23. CASE Telegram!CloseFlows
  BY <1>23 DEF Telegram!CloseFlows, Telegram!MarkClosed
<1>24. CASE Telegram!WallMoves
  BY <1>24 DEF Telegram!WallMoves
<1>25. CASE Telegram!DeadlinePasses
  BY <1>25 DEF Telegram!DeadlinePasses
<1>26. CASE Telegram!ParentEnds
  BY <1>26 DEF Telegram!ParentEnds
<1>27. ASSUME NEW f \in TelegramFlows, Telegram!CloseTail(f)
       PROVE  Telegram!StreamsEndWithAdmission'
  BY <1>27 DEF Telegram!CloseTail
<1>28. ASSUME NEW f \in TelegramFlows, Telegram!Unregister(f)
       PROVE  Telegram!StreamsEndWithAdmission'
  BY <1>28 DEF Telegram!Unregister, Telegram!Go
<1>29. QED
  BY <1>1, <1>2, <1>3, <1>4, <1>5, <1>6, <1>7, <1>8, <1>9, <1>10, <1>11, <1>12, <1>13,
     <1>14, <1>15, <1>16, <1>17, <1>18, <1>19, <1>20, <1>21, <1>22, <1>23, <1>24, <1>25,
     <1>26, <1>27, <1>28 DEF Telegram!Next, Telegram!FlowGoesOn, Telegram!Cleanup

LEMMA WsStep ==
  ASSUME Telegram!FlowsAssumption, WsInv, [Telegram!Next]_wsVars
  PROVE  WsInv'
<1>1. CASE Telegram!Next
  <2>1. Telegram!TypeOK' /\ GatewayInv' /\ TailInv' /\ TransferInv'
    BY <1>1, WsTypesStep, GatewayStep, TailStep, TransferStep
  <2>2. AbandonedInv' /\ ClosingInv' /\ Telegram!StreamsEndWithAdmission'
    BY <1>1, AbandonedStep, ClosingStep, WsStreamsStep
  <2>3. QED
    BY <2>1, <2>2 DEF WsInv
<1>2. CASE UNCHANGED wsVars
  BY <1>2 DEF wsVars, WsInv, Telegram!TypeOK, GatewayInv, TailInv, TransferInv,
         AbandonedInv, ClosingInv, Telegram!StreamsEndWithAdmission, Telegram!Owner,
         Telegram!Nobody, Telegram!Closed, Telegram!CtxDone
<1>3. QED
  BY <1>1, <1>2

\* What the invariant says of handed-over flows and of a closed outbound.
LEMMA WsConsequences ==
  WsInv => Telegram!HandedOverClean /\ Telegram!ClosedIsEmpty
  BY DEF WsInv, Telegram!TypeOK, GatewayInv, TailInv, ClosingInv,
         Telegram!HandedOverClean, Telegram!ClosedIsEmpty

\* Payload is committed by a write alone, under the admission it has just asked.
LEMMA PayloadStep ==
  ASSUME WsInv, Telegram!Next, NEW f \in TelegramFlows, payload'[f], ~payload[f]
  PROVE  Telegram!Current /\ admitted /\ ~transferred[f]
<1>1. ASSUME NEW g \in TelegramFlows, Telegram!Write(g)
      PROVE  Telegram!Current /\ admitted /\ ~transferred[f]
  <2>1. g = f /\ Telegram!Current /\ admitted
    BY <1>1 DEF WsInv, Telegram!TypeOK, Telegram!Write
  <2>2. QED
    BY <1>1, <2>1 DEF WsInv, TransferInv, Telegram!Write
<1>2. (~ \E g \in TelegramFlows : Telegram!Write(g)) => UNCHANGED payload
  BY DEF Telegram!Next, Telegram!FlowGoesOn, Telegram!Cleanup, Telegram!flowVars,
     Telegram!closingVars, Telegram!streamVars, Telegram!Arrive, Telegram!ReadBegins, Telegram!ReadReturns,
     Telegram!CheckReady, Telegram!GatewayReturns, Telegram!Judge, Telegram!Blame,
     Telegram!MarkUnavailable, Telegram!Fallback, Telegram!GatewayFails,
     Telegram!StreamEnds, Telegram!Finish, Telegram!Unregister, Telegram!CloseTail,
     Telegram!Cancel, Telegram!CancelCloses,
     Telegram!Admit, Telegram!Withdraw, Telegram!CleanupCancels,
     Telegram!CleanupWithdraws, Telegram!CleanupEnds, Telegram!Close,
     Telegram!CloseMarks, Telegram!CloseFlows, Telegram!WallMoves,
     Telegram!DeadlinePasses, Telegram!ParentEnds
<1>3. QED
  BY <1>1, <1>2

\* The steps that close a flow, and the flows they close.
LEMMA TransferredStep ==
  ASSUME WsInv, Telegram!Next, NEW f \in TelegramFlows, wsPc[f] = "onVPN", ctx[f] = "live"
  PROVE  ~Telegram!Closed(f)'
<1> USE DEF WsInv, Telegram!TypeOK, GatewayInv, TailInv, TransferInv, Telegram!Closed,
        Telegram!CtxDone, Telegram!closingVars
<1>1. ASSUME NEW g \in TelegramFlows,
             \/ Telegram!Finish(g) \/ Telegram!CloseTail(g) \/ Telegram!CancelCloses(g)
             \/ Telegram!Cancel(g)
      PROVE  ~Telegram!Closed(f)'
  BY <1>1 DEF Telegram!Finish, Telegram!CloseTail, Telegram!CancelCloses, Telegram!Cancel,
     Telegram!MarkClosed
<1>2. CASE Telegram!CleanupWithdraws
  BY <1>2 DEF Telegram!CleanupWithdraws, Telegram!MarkClosed
<1>3. CASE Telegram!CloseFlows
  BY <1>3 DEF Telegram!CloseFlows, Telegram!MarkClosed
<1>4. \/ \E g \in TelegramFlows :
            \/ Telegram!Finish(g) \/ Telegram!CloseTail(g) \/ Telegram!CancelCloses(g)
            \/ Telegram!Cancel(g)
      \/ Telegram!CleanupWithdraws \/ Telegram!CloseFlows \/ UNCHANGED ctx
  BY DEF Telegram!Next, Telegram!FlowGoesOn, Telegram!Cleanup, Telegram!flowVars,
     Telegram!closingVars, Telegram!streamVars, Telegram!Arrive, Telegram!ReadBegins, Telegram!ReadReturns,
     Telegram!CheckReady, Telegram!GatewayReturns, Telegram!Judge, Telegram!Blame,
     Telegram!MarkUnavailable, Telegram!Fallback, Telegram!Write, Telegram!GatewayFails,
     Telegram!StreamEnds, Telegram!Unregister, Telegram!Admit, Telegram!Withdraw, Telegram!CleanupCancels,
     Telegram!CleanupEnds, Telegram!Close, Telegram!CloseMarks, Telegram!WallMoves,
     Telegram!DeadlinePasses, Telegram!ParentEnds
<1>5. QED
  BY <1>1, <1>2, <1>3, <1>4

\* The steps that put a path aside.
LEMMA BlameStep ==
  ASSUME WsInv, Telegram!Next, down', ~down
  PROVE  \E f \in TelegramFlows :
            \/ wsPc[f] = "marking" /\ wsPc'[f] # "marking" /\ sock[f] # "aborted"
            \/ wsPc[f] = "active" /\ sock[f] = "active"
<1>1. ASSUME NEW f \in TelegramFlows, Telegram!MarkUnavailable(f)
      PROVE  wsPc[f] = "marking" /\ wsPc'[f] # "marking" /\ sock[f] # "aborted"
  BY <1>1 DEF WsInv, Telegram!TypeOK, AbandonedInv, Telegram!MarkUnavailable, Telegram!Go
<1>2. ASSUME NEW f \in TelegramFlows, Telegram!GatewayFails(f)
      PROVE  wsPc[f] = "active" /\ sock[f] = "active"
  BY <1>2 DEF Telegram!GatewayFails
<1>3. \/ \E f \in TelegramFlows : Telegram!MarkUnavailable(f) \/ Telegram!GatewayFails(f)
      \/ UNCHANGED down
  BY DEF Telegram!Next, Telegram!FlowGoesOn, Telegram!Cleanup, Telegram!Arrive,
     Telegram!ReadBegins, Telegram!ReadReturns, Telegram!CheckReady,
     Telegram!GatewayReturns, Telegram!Judge, Telegram!Blame, Telegram!Fallback,
     Telegram!Write, Telegram!StreamEnds, Telegram!Finish, Telegram!Unregister,
     Telegram!CloseTail, Telegram!Cancel,
     Telegram!CancelCloses, Telegram!Admit, Telegram!Withdraw, Telegram!CleanupCancels,
     Telegram!CleanupWithdraws, Telegram!CleanupEnds, Telegram!Close,
     Telegram!CloseMarks, Telegram!CloseFlows, Telegram!WallMoves,
     Telegram!DeadlinePasses, Telegram!ParentEnds
<1>4. QED
  BY <1>1, <1>2, <1>3

-----------------------------------------------------------------------------
(* Local DPI by itself: any number of holders and flows.                   *)

\* A step of local DPI does what the action properties allow.
SparesVPN(Ho) == \A f \in DpiFlows : dpiSock[f] = "vpn" /\ dpiSock'[f] = "closed" =>
    dpiPc[f] = "finishing" \/ dpiCtx[f] = "cancelled" \/ stop[Ho[f]] # "no"
SparesNew == \A f \in retryList \ retryList' : gen[f] = 2 => dpiSock[f] # "local"
FailsByOwn(Hs, Ho) == \A h \in Hs : admission[h] = "ready" /\ admission'[h] = "failed" =>
    \E f \in DpiFlows : /\ Ho[f] = h /\ gen[f] = id[h] /\ reports[f] # {}
                        /\ used[f] \/ dpiPc[f] = "report"
StaysWithdrawn == \A h \in DOMAIN admission :
    admission[h] = "withdrawn" => admission'[h] = "withdrawn"
AwaitsProof(Ho, K) == \A f \in DpiFlows :
    /\ K[f] # "other" /\ id[Ho[f]] = 1 /\ admission[Ho[f]] = "unpublished"
    /\ dpiPc[f] # dpiPc'[f] /\ dpiPc'[f] \in {"vpn", "onVPN"}
    => ~proofWait[Ho[f]]

LEMMA DpiPromises ==
  ASSUME NEW Hs, NEW Ho, NEW K, Dpi(Hs, Ho, K)!FlowsAssumption, DpiInv(Hs, Ho, K),
         Dpi(Hs, Ho, K)!Next
  PROVE  SparesVPN(Ho) /\ SparesNew /\ FailsByOwn(Hs, Ho) /\ StaysWithdrawn /\ AwaitsProof(Ho, K)
<1>1. SparesVPN(Ho)
  BY VPNStreamsStep DEF SparesVPN
<1>2. SparesNew
  BY RetrySparesStep DEF SparesNew
<1>3. FailsByOwn(Hs, Ho)
  BY FailureStep DEF FailsByOwn
<1>4. StaysWithdrawn
  <2>1. DOMAIN admission = Hs
    BY DEF DpiInv, HolderTypes
  <2>2. QED
    BY <2>1, WithdrawnStep DEF StaysWithdrawn
<1>5. AwaitsProof(Ho, K)
  BY EscapeStep DEF AwaitsProof
<1>6. QED
  BY <1>1, <1>2, <1>3, <1>4, <1>5

LEMMA LocalDpiInvariance ==
  ASSUME NEW CONSTANT Hs, NEW CONSTANT Ho, NEW CONSTANT K, Dpi(Hs, Ho, K)!FlowsAssumption
  PROVE  Dpi(Hs, Ho, K)!Spec => []DpiInv(Hs, Ho, K)
<1>1. Dpi(Hs, Ho, K)!Init => DpiInv(Hs, Ho, K)
  BY DpiInit
<1>2. DpiInv(Hs, Ho, K) /\ [Dpi(Hs, Ho, K)!Next]_(Dpi(Hs, Ho, K)!vars) => DpiInv(Hs, Ho, K)'
  <2>1. UNCHANGED Dpi(Hs, Ho, K)!vars => UNCHANGED dpiVars
    BY DEF dpiVars, Dpi!vars, Dpi!holderVars, Dpi!ownerVars, Dpi!flowVars, Dpi!streamVars
  <2>2. QED
    BY <2>1, DpiStep
<1>3. QED
  BY <1>1, <1>2, PTL DEF Dpi!Spec

(* Any number of holders, flows of any kind: whoever withdraws, replaces   *)
(* or closes a holder has every open stream of the old admission on its    *)
(* list, and when Close has returned no stream is attached and no dial is  *)
(* live.                                                                   *)
THEOREM LocalDpiStreamsEnd ==
  ASSUME NEW CONSTANT Hs, NEW CONSTANT Ho, NEW CONSTANT K, Dpi(Hs, Ho, K)!FlowsAssumption
  PROVE  Dpi(Hs, Ho, K)!Spec => [](/\ Dpi(Hs, Ho, K)!TypeOK /\ Dpi(Hs, Ho, K)!OldStreamsClose
                                   /\ Dpi(Hs, Ho, K)!ClosedIsEmpty)
<1>1. DpiInv(Hs, Ho, K) => /\ Dpi(Hs, Ho, K)!TypeOK /\ Dpi(Hs, Ho, K)!OldStreamsClose
                           /\ Dpi(Hs, Ho, K)!ClosedIsEmpty
  BY DpiTyped, DpiClosedIsEmpty DEF DpiInv
<1>2. QED
  BY <1>1, LocalDpiInvariance, PTL

(* And for any number of holders and flows, the steps of local DPI: its    *)
(* endings spare the VPN and the new generation, a holder fails by its own *)
(* used flows, a withdrawal is final, and no flow escapes the first proof. *)
THEOREM LocalDpiSteps ==
  ASSUME NEW CONSTANT Hs, NEW CONSTANT Ho, NEW CONSTANT K, Dpi(Hs, Ho, K)!FlowsAssumption
  PROVE  Dpi(Hs, Ho, K)!Spec =>
            /\ Dpi(Hs, Ho, K)!VPNStreamsStay /\ Dpi(Hs, Ho, K)!RetrySparesNew
            /\ Dpi(Hs, Ho, K)!FailureIsOwn /\ Dpi(Hs, Ho, K)!WithdrawnForGood
            /\ Dpi(Hs, Ho, K)!NoEscapeBeforeProof
<1>1. DpiInv(Hs, Ho, K) /\ [Dpi(Hs, Ho, K)!Next]_(Dpi(Hs, Ho, K)!vars) =>
         /\ [SparesVPN(Ho)]_(Dpi(Hs, Ho, K)!vars) /\ [SparesNew]_(Dpi(Hs, Ho, K)!vars)
         /\ [FailsByOwn(Hs, Ho)]_(Dpi(Hs, Ho, K)!vars)
         /\ [StaysWithdrawn]_(Dpi(Hs, Ho, K)!vars)
         /\ [AwaitsProof(Ho, K)]_(Dpi(Hs, Ho, K)!vars)
  BY DpiPromises
<1>2. QED
  BY <1>1, LocalDpiInvariance, PTL DEF Dpi!Spec, Dpi!VPNStreamsStay, Dpi!RetrySparesNew,
     Dpi!FailureIsOwn, Dpi!WithdrawnForGood, Dpi!NoEscapeBeforeProof, Dpi!Closed,
     SparesVPN, SparesNew, FailsByOwn, StaysWithdrawn, AwaitsProof

-----------------------------------------------------------------------------
(* The offloads of MCOffload.                                              *)

offloadVars == <<part, vars, graph, dpiVars, wsVars>>

\* The local DPI of the part that moves, and the Telegram outbound.
OffloadInv ==
    /\ part = "quic" => DpiInv({h1}, OneHolder, BesideQuic)
    /\ part = "batch" => DpiInv({h1, h2}, OneHolder, TwoTCP)
    /\ part \notin {"quic", "batch"} => DpiInv({h1}, OneHolder, TwoTCP)
    /\ WsInv

LEMMA OffloadInitial == OffloadInit => OffloadInv
<1> SUFFICES ASSUME OffloadInit PROVE OffloadInv
  OBVIOUS
<1>1. WsInv
  BY WsInit DEF OffloadInit
<1>2. CASE part = "batch"
  BY <1>1, <1>2, DpiInit, OffloadConstants DEF OffloadInit, OffloadInv
<1>3. CASE part # "batch"
  <2>1. Dpi({h1}, OneHolder, TwoTCP)!Init
    BY <1>3 DEF OffloadInit
  <2>2. Dpi({h1}, OneHolder, BesideQuic)!Init
    BY <2>1 DEF Dpi!Init
  <2>3. DpiInv({h1}, OneHolder, TwoTCP) /\ DpiInv({h1}, OneHolder, BesideQuic)
    BY <2>1, <2>2, DpiInit, OffloadConstants
  <2>4. QED
    BY <1>1, <1>3, <2>3 DEF OffloadInv
<1>4. QED
  BY <1>2, <1>3

\* Every step of the composition is a step of each part, or leaves it alone.
LEMMA OffloadParts ==
  ASSUME [OffloadNext]_offloadVars
  PROVE  /\ part' = part
         /\ [Next]_vars
         /\ [Telegram!Next]_wsVars
         /\ part = "quic" => [Dpi({h1}, OneHolder, BesideQuic)!Next]_dpiVars
         /\ part = "batch" => [Dpi({h1, h2}, OneHolder, TwoTCP)!Next]_dpiVars
         /\ part \notin {"quic", "batch"} => [Dpi({h1}, OneHolder, TwoTCP)!Next]_dpiVars
  BY DEF OffloadNext, offloadVars

LEMMA OffloadInductive == OffloadInv /\ [OffloadNext]_offloadVars => OffloadInv'
<1> SUFFICES ASSUME OffloadInv, [OffloadNext]_offloadVars PROVE OffloadInv'
  OBVIOUS
<1>1. WsInv'
  BY OffloadParts, OffloadConstants, WsStep DEF OffloadInv
<1>2. CASE part = "quic"
  <2>1. DpiInv({h1}, OneHolder, BesideQuic)'
    BY <1>2, OffloadParts, OffloadConstants, DpiStep DEF OffloadInv
  <2>2. QED
    BY <1>1, <1>2, <2>1, OffloadParts DEF OffloadInv
<1>3. CASE part = "batch"
  <2>1. DpiInv({h1, h2}, OneHolder, TwoTCP)'
    BY <1>3, OffloadParts, OffloadConstants, DpiStep DEF OffloadInv
  <2>2. QED
    BY <1>1, <1>3, <2>1, OffloadParts DEF OffloadInv
<1>4. CASE part \notin {"quic", "batch"}
  <2>1. DpiInv({h1}, OneHolder, TwoTCP)'
    BY <1>4, OffloadParts, OffloadConstants, DpiStep DEF OffloadInv
  <2>2. QED
    BY <1>1, <1>4, <2>1, OffloadParts DEF OffloadInv
<1>5. QED
  BY <1>2, <1>3, <1>4

LEMMA OffloadInvariance == OffloadSpec => []OffloadInv
BY OffloadInitial, OffloadInductive, PTL DEF OffloadSpec, offloadVars

LEMMA OffloadPrepares == OffloadSpec => Spec
<1>1. OffloadInit => Init
  BY DEF OffloadInit
<1>2. [OffloadNext]_offloadVars => [Next]_vars
  BY OffloadParts
<1>3. QED
  BY <1>1, <1>2, PTL DEF OffloadSpec, Spec, offloadVars

(* The variables of every offload keep their types, whichever part moves;  *)
(* generations stop at the second, so the retry of local DPI is used once, *)
(* a transferred Telegram flow is no longer registered and payload needs   *)
(* an attached gateway.                                                    *)
THEOREM OffloadTypes == OffloadSpec => []TypesOK
<1>1. OffloadInv => Telegram!TypeOK
  BY DEF OffloadInv, WsInv
<1>2. OffloadInv /\ part \in {"tcp", "quic"} => Dpi({h1}, OneHolder, TwoTCP)!TypeOK
  <2>1. DpiInv({h1}, OneHolder, BesideQuic) => Dpi({h1}, OneHolder, TwoTCP)!TypeOK
    BY DEF DpiInv, HolderTypes, ListTypes, FlowTypes, Dpi!TypeOK, Dpi!Generations
  <2>2. QED
    BY <2>1, DpiTyped DEF OffloadInv
<1>3. OffloadInv /\ part = "batch" => Dpi({h1, h2}, OneHolder, TwoTCP)!TypeOK
  BY DpiTyped DEF OffloadInv
<1>4. OffloadInv /\ TypeOK => TypesOK
  BY <1>1, <1>2, <1>3 DEF TypesOK
<1>5. QED
  BY <1>4, OffloadInvariance, OffloadPrepares, PreparationTypes, PTL

(* No stream of an offload survives its admission: a withdrawal, a retry,  *)
(* a denial or a Close that has released the mutex still has every open    *)
(* stream on its list, whatever was dialled or attached in between, or the *)
(* stream is being closed.  When Close has returned, local DPI has none    *)
(* attached, and Telegram only gateways that somebody else has marked and  *)
(* is about to close.                                                      *)
THEOREM StreamsEnd == OffloadSpec => []StreamsEndWithAdmission
<1>1. OffloadInv => Telegram!StreamsEndWithAdmission /\ Telegram!ClosedIsEmpty
  BY WsConsequences DEF OffloadInv, WsInv
<1>2. OffloadInv => Dpi({h1}, OneHolder, TwoTCP)!OldStreamsClose
  BY DEF OffloadInv, DpiInv, Dpi!OldStreamsClose
<1>3. OffloadInv /\ part = "quic" => Dpi({h1}, OneHolder, BesideQuic)!ClosedIsEmpty
  BY OffloadConstants, DpiClosedIsEmpty DEF OffloadInv
<1>4. OffloadInv /\ part # "quic" => Dpi({h1}, OneHolder, TwoTCP)!ClosedIsEmpty
  <2>1. Dpi({h1, h2}, OneHolder, TwoTCP)!ClosedIsEmpty
        => Dpi({h1}, OneHolder, TwoTCP)!ClosedIsEmpty
    BY DEF Dpi!ClosedIsEmpty
  <2>2. QED
    BY <2>1, OffloadConstants, DpiClosedIsEmpty DEF OffloadInv
<1>5. OffloadInv => StreamsEndWithAdmission
  BY <1>1, <1>2, <1>3, <1>4 DEF StreamsEndWithAdmission
<1>6. QED
  BY <1>5, OffloadInvariance, PTL

\* What a step of any part keeps of the promises of local DPI.
LEMMA OffloadPromises ==
  ASSUME OffloadInv, [OffloadNext]_offloadVars
  PROVE  \/ UNCHANGED dpiVars
         \/ /\ SparesVPN(OneHolder) /\ SparesNew /\ FailsByOwn({h1}, OneHolder)
            /\ StaysWithdrawn /\ AwaitsProof(OneHolder, TwoTCP)
<1>1. CASE part = "quic" /\ Dpi({h1}, OneHolder, BesideQuic)!Next
  <2>1. /\ SparesVPN(OneHolder) /\ SparesNew /\ FailsByOwn({h1}, OneHolder)
        /\ StaysWithdrawn /\ AwaitsProof(OneHolder, BesideQuic)
    BY <1>1, OffloadConstants, DpiPromises DEF OffloadInv
  <2>2. AwaitsProof(OneHolder, TwoTCP)
    BY <2>1 DEF AwaitsProof, TwoTCP, BesideQuic
  <2>3. QED
    BY <2>1, <2>2
<1>2. CASE part = "batch" /\ Dpi({h1, h2}, OneHolder, TwoTCP)!Next
  <2>1. /\ SparesVPN(OneHolder) /\ SparesNew /\ FailsByOwn({h1, h2}, OneHolder)
        /\ StaysWithdrawn /\ AwaitsProof(OneHolder, TwoTCP)
    BY <1>2, OffloadConstants, DpiPromises DEF OffloadInv
  <2>2. QED
    BY <2>1 DEF FailsByOwn
<1>3. CASE part \notin {"quic", "batch"} /\ Dpi({h1}, OneHolder, TwoTCP)!Next
  BY <1>3, OffloadConstants, DpiPromises DEF OffloadInv
<1>4. QED
  BY <1>1, <1>2, <1>3, OffloadParts

(* Endings and failures concern their own: a withdrawal, retry or denial   *)
(* leaves the streams of the VPN and those of the holder just made alone,  *)
(* a holder fails by a used flow of its own generation, a path is put      *)
(* aside for what it did itself, and a flow is handed over without a       *)
(* deadline.                                                               *)
THEOREM EndingsSpare == OffloadSpec => EndingsSpareOthers
<1> DEFINE Stays == \A f \in TelegramFlows : wsPc[f] = "onVPN" /\ ctx[f] = "live" =>
                       ~Telegram!Closed(f)'
           Earned == down' /\ ~down =>
                       \E f \in TelegramFlows :
                          \/ wsPc[f] = "marking" /\ wsPc'[f] # "marking" /\ sock[f] # "aborted"
                          \/ wsPc[f] = "active" /\ sock[f] = "active"
<1>1. OffloadInv /\ [OffloadNext]_offloadVars =>
         /\ [SparesVPN(OneHolder)]_(OneDpi!vars)
         /\ [SparesNew]_(OneDpi!vars)
         /\ [FailsByOwn({h1}, OneHolder)]_(OneDpi!vars)
  <2>1. UNCHANGED dpiVars => UNCHANGED OneDpi!vars
    BY DEF dpiVars, OneDpi!vars, OneDpi!holderVars, OneDpi!ownerVars, OneDpi!flowVars,
           OneDpi!streamVars
  <2>2. QED
    BY <2>1, OffloadPromises
<1>2. OffloadInv /\ [OffloadNext]_offloadVars =>
         [Stays]_(Telegram!vars) /\ [Earned]_(Telegram!vars)
  <2>1. UNCHANGED wsVars => UNCHANGED Telegram!vars
    BY DEF wsVars, Telegram!vars, Telegram!clockVars, Telegram!admissionVars,
       Telegram!closeVars, Telegram!flowVars, Telegram!closingVars, Telegram!streamVars
  <2>2. WsInv /\ Telegram!Next => Stays /\ Earned
    BY TransferredStep, BlameStep
  <2>3. QED
    BY <2>1, <2>2, OffloadParts DEF OffloadInv
<1>3. OffloadInv => Telegram!HandedOverClean
  BY WsConsequences DEF OffloadInv
<1>4. QED
  BY <1>1, <1>2, <1>3, OffloadInvariance, PTL DEF OffloadSpec, offloadVars,
     EndingsSpareOthers, OneDpi!VPNStreamsStay, OneDpi!RetrySparesNew, OneDpi!FailureIsOwn,
     OneDpi!Closed, SparesVPN, SparesNew, FailsByOwn, Telegram!TransferredStays,
     Telegram!BlameIsEarned

(* Nothing passes outside of its admission: a flow does not escape to the  *)
(* VPN before the first proof or its deadline, no withdrawn holder is      *)
(* published again, and payload is committed under an open admission on a  *)
(* flow the VPN does not own.                                              *)
THEOREM NothingPasses == OffloadSpec => NothingOutOfAdmission
<1> DEFINE Late == \A f \in TelegramFlows : payload'[f] /\ ~payload[f] =>
                      Telegram!Current /\ admitted /\ ~transferred[f]
<1>1. OffloadInv /\ [OffloadNext]_offloadVars =>
         /\ [AwaitsProof(OneHolder, TwoTCP)]_(OneDpi!vars)
         /\ [StaysWithdrawn]_(OneDpi!vars)
  <2>1. UNCHANGED dpiVars => UNCHANGED OneDpi!vars
    BY DEF dpiVars, OneDpi!vars, OneDpi!holderVars, OneDpi!ownerVars, OneDpi!flowVars,
           OneDpi!streamVars
  <2>2. QED
    BY <2>1, OffloadPromises
<1>2. OffloadInv /\ [OffloadNext]_offloadVars => [Late]_(Telegram!vars)
  <2>1. UNCHANGED wsVars => UNCHANGED Telegram!vars
    BY DEF wsVars, Telegram!vars, Telegram!clockVars, Telegram!admissionVars,
       Telegram!closeVars, Telegram!flowVars, Telegram!closingVars, Telegram!streamVars
  <2>2. WsInv /\ Telegram!Next => Late
    BY PayloadStep
  <2>3. QED
    BY <2>1, <2>2, OffloadParts DEF OffloadInv
<1>3. QED
  BY <1>1, <1>2, OffloadInvariance, PTL DEF OffloadSpec, offloadVars,
     NothingOutOfAdmission, OneDpi!NoEscapeBeforeProof, OneDpi!WithdrawnForGood, AwaitsProof,
     StaysWithdrawn, Telegram!NoLatePayload
=============================================================================
