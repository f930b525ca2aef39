---------------------------- MODULE SmartAccess -----------------------------
(***************************************************************************)
(* The relay outbound of engine/sing-box/protocol/pokrov/smartaccess: one  *)
(* Outbound whose authority is renewed from lease to lease while flows of  *)
(* older leases live on. A lease keeps its own window and its own latches, *)
(* and a flow keeps the lease that admitted it.                            *)
(*                                                                         *)
(* newConnection of a flow asks for admission three times (before it       *)
(* registers, before it dials, after it has its relay socket), each time   *)
(* under h.mu, and is interrupted by revocations, renewals, the timer of   *)
(* its lease and its own cancellation in between. flow.Close marks the     *)
(* flow under the flow's mutex and releases everything afterwards. A wait  *)
(* that ends (ClientHello, dial) and what its goroutine does next, up to   *)
(* the next lock it releases, are one step.                                *)
(*                                                                         *)
(* The monotonic clock is an age of each lease: 0 in its window for new    *)
(* flows, 1 past it, 2 past its active deadline. The wall clock may have   *)
(* been stepped, so with WallSteps a comparison with it may say anything.  *)
(* The per-minute quota may refuse at any time (RelayConnect has it in     *)
(* full), and reads and writes repeat the tests ATSLease models.           *)
(***************************************************************************)
EXTENDS Naturals, FiniteSets

CONSTANTS
    Flows,          \* connections the router may hand over
    Leases,         \* the lease identities a host may bring
    First,          \* the lease the outbound is built with
    MaxConcurrent,  \* h.maxConcurrent
    MaxLeases,      \* retained identities; 256 in the code
    WallSteps,      \* TRUE: the wall clock may be stepped
    NoLease

SmartAccessAssumption ==
    /\ First \in Leases /\ NoLease \notin Leases
    /\ MaxConcurrent \in Nat /\ MaxLeases \in Nat \ {0}
    /\ WallSteps \in BOOLEAN

VARIABLES
    lease, leases,                        \* h.lease, h.leases
    closed, hRevoked, hTerminate,         \* flags of the outbound
    expired, revoked, terminated,         \* latches of the leases
    failure,                              \* probeFailure of each lease
    age,                                  \* how far each lease has run down
    flows,      \* h.flows
    auth,       \* flow.authorization
    pc,         \* the goroutine of newConnection
    active,     \* flows that passed the final admission
    sock,       \* the relay socket of each flow
    attached,   \* flows whose flow.remote is set
    fclosed,    \* flows with flow.closed set
    queue,      \* flows a revocation has picked and not yet closed
    tail        \* closed flows that still have to release everything

outbound == <<lease, leases, closed, hRevoked, hTerminate>>
latches == <<revoked, terminated, failure>>
vars == <<lease, leases, closed, hRevoked, hTerminate, expired, revoked,
          terminated, failure, age, flows, auth, pc, active, sock, attached,
          fclosed, queue, tail>>

PCs == {"idle", "hello", "dial", "bind", "final", "using", "done"}

-----------------------------------------------------------------------------
WallReads == IF WallSteps THEN BOOLEAN ELSE {FALSE}

\* admitsLeaseLocked first latches a window that is over, or that the wall
\* clock (out) puts outside, and then tests every latch.
Latched(l, out) == IF out \/ age[l] > 0 THEN expired \cup {l} ELSE expired

Admits(l, out) ==
    /\ ~closed /\ ~hRevoked
    /\ l \notin revoked /\ l \notin Latched(l, out)
    /\ failure[l] = "none"

GoTo(f, where) == pc' = [pc EXCEPT ![f] = where]

Init ==
    /\ lease = First /\ leases = {First}
    /\ closed = FALSE /\ hRevoked = FALSE /\ hTerminate = FALSE
    /\ \E a \in 0 .. 2 :
          /\ age = [l \in Leases |-> IF l = First THEN a ELSE 0]
          /\ expired = IF a > 0 THEN {First} ELSE {}
    /\ revoked = {} /\ terminated = {}
    /\ failure = [l \in Leases |-> "none"]
    /\ flows = {} /\ active = {} /\ attached = {} /\ fclosed = {}
    /\ auth = [f \in Flows |-> NoLease]
    /\ pc = [f \in Flows |-> "idle"]
    /\ sock = [f \in Flows |-> "none"]
    /\ queue = {} /\ tail = {}

-----------------------------------------------------------------------------
(* flow.Close, in two halves.                                              *)

MarkClosed(f) ==
    /\ fclosed' = fclosed \cup {f}
    /\ tail' = IF f \in fclosed THEN tail ELSE tail \cup {f}

\* Mutant: the quota slot is not given back.
BugCloseKeepsSlot(f) ==
    /\ f \in tail
    /\ tail' = tail \ {f}
    /\ sock' = [sock EXCEPT ![f] = IF f \in attached THEN "closed" ELSE @]
    /\ UNCHANGED <<outbound, latches, expired, age, flows, auth, pc, active,
                   attached, fclosed, queue>>

\* Cancel the dial, close both ends and give the quota slot back.
CloseTail(f) ==
    /\ f \in tail
    /\ tail' = tail \ {f}
    /\ sock' = [sock EXCEPT ![f] = IF f \in attached THEN "closed" ELSE @]
    /\ flows' = flows \ {f}
    /\ UNCHANGED <<outbound, latches, expired, age, auth, pc, active, attached,
                   fclosed, queue>>

\* The timer armed at registration; it is stopped by the first close.
FlowTimer(f) ==
    /\ f \in flows \ fclosed /\ age[auth[f]] = 2
    /\ MarkClosed(f)
    /\ UNCHANGED <<outbound, latches, expired, age, flows, auth, pc, active,
                   sock, attached, queue>>

RevokeCloses(f) ==
    /\ f \in queue
    /\ queue' = queue \ {f}
    /\ MarkClosed(f)
    /\ UNCHANGED <<outbound, latches, expired, age, flows, auth, pc, active,
                   sock, attached>>

-----------------------------------------------------------------------------
(* newConnection.                                                          *)

\* Mutant: the flow is registered without asking the latches of its lease.
BugBegin(f) ==
    /\ pc[f] = "idle"
    /\ ~closed /\ ~hRevoked /\ Cardinality(flows) < MaxConcurrent
    /\ flows' = flows \cup {f}
    /\ auth' = [auth EXCEPT ![f] = lease]
    /\ GoTo(f, "hello")
    /\ UNCHANGED <<outbound, latches, expired, age, active, sock, attached,
                   fclosed, queue, tail>>

\* Mutant: the quota is tested for being exceeded, not for being used up.
BugBeginOverQuota(f) ==
    /\ pc[f] = "idle"
    /\ \E out \in WallReads :
          /\ expired' = Latched(lease, out)
          /\ \/ /\ Admits(lease, out) /\ Cardinality(flows) <= MaxConcurrent
                /\ flows' = flows \cup {f}
                /\ auth' = [auth EXCEPT ![f] = lease]
                /\ GoTo(f, "hello")
             \/ /\ GoTo(f, "done")
                /\ UNCHANGED <<flows, auth>>
    /\ UNCHANGED <<outbound, latches, age, active, sock, attached, fclosed,
                   queue, tail>>

Begin(f) ==
    /\ pc[f] = "idle"
    /\ \E out \in WallReads :
          /\ expired' = Latched(lease, out)
          /\ \/ /\ Admits(lease, out) /\ Cardinality(flows) < MaxConcurrent
                /\ flows' = flows \cup {f}
                /\ auth' = [auth EXCEPT ![f] = lease]
                /\ GoTo(f, "hello")
             \/ /\ GoTo(f, "done")
                /\ UNCHANGED <<flows, auth>>
    /\ UNCHANGED <<outbound, latches, age, active, sock, attached, fclosed,
                   queue, tail>>

\* readClientHello ends with a refusal, a closed flow or a passed deadline.
HelloFails(f) ==
    /\ pc[f] = "hello"
    /\ MarkClosed(f)
    /\ GoTo(f, "done")
    /\ UNCHANGED <<outbound, latches, expired, age, flows, auth, active, sock,
                   attached, queue>>

\* Mutant: the failure is charged to whatever lease is current.
BugRecordProbeFailure(f) ==
    /\ pc[f] = "hello" /\ f \notin fclosed
    /\ failure' = [failure EXCEPT ![lease] = "tls"]
    /\ MarkClosed(f)
    /\ GoTo(f, "done")
    /\ UNCHANGED <<outbound, revoked, terminated, expired, age, flows, auth,
                   active, sock, attached, queue>>

\* It ends with an encrypted name: recordProbeFailure retires the lease, but
\* only if it is the current one and still admits.
RecordProbeFailure(f) ==
    /\ pc[f] = "hello" /\ f \notin fclosed
    /\ \/ /\ lease # auth[f]
          /\ UNCHANGED <<failure, expired>>
       \/ /\ lease = auth[f]
          /\ \E out \in WallReads :
                /\ expired' = Latched(lease, out)
                /\ failure' = IF Admits(lease, out)
                              THEN [failure EXCEPT ![lease] = "tls"] ELSE failure
    /\ MarkClosed(f)
    /\ GoTo(f, "done")
    /\ UNCHANGED <<outbound, revoked, terminated, age, flows, auth, active,
                   sock, attached, queue>>

\* Admission for the second and third time; a refusal closes the flow.
AskAgain(f, where) ==
    \E out \in WallReads :
        /\ expired' = Latched(auth[f], out)
        /\ \/ /\ Admits(auth[f], out)
              /\ GoTo(f, where)
              /\ UNCHANGED <<fclosed, tail>>
           \/ /\ ~Admits(auth[f], out)
              /\ MarkClosed(f)
              /\ GoTo(f, "done")

\* It ends with a name in scope, and the lease still admits.
Recheck(f) ==
    /\ pc[f] = "hello" /\ f \notin fclosed
    /\ AskAgain(f, "dial")
    /\ UNCHANGED <<outbound, latches, age, flows, auth, active, sock, attached,
                   queue>>

\* connectRelay answers. A socket that comes when the context is already
\* cancelled is closed there; one that comes just before is handed over.
Dial(f) ==
    /\ pc[f] = "dial"
    /\ \/ /\ f \notin fclosed \/ f \in tail
          /\ sock' = [sock EXCEPT ![f] = "open"]
          /\ GoTo(f, "bind")
          /\ UNCHANGED <<fclosed, tail>>
       \/ /\ MarkClosed(f)
          /\ GoTo(f, "done")
          /\ UNCHANGED sock
    /\ UNCHANGED <<outbound, latches, expired, age, flows, auth, active,
                   attached, queue>>

SetRemote(f) ==
    /\ pc[f] = "bind"
    /\ \/ /\ f \notin fclosed
          /\ attached' = attached \cup {f}
          /\ GoTo(f, "final")
          /\ UNCHANGED sock
       \/ /\ f \in fclosed
          /\ sock' = [sock EXCEPT ![f] = "closed"]
          /\ GoTo(f, "done")
          /\ UNCHANGED attached
    /\ UNCHANGED <<outbound, latches, expired, age, flows, auth, active,
                   fclosed, queue, tail>>

\* Mutant: the lease is not asked again once the relay is connected.
BugFinalAdmission(f) ==
    /\ pc[f] = "final"
    /\ active' = active \cup {f}
    /\ GoTo(f, "using")
    /\ UNCHANGED <<outbound, latches, expired, age, flows, auth, sock,
                   attached, fclosed, queue, tail>>

FinalAdmission(f) ==
    /\ pc[f] = "final"
    /\ AskAgain(f, "using")
    /\ active' = IF pc'[f] = "using" THEN active \cup {f} ELSE active
    /\ UNCHANGED <<outbound, latches, age, flows, auth, sock, attached, queue>>

\* The copy ends, or a read or write finds the lease over by either clock.
CopyEnds(f) ==
    /\ pc[f] = "using"
    /\ MarkClosed(f)
    /\ GoTo(f, "done")
    /\ UNCHANGED <<outbound, latches, expired, age, flows, auth, active, sock,
                   attached, queue>>

-----------------------------------------------------------------------------
(* The host.                                                               *)

\* A termination picks every flow, a drain those still in their handshake.
Picked(from, terminate) == IF terminate THEN from ELSE from \ active

Revoke(terminate) ==
    /\ hRevoked' = TRUE
    /\ hTerminate' = (hTerminate \/ terminate)
    /\ queue' = queue \cup Picked(flows, terminate)
    /\ UNCHANGED <<lease, leases, closed, latches, expired, age, flows, auth,
                   pc, active, sock, attached, fclosed, tail>>

RevokeLease(l, terminate) ==
    /\ l \in leases
    /\ revoked' = revoked \cup {l}
    /\ terminated' = IF terminate THEN terminated \cup {l} ELSE terminated
    /\ queue' = queue \cup Picked({f \in flows : auth[f] = l}, terminate)
    /\ UNCHANGED <<outbound, failure, expired, age, flows, auth, pc, active,
                   sock, attached, fclosed, tail>>

Close ==
    /\ closed' = TRUE /\ hTerminate' = TRUE
    /\ queue' = queue \cup flows
    /\ UNCHANGED <<lease, leases, hRevoked, latches, expired, age, flows, auth,
                   pc, active, sock, attached, fclosed, tail>>

\* The part of DNSFailed of the service group that concerns this outbound.
DNSFailed ==
    /\ \E out \in WallReads :
          /\ expired' = Latched(lease, out)
          /\ failure' = IF Admits(lease, out)
                        THEN [failure EXCEPT ![lease] = "dns"] ELSE failure
    /\ UNCHANGED <<outbound, revoked, terminated, age, flows, auth, pc, active,
                   sock, attached, fclosed, queue, tail>>

\* Mutant: identities are forgotten with their window for new flows.
BugPruned(over) == {l \in leases : l = lease \/ (age[l] < 1 /\ l \notin over)}

\* Identities whose active window is over by either clock are forgotten.
Pruned(over) == {l \in leases : l = lease \/ (age[l] < 2 /\ l \notin over)}

\* RenewLease, with h.mu held throughout. The history is pruned even when the
\* inventory is full, the expiry cannot be retained or the lease ran out
\* while it was being written.
RenewLease(next) ==
    /\ ~closed /\ ~hRevoked /\ lease \notin revoked
    /\ next \notin leases /\ age[next] = 0
    /\ \A f \in Flows : auth[f] # next
    /\ \E over \in IF WallSteps THEN SUBSET leases ELSE {{}} :
          \/ /\ Cardinality(Pruned(over)) < MaxLeases
             /\ leases' = Pruned(over) \cup {next}
             /\ lease' = next
          \/ /\ leases' = Pruned(over)
             /\ UNCHANGED lease
    /\ UNCHANGED <<closed, hRevoked, hTerminate, latches, expired, age, flows,
                   auth, pc, active, sock, attached, fclosed, queue, tail>>

TimePasses(l) ==
    /\ l \in leases \cup {auth[f] : f \in Flows}
    /\ age[l] < 2
    /\ age' = [age EXCEPT ![l] = @ + 1]
    /\ UNCHANGED <<outbound, latches, expired, flows, auth, pc, active, sock,
                   attached, fclosed, queue, tail>>

-----------------------------------------------------------------------------
FlowStep(f) ==
    \/ Begin(f) \/ HelloFails(f) \/ RecordProbeFailure(f) \/ Recheck(f)
    \/ Dial(f) \/ SetRemote(f) \/ FinalAdmission(f) \/ CopyEnds(f)
    \/ FlowTimer(f) \/ RevokeCloses(f) \/ CloseTail(f)

Next ==
    \/ \E f \in Flows : FlowStep(f)
    \/ \E t \in BOOLEAN : Revoke(t) \/ (\E l \in Leases : RevokeLease(l, t))
    \/ Close \/ DNSFailed
    \/ \E l \in Leases : RenewLease(l) \/ TimePasses(l)

\* The read deadline, the context and the timers of the runtime end a
\* handshake that is closed or out of time; what the goroutine does between
\* its waits it does. Nothing obliges a healthy relay, user or host.
Stalled(f) == f \in fclosed \ tail \/ (auth[f] # NoLease /\ age[auth[f]] > 0)

Fairness ==
    \A f \in Flows :
        /\ WF_vars(Stalled(f) /\ (HelloFails(f) \/ Dial(f)))
        /\ WF_vars(SetRemote(f) \/ FinalAdmission(f))
        /\ WF_vars(FlowTimer(f)) /\ WF_vars(RevokeCloses(f))
        /\ WF_vars(CloseTail(f))

Spec == Init /\ [][Next]_vars
FairSpec == Spec /\ Fairness

-----------------------------------------------------------------------------
(* Properties.                                                             *)

\* Every variable has its type; the current lease is among those retained.
TypeOK ==
    /\ lease \in leases /\ leases \subseteq Leases
    /\ closed \in BOOLEAN /\ hRevoked \in BOOLEAN /\ hTerminate \in BOOLEAN
    /\ expired \subseteq Leases /\ revoked \subseteq Leases
    /\ terminated \subseteq Leases
    /\ failure \in [Leases -> {"none", "tls", "dns"}]
    /\ age \in [Leases -> 0 .. 2]
    /\ flows \subseteq Flows /\ active \subseteq Flows
    /\ attached \subseteq Flows /\ fclosed \subseteq Flows
    /\ queue \subseteq Flows /\ tail \subseteq Flows
    /\ auth \in [Flows -> Leases \cup {NoLease}]
    /\ pc \in [Flows -> PCs]
    /\ sock \in [Flows -> {"none", "open", "closed"}]

\* No more flows are registered together than the quota allows, a slot being
\* free only when a close has given it back (outbound.go:300), and a long run of
\* renewals retains no more identities than the inventory holds (outbound.go:208).
QuotasKept ==
    Cardinality(flows) <= MaxConcurrent /\ Cardinality(leases) <= MaxLeases

\* An open relay socket is in the hands of its dial, of a registered flow that
\* a revocation will find, or of a close under way.
SocketOwned ==
    \A f \in Flows : sock[f] = "open" =>
        pc[f] = "bind" \/ (f \in attached /\ f \in flows \ (fclosed \ tail))

\* A drain never ends a connection that passed its final admission: an active
\* flow is picked only when its lease or the whole outbound is terminated, and
\* a drain that met the flow in its handshake keeps it from becoming active.
DrainSparesActive ==
    \A f \in queue \cap active : hTerminate \/ auth[f] \in terminated

\* A revocation of one lease picks no flow of another one.
RevocationStaysWithLease ==
    \A f \in queue : closed \/ hRevoked \/ auth[f] \in revoked

\* While a flow holds quota and its lease is not over, the host can still
\* name that lease in a revocation, however many renewals came after it.
FlowsStayRevocable ==
    \A f \in flows \ fclosed : auth[f] \in leases \/ age[auth[f]] = 2

\* A connection failure retires only the lease that admitted the connection,
\* and only while that lease is the current one.
FailureStaysWithLease ==
    [][\A l \in Leases : failure[l] # "tls" /\ failure'[l] = "tls" =>
         /\ l = lease
         /\ \E f \in Flows : pc[f] = "hello" /\ pc'[f] = "done" /\ auth[f] = l]_vars

\* A closed flow gives its slot of the concurrency quota back.
QuotaReturns == \A f \in Flows : f \in fclosed ~> f \notin flows

=============================================================================
