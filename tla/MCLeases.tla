------------------------------ MODULE MCLeases ------------------------------
(***************************************************************************)
(* TLC instances of the outbounds that live on a lease: the ATS outbound,  *)
(* the Smart Access outbound, its relay circuit breaker and the group that *)
(* selects among such outbounds.  They share no variable; `part` names the *)
(* one whose steps a behaviour takes.  "smart" and "wall" are the same     *)
(* outbound under a wall clock that runs straight and one that is stepped. *)
(* The flows of every outbound and the probes of the group are the same    *)
(* two model values, which the symmetry of a run exchanges.                *)
(***************************************************************************)
EXTENDS ATSLeaseGate, FiniteSets, Sequences, TLC

CONSTANTS
    Parts,                                             \* those a run explores
    SmartFlows, Leases, First, MaxConcurrent, MaxLeases, NoLease,
    RelayFlows, Relays, FailureThreshold, MaxAttempts, MaxNew, MaxEpoch,
    Members, Probers, MaxGen, MaxStages,
    MaxRestrictions, MaxTroubles,                      \* bounds, see below
    f1, f2, l1, l2, l3

VARIABLES
    part,
    lease, leases, smartClosed, hRevoked, hTerminate, expired, smartRevoked,
    terminated, failure, age, smartFlows, auth, smartPc, smartActive, smartSock,
    smartAttached, smartFclosed, smartQueue, smartTail,
    admitting, attempts, preferred, failures, open, probing, epoch, relayPc,
    visited, ticket, answer, cancelled,
    memberAdmits, gen, spare, windows, resolver, selected, dnsFailed, guard,
    readiness, probePc, mine, ctx, owner

Smart == INSTANCE SmartAccessGate WITH
    WallSteps <- FALSE, Flows <- SmartFlows, closed <- smartClosed,
    revoked <- smartRevoked, flows <- smartFlows, pc <- smartPc,
    active <- smartActive, sock <- smartSock, attached <- smartAttached,
    fclosed <- smartFclosed, queue <- smartQueue, tail <- smartTail

Wall == INSTANCE SmartAccessGate WITH
    WallSteps <- TRUE, Flows <- SmartFlows, closed <- smartClosed,
    revoked <- smartRevoked, flows <- smartFlows, pc <- smartPc,
    active <- smartActive, sock <- smartSock, attached <- smartAttached,
    fclosed <- smartFclosed, queue <- smartQueue, tail <- smartTail

Relay == INSTANCE RelayConnect WITH Flows <- RelayFlows, pc <- relayPc
Group == INSTANCE ServiceGroup WITH admits <- memberAdmits, pc <- probePc

smartVars == <<lease, leases, smartClosed, hRevoked, hTerminate, expired,
               smartRevoked, terminated, failure, age, smartFlows, auth, smartPc,
               smartActive, smartSock, smartAttached, smartFclosed, smartQueue,
               smartTail>>
relayVars == <<admitting, attempts, preferred, failures, open, probing, epoch,
               relayPc, visited, ticket, answer, cancelled>>
groupVars == <<memberAdmits, gen, spare, windows, resolver, selected, dnsFailed,
               guard, readiness, probePc, mine, ctx, owner>>

ASSUME LeaseConstants ==
    /\ Smart!SmartAccessAssumption /\ Wall!SmartAccessAssumption
    /\ Relay!RelayConnectAssumption /\ Group!ServiceGroupAssumption

\* A part that does not move begins in one of its initial states.
LeasesInit ==
    /\ part \in Parts /\ Init /\ Smart!Init /\ Relay!Init /\ Group!Init
    /\ part # "ats" => wall = Issued
    /\ part \notin {"smart", "wall"} => age[First] = 0

LeasesNext ==
    /\ UNCHANGED part
    /\ \/ part = "ats" /\ Next /\ UNCHANGED <<smartVars, relayVars, groupVars>>
       \/ part = "smart" /\ Smart!Next /\ UNCHANGED <<vars, relayVars, groupVars>>
       \/ part = "wall" /\ Wall!Next /\ UNCHANGED <<vars, relayVars, groupVars>>
       \/ part = "relay" /\ Relay!Next /\ UNCHANGED <<vars, smartVars, groupVars>>
       \/ part = "group" /\ Group!Next /\ UNCHANGED <<vars, smartVars, relayVars>>

LeasesSpec ==
    LeasesInit /\ [][LeasesNext]_<<part, vars, smartVars, relayVars, groupVars>>

\* The fairness of the three modules; the ATS refinement needs dials that obey
\* their context besides. No fair action of a part is enabled before the part
\* has taken a step.
LeasesFairSpec ==
    /\ LeasesSpec /\ Fairness /\ Smart!Fairness /\ Relay!Fairness
    /\ \A f \in Flows : WF_vars(UpstreamObeys(f)) /\ WF_vars(DialFailed(f))

-----------------------------------------------------------------------------
(* Bounds.                                                                 *)

One(flag) == IF flag THEN 1 ELSE 0

\* Bound: restrictions of the Smart Access outbound in force together.
FewRestrictions ==
    One(smartClosed) + One(hRevoked) + Cardinality(smartRevoked)
      + Cardinality(terminated)
      + Cardinality({l \in Leases : failure[l] # "none"}) <= MaxRestrictions

\* Bound: two flows see one renewal and one lease run down, a single flow two;
\* under a stepped wall clock there is one flow and one renewal.
FewRenewals ==
    LET two == \A f \in SmartFlows : smartPc[f] # "idle"
    IN  /\ two \/ part = "wall" => lease # l3
        /\ part = "wall" => ~two
        /\ two => Cardinality({l \in Leases : age[l] > 0}) <= 1

\* Bound: how much of the surroundings of the group is amiss at a time.
FewTroubles ==
    Cardinality({m \in Group!Member : windows[m] # "current"})
      + Cardinality({m \in Group!Member : ~spare[m]})
      + Cardinality({m \in Group!Member : ~memberAdmits[m]})
      + Cardinality({m \in Group!Member : gen[m] > 0})
      + Cardinality({p \in Probers : ctx[p] # "live"})
      + Cardinality(Group!Member \ resolver) + One(~owner) <= MaxTroubles

Bounds == FewRestrictions /\ FewRenewals /\ FewTroubles

-----------------------------------------------------------------------------
(* The properties of the parts; their modules say what each name means.    *)

\* Every variable of the part that moves has its type. The Smart Access outbound
\* has no more flows than its concurrency quota and retains no more leases than
\* its inventory holds; the relay dials no more often than its own quota allows.
TypesOK ==
    /\ TypeOK
    /\ part \in {"smart", "wall"} => Smart!TypeOK /\ Smart!QuotasKept
    /\ part = "relay" => Relay!TypeOK
    /\ part = "group" => Group!TypeOK

\* SmartAccess: a revocation reaches what is its own. Every open relay socket is
\* with a registered flow, its dial or a close under way; a revocation picks no
\* flow of another lease, a drain spares the connections that passed their final
\* admission, and (while the wall clock runs straight) every flow's lease can
\* still be named in a revocation.
RevocationIsExact ==
    part \in {"smart", "wall"} =>
      /\ Smart!SocketOwned
      /\ Smart!RevocationStaysWithLease /\ Smart!DrainSparesActive
      /\ part = "smart" => Smart!FlowsStayRevocable

\* SmartAccess: a failure retires only the lease that admitted the connection.
FailureStaysWithLease == Smart!FailureStaysWithLease

smartGate == Smart!Gate!gateVars

\* SmartAccess: whatever the wall clock does, the outbound takes no step that
\* the abstract gates of its leases do not. (A lease may then be refused long
\* before it has run down, so this is the safety half of the claim below.)
SmartImplementsSafeGate ==
    Smart!Gate!Init /\ [][(part \in {"smart", "wall"}) => Smart!Gate!Next]_smartGate

\* ATSLease and SmartAccess: each is a gate for each of its leases, departures
\* the gates insist on included.
LeasesImplementGate == ImplementsLeaseGate /\ Smart!ImplementsLeaseGate

\* What a flow holds comes back: the sockets of a terminated ATS lease close, a
\* closed Smart Access flow frees its slot of the quota, and a half-open dial
\* its relay.
ResourcesReturn ==
    TerminatedSocketsClose /\ Smart!QuotaReturns /\ Relay!ProbeReturns

\* RelayConnect: `probing` is set exactly while a dial holds the probe, and an
\* opened breaker lets one half-open dial through at a time.
OneProbe == part = "relay" => Relay!ProbingIsHeld /\ Relay!OneProbe

\* RelayConnect: a late success neither closes a breaker nor gets a socket.
LateSuccessIsRefused == Relay!LateSuccessIsRefused

\* ServiceGroup: a receipt that says pass was earned by its own probe and is
\* about the member selected now, whose resolver has not failed; once the guard
\* has closed none says pass again.
ReceiptIsTrue ==
    /\ [](part = "group" =>
            Group!PassIsEarned /\ Group!EvidenceHolds /\ Group!FailedResolverStaysOut)
    /\ Group!GuardIsFinal

-----------------------------------------------------------------------------
Symmetry == Permutations({f1, f2})
=============================================================================
