------------------------------- MODULE MCHost -------------------------------
(***************************************************************************)
(* TLC instances of what hosts drive besides the core's own lifecycle: the *)
(* Linux daemon (LinuxDaemon) and the candidate probe.  The two share no   *)
(* variable, so an invariant or a fairness condition of one never depends  *)
(* on the steps of the other: `part` names the one whose steps a behaviour *)
(* takes, and the other stays as it begins.                                *)
(***************************************************************************)
EXTENDS LinuxDaemon, TLC

CONSTANTS Calls, Ids, IdOf, Cancels, NoCall, c1, c2, id1, k1

VARIABLES
    part,
    registry, probePc, probeCtx, interrupted, probeWatcher, closer, instance,
    kind, frozen, target, touched

Candidate == INSTANCE CandidateProbe WITH
    None <- NoCall, pc <- probePc, ctx <- probeCtx, watcher <- probeWatcher

probeVars == <<registry, probePc, probeCtx, interrupted, probeWatcher, closer,
               instance, kind, frozen, target, touched>>

ASSUME CandidateConstants == Candidate!CandidateProbeAssumption

HostInit == part \in {"daemon", "probe"} /\ Init /\ Candidate!Init

HostNext ==
    /\ UNCHANGED part
    /\ \/ part = "daemon" /\ Next /\ UNCHANGED probeVars
       \/ part = "probe" /\ Candidate!Next /\ UNCHANGED vars

HostSpec == HostInit /\ [][HostNext]_<<part, vars, probeVars>>

\* The fairness of LinuxDaemon, for a daemon that was started at all; no fair
\* action of a candidate probe is enabled before it is called.
HostFairSpec ==
    /\ HostSpec
    /\ WF_vars(part = "daemon" /\ Serve)
    /\ SF_vars(part = "daemon" /\ PromotionLock)
    /\ WF_vars(part = "daemon" /\ Watch)
    /\ WF_vars(part = "daemon" /\ Tick)
    /\ Candidate!Fairness

-----------------------------------------------------------------------------
(* The properties of the parts; their modules say what each name means.    *)

\* LinuxDaemon and CandidateProbe: every variable has its type.
TypesOK == TypeOK /\ Candidate!TypeOK

\* LinuxDaemon and CandidateProbe: no start is reported after its deadline, an
\* attempt ends at its deadline or its lease's limit, and every probe returns.
DeadlinesKept ==
    NoLateStart /\ ExpiryStops /\ LeaseLimitStops /\ Candidate!ProbeReturns

\* CandidateProbe: a frozen verdict is final, the identifier is registered while
\* its call runs, and no goroutine, instance or callback outlives the call.
VerdictIsLast ==
    /\ []Candidate!NothingOutlivesCall /\ []Candidate!RegistryHonest
    /\ Candidate!VerdictIsFinal

\* CandidateProbe: a cancellation reaches the call it was aimed at.
CancelFindsItsCall == Candidate!CancelFindsItsCall

-----------------------------------------------------------------------------
(* Values of the constants.                                                *)

\* Both calls of the candidate probe use one identifier.
SameId == [c \in {c1, c2} |-> id1]

\* A handful of lines linuxd may write, with a foreign digest, a foreign
\* lease, a deadline that lies in the future and long lines among them.
Line(action) ==
    [action |-> action, match |-> TRUE, deadline |-> [from |-> 0, until |-> 1],
     lease |-> TRUE, remaining |-> 2, bytes |-> 400]

Bound(from, until) ==
    [Line("start_with_identity") EXCEPT !.deadline = [from |-> from, until |-> until]]

Lines ==
    {Line(x) : x \in {"start", "stop", "health", "promote_ats_lease",
                      "revoke_ats_lease", "malformed"}}
    \cup {Bound(0, 1), Bound(0, 2), Bound(1, 2), Bound(1, 1)}
    \cup {[Line("promote_ats_lease") EXCEPT !.lease = FALSE],
          [Line("promote_ats_lease") EXCEPT !.remaining = 1],
          [Line("promote_ats_lease") EXCEPT !.match = FALSE],
          [Bound(0, 2) EXCEPT !.match = FALSE],
          [Line("revoke_ats_lease") EXCEPT !.match = FALSE]}
    \cup {[Line("health") EXCEPT !.bytes = n] : n \in {1023, 1024}}
=============================================================================
