--------------------------- MODULE CandidateProbe ---------------------------
(***************************************************************************)
(* ProbeCandidate and CancelCandidateProbe (v2/hcore/candidate_probe.go).  *)
(* A call registers under the identifier the host chose, starts a watcher  *)
(* that polls the host's interruption callback, builds a temporary Box,    *)
(* starts a closer that closes it when the context dies, and probes. Its   *)
(* deferred functions then freeze the verdict, join both goroutines, close *)
(* the instance and unregister, in that order, while cancellations by      *)
(* identifier, the interruption and the deadline keep arriving.            *)
(*                                                                         *)
(* Verdicts are classes of FailureKind: "hard" is a real TLS, HTTP or data *)
(* failure, "soft" one that has the shape of a cancellation (its cause is  *)
(* timeout, cancelled or closed, or the error is that of the context).     *)
(***************************************************************************)
EXTENDS Naturals

CONSTANTS
    Calls,       \* calls of ProbeCandidate, all with valid arguments
    Ids,         \* identifiers
    IdOf,        \* the identifier of each call
    Cancels,     \* calls of CancelCandidateProbe
    None

CandidateProbeAssumption == IdOf \in [Calls -> Ids] /\ None \notin Calls

VARIABLES
    registry,      \* candidateProbes.calls
    pc,            \* of each ProbeCandidate
    ctx,           \* its context: live, cancelled, deadline
    interrupted,   \* the host's callback says so
    watcher,       \* none, polling, stopping, done
    closer,        \* none, waiting, closing, stopping, done
    instance,      \* none, running, closed
    kind, frozen,  \* result.FailureKind, finished
    target,        \* the call a cancel has looked up
    touched        \* calls whose callback was polled after they returned

calls == <<pc, kind, frozen>>
vars == <<registry, calls, ctx, interrupted, watcher, closer, instance,
          target, touched>>

GoTo(c, where) == pc' = [pc EXCEPT ![c] = where]
Returned(c) == pc[c] \in {"returned", "duplicate"}
\* Between its registration and the removal of it.
Registered(c) == pc[c] \notin {"new", "returned", "duplicate"}

Init ==
    /\ registry = [i \in Ids |-> None]
    /\ pc = [c \in Calls |-> "new"] /\ ctx = [c \in Calls |-> "live"]
    /\ interrupted = {} /\ touched = {}
    /\ watcher = [c \in Calls |-> "none"]
    /\ closer = [c \in Calls |-> "none"]
    /\ instance = [c \in Calls |-> "none"]
    /\ kind = [c \in Calls |-> "invalid_request"]
    /\ frozen = [c \in Calls |-> FALSE]
    /\ target = [k \in Cancels |-> None]

\* cancel(): the first error of a context stays.
Cancelled(c) == [ctx EXCEPT ![c] = IF @ = "live" THEN "cancelled" ELSE @]

-----------------------------------------------------------------------------
(* ProbeCandidate, up to its verdict.                                      *)

Fail(c, where, verdict) ==
    GoTo(c, where) /\ kind' = [kind EXCEPT ![c] = verdict]

Register(c) ==
    /\ pc[c] = "new"
    /\ IF registry[IdOf[c]] # None
       THEN Fail(c, "duplicate", "duplicate_probe") /\ UNCHANGED registry
       ELSE /\ GoTo(c, "poll")
            /\ registry' = [registry EXCEPT ![IdOf[c]] = c]
            /\ UNCHANGED kind
    /\ UNCHANGED <<frozen, ctx, interrupted, watcher, closer, instance,
                   target, touched>>

\* The interruption is asked once before the watcher starts.
FirstPoll(c) ==
    /\ pc[c] = "poll"
    /\ ctx' = IF c \in interrupted THEN Cancelled(c) ELSE ctx
    /\ watcher' = [watcher EXCEPT ![c] = "polling"]
    /\ GoTo(c, "build")
    /\ UNCHANGED <<registry, kind, frozen, interrupted, closer, instance,
                   target, touched>>

\* A dead context ends the call at once; parsing and box.New may fail, with
\* the error of the context or another one.
Build(c) ==
    /\ pc[c] = "build"
    /\ \/ /\ ctx[c] # "live"
          /\ GoTo(c, "stop_watcher")
          /\ UNCHANGED <<kind, instance>>
       \/ /\ ctx[c] = "live"
          /\ \/ /\ \E verdict \in {"invalid_profile", "soft"} :
                      Fail(c, "stop_watcher", verdict)
                /\ UNCHANGED instance
             \/ /\ GoTo(c, "start")
                /\ instance' = [instance EXCEPT ![c] = "running"]
                /\ UNCHANGED kind
    /\ UNCHANGED <<registry, frozen, ctx, interrupted, watcher, closer, target,
                   touched>>

\* instance.Start; the closer is started only after it.
Start(c) ==
    /\ pc[c] = "start"
    /\ \/ /\ \E verdict \in {"start_failed", "soft"} : Fail(c, "freeze", verdict)
          /\ UNCHANGED closer
       \/ /\ GoTo(c, "probe")
          /\ closer' = [closer EXCEPT ![c] = "waiting"]
          /\ UNCHANGED kind
    /\ UNCHANGED <<registry, frozen, ctx, interrupted, watcher, instance,
                   target, touched>>

\* The protected leaf is selected and the owned targets are asked.
Probe(c) ==
    /\ pc[c] = "probe"
    /\ \E verdict \in {"success", "hard", "soft", "invalid_profile"} :
          Fail(c, "freeze", verdict)
    /\ UNCHANGED <<registry, frozen, ctx, interrupted, watcher, closer,
                   instance, target, touched>>

-----------------------------------------------------------------------------
(* Its deferred functions.                                                 *)

\* Mutant: the verdict is looked at again at every finish.
BugVerdict(c) ==
    IF ctx[c] # "live" /\ kind[c] \in {"invalid_request", "soft"}
    THEN IF ctx[c] = "deadline" THEN "timeout" ELSE "cancelled" ELSE kind[c]

\* finish: an unfinished setup and a cancellation-shaped failure inherit the
\* state of the context, the first time it is called.
Verdict(c) ==
    IF ~frozen[c] /\ ctx[c] # "live" /\ kind[c] \in {"invalid_request", "soft"}
    THEN IF ctx[c] = "deadline" THEN "timeout" ELSE "cancelled" ELSE kind[c]

Finish(c) ==
    /\ kind' = [kind EXCEPT ![c] = Verdict(c)]
    /\ frozen' = [frozen EXCEPT ![c] = TRUE]

Freeze(c) ==
    /\ pc[c] = "freeze"
    /\ Finish(c)
    /\ closer' = [closer EXCEPT ![c] = IF @ = "waiting" THEN "stopping" ELSE @]
    /\ GoTo(c, "join_closer")
    /\ UNCHANGED <<registry, ctx, interrupted, watcher, instance, target, touched>>

JoinCloser(c) ==
    /\ pc[c] = "join_closer" /\ closer[c] \in {"none", "done"}
    /\ GoTo(c, "close")
    /\ UNCHANGED <<registry, kind, frozen, ctx, interrupted, watcher, closer,
                   instance, target, touched>>

\* closeInstance through the Once.
CloseInstance(c) ==
    /\ pc[c] = "close"
    /\ instance' = [instance EXCEPT ![c] = "closed"]
    /\ GoTo(c, "stop_watcher")
    /\ UNCHANGED <<registry, kind, frozen, ctx, interrupted, watcher, closer,
                   target, touched>>

StopWatcher(c) ==
    /\ pc[c] = "stop_watcher"
    /\ Finish(c)
    /\ watcher' = [watcher EXCEPT ![c] = IF @ = "polling" THEN "stopping" ELSE @]
    /\ GoTo(c, "join_watcher")
    /\ UNCHANGED <<registry, ctx, interrupted, closer, instance, target, touched>>

JoinWatcher(c) ==
    /\ pc[c] = "join_watcher" /\ watcher[c] = "done"
    /\ GoTo(c, "unregister")
    /\ UNCHANGED <<registry, kind, frozen, ctx, interrupted, watcher, closer,
                   instance, target, touched>>

\* The registration is removed by its identifier; then the deferred cancel.
Unregister(c) ==
    /\ pc[c] = "unregister"
    /\ registry' = [registry EXCEPT ![IdOf[c]] = None]
    /\ ctx' = Cancelled(c)
    /\ GoTo(c, "returned")
    /\ UNCHANGED <<kind, frozen, interrupted, watcher, closer, instance, target,
                   touched>>

-----------------------------------------------------------------------------
(* The goroutines of a call.                                               *)

\* The ticker and watchStop may be ready together: select takes either.
WatcherPolls(c) ==
    /\ watcher[c] \in {"polling", "stopping"}
    /\ touched' = IF Returned(c) THEN touched \cup {c} ELSE touched
    /\ IF c \in interrupted
       THEN ctx' = Cancelled(c) /\ watcher' = [watcher EXCEPT ![c] = "done"]
       ELSE UNCHANGED <<ctx, watcher>>
    /\ UNCHANGED <<registry, calls, interrupted, closer, instance, target>>

WatcherEnds(c) ==
    /\ \/ watcher[c] = "stopping"
       \/ watcher[c] = "polling" /\ ctx[c] # "live"
    /\ watcher' = [watcher EXCEPT ![c] = "done"]
    /\ UNCHANGED <<registry, calls, ctx, interrupted, closer, instance, target,
                   touched>>

\* The context is done: the closer closes the instance (and takes its time).
CloserWakes(c) ==
    /\ closer[c] \in {"waiting", "stopping"} /\ ctx[c] # "live"
    /\ closer' = [closer EXCEPT ![c] = "closing"]
    /\ UNCHANGED <<registry, calls, ctx, interrupted, watcher, instance, target,
                   touched>>

CloserCloses(c) ==
    /\ closer[c] = "closing"
    /\ instance' = [instance EXCEPT ![c] = "closed"]
    /\ closer' = [closer EXCEPT ![c] = "done"]
    /\ UNCHANGED <<registry, calls, ctx, interrupted, watcher, target, touched>>

CloserStops(c) ==
    /\ closer[c] = "stopping"
    /\ closer' = [closer EXCEPT ![c] = "done"]
    /\ UNCHANGED <<registry, calls, ctx, interrupted, watcher, instance, target,
                   touched>>

-----------------------------------------------------------------------------
(* The host and the clock.                                                 *)

Interrupt(c) ==
    /\ c \notin interrupted /\ ~Returned(c)
    /\ interrupted' = interrupted \cup {c}
    /\ UNCHANGED <<registry, calls, ctx, watcher, closer, instance, target,
                   touched>>

Timeout(c) ==
    /\ Registered(c) /\ ctx[c] = "live"
    /\ ctx' = [ctx EXCEPT ![c] = "deadline"]
    /\ UNCHANGED <<registry, calls, interrupted, watcher, closer, instance,
                   target, touched>>

\* CancelCandidateProbe looks the call up under the lock and cancels it after.
LookUp(k, id) ==
    /\ target[k] = None /\ registry[id] # None
    /\ target' = [target EXCEPT ![k] = registry[id]]
    /\ UNCHANGED <<registry, calls, ctx, interrupted, watcher, closer, instance,
                   touched>>

\* Mutant: the identifier is looked up again when the call is cancelled.
BugCancel(k) ==
    /\ target[k] # None
    /\ ctx' = IF registry[IdOf[target[k]]] = None THEN ctx
              ELSE Cancelled(registry[IdOf[target[k]]])
    /\ target' = [target EXCEPT ![k] = None]
    /\ UNCHANGED <<registry, calls, interrupted, watcher, closer, instance,
                   touched>>

Cancel(k) ==
    /\ target[k] # None
    /\ ctx' = Cancelled(target[k])
    /\ target' = [target EXCEPT ![k] = None]
    /\ UNCHANGED <<registry, calls, interrupted, watcher, closer, instance,
                   touched>>

CallStep(c) ==
    \/ Register(c) \/ FirstPoll(c) \/ Build(c) \/ Start(c) \/ Probe(c)
    \/ Freeze(c) \/ JoinCloser(c) \/ CloseInstance(c) \/ StopWatcher(c)
    \/ JoinWatcher(c) \/ Unregister(c)

Next ==
    \/ \E c \in Calls :
          \/ CallStep(c) \/ WatcherPolls(c) \/ WatcherEnds(c) \/ CloserWakes(c)
          \/ CloserCloses(c) \/ CloserStops(c) \/ Interrupt(c) \/ Timeout(c)
    \/ \E k \in Cancels : Cancel(k) \/ \E id \in Ids : LookUp(k, id)

Spec == Init /\ [][Next]_vars

\* The deadline comes; with a dead context the setup and the probe return;
\* goroutines that are runnable run, and Close of an instance returns.
Fairness ==
    /\ \A c \in Calls :
          /\ WF_vars(Timeout(c))
          /\ WF_vars(FirstPoll(c)) /\ WF_vars(Build(c))
          /\ WF_vars(ctx[c] # "live" /\ (Start(c) \/ Probe(c)))
          /\ WF_vars(Freeze(c) \/ JoinCloser(c) \/ CloseInstance(c)
                     \/ StopWatcher(c) \/ JoinWatcher(c) \/ Unregister(c))
          /\ WF_vars(WatcherEnds(c))
          /\ WF_vars(CloserWakes(c) \/ CloserStops(c)) /\ WF_vars(CloserCloses(c))

FairSpec == Spec /\ Fairness

-----------------------------------------------------------------------------
(* Properties.                                                             *)

\* Every variable has its type; a verdict is one of the fixed kinds.
TypeOK ==
    /\ registry \in [Ids -> Calls \cup {None}]
    /\ ctx \in [Calls -> {"live", "cancelled", "deadline"}]
    /\ interrupted \subseteq Calls /\ touched \subseteq Calls
    /\ watcher \in [Calls -> {"none", "polling", "stopping", "done"}]
    /\ closer \in [Calls -> {"none", "waiting", "closing", "stopping", "done"}]
    /\ instance \in [Calls -> {"none", "running", "closed"}]
    /\ kind \in [Calls -> {"invalid_request", "duplicate_probe",
                           "invalid_profile", "start_failed", "success", "hard",
                           "soft", "timeout", "cancelled"}]
    /\ frozen \in [Calls -> BOOLEAN]
    /\ target \in [Cancels -> Calls \cup {None}]

\* "ProbeCandidate closes the instance and joins the request and observer
\* before returning and releasing the caller-owned callback": nothing of a
\* call outlives it, and its callback is not asked after it.
NothingOutlivesCall ==
    /\ \A c \in Calls : Returned(c) =>
          /\ watcher[c] \in {"none", "done"} /\ closer[c] \in {"none", "done"}
          /\ instance[c] # "running"
    /\ touched = {}

\* An identifier is registered exactly while one call of it is under way: a
\* duplicate neither takes the place of that call nor frees it.
RegistryHonest ==
    \A i \in Ids, c \in Calls :
        registry[i] = c <=> (IdOf[c] = i /\ Registered(c))

\* A cancellation that overtakes nothing cancels nothing else: a call whose
\* identifier is used again is cancelled only by what was aimed at it.
CancelFindsItsCall ==
    [][\A c \in Calls : ctx[c] = "live" /\ ctx'[c] = "cancelled" =>
         \/ c \in interrupted \/ pc[c] = "unregister"
         \/ \E k \in Cancels : target[k] = c]_vars

\* "Late shutdown deadlines do not replace a completed success or a
\* certificate/response failure": a frozen verdict is final, and a valid
\* request that ran into its context says so.
VerdictIsFinal ==
    [][\A c \in Calls :
         /\ frozen[c] => kind'[c] = kind[c]
         /\ frozen'[c] => kind'[c] # "invalid_request"]_vars

\* Every probe returns, whoever waits for whom.
ProbeReturns == \A c \in Calls : Registered(c) ~> Returned(c)
=============================================================================
