--------------------------- MODULE CoreLifecycle ----------------------------
(***************************************************************************)
(* The process-wide core of v2/hcore: CoreState and StartedService of the  *)
(* `static` record, the mutex static.lock, and concurrent callers of       *)
(* StartService, StartInterruptible, Stop and Restart.                     *)
(*                                                                         *)
(* Start and Stop keep the mutex from their first to their last write. The *)
(* recovery of a panic does not: the deferred Unlock runs before the       *)
(* deferred handler, so errorWrapper works on the shared record without it.*)
(* An engine owner (daemon.StartedService) is open from NewService until   *)
(* its Close; NewService closes the owner it cannot start.                 *)
(*                                                                         *)
(* Parse, GenerateConfig and Close end a panic with StopAndAlert, which    *)
(* works on the same record and never takes the mutex.                     *)
(*                                                                         *)
(* Restart waits for its context only on Android, where its one caller     *)
(* (the gRPC handler) passes the base context, which nobody cancels; that  *)
(* wait is not modelled. The StartService RPC passes its request's context,*)
(* which holds no option registry: its configuration does not parse and it *)
(* is a start that fails in StartBuild.                                    *)
(***************************************************************************)
EXTENDS FiniteSets

CONSTANTS
    Callers,      \* goroutines of the ABI, the gRPC server and the host
    Services,     \* the StartedService objects NewService can return
    PanicsOccur,  \* TRUE: a start or a stop may panic while it holds the lock
    NoSvc,        \* the nil *StartedService
    Free          \* static.lock is not held

ASSUME CoreAssumption ==
    /\ NoSvc \notin Services
    /\ Free \notin Callers
    /\ PanicsOccur \in BOOLEAN

VARIABLES
    lock,            \* holder of static.lock
    CoreState,       \* static.CoreState
    StartedService,  \* static.StartedService
    made,            \* services NewService has returned
    live,            \* services not closed yet
    dead,            \* services whose context is cancelled
    pc,              \* where each caller stands
    goal,            \* what each caller was asked to do
    cancelled,       \* callers whose context is cancelled
    observing,       \* callers whose interrupt observer is running
    failed,          \* callers whose call is returning an error
    own,             \* the service the caller's last call started
    seen             \* the service an unlocked rollback has read

vars == <<lock, CoreState, StartedService, made, live, dead, pc, goal,
          cancelled, observing, failed, own, seen>>

shared == <<CoreState, StartedService, made, live, dead>>
call == <<goal, cancelled, observing, failed, own, seen>>

States == {"STOPPED", "STARTING", "STARTED", "STOPPING"}
Locked == {"build", "new", "publish", "stopClose", "wrap"}
Recovery == {"recover", "recoverClose", "recoverNil", "recoverEnd"}
PCs == Locked \cup Recovery \cup
       {"idle", "startLock", "stopLock", "finish", "join"}

Init ==
    /\ lock = Free
    /\ CoreState = "STOPPED"
    /\ StartedService = NoSvc
    /\ made = {} /\ live = {} /\ dead = {}
    /\ pc = [c \in Callers |-> "idle"]
    /\ goal = [c \in Callers |-> "stop"]
    /\ cancelled = {} /\ observing = {} /\ failed = {}
    /\ own = [c \in Callers |-> NoSvc]
    /\ seen = [c \in Callers |-> NoSvc]

GoTo(c, l) == pc' = [pc EXCEPT ![c] = l]

\* The service that runs on the context of the caller's start.
ServiceOf(c) == {own[c]} \ {NoSvc}

-----------------------------------------------------------------------------
(* The calls. StartInterruptible runs an observer goroutine next to Start. *)

Call(c, g, entry, observed) ==
    /\ pc[c] = "idle"
    /\ goal' = [goal EXCEPT ![c] = g]
    /\ cancelled' = cancelled \ {c}
    /\ observing' = IF observed THEN observing \cup {c} ELSE observing
    /\ failed' = failed \ {c}
    /\ own' = [own EXCEPT ![c] = NoSvc]
    /\ GoTo(c, entry)
    /\ UNCHANGED <<lock, shared, seen>>

Start(c) == Call(c, "start", "startLock", FALSE)
StartInterruptible(c) == Call(c, "start", "startLock", TRUE)
Stop(c) == Call(c, "stop", "stopLock", FALSE)
Restart(c) == Call(c, "restart", "stopLock", FALSE)

\* Parse, GenerateConfig or Close panicked: StopAndAlert without the lock.
StopAndAlert(c) == PanicsOccur /\ Call(c, "alert", "recover", FALSE)

\* interrupted() returned true, before the start or at a tick: cancel() and
\* the observer is gone.
ObserverCancels(c) ==
    /\ c \in observing
    /\ cancelled' = cancelled \cup {c}
    /\ observing' = observing \ {c}
    /\ dead' = dead \cup ServiceOf(c)
    /\ UNCHANGED <<lock, CoreState, StartedService, made, live, pc, goal,
                   failed, own, seen>>

\* `finished` is closed: the observer leaves without another callback.
ObserverLeaves(c) ==
    /\ c \in observing /\ pc[c] = "join"
    /\ observing' = observing \ {c}
    /\ UNCHANGED <<lock, shared, pc, goal, cancelled, failed, own, seen>>

-----------------------------------------------------------------------------
(* StartService.                                                           *)

StartRefused(c) ==
    /\ pc[c] = "startLock" /\ lock = Free
    /\ c \in cancelled \/ CoreState # "STOPPED"
    /\ failed' = IF c \in cancelled THEN failed \cup {c} ELSE failed
    /\ GoTo(c, "finish")
    /\ UNCHANGED <<lock, shared, goal, cancelled, observing, own, seen>>

\* Mutant: CoreState is not tested.
BugStartEnter(c) ==
    /\ pc[c] = "startLock" /\ lock = Free
    /\ c \notin cancelled
    /\ lock' = c
    /\ CoreState' = "STARTING"
    /\ GoTo(c, "build")
    /\ UNCHANGED <<StartedService, made, live, dead, call>>

StartEnter(c) ==
    /\ pc[c] = "startLock" /\ lock = Free
    /\ c \notin cancelled /\ CoreState = "STOPPED"
    /\ lock' = c
    /\ CoreState' = "STARTING"
    /\ GoTo(c, "build")
    /\ UNCHANGED <<StartedService, made, live, dead, call>>

\* Request, options, BuildConfig, pre-start services and the context checks.
StartBuild(c) ==
    /\ pc[c] = "build"
    /\ \/ c \notin cancelled /\ GoTo(c, "new")
       \/ GoTo(c, "wrap")
    /\ UNCHANGED <<lock, shared, call>>

\* NewService: the engine saw a live context after its last stage, or failed.
StartNew(c) ==
    /\ pc[c] = "new"
    /\ \/ /\ c \notin cancelled
          /\ \E s \in Services \ made :
               /\ made' = made \cup {s}
               /\ live' = live \cup {s}
               /\ StartedService' = s
               /\ own' = [own EXCEPT ![c] = s]
          /\ GoTo(c, "publish")
       \/ /\ GoTo(c, "wrap")
          /\ UNCHANGED <<made, live, StartedService, own>>
    /\ UNCHANGED <<lock, CoreState, dead, goal, cancelled, observing, failed,
                   seen>>

\* Mutant: the late cancellation returns without unlocking.
BugPublishLocked(c) ==
    /\ pc[c] = "publish"
    /\ \/ /\ c \in cancelled
          /\ failed' = failed \cup {c}
          /\ UNCHANGED <<CoreState, lock>>
       \/ /\ c \notin cancelled
          /\ CoreState' = "STARTED"
          /\ lock' = Free
          /\ UNCHANGED failed
    /\ GoTo(c, "finish")
    /\ UNCHANGED <<StartedService, made, live, dead, goal, cancelled,
                   observing, own, seen>>

\* A cancellation after the last stage returns an error and leaves the
\* instance and CoreState for the caller's Stop.
StartPublish(c) ==
    /\ pc[c] = "publish"
    /\ \/ /\ c \in cancelled
          /\ failed' = failed \cup {c}
          /\ UNCHANGED CoreState
       \/ /\ c \notin cancelled
          /\ CoreState' = "STARTED"
          /\ UNCHANGED failed
    /\ lock' = Free
    /\ GoTo(c, "finish")
    /\ UNCHANGED <<StartedService, made, live, dead, goal, cancelled,
                   observing, own, seen>>

\* errorWrapper under the lock: StopAndAlert closes and drops the service.
ErrorWrapper(c) ==
    /\ pc[c] = "wrap"
    /\ CoreState' = "STOPPED"
    /\ live' = live \ {StartedService}
    /\ StartedService' = NoSvc
    /\ lock' = Free
    /\ failed' = failed \cup {c}
    /\ GoTo(c, "finish")
    /\ UNCHANGED <<made, dead, goal, cancelled, observing, own, seen>>

-----------------------------------------------------------------------------
(* Stop, alone or as the first half of Restart.                            *)

StopEnter(c) ==
    /\ pc[c] = "stopLock" /\ lock = Free
    /\ lock' = c
    /\ CoreState' = "STOPPING"
    /\ GoTo(c, "stopClose")
    /\ UNCHANGED <<StartedService, made, live, dead, call>>

\* A failing Close drops the service and goes through errorWrapper.
StopClose(c) ==
    /\ pc[c] = "stopClose"
    /\ live' = live \ {StartedService}
    /\ StartedService' = NoSvc
    /\ \/ /\ CoreState' = "STOPPED"
          /\ lock' = Free
          /\ GoTo(c, IF goal[c] = "restart" THEN "startLock" ELSE "finish")
       \/ /\ StartedService # NoSvc
          /\ GoTo(c, "wrap")
          /\ UNCHANGED <<lock, CoreState>>
    /\ UNCHANGED <<made, dead, call>>

-----------------------------------------------------------------------------
(* A panic: the lock is released, then errorWrapper runs without it.       *)

Panic(c) ==
    /\ PanicsOccur
    /\ pc[c] \in Locked
    /\ lock' = Free
    /\ GoTo(c, "recover")
    /\ UNCHANGED <<shared, call>>

RecoverAlert(c) ==
    /\ pc[c] = "recover"
    /\ CoreState' = "STOPPED"
    /\ seen' = [seen EXCEPT ![c] = StartedService]
    /\ GoTo(c, IF StartedService = NoSvc THEN "recoverEnd" ELSE "recoverClose")
    /\ UNCHANGED <<lock, StartedService, made, live, dead, goal, cancelled,
                   observing, failed, own>>

RecoverClose(c) ==
    /\ pc[c] = "recoverClose"
    /\ live' = live \ {seen[c]}
    /\ GoTo(c, "recoverNil")
    /\ UNCHANGED <<lock, CoreState, StartedService, made, dead, call>>

RecoverNil(c) ==
    /\ pc[c] = "recoverNil"
    /\ StartedService' = NoSvc
    /\ GoTo(c, "recoverEnd")
    /\ UNCHANGED <<lock, CoreState, made, live, dead, call>>

RecoverEnd(c) ==
    /\ pc[c] = "recoverEnd"
    /\ CoreState' = IF goal[c] = "alert" THEN CoreState ELSE "STOPPED"
    /\ failed' = failed \cup {c}
    /\ seen' = [seen EXCEPT ![c] = NoSvc]
    /\ GoTo(c, "finish")
    /\ UNCHANGED <<lock, StartedService, made, live, dead, goal, cancelled,
                   observing, own>>

-----------------------------------------------------------------------------
(* The deferred end of StartInterruptible: close(finished), wait for the   *)
(* observer, then turn a late cancellation into an error and cancel the    *)
(* context of a start that failed. Other calls pass through.               *)

Finish(c) ==
    /\ pc[c] = "finish"
    /\ GoTo(c, "join")
    /\ UNCHANGED <<lock, shared, call>>

\* Mutant: the observer is not waited for.
BugJoin(c) ==
    /\ pc[c] = "join"
    /\ failed' = IF c \in cancelled THEN failed \cup {c} ELSE failed
    /\ dead' = IF c \in failed' THEN dead \cup ServiceOf(c) ELSE dead
    /\ GoTo(c, "idle")
    /\ UNCHANGED <<lock, CoreState, StartedService, made, live, goal,
                   cancelled, observing, own, seen>>

Join(c) ==
    /\ pc[c] = "join"
    /\ c \notin observing
    /\ failed' = IF c \in cancelled THEN failed \cup {c} ELSE failed
    /\ dead' = IF c \in failed' THEN dead \cup ServiceOf(c) ELSE dead
    /\ GoTo(c, "idle")
    /\ UNCHANGED <<lock, CoreState, StartedService, made, live, goal,
                   cancelled, observing, own, seen>>

-----------------------------------------------------------------------------
Progress(c) ==
    \/ StartRefused(c) \/ StartEnter(c) \/ StartBuild(c) \/ StartNew(c)
    \/ StartPublish(c) \/ ErrorWrapper(c) \/ StopEnter(c) \/ StopClose(c)
    \/ RecoverAlert(c) \/ RecoverClose(c) \/ RecoverNil(c) \/ RecoverEnd(c)
    \/ Finish(c) \/ Join(c)

Next ==
    \E c \in Callers :
        \/ Start(c) \/ StartInterruptible(c) \/ Stop(c) \/ Restart(c)
        \/ StopAndAlert(c)
        \/ ObserverCancels(c) \/ ObserverLeaves(c)
        \/ Progress(c) \/ Panic(c)

\* static.lock is a sync.Mutex, which does not starve a waiter; building,
\* starting and closing an engine is assumed to return.
Fairness ==
    \A c \in Callers : SF_vars(Progress(c)) /\ WF_vars(ObserverLeaves(c))

Spec == Init /\ [][Next]_vars
FairSpec == Spec /\ Fairness

-----------------------------------------------------------------------------
(* Properties.                                                             *)

\* Every variable has its type.
TypeOK ==
    /\ lock \in Callers \cup {Free}
    /\ CoreState \in States
    /\ StartedService \in Services \cup {NoSvc}
    /\ made \subseteq Services /\ live \subseteq made /\ dead \subseteq made
    /\ pc \in [Callers -> PCs]
    /\ goal \in [Callers -> {"start", "stop", "restart", "alert"}]
    /\ cancelled \subseteq Callers
    /\ observing \subseteq Callers
    /\ failed \subseteq Callers
    /\ own \in [Callers -> Services \cup {NoSvc}]
    /\ seen \in [Callers -> Services \cup {NoSvc}]

\* An open engine owner is the one static.StartedService points to: no start
\* overwrites it, so Stop always reaches the engine that runs.
NoLostService == live \subseteq {StartedService}

\* Between calls the published CoreState tells the truth about the engine.
\* STARTING with an engine is the cancelled start that waits for its Stop;
\* STARTING or STOPPING with nothing left to stop never survives a call.
StateMatchesService ==
    lock = Free =>
        /\ CoreState = "STOPPED" => StartedService = NoSvc
        /\ CoreState = "STARTED" => StartedService \in live
        /\ CoreState = "STARTING" => StartedService \in live
        /\ CoreState # "STOPPING"

\* A start that returned success leaves its service a context nobody has
\* cancelled: an interrupt that comes with the last stage, or while the
\* observer is being joined, is an error of the call.
SuccessIsUncancelled ==
    \A c \in Callers :
        pc[c] = "idle" /\ c \notin failed /\ own[c] # NoSvc =>
            own[c] \notin dead

\* The interrupt callback is never called after StartInterruptible returned,
\* including on an error or a panic.
NoCallbackAfterReturn == \A c \in Callers : pc[c] = "idle" => c \notin observing

\* A panic or an error never leaves static.lock behind.
LockIsReleased == \A c \in Callers : lock = c <=> pc[c] \in Locked

\* Every call returns.
CallsReturn == \A c \in Callers : pc[c] # "idle" ~> pc[c] = "idle"
=============================================================================
