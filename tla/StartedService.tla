--------------------------- MODULE StartedService ---------------------------
(***************************************************************************)
(* The engine owner of engine/sing-box/daemon/started_service.go: one      *)
(* StartedService, the mutex serviceAccess, the published status and the   *)
(* current Instance, driven by concurrent callers of StartOrReloadService, *)
(* CloseService, Close and SetError.                                       *)
(*                                                                         *)
(* A caller that starts or reloads releases the mutex twice: while it      *)
(* closes the old instance and while the new one starts. CloseService and  *)
(* Close keep the mutex while they close the instance. Instance.Close      *)
(* cancels the instance's context and then closes its Box; Box.Start       *)
(* checks the context after its last stage and closes the Box itself when  *)
(* it fails, so an instance that starts in one goroutine can be cancelled  *)
(* and closed by another. Box.Close closes the channel `done` once and     *)
(* returns os.ErrClosed to everyone who comes later; the test and the      *)
(* close of `done` are one step here.                                      *)
(***************************************************************************)
EXTENDS FiniteSets

CONSTANTS
    Starters,      \* goroutines that call StartOrReloadService
    Closers,       \* goroutines that call CloseService
    Disposers,     \* goroutines that call Close
    Reporters,     \* goroutines that call SetError
    Instances,     \* the instances newInstance can allocate
    StartMayFail,  \* TRUE: a stage of Box.Start may fail by itself
    CloseMayFail,  \* TRUE: a component may fail or time out in Box.Close
    NoInst,        \* the nil *Instance
    Free           \* serviceAccess is not held across a step

Callers == Starters \cup Closers \cup Disposers

ASSUME CallersAssumption ==
    /\ Free \notin Callers
    /\ Starters \cap Closers = {}
    /\ Starters \cap Disposers = {}
    /\ Closers \cap Disposers = {}
ASSUME InstancesAssumption == NoInst \notin Instances
ASSUME FailureAssumption ==
    /\ StartMayFail \in BOOLEAN
    /\ CloseMayFail \in BOOLEAN

VARIABLES
    access,     \* holder of serviceAccess between two steps of one caller
    closed,     \* s.closed
    status,     \* s.serviceStatus.Status
    instance,   \* s.instance
    created,    \* instances newInstance has returned
    cancelled,  \* instances whose context is cancelled
    boxClosed,  \* instances whose Box.done is closed
    running,    \* instances whose Box.Start returned nil
    pc,         \* where each caller stands
    mine        \* the instance a caller captured: oldInstance, then instance

vars == <<access, closed, status, instance, created, cancelled, boxClosed,
          running, pc, mine>>

Statuses == {"IDLE", "STARTING", "STARTED", "STOPPING", "FATAL"}
PCs == {"idle", "cancelOld", "closeOld", "relock", "starting", "startOK",
        "startErr", "closing"}

Init ==
    /\ access = Free
    /\ closed = FALSE
    /\ status = "IDLE"
    /\ instance = NoInst
    /\ created = {}
    /\ cancelled = {}
    /\ boxClosed = {}
    /\ running = {}
    /\ pc = [c \in Callers |-> "idle"]
    /\ mine = [c \in Callers |-> NoInst]

GoTo(c, l) == pc' = [pc EXCEPT ![c] = l]
BugNonNil(i) == {i}             \* Mutant: the nil check is missing.
NonNil(i) == {i} \ {NoInst}   \* `if s.instance != nil`
engines == <<created, cancelled, boxClosed, running>>

-----------------------------------------------------------------------------
(* startOrReloadServiceImp. A call that is rejected (closed, or a status   *)
(* other than IDLE, STARTED or STARTING) changes nothing.                  *)

\* updateStatus(STARTING), newInstance, s.instance = instance; unlock.
\* When newInstance fails, s.instance keeps its (closed) value.
Launch(c) ==
    /\ \/ /\ status' = "FATAL"
          /\ mine' = [mine EXCEPT ![c] = NoInst]
          /\ GoTo(c, "idle")
          /\ UNCHANGED <<instance, created>>
       \/ \E i \in Instances \ created :
            /\ created' = created \cup {i}
            /\ instance' = i
            /\ mine' = [mine EXCEPT ![c] = i]
            /\ status' = "STARTING"
            /\ GoTo(c, "starting")
    /\ UNCHANGED <<access, closed, cancelled, boxClosed, running>>

StartFresh(c) ==
    /\ access = Free /\ pc[c] = "idle"
    /\ ~closed
    /\ status \in {"IDLE", "STARTED", "STARTING"}
    /\ instance = NoInst
    /\ Launch(c)

\* Mutant: STOPPING is not published before the mutex is released.
BugReloadBegin(c) ==
    /\ access = Free /\ pc[c] = "idle"
    /\ ~closed
    /\ status \in {"IDLE", "STARTED", "STARTING"}
    /\ instance # NoInst
    /\ mine' = [mine EXCEPT ![c] = instance]
    /\ GoTo(c, "cancelOld")
    /\ UNCHANGED <<access, closed, status, instance, engines>>

ReloadBegin(c) ==
    /\ access = Free /\ pc[c] = "idle"
    /\ ~closed
    /\ status \in {"IDLE", "STARTED", "STARTING"}
    /\ instance # NoInst
    /\ status' = "STOPPING"
    /\ mine' = [mine EXCEPT ![c] = instance]
    /\ GoTo(c, "cancelOld")
    /\ UNCHANGED <<access, closed, instance, engines>>

\* oldInstance.Close() with the mutex released: i.cancel(), then Box.Close.
ReloadCancelOld(c) ==
    /\ pc[c] = "cancelOld"
    /\ cancelled' = cancelled \cup {mine[c]}
    /\ GoTo(c, "closeOld")
    /\ UNCHANGED <<access, closed, status, instance, created, boxClosed,
                   running, mine>>

ReloadCloseOld(c) ==
    /\ pc[c] = "closeOld"
    /\ boxClosed' = boxClosed \cup {mine[c]}
    /\ GoTo(c, "relock")
    /\ UNCHANGED <<access, closed, status, instance, created, cancelled,
                   running, mine>>

\* Mutant: s.closed is not tested again after the mutex was released.
BugReloadRelock(c) == access = Free /\ pc[c] = "relock" /\ Launch(c)

\* Mutant: a failed close of the old instance is returned at once.
BugReloadReturns(c) ==
    /\ access = Free /\ pc[c] = "relock"
    /\ \/ /\ GoTo(c, "idle")
          /\ mine' = [mine EXCEPT ![c] = NoInst]
          /\ UNCHANGED <<access, closed, status, instance, engines>>
       \/ /\ ~closed
          /\ Launch(c)

ReloadRelock(c) ==
    /\ access = Free /\ pc[c] = "relock"
    /\ \/ /\ closed
          /\ GoTo(c, "idle")
          /\ mine' = [mine EXCEPT ![c] = NoInst]
          /\ UNCHANGED <<access, closed, status, instance, engines>>
       \/ /\ ~closed
          /\ Launch(c)

\* Box.Start: nil only if the context is still alive after the last stage;
\* on an error it closes the Box before it returns.
BoxStart(c) ==
    /\ pc[c] = "starting"
    /\ \/ /\ mine[c] \notin cancelled
          /\ running' = running \cup {mine[c]}
          /\ GoTo(c, "startOK")
          /\ UNCHANGED boxClosed
       \/ /\ mine[c] \in cancelled \/ StartMayFail
          /\ boxClosed' = boxClosed \cup {mine[c]}
          /\ GoTo(c, "startErr")
          /\ UNCHANGED running
    /\ UNCHANGED <<access, closed, status, instance, created, cancelled, mine>>

\* Mutant: the error of Start is dropped.
BugSettleOK(c) ==
    /\ access = Free /\ pc[c] \in {"startOK", "startErr"}
    /\ status' = IF closed \/ status # "STARTING" THEN status ELSE "STARTED"
    /\ GoTo(c, "idle")
    /\ mine' = [mine EXCEPT ![c] = NoInst]
    /\ UNCHANGED <<access, closed, instance, engines>>

\* The mutex is taken again: a status other than STARTING ends the call.
Settle(c) ==
    /\ access = Free /\ pc[c] \in {"startOK", "startErr"}
    /\ status' = IF closed \/ status # "STARTING" THEN status
                 ELSE IF pc[c] = "startErr" THEN "FATAL" ELSE "STARTED"
    /\ GoTo(c, "idle")
    /\ mine' = [mine EXCEPT ![c] = NoInst]
    /\ UNCHANGED <<access, closed, instance, engines>>

-----------------------------------------------------------------------------
(* CloseService: STARTING or STARTED only; the mutex is kept throughout.   *)

CloseServiceBegin(c) ==
    /\ access = Free /\ pc[c] = "idle"
    /\ status \in {"STARTING", "STARTED"}
    /\ access' = c
    /\ status' = "STOPPING"
    /\ cancelled' = cancelled \cup NonNil(instance)
    /\ GoTo(c, "closing")
    /\ UNCHANGED <<closed, instance, created, boxClosed, running, mine>>

\* Box.Close fails with os.ErrClosed when the Box is closed already (a Start
\* that saw the cancellation closes it), or with a component's error.
CloseServiceEnd(c) ==
    /\ pc[c] = "closing" /\ access = c
    /\ \/ /\ instance # NoInst
          /\ instance \in boxClosed \/ CloseMayFail
          /\ status' = "FATAL"
          /\ UNCHANGED instance
       \/ /\ instance \notin boxClosed
          /\ status' = "IDLE"
          /\ instance' = NoInst
    /\ boxClosed' = boxClosed \cup NonNil(instance)
    /\ access' = Free
    /\ GoTo(c, "idle")
    /\ UNCHANGED <<closed, created, cancelled, running, mine>>

-----------------------------------------------------------------------------
(* Close: terminal. A second call returns nil at once. Its error is only   *)
(* reported to the caller: the instance is dropped in every case.          *)

DisposeBegin(c) ==
    /\ access = Free /\ pc[c] = "idle"
    /\ ~closed
    /\ closed' = TRUE
    /\ access' = c
    /\ cancelled' = cancelled \cup NonNil(instance)
    /\ GoTo(c, "closing")
    /\ UNCHANGED <<status, instance, created, boxClosed, running, mine>>

DisposeEnd(c) ==
    /\ pc[c] = "closing" /\ access = c
    /\ boxClosed' = boxClosed \cup NonNil(instance)
    /\ instance' = NoInst
    /\ status' = "IDLE"
    /\ access' = Free
    /\ GoTo(c, "idle")
    /\ UNCHANGED <<closed, created, cancelled, running, mine>>

\* SetError publishes FATAL from any state.
SetError ==
    /\ access = Free
    /\ Reporters # {}
    /\ status' = "FATAL"
    /\ UNCHANGED <<access, closed, instance, engines, pc, mine>>

-----------------------------------------------------------------------------
StarterStep(c) ==
    \/ StartFresh(c) \/ ReloadBegin(c) \/ ReloadCancelOld(c)
    \/ ReloadCloseOld(c) \/ ReloadRelock(c) \/ BoxStart(c) \/ Settle(c)

Next ==
    \/ \E c \in Starters : StarterStep(c)
    \/ \E c \in Closers : CloseServiceBegin(c) \/ CloseServiceEnd(c)
    \/ \E c \in Disposers : DisposeBegin(c) \/ DisposeEnd(c)
    \/ SetError

\* Instance.Close is bounded (ten seconds per component), so a caller inside
\* it returns and, once it can take the mutex, goes on. Box.Start is not
\* assumed to return, and nobody is obliged to call anything.
Fairness ==
    /\ \A c \in Starters :
         /\ WF_vars(ReloadCancelOld(c))
         /\ WF_vars(ReloadCloseOld(c))
         /\ SF_vars(ReloadRelock(c))
    /\ \A c \in Closers : WF_vars(CloseServiceEnd(c))
    /\ \A c \in Disposers : WF_vars(DisposeEnd(c))

Spec == Init /\ [][Next]_vars
FairSpec == Spec /\ Fairness

-----------------------------------------------------------------------------
(* Properties.                                                             *)

\* Every variable has its type.
TypeOK ==
    /\ access \in Callers \cup {Free}
    /\ closed \in BOOLEAN
    /\ status \in Statuses
    /\ instance \in Instances \cup {NoInst}
    /\ created \subseteq Instances
    /\ cancelled \subseteq created
    /\ boxClosed \subseteq created
    /\ running \subseteq created
    /\ pc \in [Callers -> PCs]
    /\ mine \in [Callers -> Instances \cup {NoInst}]

\* An engine that is not closed is the one the service points to: no race of
\* reloads, CloseService, Close and SetError overwrites s.instance while the
\* instance it held is still open, so at most one engine is ever open and
\* whoever closes the service reaches it.
NoOrphanEngine == \A i \in created \ boxClosed : i = instance

\* The readers that test the status under the mutex and then dereference
\* s.instance without a nil check (GetDefaultLogLevel, readGroups, URLTest,
\* SetClashMode) never meet a nil instance.
ReadersFindInstance == status \in {"STARTING", "STARTED"} => instance # NoInst

\* After Close has returned every engine ever created is closed, also one
\* that a start or a reload was creating when Close came.
CloseReachesEveryEngine ==
    closed /\ access = Free => instance = NoInst /\ created \subseteq boxClosed

\* Close is terminal: it is never undone, and no call, not even one that was
\* waiting for the mutex, publishes another engine or another start.
CloseIsTerminal ==
    [][closed => /\ closed'
                 /\ created' = created
                 /\ status' \notin {"STARTING", "STARTED"} \/ status' = status]_vars

\* With one starter (how v2/hcore drives the service), STARTED says that the
\* current engine's Start returned nil and nobody has cancelled it since.
StartedMeansRunning ==
    status = "STARTED" /\ access = Free =>
        instance \in running \ (cancelled \cup boxClosed)

\* With one starter and no SetError, FATAL says that no engine is left open:
\* a failed construction, start or close releases what it had.
FatalIsInert == status = "FATAL" => created \subseteq boxClosed

\* The service does not stay in STOPPING, the state that refuses both
\* reload and CloseService: whoever published it leads it out.
StoppingResolves == status = "STOPPING" ~> status # "STOPPING"

\* CloseService leaves a service that can be started again
\* ("CloseService remains the restartable operation").
CloseServiceIsRestartable ==
    [][\A c \in Closers :
         pc[c] = "closing" /\ pc'[c] = "idle" => status' = "IDLE"]_vars

=============================================================================
