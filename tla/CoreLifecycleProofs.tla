------------------------- MODULE CoreLifecycleProofs ------------------------
(***************************************************************************)
(* What TLAPS proves of CoreLifecycle, for any number of callers. Two      *)
(* results hold with and without panics (the lock is released, the         *)
(* interrupt callback and the context of a successful start are safe); two *)
(* need that no call panics, because the recovery works without the lock.  *)
(***************************************************************************)
EXTENDS CoreLifecycle, TLAPS

\* A call that returned has joined its observer, and a cancellation it saw is
\* an error of the call. Each service is the work of one call, and only the
\* cancellation or the failure of that call cancels its context.
ContextInv ==
    /\ NoCallbackAfterReturn
    /\ \A c \in Callers :
         /\ pc[c] = "idle" /\ c \in cancelled => c \in failed
         /\ own[c] # NoSvc => own[c] \in made
         /\ own[c] # NoSvc /\ own[c] \in dead => c \in cancelled \cup failed
    /\ \A c, d \in Callers : own[c] = own[d] /\ own[c] # NoSvc => c = d

BaseInv == TypeOK /\ LockIsReleased /\ ContextInv

\* The initial state satisfies the invariant that needs no assumption.
LEMMA InitBaseInv == Init => BaseInv
  BY CoreAssumption
  DEF Init, BaseInv, TypeOK, LockIsReleased, ContextInv, NoCallbackAfterReturn,
      States, PCs, Locked, Recovery

\* Every step preserves it.
LEMMA NextBaseInv == BaseInv /\ [Next]_vars => BaseInv'
<1> SUFFICES ASSUME BaseInv, [Next]_vars PROVE BaseInv'
  OBVIOUS
<1> USE CoreAssumption
    DEF BaseInv, TypeOK, LockIsReleased, ContextInv, NoCallbackAfterReturn,
        States, PCs, Locked, Recovery, GoTo, ServiceOf, shared, call
<1>1. ASSUME NEW c \in Callers,
             \/ Start(c) \/ StartInterruptible(c) \/ Stop(c) \/ Restart(c)
             \/ StopAndAlert(c)
      PROVE  BaseInv'
  BY <1>1 DEF Start, StartInterruptible, Stop, Restart, StopAndAlert, Call
<1>2. ASSUME NEW c \in Callers, ObserverCancels(c) \/ ObserverLeaves(c)
      PROVE  BaseInv'
  BY <1>2 DEF ObserverCancels, ObserverLeaves
<1>3. ASSUME NEW c \in Callers, StartRefused(c) \/ StartEnter(c) PROVE BaseInv'
  BY <1>3 DEF StartRefused, StartEnter
<1>4. ASSUME NEW c \in Callers, StartBuild(c) PROVE BaseInv'
  BY <1>4 DEF StartBuild
<1>5. ASSUME NEW c \in Callers, StartNew(c) PROVE BaseInv'
  BY <1>5 DEF StartNew
<1>6. ASSUME NEW c \in Callers, StartPublish(c) PROVE BaseInv'
  BY <1>6 DEF StartPublish
<1>7. ASSUME NEW c \in Callers, ErrorWrapper(c) PROVE BaseInv'
  BY <1>7 DEF ErrorWrapper
<1>8. ASSUME NEW c \in Callers, StopEnter(c) \/ StopClose(c) PROVE BaseInv'
  BY <1>8 DEF StopEnter, StopClose
<1>9. ASSUME NEW c \in Callers,
             \/ Panic(c) \/ RecoverAlert(c) \/ RecoverClose(c)
             \/ RecoverNil(c) \/ RecoverEnd(c)
      PROVE  BaseInv'
  BY <1>9 DEF Panic, RecoverAlert, RecoverClose, RecoverNil, RecoverEnd
<1>10. ASSUME NEW c \in Callers, Finish(c) \/ Join(c) PROVE BaseInv'
  BY <1>10 DEF Finish, Join
<1>11. CASE UNCHANGED vars
  BY <1>11 DEF vars
<1>12. QED
  BY <1>1, <1>2, <1>3, <1>4, <1>5, <1>6, <1>7, <1>8, <1>9, <1>10, <1>11
  DEF Next, Progress

\* The invariant that needs no assumption holds in every reachable state.
THEOREM BaseInvariance == Spec => []BaseInv
  BY InitBaseInv, NextBaseInv, PTL DEF Spec

\* Every variable of the record and of the calls keeps its type, with panics too.
THEOREM TypeCorrect == Spec => []TypeOK
<1>1. BaseInv => TypeOK
  BY DEF BaseInv
<1>2. QED
  BY BaseInvariance, <1>1, PTL

\* Errors and panics always release static.lock: it is held exactly by the
\* call that is inside its critical section.
THEOREM LockReleased == Spec => []LockIsReleased
<1>1. BaseInv => LockIsReleased
  BY DEF BaseInv
<1>2. QED
  BY BaseInvariance, <1>1, PTL

\* The interrupt callback is not called after StartInterruptible returned.
THEOREM CallbackJoined == Spec => []NoCallbackAfterReturn
<1>1. BaseInv => NoCallbackAfterReturn
  BY DEF BaseInv, ContextInv
<1>2. QED
  BY BaseInvariance, <1>1, PTL

\* A start that returned success has a live context, whenever the interrupt
\* came.
THEOREM SuccessUncancelled == Spec => []SuccessIsUncancelled
<1>1. BaseInv => SuccessIsUncancelled
  BY DEF BaseInv, ContextInv, SuccessIsUncancelled
<1>2. QED
  BY BaseInvariance, <1>1, PTL

-----------------------------------------------------------------------------
(* Without panics every write to the shared record is made by the holder   *)
(* of the lock, so its critical section can be described step by step.     *)

\* What the holder of the lock knows in each phase.
PhaseInv ==
    \A c \in Callers :
        /\ pc[c] \notin Recovery
        /\ pc[c] \in {"build", "new"} =>
             StartedService = NoSvc /\ CoreState = "STARTING"
        /\ pc[c] = "publish" =>
             StartedService \in live /\ CoreState = "STARTING"

CoreInv ==
    /\ BaseInv
    /\ PhaseInv
    /\ NoLostService
    /\ StateMatchesService
    /\ StartedService \in live \cup {NoSvc}

\* Without panics every step preserves the full invariant.
LEMMA NextCoreInv ==
  ASSUME ~PanicsOccur, CoreInv, [Next]_vars
  PROVE  CoreInv'
<1>1. BaseInv'
  BY NextBaseInv DEF CoreInv
<1> USE <1>1, CoreAssumption
    DEF CoreInv, BaseInv, TypeOK, LockIsReleased, PhaseInv, NoLostService,
        StateMatchesService, States, PCs, Locked, Recovery, GoTo, shared, call
<1>2. ASSUME NEW c \in Callers,
             \/ Start(c) \/ StartInterruptible(c) \/ Stop(c) \/ Restart(c)
             \/ ObserverCancels(c) \/ ObserverLeaves(c)
      PROVE  CoreInv'
  BY <1>2 DEF Start, StartInterruptible, Stop, Restart, Call, ObserverCancels,
              ObserverLeaves
<1>3. ASSUME NEW c \in Callers, StartRefused(c) \/ StartEnter(c) PROVE CoreInv'
  BY <1>3 DEF StartRefused, StartEnter
<1>4. ASSUME NEW c \in Callers, StartBuild(c) PROVE CoreInv'
  BY <1>4 DEF StartBuild
<1>5. ASSUME NEW c \in Callers, StartNew(c) PROVE CoreInv'
  BY <1>5 DEF StartNew
<1>6. ASSUME NEW c \in Callers, StartPublish(c) PROVE CoreInv'
  BY <1>6 DEF StartPublish
<1>7. ASSUME NEW c \in Callers, ErrorWrapper(c) PROVE CoreInv'
  BY <1>7 DEF ErrorWrapper
<1>8. ASSUME NEW c \in Callers, StopEnter(c) \/ StopClose(c) PROVE CoreInv'
  BY <1>8 DEF StopEnter, StopClose
<1>9. ASSUME NEW c \in Callers,
             \/ Panic(c) \/ RecoverAlert(c) \/ RecoverClose(c)
             \/ RecoverNil(c) \/ RecoverEnd(c) \/ StopAndAlert(c)
      PROVE  FALSE
  BY <1>9 DEF Panic, RecoverAlert, RecoverClose, RecoverNil, RecoverEnd,
              StopAndAlert
<1>10. ASSUME NEW c \in Callers, Finish(c) \/ Join(c) PROVE CoreInv'
  BY <1>10 DEF Finish, Join
<1>11. CASE UNCHANGED vars
  BY <1>11 DEF vars
<1>12. QED
  BY <1>2, <1>3, <1>4, <1>5, <1>6, <1>7, <1>8, <1>9, <1>10, <1>11
  DEF Next, Progress

\* When no call panics, the holder of static.lock finds in each phase the record
\* it left there.
THEOREM CoreInvariance == ASSUME ~PanicsOccur PROVE Spec => []CoreInv
<1>1. Init => CoreInv
  BY InitBaseInv
  DEF Init, CoreInv, PhaseInv, NoLostService, StateMatchesService, Recovery
<1>2. CoreInv /\ [Next]_vars => CoreInv'
  BY NextCoreInv
<1>3. QED
  BY <1>1, <1>2, PTL DEF Spec

\* When no call panics, the engine that runs is always the one Stop reaches: no
\* Start or Restart overwrites static.StartedService while it is open.
THEOREM NothingLost == ASSUME ~PanicsOccur PROVE Spec => []NoLostService
<1>1. CoreInv => NoLostService
  BY DEF CoreInv
<1>2. QED
  BY <1>1, CoreInvariance, PTL

\* When no call panics, the CoreState a caller of Start, Stop or Restart finds
\* between the calls describes the engine.
THEOREM CoreStateHonest == ASSUME ~PanicsOccur PROVE Spec => []StateMatchesService
<1>1. CoreInv => StateMatchesService
  BY DEF CoreInv
<1>2. QED
  BY <1>1, CoreInvariance, PTL

-----------------------------------------------------------------------------
(* The record `static` implements the abstract slot with the engine owners *)
(* it holds; it is never disposed of.                                      *)

Slot == INSTANCE EngineSlot WITH
    Engines <- Services, open <- live, used <- made, disposed <- FALSE

\* Dropping static.StartedService, nil or open, releases it.
LEMMA DropReleases ==
  ASSUME CoreInv, live' = live \ {StartedService}, UNCHANGED made
  PROVE  [Slot!Next]_(Slot!slot)
<1>1. CASE StartedService = NoSvc
  <2>1. NoSvc \notin live
    BY CoreAssumption DEF CoreInv, BaseInv, TypeOK
  <2>2. QED
    BY <1>1, <2>1 DEF Slot!slot
<1>2. CASE StartedService \in live
  <2>1. Slot!Release(StartedService)
    BY <1>2 DEF Slot!Release
  <2>2. StartedService \in Services
    BY <1>2 DEF CoreInv, BaseInv, TypeOK
  <2>3. QED
    BY <2>1, <2>2 DEF Slot!Next
<1>3. QED
  BY <1>1, <1>2 DEF CoreInv

\* Without panics every step of v2/hcore is a step of the slot or leaves it as
\* it is: a start that reaches NewService finds the slot empty.
LEMMA SlotStep ==
  ASSUME ~PanicsOccur, CoreInv, [Next]_vars
  PROVE  [Slot!Next]_(Slot!slot)
<1>1. ASSUME NEW c \in Callers, StartNew(c) PROVE [Slot!Next]_(Slot!slot)
  <2>1. live = {}
    BY <1>1, CoreAssumption
    DEF StartNew, CoreInv, PhaseInv, NoLostService, BaseInv, TypeOK
  <2>2. CASE UNCHANGED <<made, live>>
    BY <2>2 DEF Slot!slot
  <2>3. ASSUME NEW s \in Services \ made, made' = made \cup {s}, live' = live \cup {s}
        PROVE  Slot!Open(s)
    BY <2>1, <2>3 DEF Slot!Open
  <2>4. QED
    BY <1>1, <2>2, <2>3 DEF StartNew, Slot!Next
<1>2. ASSUME NEW c \in Callers, ErrorWrapper(c) \/ StopClose(c)
      PROVE  [Slot!Next]_(Slot!slot)
  BY <1>2, DropReleases DEF ErrorWrapper, StopClose
<1>3. ASSUME NEW c \in Callers,
             \/ Panic(c) \/ RecoverAlert(c) \/ RecoverClose(c)
             \/ RecoverNil(c) \/ RecoverEnd(c) \/ StopAndAlert(c)
      PROVE  FALSE
  BY <1>3 DEF Panic, RecoverAlert, RecoverClose, RecoverNil, RecoverEnd,
              StopAndAlert, CoreInv, PhaseInv, Recovery
<1>4. ASSUME UNCHANGED <<made, live>> PROVE [Slot!Next]_(Slot!slot)
  BY <1>4 DEF Slot!slot
<1>5. ASSUME NEW c \in Callers, Progress(c) PROVE [Slot!Next]_(Slot!slot)
  BY <1>5, <1>1, <1>2, <1>3, <1>4
  DEF Progress, StartRefused, StartEnter, StartBuild, StartPublish, StopEnter,
      Finish, Join, shared
<1>6. QED
  BY <1>3, <1>4, <1>5
  DEF Next, Start, StartInterruptible, Stop, Restart, Call, ObserverCancels,
      ObserverLeaves, shared, vars

\* When no call panics, the process-wide record of v2/hcore implements the engine
\* slot: Start, StartInterruptible, Stop and Restart never open a second engine
\* next to one that is open.
THEOREM ImplementsSlot == ASSUME ~PanicsOccur PROVE Spec => Slot!Spec
<1>1. Init => Slot!Init
  BY DEF Init, Slot!Init
<1>2. CoreInv /\ [Next]_vars => [Slot!Next]_(Slot!slot)
  BY SlotStep
<1>3. QED
  BY <1>1, <1>2, CoreInvariance, PTL DEF Spec, Slot!Spec
=============================================================================
