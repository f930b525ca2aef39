------------------------ MODULE StartedServiceProofs ------------------------
(***************************************************************************)
(* What TLAPS proves of StartedService, for any number of callers and      *)
(* instances. NoOrphanEngine is not inductive: that a reload which comes   *)
(* back to the mutex does not overwrite an open instance depends on who    *)
(* can have changed s.instance while it closed the old one. IndInv says    *)
(* it: the statuses STOPPING and FATAL keep every other reload and every   *)
(* CloseService out of that window, and only Close enters it.              *)
(***************************************************************************)
EXTENDS StartedService, TLAPS

\* The reload c is between releasing the mutex with the old instance in hand
\* and taking it again.
InWindow(c) == pc[c] \in {"cancelOld", "closeOld", "relock"}

\* The mutex is held across a step by exactly the caller inside a close.
HolderInv ==
    /\ \A c \in Callers : pc[c] = "closing" <=> access = c
    /\ access \notin Starters

\* A reload in its window still points at s.instance, or Close has come.
WindowInv ==
    \A c \in Callers : InWindow(c) =>
        /\ mine[c] \in created
        /\ closed \/ (instance = mine[c] /\ status \in {"STOPPING", "FATAL"})
        /\ pc[c] = "relock" => mine[c] \in boxClosed

\* Two reloads share the window only after Close.
SoleWindowInv ==
    \A c, d \in Callers : InWindow(c) /\ InWindow(d) /\ c # d => closed

\* A starter knows the instance it starts.
StartingInv ==
    \A c \in Callers :
        pc[c] \in {"starting", "startOK", "startErr"} => mine[c] \in created

\* CloseService runs on a live service that no reload is replacing.
ClosingInv ==
    access \in Closers =>
        /\ ~closed
        /\ status = "STOPPING"
        /\ \A c \in Callers : ~InWindow(c)

\* Close marks the service first and empties it before it unlocks.
ClosedInv ==
    /\ access \in Disposers => closed
    /\ closed /\ access = Free =>
         instance = NoInst /\ status \in {"IDLE", "FATAL"}

IndInv ==
    /\ TypeOK
    /\ HolderInv
    /\ WindowInv
    /\ SoleWindowInv
    /\ StartingInv
    /\ ClosingInv
    /\ ClosedInv
    /\ instance \in created \cup {NoInst}
    /\ ReadersFindInstance
    /\ NoOrphanEngine

\* The initial state satisfies the inductive invariant.
LEMMA InitIndInv == Init => IndInv
  BY CallersAssumption, InstancesAssumption
  DEF Init, IndInv, TypeOK, HolderInv, WindowInv, SoleWindowInv, StartingInv,
      ClosingInv, ClosedInv, ReadersFindInstance, NoOrphanEngine, InWindow,
      Statuses, PCs, Callers

\* newInstance and the publication of its result, under the mutex, when the
\* instance s.instance held is nil or closed: the one place an engine could
\* be overwritten while it is open.
LEMMA LaunchIndInv ==
  ASSUME IndInv, NEW c \in Starters, access = Free, ~closed, Launch(c),
         instance = NoInst \/ instance \in boxClosed,
         \A d \in Callers : InWindow(d) => d = c,
         pc[c] \in {"idle", "relock"}
  PROVE  IndInv'
<1> USE CallersAssumption, InstancesAssumption DEF Callers, GoTo
<1>1. created \subseteq boxClosed
  BY DEF IndInv, NoOrphanEngine, TypeOK
<1>2. TypeOK'
  BY DEF IndInv, TypeOK, Launch, Statuses, PCs
<1>3. \A d \in Callers : ~InWindow(d)'
  BY DEF IndInv, TypeOK, Launch, InWindow
<1>4. HolderInv' /\ StartingInv'
  BY DEF IndInv, TypeOK, Launch, HolderInv, StartingInv
<1>5. WindowInv' /\ SoleWindowInv' /\ ClosingInv' /\ ClosedInv'
  BY <1>3 DEF IndInv, Launch, WindowInv, SoleWindowInv, ClosingInv, ClosedInv,
              HolderInv
<1>6. (instance \in created \cup {NoInst})' /\ ReadersFindInstance'
  BY DEF IndInv, TypeOK, Launch, ReadersFindInstance
<1>7. NoOrphanEngine'
  BY <1>1 DEF Launch, NoOrphanEngine
<1>8. QED
  BY <1>2, <1>4, <1>5, <1>6, <1>7 DEF IndInv

\* Every step preserves the inductive invariant.
LEMMA NextIndInv == IndInv /\ [Next]_vars => IndInv'
<1> SUFFICES ASSUME IndInv, [Next]_vars PROVE IndInv'
  OBVIOUS
<1> USE CallersAssumption, InstancesAssumption
    DEF IndInv, TypeOK, HolderInv, WindowInv, SoleWindowInv, StartingInv,
        ClosingInv, ClosedInv, ReadersFindInstance, NoOrphanEngine, InWindow,
        Statuses, PCs, Callers, GoTo, engines, NonNil
<1>1. ASSUME NEW c \in Starters, StartFresh(c) PROVE IndInv'
  <2>1. \A d \in Callers : ~InWindow(d)
    BY <1>1 DEF StartFresh
  <2>2. QED
    BY <1>1, <2>1, LaunchIndInv DEF StartFresh
<1>2. ASSUME NEW c \in Starters, ReloadBegin(c) PROVE IndInv'
  <2>1. \A d \in Callers : InWindow(d)' => d = c
    BY <1>2 DEF ReloadBegin
  <2>2. QED
    BY <1>2, <2>1 DEF ReloadBegin
<1>3. ASSUME NEW c \in Starters, ReloadCancelOld(c) PROVE IndInv'
  BY <1>3 DEF ReloadCancelOld
<1>4. ASSUME NEW c \in Starters, ReloadCloseOld(c) PROVE IndInv'
  BY <1>4 DEF ReloadCloseOld
<1>5. ASSUME NEW c \in Starters, ReloadRelock(c) PROVE IndInv'
  <2>1. CASE closed
    BY <1>5, <2>1 DEF ReloadRelock, Launch
  <2>2. CASE ~closed
    <3>1. instance = mine[c] /\ mine[c] \in boxClosed
      BY <1>5, <2>2 DEF ReloadRelock
    <3>2. \A d \in Callers : InWindow(d) => d = c
      BY <1>5, <2>2 DEF ReloadRelock
    <3>3. QED
      BY <1>5, <2>2, <3>1, <3>2, LaunchIndInv DEF ReloadRelock
  <2>3. QED
    BY <2>1, <2>2
<1>6. ASSUME NEW c \in Starters, BoxStart(c) PROVE IndInv'
  BY <1>6 DEF BoxStart
<1>7. ASSUME NEW c \in Starters, Settle(c) PROVE IndInv'
  BY <1>7 DEF Settle
<1>8. ASSUME NEW c \in Closers, CloseServiceBegin(c) PROVE IndInv'
  <2>1. ~closed /\ \A d \in Callers : ~InWindow(d)
    BY <1>8 DEF CloseServiceBegin
  <2>2. QED
    BY <1>8, <2>1 DEF CloseServiceBegin
<1>9. ASSUME NEW c \in Closers, CloseServiceEnd(c) PROVE IndInv'
  <2>1. ~closed /\ \A d \in Callers : ~InWindow(d)
    BY <1>9 DEF CloseServiceEnd
  <2>2. QED
    BY <1>9, <2>1 DEF CloseServiceEnd
<1>10. ASSUME NEW c \in Disposers, DisposeBegin(c) PROVE IndInv'
  BY <1>10 DEF DisposeBegin
<1>11. ASSUME NEW c \in Disposers, DisposeEnd(c) PROVE IndInv'
  <2>1. closed
    BY <1>11 DEF DisposeEnd
  <2>2. QED
    BY <1>11, <2>1 DEF DisposeEnd
<1>12. CASE SetError
  BY <1>12 DEF SetError
<1>13. CASE UNCHANGED vars
  BY <1>13 DEF vars
<1>14. QED
  BY <1>1, <1>2, <1>3, <1>4, <1>5, <1>6, <1>7, <1>8, <1>9, <1>10, <1>11,
     <1>12, <1>13
  DEF Next, StarterStep

\* The inductive invariant holds in every reachable state.
THEOREM Invariance == Spec => []IndInv
  BY InitIndInv, NextIndInv, PTL DEF Spec

\* The variables of the engine owner keep their types.
THEOREM TypeCorrect == Spec => []TypeOK
<1>1. IndInv => TypeOK
  BY DEF IndInv
<1>2. QED
  BY Invariance, <1>1, PTL

\* However many reloads, CloseServices, Closes and SetErrors race, an open
\* engine is the one s.instance points to.
THEOREM NoOrphan == Spec => []NoOrphanEngine
<1>1. IndInv => NoOrphanEngine
  BY DEF IndInv
<1>2. QED
  BY Invariance, <1>1, PTL

\* A reader that finds STARTING or STARTED finds an instance.
THEOREM ReadersSafe == Spec => []ReadersFindInstance
<1>1. IndInv => ReadersFindInstance
  BY DEF IndInv
<1>2. QED
  BY Invariance, <1>1, PTL

\* Once Close has returned, every engine ever created is closed.
THEOREM CloseReaches == Spec => []CloseReachesEveryEngine
<1>1. IndInv => CloseReachesEveryEngine
  BY InstancesAssumption
  DEF IndInv, TypeOK, ClosedInv, NoOrphanEngine, CloseReachesEveryEngine
<1>2. QED
  BY Invariance, <1>1, PTL

\* Close is terminal: no step that starts on a closed service reopens it,
\* creates an engine or publishes a start.
THEOREM CloseTerminal == Spec => CloseIsTerminal
<1> DEFINE Terminal ==
      closed => /\ closed'
                /\ created' = created
                /\ status' \notin {"STARTING", "STARTED"} \/ status' = status
<1>1. IndInv /\ [Next]_vars => [Terminal]_vars
  BY DEF IndInv, Next, StarterStep, StartFresh, ReloadBegin, ReloadCancelOld,
         ReloadCloseOld, ReloadRelock, BoxStart, Settle, CloseServiceBegin,
         CloseServiceEnd, DisposeBegin, DisposeEnd, SetError, engines
<1>2. QED
  BY Invariance, <1>1, PTL DEF Spec, CloseIsTerminal

-----------------------------------------------------------------------------
(* One starter, the way v2/hcore uses the service: what the status says of *)
(* the engine. With two, the first one's Settle can publish the outcome of *)
(* its own start for the instance of the second.                           *)

\* STARTING belongs to the starter of the current instance, whose context is
\* alive until another status is published; STARTED to an engine that runs.
SoloInv ==
    /\ status = "STARTING" => \E c \in Starters :
          pc[c] \in {"starting", "startOK", "startErr"} /\ mine[c] = instance
    /\ \A c \in Starters :
          /\ pc[c] = "startOK" => mine[c] \in running
          /\ pc[c] = "startErr" => mine[c] \in boxClosed
          /\ pc[c] \in {"starting", "startOK"} /\ status = "STARTING" /\ ~closed
                => mine[c] \notin cancelled \cup boxClosed
    /\ status = "STARTED" => \A c \in Starters : pc[c] = "idle"
    /\ status = "STARTED" /\ ~closed =>
          instance \in running \ (cancelled \cup boxClosed)

\* With one starter every step preserves SoloInv.
LEMMA NextSoloInv ==
  ASSUME \A c, d \in Starters : c = d, IndInv, SoloInv, [Next]_vars
  PROVE  SoloInv'
<1> USE CallersAssumption, InstancesAssumption
    DEF IndInv, TypeOK, HolderInv, SoloInv, Callers, GoTo, engines, NonNil
<1>1. ASSUME NEW c \in Starters, StartFresh(c) PROVE SoloInv'
  BY <1>1 DEF StartFresh, Launch
<1>2. ASSUME NEW c \in Starters, ReloadBegin(c) PROVE SoloInv'
  BY <1>2 DEF ReloadBegin
<1>3. ASSUME NEW c \in Starters, ReloadCancelOld(c) PROVE SoloInv'
  BY <1>3 DEF ReloadCancelOld, WindowInv, InWindow
<1>4. ASSUME NEW c \in Starters, ReloadCloseOld(c) PROVE SoloInv'
  BY <1>4 DEF ReloadCloseOld, WindowInv, InWindow
<1>5. ASSUME NEW c \in Starters, ReloadRelock(c) PROVE SoloInv'
  BY <1>5 DEF ReloadRelock, Launch
<1>6. ASSUME NEW c \in Starters, BoxStart(c) PROVE SoloInv'
  BY <1>6 DEF BoxStart
<1>7. ASSUME NEW c \in Starters, Settle(c) PROVE SoloInv'
  BY <1>7 DEF Settle, ClosedInv
<1>8. ASSUME NEW c \in Closers, CloseServiceBegin(c) PROVE SoloInv'
  BY <1>8 DEF CloseServiceBegin
<1>9. ASSUME NEW c \in Closers, CloseServiceEnd(c) PROVE SoloInv'
  BY <1>9 DEF CloseServiceEnd
<1>10. ASSUME NEW c \in Disposers, DisposeBegin(c) PROVE SoloInv'
  BY <1>10 DEF DisposeBegin
<1>11. ASSUME NEW c \in Disposers, DisposeEnd(c) PROVE SoloInv'
  BY <1>11 DEF DisposeEnd
<1>12. CASE SetError
  BY <1>12 DEF SetError
<1>13. CASE UNCHANGED vars
  BY <1>13 DEF vars
<1>14. QED
  BY <1>1, <1>2, <1>3, <1>4, <1>5, <1>6, <1>7, <1>8, <1>9, <1>10, <1>11,
     <1>12, <1>13
  DEF Next, StarterStep

\* With one starter, STARTED means that the current engine's Start returned
\* nil and that it has been neither cancelled nor closed since.
THEOREM SoloStarted ==
  ASSUME \A c, d \in Starters : c = d
  PROVE  Spec => []StartedMeansRunning
<1>1. Init => SoloInv
  BY DEF Init, SoloInv, Callers
<1>2. IndInv /\ SoloInv /\ [Next]_vars => SoloInv'
  BY NextSoloInv
<1>3. IndInv /\ SoloInv => StartedMeansRunning
  BY DEF IndInv, SoloInv, ClosedInv, StartedMeansRunning
<1>4. QED
  BY Invariance, <1>1, <1>2, <1>3, PTL DEF Spec

\* With one starter and no SetError, FATAL means that no engine is open.
THEOREM SoloFatal ==
  ASSUME \A c, d \in Starters : c = d, Reporters = {}
  PROVE  Spec => []FatalIsInert
<1>1. Init => SoloInv /\ FatalIsInert
  BY DEF Init, SoloInv, FatalIsInert, Callers
<1>2. IndInv /\ SoloInv /\ [Next]_vars => SoloInv'
  BY NextSoloInv
<1>3. IndInv /\ SoloInv /\ FatalIsInert /\ [Next]_vars => FatalIsInert'
  BY InstancesAssumption
  DEF IndInv, TypeOK, SoloInv, FatalIsInert, NoOrphanEngine, WindowInv,
      InWindow, Callers, GoTo, engines, NonNil, vars, Next, StarterStep,
      StartFresh, Launch, ReloadBegin, ReloadCancelOld, ReloadCloseOld,
      ReloadRelock, BoxStart, Settle, CloseServiceBegin, CloseServiceEnd,
      DisposeBegin, DisposeEnd, SetError
<1>4. QED
  BY Invariance, <1>1, <1>2, <1>3, PTL DEF Spec

-----------------------------------------------------------------------------
(* The engine owner implements the abstract slot: its engines are the      *)
(* instances that newInstance returned, open until their Box is closed.    *)

Slot == INSTANCE EngineSlot WITH
    Engines <- Instances, open <- created \ boxClosed, used <- created,
    disposed <- closed

\* A launch into an owner whose instances are all closed opens one engine, or
\* none when newInstance fails.
LEMMA LaunchOpens ==
  ASSUME TypeOK, NEW c \in Starters, ~closed, Launch(c), created \subseteq boxClosed
  PROVE  [Slot!Next]_(Slot!slot)
<1>1. CASE UNCHANGED created
  BY <1>1 DEF Launch, Slot!slot
<1>2. ASSUME NEW i \in Instances \ created, created' = created \cup {i}
      PROVE  Slot!Open(i)
  BY <1>2 DEF TypeOK, Launch, Slot!Open
<1>3. QED
  BY <1>1, <1>2 DEF Launch, Slot!Next

\* Closing a Box, also one that was closed before, releases its engine.
LEMMA CloseReleases ==
  ASSUME TypeOK, NoOrphanEngine, NEW i \in Instances, i \in created,
         boxClosed' = boxClosed \cup {i}, UNCHANGED <<created, closed>>
  PROVE  [Slot!Next]_(Slot!slot)
<1>1. CASE i \in boxClosed
  BY <1>1 DEF Slot!slot
<1>2. CASE i \notin boxClosed
  <2>1. Slot!Release(i)
    BY <1>2 DEF Slot!Release
  <2>2. QED
    BY <2>1 DEF Slot!Next
<1>3. QED
  BY <1>1, <1>2

\* Every step of the engine owner is a step of the slot or changes nothing of
\* it: the reload that comes back from its unlocked window finds the slot
\* empty, and the closes that race for one Box release it once.
LEMMA SlotStep ==
  ASSUME IndInv, [Next]_vars
  PROVE  [Slot!Next]_(Slot!slot)
<1> USE DEF IndInv
<1>1. ASSUME NEW c \in Starters, StartFresh(c) PROVE [Slot!Next]_(Slot!slot)
  <2>1. created \subseteq boxClosed
    BY <1>1, InstancesAssumption DEF StartFresh, NoOrphanEngine, TypeOK
  <2>2. QED
    BY <1>1, <2>1, LaunchOpens DEF StartFresh
<1>2. ASSUME NEW c \in Starters, ReloadRelock(c) PROVE [Slot!Next]_(Slot!slot)
  <2>1. CASE closed
    BY <1>2, <2>1 DEF ReloadRelock, engines, Slot!slot
  <2>2. CASE ~closed
    <3>1. instance \in boxClosed
      BY <1>2, <2>2 DEF ReloadRelock, WindowInv, InWindow, Callers
    <3>2. created \subseteq boxClosed
      BY <3>1 DEF NoOrphanEngine
    <3>3. QED
      BY <1>2, <2>2, <3>2, LaunchOpens DEF ReloadRelock
  <2>3. QED
    BY <2>1, <2>2
<1>3. ASSUME NEW c \in Starters, ReloadCloseOld(c) PROVE [Slot!Next]_(Slot!slot)
  <2>1. mine[c] \in created
    BY <1>3 DEF ReloadCloseOld, WindowInv, InWindow, Callers
  <2>2. QED
    BY <1>3, <2>1, CloseReleases DEF ReloadCloseOld, TypeOK
<1>4. ASSUME NEW c \in Starters, BoxStart(c) PROVE [Slot!Next]_(Slot!slot)
  <2>1. mine[c] \in created
    BY <1>4 DEF BoxStart, StartingInv, Callers
  <2>2. CASE UNCHANGED boxClosed
    BY <1>4, <2>2 DEF BoxStart, Slot!slot
  <2>3. CASE boxClosed' = boxClosed \cup {mine[c]}
    BY <1>4, <2>1, <2>3, CloseReleases DEF BoxStart, TypeOK
  <2>4. QED
    BY <1>4, <2>2, <2>3 DEF BoxStart
<1>5. ASSUME boxClosed' = boxClosed \cup NonNil(instance), UNCHANGED <<created, closed>>
      PROVE  [Slot!Next]_(Slot!slot)
  <2>1. CASE instance = NoInst
    BY <1>5, <2>1 DEF NonNil, Slot!slot
  <2>2. CASE instance # NoInst
    <3>1. instance \in created /\ instance \in Instances /\ NonNil(instance) = {instance}
      BY <2>2 DEF TypeOK, NonNil
    <3>2. QED
      BY <1>5, <3>1, CloseReleases
  <2>3. QED
    BY <2>1, <2>2
<1>6. ASSUME NEW c \in Disposers, DisposeBegin(c) PROVE [Slot!Next]_(Slot!slot)
  <2>1. Slot!Dispose
    BY <1>6 DEF DisposeBegin, Slot!Dispose
  <2>2. QED
    BY <2>1 DEF Slot!Next
<1>7. ASSUME UNCHANGED <<created, boxClosed, closed>> PROVE [Slot!Next]_(Slot!slot)
  BY <1>7 DEF Slot!slot
<1>8. ASSUME NEW c \in Starters, StarterStep(c) PROVE [Slot!Next]_(Slot!slot)
  BY <1>8, <1>1, <1>2, <1>3, <1>4, <1>7
  DEF StarterStep, ReloadBegin, ReloadCancelOld, Settle, engines
<1>9. QED
  BY <1>5, <1>6, <1>7, <1>8
  DEF Next, CloseServiceBegin, CloseServiceEnd, DisposeEnd, SetError, engines, vars

\* StartedService implements the engine slot, however its callers interleave.
THEOREM ImplementsSlot == Spec => Slot!Spec
<1>1. Init => Slot!Init
  BY DEF Init, Slot!Init
<1>2. QED
  BY <1>1, SlotStep, Invariance, PTL DEF Spec, Slot!Spec

\* Two engines are never open at once, not even while a reload, a failed
\* start and a close work on different instances.
THEOREM OneEngineOpen == Spec => []Slot!AtMostOne
<1>1. IndInv => Slot!AtMostOne
  BY DEF IndInv, NoOrphanEngine, Slot!AtMostOne
<1>2. QED
  BY <1>1, Invariance, PTL
=============================================================================
