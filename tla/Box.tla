--------------------------------- MODULE Box ---------------------------------
(***************************************************************************)
(* One engine instance: Box.Start and Box.Close (src/engine/sing-box/      *)
(* box.go) over the managers that own its members                          *)
(* (src/engine/sing-box/adapter/{outbound,endpoint,inbound,service,        *)
(* certificate}/manager.go).                                               *)
(*                                                                         *)
(* Start walks a fixed plan of stages; at each stage a manager takes its   *)
(* lock, notes the stage, copies its list of members and starts them after *)
(* the unlock.  Any error, a cancelled context included, makes Start close *)
(* the Box itself.  Close lets the first caller through, and gives every   *)
(* manager ten seconds in a goroutine of its own.                          *)
(*                                                                         *)
(* A member is a resource: open from its start at stage "start" to its     *)
(* Close.  Whether a member's Start fails and whether its Close ever       *)
(* returns is the environment's choice.  The other components a Box starts *)
(* (router, DNS, network, logger, internal services) are single objects    *)
(* without a list of members and are left out of the plan.                 *)
(***************************************************************************)
EXTENDS Naturals, Sequences, Functions

CONSTANTS
    MembersOf,    \* [Managers -> sets of members]
    Dependencies, \* [members -> sets of members they dial through]
    Hanging,      \* members whose Close never returns
    Closers,      \* callers of Close besides Start's own cleanup
    Serialized    \* the owner calls Close only outside of Start and Close

Managers == {"outbound", "endpoint", "inbound", "service", "certificateProvider"}

Members == UNION Range(MembersOf)

ManagersAssumption ==
    /\ DOMAIN MembersOf = Managers
    /\ \A m, n \in Managers : m # n => MembersOf[m] \cap MembersOf[n] = {}

MembersAssumption ==
    /\ Dependencies \in [Members -> SUBSET Members]
    /\ \A m \in Managers \ {"outbound", "endpoint"} :
          \A x \in MembersOf[m] : Dependencies[x] = {}
    /\ Hanging \subseteq Members /\ Serialized \in BOOLEAN
    /\ "start" \notin Closers

Actors == Closers \cup {"start"}

VARIABLES
    cancelled,   \* the instance's context is done
    starter,     \* where Box.Start is
    at,          \* the step of the plan it is on
    todo,        \* the members the manager of that step has still to start
    begun,       \* the members that manager has started at this step
    started,     \* [Managers -> BOOLEAN]: m.started
    stage,       \* [Managers -> Nat]: m.stage
    listed,      \* managers whose list of members has not been taken away
    open,        \* members that hold resources
    lock,        \* managers whose Close holds m.access
    done,        \* the channel s.done is closed
    closer,      \* [Actors -> where the call of Close is]
    turn,        \* the step of the close plan the one closer waits for
    job,         \* [Managers -> where the goroutine that closes it is]
    left,        \* [Managers -> members that goroutine has still to close]
    gaveUp,      \* managers whose ten seconds ran out
    panicked     \* actors that panicked

vars == <<cancelled, starter, at, todo, begun, started, stage, listed, open, lock, done,
          closer, turn, job, left, gaveUp, panicked>>

starting == <<starter, at, todo, begun, started, stage>>
closing == <<done, closer, turn, job, left, gaveUp, lock, listed>>

-----------------------------------------------------------------------------
StageNumber == [initialize |-> 0, start |-> 1, postStart |-> 2, finishStart |-> 3]

\* Mutant: the endpoints and the certificate providers are not initialized.
BugStartPlan ==
    << <<"initialize", "outbound">>, <<"initialize", "inbound">>,
       <<"initialize", "service">>,
       <<"start", "outbound">>, <<"start", "endpoint">>,
       <<"start", "certificateProvider">>, <<"start", "inbound">>,
       <<"start", "service">>,
       <<"postStart", "outbound">>, <<"postStart", "endpoint">>,
       <<"postStart", "certificateProvider">>, <<"postStart", "inbound">>,
       <<"postStart", "service">>,
       <<"finishStart", "outbound">>, <<"finishStart", "endpoint">>,
       <<"finishStart", "certificateProvider">>, <<"finishStart", "inbound">>,
       <<"finishStart", "service">> >>

(* The order in which preStart and start call the managers.                *)
StartPlan ==
    << <<"initialize", "outbound">>, <<"initialize", "inbound">>,
       <<"initialize", "endpoint">>, <<"initialize", "service">>,
       <<"initialize", "certificateProvider">>,
       <<"start", "outbound">>, <<"start", "endpoint">>,
       <<"start", "certificateProvider">>, <<"start", "inbound">>,
       <<"start", "service">>,
       <<"postStart", "outbound">>, <<"postStart", "endpoint">>,
       <<"postStart", "certificateProvider">>, <<"postStart", "inbound">>,
       <<"postStart", "service">>,
       <<"finishStart", "outbound">>, <<"finishStart", "endpoint">>,
       <<"finishStart", "certificateProvider">>, <<"finishStart", "inbound">>,
       <<"finishStart", "service">> >>

\* Mutant: the outbounds are closed before the inbounds.
BugClosePlan == <<"service", "outbound", "inbound", "certificateProvider", "endpoint">>

(* The order in which Close closes them.                                   *)
ClosePlan == <<"service", "inbound", "certificateProvider", "endpoint", "outbound">>

(* Types, and a lock is held by nobody but a goroutine that still closes.  *)
TypeOK ==
    /\ cancelled \in BOOLEAN /\ done \in BOOLEAN
    /\ starter \in {"idle", "step", "endpoints", "members", "cleanup", "failed",
                    "ready"}
    /\ at \in 1 .. Len(StartPlan) + 1
    /\ todo \subseteq Members /\ begun \subseteq Members
    /\ started \in [Managers -> BOOLEAN] /\ stage \in [Managers -> 0 .. 3]
    /\ listed \subseteq Managers /\ open \subseteq Members
    /\ lock \subseteq {m \in Managers : job[m] = "closing"}
    /\ closer \in [Actors -> {"idle", "test", "tested", "closing", "refused", "done"}]
    /\ turn \in 1 .. Len(ClosePlan) + 1
    /\ job \in [Managers -> {"none", "waiting", "closing", "done"}]
    /\ left \in [Managers -> SUBSET Members]
    /\ gaveUp \subseteq Managers /\ panicked \subseteq Actors

Init ==
    /\ cancelled = FALSE
    /\ starter = "idle" /\ at = 1 /\ todo = {} /\ begun = {}
    /\ started = [m \in Managers |-> FALSE] /\ stage = [m \in Managers |-> 0]
    /\ listed = Managers /\ open = {} /\ lock = {}
    /\ done = FALSE /\ closer = [a \in Actors |-> "idle"] /\ turn = 1
    /\ job = [m \in Managers |-> "none"] /\ left = [m \in Managers |-> {}]
    /\ gaveUp = {} /\ panicked = {}

-----------------------------------------------------------------------------
(* Box.Start.                                                              *)

(* An error inside start(): Start calls Close before it returns it.        *)
Fail == starter' = "cleanup" /\ closer' = [closer EXCEPT !["start"] = "test"]

Begin ==
    /\ starter = "idle"
    /\ starter' = "step"
    /\ UNCHANGED <<cancelled, at, todo, begun, started, stage, open, closing, panicked>>

Held(m) == IF m \in listed THEN MembersOf[m] ELSE {}

(* Between two managers the context is read; a done one ends the start,    *)
(* and after the last manager it is the result.                            *)
ReadContext ==
    /\ starter = "step"
    /\ \/ cancelled /\ Fail
       \/ /\ ~cancelled /\ at > Len(StartPlan)
          /\ starter' = "ready" /\ UNCHANGED closer
    /\ UNCHANGED <<cancelled, at, todo, begun, started, stage, open, lock, listed, done,
                   turn, job, left, gaveUp, panicked>>

(* Manager.Start: under the lock the stage is noted and the list copied;   *)
(* the endpoints are started together with the outbounds.                  *)
StartManager ==
    /\ starter = "step" /\ ~cancelled /\ at <= Len(StartPlan)
    /\ LET m == StartPlan[at][2]
           n == StageNumber[StartPlan[at][1]]
       IN  /\ m \notin lock
           /\ IF started[m] /\ stage[m] >= n
              THEN /\ panicked' = panicked \cup {"start"} /\ starter' = "failed"
                   /\ UNCHANGED <<started, stage, todo, begun>>
              ELSE /\ started' = [started EXCEPT ![m] = TRUE]
                   /\ stage' = [stage EXCEPT ![m] = n]
                   /\ todo' = IF m = "endpoint" /\ n = 1 THEN {} ELSE Held(m)
                   /\ begun' = {}
                   /\ starter' = IF m = "outbound" /\ n = 1 THEN "endpoints"
                                 ELSE "members"
                   /\ UNCHANGED panicked
    /\ UNCHANGED <<cancelled, at, open, closing>>

(* The outbound manager asks the endpoint manager for its list, under that *)
(* manager's lock.                                                         *)
AddEndpoints ==
    /\ starter = "endpoints" /\ "endpoint" \notin lock
    /\ todo' = todo \cup Held("endpoint")
    /\ starter' = "members"
    /\ UNCHANGED <<cancelled, at, begun, started, stage, open, closing, panicked>>

(* startOutbounds starts a member when those it dials through have been    *)
(* started; the other managers have no such order.                         *)
Ready(x) ==
    StartPlan[at] = <<"start", "outbound">> => Dependencies[x] \subseteq begun

(* One member is started, without the manager's lock and without a look at *)
(* the context; its error ends the start.                                  *)
StartMember ==
    /\ starter = "members"
    /\ \E x \in todo :
          /\ Ready(x)
          /\ \/ /\ todo' = todo \ {x} /\ begun' = begun \cup {x}
                /\ open' = IF StartPlan[at][1] = "start" THEN open \cup {x} ELSE open
                /\ UNCHANGED <<starter, closer>>
             \/ Fail /\ UNCHANGED <<todo, begun, open>>
    /\ UNCHANGED <<cancelled, at, started, stage, listed, lock, done, turn, job, left,
                   gaveUp, panicked>>

(* A circular dependency, or one on a member that is not there, is an      *)
(* error.                                                                  *)
NoneReady ==
    /\ starter = "members" /\ todo # {} /\ \A x \in todo : ~Ready(x)
    /\ Fail
    /\ UNCHANGED <<cancelled, at, todo, begun, started, stage, listed, open, lock, done, turn,
                   job, left, gaveUp, panicked>>

NextManager ==
    /\ starter = "members" /\ todo = {}
    /\ at' = at + 1 /\ starter' = "step"
    /\ UNCHANGED <<cancelled, todo, begun, started, stage, open, closing, panicked>>

(* Start's own call of Close is over; a panic in it is recovered.          *)
StartFails ==
    /\ starter = "cleanup"
    /\ closer["start"] \in {"refused", "done"} \/ "start" \in panicked
    /\ starter' = "failed"
    /\ UNCHANGED <<cancelled, at, todo, begun, started, stage, open, closing, panicked>>

Start == \/ Begin \/ ReadContext \/ StartManager \/ AddEndpoints \/ StartMember
         \/ NoneReady \/ NextManager \/ StartFails

-----------------------------------------------------------------------------
(* Box.Close.                                                              *)

Quiet == /\ starter \in {"idle", "ready", "failed"}
         /\ \A a \in Actors : closer[a] \in {"idle", "refused", "done"}

(* The owner's Instance.Close cancels the context and calls Box.Close.     *)
BeginClose(a) ==
    /\ closer[a] = "idle"
    /\ Serialized => Quiet /\ starter # "idle"
    /\ closer' = [closer EXCEPT ![a] = "test"]
    /\ cancelled' = TRUE
    /\ UNCHANGED <<starting, open, done, turn, job, left, gaveUp, lock, listed, panicked>>

(* The select on s.done: a Box that is closed already refuses the caller.  *)
TestDone(a) ==
    /\ closer[a] = "test"
    /\ closer' = [closer EXCEPT ![a] = IF done THEN "refused" ELSE "tested"]
    /\ UNCHANGED <<cancelled, starting, open, done, turn, job, left, gaveUp, lock,
                   listed, panicked>>

Spawn(i) == IF i > Len(ClosePlan) THEN job
            ELSE [job EXCEPT ![ClosePlan[i]] = "waiting"]

(* close(s.done) panics when another caller has come between the test and  *)
(* the close; the caller that closes it goes on to the first manager.      *)
CloseDone(a) ==
    /\ closer[a] = "tested"
    /\ IF done
       THEN /\ panicked' = panicked \cup {a}
            /\ closer' = [closer EXCEPT ![a] = "refused"]
            /\ UNCHANGED <<done, job>>
       ELSE /\ done' = TRUE /\ job' = Spawn(1)
            /\ closer' = [closer EXCEPT ![a] = "closing"]
            /\ UNCHANGED panicked
    /\ UNCHANGED <<cancelled, starting, open, turn, left, gaveUp, lock, listed>>

(* The close of the current manager is over, or its ten seconds are.       *)
Pass(a) ==
    /\ turn' = turn + 1 /\ job' = Spawn(turn + 1)
    /\ closer' = IF turn = Len(ClosePlan) THEN [closer EXCEPT ![a] = "done"] ELSE closer

AwaitDone(a) ==
    /\ closer[a] = "closing" /\ job[ClosePlan[turn]] = "done"
    /\ Pass(a)
    /\ UNCHANGED <<cancelled, starting, open, done, left, gaveUp, lock, listed, panicked>>

BugAwaitTimeout(a) == closer[a] = "closing" /\ UNCHANGED vars

AwaitTimeout(a) ==
    /\ closer[a] = "closing" /\ job[ClosePlan[turn]] # "done"
    /\ gaveUp' = gaveUp \cup {ClosePlan[turn]}
    /\ Pass(a)
    /\ UNCHANGED <<cancelled, starting, open, done, left, lock, listed, panicked>>

(* Manager.Close takes the list away from a manager that has been started; *)
(* all but the outbound manager keep the lock while they close the list.   *)
CloseManager(m) ==
    /\ job[m] = "waiting" /\ m \notin lock
    /\ \/ /\ ~started[m]
          /\ job' = [job EXCEPT ![m] = "done"]
          /\ UNCHANGED <<started, left, listed, lock>>
       \/ /\ started[m]
          /\ started' = [started EXCEPT ![m] = FALSE]
          /\ left' = [left EXCEPT ![m] = Held(m)]
          /\ listed' = listed \ {m}
          /\ lock' = IF m = "outbound" THEN lock ELSE lock \cup {m}
          /\ job' = [job EXCEPT ![m] = "closing"]
    /\ UNCHANGED <<cancelled, starter, at, todo, begun, stage, open, done, closer, turn,
                   gaveUp, panicked>>

CloseMember(m) ==
    /\ job[m] = "closing"
    /\ \E x \in left[m] \ Hanging :
          /\ left' = [left EXCEPT ![m] = @ \ {x}]
          /\ open' = open \ {x}
    /\ UNCHANGED <<cancelled, starting, listed, lock, done, closer, turn, job, gaveUp,
                   panicked>>

ManagerClosed(m) ==
    /\ job[m] = "closing" /\ left[m] = {}
    /\ job' = [job EXCEPT ![m] = "done"] /\ lock' = lock \ {m}
    /\ UNCHANGED <<cancelled, starting, listed, open, done, closer, turn, left, gaveUp,
                   panicked>>

CloseStep(a) == TestDone(a) \/ CloseDone(a) \/ AwaitDone(a)

Closing(m) == CloseManager(m) \/ CloseMember(m) \/ ManagerClosed(m)

(* The startup context is cancelled from outside, without a Close.         *)
Cancel ==
    /\ ~cancelled /\ cancelled' = TRUE
    /\ UNCHANGED <<starting, open, closing, panicked>>

Done == Quiet /\ starter # "idle" /\ UNCHANGED vars

Next == \/ Start \/ Cancel \/ Done
        \/ \E a \in Actors : CloseStep(a) \/ AwaitTimeout(a)
        \/ \E a \in Closers : BeginClose(a)
        \/ \E m \in Managers : Closing(m)

Spec == Init /\ [][Next]_vars

(* The goroutines run and the timers fire; a member's Close may hang, and  *)
(* nobody has to call Start or Close.                                      *)
Fairness ==
    /\ WF_vars(starter # "idle" /\ Start)
    /\ \A a \in Actors : WF_vars(CloseStep(a)) /\ WF_vars(AwaitTimeout(a))
    /\ \A m \in Managers : WF_vars(Closing(m))

FairSpec == Spec /\ Fairness

-----------------------------------------------------------------------------
(* CloseService "stops the current engine instance"                        *)
(* (docs/architecture.md:1122): once Start and every Close have returned,  *)
(* and no manager was given up, no member is left open, whichever stage    *)
(* the start failed or was cancelled at.                                   *)
ClosedBoxIsEmpty == Quiet /\ done /\ gaveUp = {} => open = {}

(* Neither the second close of s.done (box.go:700) nor a manager that is   *)
(* asked for a stage it has already passed (inbound/manager.go:40) panics. *)
NoPanic == panicked = {}

(* Entries go before exits: no outbound is closed while an inbound or an   *)
(* endpoint still feeds it, unless its manager was given up.               *)
EntriesFirst ==
    [][\A x \in open \ open' :
          x \in MembersOf["outbound"] =>
              \A m \in Managers \ ({"outbound"} \cup gaveUp) :
                  MembersOf[m] \cap open = {}]_vars

(* An outbound is started after those it dials through, across both        *)
(* managers (startOutbounds, outbound/manager.go:96-166).                  *)
DependenciesFirst == [][\A x \in open' \ open : Dependencies[x] \subseteq open]_vars

(* A start that succeeds has opened every member.                          *)
ReadyMeansOpen == starter = "ready" /\ ~done => open = Members

(* Close returns although a member's Close hangs, and so does a Start that *)
(* has to clean up (closeWithTimeout, box.go:750-773).                     *)
CloseReturns ==
    /\ \A a \in Actors : closer[a] = "test" ~> closer[a] \in {"refused", "done"}
    /\ starter = "step" ~> starter \in {"ready", "failed"}
=============================================================================
