------------------------------ MODULE MCEngine ------------------------------
(***************************************************************************)
(* TLC instances of the engine: its owner (StartedService), one instance   *)
(* (Box) and the event emitter.  The three share no variable, so an        *)
(* invariant or a fairness condition of one never depends on the steps of  *)
(* another: `part` names the one whose steps a behaviour takes, and the    *)
(* others stay as they begin.                                              *)
(***************************************************************************)
EXTENDS StartedService, Sequences, Naturals, TLC

CONSTANTS
    Parts,                                             \* those a run explores
    MembersOf, Dependencies, Hanging, BoxClosers, Serialized,
    Emitters, Attempts, Capacity, MaxGeneration, MaxEvents, None,
    MaxTotal,                                          \* events of a behaviour
    s1, s2, c1, d1, r1, i1, i2, i3, e1, e2, a1, a2

VARIABLES
    part,
    boxCancelled, starter, at, todo, begun, started, stage, listed, open, lock,
    done, closer, turn, job, left, gaveUp, panicked,
    sink, context, sequence, dnsReceived, captured, held, pending, current,
    called, log, lost

TheBox == INSTANCE Box WITH Closers <- BoxClosers, cancelled <- boxCancelled
Events == INSTANCE Emitter

boxVars == <<boxCancelled, starter, at, todo, begun, started, stage, listed, open,
             lock, done, closer, turn, job, left, gaveUp, panicked>>
eventVars == <<sink, context, sequence, dnsReceived, captured, held, pending,
               current, called, log, lost>>

ASSUME BoxConstants == TheBox!ManagersAssumption /\ TheBox!MembersAssumption
ASSUME EmitterConstants == Events!EmitterAssumption

EngineInit == part \in Parts /\ Init /\ TheBox!Init /\ Events!Init

EngineNext ==
    /\ UNCHANGED part
    /\ \/ part = "service" /\ Next /\ UNCHANGED <<boxVars, eventVars>>
       \/ part = "box" /\ TheBox!Next /\ UNCHANGED <<vars, eventVars>>
       \/ part = "events" /\ Events!Next /\ UNCHANGED <<vars, boxVars>>

EngineSpec == EngineInit /\ [][EngineNext]_<<part, vars, boxVars, eventVars>>

\* No fair action of a part is enabled before the part has taken a step.
EngineFairSpec == EngineSpec /\ Fairness /\ TheBox!Fairness /\ Events!Fairness

\* Bound: events of all generations together.
FewEvents == Cardinality(Events!Events) <= MaxTotal

-----------------------------------------------------------------------------
(* The properties of the parts; their modules say what each name means.    *)

\* StartedService, Box and Emitter: every variable has its type.
TypesOK == TypeOK /\ TheBox!TypeOK /\ Events!TypeOK

\* Box: a Box that was closed, or closed itself, has no member left open.
ClosedBoxIsEmpty == TheBox!ClosedBoxIsEmpty

\* Box: a start opens every member before it succeeds, an outbound after those
\* it dials through; a close ends the entries before the exits they feed.
MembersInOrder ==
    []TheBox!ReadyMeansOpen /\ TheBox!DependenciesFirst /\ TheBox!EntriesFirst

\* Box: Close, and a Start that cleans up, return although a member hangs; the
\* two never close `done` both.
CloseReturns == []TheBox!NoPanic /\ TheBox!CloseReturns

\* Emitter: a generation gives every number once and loses none, and traces
\* one owned DNS question.
NumbersAccounted == Events!NumbersAccounted /\ Events!FirstQuestionOnly

\* Emitter: a captured context is never reported for another attempt.
NoBorrowedAttempt == Events!NoBorrowedAttempt

\* Emitter: whatever the sink does, emitting does not wait for it; once it comes
\* back the queue is drained, and what one goroutine emitted arrives in order.
QueueDrains ==
    []Events!OrderOfEmitter /\ Events!EmitNeverWaits /\ Events!QueueDrains

-----------------------------------------------------------------------------
(* Values of the constants.                                                *)

Symmetry == Permutations({e1, e2}) \cup Permutations({a1, a2})

\* Two outbounds in a chain, one of which dials through the endpoint, and an
\* inbound; with a service and a certificate provider besides.
FewMembersOf == [outbound |-> {"selector", "proxy"}, endpoint |-> {"wireguard"},
                 inbound |-> {"tun"}, service |-> {}, certificateProvider |-> {}]

Chain == [selector |-> {"proxy"}, proxy |-> {"wireguard"}, wireguard |-> {}, tun |-> {}]

Circular == [Chain EXCEPT !["wireguard"] = {"selector"}]

AllMembersOf == [FewMembersOf EXCEPT !["service"] = {"resolved"},
                                     !["certificateProvider"] = {"acme"}]

LongChain == Chain @@ [resolved |-> {}, acme |-> {}]
=============================================================================
