------------------------------ MODULE Emitter -------------------------------
(***************************************************************************)
(* The operational event emitter (internal/observability/emitter.go). An   *)
(* event gets its attempt, generation and sequence number under the lock;  *)
(* it is queued after the lock is released, so emitters overtake each      *)
(* other; one goroutine delivers to a sink that the host may replace,      *)
(* take away, let hang or let panic.                                       *)
(*                                                                         *)
(* An event is what the properties tell apart: who emitted it, for which   *)
(* attempt and generation, its number, whether it is the owned DNS         *)
(* question, and the context its emitter had captured, if any. Run and     *)
(* attempt identifiers are one name. Definitions are taken to be valid:    *)
(* validateEvent refuses the others before anything happens. The counters  *)
(* of Snapshot are the sizes of the two histories.                         *)
(***************************************************************************)
EXTENDS Naturals, Sequences, FiniteSets

CONSTANTS
    Emitters,      \* goroutines that emit
    Attempts,      \* attempt identifiers of the host
    Capacity,      \* maximumPending
    MaxGeneration, \* bound: generations the host configures
    MaxEvents,     \* bound: numbers given out in a generation
    None

Contexts == [attempt : Attempts \cup {None}, generation : Nat]

Records ==
    [by : Emitters, attempt : Attempts \cup {None}, generation : Nat,
     sequence : Nat, dns : BOOLEAN, own : Contexts]

EmitterAssumption ==
    /\ Capacity \in Nat \ {0} /\ MaxGeneration \in Nat /\ MaxEvents \in Nat
    /\ None \notin Attempts \cup Records

VARIABLES
    sink,       \* a sink is registered
    context,    \* attempt and generation
    sequence, dnsReceived,
    captured,   \* the context each emitter captured, or None
    held,       \* the event an emitter has numbered and not yet queued
    pending,    \* the channel
    current,    \* what the delivery goroutine holds: an event, or None
    called,     \* it has read a sink and is about to call it
    log,        \* history: events the sink has had, in order
    lost        \* history: events dropped, skipped or panicked on

emitting == <<sink, context, sequence, dnsReceived, captured>>
vars == <<emitting, held, pending, current, called, log, lost>>

NoContext == [attempt |-> None, generation |-> 0]

Init ==
    /\ sink = FALSE /\ context = NoContext
    /\ sequence = 0 /\ dnsReceived = FALSE
    /\ captured = [e \in Emitters |-> NoContext]
    /\ held = [e \in Emitters |-> None]
    /\ pending = <<>> /\ current = None /\ called = FALSE
    /\ log = <<>> /\ lost = {}

-----------------------------------------------------------------------------
(* The host.                                                               *)

SetSink(present) ==
    /\ sink # present
    /\ sink' = present
    /\ UNCHANGED <<context, sequence, dnsReceived, captured, held, pending,
                   current, called, log, lost>>

\* Mutant: the numbers start again whenever an attempt is configured.
BugConfigure(attempt, generation) ==
    /\ generation >= context.generation
    /\ context' = [attempt |-> attempt, generation |-> generation]
    /\ sequence' = 0 /\ dnsReceived' = FALSE
    /\ UNCHANGED <<sink, captured, held, pending, current, called, log, lost>>

\* A stale generation is refused; the same one may change its attempt.
Configure(attempt, generation) ==
    /\ generation >= context.generation
    /\ context' = [attempt |-> attempt, generation |-> generation]
    /\ IF generation > context.generation
       THEN sequence' = 0 /\ dnsReceived' = FALSE
       ELSE UNCHANGED <<sequence, dnsReceived>>
    /\ UNCHANGED <<sink, captured, held, pending, current, called, log, lost>>

CaptureContext(e) ==
    /\ sink /\ context.generation > 0
    /\ captured' = [captured EXCEPT ![e] = context]
    /\ UNCHANGED <<sink, context, sequence, dnsReceived, held, pending, current,
                   called, log, lost>>

-----------------------------------------------------------------------------
(* emit.                                                                   *)

Event(e, dns, own) ==
    [by |-> e, attempt |-> context.attempt, generation |-> context.generation,
     sequence |-> sequence + 1, dns |-> dns, own |-> own]

\* Mutant: a captured context is compared by its generation alone.
BugOwns(own) == own # NoContext => own.generation = context.generation

\* A completion whose owner has changed is refused.
Owns(own) == own # NoContext => own = context

\* The half of emit that runs under the lock; refusals change nothing.
Number(e, dns, own) ==
    /\ held[e] = None /\ sequence < MaxEvents
    /\ sink /\ context.generation > 0 /\ Owns(own)
    /\ dns => ~dnsReceived
    /\ dnsReceived' = (dnsReceived \/ dns)
    /\ sequence' = sequence + 1
    /\ held' = [held EXCEPT ![e] = Event(e, dns, own)]
    /\ UNCHANGED <<sink, context, captured, pending, current, called, log, lost>>

\* The non-blocking send: a full queue drops the event.
Queue(e) ==
    /\ held[e] # None
    /\ \/ /\ Len(pending) < Capacity
          /\ pending' = Append(pending, held[e])
          /\ UNCHANGED lost
       \/ /\ Len(pending) = Capacity
          /\ lost' = lost \cup {held[e]}
          /\ UNCHANGED pending
    /\ held' = [held EXCEPT ![e] = None]
    /\ UNCHANGED <<emitting, current, called, log>>

-----------------------------------------------------------------------------
(* deliver.                                                                *)

Take ==
    /\ current = None /\ pending # <<>>
    /\ current' = Head(pending)
    /\ pending' = Tail(pending)
    /\ UNCHANGED <<emitting, held, called, log, lost>>

\* Mutant: without a sink the delivery waits for one.
BugReadSink ==
    /\ current # None /\ ~called /\ sink
    /\ called' = TRUE
    /\ UNCHANGED <<emitting, held, pending, current, log, lost>>

\* The sink is read under the lock and called without it.
ReadSink ==
    /\ current # None /\ ~called
    /\ \/ sink /\ called' = TRUE /\ UNCHANGED <<current, lost>>
       \/ /\ ~sink /\ current' = None /\ lost' = lost \cup {current}
          /\ UNCHANGED called
    /\ UNCHANGED <<emitting, held, pending, log>>

SinkPanics ==
    /\ called
    /\ lost' = lost \cup {current}
    /\ current' = None /\ called' = FALSE
    /\ UNCHANGED <<emitting, held, pending, log>>

SinkReturns ==
    /\ called
    /\ log' = Append(log, current)
    /\ current' = None /\ called' = FALSE
    /\ UNCHANGED <<emitting, held, pending, lost>>

Next ==
    \/ \E present \in BOOLEAN : SetSink(present)
    \/ \E a \in Attempts, g \in 1 .. MaxGeneration : Configure(a, g)
    \/ \E e \in Emitters :
          \/ CaptureContext(e) \/ Queue(e)
          \/ \E dns \in BOOLEAN, own \in {NoContext, captured[e]} :
                Number(e, dns, own)
    \/ Take \/ ReadSink \/ SinkPanics \/ SinkReturns

Spec == Init /\ [][Next]_vars

\* Emitters run; the delivery goroutine runs; the sink may hang for ever.
Fairness ==
    (\A e \in Emitters : WF_vars(Queue(e))) /\ WF_vars(Take) /\ WF_vars(ReadSink)

FairSpec == Spec /\ Fairness

\* The sink comes back, one way or the other.
SinkComesBack == WF_vars(SinkPanics \/ SinkReturns)

-----------------------------------------------------------------------------
(* Properties.                                                             *)

InFlight ==
    {held[e] : e \in Emitters} \cup {current}
      \cup {pending[i] : i \in 1 .. Len(pending)}
Delivered == {log[i] : i \in 1 .. Len(log)}
Events == (InFlight \cup Delivered \cup lost) \ {None}

\* Every variable has its type.
TypeOK ==
    /\ sink \in BOOLEAN /\ dnsReceived \in BOOLEAN /\ called \in BOOLEAN
    /\ context \in Contexts /\ captured \in [Emitters -> Contexts]
    /\ sequence \in 0 .. MaxEvents
    /\ held \in [Emitters -> Records \cup {None}]
    /\ pending \in Seq(Records) /\ Len(pending) <= Capacity
    /\ current \in Records \cup {None} /\ (called => current # None)
    /\ log \in Seq(Records) /\ lost \subseteq Records

\* Events that overtake each other between the lock and the queue still have
\* numbers of their own: a generation gives no number twice, and every number
\* it gave is in flight, delivered or lost, once.
NumbersAccounted ==
    /\ \A x, y \in Events :
          x.generation = y.generation /\ x.sequence = y.sequence => x = y
    /\ {x.sequence : x \in {z \in Events : z.generation = context.generation}}
          = 1 .. sequence

\* A completion that captured its context before the attempt was over is
\* never reported for another attempt.
NoBorrowedAttempt ==
    \A x \in Events : x.own # NoContext =>
        x.own = [attempt |-> x.attempt, generation |-> x.generation]

\* One owned DNS question is traced in a generation, whatever attempts the
\* host configures in it.
FirstQuestionOnly ==
    \A x, y \in Events :
        x.dns /\ y.dns /\ x.generation = y.generation => x = y

\* What one goroutine emits reaches the sink in the order it was emitted.
OrderOfEmitter ==
    \A i, j \in 1 .. Len(log) :
        i < j /\ log[i].by = log[j].by =>
            \/ log[i].generation < log[j].generation
            \/ /\ log[i].generation = log[j].generation
               /\ log[i].sequence < log[j].sequence

\* Emitting never waits for the host, even when the sink never comes back.
EmitNeverWaits == \A e \in Emitters : held[e] # None ~> held[e] = None

\* A sink that panics does not end the delivery: as long as it comes back one
\* way or the other, what is queued is delivered or counted.
QueueDrains == SinkComesBack => (pending # <<>> ~> pending = <<>>)
=============================================================================
