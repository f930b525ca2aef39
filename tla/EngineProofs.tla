---------------------------- MODULE EngineProofs ----------------------------
(***************************************************************************)
(* What TLAPS proves of the event emitter and of one engine instance, for  *)
(* any number of emitting goroutines, attempts, managers and members.      *)
(***************************************************************************)
EXTENDS MCEngine, StartedServiceProofs

-----------------------------------------------------------------------------
(* Sequences of events.                                                    *)

\* What an event enters at the end of, or leaves at the front of.
LEMMA Appended ==
  ASSUME NEW S, NEW s \in Seq(S), NEW x \in S
  PROVE  /\ Append(s, x) \in Seq(S) /\ Len(Append(s, x)) = Len(s) + 1
         /\ Append(s, x)[Len(s) + 1] = x
         /\ \A i \in 1 .. Len(s) : Append(s, x)[i] = s[i]
         /\ {Append(s, x)[i] : i \in 1 .. Len(Append(s, x))}
              = {s[i] : i \in 1 .. Len(s)} \cup {x}
<1>1. /\ Append(s, x) \in Seq(S) /\ Len(Append(s, x)) = Len(s) + 1 /\ Len(s) \in Nat
      /\ Append(s, x)[Len(s) + 1] = x
      /\ \A i \in 1 .. Len(s) : Append(s, x)[i] = s[i]
  OBVIOUS
<1>2. ASSUME NEW i \in 1 .. Len(s) + 1
      PROVE  i = Len(s) + 1 \/ i \in 1 .. Len(s)
  BY <1>1
<1>3. Len(s) + 1 \in 1 .. Len(s) + 1 /\ \A i \in 1 .. Len(s) : i \in 1 .. Len(s) + 1
  BY <1>1
<1> DEFINE t == Append(s, x)
           n == Len(s)
           m == Len(t)
<1> HIDE DEF t, n, m
<1>4. /\ t[n + 1] = x /\ m = n + 1
      /\ \A i \in 1 .. n : t[i] = s[i]
      /\ n + 1 \in 1 .. n + 1
      /\ \A i \in 1 .. n : i \in 1 .. n + 1
      /\ \A i \in 1 .. n + 1 : i = n + 1 \/ i \in 1 .. n
  BY <1>1, <1>2, <1>3 DEF t, n, m
<1>5. {t[i] : i \in 1 .. m} = {s[i] : i \in 1 .. n} \cup {x}
  <2> DEFINE D == 1 .. n
             E == 1 .. m
             k == n + 1
  <2>1. /\ t[k] = x /\ k \in E
        /\ \A i \in D : t[i] = s[i] /\ i \in E
        /\ \A i \in E : i = k \/ i \in D
    BY <1>4
  <2> HIDE DEF D, E, k
  <2>2. {t[i] : i \in E} = {s[i] : i \in D} \cup {x}
    BY <2>1, Zenon
  <2>3. QED
    BY <2>2 DEF D, E
<1>6. QED
  BY <1>1, <1>5 DEF t, n, m

LEMMA Taken ==
  ASSUME NEW S, NEW s \in Seq(S), s # <<>>
  PROVE  /\ Head(s) \in S /\ Head(s) = s[1]
         /\ Tail(s) \in Seq(S) /\ Len(Tail(s)) = Len(s) - 1 /\ Len(s) > 0
         /\ \A i \in 1 .. Len(Tail(s)) : Tail(s)[i] = s[i + 1]
         /\ {s[i] : i \in 1 .. Len(s)}
              = {Tail(s)[i] : i \in 1 .. Len(Tail(s))} \cup {Head(s)}
<1>1. /\ Head(s) \in S /\ Head(s) = s[1] /\ Len(s) \in Nat /\ Len(s) > 0
      /\ Tail(s) \in Seq(S) /\ Len(Tail(s)) = Len(s) - 1
      /\ \A i \in 1 .. Len(Tail(s)) : Tail(s)[i] = s[i + 1]
  OBVIOUS
<1>2. ASSUME NEW y PROVE y \in {s[i] : i \in 1 .. Len(s)}
        <=> y \in {Tail(s)[i] : i \in 1 .. Len(Tail(s))} \cup {Head(s)}
  <2>1. ASSUME NEW i \in 1 .. Len(s), y = s[i]
        PROVE  y = Head(s) \/ \E j \in 1 .. Len(Tail(s)) : y = Tail(s)[j]
    <3>1. CASE i = 1
      BY <1>1, <2>1, <3>1
    <3>2. CASE i # 1
      <4>1. i - 1 \in 1 .. Len(Tail(s)) /\ (i - 1) + 1 = i
        BY <1>1, <3>2
      <4>2. Tail(s)[i - 1] = s[i]
        BY <1>1, <4>1
      <4>3. QED
        BY <2>1, <4>1, <4>2
    <3>3. QED
      BY <3>1, <3>2
  <2>2. ASSUME NEW j \in 1 .. Len(Tail(s)), y = Tail(s)[j]
        PROVE  \E i \in 1 .. Len(s) : y = s[i]
    <3>1. j + 1 \in 1 .. Len(s)
      BY <1>1
    <3>2. QED
      BY <1>1, <2>2, <3>1
  <2>3. 1 \in 1 .. Len(s)
    BY <1>1
  <2>4. QED
    BY <1>1, <2>1, <2>2, <2>3
<1>3. QED
  BY <1>1, <1>2

-----------------------------------------------------------------------------
(* The event emitter.                                                      *)

\* No event is ahead of the counters it was numbered from.
CounterInv ==
    \A x \in Events!Events :
        /\ x.generation <= context.generation
        /\ x.generation = context.generation =>
             x.sequence <= sequence /\ (x.dns => dnsReceived)

EventInv ==
    /\ Events!TypeOK /\ CounterInv
    /\ NumbersAccounted /\ NoBorrowedAttempt

LEMMA EventInit == Events!Init => EventInv
<1> SUFFICES ASSUME Events!Init PROVE EventInv
  OBVIOUS
<1>1. Events!TypeOK
  <2>1. Events!NoContext \in Events!Contexts
    BY DEF Events!NoContext, Events!Contexts
  <2>2. /\ 0 \in 0 .. MaxEvents /\ Len(<<>>) <= Capacity
        /\ <<>> \in Seq(Events!Records)
    BY EmitterConstants DEF Events!EmitterAssumption
  <2>3. /\ held \in [Emitters -> Events!Records \cup {None}]
        /\ captured \in [Emitters -> Events!Contexts]
    BY <2>1 DEF Events!Init
  <2>4. QED
    BY <2>1, <2>2, <2>3 DEF Events!Init, Events!TypeOK
<1>2. Events!Events = {}
  <2>1. /\ \A e \in Emitters : held[e] = None
        /\ current = None /\ pending = <<>> /\ log = <<>> /\ lost = {}
    BY DEF Events!Init
  <2>2. 1 .. Len(pending) = {} /\ 1 .. Len(log) = {}
    BY <2>1
  <2>3. QED
    BY <2>1, <2>2 DEF Events!Events, Events!InFlight, Events!Delivered
<1>3. 1 .. sequence = {}
  BY DEF Events!Init
<1>4. QED
  BY <1>1, <1>2, <1>3 DEF EventInv, CounterInv, NumbersAccounted, NoBorrowedAttempt,
     Events!NumbersAccounted, Events!FirstQuestionOnly, Events!NoBorrowedAttempt

\* No action gives a variable of the emitter a value outside its type.
LEMMA EventTypes == Events!TypeOK /\ [Events!Next]_eventVars => Events!TypeOK'
<1> SUFFICES ASSUME Events!TypeOK, [Events!Next]_eventVars PROVE Events!TypeOK'
  OBVIOUS
<1> USE DEF Events!TypeOK, Events!emitting
<1>1. ASSUME NEW present \in BOOLEAN, Events!SetSink(present) PROVE Events!TypeOK'
  BY <1>1 DEF Events!SetSink
<1>2. ASSUME NEW a \in Attempts, NEW g \in 1 .. MaxGeneration, Events!Configure(a, g)
      PROVE  Events!TypeOK'
  <2>1. context' \in Events!Contexts
    BY <1>2 DEF Events!Configure, Events!Contexts
  <2>2. sequence' \in 0 .. MaxEvents /\ dnsReceived' \in BOOLEAN
    <3>1. 0 \in 0 .. MaxEvents
      BY EmitterConstants DEF Events!EmitterAssumption
    <3>2. (sequence' = 0 /\ dnsReceived' = FALSE) \/ UNCHANGED <<sequence, dnsReceived>>
      BY <1>2 DEF Events!Configure
    <3>3. QED
      BY <3>1, <3>2
  <2>3. QED
    BY <1>2, <2>1, <2>2 DEF Events!Configure
<1>3. ASSUME NEW e \in Emitters, Events!CaptureContext(e) PROVE Events!TypeOK'
  BY <1>3 DEF Events!CaptureContext
<1>4. ASSUME NEW e \in Emitters, Events!Queue(e) PROVE Events!TypeOK'
  <2>1. held[e] \in Events!Records
    BY <1>4 DEF Events!Queue
  <2>2. held' \in [Emitters -> Events!Records \cup {None}] /\ lost' \subseteq Events!Records
    BY <1>4, <2>1 DEF Events!Queue
  <2>3. pending' \in Seq(Events!Records) /\ Len(pending') <= Capacity
    <3>1. /\ Append(pending, held[e]) \in Seq(Events!Records)
          /\ Len(Append(pending, held[e])) = Len(pending) + 1
      BY <2>1, Appended
    <3>2. Len(pending) \in Nat /\ Capacity \in Nat
      BY EmitterConstants DEF Events!EmitterAssumption
    <3>3. QED
      BY <1>4, <3>1, <3>2, SMTT(30) DEF Events!Queue
  <2>4. QED
    BY <1>4, <2>2, <2>3 DEF Events!Queue
<1>5. ASSUME NEW e \in Emitters, NEW dns \in BOOLEAN,
             NEW own \in {Events!NoContext, captured[e]}, Events!Number(e, dns, own)
      PROVE  Events!TypeOK'
  <2>1. sequence' \in 0 .. MaxEvents /\ sequence + 1 \in Nat /\ dnsReceived' \in BOOLEAN
    BY <1>5, EmitterConstants DEF Events!Number, Events!EmitterAssumption
  <2>2. own \in Events!Contexts
    BY DEF Events!NoContext, Events!Contexts
  <2>3. Events!Event(e, dns, own) \in Events!Records
    BY <2>1, <2>2 DEF Events!Event, Events!Records, Events!Contexts
  <2>4. QED
    BY <1>5, <2>1, <2>3 DEF Events!Number
<1>6. CASE Events!Take
  <2>1. /\ Head(pending) \in Events!Records /\ Tail(pending) \in Seq(Events!Records)
        /\ Len(Tail(pending)) <= Capacity /\ current = None
    <3>1. /\ Head(pending) \in Events!Records /\ Tail(pending) \in Seq(Events!Records)
          /\ Len(Tail(pending)) = Len(pending) - 1
      BY <1>6, Taken DEF Events!Take
    <3>2. Len(pending) \in Nat /\ Capacity \in Nat
      BY EmitterConstants DEF Events!EmitterAssumption
    <3>3. QED
      BY <1>6, <3>1, <3>2 DEF Events!Take
  <2>2. QED
    BY <1>6, <2>1 DEF Events!Take
<1>7. CASE Events!ReadSink
  <2>1. /\ UNCHANGED <<sink, context, sequence, dnsReceived, captured, held, pending, log>>
        /\ current \in Events!Records
    BY <1>7 DEF Events!ReadSink
  <2>2. CASE called' = TRUE /\ current' = current /\ lost' = lost
    BY <1>7, <2>1, <2>2 DEF Events!ReadSink
  <2>3. CASE current' = None /\ lost' = lost \cup {current} /\ called' = called /\ ~called
    BY <2>1, <2>3
  <2>4. QED
    BY <1>7, <2>2, <2>3, Zenon DEF Events!ReadSink
<1>8. CASE Events!SinkPanics
  BY <1>8 DEF Events!SinkPanics
<1>9. CASE Events!SinkReturns
  <2>1. current \in Events!Records
    BY <1>9 DEF Events!SinkReturns
  <2>2. log' \in Seq(Events!Records)
    BY <1>9, <2>1, Appended DEF Events!SinkReturns
  <2>3. QED
    BY <1>9, <2>2 DEF Events!SinkReturns
<1>10. CASE UNCHANGED eventVars
  BY <1>10 DEF eventVars
<1>11. QED
  BY <1>1, <1>2, <1>3, <1>4, <1>5, <1>6, <1>7, <1>8, <1>9, <1>10 DEF Events!Next

\* Between the lock, the queue, the delivery goroutine and the sink an event is
\* handed on: none is invented and none disappears. A number adds one event.
LEMMA EventsKept ==
  ASSUME Events!TypeOK, [Events!Next]_eventVars
  PROVE  \/ /\ Events!Events' = Events!Events
            /\ \/ UNCHANGED <<context, sequence, dnsReceived>>
               \/ \E a \in Attempts, g \in 1 .. MaxGeneration : Events!Configure(a, g)
         \/ \E e \in Emitters, dns \in BOOLEAN :
              \E own \in {Events!NoContext, captured[e]} :
                 /\ Events!Number(e, dns, own)
                 /\ Events!Events' = Events!Events \cup {Events!Event(e, dns, own)}
<1> DEFINE Held == {held[e] : e \in Emitters}
           Waiting == {pending[i] : i \in 1 .. Len(pending)}
           Had == {log[i] : i \in 1 .. Len(log)}
<1>0. Events!Events = (Held \cup {current} \cup Waiting \cup Had \cup lost) \ {None}
  BY DEF Events!Events, Events!InFlight, Events!Delivered
<1>a. Events!Events' = (Held' \cup {current'} \cup Waiting' \cup Had' \cup lost') \ {None}
  BY DEF Events!Events, Events!InFlight, Events!Delivered
<1>b. None \notin Events!Records
  BY EmitterConstants DEF Events!EmitterAssumption
<1> USE DEF Events!emitting
<1>1. ASSUME UNCHANGED <<held, pending, current, log, lost>>
      PROVE  Events!Events' = Events!Events
  BY <1>1 DEF Events!Events, Events!InFlight, Events!Delivered
<1>2. ASSUME NEW e \in Emitters, NEW v, held' = [held EXCEPT ![e] = v],
             held[e] # None => v = None
      PROVE  Held' \cup {held[e]} \cup {None} = Held \cup {v} \cup {None}
  <2>1. held'[e] = v /\ \A d \in Emitters \ {e} : held'[d] = held[d]
    BY <1>2 DEF Events!TypeOK
  <2>2. QED
    BY <1>2, <2>1
<1>3. ASSUME NEW e \in Emitters, Events!Queue(e) PROVE Events!Events' = Events!Events
  <2>1. /\ held' = [held EXCEPT ![e] = None] /\ held[e] \in Events!Records
        /\ held[e] # None /\ current' = current /\ log' = log
    BY <1>3 DEF Events!Queue, Events!TypeOK
  <2>2. Held' \cup {held[e]} \cup {None} = Held \cup {None}
    BY <1>2, <2>1
  <2>3. Waiting' \cup lost' = Waiting \cup lost \cup {held[e]}
    <3>1. CASE pending' = Append(pending, held[e]) /\ lost' = lost
      <4>1. Waiting' = Waiting \cup {held[e]}
        BY <2>1, <3>1, Appended DEF Events!TypeOK
      <4>2. QED
        BY <3>1, <4>1
    <3>2. CASE lost' = lost \cup {held[e]} /\ pending' = pending
      BY <3>2
    <3>3. QED
      BY <1>3, <3>1, <3>2 DEF Events!Queue
  <2>4. Had' = Had /\ held[e] \in Held
    BY <2>1
  <2> HIDE DEF Held, Waiting, Had
  <2>5. QED
    BY <1>0, <1>a, <2>1, <2>2, <2>3, <2>4
<1>4. ASSUME NEW e \in Emitters, NEW dns, NEW own, Events!Number(e, dns, own)
      PROVE  Events!Events' \cup {None}
                = Events!Events \cup {Events!Event(e, dns, own)} \cup {None}
  <2> DEFINE ev == Events!Event(e, dns, own)
  <2>1. /\ held[e] = None /\ held' = [held EXCEPT ![e] = ev]
        /\ UNCHANGED <<pending, current, log, lost>>
    BY <1>4 DEF Events!Number
  <2> HIDE DEF ev
  <2>2. Held' \cup {None} = Held \cup {ev} \cup {None}
    BY <1>2, <2>1
  <2>3. Waiting' = Waiting /\ Had' = Had
    BY <2>1
  <2> HIDE DEF Held, Waiting, Had
  <2>4. Events!Events' \cup {None} = Events!Events \cup {ev} \cup {None}
    BY <1>0, <1>a, <2>1, <2>2, <2>3
  <2>5. QED
    BY <2>4 DEF ev
<1>5. ASSUME NEW e \in Emitters, NEW dns \in BOOLEAN,
             NEW own \in {Events!NoContext, captured[e]}, Events!Number(e, dns, own)
      PROVE  Events!Events' = Events!Events \cup {Events!Event(e, dns, own)}
  <2>1. Events!TypeOK'
    BY <1>5, EventTypes DEF Events!Next
  <2>2. held'[e] = Events!Event(e, dns, own)
    BY <1>5 DEF Events!Number, Events!TypeOK
  <2>3. Events!Event(e, dns, own) # None
    <3>1. Events!Event(e, dns, own) \in Events!Records
      <4>1. sequence + 1 \in Nat
        BY DEF Events!TypeOK
      <4>2. own \in Events!Contexts
        BY DEF Events!NoContext, Events!Contexts, Events!TypeOK
      <4>3. QED
        BY <4>1, <4>2 DEF Events!Event, Events!Records, Events!Contexts, Events!TypeOK
    <3>2. QED
      BY <1>b, <3>1
  <2>4. None \notin Events!Events /\ None \notin Events!Events'
    BY <1>0, <1>a
  <2>5. QED
    BY <1>4, <1>5, <2>3, <2>4
<1>6. CASE Events!Take
  <2>1. /\ UNCHANGED <<held, log, lost>> /\ current = None
        /\ pending # <<>> /\ current' = Head(pending) /\ pending' = Tail(pending)
    BY <1>6 DEF Events!Take
  <2>2. Waiting = Waiting' \cup {current'}
    <3>1. pending \in Seq(Events!Records) /\ pending # <<>>
      BY <2>1 DEF Events!TypeOK
    <3>2. Waiting = {Tail(pending)[i] : i \in 1 .. Len(Tail(pending))} \cup {Head(pending)}
      BY <3>1, Taken
    <3>3. QED
      BY <2>1, <3>2
  <2>3. Held' = Held /\ Had' = Had
    BY <2>1
  <2> HIDE DEF Held, Waiting, Had
  <2>4. Events!Events' = Events!Events
    BY <1>0, <1>a, <2>1, <2>2, <2>3
  <2>5. QED
    BY <1>6, <2>4 DEF Events!Take
<1>7. CASE Events!ReadSink \/ Events!SinkPanics
  <2>1. UNCHANGED <<held, log, pending>> /\ (current' = current \/ current' = None)
        /\ lost' \cup {current'} \cup {None} = lost \cup {current} \cup {None}
    BY <1>7 DEF Events!ReadSink, Events!SinkPanics
  <2>2. Held' = Held /\ Had' = Had /\ Waiting' = Waiting
    BY <2>1
  <2> HIDE DEF Held, Waiting, Had
  <2>3. Events!Events' = Events!Events
    BY <1>0, <1>a, <2>1, <2>2
  <2>4. QED
    BY <1>7, <2>3 DEF Events!ReadSink, Events!SinkPanics
<1>8. CASE Events!SinkReturns
  <2>1. /\ UNCHANGED <<held, lost, pending>> /\ current' = None
        /\ current \in Events!Records /\ log' = Append(log, current)
    BY <1>8 DEF Events!SinkReturns, Events!TypeOK
  <2>2. Had' = Had \cup {current}
    BY <2>1, Appended DEF Events!TypeOK
  <2>3. Held' = Held /\ Waiting' = Waiting
    BY <2>1
  <2> HIDE DEF Held, Waiting, Had
  <2>4. Events!Events' = Events!Events
    BY <1>0, <1>a, <2>1, <2>2, <2>3
  <2>5. QED
    BY <1>8, <2>4 DEF Events!SinkReturns
<1>9. ASSUME \/ UNCHANGED eventVars
             \/ \E present \in BOOLEAN : Events!SetSink(present)
             \/ \E a \in Attempts, g \in 1 .. MaxGeneration : Events!Configure(a, g)
             \/ \E e \in Emitters : Events!CaptureContext(e)
      PROVE  Events!Events' = Events!Events
  <2>1. UNCHANGED <<held, pending, current, log, lost>>
    BY <1>9 DEF eventVars, Events!SetSink, Events!Configure, Events!CaptureContext
  <2>2. QED
    BY <1>1, <2>1
<1>10. ASSUME \/ UNCHANGED eventVars
              \/ \E present \in BOOLEAN : Events!SetSink(present)
              \/ \E e \in Emitters : Events!CaptureContext(e) \/ Events!Queue(e)
       PROVE  UNCHANGED <<context, sequence, dnsReceived>>
  BY <1>10 DEF eventVars, Events!SetSink, Events!CaptureContext, Events!Queue
<1>11. QED
  BY <1>3, <1>5, <1>6, <1>7, <1>8, <1>9, <1>10 DEF Events!Next

\* An event is a record, wherever it is.
LEMMA EventRecords == Events!TypeOK => Events!Events \subseteq Events!Records
<1> SUFFICES ASSUME Events!TypeOK PROVE Events!Events \subseteq Events!Records
  OBVIOUS
<1>1. /\ \A i \in 1 .. Len(pending) : pending[i] \in Events!Records
      /\ \A i \in 1 .. Len(log) : log[i] \in Events!Records
  BY DEF Events!TypeOK
<1>2. QED
  BY <1>1 DEF Events!TypeOK, Events!Events, Events!InFlight, Events!Delivered

\* The numbers of a generation are those of its counter, whoever overtakes whom.
LEMMA EventStep == EventInv /\ [Events!Next]_eventVars => EventInv'
<1> SUFFICES ASSUME EventInv, [Events!Next]_eventVars PROVE EventInv'
  OBVIOUS
<1> DEFINE All == Events!Events
           Own(x) == x.own # Events!NoContext =>
                       x.own = [attempt |-> x.attempt, generation |-> x.generation]
           Unique(S) == \A x, y \in S :
                          x.generation = y.generation /\ x.sequence = y.sequence => x = y
           Asked(S) == \A x, y \in S :
                          x.dns /\ y.dns /\ x.generation = y.generation => x = y
           Numbers(S, g) == {x.sequence : x \in {z \in S : z.generation = g}}
           Behind(S, g, n, d) ==
             \A x \in S : /\ x.generation <= g
                          /\ x.generation = g => x.sequence <= n /\ (x.dns => d)
           Good(S, g, n, d) ==
             /\ Behind(S, g, n, d) /\ Unique(S) /\ Asked(S)
             /\ Numbers(S, g) = 1 .. n
             /\ \A x \in S : Own(x)
<1>1. Events!TypeOK /\ Events!TypeOK'
  BY EventTypes DEF EventInv
<1>2. /\ context.generation \in Nat /\ context'.generation \in Nat
      /\ sequence \in Nat /\ sequence' \in Nat
  BY <1>1 DEF Events!TypeOK, Events!Contexts
<1>3. \A x \in All : x.generation \in Nat /\ x.sequence \in Nat
  BY <1>1, EventRecords DEF Events!Records
<1>4. Good(All, context.generation, sequence, dnsReceived)
  BY DEF EventInv, CounterInv, NumbersAccounted, NoBorrowedAttempt,
     Events!NumbersAccounted, Events!FirstQuestionOnly, Events!NoBorrowedAttempt
<1>5. Good(All', context'.generation, sequence', dnsReceived') /\ Events!TypeOK' => EventInv'
  BY DEF EventInv, CounterInv, NumbersAccounted, NoBorrowedAttempt,
     Events!NumbersAccounted, Events!FirstQuestionOnly, Events!NoBorrowedAttempt
<1>6. ASSUME NEW a \in Attempts, NEW g \in 1 .. MaxGeneration, Events!Configure(a, g),
             All' = All
      PROVE  Good(All', context'.generation, sequence', dnsReceived')
  <2>1. context'.generation = g /\ g >= context.generation /\ g \in Nat
    BY <1>6 DEF Events!Configure
  <2>2. CASE g = context.generation
    BY <1>2, <1>4, <1>6, <2>1, <2>2 DEF Events!Configure
  <2>3. CASE g > context.generation
    <3>1. sequence' = 0
      BY <1>6, <2>3 DEF Events!Configure
    <3>2. \A x \in All : x.generation < g
      BY <1>2, <1>3, <1>4, <2>1, <2>3
    <3>3. 1 .. sequence' = {} /\ \A x \in All : x.generation # g /\ x.generation <= g
      BY <1>3, <2>1, <3>1, <3>2
    <3>4. Behind(All', context'.generation, sequence', dnsReceived')
      BY <1>6, <2>1, <3>3
    <3>5. Numbers(All', context'.generation) = 1 .. sequence'
      BY <1>6, <2>1, <3>3
    <3>6. QED
      BY <1>4, <1>6, <3>4, <3>5
  <2>4. QED
    BY <1>2, <2>1, <2>2, <2>3
<1>7. ASSUME NEW e \in Emitters, NEW dns \in BOOLEAN,
             NEW own \in {Events!NoContext, captured[e]}, Events!Number(e, dns, own),
             All' = All \cup {Events!Event(e, dns, own)}
      PROVE  Good(All', context'.generation, sequence', dnsReceived')
  <2> DEFINE ev == Events!Event(e, dns, own)
             g == context.generation
             n == sequence + 1
  <2>1. /\ ev.generation = g /\ ev.sequence = n /\ ev.dns = dns /\ ev.own = own
        /\ ev.attempt = context.attempt
    BY DEF Events!Event
  <2>2. /\ context' = context /\ sequence' = n /\ (dns => ~dnsReceived)
        /\ dnsReceived' = (dnsReceived \/ dns)
        /\ own # Events!NoContext => own = context
    BY <1>7 DEF Events!Number, Events!Owns
  <2>3. Own(ev)
    <3>1. context = [attempt |-> context.attempt, generation |-> context.generation]
      BY <1>1 DEF Events!TypeOK, Events!Contexts
    <3>2. QED
      BY <2>1, <2>2, <3>1
  <2> HIDE DEF ev
  <2>4. All' = All \cup {ev}
    BY <1>7 DEF ev
  <2>5. \A x \in All : x.generation = g => x.sequence < n
    BY <1>2, <1>3, <1>4
  <2>6. Unique(All')
    <3>1. \A x \in All : x.generation = ev.generation => x.sequence # ev.sequence
      BY <1>2, <1>3, <2>1, <2>5
    <3>2. QED
      BY <1>4, <2>4, <3>1, Zenon
  <2>7. Asked(All')
    <3>1. \A x \in All : x.generation = ev.generation /\ ev.dns => ~x.dns
      BY <1>4, <2>1, <2>2
    <3>2. QED
      BY <1>4, <2>4, <3>1, Zenon
  <2>8. Behind(All', g, n, dnsReceived')
    <3>1. ASSUME NEW x \in All
          PROVE  /\ x.generation <= g
                 /\ x.generation = g => x.sequence <= n /\ (x.dns => dnsReceived')
      <4>1. x.generation \in Nat /\ x.sequence \in Nat /\ x.generation <= g
        BY <1>3, <1>4
      <4>2. x.generation = g => x.sequence <= n
        BY <1>2, <2>5, <4>1
      <4>3. x.generation = g => (x.dns => dnsReceived')
        BY <1>4, <2>2
      <4>4. QED
        BY <4>1, <4>2, <4>3
    <3>2. /\ ev.generation <= g
          /\ ev.generation = g => ev.sequence <= n /\ (ev.dns => dnsReceived')
      BY <1>2, <2>1, <2>2
    <3>3. QED
      BY <2>4, <3>1, <3>2
  <2>9. Numbers(All', g) = 1 .. n
    <3>1. Numbers(All', g) = Numbers(All, g) \cup {n}
      BY <2>1, <2>4
    <3>2. 1 .. n = (1 .. sequence) \cup {n}
      BY <1>2
    <3>3. QED
      BY <1>4, <3>1, <3>2
  <2>10. QED
    BY <1>4, <2>2, <2>3, <2>4, <2>6, <2>7, <2>8, <2>9
<1>8. ASSUME All' = All, UNCHANGED <<context, sequence, dnsReceived>>
      PROVE  Good(All', context'.generation, sequence', dnsReceived')
  BY <1>4, <1>8
<1>9. QED
  BY <1>1, <1>5, <1>6, <1>7, <1>8, EventsKept

engineVars == <<part, vars, boxVars, eventVars>>

\* Whatever part of the run moves, the emitter takes a step of its own or none.
LEMMA StepOfEvents == [EngineNext]_engineVars => [Events!Next]_eventVars
  BY DEF EngineNext, engineVars

\* The invariant of the emitter holds in every reachable state.
THEOREM EventInvariance == EngineSpec => []EventInv
<1>1. EngineInit => EventInv
  BY EventInit DEF EngineInit
<1>2. EventInv /\ [EngineNext]_engineVars => EventInv'
  BY StepOfEvents, EventStep
<1>3. QED
  BY <1>1, <1>2, PTL DEF EngineSpec, engineVars

\* emit numbers under the lock and queues after it: a generation gives every
\* number once, loses none, and traces one owned DNS question.
THEOREM NumbersAreAccounted == EngineSpec => []NumbersAccounted
<1>1. EventInv => NumbersAccounted
  BY DEF EventInv
<1>2. QED
  BY <1>1, EventInvariance, PTL

\* A completion whose captured owner changed is refused by emit, so that no
\* event carries the attempt of another owner.
THEOREM AttemptsAreOwn == EngineSpec => []NoBorrowedAttempt
<1>1. EventInv => NoBorrowedAttempt
  BY DEF EventInv
<1>2. QED
  BY <1>1, EventInvariance, PTL

-----------------------------------------------------------------------------
(* The order of one goroutine's events.                                    *)

\* x was numbered before y, if one goroutine emitted both.
Before(x, y) ==
    x.by = y.by => \/ x.generation < y.generation
                   \/ x.generation = y.generation /\ x.sequence < y.sequence

Sorted(s) == \A i, j \in 1 .. Len(s) : i < j => Before(s[i], s[j])
Precede(S, T) == \A x \in S, y \in T : Before(x, y)

Queued == {pending[i] : i \in 1 .. Len(pending)}
InHand == {current} \ {None}

\* What the sink had comes before what the delivery goroutine holds, that before
\* the queue, and all of it before what an emitter has still to queue.
OrderInv ==
    /\ Sorted(log) /\ Sorted(pending)
    /\ Precede(Events!Delivered, InHand) /\ Precede(Events!Delivered, Queued)
    /\ Precede(InHand, Queued)
    /\ \A e \in Emitters : held[e] # None =>
         /\ held[e].by = e
         /\ \A x \in Events!Delivered \cup InHand \cup Queued : Before(x, held[e])

LEMMA SortedAppend ==
  ASSUME NEW S, NEW s \in Seq(S), NEW x \in S, Sorted(s),
         \A i \in 1 .. Len(s) : Before(s[i], x)
  PROVE  Sorted(Append(s, x))
<1> SUFFICES ASSUME NEW i \in 1 .. Len(Append(s, x)), NEW j \in 1 .. Len(Append(s, x)), i < j
             PROVE  Before(Append(s, x)[i], Append(s, x)[j])
  BY DEF Sorted
<1>1. /\ Len(Append(s, x)) = Len(s) + 1 /\ Append(s, x)[Len(s) + 1] = x /\ Len(s) \in Nat
      /\ \A k \in 1 .. Len(s) : Append(s, x)[k] = s[k]
  BY Appended
<1>2. i \in 1 .. Len(s) /\ (j \in 1 .. Len(s) \/ j = Len(s) + 1)
  BY <1>1
<1>3. QED
  BY <1>1, <1>2 DEF Sorted

LEMMA SortedTail ==
  ASSUME NEW S, NEW s \in Seq(S), s # <<>>, Sorted(s)
  PROVE  /\ Sorted(Tail(s))
         /\ \A i \in 1 .. Len(Tail(s)) : Before(Head(s), Tail(s)[i])
<1>1. /\ Head(s) = s[1] /\ Len(Tail(s)) = Len(s) - 1 /\ Len(s) \in Nat /\ Len(s) > 0
      /\ \A i \in 1 .. Len(Tail(s)) : Tail(s)[i] = s[i + 1]
  BY Taken
<1>2. \A i \in 1 .. Len(Tail(s)) : i + 1 \in 1 .. Len(s) /\ 1 < i + 1 /\ 1 \in 1 .. Len(s)
  BY <1>1
<1>3. \A i \in 1 .. Len(Tail(s)) : Before(Head(s), Tail(s)[i])
  BY <1>1, <1>2 DEF Sorted
<1>4. ASSUME NEW i \in 1 .. Len(Tail(s)), NEW j \in 1 .. Len(Tail(s)), i < j
      PROVE  Before(Tail(s)[i], Tail(s)[j])
  <2>1. i + 1 < j + 1 /\ i + 1 \in 1 .. Len(s) /\ j + 1 \in 1 .. Len(s)
    BY <1>2, <1>4
  <2>2. Before(s[i + 1], s[j + 1])
    BY <2>1 DEF Sorted
  <2>3. QED
    BY <1>1, <2>2
<1>5. QED
  BY <1>3, <1>4 DEF Sorted

LEMMA OrderInit == Events!Init => OrderInv
<1> SUFFICES ASSUME Events!Init PROVE OrderInv
  OBVIOUS
<1>1. /\ \A e \in Emitters : held[e] = None
      /\ current = None /\ pending = <<>> /\ log = <<>>
  BY DEF Events!Init
<1>2. 1 .. Len(pending) = {} /\ 1 .. Len(log) = {}
  BY <1>1
<1>3. QED
  BY <1>1, <1>2 DEF OrderInv, Sorted, Precede, Queued, InHand, Events!Delivered

\* Queueing, taking and delivering keep the order of each goroutine.
LEMMA OrderStep == EventInv /\ OrderInv /\ [Events!Next]_eventVars => OrderInv'
<1> SUFFICES ASSUME EventInv, OrderInv, [Events!Next]_eventVars PROVE OrderInv'
  OBVIOUS
<1>0. Events!TypeOK /\ None \notin Events!Records
  BY EmitterConstants DEF EventInv, Events!EmitterAssumption
<1> USE DEF Events!emitting
<1> DEFINE Had == Events!Delivered
<1>1. ASSUME UNCHANGED <<held, pending, log>>, InHand' \subseteq InHand PROVE OrderInv'
  <2>1. Queued' = Queued /\ Had' = Had
    BY <1>1 DEF Queued, Events!Delivered
  <2>2. QED
    BY <1>1, <2>1, Zenon DEF OrderInv, Precede, Sorted
<1>2. ASSUME NEW e \in Emitters, Events!Queue(e) PROVE OrderInv'
  <2>1. /\ held[e] # None /\ held[e] \in Events!Records /\ UNCHANGED <<current, log>>
        /\ held'[e] = None /\ \A d \in Emitters \ {e} : held'[d] = held[d]
    BY <1>0, <1>2 DEF Events!Queue, Events!TypeOK
  <2>2. Had' = Had /\ InHand' = InHand /\ Sorted(log')
    BY <2>1 DEF InHand, Events!Delivered, OrderInv
  <2>3. /\ held[e].by = e
        /\ \A x \in Had \cup InHand \cup Queued : Before(x, held[e])
    BY <2>1 DEF OrderInv
  <2>4. Sorted(pending') /\ (Queued' = Queued \/ Queued' = Queued \cup {held[e]})
    <3>1. CASE pending' = Append(pending, held[e])
      <4>1. \A i \in 1 .. Len(pending) : Before(pending[i], held[e])
        BY <2>3 DEF Queued
      <4>2. pending \in Seq(Events!Records) /\ Sorted(pending)
        BY <1>0 DEF Events!TypeOK, OrderInv
      <4>3. Sorted(Append(pending, held[e]))
        BY <2>1, <4>1, <4>2, SortedAppend
      <4>4. Queued' = Queued \cup {held[e]}
        BY <2>1, <3>1, <4>2, Appended DEF Queued
      <4>5. QED
        BY <3>1, <4>3, <4>4
    <3>2. CASE pending' = pending
      BY <3>2 DEF Queued, OrderInv
    <3>3. QED
      BY <1>2, <3>1, <3>2 DEF Events!Queue
  <2>5. /\ Precede(Had', InHand') /\ Precede(Had', Queued') /\ Precede(InHand', Queued')
    BY <2>2, <2>3, <2>4 DEF OrderInv, Precede
  <2>6. ASSUME NEW d \in Emitters, held'[d] # None
        PROVE  /\ held'[d].by = d
               /\ \A x \in (Had \cup InHand \cup Queued)' : Before(x, held'[d])
    <3>1. d # e /\ held'[d] = held[d]
      BY <2>1, <2>6
    <3>2. /\ held[d].by = d
          /\ \A x \in Had \cup InHand \cup Queued : Before(x, held[d])
      BY <2>6, <3>1 DEF OrderInv
    <3>3. Before(held[e], held[d])
      BY <2>3, <3>1, <3>2 DEF Before
    <3>4. QED
      BY <2>2, <2>4, <3>1, <3>2, <3>3
  <2>7. QED
    BY <2>2, <2>4, <2>5, <2>6 DEF OrderInv
<1>3. ASSUME NEW e \in Emitters, NEW dns \in BOOLEAN,
             NEW own \in {Events!NoContext, captured[e]}, Events!Number(e, dns, own)
      PROVE  OrderInv'
  <2> DEFINE ev == Events!Event(e, dns, own)
  <2>1. /\ UNCHANGED <<pending, current, log>>
        /\ held'[e] = ev /\ \A d \in Emitters \ {e} : held'[d] = held[d]
    BY <1>0, <1>3 DEF Events!Number, Events!TypeOK
  <2>2. Had' = Had /\ InHand' = InHand /\ Queued' = Queued
    BY <2>1 DEF InHand, Queued, Events!Delivered
  <2>3. Had \cup InHand \cup Queued \subseteq Events!Events
    <3>1. \A x \in Had \cup Queued : x \in Events!Records
      BY <1>0 DEF Events!TypeOK, Events!Delivered, Queued
    <3>2. QED
      BY <1>0, <3>1 DEF InHand, Queued, Events!Events, Events!InFlight
  <2>4. ASSUME NEW x \in Events!Events PROVE Before(x, ev)
    <3>1. /\ x.generation \in Nat /\ x.sequence \in Nat
          /\ context.generation \in Nat /\ sequence \in Nat
      BY <1>0, EventRecords, SMTT(30) DEF Events!Records, Events!TypeOK, Events!Contexts
    <3>2. /\ x.generation <= context.generation
          /\ x.generation = context.generation => x.sequence <= sequence
      BY DEF EventInv, CounterInv
    <3>3. ev.generation = context.generation /\ ev.sequence = sequence + 1
      BY DEF Events!Event
    <3>4. QED
      BY <3>1, <3>2, <3>3 DEF Before
  <2>5. ev.by = e
    BY DEF Events!Event
  <2> HIDE DEF ev
  <2>6. ASSUME NEW d \in Emitters, held'[d] # None
        PROVE  /\ held'[d].by = d
               /\ \A x \in (Had \cup InHand \cup Queued)' : Before(x, held'[d])
    <3>1. CASE d = e
      BY <2>1, <2>2, <2>3, <2>4, <2>5, <3>1
    <3>2. CASE d # e
      BY <2>1, <2>2, <2>6, <3>2 DEF OrderInv
    <3>3. QED
      BY <3>1, <3>2
  <2>7. QED
    BY <2>1, <2>2, <2>6 DEF OrderInv
<1>4. CASE Events!Take
  <2>1. /\ UNCHANGED <<held, log>> /\ current = None /\ pending # <<>>
        /\ current' = Head(pending) /\ pending' = Tail(pending)
        /\ pending \in Seq(Events!Records) /\ Sorted(pending)
    BY <1>0, <1>4 DEF Events!Take, Events!TypeOK, OrderInv
  <2>2. Queued = Queued' \cup {current'} /\ current' \in Events!Records
    <3>1. /\ Head(pending) \in Events!Records
          /\ {pending[i] : i \in 1 .. Len(pending)}
               = {Tail(pending)[i] : i \in 1 .. Len(Tail(pending))} \cup {Head(pending)}
      BY <2>1, Taken
    <3>2. QED
      BY <2>1, <3>1 DEF Queued
  <2>3. InHand = {} /\ InHand' = {current'} /\ Had' = Had
    BY <1>0, <2>1, <2>2 DEF InHand, Events!Delivered
  <2>4. Sorted(pending') /\ \A y \in Queued' : Before(current', y)
    <3>1. /\ Sorted(Tail(pending))
          /\ \A i \in 1 .. Len(Tail(pending)) : Before(Head(pending), Tail(pending)[i])
      BY <2>1, SortedTail
    <3>2. QED
      BY <2>1, <3>1 DEF Queued
  <2>5. /\ Precede(Had', InHand') /\ Precede(Had', Queued') /\ Precede(InHand', Queued')
    BY <2>2, <2>3, <2>4, Zenon DEF OrderInv, Precede
  <2>6. (Had \cup InHand \cup Queued)' = Had \cup InHand \cup Queued
    BY <2>2, <2>3
  <2>7. QED
    BY <2>1, <2>4, <2>5, <2>6 DEF OrderInv
<1>5. CASE Events!ReadSink \/ Events!SinkPanics
  <2>1. UNCHANGED <<held, pending, log>> /\ (current' = current \/ current' = None)
    BY <1>5 DEF Events!ReadSink, Events!SinkPanics
  <2>2. InHand' \subseteq InHand
    BY <2>1 DEF InHand
  <2>3. QED
    BY <1>1, <2>1, <2>2
<1>6. CASE Events!SinkReturns
  <2>1. /\ UNCHANGED <<held, pending>> /\ current' = None /\ current \in Events!Records
        /\ log' = Append(log, current) /\ log \in Seq(Events!Records) /\ Sorted(log)
    BY <1>0, <1>6 DEF Events!SinkReturns, Events!TypeOK, OrderInv
  <2>2. InHand = {current} /\ InHand' = {} /\ Queued' = Queued
    BY <1>0, <2>1 DEF InHand, Queued
  <2>3. Had' = Had \cup {current}
    BY <2>1, Appended DEF Events!Delivered
  <2>4. Sorted(log')
    <3>1. \A i \in 1 .. Len(log) : Before(log[i], current)
      BY <2>2 DEF OrderInv, Precede, Events!Delivered
    <3>2. QED
      BY <2>1, <3>1, SortedAppend
  <2>5. /\ Precede(Had', InHand') /\ Precede(Had', Queued') /\ Precede(InHand', Queued')
    BY <2>2, <2>3, Zenon DEF OrderInv, Precede
  <2>6. (Had \cup InHand \cup Queued)' = Had \cup InHand \cup Queued
    BY <2>2, <2>3
  <2>7. QED
    BY <2>1, <2>4, <2>5, <2>6 DEF OrderInv
<1>7. ASSUME \/ UNCHANGED eventVars
             \/ \E present \in BOOLEAN : Events!SetSink(present)
             \/ \E a \in Attempts, g \in 1 .. MaxGeneration : Events!Configure(a, g)
             \/ \E e \in Emitters : Events!CaptureContext(e)
      PROVE  OrderInv'
  <2>1. UNCHANGED <<held, pending, current, log>>
    BY <1>7 DEF eventVars, Events!SetSink, Events!Configure, Events!CaptureContext
  <2>2. QED
    BY <1>1, <2>1 DEF InHand
<1>8. QED
  BY <1>2, <1>3, <1>4, <1>5, <1>6, <1>7 DEF Events!Next

\* What one goroutine emits reaches the sink in the order it was emitted,
\* although the goroutines overtake each other on the way to the queue.
THEOREM EmittersStayInOrder == EngineSpec => []Events!OrderOfEmitter
<1>1. EngineInit => EventInv /\ OrderInv
  BY EventInit, OrderInit DEF EngineInit
<1>2. EventInv /\ OrderInv /\ [EngineNext]_engineVars => (EventInv /\ OrderInv)'
  BY StepOfEvents, EventStep, OrderStep
<1>3. OrderInv => Events!OrderOfEmitter
  BY DEF OrderInv, Sorted, Before, Events!OrderOfEmitter
<1>4. QED
  BY <1>1, <1>2, <1>3, PTL DEF EngineSpec, engineVars

-----------------------------------------------------------------------------
(* One engine instance.                                                    *)

\* The plans, position by position.
LEMMA ClosePlanFacts ==
  /\ Len(TheBox!ClosePlan) = 5
  /\ TheBox!ClosePlan[1] = "service" /\ TheBox!ClosePlan[2] = "inbound"
  /\ TheBox!ClosePlan[3] = "certificateProvider" /\ TheBox!ClosePlan[4] = "endpoint"
  /\ TheBox!ClosePlan[5] = "outbound"
  BY DEF TheBox!ClosePlan

StageOf(i) == TheBox!StageNumber[TheBox!StartPlan[i][1]]
ManagerOf(i) == TheBox!StartPlan[i][2]

LEMMA StartPlanFacts ==
  /\ Len(TheBox!StartPlan) = 20
  /\ ManagerOf(1) = "outbound" /\ ManagerOf(2) = "inbound" /\ ManagerOf(3) = "endpoint"
  /\ ManagerOf(4) = "service" /\ ManagerOf(5) = "certificateProvider"
  /\ ManagerOf(6) = "outbound" /\ ManagerOf(7) = "endpoint"
  /\ ManagerOf(8) = "certificateProvider" /\ ManagerOf(9) = "inbound"
  /\ ManagerOf(10) = "service"
  /\ ManagerOf(11) = "outbound" /\ ManagerOf(12) = "endpoint"
  /\ ManagerOf(13) = "certificateProvider" /\ ManagerOf(14) = "inbound"
  /\ ManagerOf(15) = "service"
  /\ ManagerOf(16) = "outbound" /\ ManagerOf(17) = "endpoint"
  /\ ManagerOf(18) = "certificateProvider" /\ ManagerOf(19) = "inbound"
  /\ ManagerOf(20) = "service"
  /\ StageOf(1) = 0 /\ StageOf(2) = 0 /\ StageOf(3) = 0 /\ StageOf(4) = 0 /\ StageOf(5) = 0
  /\ StageOf(6) = 1 /\ StageOf(7) = 1 /\ StageOf(8) = 1 /\ StageOf(9) = 1 /\ StageOf(10) = 1
  /\ StageOf(11) = 2 /\ StageOf(12) = 2 /\ StageOf(13) = 2 /\ StageOf(14) = 2 /\ StageOf(15) = 2
  /\ StageOf(16) = 3 /\ StageOf(17) = 3 /\ StageOf(18) = 3 /\ StageOf(19) = 3 /\ StageOf(20) = 3
  BY DEF TheBox!StartPlan, StageOf, ManagerOf, TheBox!StageNumber

LEMMA StagesClimb ==
  ASSUME NEW i \in 1 .. 20, NEW j \in 1 .. 20, i < j, ManagerOf(i) = ManagerOf(j)
  PROVE  StageOf(i) < StageOf(j)
  BY StartPlanFacts, SMTT(60)

BoxWalks == starter \in {"step", "endpoints", "members"}

\* While Start walks its plan nobody closes; before `done` nothing is closed; one
\* caller at a time is inside Close, and it has found the Box not yet closed.
BoxCalls ==
    /\ BoxWalks \/ starter = "idle" =>
         ~done /\ \A a \in TheBox!Actors : closer[a] = "idle"
    /\ ~done => \A a \in TheBox!Actors : closer[a] \in {"idle", "test", "tested"}
    /\ \A a \in TheBox!Actors : closer[a] = "tested" => ~done
    /\ \A a, b \in TheBox!Actors :
         closer[a] \in {"test", "tested", "closing"}
           /\ closer[b] \in {"test", "tested", "closing"} => a = b
    /\ done /\ (\A a \in TheBox!Actors : closer[a] # "closing") => turn = 6
    /\ \A a \in TheBox!Actors : closer[a] = "closing" => turn <= 5

\* Close spawns the goroutines in the order of its plan, and leaves one behind
\* only done or given up.
BoxJobs ==
    /\ ~done => /\ listed = TheBox!Managers /\ gaveUp = {} /\ turn = 1
                /\ \A m \in TheBox!Managers : job[m] = "none"
    /\ \A i \in 1 .. 5 :
         LET m == TheBox!ClosePlan[i]
         IN  /\ i < turn => job[m] = "done" \/ m \in gaveUp
             /\ i > turn => job[m] = "none"

\* Start has started the managers of the steps it has passed, at their stage.
BoxStages ==
    /\ starter = "idle" => at = 1 /\ \A m \in TheBox!Managers : ~started[m]
    /\ BoxWalks => \A i \in 1 .. 20 :
         LET m == ManagerOf(i)
             passed == i < at \/ (i = at /\ starter # "step")
         IN  IF passed THEN started[m] ELSE started[m] => stage[m] < StageOf(i)
    /\ starter \in {"endpoints", "members"} => at <= 20
    /\ starter = "endpoints" => at = 6

\* An open member is on the list of a started manager, or in the hands of the
\* goroutine that closes it.
BoxHeld ==
    \A m \in TheBox!Managers :
        /\ left[m] \subseteq MembersOf[m]
        /\ \A x \in MembersOf[m] \cap open :
             \/ job[m] \in {"none", "waiting"} /\ started[m] /\ m \in listed
             \/ job[m] = "closing" /\ x \in left[m]

\* What the start has opened so far.
BoxOpened ==
    /\ BoxWalks =>
         /\ at > 6 => MembersOf["outbound"] \cup MembersOf["endpoint"] \subseteq open
         /\ at > 8 => MembersOf["certificateProvider"] \subseteq open
         /\ at > 9 => MembersOf["inbound"] \subseteq open
         /\ at > 10 => MembersOf["service"] \subseteq open
    /\ starter \in {"endpoints", "members"} /\ at \in {6, 8, 9, 10} =>
         /\ begun \subseteq open
         /\ MembersOf[ManagerOf(at)] \subseteq todo \cup begun
    /\ starter = "members" /\ at = 6 => MembersOf["endpoint"] \subseteq todo \cup begun
    /\ starter = "members" /\ at = 7 => todo = {}
    /\ starter = "members" /\ at \in {8, 9, 10} => todo \subseteq MembersOf[ManagerOf(at)]

BoxInv ==
    /\ TheBox!TypeOK /\ BoxCalls /\ BoxJobs /\ BoxStages /\ BoxHeld /\ BoxOpened
    /\ TheBox!ReadyMeansOpen /\ TheBox!NoPanic

LEMMA BoxFacts ==
  /\ Len(TheBox!StartPlan) = 20 /\ Len(TheBox!ClosePlan) = 5
  /\ \A i \in 1 .. 20 : TheBox!StartPlan[i][2] \in TheBox!Managers
  /\ \A i \in 1 .. 20 : TheBox!StageNumber[TheBox!StartPlan[i][1]] \in 0 .. 3
  /\ \A i \in 1 .. 5 : TheBox!ClosePlan[i] \in TheBox!Managers
  /\ \A i, j \in 1 .. 5 : TheBox!ClosePlan[i] = TheBox!ClosePlan[j] => i = j
  /\ \A m \in TheBox!Managers : MembersOf[m] \subseteq TheBox!Members
  /\ \A x \in TheBox!Members : \E m \in TheBox!Managers : x \in MembersOf[m]
<1>1. \A i \in 1 .. 20 : ManagerOf(i) \in TheBox!Managers /\ StageOf(i) \in 0 .. 3
  BY StartPlanFacts DEF TheBox!Managers
<1>2. /\ \A i \in 1 .. 5 : TheBox!ClosePlan[i] \in TheBox!Managers
      /\ \A i, j \in 1 .. 5 : TheBox!ClosePlan[i] = TheBox!ClosePlan[j] => i = j
  BY ClosePlanFacts DEF TheBox!Managers
<1>3. DOMAIN MembersOf = TheBox!Managers
  BY BoxConstants DEF TheBox!ManagersAssumption
<1>4. QED
  BY <1>1, <1>2, <1>3, StartPlanFacts, ClosePlanFacts
  DEF ManagerOf, StageOf, TheBox!Members, TheBox!Range

\* A manager is never asked for a stage it has already passed, so that the step
\* starts it.
LEMMA ManagerStarts ==
  ASSUME BoxInv, TheBox!StartManager
  PROVE  /\ at \in 1 .. 20 /\ starter = "step"
         /\ started' = [started EXCEPT ![ManagerOf(at)] = TRUE]
         /\ stage' = [stage EXCEPT ![ManagerOf(at)] = StageOf(at)]
         /\ todo' = (IF ManagerOf(at) = "endpoint" /\ StageOf(at) = 1 THEN {}
                     ELSE TheBox!Held(ManagerOf(at)))
         /\ begun' = {}
         /\ starter' = (IF ManagerOf(at) = "outbound" /\ StageOf(at) = 1 THEN "endpoints"
                        ELSE "members")
         /\ UNCHANGED <<boxCancelled, at, open, panicked, done, closer, turn, job, left,
                        gaveUp, lock, listed>>
<1>1. at \in 1 .. 20 /\ starter = "step"
  BY BoxFacts DEF TheBox!StartManager, BoxInv, TheBox!TypeOK
<1>2. ManagerOf(at) \in TheBox!Managers /\ StageOf(at) \in 0 .. 3
  BY <1>1, BoxFacts DEF ManagerOf, StageOf
<1>3. started[ManagerOf(at)] => stage[ManagerOf(at)] < StageOf(at)
  BY <1>1 DEF BoxInv, BoxStages, BoxWalks
<1>4. stage[ManagerOf(at)] \in 0 .. 3
  BY <1>2 DEF BoxInv, TheBox!TypeOK
<1>5. ~(started[ManagerOf(at)] /\ stage[ManagerOf(at)] >= StageOf(at))
  BY <1>2, <1>3, <1>4
<1>6. QED
  BY <1>1, <1>5 DEF TheBox!StartManager, TheBox!closing, ManagerOf, StageOf

LEMMA SameSet == \A S, T : S \subseteq T /\ T \subseteq S => S = T
  OBVIOUS

LEMMA BoxInit == TheBox!Init => BoxInv
<1> SUFFICES ASSUME TheBox!Init PROVE BoxInv
  OBVIOUS
<1> USE BoxFacts DEF TheBox!Init
<1>1. TheBox!TypeOK
  <2>1. 1 \in 1 .. Len(TheBox!StartPlan) + 1 /\ 1 \in 1 .. Len(TheBox!ClosePlan) + 1
    OBVIOUS
  <2>2. /\ started \in [TheBox!Managers -> BOOLEAN] /\ stage \in [TheBox!Managers -> 0 .. 3]
        /\ left \in [TheBox!Managers -> SUBSET TheBox!Members]
    OBVIOUS
  <2>3. QED
    BY <2>1, <2>2 DEF TheBox!TypeOK
<1>2. BoxCalls /\ BoxJobs
  BY DEF BoxCalls, BoxJobs, BoxWalks
<1>3. BoxStages /\ BoxHeld /\ BoxOpened
  BY DEF BoxStages, BoxHeld, BoxOpened, BoxWalks
<1>4. QED
  BY <1>1, <1>2, <1>3 DEF BoxInv, TheBox!ReadyMeansOpen, TheBox!NoPanic

\* No action gives a variable of the Box a value outside its type.
LEMMA BoxTypes == BoxInv /\ [TheBox!Next]_boxVars => TheBox!TypeOK'
<1> SUFFICES ASSUME BoxInv, [TheBox!Next]_boxVars PROVE TheBox!TypeOK'
  OBVIOUS
<1> USE BoxFacts DEF BoxInv, BoxCalls, BoxStages, TheBox!TypeOK, TheBox!starting,
        TheBox!closing
<1>1. CASE TheBox!Begin
  BY <1>1 DEF TheBox!Begin
<1>2. CASE TheBox!ReadContext
  BY <1>2 DEF TheBox!ReadContext, TheBox!Fail
<1>3. CASE TheBox!StartManager
  <2>1. ManagerOf(at) \in TheBox!Managers /\ StageOf(at) \in 0 .. 3
    BY <1>3, ManagerStarts DEF ManagerOf, StageOf
  <2>2. TheBox!Held(ManagerOf(at)) \subseteq TheBox!Members
    BY <2>1 DEF TheBox!Held
  <2>3. started' \in [TheBox!Managers -> BOOLEAN] /\ stage' \in [TheBox!Managers -> 0 .. 3]
    <3>1. /\ started' = [started EXCEPT ![ManagerOf(at)] = TRUE]
          /\ stage' = [stage EXCEPT ![ManagerOf(at)] = StageOf(at)]
      BY <1>3, ManagerStarts
    <3>2. QED
      BY <2>1, <3>1
  <2>4. /\ todo' \subseteq TheBox!Members /\ begun' \subseteq TheBox!Members
        /\ starter' \in {"endpoints", "members"}
    BY <1>3, <2>2, ManagerStarts
  <2>5. UNCHANGED <<boxCancelled, at, open, panicked, done, closer, turn, job, left, gaveUp,
                    lock, listed>>
    BY <1>3, ManagerStarts
  <2>6. QED
    BY <2>3, <2>4, <2>5
<1>4. CASE TheBox!AddEndpoints
  <2>1. TheBox!Held("endpoint") \subseteq TheBox!Members
    BY DEF TheBox!Held, TheBox!Managers
  <2>2. QED
    BY <1>4, <2>1 DEF TheBox!AddEndpoints
<1>5. CASE TheBox!StartMember
  BY <1>5 DEF TheBox!StartMember, TheBox!Fail
<1>6. CASE TheBox!NoneReady
  BY <1>6 DEF TheBox!NoneReady, TheBox!Fail
<1>7. CASE TheBox!NextManager
  BY <1>7 DEF TheBox!NextManager
<1>8. CASE TheBox!StartFails
  BY <1>8 DEF TheBox!StartFails
<1>9. CASE TheBox!Cancel \/ TheBox!Done \/ UNCHANGED boxVars
  BY <1>9 DEF TheBox!Cancel, TheBox!Done, TheBox!vars, boxVars
<1>10. ASSUME NEW a \in TheBox!Actors, TheBox!TestDone(a) PROVE TheBox!TypeOK'
  BY <1>10 DEF TheBox!TestDone
<1>11. ASSUME NEW a \in TheBox!Actors, TheBox!CloseDone(a) PROVE TheBox!TypeOK'
  <2>1. CASE done
    BY <1>11, <2>1 DEF TheBox!CloseDone
  <2>2. CASE ~done
    <3>1. lock = {} /\ turn = 1
      BY <2>2 DEF BoxJobs
    <3>2. job' = [job EXCEPT ![TheBox!ClosePlan[1]] = "waiting"] /\ done' = TRUE
      BY <1>11, <2>2 DEF TheBox!CloseDone, TheBox!Spawn
    <3>3. QED
      BY <1>11, <2>2, <3>1, <3>2 DEF TheBox!CloseDone
  <2>3. QED
    BY <2>1, <2>2
<1>12. ASSUME NEW a \in TheBox!Actors, TheBox!AwaitDone(a) PROVE TheBox!TypeOK'
  <2>1. UNCHANGED <<boxCancelled, starter, at, todo, begun, started, stage, open, done,
                    left, lock, listed, panicked>> /\ gaveUp' \subseteq TheBox!Managers
    BY <1>12 DEF TheBox!AwaitDone
  <2>2. turn \in 1 .. 5 /\ turn' = turn + 1 /\ turn' \in 1 .. 6
    BY <1>12 DEF TheBox!AwaitDone, TheBox!Pass
  <2>3. closer' \in [TheBox!Actors -> {"idle", "test", "tested", "closing", "refused", "done"}]
    BY <1>12 DEF TheBox!AwaitDone, TheBox!Pass
  <2>4. \/ turn' > 5 /\ job' = job
        \/ turn' \in 1 .. 5 /\ job' = [job EXCEPT ![TheBox!ClosePlan[turn']] = "waiting"]
    BY <1>12, <2>2 DEF TheBox!AwaitDone, TheBox!Pass, TheBox!Spawn
  <2>5. /\ job' \in [TheBox!Managers -> {"none", "waiting", "closing", "done"}]
        /\ lock \subseteq {m \in TheBox!Managers : job'[m] = "closing"}
    <3>1. CASE job' = job
      BY <3>1
    <3>2. CASE turn' \in 1 .. 5 /\ job' = [job EXCEPT ![TheBox!ClosePlan[turn']] = "waiting"]
      <4>1. job[TheBox!ClosePlan[turn']] = "none"
        BY <2>2, <3>2 DEF BoxJobs
      <4>2. QED
        BY <3>2, <4>1
    <3>3. QED
      BY <2>4, <3>1, <3>2
  <2>6. QED
    BY <2>1, <2>2, <2>3, <2>5
<1>13. ASSUME NEW a \in TheBox!Actors, TheBox!AwaitTimeout(a) PROVE TheBox!TypeOK'
  <2>1. UNCHANGED <<boxCancelled, starter, at, todo, begun, started, stage, open, done,
                    left, lock, listed, panicked>> /\ gaveUp' \subseteq TheBox!Managers
    BY <1>13 DEF TheBox!AwaitTimeout
  <2>2. turn \in 1 .. 5 /\ turn' = turn + 1 /\ turn' \in 1 .. 6
    BY <1>13 DEF TheBox!AwaitTimeout, TheBox!Pass
  <2>3. closer' \in [TheBox!Actors -> {"idle", "test", "tested", "closing", "refused", "done"}]
    BY <1>13 DEF TheBox!AwaitTimeout, TheBox!Pass
  <2>4. \/ turn' > 5 /\ job' = job
        \/ turn' \in 1 .. 5 /\ job' = [job EXCEPT ![TheBox!ClosePlan[turn']] = "waiting"]
    BY <1>13, <2>2 DEF TheBox!AwaitTimeout, TheBox!Pass, TheBox!Spawn
  <2>5. /\ job' \in [TheBox!Managers -> {"none", "waiting", "closing", "done"}]
        /\ lock \subseteq {m \in TheBox!Managers : job'[m] = "closing"}
    <3>1. CASE job' = job
      BY <3>1
    <3>2. CASE turn' \in 1 .. 5 /\ job' = [job EXCEPT ![TheBox!ClosePlan[turn']] = "waiting"]
      <4>1. job[TheBox!ClosePlan[turn']] = "none"
        BY <2>2, <3>2 DEF BoxJobs
      <4>2. QED
        BY <3>2, <4>1
    <3>3. QED
      BY <2>4, <3>1, <3>2
  <2>6. QED
    BY <2>1, <2>2, <2>3, <2>5
<1>14. ASSUME NEW a \in BoxClosers, TheBox!BeginClose(a) PROVE TheBox!TypeOK'
  BY <1>14 DEF TheBox!BeginClose, TheBox!Quiet
<1>15. ASSUME NEW m \in TheBox!Managers, TheBox!CloseManager(m) PROVE TheBox!TypeOK'
  <2>1. CASE ~started[m] /\ job' = [job EXCEPT ![m] = "done"]
             /\ UNCHANGED <<started, left, listed, lock>>
    BY <1>15, <2>1 DEF TheBox!CloseManager
  <2>2. CASE started[m] /\ job' = [job EXCEPT ![m] = "closing"]
    <3>1. TheBox!Held(m) \subseteq TheBox!Members
      BY DEF TheBox!Held
    <3>2. left' = [left EXCEPT ![m] = TheBox!Held(m)]
      BY <1>15, <2>2 DEF TheBox!CloseManager
    <3>3. left' \in [TheBox!Managers -> SUBSET TheBox!Members]
      BY <3>1, <3>2
    <3>4. lock' \subseteq lock \cup {m}
      BY <1>15, <2>2 DEF TheBox!CloseManager
    <3>5. lock' \subseteq {k \in TheBox!Managers : job'[k] = "closing"}
      BY <2>2, <3>4
    <3>6. started' \in [TheBox!Managers -> BOOLEAN] /\ listed' \subseteq TheBox!Managers
      BY <1>15, <2>2 DEF TheBox!CloseManager
    <3>7. UNCHANGED <<boxCancelled, starter, at, todo, begun, stage, open, done, closer, turn,
                      gaveUp, panicked>>
      BY <1>15 DEF TheBox!CloseManager
    <3>8. job' \in [TheBox!Managers -> {"none", "waiting", "closing", "done"}]
      BY <2>2
    <3>9. QED
      BY <3>3, <3>5, <3>6, <3>7, <3>8
  <2>3. QED
    BY <1>15, <2>1, <2>2 DEF TheBox!CloseManager
<1>16. ASSUME NEW m \in TheBox!Managers, TheBox!CloseMember(m) PROVE TheBox!TypeOK'
  BY <1>16 DEF TheBox!CloseMember
<1>17. ASSUME NEW m \in TheBox!Managers, TheBox!ManagerClosed(m) PROVE TheBox!TypeOK'
  BY <1>17 DEF TheBox!ManagerClosed
<1>18. QED
  BY <1>1, <1>2, <1>3, <1>4, <1>5, <1>6, <1>7, <1>8, <1>9, <1>10, <1>11, <1>12,
     <1>13, <1>14, <1>15, <1>16, <1>17
  DEF TheBox!Next, TheBox!Start, TheBox!CloseStep, TheBox!Closing

\* The owner closes only outside of Start and Close.
LEMMA BoxCallsKept == Serialized /\ BoxInv /\ [TheBox!Next]_boxVars => BoxCalls'
<1> SUFFICES ASSUME Serialized, BoxInv, [TheBox!Next]_boxVars PROVE BoxCalls'
  OBVIOUS
<1> USE BoxFacts DEF BoxInv, BoxCalls, BoxWalks, TheBox!TypeOK, TheBox!Actors,
        TheBox!starting, TheBox!closing
<1>1. CASE TheBox!Begin
  BY <1>1 DEF TheBox!Begin
<1>2. CASE TheBox!ReadContext
  BY <1>2 DEF TheBox!ReadContext, TheBox!Fail
<1>3. CASE TheBox!StartManager
  BY <1>3 DEF TheBox!StartManager
<1>4. CASE TheBox!AddEndpoints
  BY <1>4 DEF TheBox!AddEndpoints
<1>5. CASE TheBox!StartMember
  BY <1>5 DEF TheBox!StartMember, TheBox!Fail
<1>6. CASE TheBox!NoneReady
  BY <1>6 DEF TheBox!NoneReady, TheBox!Fail
<1>7. CASE TheBox!NextManager
  BY <1>7 DEF TheBox!NextManager
<1>8. CASE TheBox!StartFails
  BY <1>8 DEF TheBox!StartFails
<1>9. CASE TheBox!Cancel \/ TheBox!Done \/ UNCHANGED boxVars
  BY <1>9 DEF TheBox!Cancel, TheBox!Done, TheBox!vars, boxVars
<1>10. ASSUME NEW a \in TheBox!Actors, TheBox!TestDone(a) PROVE BoxCalls'
  BY <1>10 DEF TheBox!TestDone
<1>11. ASSUME NEW a \in TheBox!Actors, TheBox!CloseDone(a) PROVE BoxCalls'
  <2>1. ~done /\ closer' = [closer EXCEPT ![a] = "closing"] /\ done' = TRUE
    BY <1>11 DEF TheBox!CloseDone
  <2>2. UNCHANGED <<turn, starter>> /\ turn = 1 /\ closer[a] = "tested"
    BY <1>11, <2>1 DEF TheBox!CloseDone, BoxJobs
  <2>3. \A b \in TheBox!Actors \ {a} : closer'[b] = closer[b] /\ closer[b] = "idle"
    BY <2>1, <2>2
  <2>4. closer'[a] = "closing"
    BY <2>1
  <2>5. QED
    BY <2>1, <2>2, <2>3, <2>4
<1>12. ASSUME NEW a \in TheBox!Actors, TheBox!AwaitDone(a) PROVE BoxCalls'
  BY <1>12 DEF TheBox!AwaitDone, TheBox!Pass, TheBox!Spawn
<1>13. ASSUME NEW a \in TheBox!Actors, TheBox!AwaitTimeout(a) PROVE BoxCalls'
  BY <1>13 DEF TheBox!AwaitTimeout, TheBox!Pass, TheBox!Spawn
<1>14. ASSUME NEW a \in BoxClosers, TheBox!BeginClose(a) PROVE BoxCalls'
  BY <1>14 DEF TheBox!BeginClose, TheBox!Quiet
<1>15. ASSUME NEW m \in TheBox!Managers, TheBox!CloseManager(m) PROVE BoxCalls'
  BY <1>15 DEF TheBox!CloseManager, TheBox!Held
<1>16. ASSUME NEW m \in TheBox!Managers, TheBox!CloseMember(m) PROVE BoxCalls'
  BY <1>16 DEF TheBox!CloseMember
<1>17. ASSUME NEW m \in TheBox!Managers, TheBox!ManagerClosed(m) PROVE BoxCalls'
  BY <1>17 DEF TheBox!ManagerClosed
<1>18. QED
  BY <1>1, <1>2, <1>3, <1>4, <1>5, <1>6, <1>7, <1>8, <1>9, <1>10, <1>11, <1>12,
     <1>13, <1>14, <1>15, <1>16, <1>17
  DEF TheBox!Next, TheBox!Start, TheBox!CloseStep, TheBox!Closing

\* Close spawns the goroutines one after the other.
LEMMA BoxJobsKept == Serialized /\ BoxInv /\ [TheBox!Next]_boxVars => BoxJobs'
<1> SUFFICES ASSUME Serialized, BoxInv, [TheBox!Next]_boxVars PROVE BoxJobs'
  OBVIOUS
<1> USE BoxFacts DEF BoxInv, BoxJobs, BoxCalls, BoxWalks, TheBox!TypeOK,
        TheBox!starting, TheBox!closing
<1>1. CASE TheBox!Begin
  BY <1>1 DEF TheBox!Begin
<1>2. CASE TheBox!ReadContext
  BY <1>2 DEF TheBox!ReadContext, TheBox!Fail
<1>3. CASE TheBox!StartManager
  BY <1>3 DEF TheBox!StartManager
<1>4. CASE TheBox!AddEndpoints
  BY <1>4 DEF TheBox!AddEndpoints
<1>5. CASE TheBox!StartMember
  BY <1>5 DEF TheBox!StartMember, TheBox!Fail
<1>6. CASE TheBox!NoneReady
  BY <1>6 DEF TheBox!NoneReady, TheBox!Fail
<1>7. CASE TheBox!NextManager
  BY <1>7 DEF TheBox!NextManager
<1>8. CASE TheBox!StartFails
  BY <1>8 DEF TheBox!StartFails
<1>9. CASE TheBox!Cancel \/ TheBox!Done \/ UNCHANGED boxVars
  BY <1>9 DEF TheBox!Cancel, TheBox!Done, TheBox!vars, boxVars
<1>10. ASSUME NEW a \in TheBox!Actors, TheBox!TestDone(a) PROVE BoxJobs'
  BY <1>10 DEF TheBox!TestDone
<1>11. ASSUME NEW a \in TheBox!Actors, TheBox!CloseDone(a) PROVE BoxJobs'
  BY <1>11 DEF TheBox!CloseDone, TheBox!Spawn
<1>12. ASSUME NEW a \in TheBox!Actors, TheBox!AwaitDone(a) PROVE BoxJobs'
  BY <1>12 DEF TheBox!AwaitDone, TheBox!Pass, TheBox!Spawn
<1>13. ASSUME NEW a \in TheBox!Actors, TheBox!AwaitTimeout(a) PROVE BoxJobs'
  BY <1>13 DEF TheBox!AwaitTimeout, TheBox!Pass, TheBox!Spawn
<1>14. ASSUME NEW a \in BoxClosers, TheBox!BeginClose(a) PROVE BoxJobs'
  BY <1>14 DEF TheBox!BeginClose, TheBox!Quiet
<1>15. ASSUME NEW m \in TheBox!Managers, TheBox!CloseManager(m) PROVE BoxJobs'
  BY <1>15 DEF TheBox!CloseManager, TheBox!Held
<1>16. ASSUME NEW m \in TheBox!Managers, TheBox!CloseMember(m) PROVE BoxJobs'
  BY <1>16 DEF TheBox!CloseMember
<1>17. ASSUME NEW m \in TheBox!Managers, TheBox!ManagerClosed(m) PROVE BoxJobs'
  BY <1>17 DEF TheBox!ManagerClosed
<1>18. QED
  BY <1>1, <1>2, <1>3, <1>4, <1>5, <1>6, <1>7, <1>8, <1>9, <1>10, <1>11, <1>12,
     <1>13, <1>14, <1>15, <1>16, <1>17
  DEF TheBox!Next, TheBox!Start, TheBox!CloseStep, TheBox!Closing

\* Every manager is started at its stages in their order.
LEMMA BoxStagesKept == Serialized /\ BoxInv /\ [TheBox!Next]_boxVars => BoxStages'
<1> SUFFICES ASSUME Serialized, BoxInv, [TheBox!Next]_boxVars PROVE BoxStages'
  OBVIOUS
<1> USE BoxFacts DEF BoxInv, BoxStages, BoxCalls, BoxJobs, BoxWalks, TheBox!TypeOK,
        TheBox!starting, TheBox!closing
<1>1. CASE TheBox!Begin
  <2>1. starter' = "step" /\ UNCHANGED <<at, started, stage>> /\ at = 1
        /\ \A m \in TheBox!Managers : ~started[m]
    BY <1>1 DEF TheBox!Begin
  <2>2. \A i \in 1 .. 20 : ManagerOf(i) \in TheBox!Managers /\ ~(i < 1)
    BY DEF ManagerOf
  <2>3. QED
    BY <2>1, <2>2
<1>2. CASE TheBox!ReadContext
  BY <1>2 DEF TheBox!ReadContext, TheBox!Fail
<1>3. CASE TheBox!StartManager
  <2>1. /\ at \in 1 .. 20 /\ starter = "step" /\ starter' \in {"endpoints", "members"}
        /\ started' = [started EXCEPT ![ManagerOf(at)] = TRUE]
        /\ stage' = [stage EXCEPT ![ManagerOf(at)] = StageOf(at)] /\ UNCHANGED at
        /\ starter' = "endpoints" => ManagerOf(at) = "outbound" /\ StageOf(at) = 1
    BY <1>3, ManagerStarts
  <2>2. starter' = "endpoints" => at = 6
    BY <2>1, StartPlanFacts
  <2>3. ASSUME NEW i \in 1 .. 20
        PROVE  IF i < at \/ i = at THEN started'[ManagerOf(i)]
               ELSE started'[ManagerOf(i)] => stage'[ManagerOf(i)] < StageOf(i)
    <3>1. ManagerOf(i) \in TheBox!Managers /\ ManagerOf(at) \in TheBox!Managers
      BY <2>1 DEF ManagerOf
    <3>2. CASE i <= at
      BY <2>1, <3>1, <3>2
    <3>3. CASE i > at /\ ManagerOf(i) = ManagerOf(at)
      <4>1. StageOf(at) < StageOf(i)
        BY <2>1, <3>3, StagesClimb
      <4>2. QED
        BY <2>1, <3>1, <3>3, <4>1
    <3>4. CASE i > at /\ ManagerOf(i) # ManagerOf(at)
      <4>1. started[ManagerOf(i)] => stage[ManagerOf(i)] < StageOf(i)
        BY <2>1, <3>4
      <4>2. QED
        BY <2>1, <3>1, <3>4, <4>1
    <3>5. QED
      BY <2>1, <3>2, <3>3, <3>4
  <2>4. QED
    BY <2>1, <2>2, <2>3
<1>4. CASE TheBox!AddEndpoints
  BY <1>4 DEF TheBox!AddEndpoints
<1>5. CASE TheBox!StartMember
  BY <1>5 DEF TheBox!StartMember, TheBox!Fail
<1>6. CASE TheBox!NoneReady
  BY <1>6 DEF TheBox!NoneReady, TheBox!Fail
<1>7. CASE TheBox!NextManager
  BY <1>7 DEF TheBox!NextManager
<1>8. CASE TheBox!StartFails
  BY <1>8 DEF TheBox!StartFails
<1>9. CASE TheBox!Cancel \/ TheBox!Done \/ UNCHANGED boxVars
  BY <1>9 DEF TheBox!Cancel, TheBox!Done, TheBox!vars, boxVars
<1>10. ASSUME NEW a \in TheBox!Actors, TheBox!TestDone(a) PROVE BoxStages'
  BY <1>10 DEF TheBox!TestDone
<1>11. ASSUME NEW a \in TheBox!Actors, TheBox!CloseDone(a) PROVE BoxStages'
  BY <1>11 DEF TheBox!CloseDone, TheBox!Spawn
<1>12. ASSUME NEW a \in TheBox!Actors, TheBox!AwaitDone(a) PROVE BoxStages'
  BY <1>12 DEF TheBox!AwaitDone, TheBox!Pass, TheBox!Spawn
<1>13. ASSUME NEW a \in TheBox!Actors, TheBox!AwaitTimeout(a) PROVE BoxStages'
  BY <1>13 DEF TheBox!AwaitTimeout, TheBox!Pass, TheBox!Spawn
<1>14. ASSUME NEW a \in BoxClosers, TheBox!BeginClose(a) PROVE BoxStages'
  BY <1>14 DEF TheBox!BeginClose, TheBox!Quiet
<1>15. ASSUME NEW m \in TheBox!Managers, TheBox!CloseManager(m) PROVE BoxStages'
  BY <1>15 DEF TheBox!CloseManager, TheBox!Held
<1>16. ASSUME NEW m \in TheBox!Managers, TheBox!CloseMember(m) PROVE BoxStages'
  BY <1>16 DEF TheBox!CloseMember
<1>17. ASSUME NEW m \in TheBox!Managers, TheBox!ManagerClosed(m) PROVE BoxStages'
  BY <1>17 DEF TheBox!ManagerClosed
<1>18. QED
  BY <1>1, <1>2, <1>3, <1>4, <1>5, <1>6, <1>7, <1>8, <1>9, <1>10, <1>11, <1>12,
     <1>13, <1>14, <1>15, <1>16, <1>17
  DEF TheBox!Next, TheBox!Start, TheBox!CloseStep, TheBox!Closing

\* A member is opened by a manager that will close it.
LEMMA BoxHeldKept == Serialized /\ BoxInv /\ [TheBox!Next]_boxVars => BoxHeld'
<1> SUFFICES ASSUME Serialized, BoxInv, [TheBox!Next]_boxVars PROVE BoxHeld'
  OBVIOUS
<1> USE BoxFacts DEF BoxInv, BoxHeld, BoxStages, BoxCalls, BoxJobs, BoxWalks,
        TheBox!TypeOK, TheBox!starting, TheBox!closing
<1>1. CASE TheBox!Begin
  BY <1>1 DEF TheBox!Begin
<1>2. CASE TheBox!ReadContext
  BY <1>2 DEF TheBox!ReadContext, TheBox!Fail
<1>3. CASE TheBox!StartManager
  BY <1>3 DEF TheBox!StartManager
<1>4. CASE TheBox!AddEndpoints
  BY <1>4 DEF TheBox!AddEndpoints
<1>5. CASE TheBox!StartMember
  <2>1. UNCHANGED <<started, listed, job, left>> /\ starter = "members" /\ ~done
    BY <1>5 DEF TheBox!StartMember
  <2>2. CASE open' = open
    BY <2>1, <2>2
  <2>3. CASE TheBox!StartPlan[at][1] = "start"
    <3>1. StageOf(at) = 1
      BY <2>3 DEF StageOf, TheBox!StageNumber
    <3>2. at >= 6 /\ at \in 1 .. 20
      BY <2>1, <3>1, StartPlanFacts
    <3>3. \A i \in 1 .. 5 : started[ManagerOf(i)]
      BY <2>1, <3>2
    <3>4. \A m \in TheBox!Managers : started[m]
      BY <3>3, StartPlanFacts DEF TheBox!Managers
    <3>5. \A m \in TheBox!Managers : job[m] = "none" /\ m \in listed
      BY <2>1
    <3>6. QED
      BY <2>1, <3>4, <3>5
  <2>4. QED
    BY <1>5, <2>2, <2>3 DEF TheBox!StartMember
<1>6. CASE TheBox!NoneReady
  BY <1>6 DEF TheBox!NoneReady, TheBox!Fail
<1>7. CASE TheBox!NextManager
  BY <1>7 DEF TheBox!NextManager
<1>8. CASE TheBox!StartFails
  BY <1>8 DEF TheBox!StartFails
<1>9. CASE TheBox!Cancel \/ TheBox!Done \/ UNCHANGED boxVars
  BY <1>9 DEF TheBox!Cancel, TheBox!Done, TheBox!vars, boxVars
<1>10. ASSUME NEW a \in TheBox!Actors, TheBox!TestDone(a) PROVE BoxHeld'
  BY <1>10 DEF TheBox!TestDone
<1>11. ASSUME NEW a \in TheBox!Actors, TheBox!CloseDone(a) PROVE BoxHeld'
  BY <1>11 DEF TheBox!CloseDone, TheBox!Spawn
<1>12. ASSUME NEW a \in TheBox!Actors, TheBox!AwaitDone(a) PROVE BoxHeld'
  BY <1>12 DEF TheBox!AwaitDone, TheBox!Pass, TheBox!Spawn
<1>13. ASSUME NEW a \in TheBox!Actors, TheBox!AwaitTimeout(a) PROVE BoxHeld'
  BY <1>13 DEF TheBox!AwaitTimeout, TheBox!Pass, TheBox!Spawn
<1>14. ASSUME NEW a \in BoxClosers, TheBox!BeginClose(a) PROVE BoxHeld'
  BY <1>14 DEF TheBox!BeginClose, TheBox!Quiet
<1>15. ASSUME NEW m \in TheBox!Managers, TheBox!CloseManager(m) PROVE BoxHeld'
  BY <1>15 DEF TheBox!CloseManager, TheBox!Held
<1>16. ASSUME NEW m \in TheBox!Managers, TheBox!CloseMember(m) PROVE BoxHeld'
  BY <1>16 DEF TheBox!CloseMember
<1>17. ASSUME NEW m \in TheBox!Managers, TheBox!ManagerClosed(m) PROVE BoxHeld'
  BY <1>17 DEF TheBox!ManagerClosed
<1>18. QED
  BY <1>1, <1>2, <1>3, <1>4, <1>5, <1>6, <1>7, <1>8, <1>9, <1>10, <1>11, <1>12,
     <1>13, <1>14, <1>15, <1>16, <1>17
  DEF TheBox!Next, TheBox!Start, TheBox!CloseStep, TheBox!Closing

\* The start opens the members of one manager after the other.
LEMMA BoxOpenedKept == Serialized /\ BoxInv /\ [TheBox!Next]_boxVars => BoxOpened'
<1> SUFFICES ASSUME Serialized, BoxInv, [TheBox!Next]_boxVars PROVE BoxOpened'
  OBVIOUS
<1> USE BoxFacts DEF BoxInv, BoxOpened, BoxStages, BoxCalls, BoxJobs, BoxWalks,
        TheBox!TypeOK, TheBox!starting, TheBox!closing
<1>1. CASE TheBox!Begin
  BY <1>1 DEF TheBox!Begin
<1>2. CASE TheBox!ReadContext
  BY <1>2 DEF TheBox!ReadContext, TheBox!Fail
<1>3. CASE TheBox!StartManager
  <2>1. /\ at \in 1 .. 20 /\ starter = "step" /\ begun' = {} /\ UNCHANGED <<at, open>>
        /\ todo' = (IF ManagerOf(at) = "endpoint" /\ StageOf(at) = 1 THEN {}
                    ELSE TheBox!Held(ManagerOf(at)))
        /\ starter' = (IF ManagerOf(at) = "outbound" /\ StageOf(at) = 1 THEN "endpoints"
                       ELSE "members")
    BY <1>3, ManagerStarts
  <2>2. ManagerOf(at) \in TheBox!Managers
    BY <2>1 DEF ManagerOf
  <2>3. TheBox!Held(ManagerOf(at)) = MembersOf[ManagerOf(at)]
    BY <2>1, <2>2 DEF TheBox!Held
  <2>4. /\ at = 6 => starter' = "endpoints"
        /\ at = 7 => todo' = {}
        /\ at \in {6, 8, 9, 10} => todo' = MembersOf[ManagerOf(at)]
    BY <2>1, <2>3, StartPlanFacts
  <2>5. QED
    BY <2>1, <2>4
<1>4. CASE TheBox!AddEndpoints
  <2>1. /\ starter = "endpoints" /\ starter' = "members" /\ UNCHANGED <<at, begun, open>>
        /\ todo' = todo \cup TheBox!Held("endpoint") /\ at = 6
    BY <1>4 DEF TheBox!AddEndpoints
  <2>2. TheBox!Held("endpoint") = MembersOf["endpoint"]
    BY <2>1 DEF TheBox!Held, TheBox!Managers
  <2>3. QED
    BY <2>1, <2>2
<1>5. CASE TheBox!StartMember
  <2>1. CASE starter' = "cleanup"
    BY <2>1
  <2>2. CASE starter' = starter
    <3>1. PICK x \in todo :
            /\ todo' = todo \ {x} /\ begun' = begun \cup {x}
            /\ open' = IF TheBox!StartPlan[at][1] = "start" THEN open \cup {x} ELSE open
      BY <1>5, <2>2 DEF TheBox!StartMember, TheBox!Fail
    <3>2. starter = "members" /\ UNCHANGED at /\ open \subseteq open'
      BY <1>5, <3>1 DEF TheBox!StartMember
    <3>3. todo' \subseteq todo /\ todo' \cup begun' = todo \cup begun
      BY <3>1
    <3>4. at \in {6, 8, 9, 10} => TheBox!StartPlan[at][1] = "start"
      BY DEF TheBox!StartPlan
    <3>5. at \in {6, 8, 9, 10} => begun' \subseteq open'
      BY <3>1, <3>2, <3>4
    <3>6. /\ at > 6 => MembersOf["outbound"] \cup MembersOf["endpoint"] \subseteq open'
          /\ at > 8 => MembersOf["certificateProvider"] \subseteq open'
          /\ at > 9 => MembersOf["inbound"] \subseteq open'
          /\ at > 10 => MembersOf["service"] \subseteq open'
      BY <3>2
    <3>7. /\ at \in {6, 8, 9, 10} => MembersOf[ManagerOf(at)] \subseteq todo' \cup begun'
          /\ at = 6 => MembersOf["endpoint"] \subseteq todo' \cup begun'
          /\ at = 7 => todo' = {}
          /\ at \in {8, 9, 10} => todo' \subseteq MembersOf[ManagerOf(at)]
      BY <3>2, <3>3
    <3>8. QED
      BY <2>2, <3>2, <3>5, <3>6, <3>7
  <2>3. QED
    BY <1>5, <2>1, <2>2 DEF TheBox!StartMember, TheBox!Fail
<1>6. CASE TheBox!NoneReady
  BY <1>6 DEF TheBox!NoneReady, TheBox!Fail
<1>7. CASE TheBox!NextManager
  <2>1. /\ starter = "members" /\ starter' = "step" /\ at' = at + 1 /\ UNCHANGED open
        /\ todo = {} /\ at \in 1 .. 20
    BY <1>7 DEF TheBox!NextManager
  <2>2. /\ at = 6 => MembersOf["outbound"] \cup MembersOf["endpoint"] \subseteq open
        /\ at = 8 => MembersOf["certificateProvider"] \subseteq open
        /\ at = 9 => MembersOf["inbound"] \subseteq open
        /\ at = 10 => MembersOf["service"] \subseteq open
    BY <2>1, StartPlanFacts
  <2>3. QED
    BY <2>1, <2>2
<1>8. CASE TheBox!StartFails
  BY <1>8 DEF TheBox!StartFails
<1>9. CASE TheBox!Cancel \/ TheBox!Done \/ UNCHANGED boxVars
  BY <1>9 DEF TheBox!Cancel, TheBox!Done, TheBox!vars, boxVars
<1>10. ASSUME NEW a \in TheBox!Actors, TheBox!TestDone(a) PROVE BoxOpened'
  BY <1>10 DEF TheBox!TestDone
<1>11. ASSUME NEW a \in TheBox!Actors, TheBox!CloseDone(a) PROVE BoxOpened'
  BY <1>11 DEF TheBox!CloseDone, TheBox!Spawn
<1>12. ASSUME NEW a \in TheBox!Actors, TheBox!AwaitDone(a) PROVE BoxOpened'
  BY <1>12 DEF TheBox!AwaitDone, TheBox!Pass, TheBox!Spawn
<1>13. ASSUME NEW a \in TheBox!Actors, TheBox!AwaitTimeout(a) PROVE BoxOpened'
  BY <1>13 DEF TheBox!AwaitTimeout, TheBox!Pass, TheBox!Spawn
<1>14. ASSUME NEW a \in BoxClosers, TheBox!BeginClose(a) PROVE BoxOpened'
  BY <1>14 DEF TheBox!BeginClose, TheBox!Quiet
<1>15. ASSUME NEW m \in TheBox!Managers, TheBox!CloseManager(m) PROVE BoxOpened'
  BY <1>15 DEF TheBox!CloseManager, TheBox!Held
<1>16. ASSUME NEW m \in TheBox!Managers, TheBox!CloseMember(m) PROVE BoxOpened'
  BY <1>16 DEF TheBox!CloseMember
<1>17. ASSUME NEW m \in TheBox!Managers, TheBox!ManagerClosed(m) PROVE BoxOpened'
  BY <1>17 DEF TheBox!ManagerClosed
<1>18. QED
  BY <1>1, <1>2, <1>3, <1>4, <1>5, <1>6, <1>7, <1>8, <1>9, <1>10, <1>11, <1>12,
     <1>13, <1>14, <1>15, <1>16, <1>17
  DEF TheBox!Next, TheBox!Start, TheBox!CloseStep, TheBox!Closing

\* A start that succeeds has walked the whole plan.
LEMMA BoxReadyKept == Serialized /\ BoxInv /\ [TheBox!Next]_boxVars => TheBox!ReadyMeansOpen'
<1> SUFFICES ASSUME Serialized, BoxInv, [TheBox!Next]_boxVars PROVE TheBox!ReadyMeansOpen'
  OBVIOUS
<1> USE BoxFacts DEF BoxInv, TheBox!ReadyMeansOpen, BoxOpened, BoxStages, BoxCalls,
        BoxJobs, BoxWalks, TheBox!TypeOK, TheBox!starting, TheBox!closing
<1>1. CASE TheBox!Begin
  BY <1>1 DEF TheBox!Begin
<1>2. CASE TheBox!ReadContext
  <2>1. UNCHANGED <<open, done>>
    BY <1>2 DEF TheBox!ReadContext
  <2>2. CASE starter' = "ready"
    <3>1. starter = "step" /\ at > 20
      BY <1>2, <2>2 DEF TheBox!ReadContext, TheBox!Fail
    <3>2. \A m \in TheBox!Managers : MembersOf[m] \subseteq open
      BY <3>1 DEF TheBox!Managers
    <3>3. TheBox!Members \subseteq open /\ open \subseteq TheBox!Members
      BY <3>2
    <3>4. open = TheBox!Members
      BY ONLY <3>3, SameSet
    <3>5. QED
      BY <2>1, <3>4
  <2>3. CASE starter' # "ready"
    BY <2>3
  <2>4. QED
    BY <2>2, <2>3
<1>3. CASE TheBox!StartManager
  BY <1>3 DEF TheBox!StartManager
<1>4. CASE TheBox!AddEndpoints
  BY <1>4 DEF TheBox!AddEndpoints
<1>5. CASE TheBox!StartMember
  BY <1>5 DEF TheBox!StartMember, TheBox!Fail
<1>6. CASE TheBox!NoneReady
  BY <1>6 DEF TheBox!NoneReady, TheBox!Fail
<1>7. CASE TheBox!NextManager
  BY <1>7 DEF TheBox!NextManager
<1>8. CASE TheBox!StartFails
  BY <1>8 DEF TheBox!StartFails
<1>9. CASE TheBox!Cancel \/ TheBox!Done \/ UNCHANGED boxVars
  BY <1>9 DEF TheBox!Cancel, TheBox!Done, TheBox!vars, boxVars
<1>10. ASSUME NEW a \in TheBox!Actors, TheBox!TestDone(a) PROVE TheBox!ReadyMeansOpen'
  BY <1>10 DEF TheBox!TestDone
<1>11. ASSUME NEW a \in TheBox!Actors, TheBox!CloseDone(a) PROVE TheBox!ReadyMeansOpen'
  BY <1>11 DEF TheBox!CloseDone, TheBox!Spawn
<1>12. ASSUME NEW a \in TheBox!Actors, TheBox!AwaitDone(a) PROVE TheBox!ReadyMeansOpen'
  BY <1>12 DEF TheBox!AwaitDone, TheBox!Pass, TheBox!Spawn
<1>13. ASSUME NEW a \in TheBox!Actors, TheBox!AwaitTimeout(a) PROVE TheBox!ReadyMeansOpen'
  BY <1>13 DEF TheBox!AwaitTimeout, TheBox!Pass, TheBox!Spawn
<1>14. ASSUME NEW a \in BoxClosers, TheBox!BeginClose(a) PROVE TheBox!ReadyMeansOpen'
  BY <1>14 DEF TheBox!BeginClose, TheBox!Quiet
<1>15. ASSUME NEW m \in TheBox!Managers, TheBox!CloseManager(m) PROVE TheBox!ReadyMeansOpen'
  BY <1>15 DEF TheBox!CloseManager, TheBox!Held
<1>16. ASSUME NEW m \in TheBox!Managers, TheBox!CloseMember(m) PROVE TheBox!ReadyMeansOpen'
  BY <1>16 DEF TheBox!CloseMember
<1>17. ASSUME NEW m \in TheBox!Managers, TheBox!ManagerClosed(m) PROVE TheBox!ReadyMeansOpen'
  BY <1>17 DEF TheBox!ManagerClosed
<1>18. QED
  BY <1>1, <1>2, <1>3, <1>4, <1>5, <1>6, <1>7, <1>8, <1>9, <1>10, <1>11, <1>12,
     <1>13, <1>14, <1>15, <1>16, <1>17
  DEF TheBox!Next, TheBox!Start, TheBox!CloseStep, TheBox!Closing

\* Nobody comes between the test of `done` and its close.
LEMMA BoxNoPanicKept == Serialized /\ BoxInv /\ [TheBox!Next]_boxVars => TheBox!NoPanic'
<1> SUFFICES ASSUME Serialized, BoxInv, [TheBox!Next]_boxVars PROVE TheBox!NoPanic'
  OBVIOUS
<1> USE BoxFacts DEF BoxInv, TheBox!NoPanic, BoxCalls, BoxWalks, TheBox!TypeOK,
        TheBox!starting, TheBox!closing
<1>1. CASE TheBox!Begin
  BY <1>1 DEF TheBox!Begin
<1>2. CASE TheBox!ReadContext
  BY <1>2 DEF TheBox!ReadContext, TheBox!Fail
<1>3. CASE TheBox!StartManager
  BY <1>3, ManagerStarts
<1>4. CASE TheBox!AddEndpoints
  BY <1>4 DEF TheBox!AddEndpoints
<1>5. CASE TheBox!StartMember
  BY <1>5 DEF TheBox!StartMember, TheBox!Fail
<1>6. CASE TheBox!NoneReady
  BY <1>6 DEF TheBox!NoneReady, TheBox!Fail
<1>7. CASE TheBox!NextManager
  BY <1>7 DEF TheBox!NextManager
<1>8. CASE TheBox!StartFails
  BY <1>8 DEF TheBox!StartFails
<1>9. CASE TheBox!Cancel \/ TheBox!Done \/ UNCHANGED boxVars
  BY <1>9 DEF TheBox!Cancel, TheBox!Done, TheBox!vars, boxVars
<1>10. ASSUME NEW a \in TheBox!Actors, TheBox!TestDone(a) PROVE TheBox!NoPanic'
  BY <1>10 DEF TheBox!TestDone
<1>11. ASSUME NEW a \in TheBox!Actors, TheBox!CloseDone(a) PROVE TheBox!NoPanic'
  BY <1>11 DEF TheBox!CloseDone, TheBox!Spawn
<1>12. ASSUME NEW a \in TheBox!Actors, TheBox!AwaitDone(a) PROVE TheBox!NoPanic'
  BY <1>12 DEF TheBox!AwaitDone, TheBox!Pass, TheBox!Spawn
<1>13. ASSUME NEW a \in TheBox!Actors, TheBox!AwaitTimeout(a) PROVE TheBox!NoPanic'
  BY <1>13 DEF TheBox!AwaitTimeout, TheBox!Pass, TheBox!Spawn
<1>14. ASSUME NEW a \in BoxClosers, TheBox!BeginClose(a) PROVE TheBox!NoPanic'
  BY <1>14 DEF TheBox!BeginClose, TheBox!Quiet
<1>15. ASSUME NEW m \in TheBox!Managers, TheBox!CloseManager(m) PROVE TheBox!NoPanic'
  BY <1>15 DEF TheBox!CloseManager, TheBox!Held
<1>16. ASSUME NEW m \in TheBox!Managers, TheBox!CloseMember(m) PROVE TheBox!NoPanic'
  BY <1>16 DEF TheBox!CloseMember
<1>17. ASSUME NEW m \in TheBox!Managers, TheBox!ManagerClosed(m) PROVE TheBox!NoPanic'
  BY <1>17 DEF TheBox!ManagerClosed
<1>18. QED
  BY <1>1, <1>2, <1>3, <1>4, <1>5, <1>6, <1>7, <1>8, <1>9, <1>10, <1>11, <1>12,
     <1>13, <1>14, <1>15, <1>16, <1>17
  DEF TheBox!Next, TheBox!Start, TheBox!CloseStep, TheBox!Closing

LEMMA BoxStep == Serialized /\ BoxInv /\ [TheBox!Next]_boxVars => BoxInv'
  BY BoxTypes, BoxCallsKept, BoxJobsKept, BoxStagesKept, BoxHeldKept, BoxOpenedKept,
     BoxReadyKept, BoxNoPanicKept DEF BoxInv

\* Whatever part of the run moves, the Box takes a step of its own or none.
LEMMA StepOfBox == [EngineNext]_engineVars => [TheBox!Next]_boxVars
  BY DEF EngineNext, engineVars

\* As long as the owner calls Close outside of Start and Close only, the
\* invariant of the Box holds in every reachable state.
THEOREM BoxInvariance == ASSUME Serialized PROVE EngineSpec => []BoxInv
<1>1. EngineInit => BoxInv
  BY BoxInit DEF EngineInit
<1>2. BoxInv /\ [EngineNext]_engineVars => BoxInv'
  BY StepOfBox, BoxStep
<1>3. QED
  BY <1>1, <1>2, PTL DEF EngineSpec, engineVars

\* Box.Start and Box.Close leave no member open, whichever stage the start
\* failed or was cancelled at, unless a manager was given up after ten seconds.
THEOREM ClosedIsEmpty == ASSUME Serialized PROVE EngineSpec => []ClosedBoxIsEmpty
<1>1. BoxInv => ClosedBoxIsEmpty
  <2> SUFFICES ASSUME BoxInv, TheBox!Quiet, done, gaveUp = {} PROVE open = {}
    BY DEF ClosedBoxIsEmpty, TheBox!ClosedBoxIsEmpty
  <2>1. turn = 6
    BY DEF BoxInv, BoxCalls, TheBox!Quiet
  <2>2. \A i \in 1 .. 5 : job[TheBox!ClosePlan[i]] = "done"
    BY <2>1 DEF BoxInv, BoxJobs
  <2>3. \A m \in TheBox!Managers : job[m] = "done"
    BY <2>2, ClosePlanFacts DEF TheBox!Managers
  <2>4. \A m \in TheBox!Managers : MembersOf[m] \cap open = {}
    BY <2>3 DEF BoxInv, BoxHeld
  <2>5. QED
    BY <2>4, BoxFacts DEF BoxInv, TheBox!TypeOK
<1>2. QED
  BY <1>1, BoxInvariance, PTL

\* Neither the second close of s.done nor a manager that is asked for a stage it
\* has passed panics.
THEOREM BoxNeverPanics == ASSUME Serialized PROVE EngineSpec => []TheBox!NoPanic
<1>1. BoxInv => TheBox!NoPanic
  BY DEF BoxInv
<1>2. QED
  BY <1>1, BoxInvariance, PTL

\* startOutbounds starts an outbound after those it dials through.
LEMMA StartsInOrder ==
  Serialized /\ BoxInv /\ [TheBox!Next]_boxVars =>
    \A x \in open' \ open : Dependencies[x] \subseteq open
<1> SUFFICES ASSUME Serialized, BoxInv, [TheBox!Next]_boxVars, NEW x \in open' \ open
             PROVE  Dependencies[x] \subseteq open
  OBVIOUS
<1>1. TheBox!StartMember
  BY DEF boxVars, TheBox!Next, TheBox!Start, TheBox!CloseStep, TheBox!Closing,
     TheBox!Begin, TheBox!ReadContext, TheBox!StartManager, TheBox!AddEndpoints,
     TheBox!NoneReady, TheBox!NextManager, TheBox!StartFails, TheBox!Cancel, TheBox!Done,
     TheBox!vars, TheBox!TestDone, TheBox!CloseDone, TheBox!AwaitDone, TheBox!AwaitTimeout,
     TheBox!BeginClose, TheBox!CloseManager, TheBox!CloseMember, TheBox!ManagerClosed
<1>2. starter = "members" /\ TheBox!Ready(x) /\ x \in todo /\ TheBox!StartPlan[at][1] = "start"
  BY <1>1 DEF TheBox!StartMember
<1>3. at \in 1 .. 20
  BY <1>2, BoxFacts DEF BoxInv, BoxStages, TheBox!TypeOK
<1>4. StageOf(at) = 1
  BY <1>2 DEF StageOf, TheBox!StageNumber
<1>5. at \in {6, 8, 9, 10}
  <2>1. at # 7
    BY <1>2 DEF BoxInv, BoxOpened
  <2>2. QED
    BY <1>3, <1>4, <2>1, StartPlanFacts
<1>6. CASE at = 6
  <2>1. TheBox!StartPlan[at] = <<"start", "outbound">>
    BY <1>6 DEF TheBox!StartPlan
  <2>2. Dependencies[x] \subseteq begun
    BY <1>2, <2>1 DEF TheBox!Ready
  <2>3. begun \subseteq open
    BY <1>2, <1>5 DEF BoxInv, BoxOpened
  <2>4. QED
    BY <2>2, <2>3
<1>7. CASE at \in {8, 9, 10}
  <2>1. x \in MembersOf[ManagerOf(at)]
    BY <1>2, <1>7 DEF BoxInv, BoxOpened
  <2>2. ManagerOf(at) \in TheBox!Managers \ {"outbound", "endpoint"}
    BY <1>7, StartPlanFacts DEF TheBox!Managers
  <2>3. Dependencies[x] = {}
    BY <2>1, <2>2, BoxConstants DEF TheBox!MembersAssumption
  <2>4. QED
    BY <2>3
<1>8. QED
  BY <1>5, <1>6, <1>7

\* Close ends the entries before the exits they feed.
LEMMA ClosesInOrder ==
  Serialized /\ BoxInv /\ [TheBox!Next]_boxVars =>
    \A x \in open \ open' : x \in MembersOf["outbound"] =>
        \A m \in TheBox!Managers \ ({"outbound"} \cup gaveUp) : MembersOf[m] \cap open = {}
<1> SUFFICES ASSUME Serialized, BoxInv, [TheBox!Next]_boxVars, NEW x \in open \ open',
                    x \in MembersOf["outbound"],
                    NEW m \in TheBox!Managers \ ({"outbound"} \cup gaveUp)
             PROVE  MembersOf[m] \cap open = {}
  OBVIOUS
<1>1. \E k \in TheBox!Managers : TheBox!CloseMember(k)
  BY DEF boxVars, TheBox!Next, TheBox!Start, TheBox!CloseStep, TheBox!Closing,
     TheBox!Begin, TheBox!ReadContext, TheBox!StartManager, TheBox!AddEndpoints,
     TheBox!StartMember, TheBox!NoneReady, TheBox!NextManager, TheBox!StartFails,
     TheBox!Cancel, TheBox!Done, TheBox!vars, TheBox!TestDone, TheBox!CloseDone,
     TheBox!AwaitDone, TheBox!AwaitTimeout, TheBox!BeginClose, TheBox!CloseManager,
     TheBox!ManagerClosed
<1>2. PICK k \in TheBox!Managers : TheBox!CloseMember(k)
  BY <1>1
<1>3. job[k] = "closing" /\ x \in left[k]
  BY <1>2 DEF TheBox!CloseMember
<1>4. x \in MembersOf[k]
  BY <1>3 DEF BoxInv, BoxHeld
<1>5. k = "outbound"
  BY <1>4, BoxConstants DEF TheBox!ManagersAssumption, TheBox!Managers
<1>6. turn >= 5
  BY <1>3, <1>5, ClosePlanFacts, BoxFacts DEF BoxInv, BoxJobs, TheBox!TypeOK
<1>7. PICK i \in 1 .. 4 : TheBox!ClosePlan[i] = m
  BY ClosePlanFacts DEF TheBox!Managers
<1>8. job[m] = "done"
  BY <1>6, <1>7, BoxFacts DEF BoxInv, BoxJobs, TheBox!TypeOK
<1>9. QED
  BY <1>8 DEF BoxInv, BoxHeld

\* A start that succeeds has opened every member, an outbound after those it
\* dials through; Close ends the entries before the exits.
THEOREM MembersKeepOrder == ASSUME Serialized PROVE EngineSpec => MembersInOrder
<1> DEFINE Opens == \A x \in open' \ open : Dependencies[x] \subseteq open
           Closes == \A x \in open \ open' : x \in MembersOf["outbound"] =>
             \A m \in TheBox!Managers \ ({"outbound"} \cup gaveUp) :
                MembersOf[m] \cap open = {}
<1>1. BoxInv => TheBox!ReadyMeansOpen
  BY DEF BoxInv
<1>2. BoxInv /\ [EngineNext]_engineVars => [Opens]_(TheBox!vars) /\ [Closes]_(TheBox!vars)
  BY StepOfBox, StartsInOrder, ClosesInOrder
<1>3. QED
  BY <1>1, <1>2, BoxInvariance, PTL
  DEF EngineSpec, engineVars, MembersInOrder, TheBox!DependenciesFirst, TheBox!EntriesFirst

-----------------------------------------------------------------------------
(* The three parts together.                                               *)

\* Whatever part of the run moves, the owner takes a step of its own or none.
LEMMA EngineIsService == EngineSpec => Spec
<1>1. EngineInit => Init
  BY DEF EngineInit
<1>2. [EngineNext]_engineVars => [Next]_vars
  BY DEF EngineNext, engineVars
<1>3. QED
  BY <1>1, <1>2, PTL DEF EngineSpec, engineVars, Spec

\* Every variable of the owner, of an instance and of the emitter keeps its type.
THEOREM EngineTypes == ASSUME Serialized PROVE EngineSpec => []TypesOK
<1>1. BoxInv /\ EventInv /\ TypeOK => TypesOK
  BY DEF BoxInv, EventInv, TypesOK
<1>2. QED
  BY <1>1, BoxInvariance, EventInvariance, EngineIsService, TypeCorrect, PTL
=============================================================================
