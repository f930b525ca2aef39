---------------------------- MODULE LeasesProofs ----------------------------
(***************************************************************************)
(* What TLAPS proves of the outbounds that live on a lease, for any number *)
(* of flows, relays, leases, members and readiness probes.                 *)
(***************************************************************************)
EXTENDS MCLeases, ATSLeaseProofs, WellFoundedInduction, FiniteSetTheorems, TLAPS

-----------------------------------------------------------------------------
(* The relay circuit breaker (RelayConnect).                               *)

\* A probe belongs to the present opening of its breaker; a plain dial that
\* is not late found its breaker closed; no ticket is ahead of its breaker.
TicketInv ==
    \A f \in RelayFlows : Relay!Dialing(f) =>
        /\ ticket[f].epoch <= epoch[ticket[f].relay]
        /\ ticket[f].probe => Relay!Current(f) /\ open[ticket[f].relay] # "zero"
        /\ Relay!Current(f) /\ ~ticket[f].probe => open[ticket[f].relay] = "zero"

RelayInv == /\ Relay!TypeOK /\ TicketInv
            /\ Relay!ProbingIsHeld /\ Relay!OneProbe

\* A fresh breaker satisfies the invariant.
LEMMA RelayInit == Relay!Init => RelayInv
<1> SUFFICES ASSUME Relay!Init PROVE RelayInv
  OBVIOUS
<1> USE LeaseConstants DEF Relay!RelayConnectAssumption, Relay!Init, Relay!Index
<1>1. Relay!TypeOK
  BY DEF Relay!TypeOK, Relay!Tickets, Relay!NoTicket
<1>2. QED
  BY <1>1 DEF RelayInv, TicketInv, Relay!ProbingIsHeld, Relay!OneProbe, Relay!Dialing

LEMMA RelayConstants ==
  /\ Relays \in Nat /\ Relays > 0 /\ FailureThreshold \in Nat /\ FailureThreshold > 0
  /\ MaxNew \in Nat
  BY LeaseConstants DEF Relay!RelayConnectAssumption

LEMMA NoTicketType == Relay!NoTicket \in Relay!Tickets
<1>1. 0 \in Relay!Index
  BY RelayConstants DEF Relay!Index
<1>2. QED
  BY <1>1 DEF Relay!NoTicket, Relay!Tickets

\* The two counters: the attempts of a minute and the failures of a relay.
LEMMA RelayCounters ==
  ASSUME Relay!TypeOK, [Relay!Next]_relayVars
  PROVE  /\ attempts' \in 0 .. MaxNew
         /\ failures' \in [Relay!Index -> 0 .. FailureThreshold - 1]
<1>1. attempts' \in {attempts} \/ (attempts < MaxNew /\ attempts' = attempts + 1)
      \/ (attempts > 0 /\ attempts' = attempts - 1)
  BY DEF Relay!Next, Relay!Complete, Relay!Begin, Relay!reserveRelay, Relay!MayReserve,
     Relay!GiveUp, Relay!DialReturns, Relay!LateAnswer, Relay!CancelledAnswer,
     Relay!Success, Relay!Failure, Relay!Cancel, Relay!LeaseEnds, Relay!AttemptExpires,
     Relay!FailureExpires, Relay!CooldownEnds, relayVars
<1>2. attempts' \in 0 .. MaxNew
  BY <1>1, RelayConstants DEF Relay!TypeOK
<1>3. \/ failures' = failures
      \/ \E r \in Relay!Index, n \in 0 .. FailureThreshold - 1 :
            failures' = [failures EXCEPT ![r] = n]
  <2>1. ASSUME NEW f \in RelayFlows, Relay!Success(f) PROVE <1>3!2
    <3>1. ticket[f].relay \in Relay!Index /\ 0 \in 0 .. FailureThreshold - 1
      BY RelayConstants DEF Relay!TypeOK, Relay!Tickets
    <3>2. QED
      BY <2>1, <3>1 DEF Relay!Success
  <2>2. ASSUME NEW f \in RelayFlows, Relay!Failure(f) PROVE <1>3!2
    <3> DEFINE r == ticket[f].relay
               opens == ticket[f].probe \/ failures[r] + 1 >= FailureThreshold
               n == IF opens THEN 0 ELSE failures[r] + 1
    <3>1. r \in Relay!Index
      BY DEF Relay!TypeOK, Relay!Tickets
    <3>2. failures[r] \in 0 .. FailureThreshold - 1
      BY <3>1 DEF Relay!TypeOK
    <3>3. n \in 0 .. FailureThreshold - 1
      BY <3>2, RelayConstants
    <3>4. failures' = [failures EXCEPT ![r] = n]
      BY <2>2 DEF Relay!Failure
    <3>5. QED
      BY <3>1, <3>3, <3>4
  <2>3. ASSUME NEW r \in Relay!Index, Relay!FailureExpires(r) PROVE <1>3!2
    <3>1. failures[r] \in 0 .. FailureThreshold - 1
      BY DEF Relay!TypeOK
    <3>2. failures[r] - 1 \in 0 .. FailureThreshold - 1
      BY <2>3, <3>1, RelayConstants DEF Relay!FailureExpires
    <3>3. QED
      BY <2>3, <3>2 DEF Relay!FailureExpires
  <2>4. CASE ~(\/ \E f \in RelayFlows : Relay!Success(f) \/ Relay!Failure(f)
               \/ \E r \in Relay!Index : Relay!FailureExpires(r))
    BY <2>4 DEF Relay!Next, Relay!Complete, Relay!Begin, Relay!reserveRelay,
       Relay!GiveUp, Relay!DialReturns, Relay!LateAnswer, Relay!CancelledAnswer,
       Relay!Cancel, Relay!LeaseEnds, Relay!AttemptExpires,
       Relay!CooldownEnds, Relay!breaker, relayVars
  <2>5. QED
    BY <2>1, <2>2, <2>3, <2>4
<1>4. failures' \in [Relay!Index -> 0 .. FailureThreshold - 1]
  BY <1>3 DEF Relay!TypeOK
<1>5. QED
  BY <1>2, <1>4

\* No action gives a variable of the breaker a value outside its type.
LEMMA RelayTypes == RelayInv /\ [Relay!Next]_relayVars => Relay!TypeOK'
<1> SUFFICES ASSUME Relay!TypeOK, [Relay!Next]_relayVars PROVE Relay!TypeOK'
  BY DEF RelayInv
<1> USE RelayCounters DEF Relay!TypeOK, Relay!Tickets, Relay!breaker, Relay!flowVars, Relay!GoTo
<1>1. ASSUME NEW f \in RelayFlows, Relay!Begin(f) PROVE Relay!TypeOK'
  BY <1>1 DEF Relay!Begin
<1>2. ASSUME NEW f \in RelayFlows, Relay!reserveRelay(f) PROVE Relay!TypeOK'
  BY <1>2 DEF Relay!reserveRelay, Relay!MayReserve, Relay!Chosen, Relay!Extra
<1>3. ASSUME NEW f \in RelayFlows, Relay!GiveUp(f) \/ Relay!DialReturns(f) PROVE Relay!TypeOK'
  BY <1>3 DEF Relay!GiveUp, Relay!DialReturns
<1>4. ASSUME NEW f \in RelayFlows, Relay!LateAnswer(f) \/ Relay!CancelledAnswer(f)
      PROVE  Relay!TypeOK'
  <2>1. CASE Relay!LateAnswer(f)
    BY <2>1, NoTicketType DEF Relay!LateAnswer, Relay!Settle
  <2>2. CASE Relay!CancelledAnswer(f)
    BY <2>2, NoTicketType DEF Relay!CancelledAnswer, Relay!Settle, Relay!Released
  <2>3. QED
    BY <1>4, <2>1, <2>2
<1>5. ASSUME NEW f \in RelayFlows, Relay!Success(f) PROVE Relay!TypeOK'
  BY <1>5, NoTicketType DEF Relay!Success, Relay!Settle, Relay!Released
<1>6. ASSUME NEW f \in RelayFlows, Relay!Failure(f) PROVE Relay!TypeOK'
  BY <1>6, NoTicketType DEF Relay!Failure, Relay!Settle, Relay!Released
<1>7. ASSUME NEW f \in RelayFlows, Relay!Cancel(f) PROVE Relay!TypeOK'
  BY <1>7 DEF Relay!Cancel
<1>8. CASE Relay!LeaseEnds \/ Relay!AttemptExpires
  BY <1>8 DEF Relay!LeaseEnds, Relay!AttemptExpires
<1>9. ASSUME NEW r \in Relay!Index, Relay!FailureExpires(r) \/ Relay!CooldownEnds(r)
      PROVE  Relay!TypeOK'
  BY <1>9 DEF Relay!FailureExpires, Relay!CooldownEnds
<1>10. CASE UNCHANGED relayVars
  BY <1>10 DEF relayVars
<1>11. QED
  BY <1>1, <1>2, <1>3, <1>4, <1>5, <1>6, <1>7, <1>8, <1>9, <1>10
  DEF Relay!Next, Relay!Complete

\* What one flow and the breaker of one relay do leaves the other flows and
\* relays as they are.
OnlyOf(f, r) ==
    /\ \A g \in RelayFlows \ {f} : ticket'[g] = ticket[g] /\ relayPc'[g] = relayPc[g]
    /\ \A s \in Relay!Index \ {r} :
         open'[s] = open[s] /\ epoch'[s] = epoch[s] /\ probing'[s] = probing[s]

\* An answer that is on time ends the dial and, when it was the probe, the
\* probing; the breaker starts another epoch when it opens or closes.
LEMMA AnswerStep ==
  ASSUME RelayInv, NEW f \in RelayFlows, relayPc[f] = "answered", Relay!Current(f),
         OnlyOf(f, ticket[f].relay),
         relayPc'[f] \notin {"dialing", "answered"},
         probing'[ticket[f].relay] = (probing[ticket[f].relay] /\ ~ticket[f].probe),
         \/ /\ epoch'[ticket[f].relay] = epoch[ticket[f].relay]
            /\ open'[ticket[f].relay] = open[ticket[f].relay]
         \/ epoch'[ticket[f].relay] = epoch[ticket[f].relay] + 1,
         Relay!TypeOK'
  PROVE  RelayInv'
<1> DEFINE r == ticket[f].relay
<1>1. r \in Relay!Index
  BY DEF RelayInv, Relay!TypeOK, Relay!Tickets
<1>2. \A g \in RelayFlows : Relay!Dialing(g)' =>
        g # f /\ Relay!Dialing(g) /\ ticket'[g] = ticket[g]
  BY DEF OnlyOf, Relay!Dialing
<1>3. \A g \in RelayFlows : ticket[g].relay \in Relay!Index /\ ticket[g].epoch \in Nat
  BY DEF RelayInv, Relay!TypeOK, Relay!Tickets
<1>4. \A s \in Relay!Index : epoch[s] \in Nat
  BY DEF RelayInv, Relay!TypeOK
<1>5. \A g \in RelayFlows : g # f /\ Relay!Dialing(g) /\ ticket[g].relay = r =>
        /\ ticket[g].probe => ~ticket[f].probe /\ open[r] # "zero"
        /\ ticket[g].epoch <= epoch[r]
  BY DEF RelayInv, TicketInv, Relay!OneProbe, Relay!Dialing
<1>6. ~ticket[f].probe => open[r] = "zero"
  BY DEF RelayInv, TicketInv, Relay!Dialing
<1>7. \A g \in RelayFlows : g # f /\ Relay!Dialing(g) /\ ticket[g].relay = r =>
        ~ticket[g].probe
  BY <1>5, <1>6
<1>8. TicketInv'
  <2> SUFFICES ASSUME NEW g \in RelayFlows, Relay!Dialing(g)'
               PROVE  /\ ticket'[g].epoch <= epoch'[ticket'[g].relay]
                      /\ ticket'[g].probe => Relay!Current(g)' /\ open'[ticket'[g].relay] # "zero"
                      /\ Relay!Current(g)' /\ ~ticket'[g].probe =>
                           open'[ticket'[g].relay] = "zero"
    BY DEF TicketInv
  <2>1. g # f /\ Relay!Dialing(g) /\ ticket'[g] = ticket[g]
    BY <1>2
  <2>2. CASE ticket[g].relay # r
    BY <2>1, <2>2, <1>3 DEF RelayInv, TicketInv, Relay!Current, OnlyOf
  <2>3. CASE ticket[g].relay = r
    BY <2>1, <2>3, <1>1, <1>3, <1>4, <1>5, <1>7 DEF RelayInv, TicketInv, Relay!Current
  <2>4. QED
    BY <2>2, <2>3
<1>9. Relay!OneProbe'
  BY <1>2 DEF RelayInv, Relay!OneProbe
<1>10. Relay!ProbingIsHeld'
  <2>1. ~probing'[r]
    BY <1>1, <1>6 DEF RelayInv, Relay!ProbingIsHeld, TicketInv
  <2>2. \A g \in RelayFlows : Relay!Dialing(g)' /\ ticket'[g].relay = r => ~ticket'[g].probe
    BY <1>2, <1>7
  <2>3. ASSUME NEW s \in Relay!Index \ {r}, probing'[s]
        PROVE  \E g \in RelayFlows : /\ Relay!Dialing(g)' /\ Relay!Current(g)'
                                     /\ ticket'[g].relay = s /\ ticket'[g].probe
    <3>1. PICK g \in RelayFlows : /\ Relay!Dialing(g) /\ Relay!Current(g)
                                  /\ ticket[g].relay = s /\ ticket[g].probe
      BY <2>3 DEF OnlyOf, RelayInv, Relay!ProbingIsHeld
    <3>2. g # f
      BY <3>1
    <3>3. QED
      BY <3>1, <3>2 DEF OnlyOf, Relay!Dialing, Relay!Current
  <2>4. ASSUME NEW s \in Relay!Index \ {r}, NEW g \in RelayFlows, Relay!Dialing(g)',
               Relay!Current(g)', ticket'[g].relay = s, ticket'[g].probe
        PROVE  probing'[s]
    BY <1>2, <2>4 DEF OnlyOf, RelayInv, Relay!ProbingIsHeld, Relay!Current
  <2>5. QED
    BY <2>1, <2>2, <2>3, <2>4 DEF Relay!ProbingIsHeld
<1>11. QED
  BY <1>8, <1>9, <1>10 DEF RelayInv

\* Steps of flows that neither begin a dial nor end one that is on time.
Quiet ==
    /\ UNCHANGED <<epoch, open, probing>>
    /\ \A f \in RelayFlows :
         \/ ticket'[f] = ticket[f] /\ (Relay!Dialing(f)' <=> Relay!Dialing(f))
         \/ ~Relay!Dialing(f)' /\ (Relay!Dialing(f) => ~ticket[f].probe)

LEMMA QuietStep == RelayInv /\ Relay!TypeOK' /\ Quiet => RelayInv'
<1> SUFFICES ASSUME RelayInv, Relay!TypeOK', Quiet PROVE RelayInv'
  OBVIOUS
<1>1. TicketInv'
  BY DEF Quiet, RelayInv, TicketInv, Relay!Current
<1>2. Relay!OneProbe'
  BY DEF Quiet, RelayInv, Relay!OneProbe
<1>3. Relay!ProbingIsHeld'
  BY DEF Quiet, RelayInv, Relay!ProbingIsHeld, Relay!Current
<1>4. QED
  BY <1>1, <1>2, <1>3 DEF RelayInv

\* Every step of the breaker keeps its invariant.
LEMMA RelayStep == RelayInv /\ [Relay!Next]_relayVars => RelayInv'
<1> SUFFICES ASSUME RelayInv, [Relay!Next]_relayVars PROVE RelayInv'
  OBVIOUS
<1>0. Relay!TypeOK'
  BY RelayTypes
<1> USE DEF Relay!breaker, Relay!flowVars
<1>2. ASSUME NEW f \in RelayFlows,
             \/ Relay!Begin(f) \/ Relay!GiveUp(f) \/ Relay!DialReturns(f)
             \/ Relay!Cancel(f)
      PROVE  RelayInv'
  <2>1. Quiet
    BY <1>2 DEF Quiet, Relay!Begin, Relay!GiveUp, Relay!DialReturns, Relay!Cancel,
       Relay!GoTo, Relay!Dialing, RelayInv, Relay!TypeOK
  <2>2. QED
    BY <1>0, <2>1, QuietStep
<1>3. ASSUME NEW f \in RelayFlows, Relay!LateAnswer(f) PROVE RelayInv'
  <2>1. ~ticket[f].probe
    BY <1>3 DEF Relay!LateAnswer, Relay!Dialing, Relay!Current, RelayInv, TicketInv
  <2>2. Quiet
    BY <1>3, <2>1 DEF Quiet, Relay!LateAnswer, Relay!Settle, Relay!GoTo, Relay!Dialing,
       RelayInv, Relay!TypeOK
  <2>3. QED
    BY <1>0, <2>2, QuietStep
<1>4. ASSUME NEW f \in RelayFlows,
             Relay!CancelledAnswer(f) \/ Relay!Success(f) \/ Relay!Failure(f)
      PROVE  RelayInv'
  <2> DEFINE r == ticket[f].relay
  <2>1. relayPc[f] = "answered" /\ Relay!Current(f) /\ r \in Relay!Index
    BY <1>4 DEF Relay!CancelledAnswer, Relay!Success, Relay!Failure, Relay!Current,
       RelayInv, Relay!TypeOK, Relay!Tickets
  <2>2. /\ relayPc'[f] \notin {"dialing", "answered"}
        /\ \A g \in RelayFlows \ {f} : ticket'[g] = ticket[g] /\ relayPc'[g] = relayPc[g]
    BY <1>4 DEF Relay!CancelledAnswer, Relay!Success, Relay!Failure, Relay!Settle,
       Relay!GoTo, RelayInv, Relay!TypeOK
  <2>3. /\ probing'[r] = (probing[r] /\ ~ticket[f].probe)
        /\ \A s \in Relay!Index \ {r} : probing'[s] = probing[s]
    BY <1>4, <2>1 DEF Relay!CancelledAnswer, Relay!Success, Relay!Failure,
       Relay!Released, RelayInv, Relay!TypeOK
  <2>4. /\ \/ epoch'[r] = epoch[r] /\ open'[r] = open[r]
           \/ epoch'[r] = epoch[r] + 1
        /\ \A s \in Relay!Index \ {r} : open'[s] = open[s] /\ epoch'[s] = epoch[s]
    BY <1>4, <2>1 DEF Relay!CancelledAnswer, Relay!Success, Relay!Failure,
       RelayInv, Relay!TypeOK
  <2>5. QED
    BY <1>0, <2>1, <2>2, <2>3, <2>4, AnswerStep DEF OnlyOf
<1>5. ASSUME NEW f \in RelayFlows, Relay!reserveRelay(f) PROVE RelayInv'
  <2>1. PICK r \in Relay!Chosen(f) :
          /\ probing' = [probing EXCEPT ![r] = @ \/ open[r] # "zero"]
          /\ ticket' = [ticket EXCEPT ![f] =
                [relay |-> r, epoch |-> epoch[r], probe |-> open[r] # "zero"]]
    BY <1>5 DEF Relay!reserveRelay
  <2>2. /\ r \in Relay!Index
        /\ open[r] = "zero" \/ ~probing[r]
    BY DEF Relay!Chosen, Relay!Usable
  <2>3. /\ ~Relay!Dialing(f) /\ UNCHANGED <<open, epoch>>
        /\ relayPc' = [relayPc EXCEPT ![f] = "dialing"]
    BY <1>5 DEF Relay!reserveRelay, Relay!GoTo, Relay!Dialing
  <2>4. /\ ticket'[f].relay = r /\ ticket'[f].epoch = epoch[r]
        /\ ticket'[f].probe = (open[r] # "zero")
        /\ Relay!Dialing(f)' /\ Relay!Current(f)'
        /\ \A g \in RelayFlows \ {f} : /\ ticket'[g] = ticket[g]
                                       /\ Relay!Dialing(g)' <=> Relay!Dialing(g)
                                       /\ Relay!Current(g)' <=> Relay!Current(g)
    BY <2>1, <2>3 DEF RelayInv, Relay!TypeOK, Relay!Dialing, Relay!Current
  <2>5. \A g \in RelayFlows : Relay!Dialing(g) /\ ticket[g].probe =>
          probing[ticket[g].relay]
    BY DEF RelayInv, TicketInv, Relay!ProbingIsHeld, Relay!TypeOK, Relay!Tickets
  <2>6. TicketInv'
    <3> SUFFICES ASSUME NEW g \in RelayFlows, Relay!Dialing(g)'
                 PROVE  /\ ticket'[g].epoch <= epoch'[ticket'[g].relay]
                        /\ ticket'[g].probe =>
                             Relay!Current(g)' /\ open'[ticket'[g].relay] # "zero"
                        /\ Relay!Current(g)' /\ ~ticket'[g].probe =>
                             open'[ticket'[g].relay] = "zero"
      BY DEF TicketInv
    <3>1. CASE g = f
      <4>1. epoch[r] <= epoch[r]
        BY <2>2 DEF RelayInv, Relay!TypeOK
      <4>2. QED
        BY <2>3, <2>4, <3>1, <4>1
    <3>2. CASE g # f
      BY <2>3, <2>4, <3>2 DEF RelayInv, TicketInv
    <3>3. QED
      BY <3>1, <3>2
  <2>7. Relay!OneProbe'
    <3>1. \A g \in RelayFlows \ {f} :
            Relay!Dialing(g)' /\ ticket'[g].probe /\ ticket'[g].relay = r
            => ~ticket'[f].probe
      BY <2>2, <2>4, <2>5
    <3>2. QED
      BY <2>4, <3>1 DEF RelayInv, Relay!OneProbe
  <2>8. Relay!ProbingIsHeld'
    <3>1. /\ probing'[r] <=> (probing[r] \/ open[r] # "zero")
          /\ \A s \in Relay!Index \ {r} : probing'[s] = probing[s]
      BY <2>1, <2>2 DEF RelayInv, Relay!TypeOK
    <3>2. \A s \in Relay!Index : probing[s] =>
            \E g \in RelayFlows : /\ g # f /\ Relay!Dialing(g) /\ Relay!Current(g)
                                  /\ ticket[g].relay = s /\ ticket[g].probe
      BY <2>3 DEF RelayInv, Relay!ProbingIsHeld
    <3>3. ASSUME NEW s \in Relay!Index, probing'[s]
          PROVE  \E g \in RelayFlows : /\ Relay!Dialing(g)' /\ Relay!Current(g)'
                                       /\ ticket'[g].relay = s /\ ticket'[g].probe
      <4>1. CASE probing[s]
        <5>1. PICK g \in RelayFlows : /\ g # f /\ Relay!Dialing(g) /\ Relay!Current(g)
                                      /\ ticket[g].relay = s /\ ticket[g].probe
          BY <3>2, <4>1
        <5>2. QED
          BY <2>4, <5>1
      <4>2. CASE ~probing[s]
        BY <2>4, <3>1, <3>3, <4>2
      <4>3. QED
        BY <4>1, <4>2
    <3>4. ASSUME NEW g \in RelayFlows, Relay!Dialing(g)', ticket'[g].probe
          PROVE  probing'[ticket'[g].relay]
      <4>1. CASE g = f
        BY <2>4, <3>1, <3>4, <4>1
      <4>2. CASE g # f
        <5>1. ticket[g].relay \in Relay!Index /\ probing[ticket[g].relay]
          BY <2>4, <2>5, <3>4, <4>2 DEF RelayInv, Relay!TypeOK, Relay!Tickets
        <5>2. QED
          BY <2>4, <3>1, <4>2, <5>1
      <4>3. QED
        BY <4>1, <4>2
    <3>5. QED
      BY <3>3, <3>4 DEF Relay!ProbingIsHeld
  <2>9. QED
    BY <1>0, <2>6, <2>7, <2>8 DEF RelayInv
<1>6. CASE Relay!LeaseEnds \/ Relay!AttemptExpires \/ UNCHANGED relayVars
  BY <1>0, <1>6, QuietStep
  DEF Quiet, Relay!LeaseEnds, Relay!AttemptExpires, relayVars, Relay!Dialing
<1>7. ASSUME NEW r \in Relay!Index, Relay!FailureExpires(r) PROVE RelayInv'
  BY <1>0, <1>7, QuietStep DEF Quiet, Relay!FailureExpires, Relay!Dialing
<1>8. ASSUME NEW r \in Relay!Index, Relay!CooldownEnds(r) PROVE RelayInv'
  <2>1. UNCHANGED <<epoch, probing, ticket, relayPc>>
    BY <1>8 DEF Relay!CooldownEnds
  <2>2. \A s \in Relay!Index : open'[s] = "zero" <=> open[s] = "zero"
    BY <1>8 DEF Relay!CooldownEnds, RelayInv, Relay!TypeOK
  <2>3. \A f \in RelayFlows : ticket[f].relay \in Relay!Index
    BY DEF RelayInv, Relay!TypeOK, Relay!Tickets
  <2>4. TicketInv'
    BY <2>1, <2>2, <2>3 DEF RelayInv, TicketInv, Relay!Dialing, Relay!Current
  <2>5. QED
    BY <1>0, <2>1, <2>4
    DEF RelayInv, Relay!OneProbe, Relay!ProbingIsHeld, Relay!Dialing, Relay!Current
<1>9. QED
  BY <1>2, <1>3, <1>4, <1>5, <1>6, <1>7, <1>8 DEF Relay!Next, Relay!Complete

\* The breaker's invariant holds whichever part of the run moves.
THEOREM RelayInvariance == LeasesSpec => []RelayInv
<1>1. LeasesInit => RelayInv
  BY RelayInit DEF LeasesInit
<1>2. RelayInv /\ [LeasesNext]_<<part, vars, smartVars, relayVars, groupVars>> => RelayInv'
  <2>1. [LeasesNext]_<<part, vars, smartVars, relayVars, groupVars>>
        => [Relay!Next]_relayVars
    BY DEF LeasesNext
  <2>2. QED
    BY <2>1, RelayStep
<1>3. QED
  BY <1>1, <1>2, PTL DEF LeasesSpec

\* `probing` is set exactly while a dial holds the probe of the present opening,
\* and an opened breaker lets one half-open dial through at a time, whenever the
\* dials completeRelay hears of return.
THEOREM ProbeIsExclusive == LeasesSpec => []OneProbe
<1>1. RelayInv => OneProbe
  BY DEF RelayInv, OneProbe
<1>2. QED
  BY <1>1, RelayInvariance, PTL

\* completeRelay closes a breaker, and connectRelay hands over a socket, only on
\* the answer of a dial reserved after the breaker last changed.
THEOREM LateAnswersChangeNothing == LeasesSpec => LateSuccessIsRefused
<1> DEFINE Refuses ==
      /\ \A r \in Relay!Index : open[r] # "zero" /\ open'[r] = "zero" =>
            \E f \in RelayFlows : /\ relayPc[f] = "answered" /\ relayPc'[f] # "answered"
                                  /\ ticket[f].relay = r /\ Relay!Current(f)
      /\ \A f \in RelayFlows : relayPc[f] = "answered" /\ relayPc'[f] = "connected" =>
            /\ Relay!Current(f)
            /\ open[ticket[f].relay] # "zero" => ticket[f].probe
<1>1. RelayInv /\ Relay!Next => Refuses
  <2> SUFFICES ASSUME RelayInv, Relay!Next PROVE Refuses
    OBVIOUS
  <2> USE DEF RelayInv, Relay!TypeOK, Relay!breaker, Relay!flowVars, Relay!GoTo
  <2>1. ASSUME NEW f \in RelayFlows, Relay!Success(f) PROVE Refuses
    <3>1. /\ Relay!Current(f) /\ relayPc[f] = "answered" /\ relayPc'[f] # "answered"
          /\ \A g \in RelayFlows \ {f} : relayPc'[g] = relayPc[g]
          /\ \A s \in Relay!Index : open'[s] # open[s] => s = ticket[f].relay
      BY <2>1 DEF Relay!Success, Relay!Settle, Relay!Current
    <3>2. open[ticket[f].relay] # "zero" => ticket[f].probe
      BY <3>1 DEF TicketInv, Relay!Dialing
    <3>3. QED
      BY <3>1, <3>2
  <2>2. ASSUME NEW f \in RelayFlows,
               Relay!LateAnswer(f) \/ Relay!CancelledAnswer(f) \/ Relay!Failure(f)
        PROVE  Refuses
    <3>1. \A s \in Relay!Index : open'[s] = "zero" => open[s] = "zero"
      BY <2>2 DEF Relay!LateAnswer, Relay!CancelledAnswer, Relay!Failure
    <3>2. \A g \in RelayFlows : relayPc'[g] = "connected" => relayPc[g] = "connected"
      BY <2>2 DEF Relay!LateAnswer, Relay!CancelledAnswer, Relay!Failure, Relay!Settle
    <3>3. QED
      BY <3>1, <3>2
  <2>3. CASE \/ \E f \in RelayFlows :
                  \/ Relay!Begin(f) \/ Relay!reserveRelay(f) \/ Relay!GiveUp(f)
                  \/ Relay!DialReturns(f) \/ Relay!Cancel(f)
             \/ Relay!LeaseEnds \/ Relay!AttemptExpires
             \/ \E r \in Relay!Index : Relay!FailureExpires(r) \/ Relay!CooldownEnds(r)
    <3>1. \A s \in Relay!Index : open'[s] = "zero" => open[s] = "zero"
      BY <2>3 DEF Relay!Begin, Relay!reserveRelay, Relay!GiveUp, Relay!DialReturns,
         Relay!Cancel, Relay!LeaseEnds, Relay!AttemptExpires, Relay!FailureExpires,
         Relay!CooldownEnds
    <3>2. \A g \in RelayFlows : relayPc'[g] = "connected" => relayPc[g] = "connected"
      BY <2>3 DEF Relay!Begin, Relay!reserveRelay, Relay!GiveUp, Relay!DialReturns,
         Relay!Cancel, Relay!LeaseEnds, Relay!AttemptExpires, Relay!FailureExpires,
         Relay!CooldownEnds
    <3>3. QED
      BY <3>1, <3>2
  <2>4. QED
    BY <2>1, <2>2, <2>3 DEF Relay!Next, Relay!Complete
<1>2. RelayInv /\ [LeasesNext]_<<part, vars, smartVars, relayVars, groupVars>>
      => [Refuses]_(Relay!vars)
  <2>1. [LeasesNext]_<<part, vars, smartVars, relayVars, groupVars>>
        => Relay!Next \/ UNCHANGED Relay!vars
    BY DEF LeasesNext, Relay!vars, relayVars, Relay!breaker, Relay!flowVars
  <2>2. QED
    BY <1>1, <2>1
<1>3. QED
  BY <1>2, RelayInvariance, PTL DEF LeasesSpec, LateSuccessIsRefused,
     Relay!LateSuccessIsRefused

-----------------------------------------------------------------------------
(* The Smart Access outbound (SmartAccess).  A step under a wall clock that *)
(* runs straight is one under a wall clock that may be stepped: what is     *)
(* shown of the steps of Wall holds of those of Smart too.                  *)

\* A flow that has a lease is registered until the second half of its close.
FlowInv ==
    \A f \in SmartFlows :
        /\ smartPc[f] = "idle" => auth[f] = NoLease
        /\ smartPc[f] \notin {"idle", "done"} => auth[f] \in Leases
        /\ auth[f] = NoLease => f \notin smartFlows \cup smartFclosed \cup smartQueue
        /\ auth[f] # NoLease => (f \in smartFlows <=> f \notin smartFclosed \ smartTail)
        /\ f \in smartTail => f \in smartFclosed
        /\ f \in smartActive => smartPc[f] \in {"using", "done"}

\* Where the relay socket of a flow can be.
RemoteInv ==
    \A f \in SmartFlows :
        /\ smartPc[f] \in {"idle", "hello", "dial"} => smartSock[f] = "none"
        /\ f \in smartAttached =>
             auth[f] # NoLease /\ smartPc[f] \in {"final", "using", "done"}
        /\ smartPc[f] \in {"final", "using"} => f \in smartAttached
        /\ smartSock[f] = "open" => f \in smartAttached \/ smartPc[f] = "bind"
        /\ smartSock[f] = "open" /\ f \in smartAttached => f \notin smartFclosed \ smartTail

\* A termination is a revocation.
LatchInv ==
    /\ hTerminate => smartClosed \/ hRevoked
    /\ terminated \subseteq smartRevoked

SmartInv ==
    /\ Smart!TypeOK /\ FlowInv /\ RemoteInv /\ LatchInv
    /\ Smart!RevocationStaysWithLease /\ Smart!DrainSparesActive

LEMMA SmartConstants == First \in Leases /\ NoLease \notin Leases
  BY LeaseConstants DEF Smart!SmartAccessAssumption

\* A freshly built outbound satisfies the invariant.
LEMMA SmartInit == Smart!Init => SmartInv
<1> SUFFICES ASSUME Smart!Init PROVE SmartInv
  OBVIOUS
<1>1. Smart!TypeOK
  <2>1. PICK a \in 0 .. 2 : /\ age = [l \in Leases |-> IF l = First THEN a ELSE 0]
                            /\ expired = IF a > 0 THEN {First} ELSE {}
    BY DEF Smart!Init
  <2>2. age \in [Leases -> 0 .. 2] /\ expired \subseteq Leases
    BY <2>1, SmartConstants
  <2>3. QED
    BY <2>2, SmartConstants DEF Smart!Init, Smart!TypeOK, Smart!PCs
<1>2. QED
  BY <1>1 DEF Smart!Init, SmartInv, FlowInv, RemoteInv, LatchInv,
     Smart!RevocationStaysWithLease, Smart!DrainSparesActive

\* Every step under a straight wall clock is one under a stepped one.
LEMMA StraightIsStepped == Smart!Next => Wall!Next
<1> USE DEF Smart!outbound, Wall!outbound, Smart!latches, Wall!latches, Smart!GoTo,
        Wall!GoTo, Smart!MarkClosed, Wall!MarkClosed
<1>1. \A l, out : /\ Smart!Latched(l, out) = Wall!Latched(l, out)
                  /\ Smart!Admits(l, out) <=> Wall!Admits(l, out)
  BY DEF Smart!Latched, Wall!Latched, Smart!Admits, Wall!Admits
<1>0. \A S : Smart!Cardinality(S) = Wall!Cardinality(S)
  BY DEF Smart!Cardinality, Wall!Cardinality
<1>2. FALSE \in Wall!WallReads /\ Smart!WallReads = {FALSE}
  BY DEF Smart!WallReads, Wall!WallReads
<1>3. \A f : Smart!HelloFails(f) => Wall!HelloFails(f)
  BY DEF Smart!HelloFails, Wall!HelloFails
<1>4. \A f : Smart!Dial(f) => Wall!Dial(f)
  BY DEF Smart!Dial, Wall!Dial
<1>5. \A f : Smart!SetRemote(f) => Wall!SetRemote(f)
  BY DEF Smart!SetRemote, Wall!SetRemote
<1>6. \A f : Smart!CopyEnds(f) => Wall!CopyEnds(f)
  BY DEF Smart!CopyEnds, Wall!CopyEnds
<1>7. \A f : Smart!FlowTimer(f) => Wall!FlowTimer(f)
  BY DEF Smart!FlowTimer, Wall!FlowTimer
<1>8. \A f : Smart!RevokeCloses(f) => Wall!RevokeCloses(f)
  BY DEF Smart!RevokeCloses, Wall!RevokeCloses
<1>9. \A f : Smart!CloseTail(f) => Wall!CloseTail(f)
  BY DEF Smart!CloseTail, Wall!CloseTail
<1>10. ASSUME NEW f, Smart!Begin(f) PROVE Wall!Begin(f)
  <2>1. /\ expired' = Wall!Latched(lease, FALSE)
        /\ \/ /\ Wall!Admits(lease, FALSE) /\ Wall!Cardinality(smartFlows) < MaxConcurrent
              /\ smartFlows' = smartFlows \cup {f}
              /\ auth' = [auth EXCEPT ![f] = lease]
              /\ Wall!GoTo(f, "hello")
           \/ /\ Wall!GoTo(f, "done")
              /\ UNCHANGED <<smartFlows, auth>>
    BY <1>0, <1>1, <1>2, <1>10 DEF Smart!Begin
  <2>2. QED
    BY <1>2, <1>10, <2>1 DEF Smart!Begin, Wall!Begin
<1>11. \A f : Smart!RecordProbeFailure(f) => Wall!RecordProbeFailure(f)
  BY <1>1, <1>2 DEF Smart!RecordProbeFailure, Wall!RecordProbeFailure
<1>12. \A f : Smart!Recheck(f) => Wall!Recheck(f)
  BY <1>1, <1>2 DEF Smart!Recheck, Wall!Recheck, Smart!AskAgain, Wall!AskAgain
<1>13. \A f : Smart!FinalAdmission(f) => Wall!FinalAdmission(f)
  BY <1>1, <1>2 DEF Smart!FinalAdmission, Wall!FinalAdmission, Smart!AskAgain,
     Wall!AskAgain
<1>14. /\ \A t : Smart!Revoke(t) => Wall!Revoke(t)
       /\ \A t, l : Smart!RevokeLease(l, t) => Wall!RevokeLease(l, t)
       /\ \A l : Smart!TimePasses(l) => Wall!TimePasses(l)
  BY DEF Smart!Revoke, Wall!Revoke, Smart!RevokeLease, Wall!RevokeLease,
     Smart!TimePasses, Wall!TimePasses, Smart!Picked, Wall!Picked
<1>15. Smart!Close => Wall!Close
  BY DEF Smart!Close, Wall!Close
<1>16. Smart!DNSFailed => Wall!DNSFailed
  BY <1>1, <1>2 DEF Smart!DNSFailed, Wall!DNSFailed
<1>17. ASSUME NEW l, Smart!RenewLease(l) PROVE Wall!RenewLease(l)
  <2>1. \A over : Smart!Pruned(over) = Wall!Pruned(over)
    BY DEF Smart!Pruned, Wall!Pruned
  <2>2. \/ /\ Wall!Cardinality(Wall!Pruned({})) < MaxLeases
           /\ leases' = Wall!Pruned({}) \cup {l}
           /\ lease' = l
        \/ /\ leases' = Wall!Pruned({})
           /\ UNCHANGED lease
    BY <1>0, <1>17, <2>1 DEF Smart!RenewLease
  <2>3. QED
    BY <1>17, <2>2 DEF Smart!RenewLease, Wall!RenewLease
<1>18. \A f : Smart!FlowStep(f) => Wall!FlowStep(f)
  BY <1>3, <1>4, <1>5, <1>6, <1>7, <1>8, <1>9, <1>10, <1>11, <1>12, <1>13
  DEF Smart!FlowStep, Wall!FlowStep
<1>19. ASSUME NEW t \in BOOLEAN, Smart!Revoke(t) \/ \E l \in Leases : Smart!RevokeLease(l, t)
       PROVE  Wall!Revoke(t) \/ \E l \in Leases : Wall!RevokeLease(l, t)
  BY <1>14, <1>19
<1>20. ASSUME NEW l \in Leases, Smart!RenewLease(l) \/ Smart!TimePasses(l)
       PROVE  Wall!RenewLease(l) \/ Wall!TimePasses(l)
  BY <1>14, <1>17, <1>20
<1> HIDE DEF Smart!outbound, Wall!outbound, Smart!latches, Wall!latches, Smart!GoTo,
         Wall!GoTo, Smart!MarkClosed, Wall!MarkClosed
<1>21. QED
  BY <1>15, <1>16, <1>18, <1>19, <1>20 DEF Smart!Next, Wall!Next

\* No action gives a variable of the outbound a value outside its type.
LEMMA SmartTypes == SmartInv /\ [Wall!Next]_smartVars => Smart!TypeOK'
<1> SUFFICES ASSUME SmartInv, [Wall!Next]_smartVars PROVE Smart!TypeOK'
  OBVIOUS
<1> USE DEF SmartInv, Smart!TypeOK, Smart!PCs, Wall!outbound, Wall!latches
<1>1. ASSUME NEW f \in SmartFlows, Wall!Begin(f) PROVE Smart!TypeOK'
  BY <1>1 DEF Wall!Begin, Wall!Latched, Wall!GoTo
<1>2. ASSUME NEW f \in SmartFlows, Wall!HelloFails(f) PROVE Smart!TypeOK'
  BY <1>2 DEF Wall!HelloFails, Wall!MarkClosed, Wall!GoTo
<1>3. ASSUME NEW f \in SmartFlows, Wall!RecordProbeFailure(f) PROVE Smart!TypeOK'
  BY <1>3 DEF Wall!RecordProbeFailure, Wall!Latched, Wall!MarkClosed, Wall!GoTo
<1>4. ASSUME NEW f \in SmartFlows, Wall!Recheck(f) PROVE Smart!TypeOK'
  BY <1>4 DEF Wall!Recheck, Wall!AskAgain, Wall!Latched, Wall!MarkClosed, Wall!GoTo,
     FlowInv
<1>5. ASSUME NEW f \in SmartFlows, Wall!Dial(f) PROVE Smart!TypeOK'
  BY <1>5 DEF Wall!Dial, Wall!MarkClosed, Wall!GoTo
<1>6. ASSUME NEW f \in SmartFlows, Wall!SetRemote(f) PROVE Smart!TypeOK'
  BY <1>6 DEF Wall!SetRemote, Wall!GoTo
<1>7. ASSUME NEW f \in SmartFlows, Wall!FinalAdmission(f) PROVE Smart!TypeOK'
  BY <1>7 DEF Wall!FinalAdmission, Wall!AskAgain, Wall!Latched, Wall!MarkClosed,
     Wall!GoTo, FlowInv
<1>8. ASSUME NEW f \in SmartFlows, Wall!CopyEnds(f) PROVE Smart!TypeOK'
  BY <1>8 DEF Wall!CopyEnds, Wall!MarkClosed, Wall!GoTo
<1>9. ASSUME NEW f \in SmartFlows, Wall!FlowTimer(f) PROVE Smart!TypeOK'
  BY <1>9 DEF Wall!FlowTimer, Wall!MarkClosed
<1>10. ASSUME NEW f \in SmartFlows, Wall!RevokeCloses(f) PROVE Smart!TypeOK'
  BY <1>10 DEF Wall!RevokeCloses, Wall!MarkClosed
<1>11. ASSUME NEW f \in SmartFlows, Wall!CloseTail(f) PROVE Smart!TypeOK'
  BY <1>11 DEF Wall!CloseTail
<1>12. ASSUME NEW t \in BOOLEAN, Wall!Revoke(t) PROVE Smart!TypeOK'
  BY <1>12 DEF Wall!Revoke, Wall!Picked
<1>13. ASSUME NEW t \in BOOLEAN, NEW l \in Leases, Wall!RevokeLease(l, t) PROVE Smart!TypeOK'
  BY <1>13 DEF Wall!RevokeLease, Wall!Picked
<1>14. CASE Wall!Close
  BY <1>14 DEF Wall!Close
<1>15. CASE Wall!DNSFailed
  BY <1>15 DEF Wall!DNSFailed, Wall!Latched
<1>16. ASSUME NEW l \in Leases, Wall!RenewLease(l) PROVE Smart!TypeOK'
  BY <1>16 DEF Wall!RenewLease, Wall!Pruned
<1>17. ASSUME NEW l \in Leases, Wall!TimePasses(l) PROVE Smart!TypeOK'
  BY <1>17 DEF Wall!TimePasses
<1>18. CASE UNCHANGED smartVars
  BY <1>18 DEF smartVars
<1>19. QED
  BY <1>1, <1>2, <1>3, <1>4, <1>5, <1>6, <1>7, <1>8, <1>9, <1>10, <1>11, <1>12,
     <1>13, <1>14, <1>15, <1>16, <1>17, <1>18
  DEF Wall!Next, Wall!FlowStep

\* Registration, the two halves of a close and the goroutine agree.
LEMMA FlowStepKeeps == SmartInv /\ [Wall!Next]_smartVars => FlowInv'
<1> SUFFICES ASSUME SmartInv, [Wall!Next]_smartVars PROVE FlowInv'
  OBVIOUS
<1> USE SmartConstants DEF SmartInv, Smart!TypeOK, Smart!PCs, Wall!outbound, Wall!latches, FlowInv
<1>1. ASSUME NEW f \in SmartFlows, Wall!Begin(f) PROVE FlowInv'
  BY <1>1 DEF Wall!Begin, Wall!Admits, Wall!GoTo
<1>2. ASSUME NEW f \in SmartFlows, Wall!HelloFails(f) PROVE FlowInv'
  BY <1>2 DEF Wall!HelloFails, Wall!MarkClosed, Wall!GoTo
<1>3. ASSUME NEW f \in SmartFlows, Wall!RecordProbeFailure(f) PROVE FlowInv'
  BY <1>3 DEF Wall!RecordProbeFailure, Wall!MarkClosed, Wall!GoTo
<1>4. ASSUME NEW f \in SmartFlows, Wall!Recheck(f) PROVE FlowInv'
  BY <1>4 DEF Wall!Recheck, Wall!AskAgain, Wall!MarkClosed, Wall!GoTo
<1>5. ASSUME NEW f \in SmartFlows, Wall!Dial(f) PROVE FlowInv'
  BY <1>5 DEF Wall!Dial, Wall!MarkClosed, Wall!GoTo
<1>6. ASSUME NEW f \in SmartFlows, Wall!SetRemote(f) PROVE FlowInv'
  BY <1>6 DEF Wall!SetRemote, Wall!GoTo
<1>7. ASSUME NEW f \in SmartFlows, Wall!FinalAdmission(f) PROVE FlowInv'
  BY <1>7 DEF Wall!FinalAdmission, Wall!AskAgain, Wall!Admits, Wall!MarkClosed,
     Wall!GoTo
<1>8. ASSUME NEW f \in SmartFlows, Wall!CopyEnds(f) PROVE FlowInv'
  BY <1>8 DEF Wall!CopyEnds, Wall!MarkClosed, Wall!GoTo
<1>9. ASSUME NEW f \in SmartFlows, Wall!FlowTimer(f) PROVE FlowInv'
  BY <1>9 DEF Wall!FlowTimer, Wall!MarkClosed
<1>10. ASSUME NEW f \in SmartFlows, Wall!RevokeCloses(f) PROVE FlowInv'
  BY <1>10 DEF Wall!RevokeCloses, Wall!MarkClosed
<1>11. ASSUME NEW f \in SmartFlows, Wall!CloseTail(f) PROVE FlowInv'
  BY <1>11 DEF Wall!CloseTail
<1>12. ASSUME NEW t \in BOOLEAN, Wall!Revoke(t) PROVE FlowInv'
  BY <1>12 DEF Wall!Revoke, Wall!Picked
<1>13. ASSUME NEW t \in BOOLEAN, NEW l \in Leases, Wall!RevokeLease(l, t) PROVE FlowInv'
  BY <1>13 DEF Wall!RevokeLease, Wall!Picked
<1>14. CASE Wall!Close \/ Wall!DNSFailed
  BY <1>14 DEF Wall!Close, Wall!DNSFailed
<1>15. ASSUME NEW l \in Leases, Wall!RenewLease(l) \/ Wall!TimePasses(l) PROVE FlowInv'
  BY <1>15 DEF Wall!RenewLease, Wall!TimePasses
<1>16. CASE UNCHANGED smartVars
  BY <1>16 DEF smartVars
<1>17. QED
  BY <1>1, <1>2, <1>3, <1>4, <1>5, <1>6, <1>7, <1>8, <1>9, <1>10, <1>11, <1>12,
     <1>13, <1>14, <1>15, <1>16
  DEF Wall!Next, Wall!FlowStep

\* A relay socket is never out of reach of a close.
LEMMA RemoteStepKeeps == SmartInv /\ [Wall!Next]_smartVars => RemoteInv'
<1> SUFFICES ASSUME SmartInv, [Wall!Next]_smartVars PROVE RemoteInv'
  OBVIOUS
<1> USE SmartConstants DEF SmartInv, Smart!TypeOK, Smart!PCs, Wall!outbound, Wall!latches,
        FlowInv, RemoteInv
<1>1. ASSUME NEW f \in SmartFlows, Wall!Begin(f) PROVE RemoteInv'
  BY <1>1 DEF Wall!Begin, Wall!Admits, Wall!GoTo
<1>2. ASSUME NEW f \in SmartFlows, Wall!HelloFails(f) PROVE RemoteInv'
  BY <1>2 DEF Wall!HelloFails, Wall!MarkClosed, Wall!GoTo
<1>3. ASSUME NEW f \in SmartFlows, Wall!RecordProbeFailure(f) PROVE RemoteInv'
  BY <1>3 DEF Wall!RecordProbeFailure, Wall!MarkClosed, Wall!GoTo
<1>4. ASSUME NEW f \in SmartFlows, Wall!Recheck(f) PROVE RemoteInv'
  BY <1>4 DEF Wall!Recheck, Wall!AskAgain, Wall!MarkClosed, Wall!GoTo
<1>5. ASSUME NEW f \in SmartFlows, Wall!Dial(f) PROVE RemoteInv'
  BY <1>5 DEF Wall!Dial, Wall!MarkClosed, Wall!GoTo
<1>6. ASSUME NEW f \in SmartFlows, Wall!SetRemote(f) PROVE RemoteInv'
  BY <1>6 DEF Wall!SetRemote, Wall!GoTo
<1>7. ASSUME NEW f \in SmartFlows, Wall!FinalAdmission(f) PROVE RemoteInv'
  BY <1>7 DEF Wall!FinalAdmission, Wall!AskAgain, Wall!Admits, Wall!MarkClosed,
     Wall!GoTo
<1>8. ASSUME NEW f \in SmartFlows, Wall!CopyEnds(f) PROVE RemoteInv'
  BY <1>8 DEF Wall!CopyEnds, Wall!MarkClosed, Wall!GoTo
<1>9. ASSUME NEW f \in SmartFlows, Wall!FlowTimer(f) PROVE RemoteInv'
  BY <1>9 DEF Wall!FlowTimer, Wall!MarkClosed
<1>10. ASSUME NEW f \in SmartFlows, Wall!RevokeCloses(f) PROVE RemoteInv'
  BY <1>10 DEF Wall!RevokeCloses, Wall!MarkClosed
<1>11. ASSUME NEW f \in SmartFlows, Wall!CloseTail(f) PROVE RemoteInv'
  BY <1>11 DEF Wall!CloseTail
<1>12. ASSUME NEW t \in BOOLEAN, Wall!Revoke(t) PROVE RemoteInv'
  BY <1>12 DEF Wall!Revoke, Wall!Picked
<1>13. ASSUME NEW t \in BOOLEAN, NEW l \in Leases, Wall!RevokeLease(l, t) PROVE RemoteInv'
  BY <1>13 DEF Wall!RevokeLease, Wall!Picked
<1>14. CASE Wall!Close \/ Wall!DNSFailed
  BY <1>14 DEF Wall!Close, Wall!DNSFailed
<1>15. ASSUME NEW l \in Leases, Wall!RenewLease(l) \/ Wall!TimePasses(l) PROVE RemoteInv'
  BY <1>15 DEF Wall!RenewLease, Wall!TimePasses
<1>16. CASE UNCHANGED smartVars
  BY <1>16 DEF smartVars
<1>17. QED
  BY <1>1, <1>2, <1>3, <1>4, <1>5, <1>6, <1>7, <1>8, <1>9, <1>10, <1>11, <1>12,
     <1>13, <1>14, <1>15, <1>16
  DEF Wall!Next, Wall!FlowStep

\* No latch is released.
LEMMA LatchStepKeeps == SmartInv /\ [Wall!Next]_smartVars => LatchInv'
<1> SUFFICES ASSUME SmartInv, [Wall!Next]_smartVars PROVE LatchInv'
  OBVIOUS
<1> USE DEF SmartInv, Smart!TypeOK, Smart!PCs, Wall!outbound, Wall!latches, LatchInv
<1>1. ASSUME NEW f \in SmartFlows, Wall!Begin(f) PROVE LatchInv'
  BY <1>1 DEF Wall!Begin, Wall!Admits, Wall!GoTo
<1>2. ASSUME NEW f \in SmartFlows, Wall!HelloFails(f) PROVE LatchInv'
  BY <1>2 DEF Wall!HelloFails, Wall!MarkClosed, Wall!GoTo
<1>3. ASSUME NEW f \in SmartFlows, Wall!RecordProbeFailure(f) PROVE LatchInv'
  BY <1>3 DEF Wall!RecordProbeFailure, Wall!MarkClosed, Wall!GoTo
<1>4. ASSUME NEW f \in SmartFlows, Wall!Recheck(f) PROVE LatchInv'
  BY <1>4 DEF Wall!Recheck, Wall!AskAgain, Wall!MarkClosed, Wall!GoTo
<1>5. ASSUME NEW f \in SmartFlows, Wall!Dial(f) PROVE LatchInv'
  BY <1>5 DEF Wall!Dial, Wall!MarkClosed, Wall!GoTo
<1>6. ASSUME NEW f \in SmartFlows, Wall!SetRemote(f) PROVE LatchInv'
  BY <1>6 DEF Wall!SetRemote, Wall!GoTo
<1>7. ASSUME NEW f \in SmartFlows, Wall!FinalAdmission(f) PROVE LatchInv'
  BY <1>7 DEF Wall!FinalAdmission, Wall!AskAgain, Wall!Admits, Wall!MarkClosed,
     Wall!GoTo
<1>8. ASSUME NEW f \in SmartFlows, Wall!CopyEnds(f) PROVE LatchInv'
  BY <1>8 DEF Wall!CopyEnds, Wall!MarkClosed, Wall!GoTo
<1>9. ASSUME NEW f \in SmartFlows, Wall!FlowTimer(f) PROVE LatchInv'
  BY <1>9 DEF Wall!FlowTimer, Wall!MarkClosed
<1>10. ASSUME NEW f \in SmartFlows, Wall!RevokeCloses(f) PROVE LatchInv'
  BY <1>10 DEF Wall!RevokeCloses, Wall!MarkClosed
<1>11. ASSUME NEW f \in SmartFlows, Wall!CloseTail(f) PROVE LatchInv'
  BY <1>11 DEF Wall!CloseTail
<1>12. ASSUME NEW t \in BOOLEAN, Wall!Revoke(t) PROVE LatchInv'
  BY <1>12 DEF Wall!Revoke, Wall!Picked
<1>13. ASSUME NEW t \in BOOLEAN, NEW l \in Leases, Wall!RevokeLease(l, t) PROVE LatchInv'
  BY <1>13 DEF Wall!RevokeLease, Wall!Picked
<1>14. CASE Wall!Close \/ Wall!DNSFailed
  BY <1>14 DEF Wall!Close, Wall!DNSFailed
<1>15. ASSUME NEW l \in Leases, Wall!RenewLease(l) \/ Wall!TimePasses(l) PROVE LatchInv'
  BY <1>15 DEF Wall!RenewLease, Wall!TimePasses
<1>16. CASE UNCHANGED smartVars
  BY <1>16 DEF smartVars
<1>17. QED
  BY <1>1, <1>2, <1>3, <1>4, <1>5, <1>6, <1>7, <1>8, <1>9, <1>10, <1>11, <1>12,
     <1>13, <1>14, <1>15, <1>16
  DEF Wall!Next, Wall!FlowStep

\* Flows are picked by the latches of their own lease.
LEMMA RevocationStepKeeps == SmartInv /\ [Wall!Next]_smartVars => Smart!RevocationStaysWithLease'
<1> SUFFICES ASSUME SmartInv, [Wall!Next]_smartVars PROVE Smart!RevocationStaysWithLease'
  OBVIOUS
<1> USE DEF SmartInv, Smart!TypeOK, Smart!PCs, Wall!outbound, Wall!latches,
        FlowInv, Smart!RevocationStaysWithLease
<1>1. ASSUME NEW f \in SmartFlows, Wall!Begin(f) PROVE Smart!RevocationStaysWithLease'
  BY <1>1 DEF Wall!Begin, Wall!Admits, Wall!GoTo
<1>2. ASSUME NEW f \in SmartFlows, Wall!HelloFails(f) PROVE Smart!RevocationStaysWithLease'
  BY <1>2 DEF Wall!HelloFails, Wall!MarkClosed, Wall!GoTo
<1>3. ASSUME NEW f \in SmartFlows, Wall!RecordProbeFailure(f) PROVE Smart!RevocationStaysWithLease'
  BY <1>3 DEF Wall!RecordProbeFailure, Wall!MarkClosed, Wall!GoTo
<1>4. ASSUME NEW f \in SmartFlows, Wall!Recheck(f) PROVE Smart!RevocationStaysWithLease'
  BY <1>4 DEF Wall!Recheck, Wall!AskAgain, Wall!MarkClosed, Wall!GoTo
<1>5. ASSUME NEW f \in SmartFlows, Wall!Dial(f) PROVE Smart!RevocationStaysWithLease'
  BY <1>5 DEF Wall!Dial, Wall!MarkClosed, Wall!GoTo
<1>6. ASSUME NEW f \in SmartFlows, Wall!SetRemote(f) PROVE Smart!RevocationStaysWithLease'
  BY <1>6 DEF Wall!SetRemote, Wall!GoTo
<1>7. ASSUME NEW f \in SmartFlows, Wall!FinalAdmission(f) PROVE Smart!RevocationStaysWithLease'
  BY <1>7 DEF Wall!FinalAdmission, Wall!AskAgain, Wall!Admits, Wall!MarkClosed,
     Wall!GoTo
<1>8. ASSUME NEW f \in SmartFlows, Wall!CopyEnds(f) PROVE Smart!RevocationStaysWithLease'
  BY <1>8 DEF Wall!CopyEnds, Wall!MarkClosed, Wall!GoTo
<1>9. ASSUME NEW f \in SmartFlows, Wall!FlowTimer(f) PROVE Smart!RevocationStaysWithLease'
  BY <1>9 DEF Wall!FlowTimer, Wall!MarkClosed
<1>10. ASSUME NEW f \in SmartFlows, Wall!RevokeCloses(f) PROVE Smart!RevocationStaysWithLease'
  BY <1>10 DEF Wall!RevokeCloses, Wall!MarkClosed
<1>11. ASSUME NEW f \in SmartFlows, Wall!CloseTail(f) PROVE Smart!RevocationStaysWithLease'
  BY <1>11 DEF Wall!CloseTail
<1>12. ASSUME NEW t \in BOOLEAN, Wall!Revoke(t) PROVE Smart!RevocationStaysWithLease'
  BY <1>12 DEF Wall!Revoke, Wall!Picked
<1>13. ASSUME NEW t \in BOOLEAN, NEW l \in Leases, Wall!RevokeLease(l, t) PROVE Smart!RevocationStaysWithLease'
  BY <1>13 DEF Wall!RevokeLease, Wall!Picked
<1>14. CASE Wall!Close \/ Wall!DNSFailed
  BY <1>14 DEF Wall!Close, Wall!DNSFailed
<1>15. ASSUME NEW l \in Leases, Wall!RenewLease(l) \/ Wall!TimePasses(l) PROVE Smart!RevocationStaysWithLease'
  BY <1>15 DEF Wall!RenewLease, Wall!TimePasses
<1>16. CASE UNCHANGED smartVars
  BY <1>16 DEF smartVars
<1>17. QED
  BY <1>1, <1>2, <1>3, <1>4, <1>5, <1>6, <1>7, <1>8, <1>9, <1>10, <1>11, <1>12,
     <1>13, <1>14, <1>15, <1>16
  DEF Wall!Next, Wall!FlowStep

\* A flow becomes active only when nothing has picked it.
LEMMA DrainStepKeeps == SmartInv /\ [Wall!Next]_smartVars => Smart!DrainSparesActive'
<1> SUFFICES ASSUME SmartInv, [Wall!Next]_smartVars PROVE Smart!DrainSparesActive'
  OBVIOUS
<1> USE DEF SmartInv, Smart!TypeOK, Smart!PCs, Wall!outbound, Wall!latches,
        FlowInv, Smart!RevocationStaysWithLease, Smart!DrainSparesActive
<1>1. ASSUME NEW f \in SmartFlows, Wall!Begin(f) PROVE Smart!DrainSparesActive'
  BY <1>1 DEF Wall!Begin, Wall!Admits, Wall!GoTo
<1>2. ASSUME NEW f \in SmartFlows, Wall!HelloFails(f) PROVE Smart!DrainSparesActive'
  BY <1>2 DEF Wall!HelloFails, Wall!MarkClosed, Wall!GoTo
<1>3. ASSUME NEW f \in SmartFlows, Wall!RecordProbeFailure(f) PROVE Smart!DrainSparesActive'
  BY <1>3 DEF Wall!RecordProbeFailure, Wall!MarkClosed, Wall!GoTo
<1>4. ASSUME NEW f \in SmartFlows, Wall!Recheck(f) PROVE Smart!DrainSparesActive'
  BY <1>4 DEF Wall!Recheck, Wall!AskAgain, Wall!MarkClosed, Wall!GoTo
<1>5. ASSUME NEW f \in SmartFlows, Wall!Dial(f) PROVE Smart!DrainSparesActive'
  BY <1>5 DEF Wall!Dial, Wall!MarkClosed, Wall!GoTo
<1>6. ASSUME NEW f \in SmartFlows, Wall!SetRemote(f) PROVE Smart!DrainSparesActive'
  BY <1>6 DEF Wall!SetRemote, Wall!GoTo
<1>7. ASSUME NEW f \in SmartFlows, Wall!FinalAdmission(f) PROVE Smart!DrainSparesActive'
  BY <1>7 DEF Wall!FinalAdmission, Wall!AskAgain, Wall!Admits, Wall!MarkClosed,
     Wall!GoTo
<1>8. ASSUME NEW f \in SmartFlows, Wall!CopyEnds(f) PROVE Smart!DrainSparesActive'
  BY <1>8 DEF Wall!CopyEnds, Wall!MarkClosed, Wall!GoTo
<1>9. ASSUME NEW f \in SmartFlows, Wall!FlowTimer(f) PROVE Smart!DrainSparesActive'
  BY <1>9 DEF Wall!FlowTimer, Wall!MarkClosed
<1>10. ASSUME NEW f \in SmartFlows, Wall!RevokeCloses(f) PROVE Smart!DrainSparesActive'
  BY <1>10 DEF Wall!RevokeCloses, Wall!MarkClosed
<1>11. ASSUME NEW f \in SmartFlows, Wall!CloseTail(f) PROVE Smart!DrainSparesActive'
  BY <1>11 DEF Wall!CloseTail
<1>12. ASSUME NEW t \in BOOLEAN, Wall!Revoke(t) PROVE Smart!DrainSparesActive'
  BY <1>12 DEF Wall!Revoke, Wall!Picked
<1>13. ASSUME NEW t \in BOOLEAN, NEW l \in Leases, Wall!RevokeLease(l, t) PROVE Smart!DrainSparesActive'
  BY <1>13 DEF Wall!RevokeLease, Wall!Picked
<1>14. CASE Wall!Close \/ Wall!DNSFailed
  BY <1>14 DEF Wall!Close, Wall!DNSFailed
<1>15. ASSUME NEW l \in Leases, Wall!RenewLease(l) \/ Wall!TimePasses(l) PROVE Smart!DrainSparesActive'
  BY <1>15 DEF Wall!RenewLease, Wall!TimePasses
<1>16. CASE UNCHANGED smartVars
  BY <1>16 DEF smartVars
<1>17. QED
  BY <1>1, <1>2, <1>3, <1>4, <1>5, <1>6, <1>7, <1>8, <1>9, <1>10, <1>11, <1>12,
     <1>13, <1>14, <1>15, <1>16
  DEF Wall!Next, Wall!FlowStep

LEMMA SmartStep == SmartInv /\ [Wall!Next]_smartVars => SmartInv'
  BY SmartTypes, FlowStepKeeps, RemoteStepKeeps, LatchStepKeeps, RevocationStepKeeps,
     DrainStepKeeps DEF SmartInv

\* Whatever part of the run moves, the outbound takes a step of its own or none.
leasesVars == <<part, vars, smartVars, relayVars, groupVars>>

LEMMA StepOfSmart == [LeasesNext]_leasesVars => [Wall!Next]_smartVars
  BY StraightIsStepped DEF LeasesNext, leasesVars

\* The invariant of the outbound holds in every reachable state.
THEOREM SmartInvariance == LeasesSpec => []SmartInv
<1>1. LeasesInit => SmartInv
  BY SmartInit DEF LeasesInit
<1>2. SmartInv /\ [LeasesNext]_leasesVars => SmartInv'
  BY StepOfSmart, SmartStep
<1>3. QED
  BY <1>1, <1>2, PTL DEF LeasesSpec, leasesVars

\* The quotas, with the sets they count finite.
QuotaInv == IsFiniteSet(smartFlows) /\ IsFiniteSet(leases) /\ Smart!QuotasKept

\* The instances count as FiniteSets does.
LEMMA SameCount ==
  \A S : Smart!Cardinality(S) = Cardinality(S) /\ Wall!Cardinality(S) = Cardinality(S)
  BY DEF Smart!Cardinality, Wall!Cardinality, Cardinality

\* Only Begin takes a slot and only RenewLease an identity, each behind its test.
LEMMA QuotaStep == SmartInv /\ QuotaInv /\ [Wall!Next]_smartVars => QuotaInv'
<1> SUFFICES ASSUME SmartInv, QuotaInv, [Wall!Next]_smartVars PROVE QuotaInv'
  OBVIOUS
<1>0. /\ IsFiniteSet(smartFlows) /\ Cardinality(smartFlows) \in Nat
      /\ IsFiniteSet(leases) /\ Cardinality(leases) \in Nat
      /\ Cardinality(smartFlows) <= MaxConcurrent /\ Cardinality(leases) <= MaxLeases
      /\ MaxConcurrent \in Nat /\ MaxLeases \in Nat
  BY FS_CardinalityType, SameCount, LeaseConstants
  DEF QuotaInv, Smart!QuotasKept, Smart!SmartAccessAssumption
<1> DEFINE Within == /\ IsFiniteSet(smartFlows') /\ Cardinality(smartFlows') <= MaxConcurrent
                     /\ IsFiniteSet(leases') /\ Cardinality(leases') <= MaxLeases
<1>1. ASSUME NEW f \in SmartFlows, Wall!Begin(f) PROVE Within
  <2>1. UNCHANGED leases
    BY <1>1 DEF Wall!Begin, Wall!outbound
  <2>2. CASE UNCHANGED smartFlows
    BY <1>0, <2>1, <2>2
  <2>3. CASE Cardinality(smartFlows) < MaxConcurrent /\ smartFlows' = smartFlows \cup {f}
    <3>1. /\ IsFiniteSet(smartFlows \cup {f})
          /\ Cardinality(smartFlows \cup {f}) = IF f \in smartFlows THEN Cardinality(smartFlows)
                                              ELSE Cardinality(smartFlows) + 1
      BY <1>0, FS_AddElement
    <3>2. Cardinality(smartFlows \cup {f}) \in Nat
      BY <3>1, FS_CardinalityType
    <3>3. QED
      BY <1>0, <2>1, <2>3, <3>1, <3>2
  <2>4. QED
    BY <1>1, <2>2, <2>3, SameCount DEF Wall!Begin
<1>2. ASSUME NEW f \in SmartFlows, Wall!CloseTail(f) PROVE Within
  <2>1. UNCHANGED leases /\ smartFlows' \in SUBSET smartFlows
    BY <1>2 DEF Wall!CloseTail, Wall!outbound
  <2>2. IsFiniteSet(smartFlows') /\ Cardinality(smartFlows') <= Cardinality(smartFlows)
    BY <1>0, <2>1, FS_Subset
  <2>3. Cardinality(smartFlows') \in Nat
    BY <2>2, FS_CardinalityType
  <2>4. QED
    BY <1>0, <2>1, <2>2, <2>3
<1>3. ASSUME NEW l \in Leases, Wall!RenewLease(l) PROVE Within
  <2>1. UNCHANGED smartFlows
    BY <1>3 DEF Wall!RenewLease
  <2>2. PICK P \in SUBSET leases : \/ Cardinality(P) < MaxLeases /\ leases' = P \cup {l}
                                   \/ leases' = P
    BY <1>3, SameCount DEF Wall!RenewLease, Wall!Pruned
  <2>3. IsFiniteSet(P) /\ Cardinality(P) \in Nat /\ Cardinality(P) <= MaxLeases
    <3>1. IsFiniteSet(P) /\ Cardinality(P) <= Cardinality(leases)
      BY <1>0, FS_Subset
    <3>2. QED
      BY <1>0, <3>1, FS_CardinalityType
  <2>4. CASE leases' = P
    BY <1>0, <2>1, <2>3, <2>4
  <2>5. CASE Cardinality(P) < MaxLeases /\ leases' = P \cup {l}
    <3>1. /\ IsFiniteSet(P \cup {l})
          /\ Cardinality(P \cup {l}) = IF l \in P THEN Cardinality(P) ELSE Cardinality(P) + 1
      BY <2>3, FS_AddElement
    <3>2. Cardinality(P \cup {l}) \in Nat
      BY <3>1, FS_CardinalityType
    <3>3. QED
      BY <1>0, <2>1, <2>3, <2>5, <3>1, <3>2
  <2>6. QED
    BY <2>2, <2>4, <2>5
<1>4. \/ \E f \in SmartFlows : Wall!Begin(f) \/ Wall!CloseTail(f)
      \/ \E l \in Leases : Wall!RenewLease(l)
      \/ UNCHANGED <<smartFlows, leases>>
  BY DEF Wall!Next, Wall!FlowStep, smartVars, Wall!outbound, Wall!HelloFails,
     Wall!RecordProbeFailure, Wall!Recheck, Wall!Dial, Wall!SetRemote,
     Wall!FinalAdmission, Wall!CopyEnds, Wall!FlowTimer, Wall!RevokeCloses, Wall!Revoke,
     Wall!RevokeLease, Wall!Close, Wall!DNSFailed, Wall!TimePasses
<1>5. Within
  BY <1>0, <1>1, <1>2, <1>3, <1>4
<1>6. QED
  BY <1>5, SameCount DEF QuotaInv, Smart!QuotasKept

\* However many connections arrive and however often the lease is renewed, the
\* outbound has no more flows than maxConcurrent and no more than 256 leases.
THEOREM QuotasHold == LeasesSpec => []QuotaInv
<1>1. LeasesInit => QuotaInv
  <2> SUFFICES ASSUME LeasesInit PROVE QuotaInv
    OBVIOUS
  <2>1. smartFlows = {} /\ leases = {First}
    BY DEF LeasesInit, Smart!Init
  <2>2. /\ IsFiniteSet(smartFlows) /\ Cardinality(smartFlows) = 0
        /\ IsFiniteSet(leases) /\ Cardinality(leases) = 1
    BY <2>1, FS_EmptySet, FS_Singleton
  <2>3. QED
    BY <2>2, SameCount, LeaseConstants
    DEF QuotaInv, Smart!QuotasKept, Smart!SmartAccessAssumption
<1>2. SmartInv /\ QuotaInv /\ [LeasesNext]_leasesVars => QuotaInv'
  BY StepOfSmart, QuotaStep
<1>3. QED
  BY <1>1, <1>2, SmartInvariance, PTL DEF LeasesSpec, leasesVars

\* While the wall clock runs straight, RenewLease forgets no lease a flow needs.
LEMMA RevocableStep ==
  ASSUME SmartInv, Smart!FlowsStayRevocable, Smart!Next
  PROVE  Smart!FlowsStayRevocable'
<1> USE DEF SmartInv, Smart!TypeOK, FlowInv, Smart!FlowsStayRevocable, Smart!outbound,
        Smart!latches
<1>1. ASSUME NEW f \in SmartFlows, Smart!Begin(f) PROVE Smart!FlowsStayRevocable'
  BY <1>1 DEF Smart!Begin
<1>2. ASSUME NEW f \in SmartFlows,
             \/ Smart!HelloFails(f) \/ Smart!RecordProbeFailure(f) \/ Smart!Recheck(f)
             \/ Smart!Dial(f) \/ Smart!SetRemote(f) \/ Smart!FinalAdmission(f)
             \/ Smart!CopyEnds(f) \/ Smart!FlowTimer(f) \/ Smart!RevokeCloses(f)
             \/ Smart!CloseTail(f)
      PROVE  Smart!FlowsStayRevocable'
  <2>1. UNCHANGED <<auth, leases, age>> /\ smartFlows' \subseteq smartFlows
        /\ smartFclosed \subseteq smartFclosed'
    BY <1>2 DEF Smart!HelloFails, Smart!RecordProbeFailure, Smart!Recheck, Smart!Dial,
       Smart!SetRemote, Smart!FinalAdmission, Smart!CopyEnds, Smart!FlowTimer,
       Smart!RevokeCloses, Smart!CloseTail, Smart!MarkClosed, Smart!AskAgain
  <2>2. QED
    BY <2>1
<1>3. ASSUME NEW t \in BOOLEAN,
             Smart!Revoke(t) \/ \E l \in Leases : Smart!RevokeLease(l, t)
      PROVE  Smart!FlowsStayRevocable'
  BY <1>3 DEF Smart!Revoke, Smart!RevokeLease
<1>4. CASE Smart!Close \/ Smart!DNSFailed
  BY <1>4 DEF Smart!Close, Smart!DNSFailed
<1>5. ASSUME NEW l \in Leases, Smart!RenewLease(l) PROVE Smart!FlowsStayRevocable'
  <2>1. \A m \in leases : m = lease \/ age[m] < 2 => m \in leases'
    BY <1>5 DEF Smart!RenewLease, Smart!Pruned
  <2>2. UNCHANGED <<auth, age, smartFlows, smartFclosed>>
    BY <1>5 DEF Smart!RenewLease
  <2>3. \A m \in leases : age[m] < 2 \/ age[m] = 2
    OBVIOUS
  <2>4. QED
    BY <2>1, <2>2, <2>3
<1>6. ASSUME NEW l \in Leases, Smart!TimePasses(l) PROVE Smart!FlowsStayRevocable'
  <2>1. UNCHANGED <<auth, leases, smartFlows, smartFclosed>>
    BY <1>6 DEF Smart!TimePasses
  <2>2. \A m \in Leases : age[m] = 2 => age'[m] = 2
    BY <1>6 DEF Smart!TimePasses
  <2>3. SmartConstants!2 /\ \A f \in smartFlows : auth[f] \in Leases
    BY SmartConstants
  <2>4. QED
    BY <2>1, <2>2, <2>3
<1>7. QED
  BY <1>1, <1>2, <1>3, <1>4, <1>5, <1>6 DEF Smart!Next, Smart!FlowStep

\* Every open relay socket can be closed; a revocation picks no flow of another
\* lease, a drain spares the connections in use, and the lease of a flow can be
\* named as long as it matters.
THEOREM RevocationsAreExact == LeasesSpec => []RevocationIsExact
<1> DEFINE Inv == SmartInv /\ (part = "smart" => Smart!FlowsStayRevocable)
<1>1. LeasesInit => Inv
  BY SmartInit DEF LeasesInit, Smart!Init, Smart!FlowsStayRevocable
<1>2. Inv /\ [LeasesNext]_leasesVars => Inv'
  <2> SUFFICES ASSUME Inv, [LeasesNext]_leasesVars PROVE Inv'
    OBVIOUS
  <2>1. SmartInv'
    BY StepOfSmart, SmartStep
  <2>2. ASSUME part' = "smart" PROVE Smart!FlowsStayRevocable'
    <3>1. part = "smart" /\ (Smart!Next \/ UNCHANGED smartVars)
      BY <2>2 DEF LeasesNext, leasesVars
    <3>2. CASE Smart!Next
      BY <3>1, <3>2, RevocableStep
    <3>3. CASE UNCHANGED smartVars
      BY <3>1, <3>3 DEF smartVars, Smart!FlowsStayRevocable
    <3>4. QED
      BY <3>1, <3>2, <3>3
  <2>3. QED
    BY <2>1, <2>2
<1>3. Inv => RevocationIsExact
  <2>1. SmartInv => Smart!SocketOwned
    BY SmartConstants DEF SmartInv, FlowInv, RemoteInv, Smart!SocketOwned
  <2>2. QED
    BY <2>1 DEF SmartInv, RevocationIsExact
<1>4. QED
  BY <1>1, <1>2, <1>3, PTL DEF LeasesSpec, leasesVars

\* recordProbeFailure charges a failure to the lease that admitted the failed
\* connection, and only while that lease is the current one.
THEOREM FailuresStay == LeasesSpec => FailureStaysWithLease
<1> DEFINE Stays == \A l \in Leases : failure[l] # "tls" /\ failure'[l] = "tls" =>
              /\ l = lease
              /\ \E f \in SmartFlows :
                   smartPc[f] = "hello" /\ smartPc'[f] = "done" /\ auth[f] = l
<1>1. SmartInv /\ Wall!Next => Stays
  <2> SUFFICES ASSUME SmartInv, Wall!Next PROVE Stays
    OBVIOUS
  <2> USE DEF SmartInv, Smart!TypeOK, Smart!PCs, Wall!outbound, Wall!latches
  <2>1. ASSUME NEW f \in SmartFlows, Wall!RecordProbeFailure(f) PROVE Stays
    <3>1. CASE lease # auth[f]
      BY <2>1, <3>1 DEF Wall!RecordProbeFailure
    <3>2. CASE lease = auth[f]
      <4>1. smartPc[f] = "hello" /\ smartPc'[f] = "done"
        BY <2>1 DEF Wall!RecordProbeFailure, Wall!GoTo
      <4>2. failure' = failure \/ failure' = [failure EXCEPT ![lease] = "tls"]
        BY <2>1, <3>2 DEF Wall!RecordProbeFailure
      <4>3. QED
        BY <3>2, <4>1, <4>2
    <3>3. QED
      BY <3>1, <3>2
  <2>2. CASE Wall!DNSFailed
    <3>1. failure' = failure \/ failure' = [failure EXCEPT ![lease] = "dns"]
      BY <2>2 DEF Wall!DNSFailed
    <3>2. QED
      BY <3>1
  <2>3. CASE UNCHANGED failure
    BY <2>3
  <2>4. (~ \E f \in SmartFlows : Wall!RecordProbeFailure(f)) /\ ~Wall!DNSFailed
        => UNCHANGED failure
    BY DEF Wall!Next, Wall!FlowStep, Wall!Begin, Wall!HelloFails, Wall!Recheck,
       Wall!Dial, Wall!SetRemote, Wall!FinalAdmission, Wall!CopyEnds, Wall!FlowTimer,
       Wall!RevokeCloses, Wall!CloseTail, Wall!Revoke, Wall!RevokeLease, Wall!Close,
       Wall!RenewLease, Wall!TimePasses
  <2>5. QED
    BY <2>1, <2>2, <2>3, <2>4
<1>2. SmartInv /\ [LeasesNext]_leasesVars => [Stays]_(Smart!vars)
  <2>1. [LeasesNext]_leasesVars => Wall!Next \/ UNCHANGED Smart!vars
    BY StepOfSmart DEF smartVars, Smart!vars
  <2>2. QED
    BY <1>1, <2>1
<1>3. QED
  BY <1>2, SmartInvariance, PTL
  DEF LeasesSpec, leasesVars, FailureStaysWithLease, Smart!FailureStaysWithLease

-----------------------------------------------------------------------------
(* The Smart Access outbound implements the gates of its leases.           *)

SmartGates == [l \in Leases |-> Smart!GateOf(l)]
SmartMembers == [f \in SmartFlows |-> Smart!MemberOf(f)]

\* The latches of the leases, and of the outbound, only close.
Tighter ==
    /\ hTerminate => hTerminate'
    /\ hRevoked => hRevoked'
    /\ terminated \subseteq terminated'
    /\ smartRevoked \subseteq smartRevoked'
    /\ expired \subseteq expired'
    /\ \A l \in Leases : /\ age[l] <= age'[l]
                         /\ failure[l] # "none" => failure'[l] # "none"
    /\ \A f \in SmartFlows : Smart!MemberOf(f)' = Smart!MemberOf(f)
    /\ UNCHANGED auth

LEMMA TighterStep == SmartInv /\ Smart!TypeOK' /\ Tighter => Smart!Gate!Tighten
<1> SUFFICES ASSUME SmartInv, Smart!TypeOK', Tighter PROVE Smart!Gate!Tighten
  OBVIOUS
<1>1. SmartGates' \in [Leases -> Smart!Gate!Positions]
  BY DEF SmartGates, Smart!GateOf, Smart!Gate!Positions
<1>2. ASSUME NEW l \in Leases
      PROVE  Smart!GateOf(l)' \in Smart!Gate!Inner(Smart!GateOf(l))
  <2>1. age[l] \in 0 .. 2 /\ age'[l] \in 0 .. 2 /\ age[l] <= age'[l]
    BY DEF SmartInv, Smart!TypeOK, Tighter
  <2>2. QED
    BY <2>1 DEF Tighter, Smart!GateOf, Smart!Gate!Inner, Smart!Gate!Positions
<1>3. SmartMembers' = SmartMembers
  BY DEF Tighter, SmartMembers
<1>4. QED
  BY <1>1, <1>2, <1>3 DEF Smart!Gate!Tighten, SmartGates, SmartMembers, Tighter

\* Every step of the outbound is a step of the gates or leaves them as they are.
LEMMA SmartGateStep ==
  SmartInv /\ [Wall!Next]_smartVars => Smart!Gate!Next \/ UNCHANGED Smart!Gate!gateVars
<1> SUFFICES ASSUME SmartInv, [Wall!Next]_smartVars
             PROVE  Smart!Gate!Next \/ UNCHANGED Smart!Gate!gateVars
  OBVIOUS
<1>0. Smart!TypeOK'
  BY SmartTypes
<1>1. Tighter => Smart!Gate!Next
  BY <1>0, TighterStep DEF Smart!Gate!Next
<1> USE DEF Wall!outbound, Wall!latches
<1>2. ASSUME NEW f \in SmartFlows, Wall!CloseTail(f)
      PROVE  Smart!Gate!Leave(f) \/ UNCHANGED Smart!Gate!gateVars
  <2>1. /\ UNCHANGED <<hTerminate, hRevoked, terminated, smartRevoked, expired>>
        /\ UNCHANGED <<age, failure, auth, smartActive>>
        /\ smartFlows' = smartFlows \ {f}
    BY <1>2 DEF Wall!CloseTail
  <2>2. SmartGates' = SmartGates
    BY <2>1 DEF SmartGates, Smart!GateOf
  <2>3. /\ auth[f] # NoLease => Smart!MemberOf(f)' = "gone"
        /\ auth[f] = NoLease => Smart!MemberOf(f)' = Smart!MemberOf(f)
        /\ \A g \in SmartFlows \ {f} : Smart!MemberOf(g)' = Smart!MemberOf(g)
    BY <2>1 DEF Smart!MemberOf
  <2>4. CASE auth[f] # NoLease /\ f \in smartFlows
    <3>1. SmartMembers[f] \in {"waiting", "live"}
      BY <2>4 DEF SmartMembers, Smart!MemberOf
    <3>2. SmartMembers' = [SmartMembers EXCEPT ![f] = "gone"]
      BY <2>3, <2>4 DEF SmartMembers
    <3>3. QED
      BY <2>1, <2>2, <3>1, <3>2 DEF Smart!Gate!Leave, SmartGates, SmartMembers
  <2>5. CASE auth[f] = NoLease \/ f \notin smartFlows
    <3>1. SmartMembers' = SmartMembers
      BY <2>1, <2>3, <2>5 DEF SmartMembers, Smart!MemberOf
    <3>2. QED
      BY <2>1, <2>2, <3>1 DEF Smart!Gate!gateVars, SmartGates, SmartMembers
  <2>6. QED
    BY <2>4, <2>5
<1>3. \A l, out : Wall!Admits(l, out) /\ l \in Leases =>
        Smart!GateOf(l) = "open" /\ Wall!Latched(l, out) = expired
  <2> SUFFICES ASSUME NEW l \in Leases, NEW out, Wall!Admits(l, out)
               PROVE  Smart!GateOf(l) = "open" /\ Wall!Latched(l, out) = expired
    OBVIOUS
  <2>1. ~(out \/ age[l] > 0) /\ l \notin expired /\ Wall!Latched(l, out) = expired
    BY DEF Wall!Admits, Wall!Latched
  <2>2. age[l] \in 0 .. 2 /\ age[l] # 1 /\ age[l] # 2
    BY <2>1 DEF SmartInv, Smart!TypeOK
  <2>3. QED
    BY <2>1, <2>2 DEF Wall!Admits, Smart!GateOf, SmartInv, LatchInv
<1>4. ASSUME NEW f \in SmartFlows, Wall!Begin(f) PROVE Smart!Gate!Next
  <2>1. PICK out \in Wall!WallReads :
          /\ expired' = Wall!Latched(lease, out)
          /\ \/ /\ Wall!Admits(lease, out)
                /\ smartFlows' = smartFlows \cup {f}
                /\ auth' = [auth EXCEPT ![f] = lease]
             \/ UNCHANGED <<smartFlows, auth>>
    BY <1>4 DEF Wall!Begin
  <2>2. /\ UNCHANGED <<hTerminate, hRevoked, terminated, smartRevoked, age>>
        /\ UNCHANGED <<failure, smartActive>>
        /\ smartPc[f] = "idle" /\ lease \in Leases
    BY <1>4 DEF Wall!Begin, SmartInv, Smart!TypeOK
  <2>3. CASE UNCHANGED <<smartFlows, auth>>
    <3>1. expired \subseteq expired'
      BY <2>1 DEF Wall!Latched
    <3>2. Tighter
      BY <2>2, <2>3, <3>1 DEF Tighter, Smart!MemberOf, SmartInv, Smart!TypeOK
    <3>3. QED
      BY <1>1, <3>2
  <2>4. CASE /\ Wall!Admits(lease, out) /\ smartFlows' = smartFlows \cup {f}
             /\ auth' = [auth EXCEPT ![f] = lease]
    <3>1. expired' = expired /\ Smart!GateOf(lease) = "open"
      BY <1>3, <2>1, <2>2, <2>4
    <3>2. SmartGates' = SmartGates /\ SmartGates[lease] = "open"
      BY <2>2, <3>1 DEF SmartGates, Smart!GateOf
    <3>3. auth[f] = NoLease /\ auth'[f] = lease /\ f \notin smartActive
          /\ \A g \in SmartFlows \ {f} : auth'[g] = auth[g]
      BY <2>2, <2>4 DEF SmartInv, FlowInv, Smart!TypeOK
    <3>4. /\ Smart!MemberOf(f) = "out" /\ Smart!MemberOf(f)' = "waiting"
          /\ \A g \in SmartFlows \ {f} : Smart!MemberOf(g)' = Smart!MemberOf(g)
      BY <2>2, <2>4, <3>3, SmartConstants DEF Smart!MemberOf
    <3>5. SmartMembers[f] = "out" /\ SmartMembers' = [SmartMembers EXCEPT ![f] = "waiting"]
      BY <3>4 DEF SmartMembers
    <3>6. Smart!Gate!Admit(f, lease)
      BY <2>4, <3>2, <3>5 DEF Smart!Gate!Admit, SmartGates, SmartMembers
    <3>7. QED
      BY <2>2, <3>6 DEF Smart!Gate!Next
  <2>5. QED
    BY <2>1, <2>3, <2>4
<1>5. ASSUME NEW f \in SmartFlows, Wall!FinalAdmission(f)
      PROVE  Smart!Gate!Next \/ UNCHANGED Smart!Gate!gateVars
  <2>1. /\ UNCHANGED <<hTerminate, hRevoked, terminated, smartRevoked, age>>
        /\ UNCHANGED <<failure, smartFlows, auth>>
        /\ smartPc[f] = "final"
    BY <1>5 DEF Wall!FinalAdmission
  <2>2. auth[f] \in Leases /\ auth[f] # NoLease /\ f \notin smartActive
    BY <2>1, SmartConstants DEF SmartInv, FlowInv
  <2>3. PICK out \in Wall!WallReads :
          /\ expired' = Wall!Latched(auth[f], out)
          /\ \/ Wall!Admits(auth[f], out) /\ smartPc'[f] = "using"
             \/ smartPc'[f] = "done"
    BY <1>5 DEF Wall!FinalAdmission, Wall!AskAgain, Wall!GoTo, SmartInv, Smart!TypeOK
  <2>4. smartActive' = IF smartPc'[f] = "using" THEN smartActive \cup {f} ELSE smartActive
    BY <1>5 DEF Wall!FinalAdmission
  <2>5. CASE smartPc'[f] = "done"
    <3>1. expired \subseteq expired'
      BY <2>3 DEF Wall!Latched
    <3>2. smartActive' = smartActive
      BY <2>4, <2>5
    <3>3. Tighter
      BY <2>1, <3>1, <3>2 DEF Tighter, Smart!MemberOf, SmartInv, Smart!TypeOK
    <3>4. QED
      BY <1>1, <3>3
  <2>6. CASE Wall!Admits(auth[f], out) /\ smartPc'[f] = "using"
    <3>1. expired' = expired /\ Smart!GateOf(auth[f]) = "open"
      BY <1>3, <2>2, <2>3, <2>6
    <3>2. SmartGates' = SmartGates /\ SmartGates[auth[f]] = "open"
      BY <2>1, <2>2, <3>1 DEF SmartGates, Smart!GateOf
    <3>3. smartActive' = smartActive \cup {f}
      BY <2>4, <2>6
    <3>4. \A g \in SmartFlows \ {f} : Smart!MemberOf(g)' = Smart!MemberOf(g)
      BY <2>1, <3>3 DEF Smart!MemberOf
    <3>5. CASE f \in smartFlows
      <4>1. Smart!MemberOf(f) = "waiting" /\ Smart!MemberOf(f)' = "live"
        BY <2>1, <2>2, <3>3, <3>5 DEF Smart!MemberOf
      <4>2. /\ SmartMembers[f] = "waiting"
            /\ SmartMembers' = [SmartMembers EXCEPT ![f] = "live"]
        BY <3>4, <4>1 DEF SmartMembers
      <4>3. Smart!Gate!Connect(f)
        BY <2>1, <3>2, <4>2 DEF Smart!Gate!Connect, SmartGates, SmartMembers
      <4>4. QED
        BY <4>3 DEF Smart!Gate!Next
    <3>6. CASE f \notin smartFlows
      <4>1. Smart!MemberOf(f)' = Smart!MemberOf(f)
        BY <2>1, <2>2, <3>6 DEF Smart!MemberOf
      <4>2. SmartMembers' = SmartMembers
        BY <3>4, <4>1 DEF SmartMembers
      <4>3. QED
        BY <2>1, <3>2, <4>2 DEF Smart!Gate!gateVars, SmartGates, SmartMembers
    <3>7. QED
      BY <3>5, <3>6
  <2>7. QED
    BY <2>3, <2>5, <2>6
<1>6. ASSUME UNCHANGED <<hTerminate, hRevoked, terminated, smartRevoked, expired, age,
                         failure, smartFlows, auth, smartActive>>
      PROVE  UNCHANGED Smart!Gate!gateVars
  <2>1. SmartGates' = SmartGates /\ SmartMembers' = SmartMembers
    BY <1>6 DEF SmartGates, SmartMembers, Smart!GateOf, Smart!MemberOf
  <2>2. QED
    BY <1>6, <2>1 DEF Smart!Gate!gateVars, SmartGates, SmartMembers
<1>7. ASSUME NEW f \in SmartFlows,
             \/ Wall!HelloFails(f) \/ Wall!Dial(f) \/ Wall!SetRemote(f)
             \/ Wall!CopyEnds(f) \/ Wall!FlowTimer(f) \/ Wall!RevokeCloses(f)
      PROVE  UNCHANGED Smart!Gate!gateVars
  BY <1>6, <1>7 DEF Wall!HelloFails, Wall!Dial, Wall!SetRemote, Wall!CopyEnds,
     Wall!FlowTimer, Wall!RevokeCloses
<1>8. ASSUME NEW l \in Leases, Wall!RenewLease(l) PROVE UNCHANGED Smart!Gate!gateVars
  BY <1>6, <1>8 DEF Wall!RenewLease
<1>9. ASSUME UNCHANGED <<smartFlows, auth, smartActive>>
      PROVE  \A f \in SmartFlows : Smart!MemberOf(f)' = Smart!MemberOf(f)
  BY <1>9 DEF Smart!MemberOf
<1>10. \A l, out : expired \subseteq Wall!Latched(l, out)
  BY DEF Wall!Latched
<1>11. ASSUME NEW f \in SmartFlows, Wall!RecordProbeFailure(f) PROVE Tighter
  <2>1. /\ UNCHANGED <<hTerminate, hRevoked, terminated, smartRevoked, age>>
        /\ UNCHANGED <<smartFlows, auth, smartActive>>
    BY <1>11 DEF Wall!RecordProbeFailure
  <2>2. expired \subseteq expired'
    BY <1>10, <1>11 DEF Wall!RecordProbeFailure
  <2>3. failure' = failure \/ failure' = [failure EXCEPT ![lease] = "tls"]
    BY <1>11 DEF Wall!RecordProbeFailure
  <2>4. QED
    BY <1>9, <2>1, <2>2, <2>3 DEF Tighter, SmartInv, Smart!TypeOK
<1>12. CASE Wall!DNSFailed
  <2>1. /\ UNCHANGED <<hTerminate, hRevoked, terminated, smartRevoked, age>>
        /\ UNCHANGED <<smartFlows, auth, smartActive>>
    BY <1>12 DEF Wall!DNSFailed
  <2>2. expired \subseteq expired'
    BY <1>10, <1>12 DEF Wall!DNSFailed
  <2>3. failure' = failure \/ failure' = [failure EXCEPT ![lease] = "dns"]
    BY <1>12 DEF Wall!DNSFailed
  <2>4. Tighter
    BY <1>9, <2>1, <2>2, <2>3 DEF Tighter, SmartInv, Smart!TypeOK
  <2>5. QED
    BY <1>1, <2>4
<1>13. ASSUME NEW f \in SmartFlows, Wall!Recheck(f) PROVE Tighter
  <2>1. /\ UNCHANGED <<hTerminate, hRevoked, terminated, smartRevoked, age, failure>>
        /\ UNCHANGED <<smartFlows, auth, smartActive>>
    BY <1>13 DEF Wall!Recheck
  <2>2. expired \subseteq expired'
    BY <1>10, <1>13 DEF Wall!Recheck, Wall!AskAgain
  <2>3. QED
    BY <1>9, <2>1, <2>2 DEF Tighter, SmartInv, Smart!TypeOK
<1>14. ASSUME NEW t \in BOOLEAN,
              Wall!Revoke(t) \/ (\E l \in Leases : Wall!RevokeLease(l, t))
       PROVE  Tighter
  <2>1. UNCHANGED <<expired, age, failure, smartFlows, auth, smartActive>>
    BY <1>14 DEF Wall!Revoke, Wall!RevokeLease
  <2>2. /\ hTerminate => hTerminate'
        /\ hRevoked => hRevoked'
        /\ terminated \subseteq terminated'
        /\ smartRevoked \subseteq smartRevoked'
    <3>1. CASE Wall!Revoke(t)
      BY <3>1, Zenon DEF Wall!Revoke
    <3>2. ASSUME NEW l \in Leases, Wall!RevokeLease(l, t) PROVE <2>2
      BY <3>2 DEF Wall!RevokeLease
    <3>3. QED
      BY <1>14, <3>1, <3>2
  <2>3. QED
    BY <1>9, <2>1, <2>2 DEF Tighter, SmartInv, Smart!TypeOK
<1>15. CASE Wall!Close
  <2>1. UNCHANGED <<hRevoked, smartRevoked, terminated, expired, age, failure,
                    smartFlows, auth, smartActive>> /\ hTerminate'
    BY <1>15 DEF Wall!Close
  <2>2. Tighter
    BY <1>9, <2>1 DEF Tighter, SmartInv, Smart!TypeOK
  <2>3. QED
    BY <1>1, <2>2
<1>16. ASSUME NEW l \in Leases, Wall!TimePasses(l) PROVE Tighter
  <2>1. UNCHANGED <<hTerminate, hRevoked, smartRevoked, terminated, expired, failure,
                    smartFlows, auth, smartActive>>
    BY <1>16 DEF Wall!TimePasses
  <2>2. \A m \in Leases : age[m] <= age'[m]
    BY <1>16 DEF Wall!TimePasses, SmartInv, Smart!TypeOK
  <2>3. QED
    BY <1>9, <2>1, <2>2 DEF Tighter
<1>17. CASE UNCHANGED smartVars
  BY <1>6, <1>17 DEF smartVars
<1>18. ASSUME NEW f \in SmartFlows, Wall!FlowStep(f)
       PROVE  Smart!Gate!Next \/ UNCHANGED Smart!Gate!gateVars
  BY <1>18, <1>1, <1>2, <1>4, <1>5, <1>7, <1>11, <1>13
  DEF Wall!FlowStep, Smart!Gate!Next
<1>19. CASE Wall!Next
  BY <1>19, <1>1, <1>8, <1>12, <1>14, <1>15, <1>16, <1>18 DEF Wall!Next
<1>20. QED
  BY <1>17, <1>19

\* Whatever the wall clock does, handshakes, renewals, revocations, failures and
\* late dials of the outbound take only steps its gates allow: a gate is never
\* reopened, and a flow is admitted and connected by an open gate only.
THEOREM SmartImplementsSafe == LeasesSpec => SmartImplementsSafeGate
<1>1. LeasesInit => Smart!Gate!Init
  <2> SUFFICES ASSUME LeasesInit PROVE Smart!Gate!Init
    OBVIOUS
  <2>1. Smart!Init
    BY DEF LeasesInit
  <2>2. SmartGates \in [Leases -> Smart!Gate!Positions]
    BY DEF SmartGates, Smart!GateOf, Smart!Gate!Positions
  <2>3. auth = [f \in SmartFlows |-> NoLease]
    BY <2>1 DEF Smart!Init
  <2>4. SmartMembers = [f \in SmartFlows |-> "out"]
    BY <2>3 DEF SmartMembers, Smart!MemberOf
  <2>5. QED
    BY <2>2, <2>3, <2>4 DEF Smart!Gate!Init, SmartGates, SmartMembers
<1>2. SmartInv /\ [LeasesNext]_leasesVars
      => [(part \in {"smart", "wall"}) => Smart!Gate!Next]_(Smart!Gate!gateVars)
  BY StepOfSmart, SmartGateStep
<1>3. QED
  BY <1>1, <1>2, SmartInvariance, PTL
  DEF LeasesSpec, leasesVars, SmartImplementsSafeGate, smartGate

-----------------------------------------------------------------------------
(* The service group (ServiceGroup).                                       *)

\* A set of naturals that is not empty has a least element.
LEMMA LeastNatural ==
  ASSUME NEW T, T \subseteq Nat, T # {}
  PROVE  \E x \in T : \A y \in T : x <= y
<1> DEFINE R == {ss \in Nat \X Nat : ss[1] < ss[2]}
<1>1. IsWellFoundedOn(R, Nat)
  BY NatLessThanWellFounded DEF OpToRel
<1> HIDE DEF R
<1>2. PICK x \in T : \A y \in T : ~ (<<y, x>> \in R)
  BY <1>1, WFMin
<1>3. ASSUME NEW y \in T PROVE x <= y
  <2>1. y \in Nat /\ x \in Nat
    OBVIOUS
  <2>2. ~(y < x)
    BY <1>2, <2>1 DEF R
  <2>3. QED
    BY <2>1, <2>2
<1>4. QED
  BY <1>2, <1>3

Bindings == [member : Group!Member \cup {0}, gen : 0 .. MaxGen]
Outcomes == [stage : {"resolver", "dns", "tls"}, result : {"pass", "failure"}]
Statuses == {"none", "pending", "pass", "failure"}
Receipts == [by : Probers \cup {0}, binding : Bindings, status : Statuses,
             stages : Seq(Outcomes), lookup : BOOLEAN]

BeforeLookup == {"select", "bind", "check", "enter"}
BoundPlaces == {"check", "enter", "lookup", "recheck", "dns_ok", "dns_error",
                "handshake", "tls_ok", "tls_error", "succeeded"}
ProbePlaces == {"idle", "select", "bind", "failed", "ended"} \cup BoundPlaces

\* The types, with that of a receipt as a whole.
GroupTypes ==
    /\ memberAdmits \in [Group!Member -> BOOLEAN] /\ spare \in [Group!Member -> BOOLEAN]
    /\ gen \in [Group!Member -> 0 .. MaxGen]
    /\ windows \in [Group!Member -> {"current", "expired", "unbound"}]
    /\ resolver \subseteq Group!Member /\ dnsFailed \subseteq Group!Member
    /\ selected \in Group!Member \cup {0} /\ guard \in BOOLEAN /\ owner \in BOOLEAN
    /\ readiness \in Receipts
    /\ ctx \in [Probers -> {"live", "deadline", "cancelled"}]
    /\ probePc \in [Probers -> ProbePlaces] /\ mine \in [Probers -> Bindings]

\* A receipt belongs to a probe, is bound to what that probe captured from the
\* binding on, and holds no stage before the probe's first lookup.
OwnInv ==
    /\ readiness.by = 0 => readiness.status = "none"
    /\ \A p \in Probers : readiness.by = p =>
          /\ probePc[p] \in BoundPlaces => readiness.binding = mine[p]
          /\ probePc[p] \in BeforeLookup /\ readiness.status = "pending" =>
                readiness.stages = <<>>

GroupInv ==
    /\ GroupTypes /\ OwnInv
    /\ guard => readiness.status # "pass"
    /\ Group!PassIsEarned /\ Group!EvidenceHolds /\ Group!FailedResolverStaysOut

LEMMA GroupConstants ==
  /\ Members \in Nat /\ Members > 0 /\ MaxGen \in Nat /\ 0 \notin Probers
  /\ 0 \notin Group!Member /\ Group!Member \subseteq Nat
  BY LeaseConstants DEF Group!ServiceGroupAssumption, Group!Member

LEMMA GroupInit == Group!Init => GroupInv
<1> SUFFICES ASSUME Group!Init PROVE GroupInv
  OBVIOUS
<1> USE GroupConstants DEF Group!Init, Group!NoReceipt, Group!Unbound, Group!Nobody
<1>0. [member |-> 0, gen |-> 0] \in Bindings /\ 1 \in Group!Member
  BY DEF Bindings, Group!Member
<1>1. readiness \in Receipts
  BY <1>0 DEF Receipts, Statuses
<1>2. GroupTypes
  <2>1. selected \in Group!Member \cup {0} /\ 0 \in 0 .. MaxGen
    BY <1>0
  <2>2. mine \in [Probers -> Bindings] /\ probePc \in [Probers -> ProbePlaces]
    BY <1>0 DEF ProbePlaces
  <2>3. QED
    BY <1>1, <2>1, <2>2 DEF GroupTypes
<1>3. OwnInv
  BY DEF OwnInv
<1>4. QED
  BY <1>2, <1>3 DEF GroupInv, Group!PassIsEarned, Group!EvidenceHolds,
     Group!FailedResolverStaysOut

-----------------------------------------------------------------------------
(* What a step may do to the receipt.                                      *)

\* Nothing, or the note that the lookup has begun or ended.
Same ==
    /\ UNCHANGED guard /\ readiness' \in Receipts
    /\ readiness'.by = readiness.by /\ readiness'.binding = readiness.binding
    /\ readiness'.status = readiness.status /\ readiness'.stages = readiness.stages

\* closeReadinessLocked with a receipt.
Withdrawn ==
    /\ readiness.by # 0 /\ guard' = TRUE /\ readiness' \in Receipts
    /\ readiness'.status = "failure" /\ readiness'.by = readiness.by
    /\ readiness'.binding = readiness.binding

\* A stage that passed is appended by the probe that owns the receipt.
Added(p) ==
    /\ readiness.by = p /\ Group!BindingCurrent(readiness) /\ UNCHANGED guard
    /\ readiness' \in Receipts
    /\ readiness'.by = readiness.by /\ readiness'.binding = readiness.binding
    /\ readiness'.status = readiness.status

\* closeReadinessLocked, of a receipt that differs in its stages at most.
LEMMA CloseEffect ==
  ASSUME GroupTypes, NEW r \in Receipts, r.by = readiness.by,
         r.binding = readiness.binding, Group!CloseReadiness(r)
  PROVE  Withdrawn \/ (Same /\ readiness.by = 0)
<1>1. CASE readiness.by = 0
  BY <1>1 DEF Group!CloseReadiness, Group!Nobody, Same, GroupTypes
<1>2. CASE readiness.by # 0
  <2>1. guard' = TRUE /\ readiness' = [r EXCEPT !.status = "failure"]
    BY <1>2 DEF Group!CloseReadiness, Group!Nobody
  <2>2. readiness' \in Receipts /\ readiness'.status = "failure"
        /\ readiness'.by = r.by /\ readiness'.binding = r.binding
    BY <2>1 DEF Receipts, Statuses
  <2>3. QED
    BY <1>2, <2>1, <2>2 DEF Withdrawn
<1>3. QED
  BY <1>1, <1>2

LEMMA OneElement == ASSUME NEW S, NEW x \in S PROVE <<x>> \in Seq(S)
  OBVIOUS

LEMMA OneMore ==
  ASSUME NEW S, NEW s \in Seq(S), NEW x \in S PROVE Append(s, x) \in Seq(S)
  OBVIOUS

LEMMA OutcomeTypes ==
  ASSUME NEW s \in {"resolver", "dns", "tls"}, NEW ok \in BOOLEAN
  PROVE  Group!Outcome(s, ok) \in Outcomes
  BY DEF Group!Outcome, Outcomes

\* retainResolverDeadlineLocked changes the stages only.
LEMMA RetainedEffect ==
  ASSUME GroupTypes
  PROVE  /\ Group!Retained(readiness) \in Receipts
         /\ Group!Retained(readiness).by = readiness.by
         /\ Group!Retained(readiness).binding = readiness.binding
<1> DEFINE late == <<Group!Outcome("resolver", FALSE)>>
<1>0. Group!Outcome("resolver", FALSE) \in Outcomes
  BY OutcomeTypes
<1>1. late \in Seq(Outcomes)
  BY <1>0, OneElement
<1> HIDE DEF late
<1>2. /\ [readiness EXCEPT !.stages = late] \in Receipts
      /\ [readiness EXCEPT !.stages = late].by = readiness.by
      /\ [readiness EXCEPT !.stages = late].binding = readiness.binding
  BY <1>1 DEF GroupTypes, Receipts
<1>3. QED
  BY <1>2 DEF GroupTypes, Group!Retained, late

\* Selected: a member whose resolver has not failed or none, and a receipt about
\* another member is withdrawn.
LEMMA SelectedEffect ==
  ASSUME GroupTypes, Group!Selected, Group!FailedResolverStaysOut
  PROVE  /\ selected' \in Group!Member \cup {0} /\ selected' \notin dnsFailed
         /\ UNCHANGED dnsFailed
         /\ \/ Withdrawn
            \/ Same /\ (readiness.by = 0 \/ readiness.binding.member \in {0, selected'})
<1>1. selected' \in Group!Member \cup {0} /\ selected' \notin dnsFailed
  <2>1. CASE selected # 0 /\ Group!Available(selected)
    BY <2>1 DEF GroupTypes, Group!Selected, Group!NextSelection, Group!Nobody,
       Group!Available
  <2>2. CASE ~(selected # 0 /\ Group!Available(selected))
    <3> DEFINE T == {m \in Group!Member : Group!Available(m)}
    <3>1. CASE T # {}
      <4>1. \E m \in T : \A k \in T : m <= k
        BY <3>1, LeastNatural, GroupConstants
      <4>2. \E m \in Group!Member :
               Group!Available(m) /\ \A k \in Group!Member : Group!Available(k) => m <= k
        BY <4>1
      <4>3. selected' = CHOOSE m \in Group!Member :
               Group!Available(m) /\ \A k \in Group!Member : Group!Available(k) => m <= k
        BY <2>2, <3>1 DEF Group!Selected, Group!NextSelection, Group!Nobody
      <4>4. selected' \in Group!Member /\ Group!Available(selected')
        BY <4>2, <4>3
      <4>5. QED
        BY <4>4 DEF Group!Available
    <3>2. CASE T = {}
      <4>1. selected' = 0
        BY <2>2, <3>2 DEF Group!Selected, Group!NextSelection, Group!Nobody
      <4>2. QED
        BY <4>1, GroupConstants DEF GroupTypes
    <3>3. QED
      BY <3>1, <3>2
  <2>3. QED
    BY <2>1, <2>2
<1>2. CASE readiness.binding.member \in {0, selected'}
  BY <1>1, <1>2 DEF Group!Selected, Group!CloseReadinessIf, Group!Nobody, Same,
     GroupTypes
<1>3. CASE readiness.binding.member \notin {0, selected'}
  <2>1. Group!CloseReadiness(readiness)
    BY <1>3 DEF Group!Selected, Group!CloseReadinessIf, Group!Nobody
  <2>2. readiness \in Receipts
    BY DEF GroupTypes
  <2>3. QED
    BY <1>1, <2>1, <2>2, CloseEffect DEF Group!Selected
<1>4. QED
  BY <1>2, <1>3

\* observeReadiness: nothing for another's receipt, else a withdrawal or one more
\* stage that passed under a current binding.
LEMMA ObserveEffect ==
  ASSUME GroupTypes, NEW p \in Probers, NEW s \in {"resolver", "dns", "tls"},
         NEW ok \in BOOLEAN, Group!Observe(p, s, ok)
  PROVE  Same \/ Withdrawn \/ Added(p)
<1> DEFINE r == [readiness EXCEPT !.stages = Append(@, Group!Outcome(s, ok))]
<1>1. CASE readiness.by # p
  BY <1>1 DEF Group!Observe, Same, GroupTypes
<1>2. CASE readiness.by = p
  <2>1. Group!Outcome(s, ok) \in Outcomes
    BY OutcomeTypes
  <2>2. Append(readiness.stages, Group!Outcome(s, ok)) \in Seq(Outcomes)
    <3>1. readiness.stages \in Seq(Outcomes)
      BY DEF GroupTypes, Receipts
    <3>2. QED
      BY <2>1, <3>1, OneMore
  <2>3. r \in Receipts /\ r.by = readiness.by /\ r.binding = readiness.binding
        /\ r.status = readiness.status
    BY <2>2 DEF GroupTypes, Receipts
  <2> HIDE DEF r
  <2>4. CASE ctx[p] # "live" \/ ~Group!ReceiptCurrent(readiness)
    <3>1. Group!CloseReadiness(Group!Retained(readiness))
      BY <1>2, <2>4 DEF Group!Observe
    <3>2. QED
      BY <3>1, RetainedEffect, CloseEffect
  <2>5. CASE ~(ctx[p] # "live" \/ ~Group!ReceiptCurrent(readiness)) /\ ~ok
    <3>1. Group!CloseReadiness(r)
      BY <1>2, <2>5 DEF Group!Observe, r
    <3>2. QED
      BY <2>3, <3>1, CloseEffect
  <2>6. CASE ~(ctx[p] # "live" \/ ~Group!ReceiptCurrent(readiness)) /\ ok
    <3>1. readiness' = r /\ UNCHANGED guard
      BY <1>2, <2>6 DEF Group!Observe, r
    <3>2. Group!BindingCurrent(readiness)
      BY <2>6 DEF Group!ReceiptCurrent
    <3>3. QED
      BY <1>2, <2>3, <3>1, <3>2 DEF Added
  <2>7. QED
    BY <2>4, <2>5, <2>6
<1>3. QED
  BY <1>1, <1>2

-----------------------------------------------------------------------------
(* The four ways the invariant survives a step.                            *)

\* What the rest of the step does while the receipt is withdrawn or stays: calls
\* go on without entering the places the receipt's owner has left, and the
\* selection is of a member whose resolver has not failed.
Rest ==
    /\ GroupTypes' /\ selected' \notin dnsFailed'
    /\ \A p \in Probers :
          /\ probePc'[p] \in BoundPlaces => probePc[p] \in BoundPlaces
          /\ probePc'[p] \in BoundPlaces => mine'[p] = mine[p]
          /\ probePc'[p] \in BeforeLookup => probePc[p] \in BeforeLookup
          /\ probePc[p] = "ended" => probePc'[p] = "ended" /\ mine'[p] = mine[p]

\* The invariant, and the guard of GuardIsFinal.
Kept == GroupInv' /\ (guard => guard' /\ readiness'.status # "pass")

LEMMA WithdrawnKeeps ==
  ASSUME GroupInv, Rest, Withdrawn
  PROVE  Kept
<1>1. OwnInv'
  BY DEF GroupInv, GroupTypes, Rest, Withdrawn, OwnInv
<1>2. QED
  BY <1>1 DEF Kept, Rest, Withdrawn, GroupInv, Group!PassIsEarned, Group!EvidenceHolds,
     Group!FailedResolverStaysOut

LEMMA SameKeeps ==
  ASSUME GroupInv, Rest, Same,
         \/ /\ selected' = selected
            /\ \A m \in Group!Member : windows'[m] = "unbound" =>
                  windows[m] = "unbound" \/ readiness.by = 0
                  \/ readiness.binding.member # m
         \/ windows' = windows /\ (readiness.by = 0 \/ readiness.binding.member \in {0, selected'})
  PROVE  Kept
<1>1. OwnInv'
  BY DEF GroupInv, Rest, Same, OwnInv
<1>2. Group!PassIsEarned'
  BY DEF GroupInv, GroupTypes, OwnInv, Rest, Same, Group!PassIsEarned, Receipts
<1>3. Group!EvidenceHolds'
  BY DEF GroupInv, GroupTypes, OwnInv, Same, Group!EvidenceHolds, Group!Nobody
<1>4. QED
  BY <1>1, <1>2, <1>3 DEF Kept, Rest, Same, GroupInv, Group!FailedResolverStaysOut

\* A probe under way adds a stage that passed.
LEMMA AddedKeeps ==
  ASSUME GroupInv, Rest, UNCHANGED <<selected, windows>>,
         NEW p \in Probers, Added(p), probePc[p] # "ended",
         probePc'[p] \notin BeforeLookup
  PROVE  Kept
<1>1. readiness.status # "pass" /\ readiness'.status # "pass"
  BY DEF GroupInv, Group!PassIsEarned, Added
<1>2. OwnInv'
  BY GroupConstants DEF GroupInv, OwnInv, Rest, Added
<1>3. Group!EvidenceHolds'
  BY DEF Added, Group!BindingCurrent, Group!EvidenceHolds, Group!Nobody
<1>4. QED
  BY <1>1, <1>2, <1>3 DEF Kept, Added, Rest, GroupInv, Group!PassIsEarned,
     Group!FailedResolverStaysOut

\* What keeps the rest when the calls and members have their types.
LEMMA RestOfCall ==
  ASSUME GroupInv, NEW p \in Probers, NEW where \in ProbePlaces,
         probePc' = [probePc EXCEPT ![p] = where], probePc[p] # "ended",
         where \in BoundPlaces => probePc[p] \in BoundPlaces,
         where \in BeforeLookup => probePc[p] \in BeforeLookup,
         UNCHANGED <<memberAdmits, gen, spare, windows, resolver, dnsFailed, mine,
                     ctx, owner>>,
         selected' \in Group!Member \cup {0}, selected' \notin dnsFailed,
         guard' \in BOOLEAN, readiness' \in Receipts
  PROVE  Rest
<1>1. GroupTypes'
  BY DEF GroupInv, GroupTypes
<1>2. \A q \in Probers : probePc'[q] = IF q = p THEN where ELSE probePc[q]
  BY DEF GroupInv, GroupTypes
<1>3. QED
  BY <1>1, <1>2 DEF Rest

\* The same when no call moves.
LEMMA RestOfMembers ==
  ASSUME GroupInv, GroupTypes', UNCHANGED <<probePc, mine>>,
         selected' \notin dnsFailed'
  PROVE  Rest
  BY DEF Rest

LEMMA BindingTypes ==
  ASSUME NEW r \in Receipts
  PROVE  r.by \in Probers \cup {0} /\ r.binding \in Bindings /\ r.stages \in Seq(Outcomes)
         /\ r.binding.member \in Group!Member \cup {0} /\ r.status \in Statuses
  BY DEF Receipts, Bindings

\* beginReadiness
LEMMA BeginKeeps ==
  ASSUME GroupInv, NEW p \in Probers, Group!Begin(p)
  PROVE  Kept
<1>1. /\ readiness' = [by |-> p, binding |-> readiness.binding, status |-> "pending",
                       stages |-> <<>>, lookup |-> FALSE]
      /\ guard' \in BOOLEAN /\ (guard => guard')
  BY DEF GroupInv, GroupTypes, Group!Begin, Group!NoReceipt
<1>2. readiness.binding \in Bindings /\ <<>> \in Seq(Outcomes)
  BY BindingTypes DEF GroupInv, GroupTypes
<1>3. readiness' \in Receipts
  BY <1>1, <1>2 DEF Receipts, Statuses
<1>4. /\ readiness'.by = p /\ readiness'.status = "pending" /\ readiness'.stages = <<>>
  BY <1>1
<1>5. probePc' = [probePc EXCEPT ![p] = "select"]
      /\ UNCHANGED <<memberAdmits, gen, spare, windows, resolver, selected, dnsFailed,
                     mine, ctx, owner>>
  BY DEF Group!Begin, Group!GoTo, Group!members
<1>6. GroupTypes'
  BY <1>1, <1>3, <1>5 DEF GroupInv, GroupTypes, ProbePlaces
<1>7. OwnInv'
  BY <1>4, <1>5, GroupConstants DEF OwnInv, BoundPlaces, GroupInv, GroupTypes
<1>8. QED
  BY <1>1, <1>4, <1>5, <1>6, <1>7 DEF Kept, GroupInv, Group!PassIsEarned,
     Group!EvidenceHolds, Group!FailedResolverStaysOut

\* bindReadiness
LEMMA BindKeeps ==
  ASSUME GroupInv, NEW p \in Probers, Group!Bind(p)
  PROVE  Kept
<1>1. PICK next \in {"check", "failed"} : probePc' = [probePc EXCEPT ![p] = next]
  BY DEF Group!Bind, Group!GoTo
<1>2. UNCHANGED <<memberAdmits, gen, spare, windows, resolver, selected, dnsFailed,
                  guard, mine, ctx, owner>> /\ probePc[p] = "bind"
  BY DEF Group!Bind, Group!members
<1>3. readiness \in Receipts /\ mine[p] \in Bindings
  BY DEF GroupInv, GroupTypes
<1>4. CASE readiness.by # p
  <2>1. readiness' = readiness
    BY <1>4 DEF Group!Bind
  <2>2. GroupTypes'
    BY <1>1, <1>2, <1>3, <2>1 DEF GroupInv, GroupTypes, ProbePlaces, BoundPlaces
  <2>3. \A q \in Probers : q # p => probePc'[q] = probePc[q]
    BY <1>1 DEF GroupInv, GroupTypes
  <2>4. OwnInv'
    BY <1>2, <1>4, <2>1, <2>3 DEF GroupInv, OwnInv
  <2>5. readiness.status = "pass" => readiness.by \in Probers
    BY <1>3, BindingTypes DEF GroupInv, OwnInv
  <2>6. Group!PassIsEarned'
    BY <1>2, <1>4, <2>1, <2>3, <2>5 DEF GroupInv, Group!PassIsEarned
  <2>7. QED
    BY <1>2, <2>1, <2>2, <2>4, <2>6 DEF Kept, GroupInv, Group!EvidenceHolds,
       Group!FailedResolverStaysOut
<1>5. CASE readiness.by = p
  <2>1. readiness' = [readiness EXCEPT !.binding = mine[p]]
    BY <1>5 DEF Group!Bind
  <2>2. /\ readiness' \in Receipts /\ readiness'.by = p /\ readiness'.binding = mine[p]
        /\ readiness'.status = readiness.status /\ readiness'.stages = readiness.stages
    BY <1>3, <1>5, <2>1 DEF Receipts
  <2>3. GroupTypes'
    BY <1>1, <1>2, <2>2 DEF GroupInv, GroupTypes, ProbePlaces, BoundPlaces
  <2>4. /\ readiness.status # "pass"
        /\ readiness.status = "pending" => readiness.stages = <<>>
    BY <1>2, <1>5 DEF GroupInv, OwnInv, Group!PassIsEarned, BeforeLookup
  <2>5. OwnInv'
    BY <1>2, <2>2, <2>4, GroupConstants DEF OwnInv
  <2>6. QED
    BY <1>2, <2>2, <2>3, <2>4, <2>5 DEF Kept, GroupInv, Group!PassIsEarned,
       Group!EvidenceHolds, Group!FailedResolverStaysOut
<1>6. QED
  BY <1>4, <1>5

\* A call moves while it or nothing selects.
LEMMA CallKeepsReceipt ==
  ASSUME GroupInv, NEW p \in Probers, NEW where \in ProbePlaces,
         probePc' = [probePc EXCEPT ![p] = where], probePc[p] # "ended",
         where \in BoundPlaces => probePc[p] \in BoundPlaces,
         where \in BeforeLookup => probePc[p] \in BeforeLookup,
         UNCHANGED <<memberAdmits, gen, spare, windows, resolver, mine, ctx, owner>>,
         \/ Group!Selected
         \/ /\ UNCHANGED <<selected, dnsFailed>>
            /\ Same \/ Withdrawn \/ (where \notin BeforeLookup /\ Added(p))
  PROVE  Kept
<1>0. GroupTypes /\ Group!FailedResolverStaysOut
  BY DEF GroupInv
<1>1. CASE Group!Selected
  <2>1. /\ selected' \in Group!Member \cup {0} /\ selected' \notin dnsFailed
        /\ UNCHANGED dnsFailed
        /\ \/ Withdrawn
           \/ Same /\ (readiness.by = 0 \/ readiness.binding.member \in {0, selected'})
    BY <1>0, <1>1, SelectedEffect
  <2>2. guard' \in BOOLEAN /\ readiness' \in Receipts
    BY <1>0, <2>1 DEF GroupTypes, Same, Withdrawn
  <2>3. Rest
    BY <2>1, <2>2, RestOfCall
  <2>4. QED
    BY <2>1, <2>3, WithdrawnKeeps, SameKeeps
<1>2. CASE /\ UNCHANGED <<selected, dnsFailed>>
           /\ Same \/ Withdrawn \/ (where \notin BeforeLookup /\ Added(p))
  <2>1. guard' \in BOOLEAN /\ readiness' \in Receipts
    BY <1>0, <1>2 DEF GroupTypes, Same, Withdrawn, Added
  <2>2. selected' \in Group!Member \cup {0} /\ selected' \notin dnsFailed
    BY <1>0, <1>2 DEF GroupTypes, Group!FailedResolverStaysOut
  <2>3. Rest
    BY <1>2, <2>1, <2>2, RestOfCall
  <2>4. probePc'[p] = where
    BY <1>0 DEF GroupTypes
  <2>5. QED
    BY <1>2, <2>3, <2>4, WithdrawnKeeps, SameKeeps, AddedKeeps
<1>3. QED
  BY <1>1, <1>2

\* The steps of a probe between its binding and its end.
LEMMA ProbeKeeps ==
  ASSUME GroupInv, NEW p \in Probers,
         \/ Group!Check(p) \/ Group!BeginLookup(p) \/ Group!ObserveResolver(p)
         \/ Group!LookupReturns(p) \/ Group!Recheck(p) \/ Group!ObserveDNS(p)
         \/ Group!Handshake(p) \/ Group!ObserveTLS(p)
  PROVE  Kept
<1>0. GroupTypes
  BY DEF GroupInv
<1> USE DEF Group!members, Group!group, Group!GoTo
<1> DEFINE Others == UNCHANGED <<memberAdmits, gen, spare, windows, resolver, mine, ctx, owner>>
<1>1. CASE Group!Check(p)
  <2>1. PICK next \in {"enter", "failed"} : probePc' = [probePc EXCEPT ![p] = next]
    BY <1>1 DEF Group!Check
  <2>2. probePc[p] = "check" /\ Group!Selected /\ Others
    BY <1>1 DEF Group!Check
  <2>3. /\ next \in ProbePlaces
        /\ next \in BoundPlaces => probePc[p] \in BoundPlaces
        /\ next \in BeforeLookup => probePc[p] \in BeforeLookup
    BY <2>2 DEF ProbePlaces, BoundPlaces, BeforeLookup
  <2>4. QED
    BY <2>1, <2>2, <2>3, CallKeepsReceipt
<1>2. CASE Group!BeginLookup(p)
  <2>1. probePc[p] = "enter" /\ probePc' = [probePc EXCEPT ![p] = "lookup"]
        /\ Others /\ UNCHANGED <<selected, dnsFailed, guard>>
    BY <1>2 DEF Group!BeginLookup
  <2>2. readiness' = readiness \/ readiness' = [readiness EXCEPT !.lookup = TRUE]
    BY <1>2 DEF Group!BeginLookup
  <2>3. Same
    BY <1>0, <2>1, <2>2 DEF Same, GroupTypes, Receipts
  <2>4. /\ "lookup" \in ProbePlaces /\ probePc[p] \in BoundPlaces
        /\ "lookup" \notin BeforeLookup
    BY <2>1 DEF ProbePlaces, BoundPlaces, BeforeLookup
  <2>5. QED
    BY <2>1, <2>3, <2>4, CallKeepsReceipt
<1>3. CASE Group!ObserveResolver(p)
  <2>1. probePc[p] = "lookup" /\ probePc' = [probePc EXCEPT ![p] = "lookup"]
        /\ Others /\ UNCHANGED <<selected, dnsFailed>>
    BY <1>0, <1>3 DEF Group!ObserveResolver, GroupTypes
  <2>2. PICK ok \in BOOLEAN : Group!Observe(p, "resolver", ok)
    BY <1>3 DEF Group!ObserveResolver
  <2>3. Same \/ Withdrawn \/ Added(p)
    BY <1>0, <2>2, ObserveEffect
  <2>4. /\ "lookup" \in ProbePlaces /\ probePc[p] \in BoundPlaces
        /\ "lookup" \notin BeforeLookup
    BY <2>1 DEF ProbePlaces, BoundPlaces, BeforeLookup
  <2>5. QED
    BY <2>1, <2>3, <2>4, CallKeepsReceipt
<1>4. CASE Group!LookupReturns(p)
  <2>1. PICK next \in {"recheck", "dns_error", "failed"} :
           probePc' = [probePc EXCEPT ![p] = next]
    BY <1>4 DEF Group!LookupReturns
  <2>2. probePc[p] = "lookup" /\ Others /\ UNCHANGED <<selected, dnsFailed, guard>>
    BY <1>4 DEF Group!LookupReturns
  <2>3. readiness' = readiness \/ readiness' = [readiness EXCEPT !.lookup = FALSE]
    BY <1>4 DEF Group!LookupReturns
  <2>4. Same
    BY <1>0, <2>2, <2>3 DEF Same, GroupTypes, Receipts
  <2>5. next \in ProbePlaces /\ probePc[p] \in BoundPlaces /\ next \notin BeforeLookup
    BY <2>2 DEF ProbePlaces, BoundPlaces, BeforeLookup
  <2>6. QED
    BY <2>1, <2>2, <2>4, <2>5, CallKeepsReceipt
<1>5. CASE Group!Recheck(p)
  <2>1. PICK next \in {"dns_ok", "dns_error", "failed"} :
           probePc' = [probePc EXCEPT ![p] = next]
    BY <1>5 DEF Group!Recheck
  <2>2. probePc[p] = "recheck" /\ Group!Selected /\ Others
    BY <1>5 DEF Group!Recheck
  <2>3. next \in ProbePlaces /\ probePc[p] \in BoundPlaces /\ next \notin BeforeLookup
    BY <2>2 DEF ProbePlaces, BoundPlaces, BeforeLookup
  <2>4. QED
    BY <2>1, <2>2, <2>3, CallKeepsReceipt
<1>6. CASE Group!ObserveDNS(p)
  <2>1. PICK next \in {"handshake", "failed"} : probePc' = [probePc EXCEPT ![p] = next]
    BY <1>6 DEF Group!ObserveDNS
  <2>2. probePc[p] \in {"dns_ok", "dns_error"} /\ Others
        /\ UNCHANGED <<selected, dnsFailed>>
    BY <1>6 DEF Group!ObserveDNS
  <2>3. Same \/ Withdrawn \/ Added(p)
    BY <1>0, <1>6, ObserveEffect DEF Group!ObserveDNS
  <2>4. next \in ProbePlaces /\ probePc[p] \in BoundPlaces /\ next \notin BeforeLookup
    BY <2>2 DEF ProbePlaces, BoundPlaces, BeforeLookup
  <2>5. QED
    BY <2>1, <2>2, <2>3, <2>4, CallKeepsReceipt
<1>7. CASE Group!Handshake(p)
  <2>1. PICK next \in {"tls_ok", "tls_error", "failed"} :
           probePc' = [probePc EXCEPT ![p] = next]
    BY <1>7 DEF Group!Handshake
  <2>2. probePc[p] = "handshake" /\ Others
    BY <1>7 DEF Group!Handshake
  <2>3. Group!Selected \/ UNCHANGED <<selected, dnsFailed, guard, readiness>>
    BY <1>7 DEF Group!Handshake
  <2>4. UNCHANGED <<selected, dnsFailed, guard, readiness>> => Same
    BY <1>0 DEF Same, GroupTypes
  <2>5. next \in ProbePlaces /\ probePc[p] \in BoundPlaces /\ next \notin BeforeLookup
    BY <2>2 DEF ProbePlaces, BoundPlaces, BeforeLookup
  <2>6. QED
    BY <2>1, <2>2, <2>3, <2>4, <2>5, CallKeepsReceipt
<1>8. CASE Group!ObserveTLS(p)
  <2>1. PICK next \in {"succeeded", "failed"} : probePc' = [probePc EXCEPT ![p] = next]
    BY <1>8 DEF Group!ObserveTLS
  <2>2. probePc[p] \in {"tls_ok", "tls_error"} /\ Others
        /\ UNCHANGED <<selected, dnsFailed>>
    BY <1>8 DEF Group!ObserveTLS
  <2>3. Same \/ Withdrawn \/ Added(p)
    BY <1>0, <1>8, ObserveEffect DEF Group!ObserveTLS
  <2>4. next \in ProbePlaces /\ probePc[p] \in BoundPlaces /\ next \notin BeforeLookup
    BY <2>2 DEF ProbePlaces, BoundPlaces, BeforeLookup
  <2>5. QED
    BY <2>1, <2>2, <2>3, <2>4, CallKeepsReceipt
<1>9. QED
  BY <1>1, <1>2, <1>3, <1>4, <1>5, <1>6, <1>7, <1>8

\* A probe takes what Selected gives, and the identity of its lease.
LEMMA SelectKeeps ==
  ASSUME GroupInv, NEW p \in Probers, Group!Select(p)
  PROVE  Kept
<1>0. GroupTypes /\ Group!FailedResolverStaysOut /\ probePc[p] = "select"
  BY DEF GroupInv, Group!Select
<1> USE DEF Group!members, Group!group, Group!GoTo
<1>1. "failed" \in ProbePlaces \ (BoundPlaces \cup BeforeLookup)
      /\ "bind" \in ProbePlaces \ BoundPlaces
  BY DEF ProbePlaces, BoundPlaces, BeforeLookup
<1>2. CASE UNCHANGED mine /\ probePc' = [probePc EXCEPT ![p] = "failed"]
  <2>1. Group!Selected \/ UNCHANGED <<selected, dnsFailed, guard, readiness>>
    BY DEF Group!Select
  <2>2. UNCHANGED <<selected, dnsFailed, guard, readiness>> => Same
    BY <1>0 DEF Same, GroupTypes
  <2>3. UNCHANGED <<memberAdmits, gen, spare, windows, resolver, mine, ctx, owner>>
    BY <1>2 DEF Group!Select
  <2>4. QED
    BY <1>0, <1>1, <1>2, <2>1, <2>2, <2>3, CallKeepsReceipt
<1>3. CASE /\ Group!Selected /\ selected' # 0
           /\ probePc' = [probePc EXCEPT ![p] = "bind"]
           /\ mine' = [mine EXCEPT ![p] = [member |-> selected', gen |-> gen[selected']]]
  <2>1. /\ selected' \in Group!Member \cup {0} /\ selected' \notin dnsFailed
        /\ UNCHANGED dnsFailed
        /\ \/ Withdrawn
           \/ Same /\ (readiness.by = 0 \/ readiness.binding.member \in {0, selected'})
    BY <1>0, <1>3, SelectedEffect
  <2>2. guard' \in BOOLEAN /\ readiness' \in Receipts
    BY <1>0, <2>1 DEF GroupTypes, Same, Withdrawn
  <2>3. [member |-> selected', gen |-> gen[selected']] \in Bindings
    BY <1>0, <1>3, <2>1 DEF GroupTypes, Bindings
  <2>4. mine' \in [Probers -> Bindings] /\ probePc' \in [Probers -> ProbePlaces]
    BY <1>0, <1>1, <1>3, <2>3 DEF GroupTypes
  <2>5. UNCHANGED <<memberAdmits, gen, spare, windows, resolver, ctx, owner>>
    BY DEF Group!Select
  <2>6. GroupTypes'
    BY <1>0, <2>1, <2>2, <2>4, <2>5 DEF GroupTypes
  <2>7. \A q \in Probers : \/ q = p /\ probePc'[q] = "bind"
                           \/ probePc'[q] = probePc[q] /\ mine'[q] = mine[q]
    BY <1>0, <1>3 DEF GroupTypes
  <2>8. Rest
    BY <1>0, <1>1, <2>1, <2>6, <2>7 DEF Rest, BeforeLookup
  <2>9. QED
    BY <2>1, <2>5, <2>8, WithdrawnKeeps, SameKeeps
<1>4. QED
  BY <1>2, <1>3 DEF Group!Select, Group!Nobody

\* finishReadiness
LEMMA FinishKeeps ==
  ASSUME GroupInv, NEW p \in Probers, Group!Finish(p)
  PROVE  Kept
<1>0. GroupTypes /\ Group!FailedResolverStaysOut
  BY DEF GroupInv
<1> USE DEF Group!members, Group!group, Group!GoTo
<1>1. /\ probePc[p] \in {"succeeded", "failed"}
      /\ probePc' = [probePc EXCEPT ![p] = "ended"]
      /\ UNCHANGED <<memberAdmits, gen, spare, windows, resolver, selected, dnsFailed,
                     mine, ctx, owner>>
  BY DEF Group!Finish
<1>2. "ended" \in ProbePlaces \ (BoundPlaces \cup BeforeLookup)
  BY DEF ProbePlaces, BoundPlaces, BeforeLookup
<1> DEFINE Good ==
      /\ probePc[p] = "succeeded" /\ ctx[p] = "live" /\ ~guard
      /\ Group!ReceiptCurrent(readiness)
      /\ readiness.stages = <<Group!Passed["resolver"], Group!Passed["dns"],
                              Group!Passed["tls"]>>
<1>3. CASE readiness.by = p /\ Good
  <2>1. readiness' = [readiness EXCEPT !.status = "pass"] /\ UNCHANGED guard
    BY <1>3 DEF Group!Finish
  <2>2. /\ readiness' \in Receipts /\ readiness'.by = p
        /\ readiness'.binding = readiness.binding /\ readiness'.status = "pass"
        /\ readiness'.stages = readiness.stages
    BY <1>0, <1>3, <2>1 DEF GroupTypes, Receipts, Statuses
  <2>3. GroupTypes'
    BY <1>0, <1>1, <1>2, <2>1, <2>2 DEF GroupTypes
  <2>4. readiness.binding = mine[p]
    BY <1>3 DEF GroupInv, OwnInv, BoundPlaces
  <2>5. probePc'[p] = "ended"
    BY <1>0, <1>1 DEF GroupTypes
  <2>6. OwnInv'
    BY <1>2, <2>2, <2>5, GroupConstants DEF OwnInv
  <2>7. Group!PassIsEarned'
    BY <1>1, <1>3, <2>2, <2>4, <2>5 DEF Group!PassIsEarned, Group!Passed
  <2>8. Group!EvidenceHolds'
    BY <1>1, <1>3, <2>2 DEF Group!EvidenceHolds, Group!ReceiptCurrent,
       Group!BindingCurrent, Group!Nobody
  <2>9. QED
    BY <1>0, <1>1, <1>3, <2>1, <2>3, <2>6, <2>7, <2>8
    DEF Kept, GroupInv, Group!FailedResolverStaysOut
<1>4. CASE ~(readiness.by = p /\ Good)
  <2>1. UNCHANGED <<guard, readiness>> \/ Group!CloseReadiness(Group!Retained(readiness))
    BY <1>4 DEF Group!Finish
  <2>2. Same \/ Withdrawn
    BY <1>0, <2>1, RetainedEffect, CloseEffect DEF Same, GroupTypes
  <2>3. QED
    BY <1>1, <1>2, <2>2, CallKeepsReceipt
<1>5. QED
  BY <1>3, <1>4

\* A withdrawal while no call moves.
LEMMA WithdrawalKeeps ==
  ASSUME GroupInv, UNCHANGED <<probePc, mine, gen, spare, resolver, ctx, owner>>,
         memberAdmits' \in [Group!Member -> BOOLEAN],
         windows' \in [Group!Member -> {"current", "expired", "unbound"}],
         dnsFailed' \subseteq Group!Member,
         selected' \in Group!Member \cup {0}, selected' \notin dnsFailed',
         \/ Withdrawn
         \/ /\ Same
            /\ \/ /\ selected' = selected
                  /\ \A m \in Group!Member : windows'[m] = "unbound" =>
                        windows[m] = "unbound" \/ readiness.by = 0
                        \/ readiness.binding.member # m
               \/ windows' = windows /\ (readiness.by = 0 \/ readiness.binding.member \in {0, selected'})
  PROVE  Kept
<1>0. GroupTypes
  BY DEF GroupInv
<1>1. guard' \in BOOLEAN /\ readiness' \in Receipts
  BY <1>0 DEF GroupTypes, Same, Withdrawn
<1>2. GroupTypes'
  BY <1>0, <1>1 DEF GroupTypes
<1>3. Rest
  BY <1>2, RestOfMembers
<1>4. QED
  BY <1>3, WithdrawnKeeps, SameKeeps

\* Rules, resolvers and the host.
LEMMA MembersKeep ==
  ASSUME GroupInv, NEW m \in Group!Member,
         \/ Group!ObserveScopedRuleBypass(m) \/ Group!DNSFailed(m)
         \/ Group!CloseProbe(m) \/ Group!RuleWalk \/ Group!ReadSelection
  PROVE  Kept
<1>0. GroupTypes /\ Group!FailedResolverStaysOut /\ readiness \in Receipts
  BY DEF GroupInv, GroupTypes
<1> USE DEF Group!members, Group!group
<1>a. ASSUME Group!CloseReadinessIf(readiness.binding.member = m, readiness)
      PROVE  \/ Withdrawn
             \/ Same /\ (readiness.by = 0 \/ readiness.binding.member # m)
  BY <1>a, <1>0, CloseEffect DEF Group!CloseReadinessIf, Same, GroupTypes
<1>1. CASE Group!ObserveScopedRuleBypass(m)
  <2>1. Withdrawn \/ Same
    BY <1>1, <1>a DEF Group!ObserveScopedRuleBypass
  <2>2. UNCHANGED <<memberAdmits, gen, spare, windows, resolver, selected, dnsFailed,
                    probePc, mine, ctx, owner>>
    BY <1>1 DEF Group!ObserveScopedRuleBypass
  <2>3. QED
    BY <1>0, <2>1, <2>2, WithdrawalKeeps DEF GroupTypes, Group!FailedResolverStaysOut
<1>2. CASE Group!DNSFailed(m)
  <2>1. \/ Withdrawn
        \/ Same /\ (readiness.by = 0 \/ readiness.binding.member # m)
    BY <1>2, <1>a DEF Group!DNSFailed
  <2>2. /\ UNCHANGED <<gen, spare, windows, resolver, probePc, mine, ctx, owner>>
        /\ memberAdmits' = [memberAdmits EXCEPT ![m] = FALSE]
        /\ dnsFailed' = dnsFailed \cup {m}
        /\ selected' = IF selected = m THEN 0 ELSE selected
    BY <1>2 DEF Group!DNSFailed, Group!Nobody
  <2>3. /\ memberAdmits' \in [Group!Member -> BOOLEAN] /\ dnsFailed' \subseteq Group!Member
        /\ selected' \in Group!Member \cup {0} /\ selected' \notin dnsFailed'
    BY <1>0, <2>2, GroupConstants DEF GroupTypes, Group!FailedResolverStaysOut
  <2>4. GroupTypes'
    BY <1>0, <2>1, <2>2, <2>3 DEF GroupTypes, Same, Withdrawn
  <2>5. Rest
    BY <2>2, <2>3, <2>4, RestOfMembers
  <2>6. CASE Withdrawn
    BY <2>5, <2>6, WithdrawnKeeps
  <2>7. CASE Same /\ selected # m
    BY <2>2, <2>5, <2>7, SameKeeps
  <2>8. CASE Same /\ selected = m /\ (readiness.by = 0 \/ readiness.binding.member # m)
    <3>1. OwnInv'
      BY <2>2, <2>8 DEF GroupInv, OwnInv, Same
    <3>2. Group!PassIsEarned' /\ Group!EvidenceHolds'
      BY <2>2, <2>8 DEF GroupInv, OwnInv, Same, Group!PassIsEarned,
         Group!EvidenceHolds
    <3>3. QED
      BY <2>3, <2>4, <2>8, <3>1, <3>2
      DEF Kept, GroupInv, Same, Group!FailedResolverStaysOut
  <2>9. QED
    BY <2>1, <2>6, <2>7, <2>8
<1>3. CASE Group!CloseProbe(m)
  <2>1. \/ Withdrawn
        \/ Same /\ (readiness.by = 0 \/ readiness.binding.member # m)
    BY <1>3, <1>a DEF Group!CloseProbe
  <2>2. /\ UNCHANGED <<memberAdmits, gen, spare, resolver, selected, dnsFailed,
                       probePc, mine, ctx, owner>>
        /\ windows' = [windows EXCEPT ![m] = "unbound"]
    BY <1>3 DEF Group!CloseProbe
  <2>3. /\ windows' \in [Group!Member -> {"current", "expired", "unbound"}]
        /\ \A k \in Group!Member : k # m => windows'[k] = windows[k]
    BY <1>0, <2>2 DEF GroupTypes
  <2>4. QED
    BY <1>0, <2>1, <2>2, <2>3, WithdrawalKeeps DEF GroupTypes,
       Group!FailedResolverStaysOut
<1>4. CASE Group!RuleWalk
  <2>1. /\ selected' \in Group!Member \cup {0} /\ selected' \notin dnsFailed
        /\ UNCHANGED dnsFailed
        /\ \/ Withdrawn
           \/ Same /\ (readiness.by = 0 \/ readiness.binding.member \in {0, selected'})
    BY <1>0, <1>4, SelectedEffect DEF Group!RuleWalk
  <2>2. UNCHANGED <<memberAdmits, gen, spare, windows, resolver, probePc, mine, ctx, owner>>
    BY <1>4 DEF Group!RuleWalk
  <2>3. QED
    BY <1>0, <2>1, <2>2, WithdrawalKeeps DEF GroupTypes
<1>5. CASE Group!ReadSelection
  <2>1. Withdrawn \/ Same
    BY <1>0, <1>5, RetainedEffect, CloseEffect DEF Group!ReadSelection
  <2>2. UNCHANGED <<memberAdmits, gen, spare, windows, resolver, selected, dnsFailed,
                    probePc, mine, ctx, owner>>
    BY <1>5 DEF Group!ReadSelection
  <2>3. QED
    BY <1>0, <2>1, <2>2, WithdrawalKeeps DEF GroupTypes, Group!FailedResolverStaysOut
<1>6. QED
  BY <1>1, <1>2, <1>3, <1>4, <1>5

\* The surroundings change and the group does not.
LEMMA SurroundingsKeep ==
  ASSUME GroupInv,
         \/ \E m \in Group!Member :
               \/ Group!LeaseStops(m) \/ Group!RenewLease(m) \/ Group!QuotaChanges(m)
               \/ Group!TransportGoes(m) \/ Group!CatalogExpires(m)
         \/ \E p \in Probers, how \in {"deadline", "cancelled"} : Group!ContextEnds(p, how)
         \/ Group!OwnerEnds
  PROVE  Kept
<1>0. GroupTypes /\ Group!FailedResolverStaysOut
  BY DEF GroupInv
<1> USE DEF Group!members, Group!group
<1> DEFINE Still == UNCHANGED <<selected, dnsFailed, guard, readiness, probePc, mine>>
<1>1. ASSUME Still, GroupTypes',
             \A m \in Group!Member : windows'[m] = "unbound" => windows[m] = "unbound"
      PROVE  Kept
  <2>1. Same
    BY <1>0, <1>1 DEF Same, GroupTypes
  <2>2. Rest
    BY <1>0, <1>1, RestOfMembers DEF Group!FailedResolverStaysOut
  <2>3. QED
    BY <1>1, <2>1, <2>2, SameKeeps
<1>2. ASSUME NEW m \in Group!Member, Group!LeaseStops(m) PROVE Kept
  <2>1. memberAdmits' \in [Group!Member -> BOOLEAN]
    BY <1>0, <1>2 DEF GroupTypes, Group!LeaseStops
  <2>2. GroupTypes'
    BY <1>0, <1>2, <2>1 DEF GroupTypes, Group!LeaseStops
  <2>3. QED
    BY <1>1, <1>2, <2>2 DEF Group!LeaseStops
<1>3. ASSUME NEW m \in Group!Member, Group!RenewLease(m) PROVE Kept
  <2>1. gen[m] + 1 \in 0 .. MaxGen
    BY <1>0, <1>3, GroupConstants DEF GroupTypes, Group!RenewLease
  <2>2. gen' \in [Group!Member -> 0 .. MaxGen]
    BY <1>0, <1>3, <2>1 DEF GroupTypes, Group!RenewLease
  <2>3. memberAdmits' \in [Group!Member -> BOOLEAN]
    BY <1>0, <1>3 DEF GroupTypes, Group!RenewLease
  <2>4. GroupTypes'
    BY <1>0, <1>3, <2>2, <2>3 DEF GroupTypes, Group!RenewLease
  <2>5. QED
    BY <1>1, <1>3, <2>4 DEF Group!RenewLease
<1>4. ASSUME NEW m \in Group!Member, Group!QuotaChanges(m) PROVE Kept
  <2>1. spare' \in [Group!Member -> BOOLEAN]
    BY <1>0, <1>4 DEF GroupTypes, Group!QuotaChanges
  <2>2. GroupTypes'
    BY <1>0, <1>4, <2>1 DEF GroupTypes, Group!QuotaChanges
  <2>3. QED
    BY <1>1, <1>4, <2>2 DEF Group!QuotaChanges
<1>5. ASSUME NEW m \in Group!Member, Group!TransportGoes(m) PROVE Kept
  <2>1. GroupTypes'
    BY <1>0, <1>5 DEF GroupTypes, Group!TransportGoes
  <2>2. QED
    BY <1>1, <1>5, <2>1 DEF Group!TransportGoes
<1>6. ASSUME NEW m \in Group!Member, Group!CatalogExpires(m) PROVE Kept
  <2>1. windows' \in [Group!Member -> {"current", "expired", "unbound"}]
        /\ \A k \in Group!Member : windows'[k] = "unbound" => windows[k] = "unbound"
    BY <1>0, <1>6 DEF GroupTypes, Group!CatalogExpires
  <2>2. GroupTypes'
    BY <1>0, <1>6, <2>1 DEF GroupTypes, Group!CatalogExpires
  <2>3. QED
    BY <1>1, <1>6, <2>1, <2>2 DEF Group!CatalogExpires
<1>7. ASSUME NEW p \in Probers, NEW how \in {"deadline", "cancelled"},
             Group!ContextEnds(p, how)
      PROVE  Kept
  <2>1. ctx' \in [Probers -> {"live", "deadline", "cancelled"}]
    BY <1>0, <1>7 DEF GroupTypes, Group!ContextEnds
  <2>2. GroupTypes'
    BY <1>0, <1>7, <2>1 DEF GroupTypes, Group!ContextEnds
  <2>3. QED
    BY <1>1, <1>7, <2>2 DEF Group!ContextEnds
<1>8. CASE Group!OwnerEnds
  <2>1. GroupTypes'
    BY <1>0, <1>8 DEF GroupTypes, Group!OwnerEnds
  <2>2. QED
    BY <1>1, <1>8, <2>1 DEF Group!OwnerEnds
<1>9. QED
  BY <1>2, <1>3, <1>4, <1>5, <1>6, <1>7, <1>8

LEMMA GroupStep == ASSUME GroupInv, [Group!Next]_groupVars PROVE Kept
<1>1. CASE Group!Next
  <2>1. 1 \in Group!Member
    BY GroupConstants DEF Group!Member
  <2>2. QED
    BY <1>1, <2>1, BeginKeeps, BindKeeps, ProbeKeeps, SelectKeeps, FinishKeeps,
       MembersKeep, SurroundingsKeep DEF Group!Next
<1>2. CASE UNCHANGED groupVars
  <2>1. GroupTypes' /\ OwnInv'
    BY <1>2 DEF groupVars, GroupInv, GroupTypes, OwnInv
  <2>2. QED
    BY <1>2, <2>1 DEF groupVars, Kept, GroupInv, Group!PassIsEarned,
       Group!EvidenceHolds, Group!FailedResolverStaysOut
<1>3. QED
  BY <1>1, <1>2

LEMMA StepOfGroup == [LeasesNext]_leasesVars => [Group!Next]_groupVars
  BY DEF LeasesNext, leasesVars

\* The invariant of the group holds whichever part of the run moves.
THEOREM GroupInvariance == LeasesSpec => []GroupInv
<1>1. LeasesInit => GroupInv
  BY GroupInit DEF LeasesInit
<1>2. GroupInv /\ [LeasesNext]_leasesVars => GroupInv'
  BY StepOfGroup, GroupStep DEF Kept
<1>3. QED
  BY <1>1, <1>2, PTL DEF LeasesSpec, leasesVars

\* A readiness receipt that says pass was earned stage by stage by its own probe,
\* every stage of it is about the member selected now, a member whose resolver
\* failed is not selected again, and after closeReadinessLocked none says pass:
\* for any number of members, probes, renewals and stages.
THEOREM ReceiptsAreTrue == LeasesSpec => ReceiptIsTrue
<1>1. GroupInv => (part = "group" =>
         Group!PassIsEarned /\ Group!EvidenceHolds /\ Group!FailedResolverStaysOut)
  BY DEF GroupInv
<1>2. GroupInv /\ [LeasesNext]_leasesVars
      => [guard => guard' /\ readiness'.status # "pass"]_(Group!vars)
  BY StepOfGroup, GroupStep DEF Kept
<1>3. QED
  BY <1>1, <1>2, GroupInvariance, PTL
  DEF LeasesSpec, leasesVars, ReceiptIsTrue, Group!GuardIsFinal

\* Every variable of the outbounds, the breaker and the group has its type; the
\* Smart Access outbound has no more flows than MaxConcurrent and no more leases
\* than MaxLeases, and the relay no more attempts in a minute than MaxNew.
THEOREM LeaseTypes == LeasesSpec => []TypesOK
<1>1. LeasesSpec => Spec
  <2>1. LeasesInit => Init
    BY DEF LeasesInit
  <2>2. [LeasesNext]_leasesVars => [Next]_vars
    BY DEF LeasesNext, leasesVars
  <2>3. QED
    BY <2>1, <2>2, PTL DEF LeasesSpec, leasesVars, Spec
<1>2. GroupInv => Group!TypeOK
  <2> SUFFICES ASSUME GroupInv PROVE Group!TypeOK
    OBVIOUS
  <2>1. readiness \in Receipts
    BY DEF GroupInv, GroupTypes
  <2>2. \A i \in 1 .. Len(readiness.stages) : readiness.stages[i] \in Outcomes
    <3>1. readiness.stages \in Seq(Outcomes)
      BY <2>1, BindingTypes
    <3>2. QED
      BY <3>1
  <2>3. /\ readiness.by \in Probers \cup {0} /\ readiness.status \in Statuses
        /\ readiness.lookup \in BOOLEAN
    BY <2>1 DEF Receipts
  <2>4. QED
    BY <2>2, <2>3 DEF GroupInv, GroupTypes, Group!TypeOK, Group!Nobody, Statuses,
       Outcomes
<1>3. SmartInv => Smart!TypeOK
  BY DEF SmartInv
<1>4. RelayInv => Relay!TypeOK
  BY DEF RelayInv
<1>5. TypeOK /\ SmartInv /\ QuotaInv /\ RelayInv /\ GroupInv => TypesOK
  BY <1>2, <1>3, <1>4 DEF TypesOK, QuotaInv
<1>6. QED
  BY <1>1, <1>5, TypeCorrect, SmartInvariance, QuotasHold, RelayInvariance,
     GroupInvariance, PTL
=============================================================================
