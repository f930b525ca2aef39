---------------------------- MODULE RelayConnect ----------------------------
(***************************************************************************)
(* The relay circuit breaker of the Smart Access outbound                  *)
(* (protocol/pokrov/smartaccess/relay_connect.go). Flows dial relays       *)
(* concurrently; reserveRelay and completeRelay run under h.mu and the     *)
(* dial between them does not, so an answer meets whatever the breaker has *)
(* become. An epoch tells a dial of this opening from a late one, and      *)
(* `probing` admits one half-open dial at a time.                          *)
(*                                                                         *)
(* Instants are abstracted to what the code asks of them: how many         *)
(* failures are still in their window, how many attempts in the last       *)
(* minute, and whether a cooldown is over. Whether the lease admits is the *)
(* business of SmartAccess: here it may stop doing so at any time.         *)
(***************************************************************************)
EXTENDS Naturals, FiniteSets

CONSTANTS
    Flows,
    Relays,            \* len(h.relays); relays are 0 .. Relays - 1
    FailureThreshold,
    MaxAttempts,       \* dials of one flow
    MaxNew,            \* h.maxNew, attempts of all flows in a minute
    MaxEpoch           \* bound: openings and closings of one breaker

RelayConnectAssumption ==
    /\ Relays \in Nat \ {0} /\ FailureThreshold \in Nat \ {0}
    /\ MaxAttempts \in Nat \ {0} /\ MaxNew \in Nat \ {0} /\ MaxEpoch \in Nat

VARIABLES
    admitting,     \* the lease still admits
    attempts,      \* len(h.attempts), expired ones left out
    preferred,     \* h.preferredRelay
    failures,      \* failures of a relay that are still in the window
    open,          \* openUntil: "zero", "cooling" or "elapsed"
    probing, epoch,
    pc,            \* idle, asking, dialing, answered, connected, failed
    visited,       \* relays the flow has tried
    ticket,        \* what its last reserveRelay returned
    answer,        \* what its dial returned
    cancelled      \* flows whose context is dead

breaker == <<failures, open, probing, epoch, preferred>>
flowVars == <<pc, visited, ticket, answer>>
vars == <<admitting, attempts, breaker, flowVars, cancelled>>

Index == 0 .. Relays - 1
Tickets == [relay : Index, epoch : Nat, probe : BOOLEAN]
NoTicket == [relay |-> 0, epoch |-> 0, probe |-> FALSE]
GoTo(f, where) == pc' = [pc EXCEPT ![f] = where]

Init ==
    /\ admitting = TRUE /\ attempts = 0 /\ preferred = 0
    /\ failures = [r \in Index |-> 0]
    /\ open = [r \in Index |-> "zero"]
    /\ probing = [r \in Index |-> FALSE]
    /\ epoch = [r \in Index |-> 0]
    /\ pc = [f \in Flows |-> "idle"]
    /\ visited = [f \in Flows |-> {}]
    /\ ticket = [f \in Flows |-> NoTicket]
    /\ answer = [f \in Flows |-> "none"]
    /\ cancelled = {}

-----------------------------------------------------------------------------
\* newConnection charges the first attempt of a flow. A name stands for one
\* connection after the other.
Begin(f) ==
    /\ pc[f] \in {"idle", "connected", "failed"}
    /\ \/ /\ admitting /\ attempts < MaxNew
          /\ attempts' = attempts + 1
          /\ GoTo(f, "asking")
       \/ /\ ~admitting \/ attempts >= MaxNew
          /\ GoTo(f, "failed")
          /\ UNCHANGED attempts
    /\ visited' = [visited EXCEPT ![f] = {}]
    /\ cancelled' = cancelled \ {f}
    /\ UNCHANGED <<admitting, breaker, ticket, answer>>

\* A relay may be dialled unless its breaker is open; an opened one whose
\* cooldown is over takes one probe at a time.
Usable(f, r) ==
    /\ r \notin visited[f]
    /\ open[r] = "zero" \/ (open[r] = "elapsed" /\ ~probing[r])

\* The first usable relay in the order that starts at the preferred one.
Offset(r) == (r + Relays - preferred) % Relays
Chosen(f) ==
    {r \in Index : /\ Usable(f, r)
                   /\ \A s \in Index : Usable(f, s) => Offset(r) <= Offset(s)}

Extra(f) == visited[f] # {}

MayReserve(f) ==
    /\ f \notin cancelled /\ admitting
    /\ Cardinality(visited[f]) < MaxAttempts
    /\ Extra(f) => attempts < MaxNew

reserveRelay(f) ==
    /\ pc[f] = "asking" /\ MayReserve(f)
    /\ \A r \in Index : epoch[r] < MaxEpoch
    /\ \E r \in Chosen(f) :
          LET probe == open[r] # "zero" IN
          /\ probing' = [probing EXCEPT ![r] = @ \/ probe]
          /\ ticket' = [ticket EXCEPT ![f] =
                [relay |-> r, epoch |-> epoch[r], probe |-> probe]]
          /\ visited' = [visited EXCEPT ![f] = @ \cup {r}]
    /\ attempts' = IF Extra(f) THEN attempts + 1 ELSE attempts
    /\ GoTo(f, "dialing")
    /\ UNCHANGED <<admitting, failures, open, epoch, preferred, answer,
                   cancelled>>

\* The context is dead, the attempts are used up, or no relay is usable.
GiveUp(f) ==
    /\ pc[f] = "asking"
    /\ ~MayReserve(f) \/ Chosen(f) = {}
    /\ GoTo(f, "failed")
    /\ UNCHANGED <<admitting, attempts, breaker, visited, ticket, answer,
                   cancelled>>

\* The dial answers, and the goroutine looks at both contexts: an error and
\* an answer after the timeout of the attempt are the same failure.
DialReturns(f) ==
    /\ pc[f] = "dialing"
    /\ \E a \in IF f \in cancelled THEN {"cancelled"} ELSE {"ok", "bad"} :
          answer' = [answer EXCEPT ![f] = a]
    /\ GoTo(f, "answered")
    /\ UNCHANGED <<admitting, attempts, breaker, visited, ticket, cancelled>>

-----------------------------------------------------------------------------
(* completeRelay, and what connectRelay makes of its answer.               *)

\* The flow takes the socket, closes it and tries again, or gives up; ticket
\* and answer go out of scope.
Settle(f, accepted) ==
    /\ GoTo(f, IF accepted /\ f \notin cancelled THEN "connected"
               ELSE IF answer[f] = "cancelled" THEN "failed" ELSE "asking")
    /\ ticket' = [ticket EXCEPT ![f] = NoTicket]
    /\ answer' = [answer EXCEPT ![f] = "none"]

\* An answer of an older epoch changes nothing.
LateAnswer(f) ==
    /\ pc[f] = "answered" /\ epoch[ticket[f].relay] # ticket[f].epoch
    /\ Settle(f, FALSE)
    /\ UNCHANGED <<admitting, attempts, breaker, visited,
                   cancelled>>

\* The probe of this answer, if it is one, is over.
Released(f) ==
    [probing EXCEPT ![ticket[f].relay] = @ /\ ~ticket[f].probe]

\* Mutant: the probe of a cancelled flow is not handed back.
BugCancelledAnswer(f) ==
    /\ pc[f] = "answered" /\ epoch[ticket[f].relay] = ticket[f].epoch
    /\ answer[f] = "cancelled"
    /\ Settle(f, FALSE)
    /\ UNCHANGED <<admitting, attempts, breaker, visited,
                   cancelled>>

\* A cancellation by the user or the lease is no failure of the relay.
CancelledAnswer(f) ==
    /\ pc[f] = "answered" /\ epoch[ticket[f].relay] = ticket[f].epoch
    /\ answer[f] = "cancelled"
    /\ probing' = Released(f)
    /\ Settle(f, FALSE)
    /\ UNCHANGED <<admitting, attempts, failures, open, epoch, preferred,
                   visited, cancelled>>

Success(f) ==
    /\ pc[f] = "answered" /\ epoch[ticket[f].relay] = ticket[f].epoch
    /\ answer[f] = "ok"
    /\ LET r == ticket[f].relay IN
       /\ probing' = Released(f)
       /\ failures' = [failures EXCEPT ![r] = 0]
       /\ open' = [open EXCEPT ![r] = IF ticket[f].probe THEN "zero" ELSE @]
       /\ epoch' = [epoch EXCEPT ![r] = IF ticket[f].probe THEN @ + 1 ELSE @]
       /\ preferred' = r
    /\ Settle(f, TRUE)
    /\ UNCHANGED <<admitting, attempts, visited, cancelled>>

\* Mutant: a failure opens the breaker without starting another epoch.
BugFailure(f) ==
    /\ pc[f] = "answered" /\ epoch[ticket[f].relay] = ticket[f].epoch
    /\ answer[f] = "bad"
    /\ LET r == ticket[f].relay
           opens == ticket[f].probe \/ failures[r] + 1 >= FailureThreshold
       IN
       /\ probing' = Released(f)
       /\ failures' = [failures EXCEPT ![r] = IF opens THEN 0 ELSE @ + 1]
       /\ open' = [open EXCEPT ![r] = IF opens THEN "cooling" ELSE @]
    /\ Settle(f, FALSE)
    /\ UNCHANGED <<admitting, attempts, epoch, preferred, visited, cancelled>>

Failure(f) ==
    /\ pc[f] = "answered" /\ epoch[ticket[f].relay] = ticket[f].epoch
    /\ answer[f] = "bad"
    /\ LET r == ticket[f].relay
           opens == ticket[f].probe \/ failures[r] + 1 >= FailureThreshold
       IN
       /\ probing' = Released(f)
       /\ failures' = [failures EXCEPT ![r] = IF opens THEN 0 ELSE @ + 1]
       /\ open' = [open EXCEPT ![r] = IF opens THEN "cooling" ELSE @]
       /\ epoch' = [epoch EXCEPT ![r] = IF opens THEN @ + 1 ELSE @]
    /\ Settle(f, FALSE)
    /\ UNCHANGED <<admitting, attempts, preferred, visited,
                   cancelled>>

Complete(f) ==
    LateAnswer(f) \/ CancelledAnswer(f) \/ Success(f) \/ Failure(f)

-----------------------------------------------------------------------------
(* Time, users and the lease.                                              *)

Cancel(f) ==
    /\ pc[f] \in {"asking", "dialing", "answered"} /\ f \notin cancelled
    /\ cancelled' = cancelled \cup {f}
    /\ UNCHANGED <<admitting, attempts, breaker, flowVars>>

LeaseEnds ==
    /\ admitting' = FALSE
    /\ UNCHANGED <<attempts, breaker, flowVars, cancelled>>

AttemptExpires ==
    /\ attempts > 0
    /\ attempts' = attempts - 1
    /\ UNCHANGED <<admitting, breaker, flowVars, cancelled>>

FailureExpires(r) ==
    /\ failures[r] > 0
    /\ failures' = [failures EXCEPT ![r] = @ - 1]
    /\ UNCHANGED <<admitting, attempts, open, probing, epoch, preferred,
                   flowVars, cancelled>>

CooldownEnds(r) ==
    /\ open[r] = "cooling"
    /\ open' = [open EXCEPT ![r] = "elapsed"]
    /\ UNCHANGED <<admitting, attempts, failures, probing, epoch, preferred,
                   flowVars, cancelled>>

Next ==
    \/ \E f \in Flows :
          \/ Begin(f) \/ reserveRelay(f) \/ GiveUp(f) \/ DialReturns(f)
          \/ Complete(f) \/ Cancel(f)
    \/ LeaseEnds \/ AttemptExpires
    \/ \E r \in Index : FailureExpires(r) \/ CooldownEnds(r)

Spec == Init /\ [][Next]_vars

\* Every dial has a timeout, and its answer is dealt with.
Fairness ==
    \A f \in Flows : WF_vars(DialReturns(f)) /\ WF_vars(Complete(f))

FairSpec == Spec /\ Fairness

-----------------------------------------------------------------------------
(* Properties.                                                             *)

Dialing(f) == pc[f] \in {"dialing", "answered"}
Current(f) == ticket[f].epoch = epoch[ticket[f].relay]

\* Every variable has its type; the quota of a minute is never exceeded and a
\* breaker that has seen enough failures is not left closed.
TypeOK ==
    /\ admitting \in BOOLEAN
    /\ attempts \in 0 .. MaxNew
    /\ preferred \in Index
    /\ failures \in [Index -> 0 .. FailureThreshold - 1]
    /\ open \in [Index -> {"zero", "cooling", "elapsed"}]
    /\ probing \in [Index -> BOOLEAN]
    /\ epoch \in [Index -> Nat]
    /\ pc \in [Flows -> {"idle", "asking", "dialing", "answered", "connected",
                         "failed"}]
    /\ visited \in [Flows -> SUBSET Index]
    /\ ticket \in [Flows -> Tickets]
    /\ answer \in [Flows -> {"none", "ok", "bad", "cancelled"}]
    /\ cancelled \subseteq Flows

\* `probing` is set exactly while one dial holds the probe of this opening:
\* although completeRelay returns before it clears the flag when the epoch has
\* moved on, the flag is never left behind and a relay never lost for good.
ProbingIsHeld ==
    \A r \in Index :
        probing[r] <=> \E f \in Flows :
            Dialing(f) /\ Current(f) /\ ticket[f].relay = r /\ ticket[f].probe

\* An opened breaker lets one half-open dial through at a time.
OneProbe ==
    \A f, g \in Flows :
        /\ Dialing(f) /\ Dialing(g) /\ ticket[f].probe /\ ticket[g].probe
        /\ ticket[f].relay = ticket[g].relay
        => f = g

\* "A late success cannot close a breaker opened by a newer failure sequence":
\* a breaker is closed, and a socket handed over, only by a dial that was
\* reserved after the breaker last changed.
LateSuccessIsRefused ==
    [][/\ \A r \in Index : open[r] # "zero" /\ open'[r] = "zero" =>
             \E f \in Flows : /\ pc[f] = "answered" /\ pc'[f] # "answered"
                              /\ ticket[f].relay = r /\ Current(f)
       /\ \A f \in Flows : pc[f] = "answered" /\ pc'[f] = "connected" =>
             /\ Current(f)
             /\ open[ticket[f].relay] # "zero" => ticket[f].probe]_vars

\* A probe is given back, whatever becomes of the flow that made it.
ProbeReturns == \A r \in Index : probing[r] ~> ~probing[r]
=============================================================================
