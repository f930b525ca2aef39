---------------------------- MODULE ServiceGroup ----------------------------
(***************************************************************************)
(* ServiceLeaseGroup of protocol/pokrov/smartaccess: the provider order of *)
(* one service, its sticky selection, and the readiness receipt that       *)
(* ProbeServiceReadiness fills in while rules, renewals, revocations and   *)
(* further probes go on. Everything below group.mu is one step; a probe    *)
(* takes and releases that mutex many times, and its checks in between     *)
(* (current) may be overtaken at once, so they may turn out either way:    *)
(* what a receipt says rests on what is tested again under the mutex.      *)
(*                                                                         *)
(* The receipt belongs to the last probe begun. A probe that is replaced   *)
(* may still observe and finish; group.readiness # probe then refuses it.  *)
(*                                                                         *)
(* A member is an Outbound of module SmartAccess, reduced to whether its   *)
(* current lease admits, which lease that is (gen), and whether it has     *)
(* quota and a relay left. catalogRuleWindow of route/rule binds the two   *)
(* rule windows (dns, route) of each member and unbinds them when closed;  *)
(* the pair stands as one, as current as the worse of the two.             *)
(***************************************************************************)
EXTENDS Naturals, Sequences, FiniteSets

CONSTANTS
    Members,     \* how many providers, in the coordinator's order: 1, 2, ...
    Probers,     \* calls of ProbeServiceReadiness
    MaxGen,      \* bound: renewals of one member
    MaxStages    \* bound: stages in one receipt

\* Zero stands for no member and for no probe.
ServiceGroupAssumption ==
    /\ Members \in Nat \ {0} /\ MaxGen \in Nat /\ MaxStages \in Nat
    /\ 0 \notin Probers

VARIABLES
    admits, gen, spare,     \* of each member: lease admits, its identity, quota
    windows,                \* its two rule windows: current, expired, unbound
    resolver,               \* members whose transport the manager still has
    selected, dnsFailed, guard, readiness,
    pc, mine,               \* of each probe: where it is, the binding it captured
    ctx,                    \* its context: live, deadline, cancelled
    owner                   \* the context of the outbound is alive

members == <<admits, gen, spare, windows, resolver>>
group == <<selected, dnsFailed, guard, readiness>>
vars == <<members, group, pc, mine, ctx, owner>>

Member == 1 .. Members
Nobody == 0
Unbound == [member |-> Nobody, gen |-> 0]
Passed == [s \in {"resolver", "dns", "tls"} |-> [stage |-> s, result |-> "pass"]]
Outcome(stage, ok) ==
    [stage |-> stage, result |-> IF ok THEN "pass" ELSE "failure"]

\* group.readiness; `by` is the identity of the probe object.
NoReceipt == [by |-> Nobody, binding |-> Unbound, status |-> "none",
              stages |-> <<>>, lookup |-> FALSE]
GoTo(p, where) == pc' = [pc EXCEPT ![p] = where]

Init ==
    /\ admits = [m \in Member |-> TRUE] /\ gen = [m \in Member |-> 0]
    /\ spare = [m \in Member |-> TRUE]
    /\ windows = [m \in Member |-> "current"]
    /\ resolver = Member
    /\ selected = 1 /\ dnsFailed = {} /\ guard = FALSE
    /\ readiness = NoReceipt
    /\ pc = [p \in Probers |-> "idle"]
    /\ mine = [p \in Probers |-> Unbound]
    /\ ctx = [p \in Probers |-> "live"]
    /\ owner = TRUE

-----------------------------------------------------------------------------
(* The helpers that run with group.mu held.                                *)

\* readinessBindingCurrentLocked
BindingCurrent(r) ==
    LET m == r.binding.member IN
    /\ owner /\ m # Nobody /\ selected = m
    /\ gen[m] = r.binding.gen /\ admits[m]
    /\ m \in resolver
    /\ windows[m] = "current"

\* readinessCurrentLocked
ReceiptCurrent(r) ==
    ~(r.status = "pending" /\ ctx[r.by] # "live") /\ BindingCurrent(r)

\* retainResolverDeadlineLocked: a lookup that ran into its deadline is kept
\* as a failed stage.
Retained(r) ==
    IF /\ ~guard /\ r.status = "pending" /\ r.lookup /\ r.stages = <<>>
       /\ ctx[r.by] = "deadline" /\ BindingCurrent(r)
    THEN [r EXCEPT !.stages = <<Outcome("resolver", FALSE)>>] ELSE r

\* closeReadinessLocked: nothing without a receipt, else a pass is withdrawn.
CloseReadiness(r) ==
    IF r.by = Nobody THEN UNCHANGED <<guard, readiness>>
    ELSE guard' = TRUE /\ readiness' = [r EXCEPT !.status = "failure"]

CloseReadinessIf(test, r) ==
    IF test THEN CloseReadiness(r) ELSE UNCHANGED <<guard, readiness>>

Available(m) == m \notin dnsFailed /\ admits[m] /\ spare[m]

\* Selected: sticky, else the first in the coordinator's order.
NextSelection ==
    IF selected # Nobody /\ Available(selected) THEN selected
    ELSE IF \E m \in Member : Available(m)
    THEN CHOOSE m \in Member :
            Available(m) /\ \A k \in Member : Available(k) => m <= k
    ELSE Nobody

Selected ==
    /\ selected' = NextSelection
    /\ CloseReadinessIf(readiness.binding.member \notin {Nobody, selected'},
                        readiness)
    /\ UNCHANGED dnsFailed

-----------------------------------------------------------------------------
(* ProbeServiceReadiness.                                                  *)

\* Mutant: a new probe opens the guard again.
BugBegin(p) ==
    /\ pc[p] = "idle"
    /\ guard' = FALSE
    /\ readiness' = [NoReceipt EXCEPT !.by = p, !.status = "pending",
                                      !.binding = readiness.binding]
    /\ GoTo(p, "select")
    /\ UNCHANGED <<members, selected, dnsFailed, mine, ctx, owner>>

\* beginReadiness: the guard is kept, and kept bound to the last binding.
Begin(p) ==
    /\ pc[p] = "idle"
    /\ guard' = (guard \/ /\ readiness.binding.member # Nobody
                          /\ ~ReceiptCurrent(readiness))
    /\ readiness' = [NoReceipt EXCEPT !.by = p, !.status = "pending",
                                      !.binding = readiness.binding]
    /\ GoTo(p, "select")
    /\ UNCHANGED <<members, selected, dnsFailed, mine, ctx, owner>>

\* Contexts are tested, a member is selected and its lease identity read.
Select(p) ==
    /\ pc[p] = "select"
    /\ \/ /\ ctx[p] # "live" \/ ~owner
          /\ GoTo(p, "failed")
          /\ UNCHANGED <<group, mine>>
       \/ /\ ctx[p] = "live" /\ owner
          /\ Selected
          /\ IF selected' = Nobody
             THEN GoTo(p, "failed") /\ UNCHANGED mine
             ELSE /\ GoTo(p, "bind")
                  /\ mine' = [mine EXCEPT ![p] =
                        [member |-> selected', gen |-> gen[selected']]]
    /\ UNCHANGED <<members, ctx, owner>>

\* bindReadiness; out of scope the probe ends here.
Bind(p) ==
    /\ pc[p] = "bind"
    /\ readiness' = IF readiness.by = p
                    THEN [readiness EXCEPT !.binding = mine[p]] ELSE readiness
    /\ \E next \in {"check", "failed"} : GoTo(p, next)
    /\ UNCHANGED <<members, selected, dnsFailed, guard, mine, ctx, owner>>

\* current(true) asks for the selection once more, then beginResolverLookup.
Check(p) ==
    /\ pc[p] = "check"
    /\ Selected
    /\ \E next \in {"enter", "failed"} : GoTo(p, next)
    /\ UNCHANGED <<members, mine, ctx, owner>>

BeginLookup(p) ==
    /\ pc[p] = "enter"
    /\ readiness' = IF /\ readiness.by = p /\ readiness.status = "pending"
                       /\ ReceiptCurrent(readiness)
                    THEN [readiness EXCEPT !.lookup = TRUE] ELSE readiness
    /\ GoTo(p, "lookup")
    /\ UNCHANGED <<members, selected, dnsFailed, guard, mine, ctx, owner>>

\* observeReadiness
Observe(p, stage, ok) ==
    LET r == [readiness EXCEPT !.stages = Append(@, Outcome(stage, ok))] IN
    IF readiness.by # p THEN UNCHANGED <<guard, readiness>>
    ELSE IF ctx[p] # "live" \/ ~ReceiptCurrent(readiness)
    THEN CloseReadiness(Retained(readiness))
    ELSE IF ok THEN readiness' = r /\ UNCHANGED guard ELSE CloseReadiness(r)

\* The observer the DNS client calls when the resolver has answered.
ObserveResolver(p) ==
    /\ pc[p] = "lookup" /\ Len(readiness.stages) < MaxStages
    /\ \E ok \in BOOLEAN : Observe(p, "resolver", ok)
    /\ UNCHANGED <<members, selected, dnsFailed, pc, mine, ctx, owner>>

\* finishResolverLookup, then current(false), which selects nothing.
LookupReturns(p) ==
    /\ pc[p] = "lookup"
    /\ readiness' = IF readiness.by = p /\ ctx[p] = "live"
                    THEN [readiness EXCEPT !.lookup = FALSE] ELSE readiness
    /\ \E next \in {"recheck", "dns_error", "failed"} : GoTo(p, next)
    /\ UNCHANGED <<members, selected, dnsFailed, guard, mine, ctx, owner>>

Recheck(p) ==
    /\ pc[p] = "recheck"
    /\ Selected
    /\ \E next \in {"dns_ok", "dns_error", "failed"} : GoTo(p, next)
    /\ UNCHANGED <<members, mine, ctx, owner>>

ObserveDNS(p) ==
    /\ pc[p] \in {"dns_ok", "dns_error"}
    /\ Observe(p, "dns", pc[p] = "dns_ok")
    /\ GoTo(p, IF pc[p] = "dns_ok" THEN "handshake" ELSE "failed")
    /\ UNCHANGED <<members, selected, dnsFailed, mine, ctx, owner>>

\* The handshake ends; only a success asks for the selection again.
Handshake(p) ==
    /\ pc[p] = "handshake"
    /\ \/ Selected /\ GoTo(p, "tls_ok")
       \/ UNCHANGED group /\ (GoTo(p, "tls_error") \/ GoTo(p, "failed"))
    /\ UNCHANGED <<members, mine, ctx, owner>>

ObserveTLS(p) ==
    /\ pc[p] \in {"tls_ok", "tls_error"}
    /\ Observe(p, "tls", pc[p] = "tls_ok")
    /\ GoTo(p, IF pc[p] = "tls_ok" THEN "succeeded" ELSE "failed")
    /\ UNCHANGED <<members, selected, dnsFailed, mine, ctx, owner>>

\* finishReadiness
Finish(p) ==
    /\ pc[p] \in {"succeeded", "failed"}
    /\ IF readiness.by # p THEN UNCHANGED <<guard, readiness>>
       ELSE IF /\ pc[p] = "succeeded" /\ ctx[p] = "live" /\ ~guard
               /\ ReceiptCurrent(readiness)
               /\ readiness.stages =
                     <<Passed["resolver"], Passed["dns"], Passed["tls"]>>
       THEN readiness' = [readiness EXCEPT !.status = "pass"] /\ UNCHANGED guard
       ELSE CloseReadiness(Retained(readiness))
    /\ GoTo(p, "ended")
    /\ UNCHANGED <<members, selected, dnsFailed, mine, ctx, owner>>

-----------------------------------------------------------------------------
(* Rules, resolvers and the host.                                          *)

RuleWalk == Selected /\ UNCHANGED <<members, pc, mine, ctx, owner>>

ObserveScopedRuleBypass(m) ==
    /\ CloseReadinessIf(readiness.binding.member = m, readiness)
    /\ UNCHANGED <<members, selected, dnsFailed, pc, mine, ctx, owner>>

DNSFailed(m) ==
    /\ CloseReadinessIf(readiness.binding.member = m, readiness)
    /\ admits' = [admits EXCEPT ![m] = FALSE]
    /\ dnsFailed' = dnsFailed \cup {m}
    /\ selected' = IF selected = m THEN Nobody ELSE selected
    /\ UNCHANGED <<gen, spare, windows, resolver, pc, mine, ctx, owner>>

\* ReadServiceLeaseSelection
ReadSelection ==
    /\ readiness.binding.member # Nobody /\ ~ReceiptCurrent(readiness)
    /\ CloseReadiness(Retained(readiness))
    /\ UNCHANGED <<members, selected, dnsFailed, pc, mine, ctx, owner>>

\* catalogCurrent latches an expired catalog; closeProbe latches it too and
\* unbinds the window afterwards.
CatalogExpires(m) ==
    /\ windows[m] = "current"
    /\ windows' = [windows EXCEPT ![m] = "expired"]
    /\ UNCHANGED <<admits, gen, spare, resolver, group, pc, mine, ctx, owner>>

CloseProbe(m) ==
    /\ windows[m] = "expired"
    /\ CloseReadinessIf(readiness.binding.member = m, readiness)
    /\ windows' = [windows EXCEPT ![m] = "unbound"]
    /\ UNCHANGED <<admits, gen, spare, resolver, selected, dnsFailed, pc, mine,
                   ctx, owner>>

LeaseStops(m) ==
    /\ admits[m]
    /\ admits' = [admits EXCEPT ![m] = FALSE]
    /\ UNCHANGED <<gen, spare, windows, resolver, group, pc, mine, ctx,
                   owner>>

RenewLease(m) ==
    /\ gen[m] < MaxGen
    /\ gen' = [gen EXCEPT ![m] = @ + 1]
    /\ admits' = [admits EXCEPT ![m] = TRUE]
    /\ UNCHANGED <<spare, windows, resolver, group, pc, mine, ctx, owner>>

QuotaChanges(m) ==
    /\ spare' = [spare EXCEPT ![m] = ~@]
    /\ UNCHANGED <<admits, gen, windows, resolver, group, pc, mine, ctx,
                   owner>>

TransportGoes(m) ==
    /\ m \in resolver
    /\ resolver' = resolver \ {m}
    /\ UNCHANGED <<admits, gen, spare, windows, group, pc, mine, ctx,
                   owner>>

ContextEnds(p, how) ==
    /\ ctx[p] = "live" /\ pc[p] # "ended"
    /\ ctx' = [ctx EXCEPT ![p] = how]
    /\ UNCHANGED <<members, group, pc, mine, owner>>

OwnerEnds ==
    /\ owner /\ owner' = FALSE
    /\ UNCHANGED <<members, group, pc, mine, ctx>>

Next ==
    \/ \E p \in Probers :
          \/ Begin(p) \/ Select(p) \/ Bind(p) \/ Check(p) \/ BeginLookup(p)
          \/ ObserveResolver(p) \/ LookupReturns(p) \/ Recheck(p)
          \/ ObserveDNS(p) \/ Handshake(p) \/ ObserveTLS(p) \/ Finish(p)
          \/ \E how \in {"deadline", "cancelled"} : ContextEnds(p, how)
    \/ RuleWalk \/ ReadSelection \/ OwnerEnds
    \/ \E m \in Member :
          \/ ObserveScopedRuleBypass(m) \/ DNSFailed(m)
          \/ LeaseStops(m) \/ RenewLease(m) \/ QuotaChanges(m) \/ TransportGoes(m)
          \/ CatalogExpires(m) \/ CloseProbe(m)

Spec == Init /\ [][Next]_vars

-----------------------------------------------------------------------------
(* Properties.                                                             *)

\* Every variable has its type.
TypeOK ==
    /\ admits \in [Member -> BOOLEAN] /\ spare \in [Member -> BOOLEAN]
    /\ gen \in [Member -> 0 .. MaxGen]
    /\ windows \in [Member -> {"current", "expired", "unbound"}]
    /\ resolver \subseteq Member /\ dnsFailed \subseteq Member
    /\ selected \in Member \cup {Nobody} /\ guard \in BOOLEAN /\ owner \in BOOLEAN
    /\ readiness.by \in Probers \cup {Nobody}
    /\ readiness.status \in {"none", "pending", "pass", "failure"}
    /\ readiness.lookup \in BOOLEAN
    /\ \A i \in 1 .. Len(readiness.stages) :
          readiness.stages[i] \in [stage : {"resolver", "dns", "tls"},
                                   result : {"pass", "failure"}]
    /\ ctx \in [Probers -> {"live", "deadline", "cancelled"}]

\* A receipt that says pass was earned: the three stages were observed in
\* order by the probe that owns the receipt, and every one of them passed.
PassIsEarned ==
    readiness.status = "pass" =>
        /\ readiness.stages = <<Passed["resolver"], Passed["dns"], Passed["tls"]>>
        /\ pc[readiness.by] = "ended" /\ mine[readiness.by] = readiness.binding

\* A pass, and every stage of a probe under way, is about the member that is
\* selected now and whose rule windows are still bound: whatever moves the
\* selection, fails the resolver or unbinds a window withdraws the receipt.
EvidenceHolds ==
    readiness.status = "pass" \/ (readiness.status = "pending" /\ readiness.stages # <<>>)
        => /\ readiness.binding.member = selected
           /\ selected # Nobody
           /\ windows[selected] # "unbound"

\* "The closed guard survives later probes": once it has closed no receipt of
\* this group says pass again.
GuardIsFinal == [][guard => guard' /\ readiness'.status # "pass"]_vars

\* A member whose resolver has failed is not selected again, not even after a
\* renewal of its lease.
FailedResolverStaysOut == selected \notin dnsFailed
=============================================================================
