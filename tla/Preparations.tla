----------------------------- MODULE Preparations -----------------------------
(***************************************************************************)
(* The one-use preparations of Telegram outbounds                          *)
(* (src/engine/sing-box/protocol/pokrov/telegramws/admission.go): the      *)
(* signed-catalog preparer registers the options and the fallback graph of *)
(* an outbound under a random identity; an instance that is built binds    *)
(* the graph of its own profile to it, its constructor looks the           *)
(* preparation up, and only the start of the outbound takes it.            *)
(*                                                                         *)
(* Instances are built side by side: by the engine owner, which binds, and *)
(* by a configuration check or a candidate probe, which does not.  Time is *)
(* the monotonic clock; the signed window at the registration is outside.  *)
(***************************************************************************)
EXTENDS Naturals, FiniteSets

CONSTANTS Tokens, Instances, Scopes, Graphs, MaxClock

ASSUME ClockAssumption == MaxClock \in Nat

VARIABLES
    now,      \* the monotonic clock
    values,   \* preparations.values: a function on the tokens it holds
    issued,   \* what was registered under each token so far
    pc,       \* [Instances -> where the instance is]
    inst      \* [Instances -> the profile it is built from]

vars == <<now, values, issued, pc, inst>>

Preparation == [options : Scopes, graph : Graphs, deadline : 0..MaxClock]

Profile == [token : Tokens, options : Scopes, graph : Graphs, bound : BOOLEAN]

(* Types; what is held was registered so.                                  *)
TypeOK ==
    /\ now \in 0..MaxClock
    /\ DOMAIN values \subseteq DOMAIN issued
    /\ \A t \in DOMAIN values : values[t] \in Preparation /\ values[t] = issued[t]
    /\ pc \in [Instances -> {"new", "bound", "built", "started", "refused"}]
    /\ \A i \in Instances : pc[i] # "new" => inst[i] \in Profile

Init == /\ now = 0 /\ values = [t \in {} |-> {}] /\ issued = values
        /\ pc = [i \in Instances |-> "new"] /\ inst = [i \in Instances |-> {}]

-----------------------------------------------------------------------------
Current(t) == t \in DOMAIN values /\ now < values[t].deadline

(* The entries a registration leaves in the map.                           *)
Kept == {t \in DOMAIN values : now < values[t].deadline}

(* RegisterPreparation under an identity never used before.                *)
Register(t, p) ==
    /\ t \notin DOMAIN issued /\ now < p.deadline
    /\ values' = [u \in Kept \cup {t} |-> IF u = t THEN p ELSE values[u]]
    /\ issued' = [u \in DOMAIN issued \cup {t} |-> IF u = t THEN p ELSE issued[u]]
    /\ UNCHANGED <<now, pc, inst>>

BugBound(t, options, graph) == Current(t) /\ values[t].options = options

(* The comparison of BindPreparations.                                     *)
Bound(t, options, graph) ==
    /\ Current(t) /\ values[t].options = options /\ values[t].graph = graph

Takes(i, t, options, graph, bound) ==
    inst' = [inst EXCEPT ![i] = [token |-> t, options |-> options, graph |-> graph,
                                 bound |-> bound]]

Go(i, where) == pc' = [pc EXCEPT ![i] = where]

(* BindPreparations for the profile of a new instance.                     *)
Bind(i, t, options, graph) ==
    /\ pc[i] = "new"
    /\ Takes(i, t, options, graph, TRUE)
    /\ Go(i, IF Bound(t, options, graph) THEN "bound" ELSE "refused")
    /\ UNCHANGED <<now, values, issued>>

(* An instance that is built without binding.                              *)
BuildUnbound(i, t, options, graph) ==
    /\ pc[i] = "new"
    /\ Takes(i, t, options, graph, FALSE)
    /\ Go(i, "bound")
    /\ UNCHANGED <<now, values, issued>>

(* The comparison of peekPreparation.                                      *)
Found(i) == Current(inst[i].token) /\ values[inst[i].token].options = inst[i].options

(* NewOutbound: peekPreparation.                                           *)
Construct(i) ==
    /\ pc[i] = "bound"
    /\ Go(i, IF Found(i) THEN "built" ELSE "refused")
    /\ UNCHANGED <<now, values, issued, inst>>

(* Outbound.Start: consumePreparation takes the entry whether or not it    *)
(* then allows the start.                                                  *)
Start(i) ==
    /\ pc[i] = "built"
    /\ Go(i, IF inst[i].bound /\ Found(i) THEN "started" ELSE "refused")
    /\ values' = [u \in DOMAIN values \ {inst[i].token} |-> values[u]]
    /\ UNCHANGED <<now, issued, inst>>

(* The instance is dropped before the start of its outbound, as after a    *)
(* check, or its fallback is not there or not protected.                   *)
Drop(i) ==
    /\ pc[i] = "built"
    /\ Go(i, "refused")
    /\ UNCHANGED <<now, values, issued, inst>>

Tick == now < MaxClock /\ now' = now + 1 /\ UNCHANGED <<values, issued, pc, inst>>

Next ==
    \/ \E t \in Tokens, p \in Preparation : Register(t, p)
    \/ \E i \in Instances, t \in Tokens, options \in Scopes, graph \in Graphs :
          Bind(i, t, options, graph) \/ BuildUnbound(i, t, options, graph)
    \/ \E i \in Instances : Construct(i) \/ Start(i) \/ Drop(i)
    \/ Tick

Spec == Init /\ [][Next]_vars

-----------------------------------------------------------------------------
(* "Its exact options are consumed once by actual Start"                   *)
(* (admission.go:29): of all the instances that are built from one         *)
(* prepared profile, side by side or after one another, one starts.        *)
OneUse ==
    \A i, j \in Instances :
        (pc[i] = "started" /\ pc[j] = "started" /\ i # j)
            => inst[i].token # inst[j].token

(* "Holding the same token while replacing a referenced leaf/selector      *)
(* cannot bypass prepare" (admission.go:90): what starts has the options   *)
(* and the fallback graph that were registered, within their lifetime,     *)
(* however long ago it was bound.                                          *)
StartsAsPrepared ==
    [][\A i \in Instances : pc[i] # "started" /\ pc'[i] = "started" =>
          LET r == inst[i]
          IN  /\ issued[r.token].options = r.options /\ issued[r.token].graph = r.graph
              /\ now < issued[r.token].deadline]_vars

(* "CheckConfig does not consume permission" (architecture.md:152): a      *)
(* preparation that has not expired is lost only to a start, never to a    *)
(* check, a bind that is refused or another registration.                  *)
LostOnlyToStart ==
    [][\A t \in DOMAIN values \ DOMAIN values' :
          \/ now >= values[t].deadline
          \/ \E i \in Instances : /\ pc[i] = "built" /\ inst[i].token = t
                                  /\ pc'[i] # "built"]_vars
=============================================================================
