---------------------------- MODULE FallbackGraph ----------------------------
(***************************************************************************)
(* The three walks over a profile's outbounds that decide whether a VPN    *)
(* outbound may serve as the encrypted fallback of an offload: the check   *)
(* of the Telegram outbound at its start (telegramws/outbound.go), that of *)
(* the local DPI outbound (localdpi/outbound.go), and FallbackDefinitions  *)
(* (telegramws/admission.go), with which the preparation of a profile      *)
(* binds everything the fallback may use.                                  *)
(*                                                                         *)
(* A profile is built one outbound at a time, so that the walks meet tags  *)
(* that are not defined.  Kinds: "naive" (protected H2), "vless" (with     *)
(* TLS), "carried" (plaintext VLESS of the form a DNS carrier accepts),    *)
(* "exit" (Hysteria2, WireGuard, AWG), "raw" (a DNS carrier by itself),    *)
(* "group" (selector, URL test), "lease" (the ATS wrapper), "other".       *)
(***************************************************************************)
EXTENDS Naturals, Sequences, SequencesExt, Relation

CONSTANTS Tags, MaxMembers

NoTag == "none"

TagsAssumption == NoTag \notin Tags /\ MaxMembers \in Nat

VARIABLE graph

Members == SeqOf(Tags, MaxMembers)

Node(kind, detour, members) == [kind |-> kind, detour |-> detour, members |-> members]

Nodes == {Node(k, NoTag, <<>>) : k \in {"naive", "raw", "other"}}
         \cup {Node(k, d, <<>>) : k \in {"vless", "carried", "exit"}, d \in Tags \cup {NoTag}}
         \cup {Node(k, NoTag, ms) : k \in {"group", "lease"}, ms \in Members}

Init == graph = [t \in {} |-> Node("other", NoTag, <<>>)]

(* An outbound with a tag of its own; a second one of the same tag is      *)
(* refused when the profile is read.                                       *)
Define(t, node) ==
    /\ t \notin DOMAIN graph
    /\ graph' = [u \in DOMAIN graph \cup {t} |-> IF u = t THEN node ELSE graph[u]]

Next == \E t \in Tags, node \in Nodes : Define(t, node)

Spec == Init /\ [][Next]_graph

-----------------------------------------------------------------------------
(* Adapter.Dependencies of the constructed outbound.                       *)
Dependencies(g, t) == ToSet(g[t].members) \cup ({g[t].detour} \ {NoTag})

Is(g, t, kinds) == t \in DOMAIN g /\ g[t].kind \in kinds

Leaves == {"naive", "vless", "carried", "exit"}

(* telegramws.protectedFallback; `seen` holds the tags on the current path *)
(* only, so a member of two groups is looked at twice.                     *)
ProtectedFallback(g, target) ==
    LET protected[t \in Tags, seen \in SUBSET Tags] ==
            /\ t \notin seen
            /\ \/ Is(g, t, Leaves)
               \/ /\ Is(g, t, {"group"}) /\ g[t].members # <<>>
                  /\ \A u \in ToSet(g[t].members) : protected[u, seen \cup {t}]
    IN  protected[target, {}]

(* localdpi.protectedFallback, which also follows leases and the detours   *)
(* of the exits.  A DNS carrier passes only as the detour of a VLESS.      *)
LocalFallback(g, target) ==
    LET protected[t \in Tags, seen \in SUBSET Tags] ==
            /\ t \notin seen
            /\ \/ Is(g, t, {"naive"})
               \/ /\ \/ Is(g, t, {"vless", "carried", "exit"})
                     \/ Is(g, t, {"group", "lease"}) /\ g[t].members # <<>>
                  /\ \A u \in Dependencies(g, t) :
                        \/ g[t].kind \in {"vless", "carried"} /\ Is(g, u, {"raw"})
                        \/ protected[u, seen \cup {t}]
    IN  protected[target, {}]

(* The node itself, without the members of a group: accepted or not, and   *)
(* the carrier it brings along.                                            *)
Carrier(g, t) == {u \in {g[t].detour} : g[t].kind = "carried" /\ Is(g, u, {"raw"})}

OwnOptions(g, t) ==
    \/ g[t].kind \in {"naive", "vless", "exit"} /\ g[t].detour = NoTag
    \/ Carrier(g, t) # {}
    \/ g[t].kind = "group" /\ g[t].members # <<>>

Walk == [ok : BOOLEAN, defs : SUBSET Tags]

\* Mutant: the carriers are not bound.
BugFallbackDefinitions(g, target) ==
    LET visit[t \in Tags, visiting \in SUBSET Tags, walk \in Walk] ==
            IF ~walk.ok \/ (t \in walk.defs /\ t \notin visiting) THEN walk
            ELSE IF t \in visiting \/ t \notin DOMAIN g \/ ~OwnOptions(g, t)
            THEN [walk EXCEPT !.ok = FALSE]
            ELSE FoldLeft(LAMBDA w, u : visit[u, visiting \cup {t}, w],
                          [walk EXCEPT !.defs = @ \cup {t}], g[t].members)
    IN  visit[target, {}, [ok |-> TRUE, defs |-> {}]]

(* FallbackDefinitions: the tags whose definitions are bound, if any. Its  *)
(* visit takes the members in their order, each of which may find itself   *)
(* defined by an earlier one.  A failure ends the walk.                    *)
FallbackDefinitions(g, target) ==
    LET visit[t \in Tags, visiting \in SUBSET Tags, walk \in Walk] ==
            IF ~walk.ok \/ (t \in walk.defs /\ t \notin visiting) THEN walk
            ELSE IF t \in visiting \/ t \notin DOMAIN g \/ ~OwnOptions(g, t)
            THEN [walk EXCEPT !.ok = FALSE]
            ELSE LET after == FoldLeft(LAMBDA w, u : visit[u, visiting \cup {t}, w],
                                       [walk EXCEPT !.defs = @ \cup Carrier(g, t)],
                                       g[t].members)
                 IN  [after EXCEPT !.defs = @ \cup {t}]
    IN  visit[target, {}, [ok |-> TRUE, defs |-> {}]]

-----------------------------------------------------------------------------
(* References: what the walks should say, by reachability.                 *)

Reaches(g, edge(_, _)) ==
    TransitiveClosure([x, y \in Tags |-> x \in DOMAIN g /\ edge(x, y)], Tags)

From(r, t) == {t} \cup {u \in Tags : r[t, u]}

(* "A selector must not acquire a Direct fallback after the host changes   *)
(* its selected candidate" (telegramws/outbound.go:175): the start accepts *)
(* exactly the targets from which every chain of groups ends in encrypted  *)
(* exits, without a loop, an empty group or a tag that is not there.       *)
StartFollowsGroups ==
    LET r == Reaches(graph, LAMBDA x, y : y \in ToSet(graph[x].members)
                                          /\ graph[x].kind = "group")
    IN  \A t \in Tags :
           ProtectedFallback(graph, t)
              <=> /\ \A u \in From(r, t) :
                        \/ Is(graph, u, Leaves)
                        \/ Is(graph, u, {"group"}) /\ graph[u].members # <<>>
                  /\ \A u \in From(r, t) : ~r[u, u]

(* The local DPI outbound follows "encrypted bridge detours and the        *)
(* existing pokrov-ats-lease wrapper recursively, rejecting cycles and     *)
(* unprotected paths" (architecture.md:186): whatever a stream can pass    *)
(* through is protected, and a DNS carrier is met only below a VLESS.      *)
LocalFollowsDetours ==
    LET below(x, y) == y \in Dependencies(graph, x)
                       /\ ~(graph[x].kind \in {"vless", "carried"} /\ Is(graph, y, {"raw"}))
        r == Reaches(graph, below)
    IN  \A t \in Tags :
           LocalFallback(graph, t)
              <=> /\ \A u \in From(r, t) :
                        \/ Is(graph, u, Leaves)
                        \/ Is(graph, u, {"group", "lease"}) /\ graph[u].members # <<>>
                  /\ \A u \in From(r, t) : ~r[u, u]

(* A prepared fallback is bound as a whole: the definitions are exactly    *)
(* those of the target, of everything its groups can select and of their   *)
(* carriers, so that no part of it can be exchanged between the            *)
(* preparation and the start (admission.go:90); and each is acceptable     *)
(* where it stands, or the carrier of one that is.                         *)
BoundAsAWhole ==
    LET below(x, y) == (graph[x].kind = "group" /\ y \in ToSet(graph[x].members))
                       \/ y \in Carrier(graph, x)
        r == Reaches(graph, below)
    IN  \A t \in Tags :
           LET found == FallbackDefinitions(graph, t)
           IN  found.ok =>
                  /\ found.defs = From(r, t)
                  /\ \A u \in found.defs :
                        \/ OwnOptions(graph, u)
                        \/ \E x \in found.defs : u \in Carrier(graph, x)
=============================================================================
