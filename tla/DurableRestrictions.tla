------------------------ MODULE DurableRestrictions -------------------------
(***************************************************************************)
(* What the restriction journal promises to the backend whose decisions it *)
(* records, whatever crashes and failed writes lie between: durable        *)
(* knowledge of the restrictions that workers applied to running engines.  *)
(*                                                                         *)
(* The knowledge only grows, and only by what a worker really applied.  A  *)
(* worker applies nothing before it is durably marked as one whose work    *)
(* may be incomplete, and the mark is taken away only when the knowledge   *)
(* covers all it applied.  RestrictionJournalProofs shows that the file,   *)
(* the client's ledger and the protocol between them implement it.         *)
(***************************************************************************)
EXTENDS Naturals

CONSTANTS Workers, Profiles, Targets, Levels, Nobody

VARIABLES
  of,       \* worker -> its profile, or Nobody
  applied,  \* worker -> target -> the level it applied
  kept,     \* profile -> target -> the level that is durably known
  unsure    \* workers durably marked as possibly incomplete

durable == <<of, applied, kept, unsure>>

Init ==
  /\ of = [g \in Workers |-> Nobody]
  /\ applied = [g \in Workers |-> [t \in Targets |-> 0]]
  /\ kept = [p \in Profiles |-> [t \in Targets |-> 0]]
  /\ unsure = {}

\* All that worker g applied is known.
Told(g) ==
  \A t \in Targets : applied[g][t] # 0 => applied[g][t] <= kept[of[g]][t]

\* Nothing known is lost, and nothing is made up.
Learns ==
  \A p \in Profiles, t \in Targets :
     \/ kept'[p][t] = kept[p][t]
     \/ /\ kept[p][t] < kept'[p][t]
        /\ \E g \in Workers : of'[g] = p /\ kept'[p][t] <= applied'[g][t]

\* A worker loses its mark when all it did is known.
Releases == \A g \in unsure \ unsure' : Told(g)'

Enlist(g, p) ==
  /\ of[g] = Nobody /\ of' = [of EXCEPT ![g] = p]
  /\ g \in unsure' /\ unsure' \subseteq unsure \cup {g}
  /\ Learns /\ Releases
  /\ UNCHANGED applied

Apply(g, t, level) ==
  /\ g \in unsure
  /\ applied[g][t] <= level /\ applied' = [applied EXCEPT ![g][t] = level]
  /\ UNCHANGED <<of, kept, unsure>>

Settle ==
  /\ unsure' \subseteq unsure
  /\ Learns /\ Releases
  /\ UNCHANGED <<of, applied>>

Next ==
  \/ \E g \in Workers, p \in Profiles : Enlist(g, p)
  \/ \E g \in Workers, t \in Targets, level \in Levels : Apply(g, t, level)
  \/ Settle

Spec == Init /\ [][Next]_durable

\* No restriction is forgotten: it is known, or its worker is marked.
NothingForgotten == \A g \in Workers : g \in unsure \/ Told(g)
=============================================================================
