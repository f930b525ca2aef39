------------------------ MODULE MCRestrictionJournal ------------------------
(* The constants of the run of RestrictionJournal.                         *)
EXTENDS RestrictionJournal, TLC

CONSTANTS p1, p2, g1, g2, s1, s2

\* A scope is drained; the policy is terminated with its catalog withdrawn.
SomeDecisions == {<<s1, 1>>, <<s2, 1>>, <<Policy, 3>>}

Symmetry == Permutations({g1, g2}) \cup Permutations({s1, s2}) \cup Permutations({p1, p2})

=============================================================================
