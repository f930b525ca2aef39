-------------------------- MODULE MCCoreLifecycle ---------------------------
(* TLC instances of CoreLifecycle. *)
EXTENDS CoreLifecycle, TLC

CONSTANTS a, b, d, s1, s2, s3

TwoCallers == {a, b}
ThreeCallers == {a, b, d}
TwoServices == {s1, s2}
ThreeServices == {s1, s2, s3}
Symmetry == Permutations(ThreeCallers) \cup Permutations(ThreeServices)
=============================================================================
