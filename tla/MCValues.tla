------------------------------- MODULE MCValues -------------------------------
(* Instances of Values for TLC.                                            *)
EXTENDS Values, TLC

Symmetry == Permutations(Address) \cup Permutations(Object) \cup Permutations(Thread)
=============================================================================
