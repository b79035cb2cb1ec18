---------------------------- MODULE MCEnforcement ----------------------------
(* Enforcement on small sets of model values.  Workers are interchangeable,  *)
(* and so are the ids of one kind.                                           *)
EXTENDS Enforcement, TLC

Symmetry == Permutations(Workers) \cup Permutations(Decisions)
=============================================================================
