------------------------------- MODULE MCAtom -------------------------------
(* Instances of Atom for TLC: one or two replicas, two or three promotes.  *)
EXTENDS Atom, TLC

(* The replicas differ only in name.                                       *)
Replicas == Permutations(Controllers)
=============================================================================
