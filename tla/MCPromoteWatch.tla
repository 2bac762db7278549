---------------------------- MODULE MCPromoteWatch ---------------------------
(* Instances of PromoteWatch for TLC: pods, watchers and release ids are    *)
(* interchangeable.                                                         *)
EXTENDS PromoteWatch, TLC

Interchangeable == 
  Permutations(Pods) \cup Permutations(Watchers) \cup Permutations(Releases)
=============================================================================
