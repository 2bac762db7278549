----------------------------- MODULE MCAppBudget -----------------------------
(* Instances of AppBudget for TLC.                                         *)
EXTENDS AppBudget, TLC

(* Ticks differ only in name, and so do the API processes.                 *)
Alike == Permutations(Ticks) \cup Permutations(Pods)
=============================================================================
