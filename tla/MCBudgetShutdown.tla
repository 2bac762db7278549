--------------------------- MODULE MCBudgetShutdown ---------------------------
(* Instances of BudgetShutdown for TLC.                                    *)
EXTENDS BudgetShutdown, TLC

(* Ticks differ only in name, and so do services.                          *)
Alike == Permutations(Ticks) \cup Permutations(Services)
=============================================================================
