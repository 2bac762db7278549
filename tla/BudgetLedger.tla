----------------------------- MODULE BudgetLedger -----------------------------
(***************************************************************************)
(* The monthly budget of one app, as the operations on it are meant to     *)
(* act: each of them in one step, on the budget that is there.             *)
(*                                                                         *)
(* The budget lies in two annotations of the app's namespace, the          *)
(* configuration cfg (the cap and what happens at it) and the state st     *)
(* (this month's spend, whether the cap alert is marked as fired, whether  *)
(* the breaker blocks deploys).  The operators below are the computations  *)
(* between the Get and the Update of each operation.  AppBudget takes the  *)
(* operations apart in the calls they are made of, several at a time, and  *)
(* implements this specification.                                          *)
(*                                                                         *)
(* An app is charged one unit of spend per unit of time: the rate (pods,   *)
(* node prices, the pricing adjustment) is abstracted.  The threshold      *)
(* alert, which is marked and cleared with the cap alert, is left out.     *)
(***************************************************************************)
EXTENDS Integers

CONSTANTS
  Caps,        \* the monthly caps an operator chooses from
  Actions,     \* the at-cap actions an operator chooses from
  MonthLength, \* time units in a month
  MaxTime      \* bound on the clock

ASSUME LedgerAssumption ==
  /\ Caps \subseteq Nat \ {0}
  /\ Actions \subseteq {"alert-only", "block-new-deploys", "auto-shutdown"}
  /\ MonthLength \in Nat \ {0}
  /\ MaxTime \in Nat \ {0}

VARIABLES
  now,   \* the clock
  ns     \* the namespace's two annotations, [cfg, st]

ledger == <<now, ns>>

-----------------------------------------------------------------------------
(* An absent annotation reads as a nil pointer.  No configuration is a cap *)
(* of zero, which Validate refuses of any other; no state is that of month *)
(* zero, before every month.                                               *)
NoConfig == [cap |-> 0, action |-> "alert-only"]

(* The state that opens month m at time t.                                 *)
Opened(m, t) ==
  [month |-> m, spend |-> 0, asOf |-> t, alerted |-> FALSE, tripped |-> FALSE]
NoState  == Opened(0, 0)
NoBudget == [cfg |-> NoConfig, st |-> NoState]

MonthOf(t) == (t - 1) \div MonthLength + 1

Configs == [cap : Caps, action : Actions] \cup {NoConfig}
States  == [month : Nat, spend : Nat, asOf : Nat,
            alerted : BOOLEAN, tripped : BOOLEAN]
Budgets == [cfg : Configs, st : States]

(* Variant: the acknowledged breaker stays tripped.                        *)
UnblockedAlertOnly(st) == [st EXCEPT !.alerted = FALSE]

(* AppBudgetSet.  A cap above the last one and above the spend re-enables  *)
(* blocked deploys; an alert of an app that is not blocked stays marked.   *)
Unblocked(st) == [st EXCEPT !.alerted = FALSE, !.tripped = FALSE]

Unblocks(b, cap) == b.st.tripped /\ cap > b.cfg.cap /\ cap > b.st.spend

(* Variant: the cap is raised and the breaker left as it is.               *)
AfterSetConfig(b, cap, action) ==
  [b EXCEPT !.cfg = [cap |-> cap, action |-> action]]

AfterSet(b, cap, action) ==
  [cfg |-> [cap |-> cap, action |-> action],
   st  |-> IF Unblocks(b, cap) THEN Unblocked(b.st) ELSE b.st]

(* appBudgetResetLocked; with "period" the spend starts anew, and a zero   *)
(* time makes the next tick charge nothing.                                *)
AfterReset(b, period, t) ==
  LET st == IF b.st = NoState THEN Opened(MonthOf(t), 0) ELSE Unblocked(b.st)
  IN  [b EXCEPT !.st = IF period THEN Opened(MonthOf(t), 0) ELSE st]

(* accumulateBudgetApp with the time t its tick began at.  The tick that   *)
(* opens a month, or finds no time of the last one, charges nothing; one   *)
(* that is older than the last charge charges nothing and sets the time    *)
(* back.                                                                   *)

(* Variant: a tick older than the last charge takes it back.               *)
DeltaSigned(st, t) == IF st.asOf = 0 THEN 0 ELSE t - st.asOf

Delta(st, t) == IF st.asOf = 0 \/ t <= st.asOf THEN 0 ELSE t - st.asOf

Charged(st, t) ==
  LET open == IF MonthOf(t) > st.month THEN Opened(MonthOf(t), t) ELSE st
  IN  [open EXCEPT !.spend = @ + Delta(open, t), !.asOf = t]

CapFires(cfg, st) == cfg.cap > 0 /\ st.spend >= cfg.cap /\ ~st.alerted

AfterTick(b, t) ==
  LET st == Charged(b.st, t)
  IN  [b EXCEPT !.st =
         IF CapFires(b.cfg, st)
           THEN [st EXCEPT !.alerted = TRUE,
                           !.tripped = st.tripped \/ b.cfg.action = "block-new-deploys"]
           ELSE st]

-----------------------------------------------------------------------------
Init == now = 1 /\ ns = NoBudget

Elapse == now < MaxTime /\ now' = now + 1 /\ UNCHANGED ns

Set   == \E cap \in Caps, action \in Actions : ns' = AfterSet(ns, cap, action)
Clear == ns' = NoBudget
Reset == \E period \in BOOLEAN, t \in 1..now : ns' = AfterReset(ns, period, t)
Tick  == \E t \in 1..now : ns' = AfterTick(ns, t)

Operation == (Set \/ Clear \/ Reset \/ Tick) /\ UNCHANGED now

Next == Elapse \/ Operation
Spec == Init /\ [][Next]_ledger

-----------------------------------------------------------------------------
(* ReleasePromote, a build's process and a process run are refused while   *)
(* the breaker is tripped (budgetCircuitBreakerTripped).                   *)
Blocked == ns.st.tripped

(* Deploys are blocked only while the month's spend has reached the cap:   *)
(* whatever the order of caps being raised and lowered, resets, months and *)
(* ticks, nobody is refused a deploy under the cap.                        *)
BlockedOnlyOverCap == Blocked => ns.st.spend >= ns.cfg.cap

(* A blocked app has had its cap alert: no deploy is refused before the    *)
(* mark of app:budget:cap is set.                                          *)
BlockedIsAlerted == Blocked => ns.st.alerted
=============================================================================
