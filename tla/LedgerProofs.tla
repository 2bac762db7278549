----------------------------- MODULE LedgerProofs -----------------------------
(***************************************************************************)
(* Proofs about BudgetLedger, for any caps and actions and any length of a *)
(* month: its types and its two invariants are inductive.  What is said of *)
(* AfterSet, AfterReset and AfterTick here is used for every module that   *)
(* computes with them.                                                     *)
(***************************************************************************)
EXTENDS BudgetLedger, TLAPS

Times == 1..MaxTime

LEMMA LedgerConstants ==
  /\ Caps \subseteq Nat \ {0} /\ MonthLength \in Nat \ {0}
  /\ MaxTime \in Nat \ {0} /\ Times \subseteq Nat \ {0}
BY LedgerAssumption DEF Times

LEMMA QuotientInNat ==
  ASSUME NEW a \in Nat, NEW b \in Nat \ {0}
  PROVE  a \div b \in Nat
OBVIOUS

LEMMA MonthType == \A t \in Times : MonthOf(t) \in Nat \ {0}
<1> TAKE t \in Times
<1>1. t - 1 \in Nat BY LedgerConstants
<1>2. (t - 1) \div MonthLength \in Nat BY <1>1, QuotientInNat, LedgerConstants
<1>3. QED BY <1>2 DEF MonthOf

LEMMA OpenedType ==
  ASSUME NEW m \in Nat, NEW t \in Nat
  PROVE  Opened(m, t) \in States
BY DEF Opened, States

LEMMA EmptyType == NoBudget \in Budgets /\ ~NoBudget.st.tripped
<1>1. NoState \in States BY OpenedType DEF NoState
<1>2. QED BY <1>1 DEF NoBudget, Budgets, NoState, Opened, Configs

LEMMA ConfigType ==
  ASSUME NEW cfg \in Configs
  PROVE  cfg.cap \in Nat /\ cfg.action = cfg.action
BY LedgerConstants DEF Configs, NoConfig

(* What the invariants say of a budget.                                    *)
Sound(b) == /\ b.st.tripped => b.st.spend >= b.cfg.cap
            /\ b.st.tripped => b.st.alerted

LEMMA SetSound ==
  ASSUME NEW b \in Budgets, Sound(b), NEW cap \in Caps, NEW action \in Actions
  PROVE  AfterSet(b, cap, action) \in Budgets /\ Sound(AfterSet(b, cap, action))
<1>1. /\ b.cfg.cap \in Nat /\ cap \in Nat /\ b.st \in States
      /\ [cap |-> cap, action |-> action] \in Configs
  BY ConfigType, LedgerConstants DEF Budgets, Configs
<1>2. Unblocked(b.st) \in States /\ ~Unblocked(b.st).tripped
  BY <1>1 DEF Unblocked, States
<1>3. CASE Unblocks(b, cap)
  BY <1>1, <1>2, <1>3 DEF AfterSet, Budgets, Sound
<1>4. CASE ~Unblocks(b, cap)
  <2>1. b.st.spend \in Nat BY <1>1 DEF States
  <2>2. b.st.tripped => b.st.spend >= cap
    BY <1>1, <1>4, <2>1 DEF Unblocks, Sound
  <2>3. QED BY <1>1, <1>4, <2>2 DEF AfterSet, Budgets, Sound
<1>5. QED BY <1>3, <1>4

LEMMA ResetSound ==
  ASSUME NEW b \in Budgets, Sound(b), NEW period \in BOOLEAN, NEW t \in Times
  PROVE  AfterReset(b, period, t) \in Budgets /\ Sound(AfterReset(b, period, t))
<1>1. Opened(MonthOf(t), 0) \in States /\ ~Opened(MonthOf(t), 0).tripped
  BY MonthType, OpenedType DEF Opened
<1>2. b.st \in States BY DEF Budgets
<1>3. Unblocked(b.st) \in States /\ ~Unblocked(b.st).tripped
  BY <1>2 DEF Unblocked, States
<1>4. QED BY <1>1, <1>3 DEF AfterReset, Budgets, Sound

LEMMA ChargedType ==
  ASSUME NEW st \in States, NEW t \in Times
  PROVE  /\ Charged(st, t) \in States
         /\ Charged(st, t).tripped => /\ st.tripped
                                      /\ Charged(st, t).alerted = st.alerted
                                      /\ Charged(st, t).spend >= st.spend
<1> DEFINE open == IF MonthOf(t) > st.month THEN Opened(MonthOf(t), t) ELSE st
<1>1. t \in Nat BY LedgerConstants
<1>2. open \in States
  BY <1>1, MonthType, OpenedType
<1>3. Delta(open, t) \in Nat
  BY <1>1, <1>2 DEF Delta, States
<1>4. Charged(st, t) = [open EXCEPT !.spend = @ + Delta(open, t), !.asOf = t]
  BY DEF Charged
<1>5. open.tripped => open = st
  BY DEF Opened
<1> HIDE DEF open
<1> DEFINE delta == Delta(open, t)
           new   == [open EXCEPT !.spend = @ + delta, !.asOf = t]
<1> HIDE DEF delta
<1>6. /\ Charged(st, t) \in States
      /\ Charged(st, t).tripped = open.tripped
      /\ Charged(st, t).alerted = open.alerted
      /\ Charged(st, t).spend >= open.spend
  <2>1. delta \in Nat BY <1>3 DEF delta
  <2>2. open.spend \in Nat BY <1>2 DEF States
  <2>3. new.tripped = open.tripped /\ new.alerted = open.alerted
    BY <1>2 DEF States
  <2>4. new.spend = open.spend + delta
    BY <1>2 DEF States
  <2>5. open.spend + delta \in Nat BY <2>1, <2>2
  <2>6. new \in States
    <3> DEFINE sum == open.spend + delta
    <3>1. new = [open EXCEPT !.spend = sum, !.asOf = t] OBVIOUS
    <3>2. sum \in Nat BY <2>5
    <3> HIDE DEF sum, new
    <3>3. QED BY <1>1, <1>2, <3>1, <3>2 DEF States
  <2>7. Charged(st, t) = new BY <1>4 DEF delta
  <2> HIDE DEF new
  <2>8. QED BY <2>1, <2>2, <2>3, <2>4, <2>6, <2>7
<1>7. QED BY <1>5, <1>6

LEMMA TickSound ==
  ASSUME NEW b \in Budgets, Sound(b), NEW t \in Times
  PROVE  AfterTick(b, t) \in Budgets /\ Sound(AfterTick(b, t))
<1> DEFINE st == Charged(b.st, t)
<1>1. b.st \in States /\ b.cfg \in Configs /\ b.cfg.cap \in Nat
  BY ConfigType DEF Budgets
<1>2. /\ st \in States
      /\ st.tripped => b.st.tripped /\ st.alerted = b.st.alerted /\ st.spend >= b.st.spend
  BY <1>1, ChargedType
<1>3. AfterTick(b, t) = [b EXCEPT !.st =
         IF CapFires(b.cfg, st)
           THEN [st EXCEPT !.alerted = TRUE,
                           !.tripped = st.tripped \/ b.cfg.action = "block-new-deploys"]
           ELSE st]
  BY DEF AfterTick
<1> HIDE DEF st
<1>4. CASE CapFires(b.cfg, st)
  <2> DEFINE new == [st EXCEPT !.alerted = TRUE,
                       !.tripped = st.tripped \/ b.cfg.action = "block-new-deploys"]
  <2>1. new \in States /\ new.alerted /\ new.spend = st.spend
    BY <1>2 DEF States
  <2>2. st.spend >= b.cfg.cap BY <1>4 DEF CapFires
  <2>3. AfterTick(b, t) = [b EXCEPT !.st = new] BY <1>3, <1>4
  <2> HIDE DEF new
  <2>4. QED BY <2>1, <2>2, <2>3 DEF Budgets, Sound
<1>5. CASE ~CapFires(b.cfg, st)
  <2>1. st.tripped => st.spend >= b.cfg.cap /\ st.alerted
    <3>1. st.spend \in Nat /\ b.st.spend \in Nat BY <1>1, <1>2 DEF States
    <3>2. QED BY <1>1, <1>2, <3>1 DEF Sound
  <2>2. AfterTick(b, t) = [b EXCEPT !.st = st] BY <1>3, <1>5
  <2>3. QED BY <1>2, <2>1, <2>2 DEF Budgets, Sound
<1>6. QED BY <1>4, <1>5

LedgerInv == now \in Times /\ ns \in Budgets /\ Sound(ns)

LEMMA LedgerInit == Init => LedgerInv
<1> SUFFICES ASSUME Init PROVE LedgerInv
  OBVIOUS
<1>1. now \in Times BY LedgerConstants DEF Init, Times
<1>2. QED BY <1>1, EmptyType DEF Init, LedgerInv, Sound

LEMMA LedgerStep == LedgerInv /\ [Next]_ledger => LedgerInv'
<1> SUFFICES ASSUME LedgerInv, [Next]_ledger PROVE LedgerInv'
  OBVIOUS
<1> USE DEF LedgerInv
<1>1. CASE Elapse
  BY <1>1, LedgerConstants DEF Elapse, Sound, Times
<1>2. \A t \in 1..now : t \in Times
  BY LedgerConstants DEF Times
<1>3. ASSUME Set, UNCHANGED now PROVE LedgerInv'
  BY <1>3, SetSound DEF Set, Sound
<1>4. ASSUME Clear, UNCHANGED now PROVE LedgerInv'
  BY <1>4, EmptyType DEF Clear, Sound
<1>5. ASSUME Reset, UNCHANGED now PROVE LedgerInv'
  BY <1>2, <1>5, ResetSound DEF Reset, Sound
<1>6. ASSUME Tick, UNCHANGED now PROVE LedgerInv'
  BY <1>2, <1>6, TickSound DEF Tick, Sound
<1>7. CASE UNCHANGED ledger
  BY <1>7 DEF ledger, Sound
<1>8. QED BY <1>1, <1>3, <1>4, <1>5, <1>6, <1>7 DEF Next, Operation

(* As specified: deploys are blocked only over the cap and only after the  *)
(* alert, whatever is set, cleared, reset and charged in whatever order    *)
(* (AppBudgetSet, appBudgetResetLocked, accumulateBudgetApp).              *)
THEOREM LedgerSound == Spec => [](BlockedOnlyOverCap /\ BlockedIsAlerted)
<1>1. LedgerInv => BlockedOnlyOverCap /\ BlockedIsAlerted
  BY DEF LedgerInv, Sound, BlockedOnlyOverCap, BlockedIsAlerted, Blocked
<1>2. QED BY <1>1, LedgerInit, LedgerStep, PTL DEF Spec
=============================================================================
