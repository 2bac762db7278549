----------------------------- MODULE BudgetProofs -----------------------------
(***************************************************************************)
(* Proofs about AppBudget, for any caps and actions, any length of a       *)
(* month, any number of accumulator goroutines and API processes and any   *)
(* bounds.                                                                 *)
(*                                                                         *)
(* A copy that is fresh is the namespace as it stands, so that a write     *)
(* that is accepted is a step of the ledger, which carries the ledger's    *)
(* invariants over.  Last, the counting of the cap events.                 *)
(***************************************************************************)
EXTENDS AppBudget, LedgerProofs, FiniteSetTheorems

(*-------------------------------- the jobs -------------------------------*)
Begun(op) == \E t \in 1..now : op \in Operations(t)

JobTyped(r) ==
  /\ r \in JobRecords
  /\ r.step \in {"get", "update"} => Begun(r.op)
  /\ r.step = "update" /\ r.fresh => r.seen = ns

JobInv ==
  /\ LedgerInv
  /\ job \in [Jobs -> JobRecords]
  /\ \A j \in Jobs : JobTyped(job[j])
  /\ owed \in Int /\ calls \in 0..MaxCalls /\ faults \in 0..MaxFaults

LEMMA IdleType == Idle \in JobRecords /\ [Idle EXCEPT !.step = "send"] \in JobRecords
<1>1. NoOperation \in AnyOperation BY DEF AnyOperation
<1>2. 0 \in 0..Retries BY JobsAssumption
<1>3. QED BY <1>1, <1>2, EmptyType DEF Idle, JobRecords

LEMMA IdleTyped == JobTyped(Idle) /\ JobTyped([Idle EXCEPT !.step = "send"])
BY IdleType DEF JobTyped, Idle

LEMMA BegunType ==
  ASSUME LedgerInv, NEW op, Begun(op)
  PROVE  op \in AnyOperation
BY LedgerConstants DEF LedgerInv, Begun, Times, AnyOperation

(* What a job writes, from a copy of the namespace as it stands, is one    *)
(* step of the ledger.                                                     *)
LEMMA ComputedIsStep ==
  ASSUME LedgerInv, NEW op, Begun(op), ns' = Computed(op, ns), UNCHANGED now
  PROVE  Next
<1> PICK t \in 1..now : op \in Operations(t)
  BY DEF Begun
<1>1. CASE op.kind = "tick"
  <2>1. op.at = t BY <1>1 DEF Operations
  <2>2. ns' = AfterTick(ns, t) BY <1>1, <2>1 DEF Computed
  <2>3. QED BY <2>2 DEF Next, Operation, Tick
<1>2. CASE op.kind = "set"
  <2>1. op.cap \in Caps /\ op.action \in Actions BY <1>2 DEF Operations
  <2>2. ns' = AfterSet(ns, op.cap, op.action) BY <1>2 DEF Computed
  <2>3. QED BY <2>1, <2>2 DEF Next, Operation, Set
<1>3. CASE op.kind = "reset"
  <2>1. op.at = t BY <1>3 DEF Operations
  <2>2. ns' = AfterReset(ns, FALSE, t) BY <1>3, <2>1 DEF Computed
  <2>3. QED BY <2>2 DEF Next, Operation, Reset
<1>4. CASE op.kind = "reset-period"
  <2>1. op.at = t BY <1>4 DEF Operations
  <2>2. ns' = AfterReset(ns, TRUE, t) BY <1>4, <2>1 DEF Computed
  <2>3. QED BY <2>2 DEF Next, Operation, Reset
<1>5. CASE op.kind = "clear"
  <2>1. ns' = NoBudget BY <1>5 DEF Computed
  <2>2. QED BY <2>1 DEF Next, Operation, Clear
<1>6. op.kind \in {"tick", "set", "reset", "reset-period", "clear"}
  BY DEF Operations
<1>7. QED BY <1>1, <1>2, <1>3, <1>4, <1>5, <1>6

(* Every step of the jobs is one of the ledger or none.                    *)
LEMMA StepRefines == JobInv /\ [BudgetNext]_vars => [Next]_ledger
<1> SUFFICES ASSUME JobInv, [BudgetNext]_vars PROVE [Next]_ledger
  OBVIOUS
<1>1. ASSUME NEW j \in Jobs, Update(j) PROVE [Next]_ledger
  <2>1. job[j].seen = ns /\ Begun(job[j].op)
    BY <1>1 DEF JobInv, JobTyped, Update, Accepted
  <2>2. ns' = Computed(job[j].op, ns) /\ UNCHANGED now
    BY <1>1, <2>1 DEF Update
  <2>3. QED BY <2>1, <2>2, ComputedIsStep DEF JobInv
<1>2. ASSUME NEW j \in Jobs,
             \/ BeginTick(j) \/ BeginCall(j) \/ Get(j)
             \/ Conflict(j) \/ Send(j) \/ Crash(j)
      PROVE  UNCHANGED ledger
  BY <1>2 DEF BeginTick, BeginCall, Get, Conflict, Send, Crash, ledger
<1>3. CASE Touch BY <1>3 DEF Touch, ledger
<1>4. CASE Pass BY <1>4 DEF Pass, Next
<1>5. CASE UNCHANGED vars BY <1>5 DEF vars, ledger
<1>6. QED BY <1>1, <1>2, <1>3, <1>4, <1>5 DEF BudgetNext, Step

LEMMA BudgetInitInv == BudgetInit => JobInv
<1> SUFFICES ASSUME BudgetInit PROVE JobInv
  OBVIOUS
<1>1. LedgerInv BY LedgerInit DEF BudgetInit
<1>2. \A j \in Jobs : JobTyped(job[j])
  BY IdleTyped DEF BudgetInit
<1>3. job \in [Jobs -> JobRecords]
  BY IdleType DEF BudgetInit
<1>4. QED BY <1>1, <1>2, <1>3, JobsAssumption DEF BudgetInit, JobInv

(* What a step does to the jobs keeps them typed.                          *)
LEMMA OneJob ==
  ASSUME JobInv, ns' = ns, now' = now, NEW j \in Jobs, NEW r,
         job' = [job EXCEPT ![j] = r], JobTyped(r)
  PROVE  /\ job' \in [Jobs -> JobRecords]
         /\ \A k \in Jobs : JobTyped(job[k])'
<1>1. r \in JobRecords BY DEF JobTyped
<1>2. ASSUME NEW k \in Jobs PROVE JobTyped(job'[k])
  BY DEF JobInv
<1>3. ASSUME NEW k \in Jobs PROVE JobTyped(job[k])'
  BY <1>2 DEF JobTyped, Begun
<1>4. QED BY <1>1, <1>3 DEF JobInv

LEMMA OutdatedTyped ==
  ASSUME JobInv, now' \in Nat, now <= now'
  PROVE  /\ Outdated \in [Jobs -> JobRecords]
         /\ \A k \in Jobs : /\ Outdated[k].step \in {"get", "update"}
                                 => \E t \in 1..now' : Outdated[k].op \in Operations(t)
                            /\ ~Outdated[k].fresh
<1> SUFFICES ASSUME NEW k \in Jobs
             PROVE  /\ Outdated[k] \in JobRecords /\ ~Outdated[k].fresh
                    /\ Outdated[k].step \in {"get", "update"}
                         => \E t \in 1..now' : Outdated[k].op \in Operations(t)
  BY DEF Outdated
<1>1. job[k] \in JobRecords /\ Outdated[k] = [job[k] EXCEPT !.fresh = FALSE]
  BY DEF JobInv, Outdated
<1>2. /\ Outdated[k] \in JobRecords /\ ~Outdated[k].fresh
      /\ Outdated[k].op = job[k].op /\ Outdated[k].step = job[k].step
  BY <1>1 DEF JobRecords
<1>3. now \in Nat BY LedgerConstants DEF JobInv, LedgerInv
<1>4. QED BY <1>2, <1>3 DEF JobInv, JobTyped, Begun

LEMMA JobsStep ==
  ASSUME JobInv, NEW j \in Jobs,
         \/ BeginTick(j) \/ BeginCall(j) \/ Get(j)
         \/ Conflict(j) \/ Send(j) \/ Crash(j)
  PROVE  /\ job' \in [Jobs -> JobRecords]
         /\ \A k \in Jobs : JobTyped(job[k])'
<1>1. UNCHANGED <<now, ns>>
  BY DEF BeginTick, BeginCall, Get, Conflict, Send, Crash
<1>2. ASSUME NEW op, Begun(op), Begin(j, op)
      PROVE  /\ job' \in [Jobs -> JobRecords]
             /\ \A k \in Jobs : JobTyped(job[k])'
  <2> DEFINE r == [Idle EXCEPT !.step = "get", !.op = op]
  <2>1. op \in AnyOperation BY <1>2, BegunType DEF JobInv
  <2>2. r \in JobRecords /\ r.step = "get" /\ r.op = op
    BY <2>1, IdleType DEF JobRecords, Idle
  <2>3. JobTyped(r) BY <1>2, <2>2 DEF JobTyped
  <2>4. job' = [job EXCEPT ![j] = r] BY <1>2 DEF Begin
  <2> HIDE DEF r
  <2>5. QED BY <1>1, <2>3, <2>4, OneJob
<1>3. ASSUME NEW op \in Operations(now) PROVE Begun(op)
  <2>1. now \in 1..now BY LedgerConstants DEF JobInv, LedgerInv
  <2>2. QED BY <1>3, <2>1 DEF Begun
<1>4. CASE BeginTick(j)
  BY <1>2, <1>3, <1>4 DEF BeginTick
<1>5. CASE BeginCall(j)
  BY <1>2, <1>3, <1>5 DEF BeginCall
<1>6. CASE Get(j)
  <2> DEFINE r == [job[j] EXCEPT !.step = "update", !.seen = ns, !.fresh = TRUE]
  <2>1. job[j] \in JobRecords /\ Begun(job[j].op)
    BY <1>6 DEF JobInv, JobTyped, Get
  <2>2. /\ r \in JobRecords /\ r.seen = ns /\ r.op = job[j].op
        /\ r.step = "update"
    BY <2>1 DEF JobRecords, JobInv, LedgerInv
  <2>3. JobTyped(r) BY <2>1, <2>2 DEF JobTyped
  <2>4. \/ job' = [job EXCEPT ![j] = Idle]
        \/ job' = [job EXCEPT ![j] = r]
    BY <1>6 DEF Get
  <2> HIDE DEF r
  <2>5. QED BY <1>1, <2>3, <2>4, IdleTyped, OneJob
<1>7. CASE Conflict(j)
  <2> DEFINE r == [job[j] EXCEPT !.step = "get", !.tries = job[j].tries + 1,
                                 !.seen = NoBudget]
  <2>1. job[j] \in JobRecords /\ Begun(job[j].op)
    BY <1>7 DEF JobInv, JobTyped, Conflict
  <2>2. CASE job[j].tries + 1 < Retries
    <3>1. job[j].tries + 1 \in 0..Retries
      BY <2>1, <2>2, JobsAssumption DEF JobRecords
    <3>2. r \in JobRecords /\ r.op = job[j].op /\ r.step = "get"
      BY <2>1, <3>1, EmptyType DEF JobRecords
    <3>3. JobTyped(r) BY <2>1, <3>2 DEF JobTyped
    <3>4. job' = [job EXCEPT ![j] = r] BY <1>7, <2>2 DEF Conflict
    <3> HIDE DEF r
    <3>5. QED BY <1>1, <3>3, <3>4, OneJob
  <2>3. CASE ~(job[j].tries + 1 < Retries)
    <3>1. job' = [job EXCEPT ![j] = Idle] BY <1>7, <2>3 DEF Conflict
    <3>2. QED BY <1>1, <3>1, IdleTyped, OneJob
  <2>4. QED BY <2>2, <2>3
<1>8. CASE Send(j) \/ Crash(j)
  <2>1. job' = [job EXCEPT ![j] = Idle] BY <1>8 DEF Send, Crash
  <2>2. QED BY <1>1, <2>1, IdleTyped, OneJob
<1>9. QED BY <1>4, <1>5, <1>6, <1>7, <1>8

LEMMA WriteStep ==
  ASSUME JobInv, LedgerInv', (\E j \in Jobs : Update(j)) \/ Touch \/ Pass
  PROVE  /\ job' \in [Jobs -> JobRecords]
         /\ \A k \in Jobs : JobTyped(job[k])'
<1>1. now \in Nat /\ now' \in Nat /\ now <= now'
  BY LedgerConstants DEF JobInv, LedgerInv, Update, Touch, Pass, Elapse
<1>2. /\ Outdated \in [Jobs -> JobRecords]
      /\ \A k \in Jobs : /\ Outdated[k].step \in {"get", "update"}
                              => \E t \in 1..now' : Outdated[k].op \in Operations(t)
                         /\ ~Outdated[k].fresh
  BY <1>1, OutdatedTyped
<1> HIDE DEF Outdated
<1>3. ASSUME NEW k \in Jobs, job'[k] = Outdated[k] PROVE JobTyped(job[k])'
  BY <1>2, <1>3 DEF JobTyped, Begun
<1>4. CASE Touch
  BY <1>2, <1>3, <1>4 DEF Touch
<1>5. CASE \E j \in Jobs : Update(j)
  <2> PICK j \in Jobs : Update(j) BY <1>5
  <2> PICK r \in {Idle, [Idle EXCEPT !.step = "send"]} :
             job' = [Outdated EXCEPT ![j] = r]
    BY DEF Update
  <2>1. r \in JobRecords /\ r.step \in {"idle", "send"}
    <3>1. Idle.step = "idle" /\ [Idle EXCEPT !.step = "send"].step = "send"
      BY DEF Idle
    <3>2. QED BY <3>1, IdleType
  <2>2. job' \in [Jobs -> JobRecords] BY <1>2, <2>1
  <2>3. ASSUME NEW k \in Jobs PROVE JobTyped(job[k])'
    <3>1. CASE k = j
      <4>1. job'[k] = r BY <1>2, <3>1
      <4>2. QED BY <2>1, <4>1 DEF JobTyped
    <3>2. CASE k # j
      <4>1. job'[k] = Outdated[k] BY <1>2, <3>2
      <4>2. QED BY <1>3, <4>1
    <3>3. QED BY <3>1, <3>2
  <2>4. QED BY <2>2, <2>3
<1>6. CASE Pass
  <2>1. job' = job /\ ns' = ns BY <1>6 DEF Pass, Elapse
  <2>2. ASSUME NEW k \in Jobs PROVE JobTyped(job[k])'
    BY <1>1, <2>1 DEF JobInv, JobTyped, Begun
  <2>3. QED BY <2>1, <2>2 DEF JobInv
<1>7. QED BY <1>4, <1>5, <1>6

LEMMA JobStep == JobInv /\ [BudgetNext]_vars => JobInv'
<1> SUFFICES ASSUME JobInv, [BudgetNext]_vars PROVE JobInv'
  OBVIOUS
<1>1. LedgerInv' BY StepRefines, LedgerStep DEF JobInv
<1>2. /\ job' \in [Jobs -> JobRecords]
      /\ \A k \in Jobs : JobTyped(job[k])'
  <2>1. CASE UNCHANGED vars
    BY <2>1 DEF vars, JobInv, JobTyped, Begun
  <2>2. CASE BudgetNext
    BY <1>1, <2>2, JobsStep, WriteStep DEF BudgetNext, Step
  <2>3. QED BY <2>1, <2>2
<1>3. /\ owed' \in {owed, owed + 1, owed - 1}
      /\ calls' = calls \/ (calls < MaxCalls /\ calls' = calls + 1)
      /\ faults' = faults \/ (faults < MaxFaults /\ faults' = faults + 1)
  BY DEF BudgetNext, Step, BeginTick, BeginCall, Get, Update, Conflict,
         Send, Crash, Touch, Pass, bounds, vars
<1>4. owed' \in Int /\ calls' \in 0..MaxCalls /\ faults' \in 0..MaxFaults
  BY <1>3, JobsAssumption DEF JobInv
<1>5. QED BY <1>1, <1>2, <1>4 DEF JobInv

(* The variables and the copies the jobs hold stay within their types.     *)
THEOREM TypeCorrect == BudgetSpec => []TypeOK
<1>1. JobInv => TypeOK
  BY DEF JobInv, LedgerInv, TypeOK, Times
<1>2. QED BY <1>1, BudgetInitInv, JobStep, PTL DEF BudgetSpec

(* The calls of the API and the ticks of the accumulator, taken apart in   *)
(* Get, Update, retry and crash, for any number of them at once, act on    *)
(* the namespace as the ledger does in one step each.                      *)
THEOREM ImplementsLedger == BudgetSpec => ActsAsLedger
<1>1. BudgetInit => Init BY DEF BudgetInit
<1>2. QED BY <1>1, BudgetInitInv, JobStep, StepRefines, PTL
          DEF BudgetSpec, ActsAsLedger

LEMMA JobInvHolds == BudgetSpec => [](JobInv /\ LedgerInv)
<1>1. JobInv => LedgerInv BY DEF JobInv
<1>2. QED BY <1>1, BudgetInitInv, JobStep, PTL DEF BudgetSpec

(* Whatever the interleaving of the calls' and the ticks' reads, writes    *)
(* and retries, deploys are blocked only over the cap.                     *)
THEOREM BlockedSoundly == BudgetSpec => []BlockedOnlyOverCap
<1>1. LedgerInv => BlockedOnlyOverCap
  BY DEF LedgerInv, Sound, BlockedOnlyOverCap, Blocked
<1>2. QED BY <1>1, JobInvHolds, PTL

(* And deploys are blocked only after the mark of the cap alert was set.   *)
THEOREM AlertedFirst == BudgetSpec => []BlockedIsAlerted
<1>1. LedgerInv => BlockedIsAlerted
  BY DEF LedgerInv, Sound, BlockedIsAlerted, Blocked
<1>2. QED BY <1>1, JobInvHolds, PTL

(*----------------------------- the cap events ----------------------------*)
(* The jobs that owe an event.                                             *)
Senders == {j \in Jobs : job[j].step = "send"}

LEMMA SendersFinite == IsFiniteSet(Senders) /\ Cardinality(Senders) \in Nat
<1>1. Senders \subseteq Jobs BY DEF Senders
<1>2. IsFiniteSet(Jobs) BY JobsAssumption
<1>3. IsFiniteSet(Senders) BY <1>1, <1>2, FS_Subset
<1>4. QED BY <1>3, FS_CardinalityType

(* An accepted write adds one sender exactly when it marks the alert, a    *)
(* send takes one away, a crash may: no other step makes one.              *)
LEMMA SendersStep ==
  ASSUME JobInv, [BudgetNext]_vars
  PROVE  \/ Senders' \subseteq Senders /\ owed' = owed
         \/ \E j \in Jobs : /\ j \notin Senders
                            /\ Senders' = Senders \cup {j} /\ owed' = owed + 1
         \/ \E j \in Senders : Senders' = Senders \ {j} /\ owed' = owed - 1
<1>1. job \in [Jobs -> JobRecords] BY DEF JobInv
<1>2. Idle.step = "idle" /\ [Idle EXCEPT !.step = "send"].step = "send"
  BY DEF Idle
<1>3. \A j \in Jobs : Outdated[j].step = job[j].step
  BY <1>1 DEF Outdated, JobRecords
<1>4. ASSUME NEW j \in Jobs, NEW r, job' = [job EXCEPT ![j] = r],
             r.step # "send"
      PROVE  Senders' \subseteq Senders
  BY <1>1, <1>4 DEF Senders
<1>5. ASSUME NEW j \in Jobs, Update(j)
      PROVE  \/ Senders' \subseteq Senders /\ owed' = owed
             \/ /\ j \notin Senders
                /\ Senders' = Senders \cup {j} /\ owed' = owed + 1
  <2>1. j \notin Senders BY <1>5 DEF Update, Senders
  <2>2. CASE Fires(job[j].op, job[j].seen)
    <3>1. /\ job' = [Outdated EXCEPT ![j] = [Idle EXCEPT !.step = "send"]]
          /\ owed' = owed + 1
      BY <1>5, <2>2 DEF Update
    <3>2. job'[j].step = "send" BY <1>2, <3>1 DEF Outdated
    <3>3. ASSUME NEW k \in Jobs, k # j PROVE job'[k].step = job[k].step
      BY <1>3, <3>1, <3>3 DEF Outdated
    <3>4. Senders' = Senders \cup {j}
      BY <3>2, <3>3 DEF Senders
    <3>5. QED BY <2>1, <3>1, <3>4
  <2>3. CASE ~Fires(job[j].op, job[j].seen)
    <3>1. job' = [Outdated EXCEPT ![j] = Idle] /\ owed' = owed
      BY <1>5, <2>3 DEF Update
    <3>2. job'[j].step = "idle" BY <1>2, <3>1 DEF Outdated
    <3>3. ASSUME NEW k \in Jobs, k # j PROVE job'[k].step = job[k].step
      BY <1>3, <3>1, <3>3 DEF Outdated
    <3>4. Senders' \subseteq Senders BY <3>2, <3>3 DEF Senders
    <3>5. QED BY <3>1, <3>4
  <2>4. QED BY <2>2, <2>3
<1>6. ASSUME NEW j \in Jobs, Send(j)
      PROVE  /\ j \in Senders
             /\ Senders' = Senders \ {j} /\ owed' = owed - 1
  BY <1>1, <1>2, <1>6 DEF Send, Senders
<1>7. ASSUME NEW j \in Jobs, Crash(j)
      PROVE  Senders' \subseteq Senders /\ owed' = owed
  BY <1>2, <1>4, <1>7 DEF Crash
<1>8. ASSUME NEW j \in Jobs, BeginTick(j) \/ BeginCall(j)
      PROVE  Senders' \subseteq Senders /\ owed' = owed
  <2>1. PICK op : Begin(j, op) BY <1>8 DEF BeginTick, BeginCall
  <2>2. [Idle EXCEPT !.step = "get", !.op = op].step # "send" BY DEF Idle
  <2>3. QED BY <1>4, <1>8, <2>1, <2>2 DEF Begin, BeginTick, BeginCall
<1>9. ASSUME NEW j \in Jobs, Get(j)
      PROVE  Senders' \subseteq Senders /\ owed' = owed
  <2> DEFINE r == [job[j] EXCEPT !.step = "update", !.seen = ns, !.fresh = TRUE]
  <2>1. r.step # "send" BY <1>1 DEF JobRecords
  <2>2. job' = [job EXCEPT ![j] = Idle] \/ job' = [job EXCEPT ![j] = r]
    BY <1>9 DEF Get
  <2> HIDE DEF r
  <2>3. QED BY <1>2, <1>4, <1>9, <2>1, <2>2 DEF Get
<1>10. ASSUME NEW j \in Jobs, Conflict(j)
       PROVE  Senders' \subseteq Senders /\ owed' = owed
  <2> DEFINE r == [job[j] EXCEPT !.step = "get", !.tries = job[j].tries + 1,
                                 !.seen = NoBudget]
  <2>1. r.step # "send" BY <1>1 DEF JobRecords
  <2>2. job' = [job EXCEPT ![j] = Idle] \/ job' = [job EXCEPT ![j] = r]
    BY <1>10 DEF Conflict
  <2> HIDE DEF r
  <2>3. QED BY <1>2, <1>4, <1>10, <2>1, <2>2 DEF Conflict
<1>11. CASE Touch
  BY <1>3, <1>11 DEF Touch, Senders
<1>12. CASE Pass \/ UNCHANGED vars
  BY <1>12 DEF Pass, vars, Senders
<1>13. QED
  BY <1>5, <1>6, <1>7, <1>8, <1>9, <1>10, <1>11, <1>12 DEF BudgetNext, Step

(* For any number of overlapping ticks and leaders, the cap event is sent  *)
(* at most once for each time a write marks the alert.                     *)
THEOREM AlertedOnce == BudgetSpec => []AlertedOncePerMark
<1> DEFINE Inv == Cardinality(Senders) <= owed
<1>1. BudgetInit => Inv
  <2>1. ASSUME BudgetInit PROVE Senders = {} /\ owed = 0
    BY <2>1 DEF BudgetInit, Senders, Idle
  <2>2. QED BY <2>1, FS_EmptySet
<1>2. JobInv /\ Inv /\ [BudgetNext]_vars => Inv'
  <2> SUFFICES ASSUME JobInv, Inv, [BudgetNext]_vars PROVE Inv'
    OBVIOUS
  <2>1. IsFiniteSet(Senders) /\ Cardinality(Senders) \in Nat /\ owed \in Int
    BY SendersFinite DEF JobInv
  <2>2. ASSUME Senders' \subseteq Senders, owed' = owed PROVE Inv'
    <3>1. Cardinality(Senders') <= Cardinality(Senders)
          /\ Cardinality(Senders') \in Nat
      BY <2>1, <2>2, FS_Subset, FS_CardinalityType
    <3>2. QED BY <2>1, <2>2, <3>1
  <2>3. ASSUME NEW j \in Jobs, j \notin Senders,
               Senders' = Senders \cup {j}, owed' = owed + 1
        PROVE  Inv'
    <3>1. Cardinality(Senders') = Cardinality(Senders) + 1
      BY <2>1, <2>3, FS_AddElement
    <3>2. QED BY <2>1, <2>3, <3>1
  <2>4. ASSUME NEW j \in Senders, Senders' = Senders \ {j}, owed' = owed - 1
        PROVE  Inv'
    <3>1. Cardinality(Senders') = Cardinality(Senders) - 1
      BY <2>1, <2>4, FS_RemoveElement
    <3>2. QED BY <2>1, <2>4, <3>1
  <2>5. QED BY <2>2, <2>3, <2>4, SendersStep
<1>3. Inv <=> AlertedOncePerMark BY DEF Senders, AlertedOncePerMark
<1> HIDE DEF Inv
<1>4. QED BY <1>1, <1>2, <1>3, BudgetInitInv, JobStep, PTL DEF BudgetSpec
=============================================================================
