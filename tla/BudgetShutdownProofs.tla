------------------------- MODULE BudgetShutdownProofs -------------------------
(***************************************************************************)
(* Theorems about BudgetShutdown, each on top of the one before: its       *)
(* types; every step is one of the ledger or leaves it alone; a pod's lock *)
(* keeps its tick and its calls apart; so what one of them read still      *)
(* stands when it writes, and services are stopped under the notice the    *)
(* record holds and armed at most once a month; and, while nobody but the  *)
(* loop writes, the record keeps the scale of whatever is down.            *)
(***************************************************************************)
EXTENDS BudgetShutdown, LedgerProofs

(*------------------------------- the types -------------------------------*)
LEMMA ShutdownConstants ==
  /\ Leader \in Pods /\ MaxScale \in Nat \ {0}
  /\ Modes \subseteq {"auto-on-reset", "manual"}
  /\ Notice \in Nat /\ Cooldown \in Nat
  /\ MaxCalls \in Nat /\ MaxEdits \in Nat /\ MaxFaults \in Nat
BY ShutdownAssumption

LEMMA NoRecordType == NoScale \in Scales /\ NoRecord \in Records
<1>1. NoScale \in Scales BY ShutdownConstants DEF NoScale, Scales
<1>2. NoConfig \in Configs BY DEF Configs
<1>3. QED BY <1>1, <1>2 DEF NoRecord, Records

LEMMA IdleTypes == IdleTick \in TickRecords /\ IdleCall \in CallRecords
<1>1. 0 \in 0..MaxTime /\ NoConfig \in Configs
  BY LedgerConstants DEF Configs
<1>2. IdleTick \in TickRecords
  BY <1>1, NoRecordType DEF IdleTick, TickRecords
<1>3. IdleCall \in CallRecords
  BY <1>1, NoRecordType DEF IdleCall, CallRecords
<1>4. QED BY <1>2, <1>3

TicksTyped == tick \in [Ticks -> TickRecords]
CallsTyped == call \in [Pods -> CallRecords]
Steps == Locked \cup {"idle", "lock", "sweep"}
Others(t) == \A u \in Ticks \ {t} : tick'[u] = tick[u]

(* What the updates of a tick do to its fields.                            *)
LEMMA GoEffect ==
  ASSUME TicksTyped, NEW t \in Ticks, NEW step \in Steps, Go(t, step)
  PROVE  /\ TicksTyped' /\ Others(t)
         /\ tick'[t].step = step
         /\ tick'[t].seen = tick[t].seen /\ tick'[t].at = tick[t].at
         /\ tick'[t].cfg = tick[t].cfg /\ tick'[t].next = tick[t].next
BY DEF TicksTyped, Go, Steps, Others, TickRecords

LEMMA WriteEffect ==
  ASSUME TicksTyped, NEW t \in Ticks, NEW r \in Records,
         NEW after \in {"flap", "drop", "sweep"}, Write(t, r, after)
  PROVE  /\ TicksTyped' /\ Others(t)
         /\ tick'[t].step = "persist"
         /\ tick'[t].seen = r /\ tick'[t].at = tick[t].at
         /\ tick'[t].cfg = tick[t].cfg /\ tick'[t].next = after
<1> DEFINE x == [tick[t] EXCEPT !.step = "persist", !.seen = r, !.next = after]
<1>1. tick[t] \in TickRecords /\ "persist" \in Locked
  BY DEF TicksTyped, Locked
<1>2. /\ x \in TickRecords /\ x.step = "persist" /\ x.seen = r
      /\ x.next = after /\ x.at = tick[t].at /\ x.cfg = tick[t].cfg
  BY <1>1 DEF TickRecords
<1>3. tick' = [tick EXCEPT ![t] = x]
  BY DEF Write, TicksTyped
<1> HIDE DEF x
<1>4. QED BY <1>2, <1>3 DEF TicksTyped, Others

LEMMA ShutEffect ==
  ASSUME TicksTyped, NEW t \in Ticks, NEW s \in Services,
         tick' = [tick EXCEPT ![t].todo = tick[t].todo \ {s}]
  PROVE  /\ TicksTyped' /\ Others(t)
         /\ tick'[t].step = tick[t].step
         /\ tick'[t].seen = tick[t].seen /\ tick'[t].at = tick[t].at
         /\ tick'[t].cfg = tick[t].cfg /\ tick'[t].next = tick[t].next
BY DEF TicksTyped, Others, TickRecords

LEMMA DueEffect ==
  ASSUME TicksTyped, NEW t \in Ticks,
         tick' = [tick EXCEPT ![t].step = "shut", ![t].todo = Services]
  PROVE  /\ TicksTyped' /\ Others(t)
         /\ tick'[t].step = "shut"
         /\ tick'[t].seen = tick[t].seen /\ tick'[t].at = tick[t].at
         /\ tick'[t].cfg = tick[t].cfg /\ tick'[t].next = tick[t].next
BY DEF TicksTyped, Others, TickRecords, Locked

LEMMA IdleEffect ==
  ASSUME TicksTyped, NEW t \in Ticks, tick' = [tick EXCEPT ![t] = IdleTick]
  PROVE  TicksTyped' /\ Others(t) /\ tick'[t] = IdleTick
BY IdleTypes DEF TicksTyped, Others

LEMMA ExamineEffect ==
  ASSUME TicksTyped, rec \in Records, flap \in Nat, NEW t \in Ticks, Examine(t)
  PROVE  /\ TicksTyped' /\ Others(t)
         /\ tick'[t].step = "decide"
         /\ tick'[t].seen = rec /\ tick'[t].at = tick[t].at
         /\ tick'[t].cfg = tick[t].cfg
<1> DEFINE x == [tick[t] EXCEPT !.step = "decide", !.seen = rec, !.flap = flap]
<1>1. tick[t] \in TickRecords /\ "decide" \in Locked
  BY DEF TicksTyped, Locked
<1>2. /\ x \in TickRecords /\ x.step = "decide" /\ x.seen = rec
      /\ x.at = tick[t].at /\ x.cfg = tick[t].cfg
  BY <1>1 DEF TickRecords
<1>3. tick' = [tick EXCEPT ![t] = x]
  BY DEF Examine, TicksTyped
<1> HIDE DEF x
<1>4. QED BY <1>2, <1>3 DEF TicksTyped, Others

LEMMA ChargeEffect ==
  ASSUME TicksTyped, LedgerInv, ns' \in Budgets, NEW t \in Ticks, Charge(t)
  PROVE  /\ TicksTyped' /\ Others(t)
         /\ tick'[t].step \in {"lock", "sweep"}
         /\ tick'[t].step = "lock" => ns.cfg.action = "auto-shutdown"
         /\ tick'[t].seen = NoRecord /\ tick'[t].at = now
         /\ tick'[t].cfg = ns.cfg
<1> DEFINE step == IF ns.cfg.action = "auto-shutdown" THEN "lock" ELSE "sweep"
           alerted == ns'.st.alerted
           r == [IdleTick EXCEPT !.at = now, !.cfg = ns.cfg, !.alerted = alerted,
                                 !.step = step]
<1>1. /\ now \in 0..MaxTime /\ ns.cfg \in Configs
      /\ alerted \in BOOLEAN /\ step \in {"lock", "sweep"}
  BY LedgerConstants DEF LedgerInv, Times, Budgets, States
<1>2. step = "lock" => ns.cfg.action = "auto-shutdown"
  OBVIOUS
<1> HIDE DEF step, alerted
<1>3. /\ r \in TickRecords /\ r.step = step /\ r.seen = NoRecord
      /\ r.at = now /\ r.cfg = ns.cfg
  <2>1. IdleTick \in TickRecords /\ IdleTick.seen = NoRecord
    BY IdleTypes DEF IdleTick
  <2>2. QED BY <1>1, <2>1 DEF TickRecords
<1>4. tick' = [tick EXCEPT ![t] = r]
  BY DEF Charge, step, alerted
<1> HIDE DEF r
<1>5. QED BY <1>1, <1>2, <1>3, <1>4 DEF TicksTyped, Others

(* The same of the calls.                                                  *)
CallSteps == {"idle", "cancel", "look", "restore", "drop", "force"}
OtherCalls(p) == \A q \in Pods \ {p} : call'[q] = call[q]

LEMMA ToEffect ==
  ASSUME CallsTyped, NEW p \in Pods, NEW step \in CallSteps, To(p, step)
  PROVE  /\ CallsTyped' /\ OtherCalls(p)
         /\ call'[p].step = step /\ call'[p].seen = call[p].seen
         /\ call'[p].todo = call[p].todo
BY DEF CallsTyped, To, CallSteps, OtherCalls, CallRecords

LEMMA LookEffect ==
  ASSUME CallsTyped, now \in Times, NEW p \in Pods, NEW r \in Records,
         call' = [call EXCEPT ![p].step = "restore", ![p].at = now,
                              ![p].seen = r, ![p].todo = Services]
  PROVE  /\ CallsTyped' /\ OtherCalls(p)
         /\ call'[p].step = "restore" /\ call'[p].seen = r
         /\ call'[p].todo = Services
<1> DEFINE x == [call[p] EXCEPT !.step = "restore", !.at = now, !.seen = r,
                                !.todo = Services]
<1>1. call[p] \in CallRecords /\ now \in 0..MaxTime
  BY LedgerConstants DEF CallsTyped, Times
<1>2. /\ x \in CallRecords /\ x.step = "restore" /\ x.seen = r
      /\ x.todo = Services
  BY <1>1 DEF CallRecords
<1>3. call' = [call EXCEPT ![p] = x]
  BY DEF CallsTyped
<1> HIDE DEF x
<1>4. ASSUME NEW y \in CallRecords, call' = [call EXCEPT ![p] = y]
      PROVE  CallsTyped' /\ OtherCalls(p) /\ call'[p] = y
  BY <1>4 DEF CallsTyped, OtherCalls
<1>5. QED BY <1>2, <1>3, <1>4

LEMMA TodoEffect ==
  ASSUME CallsTyped, NEW p \in Pods, NEW s \in Services,
         \/ call' = [call EXCEPT ![p].todo = call[p].todo \ {s}]
         \/ call' = [call EXCEPT ![p].todo = call[p].todo \ {s}, ![p].manual = TRUE]
         \/ call' = [call EXCEPT ![p].todo = call[p].todo \ {s}, ![p].up = TRUE]
  PROVE  /\ CallsTyped' /\ OtherCalls(p)
         /\ call'[p].step = call[p].step /\ call'[p].seen = call[p].seen
         /\ call'[p].todo = call[p].todo \ {s}
<1> DEFINE left == call[p].todo \ {s}
<1>1. call[p] \in CallRecords /\ left \subseteq Services
  BY DEF CallsTyped, CallRecords
<1>2. ASSUME NEW x \in CallRecords, x.step = call[p].step,
             x.seen = call[p].seen, x.todo = left, call' = [call EXCEPT ![p] = x]
      PROVE  /\ CallsTyped' /\ OtherCalls(p)
             /\ call'[p].step = call[p].step /\ call'[p].seen = call[p].seen
             /\ call'[p].todo = call[p].todo \ {s}
  BY <1>2 DEF CallsTyped, OtherCalls
<1> HIDE DEF left
<1> DEFINE a == [call[p] EXCEPT !.todo = left]
           b == [call[p] EXCEPT !.todo = left, !.manual = TRUE]
           c == [call[p] EXCEPT !.todo = left, !.up = TRUE]
<1>3. \A x \in {a, b, c} : /\ x \in CallRecords /\ x.step = call[p].step
                           /\ x.seen = call[p].seen /\ x.todo = left
  BY <1>1 DEF CallRecords
<1>4. \E x \in {a, b, c} : call' = [call EXCEPT ![p] = x]
  BY DEF CallsTyped, left
<1> HIDE DEF a, b, c
<1>5. QED BY <1>2, <1>3, <1>4

LEMMA EndEffect ==
  ASSUME CallsTyped, NEW p \in Pods, call' = [call EXCEPT ![p] = IdleCall]
  PROVE  CallsTyped' /\ OtherCalls(p) /\ call'[p] = IdleCall
BY IdleTypes DEF CallsTyped, OtherCalls

LEMMA ResetEffect ==
  ASSUME CallsTyped, NEW p \in Pods, ResetState(p)
  PROVE  /\ CallsTyped' /\ OtherCalls(p)
         /\ call'[p].step = IF Armed(rec) THEN "cancel" ELSE "look"
<1> DEFINE step == IF Armed(rec) THEN "cancel" ELSE "look"
<1>1. PICK force \in BOOLEAN :
        call' = [call EXCEPT ![p] = [IdleCall EXCEPT !.step = step, !.force = force]]
  BY DEF ResetState
<1>2. step \in {"cancel", "look"} OBVIOUS
<1> HIDE DEF step
<1> DEFINE x == [IdleCall EXCEPT !.step = step, !.force = force]
<1>3. x \in CallRecords /\ x.step = step
  BY <1>2, IdleTypes DEF CallRecords
<1> HIDE DEF x
<1>4. QED BY <1>1, <1>3 DEF CallsTyped, OtherCalls, x, step

(* What a tick may decide on, and to write.                                *)
NewRecord(at, mode, cfg) ==
  [NoRecord EXCEPT !.armedAt = at, !.mode = mode, !.hash = cfg, !.scale = replicas]

LEMMA RecordWrites ==
  ASSUME NEW r \in Records, NEW at \in Nat
  PROVE  /\ [r EXCEPT !.expiredAt = at] \in Records
         /\ [r EXCEPT !.restoredAt = at] \in Records
         /\ [r EXCEPT !.shutdownAt = at] \in Records
BY DEF Records

LEMMA NewRecordType ==
  ASSUME NEW at \in Nat, NEW mode \in Modes, NEW cfg \in Configs,
         replicas \in Scales
  PROVE  /\ NewRecord(at, mode, cfg) \in Records
         /\ NewRecord(at, mode, cfg).armedAt = at
         /\ NewRecord(at, mode, cfg).shutdownAt = 0
         /\ NewRecord(at, mode, cfg).restoredAt = 0
         /\ NewRecord(at, mode, cfg).expiredAt = 0
         /\ NewRecord(at, mode, cfg).hash = cfg
         /\ NewRecord(at, mode, cfg).scale = replicas
<1>1. mode \in {"auto-on-reset", "manual"} BY ShutdownConstants
<1>2. /\ NoRecord \in Records /\ NoRecord.shutdownAt = 0
      /\ NoRecord.restoredAt = 0 /\ NoRecord.expiredAt = 0
  BY NoRecordType DEF NoRecord
<1>3. QED BY <1>1, <1>2 DEF NewRecord, Records

LEMMA DecideCases ==
  ASSUME NEW t \in Ticks, Decide(t)
  PROVE  LET r   == tick[t].seen
             at  == tick[t].at
             cfg == tick[t].cfg
         IN  \/ ScaledUpWhileArmed(r) /\ Go(t, "drop")
             \/ Expires(r, at) /\ Write(t, [r EXCEPT !.expiredAt = at], "sweep")
             \/ ScaledUpAgain(r) /\ Write(t, [r EXCEPT !.restoredAt = at], "flap")
             \/ Go(t, "sweep")
             \/ Reconfigured(r, cfg) /\ Armed(r) /\ Write(t, r, "drop")
             \/ /\ Reconfigured(r, cfg) /\ ~Armed(r)
                /\ Write(t, [r EXCEPT !.restoredAt = at], "sweep")
             \/ /\ r = NoRecord
                /\ \E mode \in Modes : Write(t, NewRecord(at, mode, cfg), "sweep")
             \/ /\ Armed(r)
                /\ tick' = [tick EXCEPT ![t].step = "shut", ![t].todo = Services]
BY DEF Decide, NewRecord, Due

ShutdownTypes ==
  /\ LedgerInv
  /\ rec \in Records /\ flap \in Nat
  /\ replicas \in Scales /\ taken \in Scales
  /\ TicksTyped /\ CallsTyped
  /\ calls \in 0..MaxCalls /\ edits \in 0..MaxEdits /\ faults \in 0..MaxFaults

(* Every step is one of the ledger or leaves it alone.                     *)
LEMMA ShutdownRefines ==
  ASSUME LedgerInv, [ShutdownNext]_vars
  PROVE  [Next]_ledger
<1>1. now \in 1..now
  BY LedgerConstants DEF LedgerInv, Times
<1>2. ASSUME NEW t \in Ticks, Charge(t) PROVE [Next]_ledger
  BY <1>1, <1>2 DEF Charge, Next, Operation, Tick
<1>3. ASSUME NEW t \in Ticks, TickStep(t) PROVE UNCHANGED ledger
  BY <1>3 DEF TickStep, Examine, Decide, Shut, ShutDone, Persist, Suppress,
              Drop, Sweep, ledger, space
<1>4. ASSUME NEW p \in Pods, SetBudget(p) \/ ClearBudget(p) \/ ResetState(p)
      PROVE  [Next]_ledger
  <2>1. CASE SetBudget(p)
    BY <2>1 DEF SetBudget, Next, Operation, Set
  <2>2. CASE ClearBudget(p)
    BY <2>2 DEF ClearBudget, Next, Operation, Clear
  <2>3. CASE ResetState(p)
    <3>1. PICK period \in {FALSE} \cup {"period" \in Env} :
            ns' = AfterReset(ns, period, now) /\ now' = now
      BY <2>3 DEF ResetState
    <3>2. period \in BOOLEAN
      <4>1. CASE period = FALSE BY <4>1
      <4>2. CASE period = ("period" \in Env) /\ "period" \in Env BY <4>2
      <4>3. CASE period = ("period" \in Env) /\ "period" \notin Env BY <4>3
      <4>4. QED BY <4>1, <4>2, <4>3
    <3>3. QED BY <1>1, <3>1, <3>2 DEF Next, Operation, Reset
  <2>4. QED BY <1>4, <2>1, <2>2, <2>3
<1>5. ASSUME NEW p \in Pods, CallStep(p) PROVE UNCHANGED ledger
  BY <1>5 DEF CallStep, CancelArmed, Look, Restore, Restored, DropRestored,
              EndReset, ledger, space
<1>6. ASSUME (\E s \in Services : Scale(s)) \/ Fault PROVE UNCHANGED ledger
  BY <1>6 DEF Scale, Fault, WriteFails, ShutFails, Crash, DeleteFails,
              RestoreFails, ledger, space
<1>7. CASE Pass BY <1>7 DEF Pass, Next
<1>8. CASE UNCHANGED vars BY <1>8 DEF vars, ledger
<1>9. QED
  BY <1>2, <1>3, <1>4, <1>5, <1>6, <1>7, <1>8 DEF ShutdownNext

LEMMA ShutdownInitTyped == ShutdownInit => ShutdownTypes
<1> SUFFICES ASSUME ShutdownInit PROVE ShutdownTypes
  OBVIOUS
<1>1. LedgerInv BY LedgerInit DEF ShutdownInit
<1>2. [s \in Services |-> 1] \in Scales /\ NoScale \in Scales
  BY ShutdownConstants, NoRecordType DEF Scales
<1>3. TicksTyped /\ CallsTyped
  BY IdleTypes DEF ShutdownInit, TicksTyped, CallsTyped
<1>4. QED
  BY <1>1, <1>2, <1>3, NoRecordType, ShutdownConstants
  DEF ShutdownInit, ShutdownTypes

LEMMA ScaleWrite ==
  ASSUME NEW f \in Scales, NEW s \in Services, NEW n \in 0..MaxScale
  PROVE  [f EXCEPT ![s] = n] \in Scales
BY DEF Scales

LEMMA TickTimes == ShutdownTypes => \A t \in Ticks : tick[t].at \in Nat
BY LedgerConstants DEF ShutdownTypes, TicksTyped, TickRecords

LEMMA TickTyped ==
  ASSUME ShutdownTypes, NEW t \in Ticks, TickStep(t)
  PROVE  /\ rec' \in Records /\ flap' \in Nat
         /\ replicas' \in Scales /\ taken' \in Scales
         /\ TicksTyped'
<1> USE DEF ShutdownTypes
<1>1. /\ tick[t] \in TickRecords /\ tick[t].seen \in Records
      /\ tick[t].at \in Nat /\ tick[t].cfg \in Configs
      /\ tick[t].next \in {"flap", "drop", "sweep"} /\ tick[t].next \in Steps
  BY TickTimes DEF TicksTyped, TickRecords, Steps, Locked
<1>2. {"drop", "sweep", "flap"} \subseteq Steps
  BY DEF Steps, Locked
<1>3. CASE Examine(t)
  BY <1>3, ExamineEffect DEF Examine, space
<1>4. CASE Decide(t)
  <2>1. UNCHANGED <<rec, flap, replicas, taken>>
    BY <1>4 DEF Decide, space
  <2>2. ASSUME NEW mode \in Modes
        PROVE  NewRecord(tick[t].at, mode, tick[t].cfg) \in Records
    BY <1>1, NewRecordType
  <2>3. TicksTyped'
    BY <1>1, <1>2, <1>4, <2>2, DecideCases, GoEffect, WriteEffect, DueEffect,
       RecordWrites
  <2>4. QED BY <2>1, <2>3
<1>5. ASSUME NEW s \in Services, Shut(t, s)
      PROVE  /\ rec' \in Records /\ flap' \in Nat
             /\ replicas' \in Scales /\ taken' \in Scales
             /\ TicksTyped'
  <2>1. TicksTyped' BY <1>5, ShutEffect DEF Shut
  <2>2. 0 \in 0..MaxScale /\ replicas[s] \in 0..MaxScale /\ taken[s] \in 0..MaxScale
    BY ShutdownConstants DEF Scales
  <2>3. QED BY <1>5, <2>1, <2>2, ScaleWrite DEF Shut, space
<1>6. CASE ShutDone(t)
  BY <1>1, <1>6, RecordWrites, WriteEffect DEF ShutDone, space
<1>7. CASE Persist(t)
  BY <1>1, <1>7, GoEffect DEF Persist
<1>8. CASE Suppress(t)
  <2>1. tick[t].at + Cooldown \in Nat BY <1>1, ShutdownConstants
  <2>2. QED BY <1>2, <1>8, <2>1, GoEffect DEF Suppress
<1>9. CASE Drop(t)
  BY <1>2, <1>9, GoEffect, NoRecordType DEF Drop
<1>10. CASE Sweep(t)
  BY <1>10, IdleEffect, NoRecordType DEF Sweep
<1>11. QED
  BY <1>3, <1>4, <1>5, <1>6, <1>7, <1>8, <1>9, <1>10 DEF TickStep

LEMMA CallTyped ==
  ASSUME ShutdownTypes, NEW p \in Pods, CallStep(p)
  PROVE  /\ rec' \in Records /\ flap' \in Nat
         /\ replicas' \in Scales /\ taken' \in Scales
         /\ CallsTyped'
<1> USE DEF ShutdownTypes
<1>1. /\ call[p] \in CallRecords /\ call[p].seen \in Records
      /\ call[p].at \in Nat
  BY LedgerConstants DEF CallsTyped, CallRecords
<1>2. {"look", "drop", "force"} \subseteq CallSteps
  BY DEF CallSteps
<1>3. CASE CancelArmed(p)
  BY <1>2, <1>3, ToEffect, NoRecordType DEF CancelArmed
<1>4. CASE Look(p)
  BY <1>2, <1>4, ToEffect, LookEffect DEF Look, space, LedgerInv
<1>5. ASSUME NEW s \in Services, Restore(p, s)
      PROVE  /\ rec' \in Records /\ flap' \in Nat
             /\ replicas' \in Scales /\ taken' \in Scales
             /\ CallsTyped'
  <2>1. CallsTyped' BY <1>5, TodoEffect DEF Restore
  <2>2. 0 \in 0..MaxScale /\ taken[s] \in 0..MaxScale
        /\ call[p].seen.scale[s] \in 0..MaxScale
    BY <1>1, ShutdownConstants DEF Scales, Records
  <2>3. QED BY <1>5, <2>1, <2>2, ScaleWrite DEF Restore, space
<1>6. CASE Restored(p)
  <2>1. call[p].at + Cooldown \in Nat BY <1>1, ShutdownConstants
  <2>2. QED BY <1>2, <1>6, <2>1, ToEffect DEF Restored
<1>7. CASE DropRestored(p)
  BY <1>2, <1>7, ToEffect, NoRecordType DEF DropRestored
<1>8. CASE EndReset(p)
  BY <1>8, EndEffect DEF EndReset
<1>9. QED BY <1>3, <1>4, <1>5, <1>6, <1>7, <1>8 DEF CallStep

LEMMA FaultTyped ==
  ASSUME ShutdownTypes, Fault
  PROVE  TicksTyped' /\ CallsTyped'
<1> USE DEF ShutdownTypes
<1>1. ASSUME NEW t \in Ticks, WriteFails(t) PROVE TicksTyped' /\ CallsTyped'
  <2> DEFINE step == IF tick[t].step = "persist" THEN tick[t].next ELSE "sweep"
  <2>1. step \in Steps
    BY DEF TicksTyped, TickRecords, Steps, Locked
  <2>2. Go(t, step) /\ call' = call BY <1>1 DEF WriteFails
  <2> HIDE DEF step
  <2>3. QED BY <2>1, <2>2, GoEffect DEF CallsTyped
<1>2. ASSUME NEW t \in Ticks, NEW s \in Services, ShutFails(t, s)
      PROVE  TicksTyped' /\ CallsTyped'
  BY <1>2, ShutEffect DEF ShutFails, CallsTyped
<1>3. ASSUME NEW p \in Pods, Crash(p) PROVE TicksTyped' /\ CallsTyped'
  BY <1>3, IdleTypes, EndEffect DEF Crash, TicksTyped
<1>4. ASSUME NEW p \in Pods, DeleteFails(p) PROVE TicksTyped' /\ CallsTyped'
  <2> DEFINE step == IF call[p].step = "cancel" THEN "look" ELSE "force"
  <2>1. step \in CallSteps BY DEF CallSteps
  <2>2. To(p, step) /\ tick' = tick BY <1>4 DEF DeleteFails
  <2> HIDE DEF step
  <2>3. QED BY <2>1, <2>2, ToEffect DEF TicksTyped
<1>5. ASSUME NEW p \in Pods, NEW s \in Services, RestoreFails(p, s)
      PROVE  TicksTyped' /\ CallsTyped'
  BY <1>5, TodoEffect DEF RestoreFails, TicksTyped
<1>6. QED BY <1>1, <1>2, <1>3, <1>4, <1>5 DEF Fault

LEMMA CountersTyped ==
  ASSUME ShutdownTypes, [ShutdownNext]_vars
  PROVE  calls' \in 0..MaxCalls /\ edits' \in 0..MaxEdits /\ faults' \in 0..MaxFaults
<1>1. /\ calls' = calls \/ (calls < MaxCalls /\ calls' = calls + 1)
      /\ edits' = edits \/ (edits < MaxEdits /\ edits' = edits + 1)
      /\ faults' = faults \/ (faults < MaxFaults /\ faults' = faults + 1)
  <2>1. ASSUME NEW t \in Ticks, Charge(t) \/ TickStep(t)
        PROVE  UNCHANGED bounds
    BY <2>1 DEF Charge, TickStep, Examine, Decide, Shut, ShutDone, Persist,
                Suppress, Drop, Sweep
  <2>2. ASSUME NEW p \in Pods, CallStep(p) PROVE UNCHANGED bounds
    BY <2>2 DEF CallStep, CancelArmed, Look, Restore, Restored, DropRestored,
                EndReset
  <2>3. CASE Pass BY <2>3 DEF Pass, bounds
  <2>4. CASE UNCHANGED vars BY <2>4 DEF vars, bounds
  <2>5. CASE Fault
    BY <2>5 DEF Fault, WriteFails, ShutFails, Crash, DeleteFails, RestoreFails
  <2>6. ASSUME NEW p \in Pods, SetBudget(p) \/ ClearBudget(p) \/ ResetState(p)
        PROVE  calls < MaxCalls /\ calls' = calls + 1 /\ UNCHANGED <<edits, faults>>
    BY <2>6 DEF SetBudget, ClearBudget, ResetState, Called
  <2>7. ASSUME NEW s \in Services, Scale(s)
        PROVE  edits < MaxEdits /\ edits' = edits + 1 /\ UNCHANGED <<calls, faults>>
    BY <2>7 DEF Scale
  <2>8. QED
    BY <2>1, <2>2, <2>3, <2>4, <2>5, <2>6, <2>7 DEF ShutdownNext, bounds
<1>2. QED BY <1>1, ShutdownConstants DEF ShutdownTypes

LEMMA ShutdownTyped ==
  ASSUME ShutdownTypes, [ShutdownNext]_vars
  PROVE  ShutdownTypes'
<1> USE DEF ShutdownTypes
<1>1. LedgerInv' BY ShutdownRefines, LedgerStep
<1>2. rec' \in Records /\ flap' \in Nat /\ replicas' \in Scales /\ taken' \in Scales
      /\ TicksTyped' /\ CallsTyped'
  <2>1. ASSUME NEW t \in Ticks, Charge(t) PROVE <1>2!:
    <3>1. TicksTyped' BY <1>1, <2>1, ChargeEffect DEF LedgerInv
    <3>2. QED BY <2>1, <3>1 DEF Charge, CallsTyped
  <2>2. ASSUME NEW t \in Ticks, TickStep(t) PROVE <1>2!:
    <3>1. call' = call
      BY <2>2 DEF TickStep, Examine, Decide, Shut, ShutDone, Persist,
                  Suppress, Drop, Sweep
    <3>2. QED BY <2>2, <3>1, TickTyped DEF CallsTyped
  <2>3. ASSUME NEW p \in Pods, CallStep(p) PROVE <1>2!:
    <3>1. tick' = tick
      BY <2>3 DEF CallStep, CancelArmed, Look, Restore, Restored,
                  DropRestored, EndReset
    <3>2. QED BY <2>3, <3>1, CallTyped DEF TicksTyped
  <2>4. ASSUME NEW p \in Pods, SetBudget(p) \/ ClearBudget(p) PROVE <1>2!:
    BY <2>4, NoRecordType DEF SetBudget, ClearBudget, TicksTyped, CallsTyped
  <2>5. ASSUME NEW p \in Pods, ResetState(p) PROVE <1>2!:
    <3>1. CallsTyped' BY <2>5, ResetEffect
    <3>2. QED BY <2>5, <3>1 DEF ResetState, TicksTyped
  <2>6. ASSUME NEW s \in Services, Scale(s) PROVE <1>2!:
    <3>1. 0 \in 0..MaxScale /\ taken[s] \in 0..MaxScale
      BY ShutdownConstants DEF Scales
    <3>2. PICK n \in 0..MaxScale :
            /\ replicas' = [replicas EXCEPT ![s] = n]
            /\ taken' = [taken EXCEPT ![s] = IF n > 0 THEN 0 ELSE taken[s]]
      BY <2>6 DEF Scale
    <3>3. replicas' \in Scales /\ taken' \in Scales
      BY <3>1, <3>2, ScaleWrite
    <3>4. QED BY <2>6, <3>3 DEF Scale, space, TicksTyped, CallsTyped
  <2>7. CASE Fault
    <3>1. UNCHANGED <<rec, flap, replicas, taken>>
      BY <2>7 DEF Fault, WriteFails, ShutFails, Crash, DeleteFails,
                  RestoreFails, space
    <3>2. QED BY <2>7, <3>1, FaultTyped
  <2>8. CASE Pass BY <2>8 DEF Pass, TicksTyped, CallsTyped
  <2>9. CASE UNCHANGED vars BY <2>9 DEF vars, TicksTyped, CallsTyped
  <2>10. QED
    BY <2>1, <2>2, <2>3, <2>4, <2>5, <2>6, <2>7, <2>8, <2>9 DEF ShutdownNext
<1>3. QED BY <1>1, <1>2, CountersTyped

(* The record, the scales and what ticks and calls hold stay within their  *)
(* types, with any number of pods, faults and configuration changes.       *)
THEOREM TypeCorrect == ShutdownSpec => []TypeOK
<1>1. ShutdownTypes => TypeOK
  BY DEF ShutdownTypes, TypeOK, LedgerInv, Times, TicksTyped, CallsTyped
<1>2. ShutdownTypes /\ [ShutdownNext]_vars => ShutdownTypes'
  BY ShutdownTyped
<1>3. QED BY <1>1, <1>2, ShutdownInitTyped, PTL DEF ShutdownSpec

(* With shutdowns, resets and faults around it the budget still acts as    *)
(* the ledger: arming, firing and restoring do not touch it, and a reset,  *)
(* a set and a tick's accounting are one step of it each.                  *)
THEOREM ShutdownImplementsLedger == ShutdownSpec => Spec
<1>1. ShutdownInit => Init BY DEF ShutdownInit
<1>2. ShutdownTypes /\ [ShutdownNext]_vars => ShutdownTypes'
  BY ShutdownTyped
<1>3. ShutdownTypes /\ [ShutdownNext]_vars => [Next]_ledger
  BY ShutdownRefines DEF ShutdownTypes
<1>4. QED BY <1>1, <1>2, <1>3, ShutdownInitTyped, PTL DEF ShutdownSpec, Spec

(*-------------------------------- the lock -------------------------------*)
(* One API process: then the accumulator and the resets share one lock.    *)
OnePod == Pods = {Leader}

InLock(t) == tick[t].step \in Locked

LockInv ==
  /\ \A t, u \in Ticks : InLock(t) /\ InLock(u) => t = u
  /\ \A t \in Ticks, p \in Pods : InLock(t) => call[p].step = "idle"

LEMMA LockKept ==
  ASSUME LockInv, NEW t \in Ticks, Others(t), call' = call,
         tick'[t].step \in Locked => InLock(t)
  PROVE  LockInv'
BY DEF LockInv, InLock, Others

LEMMA TickOthers ==
  ASSUME ShutdownTypes, NEW t \in Ticks, TickStep(t)
  PROVE  Others(t) /\ call' = call /\ (InLock(t) \/ Examine(t) \/ Sweep(t))
<1> USE DEF ShutdownTypes
<1>1. /\ tick[t].seen \in Records /\ tick[t].at \in Nat /\ tick[t].cfg \in Configs
      /\ tick[t].next \in {"flap", "drop", "sweep"} /\ tick[t].next \in Steps
  BY TickTimes DEF TicksTyped, TickRecords, Steps, Locked
<1>2. {"drop", "sweep"} \subseteq Steps
  BY DEF Steps, Locked
<1>3. CASE Examine(t)
  BY <1>3, ExamineEffect DEF Examine
<1>4. CASE Decide(t)
  <2>1. ASSUME NEW mode \in Modes
        PROVE  NewRecord(tick[t].at, mode, tick[t].cfg) \in Records
    BY <1>1, NewRecordType
  <2>2. Others(t)
    BY <1>1, <1>2, <1>4, <2>1, DecideCases, GoEffect, WriteEffect, DueEffect,
       RecordWrites
  <2>3. QED BY <1>4, <2>2 DEF Decide, InLock, Locked
<1>5. ASSUME NEW s \in Services, Shut(t, s)
      PROVE  Others(t) /\ call' = call /\ InLock(t)
  BY <1>5, ShutEffect DEF Shut, InLock, Locked
<1>6. CASE ShutDone(t)
  BY <1>1, <1>6, RecordWrites, WriteEffect DEF ShutDone, InLock, Locked
<1>7. CASE Persist(t)
  BY <1>1, <1>7, GoEffect DEF Persist, InLock, Locked
<1>8. CASE Suppress(t)
  BY <1>2, <1>8, GoEffect DEF Suppress, InLock, Locked
<1>9. CASE Drop(t)
  BY <1>2, <1>9, GoEffect DEF Drop, InLock, Locked
<1>10. CASE Sweep(t)
  BY <1>10, IdleEffect DEF Sweep
<1>11. QED
  BY <1>3, <1>4, <1>5, <1>6, <1>7, <1>8, <1>9, <1>10 DEF TickStep

(* What a fault does to the ticks: it moves one on, or ends all of them.   *)
LEMMA FaultTicks ==
  ASSUME ShutdownTypes, OnePod, Fault
  PROVE  \/ /\ \A t \in Ticks : tick'[t] = IdleTick
            /\ \A p \in Pods : call'[p] = IdleCall
         \/ /\ tick' = tick
            /\ \A p \in Pods : /\ call[p].step # "idle" \/ call'[p] = call[p]
                               /\ call'[p].seen = call[p].seen
         \/ /\ call' = call
            /\ \E t \in Ticks :
                 /\ Others(t) /\ InLock(t)
                 /\ tick'[t].seen = tick[t].seen
                 /\ \/ tick'[t].step = tick[t].step
                    \/ /\ tick[t].step = "persist" /\ tick'[t].step = tick[t].next
                    \/ tick'[t].step = "sweep"
<1> USE DEF ShutdownTypes
<1>1. ASSUME NEW t \in Ticks, WriteFails(t)
      PROVE  /\ call' = call /\ Others(t) /\ InLock(t)
             /\ tick'[t].seen = tick[t].seen
             /\ \/ /\ tick[t].step = "persist" /\ tick'[t].step = tick[t].next
                \/ tick'[t].step = "sweep"
  <2> DEFINE step == IF tick[t].step = "persist" THEN tick[t].next ELSE "sweep"
  <2>1. step \in Steps
    BY DEF TicksTyped, TickRecords, Steps, Locked
  <2>2. /\ Go(t, step) /\ call' = call /\ InLock(t)
        /\ step = "sweep" \/ (tick[t].step = "persist" /\ step = tick[t].next)
    BY <1>1 DEF WriteFails, InLock, Locked
  <2> HIDE DEF step
  <2>3. QED BY <2>1, <2>2, GoEffect
<1>2. ASSUME NEW t \in Ticks, NEW s \in Services, ShutFails(t, s)
      PROVE  /\ call' = call /\ Others(t) /\ InLock(t)
             /\ tick'[t].seen = tick[t].seen /\ tick'[t].step = tick[t].step
  BY <1>2, ShutEffect DEF ShutFails, InLock, Locked
<1>3. ASSUME NEW p \in Pods, Crash(p)
      PROVE  /\ \A t \in Ticks : tick'[t] = IdleTick
             /\ \A q \in Pods : call'[q] = IdleCall
  BY <1>3, EndEffect DEF Crash, OnePod, CallsTyped
<1>4. ASSUME NEW p \in Pods,
             DeleteFails(p) \/ \E s \in Services : RestoreFails(p, s)
      PROVE  /\ tick' = tick
             /\ \A q \in Pods : /\ call[q].step # "idle" \/ call'[q] = call[q]
                                /\ call'[q].seen = call[q].seen
  <2>1. ASSUME DeleteFails(p)
        PROVE  /\ tick' = tick /\ OtherCalls(p) /\ call[p].step # "idle"
               /\ call'[p].seen = call[p].seen
    <3> DEFINE step == IF call[p].step = "cancel" THEN "look" ELSE "force"
    <3>1. step \in CallSteps BY DEF CallSteps
    <3>2. To(p, step) /\ tick' = tick /\ call[p].step # "idle"
      BY <2>1 DEF DeleteFails
    <3> HIDE DEF step
    <3>3. QED BY <3>1, <3>2, ToEffect
  <2>2. ASSUME NEW s \in Services, RestoreFails(p, s)
        PROVE  /\ tick' = tick /\ OtherCalls(p) /\ call[p].step # "idle"
               /\ call'[p].seen = call[p].seen
    BY <2>2, TodoEffect DEF RestoreFails
  <2>3. QED BY <1>4, <2>1, <2>2 DEF OtherCalls
<1>5. QED BY <1>1, <1>2, <1>3, <1>4 DEF Fault

LEMMA LockStep ==
  ASSUME ShutdownTypes, LockInv, OnePod, [ShutdownNext]_vars
  PROVE  LockInv'
<1> USE DEF ShutdownTypes
<1>1. ASSUME NEW t \in Ticks, Charge(t) PROVE LockInv'
  <2>1. ns' \in Budgets BY ShutdownRefines, LedgerStep DEF LedgerInv
  <2>2. Others(t) /\ tick'[t].step \notin Locked /\ call' = call
    BY <1>1, <2>1, ChargeEffect DEF Charge, Locked
  <2>3. QED BY <2>2, LockKept
<1>2. ASSUME NEW t \in Ticks, TickStep(t) PROVE LockInv'
  <2>1. Others(t) /\ call' = call BY <1>2, TickOthers
  <2>2. CASE InLock(t) BY <2>1, <2>2, LockKept
  <2>3. CASE Sweep(t)
    <3>1. tick'[t] = IdleTick BY <2>3, IdleEffect DEF Sweep
    <3>2. tick'[t].step \notin Locked BY <3>1 DEF IdleTick, Locked
    <3>3. QED BY <2>1, <3>2, LockKept
  <2>4. CASE Examine(t)
    BY <2>1, <2>4 DEF Examine, Free, OnePod, LockInv, InLock, Others
  <2>5. QED BY <1>2, <2>2, <2>3, <2>4, TickOthers
<1>3. ASSUME NEW p \in Pods, SetBudget(p) \/ ClearBudget(p) PROVE LockInv'
  BY <1>3 DEF SetBudget, ClearBudget, LockInv, InLock
<1>4. ASSUME NEW p \in Pods, ResetState(p) PROVE LockInv'
  BY <1>4 DEF ResetState, Free, OnePod, LockInv, InLock
<1>5. ASSUME NEW p \in Pods, CallStep(p) PROVE LockInv'
  <2>1. tick' = tick /\ call[p].step # "idle"
    BY <1>5 DEF CallStep, CancelArmed, Look, Restore, Restored, DropRestored,
                EndReset
  <2>2. QED BY <2>1 DEF LockInv, InLock, OnePod
<1>6. CASE Fault
  <2>1. CASE /\ \A t \in Ticks : tick'[t] = IdleTick
             /\ \A p \in Pods : call'[p] = IdleCall
    BY <2>1 DEF LockInv, InLock, IdleTick, Locked
  <2>2. CASE /\ tick' = tick
             /\ \A p \in Pods : call[p].step # "idle" \/ call'[p] = call[p]
    BY <2>2 DEF LockInv, InLock
  <2>3. ASSUME call' = call, NEW t \in Ticks, Others(t), InLock(t) PROVE LockInv'
    BY <2>3, LockKept
  <2>4. QED BY <1>6, <2>1, <2>2, <2>3, FaultTicks
<1>7. CASE (\E s \in Services : Scale(s)) \/ Pass \/ UNCHANGED vars
  BY <1>7 DEF Scale, Pass, vars, LockInv, InLock
<1>8. QED
  BY <1>1, <1>2, <1>3, <1>4, <1>5, <1>6, <1>7 DEF ShutdownNext

(*----------------------- what was read under the lock --------------------*)
(* A notice that stands has not ended: the sweep does not take it.         *)
Sane(r) == Armed(r) => EndedAt(r) = 0

(* How the record a tick has read, or is about to write, stands to the one *)
(* on the namespace: only the sweep, which takes no lock, may come between.*)
ReadBy(t) ==
  /\ Sane(tick[t].seen)
  /\ tick[t].step = "decide" =>
       rec = tick[t].seen \/ (rec = NoRecord /\ EndedAt(tick[t].seen) # 0)
  /\ tick[t].step = "shut" => rec = tick[t].seen /\ Armed(rec)
  /\ tick[t].step = "persist" =>
       rec = NoRecord \/ rec.armedAt = tick[t].seen.armedAt

ReadInv == Sane(rec) /\ \A t \in Ticks : ReadBy(t)

LEMMA NoRecordIsIdle ==
  Sane(NoRecord) /\ ~Armed(NoRecord) /\ EndedAt(NoRecord) = 0
BY DEF Sane, Armed, EndedAt, NoRecord

(* Who changes the record: the tick in the lock, a call when no tick is in *)
(* it, or the sweep.                                                       *)
LEMMA RecordChanges ==
  ASSUME ShutdownTypes, LockInv, OnePod, [ShutdownNext]_vars
  PROVE  \/ rec' = rec
         \/ Stale(rec) /\ rec' = NoRecord
         \/ rec' = NoRecord /\ \A u \in Ticks : ~InLock(u)
         \/ \E t \in Ticks : InLock(t) /\ (Persist(t) \/ Drop(t))
<1>1. ASSUME NEW t \in Ticks, Charge(t) PROVE rec' = rec
  BY <1>1 DEF Charge
<1>2. ASSUME NEW t \in Ticks, TickStep(t)
      PROVE  \/ rec' = rec
             \/ Stale(rec) /\ rec' = NoRecord
             \/ InLock(t) /\ (Persist(t) \/ Drop(t))
  BY <1>2 DEF TickStep, Examine, Decide, Shut, ShutDone, Persist, Suppress,
              Drop, Sweep, InLock, Locked, space
<1>3. ASSUME NEW p \in Pods, SetBudget(p) \/ ClearBudget(p) \/ ResetState(p)
      PROVE  rec' = rec \/ (rec' = NoRecord /\ \A u \in Ticks : ~InLock(u))
  BY <1>3 DEF SetBudget, ClearBudget, ResetState, Free, OnePod, InLock
<1>4. ASSUME NEW p \in Pods, CallStep(p)
      PROVE  rec' = rec \/ (rec' = NoRecord /\ \A u \in Ticks : ~InLock(u))
  <2>1. call[p].step # "idle" /\ (rec' = rec \/ rec' = NoRecord)
    BY <1>4 DEF CallStep, CancelArmed, Look, Restore, Restored, DropRestored,
                EndReset, space
  <2>2. QED BY <2>1 DEF LockInv
<1>5. CASE (\E s \in Services : Scale(s)) \/ Fault \/ Pass \/ UNCHANGED vars
  BY <1>5 DEF Scale, Fault, WriteFails, ShutFails, Crash, DeleteFails,
              RestoreFails, Pass, vars, space
<1>6. QED
  BY <1>1, <1>2, <1>3, <1>4, <1>5 DEF ShutdownNext

(* A tick that does not move keeps what it has read.                       *)
LEMMA ReadKept ==
  ASSUME ReadInv, NEW u \in Ticks, tick'[u] = tick[u],
         \/ rec' = rec
         \/ Stale(rec) /\ rec' = NoRecord
         \/ ~InLock(u)
  PROVE  ReadBy(u)'
<1>1. CASE rec' = rec
  BY <1>1 DEF ReadInv, ReadBy, Sane, Armed, EndedAt
<1>2. CASE Stale(rec) /\ rec' = NoRecord
  <2>1. ~Armed(rec) /\ EndedAt(rec) # 0
    BY <1>2 DEF Stale, ReadInv, Sane
  <2>2. QED BY <1>2, <2>1, NoRecordIsIdle DEF ReadInv, ReadBy, Sane, Armed, EndedAt
<1>3. CASE ~InLock(u)
  BY <1>3 DEF ReadInv, ReadBy, InLock, Locked, Sane, Armed, EndedAt
<1>4. QED BY <1>1, <1>2, <1>3

LEMMA MovedOut ==
  ASSUME ReadInv, NEW t \in Ticks, tick'[t].seen = tick[t].seen,
         tick'[t].step \in {"flap", "drop", "sweep"}
  PROVE  ReadBy(t)'
BY DEF ReadInv, ReadBy, Sane, Armed, EndedAt

LEMMA DecideReads ==
  ASSUME ShutdownTypes, ReadInv, NEW t \in Ticks, Decide(t)
  PROVE  ReadBy(t)'
<1> USE DEF ShutdownTypes
<1> DEFINE r   == tick[t].seen
           at  == tick[t].at
           cfg == tick[t].cfg
<1>1. r \in Records /\ at \in Nat /\ cfg \in Configs
  BY TickTimes DEF TicksTyped, TickRecords
<1>2. /\ Sane(r) /\ rec' = rec
      /\ rec = r \/ (rec = NoRecord /\ EndedAt(r) # 0)
  BY DEF ReadInv, ReadBy, Decide, space
<1>3. ASSUME NEW w \in Records, NEW after \in {"flap", "drop", "sweep"},
             Write(t, w, after), Sane(w), w.armedAt = r.armedAt \/ r = NoRecord
      PROVE  ReadBy(t)'
  <2>1. tick'[t].step = "persist" /\ tick'[t].seen = w
    BY <1>3, WriteEffect
  <2>2. rec = NoRecord \/ rec.armedAt = w.armedAt
    BY <1>2, <1>3
  <2>3. QED BY <1>2, <1>3, <2>1, <2>2 DEF ReadBy, Sane, Armed, EndedAt
<1>4. ASSUME NEW step \in {"drop", "sweep"}, Go(t, step) PROVE ReadBy(t)'
  BY <1>4, GoEffect, MovedOut DEF Steps, Locked
<1> DEFINE e == [r EXCEPT !.expiredAt = at]
           b == [r EXCEPT !.restoredAt = at]
<1>5. /\ e \in Records /\ e.armedAt = r.armedAt /\ e.shutdownAt = r.shutdownAt
      /\ b \in Records /\ b.armedAt = r.armedAt /\ b.shutdownAt = r.shutdownAt
  BY <1>1 DEF Records
<1>6. ~Armed(r) => Sane(e) /\ Sane(b)
  BY <1>5 DEF Sane, Armed
<1>7. Fired(r) => ~Armed(r) BY DEF Fired, Armed
<1>8. CASE Expires(r, at) /\ Write(t, e, "sweep")
  BY <1>3, <1>5, <1>6, <1>7, <1>8 DEF Expires
<1>9. CASE ScaledUpAgain(r) /\ Write(t, b, "flap")
  BY <1>3, <1>5, <1>6, <1>7, <1>9 DEF ScaledUpAgain
<1>10. CASE Armed(r) /\ Write(t, r, "drop")
  BY <1>1, <1>2, <1>3, <1>10
<1>11. CASE ~Armed(r) /\ Write(t, b, "sweep")
  BY <1>3, <1>5, <1>6, <1>11
<1>12. ASSUME r = NoRecord, NEW mode \in Modes,
              Write(t, NewRecord(at, mode, cfg), "sweep")
       PROVE  ReadBy(t)'
  <2>1. /\ NewRecord(at, mode, cfg) \in Records
        /\ Sane(NewRecord(at, mode, cfg))
    BY <1>1, NewRecordType DEF Sane, EndedAt
  <2>2. QED BY <1>3, <1>12, <2>1
<1>13. CASE /\ Armed(r)
            /\ tick' = [tick EXCEPT ![t].step = "shut", ![t].todo = Services]
  <2>1. tick'[t].step = "shut" /\ tick'[t].seen = r
    BY <1>13, DueEffect
  <2>2. rec = r BY <1>2, <1>13 DEF Sane
  <2>3. QED BY <1>2, <1>13, <2>1, <2>2 DEF ReadBy, Sane, Armed, EndedAt
<1> HIDE DEF e, b
<1>14. QED
  BY <1>4, <1>8, <1>9, <1>10, <1>11, <1>12, <1>13, DecideCases DEF e, b

LEMMA TickReads ==
  ASSUME ShutdownTypes, ReadInv, NEW t \in Ticks, TickStep(t)
  PROVE  ReadBy(t)'
<1> USE DEF ShutdownTypes
<1>1. /\ tick[t].seen \in Records /\ tick[t].at \in Nat
      /\ tick[t].next \in {"flap", "drop", "sweep"} /\ tick[t].next \in Steps
      /\ {"sweep", "drop"} \subseteq Steps
  BY TickTimes DEF TicksTyped, TickRecords, Steps, Locked
<1>2. Sane(rec) /\ ReadBy(t) BY DEF ReadInv
<1>3. CASE Examine(t)
  <2>1. tick'[t].step = "decide" /\ tick'[t].seen = rec /\ rec' = rec
    BY <1>3, ExamineEffect DEF Examine, space
  <2>2. QED BY <1>2, <2>1 DEF ReadBy, Sane, Armed, EndedAt
<1>4. CASE Decide(t) BY <1>4, DecideReads
<1>5. ASSUME NEW s \in Services, Shut(t, s) PROVE ReadBy(t)'
  <2>1. tick'[t].step = "shut" /\ tick'[t].seen = tick[t].seen /\ rec' = rec
    BY <1>5, ShutEffect DEF Shut, space
  <2>2. tick[t].step = "shut" BY <1>5 DEF Shut
  <2>3. QED BY <1>2, <2>1, <2>2 DEF ReadBy, Sane, Armed, EndedAt
<1>6. CASE ShutDone(t)
  <2> DEFINE w == [tick[t].seen EXCEPT !.shutdownAt = tick[t].at]
  <2>1. w \in Records /\ w.armedAt = tick[t].seen.armedAt
        /\ w.restoredAt = tick[t].seen.restoredAt
        /\ w.expiredAt = tick[t].seen.expiredAt
    BY <1>1 DEF Records
  <2>2. tick'[t].step = "persist" /\ tick'[t].seen = w /\ rec' = rec
    BY <1>1, <1>6, <2>1, WriteEffect DEF ShutDone, space
  <2>3. rec = tick[t].seen /\ Armed(rec) /\ EndedAt(rec) = 0
    BY <1>2, <1>6 DEF ReadBy, ShutDone, Sane
  <2>4. EndedAt(w) = 0 BY <2>1, <2>3 DEF EndedAt
  <2> HIDE DEF w
  <2>5. QED BY <2>1, <2>2, <2>3, <2>4 DEF ReadBy, Sane, EndedAt
<1>7. CASE Persist(t)
  BY <1>1, <1>7, GoEffect, MovedOut DEF Persist
<1>8. CASE Suppress(t)
  BY <1>1, <1>8, GoEffect, MovedOut DEF Suppress
<1>9. CASE Drop(t)
  BY <1>1, <1>9, GoEffect, MovedOut DEF Drop
<1>10. CASE Sweep(t)
  <2>1. tick'[t] = IdleTick BY <1>10, IdleEffect DEF Sweep
  <2>2. QED BY <2>1, NoRecordIsIdle DEF ReadBy, IdleTick, Sane, Armed, EndedAt
<1>11. QED
  BY <1>3, <1>4, <1>5, <1>6, <1>7, <1>8, <1>9, <1>10 DEF TickStep

LEMMA ReadStep ==
  ASSUME ShutdownTypes, LockInv, OnePod, ReadInv, [ShutdownNext]_vars
  PROVE  ReadInv'
<1> USE DEF ShutdownTypes
<1>1. Sane(rec')
  <2>1. ASSUME NEW t \in Ticks, Persist(t) PROVE Sane(rec')
    BY <2>1 DEF Persist, ReadInv, ReadBy
  <2>2. ASSUME NEW t \in Ticks, Drop(t) PROVE Sane(rec')
    BY <2>2, NoRecordIsIdle DEF Drop
  <2>3. QED BY <2>1, <2>2, RecordChanges, NoRecordIsIdle DEF ReadInv
<1>2. ASSUME NEW t \in Ticks, Others(t), InLock(t), ReadBy(t)'
      PROVE  \A u \in Ticks : ReadBy(u)'
  <2>1. ASSUME NEW u \in Ticks, u # t PROVE ReadBy(u)'
    <3>1. tick'[u] = tick[u] /\ ~InLock(u)
      BY <1>2, <2>1 DEF Others, LockInv
    <3>2. QED BY <3>1, ReadKept
  <2>2. QED BY <1>2, <2>1
<1>3. ASSUME NEW t \in Ticks, Others(t), ReadBy(t)',
             rec' = rec \/ (Stale(rec) /\ rec' = NoRecord)
      PROVE  \A u \in Ticks : ReadBy(u)'
  BY <1>3, ReadKept DEF Others
<1>4. ASSUME NEW t \in Ticks, Charge(t) PROVE \A u \in Ticks : ReadBy(u)'
  <2>1. ns' \in Budgets BY ShutdownRefines, LedgerStep DEF LedgerInv
  <2>2. Others(t) /\ tick'[t].step \in {"lock", "sweep"} /\ tick'[t].seen = NoRecord
    BY <1>4, <2>1, ChargeEffect
  <2>3. ReadBy(t)' BY <2>2, NoRecordIsIdle DEF ReadBy, Sane, Armed, EndedAt
  <2>4. QED BY <1>3, <1>4, <2>2, <2>3 DEF Charge
<1>5. ASSUME NEW t \in Ticks, TickStep(t) PROVE \A u \in Ticks : ReadBy(u)'
  <2>1. Others(t) /\ ReadBy(t)' BY <1>5, TickOthers, TickReads
  <2>2. CASE InLock(t) BY <1>2, <2>1, <2>2
  <2>3. CASE Examine(t) \/ Sweep(t)
    BY <1>3, <2>1, <2>3 DEF Examine, Sweep, space
  <2>4. QED BY <1>5, <2>2, <2>3, TickOthers
<1>6. ASSUME NEW p \in Pods,
             SetBudget(p) \/ ClearBudget(p) \/ ResetState(p) \/ CallStep(p)
      PROVE  \A u \in Ticks : ReadBy(u)'
  <2>1. tick' = tick /\ \A t \in Ticks : (~Persist(t) /\ ~Drop(t)) \/ ~InLock(t)
    BY <1>6 DEF SetBudget, ClearBudget, ResetState, CallStep, CancelArmed, Look,
                Restore, Restored, DropRestored, EndReset, Free, OnePod, InLock,
                LockInv
  <2>2. QED BY <2>1, ReadKept, RecordChanges
<1>7. ASSUME Fault PROVE \A u \in Ticks : ReadBy(u)'
  <2>1. rec' = rec
    BY <1>7 DEF Fault, WriteFails, ShutFails, Crash, DeleteFails,
                RestoreFails, space
  <2>2. CASE \A t \in Ticks : tick'[t] = IdleTick
    BY <2>2, NoRecordIsIdle DEF ReadBy, IdleTick, Sane, Armed, EndedAt
  <2>3. CASE tick' = tick BY <2>1, <2>3, ReadKept
  <2>4. ASSUME NEW t \in Ticks, Others(t), InLock(t), tick'[t].seen = tick[t].seen,
               \/ tick'[t].step = tick[t].step
               \/ tick[t].step = "persist" /\ tick'[t].step = tick[t].next
               \/ tick'[t].step = "sweep"
        PROVE  \A u \in Ticks : ReadBy(u)'
    <3>1. tick[t].next \in {"flap", "drop", "sweep"}
      BY DEF TicksTyped, TickRecords
    <3>2. CASE tick'[t].step = tick[t].step
      BY <1>2, <2>1, <2>4, <3>2 DEF ReadInv, ReadBy, Sane, Armed, EndedAt
    <3>3. CASE tick'[t].step \in {"flap", "drop", "sweep"}
      BY <1>2, <2>4, <3>3, MovedOut
    <3>4. QED BY <2>4, <3>1, <3>2, <3>3
  <2>5. QED BY <1>7, <2>2, <2>3, <2>4, FaultTicks
<1>8. ASSUME (\E s \in Services : Scale(s)) \/ Pass \/ UNCHANGED vars
      PROVE  \A u \in Ticks : ReadBy(u)'
  <2>1. tick' = tick /\ rec' = rec
    BY <1>8 DEF Scale, Pass, vars, space
  <2>2. QED BY <2>1, ReadKept
<1>9. QED
  BY <1>1, <1>4, <1>5, <1>6, <1>7, <1>8 DEF ShutdownNext, ReadInv, Sane, Armed, EndedAt

LockedInv == ShutdownTypes /\ LockInv /\ ReadInv

LEMMA LockedInit == ShutdownInit => LockedInv
<1> SUFFICES ASSUME ShutdownInit PROVE LockedInv
  OBVIOUS
<1>1. LockInv
  BY DEF ShutdownInit, LockInv, InLock, Locked, IdleTick
<1>2. ReadInv
  BY NoRecordIsIdle DEF ShutdownInit, ReadInv, ReadBy, IdleTick, Sane
<1>3. QED BY <1>1, <1>2, ShutdownInitTyped DEF LockedInv

LEMMA LockedStep ==
  ASSUME OnePod, LockedInv, [ShutdownNext]_vars
  PROVE  LockedInv'
BY ShutdownTyped, LockStep, ReadStep DEF LockedInv

(* In one process appBudgetLock excludes what it is meant to: two ticks    *)
(* are never both between the read of the record and its last write, and   *)
(* no reset runs while one is.                                             *)
THEOREM LockExcludes == OnePod => (ShutdownSpec => []LockInv)
<1> SUFFICES ASSUME OnePod PROVE ShutdownSpec => []LockInv
  OBVIOUS
<1>1. LockedInv /\ [ShutdownNext]_vars => LockedInv'
  BY LockedStep
<1>2. LockedInv => LockInv BY DEF LockedInv
<1>3. QED BY <1>1, <1>2, LockedInit, PTL DEF ShutdownSpec

(* Whatever ticks, resets, configuration changes, crashes and refused      *)
(* writes there are, shutdownService is only called under the record that  *)
(* is on the namespace.                                                    *)
THEOREM ShutUnderNotice == OnePod => (ShutdownSpec => ShutsUnderNotice)
<1> SUFFICES ASSUME OnePod PROVE ShutdownSpec => ShutsUnderNotice
  OBVIOUS
<1>1. LockedInv /\ [ShutdownNext]_vars => LockedInv'
  BY LockedStep
<1>2. LockedInv /\ [ShutdownNext]_vars
        => [\A t \in Ticks, s \in Services : Shut(t, s) => rec = tick[t].seen]_vars
  BY DEF LockedInv, ReadInv, ReadBy, Shut
<1>3. QED BY <1>1, <1>2, LockedInit, PTL DEF ShutdownSpec, ShutsUnderNotice

(* And persistShutdownState, which replaces whatever record there is, arms *)
(* one only where there was none.                                          *)
THEOREM ArmedOnce == OnePod => (ShutdownSpec => ArmsOnce)
<1> SUFFICES ASSUME OnePod PROVE ShutdownSpec => ArmsOnce
  OBVIOUS
<1>1. LockedInv /\ [ShutdownNext]_vars => LockedInv'
  BY LockedStep
<1>2. ASSUME LockedInv, [ShutdownNext]_vars,
             rec'.armedAt # rec.armedAt, Armed(rec')
      PROVE  rec = NoRecord
  <2>1. ASSUME NEW t \in Ticks, Persist(t) PROVE rec = NoRecord
    BY <1>2, <2>1 DEF LockedInv, ReadInv, ReadBy, Persist
  <2>2. PICK t \in Ticks : Persist(t) \/ Drop(t)
    BY <1>2, RecordChanges, NoRecordIsIdle DEF LockedInv
  <2>3. ~Drop(t) BY <1>2, NoRecordIsIdle DEF Drop
  <2>4. QED BY <2>1, <2>2, <2>3
<1>3. LockedInv /\ [ShutdownNext]_vars
        => [rec'.armedAt # rec.armedAt /\ Armed(rec') => rec = NoRecord]_vars
  BY <1>2 DEF Armed
<1>4. QED BY <1>1, <1>3, LockedInit, PTL DEF ShutdownSpec, ArmsOnce

(*---------------------- the record and what it is for --------------------*)
(* What the run of ScaleIsKept is about: one process, no faults, a budget  *)
(* that is set once, and a clock that ends before the month does, so that  *)
(* no shutdown expires.                                                    *)
Undisturbed ==
  /\ OnePod /\ MaxFaults = 0
  /\ "set" \notin Env /\ "clear" \notin Env
  /\ MaxTime <= MonthLength

LEMMA OneMonth ==
  ASSUME MaxTime <= MonthLength, NEW t \in Times
  PROVE  MonthOf(t) = 1
<1>1. /\ t - 1 \in Nat /\ t - 1 < MonthLength /\ MonthLength \in Nat \ {0}
  BY LedgerConstants DEF Times
<1>2. ASSUME NEW a \in Nat, NEW b \in Nat \ {0}, a < b PROVE a \div b = 0
  BY <1>2
<1>3. QED BY <1>1, <1>2 DEF MonthOf

LEMMA NoFault ==
  ASSUME ShutdownTypes, Undisturbed
  PROVE  ~Fault
<1>1. ~(faults < MaxFaults) BY DEF ShutdownTypes, Undisturbed
<1>2. QED BY <1>1 DEF Fault, WriteFails, ShutFails, Crash, DeleteFails, RestoreFails

(* The record was made under the configuration that stands, and it has not *)
(* expired.                                                                *)
Current(r) ==
  /\ r # NoRecord => r.hash = ns.cfg /\ ns.cfg # NoConfig
  /\ r.shutdownAt <= MaxTime /\ r.expiredAt = 0

CurrentBy(t) ==
  /\ tick[t].step # "idle" => tick[t].at \in Times
  /\ tick[t].step \in Locked \cup {"lock"} =>
       tick[t].cfg = ns.cfg /\ ns.cfg # NoConfig
  /\ InLock(t) => Current(tick[t].seen)
  /\ tick[t].step = "persist" => tick[t].next # "drop"

CurrentInv == Current(rec) /\ \A t \in Ticks : CurrentBy(t)

LEMMA NoRecordCurrent == Current(NoRecord)
BY LedgerConstants DEF Current, NoRecord

(* Of the branches of the tick those for another configuration and for     *)
(* another month are not taken.                                            *)
LEMMA QuietDecide ==
  ASSUME ShutdownTypes, Undisturbed, CurrentInv, NEW t \in Ticks, Decide(t)
  PROVE  LET r   == tick[t].seen
             at  == tick[t].at
         IN  \/ ScaledUpWhileArmed(r) /\ Go(t, "drop")
             \/ ScaledUpAgain(r) /\ Write(t, [r EXCEPT !.restoredAt = at], "flap")
             \/ Go(t, "sweep")
             \/ /\ r = NoRecord
                /\ \E mode \in Modes :
                     Write(t, NewRecord(at, mode, tick[t].cfg), "sweep")
             \/ /\ Armed(r)
                /\ tick' = [tick EXCEPT ![t].step = "shut", ![t].todo = Services]
<1> DEFINE r   == tick[t].seen
           at  == tick[t].at
<1>1. /\ Current(r) /\ at \in Times /\ tick[t].cfg = ns.cfg
      /\ r.shutdownAt \in Nat
  <2>1. tick[t].step = "decide" BY DEF Decide
  <2>2. QED
    BY <2>1 DEF CurrentInv, CurrentBy, InLock, Locked, ShutdownTypes,
                TicksTyped, TickRecords, Records
<1>2. ~Reconfigured(r, tick[t].cfg)
  BY <1>1 DEF Current, Reconfigured
<1>3. ~Expires(r, at)
  <2>1. ASSUME Fired(r) PROVE MonthOf(r.shutdownAt) = 1
    <3>1. r.shutdownAt \in Times
      BY <1>1, <2>1, LedgerConstants DEF Current, Fired, Times
    <3>2. QED BY <3>1, OneMonth DEF Undisturbed
  <2>2. MonthOf(at) = 1 BY <1>1, OneMonth DEF Undisturbed
  <2>3. QED BY <2>1, <2>2 DEF Expires
<1>4. QED BY <1>2, <1>3, DecideCases

(* The configuration changes only when there was none.                     *)
LEMMA ConfigKept ==
  ASSUME ShutdownTypes, Undisturbed, [ShutdownNext]_vars
  PROVE  ns'.cfg = ns.cfg \/ (ns.cfg = NoConfig /\ \E p \in Pods : SetBudget(p))
<1>1. ns \in Budgets BY DEF ShutdownTypes, LedgerInv
<1>2. ASSUME NEW t \in Ticks, Charge(t) PROVE ns'.cfg = ns.cfg
  BY <1>1, <1>2 DEF Charge, AfterTick, Budgets
<1>3. ASSUME NEW t \in Ticks, TickStep(t) PROVE ns' = ns
  BY <1>3 DEF TickStep, Examine, Decide, Shut, ShutDone, Persist, Suppress,
              Drop, Sweep, space
<1>4. ASSUME NEW p \in Pods, SetBudget(p) PROVE ns.cfg = NoConfig
  BY <1>4 DEF SetBudget, Undisturbed
<1>5. ASSUME NEW p \in Pods PROVE ~ClearBudget(p)
  BY DEF ClearBudget, Undisturbed
<1>6. ASSUME NEW p \in Pods, ResetState(p) PROVE ns'.cfg = ns.cfg
  BY <1>1, <1>6 DEF ResetState, AfterReset, Budgets
<1>7. ASSUME NEW p \in Pods, CallStep(p) PROVE ns' = ns
  BY <1>7 DEF CallStep, CancelArmed, Look, Restore, Restored, DropRestored,
              EndReset, space
<1>8. CASE (\E s \in Services : Scale(s)) \/ Pass \/ UNCHANGED vars
  BY <1>8 DEF Scale, Pass, Elapse, vars, space
<1>9. QED
  BY <1>2, <1>3, <1>4, <1>5, <1>6, <1>7, <1>8, NoFault DEF ShutdownNext

LEMMA CurrentKept ==
  ASSUME ns'.cfg = ns.cfg, NEW u \in Ticks, CurrentBy(u), tick'[u] = tick[u]
  PROVE  CurrentBy(u)'
BY DEF CurrentBy, Current, InLock

LEMMA CurrentTick ==
  ASSUME ShutdownTypes, Undisturbed, ReadInv, CurrentInv, ns' = ns,
         NEW t \in Ticks, TickStep(t)
  PROVE  CurrentBy(t)'
<1> USE DEF ShutdownTypes
<1> DEFINE r   == tick[t].seen
           at  == tick[t].at
           cfg == tick[t].cfg
<1>1. /\ r \in Records /\ at \in Nat /\ cfg \in Configs
      /\ tick[t].next \in {"flap", "drop", "sweep"} /\ tick[t].next \in Steps
      /\ {"sweep", "drop"} \subseteq Steps
  BY TickTimes DEF TicksTyped, TickRecords, Steps, Locked
<1>2. /\ tick[t].step # "idle" => at \in Times
      /\ tick[t].step # "idle" /\ tick[t].step # "sweep" => cfg = ns.cfg /\ ns.cfg # NoConfig
      /\ InLock(t) => Current(r)
  BY DEF CurrentInv, CurrentBy, ShutdownTypes, TicksTyped, TickRecords
<1>3. CASE Examine(t)
  <2>1. tick[t].step = "lock" BY <1>3 DEF Examine
  <2>2. /\ tick'[t].step = "decide" /\ tick'[t].seen = rec
        /\ tick'[t].at = at /\ tick'[t].cfg = cfg
    BY <1>3, ExamineEffect
  <2>3. QED BY <1>2, <2>1, <2>2 DEF CurrentInv, CurrentBy, Current, InLock
<1>4. ASSUME InLock(t), NEW w \in Records, NEW after \in {"flap", "sweep"},
             Current(w), Write(t, w, after)
      PROVE  CurrentBy(t)'
  <2>1. /\ tick'[t].step = "persist" /\ tick'[t].seen = w
        /\ tick'[t].at = at /\ tick'[t].cfg = cfg /\ tick'[t].next = after
    BY <1>4, WriteEffect
  <2>2. tick[t].step # "idle" /\ tick[t].step # "sweep"
    BY <1>4 DEF InLock, Locked
  <2>3. QED BY <1>2, <1>4, <2>1, <2>2 DEF CurrentBy, Current
<1>5. ASSUME InLock(t), tick'[t].step # "persist",
             tick'[t].seen = r, tick'[t].at = at, tick'[t].cfg = cfg
      PROVE  CurrentBy(t)'
  <2>1. tick[t].step # "idle" /\ tick[t].step # "sweep"
    BY <1>5 DEF InLock, Locked
  <2>2. QED BY <1>2, <1>5, <2>1 DEF CurrentBy, Current
<1>6. CASE Decide(t)
  <2>1. InLock(t) /\ tick[t].step = "decide" BY <1>6 DEF Decide, InLock, Locked
  <2>2. ASSUME NEW mode \in Modes, r = NoRecord,
               Write(t, NewRecord(at, mode, cfg), "sweep")
        PROVE  CurrentBy(t)'
    <3>1. /\ NewRecord(at, mode, cfg) \in Records
          /\ NewRecord(at, mode, cfg).hash = cfg
          /\ NewRecord(at, mode, cfg).shutdownAt = 0
          /\ NewRecord(at, mode, cfg).expiredAt = 0
      BY <1>1, NewRecordType
    <3>2. Current(NewRecord(at, mode, cfg))
      BY <1>2, <2>1, <3>1, LedgerConstants DEF Current
    <3>3. QED BY <1>4, <2>1, <2>2, <3>1, <3>2
  <2>3. ASSUME ScaledUpAgain(r), Write(t, [r EXCEPT !.restoredAt = at], "flap")
        PROVE  CurrentBy(t)'
    <3> DEFINE w == [r EXCEPT !.restoredAt = at]
    <3>1. /\ w \in Records /\ w.shutdownAt = r.shutdownAt
          /\ w.expiredAt = r.expiredAt /\ w.hash = r.hash
      BY <1>1 DEF Records
    <3>2. r # NoRecord
      BY <2>3 DEF ScaledUpAgain, Fired, NoRecord
    <3>3. Current(w)
      BY <1>2, <2>1, <3>1, <3>2 DEF Current
    <3> HIDE DEF w
    <3>4. Write(t, w, "flap") BY <2>3 DEF w
    <3>5. QED BY <1>4, <2>1, <3>1, <3>3, <3>4
  <2>4. ASSUME NEW step \in {"drop", "sweep"}, Go(t, step)
        PROVE  CurrentBy(t)'
    BY <1>1, <1>5, <2>1, <2>4, GoEffect
  <2>5. CASE tick' = [tick EXCEPT ![t].step = "shut", ![t].todo = Services]
    BY <1>5, <2>1, <2>5, DueEffect
  <2>6. QED BY <1>6, <2>2, <2>3, <2>4, <2>5, QuietDecide
<1>7. ASSUME NEW s \in Services, Shut(t, s) PROVE CurrentBy(t)'
  <2>1. InLock(t) /\ tick[t].step = "shut" BY <1>7 DEF Shut, InLock, Locked
  <2>2. QED BY <1>5, <1>7, <2>1, ShutEffect DEF Shut
<1>8. CASE ShutDone(t)
  <2> DEFINE w == [r EXCEPT !.shutdownAt = at]
  <2>1. /\ w \in Records /\ w.shutdownAt = at
        /\ w.expiredAt = r.expiredAt /\ w.hash = r.hash
    BY <1>1 DEF Records
  <2>2. InLock(t) /\ tick[t].step = "shut" /\ r # NoRecord
    BY <1>8, NoRecordIsIdle DEF ShutDone, InLock, Locked, ReadInv, ReadBy
  <2>3. at <= MaxTime BY <1>2, <2>2 DEF Times
  <2>4. Current(w) BY <1>2, <2>1, <2>2, <2>3 DEF Current
  <2> HIDE DEF w
  <2>5. Write(t, w, "sweep") BY <1>8 DEF ShutDone, w
  <2>6. QED BY <1>4, <2>1, <2>2, <2>4, <2>5
<1>9. CASE Persist(t)
  <2>1. InLock(t) /\ tick[t].next # "persist"
    BY <1>1, <1>9 DEF Persist, InLock, Locked
  <2>2. QED BY <1>1, <1>5, <1>9, <2>1, GoEffect DEF Persist
<1>10. CASE Suppress(t) \/ Drop(t)
  <2>1. InLock(t) /\ Go(t, "sweep")
    BY <1>10 DEF Suppress, Drop, InLock, Locked
  <2>2. QED BY <1>1, <1>5, <2>1, GoEffect
<1>11. CASE Sweep(t)
  <2>1. tick'[t] = IdleTick BY <1>11, IdleEffect DEF Sweep
  <2>2. QED BY <2>1 DEF CurrentBy, IdleTick, InLock, Locked
<1>12. QED
  BY <1>3, <1>6, <1>7, <1>8, <1>9, <1>10, <1>11 DEF TickStep

LEMMA CurrentStep ==
  ASSUME ShutdownTypes, LockInv, ReadInv, Undisturbed, CurrentInv,
         [ShutdownNext]_vars
  PROVE  CurrentInv'
<1> USE DEF ShutdownTypes
<1>1. ASSUME NEW p \in Pods, ns.cfg = NoConfig, SetBudget(p) PROVE CurrentInv'
  <2>1. rec = NoRecord BY <1>1 DEF CurrentInv, Current
  <2>2. rec' = NoRecord /\ tick' = tick /\ \A t \in Ticks : ~InLock(t)
    BY <1>1, <2>1 DEF SetBudget, Free, Undisturbed, OnePod, InLock
  <2>3. \A t \in Ticks : CurrentBy(t)'
    BY <1>1, <2>2 DEF CurrentInv, CurrentBy, InLock
  <2>4. Current(rec)' BY <2>2, NoRecordCurrent DEF Current
  <2>5. QED BY <2>3, <2>4 DEF CurrentInv
<1>2. ASSUME ns'.cfg = ns.cfg PROVE Current(rec)'
  <2>1. ASSUME NEW t \in Ticks, InLock(t), Persist(t) PROVE Current(rec)'
    BY <1>2, <2>1 DEF Persist, CurrentInv, CurrentBy, Current
  <2>2. ASSUME rec' = rec \/ rec' = NoRecord PROVE Current(rec)'
    BY <1>2, <2>2, NoRecordCurrent DEF CurrentInv, Current
  <2>3. \A t \in Ticks : Drop(t) => rec' = NoRecord BY DEF Drop
  <2>4. QED BY <2>1, <2>2, <2>3, RecordChanges DEF Undisturbed
<1>3. ASSUME ns'.cfg = ns.cfg PROVE \A u \in Ticks : CurrentBy(u)'
  <2>1. ASSUME NEW t \in Ticks, Charge(t) PROVE \A u \in Ticks : CurrentBy(u)'
    <3>1. ns' \in Budgets BY ShutdownRefines, LedgerStep DEF LedgerInv
    <3>2. /\ Others(t) /\ tick'[t].step \in {"lock", "sweep"}
          /\ tick'[t].step = "lock" => ns.cfg.action = "auto-shutdown"
          /\ tick'[t].seen = NoRecord /\ tick'[t].at = now
          /\ tick'[t].cfg = ns.cfg
      BY <2>1, <3>1, ChargeEffect
    <3>3. tick'[t].step = "lock" => ns.cfg # NoConfig
      BY <3>2 DEF NoConfig
    <3>4. CurrentBy(t)'
      BY <1>3, <3>2, <3>3 DEF CurrentBy, InLock, Locked, LedgerInv
    <3>5. QED BY <1>3, <3>2, <3>4, CurrentKept DEF Others, CurrentInv
  <2>2. ASSUME NEW t \in Ticks, TickStep(t) PROVE \A u \in Ticks : CurrentBy(u)'
    <3>1. ns' = ns
      BY <2>2 DEF TickStep, Examine, Decide, Shut, ShutDone, Persist, Suppress,
                  Drop, Sweep, space
    <3>2. CurrentBy(t)' /\ Others(t) BY <2>2, <3>1, CurrentTick, TickOthers
    <3>3. QED BY <1>3, <3>2, CurrentKept DEF Others, CurrentInv
  <2>3. ASSUME tick' = tick PROVE \A u \in Ticks : CurrentBy(u)'
    BY <1>3, <2>3, CurrentKept DEF CurrentInv
  <2>4. ASSUME NEW p \in Pods,
               SetBudget(p) \/ ClearBudget(p) \/ ResetState(p) \/ CallStep(p)
        PROVE  tick' = tick
    BY <2>4 DEF SetBudget, ClearBudget, ResetState, CallStep, CancelArmed, Look,
                Restore, Restored, DropRestored, EndReset
  <2>5. CASE (\E s \in Services : Scale(s)) \/ Pass \/ UNCHANGED vars
    <3>1. tick' = tick BY <2>5 DEF Scale, Pass, vars
    <3>2. QED BY <2>3, <3>1
  <2>6. QED BY <2>1, <2>2, <2>3, <2>4, <2>5, NoFault DEF ShutdownNext
<1>4. QED BY <1>1, <1>2, <1>3, ConfigKept DEF CurrentInv

(* No service is down that the shutdown took; r keeps the scale of those   *)
(* that are; and a notice, or a record that is done with, stands only when *)
(* none is.                                                                *)
Clean      == \A s \in Services : taken[s] = 0
Kept(r)    == \A s \in Services : taken[s] > 0 => r.scale[s] > 0
Settled(r) == Kept(r) /\ (Armed(r) \/ EndedAt(r) # 0 => Clean)

(* A tick is shutting down, or about to write what it did.                 *)
Held == \E t \in Ticks : tick[t].step \in {"shut", "persist"}

KeptBy(t) ==
  /\ tick[t].step = "shut" => Kept(tick[t].seen)
  /\ tick[t].step = "persist" => Settled(tick[t].seen)
  /\ tick[t].step = "drop" => Clean

KeptCall(p) ==
  /\ call[p].step \in {"cancel", "drop"} => Clean
  /\ call[p].step = "restore" =>
       /\ \A s \in Services \ call[p].todo : taken[s] = 0
       /\ call[p].seen = rec \/ Clean

KeptInv ==
  /\ \A s \in Services : taken[s] > 0 => replicas[s] = 0
  /\ Held \/ Settled(rec)
  /\ \A t \in Ticks : KeptBy(t)
  /\ \A p \in Pods : KeptCall(p)

(* taken only shrinks, in every step but that of shutting a service down.  *)
Shrinks == \A s \in Services : taken'[s] = taken[s] \/ taken'[s] = 0

LEMMA TakenType == ShutdownTypes => \A s \in Services : taken[s] \in Nat /\ replicas[s] \in Nat
BY DEF ShutdownTypes, Scales

LEMMA CleanSettles ==
  ASSUME Clean
  PROVE  \A r : Settled(r)
BY DEF Clean, Settled, Kept

LEMMA NoRecordSettled ==
  ASSUME ShutdownTypes, Settled(NoRecord)
  PROVE  Clean
<1>1. \A s \in Services : NoRecord.scale[s] = 0
  BY DEF NoRecord, NoScale
<1>2. QED BY <1>1, TakenType DEF Settled, Kept, Clean

LEMMA Shrinking ==
  ASSUME Shrinks
  PROVE  /\ Clean => Clean'
         /\ \A r : Kept(r) => \A s \in Services : taken'[s] > 0 => r.scale[s] > 0
         /\ KeptInv => \A s \in Services : taken'[s] > 0 => replicas[s] = 0
BY DEF Shrinks, Clean, Kept, KeptInv

LEMMA SettledKept ==
  ASSUME Shrinks
  PROVE  /\ rec' = rec /\ Settled(rec) => Settled(rec)'
         /\ Clean => Settled(rec)'
<1>1. Clean => Clean' BY Shrinking
<1>2. Clean' => Settled(rec)' BY DEF Clean, Settled, Kept
<1>3. ASSUME rec' = rec, Settled(rec) PROVE Settled(rec)'
  <2>1. Kept(rec)' BY <1>3, Shrinking DEF Kept, Settled
  <2>2. QED BY <1>1, <1>3, <2>1 DEF Settled, Armed, EndedAt
<1>4. QED BY <1>1, <1>2, <1>3

LEMMA KeptByKept ==
  ASSUME Shrinks, NEW u \in Ticks, KeptBy(u), tick'[u] = tick[u]
  PROVE  KeptBy(u)'
<1>1. Clean => Clean' BY Shrinking
<1>2. Kept(tick[u].seen) => Kept(tick[u].seen)'
  BY Shrinking DEF Kept
<1>3. Settled(tick[u].seen) => Settled(tick[u].seen)'
  BY <1>1, <1>2 DEF Settled, Armed, EndedAt
<1>4. QED BY <1>1, <1>2, <1>3 DEF KeptBy

LEMMA KeptCallKept ==
  ASSUME Shrinks, NEW p \in Pods, KeptCall(p), call'[p] = call[p],
         rec' = rec \/ Clean \/ call[p].step = "idle"
  PROVE  KeptCall(p)'
<1>1. Clean => Clean' BY Shrinking
<1>2. QED BY <1>1 DEF KeptCall, Shrinks

(* The tick in the lock is the only one in it, and no call runs.           *)
LEMMA AloneInLock ==
  ASSUME LockInv, NEW t \in Ticks, InLock(t)
  PROVE  /\ tick[t].step \notin {"shut", "persist"} => ~Held
         /\ \A u \in Ticks \ {t} : ~InLock(u)
         /\ \A p \in Pods : call[p].step = "idle"
BY DEF LockInv, Held, InLock, Locked

LEMMA NobodyInLock ==
  ASSUME \A t \in Ticks : ~InLock(t)
  PROVE  ~Held
BY DEF Held, InLock, Locked

(* A step of a tick that shuts no service down.                            *)
LEMMA KeptByTick ==
  ASSUME KeptInv, NEW t \in Ticks, Others(t), taken' = taken,
         replicas' = replicas, call' = call,
         \A p \in Pods : rec' = rec \/ Clean \/ call[p].step = "idle",
         Held' \/ Settled(rec)', KeptBy(t)'
  PROVE  KeptInv'
<1>1. Shrinks BY DEF Shrinks
<1>2. \A s \in Services : taken'[s] > 0 => replicas'[s] = 0
  BY DEF KeptInv
<1>3. \A u \in Ticks : KeptBy(u)'
  <2>1. ASSUME NEW u \in Ticks, u # t PROVE KeptBy(u)'
    BY <1>1, <2>1, KeptByKept DEF KeptInv, Others
  <2>2. QED BY <2>1
<1>4. \A p \in Pods : KeptCall(p)'
  BY <1>1, KeptCallKept DEF KeptInv
<1>5. QED BY <1>2, <1>3, <1>4 DEF KeptInv

LEMMA HeldElsewhere ==
  ASSUME NEW t \in Ticks, Others(t), tick[t].step \notin {"shut", "persist"}, Held
  PROVE  Held'
BY DEF Held, Others

LEMMA DecideKept ==
  ASSUME LockedInv, Undisturbed, CurrentInv, KeptInv, NEW t \in Ticks, Decide(t)
  PROVE  Settled(rec)' /\ KeptBy(t)'
<1> USE DEF LockedInv, ShutdownTypes
<1> DEFINE r   == tick[t].seen
           at  == tick[t].at
           cfg == tick[t].cfg
<1>1. r \in Records /\ at \in Nat /\ cfg \in Configs
  BY TickTimes DEF TicksTyped, TickRecords
<1>2. Shrinks /\ taken' = taken /\ rec' = rec
  BY DEF Decide, Shrinks, space
<1>3. Settled(rec)
  <2>1. InLock(t) /\ tick[t].step = "decide" BY DEF Decide, InLock, Locked
  <2>2. QED BY <2>1, AloneInLock DEF KeptInv
<1>4. Armed(r) => r = rec
  BY DEF ReadInv, ReadBy, Sane, Decide
<1>5. Settled(rec)' BY <1>2, <1>3, SettledKept
<1>6. Clean => Clean' /\ \A w : Settled(w)'
  BY <1>2 DEF Clean, Settled, Kept
<1>7. ASSUME NEW w \in Records, NEW after \in {"flap", "sweep"},
             Write(t, w, after), Clean
      PROVE  KeptBy(t)'
  <2>1. tick'[t].step = "persist" BY <1>7, WriteEffect
  <2>2. Clean' => Settled(tick[t].seen)' BY DEF Clean, Settled, Kept
  <2>3. QED BY <1>6, <1>7, <2>1, <2>2 DEF KeptBy
<1>8. CASE ScaledUpWhileArmed(r) /\ Go(t, "drop")
  <2>1. Clean BY <1>3, <1>4, <1>8 DEF ScaledUpWhileArmed, Settled
  <2>2. tick'[t].step = "drop" BY <1>8, GoEffect DEF Steps, Locked
  <2>3. QED BY <1>5, <1>6, <2>1, <2>2 DEF KeptBy
<1> DEFINE b == [r EXCEPT !.restoredAt = at]
<1>9. CASE ScaledUpAgain(r) /\ Write(t, b, "flap")
  <2>1. Clean BY <1>9, TakenType DEF ScaledUpAgain, KeptInv, Clean
  <2>2. b \in Records BY <1>1, RecordWrites
  <2> HIDE DEF b
  <2>3. QED BY <1>5, <1>7, <1>9, <2>1, <2>2
<1>10. CASE Go(t, "sweep")
  <2>1. tick'[t].step = "sweep" BY <1>10, GoEffect DEF Steps
  <2>2. QED BY <1>5, <2>1 DEF KeptBy
<1>11. ASSUME r = NoRecord, NEW mode \in Modes,
              Write(t, NewRecord(at, mode, cfg), "sweep")
       PROVE  KeptBy(t)'
  <2>1. rec = NoRecord
    BY <1>11, NoRecordIsIdle DEF ReadInv, ReadBy, Decide
  <2>2. Clean BY <1>3, <2>1, NoRecordSettled
  <2>3. NewRecord(at, mode, cfg) \in Records BY <1>1, NewRecordType
  <2>4. QED BY <1>7, <1>11, <2>2, <2>3
<1>12. CASE /\ Armed(r)
            /\ tick' = [tick EXCEPT ![t].step = "shut", ![t].todo = Services]
  <2>1. tick'[t].step = "shut" /\ tick'[t].seen = rec
    BY <1>4, <1>12, DueEffect
  <2>2. Kept(tick[t].seen)' BY <1>2, <1>3, <2>1 DEF Settled, Kept
  <2>3. QED BY <1>5, <2>1, <2>2 DEF KeptBy
<1> HIDE DEF b
<1>13. QED
  BY <1>5, <1>8, <1>9, <1>10, <1>11, <1>12, QuietDecide DEF b

LEMMA ShutKept ==
  ASSUME LockedInv, KeptInv, NEW t \in Ticks, NEW s \in Services, Shut(t, s)
  PROVE  KeptInv'
<1> USE DEF LockedInv, ShutdownTypes
<1>1. InLock(t) /\ tick[t].step = "shut"
  BY DEF Shut, InLock, Locked
<1>2. /\ Others(t) /\ tick'[t].step = "shut" /\ tick'[t].seen = tick[t].seen
  BY <1>1, ShutEffect DEF Shut
<1>3. /\ call' = call /\ \A p \in Pods : call[p].step = "idle"
      /\ \A u \in Ticks \ {t} : ~InLock(u)
  BY <1>1, AloneInLock DEF Shut
<1>4. /\ replicas'[s] = 0
      /\ \A x \in Services \ {s} : replicas'[x] = replicas[x] /\ taken'[x] = taken[x]
      /\ taken'[s] = taken[s] \/ tick[t].seen.scale[s] > 0
  BY DEF Shut, Scales
<1>5. Kept(tick[t].seen) BY <1>1 DEF KeptInv, KeptBy
<1>6. \A x \in Services : taken'[x] > 0 => replicas'[x] = 0
  BY <1>4 DEF KeptInv
<1>7. Held' BY <1>2 DEF Held
<1>8. \A u \in Ticks : KeptBy(u)'
  <2>1. Kept(tick[t].seen)' BY <1>2, <1>4, <1>5 DEF Kept
  <2>2. KeptBy(t)' BY <1>2, <2>1 DEF KeptBy
  <2>3. ASSUME NEW u \in Ticks \ {t} PROVE KeptBy(u)'
    BY <1>2, <1>3 DEF Others, KeptBy, InLock, Locked
  <2>4. QED BY <2>2, <2>3
<1>9. \A p \in Pods : KeptCall(p)' BY <1>3 DEF KeptCall
<1>10. QED BY <1>6, <1>7, <1>8, <1>9 DEF KeptInv

LEMMA TickKept ==
  ASSUME LockedInv, Undisturbed, CurrentInv, KeptInv,
         NEW t \in Ticks, TickStep(t)
  PROVE  KeptInv'
<1> USE DEF LockedInv, ShutdownTypes
<1>1. /\ tick[t].seen \in Records /\ tick[t].at \in Nat
      /\ tick[t].next \in {"flap", "drop", "sweep"} /\ tick[t].next \in Steps
      /\ "sweep" \in Steps
  BY TickTimes DEF TicksTyped, TickRecords, Steps, Locked
<1>2. Others(t) /\ call' = call BY TickOthers
<1>3. ASSUME InLock(t), taken' = taken, replicas' = replicas,
             Held' \/ Settled(rec)', KeptBy(t)'
      PROVE  KeptInv'
  BY <1>2, <1>3, AloneInLock, KeptByTick
<1>4. ASSUME taken' = taken
      PROVE  Shrinks /\ \A w : (Settled(w) => Settled(w)')
  BY <1>4 DEF Shrinks, Settled, Kept, Clean
<1>5. CASE Examine(t)
  <2>1. /\ tick[t].step = "lock" /\ rec' = rec
        /\ taken' = taken /\ replicas' = replicas
    BY <1>5 DEF Examine, space
  <2>2. tick'[t].step = "decide" BY <1>5, ExamineEffect
  <2>3. KeptBy(t)' BY <2>2 DEF KeptBy
  <2>4. Held => Held' BY <1>2, <2>1, HeldElsewhere
  <2>5. Settled(rec) => Settled(rec)' BY <1>4, <2>1, SettledKept
  <2>6. QED BY <1>2, <2>1, <2>3, <2>4, <2>5, KeptByTick DEF KeptInv
<1>6. CASE Decide(t)
  <2>1. InLock(t) /\ taken' = taken /\ replicas' = replicas
    BY <1>6 DEF Decide, InLock, Locked
  <2>2. QED BY <1>3, <1>6, <2>1, DecideKept
<1>7. CASE \E s \in Services : Shut(t, s) BY <1>7, ShutKept
<1>8. CASE ShutDone(t)
  <2> DEFINE w == [tick[t].seen EXCEPT !.shutdownAt = tick[t].at]
  <2>1. /\ InLock(t) /\ tick[t].step = "shut" /\ rec' = rec
        /\ taken' = taken /\ replicas' = replicas
    BY <1>8 DEF ShutDone, InLock, Locked, space
  <2>2. /\ w \in Records /\ w.shutdownAt = tick[t].at
        /\ w.restoredAt = tick[t].seen.restoredAt
        /\ w.expiredAt = tick[t].seen.expiredAt /\ w.scale = tick[t].seen.scale
    BY <1>1 DEF Records
  <2>3. ~Armed(w)
    <3>1. tick[t].at \in Times BY <2>1 DEF CurrentInv, CurrentBy
    <3>2. QED BY <2>2, <3>1 DEF Armed, Times
  <2>4. EndedAt(w) = 0
    <3>1. EndedAt(tick[t].seen) = 0 BY <2>1 DEF ReadInv, ReadBy, Sane
    <3>2. QED BY <2>2, <3>1 DEF EndedAt
  <2>5. Kept(w)
    <3>1. Kept(tick[t].seen) BY <2>1 DEF KeptInv, KeptBy
    <3>2. QED BY <2>2, <3>1 DEF Kept
  <2> HIDE DEF w
  <2>6. tick'[t].step = "persist" /\ tick'[t].seen = w
    <3>1. Write(t, w, "sweep") BY <1>8 DEF ShutDone, w
    <3>2. QED BY <2>2, <3>1, WriteEffect
  <2>7. ~Armed(tick[t].seen)' /\ (EndedAt(tick[t].seen) = 0)'
    BY <2>3, <2>4, <2>6 DEF Armed, EndedAt
  <2>8. Kept(tick[t].seen)' BY <2>1, <2>5, <2>6 DEF Kept
  <2>9. KeptBy(t)' BY <2>6, <2>7, <2>8 DEF KeptBy, Settled
  <2>10. Held' BY <2>6 DEF Held
  <2>11. QED BY <1>3, <2>1, <2>9, <2>10
<1>9. CASE Persist(t)
  <2>1. /\ InLock(t) /\ tick[t].step = "persist" /\ rec' = tick[t].seen
        /\ taken' = taken /\ replicas' = replicas /\ tick[t].next # "drop"
    BY <1>9 DEF Persist, InLock, Locked, CurrentInv, CurrentBy
  <2>2. tick'[t].step = tick[t].next BY <1>1, <1>9, GoEffect DEF Persist
  <2>3. KeptBy(t)' BY <1>1, <2>1, <2>2 DEF KeptBy
  <2>4. Settled(tick[t].seen) BY <2>1 DEF KeptInv, KeptBy
  <2>5. Settled(rec)' BY <2>1, <2>4 DEF Settled, Kept, Armed, EndedAt, Clean
  <2>6. QED BY <1>3, <2>1, <2>3, <2>5
<1>10. CASE Suppress(t)
  <2>1. /\ InLock(t) /\ tick[t].step = "flap" /\ rec' = rec
        /\ taken' = taken /\ replicas' = replicas
    BY <1>10 DEF Suppress, InLock, Locked
  <2>2. Settled(rec)
    <3>1. ~Held BY <2>1, AloneInLock
    <3>2. QED BY <3>1 DEF KeptInv
  <2>3. Settled(rec)' BY <1>4, <2>1, <2>2, SettledKept
  <2>4. tick'[t].step = "sweep" BY <1>1, <1>10, GoEffect DEF Suppress
  <2>5. KeptBy(t)' BY <2>4 DEF KeptBy
  <2>6. QED BY <1>3, <2>1, <2>3, <2>5
<1>11. CASE Drop(t)
  <2>1. InLock(t) /\ tick[t].step = "drop" /\ taken' = taken /\ replicas' = replicas
    BY <1>11 DEF Drop, InLock, Locked
  <2>2. Clean BY <2>1 DEF KeptInv, KeptBy
  <2>3. Settled(rec)' BY <1>4, <2>1, <2>2, SettledKept
  <2>4. tick'[t].step = "sweep" BY <1>1, <1>11, GoEffect DEF Drop
  <2>5. KeptBy(t)' BY <2>4 DEF KeptBy
  <2>6. QED BY <1>3, <2>1, <2>3, <2>5
<1>12. CASE Sweep(t)
  <2>1. /\ tick[t].step = "sweep" /\ taken' = taken /\ replicas' = replicas
        /\ rec' = rec \/ (Stale(rec) /\ rec' = NoRecord)
    BY <1>12 DEF Sweep
  <2>2. tick'[t] = IdleTick BY <1>12, IdleEffect DEF Sweep
  <2>3. KeptBy(t)' BY <2>2 DEF KeptBy, IdleTick
  <2>4. Shrinks BY <1>4, <2>1
  <2>5. CASE Held
    <3>1. Held' BY <1>2, <2>1, <2>5, HeldElsewhere
    <3>2. \A p \in Pods : call[p].step = "idle"
      BY <2>5 DEF Held, LockInv, InLock, Locked
    <3>3. QED BY <1>2, <2>1, <2>3, <3>1, <3>2, KeptByTick
  <2>6. CASE Settled(rec)
    <3>1. Stale(rec) => Clean BY <2>6 DEF Stale, Settled
    <3>2. Settled(rec)' BY <2>1, <2>4, <2>6, <3>1, SettledKept
    <3>3. QED BY <1>2, <2>1, <2>3, <3>1, <3>2, KeptByTick
  <2>7. QED BY <2>5, <2>6 DEF KeptInv
<1>13. QED
  BY <1>5, <1>6, <1>7, <1>8, <1>9, <1>10, <1>11, <1>12 DEF TickStep

(* A step taken while no tick is in the lock.                              *)
LEMMA KeptByCall ==
  ASSUME \A t \in Ticks : ~InLock(t), tick' = tick,
         \A s \in Services : taken'[s] > 0 => replicas'[s] = 0,
         Settled(rec)', \A p \in Pods : KeptCall(p)'
  PROVE  KeptInv'
<1>1. \A t \in Ticks : KeptBy(t)' BY DEF KeptBy, InLock, Locked
<1>2. QED BY <1>1 DEF KeptInv

LEMMA RestoreKept ==
  ASSUME LockedInv, OnePod, KeptInv, NEW p \in Pods, NEW s \in Services,
         Restore(p, s)
  PROVE  KeptInv'
<1> USE DEF LockedInv, ShutdownTypes
<1>1. \A t \in Ticks : ~InLock(t)
  BY DEF LockInv, Restore
<1>2. Settled(rec)
  <2>1. ~Held BY <1>1, NobodyInLock
  <2>2. QED BY <2>1 DEF KeptInv
<1>3. /\ OtherCalls(p) /\ call'[p].step = "restore"
      /\ call'[p].seen = call[p].seen /\ call'[p].todo = call[p].todo \ {s}
  BY TodoEffect DEF Restore
<1>4. taken'[s] = 0
  <2>1. taken[s] > 0 => replicas[s] = 0 BY DEF KeptInv
  <2>2. taken[s] > 0 => call[p].seen.scale[s] > 0
    BY <1>2 DEF Restore, KeptInv, KeptCall, Clean, Settled, Kept
  <2>3. CASE replicas[s] > 0 BY <2>1, <2>3, TakenType DEF Restore
  <2>4. CASE ~(replicas[s] > 0)
    <3> DEFINE n == call[p].seen.scale[s]
               m == IF n > 0 THEN 0 ELSE taken[s]
    <3>1. replicas'[s] = n BY <2>4 DEF Restore, Scales
    <3>2. taken'[s] = m BY <2>4, <3>1 DEF Restore, Scales
    <3>3. m = 0 BY <2>2, TakenType
    <3>4. QED BY <3>2, <3>3
  <2>5. QED BY <2>3, <2>4
<1>5. \A x \in Services \ {s} : taken'[x] = taken[x] /\ replicas'[x] = replicas[x]
  BY DEF Restore, Scales
<1>6. Shrinks BY <1>4, <1>5 DEF Shrinks
<1>7. \A x \in Services : taken'[x] > 0 => replicas'[x] = 0
  BY <1>4, <1>5 DEF KeptInv
<1>8. rec' = rec /\ tick' = tick BY DEF Restore, space
<1>9. Settled(rec)' BY <1>2, <1>6, <1>8, SettledKept
<1>10. \A q \in Pods : KeptCall(q)'
  <2>1. KeptCall(p)'
    <3>1. \A x \in Services \ call'[p].todo : taken'[x] = 0
      BY <1>3, <1>4, <1>5 DEF Restore, KeptInv, KeptCall
    <3>2. call'[p].seen = rec' \/ Clean'
      BY <1>3, <1>6, <1>8, Shrinking DEF Restore, KeptInv, KeptCall
    <3>3. QED BY <1>3, <3>1, <3>2 DEF KeptCall
  <2>2. QED BY <2>1 DEF OnePod
<1>11. QED BY <1>1, <1>7, <1>8, <1>9, <1>10, KeptByCall

LEMMA CallKept ==
  ASSUME LockedInv, OnePod, KeptInv, NEW p \in Pods, CallStep(p)
  PROVE  KeptInv'
<1> USE DEF LockedInv, ShutdownTypes
<1>1. (\A t \in Ticks : ~InLock(t)) /\ tick' = tick
  BY DEF LockInv, CallStep, CancelArmed, Look, Restore, Restored,
         DropRestored, EndReset
<1>2. Settled(rec)
  <2>1. ~Held BY <1>1, NobodyInLock
  <2>2. QED BY <2>1 DEF KeptInv
<1>3. ASSUME taken' = taken, replicas' = replicas, rec' = rec \/ Clean, KeptCall(p)'
      PROVE  KeptInv'
  <2>1. Shrinks BY <1>3 DEF Shrinks
  <2>2. Settled(rec)' BY <1>2, <1>3, <2>1, SettledKept
  <2>3. \A s \in Services : taken'[s] > 0 => replicas'[s] = 0
    BY <1>3 DEF KeptInv
  <2>4. \A q \in Pods : KeptCall(q)' BY <1>3 DEF OnePod
  <2>5. QED BY <1>1, <2>2, <2>3, <2>4, KeptByCall
<1>4. ASSUME NEW step \in {"look", "force"}, To(p, step) PROVE KeptCall(p)'
  BY <1>4, ToEffect DEF CallSteps, KeptCall
<1>5. CASE CancelArmed(p)
  <2>1. Clean BY <1>5 DEF CancelArmed, KeptInv, KeptCall
  <2>2. QED BY <1>3, <1>4, <1>5, <2>1 DEF CancelArmed
<1>6. CASE Look(p)
  <2>1. taken' = taken /\ replicas' = replicas /\ rec' = rec
    BY <1>6 DEF Look, space
  <2>2. CASE To(p, "force") BY <1>3, <1>4, <2>1, <2>2
  <2>3. CASE call' = [call EXCEPT ![p].step = "restore", ![p].at = now,
                                  ![p].seen = rec, ![p].todo = Services]
    <3>1. /\ call'[p].step = "restore" /\ call'[p].seen = rec
          /\ call'[p].todo = Services
      BY <2>3, LookEffect DEF LedgerInv
    <3>2. KeptCall(p)' BY <2>1, <3>1 DEF KeptCall
    <3>3. QED BY <1>3, <2>1, <3>2
  <2>4. QED BY <1>6, <2>2, <2>3 DEF Look
<1>7. CASE \E s \in Services : Restore(p, s) BY <1>7, RestoreKept
<1>8. CASE Restored(p)
  <2>1. /\ taken' = taken /\ replicas' = replicas /\ rec' = rec
        /\ To(p, "drop")
    BY <1>8 DEF Restored
  <2>2. Clean BY <1>8 DEF Restored, KeptInv, KeptCall, Clean
  <2>3. Clean' BY <2>1, <2>2 DEF Clean
  <2>4. call'[p].step = "drop" BY <2>1, ToEffect DEF CallSteps
  <2>5. KeptCall(p)' BY <2>3, <2>4 DEF KeptCall
  <2>6. QED BY <1>3, <2>1, <2>5
<1>9. CASE DropRestored(p)
  <2>1. Clean BY <1>9 DEF DropRestored, KeptInv, KeptCall
  <2>2. QED BY <1>3, <1>4, <1>9, <2>1 DEF DropRestored
<1>10. CASE EndReset(p)
  <2>1. call'[p] = IdleCall BY <1>10, EndEffect DEF EndReset
  <2>2. KeptCall(p)' BY <2>1 DEF KeptCall, IdleCall
  <2>3. QED BY <1>3, <1>10, <2>2 DEF EndReset
<1>11. QED
  BY <1>5, <1>6, <1>7, <1>8, <1>9, <1>10 DEF CallStep

(* The calls that begin: a raise that unblocks drops only a notice, under  *)
(* which nothing was taken; so does a reset.                               *)
LEMMA BeginKept ==
  ASSUME LockedInv, OnePod, KeptInv, NEW p \in Pods,
         SetBudget(p) \/ ResetState(p)
  PROVE  KeptInv'
<1> USE DEF LockedInv, ShutdownTypes
<1>1. /\ \A t \in Ticks : ~InLock(t)
      /\ \A q \in Pods : call[q].step = "idle"
      /\ tick' = tick /\ taken' = taken /\ replicas' = replicas
  BY DEF SetBudget, ResetState, Free, OnePod, InLock
<1>2. Settled(rec)
  <2>1. ~Held BY <1>1, NobodyInLock
  <2>2. QED BY <2>1 DEF KeptInv
<1>3. rec' = rec \/ (Armed(rec) /\ rec' = NoRecord)
  BY DEF SetBudget, ResetState
<1>4. Shrinks BY <1>1 DEF Shrinks
<1>5. Armed(rec) => Clean BY <1>2 DEF Settled
<1>6. Settled(rec)' BY <1>2, <1>3, <1>4, <1>5, SettledKept
<1>7. \A q \in Pods : KeptCall(q)'
  <2>1. CASE SetBudget(p) BY <1>1, <2>1 DEF SetBudget, KeptCall
  <2>2. CASE ResetState(p)
    <3>1. call'[p].step = IF Armed(rec) THEN "cancel" ELSE "look"
      BY <2>2, ResetEffect
    <3>2. Clean => Clean' BY <1>4, Shrinking
    <3>3. KeptCall(p)' BY <1>5, <3>1, <3>2 DEF KeptCall
    <3>4. QED BY <3>3 DEF OnePod
  <2>3. QED BY <2>1, <2>2
<1>8. \A s \in Services : taken'[s] > 0 => replicas'[s] = 0
  BY <1>1 DEF KeptInv
<1>9. QED BY <1>1, <1>6, <1>7, <1>8, KeptByCall

(* Steps that leave the record, the ticks and the calls alone.             *)
LEMMA KeptElsewhere ==
  ASSUME KeptInv, Shrinks, rec' = rec, tick' = tick, call' = call,
         \A s \in Services : taken'[s] > 0 => replicas'[s] = 0
  PROVE  KeptInv'
<1>1. Held => Held' BY DEF Held
<1>2. Settled(rec) => Settled(rec)' BY SettledKept
<1>3. \A t \in Ticks : KeptBy(t)' BY KeptByKept DEF KeptInv
<1>4. \A p \in Pods : KeptCall(p)' BY KeptCallKept DEF KeptInv
<1>5. QED BY <1>1, <1>2, <1>3, <1>4 DEF KeptInv

LEMMA KeptStep ==
  ASSUME LockedInv, Undisturbed, CurrentInv, KeptInv, [ShutdownNext]_vars
  PROVE  KeptInv'
<1> USE DEF LockedInv, ShutdownTypes
<1>1. ASSUME NEW t \in Ticks, Charge(t) PROVE KeptInv'
  <2>1. ns' \in Budgets BY ShutdownRefines, LedgerStep DEF LedgerInv
  <2>2. /\ Others(t) /\ tick'[t].step \in {"lock", "sweep"}
        /\ tick[t].step = "idle" /\ rec' = rec /\ call' = call
        /\ taken' = taken /\ replicas' = replicas
    BY <1>1, <2>1, ChargeEffect DEF Charge
  <2>3. KeptBy(t)' BY <2>2 DEF KeptBy
  <2>4. Held => Held' BY <2>2, HeldElsewhere
  <2>5. Settled(rec) => Settled(rec)'
    BY <2>2, SettledKept DEF Shrinks
  <2>6. QED BY <2>2, <2>3, <2>4, <2>5, KeptByTick DEF KeptInv
<1>2. ASSUME NEW t \in Ticks, TickStep(t) PROVE KeptInv'
  BY <1>2, TickKept
<1>3. ASSUME NEW p \in Pods, SetBudget(p) \/ ResetState(p) PROVE KeptInv'
  BY <1>3, BeginKept DEF Undisturbed
<1>4. ASSUME NEW p \in Pods, CallStep(p) PROVE KeptInv'
  BY <1>4, CallKept DEF Undisturbed
<1>5. ASSUME NEW s \in Services, Scale(s) PROVE KeptInv'
  <2>1. PICK n \in 0..MaxScale :
          /\ replicas' = [replicas EXCEPT ![s] = n]
          /\ taken' = [taken EXCEPT ![s] = IF n > 0 THEN 0 ELSE taken[s]]
    BY <1>5 DEF Scale
  <2>2. /\ replicas'[s] = n /\ n \in Nat
        /\ taken'[s] = IF n > 0 THEN 0 ELSE taken[s]
        /\ \A x \in Services \ {s} : replicas'[x] = replicas[x] /\ taken'[x] = taken[x]
    BY <2>1 DEF Scales
  <2>3. Shrinks BY <2>2 DEF Shrinks
  <2>4. \A x \in Services : taken'[x] > 0 => replicas'[x] = 0
    BY <2>2, TakenType DEF KeptInv
  <2>5. rec' = rec /\ tick' = tick /\ call' = call BY <1>5 DEF Scale, space
  <2>6. QED BY <2>3, <2>4, <2>5, KeptElsewhere
<1>6. CASE Pass \/ UNCHANGED vars
  <2>1. /\ rec' = rec /\ tick' = tick /\ call' = call
        /\ taken' = taken /\ replicas' = replicas
    BY <1>6 DEF Pass, vars, space
  <2>2. Shrinks BY <2>1 DEF Shrinks
  <2>3. QED BY <2>1, <2>2, KeptElsewhere DEF KeptInv
<1>7. \A p \in Pods : ~ClearBudget(p) BY DEF ClearBudget, Undisturbed
<1>8. QED
  BY <1>1, <1>2, <1>3, <1>4, <1>5, <1>6, <1>7, NoFault DEF ShutdownNext

ScaleInv == LockedInv /\ CurrentInv /\ KeptInv

LEMMA ScaleInit == ShutdownInit => ScaleInv
<1> SUFFICES ASSUME ShutdownInit PROVE ScaleInv
  OBVIOUS
<1>1. rec = NoRecord /\ \A t \in Ticks : tick[t].step = "idle"
  BY DEF ShutdownInit, IdleTick
<1>2. CurrentInv
  BY <1>1, NoRecordCurrent DEF CurrentInv, CurrentBy, InLock, Locked
<1>3. Clean BY DEF ShutdownInit, Clean, NoScale
<1>4. KeptInv
  <2>1. \A p \in Pods : call[p].step = "idle" BY DEF ShutdownInit, IdleCall
  <2>2. Settled(rec) BY <1>3, CleanSettles
  <2>3. QED BY <1>1, <1>3, <2>1, <2>2 DEF KeptInv, KeptBy, KeptCall, Clean
<1>5. QED BY <1>2, <1>4, LockedInit DEF ScaleInv

LEMMA ScaleStep ==
  ASSUME Undisturbed, ScaleInv, [ShutdownNext]_vars
  PROVE  ScaleInv'
BY LockedStep, CurrentStep, KeptStep DEF ScaleInv, LockedInv, Undisturbed

(* Under Undisturbed a service that ran when the notice was given and that *)
(* the shutdown took down can be brought back at every moment, whatever    *)
(* ticks and resets overlap, for any number of services, replicas, ticks,  *)
(* calls and edits by hand.                                                *)
THEOREM ScaleKept == Undisturbed => (ShutdownSpec => []ScaleIsKept)
<1> SUFFICES ASSUME Undisturbed PROVE ShutdownSpec => []ScaleIsKept
  OBVIOUS
<1>1. ScaleInv /\ [ShutdownNext]_vars => ScaleInv'
  BY ScaleStep
<1>2. ASSUME ScaleInv PROVE ScaleIsKept
  <2>1. CASE Settled(rec) BY <2>1 DEF Settled, Kept, ScaleIsKept
  <2>2. ASSUME NEW t \in Ticks, tick[t].step \in {"shut", "persist"}
        PROVE  Kept(tick[t].seen)
    BY <1>2, <2>2 DEF ScaleInv, KeptInv, KeptBy, Settled
  <2>3. CASE Held BY <2>2, <2>3 DEF Held, Kept, ScaleIsKept
  <2>4. QED BY <1>2, <2>1, <2>3 DEF ScaleInv, KeptInv
<1>3. ScaleInv => ScaleIsKept BY <1>2
<1>4. QED BY <1>1, <1>3, ScaleInit, PTL DEF ShutdownSpec
=============================================================================
