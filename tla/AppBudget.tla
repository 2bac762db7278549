------------------------------- MODULE AppBudget -------------------------------
(***************************************************************************)
(* The operations on an app's budget as the rack runs them: the ticks of   *)
(* the budget accumulator (provider/k8s/budget_accumulator.go) and the     *)
(* set, clear and reset of the API.                                        *)
(*                                                                         *)
(* Each of them Gets the app's namespace, computes, and Updates it.  The   *)
(* Update carries the resourceVersion of the Get: it is refused when the   *)
(* namespace was written in between, and the operation starts over, up to  *)
(* budgetWriteConflictRetries times.  The events are sent after the        *)
(* Update.  API calls of one process exclude each other by appBudgetLock,  *)
(* a mutex of that process; the write of a tick takes no lock, ticks run   *)
(* each in a goroutine of its own, and a leader that has lost its lease    *)
(* may still be in one.                                                    *)
(*                                                                         *)
(* The jobs: a tick of Ticks is one such goroutine; a pod of Pods is an    *)
(* API process with the one call that holds its lock (calls waiting for    *)
(* the lock have read nothing yet).                                        *)
(***************************************************************************)
EXTENDS BudgetLedger, FiniteSets

CONSTANTS
  Ticks, Pods,   \* the accumulator's goroutines and the API processes
  Retries,       \* budgetWriteConflictRetries
  MaxCalls,      \* bound on API calls
  MaxFaults      \* bound on processes dying amid a job and on writes of the
                 \* namespace by others

Jobs == Ticks \cup Pods

ASSUME JobsAssumption ==
  /\ Ticks \cap Pods = {}
  /\ IsFiniteSet(Jobs)
  /\ Retries \in Nat \ {0}
  /\ MaxCalls \in Nat /\ MaxFaults \in Nat

VARIABLES
  job,      \* what each job is doing
  owed,     \* marks of the cap alert less app:budget:cap events sent
  calls, faults   \* the bounds' counters

vars == <<now, ns, job, owed, calls, faults>>
bounds == <<calls, faults>>

(* An operation with its arguments; at is the time it began, kept through  *)
(* its retries, where it matters.                                          *)
Operations(t) ==
  [kind : {"tick", "reset", "reset-period"}, cap : {0},
   action : {"alert-only"}, at : {t}]
  \cup [kind : {"clear"}, cap : {0}, action : {"alert-only"}, at : {0}]
  \cup [kind : {"set"}, cap : Caps, action : Actions, at : {0}]

NoOperation == [kind |-> "none", cap |-> 0, action |-> "alert-only", at |-> 0]

(* seen is the copy the last Get returned, fresh whether the namespace     *)
(* still has the resourceVersion of that copy.                             *)
Idle == [step |-> "idle", op |-> NoOperation, seen |-> NoBudget,
         fresh |-> FALSE, tries |-> 0]

(* What the operation writes in place of budget b.                         *)
Computed(op, b) ==
  CASE op.kind = "tick"         -> AfterTick(b, op.at)
    [] op.kind = "set"          -> AfterSet(b, op.cap, op.action)
    [] op.kind = "reset"        -> AfterReset(b, FALSE, op.at)
    [] op.kind = "reset-period" -> AfterReset(b, TRUE, op.at)
    [] OTHER                    -> NoBudget

(* willFireCap                                                             *)
Fires(op, b) == op.kind = "tick" /\ CapFires(b.cfg, Charged(b.st, op.at))

-----------------------------------------------------------------------------
Begin(j, op) ==
  /\ job[j].step = "idle"
  /\ job' = [job EXCEPT ![j] = [Idle EXCEPT !.step = "get", !.op = op]]

BeginTick(j) ==
  /\ j \in Ticks
  /\ \E op \in Operations(now) : op.kind = "tick" /\ Begin(j, op)
  /\ UNCHANGED <<now, ns, owed, bounds>>

BeginCall(j) ==
  /\ j \in Pods
  /\ calls < MaxCalls
  /\ calls' = calls + 1
  /\ \E op \in Operations(now) : op.kind # "tick" /\ Begin(j, op)
  /\ UNCHANGED <<now, ns, owed, faults>>

(* Clear returns when there is neither annotation.                         *)
NothingToDo(op) == op.kind = "clear" /\ ns = NoBudget

Get(j) ==
  /\ job[j].step = "get"
  /\ job' = [job EXCEPT ![j] =
       IF NothingToDo(job[j].op) THEN Idle
       ELSE [job[j] EXCEPT !.step = "update", !.seen = ns, !.fresh = TRUE]]
  /\ UNCHANGED <<now, ns, owed, bounds>>

(* The jobs when the namespace is written: no copy is of its new version.  *)
Outdated == [k \in Jobs |-> [job[k] EXCEPT !.fresh = FALSE]]

(* Variant: the Update carries no resourceVersion.                         *)
AcceptedAlways(j) == TRUE

Accepted(j) == job[j].fresh

Update(j) ==
  /\ job[j].step = "update"
  /\ Accepted(j)
  /\ ns' = Computed(job[j].op, job[j].seen)
  /\ LET fires == Fires(job[j].op, job[j].seen)
     IN  /\ owed' = IF fires THEN owed + 1 ELSE owed
         /\ job' = [Outdated EXCEPT ![j] =
              IF fires THEN [Idle EXCEPT !.step = "send"] ELSE Idle]
  /\ UNCHANGED <<now, bounds>>

(* Variant: the events are sent although the last try was refused.         *)
ConflictTold(j) ==
  /\ job[j].step = "update"
  /\ ~Accepted(j)
  /\ job' = [job EXCEPT ![j] =
       IF job[j].tries + 1 < Retries
         THEN [job[j] EXCEPT !.step = "get", !.tries = job[j].tries + 1,
                             !.seen = NoBudget]
       ELSE IF Fires(job[j].op, job[j].seen) THEN [Idle EXCEPT !.step = "send"]
       ELSE Idle]
  /\ UNCHANGED <<now, ns, owed, bounds>>

(* Refused: again from the Get, or an error after the last try.            *)
Conflict(j) ==
  /\ job[j].step = "update"
  /\ ~Accepted(j)
  /\ job' = [job EXCEPT ![j] =
       IF job[j].tries + 1 < Retries
         THEN [job[j] EXCEPT !.step = "get", !.tries = job[j].tries + 1,
                             !.seen = NoBudget]
         ELSE Idle]
  /\ UNCHANGED <<now, ns, owed, bounds>>

(* EventSend of app:budget:cap.                                            *)
Send(j) ==
  /\ job[j].step = "send"
  /\ owed' = owed - 1
  /\ job' = [job EXCEPT ![j] = Idle]
  /\ UNCHANGED <<now, ns, bounds>>

(* The process dies, and with it what it had not yet written or sent.      *)
Crash(j) ==
  /\ job[j].step # "idle"
  /\ faults < MaxFaults
  /\ faults' = faults + 1
  /\ job' = [job EXCEPT ![j] = Idle]
  /\ UNCHANGED <<now, ns, owed, calls>>

(* Another writer of the namespace changes what is not the budget.         *)
Touch ==
  /\ faults < MaxFaults
  /\ faults' = faults + 1
  /\ job' = Outdated
  /\ UNCHANGED <<now, ns, owed, calls>>

Pass == Elapse /\ UNCHANGED <<job, owed, bounds>>

BudgetInit ==
  /\ Init
  /\ job = [j \in Jobs |-> Idle]
  /\ owed = 0
  /\ calls = 0 /\ faults = 0

Step(j) == Get(j) \/ Update(j) \/ Conflict(j) \/ Send(j)

BudgetNext ==
  \/ \E j \in Jobs : BeginTick(j) \/ BeginCall(j) \/ Step(j) \/ Crash(j)
  \/ Touch
  \/ Pass

BudgetSpec == BudgetInit /\ [][BudgetNext]_vars

-----------------------------------------------------------------------------
(* The steps of a job, with the values in range.                           *)
AnyOperation == {NoOperation} \cup UNION {Operations(t) : t \in 1..MaxTime}

JobRecords ==
  [step : {"idle", "get", "update", "send"}, op : AnyOperation,
   seen : Budgets, fresh : BOOLEAN, tries : 0..Retries]

TypeOK ==
  /\ now \in 1..MaxTime
  /\ ns \in Budgets
  /\ job \in [Jobs -> JobRecords]
  /\ owed \in Int
  /\ calls \in 0..MaxCalls /\ faults \in 0..MaxFaults

(* Overlapping ticks, two leaders, retries and crashes send the cap event  *)
(* at most once for each time the alert is marked: an event is owed to a   *)
(* mark of its own, by the tick whose write was the one that set it.       *)
AlertedOncePerMark ==
  Cardinality({j \in Jobs : job[j].step = "send"}) <= owed

(* No write of the budget is lost or mixed with another: what the API and  *)
(* the ticks do to the namespace, call by call, is what the ledger does    *)
(* in one step each.                                                       *)
ActsAsLedger == Init /\ [][Next]_ledger
=============================================================================
