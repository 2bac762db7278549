---------------------------- MODULE BudgetShutdown ----------------------------
(***************************************************************************)
(* The auto-shutdown of an app over its budget                             *)
(* (provider/k8s/budget_auto_shutdown.go, budget_shutdown.go).             *)
(*                                                                         *)
(* After a tick of the accumulator has written the budget's state it       *)
(* reconciles the shutdown: it arms a record of the services and their     *)
(* scale on the namespace, and once the notice time is over scales them to *)
(* zero and writes that in the record.  A reset restores the services from *)
(* the record and deletes it; a sweep at the end of each tick deletes one  *)
(* that is done with.                                                      *)
(*                                                                         *)
(* A Get and Update of the namespace that is accepted is one step here     *)
(* (AppBudget shows that they act so), on whatever the namespace then      *)
(* holds; what a step writes may come from an older read.  The calls that  *)
(* hold appBudgetLock for a single Update are one step taken while it is   *)
(* free.  All ticks run in the leader's process.                           *)
(***************************************************************************)
EXTENDS BudgetLedger, FiniteSets

CONSTANTS
  Ticks,       \* goroutines of the accumulator, all in the process Leader
  Pods,        \* API processes
  Leader,      \* the pod whose accumulator holds the lease
  Services,    \* the app's services that may be shut down
  MaxScale,    \* bound on a service's replicas
  Modes,       \* recovery modes a manifest may have
  Notice,      \* notifyBeforeMinutes
  Cooldown,    \* BudgetFlapCooldown
  MaxCalls,    \* bound on API calls
  MaxEdits,    \* bound on services scaled by hand
  MaxFaults,   \* bound on crashes and on requests the cluster refuses
  Env          \* what may happen besides: see Events

Events == {"set",      \* the budget is set again after the first time
           "clear",    \* the budget is cleared
           "period",   \* a reset may start the period anew
           "overlap"}  \* ticks, calls and the passing of time overlap

ASSUME ShutdownAssumption ==
  /\ Leader \in Pods
  /\ MaxScale \in Nat \ {0}
  /\ Modes \subseteq {"auto-on-reset", "manual"}
  /\ Notice \in Nat \ {0} /\ Cooldown \in Nat \ {0}
  /\ MaxCalls \in Nat /\ MaxEdits \in Nat /\ MaxFaults \in Nat
  /\ Env \subseteq Events

VARIABLES
  rec,       \* the namespace's shutdown record
  flap,      \* until when a new shutdown is suppressed
  replicas,  \* of each service's deployment
  tick,      \* each tick
  call,      \* the reset that holds the lock of each pod
  taken,     \* replicas the shutdown took from a service not up since, if the
             \* service was up when the notice was given
  calls, edits, faults   \* the bounds' counters

space == <<ns, rec, flap>>
bounds == <<calls, edits, faults>>
vars == <<now, ns, rec, flap, replicas, tick, call, taken, bounds>>

Scales == [Services -> 0..MaxScale]
NoScale == [s \in Services |-> 0]

(* A time of zero is a nil pointer; no record is one that was never armed. *)
(* The manifest's hash covers the configuration and the names of the       *)
(* services, which are fixed here.                                         *)
NoRecord ==
  [armedAt |-> 0, shutdownAt |-> 0, restoredAt |-> 0, expiredAt |-> 0,
   mode |-> "auto-on-reset", hash |-> NoConfig, scale |-> NoScale]

Records ==
  [armedAt : Nat, shutdownAt : Nat, restoredAt : Nat, expiredAt : Nat,
   mode : {"auto-on-reset", "manual"}, hash : Configs, scale : Scales]

(* Variant: a record stays armed when it has fired.                        *)
ArmedEver(r) == r.armedAt # 0

Armed(r) == r.armedAt # 0 /\ r.shutdownAt = 0
Fired(r) == r.shutdownAt # 0

-----------------------------------------------------------------------------
(* A tick: the time it began at, the configuration it wrote the state      *)
(* under and whether that state has the cap alert marked, the record it    *)
(* read under the lock, the services left to shut down, what it has to     *)
(* write and which step follows.                                           *)
IdleTick ==
  [step |-> "idle", at |-> 0, cfg |-> NoConfig, alerted |-> FALSE,
   seen |-> NoRecord, flap |-> 0, todo |-> {}, next |-> "sweep"]

IdleCall ==
  [step |-> "idle", at |-> 0, force |-> FALSE, seen |-> NoRecord,
   todo |-> {}, up |-> FALSE, manual |-> FALSE]

Locked == {"decide", "shut", "persist", "flap", "drop"}

(* Variant: the tick reconciles without the lock.                          *)
FreeOfCalls(p) == call[p].step = "idle"

(* appBudgetLock of pod p: a call's, or a reconciling tick's.              *)
Free(p) ==
  /\ call[p].step = "idle"
  /\ p = Leader => \A t \in Ticks : tick[t].step \notin Locked

(* Without "overlap" whatever begins finds nothing else running: a tick    *)
(* and a reset take far less than the time between ticks.                  *)
Quiet ==
  /\ \A t \in Ticks : tick[t].step = "idle"
  /\ \A p \in Pods : call[p].step = "idle"

MayBegin == "overlap" \in Env \/ Quiet

Go(t, step) == tick' = [tick EXCEPT ![t].step = step]

(* What the tick decides to write, and the step after it.                  *)
Write(t, r, after) ==
  tick' = [tick EXCEPT ![t].step = "persist", ![t].seen = r, ![t].next = after]

(* accumulateBudgetApp up to its Update.                                   *)
Charge(t) ==
  /\ tick[t].step = "idle"
  /\ MayBegin
  /\ ns' = AfterTick(ns, now)
  /\ tick' = [tick EXCEPT ![t] =
       [IdleTick EXCEPT !.at = now, !.cfg = ns.cfg, !.alerted = ns'.st.alerted,
          !.step = IF ns.cfg.action = "auto-shutdown" THEN "lock" ELSE "sweep"]]
  /\ UNCHANGED <<now, rec, flap, replicas, call, taken, bounds>>

(* reconcileAutoShutdown takes the lock and reads the namespace.           *)
Examine(t) ==
  /\ tick[t].step = "lock"
  /\ Free(Leader)
  /\ tick' = [tick EXCEPT ![t].step = "decide", ![t].seen = rec,
                          ![t].flap = flap]
  /\ UNCHANGED <<now, space, replicas, call, taken, bounds>>

(* The conditions of its branches, in their order.                         *)
ScaledUpWhileArmed(r) ==
  Armed(r) /\ \E s \in Services : replicas[s] > r.scale[s]

Expires(r, at) ==
  /\ Fired(r) /\ r.expiredAt = 0 /\ r.restoredAt = 0
  /\ r.mode = "manual"
  /\ MonthOf(r.shutdownAt) < MonthOf(at)

ScaledUpAgain(r) ==
  /\ Fired(r) /\ r.restoredAt = 0
  /\ \A s \in Services : replicas[s] > 0

Reconfigured(r, cfg) == r # NoRecord /\ r.hash # cfg

(* Variant: only the tick at the very time fires.                          *)
DueExactly(r, at) == Armed(r) /\ at = r.armedAt + Notice

Due(r, at) == Armed(r) /\ at >= r.armedAt + Notice

Decide(t) ==
  LET at == tick[t].at
      r  == tick[t].seen
      changed == Reconfigured(r, tick[t].cfg)
  IN  /\ tick[t].step = "decide"
      /\ IF ScaledUpWhileArmed(r) THEN Go(t, "drop")
         ELSE IF Expires(r, at)
           THEN Write(t, [r EXCEPT !.expiredAt = at], "sweep")
         ELSE IF ScaledUpAgain(r)
           THEN Write(t, [r EXCEPT !.restoredAt = at], "flap")
         ELSE IF ~tick[t].alerted THEN Go(t, "sweep")
         ELSE IF changed /\ Armed(r) THEN Write(t, r, "drop")
         ELSE IF changed /\ r.restoredAt = 0
           THEN Write(t, [r EXCEPT !.restoredAt = at], "sweep")
         ELSE IF tick[t].flap > at THEN Go(t, "sweep")
         ELSE IF r = NoRecord
           THEN \/ replicas = NoScale /\ Go(t, "sweep")
                \/ /\ replicas # NoScale
                   /\ \E mode \in Modes :
                        Write(t, [NoRecord EXCEPT
                                    !.armedAt = at, !.mode = mode,
                                    !.hash = tick[t].cfg, !.scale = replicas],
                              "sweep")
         ELSE IF Due(r, at)
           THEN tick' = [tick EXCEPT ![t].step = "shut", ![t].todo = Services]
         ELSE Go(t, "sweep")
      /\ UNCHANGED <<now, space, replicas, call, taken, bounds>>

(* shutdownService, for one service of the record after another; it may    *)
(* fail after this, when the service's KEDA object is not paused.          *)
Shut(t, s) ==
  /\ tick[t].step = "shut"
  /\ s \in tick[t].todo
  /\ replicas' = [replicas EXCEPT ![s] = 0]
  /\ taken' = [taken EXCEPT ![s] =
       IF replicas[s] > 0 /\ tick[t].seen.scale[s] > 0 THEN replicas[s] ELSE @]
  /\ tick' = [tick EXCEPT ![t].todo = @ \ {s}]
  /\ UNCHANGED <<now, space, call, bounds>>

(* The deployment is not patched: the service is noted as failed, and the  *)
(* record is nevertheless written as fired.                                *)
ShutFails(t, s) ==
  /\ tick[t].step = "shut"
  /\ s \in tick[t].todo
  /\ faults < MaxFaults
  /\ faults' = faults + 1
  /\ tick' = [tick EXCEPT ![t].todo = @ \ {s}]
  /\ UNCHANGED <<now, space, replicas, call, taken, calls, edits>>

ShutDone(t) ==
  /\ tick[t].step = "shut"
  /\ tick[t].todo = {}
  /\ Write(t, [tick[t].seen EXCEPT !.shutdownAt = tick[t].at], "sweep")
  /\ UNCHANGED <<now, space, replicas, call, taken, bounds>>

(* persistShutdownState reads the resourceVersion anew: the record written *)
(* replaces whatever is there.                                             *)
Persist(t) ==
  /\ tick[t].step = "persist"
  /\ rec' = tick[t].seen
  /\ Go(t, tick[t].next)
  /\ UNCHANGED <<now, ns, flap, replicas, call, taken, bounds>>

(* Variant: the cooldown is counted backwards.                             *)
SuppressBack(t) ==
  /\ tick[t].step = "flap"
  /\ flap' = tick[t].at - Cooldown
  /\ Go(t, "sweep")
  /\ UNCHANGED <<now, ns, rec, replicas, call, taken, bounds>>

(* writeFlapSuppressedUntilAnnotation                                      *)
Suppress(t) ==
  /\ tick[t].step = "flap"
  /\ flap' = tick[t].at + Cooldown
  /\ Go(t, "sweep")
  /\ UNCHANGED <<now, ns, rec, replicas, call, taken, bounds>>

(* deleteBudgetShutdownStateAnnotation                                     *)
Drop(t) ==
  /\ tick[t].step = "drop"
  /\ rec' = NoRecord
  /\ Go(t, "sweep")
  /\ UNCHANGED <<now, ns, flap, replicas, call, taken, bounds>>

(* A write of the namespace fails after its retries; the tick goes on.     *)
WriteFails(t) ==
  /\ tick[t].step \in {"persist", "flap", "drop"}
  /\ faults < MaxFaults
  /\ faults' = faults + 1
  /\ Go(t, IF tick[t].step = "persist" THEN tick[t].next ELSE "sweep")
  /\ UNCHANGED <<now, space, replicas, call, taken, calls, edits>>

(* runStaleAnnotationGC, without the lock: a record restored, or else      *)
(* expired, longer than a tick ago goes, and so does an old suppression.   *)
EndedAt(r) == IF r.restoredAt # 0 THEN r.restoredAt ELSE r.expiredAt

Stale(r) == EndedAt(r) # 0 /\ EndedAt(r) < now - 1

Sweep(t) ==
  /\ tick[t].step = "sweep"
  /\ rec' = IF Stale(rec) THEN NoRecord ELSE rec
  /\ flap' = IF flap < now - 1 THEN 0 ELSE flap
  /\ tick' = [tick EXCEPT ![t] = IdleTick]
  /\ UNCHANGED <<now, ns, replicas, call, taken, bounds>>

-----------------------------------------------------------------------------
Called == MayBegin /\ calls < MaxCalls /\ calls' = calls + 1

(* AppBudgetSet: in the same Update the raise that unblocks deletes an     *)
(* armed record.                                                           *)
SetBudget(p) ==
  /\ Called
  /\ Free(p)
  /\ "set" \in Env \/ ns.cfg = NoConfig
  /\ \E cap \in Caps, action \in Actions :
       /\ ns' = AfterSet(ns, cap, action)
       /\ rec' = IF Unblocks(ns, cap) /\ Armed(rec) THEN NoRecord ELSE rec
  /\ UNCHANGED <<now, flap, replicas, tick, call, taken, edits, faults>>

(* AppBudgetClear leaves the shutdown's record.                            *)
ClearBudget(p) ==
  /\ Called
  /\ Free(p)
  /\ "clear" \in Env
  /\ ns' = NoBudget
  /\ UNCHANGED <<now, rec, flap, replicas, tick, call, taken, edits, faults>>

(* AppBudgetResetWithOptions, which holds the lock to its end.  First the  *)
(* state; a record that is armed is then to be deleted.                    *)
ResetState(p) ==
  /\ Called
  /\ Free(p)
  /\ \E period \in {FALSE} \cup {"period" \in Env}, force \in BOOLEAN :
       /\ ns' = AfterReset(ns, period, now)
       /\ call' = [call EXCEPT ![p] =
            [IdleCall EXCEPT !.step = IF Armed(rec) THEN "cancel" ELSE "look",
                             !.force = force]]
  /\ UNCHANGED <<now, rec, flap, replicas, tick, taken, edits, faults>>

To(p, step) == call' = [call EXCEPT ![p].step = step]

CancelArmed(p) ==
  /\ call[p].step = "cancel"
  /\ rec' = NoRecord
  /\ To(p, "look")
  /\ UNCHANGED <<now, ns, flap, replicas, tick, taken, bounds>>

(* The namespace is read again: what is restored is the record found now.  *)
Look(p) ==
  /\ call[p].step = "look"
  /\ IF rec = NoRecord THEN To(p, "force")
     ELSE call' = [call EXCEPT ![p].step = "restore", ![p].at = now,
                               ![p].seen = rec, ![p].todo = Services]
  /\ UNCHANGED <<now, space, replicas, tick, taken, bounds>>

(* restoreServiceFromState: a service that runs is left as it is.          *)
Restore(p, s) ==
  /\ call[p].step = "restore"
  /\ s \in call[p].todo
  /\ IF replicas[s] > 0
       THEN /\ call' = [call EXCEPT ![p].todo = @ \ {s}, ![p].manual = TRUE]
            /\ UNCHANGED <<replicas, taken>>
       ELSE /\ call' = [call EXCEPT ![p].todo = @ \ {s}, ![p].up = TRUE]
            /\ replicas' = [replicas EXCEPT ![s] = call[p].seen.scale[s]]
            /\ taken' = [taken EXCEPT ![s] = IF replicas'[s] > 0 THEN 0 ELSE @]
  /\ UNCHANGED <<now, space, tick, bounds>>

RestoreFails(p, s) ==
  /\ call[p].step = "restore"
  /\ s \in call[p].todo
  /\ faults < MaxFaults
  /\ faults' = faults + 1
  /\ call' = [call EXCEPT ![p].todo = @ \ {s}]
  /\ UNCHANGED <<now, space, replicas, tick, taken, calls, edits>>

(* A delete of the record fails after its retries; the reset goes on.      *)
DeleteFails(p) ==
  /\ call[p].step \in {"cancel", "drop"}
  /\ faults < MaxFaults
  /\ faults' = faults + 1
  /\ To(p, IF call[p].step = "cancel" THEN "look" ELSE "force")
  /\ UNCHANGED <<now, space, replicas, tick, taken, calls, edits>>

(* The cooldown starts with a restore, not with the cancelling of a notice.*)
Cools(c) == (c.up \/ c.manual) /\ ~(Armed(c.seen) /\ c.manual)

Restored(p) ==
  /\ call[p].step = "restore"
  /\ call[p].todo = {}
  /\ flap' = IF Cools(call[p]) THEN call[p].at + Cooldown ELSE flap
  /\ To(p, "drop")
  /\ UNCHANGED <<now, ns, rec, replicas, tick, taken, bounds>>

(* The record goes whether or not every service was restored.              *)
DropRestored(p) ==
  /\ call[p].step = "drop"
  /\ rec' = NoRecord
  /\ To(p, "force")
  /\ UNCHANGED <<now, ns, flap, replicas, tick, taken, bounds>>

(* ForceClearCooldown                                                      *)
EndReset(p) ==
  /\ call[p].step = "force"
  /\ flap' = IF call[p].force THEN 0 ELSE flap
  /\ call' = [call EXCEPT ![p] = IdleCall]
  /\ UNCHANGED <<now, ns, rec, replicas, tick, taken, bounds>>

-----------------------------------------------------------------------------
(* A deploy, convox scale or kubectl.                                      *)
Scale(s) ==
  /\ edits < MaxEdits
  /\ edits' = edits + 1
  /\ \E n \in 0..MaxScale :
       /\ n # replicas[s]
       /\ replicas' = [replicas EXCEPT ![s] = n]
       /\ taken' = [taken EXCEPT ![s] = IF n > 0 THEN 0 ELSE @]
  /\ UNCHANGED <<now, space, tick, call, calls, faults>>

(* A process dies: its ticks and its call end where they are.              *)
Crash(p) ==
  /\ faults < MaxFaults
  /\ faults' = faults + 1
  /\ \/ call[p].step # "idle"
     \/ p = Leader /\ \E t \in Ticks : tick[t].step # "idle"
  /\ call' = [call EXCEPT ![p] = IdleCall]
  /\ tick' = IF p = Leader THEN [t \in Ticks |-> IdleTick] ELSE tick
  /\ UNCHANGED <<now, space, replicas, taken, calls, edits>>

Pass ==
  /\ MayBegin
  /\ Elapse
  /\ UNCHANGED <<rec, flap, replicas, tick, call, taken, bounds>>

ShutdownInit ==
  /\ Init
  /\ rec = NoRecord /\ flap = 0
  /\ replicas = [s \in Services |-> 1] /\ taken = NoScale
  /\ tick = [t \in Ticks |-> IdleTick]
  /\ call = [p \in Pods |-> IdleCall]
  /\ calls = 0 /\ edits = 0 /\ faults = 0

TickStep(t) ==
  \/ Examine(t) \/ Decide(t) \/ (\E s \in Services : Shut(t, s))
  \/ ShutDone(t) \/ Persist(t) \/ Suppress(t) \/ Drop(t) \/ Sweep(t)

CallStep(p) ==
  \/ CancelArmed(p) \/ Look(p) \/ (\E s \in Services : Restore(p, s))
  \/ Restored(p) \/ DropRestored(p) \/ EndReset(p)

Fault ==
  \/ \E t \in Ticks : WriteFails(t) \/ \E s \in Services : ShutFails(t, s)
  \/ \E p \in Pods :
       Crash(p) \/ DeleteFails(p) \/ \E s \in Services : RestoreFails(p, s)

ShutdownNext ==
  \/ \E t \in Ticks : Charge(t) \/ TickStep(t)
  \/ \E p \in Pods : SetBudget(p) \/ ClearBudget(p) \/ ResetState(p) \/ CallStep(p)
  \/ \E s \in Services : Scale(s)
  \/ Fault
  \/ Pass

ShutdownSpec == ShutdownInit /\ [][ShutdownNext]_vars

(* What runs goes on; the leader's ticker never stops, and time passes.    *)
FairShutdownSpec ==
  /\ ShutdownSpec
  /\ \A t \in Ticks : WF_vars(TickStep(t)) /\ WF_vars(Charge(t))
  /\ \A p \in Pods : WF_vars(CallStep(p))
  /\ WF_vars(Pass)
-----------------------------------------------------------------------------
TickRecords ==
  [step : Locked \cup {"idle", "lock", "sweep"}, at : 0..MaxTime,
   cfg : Configs, alerted : BOOLEAN, seen : Records, flap : Nat,
   todo : SUBSET Services, next : {"flap", "drop", "sweep"}]

CallRecords ==
  [step : {"idle", "cancel", "look", "restore", "drop", "force"},
   at : 0..MaxTime, force : BOOLEAN, seen : Records, todo : SUBSET Services,
   up : BOOLEAN, manual : BOOLEAN]

TypeOK ==
  /\ now \in 1..MaxTime
  /\ ns \in Budgets
  /\ rec \in Records
  /\ flap \in Nat
  /\ replicas \in Scales /\ taken \in Scales
  /\ tick \in [Ticks -> TickRecords]
  /\ call \in [Pods -> CallRecords]
  /\ calls \in 0..MaxCalls /\ edits \in 0..MaxEdits /\ faults \in 0..MaxFaults

(* A service that ran when the notice was given and that the shutdown has  *)
(* scaled to zero can be brought back: until it runs again, its scale is   *)
(* in the record, or in the hands of a tick about to write it there.       *)
ScaleIsKept ==
  \A s \in Services : taken[s] > 0 =>
    \/ rec.scale[s] > 0
    \/ \E t \in Ticks :
         tick[t].step \in {"shut", "persist"} /\ tick[t].seen.scale[s] > 0

(* Services are shut down under a notice that stands: whoever shuts one    *)
(* down does so from the record that is on the namespace at that moment,   *)
(* not from one a reset has cancelled or another tick has replaced.        *)
ShutsUnderNotice ==
  [][\A t \in Ticks, s \in Services : Shut(t, s) => rec = tick[t].seen]_vars

(* A shutdown is armed only where there is no record: two ticks never arm  *)
(* one after the other, which would record services already at zero.       *)
ArmsOnce ==
  [][rec'.armedAt # rec.armedAt /\ Armed(rec') => rec = NoRecord]_vars

(* A service is taken down only while the spend has reached the cap.       *)
ShutsOnlyOverCap ==
  [][(\E s \in Services : taken'[s] > taken[s])
       => ns.cfg.cap > 0 /\ ns.st.spend >= ns.cfg.cap]_vars

(* A notice whose time comes before the clock stops does not stay: it ends *)
(* in a shutdown or is cancelled.                                          *)
NoticeEnds ==
  (Armed(rec) /\ rec.armedAt + Notice <= MaxTime) ~> ~Armed(rec)
=============================================================================
