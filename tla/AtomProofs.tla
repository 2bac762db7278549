----------------------------- MODULE AtomProofs -----------------------------
(***************************************************************************)
(* Theorems about Atom, for any set of replicas, any bounds and any        *)
(* environment: its types, the single step back, the implementation of the *)
(* version history, and that placeholders are resolved before they are     *)
(* applied.                                                                *)
(***************************************************************************)
EXTENDS Atom, SequenceTheorems, TLAPS

-----------------------------------------------------------------------------
(* Types of the values handlers are built from. *)

LEMMA Assumptions == MaxVersions \in Nat /\ MaxVersions # 0 /\ MaxFaults \in Nat
BY MaxVersionsAssumption, MaxFaultsAssumption

LEMMA VersionType == NoVersion \in Version /\ Version \subseteq Int
BY Assumptions DEF Version, NoVersion

LEMMA IdleType == Idle \in Handler
BY VersionType DEF Idle, Handler, Status, Settled

LEMMA WriteStatusType ==
  ASSUME NEW s \in Status
  PROVE  WriteStatus(s) \in Handler
BY VersionType DEF WriteStatus, Idle, Handler, Status, Settled

LEMMA StartApplyType ==
  ASSUME NEW p \in {"apply", "rollback"}
  PROVE  StartApply(p) \in Handler
BY VersionType DEF StartApply, Idle, Handler, Status, Settled

LEMMA RollBackToType ==
  ASSUME NEW v \in Version
  PROVE  RollBackTo(v) \in Handler
BY VersionType DEF RollBackTo, Idle, Handler, Status, Settled

LEMMA OutcomeType ==
  ASSUME NEW p \in {"apply", "rollback"}
  PROVE  Succeeded(p) \in Handler /\ Failed(p) \in Handler
<1>1. "Updating" \in Status /\ "Rollback" \in Status
      /\ "Error" \in Status /\ "Failure" \in Status
  BY DEF Status, Settled, Rollouts, Failing
<1>2. QED
  BY <1>1, WriteStatusType DEF Succeeded, Failed

LEMMA VerdictType ==
  ASSUME NEW a \in Snapshot, NEW first \in {"ok", "wait", "error"},
         NEW second \in {"ok", "wait", "error"}
  PROVE  Verdict(a, first, second) \in Handler
<1>1. {"Deadline", "Failure", "Error", "Running", "Reverted"} \subseteq Status
  BY DEF Status, Settled, Rollouts, Failing
<1>2. CASE Expired(a, first)
  <2>1. Verdict(a, first, second)
          = WriteStatus(IF a.status = "Updating" THEN "Deadline" ELSE "Failure")
    BY <1>2 DEF Verdict
  <2>2. QED BY <1>1, <2>1, WriteStatusType
<1>3. CASE ~Expired(a, first) /\ second = "error"
  <2>1. Verdict(a, first, second)
          = WriteStatus(IF a.status = "Updating" THEN "Error" ELSE "Failure")
    BY <1>3 DEF Verdict
  <2>2. QED BY <1>1, <2>1, WriteStatusType
<1>4. CASE ~Expired(a, first) /\ second = "ok"
  <2>1. Verdict(a, first, second)
          = WriteStatus(IF a.status = "Updating" THEN "Running" ELSE "Reverted")
    BY <1>4 DEF Verdict
  <2>2. QED BY <1>1, <2>1, WriteStatusType
<1>5. CASE ~Expired(a, first) /\ second = "wait"
  BY <1>5, IdleType DEF Verdict
<1>6. QED BY <1>2, <1>3, <1>4, <1>5

-----------------------------------------------------------------------------
(* Types of a write and of a delivery. *)

LEMMA PublishType ==
  ASSUME TypeOK, NEW new \in Snapshot, Publish(new)
  PROVE  atom' \in Snapshot /\ queue' \in [Controllers -> Seq(Snapshot)]
BY DEF TypeOK, Publish

LEMMA OutdatedType ==
  ASSUME TypeOK
  PROVE  Outdated \in [Controllers -> Handler]
<1>1. ASSUME NEW c \in Controllers
      PROVE  [ctl[c] EXCEPT !.got = "stale"] \in Handler
  BY DEF TypeOK, Handler
<1>2. QED BY <1>1 DEF Outdated, TypeOK

LEMMA ExternalWriteType ==
  ASSUME TypeOK, NEW new \in Snapshot, ExternalWrite(new)
  PROVE  /\ atom' \in Snapshot
         /\ queue' \in [Controllers -> Seq(Snapshot)]
         /\ ctl' \in [Controllers -> Handler]
BY PublishType, OutdatedType DEF ExternalWrite

LEMMA HandlerWriteType ==
  ASSUME TypeOK, NEW c \in Controllers, NEW new \in Snapshot,
         NEW k \in Handler, HandlerWrite(c, new, k)
  PROVE  /\ atom' \in Snapshot
         /\ queue' \in [Controllers -> Seq(Snapshot)]
         /\ ctl' \in [Controllers -> Handler]
BY PublishType, OutdatedType DEF HandlerWrite

LEMMA HeadType ==
  ASSUME TypeOK, NEW c \in Controllers, Ready(c)
  PROVE  Head(queue[c]) \in Snapshot /\ Tail(queue[c]) \in Seq(Snapshot)
BY HeadTailProperties DEF TypeOK, Ready

LEMMA DeliverType ==
  ASSUME TypeOK, NEW c \in Controllers, Ready(c), NEW k \in Handler,
         Deliver(c, k), faults' \in 0..MaxFaults
  PROVE  TypeOK'
<1>1. Head(queue[c]).status \in Status /\ Tail(queue[c]) \in Seq(Snapshot)
  BY HeadType DEF Snapshot
<1>2. queue' \in [Controllers -> Seq(Snapshot)] /\ seen' \in [Controllers -> Status]
  BY <1>1 DEF Deliver, TypeOK
<1>3. ctl' \in [Controllers -> Handler]
  BY DEF Deliver, TypeOK
<1>4. QED BY <1>2, <1>3 DEF Deliver, TypeOK, store

LEMMA GiveUpType ==
  ASSUME TypeOK, NEW c \in Controllers, GiveUp(c)
  PROVE  ctl' \in [Controllers -> Handler]
<1>1. ctl[c].path \in {"apply", "rollback"}
  BY DEF TypeOK, Handler
<1>2. Failed(ctl[c].path) \in Handler /\ Idle \in Handler
  BY <1>1, OutcomeType, IdleType
<1>3. QED BY <1>2 DEF GiveUp, TypeOK

-----------------------------------------------------------------------------
(* Type correctness, one lemma per group of actions. *)

LEMMA InitType == Init => TypeOK
<1> SUFFICES ASSUME Init PROVE TypeOK
  OBVIOUS
<1>1. NoAtom \in Snapshot
  BY VersionType DEF NoAtom, Snapshot, Status, Settled
<1>2. queue \in [Controllers -> Seq(Snapshot)]
  BY EmptySeq DEF Init
<1>3. "" \in Status
  BY DEF Status, Settled
<1>4. issued \in Version /\ faults \in 0..MaxFaults
  <2>1. issued = 0 /\ faults = 0
    BY DEF Init
  <2>2. QED BY <2>1, Assumptions DEF Version
<1>5. QED
  BY <1>1, <1>2, <1>3, <1>4, VersionType, IdleType DEF Init, TypeOK

LEMMA PromoteType == ASSUME TypeOK, NEW d \in BOOLEAN, Promote(d) PROVE TypeOK'
<1>1. issued + 1 \in Version /\ issued + 1 \in Versions
  BY Assumptions DEF TypeOK, Promote, Version, Versions
<1>2. [status |-> "Pending", cur |-> issued + 1, prev |-> atom.cur,
       deps |-> d, late |-> FALSE] \in Snapshot
  BY <1>1 DEF TypeOK, Snapshot, Status
<1>3. /\ atom' \in Snapshot /\ queue' \in [Controllers -> Seq(Snapshot)]
      /\ ctl' \in [Controllers -> Handler]
  BY <1>2, ExternalWriteType DEF Promote
<1>4. unresolved' \subseteq Versions
  BY <1>1 DEF Promote, TypeOK
<1>5. QED
  BY <1>1, <1>3, <1>4 DEF Promote, TypeOK, lease

LEMMA OthersType == ASSUME TypeOK, Others PROVE TypeOK'
<1>1. CASE \E d \in BOOLEAN : Promote(d)
  BY <1>1, PromoteType
<1>2. CASE Cancel
  <2>1. [atom EXCEPT !.status = IF @ = "Rollback" THEN "Failure"
                                ELSE "Cancelled"] \in Snapshot
    BY DEF TypeOK, Snapshot, Status, Settled, Failing
  <2>2. /\ atom' \in Snapshot /\ queue' \in [Controllers -> Seq(Snapshot)]
        /\ ctl' \in [Controllers -> Handler]
    BY <1>2, <2>1, ExternalWriteType DEF Cancel
  <2>3. QED BY <1>2, <2>2 DEF Cancel, TypeOK, store, lease
<1>3. CASE ReadStaleCache
  BY <1>3 DEF ReadStaleCache, TypeOK, lease, Snapshot
<1>4. CASE PatchReleaseCache
  <2>1. /\ atom' \in Snapshot /\ queue' \in [Controllers -> Seq(Snapshot)]
        /\ ctl' \in [Controllers -> Handler]
    BY <1>4, ExternalWriteType DEF PatchReleaseCache, TypeOK
  <2>2. QED
    BY <1>4, <2>1, VersionType DEF PatchReleaseCache, TypeOK, lease
<1>5. CASE StartResolver
  BY <1>5 DEF StartResolver, TypeOK, lease, Snapshot
<1>6. CASE ClearDependencies
  <2>1. [atom EXCEPT !.deps = FALSE] \in Snapshot
    BY DEF TypeOK, Snapshot
  <2>2. /\ atom' \in Snapshot /\ queue' \in [Controllers -> Seq(Snapshot)]
        /\ ctl' \in [Controllers -> Handler]
    BY <1>6, <2>1, ExternalWriteType DEF ClearDependencies, TypeOK
  <2>3. QED
    BY <1>6, <2>2, VersionType DEF ClearDependencies, TypeOK, lease
<1>7. CASE AbandonResolver
  BY <1>7, VersionType DEF AbandonResolver, TypeOK, lease
<1>8. QED
  BY <1>1, <1>2, <1>3, <1>4, <1>5, <1>6, <1>7 DEF Others

LEMMA HandleType ==
  ASSUME TypeOK, NEW c \in Controllers, Handle(c) PROVE TypeOK'
<1>1. ctl[c] \in Handler /\ ctl[c].path \in {"apply", "rollback"}
      /\ ctl[c].ver \in Version /\ ctl[c].status \in Status
  BY DEF TypeOK, Handler
<1>2. ASSUME NEW first \in {"ok", "wait", "error"},
             NEW second \in {"ok", "wait", "error"},
             ExamineRollout(c, first, second)
      PROVE  TypeOK'
  <2>1. Ready(c) /\ Head(queue[c]) \in Snapshot
    BY <1>2, HeadType DEF ExamineRollout, Notified
  <2>2. Verdict(Head(queue[c]), first, second) \in Handler
    BY <2>1, VerdictType
  <2>3. CASE "error" \in {first, second}
    <3>1. Answers(Head(queue[c])) # {"ok"} /\ Answers(Head(queue[c])) # {"ok", "wait"}
      BY <1>2, <2>3 DEF ExamineRollout
    <3>2. faults < MaxFaults
      BY <3>1 DEF Answers
    <3>3. faults' \in 0..MaxFaults
      BY <1>2, <2>3, <3>2, Assumptions DEF ExamineRollout, TypeOK
    <3>4. QED BY <1>2, <2>1, <2>2, <3>3, DeliverType DEF ExamineRollout
  <2>4. CASE "error" \notin {first, second}
    <3>1. faults' \in 0..MaxFaults
      BY <1>2, <2>4 DEF ExamineRollout, TypeOK
    <3>2. QED BY <1>2, <2>1, <2>2, <3>1, DeliverType DEF ExamineRollout
  <2>5. QED BY <2>3, <2>4
<1>3. CASE BeginRollback(c)
  <2>1. Ready(c) /\ Target(Head(queue[c])) \in Version
    BY <1>3, HeadType DEF BeginRollback, Notified, Target, Snapshot
  <2>2. RollBackTo(Target(Head(queue[c]))) \in Handler
    BY <2>1, RollBackToType
  <2>3. faults' \in 0..MaxFaults
    BY <1>3 DEF BeginRollback, TypeOK
  <2>4. QED BY <1>3, <2>1, <2>2, <2>3, DeliverType DEF BeginRollback
<1>4. CASE BeginApply(c)
  <2>1. Succeeded("apply") \in Handler /\ StartApply("apply") \in Handler
    BY OutcomeType, StartApplyType
  <2>2. faults' \in 0..MaxFaults /\ Ready(c)
    BY <1>4 DEF BeginApply, Notified, TypeOK
  <2>3. QED BY <1>4, <2>1, <2>2, DeliverType DEF BeginApply
<1>5. CASE Ignore(c)
  <2>1. faults' \in 0..MaxFaults /\ Ready(c)
    BY <1>5 DEF Ignore, TypeOK
  <2>2. QED BY <1>5, <2>1, IdleType, DeliverType DEF Ignore
<1>6. CASE GetAtom(c)
  <2>1. [ctl[c] EXCEPT !.got = "fresh"] \in Handler
    BY <1>1 DEF Handler
  <2>2. QED BY <1>6, <2>1 DEF GetAtom, TypeOK, store, lease
<1>7. CASE RollbackUpdate(c)
  <2>1. RolledBack(ctl[c].ver) \in Snapshot
    BY <1>1, VersionType DEF RolledBack, TypeOK, Snapshot
  <2>2. AfterRollback(ctl[c].ver) \in Handler
    BY OutcomeType, StartApplyType DEF AfterRollback
  <2>3. /\ atom' \in Snapshot /\ queue' \in [Controllers -> Seq(Snapshot)]
        /\ ctl' \in [Controllers -> Handler]
    BY <1>7, <2>1, <2>2, HandlerWriteType DEF RollbackUpdate
  <2>4. QED BY <1>7, <2>3 DEF RollbackUpdate, TypeOK, store, lease
<1>8. CASE StartUpdate(c)
  <2>1. [atom EXCEPT !.late = FALSE] \in Snapshot /\ atom.cur \in Version
    BY DEF TypeOK, Snapshot
  <2>2. [ctl[c] EXCEPT !.step = "template", !.got = "no", !.ver = atom.cur]
          \in Handler
    BY <1>1, <2>1 DEF Handler
  <2>3. Failed(ctl[c].path) \in Handler
    BY <1>1, OutcomeType
  <2>4. /\ atom' \in Snapshot /\ queue' \in [Controllers -> Seq(Snapshot)]
        /\ ctl' \in [Controllers -> Handler]
    BY <1>8, <2>1, <2>2, <2>3, HandlerWriteType DEF StartUpdate
  <2>5. QED BY <1>8, <2>4 DEF StartUpdate, TypeOK, store, lease
<1>9. CASE ApplyTemplate(c)
  <2>1. Succeeded(ctl[c].path) \in Handler /\ Failed(ctl[c].path) \in Handler
    BY <1>1, OutcomeType
  <2>2. live' \in Version \cup {Partial} /\ ctl' \in [Controllers -> Handler]
    BY <1>1, <1>9, <2>1 DEF ApplyTemplate, TypeOK
  <2>3. QED BY <1>9, <2>2 DEF ApplyTemplate, TypeOK, store, lease
<1>10. CASE StatusUpdate(c)
  <2>1. [atom EXCEPT !.status = ctl[c].status] \in Snapshot
    BY <1>1 DEF TypeOK, Snapshot
  <2>2. /\ atom' \in Snapshot /\ queue' \in [Controllers -> Seq(Snapshot)]
        /\ ctl' \in [Controllers -> Handler]
    BY <1>10, <2>1, IdleType, HandlerWriteType DEF StatusUpdate, TypeOK
  <2>3. QED BY <1>10, <2>2 DEF StatusUpdate, TypeOK, store, lease
<1>11. CASE Conflict(c)
  BY <1>11, GiveUpType DEF Conflict, TypeOK, store, lease
<1>12. QED
  BY <1>2, <1>3, <1>4, <1>5, <1>6, <1>7, <1>8, <1>9, <1>10, <1>11 DEF Handle

LEMMA FaultType ==
  ASSUME TypeOK, NEW kind, Fault(kind) PROVE faults' \in 0..MaxFaults
BY Assumptions DEF TypeOK, Fault

LEMMA StopLeadingType ==
  ASSUME TypeOK, NEW c \in Controllers, StopLeading(c)
  PROVE  /\ leader' \in [Controllers -> BOOLEAN]
         /\ queue' \in [Controllers -> Seq(Snapshot)]
BY DEF TypeOK, StopLeading

LEMMA DisturbType ==
  ASSUME TypeOK, NEW c \in Controllers, Disturb(c) PROVE TypeOK'
<1>1. CASE ApiError(c)
  <2>1. faults' \in 0..MaxFaults
    BY <1>1, FaultType DEF ApiError
  <2>2. QED BY <1>1, <2>1, GiveUpType DEF ApiError, TypeOK, store, lease
<1>2. CASE Relist(c)
  <2>1. faults' \in 0..MaxFaults
    BY <1>2, FaultType DEF Relist
  <2>2. PICK k \in 0..(Len(queue[c]) - 2) :
          queue' = [queue EXCEPT ![c] = Append(SubSeq(@, 1, k), @[Len(@)])]
    BY <1>2 DEF Relist
  <2>3. queue[c] \in Seq(Snapshot) /\ Len(queue[c]) \in Nat
    BY LenProperties DEF TypeOK
  <2>4. SubSeq(queue[c], 1, k) \in Seq(Snapshot)
    <3>1. \A i \in 1..k : queue[c][i] \in Snapshot
      BY <2>3, ElementOfSeq
    <3>2. QED BY <2>3, <3>1, SubSeqProperties
  <2>5. queue[c][Len(queue[c])] \in Snapshot
    BY <2>3, ElementOfSeq
  <2>6. queue' \in [Controllers -> Seq(Snapshot)]
    BY <2>2, <2>4, <2>5, AppendProperties DEF TypeOK
  <2>7. QED BY <1>2, <2>1, <2>6 DEF Relist, TypeOK, store, lease
<1>3. CASE LoseLead(c)
  <2>1. faults' \in 0..MaxFaults
    BY <1>3, FaultType DEF LoseLead
  <2>2. QED
    BY <1>3, <2>1, StopLeadingType DEF LoseLead, StopLeading, TypeOK, store
<1>4. CASE Crash(c)
  <2>1. faults' \in 0..MaxFaults
    BY <1>4, FaultType DEF Crash
  <2>2. ctl' \in [Controllers -> Handler]
    BY <1>4, IdleType DEF Crash, TypeOK
  <2>3. QED
    BY <1>4, <2>1, <2>2, StopLeadingType DEF Crash, StopLeading, TypeOK, store
<1>5. QED BY <1>1, <1>2, <1>3, <1>4 DEF Disturb

LEMMA TimeType ==
  ASSUME TypeOK,
         DeadlinePasses \/ \E c \in Controllers : Resync(c) \/ Lead(c)
  PROVE  TypeOK'
<1>1. CASE DeadlinePasses
  <2>1. \A a \in Snapshot : Expire(a) \in Snapshot
    BY DEF Expire, Snapshot
  <2>2. ASSUME NEW c \in Controllers
        PROVE  [i \in DOMAIN queue[c] |-> Expire(queue[c][i])] \in Seq(Snapshot)
    <3>1. queue[c] \in Seq(Snapshot)
      BY DEF TypeOK
    <3>2. Len(queue[c]) \in Nat /\ DOMAIN queue[c] = 1..Len(queue[c])
      BY <3>1, LenProperties
    <3>3. \A i \in 1..Len(queue[c]) : Expire(queue[c][i]) \in Snapshot
      BY <2>1, <3>1, ElementOfSeq
    <3>4. QED BY <3>2, <3>3, SeqDef
  <2>3. queue' \in [Controllers -> Seq(Snapshot)] /\ atom' \in Snapshot
    BY <1>1, <2>1, <2>2 DEF DeadlinePasses, TypeOK
  <2>4. QED BY <1>1, <2>3 DEF DeadlinePasses, TypeOK, store, lease
<1>2. ASSUME NEW c \in Controllers, Resync(c) PROVE TypeOK'
  <2>1. queue' \in [Controllers -> Seq(Snapshot)]
    BY <1>2, AppendProperties DEF Resync, TypeOK
  <2>2. QED BY <1>2, <2>1 DEF Resync, TypeOK, store, lease
<1>3. ASSUME NEW c \in Controllers, Lead(c) PROVE TypeOK'
  <2>1. queue' \in [Controllers -> Seq(Snapshot)]
    BY <1>3, EmptySeq DEF Lead, TypeOK
  <2>2. QED BY <1>3, <2>1 DEF Lead, TypeOK, store, Snapshot
<1>4. QED BY <1>1, <1>2, <1>3

(* Every variable keeps its type in every behaviour (all handlers of       *)
(* AtomController.Update and all writers of the atom).                     *)
THEOREM TypeCorrect == Spec => []TypeOK
<1>1. TypeOK /\ [Next]_vars => TypeOK'
  <2> SUFFICES ASSUME TypeOK, [Next]_vars PROVE TypeOK'
    OBVIOUS
  <2>1. CASE Next
    BY <2>1, OthersType, HandleType, DisturbType, TimeType DEF Next
  <2>2. CASE UNCHANGED vars
    BY <2>2 DEF vars, TypeOK
  <2>3. QED BY <2>1, <2>2
<1>2. QED BY InitType, <1>1, PTL DEF Spec

-----------------------------------------------------------------------------
(***************************************************************************)
(* The inductive invariant behind OneStepBack and VersionHistory.  The     *)
(* atom alone is not enough: a rollback writes the previous version of a   *)
(* snapshot that may be long out of date, so every snapshot on its way to  *)
(* a handler, and every rollback in flight, must go back behind the newest *)
(* version too.                                                            *)
(***************************************************************************)
SoundAt(a, n) ==
  /\ a.cur <= n
  /\ a.prev # NoVersion => a.prev < a.cur
  /\ a.status # "" => n > 0

QueuesSound(q, n) ==
  \A c \in Controllers : \A i \in DOMAIN q[c] : SoundAt(q[c][i], n)

HandlerSound(k, n) ==
  /\ k.step # "idle" => n > 0
  /\ k.step = "rollback" => k.ver < n

HistoryInv ==
  /\ SoundAt(atom, issued)
  /\ atom.prev # NoVersion => atom.cur = issued
  /\ QueuesSound(queue, issued)
  /\ \A c \in Controllers : HandlerSound(ctl[c], issued)

LEMMA LeqTransitive ==
  \A x \in Int, y, z \in Nat : x <= y /\ y <= z => x <= z
OBVIOUS

LEMMA Grows ==
  ASSUME NEW n \in Nat, NEW m \in Nat, n <= m
  PROVE  /\ \A a \in Snapshot : SoundAt(a, n) => SoundAt(a, m)
         /\ \A k \in Handler : HandlerSound(k, n) => HandlerSound(k, m)
<1>1. ASSUME NEW a \in Snapshot, SoundAt(a, n) PROVE SoundAt(a, m)
  <2>1. a.cur \in Version /\ Version \subseteq Int
    BY VersionType DEF Snapshot
  <2>2. a.cur \in Int
    BY <2>1
  <2>3. a.cur <= n /\ (a.status # "" => n > 0)
    BY <1>1 DEF SoundAt
  <2>4. a.cur <= m
    BY <2>2, <2>3, LeqTransitive, Zenon
  <2>5. a.status # "" => m > 0
    <3>1. n > 0 => m > 0
      OBVIOUS
    <3>2. QED BY <2>3, <3>1
  <2>6. QED BY <1>1, <2>4, <2>5 DEF SoundAt
<1>2. ASSUME NEW k \in Handler, HandlerSound(k, n) PROVE HandlerSound(k, m)
  <2>1. k.ver \in Int
    BY VersionType DEF Handler
  <2>2. QED BY <1>2, <2>1 DEF HandlerSound
<1>3. QED BY <1>1, <1>2

LEMMA AppendSound ==
  ASSUME TypeOK, NEW n \in Nat, NEW c \in Controllers, NEW new \in Snapshot,
         SoundAt(new, n), \A i \in DOMAIN queue[c] : SoundAt(queue[c][i], n)
  PROVE  \A i \in DOMAIN Append(queue[c], new) :
           SoundAt(Append(queue[c], new)[i], n)
<1>1. queue[c] \in Seq(Snapshot)
  BY DEF TypeOK
<1>2. /\ DOMAIN queue[c] = 1..Len(queue[c]) /\ Len(queue[c]) \in Nat
      /\ DOMAIN Append(queue[c], new) = 1..(Len(queue[c]) + 1)
      /\ \A i \in 1..Len(queue[c]) : Append(queue[c], new)[i] = queue[c][i]
      /\ Append(queue[c], new)[Len(queue[c]) + 1] = new
  BY <1>1, AppendProperties, LenProperties
<1>3. TAKE i \in DOMAIN Append(queue[c], new)
<1>4. CASE i \in 1..Len(queue[c])
  BY <1>2, <1>4
<1>5. CASE i = Len(queue[c]) + 1
  BY <1>2, <1>5
<1>6. QED BY <1>2, <1>4, <1>5

LEMMA PublishSound ==
  ASSUME TypeOK, HistoryInv, NEW n \in Nat, issued <= n,
         NEW new \in Snapshot, SoundAt(new, n), Publish(new)
  PROVE  QueuesSound(queue', n)
<1> SUFFICES ASSUME NEW c \in Controllers
             PROVE  \A i \in DOMAIN queue'[c] : SoundAt(queue'[c][i], n)
  BY DEF QueuesSound
<1>1. \A i \in DOMAIN queue[c] : SoundAt(queue[c][i], n)
  <2>1. issued \in Nat
    BY VersionType, Assumptions DEF TypeOK, Version
  <2>2. \A i \in DOMAIN queue[c] : queue[c][i] \in Snapshot
    BY LenProperties, ElementOfSeq DEF TypeOK
  <2>3. QED BY <2>1, <2>2, Grows DEF HistoryInv, QueuesSound
<1>2. queue'[c] = IF leader[c] THEN Append(queue[c], new) ELSE queue[c]
  BY DEF Publish
<1>3. QED BY <1>1, <1>2, AppendSound

LEMMA OutdatedSound ==
  ASSUME TypeOK, HistoryInv, NEW n \in Nat, issued <= n
  PROVE  \A c \in Controllers : HandlerSound(Outdated[c], n)
<1> TAKE c \in Controllers
<1>1. issued \in Nat /\ ctl[c] \in Handler
  BY VersionType, Assumptions DEF TypeOK, Version
<1>2. HandlerSound(ctl[c], n)
  BY <1>1, Grows DEF HistoryInv
<1>3. HandlerSound([ctl[c] EXCEPT !.got = "stale"], n)
  BY <1>1, <1>2 DEF HandlerSound, Handler
<1>4. QED BY <1>2, <1>3 DEF Outdated


LEMMA ExternalSound ==
  ASSUME TypeOK, HistoryInv, NEW n \in Nat, issued <= n,
         NEW new \in Snapshot, SoundAt(new, n), ExternalWrite(new)
  PROVE  /\ atom' = new
         /\ QueuesSound(queue', n)
         /\ \A c \in Controllers : HandlerSound(ctl'[c], n)
BY PublishSound, OutdatedSound DEF ExternalWrite, Publish

LEMMA HandlerWriteSound ==
  ASSUME TypeOK, HistoryInv, NEW c \in Controllers, NEW new \in Snapshot,
         NEW k \in Handler, SoundAt(new, issued), HandlerSound(k, issued),
         HandlerWrite(c, new, k)
  PROVE  /\ atom' = new
         /\ QueuesSound(queue', issued)
         /\ \A d \in Controllers : HandlerSound(ctl'[d], issued)
<1>1. issued \in Nat
  BY Assumptions DEF TypeOK, Version
<1>2. atom' = new /\ QueuesSound(queue', issued)
  BY <1>1, PublishSound DEF HandlerWrite, Publish
<1>3. \A d \in Controllers : HandlerSound(Outdated[d], issued)
  BY <1>1, OutdatedSound
<1>4. \A d \in Controllers : HandlerSound(ctl'[d], issued)
  BY <1>3, OutdatedType DEF HandlerWrite
<1>5. QED BY <1>2, <1>4

LEMMA DeliverSound ==
  ASSUME TypeOK, HistoryInv, NEW c \in Controllers, Ready(c),
         NEW k \in Handler, HandlerSound(k, issued), Deliver(c, k)
  PROVE  HistoryInv'
<1>1. queue[c] \in Seq(Snapshot) /\ queue[c] # <<>>
  BY DEF TypeOK, Ready
<1>2. \A d \in Controllers : \A i \in DOMAIN queue'[d] :
        SoundAt(queue'[d][i], issued)
  <2>1. TAKE d \in Controllers
  <2>2. CASE d # c
    BY <2>2 DEF Deliver, HistoryInv, QueuesSound, TypeOK
  <2>3. CASE d = c
    <3>1. queue'[c] = Tail(queue[c])
      BY DEF Deliver, TypeOK
    <3>2. /\ Len(queue[c]) \in Nat /\ DOMAIN queue[c] = 1..Len(queue[c])
          /\ DOMAIN Tail(queue[c]) = 1..(Len(queue[c]) - 1)
          /\ \A i \in 1..(Len(queue[c]) - 1) : Tail(queue[c])[i] = queue[c][i + 1]
      BY <1>1, LenProperties, HeadTailProperties
    <3>3. \A i \in 1..(Len(queue[c]) - 1) : i + 1 \in DOMAIN queue[c]
      BY <3>2
    <3>4. QED BY <2>3, <3>1, <3>2, <3>3 DEF HistoryInv, QueuesSound
  <2>4. QED BY <2>2, <2>3
<1>3. \A d \in Controllers : HandlerSound(ctl'[d], issued)
  BY DEF Deliver, HistoryInv, TypeOK
<1>4. atom' = atom /\ issued' = issued
  BY DEF Deliver, store
<1>5. QED BY <1>2, <1>3, <1>4 DEF HistoryInv, QueuesSound

(* A snapshot at the head of a queue is sound.                             *)
LEMMA HeadSound ==
  ASSUME TypeOK, HistoryInv, NEW c \in Controllers, Ready(c)
  PROVE  SoundAt(Head(queue[c]), issued)
<1>1. 1 \in DOMAIN queue[c] /\ Head(queue[c]) = queue[c][1]
  BY LenProperties, HeadTailProperties, EmptySeq DEF TypeOK, Ready
<1>2. QED BY <1>1 DEF HistoryInv, QueuesSound

-----------------------------------------------------------------------------
(* HistoryInv is inductive. *)

LEMMA IssuedType == ASSUME TypeOK PROVE issued \in Nat
BY Assumptions DEF TypeOK, Version

LEMMA NewHandlers ==
  ASSUME NEW n \in Nat, n > 0
  PROVE  /\ \A s : HandlerSound(WriteStatus(s), n)
         /\ \A p : /\ HandlerSound(Succeeded(p), n)
                   /\ HandlerSound(Failed(p), n)
                   /\ HandlerSound(StartApply(p), n)
         /\ HandlerSound(Idle, n)
BY DEF HandlerSound, WriteStatus, Succeeded, Failed, StartApply, Idle

LEMMA InitSound == Init => HistoryInv
<1> SUFFICES ASSUME Init PROVE HistoryInv
  OBVIOUS
<1>1. SoundAt(atom, issued) /\ atom.prev = NoVersion
  <2>1. /\ atom.cur = 0 /\ atom.prev = NoVersion /\ atom.status = ""
        /\ issued = 0
    BY DEF Init, NoAtom, NoVersion
  <2>2. 0 <= 0
    OBVIOUS
  <2>3. QED BY <2>1, <2>2, Zenon DEF SoundAt
<1>2. QueuesSound(queue, issued)
  <2>1. \A c \in Controllers : queue[c] = <<>>
    BY DEF Init
  <2>2. DOMAIN <<>> = {}
    OBVIOUS
  <2>3. QED BY <2>1, <2>2, Zenon DEF QueuesSound
<1>3. \A c \in Controllers : ctl[c].step = "idle"
  BY DEF Init, Idle
<1>4. QED BY <1>1, <1>2, <1>3 DEF HistoryInv, HandlerSound

LEMMA PromoteSound ==
  ASSUME TypeOK, HistoryInv, NEW d \in BOOLEAN, Promote(d)
  PROVE  HistoryInv' /\ History!Promote
<1> DEFINE new == [status |-> "Pending", cur |-> issued + 1,
                   prev |-> atom.cur, deps |-> d, late |-> FALSE]
<1>1. issued \in Nat /\ issued + 1 \in Nat /\ issued' = issued + 1
  BY IssuedType DEF Promote
<1>2. atom.cur \in Version /\ issued + 1 \in Version /\ atom.cur <= issued
  <2>1. issued < MaxVersions
    BY DEF Promote
  <2>2. issued + 1 \in Version
    BY <1>1, <2>1, Assumptions DEF Version
  <2>3. QED BY <2>2 DEF TypeOK, Snapshot, HistoryInv, SoundAt
<1>3. new \in Snapshot
  BY <1>2 DEF Snapshot, Status
<1>4. SoundAt(new, issued + 1)
  <2>1. atom.cur \in Int
    BY <1>2, VersionType
  <2>2. atom.cur < issued + 1
    BY <1>1, <1>2, <2>1
  <2>3. QED BY <1>1, <2>2 DEF SoundAt
<1>5. /\ atom' = new
      /\ QueuesSound(queue', issued + 1)
      /\ \A c \in Controllers : HandlerSound(ctl'[c], issued + 1)
  BY <1>1, <1>3, <1>4, ExternalSound DEF Promote
<1>6. HistoryInv'
  BY <1>1, <1>4, <1>5 DEF HistoryInv, QueuesSound
<1>7. QED BY <1>1, <1>5, <1>6 DEF History!Promote

LEMMA LeqReflexive == \A n \in Nat : n <= n
OBVIOUS

(* Another writer that leaves the versions alone.                          *)
LEMMA SameVersions ==
  ASSUME TypeOK, HistoryInv, NEW new \in Snapshot, new.cur = atom.cur,
         new.prev = atom.prev, new.status # "" => atom.status # "",
         ExternalWrite(new), issued' = issued
  PROVE  HistoryInv' /\ UNCHANGED <<atom.cur, atom.prev, issued>>
<1>1. SoundAt(new, issued)
  BY DEF HistoryInv, SoundAt
<1>2. /\ atom' = new
      /\ QueuesSound(queue', issued)
      /\ \A c \in Controllers : HandlerSound(ctl'[c], issued)
  <2>1. issued \in Nat
    BY IssuedType
  <2>2. issued <= issued
    BY <2>1, LeqReflexive, Zenon
  <2>3. QED BY <1>1, <2>1, <2>2, ExternalSound, Zenon
<1>3. QED BY <1>1, <1>2 DEF HistoryInv, QueuesSound

LEMMA OthersSound ==
  ASSUME TypeOK, HistoryInv, Others
  PROVE  HistoryInv' /\ (History!Promote \/ UNCHANGED <<atom.cur, atom.prev, issued>>)
<1>1. CASE \E d \in BOOLEAN : Promote(d)
  BY <1>1, PromoteSound
<1>2. CASE Cancel
  <2>1. [atom EXCEPT !.status = IF @ = "Rollback" THEN "Failure"
                                ELSE "Cancelled"] \in Snapshot
    BY DEF TypeOK, Snapshot, Status, Settled, Failing
  <2>2. atom.status # "" /\ atom \in Snapshot
    BY <1>2 DEF Cancel, Rollouts, TypeOK
  <2>3. QED BY <1>2, <2>1, <2>2, SameVersions DEF Cancel, store, Snapshot
<1>3. CASE PatchReleaseCache
  <2>1. CASE cache = reader
    BY <1>3, <2>1 DEF PatchReleaseCache, HistoryInv, QueuesSound
  <2>2. CASE cache # reader
    BY <1>3, <2>2, SameVersions DEF PatchReleaseCache, TypeOK
  <2>3. QED BY <2>1, <2>2
<1>4. CASE ClearDependencies
  <2>1. [atom EXCEPT !.deps = FALSE] \in Snapshot /\ atom \in Snapshot
    BY DEF TypeOK, Snapshot
  <2>2. CASE atom.deps
    BY <1>4, <2>1, <2>2, SameVersions DEF ClearDependencies, Snapshot
  <2>3. CASE ~atom.deps
    BY <1>4, <2>3 DEF ClearDependencies, HistoryInv, QueuesSound
  <2>4. QED BY <2>2, <2>3
<1>5. CASE ReadStaleCache \/ StartResolver \/ AbandonResolver
  BY <1>5 DEF ReadStaleCache, StartResolver, AbandonResolver, HistoryInv,
              QueuesSound
<1>6. QED BY <1>1, <1>2, <1>3, <1>4, <1>5 DEF Others


LEMMA HandleSound ==
  ASSUME TypeOK, HistoryInv, NEW c \in Controllers, Handle(c)
  PROVE  HistoryInv' /\ (History!Revert \/ UNCHANGED <<atom.cur, atom.prev, issued>>)
<1>1. /\ issued \in Nat
      /\ ctl[c] \in Handler
      /\ ctl[c].path \in {"apply", "rollback"}
      /\ ctl[c].ver \in Version
      /\ ctl[c].status \in Status
      /\ HandlerSound(ctl[c], issued)
  BY IssuedType DEF TypeOK, Handler, HistoryInv
<1>2. ctl[c].step # "idle" => issued > 0
  BY <1>1 DEF HandlerSound
<1>3. ASSUME Ready(c), Head(queue[c]).status # "" PROVE issued > 0
  BY <1>3, HeadSound DEF SoundAt
<1>4. HandlerSound(Idle, issued)
  BY DEF HandlerSound, Idle
<1>5. ASSUME NEW k \in Handler, HandlerSound(k, issued), Ready(c), Deliver(c, k)
      PROVE  HistoryInv' /\ UNCHANGED <<atom.cur, atom.prev, issued>>
  BY <1>5, DeliverSound DEF Deliver, store
<1>6. ASSUME NEW first \in {"ok", "wait", "error"},
             NEW second \in {"ok", "wait", "error"},
             ExamineRollout(c, first, second)
      PROVE  HistoryInv' /\ UNCHANGED <<atom.cur, atom.prev, issued>>
  <2>1. Ready(c) /\ Head(queue[c]) \in Snapshot /\ issued > 0
    BY <1>3, <1>6, HeadType DEF ExamineRollout, Notified, Rollouts
  <2>2. Verdict(Head(queue[c]), first, second) \in Handler
    BY <2>1, VerdictType
  <2>3. \A s : HandlerSound(WriteStatus(s), issued)
    BY <1>1, <2>1, NewHandlers
  <2>4. HandlerSound(Verdict(Head(queue[c]), first, second), issued)
    <3>1. \/ Verdict(Head(queue[c]), first, second) = Idle
          \/ \E s : Verdict(Head(queue[c]), first, second) = WriteStatus(s)
      <4> DEFINE a == Head(queue[c])
      <4>1. CASE Expired(a, first)
        BY <4>1 DEF Verdict
      <4>2. CASE ~Expired(a, first) /\ second = "error"
        BY <4>2 DEF Verdict
      <4>3. CASE ~Expired(a, first) /\ second = "ok"
        BY <4>3 DEF Verdict
      <4>4. CASE ~Expired(a, first) /\ second = "wait"
        BY <4>4 DEF Verdict
      <4>5. QED BY <4>1, <4>2, <4>3, <4>4
    <3>2. QED BY <1>4, <2>3, <3>1
  <2>5. QED BY <1>5, <1>6, <2>1, <2>2, <2>4 DEF ExamineRollout
<1>7. CASE BeginRollback(c)
  <2> DEFINE a == Head(queue[c])
  <2>1. Ready(c) /\ a \in Snapshot /\ SoundAt(a, issued) /\ issued > 0
    BY <1>3, <1>7, HeadType, HeadSound DEF BeginRollback, Notified, Failing
  <2>2. a.cur \in Int /\ a.prev \in Version /\ Target(a) = a.prev
    BY <2>1, VersionType DEF Snapshot, Target
  <2>3. a.prev < issued
    <3>1. CASE a.prev = NoVersion
      BY <2>1, <3>1 DEF NoVersion
    <3>2. CASE a.prev # NoVersion
      <4>1. a.prev \in Int /\ a.prev < a.cur /\ a.cur <= issued
        BY <2>1, <2>2, <3>2, VersionType DEF SoundAt
      <4>2. QED BY <1>1, <2>2, <4>1
    <3>3. QED BY <3>1, <3>2
  <2>4. RollBackTo(Target(a)) \in Handler
    BY <2>2, RollBackToType
  <2>5. HandlerSound(RollBackTo(Target(a)), issued)
    BY <2>1, <2>2, <2>3 DEF HandlerSound, RollBackTo, Idle
  <2>6. QED BY <1>5, <1>7, <2>1, <2>4, <2>5 DEF BeginRollback
<1>8. CASE BeginApply(c)
  <2>1. Ready(c) /\ issued > 0
    BY <1>3, <1>8 DEF BeginApply, Notified
  <2>2. Succeeded("apply") \in Handler /\ StartApply("apply") \in Handler
    BY OutcomeType, StartApplyType
  <2>3. /\ HandlerSound(Succeeded("apply"), issued)
        /\ HandlerSound(StartApply("apply"), issued)
    BY <1>1, <2>1, NewHandlers
  <2>4. QED BY <1>5, <1>8, <2>1, <2>2, <2>3 DEF BeginApply
<1>9. CASE Ignore(c)
  BY <1>4, <1>5, <1>9, IdleType DEF Ignore
<1>10. ASSUME NEW k \in Handler, HandlerSound(k, issued),
              ctl' = [ctl EXCEPT ![c] = k], UNCHANGED <<atom, queue, issued>>
       PROVE  HistoryInv' /\ UNCHANGED <<atom.cur, atom.prev, issued>>
  BY <1>10 DEF HistoryInv, QueuesSound, TypeOK
<1>11. CASE GetAtom(c)
  <2>1. [ctl[c] EXCEPT !.got = "fresh"] \in Handler
    BY <1>1 DEF Handler
  <2>2. HandlerSound([ctl[c] EXCEPT !.got = "fresh"], issued)
    BY <1>1 DEF HandlerSound, Handler
  <2>3. QED BY <1>10, <1>11, <2>1, <2>2 DEF GetAtom, store
<1>12. CASE RollbackUpdate(c)
  <2>1. RolledBack(ctl[c].ver) \in Snapshot
    BY <1>1, VersionType DEF RolledBack, TypeOK, Snapshot
  <2>2. /\ RolledBack(ctl[c].ver).cur = ctl[c].ver
        /\ RolledBack(ctl[c].ver).prev = NoVersion
    BY DEF RolledBack, TypeOK, Snapshot
  <2>3. ctl[c].ver \in 0..(issued - 1) /\ issued > 0
    BY <1>1, <1>12, Assumptions DEF RollbackUpdate, HandlerSound, Version
  <2>4. SoundAt(RolledBack(ctl[c].ver), issued)
    <3>1. \A v \in 0..(issued - 1) : v <= issued
      BY <1>1
    <3>2. ctl[c].ver <= issued
      BY <2>3, <3>1
    <3>3. QED BY <2>2, <2>3, <3>2, Zenon DEF SoundAt
  <2>5. AfterRollback(ctl[c].ver) \in Handler
    BY OutcomeType, StartApplyType DEF AfterRollback
  <2>6. HandlerSound(AfterRollback(ctl[c].ver), issued)
    BY <1>1, <2>3, NewHandlers DEF AfterRollback
  <2>7. /\ atom' = RolledBack(ctl[c].ver)
        /\ QueuesSound(queue', issued)
        /\ \A d \in Controllers : HandlerSound(ctl'[d], issued)
    BY <1>12, <2>1, <2>4, <2>5, <2>6, HandlerWriteSound DEF RollbackUpdate
  <2>8. issued' = issued
    BY <1>12 DEF RollbackUpdate, store
  <2>9. HistoryInv'
    BY <2>2, <2>4, <2>7, <2>8 DEF HistoryInv, QueuesSound
  <2>10. History!Revert
    BY <2>2, <2>3, <2>7, <2>8 DEF History!Revert, NoVersion
  <2>11. QED BY <2>9, <2>10
<1>13. ASSUME NEW new \in Snapshot, new.cur = atom.cur, new.prev = atom.prev,
              issued > 0, issued' = issued,
              NEW k \in Handler, HandlerSound(k, issued), HandlerWrite(c, new, k)
       PROVE  HistoryInv' /\ UNCHANGED <<atom.cur, atom.prev, issued>>
  <2>1. SoundAt(new, issued)
    BY <1>13 DEF HistoryInv, SoundAt
  <2>2. /\ atom' = new
        /\ QueuesSound(queue', issued)
        /\ \A d \in Controllers : HandlerSound(ctl'[d], issued)
    BY <1>13, <2>1, HandlerWriteSound
  <2>3. QED BY <1>13, <2>1, <2>2 DEF HistoryInv, QueuesSound
<1>14. CASE StartUpdate(c)
  <2>1. /\ [atom EXCEPT !.late = FALSE] \in Snapshot
        /\ atom \in Snapshot /\ atom.cur \in Version
    BY DEF TypeOK, Snapshot
  <2> DEFINE k == [ctl[c] EXCEPT !.step = "template", !.got = "no",
                                 !.ver = atom.cur]
  <2>2. k \in Handler /\ Failed(ctl[c].path) \in Handler
    BY <1>1, <2>1, OutcomeType DEF Handler
  <2>3. issued > 0
    BY <1>2, <1>14 DEF StartUpdate
  <2>4. HandlerSound(k, issued) /\ HandlerSound(Failed(ctl[c].path), issued)
    BY <1>1, <2>3, NewHandlers DEF HandlerSound, Handler
  <2>5. QED
    BY <1>13, <1>14, <2>1, <2>2, <2>3, <2>4 DEF StartUpdate, store, Snapshot
<1>15. CASE ApplyTemplate(c)
  <2>1. Succeeded(ctl[c].path) \in Handler /\ Failed(ctl[c].path) \in Handler
    BY <1>1, OutcomeType
  <2>2. /\ HandlerSound(Succeeded(ctl[c].path), issued)
        /\ HandlerSound(Failed(ctl[c].path), issued)
    BY <1>1, <1>2, <1>15, NewHandlers DEF ApplyTemplate
  <2>3. QED BY <1>10, <1>15, <2>1, <2>2 DEF ApplyTemplate, store
<1>16. CASE StatusUpdate(c)
  <2>1. [atom EXCEPT !.status = ctl[c].status] \in Snapshot /\ atom \in Snapshot
    BY <1>1 DEF TypeOK, Snapshot
  <2>2. issued > 0
    BY <1>2, <1>16 DEF StatusUpdate
  <2>3. CASE atom.status = ctl[c].status
    BY <1>4, <1>10, <1>16, <2>3, IdleType DEF StatusUpdate, store
  <2>4. CASE atom.status # ctl[c].status
    BY <1>4, <1>13, <1>16, <2>1, <2>2, <2>4, IdleType
       DEF StatusUpdate, store, Snapshot
  <2>5. QED BY <2>3, <2>4
<1>17. CASE Conflict(c)
  <2>1. CASE ctl[c].step = "status"
    BY <1>4, <1>10, <1>17, <2>1, IdleType DEF Conflict, GiveUp, store
  <2>2. CASE ctl[c].step # "status" /\ ctl[c].step # "idle"
    <3>1. HandlerSound(Failed(ctl[c].path), issued) /\ Failed(ctl[c].path) \in Handler
      BY <1>1, <1>2, <2>2, NewHandlers, OutcomeType
    <3>2. QED BY <1>10, <1>17, <2>2, <3>1 DEF Conflict, GiveUp, store
  <2>3. CASE ctl[c].step = "idle"
    BY <1>17, <2>3 DEF Conflict
  <2>4. QED BY <2>1, <2>2, <2>3
<1>18. QED
  BY <1>6, <1>7, <1>8, <1>9, <1>11, <1>12, <1>14, <1>15, <1>16, <1>17 DEF Handle


LEMMA DisturbSound ==
  ASSUME TypeOK, HistoryInv, NEW c \in Controllers, Disturb(c)
  PROVE  HistoryInv' /\ UNCHANGED <<atom.cur, atom.prev, issued>>
<1>1. /\ issued \in Nat /\ ctl[c] \in Handler
      /\ ctl[c].path \in {"apply", "rollback"}
      /\ HandlerSound(ctl[c], issued)
  BY IssuedType DEF TypeOK, Handler, HistoryInv
<1>2. HandlerSound(Idle, issued)
  BY DEF HandlerSound, Idle
<1>3. ASSUME QueuesSound(queue', issued), UNCHANGED <<atom, issued>>,
             \A d \in Controllers : HandlerSound(ctl'[d], issued)
      PROVE  HistoryInv' /\ UNCHANGED <<atom.cur, atom.prev, issued>>
  BY <1>3 DEF HistoryInv, QueuesSound
<1>4. CASE ApiError(c)
  <2>1. issued > 0
    BY <1>1, <1>4 DEF ApiError, HandlerSound
  <2>2. HandlerSound(Failed(ctl[c].path), issued)
    BY <1>1, <2>1, NewHandlers
  <2>3. \A d \in Controllers : HandlerSound(ctl'[d], issued)
    BY <1>2, <1>4, <2>2 DEF ApiError, GiveUp, HistoryInv, TypeOK
  <2>4. QED BY <1>3, <1>4, <2>3 DEF ApiError, store, HistoryInv
<1>5. CASE Relist(c)
  <2>1. PICK k \in 0..(Len(queue[c]) - 2) :
          queue' = [queue EXCEPT ![c] = Append(SubSeq(@, 1, k), @[Len(@)])]
    BY <1>5 DEF Relist
  <2> DEFINE q == queue[c]
             kept == SubSeq(q, 1, k)
  <2>2. q \in Seq(Snapshot) /\ Len(q) \in Nat /\ DOMAIN q = 1..Len(q)
    BY LenProperties DEF TypeOK
  <2>3. \A i \in DOMAIN q : SoundAt(q[i], issued)
    BY DEF HistoryInv, QueuesSound
  <2>4. /\ kept \in Seq(Snapshot) /\ Len(kept) = k
        /\ \A i \in 1..k : kept[i] = q[i]
    <3>1. \A i \in 1..k : q[i] \in Snapshot
      BY <2>2, ElementOfSeq
    <3>2. QED BY <2>2, <3>1, SubSeqProperties
  <2>5. q[Len(q)] \in Snapshot /\ SoundAt(q[Len(q)], issued)
    BY <2>2, <2>3, ElementOfSeq
  <2>6. /\ DOMAIN Append(kept, q[Len(q)]) = 1..(k + 1)
        /\ \A i \in 1..k : Append(kept, q[Len(q)])[i] = kept[i]
        /\ Append(kept, q[Len(q)])[k + 1] = q[Len(q)]
    BY <2>4, <2>5, AppendProperties, LenProperties
  <2>7. \A i \in 1..(k + 1) : SoundAt(Append(kept, q[Len(q)])[i], issued)
    <3>1. TAKE i \in 1..(k + 1)
    <3>2. CASE i \in 1..k
      BY <2>2, <2>3, <2>4, <2>6, <3>2
    <3>3. CASE i = k + 1
      BY <2>5, <2>6, <3>3
    <3>4. QED BY <3>2, <3>3
  <2>8. QueuesSound(queue', issued)
    BY <2>1, <2>6, <2>7 DEF QueuesSound, HistoryInv, TypeOK
  <2>9. QED BY <1>3, <1>5, <2>8 DEF Relist, store, HistoryInv
<1>6. ASSUME StopLeading(c)
      PROVE  QueuesSound(queue', issued) /\ UNCHANGED <<atom, issued>>
  BY <1>6, EmptySeq DEF StopLeading, QueuesSound, HistoryInv, TypeOK, store
<1>7. CASE LoseLead(c)
  BY <1>3, <1>6, <1>7 DEF LoseLead, HistoryInv
<1>8. CASE Crash(c)
  <2>1. \A d \in Controllers : HandlerSound(ctl'[d], issued)
    BY <1>2, <1>8 DEF Crash, HistoryInv, TypeOK
  <2>2. QED BY <1>3, <1>6, <1>8, <2>1 DEF Crash
<1>9. QED BY <1>4, <1>5, <1>7, <1>8 DEF Disturb

LEMMA TimeSound ==
  ASSUME TypeOK, HistoryInv,
         DeadlinePasses \/ \E c \in Controllers : Resync(c) \/ Lead(c)
  PROVE  HistoryInv' /\ UNCHANGED <<atom.cur, atom.prev, issued>>
<1>1. CASE DeadlinePasses
  <2>1. \A a \in Snapshot : /\ Expire(a).cur = a.cur /\ Expire(a).prev = a.prev
                            /\ Expire(a).status = a.status
    BY DEF Expire, Snapshot
  <2>2. \A a \in Snapshot : SoundAt(a, issued) => SoundAt(Expire(a), issued)
    BY <2>1 DEF SoundAt
  <2>3. ASSUME NEW c \in Controllers, NEW i \in DOMAIN queue'[c]
        PROVE  SoundAt(queue'[c][i], issued)
    <3>1. queue'[c] = [j \in DOMAIN queue[c] |-> Expire(queue[c][j])]
      BY <1>1 DEF DeadlinePasses
    <3>2. i \in DOMAIN queue[c] /\ queue'[c][i] = Expire(queue[c][i])
      BY <2>3, <3>1
    <3>3. queue[c][i] \in Snapshot
      BY <3>2, LenProperties, ElementOfSeq DEF TypeOK
    <3>4. QED BY <2>2, <3>2, <3>3 DEF HistoryInv, QueuesSound
  <2>4. atom' = Expire(atom) /\ issued' = issued /\ ctl' = ctl /\ atom \in Snapshot
    BY <1>1 DEF DeadlinePasses, store, TypeOK
  <2>5. QED BY <2>1, <2>2, <2>3, <2>4 DEF HistoryInv, QueuesSound
<1>2. ASSUME NEW c \in Controllers, Resync(c)
      PROVE  HistoryInv' /\ UNCHANGED <<atom.cur, atom.prev, issued>>
  <2>1. \A i \in DOMAIN Append(queue[c], atom) :
          SoundAt(Append(queue[c], atom)[i], issued)
    BY AppendSound, IssuedType DEF HistoryInv, QueuesSound, TypeOK
  <2>2. QueuesSound(queue', issued)
    BY <1>2, <2>1 DEF Resync, QueuesSound, HistoryInv, TypeOK
  <2>3. QED BY <1>2, <2>2 DEF Resync, store, HistoryInv, QueuesSound
<1>3. ASSUME NEW c \in Controllers, Lead(c)
      PROVE  HistoryInv' /\ UNCHANGED <<atom.cur, atom.prev, issued>>
  <2>1. QueuesSound(queue', issued)
    BY <1>3, EmptySeq DEF Lead, QueuesSound, HistoryInv, TypeOK
  <2>2. QED BY <1>3, <2>1 DEF Lead, store, HistoryInv, QueuesSound
<1>4. QED BY <1>1, <1>2, <1>3

-----------------------------------------------------------------------------
(* The theorems. *)

LEMMA StepSound ==
  ASSUME TypeOK, HistoryInv, [Next]_vars
  PROVE  /\ HistoryInv'
         /\ History!Promote \/ History!Revert
            \/ UNCHANGED <<atom.cur, atom.prev, issued>>
<1>1. CASE Next
  BY <1>1, OthersSound, HandleSound, DisturbSound, TimeSound DEF Next
<1>2. CASE UNCHANGED vars
  BY <1>2 DEF vars, HistoryInv, QueuesSound
<1>3. QED BY <1>1, <1>2

THEOREM HistoryInvariant == Spec => []HistoryInv
BY InitSound, StepSound, TypeCorrect, PTL DEF Spec

(* No handler can roll a version back twice, however stale the snapshot it *)
(* acts on (Client.Apply, Client.rollback, AtomController.Update).         *)
THEOREM RollsBackOnce == Spec => []OneStepBack
<1>1. HistoryInv => OneStepBack
  BY DEF HistoryInv, OneStepBack, QueuesSound, SoundAt
<1>2. QED BY <1>1, HistoryInvariant, PTL

(* The replicas together implement the version history, under every crash, *)
(* conflict, handover and stale notification of the model.                 *)
THEOREM ImplementsHistory == Spec => VersionHistory
<1>1. ASSUME Init PROVE History!Init
  <2>1. atom.cur = 0 /\ atom.prev = 0 /\ issued = 0
    BY <1>1 DEF Init, NoAtom, NoVersion
  <2>2. QED BY <2>1 DEF History!Init
<1>2. ASSUME TypeOK, HistoryInv, [Next]_vars
      PROVE  [History!Promote \/ History!Revert]_(History!history)
  BY <1>2, StepSound DEF History!history
<1>3. QED
  BY <1>1, <1>2, TypeCorrect, HistoryInvariant, PTL
     DEF Spec, VersionHistory, History!Spec

-----------------------------------------------------------------------------
(***************************************************************************)
(* Dependencies.  Whatever is applied has been promoted; and while the     *)
(* template of a version has placeholders left, the atom waits at this     *)
(* version, no handler runs, and every snapshot on its way says so too, so *)
(* that no handler will start.  This is why a promote with dependencies    *)
(* that overtakes notifications of an earlier rollout is not covered.      *)
(***************************************************************************)
Started(k, n) == k.step = "template" => k.ver <= n

PromotedInv ==
  /\ live <= issued
  /\ \A c \in Controllers : Started(ctl[c], issued)

Held == {a \in Snapshot : a.status = "Pending" /\ a.deps}

Still ==
  /\ \A c \in Controllers : ctl[c] = Idle
  /\ queue \in [Controllers -> Seq(Held)]

ResolvedInv ==
  /\ atom.deps <=> unresolved # {}
  /\ unresolved # {} =>
       unresolved = {atom.cur} /\ atom.status = "Pending" /\ Still
  /\ resolver # NoVersion => unresolved = {resolver}
  /\ live \notin unresolved

LEMMA StartedOthers ==
  ASSUME NEW n
  PROVE  /\ \A s : Started(WriteStatus(s), n)
         /\ \A p : /\ Started(Succeeded(p), n) /\ Started(Failed(p), n)
                   /\ Started(StartApply(p), n)
         /\ \A v : Started(RollBackTo(v), n) /\ Started(AfterRollback(v), n)
         /\ Started(Idle, n)
BY DEF Started, WriteStatus, Succeeded, Failed, StartApply, RollBackTo,
       AfterRollback, Idle

LEMMA OutdatedStarted ==
  ASSUME TypeOK, NEW n, NEW d \in Controllers, Started(ctl[d], n)
  PROVE  Started(Outdated[d], n)
<1>1. ctl[d] \in Handler BY DEF TypeOK
<1>2. /\ [ctl[d] EXCEPT !.got = "stale"].step = ctl[d].step
      /\ [ctl[d] EXCEPT !.got = "stale"].ver = ctl[d].ver
  BY <1>1 DEF Handler
<1>3. QED BY <1>2 DEF Outdated, Started

(* The handler of one replica goes on with k, the others are where they    *)
(* were or have an outdated copy.                                          *)
LEMMA HandlerStarted ==
  ASSUME TypeOK, PromotedInv, NEW c \in Controllers, NEW k, Started(k, issued),
         \/ ctl' = [ctl EXCEPT ![c] = k]
         \/ ctl' = [Outdated EXCEPT ![c] = k]
  PROVE  \A d \in Controllers : Started(ctl'[d], issued)
<1> TAKE d \in Controllers
<1>1. ctl'[d] = k \/ ctl'[d] = ctl[d] \/ ctl'[d] = Outdated[d]
  BY OutdatedType DEF TypeOK
<1>2. QED BY <1>1, OutdatedStarted DEF PromotedInv

LEMMA HandlePromoted ==
  ASSUME TypeOK, HistoryInv, PromotedInv, NEW c \in Controllers, Handle(c)
  PROVE  PromotedInv'
<1>1. /\ issued \in Nat /\ issued' = issued /\ ctl[c] \in Handler
      /\ live \in Int
  <2>1. issued \in Nat /\ ctl[c] \in Handler /\ live \in Int
    BY IssuedType, VersionType DEF TypeOK, Partial
  <2>2. issued' = issued
    BY DEF Handle, ExamineRollout, BeginRollback, BeginApply, Ignore, Deliver,
           GetAtom, RollbackUpdate, StartUpdate, ApplyTemplate, StatusUpdate,
           Conflict, store
  <2>3. QED BY <2>1, <2>2
<1>2. ASSUME NEW k, Started(k, issued), live' = live,
             \/ ctl' = [ctl EXCEPT ![c] = k]
             \/ ctl' = [Outdated EXCEPT ![c] = k]
      PROVE  PromotedInv'
  BY <1>1, <1>2, HandlerStarted DEF PromotedInv
<1>3. ASSUME NEW first \in {"ok", "wait", "error"},
             NEW second \in {"ok", "wait", "error"},
             ExamineRollout(c, first, second)
      PROVE  PromotedInv'
  <2>1. Started(Verdict(Head(queue[c]), first, second), issued)
    BY StartedOthers DEF Verdict
  <2>2. QED BY <1>2, <1>3, <2>1 DEF ExamineRollout, Deliver
<1>4. CASE BeginRollback(c)
  BY <1>2, <1>4, StartedOthers DEF BeginRollback, Deliver
<1>5. CASE BeginApply(c)
  <2>1. \E k \in {Succeeded("apply"), StartApply("apply")} : Deliver(c, k)
    BY <1>5 DEF BeginApply
  <2>2. QED BY <1>2, <2>1, StartedOthers DEF Deliver
<1>6. CASE Ignore(c)
  BY <1>2, <1>6, StartedOthers DEF Ignore, Deliver
<1>7. CASE GetAtom(c)
  <2>1. Started([ctl[c] EXCEPT !.got = "fresh"], issued)
    BY <1>1, <1>7 DEF GetAtom, Started, Handler
  <2>2. QED BY <1>2, <1>7, <2>1 DEF GetAtom, TypeOK
<1>8. CASE RollbackUpdate(c)
  BY <1>2, <1>8, StartedOthers DEF RollbackUpdate, HandlerWrite
<1>9. CASE StartUpdate(c)
  <2> DEFINE k == [ctl[c] EXCEPT !.step = "template", !.got = "no", !.ver = atom.cur]
  <2>1. k.ver = atom.cur /\ atom.cur <= issued
    BY <1>1 DEF Handler, HistoryInv, SoundAt
  <2>2. Started(k, issued) BY <2>1 DEF Started
  <2> HIDE DEF k
  <2>3. \/ ctl' = [Outdated EXCEPT ![c] = Failed(ctl[c].path)]
        \/ ctl' = [Outdated EXCEPT ![c] = k]
    BY <1>9 DEF StartUpdate, HandlerWrite, k
  <2>4. live' = live BY <1>9 DEF StartUpdate
  <2>5. QED BY <1>2, <2>2, <2>3, <2>4, StartedOthers
<1>10. CASE ApplyTemplate(c)
  <2>1. \/ ctl' = [ctl EXCEPT ![c] = Succeeded(ctl[c].path)]
        \/ ctl' = [ctl EXCEPT ![c] = Failed(ctl[c].path)]
    BY <1>10 DEF ApplyTemplate, TypeOK
  <2>2. \A d \in Controllers : Started(ctl'[d], issued)
    BY <2>1, StartedOthers, HandlerStarted
  <2>3. live' \in {live, Partial, ctl[c].ver} /\ ctl[c].ver <= issued
    BY <1>10 DEF ApplyTemplate, PromotedInv, Started
  <2>4. live' <= issued BY <1>1, <2>3 DEF PromotedInv, Partial
  <2>5. QED BY <1>1, <2>2, <2>4 DEF PromotedInv
<1>11. CASE StatusUpdate(c)
  BY <1>2, <1>11, StartedOthers DEF StatusUpdate, HandlerWrite
<1>12. CASE Conflict(c)
  <2>1. \E k \in {Idle, Failed(ctl[c].path)} : ctl' = [ctl EXCEPT ![c] = k]
    BY <1>12 DEF Conflict, GiveUp, TypeOK
  <2>2. QED BY <1>2, <1>12, <2>1, StartedOthers DEF Conflict
<1>13. QED
  BY <1>3, <1>4, <1>5, <1>6, <1>7, <1>8, <1>9, <1>10, <1>11, <1>12 DEF Handle

LEMMA PromotedStep ==
  ASSUME TypeOK, HistoryInv, PromotedInv, [Next]_vars
  PROVE  PromotedInv'
<1>1. issued \in Nat /\ live \in Int /\ ctl \in [Controllers -> Handler]
  BY IssuedType, VersionType DEF TypeOK, Partial
<1>2. ASSUME issued' = issued, live' = live, ctl' = ctl \/ ctl' = Outdated
      PROVE  PromotedInv'
  BY <1>2, OutdatedStarted DEF PromotedInv
<1>3. ASSUME NEW d \in BOOLEAN, Promote(d) PROVE PromotedInv'
  <2>1. issued' = issued + 1 /\ live' = live /\ ctl' = Outdated
    BY <1>3 DEF Promote, ExternalWrite
  <2>2. \A c \in Controllers : Outdated[c].ver \in Int /\ Started(Outdated[c], issued)
    BY OutdatedType, OutdatedStarted, VersionType DEF PromotedInv, Handler
  <2>3. QED BY <1>1, <2>1, <2>2 DEF PromotedInv, Started
<1>4. CASE Others /\ ~\E d \in BOOLEAN : Promote(d)
  BY <1>2, <1>4 DEF Others, Cancel, ReadStaleCache, PatchReleaseCache,
     StartResolver, ClearDependencies, AbandonResolver, ExternalWrite, store
<1>5. ASSUME NEW c \in Controllers, Disturb(c) PROVE PromotedInv'
  <2>1. issued' = issued /\ live' = live
    BY <1>5 DEF Disturb, ApiError, Relist, LoseLead, Crash, StopLeading, store
  <2>2. ctl' = ctl \/ \E k \in {Idle, Failed(ctl[c].path)} : ctl' = [ctl EXCEPT ![c] = k]
    BY <1>5 DEF Disturb, ApiError, Relist, LoseLead, Crash, GiveUp, TypeOK
  <2>3. \A d \in Controllers : Started(ctl'[d], issued)
    BY <2>2, StartedOthers, HandlerStarted DEF PromotedInv
  <2>4. QED BY <2>1, <2>3 DEF PromotedInv
<1>6. CASE DeadlinePasses \/ \E c \in Controllers : Resync(c) \/ Lead(c)
  BY <1>2, <1>6 DEF DeadlinePasses, Resync, Lead, store
<1>7. CASE UNCHANGED vars BY <1>2, <1>7 DEF vars
<1>8. QED
  BY <1>3, <1>4, <1>5, <1>6, <1>7, HandlePromoted DEF Next, Others

(* What the queues hold stays Held.                                        *)
LEMMA PublishHeld ==
  ASSUME TypeOK, Still, NEW new \in Held, Publish(new)
  PROVE  queue' \in [Controllers -> Seq(Held)]
BY AppendProperties DEF Still, Publish

LEMMA StillIdle ==
  ASSUME Still
  PROVE  \A c \in Controllers : ctl[c].step = "idle" /\ ctl[c].got = "no"
<1>1. Idle.step = "idle" /\ Idle.got = "no" BY DEF Idle
<1>2. \A c \in Controllers : ctl[c] = Idle BY DEF Still
<1>3. QED BY <1>1, <1>2

LEMMA OutdatedStill ==
  ASSUME TypeOK, Still
  PROVE  Outdated = ctl
<1>1. \A c \in Controllers : Outdated[c] = ctl[c]
  BY StillIdle DEF Outdated
<1>2. Outdated \in [Controllers -> Handler] /\ ctl \in [Controllers -> Handler]
  BY OutdatedType DEF TypeOK
<1>3. QED BY <1>1, <1>2

(* While a template is unresolved ...                                      *)
LEMMA WaitingStep ==
  ASSUME TypeOK, ResolvedInv, unresolved # {}, "overlap" \notin Env, [Next]_vars
  PROVE  ResolvedInv'
<1>1. /\ unresolved = {atom.cur} /\ atom.deps /\ atom.status = "Pending"
      /\ Still /\ atom \in Held
  BY DEF ResolvedInv, Held, TypeOK
<1>2. resolver \in {NoVersion, atom.cur} /\ live \notin unresolved
  BY <1>1 DEF ResolvedInv
<1>3. /\ "Pending" \notin Settled /\ "Pending" \notin Rollouts
      /\ "Pending" \notin Failing
  BY DEF Settled, Rollouts, Failing
<1>4. ASSUME UNCHANGED <<atom, live, unresolved>>, Still',
             resolver' \in {NoVersion, atom.cur}
      PROVE  ResolvedInv'
  BY <1>1, <1>2, <1>4 DEF ResolvedInv
<1>5. ASSUME ExternalWrite(atom) PROVE Still'
  <2>1. queue' \in [Controllers -> Seq(Held)] /\ ctl' = ctl
    BY <1>1, <1>5, PublishHeld, OutdatedStill DEF ExternalWrite
  <2>2. QED BY <1>1, <2>1 DEF Still
<1>6. CASE Others
  <2>1. ~(\E d \in BOOLEAN : Promote(d)) /\ ~Cancel
    BY <1>1, <1>3 DEF Promote, Cancel
  <2>2. CASE ReadStaleCache
    BY <1>1, <1>2, <1>4, <2>2 DEF ReadStaleCache, Still
  <2>3. CASE PatchReleaseCache
    <3>1. UNCHANGED <<atom, live, unresolved, resolver>>
      BY <2>3 DEF PatchReleaseCache, ExternalWrite, Publish
    <3>2. Still' BY <1>1, <1>5, <2>3 DEF PatchReleaseCache, Still
    <3>3. QED BY <1>2, <1>4, <3>1, <3>2
  <2>4. CASE StartResolver
    BY <1>1, <1>4, <2>4 DEF StartResolver, Still
  <2>5. CASE ClearDependencies
    <3>1. unresolved' = {} /\ resolver' = NoVersion
      BY <1>1, <1>2, <2>5 DEF ClearDependencies
    <3>2. ~atom'.deps
      BY <1>1, <2>5 DEF ClearDependencies, ExternalWrite, Publish, TypeOK, Snapshot
    <3>3. QED BY <3>1, <3>2 DEF ResolvedInv
  <2>6. CASE AbandonResolver
    BY <1>1, <1>4, <2>6 DEF AbandonResolver, Still
  <2>7. QED BY <1>6, <2>1, <2>2, <2>3, <2>4, <2>5, <2>6 DEF Others
<1>7. ASSUME NEW c \in Controllers, Handle(c) PROVE ResolvedInv'
  <2>1. ctl[c].step = "idle" /\ ctl[c].got = "no"
    BY <1>1, StillIdle
  <2>2. ASSUME Ready(c)
        PROVE  /\ ~Relevant(Head(queue[c]), seen[c])
               /\ Tail(queue[c]) \in Seq(Held)
    <3>1. queue[c] \in Seq(Held) /\ queue[c] # <<>> BY <1>1, <2>2 DEF Still, Ready
    <3>2. Head(queue[c]) \in Held /\ Tail(queue[c]) \in Seq(Held)
      BY <3>1, HeadTailProperties
    <3>3. QED BY <1>3, <3>2 DEF Held, Relevant
  <2>3. Ignore(c)
    BY <1>7, <2>1, <2>2 DEF Handle, ExamineRollout, BeginRollback, BeginApply,
       Notified, GetAtom, RollbackUpdate, StartUpdate, ApplyTemplate,
       StatusUpdate, Conflict
  <2>4. Still'
    BY <1>1, <2>2, <2>3 DEF Ignore, Deliver, Still
  <2>5. QED BY <1>2, <1>4, <2>3, <2>4 DEF Ignore, Deliver, store
<1>8. ASSUME NEW c \in Controllers, Disturb(c) PROVE ResolvedInv'
  <2>1. ~ApiError(c) BY <1>1, StillIdle DEF ApiError
  <2>2. UNCHANGED <<atom, live, unresolved, resolver>>
    BY <1>8, <2>1 DEF Disturb, Relist, LoseLead, Crash, StopLeading, store
  <2>3. CASE Relist(c)
    <3>1. PICK k \in 0..(Len(queue[c]) - 2) :
            queue' = [queue EXCEPT ![c] = Append(SubSeq(queue[c], 1, k),
                                                 queue[c][Len(queue[c])])]
      BY <2>3 DEF Relist
    <3>2. queue[c] \in Seq(Held) /\ Len(queue[c]) \in Nat
      BY <1>1, LenProperties DEF Still
    <3>3. SubSeq(queue[c], 1, k) \in Seq(Held)
      <4>1. \A i \in 1..k : queue[c][i] \in Held
        BY <3>2, ElementOfSeq
      <4>2. QED BY <3>2, <4>1, SubSeqProperties
    <3>4. queue[c][Len(queue[c])] \in Held BY <3>2, ElementOfSeq
    <3>5. Still' BY <1>1, <2>3, <3>1, <3>3, <3>4, AppendProperties DEF Relist, Still
    <3>6. QED BY <1>2, <1>4, <2>2, <3>5
  <2>4. CASE LoseLead(c) \/ Crash(c)
    <3>1. <<>> \in Seq(Held) BY EmptySeq
    <3>2. queue' = [queue EXCEPT ![c] = <<>>]
          /\ ctl' \in {ctl, [ctl EXCEPT ![c] = Idle]}
      BY <2>4 DEF LoseLead, Crash, StopLeading
    <3>3. queue' \in [Controllers -> Seq(Held)] BY <1>1, <3>1, <3>2 DEF Still
    <3>4. \A d \in Controllers : ctl'[d] = Idle BY <1>1, <3>2 DEF Still, TypeOK
    <3>5. Still' BY <3>3, <3>4 DEF Still
    <3>6. QED BY <1>2, <1>4, <2>2, <3>5
  <2>5. QED BY <1>8, <2>1, <2>3, <2>4 DEF Disturb
<1>9. ~DeadlinePasses
  <2>1. ASSUME NEW c \in Controllers, NEW i \in DOMAIN queue[c]
        PROVE  queue[c][i] \in Held
    BY <1>1, <2>1, ElementOfSeq, LenProperties DEF Still
  <2>2. QED BY <1>1, <1>3, <2>1 DEF DeadlinePasses, Held
<1>10. ASSUME NEW c \in Controllers, Resync(c) \/ Lead(c) PROVE ResolvedInv'
  <2>1. UNCHANGED <<atom, live, unresolved, resolver, ctl>>
    BY <1>10 DEF Resync, Lead, store
  <2>2. Append(queue[c], atom) \in Seq(Held) /\ <<>> \in Seq(Held)
    BY <1>1, AppendProperties, EmptySeq DEF Still
  <2>3. Still' BY <1>1, <1>10, <2>1, <2>2 DEF Resync, Lead, Still
  <2>4. QED BY <1>2, <1>4, <2>1, <2>3
<1>11. CASE UNCHANGED vars
  BY <1>1, <1>2, <1>4, <1>11 DEF vars, Still
<1>12. QED BY <1>6, <1>7, <1>8, <1>9, <1>10, <1>11 DEF Next

(* ... and while none is.                                                  *)
LEMMA NoneWaitingStep ==
  ASSUME TypeOK, HistoryInv, PromotedInv, ResolvedInv, unresolved = {},
         "overlap" \notin Env, [Next]_vars
  PROVE  ResolvedInv'
<1>1. ~atom.deps /\ resolver = NoVersion /\ atom \in Snapshot
  BY DEF ResolvedInv, TypeOK
<1>2. ASSUME unresolved' = {}, resolver' = NoVersion, ~atom'.deps
      PROVE  ResolvedInv'
  BY <1>2 DEF ResolvedInv
<1>3. CASE Promote(FALSE)
  BY <1>1, <1>2, <1>3 DEF Promote, ExternalWrite, Publish
<1>4. CASE Promote(TRUE)
  <2> DEFINE new == [status |-> "Pending", cur |-> issued + 1,
                     prev |-> atom.cur, deps |-> TRUE, late |-> FALSE]
  <2>1. AtRest BY <1>4 DEF Promote
  <2>2. Still
    <3>1. <<>> \in Seq(Held) BY EmptySeq
    <3>2. QED BY <2>1, <3>1 DEF AtRest, Still, TypeOK
  <2>3. new \in Held
    <3>1. TypeOK' BY <1>4, PromoteType
    <3>2. atom' = new BY <1>4 DEF Promote, ExternalWrite, Publish
    <3>3. QED BY <3>1, <3>2 DEF TypeOK, Held
  <2>4. /\ atom' = new /\ unresolved' = {issued + 1}
        /\ resolver' = resolver /\ live' = live
    BY <1>4 DEF Promote, ExternalWrite, Publish
  <2>5. queue' \in [Controllers -> Seq(Held)] /\ ctl' = ctl
    BY <1>4, <2>2, <2>3, PublishHeld, OutdatedStill DEF Promote, ExternalWrite
  <2>6. Still' BY <2>2, <2>5 DEF Still
  <2>7. live # issued + 1
    BY IssuedType, VersionType DEF PromotedInv, TypeOK, Partial
  <2>8. QED BY <1>1, <2>4, <2>6, <2>7 DEF ResolvedInv
<1>5. CASE Others /\ ~\E d \in BOOLEAN : Promote(d)
  BY <1>1, <1>2, <1>5 DEF Others, Cancel, ReadStaleCache, PatchReleaseCache,
     StartResolver, ClearDependencies, AbandonResolver, ExternalWrite, Publish,
     store, Snapshot
<1>6. ASSUME NEW c \in Controllers, Handle(c) PROVE ResolvedInv'
  <2>1. unresolved' = {} /\ resolver' = NoVersion
    BY <1>1, <1>6 DEF Handle, ExamineRollout, BeginRollback, BeginApply, Ignore,
       Deliver, GetAtom, RollbackUpdate, StartUpdate, ApplyTemplate,
       StatusUpdate, Conflict, store
  <2>2. ~atom'.deps
    BY <1>1, <1>6 DEF Handle, ExamineRollout, BeginRollback, BeginApply, Ignore,
       Deliver, GetAtom, RollbackUpdate, StartUpdate, ApplyTemplate,
       StatusUpdate, Conflict, HandlerWrite, Publish, RolledBack, Snapshot
  <2>3. QED BY <1>2, <2>1, <2>2
<1>7. ASSUME NEW c \in Controllers, Disturb(c) PROVE ResolvedInv'
  <2>1. atom' = atom /\ unresolved' = unresolved /\ resolver' = resolver
    BY <1>7 DEF Disturb, ApiError, Relist, LoseLead, Crash, StopLeading, store
  <2>2. QED BY <1>1, <1>2, <2>1 DEF Snapshot
<1>8. CASE DeadlinePasses \/ \E c \in Controllers : Resync(c) \/ Lead(c)
  <2>1. unresolved' = unresolved /\ resolver' = resolver
    BY <1>8 DEF DeadlinePasses, Resync, Lead, store
  <2>2. atom' = atom \/ atom' = [atom EXCEPT !.late = TRUE]
    BY <1>8 DEF DeadlinePasses, Resync, Lead, Expire
  <2>3. atom'.deps = atom.deps BY <1>1, <2>2 DEF Snapshot
  <2>4. QED BY <1>1, <1>2, <2>1, <2>3
<1>9. CASE UNCHANGED vars
  <2>1. atom' = atom /\ unresolved' = unresolved /\ resolver' = resolver
    BY <1>9 DEF vars, store
  <2>2. QED BY <1>1, <1>2, <2>1
<1>10. QED
  BY <1>3, <1>4, <1>5, <1>6, <1>7, <1>8, <1>9 DEF Next, Others

(* With any number of replicas, lost leases, crashes, broken watches, API  *)
(* errors and half-applied templates, no template is applied before its    *)
(* placeholders are resolved, as long as no promote overtakes a rollout    *)
(* (AtomController.Update, Client.apply, processDependency).               *)
THEOREM AppliesResolved ==
  "overlap" \notin Env => (Spec => []NoPlaceholderApplied)
<1> SUFFICES ASSUME "overlap" \notin Env PROVE Spec => []NoPlaceholderApplied
  OBVIOUS
<1>1. ASSUME Init PROVE PromotedInv /\ ResolvedInv
  <2>1. /\ live = 0 /\ issued = 0 /\ unresolved = {} /\ resolver = NoVersion
        /\ atom.deps = FALSE /\ \A c \in Controllers : ctl[c] = Idle
    BY <1>1 DEF Init, NoAtom, NoVersion
  <2>2. PromotedInv BY <2>1, StartedOthers DEF PromotedInv
  <2>3. ResolvedInv BY <2>1 DEF ResolvedInv
  <2>4. QED BY <2>2, <2>3
<1>2. TypeOK /\ HistoryInv /\ PromotedInv /\ ResolvedInv /\ [Next]_vars
        => PromotedInv' /\ ResolvedInv'
  BY PromotedStep, WaitingStep, NoneWaitingStep
<1>3. ResolvedInv => NoPlaceholderApplied
  BY DEF ResolvedInv, NoPlaceholderApplied
<1>4. QED
  BY <1>1, <1>2, <1>3, TypeCorrect, HistoryInvariant, PTL DEF Spec
=============================================================================
