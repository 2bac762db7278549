------------------------- MODULE PromoteWatchProofs -------------------------
(***************************************************************************)
(* Theorems about PromoteWatch, for any sets of pods, watchers and         *)
(* releases and any bounds: its types; as long as no release is promoted   *)
(* again, that a watch record outlives its report; and, as long as the     *)
(* promotes are Orderly, that a promote reported as completed has run.     *)
(***************************************************************************)
EXTENDS PromoteWatch, SequenceTheorems, TLAPS

-----------------------------------------------------------------------------
(* Types of the values the actions are built from. *)

LEMMA Bounds ==
  /\ MaxPromotes \in Nat /\ MaxPromotes # 0
  /\ MaxReports \in Nat /\ MaxReports # 0 /\ MaxRestarts \in Nat
BY MaxPromotesAssumption, MaxReportsAssumption, MaxRestartsAssumption

LEMMA VersionType ==
  /\ 0 \in Version /\ Promotes \subseteq Version /\ Version \subseteq Int
  /\ \A n \in Promotes : n # 0
BY Bounds DEF Version, Promotes

LEMMA OffType == Off \in Task
BY VersionType DEF Off, Task

LEMMA StartedType ==
  ASSUME NEW p \in Pods \cup {None}, NEW n \in Version, NEW b \in BOOLEAN
  PROVE  Started(p, n, b) \in Task
BY VersionType DEF Started, Off, Task

LEMMA ClosingType ==
  ASSUME NEW p \in Pods, NEW n \in Version, NEW r \in Result
  PROVE  Closing(p, n, r) \in Task
BY VersionType DEF Closing, Off, Task

LEMMA OutcomeType == ASSUME NEW s PROVE Outcome(s) \in Result
BY DEF Outcome, Result

LEMMA VerdictType == ASSUME NEW n, NEW v PROVE Verdict(n, v) \in Result \cup {"none"}
BY OutcomeType DEF Verdict, Result

LEMMA ClosedByScanType ==
  ASSUME NEW n, NEW v
  PROVE  ClosedByScan(n, v) \in Result \cup {"none"}
BY OutcomeType DEF ClosedByScan, Result

LEMMA SeenType ==
  ASSUME TypeOK, NEW p \in Pods
  PROVE  Seen(p) \in [status: Class, cur: Version, note: Version]
BY DEF Seen, TypeOK

-----------------------------------------------------------------------------
(* Type correctness. *)

Atoms      == [status: Class, cur: Version, prev: Version \cup {None}]
Namespaces == [status: Class, cur: Version, note: Version]

LEMMA RolloutType ==
  ASSUME TypeOK, NEW new \in Atoms, Rollout(new)
  PROVE  /\ atom' \in Atoms /\ ran' \subseteq Version
         /\ patches' \subseteq Mirrored /\ ns' \in Namespaces
<1>1. [status |-> new.status, cur |-> new.cur] \in Mirrored
  BY DEF Atoms, Mirrored
<1>2. atom' \in Atoms /\ ran' \subseteq Version
  BY DEF Rollout, TypeOK, Atoms
<1>3. CASE "mirror" \in Env
  BY <1>1, <1>2, <1>3 DEF Rollout, TypeOK, Namespaces
<1>4. CASE "mirror" \notin Env
  <2>1. ns' = [ns EXCEPT !.status = new.status, !.cur = new.cur]
        /\ patches' = patches
    BY <1>4 DEF Rollout
  <2>2. ns \in Namespaces /\ new.status \in Class /\ new.cur \in Version
    BY DEF TypeOK, Namespaces, Atoms
  <2>3. ns' \in Namespaces
    BY <2>1, <2>2 DEF Namespaces
  <2>4. QED BY <1>2, <2>1, <2>3 DEF TypeOK
<1>5. QED BY <1>3, <1>4

LEMMA InitType == Init => TypeOK
<1> SUFFICES ASSUME Init PROVE TypeOK
  OBVIOUS
<1>1. promoted \in Seq(Releases) /\ Len(promoted) <= MaxPromotes
  BY Bounds, EmptySeq DEF Init
<1>2. task \in [Actors -> Task]
  BY OffType DEF Init
<1>3. /\ atom \in Atoms /\ ns \in Namespaces
      /\ view \in [Pods -> Namespaces]
  BY VersionType DEF Init, Atoms, Namespaces, Class
<1>4. /\ reported \in [Promotes -> 0..MaxReports]
      /\ ran \subseteq Version /\ restarts \in 0..MaxRestarts
      /\ atomVersion \in [Promotes -> Version]
  BY Bounds, VersionType DEF Init
<1>5. QED
  BY <1>1, <1>2, <1>3, <1>4 DEF Init, TypeOK, Atoms, Namespaces

LEMMA RolloutStepsType ==
  ASSUME TypeOK,
         RolloutEnds \/ RolloutRollsBack \/ RolloutFails \/ UpdateNamespace
  PROVE  TypeOK'
<1>1. ASSUME NEW new \in Atoms, Rollout(new),
             UNCHANGED <<promoted, view, calls, age, slots, task, reported,
                         restarts>>
      PROVE  TypeOK'
  BY <1>1, RolloutType DEF TypeOK, calls, Atoms, Namespaces
<1>2. CASE RolloutEnds
  <2>1. \A s \in {"running", "failing"} :
          [atom EXCEPT !.status = s] \in Atoms
    BY DEF TypeOK, Atoms, Class
  <2>2. QED BY <1>1, <1>2, <2>1 DEF RolloutEnds
<1>3. CASE RolloutRollsBack
  <2>1. [atom EXCEPT !.cur = atom.prev, !.prev = None] \in Atoms
    BY <1>3 DEF RolloutRollsBack, TypeOK, Atoms
  <2>2. QED BY <1>1, <1>3, <2>1 DEF RolloutRollsBack
<1>4. CASE RolloutFails
  <2>1. [atom EXCEPT !.status = "failed"] \in Atoms
    BY DEF TypeOK, Atoms, Class
  <2>2. QED BY <1>1, <1>4, <2>1 DEF RolloutFails
<1>5. CASE UpdateNamespace
  <2>1. PICK m \in patches :
          /\ ns' \in {[ns EXCEPT !.status = m.status, !.cur = m.cur]}
                     \cup {n \in {ns} : \E p \in Pods :
                             Seen(p).status = m.status /\ Seen(p).cur = m.cur}
          /\ patches' \in {patches, patches \ {m}}
    BY <1>5 DEF UpdateNamespace
  <2>2. m \in Mirrored
    BY DEF TypeOK
  <2>3. ns' \in Namespaces /\ patches' \subseteq Mirrored
    BY <2>1, <2>2 DEF TypeOK, Mirrored, Namespaces
  <2>4. QED
    BY <1>5, <2>3 DEF UpdateNamespace, TypeOK, calls, Namespaces
<1>6. QED BY <1>2, <1>3, <1>4, <1>5

LEMMA PromoteType ==
  ASSUME TypeOK, NEW p \in Pods, NEW r \in Releases, Promote(p, r)
  PROVE  TypeOK'
<1> DEFINE n == Len(promoted) + 1
           new == [status |-> "moving", cur |-> n, prev |-> atom.cur]
<1>1. n \in Promotes
  BY Bounds, LenProperties DEF TypeOK, Promote, Promotes
<1>2. promoted' \in Seq(Releases) /\ Len(promoted') <= MaxPromotes
  BY Bounds, AppendProperties, LenProperties DEF TypeOK, Promote
<1>3. new \in Atoms
  BY <1>1, VersionType DEF TypeOK, Atoms, Class
<1>4. atom' \in Atoms /\ ran' \subseteq Version
      /\ patches' \subseteq Mirrored /\ ns' \in Namespaces
  BY <1>3, RolloutType DEF Promote
<1>5. request' \in [Promotes ->
        [step: {"none", "status", "note", "launch", "running", "returned"},
         pod: Pods \cup {None}]]
  BY <1>1 DEF TypeOK, Promote
<1>6. QED
  BY <1>2, <1>4, <1>5 DEF Promote, TypeOK, Atoms, Namespaces

LEMMA AttemptType ==
  ASSUME TypeOK, NEW new \in Namespaces, Attempt(new)
  PROVE  ns' \in Namespaces
BY DEF Attempt, TypeOK, Namespaces

LEMMA WatchType ==
  ASSUME TypeOK, NEW p \in Pods \cup {None}, NEW n \in Promotes,
         NEW b \in BOOLEAN, promoted[n] \in Releases, Watch(p, n, b)
  PROVE  task' \in [Actors -> Task] /\ slots' \in [Pods -> SUBSET Releases]
<1>1. PICK w \in Watchers : task' = [task EXCEPT ![w] = Started(p, n, b)]
  BY DEF Watch
<1>2. Started(p, n, b) \in Task
  BY StartedType, VersionType
<1>3. QED BY <1>1, <1>2 DEF Watch, TypeOK, Actors

NotMade(n) == request[n].step = "none" /\ request[n].pod = None

(* What is handled was promoted: it makes promoted[n] a release.           *)
Known ==
  /\ \A n \in Promotes : n <= Len(promoted) \/ NotMade(n)
  /\ ns.note <= Len(promoted)
  /\ \A p \in Pods : view[p].note <= Len(promoted)
  /\ \A a \in Actors :
       /\ task[a].n <= Len(promoted) /\ task[a].raw <= Len(promoted)
       /\ task[a].step # "off" => task[a].n # 0

LEMMA KnownRelease ==
  ASSUME TypeOK, NEW n \in Promotes, n <= Len(promoted)
  PROVE  promoted[n] \in Releases
BY Bounds, ElementOfSeq DEF TypeOK, Promotes

LEMMA CallsType ==
  ASSUME TypeOK, Known, NEW n \in Promotes, Call(n) \/ Age(n)
  PROVE  TypeOK'
<1>1. CASE ReadStatus(n)
  <2>1. atomVersion' \in [Promotes -> Version]
    BY <1>1, VersionType DEF ReadStatus, TypeOK
  <2>2. QED
    BY <1>1, <2>1 DEF ReadStatus, TypeOK, rollout
<1>2. CASE WriteRecord(n)
  <2>1. [ns EXCEPT !.note = n] \in Namespaces
    BY VersionType DEF TypeOK, Namespaces
  <2>2. ns' \in Namespaces
    BY <1>2, <2>1, AttemptType DEF WriteRecord
  <2>3. QED
    BY <1>2, <2>2 DEF WriteRecord, TypeOK, rollout, Namespaces
<1>3. CASE Launch(n)
  <2>1. request[n].step = "launch" /\ n <= Len(promoted)
    BY <1>3 DEF Launch, Known, NotMade
  <2>2. promoted[n] \in Releases
    BY <2>1, KnownRelease
  <2>3. request[n].pod \in Pods \cup {None}
    BY DEF TypeOK
  <2>4. task' \in [Actors -> Task] /\ slots' \in [Pods -> SUBSET Releases]
    BY <1>3, <2>2, <2>3, WatchType DEF Launch, TypeOK
  <2>5. QED
    BY <1>3, <2>4 DEF Launch, TypeOK, rollout
<1>4. CASE Return(n)
  BY <1>4 DEF Return, Returned, TypeOK, rollout
<1>5. CASE Age(n)
  BY <1>5 DEF Age, TypeOK, rollout, calls
<1>6. QED BY <1>1, <1>2, <1>3, <1>4, <1>5 DEF Call

LEMMA ResumeType ==
  ASSUME TypeOK, NEW a \in Actors, NEW t \in Task, Resume(a, t),
         ns' \in Namespaces, slots' \in [Pods -> SUBSET Releases],
         reported' \in [Promotes -> 0..MaxReports]
  PROVE  TypeOK'
<1>1. task' \in [Actors -> Task]
  BY DEF Resume, TypeOK
<1>2. QED
  BY <1>1 DEF Resume, TypeOK, rollout, calls, Namespaces

LEMMA Parts ==
  ASSUME TypeOK
  PROVE  /\ ns \in Namespaces /\ slots \in [Pods -> SUBSET Releases]
         /\ reported \in [Promotes -> 0..MaxReports]
         /\ \A a \in Actors : task[a] \in Task
BY DEF TypeOK, Namespaces

LEMMA AfterCleanupType ==
  ASSUME TypeOK, NEW a \in Actors
  PROVE  AfterCleanup(a) \in Task
BY OffType, VersionType DEF AfterCleanup, TypeOK, Task

LEMMA CleanupType ==
  ASSUME TypeOK, NEW a \in Actors, Cleanup(a)
  PROVE  TypeOK'
<1>1. CASE Emit(a)
  <2>1. [task[a] EXCEPT !.step = "get", !.result = "none"] \in Task
    BY Parts DEF Task
  <2>2. reported' \in [Promotes -> 0..MaxReports]
    <3>1. \A n \in Promotes :
            (IF reported[n] < MaxReports THEN reported[n] + 1 ELSE reported[n])
              \in 0..MaxReports
      BY Bounds, Parts
    <3>2. QED BY <1>1, <3>1, Parts DEF Emit
  <2>3. QED
    BY <1>1, <2>1, <2>2, Parts, ResumeType DEF Emit
<1>2. CASE GetRecord(a)
  <2>1. [task[a] EXCEPT !.step = "patch", !.raw = ns.note] \in Task
    BY Parts DEF Task, Namespaces
  <2>2. QED
    BY <1>2, <2>1, Parts, AfterCleanupType, ResumeType DEF GetRecord
<1>3. CASE RemoveRecord(a)
  <2>1. [ns EXCEPT !.note = 0] \in Namespaces /\ ns \in Namespaces
    BY Parts, VersionType DEF Namespaces
  <2>2. ns' \in Namespaces
    BY <1>3, <2>1, AttemptType DEF RemoveRecord
  <2>3. QED
    BY <1>3, <2>2, Parts, AfterCleanupType, ResumeType DEF RemoveRecord
<1>4. QED BY <1>1, <1>2, <1>3 DEF Cleanup

LEMMA RunType ==
  ASSUME TypeOK, NEW w \in Watchers, Run(w)
  PROVE  TypeOK'
<1>0. w \in Actors
  BY DEF Actors
<1>1. CASE Poll(w)
  <2>1. PICK r \in Result :
          Resume(w, [task[w] EXCEPT !.step = "emit", !.result = r])
    BY <1>1, VerdictType DEF Poll
  <2>2. [task[w] EXCEPT !.step = "emit", !.result = r] \in Task
    BY <1>0, Parts DEF Task
  <2>3. QED
    BY <1>0, <1>1, <2>1, <2>2, Parts, ResumeType DEF Poll
<1>2. CASE Abort(w)
  <2>1. [task[w] EXCEPT !.step = "get"] \in Task
    BY <1>0, Parts DEF Task
  <2>2. QED
    BY <1>0, <1>2, <2>1, Parts, ResumeType DEF Abort
<1>3. CASE Cleanup(w)
  BY <1>0, <1>3, CleanupType
<1>4. CASE Release(w)
  <2>1. [task[w] EXCEPT !.step = "exit"] \in Task
    BY <1>0, Parts DEF Task
  <2>2. slots' \in [Pods -> SUBSET Releases]
    BY <1>4, Parts DEF Release
  <2>3. QED
    BY <1>0, <1>4, <2>1, <2>2, OffType, Parts, ResumeType DEF Release
<1>5. QED BY <1>1, <1>2, <1>3, <1>4 DEF Run

LEMMA PodType ==
  ASSUME TypeOK, Known, NEW p \in Pods, Refresh(p) \/ Scan(p) \/ Restart(p)
  PROVE  TypeOK'
<1>1. CASE Refresh(p)
  BY <1>1 DEF Refresh, TypeOK, rollout, calls
<1>2. CASE Scan(p)
  <2> DEFINE n == Seen(p).note
  <2>1. n \in Promotes /\ n <= Len(promoted)
    BY <1>2, Bounds, SeenType DEF Scan, Known, Seen, Version, Promotes
  <2>2. task' \in [Actors -> Task] /\ slots' \in [Pods -> SUBSET Releases]
    <3>1. CASE /\ ClosedByScan(n, Seen(p)) # "none"
               /\ task' = [task EXCEPT
                           ![p] = Closing(p, n, ClosedByScan(n, Seen(p)))]
               /\ UNCHANGED slots
      <4>1. Closing(p, n, ClosedByScan(n, Seen(p))) \in Task
        BY <2>1, <3>1, VersionType, ClosedByScanType, ClosingType
      <4>2. QED BY <3>1, <4>1 DEF TypeOK
    <3>2. CASE Watch(p, n, FALSE)
      BY <2>1, <3>2, KnownRelease, WatchType
    <3>3. QED BY <1>2, <3>1, <3>2 DEF Scan
  <2>3. QED
    BY <1>2, <2>2 DEF Scan, TypeOK, rollout, calls
<1>3. CASE Restart(p)
  <2>1. task' \in [Actors -> Task]
    BY <1>3, OffType DEF Restart, TypeOK
  <2>2. restarts' \in 0..MaxRestarts
    BY <1>3, Bounds DEF Restart, TypeOK
  <2>3. view' \in [Pods -> Namespaces]
    BY <1>3 DEF Restart, TypeOK, Namespaces
  <2>4. slots' \in [Pods -> SUBSET Releases]
    BY <1>3 DEF Restart, TypeOK
  <2>5. request' \in [Promotes ->
          [step: {"none", "status", "note", "launch", "running", "returned"},
           pod: Pods \cup {None}]]
    BY <1>3 DEF Restart, Returned, TypeOK
  <2>6. QED
    BY <1>3, <2>1, <2>2, <2>3, <2>4, <2>5
       DEF Restart, TypeOK, rollout, Namespaces
<1>4. QED BY <1>1, <1>2, <1>3

-----------------------------------------------------------------------------
(* Every promote that is handled was made. *)

LEMMA InitKnown == Init => Known
BY Bounds, OffType, EmptySeq DEF Init, Known, NotMade, Off, Actors

(* An action that starts nothing new keeps it.                             *)
LEMMA KnownKept ==
  ASSUME TypeOK, TypeOK', Known, UNCHANGED <<promoted, request, view>>,
         ns'.note \in {0, ns.note},
         \A a \in Actors :
           \/ task'[a] = task[a]
           \/ /\ task'[a].step # "off" => task'[a].n # 0
              /\ task'[a].n <= Len(promoted) /\ task'[a].raw <= Len(promoted)
  PROVE  Known'
<1>1. Len(promoted) \in Nat
  BY LenProperties DEF TypeOK
<1>2. ns'.note <= Len(promoted')
  BY <1>1 DEF Known
<1>3. QED BY <1>1, <1>2 DEF Known, NotMade

LEMMA RolloutKnown ==
  ASSUME TypeOK, TypeOK', Known,
         RolloutEnds \/ RolloutRollsBack \/ RolloutFails \/ UpdateNamespace
  PROVE  Known' /\ ns'.note = ns.note
<1>1. UNCHANGED <<promoted, request, view, task>>
  BY DEF RolloutEnds, RolloutRollsBack, RolloutFails, UpdateNamespace, calls
<1>2. ns \in Namespaces
  BY Parts
<1>3. ns'.note = ns.note
  <2>1. ASSUME NEW new, Rollout(new) PROVE ns'.note = ns.note
    BY <1>2, <2>1 DEF Rollout, Namespaces
  <2>2. CASE RolloutEnds BY <2>1, <2>2 DEF RolloutEnds
  <2>3. CASE RolloutRollsBack BY <2>1, <2>3 DEF RolloutRollsBack
  <2>4. CASE RolloutFails BY <2>1, <2>4 DEF RolloutFails
  <2>5. CASE UpdateNamespace
    BY <1>2, <2>5 DEF UpdateNamespace, Namespaces
  <2>6. QED BY <2>2, <2>3, <2>4, <2>5
<1>4. QED BY <1>1, <1>3, KnownKept

LEMMA PromoteKnown ==
  ASSUME TypeOK, Known, NEW p \in Pods, NEW r \in Releases, Promote(p, r)
  PROVE  /\ Known' /\ ns'.note = ns.note
         /\ Len(promoted') = Len(promoted) + 1
         /\ \A m \in 1..Len(promoted) : promoted'[m] = promoted[m]
         /\ promoted'[Len(promoted) + 1] = r
<1>1. /\ Len(promoted') = Len(promoted) + 1 /\ Len(promoted) \in Nat
      /\ \A m \in 1..Len(promoted) : promoted'[m] = promoted[m]
      /\ promoted'[Len(promoted) + 1] = r
  BY AppendProperties, LenProperties DEF TypeOK, Promote
<1>2. ns'.note = ns.note
  BY Parts DEF Promote, Rollout, Namespaces
<1>3. UNCHANGED <<view, task>>
  BY DEF Promote
<1>4. \A n \in Promotes : n <= Len(promoted') \/ NotMade(n)'
  <2> TAKE n \in Promotes
  <2>1. CASE n = Len(promoted) + 1
    BY <1>1, <2>1
  <2>2. CASE n # Len(promoted) + 1
    <3>1. request'[n] = request[n]
      BY <2>2 DEF Promote, TypeOK
    <3>2. n \in Int
      BY VersionType
    <3>3. QED BY <1>1, <3>1, <3>2 DEF Known, NotMade
  <2>3. QED BY <2>1, <2>2
<1>5. /\ ns.note \in Int /\ \A q \in Pods : view[q].note \in Int
      /\ \A a \in Actors : task[a].n \in Int /\ task[a].raw \in Int
  BY VersionType DEF TypeOK, Task
<1>6. QED
  BY <1>1, <1>2, <1>3, <1>4, <1>5 DEF Known

LEMMA WatchKnown ==
  ASSUME TypeOK, Known, NEW p \in Pods \cup {None}, NEW n \in Promotes,
         n <= Len(promoted), NEW b \in BOOLEAN, Watch(p, n, b)
  PROVE  \A a \in Actors :
           \/ task'[a] = task[a]
           \/ /\ task'[a].step = "watch" /\ task'[a].n = n
              /\ task'[a].n # 0
              /\ task'[a].n <= Len(promoted) /\ task'[a].raw <= Len(promoted)
<1>1. PICK w \in Watchers : task' = [task EXCEPT ![w] = Started(p, n, b)]
  BY DEF Watch
<1>2. 0 <= Len(promoted) /\ n # 0
  BY VersionType, LenProperties DEF TypeOK
<1>3. /\ Started(p, n, b).step = "watch" /\ Started(p, n, b).n = n
      /\ Started(p, n, b).raw = 0
  BY DEF Started, Off
<1>4. QED BY <1>1, <1>2, <1>3 DEF TypeOK

LEMMA CallsKnown ==
  ASSUME TypeOK, TypeOK', Known, NEW n \in Promotes, Call(n) \/ Age(n)
  PROVE  /\ Known' /\ ns'.note \in {ns.note, n} /\ UNCHANGED promoted
         /\ \A m \in Promotes : request[m].step = "returned"
                                => request'[m].step = "returned"
         /\ UNCHANGED reported
         /\ \A a \in Actors :
              task'[a] = task[a] \/ task'[a].step = "watch"
<1>0. Len(promoted) \in Nat /\ n # 0
  BY VersionType, LenProperties DEF TypeOK
<1> DEFINE Progress ==
     /\ \A m \in Promotes : request[m].step = "returned"
                            => request'[m].step = "returned"
     /\ \A m \in Promotes : m <= Len(promoted) \/ NotMade(m)'
<1>1. CASE Call(n) /\ ~Launch(n)
  <2>1. request[n].step \in {"status", "note", "running"}
    BY <1>1 DEF Call, ReadStatus, WriteRecord, Return
  <2>2. n <= Len(promoted)
    BY <2>1 DEF Known, NotMade
  <2>3. UNCHANGED <<promoted, view, task, reported>>
    BY <1>1 DEF Call, ReadStatus, WriteRecord, Return, rollout
  <2>4. \A m \in Promotes : m # n => request'[m] = request[m]
    BY <1>1 DEF Call, ReadStatus, WriteRecord, Return, TypeOK
  <2>5. Progress
    BY <2>1, <2>2, <2>4 DEF Known, NotMade
  <2>6. ns'.note \in {ns.note, n}
    BY <1>1, Parts
       DEF Call, ReadStatus, WriteRecord, Return, Attempt, Namespaces
  <2>7. QED BY <1>0, <2>2, <2>3, <2>5, <2>6 DEF Known
<1>2. CASE Launch(n)
  <2>1. request[n].step = "launch" /\ n <= Len(promoted)
    BY <1>2 DEF Launch, Known, NotMade
  <2>2. UNCHANGED <<promoted, ns, view, reported>>
    BY <1>2 DEF Launch, rollout
  <2>3. Progress
    BY <1>2, <2>1 DEF Launch, TypeOK, Known, NotMade
  <2>4. request[n].pod \in Pods \cup {None}
    BY DEF TypeOK
  <2>5. \A a \in Actors :
          \/ task'[a] = task[a]
          \/ /\ task'[a].step = "watch" /\ task'[a].n # 0
             /\ task'[a].n <= Len(promoted) /\ task'[a].raw <= Len(promoted)
    BY <1>2, <2>1, <2>4, WatchKnown DEF Launch
  <2>6. QED BY <2>2, <2>3, <2>5 DEF Known
<1>3. CASE Age(n)
  BY <1>3 DEF Age, rollout, calls, Known, NotMade
<1>4. QED BY <1>1, <1>2, <1>3

LEMMA ResumeKnown ==
  ASSUME TypeOK, TypeOK', Known, NEW a \in Actors, NEW t, Resume(a, t),
         ns'.note \in {0, ns.note}, task[a].step # "off",
         \/ t = Off
         \/ t.n = task[a].n /\ t.raw \in {0, task[a].raw, ns.note}
  PROVE  /\ Known' /\ UNCHANGED <<promoted, request>>
         /\ task'[a] = t /\ \A b \in Actors \ {a} : task'[b] = task[b]
<1>1. UNCHANGED <<promoted, request, view>>
  BY DEF Resume, rollout, calls
<1>2. task'[a] = t /\ \A b \in Actors \ {a} : task'[b] = task[b]
  BY DEF Resume, TypeOK
<1>3. 0 <= Len(promoted)
  BY LenProperties DEF TypeOK
<1>4. CASE t = Off
  <2>1. task'[a].step = "off" /\ task'[a].n = 0 /\ task'[a].raw = 0
    BY <1>2, <1>4 DEF Off
  <2>2. QED BY <1>1, <1>2, <1>3, <2>1, KnownKept
<1>5. CASE t.n = task[a].n /\ t.raw \in {0, task[a].raw, ns.note}
  <2>1. /\ task'[a].n # 0 /\ task'[a].n <= Len(promoted)
        /\ task'[a].raw <= Len(promoted)
    BY <1>2, <1>3, <1>5 DEF Known
  <2>2. QED BY <1>1, <1>2, <2>1, KnownKept
<1>6. QED BY <1>4, <1>5

LEMMA AfterCleanupShape ==
  ASSUME TypeOK, NEW a \in Actors
  PROVE  /\ \/ AfterCleanup(a) = Off
            \/ AfterCleanup(a).n = task[a].n /\ AfterCleanup(a).raw = 0
         /\ AfterCleanup(a).step \in {"off", "release"}
BY Parts DEF AfterCleanup, Off, Task

LEMMA CleanupKnown ==
  ASSUME TypeOK, TypeOK', Known, NEW a \in Actors, Cleanup(a)
  PROVE  /\ Known' /\ UNCHANGED <<promoted, request>>
         /\ \/ ns'.note = ns.note
            \/ RemoveRecord(a) /\ Removable(task[a]) /\ ns'.note = 0
         /\ \A b \in Actors \ {a} : task'[b] = task[b]
<1>1. CASE Emit(a)
  <2> DEFINE t == [task[a] EXCEPT !.step = "get", !.result = "none"]
  <2>1. t.n = task[a].n /\ t.raw = task[a].raw
    BY Parts DEF Task
  <2>2. Resume(a, t) /\ ns'.note = ns.note /\ task[a].step # "off"
    BY <1>1 DEF Emit
  <2> HIDE DEF t
  <2>3. QED BY <2>1, <2>2, ResumeKnown
<1>2. CASE GetRecord(a)
  <2> DEFINE t == [task[a] EXCEPT !.step = "patch", !.raw = ns.note]
  <2>1. t.n = task[a].n /\ t.raw = ns.note
    BY Parts DEF Task
  <2>2. /\ Resume(a, t) \/ Resume(a, AfterCleanup(a))
        /\ ns'.note = ns.note /\ task[a].step # "off"
    BY <1>2 DEF GetRecord
  <2> HIDE DEF t
  <2>3. CASE Resume(a, t) BY <2>1, <2>2, <2>3, ResumeKnown
  <2>4. CASE Resume(a, AfterCleanup(a))
    BY <2>2, <2>4, AfterCleanupShape, ResumeKnown
  <2>5. QED BY <2>2, <2>3, <2>4
<1>3. CASE RemoveRecord(a)
  <2>1. Resume(a, AfterCleanup(a)) /\ task[a].step # "off"
    BY <1>3 DEF RemoveRecord
  <2>2. ns'.note = ns.note \/ (Removable(task[a]) /\ ns'.note = 0)
    <3>1. CASE Removable(task[a])
      <4>1. ns' = [ns EXCEPT !.note = 0] \/ ns' = ns
        BY <1>3, <3>1 DEF RemoveRecord, Attempt
      <4>2. QED BY <3>1, <4>1, Parts DEF Namespaces
    <3>2. CASE ~Removable(task[a])
      BY <1>3, <3>2 DEF RemoveRecord, Attempt
    <3>3. QED BY <3>1, <3>2
  <2>3. ns'.note \in {0, ns.note}
    BY <2>2
  <2>4. /\ Known' /\ UNCHANGED <<promoted, request>>
        /\ \A b \in Actors \ {a} : task'[b] = task[b]
    BY <2>1, <2>3, AfterCleanupShape, ResumeKnown
  <2>5. QED BY <1>3, <2>2, <2>4
<1>4. QED BY <1>1, <1>2, <1>3 DEF Cleanup

LEMMA WatcherKnown ==
  ASSUME TypeOK, TypeOK', Known, NEW w \in Watchers,
         Poll(w) \/ Abort(w) \/ Release(w)
  PROVE  /\ Known' /\ ns' = ns /\ UNCHANGED <<promoted, request, reported>>
         /\ \A b \in Actors \ {w} : task'[b] = task[b]
         /\ \/ task'[w].step \notin {"get", "patch"}
            \/ /\ task'[w].step = "get" /\ Done(task[w])
               /\ task'[w] = [task[w] EXCEPT !.step = "get"]
<1>0. w \in Actors
  BY DEF Actors
<1>1. CASE Poll(w)
  <2>1. PICK r : Resume(w, [task[w] EXCEPT !.step = "emit", !.result = r])
    BY <1>1 DEF Poll
  <2> DEFINE t == [task[w] EXCEPT !.step = "emit", !.result = r]
  <2>2. t.n = task[w].n /\ t.raw = task[w].raw /\ t.step = "emit"
    BY <1>0, Parts DEF Task
  <2>3. ns' = ns /\ reported' = reported /\ task[w].step # "off"
    BY <1>1 DEF Poll
  <2>4. Resume(w, t)
    BY <2>1
  <2> HIDE DEF t
  <2>5. QED BY <1>0, <2>2, <2>3, <2>4, ResumeKnown
<1>2. CASE Abort(w)
  <2> DEFINE t == [task[w] EXCEPT !.step = "get"]
  <2>1. t.n = task[w].n /\ t.raw = task[w].raw /\ t.step = "get"
    BY <1>0, Parts DEF Task
  <2>2. /\ Resume(w, t) /\ Done(task[w])
        /\ ns' = ns /\ reported' = reported /\ task[w].step # "off"
    BY <1>2 DEF Abort
  <2>3. t = [task[w] EXCEPT !.step = "get"]
    OBVIOUS
  <2> HIDE DEF t
  <2>4. QED BY <1>0, <2>1, <2>2, <2>3, ResumeKnown
<1>3. CASE Release(w)
  <2> DEFINE t == IF task[w].step = "release"
                  THEN [task[w] EXCEPT !.step = "exit"] ELSE Off
  <2>1. /\ t = Off \/ (t.n = task[w].n /\ t.raw = task[w].raw)
        /\ t.step \in {"exit", "off"}
    <3>1. CASE task[w].step = "release" BY <1>0, <3>1, Parts DEF Task
    <3>2. CASE task[w].step # "release" BY <3>2 DEF Off
    <3>3. QED BY <3>1, <3>2
  <2>2. /\ Resume(w, t)
        /\ ns' = ns /\ reported' = reported /\ task[w].step # "off"
    BY <1>3 DEF Release
  <2> HIDE DEF t
  <2>3. QED BY <1>0, <2>1, <2>2, ResumeKnown
<1>4. QED BY <1>1, <1>2, <1>3

LEMMA ScanKnown ==
  ASSUME TypeOK, TypeOK', Known, NEW p \in Pods, Scan(p)
  PROVE  /\ Known' /\ UNCHANGED <<ns, promoted, request, reported>>
         /\ \A a \in Actors :
              task'[a] = task[a] \/ task'[a].step \in {"watch", "emit"}
<1> DEFINE n == Seen(p).note
           r == ClosedByScan(n, Seen(p))
<1>1. n \in Promotes /\ n <= Len(promoted)
  BY Bounds, SeenType DEF Scan, Known, Seen, Version, Promotes
<1>2. UNCHANGED <<ns, promoted, request, view, reported>>
  BY DEF Scan, rollout, calls
<1>3. \A a \in Actors :
        \/ task'[a] = task[a]
        \/ /\ task'[a].step \in {"watch", "emit"} /\ task'[a].n # 0
           /\ task'[a].n <= Len(promoted) /\ task'[a].raw <= Len(promoted)
  <2>1. CASE task' = [task EXCEPT ![p] = Closing(p, n, r)]
    <3>1. /\ Closing(p, n, r).step = "emit" /\ Closing(p, n, r).n = n
          /\ Closing(p, n, r).raw = 0
      BY DEF Closing, Off
    <3>2. 0 <= Len(promoted) /\ n # 0
      BY <1>1, VersionType, LenProperties DEF TypeOK
    <3>3. QED BY <1>1, <2>1, <3>1, <3>2 DEF TypeOK
  <2>2. CASE Watch(p, n, FALSE)
    BY <1>1, <2>2, WatchKnown
  <2>3. QED BY <2>1, <2>2 DEF Scan
<1>4. QED BY <1>2, <1>3, KnownKept

LEMMA RestartKnown ==
  ASSUME TypeOK, TypeOK', Known, NEW p \in Pods, Refresh(p) \/ Restart(p)
  PROVE  /\ Known' /\ UNCHANGED <<ns, promoted, reported>>
         /\ \A m \in Promotes : request[m].step = "returned"
                                => request'[m].step = "returned"
         /\ \A a \in Actors : task'[a] = task[a] \/ task'[a].step = "off"
<1>1. UNCHANGED <<ns, promoted, reported>>
  BY DEF Refresh, Restart, rollout
<1>2. \A q \in Pods : view'[q].note \in {view[q].note, ns.note}
  BY DEF Refresh, Restart, TypeOK
<1>3. \A a \in Actors :
        \/ task'[a] = task[a]
        \/ task'[a].step = "off" /\ task'[a].n = 0 /\ task'[a].raw = 0
  BY DEF Refresh, Restart, Off
<1>4. \A m \in Promotes :
        \/ request'[m] = request[m]
        \/ request[m].pod = p /\ request'[m].step = "returned"
  BY DEF Refresh, Restart, Returned, calls
<1>5. \A m \in Promotes : m <= Len(promoted) \/ NotMade(m)'
  BY <1>4, NoneAssumption DEF Known, NotMade
<1>6. 0 <= Len(promoted)
  BY LenProperties DEF TypeOK
<1>7. QED
  BY <1>1, <1>2, <1>3, <1>4, <1>5, <1>6 DEF Known

LEMMA InvStep ==
  ASSUME TypeOK, Known, [Next]_vars
  PROVE  TypeOK' /\ Known'
<1>1. CASE RolloutEnds \/ RolloutRollsBack \/ RolloutFails \/ UpdateNamespace
  BY <1>1, RolloutStepsType, RolloutKnown
<1>2. CASE \E p \in Pods : \E r \in Releases : Promote(p, r)
  BY <1>2, PromoteType, PromoteKnown
<1>3. CASE \E n \in Promotes : Call(n) \/ Age(n)
  BY <1>3, CallsType, CallsKnown
<1>4. CASE \E w \in Watchers : Run(w)
  <2>1. PICK w \in Watchers : Run(w)
    BY <1>4
  <2>2. TypeOK' /\ w \in Actors
    BY <2>1, RunType DEF Actors
  <2>3. QED BY <2>1, <2>2, CleanupKnown, WatcherKnown DEF Run
<1>5. CASE \E p \in Pods : Refresh(p) \/ Scan(p) \/ Cleanup(p) \/ Restart(p)
  <2>1. PICK p \in Pods : Refresh(p) \/ Scan(p) \/ Cleanup(p) \/ Restart(p)
    BY <1>5
  <2>2. TypeOK' /\ p \in Actors
    BY <2>1, PodType, CleanupType DEF Actors
  <2>3. QED BY <2>1, <2>2, CleanupKnown, ScanKnown, RestartKnown
<1>6. CASE UNCHANGED vars
  BY <1>6 DEF vars, rollout, calls, TypeOK, Known, NotMade
<1>7. QED BY <1>1, <1>2, <1>3, <1>4, <1>5, <1>6 DEF Next

(* Every variable keeps its type, whatever restarts, overlaps, expires or  *)
(* fails: the slots of a pod hold releases and nothing else, a record and  *)
(* its watcher name a promote (the slot table and the record of            *)
(* release_watcher.go).                                                    *)
THEOREM TypeCorrect == Spec => []TypeOK
<1>1. Init => TypeOK /\ Known
  BY InitType, InitKnown
<1>2. TypeOK /\ Known /\ [Next]_vars => TypeOK' /\ Known'
  BY InvStep
<1>3. QED BY <1>1, <1>2, PTL DEF Spec

-----------------------------------------------------------------------------
(* A watch record outlives its report, as long as no release is promoted   *)
(* again.                                                                  *)

Once ==
  \A m, n \in 1..Len(promoted) : promoted[m] = promoted[n] => m = n

(* A cleanup has sent its event or has no context left to call with, and   *)
(* the record it will remove is its own.                                   *)
Handled(a) ==
  /\ task[a].step \in {"get", "patch"}
     => Done(task[a]) \/ reported[task[a].n] > 0
  /\ task[a].step = "patch" => task[a].raw = task[a].n

Kept == \A a \in Actors : Handled(a)

(* Whoever takes away a record has reported it.                            *)
Justified == ns.note # 0 /\ ns'.note = 0 => reported[ns.note] > 0

LEMMA InitKept == Init => Once /\ Kept
BY DEF Init, Once, Kept, Handled, Off

LEMMA OnceStep ==
  ASSUME TypeOK, Known, Once, "again" \notin Env, [Next]_vars
  PROVE  Once'
<1>1. CASE \E p \in Pods : \E r \in Releases : Promote(p, r)
  <2>1. PICK p \in Pods, r \in Releases : Promote(p, r)
    BY <1>1
  <2>2. \A m \in 1..Len(promoted) : promoted[m] # r
    BY <2>1 DEF Promote
  <2>3. Len(promoted) \in Nat
    BY LenProperties DEF TypeOK
  <2>4. QED BY <2>1, <2>2, <2>3, PromoteKnown DEF Once
<1>2. CASE UNCHANGED promoted
  BY <1>2 DEF Once
<1>3. QED
  BY <1>1, <1>2 DEF Next, RolloutEnds, RolloutRollsBack, RolloutFails,
     UpdateNamespace, Call, ReadStatus, WriteRecord, Launch, Return, Age, Run,
     Poll, Abort, Cleanup, Emit, GetRecord, RemoveRecord, Release, Refresh,
     Scan, Restart, Resume, rollout, vars

LEMMA KeptKept ==
  ASSUME TypeOK, TypeOK', Known, Kept,
         \A m \in Promotes :
           /\ request[m].step = "returned" => request'[m].step = "returned"
           /\ reported[m] > 0 => reported'[m] > 0,
         \A a \in Actors :
           \/ task'[a] = task[a]
           \/ task'[a].step \notin {"get", "patch"}
           \/ Handled(a)'
  PROVE  Kept'
<1> SUFFICES ASSUME NEW a \in Actors, task'[a] = task[a],
                    task[a].step \in {"get", "patch"}
             PROVE  Handled(a)'
  BY DEF Kept, Handled
<1>1. task[a].n \in Promotes
  BY Parts, Bounds DEF Known, Task, Version, Promotes
<1>2. QED BY <1>1 DEF Kept, Handled, Done

LEMMA CleanupKept ==
  ASSUME TypeOK, TypeOK', Known, Once, Kept, NEW a \in Actors, Cleanup(a)
  PROVE  Kept' /\ Justified
<1>1. /\ UNCHANGED <<promoted, request>>
      /\ \A b \in Actors \ {a} : task'[b] = task[b]
  BY CleanupKnown
<1>2. CASE Emit(a)
  <2>1. task[a].n \in Promotes
    BY <1>2, Parts, Bounds DEF Emit, Known, Task, Version, Promotes
  <2>2. \A m \in Promotes : reported'[m] >= reported[m]
    BY <1>2, Parts, Bounds DEF Emit
  <2>3. reported'[task[a].n] > 0
    BY <1>2, <2>1, Parts, Bounds DEF Emit
  <2>4. task'[a].n = task[a].n /\ task'[a].step = "get"
    BY <1>2, Parts DEF Emit, Resume, TypeOK, Task
  <2>5. \A m \in Promotes : reported[m] > 0 => reported'[m] > 0
    BY <2>2, Parts DEF TypeOK
  <2>6. Handled(a)'
    BY <2>3, <2>4 DEF Handled
  <2>7. Justified
    BY <1>2 DEF Emit, Justified
  <2>8. QED BY <1>1, <2>5, <2>6, <2>7, KeptKept
<1>3. CASE GetRecord(a)
  <2>1. reported' = reported /\ ns' = ns
    BY <1>3 DEF GetRecord
  <2>2. Handled(a)'
    <3>1. CASE Mine(task[a]) /\ ~Done(task[a])
      <4> DEFINE t == [task[a] EXCEPT !.step = "patch", !.raw = ns.note]
      <4>1. task'[a] = t
        BY <1>3, <3>1 DEF GetRecord, Resume, TypeOK
      <4>2. /\ t.step = "patch" /\ t.raw = ns.note /\ t.n = task[a].n
            /\ t.bound = task[a].bound
        BY Parts DEF Task
      <4>3. ns.note = task[a].n
        <5>1. /\ ns.note # 0 /\ ns.note \in Version
              /\ task[a].n # 0 /\ task[a].n \in Version
          BY <1>3, <3>1, Parts
             DEF GetRecord, Mine, Known, Namespaces, Task
        <5>2. /\ ns.note \in 1..Len(promoted)
              /\ task[a].n \in 1..Len(promoted)
          BY <5>1, Bounds, LenProperties DEF Known, Version, TypeOK
        <5>3. QED BY <3>1, <5>1, <5>2 DEF Mine, SameRelease, Once
      <4>4. reported[task[a].n] > 0
        BY <1>3, <3>1 DEF GetRecord, Kept, Handled
      <4> HIDE DEF t
      <4>5. QED BY <2>1, <4>1, <4>2, <4>3, <4>4 DEF Handled
    <3>2. CASE ~(Mine(task[a]) /\ ~Done(task[a]))
      <4>1. task'[a] = AfterCleanup(a)
        BY <1>3, <3>2 DEF GetRecord, Resume, TypeOK
      <4>2. QED BY <4>1, AfterCleanupShape DEF Handled
    <3>3. QED BY <3>1, <3>2
  <2>3. QED BY <1>1, <2>1, <2>2, KeptKept DEF Justified
<1>4. CASE RemoveRecord(a)
  <2>1. reported' = reported /\ task[a].step = "patch"
    BY <1>4 DEF RemoveRecord
  <2>2. task'[a] = AfterCleanup(a)
    BY <1>4 DEF RemoveRecord, Resume, TypeOK
  <2>3. Kept'
    BY <1>1, <2>1, <2>2, AfterCleanupShape, KeptKept
  <2>4. CASE Removable(task[a])
    BY <2>1, <2>3, <2>4 DEF Removable, Justified, Kept, Handled
  <2>5. CASE ns'.note = ns.note
    BY <2>3, <2>5 DEF Justified
  <2>6. QED BY <2>4, <2>5, CleanupKnown
<1>5. QED BY <1>2, <1>3, <1>4 DEF Cleanup

LEMMA KeptStep ==
  ASSUME TypeOK, TypeOK', Known, Once, Kept, [Next]_vars
  PROVE  Kept' /\ Justified
<1>1. CASE RolloutEnds \/ RolloutRollsBack \/ RolloutFails \/ UpdateNamespace
  <2>1. UNCHANGED <<request, task, reported>>
    BY <1>1
       DEF RolloutEnds, RolloutRollsBack, RolloutFails, UpdateNamespace, calls
  <2>2. QED BY <1>1, <2>1, RolloutKnown, KeptKept DEF Justified
<1>2. CASE \E p \in Pods : \E r \in Releases : Promote(p, r)
  <2>1. PICK p \in Pods, r \in Releases : Promote(p, r)
    BY <1>2
  <2>2. UNCHANGED <<task, reported>>
    BY <2>1 DEF Promote
  <2>3. \A m \in Promotes : request[m].step = "returned"
                            => request'[m].step = "returned"
    <3> DEFINE n == Len(promoted) + 1
    <3>1. \A m \in Promotes : m # n => request'[m] = request[m]
      BY <2>1 DEF Promote, TypeOK
    <3>2. ~(n <= Len(promoted))
      BY LenProperties DEF TypeOK
    <3>3. \A m \in Promotes : m = n => request[m].step = "none"
      BY <3>2 DEF Known, NotMade
    <3>4. QED BY <3>1, <3>3
  <2>4. QED BY <2>1, <2>2, <2>3, PromoteKnown, KeptKept DEF Justified
<1>3. CASE \E n \in Promotes : Call(n) \/ Age(n)
  <2>1. PICK n \in Promotes : Call(n) \/ Age(n)
    BY <1>3
  <2>2. n # 0
    BY VersionType
  <2>3. QED BY <2>1, <2>2, CallsKnown, KeptKept DEF Justified
<1>4. CASE \E w \in Watchers : Run(w)
  <2>1. PICK w \in Watchers : Run(w)
    BY <1>4
  <2>2. w \in Actors
    BY DEF Actors
  <2>3. CASE Cleanup(w)
    BY <2>2, <2>3, CleanupKept
  <2>4. CASE Poll(w) \/ Abort(w) \/ Release(w)
    <3>1. Handled(w)' \/ task'[w].step \notin {"get", "patch"}
      <4>1. /\ UNCHANGED request
            /\ \/ task'[w].step \notin {"get", "patch"}
               \/ /\ task'[w].step = "get" /\ Done(task[w])
                  /\ task'[w] = [task[w] EXCEPT !.step = "get"]
        BY <2>4, WatcherKnown
      <4>2. CASE /\ task'[w].step = "get" /\ Done(task[w])
                 /\ task'[w] = [task[w] EXCEPT !.step = "get"]
        <5>1. task'[w].bound = task[w].bound /\ task'[w].n = task[w].n
          BY <2>2, <4>2, Parts DEF Task
        <5>2. QED BY <4>1, <4>2, <5>1 DEF Handled, Done
      <4>3. QED BY <4>1, <4>2
    <3>2. /\ ns' = ns /\ UNCHANGED <<request, reported>>
          /\ \A b \in Actors \ {w} : task'[b] = task[b]
      BY <2>4, WatcherKnown
    <3>3. QED BY <3>1, <3>2, KeptKept DEF Justified
  <2>5. QED BY <2>1, <2>3, <2>4 DEF Run
<1>5. CASE \E p \in Pods : Refresh(p) \/ Scan(p) \/ Cleanup(p) \/ Restart(p)
  <2>1. PICK p \in Pods : Refresh(p) \/ Scan(p) \/ Cleanup(p) \/ Restart(p)
    BY <1>5
  <2>2. CASE Cleanup(p)
    BY <2>2, CleanupKept DEF Actors
  <2>3. CASE Scan(p)
    BY <2>3, ScanKnown, KeptKept DEF Justified
  <2>4. CASE Refresh(p) \/ Restart(p)
    BY <2>4, RestartKnown, KeptKept DEF Justified
  <2>5. QED BY <2>1, <2>2, <2>3, <2>4
<1>6. CASE UNCHANGED vars
  BY <1>6 DEF vars, calls, Kept, Handled, Done, Justified
<1>7. QED BY <1>1, <1>2, <1>3, <1>4, <1>5, <1>6 DEF Next

(* A watch record is removed only when its own promote has been reported:  *)
(* with any number of pods and watchers, any overlap of promotes, restart, *)
(* expiry or failed patch, as long as no release is promoted a second time *)
(* (the deferred calls of runReleasePromoteWatcher, the conditional patch  *)
(* of deleteReleasePromoteWatchAnnotationIfMatches).                       *)
THEOREM RecordsSurvive == "again" \notin Env => (Spec => RecordOutlivesReport)
<1> SUFFICES ASSUME "again" \notin Env PROVE Spec => RecordOutlivesReport
  OBVIOUS
<1> DEFINE Inv == TypeOK /\ Known /\ Once /\ Kept
<1>1. Init => Inv
  BY InitType, InitKnown, InitKept
<1>2. Inv /\ [Next]_vars => Inv'
  BY InvStep, OnceStep, KeptStep
<1>3. Inv /\ [Next]_vars
        => [ns.note # 0 /\ ns'.note = 0 => reported[ns.note] > 0]_vars
  BY InvStep, KeptStep DEF Justified
<1>4. QED BY <1>1, <1>2, <1>3, PTL DEF Spec, RecordOutlivesReport

-----------------------------------------------------------------------------
(* A promote that is reported as completed has run.                        *)

(* One promote at a time, each of a release of its own, none of which      *)
(* takes longer than its record is kept; and an app that was created just  *)
(* now has no mirror that could be old.                                    *)
Orderly ==
  /\ {"overlap", "again", "expiry"} \cap Env = {}
  /\ "created" \in Env => {"mirror", "informer"} \cap Env = {}

(* A new app's first version is that of its first promote.                 *)
AtomInv ==
  /\ atom.cur <= Len(promoted) /\ atom.prev <= Len(promoted)
  /\ atom.status = "moving" => atom.cur # 0
  /\ atom.status = "running" /\ atom.cur = 0 => Len(promoted) = 0

(* What a mirror shows, however old, was true of the atom at some time.    *)
Told(m) ==
  m.cur <= Len(promoted) /\ (m.status = "running" => m.cur \in ran)

MirrorInv ==
  /\ \A m \in patches : Told(m)
  /\ Told(ns) /\ \A p \in Pods : Told(view[p])
  /\ "mirror" \notin Env => /\ patches = {}
                            /\ ns.status = atom.status /\ ns.cur = atom.cur

(* The version a promote has read is its own, and it has read it before    *)
(* there is a record or a watcher of it.                                   *)
HasRead(n) == n = 0 \/ atomVersion[n] = n

ReadInv ==
  /\ \A n \in Promotes :
       /\ request[n].step = "status" => atom.status = "moving" /\ atom.cur = n
       /\ request[n].step \in {"note", "launch", "running"} => HasRead(n)
  /\ HasRead(ns.note) /\ \A p \in Pods : HasRead(view[p].note)
  /\ \A a \in Actors : HasRead(task[a].n)

Young == \A n \in Promotes : age[n] = "young"

(* Calls and watchers belong to a pod.                                     *)
Placed ==
  /\ \A n \in Promotes :
       request[n].step \in {"none", "returned"} \/ request[n].pod \in Pods
  /\ \A a \in Actors : task[a].step = "watch" => task[a].pod \in Pods

CompletedInv ==
  /\ AtomInv /\ MirrorInv /\ ReadInv /\ Young
  /\ CompletedHasRun

LEMMA InitCompleted == Init => CompletedInv
<1> SUFFICES ASSUME Init PROVE CompletedInv
  OBVIOUS
<1>1. /\ Len(promoted) = 0 /\ patches = {} /\ ran = {0}
      /\ atom.status = "running" /\ atom.cur = 0 /\ atom.prev = None
      /\ ns.status = "running" /\ ns.cur = 0 /\ ns.note = 0
      /\ \A p \in Pods : view[p] = ns
  BY EmptySeq DEF Init
<1>2. \A a \in Actors : task[a].n = 0 /\ task[a].result = "none"
  BY DEF Init, Off
<1>3. AtomInv BY <1>1 DEF AtomInv, None
<1>4. MirrorInv BY <1>1 DEF MirrorInv, Told
<1>5. ReadInv BY <1>1, <1>2 DEF ReadInv, HasRead, Init
<1>6. Young BY DEF Young, Init
<1>7. QED BY <1>2, <1>3, <1>4, <1>5, <1>6 DEF CompletedInv, CompletedHasRun

(* What has been read stays read, and only records and watchers of         *)
(* promotes that have read their version are made.                         *)
LEMMA ReadKept ==
  ASSUME TypeOK, ReadInv,
         \A n \in Promotes : atomVersion'[n] \in {atomVersion[n], n},
         \A n \in Promotes :
           \/ request'[n].step = "status"
              /\ atom'.status = "moving" /\ atom'.cur = n
           \/ request'[n].step \in {"none", "returned"}
           \/ request'[n].step \in {"note", "launch", "running"}
              /\ HasRead(n)',
         HasRead(ns.note)',
         \A p \in Pods : view'[p].note \in {view[p].note, ns.note},
         \A a \in Actors : task'[a].n \in {0, task[a].n} \/ HasRead(task[a].n)'
  PROVE  ReadInv'
<1>1. ASSUME NEW n \in Version, HasRead(n) PROVE HasRead(n)'
  BY <1>1, Bounds DEF HasRead, Version, Promotes
<1>2. /\ ns.note \in Version /\ \A p \in Pods : view[p].note \in Version
      /\ \A a \in Actors : task[a].n \in Version
  BY DEF TypeOK, Task
<1>3. ASSUME NEW p \in Pods PROVE HasRead(view[p].note)'
  BY <1>1, <1>2 DEF ReadInv, HasRead
<1>4. ASSUME NEW a \in Actors PROVE HasRead(task[a].n)'
  BY <1>1, <1>2 DEF ReadInv, HasRead
<1>5. ASSUME NEW n \in Promotes
      PROVE  /\ request'[n].step = "status"
                  => atom'.status = "moving" /\ atom'.cur = n
             /\ request'[n].step \in {"note", "launch", "running"}
                  => HasRead(n)'
  OBVIOUS
<1>6. QED BY <1>3, <1>4, <1>5 DEF ReadInv

(* While the rollout rests, so do the mirrors, but for the informers.      *)
LEMMA MirrorRests ==
  ASSUME AtomInv, MirrorInv, UNCHANGED rollout,
         ns'.status = ns.status, ns'.cur = ns.cur,
         \A p \in Pods : view'[p] = view[p] \/ view'[p] = ns
  PROVE  AtomInv' /\ MirrorInv'
<1>1. AtomInv' BY DEF AtomInv, rollout
<1>2. \A p \in Pods : Told(view[p])'
  BY DEF MirrorInv, Told, rollout
<1>3. QED BY <1>1, <1>2 DEF MirrorInv, Told, rollout

(* A task that has not been told of a completion now has nothing to show.  *)
LEMMA CompletedKept ==
  ASSUME CompletedHasRun, ran \subseteq ran',
         \A a \in Actors :
           \/ task'[a] = task[a]
           \/ task'[a].result = "completed" => task'[a].n \in ran'
  PROVE  CompletedHasRun'
BY DEF CompletedHasRun

LEMMA RolloutMirror ==
  ASSUME TypeOK, MirrorInv, NEW new \in Atoms, Rollout(new),
         new.cur <= Len(promoted'), Len(promoted) <= Len(promoted'),
         Len(promoted') \in Nat, view' = view
  PROVE  MirrorInv' /\ ran \subseteq ran'
<1> DEFINE m == [status |-> new.status, cur |-> new.cur]
<1>1. ran \subseteq ran' /\ (new.status = "running" => new.cur \in ran')
  BY DEF Rollout
<1>2. ASSUME NEW x, x.cur \in Version, Told(x)
      PROVE  x.cur <= Len(promoted') /\ (x.status = "running" => x.cur \in ran')
  <2>1. Len(promoted) \in Nat /\ x.cur \in Int
    BY <1>2, VersionType, LenProperties DEF TypeOK
  <2>2. QED BY <1>1, <1>2, <2>1 DEF Told
<1>3. /\ ns.cur \in Version /\ \A p \in Pods : view[p].cur \in Version
      /\ \A x \in patches : x.cur \in Version
  BY DEF TypeOK, Mirrored
<1>4. \A p \in Pods : Told(view[p])'
  BY <1>2, <1>3 DEF MirrorInv, Told
<1>5. m.status = new.status /\ m.cur = new.cur
  OBVIOUS
<1>6. CASE "mirror" \in Env
  <2>1. patches' = patches \cup {m} /\ ns' = ns
    BY <1>6 DEF Rollout
  <2> HIDE DEF m
  <2>2. \A x \in patches' : x.cur <= Len(promoted')
                            /\ (x.status = "running" => x.cur \in ran')
    BY <1>1, <1>2, <1>3, <1>5, <2>1 DEF MirrorInv
  <2>3. Told(ns)' BY <1>2, <1>3, <2>1 DEF MirrorInv, Told
  <2>4. QED BY <1>1, <1>4, <1>6, <2>2, <2>3 DEF MirrorInv, Told
<1>7. CASE "mirror" \notin Env
  <2>1. patches' = patches
        /\ ns' = [ns EXCEPT !.status = m.status, !.cur = m.cur]
    BY <1>7 DEF Rollout
  <2>2. ns'.status = new.status /\ ns'.cur = new.cur
    BY <2>1, Parts DEF Namespaces
  <2>3. Told(ns)' BY <1>1, <2>2 DEF Told
  <2>4. atom' = new BY DEF Rollout
  <2>5. QED BY <1>1, <1>4, <1>7, <2>1, <2>2, <2>3, <2>4 DEF MirrorInv
<1>8. QED BY <1>6, <1>7

LEMMA RolloutCompleted ==
  ASSUME TypeOK, Known, CompletedInv, Orderly,
         RolloutEnds \/ RolloutRollsBack \/ RolloutFails
  PROVE  CompletedInv'
<1>1. /\ UNCHANGED <<promoted, view, request, atomVersion, age, task>>
      /\ ns'.note = ns.note
  <2>1. ASSUME NEW new, Rollout(new) PROVE ns'.note = ns.note
    BY <2>1, Parts DEF Rollout, Namespaces
  <2>2. QED
    BY <2>1 DEF RolloutEnds, RolloutRollsBack, RolloutFails, calls
<1>2. \A n \in Promotes : request[n].step # "status"
  BY DEF Orderly, RolloutEnds, RolloutRollsBack, RolloutFails, CompletedInv,
         ReadInv
<1>3. Len(promoted) \in Nat /\ atom \in Atoms
  BY LenProperties DEF TypeOK, Atoms
<1>4. PICK new \in Atoms :
        /\ Rollout(new) /\ new.status # "moving"
        /\ new.cur \in {atom.cur, atom.prev} /\ new.prev \in {atom.prev, None}
        /\ new.status = "running" => new.cur = atom.cur /\ atom.cur # 0
  <2>1. CASE RolloutEnds
    <3>1. PICK s \in {"running", "failing"} :
            Rollout([atom EXCEPT !.status = s])
      BY <2>1 DEF RolloutEnds
    <3> DEFINE new == [atom EXCEPT !.status = s]
    <3>2. /\ new \in Atoms /\ new.status = s /\ new.cur = atom.cur
          /\ new.prev = atom.prev
      BY <1>3 DEF Atoms, Class
    <3>3. atom.cur # 0 BY <2>1 DEF RolloutEnds, CompletedInv, AtomInv
    <3> HIDE DEF new
    <3>4. QED BY <3>1, <3>2, <3>3 DEF new
  <2>2. CASE RolloutRollsBack
    <3> DEFINE new == [atom EXCEPT !.cur = atom.prev, !.prev = None]
    <3>1. Rollout(new) /\ atom.status = "failing" /\ atom.prev # None
      BY <2>2 DEF RolloutRollsBack
    <3>2. /\ new \in Atoms /\ new.status = atom.status /\ new.cur = atom.prev
          /\ new.prev = None
      BY <1>3, <3>1 DEF Atoms
    <3> HIDE DEF new
    <3>3. QED BY <3>1, <3>2
  <2>3. CASE RolloutFails
    <3> DEFINE new == [atom EXCEPT !.status = "failed"]
    <3>1. /\ new \in Atoms /\ new.status = "failed" /\ new.cur = atom.cur
          /\ new.prev = atom.prev
      BY <1>3 DEF Atoms, Class
    <3>2. Rollout(new) BY <2>3 DEF RolloutFails
    <3> HIDE DEF new
    <3>3. QED BY <3>1, <3>2
  <2>4. QED BY <2>1, <2>2, <2>3
<1>5. /\ new.cur <= Len(promoted) /\ new.prev <= Len(promoted)
      /\ atom' = new
  BY <1>3, <1>4 DEF CompletedInv, AtomInv, Rollout, None
<1>6. AtomInv'
  BY <1>1, <1>4, <1>5 DEF AtomInv
<1>7. MirrorInv' /\ ran \subseteq ran'
  BY <1>1, <1>3, <1>4, <1>5, RolloutMirror DEF CompletedInv
<1>8. ReadInv'
  BY <1>1, <1>2 DEF CompletedInv, ReadInv, HasRead
<1>9. Young' /\ CompletedHasRun'
  BY <1>1, <1>7 DEF CompletedInv, Young, CompletedHasRun
<1>10. QED BY <1>6, <1>7, <1>8, <1>9 DEF CompletedInv

LEMMA UpdateCompleted ==
  ASSUME TypeOK, CompletedInv, UpdateNamespace
  PROVE  CompletedInv'
<1>1. PICK m \in patches :
        /\ ns' = [ns EXCEPT !.status = m.status, !.cur = m.cur] \/ ns' = ns
        /\ patches' \subseteq patches
  BY DEF UpdateNamespace
<1>2. UNCHANGED <<promoted, atom, ran, view, request, atomVersion, age, task>>
  BY DEF UpdateNamespace, calls
<1>3. /\ ns'.note = ns.note
      /\ \/ ns'.status = m.status /\ ns'.cur = m.cur
         \/ ns' = ns
  BY <1>1, Parts DEF Namespaces
<1>4. MirrorInv'
  BY <1>1, <1>2, <1>3 DEF CompletedInv, MirrorInv, Told
<1>5. ReadInv'
  BY <1>2, <1>3 DEF CompletedInv, ReadInv, HasRead
<1>6. QED
  BY <1>2, <1>4, <1>5 DEF CompletedInv, AtomInv, Young, CompletedHasRun

LEMMA PromoteCompleted ==
  ASSUME TypeOK, Known, CompletedInv, Orderly,
         NEW p \in Pods, NEW r \in Releases, Promote(p, r)
  PROVE  CompletedInv'
<1> DEFINE k == Len(promoted) + 1
           new == [status |-> "moving", cur |-> k, prev |-> atom.cur]
<1>1. /\ k \in Promotes /\ k # 0 /\ Len(promoted) \in Nat
      /\ Len(promoted') = k
  BY Bounds, LenProperties, PromoteKnown DEF TypeOK, Promote, Promotes
<1>2. new \in Atoms /\ atom \in Atoms
  BY <1>1, VersionType DEF TypeOK, Atoms, Class
<1>3. /\ new.status = "moving" /\ new.cur = k /\ new.prev = atom.cur
      /\ Rollout(new)
  BY DEF Promote
<1> HIDE DEF new
<1>4. /\ UNCHANGED <<view, atomVersion, age, task>> /\ ns'.note = ns.note
      /\ request' = [request EXCEPT ![k] = [step |-> "status", pod |-> p]]
  BY PromoteKnown DEF Promote
<1>5. \A n \in Promotes : request[n].step \in {"none", "returned"}
  BY DEF Promote, Admitted, Orderly
<1>6. atom' = new BY <1>3 DEF Rollout
<1>7. MirrorInv' /\ ran \subseteq ran'
  <2>1. new.cur <= Len(promoted') /\ Len(promoted) <= Len(promoted')
        /\ Len(promoted') \in Nat /\ view' = view
    BY <1>1, <1>3, <1>4
  <2>2. QED BY <1>2, <1>3, <2>1, RolloutMirror DEF CompletedInv
<1>8. AtomInv'
  <2>1. atom.cur \in Int /\ atom.cur <= Len(promoted)
    BY <1>2, VersionType DEF CompletedInv, AtomInv, Atoms
  <2>2. QED BY <1>1, <1>3, <1>6, <2>1 DEF AtomInv
<1>9. ReadInv'
  <2>1. ASSUME NEW n \in Promotes
        PROVE  \/ n = k /\ request'[n].step = "status"
               \/ n # k /\ request'[n].step \in {"none", "returned"}
    BY <1>4, <1>5 DEF TypeOK
  <2>2. QED
    BY <1>3, <1>4, <1>6, <2>1 DEF CompletedInv, ReadInv, HasRead
<1>10. Young' /\ CompletedHasRun'
  BY <1>4, <1>7 DEF CompletedInv, Young, CompletedHasRun
<1>11. QED BY <1>7, <1>8, <1>9, <1>10 DEF CompletedInv

LEMMA WatchCompleted ==
  ASSUME TypeOK, CompletedHasRun, NEW p \in Pods \cup {None},
         NEW n \in Promotes, NEW b \in BOOLEAN, Watch(p, n, b)
  PROVE  \A a \in Actors :
           \/ task'[a] = task[a]
           \/ task'[a].n = n /\ task'[a].result = "none"
<1>1. PICK w \in Watchers : task' = [task EXCEPT ![w] = Started(p, n, b)]
  BY DEF Watch
<1>2. Started(p, n, b).n = n /\ Started(p, n, b).result = "none"
  BY DEF Started, Off
<1>3. QED BY <1>1, <1>2 DEF TypeOK

LEMMA CallsCompleted ==
  ASSUME TypeOK, Known, CompletedInv, Orderly,
         NEW n \in Promotes, Call(n) \/ Age(n)
  PROVE  CompletedInv'
<1>1. UNCHANGED <<rollout, view, age>>
  BY DEF Call, ReadStatus, WriteRecord, Launch, Return, Age, Orderly
<1>2. ns' = ns \/ (WriteRecord(n) /\ ns' = [ns EXCEPT !.note = n])
  BY DEF Call, ReadStatus, WriteRecord, Launch, Return, Age, Attempt
<1>3. ns'.status = ns.status /\ ns'.cur = ns.cur
  BY <1>2, Parts DEF Namespaces
<1>4. AtomInv' /\ MirrorInv'
  BY <1>1, <1>3, MirrorRests DEF CompletedInv
<1>5. n # 0 BY VersionType
<1>6. CASE ReadStatus(n)
  <2>1. atom.cur = n BY <1>6 DEF ReadStatus, CompletedInv, ReadInv
  <2>2. atomVersion' = [atomVersion EXCEPT ![n] = n]
        /\ request' = [request EXCEPT ![n].step = "note"]
    BY <1>6, <2>1 DEF ReadStatus
  <2>3. atomVersion'[n] = n /\ request'[n].step = "note"
        /\ \A m \in Promotes \ {n} : /\ atomVersion'[m] = atomVersion[m]
                                     /\ request'[m] = request[m]
    BY <2>2 DEF TypeOK
  <2>4. UNCHANGED <<ns, task>> BY <1>6 DEF ReadStatus
  <2>5. ReadInv'
    <3>1. \A m \in Promotes : atomVersion'[m] \in {atomVersion[m], m}
      BY <2>3
    <3>2. HasRead(ns.note)'
      BY <2>3, <2>4, Bounds DEF CompletedInv, ReadInv, HasRead, TypeOK, Version,
         Promotes
    <3>3. ASSUME NEW m \in Promotes
          PROVE  \/ request'[m].step = "status"
                    /\ atom'.status = "moving" /\ atom'.cur = m
                 \/ request'[m].step \in {"none", "returned"}
                 \/ request'[m].step \in {"note", "launch", "running"}
                    /\ HasRead(m)'
      <4>1. request[m].step \in {"none", "status", "note", "launch",
                                 "running", "returned"}
        BY DEF TypeOK
      <4>2. CASE m = n BY <2>3, <4>2 DEF HasRead
      <4>3. CASE m # n
        <5>1. atomVersion'[m] = atomVersion[m] /\ request'[m] = request[m]
          BY <2>3, <4>3
        <5>2. atom' = atom BY <1>1 DEF rollout
        <5>3. QED
          BY <4>1, <5>1, <5>2 DEF CompletedInv, ReadInv, HasRead
      <4>4. QED BY <4>2, <4>3
    <3>4. QED BY <1>1, <2>4, <3>1, <3>2, <3>3, ReadKept DEF CompletedInv
  <2>6. QED
    BY <1>1, <1>4, <2>4, <2>5 DEF CompletedInv, Young, CompletedHasRun, rollout
<1>7. CASE WriteRecord(n) \/ Launch(n) \/ Return(n) \/ Age(n)
  <2>1. atomVersion' = atomVersion
    BY <1>7 DEF WriteRecord, Launch, Return, Age, calls
  <2>2. \A m \in Promotes :
          \/ request'[m] = request[m]
          \/ m = n /\ request[n].step \in {"note", "launch", "running"}
             /\ request'[n].step \in {"launch", "running", "returned"}
    <3>1. ASSUME NEW m \in Promotes, NEW s,
                 request' = [request EXCEPT ![n].step = s]
          PROVE  \/ m # n /\ request'[m] = request[m]
                 \/ m = n /\ request'[n].step = s
      BY <3>1 DEF TypeOK
    <3>2. CASE WriteRecord(n) BY <3>1, <3>2 DEF WriteRecord
    <3>3. CASE Launch(n) BY <3>1, <3>3 DEF Launch
    <3>4. CASE Return(n) BY <3>4 DEF Return, Returned, TypeOK
    <3>5. CASE Age(n) BY <3>5 DEF Age, calls
    <3>6. QED BY <1>7, <3>2, <3>3, <3>4, <3>5
  <2>3. \A a \in Actors :
          \/ task'[a] = task[a]
          \/ Launch(n) /\ task'[a].n = n /\ task'[a].result = "none"
    <3>1. CASE Launch(n)
      <4>1. request[n].pod \in Pods \cup {None} BY DEF TypeOK
      <4>2. QED
        BY <3>1, <4>1, WatchCompleted DEF Launch, CompletedInv
    <3>2. CASE ~Launch(n)
      BY <1>7, <3>2 DEF WriteRecord, Return, Age
    <3>3. QED BY <3>1, <3>2
  <2>4. (WriteRecord(n) \/ Launch(n)) => HasRead(n)
    BY DEF WriteRecord, Launch, CompletedInv, ReadInv
  <2>5. ns'.note = ns.note \/ (WriteRecord(n) /\ ns'.note = n)
    BY <1>2, Parts DEF Namespaces
  <2>6. ReadInv'
    BY <1>1, <2>1, <2>2, <2>3, <2>4, <2>5 DEF CompletedInv, ReadInv, HasRead,
       rollout
  <2>7. CompletedHasRun'
    BY <1>1, <2>3, CompletedKept DEF CompletedInv, rollout
  <2>8. QED BY <1>1, <1>4, <2>6, <2>7 DEF CompletedInv, Young
<1>8. QED BY <1>6, <1>7 DEF Call

(* The verdict of a poll: the version whose end it sees is the one its     *)
(* promote has read, hence its own.                                        *)
LEMMA VerdictRan ==
  ASSUME TypeOK, Known, Once, CompletedInv, Orderly, NEW p \in Pods,
         NEW n \in 1..Len(promoted), HasRead(n),
         Verdict(n, Seen(p)) = "completed"
  PROVE  n \in ran
<1> DEFINE v == Seen(p)
<1>1. /\ v.cur \in Version /\ v.cur <= Len(promoted)
      /\ v.status = "running" => v.cur \in ran
  BY SeenType DEF Seen, CompletedInv, MirrorInv, Told
<1>2. ~Superseded(n, v) /\ v.status = "running"
  BY DEF Verdict, Outcome
<1>3. Len(promoted) \in Nat /\ n \in Int /\ n # 0 BY LenProperties DEF TypeOK
<1>4. atomVersion[n] = n BY <1>3 DEF HasRead
<1>5. CASE Empty(v.cur)
  <2>1. v = ns /\ ns.status = atom.status /\ ns.cur = atom.cur
    BY <1>5 DEF Empty, Orderly, Seen, CompletedInv, MirrorInv
  <2>2. Len(promoted) = 0
    BY <1>2, <1>5, <2>1 DEF Empty, CompletedInv, AtomInv
  <2>3. QED BY <1>3, <2>2
<1>6. CASE SameRelease(v.cur, n)
  <2>1. v.cur # 0 => v.cur \in 1..Len(promoted)
    BY <1>1, <1>3, Bounds DEF Version
  <2>2. v.cur = n BY <1>3, <1>6, <2>1 DEF SameRelease, Once
  <2>3. QED BY <1>1, <1>2, <2>2
<1>7. QED BY <1>2, <1>4, <1>5, <1>6 DEF Superseded

LEMMA RanWhenDecided ==
  ASSUME TypeOK, Known, Once, Placed, CompletedInv, Orderly,
         NEW w \in Watchers, task[w].step = "watch",
         Verdict(task[w].n, Seen(task[w].pod)) = "completed"
  PROVE  task[w].n \in ran
<1>1. w \in Actors BY DEF Actors
<1>2. task[w].n \in Version /\ task[w].n # 0 /\ task[w].n <= Len(promoted)
  BY <1>1, Parts DEF Known, Task
<1>3. task[w].n \in 1..Len(promoted)
  BY <1>2, Bounds, LenProperties DEF Version, TypeOK
<1>4. HasRead(task[w].n) BY <1>1 DEF CompletedInv, ReadInv
<1>5. task[w].pod \in Pods BY <1>1 DEF Placed
<1>6. QED BY <1>3, <1>4, <1>5, VerdictRan

LEMMA ActorCompleted ==
  ASSUME TypeOK, Known, CompletedInv, UNCHANGED <<rollout, view, calls, age>>,
         ns'.status = ns.status, ns'.cur = ns.cur, ns'.note \in {0, ns.note},
         NEW a \in Actors, \A b \in Actors \ {a} : task'[b] = task[b],
         task'[a].n \in {0, task[a].n},
         task'[a].result = "completed" => task'[a].n \in ran
  PROVE  CompletedInv'
<1>1. AtomInv' /\ MirrorInv'
  BY MirrorRests DEF CompletedInv
<1>2. ReadInv'
  BY DEF CompletedInv, ReadInv, HasRead, calls, rollout
<1>3. QED
  BY <1>1, <1>2 DEF CompletedInv, Young, CompletedHasRun, rollout

LEMMA RunCompleted ==
  ASSUME TypeOK, Known, Once, Placed, CompletedInv, Orderly, NEW a \in Actors,
         (a \in Watchers /\ Run(a)) \/ Cleanup(a)
  PROVE  CompletedInv'
<1>1. UNCHANGED <<rollout, view, calls, age>>
      /\ \A b \in Actors \ {a} : task'[b] = task[b]
  BY DEF Run, Poll, Abort, Cleanup, Emit, GetRecord, RemoveRecord, Release,
         Resume, TypeOK
<1>2. ns'.status = ns.status /\ ns'.cur = ns.cur /\ ns'.note \in {0, ns.note}
  BY Parts DEF Run, Poll, Abort, Cleanup, Emit, GetRecord, RemoveRecord,
     Release, Attempt, Namespaces
<1>3. /\ task'[a].n \in {0, task[a].n}
      /\ task'[a].result = "completed" => task'[a].n \in ran
  <2>1. task[a] \in Task
    BY Parts
  <2>2. task[a].result = "completed" => task[a].n \in ran
    BY DEF CompletedInv, CompletedHasRun
  <2>3. Off.n = 0 /\ Off.result = "none" BY DEF Off
  <2>4. \/ AfterCleanup(a).n = 0 /\ AfterCleanup(a).result = "none"
        \/ /\ AfterCleanup(a).n = task[a].n
           /\ AfterCleanup(a).result = task[a].result
    <3>1. CASE a \in Pods BY <2>3, <3>1 DEF AfterCleanup
    <3>2. CASE a \notin Pods BY <2>1, <3>2 DEF AfterCleanup, Task
    <3>3. QED BY <3>1, <3>2
  <2>5. CASE a \in Watchers /\ Poll(a)
    <3>1. PICK r : /\ r = Verdict(task[a].n, Seen(task[a].pod))
                   /\ task'[a] = [task[a] EXCEPT !.step = "emit", !.result = r]
      BY <2>5 DEF Poll, Resume, TypeOK
    <3>2. task'[a].n = task[a].n /\ task'[a].result = r
      BY <2>1, <3>1 DEF Task
    <3>3. QED BY <2>5, <3>1, <3>2, RanWhenDecided DEF Poll
  <2>6. CASE Emit(a)
    <3>1. task'[a] = [task[a] EXCEPT !.step = "get", !.result = "none"]
      BY <2>6 DEF Emit, Resume, TypeOK
    <3>2. QED BY <2>1, <3>1 DEF Task
  <2>7. CASE a \in Watchers /\ Abort(a)
    <3>1. task'[a] = [task[a] EXCEPT !.step = "get"]
      BY <2>7 DEF Abort, Resume, TypeOK
    <3>2. QED BY <2>1, <2>2, <3>1 DEF Task
  <2>8. CASE GetRecord(a) \/ RemoveRecord(a)
    <3>1. \/ task'[a] = [task[a] EXCEPT !.step = "patch", !.raw = ns.note]
          \/ task'[a] = AfterCleanup(a)
      BY <2>8 DEF GetRecord, RemoveRecord, Resume, TypeOK
    <3>2. CASE task'[a] = [task[a] EXCEPT !.step = "patch", !.raw = ns.note]
      BY <2>1, <2>2, <3>2 DEF Task
    <3>3. CASE task'[a] = AfterCleanup(a) BY <2>2, <2>4, <3>3
    <3>4. QED BY <3>1, <3>2, <3>3
  <2>9. CASE a \in Watchers /\ Release(a)
    <3>1. \/ task'[a] = [task[a] EXCEPT !.step = "exit"]
          \/ task'[a] = Off
      BY <2>9 DEF Release, Resume, TypeOK
    <3>2. QED BY <2>1, <2>2, <2>3, <3>1 DEF Task
  <2>10. QED BY <2>5, <2>6, <2>7, <2>8, <2>9 DEF Run, Cleanup
<1>4. QED BY <1>1, <1>2, <1>3, ActorCompleted

LEMMA PodCompleted ==
  ASSUME TypeOK, Known, CompletedInv, Orderly, NEW p \in Pods,
         Refresh(p) \/ Scan(p) \/ Restart(p)
  PROVE  CompletedInv'
<1>1. CASE Refresh(p) \/ Restart(p)
  <2>1. /\ UNCHANGED <<rollout, ns, atomVersion, age>>
        /\ \A q \in Pods : view'[q] = view[q] \/ view'[q] = ns
    BY <1>1 DEF Refresh, Restart, TypeOK, calls
  <2>2. \A n \in Promotes :
          request'[n] = request[n] \/ request'[n].step = "returned"
    BY <1>1 DEF Refresh, Restart, Returned, calls
  <2>3. \A a \in Actors :
          \/ task'[a] = task[a]
          \/ task'[a].n = 0 /\ task'[a].result = "none"
    BY <1>1 DEF Refresh, Restart, Off
  <2>4. AtomInv' /\ MirrorInv'
    BY <2>1, MirrorRests DEF CompletedInv
  <2>5. ReadInv'
    BY <2>1, <2>2, <2>3 DEF CompletedInv, ReadInv, HasRead, rollout
  <2>6. CompletedHasRun'
    BY <2>1, <2>3, CompletedKept DEF CompletedInv, rollout
  <2>7. QED BY <2>1, <2>4, <2>5, <2>6 DEF CompletedInv, Young
<1>2. CASE Scan(p)
  <2> DEFINE n == Seen(p).note
             r == ClosedByScan(n, Seen(p))
  <2>1. UNCHANGED <<rollout, ns, view, calls, age>>
    BY <1>2 DEF Scan
  <2>2. n \in Promotes
    BY <1>2, Bounds, SeenType DEF Scan, Version, Promotes
  <2>3. HasRead(n) BY DEF Seen, CompletedInv, ReadInv
  <2>4. r # "completed"
    BY <2>2 DEF CompletedInv, Young, ClosedByScan
  <2>5. \A a \in Actors :
          \/ task'[a] = task[a]
          \/ task'[a].n = n /\ task'[a].result # "completed"
    <3>1. CASE task' = [task EXCEPT ![p] = Closing(p, n, r)]
      <4>1. Closing(p, n, r).n = n /\ Closing(p, n, r).result = r
        BY DEF Closing, Off
      <4> HIDE DEF n, r
      <4>2. QED BY <2>4, <3>1, <4>1 DEF TypeOK
    <3>2. CASE Watch(p, n, FALSE)
      BY <2>2, <3>2, WatchCompleted DEF CompletedInv
    <3>3. QED BY <1>2, <3>1, <3>2 DEF Scan
  <2> HIDE DEF n, r
  <2>6. AtomInv' /\ MirrorInv'
    BY <2>1, MirrorRests DEF CompletedInv
  <2>7. ReadInv'
    BY <2>1, <2>3, <2>5 DEF CompletedInv, ReadInv, HasRead, calls, rollout
  <2>8. CompletedHasRun'
    BY <2>1, <2>5, CompletedKept DEF CompletedInv, rollout
  <2>9. QED BY <2>1, <2>6, <2>7, <2>8 DEF CompletedInv, Young
<1>3. QED BY <1>1, <1>2

LEMMA InitPlaced == Init => Placed
BY DEF Init, Placed, Off

LEMMA PlacedStep == ASSUME TypeOK, Placed, [Next]_vars PROVE Placed'
<1>1. ASSUME NEW n \in Promotes
      PROVE  request'[n].step \in {"none", "returned"} \/ request'[n].pod \in Pods
  <2>1. \/ request'[n] = request[n]
        \/ request'[n].step = "returned"
        \/ request'[n].pod \in Pods
        \/ request[n].step \notin {"none", "returned"}
           /\ request'[n].pod = request[n].pod
    <3>1. CASE \E m \in Promotes : Call(m)
      <4>1. PICK m \in Promotes : Call(m) BY <3>1
      <4>2. /\ request[m].step \notin {"none", "returned"}
            /\ \/ \E s : request' = [request EXCEPT ![m].step = s]
               \/ request' = [request EXCEPT ![m] = Returned]
        BY <4>1 DEF Call, ReadStatus, WriteRecord, Launch, Return
      <4>3. ASSUME NEW s, request' = [request EXCEPT ![m].step = s]
            PROVE  \/ request'[n] = request[n]
                   \/ n = m /\ request'[n].pod = request[n].pod
        BY <4>3 DEF TypeOK
      <4>4. CASE request' = [request EXCEPT ![m] = Returned]
        BY <4>4 DEF Returned, TypeOK
      <4>5. QED BY <4>2, <4>3, <4>4
    <3>2. CASE \E p \in Pods : \E r \in Releases : Promote(p, r)
      BY <3>2 DEF Promote, TypeOK
    <3>3. CASE \E p \in Pods : Restart(p)
      BY <3>3 DEF Restart, Returned
    <3>4. CASE UNCHANGED request BY <3>4
    <3>5. QED
      BY <3>1, <3>2, <3>3, <3>4 DEF Next, RolloutEnds, RolloutRollsBack,
         RolloutFails, UpdateNamespace, Age, Run, Poll, Abort, Cleanup, Emit,
         GetRecord, RemoveRecord, Release, Refresh, Scan, Resume, calls, vars
  <2>2. QED BY <2>1 DEF Placed
<1>2. ASSUME NEW a \in Actors
      PROVE  task'[a].step = "watch" => task'[a].pod \in Pods
  <2> SUFFICES ASSUME task'[a].step = "watch" PROVE task'[a].pod \in Pods
    OBVIOUS
  <2>1. ASSUME NEW p \in Pods, NEW n, NEW b, Watch(p, n, b)
        PROVE  task'[a] = task[a] \/ task'[a].pod \in Pods
    <3>1. PICK w \in Watchers : task' = [task EXCEPT ![w] = Started(p, n, b)]
      BY <2>1 DEF Watch
    <3>2. Started(p, n, b).pod = p BY DEF Started, Off
    <3>3. QED BY <2>1, <3>1, <3>2 DEF TypeOK
  <2>2. CASE \E n \in Promotes : Launch(n)
    <3>1. PICK n \in Promotes : Launch(n) BY <2>2
    <3>2. CASE SlotFree(request[n].pod, n)
      <4>1. request[n].pod \in Pods BY <3>1 DEF Launch, Placed
      <4>2. Watch(request[n].pod, n, TRUE) BY <3>1, <3>2 DEF Launch
      <4>3. QED BY <2>1, <4>1, <4>2 DEF Placed
    <3>3. CASE ~SlotFree(request[n].pod, n)
      BY <3>1, <3>3 DEF Launch, Placed
    <3>4. QED BY <3>2, <3>3
  <2>3. CASE \E p \in Pods : Scan(p)
    <3>1. PICK p \in Pods : Scan(p) BY <2>3
    <3>2. ASSUME NEW n, NEW r, task' = [task EXCEPT ![p] = Closing(p, n, r)]
          PROVE  task'[a] = task[a] \/ task'[a].step = "emit"
      <4>1. Closing(p, n, r).step = "emit" BY DEF Closing, Off
      <4>2. QED BY <3>2, <4>1 DEF TypeOK
    <3>3. QED BY <2>1, <3>1, <3>2 DEF Scan, Placed
  <2>4. ASSUME NEW c \in Actors, (c \in Watchers /\ Run(c)) \/ Cleanup(c)
        PROVE  task'[a] = task[a]
    <3>1. \A b \in Actors \ {c} : task'[b] = task[b]
      BY <2>4 DEF Run, Poll, Abort, Cleanup, Emit, GetRecord, RemoveRecord,
         Release, Resume, TypeOK
    <3>2. task'[c].step # "watch"
      <4>0. task[c] \in Task BY Parts
      <4>1. CASE c \in Watchers /\ (Poll(c) \/ Abort(c) \/ Release(c))
        <5>1. CASE Poll(c)
          BY <4>0, <5>1 DEF Poll, Resume, Task, TypeOK
        <5>2. CASE Abort(c)
          BY <4>0, <5>2 DEF Abort, Resume, Task, TypeOK
        <5>3. CASE Release(c)
          BY <4>0, <5>3 DEF Release, Resume, Off, Task, TypeOK
        <5>4. QED BY <4>1, <5>1, <5>2, <5>3
      <4>2. CASE Emit(c)
        BY <4>2, Parts DEF Emit, Resume, Task, TypeOK
      <4>3. CASE GetRecord(c)
        BY <4>3, Parts, AfterCleanupShape DEF GetRecord, Resume, Task, TypeOK
      <4>4. CASE RemoveRecord(c)
        BY <4>4, AfterCleanupShape DEF RemoveRecord, Resume, TypeOK
      <4>5. QED BY <2>4, <4>1, <4>2, <4>3, <4>4 DEF Run, Cleanup
    <3>3. QED BY <3>1, <3>2
  <2>5. CASE \E p \in Pods : Restart(p)
    BY <2>5 DEF Restart, Off, Placed
  <2>6. CASE UNCHANGED task BY <2>6 DEF Placed
  <2>7. QED
    BY <2>2, <2>3, <2>4, <2>5, <2>6 DEF Next, RolloutEnds, RolloutRollsBack,
       RolloutFails, UpdateNamespace, Promote, Call, ReadStatus, WriteRecord,
       Return, Age, Refresh, Actors, Placed, vars
<1>3. QED BY <1>1, <1>2 DEF Placed

LEMMA CompletedStep ==
  ASSUME TypeOK, Known, Once, Placed, CompletedInv, Orderly, [Next]_vars
  PROVE  CompletedInv'
<1>1. CASE RolloutEnds \/ RolloutRollsBack \/ RolloutFails
  BY <1>1, RolloutCompleted
<1>2. CASE UpdateNamespace BY <1>2, UpdateCompleted
<1>3. CASE \E p \in Pods : \E r \in Releases : Promote(p, r)
  BY <1>3, PromoteCompleted
<1>4. CASE \E n \in Promotes : Call(n) \/ Age(n)
  BY <1>4, CallsCompleted
<1>5. CASE \E w \in Watchers : Run(w)
  BY <1>5, RunCompleted DEF Actors
<1>6. CASE \E p \in Pods : Refresh(p) \/ Scan(p) \/ Cleanup(p) \/ Restart(p)
  BY <1>6, PodCompleted, RunCompleted DEF Actors
<1>7. CASE UNCHANGED vars
  BY <1>7 DEF vars, rollout, calls, CompletedInv, AtomInv, MirrorInv, Told,
     ReadInv, HasRead, Young, CompletedHasRun
<1>8. QED BY <1>1, <1>2, <1>3, <1>4, <1>5, <1>6, <1>7 DEF Next

(* A promote is reported as completed only if its version did run: however *)
(* late, repeated or out of order the mirror and the informers are, and    *)
(* whatever restarts, as long as the promotes are Orderly (the poll of     *)
(* runReleasePromoteWatcher and the scan).                                 *)
THEOREM CompletedRan == Orderly => (Spec => []CompletedHasRun)
<1> SUFFICES ASSUME Orderly PROVE Spec => []CompletedHasRun
  OBVIOUS
<1> DEFINE Inv == TypeOK /\ Known /\ Once /\ Placed /\ CompletedInv
<1>1. Init => Inv
  BY InitType, InitKnown, InitKept, InitPlaced, InitCompleted
<1>2. Inv /\ [Next]_vars => Inv'
  BY InvStep, OnceStep, PlacedStep, CompletedStep DEF Orderly
<1>3. Inv => CompletedHasRun
  BY DEF CompletedInv
<1>4. QED BY <1>1, <1>2, <1>3, PTL DEF Spec
=============================================================================
