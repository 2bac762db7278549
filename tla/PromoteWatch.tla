---------------------------- MODULE PromoteWatch ----------------------------
(***************************************************************************)
(* How the outcome of a promote is reported (provider/k8s/release.go and   *)
(* release_watcher.go).  ReleasePromote hands the release to the atom,     *)
(* persists a watch record as an annotation of the app's namespace and     *)
(* starts a watcher, which polls the mirror of the atom's status in the    *)
(* same namespace, sends one terminal event and removes the record.  In    *)
(* every api pod a garbage collector scans the records: it closes expired  *)
(* and superseded ones itself and starts a watcher for the others.         *)
(*                                                                         *)
(* The atom is reduced to what the mirror shows of it, a class of its      *)
(* status and its current version (module Atom has it in full).  Version n *)
(* is that of the n-th promote; version 0 is the one the app ran before,   *)
(* whose release is empty when the app has just been created.              *)
(***************************************************************************)
EXTENDS Integers, Sequences

CONSTANTS
  Pods,         \* api pods
  Releases,     \* release ids
  MaxPromotes,  \* bound: promotes in a behaviour
  Watchers,     \* bound: the watchers there can be at any one time
  MaxRestarts,  \* bound: restarts of pods
  MaxReports,   \* bound: terminal events of a promote that are told apart
  Env           \* what happens besides one promote after the other

EnvEvents == {"created", "overlap", "again", "mirror", "informer", "expiry",
              "apierror"}

ASSUME ActorsAssumption == Pods \cap Watchers = {}
ASSUME MaxPromotesAssumption == MaxPromotes \in Nat \ {0}
ASSUME MaxRestartsAssumption == MaxRestarts \in Nat
ASSUME MaxReportsAssumption == MaxReports \in Nat \ {0}
ASSUME EnvAssumption == Env \subseteq EnvEvents

VARIABLES
  promoted,   \* the releases promoted, in order
  atom,       \* the atom: class of its status, current, previous version
  patches,    \* the updates of the mirror that have not reached the namespace
  ns,         \* the namespace: mirrored status and version, watch record
  view,       \* per pod: the namespace as its informer has it
  request,    \* per promote: where its ReleasePromote call is
  atomVersion,\* per promote: the version its watch record holds
  age,        \* per promote: how its ExpiresAt compares with now
  slots,      \* per pod: the releases that have a watcher
  task,       \* per watcher, and per pod for its collector: what it does
  reported,   \* per promote: how many terminal events were sent
  ran,        \* versions the atom has reported as running
  restarts

vars == <<promoted, atom, patches, ns, view, request, atomVersion, age, slots,
          task, reported, ran, restarts>>

rollout == <<promoted, atom, patches, ran>>
calls   == <<request, atomVersion>>

-----------------------------------------------------------------------------
Promotes == 1..MaxPromotes
Version  == 0..MaxPromotes
Actors   == Watchers \cup Pods
None     == -1

ASSUME NoneAssumption == None \notin Pods

(* "moving" is Pending or Updating, "running" Running, "failing" a rollout *)
(* on its way back, "failed" Reverted or Failure.                          *)
Class    == {"moving", "running", "failing", "failed"}
Mirrored == [status: Class, cur: Version]
Result   == {"completed", "errored", "cancelled"}

SameRelease(v, w) ==
  v = w \/ (v # 0 /\ w # 0 /\ promoted[v] = promoted[w])

(* The app was created just now, by a promote of the empty release.        *)
Empty(v) == v = 0 /\ "created" \in Env

(* A watcher or a collector.  n: the promote whose record it handles;      *)
(* result: the event it will send; raw: the record it read when cleaning   *)
(* up; bound: whether its context is that of the promote's HTTP request.   *)
Task == [step: {"off", "watch", "emit", "get", "patch", "release", "exit"},
         pod: Pods \cup {None}, n: Version, result: Result \cup {"none"},
         raw: Version, bound: BOOLEAN]

Off == [step |-> "off", pod |-> None, n |-> 0, result |-> "none", raw |-> 0,
        bound |-> FALSE]

Started(p, n, b) == [Off EXCEPT !.step = "watch", !.pod = p, !.n = n,
                                !.bound = b]
Closing(p, n, r) == [Off EXCEPT !.step = "emit", !.pod = p, !.n = n,
                                !.result = r]

(* Variant: the event is named after its status.                           *)
OutcomeStatus(status) == IF status = "running" THEN "success" ELSE "error"

(* mapAppStatusToWatchResult and the action emitted for its result.        *)
Terminal(status) == status # "moving"
Outcome(status)  == IF status = "running" THEN "completed" ELSE "errored"

(* Variant: whether a newer release has taken over is not looked at.       *)
SupersededNever(n, v) == FALSE

(* The release in the mirror is another one than the record's.             *)
Superseded(n, v) == ~Empty(v.cur) /\ ~SameRelease(v.cur, atomVersion[n])

(* The watcher's context has ended, with the HTTP request it came from.    *)
Done(t) == t.bound /\ request[t.n].step = "returned"

SlotFree(p, n) == promoted[n] \notin slots[p]

(* tryAcquireWatchSlot succeeds and a watcher is started.                  *)
Watch(p, n, b) ==
  /\ \E w \in Watchers :
       task[w].step = "off" /\ task' = [task EXCEPT ![w] = Started(p, n, b)]
  /\ slots' = [slots EXCEPT ![p] = @ \cup {promoted[n]}]

-----------------------------------------------------------------------------
(* The rollout, and its mirror in the namespace (AtomController.syncAtom). *)

(* A new state of the atom; only with "mirror" does the mirror lag behind. *)
Rollout(new) ==
  /\ atom' = new
  /\ ran' = IF new.status = "running" THEN ran \cup {new.cur} ELSE ran
  /\ LET m == [status |-> new.status, cur |-> new.cur]
     IN IF "mirror" \in Env
        THEN patches' = patches \cup {m} /\ UNCHANGED ns
        ELSE ns' = [ns EXCEPT !.status = m.status, !.cur = m.cur]
             /\ UNCHANGED patches

(* Only with "overlap" does it get that far before the promote has read    *)
(* its version.                                                            *)
RolloutEnds ==
  /\ atom.status = "moving"
  /\ "overlap" \in Env \/ \A n \in Promotes : request[n].step # "status"
  /\ \E s \in {"running", "failing"} :
       Rollout([atom EXCEPT !.status = s])
  /\ UNCHANGED <<promoted, view, calls, age, slots, task, reported, restarts>>

RolloutRollsBack ==
  /\ atom.status = "failing"
  /\ atom.prev # None
  /\ Rollout([atom EXCEPT !.cur = atom.prev, !.prev = None])
  /\ UNCHANGED <<promoted, view, calls, age, slots, task, reported, restarts>>

RolloutFails ==
  /\ atom.status = "failing"
  /\ Rollout([atom EXCEPT !.status = "failed"])
  /\ UNCHANGED <<promoted, view, calls, age, slots, task, reported, restarts>>

(* A patch of the namespace: its error is logged, and nothing else.        *)
Attempt(new) == ns' = new \/ ("apierror" \in Env /\ UNCHANGED ns)

(* The namespace as a pod has it; only with "informer" is that ever old.   *)
Seen(p) == IF "informer" \in Env THEN view[p] ELSE ns

(* updateNamespace, one goroutine per notification, in any order.  The     *)
(* same state may be notified more than once, and is not written when some *)
(* informer already shows it.                                              *)
UpdateNamespace ==
  /\ \E m \in patches :
       /\ ns' \in {[ns EXCEPT !.status = m.status, !.cur = m.cur]}
                  \cup {n \in {ns} : \E p \in Pods :
                          Seen(p).status = m.status /\ Seen(p).cur = m.cur}
       /\ patches' \in {patches, patches \ {m}}
  /\ UNCHANGED <<promoted, atom, ran, view, calls, age, slots, task, reported,
                 restarts>>

(* The namespace informer of a pod catches up.                             *)
Refresh(p) ==
  /\ "informer" \in Env
  /\ view[p] # ns
  /\ view' = [view EXCEPT ![p] = ns]
  /\ UNCHANGED <<rollout, ns, calls, age, slots, task, reported, restarts>>

-----------------------------------------------------------------------------
(* Provider.ReleasePromote. *)

Returned == [step |-> "returned", pod |-> None]

(* The API lets a promote in when the mirror says the rollout is over.     *)
Admitted ==
  \/ "overlap" \in Env
  \/ /\ ns.status \in {"running", "failed"}
     /\ \A n \in Promotes : request[n].step \in {"none", "returned"}

Promote(p, r) ==
  /\ Len(promoted) < MaxPromotes
  /\ Admitted
  /\ \A n \in 1..Len(promoted) : promoted[n] = r => "again" \in Env
  /\ LET n == Len(promoted) + 1
     IN /\ promoted' = Append(promoted, r)
        /\ request' = [request EXCEPT ![n] = [step |-> "status", pod |-> p]]
        /\ Rollout([status |-> "moving", cur |-> n, prev |-> atom.cur])
  /\ UNCHANGED <<view, atomVersion, age, slots, task, reported, restarts>>

(* Atom.Status: by now the atom may be at another version.                 *)
ReadStatus(n) ==
  /\ request[n].step = "status"
  /\ atomVersion' = [atomVersion EXCEPT ![n] =
                       IF Empty(atom.cur) THEN n ELSE atom.cur]
  /\ request' = [request EXCEPT ![n].step = "note"]
  /\ UNCHANGED <<rollout, ns, view, age, slots, task, reported, restarts>>

(* writeReleasePromoteWatchAnnotation; the promote goes on when it fails.  *)
WriteRecord(n) ==
  /\ request[n].step = "note"
  /\ Attempt([ns EXCEPT !.note = n])
  /\ request' = [request EXCEPT ![n].step = "launch"]
  /\ UNCHANGED <<rollout, view, atomVersion, age, slots, task, reported,
                 restarts>>

(* A slot that is taken leaves the promote without a watcher of its own.   *)
Launch(n) ==
  /\ request[n].step = "launch"
  /\ request' = [request EXCEPT ![n].step = "running"]
  /\ IF SlotFree(request[n].pod, n)
     THEN Watch(request[n].pod, n, TRUE)
     ELSE UNCHANGED <<slots, task>>
  /\ UNCHANGED <<rollout, ns, view, atomVersion, age, reported, restarts>>

(* The handler returns, and the server cancels the request's context.      *)
Return(n) ==
  /\ request[n].step = "running"
  /\ request' = [request EXCEPT ![n] = Returned]
  /\ UNCHANGED <<rollout, ns, view, atomVersion, age, slots, task, reported,
                 restarts>>

(* ExpiresAt passes, then the grace period of the watcher; no matter when  *)
(* nobody looks at the record.                                             *)
Age(n) ==
  /\ "expiry" \in Env
  /\ (\E p \in Pods : Seen(p).note = n) \/ (\E a \in Actors : task[a].n = n)
  /\ age[n] # "overdue"
  /\ age' = [age EXCEPT ![n] = IF @ = "young" THEN "expired" ELSE "overdue"]
  /\ UNCHANGED <<rollout, ns, view, calls, slots, task, reported, restarts>>

-----------------------------------------------------------------------------
(* runReleasePromoteWatcher *)

Resume(a, t) ==
  /\ task' = [task EXCEPT ![a] = t]
  /\ UNCHANGED <<rollout, view, calls, age, restarts>>

Verdict(n, v) ==
  IF Superseded(n, v) THEN "cancelled"
  ELSE IF Terminal(v.status) THEN Outcome(v.status)
  ELSE IF age[n] = "overdue" THEN "errored" ELSE "none"

(* A poll that decides; any other leaves the watcher as it is.             *)
Poll(w) ==
  /\ task[w].step = "watch"
  /\ LET r == Verdict(task[w].n, Seen(task[w].pod))
     IN /\ r # "none"
        /\ Resume(w, [task[w] EXCEPT !.step = "emit", !.result = r])
  /\ UNCHANGED <<ns, slots, reported>>

(* ctx.Done: nothing is sent, the cleanup runs all the same.               *)
Abort(w) ==
  /\ task[w].step = "watch"
  /\ Done(task[w])
  /\ Resume(w, [task[w] EXCEPT !.step = "get"])
  /\ UNCHANGED <<ns, slots, reported>>

(* emitReleasePromoteResult                                                *)
Emit(a) ==
  /\ task[a].step = "emit"
  /\ reported' = [reported EXCEPT ![task[a].n] =
                    IF @ < MaxReports THEN @ + 1 ELSE @]
  /\ Resume(a, [task[a] EXCEPT !.step = "get", !.result = "none"])
  /\ UNCHANGED <<ns, slots>>

(* What follows the cleanup: a watcher gives its slot back.                *)
AfterCleanup(a) ==
  IF a \in Pods THEN Off ELSE [task[a] EXCEPT !.step = "release", !.raw = 0]

(* Variant: the record's release must be the one in the mirror.            *)
MineIfMirrored(t) == ns.note # 0 /\ SameRelease(ns.note, ns.cur)

(* The record is still one of the release that is cleaned up.              *)
Mine(t) == ns.note # 0 /\ SameRelease(ns.note, t.n)

(* deleteReleasePromoteWatchAnnotationIfMatches reads the record ...       *)
GetRecord(a) ==
  /\ task[a].step = "get"
  /\ Resume(a, IF Mine(task[a]) /\ ~Done(task[a])
               THEN [task[a] EXCEPT !.step = "patch", !.raw = ns.note]
               ELSE AfterCleanup(a))
  /\ UNCHANGED <<ns, slots, reported>>

(* Variant: the patch does not test that the record is still the same.     *)
RemovableAlways(t) == ~Done(t)

Removable(t) == ~Done(t) /\ ns.note = t.raw

(* ... and removes it by a patch that tests it is still the one read.  A   *)
(* read that failed has the effect of a patch that does.                   *)
RemoveRecord(a) ==
  /\ task[a].step = "patch"
  /\ Attempt(IF Removable(task[a]) THEN [ns EXCEPT !.note = 0] ELSE ns)
  /\ Resume(a, AfterCleanup(a))
  /\ UNCHANGED <<slots, reported>>

(* The slot is freed twice: by the cleanup and by the outer defer.         *)
Release(w) ==
  /\ task[w].step \in {"release", "exit"}
  /\ slots' = [slots EXCEPT ![task[w].pod] = @ \ {promoted[task[w].n]}]
  /\ Resume(w, IF task[w].step = "release"
               THEN [task[w] EXCEPT !.step = "exit"] ELSE Off)
  /\ UNCHANGED <<ns, reported>>

-----------------------------------------------------------------------------
(* scanReleasePromoteAnnotations *)

(* The event with which the collector closes a record itself.              *)
ClosedByScan(n, v) ==
  IF age[n] # "young"
  THEN IF Terminal(v.status) THEN Outcome(v.status) ELSE "errored"
  ELSE IF Superseded(n, v) THEN "cancelled" ELSE "none"

Scan(p) ==
  /\ task[p].step = "off"
  /\ Seen(p).note # 0
  /\ LET n == Seen(p).note
         r == ClosedByScan(n, Seen(p))
     IN \/ /\ r # "none"
           /\ task' = [task EXCEPT ![p] = Closing(p, n, r)]
           /\ UNCHANGED slots
        \/ /\ r = "none"
           /\ SlotFree(p, n)
           /\ Watch(p, n, FALSE)
  /\ UNCHANGED <<rollout, ns, view, calls, age, reported, restarts>>

(* A pod is replaced: its calls, watchers and slots are gone.              *)
Restart(p) ==
  /\ restarts < MaxRestarts
  /\ restarts' = restarts + 1
  /\ task' = [a \in Actors |-> IF task[a].pod = p THEN Off ELSE task[a]]
  /\ slots' = [slots EXCEPT ![p] = {}]
  /\ view' = IF "informer" \in Env THEN [view EXCEPT ![p] = ns] ELSE view
  /\ request' = [n \in Promotes |->
                   IF request[n].pod = p THEN Returned ELSE request[n]]
  /\ UNCHANGED <<rollout, ns, atomVersion, age, reported>>

-----------------------------------------------------------------------------
Init ==
  /\ promoted = <<>>
  /\ atom = [status |-> "running", cur |-> 0, prev |-> None]
  /\ patches = {}
  /\ ns = [status |-> "running", cur |-> 0, note |-> 0]
  /\ view = [p \in Pods |-> ns]
  /\ request = [n \in Promotes |-> [step |-> "none", pod |-> None]]
  /\ atomVersion = [n \in Promotes |-> 0]
  /\ age = [n \in Promotes |-> "young"]
  /\ slots = [p \in Pods |-> {}]
  /\ task = [a \in Actors |-> Off]
  /\ reported = [n \in Promotes |-> 0]
  /\ ran = {0}
  /\ restarts = 0

Call(n) == ReadStatus(n) \/ WriteRecord(n) \/ Launch(n) \/ Return(n)

Cleanup(a) == Emit(a) \/ GetRecord(a) \/ RemoveRecord(a)

Run(w) == Poll(w) \/ Abort(w) \/ Cleanup(w) \/ Release(w)

Next ==
  \/ RolloutEnds \/ RolloutRollsBack \/ RolloutFails \/ UpdateNamespace
  \/ \E p \in Pods : \E r \in Releases : Promote(p, r)
  \/ \E n \in Promotes : Call(n) \/ Age(n)
  \/ \E w \in Watchers : Run(w)
  \/ \E p \in Pods : Refresh(p) \/ Scan(p) \/ Cleanup(p) \/ Restart(p)

Spec == Init /\ [][Next]_vars

(* Calls, goroutines and informers get on; the collector scans every five  *)
(* minutes; time passes; a context that has ended is noticed.              *)
Fairness ==
  /\ WF_vars(UpdateNamespace) /\ WF_vars(RolloutEnds) /\ WF_vars(RolloutFails)
  /\ \A n \in Promotes : WF_vars(Call(n)) /\ WF_vars(Age(n))
  /\ \A w \in Watchers : WF_vars(Run(w))
  /\ \A p \in Pods : WF_vars(Refresh(p)) /\ WF_vars(Scan(p))
                     /\ WF_vars(Cleanup(p))

FairSpec == Spec /\ Fairness
-----------------------------------------------------------------------------
(* Properties. *)

TypeOK ==
  /\ promoted \in Seq(Releases) /\ Len(promoted) <= MaxPromotes
  /\ atom \in [status: Class, cur: Version, prev: Version \cup {None}]
  /\ patches \subseteq Mirrored
  /\ ns \in [status: Class, cur: Version, note: Version]
  /\ view \in [Pods -> [status: Class, cur: Version, note: Version]]
  /\ request \in [Promotes ->
       [step: {"none", "status", "note", "launch", "running", "returned"},
        pod: Pods \cup {None}]]
  /\ atomVersion \in [Promotes -> Version]
  /\ age \in [Promotes -> {"young", "expired", "overdue"}]
  /\ slots \in [Pods -> SUBSET Releases]
  /\ task \in [Actors -> Task]
  /\ reported \in [Promotes -> 0..MaxReports]
  /\ ran \subseteq Version
  /\ restarts \in 0..MaxRestarts

(* A watch record is removed only when its own promote has been reported:  *)
(* whatever restarts, expires or overlaps, a cleanup never takes away the  *)
(* record of a promote nobody has sent an event for, so the collector can  *)
(* always make good for a lost watcher                                     *)
(* (deleteReleasePromoteWatchAnnotationIfMatches, the order of the         *)
(* deferred calls of runReleasePromoteWatcher).                            *)
RecordOutlivesReport ==
  [][ns.note # 0 /\ ns'.note = 0 => reported[ns.note] > 0]_vars

(* A promote is reported as completed only if its version did run, however *)
(* late or out of order the mirror is and whichever pod reports it         *)
(* (the poll of runReleasePromoteWatcher and the scan).                    *)
CompletedHasRun ==
  \A a \in Actors : task[a].result = "completed" => task[a].n \in ran

(* No watch record stays for ever: each is removed, or replaced by that of *)
(* a newer promote (scanReleasePromoteAnnotations).                        *)
EveryRecordIsClosed ==
  \A n \in Promotes : (ns.note = n) ~> (ns.note # n)

(* Every promote is reported at least once, ...                            *)
EveryPromoteIsReported ==
  \A n \in Promotes : (n <= Len(promoted)) ~> (reported[n] > 0)

(* ... and no promote is reported twice.                                   *)
ReportedAtMostOnce == \A n \in Promotes : reported[n] < 2

(* A promote is reported as cancelled only if a newer one was made.        *)
CancelledMeansReplaced ==
  \A a \in Actors :
    task[a].result = "cancelled" => task[a].n < Len(promoted)
=============================================================================
