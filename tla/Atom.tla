-------------------------------- MODULE Atom --------------------------------
(***************************************************************************)
(* The rollout of one app: the Atom object in the Kubernetes API server    *)
(* (pkg/atom/atom.go), the AtomController replicas that drive it           *)
(* (pkg/atom/controller.go) under leader election (pkg/kctl/kctl.go), the  *)
(* users who promote and cancel, the readers that refresh its release      *)
(* cache and the processor that resolves its dependencies                  *)
(* (provider/k8s/controller_atom.go).                                      *)
(*                                                                         *)
(* Versions are numbered in the order in which they become current; 0      *)
(* stands for the empty version name.  Every write of the atom replaces    *)
(* the whole object under optimistic concurrency and is delivered, in      *)
(* order, to the informer of every leader as a snapshot; a handler works   *)
(* on the snapshot it was given and reads the object again only inside     *)
(* Client.update.                                                          *)
(***************************************************************************)
EXTENDS Integers, Sequences

CONSTANTS
  Controllers,   \* replicas of the process that runs AtomController
  MaxVersions,   \* bound: promotes in a behaviour
  MaxQueue,      \* bound: notifications waiting when a resync or cancel adds one
  MaxFaults,     \* bound: crashes, handovers, relists and API errors together
  Env            \* what the environment does besides a plain promote

EnvEvents == {"overlap", "cancel", "readers", "deps", "kubectl",
              "crash", "handover", "relist", "apierror"}

ASSUME MaxVersionsAssumption == MaxVersions \in Nat \ {0}
ASSUME MaxQueueAssumption == MaxQueue \in Nat \ {0}
ASSUME MaxFaultsAssumption == MaxFaults \in Nat
ASSUME EnvAssumption == Env \subseteq EnvEvents

VARIABLES
  atom,        \* the stored object, without its release cache
  cache,       \* the version the stored release cache names
  issued,      \* how many versions have been promoted
  live,        \* the version whose template the cluster runs
  leader,      \* which replicas hold (or believe they hold) the lease
  seen,        \* per replica: the status in the last snapshot delivered
  queue,       \* per replica: the snapshots not yet delivered
  ctl,         \* per replica: the handler in flight
  reader,      \* the version whose release a cache refresh is about to write
  resolver,    \* the version whose dependencies are being resolved
  unresolved,  \* versions whose template still has placeholders
  faults       \* faults so far

vars == <<atom, cache, issued, live, leader, seen, queue, ctl, reader,
          resolver, unresolved, faults>>

store   == <<cache, issued, reader, resolver, unresolved>>
cluster == <<live>>
lease   == <<leader, seen>>

-----------------------------------------------------------------------------
(* Data. *)

NoVersion == 0
Partial   == -1          \* a template kubectl did not apply to the end
Versions  == 1..MaxVersions
Version   == 0..MaxVersions

Settled  == {"", "Running", "Reverted", "Failure"}
Rollouts == {"Updating", "Rollback"}
Failing  == {"Cancelled", "Deadline", "Error"}
Status   == Settled \cup Rollouts \cup Failing \cup {"Pending"}

Snapshot == [status: Status, cur: Version, prev: Version,
             deps: BOOLEAN, late: BOOLEAN]

NoAtom == [status |-> "", cur |-> NoVersion, prev |-> NoVersion,
           deps |-> FALSE, late |-> FALSE]

(* A handler in flight.  step: the write it makes next ("template" is      *)
(* kubectl); path: whether it applies a pending atom or rolls back; ver:   *)
(* the version it rolls back to or applies; status: what atomStatus will   *)
(* write; got: whether update has read the atom, and whether that copy is  *)
(* still the stored one.                                                   *)
Handler == [step: {"idle", "rollback", "start", "template", "status"},
            path: {"apply", "rollback"}, ver: Version,
            status: Status, got: {"no", "fresh", "stale"}]

Idle == [step |-> "idle", path |-> "apply", ver |-> NoVersion,
         status |-> "", got |-> "no"]

WriteStatus(s)  == [Idle EXCEPT !.step = "status", !.status = s]
StartApply(p)   == [Idle EXCEPT !.step = "start", !.path = p]
RollBackTo(v)   == [Idle EXCEPT !.step = "rollback", !.path = "rollback",
                                !.ver = v]

(* Variant: the legacy name of a status is written.                        *)
SucceededLegacy(p) ==
  WriteStatus(IF p = "apply" THEN "Updating" ELSE "Success")

(* What the handler records when the apply or rollback it runs returns.    *)
Succeeded(p) == WriteStatus(IF p = "apply" THEN "Updating" ELSE "Rollback")
Failed(p)    == WriteStatus(IF p = "apply" THEN "Error" ELSE "Failure")

(* Variant: a failing atom is rolled back to where it is.                  *)
TargetCurrent(a) == a.cur

(* The version a failing atom goes back to.                                *)
Target(a) == a.prev

-----------------------------------------------------------------------------
(* The API server: a stored object, a notification per write, and a        *)
(* resource version that makes every older copy unusable for an update.    *)

Publish(new) ==
  /\ atom' = new
  /\ queue' = [c \in Controllers |->
                 IF leader[c] THEN Append(queue[c], new) ELSE queue[c]]

Outdated == [c \in Controllers |->
               IF ctl[c].got = "fresh" THEN [ctl[c] EXCEPT !.got = "stale"]
                                       ELSE ctl[c]]

(* A write by someone else than an AtomController.                         *)
ExternalWrite(new) == Publish(new) /\ ctl' = Outdated

(* A write by the handler of c, which then goes on with k.                 *)
HandlerWrite(c, new, k) == Publish(new) /\ ctl' = [Outdated EXCEPT ![c] = k]

Fault(kind) == kind \in Env /\ faults < MaxFaults /\ faults' = faults + 1

-----------------------------------------------------------------------------
(* Users, readers and the dependency processor. *)

AtRest == \A c \in Controllers : ctl[c] = Idle /\ queue[c] = <<>>

(* Client.Apply.  Only a forced promote, AppUpdate, or a promote let       *)
(* through by a lagging namespace annotation finds the app still moving.   *)
(* Notifications of the last rollout may be left when its status settles;  *)
(* without "overlap" a release with dependencies comes after them.         *)
Promote(d) ==
  /\ issued < MaxVersions
  /\ "overlap" \in Env \/ atom.status \in Settled
  /\ d => "deps" \in Env /\ ("overlap" \in Env \/ AtRest)
  /\ issued' = issued + 1
  /\ cache' = issued + 1
  /\ unresolved' = IF d THEN unresolved \cup {issued + 1} ELSE unresolved
  /\ ExternalWrite([status |-> "Pending", cur |-> issued + 1,
                    prev |-> atom.cur, deps |-> d, late |-> FALSE])
  /\ UNCHANGED <<live, lease, reader, resolver, faults>>

Cancel ==
  /\ "cancel" \in Env
  /\ \A c \in Controllers : Len(queue[c]) < MaxQueue
  /\ atom.status \in Rollouts
  /\ ExternalWrite([atom EXCEPT !.status = IF @ = "Rollback" THEN "Failure"
                                                             ELSE "Cancelled"])
  /\ UNCHANGED <<store, live, lease, faults>>

(* updateReleaseCache: read an atom whose cache names another version ...  *)
ReadStaleCache ==
  /\ "readers" \in Env
  /\ reader = NoVersion
  /\ atom.cur # NoVersion
  /\ cache # atom.cur
  /\ reader' = atom.cur
  /\ UNCHANGED <<atom, cache, issued, live, lease, queue, ctl, resolver,
                 unresolved, faults>>

(* ... and merge-patch the cache, whatever the atom has become since.      *)
PatchReleaseCache ==
  /\ reader # NoVersion
  /\ cache' = reader
  /\ reader' = NoVersion
  /\ IF cache = reader THEN UNCHANGED <<atom, queue, ctl>>
                       ELSE ExternalWrite(atom)
  /\ UNCHANGED <<issued, live, lease, resolver, unresolved, faults>>

(* syncAtom / syncAll: one processDependency at a time per namespace.      *)
StartResolver ==
  /\ resolver = NoVersion
  /\ atom.deps
  /\ resolver' = atom.cur
  /\ UNCHANGED <<atom, cache, issued, live, lease, queue, ctl, reader,
                 unresolved, faults>>

(* processDependency to its end: the template of the version it was        *)
(* started for is resolved, then the dependencies of the atom are cleared  *)
(* by a merge patch that names no version.                                 *)
ClearDependencies ==
  /\ resolver # NoVersion
  /\ unresolved' = unresolved \ {resolver}
  /\ resolver' = NoVersion
  /\ IF atom.deps THEN ExternalWrite([atom EXCEPT !.deps = FALSE])
                  ELSE UNCHANGED <<atom, queue, ctl>>
  /\ UNCHANGED <<cache, issued, live, lease, reader, faults>>

(* The resource is not ready: processDependency gives up.                  *)
AbandonResolver ==
  /\ resolver # NoVersion
  /\ resolver' = NoVersion
  /\ UNCHANGED <<atom, cache, issued, live, lease, queue, ctl, reader,
                 unresolved, faults>>

-----------------------------------------------------------------------------
(* AtomController.Update: what one notification makes the handler do. *)

Ready(c) == ctl[c].step = "idle" /\ queue[c] # <<>>

(* Variant: a resync is never acted on unless it is about a rollout.       *)
RelevantWhenNew(a, before) ==
  \/ a.status \in Rollouts
  \/ a.status \in Failing /\ a.status # before
  \/ a.status = "Pending" /\ ~a.deps /\ a.status # before

(* Variant: a pending atom is not held back by its dependencies.           *)
RelevantUnresolved(a, before) ==
  \/ a.status \in Rollouts
  \/ a.status \in Failing /\ a.status # before
  \/ a.status = "Pending"

(* Whether the handler acts on snapshot a, delivered after one with status *)
(* before: on a rollout always, on a failure only when it is news, on a    *)
(* pending atom even by a resync.                                          *)
Relevant(a, before) ==
  \/ a.status \in Rollouts
  \/ a.status \in Failing /\ a.status # before
  \/ a.status = "Pending" /\ ~a.deps

Notified(c) == Ready(c) /\ Relevant(Head(queue[c]), seen[c])

Deliver(c, k) ==
  /\ queue' = [queue EXCEPT ![c] = Tail(@)]
  /\ seen' = [seen EXCEPT ![c] = Head(queue[c]).status]
  /\ ctl' = [ctl EXCEPT ![c] = k]
  /\ UNCHANGED <<atom, store, live, leader>>

(* Variant: the progress deadline is not enforced.                         *)
NeverExpired(a, first) == FALSE

(* The two calls of check answer "ok", "wait" or "error"; an atom without  *)
(* a current version is ok.  The first answer only counts past the         *)
(* progress deadline.                                                      *)
Expired(a, first) == a.late /\ first # "ok"

Answers(a) == IF a.cur = NoVersion THEN {"ok"}
              ELSE IF "apierror" \in Env /\ faults < MaxFaults
                   THEN {"ok", "wait", "error"} ELSE {"ok", "wait"}

Verdict(a, first, second) ==
  CASE Expired(a, first) ->
         WriteStatus(IF a.status = "Updating" THEN "Deadline" ELSE "Failure")
    [] ~Expired(a, first) /\ second = "error" ->
         WriteStatus(IF a.status = "Updating" THEN "Error" ELSE "Failure")
    [] ~Expired(a, first) /\ second = "ok" ->
         WriteStatus(IF a.status = "Updating" THEN "Running" ELSE "Reverted")
    [] ~Expired(a, first) /\ second = "wait" -> Idle

ExamineRollout(c, first, second) ==
  /\ Notified(c)
  /\ LET a == Head(queue[c])
     IN /\ a.status \in Rollouts
        /\ {first, second} \subseteq Answers(a)
        /\ Deliver(c, Verdict(a, first, second))
  /\ faults' = IF "error" \in {first, second} THEN faults + 1 ELSE faults

BeginRollback(c) ==
  /\ Notified(c)
  /\ LET a == Head(queue[c])
     IN a.status \in Failing /\ Deliver(c, RollBackTo(Target(a)))
  /\ UNCHANGED faults

BeginApply(c) ==
  /\ Notified(c)
  /\ LET a == Head(queue[c])
     IN /\ a.status = "Pending"
        /\ Deliver(c, IF a.cur = NoVersion THEN Succeeded("apply")
                                           ELSE StartApply("apply"))
  /\ UNCHANGED faults

Ignore(c) ==
  /\ Ready(c)
  /\ ~Relevant(Head(queue[c]), seen[c])
  /\ Deliver(c, Idle)
  /\ UNCHANGED faults

-----------------------------------------------------------------------------
(* Client.update: Get, change the copy, Update; and the calls around it. *)

GetAtom(c) ==
  /\ ctl[c].step \in {"rollback", "start", "status"}
  /\ ctl[c].got = "no"
  /\ ctl' = [ctl EXCEPT ![c].got = "fresh"]
  /\ UNCHANGED <<atom, store, live, lease, queue, faults>>

(* Variant: a rollback leaves the previous version behind.                 *)
RolledBackKeeping(v) == [atom EXCEPT !.cur = v, !.deps = FALSE]

RolledBack(v) == [atom EXCEPT !.cur = v, !.prev = NoVersion, !.deps = FALSE]

(* Variant: a rollback changes the atom and applies nothing.               *)
NothingAfterRollback(v) == Succeeded("rollback")

AfterRollback(v) == IF v = NoVersion THEN Succeeded("rollback")
                                     ELSE StartApply("rollback")

(* Client.rollback: the copy is fresh, the version written into it is the  *)
(* one of the notification.                                                *)
RollbackUpdate(c) ==
  /\ ctl[c].step = "rollback"
  /\ ctl[c].got = "fresh"
  /\ HandlerWrite(c, RolledBack(ctl[c].ver), AfterRollback(ctl[c].ver))
  /\ UNCHANGED <<store, live, lease, faults>>

(* The first half of Client.apply: Started is renewed and the version of   *)
(* the fresh copy is the one to apply.                                     *)
StartUpdate(c) ==
  /\ ctl[c].step = "start"
  /\ ctl[c].got = "fresh"
  /\ HandlerWrite(c, [atom EXCEPT !.late = FALSE],
                  IF atom.cur = NoVersion THEN Failed(ctl[c].path)
                  ELSE [ctl[c] EXCEPT !.step = "template", !.got = "no",
                                      !.ver = atom.cur])
  /\ UNCHANGED <<store, live, lease, faults>>

(* The second half: kubectl applies the template, or fails somewhere.      *)
ApplyTemplate(c) ==
  /\ ctl[c].step = "template"
  /\ \/ live' = ctl[c].ver /\ ctl' = [ctl EXCEPT ![c] = Succeeded(@.path)]
     \/ /\ "kubectl" \in Env
        /\ live' \in {live, Partial}
        /\ ctl' = [ctl EXCEPT ![c] = Failed(@.path)]
  /\ UNCHANGED <<atom, store, lease, queue, faults>>

(* atomStatus.  Writing the status already stored changes nothing, so no   *)
(* new resource version and no notification.                               *)
StatusUpdate(c) ==
  /\ ctl[c].step = "status"
  /\ ctl[c].got = "fresh"
  /\ IF atom.status = ctl[c].status
     THEN ctl' = [ctl EXCEPT ![c] = Idle] /\ UNCHANGED <<atom, queue>>
     ELSE HandlerWrite(c, [atom EXCEPT !.status = ctl[c].status], Idle)
  /\ UNCHANGED <<store, live, lease, faults>>

(* An update that fails: atomStatus only logs it, apply and rollback       *)
(* return it and the handler records a failure.                            *)
GiveUp(c) == ctl' = [ctl EXCEPT ![c] = IF @.step = "status" THEN Idle
                                                            ELSE Failed(@.path)]

Conflict(c) ==
  /\ ctl[c].step # "idle"
  /\ ctl[c].got = "stale"
  /\ GiveUp(c)
  /\ UNCHANGED <<atom, store, live, lease, queue, faults>>

ApiError(c) ==
  /\ ctl[c].step # "idle"
  /\ GiveUp(c)
  /\ Fault("apierror")
  /\ UNCHANGED <<atom, store, live, lease, queue>>

-----------------------------------------------------------------------------
(* Time, informers and leadership. *)

Expire(a) == [a EXCEPT !.late = TRUE]

(* The progress deadline of the rollout under way passes; it then has for  *)
(* every older snapshot too.                                               *)
DeadlinePasses ==
  /\ \/ atom.status \in Rollouts /\ ~atom.late
     \/ \E c \in Controllers : \E i \in DOMAIN queue[c] :
          queue[c][i].status \in Rollouts /\ ~queue[c][i].late
  /\ atom' = Expire(atom)
  /\ queue' = [c \in Controllers |->
                 [i \in DOMAIN queue[c] |-> Expire(queue[c][i])]]
  /\ UNCHANGED <<store, live, lease, ctl, faults>>

(* The informer hands the newest object it knows to the handler again.     *)
Resync(c) ==
  /\ leader[c]
  /\ Len(queue[c]) < MaxQueue
  /\ queue' = [queue EXCEPT ![c] = Append(@, atom)]
  /\ UNCHANGED <<atom, store, live, lease, ctl, faults>>

(* The watch breaks: the informer lists again and sees only the newest of  *)
(* the objects it missed.                                                  *)
Relist(c) ==
  /\ \E k \in 0..(Len(queue[c]) - 2) :
       queue' = [queue EXCEPT ![c] = Append(SubSeq(@, 1, k), @[Len(@)])]
  /\ Fault("relist")
  /\ UNCHANGED <<atom, store, live, lease, ctl>>

(* Leadership starts a new informer, whose first delivery is an Add: the   *)
(* handler does nothing with it.                                           *)
Lead(c) ==
  /\ \A d \in Controllers : ~leader[d]
  /\ ctl[c].step = "idle"
  /\ leader' = [leader EXCEPT ![c] = TRUE]
  /\ seen' = [seen EXCEPT ![c] = atom.status]
  /\ queue' = [queue EXCEPT ![c] = <<>>]
  /\ UNCHANGED <<atom, store, live, ctl, faults>>

StopLeading(c) ==
  /\ leader[c]
  /\ leader' = [leader EXCEPT ![c] = FALSE]
  /\ queue' = [queue EXCEPT ![c] = <<>>]
  /\ UNCHANGED <<atom, store, live, seen>>

(* The lease is lost; the handler in flight goes on.                       *)
LoseLead(c) == StopLeading(c) /\ Fault("handover") /\ UNCHANGED ctl

(* The process dies with everything it held.                               *)
Crash(c) ==
  /\ StopLeading(c)
  /\ ctl' = [ctl EXCEPT ![c] = Idle]
  /\ Fault("crash")

-----------------------------------------------------------------------------

Init ==
  /\ atom = NoAtom
  /\ cache = NoVersion
  /\ issued = 0
  /\ live = NoVersion
  /\ leader = [c \in Controllers |-> FALSE]
  /\ seen = [c \in Controllers |-> ""]
  /\ queue = [c \in Controllers |-> <<>>]
  /\ ctl = [c \in Controllers |-> Idle]
  /\ reader = NoVersion
  /\ resolver = NoVersion
  /\ unresolved = {}
  /\ faults = 0

Handle(c) ==
  \/ \E first, second \in {"ok", "wait", "error"} :
       ExamineRollout(c, first, second)
  \/ BeginRollback(c)
  \/ BeginApply(c)
  \/ Ignore(c)
  \/ GetAtom(c)
  \/ RollbackUpdate(c)
  \/ StartUpdate(c)
  \/ ApplyTemplate(c)
  \/ StatusUpdate(c)
  \/ Conflict(c)

Disturb(c) == ApiError(c) \/ Relist(c) \/ LoseLead(c) \/ Crash(c)

Others ==
  \/ \E d \in BOOLEAN : Promote(d)
  \/ Cancel
  \/ ReadStaleCache
  \/ PatchReleaseCache
  \/ StartResolver
  \/ ClearDependencies
  \/ AbandonResolver

Next ==
  \/ Others
  \/ DeadlinePasses
  \/ \E c \in Controllers : Handle(c) \/ Disturb(c) \/ Resync(c) \/ Lead(c)

Spec == Init /\ [][Next]_vars

(* Scheduling: handlers run, one replica leads, the 30 s resync fires, the *)
(* deadline passes, a refresh that has read writes, and a rollout whose    *)
(* deadline has passed does not answer differently each time it is asked.  *)
Steady(c) ==
  /\ Ready(c)
  /\ Head(queue[c]).late
  /\ \E a \in {"ok", "wait"} : ExamineRollout(c, a, a)

Fairness ==
  /\ WF_vars(DeadlinePasses)
  /\ WF_vars(PatchReleaseCache)
  /\ WF_vars(\E c \in Controllers : Lead(c))
  /\ \A c \in Controllers :
       WF_vars(Handle(c)) /\ WF_vars(Resync(c)) /\ SF_vars(Steady(c))

FairSpec == Spec /\ Fairness
-----------------------------------------------------------------------------
(* Properties. *)

TypeOK ==
  /\ atom \in Snapshot
  /\ cache \in Version /\ issued \in Version
  /\ live \in Version \cup {Partial}
  /\ leader \in [Controllers -> BOOLEAN]
  /\ seen \in [Controllers -> Status]
  /\ queue \in [Controllers -> Seq(Snapshot)]
  /\ ctl \in [Controllers -> Handler]
  /\ reader \in Version /\ resolver \in Version
  /\ unresolved \subseteq Versions
  /\ faults \in 0..MaxFaults

(* A version can be rolled back only once: the atom, and every snapshot a  *)
(* handler may still act on, name a previous version only while their      *)
(* current version is newer, and the stored atom only while it is the      *)
(* newest of all (Client.Apply, Client.rollback).                          *)
OneStepBack ==
  /\ atom.prev # NoVersion => atom.prev < atom.cur /\ atom.cur = issued
  /\ \A c \in Controllers : \A i \in DOMAIN queue[c] :
       queue[c][i].prev # NoVersion => queue[c][i].prev < queue[c][i].cur

(* Every behaviour of the replicas, with all faults, is a behaviour of the *)
(* version history: no crash, conflict or stale notification reinstates    *)
(* the newest version by a rollback or makes a version current twice.      *)
History == INSTANCE AtomHistory WITH
             current <- atom.cur, previous <- atom.prev, newest <- issued

VersionHistory == History!Spec

(* With nothing left to deliver, an app reported as running or reverted    *)
(* runs the version the atom names (Apply, Update, rollback, atomStatus).  *)
ReportsWhatRuns ==
  AtRest /\ atom.status \in {"Running", "Reverted"} /\ atom.cur # NoVersion
    => live = atom.cur

(* A template with unresolved placeholders never reaches the cluster: the  *)
(* handler holds a pending atom back until its dependencies are cleared,   *)
(* and StartUpdate reads the version it applies afresh.  That is right     *)
(* only as long as one handler runs and no promote overtakes a rollout.    *)
NoPlaceholderApplied == live \notin unresolved

(* No rollout hangs in a state the controller is responsible for, whatever *)
(* replica dies or whichever update conflicts: the resync re-delivers it.  *)
Waiting == atom.status = "Pending" /\ atom.deps

NoRolloutHangs ==
  \A s \in {"Pending", "Updating", "Rollback"} :
    (atom.status = s /\ ~Waiting) ~> (atom.status # s \/ Waiting)

(* Every promote ends: running, reverted or failed.                        *)
EveryPromoteEnds == (atom.status \notin Settled) ~> (atom.status \in Settled)

(* A promoted version is applied, unless it is replaced or the app fails.  *)
PromotedIsApplied ==
  \A v \in Versions :
    (atom.cur = v /\ atom.status = "Pending" /\ ~atom.deps)
      ~> (live \in {v, Partial} \/ atom.cur # v \/ atom.status = "Failure")

(* A rollback goes to the previous version of the atom it overwrites.      *)
RollsBackWhatItReads ==
  [][atom'.cur # atom.cur /\ issued' = issued => atom'.cur = atom.prev]_vars
=============================================================================
