# A TLA+ model of the Convox rack

Convox is a PaaS on Kubernetes. Its **rack** is an API server, replicated in
several pods, that stores everything it knows in the Kubernetes API: custom
resources (`Atom`, `AtomVersion`, `Build`, `Release`), annotations of the app's
namespace, leases, secrets. What makes it hard is what makes every controller
hard: handlers act on old snapshots, leadership moves, processes die between two
writes, and the same annotation is written by several goroutines.

This directory holds models of the rack's own logic, checked by TLC on small
instances, and proofs for every instance checked by TLAPS. Everything is
translated from the source; what Kubernetes, `kubectl` and client-go do is
modelled from how the code uses them.

| module | what it is |
|---|---|
| `Atom` | the rollout of one app: atom, controllers, leader election, promotes, cancels, readers, dependencies |
| `AtomHistory` | the version history an atom promises; `Atom` implements it |
| `MCAtom` | the symmetry of the instances of `Atom` |
| `AtomProofs` | the theorems about `Atom` that hold whatever fails: types, the version history, resolved placeholders |
| `AtomReportProofs` | on top of it: what an app reports while no replica fails |
| `PromoteWatch` | how the outcome of a promote is reported: watch record, watchers, collectors, status mirror |
| `MCPromoteWatch` | the symmetry of the instances of `PromoteWatch` |
| `PromoteWatchProofs` | the theorems about `PromoteWatch` and their proofs |
| `BudgetLedger` | the monthly budget of an app as it is meant to act: every operation in one step |
| `AppBudget` | the same operations as Get, compute, Update, retry and event, several at once; it implements `BudgetLedger` |
| `BudgetShutdown` | the auto-shutdown over the ledger: notice, shutdown, restore, sweep, cooldown |
| `MCAppBudget`, `MCBudgetShutdown` | the symmetry of their instances |
| `LedgerProofs` | the theorems about `BudgetLedger`, for the next two |
| `BudgetProofs` | the theorems about `AppBudget` and their proofs |
| `BudgetShutdownProofs` | the theorems about `BudgetShutdown` and their proofs |
| `Provisioner` | one database or cache in AWS, its record in a secret, and the promotes, resolvers and uninstalls that work on it |
| `ProvisionerProofs` | the theorems about `Provisioner` and their proofs |

`PROJECT.json` names the module of each run: `tlc -config <run>.cfg <module>` checks
it; `tlapm <M>.tla` checks the proofs of a module `M` of theorems.

## 1. Inventory

### The parts, their state and how they meet

* **Atom client** (`pkg/atom/atom.go`). State: the `Atom` object (status, current
  and previous version, started, dependencies, release cache) and immutable
  `AtomVersion`s. `Apply` (a promote), `Cancel`, `Status`/`StatusAll` (which
  refresh the cache as a side effect), and for the controller `apply`, `rollback`,
  `check`, `update`.
* **Atom controller** (`pkg/atom/controller.go`). No state but its informer. One
  handler, `Update(prev, cur)`, called one notification at a time, moves the atom
  along Pending → Updating → Running, or through Cancelled / Deadline / Error →
  Rollback → Reverted / Failure.
* **Leader election** (`pkg/kctl/kctl.go`). A lease per controller; the leader runs
  a fresh informer, a leader that loses the lease stops its informer but not the
  handler it is in.
* **Rack atom controller** (`provider/k8s/controller_atom.go`). A second controller
  on the same atoms: it mirrors status and release into annotations of the app's
  namespace, one goroutine per notification, and resolves the dependencies of a
  pending atom (AWS resources), one goroutine per namespace.
* **Promote watcher** (`provider/k8s/release_watcher.go`, `release.go`). A watch
  record in an annotation of the namespace, an in-process table of slots, one
  goroutine per promote, and a collector per pod.
* **Budget** (`provider/k8s/budget_*.go`). Annotations of the app's namespace: the
  configuration (cap, at-cap action), the state (month, spend, time of the last
  charge, alert mark, breaker), the shutdown record (armed, fired, restored, expired,
  the services' scale) and a time until which shutdowns are suppressed; a mutex per
  app in each process. API calls (`AppBudgetSet`, `Clear`, `Reset`) meet the
  accumulator's ticks, each a goroutine of the leader: charge, alert, trip the
  breaker, reconcile the shutdown, sweep.
* **AWS provisioners** (`provider/aws/provisioner`). AWS has the databases, caches
  and their groups; a secret per resource has what the rack knows of them. Promotes
  import, install, update and promote replicas and delete the secrets of what was
  dropped; a resolver waits for connections; the secret controller uninstalls.
* **Log store** (`pkg/logstorage`). An in-memory ring of log streams with
  subscriptions and a cleaner.
* **Release cleanup** (`provider/k8s/task_release_cleanup.go`) and the marker.
* **The other controllers** (deployments, nodes, pods, events, secrets, webhooks),
  **the API layer** (`pkg/api`), **manifest** (`pkg/manifest`), **resolver**, **CLI**
  and **rack installer**, **Terraform**, templates, generated clients, vendored code.

A promote enters through `pkg/api` (which refuses it while the mirror says the app
is updating, unless forced), becomes an `AtomVersion` and a Pending atom, is driven
by the atom controller, is mirrored by the rack atom controller into the namespace,
and is reported from there by the promote watcher. Cancel, app update and the
budget breaker enter at the same places.

### What is hard, and what correct means

| part | hard because | correct when |
|---|---|---|
| atom | snapshots are older than the atom; `rollback` writes what the snapshot says into a fresh copy; conflicts are only logged; a promote may come at any moment | nothing is rolled back twice, a rolled-back version never comes back, an app at rest runs what its atom names, every promote ends |
| leader election | two replicas may act at once; the new leader's first notification of an atom is ignored | the above, under every handover and crash |
| status mirror | one goroutine per notification, no order, no retry | the mirror ends up at the atom's status |
| dependencies | the patch that clears them names no version | no template with placeholders is applied |
| promote watcher | record, slot and event are three things; several pods; mirror and informer are old | one event per promote, true to what happened; no record leaks or vanishes unreported |
| budget | read-modify-write of one annotation by API pods and the leader; retries; events after the write | no write is lost, nobody is refused a deploy under the cap, one alert per mark |
| shutdown | shutdown and restore are loops over services around a record that is read early and written late, under a lock of one process | services go down only under a notice that stands, their scale can be brought back, a notice ends |
| provisioners | AWS call, then save; records read before waits of half an hour and written after them; three actors and no lock | nothing is deleted that is still wanted or not ours, nothing is lost without a fault, a dropped resource goes |
| log store | cleaner and appends under one lock, delivery outside it | a subscriber gets each line once, in order |

## 2. Plan

1. `Atom` with `AtomHistory`, its runs, its proofs. *Done.*
2. `PromoteWatch`, on a reduced atom, its runs, its proofs. *Done.*
3. `BudgetLedger`, the abstract budget, and `AppBudget`, which implements it, with
   proofs; `BudgetShutdown` composed with the ledger, with proofs. *Done.*
4. `Provisioner`, with proofs. *Done.*
5. Proofs of every safety invariant and action property a run checks, for any number of
   actors and any bounds. *Done*; each under the environment its run has, or a wider one.
6. Next proofs: what holds with a weaker environment than those theorems assume
   (`ReportsWhatRuns` with a `kubectl` that fails, `ScaleIsKept` across a month's end), and
   lemmas on the fair steps that the liveness runs rest on.
7. `RackAtom`: the marker of running dependency processors and `syncAll`, the early
   return of the mirror on a stale informer; does the mirror converge, does a pending
   atom ever wait for nobody.
8. `ReleaseCleanup` and `LogStorage`, small ones.

## 3. `Atom`

### State and actions

One app. Versions are the numbers of the promotes that made them; 0 is the empty
name. A snapshot is what a handler is given: status, current and previous version,
whether dependencies are left, and whether the progress deadline has passed
(`late`, which stands for `Started` and `ProgressDeadlineSeconds`).

| variable | code |
|---|---|
| `atom`, `cache` | the `Atom` object, and the version its `releaseCache` names |
| `issued` | the `AtomVersion`s created |
| `live` | the template `kubectl apply` left in the cluster; `Partial` after a failed one |
| `leader`, `seen`, `queue` | per replica: the lease, the object in the informer's store (its status is what `Update` gets as `prev`), the notifications not yet handled |
| `ctl` | per replica: the write the running handler makes next, and how fresh the copy is that `update` has read |
| `reader`, `resolver`, `unresolved` | a `Status` call between its read and its patch, `processDependency`, the templates with placeholders |

Every write publishes a snapshot to each leader's informer and makes all copies
read before it unusable (`Publish`, `Outdated`: the resource version).
`AtomController.Update` is split exactly where another process can get in between:
`ExamineRollout`, `BeginRollback`, `BeginApply` and `Ignore` are its branches up to
the first write; `GetAtom` is the read in `update`; `RollbackUpdate`, `StartUpdate`
and `StatusUpdate` are its writes in `rollback`, `apply` and `atomStatus`, and
`Conflict` and `ApiError` its failures (`atomStatus` only logs them, the others
make the handler record Error or Failure); `ApplyTemplate` is `kubectl`, which may
fail halfway. A write that changes nothing (`StatusUpdate` of the same status)
gives no notification, as in Kubernetes.

`Env` selects what happens besides a promote at a settled app: `overlap` (a forced
promote, `AppUpdate`, or a promote let in by a mirror that is behind), `cancel`,
`readers`, `deps`, `kubectl` (failures), `crash`, `handover`, `relist`, `apierror`.
The runs that must fail leave out what their claim cannot be blamed on. A settled
status does not mean that all notifications of the last rollout are handled; without
`overlap` a promote with dependencies (`deps`) is made after they are.

Left out: the namespace and `AtomVersion` creation in `Apply` (a crash between them
leaves an unused version), conflicts of `Apply` and `Cancel` (returned to the
user), deletion of the app, the conditions of a template (`check` answers anything).

### Checked

Bounds: two or three promotes — a rollback needs two, a promote that overwrites a
rollback three — and one waiting notification beyond those that writes add
(`MaxQueue` limits only resyncs and cancels), two replicas where handovers matter.
`MaxFaults` 1 is a fault at any point of any behaviour. Deadlock is checked in every
run of `Atom`.

| run | instance | shows |
|---|---|---|
| `atom_safety` | 2 replicas, `overlap`, `cancel`, `handover`, 2 promotes | `TypeOK`; `OneStepBack`; `VersionHistory` |
| `atom_ends` | fair; 1 replica, 3 promotes, `overlap`, `cancel` | `ReportsWhatRuns`, `EveryPromoteEnds`, `PromotedIsApplied` |
| `atom_hangs` | fair; 1 replica, 2 promotes, `readers`, `deps`, `kubectl`, `crash`, `handover`, `relist`, `apierror` | `NoPlaceholderApplied`, `NoRolloutHangs` |

* `OneStepBack`: no handler, whatever snapshot it is on, can roll a version back
  twice or roll back to the version it is at.
* `VersionHistory`: the replicas together implement `AtomHistory`: the current
  version moves only to a version never used before or back to an older one.
* `ReportsWhatRuns`: with nothing left to deliver, Running and Reverted are said of
  the version that runs. It holds while no replica fails; with any of the other events
  of `Env` an applied version can be left behind a status that belongs to another one
  (see Proved).
* `NoPlaceholderApplied`: a template goes to the cluster only when its dependencies
  are resolved. It does not hold with `overlap`: `apply` reads the version it applies
  afresh, and that may be a newer one than the handler was told of, whose dependencies
  are not resolved.
* `EveryPromoteEnds`, `PromotedIsApplied`, `NoRolloutHangs`: see fairness.

Where the code disagrees with what the repository says of it:

* `atom_stale_rollback`: `update` fetches a fresh atom, but `rollback` writes the
  previous version of the *snapshot* into it. A promote that came in between is
  overwritten and never runs.

Met on the way, without a run of its own: `pkg/atom/README.md` draws a failing rollout
as ending in Reverted or Failure. After a rollback the status Rollback is written
once; when a reader's cache refresh comes between its read and its write the conflict
is only logged, and a resync of an unchanged failing status is skipped: the app stays
at Error, Cancelled or Deadline (`EveryPromoteEnds` fails with `readers` in `Env`).
With `crash` it gets there too: the next leader is told of the atom by an Add, which
does nothing. That is why `atom_ends` has neither.

The model has one more step the diagram does not: `apply` writes `Started` while the
status is still Pending; that write is notified as (Pending, Pending), which the
handler does not skip, so a template is applied twice and the second pass sets the
status to Updating from wherever the first one had taken it. It can leave an Updating
snapshot behind a status that has settled on Running. The API then lets the next
promote in; the check of the old snapshot writes Running over its Pending, the one after
that is let in too, and if it has dependencies, the notification still waiting for
the second promote makes `apply` read the third and start it with its placeholders: three
promotes, none of them forced. This is why `Promote` with dependencies waits
for `AtRest` where `overlap` is not in `Env`.

### Fairness

`FairSpec` assumes that a handler that can take a step takes one, that some replica
leads, that the 30 s resync fires, that deadlines pass and that a started cache
refresh writes. `SF(Steady)` says that a rollout whose deadline has passed does
not give two different answers to the two consecutive `check` calls for ever: the
code asks twice, and without this a rollout could be not ready when its deadline is
tested and not failed a moment later, each time it is looked at. Nothing is assumed of promotes,
cancels, readers, the dependency processor or faults.

### Proved

`AtomProofs` proves, for any set of replicas and any values of the bounds and of
`Env` (from the assumptions in `Atom`: the bounds are naturals, `Env` is a subset
of `EnvEvents`):

* `TypeCorrect`: `Spec => []TypeOK`.
* `HistoryInvariant`: `Spec => []HistoryInv`. Every snapshot there is (the stored
  atom, every queue) is `SoundAt` the number of versions issued: its current
  version is not newer, and if it names a previous version that one is older than
  the current one. The stored atom with a previous version is at the newest version.
  And the version a handler will roll back to is older than the newest, once
  there is one. The last conjunct is what makes it inductive: `RollbackUpdate`
  writes a version taken from an old snapshot into whatever the atom has become.
* `RollsBackOnce`: `Spec => []OneStepBack`, from it.
* `ImplementsHistory`: `Spec => VersionHistory`: the initial state maps to the
  initial state, and every step of every handler to a promote, a revert or a
  stutter, under the invariant.
* `AppliesResolved`: `"overlap" \notin Env => (Spec => []NoPlaceholderApplied)`, with all
  faults. `PromotedInv` says that only promoted versions are started or run; `ResolvedInv`
  that while a template is unresolved it is that of the stored atom, which is Pending
  with its dependencies, and everything is `Still`: no handler runs and every
  snapshot in a queue is `Held` back by its dependencies. So the only step that
  changes the atom is the one that clears them, and it clears those of the version
  that was resolved.

`AtomReportProofs` proves, for any set of replicas and any bounds:

* `ReportsRunning`: `Healthy => (Spec => []ReportsWhatRuns)`, where `Healthy` allows
  `overlap` and `cancel`: promotes and cancels at any moment of any rollout. The
  invariant `Cared` says that as long as the cluster does not run the current version
  somebody is about to do something about it: a due notification waits in the leader's queue
  (`Waits`), a handler is on its way to apply what is current (`OnItsWay`), or the
  rollout was cancelled or has failed and that is news to the handler or about to be
  recorded (`Overtaken`, `Recording`, `ToRollBack`). At rest there is nobody, so the
  version runs. `LeadInv` carries it: one replica leads and the others rest, its queue ends
  in the stored atom (`Follows`), what a handler holds is current unless a promote waits
  or it was cancelled (`HoldInv`), and a rollback leaves nothing else to roll back to
  (`BackInv`), for which a previous version must only ever be cleared between two
  promotes (`Clearing`). The queues are the hard part; the lemmas `Append...`,
  `Tail...` and `Aged...` say what a write, a delivery and the passing of the deadline do to
  what is asked of them. TLC checked the invariant with three promotes of one
  replica and two of two. `Healthy` is needed: with `kubectl`, `readers`, `crash`, `handover`,
  `relist` or `apierror` alone TLC finds an app at rest whose Running or Reverted is not true of
  its version, and with `deps` beside `overlap` too.

Only model-checked: all liveness, which is out of reach of the prover.

## 4. `PromoteWatch`

### State and actions

The atom is reduced to the class of its status and its current version, which is
all the mirror shows of it, moving along the main line of its state machine. A promote's
`ReleasePromote` call is `Promote` (up to and with `Apply`), `ReadStatus`,
`WriteRecord`, `Launch` and `Return`, at which the HTTP server cancels the request's
context, the one the watcher runs under. A watcher is `Poll`/`Abort`, then its deferred calls:
`Emit`, `GetRecord`, `RemoveRecord` and `Release`, the last one twice. The collector of a
pod is `Scan` and, for the records it closes itself, the same `Emit`, `GetRecord`,
`RemoveRecord`. `slots` is the table of one process. `Restart` drops a
pod's calls, watchers and slots.

`Env`: `overlap` (a promote while a rollout or another call is under way), `again`
(the same release promoted again), `mirror` (the mirror is written late and in any
order), `informer` (a pod's copy of the namespace is old), `expiry` (`ExpiresAt`,
then the grace period, pass), `created` (the app has just been created, its release is empty),
`apierror` (reads and patches of the record fail, which the code only logs). Without `mirror`
and `informer` polls see the atom as it is.

Left out: corrupt records and unknown schema versions, deletion of the app, failing `EventSend`, panics of the
watcher, and a mirror patch that is lost for ever (`mirror` delays and reorders it).

### Checked

| run | instance | shows |
|---|---|---|
| `watch_records` | 2 pods, 1 watcher, a restart, `overlap`, `apierror` | `TypeOK`, `RecordOutlivesReport` |
| `watch_mirror` | 1 pod, 2 watchers, a restart, 1 promote, `mirror`, `informer` | `CompletedHasRun` |
| `watch_closes` | fair; 1 pod, `expiry`, `again`, `created` | `EveryRecordIsClosed` |

Two promotes are enough to overwrite a record, supersede a release or promote it
again, and one for `watch_mirror`, where version 0 is the older release a late mirror
shows. Two collectors and a watcher are three cleanups that race with a promote.
`watch_*` runs stop when the bounded promotes are done, so they do not check deadlock.

* `RecordOutlivesReport`: no cleanup, however late, takes away the record of a
  promote that has not been reported. It does not hold with `again`: a cleanup of the
  first promote of a release removes the record of the second, because only the
  release id is compared and the second record has just been read.
* `CompletedHasRun`: a promote reported as completed did run, with mirror and
  informer late and out of order. It relies on the app having run a release before (an
  empty release in the mirror is never taken for another one), on promotes not overlapping, and on `ExpiresAt` being later than
  the mirror is late, because the collector closes an expired record by status alone.
* `EveryRecordIsClosed`: each record is removed or replaced.

What the model shows and no run keeps (`PromoteWatch` has the definitions):

* `EveryPromoteIsReported` fails: the comment in `release.go` has the watcher outlive
  the request, and the documentation promises exactly one terminal event per promote.
  But the watcher gets `p.ctx`, which is the request's: it ends silently as soon as
  the handler returns, and the cleanup fails with the same context. Until the next
  scan, up to five minutes later, nobody watches; a promote made in that time replaces
  the record and the first promote is never reported.
* `ReportedAtMostOnce` fails: the slot that should keep a release to one watcher is in
  the memory of one process, but every pod has a collector: two pods report the same
  promote. (One pod does too: with `expiry`, because the collector closes a record at
  `ExpiresAt` and the watcher has 30 s of grace; and because the slot is freed twice,
  so that a scan in between gets a slot that is taken from it.)
* `CancelledMeansReplaced` fails: a rolled-back rollout shows the older release in the
  mirror, which reads as "superseded by a newer promote"; no promote was made.

### Fairness

Calls, goroutines, informers and watchers that can go on do; the collector scans;
rollouts end; time passes. Promotes and restarts are not assumed.

### Proved

`PromoteWatchProofs` proves, for any pods, watchers and releases and any bounds
(from the assumptions in `PromoteWatch`; `NoneAssumption` only says that "no pod"
is not a pod):

* `TypeCorrect`: `Spec => []TypeOK`, in any environment. It needs `Known` beside it:
  whatever a call, a record, an informer or a watcher refers to is a promote that
  was made. Otherwise the release whose slot a watcher takes need not exist.
* `RecordsSurvive`: `"again" \notin Env => (Spec => RecordOutlivesReport)`. The
  inductive invariant adds `Once` (no release was promoted twice) and `Kept`: a
  cleanup under way has sent its event, or its context has ended, and the record it
  is about to remove is that of the promote it handles. The code compares releases,
  not promotes, when it reads the record; `Once` turns the one into the other, and this
  is where the restriction is needed. A cleanup without a context never removes
  anything, a context that has ended stays so, and reports are never taken
  back, so that `Kept` survives the steps of all others.

* `CompletedRan`: `Orderly => (Spec => []CompletedHasRun)`. `Orderly` is one promote at a
  time, each of a release of its own, none of which takes longer than its record is kept (no
  `overlap`, `again`, `expiry`), and an app that has just been created has no mirror that is
  old (`created` without `mirror` and `informer`). API errors and restarts may come at
  any time. The invariant says that whatever a mirror shows was true of the
  atom once (`MirrorInv`: a release it shows as running has run), also in patches on their way and
  in every pod's copy; that a promote has read the version of its own atom before there is a
  record or a watcher of it (`ReadInv`); and that no record is old (`Young`). Completed is then only said of a
  release that the mirror shows as running. Each hypothesis is needed: without any one
  of them TLC finds `CompletedHasRun` violated with two promotes. The run checks one
  promote, with `mirror` and `informer`; the theorem holds for any number.

Only model-checked: liveness.

## 5. The budget: `BudgetLedger`, `AppBudget`, `BudgetShutdown`

### State and actions

`ns` is the pair of annotations: `cfg`, and `st` with the month, the spend, the time of
the last charge, the alert mark and the breaker. Spend grows by one unit per unit of
time: prices and pods are data. An absent annotation is a value of its own (a cap of
zero, month zero). `AfterSet`, `AfterReset`, `AfterTick` are the computations between
the Get and the Update of `AppBudgetSet`, `appBudgetResetLocked` and
`accumulateBudgetApp`; in `BudgetLedger` each is one step.

`AppBudget` takes them apart: `BeginTick` or `BeginCall`, `Get`, `Update` or `Conflict`
(with `budgetWriteConflictRetries`), `Send` of the event afterwards. The resource
version is `fresh`: a write of the namespace, by anyone, takes it from all copies. API
calls of one process exclude each other, and no more: ticks take no lock for this, and
each tick is a goroutine that may be slow. `Crash` is a process that dies, `Touch`
another writer of the namespace.

`BudgetShutdown` is about the record. `AppBudget` justifies taking one Get-and-Update as
one step here, but the record is decided on from an earlier read: `Charge` (the tick's
accounting), `Examine` (takes the lock, reads), `Decide` (the branches of
`reconcileAutoShutdown` in their order), `Shut` for one service after another,
`Persist`, `Suppress`, `Drop`, then `Sweep`, which takes no lock. A reset is
`ResetState`, `CancelArmed`, `Look` (reads again), `Restore` per service, `Restored`,
`DropRestored`, `EndReset`. `Scale` is a person or a deploy. `taken` is a history
variable: the replicas a shutdown took from a service that ran when the notice was
given and has not run since.

Left out: the threshold alert (marked and cleared with the cap alert), dismissals and
simulation (which change nothing that is read here), order and excluded services,
KEDA objects, the manifest's hash beyond the configuration it covers, events other
than the cap's, and the lock of `AppDelete` (below).

### Checked

| run | instance | shows |
|---|---|---|
| `budget_breaker` | 2 ticks, 1 API process, 2 calls, 1 crash or foreign write, a month's end | `TypeOK`, `BlockedOnlyOverCap`, `BlockedIsAlerted`, `AlertedOncePerMark`, `ActsAsLedger` |
| `budget_shutdown` | 2 ticks, 1 process, 2 services, 3 calls, `overlap`, `set`, `clear`, `period`, 1 fault | `TypeOK`, `ShutsUnderNotice`, `ArmsOnce` |
| `budget_scale` | fair; 2 ticks, 2 services of at most 1 replica, 2 calls, 2 edits, `overlap` | `ScaleIsKept`, `NoticeEnds` |
| `budget_rearms` | 1 tick, 1 service, `set`; must fail | `ShutsOnlyOverCap` |

Two ticks are two leaders or a slow tick; three jobs are enough for a refused update
that is retried and refused again. Two caps are a raise and a lowering. Notice 1 and
cooldown 2 are different and end before the clock, the month of 2 or 3 units turns
within it; in `budget_rearms` and `budget_scale` it does not, so that what they show is
not the month's doing. The clock's end stops these runs, which therefore do not check
deadlock.

* `ActsAsLedger`: no update is lost or mixed, in any interleaving: the refinement
  `AppBudget` of `BudgetLedger` (the mapping is the identity on `now` and `ns`).
* `BlockedOnlyOverCap`, `BlockedIsAlerted`: whatever the order of raises, lowerings,
  resets and month ends. A deploy is refused only over the cap and after the alert.
* `AlertedOncePerMark`: overlapping ticks, retries and leaders send the event at most
  once per mark. A crash before `Send` loses it; nothing says it may not.
* `ShutsUnderNotice`, `ArmsOnce`: what the lock is for. A mutant without the lock
  breaks both.
* `ScaleIsKept`: a service that ran when the notice was given and was scaled to zero can
  be brought back: the record, or the tick about to write it, has its scale. Two edits
  are a service scaled down and up again on either side of a notice or a shutdown.
* `NoticeEnds`: every notice ends in a shutdown or a cancellation, however late ticks are.

Where the code disagrees with what the repository says of it: `budget_rearms`. The
documentation says that raising the cap above the spend cancels an armed shutdown.
`AppBudgetSet` clears only a tripped breaker, which auto-shutdown never trips: the next
tick finds alert and record, deletes the record because the configuration changed,
the one after arms again, and the services go down under a cap they are below.

What the model shows besides, by varying the constants of these runs:

* `ScaleIsKept` fails with `set`: a configuration change after a shutdown marks the
  record as restored, though nothing was scaled up, and the sweep deletes it, against
  `docs/reference/primitives/app/budget.md:42`. It fails with a fault: the record is
  deleted although a service could not be restored.
* A service that is at zero when the notice is given and is scaled up by hand after the
  tick has looked (`armedWindowManuallyScaledUp`, `budget_auto_shutdown.go:332`) and before it
  shuts down (line 269) goes down with a scale of zero in the record: a reset does not
  bring it back. `ScaleIsKept` speaks of the others; without that TLC finds this one with
  two edits.
* `ShutsUnderNotice` fails with two pods: the lock is in one process, a reset served by
  another pod cancels a notice that a tick is acting on, though the comment at
  `budget_shutdown.go:550` counts on the lock. `removeAppLock` (`app.go:170`) deletes
  the mutex of a deleted app while it may be held; that is not modelled.
* A month's end leaves an armed record armed; at the next crossing of the cap, in
  the next month, it is over its time and the services go down without notice.
* A cap alert marked while the action is another one keeps `block-new-deploys` from
  tripping when it is chosen afterwards.
* A tick older than the last charge sets its time back; the next one charges the
  interval again.
* A manual recovery mode is not looked at by a reset: it restores anyway.

### Fairness

`FairShutdownSpec`: what runs goes on, the leader's ticker fires, time passes. API
calls, edits and faults are not assumed. It is used by `budget_scale` without faults: a
leader that dies is replaced, which the model counts as the same ticks going on.

### Proved

`BudgetProofs`, from `LedgerAssumption` and `JobsAssumption` (caps are positive, the
bounds are naturals, the jobs are finitely many, ticks are not pods):

* `LedgerSound` (in `LedgerProofs`, from `LedgerAssumption` alone): the ledger blocks only
  over the cap and after the alert. The invariant
  `Sound` of a budget also says that the time of the last charge is that of some tick and that
  a tripped breaker is under a cap; it is kept by each of the computations, for any
  caps and month length.
* `ImplementsLedger`: `BudgetSpec => ActsAsLedger`. `JobInv` says that a copy still
  fresh is the namespace as it stands, and that a job that writes has a legal
  operation with a time not in the future: so an accepted `Update` writes what the
  ledger would.
* `BlockedSoundly` and `AlertedFirst` follow from the two: `Spec => []BlockedOnlyOverCap`
  and `[]BlockedIsAlerted` for `BudgetSpec`. `TypeCorrect` is the type invariant.
* `AlertedOnce`: the jobs about to send are counted; an `Update` that fires adds one and
  owes one, for any number of ticks.

`BudgetShutdownProofs`, from `LedgerAssumption` and `ShutdownAssumption` (the leader is a
pod, the bounds are naturals, notice and cooldown are positive), for any ticks, services
and bounds:

* `TypeCorrect`, with any pods, faults and `Env`.
* `ShutdownImplementsLedger`: `ShutdownSpec => Spec` of `BudgetLedger`: arming, firing and
  restoring leave the budget alone, and a reset, a set and a tick's accounting are one of
  its steps each.
* `LockExcludes`, under `OnePod` (the only pod is the leader): no two ticks are between
  the read of the record and its last write, and no reset runs while one is; a crash ends
  all of them.
* `ShutUnderNotice` and `ArmedOnce`, under `OnePod`: the lock makes it inductive that what
  a tick in the lock has read is still the record (`ReadInv`); so a service is shut under
  that record, and a notice is written only where there was none. Only the sweep takes no
  lock: it may delete a record that a tick has just read, but then one that has
  ended, which that tick does not act on. All faults, configuration changes and month ends
  are allowed.
* `ScaleKept`: `Undisturbed => (ShutdownSpec => []ScaleIsKept)`. `Undisturbed` is one pod,
  no faults, a budget set once, and a clock that ends before the month: the record and
  every copy of it then belong to the configuration that stands and do not expire
  (`CurrentInv`), so that of the branches of `reconcileAutoShutdown` those for
  another configuration or another month are not taken. `KeptInv` says that, except while a
  tick is shutting down, the record has the scale of every service that the shutdown took
  down, that such a tick has it, that a notice or a record that is done with stands only
  when no service is down, and which services a reset has already brought back. Each
  hypothesis is needed: with two pods, with a fault, with `set`, with `clear` or with a
  month's end after the shutdown TLC finds the scale lost.

Only model-checked: `NoticeEnds`, a liveness property.

## 6. `Provisioner`

### State and actions

One resource of one app, a database (`kind` "rds") or a cache. `db` is AWS: each
database's status (creation and deletion take their time), protection, whether it is
a replica, and three history bits: whether a record has ever named it, whether a release
has dropped it, whether an uninstall has kept it. `sg` and `subnet` are its groups, the
security group without and with its rule. `record` is the secret: there or not, deleted
(its finalizer keeps it) and what it says. A new database gets a name of its own.

The actors are the promote (`Provision`, then the calls of `Install`, `InstallReplica`,
`Import`, `Update`, `IsDbAvailable`, `GetConnectionInfo`, then `ListStates`, which
deletes the record of what the release dropped), the resolver of
`processDependency`, and the remover, which is the secret controller's
`processStateDelete` calling `Uninstall`. Each call is a step. A record is always
written whole, from a copy read earlier, and a write over a deleted record leaves it
deleted. `CallFails` is an error of any call with what the code does about it,
`Crash` a process that dies.

Left out: the parameters other than protection, import and source; restoring from a
snapshot; making a convox database an import (it would orphan the database: no
promote of the model does it); two promotes at once (they would make two databases;
the API refuses the second while the first one's atom is updating).

### Checked

`provisioner`: 2 databases and an imported one, 3 promotes of any of the releases, 2
faults, both kinds, fair. Three promotes are install, drop and install again with a
resolver or an uninstall of the first still under way. The same properties were also
checked with 4 promotes and 1 fault and with 5 promotes and none.

* `OnlyDroppedAreDeleted`: a database is deleted only if convox made it, a release
  dropped it, and its protection is off in AWS. This is about copies: an install that
  fails calls `Uninstall` on whatever the record says then, an uninstall acts on what it
  read earlier, and a resolver may bring a removed record back.
* `LostOnlyByFaults`: a database no record names was left by a call that failed or a
  process that died between creation and record, at most one by each.
* `RecordGoesLast`: the record goes only when the database that it names was asked to
  go, was kept or is not ours, unless another copy was written over it meanwhile.
* `DroppedIsRemoved`: an uninstall ends, also one that was interrupted, or came before
  the database could be deleted. The exception is an imported cache: its record has no
  subnet group parameter, which is an error at each resync
  (`elasticache/provisioner.go:1145`), so the secret never goes.

What the model shows besides:

* `GetConnectionInfo` reads the record, waits up to half an hour, and writes what it
  had read. A `deletionProtection` that a promote recorded meanwhile is lost; for a cache
  it is nowhere else, and the cache can be deleted (`redis.md:73`). A record that was
  uninstalled meanwhile comes back, and the next release takes it for an installed
  resource. With five promotes such a copy replaces the record of the next database
  during its uninstall, and the record of a live database goes: the exception in
  `RecordGoesLast`, without which TLC finds it.
* The promotion of a replica is only recorded if another parameter changed: the next
  release promotes it again, which AWS refuses, and so does every later deploy.
* A crash between the security group and its rule leaves a group without one, which
  the next install takes as it is. Groups of a database that is still being deleted are
  not deleted, and nobody tries again.
* A modification that AWS accepted and the record missed is made again by the next
  release; nothing is lost.

### Fairness

`FairSpec`: the remover goes on and is notified again by resyncs, AWS creates and
deletes what it was asked to. Promotes, resolvers and faults are not assumed.

### Proved

`ProvisionerProofs`, from `ProvisionerAssumption` (finitely many databases, the
imported one not among them):

* `TypeCorrect`.
* `DroppedAreDeleted`: `Spec => OnlyDroppedAreDeleted`. Call a database doomed if it was
  dropped or is not ours. `UninstallInv` says that a deleted record and a copy about to
  be deleted name a doomed database; that a promote that installs or imports can only
  find a record of a doomed one, and none that is deleted; and that the copies held by
  promote and resolver name the same database as the record, or one of the two is
  doomed. The last two are what makes it inductive: they bound what a late
  `SaveState` can write over.
* `LostByFaults`: `Spec => []LostOnlyByFaults`: `Lost` grows only in a step that counts a
  fault, by the one database the promote was about to record.
* `RecordIsLast`: `Spec => RecordGoesLast`: past its deletion, the database of the
  remover's copy is deleting, gone, kept or not ours, and stays so.

Only model-checked: `DroppedIsRemoved`, a liveness property.

## 7. Not modelled

`PROJECT.json` lists every part with the reason. In short:

* The marker and `syncAll` of the rack atom controller, the release cleanup and the log
  store are planned (section 2). The log store's two defects are visible in its lines
  (the cleaner has a copy of the mutex, and looks 30 s into the future).
* The other controllers forward events, and the resolver answers DNS queries from an
  informer: no state of their own that could go wrong across steps.
* The API handlers behind the admission test, the SDK, the CLI and the rack installer
  read arguments, call one operation and print; the manifest parser, the templates and
  Terraform are pure translation. These are most of the source: they are a matter for
  tests on inputs, and a model of them would restate them line by line. What has state,
  concurrency and faults is the part modelled here.
* Generated and vendored code is not the rack's.
