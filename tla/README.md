# A TLA+ model of the Stackable commons-operator

The commons-operator keeps pods of Stackable products up to date: it rolls
StatefulSets when a ConfigMap or Secret they use changes, and evicts pods whose
certificates expire. This directory models the operator's own logic, checks it
with TLC on small instances and proves the core of it with TLAPS. It also models
two scripts of the repository that have state of their own:
`scripts/auto-retry-tests.py`, the test runner, with persistence, resumption and
concurrency, and `scripts/ensure_one_trailing_newline.py`, which rewrites a file in
place.

`PROJECT.json` lists components, runs, mutants, the map from definitions to
source lines, findings, hazards and theorems.

## Inventory

| Component | State | Operations | Interacts with |
|---|---|---|---|
| `utils/delayed_init.rs` (DelayedInit) | `RwLock<ReceiverState>`, a oneshot channel | `new`, `init`, `get` / `poll` | StatefulSet controller (writer and reader), webhook (reader) |
| `restart_controller/statefulset.rs` | three reflector stores, the reconcile queue, running reconciles | watch events, `trigger_all`, `trigger_self`, `reconcile`, `error_policy` | API server, DelayedInit, StatefulSet controller of Kubernetes |
| `webhooks/restarter_mutate_sts.rs` | none of its own; reads the same stores | admission of CREATE | API server, DelayedInit |
| `restart_controller/pod.rs` | reflector store, scheduled reconciles | `reconcile`, `error_policy` | API server, PodDisruptionBudget, workload controllers |
| `main.rs` | the joined tasks, the SIGTERM watcher | start, shutdown | all of the above |
| `scripts/auto-retry-tests.py`, runner | retry counters, results, summaries, `test_run_state.json` | full run, parallel and serial retries, save, resume, rerun, report | `scripts/run-tests`, kubectl |
| `scripts/auto-retry-tests.py`, `StateManager` | run times per test, `runtime_history.json` | load, update, save, all without a lock | the worker threads of the runner |
| `scripts/ensure_one_trailing_newline.py` | a file | read, trim, rewrite | `scripts/render_readme.sh` |
| `webhooks/conversion.rs`, CRDs, `scripts/run-tests`, packaging, shell scripts | - | - | not modelled, see below |

What is hard here: reflector stores lag behind the API server, and are read at
two different times by one reconcile; the stores become readable before they
are filled; StatefulSets and pods are replaced by others of the same name while
a request about them is under way; requests fail without an answer and may
still be applied later; the operator loses everything it knows when it
restarts; the webhook races with the watches; DelayedInit is polled by several
tasks that share one waker slot; the test runner is killed between an attempt
and the save that records it, or during that save, and starts over a state file
that another run has left; its worker threads share a dictionary and a file
without a lock.

What makes each part correct:

* DelayedInit: every `get` returns, and all return the same result.
* StatefulSet controller and webhook: annotations are true statements about
  objects that existed; they converge to the current versions and the pods with
  them; nothing is rolled without need; no other incarnation is touched; no
  reconcile begins of a StatefulSet that has opted out.
* Pod controller: no expiry is forgotten, expired pods are evicted, an eviction is
  decided on no other pod, and disruption budgets hold.
* Test runner: verdicts and exit code match what happened, through crashes; the
  retries promised are made; the namespaces promised are kept; recent run times
  survive concurrent updates, and their list stays bounded.
* Trailing newline: the result is the trimmed file, and nothing else is lost.

## Modules

| Module | Contents |
|---|---|
| `WriteOnce` | abstract specification of DelayedInit: a cell filled at most once |
| `DelayedInit` | the implementation, lock step by lock step, with wakers |
| `StatefulSetRestarter` | controller, webhook, stores, API server, pods |
| `PodRestarter` | expiry controller, scheduler, disruption budget |
| `RetryLedger` | abstract specification of AutoRetry: failed tests, retries and verdicts, without processes |
| `AutoRetry` | the test runner and its state file |
| `RuntimeHistory` | the run times the test runner shares between its worker threads and keeps in a file |
| `TrailingNewline` | the script that trims the end of a file |
| `MC*` | instances for TLC |
| `*Proofs` | theorems and their proofs; AutoRetry has three such modules, which extend one another |

Definitions whose comment begins with "Mutant" are variants that carry a
plausible bug. No specification uses them; each is put in place of its original
to see that a property notices.

### DelayedInit

`state`, `readers` and `writer` are the `RwLock<ReceiverState>`; `data`, `tx` and
`rx_task` are the slot, the sender's progress and the single registered waker of
the oneshot channel. `pc[g]` is the position of a `get` future inside `poll`:
`ReadLock`, then `FastPath` or `DropReadLock`, `WriteLock`, then `AlreadyReady`,
`PollRxPending` or `PollRxReady` and `Memoize`. `Get` and `Cancel` are the caller,
`InitValue`, `SenderComplete` and `SenderWake` the `Initializer` being consumed or
dropped. A task is inside one poll at a time and, once woken, polls all its
unfinished getters (`scheduled`).

### StatefulSetRestarter

`log[o]` is the history of a ConfigMap or Secret; an index into it stands for
`uid/resourceVersion`. "hidden" is an object labelled
`restarter.stackable.tech/ignore=true`. `sts` is the StatefulSet of one name with
the references of its pod template, its ignore annotations, its label
`restarter.stackable.tech/enabled=true` (`on`) and the restarter annotations `ann`; `pod` is a pod with the template it was made from and the
versions it loaded. `phase` and `pos` are the two metadata watches and stores;
`phase[k] # "off"` is also the condition of the DelayedInit of kind `k`, which
`inspect` fulfils at the first watcher item, before the list is in the store.
`job` and `adm` are the two callers of `get_updated_restarter_annotations`: each
reads ConfigMaps (`step = "cms"`), then Secrets, then is ready to patch or to
answer. `late` is a patch whose answer was not awaited.

`Selected` is the label selector of the StatefulSet watch: taking the label off is to
the store a deletion. `WatchStart`, `ListPage`, `InitDone`, `WatchEvent`, `WatchLost` and `StsEvent` are
the streams of `start`, including the trigger each item causes. `StartReconcile`,
`ReconcileReads`, `PatchApplied`, `PatchRefused` and `PatchTimeout` are
`reconcile` and `error_policy`; `RequestCreate`, `WebhookReads` and
`WebhookUnanswered` the webhook.

Abstractions: one StatefulSet name; events of the StatefulSet that follow one another
before the first is delivered arrive as one; the delay of a requeue is left out, so a retry
may come at any time; a patch equal to what is stored makes no event; a
StatefulSet that does not deserialize (which `error_policy` leaves alone until it
changes) and other owners of the annotation fields are left out. `OperatorRestart`
stands for a crash and for SIGTERM: nothing is written at shutdown, so a graceful
end loses what a crash loses. The webhook's JSON patch is modelled by the
annotations it sets; the operations that create missing paths are left out, as the
objects the API server sends have `spec.template.metadata`.

### PodRestarter

Times are numbers, `Bad` an annotation that is not RFC 3339. `pod[p]` is the pod
of that name in the API server, `news[p]` says that the watch has yet to deliver
it, `store[p]` is the reflector's copy, `due[p]` the scheduler's entry,
`evicting[p]` a reconcile awaiting the answer of an eviction, `late` the evictions
whose answer nobody awaits any more, because the connection was lost or the operator
has restarted: the API server may still carry them out (`LateEviction`). The watch has
no predicate, so any change of a pod is an event and starts a reconcile, also one that
leaves its expiry alone, such as a status update or the condition that an eviction
itself sets (`PodTouched`). The exits of `reconcile` are `ReconcileIgnored`, `ReconcileUnparsable`, `ReconcileValid` and
`ReconcileExpired`; the answers are `Evicted`, `EvictRefused` (404 or 429) and
`EvictUnanswered`. `report_result` only picks a log level.

### AutoRetry

`runner` holds the fields that `build_state_data` saves, `results` the lists the
retry functions return, `disk` the state file. A save is two steps, because the
file is opened with mode `w` and then filled: `SerialResult` ends with the file as it
was or already emptied (`Corrupt`), `SerialSaved` fills it with the counters from before
the attempt and then updates them, in the order of the source. A save that fails leaves
the old file, if it could not be opened, or a corrupt one. `Crash` may come
between any two steps, and a later process may be a `Resume`, a `Rerun` or another
`FullRun`, which neither reads nor removes the state file it finds. The history
(`initial`, `passed`, `allRuns`) is kept per full run, and `run` in a runner or a
state file says which one its tests belong to; the program has no such number.
`results` is what this process has run: `NamespacesManaged` speaks of its attempts, and
adds that in a run nobody resumed or reran they are all there are. A process that
continues a run does not know which namespaces the one before it kept: it neither
deletes them when the test passes nor names them when the test, its attempts used up,
is reported failed without a run.
`ParallelError` is a worker whose exception hides its result; one cause is
`IterationFails` of RuntimeHistory. Worker count, log files and report texts are
left out.

`RetryLedger` has neither processes nor a file: full runs fail with some tests,
those tests and no others are tried again, and a report has a verdict on each of
them that the passes and retries bear out. AutoRetry implements it with its history
and the verdicts in memory (`ImplementsLedger`). A failed verdict on a test that has
passed is allowed there, since a result may be lost; `VerdictsAreRight` says when it
is not. That a failed test which never passed has had all its retries
(`FailedWasFullyRetried`) is a part of what the ledger says, and is proved on its own.

### RuntimeHistory

`mem` is the dictionary `runtime_history`, `file` its file, which is `Unreadable`
when missing, empty or damaged. `Load` and `LoadSaved` are the start of a process,
which writes the loaded history back. `Attempt` is a batch of tests, one for a
serial attempt; `pc[t]` is where the worker of test `t` is in
`update_runtime_history`: `Update` makes an entry, `AppendRuntime` and
`TrimRuntimes` are the two halves of `add_runtime`, `CopyEntry` one step of the
comprehension in `save_runtime_history`, which fails (`IterationFails`) when the
dictionary has grown meanwhile, and `OpenFile` and `WriteFile` the two halves of the
save. Either half may fail (`OpenFails`, `WriteFails`): `safe_json_operation` prints a
warning and returns False, which `update_runtime_history` ignores, so the file is old,
cut short or, if the directory is gone, missing, and then the FileNotFoundError also
drops the result. Two workers that write at once, each from its own offset, may leave
the copy of one of them, no JSON, or JSON that neither wrote: the constant `Garbled`
is the set of such contents, anything of the right shape for the proofs, an overlong list
for TLC. (JSON of another shape, which would make `load_runtime_history` raise, is left
out.) A run time
is the number of the run, so that the properties can tell runs apart; runs below
`MIN_RUNTIME_THRESHOLD` are `Update` with `long = FALSE`.

### TrailingNewline

The loop over the lines from the end is `TrimBlank` and `TrimEnds`, one line a step;
`Newline` is the rest of `process_lines`, with the IndexError of a file without
text; `OpenForWrite` empties the file and `Write` fills it. `Kill` may come between
any two steps and may leave a part of the lines in the file; `RenderReadme` is
`scripts/render_readme.sh`, which renders the file from its template before it calls
the script. A line is its content and whether it ends with a newline
character; the translation of other line ends by Python's text mode is left out.

## Runs

Passing runs:

| Run | Checks |
|---|---|
| `DelayedInit_cell` | three getters on two tasks, two values: `TypeOK`, `Agreement`, `NoDeadlock` (the getters never all wait on the RwLock), `ImplementsWriteOnce` (refinement), `PollTerminates` (no poll goes on forever), `RegisteredTaskReturns` (no wake-up lost within a task) |
| `StatefulSetRestarter_safety` | a ConfigMap and a Secret, two incarnations, late patches, a lost watch, a crash: `TypeOK`, `AnnotationsAreReal`, `PodsHonourAnnotation`, `NoForeignPatch`, `RestIsCurrent` (nothing is left to do only when everything delivered is rolled out), `AnnotationMonotone`, `UpToDateUntilRestart` |
| `StatefulSetRestarter_convergence` | a ConfigMap, edits, label changes, patches without an answer, a lost watch, a crash: `OptOutHonoured`, `Converges`, `PodsEventuallyCurrent`, `DeletionsFollowed`, `EventuallyQuiet` |
| `PodRestarter_expiry` | two pods, a budget, any events, one disturbance: `TypeOK`, `ExpiryIsScheduled`, `BudgetRespected`, `EvictionsDecidedOnExpired`, `ExpiredIsEvicted` |
| `AutoRetry_retries` | two tests, three command lines; a resume, a rerun and an error, or a resume and a log without a namespace, or a second full run and a resume: `TypeOK`, `VerdictsAreRight`, `NamespacesManaged`, `GreenMeansPassed`, `NoRetryAfterPass`, `LoopsAreBounded` (every step leaves less to do), `ImplementsLedger` (refinement), `Terminates` |
| `RuntimeHistory_workers` | two tests on two workers, two processes, lists of two runs, failing saves: `TypeOK`, `NewestRunsKept`, `BoundedHistory`, `LoneUpdateIsSaved`, `DroppedOnlyByNewTest` |
| `TrailingNewline_files` | every file of up to four lines: `TypeOK`, `ResultIsTrimmed`, `FileKept` |

Runs that are expected to be violated state what a document or comment of the
repository says and show that the code does otherwise; the findings in
`PROJECT.json` quote the text.

| Run | Property | What happens |
|---|---|---|
| `DelayedInit_two_tasks` | `EveryGetReturns` | getters of two tasks wait, the second waker overwrites the first, the first getter sleeps on |
| `StatefulSetRestarter_projected` | `AllReferencesFollowed` | projected volumes are not looked at |
| `StatefulSetRestarter_restart_rolls` | `UpToDateAnnotationStays` | after an operator restart, a reconcile reads a store not yet filled |
| `PodRestarter_replaced` | `OnlyExpiredEvicted` | an eviction by name hits the replacement: an event during the awaited eviction starts a second reconcile from a store that lags behind, with no user and no failure involved |
| `AutoRetry_resume_forgets` | `FailedMeansNeverPassed` | a resumed process reports a passed test as failed |

The last three have a passing counterpart: `UpToDateUntilRestart` is
`UpToDateAnnotationStays` as long as the operator does not restart, no request arrives
late and the reconcile did not begin before the owner's last edit of the manifest;
`EvictionsDecidedOnExpired` is what holds of evictions, at the time they are decided:
the pod has expired or its last change is still to be delivered; `VerdictsAreRight` is
the statement for a single process that loses no result.

The models show a few more things that no run is spent on. The webhook may answer
from a store that lacks a ConfigMap already created, and the fresh pod is then
rolled. One unparsable expiry annotation keeps a pod from being evicted for its
other ones, as a comment in the code says. In the test runner, the file is saved
before the counter it contains is updated, so a resumed process repeats a serial
attempt (in the safe direction: `FailedWasFullyRetried` rests on it); a suite that
could not run at all, and a rerun from an unreadable file, exit with 0; when the
last attempt logs no namespace, the report names the one of an earlier attempt,
which was deleted; and a resume after the early crash of a second full run continues
the first one, consistently, without saying so. A deletion that falls into a lost
watch is not followed until something else happens, if no other object of its kind
is listed (`DeletionsFollowed` excepts it). A list of run times can exceed
`MAX_RUNTIME_HISTORY` by one run per process (`BoundedHistory` states the bound that
holds), and parallel workers may leave a file that is no JSON until the next attempt
of a single test whose save succeeds. A kill during `LoadSaved` loses the run-time history.

### Bounds

Three getters are the least with two on one task and one on another. Two events
per object give creation and change (or deletion, or relabelling), so that a stale
store differs from the current state; two incarnations give re-creation; one lost
watch, one timeout and one crash can each fall between any two other steps. Two
pods and a budget of one give refusals; the clock runs past every expiry used. Two
tests give the interplay of a finished and an unfinished test in the state file; a
resume and a rerun give a resume after a rerun that left the older file in place,
and a second full run a resume that meets the file of the first. Two workers and a
list of two run times let a worker save what another has appended and not yet cut;
five runs of a test fill the list and let it exceed, if it is not cut, the bound of
the second process too. Four lines
give text before, between and after blank lines.

`StatefulSetRestarter` and `AutoRetry` count disturbances in `used` and bound them by
`Budgets`: a budget is a scenario, the disturbances that may happen together, and an
instance checks the union of its scenarios. So each disturbance meets each other one
that it can interact with, without their full product. Bounds are guards of the
environment's actions, of new processes, and, in `RuntimeHistory`, of recorded runs.
The clock of PodRestarter stops at `MaxTime`; times beyond it are brought forward to
it. `RuntimeHistory_workers` uses the symmetry of the tests; it checks only
invariants.

### Fairness

`DelayedInit`: weak fairness for the steps inside a poll, strong fairness for
getting the locks (the standard library's RwLock does not starve a waiting
writer), weak fairness for a sender that has begun; none for callers, `init`,
cancellation or spurious wakes. `StatefulSetRestarter`: weak fairness for watch
delivery, the steps of reconciles and answers, and rolling pods; none for users,
the webhook, lost watches, timeouts and crashes. `PodRestarter`: weak fairness for
the clock, delivery, reconciles, answers, and the workload controller; none for
users and faults. `AutoRetry`: weak fairness for the steps of a live process,
which assumes that `run-tests` ends (kuttl has timeouts; the script sets none).

`RuntimeHistory` and `TrailingNewline` have safety properties only and no fairness.

Deadlock is checked for `TrailingNewline`, where a run can always be followed by
a new rendering; the other systems rest when the bounded environment does.

## Proofs

Every theorem holds for all values of the constants that satisfy the named
assumptions, whatever the bounds.

* `DelayedInitProofs`: `TypeCorrect`, `AgreementHolds`, `NoDeadlockHolds`,
  `Refinement`. The inductive invariant adds to the types that `writer` is the getter
  inside the write section, that `readers` are those looking at the state, that a getter holding an unmemoized value does so in that section while
  the state is Waiting and the channel complete, and that nothing is
  returned before the state is Ready. Agreement alone is not inductive: two
  getters could otherwise each take a value. `NoDeadlock` follows from who holds the
  lock: a holder is inside a poll and waits for nothing.
* `StatefulSetRestarterProofs`: `TypeCorrect`, `AnnotationsRealHolds`,
  `PodsHonourHolds`, `NoForeignPatchHolds`, `OptOutHolds`, `AnnotationMonotoneHolds`,
  `RestIsCurrentHolds`, `UpToDateUntilRestartHolds`.
  The invariant says that stores do not run ahead of the log, that the annotations in
  the StatefulSet, its store copy, the running reconcile, the late patch and the
  admission are all real versions, and that a pod has loaded at least what its own
  template names. `LabelInv` adds that the store holds what the watch selects
  of the StatefulSet once it has delivered everything, and that the webhook is asked
  only about labelled ones. For `AnnotationMonotone`, `OrderInv` adds that no
  annotation is newer than the store it came from knows (`SeenInv`), unless a restart
  has emptied that store, that a running reconcile holds nothing older than the
  annotations in place or in a late request (`JobInv`), and that uids in use have been
  given out (`UidInv`): alone, the property says nothing of the reconcile that is about
  to write. `RestInv` is the safety core of convergence: unless a reconcile is
  scheduled, or its delivery of the StatefulSet is under way, the annotations match the
  stores, and those that a running reconcile has already read match them too, so an
  event that falls between a read and the patch leaves a trigger behind.
  `FirstListInv` says that a store is empty until its first list is complete, as long
  as no watch was lost, and `CfgInv` bounds what pods have loaded, which carries the
  result over to them. `FreshInv` is the one for `UpToDateUntilRestart`: before the
  first restart, the stores have seen every version an annotation names (`CaughtUp`),
  so a reconcile that has read an object whose annotation is current has read that
  version (`ReadsCurrent`).
* `PodRestarterProofs`: `TypeCorrect`, `ExpiryIsScheduledHolds`,
  `BudgetRespectedHolds`, `EvictionsDecidedOnExpiredHolds`. The invariant adds that the
  store agrees with the API server once no event is under way (`StoreInv`): alone, the
  properties say nothing of the store that decisions are made from.
* `AutoRetryProofs`: `TypeCorrect`, `GreenMeansPassedHolds`, `LoopsAreBoundedHolds`.
  The invariant
  `RetryInv` says that a success among this process's results is a pass of that
  test, that a live process and a readable state file name exactly the tests that
  failed in their full run, that neither a state file nor a process before its
  report has a summary, and that a report calls each of those tests failed unless
  it has passed. `GreenMeansPassed` alone is not inductive: it says nothing of the
  results, the memory and the file that the next report is made from.
  `LoopsAreBounded` is the safety half of `Terminates`: a lexicographic measure of the
  phases, attempts, futures and tests still ahead decreases with every step of a live
  process; it uses that the suite is finite. That a process takes its steps is the
  fairness, and stays with TLC.
* `AutoRetryVerdictProofs`: `FailedWasFullyRetriedHolds`, `VerdictsAreRightHolds`,
  `NoRetryAfterPassHolds`. `CountInv` compares the counters with the attempts really
  made: those in the file (`DiskCount`), those of the parallel loop, in which a test
  that is still pending is one attempt behind (`ParallelCount`), and those of the
  serial loop (`SerialCount`). The counters never exceed the attempts, so a resumed
  process does not skip any. `VerdictInv` says that a report is made from the results
  of its process, `RecordInv` that, as long as nothing was lost, those hold every pass
  of the run, and that nothing that has passed is waiting for another attempt.
* `AutoRetryNamespaceProofs`: `NamespacesManagedHolds`, `ImplementsLedgerHolds`. `NamespaceInv` says that a
  process begins with all parallel attempts or makes none, since the state file is
  written during serial ones only (`ResumeInv`), that a test is not run beyond its
  first success (`OnceInv`), that only the last attempt can have kept its namespace
  (`KeptInv`), and that it has when it failed under a command line that keeps it
  (`DoneInv`); `OwnInv` says that, when nothing was lost, the results of a process are
  those of all attempts of its run. The refinement rests on all the invariants of AutoRetry: a test run is a
  `Try` because only failed tests wait for one (`OnceInv`, `FailedInv`), a report is one
  that the ledger allows because of `CountInv` and `VerdictInv`, a full run is recorded
  once because nothing is known of it before (`NewRunInv`), and the start or the death
  of a process is a `Forget` because no file carries a verdict (`DiskInv`).
* `RuntimeHistoryProofs`: `TypeCorrect`, `NewestRunsKeptHolds`, `BoundedHistoryHolds`,
  `LoneUpdateIsSavedHolds`, `DroppedOnlyByNewTestHolds`. The invariant adds which
  threads a batch has and where they are (`BatchInv`), that a thread alone in its batch
  copies the memory as it is and is not interfered with, so that its file can differ
  from the memory only if its own save has failed (`LoneInv`), that only new tests make
  the dictionary grow (`KnownInv`), and the lengths of the copies as long as no file was
  mixed (`BoundInv`).
* `TrailingNewlineProofs`: `TypeCorrect`, `ResultIsTrimmedHolds`, `FileKeptHolds`,
  for files of any length. `LoopInv` is the invariant of the loop,
  that the lines counted are the last ones and blank; `TrimmedInv` says that what is
  to be written is the trimmed file.

TLC finds every inductive invariant to hold on the instance of the module's passing
run too (for StatefulSetRestarter, of its safety run).

Every invariant and every action property that a passing run checks is proved. Only
model-checked: the liveness properties (`PollTerminates`, `RegisteredTaskReturns`,
`Converges`, `PodsEventuallyCurrent`, `DeletionsFollowed`, `EventuallyQuiet`,
`ExpiredIsEvicted`, `Terminates`), as the prover does not treat fairness and ENABLED.
Four of them have a safety core that is proved: `NoDeadlock` of `PollTerminates`,
`RestIsCurrent` of `Converges` (a controller that is not where it should be has
something to do), `ExpiryIsScheduled` of `ExpiredIsEvicted`, `LoopsAreBounded` of
`Terminates`.

## Not modelled

The conversion webhook and the CRDs are wiring and generated data for a library.
The end-of-support checker, telemetry and event reporting do not influence the
modelled state. `main` joins the tasks; what a task's end means for the others is
covered by `OperatorRestart`. The webhook's rejection when a store is dropped cannot
happen while the stream that owns the Initializer is polled. `scripts/run-tests` is
a sequential wrapper of external tools that keeps nothing between two calls, seen by
AutoRetry as a test run. Helm charts, Nix and Docker files, CI and the other shell scripts
have no behaviour to model. The report of the test runner, its statistics and its log
file names are formatting; reading the code for the model showed that a suite
without any failure has a success rate of 0.0 % in its report, that a test with only
short runs is listed as the fastest, and that a resumed process overwrites the logs of
earlier attempts with the same number.

## Plan

1. Done: DelayedInit with its abstract specification; StatefulSetRestarter with the
   webhook, the opt-out label and deletions; PodRestarter; AutoRetry with repeated
   full runs; RuntimeHistory; TrailingNewline; the theorems above.
2. Done: proofs of all safety properties that the passing runs check; an abstract
   specification of AutoRetry and the proof that it is implemented.
3. An abstract specification of the restarter (annotations follow objects) that
   StatefulSetRestarter implements, and a safety core of `EventuallyQuiet`: a
   reconcile that finds nothing to change triggers nothing.
