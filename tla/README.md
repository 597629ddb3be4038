# Formal model of the llm-grill platform

TLA+ modules, TLC configurations and TLAPS proofs kept beside the platform that
benchmarks LLMs on short-lived Scaleway GPU VMs. The reference is the code under
`src/`; `PROJECT.json` maps every definition to the lines it models.

## 1. Inventory: the system's parts

| Part | Code (under `src/`) | State it keeps | Operations |
|---|---|---|---|
| Polling loop, provisioning, release, watchdogs, recoveries | `orchestrator/src/orchestrator.py` | none durable: asyncio tasks, `_GPU_QUOTA` | `polling_loop`, `poll_once`, `handle_queued_run`, `release_node`, `reap_*`, `recover_*` |
| Run table | `repositories/run_repository.py`, `models.py` | rows of `runs`, `results` | one transaction per method |
| Node table | `repositories/node_repository.py` | rows of `nodes` | one transaction per method |
| Runs API | `services/run_service.py`, `controllers/run_controller.py` | none | create, complete, fail, phase, logs |
| Bench submission | `services/bench_service.py` | none | submit, pending_run_count, publish_catalogs, bench_status |
| Object storage | `storage.py` | S3 objects: results, latest pointers, meta, leaderboard, logs, catalogs | uploads, head, read-modify-write of the leaderboard |
| Terraform adapter | `infra/terraform.py`, `infra/gpu-vm/` | a workspace directory and a state object per run; the VMs | `provision_node`, `destroy_node` |
| Runner | `runner/runner.sh`, `infra/gpu-vm/cloud-init.tpl.yaml` | its own progress inside a VM | download, serve, benchmark, report |
| CI bench cycle | `.github/workflows/bench.yml`, `bench-cleanup.yml`, `infra/orchestrator-vm/` | the orchestrator VM and its terraform state, GPU state objects | apply, submit, wait, reap, tear down |
| Nodes and results APIs | `services/node_service.py`, `services/result_service.py` | the tables above | register, deregister, reads |
| Catalogs | `catalog.py`, `bench_service._publish_catalogs`, `.github/workflows/publish-catalogs.yml` | S3 objects: models, scenarios, engines | derive, put |
| Site | `site/src/lib/data.ts` | a page's copy of the objects | `fetchCatalogs`, `buildView` |
| Pure parts | `aggregation.py`, `infra/scaleway.py`, `_classify`, `select_gpu` | none | functions |
| Wiring | `config.py`, `auth.py`, `schemas.py`, `db.py`, migrations, site components | settings | – |

How they interact. One Python process runs the HTTP API and the polling loop on
one event loop. The loop claims queued runs, type by type, within the GPU quota
and starts one `handle_queued_run` task for each; that task writes a node row,
stages a terraform workspace, applies it, and marks the run running. The VM's
runner then posts `/complete` or `/fail`; the answer schedules a `release_node`
that destroys the VM. Two watchdogs fail runs that overstay in `provisioning` or
`running` and release them; two recoveries at startup pick up what a crash left.
Nothing but the rows of the run table, the workspace directory and the state
object of a run tells these coroutines about each other: there is no lock and no
cancellation. A task that was given up on goes on.

Hard behaviours, and what makes each part correct:

- *interleaving at every `await`* of tasks, watchdogs, recoveries and requests on
  one run: one driver per run, no VM taken from under a running attempt, a result
  that nothing undoes;
- *a capacity count that is stale* when it is used: never more live runs than GPUs;
- *crashes* between any two transactions and inside `terraform apply`: what was
  lost is recovered by exactly one task, within one budget of attempts;
- *hangs*: terraform has no timeout and the VM may never answer, yet every run ends;
- *partial failures*: destroys that fail three times, S3 that fails after a commit,
  lookups that raise because a run has two rows;
- *several calls to S3 that belong together*: nothing published without a committed
  result, pointers of a pair that agree, a leaderboard rewritten from a stale copy;
- *checks apart from the insert they guard*: an entry submitted twice, or again;
- *two workflow cycles at once*, each with a teardown of what they share, over a terraform
  state without a lock and calls whose failure looks like success: no VM left that its
  state object records, and a green cycle that has its results;
- *reports that get lost, and a runner that is killed anywhere*: every end of a VM is
  reported by the script, its trap, the systemd unit or cloud-init, log before report;
- *a row read in one session and written in another* (the nodes API);
- *three objects published one after the other* by several publishers (catalogs).

`PROJECT.json` lists them, line by line, under `hazards`.

## 2. Modules

| Module | Models | State |
|---|---|---|
| `RunIds` | the identities of runs | – |
| `RunTable` | `RunRepository`: each operator one committed transaction | `status`, `attempts`, `endedAt`, `overdue`, `resultRow` |
| `NodeTable` | `NodeRepository` for one run's rows: the one under its placeholder key `node-<run id>` and the one `set_busy` renamed | `placeholder`, `instance` |
| `GpuCloud` | `provision_node` / `destroy_node` against the cloud: workspace, recorded VM, VMs without a state object, what each VM's runner may still send | `workspace`, `tracked`, `stray`, `runner` |
| `Orchestrator` | composes the three; one action per stretch of code between two awaits | `prov`, `tail`, `handler`, `failing`, `rel`, `tries`, `poller`, `live`, `todo`, `crashes` |
| `RunLifecycle` | abstract: what a client that polls a run may see | `phase`, `spent`, `result` |
| `ResultStore` | `storage.py`: the objects of the results bucket, one operator per S3 call | `runResults`, `latest`, `meta`, `board` |
| `BenchService` | `bench_service.submit` and the publication part of `RunService.complete`, for requests in flight at once; the life of a run is `RunLifecycle`'s | `phase`, `spent`, `result`, `reqAt`, `reqRun`, `seen`, `subAt`, `todo`, `cur`, `force`, `faults` |
| `GpuFleet` | abstract: `RunLifecycle` and what is left in the cloud for each run | `ended`, `applying`, `destroying`, `tracked`, `stray` |
| `BenchCycle` | `bench.yml` and `bench-cleanup.yml`, several cycles at once, around an orchestrator of which it takes `GpuFleet` | `servers`, `recorded`, `copy`, `host`, `loop`, `key`, `at`, `posted`, `verdict`, `keys`, `reaped` |
| `LogCut` | the two cuts of a log: `_post_logs` and `attach_logs` | – |
| `Runner` | one GPU VM: cloud-init, `runner.sh`, the systemd unit, and the handlers of its requests | `at`, `call`, `periodic`, `uploaded`, `inflight`, `status`, `phase`, `log`, ... |
| `NodesApi` | the rows of `nodes` by primary key, written by the orchestrator and by two-session requests of clients | `rows`, `task`, `release`, `ended`, `vm`, `req` |
| `Catalogs` | the three public catalogs, their publishers, the leaderboard's keys and a page load | `head`, `object`, `at`, `of`, `created`, `listed`, `board`, `page` |
| `MC*` | constants, symmetry and constraints for TLC | – |
| `OrchestratorProofs` | invariants of `Orchestrator` about runs, tasks and the quota, proved for every value of the constants | – |
| `RefinementProofs` | proof that `Orchestrator` implements `RunLifecycle` | – |
| `FleetProofs` | its invariants about node rows, VMs and results, and proof that it implements `GpuFleet` | – |
| `BenchServiceProofs`, `BenchCycleProofs`, `RunnerProofs`, `CatalogsProofs` | the safety properties of those modules, proved | – |
| `NodesApiProofs` | the same for `NodesApi`, and proof that it implements `NodeTable` | – |

### How state and actions correspond to the code

- `prov[r]` is where `handle_queued_run` of run `r` stands: `node`
  (`create_provisioning`), `stage`, `apply`, `output` (`provision_node`), `busy`,
  `running`, and on failure `sdestroy`/`sforget` (`_safe_destroy`), `requeue`,
  `down`, `fail`. `tail[r]` counts the tasks in the one case in which a run may be claimed
  again while an earlier task of it is unfinished: the requeue is committed and the
  `set_down_by_run` after it is not.
- `rel[k][r]` is a `release_node` of `r` started by origin `k`; `destroy_node` takes
  two steps in it (`terraform destroy`; then deletion of the state object and
  of the workspace), because an apply of the same run may write between them.
  `tries` counts failed attempts. `finish` and `giveup` are what the awaiting
  coroutine still has to do.
- `handler[r][v]` is the `/complete` of VM `v` in flight and `failing[r]` the number of
  `/fail` requests in flight: the status check has been made, the effects have not.
  `runner[r][v]` is what that VM may still send. It need not wait for an answer: a
  container that is killed, or a `curl` that gives up, while its `/complete` is handled
  leaves that request to the orchestrator, and its unit's ExecStopPost posts `/fail`
  beside it (`PostFail` from `sent`).
- `poller`, `live`, `todo` are `polling_loop` and the snapshot `poll_once` works from.
  `Booting` is the stretch before its first `poll_once`.
- `overdue[r]` stands for the age of the timestamp a watchdog compares: `Timeout(r)`
  sets it at any moment in a live status, claims and `set_running` reset it.
- `Crash(kept)` ends every task, request and terraform child. `kept` says whether
  the container's disk, and so the workspaces, survive. An apply may have made a VM
  it had not recorded.

In `BenchService`:

- `reqAt[q]` is the call a `/complete` request of run `reqRun[q]` awaits next, in the
  order `FollowedBy`; `seen[q]` is the leaderboard it has read. A call that fails
  ends the request, and its write may have landed all the same.
- `subAt[s]` is where a `POST /bench` stands with entry `cur[s]`; `todo[s]` are the
  entries the filter left, in any order. `DirectRuns` come from `POST /runs`, which
  checks nothing.
- `RunMoves` is the rest of the system: it takes the steps `RunLifecycle` allows,
  which `Orchestrator` is proved to implement. A run for which a `/complete` has been
  accepted is not put back (`Unattended`); that is part of `Handover`, proved in
  `OrchestratorProofs`. `RunLifecycle` does not tell provisioning from running, so
  `Accept` admits a few requests the code refuses.
- The database outlives a `Crash`. In CI it does not outlive the cycle; an empty
  database looks to this module like one in which every run is over.

In `BenchCycle`:

- `at[c]` is the step cycle `c` is at, a step being one of the workflow that can fail
  by itself; `verdict[c]` the outcome of its jobs. `green` is a success in which every
  call was answered; a success that took an unanswered call for a good answer
  (`curl | tee` in "Submit runs", an empty `FAILED` in the verdict) is `red` here, though
  GitHub shows it green: the properties promise nothing of it.
- A terraform command takes two steps. It reads the state into `copy[c]`, and later
  creates, keeps, replaces or destroys what that copy names and writes the copy to
  `recorded`: nothing locks the state, so the last to write wins. `servers` are the
  orchestrator VMs there are, each called after the cycle that created it; `host[c]` is
  the one whose address cycle `c` was given. A command that fails, or whose job is
  cancelled, stops anywhere between the two (`StopsMidway`); `cutOff` says that one had
  created a VM by then, and counts as a fault; `overlapped` that two were at work at a
  time.
- `key[v]` is the cycle whose API key server `v` was deployed with; another cycle's POST
  is refused. A run is `Lost` when the server with its database is gone.
- The orchestrator's steps are those of `GpuFleet`; `loop[v] = "dead"` is `polling_loop`
  ended by an error of a recovery, with `/health` still answering.
- `keys[c]` and `reaped[c]` are the reaper's list of state objects and the one between
  its `terraform destroy` and its `aws s3 rm`.

In `Runner`: `at` is the step of the VM and `call` its foreground request; a request
that has passed the status check of its handler is in `inflight` until it takes
effect, with who waits for it. When the sender gives up, or is gone, it goes on as
somebody's orphan. A phase report takes two steps more: the check of
`RunRepository.set_phase` (`CheckPhase`), which locks nothing, and its commit
(`WritePhase`), which writes the phase whatever the row has become. `left` is the step
at which the runner turned to its report; `orphaned`, `adrift` and `reaped` remember
that a last report or a phase report was left behind, or that a watchdog has claimed
the run.

In `NodesApi`: rows are keyed by placeholder id, instance id or an operator's own id;
`req[c]` is what a client's handler has read and has yet to write. A run may be ended, and
its `release[r]` start, while its `task[r]` is still at work, as the watchdog and `/fail`
do; `preempted` are the runs this happened to before `set_busy`. The crash between
`set_busy` and `set_running` is `Orchestrator`'s (`TwoRowsNeedCrash`).

In `Catalogs`: an object is the commit it is derived of; a page is loaded by two
requests in any order. A put whose call raises may have landed, as in `BenchService`.
Runs come from submissions (`listed`) and from `POST /runs`, which takes any model. The
engines catalog is derived from the `Engine` enum, which is not among the `paths` that
trigger the job; here every push may be published.

Abstractions, each visible in the definitions: a transaction is atomic and the
database does not fail; a second release of the same origin for the same run, while
the first is at work, is merged with it; a run has at most as many VMs as `Vms`
has names; a missing scenario file is one of `ApplyErrs`; publication to S3 is, in
`Orchestrator`, a call that succeeds or fails (`BenchService` has its parts); the
content of an S3 object is the run it is about; texts and timestamps are left out; logs
and phases are only in `Runner`, a failing database only in `BenchCycle` (`Boot`). A VM's
reboot is only in `Runner`; the loss of a whole VM only in `Orchestrator`, whose runners
need not send anything, and there the watchdogs see to it. In `Orchestrator` a runner
whose `/complete` was answered well posts no `/fail` any more: it would be refused.

## 3. Runs

Bounds: `MaxAttempts` 2 instead of 30 (a retry, and the last attempt), one release
attempt instead of three (`two_runs` has two: no property depends on how many failures
precede a release's giving up), one crash (which may fall
between any two steps, recoveries included; a crash before the first and after the
last step of every protocol is among them). One GPU type in all runs: types share
nothing but the order of the loop.

| Run | Instance | Checks |
|---|---|---|
| `one_run` | 1 run, 2 VM names, 2 attempts, 1 release try, 1 crash | type invariant, `OneProvisioner`, `ResultIsFinal`, `ResultOnce`, `RetryBudget`, `RunningHasVm`, `TwoRowsNeedCrash`, `ProvisioningIsOwned`, `DoneStays`, and the refinement `ImplementsLifecycle` |
| `two_runs` | 2 runs, quota 1, 2 attempts, 2 release tries | `QuotaKept` with runs that go back to the queue |
| `liveness` | 1 run, 2 attempts, 1 release try, 1 crash, fair loop and deadlines | `EveryRunEnds`, and the refinement `ImplementsFleet` |
| `publish_serial` | 2 runs of one entry and 1 of another, 1 `/complete`, 1 submission, 1 fault | `TypeOK` of `BenchService`, `PublishedTogether`, `QueuedOnce` |
| `publish_race` | the same runs, from `POST /runs`, 2 overlapping `/complete`, 2 faults | `DoneHasObjects`, `DedupIsBacked`, `EntryIsBacked` |
| `bench_cycle` | 2 cycles, one with a run to create, 2 attempts, 1 fault; cancellations and timeouts are free | `TypeOK`, `NothingRecordedLeft`, `GreenIsEarned`, `GreenTeardownIsQuiet` |
| `runner` | 1 VM, 2 of the 5 phases, 1 fault (lost request or answer, reboot, watchdog); kills are free; logs at, one above and far above the limit of 10 bytes | `TypeOK`, `SilentNeedsExcuse`, `LogBeforeReport`, `StoredLogIsFaithful`, `DoneStays`, `PhaseFrozen`, `ReportArrives` |
| `nodes_api` | 2 runs, 1 own id, 2 clients | `TypeOK`, `BusyFindsItsRow`, `LeakIsFindable`, `TwoRowsNeedRace`, and the refinement `RowsImplementNodeTable` |
| `catalogs` | 3 commits (one adds an entry, one removes one), 1 job, 1 server, 1 fault | `TypeOK`, `CatalogsAgree`, `RowsDescribed`, `HeadIsLive` |

What they show:

- `OneProvisioner`: a run in provisioning is driven by its task or by the recovery,
  never both, and no other run is driven at all. Runs reaped while their task goes on
  are `failed` *with* a driver, which is why the code can bring them back.
- `ResultIsFinal`: that late task never meets a run with a committed result: the
  status checks of the two requests, the claim and the recovery exclude it together.
- `ResultOnce`, `DoneStays`: a done run has its row. It may leave `done` in exactly two
  ways, both of them unconditional writers that took their decision before: the
  running watchdog after its release, and a `/fail` accepted before the run completed.
  No crash is needed for the second: the unit of a runner that was killed while its
  `/complete` was handled posts it. Once the run is done no `/fail` is accepted.
- `RetryBudget`: the two callers of `requeue_for_retry` share one budget across crashes.
- `RunningHasVm`: no release of an earlier life destroys the VM of a running attempt
  (unless the run had already ended once).
- `TwoRowsNeedCrash`, `ProvisioningIsOwned`: a second node row needs a crash; and that
  second row is the only way a run in provisioning is left without a driver.
- `QuotaKept`: the runs that never ended stay within the quota although the count is
  taken before the claims. Runs revived by a late task are outside this promise;
  their row has `ended_at` set.
- `EveryRunEnds`: under the fairness below every run is, from some point on, over.

- `DoneHasObjects`, `DedupIsBacked`, `EntryIsBacked`: the order of the six calls is
  what makes every prefix of them harmless. Two runs of one entry and one of another
  are the smallest set in which a stale leaderboard both loses an entry and brings an
  old one back; what it brings back is still a run with results, of the right pair.
- `PublishedTogether`: without overlap and without a fault the three objects of a pair
  agree. Both premises are needed. With two `/complete` at a time the latest pointer,
  the meta object and the entry may end on different runs, or the entry be lost, as
  the docstring of `update_leaderboard_for` accepts; since the meta object stays, a
  lost entry is not benchmarked again without `force`.

- `ImplementsFleet`: a VM loses its record in two ways only, and a run under `terraform
  apply` is neither queued again nor completed. `BenchCycle` may thus use `GpuFleet`
  for the orchestrator.
- `QueuedOnce`: while a submitted run of the entry waits for its first attempt, no later
  submission adds another. Overlapping submissions, `POST /runs` and a run that comes
  back to the queue between the check and the insert are the exceptions.
- `NothingRecordedLeft`: whatever the orchestrator failed to destroy (`_fail` after a
  failed apply, a missing workspace, a release that gave up) and whatever was at work
  when its VM was destroyed, the reaper gets it, for it lists the bucket after the
  destroy. Its three excuses are each needed: a teardown step that failed (one failing
  object ends the loop for all), an apply that was cut off between the VM and the state,
  and terraform commands of two cycles that overlapped on the state (the last to write
  drops the VM the other has created). VMs without a record (`stray`) are left to
  `bench-cleanup.yml`.
- `GreenIsEarned`, `GreenTeardownIsQuiet`: with answers to its calls, a green cycle has
  the results of its runs. Two exceptions are real: another cycle destroyed the database
  in between, and a run that was given up came back between the two status requests. The
  second property speaks, like the first, of a state that commands used one at a time.
  A cycle whose server is gone, or whose polling loop has died, is never green: its wait
  loop takes both for work in progress, and only the time limit of the job ends it.
- `PhaseFrozen`: no phase report passes its second check once the run has ended. One that
  had passed it before is written all the same, but this takes a watchdog that ended the
  run under its runner, or a runner that had stopped waiting for that report or for its last one.
- `SilentNeedsExcuse`, `ReportArrives`: of the ways a VM can end, none is unreported. The
  excuses are a `/fail` of the host that is lost, or posted without `jq` (an empty
  body), and `set_running` after the failure of a VM that was too quick.
- `LogBeforeReport`, `StoredLogIsFaithful`: the final log precedes the report, and the
  log that is stored is the log or its two ends, bounded; the number of bytes the second
  marker gives is not the number missing from the log when the runner has cut it before.
- `DoneStays` of `Runner`: lost answers give a `done` run a second way to become `failed`
  besides the watchdog: a `/complete` or `/fail` its sender no longer waits for.
- `BusyFindsItsRow`, `TwoRowsNeedRace`, `LeakIsFindable`: clients that deregister nodes at
  any moment cannot make `set_busy` raise. They can bring back the row it renamed, if they
  read it before; every later lookup of that run then raises, and its release is retried
  by `recover_leaked_nodes` at each start, for ever. A VM whose release gave up is found
  at the next start unless a client has marked its node down, or the run was ended before
  its row was busy, which is less than `orchestrator.py:141` says.
- `CatalogsAgree`: the three catalogs are of one commit when publishers neither overlap
  nor fail half way; a put whose call raised counts as done or not done, as it fell out.
  `HeadIsLive`, `RowsDescribed`: as long as no older commit lands on a newer one, overlap
  and failures do no harm; since a submission publishes before it creates runs, the page
  has a description for every row of an entry that a submission has queued. The row of a
  run that only `POST /runs` created has none, and the page derives a name for it, as
  `data.test.ts:110` expects.

The two-run instance of `Orchestrator` bounds the environment with two constraints
(`OneRelease`: one release at work, of which only the running watchdog's is tried again;
`SilentVms`: runners do not report and no VM is stray), which keep it at two million states. The behaviours they cut off, runners
that report among them, are covered by the theorem `QuotaKeptHolds`, which assumes
neither.

In `runner` the first and the last phase stand for five because the steps between them
differ from the first in nothing but their names. Two faults in one history are not explored
there, nor in `bench_cycle` (where `OneMishap` counts an overlap of terraform commands as
one) and `catalogs`. `catalogs` needs three commits: two to be in
the wrong order and one that has taken an entry out. In `bench_cycle` one run suffices,
as the cycle asks about all runs together; the second cycle has none of its own and
does everything else. Jobs that are run again by hand, and `bootstrap`, whose targeted
apply on the same state only makes the bucket, are not in the model.

### Runs that find a violation

Each checks one sentence of the code's own comments or tests; the trace is short.

| Run | The comment | What happens |
|---|---|---|
| `asks_beyond_quota` | `config.py:38` "so it never asks Scaleway for capacity we can't have" | a slot is free when the status is terminal, before the VM is destroyed |
| `stray_vm` | `terraform.py:101` "the state survives ..., so a leftover GPU VM can always be destroyed" | a destroy deletes the state object that a concurrent apply has just written (a crash inside apply does the same) |
| `completed_skipped` | `routers/bench.py:13` "Skips models that already have a completed run unless force=true" | the check reads the meta object, written after the commit or, when S3 fails, never |

Known limits of the code that the models contain and no run reports:

- the watchdog of `provisioning` or a `/fail` releases a run whose node row is not busy
  yet; when that release gives up, `recover_leaked_nodes` never finds the VM, unlike what
  `orchestrator.py:141` says (the excuse `preempted` of `LeakIsFindable`);
  `NothingRecordedLeft` covers that VM;
- two cycles' terraform commands work on copies of the one state of `orchestrator-vm`, and
  a VM may be left that no teardown knows (the excuse `overlapped` of
  `NothingRecordedLeft`);
- a run may end between the status check of `set_phase` and its commit, and the phase of
  the ended run is written, unlike what `run_repository.py:177` says (the excuses of
  `PhaseFrozen`);
- after a crash between `set_busy` and `set_running` the run has two node rows; the
  last-resort guard of `handle_queued_run` (`orchestrator.py:67`) then raises itself, and
  the run stays in `provisioning` until its watchdog (the exception in
  `ProvisioningIsOwned` and `TwoRowsNeedCrash`);
- an S3 error after the commit of `/complete` makes the answer an error although the run
  is done, so it cannot be retried as `run_service.py:56` says, and no release is started;
- two overlapping submissions may queue an entry twice (the premise of `QueuedOnce`).

### Fairness

`FairSpec` asks for weak fairness of the polling loop (a `while True` with a
sleep, whose body catches every exception) and of the passing of each
deadline. None is asked of terraform, provisioning tasks, releases, requests or
runners: all of them may hang, and `EveryRunEnds` holds all the same, because the
watchdogs look at the run table only and the budget bounds how often a late task
can put a run back. Submission is not forced; crashes are finitely many.

`FairSpec` of `Runner` asks that the steps of the VM end (download and
health check have their own timeout; that the engine start, the warm-up and the
benchmark end is an assumption, whose failure is the running watchdog's business), that
requests somebody waits for and reports nobody waits for are handled, and that the
provisioning task goes on; nothing of kills, reboots, lost requests or the watchdogs.

## 4. Proofs

Every safety invariant, action property and refinement that a passing run checks is
also a theorem: it holds for any runs, VM names, requests, submissions, clients,
commits and publishers, and for any budget, quota and number of faults or crashes,
where TLC has seen two or three. The hypotheses are the named assumptions on the
constants, and for two theorems the premise under which the code makes the promise
(`OneAtATime`, `OneSubmission`). Two of the assumptions only say that names differ, as
they do in the code: `NoRunAssumption` of `NodesApi` (the null of `run_id` is no run) and
`PhasesAssumption` of `Runner` (the phases the script reports are none of the other
steps of the VM).

`OrchestratorProofs` (finite non-empty `Runs`, `GpuOf` and `Quota` functions, positive
budgets):

- `TypeCorrect`: `TypeOK`.
- `HandoverHolds`: the inductive invariant `Handover`. `OneProvisioner` is not
  inductive: `complete_run` marks a run done whatever its status, so one needs that
  a `/complete` past its check is about a run that nobody provisions; which needs
  that `/complete` is accepted only for `running`, and that no step makes a run in
  that phase claimable again. The budget rides along because the requeue decides on
  it. `OneProvisionerHolds`, `ResultIsFinalHolds`, `RetryBudgetHolds` follow.
- `QuotaKeptHolds`: the gate works on a stale count. Its invariant (`QuotaInv`)
  says that, for every type still to be claimed for, the runs that never ended are at
  most the snapshot: only the poller makes a run that never ended live
  (`NoNewLife`), all other steps can only shrink the set; a claim then adds at most
  what the snapshot left free (`ClaimFits`). It uses `Handover`: `set_running` meets
  only runs in `provisioning` or `failed`, and failed runs have ended.

`RefinementProofs` proves `LifecycleImplemented`, that is `Spec => Lifecycle!Spec`:
`Handover` gives the guards of the abstract actions, and `Fresh` (a run without a
row has no task or request) those of giving up.

`FleetProofs` is about the node rows and the VMs of `Orchestrator`. The frame lemma
`OthersRest` comes first: a step of a task works on one run, so each invariant is
proved for that run and, apart, for the poller and for a crash.

- `ProvisioningIsOwnedHolds` needs no more than `TypeOK`: `Ambiguous`, the two node rows
  that stop the owner of a run, once true stays true while a task works on the run
  (`AmbiguousStays`).
- `RunningHasVmHolds`: `EndedFirst` (`ended_at` is set before any release starts, but for
  those of the orphan sweep, and nothing clears it) makes every release harmless to a
  run that never ended; `Homed` extends `RunningHasVm` to the task between the end of
  its apply and the write of `running`.
- `ResultOnceHolds`: `Recorded` (at most one recorded VM, and every VM that has booted
  is the recorded one unless one is stray) and `OneReporter` (then at most one VM has
  a `/complete` in flight, and none that would commit once the row is there). They
  are about different VMs of one run: a destroy followed by a new apply must not
  leave a request of the first behind.
- `TwoRowsNeedCrashHolds`: `FirstLife` says what is true of a run before any crash: from
  its first VM on it is never queued again, so neither `create_provisioning` nor the
  attempt before it can meet the renamed row.
- `DoneStaysHolds`: `KeepsDone`, action by action: a done run has its row (`DoneHasRow`),
  by `Handover` no task or recovery is at work on it, and so every step leaves it done but
  those of the two late writers; `failing[r]`, the count of accepted `/fail` requests,
  only falls.
- `FleetImplemented`, that is `Spec => Fleet!Spec`: the part about runs is
  `LifecycleImplemented` again (`SameLifecycle`); for the VMs each action is a step of
  `GpuFleet` or leaves its five sets alone.

`BenchServiceProofs`:

- `BenchTypeCorrect`: `TypeOK`.
- `DoneHasObjectsHolds`, `DedupIsBackedHolds`, `EntryIsBackedHolds`. The inductive
  invariant `Backed` adds, per request, what its position implies has been stored
  (`Progress`), and that the leaderboard it has read lists published runs only
  (`Listable`): that is why writing a stale one back is harmless. Both rest
  on `Kept`: no call ever takes back a result, an object or a meta.
- `SerialPublication`: `PublishedTogether`, assuming `OneAtATime` (no two requests). The
  invariant `Together` says which of the three objects the one request has moved on,
  and that a run which may still be completed has no result (`Undelivered`), so that
  without a fault no request is cut short.
- `QueuedOnceHolds`: `QueuedOnce`, assuming `OneSubmission`. `CheckStands` says that what
  `has_active_run` saw still stands at the insert: of the other steps none puts a run
  with no attempt counted in the queue (`RestFresh`), a retry having counted one.

`BenchCycleProofs`:

- `BenchTypeCorrect`: `TypeOK`.
- `NothingRecordedLeftHolds`: `Awaited` says who will come for each thing left. A server
  is the one the state names, or is being made by the one command at work (`Single`), and
  has a cycle before its destroy; a state object has one before its listing, or one
  that has listed it. The excuses are where this breaks (`Clean`).
- `GreenIsEarnedHolds`: `Ledger`, the three stages of what a cycle knows: it has no runs
  before its submission (`NotYet`), none of them is active once the wait loop let it
  go (`Seen`), all of them have a result once the verdict is green (`Earned`), the two
  excuses apart.
- `GreenTeardownIsQuietHolds`: `Working` (an apply is for a run without a result) and
  `Quiet`, which has to allow for the runs of a second cycle on the same VM (`Others`).

`RunnerProofs`:

- `TwoCutsAreFaithful`: for every size of a log, the cut of `_post_logs` followed by that of
  `attach_logs` leaves the log or its two ends. It is arithmetic: the second cut falls
  within the halves the first one left, markers included.
- `RunnerTypeCorrect`, `StoredLogIsFaithfulHolds`: `Typed` adds that the stored log is
  what the two cuts leave of the log of its step.
- `DoneStaysHolds`: `Foreground` and `Background` say whose each
  request in flight is: the step of the VM has at most one, that it waits for, the
  background loop and the host have theirs. `NoOvertaking`: a `/fail` in flight has not
  met a done run, but when one of the two was left behind by its sender.
- `PhaseFrozenHolds`: `NothingPasses` (the second check) and `Steady`: a phase report has a
  runner that waits for it, and so none is in flight when the runner's last report ends
  the run, unless one of the three reasons (`Loose`) applies; a reason, once there, stays.
- `SilentNeedsExcuseHolds`: `LastReport`, the same promise from the moment the VM has no
  more report to send, not only from its end.
- `LogBeforeReportHolds`: `UploadOrder` and `FinalLog`: from the final upload on, the log
  stored, and every log still to be stored, has reached the last step.

`NodesApiProofs`: `NodesInv` relates `task[r]` and `release[r]`, what the orchestrator has
done about a run, to the rows under its two keys (`StageRows`; `Orderly` for a run that was
never ended before its row was busy), says which rows an id can hold
(`RowsFit`), and what a client that is between its two sessions holds (`RequestFits`: a
row that fits its id, which is still there or has been renamed). `BusyFindsItsRowHolds`,
`TwoRowsNeedRaceHolds`, `LeakIsFindableHolds` and the refinement `NodeTableImplemented`
follow from it.

`CatalogsProofs`:

- `HeadIsLiveHolds`, `RowsDescribedHolds`: `Forward`: as long as no older commit has been
  put over a newer one, each catalog is at least as new as every put that ended
  (`PutsLast`), so what was described once is described still.
- `CatalogsAgreeHolds`: `Together`: with no overlap and no failure half way, at most one publisher is
  at work (`OneAtWork`), and the catalogs differ by its puts so far (`Halfway`).

The invariants of `FleetProofs` were also checked by TLC, on the instance of `one_run`.
Model-checked only:

- `EveryRunEnds`, `ReportArrives`: liveness under fairness is beyond
  the prover;
- the three runs that find a violation, each a trace of a small instance.

## 5. Not modelled, and the plan

Not modelled, and why:

- `aggregation.py`, `metrics.ts`, `scales.ts`: floating point statistics, out of TLC's
  reach; their result is a payload nothing else depends on.
- the string processing of `catalog.py` and of `buildView` (names, tags, load shapes) and
  the message patterns of `_classify`: pure functions of texts, no state; the models take
  any of their results.
- `infra/scaleway.py`: one request before the loop starts; its answer is the constant
  `Quota`.
- results API and the other `GET` handlers: reads of rows modelled elsewhere.
- migrations, authentication, schemas, settings, logging, rendering (`site` components),
  declarative infrastructure: no behaviour over time of their own.

Proofs still worth writing:

1. The composition: `BenchService` uses `RunLifecycle` with one more guard (`Unattended`),
   a consequence of `Handover` that is argued above and could be a theorem of
   `Orchestrator` (no run with a `/complete` accepted is requeued or revived).
2. `BenchCycle` and `BenchService` as clients: that the steps they take on the variables of
   `GpuFleet` and `RunLifecycle` are steps of those modules, but for the destruction of
   the VM.
3. Shorter proofs of the type invariants, by more lemmas about the tables' operators.

## 6. Running

In this directory: `tlc -workers 2 -config OneRun.cfg MCOrchestrator` (about three
minutes; the others take seconds to two minutes). `Publish*.cfg` and
`CompletedSkipped.cfg` belong to `MCBenchService`; `BenchCycle.cfg`, `Runner.cfg`, `NodesApi.cfg` and `Catalogs.cfg` to the `MC` module of
their name; the rest to `MCOrchestrator`. `tlapm M.tla` checks the proofs of module `M`, for each of the eight
`*Proofs` modules (seconds to a few minutes each).
