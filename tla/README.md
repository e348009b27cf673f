# SciStudio: a verification project

SciStudio runs scientific workflows: a user draws blocks and connects them, the
backend runs the blocks in worker subprocesses in the order the data demands,
and a record of every run is kept so that results can be traced and reused.
This directory holds TLA+ models of the parts of the backend that decide what runs
when, how a run begins and ends, which stored results a later run may reuse and the
retention sweep may delete, and how agents, a browser tab and outside programs share
a project file; TLC runs that check them on small instances; and proofs that TLAPS
checks for every workflow. Paths below are relative to `src/src/scistudio/` unless they
say otherwise; `frontend/` is `src/frontend/`.

Contents: [the system](#the-system), [the modules](#the-modules),
[how the scheduler is modelled](#how-the-scheduler-is-modelled),
[the contract of a run](#the-contract-of-a-run),
[how the run lifetime is modelled](#how-the-run-lifetime-is-modelled),
[how stored results are modelled](#how-stored-results-are-modelled),
[how a shared file is modelled](#how-a-shared-file-is-modelled),
[the runs](#the-runs), [the proofs](#the-proofs), [what the runs found](#what-the-runs-found),
[not modelled](#not-modelled), [plan](#plan).

## The system

### Components, their state and operations

| component | source | state | operations that change it | hard behaviour |
|---|---|---|---|---|
| workflow graph | `engine/dag.py` | none: a value | `build_dag`, `topological_sort`, `get_downstream_blocks` | - |
| run scheduler | `engine/scheduler/` | block states, outputs, active tasks, interactive futures, pause flag, retry timer, completed event | `execute`, `execute_from`, `pause`, `resume`, `dispose`, the handlers of BLOCK_DONE, BLOCK_ERROR, CANCEL_BLOCK_REQUEST, CANCEL_WORKFLOW_REQUEST, INTERACTIVE_COMPLETE, the task bodies `_run_and_finalize` and `_run_interactive` | one asyncio task per block, each with several waits; cancels that meet a task at any of them; a reaper thread; completion |
| block workers | `engine/runners/local.py`, `process_handle.py` | the registry of process handles | `run`, `run_prompt`, `terminate` | a worker ends by itself, is terminated, or does both |
| resource manager | `engine/resources.py` | counters, the memory watermark | `can_dispatch` (`acquire` and `release` have no caller in a run) | refusal and retry |
| checkpoint file | `engine/checkpoint.py` | one file per workflow | `CheckpointManager.save`, `load` | a crash between events |
| event bus | `engine/events.py` | subscriptions | `emit`, `subscribe`, `unsubscribe` | a handler that raises; order of handlers |
| lineage recorder | `core/lineage/recorder.py` | which blocks have a row | `begin_run`, `_on_terminal`, `finalize_run`, `dispose` | the first of several terminal events |
| run-from-here plan | `engine/run_from_here.py` | fingerprints in the checkpoint | `plan_run_from_here`, the fingerprints `save_checkpoint` takes | stale outputs, edits between and during runs |
| run lifetime | `api/runtime/_runs.py`, `_run_lifetime.py` | live runs, owner markers, retired stores, forced runs | `start_workflow`, `claim_run`, `release_run`, `reconcile_interrupted_runs`, `end_project_runs`, `shutdown_workflow_runs` | crash and restart, several backends, project switch, grace periods |
| lineage store | `core/lineage/store.py`, `retention.py` | SQLite tables of runs, blocks and objects | inserts, updates, `plan_retention`, `apply_retention` | a sweep in a thread against runs, crashes and lost rows |
| file writes | `api/runtime/_file_writes.py`, `__init__.py` | a version and a disk time per file, a lock per project | write, patch, create, delete, read | conflicting writers, worker threads |
| file watcher | `api/routes/workflow_watcher.py` | first-party marks, own writes, debounce | an event of the file system | late, merged and doubled events |
| editor tabs | `frontend/src/store/`, `frontend/src/hooks/`, `frontend/src/App.parts/` | content, versions, dirty, conflict | typing, autosave, `file.changed`, refresh | answers and events that overtake each other |
| versioning | `core/versioning/` | a git repository | commit, branch, merge, restore | a dirty tree |
| user interface (rest) | `frontend/`, `api/ws.py`, `api/routes/` | the view in the browser | requests to the runtime, events back | stale views |

`PROJECT.json` lists every component with its status, also those that keep no run
state (data types, panels, tutorials, installation, tooling).

### How they interact

`api/runtime/_runs.py` builds a `DAGScheduler` for a workflow and creates the *run
task*, an asyncio task that awaits `execute()` or `execute_from(block)`. The
scheduler dispatches each block whose predecessors are DONE: `_dispatch` asks the
resource manager, marks the block RUNNING, and creates a *block task*. The block
task starts a worker subprocess through the runner, waits for it, and emits a
terminal event on the process-wide `EventBus`. The scheduler itself subscribes to
BLOCK_DONE (dispatch the successors) and BLOCK_ERROR (skip the descendants), the
recorder to all terminal events (write the row). Requests of the user arrive
through routes and the websocket: pause and resume as calls, cancels and
interactive answers as events. When all blocks are terminal and no task is left,
the completed event wakes `execute()`, whose `finally` clause stops what is still
there; the done callback of the run task disposes the scheduler.

A later run of the same workflow meets the first one only on disk: in the checkpoint
file, from which a run from here takes over outputs, and in the rows and artifacts,
which the retention sweep prunes after a completed run. Project files are shared by the
author tools of an agent, a tab of the browser and whatever the user runs outside; the
write path, the watcher's thread and the websocket keep them in step by versions.

### What makes each component correct

* graph: every source comes before its targets in the order; a block is never
  downstream of itself.
* scheduler: a block runs only when what feeds it is DONE; nothing is forgotten;
  a failure or cancel takes all successors with it and nothing else; a block is
  dispatched at most once; a refusal is retried; a cancel starts no worker;
  completion is reported once nothing runs; a run ends.
* workers: the worker of a cancelled block goes away.
* checkpoint and recorder: what was published is on disk; the row, the checkpoint
  and the state agree on how a block ended.
* run-from-here: an output is reused only if nothing it depends on has changed.
* run lifetime: a `runs` row does not stay `running` once its run cannot finish,
  a live run is never finalised by somebody else, and a terminal status is not
  overwritten.
* retention: what the last clean completed run recorded stays, and only what a later
  one superseded goes; it should never delete what a run in flight may read (it does).
* files: a checked write destroys nothing its author had not read; the backend's own
  writes are not announced as changes from outside; a tab that believes itself up to
  date shows the file; a recorded conflict is not saved over.

## The modules

| module | what it holds |
|---|---|
| `WorkflowDag` | the graph: edges, the order, reachability as a least closed set |
| `DagScheduler` | one run: scheduler, block tasks, workers, reaper thread, run task, the checkpoint and the recorder's rows as far as the run writes them; its properties |
| `RunContract` | the abstract run: blocks are open, active or ended, and outcomes spread along the edges |
| `MCDagScheduler` | three small workflows for TLC |
| `RunLifetime` | the runs of one project in several backend processes, from claim to release, and what a crash leaves to the next backend; its properties |
| `MCRunLifetime` | two instances of it for TLC |
| `RunFromHere` | the stored outputs of one workflow over many runs: edits, full and partial runs, fingerprints, lineage rows, the retention sweep; its properties |
| `MCRunFromHere` | two small workflows for it |
| `SharedFile` | one project file under agents, a tab, outside programs and the watcher's thread; its properties |
| `MCSharedFile` | its instance for TLC |
| `WorkflowDagProofs` | what reachability returns and what flows along the edges, for every graph |
| `DagSafetyProofs` | the types of the scheduler, and the invariant behind `RunsOnlyWhenFed` |
| `DagContractProofs` | what each step does to the outcomes; `DagScheduler` implements `RunContract` |
| `DagTaskProofs` | what a block state says of the block's task |
| `DagOutcomeProofs` | how failures spread, what is on disk, when a run is complete |
| `RunLifetimeProofs` | the safety invariants of `RunLifetime`; a run ends once |
| `RunFromHereProofs` | what retention keeps, what an artifact was computed from, when reuse is right |
| `SharedFileProofs` | the safety properties of `SharedFile` |

`DagScheduler` and `RunFromHere` extend `WorkflowDag`, and so does `RunContract`, which
`DagScheduler` instantiates with a refinement mapping. `RunLifetime` and `SharedFile`
stand alone. The proofs of the scheduler form a chain: each of the four modules extends the
one before it in the table, the first `WorkflowDagProofs`.

A definition followed by `\* faulty` is not part of the model: it is a plausible
bug in the definition it stands next to (a dropped guard, a missing walk, an
eager clean-up), and `PROJECT.json` pairs it with the property that notices it.

## How the scheduler is modelled

**Atomicity.** The backend runs on one asyncio loop. A coroutine gives way only
where it really waits, and no subscriber of the bus the run uses suspends, so a
handler together with all events it emits, and everything their handlers do, is
one action. `await self._event_bus.emit(...)` is not a point of interleaving. The
waits are: `create_subprocess_exec`, `communicate`, the interactive future, the
completed event, and `await task` in the shutdown cleanup. The values of `task[b]`
are the places a block task can be at (`new`, `launch`, `worker`, `ok`, `fail`,
`cancelled`, `waiting`), plus `none` (no entry in `_active_tasks`) and `dead` (an
entry whose coroutine was cancelled before it ran). The reaper is a thread: its
terminations (`Reap`) interleave with everything.

The loop is first in, first out, and two places depend on it. The first steps of block
tasks come in the order of their entries in `_active_tasks` (`NextNew`), and when the
cleanup resumes from the task it awaited, the tasks created before that one have taken
their first step (`StopAwaited`). `_cancel_active_tasks_on_shutdown` gives way only at its
`await task`: from the snapshot to the first cancel, and from one await to the next, it is
one step (`StopNext`), in the order of the dict (`ahead`).

**State.**

| variable | code |
|---|---|
| `st` | `_block_states` |
| `task`, `stage` | `_active_tasks`, where each coroutine is, prompt or compute worker |
| `ahead` | the order of the entries of `_active_tasks`: those that were there before each |
| `cancelReq` | `task.cancel()` was called, the coroutine has not seen it |
| `kill` | the handle is in the reaper thread's list |
| `future` | `_interactive_futures` and its result |
| `paused`, `timer`, `pass`, `completed`, `disposed` | `_paused`, `_resource_retry_handle`, the scheduled polling pass, `_completed_event`, `_disposed` |
| `phase`, `stopSet`, `stopping` | where `execute()` is, and the loop of `_cancel_active_tasks_on_shutdown` |
| `row` | the `block_executions` rows of `LineageRecorder._on_terminal` |
| `ckpt` | the states in the checkpoint file |

**Actions.** `Execute`, `ExecuteFrom`, `RunNeverStarts`, `LeaveWait`, `StopAwaited`,
`Dispose`: the run task. `TaskStarts`, `WorkerSpawned`,
`WorkerExits`, `BlockSucceeds`, `BlockFails`, `BlockReportsCancelled`, `TaskUnwinds`,
`TaskDies`: a block task. `PromptReturns`, `PromptDropped`, `Answer`,
`DecisionArrives`: interactive blocks. `CancelBlock`, `CancelWorkflow`, `Reap`,
`Pause`, `Resume`, `RetryTimerFires`, `RetryPass`: requests and timers. Every
dispatching loop of the code (in `execute`, `execute_from`, `_dispatch_newly_ready`)
is the operator `Scan`: which candidates it meets, which of them the resource
manager lets through, which of those fail before a task exists.

**Abstractions.** Outputs, ports, configuration and messages are left out: a block
has an output exactly when it is DONE. Which blocks cannot be instantiated
(`Broken`) and which are interactive are constants. A refusal of the resource
manager is a choice, except that it never refuses while nothing is active. The
reused and recorded states of a partial run are any the plan may grant. Two
blocks with two connections are one edge. Which kinds of request an instance
makes is the constant `Requests`.

**What the model takes for granted**, and does not check:

* The checkpoint and the recorder never raise. In the code a checkpoint write that
  raises inside `_on_cancel_workflow` is swallowed by the bus and the reaper thread
  is not started; inside `_dispatch_newly_ready` it ends the loop.
* `terminate()` succeeds. The code logs a failure and goes on.
* The run task is cancelled at most until it is in its cleanup. A second cancel there
  is swallowed by `suppress(BaseException)` together with the await it interrupts.
* A resume in the one turn of the loop between the creation of the run task and its
  first step is left out: the loop is first in, first out.
* A workflow cancel of a partial run arrives after the first step of `execute_from`. One
  that arrives before is overwritten by the states `execute_from` sets, and the properties
  of skipping and of the checkpoint would fail for this reason alone (see the plan).

## The contract of a run

`RunContract` says what a run promises to somebody who sees only how blocks end. Its
state is `outcome` (open, or how the block ended), `active` (dispatched and not ended)
and `over`. A step lets at most one active block end and spreads what follows along the
edges; or cancels everything at once; or, as the first step of a run from a block, takes
over the outcomes of what is not run. A block becomes active only behind blocks that
are all DONE, is skipped only behind one that is not, nothing becomes active twice, and
after the announcement nothing changes.

`DagScheduler` maps to it with `Contract == INSTANCE RunContract WITH ...`: a block is
active while its state is RUNNING or PAUSED, its outcome is its state once that
is terminal, and `over` is the completed event. The scan of several blocks, with those
that cannot be instantiated failing in the middle of it, is one abstract step; launches,
waits, prompts, refusals, timers, terminations and the shutdown are stutters. One step
that the contract allows is there because the code does it: a cancelled block may still
deliver (`late_success` below).

## How the run lifetime is modelled

`RunLifetime` is independent of `DagScheduler`: a run is a task that ends some time
with some outcome. A run that leaves a project with its blocks cancelled is a task
that ends soon, or, if a block ignores the cancellation, does not.

**Processes and atomicity.** `Backends` are operating system processes, and a
restarted backend is another one. They share the runs table (`row`) and the marker files
(`marker`). Inside a backend the code runs on its event loop and does not give way
between, say, the terminal write and the release; `job[b]` is what the loop is in the
middle of, and each access to a row or a marker is one step, so that another backend or
a kill can come between any two. `ending[b]` is where `end_project_runs` or
`shutdown_workflow_runs` is; at its waits the loop does other things.

| variable | code |
|---|---|
| `row`, `marker` | `runs.status`; the file in `.scistudio/run-owners/`, with or without `unrecorded_status` |
| `active`, `opened` | the project is open here; how many `LineageStore` objects were made for it |
| `retired`, `closed` | `_RETIRED_STORES`; the stores whose `close()` was called |
| `ending`, `waitFor`, `late` | the phase of `_await_or_force`, its tasks, its `still_pending` |
| `task`, `outcome` | the run task and what `_derive_lineage_run_status` makes of its end |
| `listed` | in `workflow_runs`, or in `_stopping_runs` |
| `live`, `forced`, `store` | `_LIVE_RUNS`, `_FORCED_RUN_IDS`, the store of the recorder |

**Actions.** `Claim`, `Insert`: `start_workflow` with `claim_run` and `begin_run`, or
`abandon_run` right after. `Finish`, `Callback`, `Finalize`, `Release`, `Tidy`: the end
of a task, its done callback, `release_run` with the retry through a reopened store and
the fate of the marker. `EndRuns`, `Stop`, `TimeUp`, `TurnEnds`, `ForceOne`, `ForceEnds`:
leaving and shutdown. `Switch`: `_leave_active_project` and `retire_store`. `Exit`,
`Killed`. `Open`, `NextRow`, `Judge`, `Recheck`, `Write`, `Drop`, `NextMarker`,
`SweepReads`, `SweepJudges`, `Sweep`: opening the project, reconciliation, the sweep of the
markers. A sweep reads the row and asks for the owner in two steps, as the code does, and
removes the marker in a third. `missed` is a history variable: the runs whose row was
inserted between two steps of a sweep on the same machine that had read none (a sweep on
another machine never finds the owner gone).

**Abstractions.** A process identity is the process: PID reuse and zombies count as
dead, as `_owner_verdict` does. An access that fails is a choice, counted by `faults`;
what an access that fails means is the code's reaction to it. A run whose marker cannot
be written has no row and is left out. The two waits of `end_project_runs` are one. A
second leave, or a stop, while a leave is waiting is left out. Deleting the project
under a run is left out.

## How stored results are modelled

`RunFromHere` has one workflow whose runs follow each other. The control inside a run is
`DagScheduler`'s business; here a run is reduced to the order of its results.

| variable | code |
|---|---|
| `config`, `code`, `cfg` | the nodes in the workflow file; the block versions in the registry; the nodes the run's scheduler was built with |
| `status`, `run` | `runs.status` of every run, with `provenance_degraded`; the last run |
| `rows`, `disk` | `data_objects` rows that name their producer; the artifacts that exist, each with the <<block, definition, run>> it was computed from |
| `phase`, `runSet`, `st`, `out`, `prints`, `lost` | the run in progress: its blocks, states, outputs, `_definition_fingerprints`, and whether a row could not be written |
| `ckpt` | the checkpoint file: states, output references, lineage fingerprints |
| `keep`, `doomed` | a sweep between its queries and its scan; the artifacts it goes on to delete |

**Actions.** `Edit`, `Recode`: the user. `Start`: `start_workflow`, with the plan of a run
from here. `Begin`: the first step of `execute` or `execute_from`, which plans again.
`WorkerWrites`, `BlockDone`, `BlockFails`, `RunEnds`, `Crash`: the run. `SweepStarts`,
`SweepScans`, `Reclaim`: `plan_retention` in two steps, because its queries and its scan
of the disk are apart, and `apply_retention` candidate by candidate.

**Abstractions.** A hash is the set of what it covers: a lineage fingerprint is the set of
pairs of a block and its definition over everything upstream. `ReuseIsExact` compares
what the plan decides from fingerprints with what the artifacts on disk were really
computed from, which the code does not record. The wiring of the workflow is constant.
A sweep may start any time no run is recorded as running (it follows a completed run,
or the command `storage gc`). A run of another workflow only keeps sweeps away. A
cancelled run leaves what a failed one leaves. `LiveRecode` says whether block code is also
reloaded while a run goes on; the runs let it change between runs only. With `TRUE`, TLC finds
`ReuseIsExact` violated (see the hazards).

## How a shared file is modelled

`SharedFile` is one file. A content is a number no other content has, a modification
time a clock every write advances.

| variable | code |
|---|---|
| `disk`, `ver`, `seen` | content and mtime; `_entity_versions`; `_entity_disk_versions` |
| `mark`, `selfw`, `debounce` | `_first_party_entity_writes`, `_self_writes`, the debounce of the watcher |
| `fs`, `watch` | events the watcher's thread has not handled; where it is with one |
| `phase`, `req`, `temp` | each write request, and the time of its temporary file |
| `know` | the version and content an agent read last |
| `tab`, `gets`, `put`, `ws` | the `FileTab`, its requests and their answers, the `file.changed` events on their way |

**Actions.** `ReadVersion`, `ReadContent`, `Call`: an agent's tools. `Enter`, `Stage`,
`Rename`, `Remark`, `Remove`, `Finish`: a write, from the check under the lock to the event,
with its worker thread in between: the first mark, `os.replace` and the second mark are
three steps, and the watcher may come between any two. `Notice`, `Compare`, `Broadcast`: the watcher's thread.
`Type`, `Autosave`, `SaveAnswered`, `Hear`, `Serve`, `Answer`, `Receive`: the tab.
`EditOutside`, `DeleteOutside`, `Expire`: the rest of the world.

**Abstractions and assumptions.** Every outside edit gets a modification time of its own
(a program that preserves times is not seen by the code either). The filters of
`on_any_event` are one step: a write that lands between two of them leads to what it leads
to when it lands after the last, before the comparison. `Expire` takes a first-party mark at
any time; `lapsed` counts those that ran out under a write, before its second mark. A tab has one save under way at a time. Requests
of the tab for the same reason are one (`gets` is a set), and their answers arrive in
any order. Manual saves are not modelled, nor is the cancellation of a tool call: the
thread goes on without its caller. The event loop does nothing else while it serves a
read (`LoopFree`), as `read_project_file` does not give way.

## The runs

Deadlock is checked everywhere but in the two runs of `SharedFile`, where bounded agents,
tabs and programs really may have nothing left to do; elsewhere `Over` and `Rest` are the
only steps of what is over or left at that. Six runs must pass, and six must find the
violation described under [what the runs found](#what-the-runs-found).

| run | instance | what it asks |
|---|---|---|
| `sched_diamond` | `load` feeds `left` (interactive) and `right`, both feed `merge`; pause, block cancel, workflow cancel, cancelled run | Does dispatch follow the data, does every failure reach the whole rest of the graph, is every unfinished block in the hands of a task that will move, does a cancel never start a worker, in any order of ends, answers, cancels, refusals and retries? Does the run keep its contract? |
| `sched_interactive` | `pick` (interactive) feeds `bad` (cannot start) and `save`; `bad` feeds `plot`; the same requests and partial runs, with fairness | The same with a block that fails inside a scan, starting from any recorded states. Does a run that may end, end, and does the worker of a cancelled block always go away? |
| `late_success`, `cancel_before_start`, `zombie_task` | diamond, pair, pair; workflow cancel, workflow cancel, resume and cancelled run | Promises of comments and docstrings that the code does not keep |
| `life_shared` | one run of `ada`, which may be killed; `ben` on the same machine; two failing accesses | Does any order of death, failure and reconciliation close a row twice, close the row of a live run, or leave a row at running for ever? |
| `life_flow` | two runs of one workflow in `ada`, which may leave the project and open it again; `cyd` on another machine | Do runs left behind by a switch keep their store and keep the workflow to themselves? Does `cyd` leave rows alone that it cannot judge? |
| `straggler_store` | as `life_shared`, no failures | A promise of a docstring that the code does not keep |
| `reuse` | `load` feeds `fit`, `report` and `plot`, `fit` feeds `report`; `fit` is edited and `load` recoded; three runs, two changes or mishaps | Is a run from here granted exactly when what it reuses is still right, and does retention keep the last good run? |
| `reclaimed_input` | `load` feeds `table` and `plot`; three runs | A promise of a docstring that the code does not keep |
| `shared_file` | one agent and the tab; one call, one outside edit, one typed change, one save | Is a write lost, an own write echoed, or a tab wrong about being up to date? |
| `autosave_conflict` | the same without the outside edit, two saves, two events per change | A promise of ADR-045 that the code does not keep |

Properties, by what could go wrong:

* `RunsOnlyWhenFed`: a merge block started by the first of its sources, or revived
  after one of them was cancelled; a partial run that takes over a half-run state.
* `NoBlockForgotten`: an event that should have started or skipped a block is lost
  to a pause, to a refusal, or to the order of two handlers.
* `RefusalIsRetried`: the timer is the only thing that brings a refused block back.
* `UnfinishedBlockHasLiveTask`: a RUNNING block whose task is gone, a PAUSED block
  whose future was dropped: both wait for ever and look alive to the user.
* `CompletedMeansOver`, `TerminalEventIsOnDisk`: completion seen too early; the
  checkpoint older than what was published.
* `FailureSkipsSuccessors`, `SkipHasCause`: the skip walk stops too early, or too late.
* `FollowsStateTable` (the table of `src/docs/architecture/ARCHITECTURE.md` 5.2, with
  CANCELLED to DONE added because the code does it): a block never goes back, so it
  is dispatched at most once, and an error never replaces a cancel.
* `CancelSpawnsNothing`: a launch under way, or the compute phase behind a prompt,
  delivers a worker for a cancelled block.
* `RunFinishes`, `CancelledWorkerGoes`: liveness.
* `KeepsContract`: all of the above as one abstract run; in particular that no step lets
  two blocks end, activates a block twice, or changes anything after the end.
* `MarkerWhileNeeded`: a sweep of another backend, a release or a reconciliation takes
  the marker of a run whose row is, or will be, at running. One sweep can: it read no row,
  the owner inserted it and went, and the sweep asks for the owner only then
  (`_run_lifetime.py:864` and `:869`). The property allows that much, for a run in `missed`
  and an owner that is gone, and nothing else; `RowsClose` and `OnlyDeadRunsReconciled` say
  that the row is still closed, and not under a live owner.
* `OnlyDeadRunsReconciled`: a backend that reads row, marker and process table in three
  steps is about to write `failed` over a run that somebody executes.
* `TerminalIsFinal`: the callback of a task that was finalised by force, or a
  reconciliation that began before the owner wrote, overwrites the outcome.
* `StopLeavesNoRunningRow`: a graceful stop whose terminal write failed twice leaves the
  outcome in the marker (a third failure can lose it; `life_shared` allows two). The sweep
  just described can lose it too: the next backend then closes the row as `failed`.
* `LiveRunStoreOpen`, `OneRunPerWorkflow`: project switches while callbacks are pending
  or tasks ignore their cancellation.
* `RowsClose`: liveness. If again and again some backend that can have the project open
  would find the owner gone (or is the owner), the row does not stay at running.

* `ReuseIsExact`: a fingerprint that misses an upstream edit reuses a stale output; one
  that covers too much, or is restamped when an output is only carried along, refuses a
  good one or, worse, validates a bad one after the edit is undone.
* `OneGeneration`: a join of outputs of different runs sees two results of one ancestor.
* `LastGoodRunStays`, `OnlySupersededReclaimed`: a sweep that counts a failed or badly
  recorded run as the one to keep, or that deletes what was written after its plan.
* `NoFirstPartyWriteLost`: two writes based on one version, across the threads, the lock
  and the versions of edits the watcher has not delivered. Its exception is `uncounted`: a
  content that nobody has counted is overwritten or deleted, and the version its readers
  took for it goes to what comes next. Without the exception TLC finds the loss in 13 states
  (see the hazards).
* `UpToDateTabShowsFile`: events, the answer to the own save and fetched contents
  overtake each other.
* `OwnWritesNotEchoed`: the event of the own write comes before, during or after it, with
  the marks expired or not. Between `os.replace` and the second mark only the first mark
  shields the file (`_file_writes.py:394-396`); a write whose first mark runs out there is
  echoed once, and the property allows one announcement for each such mark (`lapsed`).

**Bounds.** In `RunLifetime`, `MaxOpens` bounds how often a backend opens the project
anew (reopening the active project is free) and `MaxFaults` the failing accesses. One
new opening per backend suffices where the run does not come back to the project;
`life_flow` gives `ada` two, which is what meeting one's own straggler needs. Two
failures make the terminal write and its retry fail, which is the longest chain the code
handles. One run suffices for what rows and markers can suffer, because no step of the
reconciliation relates two of them; two runs of one workflow are what
`OneRunPerWorkflow` is about. A third backend on the owner's machine is left out on
purpose: with it `TerminalIsFinal` fails in a way worth knowing. `ben` reads the plain
marker, `ada` fails to write its row, annotates the marker and dies, `ben` judges it dead
and is about to write `failed`; `cyd` reads the annotated marker; both pass the second
look at the row and both write. `RunsEndOnce` proves the property up to there, for any
number of machines. The same window lets `ben` alone replace an annotated outcome by
`failed`.

Nothing in the scheduler counts, so `DagScheduler` needs no bound: every run explores all
behaviours of its workflow. Four blocks give a join whose sources end in any order, a
descendant two levels down, a sibling a failure must not touch, and a broken block in
the middle of the order. What depends on more blocks than that is the subject of
the proofs.

In `RunFromHere`, three runs are the least in which a partial run mixes outputs of two
others and a sweep has something superseded to delete, and `MaxEvents` allows one edit
that is undone, or an edit and a mishap. `report` reads `load` on two paths, which is
where two generations could meet. In `SharedFile` one call, one outside edit, one typed
change and one save make three writers race for one version; each event of the file
system may still be late, and each answer overtaken. `MaxOutside` bounds outside edits and
lapsed marks together, both being what entitles the watcher to an announcement: the run has
either of them, and the proof any number of both. Without `MaxSaves` a tab and a file
that swap contents would save for ever (see the hazards of `PROJECT.json`).

**Fairness.** `LoopFairness` is what the event loop and the operating system give:
a scheduled coroutine runs, a timer fires, a launched worker starts, the reaper
thread runs. `WorldFairness` adds what a run needs from outside: workers end, users
answer and resume. `RunFinishes` needs both. `CancelledWorkerGoes` needs only the
first: no worker is assumed to end by itself. All fairness is weak; a resource
refusal needs none, because `can_dispatch` cannot refuse while nothing is active.

`RunLifetime!FairSpec` assumes that a loop goes on with its current job, that a backend
that is up has the project opened now and again (a page reload does), that run tasks
end, and, with strong fairness, that a ready callback or a wait that is over gets its
turn however many requests come in between: the ready queue of asyncio is first in,
first out. Nothing is assumed about kills, failures, leaving or stopping.

## The proofs

TLAPS checks the theorems below for every graph, every set of interactive and broken
blocks, every set of requests, any number of runs, backends and failures. The
assumptions are the named `ASSUME`s of the modules: edges join known blocks and the
order lists every block once, sources first (`EdgesAssumption`, `RankAssumption`), the
kinds of blocks and requests are what their names say, `Home` maps runs to backends,
bounds are natural numbers. The bounds are only used as that. TLC evaluates all
of them in the passing runs, and checked the strengthened invariants before they were proved.

**The graph** (`WorkflowDagProofs`). `DownstreamIsLater`: what is downstream of a block
comes later in the order. `Reachable` is a least closed set, so no induction is needed:
the set of later blocks is closed, hence contains it. `ReachableHasCause` (a reached
block is fed by the start or by a reached block) comes from removing a block without a
cause and finding the rest still closed. `DownstreamStep`, `AncestorsStep` and
`DownstreamTransitive` are what a recursive definition would have said. `Flow` is any value
that every block gathers from its predecessors, as fingerprints do: `FlowExists` takes the
least assignment that gives every block at least its due, `FlowUnique` the earliest block on
which two would differ. So the recursive function of `OutputFingerprints` needs no induction
either: it chooses such an assignment, and there is only one.

**The scheduler.**

* `TypeCorrect`: `TypeOK`.
* `OnlyFedBlocksRun`: `RunsOnlyWhenFed`. It is not inductive alone. A predecessor of a
  running block is DONE, and the danger is a step that takes DONE away, or a task that
  sets its block to a state its inputs do not support. `SafeInv` adds `TaskInv` (a block
  that has a task has been started, and one in the hands of its prompt has the matching
  state) and `PendingInv` (before the first step of the run nothing has happened, which
  is where `execute_from` rewrites all states). Then DONE is never left, PAUSED and
  RUNNING are entered only from each other or by a scan, and a scan starts only what is
  `Ready`.
* `SchedulerKeepsContract`: the refinement. Initial states map to initial states, and each
  action is shown to end at most one block and to spread outcomes behind it (`Moves` and
  `Ends`: an `Advance` or a stutter of `RunContract`), to be `CancelWorkflow` (a
  `CancelAll`) or `ExecuteFrom` (a `TakeOver`). `OverInv`, which says that a set completed
  event means every block has ended, is what `Announce` and the stutters after it need.
* `UnfinishedBlocksMove`, `CancelledBlocksSpawnNothing`, `RefusalsAreRetried`,
  `BlocksFollowTheTable`: `LiveInv` ties each state to the place its task can be at (a
  RUNNING block has a task that is launching, working or about to report, a PAUSED one
  a registered future), and `RetryNext` follows the timer and its pass.
* `NothingForgotten`, `FailuresSkipSuccessors`, `SkipsHaveCauses`, `TerminalEventsOnDisk`,
  `CompletionIsFinal`: `OutInv`. Its parts are that a scheduler is disposed only when the
  run has ended (`DisposedInv`), that what has a row has ended (`RowInv`) and the
  checkpoint knows every block that ended (`DiskInv`, with `FreshDisk` for the start of a
  partial run), that what is behind an unfinished block is idle or skipped
  (`SuccessorsWait`), and that nothing idle is behind a failure (`NoneOverlooked`).
  `Reports` and `Settles` say once what every step that ends a block does with its
  successors; `ExecuteFromKeeps` is the one step that sets everything at once.

So every safety invariant and action property that the passing runs check of the
scheduler is proved, `CancelledIsFinal`, `ExecuteLeavesNoTask` and `FinishedRunEnds` being
those that do not hold.

**The run lifetime** (`RunLifetimeProofs`). `LifetimeTypes`, `MarkersStay`,
`OnlyTheDeadAreClosed`, `LiveStoresStayOpen`, `WorkflowsRunAlone`, `StopsAreClean` are
`TypeOK`, `MarkerWhileNeeded`, `OnlyDeadRunsReconciled`, `LiveRunStoreOpen`,
`OneRunPerWorkflow` and `StopLeavesNoRunningRow`; `RunsEndOnce` is `TerminalIsFinal`. The
danger is what another backend does between two accesses of a loop. `JobAt` says what a loop may rely on at each point of
its job, for example that a run it has judged is not live, or has ended, whatever its
owner did since; or, of a sweep that read no row, that there is still none, or the run is
in `missed`, or its owner is on another machine. `Onward` says all that any step may do to
a run on disk: a row never comes back to running, a marker goes only when it is not needed, a dead run stays dead.
`Acts` says that in memory only the stepping backend and its runs move. From these two
the others keep their invariant (`OthersKeep`), and what is left is each backend and its
own steps (`OwnJob`, `OwnRuns`). `MarkersStay` needs that a marker read as absent means
the run is not needed then and never again, unless a sweep missed its row and the owner is
gone (`Lost`, which no step undoes). `EndInv` adds the stores (only past ones are
closed), that a run about to start has no twin going, that a stopping backend still waits
for every run it has not seen the end of (`Awaited`), and that a row which is still
running cost one failed access at each step that should have closed it (`LossAt`).

`RunsEndOnce` has a hypothesis: at most one backend besides the owner is on the
owner's machine (`OneMinder`); a restarted backend counts as another one. With two, TLC shows
the end written twice. `OnceInv` says that whoever is about to write an
end finds none (`EndsOnce`): a live run has no end on disk before its owner is done writing
it, and a run whose task has not ended is live or was finalised by force, so that its
callback writes nothing (`EndOpen`). A reconciler that has found a row running knows the
owner gone, which stays so; a second one would have to be the owner, which is not gone, or a
second backend on its machine. A needed run without a marker is one whose marker was swept
(`Swept`), and nobody makes it another.

**Stored results** (`RunFromHereProofs`). `LastGoodRunNeverReclaimed` and
`NothingUnsupersededReclaimed` are `LastGoodRunStays` and `OnlySupersededReclaimed`.
`RetentionInv` has four parts: types of the store (`StoreTypes`), no run is ahead of the
last one (`RunsInOrder`), the run a sweep keeps is a clean completed one and every doomed
artifact is superseded by such a run (`SweepRests`), and what has a row exists until it
is superseded, as does what a running block has written (`ResultsStay`). To be
superseded is for ever, so a sweep may be as old as it likes; what a sweep does endanger
is a superseded output that a partial run has taken over (`reclaimed_input`).

`HereTypeCorrect`, `OneGenerationAlways` and `ReuseAlwaysExact` are `TypeOK`, `OneGeneration`
and `ReuseIsExact`. One generation is a statement about artifacts, and what endangers it is
the outputs a run is given to join. `HereInv` ties three copies of them together: what the
run holds, what the checkpoint refers to and what is on disk. A run takes over an output only
from outside its set, which is closed downstream (`Carried`); the checkpoint follows the run
and is never ahead of it (`Saved`); an artifact was computed from everything upstream of it,
and a block computed one thing in one run (`Computed`). Then the outputs that feed a block
were computed from one another (`Coherent`: each names, for every block upstream, the
output that the run holds or the checkpoint refers to), so two inputs of a join cannot
disagree about a common ancestor.

`ReuseAlwaysExact` adds `Described`: the fingerprint of an output that exists covers just the
pairs of block and definition that its artifact was computed from, and an output of the
present run is described by its own definition and the fingerprints of its inputs (`Anew`).
A save computes all fingerprints afresh by recursion over the graph; `SaveDescribes` shows
with `FlowUnique` that it leaves every entry of a result that was there before as it was.
Comparing fingerprints is then comparing pairs (`PrintTellsFreshness`). The hypothesis is
that block code is not reloaded while a run goes on (`LiveRecode` is `FALSE`). It is needed: a
run describes its outputs by the versions at its first save, so code reloaded between a worker
and that save is stamped on an output of the old code.

**A shared file** (`SharedFileProofs`), for any number of agents, calls, edits, saves and
merged events.

* `FileTypeCorrect`: `TypeOK`, from `Types` and `Bounds` (contents and times are ones that
  were given).
* `OwnWritesAreNotEchoed`: `OwnWritesNotEchoed`. What could still be announced is a file newer than
  its version accounts for, and not taken for the backend's own (`Pendent`; between the rename
  and the second mark only the first one shields it, `Shielded`). Such a file owes an
  announcement, and so does a staged write whose first mark is gone (`Bare`): announcements
  made and owed are never more than outside edits and lapsed marks (`Announced`). The step in
  danger is the rename of a staged file, whose time must be no time the watcher holds
  (`Times`).
* `UpToDateTabIsRight`: `UpToDateTabShowsFile`. `BrowserShows` says the same of every answer,
  fetched content and event on its way to the tab: none is at a later version than the file,
  and one that is at the file's version shows it. It also says that the event of the own save
  does not outlive the answer to it. Between the rename and the count of its version nothing
  shows the file, and the lock lets one writer at a time be there (`Locked`).
* `FirstPartyWritesKept`: `NoFirstPartyWriteLost`. What an agent has read under the version
  the file has is in the file; under the version the file is about to have, a change is
  under way (`Knows`, `Coming`). A checked write has read what it destroys (`Ready`), because
  the lock keeps others away from its check to its rename and outside programs only put
  contents of their own. Each time a content goes before it was counted, `Coming` would
  break, and that is the exception the property states.

**Only model-checked:** liveness (`RunFinishes`, `CancelledWorkerGoes`, `RowsClose`), which is
out of the prover's reach. All other properties of the passing runs are proved, two of
them under a hypothesis (`OneMinder`, `~LiveRecode`) without which they do not hold.

## What the runs found

* `late_success`: the success path of `_run_and_finalize` does not look at the state. A
  worker that has exited with a result before the reaper thread gets to it turns its
  block from CANCELLED into DONE, while its successors stay SKIPPED. The comment in
  `engine/scheduler/_events.py:303` says a late exit is ignored. The lineage row keeps
  `cancelled`, the checkpoint says `done`, so a later partial run reuses the output.
* `cancel_before_start`: asyncio throws a cancellation into a task that has not started
  before its first statement, so its `finally` does not run. A workflow cancel in the
  loop turn after a dispatch leaves the entry in `_active_tasks` for good; the completed
  event is never set and `execute()` does not return. The docstring of
  `_run_and_finalize` says the entry is always removed.
* `zombie_task`: the cleanup of `execute()` walks a snapshot of `_active_tasks` and gives
  way at each `await task`. In TLC's behaviour the resource manager had refused `scan`, the
  run task is cancelled, the cleanup cancels `pick` and awaits it, and a resume in between
  dispatches `scan`, which is in no snapshot: the run ends with its task alive. The retry
  pass does the same, and so does a task that finishes with a result while the cleanup awaits
  another. The docstring of `execute()` says the cleanup prevents zombies. The property looks
  at the step that ends the cleanup, and leaves out runs with a task that died before its
  first step, which is the matter of `cancel_before_start`.
* `straggler_store`: leaving a project gives up on a task that ignores its cancellation by
  finalising its row and releasing its entry in `_LIVE_RUNS`. `retire_store` decides by
  that table whether anybody still writes through the store, so the switch closes the
  store at once and the records of the straggler's blocks are lost (a closed store
  raises, the recorder swallows it). Its docstring, and section 4.6 of
  `src/docs/specs/adr-055-local-background-runtime.md`, say the store stays open until
  that task stops; the waiting in `_RETIRED_STORES` only ever serves runs whose callback
  is pending.
* `reclaimed_input`: `_reclaim_artifacts_blocking` plans in its thread while no run is
  recorded as running and deletes afterwards. A run from here that is started in between is
  granted, because the outputs are still there, and then loses an input it has taken over
  and not read yet. Its docstring says that the refusal of `plan_retention` makes a
  concurrent run safe.
* `autosave_conflict`: the autosave timer of a file tab looks at `dirty` only and sends
  without an expected version. After a recorded conflict with what an agent wrote, it
  writes over it and clears the conflict. ADR-045 says that the client must not silently
  overwrite remote changes; the same defect was fixed for the workflow canvas.

## Not modelled

* `rerun_block`, `reset_block` and `set_state`: no caller under `src/src/`, only tests.
* Failures of the checkpoint write and of `terminate` (above).
* The computation of the topological order: its result is an assumption.
* The protocol between runner and worker, the platform layer of process groups.
* Runs without a row, and the deletion of a project under a run.
* Changes of the wiring between runs, several workflows in one store.
* Moves and directories in the write path, links, lint, reload of drop-in blocks; manual
  saves, the workflow canvas, several tabs on one file.
* All components listed in `PROJECT.json` as not modelled; the reason is there. Most of
  the repository by size is of that kind: tutorials, agent tools, viewers, quality
  tooling, wrappers of git and of storage formats.

## Plan

Done, in this order: the scheduler and its first proofs, the run lifetime, the contract of
a run with its refinement, stored results, the shared file, the proofs of all safety
properties of the scheduler, the run lifetime, the stored results and the shared file.
Left, in order of weight:

1. The hazards of `PROJECT.json` without a property: a workflow cancel before the first
   step of `execute_from` needs a guard less in `CancelWorkflow`, failing checkpoint writes
   a choice in the steps that write it, the refresh that replaces typed text a property.
2. The parts of the components marked partly: two tabs and moves of a file, runs without a
   row, several workflows in one store.
3. `RunLifetime` composed with `RunContract`: a run as a task that keeps the contract.
4. The stop request of the desktop shell, and the flattening of sub-workflows as operators.
