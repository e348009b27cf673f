---------------------------- MODULE DagScheduler ----------------------------
(***************************************************************************)
(* One run of one workflow: engine/scheduler (DAGScheduler) with the block *)
(* tasks it creates, the worker subprocesses runners/local.py starts for   *)
(* them, the reaper thread of a workflow cancel, and the asyncio task that *)
(* awaits execute() or execute_from().                                     *)
(*                                                                         *)
(* Atomicity.  Everything runs on one asyncio loop, and every subscriber   *)
(* of the process-wide EventBus is synchronous or never suspends, so a     *)
(* handler together with all the events it emits, and the handlers those   *)
(* reach, is ONE step.  A coroutine gives way only where it really waits:  *)
(* create_subprocess_exec, communicate, the interactive future, the        *)
(* completed event, and the await of a task being cancelled.  The places   *)
(* where a block task can wait are the values of task[b].                  *)
(***************************************************************************)
EXTENDS WorkflowDag, FiniteSets

CONSTANTS
    Interactive,    \* blocks with execution_mode INTERACTIVE
    Broken,         \* blocks that fail to instantiate, or whose config misses a required field
    Requests        \* which requests of clients and of the API layer the instance makes

ASSUME BlockKindsAssumption == Interactive \subseteq Blocks /\ Broken \subseteq Blocks

AllRequests == {"pause", "cancel_block", "cancel_workflow", "cancel_run", "from_here"}
ASSUME RequestsAssumption == Requests \subseteq AllRequests

VARIABLES
    st,         \* _block_states
    task,       \* the entry of _active_tasks, and where its coroutine waits
    stage,      \* which worker an interactive block is at
    ahead,      \* the entries _active_tasks had before that of each block when it was made
    cancelReq,  \* task.cancel() was called and the coroutine has not seen it
    kill,       \* the reaper thread still has to terminate this block's worker
    future,     \* _interactive_futures, and how the future was resolved
    paused,     \* _paused
    timer,      \* _resource_retry_handle is set
    pass,       \* the timer fired and its polling pass is scheduled
    completed,  \* _completed_event is set
    phase,      \* where execute() is
    stopSet,    \* the tasks its shutdown cleanup has still to visit
    stopping,   \* the task the cleanup awaits, or NoBlock
    disposed,   \* _disposed: the scheduler left the EventBus
    row,        \* the block_executions row the LineageRecorder wrote
    ckpt        \* the block states in the checkpoint file

blockVars == <<st, task, stage, cancelReq, kill, future>>
runVars   == <<phase, stopSet, stopping, disposed, ahead>>
vars == <<st, task, stage, cancelReq, kill, future, paused, timer, pass, completed,
          phase, stopSet, stopping, disposed, ahead, row, ckpt>>

Terminal    == {"DONE", "ERROR", "CANCELLED", "SKIPPED"}
BlockStates == {"IDLE", "READY", "RUNNING", "PAUSED"} \cup Terminal

\* The states a cancel applies to.
Cancellable == {"RUNNING", "PAUSED"}

\* none     no entry in _active_tasks
\* new      created, not stepped yet
\* launch   awaits create_subprocess_exec; no ProcessHandle is registered
\* worker   awaits communicate(); the worker runs and its handle is registered
\* ok, fail, cancelled   the worker has ended (exit 0; failure; exit 0 reporting
\*          final_state "cancelled"), the coroutine has not resumed, and the handle
\*          is still registered
\* waiting  an interactive block awaits its future
\* dead     the task was cancelled before its first step: its coroutine, and so
\*          its finally clause, never ran, and the entry stays
TaskStates   == {"none", "new", "launch", "worker", "ok", "fail", "cancelled", "waiting", "dead"}
FutureStates == {"none", "pending", "good", "bad"}
NoBlock      == "NoBlock"   \* no block has this id

HandleFromLaunch(b) == task[b] \notin {"none", "dead", "waiting"}   \* faulty: counts a handle too early
HasHandle(b) == task[b] \in {"worker", "ok", "fail", "cancelled"}
TaskDone(b)  == task[b] \in {"none", "dead"}
ActiveTasks(t) == {b \in Blocks : t[b] # "none"}

\* handle.terminate(): SIGTERM, a grace period, SIGKILL.
Terminated(t, b) == IF t[b] = "worker" THEN [t EXCEPT ![b] = "fail"] ELSE t

-----------------------------------------------------------------------------
(* State helpers: functions of a block-state function s, so that a handler *)
(* can chain them.                                                         *)

\* _check_readiness
ReadyOnAny(s, b) == Preds(b) = {} \/ \E p \in Preds(b) : s[p] = "DONE"    \* faulty
Ready(s, b) == \A p \in Preds(b) : s[p] = "DONE"

\* _propagate_skip enters unfinished blocks only; b is never DONE here, so a
\* block it reaches always has an unsatisfied predecessor.
SkipAllLater(s, b) == {n \in Blocks : s[n] \notin Terminal /\ Rank[n] > Rank[b]}    \* faulty
SkipSet(s, b) == Reachable(b, {n \in Blocks : s[n] \notin Terminal})
SkipDirect(s, b) ==     \* faulty: does not walk on from a skipped block
    [n \in Blocks |-> IF n \in SkipSet(s, b) /\ b \in Preds(n) THEN "SKIPPED" ELSE s[n]]
SkipUnfed(s, b) ==      \* faulty: one satisfied predecessor is taken for all of them
    [n \in Blocks |-> IF n \in SkipSet(s, b) /\ \A p \in Preds(n) : s[p] # "DONE" THEN "SKIPPED" ELSE s[n]]
PropagateSkip(s, b) == [n \in Blocks |-> IF n \in SkipSet(s, b) THEN "SKIPPED" ELSE s[n]]

\* _check_completion
CompletesOnStates(s, t) == \A b \in Blocks : s[b] \in Terminal      \* faulty: without the _active_tasks guard
Completes(s, t) == (\A b \in Blocks : s[b] \in Terminal) /\ ActiveTasks(t) = {}
CheckCompletion(s, t) == completed' = (completed \/ Completes(s, t))

\* LineageRecorder._on_terminal hears each terminal event of the run (it leaves the
\* bus together with the scheduler) and keeps the first one of each block.
Record(s) ==
    row' = [b \in Blocks |-> IF /\ ~disposed /\ row[b] = "none"
                                /\ s[b] # st[b] /\ s[b] \in Terminal
                             THEN s[b] ELSE row[b]]

(* One scan of the topological order that dispatches: cand are the blocks  *)
(* the scan hands to _dispatch, go those of them _dispatch lets through.   *)
Startable(s)    == {b \in Blocks : s[b] = "IDLE" /\ Ready(s, b)}
Retriable(s, t) == {b \in Blocks : s[b] = "READY" /\ t[b] = "none"}

\* can_dispatch refuses on the memory watermark alone (the scheduler never calls
\* acquire(), so the CPU and GPU counters stay at zero), and never refuses while
\* _active_tasks is empty.
GoChoices(cand, t, p) ==
    IF p THEN {{}}
    ELSE {go \in SUBSET cand :
             \A b \in cand \ go : \/ ActiveTasks(t) # {}
                                  \/ \E m \in go \ Broken : Rank[m] < Rank[b]}

\* A broken block turns ERROR inside _dispatch; _on_block_error then skips its
\* descendants, if the scheduler still listens.
PassStatesNoSkip(s, cand, go) ==   \* faulty: the error of a broken block skips nothing
    [b \in Blocks |-> IF b \in go \cap Broken THEN "ERROR" ELSE IF b \in go THEN "RUNNING"
                      ELSE IF b \in cand THEN "READY" ELSE s[b]]
PassStates(s, cand, go) ==
    LET s1 == [b \in Blocks |-> IF b \in go \cap Broken THEN "ERROR"
                                ELSE IF b \in go THEN "RUNNING"
                                ELSE IF b \in cand THEN "READY" ELSE s[b]]
    IN  [b \in Blocks |-> IF ~disposed /\ \E f \in go \cap Broken : b \in SkipSet(s1, f)
                          THEN "SKIPPED" ELSE s1[b]]

PassTasks(t, go) == [b \in Blocks |-> IF b \in go \ Broken THEN "new" ELSE t[b]]

\* _active_tasks is a dict: it keeps the order in which its entries were made.
Entered(t, go) ==
    [b \in Blocks |-> IF b \in go \ Broken
                      THEN {m \in ActiveTasks(PassTasks(t, go)) : t[m] # "none" \/ Rank[m] < Rank[b]}
                      ELSE ahead[b]]

\* A refusal arms the one retry timer; a pause does not.
PassTimerWhenIdle(cand, go, p) ==   \* faulty: leaves the retry to the events of running blocks
    timer \/ (~p /\ cand # go /\ ~disposed /\ ActiveTasks(task) = {})
PassTimer(cand, go, p) == timer \/ (~p /\ cand # go /\ ~disposed)

\* The scan saves the checkpoint only when it meets a broken block, with the later
\* candidates of the order still untouched.
PassUnsaved(s, cand, go) == ckpt    \* faulty
PassCheckpoint(s, cand, go) ==
    LET upTo == {b \in Blocks : \E f \in go \cap Broken : Rank[b] <= Rank[f]}
    IN  IF go \cap Broken = {} THEN ckpt ELSE PassStates(s, cand \cap upTo, go \cap upTo)

\* A whole step made of one such scan over s.  Only a broken block makes it look at
\* completion.
Scan(s, t, cand, p) ==
    \E go \in GoChoices(cand, t, p) :
        /\ st' = PassStates(s, cand, go)
        /\ task' = PassTasks(t, go) /\ ahead' = Entered(t, go)
        /\ timer' = PassTimer(cand, go, p)
        /\ ckpt' = PassCheckpoint(s, cand, go)
        /\ completed' = (completed \/ (~disposed /\ go \cap Broken # {} /\ Completes(st', task')))

-----------------------------------------------------------------------------
TypeOK ==
    /\ st \in [Blocks -> BlockStates]
    /\ task \in [Blocks -> TaskStates]
    /\ stage \in [Blocks -> {"prompt", "compute"}]
    /\ ahead \in [Blocks -> SUBSET Blocks]
    /\ cancelReq \in [Blocks -> BOOLEAN]
    /\ kill \in [Blocks -> BOOLEAN]
    /\ future \in [Blocks -> FutureStates]
    /\ paused \in BOOLEAN /\ timer \in BOOLEAN /\ pass \in BOOLEAN
    /\ completed \in BOOLEAN /\ disposed \in BOOLEAN
    /\ phase \in {"pending", "running", "stopping", "ended"}
    /\ stopSet \in SUBSET Blocks
    /\ stopping \in Blocks \cup {NoBlock}
    /\ row \in [Blocks -> Terminal \cup {"none"}]
    /\ ckpt \in [Blocks -> BlockStates \cup {"unsaved"}]

\* The scheduler is built and its run task created; the task has not stepped.
\* "unsaved": the checkpoint file, if there is one, is of an earlier run.
Init ==
    /\ st = [b \in Blocks |-> "IDLE"]
    /\ task = [b \in Blocks |-> "none"]
    /\ stage = [b \in Blocks |-> "compute"]
    /\ ahead = [b \in Blocks |-> {}]
    /\ cancelReq = [b \in Blocks |-> FALSE]
    /\ kill = [b \in Blocks |-> FALSE]
    /\ future = [b \in Blocks |-> "none"]
    /\ paused = FALSE /\ timer = FALSE /\ pass = FALSE
    /\ completed = FALSE /\ disposed = FALSE
    /\ phase = "pending" /\ stopSet = {} /\ stopping = NoBlock
    /\ row = [b \in Blocks |-> "none"]
    /\ ckpt = [b \in Blocks |-> "unsaved"]

-----------------------------------------------------------------------------
(* The run task: execute() and execute_from().                             *)

\* execute() up to the wait on the completed event.
Execute ==
    /\ phase = "pending"
    /\ phase' = "running"
    /\ Scan(st, task, Startable(st), paused)
    /\ Record(st')
    /\ UNCHANGED <<stage, cancelReq, kill, future, paused, pass, stopSet, stopping, disposed>>

\* What execute_from takes over for a block outside the run: a state that is not
\* terminal must not hold the run open.
RecordedAsIs == BlockStates     \* faulty
Recorded == Terminal

\* execute_from(target), its plan granted (RunFromHere has the plan): the run set
\* starts over, what feeds it is reused, and any other block takes the finished state
\* of the checkpoint.  The completed event is replaced by a new one.  (_cancel_if_active
\* finds nothing to cancel: the run has dispatched nothing yet.)
ExecuteFrom(target) ==
    LET runSet   == {target} \cup Downstream(target)
        required == {p \in Blocks \ runSet : \E n \in runSet : p \in Preds(n)}
        reused   == required \cup UNION {Ancestors(p) : p \in required}
    IN  /\ phase = "pending" /\ "from_here" \in Requests
        /\ phase' = "running"
        /\ \E recorded \in [Blocks \ (runSet \cup reused) -> Recorded] :
             LET s == [b \in Blocks |-> IF b \in runSet THEN "IDLE"
                                        ELSE IF b \in reused THEN "DONE" ELSE recorded[b]]
             IN  \E go \in GoChoices(Startable(s), task, paused) :
                    /\ st' = PassStates(s, Startable(s), go)
                    /\ task' = PassTasks(task, go) /\ ahead' = Entered(task, go)
                    /\ timer' = PassTimer(Startable(s), go, paused)
                    /\ ckpt' = PassCheckpoint(s, Startable(s), go)
                    /\ completed' = Completes(st', task')
                    \* only a broken target emits a terminal event here
                    /\ row' = [b \in Blocks |-> IF row[b] = "none" /\ st'[b] # s[b] /\ st'[b] \in Terminal
                                                THEN st'[b] ELSE row[b]]
        /\ UNCHANGED <<stage, cancelReq, kill, future, paused, pass, stopSet, stopping, disposed>>

\* The run task is cancelled, or the plan refused, before anything started.
RunNeverStarts ==
    /\ phase = "pending" /\ Requests \cap {"cancel_run", "from_here"} # {}
    /\ phase' = "ended"
    /\ UNCHANGED <<blockVars, ahead, paused, timer, pass, completed, stopSet, stopping, disposed, row, ckpt>>

\* _cancel_active_tasks_on_shutdown from one `await task` to the next: it passes over
\* the tasks of S that are done, and cancels the next one in the order of its snapshot.
StopNext(S) ==
    LET undone == {b \in S : ~TaskDone(b)}
    IN  \/ /\ undone = {}
           /\ phase' = "ended" /\ stopSet' = {} /\ stopping' = NoBlock
           /\ UNCHANGED <<task, cancelReq>>
        \/ \E b \in undone :
              /\ ahead[b] \cap undone = {}
              /\ phase' = "stopping" /\ stopSet' = undone \ {b} /\ stopping' = b
              /\ task' = Terminated(task, b)
              /\ cancelReq' = [cancelReq EXCEPT ![b] = TRUE]

\* The completed event, or a cancellation of the run task, wakes execute(): its
\* finally clause takes a snapshot of _active_tasks.
LeaveWait ==
    /\ phase = "running"
    /\ completed \/ "cancel_run" \in Requests
    /\ StopNext(ActiveTasks(task))
    /\ UNCHANGED <<st, ahead, stage, kill, future, paused, timer, pass, completed, disposed, row, ckpt>>

\* `await task` returns.  The loop is first in, first out: a task made before the awaited
\* one left _active_tasks has taken its first step by then.
StopAwaited ==
    /\ phase = "stopping" /\ TaskDone(stopping)
    /\ task[stopping] = "none" => \A b \in Blocks : task[b] = "new" => stopping \notin ahead[b]
    /\ StopNext(stopSet)
    /\ UNCHANGED <<st, ahead, stage, kill, future, paused, timer, pass, completed, disposed, row, ckpt>>

\* dispose(), from the run task's done callback.
Dispose ==
    /\ phase = "ended" /\ ~disposed
    /\ disposed' = TRUE /\ timer' = FALSE
    /\ UNCHANGED <<blockVars, ahead, paused, pass, completed, phase, stopSet, stopping, row, ckpt>>

-----------------------------------------------------------------------------
(* The block tasks.                                                        *)

\* The first steps come in the order the tasks were made.
NextNew(b) == task[b] = "new" /\ \A n \in ahead[b] : task[n] # "new"

\* The first step: an interactive block registers its future, and then both
\* kinds call the runner.
TaskStarts(b) ==
    /\ NextNew(b) /\ ~cancelReq[b]
    /\ task' = [task EXCEPT ![b] = "launch"]
    /\ IF b \in Interactive
       THEN future' = [future EXCEPT ![b] = "pending"] /\ stage' = [stage EXCEPT ![b] = "prompt"]
       ELSE UNCHANGED <<future, stage>>
    /\ UNCHANGED <<st, cancelReq, kill, paused, timer, pass, completed, runVars, row, ckpt>>

\* A CancelledError thrown into a coroutine that never started ends it at once.
TaskDies(b) ==
    /\ NextNew(b) /\ cancelReq[b]
    /\ task' = [task EXCEPT ![b] = "dead"]
    /\ cancelReq' = [cancelReq EXCEPT ![b] = FALSE]
    /\ UNCHANGED <<st, stage, kill, future, paused, timer, pass, completed, runVars, row, ckpt>>

WorkerSpawned(b) ==
    /\ task[b] = "launch" /\ ~cancelReq[b]
    /\ task' = [task EXCEPT ![b] = "worker"]
    /\ UNCHANGED <<st, stage, cancelReq, kill, future, paused, timer, pass, completed, runVars, row, ckpt>>

\* The worker ends by itself; only block.run can report a cancel.
WorkerReportsSkip(b) ==     \* faulty: a state nothing handles
    /\ task[b] = "worker"
    /\ task' = [task EXCEPT ![b] = "skipped"]
    /\ UNCHANGED <<st, stage, cancelReq, kill, future, paused, timer, pass, completed, runVars, row, ckpt>>

WorkerExits(b) ==
    /\ task[b] = "worker"
    /\ \E how \in {"ok", "fail"} \cup (IF stage[b] = "compute" THEN {"cancelled"} ELSE {}) :
          task' = [task EXCEPT ![b] = how]
    /\ UNCHANGED <<st, stage, cancelReq, kill, future, paused, timer, pass, completed, runVars, row, ckpt>>

\* The finally clause of both task bodies, the block states being s by then.
Leave(b, s, t) ==
    /\ task' = [t EXCEPT ![b] = "none"]
    /\ future' = [future EXCEPT ![b] = "none"]
    /\ CheckCompletion(s, task')

\* runner.run returned outputs.  Nothing looks at CANCELLED on this path.
BlockSucceeds(b) ==
    LET s == [st EXCEPT ![b] = "DONE"]
        cand == IF disposed THEN {} ELSE Startable(s) \cup Retriable(s, task)
    IN  /\ task[b] = "ok" /\ stage[b] = "compute" /\ ~cancelReq[b]
        /\ \E go \in GoChoices(cand, task, paused) :
              /\ st' = PassStates(s, cand, go)
              /\ timer' = PassTimer(cand, go, paused)
              /\ ahead' = Entered(task, go)
              /\ Leave(b, st', PassTasks(task, go))
        /\ ckpt' = st' /\ Record(st')
        /\ UNCHANGED <<stage, cancelReq, kill, paused, pass, phase, stopSet, stopping, disposed>>

\* A task ends in state `to` because of an exception: a cancel that came first is
\* kept, and is not reported again.
BlockEndsAnyway(b, to) ==   \* faulty: without the guard of issue 689
    /\ st' = PropagateSkip([st EXCEPT ![b] = to], b)
    /\ Leave(b, st', task)
    /\ ckpt' = st' /\ Record(st')
    /\ UNCHANGED <<stage, cancelReq, kill, paused, timer, pass, runVars>>
BlockEnds(b, to) ==
    /\ st' = IF st[b] = "CANCELLED" THEN st
             ELSE LET s == [st EXCEPT ![b] = to]
                  \* BLOCK_ERROR skips through the bus, BLOCK_CANCELLED directly
                  IN  IF disposed /\ to = "ERROR" THEN s ELSE PropagateSkip(s, b)
    /\ Leave(b, st', task)
    /\ ckpt' = st' /\ Record(st')
    /\ UNCHANGED <<stage, cancelReq, kill, paused, timer, pass, runVars>>

\* The spawn failed, the worker failed, or an interactive block's worker reported
\* a cancel (its task body has no branch for that exception).
BlockFails(b) ==
    /\ ~cancelReq[b]
    /\ \/ task[b] \in {"launch", "fail"}
       \/ task[b] = "cancelled" /\ b \in Interactive
    /\ BlockEnds(b, "ERROR")

BlockReportsCancelled(b) ==
    /\ ~cancelReq[b] /\ task[b] = "cancelled" /\ b \notin Interactive
    /\ BlockEnds(b, "CANCELLED")

\* CancelledError reaches the coroutine where it waits.
TaskUnwinds(b) ==
    /\ cancelReq[b] /\ task[b] \notin {"none", "new", "dead"}
    /\ Leave(b, st, task)
    /\ cancelReq' = [cancelReq EXCEPT ![b] = FALSE]
    /\ UNCHANGED <<st, stage, kill, paused, timer, pass, runVars, row, ckpt>>

-----------------------------------------------------------------------------
(* Interactive blocks: prompt worker, pause, compute worker.               *)

\* The decision f is there: a value that is not JSON fails the block, a good one
\* starts the compute worker.
DecideStillPaused(b, f) ==  \* faulty: computes in state PAUSED
    /\ stage' = [stage EXCEPT ![b] = "compute"]
    /\ task' = [task EXCEPT ![b] = "launch"]
    /\ UNCHANGED <<st, cancelReq, kill, future, paused, timer, pass, completed, runVars, row, ckpt>>
Decide(b, f) ==
    \/ f = "bad" /\ BlockEnds(b, "ERROR")
    \/ /\ f = "good"
       /\ st' = [st EXCEPT ![b] = "RUNNING"]
       /\ stage' = [stage EXCEPT ![b] = "compute"]
       /\ task' = [task EXCEPT ![b] = "launch"]
       /\ future' = [future EXCEPT ![b] = f]
       /\ UNCHANGED <<cancelReq, kill, paused, timer, pass, completed, runVars, row, ckpt>>

\* The prompt worker came back after a cancel: no compute phase.
PromptDropped(b) ==
    /\ task[b] = "ok" /\ stage[b] = "prompt" /\ ~cancelReq[b] /\ st[b] = "CANCELLED"
    /\ Leave(b, st, task)
    /\ UNCHANGED <<st, stage, cancelReq, kill, paused, timer, pass, runVars, row, ckpt>>

\* The prompt worker came back: pause, unless the decision is there already or a
\* remembered one is replayed.
PromptReturns(b) ==
    /\ task[b] = "ok" /\ stage[b] = "prompt" /\ ~cancelReq[b] /\ st[b] # "CANCELLED"
    /\ \/ /\ future[b] = "pending"
          /\ st' = [st EXCEPT ![b] = "PAUSED"]
          /\ task' = [task EXCEPT ![b] = "waiting"]
          /\ UNCHANGED <<stage, cancelReq, kill, future, paused, timer, pass, completed, runVars, row, ckpt>>
       \/ future[b] = "pending" /\ Decide(b, "good")
       \/ future[b] # "pending" /\ Decide(b, future[b])

\* _on_interactive_complete resolves a pending future and ignores anything else.
Answer(b) ==
    /\ ~disposed /\ future[b] = "pending"
    /\ \E f \in {"good", "bad"} : future' = [future EXCEPT ![b] = f]
    /\ UNCHANGED <<st, task, stage, cancelReq, kill, paused, timer, pass, completed, runVars, row, ckpt>>

\* (A cancel in between always cancels the waiting task too, so the test for
\* CANCELLED after the await never fires here.)
DecisionArrives(b) ==
    /\ task[b] = "waiting" /\ ~cancelReq[b] /\ future[b] \in {"good", "bad"}
    /\ Decide(b, future[b])

-----------------------------------------------------------------------------
(* Requests.  The API hands them to the scheduler of a registered run; the *)
(* registration ends with the run.                                         *)

\* _on_cancel_block: a block that has not started, or has ended, is left alone.
\* terminate() returns when the worker is gone.
CancelBlock(b) ==
    /\ "cancel_block" \in Requests /\ ~disposed
    /\ st[b] \in Cancellable
    /\ st' = PropagateSkip([st EXCEPT ![b] = "CANCELLED"], b)
    /\ future' = [future EXCEPT ![b] = "none"]
    /\ task' = Terminated(task, b)
    /\ cancelReq' = [cancelReq EXCEPT ![b] = @ \/ ~(HasHandle(b) \/ TaskDone(b))]
    /\ CheckCompletion(st', task')
    /\ ckpt' = st' /\ Record(st')
    /\ UNCHANGED <<stage, kill, paused, timer, pass, runVars>>

\* _on_cancel_workflow: workers are left to the reaper thread.  (A cancel in the one
\* loop turn before the first step of execute_from is left out: see the hazards.)
CancelWorkflow ==
    LET victims == {b \in Blocks : st[b] \in Cancellable}
    IN  /\ "cancel_workflow" \in Requests /\ ~disposed
        /\ phase = "pending" => "from_here" \notin Requests
        /\ st' = [b \in Blocks |-> IF b \in victims THEN "CANCELLED"
                                   ELSE IF st[b] \in {"IDLE", "READY"} THEN "SKIPPED" ELSE st[b]]
        /\ kill' = [b \in Blocks |-> kill[b] \/ (b \in victims /\ HasHandle(b))]
        /\ cancelReq' = [b \in Blocks |-> \/ cancelReq[b]
                                          \/ b \in victims /\ ~HasHandle(b) /\ ~TaskDone(b)]
        /\ future' = [b \in Blocks |-> IF b \in victims THEN "none" ELSE future[b]]
        /\ CheckCompletion(st', task)
        /\ ckpt' = st' /\ Record(st')
        /\ UNCHANGED <<task, stage, paused, timer, pass, runVars>>

\* _reap_cancelled_workers, in its daemon thread.
ReapFails(b) ==     \* faulty
    /\ kill[b] /\ kill' = [kill EXCEPT ![b] = FALSE]
    /\ UNCHANGED <<st, task, stage, cancelReq, future, paused, timer, pass, completed, runVars, row, ckpt>>
Reap(b) ==
    /\ kill[b]
    /\ kill' = [kill EXCEPT ![b] = FALSE]
    /\ task' = Terminated(task, b)
    /\ UNCHANGED <<st, stage, cancelReq, future, paused, timer, pass, completed, runVars, row, ckpt>>

Pause ==
    /\ "pause" \in Requests /\ ~disposed
    /\ paused' = TRUE
    /\ UNCHANGED <<blockVars, timer, pass, completed, runVars, row, ckpt>>

\* A resume in the one loop turn between the creation of the run task and its first
\* step is left out: the loop is first in, first out, and the turn holds no block task.
Resume ==
    /\ "pause" \in Requests /\ ~disposed /\ phase # "pending"
    /\ paused' = FALSE
    /\ Scan(st, task, Startable(st) \cup Retriable(st, task), FALSE)
    /\ Record(st')
    /\ UNCHANGED <<stage, cancelReq, kill, future, pass, phase, stopSet, stopping, disposed>>

\* _on_resource_retry_timer
RetryTimerFires ==
    /\ timer
    /\ timer' = FALSE /\ pass' = TRUE
    /\ UNCHANGED <<blockVars, paused, completed, runVars, row, ckpt>>

\* The polling pass, a task of its own, which no dispose cancels.
RetryPass ==
    /\ pass
    /\ pass' = FALSE
    /\ Scan(st, task, Startable(st) \cup Retriable(st, task), paused)
    /\ Record(st')
    /\ UNCHANGED <<stage, cancelReq, kill, future, paused, phase, stopSet, stopping, disposed>>

\* The run is over and nothing of it moves any more: what a task that outlived the
\* run waits for, if there is one, is an answer no handler receives.
Over ==
    /\ disposed /\ ~pass
    /\ \A b \in Blocks : ~kill[b] /\ (TaskDone(b) \/ (task[b] = "waiting" /\ future[b] = "pending"))
    /\ UNCHANGED vars

-----------------------------------------------------------------------------
RunStep == \/ Execute \/ RunNeverStarts \/ LeaveWait \/ StopAwaited \/ Dispose
           \/ \E b \in Blocks : ExecuteFrom(b)

\* A block task takes its next step.
TaskStep(b) == \/ TaskStarts(b) \/ TaskDies(b) \/ WorkerSpawned(b)
               \/ BlockSucceeds(b) \/ BlockFails(b) \/ BlockReportsCancelled(b) \/ TaskUnwinds(b)
               \/ PromptDropped(b) \/ PromptReturns(b) \/ DecisionArrives(b)

Next ==
    \/ RunStep \/ Pause \/ Resume \/ CancelWorkflow \/ RetryTimerFires \/ RetryPass \/ Over
    \/ \E b \in Blocks : TaskStep(b) \/ WorkerExits(b) \/ Answer(b) \/ CancelBlock(b) \/ Reap(b)

Spec == Init /\ [][Next]_vars

\* The event loop runs what is scheduled, the OS runs the reaper thread and starts
\* workers; a cancelled run task is not owed to anyone.
LoopFairness ==
    /\ WF_vars(Execute) /\ WF_vars(completed /\ LeaveWait)
    /\ WF_vars(StopAwaited) /\ WF_vars(Dispose)
    /\ WF_vars(RetryTimerFires) /\ WF_vars(RetryPass)
    /\ \A b \in Blocks : WF_vars(TaskStep(b)) /\ WF_vars(Reap(b))

\* Every worker whose block was not cancelled ends by itself, every prompt is
\* answered, every pause is resumed.
WorldFairness ==
    /\ WF_vars(paused /\ Resume)
    /\ \A b \in Blocks : WF_vars(st[b] # "CANCELLED" /\ WorkerExits(b)) /\ WF_vars(Answer(b))

LoopSpec == Spec /\ LoopFairness
FairSpec == LoopSpec /\ WorldFairness

-----------------------------------------------------------------------------
(* Safety.                                                                 *)

Failed == {"ERROR", "CANCELLED", "SKIPPED"}
Fed(b) == \A p \in Preds(b) : st[p] = "DONE"

\* A block is offered for dispatch, runs or waits for its user only while every
\* block that feeds it is DONE, whatever was cancelled or failed meanwhile.
RunsOnlyWhenFed ==
    \A b \in Blocks : st[b] \in {"READY", "RUNNING", "PAUSED"} => Fed(b)

\* Once the run has started, a block is left IDLE only while something that feeds it
\* is unfinished, and nothing that feeds it has failed: no event that should have
\* started or skipped a block was lost.
NoBlockForgotten ==
    phase \in {"running", "stopping"} =>
        \A b \in Blocks : st[b] = "IDLE" =>
            /\ ~Fed(b)
            /\ \A p \in Preds(b) : st[p] \notin Failed

\* A block refused by the resource manager stays READY with a retry on its way, so
\* that a refusal can never stall the run (the promise of _dispatch).
RefusalIsRetried ==
    ~paused /\ ~disposed => \A b \in Blocks : st[b] = "READY" => timer \/ pass

\* While execute() waits, a RUNNING block has a task that will take a step, and a
\* PAUSED one a registered future that an answer resolves: an answer is never
\* dropped, and no block waits for a task that is gone.
UnfinishedBlockHasLiveTask ==
    phase = "running" => \A b \in Blocks :
        /\ st[b] = "RUNNING" => task[b] \notin {"none", "waiting", "dead"} /\ ~cancelReq[b]
        /\ st[b] = "PAUSED" => task[b] = "waiting" /\ future[b] # "none" /\ ~cancelReq[b]

\* When the completed event is set nothing runs any more and the checkpoint on disk
\* describes the finished run, its last terminal event included.
CompletedMeansOver ==
    completed => /\ \A b \in Blocks : st[b] \in Terminal
                 /\ ActiveTasks(task) = {}
                 /\ ckpt = st

\* Every terminal event that left the scheduler is in the checkpoint file when the
\* handler returns: a crash of the backend loses no finished block.
TerminalEventIsOnDisk ==
    \A b \in Blocks : row[b] # "none" => ckpt[b] = st[b]

\* A block that was reported failed, cancelled or skipped has taken all its
\* successors with it, even when its worker still delivers a result afterwards.
FailureSkipsSuccessors ==
    \A e \in Edges : row[e[1]] \in Failed => st[e[2]] = "SKIPPED"

(* What a step may never do.                                               *)

\* The table of ARCHITECTURE 5.2, closed under what one handler does in a row
\* (IDLE to READY to RUNNING), and with the late success the code allows: within a
\* run a block never goes back, so it is dispatched at most once.
LaterStates(s) ==
    CASE s = "IDLE"      -> {"READY", "RUNNING", "SKIPPED", "ERROR"}
      [] s = "READY"     -> {"RUNNING", "SKIPPED", "ERROR"}
      [] s = "RUNNING"   -> {"DONE", "PAUSED", "ERROR", "CANCELLED"}
      [] s = "PAUSED"    -> {"RUNNING", "ERROR", "CANCELLED"}
      [] s = "CANCELLED" -> {"DONE"}
      [] OTHER           -> {}
FollowsStateTable ==
    [][phase # "pending" => \A b \in Blocks : st'[b] # st[b] => st'[b] \in LaterStates(st[b])]_vars

\* After a cancel no worker is started for the block: not the launch under way, not
\* the compute phase behind a prompt.
CancelSpawnsNothing ==
    [][\A b \in Blocks : st[b] = "CANCELLED" /\ task'[b] = "worker" => task[b] = "worker"]_vars

\* Unless a workflow cancel does it, a block is reported skipped only because of a
\* block that feeds it and is itself reported failed, cancelled or skipped by then.
SkipHasCause ==
    [][CancelWorkflow \/ \A b \in Blocks : row[b] # "SKIPPED" /\ row'[b] = "SKIPPED" =>
                              \E p \in Preds(b) : row'[p] \in Failed]_vars

\* The comment of _on_cancel_workflow ("The block is already terminal, so a late
\* process exit is ignored"): a cancelled block stays cancelled.
CancelledIsFinal ==
    [][phase # "pending" => \A b \in Blocks : st[b] = "CANCELLED" => st'[b] = "CANCELLED"]_vars

\* The docstring of execute(): when its cleanup is through, no task or worker is left.
\* (A task cancelled before its first step is the matter of FinishedRunEnds.)
ExecuteLeavesNoTask ==
    [][phase' = "ended" /\ phase \in {"running", "stopping"} =>
           \/ \A b \in Blocks : TaskDone(b)'
           \/ \E b \in Blocks : task'[b] = "dead"]_vars

(* Refinement.                                                             *)

Outcome == [b \in Blocks |-> IF st[b] \in Terminal THEN st[b] ELSE "open"]
Active  == {b \in Blocks : st[b] \in {"RUNNING", "PAUSED"}}
Contract == INSTANCE RunContract WITH outcome <- Outcome, active <- Active, over <- completed

\* Seen as outcomes and active blocks only, a run is one of RunContract: outcomes spread
\* along the edges one event at a time, no block is activated twice, and after the
\* completed event nothing changes.
KeepsContract == Contract!Spec

(* Liveness.                                                               *)

\* If workers end and users answer and resume, a run ends, through pauses, resource
\* refusals, failures, prompts and cancels, unless a block task was cancelled before
\* its first step (the finding of FinishedRunEnds).
RunFinishes == <>(phase = "ended" \/ \E b \in Blocks : task[b] = "dead")

\* A cancelled block's worker is gone in the end, even one that would never exit:
\* again and again no cancelled block has a worker.
CancelledWorkerGoes ==
    []<>(\A b \in Blocks : st[b] = "CANCELLED" => task[b] \notin {"launch", "worker"})

\* _run_and_finalize "always removes the block from _active_tasks": once every block
\* is terminal the run ends.
FinishedRunEnds == (\A b \in Blocks : st[b] \in Terminal) ~> (phase = "ended")
=============================================================================
