---------------------------- MODULE RunLifetime ----------------------------
(***************************************************************************)
(* How the runs of one project begin and end: api/runtime/_runs.py and     *)
(* _run_lifetime.py, with the runs table of the lineage store and the      *)
(* owner marker files.  Several backend processes may have the project     *)
(* open; they share the database and the markers and nothing else.         *)
(*                                                                         *)
(* Atomicity.  Inside one backend the code here runs on the event loop     *)
(* without giving way (job[b] is what the loop is in the middle of), except*)
(* where it waits for run tasks.  Between backends every access to the     *)
(* database or to a marker is a step of its own, and a backend may die     *)
(* between any two.                                                        *)
(***************************************************************************)
EXTENDS Naturals

CONSTANTS
    Runs,
    Backends,   \* backend processes; a restarted one is another process
    Home,       \* the backend that starts a run
    Workflow,   \* the workflow a run is of
    Machine,    \* the machine a backend is on
    Killable,   \* the backends that may be killed or crash
    MaxOpens,   \* bound: how often each backend opens the project anew
    MaxFaults   \* bound: database or marker accesses that fail

ASSUME OwnersAssumption == Home \in [Runs -> Backends]
ASSUME BoundsAssumption == MaxOpens \in [Backends -> Nat] /\ MaxFaults \in Nat

VARIABLES
    \* on disk
    row,        \* the status of the run in the runs table
    marker,     \* its owner marker: none, plain, or annotated with an unrecorded outcome
    \* in the memory of a backend
    proc,       \* the process itself
    active,     \* it has the project open
    opened,     \* how many LineageStore objects it has opened; the last is the current one
    retired,    \* _RETIRED_STORES
    closed,     \* the stores close() was called on
    job,        \* what its loop is in the middle of
    ending,     \* where end_project_runs or shutdown_workflow_runs is
    waitFor,    \* the runs that one waits for
    late,       \* still_pending: those of them that did not end in time
    stopping,   \* the backend shuts down
    \* in the memory of the run's backend
    task,       \* the run task
    outcome,    \* the status its end amounts to (_derive_lineage_run_status)
    listed,     \* it is in workflow_runs, or in _stopping_runs
    live,       \* it is in _LIVE_RUNS
    forced,     \* it is in _FORCED_RUN_IDS
    store,      \* the store its recorder writes through
    faults,     \* failed accesses so far
    missed      \* history: the runs whose row came between two steps of a sweep on the same
                \* machine, which had read "no row" and had still to ask for their owner

diskVars == <<row, marker, missed>>
loopVars == <<ending, waitFor, late, stopping>>
projectVars == <<proc, active, opened, retired, closed>>
runVars  == <<task, outcome, listed, live, forced, store>>
vars == <<row, marker, proc, active, opened, retired, closed, job, ending, waitFor, late,
          stopping, task, outcome, listed, live, forced, store, faults, missed>>

Statuses == {"completed", "failed", "cancelled"}
NoRun    == "NoRun"     \* no run has this id

\* do is the step that comes next; mark is the marker content read for run, or the
\* status to record for it; todo are the runs the loop over rows or markers has left.
Nothing == [do |-> "nothing", run |-> NoRun, mark |-> "none", todo |-> {}]
Job(do, r, mark, todo) == [do |-> do, run |-> r, mark |-> mark, todo |-> todo]
Steps == {"nothing", "insert", "finalize", "release", "unlink", "annotate", "rows", "judge",
          "recheck", "write", "drop", "markers", "claimed", "orphan", "sweep"}
Jobs == [do : Steps, run : Runs \cup {NoRun}, mark : Statuses \cup {"none", "plain"}, todo : SUBSET Runs]

RunsOf(b) == {r \in Runs : Home[r] = b}
Idle(b)   == proc[b] = "up" /\ job[b] = Nothing /\ ending[b] # "force"
CanFail   == faults < MaxFaults
Fault     == CanFail /\ faults' = faults + 1
GoOn(b, j) == job' = [job EXCEPT ![b] = j]

-----------------------------------------------------------------------------
TypeOK ==
    /\ row \in [Runs -> Statuses \cup {"absent", "running"}]
    /\ marker \in [Runs -> Statuses \cup {"none", "plain"}]
    /\ proc \in [Backends -> {"up", "killed", "exited"}]
    /\ active \in [Backends -> BOOLEAN]
    /\ opened \in [Backends -> Nat]
    /\ retired \in [Backends -> SUBSET Nat] /\ closed \in [Backends -> SUBSET Nat]
    /\ job \in [Backends -> Jobs]
    /\ ending \in [Backends -> {"no", "leave", "stop", "turn", "force"}]
    /\ waitFor \in [Backends -> SUBSET Runs] /\ late \in [Backends -> SUBSET Runs]
    /\ stopping \in [Backends -> BOOLEAN]
    /\ task \in [Runs -> {"none", "starting", "going", "done", "over"}]
    /\ outcome \in [Runs -> Statuses \cup {"none"}]
    /\ listed \in [Runs -> {"no", "project", "stopping"}]
    /\ live \in [Runs -> BOOLEAN] /\ forced \in [Runs -> BOOLEAN]
    /\ store \in [Runs -> Nat]
    /\ faults \in Nat /\ missed \in SUBSET Runs

Init ==
    /\ row = [r \in Runs |-> "absent"] /\ marker = [r \in Runs |-> "none"]
    /\ proc = [b \in Backends |-> "up"] /\ active = [b \in Backends |-> FALSE]
    /\ opened = [b \in Backends |-> 0]
    /\ retired = [b \in Backends |-> {}] /\ closed = [b \in Backends |-> {}]
    /\ job = [b \in Backends |-> Nothing] /\ ending = [b \in Backends |-> "no"]
    /\ waitFor = [b \in Backends |-> {}] /\ late = [b \in Backends |-> {}]
    /\ stopping = [b \in Backends |-> FALSE]
    /\ task = [r \in Runs |-> "none"] /\ outcome = [r \in Runs |-> "none"]
    /\ listed = [r \in Runs |-> "no"]
    /\ live = [r \in Runs |-> FALSE] /\ forced = [r \in Runs |-> FALSE]
    /\ store = [r \in Runs |-> 0] /\ faults = 0 /\ missed = {}

-----------------------------------------------------------------------------
(* A run begins: start_workflow.                                           *)

\* _is_workflow_running: a run of the same workflow is registered and not done, or a
\* project switch left it behind and it has not stopped.
Busy(b, w) == \E r \in RunsOf(b) : Workflow[r] = w /\ listed[r] # "no" /\ task[r] = "going"

\* claim_run: live in this process, then the marker.  (A marker that cannot be written
\* makes a run without a row, which is none of this module's business.)
Claim(r) ==
    LET b == Home[r]
    IN  /\ Idle(b) /\ active[b] /\ ~stopping[b]
        /\ task[r] = "none" /\ ~Busy(b, Workflow[r])
        /\ task' = [task EXCEPT ![r] = "starting"]
        /\ live' = [live EXCEPT ![r] = TRUE]
        /\ marker' = [marker EXCEPT ![r] = "plain"]
        /\ store' = [store EXCEPT ![r] = opened[b]]
        /\ GoOn(b, Job("insert", r, "none", {}))
        /\ UNCHANGED <<row, missed, projectVars, loopVars, outcome, listed, forced, faults>>

\* b has read that r has no row and may still find its owner gone, being on the same machine.
MissesRow(b, r) == job[b].do = "orphan" /\ job[b].run = r /\ Machine[b] = Machine[Home[r]]

\* begin_run swallows a failed insert.  Then the scheduler and the task are made, or
\* abandon_run ends the run at once.
Insert(b) ==
    LET r == job[b].run
    IN  /\ job[b].do = "insert"
        /\ \/ /\ row' = [row EXCEPT ![r] = "running"]
              /\ missed' = missed \cup {q \in Runs : q = r /\ \E c \in Backends : MissesRow(c, q)}
              /\ UNCHANGED faults
           \/ Fault /\ UNCHANGED <<row, missed>>
        /\ \/ /\ task' = [task EXCEPT ![r] = "going"]
              /\ listed' = [listed EXCEPT ![r] = "project"]
              /\ GoOn(b, Nothing)
           \/ /\ task' = [task EXCEPT ![r] = "over"]
              /\ GoOn(b, Job("finalize", r, "failed", {}))
              /\ UNCHANGED listed
        /\ UNCHANGED <<marker, projectVars, loopVars, outcome, live, forced, store>>

-----------------------------------------------------------------------------
(* A run ends: the done callback, _finalize_lineage_run and release_run.   *)

Finish(r) ==
    /\ Idle(Home[r]) /\ task[r] = "going"
    /\ task' = [task EXCEPT ![r] = "done"]
    /\ \E s \in Statuses : outcome' = [outcome EXCEPT ![r] = s]
    /\ UNCHANGED <<diskVars, projectVars, job, loopVars, listed, live, forced, store, faults>>

\* consume_forced: a run finalised by force is not written again, and its release
\* finds no entry.  What _await_or_force found pending it visits before the callback.
Callback(r) ==
    LET b == Home[r]
    IN  /\ Idle(b) /\ task[r] = "done" /\ r \notin late[b]
        /\ task' = [task EXCEPT ![r] = "over"]
        /\ forced' = [forced EXCEPT ![r] = FALSE]
        /\ GoOn(b, IF forced[r] THEN Nothing ELSE Job("finalize", r, outcome[r], {}))
        /\ UNCHANGED <<diskVars, projectVars, loopVars, outcome, listed, live, store, faults>>

\* recorder.finalize_run: an unconditional UPDATE; its failure is swallowed.
Recorded(r, s) == row' = [row EXCEPT ![r] = IF @ = "absent" THEN @ ELSE s]

Finalize(b) ==
    /\ job[b].do = "finalize"
    /\ \/ Recorded(job[b].run, job[b].mark) /\ UNCHANGED faults
       \/ Fault /\ UNCHANGED row
    /\ GoOn(b, [job[b] EXCEPT !.do = "release"])
    /\ UNCHANGED <<marker, missed, projectVars, loopVars, runVars>>

\* release_run up to the fate of the marker: a row still running is written again
\* through a store opened by path.  A retired store that lost its last run is closed.
InUse(b, s, l) == \E q \in RunsOf(b) : l[q] /\ store[q] = s

ReleaseUnchecked(b) ==      \* faulty: takes the terminal write for granted
    LET r == job[b].run
        ready == {s \in retired[b] : ~InUse(b, s, live')}
    IN  /\ job[b].do = "release"
        /\ live' = [live EXCEPT ![r] = FALSE]
        /\ GoOn(b, [job[b] EXCEPT !.do = "unlink"])
        /\ closed' = [closed EXCEPT ![b] = @ \cup ready]
        /\ retired' = [retired EXCEPT ![b] = @ \ ready]
        /\ UNCHANGED <<diskVars, faults, proc, active, opened, loopVars, task, outcome, listed, forced, store>>
Release(b) ==
    LET r == job[b].run
        ready == {s \in retired[b] : ~InUse(b, s, live')}
    IN  /\ job[b].do = "release"
        /\ live' = [live EXCEPT ![r] = FALSE]
        /\ \/ /\ row[r] # "running"
              /\ GoOn(b, [job[b] EXCEPT !.do = "unlink"])
              /\ UNCHANGED <<row, faults>>
           \/ /\ row[r] = "running"
              /\ Recorded(r, job[b].mark)
              /\ GoOn(b, [job[b] EXCEPT !.do = "unlink"])
              /\ UNCHANGED faults
           \/ Fault /\ GoOn(b, [job[b] EXCEPT !.do = "annotate"]) /\ UNCHANGED row
        /\ closed' = [closed EXCEPT ![b] = @ \cup ready]
        /\ retired' = [retired EXCEPT ![b] = @ \ ready]
        /\ UNCHANGED <<marker, missed, proc, active, opened, loopVars, task, outcome, listed, forced, store>>

\* _unlink_quietly, or _annotate_unrecorded; both may fail, and that is only logged.
Tidy(b) ==
    LET r == job[b].run
    IN  /\ job[b].do \in {"unlink", "annotate"}
        /\ \/ /\ marker' = [marker EXCEPT ![r] = IF job[b].do = "unlink" THEN "none" ELSE job[b].mark]
              /\ UNCHANGED faults
           \/ Fault /\ UNCHANGED marker
        /\ GoOn(b, Nothing)
        /\ UNCHANGED <<row, missed, projectVars, loopVars, runVars>>

-----------------------------------------------------------------------------
(* The user leaves the project, or the backend stops.                      *)

\* end_project_runs asks the listed runs to cancel and waits for them; shutdown
\* cancels and awaits those left behind by a switch, too.
EndRuns(b) ==
    /\ Idle(b) /\ active[b] /\ ~stopping[b] /\ ending[b] = "no"
    /\ \E r \in RunsOf(b) : listed[r] = "project" /\ task[r] = "going"
    /\ waitFor' = [waitFor EXCEPT ![b] = {r \in RunsOf(b) : listed[r] = "project" /\ task[r] = "going"}]
    /\ ending' = [ending EXCEPT ![b] = "leave"]
    /\ UNCHANGED <<diskVars, projectVars, job, late, stopping, runVars, faults>>

Stop(b) ==
    /\ Idle(b) /\ ~stopping[b] /\ ending[b] = "no"
    /\ stopping' = [stopping EXCEPT ![b] = TRUE]
    /\ waitFor' = [waitFor EXCEPT ![b] = {r \in RunsOf(b) : listed[r] # "no" /\ task[r] = "going"}]
    /\ ending' = [ending EXCEPT ![b] = IF waitFor'[b] = {} THEN "no" ELSE "stop"]
    /\ UNCHANGED <<diskVars, projectVars, job, late, runVars, faults>>

\* _await_or_force: asyncio.wait returns, early or on its timeout.
TimeUp(b) ==
    /\ Idle(b) /\ ending[b] \in {"leave", "stop"}
    /\ late' = [late EXCEPT ![b] = {r \in waitFor[b] : task[r] = "going"}]
    /\ ending' = [ending EXCEPT ![b] = "turn"]
    /\ UNCHANGED <<diskVars, projectVars, job, waitFor, stopping, runVars, faults>>

\* asyncio.sleep(0): the callbacks of the tasks that ended in time have run.
TurnEnds(b) ==
    /\ Idle(b) /\ ending[b] = "turn"
    /\ \A r \in waitFor[b] \ late[b] : task[r] # "done"
    /\ ending' = [ending EXCEPT ![b] = "force"]
    /\ UNCHANGED <<diskVars, projectVars, job, waitFor, late, stopping, runVars, faults>>

\* A straggler is finalised and released here.
ForceOne(b) ==
    /\ proc[b] = "up" /\ job[b] = Nothing /\ ending[b] = "force"
    /\ \E r \in late[b] :
          /\ late' = [late EXCEPT ![b] = @ \ {r}]
          /\ IF live[r]
             THEN forced' = [forced EXCEPT ![r] = TRUE] /\ GoOn(b, Job("finalize", r, "cancelled", {}))
             ELSE UNCHANGED <<forced, job>>
    /\ UNCHANGED <<diskVars, projectVars, ending, waitFor, stopping, task, outcome, listed, live, store, faults>>

\* end_project_runs keeps what is still going in _stopping_runs.
ForceEndsForgets(b) ==  \* faulty: no hold_stopping_run
    /\ proc[b] = "up" /\ job[b] = Nothing /\ ending[b] = "force" /\ late[b] = {}
    /\ ending' = [ending EXCEPT ![b] = "no"]
    /\ waitFor' = [waitFor EXCEPT ![b] = {}]
    /\ listed' = [r \in Runs |-> IF r \in waitFor[b] /\ task[r] = "going" THEN "no" ELSE listed[r]]
    /\ UNCHANGED <<diskVars, projectVars, job, late, stopping, task, outcome, live, forced, store, faults>>
ForceEnds(b) ==
    /\ proc[b] = "up" /\ job[b] = Nothing /\ ending[b] = "force" /\ late[b] = {}
    /\ ending' = [ending EXCEPT ![b] = "no"]
    /\ waitFor' = [waitFor EXCEPT ![b] = {}]
    /\ listed' = [r \in Runs |-> IF ~stopping[b] /\ r \in waitFor[b] /\ task[r] = "going"
                                 THEN "stopping" ELSE listed[r]]
    /\ UNCHANGED <<diskVars, projectVars, job, late, stopping, task, outcome, live, forced, store, faults>>

\* Another project is opened: refused while a run of this one is going.  retire_store
\* closes the store at once unless a live run writes through it.
SwitchClosing(b) ==     \* faulty: closes the store whoever writes through it
    /\ Idle(b) /\ active[b] /\ ~stopping[b]
    /\ \A r \in RunsOf(b) : ~(listed[r] = "project" /\ task[r] = "going")
    /\ active' = [active EXCEPT ![b] = FALSE]
    /\ listed' = [r \in Runs |-> IF Home[r] = b /\ listed[r] = "project" THEN "no" ELSE listed[r]]
    /\ closed' = [closed EXCEPT ![b] = @ \cup {opened[b]}]
    /\ UNCHANGED <<diskVars, proc, opened, retired, job, loopVars, task, outcome, live, forced, store, faults>>
Switch(b) ==
    /\ Idle(b) /\ active[b] /\ ~stopping[b]
    /\ \A r \in RunsOf(b) : ~(listed[r] = "project" /\ task[r] = "going")
    /\ active' = [active EXCEPT ![b] = FALSE]
    /\ listed' = [r \in Runs |-> IF Home[r] = b /\ listed[r] = "project" THEN "no" ELSE listed[r]]
    /\ IF InUse(b, opened[b], live)
       THEN retired' = [retired EXCEPT ![b] = @ \cup {opened[b]}] /\ UNCHANGED closed
       ELSE closed' = [closed EXCEPT ![b] = @ \cup {opened[b]}] /\ UNCHANGED retired
    /\ UNCHANGED <<diskVars, proc, opened, job, loopVars, task, outcome, live, forced, store, faults>>

\* The memory of the process is gone.  What its tasks would have done is lost.
Dies(b, how) ==
    /\ proc' = [proc EXCEPT ![b] = how]
    /\ active' = [active EXCEPT ![b] = FALSE]
    /\ GoOn(b, Nothing)
    /\ ending' = [ending EXCEPT ![b] = "no"]
    /\ waitFor' = [waitFor EXCEPT ![b] = {}] /\ late' = [late EXCEPT ![b] = {}]
    /\ task' = [r \in Runs |-> IF Home[r] = b THEN "over" ELSE task[r]]
    /\ listed' = [r \in Runs |-> IF Home[r] = b THEN "no" ELSE listed[r]]
    /\ live' = [r \in Runs |-> live[r] /\ Home[r] # b]
    /\ forced' = [r \in Runs |-> forced[r] /\ Home[r] # b]
    /\ UNCHANGED <<diskVars, opened, retired, closed, stopping, outcome, store, faults>>

\* The loop ends once shutdown_workflow_runs has returned; the callbacks of tasks that
\* are done have run by then.
Exit(b) ==
    /\ Idle(b) /\ stopping[b] /\ ending[b] = "no"
    /\ \A r \in RunsOf(b) : task[r] # "done"
    /\ Dies(b, "exited")

Killed(b) == proc[b] = "up" /\ b \in Killable /\ Dies(b, "killed")

-----------------------------------------------------------------------------
(* The project opens: _init_lineage_store and reconcile_interrupted_runs.  *)

\* _owner_verdict is "dead": no process on this machine runs r any more.  Another
\* machine's process cannot be checked, and this process has excluded its live runs.
OwnerGoneOrForeign(b, r) == \/ Home[r] = b      \* faulty: does not look at the machine
                            \/ Machine[Home[r]] # Machine[b]
                            \/ proc[Home[r]] # "up"
OwnerGone(b, r) == \/ Home[r] = b
                   \/ Machine[Home[r]] = Machine[b] /\ proc[Home[r]] # "up"

OpenAnew(b) ==          \* faulty: reconciles only with a new store
    /\ Idle(b) /\ ~stopping[b] /\ ~active[b]
    /\ opened[b] < MaxOpens[b] /\ opened' = [opened EXCEPT ![b] = @ + 1]
    /\ active' = [active EXCEPT ![b] = TRUE]
    /\ GoOn(b, Job("rows", NoRun, "none", {r \in Runs : row[r] = "running"}))
    /\ UNCHANGED <<diskVars, proc, retired, closed, loopVars, runVars, faults>>
Open(b) ==
    /\ Idle(b) /\ ~stopping[b]
    /\ IF active[b] THEN UNCHANGED opened
       ELSE opened[b] < MaxOpens[b] /\ opened' = [opened EXCEPT ![b] = @ + 1]
    /\ active' = [active EXCEPT ![b] = TRUE]
    /\ \/ GoOn(b, Job("rows", NoRun, "none", {r \in Runs : row[r] = "running"})) /\ UNCHANGED faults
       \/ Fault /\ UNCHANGED job
    /\ UNCHANGED <<diskVars, proc, retired, closed, loopVars, runVars>>

\* The next candidate, if it is not live here: its marker is read.  An unreadable
\* marker leaves the row alone.
LiveHere(b, r) == Home[r] = b /\ live[r]

NextRowAnyOwner(b) ==   \* faulty: does not exclude the runs live in this process
    /\ job[b].do = "rows"
    /\ IF job[b].todo = {}
       THEN GoOn(b, Job("markers", NoRun, "none", {r \in Runs : marker[r] # "none"}))
       ELSE \E r \in job[b].todo : GoOn(b, Job("judge", r, marker[r], job[b].todo \ {r}))
    /\ UNCHANGED <<diskVars, projectVars, loopVars, runVars, faults>>
NextRow(b) ==
    /\ job[b].do = "rows"
    /\ IF job[b].todo = {}
       THEN GoOn(b, Job("markers", NoRun, "none", {r \in Runs : marker[r] # "none"}))
            /\ UNCHANGED faults
       ELSE \E r \in job[b].todo :
               \/ /\ GoOn(b, [job[b] EXCEPT !.todo = @ \ {r}])
                  /\ \/ LiveHere(b, r) /\ UNCHANGED faults
                     \/ ~LiveHere(b, r) /\ Fault
               \/ /\ GoOn(b, Job("judge", r, marker[r], job[b].todo \ {r}))
                  /\ ~LiveHere(b, r) /\ UNCHANGED faults
    /\ UNCHANGED <<diskVars, projectVars, loopVars, runVars>>

Judge(b) ==
    LET j == job[b]
    IN  /\ j.do = "judge"
        /\ GoOn(b, [j EXCEPT !.do = IF j.mark = "none" \/ OwnerGone(b, j.run) THEN "recheck" ELSE "rows"])
        /\ UNCHANGED <<diskVars, projectVars, loopVars, runVars, faults>>

\* The row is read once more: its owner may have ended it since the listing.
RecheckNot(b) ==    \* faulty
    /\ job[b].do = "recheck"
    /\ GoOn(b, [job[b] EXCEPT !.do = "write"])
    /\ UNCHANGED <<diskVars, projectVars, loopVars, runVars, faults>>
Recheck(b) ==
    /\ job[b].do = "recheck"
    /\ \/ /\ GoOn(b, [job[b] EXCEPT !.do = IF row[job[b].run] = "running" THEN "write" ELSE "rows"])
          /\ UNCHANGED faults
       \/ Fault /\ GoOn(b, [job[b] EXCEPT !.do = "rows"])
    /\ UNCHANGED <<diskVars, projectVars, loopVars, runVars>>

\* The outcome the marker records, or "failed".
WriteMarker(b) ==       \* faulty: no default for a marker without an outcome
    LET j == job[b]
    IN  /\ j.do = "write"
        /\ Recorded(j.run, j.mark)
        /\ GoOn(b, [j EXCEPT !.do = "drop"])
        /\ UNCHANGED <<marker, missed, projectVars, loopVars, runVars, faults>>
Write(b) ==
    LET j == job[b]
    IN  /\ j.do = "write"
        /\ \/ /\ Recorded(j.run, IF j.mark \in Statuses THEN j.mark ELSE "failed")
              /\ GoOn(b, [j EXCEPT !.do = "drop"])
              /\ UNCHANGED faults
           \/ Fault /\ GoOn(b, [j EXCEPT !.do = "rows"]) /\ UNCHANGED row
        /\ UNCHANGED <<marker, missed, projectVars, loopVars, runVars>>

Drop(b) ==
    /\ job[b].do = "drop"
    /\ \/ marker' = [marker EXCEPT ![job[b].run] = "none"] /\ UNCHANGED faults
       \/ Fault /\ UNCHANGED marker
    /\ GoOn(b, [job[b] EXCEPT !.do = "rows"])
    /\ UNCHANGED <<row, missed, projectVars, loopVars, runVars>>

\* _sweep_owner_dir: a marker goes when its row is terminal, or when there is no row
\* and its owner is gone.
NextMarker(b) ==
    /\ job[b].do = "markers"
    /\ IF job[b].todo = {} THEN GoOn(b, Nothing)
       ELSE \E r \in job[b].todo :
               IF LiveHere(b, r) THEN GoOn(b, [job[b] EXCEPT !.todo = @ \ {r}])
               ELSE GoOn(b, Job("claimed", r, marker[r], job[b].todo \ {r}))
    /\ UNCHANGED <<diskVars, projectVars, loopVars, runVars, faults>>

\* The row is read first.  A marker without a row may be an orphan.
SweepReads(b) ==
    LET j == job[b]
        next == CASE row[j.run] = "running" -> "markers"
                  [] row[j.run] = "absent" /\ j.mark # "none" -> "orphan"
                  [] OTHER -> "sweep"
    IN  /\ j.do = "claimed"
        /\ \/ GoOn(b, [j EXCEPT !.do = next]) /\ UNCHANGED faults
           \/ Fault /\ GoOn(b, [j EXCEPT !.do = "markers"])
        /\ UNCHANGED <<diskVars, projectVars, loopVars, runVars>>

\* Then, with what the row was, the owner is asked for; another process may have inserted
\* the row, and died, since.
SweepJudgesOrphan(b) ==     \* faulty: a marker without a row is an orphan
    /\ job[b].do = "orphan"
    /\ GoOn(b, [job[b] EXCEPT !.do = "sweep"])
    /\ UNCHANGED <<diskVars, projectVars, loopVars, runVars, faults>>
SweepJudges(b) ==
    /\ job[b].do = "orphan"
    /\ GoOn(b, [job[b] EXCEPT !.do = IF OwnerGone(b, job[b].run) THEN "sweep" ELSE "markers"])
    /\ UNCHANGED <<diskVars, projectVars, loopVars, runVars, faults>>

Sweep(b) ==
    /\ job[b].do = "sweep"
    /\ \/ marker' = [marker EXCEPT ![job[b].run] = "none"] /\ UNCHANGED faults
       \/ Fault /\ UNCHANGED marker
    /\ GoOn(b, [job[b] EXCEPT !.do = "markers"])
    /\ UNCHANGED <<row, missed, projectVars, loopVars, runVars>>

-----------------------------------------------------------------------------
\* Every backend is gone, or outside the project for good.
Over ==
    /\ \A b \in Backends : proc[b] # "up" \/ (Idle(b) /\ ~active[b] /\ opened[b] = MaxOpens[b])
    /\ UNCHANGED vars

\* The loop goes on with what it is in the middle of.
LoopStep(b) ==
    \/ Insert(b) \/ Finalize(b) \/ Release(b) \/ Tidy(b)
    \/ NextRow(b) \/ Judge(b) \/ Recheck(b) \/ Write(b) \/ Drop(b)
    \/ NextMarker(b) \/ SweepReads(b) \/ SweepJudges(b) \/ Sweep(b)

\* A coroutine that waits for run tasks goes on.
Resume(b) == TimeUp(b) \/ TurnEnds(b) \/ ForceOne(b) \/ ForceEnds(b)

Next ==
    \/ \E r \in Runs : Claim(r) \/ Finish(r) \/ Callback(r)
    \/ \E b \in Backends : LoopStep(b) \/ Resume(b) \/ EndRuns(b) \/ Stop(b) \/ Exit(b) \/ Switch(b) \/ Killed(b) \/ Open(b)
    \/ Over

Spec == Init /\ [][Next]_vars

\* Loops run, runs end, and a backend that is up has the project opened now and again.  The
\* ready queue of an event loop is first in, first out: what is ready gets its turn however
\* often requests come in between, hence strong fairness.
FairSpec ==
    /\ Spec
    /\ \A b \in Backends : WF_vars(LoopStep(b)) /\ SF_vars(Resume(b)) /\ WF_vars(Open(b))
    /\ \A r \in Runs : SF_vars(Finish(r)) /\ SF_vars(Callback(r))

-----------------------------------------------------------------------------
(* Properties.                                                             *)

\* While its row says running, and from the claim until the row is there, a run has its
\* owner marker, so that nobody takes it for an orphan.  The marker is lost before that only
\* to a sweep that missed the insertion of the row, and only once the owner is gone.
MarkerWhileNeeded ==
    \A r \in Runs : row[r] = "running" \/ (live[r] /\ row[r] = "absent") =>
        marker[r] # "none" \/ (r \in missed /\ proc[Home[r]] # "up")

\* Whoever is about to close a row as interrupted does not do it to a run that a process
\* still has registered as live, in its own memory or in that of another backend.
OnlyDeadRunsReconciled ==
    \A b \in Backends : job[b].do = "write" => ~live[job[b].run]

\* The store a live run writes through is not closed under it by a project switch.
LiveRunStoreOpen ==
    \A r \in Runs : live[r] => store[r] \notin closed[Home[r]]

\* Worker handles are keyed by workflow and block: within one backend a workflow has at
\* most one run whose task is going, also across project switches.
OneRunPerWorkflow ==
    \A r, q \in Runs : /\ r # q /\ Home[r] = Home[q] /\ Workflow[r] = Workflow[q]
                       /\ task[r] = "going"
                       => task[q] # "going"

\* A backend that stopped gracefully leaves no row at running, unless the row could be
\* written neither time; then the marker says how the run ended, if that could be written
\* and no sweep that missed the insertion of the row has taken it.
StopLeavesNoRunningRow ==
    \A r \in Runs : proc[Home[r]] = "exited" /\ row[r] = "running" =>
        \/ marker[r] \in Statuses
        \/ faults > 2
        \/ r \in missed

\* The terminal status of a run is written once.
TerminalIsFinal ==
    [][\A r \in Runs : row[r] \in Statuses => row'[r] = row[r]]_vars

\* b can have the project open and would find the owner of r gone.
Minder(b, r) == /\ proc[b] = "up" /\ ~stopping[b] /\ OwnerGone(b, r)
                /\ active[b] \/ opened[b] < MaxOpens[b]

\* No row stays at running for ever, whichever backend died or failed when, as long as one
\* that sees its owner gone (or is its owner) opens the project now and again.
RowsClose ==
    \A r \in Runs : ([]<>(\E b \in Backends : Minder(b, r))) => []<>(row[r] # "running")

\* "Switching projects retires the previous store, which is closed only after the last
\* run writing through it ends."
StoreOutlivesRun ==
    \A r \in Runs : task[r] = "going" => store[r] \notin closed[Home[r]]
=============================================================================
