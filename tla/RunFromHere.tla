----------------------------- MODULE RunFromHere -----------------------------
(***************************************************************************)
(* The stored outputs of one workflow over many runs: the definitions the  *)
(* user edits, full runs and runs from a block (engine/run_from_here.py,   *)
(* DAGScheduler.execute_from), the fingerprints in the checkpoint file,    *)
(* and the retention sweep (core/lineage/retention.py) that reclaims       *)
(* artifacts in a thread of its own.                                       *)
(*                                                                         *)
(* DagScheduler has the control of one run.  Here a run is reduced to the  *)
(* order of its results: no pauses, refusals or cancels (a cancelled run   *)
(* leaves what a failed one leaves).  One workflow: a run of another one   *)
(* only blocks the sweep.  An artifact is <<b, r>>: what block b wrote in  *)
(* run r, under a name no other artifact has.                              *)
(***************************************************************************)
EXTENDS WorkflowDag

CONSTANTS
    Edited,         \* blocks whose node in the workflow file the user changes
    Recoded,        \* blocks whose code (and version) the user changes
    LiveRecode,     \* whether block code is also reloaded while a run executes
    MaxRuns,        \* bound: runs of the workflow
    MaxEvents       \* bound: changes by the user, and mishaps: blocks that fail, rows not written,
                    \* artifacts not removed, crashes

ASSUME UserAssumption == Edited \subseteq Blocks /\ Recoded \subseteq Blocks /\ LiveRecode \in BOOLEAN
ASSUME BoundsAssumption == MaxRuns \in Nat /\ MaxEvents \in Nat

VARIABLES
    config,     \* the nodes of the workflow file, one of two contents each
    code,       \* the block versions the registry loaded, one of two each
    status,     \* runs.status of each run: "degraded" is completed with provenance_degraded,
                \* "failed" is any other end that is not completed
    run,        \* the last run, NoRun before the first
    rows,       \* artifacts with a data_objects row that names their producer
    disk,       \* the artifacts that exist, each with the <<block, definition, run>> it was
                \* computed from, its own included ({} for what is not on disk)
    phase,      \* where the task of the last run is
    runSet,     \* the blocks it runs: all of them, or a block and what is downstream of it
    cfg,        \* the nodes its scheduler was built with
    prints,     \* _definition_fingerprints of its scheduler, or Unset
    st,         \* _block_states
    out,        \* _block_outputs: the run whose artifact each block's output refers to, or NoRun
    lost,       \* the recorder failed to write a row of this run
    ckpt,       \* the checkpoint file: states, output references, lineage fingerprints
    keep,       \* the retained run a sweep has read, NoRun when none is between its steps
    doomed,     \* the artifacts planned for deletion and not visited yet
    events      \* how many changes and mishaps there were

userVars  == <<config, code>>
runVars   == <<status, run, phase, runSet, cfg>>
blockVars == <<prints, st, out, lost, ckpt>>
sweepVars == <<keep, doomed>>
storeVars == <<rows, disk>>
vars == <<config, code, status, run, rows, disk, phase, runSet, cfg, prints, st, out, lost,
          ckpt, keep, doomed, events>>

Runs      == 1..MaxRuns
NoRun     == 0
Unset     == <<>>
Artifacts == Blocks \X Runs
Terminal  == {"DONE", "ERROR", "SKIPPED"}

Exists(a) == disk[a] # {}

-----------------------------------------------------------------------------
(* The plan of a run from here.                                            *)

\* What a definition fingerprint hashes, the wiring being constant here.
Definitions(nodes) == [b \in Blocks |-> <<nodes[b], code[b]>>]

\* Tables of what the graph fixes.
Descendants == [b \in Blocks |-> Downstream(b)]
Upstream    == [b \in Blocks |-> Ancestors(b)]

\* The plan's run_set for the target t, and what it requires and reuses for a run set.
RunSet(t)   == {t} \cup Descendants[t]
Required(S) == {p \in Blocks \ S : \E n \in S : p \in Preds(n)}
Reused(S)   == Required(S) \cup UNION {Upstream[p] : p \in Required(S)}

\* The lineage fingerprint of b when everything upstream is computed anew from the
\* definitions d: a nested hash of definitions, flattened to the pairs it covers.
Lineage(d, b) == {<<a, d[a]>> : a \in Upstream[b] \cup {b}}

\* The blocks whose checkpointed output is there.
OnDisk == {p \in Blocks : ckpt.ref[p] # NoRun /\ Exists(<<p, ckpt.ref[p]>>)}

\* _check_required.  (An output always has a fingerprint here: checkpoints of a
\* version that wrote none are left out.)
Reusable(p, d) ==
    /\ ckpt.st[p] = "DONE"
    /\ ckpt.print[p] = Lineage(d, p)
    /\ p \in OnDisk

\* plan_run_from_here grants the run.
Granted(S, d) == \A p \in Required(S) : Reusable(p, d)

\* _output_fingerprints: an output of run r is described by the definitions d and by
\* what feeds it, a reused one keeps the entry of the checkpoint.
PrintsAnew(o, r, d) ==      \* faulty: restamps the outputs it only carries along
    [b \in Blocks |-> IF o[b] = NoRun THEN {} ELSE Lineage(d, b)]
OutputFingerprints(o, r, d) ==
    LET print[b \in Blocks] ==
            IF o[b] \notin {NoRun, r} THEN ckpt.print[b]
            ELSE {<<b, d[b]>>} \cup UNION {print[p] : p \in Preds(b)}
    IN  [b \in Blocks |-> IF o[b] = NoRun THEN {} ELSE print[b]]

\* save_checkpoint: the definition fingerprints are computed at the first call.
Save(s, o) ==
    LET d == IF prints = Unset THEN Definitions(cfg) ELSE prints
    IN  /\ prints' = d
        /\ ckpt' = [st |-> s, ref |-> o, print |-> OutputFingerprints(o, run, d)]

-----------------------------------------------------------------------------
Init ==
    /\ config = [b \in Blocks |-> 0] /\ code = [b \in Blocks |-> 0]
    /\ status = [r \in Runs |-> "none"] /\ run = NoRun
    /\ rows = {} /\ disk = [a \in Artifacts |-> {}]
    /\ phase = "none" /\ runSet = {}
    /\ cfg = config /\ prints = Unset
    /\ st = [b \in Blocks |-> "IDLE"] /\ out = [b \in Blocks |-> NoRun] /\ lost = FALSE
    /\ ckpt = [st |-> st, ref |-> out, print |-> [b \in Blocks |-> {}]]
    /\ keep = NoRun /\ doomed = {}
    /\ events = 0

Counted == events < MaxEvents /\ events' = events + 1

\* The user saves the workflow file, or goes back to what it was.
Edit(b) ==
    /\ b \in Edited /\ Counted
    /\ config' = [config EXCEPT ![b] = 1 - @]
    /\ UNCHANGED <<code, runVars, blockVars, sweepVars, storeVars>>

\* The user saves a block's code and the registry reloads it.
Recode(b) ==
    /\ b \in Recoded /\ Counted
    /\ phase # "none" => LiveRecode
    /\ code' = [code EXCEPT ![b] = 1 - @]
    /\ UNCHANGED <<config, runVars, blockVars, sweepVars, storeVars>>

\* start_workflow: refused while a run of the workflow goes on, and when the plan is.
Start(S) ==
    /\ phase = "none" /\ run < MaxRuns
    /\ Granted(S, Definitions(config))
    /\ phase' = "pending" /\ runSet' = S /\ cfg' = config
    /\ run' = run + 1 /\ status' = [status EXCEPT ![run + 1] = "running"]
    /\ UNCHANGED <<userVars, blockVars, sweepVars, storeVars, events>>

\* The run is over and its scheduler gone; what it held goes back to the initial values.
RunEndsAs(s) ==
    /\ phase' = "none" /\ runSet' = {} /\ cfg' = [b \in Blocks |-> 0]
    /\ prints' = Unset /\ lost' = FALSE
    /\ st' = [b \in Blocks |-> "IDLE"] /\ out' = [b \in Blocks |-> NoRun]
    /\ status' = [r \in Runs |-> IF status[r] = "running" THEN s ELSE status[r]]
    /\ UNCHANGED run

\* The first step of execute(), or of execute_from(), which plans again and fails
\* the run when the plan is refused now.
BeginKeepingOutputs ==      \* faulty: what the run set computed before stays DONE
    /\ phase = "pending" /\ phase' = "executing"
    /\ LET done == {b \in Blocks : ckpt.st[b] = "DONE" /\ Preds(b) \cap runSet # {}}
       IN  /\ st' = [b \in Blocks |-> IF b \in runSet \ done THEN "IDLE" ELSE "DONE"]
           /\ out' = [b \in Blocks |-> IF b \in runSet \ done THEN NoRun ELSE ckpt.ref[b]]
    /\ UNCHANGED <<userVars, status, run, runSet, cfg, prints, lost, ckpt, sweepVars, storeVars, events>>
Begin ==
    /\ phase = "pending"
    /\ IF Granted(runSet, Definitions(cfg))
       THEN /\ phase' = "executing"
            /\ st' = [b \in Blocks |-> IF b \in runSet THEN "IDLE"
                                       ELSE IF b \in Reused(runSet) THEN "DONE"
                                       ELSE IF ckpt.st[b] \in Terminal THEN ckpt.st[b] ELSE "SKIPPED"]
            /\ out' = [b \in Blocks |-> IF b \in runSet THEN NoRun ELSE ckpt.ref[b]]
            /\ UNCHANGED <<status, run, runSet, cfg, prints, lost>>
       ELSE RunEndsAs("failed")
    /\ UNCHANGED <<userVars, ckpt, sweepVars, storeVars, events>>

\* A block may start once everything that feeds it is DONE.
Ready(b) == phase = "executing" /\ st[b] = "IDLE" /\ \A p \in Preds(b) : st[p] = "DONE"

Inputs(b) == {<<p, out[p]>> : p \in Preds(b)}
InputsExist(b) == \A a \in Inputs(b) : Exists(a)

\* The worker of b reads its inputs and writes its artifact.
WorkerWrites(b) ==
    /\ Ready(b) /\ InputsExist(b)
    /\ st' = [st EXCEPT ![b] = "RUNNING"]
    /\ disk' = [disk EXCEPT ![<<b, run>>] =
                    {<<b, <<cfg[b], code[b]>>, run>>} \cup UNION {disk[a] : a \in Inputs(b)}]
    /\ UNCHANGED <<userVars, runVars, prints, out, lost, ckpt, sweepVars, rows, events>>

\* The engine takes the result; the recorder writes the rows of the block, or fails to
\* and remembers it (the row of the run is written after that, "degraded").
BlockDone(b) ==
    /\ phase = "executing" /\ st[b] = "RUNNING"
    /\ st' = [st EXCEPT ![b] = "DONE"] /\ out' = [out EXCEPT ![b] = run]
    /\ Save(st', out')
    /\ \/ rows' = rows \cup {<<b, run>>} /\ UNCHANGED <<lost, events>>
       \/ lost' = TRUE /\ UNCHANGED rows /\ Counted
    /\ UNCHANGED <<userVars, runVars, sweepVars, disk>>

\* The worker fails, before or after it wrote something, and certainly when an input is
\* gone; its descendants are skipped.
BlockFails(b) ==
    /\ phase = "executing"
    /\ \/ Ready(b) /\ ~InputsExist(b) /\ UNCHANGED events
       \/ (Ready(b) \/ st[b] = "RUNNING") /\ Counted
    /\ st' = [n \in Blocks |-> IF n = b THEN "ERROR"
                               ELSE IF n \in Descendants[b] /\ st[n] = "IDLE" THEN "SKIPPED" ELSE st[n]]
    /\ Save(st', out)
    /\ UNCHANGED <<userVars, runVars, out, lost, sweepVars, storeVars>>

\* _derive_lineage_run_status looks at every block, also at those carried along.
OutcomeOfBlocks ==      \* faulty: a status no reader of the table knows
    IF \E b \in Blocks : st[b] = "SKIPPED" THEN "skipped" ELSE "completed"
Outcome ==
    IF \E b \in Blocks : st[b] = "ERROR" THEN "failed" ELSE IF lost THEN "degraded" ELSE "completed"
RunEnds ==
    /\ phase = "executing" /\ \A b \in Blocks : st[b] \in Terminal
    /\ RunEndsAs(Outcome)
    /\ UNCHANGED <<userVars, ckpt, sweepVars, storeVars, events>>

\* The backend dies; at the next start its run is recorded as failed (RunLifetime).
Crash ==
    /\ phase # "none" \/ keep # NoRun \/ doomed # {}
    /\ RunEndsAs("failed")
    /\ keep' = NoRun /\ doomed' = {}
    /\ Counted
    /\ UNCHANGED <<userVars, ckpt, storeVars>>

-----------------------------------------------------------------------------
(* The retention sweep.  It runs after a completed run and on the command  *)
(* "storage gc", hence at any time here; sweeps whose deletions overlap    *)
(* add to the same set.                                                    *)

RetainedAnyEnd(r) ==        \* faulty: a run that failed counts as the one to keep
    status[r] \in {"completed", "failed"} /\ \A q \in Runs : status[q] \in {"completed", "failed"} => q <= r
\* latest_successful_run_per_workflow
Retained(r) ==
    status[r] = "completed" /\ \A q \in Runs : status[q] = "completed" => q <= r

\* runs_in_progress and the queries for the retained run.  Without a clean completed
\* run everything is protected.
SweepStarts ==
    /\ keep = NoRun /\ \A r \in Runs : status[r] # "running"
    /\ \E r \in Runs : Retained(r) /\ keep' = r
    /\ UNCHANGED <<userVars, runVars, blockVars, doomed, storeVars, events>>

\* The plan: what the retained run did not produce and what was not written since it
\* started, unless nothing it recorded is on disk.  (So the plan never covers every
\* artifact, and the last guard of plan_retention has nothing left to do.)
CandidatesOfAnyAge(k) == {a \in Artifacts : Exists(a) /\ (a \notin rows \/ a[2] # k)}  \* faulty
Candidates(k) ==
    LET live == {a \in rows : a[2] = k}
    IN  {a \in Artifacts \ live : Exists(a) /\ a[2] < k /\ \E l \in live : Exists(l)}
SweepScans ==
    /\ keep # NoRun /\ keep' = NoRun
    /\ doomed' = doomed \cup Candidates(keep)
    /\ UNCHANGED <<userVars, runVars, blockVars, storeVars, events>>

\* apply_retention visits the next candidate, block directory by block directory.  It
\* stays when it cannot be removed (the tolerance for clock skew has no other effect).
Reclaim(a) ==
    /\ a \in doomed
    /\ \A d \in doomed : Rank[a[1]] < Rank[d[1]] \/ (a[1] = d[1] /\ a[2] <= d[2])
    /\ doomed' = doomed \ {a}
    /\ \/ disk' = [disk EXCEPT ![a] = {}] /\ UNCHANGED events
       \/ disk' = disk /\ Counted
    /\ UNCHANGED <<userVars, runVars, blockVars, keep, rows>>

\* The user leaves it at that.
Rest == phase = "none" /\ keep = NoRun /\ doomed = {} /\ UNCHANGED vars

-----------------------------------------------------------------------------
Next ==
    \/ Rest \/ Begin \/ RunEnds \/ Crash \/ SweepStarts \/ SweepScans
    \/ Start(Blocks) \/ \E t \in Blocks : Start(RunSet(t))
    \/ \E b \in Blocks : Edit(b) \/ Recode(b) \/ WorkerWrites(b) \/ BlockDone(b) \/ BlockFails(b)
    \/ \E a \in Artifacts : Reclaim(a)

Spec == Init /\ [][Next]_vars

-----------------------------------------------------------------------------
TypeOK ==
    /\ config \in [Blocks -> 0..1] /\ code \in [Blocks -> 0..1] /\ cfg \in [Blocks -> 0..1]
    /\ status \in [Runs -> {"none", "running", "completed", "degraded", "failed"}]
    /\ run \in Runs \cup {NoRun} /\ rows \subseteq Artifacts /\ doomed \subseteq Artifacts
    /\ phase \in {"none", "pending", "executing"} /\ runSet \subseteq Blocks
    /\ st \in [Blocks -> {"IDLE", "RUNNING"} \cup Terminal]
    /\ ckpt.st \in [Blocks -> {"IDLE", "RUNNING"} \cup Terminal]
    /\ out \in [Blocks -> Runs \cup {NoRun}] /\ ckpt.ref \in [Blocks -> Runs \cup {NoRun}]
    /\ lost \in BOOLEAN
    /\ events \in 0..MaxEvents /\ keep \in Runs \cup {NoRun}

\* What the artifact a was really computed from is what the definitions d say, for its
\* block and for everything upstream of it.
Fresh(a, d) == \A m \in disk[a] : m[2] = d[m[1]]

\* A run from here is granted exactly when every output it needs is finished, on disk
\* and computed from the present definitions of its whole upstream: an edit, a
\* partial run or an undone edit never makes it reuse a stale output, and never
\* makes it refuse a good one.
ReuseIsExact ==
    \A t \in Blocks :
        Granted(RunSet(t), Definitions(config)) <=>
            \A p \in Required(RunSet(t)) :
                /\ ckpt.st[p] = "DONE" /\ p \in OnDisk
                /\ Fresh(<<p, ckpt.ref[p]>>, Definitions(config))

\* No artifact is computed from two different results of one block, whatever full
\* and partial runs came before.
OneGeneration ==
    \A a \in Artifacts : \A m, n \in disk[a] : m[1] = n[1] => m = n

\* Everything the last clean completed run recorded is still on disk: "Retention
\* always leaves one complete run on disk".
LastGoodRunStays ==
    \A a \in rows : Retained(a[2]) => Exists(a)

\* An artifact is reclaimed only when a later run has completed cleanly: failed,
\* interrupted and badly recorded runs supersede nothing.
OnlySupersededReclaimed ==
    [][\A a \in Artifacts : Exists(a) /\ disk'[a] = {} => \E r \in Runs : r > a[2] /\ status[r] = "completed"]_vars

\* "plan_retention refuses to sweep while any run is still executing, so a concurrent
\* run is safe" (_schedule_artifact_retention): the outputs an executing run has
\* taken over stay on disk as long as a block of it has still to read them.
ReusedInputsStay ==
    phase = "executing" =>
        \A b \in Blocks : st[b] = "IDLE" =>
            \A p \in Preds(b) : st[p] = "DONE" => Exists(<<p, out[p]>>)
=============================================================================
