------------------------- MODULE RunLifetimeProofs -------------------------
(***************************************************************************)
(* How runs begin and end, for any number of runs, backends and failures.  *)
(* LifeInv says what a backend's loop knows of the run it is busy with,    *)
(* and what a run's own backend does with it; EndInv adds the stores, the  *)
(* workflows and what a graceful stop leaves behind; OnceInv says who may  *)
(* write the end of a run.  A step of one backend reaches the others only  *)
(* by what Onward allows it on disk.                                       *)
(***************************************************************************)
EXTENDS RunLifetime, TLAPS

USE DEF Statuses

-----------------------------------------------------------------------------
(* Types.                                                                  *)

LEMMA JobType ==
    /\ Nothing \in Jobs
    /\ \A do \in Steps, r \in Runs \cup {NoRun}, mark \in Statuses \cup {"none", "plain"}, todo \in SUBSET Runs :
          Job(do, r, mark, todo) \in Jobs
    /\ \A j \in Jobs : /\ j.run \in Runs \cup {NoRun} /\ j.mark \in Statuses \cup {"none", "plain"}
                       /\ j.todo \in SUBSET Runs
                       /\ \A do \in Steps : [j EXCEPT !.do = do] \in Jobs
                       /\ \A todo \in SUBSET Runs : [j EXCEPT !.todo = todo] \in Jobs
<1>1. Nothing \in Jobs
  BY DEF Nothing, Jobs, Steps
<1>2. ASSUME NEW do \in Steps, NEW r \in Runs \cup {NoRun}, NEW mark \in Statuses \cup {"none", "plain"},
             NEW todo \in SUBSET Runs
      PROVE  Job(do, r, mark, todo) \in Jobs
  BY DEF Job, Jobs
<1>3. ASSUME NEW j \in Jobs
      PROVE  /\ j.run \in Runs \cup {NoRun} /\ j.mark \in Statuses \cup {"none", "plain"}
             /\ j.todo \in SUBSET Runs
             /\ \A do \in Steps : [j EXCEPT !.do = do] \in Jobs
             /\ \A todo \in SUBSET Runs : [j EXCEPT !.todo = todo] \in Jobs
  BY <1>3 DEF Jobs
<1> QED BY <1>1, <1>2, <1>3

LEMMA StepNames ==
    {"nothing", "insert", "finalize", "release", "unlink", "annotate", "rows", "judge",
     "recheck", "write", "drop", "markers", "claimed", "orphan", "sweep"} \subseteq Steps
BY DEF Steps

\* A status is recorded, or kept in the marker, only where there is one.
MarkInv == \A b \in Backends : job[b].do \in {"finalize", "release", "annotate"} => job[b].mark \in Statuses
OutcomeInv == \A r \in Runs : task[r] = "done" => outcome[r] \in Statuses
TypeInv == TypeOK /\ MarkInv /\ OutcomeInv

LEMMA TypeInit == Init => TypeInv
BY JobType DEF Init, TypeOK, TypeInv, MarkInv, OutcomeInv, Nothing

\* The loop of b goes on with job j.
LEMMA JobGoes ==
    ASSUME TypeInv, NEW b \in Backends, NEW j \in Jobs, GoOn(b, j),
           j.do \in {"finalize", "release", "annotate"} => j.mark \in Statuses
    PROVE  /\ job' \in [Backends -> Jobs]
           /\ MarkInv'
BY DEF TypeInv, TypeOK, MarkInv, GoOn

\* A status is written.
LEMMA RecordedType ==
    ASSUME TypeInv, NEW r, NEW s \in Statuses, Recorded(r, s)
    PROVE  row' \in [Runs -> Statuses \cup {"absent", "running"}]
BY DEF TypeInv, TypeOK, Recorded

\* A step that changes the disk, a job and the number of failures at most.
LEMMA LoopType ==
    ASSUME TypeInv, UNCHANGED <<projectVars, loopVars, runVars>>,
           row' \in [Runs -> Statuses \cup {"absent", "running"}],
           marker' \in [Runs -> Statuses \cup {"none", "plain"}],
           job' \in [Backends -> Jobs], MarkInv', faults' \in Nat, missed' = missed
    PROVE  TypeInv'
BY DEF TypeInv, TypeOK, OutcomeInv, projectVars, loopVars, runVars

LEMMA TypeNext == TypeInv /\ [Next]_vars => TypeInv'
<1> SUFFICES ASSUME TypeInv, [Next]_vars PROVE TypeInv'
  OBVIOUS
<1>0. /\ TypeOK /\ MarkInv /\ OutcomeInv
      /\ \A b \in Backends : job[b] \in Jobs
      /\ faults \in Nat /\ faults + 1 \in Nat
  BY DEF TypeInv, TypeOK
<1> USE DEF diskVars, loopVars, projectVars, runVars, Fault
<1>1. CASE UNCHANGED vars
  BY <1>0, <1>1 DEF TypeOK, MarkInv, OutcomeInv, TypeInv, vars
<1>2. ASSUME NEW r \in Runs, Claim(r) PROVE TypeInv'
  <2>1. Home[r] \in Backends /\ Job("insert", r, "none", {}) \in Jobs
    BY OwnersAssumption, JobType, StepNames
  <2>2. job' \in [Backends -> Jobs] /\ MarkInv'
    <3>1. GoOn(Home[r], Job("insert", r, "none", {}))
      BY <1>2 DEF Claim
    <3>2. Job("insert", r, "none", {}).do = "insert"
      BY DEF Job
    <3> QED BY <2>1, <3>1, <3>2, JobGoes
  <2> QED BY <1>0, <1>2, <2>1, <2>2 DEF Claim, TypeOK, OutcomeInv, TypeInv
<1>3. ASSUME NEW r \in Runs, Finish(r) PROVE TypeInv'
  BY <1>0, <1>3 DEF TypeOK, MarkInv, OutcomeInv, TypeInv, Finish
<1>4. ASSUME NEW r \in Runs, Callback(r) PROVE TypeInv'
  <2> DEFINE j == IF forced[r] THEN Nothing ELSE Job("finalize", r, outcome[r], {})
  <2>1. Home[r] \in Backends /\ outcome[r] \in Statuses
    BY <1>0, <1>4, OwnersAssumption DEF Callback, OutcomeInv
  <2>2. j \in Jobs /\ (j.do \in {"finalize", "release", "annotate"} => j.mark \in Statuses)
    BY <2>1, JobType, StepNames DEF Nothing, Job
  <2>3. GoOn(Home[r], j)
    BY <1>4 DEF Callback
  <2> HIDE DEF j
  <2>4. job' \in [Backends -> Jobs] /\ MarkInv'
    BY <2>1, <2>2, <2>3, JobGoes
  <2> QED BY <1>0, <1>4, <2>4 DEF Callback, TypeOK, OutcomeInv, TypeInv
<1>5. ASSUME NEW b \in Backends, Insert(b) PROVE TypeInv'
  <2> DEFINE r == job[b].run
  <2>1. r \in Runs \cup {NoRun} /\ Job("finalize", r, "failed", {}) \in Jobs /\ Nothing \in Jobs
    BY <1>0, JobType, StepNames
  <2>2. job' \in [Backends -> Jobs] /\ MarkInv'
    BY <1>5, <2>1, JobGoes DEF Insert, Job, Nothing
  <2>3. /\ row' \in [Runs -> Statuses \cup {"absent", "running"}]
        /\ faults' \in Nat
    BY <1>0, <1>5 DEF Insert, TypeOK
  <2>7. missed' \in SUBSET Runs
    BY <1>0, <1>5 DEF Insert, TypeOK
  <2>4. PICK to \in {"going", "over"} : task' = [task EXCEPT ![r] = to]
    BY <1>5 DEF Insert
  <2>5. /\ task' \in [Runs -> {"none", "starting", "going", "done", "over"}]
        /\ OutcomeInv'
    <3>1. task \in [Runs -> {"none", "starting", "going", "done", "over"}] /\ outcome' = outcome
      BY <1>0, <1>5 DEF Insert, TypeOK
    <3>2. \A q \in Runs : task'[q] \in {task[q], to}
      BY <2>4, <3>1
    <3>3. OutcomeInv'
      BY <1>0, <3>1, <3>2 DEF OutcomeInv
    <3> QED BY <2>4, <3>1, <3>3
  <2>6. listed' \in [Runs -> {"no", "project", "stopping"}]
    BY <1>0, <1>5 DEF Insert, TypeOK
  <2> QED BY <1>0, <1>5, <2>2, <2>3, <2>5, <2>6, <2>7 DEF Insert, TypeOK, TypeInv
<1>6. ASSUME NEW b \in Backends, Finalize(b) PROVE TypeInv'
  <2> DEFINE j == [job[b] EXCEPT !.do = "release"]
  <2>1. j \in Jobs /\ j.mark = job[b].mark /\ job[b].mark \in Statuses
    BY <1>0, <1>6, JobType, StepNames DEF Finalize, MarkInv, Jobs
  <2>2. job' \in [Backends -> Jobs] /\ MarkInv'
    BY <1>6, <2>1, JobGoes DEF Finalize
  <2>3. row' \in [Runs -> Statuses \cup {"absent", "running"}] /\ faults' \in Nat /\ marker' = marker
    BY <1>0, <1>6, <2>1, RecordedType DEF Finalize, TypeOK
  <2> QED BY <1>0, <1>6, <2>2, <2>3, LoopType DEF Finalize, TypeOK
<1>7. ASSUME NEW b \in Backends, Release(b) PROVE TypeInv'
  <2>1. ASSUME NEW do \in {"unlink", "annotate"}
        PROVE  /\ [job[b] EXCEPT !.do = do] \in Jobs
               /\ [job[b] EXCEPT !.do = do].mark = job[b].mark /\ job[b].mark \in Statuses
    BY <1>0, <1>7, JobType, StepNames DEF Release, MarkInv, Jobs
  <2>2. PICK do \in {"unlink", "annotate"} : GoOn(b, [job[b] EXCEPT !.do = do])
    BY <1>7 DEF Release
  <2>3. job' \in [Backends -> Jobs] /\ MarkInv'
    BY <2>1, <2>2, JobGoes
  <2>4. job[b].mark \in Statuses
    BY <2>1
  <2>5. row' \in [Runs -> Statuses \cup {"absent", "running"}] /\ faults' \in Nat
    BY <1>0, <1>7, <2>4, RecordedType DEF Release, TypeOK
  <2>6. /\ retired' \in [Backends -> SUBSET Nat] /\ closed' \in [Backends -> SUBSET Nat]
        /\ live' \in [Runs -> BOOLEAN]
    BY <1>0, <1>7 DEF Release, TypeOK
  <2> QED BY <1>0, <1>7, <2>3, <2>5, <2>6 DEF Release, TypeOK, OutcomeInv, TypeInv
<1>8. ASSUME NEW b \in Backends, Tidy(b) PROVE TypeInv'
  <2>1. job' \in [Backends -> Jobs] /\ MarkInv'
    BY <1>8, JobType, JobGoes DEF Tidy, Nothing
  <2>2. marker' \in [Runs -> Statuses \cup {"none", "plain"}] /\ faults' \in Nat
    BY <1>0, <1>8 DEF Tidy, TypeOK, MarkInv
  <2> QED BY <1>0, <1>8, <2>1, <2>2, LoopType DEF Tidy, TypeOK
<1>9. ASSUME NEW b \in Backends, EndRuns(b) PROVE TypeInv'
  <2>1. waitFor' \in [Backends -> SUBSET Runs]
    BY <1>0, <1>9 DEF TypeOK, EndRuns, RunsOf
  <2>2. ending' \in [Backends -> {"no", "leave", "stop", "turn", "force"}]
    BY <1>0, <1>9 DEF TypeOK, EndRuns
  <2> QED BY <1>0, <1>9, <2>1, <2>2 DEF TypeOK, MarkInv, OutcomeInv, TypeInv, EndRuns
<1>10. ASSUME NEW b \in Backends, Stop(b) PROVE TypeInv'
  <2>1. waitFor' \in [Backends -> SUBSET Runs] /\ stopping' \in [Backends -> BOOLEAN]
    BY <1>0, <1>10 DEF TypeOK, Stop, RunsOf
  <2>2. ending' \in [Backends -> {"no", "leave", "stop", "turn", "force"}]
    BY <1>0, <1>10 DEF TypeOK, Stop
  <2> QED BY <1>0, <1>10, <2>1, <2>2 DEF TypeOK, MarkInv, OutcomeInv, TypeInv, Stop
<1>11. ASSUME NEW b \in Backends, TimeUp(b) \/ TurnEnds(b) \/ ForceEnds(b) PROVE TypeInv'
  <2>1. waitFor' \in [Backends -> SUBSET Runs] /\ late' \in [Backends -> SUBSET Runs]
    BY <1>0, <1>11 DEF TypeOK, TimeUp, TurnEnds, ForceEnds
  <2>2. ending' \in [Backends -> {"no", "leave", "stop", "turn", "force"}]
    BY <1>0, <1>11 DEF TypeOK, TimeUp, TurnEnds, ForceEnds
  <2>3. listed' \in [Runs -> {"no", "project", "stopping"}]
    BY <1>0, <1>11 DEF TypeOK, TimeUp, TurnEnds, ForceEnds
  <2> QED BY <1>0, <1>11, <2>1, <2>2, <2>3
          DEF TypeOK, MarkInv, OutcomeInv, TypeInv, TimeUp, TurnEnds, ForceEnds
<1>12. ASSUME NEW b \in Backends, ForceOne(b) PROVE TypeInv'
  <2>1. PICK r \in late[b] :
          /\ late' = [late EXCEPT ![b] = @ \ {r}]
          /\ \/ forced' = [forced EXCEPT ![r] = TRUE] /\ GoOn(b, Job("finalize", r, "cancelled", {}))
             \/ UNCHANGED <<forced, job>>
    BY <1>12 DEF ForceOne
  <2>2. r \in Runs /\ Job("finalize", r, "cancelled", {}) \in Jobs
    BY <1>0, JobType, StepNames DEF TypeOK
  <2>3. job' \in [Backends -> Jobs] /\ MarkInv'
    BY <1>0, <2>1, <2>2, JobGoes DEF Job, TypeOK, MarkInv
  <2>4. forced' \in [Runs -> BOOLEAN] /\ late' \in [Backends -> SUBSET Runs]
    BY <1>0, <2>1 DEF TypeOK
  <2> QED BY <1>0, <1>12, <2>3, <2>4 DEF ForceOne, TypeOK, OutcomeInv, TypeInv
<1>13. ASSUME NEW b \in Backends, Switch(b) PROVE TypeInv'
  <2>1. active' \in [Backends -> BOOLEAN] /\ listed' \in [Runs -> {"no", "project", "stopping"}]
    BY <1>0, <1>13 DEF TypeOK, Switch
  <2>2. retired' \in [Backends -> SUBSET Nat] /\ closed' \in [Backends -> SUBSET Nat]
    BY <1>0, <1>13 DEF TypeOK, Switch
  <2> QED BY <1>0, <1>13, <2>1, <2>2 DEF TypeOK, MarkInv, OutcomeInv, TypeInv, Switch
<1>14. ASSUME NEW b \in Backends, NEW how \in {"killed", "exited"}, Dies(b, how) PROVE TypeInv'
  <2>1. job' \in [Backends -> Jobs] /\ MarkInv'
    BY <1>14, JobType, JobGoes DEF Dies, Nothing
  <2>2. /\ task' \in [Runs -> {"none", "starting", "going", "done", "over"}]
        /\ listed' \in [Runs -> {"no", "project", "stopping"}]
        /\ live' \in [Runs -> BOOLEAN] /\ forced' \in [Runs -> BOOLEAN]
    BY <1>0, <1>14 DEF Dies, TypeOK
  <2>3. /\ proc' \in [Backends -> {"up", "killed", "exited"}] /\ active' \in [Backends -> BOOLEAN]
        /\ ending' \in [Backends -> {"no", "leave", "stop", "turn", "force"}]
        /\ waitFor' \in [Backends -> SUBSET Runs] /\ late' \in [Backends -> SUBSET Runs]
    BY <1>0, <1>14 DEF Dies, TypeOK
  <2>4. OutcomeInv'
    BY <1>0, <1>14 DEF Dies, TypeOK, OutcomeInv
  <2> QED BY <1>0, <1>14, <2>1, <2>2, <2>3, <2>4 DEF Dies, TypeOK, TypeInv
<1>15. ASSUME NEW b \in Backends, Open(b) PROVE TypeInv'
  <2>1. Job("rows", NoRun, "none", {r \in Runs : row[r] = "running"}) \in Jobs
    BY JobType, StepNames
  <2>2. job' \in [Backends -> Jobs] /\ MarkInv'
    BY <1>0, <1>15, <2>1, JobGoes DEF Open, Job, TypeOK, MarkInv
  <2>3. opened' \in [Backends -> Nat] /\ active' \in [Backends -> BOOLEAN] /\ faults' \in Nat
    BY <1>0, <1>15 DEF Open, TypeOK
  <2> QED BY <1>0, <1>15, <2>2, <2>3 DEF Open, TypeOK, OutcomeInv, TypeInv
<1>16. ASSUME NEW b \in Backends, NextRow(b) \/ NextMarker(b) PROVE TypeInv'
  <2>1. PICK j \in Jobs : GoOn(b, j) /\ j.do \notin {"finalize", "release", "annotate"}
    <3>1. /\ Job("markers", NoRun, "none", {r \in Runs : marker[r] # "none"}) \in Jobs
          /\ Nothing \in Jobs /\ job[b].todo \in SUBSET Runs
          /\ \A r \in job[b].todo : [job[b] EXCEPT !.todo = @ \ {r}] \in Jobs
      BY <1>0, JobType, StepNames
    <3>2. \A r \in job[b].todo : /\ Job("judge", r, marker[r], job[b].todo \ {r}) \in Jobs
                                 /\ Job("claimed", r, marker[r], job[b].todo \ {r}) \in Jobs
      BY <1>0, <3>1, JobType, StepNames DEF TypeOK
    <3>3. \A r \in job[b].todo : [job[b] EXCEPT !.todo = @ \ {r}].do = job[b].do
      BY <1>0 DEF Jobs
    <3> QED BY <1>16, <3>1, <3>2, <3>3 DEF NextRow, NextMarker, Job, Nothing
  <2>2. job' \in [Backends -> Jobs] /\ MarkInv'
    BY <2>1, JobGoes
  <2>3. row' = row /\ marker' = marker /\ faults' \in Nat
    BY <1>0, <1>16 DEF NextRow, NextMarker
  <2> QED BY <1>0, <1>16, <2>2, <2>3, LoopType DEF NextRow, NextMarker, TypeOK
<1>17. ASSUME NEW b \in Backends, Judge(b) \/ Recheck(b) \/ SweepReads(b) \/ SweepJudges(b) \/ Write(b) \/ Drop(b) \/ Sweep(b)
       PROVE  TypeInv'
  <2>1. PICK do \in {"recheck", "rows", "write", "markers", "orphan", "sweep", "drop"} : GoOn(b, [job[b] EXCEPT !.do = do])
    BY <1>17 DEF Judge, Recheck, SweepReads, SweepJudges, Write, Drop, Sweep
  <2>2. [job[b] EXCEPT !.do = do] \in Jobs /\ [job[b] EXCEPT !.do = do].do = do
    BY <1>0, JobType, StepNames DEF Jobs
  <2>3. job' \in [Backends -> Jobs] /\ MarkInv'
    BY <2>1, <2>2, JobGoes
  <2>4. row' \in [Runs -> Statuses \cup {"absent", "running"}]
    <3>1. row' = row \/ \E s \in Statuses : Recorded(job[b].run, s)
      BY <1>17 DEF Judge, Recheck, SweepReads, SweepJudges, Write, Drop, Sweep
    <3> QED BY <1>0, <3>1, RecordedType DEF TypeOK
  <2>5. marker' \in [Runs -> Statuses \cup {"none", "plain"}] /\ faults' \in Nat
    BY <1>0, <1>17 DEF Judge, Recheck, SweepReads, SweepJudges, Write, Drop, Sweep, TypeOK
  <2> QED BY <1>17, <2>3, <2>4, <2>5, LoopType DEF Judge, Recheck, SweepReads, SweepJudges, Write, Drop, Sweep
<1> QED BY <1>1, <1>2, <1>3, <1>4, <1>5, <1>6, <1>7, <1>8, <1>9, <1>10, <1>11, <1>12, <1>13, <1>14, <1>15,
           <1>16, <1>17 DEF Next, LoopStep, Resume, Exit, Killed, Over

-----------------------------------------------------------------------------
(* The invariant.                                                          *)

Needed(r) == row[r] = "running" \/ (live[r] /\ row[r] = "absent")

\* A sweep that missed the insertion of the row may take the marker: the owner is gone.
Lost(r) == r \in missed /\ proc[Home[r]] # "up"

\* The loop of r's backend is in the middle of one of the steps with r.
At(r, steps) == job[Home[r]].do \in steps /\ job[Home[r]].run = r

OwnSteps   == {"insert", "finalize", "release", "unlink", "annotate"}
OtherSteps == {"judge", "recheck", "write", "drop", "claimed", "orphan", "sweep"}

\* What the loop of b knows of the run it is busy with.
JobAt(b) == LET d == job[b].do  r == job[b].run  mark == job[b].mark  todo == job[b].todo IN
    /\ d \in OwnSteps \cup OtherSteps => r \in Runs /\ task[r] # "none"
    /\ \A q \in todo : task[q] # "none"
    /\ d \in {"rows", "judge", "recheck", "write", "drop"} => \A q \in todo : row[q] # "absent"
    /\ d \in OwnSteps => Home[r] = b
    /\ d = "insert" => live[r] /\ row[r] = "absent" /\ task[r] = "starting"
    /\ d \in {"unlink", "annotate"} => ~live[r]
    /\ d = "unlink" => row[r] # "running"
    /\ d \in {"judge", "recheck", "write", "drop"} => row[r] # "absent"
    /\ d \in OtherSteps /\ Home[r] = b => ~live[r]
    /\ d = "judge" /\ mark = "none" => row[r] # "running" \/ Lost(r)
    /\ d = "recheck" => row[r] # "running" \/ ~live[r]
    /\ d = "write" => ~live[r]
    /\ d = "drop" => row[r] # "running"
    /\ d = "claimed" /\ mark = "none" => ~Needed(r) \/ Lost(r)
    /\ d = "orphan" => \/ row[r] # "running" \/ Machine[b] # Machine[Home[r]]
                       \/ r \in missed /\ Home[r] # b
    /\ d = "sweep" => ~Needed(r) \/ Lost(r)

\* What the backend of r does with it.
HomeAt(r) ==
    /\ proc[Home[r]] # "up" => task[r] = "over" /\ ~live[r]
    /\ live[r] => task[r] \in {"going", "done"} \/ At(r, {"insert", "finalize", "release"})
    /\ task[r] = "starting" => At(r, {"insert"})
    /\ task[r] = "going" => listed[r] # "no"
    /\ forced[r] => task[r] # "none" /\ (live[r] => At(r, {"finalize", "release"}))

RunAt(r) ==
    /\ task[r] = "none" => row[r] = "absent" /\ marker[r] = "none" /\ ~live[r]
    /\ HomeAt(r)
    /\ Needed(r) => marker[r] # "none" \/ Lost(r)

DeadAt(b) == proc[b] # "up" => job[b] = Nothing

WaitAt(b) == waitFor[b] \subseteq RunsOf(b) /\ late[b] \subseteq RunsOf(b)

LifeInv == /\ TypeInv
           /\ \A b \in Backends : JobAt(b) /\ DeadAt(b) /\ WaitAt(b)
           /\ \A r \in Runs : RunAt(r)

\* What any step does to a run, and to what others know of it.
Onward(q) ==
    /\ task[q] # "none" => task'[q] # "none" /\ (~live[q] => ~live'[q])
    /\ task'[q] = "none" => live'[q] = live[q]
    /\ row[q] \in Statuses => row'[q] \in Statuses
    /\ row[q] = "running" => row'[q] \in Statuses \cup {"running"}
    /\ row[q] = "absent" => row'[q] = "absent" \/ (live[q] /\ row'[q] = "running")
    /\ row[q] = "absent" /\ row'[q] = "running" /\ (\E c \in Backends : MissesRow(c, q)) => q \in missed'
    /\ (q \in missed => q \in missed') /\ (Lost(q) => Lost(q)')
    /\ task[q] = "none" /\ task'[q] # "none" => marker'[q] = "plain" \/ ~live'[q]
    /\ \/ marker'[q] = marker[q]
       \/ task[q] # "none" /\ marker'[q] \in Statuses
       \/ task[q] = "none" /\ task'[q] # "none"
       \/ task[q] # "none" /\ marker'[q] = "none" /\ (~Needed(q) \/ Lost(q))

\* Only the backend b, and the runs that are its own, move in memory.
Acts(b) ==
    /\ \A c \in Backends \ {b} : /\ job'[c] = job[c] /\ proc'[c] = proc[c] /\ active'[c] = active[c]
                                 /\ opened'[c] = opened[c] /\ retired'[c] = retired[c] /\ closed'[c] = closed[c]
                                 /\ ending'[c] = ending[c] /\ waitFor'[c] = waitFor[c]
                                 /\ late'[c] = late[c] /\ stopping'[c] = stopping[c]
    /\ \A q \in Runs : Home[q] # b => /\ task'[q] = task[q] /\ live'[q] = live[q]
                                      /\ listed'[q] = listed[q] /\ store'[q] = store[q]
                                      /\ forced'[q] = forced[q]
                                      /\ row[q] = "absent" => row'[q] = "absent"

\* What b does, Over aside.
StepOf(b) ==
    \/ \E r \in Runs : Home[r] = b /\ (Claim(r) \/ Finish(r) \/ Callback(r))
    \/ LoopStep(b) \/ Resume(b) \/ EndRuns(b) \/ Stop(b) \/ Exit(b) \/ Switch(b) \/ Killed(b) \/ Open(b)

LEMMA NextIsStep == [Next]_vars => UNCHANGED vars \/ \E b \in Backends : StepOf(b)
BY OwnersAssumption DEF Next, StepOf, Over

LEMMA StepActs ==
    ASSUME LifeInv, NEW b \in Backends, StepOf(b)
    PROVE  Acts(b)
<1> USE DEF diskVars, loopVars, projectVars, runVars, GoOn, Fault, Acts
<1>0. /\ TypeOK /\ Home \in [Runs -> Backends] /\ waitFor[b] \subseteq RunsOf(b) /\ late[b] \subseteq RunsOf(b)
      /\ job[b].do \in OwnSteps => job[b].run \in Runs /\ Home[job[b].run] = b
  BY OwnersAssumption DEF LifeInv, TypeInv, JobAt, WaitAt
<1>1. ASSUME NEW r \in Runs, Home[r] = b, Claim(r) \/ Finish(r) \/ Callback(r) PROVE Acts(b)
  BY <1>0, <1>1 DEF Claim, Finish, Callback, TypeOK
<1>2. CASE Insert(b)
  BY <1>0, <1>2 DEF Insert, TypeOK, OwnSteps
<1>3. CASE Finalize(b) \/ Release(b) \/ Tidy(b)
  <2>1. \A q \in Runs : row[q] = "absent" => row'[q] = "absent"
    BY <1>0, <1>3 DEF Finalize, Release, Tidy, Recorded, TypeOK
  <2> QED BY <1>0, <1>3, <2>1 DEF Finalize, Release, Tidy, TypeOK, OwnSteps
<1>4. CASE NextRow(b) \/ Judge(b) \/ Recheck(b) \/ Write(b) \/ Drop(b) \/ NextMarker(b) \/ SweepReads(b) \/ SweepJudges(b) \/ Sweep(b)
  <2>1. \E j : job' = [job EXCEPT ![b] = j]
    BY <1>4 DEF NextRow, Judge, Recheck, Write, Drop, NextMarker, SweepReads, SweepJudges, Sweep
  <2>2. UNCHANGED <<projectVars, loopVars, runVars>>
    BY <1>4 DEF NextRow, Judge, Recheck, Write, Drop, NextMarker, SweepReads, SweepJudges, Sweep
  <2>3. \A q \in Runs : row[q] = "absent" => row'[q] = "absent"
    BY <1>0, <1>4 DEF NextRow, Judge, Recheck, Write, Drop, NextMarker, SweepReads, SweepJudges, Sweep, Recorded, TypeOK
  <2> QED BY <1>0, <2>1, <2>2, <2>3 DEF TypeOK
<1>5. CASE TimeUp(b) \/ TurnEnds(b) \/ ForceOne(b)
  BY <1>0, <1>5 DEF TimeUp, TurnEnds, ForceOne, TypeOK, RunsOf
<1>6. CASE ForceEnds(b)
  BY <1>0, <1>6 DEF ForceEnds, TypeOK, RunsOf
<1>7. CASE EndRuns(b) \/ Stop(b)
  BY <1>0, <1>7 DEF EndRuns, Stop, TypeOK
<1>8. CASE Switch(b)
  BY <1>0, <1>8 DEF Switch, TypeOK
<1>9. CASE \E how \in {"killed", "exited"} : Dies(b, how)
  BY <1>0, <1>9 DEF Dies, TypeOK
<1>10. CASE Open(b)
  BY <1>0, <1>10 DEF Open, TypeOK
<1> QED BY <1>1, <1>2, <1>3, <1>4, <1>5, <1>6, <1>7, <1>8, <1>9, <1>10 DEF StepOf, LoopStep, Resume, Exit, Killed

\* A backend that takes a step is up, and stays so unless that is how it dies.
LEMMA StepIsAlive ==
    ASSUME LifeInv, NEW b \in Backends, StepOf(b)
    PROVE  \/ proc[b] = "up" /\ proc' = proc
           \/ \E how \in {"killed", "exited"} : Dies(b, how)
<1> USE DEF Idle, projectVars
<1>1. DeadAt(b)
  BY DEF LifeInv
<1>2. CASE LoopStep(b)
  <2>1. job[b] # Nothing
    BY <1>2 DEF LoopStep, Insert, Finalize, Release, Tidy, NextRow, Judge, Recheck, Write, Drop, NextMarker,
                SweepReads, SweepJudges, Sweep, Nothing
  <2>2. proc' = proc
    BY <1>2 DEF LoopStep, Insert, Finalize, Release, Tidy, NextRow, Judge, Recheck, Write, Drop, NextMarker,
                SweepReads, SweepJudges, Sweep
  <2> QED BY <1>1, <2>1, <2>2 DEF DeadAt
<1>3. CASE Resume(b)
  BY <1>3 DEF Resume, TimeUp, TurnEnds, ForceOne, ForceEnds
<1>4. CASE EndRuns(b) \/ Stop(b) \/ Switch(b) \/ Open(b)
  BY <1>4 DEF EndRuns, Stop, Switch, Open
<1>5. ASSUME NEW r \in Runs, Home[r] = b, Claim(r) \/ Finish(r) \/ Callback(r)
      PROVE  proc[b] = "up" /\ proc' = proc
  BY <1>5 DEF Claim, Finish, Callback
<1>6. CASE Exit(b) \/ Killed(b)
  BY <1>6 DEF Exit, Killed
<1> QED BY <1>2, <1>3, <1>4, <1>5, <1>6 DEF StepOf

LEMMA StepOnward ==
    ASSUME LifeInv, NEW b \in Backends, StepOf(b), NEW q \in Runs
    PROVE  Onward(q)
<1> USE DEF diskVars, loopVars, projectVars, runVars, GoOn, Fault
<1>0. /\ TypeOK /\ MarkInv /\ JobAt(b) /\ RunAt(q) /\ Home[q] \in Backends
      /\ missed \subseteq missed' => (q \in missed => q \in missed') /\ (Lost(q) => Lost(q)')
  <2>1. TypeOK /\ MarkInv /\ JobAt(b) /\ RunAt(q) /\ Home[q] \in Backends
    BY OwnersAssumption DEF LifeInv, TypeInv
  <2>2. proc[Home[q]] # "up" => proc'[Home[q]] # "up"
    BY <2>1, StepIsAlive DEF Dies, TypeOK
  <2> QED BY <2>1, <2>2 DEF Lost
<1>1. ASSUME UNCHANGED <<row, marker, missed>>, task[q] # "none" => task'[q] # "none" /\ (~live[q] => ~live'[q]),
             task[q] = "none" => task'[q] = "none" /\ live'[q] = live[q]
      PROVE  Onward(q)
  BY <1>0, <1>1 DEF TypeOK, Onward
<1>2. ASSUME NEW r \in Runs, Claim(r) PROVE Onward(q)
  BY <1>0, <1>2 DEF Claim, TypeOK, Onward, RunAt
<1>3. ASSUME NEW r \in Runs, Finish(r) \/ Callback(r) PROVE Onward(q)
  BY <1>0, <1>1, <1>3 DEF Finish, Callback, TypeOK
<1>4. CASE Insert(b)
  BY <1>0, <1>4 DEF Insert, TypeOK, Onward, JobAt, OwnSteps
<1>5. ASSUME NEW s \in Statuses, row' = row \/ Recorded(job[b].run, s), UNCHANGED <<marker, missed, task>>,
             ~live[q] => ~live'[q], task[q] = "none" => live'[q] = live[q]
      PROVE  Onward(q)
  BY <1>0, <1>5 DEF Recorded, TypeOK, Onward
<1>6. CASE Finalize(b)
  <2>1. job[b].mark \in Statuses
    BY <1>0, <1>6 DEF Finalize, MarkInv
  <2> QED BY <1>5, <1>6, <2>1 DEF Finalize
<1>7. CASE Release(b)
  <2>1. job[b].mark \in Statuses /\ task[job[b].run] # "none"
    BY <1>0, <1>7 DEF Release, MarkInv, JobAt, OwnSteps
  <2>2. row' = row \/ Recorded(job[b].run, job[b].mark)
    BY <1>7 DEF Release
  <2>3. live \in [Runs -> BOOLEAN] /\ live' = [live EXCEPT ![job[b].run] = FALSE]
    BY <1>0, <1>7 DEF Release, TypeOK
  <2>4. (~live[q] => ~live'[q]) /\ (task[q] = "none" => live'[q] = live[q])
    BY <2>1, <2>3
  <2> QED BY <1>5, <1>7, <2>1, <2>2, <2>4 DEF Release
<1>8. CASE Write(b)
  <2>1. \E s \in Statuses : row' = row \/ Recorded(job[b].run, s)
    BY <1>8 DEF Write
  <2> QED BY <1>5, <1>8, <2>1 DEF Write
<1>9. ASSUME UNCHANGED <<row, missed, task, live>>,
             \/ marker'[q] = marker[q]
             \/ task[q] # "none" /\ marker'[q] \in Statuses
             \/ task[q] # "none" /\ marker'[q] = "none" /\ (~Needed(q) \/ Lost(q))
      PROVE  Onward(q)
  BY <1>0, <1>9 DEF Onward, TypeOK
<1>10. CASE Tidy(b)
  <2>1. CASE q = job[b].run
    BY <1>0, <1>9, <1>10, <2>1 DEF Tidy, TypeOK, JobAt, MarkInv, OwnSteps, Needed
  <2>2. CASE q # job[b].run
    BY <1>0, <1>9, <1>10, <2>2 DEF Tidy, TypeOK
  <2> QED BY <2>1, <2>2
<1>11. CASE Drop(b) \/ Sweep(b)
  <2>1. CASE q = job[b].run
    BY <1>0, <1>9, <1>11, <2>1 DEF Drop, Sweep, TypeOK, JobAt, OtherSteps, Needed
  <2>2. CASE q # job[b].run
    BY <1>0, <1>9, <1>11, <2>2 DEF Drop, Sweep, TypeOK
  <2> QED BY <2>1, <2>2
<1>12. CASE NextRow(b) \/ Judge(b) \/ Recheck(b) \/ NextMarker(b) \/ SweepReads(b) \/ SweepJudges(b)
  BY <1>9, <1>12 DEF NextRow, Judge, Recheck, NextMarker, SweepReads, SweepJudges
<1>13. CASE TimeUp(b) \/ TurnEnds(b) \/ ForceOne(b) \/ ForceEnds(b) \/ EndRuns(b) \/ Stop(b) \/ Switch(b) \/ Open(b)
  BY <1>9, <1>13 DEF TimeUp, TurnEnds, ForceOne, ForceEnds, EndRuns, Stop, Switch, Open
<1>14. CASE \E how \in {"killed", "exited"} : Dies(b, how)
  BY <1>0, <1>14 DEF Dies, TypeOK, Onward, RunAt
<1> QED BY <1>2, <1>3, <1>4, <1>6, <1>7, <1>8, <1>10, <1>11, <1>12, <1>13, <1>14
        DEF StepOf, LoopStep, Resume, Exit, Killed

\* The other backends and their runs.
LEMMA OthersKeep ==
    ASSUME LifeInv, TypeInv', NEW b \in Backends, Acts(b), \A q \in Runs : Onward(q)
    PROVE  /\ \A c \in Backends \ {b} : (JobAt(c) /\ DeadAt(c) /\ WaitAt(c))'
           /\ \A q \in Runs : Home[q] # b => RunAt(q)'
           /\ \A q \in Runs : task'[q] = "none" => row'[q] = "absent" /\ marker'[q] = "none" /\ ~live'[q]
           /\ \A q \in Runs : Needed(q)' => marker'[q] # "none" \/ Lost(q)'
<1>1. \A q \in Runs : RunAt(q) /\ row[q] \in Statuses \cup {"absent", "running"} /\ Home[q] \in Backends
  BY OwnersAssumption DEF LifeInv, TypeInv, TypeOK
<1>2. ASSUME NEW q \in Runs, task'[q] = "none"
      PROVE  row'[q] = "absent" /\ marker'[q] = "none" /\ ~live'[q]
  BY <1>1, <1>2 DEF Onward, RunAt
<1>3. ASSUME NEW q \in Runs, task[q] # "none", ~Needed(q)
      PROVE  ~Needed(q)'
  BY <1>1, <1>3 DEF Onward, Needed
<1>4. ASSUME NEW q \in Runs, Needed(q)'
      PROVE  marker'[q] # "none" \/ Lost(q)'
  BY <1>1, <1>2, <1>3, <1>4 DEF Onward, RunAt, Needed
<1>5. ASSUME NEW c \in Backends \ {b}
      PROVE  (JobAt(c) /\ DeadAt(c) /\ WaitAt(c))'
  <2>1. JobAt(c) /\ DeadAt(c) /\ WaitAt(c) /\ job[c] \in Jobs
    BY DEF LifeInv, TypeInv, TypeOK
  <2>2. job'[c] = job[c] /\ proc'[c] = proc[c] /\ waitFor'[c] = waitFor[c] /\ late'[c] = late[c]
    BY DEF Acts
  <2>3. DeadAt(c)' /\ WaitAt(c)'
    BY <2>1, <2>2 DEF DeadAt, WaitAt, RunsOf
  <2> DEFINE r == job[c].run
  <2>4. job[c].todo \subseteq Runs
    BY <2>1 DEF Jobs
  <2>5. \A q \in job[c].todo : /\ task'[q] # "none"
                               /\ row[q] # "absent" => row'[q] # "absent"
    BY <1>1, <2>1, <2>4 DEF Onward, JobAt
  <2>6. CASE job[c].do \notin OwnSteps \cup OtherSteps
    BY <2>1, <2>2, <2>3, <2>5, <2>6 DEF JobAt, OwnSteps, OtherSteps
  <2>7. CASE job[c].do \in OwnSteps
    <3>1. /\ r \in Runs /\ Home[r] = c /\ Home[r] # b /\ task'[r] = task[r] /\ live'[r] = live[r]
          /\ task[r] # "none" /\ (row[r] = "absent" => row'[r] = "absent")
      BY <2>1, <2>7 DEF JobAt, Acts
    <3>2. row[r] # "running" => row'[r] # "running"
      BY <1>1, <3>1 DEF Onward
    <3> QED BY <2>1, <2>2, <2>3, <2>5, <2>7, <3>1, <3>2 DEF JobAt, OwnSteps, OtherSteps
  <2>8. CASE job[c].do \in OtherSteps
    <3>1. r \in Runs /\ task[r] # "none"
      BY <2>1, <2>8 DEF JobAt
    <3>2. /\ task'[r] # "none" /\ (~live[r] => ~live'[r])
          /\ row[r] # "absent" => row'[r] # "absent"
          /\ row[r] \notin {"absent", "running"} => row'[r] # "running"
          /\ Lost(r) => Lost(r)'
      BY <1>1, <2>2, <3>1 DEF Onward, Lost
    <3>5. /\ r \in missed => r \in missed'
          /\ job[c].do = "orphan" /\ row[r] = "absent" /\ row'[r] = "running"
             => Machine[c] # Machine[Home[r]] \/ (r \in missed' /\ Home[r] # c)
      BY <3>1 DEF Onward, MissesRow, Acts
    <3>3. ~Needed(r) => ~Needed(r)'
      BY <1>3, <2>2, <3>1 DEF Needed
    <3>4. Home[r] = c => Home[r] # b /\ live'[r] = live[r]
      BY <3>1 DEF Acts
    <3>6. row[r] \in Statuses \cup {"absent", "running"}
      BY <1>1, <3>1
    <3>7. job[c].do = "orphan" => \/ row'[r] # "running" \/ Machine[c] # Machine[Home[r]]
                                  \/ r \in missed' /\ Home[r] # c
      BY <2>1, <3>2, <3>5, <3>6 DEF JobAt
    <3> QED BY <2>1, <2>2, <2>3, <2>5, <2>8, <3>1, <3>2, <3>3, <3>4, <3>7 DEF JobAt, OwnSteps, OtherSteps, Needed
  <2> QED BY <2>3, <2>6, <2>7, <2>8
<1>6. ASSUME NEW q \in Runs, Home[q] # b
      PROVE  RunAt(q)'
  <2>1. /\ task'[q] = task[q] /\ live'[q] = live[q] /\ listed'[q] = listed[q] /\ forced'[q] = forced[q]
        /\ proc'[Home[q]] = proc[Home[q]] /\ job'[Home[q]] = job[Home[q]]
    BY <1>1, <1>6 DEF Acts
  <2> QED BY <1>1, <1>2, <1>4, <2>1 DEF RunAt, HomeAt, At
<1> QED BY <1>2, <1>4, <1>5, <1>6

LEMMA JobFields ==
    ASSUME NEW j \in Jobs
    PROVE  /\ \A do \in Steps : LET k == [j EXCEPT !.do = do]
                                IN  k.do = do /\ k.run = j.run /\ k.mark = j.mark /\ k.todo = j.todo
           /\ \A todo : LET k == [j EXCEPT !.todo = todo]
                        IN  k.do = j.do /\ k.run = j.run /\ k.mark = j.mark /\ k.todo = todo
BY DEF Jobs

\* The loop of b has nothing to do.
LEMMA NothingToDo == ASSUME NEW b \in Backends, job'[b] = Nothing PROVE JobAt(b)'
BY DEF Nothing, JobAt, OwnSteps, OtherSteps

\* The job of b after a step of b.
LEMMA OwnJob ==
    ASSUME LifeInv, TypeInv', NEW b \in Backends, StepOf(b)
    PROVE  JobAt(b)'
<1> USE DEF diskVars, loopVars, projectVars, runVars, Fault, OwnSteps, OtherSteps
<1>0. /\ TypeOK /\ MarkInv /\ JobAt(b) /\ DeadAt(b) /\ WaitAt(b) /\ job[b] \in Jobs
      /\ job[b].todo \subseteq Runs
      /\ \A r \in Runs : RunAt(r) /\ Home[r] \in Backends
  BY OwnersAssumption, JobType DEF LifeInv, TypeInv, TypeOK
<1>1. \A j : GoOn(b, j) => job'[b] = j
  BY <1>0 DEF GoOn, TypeOK
<1>2. CASE job[b] = Nothing /\ job' = job
  BY <1>2, NothingToDo
<1>3. ASSUME NEW r \in Runs, Home[r] = b, Claim(r) PROVE JobAt(b)'
  <2>1. job'[b] = Job("insert", r, "none", {}) /\ task[r] = "none"
    BY <1>1, <1>3 DEF Claim
  <2>2. live'[r] /\ row'[r] = "absent" /\ task'[r] = "starting"
    BY <1>0, <1>3 DEF Claim, TypeOK, RunAt
  <2> QED BY <1>3, <2>1, <2>2 DEF JobAt, Job
<1>4. ASSUME NEW r \in Runs, Home[r] = b, NEW s \in Statuses, job'[b] = Job("finalize", r, s, {}), task'[r] # "none"
      PROVE  JobAt(b)'
  BY <1>4 DEF JobAt, Job
<1>5. ASSUME NEW r \in Runs, Home[r] = b, Callback(r) PROVE JobAt(b)'
  <2>1. outcome[r] \in Statuses
    BY <1>5 DEF Callback, LifeInv, TypeInv, OutcomeInv
  <2>2. task'[r] = "over"
    BY <1>0, <1>5 DEF Callback, TypeOK
  <2>3. job'[b] = Nothing \/ job'[b] = Job("finalize", r, outcome[r], {})
    BY <1>1, <1>5 DEF Callback
  <2> QED BY <1>4, <1>5, <2>1, <2>2, <2>3, NothingToDo
<1>6. CASE Insert(b)
  <2>1. job[b].run \in Runs /\ Home[job[b].run] = b
    BY <1>0, <1>6 DEF Insert, JobAt
  <2>2. job'[b] = Nothing \/ (job'[b] = Job("finalize", job[b].run, "failed", {}) /\ task'[job[b].run] = "over")
    BY <1>0, <1>1, <1>6, <2>1 DEF Insert, TypeOK
  <2> QED BY <1>4, <2>1, <2>2, NothingToDo
<1>7. CASE Finalize(b)
  <2>1. job'[b] = [job[b] EXCEPT !.do = "release"] /\ task' = task
    BY <1>1, <1>7 DEF Finalize
  <2>2. /\ job'[b].do = "release" /\ job'[b].run = job[b].run /\ job'[b].todo = job[b].todo
    BY <1>0, <2>1, JobFields, StepNames
  <2> QED BY <1>0, <1>7, <2>1, <2>2 DEF Finalize, JobAt
<1>8. CASE Release(b)
  <2>1. job[b].run \in Runs /\ Home[job[b].run] = b /\ task' = task /\ job[b].mark \in Statuses
    BY <1>0, <1>8 DEF Release, JobAt, MarkInv
  <2>2. ~live'[job[b].run]
    BY <1>0, <1>8, <2>1 DEF Release, TypeOK
  <2>3. PICK do \in {"unlink", "annotate"} :
          /\ job'[b] = [job[b] EXCEPT !.do = do]
          /\ do = "unlink" => row'[job[b].run] # "running"
    BY <1>0, <1>1, <1>8, <2>1 DEF Release, Recorded, TypeOK
  <2>4. job'[b].do = do /\ job'[b].run = job[b].run /\ job'[b].todo = job[b].todo
    BY <1>0, <2>3, JobFields, StepNames
  <2> QED BY <1>0, <1>8, <2>1, <2>2, <2>3, <2>4 DEF Release, JobAt
<1>9. CASE Tidy(b)
  BY <1>1, <1>9, NothingToDo DEF Tidy
<1>10. CASE Open(b)
  <2>1. \/ job'[b] = Job("rows", NoRun, "none", {r \in Runs : row[r] = "running"}) /\ row' = row /\ task' = task
        \/ job' = job /\ job[b] = Nothing
    BY <1>1, <1>10 DEF Open, Idle
  <2>2. \A r \in Runs : row[r] = "running" => task[r] # "none"
    BY <1>0 DEF RunAt
  <2> QED BY <1>2, <2>1, <2>2 DEF JobAt, Job
<1>11. CASE NextRow(b)
  <2>0. UNCHANGED <<row, task, live, missed, proc>> /\ job[b].do = "rows"
    BY <1>11 DEF NextRow
  <2>1. CASE job'[b] = Job("markers", NoRun, "none", {r \in Runs : marker[r] # "none"})
    <3>1. \A r \in Runs : marker[r] # "none" => task[r] # "none"
      BY <1>0 DEF RunAt
    <3> QED BY <2>0, <2>1, <3>1 DEF JobAt, Job
  <2>2. ASSUME NEW r \in job[b].todo, job'[b] = [job[b] EXCEPT !.todo = @ \ {r}]
        PROVE  JobAt(b)'
    <3>1. job'[b].do = "rows" /\ job'[b].todo = job[b].todo \ {r}
      BY <1>0, <2>0, <2>2, JobFields
    <3> QED BY <1>0, <2>0, <3>1 DEF JobAt
  <2>3. ASSUME NEW r \in job[b].todo, job'[b] = Job("judge", r, marker[r], job[b].todo \ {r}), ~LiveHere(b, r)
        PROVE  JobAt(b)'
    <3>1. r \in Runs /\ row[r] # "absent" /\ task[r] # "none" /\ (Home[r] = b => ~live[r])
      BY <1>0, <2>0, <2>3 DEF JobAt, LiveHere
    <3>2. marker[r] = "none" => row[r] # "running" \/ Lost(r)
      BY <1>0, <3>1 DEF RunAt, Needed
    <3> QED BY <1>0, <2>0, <2>3, <3>1, <3>2 DEF JobAt, Job, Lost
  <2> QED BY <1>1, <1>11, <2>1, <2>2, <2>3 DEF NextRow
<1>12. CASE NextMarker(b)
  <2>0. UNCHANGED <<row, task, live, missed, proc>> /\ job[b].do = "markers"
    BY <1>12 DEF NextMarker
  <2>1. ASSUME NEW r \in job[b].todo, job'[b] = [job[b] EXCEPT !.todo = @ \ {r}]
        PROVE  JobAt(b)'
    <3>1. job'[b].do = "markers" /\ job'[b].todo = job[b].todo \ {r}
      BY <1>0, <2>0, <2>1, JobFields
    <3> QED BY <1>0, <2>0, <3>1 DEF JobAt
  <2>2. ASSUME NEW r \in job[b].todo, job'[b] = Job("claimed", r, marker[r], job[b].todo \ {r}), ~LiveHere(b, r)
        PROVE  JobAt(b)'
    <3>1. r \in Runs /\ task[r] # "none" /\ (Home[r] = b => ~live[r])
      BY <1>0, <2>0, <2>2 DEF JobAt, LiveHere
    <3>2. marker[r] = "none" => ~Needed(r) \/ Lost(r)
      BY <1>0, <3>1 DEF RunAt
    <3> QED BY <1>0, <2>0, <2>2, <3>1, <3>2 DEF JobAt, Job, Needed, Lost
  <2> QED BY <1>1, <1>12, <2>1, <2>2, NothingToDo DEF NextMarker
<1>13. ASSUME NEW do \in Steps, job'[b] = [job[b] EXCEPT !.do = do]
       PROVE  job'[b].do = do /\ job'[b].run = job[b].run /\ job'[b].mark = job[b].mark /\ job'[b].todo = job[b].todo
  BY <1>0, <1>13, JobFields
<1>14. ASSUME OwnerGone(b, job[b].run), job[b].do \in OtherSteps
       PROVE  ~live[job[b].run]
  <2>1. job[b].run \in Runs
    BY <1>0, <1>14 DEF JobAt
  <2> QED BY <1>0, <1>14, <2>1 DEF OwnerGone, RunAt, HomeAt, JobAt
<1>25. ASSUME job[b].do \in OtherSteps, Lost(job[b].run)
       PROVE  ~live[job[b].run]
  <2>1. job[b].run \in Runs
    BY <1>0, <1>25 DEF JobAt
  <2> QED BY <1>0, <1>25, <2>1 DEF Lost, RunAt, HomeAt
<1>15. CASE Judge(b)
  <2>1. PICK do \in {"recheck", "rows"} :
          /\ job'[b] = [job[b] EXCEPT !.do = do]
          /\ do = "recheck" => job[b].mark = "none" \/ OwnerGone(b, job[b].run)
    BY <1>1, <1>15 DEF Judge
  <2>2. do = "recheck" => row[job[b].run] # "running" \/ ~live[job[b].run]
    BY <1>0, <1>14, <1>15, <1>25, <2>1 DEF Judge, JobAt
  <2>3. job'[b].do = do /\ job'[b].run = job[b].run /\ job'[b].todo = job[b].todo
    BY <1>13, <2>1, StepNames
  <2> QED BY <1>0, <1>15, <2>2, <2>3 DEF Judge, JobAt
<1>16. CASE Recheck(b)
  <2>1. PICK do \in {"write", "rows"} :
          /\ job'[b] = [job[b] EXCEPT !.do = do]
          /\ do = "write" => row[job[b].run] = "running"
    BY <1>1, <1>16 DEF Recheck
  <2>2. job'[b].do = do /\ job'[b].run = job[b].run /\ job'[b].todo = job[b].todo
    BY <1>13, <2>1, StepNames
  <2> QED BY <1>0, <1>16, <2>1, <2>2 DEF Recheck, JobAt
<1>17. CASE Write(b)
  <2>1. PICK do \in {"drop", "rows"}, s \in Statuses :
          /\ job'[b] = [job[b] EXCEPT !.do = do]
          /\ \/ do = "drop" /\ Recorded(job[b].run, s)
             \/ do = "rows" /\ row' = row
    BY <1>1, <1>17 DEF Write
  <2>2. job'[b].do = do /\ job'[b].run = job[b].run /\ job'[b].todo = job[b].todo
    BY <1>13, <2>1, StepNames
  <2>3. /\ \A q \in Runs : row[q] # "absent" => row'[q] # "absent"
        /\ do = "drop" => row'[job[b].run] # "running"
    BY <1>0, <1>17, <2>1 DEF Recorded, TypeOK, JobAt, Write
  <2> QED BY <1>0, <1>17, <2>1, <2>2, <2>3 DEF Write, JobAt
<1>18. CASE Drop(b)
  <2>1. job'[b].do = "rows" /\ job'[b].run = job[b].run /\ job'[b].todo = job[b].todo
    BY <1>1, <1>13, <1>18, StepNames DEF Drop
  <2> QED BY <1>0, <1>18, <2>1 DEF Drop, JobAt
<1>19. CASE SweepReads(b)
  <2>1. PICK do \in {"markers", "orphan", "sweep"} :
          /\ job'[b] = [job[b] EXCEPT !.do = do]
          /\ do = "orphan" => row[job[b].run] = "absent"
          /\ do = "sweep" => /\ row[job[b].run] # "running"
                             /\ row[job[b].run] # "absent" \/ job[b].mark = "none"
    BY <1>1, <1>19 DEF SweepReads
  <2>2. job'[b].do = do /\ job'[b].run = job[b].run /\ job'[b].todo = job[b].todo
    BY <1>13, <2>1, StepNames
  <2>3. do = "sweep" => ~Needed(job[b].run) \/ Lost(job[b].run)
    BY <1>0, <1>19, <2>1 DEF SweepReads, JobAt, Needed
  <2> QED BY <1>0, <1>19, <2>1, <2>2, <2>3 DEF SweepReads, JobAt, Needed, Lost
<1>26. CASE SweepJudges(b)
  <2>1. PICK do \in {"markers", "sweep"} :
          /\ job'[b] = [job[b] EXCEPT !.do = do]
          /\ do = "sweep" => OwnerGone(b, job[b].run)
    BY <1>1, <1>26 DEF SweepJudges
  <2>2. job'[b].do = do /\ job'[b].run = job[b].run /\ job'[b].todo = job[b].todo
    BY <1>13, <2>1, StepNames
  <2>3. do = "sweep" => ~Needed(job[b].run) \/ Lost(job[b].run)
    BY <1>0, <1>14, <1>26, <2>1 DEF SweepJudges, JobAt, Needed, Lost, OwnerGone
  <2> QED BY <1>0, <1>26, <2>2, <2>3 DEF SweepJudges, JobAt, Needed, Lost
<1>20. CASE Sweep(b)
  <2>1. job'[b].do = "markers" /\ job'[b].run = job[b].run /\ job'[b].todo = job[b].todo
    BY <1>1, <1>13, <1>20, StepNames DEF Sweep
  <2> QED BY <1>0, <1>20, <2>1 DEF Sweep, JobAt
<1>21. CASE TimeUp(b) \/ TurnEnds(b) \/ ForceEnds(b) \/ EndRuns(b) \/ Stop(b) \/ Switch(b)
  BY <1>2, <1>21 DEF TimeUp, TurnEnds, ForceEnds, EndRuns, Stop, Switch, Idle
<1>22. ASSUME NEW r \in Runs, Finish(r), Home[r] = b PROVE JobAt(b)'
  BY <1>2, <1>22 DEF Finish, Idle
<1>23. CASE ForceOne(b)
  <2>1. PICK r \in late[b] : (job'[b] = Job("finalize", r, "cancelled", {}) /\ live[r]) \/ job' = job
    BY <1>1, <1>23 DEF ForceOne
  <2>2. r \in Runs /\ Home[r] = b
    BY <1>0 DEF WaitAt, RunsOf
  <2>3. live[r] => task'[r] # "none"
    BY <1>0, <1>23, <2>2 DEF ForceOne, RunAt
  <2> QED BY <1>2, <1>4, <1>23, <2>1, <2>2, <2>3 DEF ForceOne
<1>24. CASE \E how \in {"killed", "exited"} : Dies(b, how)
  BY <1>1, <1>24, NothingToDo DEF Dies
<1> QED BY <1>3, <1>5, <1>6, <1>7, <1>8, <1>9, <1>10, <1>11, <1>12, <1>15, <1>16, <1>17, <1>18, <1>19, <1>20,
           <1>21, <1>22, <1>23, <1>24, <1>26 DEF StepOf, LoopStep, Resume, Exit, Killed

\* The runs of b after a step of b.
LEMMA OwnRuns ==
    ASSUME LifeInv, TypeInv', NEW b \in Backends, StepOf(b), NEW q \in Runs, Home[q] = b
    PROVE  HomeAt(q)'
<1> USE DEF diskVars, loopVars, projectVars, runVars, Fault
<1>0. /\ TypeOK /\ JobAt(b) /\ RunAt(q) /\ HomeAt(q) /\ job[b] \in Jobs
      /\ \A j : GoOn(b, j) => job'[b] = j
      /\ \A j : GoOn(Home[q], j) => job'[b] = j
  BY DEF LifeInv, TypeInv, TypeOK, RunAt, GoOn
<1>1. CASE \E how \in {"killed", "exited"} : Dies(b, how)
  <2>1. task'[q] = "over" /\ ~live'[q]
    BY <1>1 DEF Dies
  <2> QED BY <2>1 DEF HomeAt
<1>2. CASE proc[b] = "up" /\ proc' = proc
  <2> USE <1>2
  <2>1. ASSUME UNCHANGED <<task, live, forced>>, task[q] = "going" => listed'[q] # "no",
               job' = job \/ job[b] = Nothing \/ ~At(q, {"insert", "finalize", "release"})
        PROVE  HomeAt(q)'
    BY <1>0, <2>1 DEF HomeAt, At, Nothing
  <2>2. ASSUME NEW r \in Runs, Home[r] = b, Claim(r) PROVE HomeAt(q)'
    <3>1. job[b] = Nothing /\ job'[b] = Job("insert", r, "none", {})
      BY <1>0, <2>2 DEF Claim, Idle
    <3>2. CASE r = q
      <4>1. task'[q] = "starting" /\ job'[b].do = "insert" /\ job'[b].run = q
        BY <1>0, <2>2, <3>1, <3>2 DEF Claim, TypeOK, Job
      <4>2. ~forced'[q]
        BY <1>0, <2>2, <3>2 DEF Claim, HomeAt
      <4> QED BY <4>1, <4>2 DEF HomeAt, At
    <3>3. CASE r # q
      <4>1. /\ task' = [task EXCEPT ![r] = "starting"] /\ live' = [live EXCEPT ![r] = TRUE]
            /\ UNCHANGED <<listed, forced>>
        BY <2>2 DEF Claim
      <4>2. q \in DOMAIN task /\ q \in DOMAIN live
        BY <1>0 DEF TypeOK
      <4>3. task'[q] = task[q] /\ live'[q] = live[q] /\ listed'[q] = listed[q] /\ forced'[q] = forced[q]
        BY <3>3, <4>1, <4>2
      <4> QED BY <1>0, <3>1, <3>3, <4>3 DEF HomeAt, At, Nothing, Job
    <3> QED BY <3>2, <3>3
  <2>3. ASSUME NEW r \in Runs, Home[r] = b, Finish(r) PROVE HomeAt(q)'
    <3>1. task'[q] = IF q = r THEN "done" ELSE task[q]
      BY <1>0, <2>3 DEF Finish, TypeOK
    <3> QED BY <1>0, <2>3, <3>1 DEF Finish, HomeAt, At, Idle
  <2>4. ASSUME NEW r \in Runs, Home[r] = b, Callback(r) PROVE HomeAt(q)'
    <3>1. task[r] = "done" /\ job[b] = Nothing
      BY <1>0, <2>4 DEF Callback, Idle
    <3>2. /\ task'[q] = (IF q = r THEN "over" ELSE task[q]) /\ UNCHANGED <<live, listed>>
          /\ forced'[q] => forced[q] /\ q # r
      BY <1>0, <2>4 DEF Callback, TypeOK
    <3>3. CASE q # r
      BY <1>0, <3>1, <3>2, <3>3 DEF HomeAt, At, Nothing
    <3>4. CASE q = r
      <4>1. CASE forced[r]
        BY <1>0, <3>1, <3>2, <3>4, <4>1 DEF HomeAt, At, Nothing
      <4>2. CASE ~forced[r]
        <5>1. job'[b] = Job("finalize", q, outcome[q], {})
          BY <1>0, <2>4, <3>4, <4>2 DEF Callback
        <5> QED BY <3>2, <3>4, <5>1 DEF HomeAt, At, Job
      <4> QED BY <4>1, <4>2
    <3> QED BY <3>3, <3>4
  <2>5. CASE Insert(b)
    <3> DEFINE r == job[b].run
    <3>1. r \in Runs /\ job[b].do = "insert"
      BY <1>0, <2>5 DEF Insert, JobAt, OwnSteps
    <3>2. CASE r = q
      <4>0. ~forced'[q]
        BY <1>0, <2>5, <3>1, <3>2 DEF Insert, HomeAt, JobAt, At
      <4>1. \/ task'[q] = "going" /\ listed'[q] = "project"
            \/ task'[q] = "over" /\ job'[b] = Job("finalize", q, "failed", {})
        BY <1>0, <2>5, <3>2 DEF Insert, TypeOK
      <4> QED BY <4>0, <4>1 DEF HomeAt, At, Job
    <3>3. CASE r # q
      <4>1. task'[q] = task[q] /\ live'[q] = live[q] /\ listed'[q] = listed[q] /\ forced'[q] = forced[q]
        BY <1>0, <2>5, <3>3 DEF Insert, TypeOK
      <4>2. ~At(q, {"insert", "finalize", "release"})
        BY <3>3 DEF At
      <4> QED BY <1>0, <4>1, <4>2 DEF HomeAt, At
    <3> QED BY <3>2, <3>3
  <2>6. CASE Finalize(b)
    <3>1. job'[b] = [job[b] EXCEPT !.do = "release"] /\ UNCHANGED <<task, live, listed, forced>> /\ job[b].do = "finalize"
      BY <1>0, <2>6 DEF Finalize
    <3>2. job'[b].do = "release" /\ job'[b].run = job[b].run
      BY <1>0, <3>1, JobFields, StepNames
    <3> QED BY <1>0, <3>1, <3>2 DEF HomeAt, At
  <2>7. CASE Release(b)
    <3>1. job[b].do = "release" /\ UNCHANGED <<task, listed, forced>> /\ live'[q] = (live[q] /\ q # job[b].run)
      BY <1>0, <2>7 DEF Release, TypeOK
    <3> QED BY <1>0, <3>1 DEF HomeAt, At
  <2>8. CASE Tidy(b)
    BY <1>0, <2>1, <2>8 DEF Tidy, At, HomeAt
  <2>9. CASE NextRow(b) \/ Judge(b) \/ Recheck(b) \/ Write(b) \/ Drop(b) \/ NextMarker(b) \/ SweepReads(b) \/ SweepJudges(b) \/ Sweep(b)
    <3>1. job[b].do \notin {"insert", "finalize", "release"}
      BY <2>9 DEF NextRow, Judge, Recheck, Write, Drop, NextMarker, SweepReads, SweepJudges, Sweep
    <3>2. UNCHANGED <<task, live, listed, forced>>
      BY <2>9 DEF NextRow, Judge, Recheck, Write, Drop, NextMarker, SweepReads, SweepJudges, Sweep
    <3> QED BY <1>0, <2>1, <3>1, <3>2 DEF At, HomeAt
  <2>10. CASE TimeUp(b) \/ TurnEnds(b) \/ EndRuns(b) \/ Stop(b)
    BY <1>0, <2>1, <2>10 DEF TimeUp, TurnEnds, EndRuns, Stop, HomeAt
  <2>11. CASE ForceOne(b)
    <3>1. PICK r \in late[b] :
            \/ live[r] /\ forced' = [forced EXCEPT ![r] = TRUE] /\ job'[b] = Job("finalize", r, "cancelled", {})
            \/ UNCHANGED <<forced, job>>
      BY <1>0, <2>11 DEF ForceOne
    <3>2. UNCHANGED <<task, live, listed>> /\ job[b] = Nothing
      BY <2>11 DEF ForceOne
    <3>3. CASE UNCHANGED <<forced, job>>
      BY <1>0, <2>1, <3>2, <3>3 DEF HomeAt
    <3>4. CASE live[r] /\ forced' = [forced EXCEPT ![r] = TRUE] /\ job'[b] = Job("finalize", r, "cancelled", {})
      BY <1>0, <3>2, <3>4 DEF HomeAt, At, Nothing, Job, TypeOK, RunAt
    <3> QED BY <3>1, <3>3, <3>4
  <2>12. CASE ForceEnds(b)
    <3>1. task[q] = "going" => listed'[q] # "no"
      BY <1>0, <2>12 DEF ForceEnds, HomeAt
    <3> QED BY <2>1, <2>12, <3>1 DEF ForceEnds
  <2>13. CASE Switch(b)
    <3>1. task[q] = "going" => listed'[q] # "no"
      BY <1>0, <2>13 DEF Switch, HomeAt, RunsOf
    <3> QED BY <2>1, <2>13, <3>1 DEF Switch
  <2>14. CASE Open(b)
    BY <1>0, <2>1, <2>14 DEF Open, HomeAt, Idle
  <2>15. CASE Exit(b) \/ Killed(b)
    BY <1>1, <2>15 DEF Exit, Killed
  <2> QED BY <2>2, <2>3, <2>4, <2>5, <2>6, <2>7, <2>8, <2>9, <2>10, <2>11, <2>12, <2>13, <2>14, <2>15
          DEF StepOf, LoopStep, Resume
<1> QED BY <1>1, <1>2, StepIsAlive

\* The backend itself after its step.
LEMMA OwnBackend ==
    ASSUME LifeInv, TypeInv', NEW b \in Backends, StepOf(b)
    PROVE  DeadAt(b)' /\ WaitAt(b)'
<1> USE DEF diskVars, loopVars, projectVars, runVars, Fault
<1>0. /\ TypeOK /\ waitFor[b] \subseteq RunsOf(b) /\ late[b] \subseteq RunsOf(b)
      /\ \A j : GoOn(b, j) => job'[b] = j
  BY DEF LifeInv, TypeInv, TypeOK, GoOn, WaitAt
<1> DEFINE Waits == waitFor'[b] \subseteq RunsOf(b) /\ late'[b] \subseteq RunsOf(b)
<1>1. DeadAt(b)'
  BY <1>0, StepIsAlive DEF DeadAt, Dies
<1> SUFFICES Waits
  BY <1>1 DEF WaitAt, RunsOf
<1>2. CASE UNCHANGED <<waitFor, late>>
  BY <1>0, <1>2
<1>3. ASSUME NEW r \in Runs, Claim(r) \/ Finish(r) \/ Callback(r) PROVE Waits
  BY <1>2, <1>3 DEF Claim, Finish, Callback
<1>4. CASE LoopStep(b)
  BY <1>2, <1>4 DEF LoopStep, Insert, Finalize, Release, Tidy, NextRow, Judge, Recheck, Write, Drop, NextMarker,
                    SweepReads, SweepJudges, Sweep
<1>5. CASE Switch(b) \/ Open(b)
  BY <1>2, <1>5 DEF Switch, Open
<1>6. CASE EndRuns(b) \/ Stop(b)
  BY <1>0, <1>6 DEF EndRuns, Stop, RunsOf, TypeOK
<1>7. CASE TimeUp(b) \/ TurnEnds(b) \/ ForceOne(b)
  BY <1>0, <1>7 DEF TimeUp, TurnEnds, ForceOne, RunsOf, TypeOK
<1>8. CASE ForceEnds(b) \/ Exit(b) \/ Killed(b)
  BY <1>0, <1>8 DEF ForceEnds, Exit, Killed, Dies, RunsOf, TypeOK
<1> QED BY <1>3, <1>4, <1>5, <1>6, <1>7, <1>8 DEF StepOf, Resume

LEMMA LifeInit == Init => LifeInv
<1> SUFFICES ASSUME Init PROVE LifeInv
  OBVIOUS
<1>1. TypeInv
  BY TypeInit
<1>2. \A b \in Backends : JobAt(b) /\ DeadAt(b) /\ WaitAt(b)
  BY DEF Init, JobAt, DeadAt, WaitAt, Nothing, OwnSteps, OtherSteps
<1>3. \A r \in Runs : RunAt(r)
  BY OwnersAssumption DEF Init, RunAt, HomeAt, Needed
<1> QED BY <1>1, <1>2, <1>3 DEF LifeInv

LEMMA LifeNext == LifeInv /\ [Next]_vars => LifeInv'
<1> SUFFICES ASSUME LifeInv, [Next]_vars PROVE LifeInv'
  OBVIOUS
<1>1. TypeInv'
  BY TypeNext DEF LifeInv
<1>2. CASE UNCHANGED vars
  BY <1>1, <1>2 DEF LifeInv, vars, JobAt, DeadAt, WaitAt, RunAt, HomeAt, At, Needed, Lost, RunsOf
<1>3. ASSUME NEW b \in Backends, StepOf(b) PROVE LifeInv'
  <2>1. Acts(b) /\ \A q \in Runs : Onward(q)
    BY <1>3, StepActs, StepOnward
  <2>2. /\ \A c \in Backends \ {b} : (JobAt(c) /\ DeadAt(c) /\ WaitAt(c))'
        /\ \A q \in Runs : Home[q] # b => RunAt(q)'
        /\ \A q \in Runs : task'[q] = "none" => row'[q] = "absent" /\ marker'[q] = "none" /\ ~live'[q]
        /\ \A q \in Runs : Needed(q)' => marker'[q] # "none" \/ Lost(q)'
    BY <1>1, <2>1, OthersKeep
  <2>3. (JobAt(b) /\ DeadAt(b) /\ WaitAt(b))'
    BY <1>1, <1>3, OwnJob, OwnBackend
  <2>4. \A q \in Runs : Home[q] = b => HomeAt(q)'
    BY <1>1, <1>3, OwnRuns
  <2>5. \A q \in Runs : RunAt(q)'
    BY <2>2, <2>4 DEF RunAt
  <2>6. \A c \in Backends : (JobAt(c) /\ DeadAt(c) /\ WaitAt(c))'
    BY <2>2, <2>3
  <2> QED BY <1>1, <2>5, <2>6 DEF LifeInv
<1> QED BY <1>2, <1>3, NextIsStep

LEMMA LifeAlways == Spec => []LifeInv
BY LifeInit, LifeNext, PTL DEF Spec

-----------------------------------------------------------------------------
(* Stores, workflows and what a backend leaves behind.                     *)

\* Only stores of the past are retired or closed.
StoreAt(b) == \A s \in closed[b] \cup retired[b] : s < opened[b] \/ (s = opened[b] /\ ~active[b])

OpenAt(r) == live[r] => store[r] \notin closed[Home[r]]

Alone(r, q) == r # q /\ Home[r] = Home[q] /\ Workflow[r] = Workflow[q] /\ task[q] = "going"
               => task[r] \notin {"starting", "going"}

\* The runs a stopping backend has not seen the end of are those it still waits for.
Awaited(r) == LET b == Home[r] IN
    /\ ending[b] \in {"stop", "turn", "force"}
    /\ ending[b] = "stop" => r \in waitFor[b]
    /\ ending[b] = "turn" => r \in late[b]
    /\ ending[b] = "force" => r \in late[b] \/ At(r, {"finalize", "release"})
StopAt(r) == LET b == Home[r] IN
    stopping[b] => /\ ~At(r, {"insert"})
                   /\ live[r] /\ task[r] = "going" => Awaited(r)

\* The end of a run is on disk once it is no longer live, or three accesses have failed.
LossAt(r) ==
    /\ row[r] = "running" /\ ~live[r] /\ proc[Home[r]] # "killed" =>
         marker[r] \in Statuses \/ faults > 2 \/ r \in missed \/ (At(r, {"annotate"}) /\ faults > 1)
    /\ At(r, {"release"}) /\ row[r] = "running" => faults > 0

EndInv == /\ LifeInv
          /\ \A b \in Backends : StoreAt(b)
          /\ \A r \in Runs : OpenAt(r) /\ StopAt(r) /\ LossAt(r)
          /\ \A r, q \in Runs : Alone(r, q)

LEMMA FaultsGrow ==
    ASSUME LifeInv, NEW b \in Backends, StepOf(b)
    PROVE  faults' = faults \/ faults' = faults + 1
<1> USE DEF Fault
<1>1. CASE LoopStep(b)
  BY <1>1 DEF LoopStep, Insert, Finalize, Release, Tidy, NextRow, Judge, Recheck, Write, Drop, NextMarker,
              SweepReads, SweepJudges, Sweep
<1>2. CASE Resume(b) \/ EndRuns(b) \/ Stop(b) \/ Exit(b) \/ Switch(b) \/ Killed(b) \/ Open(b)
  BY <1>2 DEF Resume, TimeUp, TurnEnds, ForceOne, ForceEnds, EndRuns, Stop, Exit, Switch, Killed, Open, Dies
<1>3. ASSUME NEW r \in Runs, Claim(r) \/ Finish(r) \/ Callback(r) PROVE faults' = faults
  BY <1>3 DEF Claim, Finish, Callback
<1> QED BY <1>1, <1>2, <1>3 DEF StepOf

\* A run whose row says running stays so only if it was so, or was live.
LEMMA MarksStay ==
    ASSUME LifeInv, NEW q \in Runs, Onward(q), row'[q] = "running"
    PROVE  /\ row[q] = "running" \/ live[q]
           /\ marker[q] \in Statuses => marker'[q] \in Statuses \/ q \in missed
           /\ q \in missed => q \in missed'
<1>1. RunAt(q) /\ row[q] \in Statuses \cup {"absent", "running"}
  BY DEF LifeInv, TypeInv, TypeOK
<1> QED BY <1>1 DEF Onward, RunAt, Needed, Lost

\* A step of b leaves the other backends and their runs as they are.
LEMMA OthersEnd ==
    ASSUME EndInv, NEW b \in Backends, Acts(b), \A q \in Runs : Onward(q), faults' = faults \/ faults' = faults + 1
    PROVE  /\ \A c \in Backends \ {b} : StoreAt(c)'
           /\ \A q \in Runs : Home[q] # b => (OpenAt(q) /\ StopAt(q) /\ LossAt(q))'
           /\ \A r, q \in Runs : Home[q] # b => Alone(r, q)'
<1>1. faults \in Nat /\ \A q \in Runs : Home[q] \in Backends
  BY OwnersAssumption DEF EndInv, LifeInv, TypeInv, TypeOK
<1>2. ASSUME NEW c \in Backends \ {b} PROVE StoreAt(c)'
  BY DEF EndInv, StoreAt, Acts
<1>3. ASSUME NEW q \in Runs, Home[q] # b
      PROVE  (OpenAt(q) /\ StopAt(q) /\ LossAt(q))'
  <2>1. OpenAt(q) /\ StopAt(q) /\ LossAt(q)
    BY DEF EndInv
  <2>2. /\ task'[q] = task[q] /\ live'[q] = live[q] /\ store'[q] = store[q]
        /\ closed'[Home[q]] = closed[Home[q]] /\ proc'[Home[q]] = proc[Home[q]] /\ job'[Home[q]] = job[Home[q]]
        /\ ending'[Home[q]] = ending[Home[q]] /\ waitFor'[Home[q]] = waitFor[Home[q]]
        /\ late'[Home[q]] = late[Home[q]] /\ stopping'[Home[q]] = stopping[Home[q]]
    BY <1>1, <1>3 DEF Acts
  <2>3. OpenAt(q)' /\ StopAt(q)'
    BY <2>1, <2>2 DEF OpenAt, StopAt, Awaited, At
  <2>4. row'[q] = "running" => /\ row[q] = "running" \/ live[q]
                               /\ marker[q] \in Statuses => marker'[q] \in Statuses \/ q \in missed
                               /\ q \in missed => q \in missed'
    BY MarksStay DEF EndInv
  <2>5. row[q] = "absent" => row'[q] = "absent"
    BY <1>3 DEF Acts
  <2>6. row'[q] = "running" => row[q] = "running"
    <3>1. row[q] \in Statuses \cup {"absent", "running"} /\ Onward(q)
      BY DEF EndInv, LifeInv, TypeInv, TypeOK
    <3> QED BY <2>5, <3>1 DEF Onward
  <2>7. LossAt(q)'
    BY <1>1, <2>1, <2>2, <2>4, <2>6 DEF LossAt, At
  <2> QED BY <2>3, <2>7
<1>4. ASSUME NEW r \in Runs, NEW q \in Runs, Home[q] # b
      PROVE  Alone(r, q)'
  <2>1. Alone(r, q)
    BY DEF EndInv
  <2>2. task'[q] = task[q] /\ (Home[r] = Home[q] => task'[r] = task[r])
    BY <1>4 DEF Acts
  <2> QED BY <2>1, <2>2 DEF Alone
<1> QED BY <1>2, <1>3, <1>4

\* b opens, retires and closes stores.
LEMMA OwnStores ==
    ASSUME EndInv, LifeInv', NEW b \in Backends, StepOf(b)
    PROVE  /\ StoreAt(b)'
           /\ \A q \in Runs : Home[q] = b => OpenAt(q)'
<1> USE DEF diskVars, loopVars, projectVars, runVars, Fault
<1>0. /\ TypeOK /\ StoreAt(b) /\ opened[b] \in Nat
      /\ closed[b] \subseteq Nat /\ retired[b] \subseteq Nat
      /\ \A q \in Runs : OpenAt(q) /\ (Home[q] = b => (live[q] => store[q] \notin closed[b]))
  BY DEF EndInv, LifeInv, TypeInv, TypeOK, OpenAt
<1>1. ASSUME UNCHANGED <<active, opened, retired, closed, live, store>>
      PROVE  StoreAt(b)' /\ \A q \in Runs : Home[q] = b => OpenAt(q)'
  BY <1>0, <1>1 DEF StoreAt, OpenAt
<1>2. ASSUME NEW r \in Runs, Home[r] = b, Claim(r)
      PROVE  StoreAt(b)' /\ \A q \in Runs : Home[q] = b => OpenAt(q)'
  <2>1. active[b] /\ UNCHANGED <<active, opened, retired, closed>>
    BY <1>2 DEF Claim
  <2>2. opened[b] \notin closed[b]
    BY <1>0, <2>1 DEF StoreAt
  <2>3. ASSUME NEW q \in Runs, Home[q] = b PROVE OpenAt(q)'
    <3>1. CASE q = r
      <4>1. store'[q] = opened[b]
        BY <1>0, <1>2, <3>1 DEF Claim, TypeOK
      <4> QED BY <2>1, <2>2, <2>3, <4>1 DEF OpenAt
    <3>2. CASE q # r
      <4>1. store'[q] = store[q] /\ live'[q] = live[q]
        BY <1>0, <1>2, <3>2 DEF Claim, TypeOK
      <4> QED BY <1>0, <2>1, <2>3, <4>1 DEF OpenAt
    <3> QED BY <3>1, <3>2
  <2> QED BY <1>0, <2>1, <2>3 DEF StoreAt
<1>3. CASE Release(b)
  <2> DEFINE ready == {s \in retired[b] : ~InUse(b, s, live')}
  <2>1. /\ closed'[b] = closed[b] \cup ready /\ retired'[b] = retired[b] \ ready
        /\ UNCHANGED <<opened, active, store>>
    BY <1>0, <1>3 DEF Release, TypeOK
  <2>2. \A q \in Runs : live'[q] => live[q]
    BY <1>0, <1>3 DEF Release, TypeOK
  <2>3. ASSUME NEW q \in Runs, Home[q] = b PROVE OpenAt(q)'
    <3>1. live'[q] => store[q] \notin ready
      BY <2>3 DEF InUse, RunsOf
    <3> QED BY <1>0, <2>1, <2>2, <2>3, <3>1 DEF OpenAt
  <2> QED BY <1>0, <2>1, <2>3 DEF StoreAt
<1>4. CASE Switch(b)
  <2>1. /\ active[b] /\ ~active'[b] /\ UNCHANGED <<opened, live, store>>
        /\ \/ /\ ~InUse(b, opened[b], live)
              /\ closed'[b] = closed[b] \cup {opened[b]} /\ retired'[b] = retired[b]
           \/ closed'[b] = closed[b] /\ retired'[b] = retired[b] \cup {opened[b]}
    BY <1>0, <1>4 DEF Switch, TypeOK
  <2>2. ASSUME NEW q \in Runs, Home[q] = b PROVE OpenAt(q)'
    BY <1>0, <2>1, <2>2 DEF OpenAt, InUse, RunsOf
  <2> QED BY <1>0, <2>1, <2>2 DEF StoreAt
<1>5. CASE \E how \in {"killed", "exited"} : Dies(b, how)
  <2>1. UNCHANGED <<opened, retired, closed, store>> /\ ~active'[b]
    BY <1>0, <1>5 DEF Dies, TypeOK
  <2>2. \A q \in Runs : Home[q] = b => ~live'[q]
    BY <1>5 DEF Dies
  <2> QED BY <1>0, <2>1, <2>2 DEF StoreAt, OpenAt
<1>6. CASE Open(b)
  <2>1. /\ UNCHANGED <<retired, closed, live, store>> /\ active'[b]
        /\ \/ active[b] /\ opened' = opened
           \/ opened'[b] = opened[b] + 1
    BY <1>0, <1>6 DEF Open, TypeOK
  <2> QED BY <1>0, <2>1 DEF StoreAt, OpenAt
<1>7. CASE Insert(b) \/ Finalize(b) \/ Tidy(b) \/ NextRow(b) \/ Judge(b) \/ Recheck(b) \/ Write(b) \/ Drop(b)
           \/ NextMarker(b) \/ SweepReads(b) \/ SweepJudges(b) \/ Sweep(b)
  BY <1>1, <1>7 DEF Insert, Finalize, Tidy, NextRow, Judge, Recheck, Write, Drop, NextMarker, SweepReads, SweepJudges, Sweep
<1>8. CASE Resume(b) \/ EndRuns(b) \/ Stop(b)
  BY <1>1, <1>8 DEF Resume, TimeUp, TurnEnds, ForceOne, ForceEnds, EndRuns, Stop
<1>9. ASSUME NEW r \in Runs, Finish(r) \/ Callback(r)
      PROVE  StoreAt(b)' /\ \A q \in Runs : Home[q] = b => OpenAt(q)'
  BY <1>1, <1>9 DEF Finish, Callback
<1> QED BY <1>2, <1>3, <1>4, <1>5, <1>6, <1>7, <1>8, <1>9 DEF StepOf, LoopStep, Exit, Killed

\* b starts and ends runs.
LEMMA OwnAlone ==
    ASSUME EndInv, LifeInv', NEW b \in Backends, StepOf(b), NEW r \in Runs, NEW q \in Runs, Home[q] = b
    PROVE  Alone(r, q)'
<1> USE DEF diskVars, loopVars, projectVars, runVars, Fault
<1>0. TypeOK /\ Alone(r, q) /\ JobAt(b) /\ HomeAt(q) /\ HomeAt(r) /\ Alone(q, r)
  BY DEF EndInv, LifeInv, TypeInv, RunAt
<1> SUFFICES ASSUME r # q, Home[r] = b, Workflow[r] = Workflow[q], task'[q] = "going"
             PROVE  task'[r] \notin {"starting", "going"}
  BY DEF Alone
<1>1. ASSUME \A p \in Runs : task'[p] \in {"starting", "going"} => task'[p] = task[p]
      PROVE  task'[r] \notin {"starting", "going"}
  BY <1>0, <1>1 DEF Alone
<1>2. ASSUME NEW p \in Runs, Claim(p) PROVE task'[r] \notin {"starting", "going"}
  <2>1. /\ task' = [task EXCEPT ![p] = "starting"] /\ job[Home[p]] = Nothing
        /\ \A x \in Runs : Home[x] = Home[p] /\ Workflow[x] = Workflow[p] /\ listed[x] # "no" => task[x] # "going"
    BY <1>2 DEF Claim, Idle, Busy, RunsOf
  <2>2. task[q] = "going" /\ q # p
    BY <1>0, <2>1 DEF TypeOK
  <2>3. p # r
    BY <1>0, <2>1, <2>2 DEF HomeAt
  <2> QED BY <1>0, <2>1, <2>2, <2>3 DEF TypeOK, Alone
<1>3. CASE Insert(b)
  <2> DEFINE p == job[b].run
  <2>1. PICK to \in {"going", "over"} : task' = [task EXCEPT ![p] = to]
    BY <1>3 DEF Insert
  <2>2. p \in Runs /\ task[p] = "starting" /\ job[b].do = "insert"
    BY <1>0, <1>3 DEF Insert, JobAt, OwnSteps
  <2>3. \A x \in {r, q} : task[x] = "starting" => x = p
    BY <1>0 DEF HomeAt, At
  <2> QED BY <1>0, <2>1, <2>2, <2>3 DEF TypeOK, Alone
<1>4. ASSUME NEW p \in Runs, Finish(p) \/ Callback(p) PROVE task'[r] \notin {"starting", "going"}
  BY <1>0, <1>1, <1>4 DEF Finish, Callback, TypeOK
<1>5. CASE Finalize(b) \/ Release(b) \/ Tidy(b) \/ NextRow(b) \/ Judge(b) \/ Recheck(b) \/ Write(b) \/ Drop(b)
           \/ NextMarker(b) \/ SweepReads(b) \/ SweepJudges(b) \/ Sweep(b)
  <2>1. task' = task
    BY <1>5 DEF Finalize, Release, Tidy, NextRow, Judge, Recheck, Write, Drop, NextMarker, SweepReads, SweepJudges, Sweep
  <2> QED BY <1>1, <2>1
<1>6. CASE Resume(b) \/ EndRuns(b) \/ Stop(b) \/ Switch(b) \/ Open(b)
  <2>1. task' = task
    BY <1>6 DEF Resume, TimeUp, TurnEnds, ForceOne, ForceEnds, EndRuns, Stop, Switch, Open
  <2> QED BY <1>1, <2>1
<1>7. CASE \E how \in {"killed", "exited"} : Dies(b, how)
  BY <1>1, <1>7 DEF Dies
<1> QED BY <1>2, <1>3, <1>4, <1>5, <1>6, <1>7 DEF StepOf, LoopStep, Exit, Killed

\* b waits for its runs before it exits.
LEMMA OwnStop ==
    ASSUME EndInv, LifeInv', NEW b \in Backends, StepOf(b), NEW q \in Runs, Home[q] = b
    PROVE  StopAt(q)'
<1> USE DEF diskVars, loopVars, projectVars, runVars, Fault
<1>0. /\ TypeOK /\ StopAt(q) /\ JobAt(b) /\ RunAt(q) /\ HomeAt(q) /\ job[b] \in Jobs
      /\ \A j : GoOn(b, j) => job'[b] = j
  BY DEF EndInv, LifeInv, TypeInv, TypeOK, RunAt, GoOn
<1>1. ASSUME UNCHANGED <<stopping, ending, waitFor, late>>,
             live'[q] /\ task'[q] = "going" => live[q] /\ task[q] = "going",
             job'[b].do # "insert",
             ~At(q, {"finalize", "release"}) \/ At(q, {"finalize", "release"})' \/ ~live'[q]
      PROVE  StopAt(q)'
  BY <1>0, <1>1 DEF StopAt, Awaited, At
<1>2. ASSUME NEW r \in Runs, Home[r] = b, Claim(r) PROVE StopAt(q)'
  <2>1. ~stopping[b] /\ stopping' = stopping
    BY <1>2 DEF Claim
  <2> QED BY <2>1 DEF StopAt
<1>3. ASSUME NEW r \in Runs, Home[r] = b, Finish(r) \/ Callback(r) PROVE StopAt(q)'
  <2>1. /\ UNCHANGED <<stopping, ending, waitFor, late, live>> /\ job[b] = Nothing
        /\ task'[q] = "going" => task[q] = "going"
    BY <1>0, <1>3 DEF Finish, Callback, TypeOK, Idle
  <2>2. job'[b].do # "insert"
    BY <1>0, <1>3, <2>1 DEF Finish, Callback, Nothing, Job, GoOn
  <2>3. ~At(q, {"finalize", "release"})
    BY <2>1 DEF At, Nothing
  <2> QED BY <1>1, <2>1, <2>2, <2>3
<1>4. CASE Insert(b)
  <2>1. ~stopping[b] /\ stopping' = stopping
    <3>1. job[b].do = "insert" /\ job[b].run \in Runs /\ Home[job[b].run] = b /\ stopping' = stopping
      BY <1>0, <1>4 DEF Insert, JobAt, OwnSteps
    <3>2. StopAt(job[b].run)
      BY <3>1 DEF EndInv
    <3> QED BY <3>1, <3>2 DEF StopAt, At
  <2> QED BY <2>1 DEF StopAt
<1>5. CASE Finalize(b)
  <2>1. job'[b] = [job[b] EXCEPT !.do = "release"] /\ UNCHANGED <<stopping, ending, waitFor, late, live, task>>
    BY <1>0, <1>5 DEF Finalize
  <2>2. job'[b].do = "release" /\ job'[b].run = job[b].run
    BY <1>0, <2>1, JobFields, StepNames
  <2> QED BY <1>1, <2>1, <2>2 DEF At
<1>6. CASE Release(b)
  <2>1. /\ UNCHANGED <<stopping, ending, waitFor, late, task>>
        /\ live'[q] => live[q] /\ q # job[b].run
    BY <1>0, <1>6 DEF Release, TypeOK
  <2>2. PICK do \in {"unlink", "annotate"} : job'[b] = [job[b] EXCEPT !.do = do]
    BY <1>0, <1>6 DEF Release
  <2>3. do \in Steps
    BY StepNames
  <2>4. job'[b].do = do
    BY <1>0, <2>2, <2>3, JobFields
  <2> QED BY <1>1, <2>1, <2>4 DEF At
<1>7. CASE Tidy(b) \/ NextRow(b) \/ Judge(b) \/ Recheck(b) \/ Write(b) \/ Drop(b) \/ NextMarker(b)
           \/ SweepReads(b) \/ SweepJudges(b) \/ Sweep(b)
  <2>1. UNCHANGED <<stopping, ending, waitFor, late, task, live>> /\ job[b].do \notin {"finalize", "release", "insert"}
    BY <1>7 DEF Tidy, NextRow, Judge, Recheck, Write, Drop, NextMarker, SweepReads, SweepJudges, Sweep
  <2>2. job'[b].do # "insert"
    <3>1. \/ job'[b] \in {Nothing, Job("markers", NoRun, "none", {r \in Runs : marker[r] # "none"})}
          \/ \E r : job'[b] = [job[b] EXCEPT !.todo = @ \ {r}]
          \/ \E r : \/ job'[b] = Job("judge", r, marker[r], job[b].todo \ {r})
                    \/ job'[b] = Job("claimed", r, marker[r], job[b].todo \ {r})
          \/ \E do \in {"recheck", "rows", "write", "markers", "orphan", "sweep", "drop"} : job'[b] = [job[b] EXCEPT !.do = do]
      BY <1>0, <1>7 DEF Tidy, NextRow, Judge, Recheck, Write, Drop, NextMarker, SweepReads, SweepJudges, Sweep
    <3>2. ASSUME NEW r, job'[b] = [job[b] EXCEPT !.todo = @ \ {r}] PROVE job'[b].do # "insert"
      <4>1. job'[b].do = job[b].do
        BY <1>0, <3>2, JobFields
      <4> QED BY <2>1, <4>1
    <3>3. ASSUME NEW do \in {"recheck", "rows", "write", "markers", "orphan", "sweep", "drop"},
                 job'[b] = [job[b] EXCEPT !.do = do]
          PROVE  job'[b].do # "insert"
      <4>1. job'[b].do = do
        BY <1>0, <3>3, JobFields, StepNames
      <4> QED BY <4>1
    <3>4. CASE job'[b] \in {Nothing, Job("markers", NoRun, "none", {r \in Runs : marker[r] # "none"})}
      BY <3>4 DEF Nothing, Job
    <3>5. ASSUME NEW r, \/ job'[b] = Job("judge", r, marker[r], job[b].todo \ {r})
                        \/ job'[b] = Job("claimed", r, marker[r], job[b].todo \ {r})
          PROVE  job'[b].do # "insert"
      BY <3>5 DEF Job
    <3> QED BY <3>1, <3>2, <3>3, <3>4, <3>5
  <2> QED BY <1>1, <2>1, <2>2 DEF At
<1>8. CASE EndRuns(b)
  <2>1. ~stopping[b] /\ stopping' = stopping
    BY <1>8 DEF EndRuns
  <2> QED BY <2>1 DEF StopAt
<1>9. CASE Stop(b)
  <2>1. /\ waitFor'[b] = {r \in RunsOf(b) : listed[r] # "no" /\ task[r] = "going"}
        /\ ending'[b] = (IF waitFor'[b] = {} THEN "no" ELSE "stop")
        /\ job'[b] = Nothing /\ task' = task /\ live' = live
    BY <1>0, <1>9 DEF Stop, TypeOK, Idle
  <2>2. task[q] = "going" => q \in waitFor'[b]
    BY <1>0, <2>1 DEF HomeAt, RunsOf
  <2> QED BY <2>1, <2>2 DEF StopAt, Awaited, At, Nothing
<1>10. CASE TimeUp(b)
  <2>1. /\ late'[b] = {r \in waitFor[b] : task[r] = "going"} /\ ending'[b] = "turn"
        /\ ending[b] \in {"leave", "stop"}
        /\ job'[b] = Nothing /\ UNCHANGED <<task, live, stopping>>
    BY <1>0, <1>10 DEF TimeUp, TypeOK, Idle
  <2> QED BY <1>0, <2>1 DEF StopAt, Awaited, At, Nothing
<1>11. CASE TurnEnds(b)
  <2>1. /\ late'[b] = late[b] /\ ending[b] = "turn" /\ ending'[b] = "force"
        /\ job'[b] = Nothing /\ UNCHANGED <<task, live, stopping>>
    BY <1>0, <1>11 DEF TurnEnds, TypeOK, Idle
  <2> QED BY <1>0, <2>1 DEF StopAt, Awaited, At, Nothing
<1>12. CASE ForceOne(b)
  <2>1. PICK r \in late[b] :
          /\ late'[b] = late[b] \ {r}
          /\ \/ live[r] /\ job'[b] = Job("finalize", r, "cancelled", {})
             \/ ~live[r] /\ job'[b] = Nothing
    BY <1>0, <1>12 DEF ForceOne, TypeOK
  <2>2. UNCHANGED <<task, live, stopping, ending>> /\ ending[b] = "force" /\ job[b] = Nothing
    BY <1>12 DEF ForceOne
  <2> QED BY <1>0, <2>1, <2>2 DEF StopAt, Awaited, At, Nothing, Job
<1>13. CASE ForceEnds(b)
  <2>1. late[b] = {} /\ job[b] = Nothing /\ job' = job /\ ending[b] = "force" /\ UNCHANGED <<task, live, stopping>>
    BY <1>13 DEF ForceEnds
  <2> QED BY <1>0, <2>1 DEF StopAt, Awaited, At, Nothing
<1>14. CASE Switch(b) \/ Open(b)
  <2>1. ~stopping[b] /\ stopping' = stopping
    BY <1>14 DEF Switch, Open
  <2> QED BY <2>1 DEF StopAt
<1>15. CASE \E how \in {"killed", "exited"} : Dies(b, how)
  <2>1. job'[b] = Nothing /\ ~live'[q]
    BY <1>0, <1>15 DEF Dies
  <2> QED BY <2>1 DEF StopAt, At, Nothing
<1> QED BY <1>2, <1>3, <1>4, <1>5, <1>6, <1>7, <1>8, <1>9, <1>10, <1>11, <1>12, <1>13, <1>14, <1>15
        DEF StepOf, LoopStep, Resume, Exit, Killed

\* b records the end of its runs.
LEMMA OwnLoss ==
    ASSUME EndInv, LifeInv', NEW b \in Backends, StepOf(b), NEW q \in Runs, Home[q] = b
    PROVE  LossAt(q)'
<1> USE DEF diskVars, loopVars, projectVars, runVars, Fault
<1>0. /\ TypeOK /\ MarkInv /\ LossAt(q) /\ JobAt(b) /\ RunAt(q) /\ HomeAt(q) /\ job[b] \in Jobs /\ faults \in Nat
      /\ \A j : GoOn(b, j) => job'[b] = j
      /\ row'[q] = "running" => /\ row[q] = "running" \/ live[q]
                                /\ marker[q] \in Statuses => marker'[q] \in Statuses \/ q \in missed
                                /\ q \in missed => q \in missed'
      /\ faults' \in {faults, faults + 1}
  <2>1. /\ TypeOK /\ MarkInv /\ LossAt(q) /\ JobAt(b) /\ RunAt(q) /\ HomeAt(q)
        /\ LifeInv /\ Onward(q)
    BY StepOnward DEF EndInv, LifeInv, TypeInv, RunAt
  <2>2. /\ job[b] \in Jobs /\ faults \in Nat
        /\ \A j : GoOn(b, j) => job'[b] = j
    BY <2>1 DEF TypeOK, GoOn
  <2>3. faults' \in {faults, faults + 1}
    BY <2>1, FaultsGrow
  <2> QED BY <2>1, <2>2, <2>3, MarksStay
<1>1. ASSUME ~live'[q] => ~live[q], proc' = proc, ~At(q, {"annotate", "release"}), ~At(q, {"release"})'
      PROVE  LossAt(q)'
  BY <1>0, <1>1 DEF LossAt, At
<1>2. CASE job[b] = Nothing /\ live' = live /\ proc' = proc /\ job'[b].do # "release"
  BY <1>1, <1>2 DEF At, Nothing
<1>3. ASSUME NEW r \in Runs, Home[r] = b, Claim(r) PROVE LossAt(q)'
  <2>1. /\ proc' = proc /\ job[b] = Nothing /\ job'[b] = Job("insert", r, "none", {})
        /\ live[q] => live'[q]
    BY <1>0, <1>3 DEF Claim, TypeOK, Idle
  <2> QED BY <1>1, <2>1 DEF At, Nothing, Job
<1>4. ASSUME NEW r \in Runs, Home[r] = b, Finish(r) \/ Callback(r) PROVE LossAt(q)'
  <2>1. /\ proc' = proc /\ job[b] = Nothing /\ live' = live
        /\ job' = job \/ job'[b] = Nothing \/ job'[b] = Job("finalize", r, outcome[r], {})
    BY <1>0, <1>4 DEF Finish, Callback, Idle
  <2> QED BY <1>2, <2>1 DEF Nothing, Job
<1>5. CASE Insert(b)
  <2>1. /\ job[b].do = "insert" /\ live' = live /\ proc' = proc
        /\ job'[b] = Nothing \/ job'[b] = Job("finalize", job[b].run, "failed", {})
    BY <1>0, <1>5 DEF Insert
  <2> QED BY <1>1, <2>1 DEF At, Nothing, Job
<1>6. CASE Finalize(b)
  <2>1. /\ job[b].do = "finalize" /\ live' = live /\ proc' = proc
        /\ job'[b] = [job[b] EXCEPT !.do = "release"]
        /\ Recorded(job[b].run, job[b].mark) \/ (faults' = faults + 1 /\ row' = row)
    BY <1>0, <1>6 DEF Finalize
  <2>2. job'[b].do = "release" /\ job'[b].run = job[b].run
    BY <1>0, <2>1, JobFields, StepNames
  <2>3. CASE q # job[b].run
    BY <1>1, <2>1, <2>2, <2>3 DEF At
  <2>4. CASE q = job[b].run
    <3>1. row'[q] = "running" => faults' > 0
      <4>1. row \in [Runs -> Statuses \cup {"absent", "running"}] /\ job[b].mark \in Statuses
        BY <1>0, <2>1 DEF TypeOK, MarkInv
      <4>2. CASE Recorded(job[b].run, job[b].mark)
        BY <2>4, <4>1, <4>2 DEF Recorded
      <4>3. CASE faults' = faults + 1
        BY <1>0, <4>3
      <4> QED BY <2>1, <4>2, <4>3
    <3>2. ~At(q, {"annotate"})
      BY <2>1 DEF At
    <3> QED BY <1>0, <2>1, <2>2, <3>1, <3>2 DEF LossAt, At
  <2> QED BY <2>3, <2>4
<1>7. CASE Release(b)
  <2>1. /\ job[b].do = "release" /\ proc' = proc /\ marker' = marker
        /\ q # job[b].run => live'[q] = live[q]
        /\ \/ /\ job'[b] = [job[b] EXCEPT !.do = "unlink"]
              /\ (row[job[b].run] # "running" /\ row' = row) \/ Recorded(job[b].run, job[b].mark)
           \/ job'[b] = [job[b] EXCEPT !.do = "annotate"] /\ faults' = faults + 1 /\ row' = row
    BY <1>0, <1>7 DEF Release, TypeOK
  <2>2. job'[b].do \in {"unlink", "annotate"} /\ job'[b].run = job[b].run
    <3>1. PICK do \in {"unlink", "annotate"} : job'[b] = [job[b] EXCEPT !.do = do]
      BY <2>1
    <3> QED BY <1>0, <3>1, JobFields, StepNames
  <2>3. CASE q # job[b].run
    BY <1>1, <2>1, <2>2, <2>3 DEF At
  <2>4. CASE q = job[b].run
    <3>1. CASE row'[q] # "running"
      BY <3>1 DEF LossAt
    <3>2. CASE row'[q] = "running"
      <4>1. /\ job'[b] = [job[b] EXCEPT !.do = "annotate"] /\ faults' = faults + 1 /\ row' = row
        BY <1>0, <2>1, <2>4, <3>2 DEF Recorded, TypeOK, MarkInv
      <4>2. job'[b].do = "annotate"
        BY <1>0, <4>1, JobFields, StepNames
      <4>3. faults > 0
        BY <1>0, <2>1, <2>4, <3>2, <4>1 DEF LossAt, At
      <4> QED BY <1>0, <2>2, <2>4, <4>1, <4>2, <4>3 DEF LossAt, At
    <3> QED BY <3>1, <3>2
  <2> QED BY <2>3, <2>4
<1>8. CASE Tidy(b)
  <2>1. /\ job[b].do \in {"unlink", "annotate"} /\ proc' = proc /\ live' = live /\ row' = row /\ job'[b] = Nothing
        /\ \/ marker' = [marker EXCEPT ![job[b].run] = IF job[b].do = "unlink" THEN "none" ELSE job[b].mark]
           \/ faults' = faults + 1
    BY <1>0, <1>8 DEF Tidy
  <2>2. CASE q # job[b].run
    BY <1>1, <2>1, <2>2 DEF At, Nothing
  <2>3. CASE q = job[b].run
    <3>1. job[b].do = "unlink" => row[q] # "running"
      BY <1>0, <2>3 DEF JobAt
    <3>2. job[b].do = "annotate" => job[b].mark \in Statuses
      BY <1>0 DEF MarkInv
    <3> QED BY <1>0, <2>1, <2>3, <3>1, <3>2 DEF LossAt, At, Nothing, TypeOK
  <2> QED BY <2>2, <2>3
<1>9. CASE NextRow(b) \/ Judge(b) \/ Recheck(b) \/ Write(b) \/ Drop(b) \/ NextMarker(b) \/ SweepReads(b) \/ SweepJudges(b) \/ Sweep(b)
  <2>1. proc' = proc /\ live' = live /\ job[b].do \in {"rows"} \cup OtherSteps \cup {"markers"}
    BY <1>9 DEF NextRow, Judge, Recheck, Write, Drop, NextMarker, SweepReads, SweepJudges, Sweep, OtherSteps
  <2>2. ~At(q, {"annotate", "release"})
    BY <2>1 DEF At, OtherSteps
  <2>3. ~At(q, {"release"})'
    <3>1. \/ job'[b] \in {Nothing, Job("markers", NoRun, "none", {r \in Runs : marker[r] # "none"})}
          \/ \E r : job'[b] = [job[b] EXCEPT !.todo = @ \ {r}]
          \/ \E r : \/ job'[b] = Job("judge", r, marker[r], job[b].todo \ {r})
                    \/ job'[b] = Job("claimed", r, marker[r], job[b].todo \ {r})
          \/ \E do \in {"recheck", "rows", "write", "markers", "orphan", "sweep", "drop"} : job'[b] = [job[b] EXCEPT !.do = do]
      BY <1>0, <1>9 DEF NextRow, Judge, Recheck, Write, Drop, NextMarker, SweepReads, SweepJudges, Sweep
    <3>2. ASSUME NEW r, job'[b] = [job[b] EXCEPT !.todo = @ \ {r}] PROVE job'[b].do # "release"
      <4>1. job'[b].do = job[b].do
        BY <1>0, <3>2, JobFields
      <4> QED BY <2>1, <4>1 DEF OtherSteps
    <3>3. ASSUME NEW do \in {"recheck", "rows", "write", "markers", "orphan", "sweep", "drop"},
                 job'[b] = [job[b] EXCEPT !.do = do]
          PROVE  job'[b].do # "release"
      <4>1. job'[b].do = do
        BY <1>0, <3>3, JobFields, StepNames
      <4> QED BY <4>1
    <3>4. CASE job'[b] \in {Nothing, Job("markers", NoRun, "none", {r \in Runs : marker[r] # "none"})}
      BY <3>4 DEF Nothing, Job, At
    <3>5. ASSUME NEW r, \/ job'[b] = Job("judge", r, marker[r], job[b].todo \ {r})
                        \/ job'[b] = Job("claimed", r, marker[r], job[b].todo \ {r})
          PROVE  job'[b].do # "release"
      BY <3>5 DEF Job
    <3> QED BY <3>1, <3>2, <3>3, <3>4, <3>5 DEF At
  <2> QED BY <1>1, <2>1, <2>2, <2>3
<1>10. CASE TimeUp(b) \/ TurnEnds(b) \/ ForceEnds(b) \/ EndRuns(b) \/ Stop(b) \/ Switch(b)
  BY <1>2, <1>10 DEF TimeUp, TurnEnds, ForceEnds, EndRuns, Stop, Switch, Idle, Nothing
<1>11. CASE ForceOne(b)
  <2>1. /\ proc' = proc /\ live' = live /\ job[b] = Nothing
        /\ job' = job \/ \E r : job'[b] = Job("finalize", r, "cancelled", {})
    BY <1>0, <1>11 DEF ForceOne
  <2>2. job'[b].do # "release"
    <3>1. CASE job' = job
      BY <2>1, <3>1 DEF Nothing
    <3>2. ASSUME NEW r, job'[b] = Job("finalize", r, "cancelled", {}) PROVE job'[b].do # "release"
      BY <3>2 DEF Job
    <3> QED BY <2>1, <3>1, <3>2
  <2> QED BY <1>2, <2>1, <2>2
<1>12. CASE Open(b)
  <2>1. /\ proc' = proc /\ live' = live /\ job[b] = Nothing
        /\ job' = job \/ job'[b] = Job("rows", NoRun, "none", {r \in Runs : row[r] = "running"})
    BY <1>0, <1>12 DEF Open, Idle
  <2> QED BY <1>2, <2>1 DEF Nothing, Job
<1>13. CASE Killed(b)
  <2>1. proc'[b] = "killed" /\ job'[b] = Nothing
    BY <1>0, <1>13 DEF Killed, Dies, TypeOK
  <2> QED BY <2>1 DEF LossAt, At, Nothing
<1>14. CASE Exit(b)
  <2>1. /\ job[b] = Nothing /\ stopping[b] /\ ending[b] = "no" /\ task[q] # "done" /\ proc[b] = "up"
        /\ job'[b] = Nothing /\ row' = row /\ marker' = marker /\ faults' = faults
    BY <1>0, <1>14 DEF Exit, Dies, Idle, RunsOf
  <2>2. ~live[q]
    <3>1. StopAt(q)
      BY DEF EndInv
    <3> QED BY <1>0, <2>1, <3>1 DEF StopAt, Awaited, HomeAt, At, Nothing
  <2> QED BY <1>0, <2>1, <2>2 DEF LossAt, At, Nothing
<1> QED BY <1>3, <1>4, <1>5, <1>6, <1>7, <1>8, <1>9, <1>10, <1>11, <1>12, <1>13, <1>14
        DEF StepOf, LoopStep, Resume

LEMMA EndInit == Init => EndInv
<1> SUFFICES ASSUME Init PROVE EndInv
  OBVIOUS
<1>1. LifeInv
  BY LifeInit
<1>2. \A b \in Backends : StoreAt(b)
  BY DEF Init, StoreAt
<1>3. \A r \in Runs : OpenAt(r) /\ StopAt(r) /\ LossAt(r)
  BY OwnersAssumption DEF Init, OpenAt, StopAt, LossAt, At, Nothing
<1>4. \A r, q \in Runs : Alone(r, q)
  BY DEF Init, Alone
<1> QED BY <1>1, <1>2, <1>3, <1>4 DEF EndInv

LEMMA EndNext == EndInv /\ [Next]_vars => EndInv'
<1> SUFFICES ASSUME EndInv, [Next]_vars PROVE EndInv'
  OBVIOUS
<1>1. LifeInv'
  BY LifeNext DEF EndInv
<1>2. CASE UNCHANGED vars
  BY <1>1, <1>2 DEF EndInv, vars, StoreAt, OpenAt, StopAt, Awaited, LossAt, Alone, At
<1>3. ASSUME NEW b \in Backends, StepOf(b) PROVE EndInv'
  <2>1. Acts(b) /\ (\A q \in Runs : Onward(q)) /\ (faults' = faults \/ faults' = faults + 1)
    BY <1>3, StepActs, StepOnward, FaultsGrow DEF EndInv
  <2>2. /\ \A c \in Backends \ {b} : StoreAt(c)'
        /\ \A q \in Runs : Home[q] # b => (OpenAt(q) /\ StopAt(q) /\ LossAt(q))'
        /\ \A r, q \in Runs : Home[q] # b => Alone(r, q)'
    BY <2>1, OthersEnd
  <2>3. StoreAt(b)' /\ \A q \in Runs : Home[q] = b => OpenAt(q)'
    BY <1>1, <1>3, OwnStores
  <2>4. \A q \in Runs : Home[q] = b => StopAt(q)' /\ LossAt(q)'
    BY <1>1, <1>3, OwnStop, OwnLoss
  <2>5. \A r, q \in Runs : Home[q] = b => Alone(r, q)'
    BY <1>1, <1>3, OwnAlone
  <2> QED BY <1>1, <2>2, <2>3, <2>4, <2>5 DEF EndInv
<1> QED BY <1>2, <1>3, NextIsStep DEF EndInv

LEMMA EndAlways == Spec => []EndInv
BY EndInit, EndNext, PTL DEF Spec

\* The variables have their types whatever the number of runs, backends and failed accesses.
THEOREM LifetimeTypes == Spec => []TypeOK
<1>1. LifeInv => TypeOK
  BY DEF LifeInv, TypeInv
<1> QED BY <1>1, LifeAlways, PTL

\* A run has its owner marker from the claim until its row is terminal, whatever other backends
\* and their sweeps do in between: claim_run and release_run against reconcile_interrupted_runs.
\* A sweep that had read no row just before the row was inserted is the one exception, and it
\* takes the marker only once the owner is gone.
THEOREM MarkersStay == Spec => []MarkerWhileNeeded
<1>1. LifeInv => MarkerWhileNeeded
  BY DEF LifeInv, RunAt, Needed, Lost, MarkerWhileNeeded
<1> QED BY <1>1, LifeAlways, PTL

\* reconcile_interrupted_runs never closes the row of a run that is live in any process.
THEOREM OnlyTheDeadAreClosed == Spec => []OnlyDeadRunsReconciled
<1>1. LifeInv => OnlyDeadRunsReconciled
  BY DEF LifeInv, JobAt, OnlyDeadRunsReconciled
<1> QED BY <1>1, LifeAlways, PTL

\* A project switch never closes the store that a live run writes through: retire_store and
\* release_run, over any number of projects opened and left.
THEOREM LiveStoresStayOpen == Spec => []LiveRunStoreOpen
<1>1. EndInv => LiveRunStoreOpen
  BY DEF EndInv, OpenAt, LiveRunStoreOpen
<1> QED BY <1>1, EndAlways, PTL

\* A backend never has two runs of one workflow going, whatever was left behind by a switch:
\* _is_workflow_running with hold_stopping_run.
THEOREM WorkflowsRunAlone == Spec => []OneRunPerWorkflow
<1>1. EndInv => OneRunPerWorkflow
  BY DEF EndInv, Alone, OneRunPerWorkflow
<1> QED BY <1>1, EndAlways, PTL

\* A graceful stop loses the end of a run only to three failed accesses, or to a sweep that had
\* read no row just before it was inserted: shutdown_workflow_runs, _await_or_force, release_run.
THEOREM StopsAreClean == Spec => []StopLeavesNoRunningRow
<1>1. EndInv => StopLeavesNoRunningRow
  <2> SUFFICES ASSUME EndInv, NEW r \in Runs, proc[Home[r]] = "exited", row[r] = "running"
               PROVE  marker[r] \in Statuses \/ faults > 2 \/ r \in missed
    BY DEF StopLeavesNoRunningRow
  <2>1. LossAt(r) /\ HomeAt(r) /\ DeadAt(Home[r])
    BY OwnersAssumption DEF EndInv, LifeInv, RunAt
  <2> QED BY <2>1 DEF LossAt, HomeAt, DeadAt, At, Nothing
<1> QED BY <1>1, EndAlways, PTL

-----------------------------------------------------------------------------
(* A run ends once.                                                        *)

\* On the owner's machine at most one other backend looks after a run.  With two, both may
\* find the owner dead and write, each what it read in the marker.
OneMinder ==
    \A r \in Runs : \A b, c \in Backends \ {Home[r]} :
        Machine[b] = Machine[Home[r]] /\ Machine[c] = Machine[Home[r]] => b = c

\* b is that backend, if r is not its own.
Minds(b, r) == Home[r] # b /\ Machine[b] = Machine[Home[r]]

\* The marker of r was swept while it was needed; nobody makes another one.
Swept(r) == Lost(r) /\ marker[r] = "none"

\* Whoever is about to write an end finds none written, or the end it writes: without a
\* marker that is "failed" for everyone.
EndsOnce(b) == LET d == job[b].do  r == job[b].run  mark == job[b].mark IN
    /\ d = "finalize" => live[r] /\ row[r] \notin Statuses
    /\ d \in {"judge", "recheck", "write", "claimed"} /\ mark = "none" /\ row[r] = "running" => Swept(r)
    /\ d \in {"judge", "recheck", "write"} /\ mark # "none" /\ row[r] = "running" /\ Minds(b, r) => marker[r] # "none"
    /\ d = "recheck" /\ row[r] = "running" => mark = "none" \/ OwnerGone(b, r)
    /\ d = "write" => /\ row[r] = "running" \/ (mark = "none" /\ row[r] = "failed")
                      /\ mark = "none" \/ OwnerGone(b, r)
    /\ d = "sweep" /\ row[r] = "running" => marker[r] = "none" \/ Minds(b, r)

\* A live run has no end on disk before its owner has written it.
EndOpen(r) ==
    /\ live[r] => row[r] \notin Statuses \/ At(r, {"release"})
    /\ task[r] \in {"starting", "going", "done"} /\ ~forced[r] => live[r]
    /\ At(r, {"finalize", "release"}) => forced[r] \/ task[r] = "over"

OnceInv == /\ LifeInv
           /\ \A b \in Backends : EndsOnce(b)
           /\ \A r \in Runs : EndOpen(r)

\* Who writes the row of q, and what was in it.
LEMMA RowWritten ==
    ASSUME OnceInv, NEW b \in Backends, StepOf(b), NEW q \in Runs, row'[q] # row[q]
    PROVE  /\ job[b].run = q /\ row[q] \notin Statuses
           /\ job[b].do \in OwnSteps \cup {"write"}
           /\ job[b].do \in OwnSteps => Home[q] = b
           /\ job[b].do = "write" => /\ ~live[q] /\ row[q] = "running"
                                     /\ job[b].mark = "none" => row'[q] = "failed"
                                     /\ job[b].mark = "none" \/ OwnerGone(b, q)
<1> USE DEF diskVars, OwnSteps
<1>0. TypeOK /\ JobAt(b) /\ EndsOnce(b)
  BY DEF OnceInv, LifeInv, TypeInv
<1>1. CASE Insert(b)
  BY <1>0, <1>1 DEF Insert, TypeOK, JobAt
<1>2. CASE Finalize(b)
  BY <1>0, <1>2 DEF Finalize, Recorded, TypeOK, JobAt, EndsOnce
<1>3. CASE Release(b)
  BY <1>0, <1>3 DEF Release, Recorded, TypeOK, JobAt
<1>4. CASE Write(b)
  <2>1. /\ job[b].do = "write" /\ job[b].run = q
        /\ row'[q] = IF row[q] = "absent" THEN row[q]
                     ELSE IF job[b].mark \in Statuses THEN job[b].mark ELSE "failed"
    BY <1>0, <1>4 DEF Write, Recorded, TypeOK
  <2>2. ~live[q]
    BY <1>0, <2>1 DEF JobAt
  <2>3. /\ row[q] = "running" \/ (job[b].mark = "none" /\ row[q] = "failed")
        /\ job[b].mark = "none" \/ OwnerGone(b, q)
    BY <1>0, <2>1 DEF EndsOnce
  <2>4. row[q] = "running"
    BY <2>1, <2>3
  <2> QED BY <2>1, <2>2, <2>3, <2>4
<1>5. CASE Tidy(b) \/ NextRow(b) \/ Judge(b) \/ Recheck(b) \/ Drop(b) \/ NextMarker(b) \/ SweepReads(b) \/ SweepJudges(b) \/ Sweep(b)
  BY <1>5 DEF Tidy, NextRow, Judge, Recheck, Drop, NextMarker, SweepReads, SweepJudges, Sweep
<1>6. CASE Resume(b) \/ EndRuns(b) \/ Stop(b) \/ Exit(b) \/ Switch(b) \/ Killed(b) \/ Open(b)
  BY <1>6 DEF Resume, TimeUp, TurnEnds, ForceOne, ForceEnds, EndRuns, Stop, Exit, Switch, Killed, Open, Dies
<1>7. ASSUME NEW r \in Runs, Claim(r) \/ Finish(r) \/ Callback(r) PROVE row' = row
  BY <1>7 DEF Claim, Finish, Callback
<1> QED BY <1>1, <1>2, <1>3, <1>4, <1>5, <1>6, <1>7 DEF StepOf, LoopStep

\* Who writes the marker of q.
LEMMA MarkerWritten ==
    ASSUME LifeInv, NEW b \in Backends, StepOf(b), NEW q \in Runs, marker'[q] # marker[q]
    PROVE  /\ Home[q] = b \/ marker'[q] = "none"
           /\ row[q] = "running" /\ marker'[q] = "none" => job[b].do = "sweep" /\ job[b].run = q
<1> USE DEF diskVars
<1>0. TypeOK /\ JobAt(b) /\ MarkInv
  BY DEF LifeInv, TypeInv
<1>1. ASSUME NEW r \in Runs, Home[r] = b, Claim(r)
      PROVE  Home[q] = b /\ marker'[q] = "plain"
  BY <1>0, <1>1 DEF Claim, TypeOK
<1>2. CASE Tidy(b)
  <2>1. q = job[b].run /\ marker'[q] = IF job[b].do = "unlink" THEN "none" ELSE job[b].mark
    BY <1>0, <1>2 DEF Tidy, TypeOK
  <2> QED BY <1>0, <1>2, <2>1 DEF Tidy, JobAt, OwnSteps, MarkInv
<1>3. CASE Drop(b)
  BY <1>0, <1>3 DEF Drop, TypeOK, JobAt
<1>4. CASE Sweep(b)
  BY <1>0, <1>4 DEF Sweep, TypeOK
<1>5. CASE Insert(b) \/ Finalize(b) \/ Release(b) \/ NextRow(b) \/ Judge(b) \/ Recheck(b) \/ Write(b) \/ NextMarker(b)
           \/ SweepReads(b) \/ SweepJudges(b)
  BY <1>5 DEF Insert, Finalize, Release, NextRow, Judge, Recheck, Write, NextMarker, SweepReads, SweepJudges
<1>6. CASE Resume(b) \/ EndRuns(b) \/ Stop(b) \/ Exit(b) \/ Switch(b) \/ Killed(b) \/ Open(b)
  BY <1>6 DEF Resume, TimeUp, TurnEnds, ForceOne, ForceEnds, EndRuns, Stop, Exit, Switch, Killed, Open, Dies
<1>7. ASSUME NEW r \in Runs, Finish(r) \/ Callback(r) PROVE marker' = marker
  BY <1>7 DEF Finish, Callback
<1> QED BY <1>1, <1>2, <1>3, <1>4, <1>5, <1>6, <1>7 DEF StepOf, LoopStep

\* A swept marker stays so.
LEMMA SweptStays ==
    ASSUME LifeInv, NEW b \in Backends, StepOf(b), NEW q \in Runs, Swept(q)
    PROVE  Swept(q)'
<1>1. Lost(q)'
  BY StepOnward DEF Onward, Swept
<1>2. CASE Home[q] = b
  <2>1. \E how \in {"killed", "exited"} : Dies(b, how)
    BY <1>2, StepIsAlive DEF Swept, Lost
  <2> QED BY <1>1, <2>1 DEF Swept, Dies, diskVars
<1>3. CASE Home[q] # b
  BY <1>1, <1>3, MarkerWritten DEF Swept
<1> QED BY <1>2, <1>3

\* A step of b leaves the other backends and their runs as they are.
LEMMA OthersOnce ==
    ASSUME OneMinder, OnceInv, NEW b \in Backends, StepOf(b)
    PROVE  /\ \A c \in Backends \ {b} : EndsOnce(c)'
           /\ \A q \in Runs : Home[q] # b => EndOpen(q)'
<1>0. /\ TypeOK /\ Home \in [Runs -> Backends] /\ Acts(b) /\ \A q \in Runs : Onward(q) /\ RunAt(q)
      /\ \A c \in Backends : DeadAt(c) /\ JobAt(c) /\ EndsOnce(c)
  BY OwnersAssumption, StepActs, StepOnward DEF OnceInv, LifeInv, TypeInv
<1>1. \A c \in Backends : proc[c] # "up" => proc'[c] # "up"
  BY <1>0, StepIsAlive DEF Dies, TypeOK, OnceInv
<1>2. \A c \in Backends, q \in Runs : OwnerGone(c, q) => OwnerGone(c, q)'
  BY <1>0, <1>1 DEF OwnerGone
<1>3. ASSUME NEW q \in Runs, Home[q] # b, live[q]
      PROVE  row'[q] = row[q]
  BY <1>3, RowWritten DEF OwnSteps
<1>4. ASSUME NEW q \in Runs, Home[q] # b
      PROVE  EndOpen(q)'
  <2>1. EndOpen(q)
    BY DEF OnceInv
  <2>2. /\ task'[q] = task[q] /\ live'[q] = live[q] /\ forced'[q] = forced[q]
        /\ job'[Home[q]] = job[Home[q]]
    BY <1>0, <1>4 DEF Acts
  <2> QED BY <1>3, <1>4, <2>1, <2>2 DEF EndOpen, At
<1>5. ASSUME NEW c \in Backends \ {b}
      PROVE  EndsOnce(c)'
  <2> DEFINE d == job[c].do
  <2> DEFINE r == job[c].run
  <2> DEFINE mark == job[c].mark
  <2>1. EndsOnce(c) /\ JobAt(c) /\ DeadAt(c) /\ job'[c] = job[c]
    BY <1>0 DEF Acts
  <2>2. CASE d \notin {"finalize", "judge", "recheck", "write", "claimed", "sweep"}
    BY <2>1, <2>2 DEF EndsOnce
  <2>3. CASE d = "finalize"
    <3>1. r \in Runs /\ Home[r] = c /\ live[r] /\ row[r] \notin Statuses
      BY <2>1, <2>3 DEF EndsOnce, JobAt, OwnSteps
    <3>2. live'[r] = live[r] /\ row'[r] = row[r]
      BY <1>0, <1>3, <3>1 DEF Acts
    <3> QED BY <2>1, <2>3, <3>1, <3>2 DEF EndsOnce
  <2>4. CASE d \in {"judge", "recheck", "write", "claimed", "sweep"}
    <3>1. r \in Runs /\ task[r] # "none" /\ row[r] \in Statuses \cup {"absent", "running"} /\ proc[c] = "up"
          /\ Onward(r) /\ RunAt(r)
      BY <1>0, <2>1, <2>4 DEF JobAt, OtherSteps, TypeOK, DeadAt, Nothing
    <3>2. row'[r] = "running" /\ (d = "claimed" => mark = "none") => row[r] = "running"
      <4>1. d = "sweep" \/ (d = "claimed" /\ mark = "none") => ~Needed(r) \/ ~live[r]
        BY <2>1, <3>1 DEF JobAt, RunAt, HomeAt, Lost
      <4>2. d \in {"judge", "recheck", "write"} => row[r] # "absent"
        BY <2>1 DEF JobAt
      <4> QED BY <2>4, <3>1, <4>1, <4>2 DEF Onward, Needed
    <3>3. ASSUME Swept(r) PROVE Swept(r)'
      <4>1. \A q \in Runs : Swept(q) => Swept(q)'
        BY SweptStays DEF OnceInv
      <4> QED BY <2>1, <3>1, <3>3, <4>1 DEF Swept, Lost
    <3>4. ASSUME row[r] = "running", Minds(c, r), marker[r] # "none"
          PROVE  marker'[r] # "none"
      <4> SUFFICES ASSUME marker'[r] = "none" PROVE FALSE
        OBVIOUS
      <4>1. job[b].do = "sweep" /\ job[b].run = r
        BY <3>1, <3>4, MarkerWritten DEF OnceInv
      <4>2. Minds(b, r)
        BY <1>0, <3>4, <4>1 DEF EndsOnce
      <4> QED BY <3>1, <3>4, <4>2 DEF Minds, OneMinder
    <3>5. ASSUME row[r] = "running", marker[r] = "none"
          PROVE  marker'[r] = "none"
      <4>1. Swept(r)
        BY <3>1, <3>5 DEF RunAt, Needed, Swept
      <4> QED BY <2>1, <3>3, <4>1 DEF Swept
    <3>6. ASSUME d = "write", row'[r] # row[r]
          PROVE  mark = "none" /\ row'[r] = "failed"
      <4>1. /\ row[r] = "running" /\ job[b].run = r /\ proc[b] = "up"
            /\ job[b].do \in OwnSteps \cup {"write"}
            /\ job[b].do \in OwnSteps => Home[r] = b
        <5>1. /\ job[b].run = r /\ row[r] \notin Statuses
              /\ job[b].do \in OwnSteps \cup {"write"}
              /\ job[b].do \in OwnSteps => Home[r] = b
          BY <3>1, <3>6, RowWritten
        <5>2. row[r] # "absent"
          BY <2>1, <3>6 DEF JobAt
        <5>3. proc[b] = "up"
          BY <1>0, <5>1 DEF DeadAt, Nothing, OwnSteps
        <5> QED BY <3>1, <5>1, <5>2, <5>3
      <4>2. \A x \in {b, c} : job[x].do = "write" =>
                 \/ job[x].mark = "none" /\ Swept(r)
                 \/ job[x].mark # "none" /\ Home[r] = x
                 \/ job[x].mark # "none" /\ Minds(x, r) /\ proc[Home[r]] # "up" /\ marker[r] # "none"
        BY <1>0, <4>1 DEF EndsOnce, Minds, OwnerGone
      <4>3. proc[Home[r]] # "up" \/ Home[r] = c
        BY <3>6, <4>2 DEF Swept, Lost
      <4>4. job[b].do = "write" /\ Home[r] # b
        BY <4>1, <4>3
      <4>5. mark = "none" /\ job[b].mark = "none"
        BY <3>1, <3>6, <4>2, <4>4 DEF Swept, Lost, Minds, OneMinder
      <4> QED BY <3>1, <3>6, <4>4, <4>5, RowWritten
    <3> QED BY <1>2, <2>1, <2>4, <3>1, <3>2, <3>3, <3>4, <3>5, <3>6 DEF EndsOnce, Minds
  <2> QED BY <2>2, <2>3, <2>4
<1> QED BY <1>4, <1>5

\* A loop over rows or markers goes on, or has read the marker of the next run.
LEMMA LoopReads ==
    ASSUME LifeInv, NEW b \in Backends, NextRow(b) \/ NextMarker(b)
    PROVE  \/ job'[b].do \in {"markers", "rows", "nothing"}
           \/ \E r \in job[b].todo, do \in {"judge", "claimed"} : job'[b] = Job(do, r, marker[r], job[b].todo \ {r})
<1>0. job[b] \in Jobs /\ (\A j : GoOn(b, j) => job'[b] = j) /\ job[b].do \in {"rows", "markers"}
  BY DEF LifeInv, TypeInv, TypeOK, GoOn, NextRow, NextMarker
<1>1. \/ \E todo : job'[b] = Job("markers", NoRun, "none", todo)
      \/ job'[b] = Nothing
      \/ \E r : job'[b] = [job[b] EXCEPT !.todo = @ \ {r}]
      \/ \E r \in job[b].todo, do \in {"judge", "claimed"} : job'[b] = Job(do, r, marker[r], job[b].todo \ {r})
  <2>1. CASE NextRow(b)
    BY <1>0, <2>1 DEF NextRow
  <2>2. CASE NextMarker(b)
    BY <1>0, <2>2 DEF NextMarker
  <2> QED BY <2>1, <2>2
<1>2. ASSUME NEW r, job'[b] = [job[b] EXCEPT !.todo = @ \ {r}]
      PROVE  job'[b].do \in {"rows", "markers"}
  BY <1>0, <1>2 DEF Jobs
<1>3. ASSUME NEW todo, job'[b] = Job("markers", NoRun, "none", todo)
      PROVE  job'[b].do = "markers"
  BY <1>3 DEF Job
<1>4. CASE job'[b] = Nothing
  BY <1>4 DEF Nothing
<1> QED BY <1>1, <1>2, <1>3, <1>4

\* It writes nothing itself.
LEMMA LoopsOnlyRead ==
    ASSUME LifeInv, NEW b \in Backends, NextRow(b) \/ NextMarker(b)
    PROVE  job'[b].do \in {"markers", "judge", "claimed", "nothing", "rows"}
<1>1. ASSUME NEW r \in job[b].todo, NEW do \in {"judge", "claimed"},
             job'[b] = Job(do, r, marker[r], job[b].todo \ {r})
      PROVE  job'[b].do = do
  BY <1>1 DEF Job
<1> QED BY <1>1, LoopReads

\* What the loop of b is about to write after a step of b.
LEMMA OwnEnd ==
    ASSUME OnceInv, NEW b \in Backends, StepOf(b)
    PROVE  EndsOnce(b)'
<1> USE DEF diskVars, loopVars, projectVars, runVars
<1>0. /\ TypeOK /\ JobAt(b) /\ EndsOnce(b) /\ job[b] \in Jobs
      /\ \A j : GoOn(b, j) => job'[b] = j
      /\ \A r \in Runs : RunAt(r)
  BY DEF OnceInv, LifeInv, TypeInv, TypeOK, GoOn
<1>1. CASE job'[b].do \notin {"finalize", "judge", "recheck", "write", "claimed", "sweep"}
  BY <1>1 DEF EndsOnce
<1>2. CASE job'[b] = job[b] /\ UNCHANGED <<row, live, proc, marker, missed>>
  BY <1>0, <1>2 DEF EndsOnce, OwnerGone, Swept, Lost, Minds
<1>3. ASSUME NEW r \in Runs, live'[r], row'[r] \notin Statuses, NEW s, job'[b] = Job("finalize", r, s, {})
      PROVE  EndsOnce(b)'
  BY <1>3 DEF EndsOnce, Job
<1>4. ASSUME NEW r \in Runs, Home[r] = b, Claim(r)
      PROVE  EndsOnce(b)'
  BY <1>0, <1>1, <1>4 DEF Claim, Job
<1>5. ASSUME NEW r \in Runs, Finish(r)
      PROVE  EndsOnce(b)'
  BY <1>2, <1>5 DEF Finish
<1>6. ASSUME NEW r \in Runs, Home[r] = b, Callback(r)
      PROVE  EndsOnce(b)'
  <2>1. job[b] = Nothing /\ task[r] = "done" /\ row' = row /\ live' = live
    BY <1>6 DEF Callback, Idle
  <2>2. CASE forced[r]
    BY <1>0, <1>1, <1>6, <2>2 DEF Callback, Nothing
  <2>3. CASE ~forced[r]
    <3>1. EndOpen(r) /\ job'[b] = Job("finalize", r, outcome[r], {})
      BY <1>0, <1>6, <2>3 DEF Callback, OnceInv
    <3>2. live[r] /\ row[r] \notin Statuses
      BY <1>6, <2>1, <2>3, <3>1 DEF EndOpen, At, Nothing
    <3> QED BY <1>3, <2>1, <3>1, <3>2
  <2> QED BY <2>2, <2>3
<1>7. CASE Insert(b)
  <2> DEFINE r == job[b].run
  <2>1. r \in Runs /\ live[r] /\ row[r] = "absent"
    BY <1>0, <1>7 DEF Insert, JobAt, OwnSteps
  <2>2. live'[r] /\ row'[r] \notin Statuses
    BY <1>0, <1>7, <2>1 DEF Insert, TypeOK
  <2>3. job'[b] = Nothing \/ job'[b] = Job("finalize", r, "failed", {})
    BY <1>0, <1>7 DEF Insert
  <2>4. CASE job'[b] = Nothing
    BY <1>1, <2>4 DEF Nothing
  <2> HIDE DEF r
  <2> QED BY <1>3, <2>1, <2>2, <2>3, <2>4
<1>16. ASSUME NEW do \in Steps, job'[b] = [job[b] EXCEPT !.do = do]
       PROVE  job'[b].do = do /\ job'[b].run = job[b].run /\ job'[b].mark = job[b].mark
  BY <1>0, <1>16, JobFields
<1>8. CASE Judge(b)
  <2>1. PICK do \in {"recheck", "rows"} : /\ job'[b] = [job[b] EXCEPT !.do = do]
                                          /\ do = "recheck" => job[b].mark = "none" \/ OwnerGone(b, job[b].run)
    BY <1>0, <1>8 DEF Judge
  <2>2. job'[b].do = do /\ job'[b].run = job[b].run /\ job'[b].mark = job[b].mark
    BY <1>16, <2>1, StepNames
  <2>3. UNCHANGED <<row, marker, missed, proc>> /\ job[b].do = "judge"
    BY <1>8 DEF Judge
  <2> QED BY <1>0, <2>1, <2>2, <2>3 DEF EndsOnce, OwnerGone, Swept, Lost, Minds
<1>9. CASE Recheck(b)
  <2>1. PICK do \in {"write", "rows"} : /\ job'[b] = [job[b] EXCEPT !.do = do]
                                        /\ do = "write" => row[job[b].run] = "running"
    BY <1>0, <1>9 DEF Recheck
  <2>2. job'[b].do = do /\ job'[b].run = job[b].run /\ job'[b].mark = job[b].mark
    BY <1>16, <2>1, StepNames
  <2>3. UNCHANGED <<row, marker, missed, proc>> /\ job[b].do = "recheck"
    BY <1>9 DEF Recheck
  <2> QED BY <1>0, <2>1, <2>2, <2>3 DEF EndsOnce, OwnerGone, Swept, Lost, Minds
<1>10. CASE Finalize(b) \/ Release(b) \/ Tidy(b) \/ Write(b) \/ Drop(b) \/ Sweep(b)
  <2>1. job'[b] = Nothing \/ \E do \in {"release", "unlink", "annotate", "drop", "rows", "markers"} :
                                job'[b] = [job[b] EXCEPT !.do = do]
    BY <1>0, <1>10 DEF Finalize, Release, Tidy, Write, Drop, Sweep
  <2>2. CASE job'[b] = Nothing
    BY <1>1, <2>2 DEF Nothing
  <2>3. ASSUME NEW do \in {"release", "unlink", "annotate", "drop", "rows", "markers"},
               job'[b] = [job[b] EXCEPT !.do = do]
        PROVE  EndsOnce(b)'
    <3>1. job'[b].do = do
      BY <1>16, <2>3, StepNames
    <3> QED BY <1>1, <3>1
  <2> QED BY <2>1, <2>2, <2>3
<1>17. CASE SweepReads(b)
  <2>1. PICK do \in {"markers", "orphan", "sweep"} : /\ job'[b] = [job[b] EXCEPT !.do = do]
                                                     /\ do = "sweep" => row[job[b].run] # "running"
    BY <1>0, <1>17 DEF SweepReads
  <2>2. job'[b].do = do /\ job'[b].run = job[b].run /\ row' = row
    BY <1>16, <1>17, <2>1, StepNames DEF SweepReads
  <2> QED BY <2>1, <2>2 DEF EndsOnce
<1>18. CASE SweepJudges(b)
  <2>1. PICK do \in {"markers", "sweep"} : /\ job'[b] = [job[b] EXCEPT !.do = do]
                                           /\ do = "sweep" => OwnerGone(b, job[b].run)
    BY <1>0, <1>18 DEF SweepJudges
  <2>2. job'[b].do = do /\ job'[b].run = job[b].run /\ row' = row /\ job[b].do = "orphan"
    BY <1>16, <1>18, <2>1, StepNames DEF SweepJudges
  <2>3. row[job[b].run] = "running" => Home[job[b].run] # b
    BY <1>0, <2>2 DEF JobAt
  <2> QED BY <2>1, <2>2, <2>3 DEF EndsOnce, Minds, OwnerGone
<1>11. CASE NextRow(b) \/ NextMarker(b)
  <2>1. \/ job'[b].do \in {"markers", "rows", "nothing"}
        \/ \E r \in job[b].todo, do \in {"judge", "claimed"} : job'[b] = Job(do, r, marker[r], job[b].todo \ {r})
    BY <1>0, <1>11, LoopReads DEF OnceInv
  <2>2. UNCHANGED <<row, marker, missed, proc>>
    BY <1>11 DEF NextRow, NextMarker
  <2>3. CASE job'[b].do \in {"markers", "rows", "nothing"}
    BY <1>1, <2>3
  <2>4. ASSUME NEW r \in job[b].todo, NEW do \in {"judge", "claimed"},
               job'[b] = Job(do, r, marker[r], job[b].todo \ {r})
        PROVE  EndsOnce(b)'
    <3>1. r \in Runs /\ job'[b].do = do /\ job'[b].run = r /\ job'[b].mark = marker[r]
      BY <1>0, <2>4, JobType DEF Job
    <3>2. marker[r] = "none" /\ row[r] = "running" => Swept(r)
      BY <1>0, <3>1 DEF RunAt, Needed, Swept
    <3> QED BY <2>2, <3>1, <3>2 DEF EndsOnce, Swept, Lost
  <2> QED BY <2>1, <2>3, <2>4
<1>12. CASE TimeUp(b) \/ TurnEnds(b) \/ ForceEnds(b) \/ EndRuns(b) \/ Stop(b) \/ Switch(b)
  BY <1>2, <1>12 DEF TimeUp, TurnEnds, ForceEnds, EndRuns, Stop, Switch
<1>13. CASE ForceOne(b)
  <2>1. /\ UNCHANGED <<row, live, proc, marker, missed>> /\ job[b] = Nothing
        /\ job' = job \/ \E r \in late[b] : live[r] /\ job'[b] = Job("finalize", r, "cancelled", {})
    BY <1>0, <1>13 DEF ForceOne
  <2>2. ASSUME NEW r \in late[b], live[r], job'[b] = Job("finalize", r, "cancelled", {})
        PROVE  EndsOnce(b)'
    <3>1. r \in Runs /\ EndOpen(r) /\ Home[r] = b
      BY DEF OnceInv, LifeInv, WaitAt, RunsOf
    <3>2. row[r] \notin Statuses
      BY <2>1, <2>2, <3>1 DEF EndOpen, At, Nothing
    <3> QED BY <1>3, <2>1, <2>2, <3>1, <3>2
  <2> QED BY <1>2, <2>1, <2>2
<1>14. CASE Open(b)
  BY <1>0, <1>1, <1>14 DEF Open, Job, Idle, Nothing
<1>15. CASE \E how \in {"killed", "exited"} : Dies(b, how)
  BY <1>0, <1>1, <1>15 DEF Dies, Nothing
<1> QED BY <1>4, <1>5, <1>6, <1>7, <1>8, <1>9, <1>10, <1>11, <1>12, <1>13, <1>14, <1>15, <1>17, <1>18
        DEF StepOf, LoopStep, Resume, Exit, Killed

\* The runs of b after a step of b.
LEMMA OwnOpen ==
    ASSUME OnceInv, NEW b \in Backends, StepOf(b), NEW q \in Runs, Home[q] = b
    PROVE  EndOpen(q)'
<1> USE DEF diskVars, loopVars, projectVars, runVars
<1>0. /\ TypeOK /\ JobAt(b) /\ RunAt(q) /\ HomeAt(q) /\ EndOpen(q) /\ EndsOnce(b) /\ job[b] \in Jobs
      /\ \A j : GoOn(b, j) => job'[b] = j
  BY DEF OnceInv, LifeInv, TypeInv, TypeOK, GoOn, RunAt
<1>1. ASSUME UNCHANGED <<task, live, forced>>, row'[q] = row[q] \/ ~live[q],
             ~At(q, {"release"}),
             job' = job \/ job'[b].do \notin {"finalize", "release"}
      PROVE  EndOpen(q)'
  BY <1>0, <1>1 DEF EndOpen, At
<1>2. ASSUME job[b].do \notin {"finalize", "release"} \/ job[b].run # q
      PROVE  ~At(q, {"finalize", "release"}) /\ ~At(q, {"release"})
  BY <1>2 DEF At
<1>3. ASSUME NEW r \in Runs, Home[r] = b, Claim(r)
      PROVE  EndOpen(q)'
  <2>1. job[b] = Nothing /\ job'[b] = Job("insert", r, "none", {}) /\ row' = row /\ forced' = forced
    BY <1>0, <1>3 DEF Claim, Idle
  <2>2. ~At(q, {"release"}) /\ ~At(q, {"finalize", "release"})'
    BY <2>1 DEF At, Nothing, Job
  <2>3. CASE r = q
    BY <1>0, <1>3, <2>1, <2>2, <2>3 DEF Claim, EndOpen, RunAt, TypeOK
  <2>4. CASE r # q
    BY <1>0, <1>3, <2>1, <2>2, <2>4 DEF Claim, EndOpen, TypeOK
  <2> QED BY <2>3, <2>4
<1>4. ASSUME NEW r \in Runs, Home[r] = b, Finish(r)
      PROVE  EndOpen(q)'
  <2>1. /\ job[b] = Nothing /\ job' = job /\ row' = row /\ forced' = forced /\ live' = live
        /\ task'[q] = task[q] \/ (task[q] = "going" /\ task'[q] = "done")
    BY <1>0, <1>4 DEF Finish, Idle, TypeOK
  <2>2. ~At(q, {"release"}) /\ ~At(q, {"finalize", "release"})'
    BY <2>1 DEF At, Nothing
  <2> QED BY <1>0, <2>1, <2>2 DEF EndOpen
<1>5. ASSUME NEW r \in Runs, Home[r] = b, Callback(r)
      PROVE  EndOpen(q)'
  <2>1. job[b] = Nothing /\ row' = row /\ live' = live /\ (job'[b] = Nothing \/ job'[b].run = r)
    BY <1>0, <1>5 DEF Callback, Idle, Job
  <2>2. ~At(q, {"release"})
    BY <2>1 DEF At, Nothing
  <2>3. CASE r = q
    <3>1. task'[q] = "over"
      BY <1>0, <1>5, <2>3 DEF Callback, TypeOK
    <3> QED BY <1>0, <2>1, <2>2, <3>1 DEF EndOpen
  <2>4. CASE r # q
    <3>1. task'[q] = task[q] /\ forced'[q] = forced[q]
      BY <1>0, <1>5, <2>4 DEF Callback, TypeOK
    <3>2. ~At(q, {"finalize", "release"})'
      BY <2>1, <2>4 DEF At, Nothing
    <3> QED BY <1>0, <2>1, <2>2, <3>1, <3>2 DEF EndOpen
  <2> QED BY <2>3, <2>4
<1>6. CASE Insert(b)
  <2> DEFINE r == job[b].run
  <2>1. r \in Runs /\ live[r] /\ row[r] = "absent" /\ live' = live /\ forced' = forced
    BY <1>0, <1>6 DEF Insert, JobAt, OwnSteps
  <2>2. ~At(q, {"release"})
    BY <1>6 DEF Insert, At
  <2>3. job'[b] = Nothing \/ (job'[b] = Job("finalize", r, "failed", {}) /\ task'[r] = "over")
    BY <1>0, <1>6, <2>1 DEF Insert, TypeOK
  <2>4. CASE r = q
    <3>1. row'[q] \notin Statuses
      BY <1>0, <1>6, <2>1, <2>4 DEF Insert, TypeOK
    <3>2. At(q, {"finalize", "release"})' => task'[q] = "over"
      BY <2>3, <2>4 DEF At, Nothing
    <3> QED BY <2>1, <2>4, <3>1, <3>2 DEF EndOpen
  <2>5. CASE r # q
    <3>1. task'[q] = task[q] /\ row'[q] = row[q]
      BY <1>0, <1>6, <2>5 DEF Insert, TypeOK
    <3>2. ~At(q, {"finalize", "release"})'
      BY <2>3, <2>5 DEF At, Nothing, Job
    <3> QED BY <1>0, <2>1, <2>2, <3>1, <3>2 DEF EndOpen
  <2> QED BY <2>4, <2>5
<1>7. CASE Finalize(b)
  <2>1. job'[b].do = "release" /\ job'[b].run = job[b].run /\ UNCHANGED <<task, live, forced>>
    <3>1. job'[b] = [job[b] EXCEPT !.do = "release"] /\ "release" \in Steps
      BY <1>0, <1>7 DEF Finalize, Steps
    <3>2. job'[b].do = "release" /\ job'[b].run = job[b].run
      BY <1>0, <3>1, JobFields
    <3> QED BY <1>7, <3>2 DEF Finalize
  <2>2. CASE job[b].run = q
    BY <1>0, <1>7, <2>1, <2>2 DEF Finalize, EndOpen, At
  <2>3. CASE job[b].run # q
    <3>1. row'[q] = row[q]
      BY <1>0, <1>7, <2>3 DEF Finalize, Recorded, TypeOK
    <3> QED BY <1>0, <2>1, <2>3, <3>1 DEF EndOpen, At
  <2> QED BY <2>2, <2>3
<1>8. CASE Release(b)
  <2>1. /\ job'[b].do \in {"unlink", "annotate"} /\ task' = task /\ forced' = forced
        /\ live' = [live EXCEPT ![job[b].run] = FALSE]
    <3>1. PICK do \in {"unlink", "annotate"} : job'[b] = [job[b] EXCEPT !.do = do]
      BY <1>0, <1>8 DEF Release
    <3>2. job'[b].do = do
      BY <1>0, <3>1, JobFields, StepNames
    <3> QED BY <1>8, <3>2 DEF Release
  <2>2. ~At(q, {"finalize", "release"})'
    BY <2>1 DEF At
  <2>3. CASE job[b].run = q
    BY <1>0, <1>8, <2>1, <2>2, <2>3 DEF Release, EndOpen, At, TypeOK
  <2>4. CASE job[b].run # q
    <3>1. row \in [Runs -> Statuses \cup {"absent", "running"}] /\ live \in [Runs -> BOOLEAN]
      BY <1>0 DEF TypeOK
    <3>2. row' = row \/ Recorded(job[b].run, job[b].mark)
      BY <1>8 DEF Release
    <3>3. row'[q] = row[q]
      BY <2>4, <3>1, <3>2 DEF Recorded
    <3>4. live'[q] = live[q]
      BY <2>1, <2>4, <3>1
    <3> QED BY <1>0, <2>1, <2>2, <2>4, <3>3, <3>4 DEF EndOpen, At
  <2> QED BY <2>3, <2>4
<1>9. CASE Tidy(b) \/ NextRow(b) \/ Judge(b) \/ Recheck(b) \/ Write(b) \/ Drop(b) \/ NextMarker(b) \/ SweepReads(b) \/ SweepJudges(b) \/ Sweep(b)
  <2>1. UNCHANGED <<task, live, forced>> /\ job[b].do \notin {"finalize", "release"}
    BY <1>9 DEF Tidy, NextRow, Judge, Recheck, Write, Drop, NextMarker, SweepReads, SweepJudges, Sweep
  <2>2. row'[q] = row[q] \/ ~live[q]
    <3>1. StepOf(b)
      OBVIOUS
    <3> QED BY <2>1, <3>1, <1>9, RowWritten
            DEF Tidy, NextRow, Judge, Recheck, Write, Drop, NextMarker, SweepReads, SweepJudges, Sweep
  <2>3. job'[b].do \notin {"finalize", "release"}
    <3>1. CASE Tidy(b)
      BY <1>0, <3>1 DEF Tidy, Nothing
    <3>2. CASE NextRow(b) \/ NextMarker(b)
      BY <3>2, LoopsOnlyRead DEF OnceInv
    <3>3. CASE Judge(b) \/ Recheck(b) \/ Write(b) \/ Drop(b) \/ SweepReads(b) \/ SweepJudges(b) \/ Sweep(b)
      <4>1. PICK do \in {"recheck", "rows", "write", "drop", "markers", "orphan", "sweep"} : job'[b] = [job[b] EXCEPT !.do = do]
        BY <1>0, <3>3 DEF Judge, Recheck, Write, Drop, SweepReads, SweepJudges, Sweep
      <4> QED BY <1>0, <4>1, JobFields, StepNames
    <3> QED BY <1>9, <3>1, <3>2, <3>3
  <2> QED BY <1>1, <1>2, <2>1, <2>2, <2>3
<1>10. CASE TimeUp(b) \/ TurnEnds(b) \/ ForceEnds(b) \/ EndRuns(b) \/ Stop(b) \/ Switch(b)
  <2>1. UNCHANGED <<row, task, live, forced, job>>
    BY <1>10 DEF TimeUp, TurnEnds, ForceEnds, EndRuns, Stop, Switch
  <2> QED BY <1>0, <2>1 DEF EndOpen, At
<1>11. CASE ForceOne(b)
  <2>1. PICK r \in late[b] : \/ UNCHANGED <<forced, job>>
                             \/ live[r] /\ forced' = [forced EXCEPT ![r] = TRUE] /\ job'[b] = Job("finalize", r, "cancelled", {})
    BY <1>0, <1>11 DEF ForceOne
  <2>2. UNCHANGED <<row, task, live>> /\ job[b] = Nothing /\ r \in Runs
    BY <1>0, <1>11 DEF ForceOne, TypeOK
  <2>3. ~At(q, {"release"})
    BY <2>2 DEF At, Nothing
  <2>4. CASE UNCHANGED <<forced, job>>
    BY <1>0, <2>2, <2>3, <2>4 DEF EndOpen, At
  <2>5. CASE live[r] /\ forced' = [forced EXCEPT ![r] = TRUE] /\ job'[b] = Job("finalize", r, "cancelled", {})
    <3>1. At(q, {"finalize", "release"})' => r = q
      BY <2>5 DEF At, Job
    <3>2. forced \in [Runs -> BOOLEAN]
      BY <1>0 DEF TypeOK
    <3>3. /\ r = q => forced'[q]
          /\ r # q => forced'[q] = forced[q]
      BY <2>2, <2>5, <3>2
    <3> QED BY <1>0, <2>2, <2>3, <2>5, <3>1, <3>3 DEF EndOpen
  <2> QED BY <2>1, <2>4, <2>5
<1>12. CASE Open(b)
  <2>1. /\ UNCHANGED <<row, task, live, forced>> /\ job[b] = Nothing
        /\ job' = job \/ job'[b] = Job("rows", NoRun, "none", {r \in Runs : row[r] = "running"})
    BY <1>0, <1>12 DEF Open, Idle
  <2>2. ~At(q, {"release"}) /\ (job' = job \/ job'[b].do \notin {"finalize", "release"})
    BY <2>1 DEF At, Nothing, Job
  <2> QED BY <1>1, <2>1, <2>2
<1>13. CASE \E how \in {"killed", "exited"} : Dies(b, how)
  <2>1. task'[q] = "over" /\ ~live'[q] /\ job'[b] = Nothing
    BY <1>0, <1>13 DEF Dies
  <2> QED BY <2>1 DEF EndOpen
<1> QED BY <1>3, <1>4, <1>5, <1>6, <1>7, <1>8, <1>9, <1>10, <1>11, <1>12, <1>13
        DEF StepOf, LoopStep, Resume, Exit, Killed

LEMMA OnceAlways == ASSUME OneMinder PROVE Spec => []OnceInv
<1>1. Init => OnceInv
  <2> SUFFICES ASSUME Init PROVE OnceInv
    OBVIOUS
  <2>1. \A b \in Backends : EndsOnce(b)
    BY DEF Init, EndsOnce, Nothing
  <2>2. \A r \in Runs : EndOpen(r)
    BY OwnersAssumption DEF Init, EndOpen, At, Nothing
  <2> QED BY <2>1, <2>2, LifeInit DEF OnceInv
<1>2. OnceInv /\ [Next]_vars => OnceInv'
  <2> SUFFICES ASSUME OnceInv, [Next]_vars PROVE OnceInv'
    OBVIOUS
  <2>1. LifeInv'
    BY LifeNext DEF OnceInv
  <2>2. CASE UNCHANGED vars
    BY <2>1, <2>2 DEF OnceInv, vars, EndsOnce, EndOpen, At, OwnerGone, Swept, Lost, Minds
  <2>3. ASSUME NEW b \in Backends, StepOf(b) PROVE OnceInv'
    <3>1. /\ \A c \in Backends \ {b} : EndsOnce(c)'
          /\ \A q \in Runs : Home[q] # b => EndOpen(q)'
      BY <2>3, OthersOnce
    <3>2. EndsOnce(b)' /\ \A q \in Runs : Home[q] = b => EndOpen(q)'
      BY <2>3, OwnEnd, OwnOpen
    <3> QED BY <2>1, <3>1, <3>2 DEF OnceInv
  <2> QED BY <2>2, <2>3, NextIsStep DEF OnceInv
<1> QED BY <1>1, <1>2, PTL DEF Spec

\* The terminal status of a run is written once: neither the callback of a task that was finalised
\* by force nor a reconciliation that began before the end replaces it, as long as no two other
\* backends watch over the owner: _finalize_lineage_run, consume_forced, release_run and
\* reconcile_interrupted_runs.
THEOREM RunsEndOnce == ASSUME OneMinder PROVE Spec => TerminalIsFinal
<1>1. OnceInv /\ [Next]_vars => [\A r \in Runs : row[r] \in Statuses => row'[r] = row[r]]_vars
  <2> SUFFICES ASSUME OnceInv, [Next]_vars, NEW r \in Runs, row[r] \in Statuses, ~UNCHANGED vars
               PROVE  row'[r] = row[r]
    OBVIOUS
  <2> QED BY NextIsStep, RowWritten
<1> QED BY <1>1, OnceAlways, PTL DEF Spec, TerminalIsFinal
=============================================================================
