-------------------------- MODULE RunFromHereProofs --------------------------
(***************************************************************************)
(* Proofs about RunFromHere, for every workflow and any number of runs:    *)
(* what retention leaves on disk, what the artifacts are computed from and *)
(* when a run from a block may reuse them.                                 *)
(***************************************************************************)
EXTENDS RunFromHere, WorkflowDagProofs

\* A clean completed run after run q.
Superseded(q) == \E r \in Runs : r > q /\ status[r] = "completed"

\* The part of the type invariant the argument needs.
StoreTypes ==
    /\ status \in [Runs -> {"none", "running", "completed", "degraded", "failed"}]
    /\ run \in Runs \cup {NoRun} /\ keep \in Runs \cup {NoRun}
    /\ rows \subseteq Artifacts /\ doomed \subseteq Artifacts
    /\ DOMAIN disk = Artifacts /\ DOMAIN st = Blocks

\* No run is ahead of the last one, and a run that goes on is one.
RunsInOrder ==
    /\ \A r \in Runs : status[r] # "none" => r <= run
    /\ phase # "none" => run \in Runs

\* What the sweep is between its steps rests on a completed run, which never becomes
\* anything else.
SweepRests ==
    /\ keep # NoRun => status[keep] = "completed"
    /\ \A a \in doomed : Superseded(a[2])

\* A worker that writes has its artifact on disk, and so has a row, until a later run
\* supersedes it.
ResultsStay ==
    /\ phase = "executing" => \A b \in Blocks : st[b] = "RUNNING" => Exists(<<b, run>>)
    /\ \A a \in rows : Exists(a) \/ Superseded(a[2])

RetentionInv == StoreTypes /\ RunsInOrder /\ SweepRests /\ ResultsStay

-----------------------------------------------------------------------------
\* The invariant holds of an empty store.
LEMMA InitRetention == Init => RetentionInv
  BY BoundsAssumption DEF Init, RetentionInv, StoreTypes, RunsInOrder, SweepRests, ResultsStay, Runs, NoRun,
     Superseded, Exists, Artifacts

\* A step that completes no run and reopens none keeps what supersedes superseding.
LEMMA SupersededStays ==
  ASSUME NEW q, Superseded(q), \A r \in Runs : status[r] = "completed" => status'[r] = "completed"
  PROVE  Superseded(q)'
  BY DEF Superseded, Runs

\* RunEndsAs closes the runs that go on and touches no other.
LEMMA EndKeepsRetention ==
  ASSUME RetentionInv, NEW s \in {"completed", "degraded", "failed"}, RunEndsAs(s),
         UNCHANGED <<rows, disk>>,
         UNCHANGED <<keep, doomed>> \/ (keep' = NoRun /\ doomed' = {})
  PROVE  RetentionInv'
<1> USE DEF RetentionInv, StoreTypes, RunsInOrder, SweepRests, ResultsStay
<1>1. StoreTypes' /\ RunsInOrder'
  BY DEF RunEndsAs, Runs, NoRun, Artifacts
<1>2. \A r \in Runs : status[r] = "completed" => status'[r] = "completed"
  BY DEF RunEndsAs
<1>3. \A a \in doomed' : Superseded(a[2])'
  BY <1>2, SupersededStays
<1>4. SweepRests'
  BY <1>2, <1>3 DEF NoRun, Runs
<1>5. \A a \in rows' : Exists(a)' \/ Superseded(a[2])'
  BY <1>2, SupersededStays DEF Exists
<1>6. ResultsStay'
  BY <1>5 DEF RunEndsAs
<1> QED
  BY <1>1, <1>4, <1>6

-----------------------------------------------------------------------------
(* The actions.                                                            *)

LEMMA StartKeepsRetention ==
  ASSUME RetentionInv, NEW S, Start(S)
  PROVE  RetentionInv'
<1> USE DEF RetentionInv, StoreTypes, RunsInOrder, SweepRests, ResultsStay
<1>1. run + 1 \in Runs /\ status[run + 1] = "none"
  BY BoundsAssumption DEF Start, Runs, NoRun
<1>2. \A r \in Runs : status[r] = "completed" => status'[r] = "completed"
  BY <1>1 DEF Start
<1>3. StoreTypes' /\ RunsInOrder'
  BY <1>1 DEF Start, sweepVars, storeVars, blockVars, Runs, NoRun
<1>4. SweepRests'
  BY <1>2, SupersededStays DEF Start, sweepVars, NoRun, Runs
<1>5. ResultsStay'
  BY <1>2, SupersededStays DEF Start, storeVars, Exists
<1> QED
  BY <1>3, <1>4, <1>5

LEMMA BeginKeepsRetention ==
  ASSUME RetentionInv, Begin
  PROVE  RetentionInv'
<1>1. CASE Granted(runSet, Definitions(cfg))
  <2>1. \A b \in Blocks : st'[b] # "RUNNING"
    BY <1>1 DEF Begin, Terminal
  <2> QED
    BY <1>1, <2>1 DEF Begin, RetentionInv, StoreTypes, RunsInOrder, SweepRests, ResultsStay, Superseded,
       Exists, sweepVars, storeVars
<1>2. CASE ~Granted(runSet, Definitions(cfg))
  BY <1>2, EndKeepsRetention DEF Begin, sweepVars, storeVars
<1> QED
  BY <1>1, <1>2

\* A worker only adds to what is on disk.
LEMMA WorkerKeepsRetention ==
  ASSUME RetentionInv, NEW b \in Blocks, WorkerWrites(b)
  PROVE  RetentionInv'
<1> USE DEF RetentionInv, StoreTypes, RunsInOrder, SweepRests, ResultsStay
<1>1. phase = "executing" /\ run \in Runs /\ <<b, run>> \in Artifacts
  BY DEF WorkerWrites, Ready, Artifacts
<1>2. disk'[<<b, run>>] # {}
  BY <1>1 DEF WorkerWrites
<1>3. \A a \in Artifacts : Exists(a) => Exists(a)'
  BY <1>2 DEF WorkerWrites, Exists
<1>4. UNCHANGED <<status, run, phase, keep, doomed, rows>>
  BY DEF WorkerWrites, runVars, sweepVars
<1>5. StoreTypes' /\ RunsInOrder' /\ SweepRests'
  BY <1>4 DEF WorkerWrites, Superseded, Artifacts
<1>6. ASSUME NEW c \in Blocks, st'[c] = "RUNNING"
      PROVE  Exists(<<c, run>>)'
  <2>1. CASE c = b
    BY <1>2, <1>4, <2>1 DEF Exists
  <2>2. CASE c # b
    <3>1. st[c] = "RUNNING"
      BY <1>6, <2>2 DEF WorkerWrites
    <3> QED
      BY <1>1, <1>3, <1>4, <3>1 DEF Artifacts, Exists
  <2> QED
    BY <2>1, <2>2
<1>7. \A a \in rows' : Exists(a)' \/ Superseded(a[2])'
  BY <1>3, <1>4 DEF Superseded
<1>8. ResultsStay'
  BY <1>4, <1>6, <1>7 DEF Exists
<1> QED
  BY <1>5, <1>8

LEMMA BlockDoneKeepsRetention ==
  ASSUME RetentionInv, NEW b \in Blocks, BlockDone(b)
  PROVE  RetentionInv'
<1> USE DEF RetentionInv, StoreTypes, RunsInOrder, SweepRests, ResultsStay
<1>1. Exists(<<b, run>>) /\ <<b, run>> \in Artifacts
  BY DEF BlockDone, Artifacts
<1>2. UNCHANGED <<status, run, phase, keep, doomed, disk>>
  BY DEF BlockDone, runVars, sweepVars
<1>3. rows' \subseteq rows \cup {<<b, run>>}
  BY DEF BlockDone
<1>4. StoreTypes' /\ RunsInOrder' /\ SweepRests'
  BY <1>1, <1>2, <1>3 DEF BlockDone, Superseded
<1>5. \A a \in rows' : Exists(a)' \/ Superseded(a[2])'
  BY <1>1, <1>2, <1>3 DEF Superseded, Exists
<1>6. \A c \in Blocks : st'[c] = "RUNNING" => st[c] = "RUNNING"
  BY DEF BlockDone
<1>7. ResultsStay'
  BY <1>2, <1>5, <1>6 DEF Exists
<1> QED
  BY <1>4, <1>7

LEMMA BlockFailsKeepsRetention ==
  ASSUME RetentionInv, NEW b \in Blocks, BlockFails(b)
  PROVE  RetentionInv'
<1> USE DEF RetentionInv, StoreTypes, RunsInOrder, SweepRests, ResultsStay
<1>1. UNCHANGED <<status, run, phase, keep, doomed, rows, disk>>
  BY DEF BlockFails, runVars, sweepVars, storeVars
<1>2. DOMAIN st' = Blocks /\ \A c \in Blocks : st'[c] = "RUNNING" => st[c] = "RUNNING"
  BY DEF BlockFails
<1> QED
  BY <1>1, <1>2 DEF Superseded, Exists

\* The plan holds only what the retained run supersedes.
LEMMA ScanKeepsRetention ==
  ASSUME RetentionInv, SweepScans
  PROVE  RetentionInv'
<1> USE DEF RetentionInv, StoreTypes, RunsInOrder, SweepRests, ResultsStay
<1>1. keep \in Runs /\ status[keep] = "completed"
  BY DEF SweepScans
<1>2. \A a \in Candidates(keep) : a \in Artifacts /\ Superseded(a[2])
  BY <1>1 DEF Candidates, Superseded, Artifacts, Runs
<1>3. UNCHANGED <<status, run, phase, rows, disk, st>>
  BY DEF SweepScans, runVars, blockVars, storeVars
<1>4. keep' = NoRun /\ doomed' = doomed \cup Candidates(keep)
  BY DEF SweepScans
<1> QED
  BY <1>2, <1>3, <1>4 DEF Superseded, Exists

\* What is reclaimed was planned, so it is superseded; and the artifact of a worker that
\* writes is of the last run, which nothing supersedes.
LEMMA ReclaimKeepsRetention ==
  ASSUME RetentionInv, NEW a \in Artifacts, Reclaim(a)
  PROVE  RetentionInv'
<1> USE DEF RetentionInv, StoreTypes, RunsInOrder, SweepRests, ResultsStay
<1>1. UNCHANGED <<status, run, phase, rows, st, keep>> /\ doomed' \subseteq doomed
  BY DEF Reclaim, runVars, blockVars
<1>2. DOMAIN disk' = Artifacts /\ \A c \in Artifacts : c # a => disk'[c] = disk[c]
  BY DEF Reclaim
<1>3. Superseded(a[2])
  BY DEF Reclaim
<1>4. StoreTypes' /\ RunsInOrder' /\ SweepRests'
  BY <1>1, <1>2 DEF Superseded
<1>5. \A c \in rows' : Exists(c)' \/ Superseded(c[2])'
  BY <1>1, <1>2, <1>3 DEF Superseded, Exists
<1>6. ASSUME phase = "executing", NEW b \in Blocks, st[b] = "RUNNING"
      PROVE  Exists(<<b, run>>)'
  <2>1. run \in Runs /\ <<b, run>> \in Artifacts /\ Exists(<<b, run>>)
    BY <1>6 DEF Artifacts
  <2>2. <<b, run>> # a
    BY <1>3, <2>1 DEF Superseded, Runs
  <2> QED
    BY <1>1, <1>2, <2>1, <2>2 DEF Exists
<1>7. ResultsStay'
  BY <1>1, <1>5, <1>6 DEF Exists
<1> QED
  BY <1>4, <1>7

LEMMA StepKeepsRetention == RetentionInv /\ [Next]_vars => RetentionInv'
<1> SUFFICES ASSUME RetentionInv, [Next]_vars
             PROVE  RetentionInv'
  OBVIOUS
<1> USE DEF RetentionInv, StoreTypes, RunsInOrder, SweepRests, ResultsStay
<1>1. CASE UNCHANGED vars
  BY <1>1 DEF vars, Superseded, Exists
<1>2. CASE Rest
  BY <1>2 DEF Rest, vars, Superseded, Exists
<1>3. CASE Begin
  BY <1>3, BeginKeepsRetention
<1>4. CASE RunEnds
  <2>1. Outcome \in {"completed", "degraded", "failed"}
    BY DEF Outcome
  <2> QED
    BY <1>4, <2>1, EndKeepsRetention DEF RunEnds, sweepVars, storeVars
<1>5. CASE Crash
  BY <1>5, EndKeepsRetention DEF Crash, storeVars
<1>6. CASE SweepStarts
  BY <1>6 DEF SweepStarts, Retained, runVars, blockVars, storeVars, Superseded, Exists
<1>7. CASE SweepScans
  BY <1>7, ScanKeepsRetention
<1>8. ASSUME NEW S, Start(S)
      PROVE  RetentionInv'
  BY <1>8, StartKeepsRetention
<1>9. ASSUME NEW b \in Blocks, Edit(b) \/ Recode(b)
      PROVE  RetentionInv'
  BY <1>9 DEF Edit, Recode, runVars, blockVars, sweepVars, storeVars, Superseded, Exists
<1>10. ASSUME NEW b \in Blocks, WorkerWrites(b) \/ BlockDone(b) \/ BlockFails(b)
       PROVE  RetentionInv'
  BY <1>10, WorkerKeepsRetention, BlockDoneKeepsRetention, BlockFailsKeepsRetention
<1>11. ASSUME NEW a \in Artifacts, Reclaim(a)
       PROVE  RetentionInv'
  BY <1>11, ReclaimKeepsRetention
<1> QED
  BY <1>1, <1>2, <1>3, <1>4, <1>5, <1>6, <1>7, <1>8, <1>9, <1>10, <1>11 DEF Next

LEMMA RetentionInvariant == Spec => []RetentionInv
  BY InitRetention, StepKeepsRetention, PTL DEF Spec

-----------------------------------------------------------------------------
\* "Retention always leaves one complete run on disk" (core/lineage/retention.py): what
\* the last clean completed run recorded is there, whatever sweeps, runs, failures and
\* crashes there were.
THEOREM LastGoodRunNeverReclaimed == Spec => []LastGoodRunStays
<1>1. RetentionInv => LastGoodRunStays
  BY DEF RetentionInv, StoreTypes, ResultsStay, LastGoodRunStays, Retained, Superseded, Runs, Artifacts
<1> QED
  BY <1>1, RetentionInvariant, PTL

\* An artifact leaves the disk only when a later run has completed cleanly: a failed,
\* interrupted or badly recorded run supersedes nothing, however its steps interleave
\* with the sweep's.
THEOREM NothingUnsupersededReclaimed == Spec => OnlySupersededReclaimed
<1> DEFINE Step == \A a \in Artifacts : Exists(a) /\ disk'[a] = {} => \E r \in Runs : r > a[2] /\ status[r] = "completed"
<1>1. RetentionInv /\ [Next]_vars => Step \/ UNCHANGED vars
  <2> SUFFICES ASSUME RetentionInv, Next, NEW a \in Artifacts, Exists(a), disk'[a] = {}
               PROVE  Superseded(a[2])
    BY DEF Superseded
  <2>1. disk # disk'
    BY DEF Exists
  <2>2. CASE \E d \in Artifacts : Reclaim(d)
    BY <2>2 DEF Reclaim, Exists, RetentionInv, StoreTypes, SweepRests
  <2>3. CASE \E b \in Blocks : WorkerWrites(b)
    <3>1. PICK b \in Blocks : WorkerWrites(b)
      BY <2>3
    <3>2. DOMAIN disk = Artifacts
      BY DEF RetentionInv, StoreTypes
    <3>3. a # <<b, run>> => disk'[a] = disk[a]
      BY <3>1, <3>2 DEF WorkerWrites
    <3>4. a = <<b, run>> => <<b, <<cfg[b], code[b]>>, run>> \in disk'[a]
      BY <3>1, <3>2 DEF WorkerWrites
    <3> QED
      BY <3>3, <3>4 DEF Exists
  <2>4. ~(Rest \/ Begin \/ RunEnds \/ Crash \/ SweepStarts \/ SweepScans)
    BY <2>1 DEF Rest, Begin, RunEnds, Crash, SweepStarts, SweepScans, vars, storeVars
  <2>5. \A S : ~Start(S)
    BY <2>1 DEF Start, storeVars
  <2>6. \A b \in Blocks : ~(Edit(b) \/ Recode(b) \/ BlockDone(b) \/ BlockFails(b))
    BY <2>1 DEF Edit, Recode, BlockDone, BlockFails, storeVars
  <2> QED
    BY <2>2, <2>3, <2>4, <2>5, <2>6 DEF Next
<1>2. RetentionInv /\ [Next]_vars => [Step]_vars
  BY <1>1
<1> QED
  BY <1>2, RetentionInvariant, PTL DEF Spec, OnlySupersededReclaimed

-----------------------------------------------------------------------------
(* The types of the whole model.                                           *)

States   == {"IDLE", "RUNNING"} \cup Terminal
Statuses == {"none", "running", "completed", "degraded", "failed"}
Defs     == (0..1) \X (0..1)
Members  == Blocks \X Defs \X Runs
Refs     == [Blocks -> Runs \cup {NoRun}]

UserTypes ==
    config \in [Blocks -> 0..1] /\ code \in [Blocks -> 0..1] /\ events \in 0..MaxEvents
RunTypes ==
    /\ status \in [Runs -> Statuses] /\ run \in Runs \cup {NoRun}
    /\ phase \in {"none", "pending", "executing"} /\ (phase # "none" => run \in Runs)
    /\ runSet \subseteq Blocks /\ cfg \in [Blocks -> 0..1]
BlockTypes ==
    /\ st \in [Blocks -> States] /\ out \in Refs /\ lost \in BOOLEAN
    /\ ckpt.st \in [Blocks -> States] /\ ckpt.ref \in Refs
StorageTypes ==
    rows \subseteq Artifacts /\ doomed \subseteq Artifacts /\ keep \in Runs \cup {NoRun}
HereTypes == UserTypes /\ RunTypes /\ BlockTypes /\ StorageTypes

LEMMA InitHereTypes == Init => HereTypes
<1> SUFFICES ASSUME Init PROVE HereTypes
  OBVIOUS
<1>1. UserTypes /\ RunTypes
  BY BoundsAssumption DEF Init, UserTypes, RunTypes, Statuses
<1>2. BlockTypes /\ StorageTypes
  BY DEF Init, BlockTypes, StorageTypes, States, Refs
<1> QED BY <1>1, <1>2 DEF HereTypes

LEMMA EndTypes ==
  ASSUME HereTypes, NEW s \in {"completed", "degraded", "failed"}, RunEndsAs(s), ckpt' = ckpt
  PROVE  RunTypes' /\ BlockTypes'
<1> USE DEF HereTypes
<1>1. RunTypes'
  BY DEF RunEndsAs, RunTypes, Statuses
<1>2. BlockTypes'
  BY DEF RunEndsAs, BlockTypes, States, Refs
<1> QED BY <1>1, <1>2

LEMMA SaveTypes ==
  ASSUME HereTypes, st' \in [Blocks -> States], out' \in Refs, lost' \in BOOLEAN, Save(st', out') \/ ckpt' = ckpt
  PROVE  BlockTypes'
<1>1. ckpt'.st \in [Blocks -> States] /\ ckpt'.ref \in Refs
  BY DEF Save, HereTypes, BlockTypes
<1> QED BY <1>1 DEF BlockTypes

LEMMA StepHereTypes ==
  ASSUME HereTypes, [Next]_vars
  PROVE  HereTypes'
<1> USE DEF HereTypes, userVars, runVars, blockVars, sweepVars, storeVars
<1>0. MaxEvents \in Nat /\ MaxRuns \in Nat
  BY BoundsAssumption
<1>1. Counted => events' \in 0..MaxEvents
  BY <1>0 DEF Counted, UserTypes
<1>2. CASE UNCHANGED vars \/ Rest
  BY <1>2 DEF vars, Rest, UserTypes, RunTypes, BlockTypes, StorageTypes
<1>3. CASE Begin
  <2>1. UserTypes' /\ StorageTypes' /\ ckpt' = ckpt
    BY <1>3 DEF Begin, UserTypes, StorageTypes
  <2>2. CASE Granted(runSet, Definitions(cfg))
    <3>1. RunTypes'
      BY <1>3, <2>2 DEF Begin, RunTypes
    <3>2. st' \in [Blocks -> States]
      BY <1>3, <2>2 DEF Begin, BlockTypes, States, Terminal
    <3>3. out' \in Refs /\ lost' = lost
      BY <1>3, <2>2 DEF Begin, BlockTypes, Refs
    <3> QED BY <2>1, <3>1, <3>2, <3>3 DEF BlockTypes
  <2>3. CASE ~Granted(runSet, Definitions(cfg))
    BY <1>3, <2>1, <2>3, EndTypes DEF Begin
  <2> QED BY <2>2, <2>3
<1>4. CASE RunEnds
  <2>1. Outcome \in {"completed", "degraded", "failed"}
    BY DEF Outcome
  <2>2. UserTypes' /\ StorageTypes' /\ ckpt' = ckpt
    BY <1>4 DEF RunEnds, UserTypes, StorageTypes
  <2> QED BY <1>4, <2>1, <2>2, EndTypes DEF RunEnds
<1>5. CASE Crash
  <2>1. UserTypes' /\ StorageTypes' /\ ckpt' = ckpt
    BY <1>1, <1>5 DEF Crash, UserTypes, StorageTypes
  <2> QED BY <1>5, <2>1, EndTypes DEF Crash
<1>6. CASE SweepStarts \/ SweepScans
  <2>1. UserTypes' /\ RunTypes' /\ BlockTypes'
    BY <1>6 DEF SweepStarts, SweepScans, UserTypes, RunTypes, BlockTypes
  <2>2. StorageTypes'
    BY <1>6 DEF SweepStarts, SweepScans, StorageTypes, Candidates
  <2> QED BY <2>1, <2>2
<1>7. ASSUME NEW S \in SUBSET Blocks, Start(S)
      PROVE  HereTypes'
  <2>1. run + 1 \in Runs
    BY <1>0, <1>7 DEF Start, RunTypes, Runs, NoRun
  <2>2. RunTypes'
    BY <1>7, <2>1 DEF Start, RunTypes, UserTypes, Statuses
  <2> QED BY <1>7, <2>2 DEF Start, UserTypes, BlockTypes, StorageTypes
<1>8. ASSUME NEW b \in Blocks, Edit(b) \/ Recode(b)
      PROVE  HereTypes'
  <2>1. UserTypes'
    BY <1>1, <1>8 DEF Edit, Recode, UserTypes
  <2> QED BY <1>8, <2>1 DEF Edit, Recode, RunTypes, BlockTypes, StorageTypes
<1>9. ASSUME NEW b \in Blocks, WorkerWrites(b) \/ BlockDone(b) \/ BlockFails(b)
      PROVE  HereTypes'
  <2>1. RunTypes' /\ UNCHANGED <<config, code, doomed, keep>>
    BY <1>9 DEF WorkerWrites, BlockDone, BlockFails, RunTypes
  <2>2. events' \in 0..MaxEvents
    BY <1>1, <1>9 DEF WorkerWrites, BlockDone, BlockFails, UserTypes
  <2>3. phase = "executing" /\ run \in Runs
    BY <1>9 DEF WorkerWrites, BlockDone, BlockFails, Ready, RunTypes
  <2>4. rows' \subseteq Artifacts
    BY <1>9, <2>3 DEF WorkerWrites, BlockDone, BlockFails, StorageTypes, Artifacts
  <2>5. st' \in [Blocks -> States]
    BY <1>9 DEF WorkerWrites, BlockDone, BlockFails, BlockTypes, States, Terminal
  <2>6. out' \in Refs
    BY <1>9, <2>3 DEF WorkerWrites, BlockDone, BlockFails, BlockTypes, Refs
  <2>7. lost' \in BOOLEAN
    BY <1>9 DEF WorkerWrites, BlockDone, BlockFails, BlockTypes
  <2>8. Save(st', out') \/ ckpt' = ckpt
    <3>1. CASE BlockFails(b)
      BY <3>1 DEF BlockFails
    <3>2. CASE WorkerWrites(b) \/ BlockDone(b)
      BY <3>2 DEF WorkerWrites, BlockDone
    <3> QED BY <1>9, <3>1, <3>2
  <2>9. BlockTypes'
    BY <2>5, <2>6, <2>7, <2>8, SaveTypes
  <2> QED BY <2>1, <2>2, <2>4, <2>9 DEF UserTypes, StorageTypes
<1>10. ASSUME NEW a \in Artifacts, Reclaim(a)
       PROVE  HereTypes'
  BY <1>1, <1>10 DEF Reclaim, UserTypes, RunTypes, BlockTypes, StorageTypes
<1>11. \A t \in Blocks : RunSet(t) \subseteq Blocks
  BY ReachableWithin DEF RunSet, Descendants, Downstream
<1> QED BY <1>2, <1>3, <1>4, <1>5, <1>6, <1>7, <1>8, <1>9, <1>10, <1>11 DEF Next

\* Every variable has its type, for every workflow and any number of runs and events.
THEOREM HereTypeCorrect == Spec => []TypeOK
<1>1. Init => HereTypes
  BY InitHereTypes
<1>2. HereTypes /\ [Next]_vars => HereTypes'
  BY StepHereTypes
<1>3. HereTypes => TypeOK
  <2> SUFFICES ASSUME HereTypes PROVE TypeOK
    OBVIOUS
  <2>1. lost \in BOOLEAN
    BY DEF HereTypes, BlockTypes
  <2> QED BY <2>1 DEF HereTypes, UserTypes, RunTypes, BlockTypes, StorageTypes, States, Statuses, Refs, TypeOK
<1> QED BY <1>1, <1>2, <1>3, PTL DEF Spec

-----------------------------------------------------------------------------
(* A run and what it carries along.                                        *)

\* What runs is everything downstream of what runs; what does not run hands over the
\* output the checkpoint refers to, and a block that has started has all its inputs.
Carried ==
    /\ phase # "none" => \A b \in runSet : Descendants[b] \subseteq runSet
    /\ phase # "executing" => prints = Unset /\ \A b \in Blocks : out[b] = NoRun
    /\ phase = "executing" =>
           /\ \A b \in runSet : out[b] = IF st[b] = "DONE" THEN run ELSE NoRun
           /\ \A b \in Blocks \ runSet : st[b] \in Terminal /\ out[b] = ckpt.ref[b] /\ out[b] # run
           /\ \A b \in Required(runSet) : out[b] # NoRun
           /\ \A b \in runSet : st[b] \in {"RUNNING", "DONE"} => \A p \in Preds(b) : out[p] # NoRun

\* The checkpoint refers to no output ahead of the run, and to every output the run has.
Saved ==
    /\ \A b \in Blocks : ckpt.ref[b] <= run /\ (phase = "pending" => ckpt.ref[b] # run)
    /\ phase = "executing" =>
           \A b \in Blocks : (out[b] # NoRun => ckpt.ref[b] = out[b]) /\ (ckpt.ref[b] = run => out[b] = run)

-----------------------------------------------------------------------------
(* What the artifacts were computed from.                                  *)

\* An artifact was computed from its block and everything upstream of it, each once, and
\* one block computed one thing in one run.  What was computed in the present run is
\* the work of a block that has started.
Computed ==
    /\ disk \in [Artifacts -> SUBSET Members]
    /\ \A a \in Artifacts : disk[a] # {} => {m[1] : m \in disk[a]} = Upstream[a[1]] \cup {a[1]}
    /\ \A a \in Artifacts : \A m \in disk[a] :
           /\ m[3] <= run /\ (phase = "pending" => m[3] # run)
           /\ phase = "executing" /\ m[3] = run => st[m[1]] # "IDLE"
    /\ \A a, c \in Artifacts : \A m \in disk[a], n \in disk[c] : m[1] = n[1] /\ m[3] = n[3] => m = n

\* The outputs the checkpoint refers to, those the run has and those its workers write were
\* computed from one another.
FromOut(b) == \A m \in disk[<<b, out[b]>>] : m[3] = out[m[1]]
FromRef(b) == \A m \in disk[<<b, ckpt.ref[b]>>] : m[3] = ckpt.ref[m[1]]
FromInputs(b) == \A m \in disk[<<b, run>>] : m[3] = IF m[1] = b THEN run ELSE out[m[1]]
Coherent ==
    /\ \A b \in Blocks : ckpt.ref[b] # NoRun => FromRef(b)
    /\ phase = "executing" =>
           \A b \in Blocks : (out[b] # NoRun => FromOut(b)) /\ (st[b] = "RUNNING" => FromInputs(b))
    /\ OneGeneration

HereInv == HereTypes /\ Carried /\ Saved /\ Computed /\ Coherent

-----------------------------------------------------------------------------
(* Upstream and downstream, as the model tabulates them.                   *)

LEMMA UpstreamStep ==
  ASSUME NEW b \in Blocks
  PROVE  /\ Upstream[b] \subseteq Blocks /\ b \notin Upstream[b]
         /\ \A a \in Blocks : a \in Upstream[b] <=> \E p \in Preds(b) : a = p \/ a \in Upstream[p]
<1>1. \A a \in Blocks : a \in Upstream[b] <=> \E p \in Preds(b) : a = p \/ a \in Upstream[p]
  <2>1. Ancestors(b) = UNION {Ancestors(p) \cup {p} : p \in Preds(b)}
    BY AncestorsStep
  <2>2. \A a : a \in Ancestors(b) <=> \E p \in Preds(b) : a \in Ancestors(p) \cup {p}
    BY <2>1
  <2>3. \A p \in Preds(b) : p \in Blocks /\ Upstream[p] = Ancestors(p)
    BY DEF Preds, Upstream
  <2>4. Upstream[b] = Ancestors(b)
    BY DEF Upstream
  <2> QED BY <2>2, <2>3, <2>4
<1>2. b \notin Downstream(b)
  BY DownstreamIsLater, RankAssumption
<1> QED BY <1>1, <1>2 DEF Upstream, Ancestors

\* The blocks a run may cover: with each block everything downstream of it.
LEMMA RunSetsClosed ==
  ASSUME NEW S, S = Blocks \/ \E t \in Blocks : S = RunSet(t)
  PROVE  S \subseteq Blocks /\ \A b \in S : Descendants[b] \subseteq S
<1>1. \A b \in Blocks : Descendants[b] \subseteq Blocks
  BY ReachableWithin DEF Descendants, Downstream
<1>2. ASSUME NEW t \in Blocks PROVE \A b \in RunSet(t) : Descendants[b] \subseteq RunSet(t)
  <2> SUFFICES ASSUME NEW b \in RunSet(t), NEW c \in Descendants[b] PROVE c \in RunSet(t)
    OBVIOUS
  <2>1. b \in Blocks /\ c \in Downstream(b) /\ (b = t \/ b \in Downstream(t))
    BY <1>1 DEF RunSet, Descendants
  <2> QED BY <2>1, DownstreamTransitive DEF RunSet, Descendants
<1> QED BY <1>1, <1>2 DEF RunSet

\* What is upstream of a block that does not run does not run.
LEMMA NothingUpstreamRuns ==
  ASSUME NEW S \in SUBSET Blocks, \A b \in S : Descendants[b] \subseteq S,
         NEW b \in Blocks \ S, NEW a \in Upstream[b] \cup {b}
  PROVE  a \in Blocks \ S
  BY DEF Upstream, Ancestors, Descendants

-----------------------------------------------------------------------------
(* The steps.                                                              *)

LEMMA MembersTyped ==
  ASSUME Computed, NEW a \in Artifacts, NEW m \in disk[a]
  PROVE  m \in Members /\ m[1] \in Blocks /\ m[3] \in Runs /\ m[3] # NoRun
<1>1. m \in Members
  BY DEF Computed
<1> QED BY <1>1 DEF Members, Runs, NoRun

LEMMA InitHere == Init => HereInv
<1> SUFFICES ASSUME Init PROVE HereInv
  OBVIOUS
<1>1. HereTypes
  BY InitHereTypes
<1>2. Carried /\ Saved
  BY DEF Init, Carried, Saved, NoRun
<1>3. Computed /\ Coherent
  BY DEF Init, Computed, Coherent, FromRef, OneGeneration, NoRun
<1> QED BY <1>1, <1>2, <1>3 DEF HereInv

\* Steps of the user and of the sweep change nothing of it.
LEMMA QuietHere ==
  ASSUME HereInv, UNCHANGED <<run, phase, runSet, st, out, prints, ckpt, disk>>
  PROVE  Carried' /\ Saved' /\ Computed' /\ Coherent'
<1> USE DEF HereInv
<1>1. Carried' /\ Saved'
  BY DEF Carried, Saved, Required
<1>2. Computed'
  BY DEF Computed
<1>3. Coherent'
  BY DEF Coherent, FromRef, FromOut, FromInputs, OneGeneration
<1> QED BY <1>1, <1>2, <1>3

LEMMA StartHere ==
  ASSUME HereInv, NEW S \in SUBSET Blocks, \A b \in S : Descendants[b] \subseteq S, Start(S)
  PROVE  Carried' /\ Saved' /\ Computed' /\ Coherent'
<1> USE DEF HereInv, blockVars, storeVars
<1>1. run \in Nat /\ run' = run + 1 /\ phase = "none" /\ phase' = "pending" /\ runSet' = S
  BY BoundsAssumption DEF Start, HereTypes, RunTypes, Runs, NoRun
<1>2. UNCHANGED <<prints, st, out, ckpt, disk>>
  BY DEF Start
<1>3. \A b \in Blocks : ckpt.ref[b] \in Nat
  BY BoundsAssumption DEF HereTypes, BlockTypes, Refs, Runs, NoRun
<1>4. Carried' /\ Saved'
  BY <1>1, <1>2, <1>3 DEF Carried, Saved
<1>5. \A a \in Artifacts : \A m \in disk[a] : m[3] \in Nat
  BY MembersTyped DEF Runs
<1>6. Computed'
  <2>1. \A a \in Artifacts : \A m \in disk[a] : m[3] <= run + 1 /\ m[3] # run + 1
    BY <1>1, <1>5 DEF Computed
  <2> QED BY <1>1, <1>2, <2>1 DEF Computed
<1>7. Coherent'
  BY <1>1, <1>2 DEF Coherent, FromRef, OneGeneration
<1> QED BY <1>4, <1>6, <1>7

LEMMA EndHere ==
  ASSUME HereInv, NEW s, RunEndsAs(s), UNCHANGED <<ckpt, disk>>
  PROVE  Carried' /\ Saved' /\ Computed' /\ Coherent'
<1> USE DEF HereInv
<1>1. Carried' /\ Saved'
  BY DEF RunEndsAs, Carried, Saved
<1>2. Computed'
  BY DEF RunEndsAs, Computed
<1>3. Coherent'
  BY DEF RunEndsAs, Coherent, FromRef, OneGeneration
<1> QED BY <1>1, <1>2, <1>3

\* The run takes over what the checkpoint refers to for the blocks that do not run; what
\* those outputs were computed from does not run either.
LEMMA BeginHere ==
  ASSUME HereInv, Begin
  PROVE  Carried' /\ Saved' /\ Computed' /\ Coherent'
<1> USE DEF HereInv
<1>1. CASE ~Granted(runSet, Definitions(cfg))
  BY <1>1, EndHere DEF Begin, storeVars
<1>2. CASE Granted(runSet, Definitions(cfg))
  <2>1. phase = "pending" /\ phase' = "executing" /\ UNCHANGED <<run, runSet, prints, ckpt, disk>>
    BY <1>2 DEF Begin, storeVars
  <2>2. \A b \in runSet : st'[b] = "IDLE" /\ out'[b] = NoRun
    BY <1>2 DEF Begin, HereTypes, RunTypes
  <2>3. \A b \in Blocks \ runSet : st'[b] \in Terminal /\ out'[b] = ckpt.ref[b]
    BY <1>2 DEF Begin, Terminal
  <2>4. runSet \subseteq Blocks /\ run \in Runs /\ \A b \in runSet : Descendants[b] \subseteq runSet
    BY <2>1 DEF HereTypes, RunTypes, Carried
  <2>5. \A b \in Required(runSet) : b \in Blocks \ runSet /\ ckpt.ref[b] # NoRun
    BY <1>2 DEF Granted, Reusable, OnDisk, Required
  <2>6. run # NoRun
    BY <2>4 DEF Runs, NoRun
  <2>7. Carried'
    <3>1. Required(runSet') = Required(runSet)
      BY <2>1
    <3> QED BY <2>1, <2>2, <2>3, <2>4, <2>5, <3>1 DEF Carried, Saved
  <2>8. Saved'
    BY <2>1, <2>2, <2>3, <2>4, <2>6 DEF Saved
  <2>9. Computed'
    BY <2>1 DEF Computed
  <2>10. ASSUME NEW b \in Blocks, out'[b] # NoRun PROVE FromOut(b)'
    <3>1. b \in Blocks \ runSet /\ out'[b] = ckpt.ref[b] /\ FromRef(b)
      BY <2>2, <2>3, <2>10 DEF Coherent
    <3>2. <<b, ckpt.ref[b]>> \in Artifacts
      BY <2>10, <3>1 DEF HereTypes, BlockTypes, Refs, Artifacts
    <3> SUFFICES ASSUME NEW m \in disk[<<b, ckpt.ref[b]>>] PROVE m[3] = out'[m[1]]
      BY <2>1, <3>1 DEF FromOut
    <3>3. m[1] \in Upstream[b] \cup {b}
      BY <3>2 DEF Computed
    <3>4. m[1] \in Blocks \ runSet
      BY <2>4, <3>1, <3>3, NothingUpstreamRuns
    <3> QED BY <2>3, <3>1, <3>4 DEF FromRef
  <2>11. \A b \in Blocks : st'[b] # "RUNNING"
    BY <2>2, <2>3 DEF Terminal
  <2>12. \A b \in Blocks : ckpt.ref[b] # NoRun => FromRef(b)'
    BY <2>1 DEF Coherent, FromRef
  <2>13. Coherent'
    BY <2>1, <2>10, <2>11, <2>12 DEF Coherent, OneGeneration
  <2> QED BY <2>7, <2>8, <2>9, <2>13
<1> QED BY <1>1, <1>2

\* A worker computes its artifact from the outputs of the run, and every one of them from
\* the outputs of the run: b is computed from no two results of one block.
LEMMA WorkerHere ==
  ASSUME HereInv, NEW b \in Blocks, WorkerWrites(b)
  PROVE  Carried' /\ Saved' /\ Computed' /\ Coherent'
<1> DEFINE made == <<b, <<cfg[b], code[b]>>, run>>
           mine == {made} \cup UNION {disk[a] : a \in Inputs(b)}
           file == <<b, run>>
<1> USE DEF HereInv, runVars
<1>1. phase = "executing" /\ UNCHANGED <<run, phase, runSet, prints, out, ckpt>>
  BY DEF WorkerWrites, Ready
<1>2. run \in Runs /\ run # NoRun /\ file \in Artifacts /\ runSet \subseteq Blocks
  BY <1>1 DEF HereTypes, RunTypes, Artifacts, Runs, NoRun
<1>3. st[b] = "IDLE" /\ st' = [st EXCEPT ![b] = "RUNNING"] /\ \A p \in Preds(b) : st[p] = "DONE" /\ p \in Blocks
  BY DEF WorkerWrites, Ready, Preds
<1>4. b \in runSet /\ out[b] = NoRun
  BY <1>1, <1>3 DEF Carried, Terminal
<1>5. \A p \in Preds(b) : out[p] \in Runs /\ out[p] # NoRun
  <2> SUFFICES ASSUME NEW p \in Preds(b) PROVE out[p] # NoRun
    BY <1>3 DEF HereTypes, BlockTypes, Refs
  <2>1. CASE p \in runSet
    BY <1>1, <1>2, <1>3, <2>1 DEF Carried
  <2>2. CASE p \notin runSet
    BY <1>1, <1>3, <1>4, <2>2 DEF Carried, Required
  <2> QED BY <2>1, <2>2
<1>6. disk' = [disk EXCEPT ![file] = mine]
  BY DEF WorkerWrites
<1>7. disk'[file] = mine /\ \A a \in Artifacts : a # file => disk'[a] = disk[a]
  BY <1>2, <1>6 DEF Computed
<1>8. made \in Members
  BY <1>2 DEF HereTypes, UserTypes, RunTypes, Members, Defs
<1>9. \A p \in Preds(b) : /\ <<p, out[p]>> \in Artifacts /\ disk[<<p, out[p]>>] # {}
                          /\ {m[1] : m \in disk[<<p, out[p]>>]} = Upstream[p] \cup {p}
                          /\ FromOut(p)
  <2> SUFFICES ASSUME NEW p \in Preds(b)
               PROVE  /\ <<p, out[p]>> \in Artifacts /\ disk[<<p, out[p]>>] # {}
                      /\ {m[1] : m \in disk[<<p, out[p]>>]} = Upstream[p] \cup {p}
                      /\ FromOut(p)
    OBVIOUS
  <2>1. <<p, out[p]>> \in Artifacts
    BY <1>3, <1>5 DEF Artifacts
  <2>2. disk[<<p, out[p]>>] # {}
    BY DEF WorkerWrites, InputsExist, Inputs, Exists
  <2>3. {m[1] : m \in disk[<<p, out[p]>>]} = Upstream[<<p, out[p]>>[1]] \cup {<<p, out[p]>>[1]}
    BY <2>1, <2>2 DEF Computed
  <2>4. FromOut(p)
    BY <1>1, <1>3, <1>5 DEF Coherent
  <2> QED BY <2>1, <2>2, <2>3, <2>4
<1>10. \A m \in mine : m = made \/ \E p \in Preds(b) : m \in disk[<<p, out[p]>>]
  BY DEF Inputs
<1>11. \A m : m = made \/ (\E p \in Preds(b) : m \in disk[<<p, out[p]>>]) => m \in mine
  BY DEF Inputs
<1> HIDE DEF made, mine, file
<1>12. made[1] = b /\ made[3] = run
  BY DEF made
<1>13. \A m \in mine : \/ m = made
                       \/ \E p \in Preds(b) : /\ m \in disk[<<p, out[p]>>] /\ m \in Members
                                              /\ m[1] \in Upstream[b] /\ m[1] # b /\ m[3] = out[m[1]]
  <2> SUFFICES ASSUME NEW p \in Preds(b), NEW m \in disk[<<p, out[p]>>]
               PROVE  m \in Members /\ m[1] \in Upstream[b] /\ m[1] # b /\ m[3] = out[m[1]]
    BY <1>10
  <2>1. m \in Members /\ m[1] \in Blocks
    BY <1>9, MembersTyped
  <2>2. m[1] \in Upstream[p] \cup {p}
    BY <1>9
  <2>3. m[3] = out[m[1]]
    BY <1>9 DEF FromOut
  <2> QED BY <2>1, <2>2, <2>3, UpstreamStep
<1>14. mine \in SUBSET Members /\ made \in mine
  BY <1>8, <1>11, <1>13
<1>15. {m[1] : m \in mine} = Upstream[b] \cup {b}
  <2>1. \A m \in mine : m[1] \in Upstream[b] \cup {b}
    BY <1>12, <1>13
  <2>2. ASSUME NEW a \in Upstream[b] \cup {b} PROVE \E m \in mine : m[1] = a
    <3>1. CASE a = b
      BY <1>12, <1>14, <3>1
    <3>2. CASE a \in Upstream[b]
      <4>1. PICK p \in Preds(b) : a = p \/ a \in Upstream[p]
        BY <3>2, UpstreamStep
      <4>2. \E m \in disk[<<p, out[p]>>] : m[1] = a
        BY <1>9, <4>1
      <4> QED BY <1>11, <4>2
    <3> QED BY <3>1, <3>2
  <2> QED BY <2>1, <2>2
<1>16. Carried'
  <2>1. Required(runSet') = Required(runSet)
    BY <1>1
  <2>2. \A c \in Blocks : c # b => st'[c] = st[c]
    BY <1>3 DEF HereTypes, BlockTypes
  <2>3. st'[b] = "RUNNING"
    BY <1>3 DEF HereTypes, BlockTypes
  <2> QED BY <1>1, <1>2, <1>4, <1>5, <2>1, <2>2, <2>3 DEF Carried
<1>17. Saved'
  BY <1>1 DEF Saved
<1>18. \A a \in Artifacts : \A m \in disk'[a] : m \in Members /\ (m = made \/ \E c \in Artifacts : m \in disk[c])
  <2> SUFFICES ASSUME NEW a \in Artifacts, NEW m \in disk'[a]
               PROVE  m \in Members /\ (m = made \/ \E c \in Artifacts : m \in disk[c])
    OBVIOUS
  <2>1. CASE a = file
    BY <1>7, <1>9, <1>13, <1>14, <2>1
  <2>2. CASE a # file
    BY <1>7, <2>2, MembersTyped
  <2> QED BY <2>1, <2>2
<1>19. \A c \in Artifacts : \A m \in disk[c] : m[3] = run => m[1] # b
  BY <1>1, <1>3, <1>4 DEF Computed
<1>20. Computed'
  <2>1. disk' \in [Artifacts -> SUBSET Members]
    BY <1>2, <1>6, <1>14 DEF Computed
  <2>2. \A a \in Artifacts : disk'[a] # {} => {m[1] : m \in disk'[a]} = Upstream[a[1]] \cup {a[1]}
    <3> SUFFICES ASSUME NEW a \in Artifacts, disk'[a] # {}
                 PROVE  {m[1] : m \in disk'[a]} = Upstream[a[1]] \cup {a[1]}
      OBVIOUS
    <3>1. CASE a = file
      BY <1>7, <1>15, <3>1 DEF file
    <3>2. CASE a # file
      BY <1>7, <3>2 DEF Computed
    <3> QED BY <3>1, <3>2
  <2>3. ASSUME NEW a \in Artifacts, NEW m \in disk'[a]
        PROVE  m[3] <= run /\ (m[3] = run => st'[m[1]] # "IDLE")
    <3>1. CASE m = made
      BY <1>2, <1>3, <1>12, <3>1 DEF HereTypes, BlockTypes, Runs
    <3>2. CASE \E c \in Artifacts : m \in disk[c]
      <4>1. PICK c \in Artifacts : m \in disk[c]
        BY <3>2
      <4>2. m[1] \in Blocks /\ m[3] <= run /\ (m[3] = run => st[m[1]] # "IDLE")
        BY <1>1, <4>1, MembersTyped DEF Computed
      <4> QED BY <1>3, <4>2 DEF HereTypes, BlockTypes
    <3> QED BY <1>18, <3>1, <3>2
  <2>4. ASSUME NEW a \in Artifacts, NEW c \in Artifacts, NEW m \in disk'[a], NEW n \in disk'[c],
               m[1] = n[1], m[3] = n[3]
        PROVE  m = n
    <3>1. m = made \/ \E e \in Artifacts : m \in disk[e]
      BY <1>18
    <3>2. n = made \/ \E e \in Artifacts : n \in disk[e]
      BY <1>18
    <3>3. CASE m = made /\ n # made
      BY <1>12, <1>19, <2>4, <3>2, <3>3
    <3>4. CASE m # made /\ n = made
      BY <1>12, <1>19, <2>4, <3>1, <3>4
    <3>5. CASE m # made /\ n # made
      BY <2>4, <3>1, <3>2, <3>5 DEF Computed
    <3> QED BY <3>3, <3>4, <3>5
  <2> QED BY <1>1, <2>1, <2>2, <2>3, <2>4 DEF Computed
<1>21. \A c \in Blocks : out[c] # NoRun => out[c] # run \/ c # b
  BY <1>4
<1>22. ASSUME NEW c \in Blocks, NEW r \in Runs, c # b \/ r # run
       PROVE  <<c, r>> \in Artifacts /\ disk'[<<c, r>>] = disk[<<c, r>>]
  BY <1>7, <1>22 DEF Artifacts, file
<1>23. ASSUME NEW c \in Blocks, ckpt.ref[c] # NoRun PROVE FromRef(c)'
  <2>1. ckpt.ref[c] \in Runs
    BY <1>23 DEF HereTypes, BlockTypes, Refs
  <2>2. c # b \/ ckpt.ref[c] # run
    BY <1>1, <1>2, <1>4 DEF Saved
  <2>3. FromRef(c)
    BY <1>23 DEF Coherent
  <2> QED BY <1>1, <1>22, <2>1, <2>2, <2>3 DEF FromRef
<1>24. ASSUME NEW c \in Blocks, out[c] # NoRun PROVE FromOut(c)'
  <2>1. out[c] \in Runs
    BY <1>24 DEF HereTypes, BlockTypes, Refs
  <2>2. FromOut(c)
    BY <1>1, <1>24 DEF Coherent
  <2> QED BY <1>1, <1>21, <1>22, <1>24, <2>1, <2>2 DEF FromOut
<1>25. \A m \in mine : m[3] = IF m[1] = b THEN run ELSE out[m[1]]
  BY <1>12, <1>13
<1>26. ASSUME NEW c \in Blocks, st'[c] = "RUNNING" PROVE FromInputs(c)'
  <2>1. CASE c = b
    BY <1>1, <1>7, <1>25, <2>1 DEF FromInputs, file
  <2>2. CASE c # b
    <3>1. FromInputs(c)
      BY <1>1, <1>3, <1>26, <2>2 DEF Coherent, HereTypes, BlockTypes
    <3> QED BY <1>1, <1>2, <1>22, <2>2, <3>1 DEF FromInputs
  <2> QED BY <2>1, <2>2
<1>27. OneGeneration'
  <2> SUFFICES ASSUME NEW a \in Artifacts, NEW m \in disk'[a], NEW n \in disk'[a], m[1] = n[1]
               PROVE  m = n
    BY DEF OneGeneration
  <2>1. CASE a = file
    <3>1. m[3] = n[3]
      BY <1>7, <1>25, <2>1
    <3> QED BY <1>20, <3>1 DEF Computed
  <2>2. CASE a # file
    BY <1>7, <2>2 DEF Coherent, OneGeneration
  <2> QED BY <2>1, <2>2
<1>28. Coherent'
  BY <1>1, <1>23, <1>24, <1>26, <1>27 DEF Coherent
<1> QED BY <1>16, <1>17, <1>20, <1>28

\* The result of b becomes the output of b, in the run and in the checkpoint.  Nothing
\* else in use was computed from an output of b, as b had none.
LEMMA DoneHere ==
  ASSUME HereInv, NEW b \in Blocks, BlockDone(b)
  PROVE  Carried' /\ Saved' /\ Computed' /\ Coherent'
<1> USE DEF HereInv, runVars
<1>1. phase = "executing" /\ UNCHANGED <<run, phase, runSet, disk>>
  BY DEF BlockDone
<1>2. run \in Runs /\ run # NoRun /\ <<b, run>> \in Artifacts /\ runSet \subseteq Blocks
  BY <1>1 DEF HereTypes, RunTypes, Artifacts, Runs, NoRun
<1>3. /\ st[b] = "RUNNING" /\ st'[b] = "DONE" /\ \A c \in Blocks : c # b => st'[c] = st[c]
      /\ out'[b] = run /\ \A c \in Blocks : c # b => out'[c] = out[c]
  BY DEF BlockDone, HereTypes, BlockTypes, Refs
<1>4. ckpt'.ref = out'
  BY DEF BlockDone, Save
<1>5. b \in runSet /\ out[b] = NoRun
  BY <1>1, <1>3 DEF Carried, Terminal
<1>6. Carried'
  <2>1. Required(runSet') = Required(runSet) /\ b \notin Required(runSet)
    BY <1>1, <1>5 DEF Required
  <2>2. \A c \in Blocks : out[c] # NoRun => out'[c] # NoRun
    BY <1>3, <1>5
  <2>3. \A c \in runSet : out'[c] = IF st'[c] = "DONE" THEN run ELSE NoRun
    BY <1>1, <1>2, <1>3 DEF Carried
  <2>4. \A c \in Blocks \ runSet : st'[c] \in Terminal /\ out'[c] = ckpt'.ref[c] /\ out'[c] # run
    BY <1>1, <1>3, <1>4, <1>5 DEF Carried
  <2>5. \A c \in Required(runSet) : out'[c] # NoRun
    BY <1>1, <2>2 DEF Carried, Required
  <2>6. \A c \in runSet : st'[c] \in {"RUNNING", "DONE"} => \A p \in Preds(c) : out'[p] # NoRun
    <3>1. \A c \in runSet : st'[c] \in {"RUNNING", "DONE"} => st[c] \in {"RUNNING", "DONE"}
      BY <1>2, <1>3
    <3> QED BY <1>1, <2>2, <3>1 DEF Carried, Preds
  <2> QED BY <1>1, <2>1, <2>3, <2>4, <2>5, <2>6 DEF Carried
<1>7. Saved'
  <2>1. \A c \in Blocks : out'[c] <= run
    BY <1>1, <1>2, <1>3, <1>5 DEF Saved, Runs, Carried, NoRun
  <2> QED BY <1>1, <1>4, <2>1 DEF Saved
<1>8. Computed'
  <2>1. \A c \in Blocks : st[c] # "IDLE" => st'[c] # "IDLE"
    BY <1>3
  <2>2. \A a \in Artifacts : \A m \in disk[a] : m[3] = run => st'[m[1]] # "IDLE"
    BY <1>1, <2>1, MembersTyped DEF Computed
  <2> QED BY <1>1, <2>2 DEF Computed
<1>9. ASSUME NEW c \in Blocks, out'[c] # NoRun PROVE FromOut(c)'
  <2>1. CASE c = b
    <3>1. FromInputs(b)
      BY <1>1, <1>3 DEF Coherent
    <3>2. \A m \in disk[<<b, run>>] : m[1] \in Blocks /\ m[3] = IF m[1] = b THEN run ELSE out[m[1]]
      BY <1>2, <3>1, MembersTyped DEF FromInputs
    <3> QED BY <1>1, <1>3, <2>1, <3>2 DEF FromOut
  <2>2. CASE c # b
    <3>1. out'[c] = out[c] /\ FromOut(c)
      BY <1>1, <1>3, <1>9, <2>2 DEF Coherent
    <3>2. <<c, out[c]>> \in Artifacts
      BY <1>9, <3>1 DEF HereTypes, BlockTypes, Refs, Artifacts
    <3>3. \A m \in disk[<<c, out[c]>>] : m[1] \in Blocks /\ m[1] # b /\ m[3] = out[m[1]]
      BY <1>5, <3>1, <3>2, MembersTyped DEF FromOut
    <3> QED BY <1>1, <1>3, <3>1, <3>3 DEF FromOut
  <2> QED BY <2>1, <2>2
<1>10. ASSUME NEW c \in Blocks, ckpt'.ref[c] # NoRun PROVE FromRef(c)'
  BY <1>4, <1>9, <1>10 DEF FromRef, FromOut
<1>11. ASSUME NEW c \in Blocks, st'[c] = "RUNNING" PROVE FromInputs(c)'
  <2>1. c # b /\ FromInputs(c) /\ <<c, run>> \in Artifacts
    BY <1>1, <1>2, <1>3, <1>11 DEF Coherent, Artifacts
  <2>2. \A m \in disk[<<c, run>>] : m[1] \in Blocks /\ m[1] # b /\ m[3] = IF m[1] = c THEN run ELSE out[m[1]]
    BY <1>5, <2>1, MembersTyped DEF FromInputs
  <2> QED BY <1>1, <1>3, <2>2 DEF FromInputs
<1>12. Coherent'
  BY <1>1, <1>9, <1>10, <1>11 DEF Coherent, OneGeneration
<1> QED BY <1>6, <1>7, <1>8, <1>12

\* A failure gives no output to anything; what it skips had not started.
LEMMA FailsHere ==
  ASSUME HereInv, NEW b \in Blocks, BlockFails(b)
  PROVE  Carried' /\ Saved' /\ Computed' /\ Coherent'
<1> USE DEF HereInv, runVars, storeVars
<1>1. phase = "executing" /\ UNCHANGED <<run, phase, runSet, out, disk>>
  BY DEF BlockFails
<1>2. ckpt'.ref = out
  BY DEF BlockFails, Save
<1>3. st[b] \in {"IDLE", "RUNNING"} /\ st'[b] = "ERROR"
  BY DEF BlockFails, Ready
<1>4. \A c \in Blocks : c # b => st'[c] = st[c] \/ (st[c] = "IDLE" /\ st'[c] = "SKIPPED")
  BY DEF BlockFails
<1>5. b \in runSet /\ runSet \subseteq Blocks
  BY <1>1, <1>3 DEF Carried, Terminal, HereTypes, RunTypes
<1>6. Carried'
  <2>1. Required(runSet') = Required(runSet)
    BY <1>1
  <2>2. \A c \in runSet : out[c] = IF st'[c] = "DONE" THEN run ELSE NoRun
    BY <1>1, <1>3, <1>4, <1>5 DEF Carried
  <2>3. \A c \in Blocks \ runSet : st'[c] \in Terminal /\ out[c] = ckpt'.ref[c] /\ out[c] # run
    BY <1>1, <1>2, <1>4, <1>5 DEF Carried, Terminal
  <2>4. \A c \in runSet : st'[c] \in {"RUNNING", "DONE"} => st[c] \in {"RUNNING", "DONE"}
    BY <1>3, <1>4, <1>5
  <2> QED BY <1>1, <2>1, <2>2, <2>3, <2>4 DEF Carried
<1>7. Saved'
  <2>1. \A c \in Blocks : out[c] <= run
    BY <1>1 DEF Saved, Carried, HereTypes, RunTypes, Runs, NoRun
  <2> QED BY <1>1, <1>2, <2>1 DEF Saved
<1>8. Computed'
  <2>1. \A c \in Blocks : st[c] # "IDLE" => st'[c] # "IDLE"
    BY <1>3, <1>4
  <2>2. \A a \in Artifacts : \A m \in disk[a] : m[3] = run => st'[m[1]] # "IDLE"
    BY <1>1, <2>1, MembersTyped DEF Computed
  <2> QED BY <1>1, <2>2 DEF Computed
<1>9. \A c \in Blocks : out[c] # NoRun => FromOut(c)' /\ FromRef(c)'
  BY <1>1, <1>2 DEF Coherent, FromOut, FromRef
<1>10. \A c \in Blocks : st'[c] = "RUNNING" => FromInputs(c)'
  <2>1. \A c \in Blocks : st'[c] = "RUNNING" => st[c] = "RUNNING"
    BY <1>3, <1>4
  <2> QED BY <1>1, <2>1 DEF Coherent, FromInputs
<1>11. Coherent'
  BY <1>1, <1>2, <1>9, <1>10 DEF Coherent, OneGeneration
<1> QED BY <1>6, <1>7, <1>8, <1>11

\* What a sweep removes is not read any more.
LEMMA ReclaimHere ==
  ASSUME HereInv, NEW a \in Artifacts, Reclaim(a)
  PROVE  Carried' /\ Saved' /\ Computed' /\ Coherent'
<1> USE DEF HereInv, runVars, blockVars
<1>1. UNCHANGED <<run, phase, runSet, st, out, prints, ckpt>>
  BY DEF Reclaim
<1>2. Carried' /\ Saved'
  BY <1>1 DEF Carried, Saved, Required
<1>3. disk' \in [Artifacts -> SUBSET Members] /\ \A c \in Artifacts : disk'[c] \in {{}, disk[c]}
  BY DEF Reclaim, Computed
<1>4. Computed'
  BY <1>1, <1>3 DEF Computed
<1>5. \A c \in Blocks, r \in Runs : disk'[<<c, r>>] \subseteq disk[<<c, r>>]
  BY <1>3 DEF Artifacts
<1>6. \A c \in Blocks : /\ ckpt.ref[c] # NoRun => ckpt.ref[c] \in Runs
                        /\ out[c] # NoRun => out[c] \in Runs
  BY DEF HereTypes, BlockTypes, Refs
<1>7. phase = "executing" => run \in Runs
  BY DEF HereTypes, RunTypes
<1>8. ASSUME NEW c \in Blocks, ckpt.ref[c] # NoRun PROVE FromRef(c)'
  <2>1. FromRef(c)
    BY <1>8 DEF Coherent
  <2>2. ckpt.ref[c] \in Runs
    BY <1>6, <1>8
  <2>3. disk'[<<c, ckpt.ref[c]>>] \subseteq disk[<<c, ckpt.ref[c]>>]
    BY <1>5, <2>2
  <2> QED BY <1>1, <2>1, <2>3 DEF FromRef
<1>9. ASSUME phase = "executing", NEW c \in Blocks
      PROVE  (out[c] # NoRun => FromOut(c)') /\ (st[c] = "RUNNING" => FromInputs(c)')
  <2>1. ASSUME out[c] # NoRun PROVE FromOut(c)'
    <3>1. FromOut(c)
      BY <1>9, <2>1 DEF Coherent
    <3>2. out[c] \in Runs
      BY <1>6, <2>1
    <3>3. disk'[<<c, out[c]>>] \subseteq disk[<<c, out[c]>>]
      BY <1>5, <3>2
    <3> QED BY <1>1, <3>1, <3>3 DEF FromOut
  <2>2. ASSUME st[c] = "RUNNING" PROVE FromInputs(c)'
    <3>1. FromInputs(c) /\ disk'[<<c, run>>] \subseteq disk[<<c, run>>]
      BY <1>5, <1>7, <1>9, <2>2 DEF Coherent
    <3> QED BY <1>1, <3>1 DEF FromInputs
  <2> QED BY <2>1, <2>2
<1>10. OneGeneration'
  BY <1>3 DEF Coherent, OneGeneration
<1> QED BY <1>1, <1>2, <1>4, <1>8, <1>9, <1>10 DEF Coherent

LEMMA StepHere ==
  ASSUME HereInv, [Next]_vars
  PROVE  HereInv'
<1> USE DEF userVars, runVars, blockVars, sweepVars, storeVars
<1>1. HereTypes'
  BY StepHereTypes DEF HereInv
<1> SUFFICES Carried' /\ Saved' /\ Computed' /\ Coherent'
  BY <1>1 DEF HereInv
<1>2. CASE UNCHANGED vars \/ Rest \/ SweepStarts \/ SweepScans \/ \E b \in Blocks : Edit(b) \/ Recode(b)
  <2>1. UNCHANGED <<run, phase, runSet, st, out, prints, ckpt, disk>>
    BY <1>2 DEF vars, Rest, SweepStarts, SweepScans, Edit, Recode
  <2> QED BY <2>1, QuietHere
<1>3. CASE Begin
  BY <1>3, BeginHere
<1>4. CASE RunEnds \/ Crash
  <2>1. PICK s : RunEndsAs(s) /\ UNCHANGED <<ckpt, disk>>
    BY <1>4 DEF RunEnds, Crash
  <2> QED BY <2>1, EndHere
<1>5. ASSUME NEW S, S = Blocks \/ \E t \in Blocks : S = RunSet(t), Start(S)
      PROVE  Carried' /\ Saved' /\ Computed' /\ Coherent'
  BY <1>5, RunSetsClosed, StartHere
<1>6. ASSUME NEW b \in Blocks, WorkerWrites(b) \/ BlockDone(b) \/ BlockFails(b)
      PROVE  Carried' /\ Saved' /\ Computed' /\ Coherent'
  BY <1>6, WorkerHere, DoneHere, FailsHere
<1>7. ASSUME NEW a \in Artifacts, Reclaim(a)
      PROVE  Carried' /\ Saved' /\ Computed' /\ Coherent'
  BY <1>7, ReclaimHere
<1> QED BY <1>2, <1>3, <1>4, <1>5, <1>6, <1>7 DEF Next

LEMMA HereInvariant == Spec => []HereInv
  BY InitHere, StepHere, PTL DEF Spec

\* No artifact is ever computed from two different results of one block, whatever full and
\* partial runs, failures, crashes, recoded blocks and sweeps came before: what a run from
\* a block takes over was computed from one another.
THEOREM OneGenerationAlways == Spec => []OneGeneration
<1>1. HereInv => OneGeneration
  BY DEF HereInv, Coherent
<1> QED BY <1>1, HereInvariant, PTL

-----------------------------------------------------------------------------
(* What the fingerprints say.                                              *)

\* The definitions an artifact was computed from.
Pairs(a) == {<<m[1], m[2]>> : m \in disk[a]}

\* The definitions b has in this run with all that the fingerprints of its inputs cover.
Anew(b) == {<<b, Definitions(cfg)[b]>>} \cup UNION {ckpt.print[p] : p \in Preds(b)}

\* The fingerprint of an output that is there is what it was computed from, and that of an
\* output of the run can be had from those of its inputs.
Described ==
    /\ \A b \in Blocks : ckpt.ref[b] # NoRun /\ Exists(<<b, ckpt.ref[b]>>) => ckpt.print[b] = Pairs(<<b, ckpt.ref[b]>>)
    /\ phase = "executing" =>
           /\ prints \in {Unset, Definitions(cfg)}
           /\ \A b \in Blocks : /\ out[b] = run => ckpt.print[b] = Anew(b)
                                /\ st[b] = "RUNNING" /\ Exists(<<b, run>>) => Pairs(<<b, run>>) = Anew(b)

\* h keeps the fingerprints of the outputs o takes over, and lets the definitions d flow to
\* those of the run, all of whose inputs are there.
Describes(h, o, d) ==
    \A c \in Blocks : o[c] # NoRun =>
        IF o[c] = run
        THEN Preds(c) \subseteq {p \in Blocks : o[p] # NoRun} /\ h[c] = {<<c, d[c]>>} \cup UNION {h[p] : p \in Preds(c)}
        ELSE h[c] = ckpt.print[c]

\* There is only one such h, and OutputFingerprints finds it.
LEMMA SaveDescribes ==
  ASSUME NEW o, NEW d, NEW h, run # NoRun, Describes(h, o, d)
  PROVE  \A c \in Blocks : o[c] # NoRun => OutputFingerprints(o, run, d)[c] = h[c]
<1> USE DEF Describes
<1> DEFINE W == {c \in Blocks : o[c] # NoRun}
           print[b \in Blocks] ==
               IF o[b] \notin {NoRun, run} THEN ckpt.print[b]
               ELSE {<<b, d[b]>>} \cup UNION {print[p] : p \in Preds(b)}
           fixed == {b \in Blocks : o[b] \notin {NoRun, run}}
           known == ckpt.print
           own   == [b \in Blocks |-> <<b, d[b]>>]
           G(g)  == g = [b \in Blocks |-> IF o[b] \notin {NoRun, run} THEN ckpt.print[b]
                                         ELSE {<<b, d[b]>>} \cup UNION {g[p] : p \in Preds(b)}]
<1>1. PICK g : Flow(g, fixed, known, own)
  BY FlowExists
<1>2. G(g)
  BY <1>1 DEF Flow, Gathered
<1>3. print = CHOOSE f : G(f)
  OBVIOUS
<1>4. G(print)
  <2> HIDE DEF print, G
  <2> QED BY <1>2, <1>3
<1>5. \A b \in Blocks : print[b] = IF o[b] \notin {NoRun, run} THEN ckpt.print[b]
                                  ELSE {<<b, d[b]>>} \cup UNION {print[p] : p \in Preds(b)}
  <2> HIDE DEF print
  <2> QED BY <1>4
<1>6. OutputFingerprints(o, run, d) = [b \in Blocks |-> IF o[b] = NoRun THEN {} ELSE print[b]]
  BY DEF OutputFingerprints
<1> HIDE DEF print, G
<1>7. W \in SUBSET Blocks /\ \A c \in W : c \notin fixed <=> o[c] = run
  OBVIOUS
<1>8. \A c \in W \ fixed : own[c] = <<c, d[c]>> /\ Preds(c) \subseteq W
  BY <1>7
<1>9. \A c \in W \cap fixed : print[c] = h[c]
  BY <1>5, <1>7
<1>10. \A c \in W \ fixed : print[c] = Gathered(print, own, c) /\ h[c] = Gathered(h, own, c)
  <2> SUFFICES ASSUME NEW c \in W \ fixed
               PROVE  print[c] = Gathered(print, own, c) /\ h[c] = Gathered(h, own, c)
    OBVIOUS
  <2>1. print[c] = {<<c, d[c]>>} \cup UNION {print[p] : p \in Preds(c)}
    BY <1>5, <1>7
  <2>2. h[c] = {<<c, d[c]>>} \cup UNION {h[p] : p \in Preds(c)}
    BY <1>7
  <2> QED BY <1>8, <2>1, <2>2 DEF Gathered
<1>11. \A c \in W \ fixed : Preds(c) \subseteq W
  BY <1>8
<1>12. \A c \in W : print[c] = h[c]
  <2>1. AgreeWhereFixed(print, h, fixed, own, W)
    BY <1>9, <1>10, <1>11 DEF AgreeWhereFixed
  <2>2. W \in SUBSET Blocks
    BY <1>7
  <2> HIDE DEF fixed, own
  <2> QED BY ONLY <2>1, <2>2, FlowUnique
<1> QED BY <1>6, <1>12

LEMMA InitDescribed == Init => Described
  BY DEF Init, Described, Exists, NoRun

\* The artifacts the checkpoint refers to and those of this run's workers have names.
LEMMA ArtifactsNamed ==
  ASSUME HereTypes, NEW b \in Blocks
  PROVE  /\ ckpt.ref[b] # NoRun => <<b, ckpt.ref[b]>> \in Artifacts
         /\ phase = "executing" => run \in Runs /\ run # NoRun /\ <<b, run>> \in Artifacts
  BY DEF HereTypes, RunTypes, BlockTypes, Refs, Artifacts, Runs, NoRun

\* What the fingerprints say depends on the checkpoint, the artifacts, and in a run on its
\* states, outputs and definitions.
LEMMA QuietDescribed ==
  ASSUME Described, UNCHANGED <<run, phase, st, out, prints, ckpt, disk, cfg>>,
         phase = "executing" => code' = code
  PROVE  Described'
<1>1. \A b \in Blocks : ckpt'.ref[b] # NoRun /\ Exists(<<b, ckpt.ref[b]>>)' => ckpt'.print[b] = Pairs(<<b, ckpt.ref[b]>>)'
  BY DEF Described, Exists, Pairs
<1>2. ASSUME phase = "executing"
      PROVE  /\ prints' \in {Unset, Definitions(cfg)'}
             /\ \A b \in Blocks : /\ out'[b] = run' => ckpt'.print[b] = Anew(b)'
                                  /\ st'[b] = "RUNNING" /\ Exists(<<b, run>>)' => Pairs(<<b, run>>)' = Anew(b)'
  BY <1>2 DEF Described, Exists, Pairs, Anew, Definitions
<1> QED BY <1>1, <1>2 DEF Described, Exists, Pairs

\* Outside a run's steps only what the checkpoint refers to counts.
LEMMA IdleDescribed ==
  ASSUME Described, phase' # "executing", UNCHANGED <<ckpt, disk>>
  PROVE  Described'
  BY DEF Described, Exists, Pairs

LEMMA BeginDescribed ==
  ASSUME HereInv, Described, Begin
  PROVE  Described'
<1> USE DEF HereInv, storeVars
<1>1. CASE ~Granted(runSet, Definitions(cfg))
  BY <1>1, IdleDescribed DEF Begin, RunEndsAs
<1>2. CASE Granted(runSet, Definitions(cfg))
  <2>1. phase = "pending" /\ prints = Unset /\ UNCHANGED <<run, prints, ckpt, disk>>
    BY <1>2 DEF Begin, Carried
  <2>2. \A b \in Blocks : st'[b] # "RUNNING" /\ out'[b] \in {NoRun, ckpt.ref[b]}
    BY <1>2 DEF Begin, Terminal
  <2>3. run # NoRun
    BY <2>1 DEF HereTypes, RunTypes, Runs, NoRun
  <2>4. \A b \in Blocks : out'[b] # run
    BY <2>1, <2>2, <2>3 DEF Saved
  <2> QED BY <2>1, <2>2, <2>4 DEF Described, Exists, Pairs
<1> QED BY <1>1, <1>2

\* A worker's artifact is computed from what its inputs were computed from, and their
\* fingerprints say what that is.
LEMMA WorkerDescribed ==
  ASSUME HereInv, HereInv', Described, NEW b \in Blocks, WorkerWrites(b)
  PROVE  Described'
<1> USE DEF HereInv, runVars
<1>1. phase = "executing" /\ UNCHANGED <<run, phase, runSet, cfg, code, prints, out, ckpt>>
  BY DEF WorkerWrites, Ready, userVars
<1>2. run \in Runs /\ run # NoRun /\ <<b, run>> \in Artifacts
  BY <1>1, ArtifactsNamed
<1>3. st[b] = "IDLE" /\ \A c \in Blocks : c # b => st'[c] = st[c]
  BY DEF WorkerWrites, Ready
<1>4. out[b] = NoRun /\ ckpt.ref[b] # run
  <2>1. b \in runSet
    BY <1>1, <1>3 DEF Carried, Terminal
  <2>2. out[b] = NoRun
    BY <1>1, <1>3, <2>1 DEF Carried
  <2> QED BY <1>1, <1>2, <2>2 DEF Saved
<1>5. \A a \in Artifacts : a # <<b, run>> => disk'[a] = disk[a]
  BY <1>2 DEF WorkerWrites, Computed
<1>6. disk'[<<b, run>>] = {<<b, <<cfg[b], code[b]>>, run>>} \cup UNION {disk[a] : a \in Inputs(b)}
  BY <1>2 DEF WorkerWrites, Computed
<1>7. \A p \in Preds(b) : ckpt.print[p] = Pairs(<<p, out[p]>>)
  <2> SUFFICES ASSUME NEW p \in Preds(b) PROVE ckpt.print[p] = Pairs(<<p, out[p]>>)
    OBVIOUS
  <2>1. p \in Blocks /\ st[p] = "DONE"
    BY DEF WorkerWrites, Ready, Preds
  <2>2. st'[b] = "RUNNING" /\ b \in runSet'
    <3>1. st'[b] = "RUNNING"
      BY DEF WorkerWrites, HereTypes, BlockTypes
    <3> QED BY <1>1, <3>1 DEF Carried, Terminal
  <2>3. out[p] # NoRun
    BY <1>1, <2>1, <2>2 DEF Carried
  <2>4. Exists(<<p, out[p]>>)
    BY DEF WorkerWrites, InputsExist, Inputs
  <2>5. ckpt.ref[p] = out[p]
    BY <1>1, <2>1, <2>3 DEF Saved
  <2> QED BY <2>1, <2>3, <2>4, <2>5 DEF Described
<1>8. Pairs(<<b, run>>)' = Anew(b)
  <2> DEFINE own == <<b, <<cfg[b], code[b]>>>>
             from(p) == disk[<<p, out[p]>>]
  <2>1. own = <<b, Definitions(cfg)[b]>>
    BY DEF Definitions
  <2>2. \A x : x \in Anew(b) <=> x = own \/ \E p \in Preds(b) : x \in Pairs(<<p, out[p]>>)
    BY <1>7, <2>1 DEF Anew
  <2>3. \A m : m \in disk'[<<b, run>>] <=> m = <<b, <<cfg[b], code[b]>>, run>> \/ \E p \in Preds(b) : m \in from(p)
    BY <1>6 DEF Inputs
  <2>4. \A x : x \in Pairs(<<b, run>>)' <=> \E m \in disk'[<<b, run>>] : x = <<m[1], m[2]>>
    BY <1>1 DEF Pairs
  <2>5. \A p, x : x \in Pairs(<<p, out[p]>>) <=> \E m \in from(p) : x = <<m[1], m[2]>>
    BY DEF Pairs
  <2>6. <<b, <<cfg[b], code[b]>>, run>>[1] = b /\ <<b, <<cfg[b], code[b]>>, run>>[2] = <<cfg[b], code[b]>>
    OBVIOUS
  <2> HIDE DEF from, own
  <2>7. \A x : x \in Pairs(<<b, run>>)' <=> x \in Anew(b)
    <3> SUFFICES ASSUME NEW x PROVE x \in Pairs(<<b, run>>)' <=> x \in Anew(b)
      OBVIOUS
    <3>1. x \in Pairs(<<b, run>>)' <=> x = own \/ \E p \in Preds(b) : \E m \in from(p) : x = <<m[1], m[2]>>
      <4> DEFINE m0 == <<b, <<cfg[b], code[b]>>, run>>
      <4>1. <<m0[1], m0[2]>> = own
        BY <2>6 DEF own
      <4>2. \A m : m \in disk'[<<b, run>>] <=> m = m0 \/ \E p \in Preds(b) : m \in from(p)
        BY <2>3
      <4> HIDE DEF m0
      <4> QED BY <2>4, <4>1, <4>2
    <3>2. (\E p \in Preds(b) : \E m \in from(p) : x = <<m[1], m[2]>>) <=> \E p \in Preds(b) : x \in Pairs(<<p, out[p]>>)
      BY <2>5, Zenon
    <3>3. x \in Anew(b) <=> x = own \/ \E p \in Preds(b) : x \in Pairs(<<p, out[p]>>)
      BY <2>2
    <3> QED BY ONLY <3>1, <3>2, <3>3
  <2>8. Pairs(<<b, run>>)' \subseteq Anew(b) /\ Anew(b) \subseteq Pairs(<<b, run>>)'
    BY <2>7
  <2> QED BY <2>8
<1>9. \A c \in Blocks : Anew(c)' = Anew(c) /\ Definitions(cfg)' = Definitions(cfg)
  BY <1>1 DEF Anew, Definitions
<1>10. ASSUME NEW c \in Blocks, ckpt'.ref[c] # NoRun, Exists(<<c, ckpt.ref[c]>>)'
       PROVE  ckpt'.print[c] = Pairs(<<c, ckpt.ref[c]>>)'
  <2>1. <<c, ckpt.ref[c]>> \in Artifacts /\ <<c, ckpt.ref[c]>> # <<b, run>>
    BY <1>1, <1>4, <1>10, ArtifactsNamed
  <2>2. disk'[<<c, ckpt.ref[c]>>] = disk[<<c, ckpt.ref[c]>>]
    BY <1>5, <2>1
  <2> QED BY <1>1, <1>10, <2>2 DEF Described, Exists, Pairs
<1>11. ASSUME NEW c \in Blocks, st'[c] = "RUNNING", Exists(<<c, run>>)'
       PROVE  Pairs(<<c, run>>)' = Anew(c)
  <2>1. CASE c = b
    BY <1>8, <2>1
  <2>2. CASE c # b
    <3>1. <<c, run>> \in Artifacts /\ <<c, run>> # <<b, run>>
      BY <1>1, <2>2, ArtifactsNamed
    <3>2. disk'[<<c, run>>] = disk[<<c, run>>]
      BY <1>5, <3>1
    <3> QED BY <1>1, <1>3, <1>11, <2>2, <3>2 DEF Described, Exists, Pairs
  <2> QED BY <2>1, <2>2
<1>12. \A c \in Blocks : out[c] = run => ckpt.print[c] = Anew(c)
  BY <1>1 DEF Described
<1>13. prints \in {Unset, Definitions(cfg)}
  BY <1>1 DEF Described
<1> QED BY <1>1, <1>9, <1>10, <1>11, <1>12, <1>13 DEF Described, Exists, Pairs

\* What a block that has started reads is an output of the run.
LEMMA StartedReads ==
  ASSUME HereInv, phase = "executing", NEW c \in Blocks, out[c] = run \/ st[c] = "RUNNING"
  PROVE  c \in runSet /\ st[c] \in {"RUNNING", "DONE"} /\ \A p \in Preds(c) : p \in Blocks /\ out[p] # NoRun
<1> USE DEF HereInv
<1>1. run # NoRun
  BY ArtifactsNamed
<1>2. c \in runSet /\ st[c] \in {"RUNNING", "DONE"}
  BY <1>1 DEF Carried, Terminal
<1> QED BY <1>2 DEF Carried, Preds

\* The result of b gets the fingerprint its inputs and its definition give; every other
\* output of the run and of the runs before keeps the one it has.
LEMMA DoneDescribed ==
  ASSUME HereInv, Described, NEW b \in Blocks, BlockDone(b)
  PROVE  Described'
<1> DEFINE h == [c \in Blocks |-> IF c = b THEN Anew(b) ELSE ckpt.print[c]]
           W == {c \in Blocks : out'[c] # NoRun}
           d == Definitions(cfg)
<1> USE DEF HereInv, runVars, userVars
<1>1. phase = "executing" /\ UNCHANGED <<run, phase, runSet, cfg, code, disk>>
  BY DEF BlockDone
<1>2. run \in Runs /\ run # NoRun /\ <<b, run>> \in Artifacts
  BY <1>1, ArtifactsNamed
<1>3. /\ st[b] = "RUNNING" /\ st'[b] = "DONE" /\ \A c \in Blocks : c # b => st'[c] = st[c]
      /\ out'[b] = run /\ \A c \in Blocks : c # b => out'[c] = out[c]
  BY DEF BlockDone, HereTypes, BlockTypes, Refs
<1>4. out[b] = NoRun
  BY <1>1, <1>3, StartedReads DEF Carried
<1>5. prints' = d /\ ckpt'.ref = out' /\ ckpt'.print = OutputFingerprints(out', run, d)
  <2>1. prints = Unset \/ prints = d
    BY <1>1 DEF Described
  <2>2. (IF prints = Unset THEN Definitions(cfg) ELSE prints) = d
    BY <2>1
  <2> QED BY <2>2 DEF BlockDone, Save
<1>6. ASSUME NEW c \in Blocks, out'[c] = run \/ st'[c] = "RUNNING"
      PROVE  \A p \in Preds(c) : p \in W /\ p # b
  <2>1. out[c] = run \/ st[c] = "RUNNING"
    BY <1>3, <1>6
  <2>2. \A p \in Preds(c) : p \in Blocks /\ out[p] # NoRun
    BY <1>1, <2>1, StartedReads
  <2> QED BY <1>3, <1>4, <2>2
<1>7. Describes(h, out', d)
  <2>1. ASSUME NEW c \in W, out'[c] = run
        PROVE  Preds(c) \subseteq W /\ h[c] = {<<c, d[c]>>} \cup UNION {h[p] : p \in Preds(c)}
    <3>1. Preds(c) \subseteq W /\ \A p \in Preds(c) : h[p] = ckpt.print[p]
      BY <1>6, <2>1
    <3>2. h[c] = Anew(c)
      BY <1>1, <1>3, <2>1 DEF Described
    <3>3. {h[p] : p \in Preds(c)} = {ckpt.print[p] : p \in Preds(c)}
      BY <3>1
    <3> HIDE DEF h
    <3> QED BY <3>1, <3>2, <3>3 DEF Anew
  <2>2. \A c \in W : out'[c] # run => h[c] = ckpt.print[c]
    BY <1>3
  <2> QED BY <2>1, <2>2 DEF Describes
<1>8. \A c \in Blocks : out'[c] # NoRun => OutputFingerprints(out', run, d)[c] = h[c]
  <2> HIDE DEF h, d
  <2> QED BY ONLY <1>2, <1>7, SaveDescribes
<1>9. \A c \in W : ckpt'.print[c] = h[c]
  BY <1>5, <1>8
<1>10. ASSUME NEW c \in Blocks, out'[c] = run \/ st'[c] = "RUNNING"
       PROVE  Anew(c)' = Anew(c)
  <2>1. \A p \in Preds(c) : ckpt'.print[p] = ckpt.print[p]
    BY <1>6, <1>9, <1>10
  <2> QED BY <1>1, <2>1 DEF Anew, Definitions
<1>11. ASSUME NEW c \in Blocks, ckpt'.ref[c] # NoRun, Exists(<<c, out'[c]>>)
       PROVE  ckpt'.print[c] = Pairs(<<c, out'[c]>>)
  <2>1. c \in W /\ ckpt'.print[c] = h[c]
    BY <1>5, <1>9, <1>11
  <2>2. CASE c = b
    BY <1>1, <1>3, <1>11, <2>1, <2>2 DEF Described
  <2>3. CASE c # b
    <3>1. out'[c] = ckpt.ref[c] /\ ckpt.ref[c] # NoRun
      BY <1>1, <1>3, <2>1, <2>3 DEF Saved
    <3> QED BY <1>11, <2>1, <2>3, <3>1 DEF Described
  <2> QED BY <2>2, <2>3
<1>12. ASSUME NEW c \in Blocks, out'[c] = run PROVE ckpt'.print[c] = Anew(c)'
  <2>1. ckpt'.print[c] = h[c]
    BY <1>2, <1>9, <1>12
  <2>2. h[c] = Anew(c)
    BY <1>1, <1>3, <1>12 DEF Described
  <2> QED BY <1>10, <1>12, <2>1, <2>2
<1>13. ASSUME NEW c \in Blocks, st'[c] = "RUNNING", Exists(<<c, run>>) PROVE Pairs(<<c, run>>) = Anew(c)'
  <2>1. Pairs(<<c, run>>) = Anew(c)
    BY <1>1, <1>3, <1>13 DEF Described
  <2> QED BY <1>10, <1>13, <2>1
<1>14. Definitions(cfg)' = d
  BY <1>1 DEF Definitions
<1> HIDE DEF h, W, d
<1> QED BY <1>1, <1>5, <1>11, <1>12, <1>13, <1>14 DEF Described, Exists, Pairs

\* A failure is saved too: every output keeps its fingerprint.
LEMMA FailsDescribed ==
  ASSUME HereInv, Described, NEW b \in Blocks, BlockFails(b)
  PROVE  Described'
<1> DEFINE W == {c \in Blocks : out[c] # NoRun}
           d == Definitions(cfg)
<1> USE DEF HereInv, runVars, userVars, storeVars
<1>1. phase = "executing" /\ UNCHANGED <<run, phase, runSet, cfg, code, out, disk>>
  BY DEF BlockFails
<1>2. run # NoRun
  BY <1>1, ArtifactsNamed
<1>3. \A c \in Blocks : st'[c] = "RUNNING" => st[c] = "RUNNING"
  BY DEF BlockFails
<1>4. prints' = d /\ ckpt'.ref = out /\ ckpt'.print = OutputFingerprints(out, run, d)
  <2>1. prints = Unset \/ prints = d
    BY <1>1 DEF Described
  <2>2. (IF prints = Unset THEN Definitions(cfg) ELSE prints) = d
    BY <2>1
  <2> QED BY <2>2 DEF BlockFails, Save
<1>5. Describes(ckpt.print, out, d)
  <2> SUFFICES ASSUME NEW c \in W, out[c] = run
               PROVE  Preds(c) \subseteq W /\ ckpt.print[c] = Anew(c)
    BY DEF Anew, Describes
  <2>1. Preds(c) \subseteq W
    BY <1>1, StartedReads
  <2>2. ckpt.print[c] = Anew(c)
    BY <1>1 DEF Described
  <2> QED BY <2>1, <2>2
<1>6. \A c \in W : ckpt'.print[c] = ckpt.print[c]
  <2>1. \A c \in Blocks : out[c] # NoRun => OutputFingerprints(out, run, d)[c] = ckpt.print[c]
    <3> HIDE DEF d
    <3> QED BY ONLY <1>2, <1>5, SaveDescribes
  <2> QED BY <1>4, <2>1
<1>7. ASSUME NEW c \in Blocks, out[c] = run \/ st'[c] = "RUNNING"
      PROVE  Anew(c)' = Anew(c)
  <2>1. \A p \in Preds(c) : ckpt'.print[p] = ckpt.print[p]
    BY <1>1, <1>3, <1>6, <1>7, StartedReads
  <2> QED BY <1>1, <2>1 DEF Anew, Definitions
<1>8. ASSUME NEW c \in Blocks, ckpt'.ref[c] # NoRun, Exists(<<c, out[c]>>)
      PROVE  ckpt'.print[c] = Pairs(<<c, out[c]>>)
  <2>1. c \in W /\ ckpt'.print[c] = ckpt.print[c] /\ out[c] = ckpt.ref[c] /\ ckpt.ref[c] # NoRun
    BY <1>1, <1>4, <1>6, <1>8 DEF Saved
  <2> QED BY <1>8, <2>1 DEF Described
<1>9. ASSUME NEW c \in Blocks, out[c] = run PROVE ckpt'.print[c] = Anew(c)'
  <2>1. ckpt'.print[c] = ckpt.print[c] /\ ckpt.print[c] = Anew(c)
    BY <1>1, <1>2, <1>6, <1>9 DEF Described
  <2> QED BY <1>7, <1>9, <2>1
<1>10. ASSUME NEW c \in Blocks, st'[c] = "RUNNING", Exists(<<c, run>>) PROVE Pairs(<<c, run>>) = Anew(c)'
  <2>1. Pairs(<<c, run>>) = Anew(c)
    BY <1>1, <1>3, <1>10 DEF Described
  <2> QED BY <1>7, <1>10, <2>1
<1>11. Definitions(cfg)' = d
  BY <1>1 DEF Definitions
<1> HIDE DEF W, d
<1> QED BY <1>1, <1>4, <1>8, <1>9, <1>10, <1>11 DEF Described, Exists, Pairs

\* What is left on disk is as it was.
LEMMA ReclaimDescribed ==
  ASSUME HereInv, Described, NEW a \in Artifacts, Reclaim(a)
  PROVE  Described'
<1> USE DEF HereInv, runVars, blockVars, userVars
<1>1. UNCHANGED <<run, phase, st, out, prints, ckpt, cfg, code>>
  BY DEF Reclaim
<1>2. \A c \in Artifacts : disk'[c] # {} => disk'[c] = disk[c]
  BY DEF Reclaim, Computed
<1>3. ASSUME NEW c \in Blocks, ckpt.ref[c] # NoRun, disk'[<<c, ckpt.ref[c]>>] # {}
      PROVE  ckpt.print[c] = {<<m[1], m[2]>> : m \in disk'[<<c, ckpt.ref[c]>>]}
  <2>1. disk'[<<c, ckpt.ref[c]>>] = disk[<<c, ckpt.ref[c]>>]
    BY <1>2, <1>3, ArtifactsNamed
  <2> QED BY <1>3, <2>1 DEF Described, Exists, Pairs
<1>4. ASSUME phase = "executing", NEW c \in Blocks, st[c] = "RUNNING", disk'[<<c, run>>] # {}
      PROVE  {<<m[1], m[2]>> : m \in disk'[<<c, run>>]} = Anew(c)
  <2>1. disk'[<<c, run>>] = disk[<<c, run>>]
    BY <1>2, <1>4, ArtifactsNamed
  <2> QED BY <1>4, <2>1 DEF Described, Exists, Pairs
<1>5. \A c : Anew(c)' = Anew(c) /\ Definitions(cfg)' = Definitions(cfg)
  BY <1>1 DEF Anew, Definitions
<1>6. phase = "executing" => prints \in {Unset, Definitions(cfg)} /\ \A c \in Blocks : out[c] = run => ckpt.print[c] = Anew(c)
  BY DEF Described
<1> QED BY <1>1, <1>3, <1>4, <1>5, <1>6 DEF Described, Exists, Pairs

LEMMA StepDescribed ==
  ASSUME ~LiveRecode, HereInv, HereInv', Described, [Next]_vars
  PROVE  Described'
<1> USE DEF userVars, runVars, blockVars, sweepVars, storeVars
<1>1. CASE UNCHANGED vars \/ Rest \/ SweepStarts \/ SweepScans \/ \E b \in Blocks : Edit(b) \/ Recode(b)
  <2>1. UNCHANGED <<run, phase, st, out, prints, ckpt, disk, cfg>>
    BY <1>1 DEF vars, Rest, SweepStarts, SweepScans, Edit, Recode
  <2>2. phase = "executing" => code' = code
    BY <1>1 DEF vars, Rest, SweepStarts, SweepScans, Edit, Recode
  <2> QED BY <2>1, <2>2, QuietDescribed
<1>2. CASE Begin
  BY <1>2, BeginDescribed
<1>3. CASE RunEnds \/ Crash
  <2>1. phase' # "executing" /\ UNCHANGED <<ckpt, disk>>
    BY <1>3 DEF RunEnds, Crash, RunEndsAs
  <2> QED BY <2>1, IdleDescribed
<1>4. ASSUME NEW S, Start(S)
      PROVE  Described'
  <2>1. phase' # "executing" /\ UNCHANGED <<ckpt, disk>>
    BY <1>4 DEF Start
  <2> QED BY <2>1, IdleDescribed
<1>5. ASSUME NEW b \in Blocks, WorkerWrites(b) \/ BlockDone(b) \/ BlockFails(b)
      PROVE  Described'
  BY <1>5, WorkerDescribed, DoneDescribed, FailsDescribed
<1>6. ASSUME NEW a \in Artifacts, Reclaim(a)
      PROVE  Described'
  BY <1>6, ReclaimDescribed
<1> QED BY <1>1, <1>2, <1>3, <1>4, <1>5, <1>6 DEF Next

\* An output that is there has the fingerprint of the definitions d exactly when it was
\* computed from them.
LEMMA PrintTellsFreshness ==
  ASSUME HereInv, Described, NEW p \in OnDisk, NEW d
  PROVE  ckpt.print[p] = Lineage(d, p) <=> Fresh(<<p, ckpt.ref[p]>>, d)
<1> DEFINE file == <<p, ckpt.ref[p]>>
<1>1. p \in Blocks /\ file \in Artifacts /\ disk[file] # {} /\ ckpt.print[p] = Pairs(file)
  BY ArtifactsNamed DEF OnDisk, HereInv, Described, Exists
<1>2. {m[1] : m \in disk[file]} = Upstream[p] \cup {p}
  <2>1. \A a \in Artifacts : disk[a] # {} => {m[1] : m \in disk[a]} = Upstream[a[1]] \cup {a[1]}
    BY DEF HereInv, Computed
  <2> QED BY <1>1, <2>1
<1> HIDE DEF file
<1>3. \A x : x \in Pairs(file) <=> \E m \in disk[file] : x = <<m[1], m[2]>>
  BY DEF Pairs
<1>4. \A x : x \in Lineage(d, p) <=> \E a \in Upstream[p] \cup {p} : x = <<a, d[a]>>
  BY DEF Lineage
<1>5. ASSUME Pairs(file) = Lineage(d, p) PROVE Fresh(file, d)
  <2> SUFFICES ASSUME NEW m \in disk[file] PROVE m[2] = d[m[1]]
    BY DEF Fresh
  <2>1. <<m[1], m[2]>> \in Lineage(d, p)
    BY <1>3, <1>5
  <2>2. PICK a : <<m[1], m[2]>> = <<a, d[a]>>
    BY <1>4, <2>1
  <2> QED BY <2>2
<1>6. ASSUME Fresh(file, d) PROVE Pairs(file) = Lineage(d, p)
  <2>1. \A m \in disk[file] : m[2] = d[m[1]] /\ m[1] \in Upstream[p] \cup {p}
    BY <1>2, <1>6 DEF Fresh
  <2>2. Pairs(file) \subseteq Lineage(d, p)
    <3> SUFFICES ASSUME NEW x \in Pairs(file) PROVE x \in Lineage(d, p)
      OBVIOUS
    <3>1. PICK m \in disk[file] : x = <<m[1], m[2]>>
      BY <1>3
    <3> QED BY <1>4, <2>1, <3>1
  <2>3. Lineage(d, p) \subseteq Pairs(file)
    <3> SUFFICES ASSUME NEW x \in Lineage(d, p) PROVE x \in Pairs(file)
      OBVIOUS
    <3>1. PICK a \in Upstream[p] \cup {p} : x = <<a, d[a]>>
      BY <1>4
    <3>2. PICK m \in disk[file] : m[1] = a
      BY <1>2
    <3> QED BY <1>3, <2>1, <3>1, <3>2
  <2> QED BY <2>2, <2>3
<1> QED BY <1>1, <1>5, <1>6 DEF file

\* Where no block is recoded while a run goes on, a run from here is granted exactly when
\* every output it needs is finished, on disk and computed from the present definitions
\* of its whole upstream: the fingerprints plan_run_from_here compares never let a stale
\* output through and never refuse a good one, after any history of edits, undone edits,
\* partial runs, failures, crashes and sweeps.
THEOREM ReuseAlwaysExact == ASSUME ~LiveRecode PROVE Spec => []ReuseIsExact
<1>1. Init => Described
  BY InitDescribed
<1>2. HereInv /\ HereInv' /\ Described /\ [Next]_vars => Described'
  BY StepDescribed
<1>3. HereInv /\ Described => ReuseIsExact
  <2> SUFFICES ASSUME HereInv, Described, NEW t \in Blocks
               PROVE  Granted(RunSet(t), Definitions(config)) <=>
                        \A p \in Required(RunSet(t)) :
                            /\ ckpt.st[p] = "DONE" /\ p \in OnDisk
                            /\ Fresh(<<p, ckpt.ref[p]>>, Definitions(config))
    BY DEF ReuseIsExact
  <2>1. \A p : Reusable(p, Definitions(config)) <=>
                   /\ ckpt.st[p] = "DONE" /\ p \in OnDisk
                   /\ Fresh(<<p, ckpt.ref[p]>>, Definitions(config))
    BY PrintTellsFreshness DEF Reusable
  <2> QED BY <2>1 DEF Granted
<1> QED BY <1>1, <1>2, <1>3, HereInvariant, PTL DEF Spec

=============================================================================
