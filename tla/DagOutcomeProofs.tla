-------------------------- MODULE DagOutcomeProofs --------------------------
(***************************************************************************)
(* How blocks end, for every workflow: a failure reaches exactly what is   *)
(* behind it, nothing is forgotten, and what was reported is on disk.      *)
(***************************************************************************)
EXTENDS DagTaskProofs

USE DEF Terminal, BlockStates, TaskStates, FutureStates, Failed

-----------------------------------------------------------------------------
(* What every step but execute_from does with the blocks it moves.         *)

\* Terminal events, and only they, make rows.
Told == \A b \in Blocks : row'[b] = IF ~disposed /\ row[b] = "none" /\ st'[b] # st[b] /\ st'[b] \in Terminal
                                    THEN st'[b] ELSE row[b]

\* A block that fails takes its successors with it.
SkipsOn == ~disposed => \A b \in Blocks : \A p \in Preds(b) :
              st[p] \notin Terminal /\ st'[p] \in Failed => st'[b] = "SKIPPED"

\* The run is not just beginning.
Late == phase \in {"running", "stopping"} \/ phase' \notin {"running", "stopping"}

\* A block whose last input arrives does not stay IDLE.
Starts == ~disposed => \A b \in Blocks : st'[b] = "IDLE" /\ (\A p \in Preds(b) : st'[p] = "DONE") => Fed(b) /\ Late

\* A step that ends blocks saves how they ended.
Saved == \/ ckpt' = ckpt /\ \A b \in Blocks : st'[b] \in Terminal => st'[b] = st[b]
         \/ \A b \in Blocks : st'[b] \in Terminal => ckpt'[b] = st'[b]

Reports == Told /\ SkipsOn /\ Starts /\ Saved

\* What waits for an unfinished block has not started.
SuccessorsWait == \A b \in Blocks : \A p \in Preds(b) : st[p] \notin Terminal => st[b] \in {"IDLE", "SKIPPED"}

\* A scan that meets a broken block saves what it did up to the last of them, and that
\* is all that ended.
LEMMA PassSaves ==
    ASSUME NEW s \in [Blocks -> BlockStates], NEW cand \in SUBSET Blocks, NEW go \in SUBSET cand,
           Offers(s, cand)
    PROVE  \/ /\ PassCheckpoint(s, cand, go) = ckpt
              /\ \A n \in Blocks : PassStates(s, cand, go)[n] \in Terminal => PassStates(s, cand, go)[n] = s[n]
           \/ \A n \in Blocks : PassStates(s, cand, go)[n] \in Terminal =>
                 PassCheckpoint(s, cand, go)[n] = PassStates(s, cand, go)[n]
<1> DEFINE upTo == {b \in Blocks : \E f \in go \cap Broken : Rank[b] <= Rank[f]}
           s1 == [b \in Blocks |-> IF b \in go \cap Broken THEN "ERROR"
                                   ELSE IF b \in go THEN "RUNNING"
                                   ELSE IF b \in cand THEN "READY" ELSE s[b]]
           s2 == [b \in Blocks |-> IF b \in (go \cap upTo) \cap Broken THEN "ERROR"
                                   ELSE IF b \in go \cap upTo THEN "RUNNING"
                                   ELSE IF b \in cand \cap upTo THEN "READY" ELSE s[b]]
           r1 == PassStates(s, cand, go)
           r2 == PassStates(s, cand \cap upTo, go \cap upTo)
<1>1. CASE go \cap Broken = {}
  <2>1. PassCheckpoint(s, cand, go) = ckpt
    BY <1>1 DEF PassCheckpoint
  <2>2. \A n \in Blocks : PassStates(s, cand, go)[n] = s1[n]
    BY <1>1 DEF PassStates
  <2>3. \A n \in Blocks : s1[n] \in Terminal => s1[n] = s[n]
    BY <1>1
  <2> QED BY <2>1, <2>2, <2>3
<1>2. CASE go \cap Broken # {}
  <2>1. PassCheckpoint(s, cand, go) = r2
    BY <1>2 DEF PassCheckpoint
  <2>2. /\ r1 = [b \in Blocks |-> IF ~disposed /\ \E f \in go \cap Broken : b \in SkipSet(s1, f)
                                  THEN "SKIPPED" ELSE s1[b]]
        /\ r2 = [b \in Blocks |-> IF ~disposed /\ \E f \in (go \cap upTo) \cap Broken : b \in SkipSet(s2, f)
                                  THEN "SKIPPED" ELSE s2[b]]
    BY DEF PassStates
  <2>3. \A f \in go \cap Broken : f \in upTo
    <3> TAKE f \in go \cap Broken
    <3>1. f \in Blocks /\ Rank[f] \in Nat /\ Rank[f] <= Rank[f]
      BY RankAssumption
    <3> QED BY <3>1
  <2>4. go \cap Broken = (go \cap upTo) \cap Broken
    BY <2>3
  <2>5. \A n \in cand : s[n] \notin Terminal
    BY DEF Offers
  <2>6. /\ \A n \in Blocks : s1[n] = IF n \in go \cap Broken THEN "ERROR"
                                     ELSE IF n \in go THEN "RUNNING"
                                     ELSE IF n \in cand THEN "READY" ELSE s[n]
        /\ \A n \in Blocks : s2[n] = IF n \in go \cap Broken THEN "ERROR"
                                     ELSE IF n \in go \cap upTo THEN "RUNNING"
                                     ELSE IF n \in cand \cap upTo THEN "READY" ELSE s[n]
    BY <2>4
  <2> HIDE DEF s1, s2, r1, r2, upTo
  <2>7. \A n \in Blocks : /\ s1[n] \in Terminal <=> s2[n] \in Terminal
                          /\ s1[n] \in Terminal => s2[n] = s1[n]
    BY <2>5, <2>6
  <2>8. {n \in Blocks : s1[n] \notin Terminal} = {n \in Blocks : s2[n] \notin Terminal}
    BY <2>7
  <2>9. \A f : SkipSet(s1, f) = SkipSet(s2, f)
    BY <2>8 DEF SkipSet
  <2>10. \A n \in Blocks : r1[n] \in Terminal => r2[n] = r1[n]
    BY <2>2, <2>4, <2>7, <2>9
  <2> QED BY <2>1, <2>10 DEF r1
<1> QED BY <1>1, <1>2

\* What a scan over s, of at least the startable blocks, reports.
LEMMA PassReports ==
    ASSUME SuccessorsWait, NEW s \in [Blocks -> BlockStates], Feeds(s),
           NEW cand \in SUBSET Blocks, NEW go \in SUBSET cand, Offers(s, cand),
           ~disposed => Startable(s) \subseteq cand,
           \A n \in Blocks : s[n] = st[n] \/ (s[n] = "DONE" /\ st[n] \notin {"IDLE", "SKIPPED"}),
           st' = PassStates(s, cand, go)
    PROVE  SkipsOn /\ Starts
<1>1. ASSUME ~disposed, NEW b \in Blocks, NEW p \in Preds(b), st[p] \notin Terminal, st'[p] \in Failed
      PROVE  st'[b] = "SKIPPED"
  <2>1. p \in Blocks /\ st[b] \in {"IDLE", "SKIPPED"}
    BY <1>1 DEF SuccessorsWait, Preds
  <2>2. s[b] = st[b]
    BY <2>1
  <2>3. s[p] # "DONE"
    BY <1>1, <2>1, PassKeeps
  <2>4. s[p] \notin Terminal
    BY <1>1, <2>1, <2>3
  <2>5. CASE s[b] = "SKIPPED"
    BY <2>5, PassKeeps
  <2>6. CASE s[b] = "IDLE"
    BY <1>1, <2>4, <2>6, PassFacts
  <2> QED BY <2>1, <2>2, <2>5, <2>6
<1>2. ASSUME ~disposed, NEW b \in Blocks, st'[b] = "IDLE", \A p \in Preds(b) : st'[p] = "DONE"
      PROVE  FALSE
  <2>1. s[b] = "IDLE" /\ b \notin cand
    BY <1>2, PassFacts
  <2>2. ~Ready(s, b)
    BY <1>2, <2>1 DEF Startable
  <2>3. PICK p \in Preds(b) : s[p] # "DONE"
    BY <2>2 DEF Ready
  <2>4. p \in Blocks
    BY DEF Preds
  <2>5. st'[p] # "DONE"
    BY <2>3, <2>4, PassFacts
  <2> QED BY <1>2, <2>5
<1> QED BY <1>1, <1>2 DEF SkipsOn, Starts

\* A block ends with ERROR or CANCELLED.
LEMMA EndReports ==
    ASSUME SuccessorsWait, st \in [Blocks -> BlockStates], Feeds(st), phase' = phase,
           NEW b \in Blocks, st[b] \in {"RUNNING", "PAUSED"}, NEW to \in {"ERROR", "CANCELLED"},
           NEW s, s = [st EXCEPT ![b] = to],
           st' = PropagateSkip(s, b) \/ (disposed /\ st' = s),
           ckpt' = st', Record(st')
    PROVE  Reports
<1>1. /\ s \in [Blocks -> BlockStates] /\ Feeds(s) /\ s[b] = to
      /\ \A n \in Blocks \ {b} : s[n] = st[n]
  BY ChangeFeeds
<1>2. \A n \in SkipSet(s, b) : n \in Blocks /\ s[n] = "IDLE"
  BY <1>1, SkipFacts, SkipSparesStarted
<1>3. \A n \in Blocks : st'[n] = s[n] \/ (n \in SkipSet(s, b) /\ st'[n] = "SKIPPED")
  BY <1>1 DEF PropagateSkip
<1>4. ASSUME ~disposed, NEW n \in Blocks, NEW p \in Preds(n), st[p] \notin Terminal, st'[p] \in Failed
      PROVE  st'[n] = "SKIPPED"
  <2>1. p \in Blocks /\ st[n] \in {"IDLE", "SKIPPED"} /\ n # b
    BY <1>4 DEF SuccessorsWait, Preds
  <2>2. st' = [m \in Blocks |-> IF m \in SkipSet(s, b) THEN "SKIPPED" ELSE s[m]]
    BY <1>4 DEF PropagateSkip
  <2>3. p = b \/ p \in SkipSet(s, b)
    BY <1>1, <1>3, <1>4, <2>1
  <2>4. CASE st[n] = "IDLE"
    <3>1. n \in SkipSet(s, b)
      BY <1>1, <2>1, <2>3, <2>4, SkipClosed
    <3> QED BY <2>2, <3>1
  <2>5. CASE st[n] = "SKIPPED"
    BY <1>1, <1>3, <2>1, <2>5
  <2> QED BY <2>1, <2>4, <2>5
<1>5. ASSUME NEW n \in Blocks, st'[n] = "IDLE", \A p \in Preds(n) : st'[p] = "DONE"
      PROVE  Fed(n)
  <2>1. ASSUME NEW p \in Preds(n) PROVE st[p] = "DONE"
    <3>1. p \in Blocks /\ st'[p] = "DONE"
      BY <1>5 DEF Preds
    <3> QED BY <1>1, <1>3, <3>1
  <2> QED BY <2>1 DEF Fed
<1>6. Told
  BY DEF Record, Told
<1> QED BY <1>4, <1>5, <1>6 DEF Reports, SkipsOn, Starts, Saved, Late

\* A step that ends no block.
LEMMA QuietReports ==
    ASSUME st' = st \/ \E b \in Blocks, to \in {"RUNNING", "PAUSED"} :
                          st[b] \notin {"DONE", "IDLE"} /\ st' = [st EXCEPT ![b] = to],
           st \in [Blocks -> BlockStates], Late,
           row' = row \/ Record(st'), ckpt' = ckpt \/ ckpt' = st'
    PROVE  Reports
<1>1. \A b \in Blocks : st'[b] = st[b] \/ st'[b] \in {"RUNNING", "PAUSED"}
  OBVIOUS
<1>2. \A b \in Blocks : st'[b] = "DONE" => st[b] = "DONE"
  BY <1>1
<1>3. Told
  BY <1>1 DEF Told, Record
<1>4. Starts
  BY <1>2 DEF Starts, Fed, Preds
<1>5. SkipsOn
  BY <1>1 DEF SkipsOn, Preds
<1> QED BY <1>1, <1>3, <1>4, <1>5 DEF Reports, Saved

-----------------------------------------------------------------------------
(* The steps.                                                              *)

LEMMA ScanReports ==
    ASSUME ContractInv, SuccessorsWait, NEW p \in BOOLEAN,
           NEW cand, cand = Startable(st) \/ cand = Startable(st) \cup Retriable(st, task),
           Scan(st, task, cand, p), Record(st')
    PROVE  Reports
<1>1. PICK go \in GoChoices(cand, task, p) :
         st' = PassStates(st, cand, go) /\ ckpt' = PassCheckpoint(st, cand, go)
  BY DEF Scan
<1>2. st \in [Blocks -> BlockStates] /\ Feeds(st)
  BY FeedsIsProperty DEF ContractInv, SafeInv, TypeOK
<1>3. go \subseteq cand
  BY GoChoicesWithin
<1>4. cand \in SUBSET Blocks /\ Offers(st, cand) /\ Startable(st) \subseteq cand
  BY <1>2, OffersCandidates
<1>5. SkipsOn /\ Starts
  BY <1>1, <1>2, <1>3, <1>4, PassReports
<1>6. Saved
  BY <1>1, <1>2, <1>3, <1>4, PassSaves DEF Saved
<1>7. Told
  BY DEF Told, Record
<1> QED BY <1>5, <1>6, <1>7 DEF Reports

LEMMA BlockSucceedsReports ==
    ASSUME ContractInv, SuccessorsWait, NEW b \in Blocks, BlockSucceeds(b)
    PROVE  Reports
<1> DEFINE s == [st EXCEPT ![b] = "DONE"]
           cand == IF disposed THEN {} ELSE Startable(s) \cup Retriable(s, task)
<1>1. PICK go \in GoChoices(cand, task, paused) : st' = PassStates(s, cand, go)
  BY DEF BlockSucceeds
<1>2. /\ st \in [Blocks -> BlockStates] /\ paused \in BOOLEAN
      /\ st[b] \in {"RUNNING", "PAUSED", "CANCELLED"}
  BY DEF ContractInv, SafeInv, TypeOK, TaskInv, TaskDone, BlockSucceeds
<1>3. s \in [Blocks -> BlockStates] /\ Feeds(s)
  BY <1>2, FeedsIsProperty DEF ContractInv, SafeInv, Feeds, Ready, Preds
<1>4. \A n \in Blocks : s[n] = st[n] \/ (s[n] = "DONE" /\ st[n] \notin {"IDLE", "SKIPPED"})
  BY <1>2
<1> HIDE DEF s
<1>5. go \subseteq cand
  BY <1>2, GoChoicesWithin
<1>6. cand \in SUBSET Blocks /\ Offers(s, cand) /\ (~disposed => Startable(s) \subseteq cand)
  <2>1. CASE disposed
    BY <2>1 DEF Offers
  <2>2. CASE ~disposed
    BY <1>3, <2>2, OffersCandidates
  <2> QED BY <2>1, <2>2
<1> HIDE DEF cand
<1>7. SkipsOn /\ Starts
  BY <1>1, <1>3, <1>4, <1>5, <1>6, PassReports
<1>8. Told /\ Saved
  BY DEF Told, Saved, Record, BlockSucceeds
<1> QED BY <1>7, <1>8 DEF Reports

LEMMA BlockEndsReports ==
    ASSUME ContractInv, SuccessorsWait, NEW b \in Blocks, ~TaskDone(b),
           NEW to \in {"ERROR", "CANCELLED"}, BlockEnds(b, to)
    PROVE  Reports
<1>1. /\ st \in [Blocks -> BlockStates] /\ Feeds(st)
      /\ st[b] \in {"RUNNING", "PAUSED", "CANCELLED"}
  BY FeedsIsProperty DEF ContractInv, SafeInv, TypeOK, TaskInv, TaskDone
<1>2. ckpt' = st' /\ Record(st') /\ phase' = phase
  BY DEF BlockEnds, runVars
<1>3. CASE st[b] = "CANCELLED"
  BY <1>1, <1>2, <1>3, QuietReports DEF BlockEnds, Late
<1>4. CASE st[b] # "CANCELLED"
  <2>1. \/ st' = PropagateSkip([st EXCEPT ![b] = to], b)
        \/ disposed /\ st' = [st EXCEPT ![b] = to]
    BY <1>4 DEF BlockEnds
  <2> QED BY <1>1, <1>2, <1>4, <2>1, EndReports
<1> QED BY <1>3, <1>4

LEMMA CancelWorkflowReports ==
    ASSUME ContractInv, SuccessorsWait, CancelWorkflow
    PROVE  Reports
<1>1. /\ st' = [b \in Blocks |-> IF st[b] \in {"RUNNING", "PAUSED"} THEN "CANCELLED"
                                 ELSE IF st[b] \in {"IDLE", "READY"} THEN "SKIPPED" ELSE st[b]]
      /\ Record(st') /\ ckpt' = st'
  BY DEF CancelWorkflow, Cancellable
<1>2. Told /\ Saved
  BY <1>1 DEF Told, Saved, Record
<1>3. SkipsOn
  BY <1>1 DEF SkipsOn, SuccessorsWait
<1>4. Starts
  BY <1>1 DEF Starts
<1> QED BY <1>2, <1>3, <1>4 DEF Reports

LEMMA StepReports ==
    ASSUME ContractInv, SuccessorsWait, [Next]_vars, \A n \in Blocks : ~ExecuteFrom(n)
    PROVE  Reports
<1> USE DEF blockVars, runVars
<1>0. /\ st \in [Blocks -> BlockStates] /\ future \in [Blocks -> FutureStates] /\ paused \in BOOLEAN
      /\ Feeds(st) /\ TaskInv
  BY FeedsIsProperty DEF ContractInv, SafeInv, TypeOK
<1>1. CASE Execute
  BY <1>0, <1>1, ScanReports DEF Execute
<1>2. CASE \/ RunNeverStarts \/ HaltsNone \/ Dispose
           \/ Pause \/ RetryTimerFires \/ Over \/ UNCHANGED vars
  <2>1. UNCHANGED <<st, row, ckpt>> /\ Late
    BY <1>2 DEF RunNeverStarts, HaltsNone, Dispose, Pause, RetryTimerFires, Over, vars, Late
  <2> QED BY <1>0, <2>1, QuietReports
<1>3. ASSUME NEW b \in Blocks,
             \/ Halts(b) \/ TaskStarts(b) \/ TaskDies(b) \/ WorkerSpawned(b) \/ WorkerExits(b)
             \/ Answer(b) \/ Reap(b) \/ TaskUnwinds(b) \/ PromptDropped(b)
      PROVE  Reports
  <2>1. UNCHANGED <<st, row, ckpt>> /\ Late
    BY <1>3 DEF Halts, TaskStarts, TaskDies, WorkerSpawned, WorkerExits, Answer, Reap, TaskUnwinds,
                PromptDropped, Late
  <2> QED BY <1>0, <2>1, QuietReports
<1>4. ASSUME NEW b \in Blocks, BlockSucceeds(b) PROVE Reports
  BY <1>4, BlockSucceedsReports
<1>5. ASSUME NEW b \in Blocks, BlockFails(b) \/ BlockReportsCancelled(b) PROVE Reports
  BY <1>5, BlockEndsReports DEF BlockFails, BlockReportsCancelled, TaskDone
<1>6. ASSUME NEW b \in Blocks, ~TaskDone(b), st[b] \in {"RUNNING", "PAUSED"}, NEW to \in {"RUNNING", "PAUSED"},
             st' = [st EXCEPT ![b] = to], UNCHANGED <<row, ckpt, phase>>
      PROVE  Reports
  BY <1>0, <1>6, QuietReports DEF Late
<1>7. ASSUME NEW b \in Blocks, ~TaskDone(b), st[b] \in {"RUNNING", "PAUSED"}, NEW f, Decide(b, f)
      PROVE  Reports
  <2>1. CASE BlockEnds(b, "ERROR")
    BY <1>7, <2>1, BlockEndsReports
  <2>2. CASE st' = [st EXCEPT ![b] = "RUNNING"] /\ UNCHANGED <<row, ckpt, phase>>
    BY <1>6, <1>7, <2>2
  <2> QED BY <1>7, <2>1, <2>2 DEF Decide
<1>8. ASSUME NEW b \in Blocks, PromptReturns(b) \/ DecisionArrives(b) PROVE Reports
  <2>1. ~TaskDone(b) /\ st[b] \in {"RUNNING", "PAUSED"}
    BY <1>0, <1>8 DEF PromptReturns, DecisionArrives, TaskDone, TaskInv
  <2>2. CASE st' = [st EXCEPT ![b] = "PAUSED"] /\ UNCHANGED <<row, ckpt, phase>>
    BY <1>6, <2>1, <2>2
  <2>3. CASE \E f \in FutureStates : Decide(b, f)
    BY <1>7, <2>1, <2>3
  <2>4. future[b] \in FutureStates
    BY <1>0
  <2> QED BY <1>8, <2>2, <2>3, <2>4 DEF PromptReturns, DecisionArrives
<1>9. ASSUME NEW b \in Blocks, CancelBlock(b) PROVE Reports
  <2>1. /\ st[b] \in {"RUNNING", "PAUSED"} /\ st' = PropagateSkip([st EXCEPT ![b] = "CANCELLED"], b)
        /\ ckpt' = st' /\ Record(st') /\ phase' = phase
    BY <1>9 DEF CancelBlock, Cancellable
  <2> QED BY <1>0, <2>1, EndReports
<1>10. CASE CancelWorkflow
  BY <1>10, CancelWorkflowReports
<1>11. CASE Resume
  BY <1>11, ScanReports DEF Resume
<1>12. CASE RetryPass
  <2>1. Scan(st, task, Startable(st) \cup Retriable(st, task), paused) /\ Record(st')
    BY <1>12 DEF RetryPass
  <2> QED BY <1>0, <2>1, ScanReports
<1>13. LeaveWait \/ StopAwaited => HaltsNone \/ \E b \in Blocks : Halts(b)
  BY CleanupStep DEF ContractInv, SafeInv
<1> QED BY <1>1, <1>2, <1>3, <1>4, <1>5, <1>8, <1>9, <1>10, <1>11, <1>12, <1>13 DEF Next, RunStep, TaskStep
-----------------------------------------------------------------------------
(* The invariant.                                                          *)

DisposedInv == disposed => phase = "ended"

\* A run from a block starts with no checkpoint of its own.
FreshDisk == phase = "pending" /\ "from_here" \in Requests => \A b \in Blocks : ckpt[b] = "unsaved"

\* While the scheduler listens nothing waits behind a failure.
NoneOverlooked == ~disposed => \A b \in Blocks : st[b] = "IDLE" => \A p \in Preds(b) : st[p] \notin Failed

RowInv == \A b \in Blocks : row[b] # "none" => st[b] \in Terminal

\* The checkpoint knows every block that ended, unless the run took blocks over and has
\* not ended one yet.
DiskInv == \/ /\ \A b \in Blocks : ckpt[b] = "unsaved" /\ row[b] = "none"
              /\ \E b \in Blocks : st[b] \notin Terminal
           \/ \A b \in Blocks : st[b] \in Terminal => ckpt[b] = st[b]

OutInv == /\ DisposedInv /\ FreshDisk /\ SuccessorsWait /\ NoneOverlooked /\ RowInv /\ DiskInv
          /\ FailureSkipsSuccessors /\ NoBlockForgotten

\* What a step that takes nothing over does to a block that ended, or has not started.
Settles(b) ==
    /\ st[b] \in Terminal => st'[b] = st[b] \/ (st[b] = "CANCELLED" /\ st'[b] = "DONE")
    /\ st'[b] = "IDLE" => st[b] = "IDLE"
    /\ st[b] = "IDLE" => st'[b] \in {"IDLE", "SKIPPED"} \/ \A p \in Preds(b) : st'[p] = "DONE"

LEMMA StepSettles ==
    ASSUME ContractInv, ContractInv', Moved, \A n \in Blocks : ~ExecuteFrom(n), NEW b \in Blocks
    PROVE  Settles(b)
<1>1. st \in [Blocks -> BlockStates] /\ st' \in [Blocks -> BlockStates]
  BY DEF ContractInv, SafeInv, TypeOK
<1>2. st'[b] = "READY" => \A p \in Preds(b) : st'[p] = "DONE"
  BY DEF ContractInv, SafeInv, RunsOnlyWhenFed, Fed
<1>3. ASSUME NEW e \in SUBSET Blocks, Moves(st, st', e), Ends(st, st', e) PROVE Settles(b)
  <2>1. CASE b \in e
    BY <1>3, <2>1 DEF Ends, UnderWay, Settles
  <2>2. CASE b \notin e
    <3>1. CASE st[b] \in {"IDLE", "READY"}
      BY <1>2, <1>3, <2>2, <3>1 DEF Moves, Spread, Settles
    <3>2. CASE st[b] \notin {"IDLE", "READY"}
      BY <1>1, <1>3, <2>2, <3>2 DEF Moves, UnderWay, Settles
    <3> QED BY <3>1, <3>2
  <2> QED BY <2>1, <2>2
<1>4. CASE CancelWorkflow
  BY <1>1, <1>4 DEF CancelWorkflow, Cancellable, Settles
<1> QED BY <1>3, <1>4 DEF Moved

LEMMA DisposedNext == DisposedInv /\ [Next]_vars => DisposedInv'
BY PhaseNext DEF PhaseMoves, DisposedInv

LEMMA DiskNext == ContractInv /\ FreshDisk /\ [Next]_vars => FreshDisk'
<1> SUFFICES ASSUME ContractInv, FreshDisk, [Next]_vars, phase' = "pending", "from_here" \in Requests
             PROVE  \A b \in Blocks : ckpt'[b] = "unsaved"
  BY DEF FreshDisk
<1>1. phase = "pending"
  BY PhaseNext DEF PhaseMoves
<1>2. /\ \A b \in Blocks : task[b] = "none" /\ st[b] = "IDLE" /\ ckpt[b] = "unsaved"
      /\ ~pass
  BY <1>1 DEF ContractInv, SafeInv, PendingInv, FreshInv, FreshDisk
<1>3. ckpt' = ckpt
  BY <1>1, <1>2
  DEF Next, RunStep, TaskStep, vars, runVars, blockVars, Execute, ExecuteFrom, RunNeverStarts,
      LeaveWait, StopAwaited, StopNext, Dispose, TaskStarts, TaskDies, WorkerSpawned,
      BlockSucceeds, BlockFails, BlockReportsCancelled, TaskUnwinds, PromptDropped,
      PromptReturns, DecisionArrives, WorkerExits, Answer, CancelBlock, Cancellable, Reap, Pause,
      Resume, CancelWorkflow, RetryTimerFires, RetryPass, Over
<1> QED BY <1>2, <1>3

\* Every step but execute_from.
LEMMA FactsKeep ==
    ASSUME ContractInv, OutInv, ContractInv', DisposedInv', FreshDisk', disposed => disposed',
           Reports, \A b \in Blocks : Settles(b)
    PROVE  OutInv'
<1> USE DEF Settles
<1>1. \A b \in Blocks : Preds(b) \subseteq Blocks
  BY DEF Preds
<1>2. Told /\ SkipsOn /\ Starts /\ Saved
  BY DEF Reports
<1>3. SuccessorsWait'
  <2> SUFFICES ASSUME NEW b \in Blocks, NEW p \in Preds(b), st'[p] \notin Terminal
               PROVE  st'[b] \in {"IDLE", "SKIPPED"}
    BY DEF SuccessorsWait
  <2>1. p \in Blocks /\ st[p] \notin Terminal /\ st'[p] # "DONE"
    BY <1>1
  <2>2. st[b] \in {"IDLE", "SKIPPED"}
    BY <2>1 DEF OutInv, SuccessorsWait
  <2> QED BY <2>1, <2>2
<1>4. NoneOverlooked'
  <2> SUFFICES ASSUME ~disposed', NEW b \in Blocks, st'[b] = "IDLE", NEW p \in Preds(b), st'[p] \in Failed
               PROVE  FALSE
    BY DEF NoneOverlooked
  <2>1. p \in Blocks /\ ~disposed /\ st[b] = "IDLE"
    BY <1>1
  <2>2. st[p] \notin Failed
    BY <2>1 DEF OutInv, NoneOverlooked
  <2>3. st[p] \notin Terminal
    BY <2>1, <2>2
  <2> QED BY <1>2, <2>1, <2>3 DEF SkipsOn
<1>5. RowInv'
  BY <1>2 DEF OutInv, RowInv, Told
<1>6. DiskInv'
  <2>1. CASE \A b \in Blocks : st'[b] \in Terminal => ckpt'[b] = st'[b]
    BY <2>1 DEF DiskInv
  <2>2. CASE ckpt' = ckpt /\ \A b \in Blocks : st'[b] \in Terminal => st'[b] = st[b]
    <3>1. \A b \in Blocks : row'[b] = row[b]
      BY <1>2, <2>2 DEF Told
    <3> QED BY <2>2, <3>1 DEF OutInv, DiskInv
  <2> QED BY <1>2, <2>1, <2>2 DEF Saved
<1>7. FailureSkipsSuccessors'
  <2> SUFFICES ASSUME NEW e \in Edges, row'[e[1]] \in Failed PROVE st'[e[2]] = "SKIPPED"
    BY DEF FailureSkipsSuccessors
  <2>1. e[1] \in Blocks /\ e[2] \in Blocks /\ e[1] \in Preds(e[2])
    BY EdgesAssumption DEF Preds
  <2>2. CASE row'[e[1]] = row[e[1]]
    BY <2>1, <2>2 DEF OutInv, FailureSkipsSuccessors
  <2>3. CASE row'[e[1]] # row[e[1]]
    <3>1. ~disposed /\ st'[e[1]] # st[e[1]] /\ st'[e[1]] \in Failed
      BY <1>2, <2>1, <2>3 DEF Told
    <3>2. st[e[1]] \notin Terminal
      BY <2>1, <3>1
    <3> QED BY <1>2, <2>1, <3>1, <3>2 DEF SkipsOn
  <2> QED BY <2>2, <2>3
<1>8. NoBlockForgotten'
  <2> SUFFICES ASSUME phase' \in {"running", "stopping"}, NEW b \in Blocks, st'[b] = "IDLE"
               PROVE  ~Fed(b)' /\ \A p \in Preds(b) : st'[p] \notin Failed
    BY DEF NoBlockForgotten
  <2>1. ~disposed' /\ ~disposed
    BY DEF DisposedInv
  <2>2. ASSUME \A p \in Preds(b) : st'[p] = "DONE" PROVE FALSE
    <3>1. Fed(b) /\ phase \in {"running", "stopping"} /\ st[b] = "IDLE"
      BY <1>2, <2>1, <2>2 DEF Starts, Late
    <3> QED BY <3>1 DEF OutInv, NoBlockForgotten
  <2> QED BY <1>4, <2>1, <2>2 DEF Fed, NoneOverlooked
<1> QED BY <1>3, <1>4, <1>5, <1>6, <1>7, <1>8 DEF OutInv

\* execute_from: the blocks it takes over have ended already, and what it scans is new.
LEMMA ExecuteFromKeeps ==
    ASSUME ContractInv, OutInv, ContractInv', DisposedInv', FreshDisk',
           NEW target \in Blocks, ExecuteFrom(target)
    PROVE  /\ OutInv'
           /\ \A b \in Blocks : row'[b] = "SKIPPED" => \E p \in Preds(b) : row'[p] \in Failed
<1> DEFINE runSet   == {target} \cup Downstream(target)
           required == {p \in Blocks \ runSet : \E n \in runSet : p \in Preds(n)}
           reused   == required \cup UNION {Ancestors(p) : p \in required}
           from(recorded) == [b \in Blocks |-> IF b \in runSet THEN "IDLE"
                                               ELSE IF b \in reused THEN "DONE" ELSE recorded[b]]
<1>1. PICK recorded \in [Blocks \ (runSet \cup reused) -> Recorded] :
        \E go \in GoChoices(Startable(from(recorded)), task, paused) :
           /\ st' = PassStates(from(recorded), Startable(from(recorded)), go)
           /\ ckpt' = PassCheckpoint(from(recorded), Startable(from(recorded)), go)
           /\ row' = [b \in Blocks |-> IF row[b] = "none" /\ st'[b] # from(recorded)[b] /\ st'[b] \in Terminal
                                       THEN st'[b] ELSE row[b]]
  BY DEF ExecuteFrom
<1> DEFINE s == from(recorded)
<1>2. PICK go \in GoChoices(Startable(s), task, paused) :
        /\ st' = PassStates(s, Startable(s), go)
        /\ ckpt' = PassCheckpoint(s, Startable(s), go)
        /\ row' = [b \in Blocks |-> IF row[b] = "none" /\ st'[b] # s[b] /\ st'[b] \in Terminal
                                    THEN st'[b] ELSE row[b]]
  BY <1>1
<1>3. s \in [Blocks -> BlockStates] /\ \A b \in Blocks : s[b] \in {"IDLE"} \cup Terminal
  BY DEF Recorded
<1>4. /\ \A b \in Blocks \cap runSet : s[b] = "IDLE"
      /\ \A b \in Blocks \ runSet : s[b] \in Terminal
      /\ \A b \in required : s[b] = "DONE"
  BY DEF Recorded
<1>5. /\ target \in runSet
      /\ \A n \in Blocks : (\E p \in Preds(n) : p \in runSet) => n \in runSet
  <2>1. \A n \in Blocks : \A p \in Preds(n) : p \in runSet => n \in Downstream(target)
    BY ReachableClosed DEF Downstream
  <2> QED BY <2>1
<1>6. \A n \in runSet : \A p \in Preds(n) : p \notin runSet => p \in required
  BY DEF Preds
<1> HIDE DEF s, runSet, required
<1>7. Feeds(s)
  BY <1>3 DEF Feeds
<1>8. /\ paused \in BOOLEAN /\ phase = "pending" /\ ~disposed /\ disposed' = disposed
      /\ \A b \in Blocks : st[b] = "IDLE" /\ row[b] = "none" /\ ckpt[b] = "unsaved"
  BY DEF ExecuteFrom, runVars, ContractInv, SafeInv, TypeOK, FreshInv, OutInv, DisposedInv, FreshDisk, RowInv
<1>9. Startable(s) \in SUBSET Blocks /\ Offers(s, Startable(s)) /\ go \in SUBSET Startable(s)
  BY <1>3, <1>7, <1>8, OffersCandidates, GoChoicesWithin
<1>10. Moves(s, st', {})
  BY <1>2, <1>3, <1>7, <1>9, PassMoves
<1>11. \A b \in Blocks : /\ s[b] \in Terminal => st'[b] = s[b]
                         /\ s[b] = "IDLE" => Spread(s, st', b)
  BY <1>10 DEF Moves
<1>12. \A b \in Blocks : st'[b] = "READY" => \A p \in Preds(b) : st'[p] = "DONE"
  BY DEF ContractInv, SafeInv, RunsOnlyWhenFed, Fed
\* What an unfinished or failed predecessor in the run means.
<1>13. ASSUME NEW b \in Blocks, NEW p \in Preds(b), s[b] = "IDLE"
       PROVE  /\ p \in Blocks
              /\ (s[p] = "DONE" /\ st'[p] = "DONE") \/ s[p] = "IDLE"
  <2>1. p \in Blocks /\ b \in runSet
    BY <1>4, <1>13 DEF Preds
  <2>2. CASE p \in runSet
    BY <1>4, <2>1, <2>2
  <2>3. CASE p \notin runSet
    BY <1>4, <1>6, <1>11, <2>1, <2>3
  <2> QED BY <2>1, <2>2, <2>3
<1>14. ASSUME NEW b \in Blocks, NEW p \in Preds(b), s[p] = "IDLE"
       PROVE  s[b] = "IDLE" /\ (st'[p] \in Terminal => st'[b] = "SKIPPED")
  <2>1. p \in Blocks /\ p \in runSet
    BY <1>4, <1>14 DEF Preds
  <2>2. s[b] = "IDLE"
    BY <1>4, <1>5, <2>1
  <2>3. st'[p] \in Terminal => st'[b] = "SKIPPED"
    BY <1>2, <1>3, <1>8, <1>9, <1>14, <2>2, PassFacts
  <2> QED BY <2>2, <2>3
<1>15. \A b \in Blocks : row'[b] = IF st'[b] # s[b] /\ st'[b] \in Terminal THEN st'[b] ELSE "none"
  BY <1>2, <1>8
<1>16. SuccessorsWait'
  <2> SUFFICES ASSUME NEW b \in Blocks, NEW p \in Preds(b), st'[p] \notin Terminal
               PROVE  st'[b] \in {"IDLE", "SKIPPED"}
    BY DEF SuccessorsWait
  <2>1. p \in Blocks /\ s[p] = "IDLE"
    BY <1>3, <1>11 DEF Preds
  <2> QED BY <1>11, <1>12, <1>14, <2>1 DEF Spread
<1>17. NoneOverlooked'
  <2> SUFFICES ASSUME NEW b \in Blocks, st'[b] = "IDLE", NEW p \in Preds(b), st'[p] \in Failed
               PROVE  FALSE
    BY DEF NoneOverlooked
  <2>1. s[b] = "IDLE"
    BY <1>3, <1>11
  <2> QED BY <1>13, <1>14, <2>1
<1>18. RowInv'
  BY <1>15 DEF RowInv
<1>19. DiskInv'
  <2>1. CASE ckpt' = ckpt /\ \A b \in Blocks : st'[b] \in Terminal => st'[b] = s[b]
    <3>1. st'[target] \notin Terminal
      BY <1>4, <1>5, <2>1
    <3>2. \A b \in Blocks : ckpt'[b] = "unsaved" /\ row'[b] = "none"
      BY <1>8, <1>15, <2>1
    <3> QED BY <3>1, <3>2 DEF DiskInv
  <2>2. CASE \A b \in Blocks : st'[b] \in Terminal => ckpt'[b] = st'[b]
    BY <2>2 DEF DiskInv
  <2> QED BY <1>2, <1>3, <1>9, <2>1, <2>2, PassSaves
<1>20. FailureSkipsSuccessors'
  <2> SUFFICES ASSUME NEW e \in Edges, row'[e[1]] \in Failed PROVE st'[e[2]] = "SKIPPED"
    BY DEF FailureSkipsSuccessors
  <2>1. e[1] \in Blocks /\ e[2] \in Blocks /\ e[1] \in Preds(e[2])
    BY EdgesAssumption DEF Preds
  <2>2. st'[e[1]] # s[e[1]] /\ st'[e[1]] \in Failed
    BY <1>15, <2>1
  <2>3. s[e[1]] = "IDLE"
    BY <1>3, <1>11, <2>1, <2>2
  <2> QED BY <1>14, <2>1, <2>2, <2>3
<1>21. NoBlockForgotten'
  <2> SUFFICES ASSUME NEW b \in Blocks, st'[b] = "IDLE"
               PROVE  ~Fed(b)' /\ \A p \in Preds(b) : st'[p] \notin Failed
    BY DEF NoBlockForgotten
  <2>1. s[b] = "IDLE"
    BY <1>3, <1>11
  <2>2. ASSUME \A p \in Preds(b) : st'[p] = "DONE" PROVE FALSE
    <3>1. \A p \in Preds(b) : s[p] = "DONE"
      BY <1>11, <1>13, <2>1, <2>2 DEF Spread
    <3>2. b \in Startable(s)
      BY <2>1, <3>1 DEF Startable, Ready
    <3> QED BY <1>2, <1>3, <1>9, <3>2, PassFacts
  <2> QED BY <1>13, <1>14, <2>1, <2>2 DEF Fed
<1>22. ASSUME NEW b \in Blocks, row'[b] = "SKIPPED"
       PROVE  \E p \in Preds(b) : row'[p] \in Failed
  <2>1. st'[b] = "SKIPPED" /\ s[b] = "IDLE"
    BY <1>3, <1>11, <1>15, <1>22
  <2>2. PICK p \in Preds(b) : st'[p] \in Failed
    BY <1>11, <2>1 DEF Spread
  <2>3. p \in Blocks /\ s[p] = "IDLE"
    BY <1>13, <2>1, <2>2
  <2> QED BY <1>15, <2>2, <2>3
<1> QED BY <1>16, <1>17, <1>18, <1>19, <1>20, <1>21, <1>22 DEF OutInv

LEMMA OutNext == ContractInv /\ OutInv /\ [Next]_vars => OutInv'
<1> SUFFICES ASSUME ContractInv, OutInv, [Next]_vars PROVE OutInv'
  OBVIOUS
<1>1. ContractInv' /\ Moved /\ DisposedInv' /\ FreshDisk'
  BY ContractNext, DisposedNext, DiskNext DEF OutInv
<1>2. CASE \E b \in Blocks : ExecuteFrom(b)
  BY <1>1, <1>2, ExecuteFromKeeps
<1>3. CASE \A b \in Blocks : ~ExecuteFrom(b)
  <2>1. Reports
    BY <1>3, StepReports DEF OutInv
  <2>2. \A b \in Blocks : Settles(b)
    BY <1>1, <1>3, StepSettles
  <2>3. disposed => disposed'
    BY PhaseNext DEF PhaseMoves
  <2> QED BY <1>1, <2>1, <2>2, <2>3, FactsKeep
<1> QED BY <1>2, <1>3

LEMMA OutInit == Init => OutInv
BY EdgesAssumption DEF Init, OutInv, DisposedInv, FreshDisk, SuccessorsWait, NoneOverlooked, RowInv, DiskInv,
       FailureSkipsSuccessors, NoBlockForgotten, Preds

LEMMA OutHolds == Spec => [](ContractInv /\ OutInv)
<1>1. Init => ContractInv /\ OutInv
  BY ContractInit, OutInit
<1>2. (ContractInv /\ OutInv) /\ [Next]_vars => (ContractInv /\ OutInv)'
  BY ContractNext, OutNext
<1> QED BY <1>1, <1>2, PTL DEF Spec

-----------------------------------------------------------------------------
(* The theorems.                                                           *)

\* No event that should have started or skipped a block is lost: a block that is IDLE
\* while the run goes on still waits for something, and for nothing that failed.
THEOREM NothingForgotten == Spec => []NoBlockForgotten
<1>1. ContractInv /\ OutInv => NoBlockForgotten
  BY DEF OutInv
<1> QED BY <1>1, OutHolds, PTL

\* A block reported failed, cancelled or skipped has taken all its successors with it.
THEOREM FailuresSkipSuccessors == Spec => []FailureSkipsSuccessors
<1>1. ContractInv /\ OutInv => FailureSkipsSuccessors
  BY DEF OutInv
<1> QED BY <1>1, OutHolds, PTL

\* What the lineage recorder was told is in the checkpoint file when the handler returns.
THEOREM TerminalEventsOnDisk == Spec => []TerminalEventIsOnDisk
<1>1. ContractInv /\ OutInv => TerminalEventIsOnDisk
  BY DEF OutInv, RowInv, DiskInv, TerminalEventIsOnDisk
<1> QED BY <1>1, OutHolds, PTL

\* The completed event is set only when every block has ended, no task is left and the
\* checkpoint says so.
THEOREM CompletionIsFinal == Spec => []CompletedMeansOver
<1>1. ASSUME ContractInv, OutInv PROVE CompletedMeansOver
  <2>1. /\ ckpt \in [Blocks -> BlockStates \cup {"unsaved"}] /\ st \in [Blocks -> BlockStates]
        /\ OverInv
    BY <1>1 DEF ContractInv, SafeInv, TypeOK
  <2>2. ASSUME completed PROVE \A b \in Blocks : ckpt[b] = st[b]
    BY <1>1, <2>1, <2>2 DEF OutInv, DiskInv, OverInv
  <2> QED BY <2>1, <2>2 DEF OverInv, CompletedMeansOver, ActiveTasks
<1> QED BY <1>1, OutHolds, PTL

\* A block is reported skipped only behind one that is itself reported failed, cancelled
\* or skipped, or by a workflow cancel.
THEOREM SkipsHaveCauses == Spec => SkipHasCause
<1> DEFINE Cause(b) == row[b] # "SKIPPED" /\ row'[b] = "SKIPPED" => \E p \in Preds(b) : row'[p] \in Failed
<1>1. ASSUME ContractInv, OutInv, [Next]_vars, ~CancelWorkflow, NEW b \in Blocks
      PROVE  Cause(b)
  <2>1. ContractInv' /\ Moved /\ DisposedInv' /\ FreshDisk'
    BY <1>1, ContractNext, DisposedNext, DiskNext DEF OutInv
  <2>2. CASE \E n \in Blocks : ExecuteFrom(n)
    BY <1>1, <2>1, <2>2, ExecuteFromKeeps
  <2>3. CASE \A n \in Blocks : ~ExecuteFrom(n)
    <3> SUFFICES ASSUME row[b] # "SKIPPED", row'[b] = "SKIPPED"
                 PROVE  \E p \in Preds(b) : row'[p] \in Failed
      OBVIOUS
    <3>1. Told
      BY <1>1, <2>3, StepReports DEF OutInv, Reports
    <3>2. ~disposed /\ st'[b] # st[b] /\ st'[b] = "SKIPPED"
      BY <3>1 DEF Told
    <3>3. PICK e \in SUBSET Blocks : Moves(st, st', e) /\ Ends(st, st', e)
      BY <1>1, <2>1, <2>3 DEF Moved
    <3>4. b \notin e
      BY <3>2, <3>3 DEF Ends
    <3>5. st[b] \in {"IDLE", "READY"} /\ Spread(st, st', b)
      <4>1. st[b] \in BlockStates
        BY <1>1 DEF ContractInv, SafeInv, TypeOK
      <4> QED BY <3>2, <3>3, <3>4, <4>1 DEF Moves, UnderWay
    <3>6. PICK p \in Preds(b) : st'[p] \in Failed
      BY <3>2, <3>5 DEF Spread
    <3>7. p \in Blocks
      BY DEF Preds
    <3>8. st[p] # "DONE" /\ st[p] \notin Failed
      <4>1. CASE st[b] = "READY"
        <5>1. st[p] = "DONE" /\ Settles(p)
          BY <1>1, <2>1, <2>3, <3>7, <4>1, StepSettles DEF ContractInv, SafeInv, RunsOnlyWhenFed, Fed
        <5> QED BY <3>6, <5>1 DEF Settles
      <4>2. CASE st[b] = "IDLE"
        <5>1. st[p] \notin Failed /\ Settles(p)
          BY <1>1, <2>1, <2>3, <3>2, <3>7, <4>2, StepSettles DEF OutInv, NoneOverlooked
        <5> QED BY <3>6, <5>1 DEF Settles
      <4> QED BY <3>5, <4>1, <4>2
    <3>9. row[p] = "none"
      BY <1>1, <3>7, <3>8 DEF OutInv, RowInv
    <3> QED BY <3>1, <3>2, <3>6, <3>7, <3>8, <3>9 DEF Told
  <2> QED BY <2>2, <2>3
<1>2. ContractInv /\ OutInv /\ [Next]_vars =>
        [CancelWorkflow \/ \A b \in Blocks : row[b] # "SKIPPED" /\ row'[b] = "SKIPPED" =>
                                  \E p \in Preds(b) : row'[p] \in Failed]_vars
  BY <1>1
<1> QED BY <1>2, OutHolds, PTL DEF Spec, SkipHasCause
=============================================================================
