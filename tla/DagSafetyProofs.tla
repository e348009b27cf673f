-------------------------- MODULE DagSafetyProofs --------------------------
(* The types and the safety of one run, for every workflow: any set of     *)
(* blocks, any edges, any interactive and broken blocks, any mix of        *)
(* requests.  What has to be true when a block runs, and what a failure    *)
(* does to the blocks behind it.                                           *)
EXTENDS DagScheduler, WorkflowDagProofs

USE DEF Terminal, BlockStates, TaskStates, FutureStates

-----------------------------------------------------------------------------
(* The helpers.                                                            *)

LEMMA PassStatesType ==
    ASSUME NEW s \in [Blocks -> BlockStates], NEW cand, NEW go
    PROVE  PassStates(s, cand, go) \in [Blocks -> BlockStates]
BY DEF PassStates

LEMMA PassTasksType ==
    ASSUME NEW t \in [Blocks -> TaskStates], NEW go
    PROVE  PassTasks(t, go) \in [Blocks -> TaskStates]
BY DEF PassTasks

LEMMA PropagateSkipType ==
    ASSUME NEW s \in [Blocks -> BlockStates], NEW b \in Blocks
    PROVE  PropagateSkip(s, b) \in [Blocks -> BlockStates]
BY DEF PropagateSkip

LEMMA PassCheckpointType ==
    ASSUME NEW s \in [Blocks -> BlockStates], NEW cand, NEW go,
           ckpt \in [Blocks -> BlockStates \cup {"unsaved"}]
    PROVE  PassCheckpoint(s, cand, go) \in [Blocks -> BlockStates \cup {"unsaved"}]
<1> DEFINE upTo == {b \in Blocks : \E f \in go \cap Broken : Rank[b] <= Rank[f]}
<1>1. PassStates(s, cand \cap upTo, go \cap upTo) \in [Blocks -> BlockStates]
  BY PassStatesType
<1> QED BY <1>1 DEF PassCheckpoint

LEMMA EnteredType ==
    ASSUME NEW t, NEW go, ahead \in [Blocks -> SUBSET Blocks]
    PROVE  Entered(t, go) \in [Blocks -> SUBSET Blocks]
BY DEF Entered, ActiveTasks

LEMMA ScanType ==
    ASSUME TypeOK, NEW s \in [Blocks -> BlockStates], NEW cand, NEW p \in BOOLEAN,
           Scan(s, task, cand, p)
    PROVE  /\ st' \in [Blocks -> BlockStates]
           /\ task' \in [Blocks -> TaskStates] /\ ahead' \in [Blocks -> SUBSET Blocks]
           /\ timer' \in BOOLEAN
           /\ ckpt' \in [Blocks -> BlockStates \cup {"unsaved"}]
           /\ completed' \in BOOLEAN
<1>1. PICK go : /\ st' = PassStates(s, cand, go)
                /\ task' = PassTasks(task, go) /\ ahead' = Entered(task, go)
                /\ timer' = PassTimer(cand, go, p)
                /\ ckpt' = PassCheckpoint(s, cand, go)
                /\ completed' = (completed \/ (~disposed /\ go \cap Broken # {} /\ Completes(st', task')))
  BY DEF Scan
<1>2. timer' \in BOOLEAN
  BY <1>1 DEF PassTimer, TypeOK
<1>3. completed' \in BOOLEAN
  BY <1>1 DEF TypeOK
<1>4. st' \in [Blocks -> BlockStates]
  BY <1>1, PassStatesType
<1>5. task' \in [Blocks -> TaskStates]
  BY <1>1, PassTasksType DEF TypeOK
<1>6. ckpt' \in [Blocks -> BlockStates \cup {"unsaved"}]
  BY <1>1, PassCheckpointType DEF TypeOK
<1>7. ahead' \in [Blocks -> SUBSET Blocks]
  BY <1>1, EnteredType DEF TypeOK
<1> QED BY <1>2, <1>3, <1>4, <1>5, <1>6, <1>7

LEMMA RecordType ==
    ASSUME TypeOK, NEW s \in [Blocks -> BlockStates], Record(s)
    PROVE  row' \in [Blocks -> Terminal \cup {"none"}]
BY DEF Record, TypeOK

LEMMA LeaveType ==
    ASSUME TypeOK, NEW b \in Blocks, NEW s, NEW t \in [Blocks -> TaskStates], Leave(b, s, t)
    PROVE  /\ task' \in [Blocks -> TaskStates]
           /\ future' \in [Blocks -> FutureStates]
           /\ completed' \in BOOLEAN
BY DEF Leave, CheckCompletion, Completes, TypeOK

LEMMA BlockEndsType ==
    ASSUME TypeOK, NEW b \in Blocks, NEW to \in BlockStates, BlockEnds(b, to)
    PROVE  TypeOK'
<1>1. [st EXCEPT ![b] = to] \in [Blocks -> BlockStates]
  BY DEF TypeOK
<1>2. st' \in [Blocks -> BlockStates]
  BY <1>1, PropagateSkipType DEF BlockEnds, TypeOK
<1>3. /\ task' \in [Blocks -> TaskStates]
      /\ future' \in [Blocks -> FutureStates]
      /\ completed' \in BOOLEAN
  BY LeaveType DEF BlockEnds, TypeOK
<1>4. row' \in [Blocks -> Terminal \cup {"none"}]
  BY <1>2, RecordType DEF BlockEnds
<1> QED BY <1>2, <1>3, <1>4 DEF BlockEnds, TypeOK, runVars

LEMMA DecideType ==
    ASSUME TypeOK, NEW b \in Blocks, NEW f \in {"good", "bad"}, Decide(b, f)
    PROVE  TypeOK'
<1>1. CASE f = "bad" /\ BlockEnds(b, "ERROR")
  BY <1>1, BlockEndsType
<1>2. CASE f = "good" /\ ~BlockEnds(b, "ERROR")
  BY <1>2 DEF Decide, TypeOK, runVars
<1>3. CASE f = "good" /\ BlockEnds(b, "ERROR")
  BY <1>3, BlockEndsType
<1> QED BY <1>1, <1>2, <1>3 DEF Decide

-----------------------------------------------------------------------------
(* Types.                                                                  *)

LEMMA TypeInit == Init => TypeOK
<1> SUFFICES ASSUME Init PROVE TypeOK
  OBVIOUS
<1>1. /\ st \in [Blocks -> BlockStates] /\ task \in [Blocks -> TaskStates]
      /\ stage \in [Blocks -> {"prompt", "compute"}] /\ ahead \in [Blocks -> SUBSET Blocks]
      /\ cancelReq \in [Blocks -> BOOLEAN] /\ kill \in [Blocks -> BOOLEAN]
  BY DEF Init
<1>2. /\ future \in [Blocks -> FutureStates]
      /\ row \in [Blocks -> Terminal \cup {"none"}]
      /\ ckpt \in [Blocks -> BlockStates \cup {"unsaved"}]
  BY DEF Init
<1> QED BY <1>1, <1>2, Zenon DEF Init, TypeOK

\* The shutdown cleanup cancels the task of b, or finds none left to cancel.
Halts(b) ==
    /\ phase \in {"running", "stopping"} /\ ~TaskDone(b)
    /\ phase' = "stopping" /\ stopSet' \in SUBSET Blocks /\ stopping' = b
    /\ task' = Terminated(task, b) /\ cancelReq' = [cancelReq EXCEPT ![b] = TRUE]
    /\ UNCHANGED <<st, ahead, stage, kill, future, paused, timer, pass, completed, disposed, row, ckpt>>
HaltsNone ==
    /\ phase' = "ended" /\ stopSet' = {} /\ stopping' = NoBlock
    /\ UNCHANGED <<blockVars, ahead, paused, timer, pass, completed, disposed, row, ckpt>>

LEMMA CleanupStep ==
    ASSUME TypeOK, LeaveWait \/ StopAwaited
    PROVE  HaltsNone \/ \E b \in Blocks : Halts(b)
<1>1. PICK S \in SUBSET Blocks : StopNext(S) /\ phase \in {"running", "stopping"}
  BY DEF LeaveWait, StopAwaited, ActiveTasks, TypeOK
<1>2. UNCHANGED <<st, ahead, stage, kill, future, paused, timer, pass, completed, disposed, row, ckpt>>
  BY DEF LeaveWait, StopAwaited
<1> QED BY <1>1, <1>2 DEF StopNext, Halts, HaltsNone, blockVars

LEMMA TypeNext == TypeOK /\ [Next]_vars => TypeOK'
<1> SUFFICES ASSUME TypeOK, [Next]_vars PROVE TypeOK'
  OBVIOUS
<1> USE DEF blockVars, runVars
<1>1. CASE Execute
  BY <1>1, ScanType, RecordType DEF Execute, TypeOK
<1>2. ASSUME NEW target \in Blocks, ExecuteFrom(target) PROVE TypeOK'
  <2> DEFINE runSet   == {target} \cup Downstream(target)
             required == {p \in Blocks \ runSet : \E n \in runSet : p \in Preds(n)}
             reused   == required \cup UNION {Ancestors(p) : p \in required}
  <2>1. PICK recorded \in [Blocks \ (runSet \cup reused) -> Recorded] :
          LET s == [b \in Blocks |-> IF b \in runSet THEN "IDLE"
                                     ELSE IF b \in reused THEN "DONE" ELSE recorded[b]]
          IN  \E go \in GoChoices(Startable(s), task, paused) :
                    /\ st' = PassStates(s, Startable(s), go)
                    /\ task' = PassTasks(task, go) /\ ahead' = Entered(task, go)
                    /\ timer' = PassTimer(Startable(s), go, paused)
                    /\ ckpt' = PassCheckpoint(s, Startable(s), go)
                    /\ completed' = Completes(st', task')
                    /\ row' = [b \in Blocks |-> IF row[b] = "none" /\ st'[b] # s[b] /\ st'[b] \in Terminal
                                                THEN st'[b] ELSE row[b]]
    BY <1>2 DEF ExecuteFrom
  <2> DEFINE s == [b \in Blocks |-> IF b \in runSet THEN "IDLE"
                                    ELSE IF b \in reused THEN "DONE" ELSE recorded[b]]
  <2>2. s \in [Blocks -> BlockStates]
    BY DEF Recorded
  <2> HIDE DEF s
  <2>3. PICK go : /\ st' = PassStates(s, Startable(s), go)
                  /\ task' = PassTasks(task, go) /\ ahead' = Entered(task, go)
                  /\ timer' = PassTimer(Startable(s), go, paused)
                  /\ ckpt' = PassCheckpoint(s, Startable(s), go)
                  /\ completed' = Completes(st', task')
                  /\ row' = [b \in Blocks |-> IF row[b] = "none" /\ st'[b] # s[b] /\ st'[b] \in Terminal
                                              THEN st'[b] ELSE row[b]]
    BY <2>1 DEF s
  <2>4. st' \in [Blocks -> BlockStates]
    BY <2>2, <2>3, PassStatesType
  <2>5. task' \in [Blocks -> TaskStates]
    BY <2>3, PassTasksType DEF TypeOK
  <2>6. ckpt' \in [Blocks -> BlockStates \cup {"unsaved"}]
    BY <2>2, <2>3, PassCheckpointType DEF TypeOK
  <2>7. timer' \in BOOLEAN /\ completed' \in BOOLEAN
    BY <2>3 DEF PassTimer, Completes, TypeOK
  <2>8. row' \in [Blocks -> Terminal \cup {"none"}]
    BY <2>3 DEF TypeOK
  <2>9. ahead' \in [Blocks -> SUBSET Blocks]
    BY <2>3, EnteredType DEF TypeOK
  <2> QED BY <1>2, <2>4, <2>5, <2>6, <2>7, <2>8, <2>9 DEF ExecuteFrom, TypeOK
<1>3. CASE RunNeverStarts \/ HaltsNone \/ Dispose
  BY <1>3 DEF RunNeverStarts, HaltsNone, Dispose, ActiveTasks, TypeOK
<1>4. ASSUME NEW b \in Blocks, Halts(b) PROVE TypeOK'
  BY <1>4 DEF Halts, Terminated, TypeOK
<1>5. ASSUME NEW b \in Blocks, TaskStarts(b) \/ TaskDies(b) \/ WorkerSpawned(b) PROVE TypeOK'
  <2>1. CASE TaskStarts(b)
    <3>1. task' \in [Blocks -> TaskStates]
      BY <2>1 DEF TaskStarts, TypeOK
    <3>2. future' \in [Blocks -> FutureStates] /\ stage' \in [Blocks -> {"prompt", "compute"}]
      BY <2>1 DEF TaskStarts, TypeOK
    <3> QED BY <2>1, <3>1, <3>2 DEF TaskStarts, TypeOK
  <2>2. CASE TaskDies(b)
    <3>1. task' \in [Blocks -> TaskStates] /\ cancelReq' \in [Blocks -> BOOLEAN]
      BY <2>2 DEF TaskDies, TypeOK
    <3> QED BY <2>2, <3>1 DEF TaskDies, TypeOK
  <2>3. CASE WorkerSpawned(b)
    BY <2>3 DEF WorkerSpawned, TypeOK
  <2> QED BY <1>5, <2>1, <2>2, <2>3
<1>6. ASSUME NEW b \in Blocks, BlockSucceeds(b) PROVE TypeOK'
  <2> DEFINE s == [st EXCEPT ![b] = "DONE"]
             cand == IF disposed THEN {} ELSE Startable(s) \cup Retriable(s, task)
  <2>1. s \in [Blocks -> BlockStates]
    BY DEF TypeOK
  <2> HIDE DEF s
  <2>2. PICK go : /\ st' = PassStates(s, cand, go)
                  /\ timer' = PassTimer(cand, go, paused)
                  /\ ahead' = Entered(task, go)
                  /\ Leave(b, st', PassTasks(task, go))
    BY <1>6 DEF BlockSucceeds, s
  <2>3. st' \in [Blocks -> BlockStates]
    BY <2>1, <2>2, PassStatesType
  <2>4. PassTasks(task, go) \in [Blocks -> TaskStates]
    BY PassTasksType DEF TypeOK
  <2>5. /\ task' \in [Blocks -> TaskStates]
        /\ future' \in [Blocks -> FutureStates]
        /\ completed' \in BOOLEAN
    BY <2>2, <2>4, LeaveType
  <2>6. timer' \in BOOLEAN
    BY <2>2 DEF PassTimer, TypeOK
  <2>7. row' \in [Blocks -> Terminal \cup {"none"}]
    BY <1>6, <2>3, RecordType DEF BlockSucceeds
  <2>8. ahead' \in [Blocks -> SUBSET Blocks]
    BY <2>2, EnteredType DEF TypeOK
  <2> QED BY <1>6, <2>3, <2>5, <2>6, <2>7, <2>8 DEF BlockSucceeds, TypeOK
<1>7. ASSUME NEW b \in Blocks, BlockFails(b) \/ BlockReportsCancelled(b) PROVE TypeOK'
  BY <1>7, BlockEndsType DEF BlockFails, BlockReportsCancelled
<1>8. ASSUME NEW b \in Blocks, TaskUnwinds(b) \/ PromptDropped(b) PROVE TypeOK'
  <2>1. Leave(b, st, task)
    BY <1>8 DEF TaskUnwinds, PromptDropped
  <2> QED BY <1>8, <2>1, LeaveType DEF TaskUnwinds, PromptDropped, TypeOK
<1>9. ASSUME NEW b \in Blocks, PromptReturns(b) PROVE TypeOK'
  <2>1. CASE future[b] = "pending" /\ Decide(b, "good")
    BY <2>1, DecideType
  <2>2. CASE future[b] # "pending" /\ Decide(b, future[b])
    <3>1. future[b] \in {"good", "bad"}
      BY <2>2 DEF Decide
    <3> QED BY <2>2, <3>1, DecideType
  <2>3. CASE /\ st' = [st EXCEPT ![b] = "PAUSED"]
             /\ task' = [task EXCEPT ![b] = "waiting"]
             /\ UNCHANGED <<stage, cancelReq, kill, future, paused, timer, pass, completed, runVars, row, ckpt>>
    BY <2>3 DEF TypeOK
  <2> QED BY <1>9, <2>1, <2>2, <2>3 DEF PromptReturns
<1>10. ASSUME NEW b \in Blocks, DecisionArrives(b) PROVE TypeOK'
  BY <1>10, DecideType DEF DecisionArrives
<1>11. ASSUME NEW b \in Blocks, WorkerExits(b) \/ Answer(b) \/ Reap(b) PROVE TypeOK'
  <2>1. CASE WorkerExits(b)
    BY <2>1 DEF WorkerExits, TypeOK
  <2>2. CASE Answer(b)
    BY <2>2 DEF Answer, TypeOK
  <2>3. CASE Reap(b)
    BY <2>3 DEF Reap, Terminated, TypeOK
  <2> QED BY <1>11, <2>1, <2>2, <2>3
<1>12. ASSUME NEW b \in Blocks, CancelBlock(b) PROVE TypeOK'
  <2>1. [st EXCEPT ![b] = "CANCELLED"] \in [Blocks -> BlockStates]
    BY DEF TypeOK
  <2>2. st' \in [Blocks -> BlockStates]
    BY <1>12, <2>1, PropagateSkipType DEF CancelBlock
  <2>3. row' \in [Blocks -> Terminal \cup {"none"}]
    BY <1>12, <2>2, RecordType DEF CancelBlock
  <2>4. cancelReq' \in [Blocks -> BOOLEAN]
    BY <1>12 DEF CancelBlock, TypeOK
  <2>5. task' \in [Blocks -> TaskStates] /\ future' \in [Blocks -> FutureStates]
    BY <1>12 DEF CancelBlock, Terminated, TypeOK
  <2>6. completed' \in BOOLEAN
    BY <1>12 DEF CancelBlock, CheckCompletion, Completes, TypeOK
  <2>7. ckpt' = st' /\ UNCHANGED <<stage, kill, paused, timer, pass, runVars>>
    BY <1>12 DEF CancelBlock
  <2> QED BY <2>2, <2>3, <2>4, <2>5, <2>6, <2>7 DEF TypeOK
<1>13. CASE CancelWorkflow
  <2>1. st' \in [Blocks -> BlockStates]
    BY <1>13 DEF CancelWorkflow, TypeOK
  <2>2. row' \in [Blocks -> Terminal \cup {"none"}]
    BY <1>13, <2>1, RecordType DEF CancelWorkflow
  <2>3. cancelReq' \in [Blocks -> BOOLEAN] /\ kill' \in [Blocks -> BOOLEAN] /\ future' \in [Blocks -> FutureStates]
    BY <1>13 DEF CancelWorkflow, TypeOK
  <2> QED BY <1>13, <2>1, <2>2, <2>3 DEF CancelWorkflow, CheckCompletion, Completes, TypeOK
<1>14. CASE Pause \/ RetryTimerFires \/ Over \/ UNCHANGED vars
  <2>1. CASE Pause
    BY <2>1 DEF Pause, TypeOK
  <2>2. CASE RetryTimerFires
    BY <2>2 DEF RetryTimerFires, TypeOK
  <2>3. CASE UNCHANGED vars
    BY <2>3 DEF vars, TypeOK
  <2> QED BY <1>14, <2>1, <2>2, <2>3 DEF Over
<1>15. CASE Resume
  BY <1>15, ScanType, RecordType DEF Resume, TypeOK
<1>16. CASE RetryPass
  <2>1. paused \in BOOLEAN /\ st \in [Blocks -> BlockStates]
    BY DEF TypeOK
  <2>2. Scan(st, task, Startable(st) \cup Retriable(st, task), paused) /\ Record(st')
    BY <1>16 DEF RetryPass
  <2>3. /\ st' \in [Blocks -> BlockStates]
        /\ task' \in [Blocks -> TaskStates] /\ ahead' \in [Blocks -> SUBSET Blocks]
        /\ timer' \in BOOLEAN
        /\ ckpt' \in [Blocks -> BlockStates \cup {"unsaved"}]
        /\ completed' \in BOOLEAN
    BY <2>1, <2>2, ScanType
  <2>4. row' \in [Blocks -> Terminal \cup {"none"}]
    BY <2>2, <2>3, RecordType
  <2> QED BY <1>16, <2>3, <2>4 DEF RetryPass, TypeOK
<1>17. LeaveWait \/ StopAwaited => HaltsNone \/ \E b \in Blocks : Halts(b)
  BY CleanupStep
<1> QED BY <1>1, <1>2, <1>3, <1>4, <1>5, <1>6, <1>7, <1>8, <1>9, <1>10, <1>11, <1>12, <1>13,
           <1>14, <1>15, <1>16, <1>17 DEF Next, RunStep, TaskStep

\* Every variable keeps its type: no handler or task body, in any order, writes a
\* state, a task or a row outside the values the scheduler knows.
THEOREM TypeCorrect == Spec => []TypeOK
BY TypeInit, TypeNext, PTL DEF Spec

-----------------------------------------------------------------------------
(* Skipping.                                                               *)

\* PropagateSkip leaves terminal states alone, and a skipped block is fed by the
\* failed one or by another skipped one.
LEMMA SkipFacts ==
    ASSUME NEW s \in [Blocks -> BlockStates], NEW b \in Blocks, NEW n \in SkipSet(s, b)
    PROVE  /\ n \in Blocks /\ s[n] \notin Terminal
           /\ \E p \in Preds(n) : p = b \/ p \in SkipSet(s, b)
<1> DEFINE through == {m \in Blocks : s[m] \notin Terminal}
<1>1. through \in SUBSET Blocks
  OBVIOUS
<1>2. n \in through
  BY <1>1, ReachableWithin DEF SkipSet
<1>3. \E p \in Preds(n) : p = b \/ p \in Reachable(b, through)
  BY <1>1, ReachableHasCause DEF SkipSet
<1> QED BY <1>2, <1>3 DEF SkipSet

LEMMA SkipClosed ==
    ASSUME NEW s \in [Blocks -> BlockStates], NEW b \in Blocks,
           NEW n \in Blocks, s[n] \notin Terminal,
           NEW p \in Preds(n), p = b \/ p \in SkipSet(s, b)
    PROVE  n \in SkipSet(s, b)
<1> DEFINE through == {m \in Blocks : s[m] \notin Terminal}
<1>1. n \in through /\ through \in SUBSET Blocks
  OBVIOUS
<1>2. p = b \/ p \in Reachable(b, through)
  BY DEF SkipSet
<1> QED BY <1>1, <1>2, ReachableClosed DEF SkipSet

\* What a scan may hand to _dispatch.
Offers(s, cand) == \A c \in cand : s[c] \in {"IDLE", "READY"} /\ Ready(s, c)

\* The scan never skips what it dispatches, changes nothing else but to skip it, and
\* a skip is the work of a predecessor that failed in the same scan.
LEMMA PassFacts ==
    ASSUME NEW s \in [Blocks -> BlockStates], NEW cand \in SUBSET Blocks, NEW go \in SUBSET cand,
           Offers(s, cand), NEW n \in Blocks
    PROVE  /\ n \in cand => PassStates(s, cand, go)[n] = IF n \in go \cap Broken THEN "ERROR"
                                                         ELSE IF n \in go THEN "RUNNING" ELSE "READY"
           /\ n \notin cand => \/ PassStates(s, cand, go)[n] = s[n]
                               \/ /\ PassStates(s, cand, go)[n] = "SKIPPED"
                                  /\ s[n] \notin Terminal /\ ~Ready(s, n)
           /\ \A p \in Preds(n) :
                 ~disposed /\ s[n] \notin Terminal /\ s[p] \notin Terminal
                 /\ PassStates(s, cand, go)[p] \in Terminal => PassStates(s, cand, go)[n] = "SKIPPED"
<1> USE DEF Offers
<1> DEFINE r  == PassStates(s, cand, go)
           s1 == [b \in Blocks |-> IF b \in go \cap Broken THEN "ERROR"
                                   ELSE IF b \in go THEN "RUNNING"
                                   ELSE IF b \in cand THEN "READY" ELSE s[b]]
<1>1. s1 \in [Blocks -> BlockStates]
  OBVIOUS
<1>2. r = [b \in Blocks |-> IF ~disposed /\ \E f \in go \cap Broken : b \in SkipSet(s1, f)
                            THEN "SKIPPED" ELSE s1[b]]
  BY DEF PassStates
<1> HIDE DEF r
<1>3. ASSUME NEW m \in Blocks, NEW f \in go \cap Broken, m \in SkipSet(s1, f)
      PROVE  ~Ready(s, m) /\ m \notin cand /\ s[m] \notin Terminal
  <2>1. s1[m] \notin Terminal /\ \E p \in Preds(m) : p = f \/ p \in SkipSet(s1, f)
    BY <1>1, <1>3, SkipFacts
  <2>2. PICK p \in Preds(m) : p = f \/ p \in SkipSet(s1, f)
    BY <2>1
  <2>3. p \in Blocks
    BY DEF Preds
  <2>4. p \in SkipSet(s1, f) => s1[p] \notin Terminal
    BY <1>1, SkipFacts
  <2>5. s[p] # "DONE"
    BY <2>2, <2>3, <2>4
  <2>6. ~Ready(s, m)
    BY <2>5 DEF Ready
  <2> QED BY <2>1, <2>6
<1> HIDE DEF s1
<1>4. n \in cand => r[n] = s1[n]
  BY <1>2, <1>3
<1>5. n \notin cand => \/ r[n] = s1[n]
                       \/ r[n] = "SKIPPED" /\ s[n] \notin Terminal /\ ~Ready(s, n)
  BY <1>2, <1>3
<1>6. ASSUME NEW p \in Preds(n), ~disposed, s[n] \notin Terminal, s[p] \notin Terminal, r[p] \in Terminal
      PROVE  r[n] = "SKIPPED"
  <2>1. p \in Blocks
    BY DEF Preds
  <2>2. PICK f \in go \cap Broken : p = f \/ p \in SkipSet(s1, f)
    <3>1. CASE p \in go \cap Broken
      BY <3>1
    <3>2. CASE p \notin go \cap Broken
      <4>1. s1[p] \notin Terminal
        BY <2>1, <3>2, <1>6 DEF s1
      <4> QED BY <2>1, <4>1, <1>2, <1>6
    <3> QED BY <3>1, <3>2
  <2>3. s1[n] \notin Terminal
    <3>1. n \notin cand
      BY <1>6 DEF Ready
    <3> QED BY <3>1, <1>6 DEF s1
  <2>4. f \in Blocks
    OBVIOUS
  <2>5. n \in SkipSet(s1, f)
    BY <1>1, <2>2, <2>3, <2>4, SkipClosed
  <2> QED BY <1>6, <2>5, <1>2
<1>7. n \notin cand => \/ r[n] = s[n]
                       \/ r[n] = "SKIPPED" /\ s[n] \notin Terminal /\ ~Ready(s, n)
  BY <1>5 DEF s1
<1>8. n \in cand => r[n] = IF n \in go \cap Broken THEN "ERROR" ELSE IF n \in go THEN "RUNNING" ELSE "READY"
  BY <1>4 DEF s1
<1> QED BY <1>6, <1>7, <1>8 DEF r

-----------------------------------------------------------------------------
(* Only fed blocks start: as a property of a state function.               *)

Feeds(s) == \A b \in Blocks : s[b] \in {"READY", "RUNNING", "PAUSED"} => Ready(s, b)

LEMMA FeedsIsProperty == RunsOnlyWhenFed <=> Feeds(st)
BY DEF RunsOnlyWhenFed, Feeds, Fed, Ready

LEMMA OffersCandidates ==
    ASSUME NEW s \in [Blocks -> BlockStates], NEW t, Feeds(s)
    PROVE  /\ Offers(s, Startable(s)) /\ Startable(s) \subseteq Blocks
           /\ Offers(s, Startable(s) \cup Retriable(s, t)) /\ Retriable(s, t) \subseteq Blocks
BY DEF Offers, Startable, Retriable, Feeds

\* A scan changes no block that is DONE, has failed or is under way.
LEMMA PassKeeps ==
    ASSUME NEW s \in [Blocks -> BlockStates], Feeds(s),
           NEW cand \in SUBSET Blocks, NEW go \in SUBSET cand, Offers(s, cand),
           NEW n \in Blocks, s[n] \notin {"IDLE", "READY"}
    PROVE  PassStates(s, cand, go)[n] = s[n]
<1>1. n \notin cand
  BY DEF Offers
<1>2. s[n] \notin Terminal => Ready(s, n)
  BY DEF Feeds
<1> QED BY <1>1, <1>2, PassFacts

LEMMA PassFeeds ==
    ASSUME NEW s \in [Blocks -> BlockStates], Feeds(s),
           NEW cand \in SUBSET Blocks, NEW go \in SUBSET cand, Offers(s, cand)
    PROVE  Feeds(PassStates(s, cand, go))
<1> DEFINE r == PassStates(s, cand, go)
<1> HIDE DEF r
<1> SUFFICES ASSUME NEW n \in Blocks, r[n] \in {"READY", "RUNNING", "PAUSED"}, NEW p \in Preds(n)
             PROVE  r[p] = "DONE"
  BY DEF Feeds, Ready, r
<1>1. Ready(s, n)
  <2>1. CASE n \in cand
    BY <2>1 DEF Offers
  <2>2. CASE n \notin cand
    <3>1. r[n] = s[n]
      BY <2>2, PassFacts DEF r
    <3> QED BY <3>1 DEF Feeds
  <2> QED BY <2>1, <2>2
<1>2. p \in Blocks /\ s[p] = "DONE"
  BY <1>1 DEF Ready, Preds
<1> QED BY <1>2, PassKeeps DEF r

\* Only blocks that have not started are skipped for a failure.
LEMMA SkipSparesStarted ==
    ASSUME NEW s \in [Blocks -> BlockStates], NEW b \in Blocks, Feeds(s), s[b] # "DONE",
           NEW n \in SkipSet(s, b)
    PROVE  s[n] = "IDLE"
<1>1. /\ n \in Blocks /\ s[n] \notin Terminal
      /\ \E p \in Preds(n) : p = b \/ p \in SkipSet(s, b)
  BY SkipFacts
<1>2. PICK p \in Preds(n) : p = b \/ p \in SkipSet(s, b)
  BY <1>1
<1>3. s[p] # "DONE"
  BY <1>2, SkipFacts
<1>4. ~Ready(s, n)
  BY <1>3 DEF Ready
<1> QED BY <1>1, <1>4 DEF Feeds

LEMMA SkipFeeds ==
    ASSUME NEW s \in [Blocks -> BlockStates], NEW b \in Blocks, Feeds(s), s[b] # "DONE"
    PROVE  Feeds(PropagateSkip(s, b))
<1> SUFFICES ASSUME NEW n \in Blocks, PropagateSkip(s, b)[n] \in {"READY", "RUNNING", "PAUSED"},
                    NEW p \in Preds(n)
             PROVE  PropagateSkip(s, b)[p] = "DONE"
  BY DEF Feeds, Ready
<1>1. s[n] \in {"READY", "RUNNING", "PAUSED"}
  BY DEF PropagateSkip
<1>2. p \in Blocks /\ s[p] = "DONE"
  BY <1>1 DEF Feeds, Ready, Preds
<1>3. p \notin SkipSet(s, b)
  BY <1>2, SkipFacts
<1> QED BY <1>2, <1>3 DEF PropagateSkip

\* A block that was not DONE takes another state that is not DONE either.
LEMMA ChangeFeeds ==
    ASSUME NEW s \in [Blocks -> BlockStates], NEW b \in Blocks, Feeds(s),
           NEW to \in BlockStates,
           s[b] \in {"RUNNING", "PAUSED"} \/ to \in Terminal, s[b] # "DONE"
    PROVE  Feeds([s EXCEPT ![b] = to])
<1> DEFINE r == [s EXCEPT ![b] = to]
<1> SUFFICES ASSUME NEW n \in Blocks, r[n] \in {"READY", "RUNNING", "PAUSED"}, NEW p \in Preds(n)
             PROVE  r[p] = "DONE"
  BY DEF Feeds, Ready
<1>1. s[n] \in {"READY", "RUNNING", "PAUSED"}
  OBVIOUS
<1>2. p \in Blocks /\ s[p] = "DONE"
  BY <1>1 DEF Feeds, Ready, Preds
<1> QED BY <1>2

-----------------------------------------------------------------------------
(* The inductive invariant behind RunsOnlyWhenFed.                         *)

\* Only a block under way, or cancelled under way, has a live task; one that waits for
\* its decision and is not being cancelled is PAUSED.
TaskInv ==
    \A b \in Blocks :
        /\ ~TaskDone(b) => st[b] \in {"RUNNING", "PAUSED", "CANCELLED"}
        /\ task[b] = "waiting" /\ ~cancelReq[b] => st[b] = "PAUSED"

\* Before its first step the run has dispatched nothing; a cancel may have skipped it whole.
PendingInv ==
    phase = "pending" =>
        /\ \A b \in Blocks : task[b] = "none"
        /\ (\A b \in Blocks : st[b] = "IDLE") \/ (\A b \in Blocks : st[b] = "SKIPPED")
        /\ ~timer /\ ~pass

SafeInv == TypeOK /\ RunsOnlyWhenFed /\ TaskInv /\ PendingInv

\* A step of tasks alone: none comes to life, none stops being cancelled while it waits.
QuietStep ==
    /\ st' = st
    /\ \A b \in Blocks :
          /\ task'[b] \notin {"none", "dead"} => task[b] \notin {"none", "dead"}
          /\ task'[b] = "waiting" /\ ~cancelReq'[b] => task[b] = "waiting" /\ ~cancelReq[b]

LEMMA QuietSafe ==
    ASSUME SafeInv, QuietStep
    PROVE  RunsOnlyWhenFed' /\ TaskInv'
BY DEF SafeInv, QuietStep, RunsOnlyWhenFed, Fed, TaskInv, TaskDone

\* Of the block tasks only those of blocks that are RUNNING, PAUSED or CANCELLED exist,
\* so a scan leaves their blocks alone.
LEMMA PassSafe ==
    ASSUME SafeInv, NEW s \in [Blocks -> BlockStates], Feeds(s),
           NEW t \in [Blocks -> TaskStates],
           \A b \in Blocks : /\ t[b] \notin {"none", "dead"} => s[b] \in {"RUNNING", "PAUSED", "CANCELLED"}
                             /\ t[b] = "waiting" /\ ~cancelReq[b] => s[b] = "PAUSED",
           NEW cand \in SUBSET Blocks, NEW go \in SUBSET cand, Offers(s, cand),
           st' = PassStates(s, cand, go), task' = PassTasks(t, go), cancelReq' = cancelReq
    PROVE  RunsOnlyWhenFed' /\ TaskInv'
<1>1. Feeds(st')
  BY PassFeeds
<1>2. RunsOnlyWhenFed'
  BY <1>1 DEF RunsOnlyWhenFed, Feeds, Fed, Ready
<1>3. ASSUME NEW b \in Blocks
      PROVE  /\ task'[b] \notin {"none", "dead"} => st'[b] \in {"RUNNING", "PAUSED", "CANCELLED"}
             /\ task'[b] = "waiting" /\ ~cancelReq'[b] => st'[b] = "PAUSED"
  <2>1. CASE b \in go \ Broken
    <3>1. st'[b] = "RUNNING"
      BY <2>1, PassFacts
    <3>2. task'[b] = "new"
      BY <2>1 DEF PassTasks
    <3> QED BY <3>1, <3>2
  <2>2. CASE b \notin go \ Broken
    <3>1. task'[b] = t[b]
      BY <2>2 DEF PassTasks
    <3>2. s[b] \notin {"IDLE", "READY"} => st'[b] = s[b]
      BY PassKeeps
    <3> QED BY <3>1, <3>2
  <2> QED BY <2>1, <2>2
<1> QED BY <1>2, <1>3 DEF TaskInv, TaskDone

LEMMA GoChoicesWithin ==
    ASSUME NEW cand, NEW t, NEW p \in BOOLEAN, NEW go \in GoChoices(cand, t, p)
    PROVE  go \subseteq cand
BY DEF GoChoices

\* A scan over the present states, as execute(), resume() and the retry pass make it.
LEMMA ScanSafe ==
    ASSUME SafeInv, NEW p \in BOOLEAN,
           NEW cand, cand = Startable(st) \/ cand = Startable(st) \cup Retriable(st, task),
           Scan(st, task, cand, p), cancelReq' = cancelReq
    PROVE  RunsOnlyWhenFed' /\ TaskInv'
<1>1. PICK go \in GoChoices(cand, task, p) : st' = PassStates(st, cand, go) /\ task' = PassTasks(task, go)
  BY DEF Scan
<1>2. st \in [Blocks -> BlockStates] /\ task \in [Blocks -> TaskStates] /\ Feeds(st)
  BY FeedsIsProperty DEF SafeInv, TypeOK
<1>3. cand \in SUBSET Blocks /\ Offers(st, cand) /\ go \in SUBSET cand
  <2>1. go \in SUBSET cand
    BY GoChoicesWithin
  <2>2. /\ Offers(st, Startable(st)) /\ Startable(st) \subseteq Blocks
        /\ Offers(st, Startable(st) \cup Retriable(st, task)) /\ Retriable(st, task) \subseteq Blocks
    BY <1>2, OffersCandidates
  <2> QED BY <2>1, <2>2
<1>4. \A b \in Blocks : /\ task[b] \notin {"none", "dead"} => st[b] \in {"RUNNING", "PAUSED", "CANCELLED"}
                        /\ task[b] = "waiting" /\ ~cancelReq[b] => st[b] = "PAUSED"
  BY DEF SafeInv, TaskInv, TaskDone
<1>5. cancelReq' = cancelReq /\ go \in SUBSET cand
  BY <1>3
<1> QED
  <2> HIDE DEF Terminal, BlockStates, TaskStates, FutureStates
  <2> QED BY <1>1, <1>2, <1>3, <1>4, <1>5, PassSafe

\* A block that is under way fails or is cancelled, and skips what is behind it.
LEMMA EndSafe ==
    ASSUME SafeInv, NEW b \in Blocks, st[b] \in {"RUNNING", "PAUSED"}, NEW to \in {"ERROR", "CANCELLED"},
           \/ st' = [st EXCEPT ![b] = to]
           \/ st' = PropagateSkip([st EXCEPT ![b] = to], b)
    PROVE  /\ RunsOnlyWhenFed' /\ st'[b] = to
           /\ \A n \in Blocks \ {b} : st[n] # "IDLE" => st'[n] = st[n]
<1> DEFINE s == [st EXCEPT ![b] = to]
<1>1. st \in [Blocks -> BlockStates] /\ Feeds(st)
  BY FeedsIsProperty DEF SafeInv, TypeOK
<1>2. s \in [Blocks -> BlockStates] /\ Feeds(s) /\ s[b] = to /\ s[b] # "DONE"
  BY <1>1, ChangeFeeds
<1>3. \A n \in Blocks \ {b} : s[n] = st[n]
  BY <1>1
<1> HIDE DEF s
<1>4. CASE st' = s
  BY <1>2, <1>3, <1>4 DEF RunsOnlyWhenFed, Feeds, Fed, Ready
<1>5. CASE st' = PropagateSkip(s, b)
  <2>1. Feeds(st')
    BY <1>2, <1>5, SkipFeeds
  <2>2. RunsOnlyWhenFed'
    BY <2>1 DEF RunsOnlyWhenFed, Feeds, Fed, Ready
  <2>3. \A n \in SkipSet(s, b) : s[n] = "IDLE"
    BY <1>2, SkipSparesStarted
  <2>4. st' = [n \in Blocks |-> IF n \in SkipSet(s, b) THEN "SKIPPED" ELSE s[n]]
    BY <1>5 DEF PropagateSkip
  <2>5. b \notin SkipSet(s, b)
    BY <1>2, <2>3
  <2> QED BY <1>2, <1>3, <2>2, <2>3, <2>4, <2>5
<1> QED BY <1>4, <1>5 DEF s

-----------------------------------------------------------------------------
(* The steps, one by one.                                                  *)

\* A task ends its block with ERROR or CANCELLED.
LEMMA BlockEndsSafe ==
    ASSUME SafeInv, NEW b \in Blocks, ~TaskDone(b), NEW to \in {"ERROR", "CANCELLED"}, BlockEnds(b, to)
    PROVE  RunsOnlyWhenFed' /\ TaskInv'
<1>1. st[b] \in {"RUNNING", "PAUSED", "CANCELLED"} /\ task \in [Blocks -> TaskStates]
  BY DEF SafeInv, TaskInv, TypeOK
<1>2. task' = [task EXCEPT ![b] = "none"] /\ cancelReq' = cancelReq
  BY DEF BlockEnds, Leave
<1>3. CASE st[b] = "CANCELLED"
  <2>1. st' = st
    BY <1>3 DEF BlockEnds
  <2>2. QuietStep
    BY <1>1, <1>2, <2>1 DEF QuietStep
  <2> QED BY <2>2, QuietSafe
<1>4. CASE st[b] # "CANCELLED"
  <2>1. \/ st' = [st EXCEPT ![b] = to]
        \/ st' = PropagateSkip([st EXCEPT ![b] = to], b)
    BY <1>4 DEF BlockEnds
  <2>2. /\ RunsOnlyWhenFed' /\ st'[b] = to
        /\ \A n \in Blocks \ {b} : st[n] # "IDLE" => st'[n] = st[n]
    BY <1>1, <1>4, <2>1, EndSafe
  <2>3. ASSUME NEW n \in Blocks
        PROVE  /\ task'[n] \notin {"none", "dead"} => st'[n] \in {"RUNNING", "PAUSED", "CANCELLED"}
               /\ task'[n] = "waiting" /\ ~cancelReq'[n] => st'[n] = "PAUSED"
    <3>1. CASE n = b
      BY <1>1, <1>2, <3>1
    <3>2. CASE n # b
      <4>1. task'[n] = task[n]
        BY <1>1, <1>2, <3>2
      <4>2. /\ task[n] \notin {"none", "dead"} => st[n] \in {"RUNNING", "PAUSED", "CANCELLED"}
            /\ task[n] = "waiting" /\ ~cancelReq[n] => st[n] = "PAUSED"
        BY DEF SafeInv, TaskInv, TaskDone
      <4> QED BY <1>2, <2>2, <3>2, <4>1, <4>2
    <3> QED BY <3>1, <3>2
  <2> QED BY <2>2, <2>3 DEF TaskInv, TaskDone
<1> QED BY <1>3, <1>4

\* The decision of an interactive block is there.
LEMMA DecideSafe ==
    ASSUME SafeInv, NEW b \in Blocks, ~TaskDone(b), st[b] \in {"RUNNING", "PAUSED"},
           NEW f \in {"good", "bad"}, Decide(b, f)
    PROVE  RunsOnlyWhenFed' /\ TaskInv'
<1>1. CASE BlockEnds(b, "ERROR")
  BY <1>1, BlockEndsSafe
<1>2. CASE /\ st' = [st EXCEPT ![b] = "RUNNING"]
           /\ task' = [task EXCEPT ![b] = "launch"]
           /\ cancelReq' = cancelReq
  <2>1. st \in [Blocks -> BlockStates] /\ Feeds(st)
    BY FeedsIsProperty DEF SafeInv, TypeOK
  <2>2. Feeds([st EXCEPT ![b] = "RUNNING"])
    BY <2>1, ChangeFeeds
  <2>3. Feeds(st')
    BY <1>2, <2>2
  <2>4. RunsOnlyWhenFed'
    BY <2>3 DEF RunsOnlyWhenFed, Feeds, Fed, Ready
  <2>5. TaskInv'
    BY <1>2, <2>1 DEF SafeInv, TypeOK, TaskInv, TaskDone
  <2> QED BY <2>4, <2>5
<1> QED BY <1>1, <1>2 DEF Decide

LEMMA CancelBlockSafe ==
    ASSUME SafeInv, NEW b \in Blocks, CancelBlock(b)
    PROVE  RunsOnlyWhenFed' /\ TaskInv'
<1>1. /\ st[b] \in {"RUNNING", "PAUSED"}
      /\ st' = PropagateSkip([st EXCEPT ![b] = "CANCELLED"], b)
      /\ task' = Terminated(task, b)
      /\ cancelReq' = [cancelReq EXCEPT ![b] = @ \/ ~(HasHandle(b) \/ TaskDone(b))]
  BY DEF CancelBlock, Cancellable
<1>2. /\ RunsOnlyWhenFed' /\ st'[b] = "CANCELLED"
      /\ \A n \in Blocks \ {b} : st[n] # "IDLE" => st'[n] = st[n]
  BY <1>1, EndSafe
<1>3. task \in [Blocks -> TaskStates] /\ cancelReq \in [Blocks -> BOOLEAN]
  BY DEF SafeInv, TypeOK
<1>4. ASSUME NEW n \in Blocks
      PROVE  /\ task'[n] \notin {"none", "dead"} => st'[n] \in {"RUNNING", "PAUSED", "CANCELLED"}
             /\ task'[n] = "waiting" /\ ~cancelReq'[n] => st'[n] = "PAUSED"
  <2>1. CASE n = b
    <3>1. task'[b] = "waiting" => task[b] = "waiting"
      BY <1>1, <1>3 DEF Terminated
    <3>2. task[b] = "waiting" => cancelReq'[b]
      BY <1>1, <1>3 DEF HasHandle, TaskDone
    <3> QED BY <1>2, <2>1, <3>1, <3>2
  <2>2. CASE n # b
    <3>1. task'[n] = task[n] /\ cancelReq'[n] = cancelReq[n]
      BY <1>1, <1>3, <2>2 DEF Terminated
    <3>2. /\ task[n] \notin {"none", "dead"} => st[n] \in {"RUNNING", "PAUSED", "CANCELLED"}
          /\ task[n] = "waiting" /\ ~cancelReq[n] => st[n] = "PAUSED"
      BY DEF SafeInv, TaskInv, TaskDone
    <3> QED BY <1>2, <2>2, <3>1, <3>2
  <2> QED BY <2>1, <2>2
<1> QED BY <1>2, <1>4 DEF TaskInv, TaskDone

LEMMA CancelWorkflowSafe ==
    ASSUME SafeInv, CancelWorkflow
    PROVE  RunsOnlyWhenFed' /\ TaskInv'
<1> DEFINE victims == {b \in Blocks : st[b] \in {"RUNNING", "PAUSED"}}
<1>1. /\ st' = [b \in Blocks |-> IF b \in victims THEN "CANCELLED"
                                 ELSE IF st[b] \in {"IDLE", "READY"} THEN "SKIPPED" ELSE st[b]]
      /\ cancelReq' = [b \in Blocks |-> \/ cancelReq[b]
                                        \/ b \in victims /\ ~HasHandle(b) /\ ~TaskDone(b)]
      /\ task' = task
  BY DEF CancelWorkflow, Cancellable
<1>2. st \in [Blocks -> BlockStates]
  BY DEF SafeInv, TypeOK
<1>3. RunsOnlyWhenFed'
  BY <1>1, <1>2 DEF RunsOnlyWhenFed
<1>4. ASSUME NEW n \in Blocks
      PROVE  /\ task'[n] \notin {"none", "dead"} => st'[n] \in {"RUNNING", "PAUSED", "CANCELLED"}
             /\ task'[n] = "waiting" /\ ~cancelReq'[n] => st'[n] = "PAUSED"
  <2>1. /\ task[n] \notin {"none", "dead"} => st[n] \in {"RUNNING", "PAUSED", "CANCELLED"}
        /\ task[n] = "waiting" /\ ~cancelReq[n] => st[n] = "PAUSED"
    BY DEF SafeInv, TaskInv, TaskDone
  <2>2. task[n] = "waiting" /\ n \in victims => cancelReq'[n]
    BY <1>1 DEF HasHandle, TaskDone
  <2> QED BY <1>1, <1>2, <2>1, <2>2
<1> QED BY <1>3, <1>4 DEF TaskInv, TaskDone

LEMMA BlockSucceedsSafe ==
    ASSUME SafeInv, NEW b \in Blocks, BlockSucceeds(b)
    PROVE  RunsOnlyWhenFed' /\ TaskInv'
<1> DEFINE s == [st EXCEPT ![b] = "DONE"]
           cand == IF disposed THEN {} ELSE Startable(s) \cup Retriable(s, task)
           t == [task EXCEPT ![b] = "none"]
<1>1. PICK go \in GoChoices(cand, task, paused) :
         st' = PassStates(s, cand, go) /\ Leave(b, st', PassTasks(task, go))
  BY DEF BlockSucceeds
<1>2. /\ st \in [Blocks -> BlockStates] /\ task \in [Blocks -> TaskStates] /\ paused \in BOOLEAN
      /\ task[b] = "ok" /\ cancelReq' = cancelReq
  BY DEF SafeInv, TypeOK, BlockSucceeds
<1>3. st[b] \in {"RUNNING", "PAUSED", "CANCELLED"}
  BY <1>2 DEF SafeInv, TaskInv, TaskDone
<1>4. s \in [Blocks -> BlockStates] /\ Feeds(s)
  BY <1>2, <1>3, FeedsIsProperty DEF SafeInv, Feeds, Ready, Preds
<1>5. s[b] = "DONE" /\ \A n \in Blocks \ {b} : s[n] = st[n]
  BY <1>2
<1> HIDE DEF s
<1>6. cand \in SUBSET Blocks /\ Offers(s, cand) /\ go \in SUBSET cand
  <2>1. go \subseteq cand
    BY <1>2, GoChoicesWithin
  <2>2. CASE disposed
    BY <2>1, <2>2 DEF Offers
  <2>3. CASE ~disposed
    BY <1>4, <2>1, <2>3, OffersCandidates
  <2> QED BY <2>2, <2>3
<1>7. b \notin go
  BY <1>5, <1>6 DEF Offers
<1>8. task' = PassTasks(t, go)
  <2>1. task' = [PassTasks(task, go) EXCEPT ![b] = "none"]
    BY <1>1 DEF Leave
  <2> QED BY <1>2, <1>7, <2>1 DEF PassTasks
<1>9. /\ t \in [Blocks -> TaskStates]
      /\ \A n \in Blocks : /\ t[n] \notin {"none", "dead"} => s[n] \in {"RUNNING", "PAUSED", "CANCELLED"}
                           /\ t[n] = "waiting" /\ ~cancelReq[n] => s[n] = "PAUSED"
  BY <1>2, <1>5 DEF SafeInv, TaskInv, TaskDone
<1> HIDE DEF cand, t
<1> QED BY <1>1, <1>2, <1>4, <1>6, <1>8, <1>9, PassSafe

\* execute_from: the states it starts from are those of a fed run.
LEMMA ExecuteFromSafe ==
    ASSUME SafeInv, NEW target \in Blocks, ExecuteFrom(target)
    PROVE  RunsOnlyWhenFed' /\ TaskInv'
<1> DEFINE runSet   == {target} \cup Downstream(target)
           required == {p \in Blocks \ runSet : \E n \in runSet : p \in Preds(n)}
           reused   == required \cup UNION {Ancestors(p) : p \in required}
           from(recorded) == [b \in Blocks |-> IF b \in runSet THEN "IDLE"
                                               ELSE IF b \in reused THEN "DONE" ELSE recorded[b]]
<1>1. PICK recorded \in [Blocks \ (runSet \cup reused) -> Recorded] :
        \E go \in GoChoices(Startable(from(recorded)), task, paused) :
           /\ st' = PassStates(from(recorded), Startable(from(recorded)), go)
           /\ task' = PassTasks(task, go)
  BY DEF ExecuteFrom
<1> DEFINE s == from(recorded)
<1>2. PICK go \in GoChoices(Startable(s), task, paused) :
         st' = PassStates(s, Startable(s), go) /\ task' = PassTasks(task, go)
  BY <1>1
<1>3. s \in [Blocks -> BlockStates] /\ \A b \in Blocks : s[b] \in {"IDLE"} \cup Terminal
  BY DEF Recorded
<1> HIDE DEF s
<1>4. Feeds(s)
  BY <1>3 DEF Feeds
<1>5. paused \in BOOLEAN /\ task \in [Blocks -> TaskStates]
  BY DEF SafeInv, TypeOK
<1>6. Startable(s) \in SUBSET Blocks /\ Offers(s, Startable(s)) /\ go \in SUBSET Startable(s)
  BY <1>3, <1>4, <1>5, OffersCandidates, GoChoicesWithin
<1>7. cancelReq' = cancelReq /\ \A b \in Blocks : task[b] = "none"
  BY DEF ExecuteFrom, SafeInv, PendingInv
<1> QED BY <1>2, <1>3, <1>4, <1>5, <1>6, <1>7, PassSafe

LEMMA SafeInit == Init => SafeInv
<1> SUFFICES ASSUME Init PROVE SafeInv
  OBVIOUS
<1>1. TypeOK
  BY TypeInit
<1> QED BY <1>1 DEF Init, SafeInv, RunsOnlyWhenFed, TaskInv, TaskDone, PendingInv

\* How far the run is only moves on: no step goes back to an earlier phase, and the
\* scheduler leaves the EventBus once, at the end.
PhaseMoves ==
    /\ phase' = "pending" => phase = "pending"
    /\ phase' \in {"pending", "running"} => phase \in {"pending", "running"}
    /\ disposed => disposed'
    /\ disposed' => disposed \/ phase = "ended"
    /\ phase = "ended" => phase' = "ended"

LEMMA PhaseNext == [Next]_vars => PhaseMoves
<1> SUFFICES ASSUME [Next]_vars PROVE PhaseMoves
  OBVIOUS
<1>1. CASE LeaveWait \/ StopAwaited
  BY <1>1 DEF LeaveWait, StopAwaited, StopNext, PhaseMoves
<1>2. CASE Execute \/ RunNeverStarts \/ Dispose \/ \E b \in Blocks : ExecuteFrom(b)
  BY <1>2 DEF Execute, RunNeverStarts, Dispose, ExecuteFrom, PhaseMoves
<1>3. ASSUME UNCHANGED <<phase, disposed>> PROVE PhaseMoves
  BY <1>3 DEF PhaseMoves
<1>4. ASSUME NEW b \in Blocks, TaskStep(b) PROVE UNCHANGED <<phase, disposed>>
  <2>1. CASE TaskStarts(b) \/ TaskDies(b) \/ WorkerSpawned(b) \/ TaskUnwinds(b)
    BY <2>1 DEF TaskStarts, TaskDies, WorkerSpawned, TaskUnwinds, runVars
  <2>2. CASE BlockSucceeds(b) \/ BlockFails(b) \/ BlockReportsCancelled(b)
    BY <2>2 DEF BlockSucceeds, BlockFails, BlockReportsCancelled, BlockEnds, runVars
  <2>3. CASE PromptDropped(b) \/ PromptReturns(b) \/ DecisionArrives(b)
    <3>1. ASSUME NEW f, Decide(b, f) PROVE UNCHANGED <<phase, disposed>>
      BY <3>1 DEF Decide, BlockEnds, runVars
    <3> QED BY <2>3, <3>1 DEF PromptDropped, PromptReturns, DecisionArrives, runVars
  <2> QED BY <1>4, <2>1, <2>2, <2>3 DEF TaskStep
<1>5. ASSUME NEW b \in Blocks, WorkerExits(b) \/ Answer(b) \/ CancelBlock(b) \/ Reap(b)
      PROVE  UNCHANGED <<phase, disposed>>
  BY <1>5 DEF WorkerExits, Answer, CancelBlock, Reap, runVars, blockVars
<1>6. CASE Pause \/ Resume \/ CancelWorkflow \/ RetryTimerFires \/ RetryPass \/ Over \/ UNCHANGED vars
  BY <1>3, <1>6
  DEF Pause, Resume, CancelWorkflow, RetryTimerFires, RetryPass, Over, vars, runVars, blockVars
<1> QED BY <1>1, <1>2, <1>3, <1>4, <1>5, <1>6 DEF Next, RunStep

LEMMA PendingNext == SafeInv /\ [Next]_vars => PendingInv'
<1> SUFFICES ASSUME SafeInv, [Next]_vars, phase' = "pending"
             PROVE  /\ \A b \in Blocks : task'[b] = "none"
                    /\ (\A b \in Blocks : st'[b] = "IDLE") \/ (\A b \in Blocks : st'[b] = "SKIPPED")
                    /\ ~timer' /\ ~pass'
  BY DEF PendingInv
<1>1. phase = "pending"
  BY PhaseNext DEF PhaseMoves
<1>2. /\ \A b \in Blocks : task[b] = "none" /\ st[b] \in {"IDLE", "SKIPPED"}
      /\ (\A b \in Blocks : st[b] = "IDLE") \/ (\A b \in Blocks : st[b] = "SKIPPED")
      /\ ~timer /\ ~pass
  BY <1>1 DEF SafeInv, PendingInv
<1>3. CASE CancelWorkflow
  BY <1>2, <1>3 DEF CancelWorkflow, Cancellable
<1>4. ASSUME NEW b \in Blocks, Reap(b)
      PROVE  st' = st /\ task' = task /\ timer' = timer /\ pass' = pass
  BY <1>2, <1>4 DEF Reap, Terminated
<1>5. CASE UNCHANGED <<st, task, timer, pass>>
  BY <1>2, <1>5
<1> QED
  BY <1>1, <1>2, <1>3, <1>4, <1>5
  DEF Next, RunStep, TaskStep, vars, runVars, blockVars, Execute, ExecuteFrom, RunNeverStarts,
      LeaveWait, StopAwaited, StopNext, Dispose, TaskStarts, TaskDies, NextNew, WorkerSpawned,
      BlockSucceeds, BlockFails, BlockReportsCancelled, TaskUnwinds, PromptDropped,
      PromptReturns, DecisionArrives, WorkerExits, Answer, CancelBlock, Cancellable, Pause, Resume,
      RetryTimerFires, RetryPass, Over

LEMMA SafeNext == SafeInv /\ [Next]_vars => SafeInv'
<1> SUFFICES ASSUME SafeInv, [Next]_vars PROVE RunsOnlyWhenFed' /\ TaskInv'
  BY TypeNext, PendingNext DEF SafeInv
<1> USE DEF blockVars, runVars
<1>0. /\ st \in [Blocks -> BlockStates] /\ task \in [Blocks -> TaskStates]
      /\ cancelReq \in [Blocks -> BOOLEAN] /\ future \in [Blocks -> FutureStates] /\ paused \in BOOLEAN
  BY DEF SafeInv, TypeOK
<1>1. CASE Execute
  BY <1>0, <1>1, ScanSafe DEF Execute
<1>2. ASSUME NEW target \in Blocks, ExecuteFrom(target) PROVE RunsOnlyWhenFed' /\ TaskInv'
  BY <1>2, ExecuteFromSafe
<1>3. CASE \/ RunNeverStarts \/ HaltsNone \/ Dispose
           \/ Pause \/ RetryTimerFires \/ Over \/ UNCHANGED vars
  <2>1. st' = st /\ task' = task /\ cancelReq' = cancelReq
    BY <1>3 DEF RunNeverStarts, HaltsNone, Dispose, Pause, RetryTimerFires, Over, vars
  <2> QED BY <2>1, QuietSafe DEF QuietStep
<1>4. ASSUME NEW b \in Blocks,
             \/ Halts(b) \/ TaskStarts(b) \/ TaskDies(b) \/ WorkerSpawned(b) \/ WorkerExits(b)
             \/ Answer(b) \/ Reap(b)
      PROVE  RunsOnlyWhenFed' /\ TaskInv'
  <2>1. st' = st
    BY <1>4 DEF Halts, TaskStarts, TaskDies, WorkerSpawned, WorkerExits, Answer, Reap
  <2>2. CASE Halts(b)
    BY <1>0, <2>1, <2>2, QuietSafe DEF Halts, Terminated, TaskDone, QuietStep
  <2>3. CASE TaskStarts(b) \/ WorkerSpawned(b)
    BY <1>0, <2>1, <2>3, QuietSafe DEF TaskStarts, NextNew, WorkerSpawned, QuietStep
  <2>4. CASE TaskDies(b) \/ WorkerExits(b)
    BY <1>0, <2>1, <2>4, QuietSafe DEF TaskDies, NextNew, WorkerExits, QuietStep
  <2>5. CASE Answer(b) \/ Reap(b)
    BY <1>0, <2>1, <2>5, QuietSafe DEF Answer, Reap, Terminated, QuietStep
  <2> QED BY <1>4, <2>2, <2>3, <2>4, <2>5
<1>5. ASSUME NEW b \in Blocks, BlockSucceeds(b) PROVE RunsOnlyWhenFed' /\ TaskInv'
  BY <1>5, BlockSucceedsSafe
<1>6. ASSUME NEW b \in Blocks, BlockFails(b) \/ BlockReportsCancelled(b) PROVE RunsOnlyWhenFed' /\ TaskInv'
  BY <1>6, BlockEndsSafe DEF BlockFails, BlockReportsCancelled, TaskDone
<1>7. ASSUME NEW b \in Blocks, TaskUnwinds(b) \/ PromptDropped(b) PROVE RunsOnlyWhenFed' /\ TaskInv'
  <2>1. st' = st /\ task' = [task EXCEPT ![b] = "none"]
    BY <1>7 DEF TaskUnwinds, PromptDropped, Leave
  <2>2. \A n \in Blocks \ {b} : cancelReq'[n] = cancelReq[n]
    BY <1>0, <1>7 DEF TaskUnwinds, PromptDropped
  <2> QED BY <1>0, <2>1, <2>2, QuietSafe DEF QuietStep
<1>8. ASSUME NEW b \in Blocks, PromptReturns(b) PROVE RunsOnlyWhenFed' /\ TaskInv'
  <2>1. ~TaskDone(b) /\ st[b] \in {"RUNNING", "PAUSED"}
    BY <1>8 DEF PromptReturns, TaskDone, SafeInv, TaskInv
  <2>2. CASE Decide(b, "good")
    BY <2>1, <2>2, DecideSafe
  <2>3. CASE future[b] # "pending" /\ Decide(b, future[b])
    <3>1. future[b] \in {"good", "bad"}
      BY <2>3 DEF Decide
    <3> QED BY <2>1, <2>3, <3>1, DecideSafe
  <2>4. CASE /\ st' = [st EXCEPT ![b] = "PAUSED"]
             /\ task' = [task EXCEPT ![b] = "waiting"]
             /\ cancelReq' = cancelReq
    <3>1. Feeds([st EXCEPT ![b] = "PAUSED"])
      BY <1>0, <2>1, ChangeFeeds, FeedsIsProperty DEF SafeInv
    <3>2. Feeds(st')
      BY <2>4, <3>1
    <3>3. RunsOnlyWhenFed'
      BY <3>2 DEF RunsOnlyWhenFed, Feeds, Fed, Ready
    <3>4. TaskInv'
      BY <1>0, <2>4 DEF SafeInv, TaskInv, TaskDone
    <3> QED BY <3>3, <3>4
  <2> QED BY <1>8, <2>2, <2>3, <2>4 DEF PromptReturns
<1>9. ASSUME NEW b \in Blocks, DecisionArrives(b) PROVE RunsOnlyWhenFed' /\ TaskInv'
  <2>1. ~TaskDone(b) /\ st[b] = "PAUSED" /\ future[b] \in {"good", "bad"} /\ Decide(b, future[b])
    BY <1>9 DEF DecisionArrives, TaskDone, SafeInv, TaskInv
  <2> QED BY <2>1, DecideSafe
<1>10. ASSUME NEW b \in Blocks, CancelBlock(b) PROVE RunsOnlyWhenFed' /\ TaskInv'
  BY <1>10, CancelBlockSafe
<1>11. CASE CancelWorkflow
  BY <1>11, CancelWorkflowSafe
<1>12. CASE Resume
  BY <1>0, <1>12, ScanSafe DEF Resume
<1>13. CASE RetryPass
  <2>1. Scan(st, task, Startable(st) \cup Retriable(st, task), paused) /\ cancelReq' = cancelReq
    BY <1>13 DEF RetryPass
  <2> QED BY <1>0, <2>1, ScanSafe
<1>14. LeaveWait \/ StopAwaited => HaltsNone \/ \E b \in Blocks : Halts(b)
  BY CleanupStep DEF SafeInv
<1> QED BY <1>1, <1>2, <1>3, <1>4, <1>5, <1>6, <1>7, <1>8, <1>9, <1>10, <1>11, <1>12, <1>13, <1>14
        DEF Next, RunStep, TaskStep

\* A block is offered, runs or waits for its user only while every block that feeds it
\* is DONE, whatever failed, was cancelled, paused or refused meanwhile.
THEOREM OnlyFedBlocksRun == Spec => []RunsOnlyWhenFed
<1>1. SafeInv => RunsOnlyWhenFed
  BY DEF SafeInv
<1> QED BY SafeInit, SafeNext, <1>1, PTL DEF Spec
=============================================================================
