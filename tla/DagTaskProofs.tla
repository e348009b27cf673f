--------------------------- MODULE DagTaskProofs ---------------------------
(***************************************************************************)
(* What a block state says of the block's task, for every workflow: who    *)
(* moves an unfinished block, what a cancel stops, and what brings back a  *)
(* block the resource manager refused.                                     *)
(***************************************************************************)
EXTENDS DagContractProofs

USE DEF Terminal, BlockStates, TaskStates, FutureStates

\* What holds between the state of a block and its task, whatever was cancelled.
LiveAt(b) ==
    /\ cancelReq[b] => task[b] \notin {"none", "dead"}
    /\ st[b] = "PAUSED" => task[b] \in {"none", "waiting", "dead"}
    /\ st[b] \in {"IDLE", "READY"} => task[b] = "none"
    \* a cancel that finds no worker is on its way to the task
    /\ st[b] = "CANCELLED" /\ task[b] \in {"new", "launch", "waiting"} => cancelReq[b]
    \* until the shutdown cleanup, only a cancelled block loses its task
    /\ phase \in {"pending", "running"} =>
         /\ st[b] = "RUNNING" => task[b] \notin {"none", "waiting", "dead"} /\ ~cancelReq[b]
         /\ st[b] = "PAUSED" => task[b] = "waiting" /\ future[b] # "none" /\ ~cancelReq[b]

LiveInv == \A b \in Blocks : LiveAt(b)

\* The shutdown cleanup is never left for an earlier phase.
Onward == phase' \in {"pending", "running"} => phase \in {"pending", "running"}

LEMMA OnwardNext == [Next]_vars => Onward
BY PhaseNext DEF PhaseMoves, Onward

-----------------------------------------------------------------------------
(* One block through a step.                                               *)

\* A block nobody touches, or one that had not started and does not start now.
LEMMA OthersLive ==
    ASSUME NEW n \in Blocks, LiveAt(n), Onward,
           task'[n] = task[n], cancelReq'[n] = cancelReq[n], future'[n] = future[n],
           \/ st'[n] = st[n]
           \/ st[n] \in {"IDLE", "READY"} /\ st'[n] \in {"IDLE", "READY", "ERROR", "SKIPPED"}
    PROVE  LiveAt(n)'
BY DEF LiveAt, Onward

\* A block a scan over s meets.
LEMMA PassLive ==
    ASSUME NEW n \in Blocks, LiveAt(n), Onward, cancelReq \in [Blocks -> BOOLEAN],
           NEW s \in [Blocks -> BlockStates], Feeds(s), s[n] = st[n],
           NEW cand \in SUBSET Blocks, NEW go \in SUBSET cand, Offers(s, cand),
           st' = PassStates(s, cand, go), task'[n] = PassTasks(task, go)[n],
           cancelReq'[n] = cancelReq[n], future'[n] = future[n]
    PROVE  LiveAt(n)'
<1>1. task'[n] = IF n \in go \ Broken THEN "new" ELSE task[n]
  BY DEF PassTasks
<1>2. CASE n \in go \ Broken
  <2>1. s[n] \in {"IDLE", "READY"}
    BY <1>2 DEF Offers
  <2>2. ~cancelReq[n]
    BY <2>1 DEF LiveAt
  <2>3. st'[n] = "RUNNING" /\ task'[n] = "new" /\ ~cancelReq'[n]
    BY <1>1, <1>2, <2>2, PassFacts
  <2> QED BY <2>3 DEF LiveAt
<1>3. CASE n \notin go \ Broken
  <2>1. CASE s[n] \notin {"IDLE", "READY"}
    <3>1. st'[n] = st[n]
      BY <2>1, PassKeeps
    <3> QED BY <1>1, <1>3, <3>1, OthersLive
  <2>2. CASE s[n] \in {"IDLE", "READY"}
    <3>1. st'[n] \in {"IDLE", "READY", "ERROR", "SKIPPED"}
      BY <1>3, <2>2, PassFacts
    <3> QED BY <1>1, <1>3, <2>2, <3>1, OthersLive
  <2> QED BY <2>1, <2>2
<1> QED BY <1>2, <1>3

\* A block other than the one whose end skips its successors.
LEMMA SkipLive ==
    ASSUME NEW n \in Blocks, LiveAt(n), Onward,
           NEW s \in [Blocks -> BlockStates], Feeds(s), s[n] = st[n], NEW b \in Blocks, s[b] # "DONE",
           st' = s \/ st' = PropagateSkip(s, b),
           task'[n] = task[n], cancelReq'[n] = cancelReq[n], future'[n] = future[n]
    PROVE  LiveAt(n)'
<1>1. CASE st' = s
  BY <1>1, OthersLive
<1>2. CASE st' = PropagateSkip(s, b)
  <2>1. st'[n] = IF n \in SkipSet(s, b) THEN "SKIPPED" ELSE s[n]
    BY <1>2 DEF PropagateSkip
  <2>2. n \in SkipSet(s, b) => s[n] = "IDLE"
    BY SkipSparesStarted
  <2> QED BY <2>1, <2>2, OthersLive
<1> QED BY <1>1, <1>2

-----------------------------------------------------------------------------
(* The steps.                                                              *)

LEMMA ScanLive ==
    ASSUME ContractInv, LiveInv, Onward, NEW p \in BOOLEAN,
           NEW cand, cand = Startable(st) \/ cand = Startable(st) \cup Retriable(st, task),
           Scan(st, task, cand, p), UNCHANGED <<cancelReq, future>>
    PROVE  LiveInv'
<1>1. PICK go \in GoChoices(cand, task, p) :
         st' = PassStates(st, cand, go) /\ task' = PassTasks(task, go)
  BY DEF Scan
<1>2. /\ st \in [Blocks -> BlockStates] /\ Feeds(st) /\ cancelReq \in [Blocks -> BOOLEAN]
      /\ task \in [Blocks -> TaskStates]
  BY FeedsIsProperty DEF ContractInv, SafeInv, TypeOK
<1>3. cand \in SUBSET Blocks /\ Offers(st, cand) /\ go \in SUBSET cand
  <2>1. go \subseteq cand
    BY GoChoicesWithin
  <2> QED BY <1>2, <2>1, OffersCandidates
<1>4. ASSUME NEW n \in Blocks PROVE LiveAt(n)'
  <2>1. LiveAt(n) /\ task'[n] = PassTasks(task, go)[n] /\ cancelReq'[n] = cancelReq[n] /\ future'[n] = future[n]
    BY <1>1 DEF LiveInv
  <2> QED BY <1>1, <1>2, <1>3, <2>1, PassLive
<1> QED BY <1>4 DEF LiveInv

LEMMA BlockSucceedsLive ==
    ASSUME ContractInv, LiveInv, Onward, NEW b \in Blocks, BlockSucceeds(b)
    PROVE  LiveInv'
<1> DEFINE s == [st EXCEPT ![b] = "DONE"]
           cand == IF disposed THEN {} ELSE Startable(s) \cup Retriable(s, task)
<1>1. PICK go \in GoChoices(cand, task, paused) :
         st' = PassStates(s, cand, go) /\ Leave(b, st', PassTasks(task, go))
  BY DEF BlockSucceeds
<1>2. /\ st \in [Blocks -> BlockStates] /\ task \in [Blocks -> TaskStates] /\ paused \in BOOLEAN
      /\ cancelReq \in [Blocks -> BOOLEAN] /\ future \in [Blocks -> FutureStates]
      /\ task[b] = "ok" /\ cancelReq' = cancelReq /\ ~cancelReq[b]
  BY DEF ContractInv, SafeInv, TypeOK, BlockSucceeds
<1>3. st[b] \in {"RUNNING", "PAUSED", "CANCELLED"}
  BY <1>2 DEF ContractInv, SafeInv, TaskInv, TaskDone
<1>4. s \in [Blocks -> BlockStates] /\ Feeds(s) /\ s[b] = "DONE"
  BY <1>2, <1>3, FeedsIsProperty DEF ContractInv, SafeInv, Feeds, Ready, Preds
<1>5. \A n \in Blocks \ {b} : s[n] = st[n]
  BY <1>2
<1> HIDE DEF s
<1>6. cand \in SUBSET Blocks /\ Offers(s, cand) /\ go \in SUBSET cand
  <2>1. go \subseteq cand
    BY <1>2, GoChoicesWithin
  <2>2. CASE disposed
    BY <2>1, <2>2 DEF Offers
  <2>3. CASE ~disposed
    BY <1>4, <2>1, <2>3, OffersCandidates
  <2> QED BY <2>2, <2>3
<1> HIDE DEF cand
<1>7. task' = [PassTasks(task, go) EXCEPT ![b] = "none"] /\ future' = [future EXCEPT ![b] = "none"]
  BY <1>1 DEF Leave
<1>8. ASSUME NEW n \in Blocks PROVE LiveAt(n)'
  <2>1. CASE n = b
    <3>1. st'[b] = "DONE"
      BY <1>1, <1>4, <1>6, PassKeeps
    <3> QED BY <1>2, <2>1, <3>1 DEF LiveAt
  <2>2. CASE n # b
    <3>1. task'[n] = PassTasks(task, go)[n] /\ future'[n] = future[n]
      BY <1>2, <1>7, <2>2 DEF PassTasks
    <3> QED BY <1>1, <1>2, <1>4, <1>5, <1>6, <2>2, <3>1, PassLive DEF LiveInv
  <2> QED BY <2>1, <2>2
<1> QED BY <1>8 DEF LiveInv

LEMMA BlockEndsLive ==
    ASSUME ContractInv, LiveInv, Onward, NEW b \in Blocks, ~TaskDone(b), ~cancelReq[b],
           NEW to \in {"ERROR", "CANCELLED"}, BlockEnds(b, to)
    PROVE  LiveInv'
<1>1. /\ st \in [Blocks -> BlockStates] /\ task \in [Blocks -> TaskStates] /\ Feeds(st)
      /\ future \in [Blocks -> FutureStates]
      /\ st[b] \in {"RUNNING", "PAUSED", "CANCELLED"}
  BY FeedsIsProperty DEF ContractInv, SafeInv, TypeOK, TaskInv, TaskDone
<1>2. task' = [task EXCEPT ![b] = "none"] /\ future' = [future EXCEPT ![b] = "none"] /\ cancelReq' = cancelReq
  BY DEF BlockEnds, Leave
<1> DEFINE s == IF st[b] = "CANCELLED" THEN st ELSE [st EXCEPT ![b] = to]
<1>3. s \in [Blocks -> BlockStates] /\ Feeds(s) /\ s[b] \in {"ERROR", "CANCELLED"}
  BY <1>1, ChangeFeeds
<1>4. \A n \in Blocks \ {b} : s[n] = st[n]
  BY <1>1
<1>5. st' = s \/ st' = PropagateSkip(s, b)
  BY DEF BlockEnds
<1> HIDE DEF s
<1>6. st'[b] = s[b]
  BY <1>3, <1>5, SkipFacts, SkipSparesStarted DEF PropagateSkip
<1>7. ASSUME NEW n \in Blocks PROVE LiveAt(n)'
  <2>1. CASE n = b
    <3>1. task'[b] = "none" /\ ~cancelReq'[b]
      BY <1>1, <1>2
    <3> QED BY <1>3, <1>6, <2>1, <3>1 DEF LiveAt
  <2>2. CASE n # b
    <3>1. task'[n] = task[n] /\ future'[n] = future[n] /\ cancelReq'[n] = cancelReq[n]
      BY <1>1, <1>2, <2>2
    <3> QED BY <1>3, <1>4, <1>5, <2>2, <3>1, SkipLive DEF LiveInv
  <2> QED BY <2>1, <2>2
<1> QED BY <1>7 DEF LiveInv

\* A step of one block that leaves the others alone.
LEMMA OneLive ==
    ASSUME LiveInv, Onward, NEW b \in Blocks, LiveAt(b)',
           \A n \in Blocks \ {b} : /\ st'[n] = st[n] /\ task'[n] = task[n]
                                   /\ cancelReq'[n] = cancelReq[n] /\ future'[n] = future[n]
    PROVE  LiveInv'
<1>1. ASSUME NEW n \in Blocks PROVE LiveAt(n)'
  BY OthersLive DEF LiveInv
<1> QED BY <1>1 DEF LiveInv

\* The decision of an interactive block is there.
LEMMA DecideLive ==
    ASSUME ContractInv, LiveInv, Onward, NEW b \in Blocks, ~TaskDone(b), ~cancelReq[b],
           st[b] # "CANCELLED", NEW f \in {"good", "bad"}, Decide(b, f)
    PROVE  LiveInv'
<1>1. CASE BlockEnds(b, "ERROR")
  BY <1>1, BlockEndsLive
<1>2. CASE /\ st' = [st EXCEPT ![b] = "RUNNING"] /\ task' = [task EXCEPT ![b] = "launch"]
           /\ future' = [future EXCEPT ![b] = f] /\ cancelReq' = cancelReq
  <2>1. /\ st \in [Blocks -> BlockStates] /\ task \in [Blocks -> TaskStates]
        /\ future \in [Blocks -> FutureStates]
    BY DEF ContractInv, SafeInv, TypeOK
  <2>2. LiveAt(b)'
    BY <1>2, <2>1 DEF LiveAt
  <2> QED BY <1>2, <2>1, <2>2, OneLive
<1> QED BY <1>1, <1>2 DEF Decide

LEMMA CancelBlockLive ==
    ASSUME ContractInv, LiveInv, Onward, NEW b \in Blocks, CancelBlock(b)
    PROVE  LiveInv'
<1> DEFINE s == [st EXCEPT ![b] = "CANCELLED"]
<1>1. /\ st[b] \in {"RUNNING", "PAUSED"} /\ st' = PropagateSkip(s, b)
      /\ future' = [future EXCEPT ![b] = "none"] /\ task' = Terminated(task, b)
      /\ cancelReq' = [cancelReq EXCEPT ![b] = @ \/ ~(HasHandle(b) \/ TaskDone(b))]
  BY DEF CancelBlock, Cancellable
<1>2. /\ st \in [Blocks -> BlockStates] /\ Feeds(st) /\ task \in [Blocks -> TaskStates]
      /\ cancelReq \in [Blocks -> BOOLEAN] /\ future \in [Blocks -> FutureStates]
  BY FeedsIsProperty DEF ContractInv, SafeInv, TypeOK
<1>3. /\ s \in [Blocks -> BlockStates] /\ Feeds(s) /\ s[b] = "CANCELLED"
      /\ \A n \in Blocks \ {b} : s[n] = st[n]
  BY <1>1, <1>2, ChangeFeeds
<1> HIDE DEF s
<1>4. st'[b] = "CANCELLED"
  BY <1>1, <1>3, SkipFacts DEF PropagateSkip
<1>5. ASSUME NEW n \in Blocks PROVE LiveAt(n)'
  <2>1. CASE n = b
    <3>1. /\ cancelReq[b] => ~TaskDone(b)
          /\ task'[b] = IF task[b] = "worker" THEN "fail" ELSE task[b]
          /\ cancelReq'[b] = (cancelReq[b] \/ ~(HasHandle(b) \/ TaskDone(b)))
      BY <1>1, <1>2 DEF Terminated, LiveInv, LiveAt, TaskDone
    <3> QED BY <1>4, <2>1, <3>1 DEF LiveAt, HasHandle, TaskDone
  <2>2. CASE n # b
    <3>1. task'[n] = task[n] /\ future'[n] = future[n] /\ cancelReq'[n] = cancelReq[n]
      BY <1>1, <1>2, <2>2 DEF Terminated
    <3> QED BY <1>1, <1>3, <2>2, <3>1, SkipLive DEF LiveInv
  <2> QED BY <2>1, <2>2
<1> QED BY <1>5 DEF LiveInv

LEMMA CancelWorkflowLive ==
    ASSUME ContractInv, LiveInv, CancelWorkflow
    PROVE  LiveInv'
<1> DEFINE victims == {b \in Blocks : st[b] \in {"RUNNING", "PAUSED"}}
<1>1. /\ st' = [b \in Blocks |-> IF b \in victims THEN "CANCELLED"
                                 ELSE IF st[b] \in {"IDLE", "READY"} THEN "SKIPPED" ELSE st[b]]
      /\ cancelReq' = [b \in Blocks |-> cancelReq[b] \/ (b \in victims /\ ~HasHandle(b) /\ ~TaskDone(b))]
      /\ task' = task
  BY DEF CancelWorkflow, Cancellable
<1>2. st \in [Blocks -> BlockStates] /\ task \in [Blocks -> TaskStates]
  BY DEF ContractInv, SafeInv, TypeOK
<1>3. ASSUME NEW n \in Blocks PROVE LiveAt(n)'
  <2>1. LiveAt(n)
    BY DEF LiveInv
  <2>2. /\ st'[n] = IF st[n] \in {"RUNNING", "PAUSED"} THEN "CANCELLED"
                    ELSE IF st[n] \in {"IDLE", "READY"} THEN "SKIPPED" ELSE st[n]
        /\ cancelReq'[n] = (cancelReq[n] \/ (st[n] \in {"RUNNING", "PAUSED"} /\ ~HasHandle(n) /\ ~TaskDone(n)))
        /\ task'[n] = task[n]
    BY <1>1
  <2> QED BY <1>2, <2>1, <2>2 DEF LiveAt, HasHandle, TaskDone
<1> QED BY <1>3 DEF LiveInv

\* execute_from finds no task; what it starts is RUNNING.
LEMMA ExecuteFromLive ==
    ASSUME ContractInv, LiveInv, NEW target \in Blocks, ExecuteFrom(target)
    PROVE  LiveInv'
<1> DEFINE runSet   == {target} \cup Downstream(target)
           required == {p \in Blocks \ runSet : \E n \in runSet : p \in Preds(n)}
           reused   == required \cup UNION {Ancestors(p) : p \in required}
           from(recorded) == [b \in Blocks |-> IF b \in runSet THEN "IDLE"
                                               ELSE IF b \in reused THEN "DONE" ELSE recorded[b]]
<1>1. PICK recorded \in [Blocks \ (runSet \cup reused) -> Recorded] :
        \E go \in GoChoices(Startable(from(recorded)), task, paused) :
           /\ st' = PassStates(from(recorded), Startable(from(recorded)), go)
           /\ task' = PassTasks(task, go)
  BY DEF ExecuteFrom
<1> DEFINE s == from(recorded)
           cand == Startable(s)
<1>2. PICK go \in GoChoices(cand, task, paused) :
         st' = PassStates(s, cand, go) /\ task' = PassTasks(task, go)
  BY <1>1
<1>3. s \in [Blocks -> BlockStates] /\ \A b \in Blocks : s[b] \in {"IDLE"} \cup Terminal
  BY DEF Recorded
<1> HIDE DEF s
<1>4. Feeds(s)
  BY <1>3 DEF Feeds
<1>5. /\ paused \in BOOLEAN /\ task \in [Blocks -> TaskStates] /\ cancelReq \in [Blocks -> BOOLEAN]
      /\ cancelReq' = cancelReq /\ \A b \in Blocks : task[b] = "none"
  BY DEF ContractInv, SafeInv, TypeOK, ExecuteFrom, PendingInv
<1>6. cand \in SUBSET Blocks /\ Offers(s, cand) /\ go \in SUBSET cand
  BY <1>3, <1>4, <1>5, OffersCandidates, GoChoicesWithin
<1> HIDE DEF cand
<1>7. ASSUME NEW n \in Blocks PROVE LiveAt(n)'
  <2>1. ~cancelReq'[n] /\ task'[n] = IF n \in go \ Broken THEN "new" ELSE "none"
    BY <1>2, <1>5 DEF LiveInv, LiveAt, PassTasks
  <2>2. IF n \in go \ Broken THEN st'[n] = "RUNNING" ELSE st'[n] \notin {"RUNNING", "PAUSED"}
    BY <1>2, <1>3, <1>6, PassFacts
  <2> QED BY <2>1, <2>2 DEF LiveAt
<1> QED BY <1>7 DEF LiveInv

LEMMA LiveNext == ContractInv /\ LiveInv /\ [Next]_vars => LiveInv'
<1> SUFFICES ASSUME ContractInv, LiveInv, [Next]_vars PROVE LiveInv'
  OBVIOUS
<1> USE DEF blockVars, runVars
<1>0. /\ st \in [Blocks -> BlockStates] /\ task \in [Blocks -> TaskStates] /\ paused \in BOOLEAN
      /\ cancelReq \in [Blocks -> BOOLEAN] /\ future \in [Blocks -> FutureStates]
      /\ Onward /\ TaskInv
  BY OnwardNext DEF ContractInv, SafeInv, TypeOK
<1>1. CASE Execute
  BY <1>0, <1>1, ScanLive DEF Execute
<1>2. ASSUME NEW target \in Blocks, ExecuteFrom(target) PROVE LiveInv'
  BY <1>2, ExecuteFromLive
<1>3. CASE \/ RunNeverStarts \/ HaltsNone \/ Dispose
           \/ Pause \/ RetryTimerFires \/ Over \/ UNCHANGED vars
  <2>1. UNCHANGED <<st, task, cancelReq, future>>
    BY <1>3 DEF RunNeverStarts, HaltsNone, Dispose, Pause, RetryTimerFires, Over, vars
  <2>2. ASSUME NEW n \in Blocks PROVE LiveAt(n)'
    BY <1>0, <2>1, OthersLive DEF LiveInv
  <2> QED BY <2>2 DEF LiveInv
<1>4. ASSUME NEW b \in Blocks,
             \/ Halts(b) \/ TaskStarts(b) \/ TaskDies(b) \/ WorkerSpawned(b) \/ WorkerExits(b)
             \/ Answer(b) \/ Reap(b) \/ TaskUnwinds(b) \/ PromptDropped(b)
      PROVE  LiveInv'
  <2>0. /\ LiveAt(b) /\ st'[b] = st[b]
        /\ ~TaskDone(b) => st[b] \in {"RUNNING", "PAUSED", "CANCELLED"}
    BY <1>0, <1>4 DEF LiveInv, TaskInv, Halts, TaskStarts, TaskDies, NextNew, WorkerSpawned, WorkerExits,
                      Answer, Reap, TaskUnwinds, PromptDropped
  <2>1. \A n \in Blocks \ {b} : /\ st'[n] = st[n] /\ task'[n] = task[n]
                                /\ cancelReq'[n] = cancelReq[n] /\ future'[n] = future[n]
    BY <1>0, <1>4
    DEF Halts, Terminated, TaskStarts, TaskDies, WorkerSpawned, WorkerExits, Answer, Reap,
        TaskUnwinds, PromptDropped, Leave
  <2>2. CASE Halts(b)
    <3>1. /\ phase' = "stopping" /\ task'[b] = IF task[b] = "worker" THEN "fail" ELSE task[b]
          /\ cancelReq'[b] /\ ~TaskDone(b)
      BY <1>0, <2>2 DEF Halts, Terminated
    <3>2. LiveAt(b)'
      BY <2>0, <3>1 DEF LiveAt, TaskDone
    <3> QED BY <1>0, <2>1, <3>2, OneLive
  <2>3. CASE TaskStarts(b) \/ WorkerSpawned(b)
    <3>1. /\ task[b] \in {"new", "launch"} /\ task'[b] \in {"launch", "worker"} /\ ~cancelReq[b]
          /\ cancelReq'[b] = cancelReq[b]
      BY <1>0, <2>3 DEF TaskStarts, NextNew, WorkerSpawned
    <3>2. LiveAt(b)'
      BY <2>0, <3>1 DEF LiveAt, TaskDone
    <3> QED BY <1>0, <2>1, <3>2, OneLive
  <2>4. CASE TaskDies(b) \/ TaskUnwinds(b)
    <3>1. cancelReq[b] /\ ~cancelReq'[b] /\ task'[b] \in {"none", "dead"}
      BY <1>0, <2>4 DEF TaskDies, NextNew, TaskUnwinds, Leave
    <3>2. LiveAt(b)'
      BY <1>0, <2>0, <3>1 DEF LiveAt, Onward, TaskDone
    <3> QED BY <1>0, <2>1, <3>2, OneLive
  <2>5. CASE WorkerExits(b) \/ Reap(b)
    <3>1. /\ cancelReq'[b] = cancelReq[b] /\ future'[b] = future[b]
          /\ \/ task'[b] = task[b]
             \/ task[b] = "worker" /\ task'[b] \in {"ok", "fail", "cancelled"}
      BY <1>0, <2>5 DEF WorkerExits, Reap, Terminated
    <3>2. LiveAt(b)'
      BY <1>0, <2>0, <3>1 DEF LiveAt, Onward
    <3> QED BY <1>0, <2>1, <3>2, OneLive
  <2>6. CASE Answer(b)
    <3>1. cancelReq'[b] = cancelReq[b] /\ task'[b] = task[b] /\ future'[b] # "none"
      BY <1>0, <2>6 DEF Answer
    <3>2. LiveAt(b)'
      BY <1>0, <2>0, <3>1 DEF LiveAt, Onward
    <3> QED BY <1>0, <2>1, <3>2, OneLive
  <2>7. CASE PromptDropped(b)
    <3>1. st[b] = "CANCELLED" /\ ~cancelReq'[b] /\ task'[b] = "none"
      BY <1>0, <2>7 DEF PromptDropped, Leave
    <3>2. LiveAt(b)'
      BY <2>0, <3>1 DEF LiveAt
    <3> QED BY <1>0, <2>1, <3>2, OneLive
  <2> QED BY <1>4, <2>2, <2>3, <2>4, <2>5, <2>6, <2>7
<1>5. ASSUME NEW b \in Blocks, BlockSucceeds(b) PROVE LiveInv'
  BY <1>0, <1>5, BlockSucceedsLive
<1>6. ASSUME NEW b \in Blocks, BlockFails(b) \/ BlockReportsCancelled(b) PROVE LiveInv'
  BY <1>0, <1>6, BlockEndsLive DEF BlockFails, BlockReportsCancelled, TaskDone
<1>7. ASSUME NEW b \in Blocks, PromptReturns(b) PROVE LiveInv'
  <2>1. ~TaskDone(b) /\ ~cancelReq[b] /\ st[b] # "CANCELLED"
    BY <1>7 DEF PromptReturns, TaskDone
  <2>2. CASE Decide(b, "good")
    BY <1>0, <2>1, <2>2, DecideLive
  <2>3. CASE future[b] # "pending" /\ Decide(b, future[b])
    <3>1. future[b] \in {"good", "bad"}
      BY <2>3 DEF Decide
    <3> QED BY <1>0, <2>1, <2>3, <3>1, DecideLive
  <2>4. CASE /\ st' = [st EXCEPT ![b] = "PAUSED"] /\ task' = [task EXCEPT ![b] = "waiting"]
             /\ cancelReq' = cancelReq /\ future' = future /\ future[b] = "pending"
    <3>1. LiveAt(b)'
      BY <1>0, <2>1, <2>4 DEF LiveAt
    <3> QED BY <1>0, <2>4, <3>1, OneLive
  <2> QED BY <1>7, <2>2, <2>3, <2>4 DEF PromptReturns
<1>8. ASSUME NEW b \in Blocks, DecisionArrives(b) PROVE LiveInv'
  <2>1. ~TaskDone(b) /\ ~cancelReq[b] /\ st[b] = "PAUSED" /\ future[b] \in {"good", "bad"} /\ Decide(b, future[b])
    BY <1>0, <1>8 DEF DecisionArrives, TaskDone, TaskInv
  <2> QED BY <1>0, <2>1, DecideLive
<1>9. ASSUME NEW b \in Blocks, CancelBlock(b) PROVE LiveInv'
  BY <1>0, <1>9, CancelBlockLive
<1>10. CASE CancelWorkflow
  BY <1>10, CancelWorkflowLive
<1>11. CASE Resume
  BY <1>0, <1>11, ScanLive DEF Resume
<1>12. CASE RetryPass
  <2>1. Scan(st, task, Startable(st) \cup Retriable(st, task), paused) /\ UNCHANGED <<cancelReq, future>>
    BY <1>12 DEF RetryPass
  <2> QED BY <1>0, <2>1, ScanLive
<1>13. LeaveWait \/ StopAwaited => HaltsNone \/ \E b \in Blocks : Halts(b)
  BY CleanupStep DEF ContractInv, SafeInv
<1> QED BY <1>1, <1>2, <1>3, <1>4, <1>5, <1>6, <1>7, <1>8, <1>9, <1>10, <1>11, <1>12, <1>13
        DEF Next, RunStep, TaskStep

LEMMA LiveInit == Init => LiveInv
BY DEF Init, LiveInv, LiveAt

-----------------------------------------------------------------------------
(* A refused block.                                                        *)

\* A scan over s leaves a block READY for a pause, or with the timer set.
LEMMA PassRetries ==
    ASSUME NEW s \in [Blocks -> BlockStates], NEW cand \in SUBSET Blocks, NEW go \in SUBSET cand,
           Offers(s, cand), NEW p \in BOOLEAN, st' = PassStates(s, cand, go), timer' = PassTimer(cand, go, p),
           ~p, ~disposed, NEW n \in Blocks, st'[n] = "READY"
    PROVE  timer' \/ (s[n] = "READY" /\ n \notin cand /\ ~timer)
<1>1. CASE n \in cand
  <2>1. n \notin go
    BY <1>1, PassFacts
  <2>2. cand # go
    BY <1>1, <2>1
  <2> QED BY <2>2 DEF PassTimer
<1>2. CASE n \notin cand
  <2>1. s[n] = "READY"
    BY <1>2, PassFacts
  <2> QED BY <1>2, <2>1 DEF PassTimer
<1> QED BY <1>1, <1>2

\* A scan of its own meets every block that is READY.
LEMMA ScanRetries ==
    ASSUME ContractInv, LiveInv, NEW p \in BOOLEAN, ~p, ~disposed,
           Scan(st, task, Startable(st) \cup Retriable(st, task), p), NEW n \in Blocks, st'[n] = "READY"
    PROVE  timer'
<1> DEFINE cand == Startable(st) \cup Retriable(st, task)
<1>1. PICK go \in GoChoices(cand, task, p) :
         st' = PassStates(st, cand, go) /\ timer' = PassTimer(cand, go, p)
  BY DEF Scan
<1>2. st \in [Blocks -> BlockStates] /\ Feeds(st)
  BY FeedsIsProperty DEF ContractInv, SafeInv, TypeOK
<1>3. cand \in SUBSET Blocks /\ Offers(st, cand) /\ go \in SUBSET cand
  BY <1>2, OffersCandidates, GoChoicesWithin
<1>4. st[n] = "READY" => n \in cand
  BY DEF LiveInv, LiveAt, Retriable
<1> HIDE DEF cand
<1> QED BY <1>1, <1>2, <1>3, <1>4, PassRetries

LEMMA RetryNext == ContractInv /\ LiveInv /\ RefusalIsRetried /\ [Next]_vars => RefusalIsRetried'
<1> SUFFICES ASSUME ContractInv, LiveInv, RefusalIsRetried, [Next]_vars,
                    ~paused', ~disposed', NEW n \in Blocks, st'[n] = "READY"
             PROVE  timer' \/ pass'
  BY DEF RefusalIsRetried
<1> USE DEF blockVars, runVars
<1>0. /\ st \in [Blocks -> BlockStates] /\ task \in [Blocks -> TaskStates] /\ Feeds(st) /\ TaskInv
      /\ paused \in BOOLEAN /\ timer \in BOOLEAN /\ pass \in BOOLEAN
  BY FeedsIsProperty DEF ContractInv, SafeInv, TypeOK
<1>1. CASE Execute
  <2>1. /\ \A b \in Blocks : st[b] \in {"IDLE", "SKIPPED"}
        /\ Scan(st, task, Startable(st), paused) /\ ~paused /\ ~disposed
    BY <1>1 DEF Execute, ContractInv, SafeInv, PendingInv
  <2>2. PICK go \in GoChoices(Startable(st), task, paused) :
           st' = PassStates(st, Startable(st), go) /\ timer' = PassTimer(Startable(st), go, paused)
    BY <2>1 DEF Scan
  <2>3. Startable(st) \in SUBSET Blocks /\ Offers(st, Startable(st)) /\ go \in SUBSET Startable(st)
    BY <1>0, OffersCandidates, GoChoicesWithin
  <2> QED BY <1>0, <2>1, <2>2, <2>3, PassRetries
<1>2. ASSUME NEW target \in Blocks, ExecuteFrom(target) PROVE timer' \/ pass'
  <2> DEFINE runSet   == {target} \cup Downstream(target)
             required == {p \in Blocks \ runSet : \E m \in runSet : p \in Preds(m)}
             reused   == required \cup UNION {Ancestors(p) : p \in required}
             from(recorded) == [b \in Blocks |-> IF b \in runSet THEN "IDLE"
                                                 ELSE IF b \in reused THEN "DONE" ELSE recorded[b]]
  <2>1. PICK recorded \in [Blocks \ (runSet \cup reused) -> Recorded] :
          \E go \in GoChoices(Startable(from(recorded)), task, paused) :
             /\ st' = PassStates(from(recorded), Startable(from(recorded)), go)
             /\ timer' = PassTimer(Startable(from(recorded)), go, paused)
    BY <1>2 DEF ExecuteFrom
  <2> DEFINE s == from(recorded)
  <2>2. PICK go \in GoChoices(Startable(s), task, paused) :
           st' = PassStates(s, Startable(s), go) /\ timer' = PassTimer(Startable(s), go, paused)
    BY <2>1
  <2>3. s \in [Blocks -> BlockStates] /\ \A b \in Blocks : s[b] \in {"IDLE"} \cup Terminal
    BY DEF Recorded
  <2> HIDE DEF s
  <2>4. Feeds(s)
    BY <2>3 DEF Feeds
  <2>5. Startable(s) \in SUBSET Blocks /\ Offers(s, Startable(s)) /\ go \in SUBSET Startable(s)
    BY <1>0, <2>3, <2>4, OffersCandidates, GoChoicesWithin
  <2>6. ~paused /\ ~disposed
    BY <1>2 DEF ExecuteFrom
  <2> QED BY <1>0, <2>2, <2>3, <2>5, <2>6, PassRetries
<1>3. ASSUME NEW b \in Blocks, BlockSucceeds(b) PROVE timer' \/ pass'
  <2> DEFINE s == [st EXCEPT ![b] = "DONE"]
             cand == IF disposed THEN {} ELSE Startable(s) \cup Retriable(s, task)
  <2>1. PICK go \in GoChoices(cand, task, paused) :
           st' = PassStates(s, cand, go) /\ timer' = PassTimer(cand, go, paused)
    BY <1>3 DEF BlockSucceeds
  <2>2. /\ ~paused /\ ~disposed /\ pass' = pass /\ ~TaskDone(b)
        /\ st[b] \in {"RUNNING", "PAUSED", "CANCELLED"}
    BY <1>0, <1>3 DEF BlockSucceeds, TaskInv, TaskDone
  <2>3. s \in [Blocks -> BlockStates] /\ Feeds(s) /\ (s[n] = "READY" => st[n] = "READY")
    BY <1>0, <2>2 DEF Feeds, Ready, Preds
  <2> HIDE DEF s
  <2>4. cand = Startable(s) \cup Retriable(s, task)
    BY <2>2
  <2>5. cand \in SUBSET Blocks /\ Offers(s, cand) /\ go \in SUBSET cand
    BY <1>0, <2>3, <2>4, OffersCandidates, GoChoicesWithin
  <2> HIDE DEF cand
  <2>6. timer' \/ (s[n] = "READY" /\ ~timer)
    BY <1>0, <2>1, <2>2, <2>3, <2>5, PassRetries
  <2> QED BY <2>2, <2>3, <2>6 DEF RefusalIsRetried
<1>4. CASE Resume
  <2>1. Scan(st, task, Startable(st) \cup Retriable(st, task), FALSE) /\ ~disposed
    BY <1>4 DEF Resume
  <2> QED BY <2>1, ScanRetries
<1>5. CASE RetryPass
  <2>1. Scan(st, task, Startable(st) \cup Retriable(st, task), paused) /\ ~paused /\ ~disposed
    BY <1>5 DEF RetryPass
  <2> QED BY <1>0, <2>1, ScanRetries
<1>6. CASE /\ ~paused' => ~paused
           /\ ~disposed' => ~disposed
           /\ timer \/ pass => timer' \/ pass'
           /\ st'[n] = "READY" => st[n] = "READY"
  BY <1>6 DEF RefusalIsRetried
<1>7. ASSUME NEW b \in Blocks, NEW to \in {"ERROR", "CANCELLED"}, BlockEnds(b, to) PROVE timer' \/ pass'
  <2>1. st'[n] = "READY" => st[n] = "READY"
    BY <1>0, <1>7 DEF BlockEnds, PropagateSkip
  <2> QED BY <1>6, <1>7, <2>1 DEF BlockEnds
<1>8. ASSUME NEW b \in Blocks, NEW f, Decide(b, f) PROVE timer' \/ pass'
  <2>1. CASE BlockEnds(b, "ERROR")
    BY <1>7, <2>1
  <2>2. CASE st' = [st EXCEPT ![b] = "RUNNING"] /\ UNCHANGED <<paused, disposed, timer, pass>>
    BY <1>0, <1>6, <2>2
  <2> QED BY <1>8, <2>1, <2>2 DEF Decide
<1>9. ASSUME NEW b \in Blocks, CancelBlock(b) PROVE timer' \/ pass'
  <2>1. st'[n] = "READY" => st[n] = "READY"
    BY <1>0, <1>9 DEF CancelBlock, PropagateSkip
  <2> QED BY <1>6, <1>9, <2>1 DEF CancelBlock
<1>10. CASE CancelWorkflow
  BY <1>10 DEF CancelWorkflow, Cancellable
<1>11. CASE \/ RunNeverStarts \/ HaltsNone \/ Dispose
            \/ Pause \/ RetryTimerFires \/ Over \/ UNCHANGED vars
  BY <1>6, <1>11
  DEF RunNeverStarts, HaltsNone, Dispose, Pause, RetryTimerFires, Over, vars
<1>12. ASSUME NEW b \in Blocks,
              \/ Halts(b) \/ TaskStarts(b) \/ TaskDies(b) \/ WorkerSpawned(b) \/ WorkerExits(b)
              \/ Answer(b) \/ Reap(b) \/ TaskUnwinds(b) \/ PromptDropped(b)
       PROVE  timer' \/ pass'
  BY <1>6, <1>12
  DEF Halts, TaskStarts, TaskDies, WorkerSpawned, WorkerExits, Answer, Reap, TaskUnwinds, PromptDropped
<1>13. ASSUME NEW b \in Blocks, \/ BlockFails(b) \/ BlockReportsCancelled(b)
                                \/ PromptReturns(b) \/ DecisionArrives(b)
       PROVE  timer' \/ pass'
  <2>1. CASE BlockFails(b) \/ BlockReportsCancelled(b)
    BY <1>7, <2>1 DEF BlockFails, BlockReportsCancelled
  <2>2. CASE \E f \in FutureStates : Decide(b, f)
    BY <1>8, <2>2
  <2>3. CASE st' = [st EXCEPT ![b] = "PAUSED"] /\ UNCHANGED <<paused, disposed, timer, pass>>
    BY <1>0, <1>6, <2>3
  <2>4. future[b] \in FutureStates
    BY DEF ContractInv, SafeInv, TypeOK
  <2> QED BY <1>13, <2>1, <2>2, <2>3, <2>4 DEF PromptReturns, DecisionArrives
<1>14. LeaveWait \/ StopAwaited => HaltsNone \/ \E b \in Blocks : Halts(b)
  BY CleanupStep DEF ContractInv, SafeInv
<1> QED BY <1>1, <1>2, <1>3, <1>4, <1>5, <1>9, <1>10, <1>11, <1>12, <1>13, <1>14
        DEF Next, RunStep, TaskStep

-----------------------------------------------------------------------------
(* The properties.                                                         *)

LEMMA ContractHolds == Spec => []ContractInv
<1>1. Init => ContractInv
  BY ContractInit
<1>2. ContractInv /\ [Next]_vars => ContractInv'
  BY ContractNext
<1> QED BY <1>1, <1>2, PTL DEF Spec

LEMMA LiveHolds == Spec => [](ContractInv /\ LiveInv)
<1> QED BY ContractHolds, LiveInit, LiveNext, PTL DEF Spec

\* While execute() waits, a RUNNING block has a task that will take a step, and a
\* PAUSED one a registered future: no answer is dropped and no block waits for a task
\* that is gone.
THEOREM UnfinishedBlocksMove == Spec => []UnfinishedBlockHasLiveTask
<1>1. LiveInv => UnfinishedBlockHasLiveTask
  BY DEF LiveInv, LiveAt, UnfinishedBlockHasLiveTask
<1> QED BY LiveHolds, <1>1, PTL

\* Whenever a cancel reaches a block, no worker is started for it afterwards.
THEOREM CancelledBlocksSpawnNothing == Spec => CancelSpawnsNothing
<1>1. ContractInv /\ LiveInv /\ [Next]_vars =>
        [\A b \in Blocks : st[b] = "CANCELLED" /\ task'[b] = "worker" => task[b] = "worker"]_vars
  <2> SUFFICES ASSUME ContractInv, LiveInv, [Next]_vars, NEW b \in Blocks,
                      st[b] = "CANCELLED", task'[b] = "worker", task[b] # "worker"
               PROVE  FALSE
    OBVIOUS
  <2> USE DEF blockVars, runVars
  <2>1. task \in [Blocks -> TaskStates] /\ ~(task[b] = "launch" /\ ~cancelReq[b])
    BY DEF ContractInv, SafeInv, TypeOK, LiveInv, LiveAt
  <2>2. CASE Execute \/ Resume \/ RetryPass \/ \E n \in Blocks : ExecuteFrom(n) \/ BlockSucceeds(n)
    <3>1. \A go : PassTasks(task, go)[b] # "worker"
      BY <2>1 DEF PassTasks
    <3>2. ASSUME NEW cand, NEW p, Scan(st, task, cand, p) PROVE FALSE
      BY <3>1, <3>2 DEF Scan
    <3>3. ASSUME NEW n \in Blocks, ExecuteFrom(n) PROVE FALSE
      BY <3>1, <3>3 DEF ExecuteFrom
    <3>4. ASSUME NEW n \in Blocks, BlockSucceeds(n) PROVE FALSE
      <4>1. \E go : task' = [PassTasks(task, go) EXCEPT ![n] = "none"]
        BY <3>4 DEF BlockSucceeds, Leave
      <4>2. PICK go : task' = [PassTasks(task, go) EXCEPT ![n] = "none"]
        BY <4>1
      <4>3. task'[b] = IF n = b THEN "none" ELSE PassTasks(task, go)[b]
        BY <4>2 DEF PassTasks
      <4> QED BY <3>1, <4>3
    <3> QED BY <2>2, <3>2, <3>3, <3>4 DEF Execute, Resume, RetryPass
  <2>3. CASE task' = task \/ \E n \in Blocks : \/ task' = Terminated(task, n)
                                               \/ \E to \in TaskStates \ {"worker"} : task' = [task EXCEPT ![n] = to]
    BY <2>1, <2>3 DEF Terminated
  <2>4. ASSUME NEW n \in Blocks, \/ TaskStarts(n) \/ TaskDies(n) \/ WorkerExits(n) \/ BlockFails(n)
                                 \/ BlockReportsCancelled(n) \/ TaskUnwinds(n) \/ PromptDropped(n)
                                 \/ PromptReturns(n) \/ DecisionArrives(n)
        PROVE  \E to \in TaskStates \ {"worker"} : task' = [task EXCEPT ![n] = to]
    BY <2>4 DEF TaskStarts, TaskDies, WorkerExits, BlockFails, BlockReportsCancelled, BlockEnds, Leave,
                TaskUnwinds, PromptDropped, PromptReturns, DecisionArrives, Decide
  <2>5. ASSUME NEW n \in Blocks, WorkerSpawned(n) PROVE FALSE
    BY <2>1, <2>5 DEF WorkerSpawned
  <2>6. ASSUME NEW n \in Blocks, Halts(n) \/ CancelBlock(n) \/ Reap(n)
        PROVE  task' = Terminated(task, n)
    BY <2>6 DEF Halts, CancelBlock, Reap
  <2>7. CASE \/ RunNeverStarts \/ HaltsNone \/ Dispose \/ Pause \/ CancelWorkflow
             \/ RetryTimerFires \/ Over \/ (\E n \in Blocks : Answer(n)) \/ UNCHANGED vars
    BY <2>3, <2>7 DEF RunNeverStarts, HaltsNone, Dispose, Pause, CancelWorkflow,
                      RetryTimerFires, Over, Answer, vars
  <2>8. LeaveWait \/ StopAwaited => HaltsNone \/ \E n \in Blocks : Halts(n)
    BY CleanupStep DEF ContractInv, SafeInv
  <2> QED BY <2>2, <2>3, <2>4, <2>5, <2>6, <2>7, <2>8 DEF Next, RunStep, TaskStep
<1> QED BY LiveHolds, <1>1, PTL DEF Spec, CancelSpawnsNothing

\* A block refused by the resource manager has a retry on its way.
THEOREM RefusalsAreRetried == Spec => []RefusalIsRetried
<1>1. Init => RefusalIsRetried
  BY DEF Init, RefusalIsRetried
<1> QED BY LiveHolds, RetryNext, <1>1, PTL DEF Spec

\* A block that waits for its user does not become DONE without its compute phase.
LEMMA PausedComputesFirst ==
    ASSUME ContractInv, LiveInv, [Next]_vars, phase # "pending", NEW b \in Blocks, st[b] = "PAUSED"
    PROVE  st'[b] # "DONE"
<1> USE DEF blockVars, runVars
<1>1. st \in [Blocks -> BlockStates] /\ Feeds(st) /\ task \in [Blocks -> TaskStates] /\ paused \in BOOLEAN
      /\ TaskInv
  BY FeedsIsProperty DEF ContractInv, SafeInv, TypeOK
<1>2. ASSUME NEW p \in BOOLEAN, NEW cand,
             cand = Startable(st) \/ cand = Startable(st) \cup Retriable(st, task), Scan(st, task, cand, p)
      PROVE  st'[b] # "DONE"
  <2>1. PICK go \in GoChoices(cand, task, p) : st' = PassStates(st, cand, go)
    BY <1>2 DEF Scan
  <2>2. go \subseteq cand
    BY GoChoicesWithin
  <2>3. cand \in SUBSET Blocks /\ Offers(st, cand)
    BY <1>1, <1>2, OffersCandidates
  <2> QED BY <1>1, <2>1, <2>2, <2>3, PassKeeps
<1>3. ASSUME NEW n \in Blocks, BlockSucceeds(n) PROVE st'[b] # "DONE"
  <2> DEFINE s == [st EXCEPT ![n] = "DONE"]
             cand == IF disposed THEN {} ELSE Startable(s) \cup Retriable(s, task)
  <2>1. PICK go \in GoChoices(cand, task, paused) : st' = PassStates(s, cand, go)
    BY <1>3 DEF BlockSucceeds
  <2>2. task[n] = "ok" /\ n # b /\ st[n] \in {"RUNNING", "PAUSED", "CANCELLED"}
    BY <1>1, <1>3 DEF BlockSucceeds, LiveInv, LiveAt, TaskInv, TaskDone
  <2>3. s \in [Blocks -> BlockStates] /\ Feeds(s) /\ s[b] = "PAUSED"
    BY <1>1, <2>2 DEF Feeds, Ready, Preds
  <2> HIDE DEF s
  <2>4. go \subseteq cand
    BY <1>1, GoChoicesWithin
  <2>5. cand \in SUBSET Blocks /\ Offers(s, cand)
    <3>1. CASE disposed
      BY <3>1 DEF Offers
    <3>2. CASE ~disposed
      BY <2>3, <3>2, OffersCandidates
    <3> QED BY <3>1, <3>2
  <2> HIDE DEF cand
  <2> QED BY <2>1, <2>3, <2>4, <2>5, PassKeeps
<1>4. ASSUME NEW n \in Blocks, NEW to \in {"ERROR", "CANCELLED"}, BlockEnds(n, to) PROVE st'[b] # "DONE"
  BY <1>1, <1>4 DEF BlockEnds, PropagateSkip
<1>5. ASSUME NEW n \in Blocks, NEW f, Decide(n, f) PROVE st'[b] # "DONE"
  BY <1>1, <1>4, <1>5 DEF Decide
<1>6. ASSUME NEW n \in Blocks, PromptReturns(n) \/ DecisionArrives(n) PROVE st'[b] # "DONE"
  BY <1>1, <1>5, <1>6 DEF PromptReturns, DecisionArrives
<1>7. ASSUME NEW n \in Blocks, BlockFails(n) \/ BlockReportsCancelled(n) PROVE st'[b] # "DONE"
  BY <1>4, <1>7 DEF BlockFails, BlockReportsCancelled
<1>8. ASSUME NEW n \in Blocks, CancelBlock(n) PROVE st'[b] # "DONE"
  BY <1>1, <1>8 DEF CancelBlock, PropagateSkip
<1>9. CASE CancelWorkflow
  BY <1>9 DEF CancelWorkflow
<1>10. CASE Resume \/ RetryPass
  BY <1>1, <1>2, <1>10 DEF Resume, RetryPass
<1>11. CASE st' = st
  BY <1>11
<1> QED
  BY <1>3, <1>6, <1>7, <1>8, <1>9, <1>10, <1>11
  DEF Next, RunStep, TaskStep, vars, Execute, ExecuteFrom, RunNeverStarts, LeaveWait, StopAwaited,
      Dispose, TaskStarts, TaskDies, WorkerSpawned, TaskUnwinds, PromptDropped, WorkerExits,
      Answer, Reap, Pause, RetryTimerFires, Over

\* Within a run a block moves along the documented table only, so that it is dispatched
\* at most once and an error never replaces a cancel.
THEOREM BlocksFollowTheTable == Spec => FollowsStateTable
<1>1. ContractInv /\ LiveInv /\ [Next]_vars =>
        [phase # "pending" => \A b \in Blocks : st'[b] # st[b] => st'[b] \in LaterStates(st[b])]_vars
  <2> SUFFICES ASSUME ContractInv, LiveInv, [Next]_vars, phase # "pending", NEW b \in Blocks, st'[b] # st[b]
               PROVE  st'[b] \in LaterStates(st[b])
    OBVIOUS
  <2>1. st[b] \in BlockStates /\ (st[b] = "PAUSED" => st'[b] # "DONE")
    BY PausedComputesFirst DEF ContractInv, SafeInv, TypeOK
  <2>2. CASE CancelWorkflow
    <3>1. st'[b] = IF st[b] \in {"RUNNING", "PAUSED"} THEN "CANCELLED"
                   ELSE IF st[b] \in {"IDLE", "READY"} THEN "SKIPPED" ELSE st[b]
      BY <2>2 DEF CancelWorkflow, Cancellable
    <3> QED BY <2>1, <3>1 DEF LaterStates
  <2>3. CASE \E e \in SUBSET Blocks : Moves(st, st', e) /\ Ends(st, st', e)
    <3>1. PICK e \in SUBSET Blocks : Moves(st, st', e) /\ Ends(st, st', e)
      BY <2>3
    <3>2. st'[b] \in BlockStates
      BY <3>1 DEF Moves
    <3>3. CASE b \in e
      BY <2>1, <3>1, <3>3 DEF Ends, UnderWay, LaterStates
    <3>4. CASE b \notin e
      BY <2>1, <3>1, <3>2, <3>4 DEF Moves, Spread, UnderWay, LaterStates
    <3> QED BY <3>3, <3>4
  <2>4. Moved
    BY ContractNext
  <2> QED BY <2>2, <2>3, <2>4 DEF Moved, ExecuteFrom
<1> QED BY LiveHolds, <1>1, PTL DEF Spec, FollowsStateTable
=============================================================================
