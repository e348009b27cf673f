------------------------- MODULE DagContractProofs -------------------------
(***************************************************************************)
(* DagScheduler implements RunContract, for every workflow: every step of  *)
(* the scheduler, of a block task, of a timer or of a request is one step  *)
(* of the contract, or leaves what the contract sees alone.                *)
(***************************************************************************)
EXTENDS DagSafetyProofs

USE DEF Terminal, BlockStates, TaskStates, FutureStates

-----------------------------------------------------------------------------
(* Steps of block states, one state function to the next.                  *)

UnderWay == {"RUNNING", "PAUSED"}

\* A block no task worked on spreads from s to r.
Spread(s, r, b) ==
    /\ r[b] \in {"IDLE", "READY", "RUNNING", "ERROR", "SKIPPED"}
    /\ s[b] = "READY" => r[b] # "IDLE"
    /\ r[b] \in {"RUNNING", "ERROR"} => \A p \in Preds(b) : r[p] = "DONE"
    /\ r[b] = "SKIPPED" => \E p \in Preds(b) : r[p] \in {"ERROR", "CANCELLED", "SKIPPED"}

\* Every block but those of e keeps what it had, or spreads.
Moves(s, r, e) ==
    /\ r \in [Blocks -> BlockStates]
    /\ \A b \in Blocks \ e : /\ s[b] \in UnderWay => r[b] \in UnderWay
                             /\ s[b] \in Terminal => r[b] = s[b]
                             /\ s[b] \in {"IDLE", "READY"} => Spread(s, r, b)

\* The block of e ends, or delivers after a cancel.
Ends(s, r, e) ==
    \A b \in e : \/ s[b] \in UnderWay /\ r[b] \in {"DONE", "ERROR", "CANCELLED"}
                 \/ s[b] = "CANCELLED" /\ r[b] = "DONE"

\* A block that spreads does so in the contract.
LEMMA SpreadSpreads ==
    ASSUME st' \in [Blocks -> BlockStates], NEW s, NEW b \in Blocks, Spread(s, st', b)
    PROVE  Contract!Spreads(b)
<1>1. /\ \A n \in Blocks : Outcome'[n] = IF st'[n] \in Terminal THEN st'[n] ELSE "open"
      /\ \A n \in Blocks : n \in Active' <=> st'[n] \in {"RUNNING", "PAUSED"}
  BY DEF Outcome, Active
<1>2. Preds(b) \subseteq Blocks /\ Contract!Preds(b) = Preds(b)
  BY DEF Preds, Contract!Preds
<1> QED
  BY <1>1, <1>2 DEF Spread, Contract!Spreads, Contract!Closed, Contract!FedBy, Contract!Outcomes

\* Such a step is an Advance of the contract.
LEMMA MovesAdvance ==
    ASSUME st \in [Blocks -> BlockStates], ~completed, completed' \in BOOLEAN,
           completed' => \A b \in Blocks : st'[b] \in Terminal,
           NEW e \in SUBSET Blocks, \A b, c \in e : b = c,
           Moves(st, st', e), Ends(st, st', e)
    PROVE  Contract!Advance
<1>1. st' \in [Blocks -> BlockStates]
  BY DEF Moves
<1>2. /\ Outcome = [b \in Blocks |-> IF st[b] \in Terminal THEN st[b] ELSE "open"]
      /\ Outcome' = [b \in Blocks |-> IF st'[b] \in Terminal THEN st'[b] ELSE "open"]
  BY DEF Outcome
<1>3. /\ Active = {b \in Blocks : st[b] \in {"RUNNING", "PAUSED"}}
      /\ Active' = {b \in Blocks : st'[b] \in {"RUNNING", "PAUSED"}}
  BY DEF Active
<1>4. Outcome' \in [Blocks -> Contract!Outcomes \cup {"open"}] /\ Active' \subseteq Blocks
  BY <1>1, <1>2, <1>3 DEF Contract!Outcomes
<1>5. Contract!Announce
  BY <1>2 DEF Contract!Announce, Contract!Closed
<1>6. e \in SUBSET {b \in Blocks : b \in Active \/ Outcome[b] = "CANCELLED"}
  BY <1>2, <1>3 DEF Ends, UnderWay
<1>7. \A b \in e : /\ b \notin Active'
                   /\ Outcome'[b] \in IF b \in Active THEN {"DONE", "ERROR", "CANCELLED"} ELSE {"DONE"}
  BY <1>2, <1>3 DEF Ends, UnderWay
<1>8. ASSUME NEW b \in Blocks \ e
      PROVE  IF b \in Active THEN b \in Active' /\ ~Contract!Closed(b)
             ELSE IF Outcome[b] = "open" THEN Contract!Spreads(b)
             ELSE b \notin Active' /\ Outcome'[b] = Outcome[b]
  <2>1. CASE st[b] \in UnderWay
    BY <1>2, <1>3, <1>8, <2>1 DEF Moves, UnderWay, Contract!Closed
  <2>2. CASE st[b] \in Terminal
    BY <1>2, <1>3, <1>8, <2>2 DEF Moves, UnderWay
  <2>3. CASE st[b] \in {"IDLE", "READY"}
    <3>1. Spread(st, st', b) /\ b \notin Active /\ Outcome[b] = "open"
      BY <1>2, <1>3, <1>8, <2>3 DEF Moves
    <3>2. Contract!Spreads(b)
      BY <1>1, <3>1, SpreadSpreads
    <3> QED
      BY <3>1, <3>2
  <2> QED
    BY <2>1, <2>2, <2>3 DEF UnderWay
<1> QED
  BY <1>4, <1>5, <1>6, <1>7, <1>8 DEF Contract!Advance

\* A step that leaves the states alone moves nothing.
LEMMA SameMoves ==
    ASSUME NEW s \in [Blocks -> BlockStates]
    PROVE  Moves(s, s, {}) /\ Ends(s, s, {})
BY DEF Moves, Ends, Spread

\* A scan starts fed blocks, and what it skips is behind a block it could not start.
LEMMA PassMoves ==
    ASSUME NEW s \in [Blocks -> BlockStates], Feeds(s),
           NEW cand \in SUBSET Blocks, NEW go \in SUBSET cand, Offers(s, cand)
    PROVE  Moves(s, PassStates(s, cand, go), {})
<1> DEFINE r  == PassStates(s, cand, go)
           s1 == [b \in Blocks |-> IF b \in go \cap Broken THEN "ERROR"
                                   ELSE IF b \in go THEN "RUNNING"
                                   ELSE IF b \in cand THEN "READY" ELSE s[b]]
<1>1. s1 \in [Blocks -> BlockStates]
  OBVIOUS
<1>2. r = [b \in Blocks |-> IF ~disposed /\ \E f \in go \cap Broken : b \in SkipSet(s1, f)
                            THEN "SKIPPED" ELSE s1[b]]
  BY DEF PassStates
<1>3. r \in [Blocks -> BlockStates]
  BY <1>1, <1>2
<1>4. \A n \in Blocks : s[n] \notin {"IDLE", "READY"} => r[n] = s[n]
  BY PassKeeps
<1>5. ASSUME NEW n \in Blocks, s[n] \in {"IDLE", "READY"}
      PROVE  Spread(s, r, n)
  <2>1. CASE n \in cand
    <3>1. r[n] \in {"READY", "RUNNING", "ERROR"}
      BY <2>1, PassFacts
    <3>2. \A p \in Preds(n) : p \in Blocks /\ s[p] = "DONE"
      BY <2>1 DEF Offers, Ready, Preds
    <3>3. \A p \in Preds(n) : r[p] = "DONE"
      BY <1>4, <3>2
    <3> QED BY <3>1, <3>3 DEF Spread
  <2>2. CASE n \notin cand /\ r[n] = s[n]
    BY <1>5, <2>2 DEF Spread
  <2>3. CASE n \notin cand /\ r[n] # s[n]
    <3>1. PICK f \in go \cap Broken : ~disposed /\ n \in SkipSet(s1, f)
      BY <1>2, <2>3
    <3>2. f \in Blocks /\ r[n] = "SKIPPED"
      BY <1>2, <3>1
    <3>3. PICK p \in Preds(n) : p = f \/ p \in SkipSet(s1, f)
      BY <1>1, <3>1, <3>2, SkipFacts
    <3>4. p \in Blocks
      BY DEF Preds
    <3>5. r[p] \in {"ERROR", "SKIPPED"}
      <4>1. CASE p = f
        <5>1. f \in cand
          OBVIOUS
        <5> QED BY <3>2, <4>1, <5>1, PassFacts
      <4>2. CASE p \in SkipSet(s1, f)
        BY <1>2, <3>1, <3>4, <4>2
      <4> QED BY <3>3, <4>1, <4>2
    <3> HIDE DEF r, s1
    <3> QED BY <3>2, <3>5 DEF Spread
  <2> QED BY <2>1, <2>2, <2>3
<1> HIDE DEF r, s1
<1>6. Moves(s, r, {})
  BY <1>3, <1>4, <1>5 DEF Moves, UnderWay
<1> QED BY <1>6 DEF r

\* Skipping the blocks behind one that failed.
LEMMA SkipMoves ==
    ASSUME NEW s \in [Blocks -> BlockStates], Feeds(s), NEW b \in Blocks,
           s[b] \in {"ERROR", "CANCELLED", "SKIPPED"}
    PROVE  Moves(s, PropagateSkip(s, b), {}) /\ PropagateSkip(s, b)[b] = s[b]
<1> DEFINE r == PropagateSkip(s, b)
<1>1. r = [n \in Blocks |-> IF n \in SkipSet(s, b) THEN "SKIPPED" ELSE s[n]]
  BY DEF PropagateSkip
<1>2. \A n \in SkipSet(s, b) : n \in Blocks /\ s[n] = "IDLE"
  BY SkipFacts, SkipSparesStarted
<1>3. r[b] = s[b] /\ r \in [Blocks -> BlockStates]
  BY <1>1, <1>2
<1> HIDE DEF r
<1>4. ASSUME NEW n \in Blocks, s[n] \in {"IDLE", "READY"}
      PROVE  Spread(s, r, n)
  <2>1. CASE n \in SkipSet(s, b)
    <3>1. PICK p \in Preds(n) : p = b \/ p \in SkipSet(s, b)
      BY <2>1, SkipFacts
    <3>2. r[p] \in {"ERROR", "CANCELLED", "SKIPPED"}
      BY <1>1, <1>2, <1>3, <3>1
    <3>3. r[n] = "SKIPPED"
      BY <1>1, <2>1
    <3> QED BY <3>2, <3>3 DEF Spread
  <2>2. CASE n \notin SkipSet(s, b)
    BY <1>1, <1>4, <2>2 DEF Spread
  <2> QED BY <2>1, <2>2
<1>5. \A n \in Blocks : s[n] \notin {"IDLE", "READY"} => r[n] = s[n]
  BY <1>1, <1>2
<1>6. Moves(s, r, {})
  BY <1>3, <1>4, <1>5 DEF Moves, UnderWay
<1> QED BY <1>3, <1>6 DEF r

\* One block ends, and then the others move.
LEMMA EndThenMoves ==
    ASSUME st \in [Blocks -> BlockStates], NEW b \in Blocks, NEW to \in {"DONE", "ERROR", "CANCELLED"},
           \/ st[b] \in UnderWay
           \/ st[b] = "CANCELLED" /\ to = "DONE",
           NEW r, Moves([st EXCEPT ![b] = to], r, {})
    PROVE  Moves(st, r, {b}) /\ Ends(st, r, {b})
<1> DEFINE s == [st EXCEPT ![b] = to]
<1>1. s[b] = to /\ \A n \in Blocks \ {b} : s[n] = st[n]
  OBVIOUS
<1> HIDE DEF s
<1>2. Moves(s, r, {})
  BY DEF s
<1>3. r[b] = to
  BY <1>1, <1>2 DEF Moves
<1>4. Ends(st, r, {b})
  BY <1>3 DEF Ends
<1>5. Moves(st, r, {b})
  BY <1>1, <1>2 DEF Moves, Spread
<1> QED BY <1>4, <1>5

-----------------------------------------------------------------------------
(* The steps of the scheduler.                                             *)

\* When the completed event is set every block has an outcome and no task is left.
OverInv == completed => (\A b \in Blocks : st[b] \in Terminal) /\ \A b \in Blocks : task[b] = "none"

\* Nothing was done to a run from a block before its first step.
FreshInv == phase = "pending" /\ "from_here" \in Requests => ~completed /\ \A b \in Blocks : st[b] = "IDLE"

ContractInv == SafeInv /\ OverInv /\ FreshInv

\* Seen from the block states a step moves blocks and ends at most one, unless it cancels
\* or takes over a whole run.
Moved == \/ \E e \in SUBSET Blocks : Moves(st, st', e) /\ Ends(st, st', e)
         \/ CancelWorkflow
         \/ \E b \in Blocks : ExecuteFrom(b)

\* What the contract sees of a step, and OverInv after it.
Kept == OverInv' /\ [Contract!Next]_Contract!vars /\ Moved

\* The completed event is set by _check_completion alone.
Announced == completed' = completed \/ completed' = (completed \/ Completes(st', task'))

LEMMA AnnouncedOver ==
    ASSUME ~completed, completed \in BOOLEAN, Announced
    PROVE  /\ completed' \in BOOLEAN /\ OverInv'
           /\ completed' => \A b \in Blocks : st'[b] \in Terminal
<1>1. CASE completed' = completed
  BY <1>1 DEF OverInv
<1>2. CASE completed' = (completed \/ Completes(st', task'))
  <2>1. completed' \in BOOLEAN /\ (completed' => Completes(st', task'))
    BY <1>2 DEF Completes
  <2>2. Completes(st', task') => /\ \A b \in Blocks : st'[b] \in Terminal
                                 /\ \A b \in Blocks : task'[b] = "none"
    BY DEF Completes, ActiveTasks
  <2> QED BY <2>1, <2>2 DEF OverInv
<1> QED BY <1>1, <1>2 DEF Announced

\* Before the completed event a step that moves blocks is one of the contract.
LEMMA MovesKept ==
    ASSUME ContractInv, ~completed, Announced,
           NEW e \in SUBSET Blocks, \A b, c \in e : b = c, Moves(st, st', e), Ends(st, st', e)
    PROVE  Kept
<1>1. completed \in BOOLEAN /\ st \in [Blocks -> BlockStates]
  BY DEF ContractInv, SafeInv, TypeOK
<1>2. /\ completed' \in BOOLEAN /\ OverInv'
      /\ completed' => \A b \in Blocks : st'[b] \in Terminal
  BY <1>1, AnnouncedOver
<1>3. Contract!Advance
  BY <1>1, <1>2, MovesAdvance
<1>4. Moved
  BY DEF Moved
<1> QED BY <1>2, <1>3, <1>4 DEF Kept, Contract!Next

\* A step that leaves the states alone.
LEMMA QuietKept ==
    ASSUME ContractInv, st' = st, completed' = completed \/ (~completed /\ Announced),
           completed => \A b \in Blocks : task[b] = "none" => task'[b] = "none"
    PROVE  Kept
<1>1. st \in [Blocks -> BlockStates] /\ completed \in BOOLEAN
  BY DEF ContractInv, SafeInv, TypeOK
<1>2. CASE completed' = completed
  <2>1. OverInv'
    BY <1>2 DEF ContractInv, OverInv
  <2>2. UNCHANGED Contract!vars
    BY <1>2 DEF Contract!vars, Outcome, Active
  <2>3. Moved
    BY <1>1, SameMoves DEF Moved
  <2> QED BY <2>1, <2>2, <2>3 DEF Kept
<1>3. CASE ~completed /\ Announced
  <2>1. Moves(st, st', {}) /\ Ends(st, st', {})
    BY <1>1, SameMoves
  <2> QED BY <1>3, <2>1, MovesKept
<1> QED BY <1>2, <1>3

\* A scan over the present states.
LEMMA ScanKept ==
    ASSUME ContractInv, NEW p \in BOOLEAN,
           NEW cand, cand = Startable(st) \/ cand = Startable(st) \cup Retriable(st, task),
           Scan(st, task, cand, p)
    PROVE  Kept
<1>1. PICK go \in GoChoices(cand, task, p) :
         /\ st' = PassStates(st, cand, go) /\ task' = PassTasks(task, go)
         /\ completed' = (completed \/ (~disposed /\ go \cap Broken # {} /\ Completes(st', task')))
  BY DEF Scan
<1>2. /\ st \in [Blocks -> BlockStates] /\ Feeds(st)
      /\ task \in [Blocks -> TaskStates] /\ completed \in BOOLEAN
  BY FeedsIsProperty DEF ContractInv, SafeInv, TypeOK
<1>3. cand \in SUBSET Blocks /\ Offers(st, cand) /\ go \in SUBSET cand
  <2>1. go \in SUBSET cand
    BY GoChoicesWithin
  <2>2. /\ Offers(st, Startable(st)) /\ Startable(st) \subseteq Blocks
        /\ Offers(st, Startable(st) \cup Retriable(st, task)) /\ Retriable(st, task) \subseteq Blocks
    BY <1>2, OffersCandidates
  <2> QED BY <2>1, <2>2
<1>4. CASE completed
  <2>0. \A b \in Blocks : st[b] \notin {"IDLE", "READY"}
    BY <1>4 DEF ContractInv, OverInv
  <2>1. cand = {} /\ go = {}
    BY <1>3, <2>0 DEF Offers
  <2>2. st' = st
    BY <1>1, <1>2, <2>1 DEF PassStates
  <2>3. task' = task /\ completed' = completed
    BY <1>1, <1>2, <1>4, <2>1 DEF PassTasks
  <2> QED BY <2>2, <2>3, QuietKept
<1>5. CASE ~completed
  <2>1. Moves(st, st', {})
    BY <1>1, <1>2, <1>3, PassMoves
  <2>2. Announced
    BY <1>1, <1>2, <1>5 DEF Announced
  <2> QED BY <1>5, <2>1, <2>2, MovesKept DEF Ends
<1> QED BY <1>4, <1>5

\* A task ends its block with ERROR or CANCELLED.
LEMMA BlockEndsKept ==
    ASSUME ContractInv, NEW b \in Blocks, ~TaskDone(b), NEW to \in {"ERROR", "CANCELLED"}, BlockEnds(b, to)
    PROVE  Kept
<1>1. /\ st \in [Blocks -> BlockStates] /\ task \in [Blocks -> TaskStates] /\ Feeds(st)
      /\ st[b] \in {"RUNNING", "PAUSED", "CANCELLED"} /\ ~completed
  BY FeedsIsProperty DEF ContractInv, SafeInv, TypeOK, TaskInv, TaskDone, OverInv
<1>2. Announced
  BY DEF BlockEnds, Leave, CheckCompletion, Announced
<1>3. CASE st[b] = "CANCELLED"
  BY <1>1, <1>2, <1>3, QuietKept DEF BlockEnds
<1>4. CASE st[b] # "CANCELLED"
  <2> DEFINE s == [st EXCEPT ![b] = to]
  <2>1. st' = s \/ st' = PropagateSkip(s, b)
    BY <1>4 DEF BlockEnds
  <2>2. s \in [Blocks -> BlockStates] /\ Feeds(s) /\ s[b] = to
    BY <1>1, <1>4, ChangeFeeds
  <2>3. Moves(s, st', {})
    <3> HIDE DEF s
    <3> QED BY <2>1, <2>2, SameMoves, SkipMoves
  <2>4. Moves(st, st', {b}) /\ Ends(st, st', {b})
    BY <1>1, <1>4, <2>3, EndThenMoves DEF UnderWay
  <2> QED BY <1>1, <1>2, <2>4, MovesKept
<1> QED BY <1>3, <1>4

\* A block under way changes its state and stays under way.
LEMMA StaysKept ==
    ASSUME ContractInv, NEW b \in Blocks, ~TaskDone(b), st[b] \in UnderWay, NEW to \in UnderWay,
           st' = [st EXCEPT ![b] = to], completed' = completed
    PROVE  Kept
<1>1. st \in [Blocks -> BlockStates] /\ ~completed
  BY DEF ContractInv, SafeInv, TypeOK, TaskDone, OverInv
<1>2. Moves(st, st', {}) /\ Ends(st, st', {})
  BY <1>1 DEF Moves, Ends, UnderWay, Spread
<1>3. Announced /\ {} \in SUBSET Blocks /\ \A c, d \in {} : c = d
  BY DEF Announced
<1> QED BY <1>1, <1>2, <1>3, MovesKept

\* The decision of an interactive block is there.
LEMMA DecideKept ==
    ASSUME ContractInv, NEW b \in Blocks, ~TaskDone(b), st[b] \in UnderWay,
           NEW f \in {"good", "bad"}, Decide(b, f)
    PROVE  Kept
<1>1. CASE BlockEnds(b, "ERROR")
  BY <1>1, BlockEndsKept
<1>2. CASE st' = [st EXCEPT ![b] = "RUNNING"] /\ completed' = completed
  BY <1>2, StaysKept DEF UnderWay
<1> QED BY <1>1, <1>2 DEF Decide

LEMMA BlockSucceedsKept ==
    ASSUME ContractInv, NEW b \in Blocks, BlockSucceeds(b)
    PROVE  Kept
<1> DEFINE s == [st EXCEPT ![b] = "DONE"]
           cand == IF disposed THEN {} ELSE Startable(s) \cup Retriable(s, task)
<1>1. PICK go \in GoChoices(cand, task, paused) :
         st' = PassStates(s, cand, go) /\ Leave(b, st', PassTasks(task, go))
  BY DEF BlockSucceeds
<1>2. /\ st \in [Blocks -> BlockStates] /\ task \in [Blocks -> TaskStates] /\ paused \in BOOLEAN
      /\ task[b] = "ok" /\ ~completed
  BY DEF ContractInv, SafeInv, TypeOK, BlockSucceeds, OverInv
<1>3. st[b] \in {"RUNNING", "PAUSED", "CANCELLED"}
  BY <1>2 DEF ContractInv, SafeInv, TaskInv, TaskDone
<1>4. s \in [Blocks -> BlockStates] /\ Feeds(s)
  BY <1>2, <1>3, FeedsIsProperty DEF ContractInv, SafeInv, Feeds, Ready, Preds
<1> HIDE DEF s
<1>5. cand \in SUBSET Blocks /\ Offers(s, cand) /\ go \in SUBSET cand
  <2>1. go \subseteq cand
    BY <1>2, GoChoicesWithin
  <2>2. CASE disposed
    BY <2>1, <2>2 DEF Offers
  <2>3. CASE ~disposed
    BY <1>4, <2>1, <2>3, OffersCandidates
  <2> QED BY <2>2, <2>3
<1>6. Moves(s, st', {})
  <2> HIDE DEF cand
  <2> QED BY <1>1, <1>4, <1>5, PassMoves
<1>7. Moves(st, st', {b}) /\ Ends(st, st', {b})
  BY <1>2, <1>3, <1>6, EndThenMoves DEF s, UnderWay
<1>8. Announced
  BY <1>1 DEF Leave, CheckCompletion, Announced
<1> QED BY <1>2, <1>7, <1>8, MovesKept

LEMMA CancelBlockKept ==
    ASSUME ContractInv, NEW b \in Blocks, CancelBlock(b)
    PROVE  Kept
<1> DEFINE s == [st EXCEPT ![b] = "CANCELLED"]
<1>1. st[b] \in UnderWay /\ st' = PropagateSkip(s, b) /\ Announced
  BY DEF CancelBlock, Cancellable, UnderWay, CheckCompletion, Announced
<1>2. st \in [Blocks -> BlockStates] /\ Feeds(st) /\ ~completed
  BY <1>1, FeedsIsProperty DEF ContractInv, SafeInv, TypeOK, OverInv, UnderWay
<1>3. s \in [Blocks -> BlockStates] /\ Feeds(s) /\ s[b] = "CANCELLED"
  BY <1>1, <1>2, ChangeFeeds DEF UnderWay
<1>4. Moves(s, st', {})
  <2> HIDE DEF s
  <2> QED BY <1>1, <1>3, SkipMoves
<1>5. Moves(st, st', {b}) /\ Ends(st, st', {b})
  BY <1>1, <1>2, <1>4, EndThenMoves
<1>6. {b} \in SUBSET Blocks /\ \A c, d \in {b} : c = d
  OBVIOUS
<1> HIDE DEF s
<1> QED BY <1>1, <1>2, <1>5, <1>6, MovesKept

\* A workflow cancel cancels what is under way and skips the rest, or finds nothing.
LEMMA CancelWorkflowKept ==
    ASSUME ContractInv, CancelWorkflow
    PROVE  Kept
<1>1. /\ st' = [b \in Blocks |-> IF st[b] \in {"RUNNING", "PAUSED"} THEN "CANCELLED"
                                 ELSE IF st[b] \in {"IDLE", "READY"} THEN "SKIPPED" ELSE st[b]]
      /\ task' = task /\ completed' = (completed \/ Completes(st', task'))
  BY DEF CancelWorkflow, Cancellable, CheckCompletion
<1>2. st \in [Blocks -> BlockStates] /\ completed \in BOOLEAN
  BY DEF ContractInv, SafeInv, TypeOK
<1>3. CASE completed
  <2>1. st' = st /\ completed' = completed
    BY <1>1, <1>2, <1>3 DEF ContractInv, OverInv
  <2> QED BY <1>1, <2>1, QuietKept
<1>4. CASE ~completed
  <2>1. /\ completed' \in BOOLEAN /\ OverInv'
        /\ completed' => \A b \in Blocks : st'[b] \in Terminal
    BY <1>1, <1>2, <1>4, AnnouncedOver DEF Announced
  <2>2. Active' = {}
    BY <1>1, <1>2 DEF Active
  <2>3. Outcome' = [b \in Blocks |-> IF b \in Active THEN "CANCELLED"
                                     ELSE IF Outcome[b] = "open" THEN "SKIPPED" ELSE Outcome[b]]
    BY <1>1, <1>2 DEF Active, Outcome
  <2>4. Contract!Announce
    BY <2>1 DEF Contract!Announce, Contract!Closed, Outcome
  <2>5. Contract!CancelAll
    BY <1>4, <2>2, <2>3, <2>4 DEF Contract!CancelAll
  <2> QED BY <2>1, <2>5 DEF Kept, Contract!Next, Moved
<1> QED BY <1>2, <1>3, <1>4

\* execute_from takes over what it does not run.
LEMMA ExecuteFromKept ==
    ASSUME ContractInv, NEW target \in Blocks, ExecuteFrom(target)
    PROVE  Kept
<1> DEFINE runSet   == {target} \cup Downstream(target)
           required == {p \in Blocks \ runSet : \E n \in runSet : p \in Preds(n)}
           reused   == required \cup UNION {Ancestors(p) : p \in required}
           from(recorded) == [b \in Blocks |-> IF b \in runSet THEN "IDLE"
                                               ELSE IF b \in reused THEN "DONE" ELSE recorded[b]]
<1>1. PICK recorded \in [Blocks \ (runSet \cup reused) -> Recorded] :
        \E go \in GoChoices(Startable(from(recorded)), task, paused) :
           /\ st' = PassStates(from(recorded), Startable(from(recorded)), go)
           /\ completed' = Completes(st', task')
  BY DEF ExecuteFrom
<1> DEFINE s == from(recorded)
<1>2. PICK go \in GoChoices(Startable(s), task, paused) : st' = PassStates(s, Startable(s), go)
  BY <1>1
<1>3. s \in [Blocks -> BlockStates] /\ \A b \in Blocks : s[b] \in {"IDLE"} \cup Terminal
  BY DEF Recorded
<1>4. /\ \A b \in Blocks \cap runSet : s[b] = "IDLE"
      /\ \A b \in Blocks \ runSet : s[b] \in Terminal
      /\ \A b \in required : s[b] = "DONE"
  BY DEF Recorded
<1>5. /\ \A n \in Blocks : (\E p \in Preds(n) : p \in runSet) => n \in runSet
      /\ runSet \subseteq Blocks
  <2>1. \A n \in Blocks : \A p \in Preds(n) : p \in runSet => n \in Downstream(target)
    BY ReachableClosed DEF Downstream
  <2> QED BY <2>1 DEF Downstream, Reachable
<1>6. \A n \in runSet : \A p \in Preds(n) : p \notin runSet => p \in required
  BY DEF Preds
<1> HIDE DEF s, runSet, required
<1>7. Feeds(s)
  BY <1>3 DEF Feeds
<1>8. paused \in BOOLEAN /\ ~completed /\ \A b \in Blocks : st[b] = "IDLE"
  BY DEF ExecuteFrom, ContractInv, SafeInv, TypeOK, FreshInv
<1>9. Startable(s) \in SUBSET Blocks /\ Offers(s, Startable(s)) /\ go \in SUBSET Startable(s)
  BY <1>3, <1>7, <1>8, OffersCandidates, GoChoicesWithin
<1>10. Moves(s, st', {})
  BY <1>2, <1>3, <1>7, <1>9, PassMoves
<1>11. st' \in [Blocks -> BlockStates]
  BY <1>10 DEF Moves
<1>12. /\ completed' \in BOOLEAN /\ OverInv'
       /\ completed' => \A b \in Blocks : st'[b] \in Terminal
  <2>1. completed' = Completes(st', task')
    BY <1>1
  <2>2. Completes(st', task') => /\ \A b \in Blocks : st'[b] \in Terminal
                                 /\ \A b \in Blocks : task'[b] = "none"
    BY DEF Completes, ActiveTasks
  <2>3. completed' \in BOOLEAN
    BY <2>1 DEF Completes
  <2> QED BY <2>1, <2>2, <2>3 DEF OverInv
<1>13. /\ Active = {} /\ \A b \in Blocks : Outcome[b] = "open"
       /\ Outcome' \in [Blocks -> Contract!Outcomes \cup {"open"}] /\ Active' \subseteq Blocks
       /\ Contract!Announce
  BY <1>8, <1>11, <1>12 DEF Active, Outcome, Contract!Announce, Contract!Closed, Contract!Outcomes
<1>14. \A e \in Edges : e[1] \in runSet => e[2] \in runSet
  <2> TAKE e \in Edges
  <2>1. e[2] \in Blocks /\ e[1] \in Preds(e[2])
    BY EdgesAssumption DEF Preds
  <2> QED BY <1>5, <2>1
<1>15. \A e \in Edges : e[2] \in runSet /\ e[1] \notin runSet => Outcome'[e[1]] = "DONE"
  <2> TAKE e \in Edges
  <2> SUFFICES ASSUME e[2] \in runSet, e[1] \notin runSet PROVE Outcome'[e[1]] = "DONE"
    OBVIOUS
  <2>1. e[1] \in Blocks /\ e[1] \in Preds(e[2])
    BY EdgesAssumption DEF Preds
  <2>2. st'[e[1]] = "DONE"
    BY <1>4, <1>6, <1>10, <2>1 DEF Moves
  <2> QED BY <2>1, <2>2 DEF Outcome
<1>16. \A b \in Blocks \ runSet : Contract!Closed(b) /\ b \notin Active'
  <2> TAKE b \in Blocks \ runSet
  <2>1. st'[b] \in Terminal
    BY <1>4, <1>10 DEF Moves
  <2> QED BY <2>1 DEF Contract!Closed, Outcome, Active
<1>17. \A b \in runSet : Contract!Spreads(b)
  BY <1>4, <1>5, <1>10, <1>11, SpreadSpreads DEF Moves
<1>18. Contract!TakeOver
  BY <1>5, <1>8, <1>13, <1>14, <1>15, <1>16, <1>17 DEF Contract!TakeOver
<1> QED BY <1>12, <1>18 DEF Kept, Contract!Next, Moved

-----------------------------------------------------------------------------
(* The refinement.                                                         *)

LEMMA ContractInit == Init => ContractInv /\ Contract!Init
<1> SUFFICES ASSUME Init PROVE ContractInv /\ Contract!Init
  OBVIOUS
<1>1. SafeInv
  BY SafeInit
<1> QED BY <1>1 DEF Init, ContractInv, OverInv, FreshInv, Contract!Init, Outcome, Active

LEMMA FreshNext == ContractInv /\ [Next]_vars => FreshInv'
<1> SUFFICES ASSUME ContractInv, [Next]_vars, phase' = "pending", "from_here" \in Requests
             PROVE  ~completed' /\ \A b \in Blocks : st'[b] = "IDLE"
  BY DEF FreshInv
<1>1. phase = "pending"
  BY PhaseNext DEF PhaseMoves
<1>2. /\ \A b \in Blocks : task[b] = "none" /\ st[b] = "IDLE"
      /\ ~pass /\ ~completed
  BY <1>1 DEF ContractInv, SafeInv, PendingInv, FreshInv
<1>3. st' = st /\ completed' = completed
  BY <1>1, <1>2
  DEF Next, RunStep, TaskStep, vars, runVars, blockVars, Execute, ExecuteFrom, RunNeverStarts,
      LeaveWait, StopAwaited, StopNext, Dispose, TaskStarts, TaskDies, WorkerSpawned,
      BlockSucceeds, BlockFails, BlockReportsCancelled, TaskUnwinds, PromptDropped,
      PromptReturns, DecisionArrives, WorkerExits, Answer, CancelBlock, Cancellable, Reap, Pause,
      Resume, CancelWorkflow, RetryTimerFires, RetryPass, Over
<1> QED BY <1>2, <1>3

LEMMA ContractNext == ContractInv /\ [Next]_vars => ContractInv' /\ [Contract!Next]_Contract!vars /\ Moved
<1> SUFFICES ASSUME ContractInv, [Next]_vars PROVE Kept
  BY SafeNext, FreshNext DEF ContractInv, Kept
<1> USE DEF blockVars, runVars
<1>0. /\ st \in [Blocks -> BlockStates] /\ task \in [Blocks -> TaskStates] /\ paused \in BOOLEAN
      /\ completed => \A b \in Blocks : task[b] = "none"
  BY DEF ContractInv, SafeInv, TypeOK, OverInv
<1>1. CASE Execute
  BY <1>0, <1>1, ScanKept DEF Execute
<1>2. ASSUME NEW target \in Blocks, ExecuteFrom(target) PROVE Kept
  BY <1>2, ExecuteFromKept
<1>3. CASE \/ RunNeverStarts \/ HaltsNone \/ Dispose
           \/ Pause \/ RetryTimerFires \/ Over \/ UNCHANGED vars
  <2>1. st' = st /\ task' = task /\ completed' = completed
    BY <1>3 DEF RunNeverStarts, HaltsNone, Dispose, Pause, RetryTimerFires, Over, vars
  <2> QED BY <2>1, QuietKept
<1>4. ASSUME NEW b \in Blocks,
             \/ Halts(b) \/ TaskStarts(b) \/ TaskDies(b) \/ WorkerSpawned(b) \/ WorkerExits(b)
             \/ Answer(b) \/ Reap(b)
      PROVE  Kept
  <2>1. st' = st /\ completed' = completed
    BY <1>4 DEF Halts, TaskStarts, TaskDies, WorkerSpawned, WorkerExits, Answer, Reap
  <2>2. \A n \in Blocks : task[n] = "none" => task'[n] = "none"
    BY <1>0, <1>4
    DEF Halts, Terminated, TaskDone, TaskStarts, TaskDies, NextNew, WorkerSpawned, WorkerExits, Answer, Reap
  <2> QED BY <2>1, <2>2, QuietKept
<1>5. ASSUME NEW b \in Blocks, BlockSucceeds(b) PROVE Kept
  BY <1>5, BlockSucceedsKept
<1>6. ASSUME NEW b \in Blocks, BlockFails(b) \/ BlockReportsCancelled(b) PROVE Kept
  BY <1>6, BlockEndsKept DEF BlockFails, BlockReportsCancelled, TaskDone
<1>7. ASSUME NEW b \in Blocks, TaskUnwinds(b) \/ PromptDropped(b) PROVE Kept
  <2>1. st' = st /\ Announced /\ task[b] # "none"
    BY <1>7 DEF TaskUnwinds, PromptDropped, Leave, CheckCompletion, Announced
  <2> QED BY <1>0, <2>1, QuietKept
<1>8. ASSUME NEW b \in Blocks, PromptReturns(b) PROVE Kept
  <2>1. ~TaskDone(b) /\ st[b] \in UnderWay
    BY <1>8 DEF PromptReturns, TaskDone, ContractInv, SafeInv, TaskInv, UnderWay
  <2>2. CASE Decide(b, "good")
    BY <2>1, <2>2, DecideKept
  <2>3. CASE future[b] # "pending" /\ Decide(b, future[b])
    <3>1. future[b] \in {"good", "bad"}
      BY <2>3 DEF Decide
    <3> QED BY <2>1, <2>3, <3>1, DecideKept
  <2>4. CASE st' = [st EXCEPT ![b] = "PAUSED"] /\ completed' = completed
    BY <2>1, <2>4, StaysKept DEF UnderWay
  <2> QED BY <1>8, <2>2, <2>3, <2>4 DEF PromptReturns
<1>9. ASSUME NEW b \in Blocks, DecisionArrives(b) PROVE Kept
  <2>1. ~TaskDone(b) /\ st[b] \in UnderWay /\ future[b] \in {"good", "bad"} /\ Decide(b, future[b])
    BY <1>9 DEF DecisionArrives, TaskDone, ContractInv, SafeInv, TaskInv, UnderWay
  <2> QED BY <2>1, DecideKept
<1>10. ASSUME NEW b \in Blocks, CancelBlock(b) PROVE Kept
  BY <1>10, CancelBlockKept
<1>11. CASE CancelWorkflow
  BY <1>11, CancelWorkflowKept
<1>12. CASE Resume
  BY <1>0, <1>12, ScanKept DEF Resume
<1>13. CASE RetryPass
  <2>1. Scan(st, task, Startable(st) \cup Retriable(st, task), paused)
    BY <1>13 DEF RetryPass
  <2> QED BY <1>0, <2>1, ScanKept
<1>14. LeaveWait \/ StopAwaited => HaltsNone \/ \E b \in Blocks : Halts(b)
  BY CleanupStep DEF ContractInv, SafeInv
<1> QED BY <1>1, <1>2, <1>3, <1>4, <1>5, <1>6, <1>7, <1>8, <1>9, <1>10, <1>11, <1>12, <1>13, <1>14
        DEF Next, RunStep, TaskStep

\* Whatever its tasks, workers, timers and requests do, a run of the scheduler keeps the
\* contract of a run: outcomes spread along the edges, no block is activated twice, and
\* nothing changes after the completed event.
THEOREM SchedulerKeepsContract == Spec => KeepsContract
<1>1. Init => ContractInv /\ Contract!Init
  BY ContractInit
<1>2. ContractInv /\ [Next]_vars => ContractInv' /\ [Contract!Next]_Contract!vars
  BY ContractNext
<1> QED BY <1>1, <1>2, PTL DEF Spec, KeepsContract, Contract!Spec
=============================================================================
