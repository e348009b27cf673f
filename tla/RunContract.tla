---------------------------- MODULE RunContract -----------------------------
(***************************************************************************)
(* What a run of a workflow promises, whatever its tasks, workers, timers  *)
(* and requests do: outcomes spread along the edges.  A block is active    *)
(* only behind blocks that are DONE, it is skipped only behind one that    *)
(* failed or by a cancel of the whole run, at most one active block ends   *)
(* per step, nothing is activated twice, and once the run is announced as  *)
(* over nothing changes.  DagScheduler implements it.                      *)
(***************************************************************************)
EXTENDS WorkflowDag

VARIABLES
    outcome,    \* how each block ended, or "open"
    active,     \* the blocks dispatched and not ended
    over        \* the end of the run was announced

vars == <<outcome, active, over>>

Outcomes == {"DONE", "ERROR", "CANCELLED", "SKIPPED"}

Init == outcome = [b \in Blocks |-> "open"] /\ active = {} /\ over = FALSE

Closed(b) == outcome'[b] # "open"
FedBy(b)  == \A p \in Preds(b) : outcome'[p] = "DONE"

\* What a step may do to a block nothing was done to: leave it, start it, fail to start
\* it, or skip it.
Spreads(b) ==
    /\ outcome'[b] \in {"open", "ERROR", "SKIPPED"}
    /\ b \in active' => ~Closed(b)
    /\ b \in active' \/ outcome'[b] = "ERROR" => FedBy(b)
    /\ outcome'[b] = "SKIPPED" => \E p \in Preds(b) : outcome'[p] \in Outcomes \ {"DONE"}

\* The end is announced when every block has an outcome, then or later.
Announce == over' \in BOOLEAN /\ (over' => \A b \in Blocks : Closed(b))

\* At most one active block ends, or a cancelled one delivers after all; outcomes spread.
Advance ==
    /\ ~over /\ Announce
    /\ outcome' \in [Blocks -> Outcomes \cup {"open"}] /\ active' \subseteq Blocks
    /\ \E e \in SUBSET {b \in Blocks : b \in active \/ outcome[b] = "CANCELLED"} :
          /\ \A b, c \in e : b = c
          /\ \A b \in e : /\ b \notin active'
                          /\ outcome'[b] \in IF b \in active THEN {"DONE", "ERROR", "CANCELLED"} ELSE {"DONE"}
          /\ \A b \in Blocks \ e :
                IF b \in active THEN b \in active' /\ ~Closed(b)
                ELSE IF outcome[b] = "open" THEN Spreads(b)
                ELSE b \notin active' /\ outcome'[b] = outcome[b]

\* The whole run is cancelled at once.
CancelAll ==
    /\ ~over /\ Announce
    /\ outcome' = [b \in Blocks |-> IF b \in active THEN "CANCELLED"
                                    ELSE IF outcome[b] = "open" THEN "SKIPPED" ELSE outcome[b]]
    /\ active' = {}

\* A run from a block starts by taking over the outcomes of what it does not run, DONE
\* for what feeds the blocks it runs.
TakeOver ==
    /\ ~over /\ active = {} /\ \A b \in Blocks : outcome[b] = "open"
    /\ Announce
    /\ outcome' \in [Blocks -> Outcomes \cup {"open"}] /\ active' \subseteq Blocks
    /\ \E S \in SUBSET Blocks :
          /\ \A e \in Edges : e[1] \in S => e[2] \in S
          /\ \A e \in Edges : e[2] \in S /\ e[1] \notin S => outcome'[e[1]] = "DONE"
          /\ \A b \in Blocks \ S : Closed(b) /\ b \notin active'
          /\ \A b \in S : Spreads(b)

Next == Advance \/ CancelAll \/ TakeOver

Spec == Init /\ [][Next]_vars
=============================================================================
