---------------------------- MODULE WorkflowDag ----------------------------
(***************************************************************************)
(* The directed acyclic graph of a workflow, as engine/dag.py builds it    *)
(* from the nodes and edges of a WorkflowDefinition, and the questions the *)
(* scheduler asks about it.  Ports are left out: two edges between the     *)
(* same pair of blocks are one edge here.                                  *)
(*                                                                         *)
(* Reachability is stated as a least closed set and not by recursion, so   *)
(* that modules with proofs can use it.                                    *)
(***************************************************************************)
EXTENDS Naturals

CONSTANTS
    Blocks,     \* the executing nodes of the workflow
    Edges,      \* <<p, n>>: an output of p feeds an input of n
    Rank        \* the position of a block in the order topological_sort returned

\* build_dag keeps only edges between known nodes.
ASSUME EdgesAssumption == Edges \subseteq Blocks \X Blocks

\* topological_sort lists every node once, every source before its targets
\* (it raises on a cycle, and then there is no scheduler).
ASSUME RankAssumption ==
    /\ Rank \in [Blocks -> Nat]
    /\ \A m, n \in Blocks : m # n => Rank[m] # Rank[n]
    /\ \A e \in Edges : Rank[e[1]] < Rank[e[2]]

Preds(n) == {p \in Blocks : <<p, n>> \in Edges}

\* S holds every block of `through` that is fed by b or by a member of S.
ClosedFrom(b, through, S) ==
    \A n \in through : (\E p \in Preds(n) : p = b \/ p \in S) => n \in S

\* What a breadth-first walk downstream from b visits when it enters only
\* the blocks of `through`: the least set closed in that sense.
Reachable(b, through) ==
    {n \in Blocks : \A S \in SUBSET Blocks : ClosedFrom(b, through, S) => n \in S}

Downstream(b) == Reachable(b, Blocks)

Ancestors(b) == {a \in Blocks : b \in Downstream(a)}
=============================================================================
