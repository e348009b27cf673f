------------------------- MODULE WorkflowDagProofs -------------------------
(* What the walk downstream of a block visits, for every graph.            *)
EXTENDS WorkflowDag, WellFoundedInduction, TLAPS

\* The walk enters only the blocks it may enter.
LEMMA ReachableWithin ==
    ASSUME NEW b, NEW through \in SUBSET Blocks
    PROVE  Reachable(b, through) \subseteq through
<1>1. ClosedFrom(b, through, through)
  BY DEF ClosedFrom
<1> QED BY <1>1 DEF Reachable

\* From a block it visits, and from b, the walk goes on to every successor it may enter.
LEMMA ReachableClosed ==
    ASSUME NEW b, NEW through \in SUBSET Blocks, NEW n \in through, NEW p \in Preds(n),
           p = b \/ p \in Reachable(b, through)
    PROVE  n \in Reachable(b, through)
<1> SUFFICES ASSUME NEW S \in SUBSET Blocks, ClosedFrom(b, through, S) PROVE n \in S
  BY DEF Reachable
<1>1. p = b \/ p \in S
  BY DEF Reachable
<1> QED BY <1>1 DEF ClosedFrom

\* The walk visits nothing without a reason: each block it visits is fed by b or by
\* another visited block.
LEMMA ReachableHasCause ==
    ASSUME NEW b, NEW through \in SUBSET Blocks, NEW n \in Reachable(b, through)
    PROVE  \E p \in Preds(n) : p = b \/ p \in Reachable(b, through)
<1> DEFINE R == Reachable(b, through)
           S == {m \in R : \E p \in Preds(m) : p = b \/ p \in R}
<1>1. R \subseteq through
  BY ReachableWithin
<1>2. ClosedFrom(b, through, S)
  <2> SUFFICES ASSUME NEW m \in through, NEW p \in Preds(m), p = b \/ p \in S PROVE m \in S
    BY DEF ClosedFrom
  <2>1. p = b \/ p \in R
    OBVIOUS
  <2>2. m \in R
    BY <2>1, ReachableClosed
  <2> QED BY <2>1, <2>2
<1>3. S \in SUBSET Blocks
  BY <1>1
<1>4. n \in S
  BY <1>2, <1>3 DEF Reachable
<1> QED BY <1>4

\* A block comes after every block upstream of it in the order of topological_sort, so
\* no block is downstream of itself: a failure never skips the block that failed.
THEOREM DownstreamIsLater ==
    ASSUME NEW b \in Blocks, NEW n \in Downstream(b)
    PROVE  Rank[b] < Rank[n]
<1> DEFINE Later == {m \in Blocks : Rank[b] < Rank[m]}
<1>1. ClosedFrom(b, Blocks, Later)
  <2> SUFFICES ASSUME NEW m \in Blocks, NEW p \in Preds(m), p = b \/ p \in Later
               PROVE  Rank[b] < Rank[m]
    BY DEF ClosedFrom
  <2>1. Rank[p] < Rank[m]
    BY RankAssumption DEF Preds
  <2>2. p \in Blocks /\ Rank[p] \in Nat /\ Rank[m] \in Nat /\ Rank[b] \in Nat
    BY RankAssumption DEF Preds
  <2> QED BY <2>1, <2>2
<1>2. n \in Later
  BY <1>1 DEF Downstream, Reachable
<1> QED BY <1>2

-----------------------------------------------------------------------------
(* Upstream and downstream.                                                *)

\* A block is downstream of what feeds it and of what that is downstream of, and of
\* nothing else.
LEMMA DownstreamStep ==
    ASSUME NEW a \in Blocks, NEW b \in Blocks
    PROVE  b \in Downstream(a) <=> \E p \in Preds(b) : p = a \/ p \in Downstream(a)
  BY ReachableHasCause, ReachableClosed DEF Downstream

LEMMA AncestorsStep ==
    ASSUME NEW b \in Blocks
    PROVE  Ancestors(b) = UNION {Ancestors(p) \cup {p} : p \in Preds(b)}
<1>1. Preds(b) \subseteq Blocks /\ \A p \in Blocks : Ancestors(p) \subseteq Blocks
  BY DEF Preds, Ancestors
<1>2. \A a \in Blocks : a \in Ancestors(b) <=> \E p \in Preds(b) : p = a \/ a \in Ancestors(p)
  BY <1>1, DownstreamStep DEF Ancestors
<1> QED BY <1>1, <1>2

LEMMA DownstreamTransitive ==
    ASSUME NEW a \in Blocks, NEW b \in Downstream(a), NEW c \in Downstream(b)
    PROVE  c \in Downstream(a)
<1>1. Downstream(a) \subseteq Blocks /\ Downstream(b) \subseteq Blocks
  BY ReachableWithin DEF Downstream
<1>2. ClosedFrom(b, Blocks, Downstream(a))
  BY <1>1, ReachableClosed DEF ClosedFrom, Downstream
<1> QED BY <1>1, <1>2 DEF Downstream, Reachable

\* Of some blocks one comes first in the order of topological_sort.
LEMMA EarliestBlock ==
    ASSUME NEW S \in SUBSET Blocks, S # {}
    PROVE  \E b \in S : \A c \in S : Rank[b] <= Rank[c]
<1> DEFINE Ranks == {Rank[b] : b \in S}
<1>1. Ranks \subseteq Nat /\ Ranks # {}
  BY RankAssumption
<1> DEFINE Less == {r \in Nat \X Nat : r[1] < r[2]}
<1>2. IsWellFoundedOn(Less, Nat)
  BY NatLessThanWellFounded DEF OpToRel
<1>3. PICK x \in Ranks : \A y \in Ranks : <<y, x>> \notin Less
  <2> HIDE DEF Ranks, Less
  <2> QED BY <1>1, <1>2, WFMin
<1>4. \A y \in Ranks : x <= y
  <2> SUFFICES ASSUME NEW y \in Ranks, y < x PROVE FALSE
    BY <1>1
  <2>1. <<y, x>> \in Nat \X Nat
    BY <1>1
  <2> QED BY <1>3, <2>1
<1> QED BY <1>4

-----------------------------------------------------------------------------
(* What flows along the edges.                                             *)

\* The element of b with all that the blocks that feed it are given.
Gathered(g, own, b) == {own[b]} \cup UNION {g[p] : p \in Preds(b)}

\* Every block is given a set: what is known for some blocks, and every other what it
\* gathers.
Flow(g, fixed, known, own) ==
    g = [b \in Blocks |-> IF b \in fixed THEN known[b] ELSE Gathered(g, own, b)]

\* There is such an assignment: the least one that gives every block at least that.
LEMMA FlowExists ==
    ASSUME NEW fixed, NEW known, NEW own
    PROVE  \E g : Flow(g, fixed, known, own)
<1> DEFINE U       == {own[b] : b \in Blocks} \cup UNION {known[b] : b \in Blocks}
           F(G)    == [b \in Blocks |-> IF b \in fixed THEN known[b] ELSE {own[b]} \cup UNION {G[p] : p \in Preds(b)}]
           Full    == {G \in [Blocks -> SUBSET U] : \A b \in Blocks : F(G)[b] \subseteq G[b]}
           g       == [b \in Blocks |-> {x \in U : \A G \in Full : x \in G[b]}]
<1>1. \A b \in Blocks : Preds(b) \subseteq Blocks /\ known[b] \subseteq U /\ own[b] \in U
  BY DEF Preds
<1> HIDE DEF U
<1>2. \A G \in [Blocks -> SUBSET U] : F(G) \in [Blocks -> SUBSET U]
  BY <1>1
<1>3. g \in [Blocks -> SUBSET U]
  OBVIOUS
<1>4. \A b \in Blocks : F(g)[b] \subseteq g[b]
  <2> SUFFICES ASSUME NEW b \in Blocks, NEW x \in F(g)[b] PROVE x \in g[b]
    OBVIOUS
  <2>1. x \in U
    BY <1>2, <1>3
  <2>2. ASSUME NEW G \in Full PROVE x \in G[b]
    <3>1. \A p \in Blocks : g[p] \subseteq G[p]
      OBVIOUS
    <3>2. x \in F(G)[b]
      <4>1. CASE b \in fixed
        BY <4>1
      <4>2. CASE b \notin fixed
        <5>1. x = own[b] \/ \E p \in Preds(b) : x \in g[p]
          <6> HIDE DEF g
          <6> QED BY <4>2
        <5>2. x = own[b] \/ \E p \in Preds(b) : x \in G[p]
          BY <1>1, <3>1, <5>1
        <5> QED BY <4>2, <5>2
      <4> QED BY <4>1, <4>2
    <3> QED BY <3>2
  <2> QED BY <2>1, <2>2
<1>5. F(g) \in Full
  <2>1. F(g) \in [Blocks -> SUBSET U]
    BY <1>2, <1>3
  <2>2. ASSUME NEW b \in Blocks, NEW x \in F(F(g))[b] PROVE x \in F(g)[b]
    <3> DEFINE G == F(g)
    <3>1. \A p \in Blocks : G[p] \subseteq g[p]
      BY <1>4
    <3>2. CASE b \in fixed
      BY <3>2
    <3>3. CASE b \notin fixed
      <4>1. x = own[b] \/ \E p \in Preds(b) : x \in G[p]
        BY <2>2, <3>3
      <4>2. x = own[b] \/ \E p \in Preds(b) : x \in g[p]
        BY <1>1, <3>1, <4>1
      <4> QED BY <3>3, <4>2
    <3> QED BY <3>2, <3>3
  <2> QED BY <2>1, <2>2
<1>6. \A b \in Blocks : g[b] \subseteq F(g)[b]
  BY <1>5
<1>7. \A b \in Blocks : g[b] = F(g)[b]
  BY <1>4, <1>6
<1>8. g = F(g)
  BY <1>7
<1> QED BY <1>8 DEF Flow, Gathered

\* Two assignments agree where they are fixed, on the blocks W that gather from blocks of
\* W only.
AgreeWhereFixed(g, h, fixed, own, W) ==
    /\ \A b \in W \ fixed : Preds(b) \subseteq W
    /\ \A b \in W \cap fixed : g[b] = h[b]
    /\ \A b \in W \ fixed : g[b] = Gathered(g, own, b) /\ h[b] = Gathered(h, own, b)

\* Then they agree on all of W, as the edges go from earlier blocks to later ones.
LEMMA FlowUnique ==
    ASSUME NEW g, NEW h, NEW fixed, NEW own, NEW W \in SUBSET Blocks, AgreeWhereFixed(g, h, fixed, own, W)
    PROVE  \A b \in W : g[b] = h[b]
<1> USE DEF AgreeWhereFixed
<1> DEFINE Bad == {b \in W : g[b] # h[b]}
<1> SUFFICES ASSUME Bad # {} PROVE FALSE
  OBVIOUS
<1>1. PICK b \in Bad : \A c \in Bad : Rank[b] <= Rank[c]
  <2>1. Bad \in SUBSET Blocks
    OBVIOUS
  <2> HIDE DEF Bad
  <2> QED BY <2>1, EarliestBlock
<1>2. b \in W \ fixed
  OBVIOUS
<1>3. \A p \in Preds(b) : p \in W /\ p \notin Bad
  <2> SUFFICES ASSUME NEW p \in Preds(b), p \in Bad PROVE FALSE
    BY <1>2
  <2>1. Rank[p] < Rank[b] /\ Rank[p] \in Nat /\ Rank[b] \in Nat
    BY RankAssumption DEF Preds
  <2> QED BY <1>1, <2>1
<1>4. \A p \in Preds(b) : g[p] = h[p]
  BY <1>3
<1>5. {g[p] : p \in Preds(b)} = {h[p] : p \in Preds(b)}
  BY <1>4
<1> QED BY <1>1, <1>2, <1>5 DEF Gathered

=============================================================================
