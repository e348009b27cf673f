--------------------------- MODULE MCDagScheduler ---------------------------
(* Small workflows for TLC. *)
EXTENDS DagScheduler

\* load feeds two blocks whose outputs merge.
DiamondBlocks == {"load", "left", "right", "merge"}
DiamondEdges  == {<<"load", "left">>, <<"load", "right">>, <<"left", "merge">>, <<"right", "merge">>}
DiamondRank   == [b \in DiamondBlocks |-> CASE b = "load" -> 1 [] b = "left" -> 2
                                            [] b = "right" -> 3 [] b = "merge" -> 4]

\* The user's choice feeds a block that runs and one that cannot start.
ChoiceBlocks == {"pick", "bad", "save", "plot"}
ChoiceEdges  == {<<"pick", "bad">>, <<"pick", "save">>, <<"bad", "plot">>}
ChoiceRank   == [b \in ChoiceBlocks |-> CASE b = "pick" -> 1 [] b = "bad" -> 2
                                          [] b = "save" -> 3 [] b = "plot" -> 4]

\* Two sources, one of them interactive, feed the last block.
PairBlocks == {"pick", "scan", "save"}
PairEdges  == {<<"pick", "save">>, <<"scan", "save">>}
PairRank   == [b \in PairBlocks |-> CASE b = "pick" -> 1 [] b = "scan" -> 2 [] b = "save" -> 3]
=============================================================================
