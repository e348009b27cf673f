---------------------------- MODULE MCRunFromHere ----------------------------
(* Small workflows for TLC. *)
EXTENDS RunFromHere

\* The report reads what was loaded and what was fitted to it; the plot is a branch of
\* its own.
ReportBlocks == {"load", "fit", "report", "plot"}
ReportEdges  == {<<"load", "fit">>, <<"load", "report">>, <<"fit", "report">>, <<"load", "plot">>}
ReportRank   == [b \in ReportBlocks |-> CASE b = "load" -> 1 [] b = "fit" -> 2
                                           [] b = "report" -> 3 [] b = "plot" -> 4]

\* A table and a plot, each from what was loaded.
BranchBlocks == {"load", "table", "plot"}
BranchEdges  == {<<"load", "table">>, <<"load", "plot">>}
BranchRank   == [b \in BranchBlocks |-> CASE b = "load" -> 1 [] b = "table" -> 2 [] b = "plot" -> 3]
=============================================================================
