---------------------------- MODULE MCSharedFile ----------------------------
(* One agent beside the tab for TLC: two writers already race for one version. *)
EXTENDS SharedFile

OneAgent == {"ann"}
=============================================================================
