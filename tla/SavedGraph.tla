----------------------------- MODULE SavedGraph -----------------------------
(***************************************************************************)
(* The node graph of a program that is saved to a file and loaded again,   *)
(* between any two calls: ndl_graph_to_mem, then ndl_graph_from_mem into a *)
(* new graph.  SavedFile.tla has the file.                                 *)
(***************************************************************************)
EXTENDS Graph

(* Every node comes back at its address with its pairs, hidden ones        *)
(* included; the sweep number and the last address given do not.           *)
Reload == Call([graph EXCEPT !.sweep = 0, !.last_id = 0]) /\ UNCHANGED client

SavedSpec == Init /\ [][Next \/ Reload]_vars

-----------------------------------------------------------------------------
(* graph.h, of a root: "all nodes reachable from this node will not be     *)
(* GC'd".                                                                  *)
ReachableKept == [][pc = "sweep" => Promised!Reachable \subseteq Live']_vars
=============================================================================
