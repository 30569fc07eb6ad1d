---------------------------- MODULE MCGraphSort ----------------------------
(* GraphSort on the graphs of MCGraphs. *)
EXTENDS GraphSort, MCGraphs
=============================================================================
