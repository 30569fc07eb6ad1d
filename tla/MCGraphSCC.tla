----------------------------- MODULE MCGraphSCC -----------------------------
(* GraphSCC on the graphs of MCGraphs. *)
EXTENDS GraphSCC, MCGraphs
=============================================================================
