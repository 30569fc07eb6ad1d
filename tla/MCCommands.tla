----------------------------- MODULE MCCommands -----------------------------
(* Schema trees and output paths for Commands. *)
EXTENDS MCBundle, Commands

\* A tree in which nothing has a name.
Nameless ==
    {[dialect |-> "postgres", files |-> <<File("ok", <<Stmt("other", NoName, << >>, {"a"}, {})>>)>>]}

MCTrees == MCInputs \cup Nameless

\* No output path, one from the config, and a flag that takes precedence.
MCDestinations ==
    {[flag |-> "", config |-> ""], [flag |-> "", config |-> "inside"],
     [flag |-> "outside", config |-> "inside"]}
=============================================================================
