---------------------------- MODULE MCExtension ----------------------------
(***************************************************************************)
(* A workspace folder with two projects, one of which keeps its schema in  *)
(* a subdirectory, and a query file that belongs to a project above the    *)
(* folder. Both projects have a file by the same relative path.            *)
(***************************************************************************)
EXTENDS GraphPanel

MCFiles == <<
    <<"w", "a", "users">>,
    <<"w", "a", "yml">>,
    <<"w", "b", "sql", "users">>,
    <<"w", "b", "yaml">>,
    <<"w", "q">>,
    <<"yaml">> >>
MCSchemaDir ==
    (<<"w", "a">> :> <<"w", "a">>) @@ (<<"w", "b">> :> <<"w", "b", "sql">>) @@ (<< >> :> <<"w">>)
MCRelativeFile ==
    (<<"w", "a">> :> <<"users">>) @@ (<<"w", "b">> :> <<"users">>) @@ (<< >> :> <<"q">>)
MCWorkspaceFolder == <<"w">>
MCTargets == {<<"w", "a", "users">>, <<"w", "b", "sql", "users">>, <<"w", "q">>}

ASSUME WholeProjects == ProjectsAreWhole
=============================================================================
