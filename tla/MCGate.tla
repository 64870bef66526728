------------------------------- MODULE MCGate -------------------------------
(***************************************************************************)
(* Two overlays, two files to ask about and one under a pre-approved       *)
(* directory.                                                              *)
(***************************************************************************)
EXTENDS Gate

MCComponents == {"home", "cwd", "node_modules", "x", "y"}
MCPaths == {<<"home", "x">>, <<"cwd", "y">>, <<"cwd", "node_modules", "x">>}
MCPreapproved == {<<"cwd", "node_modules">>}
=============================================================================
