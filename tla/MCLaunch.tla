------------------------------ MODULE MCLaunch ------------------------------
(***************************************************************************)
(* Launch for TLC: a root, a home inside it, a directory inside the home   *)
(* with the name of one that npm may use without asking, and an unrelated  *)
(* directory, in every combination; programs of every sort, with and       *)
(* without the flags that override what follows from their names.          *)
(***************************************************************************)
EXTENDS Launch

MCPaths == {<< >>, <<"h">>, <<"h", "node_modules">>, <<"hp">>}
MCClis ==
    [program : {<<"npm">>, <<"bin", "npm">>, <<"claude">>, <<"make">>},
     profile : {NoName}, allow_unknown : BOOLEAN]
    \cup [program : {<<"make">>}, profile : {"agent", "npm", "other"}, allow_unknown : {FALSE}]
=============================================================================
