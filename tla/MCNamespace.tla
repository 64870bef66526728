---------------------------- MODULE MCNamespace ----------------------------
(***************************************************************************)
(* Namespace for TLC: an overlay on "/m" beside a plain directory "/x", or *)
(* overlays on "/m" and "/n"; two names, two levels below the mounts.      *)
(***************************************************************************)
EXTENDS Namespace

MCRoot == << >>
Abs(p) == [abs |-> TRUE, path |-> p]
Rel(p) == [abs |-> FALSE, path |-> p]

(* "/x/a" is a file with a handler. *)
OneOverlay ==
    [p \in {<<"m">>, <<"x">>, <<"x", "a">>} |->
       CASE p = <<"m">>      -> Node("dir", 1, NoTarget)
         [] p = <<"x">>      -> Node("dir", 2, NoTarget)
         [] p = <<"x", "a">> -> Node("secret", 3, NoTarget)]
(* "/m/a" is a file, "/n/b" a link to it. *)
TwoOverlays ==
    [p \in {<<"m">>, <<"n">>, <<"m", "a">>, <<"n", "b">>} |->
       CASE p = <<"m">>      -> Node("dir", 1, NoTarget)
         [] p = <<"n">>      -> Node("dir", 2, NoTarget)
         [] p = <<"m", "a">> -> Node("file", 3, NoTarget)
         [] p = <<"n", "b">> -> Node("link", 4, Abs(<<"m", "a">>))]

(* Out of the overlay, back into it by way of "/", on below another link, and *)
(* out of it by way of another link                                           *)
OneTargets ==
    {Rel(<<"..", "x", "a">>), Abs(<<"m", "b">>), Rel(<<"..", "x">>),
     Rel(<<"b", "a">>), Rel(<<"b", "..", "..", "x">>)}
TwoTargets == {Abs(<<"n", "b">>)}

(* No property says anything of what comes after a request that a stale number *)
(* has misled.                                                                 *)
NotMisled == ~misled
=============================================================================
