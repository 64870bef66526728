----------------------------- MODULE MCNetConn -----------------------------
(***************************************************************************)
(* NetConn for TLC: channels of one chunk and buffers of one or two bytes, *)
(* so that every queue fills up and every partial push and read happens.   *)
(***************************************************************************)
EXTENDS NetConn
=============================================================================
