---------------------------- MODULE MCListeners ----------------------------
(***************************************************************************)
(* Listeners for TLC: two connections, to one port or to two, one of them  *)
(* never dialled before, a backlog of one so that it overflows, and a      *)
(* failing read of the TUN.                                                *)
(***************************************************************************)
EXTENDS Listeners

(* A name of two labels, asked for its IPv6 address *)
Query(id, qdcount, body) == [id |-> id, rd |-> 1, qdcount |-> qdcount, body |-> body]

(* Every body of up to seven bytes: the end of a name, a label of one byte, one  *)
(* that is too long or AAAA, and a pointer                                       *)
MCProbes == {Query(2, 1, body) : body \in UNION {[1..k -> {0, 1, 28, 200}] : k \in 0..7}}
            \cup {Query(2, 0, <<0, 1, 1>>)}

MCQueries == {Query(1, 1, <<2, 7, 7, 1, 9, 0, 28, 1>>)}
=============================================================================
