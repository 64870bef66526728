-------------------------------- MODULE Dns --------------------------------
(***************************************************************************)
(* build_response of src/mitm/dns.rs.  A query is its header fields (id,   *)
(* the RD bit, the number of questions) and the bytes after the header;    *)
(* the record types and the class are single bytes here, so a question is  *)
(* a name followed by two bytes.                                           *)
(***************************************************************************)
EXTENDS Naturals, Sequences

CONSTANTS STACK_IP, STACK_IP6

TYPE_A == 1
TYPE_AAAA == 28
CLASS_IN == 1
MAX_LABEL == 63   \* a longer length byte has a bit of 0xc0 set: a pointer

Malformed == [ok |-> FALSE]

(* Mutant of name_end: a label is skipped without its length byte. *)
name_end_short(body) ==
    LET end[i \in 1..(Len(body) + 1)] ==
          CASE i > Len(body)        -> 0
            [] i <= Len(body) /\ body[i] = 0 -> i + 1
            [] i <= Len(body) /\ body[i] # 0 ->
                 IF body[i] > MAX_LABEL \/ i + body[i] > Len(body) THEN 0 ELSE end[i + body[i]]
    IN end[1]

(* The walk over QNAME: the place after the zero byte, or 0 when the query   *)
(* runs out first or a length byte has one of its two high bits set.         *)
name_end(body) ==
    LET end[i \in 1..(Len(body) + 1)] ==
          CASE i > Len(body)        -> 0
            [] i <= Len(body) /\ body[i] = 0 -> i + 1
            [] i <= Len(body) /\ body[i] # 0 ->
                 IF body[i] > MAX_LABEL \/ i + 1 + body[i] > Len(body) THEN 0 ELSE end[i + 1 + body[i]]
    IN end[1]

(* A and AAAA of class IN have an address; any other question has no data.   *)
rdata(qclass, qtype) ==
    CASE qclass = CLASS_IN /\ qtype = TYPE_A    -> <<STACK_IP>>
      [] qclass = CLASS_IN /\ qtype = TYPE_AAAA -> <<STACK_IP6>>
      [] OTHER                                  -> << >>

build_response(query) ==
    LET i == name_end(query.body)
    IN IF query.qdcount = 0 \/ i = 0 \/ i + 1 > Len(query.body) THEN Malformed
       ELSE [ok |-> TRUE, id |-> query.id, rd |-> query.rd,
             question |-> SubSeq(query.body, 1, i + 1),
             answer |-> rdata(query.body[i + 1], query.body[i])]

-----------------------------------------------------------------------------
(* A reference for the walk: the name is a sequence of labels, each a length *)
(* from 1 to MAX_LABEL and that many bytes, closed by a zero byte at place z.       *)
IsName(body, z) ==
    /\ body[z] = 0
    /\ \E starts \in SUBSET (1..(z - 1)) :
         /\ z > 1 => 1 \in starts
         /\ \A s \in starts :
              /\ body[s] \in 1..MAX_LABEL
              /\ s + body[s] + 1 \in starts \cup {z}
              /\ \A t \in starts : ~(s < t /\ t < s + body[s] + 1)

(* The response a query deserves, stated without the walk. *)
Deserves(query, resp) ==
    LET names == {z \in DOMAIN query.body : IsName(query.body, z)}
    IN IF query.qdcount = 0 \/ ~\E z \in names : z + 2 <= Len(query.body)
       THEN ~resp.ok
       ELSE \E z \in names :
              /\ z + 2 <= Len(query.body)
              /\ resp.ok /\ resp.id = query.id /\ resp.rd = query.rd
              /\ resp.question = SubSeq(query.body, 1, z + 2)
              /\ resp.answer = rdata(query.body[z + 2], query.body[z + 1])
=============================================================================
