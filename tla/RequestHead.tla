---------------------------- MODULE RequestHead ----------------------------
(***************************************************************************)
(* The request head as src/mitm/proxy.rs finds and rewrites it, and the    *)
(* rules of src/mitm/config.rs.                                            *)
(*                                                                         *)
(* A byte stream is a sequence of tokens: a request line, a header or a    *)
(* piece of either that does not parse, each followed by a line end.  Two  *)
(* line ends in a row close a head.  Header names are compared through     *)
(* Lower, host values and the patterns of the rules through HostOf and     *)
(* PatternOf, which say what trimming, lower-casing and cutting the port   *)
(* off makes of them.                                                      *)
(***************************************************************************)
EXTENDS Picks

CONSTANTS
    Lower,        \* to_ascii_lowercase, on header names
    HostOf,       \* what rewrite_head makes of the value of a Host header
    PatternOf,    \* what host_matches makes of the host of a rule
    Rules,        \* Config.rules, a sequence
    MAX_HEADERS   \* headers httparse has room for

NL == [t |-> "nl", n |-> "", v |-> ""]
Line(version) == [t |-> "line", n |-> "", v |-> version]
Header(name, value) == [t |-> "hdr", n |-> name, v |-> value]
Garbled == [t |-> "garbled", n |-> "", v |-> ""]

Token == [t : {"nl", "line", "hdr", "garbled"}, n : STRING, v : STRING]

(* A rule maps names to values; Connection is a name of the proxy's own. *)
ASSUME HeadAssumption ==
    /\ Rules \in Seq([host : STRING, headers : Seq(Token)])
    /\ \A i \in DOMAIN Rules : \A k \in DOMAIN Rules[i].headers : Rules[i].headers[k].t = "hdr"
    /\ Lower["Connection"] = "connection"
    /\ MAX_HEADERS \in Nat

(* find_headers_end: the place of the last token of the head, 0 if none. *)
HeadEnds(buf) == {p \in 2..Len(buf) : buf[p - 1] = NL /\ buf[p] = NL}
find_headers_end(buf) ==
    IF HeadEnds(buf) = {} THEN 0 ELSE CHOOSE p \in HeadEnds(buf) : \A q \in HeadEnds(buf) : p <= q

(* The places of the headers of a head, and of those with one of the names. *)
headers(head) == {i \in DOMAIN head : head[i].t = "hdr"}
Named(head, names) == {i \in headers(head) : Lower[head[i].n] \in names}

(* httparse: whether the head can be parsed *)
parses(head) ==
    /\ head # << >> /\ head[1].t = "line"
    /\ \A i \in DOMAIN head : head[i].t # "garbled"
    /\ Cardinality(headers(head)) <= MAX_HEADERS

(* The first Host header *)
host(head) ==
    LET hosts == Pick(head, Named(head, {"host"}))
    IN IF hosts = << >> THEN "" ELSE HostOf[hosts[1].v]

host_matches(pattern, h) == PatternOf[pattern] # "" /\ PatternOf[pattern] = h

(* The first rule that matches, 0 if none. *)
matching(h) ==
    LET found == {i \in DOMAIN Rules : host_matches(Rules[i].host, h)}
    IN IF found = {} THEN 0 ELSE CHOOSE i \in found : \A j \in found : i <= j

(* A head of these headers *)
Headed(hs) ==
    <<Line("1.1"), NL>>
      \o [i \in 1..(2 * Len(hs)) |-> IF i % 2 = 1 THEN hs[(i + 1) \div 2] ELSE NL]
      \o <<NL>>

Names(hs) == {Lower[hs[i].n] : i \in DOMAIN hs}

(* The headers about the connection itself *)
DROP == {"connection", "keep-alive"}

(* Mutant of Kept: names are compared as they are written. *)
Kept_exact(head, overrides) ==
    LET set == {i \in headers(head) : \E k \in DOMAIN overrides : head[i].n = overrides[k].n}
    IN Pick(head, headers(head) \ (set \cup Named(head, DROP)))

(* The headers of the request that stay: not those a rule sets, nor those    *)
(* about the connection.                                                     *)
Kept(head, overrides) == Pick(head, headers(head) \ Named(head, Names(overrides) \cup DROP))

(* Mutant of Closing: the connection may be kept alive. *)
Closing_never(overrides) == << >>

(* Connection: close, unless the rule sets the header itself. *)
Closing(overrides) ==
    IF "connection" \in Names(overrides) THEN << >> ELSE <<Header("Connection", "close")>>

(* A head that does not parse, or matches no rule, is forwarded unchanged. *)
rewrite_head(head) ==
    IF ~parses(head) \/ matching(host(head)) = 0 THEN head
    ELSE LET overrides == Rules[matching(host(head))].headers
         IN Headed(Kept(head, overrides) \o overrides \o Closing(overrides))

-----------------------------------------------------------------------------
(* A reference, by header name and not by place: the values of a name. *)

Values(head, name) ==
    LET hs == Pick(head, Named(head, {name}))
    IN [i \in DOMAIN hs |-> hs[i].v]

RewrittenAs(head, out) ==
    LET rule == IF parses(head) THEN matching(host(head)) ELSE 0
        set == IF rule = 0 THEN << >> ELSE Rules[rule].headers
    IN IF rule = 0 THEN out = head
       ELSE \A name \in {Lower[n] : n \in DOMAIN Lower} \ (DROP \ Names(set)) :
              Values(out, name) =
                IF name \in Names(set) THEN Values(set, name) ELSE Values(head, name)
=============================================================================
