------------------------------- MODULE Proxy -------------------------------
(***************************************************************************)
(* The proxy's connection handler (handle_conn of src/mitm/proxy.rs) with  *)
(* the certificate cache of src/mitm/cert.rs, between a client that has    *)
(* requests to make and an upstream server.                                *)
(*                                                                         *)
(* The handler reads the first head of a connection in chunks, rewrites    *)
(* it, connects, sends the head and what was read after it, and splices    *)
(* the rest.  The client and the upstream are external: the client may     *)
(* send its next request on the connection without waiting, stops using a  *)
(* connection whose response says close, and repeats on a new connection   *)
(* what was not answered; the upstream acts on one head after the other    *)
(* and, if it is one that keeps to it, closes after the first that says    *)
(* close.  The tasks of the proxy share one thread and, besides that, only *)
(* the cache, which no task touches across an await: one connection at a   *)
(* time is enough.                                                         *)
(***************************************************************************)
EXTENDS RequestHead

CONSTANTS
    Plans,      \* what a client may set out to do, and whether the upstream obeys close
    LIMIT,      \* the limit on the size of a head (64 KiB)
    CHUNK,      \* the most that a read returns (4096)
    MaxFails    \* bound: failures of the network, the minter and the upstream

ASSUME ProxyAssumption ==
    /\ Plans \subseteq [sni : STRING, tls : BOOLEAN, requests : Seq(Seq(Token)), obeys : BOOLEAN]
    /\ {LIMIT, CHUNK} \subseteq Nat \ {0} /\ MaxFails \in Nat

VARIABLES
    plan,    \* the client's plan
    todo,    \* the requests that have not been answered
    client,  \* the client's end of the connection
    wire,    \* what it has sent and the proxy has not read
    task,    \* handle_conn
    up,      \* what the proxy has sent upstream on this connection
    server,  \* the upstream's end
    acted,   \* the heads the upstream has acted on, on all connections, and where
             \* in the stream of its connection each one began
    cache,   \* CertMinter.cache: the certificate of each name
    minted,  \* certificates minted so far
    shown,   \* the certificates shown to the client
    fails    \* failures so far

vars == <<plan, todo, client, wire, task, up, server, acted, cache, minted, shown, fails>>

From(s, n) == SubSeq(s, n + 1, Len(s))

(* No connection *)
Away == [open |-> FALSE, said |-> << >>, sent |-> 0, closing |-> FALSE, eof |-> FALSE]
NoTask == [st |-> "none", buf |-> << >>, head |-> << >>, leftover |-> << >>]
NoServer == [open |-> FALSE, read |-> 0, replies |-> << >>, eof |-> FALSE]

Init ==
    /\ plan \in Plans
    /\ todo = plan.requests
    /\ client = Away /\ wire = << >>
    /\ task = NoTask
    /\ up = << >> /\ server = NoServer
    /\ acted = << >>
    /\ cache = [n \in {} |-> 0] /\ minted = 0 /\ shown = {}
    /\ fails = 0

MayFail == fails < MaxFails /\ fails' = fails + 1

-----------------------------------------------------------------------------
(* The client *)

ClientOpens ==
    /\ task.st = "none" /\ todo # << >>
    /\ client' = [Away EXCEPT !.open = TRUE]
    /\ task' = [NoTask EXCEPT !.st = "accept"]
    /\ UNCHANGED <<plan, todo, wire, up, server, acted, cache, minted, shown, fails>>

(* The next request, before or after the answer to the last one. *)
ClientSends ==
    /\ client.open /\ ~client.closing /\ ~client.eof
    /\ task.st \notin {"accept", "ended"}
    /\ client.sent < Len(todo)
    /\ client' = [client EXCEPT !.sent = @ + 1, !.said = @ \o todo[client.sent + 1]]
    /\ wire' = wire \o todo[client.sent + 1]
    /\ UNCHANGED <<plan, todo, task, up, server, acted, cache, minted, shown, fails>>

ClientCloses ==
    /\ client.open
    /\ client.closing \/ client.eof \/ todo = << >> \/ task.st = "ended"
    /\ client' = [client EXCEPT !.open = FALSE]
    /\ UNCHANGED <<plan, todo, wire, task, up, server, acted, cache, minted, shown, fails>>

(* It does not repeat what the proxy will always refuse. *)
ClientGivesUp == todo' = << >> /\ client' = [client EXCEPT !.sent = 0]

-----------------------------------------------------------------------------
(* handle_conn *)

(* An error, or the end: the stream and the upstream connection are dropped. *)
End == task' = [NoTask EXCEPT !.st = "ended"]

(* Mutant of mint: the new certificate is not put into the cache. *)
mint_uncached(name) ==
    IF name \in DOMAIN cache THEN UNCHANGED <<cache, minted>>
    ELSE minted' = minted + 1 /\ UNCHANGED cache

(* mint: a certificate of the cache, or a new one. *)
mint(name) ==
    IF name \in DOMAIN cache THEN UNCHANGED <<cache, minted>>
    ELSE /\ minted' = minted + 1
         /\ cache' = [n \in DOMAIN cache \cup {name} |-> IF n = name THEN minted' ELSE cache[n]]

(* The TLS handshake.  Plaintext, a client without SNI and a name for which  *)
(* no certificate can be made get no further.                                *)
Accept ==
    /\ task.st = "accept"
    /\ \/ /\ plan.tls /\ plan.sni # ""
          /\ mint(plan.sni)
          /\ shown' = shown \cup {IF plan.sni \in DOMAIN cache THEN cache[plan.sni] ELSE minted'}
          /\ task' = [task EXCEPT !.st = "head"]
          /\ UNCHANGED <<todo, client, fails>>
       \/ /\ ~plan.tls \/ plan.sni = ""
          /\ End
          /\ ClientGivesUp
          /\ UNCHANGED <<cache, minted, shown, fails>>
       \/ /\ MayFail
          /\ End
          /\ UNCHANGED <<todo, client, cache, minted, shown>>
    /\ UNCHANGED <<plan, wire, up, server, acted>>

(* Mutant of AfterRead: the limit comes first. *)
AfterRead_limit(buf) ==
    IF Len(buf) > LIMIT THEN [NoTask EXCEPT !.st = "toolarge"]
    ELSE IF find_headers_end(buf) # 0
    THEN [st |-> "connect", buf |-> << >>, head |-> rewrite_head(SubSeq(buf, 1, find_headers_end(buf))),
          leftover |-> From(buf, find_headers_end(buf))]
    ELSE [NoTask EXCEPT !.st = "head", !.buf = buf]

(* The rest of the loop that reads the head, and rewrite_head. *)
AfterRead(buf) ==
    LET p == find_headers_end(buf)
    IN IF p # 0
       THEN [st |-> "connect", buf |-> << >>, head |-> rewrite_head(SubSeq(buf, 1, p)),
             leftover |-> From(buf, p)]
       ELSE IF Len(buf) > LIMIT THEN [NoTask EXCEPT !.st = "toolarge"]
       ELSE [NoTask EXCEPT !.st = "head", !.buf = buf]

ReadHead(n) ==
    /\ task.st = "head"
    /\ n <= Len(wire)
    /\ task' = AfterRead(task.buf \o SubSeq(wire, 1, n))
    /\ wire' = From(wire, n)
    /\ UNCHANGED <<plan, todo, client, up, server, acted, cache, minted, shown, fails>>

(* Errors before the upstream is connected: the client closed, the head is   *)
(* too large, the connection or its handshake fails.                         *)
GiveUp ==
    /\ \/ task.st = "head" /\ wire = << >> /\ ~client.open
          /\ UNCHANGED <<todo, client, fails>>
       \/ task.st = "toolarge" /\ ClientGivesUp /\ UNCHANGED fails
       \/ task.st = "connect" /\ MayFail /\ UNCHANGED <<todo, client>>
    /\ End
    /\ UNCHANGED <<plan, wire, up, server, acted, cache, minted, shown>>

Connect ==
    /\ task.st = "connect"
    /\ task' = [task EXCEPT !.st = "sendhead"]
    /\ server' = [NoServer EXCEPT !.open = TRUE]
    /\ UNCHANGED <<plan, todo, client, wire, up, acted, cache, minted, shown, fails>>

(* write_all of the head.  When it fails, the upstream makes nothing of a    *)
(* head that it has in part.                                                 *)
SendHead ==
    /\ task.st = "sendhead"
    /\ \/ /\ up' = task.head
          /\ task' = [task EXCEPT !.st = "sendrest"]
          /\ UNCHANGED fails
       \/ MayFail /\ End /\ UNCHANGED up
    /\ UNCHANGED <<plan, todo, client, wire, server, acted, cache, minted, shown>>

(* Mutant of SendRest: what was read after the head is dropped. *)
SendRest_dropping ==
    /\ task.st = "sendrest"
    /\ task' = [task EXCEPT !.st = "splice"]
    /\ UNCHANGED <<plan, todo, client, wire, up, server, acted, cache, minted, shown, fails>>

(* write_all of the leftover and flush, either of which may fail. *)
SendRest ==
    /\ task.st = "sendrest"
    /\ \/ /\ up' = up \o task.leftover
          /\ task' = [task EXCEPT !.st = "splice"]
          /\ UNCHANGED fails
       \/ /\ \E n \in 0..Len(task.leftover) : up' = up \o SubSeq(task.leftover, 1, n)
          /\ MayFail /\ End
    /\ UNCHANGED <<plan, todo, client, wire, server, acted, cache, minted, shown>>

(* copy_bidirectional: towards the upstream *)
SpliceUp(n) ==
    /\ task.st = "splice" /\ n <= Len(wire)
    /\ wire' = From(wire, n)
    /\ up' = up \o SubSeq(wire, 1, n)
    /\ UNCHANGED <<plan, todo, client, task, server, acted, cache, minted, shown, fails>>

SpliceUpEof ==
    /\ task.st = "splice" /\ wire = << >> /\ ~client.open /\ ~server.eof
    /\ server' = [server EXCEPT !.eof = TRUE]
    /\ UNCHANGED <<plan, todo, client, wire, task, up, acted, cache, minted, shown, fails>>

(* Towards the client, which takes the response as the answer to the oldest  *)
(* of its requests.                                                          *)
SpliceDown ==
    /\ task.st = "splice" /\ server.replies # << >>
    /\ server' = [server EXCEPT !.replies = Tail(@)]
    /\ IF client.open /\ client.sent > 0
       THEN /\ todo' = Tail(todo)
            /\ client' = [client EXCEPT !.sent = @ - 1, !.closing = @ \/ Head(server.replies)]
       ELSE UNCHANGED <<todo, client>>
    /\ UNCHANGED <<plan, wire, task, up, acted, cache, minted, shown, fails>>

(* Mutant of SpliceDownEof: the upstream's end is not passed on. *)
SpliceDownEof_kept == task.st = "splice" /\ UNCHANGED vars

SpliceDownEof ==
    /\ task.st = "splice" /\ server.replies = << >> /\ ~server.open /\ ~client.eof
    /\ client' = [client EXCEPT !.eof = TRUE]
    /\ UNCHANGED <<plan, todo, wire, task, up, server, acted, cache, minted, shown, fails>>

(* Both directions are done, or one of the ends resets the connection (as an *)
(* upstream does to a write after it has closed).                            *)
SpliceEnds ==
    /\ task.st = "splice"
    /\ \/ server.eof /\ client.eof /\ UNCHANGED fails
       \/ MayFail
    /\ End
    /\ UNCHANGED <<plan, todo, client, wire, up, server, acted, cache, minted, shown>>

(* The task is over and the client has noticed. *)
Hangup ==
    /\ task.st = "ended" /\ ~client.open
    /\ client' = Away /\ wire' = << >> /\ task' = NoTask
    /\ up' = << >> /\ server' = NoServer
    /\ UNCHANGED <<plan, todo, acted, cache, minted, shown, fails>>

-----------------------------------------------------------------------------
(* The upstream *)

SaysClose(head) == \E i \in DOMAIN Values(head, "connection") : Values(head, "connection")[i] = "close"

(* The next head it has received in full, also when the proxy's task has     *)
(* ended since.  It answers one that does not parse, too, and closes; after  *)
(* one that says close it stops reading, unless it is one that ignores it.   *)
UpstreamActs ==
    LET rest == From(up, server.read)
        p == find_headers_end(rest)
        head == SubSeq(rest, 1, p)
        closes == ~parses(head) \/ (SaysClose(head) /\ plan.obeys)
    IN /\ server.open /\ task.st \in {"sendrest", "splice", "ended"} /\ p # 0
       /\ acted' = Append(acted, [at |-> server.read, head |-> head])
       /\ server' = [server EXCEPT !.read = @ + p, !.replies = Append(@, closes), !.open = ~closes]
       /\ UNCHANGED <<plan, todo, client, wire, task, up, cache, minted, shown, fails>>

(* It has been told that nothing more comes, or its patience is at an end. *)
UpstreamCloses ==
    /\ server.open /\ task.st = "splice"
    /\ find_headers_end(From(up, server.read)) = 0
    /\ \/ server.eof /\ UNCHANGED fails
       \/ MayFail
    /\ server' = [server EXCEPT !.open = FALSE]
    /\ UNCHANGED <<plan, todo, client, wire, task, up, acted, cache, minted, shown>>

-----------------------------------------------------------------------------
Client == ClientOpens \/ ClientSends \/ ClientCloses
Handler ==
    \/ Accept
    \/ \E n \in 1..CHUNK : ReadHead(n)
    \/ GiveUp \/ Connect \/ SendHead \/ SendRest
    \/ \E n \in 1..Len(wire) : SpliceUp(n)
    \/ SpliceUpEof \/ SpliceDown \/ SpliceDownEof \/ SpliceEnds
    \/ Hangup
Upstream == UpstreamActs \/ UpstreamCloses
Done == todo = << >> /\ task.st = "none" /\ UNCHANGED vars

Next == Client \/ Handler \/ Upstream \/ Done

(* The proxy's runtime polls every task that can go on; the client and the   *)
(* upstream do in the end what they can do.                                  *)
Spec == Init /\ [][Next]_vars /\ WF_vars(Handler) /\ WF_vars(Client) /\ WF_vars(Upstream)

-----------------------------------------------------------------------------
(* Properties *)

TypeOK ==
    /\ plan \in Plans
    /\ task.st \in {"none", "accept", "head", "toolarge", "connect", "sendhead", "sendrest",
                    "splice", "ended"}
    /\ Len(task.buf) <= LIMIT
    /\ client.sent \in 0..Len(todo)
    /\ server.read \in 0..Len(up)
    /\ \A n \in DOMAIN cache : cache[n] \in 1..minted
    /\ fails \in 0..MaxFails

(* proxy.rs find_headers_end over the whole buffer, leftover after the head, then
   the splice: what the upstream receives is the rewritten first head and then
   the very bytes of the client, none lost and none repeated, however they were
   cut into reads. *)
UpstreamGetsStream ==
    up # << >> =>
        LET p == find_headers_end(client.said)
            whole == rewrite_head(SubSeq(client.said, 1, p)) \o From(client.said, p)
        IN /\ p # 0
           /\ up = SubSeq(whole, 1, Len(up))
           /\ task.st = "splice" => up \o wire = whole

(* proxy.rs rewrite_head "overridden/added while preserving every other header":
   in the head that is sent, every header name has the values the rule gives it,
   else, unless it is about the connection, those of the request. *)
HeadRewrittenByName ==
    up # << >> => RewrittenAs(SubSeq(client.said, 1, find_headers_end(client.said)),
                              SubSeq(up, 1, find_headers_end(up)))

HeadOf(request) == SubSeq(request, 1, find_headers_end(request))

(* Every request of the plan, with a body or without, is for a host with a rule
   that leaves the connection to the proxy. *)
Ruled ==
    \A i \in DOMAIN plan.requests :
        LET head == HeadOf(plan.requests[i])
            rule == matching(host(head))
        IN parses(head) /\ rule # 0 /\ "connection" \notin Names(Rules[rule].headers)

(* proxy.rs "a keep-alive connection would let requests 2..N through unrewritten.
   Asking the upstream to close instead ...": the first head the upstream acts on
   on any connection, and every head that an upstream acts on that keeps to close,
   is that of a request of the client as the rule rewrites it, although the bytes
   of the requests that the client pipelines do reach the upstream as they are.
   Nothing is claimed of the later heads of an upstream that ignores close, the
   gap that docs/mitm.md:161-163 names. *)
EveryRequestRewritten ==
    Ruled => \A i \in DOMAIN acted :
        acted[i].at = 0 \/ plan.obeys =>
            \E j \in DOMAIN plan.requests : RewrittenAs(HeadOf(plan.requests[j]), acted[i].head)

(* proxy.rs "buf.len() > 64 * 1024": a head within the limit is never refused for
   what was read after it, and no head goes through that is over the limit by
   more than the last read. *)
HeadLimit ==
    /\ task.st = "toolarge" => \A p \in HeadEnds(client.said) : p > LIMIT
    /\ task.st = "connect" => find_headers_end(client.said) <= LIMIT + CHUNK

(* cert.rs mint: on all its connections, the client is shown one certificate for
   the name. *)
OneCertificate == \A a, b \in shown : a = b

(* proxy.rs "the upstream's close ends the splice on its own": every connection
   comes to an end, and all of the client's requests are answered, when the
   failures are finitely many. *)
EveryExchangeEnds == <>[](todo = << >> /\ task.st = "none")
=============================================================================
