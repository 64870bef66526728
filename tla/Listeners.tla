----------------------------- MODULE Listeners -----------------------------
(***************************************************************************)
(* The event loop of src/mitm/stack.rs over all of its sockets: packets    *)
(* are drained from the TUN (src/mitm/tun.rs) before smoltcp sees them, so *)
(* that a port the child dials for the first time has listeners; listeners *)
(* that accepted are promoted to connections; closed ones are reaped and   *)
(* their handles reused; DNS queries are answered (src/mitm/dns.rs).       *)
(*                                                                         *)
(* What happens on one connection after the handshake is NetConn's matter: *)
(* here a connection is a handle that is open until it is closed.  smoltcp *)
(* and the child's kernel, which puts packets on the TUN at any time, are  *)
(* external.                                                               *)
(***************************************************************************)
EXTENDS Dns, Picks

CONSTANTS
    Clients,         \* connections the child opens, each from a port of its own
    Ports,           \* the destination ports it uses
    HTTPS_PORT,
    LISTEN_BACKLOG,
    Queries,         \* the DNS queries the child may send, each at most once
    Probes,          \* queries whose responses are compared with the reference
    DnsQueue,        \* packets the DNS socket buffers
    MaxReadErrors    \* bound: reads of the TUN that fail

ASSUME ListenersAssumption ==
    /\ Ports \subseteq Nat /\ IsFiniteSet(Ports) /\ HTTPS_PORT \in Ports \ {0}
    /\ {LISTEN_BACKLOG, DnsQueue} \subseteq Nat \ {0}
    /\ MaxReadErrors \in Nat

NoClient == "none"

VARIABLES
    client,     \* what each connection of the child has come to
    lookup,     \* what each DNS query has come to
    tun,        \* packets the kernel has queued on the TUN
    ready,      \* the AsyncFd's readiness
    inbox,      \* Tun.inbox
    sockets,    \* the SocketSet: a partial function from handles
    listeners,  \* Stack.listeners, a sequence
    conns,      \* the keys of Stack.conns
    wanted,     \* Stack.wanted_ports
    dnsrx,      \* queries in the DNS socket
    taken,      \* SYNs accepted in this pass of the loop, by port
    errors,     \* failed reads of the TUN: so many, and whether the last drain was one
    pc          \* where the loop is

stack == <<inbox, sockets, listeners, conns, wanted, dnsrx, taken, errors, pc>>
vars == <<client, lookup, tun, ready, stack>>

Packet(k, from, port) == [k |-> k, from |-> from, port |-> port]
Socket(st, port, c) == [st |-> st, port |-> port, c |-> c]

Without(f, S) == [x \in DOMAIN f \ S |-> f[x]]

-----------------------------------------------------------------------------
(* The child's kernel.  A packet on the TUN makes the fd readable. *)

Arrives(p) == tun' = Append(tun, p) /\ ready' = TRUE

Dial(c, port) ==
    /\ client[c] = "idle"
    /\ client' = [client EXCEPT ![c] = "dialing"]
    /\ Arrives(Packet("syn", c, port))
    /\ UNCHANGED <<lookup, stack>>

Ack(c) ==
    /\ client[c] = "answered"
    /\ client' = [client EXCEPT ![c] = "established"]
    /\ Arrives(Packet("ack", c, 0))
    /\ UNCHANGED <<lookup, stack>>

(* The last packet of the child: a reset, during the handshake or after it,  *)
(* or the acknowledgement that closes the socket.                            *)
Leave(c) ==
    /\ client[c] \in {"dialing", "answered", "established"}
    /\ client' = [client EXCEPT ![c] = "gone"]
    /\ Arrives(Packet("end", c, 0))
    /\ UNCHANGED <<lookup, stack>>

Ask(q) ==
    /\ lookup[q] = "unasked"
    /\ lookup' = [lookup EXCEPT ![q] = "asked"]
    /\ Arrives(Packet("dns", q, 0))
    /\ UNCHANGED <<client, stack>>

-----------------------------------------------------------------------------
(* The listeners *)

Table == [sockets |-> sockets, listeners |-> listeners]

Listening(tbl, port) == {i \in DOMAIN tbl.listeners : tbl.listeners[i].port = port}

(* Mutant of have: one count for all ports. *)
have_any(tbl, port) == Len(tbl.listeners)

have(tbl, port) == Cardinality(Listening(tbl, port))

(* The rounds of the two loops, in ascending order of port; a socket cannot  *)
(* listen on port 0.                                                         *)
Rounds(tbl, ports) ==
    {r \in (ports \ {0}) \X (1..LISTEN_BACKLOG) : r[2] > have(tbl, r[1])}

RoundNo(rounds, r) ==
    Cardinality({q \in rounds : q[1] < r[1] \/ (q[1] = r[1] /\ q[2] <= r[2])})

RoundPort(rounds, k) == (CHOOSE r \in rounds : RoundNo(rounds, r) = k)[1]

(* Each round adds a listening socket to the set, at the lowest free handle. *)
ensure_listeners(tbl, ports) ==
    LET rounds == Rounds(tbl, ports)
        used == DOMAIN tbl.sockets
        free == (1..(Cardinality(used) + Cardinality(rounds))) \ used
        new == [k \in 1..Cardinality(rounds) |->
                  [h |-> Nth(free, k), port |-> RoundPort(rounds, k)]]
        at(h) == new[CHOOSE k \in DOMAIN new : new[k].h = h]
    IN [sockets |-> [h \in used \cup {new[k].h : k \in DOMAIN new} |->
                       IF h \in used THEN tbl.sockets[h]
                       ELSE Socket("Listen", at(h).port, NoClient)],
        listeners |-> tbl.listeners \o new]

Becomes(tbl) == sockets' = tbl.sockets /\ listeners' = tbl.listeners

(* Stack::new *)
Init ==
    /\ client = [c \in Clients |-> "idle"]
    /\ lookup = [q \in Queries |-> "unasked"]
    /\ tun = << >> /\ ready = FALSE
    /\ inbox = << >>
    /\ conns = {}
    /\ wanted = {HTTPS_PORT}
    /\ LET tbl == ensure_listeners([sockets |-> [h \in {} |-> h], listeners |-> << >>], wanted)
       IN sockets = tbl.sockets /\ listeners = tbl.listeners
    /\ dnsrx = << >>
    /\ taken = [p \in Ports |-> 0]
    /\ errors = [n |-> 0, last |-> FALSE]
    /\ pc = "drain"

-----------------------------------------------------------------------------
(* The loop *)

syn_dest_port(p) == IF p.k = "syn" THEN {p.port} ELSE {}

(* Read n packets into the inbox. *)
DrainUpto(n) ==
    /\ inbox' = inbox \o SubSeq(tun, 1, n)
    /\ tun' = SubSeq(tun, n + 1, Len(tun))
    /\ wanted' = wanted \cup UNION {syn_dest_port(tun[i]) : i \in 1..n}

(* drain, which reads everything there is, or what comes before a read that  *)
(* fails; then ensure_listeners.                                             *)
Drain ==
    /\ pc = "drain"
    /\ \/ DrainUpto(Len(tun)) /\ errors' = [errors EXCEPT !.last = FALSE]
       \/ /\ errors.n < MaxReadErrors
          /\ \E n \in 0..Len(tun) : DrainUpto(n)
          /\ errors' = [n |-> errors.n + 1, last |-> TRUE]
    /\ taken' = [p \in Ports |-> 0]
    /\ Becomes(ensure_listeners(Table, wanted'))
    /\ pc' = "poll"
    /\ UNCHANGED <<client, lookup, ready, conns, dnsrx>>

(* The sockets that take a packet: the first of them gets it. *)
Takes(h, p) ==
    LET s == sockets[h]
    IN CASE p.k = "syn" -> s.st = "Listen" /\ s.port = p.port
         [] p.k \in {"ack", "end"} -> s.st \in {"SynReceived", "Open"} /\ s.c = p.from
         [] OTHER -> FALSE

(* What the first socket makes of it; its answer leaves in the same poll.  A *)
(* reset during the handshake makes the socket listen again.                 *)
After(s, p) ==
    CASE p.k = "syn" -> [s EXCEPT !.st = "SynReceived", !.c = p.from]
      [] p.k = "ack" -> [s EXCEPT !.st = "Open"]
      [] p.k = "end" -> IF s.st = "SynReceived" THEN Socket("Listen", s.port, NoClient)
                        ELSE [s EXCEPT !.st = "Closed"]

(* What the child learns when its SYN has been processed. *)
Told(c, what) == client' = IF client[c] = "dialing" THEN [client EXCEPT ![c] = what] ELSE client

(* Interface::poll, one packet.  A SYN that no socket takes is refused. *)
Poll ==
    /\ pc = "poll" /\ inbox # << >>
    /\ inbox' = Tail(inbox)
    /\ LET p == Head(inbox)
           takers == {h \in DOMAIN sockets : Takes(h, p)}
       IN \/ /\ takers # {}
             /\ sockets' = [sockets EXCEPT ![Nth(takers, 1)] = After(@, p)]
             /\ IF p.k = "syn"
                THEN Told(p.from, "answered") /\ taken' = [taken EXCEPT ![p.port] = @ + 1]
                ELSE UNCHANGED <<client, taken>>
             /\ UNCHANGED <<lookup, dnsrx>>
          \/ /\ takers = {} /\ p.k # "dns"
             /\ IF p.k = "syn" THEN Told(p.from, "refused") ELSE UNCHANGED client
             /\ UNCHANGED <<lookup, sockets, dnsrx, taken>>
          \/ /\ p.k = "dns"
             /\ IF Len(dnsrx) < DnsQueue
                THEN dnsrx' = Append(dnsrx, p.from) /\ UNCHANGED lookup
                ELSE lookup' = [lookup EXCEPT ![p.from] = "dropped"] /\ UNCHANGED dnsrx
             /\ UNCHANGED <<client, sockets, taken>>
    /\ UNCHANGED <<tun, ready, listeners, conns, wanted, errors, pc>>

State(i) == sockets[listeners[i].h].st

(* Mutant of Stays: the loop of promote_listeners steps over the listener    *)
(* that follows a removed one.                                               *)
Stays_stepping(i) == State(i) = "Listen" \/ (i > 1 /\ State(i - 1) # "Listen")

(* The listeners that promote_listeners leaves where they are. *)
Stays(i) == State(i) = "Listen"

promote_listeners ==
    LET left == {listeners[i].h : i \in {j \in DOMAIN listeners : ~Stays(j)}}
        closed == {h \in left : sockets[h].st = "Closed"}
        stay == {i \in DOMAIN listeners : Stays(i)}
    IN /\ listeners' = Pick(listeners, stay)
       /\ conns' = conns \cup (left \ closed)
       /\ sockets' = Without(sockets, closed)

(* Mutant of PollEnd: the readiness is cleared here and not before drain. *)
PollEnd_clearing ==
    /\ pc = "poll" /\ inbox = << >>
    /\ promote_listeners
    /\ pc' = "service" /\ ready' = FALSE
    /\ UNCHANGED <<client, lookup, tun, inbox, wanted, dnsrx, taken, errors>>

(* The end of the first poll, dns.service and promote_listeners. *)
PollEnd ==
    /\ pc = "poll" /\ inbox = << >>
    /\ lookup' = [q \in Queries |->
                    IF \E i \in DOMAIN dnsrx : dnsrx[i] = q
                    THEN IF build_response(q).ok THEN "answered" ELSE "ignored"
                    ELSE lookup[q]]
    /\ dnsrx' = << >>
    /\ promote_listeners
    /\ pc' = "service"
    /\ UNCHANGED <<client, tun, ready, inbox, wanted, taken, errors>>

(* Mutant of Reaped: the socket of a reaped connection stays in the set. *)
Reaped_leaking(gone) == sockets

(* The sockets that are left when those of reaped connections are removed. *)
Reaped(gone) == Without(sockets, gone)

(* service_conns, where the sockets found Closed and any the proxy aborts    *)
(* go; then ensure_listeners, and the second poll, which finds no packets.   *)
Service ==
    /\ pc = "service"
    /\ \E aborted \in SUBSET {h \in conns : sockets[h].st = "Open"} :
         LET gone == aborted \cup {h \in conns : sockets[h].st = "Closed"}
         IN /\ conns' = conns \ gone
            /\ Becomes(ensure_listeners([Table EXCEPT !.sockets = Reaped(gone)], wanted))
    /\ pc' = "sleep"
    /\ UNCHANGED <<client, lookup, tun, ready, inbox, wanted, dnsrx, taken, errors>>

(* The select: the fd is readable, or the proxy notifies, or time is up.     *)
(* Only in the first case is the readiness cleared.                          *)
Readable ==
    /\ pc = "sleep" /\ ready
    /\ ready' = FALSE
    /\ pc' = "drain"
    /\ UNCHANGED <<client, lookup, tun, inbox, sockets, listeners, conns, wanted, dnsrx, taken, errors>>

(* Mutant of Elapsed: no timeout. *)
Elapsed_never == pc = "sleep" /\ UNCHANGED vars

Elapsed ==
    /\ pc = "sleep"
    /\ pc' = "drain"
    /\ UNCHANGED <<client, lookup, tun, ready, inbox, sockets, listeners, conns, wanted, dnsrx, taken, errors>>

-----------------------------------------------------------------------------
Kernel ==
    \/ \E c \in Clients, port \in Ports : Dial(c, port)
    \/ \E c \in Clients : Ack(c) \/ Leave(c)
    \/ \E q \in Queries : Ask(q)

Loop == Drain \/ Poll \/ PollEnd \/ Service \/ Readable \/ Elapsed

Next == Kernel \/ Loop

(* The netstack thread keeps running, and its timers fire. *)
Spec == Init /\ [][Next]_vars /\ WF_vars(Loop)

-----------------------------------------------------------------------------
(* Properties *)

TypeOK ==
    /\ client \in [Clients -> {"idle", "dialing", "answered", "established", "refused", "gone"}]
    /\ lookup \in [Queries -> {"unasked", "asked", "dropped", "answered", "ignored"}]
    /\ ready \in BOOLEAN
    /\ DOMAIN sockets \subseteq 1..(LISTEN_BACKLOG * Cardinality(Ports) + Cardinality(Clients))
    /\ \A h \in DOMAIN sockets :
         sockets[h] \in [st : {"Listen", "SynReceived", "Open", "Closed"}, port : Ports,
                        c : Clients \cup {NoClient}]
    /\ wanted \subseteq Ports
    /\ pc \in {"drain", "poll", "service", "sleep"}

(* stack.rs listeners and conns: every socket of the set belongs to exactly one
   listener entry or to one connection, and every entry and connection has its
   socket, through promotion, reaping and the reuse of handles: get_mut never
   meets a removed handle and no socket is left behind. *)
OwnedOnce ==
    /\ DOMAIN sockets = {listeners[i].h : i \in DOMAIN listeners} \cup conns
    /\ \A i \in DOMAIN listeners :
         /\ listeners[i].h \notin conns
         /\ sockets[listeners[i].h].port = listeners[i].port
         /\ \A j \in DOMAIN listeners : listeners[i].h = listeners[j].h => i = j

(* promote_listeners: once a pass has promoted, every socket with a connection
   on it has a NetConn and so a proxy task, however many accepted at once. *)
AcceptedIsServed ==
    pc # "poll" =>
        \A h \in DOMAIN sockets : sockets[h].st # "Listen" => h \in conns

(* tun.rs "so we can create a listener for a new destination port before
   smoltcp processes its SYN (an unmatched SYN would otherwise be RST'd ->
   the client sees "connection refused")": a connection is refused only when
   LISTEN_BACKLOG others to its port were accepted in the same pass, whether
   or not the port was ever dialled before. *)
RefusedOnlyBeyondBacklog ==
    [][\A c \in Clients :
         client[c] # "refused" /\ client'[c] = "refused" /\ Head(inbox).port # 0
           => taken[Head(inbox).port] >= LISTEN_BACKLOG]_vars

(* run, clear_ready before drain: the loop does not go to sleep on packets it
   has not been told of, unless reading the TUN failed. *)
SleepsOnlyWhenDrained == pc = "sleep" /\ tun # << >> => ready \/ errors.last

ProbesDeserved == \A q \in Probes : Deserves(q, build_response(q))

(* dns.rs: the queries that are answered are those with a well-formed question,
   and the response is the one they deserve, for every short query. *)
DnsAnswersDeserved ==
    [][ProbesDeserved /\ \A q \in Queries :
         lookup[q] = "asked" /\ lookup'[q] \in {"answered", "ignored"} =>
            /\ Deserves(q, build_response(q))
            /\ lookup'[q] = "answered" <=> build_response(q).ok]_vars

Outstanding ==
    (\E c \in Clients : client[c] = "dialing") \/ (\E q \in Queries : lookup[q] = "asked")

(* Every SYN and every query is dealt with in the end, even when it was left on
   the TUN by a read that failed: the timeout of the select sees to it.  (The child
   dials and asks a bounded number of times.) *)
EveryPacketHandled == Outstanding ~> ~Outstanding
=============================================================================
