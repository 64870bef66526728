------------------------------ MODULE NetConn ------------------------------
(***************************************************************************)
(* One TCP connection of the child through the user-space network stack:   *)
(* the event loop of src/mitm/stack.rs, the pair of bounded channels of    *)
(* src/mitm/stream.rs and the proxy task that holds the other end.         *)
(*                                                                         *)
(* The loop and the proxy are two threads: they meet only in the channels  *)
(* and in the wake-up permit, and one step here is one operation on those. *)
(* smoltcp's socket and the child's kernel are external: the wire between  *)
(* them is reliable and in order, which is what TCP makes of the TUN.      *)
(* Byte i of either direction is the number i.                             *)
(***************************************************************************)
EXTENDS Naturals, Sequences, FiniteSets

CONSTANTS
    CHAN_CAP,   \* chunks a channel holds
    CHUNK,      \* bytes moved to the proxy at a time
    RxCap,      \* size of the socket's receive buffer
    TxCap,      \* size of the socket's send buffer
    MaxUp,      \* bound: bytes the child sends
    MaxDown     \* bound: bytes the proxy writes

ASSUME NetConnAssumption ==
    /\ {CHAN_CAP, CHUNK, RxCap, TxCap} \subseteq Nat \ {0}
    /\ {MaxUp, MaxDown} \subseteq Nat

VARIABLES
    child,    \* the child's end of the connection
    wire,     \* segments from the child that the stack has not read
    sock,     \* the smoltcp socket
    conn,     \* Stack.conns, at this socket
    up,       \* the channel to_app / from_net
    down,     \* the channel to_net / from_app
    stream,   \* the proxy's SmoltcpStream
    wake,     \* the permit of the shared Notify
    pc        \* where the loop is

vars == <<child, wire, sock, conn, up, down, stream, wake, pc>>

Least(a, b) == IF a < b THEN a ELSE b
From(s, n) == SubSeq(s, n + 1, Len(s))
Upto(s, n) == SubSeq(s, 1, n)

(* mpsc: open says that the sender, live that the receiver, still exists. *)
Channel == [q |-> << >>, open |-> TRUE, live |-> TRUE]

-----------------------------------------------------------------------------
(* The smoltcp socket *)

NewSocket == [st |-> "Listen", rx |-> << >>, tx |-> << >>,
              out |-> 0,           \* bytes of tx that are on their way
              finout |-> FALSE,    \* our FIN is on its way
              ackdue |-> FALSE,    \* not all of the child's segments are acknowledged
              expired |-> FALSE]   \* the TimeWait timer

may_send(s) == s.st \in {"Established", "CloseWait"}
can_send(s) == may_send(s) /\ Len(s.tx) < TxCap
can_recv(s) == s.rx # << >>
may_recv(s) == s.st \in {"Established", "FinWait1", "FinWait2"} \/ can_recv(s)

close(s) ==
    [s EXCEPT !.st = CASE s.st = "Listen" -> "Closed"
                       [] s.st \in {"SynReceived", "Established"} -> "FinWait1"
                       [] s.st = "CloseWait" -> "LastAck"
                       [] OTHER -> s.st]

(* abort: the reset is sent by the next poll of the socket, if there is one. *)
abort(s) == [s EXCEPT !.st = "Closed"]

Seg(t, b) == [t |-> t, b |-> b]

(* What the socket does with a segment. *)
Receive(s, g) ==
    CASE g.t = "syn" /\ s.st = "Listen" -> [s EXCEPT !.st = "SynReceived"]
      [] g.t = "ack" /\ s.st = "SynReceived" -> [s EXCEPT !.st = "Established"]
      [] g.t = "byte" /\ s.st \in {"Established", "FinWait1", "FinWait2"} ->
           [s EXCEPT !.rx = Append(s.rx, g.b), !.ackdue = TRUE]
      [] g.t = "fin" /\ s.st \in {"Established", "FinWait1", "FinWait2"} ->
           [s EXCEPT !.st = CASE s.st = "Established" -> "CloseWait"
                              [] s.st = "FinWait1" -> "Closing"
                              [] s.st = "FinWait2" -> "TimeWait",
                     !.ackdue = TRUE]
      [] g.t = "rst" /\ s.st # "Listen" ->
           [s EXCEPT !.st = IF s.st = "SynReceived" THEN "Listen" ELSE "Closed"]
      [] g.t = "taken" -> [s EXCEPT !.tx = Tail(s.tx), !.out = s.out - 1]
      [] g.t = "finack" /\ s.st \in {"FinWait1", "Closing", "LastAck"} ->
           [s EXCEPT !.st = CASE s.st = "FinWait1" -> "FinWait2"
                              [] s.st = "Closing" -> "TimeWait"
                              [] s.st = "LastAck" -> "Closed"]
      [] OTHER -> s

(* The egress half of Interface::poll, and its timers.  An acknowledgement   *)
(* may be delayed.  A closed socket sends nothing more.                      *)
Transmit(s, acks) ==
    IF s.st \in {"Closed", "Removed"} THEN s
    ELSE [s EXCEPT !.st = IF s.st = "TimeWait" /\ s.expired THEN "Closed" ELSE s.st,
                   !.out = Len(s.tx),
                   !.ackdue = s.ackdue /\ ~acks,
                   !.finout = s.finout \/ s.st \in {"FinWait1", "Closing", "LastAck"}]

-----------------------------------------------------------------------------
NoConn == [live |-> FALSE]

(* NetConn::new *)
NewConn == [live |-> TRUE, pending_out |-> << >>, app_write_closed |-> FALSE,
            sent_fin |-> FALSE, established |-> FALSE]

NewStream == [st |-> "none",       \* "none", "open", then "dropped"
              to_net |-> TRUE,     \* FALSE after poll_shutdown
              read_rem |-> << >>,
              notify |-> FALSE,    \* sent or shut down, and about to notify
              read |-> << >>,      \* all bytes the proxy has read
              eof |-> FALSE,
              written |-> 0]       \* how many bytes it has written

Init ==
    /\ child = [est |-> FALSE, sent |-> 0, ended |-> "no",
                taken |-> << >>, eof |-> FALSE, reset |-> FALSE]
    /\ wire = <<Seg("syn", 0)>>
    /\ sock = NewSocket
    /\ conn = NoConn
    /\ up = Channel /\ down = Channel
    /\ stream = NewStream
    /\ wake = FALSE
    /\ pc = "poll"

-----------------------------------------------------------------------------
(* The child's kernel *)

Arrives(g) == wire' = Append(wire, g)
Speaking == child.ended # "rst" /\ ~child.reset
Count(t) == Cardinality({i \in DOMAIN wire : wire[i].t = t})

ChildAckSyn ==
    /\ Speaking /\ ~child.est
    /\ sock.st \in {"SynReceived", "FinWait1"}
    /\ child' = [child EXCEPT !.est = TRUE]
    /\ Arrives(Seg("ack", 0))
    /\ UNCHANGED <<sock, conn, up, down, stream, wake, pc>>

ChildSend ==
    /\ Speaking /\ child.est /\ child.ended = "no"
    /\ child.sent < MaxUp
    /\ Count("byte") + Len(sock.rx) < RxCap
    /\ child' = [child EXCEPT !.sent = child.sent + 1]
    /\ Arrives(Seg("byte", child.sent + 1))
    /\ UNCHANGED <<sock, conn, up, down, stream, wake, pc>>

ChildClose ==
    /\ Speaking /\ child.est /\ child.ended = "no"
    /\ child' = [child EXCEPT !.ended = "fin"]
    /\ Arrives(Seg("fin", 0))
    /\ UNCHANGED <<sock, conn, up, down, stream, wake, pc>>

ChildReset ==
    /\ Speaking
    /\ sock.st # "Listen"
    /\ child' = [child EXCEPT !.ended = "rst"]
    /\ Arrives(Seg("rst", 0))
    /\ UNCHANGED <<sock, conn, up, down, stream, wake, pc>>

(* The child takes the next byte that has been transmitted. *)
ChildTake ==
    /\ Speaking /\ child.est
    /\ Count("taken") < sock.out
    /\ child' = [child EXCEPT !.taken = Append(child.taken, sock.tx[Count("taken") + 1])]
    /\ Arrives(Seg("taken", Len(child.taken) + 1))
    /\ UNCHANGED <<sock, conn, up, down, stream, wake, pc>>

ChildFinAck ==
    /\ Speaking /\ child.est /\ ~child.eof
    /\ sock.finout /\ Count("taken") = Len(sock.tx)
    /\ child' = [child EXCEPT !.eof = TRUE]
    /\ Arrives(Seg("finack", 0))
    /\ UNCHANGED <<sock, conn, up, down, stream, wake, pc>>

(* What is never acknowledged is sent again. *)
ChildRetransmit ==
    /\ Speaking
    /\ sock.st = "Removed" /\ sock.ackdue /\ wire = << >>
    /\ Arrives(Seg("again", 0))
    /\ UNCHANGED <<child, sock, conn, up, down, stream, wake, pc>>

TimeWaitExpires ==
    /\ sock.st = "TimeWait" /\ ~sock.expired
    /\ sock' = [sock EXCEPT !.expired = TRUE]
    /\ UNCHANGED <<child, wire, conn, up, down, stream, wake, pc>>

-----------------------------------------------------------------------------
(* Stack::run, up to service_conns.  Tun::drain and Interface::poll take the *)
(* segments one by one until there are no more; one that no socket matches   *)
(* is answered with a reset.                                                 *)

Ingress ==
    /\ pc = "poll" /\ wire # << >>
    /\ wire' = Tail(wire)
    /\ sock' = IF sock.st = "Removed" THEN sock ELSE Receive(sock, Head(wire))
    /\ child' = [child EXCEPT !.reset =
                    child.reset \/ (sock.st = "Removed" /\ Head(wire).t # "rst")]
    /\ UNCHANGED <<conn, up, down, stream, wake, pc>>

(* Mutant of push_out: what does not fit is lost. *)
push_out_lossy(s, c, buf) ==
    LET n == IF can_send(s) THEN Least(TxCap - Len(s.tx), Len(buf)) ELSE 0
    IN [sock |-> [s EXCEPT !.tx = s.tx \o Upto(buf, n)],
        conn |-> [c EXCEPT !.pending_out = << >>]]

(* push_out: what the tx buffer cannot take is stashed. *)
push_out(s, c, buf) ==
    LET n == IF can_send(s) THEN Least(TxCap - Len(s.tx), Len(buf)) ELSE 0
    IN [sock |-> [s EXCEPT !.tx = s.tx \o Upto(buf, n)],
        conn |-> [c EXCEPT !.pending_out = From(buf, n)]]

(* Mutant of FlushStash: the stash waits for the next chunk. *)
FlushStash_never(s, c) == [sock |-> s, conn |-> c]

FlushStash(s, c) == push_out(s, c, c.pending_out)

(* The end of poll; promote_listeners; and service_conns up to its first     *)
(* look at a channel: established is latched, the stash flushed.             *)
PollEnd ==
    /\ pc = "poll" /\ wire = << >>
    /\ \E acks \in BOOLEAN :
       LET s == Transmit(sock, acks)
           promote == ~conn.live /\ s.st \notin {"Listen", "Closed", "Removed"}
           c == IF promote THEN NewConn ELSE conn
           latched == [c EXCEPT !.established = c.established \/ may_send(s)]
           flushed == FlushStash(s, latched)
       IN /\ stream' = IF promote THEN [stream EXCEPT !.st = "open"] ELSE stream
          /\ \/ /\ c.live
                /\ sock' = flushed.sock /\ conn' = flushed.conn
                /\ pc' = "out"
             \/ /\ ~c.live
                /\ sock' = IF s.st = "Closed" THEN [s EXCEPT !.st = "Removed"] ELSE s
                /\ pc' = "sleep" /\ UNCHANGED conn
    /\ UNCHANGED <<child, wire, up, down, wake>>

(* service_conns, proxy -> stack: one try_recv *)
ServiceOut ==
    /\ pc = "out" /\ conn.pending_out = << >> /\ down.q # << >>
    /\ LET pushed == push_out(sock, conn, Head(down.q))
       IN sock' = pushed.sock /\ conn' = pushed.conn
    /\ down' = [down EXCEPT !.q = Tail(down.q)]
    /\ UNCHANGED <<child, wire, up, stream, wake, pc>>

(* Mutant of ServiceOutEnd: a closed channel is taken for an empty one. *)
ServiceOutEnd_open ==
    /\ pc = "out" /\ (conn.pending_out # << >> \/ down.q = << >>)
    /\ pc' = "in"
    /\ UNCHANGED <<child, wire, sock, conn, up, down, stream, wake>>

(* Nothing more to take: FIN once the proxy has closed and all is pushed. *)
ServiceOutEnd ==
    /\ pc = "out" /\ (conn.pending_out # << >> \/ down.q = << >>)
    /\ LET closed == conn.app_write_closed
                       \/ (conn.pending_out = << >> /\ ~down.open)
           fin == closed /\ conn.pending_out = << >> /\ ~conn.sent_fin
       IN /\ conn' = [conn EXCEPT !.app_write_closed = closed,
                                  !.sent_fin = conn.sent_fin \/ fin]
          /\ sock' = IF fin THEN close(sock) ELSE sock
    /\ pc' = "in"
    /\ UNCHANGED <<child, wire, up, down, stream, wake>>

(* service_conns, stack -> proxy: one try_reserve and recv.  The socket hands *)
(* out the contiguous part of its buffer, at least one byte.                  *)
ServiceIn ==
    /\ pc = "in" /\ can_recv(sock) /\ up.open /\ up.live
    /\ Len(up.q) < CHAN_CAP
    /\ \E n \in 1..Least(CHUNK, Len(sock.rx)) :
          /\ up' = [up EXCEPT !.q = Append(up.q, Upto(sock.rx, n))]
          /\ sock' = [sock EXCEPT !.rx = From(sock.rx, n)]
    /\ UNCHANGED <<child, wire, conn, down, stream, wake, pc>>

(* proxy_gone: the reader was dropped *)
ServiceInGone ==
    /\ pc = "in" /\ can_recv(sock) /\ up.open /\ ~up.live
    /\ sock' = abort(sock)
    /\ up' = [up EXCEPT !.open = FALSE]
    /\ pc' = "end"
    /\ UNCHANGED <<child, wire, conn, down, stream, wake>>

ServiceInEnd ==
    /\ pc = "in"
    /\ ~can_recv(sock) \/ ~up.open \/ (up.live /\ Len(up.q) >= CHAN_CAP)
    /\ pc' = "end"
    /\ UNCHANGED <<child, wire, sock, conn, up, down, stream, wake>>

(* Mutant of PeerEnded: the handshake is taken for the end. *)
PeerEnded_unlatched == ~may_recv(sock)

PeerEnded == conn.established /\ ~may_recv(sock)

(* EOF to the proxy, reaping, and the poll that flushes. *)
ServiceEnd ==
    /\ pc = "end"
    /\ LET reap == sock.st = "Closed"
       IN /\ up' = [up EXCEPT !.open = up.open /\ ~PeerEnded /\ ~reap]
          /\ down' = [down EXCEPT !.live = down.live /\ ~reap]
          /\ conn' = IF reap THEN NoConn ELSE conn
          /\ \E acks \in BOOLEAN :
                sock' = IF reap THEN [sock EXCEPT !.st = "Removed"] ELSE Transmit(sock, acks)
    /\ pc' = "sleep"
    /\ UNCHANGED <<child, wire, stream, wake>>

(* Mutant of Wakeup: when the timer fires, the loop goes back to sleep. *)
Wakeup_untimed ==
    /\ pc = "sleep"
    /\ \/ wire # << >> /\ pc' = "poll" /\ UNCHANGED wake
       \/ wake /\ pc' = "poll" /\ wake' = FALSE
       \/ UNCHANGED <<wake, pc>>
    /\ UNCHANGED <<child, wire, sock, conn, up, down, stream>>

(* select!: the TUN is readable, a permit is there, or the timer fires. *)
Wakeup ==
    /\ pc = "sleep"
    /\ \/ wire # << >> /\ UNCHANGED wake
       \/ wake /\ wake' = FALSE
       \/ UNCHANGED wake
    /\ pc' = "poll"
    /\ UNCHANGED <<child, wire, sock, conn, up, down, stream>>

-----------------------------------------------------------------------------
(* The proxy task.  It may drop the stream when it likes; it writes and shuts *)
(* down only after the child's half of a TLS handshake has come in.           *)

Holds == stream.st = "open" /\ ~stream.notify
Speaks == Holds /\ stream.to_net /\ stream.read # << >>

(* Mutant of Read: the rest of a chunk that the buffer cannot take is lost. *)
Read_short ==
    /\ Holds
    /\ up.q # << >>
    /\ up' = [up EXCEPT !.q = Tail(up.q)]
    /\ \E n \in 1..Len(Head(up.q)) :
          stream' = [stream EXCEPT !.read = stream.read \o Upto(Head(up.q), n)]
    /\ UNCHANGED <<child, wire, sock, conn, down, wake, pc>>

(* poll_read into a buffer of any size *)
Read ==
    /\ Holds
    /\ stream.read_rem # << >> \/ up.q # << >>
    /\ LET rem == stream.read_rem
           chunk == IF rem # << >> THEN rem ELSE Head(up.q)
       IN /\ up' = IF rem # << >> THEN up ELSE [up EXCEPT !.q = Tail(up.q)]
          /\ \E n \in 1..Len(chunk) :
                stream' = [stream EXCEPT !.read = stream.read \o Upto(chunk, n),
                                         !.read_rem = From(chunk, n)]
    /\ UNCHANGED <<child, wire, sock, conn, down, wake, pc>>

ReadEof ==
    /\ Holds /\ ~stream.eof
    /\ stream.read_rem = << >> /\ up.q = << >> /\ ~up.open
    /\ stream' = [stream EXCEPT !.eof = TRUE]
    /\ UNCHANGED <<child, wire, sock, conn, up, down, wake, pc>>

(* poll_write: send_item, then notify_one *)
Write ==
    /\ Speaks /\ down.live
    /\ Len(down.q) < CHAN_CAP
    /\ \E n \in 1..(MaxDown - stream.written) :
          LET old == stream.written
          IN /\ down' = [down EXCEPT !.q = Append(down.q, [i \in 1..n |-> old + i])]
             /\ stream' = [stream EXCEPT !.written = old + n, !.notify = TRUE]
    /\ UNCHANGED <<child, wire, sock, conn, up, wake, pc>>

(* Mutant of Shutdown: the loop is not notified. *)
Shutdown_silent ==
    /\ Speaks
    /\ down' = [down EXCEPT !.open = FALSE]
    /\ stream' = [stream EXCEPT !.to_net = FALSE]
    /\ UNCHANGED <<child, wire, sock, conn, up, wake, pc>>

(* poll_shutdown: the sender is dropped, then notify_one *)
Shutdown ==
    /\ Speaks
    /\ down' = [down EXCEPT !.open = FALSE]
    /\ stream' = [stream EXCEPT !.to_net = FALSE, !.notify = TRUE]
    /\ UNCHANGED <<child, wire, sock, conn, up, wake, pc>>

Notify ==
    /\ stream.notify
    /\ stream' = [stream EXCEPT !.notify = FALSE]
    /\ wake' = TRUE
    /\ UNCHANGED <<child, wire, sock, conn, up, down, pc>>

(* handle_conn returns: both channels lose this end, and nobody is notified. *)
Drop ==
    /\ Holds
    /\ stream' = [stream EXCEPT !.st = "dropped", !.to_net = FALSE]
    /\ up' = [up EXCEPT !.live = FALSE]
    /\ down' = [down EXCEPT !.open = FALSE]
    /\ UNCHANGED <<child, wire, sock, conn, wake, pc>>

-----------------------------------------------------------------------------
Child == \/ ChildAckSyn \/ ChildSend \/ ChildClose \/ ChildReset
         \/ ChildTake \/ ChildFinAck \/ ChildRetransmit
Stack == \/ Ingress \/ PollEnd \/ ServiceOut \/ ServiceOutEnd
         \/ ServiceIn \/ ServiceInGone \/ ServiceInEnd \/ ServiceEnd \/ Wakeup
Proxy == Read \/ ReadEof \/ Write \/ Shutdown \/ Notify \/ Drop

Next == Child \/ TimeWaitExpires \/ Stack \/ Proxy

Spec == Init /\ [][Next]_vars

(* The loop runs for ever (its sleep has a timer); the runtime polls a task    *)
(* whose channel has something; the child's kernel acknowledges; timers fire.  *)
(* Neither the child nor the proxy has to write, close or finish.              *)
FairSpec ==
    /\ Spec
    /\ WF_vars(Stack) /\ WF_vars(Read) /\ WF_vars(Notify)
    /\ WF_vars(ChildAckSyn) /\ WF_vars(ChildTake) /\ WF_vars(ChildFinAck)
    /\ WF_vars(ChildRetransmit) /\ WF_vars(TimeWaitExpires)

-----------------------------------------------------------------------------
FirstBytes(n) == [i \in 1..n |-> i]

(* The bytes that follow byte a, in order; and the same in chunks, none of them *)
(* empty, each of which follows the one before.                                 *)
Run(s, a) == \A i \in DOMAIN s : s[i] = a + i

LastOf(s) == s[Len(s)]

Chunks(q, a) ==
    \A i \in DOMAIN q : q[i] # << >> /\ Run(q[i], IF i = 1 THEN a ELSE LastOf(q[i - 1]))

(* The last byte that is read when the chunks after byte a have been. *)
EndOf(q, a) == IF q = << >> THEN a ELSE LastOf(LastOf(q))

(* The numbers of the segments of a kind that are on the wire *)
Wired(t) == {wire[i].b : i \in {j \in DOMAIN wire : wire[j].t = t}}

(* poll_read, service_conns: the bytes the proxy has read, holds, finds in the
   channel and that wait in the socket are, in this order, the first bytes the
   child sent; while both ends are open, the wire has all the others. *)
UpInOrder ==
    LET r == Len(stream.read)
        m == r + Len(stream.read_rem)
        n == EndOf(up.q, m)
    IN /\ stream.st # "dropped" =>
            /\ Run(stream.read, 0) /\ Run(stream.read_rem, r) /\ Chunks(up.q, m)
            /\ conn.live => Run(sock.rx, n)
       /\ conn.live /\ stream.st = "open" =>
            Wired("byte") = (n + Len(sock.rx) + 1)..child.sent

(* stack.rs "surface EOF to the proxy": the proxy reads the end of the stream
   only when the child has ended it and every byte has been read, unless the
   child reset the connection or the proxy has shut down its own half. *)
EofIsEnd ==
    stream.eof /\ stream.to_net /\ child.ended # "rst"
    => child.ended = "fin" /\ stream.read = FirstBytes(child.sent)

(* push_out, "we should FIN once pending_out drains": what the child took, the
   tx buffer, the stash and the channel hold all the proxy has written, in
   order, and the child sees our FIN only after all of it. *)
DownInOrder ==
    /\ conn.live =>
         LET k == Len(child.taken)
             m == k + (Len(sock.tx) - Count("taken"))
             n == m + Len(conn.pending_out)
         IN /\ Run(child.taken, 0) /\ Run(From(sock.tx, Count("taken")), k)
            /\ Run(conn.pending_out, m) /\ Chunks(down.q, n)
            /\ EndOf(down.q, n) = stream.written
    /\ child.eof => child.taken = FirstBytes(stream.written) /\ ~stream.to_net

(* stream.rs "wake is notified whenever the proxy writes / shuts down, so the
   stack loop reacts": the loop never sleeps on a chunk or a shutdown it could
   act on, unless the notification is on its way. *)
NoLostWakeup ==
    /\ pc = "sleep" /\ conn.live /\ conn.pending_out = << >> /\ stream.st = "open"
    /\ down.q # << >> \/ (~down.open /\ ~conn.app_write_closed)
    => wake \/ stream.notify

(* Backpressure never stalls: every byte the child sends is read, although the
   proxy's reads do not wake the loop, unless one of the ends gives up. *)
BytesReachProxy ==
    \A n \in 1..MaxUp :
        child.sent >= n ~> Len(stream.read) >= n \/ child.ended = "rst" \/ ~stream.to_net

(* Every byte the proxy writes reaches the child, the stash included, unless
   the child resets or the proxy drops the stream. *)
BytesReachChild ==
    \A n \in 1..MaxDown :
        stream.written >= n ~>
            Len(child.taken) >= n \/ child.ended = "rst" \/ stream.st = "dropped"

(* "reap closed connections": when the proxy has dropped the stream and the
   child is done too, the connection leaves Stack.conns. *)
ClosedIsReaped ==
    stream.st = "dropped" /\ child.ended \in {"fin", "rst"} ~> ~conn.live
=============================================================================
