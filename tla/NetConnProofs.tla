--------------------------- MODULE NetConnProofs ---------------------------
(***************************************************************************)
(* Proofs about NetConn, for channels and buffers of any size and any      *)
(* number of bytes in either direction.                                    *)
(*                                                                         *)
(* The invariant is stated of values, not of the variables: an action that *)
(* does several things in a row (PollEnd transmits, promotes, latches and  *)
(* flushes) is followed through the values in between.  ch is the child's  *)
(* end, w the wire, s the socket, c the NetConn, u and d the channels and  *)
(* x the proxy's stream.                                                   *)
(***************************************************************************)
EXTENDS NetConn, PicksProofs, SequenceTheorems

Kinds == {"syn", "ack", "byte", "fin", "rst", "taken", "finack", "again"}
Segment == [t : Kinds, b : Nat]

FinStates == {"FinWait1", "FinWait2", "Closing", "LastAck", "TimeWait"}
EndStates == {"CloseWait", "Closing", "LastAck", "TimeWait"}
States == {"Listen", "SynReceived", "Established", "CloseWait", "Closed", "Removed"}
            \cup FinStates

ChildType == [est : BOOLEAN, sent : Nat, ended : {"no", "fin", "rst"},
              taken : Seq(Nat), eof : BOOLEAN, reset : BOOLEAN]
SockType == [st : States, rx : Seq(Nat), tx : Seq(Nat), out : Nat,
             finout : BOOLEAN, ackdue : BOOLEAN, expired : BOOLEAN]
ConnType == [live : {TRUE}, pending_out : Seq(Nat), app_write_closed : BOOLEAN,
             sent_fin : BOOLEAN, established : BOOLEAN]
ChannelType == [q : Seq(Seq(Nat)), open : BOOLEAN, live : BOOLEAN]
StreamType == [st : {"none", "open", "dropped"}, to_net : BOOLEAN, read_rem : Seq(Nat),
               notify : BOOLEAN, read : Seq(Nat), eof : BOOLEAN, written : Nat]

Typed(ch, w, s, c, u, d, x) ==
    /\ ch \in ChildType /\ w \in Seq(Segment) /\ s \in SockType
    /\ c \in {NoConn} \cup ConnType
    /\ u \in ChannelType /\ d \in ChannelType /\ x \in StreamType

Has(w, t) == \E i \in DOMAIN w : w[i].t = t

(* The segments of a kind on the wire are numbered a + 1 to b, in this order. *)
Queued(w, t, a, b) ==
    /\ a <= b
    /\ \A i \in DOMAIN w : w[i].t = t => a < w[i].b /\ w[i].b <= b
    /\ \A k \in Nat : a < k /\ k <= b => \E i \in DOMAIN w : w[i].t = t /\ w[i].b = k
    /\ \A i, j \in DOMAIN w : i < j /\ w[i].t = t /\ w[j].t = t => w[i].b < w[j].b

(* The handshake: nothing comes in before it is over, and the loop has a NetConn *)
(* exactly from the promotion of the socket to its removal.                      *)
Handshake(ch, w, s, c, u, d, x) ==
    /\ Has(w, "syn") => /\ Len(w) = 1 /\ s.st = "Listen" /\ ~c.live
                        /\ ~ch.est /\ ch.ended = "no"
    /\ s.st = "SynReceived" =>
         /\ ch.est => Has(w, "ack")
         /\ \A i \in DOMAIN w : w[i].t = "byte" => \E j \in 1..i : w[j].t = "ack"
    /\ s.st = "Listen" /\ (ch.est \/ c.live) => ch.ended = "rst"
    /\ c.live => /\ s.st # "Removed" /\ x.st # "none"
                 /\ c.established => s.st \notin {"Listen", "SynReceived"}
    /\ x.st # "none" /\ ~c.live => s.st = "Removed"
    /\ x.st = "none" => /\ x = NewStream /\ u = Channel /\ d = Channel
                        /\ s.tx = << >> /\ s.out = 0 /\ ch.taken = << >>

(* The child's end of the stream comes after its bytes, here and on the wire. *)
Ending(ch, w, s, x) ==
    /\ \A i, j \in DOMAIN w : i < j /\ w[i].t \in {"fin", "rst"} => w[j].t # "byte"
    /\ ch.ended = "no" => ~Has(w, "fin") /\ ~Has(w, "rst")
    /\ Has(w, "rst") => ch.ended = "rst"
    /\ s.st \in EndStates \/ (s.st = "Closed" /\ x.st # "dropped")
         => ch.ended # "no" /\ ~Has(w, "byte")
    /\ s.st = "Closed" /\ x.to_net => ch.ended = "rst"
    /\ s.st = "Listen" => ~Has(w, "byte")

(* The end of the proxy's half is seen by the socket only after all it wrote. *)
Closing(ch, s, c, u, d, x) ==
    /\ d.open <=> x.to_net
    /\ u.live <=> x.st # "dropped"
    /\ x.st = "dropped" => ~x.to_net
    /\ s.st \in FinStates \/ s.finout => ~x.to_net
    /\ ch.eof => s.finout
    /\ c.live =>
         /\ c.app_write_closed => ~x.to_net
         /\ s.st \in FinStates \/ s.finout => c.sent_fin
         /\ c.sent_fin => c.pending_out = << >> /\ d.q = << >> /\ ~x.to_net

(* The number of the last byte that the stack has handed to the proxy *)
Handed(u, x) == EndOf(u.q, Len(x.read) + Len(x.read_rem))

Upward(ch, w, s, u, x) ==
    x.st # "dropped" =>
      /\ Run(x.read, 0) /\ Run(x.read_rem, Len(x.read))
      /\ Chunks(u.q, Len(x.read) + Len(x.read_rem))
      /\ s.st # "Removed" => /\ Run(s.rx, Handed(u, x))
                             /\ Queued(w, "byte", Handed(u, x) + Len(s.rx), ch.sent)

EndSeen(ch, u, x) ==
    /\ ~u.open /\ x.to_net /\ ch.ended # "rst" => ch.ended = "fin" /\ Handed(u, x) = ch.sent
    /\ x.eof => ~u.open /\ x.read_rem = << >> /\ u.q = << >>

(* Downward, with a the last byte whose receipt the socket has seen *)
DownFrom(a, ch, w, s, c, d, x) ==
    /\ Queued(w, "taken", a, Len(ch.taken))
    /\ Run(s.tx, a) /\ Len(ch.taken) <= a + s.out /\ s.out <= Len(s.tx)
    /\ c.live => LET n == a + Len(s.tx)
                     m == n + Len(c.pending_out)
                 IN Run(c.pending_out, n) /\ Chunks(d.q, m) /\ EndOf(d.q, m) = x.written
    /\ s.finout \/ s.st \in FinStates => a + Len(s.tx) = x.written

Downward(ch, w, s, c, d, x) ==
    /\ Run(ch.taken, 0)
    /\ s.st # "Removed" \/ (ch.ended # "rst" /\ ~ch.reset)
         => \E a \in Nat : DownFrom(a, ch, w, s, c, d, x)
    /\ ch.eof => Len(ch.taken) = x.written

Good(ch, w, s, c, u, d, x) ==
    /\ Typed(ch, w, s, c, u, d, x)
    /\ Handshake(ch, w, s, c, u, d, x)
    /\ Ending(ch, w, s, x)
    /\ Closing(ch, s, c, u, d, x)
    /\ Upward(ch, w, s, u, x)
    /\ EndSeen(ch, u, x)
    /\ Downward(ch, w, s, c, d, x)

(* What the loop has not looked at since the proxy gave it, it will be told of. *)
Wakeful ==
    /\ pc \in {"in", "end", "sleep"} /\ conn.live /\ conn.pending_out = << >>
    /\ stream.st = "open"
    /\ down.q # << >> \/ (~down.open /\ ~conn.app_write_closed)
    => wake \/ stream.notify

Inv ==
    /\ Good(child, wire, sock, conn, up, down, stream)
    /\ wake \in BOOLEAN /\ pc \in {"poll", "out", "in", "end", "sleep"}
    /\ pc \in {"out", "in", "end"} => conn.live
    /\ Wakeful

-----------------------------------------------------------------------------
(* Bytes in order *)

(* A number of bytes taken from the front leaves the bytes that follow them. *)
LEMMA RunSplit ==
    ASSUME NEW s \in Seq(Nat), NEW a \in Nat, NEW n \in 0..Len(s), Run(s, a)
    PROVE  /\ Upto(s, n) \in Seq(Nat) /\ Len(Upto(s, n)) = n /\ Run(Upto(s, n), a)
           /\ From(s, n) \in Seq(Nat) /\ Len(From(s, n)) = Len(s) - n
           /\ Run(From(s, n), a + n)
<1>1. /\ Upto(s, n) \in Seq(Nat) /\ Len(Upto(s, n)) = n
      /\ \A i \in 1..n : Upto(s, n)[i] = s[i]
  BY DEF Upto
<1>2. Run(Upto(s, n), a)
  BY <1>1, SMTT(60) DEF Run
<1>3. /\ From(s, n) \in Seq(Nat) /\ Len(From(s, n)) = Len(s) - n
      /\ \A i \in 1..(Len(s) - n) : From(s, n)[i] = s[n + i]
  <2>1. /\ n + 1 \in Int /\ Len(s) \in Int /\ \A i \in (n + 1)..Len(s) : s[i] \in Nat
        /\ Len(s) - (n + 1) + 1 = Len(s) - n
    OBVIOUS
  <2>2. /\ From(s, n) \in Seq(Nat)
        /\ Len(From(s, n)) = IF n + 1 <= Len(s) THEN Len(s) - n ELSE 0
        /\ \A i \in 1..(Len(s) - n) : From(s, n)[i] = s[(n + 1) + i - 1]
    BY <2>1, SubSeqProperties DEF From
  <2>3. \A i \in 1..(Len(s) - n) : (n + 1) + i - 1 = n + i
    OBVIOUS
  <2>4. Len(From(s, n)) = Len(s) - n
    BY <2>2
  <2> QED
    BY <2>2, <2>3, <2>4
<1>4. Run(From(s, n), a + n)
  <2>1. ASSUME NEW i \in 1..(Len(s) - n) PROVE s[n + i] = (a + n) + i
    BY DEF Run
  <2>2. DOMAIN From(s, n) = 1..(Len(s) - n)
    BY <1>3
  <2> QED
    BY <1>3, <2>1, <2>2 DEF Run
<1> QED
  BY <1>1, <1>2, <1>3, <1>4

(* A run and the run that follows it are one run. *)
LEMMA RunJoin ==
    ASSUME NEW s \in Seq(Nat), NEW t \in Seq(Nat), NEW a \in Nat,
           Run(s, a), Run(t, a + Len(s))
    PROVE  s \o t \in Seq(Nat) /\ Len(s \o t) = Len(s) + Len(t) /\ Run(s \o t, a)
<1>1. s \o t \in Seq(Nat) /\ Len(s \o t) = Len(s) + Len(t)
  OBVIOUS
<1>2. ASSUME NEW i \in 1..(Len(s) + Len(t)) PROVE (s \o t)[i] = a + i
  <2>1. CASE i <= Len(s)
    <3>1. (s \o t)[i] = s[i] /\ i \in DOMAIN s
      BY <2>1
    <3> QED
      BY <3>1 DEF Run
  <2>2. CASE i > Len(s)
    <3>1. (s \o t)[i] = t[i - Len(s)] /\ i - Len(s) \in DOMAIN t
      BY <2>2
    <3>2. t[i - Len(s)] = (a + Len(s)) + (i - Len(s))
      BY <3>1 DEF Run
    <3> QED
      BY <3>1, <3>2
  <2> QED
    BY <2>1, <2>2
<1> QED
  BY <1>1, <1>2 DEF Run

LEMMA RunPop ==
    ASSUME NEW s \in Seq(Nat), NEW a \in Nat, s # << >>, Run(s, a)
    PROVE  Tail(s) \in Seq(Nat) /\ Len(Tail(s)) = Len(s) - 1 /\ Run(Tail(s), a + 1)
<1>1. Tail(s) \in Seq(Nat) /\ Len(Tail(s)) = Len(s) - 1
  OBVIOUS
<1>2. ASSUME NEW i \in 1..(Len(s) - 1) PROVE Tail(s)[i] = (a + 1) + i
  <2>1. Tail(s)[i] = s[i + 1] /\ i + 1 \in DOMAIN s
    OBVIOUS
  <2> QED
    BY <2>1 DEF Run
<1> QED
  BY <1>1, <1>2 DEF Run

LEMMA RunPush ==
    ASSUME NEW s \in Seq(Nat), NEW a \in Nat, NEW b \in Nat, Run(s, a), b = a + Len(s) + 1
    PROVE  Append(s, b) \in Seq(Nat) /\ Len(Append(s, b)) = Len(s) + 1 /\ Run(Append(s, b), a)
<1>1. Append(s, b) \in Seq(Nat) /\ Len(Append(s, b)) = Len(s) + 1
  OBVIOUS
<1>2. ASSUME NEW i \in 1..(Len(s) + 1) PROVE Append(s, b)[i] = a + i
  <2>1. CASE i <= Len(s)
    <3>1. Append(s, b)[i] = s[i] /\ i \in DOMAIN s
      BY <2>1
    <3> QED
      BY <3>1 DEF Run
  <2>2. CASE i = Len(s) + 1
    BY <2>2
  <2> QED
    BY <2>1, <2>2
<1> QED
  BY <1>1, <1>2 DEF Run

LEMMA RunEnd ==
    ASSUME NEW s \in Seq(Nat), NEW a \in Nat, s # << >>, Run(s, a)
    PROVE  LastOf(s) = a + Len(s)
BY DEF Run, LastOf

(* The chunks of a channel end at some byte. *)
LEMMA ChunksEnd ==
    ASSUME NEW q \in Seq(Seq(Nat)), NEW a \in Nat, Chunks(q, a)
    PROVE  EndOf(q, a) \in Nat /\ (q = << >> => EndOf(q, a) = a)
<1>1. CASE q = << >>
  BY <1>1 DEF EndOf
<1>2. CASE q # << >>
  <2>1. Len(q) \in DOMAIN q /\ q[Len(q)] \in Seq(Nat)
    BY <1>2
  <2>2. q[Len(q)] # << >>
    BY <2>1 DEF Chunks
  <2>3. LastOf(LastOf(q)) \in Nat
    BY <2>1, <2>2 DEF LastOf
  <2> QED
    BY <1>2, <2>3 DEF EndOf
<1> QED
  BY <1>1, <1>2

(* What Append and Tail leave *)
LEMMA Pushed ==
    ASSUME NEW S, NEW q \in Seq(S), NEW e \in S
    PROVE  /\ Append(q, e) \in Seq(S) /\ Append(q, e) # << >> /\ Len(q) \in Nat
           /\ Len(Append(q, e)) = Len(q) + 1 /\ DOMAIN Append(q, e) = 1..(Len(q) + 1)
           /\ DOMAIN q = 1..Len(q) /\ Append(q, e)[Len(q) + 1] = e
           /\ \A i \in 1..Len(q) : Append(q, e)[i] = q[i] /\ q[i] \in S
BY AppendProperties

LEMMA Popped ==
    ASSUME NEW S, NEW w \in Seq(S), w # << >>
    PROVE  /\ Head(w) = w[1] /\ Head(w) \in S /\ 1 \in DOMAIN w
           /\ Tail(w) \in Seq(S) /\ Len(Tail(w)) = Len(w) - 1
           /\ DOMAIN w = 1..Len(w) /\ DOMAIN Tail(w) = 1..(Len(w) - 1) /\ Len(w) \in Nat
           /\ \A i \in DOMAIN w : w[i] \in S /\ i \in Nat /\ 1 <= i
           /\ \A i \in DOMAIN Tail(w) :
                Tail(w)[i] = w[i + 1] /\ i + 1 \in DOMAIN w /\ 1 < i + 1
           /\ \A i, j \in DOMAIN Tail(w) : i < j => i + 1 < j + 1
           /\ \A i \in DOMAIN w : i = 1 \/ (i - 1 \in DOMAIN Tail(w) /\ Tail(w)[i - 1] = w[i])
<1>1. /\ Head(w) = w[1] /\ Head(w) \in S /\ 1 \in DOMAIN w
      /\ Tail(w) \in Seq(S) /\ Len(Tail(w)) = Len(w) - 1 /\ Len(w) \in Nat
      /\ DOMAIN w = 1..Len(w) /\ DOMAIN Tail(w) = 1..(Len(w) - 1)
      /\ \A i \in 1..Len(w) : w[i] \in S
  OBVIOUS
<1>2. \A i \in 1..(Len(w) - 1) : Tail(w)[i] = w[i + 1]
  BY <1>1, HeadTailProperties
<1>3. /\ \A i \in 1..(Len(w) - 1) : i + 1 \in 1..Len(w) /\ 1 < i + 1
      /\ \A i, j \in 1..(Len(w) - 1) : i < j => i + 1 < j + 1
      /\ \A i \in 1..Len(w) : i \in Nat /\ 1 <= i
  BY <1>1
<1>4. ASSUME NEW i \in 1..Len(w), i # 1
      PROVE  i - 1 \in 1..(Len(w) - 1) /\ Tail(w)[i - 1] = w[i]
  <2>1. i - 1 \in 1..(Len(w) - 1) /\ (i - 1) + 1 = i
    BY <1>1, <1>4
  <2> QED
    BY <1>2, <2>1
<1> QED
  BY <1>1, <1>2, <1>3, <1>4

(* A chunk that follows the last is one more chunk. *)
LEMMA ChunksPush ==
    ASSUME NEW q \in Seq(Seq(Nat)), NEW a \in Nat, Chunks(q, a),
           NEW t \in Seq(Nat), t # << >>, Run(t, EndOf(q, a))
    PROVE  /\ Append(q, t) \in Seq(Seq(Nat)) /\ Append(q, t) # << >>
           /\ Chunks(Append(q, t), a)
           /\ EndOf(Append(q, t), a) = EndOf(q, a) + Len(t)
<1> DEFINE r == Append(q, t)
<1>1. /\ r \in Seq(Seq(Nat)) /\ Len(r) = Len(q) + 1 /\ r # << >>
      /\ r[Len(q) + 1] = t /\ \A i \in 1..Len(q) : r[i] = q[i]
  BY Pushed
<1>2. EndOf(q, a) \in Nat
  BY ChunksEnd
<1>3. EndOf(r, a) = EndOf(q, a) + Len(t)
  <2>1. LastOf(t) = EndOf(q, a) + Len(t)
    BY <1>2, RunEnd
  <2>2. LastOf(r) = t
    BY <1>1 DEF LastOf
  <2> QED
    BY <1>1, <2>1, <2>2 DEF EndOf
<1>4. ASSUME NEW i \in 1..(Len(q) + 1)
      PROVE  r[i] # << >> /\ Run(r[i], IF i = 1 THEN a ELSE LastOf(r[i - 1]))
  <2>1. CASE i <= Len(q)
    <3>1. i \in DOMAIN q /\ r[i] = q[i] /\ (i # 1 => r[i - 1] = q[i - 1])
      BY <1>1, <2>1
    <3> HIDE DEF r
    <3>2. q[i] # << >> /\ Run(q[i], IF i = 1 THEN a ELSE LastOf(q[i - 1]))
      BY <3>1 DEF Chunks
    <3> QED
      BY <3>1, <3>2
  <2>2. CASE i = Len(q) + 1
    <3>1. CASE i = 1
      <4>1. q = << >> /\ EndOf(q, a) = a
        BY <2>2, <3>1, ChunksEnd
      <4> QED
        BY <1>1, <2>2, <3>1, <4>1
    <3>2. CASE i # 1
      <4>1. q # << >> /\ r[i - 1] = LastOf(q)
        BY <1>1, <2>2, <3>2 DEF LastOf
      <4>2. EndOf(q, a) = LastOf(r[i - 1])
        BY <4>1 DEF EndOf
      <4> QED
        BY <1>1, <2>2, <3>2, <4>2
    <3> QED
      BY <3>1, <3>2
  <2> QED
    BY <2>1, <2>2
<1>5. Chunks(r, a)
  <2>1. DOMAIN r = 1..(Len(q) + 1)
    BY <1>1
  <2> HIDE DEF r
  <2> QED
    BY <1>4, <2>1 DEF Chunks
<1> QED
  BY <1>1, <1>3, <1>5

(* The first chunk can be taken off. *)
LEMMA ChunksPop ==
    ASSUME NEW q \in Seq(Seq(Nat)), NEW a \in Nat, Chunks(q, a), q # << >>
    PROVE  /\ Head(q) \in Seq(Nat) /\ Head(q) # << >> /\ Run(Head(q), a)
           /\ Tail(q) \in Seq(Seq(Nat)) /\ Chunks(Tail(q), a + Len(Head(q)))
           /\ EndOf(Tail(q), a + Len(Head(q))) = EndOf(q, a)
<1> DEFINE h == Head(q)
           r == Tail(q)
<1>1. /\ h \in Seq(Nat) /\ r \in Seq(Seq(Nat)) /\ h = q[1] /\ 1 \in DOMAIN q
      /\ Len(r) = Len(q) - 1 /\ Len(q) \in Nat /\ DOMAIN r = 1..Len(r)
      /\ \A i \in DOMAIN r : r[i] = q[i + 1] /\ i + 1 \in DOMAIN q
  BY Popped
<1>2. h # << >> /\ Run(h, a)
  BY <1>1 DEF Chunks
<1>3. LastOf(h) = a + Len(h)
  BY <1>1, <1>2, RunEnd
<1>4. ASSUME NEW i \in 1..Len(r)
      PROVE  r[i] # << >> /\ Run(r[i], IF i = 1 THEN a + Len(h) ELSE LastOf(r[i - 1]))
  <2>1. i + 1 \in DOMAIN q /\ r[i] = q[i + 1] /\ i + 1 # 1 /\ (i + 1) - 1 = i
    BY <1>1
  <2>2. q[i + 1] # << >> /\ Run(q[i + 1], LastOf(q[i]))
    BY <2>1 DEF Chunks
  <2>3. CASE i = 1
    BY <1>1, <1>3, <2>1, <2>2, <2>3
  <2>4. CASE i # 1
    <3>1. r[i - 1] = q[i]
      BY <1>1, <2>4
    <3> QED
      BY <2>1, <2>2, <2>4, <3>1
  <2> QED
    BY <2>3, <2>4
<1>5. Chunks(r, a + Len(h))
  <2>1. DOMAIN r = 1..Len(r)
    BY <1>1
  <2> HIDE DEF r, h
  <2> QED
    BY <1>4, <2>1 DEF Chunks
<1>6. EndOf(r, a + Len(h)) = EndOf(q, a)
  <2>1. CASE r = << >>
    <3>1. LastOf(q) = h
      <4> HIDE DEF r, h
      <4>1. Len(q) = 1
        BY <1>1, <2>1
      <4> QED
        BY <1>1, <4>1 DEF LastOf
    <3> QED
      BY <1>3, <2>1, <3>1 DEF EndOf
  <2>2. CASE r # << >>
    <3>1. LastOf(r) = LastOf(q)
      <4>1. Len(r) \in 1..Len(r) /\ Len(r) + 1 = Len(q)
        BY <1>1, <2>2
      <4> HIDE DEF r
      <4> QED
        BY <1>1, <4>1 DEF LastOf
    <3> QED
      BY <2>2, <3>1 DEF EndOf
  <2> QED
    BY <2>1, <2>2
<1> QED
  BY <1>1, <1>2, <1>5, <1>6

-----------------------------------------------------------------------------
(* Segments in order *)

LEMMA QueuedOther ==
    ASSUME NEW w \in Seq(Segment), NEW t, NEW a \in Nat, NEW b \in Nat, Queued(w, t, a, b),
           NEW g \in Segment, g.t # t
    PROVE  Queued(Append(w, g), t, a, b)
<1> DEFINE v == Append(w, g)
<1>1. /\ Len(v) = Len(w) + 1 /\ DOMAIN v = 1..(Len(w) + 1) /\ DOMAIN w = 1..Len(w)
      /\ v[Len(w) + 1] = g /\ Len(w) \in Nat /\ \A i \in 1..Len(w) : v[i] = w[i]
  BY Pushed
<1> HIDE DEF v
<1>2. \A i \in DOMAIN v : v[i].t = t => i \in DOMAIN w /\ v[i] = w[i]
  BY <1>1
<1>3. \A i \in DOMAIN w : i \in DOMAIN v /\ v[i] = w[i]
  BY <1>1
<1>4. Queued(v, t, a, b)
  BY <1>2, <1>3 DEF Queued
<1> QED
  BY <1>4 DEF v

LEMMA QueuedPush ==
    ASSUME NEW w \in Seq(Segment), NEW t, NEW a \in Nat, NEW b \in Nat, Queued(w, t, a, b),
           NEW g \in Segment, g.t = t, g.b = b + 1
    PROVE  Queued(Append(w, g), t, a, b + 1)
<1> DEFINE v == Append(w, g)
<1>1. /\ Len(v) = Len(w) + 1 /\ DOMAIN v = 1..(Len(w) + 1) /\ DOMAIN w = 1..Len(w)
      /\ v[Len(w) + 1] = g /\ Len(w) \in Nat /\ \A i \in 1..Len(w) : v[i] = w[i] /\ w[i].b \in Nat
  <2>1. /\ Len(v) = Len(w) + 1 /\ DOMAIN v = 1..(Len(w) + 1) /\ DOMAIN w = 1..Len(w)
        /\ v[Len(w) + 1] = g /\ Len(w) \in Nat
        /\ \A i \in 1..Len(w) : v[i] = w[i] /\ w[i] \in Segment
    BY Pushed
  <2> HIDE DEF v
  <2> QED
    BY <2>1 DEF Segment
<1> HIDE DEF v
<1>2. \A i \in DOMAIN v : i = Len(w) + 1 \/ (i \in DOMAIN w /\ v[i] = w[i])
  BY <1>1
<1>3. \A i \in DOMAIN v : v[i].t = t => a < v[i].b /\ v[i].b <= b + 1
  <2>1. \A i \in DOMAIN w : w[i].t = t => a < w[i].b /\ w[i].b <= b /\ w[i].b \in Nat
    BY <1>1 DEF Queued
  <2>2. a <= b
    BY DEF Queued
  <2> QED
    BY <1>1, <1>2, <2>1, <2>2
<1>4. ASSUME NEW k \in Nat, a < k, k <= b + 1
      PROVE  \E i \in DOMAIN v : v[i].t = t /\ v[i].b = k
  <2>1. CASE k <= b
    <3>1. \E i \in DOMAIN w : w[i].t = t /\ w[i].b = k
      BY <1>4, <2>1 DEF Queued
    <3> QED
      BY <1>1, <3>1
  <2>2. CASE k = b + 1
    BY <1>1, <2>2
  <2> QED
    BY <1>4, <2>1, <2>2
<1>5. ASSUME NEW i \in DOMAIN v, NEW j \in DOMAIN v, i < j, v[i].t = t, v[j].t = t
      PROVE  v[i].b < v[j].b
  <2>1. i \in DOMAIN w /\ v[i] = w[i]
    BY <1>1, <1>2, <1>5
  <2>2. CASE j \in DOMAIN w
    BY <1>1, <1>5, <2>1, <2>2 DEF Queued
  <2>3. CASE j = Len(w) + 1
    <3>1. w[i].b <= b /\ w[i].b \in Nat
      BY <1>1, <1>5, <2>1 DEF Queued
    <3> QED
      BY <1>1, <2>1, <2>3, <3>1
  <2> QED
    BY <1>2, <2>2, <2>3
<1>6. a <= b + 1
  BY DEF Queued
<1>7. Queued(v, t, a, b + 1)
  BY <1>3, <1>4, <1>5, <1>6 DEF Queued
<1> QED
  BY <1>7 DEF v

LEMMA QueuedSkip ==
    ASSUME NEW w \in Seq(Segment), NEW t, NEW a \in Nat, NEW b \in Nat, Queued(w, t, a, b),
           w # << >>, Head(w).t # t
    PROVE  Queued(Tail(w), t, a, b)
<1> DEFINE v == Tail(w)
<1>1. /\ w[1].t # t /\ 1 \in DOMAIN w
      /\ \A i \in DOMAIN v : v[i] = w[i + 1] /\ i + 1 \in DOMAIN w
      /\ \A i \in DOMAIN w : i = 1 \/ (i - 1 \in DOMAIN v /\ v[i - 1] = w[i])
      /\ \A i, j \in DOMAIN v : i < j => i + 1 < j + 1
  BY Popped
<1> HIDE DEF v
<1>2. \A i \in DOMAIN v : v[i].t = t => a < v[i].b /\ v[i].b <= b
  BY <1>1 DEF Queued
<1>3. ASSUME NEW k \in Nat, a < k, k <= b PROVE \E i \in DOMAIN v : v[i].t = t /\ v[i].b = k
  <2>1. PICK i \in DOMAIN w : w[i].t = t /\ w[i].b = k
    BY <1>3 DEF Queued
  <2> QED
    BY <1>1, <2>1
<1>4. \A i, j \in DOMAIN v : i < j /\ v[i].t = t /\ v[j].t = t => v[i].b < v[j].b
  BY <1>1 DEF Queued
<1>5. a <= b
  BY DEF Queued
<1>6. Queued(v, t, a, b)
  BY <1>2, <1>3, <1>4, <1>5 DEF Queued
<1> QED
  BY <1>6 DEF v

LEMMA QueuedPop ==
    ASSUME NEW w \in Seq(Segment), NEW t, NEW a \in Nat, NEW b \in Nat, Queued(w, t, a, b),
           w # << >>, Head(w).t = t
    PROVE  Head(w).b = a + 1 /\ a + 1 <= b /\ Queued(Tail(w), t, a + 1, b)
<1> DEFINE v == Tail(w)
<1>1. /\ w[1].t = t /\ 1 \in DOMAIN w /\ \A i \in DOMAIN w : w[i].b \in Nat /\ i \in Nat /\ 1 <= i
      /\ \A i \in DOMAIN v : v[i] = w[i + 1] /\ i + 1 \in DOMAIN w /\ 1 < i + 1
      /\ \A i \in DOMAIN w : i = 1 \/ (i - 1 \in DOMAIN v /\ v[i - 1] = w[i])
      /\ \A i, j \in DOMAIN v : i < j => i + 1 < j + 1
  <2>1. /\ w[1].t = t /\ 1 \in DOMAIN w
        /\ \A i \in DOMAIN w : w[i] \in Segment /\ i \in Nat /\ 1 <= i
        /\ \A i \in DOMAIN v : v[i] = w[i + 1] /\ i + 1 \in DOMAIN w /\ 1 < i + 1
        /\ \A i \in DOMAIN w : i = 1 \/ (i - 1 \in DOMAIN v /\ v[i - 1] = w[i])
        /\ \A i, j \in DOMAIN v : i < j => i + 1 < j + 1
    BY Popped
  <2> HIDE DEF v
  <2> QED
    BY <2>1 DEF Segment
<1> HIDE DEF v
<1>2. a < w[1].b /\ w[1].b <= b
  BY <1>1 DEF Queued
<1>3. w[1].b = a + 1
  <2>1. a < a + 1 /\ a + 1 <= b /\ a + 1 \in Nat
    BY <1>1, <1>2
  <2>2. PICK i \in DOMAIN w : w[i].t = t /\ w[i].b = a + 1
    BY <2>1 DEF Queued
  <2>3. i # 1 => w[1].b < w[i].b
    BY <1>1, <2>2 DEF Queued
  <2> QED
    BY <1>1, <1>2, <2>2, <2>3
<1>4. \A i \in DOMAIN v : v[i].t = t => a + 1 < v[i].b /\ v[i].b <= b
  BY <1>1, <1>3 DEF Queued
<1>5. ASSUME NEW k \in Nat, a + 1 < k, k <= b
      PROVE  \E i \in DOMAIN v : v[i].t = t /\ v[i].b = k
  <2>1. PICK i \in DOMAIN w : w[i].t = t /\ w[i].b = k
    BY <1>5 DEF Queued
  <2>2. i # 1
    BY <1>3, <1>5, <2>1
  <2> QED
    BY <1>1, <2>1, <2>2
<1>6. \A i, j \in DOMAIN v : i < j /\ v[i].t = t /\ v[j].t = t => v[i].b < v[j].b
  BY <1>1 DEF Queued
<1>7. a + 1 <= b
  BY <1>1, <1>2
<1>8. Queued(v, t, a + 1, b)
  BY <1>4, <1>5, <1>6, <1>7 DEF Queued
<1> QED
  BY <1>1, <1>3, <1>7, <1>8, Popped DEF v

(* The bytes of the segments of one kind *)
BytesOf(w, t) == {w[i].b : i \in {j \in DOMAIN w : w[j].t = t}}

(* Segments queued from a to b carry the bytes after a up to b. *)
LEMMA QueuedBytes ==
    ASSUME NEW w \in Seq(Segment), NEW t, NEW a \in Nat, NEW b \in Nat, Queued(w, t, a, b)
    PROVE  BytesOf(w, t) = (a + 1)..b
<1>1. ASSUME NEW x \in BytesOf(w, t) PROVE x \in (a + 1)..b
  <2>1. PICK i \in DOMAIN w : w[i].t = t /\ x = w[i].b
    BY <1>1 DEF BytesOf
  <2>2. w[i] \in Segment
    BY <2>1
  <2>3. x \in Nat
    BY <2>1, <2>2 DEF Segment
  <2>4. a < x /\ x <= b
    BY <2>1 DEF Queued
  <2> QED
    BY <2>3, <2>4
<1>2. ASSUME NEW k \in (a + 1)..b PROVE k \in BytesOf(w, t)
  <2>1. k \in Nat /\ a < k /\ k <= b
    OBVIOUS
  <2>2. PICK i \in DOMAIN w : w[i].t = t /\ w[i].b = k
    BY <2>1 DEF Queued
  <2> QED
    BY <2>2 DEF BytesOf
<1> QED
  BY <1>1, <1>2

(* The segments of the kind are as many as their numbers. *)
LEMMA QueuedCount ==
    ASSUME NEW w \in Seq(Segment), NEW t, NEW a \in Nat, NEW b \in Nat, Queued(w, t, a, b)
    PROVE  LET I == {i \in DOMAIN w : w[i].t = t}
           IN /\ Cardinality(I) = b - a
              /\ (I = {} => a = b)
<1> DEFINE I == {i \in DOMAIN w : w[i].t = t}
           f == [i \in I |-> w[i].b]
           T == {f[i] : i \in I}
<1>1. \A i \in DOMAIN w : i \in Nat /\ w[i].b \in Nat
  <2>1. \A i \in DOMAIN w : i \in Nat /\ w[i] \in Segment
    OBVIOUS
  <2> QED
    BY <2>1 DEF Segment
<1>2. a <= b
  BY DEF Queued
<1>3. T = (a + 1)..b
  <2>1. T = BytesOf(w, t)
    BY DEF BytesOf
  <2> HIDE DEF T
  <2>2. BytesOf(w, t) = (a + 1)..b
    BY QueuedBytes
  <2> QED
    BY <2>1, <2>2
<1>4. IsFiniteSet(I)
  <2>1. I \in SUBSET (1..Len(w)) /\ Len(w) \in Nat
    OBVIOUS
  <2> QED
    BY <2>1, UptoFinite
<1>5. \A i, j \in I : f[i] = f[j] => i = j
  <2>1. ASSUME NEW i \in I, NEW j \in I, f[i] = f[j], i # j PROVE FALSE
    <3>1. i < j \/ j < i
      BY <1>1, <2>1
    <3>2. w[i].b = w[j].b /\ w[i].t = t /\ w[j].t = t /\ w[i].b \in Nat
      BY <1>1, <2>1
    <3>3. w[i].b < w[j].b \/ w[j].b < w[i].b
      BY <3>1, <3>2 DEF Queued
    <3> QED
      BY <3>2, <3>3
  <2> QED
    BY <2>1
<1>6. T = {w[i].b : i \in I}
  OBVIOUS
<1>7. DOMAIN f = I
  OBVIOUS
<1> HIDE DEF I, f
<1>8. IsFiniteSet(T) /\ Cardinality(T) = Cardinality(I)
  BY <1>4, <1>5, <1>7, ImageCount
<1> HIDE DEF T
<1>9. Cardinality((a + 1)..b) = b - a
  <2>1. a + 1 \in Int /\ b \in Int /\ (a + 1 <= b => b - (a + 1) + 1 = b - a) /\ (~(a + 1 <= b) => b - a = 0)
    BY <1>2
  <2>2. Cardinality((a + 1)..b) = IF a + 1 > b THEN 0 ELSE b - (a + 1) + 1
    BY <2>1, FS_Interval
  <2> QED
    BY <1>2, <2>1, <2>2
<1>10. I = {} => a = b
  <2>1. I = {} => (a + 1)..b = {}
    BY <1>3, <1>6
  <2> QED
    BY <1>2, <2>1
<1> QED
  BY <1>3, <1>6, <1>8, <1>9, <1>10 DEF I

(* What the proxy has been handed is a number of bytes. *)
LEMMA HandedNat ==
    ASSUME NEW ch, NEW w, NEW s, NEW u \in ChannelType, NEW x \in StreamType,
           Upward(ch, w, s, u, x), x.st # "dropped"
    PROVE  /\ Handed(u, x) \in Nat /\ Len(x.read) \in Nat /\ Len(x.read_rem) \in Nat
           /\ Len(x.read) + Len(x.read_rem) \in Nat
<1>1. u.q \in Seq(Seq(Nat)) /\ x.read \in Seq(Nat) /\ x.read_rem \in Seq(Nat)
  BY DEF ChannelType, StreamType
<1>2. /\ Len(x.read) + Len(x.read_rem) \in Nat
      /\ Len(x.read) \in Nat /\ Len(x.read_rem) \in Nat
  <2>1. Len(x.read) \in Nat /\ Len(x.read_rem) \in Nat
    BY <1>1
  <2>2. \A m, n \in Nat : m + n \in Nat
    OBVIOUS
  <2> QED
    BY <2>1, <2>2, Zenon
<1>3. Chunks(u.q, Len(x.read) + Len(x.read_rem))
  BY DEF Upward
<1> QED
  BY <1>1, <1>2, <1>3, ChunksEnd DEF Handed

-----------------------------------------------------------------------------
(* The child *)

(* The kinds of segment on the wire after one more, and after one less *)
LEMMA HasPush ==
    ASSUME NEW w \in Seq(Segment), NEW g \in Segment, NEW t
    PROVE  Has(Append(w, g), t) <=> Has(w, t) \/ g.t = t
<1> DEFINE v == Append(w, g)
<1>1. /\ Len(w) \in Nat /\ DOMAIN v = 1..(Len(w) + 1) /\ DOMAIN w = 1..Len(w)
      /\ v[Len(w) + 1] = g /\ \A i \in 1..Len(w) : v[i] = w[i]
  BY Pushed
<1> HIDE DEF v
<1>2. Has(v, t) <=> Has(w, t) \/ g.t = t
  BY <1>1 DEF Has
<1> QED
  BY <1>2 DEF v

(* Whatever the child's kernel sends in order keeps the invariant. *)
LEMMA Arrival ==
    ASSUME NEW ch, NEW w, NEW s, NEW c, NEW u, NEW d, NEW x, Good(ch, w, s, c, u, d, x),
           NEW ch2 \in ChildType, NEW g \in Segment,
           g.t # "syn", ch.est \/ s.st # "Listen", ch.ended # "rst",
           ch2.est => ch.est \/ (g.t = "ack" /\ s.st # "Listen"),
           g.t = "byte" => ch.est /\ ch.ended = "no" /\ ch2.sent = ch.sent + 1 /\ g.b = ch.sent + 1,
           g.t # "byte" => ch2.sent = ch.sent,
           ch2.ended = "no" => ch.ended = "no" /\ g.t \notin {"fin", "rst"},
           g.t = "rst" => ch2.ended = "rst",
           ch2.eof => s.finout /\ Len(ch2.taken) = x.written,
           ch2.reset = ch.reset, ~ch.reset,
           g.t # "taken" => ch2.taken = ch.taken,
           g.t = "taken" =>
             /\ g.b = Len(ch.taken) + 1
             /\ \A a \in Nat : DownFrom(a, ch, w, s, c, d, x) =>
                  /\ Len(ch.taken) < a + s.out
                  /\ ch2.taken = Append(ch.taken, Len(ch.taken) + 1)
    PROVE  Good(ch2, Append(w, g), s, c, u, d, x)
<1> DEFINE v == Append(w, g)
<1>1. /\ ch \in ChildType /\ w \in Seq(Segment) /\ s \in SockType
      /\ c \in {NoConn} \cup ConnType
      /\ u \in ChannelType /\ d \in ChannelType /\ x \in StreamType
  BY DEF Good, Typed
<1>2. \A t : Has(v, t) <=> Has(w, t) \/ g.t = t
  BY <1>1, HasPush
<1>3. /\ v \in Seq(Segment) /\ Len(w) \in Nat /\ Len(v) = Len(w) + 1
      /\ DOMAIN v = 1..(Len(w) + 1) /\ DOMAIN w = 1..Len(w)
      /\ v[Len(w) + 1] = g /\ \A i \in 1..Len(w) : v[i] = w[i]
  BY <1>1, Pushed
<1>4. PICK a \in Nat : DownFrom(a, ch, w, s, c, d, x)
  BY DEF Good, Downward
<1>5. /\ ch.taken \in Seq(Nat) /\ ch.sent \in Nat /\ s.out \in Nat
      /\ ch.ended \in {"no", "fin", "rst"} /\ ch2.ended \in {"no", "fin", "rst"}
      /\ s.rx \in Seq(Nat)
  BY <1>1 DEF ChildType, SockType
<1> HIDE DEF v
<1>6. Typed(ch2, v, s, c, u, d, x)
  BY <1>1, <1>3 DEF Typed
<1>7. Handshake(ch2, v, s, c, u, d, x)
  <2>1. ~Has(w, "syn")
    BY DEF Good, Handshake
  <2>2. ~Has(v, "syn")
    BY <1>2, <2>1
  <2>3. ASSUME s.st = "SynReceived" PROVE ch2.est => Has(v, "ack")
    BY <1>2, <2>3 DEF Good, Handshake
  <2>4. ASSUME s.st = "SynReceived", NEW i \in DOMAIN v, v[i].t = "byte"
        PROVE  \E j \in 1..i : v[j].t = "ack"
    <3>1. CASE i \in DOMAIN w
      <4>1. PICK j \in 1..i : w[j].t = "ack"
        BY <1>3, <2>4, <3>1 DEF Good, Handshake
      <4>2. v[j] = w[j]
        BY <1>3, <3>1
      <4> QED
        BY <4>1, <4>2
    <3>2. CASE i = Len(w) + 1
      <4>1. Has(w, "ack")
        BY <1>3, <2>4, <3>2 DEF Good, Handshake
      <4>2. PICK j \in DOMAIN w : w[j].t = "ack"
        BY <4>1 DEF Has
      <4>3. j \in 1..i /\ v[j] = w[j]
        BY <1>3, <3>2
      <4> QED
        BY <4>2, <4>3
    <3> QED
      BY <1>3, <3>1, <3>2
  <2>5. s.st = "Listen" /\ (ch2.est \/ c.live) => ch2.ended = "rst"
    BY DEF Good, Handshake
  <2>6. x.st = "none" => ch2.taken = << >>
    <3>1. ASSUME x.st = "none" PROVE g.t # "taken"
      <4>1. ch.taken = << >> /\ s.out = 0
        BY <3>1 DEF Good, Handshake
      <4>2. a = 0
        BY <1>4, <4>1 DEF DownFrom, Queued
      <4> QED
        BY <1>4, <4>1, <4>2
    <3> QED
      BY <3>1 DEF Good, Handshake
  <2> QED
    BY <2>2, <2>3, <2>4, <2>5, <2>6 DEF Good, Handshake
<1>8. Ending(ch2, v, s, x)
  <2>1. ASSUME NEW i \in DOMAIN v, NEW j \in DOMAIN v, i < j, v[i].t \in {"fin", "rst"}
        PROVE  v[j].t # "byte"
    <3>1. i \in DOMAIN w /\ v[i] = w[i]
      BY <1>3, <2>1
    <3>2. CASE j \in DOMAIN w
      BY <1>3, <2>1, <3>1, <3>2 DEF Good, Ending
    <3>3. CASE j = Len(w) + 1
      <4>1. Has(w, "fin") \/ Has(w, "rst")
        BY <2>1, <3>1 DEF Has
      <4>2. ch.ended # "no"
        BY <4>1 DEF Good, Ending
      <4> QED
        BY <1>3, <3>3, <4>2
    <3> QED
      BY <1>3, <3>2, <3>3
  <2>2. ch2.ended = "no" => ~Has(v, "fin") /\ ~Has(v, "rst")
    BY <1>2 DEF Good, Ending
  <2>3. Has(v, "rst") => ch2.ended = "rst"
    BY <1>2 DEF Good, Ending
  <2>4. s.st \in EndStates \/ (s.st = "Closed" /\ x.st # "dropped")
          => ch2.ended # "no" /\ ~Has(v, "byte")
    BY <1>2 DEF Good, Ending
  <2>5. s.st = "Closed" /\ x.to_net => ch2.ended = "rst"
    BY DEF Good, Ending
  <2>6. s.st = "Listen" => ~Has(v, "byte")
    BY <1>2 DEF Good, Ending, Handshake
  <2> QED
    BY <2>1, <2>2, <2>3, <2>4, <2>5, <2>6 DEF Ending
<1>9. Closing(ch2, s, c, u, d, x)
  BY DEF Good, Closing
<1>10. Upward(ch2, v, s, u, x)
  <2>1. ASSUME x.st # "dropped", s.st # "Removed"
        PROVE  Queued(v, "byte", Handed(u, x) + Len(s.rx), ch2.sent)
    <3>1. Queued(w, "byte", Handed(u, x) + Len(s.rx), ch.sent)
      BY <2>1 DEF Good, Upward
    <3>2. Handed(u, x) + Len(s.rx) \in Nat
      <4>1. Handed(u, x) \in Nat
        BY <1>1, <2>1, HandedNat DEF Good
      <4>2. Len(s.rx) \in Nat
        BY <1>5
      <4> QED
        BY <4>1, <4>2
    <3>3. CASE g.t = "byte"
      BY <1>1, <1>5, <3>1, <3>2, <3>3, QueuedPush DEF v
    <3>4. CASE g.t # "byte"
      BY <1>1, <1>5, <3>1, <3>2, <3>4, QueuedOther DEF v
    <3> QED
      BY <3>3, <3>4
  <2> QED
    BY <2>1 DEF Good, Upward
<1>11. EndSeen(ch2, u, x)
  BY <1>5 DEF Good, EndSeen
<1>12. Downward(ch2, v, s, c, d, x)
  <2>1. CASE g.t = "taken"
    <3>1. /\ Len(ch.taken) < a + s.out
          /\ ch2.taken = Append(ch.taken, Len(ch.taken) + 1)
      BY <1>4, <2>1
    <3>2. Run(ch2.taken, 0) /\ Len(ch2.taken) = Len(ch.taken) + 1
      <4>1. Run(ch.taken, 0) /\ Len(ch.taken) + 1 \in Nat /\ Len(ch.taken) + 1 = 0 + Len(ch.taken) + 1
        BY <1>5 DEF Good, Downward
      <4> QED
        BY <1>5, <3>1, <4>1, RunPush
    <3>3. Queued(v, "taken", a, Len(ch2.taken))
      BY <1>1, <1>4, <1>5, <2>1, <3>2, QueuedPush DEF v, DownFrom
    <3>4. Len(ch2.taken) <= a + s.out
      BY <1>5, <3>1, <3>2
    <3>5. DownFrom(a, ch2, v, s, c, d, x)
      BY <1>4, <3>3, <3>4 DEF DownFrom
    <3> QED
      BY <3>2, <3>5 DEF Downward
  <2>2. CASE g.t # "taken"
    <3>1. Queued(v, "taken", a, Len(ch2.taken))
      BY <1>1, <1>4, <1>5, <2>2, QueuedOther DEF v, DownFrom
    <3>2. DownFrom(a, ch2, v, s, c, d, x)
      BY <1>4, <2>2, <3>1 DEF DownFrom
    <3> QED
      BY <2>2, <3>2 DEF Good, Downward
  <2> QED
    BY <2>1, <2>2
<1>13. Good(ch2, v, s, c, u, d, x)
  BY <1>6, <1>7, <1>8, <1>9, <1>10, <1>11, <1>12 DEF Good
<1> QED
  BY <1>13 DEF v

(* What Count counts *)
LEMMA CountTaken ==
    ASSUME NEW a \in Nat, NEW ch \in ChildType, NEW s, NEW c, NEW d, NEW x,
           wire \in Seq(Segment), DownFrom(a, ch, wire, s, c, d, x)
    PROVE  /\ Count("taken") = Len(ch.taken) - a /\ a <= Len(ch.taken) /\ Len(ch.taken) \in Nat
<1>1. Len(ch.taken) \in Nat
  BY DEF ChildType
<1>2. Queued(wire, "taken", a, Len(ch.taken))
  BY DEF DownFrom
<1>3. a <= Len(ch.taken)
  BY <1>2 DEF Queued
<1>4. Cardinality({i \in DOMAIN wire : wire[i].t = "taken"}) = Len(ch.taken) - a
  BY <1>1, <1>2, QueuedCount
<1> QED
  BY <1>1, <1>3, <1>4 DEF Count

AllGood == Good(child, wire, sock, conn, up, down, stream)

LEMMA AllTyped ==
    ASSUME AllGood
    PROVE  /\ child \in ChildType /\ wire \in Seq(Segment) /\ sock \in SockType
           /\ conn \in {NoConn} \cup ConnType
           /\ up \in ChannelType /\ down \in ChannelType /\ stream \in StreamType
BY DEF AllGood, Good, Typed

LEMMA SegType ==
    ASSUME NEW t \in Kinds, NEW b \in Nat
    PROVE  Seg(t, b) \in Segment /\ Seg(t, b).t = t /\ Seg(t, b).b = b
BY DEF Seg, Segment

LEMMA ChildKeeps ==
    ASSUME AllGood, Child
    PROVE  AllGood'
<1> USE DEF Kinds
<1>1. /\ child \in ChildType /\ wire \in Seq(Segment) /\ sock \in SockType
      /\ stream \in StreamType
  BY AllTyped
<1>2. /\ child.ended # "rst" /\ ~child.reset /\ (child.est \/ sock.st # "Listen")
      /\ UNCHANGED <<sock, conn, up, down, stream>>
  BY DEF Child, ChildAckSyn, ChildSend, ChildClose, ChildReset, ChildTake, ChildFinAck,
         ChildRetransmit, Speaking
<1>3. PICK a \in Nat : DownFrom(a, child, wire, sock, conn, down, stream)
  BY <1>2 DEF AllGood, Good, Downward
<1>4. /\ Count("taken") = Len(child.taken) - a /\ a <= Len(child.taken)
      /\ Len(child.taken) \in Nat
  BY <1>1, <1>3, CountTaken
<1>5. /\ child.taken \in Seq(Nat) /\ child.sent \in Nat /\ sock.out \in Nat
      /\ sock.tx \in Seq(Nat) /\ stream.written \in Nat
  BY <1>1 DEF ChildType, SockType, StreamType
<1>6. child.eof => sock.finout /\ Len(child.taken) = stream.written
  BY DEF AllGood, Good, Closing, Downward
<1>7. ASSUME NEW g \in Segment, wire' = Append(wire, g),
             Good(child', Append(wire, g), sock, conn, up, down, stream)
      PROVE  AllGood'
  BY <1>2, <1>7 DEF AllGood
<1>8. CASE ChildAckSyn
  <2>1. /\ child' \in ChildType /\ wire' = Append(wire, Seg("ack", 0))
        /\ child'.ended = child.ended /\ child'.sent = child.sent /\ child'.eof = child.eof
        /\ child'.taken = child.taken /\ child'.reset = child.reset /\ sock.st # "Listen"
    BY <1>1, <1>8 DEF ChildAckSyn, ChildType, Arrives
  <2>2. Seg("ack", 0) \in Segment /\ Seg("ack", 0).t = "ack"
    BY SegType
  <2>3. Good(child', Append(wire, Seg("ack", 0)), sock, conn, up, down, stream)
    BY <1>2, <1>6, <2>1, <2>2, Arrival DEF AllGood
  <2> QED
    BY <1>7, <2>1, <2>2, <2>3
<1>9. CASE ChildSend
  <2> DEFINE g == Seg("byte", child.sent + 1)
  <2>1. /\ child' \in ChildType /\ wire' = Append(wire, g)
        /\ child'.ended = child.ended /\ child'.sent = child.sent + 1 /\ child'.eof = child.eof
        /\ child'.taken = child.taken /\ child'.reset = child.reset
        /\ child.est /\ child'.est = child.est /\ child.ended = "no"
    <3>1. /\ wire' = Append(wire, g) /\ child' = [child EXCEPT !.sent = child.sent + 1]
          /\ child.est /\ child.ended = "no" /\ child.sent + 1 \in Nat
      BY <1>5, <1>9 DEF ChildSend, Arrives
    <3> HIDE DEF g
    <3> QED
      BY <1>1, <3>1 DEF ChildType
  <2>2. g \in Segment /\ g.t = "byte" /\ g.b = child.sent + 1
    BY <1>5, SegType
  <2> HIDE DEF g
  <2>3. Good(child', Append(wire, g), sock, conn, up, down, stream)
    BY <1>2, <1>6, <2>1, <2>2, Arrival DEF AllGood
  <2> QED
    BY <1>7, <2>1, <2>2, <2>3
<1>10. CASE ChildClose
  <2> DEFINE g == Seg("fin", 0)
  <2>1. /\ child' \in ChildType /\ wire' = Append(wire, g)
        /\ child'.ended = "fin" /\ child'.sent = child.sent /\ child'.eof = child.eof
        /\ child'.taken = child.taken /\ child'.reset = child.reset
        /\ child'.est = child.est
    BY <1>1, <1>10 DEF ChildClose, ChildType, Arrives
  <2>2. g \in Segment /\ g.t = "fin"
    BY SegType
  <2> HIDE DEF g
  <2>3. Good(child', Append(wire, g), sock, conn, up, down, stream)
    BY <1>2, <1>6, <2>1, <2>2, Arrival DEF AllGood
  <2> QED
    BY <1>7, <2>1, <2>2, <2>3
<1>11. CASE ChildReset
  <2> DEFINE g == Seg("rst", 0)
  <2>1. /\ child' \in ChildType /\ wire' = Append(wire, g)
        /\ child'.ended = "rst" /\ child'.sent = child.sent /\ child'.eof = child.eof
        /\ child'.taken = child.taken /\ child'.reset = child.reset
        /\ child'.est = child.est
    BY <1>1, <1>11 DEF ChildReset, ChildType, Arrives
  <2>2. g \in Segment /\ g.t = "rst"
    BY SegType
  <2> HIDE DEF g
  <2>3. Good(child', Append(wire, g), sock, conn, up, down, stream)
    BY <1>2, <1>6, <2>1, <2>2, Arrival DEF AllGood
  <2> QED
    BY <1>7, <2>1, <2>2, <2>3
<1>12. CASE ChildTake
  <2> DEFINE g == Seg("taken", Len(child.taken) + 1)
             b == sock.tx[Count("taken") + 1]
  <2>1. /\ wire' = Append(wire, g) /\ Count("taken") < sock.out
        /\ child' = [child EXCEPT !.taken = Append(child.taken, b)]
    BY <1>12 DEF ChildTake, Arrives
  <2>2. \A e \in Nat : DownFrom(e, child, wire, sock, conn, down, stream)
          => Len(child.taken) < e + sock.out
    <3>1. ASSUME NEW e \in Nat, DownFrom(e, child, wire, sock, conn, down, stream)
          PROVE  Len(child.taken) < e + sock.out
      <4>1. Count("taken") = Len(child.taken) - e
        BY <1>1, <3>1, CountTaken
      <4> QED
        BY <1>4, <1>5, <2>1, <4>1
    <3> QED
      BY <3>1
  <2>3. b = Len(child.taken) + 1
    <3>1. Run(sock.tx, a) /\ sock.out <= Len(sock.tx) /\ Len(sock.tx) \in Nat
      BY <1>3, <1>5 DEF DownFrom
    <3>2. Count("taken") + 1 \in 1..Len(sock.tx) /\ a + (Count("taken") + 1) = Len(child.taken) + 1
      BY <1>4, <1>5, <2>1, <3>1
    <3>3. Count("taken") + 1 \in DOMAIN sock.tx
      BY <1>5, <3>2
    <3> QED
      BY <3>1, <3>2, <3>3 DEF Run
  <2>4. ~child.eof
    <3>1. ASSUME child.eof PROVE FALSE
      <4>1. sock.finout /\ Len(child.taken) = stream.written
        BY <1>6, <3>1
      <4>2. a + Len(sock.tx) = stream.written /\ sock.out <= Len(sock.tx) /\ Len(sock.tx) \in Nat
        BY <1>3, <1>5, <4>1 DEF DownFrom
      <4>3. Len(child.taken) < a + sock.out
        BY <1>3, <2>2
      <4> QED
        BY <1>4, <1>5, <4>1, <4>2, <4>3
    <3> QED
      BY <3>1
  <2> HIDE DEF b
  <2>5. Append(child.taken, Len(child.taken) + 1) \in Seq(Nat)
    BY <1>4, <1>5
  <2>6. /\ child' \in ChildType /\ child'.est = child.est
        /\ child'.ended = child.ended /\ child'.sent = child.sent /\ child'.eof = child.eof
        /\ child'.taken = Append(child.taken, Len(child.taken) + 1) /\ child'.reset = child.reset
    BY <1>1, <2>1, <2>3, <2>5 DEF ChildType
  <2>7. g \in Segment /\ g.t = "taken" /\ g.b = Len(child.taken) + 1
    BY <1>4, SegType
  <2> HIDE DEF g
  <2>8. Good(child', Append(wire, g), sock, conn, up, down, stream)
    BY <1>2, <2>2, <2>4, <2>6, <2>7, Arrival DEF AllGood
  <2> QED
    BY <1>7, <2>1, <2>7, <2>8
<1>13. CASE ChildFinAck
  <2> DEFINE g == Seg("finack", 0)
  <2>1. /\ child' \in ChildType /\ wire' = Append(wire, g)
        /\ child'.ended = child.ended /\ child'.sent = child.sent
        /\ child'.taken = child.taken /\ child'.reset = child.reset
        /\ child'.est = child.est /\ sock.finout /\ Count("taken") = Len(sock.tx)
    BY <1>1, <1>13 DEF ChildFinAck, ChildType, Arrives
  <2>2. g \in Segment /\ g.t = "finack"
    BY SegType
  <2>3. Len(child.taken) = stream.written
    <3>1. a + Len(sock.tx) = stream.written /\ Len(sock.tx) \in Nat
      BY <1>3, <1>5, <2>1 DEF DownFrom
    <3> QED
      BY <1>4, <2>1, <3>1
  <2> HIDE DEF g
  <2>4. Good(child', Append(wire, g), sock, conn, up, down, stream)
    BY <1>2, <2>1, <2>2, <2>3, Arrival DEF AllGood
  <2> QED
    BY <1>7, <2>1, <2>2, <2>4
<1>14. CASE ChildRetransmit
  <2> DEFINE g == Seg("again", 0)
  <2>1. child' = child /\ wire' = Append(wire, g)
    BY <1>14 DEF ChildRetransmit, Arrives
  <2>2. g \in Segment /\ g.t = "again"
    BY SegType
  <2> HIDE DEF g
  <2>3. Good(child', Append(wire, g), sock, conn, up, down, stream)
    BY <1>1, <1>2, <1>6, <2>1, <2>2, Arrival DEF AllGood
  <2> QED
    BY <1>7, <2>1, <2>2, <2>3
<1> QED
  BY <1>8, <1>9, <1>10, <1>11, <1>12, <1>13, <1>14 DEF Child

-----------------------------------------------------------------------------
(* Interface::poll *)

LEMMA HasPop ==
    ASSUME NEW w \in Seq(Segment), w # << >>, NEW t
    PROVE  Has(w, t) <=> Head(w).t = t \/ Has(Tail(w), t)
<1> DEFINE v == Tail(w)
<1>1. /\ Head(w) = w[1] /\ 1 \in DOMAIN w
      /\ \A i \in DOMAIN v : v[i] = w[i + 1] /\ i + 1 \in DOMAIN w
      /\ \A i \in DOMAIN w : i = 1 \/ (i - 1 \in DOMAIN v /\ v[i - 1] = w[i])
  BY Popped
<1> HIDE DEF v
<1>2. Has(w, t) <=> Head(w).t = t \/ Has(v, t)
  BY <1>1 DEF Has
<1> QED
  BY <1>2 DEF v

(* How a segment changes the state of a socket, and its buffers *)
LEMMA Transitions ==
    ASSUME NEW s \in SockType, NEW h \in Segment, s.st # "Removed"
    PROVE  LET r == Receive(s, h)
           IN /\ r.st \in States \ {"Removed"} /\ r.finout = s.finout
              /\ r.ackdue \in BOOLEAN /\ r.expired = s.expired
              /\ r = [st |-> r.st, rx |-> r.rx, tx |-> r.tx, out |-> r.out,
                      finout |-> r.finout, ackdue |-> r.ackdue, expired |-> r.expired]
              /\ r.st = "SynReceived" =>
                   \/ h.t = "syn" /\ s.st = "Listen"
                   \/ s.st = "SynReceived" /\ h.t \notin {"ack", "rst"}
              /\ r.st = "Listen" => s.st = "Listen" \/ (s.st = "SynReceived" /\ h.t = "rst")
              /\ r.st \in FinStates => s.st \in FinStates
              /\ r.st \in EndStates => s.st \in EndStates \/ h.t = "fin"
              /\ r.st = "Closed" => s.st = "Closed" \/ h.t = "rst" \/ s.st = "LastAck"
              /\ h.t # "taken" => r.tx = s.tx /\ r.out = s.out
              /\ h.t = "taken" => r.tx = Tail(s.tx) /\ r.out = s.out - 1
              /\ h.t # "byte" => r.rx = s.rx
              /\ h.t = "byte" /\ s.st \in {"Established", "FinWait1", "FinWait2"}
                   => r.rx = Append(s.rx, h.b)
              /\ h.t = "byte" => r.rx \in {s.rx, Append(s.rx, h.b)}
<1> DEFINE r == Receive(s, h)
<1> USE DEF States, FinStates, EndStates
<1>0. /\ s = [st |-> s.st, rx |-> s.rx, tx |-> s.tx, out |-> s.out,
              finout |-> s.finout, ackdue |-> s.ackdue, expired |-> s.expired]
      /\ s.st \in States /\ s.ackdue \in BOOLEAN /\ s.finout \in BOOLEAN /\ s.expired \in BOOLEAN
  BY DEF SockType
<1>1. CASE h.t = "syn"
  BY <1>0, <1>1 DEF Receive
<1>2. CASE h.t = "ack"
  BY <1>0, <1>2 DEF Receive
<1>3. CASE h.t = "byte"
  BY <1>0, <1>3 DEF Receive
<1>4. CASE h.t = "fin"
  BY <1>0, <1>4 DEF Receive
<1>5. CASE h.t = "rst"
  BY <1>0, <1>5 DEF Receive
<1>6. CASE h.t = "taken"
  BY <1>0, <1>6 DEF Receive
<1>7. CASE h.t = "finack"
  BY <1>0, <1>7 DEF Receive
<1>8. CASE h.t = "again"
  BY <1>0, <1>8 DEF Receive
<1> QED
  BY <1>1, <1>2, <1>3, <1>4, <1>5, <1>6, <1>7, <1>8 DEF Segment, Kinds

(* The order of the child's bytes and its end, after the first segment *)
LEMMA EndingPop ==
    ASSUME NEW ch, NEW w \in Seq(Segment), NEW s, NEW x, w # << >>, Ending(ch, w, s, x)
    PROVE  /\ \A i, j \in DOMAIN Tail(w) :
                i < j /\ Tail(w)[i].t \in {"fin", "rst"} => Tail(w)[j].t # "byte"
           /\ Head(w).t \in {"fin", "rst"} => ~Has(Tail(w), "byte")
           /\ ch.ended = "no" => /\ ~Has(Tail(w), "fin") /\ ~Has(Tail(w), "rst")
                                 /\ Head(w).t \notin {"fin", "rst"}
           /\ Has(Tail(w), "rst") \/ Head(w).t = "rst" => ch.ended = "rst"
           /\ ~Has(w, "byte") => ~Has(Tail(w), "byte")
<1> DEFINE v == Tail(w)
<1>1. /\ Head(w) = w[1] /\ 1 \in DOMAIN w
      /\ \A i \in DOMAIN v : v[i] = w[i + 1] /\ i + 1 \in DOMAIN w /\ 1 < i + 1
      /\ \A i, j \in DOMAIN v : i < j => i + 1 < j + 1
  BY Popped
<1>2. \A t : Has(w, t) <=> Head(w).t = t \/ Has(v, t)
  BY HasPop
<1> HIDE DEF v
<1>3. \A i, j \in DOMAIN w : i < j /\ w[i].t \in {"fin", "rst"} => w[j].t # "byte"
  BY DEF Ending
<1>4. \A i, j \in DOMAIN v : i < j /\ v[i].t \in {"fin", "rst"} => v[j].t # "byte"
  BY <1>1, <1>3
<1>5. Head(w).t \in {"fin", "rst"} => ~Has(v, "byte")
  BY <1>1, <1>3 DEF Has
<1>6. /\ ch.ended = "no" => /\ ~Has(v, "fin") /\ ~Has(v, "rst")
                            /\ Head(w).t \notin {"fin", "rst"}
      /\ Has(v, "rst") \/ Head(w).t = "rst" => ch.ended = "rst"
  BY <1>2 DEF Ending
<1>7. ~Has(w, "byte") => ~Has(v, "byte")
  BY <1>2
<1> QED
  BY <1>4, <1>5, <1>6, <1>7 DEF v

(* One segment that a socket matches *)
LEMMA Ingested ==
    ASSUME NEW ch, NEW w, NEW s, NEW c, NEW u, NEW d, NEW x, Good(ch, w, s, c, u, d, x),
           w # << >>, s.st # "Removed"
    PROVE  Good(ch, Tail(w), Receive(s, Head(w)), c, u, d, x)
<1> DEFINE v == Tail(w)
           h == Head(w)
           r == Receive(s, h)
<1>1. /\ ch \in ChildType /\ w \in Seq(Segment) /\ s \in SockType
      /\ c \in {NoConn} \cup ConnType
      /\ u \in ChannelType /\ d \in ChannelType /\ x \in StreamType
  BY DEF Good, Typed
<1>2. \A t : Has(w, t) <=> h.t = t \/ Has(v, t)
  BY <1>1, HasPop
<1>3. /\ h = w[1] /\ 1 \in DOMAIN w /\ h \in Segment /\ v \in Seq(Segment)
      /\ Len(w) \in Nat /\ DOMAIN v = 1..(Len(w) - 1)
      /\ \A i \in DOMAIN v : v[i] = w[i + 1] /\ i + 1 \in DOMAIN w /\ 1 < i + 1
      /\ \A i \in DOMAIN w : i = 1 \/ (i - 1 \in DOMAIN v /\ v[i - 1] = w[i])
  BY <1>1, Popped
<1>4. PICK a \in Nat : DownFrom(a, ch, w, s, c, d, x)
  BY DEF Good, Downward
<1>5. /\ ch.taken \in Seq(Nat) /\ ch.sent \in Nat /\ s.out \in Nat /\ Len(ch.taken) \in Nat
      /\ ch.ended \in {"no", "fin", "rst"} /\ s.st \in States
      /\ s.rx \in Seq(Nat) /\ s.tx \in Seq(Nat) /\ Len(s.rx) \in Nat /\ Len(s.tx) \in Nat
      /\ h.b \in Nat /\ s.finout \in BOOLEAN /\ s.expired \in BOOLEAN
  BY <1>1, <1>3 DEF ChildType, SockType, Segment
<1>6. /\ \A i, j \in DOMAIN v : i < j /\ v[i].t \in {"fin", "rst"} => v[j].t # "byte"
      /\ h.t \in {"fin", "rst"} => ~Has(v, "byte")
      /\ ch.ended = "no" => ~Has(v, "fin") /\ ~Has(v, "rst") /\ h.t \notin {"fin", "rst"}
      /\ Has(v, "rst") \/ h.t = "rst" => ch.ended = "rst"
      /\ ~Has(w, "byte") => ~Has(v, "byte")
  BY <1>1, EndingPop DEF Good
<1>7. /\ r.st \in States \ {"Removed"} /\ r.finout = s.finout
      /\ r.ackdue \in BOOLEAN /\ r.expired = s.expired
      /\ r = [st |-> r.st, rx |-> r.rx, tx |-> r.tx, out |-> r.out,
              finout |-> r.finout, ackdue |-> r.ackdue, expired |-> r.expired]
      /\ r.st = "SynReceived" =>
           \/ h.t = "syn" /\ s.st = "Listen"
           \/ s.st = "SynReceived" /\ h.t \notin {"ack", "rst"}
      /\ r.st = "Listen" => s.st = "Listen" \/ (s.st = "SynReceived" /\ h.t = "rst")
      /\ r.st \in FinStates => s.st \in FinStates
      /\ r.st \in EndStates => s.st \in EndStates \/ h.t = "fin"
      /\ r.st = "Closed" => s.st = "Closed" \/ h.t = "rst" \/ s.st = "LastAck"
      /\ h.t # "taken" => r.tx = s.tx /\ r.out = s.out
      /\ h.t = "taken" => r.tx = Tail(s.tx) /\ r.out = s.out - 1
      /\ h.t # "byte" => r.rx = s.rx
      /\ h.t = "byte" /\ s.st \in {"Established", "FinWait1", "FinWait2"}
           => r.rx = Append(s.rx, h.b)
      /\ h.t = "byte" => r.rx \in {s.rx, Append(s.rx, h.b)}
  BY <1>1, <1>3, Transitions
<1>8. h.t = "taken" =>
        /\ Queued(v, "taken", a + 1, Len(ch.taken)) /\ a + 1 <= Len(ch.taken)
        /\ s.tx # << >> /\ 1 <= s.out
  <2>1. ASSUME h.t = "taken"
        PROVE  Queued(v, "taken", a + 1, Len(ch.taken)) /\ a + 1 <= Len(ch.taken)
    <3>1. Queued(w, "taken", a, Len(ch.taken))
      BY <1>4 DEF DownFrom
    <3> QED
      BY <1>1, <1>5, <2>1, <3>1, QueuedPop
  <2>2. Len(ch.taken) <= a + s.out /\ s.out <= Len(s.tx)
    BY <1>4 DEF DownFrom
  <2>3. ASSUME h.t = "taken" PROVE 1 <= s.out /\ 1 <= Len(s.tx)
    BY <1>5, <2>1, <2>2, <2>3, SMTT(60)
  <2> QED
    BY <1>5, <2>1, <2>3
<1> HIDE DEF v, h, r
<1>9. Typed(ch, v, r, c, u, d, x)
  <2>1. r.rx \in Seq(Nat)
    <3>1. s.rx \in Seq(Nat) /\ Append(s.rx, h.b) \in Seq(Nat)
      BY <1>5, Pushed
    <3> QED
      BY <1>7, <3>1
  <2>2. r.tx \in Seq(Nat) /\ r.out \in Nat
    <3>1. CASE h.t # "taken"
      BY <1>5, <1>7, <3>1
    <3>2. CASE h.t = "taken"
      <4>1. Tail(s.tx) \in Seq(Nat) /\ s.out - 1 \in Nat
        BY <1>5, <1>8, <3>2
      <4> QED
        BY <1>7, <3>2, <4>1
    <3> QED
      BY <3>1, <3>2
  <2>3. r \in SockType
    BY <1>5, <1>7, <2>1, <2>2 DEF SockType
  <2> QED
    BY <1>1, <1>3, <2>3 DEF Typed
<1>10. Handshake(ch, v, r, c, u, d, x)
  <2>1. ASSUME Has(w, "syn")
        PROVE  v = << >> /\ ~ch.est /\ ~Has(v, "syn")
    <3>1. Len(w) = 1 /\ ~ch.est
      BY <2>1 DEF Good, Handshake
    <3> QED
      BY <1>3, <3>1 DEF Has
  <2>2. ~Has(v, "syn")
    BY <1>2, <2>1
  <2>3. ASSUME r.st = "SynReceived", ch.est PROVE Has(v, "ack")
    BY <1>2, <1>7, <2>1, <2>3 DEF Good, Handshake
  <2>4. ASSUME r.st = "SynReceived", NEW i \in DOMAIN v, v[i].t = "byte"
        PROVE  \E j \in 1..i : v[j].t = "ack"
    <3>1. h.t # "syn"
      BY <1>2, <1>3, <2>1, <2>4
    <3>2. s.st = "SynReceived" /\ h.t # "ack"
      BY <1>7, <2>4, <3>1
    <3>3. w[i + 1].t = "byte" /\ i + 1 \in DOMAIN w /\ i \in Nat
      BY <1>3, <2>4
    <3>4. PICK j \in 1..(i + 1) : w[j].t = "ack"
      BY <3>2, <3>3 DEF Good, Handshake
    <3>5. j # 1
      BY <1>3, <3>2, <3>4
    <3>6. j - 1 \in 1..i /\ (j - 1) + 1 = j /\ j - 1 \in 1..(Len(w) - 1)
      BY <1>3, <3>3, <3>5
    <3>7. v[j - 1] = w[j]
      BY <1>3, <3>6
    <3> QED
      BY <3>4, <3>6, <3>7
  <2>5. r.st = "Listen" /\ (ch.est \/ c.live) => ch.ended = "rst"
    BY <1>6, <1>7 DEF Good, Handshake
  <2>6. c.live => /\ r.st # "Removed" /\ x.st # "none"
                  /\ c.established => r.st \notin {"Listen", "SynReceived"}
    BY <1>7 DEF Good, Handshake
  <2>7. x.st # "none" /\ ~c.live => r.st = "Removed"
    BY DEF Good, Handshake
  <2>8. ASSUME x.st = "none"
        PROVE  /\ x = NewStream /\ u = Channel /\ d = Channel
               /\ r.tx = << >> /\ r.out = 0 /\ ch.taken = << >>
    <3>1. /\ x = NewStream /\ u = Channel /\ d = Channel
          /\ s.tx = << >> /\ s.out = 0 /\ ch.taken = << >>
      BY <2>8 DEF Good, Handshake
    <3> QED
      BY <1>7, <1>8, <3>1
  <2> QED
    BY <2>2, <2>3, <2>4, <2>5, <2>6, <2>7, <2>8 DEF Handshake
<1>11. Ending(ch, v, r, x)
  <2>1. r.st \in EndStates \/ (r.st = "Closed" /\ x.st # "dropped")
          => ch.ended # "no" /\ ~Has(v, "byte")
    BY <1>6, <1>7 DEF Good, Ending, EndStates
  <2>2. r.st = "Closed" /\ x.to_net => ch.ended = "rst"
    BY <1>6, <1>7 DEF Good, Ending, Closing, FinStates
  <2>3. r.st = "Listen" => ~Has(v, "byte")
    BY <1>6, <1>7 DEF Good, Ending
  <2> QED
    BY <1>6, <2>1, <2>2, <2>3 DEF Ending
<1>12. Closing(ch, r, c, u, d, x)
  BY <1>7 DEF Good, Closing
<1>13. Upward(ch, v, r, u, x)
  <2> DEFINE n == Handed(u, x)
  <2>1. ASSUME x.st # "dropped"
        PROVE  Run(r.rx, n) /\ Queued(v, "byte", n + Len(r.rx), ch.sent)
    <3>1. Run(s.rx, n) /\ Queued(w, "byte", n + Len(s.rx), ch.sent)
      BY <2>1 DEF Good, Upward
    <3>2. n \in Nat
      BY <1>1, <2>1, HandedNat DEF Good
    <3> HIDE DEF n
    <3>3. n + Len(s.rx) \in Nat
      BY <1>5, <3>2
    <3>4. CASE h.t # "byte"
      BY <1>1, <1>5, <1>7, <3>1, <3>3, <3>4, QueuedSkip DEF v, h
    <3>5. CASE h.t = "byte"
      <4>1. Has(w, "byte")
        BY <1>2, <3>5
      <4>2. s.st \notin EndStates /\ s.st # "Closed" /\ s.st # "Listen"
        BY <2>1, <4>1 DEF Good, Ending
      <4>3. s.st # "SynReceived"
        <5>1. ASSUME s.st = "SynReceived" PROVE FALSE
          <6>1. PICK j \in 1..1 : w[j].t = "ack"
            BY <1>3, <3>5, <5>1 DEF Good, Handshake
          <6> QED
            BY <1>3, <3>5, <6>1
        <5> QED
          BY <5>1
      <4>4. s.st \in {"Established", "FinWait1", "FinWait2"}
        BY <1>5, <4>2, <4>3 DEF States, FinStates, EndStates
      <4>5. r.rx = Append(s.rx, h.b)
        BY <1>7, <3>5, <4>4
      <4>6. h.b = (n + Len(s.rx)) + 1 /\ Queued(v, "byte", (n + Len(s.rx)) + 1, ch.sent)
        BY <1>1, <1>5, <3>1, <3>3, <3>5, QueuedPop DEF v, h
      <4>7. Run(Append(s.rx, h.b), n) /\ Len(Append(s.rx, h.b)) = Len(s.rx) + 1
        BY <1>5, <3>1, <3>2, <4>6, RunPush
      <4>8. n + (Len(s.rx) + 1) = (n + Len(s.rx)) + 1
        BY <1>5, <3>2
      <4> QED
        BY <4>5, <4>6, <4>7, <4>8
    <3> QED
      BY <3>4, <3>5
  <2> QED
    BY <2>1 DEF Good, Upward
<1>14. EndSeen(ch, u, x)
  BY DEF Good
<1>15. Downward(ch, v, r, c, d, x)
  <2>1. CASE h.t = "taken"
    <3>1. Run(s.tx, a) /\ s.tx # << >>
      BY <1>4, <1>8, <2>1 DEF DownFrom
    <3>2. Run(r.tx, a + 1) /\ Len(r.tx) = Len(s.tx) - 1 /\ r.out = s.out - 1
      BY <1>5, <1>7, <2>1, <3>1, RunPop
    <3>3. (a + 1) + Len(r.tx) = a + Len(s.tx) /\ a + 1 \in Nat
      <4>1. \A k, l \in Nat : k = l - 1 => (a + 1) + k = a + l
        OBVIOUS
      <4>2. Len(s.tx) \in Nat /\ Len(r.tx) \in Nat
        BY <1>5, <3>2, <3>1, RunPop, <1>7, <2>1
      <4>3. (a + 1) + Len(r.tx) = a + Len(s.tx)
        BY <3>2, <4>1, <4>2, Zenon
      <4>4. a + 1 \in Nat
        OBVIOUS
      <4> QED
        BY <4>3, <4>4, Zenon
    <3>4. Len(ch.taken) <= (a + 1) + r.out /\ r.out <= Len(r.tx)
      <4>1. Len(ch.taken) <= a + s.out /\ s.out <= Len(s.tx)
        BY <1>4 DEF DownFrom
      <4>2. Len(s.tx) \in Nat /\ Len(ch.taken) \in Nat /\ s.out \in Nat
        BY <1>5
      <4>3. \A k, l, m, n, o \in Int :
              m <= a + o /\ o <= l /\ k = l - 1 /\ n = o - 1 => m <= (a + 1) + n /\ n <= k
        OBVIOUS
      <4>4. Len(r.tx) \in Int /\ r.out \in Int
        BY <3>2, <4>2
      <4> QED
        BY <3>2, <4>1, <4>2, <4>3, <4>4
    <3>5. DownFrom(a + 1, ch, v, r, c, d, x)
      BY <1>4, <1>7, <1>8, <2>1, <3>2, <3>3, <3>4 DEF DownFrom
    <3> QED
      BY <3>3, <3>5 DEF Good, Downward
  <2>2. CASE h.t # "taken"
    <3>1. Queued(v, "taken", a, Len(ch.taken))
      BY <1>1, <1>4, <1>5, <2>2, QueuedSkip DEF v, h, DownFrom
    <3>2. DownFrom(a, ch, v, r, c, d, x)
      BY <1>4, <1>7, <2>2, <3>1 DEF DownFrom
    <3> QED
      BY <3>2 DEF Good, Downward
  <2> QED
    BY <2>1, <2>2
<1>16. Good(ch, v, r, c, u, d, x)
  BY <1>9, <1>10, <1>11, <1>12, <1>13, <1>14, <1>15 DEF Good
<1> QED
  BY <1>16 DEF v, r, h

(* One segment for which there is no socket any more *)
LEMMA Answered ==
    ASSUME NEW ch, NEW w, NEW s, NEW c, NEW u, NEW d, NEW x, Good(ch, w, s, c, u, d, x),
           w # << >>, s.st = "Removed"
    PROVE  Good([ch EXCEPT !.reset = ch.reset \/ Head(w).t # "rst"], Tail(w), s, c, u, d, x)
<1> DEFINE v == Tail(w)
           h == Head(w)
           ch2 == [ch EXCEPT !.reset = ch.reset \/ h.t # "rst"]
<1>1. /\ ch \in ChildType /\ w \in Seq(Segment) /\ s \in SockType
      /\ c \in {NoConn} \cup ConnType
      /\ u \in ChannelType /\ d \in ChannelType /\ x \in StreamType
  BY DEF Good, Typed
<1>2. \A t : Has(w, t) <=> h.t = t \/ Has(v, t)
  BY <1>1, HasPop
<1>3. v \in Seq(Segment)
  BY <1>1, Popped
<1>4. /\ \A i, j \in DOMAIN v : i < j /\ v[i].t \in {"fin", "rst"} => v[j].t # "byte"
      /\ ch.ended = "no" => ~Has(v, "fin") /\ ~Has(v, "rst") /\ h.t \notin {"fin", "rst"}
      /\ Has(v, "rst") \/ h.t = "rst" => ch.ended = "rst"
  BY <1>1, EndingPop DEF Good
<1> HIDE DEF v, h
<1>5. /\ ch2 \in ChildType /\ ch2.est = ch.est /\ ch2.sent = ch.sent /\ ch2.ended = ch.ended
      /\ ch2.taken = ch.taken /\ ch2.eof = ch.eof /\ (h.t # "rst" => ch2.reset)
  BY <1>1 DEF ChildType
<1> HIDE DEF ch2
<1>6. Typed(ch2, v, s, c, u, d, x)
  BY <1>1, <1>3, <1>5 DEF Typed
<1>7. Handshake(ch2, v, s, c, u, d, x)
  BY <1>2, <1>5 DEF Good, Handshake
<1>8. Ending(ch2, v, s, x)
  BY <1>4, <1>5 DEF Ending, EndStates
<1>9. Closing(ch2, s, c, u, d, x)
  BY <1>5 DEF Good, Closing
<1>10. Upward(ch2, v, s, u, x)
  BY DEF Good, Upward
<1>11. EndSeen(ch2, u, x)
  BY <1>5 DEF Good, EndSeen
<1>12. Downward(ch2, v, s, c, d, x)
  BY <1>4, <1>5 DEF Good, Downward
<1>13. Good(ch2, v, s, c, u, d, x)
  BY <1>6, <1>7, <1>8, <1>9, <1>10, <1>11, <1>12 DEF Good
<1> QED
  BY <1>13 DEF v, h, ch2

LEMMA IngressKeeps ==
    ASSUME AllGood, Ingress
    PROVE  AllGood'
<1>1. child \in ChildType
  BY AllTyped
<1>2. /\ wire # << >> /\ wire' = Tail(wire)
      /\ UNCHANGED <<conn, up, down, stream>>
  BY DEF Ingress
<1>3. CASE sock.st = "Removed"
  <2>1. /\ sock' = sock
        /\ child' = [child EXCEPT !.reset = child.reset \/ Head(wire).t # "rst"]
    BY <1>3 DEF Ingress
  <2>2. Good(child', Tail(wire), sock, conn, up, down, stream)
    BY <1>2, <1>3, <2>1, Answered DEF AllGood
  <2> QED
    BY <1>2, <2>1, <2>2 DEF AllGood
<1>4. CASE sock.st # "Removed"
  <2>1. sock' = Receive(sock, Head(wire)) /\ child' = child
    BY <1>1, <1>4 DEF Ingress, ChildType
  <2>2. Good(child, Tail(wire), Receive(sock, Head(wire)), conn, up, down, stream)
    BY <1>2, <1>4, Ingested DEF AllGood
  <2> QED
    BY <1>2, <2>1, <2>2 DEF AllGood
<1> QED
  BY <1>3, <1>4

(* The timers and the acknowledgements are not part of the invariant. *)
LEMMA SameSocket ==
    ASSUME NEW ch, NEW w, NEW s, NEW c, NEW u, NEW d, NEW x, Good(ch, w, s, c, u, d, x),
           NEW r \in SockType, r.st = s.st, r.rx = s.rx, r.tx = s.tx, r.out = s.out,
           r.finout = s.finout
    PROVE  Good(ch, w, r, c, u, d, x)
<1>1. Typed(ch, w, r, c, u, d, x)
  BY DEF Good, Typed
<1>2. Handshake(ch, w, r, c, u, d, x)
  BY DEF Good, Handshake
<1>3. Ending(ch, w, r, x) /\ Closing(ch, r, c, u, d, x)
  BY DEF Good, Ending, Closing
<1>4. Upward(ch, w, r, u, x)
  BY DEF Good, Upward
<1>5. Downward(ch, w, r, c, d, x)
  BY DEF Good, Downward, DownFrom
<1> QED
  BY <1>1, <1>2, <1>3, <1>4, <1>5 DEF Good

LEMMA Transmitted ==
    ASSUME NEW ch, NEW w, NEW s, NEW c, NEW u, NEW d, NEW x, Good(ch, w, s, c, u, d, x),
           NEW acks \in BOOLEAN
    PROVE  Good(ch, w, Transmit(s, acks), c, u, d, x)
<1> DEFINE r == Transmit(s, acks)
<1>1. CASE s.st \in {"Closed", "Removed"}
  BY <1>1 DEF Transmit
<1>2. CASE s.st \notin {"Closed", "Removed"}
  <2>1. s \in SockType /\ ch \in ChildType
    BY DEF Good, Typed
  <2>2. /\ s.st \in States /\ s.tx \in Seq(Nat) /\ Len(s.tx) \in Nat /\ s.finout \in BOOLEAN
        /\ Len(ch.taken) \in Nat /\ s.out \in Nat
    BY <2>1 DEF SockType, ChildType
  <2>3. /\ r \in SockType /\ r.rx = s.rx /\ r.tx = s.tx /\ r.out = Len(s.tx)
        /\ (r.st = s.st \/ (s.st = "TimeWait" /\ r.st = "Closed"))
        /\ r.finout = (s.finout \/ s.st \in {"FinWait1", "Closing", "LastAck"})
    BY <1>2, <2>1, <2>2 DEF Transmit, SockType, States
  <2> HIDE DEF r
  <2>4. /\ r.finout \/ r.st \in FinStates => s.finout \/ s.st \in FinStates
        /\ s.finout => r.finout
        /\ r.st # "Removed" /\ s.st # "Removed"
    BY <1>2, <2>2, <2>3 DEF FinStates
  <2>5. Typed(ch, w, r, c, u, d, x)
    BY <2>3 DEF Good, Typed
  <2>6. Handshake(ch, w, r, c, u, d, x)
    <3>1. r.st = "Listen" <=> s.st = "Listen"
      BY <2>3
    <3>2. r.st = "SynReceived" <=> s.st = "SynReceived"
      BY <2>3
    <3>3. x.st = "none" => r.out = 0
      BY <2>3 DEF Good, Handshake
    <3> QED
      BY <2>3, <2>4, <3>1, <3>2, <3>3 DEF Good, Handshake
  <2>7. Ending(ch, w, r, x)
    BY <1>2, <2>3 DEF Good, Ending, Closing, EndStates, FinStates
  <2>8. Closing(ch, r, c, u, d, x)
    BY <2>4 DEF Good, Closing
  <2>9. Upward(ch, w, r, u, x)
    BY <2>3, <2>4 DEF Good, Upward
  <2>10. Downward(ch, w, r, c, d, x)
    <3>1. PICK a \in Nat : DownFrom(a, ch, w, s, c, d, x)
      BY <1>2 DEF Good, Downward
    <3>2. Len(ch.taken) <= a + s.out /\ s.out <= Len(s.tx)
      BY <3>1 DEF DownFrom
    <3>3. Len(ch.taken) <= a + r.out /\ r.out <= Len(r.tx)
      BY <2>2, <2>3, <3>2
    <3>4. DownFrom(a, ch, w, r, c, d, x)
      BY <2>3, <2>4, <3>1, <3>3 DEF DownFrom
    <3> QED
      BY <3>4 DEF Good, Downward
  <2> QED
    BY <2>5, <2>6, <2>7, <2>8, <2>9, <2>10 DEF Good, r
<1> QED
  BY <1>1, <1>2

(* A socket without a NetConn goes away when it is closed. *)
LEMMA Forgotten ==
    ASSUME NEW ch, NEW w, NEW s, NEW c, NEW u, NEW d, NEW x, Good(ch, w, s, c, u, d, x),
           ~c.live, s.st = "Closed"
    PROVE  Good(ch, w, [s EXCEPT !.st = "Removed"], c, u, d, x)
<1> DEFINE r == [s EXCEPT !.st = "Removed"]
<1>1. /\ r \in SockType /\ r.st = "Removed" /\ r.tx = s.tx /\ r.out = s.out
      /\ r.finout = s.finout /\ r.rx = s.rx
  BY DEF Good, Typed, SockType, States
<1> HIDE DEF r
<1>2. Typed(ch, w, r, c, u, d, x)
  BY <1>1 DEF Good, Typed
<1>3. Handshake(ch, w, r, c, u, d, x)
  BY <1>1 DEF Good, Handshake
<1>4. Ending(ch, w, r, x) /\ Closing(ch, r, c, u, d, x)
  BY <1>1 DEF Good, Ending, Closing, EndStates, FinStates
<1>5. Upward(ch, w, r, u, x)
  BY <1>1 DEF Good, Upward
<1>6. Downward(ch, w, r, c, d, x)
  <2>1. PICK a \in Nat : DownFrom(a, ch, w, s, c, d, x)
    BY DEF Good, Downward
  <2>2. DownFrom(a, ch, w, r, c, d, x)
    BY <1>1, <2>1 DEF DownFrom, FinStates
  <2> QED
    BY <2>2 DEF Good, Downward
<1> QED
  BY <1>2, <1>3, <1>4, <1>5, <1>6 DEF Good, r

-----------------------------------------------------------------------------
(* promote_listeners and service_conns *)

LEMMA Promoted ==
    ASSUME NEW ch, NEW w, NEW s, NEW c, NEW u, NEW d, NEW x, Good(ch, w, s, c, u, d, x),
           ~c.live, s.st \notin {"Listen", "Closed", "Removed"}
    PROVE  Good(ch, w, s, NewConn, u, d, [x EXCEPT !.st = "open"])
<1> DEFINE y == [x EXCEPT !.st = "open"]
<1>1. /\ x.st = "none" /\ x = NewStream /\ u = Channel /\ d = Channel
      /\ s.tx = << >> /\ s.out = 0 /\ ch.taken = << >>
  BY DEF Good, Handshake
<1>2. /\ y \in StreamType /\ y.st = "open" /\ y.to_net /\ x.to_net /\ y.to_net = x.to_net
      /\ y.read = x.read
      /\ y.read_rem = x.read_rem /\ y.eof = x.eof /\ y.written = 0 /\ x.written = 0
  <2>1. x.to_net /\ x.written = 0
    BY <1>1 DEF NewStream
  <2>2. x \in StreamType
    BY DEF Good, Typed
  <2>3. /\ y \in StreamType /\ y.st = "open" /\ y.to_net = x.to_net /\ y.read = x.read
        /\ y.read_rem = x.read_rem /\ y.eof = x.eof /\ y.written = x.written
    BY <2>2 DEF StreamType
  <2> QED
    BY <2>1, <2>3
<1>3. /\ NewConn \in ConnType /\ NewConn.live /\ ~NewConn.established /\ ~NewConn.sent_fin
      /\ ~NewConn.app_write_closed /\ NewConn.pending_out = << >>
  BY DEF NewConn, ConnType
<1>4. d.q = << >> /\ d.open /\ u.live
  BY <1>1 DEF Channel
<1> HIDE DEF y
<1>5. Typed(ch, w, s, NewConn, u, d, y)
  BY <1>2, <1>3 DEF Good, Typed
<1>6. Handshake(ch, w, s, NewConn, u, d, y)
  BY <1>2, <1>3 DEF Good, Handshake
<1>7. Ending(ch, w, s, y)
  BY <1>1, <1>2 DEF Good, Ending
<1>8. Closing(ch, s, NewConn, u, d, y)
  BY <1>1, <1>2, <1>3, <1>4 DEF Good, Closing
<1>9. Upward(ch, w, s, u, y)
  BY <1>1, <1>2 DEF Good, Upward, Handed
<1>10. EndSeen(ch, u, y)
  BY <1>2 DEF Good, EndSeen, Handed
<1>11. Downward(ch, w, s, NewConn, d, y)
  <2>1. PICK a \in Nat : DownFrom(a, ch, w, s, c, d, x)
    BY DEF Good, Downward
  <2>2. a = 0
    BY <1>1, <2>1 DEF DownFrom, Queued
  <2>3. LET n == a + Len(s.tx)
            m == n + Len(NewConn.pending_out)
        IN Run(NewConn.pending_out, n) /\ Chunks(d.q, m) /\ EndOf(d.q, m) = y.written
    BY <1>1, <1>2, <1>3, <1>4, <2>2 DEF Run, Chunks, EndOf
  <2>4. DownFrom(a, ch, w, s, NewConn, d, y)
    BY <1>2, <2>1, <2>3 DEF DownFrom
  <2>5. ch.eof => Len(ch.taken) = y.written
    BY <1>2 DEF Good, Downward
  <2> QED
    BY <2>4, <2>5 DEF Good, Downward
<1> QED
  BY <1>5, <1>6, <1>7, <1>8, <1>9, <1>10, <1>11 DEF Good, y

LEMMA ConnKnown ==
    ASSUME NEW ch, NEW w, NEW s, NEW c, NEW u, NEW d, NEW x, Good(ch, w, s, c, u, d, x), c.live
    PROVE  /\ c \in ConnType /\ s \in SockType /\ d \in ChannelType /\ x \in StreamType
           /\ s.st # "Removed" /\ x.st # "none"
           /\ c.pending_out \in Seq(Nat) /\ Len(c.pending_out) \in Nat
           /\ s.tx \in Seq(Nat) /\ Len(s.tx) \in Nat /\ x.written \in Nat
           /\ d.q \in Seq(Seq(Nat))
<1>1. c \in {NoConn} \cup ConnType /\ s \in SockType /\ d \in ChannelType /\ x \in StreamType
  BY DEF Good, Typed
<1>2. ~NoConn.live
  BY DEF NoConn
<1>3. c \in ConnType
  BY <1>1, <1>2
<1>4. /\ c.pending_out \in Seq(Nat) /\ s.tx \in Seq(Nat) /\ x.written \in Nat
      /\ d.q \in Seq(Seq(Nat))
  BY <1>1, <1>3 DEF ConnType, SockType, StreamType, ChannelType
<1>5. Len(c.pending_out) \in Nat /\ Len(s.tx) \in Nat
  BY <1>4
<1>6. s.st # "Removed" /\ x.st # "none"
  BY DEF Good, Handshake
<1> QED
  BY <1>1, <1>3, <1>4, <1>5, <1>6

LEMMA Latched ==
    ASSUME NEW ch, NEW w, NEW s, NEW c, NEW u, NEW d, NEW x, Good(ch, w, s, c, u, d, x), c.live
    PROVE  Good(ch, w, s, [c EXCEPT !.established = c.established \/ may_send(s)], u, d, x)
<1> DEFINE e == [c EXCEPT !.established = c.established \/ may_send(s)]
<1>1. c \in ConnType
  BY ConnKnown
<1>2. /\ e \in ConnType /\ e.live /\ e.pending_out = c.pending_out
      /\ e.app_write_closed = c.app_write_closed /\ e.sent_fin = c.sent_fin
      /\ e.established => c.established \/ may_send(s)
  BY <1>1 DEF ConnType
<1> HIDE DEF e
<1>3. Typed(ch, w, s, e, u, d, x)
  BY <1>2 DEF Good, Typed
<1>4. Handshake(ch, w, s, e, u, d, x)
  BY <1>2 DEF Good, Handshake, may_send
<1>5. Closing(ch, s, e, u, d, x)
  BY <1>2 DEF Good, Closing
<1>6. Downward(ch, w, s, e, d, x)
  BY <1>2 DEF Good, Downward, DownFrom
<1> QED
  BY <1>3, <1>4, <1>5, <1>6 DEF Good, e

(* push_out, of what is stashed *)
LEMMA Flushed ==
    ASSUME NEW ch, NEW w, NEW s, NEW c, NEW u, NEW d, NEW x, Good(ch, w, s, c, u, d, x), c.live
    PROVE  LET p == push_out(s, c, c.pending_out)
           IN p.conn.live /\ Good(ch, w, p.sock, p.conn, u, d, x)
<1> DEFINE buf == c.pending_out
           n == IF can_send(s) THEN Least(TxCap - Len(s.tx), Len(buf)) ELSE 0
           r == [s EXCEPT !.tx = s.tx \o Upto(buf, n)]
           e == [c EXCEPT !.pending_out = From(buf, n)]
<1>1. /\ c \in ConnType /\ s \in SockType /\ d \in ChannelType /\ x \in StreamType
      /\ s.st # "Removed" /\ x.st # "none"
      /\ buf \in Seq(Nat) /\ Len(buf) \in Nat
      /\ s.tx \in Seq(Nat) /\ Len(s.tx) \in Nat /\ x.written \in Nat
      /\ d.q \in Seq(Seq(Nat))
  BY ConnKnown
<1>2. n \in 0..Len(buf)
  <2>1. TxCap \in Nat
    BY NetConnAssumption
  <2>2. ASSUME NEW l \in Nat, NEW m \in Nat, l < TxCap
        PROVE  Least(TxCap - l, m) \in 0..m
    BY <2>1, <2>2 DEF Least
  <2>3. can_send(s) => Len(s.tx) < TxCap
    BY DEF can_send
  <2>4. 0 \in 0..Len(buf)
    BY <1>1
  <2> HIDE DEF buf
  <2> QED
    BY <1>1, <2>2, <2>3, <2>4
<1> HIDE DEF n
<1>3. PICK a \in Nat : DownFrom(a, ch, w, s, c, d, x)
  BY <1>1 DEF Good, Downward
<1>4. Run(s.tx, a) /\ Run(buf, a + Len(s.tx)) /\ s.out <= Len(s.tx)
  BY <1>3 DEF DownFrom
<1>5. a + Len(s.tx) \in Nat
  BY <1>1
<1>6. /\ Upto(buf, n) \in Seq(Nat) /\ Len(Upto(buf, n)) = n /\ Run(Upto(buf, n), a + Len(s.tx))
      /\ From(buf, n) \in Seq(Nat) /\ Len(From(buf, n)) = Len(buf) - n
      /\ Run(From(buf, n), (a + Len(s.tx)) + n)
  BY <1>1, <1>2, <1>4, <1>5, RunSplit
<1>7. /\ s.tx \o Upto(buf, n) \in Seq(Nat) /\ Len(s.tx \o Upto(buf, n)) = Len(s.tx) + n
      /\ Run(s.tx \o Upto(buf, n), a)
  BY <1>1, <1>4, <1>6, RunJoin
<1> HIDE DEF buf
<1>8. /\ r \in SockType /\ r.st = s.st /\ r.rx = s.rx /\ r.out = s.out /\ r.finout = s.finout
      /\ r.tx = s.tx \o Upto(buf, n)
  BY <1>1, <1>7 DEF SockType
<1>9. /\ e \in ConnType /\ e.live /\ e.app_write_closed = c.app_write_closed
      /\ e.sent_fin = c.sent_fin /\ e.established = c.established
      /\ e.pending_out = From(buf, n)
  BY <1>1, <1>6 DEF ConnType
<1> HIDE DEF r, e
<1>10. /\ (a + Len(s.tx)) + n = a + Len(r.tx) /\ n \in Nat /\ n <= Len(buf)
       /\ Len(r.tx) = Len(s.tx) + n /\ Len(e.pending_out) = Len(buf) - n
       /\ (a + Len(s.tx)) + Len(buf) = (a + Len(r.tx)) + Len(e.pending_out)
  <2>1. n \in Nat /\ n <= Len(buf)
    BY <1>1, <1>2
  <2>2. Len(r.tx) = Len(s.tx) + n /\ Len(e.pending_out) = Len(buf) - n
    BY <1>6, <1>7, <1>8, <1>9
  <2>3. \A k, l, m, o, t \in Int : l = k + n /\ t = o - n
          => (a + k) + n = a + l /\ (a + k) + o = (a + l) + t
    BY <2>1
  <2>4. Len(s.tx) \in Int /\ Len(r.tx) \in Int /\ Len(buf) \in Int /\ Len(e.pending_out) \in Int
    BY <1>1, <2>1, <2>2
  <2> QED
    BY <2>1, <2>2, <2>3, <2>4
<1>11. c.sent_fin => buf = << >> /\ e.pending_out = << >> /\ n = 0
  <2>1. c.sent_fin => buf = << >>
    BY DEF Good, Closing, buf
  <2>2. buf = << >> => Len(buf) = 0
    OBVIOUS
  <2>3. ASSUME Len(e.pending_out) = 0 PROVE e.pending_out = << >>
    BY <1>6, <1>9, <2>3
  <2>4. ASSUME Len(buf) = 0 PROVE n = 0 /\ Len(e.pending_out) = 0
    BY <1>10, <2>4
  <2> QED
    BY <2>1, <2>2, <2>3, <2>4
<1>12. Typed(ch, w, r, e, u, d, x)
  BY <1>8, <1>9 DEF Good, Typed
<1>13. Handshake(ch, w, r, e, u, d, x)
  BY <1>1, <1>8, <1>9 DEF Good, Handshake
<1>14. Ending(ch, w, r, x)
  BY <1>8 DEF Good, Ending
<1>15. Closing(ch, r, e, u, d, x)
  BY <1>8, <1>9, <1>11 DEF Good, Closing
<1>16. Upward(ch, w, r, u, x)
  BY <1>8 DEF Good, Upward
<1>17. Downward(ch, w, r, e, d, x)
  <2>1. r.out <= Len(r.tx)
    <3>1. s.out \in Nat
      BY <1>1 DEF SockType
    <3> QED
      BY <1>1, <1>4, <1>8, <1>10, <3>1
  <2>2. LET k == a + Len(r.tx)
            m == k + Len(e.pending_out)
        IN Run(e.pending_out, k) /\ Chunks(d.q, m) /\ EndOf(d.q, m) = x.written
    <3>1. Run(e.pending_out, a + Len(r.tx))
      BY <1>6, <1>9, <1>10
    <3>2. LET m == (a + Len(s.tx)) + Len(buf) IN Chunks(d.q, m) /\ EndOf(d.q, m) = x.written
      BY <1>3 DEF DownFrom, buf
    <3> QED
      BY <1>10, <3>1, <3>2
  <2>3. ASSUME s.finout \/ s.st \in FinStates PROVE a + Len(r.tx) = x.written
    <3>1. c.sent_fin /\ a + Len(s.tx) = x.written
      BY <1>3, <2>3 DEF Good, Closing, DownFrom
    <3>2. n = 0
      BY <1>11, <3>1
    <3>3. (a + Len(s.tx)) + 0 = a + Len(s.tx)
      BY <1>5
    <3> QED
      BY <1>10, <3>1, <3>2, <3>3
  <2>4. DownFrom(a, ch, w, r, e, d, x)
    BY <1>3, <1>7, <1>8, <2>1, <2>2, <2>3 DEF DownFrom
  <2> QED
    BY <2>4 DEF Good, Downward
<1>18. e.live /\ Good(ch, w, r, e, u, d, x)
  BY <1>9, <1>12, <1>13, <1>14, <1>15, <1>16, <1>17 DEF Good
<1> QED
  BY <1>18 DEF push_out, r, e, n, buf

(* One try_recv: the chunk is, for a moment, all that is stashed. *)
LEMMA ChunkTaken ==
    ASSUME NEW ch, NEW w, NEW s, NEW c, NEW u, NEW d, NEW x, Good(ch, w, s, c, u, d, x), c.live,
           c.pending_out = << >>, d.q # << >>
    PROVE  LET e == [c EXCEPT !.pending_out = Head(d.q)]
           IN e.live /\ Good(ch, w, s, e, u, [d EXCEPT !.q = Tail(d.q)], x)
<1> DEFINE e == [c EXCEPT !.pending_out = Head(d.q)]
           f == [d EXCEPT !.q = Tail(d.q)]
<1>1. /\ c \in ConnType /\ s \in SockType /\ d \in ChannelType /\ x \in StreamType
      /\ s.st # "Removed" /\ x.st # "none"
      /\ s.tx \in Seq(Nat) /\ Len(s.tx) \in Nat /\ x.written \in Nat
      /\ d.q \in Seq(Seq(Nat))
  BY ConnKnown
<1>2. Head(d.q) \in Seq(Nat) /\ Tail(d.q) \in Seq(Seq(Nat))
  BY <1>1, Popped
<1>3. /\ e \in ConnType /\ e.live /\ e.app_write_closed = c.app_write_closed
      /\ e.sent_fin = c.sent_fin /\ e.established = c.established
      /\ e.pending_out = Head(d.q)
  BY <1>1, <1>2 DEF ConnType
<1>4. f \in ChannelType /\ f.open = d.open /\ f.live = d.live /\ f.q = Tail(d.q)
  BY <1>1, <1>2 DEF ChannelType
<1> HIDE DEF e, f
<1>5. ~c.sent_fin
  BY DEF Good, Closing
<1>6. Typed(ch, w, s, e, u, f, x)
  BY <1>3, <1>4 DEF Good, Typed
<1>7. Handshake(ch, w, s, e, u, f, x)
  BY <1>1, <1>3 DEF Good, Handshake
<1>8. Closing(ch, s, e, u, f, x)
  BY <1>3, <1>4, <1>5 DEF Good, Closing
<1>9. Downward(ch, w, s, e, f, x)
  <2>1. PICK a \in Nat : DownFrom(a, ch, w, s, c, d, x)
    BY <1>1 DEF Good, Downward
  <2> DEFINE n == a + Len(s.tx)
  <2>2. n \in Nat /\ n + Len(c.pending_out) = n
    BY <1>1
  <2>3. Chunks(d.q, n) /\ EndOf(d.q, n) = x.written
    <3> DEFINE m == n + Len(c.pending_out)
    <3>1. Chunks(d.q, m) /\ EndOf(d.q, m) = x.written
      BY <2>1 DEF DownFrom
    <3> HIDE DEF m
    <3>2. m = n
      BY <2>2 DEF m
    <3> QED
      BY <3>1, <3>2
  <2>4. LET m == n + Len(e.pending_out)
        IN Run(e.pending_out, n) /\ Chunks(f.q, m) /\ EndOf(f.q, m) = x.written
    <3> HIDE DEF n
    <3> QED
      BY <1>1, <1>3, <1>4, <2>2, <2>3, ChunksPop
  <2>5. DownFrom(a, ch, w, s, e, f, x)
    BY <2>1, <2>4 DEF DownFrom
  <2> QED
    BY <2>5 DEF Good, Downward
<1> QED
  BY <1>3, <1>6, <1>7, <1>8, <1>9 DEF Good, e, f

(* Once the proxy has closed its half and all is pushed, the socket is closed. *)
LEMMA FinSent ==
    ASSUME NEW ch, NEW w, NEW s, NEW c, NEW u, NEW d, NEW x, Good(ch, w, s, c, u, d, x), c.live,
           c.pending_out = << >>, d.q = << >>, ~x.to_net
    PROVE  Good(ch, w, close(s),
                [c EXCEPT !.app_write_closed = TRUE, !.sent_fin = TRUE], u, d, x)
<1> DEFINE e == [c EXCEPT !.app_write_closed = TRUE, !.sent_fin = TRUE]
           r == close(s)
<1>1. /\ c \in ConnType /\ s \in SockType /\ d \in ChannelType /\ x \in StreamType
      /\ s.st # "Removed" /\ x.st # "none"
      /\ s.tx \in Seq(Nat) /\ Len(s.tx) \in Nat /\ x.written \in Nat
  BY ConnKnown
<1>2. /\ e \in ConnType /\ e.live /\ e.app_write_closed /\ e.sent_fin
      /\ e.established = c.established /\ e.pending_out = << >>
  BY <1>1 DEF ConnType
<1>3. s.st \in States
  BY <1>1 DEF SockType
<1>4. /\ r.st \in States \ {"Removed", "Listen", "SynReceived"}
      /\ r.st \in EndStates => s.st \in EndStates
      /\ r.st = "Closed" => s.st \in {"Closed", "Listen"}
      /\ r = [s EXCEPT !.st = r.st]
  BY <1>1, <1>3 DEF close, States, FinStates, EndStates, SockType
<1> HIDE DEF r, e
<1>5. /\ r \in SockType /\ r.rx = s.rx /\ r.tx = s.tx /\ r.out = s.out /\ r.finout = s.finout
  BY <1>1, <1>4 DEF SockType
<1>6. Typed(ch, w, r, e, u, d, x)
  BY <1>2, <1>5 DEF Good, Typed
<1>7. Handshake(ch, w, r, e, u, d, x)
  BY <1>1, <1>2, <1>4, <1>5 DEF Good, Handshake
<1>8. Ending(ch, w, r, x)
  <2>1. s.st = "Listen" => ch.ended = "rst" /\ ~Has(w, "byte")
    BY DEF Good, Handshake, Ending
  <2> QED
    BY <1>4, <2>1 DEF Good, Ending
<1>9. Closing(ch, r, e, u, d, x)
  BY <1>2, <1>5 DEF Good, Closing
<1>10. Upward(ch, w, r, u, x)
  BY <1>1, <1>4, <1>5 DEF Good, Upward
<1>11. Downward(ch, w, r, e, d, x)
  <2>1. PICK a \in Nat : DownFrom(a, ch, w, s, c, d, x)
    BY <1>1 DEF Good, Downward
  <2>2. LET n == a + Len(s.tx)
            m == n + Len(c.pending_out)
        IN Chunks(d.q, m) /\ EndOf(d.q, m) = x.written
    BY <2>1 DEF DownFrom
  <2>3. a + Len(s.tx) = x.written
    <3>1. Len(c.pending_out) = 0 /\ a + Len(s.tx) \in Nat
      BY <1>1
    <3>2. (a + Len(s.tx)) + Len(c.pending_out) = x.written
      BY <2>2 DEF EndOf
    <3> QED
      BY <3>1, <3>2
  <2>4. DownFrom(a, ch, w, r, e, d, x)
    BY <1>2, <1>5, <2>1, <2>3 DEF DownFrom
  <2> QED
    BY <2>4 DEF Good, Downward
<1> QED
  BY <1>6, <1>7, <1>8, <1>9, <1>10, <1>11 DEF Good, r, e

(* The loop notes that the proxy has closed its half, with bytes still stashed. *)
LEMMA CloseSeen ==
    ASSUME NEW ch, NEW w, NEW s, NEW c, NEW u, NEW d, NEW x, Good(ch, w, s, c, u, d, x), c.live,
           NEW b \in BOOLEAN, b => ~x.to_net
    PROVE  Good(ch, w, s, [c EXCEPT !.app_write_closed = b, !.sent_fin = c.sent_fin], u, d, x)
<1> DEFINE e == [c EXCEPT !.app_write_closed = b, !.sent_fin = c.sent_fin]
<1>1. c \in ConnType
  BY ConnKnown
<1>2. /\ e \in ConnType /\ e.live /\ e.pending_out = c.pending_out
      /\ e.app_write_closed = b /\ e.sent_fin = c.sent_fin /\ e.established = c.established
  BY <1>1 DEF ConnType
<1> HIDE DEF e
<1>3. Typed(ch, w, s, e, u, d, x)
  BY <1>2 DEF Good, Typed
<1>4. Handshake(ch, w, s, e, u, d, x)
  BY <1>2 DEF Good, Handshake
<1>5. Closing(ch, s, e, u, d, x)
  BY <1>2 DEF Good, Closing
<1>6. Downward(ch, w, s, e, d, x)
  BY <1>2 DEF Good, Downward, DownFrom
<1> QED
  BY <1>3, <1>4, <1>5, <1>6 DEF Good, e

(* try_reserve and recv *)
LEMMA Received ==
    ASSUME NEW ch, NEW w, NEW s, NEW c, NEW u, NEW d, NEW x, Good(ch, w, s, c, u, d, x), c.live,
           u.open, u.live, NEW n \in 1..Len(s.rx)
    PROVE  Good(ch, w, [s EXCEPT !.rx = From(s.rx, n)], c,
                [u EXCEPT !.q = Append(u.q, Upto(s.rx, n))], d, x)
<1> DEFINE r == [s EXCEPT !.rx = From(s.rx, n)]
           v == [u EXCEPT !.q = Append(u.q, Upto(s.rx, n))]
           a == Len(x.read) + Len(x.read_rem)
           b == EndOf(u.q, a)
<1>1. /\ s \in SockType /\ u \in ChannelType /\ x \in StreamType /\ s.st # "Removed"
      /\ x.st \notin {"none", "dropped"}
  BY ConnKnown DEF Good, Typed, Closing
<1>2. s.rx \in Seq(Nat) /\ Len(s.rx) \in Nat /\ u.q \in Seq(Seq(Nat))
  BY <1>1 DEF SockType, ChannelType
<1>3. a \in Nat /\ b \in Nat
  BY <1>1, HandedNat DEF Good, Handed
<1>4. /\ Chunks(u.q, a) /\ Run(s.rx, b) /\ Queued(w, "byte", b + Len(s.rx), ch.sent)
  BY <1>1 DEF Good, Upward, Handed
<1> HIDE DEF b
<1>5. /\ Upto(s.rx, n) \in Seq(Nat) /\ Len(Upto(s.rx, n)) = n /\ Run(Upto(s.rx, n), b)
      /\ From(s.rx, n) \in Seq(Nat) /\ Len(From(s.rx, n)) = Len(s.rx) - n
      /\ Run(From(s.rx, n), b + n)
  <2>1. n \in 0..Len(s.rx)
    BY <1>2
  <2> QED
    BY <1>2, <1>3, <1>4, <2>1, RunSplit
<1>6. Upto(s.rx, n) # << >>
  BY <1>2, <1>5
<1> HIDE DEF a
<1>7. /\ Append(u.q, Upto(s.rx, n)) \in Seq(Seq(Nat))
      /\ Chunks(Append(u.q, Upto(s.rx, n)), a)
      /\ EndOf(Append(u.q, Upto(s.rx, n)), a) = b + n
  BY <1>2, <1>3, <1>4, <1>5, <1>6, ChunksPush DEF b
<1>8. /\ r \in SockType /\ r.st = s.st /\ r.tx = s.tx /\ r.out = s.out /\ r.finout = s.finout
      /\ r.rx = From(s.rx, n)
  BY <1>1, <1>5 DEF SockType
<1>9. v \in ChannelType /\ v.open = u.open /\ v.live = u.live /\ v.q = Append(u.q, Upto(s.rx, n))
  BY <1>1, <1>7 DEF ChannelType
<1> HIDE DEF r, v
<1>10. Typed(ch, w, r, c, v, d, x)
  BY <1>8, <1>9 DEF Good, Typed
<1>11. Handshake(ch, w, r, c, v, d, x)
  BY <1>1, <1>8 DEF Good, Handshake
<1>12. Ending(ch, w, r, x)
  BY <1>8 DEF Good, Ending
<1>13. Closing(ch, r, c, v, d, x)
  BY <1>8, <1>9 DEF Good, Closing
<1>14. Upward(ch, w, r, v, x)
  <2>1. Handed(v, x) = b + n
    BY <1>7, <1>9 DEF Handed, a
  <2>2. (b + n) + Len(r.rx) = b + Len(s.rx)
    <3>1. \A k, l \in Int : k = l - n => (b + n) + k = b + l
      BY <1>3
    <3>2. Len(r.rx) = Len(s.rx) - n /\ Len(r.rx) \in Int /\ Len(s.rx) \in Int
      BY <1>2, <1>5, <1>8
    <3> QED
      BY <3>1, <3>2, Zenon
  <2>3. /\ Run(r.rx, Handed(v, x)) /\ Queued(w, "byte", Handed(v, x) + Len(r.rx), ch.sent)
    BY <1>4, <1>5, <1>8, <2>1, <2>2
  <2>4. Chunks(v.q, Len(x.read) + Len(x.read_rem))
    BY <1>7, <1>9 DEF a
  <2> QED
    BY <2>3, <2>4 DEF Good, Upward
<1>15. EndSeen(ch, v, x)
  BY <1>9 DEF Good, EndSeen
<1>16. Downward(ch, w, r, c, d, x)
  BY <1>8 DEF Good, Downward, DownFrom
<1> QED
  BY <1>10, <1>11, <1>12, <1>13, <1>14, <1>15, <1>16 DEF Good, r, v

LEMMA Aborted ==
    ASSUME NEW ch, NEW w, NEW s, NEW c, NEW u, NEW d, NEW x, Good(ch, w, s, c, u, d, x), c.live,
           ~u.live
    PROVE  Good(ch, w, abort(s), c, [u EXCEPT !.open = FALSE], d, x)
<1> DEFINE r == abort(s)
           v == [u EXCEPT !.open = FALSE]
<1>1. /\ s \in SockType /\ u \in ChannelType /\ s.st # "Removed" /\ x.st = "dropped" /\ ~x.to_net
  BY ConnKnown DEF Good, Typed, Closing
<1>2. /\ r \in SockType /\ r.st = "Closed" /\ r.tx = s.tx /\ r.out = s.out
      /\ r.finout = s.finout /\ r.rx = s.rx
  BY <1>1 DEF abort, SockType, States
<1>3. v \in ChannelType /\ ~v.open /\ v.live = u.live /\ v.q = u.q
  BY <1>1 DEF ChannelType
<1> HIDE DEF r, v
<1>4. Typed(ch, w, r, c, v, d, x)
  BY <1>2, <1>3 DEF Good, Typed
<1>5. Handshake(ch, w, r, c, v, d, x)
  BY <1>1, <1>2 DEF Good, Handshake
<1>6. Ending(ch, w, r, x)
  BY <1>1, <1>2 DEF Good, Ending, EndStates
<1>7. Closing(ch, r, c, v, d, x)
  BY <1>2, <1>3 DEF Good, Closing, FinStates
<1>8. Upward(ch, w, r, v, x)
  BY <1>1 DEF Upward
<1>9. EndSeen(ch, v, x)
  BY <1>1, <1>3 DEF Good, EndSeen
<1>10. Downward(ch, w, r, c, d, x)
  BY <1>1, <1>2 DEF Good, Downward, DownFrom, FinStates
<1> QED
  BY <1>4, <1>5, <1>6, <1>7, <1>8, <1>9, <1>10 DEF Good, r, v

(* "surface EOF to the proxy" *)
LEMMA EndSurfaced ==
    ASSUME NEW ch, NEW w, NEW s, NEW c, NEW u, NEW d, NEW x, Good(ch, w, s, c, u, d, x), c.live,
           NEW b \in BOOLEAN, b => u.open,
           u.open /\ ~b => c.established /\ ~may_recv(s)
    PROVE  Good(ch, w, s, c, [u EXCEPT !.open = b], d, x)
<1> DEFINE v == [u EXCEPT !.open = b]
<1>1. s \in SockType /\ u \in ChannelType /\ x \in StreamType /\ ch \in ChildType /\ w \in Seq(Segment)
  BY DEF Good, Typed
<1>2. v \in ChannelType /\ v.open = b /\ v.live = u.live /\ v.q = u.q
  BY <1>1 DEF ChannelType
<1> HIDE DEF v
<1>3. Typed(ch, w, s, c, v, d, x)
  BY <1>2 DEF Good, Typed
<1>4. Handshake(ch, w, s, c, v, d, x)
  BY DEF Good, Handshake
<1>5. Closing(ch, s, c, v, d, x)
  BY <1>2 DEF Good, Closing
<1>6. Upward(ch, w, s, v, x)
  BY <1>2 DEF Good, Upward, Handed
<1>7. Handed(v, x) = Handed(u, x)
  BY <1>2 DEF Handed
<1>8. ASSUME ~b, u.open, x.to_net, ch.ended # "rst"
      PROVE  ch.ended = "fin" /\ Handed(u, x) = ch.sent
  <2>1. s.st \in States /\ ch.ended \in {"no", "fin", "rst"} /\ ch.sent \in Nat
    BY <1>1 DEF SockType, ChildType
  <2>2. s.rx = << >> /\ s.st \notin {"Established", "FinWait1", "FinWait2"}
    BY <1>8 DEF may_recv, can_recv
  <2>3. s.st \notin {"Listen", "SynReceived", "Removed"}
    BY <1>8 DEF Good, Handshake
  <2>4. s.st \notin FinStates /\ s.st # "Closed" /\ x.st # "dropped"
    BY <1>8 DEF Good, Closing, Ending
  <2>5. s.st = "CloseWait"
    BY <2>1, <2>2, <2>3, <2>4 DEF States
  <2>6. ch.ended # "no" /\ ~Has(w, "byte")
    BY <2>5 DEF Good, Ending, EndStates
  <2>7. Handed(u, x) \in Nat
    BY <1>1, <2>4, HandedNat DEF Good
  <2>8. Queued(w, "byte", Handed(u, x) + Len(s.rx), ch.sent)
    BY <2>3, <2>4 DEF Good, Upward
  <2>9. Handed(u, x) + Len(s.rx) = Handed(u, x)
    BY <2>2, <2>7
  <2>10. {i \in DOMAIN w : w[i].t = "byte"} = {}
    BY <2>6 DEF Has
  <2>11. Handed(u, x) = ch.sent
    <3>1. Queued(w, "byte", Handed(u, x), ch.sent)
      BY <2>8, <2>9
    <3> QED
      BY <1>1, <2>1, <2>7, <2>10, <3>1, QueuedCount
  <2> QED
    BY <1>8, <2>1, <2>6, <2>11
<1>9. EndSeen(ch, v, x)
  BY <1>2, <1>7, <1>8 DEF Good, EndSeen
<1> QED
  BY <1>3, <1>4, <1>5, <1>6, <1>9 DEF Good, v

(* "reap closed connections" *)
LEMMA Reaped ==
    ASSUME NEW ch, NEW w, NEW s, NEW c, NEW u, NEW d, NEW x, Good(ch, w, s, c, u, d, x), c.live,
           s.st = "Closed"
    PROVE  Good(ch, w, [s EXCEPT !.st = "Removed"], NoConn, [u EXCEPT !.open = FALSE],
                [d EXCEPT !.live = FALSE], x)
<1> DEFINE r == [s EXCEPT !.st = "Removed"]
           v == [u EXCEPT !.open = FALSE]
           f == [d EXCEPT !.live = FALSE]
<1>1. s \in SockType /\ u \in ChannelType /\ d \in ChannelType /\ x.st # "none"
  BY ConnKnown DEF Good, Typed
<1>2. /\ r \in SockType /\ r.st = "Removed" /\ r.tx = s.tx /\ r.out = s.out
      /\ r.finout = s.finout /\ r.rx = s.rx
  BY <1>1 DEF SockType, States
<1>3. /\ v \in ChannelType /\ ~v.open /\ v.live = u.live /\ v.q = u.q
      /\ f \in ChannelType /\ f.open = d.open /\ f.q = d.q
  BY <1>1 DEF ChannelType
<1>4. ~NoConn.live
  BY DEF NoConn
<1> HIDE DEF r, v, f
<1>5. Typed(ch, w, r, NoConn, v, f, x)
  BY <1>2, <1>3 DEF Good, Typed
<1>6. Handshake(ch, w, r, NoConn, v, f, x)
  BY <1>1, <1>2, <1>4 DEF Good, Handshake
<1>7. Ending(ch, w, r, x)
  BY <1>2 DEF Good, Ending, EndStates
<1>8. Closing(ch, r, NoConn, v, f, x)
  BY <1>2, <1>3, <1>4 DEF Good, Closing, FinStates
<1>9. Upward(ch, w, r, v, x)
  BY <1>2, <1>3 DEF Good, Upward
<1>10. EndSeen(ch, v, x)
  BY <1>3 DEF Good, EndSeen, Ending
<1>11. Downward(ch, w, r, NoConn, f, x)
  <2>1. PICK a \in Nat : DownFrom(a, ch, w, s, c, d, x)
    BY DEF Good, Downward
  <2>2. DownFrom(a, ch, w, r, NoConn, f, x)
    BY <1>2, <1>4, <2>1 DEF DownFrom, FinStates
  <2> QED
    BY <2>2 DEF Good, Downward
<1> QED
  BY <1>5, <1>6, <1>7, <1>8, <1>9, <1>10, <1>11 DEF Good, r, v, f

LEMMA PollEndKeeps ==
    ASSUME Inv, PollEnd
    PROVE  AllGood' /\ (pc' = "sleep" => ~conn'.live) /\ (pc' # "sleep" => pc' = "out" /\ conn'.live)
<1> DEFINE promoted(s) == ~conn.live /\ s.st \notin {"Listen", "Closed", "Removed"}
           cOf(s) == IF promoted(s) THEN NewConn ELSE conn
           latch(s) == [cOf(s) EXCEPT !.established = cOf(s).established \/ may_send(s)]
           flush(s) == push_out(s, latch(s), latch(s).pending_out)
           sOf(s) == IF promoted(s) THEN [stream EXCEPT !.st = "open"] ELSE stream
<1>1. PICK acks \in BOOLEAN :
        LET s == Transmit(sock, acks)
        IN /\ stream' = sOf(s)
           /\ \/ /\ cOf(s).live
                 /\ sock' = flush(s).sock /\ conn' = flush(s).conn
                 /\ pc' = "out"
              \/ /\ ~cOf(s).live
                 /\ sock' = IF s.st = "Closed" THEN [s EXCEPT !.st = "Removed"] ELSE s
                 /\ pc' = "sleep" /\ UNCHANGED conn
  BY DEF PollEnd, FlushStash
<1>2. UNCHANGED <<child, wire, up, down>>
  BY DEF PollEnd
<1> DEFINE s == Transmit(sock, acks)
<1>3. Good(child, wire, s, conn, up, down, stream)
  BY Transmitted DEF Inv
<1>4. Good(child, wire, s, cOf(s), up, down, sOf(s))
  <2> HIDE DEF s
  <2> QED
    BY <1>3, Promoted
<1>5. ~cOf(s).live => cOf(s) = conn /\ sOf(s) = stream
  <2>1. NewConn.live
    BY DEF NewConn
  <2> QED
    BY <2>1
<1> HIDE DEF s, cOf, sOf
<1>6. CASE cOf(s).live
  <2>1. Good(child, wire, s, latch(s), up, down, sOf(s))
    BY <1>4, <1>6, Latched
  <2>2. latch(s).live
    <3>1. cOf(s) \in ConnType
      BY <1>4, <1>6, ConnKnown
    <3> QED
      BY <1>6, <3>1 DEF ConnType
  <2> HIDE DEF latch
  <2>3. flush(s).conn.live /\ Good(child, wire, flush(s).sock, flush(s).conn, up, down, sOf(s))
    BY <2>1, <2>2, Flushed
  <2> HIDE DEF flush
  <2>4. sock' = flush(s).sock /\ conn' = flush(s).conn /\ pc' = "out" /\ stream' = sOf(s)
    BY <1>1, <1>6 DEF s
  <2> QED
    BY <1>2, <2>3, <2>4 DEF AllGood
<1>7. CASE ~cOf(s).live
  <2>1. /\ sock' = IF s.st = "Closed" THEN [s EXCEPT !.st = "Removed"] ELSE s
        /\ pc' = "sleep" /\ conn' = conn /\ stream' = stream /\ ~conn.live
    BY <1>1, <1>5, <1>7 DEF s
  <2>2. Good(child, wire, sock', conn, up, down, stream)
    BY <1>3, <2>1, Forgotten
  <2> QED
    BY <1>2, <2>1, <2>2 DEF AllGood
<1> QED
  BY <1>6, <1>7

LEMMA ServiceOutKeeps ==
    ASSUME Inv, ServiceOut
    PROVE  AllGood' /\ conn'.live
<1> DEFINE e == [conn EXCEPT !.pending_out = Head(down.q)]
           f == [down EXCEPT !.q = Tail(down.q)]
<1>1. /\ conn.live /\ conn.pending_out = << >> /\ down.q # << >>
      /\ Good(child, wire, sock, conn, up, down, stream)
  BY DEF ServiceOut, Inv
<1>2. /\ sock' = push_out(sock, conn, Head(down.q)).sock
      /\ conn' = push_out(sock, conn, Head(down.q)).conn
      /\ down' = f /\ UNCHANGED <<child, wire, up, stream>>
  BY DEF ServiceOut
<1>3. e.live /\ Good(child, wire, sock, e, up, f, stream)
  BY <1>1, ChunkTaken
<1>4. conn \in ConnType
  BY <1>1, ConnKnown
<1>5. e.pending_out = Head(down.q)
  BY <1>4 DEF ConnType
<1>6. push_out(sock, conn, Head(down.q)) = push_out(sock, e, e.pending_out)
  <2>1. ASSUME NEW b PROVE [e EXCEPT !.pending_out = b] = [conn EXCEPT !.pending_out = b]
    BY <1>4 DEF ConnType
  <2> HIDE DEF e
  <2> QED
    BY <1>5, <2>1 DEF push_out
<1> HIDE DEF e, f
<1>7. LET p == push_out(sock, e, e.pending_out)
      IN p.conn.live /\ Good(child, wire, p.sock, p.conn, up, f, stream)
  BY <1>3, Flushed
<1> QED
  BY <1>2, <1>6, <1>7 DEF AllGood

LEMMA ServiceOutEndKeeps ==
    ASSUME Inv, ServiceOutEnd
    PROVE  /\ AllGood' /\ conn'.live /\ conn'.pending_out = conn.pending_out
           /\ conn.pending_out = << >> /\ ~down.open => conn'.app_write_closed
           /\ conn.pending_out # << >> \/ down.q = << >>
<1> DEFINE closed == conn.app_write_closed \/ (conn.pending_out = << >> /\ ~down.open)
           fin == closed /\ conn.pending_out = << >> /\ ~conn.sent_fin
<1>1. /\ conn.live /\ Good(child, wire, sock, conn, up, down, stream)
      /\ conn.pending_out # << >> \/ down.q = << >>
  BY DEF ServiceOutEnd, Inv
<1>2. /\ conn' = [conn EXCEPT !.app_write_closed = closed, !.sent_fin = conn.sent_fin \/ fin]
      /\ sock' = IF fin THEN close(sock) ELSE sock
      /\ UNCHANGED <<child, wire, up, down, stream>>
  BY DEF ServiceOutEnd
<1>3. conn \in ConnType
  BY <1>1, ConnKnown
<1>4. closed => ~stream.to_net
  BY <1>1 DEF Good, Closing
<1>5. /\ conn'.live /\ conn'.pending_out = conn.pending_out
      /\ conn.pending_out = << >> /\ ~down.open => conn'.app_write_closed
  BY <1>1, <1>2, <1>3 DEF ConnType
<1>6. closed \in BOOLEAN /\ fin \in BOOLEAN /\ conn.sent_fin \in BOOLEAN
  BY <1>3 DEF ConnType
<1>7. CASE fin
  <2>1. Good(child, wire, close(sock),
             [conn EXCEPT !.app_write_closed = TRUE, !.sent_fin = TRUE], up, down, stream)
    BY <1>1, <1>4, <1>7, FinSent
  <2>2. conn' = [conn EXCEPT !.app_write_closed = TRUE, !.sent_fin = TRUE]
    <3>1. closed = TRUE /\ (conn.sent_fin \/ fin) = TRUE
      BY <1>6, <1>7
    <3> HIDE DEF closed, fin
    <3> QED
      BY <1>2, <3>1
  <2> QED
    BY <1>1, <1>2, <1>5, <1>7, <2>1, <2>2 DEF AllGood
<1>8. CASE ~fin
  <2>1. Good(child, wire, sock,
             [conn EXCEPT !.app_write_closed = closed, !.sent_fin = conn.sent_fin], up, down, stream)
    <3> HIDE DEF closed, fin
    <3> QED
      BY <1>1, <1>4, <1>6, CloseSeen
  <2>2. conn' = [conn EXCEPT !.app_write_closed = closed, !.sent_fin = conn.sent_fin]
    <3>1. (conn.sent_fin \/ fin) = conn.sent_fin
      BY <1>6, <1>8
    <3> HIDE DEF closed, fin
    <3> QED
      BY <1>2, <3>1
  <2> HIDE DEF closed
  <2> QED
    BY <1>1, <1>2, <1>5, <1>8, <2>1, <2>2 DEF AllGood
<1> QED
  BY <1>1, <1>5, <1>7, <1>8

LEMMA ServiceInKeeps ==
    ASSUME Inv, ServiceIn \/ ServiceInGone
    PROVE  AllGood'
<1>1. conn.live /\ Good(child, wire, sock, conn, up, down, stream)
  BY DEF ServiceIn, ServiceInGone, Inv
<1>2. CASE ServiceIn
  <2>1. PICK n \in 1..Least(CHUNK, Len(sock.rx)) :
          /\ up' = [up EXCEPT !.q = Append(up.q, Upto(sock.rx, n))]
          /\ sock' = [sock EXCEPT !.rx = From(sock.rx, n)]
    BY <1>2 DEF ServiceIn
  <2>2. up.open /\ up.live /\ UNCHANGED <<child, wire, conn, down, stream>>
    BY <1>2 DEF ServiceIn
  <2>3. n \in 1..Len(sock.rx)
    <3>1. Len(sock.rx) \in Nat /\ CHUNK \in Nat
      BY <1>1, NetConnAssumption DEF Good, Typed, SockType
    <3>2. \A m \in Nat : 1..Least(CHUNK, m) \subseteq 1..m
      BY <3>1 DEF Least
    <3> QED
      BY <3>1, <3>2
  <2>4. Good(child, wire, [sock EXCEPT !.rx = From(sock.rx, n)], conn,
             [up EXCEPT !.q = Append(up.q, Upto(sock.rx, n))], down, stream)
    BY <1>1, <2>2, <2>3, Received
  <2> QED
    BY <2>1, <2>2, <2>4 DEF AllGood
<1>3. CASE ServiceInGone
  <2>1. /\ ~up.live /\ sock' = abort(sock) /\ up' = [up EXCEPT !.open = FALSE]
        /\ UNCHANGED <<child, wire, conn, down, stream>>
    BY <1>3 DEF ServiceInGone
  <2>2. Good(child, wire, abort(sock), conn, [up EXCEPT !.open = FALSE], down, stream)
    BY <1>1, <2>1, Aborted
  <2> QED
    BY <2>1, <2>2 DEF AllGood
<1> QED
  BY <1>2, <1>3

LEMMA ServiceEndKeeps ==
    ASSUME Inv, ServiceEnd
    PROVE  AllGood' /\ (conn' = conn \/ ~conn'.live) /\ down'.q = down.q /\ down'.open = down.open
<1> DEFINE reap == sock.st = "Closed"
<1>1. conn.live /\ Good(child, wire, sock, conn, up, down, stream)
  BY DEF ServiceEnd, Inv
<1>2. up \in ChannelType /\ down \in ChannelType /\ conn \in ConnType
  BY <1>1, ConnKnown DEF Good, Typed
<1>3. /\ up' = [up EXCEPT !.open = up.open /\ ~PeerEnded /\ ~reap]
      /\ down' = [down EXCEPT !.live = down.live /\ ~reap]
      /\ conn' = IF reap THEN NoConn ELSE conn
      /\ \E acks \in BOOLEAN :
           sock' = IF reap THEN [sock EXCEPT !.st = "Removed"] ELSE Transmit(sock, acks)
      /\ UNCHANGED <<child, wire, stream>>
  BY DEF ServiceEnd
<1>4. down'.q = down.q /\ down'.open = down.open
  BY <1>2, <1>3 DEF ChannelType
<1>5. CASE reap
  <2>1. /\ up' = [up EXCEPT !.open = FALSE] /\ down' = [down EXCEPT !.live = FALSE]
        /\ conn' = NoConn /\ sock' = [sock EXCEPT !.st = "Removed"]
    BY <1>3, <1>5
  <2>2. Good(child, wire, [sock EXCEPT !.st = "Removed"], NoConn, [up EXCEPT !.open = FALSE],
             [down EXCEPT !.live = FALSE], stream)
    BY <1>1, <1>5, Reaped
  <2>3. ~NoConn.live
    BY DEF NoConn
  <2> QED
    BY <1>3, <1>4, <2>1, <2>2, <2>3 DEF AllGood
<1>6. CASE ~reap
  <2> DEFINE b == up.open /\ ~PeerEnded
  <2>1. PICK acks \in BOOLEAN : sock' = Transmit(sock, acks)
    BY <1>3, <1>6
  <2>2. up' = [up EXCEPT !.open = b] /\ down' = down /\ conn' = conn
    <3>1. up' = [up EXCEPT !.open = b]
      BY <1>3, <1>6
    <3>2. down' = down
      <4>1. down.live \in BOOLEAN
        BY <1>2 DEF ChannelType
      <4>2. (down.live /\ ~reap) = down.live
        BY <1>6, <4>1
      <4>3. down' = [down EXCEPT !.live = down.live]
        BY <1>3, <4>2
      <4> QED
        BY <1>2, <4>3 DEF ChannelType
    <3> QED
      BY <1>3, <1>6, <3>1, <3>2
  <2>3. /\ b \in BOOLEAN /\ (b => up.open)
        /\ (up.open /\ ~b => conn.established /\ ~may_recv(sock))
    BY <1>2 DEF PeerEnded
  <2> HIDE DEF b
  <2>4. Good(child, wire, sock, conn, [up EXCEPT !.open = b], down, stream)
    BY <1>1, <2>3, EndSurfaced
  <2>5. Good(child, wire, Transmit(sock, acks), conn, [up EXCEPT !.open = b], down, stream)
    BY <2>4, Transmitted
  <2> QED
    BY <1>3, <1>4, <2>1, <2>2, <2>5 DEF AllGood
<1> QED
  BY <1>5, <1>6

-----------------------------------------------------------------------------
(* The proxy *)

(* The invariant of a stream that differs in what the other parts do not see *)
LEMMA StreamFrame ==
    ASSUME NEW ch, NEW w, NEW s, NEW c, NEW u, NEW d, NEW x, Good(ch, w, s, c, u, d, x),
           NEW y \in StreamType, y.st = x.st, x.st # "none", y.to_net = x.to_net,
           y.written = x.written,
           NEW v \in ChannelType, v.open = u.open, v.live = u.live,
           Upward(ch, w, s, v, y), EndSeen(ch, v, y)
    PROVE  Good(ch, w, s, c, v, d, y)
<1>1. Typed(ch, w, s, c, v, d, y)
  BY DEF Good, Typed
<1>2. Handshake(ch, w, s, c, v, d, y)
  BY DEF Good, Handshake
<1>3. Ending(ch, w, s, y) /\ Closing(ch, s, c, v, d, y)
  BY DEF Good, Ending, Closing
<1>4. Downward(ch, w, s, c, d, y)
  BY DEF Good, Downward, DownFrom
<1> QED
  BY <1>1, <1>2, <1>3, <1>4 DEF Good

LEMMA ReadKeeps ==
    ASSUME AllGood, Read
    PROVE  AllGood'
<1> DEFINE rem == stream.read_rem
           chunk == IF rem # << >> THEN rem ELSE Head(up.q)
           r == Len(stream.read)
           m == r + Len(rem)
<1>1. /\ sock \in SockType /\ up \in ChannelType /\ stream \in StreamType
  BY AllTyped
<1>2. stream.st = "open" /\ (rem # << >> \/ up.q # << >>)
  BY DEF Read, Holds
<1>3. PICK n \in 1..Len(chunk) :
        stream' = [stream EXCEPT !.read = stream.read \o Upto(chunk, n),
                                 !.read_rem = From(chunk, n)]
  BY DEF Read
<1>4. /\ up' = IF rem # << >> THEN up ELSE [up EXCEPT !.q = Tail(up.q)]
      /\ UNCHANGED <<child, wire, sock, conn, down>>
  BY DEF Read
<1>5. /\ stream.read \in Seq(Nat) /\ rem \in Seq(Nat) /\ up.q \in Seq(Seq(Nat))
  BY <1>1 DEF StreamType, ChannelType
<1>6. r \in Nat /\ Len(rem) \in Nat /\ m \in Nat /\ Handed(up, stream) \in Nat
  BY <1>1, <1>2, HandedNat DEF AllGood, Good
<1>7. Run(stream.read, 0) /\ Run(rem, r) /\ Chunks(up.q, m)
  BY <1>2 DEF AllGood, Good, Upward
<1>8. chunk \in Seq(Nat) /\ Run(chunk, r) /\ Len(chunk) \in Nat
      /\ up'.q \in Seq(Seq(Nat)) /\ Chunks(up'.q, r + Len(chunk))
      /\ EndOf(up'.q, r + Len(chunk)) = Handed(up, stream)
      /\ up' \in ChannelType /\ up'.open = up.open /\ up'.live = up.live
  <2>1. CASE rem # << >>
    <3>1. chunk = rem /\ up' = up
      BY <1>4, <2>1
    <3> HIDE DEF chunk, rem
    <3> QED
      BY <1>1, <1>5, <1>6, <1>7, <3>1 DEF Handed, rem
  <2>2. CASE rem = << >>
    <3>1. chunk = Head(up.q) /\ up' = [up EXCEPT !.q = Tail(up.q)] /\ up.q # << >>
      BY <1>2, <1>4, <2>2
    <3>2. m = r
      BY <1>6, <2>2
    <3> HIDE DEF chunk, rem, m
    <3>3. /\ Head(up.q) \in Seq(Nat) /\ Head(up.q) # << >> /\ Run(Head(up.q), r)
          /\ Tail(up.q) \in Seq(Seq(Nat)) /\ Chunks(Tail(up.q), r + Len(Head(up.q)))
          /\ EndOf(Tail(up.q), r + Len(Head(up.q))) = EndOf(up.q, r)
      BY <1>5, <1>6, <1>7, <3>1, <3>2, ChunksPop
    <3>4. EndOf(up.q, r) = Handed(up, stream)
      BY <3>2 DEF Handed, m, rem
    <3>5. up' \in ChannelType /\ up'.open = up.open /\ up'.live = up.live /\ up'.q = Tail(up.q)
      BY <1>1, <3>1, <3>3 DEF ChannelType
    <3>6. Len(chunk) \in Nat
      BY <3>1, <3>3
    <3> QED
      BY <3>1, <3>3, <3>4, <3>5, <3>6
  <2> QED
    BY <2>1, <2>2
<1> HIDE DEF chunk
<1>9. n \in 0..Len(chunk) /\ n \in Nat /\ n <= Len(chunk)
  BY <1>8
<1>10. /\ Upto(chunk, n) \in Seq(Nat) /\ Len(Upto(chunk, n)) = n /\ Run(Upto(chunk, n), r)
       /\ From(chunk, n) \in Seq(Nat) /\ Len(From(chunk, n)) = Len(chunk) - n
       /\ Run(From(chunk, n), r + n)
  BY <1>6, <1>8, <1>9, RunSplit
<1>11. /\ stream.read \o Upto(chunk, n) \in Seq(Nat)
       /\ Len(stream.read \o Upto(chunk, n)) = r + n
       /\ Run(stream.read \o Upto(chunk, n), 0)
  <2>1. 0 + r = r
    BY <1>6
  <2> QED
    BY <1>5, <1>7, <1>10, <2>1, RunJoin
<1>12. /\ stream' \in StreamType /\ stream'.st = stream.st /\ stream'.to_net = stream.to_net
       /\ stream'.written = stream.written /\ stream'.eof = stream.eof
       /\ stream'.read = stream.read \o Upto(chunk, n)
       /\ stream'.read_rem = From(chunk, n)
  BY <1>1, <1>3, <1>10, <1>11 DEF StreamType
<1>13. Len(stream'.read) + Len(stream'.read_rem) = r + Len(chunk)
  <2>1. Len(stream'.read) = r + n /\ Len(stream'.read_rem) = Len(chunk) - n
    BY <1>10, <1>11, <1>12
  <2>2. \A k, l \in Nat : (k + n) + (l - n) = k + l
    BY <1>9
  <2> HIDE DEF r
  <2> QED
    BY <1>6, <1>8, <2>1, <2>2
<1>14. Handed(up', stream') = Handed(up, stream)
  BY <1>8, <1>13 DEF Handed
<1>15. Upward(child, wire, sock, up', stream')
  <2>1. Run(stream'.read, 0) /\ Run(stream'.read_rem, Len(stream'.read))
    BY <1>10, <1>11, <1>12
  <2>2. Chunks(up'.q, Len(stream'.read) + Len(stream'.read_rem))
    BY <1>8, <1>13
  <2> QED
    BY <1>2, <1>12, <1>14, <2>1, <2>2 DEF AllGood, Good, Upward
<1>16. EndSeen(child, up', stream')
  BY <1>2, <1>8, <1>12, <1>14 DEF AllGood, Good, EndSeen
<1>17. Good(child, wire, sock, conn, up', down, stream')
  BY <1>2, <1>8, <1>12, <1>15, <1>16, StreamFrame DEF AllGood
<1> QED
  BY <1>4, <1>17 DEF AllGood

LEMMA ReadEofKeeps ==
    ASSUME AllGood, ReadEof
    PROVE  AllGood'
<1>1. up \in ChannelType /\ stream \in StreamType
  BY AllTyped
<1>2. /\ stream.st = "open" /\ stream.read_rem = << >> /\ up.q = << >> /\ ~up.open
      /\ stream' = [stream EXCEPT !.eof = TRUE]
      /\ UNCHANGED <<child, wire, sock, conn, up, down>>
  BY DEF ReadEof, Holds
<1>3. /\ stream' \in StreamType /\ stream'.st = stream.st /\ stream'.to_net = stream.to_net
      /\ stream'.written = stream.written /\ stream'.read = stream.read
      /\ stream'.read_rem = stream.read_rem
  BY <1>1, <1>2 DEF StreamType
<1>4. Handed(up, stream') = Handed(up, stream)
  BY <1>3 DEF Handed
<1>5. Upward(child, wire, sock, up, stream')
  BY <1>3, <1>4 DEF AllGood, Good, Upward
<1>6. EndSeen(child, up, stream')
  BY <1>2, <1>3, <1>4 DEF AllGood, Good, EndSeen
<1>7. Good(child, wire, sock, conn, up, down, stream')
  BY <1>1, <1>2, <1>3, <1>5, <1>6, StreamFrame DEF AllGood
<1> QED
  BY <1>2, <1>7 DEF AllGood

LEMMA NotifyKeeps ==
    ASSUME AllGood, Notify
    PROVE  AllGood'
<1>1. up \in ChannelType /\ stream \in StreamType
  BY AllTyped
<1>2. /\ stream.notify /\ stream' = [stream EXCEPT !.notify = FALSE]
      /\ UNCHANGED <<child, wire, sock, conn, up, down>>
  BY DEF Notify
<1>3. /\ stream' \in StreamType /\ stream'.st = stream.st /\ stream'.to_net = stream.to_net
      /\ stream'.written = stream.written /\ stream'.read = stream.read
      /\ stream'.read_rem = stream.read_rem /\ stream'.eof = stream.eof
  BY <1>1, <1>2 DEF StreamType
<1>4. Handed(up, stream') = Handed(up, stream)
  BY <1>3 DEF Handed
<1>5. Upward(child, wire, sock, up, stream')
  BY <1>3, <1>4 DEF AllGood, Good, Upward
<1>6. EndSeen(child, up, stream')
  BY <1>3, <1>4 DEF AllGood, Good, EndSeen
<1>7. stream.st # "none"
  <2>1. stream.st = "none" => stream = NewStream
    BY DEF AllGood, Good, Handshake
  <2> QED
    BY <1>2, <2>1 DEF NewStream
<1>8. Good(child, wire, sock, conn, up, down, stream')
  BY <1>1, <1>3, <1>5, <1>6, <1>7, StreamFrame DEF AllGood
<1> QED
  BY <1>2, <1>8 DEF AllGood

LEMMA WriteKeeps ==
    ASSUME AllGood, Write
    PROVE  AllGood'
<1> DEFINE old == stream.written
<1>1. down \in ChannelType /\ stream \in StreamType
  BY AllTyped
<1>2. /\ stream.st = "open" /\ stream.to_net /\ UNCHANGED <<child, wire, sock, conn, up>>
  BY DEF Write, Speaks, Holds
<1>3. old \in Nat /\ down.q \in Seq(Seq(Nat)) /\ MaxDown \in Nat
  BY <1>1, NetConnAssumption DEF StreamType, ChannelType
<1>4. PICK n \in 1..(MaxDown - old) :
        /\ down' = [down EXCEPT !.q = Append(down.q, [i \in 1..n |-> old + i])]
        /\ stream' = [stream EXCEPT !.written = old + n, !.notify = TRUE]
  BY DEF Write
<1> DEFINE t == [i \in 1..n |-> old + i]
<1>5. n \in Nat /\ 1 <= n /\ old + n \in Nat
  BY <1>3
<1>6. t \in Seq(Nat) /\ Len(t) = n /\ t # << >> /\ Run(t, old)
  <2>1. ASSUME NEW i \in 1..n PROVE old + i \in Nat
    BY <1>3, <1>5
  <2>2. t \in [1..n -> Nat]
    BY <2>1
  <2>3. t \in Seq(Nat) /\ Len(t) = n
    BY <1>5, <2>2
  <2>4. t # << >>
    BY <1>5, <2>3
  <2>5. Run(t, old)
    BY DEF Run
  <2> QED
    BY <2>3, <2>4, <2>5
<1> HIDE DEF t
<1>7. Append(down.q, t) \in Seq(Seq(Nat))
  BY <1>3, <1>6, Pushed
<1>8. /\ down' \in ChannelType /\ down'.open = down.open /\ down'.live = down.live
      /\ down'.q = Append(down.q, t)
  BY <1>1, <1>4, <1>7 DEF ChannelType, t
<1>9. /\ stream' \in StreamType /\ stream'.st = stream.st /\ stream'.to_net = stream.to_net
      /\ stream'.written = old + n /\ stream'.read = stream.read
      /\ stream'.read_rem = stream.read_rem /\ stream'.eof = stream.eof
  BY <1>1, <1>4, <1>5 DEF StreamType
<1>10. Typed(child, wire, sock, conn, up, down', stream')
  BY <1>8, <1>9 DEF AllGood, Good, Typed
<1>11. Handshake(child, wire, sock, conn, up, down', stream')
  BY <1>2, <1>9 DEF AllGood, Good, Handshake
<1>12. Ending(child, wire, sock, stream')
  BY <1>9 DEF AllGood, Good, Ending
<1>13. Closing(child, sock, conn, up, down', stream')
  BY <1>2, <1>8, <1>9 DEF AllGood, Good, Closing
<1>14. Upward(child, wire, sock, up, stream') /\ EndSeen(child, up, stream')
  BY <1>9 DEF AllGood, Good, Upward, EndSeen, Handed
<1>15. Downward(child, wire, sock, conn, down', stream')
  <2>1. ~sock.finout /\ sock.st \notin FinStates /\ ~child.eof
    BY <1>2 DEF AllGood, Good, Closing
  <2>2. ASSUME NEW a \in Nat, DownFrom(a, child, wire, sock, conn, down, stream)
        PROVE  DownFrom(a, child, wire, sock, conn, down', stream')
    <3>1. ASSUME conn.live
          PROVE  LET k == a + Len(sock.tx)
                     m == k + Len(conn.pending_out)
                 IN Chunks(down'.q, m) /\ EndOf(down'.q, m) = stream'.written
      <4> DEFINE m == (a + Len(sock.tx)) + Len(conn.pending_out)
      <4>1. Chunks(down.q, m) /\ EndOf(down.q, m) = old
        BY <2>2, <3>1 DEF DownFrom
      <4>2. m \in Nat
        <5>1. Len(sock.tx) \in Nat /\ Len(conn.pending_out) \in Nat
          BY <3>1, ConnKnown DEF AllGood
        <5>2. \A k, l \in Nat : (a + k) + l \in Nat
          OBVIOUS
        <5> QED
          BY <5>1, <5>2, Zenon
      <4> HIDE DEF m
      <4>3. Chunks(Append(down.q, t), m) /\ EndOf(Append(down.q, t), m) = old + n
        BY <1>3, <1>6, <4>1, <4>2, ChunksPush
      <4>4. Chunks(down'.q, m) /\ EndOf(down'.q, m) = stream'.written
        BY <1>8, <1>9, <4>3
      <4> QED
        BY <4>4 DEF m
    <3> QED
      BY <2>1, <2>2, <3>1 DEF DownFrom
  <2> QED
    BY <2>1, <2>2 DEF AllGood, Good, Downward
<1>16. Good(child, wire, sock, conn, up, down', stream')
  BY <1>10, <1>11, <1>12, <1>13, <1>14, <1>15 DEF Good
<1> QED
  BY <1>2, <1>16 DEF AllGood

(* The end of the proxy's half, with or without that of the other *)
LEMMA HalfClosed ==
    ASSUME NEW ch, NEW w, NEW s, NEW c, NEW u, NEW d, NEW x, Good(ch, w, s, c, u, d, x),
           NEW y \in StreamType, x.st # "none", y.st = x.st \/ y.st = "dropped", ~y.to_net,
           y.written = x.written, y.read = x.read, y.read_rem = x.read_rem, y.eof = x.eof,
           NEW v \in ChannelType, v.live <=> y.st # "dropped", v.q = u.q, v.open = u.open,
           NEW f \in ChannelType, ~f.open, f.q = d.q
    PROVE  Good(ch, w, s, c, v, f, y)
<1>1. Typed(ch, w, s, c, v, f, y)
  BY DEF Good, Typed
<1>2. Handshake(ch, w, s, c, v, f, y)
  BY DEF Good, Handshake
<1>3. Ending(ch, w, s, y)
  BY DEF Good, Ending
<1>4. Closing(ch, s, c, v, f, y)
  BY DEF Good, Closing
<1>5. Upward(ch, w, s, v, y) /\ EndSeen(ch, v, y)
  <2>1. Handed(v, y) = Handed(u, x)
    BY DEF Handed
  <2>2. Upward(ch, w, s, v, y)
    BY <2>1 DEF Good, Upward
  <2>3. EndSeen(ch, v, y)
    BY <2>1 DEF Good, EndSeen
  <2> QED
    BY <2>2, <2>3
<1>6. Downward(ch, w, s, c, f, y)
  BY DEF Good, Downward, DownFrom
<1> QED
  BY <1>1, <1>2, <1>3, <1>4, <1>5, <1>6 DEF Good

LEMMA ShutdownKeeps ==
    ASSUME AllGood, Shutdown \/ Drop
    PROVE  AllGood'
<1>1. up \in ChannelType /\ down \in ChannelType /\ stream \in StreamType
  BY AllTyped
<1>2. stream.st = "open" /\ UNCHANGED <<child, wire, sock, conn>>
  BY DEF Shutdown, Drop, Speaks, Holds
<1>3. down' \in ChannelType /\ ~down'.open /\ down'.q = down.q
  <2>1. down' = [down EXCEPT !.open = FALSE]
    BY DEF Shutdown, Drop
  <2> QED
    BY <1>1, <2>1 DEF ChannelType
<1>4. up.live
  BY <1>2 DEF AllGood, Good, Closing
<1>5. CASE Shutdown
  <2>1. stream' = [stream EXCEPT !.to_net = FALSE, !.notify = TRUE] /\ up' = up
    BY <1>5 DEF Shutdown
  <2>2. /\ stream' \in StreamType /\ stream'.st = stream.st /\ ~stream'.to_net
        /\ stream'.written = stream.written /\ stream'.read = stream.read
        /\ stream'.read_rem = stream.read_rem /\ stream'.eof = stream.eof
    BY <1>1, <2>1 DEF StreamType
  <2>3. Good(child, wire, sock, conn, up, down', stream')
    BY <1>1, <1>2, <1>3, <1>4, <2>2, HalfClosed DEF AllGood
  <2> QED
    BY <1>2, <2>1, <2>3 DEF AllGood
<1>6. CASE Drop
  <2>1. /\ stream' = [stream EXCEPT !.st = "dropped", !.to_net = FALSE]
        /\ up' = [up EXCEPT !.live = FALSE]
    BY <1>6 DEF Drop
  <2>2. /\ stream' \in StreamType /\ stream'.st = "dropped" /\ ~stream'.to_net
        /\ stream'.written = stream.written /\ stream'.read = stream.read
        /\ stream'.read_rem = stream.read_rem /\ stream'.eof = stream.eof
    BY <1>1, <2>1 DEF StreamType
  <2>3. up' \in ChannelType /\ ~up'.live /\ up'.q = up.q /\ up'.open = up.open
    BY <1>1, <2>1 DEF ChannelType
  <2>4. Good(child, wire, sock, conn, up', down', stream')
    BY <1>2, <1>3, <2>2, <2>3, HalfClosed DEF AllGood
  <2> QED
    BY <1>2, <2>4 DEF AllGood
<1> QED
  BY <1>5, <1>6

-----------------------------------------------------------------------------
(* The specification *)

LEMMA InitGood ==
    ASSUME Init
    PROVE  Inv
<1>1. /\ child = [est |-> FALSE, sent |-> 0, ended |-> "no",
                  taken |-> << >>, eof |-> FALSE, reset |-> FALSE]
      /\ wire = <<Seg("syn", 0)>> /\ sock = NewSocket /\ conn = NoConn
      /\ up = Channel /\ down = Channel /\ stream = NewStream
      /\ wake = FALSE /\ pc = "poll"
  BY DEF Init
<1>2. Seg("syn", 0) \in Segment /\ Seg("syn", 0).t = "syn"
  BY SegType DEF Kinds
<1>3. /\ wire \in Seq(Segment) /\ Len(wire) = 1 /\ DOMAIN wire = 1..1 /\ wire[1].t = "syn"
  BY <1>1, <1>2
<1>4. /\ child \in ChildType /\ child.taken = << >> /\ ~child.est /\ ~child.eof
      /\ child.sent = 0 /\ child.ended = "no"
  BY <1>1 DEF ChildType
<1>5. /\ sock \in SockType /\ sock.st = "Listen" /\ sock.rx = << >> /\ sock.tx = << >>
      /\ sock.out = 0 /\ ~sock.finout
  BY <1>1 DEF NewSocket, SockType, States
<1>6. conn \in {NoConn} \cup ConnType /\ ~conn.live
  BY <1>1 DEF NoConn
<1>7. /\ up \in ChannelType /\ down \in ChannelType /\ up.q = << >> /\ up.open /\ up.live
      /\ down.q = << >> /\ down.open
  BY <1>1 DEF Channel, ChannelType
<1>8. /\ stream \in StreamType /\ stream.st = "none" /\ stream.to_net /\ ~stream.eof
      /\ stream.read = << >> /\ stream.read_rem = << >> /\ stream.written = 0
  BY <1>1 DEF NewStream, StreamType
<1>9. \A t : t # "syn" => ~Has(wire, t)
  BY <1>3 DEF Has
<1>10. \A i \in DOMAIN wire : wire[i].t = "syn"
  BY <1>3
<1>11. Queued(wire, "byte", 0, 0) /\ Queued(wire, "taken", 0, 0)
  BY <1>10 DEF Queued
<1>12. Typed(child, wire, sock, conn, up, down, stream)
  BY <1>3, <1>4, <1>5, <1>6, <1>7, <1>8 DEF Typed
<1>13. Handshake(child, wire, sock, conn, up, down, stream)
  BY <1>1, <1>3, <1>4, <1>5, <1>6, <1>8 DEF Handshake
<1>14. Ending(child, wire, sock, stream)
  <2>1. \A i, j \in DOMAIN wire : wire[i].t \notin {"fin", "rst"}
    BY <1>10
  <2> QED
    BY <1>5, <1>9, <2>1 DEF Ending, EndStates
<1>15. Closing(child, sock, conn, up, down, stream)
  BY <1>4, <1>5, <1>6, <1>7, <1>8 DEF Closing, FinStates
<1>16. Len(<< >>) = 0 /\ 0 + 0 = 0
  OBVIOUS
<1>17. Handed(up, stream) = 0
  BY <1>7, <1>8, <1>16 DEF Handed, EndOf
<1>18. \A a : Run(<< >>, a) /\ Chunks(<< >>, a)
  BY DEF Run, Chunks
<1>19. Upward(child, wire, sock, up, stream)
  BY <1>4, <1>5, <1>7, <1>8, <1>11, <1>16, <1>17, <1>18 DEF Upward
<1>20. EndSeen(child, up, stream)
  BY <1>7, <1>8 DEF EndSeen
<1>21. DownFrom(0, child, wire, sock, conn, down, stream)
  BY <1>4, <1>5, <1>6, <1>8, <1>11, <1>16, <1>18 DEF DownFrom, FinStates
<1>22. Downward(child, wire, sock, conn, down, stream)
  BY <1>4, <1>18, <1>21 DEF Downward
<1>23. Good(child, wire, sock, conn, up, down, stream)
  BY <1>12, <1>13, <1>14, <1>15, <1>19, <1>20, <1>22 DEF Good
<1>24. Wakeful
  BY <1>1 DEF Wakeful
<1> QED
  BY <1>1, <1>23, <1>24 DEF Inv

LEMMA TimeWaitKeeps ==
    ASSUME AllGood, TimeWaitExpires
    PROVE  AllGood'
<1>1. sock \in SockType
  BY AllTyped
<1>2. /\ sock' = [sock EXCEPT !.expired = TRUE]
      /\ UNCHANGED <<child, wire, conn, up, down, stream>>
  BY DEF TimeWaitExpires
<1>3. /\ sock' \in SockType /\ sock'.st = sock.st /\ sock'.rx = sock.rx /\ sock'.tx = sock.tx
      /\ sock'.out = sock.out /\ sock'.finout = sock.finout
  BY <1>1, <1>2 DEF SockType
<1>4. Good(child, wire, sock', conn, up, down, stream)
  BY <1>3, SameSocket DEF AllGood
<1> QED
  BY <1>2, <1>4 DEF AllGood

LEMMA StepKeeps ==
    ASSUME Inv, Next
    PROVE  Inv'
<1>1. /\ AllGood /\ wake \in BOOLEAN /\ pc \in {"poll", "out", "in", "end", "sleep"}
      /\ pc \in {"out", "in", "end"} => conn.live
  BY DEF Inv, AllGood
<1>2. stream \in StreamType /\ down \in ChannelType
  BY <1>1, AllTyped
<1>3. ASSUME AllGood', wake' \in BOOLEAN, pc' \in {"poll", "out", "in", "end", "sleep"},
             pc' \in {"out", "in", "end"} => conn'.live, Wakeful'
      PROVE  Inv'
  BY <1>3 DEF Inv, AllGood
<1>4. ASSUME AllGood', UNCHANGED <<conn, down, stream, wake, pc>> PROVE Inv'
  <2>1. Wakeful'
    BY <1>4 DEF Inv, Wakeful
  <2> QED
    BY <1>1, <1>3, <1>4, <2>1
<1>5. CASE Child
  <2>1. UNCHANGED <<conn, down, stream, wake, pc>>
    BY <1>5 DEF Child, ChildAckSyn, ChildSend, ChildClose, ChildReset, ChildTake, ChildFinAck,
                ChildRetransmit
  <2> QED
    BY <1>1, <1>4, <1>5, <2>1, ChildKeeps
<1>6. CASE TimeWaitExpires
  BY <1>1, <1>4, <1>6, TimeWaitKeeps DEF TimeWaitExpires
<1>7. CASE Ingress
  BY <1>1, <1>4, <1>7, IngressKeeps DEF Ingress
<1>8. CASE PollEnd
  <2>1. AllGood' /\ (pc' = "sleep" => ~conn'.live) /\ (pc' # "sleep" => pc' = "out" /\ conn'.live)
    BY <1>8, PollEndKeeps
  <2>2. wake' = wake
    BY <1>8 DEF PollEnd
  <2>3. Wakeful'
    BY <2>1 DEF Wakeful
  <2> QED
    BY <1>1, <1>3, <2>1, <2>2, <2>3
<1>9. CASE ServiceOut
  <2>1. AllGood' /\ conn'.live
    BY <1>9, ServiceOutKeeps
  <2>2. pc' = "out" /\ wake' = wake
    BY <1>9 DEF ServiceOut
  <2>3. Wakeful'
    BY <2>2 DEF Wakeful
  <2> QED
    BY <1>1, <1>3, <2>1, <2>2, <2>3
<1>10. CASE ServiceOutEnd
  <2>1. /\ AllGood' /\ conn'.live /\ conn'.pending_out = conn.pending_out
        /\ conn.pending_out = << >> /\ ~down.open => conn'.app_write_closed
        /\ conn.pending_out # << >> \/ down.q = << >>
    BY <1>10, ServiceOutEndKeeps
  <2>2. pc' = "in" /\ wake' = wake /\ down' = down
    BY <1>10 DEF ServiceOutEnd
  <2>3. Wakeful'
    BY <2>1, <2>2 DEF Wakeful
  <2> QED
    BY <1>1, <1>3, <2>1, <2>2, <2>3
<1>11. CASE ServiceIn
  <2>1. AllGood'
    BY <1>11, ServiceInKeeps
  <2> QED
    BY <1>4, <1>11, <2>1 DEF ServiceIn
<1>12. CASE ServiceInGone \/ ServiceInEnd
  <2>1. AllGood'
    BY <1>1, <1>12, ServiceInKeeps DEF ServiceInEnd, AllGood
  <2>2. pc = "in" /\ pc' = "end" /\ UNCHANGED <<conn, down, stream, wake>>
    BY <1>12 DEF ServiceInGone, ServiceInEnd
  <2>3. Wakeful'
    BY <2>2 DEF Inv, Wakeful
  <2> QED
    BY <1>1, <1>3, <2>1, <2>2, <2>3
<1>13. CASE ServiceEnd
  <2>1. AllGood' /\ (conn' = conn \/ ~conn'.live) /\ down'.q = down.q /\ down'.open = down.open
    BY <1>13, ServiceEndKeeps
  <2>2. pc = "end" /\ pc' = "sleep" /\ UNCHANGED <<stream, wake>>
    BY <1>13 DEF ServiceEnd
  <2>3. Wakeful'
    BY <2>1, <2>2 DEF Inv, Wakeful
  <2> QED
    BY <1>1, <1>3, <2>1, <2>2, <2>3
<1>14. CASE Wakeup
  <2>1. pc' = "poll" /\ wake' \in BOOLEAN /\ UNCHANGED <<child, wire, sock, conn, up, down, stream>>
    BY <1>1, <1>14 DEF Wakeup
  <2>2. AllGood' /\ Wakeful'
    BY <1>1, <2>1 DEF AllGood, Wakeful
  <2> QED
    BY <1>3, <2>1, <2>2
<1>15. CASE Read \/ ReadEof
  <2>1. AllGood'
    BY <1>1, <1>15, ReadKeeps, ReadEofKeeps
  <2>2. UNCHANGED <<conn, down, wake, pc>>
    BY <1>15 DEF Read, ReadEof
  <2>3. stream'.st = stream.st /\ stream'.notify = stream.notify
    BY <1>2, <1>15 DEF Read, ReadEof, StreamType
  <2>4. Wakeful'
    BY <2>2, <2>3 DEF Inv, Wakeful
  <2> QED
    BY <1>1, <1>3, <2>1, <2>2, <2>4
<1>16. CASE Write \/ Shutdown
  <2>1. AllGood'
    BY <1>1, <1>16, WriteKeeps, ShutdownKeeps
  <2>2. UNCHANGED <<conn, wake, pc>>
    BY <1>16 DEF Write, Shutdown
  <2>3. stream'.notify
    BY <1>2, <1>16 DEF Write, Shutdown, StreamType
  <2>4. Wakeful'
    BY <2>3 DEF Wakeful
  <2> QED
    BY <1>1, <1>3, <2>1, <2>2, <2>4
<1>17. CASE Notify
  <2>1. AllGood'
    BY <1>1, <1>17, NotifyKeeps
  <2>2. wake' = TRUE /\ UNCHANGED <<conn, pc>>
    BY <1>17 DEF Notify
  <2>3. Wakeful'
    BY <2>2 DEF Wakeful
  <2> QED
    BY <1>1, <1>3, <2>1, <2>2, <2>3
<1>18. CASE Drop
  <2>1. AllGood'
    BY <1>1, <1>18, ShutdownKeeps
  <2>2. UNCHANGED <<conn, wake, pc>>
    BY <1>18 DEF Drop
  <2>3. stream'.st = "dropped"
    BY <1>2, <1>18 DEF Drop, StreamType
  <2>4. Wakeful'
    BY <2>3 DEF Wakeful
  <2> QED
    BY <1>1, <1>3, <2>1, <2>2, <2>4
<1> QED
  BY <1>5, <1>6, <1>7, <1>8, <1>9, <1>10, <1>11, <1>12, <1>13, <1>14, <1>15, <1>16, <1>17, <1>18
  DEF Next, Stack, Proxy

(* One connection keeps its invariant, through every interleaving of the child,
   the loop and the proxy. *)
THEOREM Invariant == Spec => []Inv
<1>1. Init => Inv
  BY InitGood
<1>2. Inv /\ [Next]_vars => Inv'
  <2>1. ASSUME Inv, UNCHANGED vars PROVE Inv'
    BY <2>1 DEF Inv, Wakeful, vars
  <2> QED
    BY <2>1, StepKeeps
<1> QED
  BY <1>1, <1>2, PTL DEF Spec

(* service_conns, poll_read: the bytes of the child reach the proxy in order, none
   lost or repeated, through buffers and channels of any size. *)
THEOREM UpwardOrder == Spec => []UpInOrder
<1>1. Inv => UpInOrder
  <2> SUFFICES ASSUME Inv PROVE UpInOrder
    OBVIOUS
  <2> DEFINE n == EndOf(up.q, Len(stream.read) + Len(stream.read_rem))
  <2>1. n = Handed(up, stream)
    BY DEF Handed
  <2>2. AllGood
    BY DEF Inv, AllGood
  <2>3. wire \in Seq(Segment) /\ up \in ChannelType /\ stream \in StreamType
        /\ child \in ChildType /\ sock \in SockType
    BY <2>2, AllTyped
  <2>4. ASSUME stream.st # "dropped"
        PROVE  /\ Run(stream.read, 0) /\ Run(stream.read_rem, Len(stream.read))
               /\ Chunks(up.q, Len(stream.read) + Len(stream.read_rem))
               /\ conn.live => /\ Run(sock.rx, n)
                               /\ Queued(wire, "byte", n + Len(sock.rx), child.sent)
    <3>1. conn.live => sock.st # "Removed"
      BY <2>2 DEF AllGood, Good, Handshake
    <3> QED
      BY <2>1, <2>2, <2>4, <3>1 DEF AllGood, Good, Upward
  <2>5. ASSUME conn.live, stream.st # "dropped"
        PROVE  Wired("byte") = (n + Len(sock.rx) + 1)..child.sent
    <3>1. n \in Nat
      BY <2>1, <2>2, <2>3, <2>5, HandedNat DEF AllGood, Good
    <3> HIDE DEF n
    <3>2. Len(sock.rx) \in Nat /\ child.sent \in Nat
      BY <2>3 DEF SockType, ChildType
    <3>3. n + Len(sock.rx) \in Nat
      BY <3>1, <3>2
    <3>4. Queued(wire, "byte", n + Len(sock.rx), child.sent)
      BY <2>4, <2>5
    <3> DEFINE b == n + Len(sock.rx)
    <3> HIDE DEF b
    <3>5. b \in Nat /\ Queued(wire, "byte", b, child.sent)
      BY <3>3, <3>4 DEF b
    <3>6. wire \in Seq(Segment) /\ child.sent \in Nat
      BY <2>3, <3>2
    <3>7. Wired("byte") = (b + 1)..child.sent
      <4>1. BytesOf(wire, "byte") = (b + 1)..child.sent
        BY <3>5, <3>6, QueuedBytes
      <4> QED
        BY <4>1 DEF Wired, BytesOf
    <3> QED
      BY <3>7 DEF b
  <2> QED
    BY <2>4, <2>5 DEF UpInOrder
<1> QED
  BY <1>1, Invariant, PTL

(* stack.rs "surface EOF to the proxy": the end of the stream is never early. *)
THEOREM EofIsTrue == Spec => []EofIsEnd
<1>1. Inv => EofIsEnd
  <2> SUFFICES ASSUME Inv, stream.eof, stream.to_net, child.ended # "rst"
               PROVE  child.ended = "fin" /\ stream.read = FirstBytes(child.sent)
    BY DEF EofIsEnd
  <2>1. AllGood
    BY DEF Inv, AllGood
  <2>2. stream \in StreamType
    BY <2>1, AllTyped
  <2>3. stream.read \in Seq(Nat) /\ Len(stream.read) \in Nat
    BY <2>2 DEF StreamType
  <2>4. stream.read_rem = << >> /\ up.q = << >> /\ ~up.open /\ stream.st # "dropped"
    BY <2>1 DEF AllGood, Good, EndSeen, Closing
  <2>5. child.ended = "fin" /\ Handed(up, stream) = child.sent
    BY <2>1, <2>4 DEF AllGood, Good, EndSeen
  <2>6. Len(stream.read) = child.sent
    <3>1. Len(stream.read) + Len(stream.read_rem) = Len(stream.read)
      BY <2>3, <2>4
    <3> QED
      BY <2>4, <2>5, <3>1 DEF Handed, EndOf
  <2>7. Run(stream.read, 0)
    BY <2>1, <2>4 DEF AllGood, Good, Upward
  <2>8. \A i \in 1..Len(stream.read) : stream.read[i] = i
    BY <2>3, <2>7 DEF Run
  <2> QED
    BY <2>3, <2>5, <2>6, <2>8 DEF FirstBytes
<1> QED
  BY <1>1, Invariant, PTL

(* push_out: what the proxy writes reaches the child in order, and our FIN after
   all of it. *)
THEOREM DownwardOrder == Spec => []DownInOrder
<1>1. Inv => DownInOrder
  <2> SUFFICES ASSUME Inv PROVE DownInOrder
    OBVIOUS
  <2>1. AllGood
    BY DEF Inv, AllGood
  <2>2. /\ child \in ChildType /\ wire \in Seq(Segment) /\ sock \in SockType
        /\ stream \in StreamType
    BY <2>1, AllTyped
  <2>3. Run(child.taken, 0) /\ child.taken \in Seq(Nat) /\ Len(child.taken) \in Nat
    BY <2>1, <2>2 DEF AllGood, Good, Downward, ChildType
  <2>4. ASSUME conn.live
        PROVE  LET k == Len(child.taken)
                   m == k + (Len(sock.tx) - Count("taken"))
                   n == m + Len(conn.pending_out)
               IN /\ Run(From(sock.tx, Count("taken")), k)
                  /\ Run(conn.pending_out, m) /\ Chunks(down.q, n)
                  /\ EndOf(down.q, n) = stream.written
    <3>1. /\ conn \in ConnType /\ sock.st # "Removed" /\ sock.tx \in Seq(Nat)
          /\ Len(sock.tx) \in Nat
      BY <2>1, <2>4, ConnKnown DEF AllGood
    <3>2. PICK a \in Nat : DownFrom(a, child, wire, sock, conn, down, stream)
      BY <2>1, <3>1 DEF AllGood, Good, Downward
    <3> DEFINE t == Count("taken")
               k == Len(child.taken)
               l == Len(sock.tx)
    <3>3. t = k - a /\ a <= k
      BY <2>2, <3>2, CountTaken
    <3>4. Run(sock.tx, a) /\ k <= a + sock.out /\ sock.out <= l /\ sock.out \in Nat
      BY <2>2, <3>2 DEF DownFrom, SockType
    <3>5. k \in Nat /\ l \in Nat
      BY <2>3, <3>1
    <3> HIDE DEF t, k, l
    <3>6. t \in 0..l /\ a + t = k /\ k + (l - t) = a + l
      BY <3>3, <3>4, <3>5
    <3>7. Run(From(sock.tx, t), k)
      <4>1. t \in 0..Len(sock.tx)
        BY <3>6 DEF l
      <4>2. Run(From(sock.tx, t), a + t)
        BY <3>1, <3>4, <4>1, RunSplit
      <4> QED
        BY <3>6, <4>2
    <3>8. /\ Run(conn.pending_out, a + l) /\ Chunks(down.q, (a + l) + Len(conn.pending_out))
          /\ EndOf(down.q, (a + l) + Len(conn.pending_out)) = stream.written
      BY <2>4, <3>2 DEF DownFrom, l
    <3>9. /\ Run(conn.pending_out, k + (l - t))
          /\ Chunks(down.q, (k + (l - t)) + Len(conn.pending_out))
          /\ EndOf(down.q, (k + (l - t)) + Len(conn.pending_out)) = stream.written
      BY <3>6, <3>8
    <3> QED
      BY <3>7, <3>9 DEF t, k, l
  <2>5. ASSUME child.eof PROVE child.taken = FirstBytes(stream.written) /\ ~stream.to_net
    <3>1. Len(child.taken) = stream.written /\ ~stream.to_net
      BY <2>1, <2>5 DEF AllGood, Good, Downward, Closing
    <3>2. \A i \in 1..Len(child.taken) : child.taken[i] = i
      BY <2>3 DEF Run
    <3> QED
      BY <2>3, <3>1, <3>2, SMTT(60) DEF FirstBytes
  <2> QED
    BY <2>3, <2>4, <2>5 DEF DownInOrder
<1> QED
  BY <1>1, Invariant, PTL

(* stream.rs "wake is notified whenever the proxy writes / shuts down": no chunk
   and no shutdown is slept on. *)
THEOREM NoSleepingOnWork == Spec => []NoLostWakeup
<1>1. Inv => NoLostWakeup
  BY DEF Inv, Wakeful, NoLostWakeup
<1> QED
  BY <1>1, Invariant, PTL
=============================================================================
