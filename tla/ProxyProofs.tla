---------------------------- MODULE ProxyProofs ----------------------------
(***************************************************************************)
(* Proofs about Proxy: what rewrite_head makes of any head, and what the   *)
(* upstream receives for any requests, rules, limits and sizes of reads.   *)
(***************************************************************************)
EXTENDS Proxy, PicksProofs, SequenceTheorems

(* The tokens of a stream: those of the rules and the requests, and those the *)
(* proxy adds.                                                                *)
Piece == Token \cup {NL, Line("1.1"), Header("Connection", "close")}
Stream == Seq(Piece)

-----------------------------------------------------------------------------
(* Cutting a sequence in two, and putting two together *)

LEMMA Cut ==
    ASSUME NEW S, NEW s \in Seq(S), NEW n \in 0..Len(s)
    PROVE  /\ SubSeq(s, 1, n) \in Seq(S) /\ Len(SubSeq(s, 1, n)) = n
           /\ \A i \in 1..n : SubSeq(s, 1, n)[i] = s[i]
           /\ From(s, n) \in Seq(S) /\ Len(From(s, n)) = Len(s) - n
           /\ \A i \in 1..(Len(s) - n) : From(s, n)[i] = s[n + i]
           /\ SubSeq(s, 1, n) \o From(s, n) = s
<1>1. Len(s) \in Nat /\ n \in Nat /\ n <= Len(s) /\ \A i \in 1..Len(s) : s[i] \in S
  OBVIOUS
<1>2. SubSeq(s, 1, n) = [i \in 1..n |-> s[i]]
  <2>1. SubSeq(s, 1, n) = [i \in 1..(n - 1 + 1) |-> s[1 + i - 1]]
    BY <1>1
  <2> QED
    BY <1>1, <2>1
<1>3. SubSeq(s, 1, n) \in Seq(S) /\ Len(SubSeq(s, 1, n)) = n
  BY <1>1, <1>2
<1> DEFINE m == Len(s) - n
<1>4. From(s, n) = [i \in 1..m |-> s[n + i]]
  BY <1>1 DEF From
<1>5. From(s, n) \in Seq(S) /\ Len(From(s, n)) = m
  BY <1>1, <1>4
<1>6. SubSeq(s, 1, n) \o From(s, n) = s
  <2> DEFINE a == SubSeq(s, 1, n)
             b == From(s, n)
  <2>1. /\ a \in Seq(S) /\ Len(a) = n /\ \A i \in 1..n : a[i] = s[i]
        /\ b \in Seq(S) /\ Len(b) = m /\ \A i \in 1..m : b[i] = s[n + i]
    BY <1>2, <1>3, <1>4, <1>5
  <2> HIDE DEF a, b
  <2>a. a \o b \in Seq(S) /\ Len(a \o b) = Len(a) + Len(b)
    BY <2>1, ConcatProperties, ZenonT(60)
  <2>2. a \o b \in Seq(S) /\ Len(a \o b) = Len(s)
    BY <1>1, <2>1, <2>a
  <2>3. ASSUME NEW i \in 1..Len(s) PROVE (a \o b)[i] = s[i]
    <3>1. (a \o b)[i] = IF i <= Len(a) THEN a[i] ELSE b[i - Len(a)]
      BY <1>1, <2>1
    <3>2. i > n => i - n \in 1..m /\ n + (i - n) = i
      BY <1>1
    <3> QED
      BY <1>1, <2>1, <3>1, <3>2
  <2>4. a \o b = s
    BY <2>2, <2>3, SeqEqual
  <2> QED
    BY <2>4 DEF a, b
<1> QED
  BY <1>2, <1>3, <1>4, <1>5, <1>6

LEMMA Joined ==
    ASSUME NEW S, NEW s \in Seq(S), NEW t \in Seq(S)
    PROVE  /\ s \o t \in Seq(S) /\ Len(s \o t) = Len(s) + Len(t)
           /\ \A i \in 1..Len(s) : (s \o t)[i] = s[i]
           /\ \A i \in 1..Len(t) : (s \o t)[Len(s) + i] = t[i]
           /\ SubSeq(s \o t, 1, Len(s)) = s
           /\ From(s \o t, Len(s)) = t
<1> DEFINE n == Len(s)
           w == s \o t
<1>1. w \in Seq(S) /\ Len(w) = n + Len(t) /\ n \in Nat /\ Len(t) \in Nat
  OBVIOUS
<1>2. (\A i \in 1..n : w[i] = s[i]) /\ (\A i \in 1..Len(t) : w[n + i] = t[i])
  OBVIOUS
<1> HIDE DEF w, n
<1>3. n \in 0..Len(w) /\ Len(w) - n = Len(t)
  BY <1>1
<1>4. /\ SubSeq(w, 1, n) \in Seq(S) /\ Len(SubSeq(w, 1, n)) = n
      /\ \A i \in 1..n : SubSeq(w, 1, n)[i] = w[i]
      /\ From(w, n) \in Seq(S) /\ Len(From(w, n)) = Len(t)
      /\ \A i \in 1..Len(t) : From(w, n)[i] = w[n + i]
  BY <1>1, <1>3, Cut
<1>5. SubSeq(w, 1, n) = s
  BY <1>1, <1>2, <1>4, SeqEqual DEF n
<1>6. From(w, n) = t
  BY <1>1, <1>2, <1>4, SeqEqual
<1> QED
  BY <1>1, <1>2, <1>5, <1>6 DEF w, n

(* The first part of two parts, cut further on *)
LEMMA FromJoined ==
    ASSUME NEW S, NEW s \in Seq(S), NEW t \in Seq(S), NEW n \in 0..Len(s)
    PROVE  /\ From(s \o t, n) = From(s, n) \o t
           /\ SubSeq(s \o t, 1, n) = SubSeq(s, 1, n)
<1> DEFINE a == SubSeq(s, 1, n)
           b == From(s, n)
<1>1. a \in Seq(S) /\ b \in Seq(S) /\ Len(a) = n /\ a \o b = s
  BY Cut
<1> HIDE DEF a, b
<1>2. b \o t \in Seq(S)
  BY <1>1
<1>a. s \o t = a \o (b \o t)
  <2>0. a \in Seq(S) /\ b \in Seq(S)
    BY <1>1
  <2>1. (a \o b) \o t = a \o (b \o t)
    BY <2>0, ConcatAssociative, SMTT(60)
  <2> QED
    BY <1>1, <2>1
<1>3. From(a \o (b \o t), Len(a)) = b \o t /\ SubSeq(a \o (b \o t), 1, Len(a)) = a
  BY <1>1, <1>2, Joined
<1> QED
  BY <1>1, <1>a, <1>3 DEF a, b
-----------------------------------------------------------------------------
(* The end of a head *)

LEMMA FirstEnd ==
    ASSUME NEW S, NEW b \in Seq(S)
    PROVE  /\ find_headers_end(b) \in 0..Len(b)
           /\ find_headers_end(b) = 0 <=> HeadEnds(b) = {}
           /\ find_headers_end(b) # 0 => /\ find_headers_end(b) \in HeadEnds(b)
                                         /\ \A q \in HeadEnds(b) : find_headers_end(b) <= q
<1>1. HeadEnds(b) \in SUBSET Nat /\ Len(b) \in Nat /\ \A p \in HeadEnds(b) : p >= 2 /\ p <= Len(b)
  BY DEF HeadEnds
<1>2. CASE HeadEnds(b) = {}
  BY <1>1, <1>2 DEF find_headers_end
<1>3. CASE HeadEnds(b) # {}
  <2> DEFINE E == HeadEnds(b)
             x == CHOOSE p \in E : \A q \in E : p <= q
  <2> HIDE DEF E
  <2>1. \E p \in E : \A q \in E : p <= q
    BY <1>1, <1>3, LeastNatural DEF E
  <2>2. x \in E /\ \A q \in E : x <= q
    BY <2>1
  <2>3. find_headers_end(b) = x
    BY <1>3 DEF find_headers_end, E
  <2> HIDE DEF x
  <2> QED
    BY <1>1, <1>3, <2>2, <2>3 DEF E
<1> QED
  BY <1>2, <1>3

(* What follows does not move the end of a head. *)
LEMMA EndsJoined ==
    ASSUME NEW S, NEW a \in Seq(S), NEW b \in Seq(S)
    PROVE  /\ HeadEnds(a) = {p \in HeadEnds(a \o b) : p <= Len(a)}
           /\ find_headers_end(a) # 0 => find_headers_end(a \o b) = find_headers_end(a)
<1> DEFINE w == a \o b
<1>1. /\ w \in Seq(S) /\ Len(w) = Len(a) + Len(b) /\ Len(a) \in Nat /\ Len(b) \in Nat
      /\ \A i \in 1..Len(a) : w[i] = a[i]
  BY Joined
<1> HIDE DEF w
<1>2. ASSUME NEW p \in HeadEnds(a) PROVE p \in HeadEnds(w) /\ p <= Len(a)
  <2>1. p \in 2..Len(a) /\ a[p - 1] = NL /\ a[p] = NL
    BY DEF HeadEnds
  <2>2. p \in 2..Len(w) /\ p - 1 \in 1..Len(a) /\ p \in 1..Len(a)
    BY <1>1, <2>1
  <2>3. w[p - 1] = NL /\ w[p] = NL /\ p <= Len(a)
    BY <1>1, <2>1, <2>2
  <2> QED
    BY <2>2, <2>3 DEF HeadEnds
<1>3. ASSUME NEW p \in HeadEnds(w), p <= Len(a) PROVE p \in HeadEnds(a)
  <2>1. p \in 2..Len(w) /\ w[p - 1] = NL /\ w[p] = NL
    BY DEF HeadEnds
  <2>2. p \in 2..Len(a) /\ p - 1 \in 1..Len(a) /\ p \in 1..Len(a)
    BY <1>1, <1>3, <2>1
  <2> QED
    BY <1>1, <2>1, <2>2 DEF HeadEnds
<1>4. HeadEnds(a) = {p \in HeadEnds(w) : p <= Len(a)}
  BY <1>2, <1>3
<1>5. ASSUME find_headers_end(a) # 0 PROVE find_headers_end(w) = find_headers_end(a)
  <2> DEFINE p == find_headers_end(a)
             q == find_headers_end(w)
  <2>1. p \in HeadEnds(a) /\ p \in 0..Len(a) /\ \A x \in HeadEnds(a) : p <= x
    BY <1>5, FirstEnd
  <2>2. p \in HeadEnds(w)
    BY <1>2, <2>1
  <2>3. q \in HeadEnds(w) /\ q \in 0..Len(w) /\ \A x \in HeadEnds(w) : q <= x
    <3>1. HeadEnds(w) # {}
      BY <2>2
    <3> QED
      BY <1>1, <3>1, FirstEnd
  <2> HIDE DEF p, q
  <2>4. q <= p
    BY <2>2, <2>3
  <2>5. q \in HeadEnds(a)
    BY <1>1, <1>3, <2>1, <2>3, <2>4
  <2>6. p = q
    BY <1>1, <2>1, <2>3, <2>4, <2>5
  <2> QED
    BY <2>6 DEF p, q
<1> QED
  BY <1>4, <1>5 DEF w

(* A head ends where it was found to end. *)
LEMMA EndOfHead ==
    ASSUME NEW S, NEW b \in Seq(S), find_headers_end(b) # 0
    PROVE  LET p == find_headers_end(b)
               h == SubSeq(b, 1, p)
           IN h \in Seq(S) /\ Len(h) = p /\ find_headers_end(h) = p
<1> DEFINE p == find_headers_end(b)
           h == SubSeq(b, 1, p)
           r == From(b, p)
<1>1. p \in 0..Len(b) /\ p \in HeadEnds(b)
  BY FirstEnd
<1>2. h \in Seq(S) /\ r \in Seq(S) /\ Len(h) = p /\ h \o r = b
  BY <1>1, Cut
<1> HIDE DEF h, r
<1>3. p \in HeadEnds(h)
  <2>0. h \in Seq(S) /\ r \in Seq(S)
    BY <1>2
  <2>1. HeadEnds(h) = {q \in HeadEnds(h \o r) : q <= Len(h)}
    BY <2>0, EndsJoined, ZenonT(60)
  <2>2. p <= p
    BY <1>1
  <2> QED
    BY <1>1, <1>2, <2>1, <2>2
<1>4. find_headers_end(h) # 0
  BY <1>2, <1>3, FirstEnd
<1>5. find_headers_end(h \o r) = find_headers_end(h)
  BY <1>2, <1>4, EndsJoined
<1> QED
  BY <1>2, <1>5 DEF h
-----------------------------------------------------------------------------
(* A head of some headers *)

Headers(hs) == hs \in Stream /\ \A i \in DOMAIN hs : hs[i].t = "hdr"

LEMMA HeadedShape ==
    ASSUME NEW hs \in Stream
    PROVE  LET out == Headed(hs)
               n == Len(hs)
           IN /\ out \in Stream /\ Len(out) = 2 * n + 3 /\ n \in Nat
              /\ out[1] = Line("1.1") /\ out[2 * n + 3] = NL
              /\ \A i \in 1..(n + 1) : out[2 * i] = NL
              /\ \A i \in 1..n : out[2 * i + 1] = hs[i]
<1> DEFINE n == Len(hs)
           a == <<Line("1.1"), NL>>
           b == [i \in 1..(2 * n) |-> IF i % 2 = 1 THEN hs[(i + 1) \div 2] ELSE NL]
           c == <<NL>>
           ab == a \o b
           out == ab \o c
<1>1. n \in Nat /\ 2 * n \in Nat /\ \A i \in 1..n : hs[i] \in Piece
  BY DEF Stream
<1> HIDE DEF n
<1>2. Line("1.1") \in Piece /\ NL \in Piece
  BY DEF Piece
<1>3. a \in Stream /\ Len(a) = 2 /\ a[1] = Line("1.1") /\ a[2] = NL
  BY <1>2 DEF Stream
<1>4. c \in Stream /\ Len(c) = 1 /\ c[1] = NL
  BY <1>2 DEF Stream
<1>5. ASSUME NEW i \in 1..(2 * n) PROVE i % 2 = 1 => (i + 1) \div 2 \in 1..n
  BY <1>1
<1>6. b \in [1..(2 * n) -> Piece]
  BY <1>1, <1>2, <1>5
<1>7. b \in Stream /\ Len(b) = 2 * n
  BY <1>1, <1>6 DEF Stream
<1>8. \A i \in 1..n : b[2 * i - 1] = hs[i] /\ b[2 * i] = NL
  <2> SUFFICES ASSUME NEW i \in 1..n PROVE b[2 * i - 1] = hs[i] /\ b[2 * i] = NL
    OBVIOUS
  <2>1. 2 * i - 1 \in 1..(2 * n) /\ 2 * i \in 1..(2 * n)
    BY <1>1
  <2>2. (2 * i - 1) % 2 = 1 /\ (2 * i - 1 + 1) \div 2 = i /\ (2 * i) % 2 = 0
    BY <1>1
  <2> QED
    BY <2>1, <2>2
<1> HIDE DEF a, b, c
<1>9. /\ ab \in Stream /\ Len(ab) = 2 + 2 * n /\ ab[1] = a[1] /\ ab[2] = a[2]
      /\ \A i \in 1..(2 * n) : ab[2 + i] = b[i]
  <2>1. /\ ab \in Stream /\ Len(ab) = Len(a) + Len(b)
        /\ \A i \in 1..Len(a) : ab[i] = a[i]
        /\ \A i \in 1..Len(b) : ab[Len(a) + i] = b[i]
    <3>1. a \in Seq(Piece) /\ b \in Seq(Piece)
      BY <1>3, <1>7 DEF Stream
    <3> QED
      BY <3>1, Joined DEF Stream
  <2> HIDE DEF ab
  <2> QED
    BY <1>1, <1>3, <1>7, <2>1
<1> HIDE DEF ab
<1>10. /\ out \in Stream /\ Len(out) = 2 + 2 * n + 1
       /\ \A i \in 1..(2 + 2 * n) : out[i] = ab[i]
       /\ out[2 + 2 * n + 1] = c[1]
  <2>1. /\ out \in Stream /\ Len(out) = Len(ab) + Len(c)
        /\ \A i \in 1..Len(ab) : out[i] = ab[i]
        /\ \A i \in 1..Len(c) : out[Len(ab) + i] = c[i]
    BY <1>4, <1>9, Joined DEF Stream
  <2> HIDE DEF out
  <2> QED
    BY <1>1, <1>4, <1>9, <2>1
<1>11. out = Headed(hs)
  BY DEF Headed, a, b, c, ab, n
<1> HIDE DEF out
<1>12. out[1] = Line("1.1") /\ out[2 * n + 3] = NL
  BY <1>1, <1>3, <1>4, <1>9, <1>10
<1>13. ASSUME NEW i \in 1..n PROVE out[2 * i + 1] = hs[i]
  <2>1. 2 * i - 1 \in 1..(2 * n) /\ 2 + (2 * i - 1) = 2 * i + 1 /\ 2 * i + 1 \in 1..(2 + 2 * n)
    BY <1>1
  <2> QED
    BY <1>8, <1>9, <1>10, <2>1
<1>14. ASSUME NEW i \in 1..(n + 1) PROVE out[2 * i] = NL
  <2>1. CASE i = 1
    BY <1>1, <1>3, <1>9, <1>10, <2>1
  <2>2. CASE i # 1
    <3> DEFINE j == i - 1
    <3>1. j \in 1..n /\ 2 * j \in 1..(2 * n) /\ 2 + 2 * j = 2 * i /\ 2 * i \in 1..(2 + 2 * n)
      BY <1>1, <2>2
    <3> HIDE DEF j
    <3> QED
      BY <1>8, <1>9, <1>10, <3>1
  <2> QED
    BY <2>1, <2>2
<1>15. Len(out) = 2 * n + 3
  BY <1>1, <1>10
<1> QED
  BY <1>1, <1>10, <1>11, <1>12, <1>13, <1>14, <1>15 DEF n
LEMMA OddEven ==
    ASSUME NEW n \in Nat, NEW p \in 1..(2 * n + 3)
    PROVE  \/ p = 1 \/ p = 2 * n + 3
           \/ \E i \in 1..(n + 1) : p = 2 * i
           \/ \E i \in 1..n : p = 2 * i + 1
<1>1. PICK i \in Nat : p = 2 * i \/ p = 2 * i + 1
  <2>1. p \div 2 \in Nat /\ (p = 2 * (p \div 2) \/ p = 2 * (p \div 2) + 1)
    OBVIOUS
  <2> QED
    BY <2>1
<1>2. CASE p = 2 * i
  <2>1. i \in 1..(n + 1)
    BY <1>2
  <2> QED
    BY <1>2, <2>1
<1>3. CASE p = 2 * i + 1
  <2>1. i = 0 \/ i = n + 1 \/ i \in 1..n
    BY <1>3
  <2>2. i = n + 1 => p = 2 * n + 3
    BY <1>3
  <2>3. i = 0 => p = 1
    BY <1>3
  <2> QED
    BY <1>3, <2>1, <2>2, <2>3
<1> QED
  BY <1>1, <1>2, <1>3

(* It ends with its last line. *)
LEMMA HeadedEnd ==
    ASSUME NEW hs, Headers(hs)
    PROVE  find_headers_end(Headed(hs)) = Len(Headed(hs)) /\ Len(Headed(hs)) > 0
<1> DEFINE out == Headed(hs)
           n == Len(hs)
           e == 2 * n + 3
<1>1. /\ out \in Stream /\ Len(out) = e /\ n \in Nat
      /\ out[1] = Line("1.1") /\ out[e] = NL
      /\ \A i \in 1..(n + 1) : out[2 * i] = NL
      /\ \A i \in 1..n : out[2 * i + 1] = hs[i]
  BY HeadedShape DEF Headers
<1>2. \A i \in 1..n : hs[i].t = "hdr"
  BY DEF Headers, Stream
<1> HIDE DEF out, n
<1>3. NL.t = "nl" /\ Line("1.1").t = "line"
  BY DEF NL, Line
<1>4. e \in HeadEnds(out)
  <2>1. n + 1 \in 1..(n + 1) /\ 2 * (n + 1) = e - 1 /\ e \in 2..Len(out)
    BY <1>1
  <2>2. out[2 * (n + 1)] = NL
    BY <1>1, <2>1
  <2> QED
    BY <1>1, <2>1, <2>2 DEF HeadEnds
<1>5. ASSUME NEW p \in HeadEnds(out) PROVE p = e
  <2>1. p \in 2..e /\ out[p - 1] = NL /\ out[p] = NL
    BY <1>1 DEF HeadEnds
  <2>2. p \in 1..e /\ p # 1
    BY <1>1, <2>1
  <2>3. ~ \E i \in 1..n : p = 2 * i + 1
    BY <1>1, <1>2, <1>3, <2>1
  <2>4. ASSUME NEW i \in 1..(n + 1), p = 2 * i PROVE FALSE
    <3>1. i = 1 => p - 1 = 1
      BY <2>4
    <3>2. i # 1 => i - 1 \in 1..n /\ p - 1 = 2 * (i - 1) + 1
      BY <1>1, <2>4
    <3>3. i # 1 => out[p - 1] = hs[i - 1] /\ hs[i - 1].t = "hdr"
      BY <1>1, <1>2, <3>2
    <3> QED
      BY <1>1, <1>3, <2>1, <3>1, <3>3
  <2> QED
    BY <1>1, <2>2, <2>3, <2>4, OddEven
<1>6. find_headers_end(out) \in HeadEnds(out)
  BY <1>1, <1>4, FirstEnd DEF Stream
<1>7. find_headers_end(out) = Len(out) /\ Len(out) > 0
  BY <1>1, <1>5, <1>6
<1> QED
  BY <1>7 DEF out

(* Its headers are those it was made of, in their order. *)
LEMMA HeadedValues ==
    ASSUME NEW hs, Headers(hs), NEW name
    PROVE  Values(Headed(hs), name) = Values(hs, name)
<1> DEFINE out == Headed(hs)
           n == Len(hs)
           I == Named(hs, {name})
           J == Named(out, {name})
           f == [i \in I |-> 2 * i + 1]
<1>1. /\ out \in Stream /\ Len(out) = 2 * n + 3 /\ n \in Nat
      /\ out[1] = Line("1.1") /\ out[2 * n + 3] = NL
      /\ \A i \in 1..(n + 1) : out[2 * i] = NL
      /\ \A i \in 1..n : out[2 * i + 1] = hs[i]
  BY HeadedShape DEF Headers
<1>2. \A i \in 1..n : hs[i].t = "hdr"
  BY DEF Headers, Stream
<1>3. NL.t = "nl" /\ Line("1.1").t = "line"
  BY DEF NL, Line
<1>a. DOMAIN hs = 1..n /\ DOMAIN out = 1..(2 * n + 3)
  BY <1>1 DEF Headers, Stream
<1> HIDE DEF out, n
<1>4. \A i : i \in I <=> i \in 1..n /\ Lower[hs[i].n] = name
  BY <1>2, <1>a DEF Named, headers
<1>5. \A p : p \in J <=> p \in 1..(2 * n + 3) /\ out[p].t = "hdr" /\ Lower[out[p].n] = name
  BY <1>a DEF Named, headers
<1> HIDE DEF I, J
<1>6. ASSUME NEW i \in I PROVE 2 * i + 1 \in J
  <2>1. i \in 1..n /\ 2 * i + 1 \in 1..(2 * n + 3)
    BY <1>1, <1>4
  <2>2. out[2 * i + 1] = hs[i] /\ hs[i].t = "hdr" /\ Lower[hs[i].n] = name
    BY <1>1, <1>2, <1>4, <2>1
  <2> QED
    BY <1>5, <2>1, <2>2
<1>7. ASSUME NEW p \in J PROVE \E i \in I : p = 2 * i + 1
  <2>1. p \in 1..(2 * n + 3) /\ out[p].t = "hdr" /\ Lower[out[p].n] = name
    BY <1>5
  <2>2. p # 1 /\ p # 2 * n + 3 /\ ~ \E i \in 1..(n + 1) : p = 2 * i
    BY <1>1, <1>3, <2>1
  <2>3. PICK i \in 1..n : p = 2 * i + 1
    BY <1>1, <2>1, <2>2, OddEven
  <2>4. out[p] = hs[i]
    BY <1>1, <2>3
  <2>5. i \in I
    BY <1>4, <2>1, <2>3, <2>4
  <2> QED
    BY <2>3, <2>5
<1>8. f \in [I -> J]
  BY <1>6
<1>9. \A x, y \in I : x < y => f[x] < f[y]
  BY <1>1, <1>4
<1>10. \A p \in J : \E i \in I : f[i] = p
  BY <1>7
<1>11. \A i \in I : out[f[i]] = hs[i]
  BY <1>1, <1>4
<1>12. I \in SUBSET DOMAIN hs /\ J \in SUBSET DOMAIN out
  BY <1>4, <1>5, <1>a
<1>13. hs \in Seq(Piece) /\ out \in Seq(Piece)
  BY <1>1 DEF Headers, Stream
<1> HIDE DEF f
<1>14. Pick(hs, I) = Pick(out, J)
  BY <1>8, <1>9, <1>10, <1>11, <1>12, <1>13, PickAlong, SMTT(60)
<1> QED
  BY <1>14 DEF Values, I, J, out
-----------------------------------------------------------------------------
(* The values of a name in a sequence made of two *)

LEMMA ValuesOfSecond ==
    ASSUME NEW a \in Stream, NEW b \in Stream, NEW name, Named(a, {name}) = {}
    PROVE  Values(a \o b, name) = Values(b, name)
<1> DEFINE w == a \o b
           n == Len(a)
           I == Named(b, {name})
           J == Named(w, {name})
           f == [i \in I |-> n + i]
<1>1. /\ w \in Stream /\ Len(w) = n + Len(b) /\ n \in Nat /\ Len(b) \in Nat
      /\ \A i \in 1..n : w[i] = a[i]
      /\ \A i \in 1..Len(b) : w[n + i] = b[i]
  BY Joined DEF Stream
<1>2. DOMAIN a = 1..n /\ DOMAIN b = 1..Len(b) /\ DOMAIN w = 1..Len(w)
  BY <1>1 DEF Stream
<1> HIDE DEF w, n
<1>3. \A i : i \in I <=> i \in 1..Len(b) /\ b[i].t = "hdr" /\ Lower[b[i].n] = name
  BY <1>2 DEF Named, headers
<1>4. \A i : i \in J <=> i \in 1..Len(w) /\ w[i].t = "hdr" /\ Lower[w[i].n] = name
  BY <1>2 DEF Named, headers
<1>5. \A i \in 1..n : ~(a[i].t = "hdr" /\ Lower[a[i].n] = name)
  BY <1>2 DEF Named, headers
<1> HIDE DEF I, J
<1>6. ASSUME NEW i \in I PROVE n + i \in J
  <2>1. n + i \in 1..Len(w) /\ w[n + i] = b[i]
    BY <1>1, <1>3
  <2> QED
    BY <1>3, <1>4, <2>1
<1>7. ASSUME NEW p \in J PROVE \E i \in I : p = n + i
  <2>1. p \in 1..Len(w) /\ w[p].t = "hdr" /\ Lower[w[p].n] = name
    BY <1>4
  <2>2. p \notin 1..n
    BY <1>1, <1>5, <2>1
  <2>3. p - n \in 1..Len(b) /\ p = n + (p - n)
    BY <1>1, <2>1, <2>2
  <2>4. w[p] = b[p - n]
    BY <1>1, <2>3
  <2>5. p - n \in I
    BY <1>3, <2>1, <2>3, <2>4
  <2> QED
    BY <2>3, <2>5
<1>8. f \in [I -> J] /\ \A i \in I : f[i] = n + i
  BY <1>6
<1> HIDE DEF f
<1>9. \A x, y \in I : x < y => f[x] < f[y]
  BY <1>1, <1>3, <1>8
<1>10. \A p \in J : \E i \in I : f[i] = p
  BY <1>7, <1>8
<1>11. \A i \in I : w[f[i]] = b[i]
  BY <1>1, <1>3, <1>8
<1>12. I \in SUBSET DOMAIN b /\ J \in SUBSET DOMAIN w
  BY <1>2, <1>3, <1>4
<1>13. b \in Seq(Piece) /\ w \in Seq(Piece)
  BY <1>1 DEF Stream
<1>14. Pick(b, I) = Pick(w, J)
  BY <1>8, <1>9, <1>10, <1>11, <1>12, <1>13, PickAlong, SMTT(60)
<1> QED
  BY <1>14 DEF Values, I, J, w

LEMMA ValuesOfFirst ==
    ASSUME NEW a \in Stream, NEW b \in Stream, NEW name, Named(b, {name}) = {}
    PROVE  Values(a \o b, name) = Values(a, name)
<1> DEFINE w == a \o b
           n == Len(a)
           I == Named(a, {name})
           J == Named(w, {name})
           f == [i \in I |-> i]
<1>1. /\ w \in Stream /\ Len(w) = n + Len(b) /\ n \in Nat /\ Len(b) \in Nat
      /\ \A i \in 1..n : w[i] = a[i]
      /\ \A i \in 1..Len(b) : w[n + i] = b[i]
  BY Joined DEF Stream
<1>2. DOMAIN a = 1..n /\ DOMAIN b = 1..Len(b) /\ DOMAIN w = 1..Len(w)
  BY <1>1 DEF Stream
<1> HIDE DEF w, n
<1>3. \A i : i \in I <=> i \in 1..n /\ a[i].t = "hdr" /\ Lower[a[i].n] = name
  BY <1>2 DEF Named, headers
<1>4. \A i : i \in J <=> i \in 1..Len(w) /\ w[i].t = "hdr" /\ Lower[w[i].n] = name
  BY <1>2 DEF Named, headers
<1>5. \A i \in 1..Len(b) : ~(b[i].t = "hdr" /\ Lower[b[i].n] = name)
  BY <1>2 DEF Named, headers
<1> HIDE DEF I, J
<1>6. ASSUME NEW i \in I PROVE i \in J
  <2>1. i \in 1..Len(w) /\ w[i] = a[i]
    BY <1>1, <1>3
  <2> QED
    BY <1>3, <1>4, <2>1
<1>7. ASSUME NEW p \in J PROVE p \in I
  <2>1. p \in 1..Len(w) /\ w[p].t = "hdr" /\ Lower[w[p].n] = name
    BY <1>4
  <2>2. p \in 1..n
    <3> SUFFICES ASSUME p \notin 1..n PROVE FALSE
      OBVIOUS
    <3>1. p - n \in 1..Len(b) /\ p = n + (p - n)
      BY <1>1, <2>1
    <3>2. w[p] = b[p - n]
      BY <1>1, <3>1
    <3> QED
      BY <1>5, <2>1, <3>1, <3>2
  <2>3. w[p] = a[p]
    BY <1>1, <2>2
  <2> QED
    BY <1>3, <2>1, <2>2, <2>3
<1>8. f \in [I -> J] /\ \A i \in I : f[i] = i
  BY <1>6
<1> HIDE DEF f
<1>9. \A x, y \in I : x < y => f[x] < f[y]
  BY <1>8
<1>10. \A p \in J : \E i \in I : f[i] = p
  BY <1>7, <1>8
<1>11. \A i \in I : w[f[i]] = a[i]
  BY <1>1, <1>3, <1>8
<1>12. I \in SUBSET DOMAIN a /\ J \in SUBSET DOMAIN w
  BY <1>2, <1>3, <1>4
<1>13. a \in Seq(Piece) /\ w \in Seq(Piece)
  BY <1>1 DEF Stream
<1>14. Pick(a, I) = Pick(w, J)
  BY <1>8, <1>9, <1>10, <1>11, <1>12, <1>13, PickAlong, SMTT(60)
<1> QED
  BY <1>14 DEF Values, I, J, w
-----------------------------------------------------------------------------
(* rewrite_head *)

(* A name that is neither set nor about the connection keeps its values; the   *)
(* others have none left.                                                      *)
LEMMA KeptHeaders ==
    ASSUME NEW head \in Stream, NEW ov
    PROVE  LET kept == Kept(head, ov)
               gone == Names(ov) \cup DROP
           IN /\ Headers(kept)
              /\ \A name \in gone : Named(kept, {name}) = {}
              /\ \A name : name \notin gone => Values(kept, name) = Values(head, name)
<1> DEFINE gone == Names(ov) \cup DROP
           K == headers(head) \ Named(head, gone)
           kept == Pick(head, K)
           c == Cardinality(K)
<1>1. head \in Seq(Piece) /\ DOMAIN head = 1..Len(head) /\ Len(head) \in Nat
  BY DEF Stream
<1> HIDE DEF gone
<1>2. \A i : i \in K <=> i \in DOMAIN head /\ head[i].t = "hdr" /\ Lower[head[i].n] \notin gone
  BY DEF Named, headers
<1> HIDE DEF K
<1>3. K \in SUBSET DOMAIN head
  BY <1>2
<1>4. /\ kept \in Seq(Piece) /\ DOMAIN kept = 1..c
      /\ \A k \in 1..c : Nth(K, k) \in K /\ kept[k] = head[Nth(K, k)]
      /\ \A i \in K : \E k \in 1..c : Nth(K, k) = i
  BY <1>1, <1>3, PickElements
<1>5. \A j, k \in 1..c : j < k => Nth(K, j) < Nth(K, k)
  BY <1>1, <1>3, NthOrder
<1>6. kept = Kept(head, ov)
  BY DEF Kept, K, gone
<1>7. \A k \in 1..c : kept[k].t = "hdr" /\ Lower[kept[k].n] \notin gone
  BY <1>2, <1>4
<1> HIDE DEF kept, c
<1>8. Headers(kept)
  BY <1>4, <1>7 DEF Headers, Stream
<1>9. \A name \in gone : Named(kept, {name}) = {}
  BY <1>4, <1>7 DEF Named, headers
<1>10. ASSUME NEW name, name \notin gone PROVE Values(kept, name) = Values(head, name)
  <2> DEFINE I == Named(kept, {name})
             J == Named(head, {name})
             f == [k \in I |-> Nth(K, k)]
  <2>1. \A k : k \in I <=> k \in 1..c /\ Lower[kept[k].n] = name
    BY <1>4, <1>7 DEF Named, headers
  <2>2. \A i : i \in J <=> i \in K /\ Lower[head[i].n] = name
    BY <1>2, <1>10 DEF Named, headers
  <2> HIDE DEF I, J
  <2>3. f \in [I -> J] /\ \A k \in I : f[k] = Nth(K, k)
    BY <1>4, <2>1, <2>2
  <2> HIDE DEF f
  <2>4. \A x, y \in I : x < y => f[x] < f[y]
    BY <1>5, <2>1, <2>3
  <2>5. ASSUME NEW i \in J PROVE \E k \in I : f[k] = i
    <3>1. PICK k \in 1..c : Nth(K, k) = i
      BY <1>4, <2>2
    <3>2. k \in I
      BY <1>4, <2>1, <2>2, <3>1
    <3> QED
      BY <2>3, <3>1, <3>2
  <2>6. \A k \in I : head[f[k]] = kept[k]
    BY <1>4, <2>1, <2>3
  <2>7. I \in SUBSET DOMAIN kept /\ J \in SUBSET DOMAIN head
    BY <1>3, <1>4, <2>1, <2>2
  <2>8. kept \in Seq(Piece)
    BY <1>4
  <2>9. f \in [I -> J] /\ head \in Seq(Piece) /\ \A i \in J : \E k \in I : f[k] = i
    BY <1>1, <2>3, <2>5
  <2>10. Pick(kept, I) = Pick(head, J)
    BY <2>4, <2>6, <2>7, <2>8, <2>9, PickAlong, SMTT(60)
  <2> QED
    BY <2>10 DEF Values, I, J
<1> QED
  BY <1>6, <1>8, <1>9, <1>10 DEF gone

LEMMA NamedByNames ==
    ASSUME NEW hs, Headers(hs), NEW name
    PROVE  Named(hs, {name}) = {} <=> name \notin Names(hs)
<1>1. \A i : i \in Named(hs, {name}) <=> i \in DOMAIN hs /\ Lower[hs[i].n] = name
  BY DEF Headers, Named, headers
<1>2. name \in Names(hs) <=> \E i \in DOMAIN hs : Lower[hs[i].n] = name
  BY DEF Names
<1> QED
  BY <1>1, <1>2

LEMMA HeadersJoined ==
    ASSUME NEW a, NEW b, Headers(a), Headers(b)
    PROVE  Headers(a \o b)
<1> DEFINE w == a \o b
<1>1. a \in Seq(Piece) /\ b \in Seq(Piece)
  BY DEF Headers, Stream
<1>2. /\ w \in Seq(Piece) /\ Len(w) = Len(a) + Len(b) /\ Len(a) \in Nat /\ Len(b) \in Nat
      /\ \A i \in 1..Len(a) : w[i] = a[i]
      /\ \A i \in 1..Len(b) : w[Len(a) + i] = b[i]
  BY <1>1, Joined
<1>3. DOMAIN w = 1..Len(w)
  BY <1>2
<1>4. (\A i \in 1..Len(a) : a[i].t = "hdr") /\ (\A i \in 1..Len(b) : b[i].t = "hdr")
  BY <1>1 DEF Headers
<1> HIDE DEF w
<1>5. ASSUME NEW i \in 1..Len(w) PROVE w[i].t = "hdr"
  <2>1. CASE i \in 1..Len(a)
    BY <1>2, <1>4, <2>1
  <2>2. CASE i \notin 1..Len(a)
    <3>1. i - Len(a) \in 1..Len(b) /\ i = Len(a) + (i - Len(a))
      BY <1>2, <2>2
    <3>2. w[i] = b[i - Len(a)]
      BY <1>2, <3>1
    <3> QED
      BY <1>4, <3>1, <3>2
  <2> QED
    BY <2>1, <2>2
<1>6. Headers(w)
  BY <1>2, <1>3, <1>5 DEF Headers, Stream
<1> QED
  BY <1>6 DEF w

(* Connection: close, and nothing else *)
LEMMA ClosingHeader ==
    ASSUME NEW ov
    PROVE  LET cl == Closing(ov)
           IN /\ Headers(cl)
              /\ \A name : (name # "connection" \/ "connection" \in Names(ov)) => Named(cl, {name}) = {}
              /\ "connection" \notin Names(ov) => \E i \in DOMAIN Values(cl, "connection") :
                                                      Values(cl, "connection")[i] = "close"
<1> DEFINE h == Header("Connection", "close")
           cl == <<h>>
<1>1. h \in Piece /\ h.t = "hdr" /\ h.n = "Connection" /\ h.v = "close"
  BY DEF Piece, Header
<1>2. Lower["Connection"] = "connection"
  BY HeadAssumption
<1>3. CASE "connection" \in Names(ov)
  <2>1. Closing(ov) = << >>
    BY <1>3 DEF Closing
  <2>2. << >> \in Stream /\ DOMAIN << >> = {}
    BY DEF Stream
  <2>3. Headers(<< >>)
    BY <2>2 DEF Headers
  <2>4. \A name : Named(<< >>, {name}) = {}
    BY <2>2 DEF Named, headers
  <2> QED
    BY <1>3, <2>1, <2>3, <2>4
<1>4. CASE "connection" \notin Names(ov)
  <2>1. Closing(ov) = cl
    BY <1>4 DEF Closing
  <2> HIDE DEF h
  <2>2. cl \in Seq(Piece) /\ DOMAIN cl = {1} /\ cl[1] = h
    BY <1>1
  <2> HIDE DEF cl
  <2>3. Headers(cl)
    BY <1>1, <2>2 DEF Headers, Stream
  <2>4. \A name : name # "connection" => Named(cl, {name}) = {}
    BY <1>1, <1>2, <2>2 DEF Named, headers
  <2>5. 1 \in Named(cl, {"connection"}) /\ Named(cl, {"connection"}) \in SUBSET DOMAIN cl
    BY <1>1, <1>2, <2>2 DEF Named, headers
  <2> DEFINE I == Named(cl, {"connection"})
  <2> HIDE DEF I
  <2>6. PICK k \in DOMAIN Pick(cl, I) : Pick(cl, I)[k] = cl[1]
    BY <2>2, <2>5, PickElements DEF I
  <2>7. k \in DOMAIN Values(cl, "connection") /\ Values(cl, "connection")[k] = "close"
    BY <1>1, <2>2, <2>6 DEF Values, I
  <2> QED
    BY <1>4, <2>1, <2>3, <2>4, <2>7
<1> QED
  BY <1>3, <1>4
LEMMA MatchingRule ==
    ASSUME NEW h, matching(h) # 0
    PROVE  /\ matching(h) \in DOMAIN Rules
           /\ Headers(Rules[matching(h)].headers)
<1> DEFINE found == {i \in DOMAIN Rules : host_matches(Rules[i].host, h)}
           m == CHOOSE i \in found : \A j \in found : i <= j
<1>1. Rules \in Seq([host : STRING, headers : Seq(Token)])
  BY HeadAssumption
<1>2. found # {} /\ matching(h) = m
  BY DEF matching
<1>3. found \in SUBSET Nat /\ found \in SUBSET DOMAIN Rules
  BY <1>1
<1> HIDE DEF found
<1>4. \E i \in found : \A j \in found : i <= j
  BY <1>2, <1>3, LeastNatural
<1>5. m \in found
  BY <1>4
<1> HIDE DEF m
<1>6. m \in DOMAIN Rules /\ Rules[m].headers \in Seq(Token)
  <2>1. m \in DOMAIN Rules
    BY <1>3, <1>5
  <2>2. Rules[m] \in [host : STRING, headers : Seq(Token)]
    <3> DEFINE X == [host : STRING, headers : Seq(Token)]
    <3>1. Rules \in Seq(X)
      BY <1>1
    <3> HIDE DEF X
    <3>2. Rules[m] \in X
      BY <2>1, <3>1
    <3> QED
      BY <3>2 DEF X
  <2> QED
    BY <2>1, <2>2
<1>7. Rules[m].headers \in Stream
  <2>1. Token \subseteq Piece
    BY DEF Piece
  <2>2. Seq(Token) \subseteq Stream
    BY <2>1, SeqMonotonic DEF Stream
  <2> QED
    BY <1>6, <2>2
<1>8. \A k \in DOMAIN Rules[m].headers : Rules[m].headers[k].t = "hdr"
  BY <1>6, HeadAssumption
<1> QED
  BY <1>2, <1>6, <1>7, <1>8 DEF Headers

(* What a request is rewritten to: a head again, with the values of every name *)
(* as RewrittenAs says, that asks to close unless the rule has its own say.    *)
LEMMA RewriteHead ==
    ASSUME NEW head \in Stream, find_headers_end(head) = Len(head), head # << >>
    PROVE  LET out == rewrite_head(head)
               rule == matching(host(head))
           IN /\ out \in Stream /\ out # << >> /\ find_headers_end(out) = Len(out)
              /\ RewrittenAs(head, out)
              /\ parses(head) /\ rule # 0 /\ "connection" \notin Names(Rules[rule].headers)
                    => SaysClose(out)
<1> DEFINE rule == matching(host(head))
<1>1. CASE ~parses(head) \/ rule = 0
  BY <1>1 DEF rewrite_head, RewrittenAs
<1>2. CASE ~(~parses(head) \/ rule = 0)
  <2> DEFINE ov == Rules[rule].headers
             kept == Kept(head, ov)
             cl == Closing(ov)
             ko == kept \o ov
             hs == ko \o cl
             out == Headed(hs)
  <2>1. rewrite_head(head) = out
    BY <1>2 DEF rewrite_head
  <2>2. Headers(ov)
    BY <1>2, MatchingRule
  <2> HIDE DEF ov
  <2>3. /\ Headers(kept)
        /\ \A name \in Names(ov) \cup DROP : Named(kept, {name}) = {}
        /\ \A name : name \notin Names(ov) \cup DROP => Values(kept, name) = Values(head, name)
    BY KeptHeaders
  <2>4. /\ Headers(cl)
        /\ \A name : (name # "connection" \/ "connection" \in Names(ov)) => Named(cl, {name}) = {}
        /\ "connection" \notin Names(ov) => \E i \in DOMAIN Values(cl, "connection") :
                                                Values(cl, "connection")[i] = "close"
    BY ClosingHeader
  <2> HIDE DEF kept, cl
  <2>5. Headers(ko)
    BY <2>2, <2>3, HeadersJoined
  <2>6. Headers(hs)
    <3> HIDE DEF ko
    <3> QED
      BY <2>4, <2>5, HeadersJoined
  <2>7. kept \in Stream /\ ov \in Stream /\ cl \in Stream /\ ko \in Stream /\ hs \in Stream
    BY <2>2, <2>3, <2>4, <2>5, <2>6 DEF Headers
  <2>8. out \in Stream /\ find_headers_end(out) = Len(out) /\ Len(out) > 0
    <3> HIDE DEF hs
    <3> QED
      BY <2>6, <2>7, HeadedShape, HeadedEnd
  <2>9. ASSUME NEW name PROVE Values(out, name) = Values(hs, name)
    <3> HIDE DEF hs
    <3> QED
      BY <2>6, HeadedValues
  <2>10. ASSUME NEW name, Named(cl, {name}) = {} PROVE Values(hs, name) = Values(ko, name)
    <3> HIDE DEF ko
    <3> QED
      BY <2>7, <2>10, ValuesOfFirst
  <2>11. ASSUME NEW name, name \in Names(ov) PROVE Values(out, name) = Values(ov, name)
    <3>1. Named(kept, {name}) = {} /\ Named(cl, {name}) = {}
      BY <2>3, <2>4, <2>11
    <3>2. Values(ko, name) = Values(ov, name)
      BY <2>7, <3>1, ValuesOfSecond
    <3> HIDE DEF ko, hs, out
    <3> QED
      BY <2>9, <2>10, <3>1, <3>2
  <2>12. ASSUME NEW name, name \notin Names(ov), name \notin DROP
         PROVE  Values(out, name) = Values(head, name)
    <3>1. Named(cl, {name}) = {}
      BY <2>4, <2>12 DEF DROP
    <3>2. Named(ov, {name}) = {}
      BY <2>2, <2>12, NamedByNames
    <3>3. Values(ko, name) = Values(kept, name)
      BY <2>7, <3>2, ValuesOfFirst
    <3>4. Values(kept, name) = Values(head, name)
      BY <2>3, <2>12
    <3> HIDE DEF ko, hs, out
    <3> QED
      BY <2>9, <2>10, <3>1, <3>3, <3>4
  <2>13. ASSUME "connection" \notin Names(ov) PROVE SaysClose(out)
    <3>1. Named(kept, {"connection"}) = {} /\ Named(ov, {"connection"}) = {}
      BY <2>2, <2>3, <2>13, NamedByNames DEF DROP
    <3>2. Named(ko, {"connection"}) = {}
      <4>1. "connection" \notin Names(kept) /\ "connection" \notin Names(ov)
        BY <2>2, <2>3, <2>13, <3>1, NamedByNames
      <4>2. "connection" \notin Names(ko)
        <5> SUFFICES ASSUME NEW i \in DOMAIN ko, Lower[ko[i].n] = "connection" PROVE FALSE
          BY DEF Names
        <5>1. /\ Len(ko) = Len(kept) + Len(ov) /\ Len(kept) \in Nat /\ Len(ov) \in Nat
              /\ \A k \in 1..Len(kept) : ko[k] = kept[k]
              /\ \A k \in 1..Len(ov) : ko[Len(kept) + k] = ov[k]
              /\ DOMAIN ko = 1..Len(ko) /\ DOMAIN kept = 1..Len(kept) /\ DOMAIN ov = 1..Len(ov)
          BY <2>7, Joined DEF Stream
        <5> HIDE DEF ko
        <5>2. CASE i \in 1..Len(kept)
          BY <4>1, <5>1, <5>2 DEF Names
        <5>3. CASE i \notin 1..Len(kept)
          <6>1. i - Len(kept) \in 1..Len(ov) /\ i = Len(kept) + (i - Len(kept))
            BY <5>1, <5>3
          <6>2. ko[i] = ov[i - Len(kept)]
            BY <5>1, <6>1
          <6> QED
            BY <4>1, <5>1, <6>1, <6>2 DEF Names
        <5> QED
          BY <5>2, <5>3
      <4> HIDE DEF ko
      <4> QED
        BY <2>5, <4>2, NamedByNames
    <3>3. Values(hs, "connection") = Values(cl, "connection")
      <4> HIDE DEF ko
      <4> QED
        BY <2>7, <3>2, ValuesOfSecond
    <3>4. Values(out, "connection") = Values(cl, "connection")
      BY <2>9, <3>3
    <3> HIDE DEF ko, hs, out
    <3> QED
      BY <2>4, <2>13, <3>4 DEF SaysClose
  <2> HIDE DEF out
  <2>14. RewrittenAs(head, out)
    <3> SUFFICES ASSUME NEW name \in {Lower[n] : n \in DOMAIN Lower} \ (DROP \ Names(ov))
                 PROVE  Values(out, name) =
                          IF name \in Names(ov) THEN Values(ov, name) ELSE Values(head, name)
      BY <1>2 DEF RewrittenAs, ov
    <3> QED
      BY <2>11, <2>12
  <2>15. out # << >>
    BY <2>8
  <2> QED
    BY <2>1, <2>8, <2>13, <2>14, <2>15 DEF ov
<1> QED
  BY <1>1, <1>2
-----------------------------------------------------------------------------
(* What the upstream is to receive for what the client has said *)

Front(said) == rewrite_head(SubSeq(said, 1, find_headers_end(said)))
Whole(said) == Front(said) \o From(said, find_headers_end(said))

LEMMA FrontGood ==
    ASSUME NEW said \in Stream, find_headers_end(said) # 0
    PROVE  /\ Front(said) \in Stream /\ Front(said) # << >>
           /\ find_headers_end(Front(said)) = Len(Front(said))
           /\ RewrittenAs(SubSeq(said, 1, find_headers_end(said)), Front(said))
           /\ From(said, find_headers_end(said)) \in Stream /\ Whole(said) \in Stream
<1> DEFINE p == find_headers_end(said)
           h == SubSeq(said, 1, p)
<1>1. h \in Stream /\ Len(h) = p /\ find_headers_end(h) = p
  BY EndOfHead DEF Stream
<1>2. p \in 0..Len(said)
  BY FirstEnd DEF Stream
<1>3. From(said, p) \in Stream
  BY <1>2, Cut DEF Stream
<1> HIDE DEF h
<1>4. h # << >>
  BY <1>1
<1>5. /\ rewrite_head(h) \in Stream /\ rewrite_head(h) # << >>
      /\ find_headers_end(rewrite_head(h)) = Len(rewrite_head(h))
      /\ RewrittenAs(h, rewrite_head(h))
  BY <1>1, <1>4, RewriteHead
<1>6. Front(said) = rewrite_head(h)
  BY DEF Front, h
<1> HIDE DEF p
<1>7. Whole(said) = Front(said) \o From(said, p)
  BY DEF Whole, p
<1>8. Front(said) \o From(said, p) \in Stream
  BY <1>3, <1>5, <1>6, Joined DEF Stream
<1> QED
  BY <1>3, <1>5, <1>6, <1>7, <1>8 DEF p, h

(* It grows with what the client says. *)
LEMMA WholeGrows ==
    ASSUME NEW said \in Stream, NEW x \in Stream, find_headers_end(said) # 0
    PROVE  /\ find_headers_end(said \o x) = find_headers_end(said)
           /\ Front(said \o x) = Front(said)
           /\ From(said \o x, find_headers_end(said)) = From(said, find_headers_end(said)) \o x
           /\ Whole(said \o x) = Whole(said) \o x
<1> DEFINE p == find_headers_end(said)
           w == said \o x
           r == From(said, p)
<1>1. p \in 0..Len(said)
  BY FirstEnd DEF Stream
<1>2. find_headers_end(w) = p
  BY EndsJoined DEF Stream
<1>3. From(w, p) = r \o x /\ SubSeq(w, 1, p) = SubSeq(said, 1, p)
  BY <1>1, FromJoined DEF Stream
<1>4. Front(w) = Front(said)
  BY <1>2, <1>3 DEF Front
<1>5. Front(said) \in Stream /\ r \in Stream
  BY FrontGood
<1>6. (Front(said) \o r) \o x = Front(said) \o (r \o x)
  <2> HIDE DEF r
  <2>1. Front(said) \in Seq(Piece) /\ r \in Seq(Piece) /\ x \in Seq(Piece)
    BY <1>5 DEF Stream
  <2> QED
    BY <2>1, ConcatAssociative, SMTT(60)
<1>7. Whole(w) = Front(said) \o (r \o x)
  BY <1>2, <1>3, <1>4 DEF Whole
<1>8. Whole(said) = Front(said) \o r
  BY DEF Whole
<1> QED
  BY <1>2, <1>3, <1>4, <1>6, <1>7, <1>8

-----------------------------------------------------------------------------
(* The invariant *)

Sending == {"connect", "sendhead", "sendrest"}

Typed ==
    /\ plan \in Plans
    /\ {"open", "said", "sent", "closing", "eof"} \subseteq DOMAIN client
    /\ {"st", "buf", "head", "leftover"} \subseteq DOMAIN task
    /\ client.said \in Stream /\ wire \in Stream /\ up \in Stream
    /\ task.buf \in Stream /\ task.head \in Stream /\ task.leftover \in Stream
    /\ todo \in Seq(Stream)
    /\ client.sent \in Nat /\ client.sent <= Len(todo)

(* Nothing is upstream but the front and some of what comes after it. *)
Delivered ==
    /\ find_headers_end(client.said) # 0
    /\ \E r \in Stream : up = Front(client.said) \o r
    /\ \E r \in Stream : up \o r = Whole(client.said)

Stages ==
    /\ task.st = "none" => client = Away /\ wire = << >> /\ up = << >>
    /\ task.st = "accept" => client.said = << >> /\ wire = << >> /\ task.buf = << >>
    /\ task.st \in {"accept", "head", "toolarge", "connect", "sendhead"} => up = << >>
    /\ task.st = "head" => /\ task.buf \o wire = client.said
                           /\ HeadEnds(task.buf) = {} /\ Len(task.buf) <= LIMIT
    /\ task.st = "toolarge" => /\ Len(client.said) > LIMIT
                               /\ \A p \in HeadEnds(client.said) : p > LIMIT
    /\ task.st \in Sending => /\ find_headers_end(client.said) # 0
                              /\ task.head = Front(client.said)
                              /\ task.leftover \o wire
                                   = From(client.said, find_headers_end(client.said))
    /\ task.st = "connect" => find_headers_end(client.said) <= LIMIT + CHUNK
    /\ task.st = "sendrest" => up = Front(client.said)
    /\ task.st = "splice" => Delivered /\ up \o wire = Whole(client.said)
    /\ up # << >> => Delivered

PInv == Typed /\ Stages

LEMMA EmptyStream == << >> \in Stream /\ Len(<< >>) = 0 /\ << >> \o << >> = << >>
BY DEF Stream

(* The fields of a client that is changed in some of them *)
LEMMA ClientFields ==
    ASSUME NEW r, {"open", "said", "sent", "closing", "eof"} \subseteq DOMAIN r, NEW v, NEW w
    PROVE  /\ [r EXCEPT !.open = v].said = r.said /\ [r EXCEPT !.open = v].sent = r.sent
           /\ DOMAIN [r EXCEPT !.open = v] = DOMAIN r
           /\ [r EXCEPT !.eof = v].said = r.said /\ [r EXCEPT !.eof = v].sent = r.sent
           /\ DOMAIN [r EXCEPT !.eof = v] = DOMAIN r
           /\ [r EXCEPT !.sent = v].said = r.said /\ [r EXCEPT !.sent = v].sent = v
           /\ DOMAIN [r EXCEPT !.sent = v] = DOMAIN r
           /\ [r EXCEPT !.sent = v, !.closing = w].said = r.said
           /\ [r EXCEPT !.sent = v, !.closing = w].sent = v
           /\ DOMAIN [r EXCEPT !.sent = v, !.closing = w] = DOMAIN r
           /\ [r EXCEPT !.sent = v, !.said = w].said = w
           /\ [r EXCEPT !.sent = v, !.said = w].sent = v
           /\ DOMAIN [r EXCEPT !.sent = v, !.said = w] = DOMAIN r
OBVIOUS

LEMMA AwayFields ==
    /\ {"open", "said", "sent", "closing", "eof"} \subseteq DOMAIN Away
    /\ Away.said = << >> /\ Away.sent = 0 /\ ~Away.open
<1>1. PICK f : f = FALSE
  OBVIOUS
<1>2. Away = [open |-> f, said |-> << >>, sent |-> 0, closing |-> f, eof |-> f]
  BY <1>1, Zenon DEF Away
<1>3. /\ {"open", "said", "sent", "closing", "eof"} \subseteq DOMAIN Away
      /\ Away.said = << >> /\ Away.sent = 0 /\ Away.open = f
  BY <1>2
<1> QED
  BY <1>1, <1>3

LEMMA TaskFields ==
    ASSUME NEW r, {"st", "buf", "head", "leftover"} \subseteq DOMAIN r, NEW v
    PROVE  LET x == [r EXCEPT !.st = v]
           IN /\ DOMAIN x = DOMAIN r /\ x.st = v
              /\ x.buf = r.buf /\ x.head = r.head /\ x.leftover = r.leftover
OBVIOUS

LEMMA NoTaskFields ==
    /\ {"st", "buf", "head", "leftover"} \subseteq DOMAIN NoTask
    /\ NoTask.buf = << >> /\ NoTask.head = << >> /\ NoTask.leftover = << >> /\ NoTask.st = "none"
BY DEF NoTask

(* A task of a stage with nothing else *)
LEMMA BareTask ==
    ASSUME NEW v
    PROVE  LET x == [NoTask EXCEPT !.st = v]
           IN /\ {"st", "buf", "head", "leftover"} \subseteq DOMAIN x /\ x.st = v
              /\ x.buf = << >> /\ x.head = << >> /\ x.leftover = << >>
BY NoTaskFields, TaskFields
-----------------------------------------------------------------------------
(* The invariant holds at first, and the client's steps keep it. *)

LEMMA ProxyInit ==
    ASSUME Init
    PROVE  PInv
<1>1. plan \in Plans /\ todo = plan.requests /\ client = Away /\ wire = << >> /\ task = NoTask /\ up = << >>
  BY DEF Init
<1>2. plan.requests \in Seq(Seq(Token))
  <2>1. plan \in [sni : STRING, tls : BOOLEAN, requests : Seq(Seq(Token)), obeys : BOOLEAN]
    BY <1>1, ProxyAssumption
  <2> QED
    BY <2>1
<1>3. todo \in Seq(Stream)
  <2>1. Token \subseteq Piece
    BY DEF Piece
  <2>2. Seq(Token) \subseteq Stream
    BY <2>1, SeqMonotonic DEF Stream
  <2> QED
    BY <1>1, <1>2, <2>2, SeqMonotonic
<1>4. Typed
  BY <1>1, <1>3, AwayFields, NoTaskFields, EmptyStream DEF Typed
<1>5. Stages
  BY <1>1, NoTaskFields DEF Stages, Sending
<1> QED
  BY <1>4, <1>5 DEF PInv

LEMMA KeepClientOpens ==
    ASSUME PInv, ClientOpens
    PROVE  PInv'
<1> USE DEF PInv
<1>1. /\ client' = [Away EXCEPT !.open = TRUE] /\ task' = [NoTask EXCEPT !.st = "accept"]
      /\ UNCHANGED <<plan, todo, wire, up>> /\ wire = << >> /\ up = << >>
  BY DEF ClientOpens, Stages
<1>2. /\ {"open", "said", "sent", "closing", "eof"} \subseteq DOMAIN client'
      /\ client'.said = << >> /\ client'.sent = 0
  <2>1. PICK t : t = TRUE
    OBVIOUS
  <2>2. client' = [Away EXCEPT !.open = t]
    BY <1>1, <2>1, Zenon
  <2> QED
    BY <2>2, AwayFields, ClientFields
<1>3. /\ {"st", "buf", "head", "leftover"} \subseteq DOMAIN task' /\ task'.st = "accept"
      /\ task'.buf = << >> /\ task'.head = << >> /\ task'.leftover = << >>
  BY <1>1, BareTask
<1>4. Typed'
  BY <1>1, <1>2, <1>3, EmptyStream DEF Typed
<1>5. Stages'
  BY <1>1, <1>2, <1>3 DEF Stages, Sending
<1> QED
  BY <1>4, <1>5

LEMMA KeepClientSends ==
    ASSUME PInv, ClientSends
    PROVE  PInv'
<1> USE DEF PInv
<1> DEFINE x == todo[client.sent + 1]
           said == client.said
<1>1. /\ client.open /\ task.st \notin {"accept", "ended"} /\ client.sent < Len(todo)
      /\ client' = [client EXCEPT !.sent = client.sent + 1, !.said = said \o x]
      /\ wire' = wire \o x
      /\ UNCHANGED <<plan, todo, task, up>>
  BY DEF ClientSends
<1>2. task.st # "none"
  BY <1>1, AwayFields DEF Stages
<1>3. x \in Stream
  BY <1>1 DEF Typed
<1> HIDE DEF x, said
<1>4. /\ {"open", "said", "sent", "closing", "eof"} \subseteq DOMAIN client'
      /\ client'.said = said \o x /\ client'.sent = client.sent + 1
  BY <1>1, ClientFields DEF Typed
<1>5. said \in Stream /\ wire \in Stream /\ task.buf \in Stream /\ task.leftover \in Stream /\ up \in Stream
  BY DEF Typed, said
<1>6. /\ said \o x \in Stream /\ wire \o x \in Stream /\ Len(said \o x) = Len(said) + Len(x)
      /\ Len(said) \in Nat /\ Len(x) \in Nat
  <2>1. said \in Seq(Piece) /\ x \in Seq(Piece) /\ wire \in Seq(Piece)
    BY <1>3, <1>5 DEF Stream
  <2> QED
    BY <2>1, Joined DEF Stream
<1>7. Typed'
  BY <1>1, <1>4, <1>5, <1>6 DEF Typed
<1>8. ASSUME NEW a \in Stream PROVE (a \o wire) \o x = a \o (wire \o x)
  <2>1. a \in Seq(Piece) /\ wire \in Seq(Piece) /\ x \in Seq(Piece)
    BY <1>3, <1>5 DEF Stream
  <2> QED
    BY <2>1, ConcatAssociative, SMTT(60)
<1>9. find_headers_end(said) # 0 =>
         /\ find_headers_end(said \o x) = find_headers_end(said)
         /\ Front(said \o x) = Front(said)
         /\ From(said \o x, find_headers_end(said)) = From(said, find_headers_end(said)) \o x
         /\ Whole(said \o x) = Whole(said) \o x
  BY <1>3, <1>5, WholeGrows
<1>10. Delivered => Delivered'
  <2> SUFFICES ASSUME Delivered PROVE Delivered'
    OBVIOUS
  <2>1. find_headers_end(said) # 0
    BY DEF Delivered, said
  <2>2. PICK r \in Stream : up \o r = Whole(said)
    BY DEF Delivered, said
  <2>3. r \o x \in Stream /\ (up \o r) \o x = up \o (r \o x)
    <3>1. up \in Seq(Piece) /\ r \in Seq(Piece) /\ x \in Seq(Piece)
      BY <1>3, <1>5 DEF Stream
    <3> QED
      BY <3>1, ConcatAssociative, SMTT(60) DEF Stream
  <2>4. up \o (r \o x) = Whole(said \o x)
    BY <1>9, <2>1, <2>2, <2>3
  <2>5. \E q \in Stream : up = Front(said) \o q
    BY DEF Delivered, said
  <2> QED
    BY <1>1, <1>4, <1>9, <2>1, <2>3, <2>4, <2>5 DEF Delivered
<1>11. task.st = "head" => task.buf \o wire' = said \o x
  BY <1>1, <1>5, <1>8 DEF Stages, said
<1>12. task.st = "toolarge" => /\ Len(said \o x) > LIMIT
                               /\ \A p \in HeadEnds(said \o x) : p > LIMIT
  <2> SUFFICES ASSUME task.st = "toolarge", NEW p \in HeadEnds(said \o x)
               PROVE  Len(said \o x) > LIMIT /\ p > LIMIT
    <3>1. task.st = "toolarge" => Len(said \o x) > LIMIT
      BY <1>6, ProxyAssumption DEF Stages, said
    <3> QED
      BY <3>1
  <2>1. Len(said) > LIMIT /\ LIMIT \in Nat
    BY ProxyAssumption DEF Stages, said
  <2>2. p \in Nat
    BY <1>6 DEF HeadEnds
  <2>3. p <= Len(said) => p \in HeadEnds(said)
    BY <1>3, <1>5, EndsJoined DEF Stream
  <2>4. p <= Len(said) => p > LIMIT
    BY <2>3 DEF Stages, said
  <2> QED
    BY <1>6, <2>1, <2>2, <2>4
<1>13. task.st \in Sending => /\ find_headers_end(said \o x) = find_headers_end(said)
                              /\ find_headers_end(said) # 0
                              /\ task.head = Front(said \o x)
                              /\ task.leftover \o wire' = From(said \o x, find_headers_end(said))
  BY <1>1, <1>5, <1>8, <1>9 DEF Stages, said
<1>14. task.st = "splice" => up \o wire' = Whole(said \o x)
  BY <1>1, <1>5, <1>8, <1>9 DEF Stages, said, Delivered
<1>15. task.st = "sendrest" => up = Front(said \o x)
  BY <1>13 DEF Stages, said, Sending
<1>16. task.st = "connect" => find_headers_end(said \o x) <= LIMIT + CHUNK
  BY <1>13 DEF Stages, said, Sending
<1>17. Stages'
  BY <1>1, <1>2, <1>4, <1>10, <1>11, <1>12, <1>13, <1>14, <1>15, <1>16 DEF Stages
<1> QED
  BY <1>7, <1>17
-----------------------------------------------------------------------------
(* Steps that leave the streams alone *)

SameStreams == client'.said = client.said /\ UNCHANGED <<plan, wire, up>>
GoodClient ==
    /\ {"open", "said", "sent", "closing", "eof"} \subseteq DOMAIN client'
    /\ todo' \in Seq(Stream) /\ client'.sent \in Nat /\ client'.sent <= Len(todo')

LEMMA SameDelivered ==
    ASSUME SameStreams
    PROVE  Delivered' <=> Delivered
BY DEF SameStreams, Delivered

LEMMA KeepStage ==
    ASSUME PInv, SameStreams, GoodClient, task' = task, task.st = "none" => client' = client
    PROVE  PInv'
<1>1. Typed'
  BY DEF PInv, Typed, SameStreams, GoodClient
<1>2. Stages'
  BY SameDelivered DEF PInv, Stages, SameStreams
<1> QED
  BY <1>1, <1>2 DEF PInv

LEMMA KeepEnded ==
    ASSUME PInv, SameStreams, GoodClient, End
    PROVE  PInv'
<1>1. /\ {"st", "buf", "head", "leftover"} \subseteq DOMAIN task' /\ task'.st = "ended"
      /\ task'.buf = << >> /\ task'.head = << >> /\ task'.leftover = << >>
  BY BareTask DEF End
<1>2. Typed'
  BY <1>1, EmptyStream DEF PInv, Typed, SameStreams, GoodClient
<1>3. Stages'
  BY <1>1, SameDelivered DEF PInv, Stages, SameStreams, Sending
<1> QED
  BY <1>2, <1>3 DEF PInv

(* The client as it was, or one that has given up *)
LEMMA ClientStays ==
    ASSUME PInv, client' = client, todo' = todo
    PROVE  GoodClient /\ client'.said = client.said
BY DEF PInv, Typed, GoodClient

LEMMA ClientHasGivenUp ==
    ASSUME PInv, ClientGivesUp
    PROVE  GoodClient /\ client'.said = client.said
<1>1. todo' = << >> /\ client' = [client EXCEPT !.sent = 0]
  BY DEF ClientGivesUp
<1>2. << >> \in Seq(Stream) /\ Len(<< >>) = 0
  OBVIOUS
<1> QED
  BY <1>1, <1>2, ClientFields DEF PInv, Typed, GoodClient

LEMMA KeepClientCloses ==
    ASSUME PInv, ClientCloses
    PROVE  PInv'
<1>1. /\ client.open /\ client' = [client EXCEPT !.open = FALSE]
      /\ UNCHANGED <<plan, todo, wire, task, up>>
  BY DEF ClientCloses
<1>2. task.st # "none"
  BY <1>1, AwayFields DEF PInv, Stages
<1>3. GoodClient /\ client'.said = client.said
  <2>1. PICK f : f = FALSE
    OBVIOUS
  <2>2. client' = [client EXCEPT !.open = f]
    BY <1>1, <2>1, Zenon
  <2> QED
    BY <1>1, <2>2, ClientFields DEF PInv, Typed, GoodClient
<1> QED
  BY <1>1, <1>2, <1>3, KeepStage DEF SameStreams

LEMMA KeepAccept ==
    ASSUME PInv, Accept
    PROVE  PInv'
<1>1. task.st = "accept" /\ UNCHANGED <<plan, wire, up>>
  BY DEF Accept
<1>2. CASE task' = [task EXCEPT !.st = "head"] /\ UNCHANGED <<todo, client>>
  <2>1. /\ DOMAIN task' = DOMAIN task /\ task'.st = "head"
        /\ task'.buf = task.buf /\ task'.head = task.head /\ task'.leftover = task.leftover
    BY <1>2, TaskFields DEF PInv, Typed
  <2>2. Typed'
    BY <1>1, <1>2, <2>1 DEF PInv, Typed
  <2>3. HeadEnds(<< >>) = {} /\ Len(<< >>) <= LIMIT
    BY ProxyAssumption DEF HeadEnds
  <2>4. Stages'
    BY <1>1, <1>2, <2>1, <2>3, EmptyStream DEF PInv, Stages, Sending
  <2> QED
    BY <2>2, <2>4 DEF PInv
<1>3. CASE End /\ ClientGivesUp
  BY <1>1, <1>3, ClientHasGivenUp, KeepEnded DEF SameStreams
<1>4. CASE End /\ UNCHANGED <<todo, client>>
  BY <1>1, <1>4, ClientStays, KeepEnded DEF SameStreams
<1> QED
  BY <1>2, <1>3, <1>4 DEF Accept
-----------------------------------------------------------------------------
(* The handler's other steps *)

LEMMA KeepReadHead ==
    ASSUME PInv, NEW n \in 1..CHUNK, ReadHead(n)
    PROVE  PInv'
<1> DEFINE a == SubSeq(wire, 1, n)
           rest == From(wire, n)
           buf == task.buf \o a
           said == client.said
           p == find_headers_end(buf)
<1>1. /\ task.st = "head" /\ n <= Len(wire) /\ task' = AfterRead(buf) /\ wire' = rest
      /\ UNCHANGED <<plan, todo, client, up>>
  BY DEF ReadHead
<1>2. /\ task.buf \in Seq(Piece) /\ wire \in Seq(Piece) /\ said \in Seq(Piece)
      /\ task.buf \o wire = said /\ HeadEnds(task.buf) = {} /\ Len(task.buf) <= LIMIT /\ up = << >>
  BY <1>1 DEF PInv, Typed, Stages, Stream
<1>3. n \in 0..Len(wire) /\ n <= CHUNK /\ CHUNK \in Nat /\ LIMIT \in Nat /\ n \in Nat
  BY <1>1, <1>2, ProxyAssumption
<1>4. a \in Seq(Piece) /\ rest \in Seq(Piece) /\ Len(a) = n /\ a \o rest = wire
  BY <1>2, <1>3, Cut
<1> HIDE DEF a, rest, said
<1>5. buf \in Seq(Piece) /\ Len(buf) = Len(task.buf) + n /\ Len(task.buf) \in Nat
  <2>1. buf \in Seq(Piece) /\ Len(buf) = Len(task.buf) + Len(a)
    BY <1>2, <1>4, ConcatProperties, ZenonT(60)
  <2> QED
    BY <1>2, <1>4, <2>1
<1>6. buf \o rest = said
  <2>1. (task.buf \o a) \o rest = task.buf \o (a \o rest)
    <3>1. task.buf \in Seq(Piece) /\ a \in Seq(Piece) /\ rest \in Seq(Piece)
      BY <1>2, <1>4
    <3> DEFINE b == task.buf
    <3> HIDE DEF b
    <3>2. b \in Seq(Piece)
      BY <3>1 DEF b
    <3>3. (b \o a) \o rest = b \o (a \o rest)
      BY <3>1, <3>2, ConcatAssociative, SMTT(60)
    <3> QED
      BY <3>3 DEF b
  <2> QED
    BY <1>2, <1>4, <2>1
<1> HIDE DEF buf
<1>7. p \in 0..Len(buf) /\ (p = 0 <=> HeadEnds(buf) = {})
  BY <1>5, FirstEnd
<1>8. Len(buf) <= LIMIT + CHUNK /\ Len(buf) \in Nat
  BY <1>2, <1>3, <1>5
<1>9. /\ HeadEnds(buf) = {q \in HeadEnds(said) : q <= Len(buf)}
      /\ p # 0 => find_headers_end(said) = p
      /\ Len(said) = Len(buf) + Len(rest)
  <2>1. Len(buf \o rest) = Len(buf) + Len(rest)
    BY <1>4, <1>5, ConcatProperties, ZenonT(60)
  <2> QED
    BY <1>4, <1>5, <1>6, <2>1, EndsJoined
<1>10. wire' \in Stream /\ client'.said = said
  BY <1>1, <1>4 DEF Stream, said
<1>11. CASE p # 0
  <2> DEFINE h == rewrite_head(SubSeq(buf, 1, p))
             l == From(buf, p)
  <2>1. task' = [st |-> "connect", buf |-> << >>, head |-> h, leftover |-> l]
    BY <1>1, <1>11 DEF AfterRead
  <2>2. From(said, p) = l \o rest /\ SubSeq(said, 1, p) = SubSeq(buf, 1, p)
    BY <1>4, <1>5, <1>6, <1>7, FromJoined
  <2>3. h = Front(said)
    BY <1>9, <1>11, <2>2 DEF Front
  <2>4. l \in Stream
    BY <1>5, <1>7, Cut DEF Stream
  <2>5. h \in Stream
    BY <1>2, <1>9, <1>11, <2>3, FrontGood DEF Stream
  <2> HIDE DEF h, l
  <2>6. /\ {"st", "buf", "head", "leftover"} \subseteq DOMAIN task' /\ task'.st = "connect"
        /\ task'.buf = << >> /\ task'.head = h /\ task'.leftover = l
    BY <2>1
  <2>7. Typed'
    BY <1>1, <1>10, <2>4, <2>5, <2>6, EmptyStream DEF PInv, Typed
  <2>8. find_headers_end(said) = p /\ p # 0 /\ p <= LIMIT + CHUNK
    BY <1>3, <1>7, <1>8, <1>9, <1>11
  <2> HIDE DEF p
  <2>9. Stages'
    BY <1>1, <1>2, <1>10, <2>2, <2>3, <2>6, <2>8 DEF Stages, Sending
  <2> QED
    BY <2>7, <2>9 DEF PInv
<1>12. CASE p = 0 /\ Len(buf) > LIMIT
  <2>1. task' = [NoTask EXCEPT !.st = "toolarge"]
    BY <1>1, <1>12 DEF AfterRead
  <2>2. /\ {"st", "buf", "head", "leftover"} \subseteq DOMAIN task' /\ task'.st = "toolarge"
        /\ task'.buf = << >> /\ task'.head = << >> /\ task'.leftover = << >>
    BY <2>1, BareTask
  <2>3. Typed'
    BY <1>1, <1>10, <2>2, EmptyStream DEF PInv, Typed
  <2>4. Len(said) > LIMIT
    BY <1>3, <1>4, <1>8, <1>9, <1>12
  <2>5. ASSUME NEW q \in HeadEnds(said) PROVE q > LIMIT
    <3>1. q \in Nat
      BY <1>2 DEF HeadEnds
    <3>2. ~(q <= Len(buf))
      BY <1>7, <1>9, <1>12
    <3> QED
      BY <1>3, <1>8, <1>12, <3>1, <3>2
  <2>6. Stages'
    BY <1>1, <1>2, <1>10, <2>2, <2>4, <2>5 DEF Stages, Sending
  <2> QED
    BY <2>3, <2>6 DEF PInv
<1>13. CASE p = 0 /\ ~(Len(buf) > LIMIT)
  <2>1. task' = [[NoTask EXCEPT !.st = "head"] EXCEPT !.buf = buf]
    BY <1>1, <1>13 DEF AfterRead
  <2>2. /\ {"st", "buf", "head", "leftover"} \subseteq DOMAIN task' /\ task'.st = "head"
        /\ task'.buf = buf /\ task'.head = << >> /\ task'.leftover = << >>
    BY <2>1, BareTask
  <2>3. Typed'
    BY <1>1, <1>5, <1>10, <2>2, EmptyStream DEF PInv, Typed, Stream
  <2>4. Len(buf) <= LIMIT /\ HeadEnds(buf) = {}
    BY <1>3, <1>7, <1>8, <1>13
  <2>5. Stages'
    BY <1>1, <1>2, <1>6, <1>10, <2>2, <2>4 DEF Stages, Sending
  <2> QED
    BY <2>3, <2>5 DEF PInv
<1> QED
  BY <1>11, <1>12, <1>13

LEMMA KeepGiveUp ==
    ASSUME PInv, GiveUp
    PROVE  PInv'
<1>1. UNCHANGED <<plan, wire, up>> /\ End /\ (UNCHANGED <<todo, client>> \/ ClientGivesUp)
  BY DEF GiveUp
<1>2. CASE ClientGivesUp
  BY <1>1, <1>2, ClientHasGivenUp, KeepEnded DEF SameStreams
<1>3. CASE UNCHANGED <<todo, client>>
  BY <1>1, <1>3, ClientStays, KeepEnded DEF SameStreams
<1> QED
  BY <1>1, <1>2, <1>3

(* A step to another stage that does not read *)
LEMMA NextStage ==
    ASSUME PInv, NEW v, task' = [task EXCEPT !.st = v], UNCHANGED <<plan, todo, client, wire>>, up' \in Stream
    PROVE  Typed' /\ task'.st = v /\ task'.head = task.head /\ task'.leftover = task.leftover
<1>1. /\ DOMAIN task' = DOMAIN task /\ task'.st = v
      /\ task'.buf = task.buf /\ task'.head = task.head /\ task'.leftover = task.leftover
  BY TaskFields DEF PInv, Typed
<1> QED
  BY <1>1 DEF PInv, Typed

LEMMA KeepConnect ==
    ASSUME PInv, Connect
    PROVE  PInv'
<1>1. task.st = "connect" /\ task' = [task EXCEPT !.st = "sendhead"] /\ UNCHANGED <<plan, todo, client, wire, up>>
  BY DEF Connect
<1>2. up' \in Stream
  BY <1>1 DEF PInv, Typed
<1>3. Typed' /\ task'.st = "sendhead" /\ task'.head = task.head /\ task'.leftover = task.leftover
  BY <1>1, <1>2, NextStage
<1>4. Stages'
  BY <1>1, <1>3 DEF PInv, Stages, Sending
<1> QED
  BY <1>3, <1>4 DEF PInv

LEMMA KeepSendHead ==
    ASSUME PInv, SendHead
    PROVE  PInv'
<1>a. CASE End /\ UNCHANGED <<plan, todo, client, wire, up>>
  BY <1>a, ClientStays, KeepEnded DEF SameStreams
<1>b. CASE up' = task.head /\ task' = [task EXCEPT !.st = "sendrest"]
  <2> DEFINE said == client.said
             l == From(said, find_headers_end(said))
  <2>1. /\ task.st = "sendhead" /\ up' = task.head /\ task' = [task EXCEPT !.st = "sendrest"]
        /\ UNCHANGED <<plan, todo, client, wire>>
    BY <1>b DEF SendHead
  <2>2. /\ up' \in Stream /\ said \in Stream /\ find_headers_end(said) # 0 /\ task.head = Front(said)
        /\ task.leftover \o wire = l
    BY <2>1 DEF PInv, Typed, Stages, Sending
  <2>3. Typed' /\ task'.st = "sendrest" /\ task'.head = task.head /\ task'.leftover = task.leftover
    BY <2>1, <2>2, NextStage
  <2>4. l \in Stream /\ Front(said) \in Stream
    BY <2>2, FrontGood
  <2>5. Whole(said) = Front(said) \o l
    BY DEF Whole
  <2> HIDE DEF l
  <2>6. Front(said) = Front(said) \o << >>
    BY <2>4, ConcatEmptySeq DEF Stream
  <2>7. Delivered'
    BY <2>1, <2>2, <2>4, <2>5, <2>6, EmptyStream DEF Delivered
  <2>8. Stages'
    BY <2>1, <2>2, <2>3, <2>7 DEF Stages, Sending, l
  <2> QED
    BY <2>3, <2>8 DEF PInv
<1> QED
  BY <1>a, <1>b DEF SendHead

(* A part of what was left over has been sent and the rest is as it was. *)
LEMMA SentSome ==
    ASSUME PInv, task.st = "sendrest", NEW n \in 0..Len(task.leftover),
           up' = up \o SubSeq(task.leftover, 1, n), client' = client
    PROVE  up' \in Stream /\ Delivered'
<1> DEFINE said == client.said
           a == SubSeq(task.leftover, 1, n)
           b == From(task.leftover, n)
           f == Front(said)
           w == Whole(said)
<1>1. /\ said \in Stream /\ find_headers_end(said) # 0 /\ up = f /\ wire \in Stream
      /\ task.leftover \in Stream
      /\ task.leftover \o wire = From(said, find_headers_end(said))
  BY DEF PInv, Typed, Stages, Sending
<1>2. f \in Stream
  BY <1>1, FrontGood
<1>3. a \in Stream /\ b \in Stream /\ a \o b = task.leftover
  BY <1>1, Cut DEF Stream
<1>4. w = f \o (task.leftover \o wire)
  BY <1>1 DEF Whole
<1>5. up' = f \o a /\ client'.said = said
  BY <1>1
<1> HIDE DEF said, a, b, f, w
<1>6. f \in Seq(Piece) /\ a \in Seq(Piece) /\ b \in Seq(Piece) /\ wire \in Seq(Piece)
  BY <1>1, <1>2, <1>3 DEF Stream
<1>7. (a \o b) \o wire = a \o (b \o wire)
  BY <1>6, ConcatAssociative, SMTT(60)
<1> DEFINE c == b \o wire
<1>8. c \in Seq(Piece)
  BY <1>6, ConcatProperties
<1>9. w = f \o (a \o c)
  BY <1>3, <1>4, <1>7
<1> HIDE DEF c
<1>10. (f \o a) \o c = f \o (a \o c)
  BY <1>6, <1>8, ConcatAssociative, SMTT(60)
<1>11. f \o a \in Stream
  BY <1>6, ConcatProperties DEF Stream
<1>12. up' \o c = w /\ c \in Stream
  BY <1>5, <1>8, <1>9, <1>10 DEF Stream
<1>13. Delivered'
  BY <1>1, <1>3, <1>5, <1>12 DEF Delivered, f, w
<1> QED
  BY <1>5, <1>11, <1>13

LEMMA KeepSendRest ==
    ASSUME PInv, SendRest
    PROVE  PInv'
<1>a. CASE End /\ \E n \in 0..Len(task.leftover) : up' = up \o SubSeq(task.leftover, 1, n)
  <2>1. task.st = "sendrest" /\ UNCHANGED <<plan, todo, client, wire>>
    BY DEF SendRest
  <2>2. up' \in Stream /\ Delivered'
    BY <1>a, <2>1, SentSome
  <2>3. /\ {"st", "buf", "head", "leftover"} \subseteq DOMAIN task' /\ task'.st = "ended"
        /\ task'.buf = << >> /\ task'.head = << >> /\ task'.leftover = << >>
    BY <1>a, BareTask DEF End
  <2>4. Typed'
    BY <2>1, <2>2, <2>3, EmptyStream DEF PInv, Typed
  <2>5. Stages'
    BY <2>2, <2>3 DEF Stages, Sending
  <2> QED
    BY <2>4, <2>5 DEF PInv
<1>b. CASE up' = up \o task.leftover /\ task' = [task EXCEPT !.st = "splice"]
  <2> DEFINE said == client.said
             l == task.leftover
             f == Front(said)
             w == Whole(said)
  <2>1. /\ task.st = "sendrest" /\ up' = up \o l /\ task' = [task EXCEPT !.st = "splice"]
        /\ UNCHANGED <<plan, todo, client, wire>>
    BY <1>b DEF SendRest
  <2>2. /\ said \in Stream /\ find_headers_end(said) # 0 /\ up = f /\ l \in Stream /\ wire \in Stream
        /\ l \o wire = From(said, find_headers_end(said))
    BY <2>1 DEF PInv, Typed, Stages, Sending
  <2>3. f \in Stream
    BY <2>2, FrontGood
  <2>4. w = f \o (l \o wire)
    BY <2>2 DEF Whole
  <2> HIDE DEF said, l, f, w
  <2>5. up' = f \o l /\ up' \in Stream
    BY <2>1, <2>2, <2>3, Joined DEF Stream
  <2>6. (f \o l) \o wire = f \o (l \o wire)
    <3>1. f \in Seq(Piece) /\ l \in Seq(Piece) /\ wire \in Seq(Piece)
      BY <2>2, <2>3 DEF Stream
    <3> QED
      BY <3>1, ConcatAssociative, SMTT(60)
  <2>7. Typed' /\ task'.st = "splice"
    BY <2>1, <2>5, NextStage
  <2>8. up' \o wire' = w
    BY <2>1, <2>4, <2>5, <2>6
  <2>9. client'.said = said /\ wire' \in Stream
    BY <2>1, <2>2 DEF said
  <2>10. Delivered'
    BY <2>2, <2>5, <2>8, <2>9 DEF Delivered, f, w
  <2>11. Stages'
    BY <2>7, <2>8, <2>9, <2>10 DEF Stages, Sending, w
  <2> QED
    BY <2>7, <2>11 DEF PInv
<1> QED
  BY <1>a, <1>b DEF SendRest

LEMMA KeepSpliceUp ==
    ASSUME PInv, NEW n \in 1..Len(wire), SpliceUp(n)
    PROVE  PInv'
<1> DEFINE said == client.said
           a == SubSeq(wire, 1, n)
           rest == From(wire, n)
           f == Front(said)
           w == Whole(said)
<1>1. /\ task.st = "splice" /\ wire' = rest /\ up' = up \o a
      /\ UNCHANGED <<plan, todo, client, task>>
  BY DEF SpliceUp
<1>2. /\ said \in Stream /\ up \in Stream /\ wire \in Stream
      /\ Delivered /\ up \o wire = w /\ find_headers_end(said) # 0
  BY <1>1 DEF PInv, Typed, Stages, Delivered
<1>3. PICK r \in Stream : up = f \o r
  BY <1>2 DEF Delivered
<1>4. f \in Stream
  BY <1>2, FrontGood
<1>5. a \in Stream /\ rest \in Stream /\ a \o rest = wire
  <2>1. wire \in Seq(Piece) /\ n \in 0..Len(wire)
    BY <1>2 DEF Stream
  <2> QED
    BY <2>1, Cut DEF Stream
<1> HIDE DEF said, a, rest, f, w
<1>6. up \in Seq(Piece) /\ a \in Seq(Piece) /\ rest \in Seq(Piece) /\ f \in Seq(Piece) /\ r \in Seq(Piece)
  BY <1>2, <1>4, <1>5 DEF Stream
<1>7. (up \o a) \o rest = up \o (a \o rest) /\ (f \o r) \o a = f \o (r \o a)
  <2>1. (up \o a) \o rest = up \o (a \o rest)
    BY <1>6, ConcatAssociative, SMTT(60)
  <2>2. (f \o r) \o a = f \o (r \o a)
    BY <1>6, ConcatAssociative, SMTT(60)
  <2> QED
    BY <2>1, <2>2
<1>8. up' \in Stream /\ r \o a \in Stream
  BY <1>1, <1>6, ConcatProperties DEF Stream
<1>9. up' \o rest = w /\ up' = f \o (r \o a)
  BY <1>1, <1>2, <1>3, <1>5, <1>7
<1>10. client'.said = said /\ wire' = rest /\ rest \in Stream
  BY <1>1, <1>5 DEF said
<1>11. Typed'
  BY <1>1, <1>8, <1>10 DEF PInv, Typed
<1>12. Delivered'
  BY <1>2, <1>8, <1>9, <1>10 DEF Delivered, f, w
<1>13. Stages'
  BY <1>1, <1>9, <1>10, <1>12 DEF Stages, Sending, w
<1> QED
  BY <1>11, <1>13 DEF PInv

LEMMA KeepSpliceDown ==
    ASSUME PInv, SpliceDown
    PROVE  PInv'
<1>1. task.st = "splice" /\ UNCHANGED <<plan, wire, task, up>>
  BY DEF SpliceDown
<1>2. CASE UNCHANGED <<todo, client>>
  BY <1>1, <1>2, ClientStays, KeepStage DEF SameStreams
<1>3. CASE ~UNCHANGED <<todo, client>>
  <2>1. client.sent > 0 /\ todo' = Tail(todo)
    BY <1>3 DEF SpliceDown
  <2>2. \E c : client' = [client EXCEPT !.sent = client.sent - 1, !.closing = c]
    BY <1>3 DEF SpliceDown
  <2>3. PICK c : client' = [client EXCEPT !.sent = client.sent - 1, !.closing = c]
    BY <2>2
  <2>4. /\ DOMAIN client' = DOMAIN client /\ client'.said = client.said
        /\ client'.sent = client.sent - 1
    BY <2>3, ClientFields DEF PInv, Typed
  <2>5. todo \in Seq(Stream) /\ client.sent \in Nat /\ client.sent <= Len(todo)
    BY DEF PInv, Typed
  <2>6. Tail(todo) \in Seq(Stream) /\ Len(Tail(todo)) = Len(todo) - 1
    <3>1. todo # << >>
      BY <2>1, <2>5
    <3> QED
      BY <2>5, <3>1
  <2>7. GoodClient
    BY <2>1, <2>4, <2>5, <2>6 DEF GoodClient, PInv, Typed
  <2> QED
    BY <1>1, <2>4, <2>7, KeepStage DEF SameStreams
<1> QED
  BY <1>2, <1>3

LEMMA KeepSpliceDownEof ==
    ASSUME PInv, SpliceDownEof
    PROVE  PInv'
<1>1. /\ task.st = "splice" /\ client' = [client EXCEPT !.eof = TRUE]
      /\ UNCHANGED <<plan, todo, wire, task, up>>
  BY DEF SpliceDownEof
<1>2. GoodClient /\ client'.said = client.said
  <2>1. PICK t : t = TRUE
    OBVIOUS
  <2>2. client' = [client EXCEPT !.eof = t]
    BY <1>1, <2>1, Zenon
  <2> QED
    BY <1>1, <2>2, ClientFields DEF PInv, Typed, GoodClient
<1> QED
  BY <1>1, <1>2, KeepStage DEF SameStreams

LEMMA KeepSpliceEnds ==
    ASSUME PInv, SpliceEnds
    PROVE  PInv'
<1>1. End /\ UNCHANGED <<plan, todo, client, wire, up>>
  BY DEF SpliceEnds
<1> QED
  BY <1>1, ClientStays, KeepEnded DEF SameStreams

LEMMA KeepHangup ==
    ASSUME PInv, Hangup
    PROVE  PInv'
<1>1. client' = Away /\ wire' = << >> /\ task' = NoTask /\ up' = << >> /\ UNCHANGED <<plan, todo>>
  BY DEF Hangup
<1>2. Typed'
  BY <1>1, AwayFields, NoTaskFields, EmptyStream DEF PInv, Typed
<1>3. Stages'
  BY <1>1, NoTaskFields DEF Stages, Sending
<1> QED
  BY <1>2, <1>3 DEF PInv

(* The upstream's steps, the end of the client's stream and stuttering *)
LEMMA KeepRest ==
    ASSUME PInv, UNCHANGED <<plan, todo, client, wire, task, up>>
    PROVE  PInv'
BY ClientStays, KeepStage DEF SameStreams

LEMMA KeepPInv ==
    ASSUME PInv, [Next]_vars
    PROVE  PInv'
<1>1. CASE Client
  BY <1>1, KeepClientOpens, KeepClientSends, KeepClientCloses DEF Client
<1>2. CASE Handler
  <2>1. CASE \E n \in 1..CHUNK : ReadHead(n)
    BY <2>1, KeepReadHead
  <2>2. CASE \E n \in 1..Len(wire) : SpliceUp(n)
    BY <2>2, KeepSpliceUp
  <2>3. CASE SpliceUpEof
    BY <2>3, KeepRest DEF SpliceUpEof
  <2> QED
    BY <1>2, <2>1, <2>2, <2>3, KeepAccept, KeepGiveUp, KeepConnect, KeepSendHead, KeepSendRest,
       KeepSpliceDown, KeepSpliceDownEof, KeepSpliceEnds, KeepHangup DEF Handler
<1>3. CASE Upstream
  BY <1>3, KeepRest DEF Upstream, UpstreamActs, UpstreamCloses
<1>4. CASE Done \/ UNCHANGED vars
  BY <1>4, KeepRest DEF Done, vars
<1> QED
  BY <1>1, <1>2, <1>3, <1>4 DEF Next
(* The invariant of handle_conn: at every stage the bytes of the client are in
   the buffer, in what is left over, on the wire or upstream, in their order. *)
THEOREM ProxyInvariant == Spec => []PInv
<1>1. Init => PInv
  BY ProxyInit
<1>2. PInv /\ [Next]_vars => PInv'
  BY KeepPInv
<1> QED
  BY <1>1, <1>2, PTL DEF Spec

(* The upstream's first head is the front. *)
LEMMA FirstUpstream ==
    ASSUME PInv, up # << >>
    PROVE  /\ client.said \in Stream /\ find_headers_end(client.said) # 0
           /\ find_headers_end(up) = Len(Front(client.said)) /\ find_headers_end(up) # 0
           /\ SubSeq(up, 1, find_headers_end(up)) = Front(client.said)
           /\ RewrittenAs(SubSeq(client.said, 1, find_headers_end(client.said)), Front(client.said))
<1> DEFINE said == client.said
           f == Front(said)
<1>1. Delivered /\ said \in Stream
  BY DEF PInv, Stages, Typed
<1>2. find_headers_end(said) # 0
  BY <1>1 DEF Delivered
<1>3. PICK r \in Stream : up = f \o r
  BY <1>1 DEF Delivered
<1>4. /\ f \in Stream /\ f # << >> /\ find_headers_end(f) = Len(f)
      /\ RewrittenAs(SubSeq(said, 1, find_headers_end(said)), f)
  BY <1>1, <1>2, FrontGood
<1> HIDE DEF f
<1>5. find_headers_end(f) # 0
  BY <1>4 DEF Stream
<1>6. find_headers_end(f \o r) = find_headers_end(f)
  BY <1>4, <1>5, EndsJoined DEF Stream
<1>7. SubSeq(f \o r, 1, Len(f)) = f
  BY <1>4, Joined DEF Stream
<1> QED
  BY <1>1, <1>2, <1>3, <1>4, <1>5, <1>6, <1>7 DEF f

(* proxy.rs, the head and its leftover and then the splice: for any requests, rules
   and cuts into reads, what the upstream receives is the rewritten head and then
   the very bytes of the client. *)
THEOREM StreamReachesUpstream == Spec => []UpstreamGetsStream
<1>1. PInv => UpstreamGetsStream
  <2> SUFFICES ASSUME PInv, up # << >>
               PROVE  /\ find_headers_end(client.said) # 0
                      /\ up = SubSeq(Whole(client.said), 1, Len(up))
                      /\ task.st = "splice" => up \o wire = Whole(client.said)
    BY DEF UpstreamGetsStream, Whole, Front
  <2>1. Delivered /\ up \in Stream
    BY DEF PInv, Stages, Typed
  <2>2. PICK r \in Stream : up \o r = Whole(client.said)
    BY <2>1 DEF Delivered
  <2>3. SubSeq(up \o r, 1, Len(up)) = up
    BY <2>1, Joined DEF Stream
  <2> QED
    BY <2>1, <2>2, <2>3 DEF Delivered, PInv, Stages
<1> QED
  BY <1>1, ProxyInvariant, PTL

(* proxy.rs rewrite_head: for any request and any rules, in the head that is sent
   every name has the values the rule gives it, else those of the request. *)
THEOREM HeadersFollowTheRule == Spec => []HeadRewrittenByName
<1>1. PInv => HeadRewrittenByName
  BY FirstUpstream DEF HeadRewrittenByName
<1> QED
  BY <1>1, ProxyInvariant, PTL

(* proxy.rs "buf.len() > 64 * 1024": for any limit and size of reads, no head within
   the limit is refused, and none goes through that is over it by more than a read. *)
THEOREM LimitIsKept == Spec => []HeadLimit
<1>1. PInv => HeadLimit
  BY DEF PInv, Stages, HeadLimit
<1> QED
  BY <1>1, ProxyInvariant, PTL

-----------------------------------------------------------------------------
(* What has been shown is what the cache has. *)
Shown == \A c \in shown : plan.sni \in DOMAIN cache /\ c = cache[plan.sni]

(* cert.rs mint: for any plan and any failures, the client is shown one
   certificate on all its connections. *)
THEOREM CertificateIsKept == Spec => []OneCertificate
<1>1. Init => Shown
  BY DEF Init, Shown
<1>2. Shown /\ [Next]_vars => Shown'
  <2> SUFFICES ASSUME Shown, [Next]_vars PROVE Shown'
    OBVIOUS
  <2>1. CASE Accept
    <3>1. plan' = plan
      BY <2>1 DEF Accept
    <3>2. CASE UNCHANGED <<cache, shown>>
      BY <3>1, <3>2 DEF Shown
    <3>3. CASE ~UNCHANGED <<cache, shown>>
      <4>1. /\ mint(plan.sni)
            /\ shown' = shown \cup {IF plan.sni \in DOMAIN cache THEN cache[plan.sni] ELSE minted'}
        BY <2>1, <3>3 DEF Accept
      <4>2. CASE plan.sni \in DOMAIN cache
        BY <3>1, <4>1, <4>2 DEF Shown, mint
      <4>3. CASE plan.sni \notin DOMAIN cache
        <5>1. shown = {}
          BY <4>3 DEF Shown
        <5>2. cache' = [n \in DOMAIN cache \cup {plan.sni} |-> IF n = plan.sni THEN minted' ELSE cache[n]]
          BY <4>1, <4>3 DEF mint
        <5>3. plan.sni \in DOMAIN cache' /\ cache'[plan.sni] = minted'
          BY <5>2
        <5> QED
          BY <3>1, <4>1, <4>3, <5>1, <5>3 DEF Shown
      <4> QED
        BY <4>2, <4>3
    <3> QED
      BY <3>2, <3>3
  <2>2. CASE UNCHANGED <<plan, cache, shown>>
    BY <2>2 DEF Shown
  <2>3. ~Accept => UNCHANGED <<plan, cache, shown>>
    BY DEF Next, Client, Handler, Upstream, Done, vars, ClientOpens, ClientSends, ClientCloses, ReadHead,
           GiveUp, Connect, SendHead, SendRest, SpliceUp, SpliceUpEof, SpliceDown, SpliceDownEof,
           SpliceEnds, Hangup, UpstreamActs, UpstreamCloses
  <2> QED
    BY <2>1, <2>2, <2>3
<1>3. Shown => OneCertificate
  BY DEF Shown, OneCertificate
<1> QED
  BY <1>1, <1>2, <1>3, PTL DEF Spec
-----------------------------------------------------------------------------
(* What the client says on a connection begins with a request of the plan. *)
Asked ==
    /\ \A i \in DOMAIN todo : \E j \in DOMAIN plan.requests : todo[i] = plan.requests[j]
    /\ client.said # << >> => \E j \in DOMAIN plan.requests : \E r \in Stream :
                                client.said = plan.requests[j] \o r

(* The head is that of a request as the rule rewrites it. *)
Rewritten(head) == \E j \in DOMAIN plan.requests : RewrittenAs(HeadOf(plan.requests[j]), head)

(* An upstream that keeps to close and still listens has acted on nothing yet. *)
Once ==
    /\ {"open", "read", "replies", "eof"} \subseteq DOMAIN server
    /\ \E S : acted \in Seq(S)
    /\ Ruled => /\ server.open /\ plan.obeys => server.read = 0
                /\ \A i \in DOMAIN acted : acted[i].at = 0 \/ plan.obeys => Rewritten(acted[i].head)

(* One more at the end *)
LEMMA OneMore ==
    ASSUME NEW S, NEW s \in Seq(S), NEW x
    PROVE  /\ \E T : Append(s, x) \in Seq(T)
           /\ \A i \in DOMAIN Append(s, x) :
                 (i \in DOMAIN s /\ Append(s, x)[i] = s[i]) \/ Append(s, x)[i] = x
<1> DEFINE T == S \cup {x}
<1>1. s \in Seq(T)
  BY SeqMonotonic
<1>2. x \in T
  OBVIOUS
<1> HIDE DEF T
<1>3. Append(s, x) \in Seq(T)
  BY <1>1, <1>2
<1>4. \A i \in DOMAIN Append(s, x) :
         (i \in DOMAIN s /\ Append(s, x)[i] = s[i]) \/ Append(s, x)[i] = x
  BY <1>1, <1>2
<1> QED
  BY <1>3, <1>4

LEMMA ServerFields ==
    ASSUME NEW r, {"open", "read", "replies", "eof"} \subseteq DOMAIN r, NEW u, NEW v, NEW w
    PROVE  /\ DOMAIN [r EXCEPT !.open = u] = DOMAIN r /\ [r EXCEPT !.open = u].open = u
           /\ [r EXCEPT !.open = u].read = r.read
           /\ DOMAIN [r EXCEPT !.eof = u] = DOMAIN r /\ [r EXCEPT !.eof = u].open = r.open
           /\ [r EXCEPT !.eof = u].read = r.read
           /\ DOMAIN [r EXCEPT !.replies = u] = DOMAIN r /\ [r EXCEPT !.replies = u].open = r.open
           /\ [r EXCEPT !.replies = u].read = r.read
           /\ DOMAIN [r EXCEPT !.read = u, !.replies = v, !.open = w] = DOMAIN r
           /\ [r EXCEPT !.read = u, !.replies = v, !.open = w].open = w
OBVIOUS

LEMMA NoServerFields ==
    /\ {"open", "read", "replies", "eof"} \subseteq DOMAIN NoServer
    /\ NoServer.read = 0 /\ ~NoServer.open
<1>1. PICK f : f = FALSE
  OBVIOUS
<1>2. NoServer = [open |-> f, read |-> 0, replies |-> << >>, eof |-> f]
  BY <1>1, Zenon DEF NoServer
<1>3. {"open", "read", "replies", "eof"} \subseteq DOMAIN NoServer /\ NoServer.read = 0 /\ NoServer.open = f
  BY <1>2
<1> QED
  BY <1>1, <1>3

LEMMA SameRuled ==
    ASSUME plan' = plan
    PROVE  Ruled' <=> Ruled
BY DEF Ruled

LEMMA KeepAsked ==
    ASSUME PInv, Asked, [Next]_vars
    PROVE  Asked' /\ plan' = plan
<1>1. plan' = plan
  BY DEF Next, Client, Handler, Upstream, Done, vars, ClientOpens, ClientSends, ClientCloses, Accept, ReadHead,
         GiveUp, Connect, SendHead, SendRest, SpliceUp, SpliceUpEof, SpliceDown, SpliceDownEof,
         SpliceEnds, Hangup, UpstreamActs, UpstreamCloses
<1>2. todo \in Seq(Stream) /\ client.said \in Stream
  BY DEF PInv, Typed
<1>3. CASE ClientSends
  <2> DEFINE x == todo[client.sent + 1]
             said == client.said
  <2>1. todo' = todo /\ client' = [client EXCEPT !.sent = client.sent + 1, !.said = said \o x]
    BY <1>3 DEF ClientSends
  <2>2. client'.said = said \o x
    BY <2>1, ClientFields DEF PInv, Typed
  <2>3. client.sent + 1 \in DOMAIN todo /\ x \in Stream
    BY <1>3 DEF ClientSends, PInv, Typed
  <2>4. PICK j \in DOMAIN plan.requests : x = plan.requests[j]
    BY <2>3 DEF Asked
  <2> HIDE DEF x, said
  <2>5. CASE said = << >>
    <3>1. said \o x = x /\ x \o << >> = x
      BY <2>3, <2>5, ConcatEmptySeq DEF Stream
    <3> QED
      BY <1>1, <2>1, <2>2, <2>4, <3>1, EmptyStream DEF Asked
  <2>6. CASE said # << >>
    <3>1. PICK k \in DOMAIN plan.requests, r \in Stream : said = plan.requests[k] \o r
      BY <2>6 DEF Asked, said
    <3> DEFINE q == plan.requests[k]
    <3>2. q \in Seq(Piece)
      <4>1. plan \in [sni : STRING, tls : BOOLEAN, requests : Seq(Seq(Token)), obeys : BOOLEAN]
        BY ProxyAssumption DEF PInv, Typed
      <4>2. plan.requests \in Seq(Seq(Token))
        BY <4>1
      <4>3. q \in Seq(Token)
        BY <4>2
      <4> HIDE DEF q
      <4>4. Token \subseteq Piece
        BY DEF Piece
      <4> QED
        BY <4>3, <4>4, SeqMonotonic
    <3>3. said = q \o r
      BY <3>1
    <3> HIDE DEF q
    <3>4. r \in Seq(Piece) /\ x \in Seq(Piece)
      BY <2>3 DEF Stream
    <3>5. (q \o r) \o x = q \o (r \o x)
      BY <3>2, <3>4, ConcatAssociative, SMTT(60)
    <3>6. r \o x \in Stream
      BY <3>4 DEF Stream
    <3>7. said \o x = q \o (r \o x)
      BY <3>3, <3>5
    <3> QED
      BY <1>1, <2>1, <2>2, <3>6, <3>7 DEF Asked, q
  <2> QED
    BY <1>1, <2>5, <2>6
<1>4. CASE SpliceDown
  <2>1. UNCHANGED <<todo, client>> \/ todo' = Tail(todo)
    BY <1>4 DEF SpliceDown
  <2>2. client'.said = client.said
    <3>1. CASE UNCHANGED <<todo, client>>
      BY <3>1
    <3>2. CASE ~UNCHANGED <<todo, client>>
      <4>1. \E c : client' = [client EXCEPT !.sent = client.sent - 1, !.closing = c]
        BY <1>4, <3>2 DEF SpliceDown
      <4> QED
        BY <4>1, ClientFields DEF PInv, Typed
    <3> QED
      BY <3>1, <3>2
  <2>3. ASSUME NEW i \in DOMAIN todo' PROVE \E k \in DOMAIN todo : todo'[i] = todo[k]
    <3>1. CASE UNCHANGED <<todo, client>>
      BY <3>1
    <3>2. CASE ~UNCHANGED <<todo, client>>
      <4>1. todo' = Tail(todo) /\ client.sent > 0 /\ client.sent \in Nat /\ client.sent <= Len(todo)
        BY <1>4, <3>2 DEF SpliceDown, PInv, Typed
      <4>2. todo # << >> /\ Len(todo) \in Nat
        BY <1>2, <4>1
      <4>3. i \in 1..(Len(todo) - 1) /\ todo'[i] = todo[i + 1]
        BY <1>2, <4>1, <4>2
      <4>4. i + 1 \in DOMAIN todo
        BY <1>2, <4>2, <4>3
      <4> QED
        BY <4>3, <4>4
    <3> QED
      BY <3>1, <3>2
  <2> QED
    BY <1>1, <2>2, <2>3 DEF Asked
<1>5. ASSUME ~ClientSends, ~SpliceDown
      PROVE  (todo' = todo \/ todo' = << >>) /\ (client'.said = client.said \/ client'.said = << >>)
  <2>1. CASE ClientOpens
    <3>1. PICK t : t = TRUE
      OBVIOUS
    <3>2. client' = [Away EXCEPT !.open = t]
      BY <2>1, <3>1, Zenon DEF ClientOpens
    <3> QED
      BY <2>1, <3>2, AwayFields, ClientFields DEF ClientOpens
  <2>2. CASE ClientCloses
    <3>1. PICK f : f = FALSE
      OBVIOUS
    <3>2. client' = [client EXCEPT !.open = f]
      BY <2>2, <3>1, Zenon DEF ClientCloses
    <3> QED
      BY <2>2, <3>2, ClientFields DEF ClientCloses, PInv, Typed
  <2>3. CASE SpliceDownEof
    <3>1. PICK t : t = TRUE
      OBVIOUS
    <3>2. client' = [client EXCEPT !.eof = t]
      BY <2>3, <3>1, Zenon DEF SpliceDownEof
    <3> QED
      BY <2>3, <3>2, ClientFields DEF SpliceDownEof, PInv, Typed
  <2>4. CASE Hangup
    BY <2>4, AwayFields DEF Hangup
  <2>5. CASE ClientGivesUp
    BY <2>5, ClientHasGivenUp DEF ClientGivesUp
  <2>6. CASE UNCHANGED <<todo, client>>
    BY <2>6
  <2>7. CASE Accept \/ GiveUp
    BY <2>5, <2>6, <2>7 DEF Accept, GiveUp
  <2> QED
    BY <1>5, <2>1, <2>2, <2>3, <2>4, <2>6, <2>7
       DEF Next, Client, Handler, Upstream, Done, vars, ReadHead, Connect, SendHead, SendRest, SpliceUp,
           SpliceUpEof, SpliceEnds, UpstreamActs, UpstreamCloses
<1>6. CASE ~ClientSends /\ ~SpliceDown
  <2>1. DOMAIN << >> = {}
    OBVIOUS
  <2> QED
    BY <1>1, <1>5, <1>6, <2>1 DEF Asked
<1> QED
  BY <1>1, <1>3, <1>4, <1>6
(* The first head an upstream finds is that of the first request, rewritten; it *)
(* says close.                                                                  *)
LEMMA FirstActed ==
    ASSUME PInv, Asked, Ruled, server.read = 0,
           find_headers_end(From(up, server.read)) # 0
    PROVE  LET rest == From(up, server.read)
               head == SubSeq(rest, 1, find_headers_end(rest))
           IN SaysClose(head) /\ Rewritten(head)
<1> DEFINE said == client.said
<1>1. up \in Seq(Piece)
  BY DEF PInv, Typed, Stream
<1>2. From(up, 0) = up
  <2>1. SubSeq(up, 1, Len(up)) = up
    BY <1>1, SubSeqFull
  <2> QED
    BY <1>1, <2>1 DEF From
<1>3. up # << >>
  <2>1. HeadEnds(<< >>) = {}
    BY DEF HeadEnds
  <2>2. find_headers_end(<< >>) = 0
    BY <2>1 DEF find_headers_end
  <2> QED
    BY <1>2, <2>2
<1>4. /\ said \in Stream /\ find_headers_end(said) # 0
      /\ SubSeq(up, 1, find_headers_end(up)) = Front(said)
  BY <1>3, FirstUpstream
<1>5. said # << >>
  <2>1. HeadEnds(<< >>) = {}
    BY DEF HeadEnds
  <2>2. find_headers_end(<< >>) = 0
    BY <2>1 DEF find_headers_end
  <2> QED
    BY <1>4, <2>2
<1>6. PICK j \in DOMAIN plan.requests, r \in Stream : said = plan.requests[j] \o r
  BY <1>5 DEF Asked
<1> DEFINE q == plan.requests[j]
           h == HeadOf(q)
           rule == matching(host(h))
           p == find_headers_end(q)
<1>7. q \in Seq(Piece)
  <2>1. plan \in [sni : STRING, tls : BOOLEAN, requests : Seq(Seq(Token)), obeys : BOOLEAN]
    BY ProxyAssumption DEF PInv, Typed
  <2>2. plan.requests \in Seq(Seq(Token))
    BY <2>1
  <2>3. q \in Seq(Token)
    BY <2>2
  <2> HIDE DEF q
  <2>4. Token \subseteq Piece
    BY DEF Piece
  <2> QED
    BY <2>3, <2>4, SeqMonotonic
<1>8. parses(h) /\ rule # 0 /\ "connection" \notin Names(Rules[rule].headers)
  BY DEF Ruled
<1>9. said = q \o r /\ r \in Seq(Piece)
  BY <1>6 DEF Stream
<1>10. h = SubSeq(q, 1, p)
  BY DEF HeadOf
<1>11. h # << >>
  BY <1>8 DEF parses
<1> HIDE DEF q, rule, h, said
<1>12. p # 0 /\ p \in 0..Len(q)
  <2>1. p \in 0..Len(q)
    BY <1>7, FirstEnd
  <2>2. p = 0 => SubSeq(q, 1, p) = << >>
    BY <1>7
  <2> QED
    BY <1>10, <1>11, <2>1, <2>2
<1>13. h \in Seq(Piece) /\ find_headers_end(h) = Len(h)
  BY <1>7, <1>10, <1>12, EndOfHead
<1>14. find_headers_end(said) = p /\ SubSeq(said, 1, p) = h
  <2>1. find_headers_end(q \o r) = p
    BY <1>7, <1>9, <1>12, EndsJoined
  <2>2. SubSeq(q \o r, 1, p) = SubSeq(q, 1, p)
    BY <1>7, <1>9, <1>12, FromJoined
  <2> QED
    BY <1>9, <1>10, <2>1, <2>2
<1>15. Front(said) = rewrite_head(h)
  BY <1>14 DEF Front
<1>16. RewrittenAs(h, rewrite_head(h)) /\ SaysClose(rewrite_head(h))
  BY <1>8, <1>11, <1>13, RewriteHead DEF Stream, rule
<1>17. Rewritten(rewrite_head(h))
  BY <1>16 DEF Rewritten, h, q
<1> QED
  BY <1>2, <1>4, <1>15, <1>16, <1>17

LEMMA KeepOnce ==
    ASSUME PInv, Asked, Once, [Next]_vars
    PROVE  Once'
<1>1. plan' = plan /\ (Ruled' <=> Ruled)
  BY KeepAsked, SameRuled
<1>2. CASE UpstreamActs
  <2> DEFINE rest == From(up, server.read)
             p == find_headers_end(rest)
             head == SubSeq(rest, 1, p)
             closes == ~parses(head) \/ (SaysClose(head) /\ plan.obeys)
             x == [at |-> server.read, head |-> head]
  <2>1. /\ server.open /\ p # 0 /\ acted' = Append(acted, x)
        /\ server' = [server EXCEPT !.read = @ + p, !.replies = Append(@, closes), !.open = ~closes]
    BY <1>2 DEF UpstreamActs
  <2>2. \E u, v : server' = [server EXCEPT !.read = u, !.replies = v, !.open = ~closes]
    BY <2>1
  <2>a. x.at = server.read /\ x.head = head
    OBVIOUS
  <2>b. server.read = 0 /\ Ruled => SaysClose(head) /\ Rewritten(head)
    BY <2>1, FirstActed
  <2> HIDE DEF closes, head, p, x
  <2>3. DOMAIN server' = DOMAIN server /\ (server'.open <=> ~closes)
    <3>1. PICK u, v : server' = [server EXCEPT !.read = u, !.replies = v, !.open = ~closes]
      BY <2>2
    <3>2. PICK w : w = ~closes
      OBVIOUS
    <3>3. server' = [server EXCEPT !.read = u, !.replies = v, !.open = w]
      BY <3>1, <3>2, Zenon
    <3>4. DOMAIN server' = DOMAIN server /\ server'.open = w
      BY <3>3, ServerFields DEF Once
    <3> QED
      BY <3>2, <3>4, Zenon
  <2>4. PICK S : acted \in Seq(S)
    BY DEF Once
  <2>5. /\ \E T : acted' \in Seq(T)
        /\ \A i \in DOMAIN acted' : (i \in DOMAIN acted /\ acted'[i] = acted[i]) \/ acted'[i] = x
    BY <2>1, <2>4, OneMore
  <2>6. ASSUME Ruled PROVE server'.open /\ plan.obeys => server'.read = 0
    <3>1. SUFFICES ASSUME plan.obeys PROVE ~server'.open
      OBVIOUS
    <3>2. server.read = 0
      BY <2>1, <2>6, <3>1 DEF Once
    <3> QED
      BY <2>3, <2>6, <2>b, <3>1, <3>2 DEF closes
  <2>7. ASSUME Ruled, NEW i \in DOMAIN acted', acted'[i].at = 0 \/ plan.obeys PROVE Rewritten(acted'[i].head)
    <3>1. CASE i \in DOMAIN acted /\ acted'[i] = acted[i]
      BY <2>7, <3>1 DEF Once
    <3>2. CASE acted'[i] = x
      <4>1. server.read = 0
        BY <2>1, <2>7, <2>a, <3>2 DEF Once
      <4> QED
        BY <2>7, <2>a, <2>b, <3>2, <4>1
    <3> QED
      BY <2>5, <3>1, <3>2
  <2> QED
    BY <1>1, <2>3, <2>5, <2>6, <2>7 DEF Once, Rewritten
<1>3. ASSUME acted' = acted, DOMAIN server' = DOMAIN server,
             server'.open => server'.read = 0 \/ (server.open /\ server'.read = server.read)
      PROVE  Once'
  BY <1>1, <1>3 DEF Once, Rewritten
<1>4. CASE Connect
  <2>1. PICK t : t = TRUE
    OBVIOUS
  <2>2. server' = [NoServer EXCEPT !.open = t] /\ acted' = acted
    BY <1>4, <2>1, Zenon DEF Connect
  <2>3. {"open", "read", "replies", "eof"} \subseteq DOMAIN server' /\ server'.read = 0
    BY <2>2, NoServerFields, ServerFields
  <2> QED
    BY <1>1, <2>2, <2>3 DEF Once, Rewritten
<1>5. CASE Hangup
  BY <1>1, <1>5, NoServerFields DEF Once, Hangup, Rewritten
<1>6. CASE SpliceUpEof
  <2>1. PICK t : t = TRUE
    OBVIOUS
  <2>2. server' = [server EXCEPT !.eof = t] /\ acted' = acted
    BY <1>6, <2>1, Zenon DEF SpliceUpEof
  <2> QED
    BY <1>3, <2>2, ServerFields DEF Once
<1>7. CASE SpliceDown
  <2>1. server' = [server EXCEPT !.replies = Tail(server.replies)] /\ acted' = acted
    BY <1>7 DEF SpliceDown
  <2> QED
    BY <1>3, <2>1, ServerFields DEF Once
<1>8. CASE UpstreamCloses
  <2>1. PICK f : f = FALSE
    OBVIOUS
  <2>2. server' = [server EXCEPT !.open = f] /\ acted' = acted
    BY <1>8, <2>1, Zenon DEF UpstreamCloses
  <2>3. DOMAIN server' = DOMAIN server /\ server'.open = f
    BY <2>2, ServerFields DEF Once
  <2> QED
    BY <1>3, <2>1, <2>2, <2>3
<1>9. CASE UNCHANGED <<server, acted>>
  BY <1>3, <1>9
<1>10. \/ UpstreamActs \/ Connect \/ Hangup \/ SpliceUpEof \/ SpliceDown \/ UpstreamCloses
       \/ UNCHANGED <<server, acted>>
  BY DEF Next, Client, Handler, Upstream, Done, vars, ClientOpens, ClientSends, ClientCloses, Accept, ReadHead,
         GiveUp, SendHead, SendRest, SpliceUp, SpliceDownEof, SpliceEnds
<1> QED
  BY <1>2, <1>4, <1>5, <1>6, <1>7, <1>8, <1>9, <1>10

(* proxy.rs "a keep-alive connection would let requests 2..N through unrewritten":
   for any requests to a host with a rule, with bodies or without, any pipelining,
   reuse and retry of the client and any failure, the first head an upstream acts
   on on a connection, and all heads of an upstream that keeps to close, are those
   of requests as the rule rewrites them. *)
THEOREM NoRequestEscapes == Spec => []EveryRequestRewritten
<1>1. Init => Asked /\ Once
  <2> SUFFICES ASSUME Init PROVE Asked /\ Once
    OBVIOUS
  <2>1. client.said = << >> /\ todo = plan.requests /\ server = NoServer /\ acted = << >>
    BY AwayFields DEF Init
  <2>2. (\E S : acted \in Seq(S)) /\ DOMAIN acted = {}
    <3>1. acted \in Seq(Stream)
      BY <2>1
    <3> QED
      BY <2>1, <3>1
  <2> QED
    BY <2>1, <2>2, NoServerFields DEF Asked, Once
<1>2. PInv /\ Asked /\ Once /\ [Next]_vars => Asked' /\ Once'
  BY KeepAsked, KeepOnce
<1>3. Once => EveryRequestRewritten
  BY DEF Once, EveryRequestRewritten, Rewritten
<1> QED
  BY <1>1, <1>2, <1>3, ProxyInvariant, PTL DEF Spec
=============================================================================
