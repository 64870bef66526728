-------------------------- MODULE ListenersProofs --------------------------
(***************************************************************************)
(* Proofs about Listeners: what ensure_listeners makes of any set of       *)
(* sockets, and the safety properties of the event loop for any number of  *)
(* connections, ports and failed reads, and any backlog.                   *)
(***************************************************************************)
EXTENDS Listeners, PicksProofs

(* Something is the same size as the numbers it is counted by. *)
LEMMA InjectionOnto ==
    ASSUME NEW S, NEW n \in Nat, IsFiniteSet(S), Cardinality(S) = n,
           NEW f \in [S -> 1..n], \A x, y \in S : f[x] = f[y] => x = y
    PROVE  \A k \in 1..n : \E x \in S : f[x] = k
<1>1. f \in Injection(S, 1..n)
  BY DEF Injection, IsInjective
<1>2. IsFiniteSet(1..n) /\ Cardinality(1..n) = n
  BY FS_Interval
<1>3. f \in Surjection(S, 1..n)
  BY <1>1, <1>2, FS_Injection
<1> QED
  BY <1>3 DEF Surjection

-----------------------------------------------------------------------------
(* The rounds of the loops of ensure_listeners *)

Upto(q, r) == q[1] < r[1] \/ (q[1] = r[1] /\ q[2] <= r[2])

LEMMA UptoOrder ==
    ASSUME NEW R \in SUBSET (Nat \X Nat)
    PROVE  /\ \A r \in R : Upto(r, r)
           /\ \A q, r \in R : Upto(q, r) \/ Upto(r, q)
           /\ \A q, r \in R : Upto(q, r) /\ Upto(r, q) => q = r
           /\ \A p, q, r \in R : Upto(p, q) /\ Upto(q, r) => Upto(p, r)
<1>1. \A r \in R : r[1] \in Nat /\ r[2] \in Nat /\ r = <<r[1], r[2]>>
  OBVIOUS
<1>2. \A r \in R : Upto(r, r)
  BY <1>1 DEF Upto
<1>3. \A q, r \in R : Upto(q, r) \/ Upto(r, q)
  BY <1>1 DEF Upto
<1>4. ASSUME NEW q \in R, NEW r \in R, Upto(q, r), Upto(r, q) PROVE q = r
  <2>1. q[1] = r[1] /\ q[2] = r[2]
    BY <1>1, <1>4 DEF Upto
  <2> QED
    BY <1>1, <2>1
<1>5. \A p, q, r \in R : Upto(p, q) /\ Upto(q, r) => Upto(p, r)
  BY <1>1 DEF Upto
<1> QED
  BY <1>2, <1>3, <1>4, <1>5

(* The rounds are numbered from 1 on. *)
LEMMA RoundNumbers ==
    ASSUME NEW R \in SUBSET (Nat \X Nat), IsFiniteSet(R)
    PROVE  /\ Cardinality(R) \in Nat
           /\ \A r \in R : RoundNo(R, r) \in 1..Cardinality(R)
           /\ \A q, r \in R : RoundNo(R, q) = RoundNo(R, r) => q = r
           /\ \A k \in 1..Cardinality(R) : \E r \in R : RoundNo(R, r) = k
<1> DEFINE N == Cardinality(R)
           U(r) == {q \in R : Upto(q, r)}
           f == [r \in R |-> Cardinality(U(r))]
<1>1. N \in Nat
  BY FS_CardinalityType
<1>2. \A r \in R : RoundNo(R, r) = Cardinality(U(r))
  BY DEF RoundNo, Upto
<1>3. ASSUME NEW r \in R
      PROVE  /\ IsFiniteSet(U(r)) /\ Cardinality(U(r)) \in 1..N
  <2>1. U(r) \in SUBSET R /\ r \in U(r)
    BY UptoOrder
  <2>2. IsFiniteSet(U(r)) /\ Cardinality(U(r)) <= N /\ Cardinality(U(r)) \in Nat
    BY <2>1, FS_Subset, FS_CardinalityType
  <2>3. Cardinality(U(r)) # 0
    BY <2>1, <2>2, FS_EmptySet
  <2> HIDE DEF U, N
  <2> QED
    BY <1>1, <2>2, <2>3
<1>4. ASSUME NEW q \in R, NEW r \in R, Cardinality(U(q)) = Cardinality(U(r)), Upto(q, r)
      PROVE  q = r
  <2>1. U(q) \in SUBSET U(r)
    BY <1>4, UptoOrder
  <2>2. U(q) = U(r)
    BY <1>3, <1>4, <2>1, FS_Subset
  <2>3. r \in U(r)
    BY UptoOrder
  <2>4. Upto(r, q)
    BY <2>2, <2>3
  <2> QED
    BY <1>4, <2>4, UptoOrder
<1>5. \A q, r \in R : Cardinality(U(q)) = Cardinality(U(r)) => q = r
  BY <1>4, UptoOrder
<1>6. f \in [R -> 1..N] /\ \A q, r \in R : f[q] = f[r] => q = r
  <2> HIDE DEF U, N
  <2> QED
    BY <1>3, <1>5
<1>7. \A k \in 1..N : \E r \in R : f[r] = k
  <2> HIDE DEF f
  <2> QED
    BY <1>1, <1>6, InjectionOnto
<1> HIDE DEF U, N
<1> QED
  BY <1>1, <1>2, <1>3, <1>5, <1>7 DEF N

(* So there is a round for every port that lacks a listener. *)
LEMMA RoundPorts ==
    ASSUME NEW R \in SUBSET (Nat \X Nat), IsFiniteSet(R)
    PROVE  /\ \A k \in 1..Cardinality(R) : \E r \in R : RoundNo(R, r) = k /\ RoundPort(R, k) = r[1]
           /\ \A r \in R : RoundPort(R, RoundNo(R, r)) = r[1]
<1>1. ASSUME NEW k \in 1..Cardinality(R)
      PROVE  \E r \in R : RoundNo(R, r) = k /\ RoundPort(R, k) = r[1]
  BY RoundNumbers DEF RoundPort
<1>2. ASSUME NEW r \in R PROVE RoundPort(R, RoundNo(R, r)) = r[1]
  <2>1. RoundNo(R, r) \in 1..Cardinality(R)
    BY RoundNumbers
  <2>2. PICK q \in R : RoundNo(R, q) = RoundNo(R, r) /\ RoundPort(R, RoundNo(R, r)) = q[1]
    BY <1>1, <2>1
  <2> QED
    BY <2>2, RoundNumbers
<1> QED
  BY <1>1, <1>2

-----------------------------------------------------------------------------
(* ensure_listeners *)

Entry == [h : Nat \ {0}, port : Ports]

(* What is added to a table: new listeners, with sockets at handles that were free *)
Extends(s, l, new, e) ==
    /\ e.listeners = l \o new
    /\ DOMAIN e.sockets = DOMAIN s \cup {new[k].h : k \in DOMAIN new}
    /\ \A h \in DOMAIN s : e.sockets[h] = s[h]
    /\ \A k \in DOMAIN new : /\ new[k].h \notin DOMAIN s
                            /\ e.sockets[new[k].h] = Socket("Listen", new[k].port, NoClient)
    /\ \A j, k \in DOMAIN new : new[j].h = new[k].h => j = k

(* The rounds, and as many free handles *)
LEMMA FreeHandles ==
    ASSUME NEW U, NEW m \in Nat, U \in SUBSET (1..m), NEW N \in Nat
    PROVE  LET M == Cardinality(U) + N
               free == (1..M) \ U
           IN /\ M \in Nat
              /\ free \in SUBSET (1..M)
              /\ Cardinality(free) \in Nat /\ N <= Cardinality(free)
<1> DEFINE M == Cardinality(U) + N
           I == 1..M
<1>1. IsFiniteSet(U) /\ Cardinality(U) \in Nat
  BY UptoFinite
<1>2. M \in Nat
  BY <1>1
<1>3. IsFiniteSet(I) /\ Cardinality(I) = M
  <2> HIDE DEF M
  <2> QED
    BY <1>2, FS_Interval
<1>4. Cardinality(I \cap U) <= Cardinality(U) /\ Cardinality(I \cap U) \in Nat
  BY <1>1, FS_Intersection, FS_CardinalityType
<1>5. /\ IsFiniteSet(I \ U)
      /\ Cardinality(I \ U) = Cardinality(I) - Cardinality(I \cap U)
  BY <1>3, FS_Difference
<1>6. Cardinality(I \ U) \in Nat /\ N <= Cardinality(I \ U)
  <2>1. Cardinality(I \ U) \in Nat
    BY <1>5, FS_CardinalityType
  <2> HIDE DEF I
  <2> QED
    BY <1>1, <1>3, <1>4, <1>5, <2>1
<1> QED
  BY <1>2, <1>6

LEMMA RoundsFinite ==
    ASSUME NEW tbl, NEW ports \in SUBSET Ports
    PROVE  /\ Rounds(tbl, ports) \in SUBSET (Nat \X Nat)
           /\ IsFiniteSet(Rounds(tbl, ports))
           /\ \A r \in Rounds(tbl, ports) : r[1] \in ports
<1> DEFINE P == ports \ {0}
           B == 1..LISTEN_BACKLOG
<1>1. IsFiniteSet(P) /\ IsFiniteSet(B) /\ P \subseteq Nat /\ B \subseteq Nat
  <2>1. P \in SUBSET Ports /\ IsFiniteSet(Ports) /\ Ports \subseteq Nat /\ LISTEN_BACKLOG \in Nat
    BY ListenersAssumption
  <2>2. IsFiniteSet(P)
    BY <2>1, FS_Subset
  <2>3. IsFiniteSet(B)
    BY <2>1, FS_Interval
  <2> QED
    BY <2>1, <2>2, <2>3
<1>2. Rounds(tbl, ports) \in SUBSET (P \X B)
  BY DEF Rounds
<1>3. IsFiniteSet(P \X B)
  BY <1>1, FS_Product
<1>4. IsFiniteSet(Rounds(tbl, ports))
  BY <1>2, <1>3, FS_Subset
<1>5. P \subseteq ports
  OBVIOUS
<1> HIDE DEF P, B
<1> QED
  BY <1>1, <1>2, <1>4, <1>5

Added(s, l, ports) ==
    LET R == Rounds([sockets |-> s, listeners |-> l], ports)
        free == (1..(Cardinality(DOMAIN s) + Cardinality(R))) \ DOMAIN s
    IN [k \in 1..Cardinality(R) |-> [h |-> Nth(free, k), port |-> RoundPort(R, k)]]

LEMMA Ensures ==
    ASSUME NEW s, NEW m \in Nat, DOMAIN s \subseteq 1..m, NEW l \in Seq(Entry),
           NEW ports \in SUBSET Ports
    PROVE  LET e == ensure_listeners([sockets |-> s, listeners |-> l], ports)
           IN /\ Added(s, l, ports) \in Seq(Entry)
              /\ Extends(s, l, Added(s, l, ports), e)
              /\ \E n \in Nat : DOMAIN e.sockets \subseteq 1..n
<1> DEFINE tbl == [sockets |-> s, listeners |-> l]
           R == Rounds(tbl, ports)
           N == Cardinality(R)
           used == DOMAIN s
           M == Cardinality(used) + N
           free == (1..M) \ used
           new == [k \in 1..N |-> [h |-> Nth(free, k), port |-> RoundPort(R, k)]]
           H == {new[k].h : k \in DOMAIN new}
           at(h) == new[CHOOSE k \in DOMAIN new : new[k].h = h]
           t == [h \in used \cup H |-> IF h \in used THEN s[h]
                                      ELSE Socket("Listen", at(h).port, NoClient)]
<1>1. R \in SUBSET (Nat \X Nat) /\ IsFiniteSet(R) /\ \A r \in R : r[1] \in ports
  BY RoundsFinite
<1>2. N \in Nat
  BY <1>1, FS_CardinalityType
<1>3. M \in Nat /\ free \in SUBSET (1..M) /\ Cardinality(free) \in Nat /\ N <= Cardinality(free)
  <2> HIDE DEF N
  <2> QED
    BY <1>2, FreeHandles
<1>4. \A k \in 1..N : Nth(free, k) \in free /\ RoundPort(R, k) \in ports
  <2>1. \A k \in 1..N : RoundPort(R, k) \in ports
    BY <1>1, RoundPorts
  <2>2. \A k \in 1..Cardinality(free) : Nth(free, k) \in free
    <3> HIDE DEF free, M
    <3> QED
      BY <1>3, NthOrder
  <2> HIDE DEF free, M, N
  <2> QED
    BY <1>2, <1>3, <2>1, <2>2
<1>5. \A j, k \in 1..N : Nth(free, j) = Nth(free, k) => j = k
  <2>1. \A j, k \in 1..Cardinality(free) : Nth(free, j) = Nth(free, k) => j = k
    <3> HIDE DEF free, M
    <3> QED
      BY <1>3, NthOrder
  <2> HIDE DEF free, M, N
  <2> QED
    BY <1>2, <1>3, <2>1
<1>6. \A h \in free : h \in Nat \ {0} /\ h \in 1..M /\ h \notin used
  <2>1. \A h \in 1..M : h \in Nat \ {0}
    <3> HIDE DEF M
    <3> QED
      BY <1>3
  <2> QED
    BY <1>3, <2>1
<1>7. Added(s, l, ports) = new
  BY DEF Added
<1>8. ensure_listeners(tbl, ports) = [sockets |-> t, listeners |-> l \o new]
  BY DEF ensure_listeners
<1> HIDE DEF M, free, N
<1>9. /\ new \in Seq(Entry) /\ DOMAIN new = 1..N
      /\ \A k \in 1..N : new[k].h \in free
      /\ \A j, k \in 1..N : new[j].h = new[k].h => j = k
  <2>1. \A k \in 1..N : new[k] \in Entry /\ new[k].h = Nth(free, k)
    BY <1>4, <1>6 DEF Entry
  <2>2. DOMAIN new = 1..N /\ new \in [1..N -> Entry]
    BY <2>1
  <2> HIDE DEF new
  <2> QED
    BY <1>2, <1>4, <1>5, <2>1, <2>2
<1> HIDE DEF new
<1>10. \A k \in DOMAIN new : new[k].h \in H /\ at(new[k].h) = new[k]
  BY <1>9
<1>11. /\ DOMAIN t = used \cup H
       /\ \A h \in used : t[h] = s[h]
       /\ \A k \in DOMAIN new : /\ new[k].h \notin used
                               /\ t[new[k].h] = Socket("Listen", new[k].port, NoClient)
  <2>1. \A k \in DOMAIN new : new[k].h \notin used /\ new[k].h \in H
    BY <1>6, <1>9
  <2> HIDE DEF H
  <2> QED
    BY <1>10, <2>1
<1>12. \E n \in Nat : used \cup H \subseteq 1..n
  <2>1. H \subseteq 1..M
    BY <1>6, <1>9
  <2>2. PICK n \in Nat : m <= n /\ M <= n
    BY <1>3
  <2>3. 1..m \subseteq 1..n /\ 1..M \subseteq 1..n
    BY <1>3, <2>2
  <2> HIDE DEF H
  <2> QED
    BY <2>1, <2>3
<1> HIDE DEF t
<1>13. Extends(s, l, new, [sockets |-> t, listeners |-> l \o new])
  BY <1>9, <1>11 DEF Extends
<1> DEFINE e == ensure_listeners(tbl, ports)
<1>14. e.sockets = t /\ Extends(s, l, new, e)
  BY <1>8, <1>13
<1>15. \E n \in Nat : DOMAIN e.sockets \subseteq 1..n
  <2> HIDE DEF H, e
  <2> QED
    BY <1>11, <1>12, <1>14
<1> HIDE DEF H
<1> QED
  BY <1>7, <1>9, <1>14, <1>15

(* ensure_listeners, "top up each wanted port to a full backlog" *)
LEMMA FullBacklog ==
    ASSUME NEW s, NEW m \in Nat, DOMAIN s \subseteq 1..m, NEW l \in Seq(Entry),
           NEW ports \in SUBSET Ports, NEW p \in ports \ {0}
    PROVE  LET e == ensure_listeners([sockets |-> s, listeners |-> l], ports)
           IN LISTEN_BACKLOG <= Cardinality(Listening(e, p))
<1> DEFINE tbl == [sockets |-> s, listeners |-> l]
           e == ensure_listeners(tbl, ports)
           new == Added(s, l, ports)
           R == Rounds(tbl, ports)
           n == Len(l)
           B == LISTEN_BACKLOG
           O == {i \in 1..n : l[i].port = p}
           c == Cardinality(O)
           L == {i \in 1..(n + Len(new)) : (l \o new)[i].port = p}
<1>1. n \in Nat /\ DOMAIN l = 1..n /\ B \in Nat
  BY ListenersAssumption
<1>2. new \in Seq(Entry) /\ Extends(s, l, new, e)
  BY Ensures
<1>3. R \in SUBSET (Nat \X Nat) /\ IsFiniteSet(R)
  BY RoundsFinite
<1>4. DOMAIN new = 1..Cardinality(R) /\ \A k \in DOMAIN new : new[k].port = RoundPort(R, k)
  BY DEF Added
<1>5. IsFiniteSet(O) /\ c \in Nat /\ have(tbl, p) = c
  <2>1. O \in SUBSET (1..n)
    OBVIOUS
  <2>2. have(tbl, p) = c
    BY <1>1 DEF have, Listening
  <2> HIDE DEF O, n
  <2> QED
    BY <1>1, <2>1, <2>2, UptoFinite DEF n
<1>6. Listening(e, p) = L
  <2>1. e.listeners = l \o new
    BY <1>2 DEF Extends
  <2>2. DOMAIN (l \o new) = 1..(n + Len(new))
    BY <1>1, <1>2
  <2> HIDE DEF e, new, n
  <2> QED
    BY <2>1, <2>2 DEF Listening
<1>7. /\ n + Len(new) \in Nat
      /\ \A i \in 1..n : i \in 1..(n + Len(new)) /\ (l \o new)[i] = l[i]
      /\ \A k \in DOMAIN new : n + k \in 1..(n + Len(new)) /\ (l \o new)[n + k] = new[k]
  <2> HIDE DEF new
  <2> QED
    BY <1>1, <1>2
<1>8. IsFiniteSet(L) /\ Cardinality(L) \in Nat
  <2>1. L \in SUBSET (1..(n + Len(new)))
    OBVIOUS
  <2> HIDE DEF L, n, new
  <2> QED
    BY <1>7, <2>1, UptoFinite
<1> SUFFICES B <= Cardinality(L)
  BY <1>6
<1>9. O \subseteq L
  BY <1>7
<1>10. CASE B <= c
  <2>1. c <= Cardinality(L)
    <3> HIDE DEF O, L
    <3> QED
      BY <1>8, <1>9, FS_Subset
  <2> HIDE DEF c, L
  <2> QED
    BY <1>1, <1>5, <1>8, <1>10, <2>1
<1>11. CASE c < B
  <2> DEFINE K == (c + 1)..B
             f == [i \in K |-> n + RoundNo(R, <<p, i>>)]
             D == {f[i] : i \in K}
  <2>1. IsFiniteSet(K) /\ Cardinality(K) = B - c
    <3>1. c + 1 \in Int /\ B \in Int /\ ~(c + 1 > B) /\ B - (c + 1) + 1 = B - c
      <4> HIDE DEF c, B
      <4> QED
        BY <1>1, <1>5, <1>11
    <3> HIDE DEF c, B
    <3> QED
      BY <3>1, FS_Interval
  <2>2. \A i \in K : <<p, i>> \in R
    <3>1. \A i \in K : i \in 1..B /\ i > have(tbl, p)
      <4> HIDE DEF c
      <4> QED
        BY <1>1, <1>5
    <3> HIDE DEF K
    <3> QED
      BY <3>1 DEF Rounds
  <2>3. \A i \in K : RoundNo(R, <<p, i>>) \in DOMAIN new /\ new[RoundNo(R, <<p, i>>)].port = p
    <3>1. \A r \in R : RoundNo(R, r) \in 1..Cardinality(R) /\ RoundPort(R, RoundNo(R, r)) = r[1]
      BY <1>3, RoundNumbers, RoundPorts
    <3> HIDE DEF new, R, K
    <3> QED
      BY <1>4, <2>2, <3>1
  <2>4. \A i, j \in K : f[i] = f[j] => i = j
    <3>1. \A q, r \in R : RoundNo(R, q) = RoundNo(R, r) => q = r
      BY <1>3, RoundNumbers
    <3>2. \A i \in K : RoundNo(R, <<p, i>>) \in Nat
      <4>1. \A k \in DOMAIN new : k \in Nat
        BY <1>2
      <4> HIDE DEF new, R, K
      <4> QED
        BY <2>3, <4>1
    <3>3. \A i, j \in K : f[i] = f[j] => RoundNo(R, <<p, i>>) = RoundNo(R, <<p, j>>)
      <4> HIDE DEF R, K, n
      <4> QED
        BY <1>1, <3>2
    <3> HIDE DEF R, K, f
    <3> QED
      BY <2>2, <3>1, <3>3, ZenonT(60)
  <2>5. IsFiniteSet(D) /\ Cardinality(D) = B - c
    <3>1. DOMAIN f = K
      OBVIOUS
    <3> HIDE DEF f, K
    <3> QED
      BY <2>1, <2>4, <3>1, ImageCount
  <2>6. D \subseteq L
    <3>1. \A i \in K : f[i] \in L
      <4> HIDE DEF K, R, new
      <4> QED
        BY <1>7, <2>3
    <3> HIDE DEF f, K, L
    <3> QED
      BY <3>1
  <2>7. O \cap D = {}
    <3>1. \A k \in DOMAIN new : n + k \notin 1..n
      <4> HIDE DEF new
      <4> QED
        BY <1>1, <1>2
    <3>2. \A i \in K : f[i] \notin 1..n
      <4> HIDE DEF K, R, new
      <4> QED
        BY <2>3, <3>1
    <3> HIDE DEF f, K
    <3> QED
      BY <3>2
  <2> HIDE DEF D, O, L
  <2>8. Cardinality(O \cup D) = Cardinality(O) + Cardinality(D) - Cardinality(O \cap D)
    BY <1>5, <2>5, FS_Union
  <2>9. Cardinality(O \cup D) = B
    <3>1. Cardinality(O \cap D) = 0
      BY <2>7, FS_EmptySet
    <3>2. ASSUME NEW x \in Nat, NEW y, y = B - x PROVE x + y - 0 = B
      BY <1>1, <3>2
    <3> QED
      BY <1>5, <2>5, <2>8, <3>1, <3>2
  <2>10. Cardinality(O \cup D) <= Cardinality(L)
    BY <1>8, <1>9, <2>6, FS_Subset
  <2> QED
    BY <2>9, <2>10
<1> HIDE DEF c, L
<1> QED
  BY <1>1, <1>5, <1>10, <1>11

-----------------------------------------------------------------------------
(* The inductive invariant *)

Packets == [k : {"syn"}, from : Clients, port : Ports]
           \cup [k : {"ack", "end"}, from : Clients, port : {0}]
           \cup [k : {"dns"}, from : Queries, port : {0}]

States == {"Listen", "SynReceived", "Open", "Closed"}
Sockets == [st : States, port : Ports, c : Clients \cup {NoClient}]

TypeInv ==
    /\ client \in [Clients -> {"idle", "dialing", "answered", "established", "refused", "gone"}]
    /\ tun \in Seq(Packets) /\ inbox \in Seq(Packets)
    /\ ready \in BOOLEAN
    /\ \E n \in Nat : DOMAIN sockets \subseteq 1..n
    /\ \A h \in DOMAIN sockets : sockets[h] \in Sockets
    /\ listeners \in Seq(Entry)
    /\ wanted \in SUBSET Ports
    /\ taken \in [Ports -> Nat]
    /\ errors \in [n : Nat, last : BOOLEAN]
    /\ pc \in {"drain", "poll", "service", "sleep"}

(* The sockets that take a SYN for a port *)
Free(port) == {h \in DOMAIN sockets : sockets[h].st = "Listen" /\ sockets[h].port = port}

(* No SYN is handed to smoltcp before its port is wanted, and of a wanted port *)
(* a full backlog has been listening in this pass.                             *)
Backlog ==
    /\ \A i \in DOMAIN inbox : inbox[i].k = "syn" => inbox[i].port \in wanted
    /\ pc = "poll" => \A p \in wanted \ {0} : LISTEN_BACKLOG <= taken[p] + Cardinality(Free(p))

(* What is left on the TUN is announced, or its drain failed. *)
Announced == pc # "drain" /\ tun # << >> => ready \/ errors.last

Inv == TypeInv /\ OwnedOnce /\ AcceptedIsServed /\ Backlog /\ Announced

-----------------------------------------------------------------------------
(* ensure_listeners on the tables the loop has *)

Owned(s, l, c) ==
    /\ DOMAIN s = {l[i].h : i \in DOMAIN l} \cup c
    /\ \A i \in DOMAIN l : /\ l[i].h \notin c
                          /\ s[l[i].h].port = l[i].port
                          /\ \A j \in DOMAIN l : l[i].h = l[j].h => i = j

Good(s, l, c) ==
    /\ \E n \in Nat : DOMAIN s \subseteq 1..n
    /\ \A h \in DOMAIN s : s[h] \in Sockets
    /\ l \in Seq(Entry)
    /\ Owned(s, l, c)

FreeIn(s, port) == {h \in DOMAIN s : s[h].st = "Listen" /\ s[h].port = port}

LEMMA FreeFinite ==
    ASSUME NEW s, \E n \in Nat : DOMAIN s \subseteq 1..n, NEW p
    PROVE  IsFiniteSet(FreeIn(s, p)) /\ Cardinality(FreeIn(s, p)) \in Nat
<1>1. PICK n \in Nat : DOMAIN s \subseteq 1..n
  OBVIOUS
<1>2. FreeIn(s, p) \in SUBSET (1..n)
  BY <1>1 DEF FreeIn
<1> QED
  BY <1>2, UptoFinite

LEMMA EnsureGood ==
    ASSUME NEW s, NEW l, NEW c, Good(s, l, c), NEW ports \in SUBSET Ports
    PROVE  LET e == ensure_listeners([sockets |-> s, listeners |-> l], ports)
           IN /\ Good(e.sockets, e.listeners, c)
              /\ \A h \in DOMAIN e.sockets :
                    (h \in DOMAIN s /\ e.sockets[h] = s[h]) \/ e.sockets[h].st = "Listen"
<1> DEFINE e == ensure_listeners([sockets |-> s, listeners |-> l], ports)
           t == e.sockets
           r == e.listeners
           new == Added(s, l, ports)
           n == Len(l)
<1>1. l \in Seq(Entry) /\ Owned(s, l, c) /\ \A h \in DOMAIN s : s[h] \in Sockets
  BY DEF Good
<1>2. new \in Seq(Entry) /\ Extends(s, l, new, e) /\ \E m \in Nat : DOMAIN t \subseteq 1..m
  BY Ensures DEF Good
<1> HIDE DEF new, e
<1>3. /\ r = l \o new
      /\ DOMAIN t = DOMAIN s \cup {new[k].h : k \in DOMAIN new}
      /\ \A h \in DOMAIN s : t[h] = s[h]
      /\ \A k \in DOMAIN new : /\ new[k].h \notin DOMAIN s
                              /\ t[new[k].h] = Socket("Listen", new[k].port, NoClient)
      /\ \A j, k \in DOMAIN new : new[j].h = new[k].h => j = k
  BY <1>2 DEF Extends
<1> HIDE DEF t, r
<1>4. \A k \in DOMAIN new : /\ t[new[k].h] \in Sockets /\ t[new[k].h].st = "Listen"
                           /\ t[new[k].h].port = new[k].port
  <2>1. \A k \in DOMAIN new : new[k] \in Entry
    BY <1>2
  <2>2. \A p \in Ports : /\ Socket("Listen", p, NoClient) \in Sockets
                        /\ Socket("Listen", p, NoClient).st = "Listen"
                        /\ Socket("Listen", p, NoClient).port = p
    BY DEF Socket, Sockets, States
  <2>3. \A k \in DOMAIN new : new[k].port \in Ports
    BY <2>1 DEF Entry
  <2> QED
    BY <1>3, <2>2, <2>3
<1>5. \A h \in DOMAIN t : t[h] \in Sockets
  BY <1>1, <1>3, <1>4
<1>6. /\ r \in Seq(Entry)
      /\ \A i \in DOMAIN l : i \in DOMAIN r /\ r[i] = l[i]
      /\ \A k \in DOMAIN new : n + k \in DOMAIN r /\ r[n + k] = new[k]
      /\ \A i \in DOMAIN r : i \in DOMAIN l \/ \E k \in DOMAIN new : i = n + k
  <2>1. n \in Nat /\ Len(new) \in Nat /\ DOMAIN l = 1..n /\ DOMAIN new = 1..Len(new)
    BY <1>1, <1>2
  <2>2. /\ l \o new \in Seq(Entry) /\ DOMAIN (l \o new) = 1..(n + Len(new))
        /\ \A i \in 1..n : (l \o new)[i] = l[i]
        /\ \A k \in 1..Len(new) : (l \o new)[n + k] = new[k]
    BY <1>1, <1>2
  <2>3. \A i \in 1..(n + Len(new)) : i \in 1..n \/ (i - n \in 1..Len(new) /\ i = n + (i - n))
    <3> HIDE DEF n
    <3> QED
      BY <2>1
  <2>4. \A i \in 1..n : i \in 1..(n + Len(new))
    <3> HIDE DEF n
    <3> QED
      BY <2>1
  <2>5. \A k \in 1..Len(new) : n + k \in 1..(n + Len(new))
    <3> HIDE DEF n
    <3> QED
      BY <2>1
  <2> HIDE DEF n
  <2> QED
    BY <1>3, <2>1, <2>2, <2>3, <2>4, <2>5
<1> HIDE DEF n
<1>7. DOMAIN t = {r[i].h : i \in DOMAIN r} \cup c
  <2>1. ASSUME NEW h \in DOMAIN t PROVE h \in {r[i].h : i \in DOMAIN r} \cup c
    <3>1. \/ h \in c \/ (\E i \in DOMAIN l : h = l[i].h)
          \/ \E k \in DOMAIN new : h = new[k].h
      BY <1>1, <1>3 DEF Owned
    <3>2. CASE \E k \in DOMAIN new : h = new[k].h
      <4>1. PICK k \in DOMAIN new : h = new[k].h
        BY <3>2
      <4>2. n + k \in DOMAIN r /\ r[n + k].h = h
        BY <1>6, <4>1
      <4> QED
        BY <4>2
    <3>3. CASE \E i \in DOMAIN l : h = l[i].h
      BY <1>6, <3>3
    <3> QED
      BY <3>1, <3>2, <3>3
  <2>2. ASSUME NEW i \in DOMAIN r PROVE r[i].h \in DOMAIN t
    <3>1. CASE i \in DOMAIN l
      BY <1>1, <1>3, <1>6, <3>1 DEF Owned
    <3>2. CASE \E k \in DOMAIN new : i = n + k
      BY <1>3, <1>6, <3>2
    <3> QED
      BY <1>6, <3>1, <3>2
  <2>3. c \subseteq DOMAIN t
    BY <1>1, <1>3 DEF Owned
  <2> QED
    BY <2>1, <2>2, <2>3
<1>8. ASSUME NEW i \in DOMAIN r
      PROVE  r[i].h \notin c /\ t[r[i].h].port = r[i].port
  <2>1. CASE i \in DOMAIN l
    <3>1. l[i].h \in DOMAIN s /\ l[i].h \notin c /\ s[l[i].h].port = l[i].port
      BY <1>1, <2>1 DEF Owned
    <3> QED
      BY <1>3, <1>6, <2>1, <3>1
  <2>2. CASE \E k \in DOMAIN new : i = n + k
    <3>1. PICK k \in DOMAIN new : i = n + k
      BY <2>2
    <3>2. c \subseteq DOMAIN s
      BY <1>1 DEF Owned
    <3> QED
      BY <1>3, <1>4, <1>6, <3>1, <3>2
  <2> QED
    BY <1>6, <2>1, <2>2
<1>9. ASSUME NEW i \in DOMAIN r, NEW j \in DOMAIN r, r[i].h = r[j].h
      PROVE  i = j
  <2>1. \A a \in DOMAIN l : l[a].h \in DOMAIN s
    BY <1>1 DEF Owned
  <2>2. \A a, b \in DOMAIN l : l[a].h = l[b].h => a = b
    BY <1>1 DEF Owned
  <2>3. CASE i \in DOMAIN l /\ j \in DOMAIN l
    BY <1>6, <1>9, <2>2, <2>3
  <2>4. CASE i \in DOMAIN l /\ \E k \in DOMAIN new : j = n + k
    BY <1>3, <1>6, <1>9, <2>1, <2>4
  <2>5. CASE j \in DOMAIN l /\ \E k \in DOMAIN new : i = n + k
    BY <1>3, <1>6, <1>9, <2>1, <2>5
  <2>6. CASE (\E k \in DOMAIN new : i = n + k) /\ (\E k \in DOMAIN new : j = n + k)
    <3>1. PICK a \in DOMAIN new, b \in DOMAIN new : i = n + a /\ j = n + b
      BY <2>6
    <3>2. new[a].h = new[b].h
      BY <1>6, <1>9, <3>1
    <3> QED
      BY <1>3, <3>1, <3>2
  <2> QED
    BY <1>6, <2>3, <2>4, <2>5, <2>6
<1>10. Good(t, r, c)
  BY <1>2, <1>5, <1>6, <1>7, <1>8, <1>9 DEF Good, Owned, t
<1>11. \A h \in DOMAIN t : (h \in DOMAIN s /\ t[h] = s[h]) \/ t[h].st = "Listen"
  BY <1>3, <1>4
<1> QED
  BY <1>10, <1>11 DEF e, t, r

(* When all listeners are waiting for a SYN, as many sockets take one. *)
LEMMA EnsureFree ==
    ASSUME NEW s, NEW l, NEW c, Good(s, l, c), NEW ports \in SUBSET Ports,
           \A i \in DOMAIN l : s[l[i].h].st = "Listen", NEW p \in ports \ {0}
    PROVE  LET e == ensure_listeners([sockets |-> s, listeners |-> l], ports)
           IN LISTEN_BACKLOG <= Cardinality(FreeIn(e.sockets, p))
<1> DEFINE e == ensure_listeners([sockets |-> s, listeners |-> l], ports)
           t == e.sockets
           r == e.listeners
           L == Listening(e, p)
           f == [i \in L |-> r[i].h]
           T == {f[i] : i \in L}
<1>1. /\ Good(t, r, c)
      /\ \A h \in DOMAIN t : (h \in DOMAIN s /\ t[h] = s[h]) \/ t[h].st = "Listen"
  BY EnsureGood
<1>2. LISTEN_BACKLOG <= Cardinality(L)
  BY FullBacklog DEF Good
<1> HIDE DEF e
<1>3. r \in Seq(Entry) /\ Owned(t, r, c) /\ \E n \in Nat : DOMAIN t \subseteq 1..n
  BY <1>1 DEF Good
<1>4. L \in SUBSET DOMAIN r /\ \A i \in L : r[i].port = p
  BY DEF Listening
<1>5. IsFiniteSet(L) /\ Cardinality(L) \in Nat
  <2>1. DOMAIN r = 1..Len(r) /\ Len(r) \in Nat
    BY <1>3
  <2> HIDE DEF L, r
  <2> QED
    BY <1>4, <2>1, UptoFinite
<1> HIDE DEF L, t, r
<1>6. \A i, j \in L : f[i] = f[j] => i = j
  BY <1>3, <1>4 DEF Owned
<1>7. IsFiniteSet(T) /\ Cardinality(T) = Cardinality(L)
  <2>1. DOMAIN f = L
    OBVIOUS
  <2> HIDE DEF f
  <2> QED
    BY <1>5, <1>6, <2>1, ImageCount
<1>8. T \subseteq FreeIn(t, p)
  <2> SUFFICES ASSUME NEW i \in L PROVE r[i].h \in FreeIn(t, p)
    OBVIOUS
  <2>1. r[i].h \in DOMAIN t /\ t[r[i].h].port = p /\ r[i].h \notin c
    BY <1>3, <1>4 DEF Owned
  <2>2. t[r[i].h].st = "Listen"
    <3> SUFFICES ASSUME r[i].h \in DOMAIN s, t[r[i].h] = s[r[i].h] PROVE t[r[i].h].st = "Listen"
      BY <1>1, <2>1
    <3>1. PICK j \in DOMAIN l : r[i].h = l[j].h
      BY <2>1 DEF Good, Owned
    <3> QED
      BY <3>1
  <2> QED
    BY <2>1, <2>2 DEF FreeIn
<1>9. IsFiniteSet(FreeIn(t, p)) /\ Cardinality(FreeIn(t, p)) \in Nat
  BY <1>3, FreeFinite
<1> HIDE DEF T
<1>10. Cardinality(L) <= Cardinality(FreeIn(t, p))
  BY <1>7, <1>8, <1>9, FS_Subset
<1>11. LISTEN_BACKLOG <= Cardinality(FreeIn(t, p))
  BY <1>2, <1>5, <1>9, <1>10, ListenersAssumption
<1> QED
  BY <1>11 DEF e, t

-----------------------------------------------------------------------------
(* Every step keeps the invariant. *)

LEMMA InvGood ==
    ASSUME Inv
    PROVE  Good(sockets, listeners, conns)
  BY DEF Inv, TypeInv, OwnedOnce, Good, Owned

LEMMA GoodOwned ==
    ASSUME NEW s, NEW l, NEW c, Good(s, l, c), sockets' = s, listeners' = l, conns' = c
    PROVE  /\ OwnedOnce'
           /\ \E n \in Nat : DOMAIN sockets' \subseteq 1..n
           /\ \A h \in DOMAIN sockets' : sockets'[h] \in Sockets
           /\ listeners' \in Seq(Entry)
  BY DEF Good, Owned, OwnedOnce

LEMMA InitInv == Init => Inv
<1> SUFFICES ASSUME Init PROVE Inv
  OBVIOUS
<1> DEFINE s == [h \in {} |-> h]
           e == ensure_listeners([sockets |-> s, listeners |-> << >>], {HTTPS_PORT})
<1>1. Good(s, << >>, {})
  <2>1. DOMAIN s = {} /\ << >> \in Seq(Entry) /\ DOMAIN << >> = {}
    OBVIOUS
  <2>2. {} \subseteq 1..0
    OBVIOUS
  <2> HIDE DEF s
  <2> QED
    BY <2>1, <2>2 DEF Good, Owned
<1>2. {HTTPS_PORT} \in SUBSET Ports
  BY ListenersAssumption
<1>3. /\ Good(e.sockets, e.listeners, {})
      /\ \A h \in DOMAIN e.sockets : (h \in DOMAIN s /\ e.sockets[h] = s[h]) \/ e.sockets[h].st = "Listen"
  <2> HIDE DEF s
  <2> QED
    BY <1>1, <1>2, EnsureGood
<1>4. \A h \in DOMAIN e.sockets : e.sockets[h].st = "Listen"
  BY <1>3
<1>5. sockets = e.sockets /\ listeners = e.listeners /\ conns = {}
  BY DEF Init
<1> HIDE DEF e, s
<1>6. TypeInv
  <2>1. /\ client \in [Clients -> {"idle", "dialing", "answered", "established", "refused", "gone"}]
        /\ tun \in Seq(Packets) /\ inbox \in Seq(Packets) /\ ready \in BOOLEAN
        /\ wanted \in SUBSET Ports /\ taken \in [Ports -> Nat]
        /\ errors \in [n : Nat, last : BOOLEAN] /\ pc = "drain"
    <3>1. /\ client = [c \in Clients |-> "idle"] /\ tun = << >> /\ inbox = << >> /\ ready = FALSE
          /\ wanted = {HTTPS_PORT} /\ taken = [p \in Ports |-> 0]
          /\ errors = [n |-> 0, last |-> FALSE] /\ pc = "drain"
      BY DEF Init
    <3>2. << >> \in Seq(Packets)
      OBVIOUS
    <3> QED
      BY <1>2, <3>1, <3>2
  <2> QED
    BY <1>3, <1>5, <2>1 DEF TypeInv, Good
<1>7. OwnedOnce
  BY <1>3, <1>5 DEF Good, Owned, OwnedOnce
<1>8. AcceptedIsServed
  BY <1>4, <1>5 DEF AcceptedIsServed
<1>9. Backlog /\ Announced
  BY DEF Init, Backlog, Announced
<1> QED
  BY <1>6, <1>7, <1>8, <1>9 DEF Inv

(* The kernel *)
LEMMA KernelStep == Inv /\ Kernel => Inv'
<1> SUFFICES ASSUME Inv, Kernel PROVE Inv'
  OBVIOUS
<1>1. /\ \E p \in Packets : Arrives(p)
      /\ UNCHANGED stack
      /\ client' \in [Clients -> {"idle", "dialing", "answered", "established", "refused", "gone"}]
  <2>1. client \in [Clients -> {"idle", "dialing", "answered", "established", "refused", "gone"}]
    BY DEF Inv, TypeInv
  <2>2. ASSUME NEW c \in Clients, NEW port \in Ports, Dial(c, port)
        PROVE  <1>1!:
    <3>1. Packet("syn", c, port) \in Packets
      BY DEF Packet, Packets
    <3> QED
      BY <2>1, <2>2, <3>1 DEF Dial
  <2>3. ASSUME NEW c \in Clients, Ack(c)
        PROVE  <1>1!:
    <3>1. Packet("ack", c, 0) \in Packets
      BY DEF Packet, Packets
    <3> QED
      BY <2>1, <2>3, <3>1 DEF Ack
  <2>4. ASSUME NEW c \in Clients, Leave(c)
        PROVE  <1>1!:
    <3>1. Packet("end", c, 0) \in Packets
      BY DEF Packet, Packets
    <3> QED
      BY <2>1, <2>4, <3>1 DEF Leave
  <2>5. ASSUME NEW q \in Queries, Ask(q)
        PROVE  <1>1!:
    <3>1. Packet("dns", q, 0) \in Packets
      BY DEF Packet, Packets
    <3> QED
      BY <2>1, <2>5, <3>1 DEF Ask
  <2> QED
    BY <2>2, <2>3, <2>4, <2>5 DEF Kernel
<1>2. tun' \in Seq(Packets) /\ ready' = TRUE
  BY <1>1 DEF Arrives, Inv, TypeInv
<1>3. UNCHANGED <<inbox, sockets, listeners, conns, wanted, dnsrx, taken, errors, pc>>
  BY <1>1 DEF stack
<1>4. TypeInv'
  BY <1>1, <1>2, <1>3 DEF Inv, TypeInv
<1>5. OwnedOnce' /\ AcceptedIsServed'
  BY <1>3 DEF Inv, OwnedOnce, AcceptedIsServed
<1>6. Backlog'
  BY <1>3 DEF Inv, Backlog, Free
<1>7. Announced'
  BY <1>2 DEF Announced
<1> QED
  BY <1>4, <1>5, <1>6, <1>7 DEF Inv

(* The select *)
LEMMA WakeStep == Inv /\ (Readable \/ Elapsed) => Inv'
<1> SUFFICES ASSUME Inv, Readable \/ Elapsed PROVE Inv'
  OBVIOUS
<1>1. /\ UNCHANGED <<client, lookup, tun, inbox, sockets, listeners, conns, wanted, dnsrx, taken, errors>>
      /\ pc = "sleep" /\ pc' = "drain" /\ ready' \in BOOLEAN
  BY DEF Readable, Elapsed, Inv, TypeInv
<1>2. TypeInv'
  BY <1>1 DEF Inv, TypeInv
<1>3. OwnedOnce' /\ AcceptedIsServed'
  BY <1>1 DEF Inv, OwnedOnce, AcceptedIsServed
<1>4. Backlog' /\ Announced'
  BY <1>1 DEF Inv, Backlog, Announced
<1> QED
  BY <1>2, <1>3, <1>4 DEF Inv

(* Draining the TUN, and topping up the listeners *)
LEMMA DrainStep == Inv /\ Drain => Inv'
<1> SUFFICES ASSUME Inv, Drain PROVE Inv'
  OBVIOUS
<1> DEFINE e == ensure_listeners([sockets |-> sockets, listeners |-> listeners], wanted')
<1>1. /\ pc = "drain" /\ pc' = "poll" /\ taken' = [p \in Ports |-> 0]
      /\ UNCHANGED <<client, lookup, ready, conns, dnsrx>>
      /\ sockets' = e.sockets /\ listeners' = e.listeners
  BY DEF Drain, Becomes, Table
<1>2. /\ client \in [Clients -> {"idle", "dialing", "answered", "established", "refused", "gone"}]
      /\ tun \in Seq(Packets) /\ inbox \in Seq(Packets) /\ ready \in BOOLEAN
      /\ wanted \in SUBSET Ports /\ errors \in [n : Nat, last : BOOLEAN]
  BY DEF Inv, TypeInv
<1>3. PICK n \in 0..Len(tun) :
         /\ DrainUpto(n)
         /\ errors' \in [n : Nat, last : BOOLEAN]
         /\ n = Len(tun) \/ errors'.last
  <2>1. Len(tun) \in 0..Len(tun)
    BY <1>2
  <2>2. CASE DrainUpto(Len(tun)) /\ errors' = [errors EXCEPT !.last = FALSE]
    BY <1>2, <2>1, <2>2
  <2>3. CASE /\ errors.n < MaxReadErrors
             /\ \E k \in 0..Len(tun) : DrainUpto(k)
             /\ errors' = [n |-> errors.n + 1, last |-> TRUE]
    BY <1>2, <2>3
  <2> QED
    BY <2>2, <2>3 DEF Drain
<1>4. /\ SubSeq(tun, 1, n) \in Seq(Packets) /\ Len(SubSeq(tun, 1, n)) = n
      /\ \A i \in 1..n : SubSeq(tun, 1, n)[i] = tun[i] /\ tun[i] \in Packets
      /\ n \in Nat
  BY <1>2
<1>5. inbox' \in Seq(Packets) /\ tun' \in Seq(Packets) /\ (n = Len(tun) => tun' = << >>)
  BY <1>2, <1>3, <1>4 DEF DrainUpto
<1>6. wanted' \in SUBSET Ports
  <2>1. \A p \in Packets : syn_dest_port(p) \subseteq Ports
    BY DEF Packets, syn_dest_port
  <2>2. \A i \in 1..n : syn_dest_port(tun[i]) \subseteq Ports
    BY <1>4, <2>1
  <2>3. wanted' = wanted \cup UNION {syn_dest_port(tun[i]) : i \in 1..n}
    BY <1>3 DEF DrainUpto
  <2> QED
    BY <1>2, <2>2, <2>3
<1>7. ASSUME NEW i \in DOMAIN inbox', inbox'[i].k = "syn" PROVE inbox'[i].port \in wanted'
  <2> DEFINE t == SubSeq(tun, 1, n)
  <2>1. inbox' = inbox \o t /\ wanted' = wanted \cup UNION {syn_dest_port(tun[j]) : j \in 1..n}
    BY <1>3 DEF DrainUpto
  <2>2. t \in Seq(Packets) /\ Len(t) = n
    BY <1>4
  <2> HIDE DEF t
  <2>3. CASE i \in DOMAIN inbox
    <3>1. inbox'[i] = inbox[i]
      BY <1>2, <2>1, <2>2, <2>3
    <3> QED
      BY <1>7, <2>1, <2>3, <3>1 DEF Inv, Backlog
  <2>4. CASE i \notin DOMAIN inbox
    <3>1. PICK j \in 1..n : inbox'[i] = t[j]
      <4>1. i - Len(inbox) \in 1..n /\ inbox'[i] = t[i - Len(inbox)]
        BY <1>2, <1>4, <2>1, <2>2, <2>4
      <4> QED
        BY <4>1
    <3>2. inbox'[i] = tun[j]
      BY <1>4, <3>1 DEF t
    <3>3. tun[j].port \in syn_dest_port(tun[j])
      BY <1>7, <3>2 DEF syn_dest_port
    <3> QED
      BY <2>1, <3>2, <3>3
  <2> QED
    BY <2>3, <2>4
<1>8. Good(sockets, listeners, conns)
  BY InvGood
<1>9. Good(e.sockets, e.listeners, conns')
  BY <1>1, <1>6, <1>8, EnsureGood
<1>10. \A i \in DOMAIN listeners : sockets[listeners[i].h].st = "Listen"
  BY <1>1 DEF Inv, OwnedOnce, AcceptedIsServed
<1>11. \A p \in wanted' \ {0} : LISTEN_BACKLOG <= Cardinality(FreeIn(e.sockets, p))
  BY <1>6, <1>8, <1>10, EnsureFree
<1> HIDE DEF e
<1>12. /\ OwnedOnce'
       /\ \E m \in Nat : DOMAIN sockets' \subseteq 1..m
       /\ \A h \in DOMAIN sockets' : sockets'[h] \in Sockets
       /\ listeners' \in Seq(Entry)
  BY <1>1, <1>9, GoodOwned
<1>13. TypeInv'
  BY <1>1, <1>2, <1>3, <1>5, <1>6, <1>12 DEF TypeInv
<1>14. AcceptedIsServed'
  BY <1>1 DEF AcceptedIsServed
<1>15. Backlog'
  <2>1. ASSUME NEW p \in wanted' \ {0} PROVE LISTEN_BACKLOG <= taken'[p] + Cardinality(Free(p)')
    <3>1. Free(p)' = FreeIn(e.sockets, p)
      BY <1>1 DEF Free, FreeIn
    <3>2. Cardinality(FreeIn(e.sockets, p)) \in Nat
      BY <1>9, FreeFinite DEF Good
    <3>3. taken'[p] = 0
      BY <1>1, <1>6
    <3> QED
      BY <1>11, <3>1, <3>2, <3>3
  <2> QED
    BY <1>7, <2>1 DEF Backlog
<1>16. Announced'
  BY <1>3, <1>5 DEF Announced
<1> QED
  BY <1>12, <1>13, <1>14, <1>15, <1>16 DEF Inv

(* Reaping, and topping up the listeners *)
LEMMA ServiceStep == Inv /\ Service => Inv'
<1> SUFFICES ASSUME Inv, Service PROVE Inv'
  OBVIOUS
<1>1. PICK gone \in SUBSET conns :
         /\ \A h \in conns : sockets[h].st = "Closed" => h \in gone
         /\ conns' = conns \ gone
         /\ Becomes(ensure_listeners([Table EXCEPT !.sockets = Reaped(gone)], wanted))
  BY DEF Service
<1> DEFINE s == Without(sockets, gone)
           e == ensure_listeners([sockets |-> s, listeners |-> listeners], wanted)
<1>2. /\ pc = "service" /\ pc' = "sleep"
      /\ UNCHANGED <<client, lookup, tun, ready, inbox, wanted, dnsrx, taken, errors>>
  BY DEF Service
<1>3. sockets' = e.sockets /\ listeners' = e.listeners
  <2>1. [Table EXCEPT !.sockets = Reaped(gone)] = [sockets |-> s, listeners |-> listeners]
    BY DEF Table, Reaped
  <2> QED
    BY <1>1, <2>1 DEF Becomes
<1>4. Good(sockets, listeners, conns)
  BY InvGood
<1>5. DOMAIN s = DOMAIN sockets \ gone /\ \A h \in DOMAIN s : s[h] = sockets[h]
  BY DEF Without
<1>6. Good(s, listeners, conns')
  <2> HIDE DEF s
  <2>1. \A i \in DOMAIN listeners : listeners[i].h \in DOMAIN s /\ listeners[i].h \in DOMAIN sockets
    BY <1>4, <1>5 DEF Good, Owned
  <2>2. DOMAIN s = {listeners[i].h : i \in DOMAIN listeners} \cup conns'
    <3>1. DOMAIN sockets = {listeners[i].h : i \in DOMAIN listeners} \cup conns
      BY <1>4 DEF Good, Owned
    <3>2. \A i \in DOMAIN listeners : listeners[i].h \notin gone
      BY <1>4 DEF Good, Owned
    <3> QED
      BY <1>1, <1>5, <3>1, <3>2
  <2>3. Owned(s, listeners, conns')
    BY <1>1, <1>4, <1>5, <2>1, <2>2 DEF Good, Owned
  <2> QED
    BY <1>4, <1>5, <2>3 DEF Good
<1>7. /\ Good(e.sockets, e.listeners, conns')
      /\ \A h \in DOMAIN e.sockets : (h \in DOMAIN s /\ e.sockets[h] = s[h]) \/ e.sockets[h].st = "Listen"
  <2>1. wanted \in SUBSET Ports
    BY DEF Inv, TypeInv
  <2> HIDE DEF s
  <2> QED
    BY <1>6, <2>1, EnsureGood
<1> HIDE DEF e, s
<1>8. /\ OwnedOnce'
      /\ \E m \in Nat : DOMAIN sockets' \subseteq 1..m
      /\ \A h \in DOMAIN sockets' : sockets'[h] \in Sockets
      /\ listeners' \in Seq(Entry)
  BY <1>3, <1>7, GoodOwned
<1>9. TypeInv'
  BY <1>2, <1>8 DEF Inv, TypeInv
<1>10. AcceptedIsServed'
  <2> SUFFICES ASSUME NEW h \in DOMAIN sockets', sockets'[h].st # "Listen" PROVE h \in conns'
    BY DEF AcceptedIsServed
  <2>1. h \in DOMAIN s /\ sockets'[h] = s[h]
    BY <1>3, <1>7
  <2>2. h \in DOMAIN sockets /\ h \notin gone /\ sockets[h].st # "Listen"
    BY <1>5, <2>1
  <2> QED
    BY <1>1, <1>2, <2>2 DEF Inv, AcceptedIsServed
<1>11. Backlog' /\ Announced'
  BY <1>2 DEF Inv, Backlog, Announced
<1> QED
  BY <1>8, <1>9, <1>10, <1>11 DEF Inv

(* The promotion of the listeners that accepted *)
LEMMA PollEndStep == Inv /\ PollEnd => Inv'
<1> SUFFICES ASSUME Inv, PollEnd PROVE Inv'
  OBVIOUS
<1> DEFINE left == {listeners[i].h : i \in {j \in DOMAIN listeners : ~Stays(j)}}
           closed == {h \in left : sockets[h].st = "Closed"}
           stay == {i \in DOMAIN listeners : Stays(i)}
           l == Pick(listeners, stay)
           c == conns \cup (left \ closed)
           s == Without(sockets, closed)
<1>1. /\ pc = "poll" /\ pc' = "service"
      /\ UNCHANGED <<client, tun, ready, inbox, wanted, taken, errors>>
      /\ listeners' = l /\ conns' = c /\ sockets' = s
  BY DEF PollEnd, promote_listeners
<1>2. /\ Good(sockets, listeners, conns) /\ listeners \in Seq(Entry)
      /\ DOMAIN sockets = {listeners[i].h : i \in DOMAIN listeners} \cup conns
      /\ \A i \in DOMAIN listeners : listeners[i].h \in DOMAIN sockets /\ listeners[i].h \notin conns
      /\ \A i, j \in DOMAIN listeners : listeners[i].h = listeners[j].h => i = j
  BY InvGood DEF Good, Owned
<1>3. /\ l \in Seq(Entry)
      /\ DOMAIN l = 1..Cardinality(stay)
      /\ \A k \in DOMAIN l : Nth(stay, k) \in stay /\ l[k] = listeners[Nth(stay, k)]
      /\ \A i \in stay : \E k \in DOMAIN l : Nth(stay, k) = i /\ l[k] = listeners[i]
  <2>1. stay \in SUBSET DOMAIN listeners
    OBVIOUS
  <2> HIDE DEF stay
  <2> QED
    BY <1>2, <2>1, PickElements
<1>4. \A j, k \in DOMAIN l : Nth(stay, j) = Nth(stay, k) => j = k
  <2>1. stay \in SUBSET (1..Len(listeners)) /\ Len(listeners) \in Nat
    BY <1>2
  <2> HIDE DEF stay, l
  <2> QED
    BY <1>3, <2>1, NthOrder
<1>5. DOMAIN s = DOMAIN sockets \ closed /\ \A h \in DOMAIN s : s[h] = sockets[h]
  BY DEF Without
<1>6. ASSUME NEW i \in stay
      PROVE  listeners[i].h \notin left /\ listeners[i].h \in DOMAIN s /\ listeners[i].h \notin c
  <2>1. listeners[i].h \notin left
    BY <1>2
  <2> QED
    BY <1>2, <1>5, <2>1
<1>7. \A h \in left : h \in DOMAIN sockets /\ h \notin conns /\ sockets[h].st # "Listen"
  BY <1>2 DEF Stays, State
<1>8. \A h \in DOMAIN sockets : h \in conns \/ h \in left \/ \E i \in stay : h = listeners[i].h
  BY <1>2
<1>9. \A i \in stay : i \in DOMAIN listeners /\ sockets[listeners[i].h].st = "Listen"
  BY DEF Stays, State
<1>10. closed \subseteq left /\ \A h \in left \ closed : sockets[h].st # "Closed"
  OBVIOUS
<1> HIDE DEF left, closed, stay, l, s
<1>11. DOMAIN s = {l[k].h : k \in DOMAIN l} \cup c
  <2>1. ASSUME NEW h \in DOMAIN s PROVE h \in {l[k].h : k \in DOMAIN l} \cup c
    <3>1. CASE \E i \in stay : h = listeners[i].h
      <4>1. PICK i \in stay : h = listeners[i].h
        BY <3>1
      <4>2. PICK k \in DOMAIN l : l[k] = listeners[i]
        BY <1>3
      <4> QED
        BY <4>1, <4>2
    <3> QED
      BY <1>5, <1>8, <3>1
  <2>2. ASSUME NEW k \in DOMAIN l PROVE l[k].h \in DOMAIN s
    BY <1>3, <1>6
  <2>3. c \subseteq DOMAIN s
    <3>1. conns \subseteq DOMAIN sockets
      BY <1>2
    <3> QED
      BY <1>5, <1>7, <1>10, <3>1
  <2> QED
    BY <2>1, <2>2, <2>3
<1>12. ASSUME NEW k \in DOMAIN l
       PROVE  /\ l[k].h \notin c /\ s[l[k].h].port = l[k].port
              /\ \A j \in DOMAIN l : l[k].h = l[j].h => k = j
  <2>1. Nth(stay, k) \in stay /\ l[k] = listeners[Nth(stay, k)]
    BY <1>3
  <2>2. s[l[k].h].port = l[k].port
    <3>1. sockets[listeners[Nth(stay, k)].h].port = listeners[Nth(stay, k)].port
      BY <1>2, <1>9, <2>1 DEF Good, Owned
    <3> QED
      BY <1>5, <1>6, <2>1, <3>1
  <2>3. ASSUME NEW j \in DOMAIN l, l[k].h = l[j].h PROVE k = j
    <3>1. Nth(stay, j) \in stay /\ l[j] = listeners[Nth(stay, j)]
      BY <1>3
    <3>2. Nth(stay, k) = Nth(stay, j)
      BY <1>2, <1>9, <2>1, <2>3, <3>1
    <3> QED
      BY <1>4, <3>2
  <2> QED
    BY <1>6, <2>1, <2>2, <2>3
<1>13. Good(s, l, c)
  <2>1. \E n \in Nat : DOMAIN s \subseteq 1..n
    BY <1>2, <1>5 DEF Good
  <2>2. \A h \in DOMAIN s : s[h] \in Sockets
    BY <1>2, <1>5 DEF Good
  <2> HIDE DEF c
  <2> QED
    BY <1>3, <1>11, <1>12, <2>1, <2>2 DEF Good, Owned
<1>14. /\ OwnedOnce'
       /\ \E m \in Nat : DOMAIN sockets' \subseteq 1..m
       /\ \A h \in DOMAIN sockets' : sockets'[h] \in Sockets
       /\ listeners' \in Seq(Entry)
  <2> HIDE DEF c
  <2> QED
    BY <1>1, <1>13, GoodOwned
<1>15. TypeInv'
  BY <1>1, <1>14 DEF Inv, TypeInv
<1>16. AcceptedIsServed'
  <2> SUFFICES ASSUME NEW h \in DOMAIN s, s[h].st # "Listen" PROVE h \in c
    BY <1>1 DEF AcceptedIsServed
  <2> QED
    BY <1>5, <1>8, <1>9
<1>17. Backlog' /\ Announced'
  BY <1>1 DEF Inv, Backlog, Announced
<1> QED
  BY <1>14, <1>15, <1>16, <1>17 DEF Inv

(* The socket that gets a packet *)
LEMMA FirstTaker ==
    ASSUME Inv, NEW T \in SUBSET DOMAIN sockets, T # {}
    PROVE  Nth(T, 1) \in T
<1>1. PICK n \in Nat : DOMAIN sockets \subseteq 1..n
  BY DEF Inv, TypeInv
<1>2. T \in SUBSET (1..n)
  BY <1>1
<1>3. IsFiniteSet(T) /\ Cardinality(T) \in Nat
  BY <1>2, UptoFinite
<1>4. Cardinality(T) # 0
  BY <1>3, FS_EmptySet
<1>5. 1 \in 1..Cardinality(T)
  BY <1>3, <1>4
<1> QED
  BY <1>2, <1>5, NthOrder

(* What a socket makes of a packet it takes *)
LEMMA AfterPacket ==
    ASSUME Inv, NEW h \in DOMAIN sockets, NEW p \in Packets, Takes(h, p)
    PROVE  /\ After(sockets[h], p) \in Sockets
           /\ After(sockets[h], p).port = sockets[h].port
           /\ p.k = "syn" => sockets[h].st = "Listen" /\ sockets[h].port = p.port
           /\ p.k # "syn" => sockets[h].st # "Listen"
<1>1. sockets[h] \in Sockets
  BY DEF Inv, TypeInv
<1>2. CASE p \in [k : {"syn"}, from : Clients, port : Ports]
  BY <1>1, <1>2 DEF Takes, After, Sockets, States
<1>3. CASE p \in [k : {"ack", "end"}, from : Clients, port : {0}]
  BY <1>1, <1>3 DEF Takes, After, Sockets, States, Socket
<1>4. CASE p \in [k : {"dns"}, from : Queries, port : {0}]
  BY <1>4 DEF Takes
<1> QED
  BY <1>2, <1>3, <1>4 DEF Packets

LEMMA PollStep == Inv /\ Poll => Inv'
<1> SUFFICES ASSUME Inv, Poll PROVE Inv'
  OBVIOUS
<1> DEFINE p == Head(inbox)
           takers == {h \in DOMAIN sockets : Takes(h, p)}
           h == Nth(takers, 1)
<1>1. /\ pc = "poll" /\ inbox # << >> /\ inbox' = Tail(inbox)
      /\ UNCHANGED <<tun, ready, listeners, conns, wanted, errors, pc>>
  BY DEF Poll
<1>2. inbox \in Seq(Packets) /\ p \in Packets /\ inbox[1] = p /\ 1 \in DOMAIN inbox
  BY <1>1 DEF Inv, TypeInv
<1>3. /\ inbox' \in Seq(Packets)
      /\ \A i \in DOMAIN inbox' : i + 1 \in DOMAIN inbox /\ inbox'[i] = inbox[i + 1]
  BY <1>1, <1>2
<1>4. \A i \in DOMAIN inbox' : inbox'[i].k = "syn" => inbox'[i].port \in wanted'
  BY <1>1, <1>3 DEF Inv, Backlog
<1>5. client' \in [Clients -> {"idle", "dialing", "answered", "established", "refused", "gone"}]
  <2>1. client \in [Clients -> {"idle", "dialing", "answered", "established", "refused", "gone"}]
    BY DEF Inv, TypeInv
  <2> QED
    BY <2>1 DEF Poll, Told
<1>6. CASE UNCHANGED <<sockets, taken>>
  <2>1. TypeInv'
    BY <1>1, <1>3, <1>5, <1>6 DEF Inv, TypeInv
  <2>2. OwnedOnce' /\ AcceptedIsServed' /\ Announced'
    BY <1>1, <1>6 DEF Inv, OwnedOnce, AcceptedIsServed, Announced
  <2>3. Backlog'
    BY <1>1, <1>4, <1>6 DEF Inv, Backlog, Free
  <2> QED
    BY <2>1, <2>2, <2>3 DEF Inv
<1>7. CASE /\ takers # {}
           /\ sockets' = [sockets EXCEPT ![h] = After(@, p)]
           /\ taken' = IF p.k = "syn" THEN [taken EXCEPT ![p.port] = @ + 1] ELSE taken
  <2>1. h \in takers
    BY <1>7, FirstTaker
  <2>2. h \in DOMAIN sockets /\ Takes(h, p)
    BY <2>1
  <2> HIDE DEF p
  <2>3. /\ After(sockets[h], p) \in Sockets
        /\ After(sockets[h], p).port = sockets[h].port
        /\ p.k = "syn" => sockets[h].st = "Listen" /\ sockets[h].port = p.port
        /\ p.k # "syn" => sockets[h].st # "Listen"
    BY <1>2, <2>2, AfterPacket
  <2>4. sockets' = [sockets EXCEPT ![h] = After(sockets[h], p)]
    BY <1>7
  <2> HIDE DEF takers, h
  <2>5. /\ DOMAIN sockets' = DOMAIN sockets
        /\ \A g \in DOMAIN sockets : g # h => sockets'[g] = sockets[g]
        /\ sockets'[h] = After(sockets[h], p)
        /\ \A g \in DOMAIN sockets : sockets'[g].port = sockets[g].port /\ sockets'[g] \in Sockets
    <3>1. \A g \in DOMAIN sockets : sockets[g] \in Sockets
      BY DEF Inv, TypeInv
    <3> HIDE DEF Inv
    <3> QED
      BY <2>2, <2>3, <2>4, <3>1
  <2>6. OwnedOnce'
    BY <1>1, <2>5 DEF Inv, OwnedOnce
  <2>7. taken \in [Ports -> Nat] /\ taken' \in [Ports -> Nat]
    <3>1. taken \in [Ports -> Nat] /\ sockets[h].port \in Ports
      BY <2>2 DEF Inv, TypeInv, Sockets
    <3>2. taken' = IF p.k = "syn" THEN [taken EXCEPT ![p.port] = taken[p.port] + 1] ELSE taken
      BY <1>7
    <3> HIDE DEF Inv
    <3> QED
      BY <2>3, <3>1, <3>2
  <2>8. TypeInv'
    BY <1>1, <1>3, <1>5, <2>5, <2>7 DEF Inv, TypeInv
  <2>9. AcceptedIsServed' /\ Announced'
    BY <1>1 DEF Inv, AcceptedIsServed, Announced
  <2>10. ASSUME NEW q \in wanted \ {0}
         PROVE  LISTEN_BACKLOG <= taken'[q] + Cardinality(Free(q)')
    <3>1. LISTEN_BACKLOG <= taken[q] + Cardinality(Free(q)) /\ q \in Ports
      BY <1>1 DEF Inv, Backlog, TypeInv
    <3>2. /\ IsFiniteSet(Free(q)) /\ Cardinality(Free(q)) \in Nat
          /\ IsFiniteSet(Free(q)') /\ Cardinality(Free(q)') \in Nat
      <4>1. Free(q) = FreeIn(sockets, q) /\ Free(q)' = FreeIn(sockets', q)
        BY DEF Free, FreeIn
      <4>2. \E n \in Nat : DOMAIN sockets \subseteq 1..n
        BY DEF Inv, TypeInv
      <4> QED
        BY <2>5, <4>1, <4>2, FreeFinite
    <3>3. taken[q] \in Nat /\ taken'[q] \in Nat /\ taken[q] <= taken'[q] /\ LISTEN_BACKLOG \in Nat
      BY <1>7, <2>7, <3>1, ListenersAssumption
    <3>4. CASE h \notin Free(q)
      <4>1. Free(q) \subseteq Free(q)'
        BY <2>5, <3>4 DEF Free
      <4>2. Cardinality(Free(q)) <= Cardinality(Free(q)')
        BY <3>2, <4>1, FS_Subset
      <4> QED
        BY <3>1, <3>2, <3>3, <4>2
    <3>5. CASE h \in Free(q)
      <4>1. p.k = "syn" /\ p.port = q
        BY <2>3, <3>5 DEF Free
      <4>2. taken'[q] = taken[q] + 1
        BY <1>7, <2>7, <3>1, <4>1
      <4>3. Free(q) \ {h} \subseteq Free(q)'
        BY <2>5 DEF Free
      <4>4. Cardinality(Free(q) \ {h}) = Cardinality(Free(q)) - 1
        BY <3>2, <3>5, FS_RemoveElement
      <4>5. Cardinality(Free(q) \ {h}) <= Cardinality(Free(q)')
        BY <3>2, <4>3, FS_Subset
      <4> QED
        BY <3>1, <3>2, <3>3, <4>2, <4>4, <4>5
    <3> QED
      BY <3>4, <3>5
  <2>11. Backlog'
    BY <1>1, <1>4, <2>10 DEF Backlog
  <2> QED
    BY <2>6, <2>8, <2>9, <2>11 DEF Inv
<1> QED
  BY <1>6, <1>7 DEF Poll

LEMMA Stutter == Inv /\ UNCHANGED vars => Inv'
<1> SUFFICES ASSUME Inv, UNCHANGED vars PROVE Inv'
  OBVIOUS
<1>1. UNCHANGED <<client, tun, ready, inbox, sockets, listeners, conns, wanted, taken, errors, pc>>
  BY DEF vars, stack
<1>2. TypeInv'
  BY <1>1 DEF Inv, TypeInv
<1>3. OwnedOnce' /\ AcceptedIsServed' /\ Announced'
  BY <1>1 DEF Inv, OwnedOnce, AcceptedIsServed, Announced
<1>4. Backlog'
  BY <1>1 DEF Inv, Backlog, Free
<1> QED
  BY <1>2, <1>3, <1>4 DEF Inv

(* The invariant of the event loop, for any interleaving with the kernel *)
THEOREM Invariant == Spec => []Inv
<1>1. Inv /\ [Next]_vars => Inv'
  BY KernelStep, DrainStep, PollStep, PollEndStep, ServiceStep, WakeStep, Stutter DEF Next, Loop
<1> QED
  BY <1>1, InitInv, PTL DEF Spec

(* OwnedOnce: no handle is lost, shared or left behind by promotion, reaping *)
(* and reuse.                                                                *)
THEOREM Ownership == Spec => []OwnedOnce
  BY Invariant, PTL DEF Inv

(* AcceptedIsServed: after promote_listeners every socket that accepted is a *)
(* connection.                                                               *)
THEOREM Promotion == Spec => []AcceptedIsServed
  BY Invariant, PTL DEF Inv

(* SleepsOnlyWhenDrained: the loop does not sleep on packets that nothing    *)
(* announces.                                                                *)
THEOREM NoForgottenPackets == Spec => []SleepsOnlyWhenDrained
<1>1. Inv => SleepsOnlyWhenDrained
  BY DEF Inv, Announced, SleepsOnlyWhenDrained
<1> QED
  BY <1>1, Invariant, PTL

(* RefusedOnlyBeyondBacklog: a SYN is refused only after a full backlog of   *)
(* others to its port was accepted in the same pass.                         *)
THEOREM Refusals == Spec => RefusedOnlyBeyondBacklog
<1> DEFINE A == \A c \in Clients :
                  client[c] # "refused" /\ client'[c] = "refused" /\ Head(inbox).port # 0
                     => taken[Head(inbox).port] >= LISTEN_BACKLOG
<1>1. ASSUME Inv, Next PROVE A
  <2> SUFFICES ASSUME NEW c \in Clients, client[c] # "refused", client'[c] = "refused",
                      Head(inbox).port # 0
               PROVE  taken[Head(inbox).port] >= LISTEN_BACKLOG
    OBVIOUS
  <2> DEFINE p == Head(inbox)
  <2>1. client \in [Clients -> {"idle", "dialing", "answered", "established", "refused", "gone"}]
    BY <1>1 DEF Inv, TypeInv
  <2>2. ~(Drain \/ PollEnd \/ Service \/ Readable \/ Elapsed)
    BY DEF Drain, PollEnd, Service, Readable, Elapsed
  <2>3. ~Kernel
    BY <2>1 DEF Kernel, Dial, Ack, Leave, Ask
  <2>4. Poll
    BY <1>1, <2>2, <2>3 DEF Next, Loop
  <2>5. /\ pc = "poll" /\ inbox # << >> /\ p.k = "syn"
        /\ \A h \in DOMAIN sockets : ~Takes(h, p)
    BY <2>1, <2>4 DEF Poll, Told
  <2>6. 1 \in DOMAIN inbox /\ p = inbox[1]
    BY <1>1, <2>5 DEF Inv, TypeInv
  <2>7. p.port \in wanted \ {0}
    BY <1>1, <2>5, <2>6 DEF Inv, Backlog
  <2> HIDE DEF p
  <2>8. Free(p.port) = {}
    BY <2>5 DEF Free, Takes
  <2>9. Cardinality(Free(p.port)) = 0
    BY <2>8, FS_EmptySet
  <2>10. LISTEN_BACKLOG <= taken[p.port] + Cardinality(Free(p.port))
    BY <1>1, <2>5, <2>7 DEF Inv, Backlog
  <2>11. taken[p.port] \in Nat /\ LISTEN_BACKLOG \in Nat
    BY <1>1, <2>7, ListenersAssumption DEF Inv, TypeInv
  <2>12. taken[p.port] >= LISTEN_BACKLOG
    BY <2>9, <2>10, <2>11
  <2> QED
    BY <2>12 DEF p
<1>2. Inv /\ [Next]_vars => [A]_vars
  BY <1>1
<1> QED
  BY <1>2, Invariant, PTL DEF Spec, RefusedOnlyBeyondBacklog
=============================================================================
