---------------------------- MODULE PicksProofs ----------------------------
(***************************************************************************)
(* What Nth and Pick return, for any set of places, and how the number of  *)
(* places of a kind changes when a sequence grows or shrinks.              *)
(***************************************************************************)
EXTENDS Picks, FiniteSetTheorems, WellFoundedInduction, TLAPS

(* A set of naturals that is not empty has a least element. *)
LEMMA LeastNatural ==
    ASSUME NEW S \in SUBSET Nat, S # {}
    PROVE  \E x \in S : \A y \in S : x <= y
<1> DEFINE R == OpToRel(<, Nat)
<1>1. \E x \in S : \A y \in S : ~(<<y, x>> \in R)
  BY NatLessThanWellFounded, WFMin
<1>2. \A x, y \in Nat : y < x => <<y, x>> \in R
  BY DEF OpToRel
<1> HIDE DEF R
<1>3. PICK x \in S : \A y \in S : ~(<<y, x>> \in R)
  BY <1>1
<1>4. ASSUME NEW y \in S PROVE x <= y
  <2>1. x \in Nat /\ y \in Nat
    OBVIOUS
  <2>2. ~(y < x)
    BY <1>2, <1>3, <2>1
  <2> QED
    BY <2>1, <2>2
<1> QED
  BY <1>3, <1>4

(* The members of a set of places up to x are finitely many, and one more than *)
(* those up to x - 1 if x is one of them.                                      *)
LEMMA UptoFinite ==
    ASSUME NEW n \in Nat, NEW I \in SUBSET (1..n)
    PROVE  /\ IsFiniteSet(I) /\ Cardinality(I) \in Nat
           /\ \A x : IsFiniteSet({y \in I : y <= x}) /\ Cardinality({y \in I : y <= x}) \in Nat
           /\ \A x \in I : Cardinality({y \in I : y <= x}) \in 1..Cardinality(I)
<1>1. IsFiniteSet(1..n)
  BY FS_Interval
<1>2. IsFiniteSet(I) /\ Cardinality(I) \in Nat
  BY <1>1, FS_Subset, FS_CardinalityType
<1>3. ASSUME NEW x
      PROVE  /\ IsFiniteSet({y \in I : y <= x})
             /\ Cardinality({y \in I : y <= x}) \in Nat
             /\ Cardinality({y \in I : y <= x}) <= Cardinality(I)
  <2> DEFINE U == {y \in I : y <= x}
  <2>1. U \subseteq I
    OBVIOUS
  <2> HIDE DEF U
  <2> QED
    BY <1>2, <2>1, FS_Subset, FS_CardinalityType
<1>4. ASSUME NEW x \in I
      PROVE  Cardinality({y \in I : y <= x}) # 0
  <2> DEFINE U == {y \in I : y <= x}
  <2>1. x \in U
    OBVIOUS
  <2>2. IsFiniteSet(U)
    BY <1>3
  <2> HIDE DEF U
  <2>3. Cardinality(U) # 0
    BY <2>1, <2>2, FS_EmptySet
  <2> QED
    BY <2>3 DEF U
<1> QED
  BY <1>2, <1>3, <1>4

(* Of two members, the smaller one has fewer members up to it. *)
LEMMA UptoGrows ==
    ASSUME NEW n \in Nat, NEW I \in SUBSET (1..n), NEW x \in I, NEW y \in I, x < y
    PROVE  Cardinality({z \in I : z <= x}) < Cardinality({z \in I : z <= y})
<1> DEFINE U == {z \in I : z <= x}
           V == {z \in I : z <= y}
<1>1. IsFiniteSet(V)
  BY UptoFinite
<1>2. U \subseteq V /\ U # V
  <2>1. y \in V /\ y \notin U
    OBVIOUS
  <2>2. ASSUME NEW z \in U PROVE z \in V
    OBVIOUS
  <2> HIDE DEF U, V
  <2> QED
    BY <2>1, <2>2
<1> HIDE DEF U, V
<1>3. Cardinality(U) <= Cardinality(V) /\ Cardinality(U) # Cardinality(V)
  BY <1>1, <1>2, FS_Subset
<1>4. Cardinality(U) \in Nat /\ Cardinality(V) \in Nat
  BY <1>1, <1>2, FS_Subset, FS_CardinalityType
<1>5. Cardinality(U) < Cardinality(V)
  BY <1>3, <1>4
<1> QED
  BY <1>5 DEF U, V

(* Nth(I, k) is a member of I that has k members up to it. *)
LEMMA NthExists ==
    ASSUME NEW n \in Nat, NEW I \in SUBSET (1..n), NEW k \in 1..Cardinality(I)
    PROVE  Nth(I, k) \in I /\ Cardinality({y \in I : y <= Nth(I, k)}) = k
<1> DEFINE U(x) == {y \in I : y <= x}
           C(x) == Cardinality(U(x))
           T == {x \in Nat : C(x) >= k}
<1>0. \A y \in I : y \in Nat /\ 1 <= y /\ y <= n
  OBVIOUS
<1>1. \A x : C(x) \in Nat /\ IsFiniteSet(U(x))
  BY UptoFinite
<1>2. n \in T
  <2>1. U(n) = I
    BY <1>0
  <2>2. C(n) = Cardinality(I)
    BY <2>1
  <2> HIDE DEF C
  <2> QED
    BY <2>2, UptoFinite
<1>3. PICK x \in T : \A y \in T : x <= y
  <2> HIDE DEF C
  <2>1. T \in SUBSET Nat /\ T # {}
    BY <1>2
  <2> HIDE DEF T
  <2> QED
    BY <2>1, LeastNatural
<1>4. x \in Nat /\ C(x) >= k
  BY <1>3
<1>5. x # 0
  <2>0. ASSUME NEW y \in I PROVE ~(y <= 0)
    BY <1>0
  <2>1. U(0) = {}
    BY <2>0
  <2>2. C(0) = 0
    BY <2>1, FS_EmptySet
  <2> HIDE DEF C
  <2> QED
    BY <1>4, <2>2
<1>6. x - 1 \in Nat /\ ~(C(x - 1) >= k)
  <2> HIDE DEF C
  <2>1. x - 1 \in Nat /\ ~(x <= x - 1)
    BY <1>4, <1>5
  <2>2. x - 1 \notin T
    BY <1>3, <2>1
  <2> QED
    BY <2>1, <2>2
<1>7. x \in I
  <2> SUFFICES ASSUME x \notin I PROVE FALSE
    OBVIOUS
  <2>1. \A y \in I : y <= x <=> y <= x - 1
    <3>1. ASSUME NEW y \in I PROVE y <= x <=> y <= x - 1
      BY <1>0, <1>4
    <3> QED
      BY <3>1
  <2>2a. U(x) = U(x - 1)
    BY <2>1
  <2>2. C(x) = C(x - 1)
    BY <2>2a
  <2> HIDE DEF C
  <2> QED
    BY <1>4, <1>6, <2>2
<1>8. C(x) = C(x - 1) + 1
  <2>0. ASSUME NEW y \in I PROVE y <= x <=> (y <= x - 1 \/ y = x)
    BY <1>0, <1>4
  <2>a. ~(x <= x - 1)
    BY <1>4
  <2>1. U(x) = U(x - 1) \cup {x} /\ x \notin U(x - 1)
    BY <1>7, <2>0, <2>a
  <2>2. IsFiniteSet(U(x - 1))
    BY <1>1
  <2> HIDE DEF U
  <2> QED
    BY <2>1, <2>2, FS_AddElement
<1>9. C(x) = k
  <2>1. C(x) \in Nat /\ C(x - 1) \in Nat
    BY <1>1
  <2> HIDE DEF C
  <2> QED
    BY <1>4, <1>6, <1>8, <2>1
<1> QED
  BY <1>7, <1>9 DEF Nth

(* The members of I, in ascending order, each at one place. *)
LEMMA NthOrder ==
    ASSUME NEW n \in Nat, NEW I \in SUBSET (1..n)
    PROVE  /\ \A k \in 1..Cardinality(I) : Nth(I, k) \in I
           /\ \A j, k \in 1..Cardinality(I) : j < k => Nth(I, j) < Nth(I, k)
           /\ \A j, k \in 1..Cardinality(I) : Nth(I, j) = Nth(I, k) => j = k
           /\ \A x \in I : \E k \in 1..Cardinality(I) : Nth(I, k) = x
<1> DEFINE C(x) == Cardinality({y \in I : y <= x})
<1>1. \A k \in 1..Cardinality(I) : Nth(I, k) \in I /\ C(Nth(I, k)) = k
  BY NthExists
<1>2. \A x, y \in I : x < y => C(x) < C(y)
  BY UptoGrows
<1>3. \A x \in I : C(x) \in 1..Cardinality(I)
  BY UptoFinite
<1>4. \A x \in I : x \in Nat
  OBVIOUS
<1>5. Cardinality(I) \in Nat
  BY UptoFinite
<1> HIDE DEF C
<1>6. ASSUME NEW j \in 1..Cardinality(I), NEW k \in 1..Cardinality(I), j < k
      PROVE  Nth(I, j) < Nth(I, k)
  <2> DEFINE x == Nth(I, j)
             y == Nth(I, k)
  <2>1. x \in I /\ y \in I /\ C(x) = j /\ C(y) = k
    BY <1>1
  <2> HIDE DEF x, y
  <2>2. x \in Nat /\ y \in Nat /\ j \in Nat /\ k \in Nat
    BY <1>4, <1>5, <2>1
  <2>3. y < x => k < j
    BY <1>2, <2>1
  <2>4. x < y
    BY <1>6, <2>1, <2>2, <2>3
  <2> QED
    BY <2>4 DEF x, y
<1>7. ASSUME NEW x \in I PROVE \E k \in 1..Cardinality(I) : Nth(I, k) = x
  <2> DEFINE k == C(x)
             y == Nth(I, k)
  <2>1. k \in 1..Cardinality(I) /\ y \in I /\ C(y) = k
    BY <1>1, <1>3
  <2>2. x \in Nat /\ y \in Nat /\ k \in Nat
    <3> HIDE DEF k, y
    <3> QED
      BY <1>4, <1>5, <2>1
  <2>3. (y < x => C(y) < C(x)) /\ (x < y => C(x) < C(y))
    BY <1>2, <2>1
  <2>4. ~(y < x) /\ ~(x < y)
    <3> HIDE DEF y
    <3> QED
      BY <2>1, <2>2, <2>3
  <2>5. y = x
    <3> HIDE DEF y
    <3> QED
      BY <2>2, <2>4
  <2> QED
    BY <2>1, <2>5
<1>8. ASSUME NEW j \in 1..Cardinality(I), NEW k \in 1..Cardinality(I), Nth(I, j) = Nth(I, k)
      PROVE  j = k
  BY <1>1, <1>8
<1> QED
  BY <1>1, <1>6, <1>7, <1>8

(* Pick has the elements at the places given and no others. *)
LEMMA PickElements ==
    ASSUME NEW S, NEW s \in Seq(S), NEW I \in SUBSET DOMAIN s
    PROVE  /\ Pick(s, I) \in Seq(S)
           /\ Len(Pick(s, I)) = Cardinality(I)
           /\ DOMAIN Pick(s, I) = 1..Cardinality(I)
           /\ \A k \in DOMAIN Pick(s, I) : Nth(I, k) \in I /\ Pick(s, I)[k] = s[Nth(I, k)]
           /\ \A i \in I : \E k \in DOMAIN Pick(s, I) : Nth(I, k) = i /\ Pick(s, I)[k] = s[i]
<1> DEFINE n == Len(s)
           c == Cardinality(I)
<1>1. n \in Nat /\ DOMAIN s = 1..n /\ \A i \in 1..n : s[i] \in S
  OBVIOUS
<1>2. I \in SUBSET (1..n)
  BY <1>1
<1> HIDE DEF n
<1>3. c \in Nat
  BY <1>1, <1>2, UptoFinite
<1>4. /\ \A k \in 1..c : Nth(I, k) \in I
      /\ \A x \in I : \E k \in 1..c : Nth(I, k) = x
  BY <1>1, <1>2, NthOrder, ZenonT(60)
<1> HIDE DEF c
<1> DEFINE p == [k \in 1..c |-> s[Nth(I, k)]]
<1>5. p \in [1..c -> S]
  BY <1>1, <1>2, <1>4
<1>6. p \in Seq(S) /\ Len(p) = c /\ DOMAIN p = 1..c
  BY <1>3, <1>5
<1>7. p = Pick(s, I)
  BY DEF Pick, c
<1> QED
  BY <1>4, <1>6, <1>7 DEF c

(* Counting the values of an injective function *)
LEMMA ImageCount ==
    ASSUME NEW S, NEW f, DOMAIN f = S, IsFiniteSet(S), \A x, y \in S : f[x] = f[y] => x = y
    PROVE  LET T == {f[x] : x \in S} IN IsFiniteSet(T) /\ Cardinality(T) = Cardinality(S)
<1> DEFINE T == {f[x] : x \in S}
           g == [x \in S |-> f[x]]
<1>1. g \in Bijection(S, T)
  BY DEF Bijection, Injection, Surjection, IsInjective
<1> HIDE DEF g
<1>2. ExistsBijection(S, T)
  BY <1>1 DEF ExistsBijection
<1> HIDE DEF T
<1>3. IsFiniteSet(T) /\ Cardinality(T) = Cardinality(S)
  BY <1>2, FS_Bijection
<1> QED
  BY <1>3 DEF T
LEMMA ImageSize ==
    ASSUME NEW f, NEW K, IsFiniteSet(K), \A x, y \in K : f[x] = f[y] => x = y
    PROVE  Cardinality({f[x] : x \in K}) = Cardinality(K)
<1> DEFINE g == [x \in K |-> f[x]]
           T == {g[x] : x \in K}
<1>1. DOMAIN g = K /\ \A x, y \in K : g[x] = g[y] => x = y
  OBVIOUS
<1>2. T = {f[x] : x \in K}
  OBVIOUS
<1> HIDE DEF g
<1>3. IsFiniteSet(T) /\ Cardinality(T) = Cardinality(K)
  BY <1>1, ImageCount
<1> QED
  BY <1>2, <1>3

(* Nth is the only member with so many members up to it. *)
LEMMA NthUnique ==
    ASSUME NEW n \in Nat, NEW I \in SUBSET (1..n)
    PROVE  \A x \in I : \A k \in 1..Cardinality(I) :
              Cardinality({y \in I : y <= x}) = k => x = Nth(I, k)
<1> SUFFICES ASSUME NEW x \in I, NEW k \in 1..Cardinality(I), Cardinality({y \in I : y <= x}) = k
             PROVE  x = Nth(I, k)
  OBVIOUS
<1>1. PICK j \in 1..Cardinality(I) : Nth(I, j) = x
  BY NthOrder
<1>2. Cardinality({y \in I : y <= Nth(I, j)}) = j
  BY NthExists
<1> QED
  BY <1>1, <1>2

(* Two sets of places that correspond in order and hold the same elements have *)
(* the same Pick.                                                              *)
LEMMA PickAlong ==
    ASSUME NEW S, NEW s \in Seq(S), NEW t \in Seq(S),
           NEW I \in SUBSET DOMAIN s, NEW J \in SUBSET DOMAIN t, NEW f \in [I -> J],
           \A x, y \in I : x < y => f[x] < f[y],
           \A z \in J : \E x \in I : f[x] = z,
           \A x \in I : t[f[x]] = s[x]
    PROVE  Pick(s, I) = Pick(t, J)
<1> DEFINE n == Len(s)
           m == Len(t)
<1>1. n \in Nat /\ m \in Nat /\ I \in SUBSET (1..n) /\ J \in SUBSET (1..m)
  OBVIOUS
<1> HIDE DEF n, m
<1>2. \A x \in I : x \in Nat
  BY <1>1
<1>3. \A x \in J : x \in Nat
  BY <1>1
<1>4. \A x, y \in I : (f[x] = f[y] => x = y) /\ (x <= y <=> f[x] <= f[y])
  <2> SUFFICES ASSUME NEW x \in I, NEW y \in I
               PROVE  (f[x] = f[y] => x = y) /\ (x <= y <=> f[x] <= f[y])
    OBVIOUS
  <2>1. x \in Nat /\ y \in Nat /\ f[x] \in Nat /\ f[y] \in Nat
    BY <1>2, <1>3
  <2>2. (x < y => f[x] < f[y]) /\ (y < x => f[y] < f[x])
    OBVIOUS
  <2> QED
    BY <2>1, <2>2
<1>5. ASSUME NEW K \in SUBSET I
      PROVE  Cardinality({f[x] : x \in K}) = Cardinality(K)
  <2>1. IsFiniteSet(K)
    BY <1>1, UptoFinite, FS_Subset
  <2>2. \A x, y \in K : f[x] = f[y] => x = y
    BY <1>4
  <2> QED
    BY <2>1, <2>2, ImageSize
<1>6. Cardinality(I) = Cardinality(J)
  <2>1. J = {f[x] : x \in I}
    OBVIOUS
  <2> QED
    BY <1>5, <2>1
<1>7. \A z \in J : \A k \in 1..Cardinality(J) :
         Cardinality({y \in J : y <= z}) = k => z = Nth(J, k)
  BY <1>1, NthUnique
<1>8. ASSUME NEW k \in 1..Cardinality(I)
      PROVE  s[Nth(I, k)] = t[Nth(J, k)]
  <2> DEFINE x == Nth(I, k)
             A == {y \in I : y <= x}
             B == {y \in J : y <= f[x]}
  <2>1. x \in I /\ Cardinality(A) = k
    BY <1>1, NthExists
  <2> HIDE DEF x
  <2>2. B = {f[y] : y \in A}
    BY <1>4, <2>1
  <2>3. A \in SUBSET I
    OBVIOUS
  <2>4. Cardinality(B) = k
    <3> HIDE DEF A, B
    <3> QED
      BY <1>5, <2>1, <2>2, <2>3
  <2>5. f[x] \in J /\ k \in 1..Cardinality(J)
    BY <1>6, <2>1
  <2>6. f[x] = Nth(J, k)
    BY <1>7, <2>4, <2>5
  <2>7. s[x] = t[Nth(J, k)]
    BY <2>1, <2>6
  <2> QED
    BY <2>7 DEF x
<1> QED
  BY <1>6, <1>8 DEF Pick
=============================================================================
