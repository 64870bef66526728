-------------------------- MODULE NamespaceProofs --------------------------
(***************************************************************************)
(* Proofs about Namespace, for any names, trees, targets and bounds.       *)
(***************************************************************************)
EXTENDS Namespace, PicksProofs, SequenceTheorems

Path == Seq(Roots \cup Names)
Rel == Seq(Names)

-----------------------------------------------------------------------------
(* Paths *)

LEMMA FunctionIsSeq ==
    ASSUME NEW S, NEW n \in Nat, NEW f \in [1..n -> S]
    PROVE  f \in Seq(S) /\ Len(f) = n
  OBVIOUS

LEMMA Cut ==
    ASSUME NEW S, NEW p \in Seq(S), NEW k \in 0..Len(p)
    PROVE  /\ SubSeq(p, 1, k) \in Seq(S)
           /\ Len(SubSeq(p, 1, k)) = k
           /\ \A i \in 1..k : SubSeq(p, 1, k)[i] = p[i]
  OBVIOUS

LEMMA CutOfCut ==
    ASSUME NEW S, NEW p \in Seq(S), NEW k \in 0..Len(p), NEW j \in 0..k
    PROVE  SubSeq(SubSeq(p, 1, k), 1, j) = SubSeq(p, 1, j)
<1>1. j \in 0..Len(p) /\ j \in 0..Len(SubSeq(p, 1, k))
  BY Cut
<1> QED
  BY <1>1, Cut, SeqEqual

LEMMA WholeCut ==
    ASSUME NEW S, NEW p \in Seq(S)
    PROVE  SubSeq(p, 1, Len(p)) = p
  OBVIOUS

LEMMA CutOfAppend ==
    ASSUME NEW S, NEW p \in Seq(S), NEW x \in S, NEW k \in 0..Len(p)
    PROVE  SubSeq(Append(p, x), 1, k) = SubSeq(p, 1, k)
<1>1. Append(p, x) \in Seq(S) /\ Len(Append(p, x)) = Len(p) + 1
  OBVIOUS
<1>2. k \in 0..Len(Append(p, x)) /\ \A i \in 1..k : Append(p, x)[i] = p[i]
  BY <1>1
<1> QED
  BY <1>1, <1>2, Cut, SeqEqual

(* starts_with compares component by component. *)
LEMMA StartsWith ==
    ASSUME NEW S, NEW p \in Seq(S), NEW q \in Seq(S)
    PROVE  starts_with(p, q) <=> Len(q) <= Len(p) /\ \A i \in 1..Len(q) : p[i] = q[i]
<1>1. CASE Len(q) <= Len(p)
  <2>1. Len(q) \in 0..Len(p)
    BY <1>1
  <2> QED
    BY <2>1, Cut, SeqEqual DEF starts_with
<1> QED
  BY <1>1 DEF starts_with

LEMMA SameStart ==
    ASSUME NEW p \in Path, NEW q \in Path, starts_with(p, q)
    PROVE  /\ Len(q) <= Len(p)
           /\ \A i \in 1..Len(q) : p[i] = q[i]
           /\ Len(q) >= 1 => p[1] = q[1]
<1>1. Len(q) <= Len(p) /\ \A i \in 1..Len(q) : p[i] = q[i]
  BY StartsWith DEF Path
<1>2. Len(q) \in Nat
  BY DEF Path
<1> QED
  BY <1>1, <1>2

(* The path of an entry of an overlay *)
LEMMA Below ==
    ASSUME NEW m \in Roots, NEW rel \in Rel
    PROVE  /\ <<m>> \o rel \in Path
           /\ Len(<<m>> \o rel) = Len(rel) + 1
           /\ (<<m>> \o rel)[1] = m
           /\ \A i \in 1..Len(rel) : (<<m>> \o rel)[i + 1] = rel[i]
           /\ Tail(<<m>> \o rel) = rel
<1>1. <<m>> \in Seq(Roots \cup Names) /\ rel \in Seq(Roots \cup Names) /\ rel \in Seq(Names)
  BY DEF Rel
<1> QED
  BY <1>1 DEF Path

LEMMA SameBelow ==
    ASSUME NEW m \in Roots, NEW r \in Rel, NEW s \in Rel, <<m>> \o r = <<m>> \o s
    PROVE  r = s
  BY Below

LEMMA BelowAppend ==
    ASSUME NEW m \in Roots, NEW rel \in Rel, NEW n \in Names
    PROVE  /\ Append(rel, n) \in Rel
           /\ Append(rel, n) # << >>
           /\ Append(rel, n)[Len(Append(rel, n))] = n
           /\ <<m>> \o Append(rel, n) = Append(<<m>> \o rel, n)
<1>1. <<m>> \in Path /\ rel \in Path /\ rel \in Seq(Names) /\ n \in Roots \cup Names
  BY DEF Rel, Path
<1>2. /\ Append(rel, n) \in Seq(Names) /\ Len(Append(rel, n)) = Len(rel) + 1
      /\ Append(rel, n)[Len(rel) + 1] = n
  BY <1>1
<1>3. <<m>> \o Append(rel, n) = Append(<<m>> \o rel, n)
  BY <1>1, AppendIsConcat, ConcatAssociative DEF Path
<1> QED
  BY <1>1, <1>2, <1>3 DEF Rel

(* Every path of a tree with a component after the root is one of an overlay or
   of another directory of the root. *)
LEMMA SplitBelow ==
    ASSUME NEW t, WellFormed(t), NEW p \in DOMAIN t
    PROVE  /\ p \in Path /\ Len(p) >= 1 /\ p[1] \in Roots
           /\ Tail(p) \in Rel /\ p = <<p[1]>> \o Tail(p)
<1>1. /\ p \in Seq(Roots \cup Names) /\ p # << >> /\ p[1] \in Roots
      /\ \A k \in 2..Len(p) : p[k] \in Names
  BY DEF WellFormed
<1>2. Len(p) >= 1 /\ p \in Path
  BY <1>1 DEF Path
<1>3. Tail(p) \in Seq(Roots \cup Names) /\ Len(Tail(p)) = Len(p) - 1
  BY <1>1, <1>2
<1>4. \A k \in 1..Len(Tail(p)) : Tail(p)[k] = p[k + 1] /\ Tail(p)[k] \in Names
  BY <1>1, <1>2, <1>3
<1>5. Tail(p) \in Rel
  <2>1. Len(Tail(p)) \in Nat /\ Tail(p) \in [1..Len(Tail(p)) -> Roots \cup Names]
    BY <1>3, LenProperties
  <2>2. Tail(p) \in [1..Len(Tail(p)) -> Names]
    BY <1>4, <2>1
  <2> QED
    BY <2>1, <2>2, FunctionIsSeq DEF Rel
<1>6. p = <<p[1]>> \o Tail(p)
  BY <1>1, <1>2
<1> QED
  BY <1>1, <1>2, <1>5, <1>6

-----------------------------------------------------------------------------
(* Trees *)

LEMMA MountIsRoot == Mounts \subseteq Roots
  BY PathsAssumption

(* The directories above a node *)
LEMMA Above ==
    ASSUME NEW t, WellFormed(t), NEW p \in DOMAIN t, NEW k \in 1..(Len(p) - 1)
    PROVE  SubSeq(p, 1, k) \in DOMAIN t /\ t[SubSeq(p, 1, k)].t = "dir"
  BY DEF WellFormed

(* No link is on the way to a node that is there. *)
LEMMA NodeIsDirect ==
    ASSUME NEW t, WellFormed(t), NEW p \in DOMAIN t
    PROVE  Direct(t, p, FALSE) /\ (t[p].t # "link" => Direct(t, p, TRUE))
<1>1. p \in Path /\ Len(p) \in Nat
  BY DEF WellFormed, Path
<1>2. \A k \in 2..Len(p) : SubSeq(p, 1, k) \in DOMAIN t /\ t[SubSeq(p, 1, k)].t = "link" => k = Len(p)
  <2> SUFFICES ASSUME NEW k \in 2..Len(p), t[SubSeq(p, 1, k)].t = "link", k # Len(p) PROVE FALSE
    OBVIOUS
  <2>1. k \in 1..(Len(p) - 1)
    BY <1>1
  <2> QED
    BY <2>1, Above
<1>3. SubSeq(p, 1, Len(p)) = p
  BY <1>1 DEF Path
<1> QED
  BY <1>2, <1>3 DEF Direct

(* Nor to an entry of a directory that no link leads to. *)
LEMMA EntryIsDirect ==
    ASSUME NEW t, NEW p \in Path, NEW n \in Names, Direct(t, p, TRUE)
    PROVE  Direct(t, Append(p, n), FALSE)
<1>1. p \in Seq(Roots \cup Names) /\ n \in Roots \cup Names /\ Len(p) \in Nat
  BY DEF Path
<1>2. Len(Append(p, n)) = Len(p) + 1
  BY <1>1
<1> SUFFICES ASSUME NEW k \in 2..Len(Append(p, n)), SubSeq(Append(p, n), 1, k) \in DOMAIN t,
                    t[SubSeq(Append(p, n), 1, k)].t = "link"
             PROVE  k = Len(Append(p, n))
  BY DEF Direct
<1> SUFFICES ASSUME k # Len(Append(p, n)) PROVE FALSE
  OBVIOUS
<1>3. k \in 2..Len(p) /\ k \in 0..Len(p)
  BY <1>1, <1>2
<1>4. SubSeq(Append(p, n), 1, k) = SubSeq(p, 1, k)
  BY <1>1, <1>3, CutOfAppend
<1> QED
  BY <1>3, <1>4 DEF Direct

LEMMA DirectAt ==
    ASSUME NEW t, NEW m, NEW rel, NEW follow, Direct(t, <<m>> \o rel, follow)
    PROVE  At(t, m, rel, follow)
             = Found(IF <<m>> \o rel \in DOMAIN t THEN "ok" ELSE "none", <<m>> \o rel, << >>)
  BY DEF At

-----------------------------------------------------------------------------
(* The kernel's walks *)

IsWalk(t, N, w) ==
    w = [n \in 0..N |->
           [q \in Queries |-> IF n = 0 THEN Found("lost", q.at, << >>) ELSE Walked(t, w[n - 1], q)]]

(* The recursion is well founded. *)
LEMMA WalkExists ==
    ASSUME NEW t, NEW N \in Nat
    PROVE  \E w : IsWalk(t, N, w)
<1> DEFINE Level(n, r) ==
             [q \in Queries |-> IF n = 0 THEN Found("lost", q.at, << >>) ELSE Walked(t, r, q)]
           T == {m \in Nat : ~\E w : IsWalk(t, m, w)}
<1> SUFFICES ASSUME T # {} PROVE FALSE
  OBVIOUS
<1>1. PICK m \in T : \A k \in T : m <= k
  <2>1. T \in SUBSET Nat
    OBVIOUS
  <2> HIDE DEF T
  <2> QED
    BY <2>1, LeastNatural
<1>2. m # 0
  <2> DEFINE w == [i \in 0..0 |-> Level(0, 0)]
  <2>1. IsWalk(t, 0, w)
    BY DEF IsWalk
  <2> QED
    BY <2>1
<1>3. m - 1 \in Nat /\ m - 1 \notin T
  <2>1. m \in Nat
    OBVIOUS
  <2> HIDE DEF T
  <2> QED
    BY <1>1, <1>2, <2>1
<1>4. PICK f : IsWalk(t, m - 1, f)
  BY <1>3
<1>d. \A n \in 0..(m - 1) : f[n] = Level(n, f[n - 1])
  BY <1>4 DEF IsWalk
<1> HIDE DEF Level
<1> DEFINE g == [i \in 0..m |-> IF i = m THEN Level(m, f[m - 1]) ELSE f[i]]
<1>5. \A i \in 0..m : i # m => i \in 0..(m - 1) /\ g[i] = f[i]
  BY <1>2
<1>6. \A i \in 0..m : g[i] = Level(i, g[i - 1])
  <2> SUFFICES ASSUME NEW i \in 0..m PROVE g[i] = Level(i, g[i - 1])
    OBVIOUS
  <2>1. i # 0 => i - 1 \in 0..(m - 1) /\ g[i - 1] = f[i - 1]
    BY <1>2, <1>5
  <2>0. \A r, s : Level(0, r) = Level(0, s)
    BY DEF Level
  <2>2. CASE i = m
    BY <1>2, <2>1, <2>2
  <2>3. CASE i # m
    <3>1. f[i] = Level(i, f[i - 1]) /\ g[i] = f[i]
      BY <1>d, <1>5, <2>3
    <3> QED
      BY <2>0, <2>1, <3>1
  <2> QED
    BY <2>2, <2>3
<1>7. IsWalk(t, m, g)
  <2>1. g = [i \in 0..m |-> g[i]]
    OBVIOUS
  <2> HIDE DEF g
  <2> QED
    BY <1>6, <2>1 DEF IsWalk, Level
<1> QED
  BY <1>7

(* A walk in n steps is a step of a walk in n - 1 steps. *)
LEMMA ResolveSteps ==
    ASSUME NEW t
    PROVE  \E w : /\ \A q \in Queries : w[0][q] = Found("lost", q.at, << >>)
                  /\ \A n \in 1..MaxSteps : \A q \in Queries : w[n][q] = Walked(t, w[n - 1], q)
                  /\ \A q \in Queries : Resolve(t, q) = w[MaxSteps][q]
<1> DEFINE w == CHOOSE f : IsWalk(t, MaxSteps, f)
<1>0. MaxSteps \in Nat
  BY PathsAssumption
<1>1. IsWalk(t, MaxSteps, w)
  BY <1>0, WalkExists
<1>2. \A q : Resolve(t, q) = w[MaxSteps][q]
  BY DEF Resolve, IsWalk
<1> HIDE DEF w
<1>3. \A q \in Queries : w[0][q] = Found("lost", q.at, << >>)
  BY <1>0, <1>1 DEF IsWalk
<1>4. \A n \in 1..MaxSteps : \A q \in Queries : w[n][q] = Walked(t, w[n - 1], q)
  <2> SUFFICES ASSUME NEW n \in 1..MaxSteps, NEW q \in Queries PROVE w[n][q] = Walked(t, w[n - 1], q)
    OBVIOUS
  <2>1. n \in 0..MaxSteps /\ n # 0
    BY <1>0
  <2>2. w[n] = [p \in Queries |-> IF n = 0 THEN Found("lost", p.at, << >>) ELSE Walked(t, w[n - 1], p)]
    BY <1>1, <2>1 DEF IsWalk
  <2> QED
    BY <2>1, <2>2
<1> QED
  BY <1>2, <1>3, <1>4

(* What a walk returns *)
Result ==
    [st : {"ok", "none", "lost", "waits"}, at : Seq(Component), seen : Seq(Path),
     who : SUBSET Mounts]

(* What is looked up through an overlay is there, below its root. *)
SeenThere(t, seen) ==
    \A k \in DOMAIN seen : seen[k] \in DOMAIN t /\ Len(seen[k]) > 1 /\ seen[k][1] \in Mounts
Good(t, res) == res \in Result /\ SeenThere(t, res.seen)

LEMMA PathIsComponents == Path \subseteq Seq(Component) /\ Rel \subseteq Seq(Component)
<1>1. Roots \cup Names \subseteq Component /\ Names \subseteq Component
  BY DEF Component
<1> QED
  BY <1>1, SeqMonotonic DEF Path, Rel

LEMMA SeenConcat ==
    ASSUME NEW t, NEW a \in Seq(Path), NEW b \in Seq(Path), SeenThere(t, a), SeenThere(t, b)
    PROVE  a \o b \in Seq(Path) /\ SeenThere(t, a \o b)
<1>1. /\ a \o b \in Seq(Path) /\ Len(a \o b) = Len(a) + Len(b)
      /\ \A k \in 1..Len(a \o b) : (a \o b)[k] = IF k <= Len(a) THEN a[k] ELSE b[k - Len(a)]
  BY ConcatProperties
<1>2. /\ Len(a) \in Nat /\ DOMAIN a = 1..Len(a)
      /\ Len(b) \in Nat /\ DOMAIN b = 1..Len(b)
      /\ DOMAIN (a \o b) = 1..Len(a \o b)
  BY <1>1, LenProperties
<1> SUFFICES ASSUME NEW k \in 1..Len(a \o b)
             PROVE  /\ (a \o b)[k] \in DOMAIN t /\ Len((a \o b)[k]) > 1 /\ (a \o b)[k][1] \in Mounts
  BY <1>1, <1>2 DEF SeenThere
<1>3. CASE k <= Len(a)
  <2>1. k \in DOMAIN a /\ (a \o b)[k] = a[k]
    BY <1>1, <1>2, <1>3
  <2> QED
    BY <2>1 DEF SeenThere
<1>4. CASE ~(k <= Len(a))
  <2>1. k - Len(a) \in DOMAIN b /\ (a \o b)[k] = b[k - Len(a)]
    BY <1>1, <1>2, <1>4
  <2> QED
    BY <2>1 DEF SeenThere
<1> QED
  BY <1>3, <1>4

LEMMA EmptySeen == \A t : << >> \in Seq(Path) /\ SeenThere(t, << >>)
  BY DEF SeenThere

(* A walk goes from queries to queries. *)
LEMMA QueryFields ==
    ASSUME NEW q \in Queries
    PROVE  /\ q.at \in Seq(Component) /\ q.real \in BOOLEAN /\ q.todo \in Seq(Component)
           /\ q.follow \in BOOLEAN /\ q.busy \in SUBSET Mounts
  BY DEF Queries

LEMMA OnwardQuery ==
    ASSUME NEW q \in Queries, q.todo # << >>, NEW at \in Seq(Component)
    PROVE  Onward(q, at) \in Queries
<1>1. Tail(q.todo) \in Seq(Component)
  BY QueryFields
<1> QED
  BY <1>1 DEF Onward, Queries

LEMMA UpQuery ==
    ASSUME NEW q \in Queries, q.todo # << >>
    PROVE  Up(q) \in Queries
<1>1. Parent(q.at) \in Seq(Component)
  <2>1. q.at \in Seq(Component)
    BY QueryFields
  <2>2. CASE q.at = << >>
    BY <2>1, <2>2 DEF Parent
  <2>3. CASE q.at # << >>
    <3>1. Len(q.at) - 1 \in 0..Len(q.at)
      BY <2>1, <2>3
    <3> QED
      BY <2>1, <2>3, <3>1, Cut DEF Parent
  <2> QED
    BY <2>2, <2>3
<1>2. Onward(q, Parent(q.at)) \in Queries
  BY <1>1, OnwardQuery
<1>3. \A r \in Queries, b \in BOOLEAN : [r EXCEPT !.real = @ /\ b] \in Queries
  BY DEF Queries
<1> QED
  BY <1>2, <1>3 DEF Up

LEMMA RedirectedQuery ==
    ASSUME NEW q \in Queries, q.todo # << >>, NEW to \in Target
    PROVE  Redirected(q, to) \in Queries
<1>1. Tail(q.todo) \in Seq(Component) /\ to.path \in Seq(Component) /\ to.abs \in BOOLEAN
  BY QueryFields DEF Target
<1>2. to.path \o Tail(q.todo) \in Seq(Component)
  BY <1>1, ConcatProperties
<1>3. << >> \in Seq(Component)
  OBVIOUS
<1> QED
  BY <1>1, <1>2, <1>3 DEF Redirected, Queries

LEMMA InnerQuery ==
    ASSUME NEW t, WellFormed(t), NEW q \in Queries, NEW p \in DOMAIN t, p[1] \in Mounts
    PROVE  Inner(q, p) \in Queries
<1>1. Tail(p) \in Seq(Component) /\ p[1] \in Component
  BY SplitBelow, PathIsComponents DEF Component
<1>2. <<p[1]>> \in Seq(Component) /\ q.busy \cup {p[1]} \in SUBSET Mounts
  BY <1>1, QueryFields
<1> QED
  BY <1>1, <1>2 DEF Inner, Query, Queries

LEMMA PastQuery ==
    ASSUME NEW t, WellFormed(t), NEW q \in Queries, q.todo # << >>, NEW p \in DOMAIN t, NEW inner
    PROVE  Past(t, q, p, t[p], inner) \in Queries
<1>1. t[p].to \in Target
  BY DEF WellFormed
<1>2. p \in Seq(Component)
  BY SplitBelow, PathIsComponents
<1> QED
  BY <1>1, <1>2, OnwardQuery, RedirectedQuery DEF Past

LEMMA FoundGood ==
    ASSUME NEW t, NEW st \in {"ok", "none", "lost"}, NEW at \in Seq(Component)
    PROVE  Good(t, Found(st, at, << >>))
  BY EmptySeen DEF Good, Found, Result

LEMMA BeforeGood ==
    ASSUME NEW t, NEW seen \in Seq(Path), SeenThere(t, seen), NEW res, Good(t, res)
    PROVE  Good(t, Before(seen, res))
<1>1. /\ res \in Result /\ res.seen \in Seq(Path) /\ SeenThere(t, res.seen)
  BY DEF Good, Result
<1>2. seen \o res.seen \in Seq(Path) /\ SeenThere(t, seen \o res.seen)
  BY <1>1, SeenConcat
<1>3. Before(seen, res) \in Result /\ Before(seen, res).seen = seen \o res.seen
  BY <1>1, <1>2 DEF Before, Result
<1> QED
  BY <1>2, <1>3 DEF Good

LEMMA ThroughGood ==
    ASSUME NEW t, WellFormed(t), NEW rest, \A x \in Queries : Good(t, rest[x]),
           NEW q \in Queries, q.todo # << >>, NEW p \in DOMAIN t,
           Fuse(q) => Len(p) > 1 /\ p[1] \in Mounts,
           NEW inner, Good(t, inner)
    PROVE  Good(t, Through(t, rest, q, p, inner))
<1> DEFINE here == IF Fuse(q) THEN <<p>> ELSE << >>
<1>1. here \in Seq(Path) /\ SeenThere(t, here)
  <2>1. p \in Path
    BY SplitBelow
  <2>2. CASE Fuse(q)
    BY <2>1, <2>2 DEF SeenThere
  <2>3. CASE ~Fuse(q)
    BY <2>3, EmptySeen
  <2> QED
    BY <2>2, <2>3
<1>2. inner.seen \in Seq(Path) /\ SeenThere(t, inner.seen)
  BY DEF Good, Result
<1>3. here \o inner.seen \in Seq(Path) /\ SeenThere(t, here \o inner.seen)
  BY <1>1, <1>2, SeenConcat
<1>4. Good(t, rest[Past(t, q, p, t[p], inner)])
  BY PastQuery
<1>5. Good(t, Before(here \o inner.seen, rest[Past(t, q, p, t[p], inner)]))
  BY <1>3, <1>4, BeforeGood
<1> QED
  BY <1>5 DEF Through

LEMMA WalkedGood ==
    ASSUME NEW t, WellFormed(t), NEW rest, \A x \in Queries : Good(t, rest[x]), NEW q \in Queries
    PROVE  Good(t, Walked(t, rest, q))
<1>0. q.at \in Seq(Component) /\ q.todo \in Seq(Component) /\ q.busy \in SUBSET Mounts
  BY QueryFields
<1>1. CASE q.todo = << >>
  BY <1>0, <1>1, FoundGood DEF Walked
<1>2. CASE q.todo # << >> /\ Head(q.todo) = "."
  BY <1>0, <1>2, OnwardQuery DEF Walked
<1>3. CASE q.todo # << >> /\ Head(q.todo) # "." /\ Head(q.todo) = ".."
  BY <1>3, UpQuery DEF Walked
<1>4. CASE q.todo # << >> /\ Head(q.todo) # "." /\ Head(q.todo) # ".."
  <2> DEFINE p == Append(q.at, Head(q.todo))
  <2>1. Walked(t, rest, q) = Enter(t, rest, q, p)
    BY <1>4 DEF Walked
  <2>2. /\ p \in Seq(Component) /\ Len(p) = Len(q.at) + 1
        /\ q.at # << >> => p[1] = q.at[1] /\ Len(p) > 1
    BY <1>0, <1>4
  <2> HIDE DEF p
  <2>3. CASE Fuse(q) /\ q.at[1] \in q.busy
    <3>1. Waits(p, q.busy) \in Result /\ Waits(p, q.busy).seen = << >>
      BY <1>0, <2>2, EmptySeen DEF Waits, Result
    <3> QED
      BY <2>1, <2>3, <3>1, EmptySeen DEF Enter, Good
  <2>4. CASE ~(Fuse(q) /\ q.at[1] \in q.busy) /\ p \notin DOMAIN t
    BY <2>1, <2>2, <2>4, FoundGood DEF Enter
  <2>5. CASE ~(Fuse(q) /\ q.at[1] \in q.busy) /\ p \in DOMAIN t
    <3>1. Fuse(q) => Len(p) > 1 /\ p[1] \in Mounts
      BY <2>2 DEF Fuse
    <3> DEFINE inner == IF Inspected(q, p, t[p]) THEN rest[Inner(q, p)] ELSE Found("ok", p, << >>)
    <3>2. Good(t, inner)
      BY <2>2, <2>5, <3>1, InnerQuery, FoundGood DEF Inspected
    <3>3. Enter(t, rest, q, p) = Through(t, rest, q, p, inner)
      BY <2>5 DEF Enter
    <3> HIDE DEF inner
    <3> QED
      BY <1>4, <2>1, <2>5, <3>1, <3>2, <3>3, ThroughGood
  <2> QED
    BY <2>3, <2>4, <2>5
<1> QED
  BY <1>1, <1>2, <1>3, <1>4

(* A path that is resolved leads through nodes that are there. *)
LEMMA ResolveGood ==
    ASSUME NEW t, WellFormed(t), NEW query \in Queries
    PROVE  Good(t, Resolve(t, query))
<1>1. PICK w : /\ \A q \in Queries : w[0][q] = Found("lost", q.at, << >>)
               /\ \A n \in 1..MaxSteps : \A q \in Queries : w[n][q] = Walked(t, w[n - 1], q)
               /\ \A q \in Queries : Resolve(t, q) = w[MaxSteps][q]
  BY ResolveSteps
<1>2. MaxSteps \in Nat
  BY PathsAssumption
<1> DEFINE T == {n \in 0..MaxSteps : ~\A q \in Queries : Good(t, w[n][q])}
<1>3. T = {}
  <2> SUFFICES ASSUME T # {} PROVE FALSE
    OBVIOUS
  <2>1. PICK n \in T : \A k \in T : n <= k
    <3>1. T \in SUBSET Nat
      BY <1>2
    <3> HIDE DEF T
    <3> QED
      BY <3>1, LeastNatural
  <2>2. n \in 0..MaxSteps /\ ~\A q \in Queries : Good(t, w[n][q])
    OBVIOUS
  <2>3. n # 0
    <3>1. \A q \in Queries : Good(t, w[0][q])
      BY <1>1, QueryFields, FoundGood
    <3> QED
      BY <2>2, <3>1
  <2>4. n \in 1..MaxSteps /\ n - 1 \in 0..MaxSteps /\ ~(n <= n - 1)
    BY <1>2, <2>2, <2>3
  <2>5. \A q \in Queries : Good(t, w[n - 1][q])
    BY <2>1, <2>4
  <2> HIDE DEF T
  <2> QED
    BY <1>1, <2>2, <2>4, <2>5, WalkedGood
<1>4. MaxSteps \in 0..MaxSteps
  BY <1>2
<1> QED
  BY <1>1, <1>3, <1>4

LEMMA AtGood ==
    ASSUME NEW t, WellFormed(t), NEW m \in Mounts, NEW rel \in Rel, NEW follow \in BOOLEAN
    PROVE  Good(t, At(t, m, rel, follow))
<1> DEFINE p == <<m>> \o rel
<1>1. p \in Seq(Component) /\ m \in Component /\ rel \in Seq(Component)
  BY Below, PathIsComponents, PathsAssumption DEF Component
<1> HIDE DEF p
<1>2. <<m>> \in Seq(Component) /\ {m} \in SUBSET Mounts
  BY <1>1
<1>3. Query(<<m>>, TRUE, rel, follow, {m}) \in Queries
  BY <1>1, <1>2 DEF Query, Queries
<1>4. Good(t, Resolve(t, Query(<<m>>, TRUE, rel, follow, {m})))
  BY <1>3, ResolveGood
<1>5. Good(t, Found("ok", p, << >>)) /\ Good(t, Found("none", p, << >>))
  BY <1>1, FoundGood
<1> QED
  BY <1>4, <1>5 DEF At, p

-----------------------------------------------------------------------------
(* Where links lead *)

(* A target that climbs j directories and goes down T from there.  A path down
   has no root but at its start. *)
Down == {T \in Path : \A k \in 2..Len(T) : T[k] \in Names}
Goes(path, j, T) ==
    /\ Len(path) = j + Len(T)
    /\ \A k \in 1..j : path[k] = ".."
    /\ \A k \in 1..Len(T) : path[j + k] = T[k]

Plain(to) == \E j \in Nat, T \in Down : Goes(to.path, j, T) /\ (to.abs => j = 0)

(* Links outside of the overlays mention none. *)
Apart(t) ==
    \A p \in DOMAIN t : t[p].t = "link" /\ p[1] \notin Mounts
        => \A k \in 1..Len(t[p].to.path) : t[p].to.path[k] \notin Mounts

(* No link is a directory of the root. *)
Tame(t) == Apart(t) /\ \A p \in DOMAIN t : t[p].t = "link" => Len(p) > 1

(* One overlay, and links elsewhere that do not lead back into it; nothing is said
   of the links of the overlay and of those that the program makes.  The names of
   the directories of the root are not used below them. *)
Alone ==
    /\ \A m, o \in Mounts : m = o
    /\ Names \cap Roots = {}
    /\ Apart(Given0)

(* The target leads to T, which is not in an overlay, from a directory that D
   directories lie above; or to nothing, as it leads to the name of a directory of
   the root from below. *)
Led(to, D, j, T) ==
    /\ j \in Nat /\ T \in Down /\ Goes(to.path, j, T)
    /\ T # << >> => T[1] \notin Mounts
    /\ IF to.abs THEN j = 0 ELSE D <= j \/ (T # << >> /\ T[1] \in Roots)

Out(to) ==
    \E j \in Nat, T \in Down : /\ Goes(to.path, j, T) /\ (to.abs => j = 0)
                               /\ T # << >> /\ T[1] \in Roots \ Mounts

(* w[n] is what comes of the queries in n steps. *)
WalkOf(t, w) ==
    /\ \A q \in Queries : w[0][q] = Found("lost", q.at, << >>)
    /\ \A n \in 1..MaxSteps : \A q \in Queries : w[n][q] = Walked(t, w[n - 1], q)
    /\ \A q \in Queries : Resolve(t, q) = w[MaxSteps][q]

(* What is said of each query holds of a walk if each step of it keeps it, and so
   does what it says together with something else that holds. *)
LEMMA WalkInductionOn ==
    ASSUME NEW t, NEW w, WalkOf(t, w), NEW A, NEW B,
           \A n \in 0..MaxSteps : \A q \in Queries : w[n][q] \in A[q],
           \A q \in Queries : Found("lost", q.at, << >>) \in B[q],
           \A rest : /\ \A x \in Queries : rest[x] \in A[x] /\ rest[x] \in B[x]
                     /\ \A x \in Queries : Walked(t, rest, x) \in A[x]
                     => \A q \in Queries : Walked(t, rest, q) \in B[q]
    PROVE  \A n \in 0..MaxSteps : \A q \in Queries : w[n][q] \in B[q]
<1>1. MaxSteps \in Nat
  BY PathsAssumption
<1> DEFINE T == {n \in 0..MaxSteps : ~\A q \in Queries : w[n][q] \in B[q]}
<1> SUFFICES ASSUME T # {} PROVE FALSE
  OBVIOUS
<1>2. PICK n \in T : \A k \in T : n <= k
  <2>1. T \in SUBSET Nat
    BY <1>1
  <2> HIDE DEF T
  <2> QED
    BY <2>1, LeastNatural
<1>3. n \in 0..MaxSteps /\ ~\A q \in Queries : w[n][q] \in B[q]
  OBVIOUS
<1>4. n # 0
  BY <1>3 DEF WalkOf
<1>5. n \in 1..MaxSteps /\ n - 1 \in 0..MaxSteps /\ ~(n <= n - 1)
  BY <1>1, <1>3, <1>4
<1>6. \A q \in Queries : w[n - 1][q] \in B[q]
  BY <1>2, <1>5
<1>7. \A q \in Queries : w[n][q] = Walked(t, w[n - 1], q)
  BY <1>5 DEF WalkOf
<1>8. \A x \in Queries : w[n - 1][x] \in A[x] /\ Walked(t, w[n - 1], x) \in A[x]
  BY <1>3, <1>5, <1>7
<1> HIDE DEF T
<1>9. \A q \in Queries : Walked(t, w[n - 1], q) \in B[q]
  BY <1>6, <1>8
<1> QED
  BY <1>3, <1>7, <1>9

LEMMA WalkInduction ==
    ASSUME NEW t, NEW B,
           \A q \in Queries : Found("lost", q.at, << >>) \in B[q],
           \A rest : (\A x \in Queries : rest[x] \in B[x])
                     => \A q \in Queries : Walked(t, rest, q) \in B[q]
    PROVE  \A q \in Queries : Resolve(t, q) \in B[q]
<1>1. PICK w : WalkOf(t, w)
  BY ResolveSteps DEF WalkOf
<1> DEFINE A == [q \in Queries |-> {w[n][q] : n \in 0..MaxSteps}]
<1>2. \A n \in 0..MaxSteps : \A q \in Queries : w[n][q] \in A[q]
  OBVIOUS
<1> HIDE DEF A
<1>3. \A n \in 0..MaxSteps : \A q \in Queries : w[n][q] \in B[q]
  BY <1>1, <1>2, WalkInductionOn
<1>4. MaxSteps \in 0..MaxSteps
  BY PathsAssumption
<1> QED
  BY <1>1, <1>3, <1>4 DEF WalkOf

(* A walk that is outside of the overlays and stays there *)
Outside(q) ==
    /\ q.at = << >> \/ q.at[1] \notin Mounts
    /\ \A k \in 1..Len(q.todo) : q.todo[k] \notin Mounts

(* A walk that leaves the overlay and then goes down T, or ends in between *)
Leaving(q, j, T) ==
    /\ j \in Nat /\ T \in Down /\ Goes(q.todo, j, T)
    /\ T # << >> => T[1] \notin Mounts
    /\ q.at # << >> => q.real
    /\ Len(q.at) <= j \/ (T # << >> /\ T[1] \in Roots)

(* A walk to a link, below the root that the descriptor of the backend shows *)
Nearing(q, P) ==
    /\ q.real /\ q.follow
    /\ \E k \in 1..(Len(P) - 1) : q.at = SubSeq(P, 1, k) /\ q.todo = SubSeq(P, k + 1, Len(P))

(* What becomes of a walk that leads to T *)
Comes(t, res, T) ==
    /\ res.st # "waits"
    /\ res.st = "ok" /\ res.at \in DOMAIN t => T # << >> /\ T[1] \in Roots \ Mounts

(* The rest of a list *)
LEMMA TailFacts ==
    ASSUME NEW S, NEW s \in Seq(S), s # << >>
    PROVE  /\ Len(s) \in Nat /\ Len(s) >= 1 /\ Head(s) = s[1]
           /\ Tail(s) \in Seq(S) /\ Len(Tail(s)) = Len(s) - 1
           /\ \A k \in 1..Len(Tail(s)) : k + 1 \in 1..Len(s) /\ Tail(s)[k] = s[k + 1]
  OBVIOUS

LEMMA ConcatAvoids ==
    ASSUME NEW S, NEW a \in Seq(S), NEW b \in Seq(S), NEW M,
           \A k \in 1..Len(a) : a[k] \notin M, \A k \in 1..Len(b) : b[k] \notin M
    PROVE  \A k \in 1..Len(a \o b) : (a \o b)[k] \notin M
<1>1. /\ Len(a \o b) = Len(a) + Len(b)
      /\ \A k \in 1..(Len(a) + Len(b)) : (a \o b)[k] = IF k <= Len(a) THEN a[k] ELSE b[k - Len(a)]
  OBVIOUS
<1>2. Len(a) \in Nat /\ Len(b) \in Nat
  OBVIOUS
<1> SUFFICES ASSUME NEW k \in 1..(Len(a) + Len(b)) PROVE (a \o b)[k] \notin M
  BY <1>1
<1>3. CASE k <= Len(a)
  BY <1>1, <1>2, <1>3
<1>4. CASE ~(k <= Len(a))
  <2>1. k - Len(a) \in 1..Len(b)
    BY <1>2, <1>4
  <2> QED
    BY <1>1, <1>4, <2>1
<1> QED
  BY <1>3, <1>4

LEMMA ParentFacts ==
    ASSUME NEW S, NEW s \in Seq(S)
    PROVE  /\ Parent(s) \in Seq(S)
           /\ s # << >> => Len(Parent(s)) = Len(s) - 1
           /\ s = << >> => Parent(s) = << >>
           /\ Parent(s) # << >> => s # << >> /\ Len(s) > 1 /\ Parent(s)[1] = s[1]
<1>1. CASE s = << >>
  BY <1>1 DEF Parent
<1>2. CASE s # << >>
  <2>1. Len(s) \in Nat /\ Len(s) >= 1 /\ Len(s) - 1 \in 0..Len(s)
    BY <1>2
  <2>2. /\ Parent(s) \in Seq(S) /\ Len(Parent(s)) = Len(s) - 1
        /\ \A i \in 1..(Len(s) - 1) : Parent(s)[i] = s[i]
    BY <1>2, <2>1, Cut DEF Parent
  <2>3. Parent(s) # << >> => Len(s) > 1 /\ Parent(s)[1] = s[1]
    <3>1. Parent(s) # << >> => Len(Parent(s)) >= 1
      BY <2>2
    <3> QED
      BY <2>1, <2>2, <3>1
  <2> QED
    BY <1>2, <2>2, <2>3
<1> QED
  BY <1>1, <1>2

(* The fields of the queries that come next *)
LEMMA OnwardFields ==
    ASSUME NEW q \in Queries, NEW at
    PROVE  /\ Onward(q, at).at = at /\ Onward(q, at).todo = Tail(q.todo)
           /\ Onward(q, at).real = q.real /\ Onward(q, at).follow = q.follow
           /\ Onward(q, at).busy = q.busy
  BY DEF Onward, Queries

LEMMA UpFields ==
    ASSUME NEW q \in Queries
    PROVE  /\ Up(q).at = Parent(q.at) /\ Up(q).todo = Tail(q.todo)
           /\ Up(q).real = (q.real /\ Len(q.at) > 1)
           /\ Up(q).follow = q.follow /\ Up(q).busy = q.busy
  BY DEF Up, Onward, Queries

LEMMA RedirectedFields ==
    ASSUME NEW q \in Queries, NEW to
    PROVE  /\ Redirected(q, to).at = (IF to.abs THEN << >> ELSE q.at)
           /\ Redirected(q, to).todo = to.path \o Tail(q.todo)
           /\ Redirected(q, to).real = (~to.abs /\ q.real)
           /\ Redirected(q, to).follow = q.follow /\ Redirected(q, to).busy = q.busy
  BY DEF Redirected, Queries

(* A component that is a name, where no request is sent for it *)
LEMMA EnterReal ==
    ASSUME NEW t, WellFormed(t), NEW rest, \A x \in Queries : Good(t, rest[x]),
           NEW q \in Queries, q.todo # << >>, Head(q.todo) \notin {".", ".."}, ~Fuse(q)
    PROVE  LET p == Append(q.at, Head(q.todo))
               next == IF t[p].t = "link" /\ (q.follow \/ Len(q.todo) > 1)
                       THEN Redirected(q, t[p].to) ELSE Onward(q, p)
           IN /\ p \in Seq(Component) /\ Len(p) = Len(q.at) + 1
              /\ \A k \in 1..Len(q.at) : p[k] = q.at[k]
              /\ p[Len(p)] = Head(q.todo)
              /\ p \notin DOMAIN t => Walked(t, rest, q).st = "none"
              /\ p \in DOMAIN t => /\ next \in Queries
                                   /\ Walked(t, rest, q).st = rest[next].st
                                   /\ Walked(t, rest, q).at = rest[next].at
<1> DEFINE p == Append(q.at, Head(q.todo))
           next == IF t[p].t = "link" /\ (q.follow \/ Len(q.todo) > 1)
                   THEN Redirected(q, t[p].to) ELSE Onward(q, p)
           inner == Found("ok", p, << >>)
<1>0. q.at \in Seq(Component) /\ Len(q.at) \in Nat /\ Head(q.todo) \in Component
  BY QueryFields
<1>1. /\ p \in Seq(Component) /\ Len(p) = Len(q.at) + 1 /\ \A k \in 1..Len(q.at) : p[k] = q.at[k]
      /\ p[Len(p)] = Head(q.todo)
  BY <1>0
<1>2. Walked(t, rest, q) = Enter(t, rest, q, p)
  BY DEF Walked
<1> HIDE DEF p
<1>3. ASSUME p \notin DOMAIN t PROVE Walked(t, rest, q).st = "none"
  BY <1>2, <1>3 DEF Enter, Found
<1>4. ASSUME p \in DOMAIN t
      PROVE  /\ next \in Queries
             /\ Walked(t, rest, q).st = rest[next].st /\ Walked(t, rest, q).at = rest[next].at
  <2>1. inner.st = "ok" /\ inner.at = p /\ inner.seen = << >>
    BY DEF Found
  <2>2. Enter(t, rest, q, p) = Through(t, rest, q, p, inner)
    BY <1>4 DEF Enter, Inspected
  <2> HIDE DEF inner
  <2>3. Past(t, q, p, t[p], inner) = next
    BY <2>1 DEF Past
  <2>4. next \in Queries
    BY <1>4, <2>3, PastQuery
  <2> HIDE DEF next
  <2>5. Through(t, rest, q, p, inner) = Before(<< >> \o << >>, rest[next])
    BY <2>1, <2>3 DEF Through
  <2>6. rest[next] \in Result
    BY <2>4 DEF Good
  <2>7. Before(<< >> \o << >>, rest[next]).st = rest[next].st /\ Before(<< >> \o << >>, rest[next]).at = rest[next].at
    BY <2>6 DEF Before, Result
  <2> QED
    BY <1>2, <2>2, <2>4, <2>5, <2>7
<1> QED
  BY <1>1, <1>3, <1>4 DEF p

(* Where a walk goes on, where no request is sent, and where it ends *)
Turn(t, q) ==
    LET p == Append(q.at, Head(q.todo))
    IN CASE Head(q.todo) = "."  -> Onward(q, q.at)
         [] Head(q.todo) = ".." -> Up(q)
         [] OTHER -> IF t[p].t = "link" /\ (q.follow \/ Len(q.todo) > 1)
                     THEN Redirected(q, t[p].to) ELSE Onward(q, p)
Missing(t, q) == Head(q.todo) \notin {".", ".."} /\ Append(q.at, Head(q.todo)) \notin DOMAIN t

LEMMA OutsideTurn ==
    ASSUME NEW t, WellFormed(t), Apart(t),
           NEW rest, \A x \in Queries : Good(t, rest[x]),
           NEW q \in Queries, Outside(q)
    PROVE  /\ q.todo = << >> => Walked(t, rest, q) = Found("ok", q.at, << >>)
           /\ q.todo # << >> /\ Missing(t, q) => Walked(t, rest, q).st = "none"
           /\ q.todo # << >> /\ ~Missing(t, q) =>
                /\ Turn(t, q) \in Queries /\ Outside(Turn(t, q))
                /\ Walked(t, rest, q).st = rest[Turn(t, q)].st
                /\ Walked(t, rest, q).at = rest[Turn(t, q)].at
<1>0. q.at \in Seq(Component) /\ q.todo \in Seq(Component)
  BY QueryFields
<1>1. q.todo = << >> => Walked(t, rest, q) = Found("ok", q.at, << >>)
  BY DEF Walked
<1> SUFFICES ASSUME q.todo # << >>
             PROVE  /\ Missing(t, q) => Walked(t, rest, q).st = "none"
                    /\ ~Missing(t, q) =>
                         /\ Turn(t, q) \in Queries /\ Outside(Turn(t, q))
                         /\ Walked(t, rest, q).st = rest[Turn(t, q)].st
                         /\ Walked(t, rest, q).at = rest[Turn(t, q)].at
  BY <1>1
<1>2. /\ Len(q.todo) \in Nat /\ Len(q.todo) >= 1 /\ Head(q.todo) = q.todo[1]
      /\ Tail(q.todo) \in Seq(Component) /\ Len(Tail(q.todo)) = Len(q.todo) - 1
      /\ \A k \in 1..Len(Tail(q.todo)) : k + 1 \in 1..Len(q.todo) /\ Tail(q.todo)[k] = q.todo[k + 1]
  BY <1>0, TailFacts
<1>3. /\ Head(q.todo) \notin Mounts
      /\ \A k \in 1..Len(Tail(q.todo)) : Tail(q.todo)[k] \notin Mounts
  BY <1>2 DEF Outside
<1>4. CASE Head(q.todo) = "."
  <2>1. Outside(Onward(q, q.at))
    <3>1. Onward(q, q.at).at = q.at /\ Onward(q, q.at).todo = Tail(q.todo)
      BY OnwardFields
    <3> QED
      BY <1>3, <3>1 DEF Outside
  <2>2. Walked(t, rest, q) = rest[Onward(q, q.at)]
    BY <1>4 DEF Walked
  <2>3. Turn(t, q) = Onward(q, q.at) /\ ~Missing(t, q)
    BY <1>4 DEF Turn, Missing
  <2> QED
    BY <1>0, <2>1, <2>2, <2>3, OnwardQuery
<1>5. CASE Head(q.todo) = ".."
  <2>1. Outside(Up(q))
    BY <1>0, <1>3, UpFields, ParentFacts DEF Outside
  <2>2. Walked(t, rest, q) = rest[Up(q)]
    BY <1>5 DEF Walked
  <2>3. Turn(t, q) = Up(q) /\ ~Missing(t, q)
    BY <1>5 DEF Turn, Missing
  <2> QED
    BY <2>1, <2>2, <2>3, UpQuery
<1>6. CASE Head(q.todo) \notin {".", ".."}
  <2> DEFINE p == Append(q.at, Head(q.todo))
             next == IF t[p].t = "link" /\ (q.follow \/ Len(q.todo) > 1)
                     THEN Redirected(q, t[p].to) ELSE Onward(q, p)
  <2>0. ~Fuse(q)
    BY DEF Outside, Fuse
  <2>1. /\ p \in Seq(Component) /\ Len(p) = Len(q.at) + 1
        /\ \A k \in 1..Len(q.at) : p[k] = q.at[k]
        /\ p[Len(p)] = Head(q.todo)
        /\ p \notin DOMAIN t => Walked(t, rest, q).st = "none"
        /\ p \in DOMAIN t => /\ next \in Queries
                             /\ Walked(t, rest, q).st = rest[next].st
                             /\ Walked(t, rest, q).at = rest[next].at
    BY <1>6, <2>0, EnterReal
  <2>t. Turn(t, q) = next /\ (Missing(t, q) <=> p \notin DOMAIN t)
    BY <1>6 DEF Turn, Missing
  <2>2. p[1] \notin Mounts /\ p # << >>
    <3>1. CASE q.at = << >>
      BY <1>3, <2>1, <3>1
    <3>2. CASE q.at # << >>
      <4>1. 1 \in 1..Len(q.at)
        BY <1>0, <3>2
      <4> HIDE DEF p
      <4> QED
        BY <1>0, <2>1, <3>2, <4>1 DEF Outside
    <3> QED
      BY <3>1, <3>2
  <2> HIDE DEF p
  <2>3. ASSUME p \in DOMAIN t PROVE Outside(next)
    <3>1. CASE t[p].t = "link" /\ (q.follow \/ Len(q.todo) > 1)
      <4> DEFINE to == t[p].to
      <4>1. to \in Target /\ \A k \in 1..Len(to.path) : to.path[k] \notin Mounts
        BY <2>2, <2>3, <3>1 DEF WellFormed, Apart
      <4>2. to.path \in Seq(Component)
        BY <4>1 DEF Target
      <4> HIDE DEF to
      <4>3. \A k \in 1..Len(to.path \o Tail(q.todo)) : (to.path \o Tail(q.todo))[k] \notin Mounts
        BY <1>2, <1>3, <4>1, <4>2, ConcatAvoids
      <4>4. next = Redirected(q, to)
        BY <3>1 DEF to
      <4> HIDE DEF next
      <4>5. Redirected(q, to).todo = to.path \o Tail(q.todo) /\ Redirected(q, to).at \in {<< >>, q.at}
        BY RedirectedFields
      <4> QED
        BY <4>3, <4>4, <4>5 DEF Outside
    <3>2. CASE ~(t[p].t = "link" /\ (q.follow \/ Len(q.todo) > 1))
      <4>1. next = Onward(q, p)
        BY <3>2
      <4>2. Onward(q, p).at = p /\ Onward(q, p).todo = Tail(q.todo)
        BY OnwardFields
      <4> HIDE DEF next
      <4> QED
        BY <1>3, <2>2, <4>1, <4>2 DEF Outside
    <3> QED
      BY <3>1, <3>2
  <2> HIDE DEF next
  <2> QED
    BY <2>1, <2>t, <2>3
<1> QED
  BY <1>4, <1>5, <1>6

LEMMA OutsideStep ==
    ASSUME NEW t, WellFormed(t), Tame(t),
           NEW rest, \A x \in Queries : Good(t, rest[x]),
           \A x \in Queries : Outside(x) => rest[x].st # "waits",
           NEW q \in Queries, Outside(q)
    PROVE  Walked(t, rest, q).st # "waits"
<1>1. Apart(t)
  BY DEF Tame
<1>2. Found("ok", q.at, << >>).st = "ok"
  BY DEF Found
<1> QED
  BY <1>1, <1>2, OutsideTurn

LEMMA LeavingStep ==
    ASSUME Names \cap Roots = {}, NEW t, WellFormed(t), Tame(t),
           NEW rest, \A x \in Queries : Good(t, rest[x]),
           \A x \in Queries : Outside(x) => rest[x].st # "waits",
           \A x \in Queries : \A j, T : Leaving(x, j, T) => Comes(t, rest[x], T),
           NEW q \in Queries, NEW j, NEW T, Leaving(q, j, T)
    PROVE  Comes(t, Walked(t, rest, q), T)
<1>0. /\ q.at \in Seq(Component) /\ q.todo \in Seq(Component) /\ q.real \in BOOLEAN
      /\ j \in Nat /\ T \in Seq(Roots \cup Names) /\ Len(T) \in Nat /\ Len(q.at) \in Nat
      /\ Len(q.todo) = j + Len(T)
      /\ \A k \in 2..Len(T) : T[k] \in Names
      /\ \A k \in 1..j : q.todo[k] = ".."
      /\ \A k \in 1..Len(T) : q.todo[j + k] = T[k]
  BY QueryFields DEF Leaving, Goes, Down, Path
<1>1. CASE j # 0
  <2>0. q.todo # << >> /\ 1 \in 1..j /\ j - 1 \in Nat
    BY <1>0, <1>1
  <2>1. /\ Head(q.todo) = q.todo[1] /\ Len(Tail(q.todo)) = Len(q.todo) - 1
        /\ \A k \in 1..Len(Tail(q.todo)) : k + 1 \in 1..Len(q.todo) /\ Tail(q.todo)[k] = q.todo[k + 1]
    BY <1>0, <2>0, TailFacts
  <2>2. Walked(t, rest, q) = rest[Up(q)]
    BY <1>0, <2>0, <2>1 DEF Walked
  <2>3. Up(q) \in Queries /\ Up(q).at = Parent(q.at) /\ Up(q).todo = Tail(q.todo)
        /\ Up(q).real = (q.real /\ Len(q.at) > 1)
    BY <2>0, UpQuery, UpFields
  <2>4. Goes(Up(q).todo, j - 1, T)
    <3>1. Len(Tail(q.todo)) = (j - 1) + Len(T)
      BY <1>0, <2>1
    <3>2. ASSUME NEW k \in 1..(j - 1) PROVE Tail(q.todo)[k] = ".."
      <4>1. k \in 1..Len(Tail(q.todo)) /\ k + 1 \in 1..j
        BY <1>0, <3>1
      <4> QED
        BY <1>0, <2>1, <4>1
    <3>3. ASSUME NEW k \in 1..Len(T) PROVE Tail(q.todo)[(j - 1) + k] = T[k]
      <4>1. (j - 1) + k \in 1..Len(Tail(q.todo)) /\ ((j - 1) + k) + 1 = j + k
        BY <1>0, <1>1, <3>1
      <4> QED
        BY <1>0, <2>1, <4>1
    <3> QED
      BY <2>3, <3>1, <3>2, <3>3 DEF Goes
  <2>5. Leaving(Up(q), j - 1, T)
    <3>1. Up(q).at # << >> => Up(q).real
      BY <1>0, <2>3, ParentFacts DEF Leaving
    <3>2. Len(q.at) <= j => Len(Up(q).at) <= j - 1
      <4>1. q.at = << >> => Len(Up(q).at) = 0
        <5>1. q.at = << >> => Parent(q.at) = << >>
          BY <1>0, ParentFacts
        <5>2. Len(<< >>) = 0
          OBVIOUS
        <5> QED
          BY <2>3, <5>1, <5>2
      <4>2. q.at # << >> => Len(Up(q).at) = Len(q.at) - 1
        BY <1>0, <2>3, ParentFacts
      <4> QED
        BY <1>0, <2>0, <4>1, <4>2
    <3> QED
      BY <2>0, <2>4, <3>1, <3>2 DEF Leaving
  <2> QED
    BY <2>2, <2>3, <2>5
<1>2. CASE j = 0 /\ T = << >>
  <2>1. q.todo = << >> /\ q.at = << >>
    <3>1. Len(q.todo) = 0 /\ Len(q.at) <= 0
      BY <1>0, <1>2 DEF Leaving
    <3> QED
      BY <1>0, <3>1, EmptySeq
  <2>2. Walked(t, rest, q) = Found("ok", << >>, << >>)
    BY <2>1 DEF Walked
  <2>3. << >> \notin DOMAIN t
    BY DEF WellFormed
  <2> QED
    BY <2>2, <2>3 DEF Found, Comes
<1>3. CASE j = 0 /\ T # << >>
  <2> DEFINE p == Append(q.at, Head(q.todo))
             next == IF t[p].t = "link" /\ (q.follow \/ Len(q.todo) > 1)
                     THEN Redirected(q, t[p].to) ELSE Onward(q, p)
  <2>0. q.todo # << >> /\ 1 \in 1..Len(T)
    BY <1>0, <1>3
  <2>1. /\ Head(q.todo) = q.todo[1] /\ Len(Tail(q.todo)) = Len(q.todo) - 1
        /\ \A k \in 1..Len(Tail(q.todo)) : k + 1 \in 1..Len(q.todo) /\ Tail(q.todo)[k] = q.todo[k + 1]
    BY <1>0, <2>0, TailFacts
  <2>2. Head(q.todo) = T[1] /\ T[1] \in Roots \cup Names
    <3>1. q.todo[0 + 1] = T[1]
      BY <1>0, <1>3, <2>0
    <3> QED
      BY <1>0, <2>0, <2>1, <3>1
  <2>3. Head(q.todo) \notin {".", ".."}
    BY <2>2, PathsAssumption
  <2>4. ~Fuse(q)
    BY DEF Leaving, Fuse
  <2>5. /\ p \in Seq(Component) /\ Len(p) = Len(q.at) + 1
        /\ \A k \in 1..Len(q.at) : p[k] = q.at[k]
        /\ p[Len(p)] = Head(q.todo)
        /\ p \notin DOMAIN t => Walked(t, rest, q).st = "none"
        /\ p \in DOMAIN t => /\ next \in Queries
                             /\ Walked(t, rest, q).st = rest[next].st
    BY <2>0, <2>3, <2>4, EnterReal
  <2> HIDE DEF p
  <2>6. CASE p \notin DOMAIN t
    BY <2>5, <2>6 DEF Comes
  <2>7. CASE p \in DOMAIN t
    <3>1. p[1] \in Roots /\ \A k \in 2..Len(p) : p[k] \in Names
      BY <2>7 DEF WellFormed
    <3>2. q.at = << >>
      <4> SUFFICES ASSUME q.at # << >> PROVE FALSE
        OBVIOUS
      <4>1. Len(q.at) >= 1 /\ Len(p) \in 2..Len(p)
        BY <1>0, <2>5
      <4>2. T[1] \in Roots
        BY <1>0, <1>3, <4>1 DEF Leaving
      <4> QED
        BY <2>2, <2>5, <3>1, <4>1, <4>2
    <3>3. Len(p) = 1 /\ p[1] = T[1]
      BY <1>0, <2>2, <2>5, <3>2
    <3>4. T[1] \in Roots \ Mounts
      BY <1>3, <3>1, <3>3 DEF Leaving
    <3>5. next = Onward(q, p)
      <4>1. t[p].t # "link"
        <5>1. t[p].t = "link" => Len(p) > 1
          BY <2>7 DEF Tame
        <5> HIDE DEF next
        <5> QED
          BY <3>3, <5>1
      <4> QED
        BY <4>1
    <3>6. Outside(Onward(q, p))
      <4>1. \A k \in 1..Len(Tail(q.todo)) : Tail(q.todo)[k] \notin Mounts
        <5> SUFFICES ASSUME NEW k \in 1..Len(Tail(q.todo)) PROVE Tail(q.todo)[k] \notin Mounts
          OBVIOUS
        <5>1. k + 1 \in 2..Len(T) /\ j + (k + 1) = k + 1
          BY <1>0, <1>3, <2>1
        <5>2. Tail(q.todo)[k] = T[k + 1] /\ T[k + 1] \in Names
          BY <1>0, <1>3, <2>1, <5>1
        <5> QED
          BY <5>2, MountIsRoot
      <4>2. Onward(q, p).at = p /\ Onward(q, p).todo = Tail(q.todo)
        BY OnwardFields
      <4> QED
        BY <3>3, <3>4, <4>1, <4>2 DEF Outside
    <3> HIDE DEF next
    <3> QED
      BY <1>3, <2>5, <2>7, <3>4, <3>5, <3>6 DEF Comes
  <2> QED
    BY <2>6, <2>7
<1> QED
  BY <1>1, <1>2, <1>3

LEMMA RestFacts ==
    ASSUME NEW S, NEW s \in Seq(S), NEW k \in Nat, k < Len(s)
    PROVE  /\ SubSeq(s, k + 1, Len(s)) \in Seq(S)
           /\ Len(SubSeq(s, k + 1, Len(s))) = Len(s) - k
           /\ SubSeq(s, k + 1, Len(s)) # << >>
           /\ Head(SubSeq(s, k + 1, Len(s))) = s[k + 1]
           /\ Tail(SubSeq(s, k + 1, Len(s))) = SubSeq(s, k + 2, Len(s))
<1> DEFINE r == SubSeq(s, k + 1, Len(s))
           u == SubSeq(s, k + 2, Len(s))
<1>0. Len(s) \in Nat
  OBVIOUS
<1>1. r \in Seq(S) /\ Len(r) = Len(s) - k /\ \A i \in 1..(Len(s) - k) : r[i] = s[k + i]
  BY <1>0
<1>2. u \in Seq(S) /\ Len(u) = Len(s) - k - 1 /\ \A i \in 1..(Len(s) - k - 1) : u[i] = s[k + 1 + i]
  BY <1>0
<1> HIDE DEF r, u
<1>3. r # << >>
  BY <1>0, <1>1
<1>4. /\ Head(r) = r[1] /\ Tail(r) \in Seq(S) /\ Len(Tail(r)) = Len(r) - 1
      /\ \A i \in 1..Len(Tail(r)) : i + 1 \in 1..Len(r) /\ Tail(r)[i] = r[i + 1]
  BY <1>1, <1>3, TailFacts
<1>5. Head(r) = s[k + 1]
  <2>1. 1 \in 1..(Len(s) - k)
    BY <1>0
  <2> QED
    BY <1>1, <1>4, <2>1
<1>6. Tail(r) = u
  <2>1. Len(Tail(r)) = Len(u)
    BY <1>0, <1>1, <1>2, <1>4
  <2>2. ASSUME NEW i \in 1..Len(u) PROVE Tail(r)[i] = u[i]
    <3>1. i \in 1..(Len(s) - k - 1) /\ i + 1 \in 1..(Len(s) - k) /\ k + (i + 1) = k + 1 + i
      BY <1>0, <1>2
    <3> QED
      BY <1>1, <1>2, <1>4, <2>1, <3>1
  <2> QED
    BY <1>2, <1>4, <2>1, <2>2, SeqEqual
<1> QED
  BY <1>1, <1>3, <1>5, <1>6 DEF r, u

(* A walk that goes on with the target of the link at P *)
Turned(q, P, to) ==
    /\ q.follow /\ q.todo = to.path
    /\ IF to.abs THEN q.at = << >> ELSE Len(q.at) = Len(P) - 1 /\ q.real

LEMMA NearingNext ==
    ASSUME NEW t, WellFormed(t),
           NEW rest, \A x \in Queries : Good(t, rest[x]),
           NEW P \in DOMAIN t, t[P].t = "link",
           NEW q \in Queries, Nearing(q, P)
    PROVE  \E x \in Queries :
              /\ Nearing(x, P) \/ Turned(x, P, t[P].to)
              /\ Walked(t, rest, q).st = rest[x].st /\ Walked(t, rest, q).at = rest[x].at
<1> DEFINE p == Append(q.at, Head(q.todo))
           next == IF t[p].t = "link" /\ (q.follow \/ Len(q.todo) > 1)
                   THEN Redirected(q, t[p].to) ELSE Onward(q, p)
<1>0. /\ P \in Seq(Roots \cup Names) /\ Len(P) \in Nat
      /\ \A k \in 2..Len(P) : P[k] \in Names
      /\ q.at \in Seq(Component) /\ q.todo \in Seq(Component)
  BY QueryFields DEF WellFormed
<1>r. q.real /\ q.follow
  BY DEF Nearing
<1>1. PICK k \in 1..(Len(P) - 1) : q.at = SubSeq(P, 1, k) /\ q.todo = SubSeq(P, k + 1, Len(P))
  BY DEF Nearing
<1>2. /\ Len(q.at) = k /\ \A i \in 1..k : q.at[i] = P[i]
      /\ Len(q.todo) = Len(P) - k
      /\ q.todo # << >> /\ Head(q.todo) = P[k + 1]
      /\ Tail(q.todo) = SubSeq(P, k + 2, Len(P))
  <2>1. k \in 0..Len(P)
    BY <1>0
  <2>2. Len(q.at) = k /\ \A i \in 1..k : q.at[i] = P[i]
    BY <1>0, <1>1, <2>1, Cut
  <2>3. k \in Nat /\ k < Len(P)
    BY <1>0
  <2> HIDE DEF p, next
  <2> QED
    BY <1>0, <1>1, <2>2, <2>3, RestFacts
<1>3. Head(q.todo) \in Names /\ Head(q.todo) \notin {".", ".."}
  <2>1. k + 1 \in 2..Len(P)
    BY <1>0
  <2> QED
    BY <1>0, <1>2, <2>1, PathsAssumption
<1>4. ~Fuse(q)
  BY <1>r DEF Fuse
<1>5. /\ p \in Seq(Component) /\ Len(p) = Len(q.at) + 1
      /\ \A i \in 1..Len(q.at) : p[i] = q.at[i]
      /\ p[Len(p)] = Head(q.todo)
      /\ p \in DOMAIN t => /\ next \in Queries
                           /\ Walked(t, rest, q).st = rest[next].st
                           /\ Walked(t, rest, q).at = rest[next].at
  BY <1>2, <1>3, <1>4, EnterReal
<1> HIDE DEF p
<1>6. p = SubSeq(P, 1, k + 1)
  <2>1. k + 1 \in 0..Len(P) /\ P \in Seq(Component)
    BY <1>0, PathIsComponents DEF Path
  <2>2. /\ SubSeq(P, 1, k + 1) \in Seq(Component) /\ Len(SubSeq(P, 1, k + 1)) = k + 1
        /\ \A i \in 1..(k + 1) : SubSeq(P, 1, k + 1)[i] = P[i]
    BY <2>1, Cut
  <2>3. \A i \in 1..(k + 1) : p[i] = P[i]
    <3> SUFFICES ASSUME NEW i \in 1..(k + 1) PROVE p[i] = P[i]
      OBVIOUS
    <3>1. i = k + 1 \/ i \in 1..k
      OBVIOUS
    <3> QED
      BY <1>2, <1>5, <3>1
  <2> QED
    BY <1>2, <1>5, <2>2, <2>3, SeqEqual
<1>7. CASE k + 1 # Len(P)
  <2>1. k + 1 \in 1..(Len(P) - 1)
    BY <1>0, <1>7
  <2>2. p \in DOMAIN t /\ t[p].t = "dir"
    BY <1>6, <2>1, Above
  <2>3. next = Onward(q, p)
    BY <2>2
  <2>4. Nearing(Onward(q, p), P)
    <3>1. k + 2 = (k + 1) + 1
      OBVIOUS
    <3>2. /\ Onward(q, p).at = p /\ Onward(q, p).todo = Tail(q.todo)
          /\ Onward(q, p).real = q.real /\ Onward(q, p).follow = q.follow
      BY OnwardFields
    <3>3. Onward(q, p).at = SubSeq(P, 1, k + 1) /\ Onward(q, p).todo = SubSeq(P, (k + 1) + 1, Len(P))
      BY <1>2, <1>6, <3>1, <3>2
    <3> HIDE DEF next
    <3> QED
      BY <1>r, <2>1, <3>2, <3>3 DEF Nearing
  <2> HIDE DEF next
  <2> QED
    BY <1>5, <2>2, <2>3, <2>4
<1>8. CASE k + 1 = Len(P)
  <2> DEFINE to == t[P].to
  <2>1. p = P /\ Tail(q.todo) = << >>
    <3>1. p = P
      BY <1>0, <1>6, <1>8, WholeCut
    <3>2. Tail(q.todo) \in Seq(Component) /\ Len(Tail(q.todo)) = 0
      <4>1. Len(q.todo) = 1
        BY <1>0, <1>2, <1>8
      <4>2. Tail(q.todo) \in Seq(Component) /\ Len(Tail(q.todo)) = Len(q.todo) - 1
        <5> HIDE DEF next, to
        <5> QED
          BY <1>0, <1>2, TailFacts
      <4> QED
        BY <4>1, <4>2
    <3>3. Tail(q.todo) = << >>
      BY <3>2, EmptySeq
    <3> QED
      BY <3>1, <3>3
  <2>2. to \in Target /\ to.path \in Seq(Component)
    BY DEF WellFormed, Target
  <2>3. next = Redirected(q, to)
    BY <1>r, <2>1
  <2> HIDE DEF next, to
  <2>4. /\ Redirected(q, to).at = (IF to.abs THEN << >> ELSE q.at)
        /\ Redirected(q, to).todo = to.path
        /\ Redirected(q, to).real = (~to.abs /\ q.real)
        /\ Redirected(q, to).follow
    <3>1. to.path \o << >> = to.path
      BY <2>2
    <3>2. /\ Redirected(q, to).at = (IF to.abs THEN << >> ELSE q.at)
          /\ Redirected(q, to).todo = to.path \o Tail(q.todo)
          /\ Redirected(q, to).real = (~to.abs /\ q.real)
          /\ Redirected(q, to).follow = q.follow
      BY RedirectedFields
    <3> QED
      BY <1>r, <2>1, <3>1, <3>2
  <2>5. Turned(Redirected(q, to), P, to)
    <3>1. Len(q.at) = Len(P) - 1
      BY <1>0, <1>2, <1>8
    <3> QED
      BY <1>r, <2>4, <3>1 DEF Turned
  <2> QED
    BY <1>5, <2>1, <2>3, <2>5 DEF to
<1> QED
  BY <1>7, <1>8

LEMMA NearingStep ==
    ASSUME NEW t, WellFormed(t),
           NEW rest, \A x \in Queries : Good(t, rest[x]),
           NEW P \in DOMAIN t, t[P].t = "link", NEW j, NEW T, Led(t[P].to, Len(P) - 1, j, T),
           \A x \in Queries : Leaving(x, j, T) \/ Nearing(x, P) => Comes(t, rest[x], T),
           NEW q \in Queries, Nearing(q, P)
    PROVE  Comes(t, Walked(t, rest, q), T)
<1> DEFINE to == t[P].to
<1>1. PICK x \in Queries :
        /\ Nearing(x, P) \/ Turned(x, P, to)
        /\ Walked(t, rest, q).st = rest[x].st /\ Walked(t, rest, q).at = rest[x].at
  BY NearingNext
<1>2. to.abs \in BOOLEAN /\ Led(to, Len(P) - 1, j, T)
  BY DEF WellFormed, Target
<1> HIDE DEF to
<1>3. ASSUME Turned(x, P, to) PROVE Leaving(x, j, T)
  <2>1. j \in Nat /\ T \in Down /\ Goes(x.todo, j, T) /\ (T # << >> => T[1] \notin Mounts)
    BY <1>2, <1>3 DEF Led, Turned
  <2>2. CASE to.abs
    <3>1. x.at = << >> /\ Len(<< >>) = 0
      BY <1>3, <2>2 DEF Turned
    <3> QED
      BY <2>1, <3>1 DEF Leaving
  <2>3. CASE ~to.abs
    BY <1>2, <1>3, <2>1, <2>3 DEF Leaving, Led, Turned
  <2> QED
    BY <2>2, <2>3
<1> QED
  BY <1>1, <1>3 DEF Comes

(* A link that leads out is followed without a lookup from the overlay. *)
LEMMA FollowLed ==
    ASSUME Names \cap Roots = {}, NEW t, WellFormed(t), Tame(t),
           NEW m \in Mounts, NEW rel \in Rel, <<m>> \o rel \in DOMAIN t, t[<<m>> \o rel].t = "link",
           NEW j, NEW T, Led(t[<<m>> \o rel].to, Len(rel), j, T)
    PROVE  Comes(t, At(t, m, rel, TRUE), T)
<1> DEFINE P == <<m>> \o rel
           query == Query(<<m>>, TRUE, rel, TRUE, {m})
           B == [q \in Queries |->
                   {res \in Result :
                      /\ Good(t, res)
                      /\ Outside(q) => res.st # "waits"
                      /\ \A i, U : Leaving(q, i, U) => Comes(t, res, U)
                      /\ Nearing(q, P) => Comes(t, res, T)}]
<1>1. /\ P \in Path /\ Len(P) = Len(rel) + 1 /\ P[1] = m /\ Len(rel) \in Nat
      /\ Len(P) > 1 /\ P \in Seq(Roots \cup Names) /\ Len(P) - 1 = Len(rel)
  <2>1. P \in Path /\ Len(P) = Len(rel) + 1 /\ P[1] = m
    BY Below, MountIsRoot
  <2>2. Len(P) > 1
    BY DEF Tame
  <2>3. Len(rel) \in Nat
    BY DEF Rel
  <2> HIDE DEF P
  <2> QED
    BY <2>1, <2>2, <2>3 DEF Path
<1>2. query \in Queries
  <2>1. m \in Component /\ rel \in Seq(Component)
    BY PathIsComponents, PathsAssumption DEF Component
  <2> QED
    BY <2>1 DEF Query, Queries
<1>3. Nearing(query, P)
  <2>1. query.at = <<m>> /\ query.todo = rel /\ query.real /\ query.follow
    BY DEF Query
  <2>2. 1 \in 1..(Len(P) - 1)
    BY <1>1
  <2>3. SubSeq(P, 1, 1) = <<m>>
    <3>1. 1 \in 0..Len(P)
      BY <1>1
    <3>2. SubSeq(P, 1, 1) \in Seq(Roots \cup Names) /\ Len(SubSeq(P, 1, 1)) = 1 /\ SubSeq(P, 1, 1)[1] = P[1]
      BY <1>1, <3>1, Cut
    <3>3. <<m>> \in Seq(Roots \cup Names) /\ Len(<<m>>) = 1 /\ <<m>>[1] = m
      BY MountIsRoot
    <3>4. \A i \in 1..1 : SubSeq(P, 1, 1)[i] = <<m>>[i]
      BY <1>1, <3>2, <3>3
    <3> HIDE DEF P
    <3> QED
      BY <3>2, <3>3, <3>4, SeqEqual
  <2>4. SubSeq(P, 1 + 1, Len(P)) = rel
    <3>1. Tail(P) = rel
      BY Below, MountIsRoot
    <3>2. Tail(P) = SubSeq(P, 2, Len(P))
      BY <1>1
    <3> QED
      BY <3>1, <3>2
  <2> HIDE DEF query
  <2> QED
    BY <2>1, <2>2, <2>3, <2>4 DEF Nearing
<1>4. At(t, m, rel, TRUE) = Resolve(t, query)
  <2>1. ~Direct(t, P, TRUE)
    <3>1. Len(P) \in 2..Len(P) /\ SubSeq(P, 1, Len(P)) = P
      BY <1>1, WholeCut
    <3> QED
      BY <3>1 DEF Direct
  <2> QED
    BY <2>1 DEF At
<1>5. \A q \in Queries : Resolve(t, q) \in B[q]
  <2>1. ASSUME NEW q \in Queries PROVE Found("lost", q.at, << >>) \in B[q]
    <3>1. Good(t, Found("lost", q.at, << >>))
      BY QueryFields, FoundGood
    <3>2. Found("lost", q.at, << >>).st = "lost"
      BY DEF Found
    <3> QED
      BY <3>1, <3>2 DEF Good, Comes
  <2>2. ASSUME NEW rest, \A x \in Queries : rest[x] \in B[x], NEW q \in Queries
        PROVE  Walked(t, rest, q) \in B[q]
    <3>1. \A x \in Queries : /\ Good(t, rest[x])
                             /\ Outside(x) => rest[x].st # "waits"
                             /\ \A i, U : Leaving(x, i, U) => Comes(t, rest[x], U)
                             /\ Nearing(x, P) => Comes(t, rest[x], T)
      BY <2>2
    <3> HIDE DEF B, P
    <3>2. Good(t, Walked(t, rest, q))
      BY <3>1, WalkedGood
    <3>3. Outside(q) => Walked(t, rest, q).st # "waits"
      BY <3>1, OutsideStep
    <3>4. \A i, U : Leaving(q, i, U) => Comes(t, Walked(t, rest, q), U)
      BY <3>1, LeavingStep
    <3>5. Nearing(q, P) => Comes(t, Walked(t, rest, q), T)
      <4>1. P \in DOMAIN t /\ t[P].t = "link" /\ Led(t[P].to, Len(P) - 1, j, T)
        BY <1>1 DEF P
      <4> QED
        BY <3>1, <4>1, NearingStep
    <3> QED
      BY <3>2, <3>3, <3>4, <3>5 DEF B, Good
  <2> HIDE DEF B
  <2> QED
    BY <2>1, <2>2, WalkInduction
<1> QED
  BY <1>2, <1>3, <1>4, <1>5

-----------------------------------------------------------------------------
(* The lexical test *)

Stepped(out, c) ==
    CASE c = "."  -> out
      [] c = ".." -> Parent(out)
      [] OTHER    -> Append(out, c)

IsNormal(p, n, f) ==
    f = [k \in 0..n |-> IF k = 0 THEN << >> ELSE Stepped(f[k - 1], p[k])]

(* The recursion is well founded. *)
LEMMA NormalExists ==
    ASSUME NEW p, NEW n \in Nat
    PROVE  \E f : IsNormal(p, n, f)
<1> DEFINE T == {m \in Nat : ~\E f : IsNormal(p, m, f)}
<1> SUFFICES ASSUME T # {} PROVE FALSE
  OBVIOUS
<1>1. PICK m \in T : \A k \in T : m <= k
  <2>1. T \in SUBSET Nat
    OBVIOUS
  <2> HIDE DEF T
  <2> QED
    BY <2>1, LeastNatural
<1>2. m # 0
  <2> DEFINE f == [i \in 0..0 |-> << >>]
  <2>1. IsNormal(p, 0, f)
    BY DEF IsNormal
  <2> QED
    BY <2>1
<1>3. m - 1 \in Nat /\ m - 1 \notin T
  <2>1. m \in Nat
    OBVIOUS
  <2> HIDE DEF T
  <2> QED
    BY <1>1, <1>2, <2>1
<1>4. PICK f : IsNormal(p, m - 1, f)
  BY <1>3
<1> DEFINE g == [i \in 0..m |-> IF i = m THEN Stepped(f[m - 1], p[m]) ELSE f[i]]
<1>5. \A i \in 0..m : i # m => i \in 0..(m - 1) /\ g[i] = f[i]
  BY <1>2
<1>6. \A i \in 0..m : g[i] = IF i = 0 THEN << >> ELSE Stepped(g[i - 1], p[i])
  <2> SUFFICES ASSUME NEW i \in 0..m
               PROVE  g[i] = IF i = 0 THEN << >> ELSE Stepped(g[i - 1], p[i])
    OBVIOUS
  <2>1. i # 0 => i - 1 \in 0..(m - 1) /\ g[i - 1] = f[i - 1]
    BY <1>2, <1>5
  <2>2. CASE i = m
    BY <1>2, <2>1, <2>2
  <2>3. CASE i # m
    <3>1. f[i] = IF i = 0 THEN << >> ELSE Stepped(f[i - 1], p[i])
      BY <1>4, <1>5, <2>3 DEF IsNormal
    <3> QED
      BY <1>5, <2>1, <2>3, <3>1
  <2> QED
    BY <2>2, <2>3
<1>7. IsNormal(p, m, g)
  <2>1. g = [i \in 0..m |-> g[i]]
    OBVIOUS
  <2> HIDE DEF g
  <2> QED
    BY <1>6, <2>1 DEF IsNormal
<1> QED
  BY <1>7

LEMMA NormalSteps ==
    ASSUME NEW p, Len(p) \in Nat
    PROVE  \E f : /\ f[0] = << >>
                  /\ \A k \in 1..Len(p) : f[k] = Stepped(f[k - 1], p[k])
                  /\ lexically_normalize(p) = f[Len(p)]
<1> DEFINE f == CHOOSE g : IsNormal(p, Len(p), g)
<1>1. IsNormal(p, Len(p), f)
  BY NormalExists
<1>2. lexically_normalize(p) = f[Len(p)]
  BY DEF lexically_normalize, IsNormal, Stepped
<1> HIDE DEF f
<1>3. f[0] = << >> /\ \A k \in 1..Len(p) : f[k] = Stepped(f[k - 1], p[k])
  BY <1>1 DEF IsNormal
<1> QED
  BY <1>2, <1>3

(* A path that goes down D directories, climbs j and goes down again *)
Bent(p, D, j) ==
    /\ p \in Seq(Component) /\ D \in Nat /\ j \in Nat /\ D + j <= Len(p)
    /\ \A k \in 1..Len(p) : IF k <= D \/ k > D + j THEN p[k] \notin {".", ".."} ELSE p[k] = ".."

(* Where the normal form of its first k components is, and below what *)
Depth(D, j, k) ==
    IF k <= D THEN k
    ELSE IF k <= D + j THEN (IF k <= 2 * D THEN 2 * D - k ELSE 0)
    ELSE (IF j < D THEN D - j ELSE 0) + (k - D - j)
Shape(p, D, j, k, out) ==
    /\ out \in Seq(Component) /\ Len(out) = Depth(D, j, k)
    /\ out # << >> => out[1] = IF k <= D + j \/ j < D THEN p[1] ELSE p[D + j + 1]

LEMMA ShapeStep ==
    ASSUME NEW p, NEW D, NEW j, Bent(p, D, j), NEW k \in 1..Len(p),
           NEW out, Shape(p, D, j, k - 1, out)
    PROVE  Shape(p, D, j, k, Stepped(out, p[k]))
<1>0. /\ p \in Seq(Component) /\ D \in Nat /\ j \in Nat /\ D + j <= Len(p) /\ Len(p) \in Nat
      /\ k \in Nat /\ p[k] \in Component
      /\ out \in Seq(Component) /\ Len(out) \in Nat /\ Len(out) = Depth(D, j, k - 1)
  BY DEF Bent, Shape
<1>1. /\ out = << >> <=> Len(out) = 0
  BY <1>0, EmptySeq
<1>2. CASE D < k /\ k <= D + j
  <2>1. p[k] = ".."
    BY <1>0, <1>2 DEF Bent
  <2>2. Stepped(out, p[k]) = Parent(out)
    BY <2>1 DEF Stepped
  <2>3. /\ Parent(out) \in Seq(Component)
        /\ out # << >> => Len(Parent(out)) = Len(out) - 1
        /\ out = << >> => Parent(out) = << >>
        /\ Parent(out) # << >> => out # << >> /\ Len(out) > 1 /\ Parent(out)[1] = out[1]
    BY <1>0, ParentFacts
  <2>4. Len(Parent(out)) = Depth(D, j, k)
    <3>1. CASE out = << >>
      <4>1. Len(out) = 0 /\ Len(Parent(out)) = 0
        BY <1>1, <2>3, <3>1
      <4> QED
        BY <1>0, <1>2, <4>1 DEF Depth
    <3>2. CASE out # << >>
      <4>1. Len(out) # 0 /\ Len(Parent(out)) = Len(out) - 1
        BY <1>1, <2>3, <3>2
      <4> QED
        BY <1>0, <1>2, <4>1 DEF Depth
    <3> QED
      BY <3>1, <3>2
  <2>5. Parent(out) # << >> => Parent(out)[1] = p[1]
    <3>1. k - 1 <= D + j
      BY <1>0, <1>2
    <3>2. out # << >> => out[1] = p[1]
      BY <3>1 DEF Shape
    <3> QED
      BY <2>3, <3>2
  <2> QED
    BY <1>2, <2>2, <2>3, <2>4, <2>5 DEF Shape
<1>3. CASE ~(D < k /\ k <= D + j)
  <2>1. p[k] \notin {".", ".."}
    BY <1>0, <1>3 DEF Bent
  <2>2. Stepped(out, p[k]) = Append(out, p[k])
    BY <2>1 DEF Stepped
  <2>3. /\ Append(out, p[k]) \in Seq(Component) /\ Len(Append(out, p[k])) = Len(out) + 1
        /\ Len(out) = 0 => Append(out, p[k])[1] = p[k]
        /\ Len(out) # 0 => Append(out, p[k])[1] = out[1]
    BY <1>0
  <2>4. Len(Append(out, p[k])) = Depth(D, j, k)
    BY <1>0, <1>3, <2>3 DEF Depth
  <2>5. Append(out, p[k])[1] = IF k <= D + j \/ j < D THEN p[1] ELSE p[D + j + 1]
    <3>1. CASE Len(out) = 0
      <4>1. k = 1 \/ (D <= j /\ k = D + j + 1)
        BY <1>0, <1>3, <3>1 DEF Depth
      <4>2. k = 1 => 1 <= D + j \/ 1 = D + j + 1
        BY <1>0
      <4>3. D <= j /\ k = D + j + 1 => ~(k <= D + j \/ j < D)
        BY <1>0
      <4> QED
        BY <2>3, <3>1, <4>1, <4>2, <4>3
    <3>2. CASE Len(out) # 0
      <4>1. out[1] = IF k - 1 <= D + j \/ j < D THEN p[1] ELSE p[D + j + 1]
        BY <1>1, <3>2 DEF Shape
      <4>2. (k - 1 <= D + j \/ j < D) <=> (k <= D + j \/ j < D)
        BY <1>0, <1>3, <3>2 DEF Depth
      <4> QED
        BY <2>3, <3>2, <4>1, <4>2
    <3> QED
      BY <3>1, <3>2
  <2> QED
    BY <2>2, <2>3, <2>4, <2>5 DEF Shape
<1> QED
  BY <1>2, <1>3

LEMMA Normalized ==
    ASSUME NEW p, NEW D, NEW j, Bent(p, D, j)
    PROVE  Shape(p, D, j, Len(p), lexically_normalize(p))
<1> DEFINE n == Len(p)
<1>0. p \in Seq(Component) /\ n \in Nat /\ D \in Nat /\ j \in Nat
  BY DEF Bent
<1>1. PICK f : /\ f[0] = << >>
               /\ \A k \in 1..n : f[k] = Stepped(f[k - 1], p[k])
               /\ lexically_normalize(p) = f[n]
  BY <1>0, NormalSteps
<1> HIDE DEF n
<1> DEFINE T == {k \in 0..n : ~Shape(p, D, j, k, f[k])}
<1>2. T = {}
  <2> SUFFICES ASSUME T # {} PROVE FALSE
    OBVIOUS
  <2>1. PICK k \in T : \A i \in T : k <= i
    <3>1. T \in SUBSET Nat
      BY <1>0
    <3> HIDE DEF T
    <3> QED
      BY <3>1, LeastNatural
  <2>2. k \in 0..n /\ ~Shape(p, D, j, k, f[k])
    OBVIOUS
  <2>3. k # 0
    <3>1. Depth(D, j, 0) = 0
      BY <1>0 DEF Depth
    <3>2. Shape(p, D, j, 0, << >>)
      BY <3>1 DEF Shape
    <3> QED
      BY <1>1, <2>2, <3>2
  <2>4. k \in 1..n /\ k - 1 \in 0..n /\ ~(k <= k - 1)
    BY <1>0, <2>2, <2>3
  <2>5. Shape(p, D, j, k - 1, f[k - 1])
    BY <2>1, <2>4
  <2> HIDE DEF T
  <2> QED
    BY <1>1, <2>2, <2>4, <2>5, ShapeStep DEF n
<1>3. n \in 0..n
  BY <1>0
<1> QED
  BY <1>1, <1>2, <1>3 DEF n

(* What the test says of a target that climbs j directories and goes down T: it
   stays in the overlay, or comes back into it by name. *)
LEMMA WithinMeans ==
    ASSUME NEW m \in Mounts, NEW rel \in Rel, rel # << >>, NEW to \in Target,
           NEW j \in Nat, NEW T \in Down, Goes(to.path, j, T), to.abs => j = 0
    PROVE  symlink_target_within_overlay(m, rel, to)
             <=> \/ ~to.abs /\ j < Len(rel)
                 \/ T # << >> /\ T[1] = m
<1> DEFINE base == IF to.abs THEN << >> ELSE <<m>> \o Parent(rel)
           D == Len(base)
           p == base \o to.path
           n == lexically_normalize(p)
<1>2. /\ T \in Seq(Roots \cup Names) /\ Len(T) \in Nat
      /\ to.path \in Seq(Component) /\ to.abs \in BOOLEAN
      /\ Len(to.path) = j + Len(T) /\ \A k \in 1..j : to.path[k] = ".."
      /\ \A k \in 1..Len(T) : to.path[j + k] = T[k]
  BY DEF Down, Path, Goes, Target
<1>3. /\ base \in Seq(Roots \cup Names) /\ D \in Nat
      /\ ~to.abs => D = Len(rel) /\ base[1] = m
      /\ to.abs => D = 0
  <2>1. CASE to.abs
    BY <2>1
  <2>2. CASE ~to.abs
    <3>1. Parent(rel) \in Rel /\ Len(Parent(rel)) = Len(rel) - 1 /\ Len(rel) \in Nat
      BY ParentFacts DEF Rel
    <3>2. /\ <<m>> \o Parent(rel) \in Path /\ Len(<<m>> \o Parent(rel)) = Len(Parent(rel)) + 1
          /\ (<<m>> \o Parent(rel))[1] = m
      BY <3>1, Below, MountIsRoot
    <3>3. Len(<<m>> \o Parent(rel)) = Len(rel)
      BY <3>1, <3>2
    <3> QED
      BY <2>2, <3>1, <3>2, <3>3 DEF Path
  <2> QED
    BY <2>1, <2>2
<1>4. symlink_target_within_overlay(m, rel, to) <=> starts_with(n, <<m>>)
  <2>1. to.abs => p = to.path
    BY <1>2
  <2>2. ~to.abs => p = <<m>> \o Parent(rel) \o to.path
    OBVIOUS
  <2> HIDE DEF p
  <2> QED
    BY <1>2, <2>1, <2>2 DEF symlink_target_within_overlay
<1> HIDE DEF base, D
<1>5. /\ p \in Seq(Component) /\ Len(p) = D + j + Len(T)
      /\ \A k \in 1..D : p[k] = base[k]
      /\ \A k \in 1..j : p[D + k] = ".."
      /\ \A k \in 1..Len(T) : p[D + j + k] = T[k]
  <2>1. base \in Seq(Component) /\ Len(base) = D
    BY <1>3, PathIsComponents DEF Path, D
  <2>2. /\ p \in Seq(Component) /\ Len(p) = D + Len(to.path)
        /\ \A k \in 1..(D + Len(to.path)) : p[k] = IF k <= D THEN base[k] ELSE to.path[k - D]
    <3>1. to.path \in Seq(Component)
      BY <1>2
    <3>2. /\ base \o to.path \in Seq(Component) /\ Len(base \o to.path) = Len(base) + Len(to.path)
          /\ \A k \in 1..(Len(base) + Len(to.path)) :
                (base \o to.path)[k] = IF k <= Len(base) THEN base[k] ELSE to.path[k - Len(base)]
      BY <2>1, <3>1, ConcatProperties
    <3> QED
      BY <2>1, <3>2
  <2> HIDE DEF p
  <2>3. \A k \in 1..D : p[k] = base[k]
    BY <1>2, <1>3, <2>2
  <2>4. ASSUME NEW k \in 1..j PROVE p[D + k] = ".."
    <3>1. D + k \in 1..(D + Len(to.path)) /\ ~(D + k <= D) /\ (D + k) - D = k
      BY <1>2, <1>3
    <3> QED
      BY <1>2, <2>2, <3>1
  <2>5. ASSUME NEW k \in 1..Len(T) PROVE p[D + j + k] = T[k]
    <3>1. D + j + k \in 1..(D + Len(to.path)) /\ ~(D + j + k <= D) /\ (D + j + k) - D = j + k
      BY <1>2, <1>3
    <3> QED
      BY <1>2, <2>2, <3>1
  <2>6. Len(p) = D + j + Len(T)
    BY <1>2, <1>3, <2>2
  <2> QED
    BY <2>2, <2>3, <2>4, <2>5, <2>6
<1> HIDE DEF p
<1>6. Bent(p, D, j)
  <2>1. \A k \in 1..D : base[k] \in Roots \cup Names
    BY <1>3 DEF D
  <2>2. \A k \in 1..Len(T) : T[k] \in Roots \cup Names
    BY <1>2
  <2>3. \A c \in Roots \cup Names : c \notin {".", ".."}
    BY PathsAssumption
  <2>4. ASSUME NEW k \in 1..Len(p)
        PROVE  IF k <= D \/ k > D + j THEN p[k] \notin {".", ".."} ELSE p[k] = ".."
    <3>1. CASE k <= D
      <4>1. k \in 1..D
        BY <1>3, <3>1
      <4> QED
        BY <1>5, <2>1, <2>3, <3>1, <4>1
    <3>2. CASE k > D + j
      <4>0. D \in Nat /\ j \in Nat /\ Len(T) \in Nat /\ Len(p) = D + j + Len(T) /\ k \in 1..Len(p) /\ k > D + j
        BY <1>2, <1>3, <1>5, <3>2
      <4>1. k - (D + j) \in 1..Len(T) /\ D + j + (k - (D + j)) = k
        BY ONLY <4>0
      <4>2. p[k] = T[k - (D + j)]
        BY <1>5, <4>1
      <4> QED
        BY <2>2, <2>3, <3>2, <4>1, <4>2
    <3>3. CASE ~(k <= D \/ k > D + j)
      <4>1. k - D \in 1..j /\ D + (k - D) = k
        BY <1>2, <1>3, <1>5, <3>3
      <4> QED
        BY <1>5, <3>3, <4>1
    <3> QED
      BY <3>1, <3>2, <3>3
  <2>5. D + j <= Len(p)
    BY <1>2, <1>3, <1>5
  <2> QED
    BY <1>3, <1>5, <2>4, <2>5 DEF Bent
<1>7. Shape(p, D, j, Len(p), n)
  BY <1>6, Normalized
<1> HIDE DEF n
<1>8. starts_with(n, <<m>>) <=> n # << >> /\ n[1] = m
  <2>1. n \in Seq(Component) /\ <<m>> \in Seq(Component) /\ Len(n) \in Nat
    BY <1>7, MountIsRoot DEF Shape, Component
  <2>2. Len(<<m>>) = 1 /\ <<m>>[1] = m /\ (n # << >> <=> Len(n) >= 1)
    BY <2>1, EmptySeq
  <2>3. starts_with(n, <<m>>) <=> Len(<<m>>) <= Len(n) /\ \A k \in 1..Len(<<m>>) : n[k] = <<m>>[k]
    BY <2>1, StartsWith
  <2>4. (\A k \in 1..1 : n[k] = <<m>>[k]) <=> n[1] = m
    BY <2>2
  <2> QED
    BY <2>2, <2>3, <2>4
<1>9. n # << >> <=> Depth(D, j, Len(p)) # 0
  BY <1>7, EmptySeq DEF Shape
<1>10. CASE ~to.abs /\ j < Len(rel)
  <2>1. D = Len(rel) /\ j < D /\ D >= 1
    BY <1>3, <1>10
  <2>2. Depth(D, j, Len(p)) # 0
    BY <1>2, <1>3, <1>5, <2>1 DEF Depth
  <2>3. n # << >> /\ n[1] = p[1]
    BY <1>7, <1>9, <2>1, <2>2 DEF Shape
  <2>4. p[1] = m
    BY <1>3, <1>5, <1>10, <2>1
  <2> QED
    BY <1>4, <1>8, <1>10, <2>3, <2>4
<1>11. CASE ~(~to.abs /\ j < Len(rel))
  <2>1. D <= j
    <3>1. CASE to.abs
      BY <1>3, <3>1
    <3>2. CASE ~to.abs
      BY <1>3, <1>11, <3>2
    <3> QED
      BY <3>1, <3>2
  <2>2. CASE T = << >>
    <3>1. Len(T) = 0 /\ Len(p) = D + j
      BY <1>3, <1>5, <2>2
    <3>2. Depth(D, j, Len(p)) = 0
      BY <1>3, <2>1, <3>1 DEF Depth
    <3> QED
      BY <1>4, <1>8, <1>9, <1>11, <2>2, <3>2
  <2>3. CASE T # << >>
    <3>1. Len(T) >= 1
      BY <1>2, <2>3, EmptySeq
    <3>2. Len(p) > D + j /\ Depth(D, j, Len(p)) # 0
      BY <1>2, <1>3, <1>5, <2>1, <3>1 DEF Depth
    <3>3. n # << >> /\ n[1] = p[D + j + 1]
      <4>1. ~(Len(p) <= D + j \/ j < D)
        BY <1>2, <1>3, <1>5, <2>1, <3>2
      <4> QED
        BY <1>7, <1>9, <3>2, <4>1 DEF Shape
    <3>4. p[D + j + 1] = T[1]
      BY <1>2, <1>5, <3>1
    <3> QED
      BY <1>4, <1>8, <1>11, <2>3, <3>3, <3>4
  <2> QED
    BY <2>2, <2>3
<1> QED
  BY <1>10, <1>11

(* With one overlay: a plain link that the test lets out of it leads elsewhere. *)
LEMMA LeavesIsLed ==
    ASSUME NEW m \in Mounts, \A o \in Mounts : o = m, NEW rel \in Rel, rel # << >>,
           NEW to \in Target, Plain(to), ~symlink_target_within_overlay(m, rel, to)
    PROVE  \E j, T : Led(to, Len(rel), j, T)
<1>1. PICK j \in Nat, T \in Down : Goes(to.path, j, T) /\ (to.abs => j = 0)
  BY DEF Plain
<1>2. (to.abs \/ ~(j < Len(rel))) /\ (T # << >> => T[1] \notin Mounts)
  BY <1>1, WithinMeans
<1>3. Len(rel) \in Nat
  BY DEF Rel
<1> QED
  BY <1>1, <1>2, <1>3 DEF Led

-----------------------------------------------------------------------------
(* What the kernel is told *)

(* What attr follows, and what it shows as a file *)
LEMMA LinkLeads ==
    ASSUME Alone, NEW t, WellFormed(t), Tame(t),
           NEW m \in Mounts, NEW rel \in Rel, <<m>> \o rel \in DOMAIN t, t[<<m>> \o rel].t = "link",
           Plain(t[<<m>> \o rel].to),
           ~symlink_target_within_overlay(m, rel, t[<<m>> \o rel].to)
    PROVE  LET there == At(t, m, rel, TRUE)
           IN /\ there.st # "waits"
              /\ there.st = "ok" /\ there.at \in DOMAIN t => Out(t[<<m>> \o rel].to)
<1> DEFINE P == <<m>> \o rel
           to == t[P].to
<1>1. to \in Target /\ Plain(to) /\ Len(P) > 1
  BY DEF WellFormed, Tame
<1>2. rel # << >>
  <2>1. Len(P) = Len(rel) + 1
    BY Below, MountIsRoot
  <2>2. Len(<< >>) = 0
    OBVIOUS
  <2> HIDE DEF P
  <2> QED
    BY <1>1, <2>1, <2>2
<1>3. PICK j, T : Led(to, Len(rel), j, T)
  BY <1>1, <1>2, LeavesIsLed DEF Alone
<1>4. Comes(t, At(t, m, rel, TRUE), T)
  BY <1>3, FollowLed DEF Alone
<1>5. T # << >> /\ T[1] \in Roots \ Mounts => Out(to)
  BY <1>3 DEF Led, Out
<1> HIDE DEF P, to
<1> QED
  BY <1>4, <1>5 DEF Comes, P, to

LEMMA OutFollows ==
    ASSUME Alone, NEW t, WellFormed(t), Tame(t),
           NEW m \in Mounts, NEW rel \in Rel, <<m>> \o rel \in DOMAIN t, t[<<m>> \o rel].t = "link",
           Out(t[<<m>> \o rel].to)
    PROVE  At(t, m, rel, TRUE).st # "waits"
<1> DEFINE to == t[<<m>> \o rel].to
<1>1. PICK j \in Nat, T \in Down : /\ Goes(to.path, j, T) /\ (to.abs => j = 0)
                                   /\ T # << >> /\ T[1] \in Roots \ Mounts
  BY DEF Out
<1>2. Led(to, Len(rel), j, T)
  BY <1>1 DEF Led
<1>3. Comes(t, At(t, m, rel, TRUE), T)
  BY <1>2, FollowLed DEF Alone
<1> QED
  BY <1>3 DEF Comes

(* An object that is told of the entry rel is the one that is there, and is a
   directory if it says so; a plain link that is said to be a file leads out. *)
Truth(t, m, rel, g) ==
    /\ <<m>> \o rel \in DOMAIN t
    /\ g.id = t[<<m>> \o rel].id
    /\ g.kind = "dir" <=> t[<<m>> \o rel].t = "dir"
    /\ Alone /\ g.kind = "file" /\ t[<<m>> \o rel].t = "link" /\ Plain(t[<<m>> \o rel].to)
         => Out(t[<<m>> \o rel].to)

(* attr reports the node itself, whatever the link there leads to. *)
LEMMA AttrTruth ==
    ASSUME NEW t, WellFormed(t), Alone => Tame(t), NEW m \in Mounts, NEW rel \in Rel, <<m>> \o rel \in DOMAIN t
    PROVE  /\ Truth(t, m, rel, attr(t, m, rel).obj)
           /\ attr(t, m, rel).seen \in Seq(Path)
           /\ SeenThere(t, attr(t, m, rel).seen)
           /\ attr(t, m, rel).who \in SUBSET Mounts
           /\ Alone /\ (t[<<m>> \o rel].t = "link" => Plain(t[<<m>> \o rel].to))
              => attr(t, m, rel).st # "waits"
<1> DEFINE P == <<m>> \o rel
           here == Found("ok", P, << >>)
           node == t[P]
           there == At(t, m, rel, TRUE)
<1>1. At(t, m, rel, FALSE) = here
  BY NodeIsDirect, DirectAt
<1>2. attr(t, m, rel) = NodeAttr(t, m, rel, here, node)
  <2>1. here.st = "ok" /\ here.at = P
    BY DEF Found
  <2> HIDE DEF here, P
  <2> QED
    BY <1>1, <2>1 DEF attr, AttrOf
<1>3. here.seen = << >> /\ here.st = "ok" /\ here.who = {}
  BY DEF Found
<1>4. Good(t, there)
  BY AtGood
<1>5. there.seen \in Seq(Path) /\ SeenThere(t, there.seen) /\ there.who \in SUBSET Mounts
  BY <1>4 DEF Good, Result
<1> HIDE DEF there
<1>6. CASE node.t = "link" /\ ~symlink_target_within_overlay(m, rel, node.to)
  <2>0. Alone /\ Plain(node.to) =>
          /\ there.st # "waits"
          /\ there.st = "ok" /\ Secret(t, there.at) => Out(node.to)
    BY <1>6, LinkLeads DEF Secret, there
  <2>1. attr(t, m, rel) = LinkAttr(t, node.id, here, there)
    BY <1>2, <1>6 DEF NodeAttr, there
  <2>2. CASE there.st = "waits"
    <3>1. attr(t, m, rel) = Attr(there, node.id, "none")
      BY <2>1, <2>2 DEF LinkAttr
    <3> QED
      BY <1>5, <1>6, <2>0, <2>2, <3>1 DEF Attr, Obj, Truth
  <2>3. CASE there.st # "waits"
    <3>1. PICK kind \in {"file", "link"} :
            /\ attr(t, m, rel) = Attr(Before(there.seen, here), node.id, kind)
            /\ kind = "file" => there.st = "ok" /\ Secret(t, there.at)
      BY <2>1, <2>3 DEF LinkAttr
    <3>2. /\ Before(there.seen, here).seen = there.seen \o << >>
          /\ Before(there.seen, here).st = "ok" /\ Before(there.seen, here).who = {}
      BY DEF Before, Found
    <3>3. there.seen \o << >> = there.seen
      BY <1>5
    <3>4. /\ attr(t, m, rel).seen = there.seen /\ attr(t, m, rel).st = "ok"
          /\ attr(t, m, rel).who = {} /\ attr(t, m, rel).obj = Obj(node.id, kind)
      BY <3>1, <3>2, <3>3 DEF Attr
    <3>5. Truth(t, m, rel, Obj(node.id, kind))
      BY <1>6, <2>0, <3>1 DEF Obj, Truth
    <3> QED
      BY <1>5, <3>4, <3>5
  <2> QED
    BY <2>2, <2>3
<1>7. CASE ~(node.t = "link" /\ ~symlink_target_within_overlay(m, rel, node.to))
  <2>1. attr(t, m, rel) = Attr(here, node.id, IF node.t = "secret" THEN "file" ELSE node.t)
    BY <1>2, <1>7 DEF NodeAttr
  <2> DEFINE kind == IF node.t = "secret" THEN "file" ELSE node.t
  <2>2. (kind = "dir" <=> node.t = "dir") /\ ~(kind = "file" /\ node.t = "link")
    OBVIOUS
  <2> HIDE DEF kind, here
  <2>3. /\ attr(t, m, rel).seen = << >> /\ attr(t, m, rel).obj = Obj(node.id, kind)
        /\ attr(t, m, rel).st = "ok" /\ attr(t, m, rel).who = {}
    BY <1>3, <2>1 DEF Attr, kind
  <2>4. Truth(t, m, rel, Obj(node.id, kind))
    BY <2>2 DEF Obj, Truth
  <2> QED
    BY <2>3, <2>4, EmptySeen
<1> QED
  BY <1>6, <1>7

-----------------------------------------------------------------------------
(* Numbers *)

(* What Consistent says of numbers, for any root *)
Table(tbl) ==
    /\ TableType(tbl, Rel)
    /\ \A p \in DOMAIN tbl.by_path :
          tbl.by_path[p] \in DOMAIN tbl.by_ino /\ tbl.by_ino[tbl.by_path[p]] = p
    /\ \A i \in DOMAIN tbl.by_ino : i < tbl.next

(* A number stands for one object; if it has a path, that path has this number
   and leads to the object. *)
Stands(t, m, tbl, objs, i) ==
    /\ \E g \in objs : \A h \in objs : h.id = g.id
    /\ i \in DOMAIN tbl.by_ino =>
         /\ tbl.by_ino[i] \in DOMAIN tbl.by_path
         /\ tbl.by_path[tbl.by_ino[i]] = i
         /\ \A g \in objs : Truth(t, m, tbl.by_ino[i], g)

(* So it is for every number that the kernel has and that is not in st. *)
StandAll(t, m, tbl, gm, st) ==
    \A i \in DOMAIN gm :
        /\ i \in Nat /\ i < tbl.next
        /\ i \notin st => Stands(t, m, tbl, gm[i], i)

LEMMA InternTable ==
    ASSUME NEW tbl, Table(tbl), NEW rel \in Rel
    PROVE  /\ Table(intern(tbl, rel))
           /\ rel \in DOMAIN intern(tbl, rel).by_path
           /\ intern(tbl, rel).by_path[rel] \in Nat
           /\ intern(tbl, rel).by_path[rel] < intern(tbl, rel).next
           /\ tbl.next <= intern(tbl, rel).next
<1>0. tbl.next \in Nat
  BY DEF Table, TableType
<1>1. CASE rel \in DOMAIN tbl.by_path
  <2>1. intern(tbl, rel) = tbl
    BY <1>1 DEF intern
  <2>2. tbl.by_path[rel] \in Nat /\ tbl.by_path[rel] < tbl.next
    BY <1>1 DEF Table, TableType
  <2> QED
    BY <1>0, <1>1, <2>1, <2>2
<1>2. CASE rel \notin DOMAIN tbl.by_path
  <2> DEFINE new == intern(tbl, rel)
  <2>1. /\ new.by_ino = Put(tbl.by_ino, tbl.next, rel)
        /\ new.by_path = Put(tbl.by_path, rel, tbl.next)
        /\ new.next = tbl.next + 1
    BY <1>2 DEF intern
  <2>2. tbl.next \notin DOMAIN tbl.by_ino
    BY <1>0 DEF Table, TableType
  <2> HIDE DEF new
  <2>3. TableType(new, Rel)
    BY <2>1 DEF Table, TableType, Put
  <2>4. \A p \in DOMAIN new.by_path :
           new.by_path[p] \in DOMAIN new.by_ino /\ new.by_ino[new.by_path[p]] = p
    BY <2>1, <2>2 DEF Table, Put
  <2>5. \A i \in DOMAIN new.by_ino : i < new.next
    BY <1>0, <2>1 DEF Table, TableType, Put
  <2>6. rel \in DOMAIN new.by_path /\ new.by_path[rel] = tbl.next
    BY <2>1 DEF Put
  <2> QED
    BY <1>0, <2>1, <2>3, <2>4, <2>5, <2>6 DEF Table, new
<1> QED
  BY <1>1, <1>2

(* A name that gets a number, or has one, keeps the others'. *)
LEMMA InternStands ==
    ASSUME NEW t, NEW m, NEW tbl, Table(tbl), NEW rel \in Rel,
           NEW objs, NEW i \in DOMAIN tbl.by_ino, Stands(t, m, tbl, objs, i)
    PROVE  Stands(t, m, intern(tbl, rel), objs, i)
<1>1. CASE rel \in DOMAIN tbl.by_path
  BY <1>1 DEF intern
<1>2. CASE rel \notin DOMAIN tbl.by_path
  <2> DEFINE new == intern(tbl, rel)
  <2>1. /\ new.by_ino = Put(tbl.by_ino, tbl.next, rel)
        /\ new.by_path = Put(tbl.by_path, rel, tbl.next)
    BY <1>2 DEF intern
  <2>2. i # tbl.next
    BY DEF Table, TableType
  <2>3. new.by_ino[i] = tbl.by_ino[i] /\ tbl.by_ino[i] # rel
    BY <1>2, <2>1, <2>2 DEF Put, Stands
  <2>4. new.by_path[tbl.by_ino[i]] = tbl.by_path[tbl.by_ino[i]]
    BY <2>1, <2>3 DEF Put, Stands
  <2>5. tbl.by_ino[i] \in DOMAIN new.by_path
    BY <2>1 DEF Put, Stands
  <2> HIDE DEF new
  <2> QED
    BY <2>3, <2>4, <2>5 DEF Stands, new
<1> QED
  BY <1>1, <1>2

LEMMA InternStandsNot ==
    ASSUME NEW t, NEW m, NEW tbl, Table(tbl), NEW rel \in Rel,
           NEW objs, NEW i \in Nat, i < tbl.next, i \notin DOMAIN tbl.by_ino, Stands(t, m, tbl, objs, i)
    PROVE  Stands(t, m, intern(tbl, rel), objs, i)
<1>1. tbl.next \in Nat
  BY DEF Table, TableType
<1>2. i \notin DOMAIN intern(tbl, rel).by_ino
  BY <1>1 DEF intern, Put
<1> QED
  BY <1>2 DEF Stands

(* A truthful answer keeps what numbers stand for. *)
LEMMA GiveStands ==
    ASSUME NEW t, NEW m, NEW tbl, NEW gm, NEW st, Table(tbl), StandAll(t, m, tbl, gm, st),
           NEW rel \in Rel, NEW objs, \E g \in objs : objs \subseteq {g},
           \A g \in objs : Truth(t, m, rel, g)
    PROVE  StandAll(t, m, intern(tbl, rel), Give(gm, intern(tbl, rel).by_path[rel], objs), st)
<1> DEFINE new == intern(tbl, rel)
           ino == new.by_path[rel]
           gn == Give(gm, ino, objs)
<1>0. /\ Table(new) /\ rel \in DOMAIN new.by_path /\ ino \in Nat /\ ino < new.next
      /\ tbl.next <= new.next /\ tbl.next \in Nat /\ new.next \in Nat
      /\ ino \in DOMAIN new.by_ino /\ new.by_ino[ino] = rel
  BY InternTable DEF Table, TableType
<1>1. \A i \in DOMAIN gm : i \notin st => Stands(t, m, new, gm[i], i)
  BY InternStands, InternStandsNot DEF StandAll
<1> HIDE DEF new, ino
<1>2. PICK g \in objs : objs = {g}
  OBVIOUS
<1>3. /\ DOMAIN gn = DOMAIN gm \cup {ino}
      /\ \A i \in DOMAIN gm : i # ino => gn[i] = gm[i]
      /\ gn[ino] = objs \cup (IF ino \in DOMAIN gm THEN gm[ino] ELSE {})
  BY DEF Give, Put
<1> HIDE DEF gn
<1>4. \A i \in DOMAIN gn : i \in Nat /\ i < new.next
  BY <1>0, <1>3 DEF StandAll
<1>5. ASSUME NEW i \in DOMAIN gn, i \notin st, i # ino PROVE Stands(t, m, new, gn[i], i)
  BY <1>1, <1>3, <1>5
<1>6. ASSUME ino \notin st PROVE Stands(t, m, new, gn[ino], ino)
  <2>1. \A h \in gn[ino] : Truth(t, m, rel, h)
    <3>1. ino \in DOMAIN gm => \A h \in gm[ino] : Truth(t, m, rel, h)
      BY <1>0, <1>1, <1>6 DEF Stands
    <3> QED
      BY <1>3, <3>1
  <2>2. g \in gn[ino] /\ \A h \in gn[ino] : h.id = g.id
    BY <1>2, <1>3, <2>1 DEF Truth
  <2>3. rel \in DOMAIN new.by_path /\ new.by_path[rel] = ino /\ new.by_ino[ino] = rel
    BY <1>0 DEF ino
  <2> QED
    BY <2>1, <2>2, <2>3 DEF Stands
<1> QED
  BY <1>4, <1>5, <1>6 DEF StandAll, gn, new, ino

(* A number that is given to nobody changes nothing. *)
LEMMA ListStands ==
    ASSUME NEW t, NEW m, NEW tbl, NEW gm, NEW st, Table(tbl), StandAll(t, m, tbl, gm, st),
           NEW rel \in Rel
    PROVE  StandAll(t, m, intern(tbl, rel), Give(gm, intern(tbl, rel).by_path[rel], {}), st)
<1>1. tbl.next <= intern(tbl, rel).next /\ tbl.next \in Nat /\ intern(tbl, rel).next \in Nat
  BY InternTable DEF Table, TableType
<1>2. \A i \in DOMAIN gm : i \notin st => Stands(t, m, intern(tbl, rel), gm[i], i)
  BY InternStands, InternStandsNot DEF StandAll
<1>3. \A i \in DOMAIN gm : i \in Nat /\ i < intern(tbl, rel).next
  BY <1>1 DEF StandAll
<1> QED
  BY <1>2, <1>3 DEF StandAll, Give

(* The tables and numbers of all overlays *)
Kept(t, s, st) ==
    /\ DOMAIN s.inodes = Mounts /\ DOMAIN s.given = Mounts
    /\ \A m \in Mounts : /\ Table(s.inodes[m])
                         /\ StandAll(t, m, s.inodes[m], s.given[m], st[m])

(* An answer that tells the truth, or nothing, about an entry *)
Truthful(t, a) ==
    /\ a.m \in Mounts /\ a.rel \in Rel
    /\ a.objs = {} \/ \E g : a.objs = {g} /\ Truth(t, a.m, a.rel, g)

LEMMA ToldKept ==
    ASSUME NEW t, NEW s, NEW st, Kept(t, s, st), NEW a, Truthful(t, a)
    PROVE  Kept(t, Told(s, a), st)
<1> DEFINE tbl == intern(s.inodes[a.m], a.rel)
           gm == Give(s.given[a.m], tbl.by_path[a.rel], a.objs)
<1>1. a.m \in Mounts /\ a.rel \in Rel
  BY DEF Truthful
<1>2. Table(s.inodes[a.m]) /\ StandAll(t, a.m, s.inodes[a.m], s.given[a.m], st[a.m])
  BY <1>1 DEF Kept
<1>3. Table(tbl)
  BY <1>1, <1>2, InternTable
<1>4. StandAll(t, a.m, tbl, gm, st[a.m])
  <2>1. CASE a.objs = {}
    BY <1>1, <1>2, <2>1, ListStands
  <2>2. CASE \E g : a.objs = {g} /\ Truth(t, a.m, a.rel, g)
    BY <1>1, <1>2, <2>2, GiveStands
  <2> QED
    BY <2>1, <2>2 DEF Truthful
<1>5. /\ Told(s, a).inodes = [s.inodes EXCEPT ![a.m] = tbl]
      /\ Told(s, a).given = [s.given EXCEPT ![a.m] = gm]
  BY DEF Told
<1> HIDE DEF tbl, gm
<1> QED
  BY <1>1, <1>3, <1>4, <1>5 DEF Kept

IsTold(s0, answers, n, f) ==
    f = [k \in 0..n |-> IF k = 0 THEN s0 ELSE Told(f[k - 1], answers[k])]

(* The recursion is well founded. *)
LEMMA ToldExists ==
    ASSUME NEW s0, NEW answers, NEW n \in Nat
    PROVE  \E f : IsTold(s0, answers, n, f)
<1> DEFINE T == {m \in Nat : ~\E f : IsTold(s0, answers, m, f)}
<1> SUFFICES ASSUME T # {} PROVE FALSE
  OBVIOUS
<1>1. PICK m \in T : \A k \in T : m <= k
  <2>1. T \in SUBSET Nat
    OBVIOUS
  <2> HIDE DEF T
  <2> QED
    BY <2>1, LeastNatural
<1>2. m # 0
  <2> DEFINE f == [i \in 0..0 |-> s0]
  <2>1. IsTold(s0, answers, 0, f)
    BY DEF IsTold
  <2> QED
    BY <2>1
<1>3. m - 1 \in Nat /\ m - 1 \notin T
  <2>1. m \in Nat
    OBVIOUS
  <2> HIDE DEF T
  <2> QED
    BY <1>1, <1>2, <2>1
<1>4. PICK f : IsTold(s0, answers, m - 1, f)
  BY <1>3
<1> DEFINE g == [i \in 0..m |-> IF i = m THEN Told(f[m - 1], answers[m]) ELSE f[i]]
<1>5. \A i \in 0..m : i # m => i \in 0..(m - 1) /\ g[i] = f[i]
  BY <1>2
<1>6. \A i \in 0..m : g[i] = IF i = 0 THEN s0 ELSE Told(g[i - 1], answers[i])
  <2> SUFFICES ASSUME NEW i \in 0..m
               PROVE  g[i] = IF i = 0 THEN s0 ELSE Told(g[i - 1], answers[i])
    OBVIOUS
  <2>1. i # 0 => i - 1 \in 0..(m - 1) /\ g[i - 1] = f[i - 1]
    BY <1>2, <1>5
  <2>2. CASE i = m
    BY <1>2, <2>1, <2>2
  <2>3. CASE i # m
    <3>1. f[i] = IF i = 0 THEN s0 ELSE Told(f[i - 1], answers[i])
      BY <1>4, <1>5, <2>3 DEF IsTold
    <3> QED
      BY <1>5, <2>1, <2>3, <3>1
  <2> QED
    BY <2>2, <2>3
<1>7. IsTold(s0, answers, m, g)
  <2>1. g = [i \in 0..m |-> g[i]]
    OBVIOUS
  <2> HIDE DEF g
  <2> QED
    BY <1>6, <2>1 DEF IsTold
<1> QED
  BY <1>7

Now == [inodes |-> inodes, given |-> given]

(* Truthful answers, one after the other *)
LEMMA AllToldKept ==
    ASSUME NEW t, NEW st, NEW answers, Len(answers) \in Nat,
           \A k \in 1..Len(answers) : Truthful(t, answers[k]), Kept(t, Now, st)
    PROVE  Kept(t, AllTold(answers), st)
<1> DEFINE n == Len(answers)
           f == CHOOSE g : IsTold(Now, answers, n, g)
<1>1. IsTold(Now, answers, n, f)
  BY ToldExists
<1>2. AllTold(answers) = f[n]
  BY DEF AllTold, IsTold, Now
<1> HIDE DEF f
<1>3. f[0] = Now /\ \A k \in 1..n : f[k] = Told(f[k - 1], answers[k])
  BY <1>1 DEF IsTold
<1> HIDE DEF n
<1> DEFINE T == {k \in 0..n : ~Kept(t, f[k], st)}
<1>4. T = {}
  <2> SUFFICES ASSUME T # {} PROVE FALSE
    OBVIOUS
  <2>1. PICK k \in T : \A j \in T : k <= j
    <3>1. T \in SUBSET Nat
      BY DEF n
    <3> HIDE DEF T
    <3> QED
      BY <3>1, LeastNatural
  <2>2. k \in 0..n /\ ~Kept(t, f[k], st)
    OBVIOUS
  <2>3. k # 0
    BY <1>3, <2>2
  <2>4. k \in 1..n /\ k - 1 \in 0..n /\ ~(k <= k - 1)
    BY <2>2, <2>3 DEF n
  <2>5. Kept(t, f[k - 1], st)
    BY <2>1, <2>4
  <2>6. Truthful(t, answers[k]) /\ f[k] = Told(f[k - 1], answers[k])
    BY <1>3, <2>4 DEF n
  <2> HIDE DEF T
  <2> QED
    BY <2>2, <2>5, <2>6, ToldKept
<1>5. n \in 0..n
  BY DEF n
<1> QED
  BY <1>2, <1>4, <1>5

(* A list and one element more *)
LEMMA OneMore ==
    ASSUME NEW n \in Nat, NEW f, f = [k \in 1..n |-> f[k]], NEW x
    PROVE  /\ Len(f) = n /\ Len(f \o <<x>>) = n + 1
           /\ \A k \in 1..n : (f \o <<x>>)[k] = f[k]
           /\ (f \o <<x>>)[n + 1] = x
<1> DEFINE S == {f[k] : k \in 1..n} \cup {x}
<1>1. f \in [1..n -> S]
  OBVIOUS
<1>2. f \in Seq(S) /\ Len(f) = n
  BY <1>1, FunctionIsSeq
<1>3. <<x>> \in Seq(S)
  OBVIOUS
<1> HIDE DEF S
<1>4. /\ Len(f \o <<x>>) = Len(f) + Len(<<x>>)
      /\ \A k \in 1..(Len(f) + Len(<<x>>)) :
            (f \o <<x>>)[k] = IF k <= Len(f) THEN f[k] ELSE <<x>>[k - Len(f)]
  BY <1>2, <1>3
<1> QED
  BY <1>2, <1>4

(* The lookups that inspecting a link caused are answered truthfully. *)
LEMMA NestedTruthful ==
    ASSUME NEW t, WellFormed(t), Alone => Tame(t), NEW seen \in Seq(Path), SeenThere(t, seen)
    PROVE  /\ Len(seen) \in Nat
           /\ Nested(t, seen) = [k \in 1..Len(seen) |-> Nested(t, seen)[k]]
           /\ \A k \in 1..Len(seen) : Truthful(t, Nested(t, seen)[k])
<1>1. Len(seen) \in Nat /\ DOMAIN seen = 1..Len(seen)
  BY LenProperties
<1>2. Nested(t, seen) = [k \in 1..Len(seen) |-> Nested(t, seen)[k]]
  BY <1>1 DEF Nested
<1>3. ASSUME NEW k \in 1..Len(seen) PROVE Truthful(t, Nested(t, seen)[k])
  <2> DEFINE p == seen[k]
             a == Nested(t, seen)[k]
  <2>1. p \in DOMAIN t /\ p[1] \in Mounts
    BY <1>1 DEF SeenThere
  <2>2. a = Answer(p[1], Tail(p), {attr(t, p[1], Tail(p)).obj})
    BY <1>1 DEF Nested
  <2> HIDE DEF p, a
  <2>3. Tail(p) \in Rel /\ <<p[1]>> \o Tail(p) = p
    BY <2>1, SplitBelow
  <2>4. Truth(t, p[1], Tail(p), attr(t, p[1], Tail(p)).obj)
    BY <2>1, <2>3, AttrTruth
  <2> QED
    BY <2>1, <2>2, <2>3, <2>4 DEF Truthful, Answer, a
<1> QED
  BY <1>1, <1>2, <1>3

(* Every request that is answered with an entry keeps the numbers. *)
LEMMA AnswerKept ==
    ASSUME NEW t, WellFormed(t), Alone => Tame(t), NEW st, Kept(t, Now, st),
           NEW m \in Mounts, NEW rel \in Rel, <<m>> \o rel \in DOMAIN t,
           NEW inos, AnswerEntry(t, m, rel, inos)
    PROVE  Kept(t, Now', st)
<1> DEFINE a == attr(t, m, rel)
           none == <<Answer(m, rel, {})>>
           list == Nested(t, a.seen) \o <<Answer(m, rel, {a.obj})>>
<1>1. Truth(t, m, rel, a.obj) /\ a.seen \in Seq(Path) /\ SeenThere(t, a.seen)
  BY AttrTruth
<1>2. /\ Len(list) \in Nat /\ \A k \in 1..Len(list) : Truthful(t, list[k])
  <2> DEFINE n == Len(a.seen)
  <2>1. /\ n \in Nat /\ Nested(t, a.seen) = [k \in 1..n |-> Nested(t, a.seen)[k]]
        /\ \A k \in 1..n : Truthful(t, Nested(t, a.seen)[k])
    BY <1>1, NestedTruthful
  <2>2. Truthful(t, Answer(m, rel, {a.obj}))
    BY <1>1 DEF Truthful, Answer
  <2> HIDE DEF n, a
  <2>3. /\ Len(list) = n + 1 /\ \A k \in 1..n : list[k] = Nested(t, a.seen)[k]
        /\ list[n + 1] = Answer(m, rel, {a.obj})
    BY <2>1, OneMore
  <2>4. \A k \in 1..(n + 1) : k \in 1..n \/ k = n + 1
    BY <2>1
  <2> HIDE DEF list
  <2> QED
    BY <2>1, <2>2, <2>3, <2>4
<1>3. Len(none) = 1 /\ none[1] = Answer(m, rel, {})
  OBVIOUS
<1>4. \A k \in 1..Len(none) : Truthful(t, none[k])
  BY <1>3 DEF Truthful, Answer
<1>5. PICK answers \in {none, list} :
        inodes' = AllTold(answers).inodes /\ given' = AllTold(answers).given
  BY DEF AnswerEntry, Tell
<1>6. Len(answers) \in Nat /\ \A k \in 1..Len(answers) : Truthful(t, answers[k])
  BY <1>2, <1>3, <1>4
<1> HIDE DEF a, none, list
<1>7. Kept(t, AllTold(answers), st)
  BY <1>6, AllToldKept
<1> QED
  BY <1>5, <1>7 DEF Kept, Now

-----------------------------------------------------------------------------
(* Changes of the tree *)

(* A node above another one has children. *)
LEMMA HasChild ==
    ASSUME NEW t, WellFormed(t), NEW q \in DOMAIN t, NEW k \in 1..(Len(q) - 1)
    PROVE  Children(t, SubSeq(q, 1, k)) # {}
<1> DEFINE p == SubSeq(q, 1, k)
<1>0. q \in Path /\ Len(q) \in Nat /\ q \in Seq(Roots \cup Names)
  BY DEF WellFormed, Path
<1>1. q[k + 1] \in Names
  BY <1>0 DEF WellFormed
<1>2. SubSeq(q, 1, k + 1) = Append(p, q[k + 1])
  <2>1. k \in 0..Len(q) /\ k + 1 \in 0..Len(q)
    BY <1>0
  <2>2. /\ p \in Seq(Roots \cup Names) /\ Len(p) = k
        /\ \A i \in 1..k : p[i] = q[i]
    BY <1>0, <2>1, Cut
  <2>3. /\ SubSeq(q, 1, k + 1) \in Seq(Roots \cup Names) /\ Len(SubSeq(q, 1, k + 1)) = k + 1
        /\ \A i \in 1..(k + 1) : SubSeq(q, 1, k + 1)[i] = q[i]
    BY <1>0, <2>1, Cut
  <2> HIDE DEF p
  <2>4. /\ Append(p, q[k + 1]) \in Seq(Roots \cup Names) /\ Len(Append(p, q[k + 1])) = k + 1
        /\ \A i \in 1..(k + 1) : Append(p, q[k + 1])[i] = q[i]
    BY <1>1, <2>2
  <2> QED
    BY <2>3, <2>4, SeqEqual
<1>3. SubSeq(q, 1, k + 1) \in DOMAIN t
  <2>1. CASE k + 1 = Len(q)
    BY <1>0, <2>1, WholeCut
  <2>2. CASE k + 1 # Len(q)
    <3>1. k + 1 \in 1..(Len(q) - 1)
      BY <1>0, <2>2
    <3> QED
      BY <3>1, Above
  <2> QED
    BY <2>1, <2>2
<1> QED
  BY <1>1, <1>2, <1>3 DEF Children

(* A new entry of a directory *)
LEMMA PutTree ==
    ASSUME NEW t, WellFormed(t), NEW p \in DOMAIN t, t[p].t = "dir",
           NEW n \in Names, NEW node, node.to \in Target, Append(p, n) \notin DOMAIN t
    PROVE  WellFormed(Put(t, Append(p, n), node))
<1> DEFINE new == Append(p, n)
           u == Put(t, new, node)
<1>1. DOMAIN u = DOMAIN t \cup {new} /\ u[new] = node /\ \A q \in DOMAIN t : u[q] = t[q]
  BY DEF Put
<1>2. /\ p \in Seq(Roots \cup Names) /\ p # << >> /\ p[1] \in Roots /\ Len(p) \in Nat /\ Len(p) >= 1
      /\ \A k \in 2..Len(p) : p[k] \in Names
  BY DEF WellFormed
<1>3. /\ new \in Seq(Roots \cup Names) /\ new # << >> /\ new[1] = p[1] /\ Len(new) = Len(p) + 1
      /\ \A k \in 1..Len(p) : new[k] = p[k]
      /\ new[Len(p) + 1] = n
  BY <1>2
<1>4. \A k \in 1..Len(p) : SubSeq(new, 1, k) = SubSeq(p, 1, k)
  BY <1>2, CutOfAppend
<1>5. \A k \in 1..(Len(new) - 1) : SubSeq(new, 1, k) \in DOMAIN t /\ t[SubSeq(new, 1, k)].t = "dir"
  <2> HIDE DEF new
  <2> SUFFICES ASSUME NEW k \in 1..(Len(new) - 1)
               PROVE  SubSeq(new, 1, k) \in DOMAIN t /\ t[SubSeq(new, 1, k)].t = "dir"
    OBVIOUS
  <2>0. k \in 1..Len(p) /\ SubSeq(new, 1, k) = SubSeq(p, 1, k)
    BY <1>2, <1>3, <1>4
  <2>1. CASE k = Len(p)
    BY <1>2, <2>0, <2>1, WholeCut
  <2>2. CASE k # Len(p)
    <3>1. k \in 1..(Len(p) - 1)
      BY <1>2, <2>0, <2>2
    <3> QED
      BY <2>0, <3>1, Above
  <2> QED
    BY <2>1, <2>2
<1>6. \A k \in 2..Len(new) : new[k] \in Names
  <2> SUFFICES ASSUME NEW k \in 2..Len(new) PROVE new[k] \in Names
    OBVIOUS
  <2>1. k = Len(p) + 1 \/ k \in 2..Len(p)
    BY <1>2, <1>3
  <2> QED
    BY <1>2, <1>3, <2>1
<1> HIDE DEF new, u
<1> SUFFICES WellFormed(u)
  BY DEF u, new
<1> SUFFICES ASSUME NEW q \in DOMAIN u
             PROVE  /\ q \in Seq(Roots \cup Names) /\ q # << >> /\ q[1] \in Roots
                    /\ \A k \in 2..Len(q) : q[k] \in Names
                    /\ \A k \in 1..(Len(q) - 1) : /\ SubSeq(q, 1, k) \in DOMAIN u
                                                  /\ u[SubSeq(q, 1, k)].t = "dir"
                    /\ u[q].to \in Target
  BY DEF WellFormed
<1>7. CASE q = new
  BY <1>1, <1>2, <1>3, <1>5, <1>6, <1>7
<1>8. CASE q # new
  <2>1. q \in DOMAIN t
    BY <1>1, <1>8
  <2> QED
    BY <1>1, <2>1 DEF WellFormed
<1> QED
  BY <1>7, <1>8

(* A node without children goes. *)
LEMMA RemoveTree ==
    ASSUME NEW t, WellFormed(t), NEW p \in DOMAIN t, Children(t, p) = {}
    PROVE  WellFormed(Remove(t, p))
<1> DEFINE u == Remove(t, p)
<1>1. DOMAIN u = DOMAIN t \ {p} /\ \A q \in DOMAIN t : q # p => u[q] = t[q]
  BY DEF Remove
<1> HIDE DEF u
<1> SUFFICES WellFormed(u)
  BY DEF u
<1> SUFFICES ASSUME NEW q \in DOMAIN u
             PROVE  /\ q \in Seq(Roots \cup Names) /\ q # << >> /\ q[1] \in Roots
                    /\ \A k \in 2..Len(q) : q[k] \in Names
                    /\ \A k \in 1..(Len(q) - 1) : /\ SubSeq(q, 1, k) \in DOMAIN u
                                                  /\ u[SubSeq(q, 1, k)].t = "dir"
                    /\ u[q].to \in Target
  BY DEF WellFormed
<1>2. q \in DOMAIN t /\ u[q] = t[q]
  BY <1>1
<1>3. \A k \in 1..(Len(q) - 1) : SubSeq(q, 1, k) # p
  BY <1>2, HasChild
<1> QED
  BY <1>1, <1>2, <1>3 DEF WellFormed

(* Two names of one object show the same node. *)
SameObject(t) == \A p, q \in DOMAIN t : t[p].id = t[q].id => t[p] = t[q]

(* A tree of which every node was one of another *)
LEMMA NodesOf ==
    ASSUME NEW t, NEW u, \A q \in DOMAIN u : \E p \in DOMAIN t : u[q] = t[p]
    PROVE  SameObject(t) => SameObject(u)
  BY DEF SameObject

(* Links outside of the overlays are those that were there at mount time. *)
Origin(t) ==
    \A p \in DOMAIN t : t[p].t = "link" =>
        /\ Len(p) > 1
        /\ p[1] \notin Mounts => p \in DOMAIN Given0 /\ Given0[p] = t[p]

LEMMA OriginApart ==
    ASSUME NEW t, Origin(t), Apart(Given0)
    PROVE  Apart(t)
  BY DEF Origin, Apart

LEMMA OriginTame ==
    ASSUME NEW t, Origin(t)
    PROVE  Alone => Tame(t)
<1>1. Alone => Apart(t)
  BY OriginApart DEF Alone
<1> QED
  BY <1>1 DEF Tame, Origin

LEMMA OriginNodesOf ==
    ASSUME NEW t, NEW u, Origin(t),
           \A q \in DOMAIN u : \E p \in DOMAIN t :
              /\ u[q] = t[p]
              /\ q = p \/ (Len(q) > 1 /\ q[1] \in Mounts)
    PROVE  Origin(u)
  BY DEF Origin

LEMMA PutSame ==
    ASSUME NEW t, SameObject(t), NEW p, NEW node, \A q \in DOMAIN t : t[q].id = node.id => t[q] = node
    PROVE  SameObject(Put(t, p, node))
  BY DEF SameObject, Put

LEMMA PutOrigin ==
    ASSUME NEW t, Origin(t), NEW p, Len(p) > 1, p[1] \in Mounts, NEW node
    PROVE  Origin(Put(t, p, node))
  BY DEF Origin, Put

(* What a number stands for does not depend on the rest of the tree. *)
LEMMA KeptGrows ==
    ASSUME NEW t, NEW u, NEW s, NEW st, Kept(t, s, st),
           \A p \in DOMAIN t : p \in DOMAIN u /\ u[p] = t[p]
    PROVE  Kept(u, s, st)
<1>1. \A m, rel, g : Truth(t, m, rel, g) => Truth(u, m, rel, g)
  BY DEF Truth
<1>2. \A m, tbl, objs, i : Stands(t, m, tbl, objs, i) => Stands(u, m, tbl, objs, i)
  BY <1>1 DEF Stands
<1>3. \A m, tbl, gm, x : StandAll(t, m, tbl, gm, x) => StandAll(u, m, tbl, gm, x)
  BY <1>2 DEF StandAll
<1> QED
  BY <1>3 DEF Kept

-----------------------------------------------------------------------------
(* Requests *)

Held ==
    /\ WellFormed(tree)
    /\ SameObject(tree)
    /\ Origin(tree)
    /\ DOMAIN stale = Mounts
    /\ Kept(tree, Now, stale)

(* The numbers that the kernel has *)
LEMMA NumberFields ==
    ASSUME Held, NEW m \in Mounts
    PROVE  /\ Table(inodes[m])
           /\ StandAll(tree, m, inodes[m], given[m], stale[m])
           /\ \A i \in DOMAIN inodes[m].by_ino : i \in Nat /\ PathOf(m, i) \in Rel
<1>1. Table(inodes[m]) /\ StandAll(tree, m, inodes[m], given[m], stale[m])
  BY DEF Held, Kept, Now
<1>2. \A i \in DOMAIN inodes[m].by_ino : i \in Nat /\ PathOf(m, i) \in Rel
  BY <1>1 DEF Table, TableType, PathOf
<1> QED
  BY <1>1, <1>2

(* The directory of a number that does not mislead the request *)
LEMMA DirIsDirect ==
    ASSUME Held, NEW m \in Mounts, NEW i \in Usable(m, {"dir"}),
           i \in stale[m] => Direct(tree, <<m>> \o PathOf(m, i), TRUE)
    PROVE  /\ PathOf(m, i) \in Rel
           /\ Direct(tree, <<m>> \o PathOf(m, i), TRUE)
           /\ Dir(m, i).at = <<m>> \o PathOf(m, i)
           /\ Dir(m, i).st = "ok" => <<m>> \o PathOf(m, i) \in DOMAIN tree
           /\ Dir(m, i).st # "waits"
<1> DEFINE P == <<m>> \o PathOf(m, i)
<1>1. /\ i \in DOMAIN given[m] /\ i \in DOMAIN inodes[m].by_ino
      /\ \E g \in given[m][i] : g.kind = "dir"
  BY DEF Usable, HasPath
<1>2. PathOf(m, i) \in Rel
  BY <1>1, NumberFields
<1>3. Direct(tree, P, TRUE)
  <2>1. CASE i \in stale[m]
    BY <2>1
  <2>2. CASE i \notin stale[m]
    <3>1. Stands(tree, m, inodes[m], given[m][i], i)
      BY <1>1, <2>2, NumberFields DEF StandAll
    <3>2. P \in DOMAIN tree /\ tree[P].t = "dir"
      BY <1>1, <3>1 DEF Stands, Truth, PathOf
    <3> QED
      BY <3>2, NodeIsDirect DEF Held
  <2> QED
    BY <2>1, <2>2
<1>4. Dir(m, i) = Found(IF P \in DOMAIN tree THEN "ok" ELSE "none", P, << >>)
  BY <1>3, DirectAt DEF Dir
<1> HIDE DEF P
<1>5. Dir(m, i).at = P /\ Dir(m, i).st = IF P \in DOMAIN tree THEN "ok" ELSE "none"
  BY <1>4 DEF Found
<1> QED
  BY <1>2, <1>3, <1>5 DEF P

LEMMA HangHeld ==
    ASSUME Held, NEW res, NEW inos, NEW at, Hang(res, inos, at)
    PROVE  Held'
  BY DEF Hang, Held, SameObject, Origin, Kept, Now, Table, TableType, StandAll, Stands, Truth, WellFormed

(* A request that is not misled uses the directory that its number names. *)
LEMMA UsesDirect ==
    ASSUME misled' \in BOOLEAN, ~misled', NEW m, NEW inos, Uses(m, inos), NEW i \in inos
    PROVE  i \in stale[m] => Direct(tree, <<m>> \o PathOf(m, i), TRUE)
  BY DEF Uses, Place

LEMMA LookupHeld ==
    ASSUME Held, NEW m \in Mounts, NEW pi \in Usable(m, {"dir"}), NEW n \in Names,
           Lookup(m, pi, n), misled' \in BOOLEAN, ~misled'
    PROVE  Held'
<1> DEFINE rel == Entry(m, pi, n)
           here == At(tree, m, rel, FALSE)
<1>1. CASE Hang(here, {pi}, <<m>> \o rel)
  BY <1>1, HangHeld
<1>2. CASE /\ here.st = "ok"
           /\ AnswerEntry(tree, m, rel, {pi})
           /\ Uses(m, {pi})
           /\ UNCHANGED <<tree, stale>>
  <2> DEFINE P == <<m>> \o PathOf(m, pi)
  <2>1. PathOf(m, pi) \in Rel /\ Direct(tree, P, TRUE)
    BY <1>2, UsesDirect, DirIsDirect
  <2>2. rel \in Rel /\ <<m>> \o rel = Append(P, n)
    BY <2>1, BelowAppend, MountIsRoot DEF Entry
  <2>3. P \in Path
    BY <2>1, Below, MountIsRoot
  <2>4. Direct(tree, <<m>> \o rel, FALSE)
    BY <2>1, <2>2, <2>3, EntryIsDirect
  <2>5. here = Found(IF <<m>> \o rel \in DOMAIN tree THEN "ok" ELSE "none", <<m>> \o rel, << >>)
    BY <2>4, DirectAt
  <2>6. <<m>> \o rel \in DOMAIN tree
    <3>1. here.st = "ok"
      BY <1>2
    <3> HIDE DEF rel, here
    <3>2. here.st = IF <<m>> \o rel \in DOMAIN tree THEN "ok" ELSE "none"
      BY <2>5 DEF Found
    <3> QED
      BY <3>1, <3>2
  <2>7. Kept(tree, Now', stale)
    BY <1>2, <2>2, <2>6, AnswerKept, OriginTame DEF Held
  <2> QED
    BY <1>2, <2>7 DEF Held
<1> QED
  BY <1>1, <1>2 DEF Lookup

LEMMA ReaddirHeld ==
    ASSUME Held, NEW m \in Mounts, NEW ino \in Usable(m, {"dir"}), Readdir(m, ino)
    PROVE  Held'
<1> DEFINE d == Dir(m, ino)
<1>1. CASE Hang(d, {ino}, Place(m, ino))
  BY <1>1, HangHeld
<1>2. ASSUME NEW names \in entries(d.at),
             Tell([k \in DOMAIN names |-> Answer(m, Entry(m, ino, names[k]), {})]),
             UNCHANGED <<tree, stale>>
      PROVE  Held'
  <2> DEFINE found == Children(tree, d.at)
             c == Cardinality(found)
             answers == [k \in DOMAIN names |-> Answer(m, Entry(m, ino, names[k]), {})]
  <2>0. PathOf(m, ino) \in Rel
    BY NumberFields DEF Usable, HasPath
  <2>1. names \in [1..c -> found]
    BY <1>2 DEF entries
  <2>2. \A k \in DOMAIN names : names[k] \in Names
    BY <2>1 DEF Children
  <2>3. \A k \in DOMAIN names : Entry(m, ino, names[k]) \in Rel
    BY <2>0, <2>2, BelowAppend, MountIsRoot DEF Entry
  <2>4. \A k \in DOMAIN names : Truthful(tree, answers[k])
    BY <2>3 DEF Truthful, Answer
  <2>5. Len(answers) \in Nat /\ 1..Len(answers) \subseteq DOMAIN names
    <3>1. c \in Nat
      <4>1. found \subseteq Names
        BY DEF Children
      <4> QED
        BY <4>1, NamespaceAssumption, FS_Subset, FS_CardinalityType
    <3> HIDE DEF c
    <3>2. DOMAIN names = 1..c /\ answers = [k \in 1..c |-> answers[k]]
      BY <2>1
    <3> HIDE DEF answers
    <3>3. Len(answers) = c
      BY <3>1, <3>2, OneMore
    <3> QED
      BY <3>1, <3>2, <3>3
  <2> HIDE DEF answers
  <2>6. Kept(tree, AllTold(answers), stale)
    BY <2>4, <2>5, AllToldKept DEF Held
  <2>7. inodes' = AllTold(answers).inodes /\ given' = AllTold(answers).given
    BY <1>2 DEF Tell, answers
  <2>8. Kept(tree, Now', stale)
    BY <2>6, <2>7 DEF Kept, Now
  <2> QED
    BY <1>2, <2>8 DEF Held
<1> QED
  BY <1>1, <1>2 DEF Readdir

(* The end of mkdir, create, symlink and link *)
LEMMA InsertHeld ==
    ASSUME Held, NEW m \in Mounts, NEW pi \in Usable(m, {"dir"}), NEW n \in Names,
           NEW node, node.to \in Target,
           \A q \in DOMAIN tree : tree[q].id = node.id => tree[q] = node,
           NEW inos,
           Insert(m, Entry(m, pi, n), Dir(m, pi), node, inos),
           misled' \in BOOLEAN, ~misled', Uses(m, {pi})
    PROVE  Held'
<1> DEFINE rel == Entry(m, pi, n)
           P == <<m>> \o PathOf(m, pi)
           grown == Put(tree, Append(P, n), node)
<1>1. /\ PathOf(m, pi) \in Rel
      /\ Dir(m, pi).at = P /\ (Dir(m, pi).st = "ok" => P \in DOMAIN tree)
  BY UsesDirect, DirIsDirect
<1>2. rel \in Rel /\ rel[Len(rel)] = n /\ <<m>> \o rel = Append(P, n)
  BY <1>1, BelowAppend, MountIsRoot DEF Entry
<1>3. /\ P \in DOMAIN tree /\ tree[P].t = "dir" /\ Append(P, n) \notin DOMAIN tree
      /\ tree' = grown /\ AnswerEntry(grown, m, rel, inos) /\ UNCHANGED stale
  BY <1>1, <1>2 DEF Insert, IsDir
<1>4. WellFormed(grown)
  BY <1>3, PutTree DEF Held
<1>5. \A p \in DOMAIN tree : p \in DOMAIN grown /\ grown[p] = tree[p]
  BY <1>3 DEF Put
<1>6. <<m>> \o rel \in DOMAIN grown
  BY <1>2 DEF Put
<1> HIDE DEF grown, rel
<1>7. Kept(grown, Now, stale)
  BY <1>5, KeptGrows DEF Held
<1>8. SameObject(grown)
  BY PutSame DEF Held, grown
<1>9. Origin(grown)
  <2>1. Len(Append(P, n)) > 1 /\ Append(P, n)[1] = m
    <3>1. /\ <<m>> \o rel \in Path /\ Len(<<m>> \o rel) = Len(rel) + 1 /\ (<<m>> \o rel)[1] = m
      BY <1>2, Below, MountIsRoot
    <3>2. Len(rel) \in Nat /\ rel # << >> /\ Len(rel) >= 1
      <4>1. rel # << >>
        BY <1>1, BelowAppend, MountIsRoot DEF Entry, rel
      <4> QED
        BY <1>2, <4>1 DEF Rel
    <3> QED
      BY <1>2, <3>1, <3>2
  <2> QED
    BY <2>1, PutOrigin DEF Held, grown
<1>10. Kept(grown, Now', stale)
  BY <1>2, <1>3, <1>4, <1>6, <1>7, <1>9, AnswerKept, OriginTame
<1> QED
  BY <1>3, <1>4, <1>8, <1>9, <1>10 DEF Held

(* A new object is none that is there. *)
LEMMA NewObject ==
    ASSUME FreeIds # {}
    PROVE  \A p \in DOMAIN tree : tree[p].id # NewId
<1>1. FreeIds \in SUBSET Nat
  BY DEF FreeIds
<1>2. \E id \in FreeIds : \A k \in FreeIds : id <= k
  BY <1>1, LeastNatural
<1>3. NewId \in FreeIds
  BY <1>2 DEF NewId
<1> QED
  BY <1>3 DEF FreeIds

LEMMA MakeHeld ==
    ASSUME Held, NEW m \in Mounts, NEW pi \in Usable(m, {"dir"}), NEW n \in Names,
           NEW t, NEW to \in Target,
           Make(m, pi, n, t, to), misled' \in BOOLEAN, ~misled'
    PROVE  Held'
<1> DEFINE node == Node(t, NewId, to)
<1>1. node.to = to /\ node.t = t /\ node.id = NewId
  BY DEF Node
<1>2. CASE Hang(Dir(m, pi), {pi}, Place(m, pi))
  BY <1>2, HangHeld
<1>3. CASE /\ FreeIds # {}
           /\ Insert(m, Entry(m, pi, n), Dir(m, pi), node, {pi})
           /\ Uses(m, {pi})
  <2>1. \A q \in DOMAIN tree : tree[q].id = node.id => tree[q] = node
    BY <1>1, <1>3, NewObject
  <2> HIDE DEF node
  <2> QED
    BY <1>1, <1>3, <2>1, InsertHeld
<1> QED
  BY <1>2, <1>3 DEF Make

LEMMA LinkHeld ==
    ASSUME Held, NEW m \in Mounts, NEW pi \in Usable(m, {"dir"}), NEW n \in Names,
           NEW ino, Link(m, ino, pi, n), misled' \in BOOLEAN, ~misled'
    PROVE  Held'
<1> DEFINE old == At(tree, m, PathOf(m, ino), FALSE)
<1>1. ASSUME NEW p \in DOMAIN tree
      PROVE  /\ tree[p].to \in Target
             /\ \A q \in DOMAIN tree : tree[q].id = tree[p].id => tree[q] = tree[p]
  BY DEF Held, WellFormed, SameObject
<1>2. CASE /\ old.at \in DOMAIN tree
           /\ Insert(m, Entry(m, pi, n), Dir(m, pi), tree[old.at], {ino, pi})
           /\ Uses(m, {pi})
  <2> HIDE DEF old
  <2> QED
    BY <1>1, <1>2, InsertHeld
<1>3. CASE Hang(old, {ino}, Place(m, ino)) \/ Hang(Dir(m, pi), {pi}, Place(m, pi))
  BY <1>3, HangHeld
<1> QED
  BY <1>2, <1>3 DEF Link

(* unlink and rmdir: the number goes with the name. *)
LEMMA DropHeld ==
    ASSUME Held, NEW m \in Mounts, NEW pi \in Usable(m, {"dir"}), NEW n \in Names,
           NEW isdir, Drop(m, pi, n, isdir), misled' \in BOOLEAN, ~misled'
    PROVE  Held'
<1> DEFINE rel == Entry(m, pi, n)
           P == <<m>> \o rel
<1>1. CASE Hang(Dir(m, pi), {pi}, Place(m, pi))
  BY <1>1, HangHeld
<1>2. ASSUME LookedUp(m, rel), NEW p, p = Append(Dir(m, pi).at, n),
             Dir(m, pi).st = "ok", p \in DOMAIN tree, Children(tree, p) = {},
             tree' = Remove(tree, p),
             inodes' = [inodes EXCEPT ![m] = Forgets(m, rel, tree[p].t)],
             Uses(m, {pi}), UNCHANGED <<given, stale>>
      PROVE  Held'
  <2>1. PathOf(m, pi) \in Rel /\ Dir(m, pi).at = <<m>> \o PathOf(m, pi)
    BY <1>2, UsesDirect, DirIsDirect
  <2>2. rel \in Rel /\ p = P
    BY <1>2, <2>1, BelowAppend, MountIsRoot DEF Entry
  <2>3. WellFormed(tree') /\ SameObject(tree') /\ Origin(tree')
    <3>1. WellFormed(tree')
      BY <1>2, RemoveTree DEF Held
    <3>2. \A q \in DOMAIN tree' : q \in DOMAIN tree /\ tree'[q] = tree[q]
      BY <1>2 DEF Remove
    <3> QED
      BY <3>1, <3>2, NodesOf, OriginNodesOf DEF Held
  <2> DEFINE tbl == inodes[m]
             new == forget_path(tbl, rel)
             gone == tbl.by_path[rel]
  <2>4. Table(tbl) /\ StandAll(tree, m, tbl, given[m], stale[m])
    BY NumberFields
  <2>5. rel \in DOMAIN tbl.by_path
    BY <1>2 DEF LookedUp
  <2>6. /\ new.by_ino = Remove(tbl.by_ino, gone)
        /\ new.by_path = Remove(tbl.by_path, rel)
        /\ new.next = tbl.next
    BY <2>5 DEF forget_path
  <2>7. inodes' = [inodes EXCEPT ![m] = new]
    BY <1>2 DEF Forgets
  <2> HIDE DEF tbl, new, rel
  <2>8. Table(new)
    <3>1. gone \in DOMAIN tbl.by_ino /\ tbl.by_ino[gone] = rel
      BY <2>4, <2>5 DEF Table
    <3>2. TableType(new, Rel)
      BY <2>4, <2>6 DEF Table, TableType, Remove
    <3>3. \A q \in DOMAIN new.by_path :
             new.by_path[q] \in DOMAIN new.by_ino /\ new.by_ino[new.by_path[q]] = q
      BY <2>4, <2>6, <3>1 DEF Table, Remove
    <3>4. \A i \in DOMAIN new.by_ino : i < new.next
      BY <2>4, <2>6 DEF Table, Remove
    <3> QED
      BY <3>2, <3>3, <3>4 DEF Table
  <2>9. ASSUME NEW i \in DOMAIN given[m], i \notin stale[m]
        PROVE  Stands(tree', m, new, given[m][i], i)
    <3>1. Stands(tree, m, tbl, given[m][i], i)
      BY <2>4, <2>9 DEF StandAll
    <3>2. CASE i \notin DOMAIN new.by_ino
      BY <3>1, <3>2 DEF Stands
    <3>3. CASE i \in DOMAIN new.by_ino
      <4> DEFINE r == tbl.by_ino[i]
      <4>1. i \in DOMAIN tbl.by_ino /\ i # gone /\ new.by_ino[i] = r
        BY <2>6, <3>3 DEF Remove
      <4>2. r \in DOMAIN tbl.by_path /\ tbl.by_path[r] = i /\ r # rel /\ r \in Rel
        BY <2>4, <3>1, <4>1 DEF Stands, Table, TableType
      <4>3. r \in DOMAIN new.by_path /\ new.by_path[r] = i
        BY <2>6, <4>2 DEF Remove
      <4> HIDE DEF r
      <4>4. <<m>> \o r # p
        BY <2>2, <4>2, SameBelow, MountIsRoot
      <4>5. \A g \in given[m][i] : Truth(tree', m, r, g)
        BY <1>2, <3>1, <4>1, <4>4 DEF Stands, Truth, Remove, r
      <4> QED
        BY <3>1, <4>1, <4>3, <4>5 DEF Stands
    <3> QED
      BY <3>2, <3>3
  <2>10. StandAll(tree', m, new, given[m], stale[m])
    BY <2>4, <2>6, <2>9 DEF StandAll
  <2>11. ASSUME NEW o \in Mounts, o # m
         PROVE  Table(inodes[o]) /\ StandAll(tree', o, inodes[o], given[o], stale[o])
    <3>1. Table(inodes[o]) /\ StandAll(tree, o, inodes[o], given[o], stale[o])
      BY NumberFields
    <3>2. \A r \in Rel : <<o>> \o r # p
      BY <2>2, <2>11, Below, MountIsRoot
    <3>3. \A r \in Rel : \A g : Truth(tree, o, r, g) => Truth(tree', o, r, g)
      BY <1>2, <3>2 DEF Truth, Remove
    <3>4. \A i \in DOMAIN inodes[o].by_ino : inodes[o].by_ino[i] \in Rel
      BY <3>1 DEF Table, TableType
    <3>5. \A i, objs : Stands(tree, o, inodes[o], objs, i) => Stands(tree', o, inodes[o], objs, i)
      BY <3>3, <3>4 DEF Stands
    <3> QED
      BY <3>1, <3>5 DEF StandAll
  <2>12. DOMAIN inodes = Mounts /\ DOMAIN given = Mounts /\ DOMAIN stale = Mounts
    BY DEF Held, Kept, Now
  <2>13. Kept(tree', Now', stale)
    BY <1>2, <2>7, <2>8, <2>10, <2>11, <2>12 DEF Kept, Now
  <2> QED
    BY <1>2, <2>3, <2>12, <2>13 DEF Held
<1> QED
  BY <1>1, <1>2 DEF Drop

-----------------------------------------------------------------------------
(* rename *)

(* Where renameat takes a path below `from` *)
Carried(from, to, p) == to \o SubSeq(p, Len(from) + 1, Len(p))

LEMMA CarriedPath ==
    ASSUME NEW from \in Path, NEW to \in Path, NEW p \in Path, Len(from) <= Len(p)
    PROVE  /\ Carried(from, to, p) \in Path
           /\ Len(Carried(from, to, p)) = Len(to) + Len(p) - Len(from)
           /\ \A i \in 1..Len(to) : Carried(from, to, p)[i] = to[i]
           /\ \A i \in (Len(to) + 1)..(Len(to) + Len(p) - Len(from)) :
                 Carried(from, to, p)[i] = p[i - Len(to) + Len(from)]
<1> DEFINE S == Roots \cup Names
           rest == SubSeq(p, Len(from) + 1, Len(p))
<1>1. /\ from \in Seq(S) /\ to \in Seq(S) /\ p \in Seq(S)
      /\ Len(from) \in Nat /\ Len(to) \in Nat /\ Len(p) \in Nat
  BY DEF Path
<1> HIDE DEF S
<1>2. /\ rest \in Seq(S) /\ Len(rest) = Len(p) - Len(from)
      /\ \A i \in 1..(Len(p) - Len(from)) : rest[i] = p[Len(from) + i]
  BY <1>1
<1> HIDE DEF rest
<1>3. /\ to \o rest \in Seq(S) /\ Len(to \o rest) = Len(to) + Len(rest)
      /\ \A i \in 1..(Len(to) + Len(rest)) :
            (to \o rest)[i] = IF i <= Len(to) THEN to[i] ELSE rest[i - Len(to)]
  BY <1>1, <1>2, ConcatProperties
<1>4. Carried(from, to, p) = to \o rest
  BY DEF Carried, rest
<1>5. \A i \in (Len(to) + 1)..(Len(to) + Len(p) - Len(from)) :
         (to \o rest)[i] = p[i - Len(to) + Len(from)]
  <2> SUFFICES ASSUME NEW i \in (Len(to) + 1)..(Len(to) + Len(p) - Len(from))
               PROVE  (to \o rest)[i] = p[i - Len(to) + Len(from)]
    OBVIOUS
  <2>1. /\ i \in 1..(Len(to) + Len(rest)) /\ ~(i <= Len(to))
        /\ i - Len(to) \in 1..(Len(p) - Len(from))
        /\ Len(from) + (i - Len(to)) = i - Len(to) + Len(from)
    BY <1>1, <1>2
  <2> QED
    BY <1>2, <1>3, <2>1
<1>6. /\ Len(to \o rest) = Len(to) + Len(p) - Len(from)
      /\ \A i \in 1..Len(to) : (to \o rest)[i] = to[i]
  BY <1>1, <1>2, <1>3
<1> QED
  BY <1>3, <1>4, <1>5, <1>6 DEF Path, S

LEMMA CarriedBack ==
    ASSUME NEW from \in Path, NEW to \in Path, NEW p \in Path, starts_with(p, from)
    PROVE  /\ Carried(to, from, Carried(from, to, p)) = p
           /\ starts_with(Carried(from, to, p), to)
<1> DEFINE S == Roots \cup Names
           q == Carried(from, to, p)
           b == Carried(to, from, q)
<1>1. /\ from \in Seq(S) /\ to \in Seq(S) /\ p \in Seq(S)
      /\ Len(from) \in Nat /\ Len(to) \in Nat /\ Len(p) \in Nat
  BY DEF Path
<1>2. Len(from) <= Len(p) /\ \A i \in 1..Len(from) : p[i] = from[i]
  BY <1>1, StartsWith
<1>3. /\ q \in Path /\ Len(q) = Len(to) + Len(p) - Len(from)
      /\ \A i \in 1..Len(to) : q[i] = to[i]
      /\ \A i \in (Len(to) + 1)..(Len(to) + Len(p) - Len(from)) : q[i] = p[i - Len(to) + Len(from)]
  BY <1>2, CarriedPath
<1> HIDE DEF q
<1>4. Len(to) <= Len(q)
  BY <1>1, <1>2, <1>3
<1>5. /\ b \in Path /\ Len(b) = Len(from) + Len(q) - Len(to)
      /\ \A i \in 1..Len(from) : b[i] = from[i]
      /\ \A i \in (Len(from) + 1)..(Len(from) + Len(q) - Len(to)) : b[i] = q[i - Len(from) + Len(to)]
  <2>1. q \in Path /\ Len(to) <= Len(q)
    BY <1>3, <1>4
  <2> QED
    BY ONLY from \in Path, to \in Path, <2>1, CarriedPath DEF b
<1> HIDE DEF b
<1>6. Len(b) = Len(p)
  BY <1>1, <1>3, <1>5
<1>7. ASSUME NEW i \in 1..Len(p) PROVE b[i] = p[i]
  <2>1. CASE i <= Len(from)
    BY <1>1, <1>2, <1>5, <2>1
  <2>2. CASE ~(i <= Len(from))
    <3> DEFINE j == i - Len(from) + Len(to)
    <3>1. /\ i \in (Len(from) + 1)..(Len(from) + Len(q) - Len(to))
          /\ j \in (Len(to) + 1)..(Len(to) + Len(p) - Len(from))
          /\ j - Len(to) + Len(from) = i
      BY <1>1, <1>2, <1>3, <2>2
    <3>2. b[i] = q[j]
      BY <1>5, <3>1
    <3>3. q[j] = p[j - Len(to) + Len(from)]
      BY <1>3, <3>1
    <3> QED
      BY <3>1, <3>2, <3>3
  <2> QED
    BY <2>1, <2>2
<1>8. b = p
  BY <1>1, <1>5, <1>6, <1>7, SeqEqual DEF Path
<1>9. starts_with(q, to)
  <2>1. q \in Seq(S) /\ to \in Seq(S)
    BY <1>1, <1>3 DEF Path
  <2> QED
    BY <1>3, <1>4, <2>1, StartsWith
<1> QED
  BY <1>8, <1>9 DEF b, q

LEMMA StartsWithTransitive ==
    ASSUME NEW p \in Path, NEW k \in 0..Len(p), NEW q \in Path, starts_with(SubSeq(p, 1, k), q)
    PROVE  starts_with(p, q)
<1>1. p \in Seq(Roots \cup Names) /\ q \in Seq(Roots \cup Names) /\ Len(p) \in Nat /\ Len(q) \in Nat
  BY DEF Path
<1>2. /\ SubSeq(p, 1, k) \in Seq(Roots \cup Names) /\ Len(SubSeq(p, 1, k)) = k
      /\ \A i \in 1..k : SubSeq(p, 1, k)[i] = p[i]
  BY <1>1, Cut
<1>3. Len(q) <= k /\ \A i \in 1..Len(q) : SubSeq(p, 1, k)[i] = q[i]
  BY <1>1, <1>2, StartsWith
<1>4. Len(q) <= Len(p) /\ \A i \in 1..Len(q) : p[i] = q[i]
  BY <1>1, <1>2, <1>3
<1> QED
  BY <1>1, <1>4, StartsWith

(* What renameat may do here: `to` is a name in a directory. *)
MayMove(from, to) ==
    /\ WellFormed(tree) /\ CanMove(from, to)
    /\ from # to
    /\ \E e \in DOMAIN tree, n \in Names : tree[e].t = "dir" /\ to = Append(e, n)

LEMMA MoveFacts ==
    ASSUME NEW from, NEW to, MayMove(from, to)
    PROVE  /\ from \in DOMAIN tree /\ from \in Path /\ Len(from) >= 1
           /\ to \in Path /\ Len(to) > 1 /\ to[1] \in Roots
           /\ \A k \in 2..Len(to) : to[k] \in Names
           /\ \A k \in 1..(Len(to) - 1) : /\ SubSeq(to, 1, k) \in DOMAIN tree
                                          /\ tree[SubSeq(to, 1, k)].t = "dir"
           /\ ~starts_with(to, from)
           /\ \A q \in DOMAIN tree : starts_with(q, to) => q = to
<1>0. WellFormed(tree) /\ from \in DOMAIN tree /\ ~starts_with(to, from)
  BY DEF MayMove, CanMove
<1>1. PICK e \in DOMAIN tree, n \in Names : tree[e].t = "dir" /\ to = Append(e, n)
  BY DEF MayMove
<1>2. /\ e \in Seq(Roots \cup Names) /\ Len(e) \in Nat /\ Len(e) >= 1 /\ e[1] \in Roots
      /\ \A k \in 2..Len(e) : e[k] \in Names
  BY <1>0 DEF WellFormed
<1>3. /\ to \in Seq(Roots \cup Names) /\ Len(to) = Len(e) + 1 /\ to[Len(e) + 1] = n
      /\ \A k \in 1..Len(e) : to[k] = e[k]
  BY <1>1, <1>2
<1>4. \A k \in 2..Len(to) : to[k] \in Names
  <2> SUFFICES ASSUME NEW k \in 2..Len(to) PROVE to[k] \in Names
    OBVIOUS
  <2>1. k = Len(e) + 1 \/ k \in 2..Len(e)
    BY <1>2, <1>3
  <2> QED
    BY <1>2, <1>3, <2>1
<1>5. \A k \in 1..(Len(to) - 1) : SubSeq(to, 1, k) \in DOMAIN tree /\ tree[SubSeq(to, 1, k)].t = "dir"
  <2> SUFFICES ASSUME NEW k \in 1..(Len(to) - 1)
               PROVE  SubSeq(to, 1, k) \in DOMAIN tree /\ tree[SubSeq(to, 1, k)].t = "dir"
    OBVIOUS
  <2>0. k \in 1..Len(e) /\ k \in 0..Len(e)
    BY <1>2, <1>3
  <2>1. SubSeq(to, 1, k) = SubSeq(e, 1, k)
    BY <1>1, <1>2, <2>0, CutOfAppend
  <2>2. CASE k = Len(e)
    BY <1>1, <1>2, <2>1, <2>2, WholeCut
  <2>3. CASE k # Len(e)
    <3>1. k \in 1..(Len(e) - 1)
      BY <1>2, <2>0, <2>3
    <3> QED
      BY <1>0, <2>1, <3>1, Above
  <2> QED
    BY <2>2, <2>3
<1>6. ASSUME NEW q \in DOMAIN tree, starts_with(q, to) PROVE q = to
  <2>0. q \in Seq(Roots \cup Names) /\ Len(q) \in Nat
    BY <1>0 DEF WellFormed
  <2>1. Len(to) <= Len(q) /\ SubSeq(q, 1, Len(to)) = to
    BY <1>6 DEF starts_with
  <2>2. CASE Len(to) = Len(q)
    BY <2>0, <2>1, <2>2, WholeCut
  <2>3. CASE Len(to) # Len(q)
    <3>1. Len(to) \in 1..(Len(q) - 1)
      BY <1>2, <1>3, <2>0, <2>1, <2>3
    <3>2. to \in DOMAIN tree /\ Children(tree, to) # {}
      BY <1>0, <2>1, <3>1, Above, HasChild
    <3> QED
      BY <3>2 DEF MayMove, CanMove
  <2> QED
    BY <2>2, <2>3
<1>7. from \in Path /\ Len(from) >= 1
  BY <1>0, SplitBelow
<1>8. to[1] \in Roots /\ Len(to) > 1 /\ to \in Path
  BY <1>2, <1>3 DEF Path
<1> QED
  BY <1>0, <1>4, <1>5, <1>6, <1>7, <1>8

(* The nodes below `from` are carried to `to`; the others stay. *)
LEMMA MovedNodes ==
    ASSUME NEW from, NEW to, MayMove(from, to)
    PROVE  /\ \A q \in DOMAIN tree : ~starts_with(q, from) /\ q # to
                 => q \in DOMAIN Moved(from, to) /\ Moved(from, to)[q] = tree[q]
           /\ \A q \in DOMAIN tree : starts_with(q, from)
                 => /\ Carried(from, to, q) \in DOMAIN Moved(from, to)
                    /\ Moved(from, to)[Carried(from, to, q)] = tree[q]
           /\ \A q \in DOMAIN Moved(from, to) :
                 \/ q \in DOMAIN tree /\ ~starts_with(q, from) /\ q # to
                 \/ \E r \in DOMAIN tree : starts_with(r, from) /\ q = Carried(from, to, r)
<1> DEFINE u == Moved(from, to)
           stay == {q \in DOMAIN tree : ~starts_with(q, from)}
           go == {q \in DOMAIN tree : starts_with(q, from)}
<1>1. /\ from \in DOMAIN tree /\ from \in Path /\ to \in Path
      /\ \A q \in DOMAIN tree : starts_with(q, to) => q = to
  BY MoveFacts
<1>2. \A q \in DOMAIN tree : q \in Path
  BY SplitBelow DEF MayMove
<1>3. u = [p \in stay \cup {Carried(from, to, q) : q \in go} |->
             IF starts_with(p, to) THEN tree[Carried(to, from, p)] ELSE tree[p]]
  BY DEF Moved, Carried
<1>4. from \in go /\ Carried(from, to, from) = to
  <2>1. from \in Seq(Roots \cup Names) /\ to \in Seq(Roots \cup Names)
    BY <1>1 DEF Path
  <2>2. starts_with(from, from)
    BY <2>1, StartsWith
  <2>3. /\ Carried(from, to, from) \in Path /\ Len(Carried(from, to, from)) = Len(to) + Len(from) - Len(from)
        /\ \A i \in 1..Len(to) : Carried(from, to, from)[i] = to[i]
    BY <1>1, <2>1, CarriedPath
  <2>4. Len(Carried(from, to, from)) = Len(to)
    BY <2>1, <2>3
  <2> QED
    BY <1>1, <2>1, <2>2, <2>3, <2>4, SeqEqual DEF Path
<1> HIDE DEF u
<1>5. ASSUME NEW q \in stay, q # to PROVE q \in DOMAIN u /\ u[q] = tree[q]
  BY <1>1, <1>3, <1>5
<1>6. ASSUME NEW q \in go PROVE Carried(from, to, q) \in DOMAIN u /\ u[Carried(from, to, q)] = tree[q]
  <2>1. Carried(to, from, Carried(from, to, q)) = q /\ starts_with(Carried(from, to, q), to)
    BY <1>1, <1>2, CarriedBack
  <2> QED
    BY <1>3, <2>1
<1>7. ASSUME NEW q \in DOMAIN u
      PROVE  \/ q \in stay /\ q # to
             \/ \E r \in go : q = Carried(from, to, r)
  BY <1>3, <1>4
<1> QED
  BY <1>5, <1>6, <1>7 DEF u

LEMMA MovedTree ==
    ASSUME NEW from, NEW to, MayMove(from, to)
    PROVE  WellFormed(Moved(from, to))
<1> DEFINE u == Moved(from, to)
<1>0. WellFormed(tree)
  BY DEF MayMove
<1>1. /\ from \in DOMAIN tree /\ from \in Path /\ Len(from) >= 1
      /\ to \in Path /\ Len(to) > 1 /\ to[1] \in Roots
      /\ \A k \in 2..Len(to) : to[k] \in Names
      /\ \A k \in 1..(Len(to) - 1) : SubSeq(to, 1, k) \in DOMAIN tree /\ tree[SubSeq(to, 1, k)].t = "dir"
      /\ ~starts_with(to, from)
      /\ \A q \in DOMAIN tree : starts_with(q, to) => q = to
  BY MoveFacts
<1>2. /\ Len(from) \in Nat /\ Len(to) \in Nat /\ to \in Seq(Roots \cup Names) /\ from \in Seq(Roots \cup Names)
  BY <1>1 DEF Path
<1>3. \A q \in DOMAIN tree : ~starts_with(q, from) /\ q # to => q \in DOMAIN u /\ u[q] = tree[q]
  BY MovedNodes
<1>4. \A q \in DOMAIN tree : starts_with(q, from)
         => Carried(from, to, q) \in DOMAIN u /\ u[Carried(from, to, q)] = tree[q]
  BY MovedNodes
<1>5. \A q \in DOMAIN u :
         \/ q \in DOMAIN tree /\ ~starts_with(q, from) /\ q # to
         \/ \E r \in DOMAIN tree : starts_with(r, from) /\ q = Carried(from, to, r)
  BY MovedNodes
<1> HIDE DEF u
<1> SUFFICES WellFormed(u)
  BY DEF u
<1> SUFFICES ASSUME NEW q \in DOMAIN u
             PROVE  /\ q \in Seq(Roots \cup Names) /\ q # << >> /\ q[1] \in Roots
                    /\ \A k \in 2..Len(q) : q[k] \in Names
                    /\ \A k \in 1..(Len(q) - 1) : /\ SubSeq(q, 1, k) \in DOMAIN u
                                                  /\ u[SubSeq(q, 1, k)].t = "dir"
                    /\ u[q].to \in Target
  BY DEF WellFormed
<1>6. CASE q \in DOMAIN tree /\ ~starts_with(q, from) /\ q # to
  <2>0. q \in Path /\ Len(q) \in Nat /\ q \in Seq(Roots \cup Names)
    BY <1>0, <1>6 DEF WellFormed, Path
  <2>1. ASSUME NEW k \in 1..(Len(q) - 1)
        PROVE  SubSeq(q, 1, k) \in DOMAIN u /\ u[SubSeq(q, 1, k)].t = "dir"
    <3> DEFINE s == SubSeq(q, 1, k)
    <3>0. k \in 0..Len(q) /\ Len(s) = k /\ k <= Len(q)
      BY <2>0
    <3>1. s \in DOMAIN tree /\ tree[s].t = "dir"
      BY <1>0, <1>6, Above
    <3>2. ~starts_with(s, from)
      BY <1>1, <1>6, <2>0, <3>0, StartsWithTransitive
    <3>3. s # to
      <4>1. SUFFICES ASSUME s = to PROVE FALSE
        OBVIOUS
      <4>2. starts_with(q, to)
        BY <3>0, <4>1 DEF starts_with
      <4> QED
        BY <1>1, <1>6, <4>2
    <3> QED
      BY <1>3, <3>1, <3>2, <3>3
  <2>2. u[q] = tree[q]
    BY <1>3, <1>6
  <2> QED
    BY <1>0, <1>6, <2>1, <2>2 DEF WellFormed
<1>7. ASSUME NEW r \in DOMAIN tree, starts_with(r, from), q = Carried(from, to, r)
      PROVE  /\ q \in Seq(Roots \cup Names) /\ q # << >> /\ q[1] \in Roots
             /\ \A k \in 2..Len(q) : q[k] \in Names
             /\ \A k \in 1..(Len(q) - 1) : /\ SubSeq(q, 1, k) \in DOMAIN u
                                           /\ u[SubSeq(q, 1, k)].t = "dir"
             /\ u[q].to \in Target
  <2>0. /\ r \in Path /\ r \in Seq(Roots \cup Names) /\ Len(r) \in Nat
        /\ \A k \in 2..Len(r) : r[k] \in Names
        /\ tree[r].to \in Target
    BY <1>0, <1>7 DEF WellFormed, Path
  <2>1. Len(from) <= Len(r) /\ \A i \in 1..Len(from) : r[i] = from[i]
    BY <1>2, <1>7, <2>0, StartsWith
  <2>2. /\ q \in Path /\ Len(q) = Len(to) + Len(r) - Len(from)
        /\ \A i \in 1..Len(to) : q[i] = to[i]
        /\ \A i \in (Len(to) + 1)..(Len(to) + Len(r) - Len(from)) : q[i] = r[i - Len(to) + Len(from)]
    <3>1. from \in Path /\ to \in Path /\ r \in Path /\ Len(from) <= Len(r)
      BY <1>1, <2>0, <2>1
    <3> DEFINE c == Carried(from, to, r)
    <3>2. /\ c \in Path /\ Len(c) = Len(to) + Len(r) - Len(from)
          /\ \A i \in 1..Len(to) : c[i] = to[i]
          /\ \A i \in (Len(to) + 1)..(Len(to) + Len(r) - Len(from)) : c[i] = r[i - Len(to) + Len(from)]
      BY <3>1, CarriedPath
    <3> HIDE DEF c
    <3>3. q = c
      BY <1>7 DEF c
    <3> QED
      BY <3>2, <3>3
  <2>3. q \in Seq(Roots \cup Names) /\ Len(q) \in Nat /\ Len(q) >= Len(to) /\ q # << >> /\ q[1] \in Roots
    <3>1. q \in Seq(Roots \cup Names) /\ Len(q) \in Nat
      BY <2>2 DEF Path
    <3>2. Len(q) >= Len(to) /\ Len(to) > 1
      BY <1>1, <1>2, <2>0, <2>1, <2>2
    <3>3. 1 \in 1..Len(to)
      BY <1>2, <3>2
    <3>4. q[1] = to[1] /\ to[1] \in Roots
      BY <1>1, <2>2, <3>3
    <3>5. q # << >>
      BY <1>2, <3>1, <3>2
    <3> QED
      BY <3>1, <3>2, <3>4, <3>5
  <2>4. ASSUME NEW k \in 2..Len(q) PROVE q[k] \in Names
    <3>1. CASE k <= Len(to)
      BY <1>1, <1>2, <2>2, <3>1
    <3>2. CASE ~(k <= Len(to))
      <4>1. /\ k \in (Len(to) + 1)..(Len(to) + Len(r) - Len(from))
            /\ k - Len(to) + Len(from) \in 2..Len(r)
        BY <1>1, <1>2, <2>0, <2>1, <2>2, <3>2
      <4> QED
        BY <2>0, <2>2, <4>1
    <3> QED
      BY <3>1, <3>2
  <2>5. ASSUME NEW k \in 1..(Len(q) - 1)
        PROVE  SubSeq(q, 1, k) \in DOMAIN u /\ u[SubSeq(q, 1, k)].t = "dir"
    <3> DEFINE s == SubSeq(q, 1, k)
    <3>0. k \in 0..Len(q) /\ s \in Seq(Roots \cup Names) /\ Len(s) = k /\ \A i \in 1..k : s[i] = q[i]
      <4>1. k \in 0..Len(q)
        BY <2>3
      <4> QED
        BY <2>3, <4>1, Cut
    <3> HIDE DEF s
    <3>1. CASE k < Len(to)
      <4> DEFINE a == SubSeq(to, 1, k)
      <4>0. k \in 1..(Len(to) - 1) /\ k \in 0..Len(to)
        BY <1>2, <3>1
      <4>1. a \in Seq(Roots \cup Names) /\ Len(a) = k /\ \A i \in 1..k : a[i] = to[i]
        BY <1>2, <4>0, Cut
      <4>2. a \in DOMAIN tree /\ tree[a].t = "dir"
        BY <1>1, <4>0
      <4>3. ~starts_with(a, from)
        BY <1>1, <4>0, StartsWithTransitive
      <4>4. a # to
        BY <3>1, <4>1
      <4> HIDE DEF a
      <4>5. s = a
        <5>1. \A i \in 1..k : s[i] = a[i]
          <6> SUFFICES ASSUME NEW i \in 1..k PROVE s[i] = a[i]
            OBVIOUS
          <6>1. i \in 1..Len(to)
            BY <1>2, <3>1
          <6>2. q[i] = to[i]
            BY <2>2, <6>1
          <6> QED
            BY <3>0, <4>1, <6>2
        <5> QED
          BY <3>0, <4>1, <5>1, SeqEqual
      <4> QED
        BY <1>3, <4>2, <4>3, <4>4, <4>5 DEF s
    <3>2. CASE ~(k < Len(to))
      <4> DEFINE j == Len(from) + k - Len(to)
                 a == SubSeq(r, 1, j)
                 c == Carried(from, to, a)
      <4>0. j \in 1..(Len(r) - 1) /\ j \in 0..Len(r) /\ Len(from) <= j /\ j \in Nat
        BY <1>1, <1>2, <2>0, <2>1, <2>2, <3>2
      <4>a. j = Len(from) + k - Len(to)
        OBVIOUS
      <4> HIDE DEF j
      <4>1. a \in Seq(Roots \cup Names) /\ Len(a) = j /\ \A i \in 1..j : a[i] = r[i]
        BY <2>0, <4>0, Cut
      <4>2. a \in DOMAIN tree /\ tree[a].t = "dir"
        BY <1>0, <1>7, <4>0, Above
      <4>3. starts_with(a, from)
        <5>1. \A i \in 1..Len(from) : a[i] = from[i]
          BY <1>2, <2>1, <4>0, <4>1
        <5> QED
          BY <1>2, <4>0, <4>1, <5>1, StartsWith
      <4>4. a \in Path /\ Len(from) <= Len(a)
        BY <4>0, <4>1 DEF Path
      <4> HIDE DEF a
      <4>5. /\ c \in Path /\ Len(c) = Len(to) + Len(a) - Len(from)
            /\ \A i \in 1..Len(to) : c[i] = to[i]
            /\ \A i \in (Len(to) + 1)..(Len(to) + Len(a) - Len(from)) : c[i] = a[i - Len(to) + Len(from)]
        BY <1>1, <4>4, CarriedPath
      <4>6. c \in DOMAIN u /\ u[c].t = "dir"
        BY <1>4, <4>2, <4>3
      <4> HIDE DEF c
      <4>7. Len(c) = k /\ c \in Seq(Roots \cup Names)
        <5>1. Len(c) = Len(to) + j - Len(from) /\ c \in Seq(Roots \cup Names)
          BY <4>1, <4>5 DEF Path
        <5>2. k \in Nat /\ Len(from) \in Nat /\ Len(to) \in Nat
          BY <1>2, <2>2
        <5> QED
          BY ONLY <4>a, <5>1, <5>2
      <4>8. ASSUME NEW i \in 1..k PROVE s[i] = c[i]
        <5>1. CASE i <= Len(to)
          <6>1. i \in 1..Len(to)
            BY <1>2, <5>1
          <6> QED
            BY <2>2, <3>0, <4>5, <6>1
        <5>2. CASE ~(i <= Len(to))
          <6> DEFINE x == i - Len(to) + Len(from)
          <6>1. /\ i \in (Len(to) + 1)..(Len(to) + Len(r) - Len(from))
                /\ i \in (Len(to) + 1)..(Len(to) + Len(a) - Len(from))
                /\ x \in 1..j
            BY <1>1, <1>2, <2>0, <2>1, <2>2, <4>0, <4>a, <4>1, <5>2
          <6>2. q[i] = r[x] /\ c[i] = a[x] /\ a[x] = r[x] /\ s[i] = q[i]
            BY <2>2, <3>0, <4>1, <4>5, <6>1
          <6> QED
            BY <6>2
        <5> QED
          BY <5>1, <5>2
      <4>9. s = c
        BY <3>0, <4>7, <4>8, SeqEqual
      <4> QED
        BY <4>6, <4>9 DEF s
    <3> QED
      BY <3>1, <3>2 DEF s
  <2>6. u[q].to \in Target
    BY <1>4, <1>7, <2>0
  <2> QED
    BY <2>3, <2>4, <2>5, <2>6
<1> QED
  BY <1>5, <1>6, <1>7

(* rename moves the number of the name along with the node.  Numbers that keep a
   path which no longer leads to their object become stale; every other number is
   neither below the old name nor at the new one. *)
LEMMA MoveHeld ==
    ASSUME Held, NEW m \in Mounts, NEW rel \in Rel, NEW newrel \in Rel, rel # newrel,
           rel \in DOMAIN inodes[m].by_path,
           NEW from, NEW to, from = <<m>> \o rel, to = <<m>> \o newrel, MayMove(from, to),
           Move(m, rel, newrel, from, to)
    PROVE  Held'
<1> DEFINE tbl == inodes[m]
           new == rename(tbl, rel, newrel)
           ino == tbl.by_path[rel]
<1>1. Table(tbl) /\ StandAll(tree, m, tbl, given[m], stale[m])
  BY NumberFields
<1>2. /\ new.by_ino = Put(tbl.by_ino, ino, newrel)
      /\ new.by_path = Put(Remove(Remove(tbl.by_path, rel), newrel), newrel, ino)
      /\ new.next = tbl.next
  BY DEF rename
<1>3. /\ inodes' = [inodes EXCEPT ![m] = new]
      /\ stale' = [stale EXCEPT ![m] = @ \cup LeftBehind(m, rel, newrel)]
      /\ given' = given
      /\ tree' = IF to \in DOMAIN tree /\ tree[to].id = tree[from].id THEN tree ELSE Moved(from, to)
  BY DEF Move
<1>4. ino \in DOMAIN tbl.by_ino /\ tbl.by_ino[ino] = rel /\ ino \in Nat
  BY <1>1 DEF Table, TableType
<1>5. /\ DOMAIN inodes = Mounts /\ DOMAIN given = Mounts /\ DOMAIN stale = Mounts
  BY DEF Held, Kept, Now
<1>6. WellFormed(tree')
  BY <1>3, MovedTree DEF Held
<1>7. /\ \A q \in DOMAIN tree : ~starts_with(q, from) /\ q # to => q \in DOMAIN tree' /\ tree'[q] = tree[q]
      /\ from \in DOMAIN tree /\ to \in DOMAIN tree'
      /\ tree'[to] = tree[from]
  <2>0. from \in DOMAIN tree /\ from \in Path /\ to \in Path
    BY MoveFacts
  <2>1. CASE to \in DOMAIN tree /\ tree[to].id = tree[from].id
    <3>1. tree' = tree
      BY <1>3, <2>1
    <3>2. tree[to] = tree[from]
      BY <2>0, <2>1 DEF Held, SameObject
    <3> QED
      BY <2>0, <2>1, <3>1, <3>2
  <2>2. CASE ~(to \in DOMAIN tree /\ tree[to].id = tree[from].id)
    <3>1. tree' = Moved(from, to)
      BY <1>3, <2>2
    <3>2. starts_with(from, from) /\ Carried(from, to, from) = to
      <4>1. from \in Seq(Roots \cup Names) /\ to \in Seq(Roots \cup Names)
        BY <2>0 DEF Path
      <4>2. SubSeq(from, Len(from) + 1, Len(from)) = << >>
        BY <4>1
      <4> QED
        BY <4>1, <4>2, WholeCut DEF starts_with, Carried
    <3> DEFINE u == Moved(from, to)
    <3>3. \A q \in DOMAIN tree : ~starts_with(q, from) /\ q # to => q \in DOMAIN u /\ u[q] = tree[q]
      BY MovedNodes
    <3>4. Carried(from, to, from) \in DOMAIN u /\ u[Carried(from, to, from)] = tree[from]
      BY <2>0, <3>2, MovedNodes
    <3> HIDE DEF u
    <3>5. tree' = u
      BY <3>1 DEF u
    <3> QED
      BY <2>0, <3>2, <3>3, <3>4, <3>5
  <2> QED
    BY <2>1, <2>2
<1> HIDE DEF tbl, new
<1>8. Table(new)
  <2>1. TableType(new, Rel)
    BY <1>1, <1>2, <1>4 DEF Table, TableType, Put, Remove
  <2>2. \A q \in DOMAIN new.by_path :
           new.by_path[q] \in DOMAIN new.by_ino /\ new.by_ino[new.by_path[q]] = q
    BY <1>1, <1>2, <1>4, SMTT(60) DEF Table, Put, Remove
  <2>3. \A i \in DOMAIN new.by_ino : i < new.next
    BY <1>1, <1>2, <1>4 DEF Table, Put
  <2> QED
    BY <2>1, <2>2, <2>3 DEF Table
<1>9. ASSUME NEW i \in DOMAIN given[m], i \notin stale[m], i \notin LeftBehind(m, rel, newrel)
      PROVE  Stands(tree', m, new, given[m][i], i)
  <2>1. Stands(tree, m, tbl, given[m][i], i)
    BY <1>1, <1>9 DEF StandAll
  <2>2. CASE i = ino
    <3>1. \A g \in given[m][i] : Truth(tree, m, rel, g)
      BY <1>4, <2>1, <2>2 DEF Stands
    <3>2. \A g \in given[m][i] : Truth(tree', m, newrel, g)
      BY <1>7, <3>1 DEF Truth
    <3>3. new.by_ino[i] = newrel /\ newrel \in DOMAIN new.by_path /\ new.by_path[newrel] = i
      BY <1>2, <2>2 DEF Put
    <3> QED
      BY <2>1, <3>2, <3>3 DEF Stands
  <2>3. CASE i # ino /\ i \notin DOMAIN tbl.by_ino
    <3>1. i \notin DOMAIN new.by_ino
      BY <1>2, <2>3 DEF Put
    <3> QED
      BY <2>1, <3>1 DEF Stands
  <2>4. CASE i # ino /\ i \in DOMAIN tbl.by_ino
    <3> DEFINE r == tbl.by_ino[i]
               q == <<m>> \o r
    <3>1. r \in Rel /\ r \in DOMAIN tbl.by_path /\ tbl.by_path[r] = i
      BY <1>1, <2>1, <2>4 DEF Stands, Table, TableType
    <3>2. r # rel
      BY <2>4, <3>1
    <3>3. ~starts_with(r, rel) /\ r # newrel
      BY <1>9, <2>4, <3>2 DEF LeftBehind, PathOf, tbl
    <3> HIDE DEF r
    <3>4. \A g \in given[m][i] : Truth(tree, m, r, g)
      BY <2>1, <2>4 DEF Stands, r
    <3>5. ~starts_with(q, from)
      <4>1. r \in Seq(Names) /\ rel \in Seq(Names) /\ Len(r) \in Nat /\ Len(rel) \in Nat
        BY <3>1 DEF Rel
      <4>2. /\ q \in Path /\ Len(q) = Len(r) + 1 /\ q[1] = m
            /\ \A x \in 1..Len(r) : q[x + 1] = r[x]
        BY <3>1, Below, MountIsRoot
      <4>3. /\ from \in Path /\ Len(from) = Len(rel) + 1 /\ from[1] = m
            /\ \A x \in 1..Len(rel) : from[x + 1] = rel[x]
        BY Below, MountIsRoot
      <4> HIDE DEF q
      <4> SUFFICES ASSUME starts_with(q, from) PROVE FALSE
        OBVIOUS
      <4>4. Len(from) <= Len(q) /\ \A x \in 1..Len(from) : q[x] = from[x]
        BY <4>2, <4>3, SameStart
      <4>5. Len(rel) <= Len(r)
        BY <4>1, <4>2, <4>3, <4>4
      <4>6. ASSUME NEW x \in 1..Len(rel) PROVE r[x] = rel[x]
        <5>1. x + 1 \in 1..Len(from) /\ x \in 1..Len(r)
          BY <4>1, <4>3, <4>5
        <5> QED
          BY <4>2, <4>3, <4>4, <5>1
      <4> QED
        BY <3>3, <4>1, <4>5, <4>6, StartsWith
    <3>6. q # to
      BY <3>1, <3>3, SameBelow, MountIsRoot
    <3> HIDE DEF q
    <3>7. q \in DOMAIN tree => q \in DOMAIN tree' /\ tree'[q] = tree[q]
      BY <1>7, <3>5, <3>6
    <3>8. \A g \in given[m][i] : Truth(tree', m, r, g)
      BY <3>4, <3>7 DEF Truth, q
    <3>9. new.by_ino[i] = r /\ r \in DOMAIN new.by_path /\ new.by_path[r] = i
      BY <1>2, <2>4, <3>1, <3>2, <3>3 DEF Put, Remove, r
    <3> QED
      BY <2>1, <3>8, <3>9 DEF Stands
  <2> QED
    BY <2>2, <2>3, <2>4
<1>10. StandAll(tree', m, new, given[m], stale[m] \cup LeftBehind(m, rel, newrel))
  BY <1>1, <1>2, <1>9 DEF StandAll
<1>11. ASSUME NEW o \in Mounts, o # m
       PROVE  Table(inodes[o]) /\ StandAll(tree', o, inodes[o], given[o], stale[o])
  <2>1. Table(inodes[o]) /\ StandAll(tree, o, inodes[o], given[o], stale[o])
    BY NumberFields
  <2>2. ASSUME NEW r \in Rel PROVE ~starts_with(<<o>> \o r, from) /\ <<o>> \o r # to
    <3>1. /\ <<o>> \o r \in Path /\ (<<o>> \o r)[1] = o /\ from \in Path /\ from[1] = m
          /\ Len(from) >= 1 /\ to[1] = m
      BY Below, MountIsRoot, MoveFacts
    <3>2. starts_with(<<o>> \o r, from) => (<<o>> \o r)[1] = from[1]
      BY <3>1, SameStart
    <3> QED
      BY <1>11, <3>1, <3>2
  <2>3. \A r \in Rel : \A g : Truth(tree, o, r, g) => Truth(tree', o, r, g)
    BY <1>7, <2>2 DEF Truth
  <2>4. \A i \in DOMAIN inodes[o].by_ino : inodes[o].by_ino[i] \in Rel
    BY <2>1 DEF Table, TableType
  <2>5. \A i, objs : Stands(tree, o, inodes[o], objs, i) => Stands(tree', o, inodes[o], objs, i)
    BY <2>3, <2>4 DEF Stands
  <2> QED
    BY <2>1, <2>5 DEF StandAll
<1>12. Kept(tree', Now', stale')
  <2>1. /\ inodes'[m] = new /\ stale'[m] = stale[m] \cup LeftBehind(m, rel, newrel)
        /\ \A o \in Mounts : o # m => inodes'[o] = inodes[o] /\ stale'[o] = stale[o]
        /\ DOMAIN inodes' = Mounts /\ DOMAIN given' = Mounts
    BY <1>3, <1>5
  <2> QED
    BY <1>3, <1>8, <1>10, <1>11, <2>1 DEF Kept, Now
<1>13. ASSUME NEW q \in DOMAIN tree'
       PROVE  \E p \in DOMAIN tree : tree'[q] = tree[p] /\ (q = p \/ (Len(q) > 1 /\ q[1] \in Mounts))
  <2>1. CASE tree' = tree
    BY <2>1
  <2>2. CASE tree' = Moved(from, to)
    <3>1. CASE q \in DOMAIN tree /\ ~starts_with(q, from) /\ q # to
      BY <1>7, <3>1
    <3>2. ASSUME NEW r \in DOMAIN tree, starts_with(r, from), q = Carried(from, to, r)
          PROVE  tree'[q] = tree[r] /\ Len(q) > 1 /\ q[1] \in Mounts
      <4>1. tree'[q] = tree[r]
        BY <2>2, <3>2, MovedNodes
      <4>2. from \in Path /\ to \in Path /\ Len(to) > 1 /\ r \in Path
        BY MoveFacts, SplitBelow DEF Held
      <4>3. Len(from) \in Nat /\ Len(to) \in Nat /\ Len(r) \in Nat /\ Len(from) <= Len(r)
        BY <3>2, <4>2 DEF Path, starts_with
      <4> DEFINE c == Carried(from, to, r)
      <4>4. Len(c) = Len(to) + Len(r) - Len(from) /\ \A x \in 1..Len(to) : c[x] = to[x]
        BY ONLY <4>2, <4>3, CarriedPath
      <4> HIDE DEF c
      <4>c. q = c
        BY <3>2 DEF c
      <4>5. Len(q) > 1 /\ q[1] = to[1]
        BY <4>2, <4>3, <4>4, <4>c
      <4>6. to[1] = m
        BY Below, MountIsRoot
      <4> QED
        BY <4>1, <4>5, <4>6
    <3>3. \/ q \in DOMAIN tree /\ ~starts_with(q, from) /\ q # to
          \/ \E r \in DOMAIN tree : starts_with(r, from) /\ q = Carried(from, to, r)
      BY <2>2, MovedNodes
    <3> QED
      BY <3>1, <3>2, <3>3
  <2> QED
    BY <1>3, <2>1, <2>2
<1>14. SameObject(tree')
  <2>1. \A q \in DOMAIN tree' : \E p \in DOMAIN tree : tree'[q] = tree[p]
    BY <1>13
  <2> QED
    BY <2>1, NodesOf DEF Held
<1>15. Origin(tree')
  BY <1>13, OriginNodesOf DEF Held
<1> QED
  BY <1>3, <1>5, <1>6, <1>12, <1>14, <1>15 DEF Held

LEMMA RenameHeld ==
    ASSUME Held, NEW m \in Mounts, NEW pi \in Usable(m, {"dir"}), NEW pj \in Usable(m, {"dir"}),
           NEW n \in Names, NEW k \in Names, Rename(m, pi, n, pj, k), misled' \in BOOLEAN, ~misled'
    PROVE  Held'
<1> DEFINE rel == Entry(m, pi, n)
           newrel == Entry(m, pj, k)
           d == Dir(m, pi)
           e == Dir(m, pj)
<1>1. CASE Hang(d, {pi}, Place(m, pi)) \/ Hang(e, {pj}, Place(m, pj))
  BY <1>1, HangHeld
<1>2. CASE /\ LookedUp(m, rel) /\ rel # newrel
           /\ d.st = "ok" /\ e.st = "ok" /\ IsDir(e.at)
           /\ Move(m, rel, newrel, Append(d.at, n), Append(e.at, k))
           /\ Uses(m, {pi, pj})
  <2>1. PathOf(m, pi) \in Rel /\ d.at = <<m>> \o PathOf(m, pi)
    BY <1>2, UsesDirect, DirIsDirect
  <2>2. PathOf(m, pj) \in Rel /\ e.at = <<m>> \o PathOf(m, pj)
    BY <1>2, UsesDirect, DirIsDirect
  <2>3. rel \in Rel /\ <<m>> \o rel = Append(d.at, n)
    BY <2>1, BelowAppend, MountIsRoot DEF Entry
  <2>4. newrel \in Rel /\ <<m>> \o newrel = Append(e.at, k)
    BY <2>2, BelowAppend, MountIsRoot DEF Entry
  <2>5. Append(d.at, n) # Append(e.at, k)
    BY <1>2, <2>3, <2>4, SameBelow, MountIsRoot
  <2>6. MayMove(Append(d.at, n), Append(e.at, k))
    BY <1>2, <2>5 DEF Held, MayMove, Move, IsDir
  <2>7. rel \in DOMAIN inodes[m].by_path
    BY <1>2 DEF LookedUp
  <2> HIDE DEF rel, newrel, d, e
  <2> QED
    BY <1>2, <2>3, <2>4, <2>6, <2>7, MoveHeld
<1> QED
  BY <1>1, <1>2 DEF Rename

-----------------------------------------------------------------------------
(* Unless a request has been misled, every number keeps its object. *)
NumbersInv == misled \in BOOLEAN /\ (misled \/ Held)

LEMMA NumbersInit == Init => NumbersInv
<1> SUFFICES ASSUME Init PROVE NumbersInv
  OBVIOUS
<1>0. ROOT = << >>
  BY NamespaceAssumption
<1>1. WellFormed(tree) /\ DOMAIN stale = Mounts /\ misled = FALSE
  BY NamespaceAssumption DEF Init
<1>2. ASSUME NEW m \in Mounts
      PROVE  Table(inodes[m]) /\ StandAll(tree, m, inodes[m], given[m], stale[m])
  <2>1. inodes[m] = NewTable /\ given[m] = [i \in {1} |-> {Obj(Given0[<<m>>].id, "dir")}]
    BY <1>2 DEF Init, ROOT_INO
  <2>2. /\ NewTable.by_ino = [i \in {1} |-> << >>] /\ NewTable.by_path = [p \in {<< >>} |-> 1]
        /\ NewTable.next = 2
    BY <1>0 DEF NewTable, ROOT_INO
  <2>3. << >> \in Rel
    BY DEF Rel
  <2>4. Table(NewTable)
    BY <2>2, <2>3 DEF Table, TableType
  <2>5. Truth(tree, m, << >>, Obj(Given0[<<m>>].id, "dir"))
    <3>1. <<m>> \o << >> = <<m>> /\ <<m>> \in DOMAIN tree /\ tree[<<m>>].t = "dir" /\ tree = Given0
      BY NamespaceAssumption, MountIsRoot DEF Init
    <3> QED
      BY <3>1 DEF Truth, Obj
  <2>6. Stands(tree, m, NewTable, {Obj(Given0[<<m>>].id, "dir")}, 1)
    BY <2>2, <2>5 DEF Stands
  <2>7. StandAll(tree, m, NewTable, given[m], stale[m])
    BY <2>1, <2>2, <2>6 DEF StandAll
  <2> QED
    BY <2>1, <2>4, <2>7
<1>3. Kept(tree, Now, stale)
  BY <1>2 DEF Kept, Now, Init
<1>4. SameObject(tree) /\ Origin(tree)
  <2>1. tree = Given0 /\ WellFormed(Given0)
    BY NamespaceAssumption DEF Init
  <2>2. ASSUME NEW p \in DOMAIN Given0, Given0[p].t = "link" PROVE Len(p) > 1
    <3>1. p \in Seq(Roots \cup Names) /\ p # << >> /\ p[1] \in Roots
      BY <2>1 DEF WellFormed
    <3>2. CASE Len(p) = 1
      <4>1. p = <<p[1]>>
        BY <3>1, <3>2
      <4>2. Given0[<<p[1]>>].t = "dir"
        BY <3>1, NamespaceAssumption
      <4> QED
        BY <2>2, <4>1, <4>2
    <3>3. Len(p) \in Nat /\ Len(p) # 0
      BY <3>1, EmptySeq
    <3> QED
      BY <3>2, <3>3
  <2> QED
    BY <2>1, <2>2, NamespaceAssumption DEF SameObject, Origin
<1> QED
  BY <1>1, <1>3, <1>4 DEF NumbersInv, Held

LEMMA NumbersNext ==
    ASSUME NumbersInv, [Next]_vars
    PROVE  NumbersInv'
<1>1. CASE UNCHANGED vars
  <2>1. Held => Held'
    BY <1>1 DEF vars, Held, SameObject, Origin, Kept, Now, Table, TableType, StandAll, Stands, Truth, WellFormed
  <2>2. misled' = misled
    BY <1>1 DEF vars
  <2> QED
    BY <2>1, <2>2 DEF NumbersInv
<1>2. ASSUME NEW m \in Mounts, Request(m) PROVE NumbersInv'
  <2> USE DEF NumbersInv
  <2>h. ASSUME NEW res, NEW inos, NEW at, Hang(res, inos, at) PROVE NumbersInv'
    BY <2>h, HangHeld DEF Hang
  <2>u. ASSUME NEW inos, Uses(m, inos) PROVE misled' \in BOOLEAN /\ (misled => misled')
    BY <2>u DEF Uses
  <2>1. ASSUME NEW i, Getattr(m, i) \/ Readlink(m, i) \/ Open(m, i) PROVE NumbersInv'
    BY <2>1, <2>h DEF Getattr, Readlink, Open
  <2>2. ASSUME NEW i \in Usable(m, {"dir"}), Readdir(m, i) PROVE NumbersInv'
    <3>1. misled' = misled
      BY <2>2 DEF Readdir, Hang
    <3> QED
      BY <2>2, <3>1, ReaddirHeld
  <2>3. ASSUME misled' = misled \/ \E inos : Uses(m, inos), Held /\ misled' \in BOOLEAN /\ ~misled' => Held'
        PROVE  NumbersInv'
    BY <2>3, <2>u
  <2>4. ASSUME NEW i \in Usable(m, {"dir"}), NEW n \in Names, Lookup(m, i, n) PROVE NumbersInv'
    <3>1. misled' = misled \/ \E inos : Uses(m, inos)
      BY <2>4 DEF Lookup, Hang
    <3> QED
      BY <2>3, <2>4, <3>1, LookupHeld
  <2>5. ASSUME NEW i \in Usable(m, {"dir"}), NEW n \in Names, NEW t, NEW to \in Target,
               Make(m, i, n, t, to)
        PROVE  NumbersInv'
    <3>1. misled' = misled \/ \E inos : Uses(m, inos)
      BY <2>5 DEF Make, Hang
    <3> QED
      BY <2>3, <2>5, <3>1, MakeHeld
  <2>6. ASSUME NEW i \in Usable(m, {"dir"}), NEW n \in Names, NEW isdir, Drop(m, i, n, isdir)
        PROVE  NumbersInv'
    <3>1. misled' = misled \/ \E inos : Uses(m, inos)
      BY <2>6 DEF Drop, Hang
    <3> QED
      BY <2>3, <2>6, <3>1, DropHeld
  <2>7. ASSUME NEW i \in Usable(m, {"dir"}), NEW n \in Names, NEW j, Link(m, j, i, n) PROVE NumbersInv'
    <3>1. misled' = misled \/ \E inos : Uses(m, inos)
      BY <2>7 DEF Link, Hang
    <3> QED
      BY <2>3, <2>7, <3>1, LinkHeld
  <2>8. ASSUME NEW i \in Usable(m, {"dir"}), NEW j \in Usable(m, {"dir"}), NEW n \in Names, NEW k \in Names,
               Rename(m, i, n, j, k)
        PROVE  NumbersInv'
    <3>1. misled' = misled \/ \E inos : Uses(m, inos)
      BY <2>8 DEF Rename, Hang
    <3> QED
      BY <2>3, <2>8, <3>1, RenameHeld
  <2>9. Targets \subseteq Target /\ NoTarget \in Target
    BY NamespaceAssumption DEF NoTarget, Target
  <2> HIDE DEF NumbersInv
  <2> QED
    BY <1>2, <2>1, <2>2, <2>4, <2>5, <2>6, <2>7, <2>8, <2>9
       DEF Request, Mkdir, Create, Symlink, Unlink, Rmdir
<1> QED
  BY <1>1, <1>2 DEF Next

(* design.md "hand back a stable inode", for any names, trees, links and number
   of overlays: unless a stale number has misled a request, a number that no
   rename left behind stands for one object and leads to it. *)
THEOREM NamespaceKeepsNumbers == Spec => []NumbersKeepTheirObject
<1>1. Spec => []NumbersInv
  BY NumbersInit, NumbersNext, PTL DEF Spec
<1>2. NumbersInv => NumbersKeepTheirObject
  <2> SUFFICES ASSUME Held, NEW m \in Mounts, NEW i \in DOMAIN given[m] \ stale[m]
               PROVE  /\ Cardinality(Objects(m, i)) = 1
                      /\ HasPath(m, i) => /\ <<m>> \o PathOf(m, i) \in DOMAIN tree
                                          /\ tree[<<m>> \o PathOf(m, i)].id \in Objects(m, i)
    BY DEF NumbersInv, NumbersKeepTheirObject
  <2>1. Stands(tree, m, inodes[m], given[m][i], i)
    BY NumberFields DEF StandAll
  <2>2. PICK g \in given[m][i] : \A h \in given[m][i] : h.id = g.id
    BY <2>1 DEF Stands
  <2>3. Objects(m, i) = {g.id}
    BY <2>2 DEF Objects
  <2>4. Cardinality({g.id}) = 1
    BY FS_Singleton
  <2>5. HasPath(m, i) => /\ <<m>> \o PathOf(m, i) \in DOMAIN tree
                         /\ tree[<<m>> \o PathOf(m, i)].id = g.id
    BY <2>1 DEF Stands, Truth, HasPath, PathOf
  <2> QED
    BY <2>3, <2>4, <2>5
<1> QED
  BY <1>1, <1>2, PTL

-----------------------------------------------------------------------------
(* The backend does not wait for itself. *)

(* Every request that waits for ever uses a number that a rename left behind or is
   about a link whose target is not straight. *)
Tangle(t, p) == p \in DOMAIN t /\ t[p].t = "link" /\ ~Plain(t[p].to)
Trapped ==
    \A s \in stuck : /\ s.m \in Mounts
                     /\ s.inos \cap stale[s.m] # {} \/ (s.at[1] \in Mounts /\ Tangle(tree, s.at))

(* A straight target is a plain one. *)
LEMMA StraightIsPlain ==
    ASSUME NEW to \in Target, Straight(to)
    PROVE  Plain(to)
<1>0. to.path \in Seq(Component) /\ Len(to.path) \in Nat
  BY DEF Target
<1>1. PICK j \in 0..Len(to.path) :
        /\ to.abs => j = 0
        /\ \A k \in 1..j : to.path[k] = ".."
        /\ \A k \in (j + 1)..Len(to.path) :
             to.path[k] \in Names \/ (k = j + 1 /\ to.path[k] \in Roots)
  BY DEF Straight
<1> DEFINE n == Len(to.path) - j
           T == [k \in 1..n |-> to.path[j + k]]
<1>2. n \in Nat /\ j \in Nat
  BY <1>0
<1>3. ASSUME NEW k \in 1..n PROVE to.path[j + k] \in Names \/ (k = 1 /\ to.path[j + k] \in Roots)
  <2>1. j + k \in (j + 1)..Len(to.path) /\ (j + k = j + 1 => k = 1)
    BY <1>0, <1>2
  <2> QED
    BY <1>1, <2>1
<1>4. T \in [1..n -> Roots \cup Names]
  BY <1>3
<1>5. T \in Path /\ Len(T) = n
  BY <1>2, <1>4, FunctionIsSeq DEF Path
<1>6. \A k \in 1..n : T[k] = to.path[j + k]
  OBVIOUS
<1> HIDE DEF T
<1>7. T \in Down
  <2>1. ASSUME NEW k \in 2..n PROVE T[k] \in Names
    <3>1. k \in 1..n /\ k # 1
      BY <1>2
    <3> QED
      BY <1>3, <1>6, <3>1
  <2> QED
    BY <1>5, <2>1 DEF Down
<1>8. Goes(to.path, j, T)
  <2>1. Len(to.path) = j + Len(T)
    BY <1>0, <1>2, <1>5
  <2> QED
    BY <1>1, <1>5, <1>6, <2>1 DEF Goes
<1> QED
  BY <1>1, <1>2, <1>7, <1>8 DEF Plain

LEMMA AtWho ==
    ASSUME NEW t, WellFormed(t), NEW m \in Mounts, NEW rel \in Rel, NEW follow \in BOOLEAN
    PROVE  At(t, m, rel, follow).who \in SUBSET Mounts
  BY AtGood DEF Good, Result

LEMMA AttrWho ==
    ASSUME NEW t, WellFormed(t), NEW m \in Mounts, NEW rel \in Rel
    PROVE  attr(t, m, rel).who \in SUBSET Mounts
<1> DEFINE here == At(t, m, rel, FALSE)
           there == At(t, m, rel, TRUE)
<1>1. here.who \in SUBSET Mounts /\ there.who \in SUBSET Mounts
  BY AtWho
<1>2. Before(there.seen, here).who = here.who
  <2>1. here \in Result
    BY AtGood DEF Good
  <2> HIDE DEF here, there
  <2> QED
    BY <2>1 DEF Before, Result
<1>3. \A res, id, kind : Attr(res, id, kind).who = res.who
  BY DEF Attr
<1> HIDE DEF here, there
<1>4. \A id : LinkAttr(t, id, here, there).who \in SUBSET Mounts
  BY <1>1, <1>2, <1>3 DEF LinkAttr
<1>5. \A node : NodeAttr(t, m, rel, here, node).who \in SUBSET Mounts
  BY <1>1, <1>3, <1>4 DEF NodeAttr, there
<1>6. AttrOf(t, m, rel, here).who \in SUBSET Mounts
  BY <1>1, <1>3, <1>5 DEF AttrOf
<1> QED
  BY <1>6 DEF attr, here

(* A number that the kernel can use and that no rename left behind *)
LEMMA NumberIsThere ==
    ASSUME Held, NEW m \in Mounts, NEW kinds, NEW i \in Usable(m, kinds)
    PROVE  /\ PathOf(m, i) \in Rel
           /\ i \notin stale[m] =>
                /\ <<m>> \o PathOf(m, i) \in DOMAIN tree
                /\ \E g \in given[m][i] : g.kind \in kinds /\ Truth(tree, m, PathOf(m, i), g)
<1>1. /\ i \in DOMAIN given[m] /\ i \in DOMAIN inodes[m].by_ino
      /\ \E g \in given[m][i] : g.kind \in kinds
  BY DEF Usable, HasPath
<1>2. PathOf(m, i) \in Rel
  BY <1>1, NumberFields
<1>3. ASSUME i \notin stale[m]
      PROVE  \E g \in given[m][i] : g.kind \in kinds /\ Truth(tree, m, PathOf(m, i), g)
  <2>1. Stands(tree, m, inodes[m], given[m][i], i)
    BY <1>1, <1>3, NumberFields DEF StandAll
  <2> QED
    BY <1>1, <2>1 DEF Stands, PathOf
<1> QED
  BY <1>2, <1>3 DEF Truth

(* The first request that waits *)
LEMMA SticksTrapped ==
    ASSUME Alone, stuck = {}, NEW m \in Mounts, NEW res, NEW inos, NEW at, res.who \in SUBSET Mounts,
           Sticks(res, inos, at),
           inos \cap stale'[m] # {} \/ (at[1] \in Mounts /\ Tangle(tree', at))
    PROVE  Trapped'
<1>1. ASSUME NEW s \in stuck' PROVE s.m = m /\ s.inos = inos /\ s.at = at
  <2>1. PICK o \in res.who : s = [m |-> o, inos |-> inos, at |-> at]
    BY <1>1 DEF Sticks
  <2>2. o = m
    BY <2>1 DEF Alone
  <2> QED
    BY <2>1, <2>2
<1>2. ASSUME NEW s \in stuck'
      PROVE  /\ s.m \in Mounts
             /\ s.inos \cap stale'[s.m] # {} \/ (s.at[1] \in Mounts /\ Tangle(tree', s.at))
  BY <1>1, <1>2
<1> QED
  BY <1>2 DEF Trapped, Tangle

LEMMA HangTrapped ==
    ASSUME Alone, stuck = {}, NEW m \in Mounts, NEW res, NEW i, NEW at, res.who \in SUBSET Mounts,
           i \notin stale[m] => res.st # "waits" \/ (at[1] \in Mounts /\ Tangle(tree, at)),
           Hang(res, {i}, at)
    PROVE  Trapped'
<1>1. Sticks(res, {i}, at) /\ stale' = stale /\ tree' = tree /\ res.st = "waits"
  BY DEF Hang
<1>2. {i} \cap stale'[m] # {} \/ (at[1] \in Mounts /\ Tangle(tree', at))
  BY <1>1
<1> QED
  BY <1>1, <1>2, SticksTrapped

(* attr of a name that is there waits only for a tangled link. *)
LEMMA AttrTangle ==
    ASSUME Alone, NEW t, WellFormed(t), Tame(t),
           NEW m \in Mounts, NEW rel \in Rel, <<m>> \o rel \in DOMAIN t,
           attr(t, m, rel).st = "waits"
    PROVE  (<<m>> \o rel)[1] \in Mounts /\ Tangle(t, <<m>> \o rel)
<1>1. (<<m>> \o rel)[1] = m
  BY Below, MountIsRoot
<1>2. ~(t[<<m>> \o rel].t = "link" => Plain(t[<<m>> \o rel].to))
  BY AttrTruth
<1> QED
  BY <1>1, <1>2 DEF Tangle

LEMMA EntryTrapped ==
    ASSUME Alone, stuck = {}, WellFormed(tree'), Tame(tree'),
           NEW m \in Mounts, NEW rel \in Rel, <<m>> \o rel \in DOMAIN tree',
           NEW inos, AnswerEntry(tree', m, rel, inos)
    PROVE  Trapped'
<1> DEFINE a == attr(tree', m, rel)
<1>1. CASE a.st # "waits"
  <2>1. stuck' = {}
    BY <1>1 DEF AnswerEntry
  <2> QED
    BY <2>1 DEF Trapped
<1>2. CASE a.st = "waits"
  <2>1. Sticks(a, inos, <<m>> \o rel)
    BY <1>2 DEF AnswerEntry
  <2>2. a.who \in SUBSET Mounts
    BY AttrTruth
  <2>3. (<<m>> \o rel)[1] \in Mounts /\ Tangle(tree', <<m>> \o rel)
    BY <1>2, AttrTangle
  <2> HIDE DEF a
  <2> QED
    BY <2>1, <2>2, <2>3, SticksTrapped
<1> QED
  BY <1>1, <1>2

(* The directory of a number *)
LEMMA DirTrapped ==
    ASSUME Alone, Held, stuck = {}, NEW m \in Mounts, NEW i \in Usable(m, {"dir"}),
           NEW at, Hang(Dir(m, i), {i}, at)
    PROVE  Trapped'
<1>1. Dir(m, i).who \in SUBSET Mounts
  BY NumberIsThere, AtWho DEF Dir, Held
<1>2. i \notin stale[m] => Dir(m, i).st # "waits"
  BY DirIsDirect
<1> QED
  BY <1>1, <1>2, HangTrapped

(* A name that is there, unless the number is stale *)
LEMMA NameTrapped ==
    ASSUME Alone, Held, stuck = {}, NEW m \in Mounts, NEW kinds, NEW i \in Usable(m, kinds),
           NEW at, Hang(At(tree, m, PathOf(m, i), FALSE), {i}, at)
    PROVE  Trapped'
<1> DEFINE here == At(tree, m, PathOf(m, i), FALSE)
<1>1. here.who \in SUBSET Mounts
  BY NumberIsThere, AtWho DEF Held
<1>2. ASSUME i \notin stale[m] PROVE here.st # "waits"
  <2>1. <<m>> \o PathOf(m, i) \in DOMAIN tree
    BY <1>2, NumberIsThere
  <2>2. Direct(tree, <<m>> \o PathOf(m, i), FALSE)
    BY <2>1, NodeIsDirect DEF Held
  <2>3. here = Found("ok", <<m>> \o PathOf(m, i), << >>)
    BY <2>1, <2>2, DirectAt
  <2> HIDE DEF here
  <2> QED
    BY <2>3 DEF Found
<1> HIDE DEF here
<1>3. Hang(here, {i}, at)
  BY DEF here
<1> QED
  BY <1>1, <1>2, <1>3, HangTrapped

LEMMA GetattrTrapped ==
    ASSUME Alone, Held, stuck = {}, NEW m \in Mounts, NEW kinds, NEW i \in Usable(m, kinds), Getattr(m, i)
    PROVE  Trapped'
<1> DEFINE a == attr(tree, m, PathOf(m, i))
<1>1. a.who \in SUBSET Mounts
  BY NumberIsThere, AttrWho DEF Held
<1>2. i \notin stale[m] =>
        a.st # "waits" \/ (Place(m, i)[1] \in Mounts /\ Tangle(tree, Place(m, i)))
  BY NumberIsThere, AttrTangle, OriginTame DEF Held, Place
<1> HIDE DEF a
<1>3. Hang(a, {i}, Place(m, i))
  BY DEF Getattr, a
<1> QED
  BY <1>1, <1>2, <1>3, HangTrapped

(* open follows a link only if the kernel takes it for a file, and then a plain one
   leads out of the overlay. *)
LEMMA OpenTrapped ==
    ASSUME Alone, Held, stuck = {}, NEW m \in Mounts, NEW i \in Usable(m, {"file"}), Open(m, i)
    PROVE  Trapped'
<1> DEFINE rel == PathOf(m, i)
           P == <<m>> \o rel
           there == At(tree, m, rel, TRUE)
<1>1. there.who \in SUBSET Mounts /\ rel \in Rel
  BY NumberIsThere, AtWho DEF Held
<1>p. Place(m, i) = P /\ P[1] = m
  BY <1>1, Below, MountIsRoot DEF Place
<1>2. ASSUME i \notin stale[m] PROVE there.st # "waits" \/ (P[1] \in Mounts /\ Tangle(tree, P))
  <2>0. \E g \in given[m][i] : g.kind \in {"file"} /\ Truth(tree, m, rel, g)
    BY <1>2, NumberIsThere
  <2>1. PICK g \in given[m][i] : g.kind = "file" /\ Truth(tree, m, rel, g)
    BY <2>0
  <2>2. P \in DOMAIN tree
    BY <2>1 DEF Truth
  <2>3. CASE tree[P].t = "link"
    <3>1. Plain(tree[P].to) => Out(tree[P].to)
      BY <2>1, <2>3 DEF Truth
    <3>2. Out(tree[P].to) => there.st # "waits"
      BY <1>1, <2>2, <2>3, OutFollows, OriginTame DEF Held
    <3>3. ~Plain(tree[P].to) => Tangle(tree, P)
      BY <2>2, <2>3 DEF Tangle
    <3> QED
      BY <1>p, <3>1, <3>2, <3>3
  <2>4. CASE tree[P].t # "link"
    <3>1. Direct(tree, P, TRUE)
      BY <2>2, <2>4, NodeIsDirect DEF Held
    <3>2. there = Found("ok", P, << >>)
      BY <2>2, <3>1, DirectAt
    <3> HIDE DEF there, P
    <3> QED
      BY <3>2 DEF Found
  <2> QED
    BY <2>3, <2>4
<1> HIDE DEF there
<1>3. Hang(there, {i}, P)
  BY <1>p DEF Open, there
<1> HIDE DEF P
<1> QED
  BY <1>1, <1>2, <1>3, HangTrapped

LEMMA LookupTrapped ==
    ASSUME Alone, Held, stuck = {}, NEW m \in Mounts, NEW pi \in Usable(m, {"dir"}), NEW n \in Names,
           Lookup(m, pi, n), misled' \in BOOLEAN, ~misled'
    PROVE  Trapped'
<1> DEFINE rel == Entry(m, pi, n)
           P == <<m>> \o PathOf(m, pi)
           here == At(tree, m, rel, FALSE)
<1>1. PathOf(m, pi) \in Rel
  BY NumberIsThere
<1>2. rel \in Rel /\ <<m>> \o rel = Append(P, n) /\ P \in Path
  BY <1>1, BelowAppend, Below, MountIsRoot DEF Entry
<1>3. ASSUME pi \in stale[m] => Direct(tree, P, TRUE)
      PROVE  here.st = IF <<m>> \o rel \in DOMAIN tree THEN "ok" ELSE "none"
  <2>1. Direct(tree, P, TRUE)
    BY <1>3, DirIsDirect
  <2>2. Direct(tree, <<m>> \o rel, FALSE)
    BY <1>2, <2>1, EntryIsDirect
  <2>3. here = Found(IF <<m>> \o rel \in DOMAIN tree THEN "ok" ELSE "none", <<m>> \o rel, << >>)
    BY <2>2, DirectAt
  <2> HIDE DEF here, rel
  <2> QED
    BY <2>3 DEF Found
<1>4. here.who \in SUBSET Mounts
  BY <1>2, AtWho DEF Held
<1> HIDE DEF rel, here
<1>5. CASE Hang(here, {pi}, <<m>> \o rel)
  <2>1. pi \notin stale[m] => here.st # "waits"
    BY <1>3
  <2> QED
    BY <1>4, <1>5, <2>1, HangTrapped
<1>6. CASE here.st = "ok" /\ AnswerEntry(tree, m, rel, {pi}) /\ Uses(m, {pi}) /\ tree' = tree
  <2>1. pi \in stale[m] => Direct(tree, P, TRUE)
    BY <1>6, UsesDirect
  <2>2. <<m>> \o rel \in DOMAIN tree
    BY <1>3, <1>6, <2>1
  <2> QED
    BY <1>2, <1>6, <2>2, EntryTrapped, OriginTame DEF Held
<1> QED
  BY <1>5, <1>6 DEF Lookup, here, rel

(* The end of mkdir, create, symlink and link: the tree is the grown one. *)
LEMMA InsertTrapped ==
    ASSUME Alone, Held, Held', stuck = {}, NEW m \in Mounts, NEW pi \in Usable(m, {"dir"}), NEW n \in Names,
           NEW node, NEW inos, Insert(m, Entry(m, pi, n), Dir(m, pi), node, inos),
           misled' \in BOOLEAN, ~misled', Uses(m, {pi})
    PROVE  Trapped'
<1> DEFINE rel == Entry(m, pi, n)
           P == <<m>> \o PathOf(m, pi)
<1>1. PathOf(m, pi) \in Rel /\ Dir(m, pi).at = P
  BY UsesDirect, DirIsDirect
<1>2. rel \in Rel /\ rel[Len(rel)] = n /\ <<m>> \o rel = Append(P, n)
  BY <1>1, BelowAppend, MountIsRoot DEF Entry
<1> HIDE DEF rel, P
<1>3. tree' = Put(tree, Append(P, n), node) /\ AnswerEntry(tree', m, rel, inos)
  BY <1>1, <1>2 DEF Insert, rel
<1>4. <<m>> \o rel \in DOMAIN tree'
  BY <1>2, <1>3 DEF Put
<1>5. WellFormed(tree') /\ Tame(tree')
  BY OriginTame DEF Held
<1> QED
  BY <1>2, <1>3, <1>4, <1>5, EntryTrapped

(* The invariant for both properties, with one overlay *)
WaitsInv == NumbersInv /\ (misled \/ Trapped)

LEMMA WaitsInit == Init => WaitsInv
  BY NumbersInit DEF WaitsInv, Init, Trapped

LEMMA MisledForEver ==
    ASSUME NEW m \in Mounts, Request(m)
    PROVE  misled => misled'
<1>1. ASSUME NEW res, NEW inos, NEW at, Hang(res, inos, at) PROVE misled => misled'
  BY <1>1 DEF Hang
<1>2. ASSUME NEW inos, Uses(m, inos) PROVE misled => misled'
  BY <1>2 DEF Uses
<1>3. ASSUME NEW i, Getattr(m, i) \/ Readlink(m, i) \/ Open(m, i) PROVE misled => misled'
  BY <1>1, <1>3 DEF Getattr, Readlink, Open
<1>4. ASSUME NEW i, Readdir(m, i) PROVE misled => misled'
  BY <1>1, <1>4 DEF Readdir
<1>5. ASSUME NEW i, NEW n, Lookup(m, i, n) PROVE misled => misled'
  BY <1>1, <1>2, <1>5 DEF Lookup
<1>6. ASSUME NEW i, NEW n, NEW t, NEW to, Make(m, i, n, t, to) PROVE misled => misled'
  BY <1>1, <1>2, <1>6 DEF Make
<1>7. ASSUME NEW i, NEW n, NEW isdir, Drop(m, i, n, isdir) PROVE misled => misled'
  BY <1>1, <1>2, <1>7 DEF Drop
<1>8. ASSUME NEW j, NEW i, NEW n, Link(m, j, i, n) PROVE misled => misled'
  BY <1>1, <1>2, <1>8 DEF Link
<1>9. ASSUME NEW i, NEW n, NEW j, NEW k, Rename(m, i, n, j, k) PROVE misled => misled'
  BY <1>1, <1>2, <1>9 DEF Rename
<1> QED
  BY <1>3, <1>4, <1>5, <1>6, <1>7, <1>8, <1>9 DEF Request, Mkdir, Create, Symlink, Unlink, Rmdir

LEMMA WaitsNext ==
    ASSUME Alone, WaitsInv, [Next]_vars
    PROVE  WaitsInv'
<1>0. NumbersInv /\ NumbersInv'
  BY NumbersNext DEF WaitsInv
<1>1. CASE UNCHANGED vars
  <2>1. misled' = misled /\ (Trapped => Trapped')
    BY <1>1 DEF vars, Trapped, Tangle
  <2> QED
    BY <1>0, <2>1 DEF WaitsInv
<1>2. ASSUME NEW m \in Mounts, ~Stuck(m), Request(m) PROVE WaitsInv'
  <2>1. misled => misled'
    BY <1>2, MisledForEver
  <2> SUFFICES ASSUME ~misled' PROVE Trapped'
    BY <1>0 DEF WaitsInv
  <2>0. Held /\ Held' /\ Trapped /\ misled' \in BOOLEAN
    BY <1>0, <2>1 DEF NumbersInv, WaitsInv
  <2>2. Held /\ Held' /\ stuck = {} /\ misled' \in BOOLEAN
    BY <1>2, <2>0 DEF Trapped, Stuck, Alone
  <2>3. ASSUME NEW i \in Usable(m, {"dir", "file", "link"}), Getattr(m, i) PROVE Trapped'
    BY <2>2, <2>3, GetattrTrapped
  <2>4. ASSUME NEW i \in Usable(m, {"link"}), Readlink(m, i) PROVE Trapped'
    BY <2>2, <2>4, NameTrapped DEF Readlink
  <2>5. ASSUME NEW i \in Usable(m, {"file"}), Open(m, i) PROVE Trapped'
    BY <2>2, <2>5, OpenTrapped
  <2>6. ASSUME NEW i \in Usable(m, {"dir"}), Readdir(m, i) PROVE Trapped'
    <3>1. CASE UNCHANGED stuck
      BY <2>2, <3>1 DEF Trapped
    <3>2. CASE Hang(Dir(m, i), {i}, Place(m, i))
      BY <2>2, <2>6, <3>2, DirTrapped
    <3> QED
      BY <2>6, <3>1, <3>2 DEF Readdir
  <2>7. ASSUME NEW i \in Usable(m, {"dir"}), NEW n \in Names, Lookup(m, i, n) PROVE Trapped'
    BY <2>2, <2>7, LookupTrapped
  <2>8. ASSUME NEW i \in Usable(m, {"dir"}), NEW n \in Names, NEW t, NEW to, Make(m, i, n, t, to)
        PROVE  Trapped'
    <3>1. CASE Hang(Dir(m, i), {i}, Place(m, i))
      BY <2>2, <2>8, <3>1, DirTrapped
    <3>2. CASE Insert(m, Entry(m, i, n), Dir(m, i), Node(t, NewId, to), {i}) /\ Uses(m, {i})
      BY <2>2, <2>8, <3>2, InsertTrapped
    <3> QED
      BY <2>8, <3>1, <3>2 DEF Make
  <2>9. ASSUME NEW i \in Usable(m, {"dir"}), NEW n \in Names, NEW j \in Usable(m, {"file", "link"}),
               Link(m, j, i, n)
        PROVE  Trapped'
    <3> DEFINE old == At(tree, m, PathOf(m, j), FALSE)
    <3>1. CASE Hang(Dir(m, i), {i}, Place(m, i))
      BY <2>2, <2>9, <3>1, DirTrapped
    <3>2. CASE Hang(old, {j}, Place(m, j))
      BY <2>2, <2>9, <3>2, NameTrapped
    <3>3. CASE Insert(m, Entry(m, i, n), Dir(m, i), tree[old.at], {j, i}) /\ Uses(m, {i})
      <4> HIDE DEF old
      <4> QED
        BY <2>2, <2>9, <3>3, InsertTrapped
    <3> QED
      BY <2>9, <3>1, <3>2, <3>3 DEF Link
  <2>10. ASSUME NEW i \in Usable(m, {"dir"}), NEW n \in Names, NEW isdir, Drop(m, i, n, isdir)
         PROVE  Trapped'
    <3>1. CASE UNCHANGED stuck
      BY <2>2, <3>1 DEF Trapped
    <3>2. CASE Hang(Dir(m, i), {i}, Place(m, i))
      BY <2>2, <2>10, <3>2, DirTrapped
    <3> QED
      BY <2>10, <3>1, <3>2 DEF Drop
  <2>11. ASSUME NEW i \in Usable(m, {"dir"}), NEW j \in Usable(m, {"dir"}), NEW n \in Names, NEW k \in Names,
                Rename(m, i, n, j, k)
         PROVE  Trapped'
    <3>1. CASE UNCHANGED stuck
      BY <2>2, <3>1 DEF Trapped
    <3>2. CASE Hang(Dir(m, i), {i}, Place(m, i))
      BY <2>2, <2>11, <3>2, DirTrapped
    <3>3. CASE Hang(Dir(m, j), {j}, Place(m, j))
      BY <2>2, <2>11, <3>3, DirTrapped
    <3> QED
      BY <2>11, <3>1, <3>2, <3>3 DEF Rename, Move
  <2> QED
    BY <1>2, <2>3, <2>4, <2>5, <2>6, <2>7, <2>8, <2>9, <2>10, <2>11
       DEF Request, Mkdir, Create, Symlink, Unlink, Rmdir
<1> QED
  BY <1>1, <1>2 DEF Next

(* fs.rs symlink_target_within_overlay "re-entering this single-threaded backend,
   which then waits on itself forever": with one overlay and links elsewhere that
   mention none, in any tree, after any requests and whatever targets the program
   gives its links, the lexical test keeps the backend from following a link back
   into its own mount; only a request with a number that a rename left behind, or
   about a link whose target climbs out of a name, can wait. *)
THEOREM NamespaceNeverWaits ==
    ASSUME Alone
    PROVE  Spec => []BackendNeverWaits
<1>1. Init => WaitsInv
  BY WaitsInit
<1>2. WaitsInv /\ [Next]_vars => WaitsInv'
  BY WaitsNext
<1>3. WaitsInv => BackendNeverWaits
  <2> SUFFICES ASSUME Held, Trapped, NEW s \in stuck, s.inos \cap stale[s.m] = {}
               PROVE  s.at \in Links /\ ~Straight(tree[s.at].to)
    BY DEF WaitsInv, NumbersInv, BackendNeverWaits
  <2>1. s.at[1] \in Mounts /\ s.at \in DOMAIN tree /\ tree[s.at].t = "link" /\ ~Plain(tree[s.at].to)
    BY DEF Trapped, Tangle
  <2>2. Len(s.at) > 1 /\ tree[s.at].to \in Target
    BY <2>1 DEF Held, Origin, WellFormed
  <2> QED
    BY <2>1, <2>2, StraightIsPlain DEF Links
<1> QED
  BY <1>1, <1>2, <1>3, PTL DEF Spec

-----------------------------------------------------------------------------
(* A link to a secret is served. *)

(* Two ends of walks that the kernel cannot tell apart *)
Same(a, b) == a.st = b.st /\ (a.st = "ok" => a.at = b.at)

(* Two queries that differ in who is busy and in what they see of overlays *)
Alike(q, x) == x.at = q.at /\ x.todo = q.todo /\ x.follow = q.follow

LEMMA AlikeTurn ==
    ASSUME NEW t, NEW q \in Queries, NEW x \in Queries, Outside(q), Alike(q, x)
    PROVE  /\ Outside(x) /\ (Missing(t, q) <=> Missing(t, x))
           /\ Alike(Turn(t, q), Turn(t, x))
<1>1. Outside(x) /\ (Missing(t, q) <=> Missing(t, x))
  BY DEF Alike, Outside, Missing
<1>2. Alike(Onward(q, q.at), Onward(x, x.at)) /\ Alike(Up(q), Up(x))
  BY OnwardFields, UpFields DEF Alike
<1>3. \A p : Alike(Onward(q, p), Onward(x, p))
  BY OnwardFields DEF Alike
<1>4. ASSUME NEW to PROVE Alike(Redirected(q, to), Redirected(x, to))
  <2>1. /\ Redirected(q, to).at = (IF to.abs THEN << >> ELSE q.at)
        /\ Redirected(q, to).todo = to.path \o Tail(q.todo) /\ Redirected(q, to).follow = q.follow
    BY RedirectedFields
  <2>2. /\ Redirected(x, to).at = (IF to.abs THEN << >> ELSE x.at)
        /\ Redirected(x, to).todo = to.path \o Tail(x.todo) /\ Redirected(x, to).follow = x.follow
    BY RedirectedFields
  <2> QED
    BY <2>1, <2>2 DEF Alike
<1> QED
  BY <1>1, <1>2, <1>3, <1>4 DEF Alike, Turn

(* Outside of the overlays, more steps only help. *)
LEMMA OutsideSettles ==
    ASSUME NEW t, WellFormed(t), Apart(t), NEW w, WalkOf(t, w),
           \A n \in 0..MaxSteps : \A q \in Queries : Good(t, w[n][q]),
           NEW n \in 0..MaxSteps, NEW q \in Queries, NEW x \in Queries,
           Outside(q), Alike(q, x), w[n][q].st # "lost"
    PROVE  Same(w[n][q], Resolve(t, x))
<1>0. MaxSteps \in Nat
  BY PathsAssumption
<1> DEFINE Agrees(i) == \A k \in i..MaxSteps : \A a, b \in Queries :
                           Outside(a) /\ Alike(a, b) /\ w[i][a].st # "lost" => Same(w[i][a], w[k][b])
           S == {i \in 0..MaxSteps : ~Agrees(i)}
<1>1. S = {}
  <2> SUFFICES ASSUME S # {} PROVE FALSE
    OBVIOUS
  <2>1. PICK i \in S : \A k \in S : i <= k
    <3>1. S \in SUBSET Nat
      BY <1>0
    <3> HIDE DEF S
    <3> QED
      BY <3>1, LeastNatural
  <2>2. i \in 0..MaxSteps /\ ~Agrees(i)
    OBVIOUS
  <2>3. i # 0
    <3>0. \A at : Found("lost", at, << >>).st = "lost"
      BY DEF Found
    <3>1. \A a \in Queries : w[0][a].st = "lost"
      BY <3>0 DEF WalkOf
    <3>2. Agrees(0)
      BY <3>1
    <3> HIDE DEF Agrees
    <3> QED
      BY <2>2, <3>2
  <2>4. i \in 1..MaxSteps /\ i - 1 \in 0..MaxSteps /\ ~(i <= i - 1)
    BY <1>0, <2>2, <2>3
  <2>5. Agrees(i - 1)
    <3>1. i - 1 \notin S
      BY <2>1, <2>4
    <3> QED
      BY <2>4, <3>1
  <2>6. ASSUME NEW k \in i..MaxSteps, NEW a \in Queries, NEW b \in Queries,
               Outside(a), Alike(a, b), w[i][a].st # "lost"
        PROVE  Same(w[i][a], w[k][b])
    <3>1. k \in 1..MaxSteps /\ k - 1 \in (i - 1)..MaxSteps /\ k - 1 \in 0..MaxSteps
      BY <1>0, <2>4
    <3>2. w[i][a] = Walked(t, w[i - 1], a) /\ w[k][b] = Walked(t, w[k - 1], b)
      BY <2>4, <3>1 DEF WalkOf
    <3>3. /\ \A y \in Queries : Good(t, w[i - 1][y])
          /\ \A y \in Queries : Good(t, w[k - 1][y])
      BY <2>4, <3>1
    <3>4. Outside(b) /\ (Missing(t, a) <=> Missing(t, b)) /\ Alike(Turn(t, a), Turn(t, b)) /\ b.todo = a.todo
          /\ b.at = a.at
      BY <2>6, AlikeTurn DEF Alike
    <3> HIDE DEF Agrees, S
    <3>5. CASE a.todo = << >>
      BY <2>6, <3>2, <3>3, <3>4, <3>5, OutsideTurn DEF Same
    <3>6. CASE a.todo # << >> /\ Missing(t, a)
      <4>1. Walked(t, w[i - 1], a).st = "none" /\ Walked(t, w[k - 1], b).st = "none"
        BY <2>6, <3>3, <3>4, <3>6, OutsideTurn
      <4> QED
        BY <3>2, <4>1 DEF Same
    <3>7. CASE a.todo # << >> /\ ~Missing(t, a)
      <4>1. /\ Turn(t, a) \in Queries /\ Outside(Turn(t, a))
            /\ w[i][a].st = w[i - 1][Turn(t, a)].st /\ w[i][a].at = w[i - 1][Turn(t, a)].at
        BY <2>6, <3>2, <3>3, <3>7, OutsideTurn
      <4>2. /\ Turn(t, b) \in Queries
            /\ w[k][b].st = w[k - 1][Turn(t, b)].st /\ w[k][b].at = w[k - 1][Turn(t, b)].at
        BY <3>2, <3>3, <3>4, <3>7, OutsideTurn
      <4>3. Same(w[i - 1][Turn(t, a)], w[k - 1][Turn(t, b)])
        BY <2>5, <2>6, <3>1, <3>4, <4>1, <4>2 DEF Agrees
      <4> QED
        BY <4>1, <4>2, <4>3 DEF Same
    <3> QED
      BY <3>5, <3>6, <3>7
  <2> QED
    BY <2>2, <2>6
<1>2. Agrees(n) /\ MaxSteps \in n..MaxSteps
  BY <1>0, <1>1
<1> QED
  BY <1>2 DEF WalkOf

LEMMA WalkGood ==
    ASSUME NEW t, WellFormed(t), NEW w, WalkOf(t, w)
    PROVE  \A n \in 0..MaxSteps : \A q \in Queries : Good(t, w[n][q])
<1> DEFINE A == [q \in Queries |-> {w[n][q] : n \in 0..MaxSteps}]
           B == [q \in Queries |-> {res \in Result : Good(t, res)}]
<1>1. \A n \in 0..MaxSteps : \A q \in Queries : w[n][q] \in A[q]
  OBVIOUS
<1>2. \A q \in Queries : Found("lost", q.at, << >>) \in B[q]
  BY QueryFields, FoundGood DEF Good
<1>3. ASSUME NEW rest, \A x \in Queries : rest[x] \in B[x]
      PROVE  \A q \in Queries : Walked(t, rest, q) \in B[q]
  <2>1. \A x \in Queries : Good(t, rest[x])
    BY <1>3
  <2>2. \A q \in Queries : Good(t, Walked(t, rest, q))
    BY <2>1, WalkedGood
  <2> QED
    BY <2>2 DEF Good
<1> HIDE DEF A
<1>4. \A n \in 0..MaxSteps : \A q \in Queries : w[n][q] \in B[q]
  <2> HIDE DEF B
  <2> QED
    BY <1>1, <1>2, <1>3, WalkInductionOn
<1> QED
  BY <1>4

(* What comes of a walk from the root down T *)
FromRoot(T) == Query(<< >>, FALSE, T, TRUE, {})
Settles(t, res, T) == res.st # "lost" => Same(res, Resolve(t, FromRoot(T)))

(* A path to what is beside the overlays *)
Beside == {T \in Down : T # << >> /\ T[1] \in Roots \ Mounts}

(* A walk that climbs to the root and goes down T from there *)
Climbs(q, j, T) ==
    /\ q.follow /\ j \in Nat /\ T \in Beside /\ Goes(q.todo, j, T)
    /\ Len(q.at) <= j

(* A target that leads there from a directory that D directories lie above *)
Leads(to, D, j, T) ==
    /\ j \in Nat /\ T \in Beside /\ Goes(to.path, j, T)
    /\ IF to.abs THEN j = 0 ELSE D <= j

(* The next step of a path that climbs *)
LEMMA GoesUp ==
    ASSUME NEW s \in Seq(Component), NEW j \in Nat, j # 0, NEW T \in Down, Goes(s, j, T)
    PROVE  s # << >> /\ Head(s) = ".." /\ j - 1 \in Nat /\ Goes(Tail(s), j - 1, T)
<1>0. /\ Len(T) \in Nat /\ Len(s) \in Nat /\ Len(s) = j + Len(T)
      /\ \A k \in 1..j : s[k] = ".."
      /\ \A k \in 1..Len(T) : s[j + k] = T[k]
  BY DEF Goes, Down, Path
<1>1. s # << >> /\ 1 \in 1..j /\ j - 1 \in Nat
  BY <1>0
<1>2. /\ Head(s) = s[1] /\ Len(Tail(s)) = Len(s) - 1
      /\ \A k \in 1..Len(Tail(s)) : k + 1 \in 1..Len(s) /\ Tail(s)[k] = s[k + 1]
  BY <1>1, TailFacts
<1>3. Len(Tail(s)) = (j - 1) + Len(T)
  BY <1>0, <1>2
<1>4. ASSUME NEW k \in 1..(j - 1) PROVE Tail(s)[k] = ".."
  <2>1. k \in 1..Len(Tail(s)) /\ k + 1 \in 1..j
    BY <1>0, <1>3
  <2> QED
    BY <1>0, <1>2, <2>1
<1>5. ASSUME NEW k \in 1..Len(T) PROVE Tail(s)[(j - 1) + k] = T[k]
  <2>1. (j - 1) + k \in 1..Len(Tail(s)) /\ ((j - 1) + k) + 1 = j + k
    BY <1>0, <1>1, <1>3
  <2> QED
    BY <1>0, <1>2, <2>1
<1> QED
  BY <1>0, <1>1, <1>2, <1>3, <1>4, <1>5 DEF Goes

(* and of one that does not *)
LEMMA GoesDown ==
    ASSUME NEW s \in Seq(Component), NEW T \in Down, Goes(s, 0, T)
    PROVE  s = T
<1>1. /\ Len(T) \in Nat /\ Len(s) = 0 + Len(T) /\ T \in Seq(Component)
      /\ \A k \in 1..Len(T) : s[0 + k] = T[k]
  BY PathIsComponents DEF Goes, Down, Path
<1>2. Len(s) = Len(T) /\ \A k \in 1..Len(T) : s[k] = T[k]
  BY <1>1
<1> QED
  BY <1>1, <1>2, SeqEqual

LEMMA ClimbsStep ==
    ASSUME Names \cap Roots = {}, NEW t,
           NEW rest, \A x \in Queries : \A j, T : Climbs(x, j, T) => Settles(t, rest[x], T),
           NEW q \in Queries, NEW j, NEW T, Climbs(q, j, T),
           Outside(q) /\ Walked(t, rest, q).st # "lost"
              => \A x \in Queries : Alike(q, x) => Same(Walked(t, rest, q), Resolve(t, x))
    PROVE  Settles(t, Walked(t, rest, q), T)
<1>0. /\ q.at \in Seq(Component) /\ q.todo \in Seq(Component) /\ Len(q.at) \in Nat
      /\ j \in Nat /\ T \in Beside /\ T \in Down /\ Goes(q.todo, j, T) /\ Len(q.at) <= j /\ q.follow
  BY QueryFields DEF Climbs, Beside
<1>1. CASE j # 0
  <2>1. q.todo # << >> /\ Head(q.todo) = ".." /\ j - 1 \in Nat /\ Goes(Tail(q.todo), j - 1, T)
    BY <1>0, <1>1, GoesUp
  <2>2. Walked(t, rest, q) = rest[Up(q)]
    BY <2>1 DEF Walked
  <2>3. /\ Up(q) \in Queries /\ Up(q).at = Parent(q.at) /\ Up(q).todo = Tail(q.todo)
        /\ Up(q).follow = q.follow
    BY <2>1, UpQuery, UpFields
  <2>4. Len(Parent(q.at)) <= j - 1
    <3>1. CASE q.at = << >>
      <4>1. Parent(q.at) = << >> /\ Len(<< >>) = 0
        BY <3>1 DEF Parent
      <4> QED
        BY <2>1, <4>1
    <3>2. CASE q.at # << >>
      <4>1. Len(Parent(q.at)) = Len(q.at) - 1
        BY <1>0, <3>2, ParentFacts
      <4> QED
        BY <1>0, <4>1
    <3> QED
      BY <3>1, <3>2
  <2>5. Climbs(Up(q), j - 1, T)
    BY <1>0, <2>1, <2>3, <2>4 DEF Climbs
  <2> QED
    BY <2>2, <2>3, <2>5
<1>2. CASE j = 0
  <2>1. q.todo = T /\ q.at = << >>
    BY <1>0, <1>2, GoesDown, EmptySeq
  <2>2. T \in Seq(Component) /\ \A k \in 1..Len(T) : T[k] \notin Mounts
    <3>1. /\ T \in Seq(Component) /\ Len(T) \in Nat /\ T[1] \notin Mounts
          /\ \A k \in 2..Len(T) : T[k] \in Names
      BY <1>0, PathIsComponents DEF Beside, Down, Path
    <3>2. \A k \in 1..Len(T) : k = 1 \/ k \in 2..Len(T)
      BY <3>1
    <3> QED
      BY <3>1, <3>2, MountIsRoot
  <2>3. Outside(q)
    BY <2>1, <2>2 DEF Outside
  <2>4. FromRoot(T) \in Queries /\ Alike(q, FromRoot(T))
    <3>1. /\ FromRoot(T).at = << >> /\ FromRoot(T).todo = T /\ FromRoot(T).follow
      BY DEF FromRoot, Query
    <3>2. FromRoot(T) \in Queries
      BY <2>2 DEF FromRoot, Query, Queries
    <3>3. q.follow = TRUE /\ FromRoot(T).follow = TRUE
      BY <1>0, QueryFields DEF FromRoot, Query
    <3> QED
      BY <2>1, <3>1, <3>2, <3>3 DEF Alike
  <2> QED
    BY <2>3, <2>4 DEF Settles
<1> QED
  BY <1>0, <1>1, <1>2

(* What the backend sees when it follows such a link *)
LEMMA LeadsStep ==
    ASSUME NEW t, WellFormed(t),
           NEW rest, \A x \in Queries : Good(t, rest[x]),
           NEW P \in DOMAIN t, t[P].t = "link", NEW j, NEW T, Leads(t[P].to, Len(P) - 1, j, T),
           \A x \in Queries : Climbs(x, j, T) \/ Nearing(x, P) => Settles(t, rest[x], T),
           NEW q \in Queries, Nearing(q, P)
    PROVE  Settles(t, Walked(t, rest, q), T)
<1> DEFINE to == t[P].to
<1>1. PICK x \in Queries :
        /\ Nearing(x, P) \/ Turned(x, P, to)
        /\ Walked(t, rest, q).st = rest[x].st /\ Walked(t, rest, q).at = rest[x].at
  BY NearingNext
<1>2. to.abs \in BOOLEAN /\ Leads(to, Len(P) - 1, j, T)
  BY DEF WellFormed, Target
<1> HIDE DEF to
<1>3. ASSUME Turned(x, P, to) PROVE Climbs(x, j, T)
  <2>1. Len(<< >>) = 0
    OBVIOUS
  <2> QED
    BY <1>2, <1>3, <2>1 DEF Leads, Turned, Climbs
<1> QED
  BY <1>1, <1>3 DEF Settles, Same

(* Where the property lets a walk end *)
Safe(t, res) == res.st = "ok" /\ Secret(t, res.at) => res.at[1] \in Mounts

(* The names of the links of overlays; paths down that go through none of them; and
   what Untangled says of a tree. *)
Linked(t) == {p[Len(p)] : p \in {l \in DOMAIN t : Len(l) > 1 /\ l[1] \in Mounts /\ t[l].t = "link"}}
Free(t, T) == \A k \in 1..(Len(T) - 1) : T[k] \notin Linked(t)
Passable(t) ==
    \A p \in DOMAIN t : t[p].t = "link" =>
        /\ Len(p) > 1
        /\ p[1] \in Mounts =>
             \E j \in Nat, T \in Down : Goes(t[p].to.path, j, T) /\ (t[p].to.abs => j = 0) /\ Free(t, T)

(* A walk of the program's, at the root or in an overlay *)
Kernel(q) ==
    /\ ~q.real /\ q.follow /\ q.busy = {}
    /\ q.at # << >> => q.at[1] \in Mounts

(* Such a walk that comes to an entry of an overlay, and one on the way to P *)
Homing(t, q, j, T) ==
    /\ Kernel(q) /\ j \in Nat /\ T \in Down /\ Goes(q.todo, j, T) /\ Free(t, T)
    /\ Len(q.at) <= j => T \notin Beside
Coming(q, P) ==
    /\ Kernel(q)
    /\ \E k \in 0..(Len(P) - 1) : q.at = SubSeq(P, 1, k) /\ q.todo = SubSeq(P, k + 1, Len(P))

LEMMA KernelNext ==
    ASSUME NEW q \in Queries, Kernel(q)
    PROVE  /\ Kernel(Up(q))
           /\ \A p : (p # << >> => p[1] \in Mounts) => Kernel(Onward(q, p))
           /\ \A to : Kernel(Redirected(q, to))
<1>1. q.at \in Seq(Component)
  BY QueryFields
<1>2. Kernel(Up(q))
  <2>1. /\ Up(q).at = Parent(q.at) /\ Up(q).real = (q.real /\ Len(q.at) > 1)
        /\ Up(q).follow = q.follow /\ Up(q).busy = q.busy
    BY UpFields
  <2>2. Parent(q.at) # << >> => q.at # << >> /\ Parent(q.at)[1] = q.at[1]
    BY <1>1, ParentFacts
  <2> QED
    BY <2>1, <2>2 DEF Kernel
<1>3. ASSUME NEW p, p # << >> => p[1] \in Mounts PROVE Kernel(Onward(q, p))
  BY <1>3, OnwardFields DEF Kernel
<1>4. ASSUME NEW to PROVE Kernel(Redirected(q, to))
  <2>1. /\ Redirected(q, to).at = (IF to.abs THEN << >> ELSE q.at)
        /\ Redirected(q, to).real = (~to.abs /\ q.real)
        /\ Redirected(q, to).follow = q.follow /\ Redirected(q, to).busy = q.busy
    BY RedirectedFields
  <2> QED
    BY <2>1 DEF Kernel
<1> QED
  BY <1>2, <1>3, <1>4

(* A lookup that the backend answers, as no one is busy *)
LEMMA EnterFuse ==
    ASSUME NEW t, WellFormed(t), NEW rest, \A x \in Queries : Good(t, rest[x]),
           NEW q \in Queries, Kernel(q), q.at # << >>, q.todo # << >>, Head(q.todo) \notin {".", ".."}
    PROVE  LET p == Append(q.at, Head(q.todo))
               inner == IF Inspected(q, p, t[p]) THEN rest[Inner(q, p)] ELSE Found("ok", p, << >>)
               next == Past(t, q, p, t[p], inner)
           IN /\ Fuse(q) /\ Len(p) = Len(q.at) + 1 /\ Len(p) > 1 /\ p[1] = q.at[1] /\ p[Len(p)] = Head(q.todo)
              /\ p \notin DOMAIN t => Walked(t, rest, q).st = "none"
              /\ p \in DOMAIN t /\ inner.st \in {"waits", "lost"} => Walked(t, rest, q) = inner
              /\ p \in DOMAIN t /\ inner.st \notin {"waits", "lost"}
                   => /\ next \in Queries
                      /\ Walked(t, rest, q).st = rest[next].st
                      /\ Walked(t, rest, q).at = rest[next].at
<1> DEFINE p == Append(q.at, Head(q.todo))
           inner == IF Inspected(q, p, t[p]) THEN rest[Inner(q, p)] ELSE Found("ok", p, << >>)
           next == Past(t, q, p, t[p], inner)
           pre == (IF Fuse(q) THEN <<p>> ELSE << >>) \o inner.seen
<1>0. q.at \in Seq(Component) /\ Len(q.at) \in Nat /\ Len(q.at) >= 1 /\ Head(q.todo) \in Component
  BY QueryFields
<1>1. Fuse(q) /\ q.busy = {}
  BY DEF Kernel, Fuse
<1>2. Len(p) = Len(q.at) + 1 /\ Len(p) > 1 /\ p[1] = q.at[1] /\ p[Len(p)] = Head(q.todo)
  BY <1>0
<1>3. Walked(t, rest, q) = Enter(t, rest, q, p)
  BY DEF Walked
<1> HIDE DEF p
<1>4. ASSUME p \notin DOMAIN t PROVE Walked(t, rest, q).st = "none"
  BY <1>1, <1>3, <1>4 DEF Enter, Found
<1>5. ASSUME p \in DOMAIN t PROVE Walked(t, rest, q) = Through(t, rest, q, p, inner)
  BY <1>1, <1>3, <1>5 DEF Enter
<1>6. ASSUME p \in DOMAIN t, inner.st \in {"waits", "lost"} PROVE Walked(t, rest, q) = inner
  <2> HIDE DEF inner
  <2> QED
    BY <1>5, <1>6 DEF Through
<1>7. ASSUME p \in DOMAIN t, inner.st \notin {"waits", "lost"}
      PROVE  /\ next \in Queries
             /\ Walked(t, rest, q).st = rest[next].st /\ Walked(t, rest, q).at = rest[next].at
  <2>1. next \in Queries
    BY <1>7, PastQuery
  <2> HIDE DEF inner
  <2>2. Walked(t, rest, q) = Before(pre, rest[next])
    BY <1>5, <1>7 DEF Through
  <2> HIDE DEF next, pre
  <2>3. rest[next] \in Result
    BY <2>1 DEF Good
  <2>4. Before(pre, rest[next]).st = rest[next].st /\ Before(pre, rest[next]).at = rest[next].at
    BY <2>3 DEF Before, Result
  <2> QED
    BY <2>1, <2>2, <2>4
<1> HIDE DEF inner, next
<1> QED
  BY <1>1, <1>2, <1>4, <1>6, <1>7 DEF p, inner, next

LEMMA FirstCut ==
    ASSUME NEW S, NEW s \in Seq(S), Len(s) >= 1, NEW c \in S, s[1] = c
    PROVE  SubSeq(s, 1, 1) = <<c>>
<1>1. Len(s) \in Nat /\ 1 \in 0..Len(s)
  OBVIOUS
<1>2. SubSeq(s, 1, 1) \in Seq(S) /\ Len(SubSeq(s, 1, 1)) = 1 /\ SubSeq(s, 1, 1)[1] = c
  BY <1>1, Cut
<1>3. <<c>> \in Seq(S) /\ Len(<<c>>) = 1 /\ <<c>>[1] = c
  OBVIOUS
<1>4. \A i \in 1..1 : SubSeq(s, 1, 1)[i] = <<c>>[i]
  BY <1>2, <1>3
<1> QED
  BY <1>2, <1>3, <1>4, SeqEqual

(* A walk of the backend's to the node P of its overlay *)
LEMMA StartsNearing ==
    ASSUME NEW P \in Path, Len(P) > 1, NEW q, q.at = <<P[1]>>, q.todo = Tail(P), q.real, q.follow
    PROVE  Nearing(q, P)
<1>0. P \in Seq(Roots \cup Names) /\ Len(P) \in Nat
  BY DEF Path
<1>1. 1 \in 1..(Len(P) - 1) /\ 1 \in 0..Len(P)
  BY <1>0
<1>2. SubSeq(P, 1, 1) = <<P[1]>>
  <2>1. P[1] \in Roots \cup Names
    BY <1>0
  <2> QED
    BY <1>0, <2>1, FirstCut
<1>3. SubSeq(P, 1 + 1, Len(P)) = Tail(P)
  BY <1>0
<1> QED
  BY <1>1, <1>2, <1>3 DEF Nearing

(* The test of attr finds such a link to lead out. *)
LEMMA LeadsOut ==
    ASSUME NEW t, WellFormed(t), NEW p \in DOMAIN t, p[1] \in Mounts, Len(p) > 1,
           NEW to \in Target, NEW j, NEW T, Leads(to, Len(p) - 1, j, T)
    PROVE  ~symlink_target_within_overlay(p[1], Tail(p), to)
<1>1. p \in Path /\ p # << >> /\ Tail(p) \in Rel
  <2>1. p # << >>
    BY DEF WellFormed
  <2> QED
    BY <2>1, SplitBelow
<1>2. PICK rel \in Rel : rel = Tail(p) /\ Len(rel) = Len(p) - 1 /\ Len(p) \in Nat
  BY <1>1, TailFacts DEF Path
<1>3. rel # << >>
  <2>1. rel \in Seq(Names) /\ Len(rel) >= 1
    BY <1>2 DEF Rel
  <2> QED
    BY <2>1, EmptySeq
<1>4. /\ j \in Nat /\ T \in Beside /\ T \in Down /\ Goes(to.path, j, T)
      /\ IF to.abs THEN j = 0 ELSE Len(p) - 1 <= j
  BY DEF Leads, Beside
<1>5. PICK m \in Mounts : m = p[1]
  OBVIOUS
<1>6. symlink_target_within_overlay(m, rel, to)
        <=> \/ ~to.abs /\ j < Len(rel)
            \/ T # << >> /\ T[1] = m
  BY <1>3, <1>4, WithinMeans
<1>7. T[1] # m
  BY <1>4 DEF Beside
<1>8. to.abs \/ ~(j < Len(rel))
  BY <1>2, <1>4
<1> QED
  BY <1>2, <1>5, <1>6, <1>7, <1>8

(* The lookup of an entry: a link that leads to a secret beside the overlays is
   shown as a file, for the backend saw where the kernel would go. *)
LEMMA EntrySafe ==
    ASSUME NEW t, WellFormed(t), Passable(t),
           NEW rest, \A x \in Queries : Good(t, rest[x]),
           \A x \in Queries : \A j, T : Homing(t, x, j, T) => Safe(t, rest[x]),
           \A x \in Queries : \A j, T : Climbs(x, j, T) => Settles(t, rest[x], T),
           \A x \in Queries : \A P \in DOMAIN t : \A j, T :
              t[P].t = "link" /\ Leads(t[P].to, Len(P) - 1, j, T) /\ Nearing(x, P) => Settles(t, rest[x], T),
           NEW q \in Queries, Kernel(q), q.at # << >>, Len(q.todo) = 1, Head(q.todo) \in Names,
           Append(q.at, Head(q.todo)) \in DOMAIN t
    PROVE  Safe(t, Walked(t, rest, q))
<1> DEFINE p == Append(q.at, Head(q.todo))
           to == t[p].to
           inner == IF Inspected(q, p, t[p]) THEN rest[Inner(q, p)] ELSE Found("ok", p, << >>)
           next == Past(t, q, p, t[p], inner)
<1>0. /\ q.at \in Seq(Component) /\ Len(q.at) \in Nat /\ q.todo \in Seq(Component)
      /\ q.todo # << >> /\ Head(q.todo) \notin {".", ".."} /\ Tail(q.todo) = << >>
  <2> HIDE DEF p, to, inner, next
  <2>1. q.todo \in Seq(Component) /\ q.at \in Seq(Component)
    BY QueryFields
  <2>2. Head(q.todo) \notin {".", ".."}
    BY PathsAssumption
  <2>3. q.todo # << >> /\ Len(q.at) \in Nat
    BY <2>1
  <2>4. Tail(q.todo) \in Seq(Component) /\ Len(Tail(q.todo)) = 0
    BY <2>1, <2>3, TailFacts
  <2>5. Tail(q.todo) = << >>
    BY <2>4, EmptySeq
  <2> QED
    BY <2>1, <2>2, <2>3, <2>5
<1>1. /\ Fuse(q) /\ Len(p) = Len(q.at) + 1 /\ Len(p) > 1 /\ p[1] = q.at[1] /\ p \in DOMAIN t
      /\ inner.st \in {"waits", "lost"} => Walked(t, rest, q) = inner
      /\ inner.st \notin {"waits", "lost"} => /\ next \in Queries
                                              /\ Walked(t, rest, q).st = rest[next].st
                                              /\ Walked(t, rest, q).at = rest[next].at
  BY <1>0, EnterFuse
<1> HIDE DEF p
<1>2. p[1] \in Mounts /\ p # << >> /\ p \in Path
  <2>1. p \in Path /\ p # << >>
    BY <1>1, SplitBelow DEF WellFormed
  <2> QED
    BY <1>1, <2>1 DEF Kernel
<1>3. CASE inner.st \in {"waits", "lost"}
  <2> HIDE DEF inner, next
  <2> QED
    BY <1>1, <1>3 DEF Safe
<1>s. ASSUME inner.st \notin {"waits", "lost"}, Safe(t, rest[next]) PROVE Safe(t, Walked(t, rest, q))
  <2> HIDE DEF inner, next
  <2>1. Walked(t, rest, q).st = rest[next].st /\ Walked(t, rest, q).at = rest[next].at
    BY <1>1, <1>s
  <2> QED
    BY <1>s, <2>1 DEF Safe
<1> SUFFICES ASSUME inner.st \notin {"waits", "lost"} PROVE Safe(t, rest[next])
  <2> HIDE DEF inner, next
  <2> QED
    BY <1>3, <1>s
<1>4. CASE next = Onward(q, p)
  <2>1. Onward(q, p).at = p /\ Onward(q, p).todo = << >>
    BY <1>0, OnwardFields
  <2>2. Kernel(Onward(q, p))
    BY <1>2, KernelNext
  <2>3. << >> \in Down /\ Goes(<< >>, 0, << >>) /\ Free(t, << >>) /\ << >> \notin Beside
    BY DEF Down, Path, Goes, Free, Beside
  <2>4. Homing(t, Onward(q, p), 0, << >>)
    BY <2>1, <2>2, <2>3 DEF Homing
  <2> HIDE DEF inner, next
  <2> QED
    BY <1>1, <1>4, <2>4
<1>5. CASE next # Onward(q, p)
  <2>1. /\ t[p].t = "link" /\ next = Redirected(q, to)
        /\ ~(inner.st = "ok" /\ inner.at # p /\ Secret(t, inner.at))
    <3> HIDE DEF inner
    <3> QED
      BY <1>5 DEF Past
  <2>2. to \in Target /\ to.path \in Seq(Component) /\ to.abs \in BOOLEAN
    BY <1>1 DEF WellFormed, Target
  <2>3. PICK j \in Nat, T \in Down : Goes(to.path, j, T) /\ (to.abs => j = 0) /\ Free(t, T)
    BY <1>1, <1>2, <2>1 DEF Passable
  <2> HIDE DEF next, to
  <2>4. /\ next.at = (IF to.abs THEN << >> ELSE q.at) /\ next.todo = to.path
        /\ Kernel(next) /\ next \in Queries /\ next.follow
    <3>1. to.path \o << >> = to.path
      BY <2>2
    <3>2. /\ Redirected(q, to).at = (IF to.abs THEN << >> ELSE q.at)
          /\ Redirected(q, to).todo = to.path \o Tail(q.todo)
      BY RedirectedFields
    <3>3. Kernel(Redirected(q, to))
      BY KernelNext
    <3> HIDE DEF inner
    <3> QED
      BY <1>0, <1>1, <2>1, <3>1, <3>2, <3>3 DEF Kernel
  <2>5. CASE Len(next.at) <= j => T \notin Beside
    <3>1. Homing(t, next, j, T)
      BY <2>3, <2>4, <2>5 DEF Homing
    <3> QED
      BY <2>4, <3>1
  <2>6. CASE Len(next.at) <= j /\ T \in Beside
    <3>1. Climbs(next, j, T)
      BY <2>3, <2>4, <2>6 DEF Climbs
    <3>2. Leads(to, Len(p) - 1, j, T)
      <4>1. CASE to.abs
        BY <2>3, <2>6, <4>1 DEF Leads
      <4>2. CASE ~to.abs
        <5>1. Len(p) - 1 <= j
          BY <1>0, <1>1, <2>4, <2>6, <4>2
        <5> QED
          BY <2>3, <2>6, <4>2, <5>1 DEF Leads
      <4> QED
        BY <4>1, <4>2
    <3>3. ~symlink_target_within_overlay(p[1], Tail(p), to)
      <4> HIDE DEF inner
      <4> QED
        BY <1>1, <1>2, <2>2, <3>2, LeadsOut
    <3>4. Inspected(q, p, t[p])
      BY <1>1, <2>1, <3>3 DEF Inspected, to
    <3>5. inner = rest[Inner(q, p)]
      BY <3>4
    <3>6. Inner(q, p) \in Queries /\ Nearing(Inner(q, p), p)
      <4>1. /\ Inner(q, p).at = <<p[1]>> /\ Inner(q, p).todo = Tail(p)
            /\ Inner(q, p).real /\ Inner(q, p).follow
        BY DEF Inner, Query
      <4> QED
        BY <1>1, <1>2, <4>1, InnerQuery, StartsNearing
    <3> HIDE DEF inner
    <3>7. Settles(t, inner, T)
      BY <1>1, <2>1, <3>2, <3>5, <3>6 DEF to
    <3>8. Settles(t, rest[next], T)
      BY <2>4, <3>1
    <3>9. SUFFICES ASSUME rest[next].st = "ok", Secret(t, rest[next].at) PROVE FALSE
      BY DEF Safe
    <3>10. inner.st = "ok" /\ inner.at = rest[next].at
      BY <3>7, <3>8, <3>9 DEF Settles, Same
    <3>11. inner.at # p
      BY <2>1, <3>9, <3>10 DEF Secret
    <3> QED
      BY <2>1, <3>9, <3>10, <3>11
  <2> QED
    BY <2>5, <2>6
<1> QED
  BY <1>4, <1>5

(* A walk on the way to an entry of an overlay ends where it may. *)
LEMMA HomingStep ==
    ASSUME Names \cap Roots = {}, NEW t, WellFormed(t), Passable(t),
           NEW rest, \A x \in Queries : Good(t, rest[x]),
           \A x \in Queries : \A j, T : Homing(t, x, j, T) => Safe(t, rest[x]),
           \A x \in Queries : \A j, T : Climbs(x, j, T) => Settles(t, rest[x], T),
           \A x \in Queries : \A P \in DOMAIN t : \A j, T :
              t[P].t = "link" /\ Leads(t[P].to, Len(P) - 1, j, T) /\ Nearing(x, P) => Settles(t, rest[x], T),
           NEW q \in Queries, NEW j, NEW T, Homing(t, q, j, T)
    PROVE  Safe(t, Walked(t, rest, q))
<1>0. /\ q.at \in Seq(Component) /\ q.todo \in Seq(Component) /\ Len(q.at) \in Nat
      /\ Kernel(q) /\ j \in Nat /\ T \in Down /\ Goes(q.todo, j, T) /\ Free(t, T)
      /\ Len(q.at) <= j => T \notin Beside
  BY QueryFields DEF Homing
<1>d. T \in Seq(Roots \cup Names) /\ Len(T) \in Nat /\ \A k \in 2..Len(T) : T[k] \in Names
  BY <1>0 DEF Down, Path
<1>1. CASE j # 0
  <2>1. q.todo # << >> /\ Head(q.todo) = ".." /\ j - 1 \in Nat /\ Goes(Tail(q.todo), j - 1, T)
    BY <1>0, <1>1, GoesUp
  <2>2. Walked(t, rest, q) = rest[Up(q)]
    BY <2>1 DEF Walked
  <2>3. Up(q) \in Queries /\ Up(q).at = Parent(q.at) /\ Up(q).todo = Tail(q.todo) /\ Kernel(Up(q))
    BY <1>0, <2>1, UpQuery, UpFields, KernelNext
  <2>4. Len(Parent(q.at)) <= j - 1 => T \notin Beside
    <3>1. CASE q.at = << >>
      <4>1. Len(q.at) = 0
        BY <3>1
      <4> QED
        BY <1>0, <4>1
    <3>2. CASE q.at # << >>
      <4>1. Len(Parent(q.at)) = Len(q.at) - 1
        BY <1>0, <3>2, ParentFacts
      <4> QED
        BY <1>0, <4>1
    <3> QED
      BY <3>1, <3>2
  <2>5. Homing(t, Up(q), j - 1, T)
    BY <1>0, <2>1, <2>3, <2>4 DEF Homing
  <2> QED
    BY <2>2, <2>3, <2>5
<1>2. CASE j = 0 /\ T = << >>
  <2>1. q.todo = << >>
    BY <1>0, <1>2, GoesDown
  <2>2. Walked(t, rest, q).st = "ok" /\ Walked(t, rest, q).at = q.at
    BY <2>1 DEF Walked, Found
  <2>3. q.at \in DOMAIN t => q.at[1] \in Mounts
    BY <1>0 DEF WellFormed, Kernel
  <2> QED
    BY <2>2, <2>3 DEF Safe, Secret
<1>3. CASE j = 0 /\ T # << >>
  <2>1. q.todo = T
    BY <1>0, <1>3, GoesDown
  <2>2. /\ Head(T) = T[1] /\ T[1] \in Roots \cup Names /\ T[1] \notin {".", ".."}
        /\ Len(T) >= 1 /\ Tail(T) \in Seq(Roots \cup Names) /\ Len(Tail(T)) = Len(T) - 1
        /\ \A k \in 1..Len(Tail(T)) : k + 1 \in 1..Len(T) /\ Tail(T)[k] = T[k + 1]
    <3>1. /\ Head(T) = T[1] /\ Len(T) >= 1
          /\ Tail(T) \in Seq(Roots \cup Names) /\ Len(Tail(T)) = Len(T) - 1
          /\ \A k \in 1..Len(Tail(T)) : k + 1 \in 1..Len(T) /\ Tail(T)[k] = T[k + 1]
      BY <1>d, <1>3, TailFacts
    <3>2. T[1] \in Roots \cup Names
      BY <1>d, <3>1
    <3> QED
      BY <3>1, <3>2, PathsAssumption
  <2>t. Tail(T) \in Down /\ Goes(Tail(T), 0, Tail(T)) /\ Free(t, Tail(T))
    <3>1. Tail(T) \in Down
      <4>1. ASSUME NEW k \in 2..Len(Tail(T)) PROVE Tail(T)[k] \in Names
        <5>1. k \in 1..Len(Tail(T)) /\ k + 1 \in 2..Len(T)
          BY <1>d, <2>2
        <5> QED
          BY <1>d, <2>2, <5>1
      <4> QED
        BY <2>2, <4>1 DEF Down, Path
    <3>2. Goes(Tail(T), 0, Tail(T))
      <4>1. Len(Tail(T)) \in Nat
        BY <1>d, <2>2
      <4> QED
        BY <4>1 DEF Goes
    <3>3. ASSUME NEW k \in 1..(Len(Tail(T)) - 1) PROVE Tail(T)[k] \notin Linked(t)
      <4>1. k \in 1..Len(Tail(T)) /\ k + 1 \in 1..(Len(T) - 1)
        BY <1>d, <2>2
      <4> QED
        BY <1>0, <2>2, <4>1 DEF Free
    <3> QED
      BY <3>1, <3>2, <3>3 DEF Free
  <2>3. CASE q.at = << >>
    <3> DEFINE p == Append(q.at, Head(q.todo))
               next == IF t[p].t = "link" /\ (q.follow \/ Len(q.todo) > 1)
                       THEN Redirected(q, t[p].to) ELSE Onward(q, p)
    <3>1. ~Fuse(q)
      BY <2>3 DEF Fuse
    <3>2. /\ p \in Seq(Component) /\ Len(p) = Len(q.at) + 1 /\ p[Len(p)] = Head(q.todo)
          /\ p \notin DOMAIN t => Walked(t, rest, q).st = "none"
          /\ p \in DOMAIN t => /\ next \in Queries
                               /\ Walked(t, rest, q).st = rest[next].st
                               /\ Walked(t, rest, q).at = rest[next].at
      BY <1>3, <2>1, <2>2, <3>1, EnterReal
    <3> HIDE DEF p
    <3>3. Len(p) = 1 /\ p[1] = T[1]
      <4>1. Len(q.at) = 0
        BY <2>3
      <4> QED
        BY <2>1, <2>2, <3>2, <4>1
    <3>4. CASE p \notin DOMAIN t
      BY <3>2, <3>4 DEF Safe
    <3>5. CASE p \in DOMAIN t
      <4>1. T[1] \in Roots /\ t[p].t # "link"
        BY <3>3, <3>5 DEF WellFormed, Passable
      <4>2. T \notin Beside /\ T[1] \in Mounts
        <5>0. Len(q.at) = 0
          BY <2>3
        <5>1. Len(q.at) <= j
          BY <1>3, <5>0
        <5> QED
          BY <1>0, <1>3, <4>1, <5>1 DEF Beside
      <4>3. next = Onward(q, p)
        BY <4>1
      <4> HIDE DEF next
      <4>4. Kernel(next) /\ next.at = p /\ next.todo = Tail(T)
        BY <1>0, <2>1, <3>3, <4>2, <4>3, KernelNext, OnwardFields
      <4>8. Homing(t, next, 0, Tail(T))
        <5>1. ~(Len(next.at) <= 0)
          BY <3>3, <4>4
        <5> QED
          BY <2>t, <4>4, <5>1 DEF Homing
      <4>9. Safe(t, rest[next])
        BY <3>2, <3>5, <4>8
      <4> QED
        BY <3>2, <3>5, <4>9 DEF Safe
    <3> QED
      BY <3>4, <3>5
  <2>4. CASE q.at # << >>
    <3> DEFINE p == Append(q.at, Head(q.todo))
    <3>0. /\ Len(p) > 1 /\ p[Len(p)] = Head(q.todo) /\ p[1] = q.at[1]
          /\ p \notin DOMAIN t => Walked(t, rest, q).st = "none"
      BY <1>0, <1>3, <2>1, <2>2, <2>4, EnterFuse
    <3>1. /\ Len(p) > 1 /\ p[Len(p)] = Head(q.todo) /\ p[1] \in Mounts
          /\ p \notin DOMAIN t => Walked(t, rest, q).st = "none"
      BY <1>0, <2>4, <3>0 DEF Kernel
    <3> HIDE DEF p
    <3>2. CASE p \notin DOMAIN t
      BY <3>1, <3>2 DEF Safe
    <3>3. CASE p \in DOMAIN t
      <4>1. T[1] \in Names
        <5>1. p \in Seq(Roots \cup Names) /\ \A k \in 2..Len(p) : p[k] \in Names
          BY <3>3 DEF WellFormed
        <5>2. Len(p) \in 2..Len(p)
          BY <3>1, <5>1
        <5> QED
          BY <2>1, <2>2, <3>1, <5>1, <5>2
      <4>2. CASE Len(T) = 1
        BY <1>0, <2>1, <2>2, <2>4, <3>3, <4>1, <4>2, EntrySafe DEF p
      <4>3. CASE Len(T) # 1
        <5> DEFINE inner == IF Inspected(q, p, t[p]) THEN rest[Inner(q, p)] ELSE Found("ok", p, << >>)
                   next == Past(t, q, p, t[p], inner)
        <5>1. t[p].t # "link"
          <6>1. T[1] \notin Linked(t)
            <7>1. 1 \in 1..(Len(T) - 1)
              BY <1>d, <2>2, <4>3
            <7> QED
              BY <1>0, <7>1 DEF Free
          <6> HIDE DEF next, inner
          <6> QED
            BY <2>1, <2>2, <3>1, <3>3, <6>1 DEF Linked
        <5>2. p \in DOMAIN t /\ inner.st \notin {"waits", "lost"}
                => /\ next \in Queries
                   /\ Walked(t, rest, q).st = rest[next].st
                   /\ Walked(t, rest, q).at = rest[next].at
          BY <1>0, <1>3, <2>1, <2>2, <2>4, EnterFuse DEF p
        <5>3. inner.st = "ok"
          BY <5>1 DEF Inspected, Found
        <5>4. next = Onward(q, p)
          <6> HIDE DEF inner
          <6> QED
            BY <5>1 DEF Past
        <5> HIDE DEF next, inner
        <5>5. Kernel(next) /\ next.at = p /\ next.todo = Tail(T)
          BY <1>0, <2>1, <3>1, <5>4, KernelNext, OnwardFields
        <5>6. ~(Len(next.at) <= 0)
          BY <3>1, <5>5
        <5>7. Homing(t, next, 0, Tail(T))
          BY <2>t, <5>5, <5>6 DEF Homing
        <5> QED
          BY <3>3, <5>2, <5>3, <5>7 DEF Safe
      <4> QED
        BY <4>2, <4>3
    <3> QED
      BY <3>2, <3>3
  <2> QED
    BY <2>3, <2>4
<1> QED
  BY <1>0, <1>1, <1>2, <1>3

(* So does one on the way to the node P of an overlay: what is above P are
   directories, and the lookup of P is that of an entry. *)
LEMMA ComingStep ==
    ASSUME NEW t, WellFormed(t), Passable(t),
           NEW rest, \A x \in Queries : Good(t, rest[x]),
           \A x \in Queries : \A j, T : Homing(t, x, j, T) => Safe(t, rest[x]),
           \A x \in Queries : \A j, T : Climbs(x, j, T) => Settles(t, rest[x], T),
           \A x \in Queries : \A P \in DOMAIN t : \A j, T :
              t[P].t = "link" /\ Leads(t[P].to, Len(P) - 1, j, T) /\ Nearing(x, P) => Settles(t, rest[x], T),
           NEW P \in DOMAIN t, P[1] \in Mounts, Len(P) > 1,
           \A x \in Queries : Coming(x, P) => Safe(t, rest[x]),
           NEW q \in Queries, Coming(q, P)
    PROVE  Safe(t, Walked(t, rest, q))
<1> DEFINE p == Append(q.at, Head(q.todo))
<1>0. /\ P \in Seq(Roots \cup Names) /\ Len(P) \in Nat /\ P \in Seq(Component)
      /\ \A k \in 2..Len(P) : P[k] \in Names
      /\ q.at \in Seq(Component) /\ q.todo \in Seq(Component) /\ Kernel(q)
  <2>1. P \in Seq(Roots \cup Names) /\ \A k \in 2..Len(P) : P[k] \in Names
    BY DEF WellFormed
  <2> QED
    BY <2>1, QueryFields, PathIsComponents DEF Coming, Path
<1>1. PICK k \in 0..(Len(P) - 1) : q.at = SubSeq(P, 1, k) /\ q.todo = SubSeq(P, k + 1, Len(P))
  BY DEF Coming
<1>2. k \in Nat /\ k < Len(P) /\ k \in 0..Len(P) /\ k + 1 \in 1..Len(P) /\ k + 1 \in 0..Len(P)
  BY <1>0
<1>3. /\ Len(q.at) = k /\ \A i \in 1..k : q.at[i] = P[i]
      /\ Len(q.todo) = Len(P) - k
      /\ q.todo # << >> /\ Head(q.todo) = P[k + 1]
      /\ Tail(q.todo) = SubSeq(P, k + 2, Len(P))
  <2>1. Len(q.at) = k /\ \A i \in 1..k : q.at[i] = P[i]
    BY <1>0, <1>1, <1>2, Cut
  <2> HIDE DEF p
  <2> QED
    BY <1>0, <1>1, <1>2, <2>1, RestFacts
<1>4. Head(q.todo) \in Roots \cup Names /\ Head(q.todo) \notin {".", ".."} /\ Head(q.todo) \in Component
  <2>1. P[k + 1] \in Roots \cup Names
    BY <1>0, <1>2
  <2> QED
    BY <1>3, <2>1, PathsAssumption DEF Component
<1>5. p \in Seq(Component) /\ Len(p) = k + 1 /\ (\A i \in 1..k : p[i] = q.at[i]) /\ p[k + 1] = Head(q.todo)
  BY <1>0, <1>3, <1>4
<1>6. p = SubSeq(P, 1, k + 1)
  <2> HIDE DEF p
  <2>1. /\ SubSeq(P, 1, k + 1) \in Seq(Component) /\ Len(SubSeq(P, 1, k + 1)) = k + 1
        /\ \A i \in 1..(k + 1) : SubSeq(P, 1, k + 1)[i] = P[i]
    BY <1>0, <1>2, Cut
  <2>2. ASSUME NEW i \in 1..(k + 1) PROVE p[i] = P[i]
    <3>1. i = k + 1 \/ i \in 1..k
      BY <1>2
    <3> QED
      BY <1>3, <1>5, <3>1
  <2> QED
    BY <1>5, <2>1, <2>2, SeqEqual
<1>7. CASE k + 1 = Len(P)
  <2> HIDE DEF p
  <2>1. p = P
    BY <1>0, <1>6, <1>7, WholeCut
  <2>2. k + 1 \in 2..Len(P) /\ Len(q.todo) = 1
    BY <1>0, <1>3, <1>7
  <2>3. q.at # << >> /\ Head(q.todo) \in Names
    <3>1. Len(q.at) >= 1
      BY <1>0, <1>3, <1>7
    <3> QED
      BY <1>0, <1>3, <2>2, <3>1, EmptySeq
  <2> QED
    BY <1>0, <2>1, <2>2, <2>3, EntrySafe DEF p
<1>8. CASE k + 1 # Len(P)
  <2>1. k + 1 \in 1..(Len(P) - 1) /\ k + 1 \in 0..(Len(P) - 1)
    BY <1>0, <1>2, <1>8
  <2>2. p \in DOMAIN t /\ t[p].t = "dir"
    BY <1>6, <2>1, Above
  <2>3. Coming(Onward(q, p), P)
    <3> HIDE DEF p
    <3>1. p[1] \in Mounts
      <4>1. 1 \in 1..(k + 1)
        BY <1>2
      <4>2. p[1] = P[1]
        BY <1>0, <1>2, <1>6, <4>1, Cut
      <4> QED
        BY <4>2
    <3>2. Kernel(Onward(q, p))
      BY <1>0, <3>1, KernelNext
    <3>3. k + 2 = (k + 1) + 1
      BY <1>2
    <3>4. Onward(q, p).at = p /\ Onward(q, p).todo = Tail(q.todo)
      BY OnwardFields
    <3>5. Onward(q, p).at = SubSeq(P, 1, k + 1) /\ Onward(q, p).todo = SubSeq(P, (k + 1) + 1, Len(P))
      BY <1>3, <1>6, <3>3, <3>4
    <3> QED
      BY <2>1, <3>2, <3>5 DEF Coming
  <2>4. /\ Onward(q, p) \in Queries
        /\ Walked(t, rest, q).st = rest[Onward(q, p)].st /\ Walked(t, rest, q).at = rest[Onward(q, p)].at
    <3>1. CASE q.at = << >>
      <4> DEFINE next == IF t[p].t = "link" /\ (q.follow \/ Len(q.todo) > 1)
                         THEN Redirected(q, t[p].to) ELSE Onward(q, p)
      <4>1. ~Fuse(q)
        BY <3>1 DEF Fuse
      <4>2. p \in DOMAIN t => /\ next \in Queries
                              /\ Walked(t, rest, q).st = rest[next].st
                              /\ Walked(t, rest, q).at = rest[next].at
        BY <1>3, <1>4, <4>1, EnterReal
      <4>3. next = Onward(q, p)
        BY <2>2
      <4> HIDE DEF next, p
      <4> QED
        BY <2>2, <4>2, <4>3
    <3>2. CASE q.at # << >>
      <4> DEFINE inner == IF Inspected(q, p, t[p]) THEN rest[Inner(q, p)] ELSE Found("ok", p, << >>)
                 next == Past(t, q, p, t[p], inner)
      <4>0. Kernel(q) /\ q.todo # << >> /\ Head(q.todo) \notin {".", ".."}
        BY <1>0, <1>3, <1>4
      <4>1. p \in DOMAIN t /\ inner.st \notin {"waits", "lost"}
              => /\ next \in Queries
                 /\ Walked(t, rest, q).st = rest[next].st
                 /\ Walked(t, rest, q).at = rest[next].at
        BY <3>2, <4>0, EnterFuse
      <4> HIDE DEF p
      <4>2. inner.st = "ok"
        BY <2>2 DEF Inspected, Found
      <4>3. next = Onward(q, p)
        <5> HIDE DEF inner
        <5> QED
          BY <2>2 DEF Past
      <4> HIDE DEF next, inner
      <4> QED
        BY <2>2, <4>1, <4>2, <4>3
    <3> QED
      BY <3>1, <3>2
  <2> HIDE DEF p
  <2> QED
    BY <2>3, <2>4 DEF Safe
<1> QED
  BY <1>7, <1>8

(* Where the kernel comes to when it resolves the name of a link *)
LEMMA ServedWalk ==
    ASSUME Names \cap Roots = {}, NEW t, WellFormed(t), Passable(t), Apart(t),
           NEW P \in DOMAIN t, P[1] \in Mounts, Len(P) > 1
    PROVE  Safe(t, Resolve(t, Query(<< >>, FALSE, P, TRUE, {})))
<1>1. PICK w : WalkOf(t, w)
  BY ResolveSteps DEF WalkOf
<1>g. \A n \in 0..MaxSteps : \A q \in Queries : Good(t, w[n][q])
  BY <1>1, WalkGood
<1> DEFINE Outer(q, res) == Outside(q) /\ res.st # "lost"
                              => \A x \in Queries : Alike(q, x) => Same(res, Resolve(t, x))
           Leading(q, res) == \A p \in DOMAIN t : \A j, T :
                                t[p].t = "link" /\ Leads(t[p].to, Len(p) - 1, j, T) /\ Nearing(q, p)
                                  => Settles(t, res, T)
           Climbing(q, res) == \A j, T : Climbs(q, j, T) => Settles(t, res, T)
           Homecoming(q, res) == \A j, T : Homing(t, q, j, T) => Safe(t, res)
           A == [q \in Queries |-> {res \in Result : Good(t, res) /\ Outer(q, res)}]
           B == [q \in Queries |-> {res \in Result : /\ Leading(q, res) /\ Climbing(q, res)
                                                     /\ Homecoming(q, res)
                                                     /\ Coming(q, P) => Safe(t, res)}]
<1>2. \A n \in 0..MaxSteps : \A q \in Queries : w[n][q] \in A[q]
  <2> SUFFICES ASSUME NEW n \in 0..MaxSteps, NEW q \in Queries PROVE w[n][q] \in A[q]
    OBVIOUS
  <2>1. Good(t, w[n][q]) /\ w[n][q] \in Result
    BY <1>g DEF Good
  <2>2. Outer(q, w[n][q])
    BY <1>1, <1>g, OutsideSettles
  <2> HIDE DEF Outer
  <2> QED
    BY <2>1, <2>2
<1>3. \A q \in Queries : Found("lost", q.at, << >>) \in B[q]
  <2> SUFFICES ASSUME NEW q \in Queries PROVE Found("lost", q.at, << >>) \in B[q]
    OBVIOUS
  <2>1. Found("lost", q.at, << >>).st = "lost" /\ Found("lost", q.at, << >>) \in Result
    BY QueryFields, FoundGood DEF Good, Found
  <2>2. \A T : Settles(t, Found("lost", q.at, << >>), T)
    BY <2>1 DEF Settles
  <2>3. Safe(t, Found("lost", q.at, << >>))
    BY <2>1 DEF Safe
  <2> QED
    BY <2>1, <2>2, <2>3
<1>4. ASSUME NEW rest, \A x \in Queries : rest[x] \in A[x] /\ rest[x] \in B[x],
             \A x \in Queries : Walked(t, rest, x) \in A[x]
      PROVE  \A q \in Queries : Walked(t, rest, q) \in B[q]
  <2> SUFFICES ASSUME NEW q \in Queries PROVE Walked(t, rest, q) \in B[q]
    OBVIOUS
  <2>1. \A x \in Queries : Good(t, rest[x])
    BY <1>4
  <2>2. \A x \in Queries : Leading(x, rest[x])
    <3> HIDE DEF Leading, Climbing, Homecoming, Outer, A
    <3> QED
      BY <1>4
  <2>3. \A x \in Queries : Climbing(x, rest[x])
    <3> HIDE DEF Leading, Climbing, Homecoming, Outer, A
    <3> QED
      BY <1>4
  <2>4. \A x \in Queries : Homecoming(x, rest[x])
    <3> HIDE DEF Leading, Climbing, Homecoming, Outer, A
    <3> QED
      BY <1>4
  <2>5. \A x \in Queries : Coming(x, P) => Safe(t, rest[x])
    <3> HIDE DEF Leading, Climbing, Homecoming, Outer, A
    <3> QED
      BY <1>4
  <2>6. Walked(t, rest, q) \in Result /\ Outer(q, Walked(t, rest, q))
    <3> HIDE DEF Outer, B
    <3> QED
      BY <1>4
  <2> HIDE DEF A
  <2>7. \A x \in Queries : \A p \in DOMAIN t : \A j, T :
          t[p].t = "link" /\ Leads(t[p].to, Len(p) - 1, j, T) /\ Nearing(x, p) => Settles(t, rest[x], T)
    BY <2>2
  <2>8. \A x \in Queries : \A j, T : Climbs(x, j, T) => Settles(t, rest[x], T)
    BY <2>3
  <2>9. \A x \in Queries : \A j, T : Homing(t, x, j, T) => Safe(t, rest[x])
    BY <2>4
  <2> HIDE DEF B
  <2>10. ASSUME NEW p \in DOMAIN t, NEW j, NEW T, t[p].t = "link", Leads(t[p].to, Len(p) - 1, j, T),
                Nearing(q, p)
         PROVE  Settles(t, Walked(t, rest, q), T)
    <3>1. \A x \in Queries : Climbs(x, j, T) \/ Nearing(x, p) => Settles(t, rest[x], T)
      BY <2>7, <2>8, <2>10
    <3> QED
      BY <2>1, <2>10, <3>1, LeadsStep
  <2>11. ASSUME NEW j, NEW T, Climbs(q, j, T) PROVE Settles(t, Walked(t, rest, q), T)
    BY <2>6, <2>8, <2>11, ClimbsStep
  <2>12. ASSUME NEW j, NEW T, Homing(t, q, j, T) PROVE Safe(t, Walked(t, rest, q))
    BY <2>1, <2>7, <2>8, <2>9, <2>12, HomingStep
  <2>13. ASSUME Coming(q, P) PROVE Safe(t, Walked(t, rest, q))
    BY <2>1, <2>5, <2>7, <2>8, <2>9, <2>13, ComingStep
  <2>14. /\ Leading(q, Walked(t, rest, q)) /\ Climbing(q, Walked(t, rest, q))
         /\ Homecoming(q, Walked(t, rest, q))
    BY <2>10, <2>11, <2>12
  <2> HIDE DEF Leading, Climbing, Homecoming, Outer
  <2> QED
    BY <2>6, <2>13, <2>14 DEF B
<1>5. \A n \in 0..MaxSteps : \A q \in Queries : w[n][q] \in B[q]
  <2> HIDE DEF A, B
  <2> QED
    BY <1>1, <1>2, <1>3, <1>4, WalkInductionOn
<1>6. MaxSteps \in 0..MaxSteps
  BY PathsAssumption
<1> DEFINE query == Query(<< >>, FALSE, P, TRUE, {})
<1>7. query \in Queries /\ Coming(query, P)
  <2>1. P \in Seq(Component) /\ Len(P) \in Nat
    <3> HIDE DEF A, B, query
    <3>1. P \in Path
      BY SplitBelow
    <3>2. P \in Seq(Component)
      BY <3>1, PathIsComponents
    <3> QED
      BY <3>2
  <2>2. query \in Queries
    BY <2>1 DEF Query, Queries
  <2>3. /\ query.at = << >> /\ query.todo = P /\ ~query.real /\ query.follow /\ query.busy = {}
    BY DEF Query
  <2> HIDE DEF query
  <2>4. 0 \in 0..(Len(P) - 1) /\ SubSeq(P, 1, 0) = << >> /\ SubSeq(P, 0 + 1, Len(P)) = P
    <3>1. 0 \in 0..(Len(P) - 1) /\ 0 \in 0..Len(P) /\ 0 + 1 = 1
      BY <2>1
    <3>2. SubSeq(P, 1, 0) \in Seq(Component) /\ Len(SubSeq(P, 1, 0)) = 0
      BY <2>1, <3>1, Cut
    <3> QED
      BY <2>1, <3>1, <3>2, EmptySeq, WholeCut
  <2>5. Kernel(query)
    BY <2>3 DEF Kernel
  <2> QED
    BY <2>2, <2>3, <2>4, <2>5 DEF Coming
<1>8. Resolve(t, query) \in B[query]
  <2> HIDE DEF B, query
  <2> QED
    BY <1>1, <1>5, <1>6, <1>7 DEF WalkOf
<1> HIDE DEF Leading, Climbing, Homecoming, Outer, A, query
<1>9. Safe(t, Resolve(t, query))
  BY <1>7, <1>8
<1> QED
  BY <1>9 DEF query

(* What the property says of the links of overlays is what the walk needs. *)
LEMMA UntangledPassable ==
    ASSUME Held, Untangled
    PROVE  Passable(tree)
<1>1. ASSUME NEW p \in DOMAIN tree, tree[p].t = "link" PROVE Len(p) > 1 /\ tree[p].to \in Target
  BY <1>1 DEF Held, Origin, WellFormed
<1>2. ASSUME NEW p \in DOMAIN tree, tree[p].t = "link", p[1] \in Mounts
      PROVE  \E j \in Nat, T \in Down :
                Goes(tree[p].to.path, j, T) /\ (tree[p].to.abs => j = 0) /\ Free(tree, T)
  <2> DEFINE to == tree[p].to
  <2>1. p \in Links /\ to \in Target
    BY <1>1, <1>2 DEF Links
  <2>2. /\ Straight(to)
        /\ \A l \in Links, k \in 1..(Len(to.path) - 1) : to.path[k] # l[Len(l)]
    BY <2>1 DEF Untangled
  <2> HIDE DEF to
  <2>3. PICK j \in Nat, T \in Down : Goes(to.path, j, T) /\ (to.abs => j = 0)
    BY <2>1, <2>2, StraightIsPlain DEF Plain
  <2>4. ASSUME NEW k \in 1..(Len(T) - 1) PROVE T[k] \notin Linked(tree)
    <3>1. Len(T) \in Nat /\ Len(to.path) = j + Len(T)
      BY <2>3 DEF Goes, Down, Path
    <3>2. j + k \in 1..(Len(to.path) - 1) /\ k \in 1..Len(T)
      BY <3>1
    <3>3. T[k] = to.path[j + k]
      BY <2>3, <3>2 DEF Goes
    <3>4. \A l \in Links : T[k] # l[Len(l)]
      BY <2>2, <3>2, <3>3
    <3> QED
      BY <3>4 DEF Linked, Links
  <2>5. Free(tree, T)
    BY <2>4 DEF Free
  <2> QED
    BY <2>3, <2>5 DEF to
<1> QED
  BY <1>1, <1>2 DEF Passable

(* fs.rs attr "A symlink whose target is a secret must NOT be presented as a
   symlink", for any names, trees, targets and number of overlays, if links elsewhere
   mention none: whatever links the program makes, moves and removes, as long as no
   request was misled and no target goes on below a link, the name of a link in an
   overlay never brings the kernel to a file with a handler beside the overlays:
   attr has shown it as a file before, or the kernel comes to a node of an overlay. *)
THEOREM NamespaceServesSecrets ==
    ASSUME Names \cap Roots = {}, Apart(Given0)
    PROVE  Spec => []LinkedSecretIsServed
<1>1. Init => NumbersInv
  BY NumbersInit
<1>2. NumbersInv /\ [Next]_vars => NumbersInv'
  BY NumbersNext
<1>3. NumbersInv => LinkedSecretIsServed
  <2> SUFFICES ASSUME Held, Untangled, NEW p \in DOMAIN tree, Len(p) > 1, p[1] \in Mounts
               PROVE  Safe(tree, Resolve(tree, Query(<< >>, FALSE, p, TRUE, {})))
    BY DEF NumbersInv, LinkedSecretIsServed, Links, Safe
  <2>1. WellFormed(tree) /\ Passable(tree) /\ Apart(tree)
    BY UntangledPassable, OriginApart DEF Held
  <2> QED
    BY <2>1, ServedWalk
<1> QED
  BY <1>1, <1>2, <1>3, PTL DEF Spec
=============================================================================
