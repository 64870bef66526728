---------------------------- MODULE LaunchProofs ----------------------------
(***************************************************************************)
(* Proofs about Launch: what dedup_targets returns for any list of         *)
(* directories, and the safety properties of a run of airgap for any       *)
(* paths, command lines and failures.                                      *)
(***************************************************************************)
EXTENDS Launch, PicksProofs

(* The components of a path: strings.  The names the npm profile appends are *)
(* listed because the provers do not know a literal to be a string.          *)
Component == STRING \cup {"node_modules", "package.json", "package-lock.json", ".npmrc",
                          "_logs", "_cacache", "_update-notifier-last-checked",
                          ".gitconfig", ".npm"}

Path == Seq(Component)

LEMMA PathsArePaths == Paths \subseteq Path
<1>1. \A p \in Seq(STRING) : p \in Seq(Component)
  <2>1. STRING \subseteq Component
    BY DEF Component
  <2> DEFINE S == STRING
  <2> SUFFICES \A p \in Seq(S) : p \in Seq(Component)
    OBVIOUS
  <2>2. S \subseteq Component
    BY <2>1
  <2> HIDE DEF S
  <2> QED
    BY <2>2
<1> QED
  BY <1>1, LaunchAssumption DEF Path

(* starts_with compares components. *)
LEMMA StartsWith ==
    ASSUME NEW p \in Path, NEW q \in Path
    PROVE  starts_with(p, q) <=> Len(q) <= Len(p) /\ \A i \in 1..Len(q) : p[i] = q[i]
<1>1. ASSUME Len(q) <= Len(p)
      PROVE  SubSeq(p, 1, Len(q)) = q <=> \A i \in 1..Len(q) : p[i] = q[i]
  <2> DEFINE r == SubSeq(p, 1, Len(q))
  <2>1. r \in Seq(Component) /\ Len(r) = Len(q) /\ \A i \in 1..Len(q) : r[i] = p[i]
    BY <1>1 DEF Path
  <2>2. r = q <=> \A i \in 1..Len(q) : r[i] = q[i]
    <3> HIDE DEF r
    <3> QED
      BY <2>1 DEF Path
  <2> QED
    BY <2>1, <2>2
<1> QED
  BY <1>1 DEF starts_with

LEMMA StartsWithOrder ==
    /\ \A p \in Path : starts_with(p, p)
    /\ \A p, q, r \in Path : starts_with(p, q) /\ starts_with(q, r) => starts_with(p, r)
    /\ \A p, q \in Path : starts_with(p, q) => Len(q) <= Len(p)
<1>1. \A p \in Path : Len(p) \in Nat
  BY DEF Path
<1>2. ASSUME NEW p \in Path PROVE starts_with(p, p)
  BY <1>1, StartsWith
<1>3. ASSUME NEW p \in Path, NEW q \in Path, NEW r \in Path, starts_with(p, q), starts_with(q, r)
      PROVE  starts_with(p, r)
  <2>1. Len(r) <= Len(q) /\ Len(q) <= Len(p)
    BY <1>3 DEF starts_with
  <2>2. ASSUME NEW i \in 1..Len(r) PROVE p[i] = r[i]
    <3>1. i \in 1..Len(q)
      BY <1>1, <2>1
    <3> QED
      BY <1>3, <3>1, StartsWith
  <2> QED
    BY <1>1, <2>1, <2>2, StartsWith
<1> QED
  BY <1>2, <1>3 DEF starts_with

(* A path below another one *)
LEMMA StartsWithBelow ==
    ASSUME NEW p \in Path, NEW q \in Path, q # << >>
    PROVE  p \o q \in Path /\ starts_with(p \o q, p) /\ Len(p) < Len(p \o q)
<1>1. /\ p \o q \in Path /\ Len(p \o q) = Len(p) + Len(q)
      /\ \A i \in 1..Len(p) : (p \o q)[i] = p[i]
      /\ Len(p) \in Nat /\ Len(q) \in Nat /\ Len(q) > 0
  BY DEF Path
<1> DEFINE r == p \o q
<1>2. r \in Path /\ Len(p) < Len(r) /\ Len(r) \in Nat
  BY <1>1
<1>3. starts_with(r, p)
  <2>1. \A i \in 1..Len(p) : r[i] = p[i]
    BY <1>1
  <2> HIDE DEF r
  <2> QED
    BY <1>1, <1>2, <2>1, StartsWith
<1> QED
  BY <1>2, <1>3

-----------------------------------------------------------------------------
(* The loop of dedup_targets *)

IsKept(candidates, n, f) ==
    f = [i \in 0..n |-> IF i = 0 THEN {} ELSE Retain(candidates, f[i - 1], i)]

(* The recursion is well founded. *)
LEMMA KeptExists ==
    ASSUME NEW candidates, NEW n \in Nat
    PROVE  \E f : IsKept(candidates, n, f)
<1> DEFINE T == {m \in Nat : ~\E f : IsKept(candidates, m, f)}
<1> SUFFICES ASSUME T # {} PROVE FALSE
  OBVIOUS
<1>1. PICK m \in T : \A k \in T : m <= k
  <2>1. T \in SUBSET Nat
    OBVIOUS
  <2> HIDE DEF T
  <2> QED
    BY <2>1, LeastNatural
<1>2. m # 0
  <2> DEFINE f == [i \in 0..0 |-> {}]
  <2>1. IsKept(candidates, 0, f)
    BY DEF IsKept
  <2> QED
    BY <2>1
<1>3. m - 1 \in Nat /\ m - 1 \notin T
  <2>1. m \in Nat
    OBVIOUS
  <2> HIDE DEF T
  <2> QED
    BY <1>1, <1>2, <2>1
<1>4. PICK f : IsKept(candidates, m - 1, f)
  BY <1>3
<1> DEFINE g == [i \in 0..m |-> IF i = m THEN Retain(candidates, f[m - 1], m) ELSE f[i]]
<1>5. \A i \in 0..m : i # m => i \in 0..(m - 1) /\ g[i] = f[i]
  BY <1>2
<1>6. \A i \in 0..m : g[i] = IF i = 0 THEN {} ELSE Retain(candidates, g[i - 1], i)
  <2> SUFFICES ASSUME NEW i \in 0..m
               PROVE  g[i] = IF i = 0 THEN {} ELSE Retain(candidates, g[i - 1], i)
    OBVIOUS
  <2>1. i # 0 => i - 1 \in 0..(m - 1) /\ g[i - 1] = f[i - 1]
    BY <1>2, <1>5
  <2>2. CASE i = m
    BY <1>2, <2>1, <2>2
  <2>3. CASE i # m
    <3>1. f[i] = IF i = 0 THEN {} ELSE Retain(candidates, f[i - 1], i)
      BY <1>4, <1>5, <2>3 DEF IsKept
    <3> QED
      BY <1>5, <2>1, <2>3, <3>1
  <2> QED
    BY <2>2, <2>3
<1>7. IsKept(candidates, m, g)
  <2>1. g = [i \in 0..m |-> g[i]]
    OBVIOUS
  <2> HIDE DEF g
  <2> QED
    BY <1>6, <2>1 DEF IsKept
<1> QED
  BY <1>7

(* What holds of the places kept after i rounds: none of them lies below      *)
(* another, and every candidate so far lies below one of them.                 *)
KeptGood(candidates, kept, i) ==
    /\ kept \subseteq 1..i
    /\ \A j, k \in kept : j # k => ~starts_with(candidates[j], candidates[k])
    /\ \A c \in 1..i : \E j \in kept : starts_with(candidates[c], candidates[j])

LEMMA RetainKeepsGood ==
    ASSUME NEW candidates \in Seq(Path), NEW i \in 1..Len(candidates), NEW kept,
           KeptGood(candidates, kept, i - 1)
    PROVE  KeptGood(candidates, Retain(candidates, kept, i), i)
<1> DEFINE c(j) == candidates[j]
<1>1. Len(candidates) \in Nat /\ i \in Nat /\ \A j \in 1..i : c(j) \in Path
  OBVIOUS
<1>2. \A j \in 1..(i - 1) : j \in 1..i /\ j # i
  BY <1>1
<1>3. \A j \in 1..i : j = i \/ j \in 1..(i - 1)
  BY <1>1
<1>4. i \in 1..i
  BY <1>1
<1> HIDE DEF c
<1>5. CASE \E j \in kept : starts_with(c(i), c(j))
  <2>1. Retain(candidates, kept, i) = kept
    BY <1>5 DEF Retain, c
  <2>2. kept \subseteq 1..i
    BY <1>2 DEF KeptGood
  <2> QED
    BY <1>3, <1>5, <2>1, <2>2 DEF KeptGood, c
<1>6. CASE ~\E j \in kept : starts_with(c(i), c(j))
  <2> DEFINE new == {j \in kept : ~starts_with(c(j), c(i))} \cup {i}
  <2>1. Retain(candidates, kept, i) = new
    BY <1>6 DEF Retain, c
  <2>2. new \subseteq 1..i
    BY <1>2, <1>4 DEF KeptGood
  <2>3. ASSUME NEW j \in new, NEW k \in new, j # k
        PROVE  ~starts_with(c(j), c(k))
    BY <1>6, <2>3 DEF KeptGood, c
  <2>4. ASSUME NEW d \in 1..i PROVE \E j \in new : starts_with(c(d), c(j))
    <3>1. CASE d = i
      BY <1>1, <1>4, <3>1, StartsWithOrder
    <3>2. CASE d # i
      <4>1. PICK j \in kept : starts_with(c(d), c(j))
        BY <1>3, <3>2 DEF KeptGood, c
      <4>2. j \in 1..i
        BY <1>2 DEF KeptGood
      <4>3. CASE starts_with(c(j), c(i))
        BY <1>1, <1>4, <4>1, <4>2, <4>3, StartsWithOrder
      <4>4. CASE ~starts_with(c(j), c(i))
        BY <4>1, <4>4
      <4> QED
        BY <4>3, <4>4
    <3> QED
      BY <3>1, <3>2
  <2> HIDE DEF new
  <2> QED
    BY <2>1, <2>2, <2>3, <2>4 DEF KeptGood, c
<1> QED
  BY <1>5, <1>6

LEMMA AllKeptGood ==
    ASSUME NEW candidates \in Seq(Path), NEW f, IsKept(candidates, Len(candidates), f)
    PROVE  KeptGood(candidates, f[Len(candidates)], Len(candidates))
<1> DEFINE n == Len(candidates)
           T == {m \in 0..n : ~KeptGood(candidates, f[m], m)}
<1>0. n \in Nat
  OBVIOUS
<1> SUFFICES ASSUME T # {} PROVE FALSE
  BY <1>0
<1> HIDE DEF n
<1>1. PICK m \in T : \A k \in T : m <= k
  <2>1. T \in SUBSET Nat
    OBVIOUS
  <2> HIDE DEF T
  <2> QED
    BY <2>1, LeastNatural
<1>2. m \in 0..n /\ ~KeptGood(candidates, f[m], m)
  OBVIOUS
<1>3. f[m] = IF m = 0 THEN {} ELSE Retain(candidates, f[m - 1], m)
  BY <1>2 DEF IsKept, n
<1>4. m # 0
  <2> SUFFICES ASSUME m = 0 PROVE FALSE
    OBVIOUS
  <2>1. f[m] = {} /\ 1..m = {}
    BY <1>3
  <2> QED
    BY <1>2, <2>1 DEF KeptGood
<1>5. m - 1 \in 0..n /\ m \in 1..n /\ ~(m <= m - 1)
  BY <1>0, <1>2, <1>4
<1>6. KeptGood(candidates, f[m - 1], m - 1)
  BY <1>1, <1>5
<1>7. KeptGood(candidates, Retain(candidates, f[m - 1], m), m)
  BY <1>5, <1>6, RetainKeepsGood DEF n
<1> QED
  BY <1>2, <1>3, <1>4, <1>7

(* dedup_targets, for any list of directories: "the minimal set whose overlays *)
(* cover them all".  No target lies below another one, and every directory of  *)
(* the list lies below a target.                                               *)
THEOREM DedupTargets ==
    ASSUME NEW candidates \in Seq(Path)
    PROVE  LET targets == dedup_targets(candidates)
           IN /\ targets \in Seq(Path)
              /\ \A i \in DOMAIN targets : \E c \in DOMAIN candidates : targets[i] = candidates[c]
              /\ \A i, j \in DOMAIN targets : i # j => ~starts_with(targets[i], targets[j])
              /\ \A c \in DOMAIN candidates :
                    \E i \in DOMAIN targets : starts_with(candidates[c], targets[i])
<1> DEFINE n == Len(candidates)
           f == CHOOSE g : IsKept(candidates, n, g)
           I == f[n]
           t == Pick(candidates, I)
<1>1. n \in Nat /\ DOMAIN candidates = 1..n
  OBVIOUS
<1>2. IsKept(candidates, n, f)
  BY <1>1, KeptExists
<1>3. dedup_targets(candidates) = t
  BY DEF dedup_targets, IsKept
<1> HIDE DEF n, f
<1>4. KeptGood(candidates, I, n)
  BY <1>2, AllKeptGood DEF n
<1> HIDE DEF I
<1>5. I \in SUBSET DOMAIN candidates
  BY <1>1, <1>4 DEF KeptGood
<1>6. /\ t \in Seq(Path)
      /\ DOMAIN t = 1..Cardinality(I)
      /\ \A k \in DOMAIN t : Nth(I, k) \in I /\ t[k] = candidates[Nth(I, k)]
      /\ \A i \in I : \E k \in DOMAIN t : Nth(I, k) = i /\ t[k] = candidates[i]
  BY <1>5, PickElements
<1>7. \A j, k \in 1..Cardinality(I) : Nth(I, j) = Nth(I, k) => j = k
  BY <1>1, <1>5, NthOrder
<1> HIDE DEF t
<1>8. ASSUME NEW i \in DOMAIN t, NEW j \in DOMAIN t, i # j
      PROVE  ~starts_with(t[i], t[j])
  BY <1>4, <1>6, <1>7, <1>8 DEF KeptGood
<1>9. ASSUME NEW c \in DOMAIN candidates
      PROVE  \E i \in DOMAIN t : starts_with(candidates[c], t[i])
  <2>1. PICK j \in I : starts_with(candidates[c], candidates[j])
    BY <1>1, <1>4 DEF KeptGood
  <2> QED
    BY <1>6, <2>1
<1>10. \A i \in DOMAIN t : \E c \in DOMAIN candidates : t[i] = candidates[c]
  BY <1>5, <1>6
<1> QED
  BY <1>3, <1>6, <1>8, <1>9, <1>10

-----------------------------------------------------------------------------
(* The inductive invariant *)

Started == {"ready", "ca", "chdir", "proxy", "spawn", "wait"}
Serving == {"ca", "chdir", "proxy", "spawn", "wait"}

TypeInv ==
    /\ cli \in Clis
    /\ cwd \in Paths /\ home \in Paths \cup {NoHome}
    /\ mitm \in {"off", "asked", "up"}
    /\ pc \in Started \cup {"select", "setup", "unshare", "cwd", "mount",
                            "drop_sessions", "drop_mitm", "exited"}
    /\ child \in {"none", "running", "done"}
    /\ overlays \in Seq([dir : Path, real : {TRUE}, policy : {policy(profile, home, cwd)}])
    /\ todo \in Seq(Path)

(* The overlays are the targets in their order, as far as they are mounted,  *)
(* and todo has the rest.                                                    *)
Mounting ==
    /\ Len(overlays) <= Len(overlay_targets)
    /\ \A i \in DOMAIN overlays : overlays[i].dir = overlay_targets[i]
    /\ pc \in {"select", "setup", "unshare", "cwd"} => overlays = << >>
    /\ pc = "mount" =>
         /\ Len(overlays) + Len(todo) = Len(overlay_targets)
         /\ \A j \in DOMAIN todo : todo[j] = overlay_targets[Len(overlays) + j]
    /\ pc \in Started => Len(overlays) = Len(overlay_targets)
    /\ pc \in {"drop_mitm", "exited"} => overlays = << >>

(* What the steps before the spawn have set up *)
Progress ==
    /\ pc # "select" => profile = selected(cli)
    /\ pc \notin {"select", "exited"} => profile # NoName
    /\ pc \in {"proxy", "spawn", "wait"} => through
    /\ mitm = "up" /\ pc \in {"spawn", "wait"} => proxy # "none"
    /\ pc \in {"select", "setup", "unshare", "cwd", "mount"} =>
         ready = "empty" /\ netstack = "none"
    /\ ready = "ok" => netstack = "serving"
    /\ mitm = "up" /\ pc \in Serving => netstack = "serving"
    /\ child = "running" <=> pc = "wait"
    /\ pc = "wait" => hooked = (mitm = "up")
    /\ pc = "select" => mitm # "up"
    /\ pc = "exited" => (mitm = "up" => ~tmp)

Inv == TypeInv /\ Mounting /\ Progress

(* The targets of the working and home directory *)
LEMMA TargetsGood ==
    ASSUME cwd \in Paths, home \in Paths \cup {NoHome}
    PROVE  /\ overlay_targets \in Seq(Path)
           /\ \A i, j \in DOMAIN overlay_targets :
                 i # j => ~starts_with(overlay_targets[i], overlay_targets[j])
           /\ \A p \in {cwd, home} \ {NoHome} :
                 \E i \in DOMAIN overlay_targets : starts_with(p, overlay_targets[i])
<1>1. cwd \in Path /\ (home # NoHome => home \in Path)
  BY PathsArePaths, LaunchAssumption
<1>2. CASE home = NoHome
  <2> DEFINE c == <<cwd>>
  <2>1. c \in Seq(Path) /\ 1 \in DOMAIN c /\ c[1] = cwd
    BY <1>1
  <2>2. overlay_targets = dedup_targets(c)
    BY <1>2 DEF overlay_targets
  <2> HIDE DEF c
  <2> QED
    BY <1>2, <2>1, <2>2, DedupTargets
<1>3. CASE home # NoHome
  <2> DEFINE c == <<cwd, home>>
  <2>1. c \in Seq(Path) /\ 1 \in DOMAIN c /\ 2 \in DOMAIN c /\ c[1] = cwd /\ c[2] = home
    BY <1>1, <1>3
  <2>2. overlay_targets = dedup_targets(c)
    BY <1>3 DEF overlay_targets
  <2> HIDE DEF c
  <2> QED
    BY <1>3, <2>1, <2>2, DedupTargets
<1> QED
  BY <1>2, <1>3

LEMMA InitInv == Init => Inv
<1> SUFFICES ASSUME Init PROVE Inv
  OBVIOUS
<1>1. overlay_targets \in Seq(Path)
  BY TargetsGood DEF Init
<1>2. TypeInv
  BY DEF Init, TypeInv
<1>3. Mounting
  BY <1>1 DEF Init, Mounting, Started
<1>4. Progress
  BY DEF Init, Progress, Serving
<1> QED
  BY <1>2, <1>3, <1>4 DEF Inv

(* The overlays, the targets and the profile stay as they are. *)
Still == UNCHANGED <<cli, profile, cwd, home, overlays, todo>>

LEMMA StillKeeps ==
    ASSUME Inv, Still
    PROVE  /\ overlay_targets' = overlay_targets
           /\ policy(profile, home, cwd)' = policy(profile, home, cwd)
           /\ pc' = pc => Mounting'
  BY DEF Inv, Still, Mounting, overlay_targets, policy

(* The steps of the main thread that leave the overlays and the targets alone *)
LEMMA OtherSteps ==
    ASSUME Inv,
           \/ Setup \/ EnterNamespaces \/ StartNetstack \/ NetstackReady
           \/ MountBundle \/ Chdir \/ StartProxy \/ Spawn \/ ChildEnds \/ DropMitm
    PROVE  Inv'
<1> USE DEF Inv
<1>1. CASE Setup
  <2>1. Still
    BY <1>1 DEF Setup, Still
  <2>2. TypeInv'
    BY <1>1, <2>1, StillKeeps DEF Setup, Fail, Still, TypeInv, Started
  <2>3. Mounting'
    BY <1>1, <2>1, StillKeeps DEF Setup, Fail, Still, Mounting, Started
  <2>4. Progress'
    BY <1>1, <2>1 DEF Setup, Fail, Still, TypeInv, Progress, Serving
  <2> QED
    BY <2>2, <2>3, <2>4
<1>2. CASE EnterNamespaces
  <2>1. Still
    BY <1>2 DEF EnterNamespaces, Still
  <2>2. TypeInv'
    BY <1>2, <2>1, StillKeeps DEF EnterNamespaces, Fail, Still, TypeInv, Started
  <2>3. Mounting'
    BY <1>2, <2>1, StillKeeps DEF EnterNamespaces, Fail, Still, Mounting, Started
  <2>4. Progress'
    BY <1>2, <2>1 DEF EnterNamespaces, Fail, Still, TypeInv, Progress, Serving
  <2> QED
    BY <2>2, <2>3, <2>4
<1>3. CASE StartNetstack
  <2>1. Still
    BY <1>3 DEF StartNetstack, Still
  <2>0. Len(overlays) \in Nat /\ Len(todo) = 0 /\ pc = "mount"
    BY <1>3 DEF StartNetstack, TypeInv
  <2>5. Len(overlays) = Len(overlay_targets)
    BY <2>0 DEF Mounting
  <2>2. TypeInv'
    BY <1>3, <2>1, StillKeeps DEF StartNetstack, Fail, Still, TypeInv, Started
  <2>3. Mounting'
    BY <1>3, <2>0, <2>1, <2>5, StillKeeps DEF StartNetstack, Fail, Still, Mounting, Started
  <2>4. Progress'
    BY <1>3, <2>1 DEF StartNetstack, ThreadSteps, Fail, Still, TypeInv, Progress, Serving
  <2> QED
    BY <2>2, <2>3, <2>4
<1>4. CASE NetstackReady
  <2>1. Still
    BY <1>4 DEF NetstackReady, Still
  <2>2. TypeInv'
    BY <1>4, <2>1, StillKeeps DEF NetstackReady, Fail, Still, TypeInv, Started
  <2>3. Mounting'
    BY <1>4, <2>1, StillKeeps DEF NetstackReady, Fail, Still, Mounting, Started
  <2>4. Progress'
    BY <1>4, <2>1 DEF NetstackReady, Fail, Still, TypeInv, Progress, Serving
  <2> QED
    BY <2>2, <2>3, <2>4
<1>5. CASE MountBundle
  <2>1. Still
    BY <1>5 DEF MountBundle, Still
  <2>2. TypeInv'
    BY <1>5, <2>1, StillKeeps DEF MountBundle, Fail, Still, TypeInv, Started
  <2>3. Mounting'
    BY <1>5, <2>1, StillKeeps DEF MountBundle, Fail, Still, Mounting, Started
  <2>4. Progress'
    BY <1>5, <2>1 DEF MountBundle, Fail, Still, TypeInv, Progress, Serving
  <2> QED
    BY <2>2, <2>3, <2>4
<1>6. CASE Chdir
  <2>1. Still
    BY <1>6 DEF Chdir, Still
  <2>2. TypeInv'
    BY <1>6, <2>1, StillKeeps DEF Chdir, Fail, Still, TypeInv, Started
  <2>3. Mounting'
    BY <1>6, <2>1, StillKeeps DEF Chdir, Fail, Still, Mounting, Started
  <2>4. Progress'
    BY <1>6, <2>1 DEF Chdir, Fail, Still, TypeInv, Progress, Serving
  <2> QED
    BY <2>2, <2>3, <2>4
<1>7. CASE StartProxy
  <2>1. Still
    BY <1>7 DEF StartProxy, Still
  <2>2. TypeInv'
    BY <1>7, <2>1, StillKeeps DEF StartProxy, Fail, Still, TypeInv, Started
  <2>3. Mounting'
    BY <1>7, <2>1, StillKeeps DEF StartProxy, Fail, Still, Mounting, Started
  <2>4. Progress'
    BY <1>7, <2>1 DEF StartProxy, Fail, Still, TypeInv, Progress, Serving
  <2> QED
    BY <2>2, <2>3, <2>4
<1>8. CASE Spawn
  <2>1. Still
    BY <1>8 DEF Spawn, Still
  <2>2. TypeInv'
    BY <1>8, <2>1, StillKeeps DEF Spawn, Fail, Still, TypeInv, Started
  <2>3. Mounting'
    BY <1>8, <2>1, StillKeeps DEF Spawn, Fail, Still, Mounting, Started
  <2>4. Progress'
    BY <1>8, <2>1 DEF Spawn, Fail, Still, TypeInv, Progress, Serving
  <2> QED
    BY <2>2, <2>3, <2>4
<1>9. CASE ChildEnds
  <2>1. Still
    BY <1>9 DEF ChildEnds, Still
  <2>2. TypeInv'
    BY <1>9, <2>1, StillKeeps DEF ChildEnds, Fail, Still, TypeInv, Started
  <2>3. Mounting'
    BY <1>9, <2>1, StillKeeps DEF ChildEnds, Fail, Still, Mounting, Started
  <2>4. Progress'
    BY <1>9, <2>1 DEF ChildEnds, Fail, Still, TypeInv, Progress, Serving
  <2> QED
    BY <2>2, <2>3, <2>4
<1>10. CASE DropMitm
  <2>1. Still
    BY <1>10 DEF DropMitm, Still
  <2>2. TypeInv'
    BY <1>10, <2>1, StillKeeps DEF DropMitm, Fail, Still, TypeInv, Started
  <2>3. Mounting'
    BY <1>10, <2>1, StillKeeps DEF DropMitm, Fail, Still, Mounting, Started
  <2>4. Progress'
    BY <1>10, <2>1 DEF DropMitm, Fail, Still, TypeInv, Progress, Serving
  <2> QED
    BY <2>2, <2>3, <2>4
<1> QED
  BY <1>1, <1>2, <1>3, <1>4, <1>5, <1>6, <1>7, <1>8, <1>9, <1>10

LEMMA SelectStep == Inv /\ SelectProfile => Inv'
<1> SUFFICES ASSUME Inv, SelectProfile PROVE Inv'
  OBVIOUS
<1> USE DEF Inv
<1>1. overlay_targets' = overlay_targets
  BY DEF SelectProfile, overlay_targets
<1>2. overlays = << >> /\ overlays' = << >>
  BY DEF SelectProfile, Mounting
<1>3. TypeInv'
  BY <1>2 DEF SelectProfile, TypeInv, Started
<1>4. Mounting'
  BY <1>1, <1>2 DEF SelectProfile, Mounting, Started
<1>5. Progress'
  BY DEF SelectProfile, TypeInv, Progress, Serving
<1> QED
  BY <1>3, <1>4, <1>5

LEMMA TargetsStep == Inv /\ Targets => Inv'
<1> SUFFICES ASSUME Inv, Targets PROVE Inv'
  OBVIOUS
<1> USE DEF Inv
<1>1. /\ overlay_targets' = overlay_targets
      /\ policy(profile, home, cwd)' = policy(profile, home, cwd)
  BY DEF Targets, overlay_targets, policy
<1>2. overlays = << >> /\ overlays' = << >>
  BY DEF Targets, Mounting
<1>3. overlay_targets \in Seq(Path)
  BY TargetsGood DEF TypeInv
<1>4. TypeInv'
  BY <1>1, <1>2, <1>3 DEF Targets, Fail, TypeInv, Started
<1>5. Mounting'
  <2>1. CASE pc' = "mount" /\ todo' = overlay_targets
    <3>1. Len(overlays)' = 0 /\ DOMAIN todo' = 1..Len(overlay_targets)
      BY <1>2, <1>3, <2>1
    <3>2. \A j \in DOMAIN todo' : todo'[j] = overlay_targets[0 + j]
      BY <1>3, <2>1
    <3> QED
      BY <1>1, <1>2, <1>3, <2>1, <3>1, <3>2 DEF Mounting, Started
  <2>2. CASE pc' = "drop_sessions"
    BY <1>1, <1>2, <1>3, <2>2 DEF Mounting, Started
  <2> QED
    BY <2>1, <2>2 DEF Targets, Fail
<1>6. Progress'
  BY DEF Targets, Fail, TypeInv, Progress, Serving
<1> QED
  BY <1>4, <1>5, <1>6

(* One overlay is mounted.  None of the others covers its directory, because *)
(* no target lies below another one: its root fd is on the real directory.   *)
LEMMA MountStep == Inv /\ MountNext => Inv'
<1> SUFFICES ASSUME Inv, MountNext PROVE Inv'
  OBVIOUS
<1> USE DEF Inv
<1>1. /\ overlay_targets' = overlay_targets
      /\ policy(profile, home, cwd)' = policy(profile, home, cwd)
      /\ UNCHANGED <<cli, profile, cwd, home>>
  BY DEF MountNext, overlay_targets, policy
<1>2. /\ overlay_targets \in Seq(Path)
      /\ \A i, j \in DOMAIN overlay_targets :
             i # j => ~starts_with(overlay_targets[i], overlay_targets[j])
  BY TargetsGood DEF TypeInv
<1>3. Progress'
  BY DEF MountNext, Fail, TypeInv, Progress, Serving
<1>4. CASE UNCHANGED <<overlays, todo>> /\ pc' = "drop_sessions"
  <2>1. TypeInv'
    BY <1>1, <1>4 DEF MountNext, TypeInv
  <2>2. Mounting'
    BY <1>1, <1>4 DEF Mounting, Started
  <2> QED
    BY <1>3, <2>1, <2>2
<1>5. CASE /\ overlays' = Append(overlays, [dir |-> Head(todo), real |-> ~Covered(Head(todo)),
                                           policy |-> policy(profile, home, cwd)])
           /\ todo' = Tail(todo)
           /\ UNCHANGED pc
  <2> DEFINE n == Len(overlays)
             new == [dir |-> Head(todo), real |-> ~Covered(Head(todo)),
                     policy |-> policy(profile, home, cwd)]
             O == [dir : Path, real : {TRUE}, policy : {policy(profile, home, cwd)}]
  <2>1. /\ pc = "mount" /\ todo \in Seq(Path) /\ todo # << >> /\ overlays \in Seq(O)
        /\ n \in Nat /\ Len(todo) \in Nat /\ Len(todo) > 0 /\ 1 \in DOMAIN todo
        /\ Head(todo) = todo[1] /\ todo[1] \in Path
    BY DEF MountNext, TypeInv
  <2>2. /\ n + Len(todo) = Len(overlay_targets)
        /\ \A j \in DOMAIN todo : todo[j] = overlay_targets[n + j]
        /\ \A i \in DOMAIN overlays : overlays[i].dir = overlay_targets[i]
    BY <2>1 DEF Mounting
  <2>3. DOMAIN overlay_targets = 1..(n + Len(todo)) /\ DOMAIN overlays = 1..n
    BY <1>2, <2>1, <2>2
  <2>4. ~Covered(Head(todo))
    <3> SUFFICES ASSUME NEW i \in DOMAIN overlays, starts_with(Head(todo), overlays[i].dir)
                 PROVE  FALSE
      BY DEF Covered
    <3>1. Head(todo) = overlay_targets[n + 1] /\ overlays[i].dir = overlay_targets[i]
      BY <2>1, <2>2
    <3>2. i # n + 1 /\ i \in DOMAIN overlay_targets /\ n + 1 \in DOMAIN overlay_targets
      <4> HIDE DEF n
      <4> QED
        BY <2>1, <2>3
    <3> QED
      BY <1>2, <3>1, <3>2
  <2>5. new \in O
    BY <2>1, <2>4
  <2> HIDE DEF new, O
  <2>6. overlays' = Append(overlays, new)
    BY <1>5 DEF new
  <2>7. /\ overlays' \in Seq(O) /\ Len(overlays') = n + 1 /\ DOMAIN overlays' = 1..(n + 1)
        /\ \A i \in 1..n : overlays'[i] = overlays[i]
        /\ overlays'[n + 1] = new
    BY <2>1, <2>5, <2>6
  <2>8. /\ todo' \in Seq(Path) /\ Len(todo') = Len(todo) - 1 /\ DOMAIN todo' = 1..(Len(todo) - 1)
        /\ \A j \in DOMAIN todo' : todo'[j] = todo[j + 1] /\ j + 1 \in DOMAIN todo
    BY <1>5, <2>1
  <2>9. TypeInv'
    BY <1>1, <1>5, <2>7, <2>8 DEF TypeInv, O, MountNext
  <2> HIDE DEF n
  <2>10. Mounting'
    <3>1. Len(overlays') + Len(todo') = Len(overlay_targets)
      BY <2>1, <2>2, <2>7, <2>8
    <3>2. ASSUME NEW i \in DOMAIN overlays' PROVE overlays'[i].dir = overlay_targets[i]
      <4>1. CASE i \in 1..n
        BY <2>2, <2>3, <2>7, <4>1
      <4>2. CASE i = n + 1
        BY <2>1, <2>2, <2>7, <4>2 DEF new
      <4> QED
        BY <2>1, <2>7, <4>1, <4>2
    <3>3. ASSUME NEW j \in DOMAIN todo' PROVE todo'[j] = overlay_targets[Len(overlays') + j]
      <4>1. todo'[j] = overlay_targets[n + (j + 1)]
        BY <2>2, <2>8
      <4>2. n + (j + 1) = Len(overlays') + j
        BY <2>1, <2>7, <2>8
      <4> QED
        BY <4>1, <4>2
    <3>4. Len(overlays') <= Len(overlay_targets) /\ Len(todo') \in Nat
      BY <2>1, <2>2, <2>7, <2>8
    <3>5. pc' = "mount"
      BY <1>5, <2>1
    <3> QED
      BY <1>1, <3>1, <3>2, <3>3, <3>4, <3>5 DEF Mounting, Started
  <2> QED
    BY <1>3, <2>9, <2>10
<1> QED
  BY <1>4, <1>5 DEF MountNext, Fail

LEMMA DropStep == Inv /\ DropSessions => Inv'
<1> SUFFICES ASSUME Inv, DropSessions PROVE Inv'
  OBVIOUS
<1>1. overlay_targets' = overlay_targets
  BY DEF DropSessions, overlay_targets
<1>2. policy(profile, home, cwd)' = policy(profile, home, cwd)
  BY DEF DropSessions, policy
<1>3. Len(overlay_targets) \in Nat
  BY TargetsGood DEF Inv, TypeInv
<1>4. overlays' = << >> /\ Len(overlays') = 0 /\ DOMAIN overlays' = {}
  BY DEF DropSessions
<1>5. TypeInv'
  BY <1>2, <1>4 DEF DropSessions, Inv, TypeInv, Started
<1>6. Mounting'
  BY <1>1, <1>3, <1>4 DEF DropSessions, Mounting, Started
<1>7. Progress'
  BY DEF DropSessions, Inv, TypeInv, Progress, Serving
<1> QED
  BY <1>5, <1>6, <1>7 DEF Inv

LEMMA ThreadStep == Inv /\ Thread => Inv'
<1> SUFFICES ASSUME Inv, NEW i \in DOMAIN ThreadSteps,
                    NetstackStep(i) \/ \E how \in {"err", "closed"} : NetstackFails(i, how)
             PROVE  Inv'
  BY DEF Thread
<1> USE DEF Inv
<1>1. Still /\ UNCHANGED <<mitm, tmp, through, proxy, child, hooked, pc>>
  BY DEF NetstackStep, NetstackFails, Still
<1>2. netstack \notin {"none", "serving"} /\ pc # "exited"
  <2>1. i \in 1..6
    BY DEF ThreadSteps
  <2>2. ThreadSteps[i] \notin {"none", "serving"}
    BY <2>1 DEF ThreadSteps
  <2> QED
    BY <2>2 DEF NetstackStep, NetstackFails, ThreadAt
<1>3. ready' = "ok" => netstack' = "serving"
  BY <1>2 DEF NetstackStep, NetstackFails, Progress
<1>4. TypeInv'
  BY <1>1, StillKeeps DEF Still, TypeInv
<1>5. Mounting'
  BY <1>1, StillKeeps
<1>6. Progress'
  BY <1>1, <1>2, <1>3 DEF Still, TypeInv, Progress, Serving
<1> QED
  BY <1>4, <1>5, <1>6

LEMMA ProxyStep == Inv /\ ProxyThread => Inv'
<1> SUFFICES ASSUME Inv, ProxyThread PROVE Inv'
  OBVIOUS
<1> USE DEF Inv
<1>1. /\ Still /\ UNCHANGED <<mitm, tmp, through, netstack, ready, child, hooked, pc>>
      /\ proxy' # "none"
  BY DEF ProxyThread, Still
<1>2. TypeInv'
  BY <1>1, StillKeeps DEF Still, TypeInv
<1>3. Mounting'
  BY <1>1, StillKeeps
<1>4. Progress'
  BY <1>1 DEF Still, Progress, Serving
<1> QED
  BY <1>2, <1>3, <1>4

(* The invariant of a run of airgap: what is mounted, and what the steps before *)
(* the spawn have set up, whatever fails and however the threads interleave.    *)
THEOREM Invariant == Spec => []Inv
<1>1. Inv /\ UNCHANGED vars => Inv'
  <2> SUFFICES ASSUME Inv, UNCHANGED vars PROVE Inv'
    OBVIOUS
  <2>1. Still /\ UNCHANGED vars
    BY DEF Still, vars
  <2>2. TypeInv'
    BY <2>1, StillKeeps DEF Inv, TypeInv, Still, vars
  <2>3. Mounting'
    BY <2>1, StillKeeps DEF vars
  <2>4. Progress'
    BY DEF Inv, Progress, vars
  <2> QED
    BY <2>2, <2>3, <2>4 DEF Inv
<1>2. Inv /\ [Next]_vars => Inv'
  BY <1>1, SelectStep, TargetsStep, MountStep, DropStep, ThreadStep, ProxyStep, OtherSteps DEF Next, Main
<1> QED
  BY <1>2, InitInv, PTL DEF Spec

-----------------------------------------------------------------------------
(* What is mounted while the child runs *)
LEMMA AllMounted ==
    ASSUME Inv, pc = "wait"
    PROVE  /\ DOMAIN overlays = DOMAIN overlay_targets
           /\ \A i \in DOMAIN overlays : /\ overlays[i].dir = overlay_targets[i]
                                        /\ overlays[i].dir \in Path
                                        /\ overlays[i].real
                                        /\ overlays[i].policy = policy(profile, home, cwd)
           /\ \A i, j \in DOMAIN overlays :
                 i # j => ~starts_with(overlays[i].dir, overlays[j].dir)
           /\ \A p \in {cwd, home} \ {NoHome} :
                 p \in Path /\ \E i \in DOMAIN overlays : starts_with(p, overlays[i].dir)
<1> DEFINE O == [dir : Path, real : {TRUE}, policy : {policy(profile, home, cwd)}]
<1>1. cwd \in Paths /\ home \in Paths \cup {NoHome} /\ overlays \in Seq(O)
  BY DEF Inv, TypeInv
<1>2. /\ Len(overlays) = Len(overlay_targets)
      /\ \A i \in DOMAIN overlays : overlays[i].dir = overlay_targets[i]
  BY DEF Inv, Mounting, Started
<1>3. DOMAIN overlays = DOMAIN overlay_targets
  <2>1. overlay_targets \in Seq(Path)
    BY <1>1, TargetsGood
  <2> HIDE DEF O
  <2> QED
    BY <1>1, <1>2, <2>1
<1>4. \A i \in DOMAIN overlays : overlays[i] \in O
  <2> HIDE DEF O
  <2> QED
    BY <1>1
<1>5. \A p \in {cwd, home} \ {NoHome} : p \in Path
  BY <1>1, PathsArePaths
<1>6. \A i \in DOMAIN overlays : /\ overlays[i].dir \in Path /\ overlays[i].real
                                /\ overlays[i].policy = policy(profile, home, cwd)
  BY <1>4
<1>7. /\ \A i, j \in DOMAIN overlay_targets :
            i # j => ~starts_with(overlay_targets[i], overlay_targets[j])
      /\ \A p \in {cwd, home} \ {NoHome} :
            \E i \in DOMAIN overlay_targets : starts_with(p, overlay_targets[i])
  BY <1>1, TargetsGood
<1> QED
  BY <1>2, <1>3, <1>5, <1>6, <1>7

(* ChildIsContained, for any directories and any failures: while the child    *)
(* runs, its directories lie under overlays whose root fd is on the real      *)
(* directory, and its traffic goes to the stack and from there to the proxy   *)
(* thread, which was started before it.                                       *)
THEOREM Containment == Spec => []ChildIsContained
<1>1. Inv => ChildIsContained
  <2> SUFFICES ASSUME Inv, child = "running" PROVE ChildIsContained
    BY DEF ChildIsContained
  <2>1. pc = "wait"
    BY DEF Inv, Progress
  <2>2. policy(profile, home, cwd).redact
    BY DEF policy, Npm, AiAgent, Policy
  <2>3. through /\ (mitm = "up" => hooked /\ netstack = "serving" /\ proxy # "none")
    BY <2>1 DEF Inv, Progress, Serving
  <2> QED
    BY <2>1, <2>2, <2>3, AllMounted DEF ChildIsContained
<1> QED
  BY <1>1, Invariant, PTL

(* TargetsNeverNest: at every point of a run, no overlay is mounted below *)
(* another one.                                                           *)
THEOREM NoNesting == Spec => []TargetsNeverNest
<1>1. Inv => TargetsNeverNest
  <2> SUFFICES ASSUME Inv, NEW i \in DOMAIN overlays, NEW j \in DOMAIN overlays, i # j
               PROVE  ~starts_with(overlays[i].dir, overlays[j].dir)
    BY DEF TargetsNeverNest
  <2>1. /\ overlay_targets \in Seq(Path)
        /\ \A a, b \in DOMAIN overlay_targets :
               a # b => ~starts_with(overlay_targets[a], overlay_targets[b])
    BY TargetsGood DEF Inv, TypeInv
  <2>2. /\ Len(overlays) <= Len(overlay_targets)
        /\ overlays[i].dir = overlay_targets[i] /\ overlays[j].dir = overlay_targets[j]
    BY DEF Inv, Mounting
  <2>3. DOMAIN overlays = 1..Len(overlays) /\ Len(overlays) \in Nat
    BY DEF Inv, TypeInv
  <2>4. i \in DOMAIN overlay_targets /\ j \in DOMAIN overlay_targets
    BY <2>1, <2>2, <2>3
  <2> QED
    BY <2>1, <2>2, <2>4
<1> QED
  BY <1>1, Invariant, PTL

(* CleansUp: whichever step fails, the run exits with nothing mounted and *)
(* without the artifacts of a MitM that came up.                          *)
THEOREM CleanExit == Spec => []CleansUp
<1>1. Inv => CleansUp
  BY DEF Inv, Mounting, Progress, CleansUp
<1> QED
  BY <1>1, Invariant, PTL

LEMMA Tuples ==
    ASSUME NEW S, NEW m \in S, NEW n \in S
    PROVE  <<n>> \in Seq(S) \ {<< >>} /\ <<m, n>> \in Seq(S) \ {<< >>}
<1>1. <<n>> \in Seq(S) /\ Len(<<n>>) = 1
  OBVIOUS
<1>2. <<m, n>> \in Seq(S) /\ Len(<<m, n>>) = 2
  OBVIOUS
<1>3. Len(<< >>) = 0
  OBVIOUS
<1> QED
  BY <1>1, <1>2, <1>3

(* What is approved in advance lies strictly below the working or the home *)
(* directory.                                                              *)
LEMMA PreapprovedBelow ==
    ASSUME cwd \in Path, cwd # NoHome, home # NoHome => home \in Path,
           NEW p \in preapproved_paths(home, cwd)
    PROVE  \E d \in {cwd, home} \ {NoHome} :
              d \in Path /\ p \in Path /\ starts_with(p, d) /\ Len(d) < Len(p)
<1>1. \A m, n \in Component : <<n>> \in Path \ {<< >>} /\ <<m, n>> \in Path \ {<< >>}
  BY Tuples DEF Path
<1>2. \/ \E n \in Component : p = cwd \o <<n>>
      \/ home # NoHome /\ \E m, n \in Component : p = home \o <<n>> \/ p = home \o <<m, n>>
  <2> DEFINE A == {"node_modules", "package.json", "package-lock.json", ".npmrc"}
             B == {"_logs", "_cacache", "_update-notifier-last-checked"}
             C == {".gitconfig", ".npmrc"}
             m == ".npm"
  <2>1. A \subseteq Component /\ B \subseteq Component /\ C \subseteq Component /\ m \in Component
    BY DEF Component
  <2>2. \/ p \in {cwd \o <<n>> : n \in A}
        \/ home # NoHome /\ p \in {home \o <<m, n>> : n \in B}
        \/ home # NoHome /\ p \in {home \o <<n>> : n \in C}
    BY DEF preapproved_paths
  <2> HIDE DEF A, B, C, m
  <2> QED
    BY <2>1, <2>2
<1>3. CASE \E n \in Component : p = cwd \o <<n>>
  <2>1. PICK q \in Path : q # << >> /\ p = cwd \o q
    BY <1>1, <1>3
  <2> QED
    BY <2>1, StartsWithBelow
<1>4. CASE home # NoHome /\ \E m, n \in Component : p = home \o <<n>> \/ p = home \o <<m, n>>
  <2>1. PICK q \in Path : q # << >> /\ p = home \o q
    BY <1>1, <1>4
  <2> QED
    BY <1>4, <2>1, StartsWithBelow
<1> QED
  BY <1>2, <1>3, <1>4

(* PolicyApplied: only a recognized program runs unless the command line says  *)
(* otherwise; a package manager is asked about on every overlay, and what it   *)
(* was granted in advance lies under an overlay and never covers a whole one.  *)
THEOREM PolicyIsApplied == Spec => []PolicyApplied
<1>1. Inv => PolicyApplied
  <2> SUFFICES ASSUME Inv, child = "running", cli.profile = NoName PROVE PolicyApplied
    BY DEF PolicyApplied
  <2> DEFINE npm == program_basename(cli.program) \in NPM_PROGRAMS
             P == policy(profile, home, cwd)
  <2>1. pc = "wait" /\ profile = selected(cli) /\ profile # NoName
    BY DEF Inv, Progress
  <2>2. cli.allow_unknown \/ program_basename(cli.program) \in NPM_PROGRAMS \cup AI_AGENTS
    BY <2>1 DEF selected, resolve, is_npm, is_ai_agent
  <2>3. profile = "npm" <=> npm
    BY <2>1, LaunchAssumption DEF selected, resolve, is_npm, is_ai_agent, unrestricted
  <2>4. P.asks = npm /\ (P.allowed = IF npm THEN preapproved_paths(home, cwd) ELSE {})
    <3> HIDE DEF npm
    <3>1. CASE npm
      BY <2>3, <3>1 DEF policy, Npm, Policy
    <3>2. CASE ~npm
      BY <2>3, <3>2 DEF policy, AiAgent, Policy
    <3> QED
      BY <3>1, <3>2
  <2>5. ASSUME NEW p \in P.allowed
        PROVE  /\ \E j \in DOMAIN overlays : starts_with(p, overlays[j].dir)
               /\ \A j \in DOMAIN overlays : ~starts_with(overlays[j].dir, p)
    <3>1. cwd \in Path /\ cwd # NoHome /\ (home # NoHome => home \in Path)
      BY PathsArePaths, LaunchAssumption DEF Inv, TypeInv
    <3>2. PICK d \in {cwd, home} \ {NoHome} :
             d \in Path /\ p \in Path /\ starts_with(p, d) /\ Len(d) < Len(p)
      BY <2>4, <2>5, <3>1, PreapprovedBelow
    <3>3. PICK k \in DOMAIN overlays : starts_with(d, overlays[k].dir)
      BY <2>1, <3>2, AllMounted
    <3>4. /\ \A j \in DOMAIN overlays : overlays[j].dir \in Path
          /\ \A i, j \in DOMAIN overlays : i # j => ~starts_with(overlays[i].dir, overlays[j].dir)
      BY <2>1, AllMounted
    <3>5. starts_with(p, overlays[k].dir) /\ Len(overlays[k].dir) <= Len(d)
      BY <3>2, <3>3, <3>4, StartsWithOrder
    <3>6. ASSUME NEW j \in DOMAIN overlays, starts_with(overlays[j].dir, p) PROVE FALSE
      <4>1. starts_with(overlays[j].dir, overlays[k].dir) /\ Len(p) <= Len(overlays[j].dir)
        BY <3>2, <3>4, <3>5, <3>6, StartsWithOrder
      <4>2. overlays[j].dir = overlays[k].dir
        BY <3>4, <4>1
      <4>3. Len(overlays[k].dir) \in Nat /\ Len(d) \in Nat /\ Len(p) \in Nat
        BY <3>2, <3>4 DEF Path
      <4> QED
        BY <3>2, <3>5, <4>1, <4>2, <4>3
    <3> QED
      BY <3>5, <3>6
  <2>6. \A i \in DOMAIN overlays : overlays[i].policy = P
    BY <2>1, AllMounted
  <2> HIDE DEF P
  <2> QED
    BY <2>2, <2>4, <2>5, <2>6 DEF PolicyApplied
<1> QED
  BY <1>1, Invariant, PTL
=============================================================================
