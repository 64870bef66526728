------------------------------- MODULE Paths -------------------------------
(***************************************************************************)
(* Paths and links of a tree of which some directories are overlays        *)
(* (src/fs.rs): which links the backend takes for links back into its own  *)
(* mount, and what the kernel does (external) when the backend has it      *)
(* resolve a path.                                                         *)
(*                                                                         *)
(* A path is a sequence of components from the root of the file system; an *)
(* overlay is mounted on each <<m>>.  A tree is a function from paths to   *)
(* nodes.                                                                  *)
(***************************************************************************)
EXTENDS Naturals, Sequences

CONSTANTS
    Names,      \* names of directory entries
    Roots,      \* the directories of the root: overlays and others
    Mounts,     \* those with an overlay
    MaxSteps    \* bound: steps after which a walk counts as one without end
                \* (the kernel gives up after 40 links, ELOOP)

ASSUME PathsAssumption ==
    /\ Mounts \subseteq Roots
    /\ {".", ".."} \cap (Names \cup Roots) = {}
    /\ MaxSteps \in Nat

Component == Names \cup Roots \cup {".", ".."}

Node(t, id, to) == [t |-> t, id |-> id, to |-> to]
NoTarget == [abs |-> FALSE, path |-> << >>]
Target == [abs : BOOLEAN, path : Seq(Component)]

(* Every node of a tree lies below directories, from a directory of the root on. *)
WellFormed(tree) ==
    \A p \in DOMAIN tree :
        /\ p \in Seq(Roots \cup Names) /\ p # << >> /\ p[1] \in Roots
        /\ \A k \in 2..Len(p) : p[k] \in Names
        /\ \A k \in 1..(Len(p) - 1) : /\ SubSeq(p, 1, k) \in DOMAIN tree
                                      /\ tree[SubSeq(p, 1, k)].t = "dir"
        /\ tree[p].to \in Target

Secret(tree, at) == at \in DOMAIN tree /\ tree[at].t = "secret"

starts_with(p, prefix) ==
    Len(prefix) <= Len(p) /\ SubSeq(p, 1, Len(prefix)) = prefix

Parent(p) == IF p = << >> THEN p ELSE SubSeq(p, 1, Len(p) - 1)

(* Mutant of lexically_normalize: the path is left as it is. *)
unnormalized(p) == p

(* lexically_normalize, on the components of a path *)
lexically_normalize(p) ==
    LET out[k \in 0..Len(p)] ==
          IF k = 0 THEN << >>
          ELSE CASE p[k] = "."  -> out[k - 1]
                 [] p[k] = ".." -> Parent(out[k - 1])
                 [] OTHER       -> Append(out[k - 1], p[k])
    IN out[Len(p)]

(* Mutant of symlink_target_within_overlay: an absolute target counts as one *)
(* that escapes.                                                             *)
within_relative(m, rel, to) ==
    ~to.abs /\ starts_with(lexically_normalize(<<m>> \o Parent(rel) \o to.path), <<m>>)

(* symlink_target_within_overlay, for a link at rel whose target is `to` *)
symlink_target_within_overlay(m, rel, to) ==
    LET resolved == IF to.abs THEN to.path ELSE <<m>> \o Parent(rel) \o to.path
    IN starts_with(lexically_normalize(resolved), <<m>>)

-----------------------------------------------------------------------------
(* The kernel's resolution of a path on behalf of a backend.  `real` is true *)
(* below an overlay's root as its O_PATH descriptor shows it: there, no      *)
(* request is sent.  Everywhere else below a mount each component is a       *)
(* lookup, which the backend of that mount has to answer, and which has it   *)
(* inspect links (attr) in turn.  A backend that is busy does not answer.    *)

Query(at, real, todo, follow, busy) ==
    [at |-> at, real |-> real, todo |-> todo, follow |-> follow, busy |-> busy]

Queries ==
    [at : Seq(Component), real : BOOLEAN, todo : Seq(Component), follow : BOOLEAN,
     busy : SUBSET Mounts]

(* st is "ok", "none" for an error, "lost" for a walk that does not end, or  *)
(* "waits"; seen are the paths looked up through overlays on the way, who    *)
(* the overlays that wait.                                                   *)
Found(st, at, seen) == [st |-> st, at |-> at, seen |-> seen, who |-> {}]
Waits(at, who) == [st |-> "waits", at |-> at, seen |-> << >>, who |-> who]
Before(seen, res) == [res EXCEPT !.seen = seen \o @]

(* Requests are sent for what is looked up here. *)
Fuse(q) == q.at # << >> /\ q.at[1] \in Mounts /\ ~q.real

Onward(q, at) == [q EXCEPT !.todo = Tail(@), !.at = at]
Up(q) == [Onward(q, Parent(q.at)) EXCEPT !.real = @ /\ Len(q.at) > 1]

(* The query goes on with the target of a link in place of the link. *)
Redirected(q, to) ==
    [q EXCEPT !.todo = to.path \o Tail(@), !.at = IF to.abs THEN << >> ELSE @,
              !.real = ~to.abs /\ @]

(* Whether attr, in a backend that answers a lookup of p, follows it *)
Inspected(q, p, node) ==
    Fuse(q) /\ node.t = "link" /\ ~symlink_target_within_overlay(p[1], Tail(p), node.to)

(* What that backend asks the kernel for in turn *)
Inner(q, p) == Query(<<p[1]>>, TRUE, Tail(p), TRUE, q.busy \cup {p[1]})

(* What comes after the node of p; inner is what attr saw behind it. *)
Past(tree, q, p, node, inner) ==
    LET shown == inner.st = "ok" /\ inner.at # p /\ Secret(tree, inner.at)
    IN IF node.t = "link" /\ ~shown /\ (q.follow \/ Len(q.todo) > 1)
       THEN Redirected(q, node.to) ELSE Onward(q, p)

(* On from the node of p, unless a walk on the way does not end *)
Through(tree, rest, q, p, inner) ==
    IF inner.st \in {"waits", "lost"} THEN inner
    ELSE Before((IF Fuse(q) THEN <<p>> ELSE << >>) \o inner.seen,
                rest[Past(tree, q, p, tree[p], inner)])

(* The walk of a component that is a name *)
Enter(tree, rest, q, p) ==
    IF Fuse(q) /\ q.at[1] \in q.busy THEN Waits(p, q.busy)
    ELSE IF p \notin DOMAIN tree THEN Found("none", p, << >>)
    ELSE Through(tree, rest, q, p, IF Inspected(q, p, tree[p]) THEN rest[Inner(q, p)]
                                   ELSE Found("ok", p, << >>))

(* The first step of a walk; rest[q] is what comes of q in fewer steps. *)
Walked(tree, rest, q) ==
    IF q.todo = << >> THEN Found("ok", q.at, << >>)
    ELSE CASE Head(q.todo) = "."  -> rest[Onward(q, q.at)]
           [] Head(q.todo) = ".." -> rest[Up(q)]
           [] OTHER -> Enter(tree, rest, q, Append(q.at, Head(q.todo)))

Resolve(tree, query) ==
    LET walk[n \in 0..MaxSteps] ==
          [q \in Queries |-> IF n = 0 THEN Found("lost", q.at, << >>)
                             ELSE Walked(tree, walk[n - 1], q)]
    IN walk[MaxSteps][query]

(* No link is followed on the way to p. *)
Direct(tree, p, follow) ==
    \A k \in 2..Len(p) :
        LET q == SubSeq(p, 1, k)
        IN q \in DOMAIN tree /\ tree[q].t = "link" => k = Len(p) /\ ~follow

(* A system call of the backend of m on rel, relative to its root *)
At(tree, m, rel, follow) ==
    LET p == <<m>> \o rel
    IN IF Direct(tree, p, follow)
       THEN Found(IF p \in DOMAIN tree THEN "ok" ELSE "none", p, << >>)
       ELSE Resolve(tree, Query(<<m>>, TRUE, rel, follow, {m}))
=============================================================================
