----------------------------- MODULE Namespace -----------------------------
(***************************************************************************)
(* The directory operations of the FUSE overlay (src/fs.rs): lookup,       *)
(* getattr, readlink, open, readdir, mkdir, create, unlink, rmdir, rename, *)
(* symlink and link on a tree of names, with the inode table of each       *)
(* overlay.  What files contain is Overlay's matter: here a file is plain  *)
(* or has a handler ("secret").                                            *)
(*                                                                         *)
(* A backend serves one request at a time.  A request for which the kernel *)
(* would need a lookup from a backend that is busy, itself to begin with,  *)
(* never ends: the backend is then in `stuck`.  A request that is answered *)
(* by an error changes nothing and is left out.  The kernel is external:   *)
(* it uses the numbers it was given and has looked a name up before it     *)
(* removes or renames it.                                                  *)
(***************************************************************************)
EXTENDS Paths, InodeTable, FiniteSets

CONSTANTS
    Given0,      \* the nodes that exist at mount time, by path
    Targets,     \* the targets the program gives its links
    MaxDepth,    \* bound: length of a path below the mount
    MaxId,       \* bound: objects ever created
    MaxIno       \* bound: inode numbers handed out

ASSUME NamespaceAssumption ==
    /\ ROOT = << >>
    /\ IsFiniteSet(Names)
    /\ WellFormed(Given0)
    /\ \A p, q \in DOMAIN Given0 : Given0[p].id = Given0[q].id => Given0[p] = Given0[q]
    /\ \A r \in Roots : <<r>> \in DOMAIN Given0 /\ Given0[<<r>>].t = "dir"
    /\ Targets \subseteq Target
    /\ {MaxDepth, MaxId, MaxIno} \subseteq Nat

VARIABLES
    tree,     \* the real tree
    inodes,   \* OverlayFs.inodes, of each overlay
    given,    \* for each number the kernel was given: the objects it was given
              \* for, each with the kind attr reported
    stale,    \* numbers that were below a directory when it was renamed, or whose
              \* name another object was renamed to
    stuck,    \* the backends that wait for ever, each with the numbers in its request
              \* and the path it was about
    misled    \* a stale number has led a request through a link: what it named and
              \* what it reached were two different names

vars == <<tree, inodes, given, stale, stuck, misled>>

Obj(id, kind) == [id |-> id, kind |-> kind]

Init ==
    /\ tree = Given0
    /\ inodes = [m \in Mounts |-> NewTable]
    /\ given = [m \in Mounts |-> [i \in {ROOT_INO} |-> {Obj(Given0[<<m>>].id, "dir")}]]
    /\ stale = [m \in Mounts |-> {}]
    /\ stuck = {}
    /\ misled = FALSE

-----------------------------------------------------------------------------
(* path_of *)
HasPath(m, ino) == ino \in DOMAIN inodes[m].by_ino
PathOf(m, ino) == inodes[m].by_ino[ino]

Children(t, dir) == {n \in Names : Append(dir, n) \in DOMAIN t}
(* The children that readdir finds, in any order *)
entries(dir) ==
    LET found == Children(tree, dir)
    IN {s \in [1..Cardinality(found) -> found] : \A n \in found : \E k \in DOMAIN s : s[k] = n}
IsDir(p) == p \in DOMAIN tree /\ tree[p].t = "dir"

(* The objects a number was given for *)
Objects(m, ino) == IF ino \in DOMAIN given[m] THEN {g.id : g \in given[m][ino]} ELSE {}

(* An object gets the least number that no object has or had. *)
FreeIds ==
    1..MaxId \ ({tree[p].id : p \in DOMAIN tree}
                \cup UNION {Objects(m, i) : m \in Mounts, i \in 1..MaxIno})
NewId == CHOOSE id \in FreeIds : \A k \in FreeIds : id <= k

(* The place of a number, and the path of a name in the directory of a number  *)
(* and where that directory is                                                 *)
Place(m, ino) == <<m>> \o PathOf(m, ino)
Entry(m, pi, n) == Append(PathOf(m, pi), n)
Dir(m, pi) == At(tree, m, PathOf(m, pi), TRUE)

Attr(res, id, kind) == [st |-> res.st, seen |-> res.seen, who |-> res.who, obj |-> Obj(id, kind)]

(* A link that leads out of the overlay, and what it leads to: it is shown   *)
(* as a file if that has a handler.                                          *)
LinkAttr(t, id, here, there) ==
    IF there.st = "waits" THEN Attr(there, id, "none")
    ELSE Attr(Before(there.seen, here), id,
              IF there.st = "ok" /\ Secret(t, there.at) THEN "file" ELSE "link")

NodeAttr(t, m, rel, here, node) ==
    IF node.t = "link" /\ ~symlink_target_within_overlay(m, rel, node.to)
    THEN LinkAttr(t, node.id, here, At(t, m, rel, TRUE))
    ELSE Attr(here, node.id, IF node.t = "secret" THEN "file" ELSE node.t)

(* attr, of what the path leads to without following a last link *)
AttrOf(t, m, rel, here) ==
    IF here.st # "ok" THEN Attr(here, 0, "none") ELSE NodeAttr(t, m, rel, here, t[here.at])

attr(t, m, rel) == AttrOf(t, m, rel, At(t, m, rel, FALSE))

(* A path that gets a number, and the object the kernel is told it is, if any *)
Answer(m, rel, objs) == [m |-> m, rel |-> rel, objs |-> objs]

(* intern, and the number is given to the kernel. *)
Give(gv, ino, objs) ==
    IF objs = {} THEN gv
    ELSE Put(gv, ino, objs \cup (IF ino \in DOMAIN gv THEN gv[ino] ELSE {}))
Told(s, a) ==
    [inodes |-> [s.inodes EXCEPT ![a.m] = intern(@, a.rel)],
     given |-> [s.given EXCEPT ![a.m] = Give(@, intern(s.inodes[a.m], a.rel).by_path[a.rel], a.objs)]]

(* The same for a list of them *)
AllTold(answers) ==
    LET told[k \in 0..Len(answers)] ==
          IF k = 0 THEN [inodes |-> inodes, given |-> given] ELSE Told(told[k - 1], answers[k])
    IN told[Len(answers)]
Tell(answers) ==
    /\ \E s \in {AllTold(answers)} : inodes' = s.inodes /\ given' = s.given
    /\ \A m \in Mounts : inodes'[m].next <= MaxIno + 1

(* The lookups that attr caused in other overlays *)
Nested(t, seen) ==
    [k \in DOMAIN seen |-> Answer(seen[k][1], Tail(seen[k]), {attr(t, seen[k][1], Tail(seen[k])).obj})]

(* A request about `at` that uses these numbers never gets an answer. *)
Stuck(m) == \E s \in stuck : s.m = m
Sticks(res, inos, at) ==
    stuck' = stuck \cup {[m |-> m, inos |-> inos, at |-> at] : m \in res.who}
Hang(res, inos, at) ==
    /\ res.st = "waits"
    /\ Sticks(res, inos, at)
    /\ UNCHANGED <<tree, inodes, given, stale, misled>>

(* A request changes something in the directories of these numbers. *)
Uses(m, inos) ==
    misled' = (misled \/ \E i \in inos \cap stale[m] : ~Direct(tree, Place(m, i), TRUE))

(* The end of a request that answers with an entry: the number of rel, after *)
(* those of the lookups elsewhere.                                           *)
AnswerEntry(t, m, rel, inos) ==
    \E a \in {attr(t, m, rel)} :
        IF a.st = "waits"
        THEN Tell(<<Answer(m, rel, {})>>) /\ Sticks(a, inos, <<m>> \o rel)
        ELSE Tell(Nested(t, a.seen) \o <<Answer(m, rel, {a.obj})>>) /\ UNCHANGED stuck

-----------------------------------------------------------------------------
Lookup(m, pi, n) ==
    \E here \in {At(tree, m, Entry(m, pi, n), FALSE)} :
        \/ /\ here.st = "ok"
           /\ AnswerEntry(tree, m, Entry(m, pi, n), {pi})
           /\ Uses(m, {pi})
           /\ UNCHANGED <<tree, stale>>
        \/ Hang(here, {pi}, <<m>> \o Entry(m, pi, n))

(* getattr, readlink, and open and setattr with a size, which follow links   *)
(* (view_for), change nothing here, but they may hang.                       *)
Getattr(m, ino) == \E a \in {attr(tree, m, PathOf(m, ino))} : Hang(a, {ino}, Place(m, ino))
Readlink(m, ino) == \E here \in {At(tree, m, PathOf(m, ino), FALSE)} : Hang(here, {ino}, Place(m, ino))
Open(m, ino) == \E there \in {At(tree, m, PathOf(m, ino), TRUE)} : Hang(there, {ino}, Place(m, ino))

(* readdir: every child gets a number.  The kernel sends requests only with   *)
(* the numbers of entries, not with those of a listing; which part of the    *)
(* listing a reply has room for is left out.                                 *)
Readdir(m, ino) ==
    \E d \in {Dir(m, ino)} :
        \/ /\ d.st = "ok" /\ IsDir(d.at)
           /\ \E names \in entries(d.at) :
                Tell([k \in DOMAIN names |-> Answer(m, Entry(m, ino, names[k]), {})])
           /\ UNCHANGED <<tree, stale, stuck, misled>>
        \/ Hang(d, {ino}, Place(m, ino))

(* A name that is free in a directory d becomes node; inos are the numbers   *)
(* in the request.                                                           *)
Insert(m, rel, d, node, inos) ==
    /\ d.st = "ok" /\ IsDir(d.at)
    /\ Append(d.at, rel[Len(rel)]) \notin DOMAIN tree
    /\ \E grown \in {Put(tree, Append(d.at, rel[Len(rel)]), node)} :
         tree' = grown /\ AnswerEntry(grown, m, rel, inos)
    /\ UNCHANGED stale

(* mkdir, create and symlink *)
Make(m, pi, n, t, to) ==
    /\ Len(Entry(m, pi, n)) <= MaxDepth
    /\ \E d \in {Dir(m, pi)} :
         \/ /\ FreeIds # {}
            /\ Insert(m, Entry(m, pi, n), d, Node(t, NewId, to), {pi})
            /\ Uses(m, {pi})
         \/ Hang(d, {pi}, Place(m, pi))

Mkdir(m, pi, n) == Make(m, pi, n, "dir", NoTarget)
Create(m, pi, n) == Make(m, pi, n, "file", NoTarget)
Symlink(m, pi, n, to) == Make(m, pi, n, "link", to)

Link(m, ino, pi, n) ==
    /\ Len(Entry(m, pi, n)) <= MaxDepth
    /\ \E old \in {At(tree, m, PathOf(m, ino), FALSE)}, d \in {Dir(m, pi)} :
         \/ /\ old.st = "ok" /\ old.at \in DOMAIN tree /\ ~IsDir(old.at)
            /\ Insert(m, Entry(m, pi, n), d, tree[old.at], {ino, pi})
            /\ Uses(m, {pi})
         \/ Hang(old, {ino}, Place(m, ino))
         \/ old.st # "waits" /\ Hang(d, {pi}, Place(m, pi))

(* The kernel has a number for the name. *)
LookedUp(m, rel) ==
    rel \in DOMAIN inodes[m].by_path /\ inodes[m].by_path[rel] \in DOMAIN given[m]

(* Mutant of Forgets: the number of a removed directory is kept. *)
Forgets_files(m, rel, t) == IF t = "dir" THEN inodes[m] ELSE forget_path(inodes[m], rel)

Forgets(m, rel, t) == forget_path(inodes[m], rel)

(* unlink of what is not a directory, rmdir of an empty one *)
Drop(m, pi, n, isdir) ==
    /\ LookedUp(m, Entry(m, pi, n))
    /\ \E d \in {Dir(m, pi)} : \E p \in {Append(d.at, n)} :
         \/ /\ d.st = "ok" /\ p \in DOMAIN tree
            /\ IsDir(p) = isdir /\ Children(tree, p) = {}
            /\ tree' = Remove(tree, p)
            /\ inodes' = [inodes EXCEPT ![m] = Forgets(m, Entry(m, pi, n), tree[p].t)]
            /\ Uses(m, {pi})
            /\ UNCHANGED <<given, stale, stuck>>
         \/ Hang(d, {pi}, Place(m, pi))

Unlink(m, pi, n) == Drop(m, pi, n, FALSE)
Rmdir(m, pi, n) == Drop(m, pi, n, TRUE)

(* What renameat makes of the tree; paths below `from` move along. *)
Moved(from, to) ==
    LET under(p) == starts_with(p, from)
        new(p) == to \o SubSeq(p, Len(from) + 1, Len(p))
        back(p) == from \o SubSeq(p, Len(to) + 1, Len(p))
        there == {p \in DOMAIN tree : under(p)}
    IN [p \in {q \in DOMAIN tree : ~under(q)} \cup {new(q) : q \in there} |->
          IF starts_with(p, to) THEN tree[back(p)] ELSE tree[p]]

(* renameat's own conditions *)
CanMove(from, to) ==
    /\ from \in DOMAIN tree
    /\ ~(from # to /\ starts_with(to, from))
    /\ to \in DOMAIN tree => IsDir(to) = IsDir(from) /\ Children(tree, to) = {}

(* The numbers that keep a path which is no longer that of their object *)
LeftBehind(m, rel, newrel) ==
    {i \in DOMAIN inodes[m].by_ino :
       LET p == PathOf(m, i) IN (p # rel /\ starts_with(p, rel)) \/ p = newrel}

(* rename, from a path rel to newrel, which lead to `from` and `to` *)
Move(m, rel, newrel, from, to) ==
    /\ CanMove(from, to)
    /\ Len(newrel) + (IF Children(tree, from) = {} THEN 0 ELSE 1) <= MaxDepth
    /\ tree' = IF to \in DOMAIN tree /\ tree[to].id = tree[from].id THEN tree ELSE Moved(from, to)
    /\ inodes' = [inodes EXCEPT ![m] = rename(@, rel, newrel)]
    /\ stale' = [stale EXCEPT ![m] = @ \cup LeftBehind(m, rel, newrel)]
    /\ UNCHANGED <<given, stuck>>

Rename(m, pi, n, pj, k) ==
    /\ LookedUp(m, Entry(m, pi, n)) /\ Entry(m, pi, n) # Entry(m, pj, k)
    /\ \E d \in {Dir(m, pi)}, e \in {Dir(m, pj)} :
         \/ /\ d.st = "ok" /\ e.st = "ok" /\ IsDir(e.at)
            /\ Move(m, Entry(m, pi, n), Entry(m, pj, k), Append(d.at, n), Append(e.at, k))
            /\ Uses(m, {pi, pj})
         \/ Hang(d, {pi}, Place(m, pi))
         \/ d.st # "waits" /\ Hang(e, {pj}, Place(m, pj))

-----------------------------------------------------------------------------
(* The numbers of a kind that the kernel can use in a request *)
Usable(m, kinds) ==
    {i \in DOMAIN given[m] : HasPath(m, i) /\ \E g \in given[m][i] : g.kind \in kinds}

Request(m) ==
    \/ \E i \in Usable(m, {"dir", "file", "link"}) : Getattr(m, i)
    \/ \E i \in Usable(m, {"link"}) : Readlink(m, i)
    \/ \E i \in Usable(m, {"file"}) : Open(m, i)
    \/ \E i \in Usable(m, {"dir"}) :
         \/ Readdir(m, i)
         \/ \E n \in Names :
              \/ Lookup(m, i, n)
              \/ Mkdir(m, i, n) \/ Create(m, i, n) \/ Unlink(m, i, n) \/ Rmdir(m, i, n)
              \/ \E to \in Targets : Symlink(m, i, n, to)
              \/ \E j \in Usable(m, {"file", "link"}) : Link(m, j, i, n)
              \/ \E j \in Usable(m, {"dir"}), k \in Names : Rename(m, i, n, j, k)

Next == \E m \in Mounts : ~Stuck(m) /\ Request(m)

Spec == Init /\ [][Next]_vars

-----------------------------------------------------------------------------
(* Properties *)

(* A target that climbs first and then goes down by names, so that its letters *)
(* tell how far it climbs.                                                     *)
Straight(to) ==
    \E j \in 0..Len(to.path) :
        /\ to.abs => j = 0
        /\ \A k \in 1..j : to.path[k] = ".."
        /\ \A k \in (j + 1)..Len(to.path) :
             to.path[k] \in Names \/ (k = j + 1 /\ to.path[k] \in Roots)

Links == {p \in DOMAIN tree : Len(p) > 1 /\ p[1] \in Mounts /\ tree[p].t = "link"}

(* fs.rs symlink_target_within_overlay "re-entering this single-threaded backend,
   which then waits on itself forever": with one overlay, and no link elsewhere
   that leads back into it, whatever links the program makes, a request about a
   link whose target is straight, or about anything but a link, never makes the
   backend wait for a lookup that only it could answer; unless the request uses a
   number that a rename left with a path that is not its own, or one has misled an
   earlier request.  A target that climbs out of a name, as b/../../x with b a link
   back into the overlay, does make it wait: the lexical test takes it for one that
   escapes. *)
BackendNeverWaits ==
    misled \/ \A s \in stuck :
        \/ s.inos \cap stale[s.m] # {}
        \/ s.at \in Links /\ ~Straight(tree[s.at].to)

(* design.md "hand back a stable inode": a number stands for one object for ever,
   and as long as the table confirms it, it leads to that object, through every
   mkdir, rmdir, unlink, rename, link and symlink; except for the numbers that a
   rename left with a path that is not their own, and until one of these has led a
   request through a link, past the name it stands for. *)
NumbersKeepTheirObject ==
    misled \/ \A m \in Mounts : \A i \in DOMAIN given[m] \ stale[m] :
        /\ Cardinality(Objects(m, i)) = 1
        /\ HasPath(m, i) /\ LookedUp(m, PathOf(m, i)) /\ inodes[m].by_path[PathOf(m, i)] = i
           => /\ <<m>> \o PathOf(m, i) \in DOMAIN tree
              /\ tree[<<m>> \o PathOf(m, i)].id \in Objects(m, i)

(* Every link of an overlay has a straight target, with no name in it but the last
   that is the name of a link of an overlay. *)
Untangled ==
    \A p \in Links :
        /\ Straight(tree[p].to)
        /\ \A l \in Links, k \in 1..(Len(tree[p].to.path) - 1) : tree[p].to.path[k] # l[Len(l)]

(* fs.rs attr "A symlink whose target is a secret must NOT be presented as a
   symlink": as long as no target goes on below another link, a name in an overlay
   that leads to a file with a handler, through any chain of links that the program
   made or moved, leads the kernel to a node of the overlay and never to the file
   itself outside of it; until a number that a rename left behind has misled a
   request.  A target that goes on below a link, as b/a with b a link to a directory
   elsewhere, does lead to the file itself: the lexical test takes it for one that
   stays inside. *)
LinkedSecretIsServed ==
    misled \/ ~Untangled \/ \A p \in Links :
        \E res \in {Resolve(tree, Query(<< >>, FALSE, p, TRUE, {}))} :
            res.st = "ok" /\ Secret(tree, res.at) => res.at[1] \in Mounts

-----------------------------------------------------------------------------
(* A statement of the documentation that the code does not meet. *)

(* fs.rs attr: inspecting a link never makes an overlay wait for ever, whichever
   of its links and of another overlay's lead where. *)
NoOverlayWaits == stuck = {}
=============================================================================
