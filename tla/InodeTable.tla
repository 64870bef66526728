----------------------------- MODULE InodeTable -----------------------------
(***************************************************************************)
(* The InodeTable of src/fs.rs: two hash maps, from inode numbers to paths *)
(* and from paths to inode numbers, and the next number to hand out.  The  *)
(* operators return the table after the call.                              *)
(***************************************************************************)
EXTENDS Naturals

CONSTANT ROOT   \* the path of the mount root

ROOT_INO == 1

(* HashMap insert and remove *)
Put(m, key, val) == [x \in DOMAIN m \cup {key} |-> IF x = key THEN val ELSE m[x]]
Remove(m, key) == [x \in DOMAIN m \ {key} |-> m[x]]

NewTable ==
    [by_ino  |-> [i \in {ROOT_INO} |-> ROOT],
     by_path |-> [p \in {ROOT} |-> ROOT_INO],
     next    |-> ROOT_INO + 1]

intern(tbl, path) ==
    IF path \in DOMAIN tbl.by_path THEN tbl
    ELSE [by_ino  |-> Put(tbl.by_ino, tbl.next, path),
          by_path |-> Put(tbl.by_path, path, tbl.next),
          next    |-> tbl.next + 1]

(* Mutant of forget_path: an unlinked path keeps its number. *)
forget_nothing(tbl, path) == tbl

forget_path(tbl, path) ==
    IF path \notin DOMAIN tbl.by_path THEN tbl
    ELSE [by_ino  |-> Remove(tbl.by_ino, tbl.by_path[path]),
          by_path |-> Remove(tbl.by_path, path),
          next    |-> tbl.next]

(* Mutant of rename: `from` is left in by_path. *)
rename_keeping(tbl, from, to) ==
    IF from \notin DOMAIN tbl.by_path THEN tbl
    ELSE [tbl EXCEPT !.by_ino = Put(@, tbl.by_path[from], to),
                     !.by_path = Put(@, to, tbl.by_path[from])]

(* The number of `from` moves to `to`.  The number `to` had, if any, is left *)
(* in by_ino, where it still names the path `to`.                            *)
rename(tbl, from, to) ==
    IF from \notin DOMAIN tbl.by_path THEN tbl
    ELSE [by_ino  |-> Put(tbl.by_ino, tbl.by_path[from], to),
          by_path |-> Put(Remove(Remove(tbl.by_path, from), to), to, tbl.by_path[from]),
          next    |-> tbl.next]

-----------------------------------------------------------------------------
TableType(tbl, Paths) ==
    /\ \A i \in DOMAIN tbl.by_ino : i \in Nat /\ tbl.by_ino[i] \in Paths
    /\ \A p \in DOMAIN tbl.by_path : p \in Paths /\ tbl.by_path[p] \in Nat
    /\ tbl.next \in Nat

(* What the calls maintain: every path with a number is the path of that     *)
(* number, numbers are handed out in order and never twice, and the root and *)
(* number 1 stay together.                                                   *)
Consistent(tbl) ==
    /\ \A p \in DOMAIN tbl.by_path :
          /\ tbl.by_path[p] \in DOMAIN tbl.by_ino
          /\ tbl.by_ino[tbl.by_path[p]] = p
    /\ \A i \in DOMAIN tbl.by_ino : i < tbl.next
    /\ ROOT \in DOMAIN tbl.by_path /\ tbl.by_path[ROOT] = ROOT_INO
    /\ \A i \in DOMAIN tbl.by_ino : tbl.by_ino[i] = ROOT => i = ROOT_INO
=============================================================================
