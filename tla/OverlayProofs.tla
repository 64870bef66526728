--------------------------- MODULE OverlayProofs ---------------------------
(***************************************************************************)
(* Proofs about Overlay, for any set of names, host texts and bounds, and  *)
(* that it implements SecretFile.  The constant Secret and its assumption  *)
(* belong to the latter and are used by nothing else.                      *)
(***************************************************************************)
EXTENDS OverlayImplements, TLAPS, WellFoundedInduction

-----------------------------------------------------------------------------
(* What the handlers return, for any keys, values and texts. *)

(* A set of line numbers that is not empty has a last one. *)
LEMMA LastExists ==
    ASSUME NEW n \in Nat, NEW idx \in SUBSET (1..n), idx # {}
    PROVE  LastIn(idx) \in idx /\ \A j \in idx : j <= LastIn(idx)
<1> DEFINE T == {n - i : i \in idx}
           R == OpToRel(<, Nat)
<1>1. T \in SUBSET Nat
  <2> HIDE DEF R
  <2> QED
    OBVIOUS
<1>2. T # {}
  <2> HIDE DEF R
  <2> QED
    OBVIOUS
<1> HIDE DEF T
<1>3. \E x \in T : \A y \in T : ~(<<y, x>> \in R)
  BY <1>1, <1>2, NatLessThanWellFounded, WFMin
<1>4. \A x, y \in Nat : y < x => <<y, x>> \in R
  BY DEF OpToRel
<1> HIDE DEF R
<1>5. PICK x \in T : \A y \in T : ~(<<y, x>> \in R)
  BY <1>3
<1>6. \A y \in T : ~(y < x)
  BY <1>1, <1>4, <1>5
<1>7. PICK i \in idx : x = n - i
  BY <1>5 DEF T
<1>8. \A j \in idx : j <= i
  <2> SUFFICES ASSUME NEW j \in idx PROVE j <= i
    OBVIOUS
  <2>1. n - j \in T
    BY DEF T
  <2>2. ~(n - j < n - i)
    BY <1>6, <1>7, <2>1
  <2> QED
    BY <2>2
<1> QED
  BY <1>8 DEF LastIn

LEMMA TextIsFunction ==
    ASSUME NEW b \in Text
    PROVE  /\ Len(b) \in Nat
           /\ DOMAIN b = 1..Len(b)
           /\ \A i \in 1..Len(b) : b[i] \in Line
  BY DEF Text

LEMMA FunctionIsText ==
    ASSUME NEW n \in Nat, NEW b \in [1..n -> Line]
    PROVE  b \in Text /\ Len(b) = n
  BY DEF Text

LEMMA LineCases ==
    ASSUME NEW line \in Line
    PROVE  \/ line.t = "pair" /\ line.k \in Keys /\ line.v \in Values
           \/ line.t \in Marks /\ line.t # "pair"
  BY DEF Line, Marks

LEMMA PairIsLine ==
    ASSUME NEW k \in Keys, NEW v \in Values
    PROVE  Pair(k, v) \in Line
  BY DEF Line, Pair

LEMMA MarkIsLine ==
    ASSUME NEW m \in Marks
    PROVE  Mark(m) \in Line
  BY DEF Line, Mark

(* A handler returns a text, and says whether it succeeded. *)
LEMMA RedactType ==
    ASSUME NEW kind, NEW original \in Text
    PROVE  /\ redact(kind, original).ok \in BOOLEAN
           /\ redact(kind, original).text \in Text
           /\ redact_private_key(original).ok \in BOOLEAN
           /\ redact_private_key(original).text \in Text
<1> DEFINE n == Len(original)
<1>1. n \in Nat /\ DOMAIN original = 1..n /\ \A i \in 1..n : original[i] \in Line
  BY TextIsFunction
<1>2. << >> \in Text
  BY DEF Text
<1>3. PLACEHOLDER \in Values
  BY RedactAssumption
<1>4. redact_env(original).ok \in BOOLEAN /\ redact_env(original).text \in Text
  <2>1. CASE parse_env(original).ok
    <3>1. \A i \in 1..n : original[i].t = "pair"
      BY <1>1, <2>1 DEF parse_env, Ok, Err
    <3>2. [i \in 1..n |-> Pair(original[i].k, PLACEHOLDER)] \in [1..n -> Line]
      BY <1>1, <1>3, <3>1, LineCases, PairIsLine
    <3> QED
      BY <1>1, <2>1, <3>2, FunctionIsText DEF redact_env, Ok
  <2>2. CASE ~parse_env(original).ok
    BY <1>2, <2>2 DEF redact_env, Err
  <2> QED
    BY <2>1, <2>2
<1>5. redact_npmrc(original).ok \in BOOLEAN /\ redact_npmrc(original).text \in Text
  <2>1. [i \in 1..n |-> IF is_npmrc_secret(original[i])
                        THEN Pair(original[i].k, PLACEHOLDER) ELSE original[i]] \in [1..n -> Line]
    BY <1>1, <1>3, LineCases, PairIsLine DEF is_npmrc_secret
  <2> QED
    BY <1>1, <1>2, <2>1, FunctionIsText DEF redact_npmrc, Ok, Err
<1>6. redact_mitm_yaml(original).ok \in BOOLEAN /\ redact_mitm_yaml(original).text \in Text
  <2>1. ASSUME \A i \in 1..n : original[i].t = "pair"
        PROVE  [i \in 1..n |-> IF original[i].k \in HeaderKeys
                               THEN Pair(original[i].k, PLACEHOLDER) ELSE original[i]]
                  \in [1..n -> Line]
    BY <1>1, <1>3, <2>1, LineCases, PairIsLine
  <2> QED
    BY <1>1, <1>2, <2>1, FunctionIsText DEF redact_mitm_yaml, Ok, Err
<1>7. /\ redact_private_key(original).ok \in BOOLEAN
      /\ redact_private_key(original).text \in Text
  <2>1. <<Mark("begin"), Mark("hidden"), Mark("end")>> \in Text
    <3>1. Mark("begin") \in Line /\ Mark("hidden") \in Line /\ Mark("end") \in Line
      BY MarkIsLine DEF Marks
    <3> QED
      BY <3>1 DEF Text
  <2> QED
    BY <1>2, <2>1 DEF redact_private_key, Ok, Err
<1> QED
  BY <1>2, <1>4, <1>5, <1>6, <1>7 DEF redact, Err

LEMMA FormatValueType ==
    ASSUME NEW k \in Keys, NEW v \in Values
    PROVE  format_value(k, v) \in Line
<1>1. Reparsed[v] \in Values \cup {NoValue}
  BY RedactAssumption
<1>2. Mark("junk") \in Line
  BY MarkIsLine DEF Marks
<1>3. Pair(k, v) \in Line /\ (Reparsed[v] # NoValue => Pair(k, Reparsed[v]) \in Line)
  BY <1>1, PairIsLine
<1>4. v # NoValue
  BY RedactAssumption
<1> QED
  BY <1>2, <1>3, <1>4 DEF format_value

(* A line whose key has a line in the original takes the value of the last. *)
LEMMA EnvResolvedType ==
    ASSUME NEW original \in Text, NEW line \in Line, line.t = "pair", parse_env(original).ok
    PROVE  env_resolved(original, line) \in Values
<1> DEFINE n == Len(original)
           src == EnvSources(original, line.k)
<1>1. n \in Nat /\ DOMAIN original = 1..n /\ \A i \in 1..n : original[i] \in Line
  BY TextIsFunction
<1>2. \A i \in 1..n : original[i].t = "pair"
  BY <1>1 DEF parse_env, Err
<1>3. src \in SUBSET (1..n)
  BY <1>1 DEF EnvSources
<1>4. src # {} => LastIn(src) \in 1..n
  BY <1>1, <1>3, LastExists
<1>5. src # {} => original[LastIn(src)].v \in Values
  BY <1>1, <1>2, <1>4, LineCases
<1>6. line.v \in Values
  BY LineCases
<1> QED
  BY <1>5, <1>6 DEF env_resolved

LEMMA NpmrcResolvedType ==
    ASSUME NEW original \in Text, NEW line \in Line
    PROVE  npmrc_resolved(original, line) \in Line
<1> DEFINE n == Len(original)
           src == NpmrcSources(original, line.k)
<1>1. n \in Nat /\ DOMAIN original = 1..n /\ \A i \in 1..n : original[i] \in Line
  BY TextIsFunction
<1>2. src \in SUBSET (1..n) /\ \A i \in src : original[i].t = "pair"
  BY <1>1 DEF NpmrcSources, is_npmrc_secret
<1>3. src # {} => LastIn(src) \in src
  BY <1>1, <1>2, LastExists
<1>4. src # {} => original[LastIn(src)].v \in Values
  BY <1>1, <1>2, <1>3, LineCases
<1>5. is_npmrc_secret(line) => line.k \in Keys
  BY LineCases DEF is_npmrc_secret
<1> QED
  BY <1>4, <1>5, PairIsLine DEF npmrc_resolved

(* merge returns a text, and says whether it succeeded. *)
LEMMA MergeType ==
    ASSUME NEW kind, NEW original \in Text, NEW written \in Text
    PROVE  /\ merge(kind, original, written).ok \in BOOLEAN
           /\ merge(kind, original, written).text \in Text
<1> DEFINE n == Len(written)
<1>1. n \in Nat /\ DOMAIN written = 1..n /\ \A i \in 1..n : written[i] \in Line
  BY TextIsFunction
<1>2. << >> \in Text
  BY DEF Text
<1>3. /\ merge_env(original, written).ok \in BOOLEAN
      /\ merge_env(original, written).text \in Text
  <2>1. CASE parse_env(original).ok /\ parse_env(written).ok
    <3> DEFINE out(i) == format_value(written[i].k, env_resolved(original, written[i]))
    <3>1. \A i \in 1..n : written[i].t = "pair"
      BY <1>1, <2>1 DEF parse_env, Err
    <3>2. ASSUME NEW i \in 1..n PROVE out(i) \in Line
      <4>1. written[i].k \in Keys /\ env_resolved(original, written[i]) \in Values
        BY <1>1, <2>1, <3>1, LineCases, EnvResolvedType
      <4> QED
        BY <4>1, FormatValueType
    <3> HIDE DEF out
    <3>3. [i \in 1..n |-> out(i)] \in [1..n -> Line]
      BY <3>2
    <3>4. [i \in 1..n |-> out(i)] \in Text
      BY <1>1, <3>3, FunctionIsText
    <3> QED
      BY <1>1, <2>1, <3>4 DEF merge_env, Ok, out
  <2>2. CASE ~(parse_env(original).ok /\ parse_env(written).ok)
    BY <1>2, <2>2 DEF merge_env, Err
  <2> QED
    BY <2>1, <2>2
<1>4. /\ merge_npmrc(original, written).ok \in BOOLEAN
      /\ merge_npmrc(original, written).text \in Text
  <2>1. [i \in 1..n |-> npmrc_resolved(original, written[i])] \in [1..n -> Line]
    BY <1>1, NpmrcResolvedType
  <2>2. [i \in 1..n |-> npmrc_resolved(original, written[i])] \in Text
    BY <1>1, <2>1, FunctionIsText
  <2> QED
    BY <1>1, <1>2, <2>2 DEF merge_npmrc, Ok, Err
<1> QED
  BY <1>2, <1>3, <1>4 DEF merge, Err

-----------------------------------------------------------------------------
(* The inode table: every call keeps it well typed and consistent. *)

(* new: the table holds the root and nothing else. *)
LEMMA NewTableGood ==
    ASSUME NEW Paths, ROOT \in Paths
    PROVE  TableType(NewTable, Paths) /\ Consistent(NewTable)
  BY DEF NewTable, TableType, Consistent, ROOT_INO

(* intern: a fresh number is larger than any handed out before. *)
LEMMA InternGood ==
    ASSUME NEW Paths, NEW tbl, NEW path \in Paths,
           TableType(tbl, Paths), Consistent(tbl)
    PROVE  /\ TableType(intern(tbl, path), Paths)
           /\ Consistent(intern(tbl, path))
           /\ path \in DOMAIN intern(tbl, path).by_path
<1>1. CASE path \in DOMAIN tbl.by_path
  BY <1>1 DEF intern
<1>2. CASE path \notin DOMAIN tbl.by_path
  <2> DEFINE t == intern(tbl, path)
  <2>1. /\ t.by_ino = Put(tbl.by_ino, tbl.next, path)
        /\ t.by_path = Put(tbl.by_path, path, tbl.next)
        /\ t.next = tbl.next + 1
    BY <1>2 DEF intern
  <2>2. tbl.next \notin DOMAIN tbl.by_ino
    BY DEF TableType, Consistent
  <2>3. TableType(t, Paths)
    BY <2>1 DEF TableType, Put
  <2>4. \A p \in DOMAIN t.by_path :
           t.by_path[p] \in DOMAIN t.by_ino /\ t.by_ino[t.by_path[p]] = p
    <3> SUFFICES ASSUME NEW p \in DOMAIN t.by_path
                 PROVE  t.by_path[p] \in DOMAIN t.by_ino /\ t.by_ino[t.by_path[p]] = p
      OBVIOUS
    <3>1. CASE p = path
      BY <2>1, <3>1 DEF Put
    <3>2. CASE p # path
      <4>1. p \in DOMAIN tbl.by_path /\ t.by_path[p] = tbl.by_path[p]
        BY <2>1, <3>2 DEF Put
      <4>2. tbl.by_path[p] \in DOMAIN tbl.by_ino /\ tbl.by_ino[tbl.by_path[p]] = p
        BY <4>1 DEF Consistent
      <4> QED
        BY <2>1, <2>2, <4>1, <4>2 DEF Put
    <3> QED
      BY <3>1, <3>2
  <2>5. \A i \in DOMAIN t.by_ino : i < t.next
    BY <2>1 DEF TableType, Consistent, Put
  <2>6. ROOT \in DOMAIN t.by_path /\ t.by_path[ROOT] = ROOT_INO
    BY <1>2, <2>1 DEF Consistent, Put
  <2>7. path \in DOMAIN t.by_path
    BY <2>1 DEF Put
  <2>8. \A i \in DOMAIN t.by_ino : t.by_ino[i] = ROOT => i = ROOT_INO
    BY <1>2, <2>1 DEF Consistent, Put
  <2> QED
    BY <2>3, <2>4, <2>5, <2>6, <2>7, <2>8 DEF Consistent
<1> QED
  BY <1>1, <1>2

(* forget_path: the number goes with the path, so no other path loses its. *)
LEMMA ForgetGood ==
    ASSUME NEW Paths, NEW tbl, NEW path \in Paths, path # ROOT,
           TableType(tbl, Paths), Consistent(tbl)
    PROVE  TableType(forget_path(tbl, path), Paths) /\ Consistent(forget_path(tbl, path))
<1>1. CASE path \notin DOMAIN tbl.by_path
  BY <1>1 DEF forget_path
<1>2. CASE path \in DOMAIN tbl.by_path
  <2> DEFINE t == forget_path(tbl, path)
  <2>1. /\ t.by_ino = Remove(tbl.by_ino, tbl.by_path[path])
        /\ t.by_path = Remove(tbl.by_path, path)
        /\ t.next = tbl.next
    BY <1>2 DEF forget_path
  <2>2. TableType(t, Paths)
    BY <2>1 DEF TableType, Remove
  <2>3. \A p \in DOMAIN t.by_path :
           t.by_path[p] \in DOMAIN t.by_ino /\ t.by_ino[t.by_path[p]] = p
    <3> SUFFICES ASSUME NEW p \in DOMAIN t.by_path
                 PROVE  t.by_path[p] \in DOMAIN t.by_ino /\ t.by_ino[t.by_path[p]] = p
      OBVIOUS
    <3>1. p \in DOMAIN tbl.by_path /\ p # path /\ t.by_path[p] = tbl.by_path[p]
      BY <2>1 DEF Remove
    <3>2. /\ tbl.by_ino[tbl.by_path[p]] = p /\ tbl.by_path[p] \in DOMAIN tbl.by_ino
          /\ tbl.by_ino[tbl.by_path[path]] = path
      BY <1>2, <3>1 DEF Consistent
    <3>3. tbl.by_path[p] # tbl.by_path[path]
      BY <3>1, <3>2
    <3> QED
      BY <2>1, <3>1, <3>2, <3>3 DEF Remove
  <2>4. \A i \in DOMAIN t.by_ino : i < t.next
    BY <2>1 DEF Consistent, Remove
  <2>5. ROOT \in DOMAIN t.by_path /\ t.by_path[ROOT] = ROOT_INO
    BY <2>1 DEF Consistent, Remove
  <2>6. \A i \in DOMAIN t.by_ino : t.by_ino[i] = ROOT => i = ROOT_INO
    BY <2>1 DEF Consistent, Remove
  <2> QED
    BY <2>2, <2>3, <2>4, <2>5, <2>6 DEF Consistent
<1> QED
  BY <1>1, <1>2

(* rename: the target's old number stays behind in by_ino, but no path leads
   to it any more. *)
LEMMA RenameGood ==
    ASSUME NEW Paths, NEW tbl, NEW from \in Paths, NEW to \in Paths,
           from # ROOT, to # ROOT,
           TableType(tbl, Paths), Consistent(tbl)
    PROVE  TableType(rename(tbl, from, to), Paths) /\ Consistent(rename(tbl, from, to))
<1>1. CASE from \notin DOMAIN tbl.by_path
  BY <1>1 DEF rename
<1>2. CASE from \in DOMAIN tbl.by_path
  <2> DEFINE t == rename(tbl, from, to)
             rest == Remove(Remove(tbl.by_path, from), to)
             ino == tbl.by_path[from]
  <2>1. /\ t.by_ino = Put(tbl.by_ino, ino, to)
        /\ t.by_path = Put(rest, to, ino)
        /\ t.next = tbl.next
    BY <1>2 DEF rename
  <2>2. /\ DOMAIN rest = DOMAIN tbl.by_path \ {from, to}
        /\ \A p \in DOMAIN rest : rest[p] = tbl.by_path[p]
    BY DEF Remove
  <2>3. ino \in DOMAIN tbl.by_ino /\ tbl.by_ino[ino] = from /\ ino \in Nat
    BY <1>2 DEF Consistent, TableType
  <2> HIDE DEF t, rest, ino
  <2>4. TableType(t, Paths)
    <3>1. \A i \in DOMAIN t.by_ino : i \in Nat /\ t.by_ino[i] \in Paths
      BY <2>1, <2>3 DEF TableType, Put
    <3>2. \A p \in DOMAIN t.by_path : p \in Paths /\ t.by_path[p] \in Nat
      BY <2>1, <2>2, <2>3 DEF TableType, Put
    <3> QED
      BY <2>1, <3>1, <3>2 DEF TableType
  <2>5. \A p \in DOMAIN t.by_path :
           t.by_path[p] \in DOMAIN t.by_ino /\ t.by_ino[t.by_path[p]] = p
    <3> SUFFICES ASSUME NEW p \in DOMAIN t.by_path
                 PROVE  t.by_path[p] \in DOMAIN t.by_ino /\ t.by_ino[t.by_path[p]] = p
      OBVIOUS
    <3>1. CASE p = to
      BY <2>1, <3>1 DEF Put
    <3>2. CASE p # to
      <4>1. p \in DOMAIN tbl.by_path /\ p # from /\ t.by_path[p] = tbl.by_path[p]
        BY <2>1, <2>2, <3>2 DEF Put
      <4>2. tbl.by_path[p] \in DOMAIN tbl.by_ino /\ tbl.by_ino[tbl.by_path[p]] = p
        BY <4>1 DEF Consistent
      <4> QED
        BY <2>1, <2>3, <4>1, <4>2 DEF Put
    <3> QED
      BY <3>1, <3>2
  <2>6. \A i \in DOMAIN t.by_ino : i < t.next
    BY <2>1, <2>3 DEF Consistent, Put
  <2>7. ROOT \in DOMAIN t.by_path /\ t.by_path[ROOT] = ROOT_INO
    BY <2>1, <2>2 DEF Consistent, Put
  <2>8. \A i \in DOMAIN t.by_ino : t.by_ino[i] = ROOT => i = ROOT_INO
    BY <2>1 DEF Consistent, Put
  <2> QED
    BY <2>4, <2>5, <2>6, <2>7, <2>8 DEF Consistent, t
<1> QED
  BY <1>1, <1>2

InodesGood == TableType(inodes, Names \cup {ROOT}) /\ Consistent(inodes)

(* A step leaves the table alone or makes one of its three calls. *)
LEMMA TableSteps ==
    ASSUME [Next]_vars
    PROVE  \/ inodes' = inodes
           \/ \E n \in Names : inodes' = intern(inodes, n)
           \/ \E n \in Names : inodes' = forget_path(inodes, n)
           \/ \E from, to \in Names : inodes' = rename(inodes, from, to)
<1>1. CASE Request
  BY <1>1 DEF Request, Lookup, Getattr, OpenView, Create, Read, Write, SetattrHandle,
              SetattrPath, PersistBegin, Unlink, Rename, Link
<1>2. CASE Continue
  BY <1>2 DEF Continue, OpenFd, SetattrSize, PersistMerge, Merge, PersistTruncate, PersistWrite
<1>3. CASE Host
  BY <1>3 DEF Host, HostWrite, HostReplace, HostRemove
<1>4. CASE UNCHANGED vars
  BY <1>4 DEF vars
<1> QED
  BY <1>1, <1>2, <1>3, <1>4 DEF Next

LEMMA InodesStep ==
    ASSUME InodesGood, [Next]_vars
    PROVE  InodesGood'
<1> DEFINE Paths == Names \cup {ROOT}
<1>1. ROOT \notin Names
  BY OverlayAssumption
<1>2. ASSUME NEW n \in Names, inodes' = intern(inodes, n) PROVE InodesGood'
  BY <1>2, InternGood DEF InodesGood
<1>3. ASSUME NEW n \in Names, inodes' = forget_path(inodes, n) PROVE InodesGood'
  BY <1>1, <1>3, ForgetGood DEF InodesGood
<1>4. ASSUME NEW from \in Names, NEW to \in Names, inodes' = rename(inodes, from, to)
      PROVE  InodesGood'
  BY <1>1, <1>4, RenameGood DEF InodesGood
<1> QED
  BY <1>2, <1>3, <1>4, TableSteps DEF InodesGood

(* The inode table stays consistent under every sequence of lookups, creates,
   links, unlinks and renames, of any number of names. *)
THEOREM TableStaysConsistent == Spec => []TableConsistent
<1>1. Init => InodesGood
  BY NewTableGood DEF Init, InodesGood
<1>2. InodesGood /\ [Next]_vars => InodesGood'
  BY InodesStep
<1>3. InodesGood => TableConsistent
  BY DEF InodesGood, TableConsistent
<1> QED
  BY <1>1, <1>2, <1>3, PTL DEF Spec

-----------------------------------------------------------------------------
(* Texts and views *)

LEMMA ResizeIsText ==
    ASSUME NEW b \in Text, NEW n \in Nat
    PROVE  resize(b, n) \in Text
<1>1. Mark("zero") \in Line
  BY MarkIsLine DEF Marks
<1>2. Len(b) \in Nat /\ \A i \in 1..Len(b) : b[i] \in Line
  BY TextIsFunction
<1>3. resize(b, n) \in [1..n -> Line]
  BY <1>1, <1>2 DEF resize
<1> QED
  BY <1>3, FunctionIsText

LEMMA WriteIsText ==
    ASSUME NEW b \in Text, NEW line \in Line, NEW off \in Nat
    PROVE  write_at(b, off, <<line>>) \in Text
<1> DEFINE end == off + 1
           m == IF Len(b) < end THEN end ELSE Len(b)
<1>1. Mark("zero") \in Line
  BY MarkIsLine DEF Marks
<1>2. Len(b) \in Nat /\ \A i \in 1..Len(b) : b[i] \in Line
  BY TextIsFunction
<1>3. write_at(b, off, <<line>>) =
        [i \in 1..m |-> IF i > off /\ i <= end THEN <<line>>[i - off]
                        ELSE IF i <= Len(b) THEN b[i] ELSE Mark("zero")]
  BY DEF write_at
<1>4. \A i \in 1..m : i > off /\ i <= end => i - off = 1
  BY <1>2
<1>5. write_at(b, off, <<line>>) \in [1..m -> Line]
  BY <1>1, <1>2, <1>3, <1>4
<1> QED
  BY <1>2, <1>5, FunctionIsText

(* Storing a whole text, or a prefix of it, from the start of a file. *)
LEMMA StoreIsText ==
    ASSUME NEW b \in Text, NEW d \in Text, NEW m \in 0..Len(d)
    PROVE  /\ write_at(b, 0, d) \in Text
           /\ write_at(b, 0, SubSeq(d, 1, m)) \in Text
<1>1. ASSUME NEW c \in Text PROVE write_at(b, 0, c) \in Text
  <2> DEFINE n == IF Len(b) < Len(c) THEN Len(c) ELSE Len(b)
  <2>1. Mark("zero") \in Line
    BY MarkIsLine DEF Marks
  <2>2. /\ Len(b) \in Nat /\ \A i \in 1..Len(b) : b[i] \in Line
        /\ Len(c) \in Nat /\ \A i \in 1..Len(c) : c[i] \in Line
    BY <1>1, TextIsFunction
  <2>3. write_at(b, 0, c) \in [1..n -> Line]
    BY <2>1, <2>2 DEF write_at
  <2> QED
    BY <2>2, <2>3, FunctionIsText
<1>2. SubSeq(d, 1, m) \in Text
  BY DEF Text
<1> QED
  BY <1>1, <1>2

(* A buffer is as safe as the lines it is made of; padding hides nothing. *)
LEMMA ResizeIsSafe ==
    ASSUME NEW kind \in {"Env", "Npmrc"}, NEW b \in Text, Safe(kind, b), NEW n \in Nat
    PROVE  Safe(kind, resize(b, n))
<1> SUFFICES ASSUME NEW i \in 1..n, Hidden(kind, resize(b, n)[i])
             PROVE  resize(b, n)[i].t = "pair" /\ resize(b, n)[i].v \in Known
  BY DEF Safe, resize
<1>1. Len(b) \in Nat /\ DOMAIN b = 1..Len(b)
  BY TextIsFunction
<1>2. ~Hidden(kind, Mark("zero"))
  BY DEF Hidden, Mark, is_npmrc_secret
<1>3. resize(b, n)[i] = IF i <= Len(b) THEN b[i] ELSE Mark("zero")
  BY DEF resize
<1> QED
  BY <1>1, <1>2, <1>3 DEF Safe

LEMMA WriteIsSafe ==
    ASSUME NEW kind \in {"Env", "Npmrc"}, NEW b \in Text, Safe(kind, b),
           NEW line \in Typed, NEW off \in Nat
    PROVE  Safe(kind, write_at(b, off, <<line>>))
<1> DEFINE w == write_at(b, off, <<line>>)
           m == IF Len(b) < off + 1 THEN off + 1 ELSE Len(b)
<1>1. Len(b) \in Nat /\ DOMAIN b = 1..Len(b)
  BY TextIsFunction
<1>2. ~Hidden(kind, Mark("zero"))
  BY DEF Hidden, Mark, is_npmrc_secret
<1>3. Hidden(kind, line) => line.t = "pair" /\ line.v \in Known
  BY DEF Hidden, Known, is_npmrc_secret
<1>4. w = [i \in 1..m |-> IF i > off /\ i <= off + 1 THEN <<line>>[i - off]
                          ELSE IF i <= Len(b) THEN b[i] ELSE Mark("zero")]
  BY DEF write_at
<1>5. \A i \in 1..m : w[i] = line \/ (i <= Len(b) /\ w[i] = b[i]) \/ w[i] = Mark("zero")
  BY <1>1, <1>4
<1>6. DOMAIN w = 1..m
  BY <1>4
<1> HIDE DEF w
<1>7. ASSUME NEW i \in 1..m, Hidden(kind, w[i])
      PROVE  w[i].t = "pair" /\ w[i].v \in Known
  BY <1>1, <1>2, <1>3, <1>5, <1>7 DEF Safe
<1> QED
  BY <1>6, <1>7 DEF Safe, w

(* What a handler returns holds the placeholder in every place it must hide. *)
LEMMA RedactIsSafe ==
    ASSUME NEW kind \in {"Env", "Npmrc", "MitmYaml"}, NEW original \in Text
    PROVE  Safe(kind, redact(kind, original).text)
<1>1. PLACEHOLDER \in Known
  BY DEF Known
<1>2. CASE redact(kind, original) = Err
  BY <1>2 DEF Err, Safe
<1>3. CASE kind = "Env" /\ redact(kind, original) # Err
  <2>1. redact(kind, original).text = [i \in DOMAIN original |-> Pair(original[i].k, PLACEHOLDER)]
    BY <1>3 DEF redact, redact_env, Ok
  <2> QED
    BY <1>1, <2>1 DEF Safe, Pair
<1>4. CASE kind = "Npmrc" /\ redact(kind, original) # Err
  <2>1. redact(kind, original).text =
          [i \in DOMAIN original |-> IF is_npmrc_secret(original[i])
                                     THEN Pair(original[i].k, PLACEHOLDER) ELSE original[i]]
    BY <1>4 DEF redact, redact_npmrc, Ok
  <2> QED
    BY <1>1, <1>4, <2>1 DEF Safe, Pair, Hidden, is_npmrc_secret
<1>5. CASE kind = "MitmYaml" /\ redact(kind, original) # Err
  <2>1. redact(kind, original).text =
          [i \in DOMAIN original |-> IF original[i].k \in HeaderKeys
                                     THEN Pair(original[i].k, PLACEHOLDER) ELSE original[i]]
    BY <1>5 DEF redact, redact_mitm_yaml, Ok
  <2> QED
    BY <1>1, <1>5, <2>1 DEF Safe, Pair, Hidden
<1> QED
  BY <1>2, <1>3, <1>4, <1>5

LEMMA KeyIsSafe ==
    ASSUME NEW original
    PROVE  Safe("PrivateKey", redact_private_key(original).text)
<1>1. Safe("PrivateKey", << >>)
  BY DEF Safe
<1>2. Safe("PrivateKey", <<Mark("begin"), Mark("hidden"), Mark("end")>>)
  BY DEF Safe, Hidden, Mark
<1> QED
  BY <1>1, <1>2 DEF redact_private_key, Ok, Err

ViewGood(view) ==
    /\ view \in ViewRec
    /\ view.tag = "Redacted" => view.kind \in {"Env", "Npmrc"}
    /\ view.tag # "Passthrough" => Safe(view.kind, view.text)

LEMMA ViewForGood ==
    ASSUME NEW n \in Names, NEW original \in Text
    PROVE  ViewGood(view_for(n, original)) /\ attr_size(n, original) \in Nat
<1> DEFINE kind == detect(ByName[n], Prefix(original))
           view == view_for(n, original)
<1>1. kind \in Kinds \cup {"None"}
  BY OverlayAssumption DEF detect, Kinds
<1>2. << >> \in Text /\ \A k : Safe(k, << >>)
  BY DEF Text, Safe
<1>3. redact(kind, original).text \in Text /\ redact_private_key(original).text \in Text
  BY RedactType
<1>4. kind \in {"Env", "Npmrc", "MitmYaml"} => Safe(kind, redact(kind, original).text)
  BY RedactIsSafe
<1>5. Safe("PrivateKey", redact_private_key(original).text)
  BY KeyIsSafe
<1>6. \/ view = View("Passthrough", "None", << >>)
      \/ kind \in {"Env", "Npmrc"} /\ view = View("Redacted", kind, redact(kind, original).text)
      \/ kind \in Kinds /\ view = View("Failed", kind, << >>)
      \/ kind = "PrivateKey" /\ view = View("Key", kind, redact_private_key(original).text)
      \/ kind = "PrivateKey" /\ view = View("Passthrough", kind, << >>)
      \/ kind = "MitmYaml" /\ view = View("Key", kind, redact(kind, original).text)
  <2> HIDE DEF kind
  <2>1. redacting \in BOOLEAN
    BY OverlayAssumption
  <2>2. CASE ~redacting \/ kind = "None"
    BY <2>2 DEF view_for, kind
  <2>3. CASE redacting /\ kind \in {"Env", "Npmrc"}
    BY <2>3 DEF view_for, kind, Kinds
  <2>4. CASE redacting /\ kind = "PrivateKey"
    BY <2>4 DEF view_for, kind
  <2>5. CASE redacting /\ kind = "MitmYaml"
    BY <2>5 DEF view_for, kind, Kinds
  <2> QED
    BY <1>1, <2>1, <2>2, <2>3, <2>4, <2>5 DEF Kinds
<1> HIDE DEF kind, view
<1>7. ViewGood(view)
  BY <1>2, <1>3, <1>4, <1>5, <1>6 DEF ViewGood, View, ViewRec, Kinds
<1>8. attr_size(n, original) = IF view.tag = "Passthrough" THEN Len(original) ELSE Len(view.text)
  BY DEF attr_size, view
<1>9. view.text \in Text
  BY <1>7 DEF ViewGood, ViewRec
<1>10. Len(original) \in Nat /\ Len(view.text) \in Nat
  BY <1>9, TextIsFunction
<1> QED
  BY <1>7, <1>8, <1>10 DEF view

-----------------------------------------------------------------------------
(* Handles *)

GoodHandles(hs, files) ==
    HandlesType(hs, files) /\ \A fh \in DOMAIN hs.map : HandleSafe(hs.map[fh])

LEMMA InsertGood ==
    ASSUME NEW files \in Nat, NEW hs, GoodHandles(hs, files),
           NEW h, HandleType(h, files), HandleSafe(h)
    PROVE  GoodHandles(insert(hs, h), files)
<1> DEFINE r == insert(hs, h)
<1>1. /\ r = [next |-> hs.next + 1, map |-> r.map]
      /\ r.map = [x \in DOMAIN hs.map \cup {hs.next} |-> IF x = hs.next THEN h ELSE hs.map[x]]
  BY DEF insert, Put
<1>2. hs.next \in Nat \ {0} /\ \A x \in DOMAIN hs.map : x \in 1..(hs.next - 1)
  BY DEF GoodHandles, HandlesType
<1> HIDE DEF r
<1>3. HandlesType(r, files)
  <2>1. r.next = hs.next + 1 /\ r = [next |-> r.next, map |-> r.map]
    BY <1>1
  <2>2. \A x \in DOMAIN r.map : x \in 1..(r.next - 1)
    BY <1>1, <1>2, <2>1
  <2>3. \A x \in DOMAIN r.map : HandleType(r.map[x], files)
    BY <1>1 DEF GoodHandles, HandlesType
  <2>4. r.map = [x \in DOMAIN r.map |-> r.map[x]]
    BY <1>1
  <2> QED
    BY <1>2, <2>1, <2>2, <2>3, <2>4 DEF HandlesType
<1>4. \A x \in DOMAIN r.map : HandleSafe(r.map[x])
  BY <1>1 DEF GoodHandles
<1> QED
  BY <1>3, <1>4 DEF GoodHandles, r

(* pending.take(), pending = Some(b), served = view on one handle *)
LEMMA ReplaceGood ==
    ASSUME NEW files \in Nat, NEW hs, GoodHandles(hs, files), NEW fh \in DOMAIN hs.map,
           NEW h, HandleType(h, files), HandleSafe(h)
    PROVE  /\ GoodHandles([hs EXCEPT !.map[fh] = h], files)
           /\ DOMAIN [hs EXCEPT !.map[fh] = h].map = DOMAIN hs.map
           /\ [hs EXCEPT !.map[fh] = h].map[fh] = h
<1> DEFINE r == [hs EXCEPT !.map[fh] = h]
<1>1. hs = [next |-> hs.next, map |-> hs.map] /\ hs.map = [x \in DOMAIN hs.map |-> hs.map[x]]
  BY DEF GoodHandles, HandlesType
<1>2. /\ r = [next |-> hs.next, map |-> r.map]
      /\ r.map = [x \in DOMAIN hs.map |-> IF x = fh THEN h ELSE hs.map[x]]
  BY <1>1
<1> HIDE DEF r
<1>3. HandlesType(r, files)
  <2>1. r.next = hs.next /\ r = [next |-> r.next, map |-> r.map]
    BY <1>2
  <2>2. \A x \in DOMAIN r.map : x \in 1..(r.next - 1) /\ HandleType(r.map[x], files)
    BY <1>2, <2>1 DEF GoodHandles, HandlesType
  <2>3. r.map = [x \in DOMAIN r.map |-> r.map[x]]
    BY <1>2
  <2> QED
    BY <2>1, <2>2, <2>3 DEF HandlesType, GoodHandles
<1>4. \A x \in DOMAIN r.map : HandleSafe(r.map[x])
  BY <1>2 DEF GoodHandles
<1>5. DOMAIN r.map = DOMAIN hs.map /\ r.map[fh] = h
  BY <1>2
<1> QED
  BY <1>3, <1>4, <1>5 DEF GoodHandles, r

(* The end of a persist request, whether or not it drops the handle. *)
LEMMA AfterPersistGood ==
    ASSUME NEW files \in Nat, NEW hs, GoodHandles(hs, files), NEW fh, NEW why
    PROVE  GoodHandles(AfterPersist(hs, fh, why), files)
<1>1. CASE why # "release"
  BY <1>1 DEF AfterPersist
<1>2. CASE why = "release"
  <2> DEFINE r == AfterPersist(hs, fh, why)
  <2>1. hs = [next |-> hs.next, map |-> hs.map]
    BY DEF GoodHandles, HandlesType
  <2>2. /\ r = [next |-> hs.next, map |-> r.map]
        /\ r.map = [x \in DOMAIN hs.map \ {fh} |-> hs.map[x]]
    BY <1>2, <2>1 DEF AfterPersist, Remove
  <2> HIDE DEF r
  <2>3. r.next = hs.next /\ r = [next |-> r.next, map |-> r.map]
    BY <2>2
  <2>4. \A x \in DOMAIN r.map : /\ x \in 1..(r.next - 1)
                                /\ HandleType(r.map[x], files) /\ HandleSafe(r.map[x])
    BY <2>2, <2>3 DEF GoodHandles, HandlesType
  <2>5. r.map = [x \in DOMAIN r.map |-> r.map[x]]
    BY <2>2
  <2>6. GoodHandles(r, files)
    BY <2>3, <2>4, <2>5 DEF GoodHandles, HandlesType
  <2> QED
    BY <2>6 DEF r
<1> QED
  BY <1>1, <1>2

(* Handles survive the appearance of new files. *)
LEMMA MoreFiles ==
    ASSUME NEW files \in Nat, NEW more \in Nat, files <= more,
           NEW hs, GoodHandles(hs, files)
    PROVE  GoodHandles(hs, more)
<1>1. \A x \in DOMAIN hs.map : HandleType(hs.map[x], more)
  BY DEF GoodHandles, HandlesType, HandleType, HandleRec
<1> QED
  BY <1>1 DEF GoodHandles, HandlesType

(* A redacted handle stays good when its buffers are replaced by good ones. *)
LEMMA EditedHandleGood ==
    ASSUME NEW files \in Nat, NEW h, HandleType(h, files), HandleSafe(h), h.tag = "Redacted",
           NEW b \in Text, Safe(h.kind, b)
    PROVE  /\ HandleType([h EXCEPT !.pending = Some(b)], files)
           /\ HandleSafe([h EXCEPT !.pending = Some(b)])
           /\ HandleType([h EXCEPT !.pending = None], files)
           /\ HandleSafe([h EXCEPT !.pending = None])
           /\ HandleType([h EXCEPT !.served = b], files)
           /\ ~h.pending.some => HandleSafe([h EXCEPT !.served = b])
<1>1. h \in HandleRec /\ << >> \in Text
  BY DEF HandleType, Text
<1>2. ASSUME NEW p \in [some : BOOLEAN, buf : Text]
      PROVE  HandleType([h EXCEPT !.pending = p], files)
  BY <1>1, <1>2 DEF HandleType, HandleRec
<1>3. Some(b) \in [some : BOOLEAN, buf : Text] /\ None \in [some : BOOLEAN, buf : Text]
  BY <1>1 DEF Some, None
<1>4. HandleType([h EXCEPT !.served = b], files)
  BY <1>1 DEF HandleType, HandleRec
<1>5. Safe(h.kind, h.served)
  BY DEF HandleSafe
<1>6. HandleSafe([h EXCEPT !.pending = Some(b)]) /\ HandleSafe([h EXCEPT !.pending = None])
  BY <1>1, <1>5 DEF HandleSafe, Some, None, PendingOr, HandleRec
<1>7. ~h.pending.some => HandleSafe([h EXCEPT !.served = b])
  BY <1>1 DEF HandleSafe, PendingOr, HandleRec
<1> QED
  BY <1>2, <1>3, <1>4, <1>6, <1>7

-----------------------------------------------------------------------------
(* The inductive invariant *)

FilesGood == data \in Seq(Text) /\ dir \in [Names -> 0..Len(data)]

(* A view on its way into a handle is safe already. *)
OpGood ==
    /\ OpType
    /\ op \in OpenOp => ViewGood(op.view)
    /\ op \in StoreOp => Safe(op.kind, op.view)

RestGood == reply.size \in Nat /\ missing \subseteq Names /\ host \in 0..MaxHost

Inv == FilesGood /\ InodesGood /\ GoodHandles(handles, Len(data)) /\ OpGood /\ RestGood

LEMMA InvImplies ==
    ASSUME Inv PROVE TypeOK /\ NoSecretServed
  BY DEF Inv, FilesGood, InodesGood, GoodHandles, OpGood, RestGood, TypeOK, NoSecretServed

(* Which request is in progress, told from pc alone. *)
LEMMA OpCases ==
    ASSUME OpType
    PROVE  /\ op.pc = "open" => op \in OpenOp
           /\ op.pc = "setsize" => op \in SizeOp
           /\ op.pc = "merge" => op \in MergeOp
           /\ op.pc \in {"truncate", "write"} => op \in StoreOp
           /\ op.pc \in {"merge", "truncate", "write"} =>
                 /\ op.fh \in DOMAIN handles.map
                 /\ handles.map[op.fh].tag = "Redacted"
                 /\ handles.map[op.fh].fd = op.fd
                 /\ handles.map[op.fh].kind = op.kind
                 /\ ~handles.map[op.fh].pending.some
  BY DEF OpType, Idle, SizeOp, OpenOp, MergeOp, StoreOp

(* An inode number the kernel holds that resolves is the number of a name. *)
LEMMA GivenIsName ==
    ASSUME InodesGood, NEW ino \in Given, HasPath(ino)
    PROVE  PathOf(ino) \in Names /\ ino \in Nat
  BY DEF InodesGood, TableType, Consistent, Given, HasPath, PathOf, ROOT_INO

LEMMA ExistingFile ==
    ASSUME FilesGood, NEW n \in Names, Exists(n)
    PROVE  dir[n] \in 1..Len(data) /\ data[dir[n]] \in Text
  BY DEF FilesGood, Exists, NoFile

LEMMA OpenFile ==
    ASSUME FilesGood, GoodHandles(handles, Len(data)), NEW fh \in DOMAIN handles.map
    PROVE  /\ HandleType(handles.map[fh], Len(data)) /\ HandleSafe(handles.map[fh])
           /\ handles.map[fh].served \in Text /\ handles.map[fh].pending.buf \in Text
           /\ handles.map[fh].pending.some \in BOOLEAN
           /\ PendingOr(handles.map[fh].pending, handles.map[fh].served) \in Text
           /\ handles.map[fh].tag \in {"File", "Redacted"} =>
                 handles.map[fh].fd \in 1..Len(data) /\ data[handles.map[fh].fd] \in Text
<1>1. HandleType(handles.map[fh], Len(data)) /\ HandleSafe(handles.map[fh])
  BY DEF GoodHandles, HandlesType
<1> DEFINE h == handles.map[fh]
<1>2. h.served \in Text /\ h.pending.buf \in Text /\ h.pending.some \in BOOLEAN
  BY <1>1 DEF HandleType, HandleRec
<1>3. h.tag \in {"File", "Redacted"} => h.fd \in 1..Len(data) /\ data[h.fd] \in Text
  BY <1>1 DEF HandleType, HandleRec, NoFile, FilesGood
<1> QED
  BY <1>1, <1>2, <1>3 DEF PendingOr

(* The real files after a change of one of them, or with a new one. *)
LEMMA ChangedFile ==
    ASSUME FilesGood, NEW f \in 1..Len(data), NEW b \in Text
    PROVE  /\ [data EXCEPT ![f] = b] \in Seq(Text)
           /\ Len([data EXCEPT ![f] = b]) = Len(data)
           /\ [data EXCEPT ![f] = b][f] = b
  BY DEF FilesGood

LEMMA AddedFile ==
    ASSUME FilesGood, NEW n \in Names, NEW b \in Text
    PROVE  /\ Append(data, b) \in Seq(Text)
           /\ Len(Append(data, b)) = Len(data) + 1
           /\ Append(data, b)[Len(data) + 1] = b
           /\ [dir EXCEPT ![n] = Len(data) + 1] \in [Names -> 0..(Len(data) + 1)]
<1>1. Len(data) \in Nat
  BY DEF FilesGood
<1> QED
  BY <1>1 DEF FilesGood

-----------------------------------------------------------------------------
(* Every action keeps it.  InodesGood' is InodesStep's. *)

(* An action that starts and ends idle leaves nothing to show about op. *)
LEMMA IdleGood ==
    ASSUME op' = Idle PROVE OpGood'
  BY DEF OpGood, OpType, Idle, OpenOp, StoreOp

(* A name or inode that resolves has an attr the overlay can answer with. *)
LEMMA AttrType ==
    ASSUME FilesGood, NEW n \in Names, Exists(n)
    PROVE  attr_size(n, data[dir[n]]) \in Nat /\ ViewGood(view_for(n, data[dir[n]]))
  BY ExistingFile, ViewForGood

LEMMA LookupInv ==
    ASSUME Inv, InodesGood', NEW n \in Names, Lookup(n)
    PROVE  Inv'
<1>1. UNCHANGED <<dir, data, handles, op, host>> /\ op' = Idle
  BY DEF Lookup
<1>2. missing' \subseteq Names
  BY DEF Lookup, Inv, RestGood
<1>3. reply'.size \in Nat
  BY AttrType DEF Lookup, Inv, EndWithAttr, Answer, AnswerAttr
<1>4. RestGood'
  BY <1>1, <1>2, <1>3 DEF Inv, RestGood
<1> QED
  BY <1>1, <1>4, IdleGood DEF Inv, FilesGood

LEMMA GetattrInv ==
    ASSUME Inv, InodesGood', NEW ino \in Given, Getattr(ino)
    PROVE  Inv'
<1>1. UNCHANGED <<dir, data, handles, op, missing, host>> /\ op' = Idle
  BY DEF Getattr
<1>2. reply'.size \in Nat
  BY AttrType, GivenIsName DEF Getattr, Inv, EndWithAttr, Answer, AnswerAttr, Resolves
<1> QED
  BY <1>1, <1>2, IdleGood DEF Inv, FilesGood, RestGood

LEMMA OpenViewInv ==
    ASSUME Inv, InodesGood', NEW ino \in Given, NEW wr \in BOOLEAN, NEW trunc \in BOOLEAN,
           OpenView(ino, wr, trunc)
    PROVE  Inv'
<1>1. UNCHANGED <<dir, data, handles, missing, host>>
  BY DEF OpenView
<1>2. RestGood'
  BY DEF OpenView, Answer, Inv, RestGood
<1>3. OpGood'
  <2>1. CASE op' = Idle
    BY <2>1, IdleGood
  <2>2. CASE op' # Idle
    <3> DEFINE view == view_for(PathOf(ino), data[dir[PathOf(ino)]])
    <3>1. /\ Resolves(ino)
          /\ op' = [pc |-> "open", ino |-> ino, name |-> PathOf(ino), wr |-> wr,
                    trunc |-> trunc, view |-> view]
      BY <2>2 DEF OpenView
    <3>2. PathOf(ino) \in Names /\ ino \in Nat /\ ViewGood(view)
      BY <3>1, AttrType, GivenIsName DEF Inv, Resolves
    <3> HIDE DEF view
    <3>3. op' \in OpenOp /\ op'.view = view /\ op'.pc = "open"
      BY <3>1, <3>2 DEF OpenOp, ViewGood
    <3>4. op' \notin StoreOp
      BY <3>3 DEF StoreOp
    <3> QED
      BY <3>2, <3>3, <3>4 DEF OpGood, OpType, ViewGood
  <2> QED
    BY <2>1, <2>2
<1> QED
  BY <1>1, <1>2, <1>3 DEF Inv, FilesGood

LEMMA OpenedHandleGood ==
    ASSUME NEW files \in Nat, NEW view, ViewGood(view), NEW fd \in 0..files, NEW ino \in Nat,
           NEW wr \in BOOLEAN, NEW trunc \in BOOLEAN,
           view.tag \in {"Passthrough", "Redacted"} => fd # NoFile
    PROVE  /\ HandleType(OpenedHandle(view, fd, ino, wr, trunc), files)
           /\ HandleSafe(OpenedHandle(view, fd, ino, wr, trunc))
<1> DEFINE h == OpenedHandle(view, fd, ino, wr, trunc)
<1>1. << >> \in Text /\ view.text \in Text /\ view.kind \in Kinds \cup {"None"}
  BY DEF Text, ViewGood, ViewRec
<1>2. None \in [some : BOOLEAN, buf : Text] /\ Some(<< >>) \in [some : BOOLEAN, buf : Text]
  BY <1>1 DEF None, Some
<1>3. Safe(view.kind, << >>)
  BY DEF Safe
<1>4. CASE view.tag = "Passthrough"
  <2>1. h = Handle("File", view.kind, fd, ino, wr, << >>, None)
    BY <1>4 DEF OpenedHandle
  <2> QED
    BY <1>1, <1>2, <1>4, <2>1 DEF Handle, HandleType, HandleRec, HandleSafe
<1>5. CASE view.tag = "Redacted"
  <2>1. h = Handle("Redacted", view.kind, fd, ino, wr, view.text,
                   IF trunc THEN Some(<< >>) ELSE None)
    BY <1>5 DEF OpenedHandle
  <2>2. HandleType(h, files)
    BY <1>1, <1>2, <1>5, <2>1 DEF Handle, HandleType, HandleRec, ViewGood
  <2>3. h.kind = view.kind /\ h.served = view.text
        /\ PendingOr(h.pending, h.served) \in {view.text, << >>}
    BY <2>1 DEF Handle, PendingOr, Some, None
  <2> QED
    BY <1>3, <1>5, <2>2, <2>3 DEF HandleSafe, ViewGood
<1>6. CASE view.tag \in {"Key", "Failed"}
  <2>1. h = Handle(view.tag, view.kind, NoFile, ino, wr, view.text, None)
    BY <1>6 DEF OpenedHandle
  <2>2. HandleType(h, files)
    BY <1>1, <1>2, <1>6, <2>1 DEF Handle, HandleType, HandleRec, NoFile
  <2>3. h.kind = view.kind /\ h.served = view.text
        /\ PendingOr(h.pending, h.served) = view.text
    BY <2>1 DEF Handle, PendingOr, None
  <2> QED
    BY <1>6, <2>2, <2>3 DEF HandleSafe, ViewGood
<1> QED
  BY <1>4, <1>5, <1>6 DEF ViewGood, ViewRec

LEMMA OpenFdInv ==
    ASSUME Inv, InodesGood', OpenFd
    PROVE  Inv'
<1>1. op \in OpenOp /\ ViewGood(op.view)
  BY OpCases DEF OpenFd, Inv, OpGood
<1>2. op' = Idle /\ UNCHANGED <<dir, missing, host>>
  BY DEF OpenFd
<1>3. RestGood'
  BY <1>2 DEF OpenFd, Answer, Inv, RestGood
<1>4. op.name \in Names /\ op.ino \in Nat /\ op.wr \in BOOLEAN /\ op.trunc \in BOOLEAN
  BY <1>1 DEF OpenOp
<1>5. Len(data) \in Nat
  BY DEF Inv, FilesGood
<1>6. << >> \in Text
  BY DEF Text
<1>7. CASE UNCHANGED <<data, handles>>
  BY <1>2, <1>3, <1>7, IdleGood DEF Inv, FilesGood
<1>8. CASE ~UNCHANGED <<data, handles>>
  <2> DEFINE h == OpenedHandle(op.view, dir[op.name], op.ino, op.wr, op.trunc)
  <2>1. /\ op.view.tag \in {"Passthrough", "Redacted"} => Exists(op.name)
        /\ handles' = insert(handles, h)
        /\ data' = IF op.view.tag = "Passthrough" /\ op.trunc
                   THEN [data EXCEPT ![dir[op.name]] = << >>] ELSE data
    BY <1>8 DEF OpenFd
  <2>2. HandleType(h, Len(data)) /\ HandleSafe(h)
    BY <1>1, <1>4, <1>5, <2>1, OpenedHandleGood DEF Inv, FilesGood, Exists
  <2>3. GoodHandles(handles', Len(data))
    BY <1>5, <2>1, <2>2, InsertGood DEF Inv
  <2>4. data' \in Seq(Text) /\ Len(data') = Len(data)
    BY <1>4, <1>6, <2>1, ExistingFile, ChangedFile DEF Inv, FilesGood
  <2> QED
    BY <1>2, <1>3, <2>3, <2>4, IdleGood DEF Inv, FilesGood
<1> QED
  BY <1>7, <1>8

LEMMA CreateInv ==
    ASSUME Inv, InodesGood', NEW n \in Names, NEW trunc \in BOOLEAN, Create(n, trunc)
    PROVE  Inv'
<1>1. op' = Idle /\ UNCHANGED host /\ missing' \subseteq Names
  BY DEF Create, Inv, RestGood
<1>2. Len(data) \in Nat /\ << >> \in Text
  BY DEF Inv, FilesGood, Text
<1>3. CASE UNCHANGED <<dir, data, handles>> /\ reply'.size = 0
  BY <1>1, <1>3, IdleGood DEF Inv, FilesGood, RestGood
<1>4. CASE ~(UNCHANGED <<dir, data, handles>> /\ reply'.size = 0)
  <2> DEFINE ino == inodes'.by_path[n]
             h == IF redacting /\ ByName[n] \in {"Env", "Npmrc"}
                  THEN Handle("Redacted", ByName[n], dir'[n], ino, TRUE, << >>, Some(<< >>))
                  ELSE Handle("File", "None", dir'[n], ino, TRUE, << >>, None)
  <2>1. /\ \/ /\ ~Exists(n)
              /\ dir' = [dir EXCEPT ![n] = Len(data) + 1]
              /\ data' = Append(data, << >>)
           \/ /\ Exists(n)
              /\ data' = IF trunc THEN [data EXCEPT ![dir[n]] = << >>] ELSE data
              /\ UNCHANGED dir
        /\ inodes' = intern(inodes, n)
        /\ handles' = insert(handles, h)
        /\ reply'.size \in {0, attr_size(n, data'[dir'[n]])}
    <3>1. ~(/\ (Gated /\ Answer("EACCES")) \/ (DiskMayFail /\ Answer("errno"))
            /\ UNCHANGED <<dir, data, inodes, handles>>)
      BY <1>4 DEF Answer
    <3>2. /\ \/ /\ ~Exists(n) /\ CanCreate
                /\ dir' = [dir EXCEPT ![n] = Len(data) + 1]
                /\ data' = Append(data, << >>)
             \/ /\ Exists(n)
                /\ data' = IF trunc THEN [data EXCEPT ![dir[n]] = << >>] ELSE data
                /\ UNCHANGED dir
          /\ inodes' = intern(inodes, n)
          /\ handles' = insert(handles, h)
          /\ EndWithAttr(attr_size(n, data'[dir'[n]]))
      BY <3>1, Zenon DEF Create
    <3>3. reply'.size \in {0, attr_size(n, data'[dir'[n]])}
      BY <3>2 DEF EndWithAttr, Answer, AnswerAttr
    <3> QED
      BY <3>2, <3>3, Zenon
  <2>2. ino \in Nat
    BY <2>1, InternGood DEF Inv, InodesGood, TableType
  <2> HIDE DEF ino
  <2>3. /\ data' \in Seq(Text) /\ Len(data') \in Nat /\ Len(data) <= Len(data')
        /\ dir' \in [Names -> 0..Len(data')]
        /\ dir'[n] \in 1..Len(data')
    <3>1. CASE ~Exists(n)
      <4>1. dir' = [dir EXCEPT ![n] = Len(data) + 1] /\ data' = Append(data, << >>)
        BY <2>1, <3>1
      <4>2. /\ data' \in Seq(Text) /\ Len(data') = Len(data) + 1
            /\ dir' \in [Names -> 0..(Len(data) + 1)]
        BY <1>2, <4>1, AddedFile DEF Inv
      <4>3. dir'[n] = Len(data) + 1
        BY <4>1 DEF Inv, FilesGood
      <4> QED
        BY <1>2, <4>2, <4>3
    <3>2. CASE Exists(n)
      <4>1. dir' = dir /\ data' = IF trunc THEN [data EXCEPT ![dir[n]] = << >>] ELSE data
        BY <2>1, <3>2
      <4>2. data' \in Seq(Text) /\ Len(data') = Len(data)
        BY <1>2, <3>2, <4>1, ExistingFile, ChangedFile DEF Inv, FilesGood
      <4> QED
        BY <1>2, <3>2, <4>1, <4>2, ExistingFile DEF Inv, FilesGood
    <3> QED
      BY <3>1, <3>2
  <2>4. HandleType(h, Len(data')) /\ HandleSafe(h)
    <3>1. None \in [some : BOOLEAN, buf : Text] /\ Some(<< >>) \in [some : BOOLEAN, buf : Text]
      BY <1>2 DEF None, Some
    <3>2. Safe(ByName[n], << >>)
      BY DEF Safe
    <3>3. CASE redacting /\ ByName[n] \in {"Env", "Npmrc"}
      <4>1. h = Handle("Redacted", ByName[n], dir'[n], ino, TRUE, << >>, Some(<< >>))
        BY <3>3
      <4>2. HandleType(h, Len(data'))
        BY <1>2, <2>2, <2>3, <3>1, <3>3, <4>1 DEF Handle, HandleType, HandleRec, NoFile, Kinds
      <4>3. h.kind = ByName[n] /\ h.served = << >> /\ PendingOr(h.pending, h.served) = << >>
        BY <4>1 DEF Handle, PendingOr, Some
      <4> QED
        BY <3>2, <4>2, <4>3 DEF HandleSafe
    <3>4. CASE ~(redacting /\ ByName[n] \in {"Env", "Npmrc"})
      <4>1. h = Handle("File", "None", dir'[n], ino, TRUE, << >>, None)
        BY <3>4
      <4> QED
        BY <1>2, <2>2, <2>3, <3>1, <4>1 DEF Handle, HandleType, HandleRec, HandleSafe, NoFile
    <3> QED
      BY <3>3, <3>4
  <2> HIDE DEF h
  <2>5. GoodHandles(handles', Len(data'))
    BY <1>2, <2>1, <2>3, <2>4, MoreFiles, InsertGood DEF Inv
  <2>6. reply'.size \in Nat
    <3>1. data'[dir'[n]] \in Text
      BY <2>3
    <3> QED
      BY <2>1, <3>1, ViewForGood
  <2> QED
    BY <1>1, <2>3, <2>5, <2>6, IdleGood DEF Inv, FilesGood, RestGood
<1> QED
  BY <1>3, <1>4

LEMMA ReadInv ==
    ASSUME Inv, InodesGood', NEW fh \in DOMAIN handles.map, Read(fh)
    PROVE  Inv'
<1>1. UNCHANGED <<dir, data, handles, op, missing, host>> /\ op' = Idle
  BY DEF Read
<1>2. reply'.size \in Nat
  <2> DEFINE h == handles.map[fh]
             bytes == Served(h)
  <2>1. h.tag \in {"File", "Redacted", "Key", "Failed"}
    BY OpenFile DEF Inv, HandleType, HandleRec
  <2>2. bytes.ok => bytes.text \in Text
    BY <2>1, OpenFile DEF Inv, Served, Ok, Err
  <2>3. reply'.size = 0 \/ (bytes.ok /\ reply'.size = Len(bytes.text))
    BY DEF Read, Answer, AnswerAttr
  <2> HIDE DEF bytes
  <2> QED
    BY <2>2, <2>3, TextIsFunction
<1> QED
  BY <1>1, <1>2, IdleGood DEF Inv, FilesGood, RestGood

(* Replacing a field of an open handle is replacing the handle. *)
LEMMA FieldOfHandle ==
    ASSUME NEW files \in Nat, NEW hs, GoodHandles(hs, files), NEW fh \in DOMAIN hs.map, NEW x
    PROVE  /\ [hs EXCEPT !.map[fh].pending = x]
                = [hs EXCEPT !.map[fh] = [hs.map[fh] EXCEPT !.pending = x]]
           /\ [hs EXCEPT !.map[fh].served = x]
                = [hs EXCEPT !.map[fh] = [hs.map[fh] EXCEPT !.served = x]]
<1>1. hs = [next |-> hs.next, map |-> hs.map]
  BY DEF GoodHandles, HandlesType
<1> QED
  BY <1>1

LEMMA SetPendingGood ==
    ASSUME Inv, NEW fh \in DOMAIN handles.map, handles.map[fh].tag = "Redacted",
           NEW b \in Text, Safe(handles.map[fh].kind, b), SetPending(fh, b)
    PROVE  GoodHandles(handles', Len(data))
<1> DEFINE h == [handles.map[fh] EXCEPT !.pending = Some(b)]
<1>1. Len(data) \in Nat
  BY DEF Inv, FilesGood
<1>2. HandleType(h, Len(data)) /\ HandleSafe(h)
  BY <1>1, OpenFile, EditedHandleGood DEF Inv
<1>3. handles' = [handles EXCEPT !.map[fh] = h]
  BY <1>1, FieldOfHandle DEF Inv, SetPending
<1> HIDE DEF h
<1> QED
  BY <1>1, <1>2, <1>3, ReplaceGood DEF Inv

LEMMA WriteInv ==
    ASSUME Inv, InodesGood', NEW fh \in DOMAIN handles.map, NEW off \in 0..MaxLen,
           NEW line \in Typed, Write(fh, off, line)
    PROVE  Inv'
<1> DEFINE h == handles.map[fh]
<1>1. op' = Idle /\ UNCHANGED <<dir, missing, host>>
  BY DEF Write
<1>2. RestGood'
  BY <1>1 DEF Write, Answer, Inv, RestGood
<1>3. line \in Line /\ off \in Nat /\ Len(data) \in Nat
  BY OverlayAssumption DEF Inv, FilesGood
<1>4. CASE UNCHANGED <<data, handles>>
  BY <1>1, <1>2, <1>4, IdleGood DEF Inv, FilesGood
<1>5. CASE /\ h.tag = "File" /\ UNCHANGED handles
           /\ data' = [data EXCEPT ![h.fd] = write_at(data[h.fd], off, <<line>>)]
  <2>1. h.fd \in 1..Len(data) /\ write_at(data[h.fd], off, <<line>>) \in Text
    BY <1>3, <1>5, OpenFile, WriteIsText DEF Inv
  <2>2. data' \in Seq(Text) /\ Len(data') = Len(data)
    BY <1>5, <2>1, ChangedFile DEF Inv
  <2> QED
    BY <1>1, <1>2, <1>5, <2>2, IdleGood DEF Inv, FilesGood
<1>6. CASE /\ h.tag = "Redacted" /\ UNCHANGED data
           /\ SetPending(fh, write_at(PendingOr(h.pending, h.served), off, <<line>>))
  <2> DEFINE b == PendingOr(h.pending, h.served)
  <2>1. HandleType(h, Len(data)) /\ HandleSafe(h) /\ b \in Text
    BY OpenFile DEF Inv
  <2>2. h.kind \in {"Env", "Npmrc"} /\ Safe(h.kind, b)
    BY <1>6, <2>1 DEF HandleType, HandleSafe
  <2>3. /\ write_at(b, off, <<line>>) \in Text
        /\ Safe(h.kind, write_at(b, off, <<line>>))
    BY <1>3, <2>1, <2>2, WriteIsText, WriteIsSafe
  <2>4. GoodHandles(handles', Len(data))
    BY <1>6, <2>3, SetPendingGood
  <2> QED
    BY <1>1, <1>2, <1>6, <2>4, IdleGood DEF Inv, FilesGood
<1> QED
  BY <1>4, <1>5, <1>6 DEF Write

LEMMA SetattrHandleInv ==
    ASSUME Inv, InodesGood', NEW fh \in DOMAIN handles.map, NEW sz \in 0..MaxLen,
           SetattrHandle(fh, sz)
    PROVE  Inv'
<1> DEFINE h == handles.map[fh]
           b == PendingOr(h.pending, h.served)
<1>1. /\ op' = Idle /\ UNCHANGED <<dir, data, missing, host>>
      /\ h.tag = "Redacted" /\ SetPending(fh, resize(b, sz))
  BY DEF SetattrHandle
<1>2. sz \in Nat
  BY OverlayAssumption
<1>3. RestGood'
  BY <1>1, <1>2 DEF SetattrHandle, Answer, AnswerAttr, Inv, RestGood
<1>4. HandleType(h, Len(data)) /\ HandleSafe(h) /\ b \in Text
  BY OpenFile DEF Inv
<1>5. h.kind \in {"Env", "Npmrc"} /\ Safe(h.kind, b)
  BY <1>1, <1>4 DEF HandleType, HandleSafe
<1>6. resize(b, sz) \in Text
  BY <1>2, <1>4, ResizeIsText
<1>7. Safe(h.kind, resize(b, sz))
  BY <1>2, <1>4, <1>5, ResizeIsSafe
<1>8. GoodHandles(handles', Len(data))
  BY <1>1, <1>6, <1>7, SetPendingGood
<1> QED
  BY <1>1, <1>3, <1>8, IdleGood DEF Inv, FilesGood

LEMMA SetattrPathInv ==
    ASSUME Inv, InodesGood', NEW ino \in Given, NEW sz \in 0..MaxLen, SetattrPath(ino, sz)
    PROVE  Inv'
<1>1. UNCHANGED <<dir, data, handles, missing, host>> /\ op = Idle
  BY DEF SetattrPath
<1>2. sz \in Nat
  BY OverlayAssumption
<1>3. reply'.size \in Nat
  BY AttrType, GivenIsName DEF SetattrPath, EndWithAttr, Answer, AnswerAttr, Inv, Resolves, RestGood
<1>4. op' = Idle \/ op' \in SizeOp
  BY <1>2, GivenIsName DEF SetattrPath, SizeOp, Inv, Resolves
<1>5. OpGood'
  <2>1. op' \in SizeOp => op' \notin OpenOp /\ op' \notin StoreOp
    BY DEF SizeOp, OpenOp, StoreOp
  <2> QED
    BY <1>4, <2>1, IdleGood DEF OpGood, OpType
<1> QED
  BY <1>1, <1>3, <1>5 DEF Inv, FilesGood, RestGood

LEMMA SetattrSizeInv ==
    ASSUME Inv, InodesGood', SetattrSize
    PROVE  Inv'
<1>1. op' = Idle /\ UNCHANGED <<dir, handles, missing, host>>
  BY DEF SetattrSize
<1> DEFINE n == op.name
<1>2. n \in Names /\ op.size \in Nat
  BY OpCases DEF SetattrSize, SizeOp, Inv, OpGood
<1>3. CASE UNCHANGED data
  <2>1. reply'.size \in Nat
    BY <1>2, <1>3, AttrType DEF SetattrSize, EndWithAttr, Answer, AnswerAttr, Inv
  <2> QED
    BY <1>1, <1>3, <2>1, IdleGood DEF Inv, FilesGood, RestGood
<1>4. CASE ~UNCHANGED data
  <2>1. /\ Exists(n)
        /\ data' = [data EXCEPT ![dir[n]] = resize(data[dir[n]], op.size)]
        /\ reply'.size \in {0, attr_size(n, data'[dir[n]])}
    BY <1>4 DEF SetattrSize, EndWithAttr, Answer, AnswerAttr
  <2>2. dir[n] \in 1..Len(data) /\ data[dir[n]] \in Text
    BY <1>2, <2>1, ExistingFile DEF Inv
  <2>3. resize(data[dir[n]], op.size) \in Text
    BY <1>2, <2>2, ResizeIsText
  <2>4. data' \in Seq(Text) /\ Len(data') = Len(data) /\ data'[dir[n]] \in Text
    BY <2>1, <2>2, <2>3, ChangedFile DEF Inv
  <2>5. reply'.size \in Nat
    BY <1>2, <2>1, <2>2, <2>4, ViewForGood
  <2> QED
    BY <1>1, <2>4, <2>5, IdleGood DEF Inv, FilesGood, RestGood
<1> QED
  BY <1>3, <1>4

LEMMA PersistBeginInv ==
    ASSUME Inv, InodesGood', NEW fh \in DOMAIN handles.map, NEW why \in {"keep", "release"},
           PersistBegin(fh, why)
    PROVE  Inv'
<1> DEFINE h == handles.map[fh]
           taken == [handles EXCEPT !.map[fh].pending = None]
<1>1. UNCHANGED <<dir, data, missing, host>>
  BY DEF PersistBegin
<1>2. RestGood'
  BY <1>1 DEF PersistBegin, EndPersist, Answer, Inv, RestGood
<1>3. Len(data) \in Nat /\ GoodHandles(handles, Len(data))
  BY DEF Inv, FilesGood
<1>4. h.tag = "Redacted" => /\ GoodHandles(taken, Len(data))
                            /\ DOMAIN taken.map = DOMAIN handles.map
                            /\ taken.map[fh] = [h EXCEPT !.pending = None]
  <2> SUFFICES ASSUME h.tag = "Redacted"
               PROVE  /\ GoodHandles(taken, Len(data))
                      /\ DOMAIN taken.map = DOMAIN handles.map
                      /\ taken.map[fh] = [h EXCEPT !.pending = None]
    OBVIOUS
  <2> DEFINE g == [h EXCEPT !.pending = None]
  <2>1. HandleType(h, Len(data)) /\ HandleSafe(h) /\ h.served \in Text /\ Safe(h.kind, h.served)
    BY OpenFile DEF Inv, HandleSafe
  <2>2. HandleType(g, Len(data)) /\ HandleSafe(g)
    BY <1>3, <2>1, EditedHandleGood
  <2>3. taken = [handles EXCEPT !.map[fh] = g]
    BY <1>3, FieldOfHandle
  <2> HIDE DEF g, taken
  <2>4. /\ GoodHandles(taken, Len(data))
        /\ DOMAIN taken.map = DOMAIN handles.map
        /\ taken.map[fh] = g
    BY <1>3, <2>2, <2>3, ReplaceGood
  <2> QED
    BY <2>4 DEF g, taken
<1> HIDE DEF taken
<1>5. CASE op' = Idle
  <2>1. \/ handles' = AfterPersist(handles, fh, why)
        \/ h.tag = "Redacted" /\ handles' = AfterPersist(taken, fh, why)
    BY <1>5 DEF PersistBegin, EndPersist, Idle, taken
  <2>2. GoodHandles(handles', Len(data))
    BY <1>3, <1>4, <2>1, AfterPersistGood
  <2> QED
    BY <1>1, <1>2, <1>5, <2>2, IdleGood DEF Inv, FilesGood
<1>6. CASE op' # Idle
  <2>1. /\ h.tag = "Redacted" /\ handles' = taken
        /\ op' = [pc |-> "merge", fh |-> fh, why |-> why, fd |-> h.fd, kind |-> h.kind,
                  written |-> h.pending.buf, original |-> data[h.fd]]
    BY <1>6 DEF PersistBegin, EndPersist, taken
  <2>2. GoodHandles(handles', Len(data))
    BY <1>4, <2>1
  <2>3. /\ fh \in Nat /\ h.fd \in Nat /\ h.kind \in Kinds
        /\ h.pending.buf \in Text /\ data[h.fd] \in Text
    <3>1. fh \in Nat
      BY <1>3 DEF GoodHandles, HandlesType
    <3> QED
      BY <2>1, <3>1, OpenFile DEF Inv, HandleType, HandleRec, Kinds
  <2>4. op' \in MergeOp
    BY <2>1, <2>3 DEF MergeOp
  <2>5. /\ handles'.map[fh] = [h EXCEPT !.pending = None] /\ fh \in DOMAIN handles'.map
        /\ h \in HandleRec
    BY <1>4, <2>1, OpenFile DEF Inv, HandleType
  <2>6. /\ handles'.map[fh].tag = "Redacted" /\ handles'.map[fh].fd = h.fd
        /\ handles'.map[fh].kind = h.kind /\ ~handles'.map[fh].pending.some
    BY <2>1, <2>5 DEF HandleRec, None
  <2>7. OpGood'
    BY <2>1, <2>4, <2>5, <2>6 DEF OpGood, OpType, OpenOp, StoreOp
  <2> QED
    BY <1>1, <1>2, <2>2, <2>7 DEF Inv, FilesGood
<1> QED
  BY <1>5, <1>6

(* persist replaces nothing in the handle until everything is stored. *)
LEMMA EndPersistInv ==
    ASSUME Inv, NEW fh, NEW why, NEW err, NEW hs, GoodHandles(hs, Len(data)),
           EndPersist(fh, why, err, hs), UNCHANGED <<missing, host>>
    PROVE  OpGood' /\ RestGood' /\ GoodHandles(handles', Len(data))
<1>1. op' = Idle /\ handles' = AfterPersist(hs, fh, why) /\ reply'.size = 0
  BY DEF EndPersist, Answer
<1>2. Len(data) \in Nat
  BY DEF Inv, FilesGood
<1>3. GoodHandles(handles', Len(data))
  BY <1>1, <1>2, AfterPersistGood
<1> QED
  BY <1>1, <1>3, IdleGood DEF Inv, RestGood

LEMMA PersistMergeInv ==
    ASSUME Inv, InodesGood', PersistMerge
    PROVE  Inv'
<1> DEFINE merged == NewOriginal(op.kind, op.original, op.written)
           view == NewView(op.kind, merged.text)
<1>1. UNCHANGED <<dir, data, missing, host>> /\ op.pc = "merge"
  BY DEF PersistMerge, Merge
<1>2. /\ op \in MergeOp /\ op.fh \in DOMAIN handles.map
      /\ handles.map[op.fh].tag = "Redacted" /\ handles.map[op.fh].fd = op.fd
      /\ handles.map[op.fh].kind = op.kind /\ ~handles.map[op.fh].pending.some
  BY <1>1, OpCases DEF Inv, OpGood
<1>3. CASE merged.ok /\ view.ok
  <2>1. /\ op' = [pc |-> "truncate", fh |-> op.fh, why |-> op.why, fd |-> op.fd,
                  kind |-> op.kind, written |-> op.written, original |-> op.original,
                  merged |-> merged.text, view |-> view.text]
        /\ UNCHANGED <<handles, reply>>
    BY <1>3 DEF PersistMerge, Merge
  <2>2. /\ op.original \in Text /\ op.written \in Text /\ op.fh \in Nat /\ op.fd \in Nat
        /\ op.why \in {"keep", "release"} /\ op.kind \in Kinds
    BY <1>2 DEF MergeOp
  <2>3. op.kind \in {"Env", "Npmrc"}
    BY <1>2, OpenFile DEF Inv, HandleType
  <2>4. merged.text \in Text
    BY <2>2, MergeType DEF NewOriginal
  <2> HIDE DEF merged
  <2>5. view.text \in Text /\ Safe(op.kind, view.text)
    BY <2>3, <2>4, RedactType, RedactIsSafe DEF NewView
  <2> HIDE DEF view
  <2>6. op' \in StoreOp
    BY <2>1, <2>2, <2>4, <2>5 DEF StoreOp
  <2>7. OpGood'
    BY <1>2, <2>1, <2>5, <2>6 DEF OpGood, OpType, OpenOp
  <2> QED
    BY <1>1, <2>1, <2>7 DEF Inv, FilesGood, RestGood
<1>4. CASE ~(merged.ok /\ view.ok)
  <2>1. EndPersist(op.fh, op.why, "EIO", handles)
    BY <1>4 DEF PersistMerge, Merge
  <2> QED
    BY <1>1, <2>1, EndPersistInv DEF Inv, FilesGood
<1> QED
  BY <1>3, <1>4

(* The write-back in progress, between two system calls. *)
LEMMA StoreFacts ==
    ASSUME Inv, op.pc \in {"truncate", "write"}
    PROVE  /\ op \in StoreOp /\ Safe(op.kind, op.view)
           /\ op.merged \in Text /\ op.view \in Text
           /\ op.fh \in DOMAIN handles.map
           /\ handles.map[op.fh].tag = "Redacted" /\ handles.map[op.fh].kind = op.kind
           /\ handles.map[op.fh].fd = op.fd /\ ~handles.map[op.fh].pending.some
           /\ op.fd \in 1..Len(data) /\ data[op.fd] \in Text
<1>1. /\ op \in StoreOp /\ Safe(op.kind, op.view) /\ op.fh \in DOMAIN handles.map
      /\ handles.map[op.fh].tag = "Redacted" /\ handles.map[op.fh].kind = op.kind
      /\ handles.map[op.fh].fd = op.fd /\ ~handles.map[op.fh].pending.some
  BY OpCases DEF Inv, OpGood
<1>2. op.merged \in Text /\ op.view \in Text
  BY <1>1 DEF StoreOp
<1>3. op.fd \in 1..Len(data) /\ data[op.fd] \in Text
  BY <1>1, OpenFile DEF Inv
<1> QED
  BY <1>1, <1>2, <1>3

LEMMA PersistTruncateInv ==
    ASSUME Inv, InodesGood', PersistTruncate
    PROVE  Inv'
<1>1. UNCHANGED <<dir, missing, host>> /\ op.pc \in {"truncate", "write"}
  BY DEF PersistTruncate
<1>2. << >> \in Text
  BY DEF Text
<1>3. CASE EndPersist(op.fh, op.why, "errno", handles) /\ UNCHANGED data
  BY <1>1, <1>3, EndPersistInv DEF Inv, FilesGood
<1>4. CASE /\ data' = [data EXCEPT ![op.fd] = << >>]
           /\ op' = [op EXCEPT !.pc = "write"]
           /\ UNCHANGED <<handles, reply>>
  <2>1. data' \in Seq(Text) /\ Len(data') = Len(data)
    BY <1>1, <1>2, <1>4, StoreFacts, ChangedFile DEF Inv
  <2>2. op' \in StoreOp /\ op'.fh = op.fh /\ op'.fd = op.fd /\ op'.kind = op.kind
        /\ op'.view = op.view /\ op'.pc = "write"
    BY <1>1, <1>4, StoreFacts DEF StoreOp
  <2>3. OpGood'
    BY <1>1, <1>4, <2>2, StoreFacts DEF OpGood, OpType, OpenOp
  <2> QED
    BY <1>1, <1>4, <2>1, <2>3 DEF Inv, FilesGood, RestGood
<1> QED
  BY <1>3, <1>4 DEF PersistTruncate

LEMMA PersistWriteInv ==
    ASSUME Inv, InodesGood', PersistWrite
    PROVE  Inv'
<1>1. UNCHANGED <<dir, missing, host>> /\ op.pc \in {"truncate", "write"}
  BY DEF PersistWrite
<1>2. Len(data) \in Nat /\ Len(op.merged) \in Nat
  BY <1>1, StoreFacts, TextIsFunction DEF Inv, FilesGood
<1>3. CASE /\ data' = [data EXCEPT ![op.fd] = write_at(data[op.fd], 0, op.merged)]
           /\ EndPersist(op.fh, op.why, "ok", [handles EXCEPT !.map[op.fh].served = op.view])
  <2> DEFINE h == [handles.map[op.fh] EXCEPT !.served = op.view]
             hs == [handles EXCEPT !.map[op.fh].served = op.view]
  <2>1. write_at(data[op.fd], 0, op.merged) \in Text
    <3>1. 0 \in 0..Len(op.merged)
      BY <1>2
    <3> QED
      BY <1>1, <3>1, StoreFacts, StoreIsText
  <2>2. data' \in Seq(Text) /\ Len(data') = Len(data)
    BY <1>1, <1>3, <2>1, StoreFacts, ChangedFile DEF Inv
  <2>3. HandleType(h, Len(data)) /\ HandleSafe(h)
    BY <1>1, <1>2, StoreFacts, OpenFile, EditedHandleGood DEF Inv
  <2>4. hs = [handles EXCEPT !.map[op.fh] = h]
    BY <1>1, <1>2, StoreFacts, FieldOfHandle DEF Inv
  <2> HIDE DEF h
  <2>5. GoodHandles(hs, Len(data))
    BY <1>1, <1>2, <2>3, <2>4, StoreFacts, ReplaceGood DEF Inv
  <2> HIDE DEF hs
  <2>6. OpGood' /\ RestGood' /\ GoodHandles(handles', Len(data))
    BY <1>1, <1>3, <2>5, EndPersistInv DEF hs
  <2> QED
    BY <1>1, <2>2, <2>6 DEF Inv, FilesGood
<1>4. CASE /\ \E m \in 0..(Len(op.merged) - 1) :
                 data' = [data EXCEPT ![op.fd] =
                            write_at(data[op.fd], 0, SubSeq(op.merged, 1, m))]
           /\ EndPersist(op.fh, op.why, "errno", handles)
  <2>1. PICK m \in 0..(Len(op.merged) - 1) :
           data' = [data EXCEPT ![op.fd] = write_at(data[op.fd], 0, SubSeq(op.merged, 1, m))]
    BY <1>4
  <2>2. write_at(data[op.fd], 0, SubSeq(op.merged, 1, m)) \in Text
    <3>1. m \in 0..Len(op.merged)
      BY <1>2
    <3> QED
      BY <1>1, <3>1, StoreFacts, StoreIsText
  <2>3. data' \in Seq(Text) /\ Len(data') = Len(data)
    BY <1>1, <2>1, <2>2, StoreFacts, ChangedFile DEF Inv
  <2>4. OpGood' /\ RestGood' /\ GoodHandles(handles', Len(data))
    BY <1>1, <1>4, EndPersistInv DEF Inv
  <2> QED
    BY <1>1, <2>3, <2>4 DEF Inv, FilesGood
<1> QED
  BY <1>3, <1>4 DEF PersistWrite

(* Changes to the directory alone *)
LEMMA DirectoryInv ==
    ASSUME Inv, InodesGood', dir' \in [Names -> 0..Len(data)], op' = Idle,
           UNCHANGED <<data, handles, host>>, missing' \subseteq Names, reply'.size \in Nat
    PROVE  Inv'
  BY IdleGood DEF Inv, FilesGood, RestGood

LEMMA UnlinkInv ==
    ASSUME Inv, InodesGood', NEW n \in Names, Unlink(n)
    PROVE  Inv'
<1>1. Len(data) \in Nat
  BY DEF Inv, FilesGood
<1>2. dir' \in [Names -> 0..Len(data)]
  BY <1>1 DEF Unlink, Inv, FilesGood, NoFile
<1>3. /\ op' = Idle /\ UNCHANGED <<data, handles, host>>
      /\ missing' \subseteq Names /\ reply'.size \in Nat
  BY DEF Unlink, Answer, Inv, RestGood
<1> QED
  BY <1>2, <1>3, DirectoryInv

LEMMA RenameInv ==
    ASSUME Inv, InodesGood', NEW from \in Names, NEW to \in Names, Rename(from, to)
    PROVE  Inv'
<1>1. Len(data) \in Nat
  BY DEF Inv, FilesGood
<1>2. dir' \in [Names -> 0..Len(data)]
  BY <1>1 DEF Rename, Inv, FilesGood, NoFile
<1>3. /\ op' = Idle /\ UNCHANGED <<data, handles, host>>
      /\ missing' \subseteq Names /\ reply'.size \in Nat
  BY DEF Rename, Answer, Inv, RestGood
<1> QED
  BY <1>2, <1>3, DirectoryInv

LEMMA LinkInv ==
    ASSUME Inv, InodesGood', NEW ino \in Given, NEW n \in Names, Link(ino, n)
    PROVE  Inv'
<1>1. op' = Idle /\ UNCHANGED <<data, handles, host>> /\ missing' \subseteq Names
  BY DEF Link, Inv, RestGood
<1>2. CASE UNCHANGED dir /\ reply'.size = 0
  BY <1>1, <1>2, DirectoryInv DEF Inv, FilesGood
<1>3. CASE /\ Resolves(ino)
           /\ dir' = [dir EXCEPT ![n] = dir[PathOf(ino)]]
           /\ reply'.size \in {0, attr_size(n, data[dir'[n]])}
  <2>1. /\ dir[PathOf(ino)] \in 0..Len(data)
        /\ data[dir[PathOf(ino)]] \in Text
    BY <1>3, GivenIsName, ExistingFile DEF Resolves, Inv, FilesGood
  <2>2. dir' \in [Names -> 0..Len(data)] /\ dir'[n] = dir[PathOf(ino)]
    BY <1>3, <2>1 DEF Inv, FilesGood
  <2>3. reply'.size \in Nat
    BY <1>3, <2>1, <2>2, ViewForGood
  <2> QED
    BY <1>1, <2>2, <2>3, DirectoryInv
<1> QED
  BY <1>2, <1>3 DEF Link, EndWithAttr, Answer, AnswerAttr

(* The host changes files and names, never the overlay's own state. *)
LEMMA HostInv ==
    ASSUME Inv, InodesGood', Host
    PROVE  Inv'
<1>1. UNCHANGED <<handles, op, reply, missing>> /\ host < MaxHost /\ host' = host + 1
  BY DEF Host, HostWrite, HostReplace, HostRemove, HostMay
<1>2. RestGood'
  BY <1>1, OverlayAssumption DEF Inv, RestGood
<1>3. OpGood'
  BY <1>1 DEF Inv, OpGood, OpType
<1>4. Len(data) \in Nat /\ \A n \in Names : HostTexts[n] \subseteq Text
  BY OverlayAssumption DEF Inv, FilesGood
<1>5. ASSUME NEW n \in Names, NEW text \in HostTexts[n], HostWrite(n, text) PROVE Inv'
  <2>1. data' = [data EXCEPT ![dir[n]] = text] /\ dir' = dir /\ dir[n] \in 1..Len(data)
    BY <1>5, ExistingFile DEF HostWrite, Inv
  <2>2. data' \in Seq(Text) /\ Len(data') = Len(data)
    BY <1>4, <2>1, ChangedFile DEF Inv
  <2> QED
    BY <1>1, <1>2, <1>3, <2>1, <2>2 DEF Inv, FilesGood
<1>6. ASSUME NEW n \in Names, NEW text \in HostTexts[n], HostReplace(n, text) PROVE Inv'
  <2>1. data' = Append(data, text) /\ dir' = [dir EXCEPT ![n] = Len(data) + 1]
    BY <1>6 DEF HostReplace
  <2>2. /\ data' \in Seq(Text) /\ Len(data') = Len(data) + 1
        /\ dir' \in [Names -> 0..Len(data')]
    BY <1>4, <2>1, AddedFile DEF Inv
  <2>3. GoodHandles(handles', Len(data'))
    BY <1>1, <1>4, <2>2, MoreFiles DEF Inv
  <2> QED
    BY <1>2, <1>3, <2>2, <2>3 DEF Inv, FilesGood
<1>7. ASSUME NEW n \in Names, HostRemove(n) PROVE Inv'
  <2>1. dir' = [dir EXCEPT ![n] = NoFile] /\ data' = data
    BY <1>7 DEF HostRemove
  <2>2. dir' \in [Names -> 0..Len(data)]
    BY <1>4, <2>1 DEF Inv, FilesGood, NoFile
  <2> QED
    BY <1>1, <1>2, <1>3, <2>1, <2>2 DEF Inv, FilesGood
<1> QED
  BY <1>5, <1>6, <1>7 DEF Host

LEMMA StepInv ==
    ASSUME Inv, [Next]_vars
    PROVE  Inv'
<1>1. InodesGood'
  BY InodesStep DEF Inv
<1>2. CASE Request
  BY <1>1, <1>2, LookupInv, GetattrInv, OpenViewInv, CreateInv, ReadInv, WriteInv,
     SetattrHandleInv, SetattrPathInv, PersistBeginInv, UnlinkInv, RenameInv, LinkInv
     DEF Request
<1>3. CASE Continue
  BY <1>1, <1>3, OpenFdInv, SetattrSizeInv, PersistMergeInv, PersistTruncateInv, PersistWriteInv DEF Continue
<1>4. CASE Host
  BY <1>1, <1>4, HostInv
<1>5. CASE UNCHANGED vars
  BY <1>1, <1>5 DEF vars, Inv, FilesGood, OpGood, OpType, RestGood
<1> QED
  BY <1>2, <1>3, <1>4, <1>5 DEF Next

LEMMA InitInv ==
    ASSUME Init PROVE Inv
<1>1. /\ Mounted \in Seq(Names) /\ \A n \in Names : HostTexts[n] \subseteq Text
      /\ MaxHost \in Nat
  BY OverlayAssumption
<1>2. Len(Mounted) \in Nat /\ DOMAIN Mounted = 1..Len(Mounted)
  BY <1>1
<1>3. FilesGood
  <2>1. data \in [1..Len(Mounted) -> Text]
    BY <1>1, <1>2 DEF Init
  <2>2. data \in Seq(Text) /\ Len(data) = Len(Mounted)
    BY <1>2, <2>1
  <2>3. dir \in [Names -> 0..Len(Mounted)]
    BY <1>2 DEF Init, NoFile
  <2> QED
    BY <2>2, <2>3 DEF FilesGood
<1>4. InodesGood
  BY NewTableGood DEF Init, InodesGood
<1>5. GoodHandles(handles, Len(data))
  BY DEF Init, GoodHandles, HandlesType
<1>6. OpGood /\ RestGood
  BY <1>1 DEF Init, OpGood, OpType, Idle, OpenOp, StoreOp, RestGood
<1> QED
  BY <1>3, <1>4, <1>5, <1>6 DEF Inv

(* Type correctness of the overlay: in particular every descriptor a handle
   holds refers to a real file, every open handle's number is below the next
   one, and the write-back in progress belongs to an open handle whose buffer
   it has taken. *)
THEOREM TypeCorrect == Spec => []TypeOK
<1>1. Init => Inv
  BY InitInv
<1>2. Inv /\ [Next]_vars => Inv'
  BY StepInv
<1>3. Inv => TypeOK
  BY InvImplies
<1> QED
  BY <1>1, <1>2, <1>3, PTL DEF Spec

(* No secret reaches the program: whatever it writes, however many handles it
   opens, whatever the host does to the real files and whichever system calls
   fail, no handle on a secret file ever serves a hidden value that the
   program did not type itself. *)
THEOREM SecretsStayHidden == Spec => []NoSecretServed
<1>1. Init => Inv
  BY InitInv
<1>2. Inv /\ [Next]_vars => Inv'
  BY StepInv
<1>3. Inv => NoSecretServed
  BY InvImplies
<1> QED
  BY <1>1, <1>2, <1>3, PTL DEF Spec
-----------------------------------------------------------------------------
(* Without host changes: what persist has read is what the file holds. *)

(* Until the original is truncated it is what persist read. *)
OriginalRead == op.pc = "merge" => data[op.fd] = op.original

LEMMA NoHost ==
    ASSUME Inv, MaxHost = 0 PROVE ~Host
<1>1. host \in 0..0
  BY DEF Inv, RestGood
<1> QED
  BY <1>1 DEF Host, HostWrite, HostReplace, HostRemove, HostMay

(* A request is taken by an idle backend. *)
LEMMA RequestStep ==
    ASSUME Request
    PROVE  /\ op = Idle
           /\ \/ op' = Idle
              \/ op'.pc \in {"open", "setsize"}
              \/ op'.pc = "merge" /\ UNCHANGED data /\ op'.original = data[op'.fd]
<1>1. ASSUME NEW fh \in DOMAIN handles.map, NEW why, PersistBegin(fh, why)
      PROVE  op = Idle /\ (op' = Idle
              \/ (op'.pc = "merge" /\ UNCHANGED data /\ op'.original = data[op'.fd]))
  BY <1>1 DEF PersistBegin, EndPersist
<1>2. ASSUME NEW ino, NEW wr, NEW trunc, OpenView(ino, wr, trunc)
      PROVE  op = Idle /\ (op' = Idle \/ op'.pc = "open")
  BY <1>2 DEF OpenView
<1>3. ASSUME NEW ino, NEW sz, SetattrPath(ino, sz)
      PROVE  op = Idle /\ (op' = Idle \/ op'.pc = "setsize")
  BY <1>3 DEF SetattrPath
<1> QED
  BY <1>1, <1>2, <1>3 DEF Request, Lookup, Getattr, Create, Read, Write, SetattrHandle,
                          Unlink, Rename, Link

(* design.md "on write, leaves the original file unmodified": when no host
   process interferes, a write-back that a handler refuses ends with the file as
   persist found it, through whichever handle and after whatever edits. *)
THEOREM RefusedSaveKeepsOriginal ==
    ASSUME MaxHost = 0 PROVE Spec => HandlerErrorKeepsOriginal
<1>1. Init => Inv /\ OriginalRead
  BY InitInv DEF Init, OriginalRead, Idle
<1>2. Inv /\ OriginalRead /\ [Next]_vars => Inv' /\ OriginalRead'
  <2> SUFFICES ASSUME Inv, OriginalRead, [Next]_vars PROVE OriginalRead'
    BY StepInv
  <2>1. CASE Request
    BY <2>1, RequestStep DEF OriginalRead, Idle
  <2>2. CASE Continue
    <3>1. CASE OpenFd
      BY <3>1 DEF OpenFd, OriginalRead, Idle
    <3>5. CASE SetattrSize
      BY <3>5 DEF SetattrSize, OriginalRead, Idle
    <3>2. CASE PersistMerge
      BY <3>2 DEF PersistMerge, Merge, EndPersist, OriginalRead, Idle
    <3>3. CASE PersistTruncate
      <4>1. op' = Idle \/ op' = [op EXCEPT !.pc = "write"]
        BY <3>3 DEF PersistTruncate, EndPersist
      <4>2. op \in StoreOp
        BY <3>3, OpCases DEF PersistTruncate, Inv, OpGood
      <4>3. op'.pc # "merge"
        BY <4>1, <4>2 DEF StoreOp, Idle
      <4> QED
        BY <4>3 DEF OriginalRead
    <3>4. CASE PersistWrite
      BY <3>4 DEF PersistWrite, EndPersist, OriginalRead, Idle
    <3> QED
      BY <2>2, <3>1, <3>2, <3>3, <3>4, <3>5 DEF Continue
  <2>3. CASE UNCHANGED vars
    BY <2>3 DEF vars, OriginalRead
  <2> QED
    BY <2>1, <2>2, <2>3, NoHost DEF Next
<1>3. Inv /\ OriginalRead /\ [Next]_vars
        => [EndsPersist /\ reply'.err = "EIO" => data'[op.fd] = op.original]_vars
  <2> SUFFICES ASSUME Inv, OriginalRead, Next, EndsPersist, reply'.err = "EIO"
               PROVE  data'[op.fd] = op.original
    OBVIOUS
  <2>1. ~Request
    BY RequestStep DEF EndsPersist, Idle
  <2>2. ~OpenFd /\ ~SetattrSize
    BY DEF EndsPersist, OpenFd, SetattrSize
  <2>3. ~PersistTruncate
    <3> SUFFICES ASSUME PersistTruncate PROVE FALSE
      OBVIOUS
    <3>1. op \in StoreOp
      BY OpCases DEF PersistTruncate, Inv, OpGood
    <3>2. op' # [op EXCEPT !.pc = "write"]
      BY <3>1 DEF EndsPersist, StoreOp
    <3> QED
      BY <3>2 DEF PersistTruncate, EndPersist, Answer
  <2>4. ~PersistWrite
    BY DEF PersistWrite, EndPersist, Answer
  <2>5. PersistMerge
    BY <2>1, <2>2, <2>3, <2>4, NoHost DEF Next, Continue
  <2> QED
    BY <2>5 DEF PersistMerge, Merge, OriginalRead
<1> QED
  BY <1>1, <1>2, <1>3, PTL DEF Spec, HandlerErrorKeepsOriginal
-----------------------------------------------------------------------------
(* Without host changes: a handle stays with the name of its inode. *)

(* A file opened through ino, as long as the table leads from ino to a name  *)
(* and back, is the file of that name.                                       *)
Agrees(fd, ino, t, d) ==
    /\ fd # NoFile
    /\ ino \in DOMAIN t.by_ino
    /\ t.by_ino[ino] \in DOMAIN t.by_path
    /\ t.by_path[t.by_ino[ino]] = ino
    => d[t.by_ino[ino]] = fd

(* The number is not the root's, and will not be handed out again. *)
Issued(ino, t) == ino \in Nat /\ ino # ROOT_INO /\ ino < t.next

(* A name with a number exists. *)
Named(t, d) == \A n \in DOMAIN t.by_path : n # ROOT => d[n] # NoFile

GoodTable(t) == TableType(t, Names \cup {ROOT}) /\ Consistent(t)

LEMMA TableFacts ==
    ASSUME NEW t, GoodTable(t)
    PROVE  /\ t.next \in Nat
           /\ \A m \in DOMAIN t.by_path : /\ m # ROOT => m \in Names
                                          /\ t.by_path[m] \in Nat
                                          /\ t.by_path[m] \in DOMAIN t.by_ino
                                          /\ t.by_ino[t.by_path[m]] = m
           /\ \A i \in DOMAIN t.by_ino : i \in Nat /\ i < t.next
           /\ ROOT \in DOMAIN t.by_path /\ t.by_path[ROOT] = ROOT_INO
  BY DEF GoodTable, TableType, Consistent

(* The number of a name is its own, and never the root's. *)
LEMMA NameIssued ==
    ASSUME NEW t, GoodTable(t), NEW n \in Names, n \in DOMAIN t.by_path
    PROVE  /\ Issued(t.by_path[n], t)
           /\ \A d, fd : (fd # NoFile => d[n] = fd) => Agrees(fd, t.by_path[n], t, d)
<1>1. n # ROOT
  BY OverlayAssumption
<1>2. t.by_path[n] \in DOMAIN t.by_ino /\ t.by_ino[t.by_path[n]] = n /\ t.by_path[n] \in Nat
      /\ t.by_path[n] < t.next
  BY TableFacts
<1>3. t.by_path[n] # t.by_path[ROOT]
  BY <1>1, <1>2, TableFacts
<1> QED
  BY <1>2, <1>3, TableFacts DEF Issued, Agrees

LEMMA InternAgrees ==
    ASSUME NEW t, GoodTable(t), NEW d, NEW e, NEW n \in Names, Named(t, d), e[n] # NoFile,
           n \in DOMAIN t.by_path => e[n] = d[n],
           \A m \in Names : m # n => e[m] = d[m]
    PROVE  /\ Named(intern(t, n), e)
           /\ n \in DOMAIN intern(t, n).by_path
           /\ \A ino : Issued(ino, t) => Issued(ino, intern(t, n))
           /\ \A fd, ino : Issued(ino, t) /\ Agrees(fd, ino, t, d) => Agrees(fd, ino, intern(t, n), e)
<1> DEFINE u == intern(t, n)
<1>1. ROOT \notin Names /\ t.next \in Nat
  BY OverlayAssumption, TableFacts
<1>2. n \in DOMAIN u.by_path
  BY InternGood DEF GoodTable
<1>3. \A m \in DOMAIN t.by_path : m # ROOT => m \in Names
  BY TableFacts
<1>4. CASE n \in DOMAIN t.by_path
  <2>1. u = t
    BY <1>4 DEF intern
  <2>2. \A m \in Names : e[m] = d[m]
    BY <1>4
  <2>3. Named(t, e)
    BY <1>3, <2>2 DEF Named
  <2>4. ASSUME NEW fd, NEW ino, Issued(ino, t), Agrees(fd, ino, t, d) PROVE Agrees(fd, ino, t, e)
    <3>1. ino \in DOMAIN t.by_ino /\ t.by_ino[ino] \in DOMAIN t.by_path
          /\ t.by_path[t.by_ino[ino]] = ino => t.by_ino[ino] # ROOT
      BY <2>4, TableFacts DEF Issued
    <3> QED
      BY <1>3, <2>2, <2>4, <3>1 DEF Agrees
  <2> QED
    BY <1>2, <2>1, <2>3, <2>4
<1>5. CASE n \notin DOMAIN t.by_path
  <2>1. /\ DOMAIN u.by_ino = DOMAIN t.by_ino \cup {t.next}
        /\ \A i \in DOMAIN t.by_ino : i # t.next => u.by_ino[i] = t.by_ino[i]
        /\ DOMAIN u.by_path = DOMAIN t.by_path \cup {n}
        /\ u.by_path[n] = t.next
        /\ \A m \in DOMAIN t.by_path : u.by_path[m] = t.by_path[m]
        /\ u.next = t.next + 1
    BY <1>5 DEF intern, Put
  <2> HIDE DEF u
  <2>2. Named(u, e)
    BY <1>3, <1>5, <2>1 DEF Named
  <2>3. \A ino : Issued(ino, t) => Issued(ino, u)
    BY <1>1, <2>1 DEF Issued
  <2>4. ASSUME NEW fd, NEW ino, Issued(ino, t), Agrees(fd, ino, t, d),
               fd # NoFile, ino \in DOMAIN u.by_ino, u.by_ino[ino] \in DOMAIN u.by_path,
               u.by_path[u.by_ino[ino]] = ino
        PROVE  e[u.by_ino[ino]] = fd
    <3>1. ino # t.next
      BY <1>1, <2>4 DEF Issued
    <3>2. ino \in DOMAIN t.by_ino /\ u.by_ino[ino] = t.by_ino[ino]
      BY <2>1, <2>4, <3>1
    <3>3. t.by_ino[ino] # n
      BY <2>1, <2>4, <3>1, <3>2
    <3>4. t.by_ino[ino] \in DOMAIN t.by_path /\ t.by_path[t.by_ino[ino]] = ino
      BY <2>1, <2>4, <3>2, <3>3
    <3>5. d[t.by_ino[ino]] = fd
      BY <2>4, <3>2, <3>4 DEF Agrees
    <3>6. t.by_ino[ino] \in Names
      BY <2>4, <3>4, TableFacts DEF Issued
    <3> QED
      BY <3>2, <3>3, <3>5, <3>6
  <2>5. \A fd, ino : Issued(ino, t) /\ Agrees(fd, ino, t, d) => Agrees(fd, ino, u, e)
    BY <2>4 DEF Agrees
  <2> QED
    BY <1>2, <2>2, <2>3, <2>5 DEF u
<1> QED
  BY <1>4, <1>5

LEMMA ForgetAgrees ==
    ASSUME NEW t, GoodTable(t), NEW d, NEW e, NEW n \in Names, Named(t, d),
           \A m \in Names : m # n => e[m] = d[m], n \in DOMAIN t.by_path
    PROVE  /\ Named(forget_path(t, n), e)
           /\ \A ino : Issued(ino, t) => Issued(ino, forget_path(t, n))
           /\ \A fd, ino : Issued(ino, t) /\ Agrees(fd, ino, t, d)
                             => Agrees(fd, ino, forget_path(t, n), e)
<1> DEFINE u == forget_path(t, n)
<1>1. /\ DOMAIN u.by_ino = DOMAIN t.by_ino \ {t.by_path[n]}
      /\ \A i \in DOMAIN u.by_ino : u.by_ino[i] = t.by_ino[i]
      /\ DOMAIN u.by_path = DOMAIN t.by_path \ {n}
      /\ \A m \in DOMAIN u.by_path : u.by_path[m] = t.by_path[m]
      /\ u.next = t.next
  BY DEF forget_path, Remove
<1> HIDE DEF u
<1>2. Named(u, e)
  BY <1>1, TableFacts DEF Named
<1>3. \A ino : Issued(ino, t) => Issued(ino, u)
  BY <1>1 DEF Issued
<1>4. ASSUME NEW fd, NEW ino, Issued(ino, t), Agrees(fd, ino, t, d),
             fd # NoFile, ino \in DOMAIN u.by_ino, u.by_ino[ino] \in DOMAIN u.by_path,
             u.by_path[u.by_ino[ino]] = ino
      PROVE  e[u.by_ino[ino]] = fd
  <2>1. ino \in DOMAIN t.by_ino /\ u.by_ino[ino] = t.by_ino[ino]
    BY <1>1, <1>4
  <2>2. t.by_ino[ino] # n /\ t.by_ino[ino] \in DOMAIN t.by_path /\ t.by_path[t.by_ino[ino]] = ino
    BY <1>1, <1>4, <2>1
  <2>3. d[t.by_ino[ino]] = fd /\ t.by_ino[ino] \in Names
    BY <1>4, <2>1, <2>2, TableFacts DEF Agrees, Issued
  <2> QED
    BY <2>1, <2>2, <2>3
<1>5. \A fd, ino : Issued(ino, t) /\ Agrees(fd, ino, t, d) => Agrees(fd, ino, u, e)
  BY <1>4 DEF Agrees
<1> QED
  BY <1>2, <1>3, <1>5 DEF u

LEMMA RenameAgrees ==
    ASSUME NEW t, GoodTable(t), NEW d, NEW e, NEW from \in Names, NEW to \in Names, from # to,
           Named(t, d), from \in DOMAIN t.by_path, e[to] = d[from],
           \A m \in Names : m \notin {from, to} => e[m] = d[m]
    PROVE  /\ Named(rename(t, from, to), e)
           /\ \A ino : Issued(ino, t) => Issued(ino, rename(t, from, to))
           /\ \A fd, ino : Issued(ino, t) /\ Agrees(fd, ino, t, d)
                             => Agrees(fd, ino, rename(t, from, to), e)
<1> DEFINE u == rename(t, from, to)
           moved == t.by_path[from]
<1>1. /\ DOMAIN u.by_ino = DOMAIN t.by_ino \cup {moved}
      /\ u.by_ino[moved] = to
      /\ \A i \in DOMAIN u.by_ino : i # moved => u.by_ino[i] = t.by_ino[i]
      /\ DOMAIN u.by_path = (DOMAIN t.by_path \ {from}) \cup {to}
      /\ u.by_path[to] = moved
      /\ \A m \in DOMAIN u.by_path : m # to => u.by_path[m] = t.by_path[m]
      /\ u.next = t.next
  BY DEF rename, Remove, Put
<1>2. moved \in DOMAIN t.by_ino /\ t.by_ino[moved] = from
  BY TableFacts
<1> HIDE DEF u, moved
<1>3. d[from] # NoFile /\ from # ROOT
  BY OverlayAssumption DEF Named
<1>4. Named(u, e)
  BY <1>1, <1>3, TableFacts DEF Named
<1>5. \A ino : Issued(ino, t) => Issued(ino, u)
  BY <1>1 DEF Issued
<1>6. ASSUME NEW fd, NEW ino, Issued(ino, t), Agrees(fd, ino, t, d),
             fd # NoFile, ino \in DOMAIN u.by_ino, u.by_ino[ino] \in DOMAIN u.by_path,
             u.by_path[u.by_ino[ino]] = ino
      PROVE  e[u.by_ino[ino]] = fd
  <2>1. CASE ino = moved
    <3>1. d[from] = fd
      BY <1>2, <1>6, <2>1 DEF Agrees, moved
    <3> QED
      BY <1>1, <2>1, <3>1
  <2>2. CASE ino # moved
    <3>1. ino \in DOMAIN t.by_ino /\ u.by_ino[ino] = t.by_ino[ino]
      BY <1>1, <1>6, <2>2
    <3>2. t.by_ino[ino] # to
      BY <1>1, <1>6, <2>2, <3>1
    <3>3. t.by_ino[ino] \in DOMAIN t.by_path /\ t.by_ino[ino] # from
          /\ t.by_path[t.by_ino[ino]] = ino
      BY <1>1, <1>6, <3>1, <3>2
    <3>4. d[t.by_ino[ino]] = fd /\ t.by_ino[ino] \in Names
      BY <1>6, <3>1, <3>3, TableFacts DEF Agrees, Issued
    <3> QED
      BY <3>1, <3>2, <3>3, <3>4
  <2> QED
    BY <2>1, <2>2
<1>7. \A fd, ino : Issued(ino, t) /\ Agrees(fd, ino, t, d) => Agrees(fd, ino, u, e)
  BY <1>6 DEF Agrees
<1> QED
  BY <1>4, <1>5, <1>7 DEF u

(* The inductive part of it *)
Follow ==
    /\ Named(inodes, dir)
    /\ op.pc = "open" => Issued(op.ino, inodes) /\ HasPath(op.ino) /\ PathOf(op.ino) = op.name
    /\ \A fh \in DOMAIN handles.map : /\ Issued(handles.map[fh].ino, inodes)
                                      /\ Agrees(handles.map[fh].fd, handles.map[fh].ino, inodes, dir)

(* Every handle that is there was there before, on the same file and inode. *)
Kept(old, new) ==
    \A fh \in DOMAIN new.map : /\ fh \in DOMAIN old.map
                               /\ new.map[fh].fd = old.map[fh].fd
                               /\ new.map[fh].ino = old.map[fh].ino

LEMMA EditKeeps ==
    ASSUME NEW files \in Nat, NEW hs, GoodHandles(hs, files), NEW fh \in DOMAIN hs.map, NEW x
    PROVE  /\ Kept(hs, [hs EXCEPT !.map[fh].pending = x])
           /\ Kept(hs, [hs EXCEPT !.map[fh].served = x])
<1>1. hs = [next |-> hs.next, map |-> hs.map] /\ hs.map = [y \in DOMAIN hs.map |-> hs.map[y]]
  BY DEF GoodHandles, HandlesType
<1>2. HandleType(hs.map[fh], files)
  BY DEF GoodHandles, HandlesType
<1>3. hs.map[fh] \in HandleRec
  BY <1>2 DEF HandleType
<1>4. ASSUME NEW h, h.fd = hs.map[fh].fd, h.ino = hs.map[fh].ino
      PROVE  Kept(hs, [hs EXCEPT !.map[fh] = h])
  BY <1>1, <1>4 DEF Kept
<1>5. /\ [hs.map[fh] EXCEPT !.pending = x].fd = hs.map[fh].fd
      /\ [hs.map[fh] EXCEPT !.pending = x].ino = hs.map[fh].ino
      /\ [hs.map[fh] EXCEPT !.served = x].fd = hs.map[fh].fd
      /\ [hs.map[fh] EXCEPT !.served = x].ino = hs.map[fh].ino
  BY <1>3 DEF HandleRec
<1> QED
  BY <1>4, <1>5, FieldOfHandle

LEMMA DropKeeps ==
    ASSUME NEW files \in Nat, NEW old, NEW hs, GoodHandles(hs, files), Kept(old, hs), NEW fh, NEW why
    PROVE  Kept(old, AfterPersist(hs, fh, why))
<1>1. hs = [next |-> hs.next, map |-> hs.map]
  BY DEF GoodHandles, HandlesType
<1>2. CASE why = "release"
  <2>1. AfterPersist(hs, fh, why).map = Remove(hs.map, fh)
    BY <1>1, <1>2 DEF AfterPersist
  <2> QED
    BY <2>1 DEF Kept, Remove
<1>3. CASE why # "release"
  BY <1>3 DEF AfterPersist
<1> QED
  BY <1>2, <1>3

(* A step that leaves the directory and the table alone *)
LEMMA KeptFollow ==
    ASSUME Follow, UNCHANGED <<dir, inodes>>, Kept(handles, handles'), op'.pc # "open"
    PROVE  Follow'
  BY DEF Follow, Kept

(* A step on the directory and the table *)
LEMMA TableFollow ==
    ASSUME Follow, Named(inodes, dir)', op' = Idle, Kept(handles, handles'),
           \A ino : Issued(ino, inodes) => Issued(ino, inodes'),
           \A fd, ino : Issued(ino, inodes) /\ Agrees(fd, ino, inodes, dir)
                          => Agrees(fd, ino, inodes', dir')
    PROVE  Follow'
  BY DEF Follow, Kept, Idle

LEMMA InsertFollow ==
    ASSUME NEW hs, NEW h, NEW t, NEW d, Issued(h.ino, t), Agrees(h.fd, h.ino, t, d),
           \A fh \in DOMAIN hs.map : Issued(hs.map[fh].ino, t) /\ Agrees(hs.map[fh].fd, hs.map[fh].ino, t, d)
    PROVE  \A fh \in DOMAIN insert(hs, h).map :
              /\ Issued(insert(hs, h).map[fh].ino, t)
              /\ Agrees(insert(hs, h).map[fh].fd, insert(hs, h).map[fh].ino, t, d)
<1>1. /\ DOMAIN insert(hs, h).map = DOMAIN hs.map \cup {hs.next}
      /\ \A fh \in DOMAIN insert(hs, h).map :
            insert(hs, h).map[fh] = h \/ (fh \in DOMAIN hs.map /\ insert(hs, h).map[fh] = hs.map[fh])
  BY DEF insert, Put
<1> QED
  BY <1>1

(* The requests on handles *)
LEMMA HandleRequestsFollow ==
    ASSUME Inv, Follow, NEW fh \in DOMAIN handles.map
    PROVE  /\ Read(fh) => Follow'
           /\ \A off, line : Write(fh, off, line) => Follow'
           /\ \A sz : SetattrHandle(fh, sz) => Follow'
           /\ \A why : PersistBegin(fh, why) => Follow'
<1>1. Len(data) \in Nat /\ GoodHandles(handles, Len(data))
  BY DEF Inv, FilesGood
<1>2. Kept(handles, handles)
  BY DEF Kept
<1>3. ASSUME Read(fh) PROVE Follow'
  BY <1>2, <1>3, KeptFollow DEF Read, Idle
<1>4. ASSUME NEW b, SetPending(fh, b) PROVE Kept(handles, handles')
  BY <1>1, <1>4, EditKeeps DEF SetPending
<1>5. ASSUME NEW off, NEW line, Write(fh, off, line) PROVE Follow'
  <2>1. Kept(handles, handles')
    BY <1>2, <1>4, <1>5 DEF Write
  <2> QED
    BY <1>5, <2>1, KeptFollow DEF Write, Idle
<1>6. ASSUME NEW sz, SetattrHandle(fh, sz) PROVE Follow'
  <2>1. Kept(handles, handles')
    BY <1>4, <1>6 DEF SetattrHandle
  <2> QED
    BY <1>6, <2>1, KeptFollow DEF SetattrHandle, Idle
<1>7. ASSUME NEW why, PersistBegin(fh, why) PROVE Follow'
  <2> DEFINE taken == [handles EXCEPT !.map[fh].pending = None]
  <2>1. Kept(handles, taken)
    BY <1>1, EditKeeps
  <2>2. handles.map[fh].tag = "Redacted" => GoodHandles(taken, Len(data))
    <3> SUFFICES ASSUME handles.map[fh].tag = "Redacted" PROVE GoodHandles(taken, Len(data))
      OBVIOUS
    <3> DEFINE h == [handles.map[fh] EXCEPT !.pending = None]
    <3>1. << >> \in Text /\ Safe(handles.map[fh].kind, << >>)
      BY DEF Text, Safe
    <3>2. HandleType(h, Len(data)) /\ HandleSafe(h)
      BY <1>1, <3>1, OpenFile, EditedHandleGood DEF Inv
    <3>3. taken = [handles EXCEPT !.map[fh] = h]
      BY <1>1, FieldOfHandle
    <3> HIDE DEF h, taken
    <3> QED
      BY <1>1, <3>2, <3>3, ReplaceGood
  <2> HIDE DEF taken
  <2>3. \/ /\ handles' = AfterPersist(handles, fh, why) /\ op' = Idle
        \/ /\ handles.map[fh].tag = "Redacted" /\ handles' = AfterPersist(taken, fh, why) /\ op' = Idle
        \/ /\ handles' = taken /\ op'.pc = "merge"
    BY <1>7 DEF PersistBegin, EndPersist, taken
  <2>4. Kept(handles, handles')
    BY <1>1, <1>2, <2>1, <2>2, <2>3, DropKeeps
  <2>5. op'.pc # "open"
    BY <2>3 DEF Idle
  <2>6. UNCHANGED <<dir, inodes>>
    BY <1>7 DEF PersistBegin
  <2> QED
    BY <2>4, <2>5, <2>6, KeptFollow
<1> QED
  BY <1>3, <1>5, <1>6, <1>7

(* The requests on inodes, which change neither the directory nor the table *)
LEMMA InodeRequestsFollow ==
    ASSUME Inv, Follow, NEW ino \in Given
    PROVE  /\ Getattr(ino) => Follow'
           /\ \A wr, trunc : OpenView(ino, wr, trunc) => Follow'
           /\ \A sz : SetattrPath(ino, sz) => Follow'
<1>1. Kept(handles, handles)
  BY DEF Kept
<1>2. ASSUME Getattr(ino) PROVE Follow'
  BY <1>1, <1>2, KeptFollow DEF Getattr, Idle
<1>3. ASSUME NEW sz, SetattrPath(ino, sz) PROVE Follow'
  BY <1>1, <1>3, KeptFollow DEF SetattrPath, Idle
<1>4. ASSUME NEW wr, NEW trunc, OpenView(ino, wr, trunc) PROVE Follow'
  <2>1. UNCHANGED <<dir, inodes, handles>>
    BY <1>4 DEF OpenView
  <2>2. op' = Idle \/ (op'.pc = "open" /\ op'.ino = ino /\ HasPath(ino) /\ op'.name = PathOf(ino))
    BY <1>4 DEF OpenView, Resolves
  <2>3. Issued(ino, inodes)
    <3>1. inodes.next \in Nat
      BY DEF Inv, InodesGood, TableType
    <3> QED
      BY <3>1 DEF Given, Issued, ROOT_INO
  <2> QED
    BY <2>1, <2>2, <2>3 DEF Follow, Idle, HasPath, PathOf
<1> QED
  BY <1>2, <1>3, <1>4
(* The steps that name a file: a number is interned only for a name that exists, *)
(* and a name that has a number is never created anew.                           *)
LEMMA NamesFollow ==
    ASSUME Inv, Follow, NEW n \in Names
    PROVE  /\ Lookup(n) => Follow'
           /\ Unlink(n) => Follow'
           /\ \A to \in Names : Rename(n, to) => Follow'
           /\ \A ino \in Given : Link(ino, n) => Follow'
<1>1. GoodTable(inodes) /\ Named(inodes, dir) /\ Kept(handles, handles)
  BY DEF Inv, InodesGood, GoodTable, Follow, Kept
<1>2. dir \in [Names -> 0..Len(data)] /\ n # ROOT /\ NoFile \in 0..Len(data)
  BY OverlayAssumption DEF Inv, FilesGood, NoFile
<1>3. ~Exists(n) => n \notin DOMAIN inodes.by_path
  BY <1>1, <1>2 DEF Named, Exists
<1>4. ASSUME UNCHANGED <<dir, inodes, handles>>, op' = Idle PROVE Follow'
  BY <1>1, <1>4, KeptFollow DEF Idle
<1>5. ASSUME Lookup(n) PROVE Follow'
  <2>1. UNCHANGED <<dir, handles>> /\ op' = Idle
    BY <1>5 DEF Lookup
  <2>2. UNCHANGED inodes \/ (Exists(n) /\ inodes' = intern(inodes, n))
    BY <1>5 DEF Lookup
  <2>3. CASE Exists(n) /\ inodes' = intern(inodes, n)
    BY <1>1, <2>1, <2>3, InternAgrees, TableFollow DEF Exists
  <2> QED
    BY <1>4, <2>1, <2>2, <2>3
<1>6. ASSUME Unlink(n) PROVE Follow'
  <2>1. UNCHANGED handles /\ op' = Idle /\ n \in DOMAIN inodes.by_path
    BY <1>6 DEF Unlink, LookedUp
  <2>2. \/ UNCHANGED <<dir, inodes>>
        \/ dir' = [dir EXCEPT ![n] = NoFile] /\ inodes' = forget_path(inodes, n)
    BY <1>6 DEF Unlink
  <2>3. CASE dir' = [dir EXCEPT ![n] = NoFile] /\ inodes' = forget_path(inodes, n)
    <3>1. \A m \in Names : m # n => dir'[m] = dir[m]
      BY <1>2, <2>3
    <3> QED
      BY <1>1, <2>1, <2>3, <3>1, ForgetAgrees, TableFollow
  <2> QED
    BY <1>4, <2>1, <2>2, <2>3
<1>7. ASSUME NEW to \in Names, Rename(n, to) PROVE Follow'
  <2>1. UNCHANGED handles /\ op' = Idle /\ n \in DOMAIN inodes.by_path /\ n # to
    BY <1>7 DEF Rename, LookedUp
  <2>2. \/ UNCHANGED <<dir, inodes>>
        \/ /\ dir' = IF dir[n] = dir[to] THEN dir ELSE [dir EXCEPT ![to] = dir[n], ![n] = NoFile]
           /\ inodes' = rename(inodes, n, to)
    BY <1>7 DEF Rename
  <2>3. CASE /\ dir' = IF dir[n] = dir[to] THEN dir ELSE [dir EXCEPT ![to] = dir[n], ![n] = NoFile]
             /\ inodes' = rename(inodes, n, to)
    <3>1. dir'[to] = dir[n] /\ \A m \in Names : m \notin {n, to} => dir'[m] = dir[m]
      BY <1>2, <2>1, <2>3
    <3> QED
      BY <1>1, <2>1, <2>3, <3>1, RenameAgrees, TableFollow
  <2> QED
    BY <1>4, <2>1, <2>2, <2>3
<1>8. ASSUME NEW ino \in Given, Link(ino, n) PROVE Follow'
  <2>1. UNCHANGED handles /\ op' = Idle
    BY <1>8 DEF Link
  <2>2. \/ UNCHANGED <<dir, inodes>>
        \/ /\ Resolves(ino) /\ ~Exists(n)
           /\ dir' = [dir EXCEPT ![n] = dir[PathOf(ino)]] /\ inodes' = intern(inodes, n)
    BY <1>8 DEF Link
  <2>3. CASE /\ Resolves(ino) /\ ~Exists(n)
             /\ dir' = [dir EXCEPT ![n] = dir[PathOf(ino)]] /\ inodes' = intern(inodes, n)
    <3>1. dir'[n] = dir[PathOf(ino)] /\ \A m \in Names : m # n => dir'[m] = dir[m]
      BY <1>2, <2>3
    <3>2. dir'[n] # NoFile
      BY <2>3, <3>1 DEF Resolves, Exists
    <3> QED
      BY <1>1, <1>3, <2>1, <2>3, <3>1, <3>2, InternAgrees, TableFollow
  <2> QED
    BY <1>4, <2>1, <2>2, <2>3
<1> QED
  BY <1>5, <1>6, <1>7, <1>8

(* create *)
LEMMA CreateFollow ==
    ASSUME Inv, Inv', Follow, NEW n \in Names, NEW trunc, Create(n, trunc)
    PROVE  Follow'
<1>1. GoodTable(inodes) /\ Named(inodes, dir) /\ GoodTable(inodes')
  BY DEF Inv, InodesGood, GoodTable, Follow
<1>2. dir \in [Names -> 0..Len(data)] /\ n # ROOT /\ Len(data) \in Nat
  BY OverlayAssumption DEF Inv, FilesGood
<1>3. op' = Idle
  BY DEF Create
<1>4. CASE UNCHANGED <<dir, inodes, handles>>
  BY <1>3, <1>4, KeptFollow DEF Kept, Idle
<1>5. CASE ~UNCHANGED <<dir, inodes, handles>>
  <2> DEFINE h == IF redacting /\ ByName[n] \in {"Env", "Npmrc"}
                  THEN Handle("Redacted", ByName[n], dir'[n], inodes'.by_path[n], TRUE,
                              << >>, Some(<< >>))
                  ELSE Handle("File", "None", dir'[n], inodes'.by_path[n], TRUE, << >>, None)
  <2>1. /\ \/ ~Exists(n) /\ dir' = [dir EXCEPT ![n] = Len(data) + 1]
           \/ Exists(n) /\ UNCHANGED dir
        /\ inodes' = intern(inodes, n)
        /\ handles' = insert(handles, h)
    BY <1>5 DEF Create
  <2>2. h.fd = dir'[n] /\ h.ino = inodes'.by_path[n]
    BY DEF Handle
  <2> HIDE DEF h
  <2>3. /\ dir'[n] # NoFile /\ \A m \in Names : m # n => dir'[m] = dir[m]
        /\ n \in DOMAIN inodes.by_path => dir'[n] = dir[n]
    BY <1>1, <1>2, <2>1 DEF Exists, NoFile, Named
  <2>4. /\ Named(inodes', dir') /\ n \in DOMAIN inodes'.by_path
        /\ \A fh \in DOMAIN handles.map :
              /\ Issued(handles.map[fh].ino, inodes')
              /\ Agrees(handles.map[fh].fd, handles.map[fh].ino, inodes', dir')
    BY <1>1, <2>1, <2>3, InternAgrees DEF Follow
  <2>5. Issued(h.ino, inodes') /\ Agrees(h.fd, h.ino, inodes', dir')
    BY <1>1, <2>2, <2>4, NameIssued
  <2>6. \A fh \in DOMAIN handles'.map :
              /\ Issued(handles'.map[fh].ino, inodes')
              /\ Agrees(handles'.map[fh].fd, handles'.map[fh].ino, inodes', dir')
    BY <2>1, <2>4, <2>5, InsertFollow
  <2> QED
    BY <1>3, <2>4, <2>6 DEF Follow, Idle
<1> QED
  BY <1>4, <1>5

(* The system calls after the first *)
LEMMA ContinueFollow ==
    ASSUME Inv, Follow, Continue
    PROVE  Follow'
<1>1. /\ Len(data) \in Nat /\ GoodHandles(handles, Len(data)) /\ Kept(handles, handles)
      /\ op.pc \in {"merge", "truncate", "write"} => op.fh \in DOMAIN handles.map
  BY OpCases DEF Inv, FilesGood, Kept, OpGood
<1>2. UNCHANGED <<dir, inodes>>
  BY DEF Continue, OpenFd, SetattrSize, PersistMerge, Merge, PersistTruncate, PersistWrite
<1>3. CASE OpenFd
  <2> DEFINE h == OpenedHandle(op.view, dir[op.name], op.ino, op.wr, op.trunc)
  <2>1. op' = Idle /\ (UNCHANGED handles \/ handles' = insert(handles, h))
    BY <1>3 DEF OpenFd
  <2>2. Issued(op.ino, inodes) /\ HasPath(op.ino) /\ PathOf(op.ino) = op.name
    BY <1>3 DEF OpenFd, Follow
  <2>3. h.ino = op.ino /\ h.fd \in {dir[op.name], NoFile}
    <3>1. op.view.tag \in {"Passthrough", "Redacted", "Key", "Failed"}
      BY <1>3, OpCases DEF OpenFd, Inv, OpGood, OpenOp, ViewRec
    <3> QED
      BY <3>1 DEF OpenedHandle, Handle
  <2> HIDE DEF h
  <2>4. Agrees(h.fd, h.ino, inodes, dir)
    BY <2>2, <2>3 DEF Agrees, PathOf
  <2>5. CASE handles' = insert(handles, h)
    <3>1. \A fh \in DOMAIN handles'.map :
              /\ Issued(handles'.map[fh].ino, inodes)
              /\ Agrees(handles'.map[fh].fd, handles'.map[fh].ino, inodes, dir)
      BY <2>2, <2>3, <2>4, <2>5, InsertFollow DEF Follow
    <3> QED
      BY <1>2, <2>1, <3>1 DEF Follow, Idle
  <2>6. CASE UNCHANGED handles
    BY <1>1, <1>2, <2>1, <2>6, KeptFollow DEF Idle
  <2> QED
    BY <2>1, <2>5, <2>6
<1>4. CASE PersistMerge
  <2>1. \/ UNCHANGED handles /\ op'.pc = "truncate"
        \/ handles' = AfterPersist(handles, op.fh, op.why) /\ op' = Idle
    BY <1>4 DEF PersistMerge, Merge, EndPersist
  <2>2. Kept(handles, handles')
    BY <1>1, <2>1, DropKeeps
  <2> QED
    BY <1>2, <2>1, <2>2, KeptFollow DEF Idle
<1>5. CASE PersistTruncate
  <2>1. op \in StoreOp
    BY <1>5, OpCases DEF PersistTruncate, Inv, OpGood
  <2>2. \/ UNCHANGED handles /\ op' = [op EXCEPT !.pc = "write"]
        \/ handles' = AfterPersist(handles, op.fh, op.why) /\ op' = Idle
    BY <1>5 DEF PersistTruncate, EndPersist
  <2>3. op'.pc # "open"
    BY <2>1, <2>2 DEF StoreOp, Idle
  <2>4. Kept(handles, handles')
    BY <1>1, <2>2, DropKeeps
  <2> QED
    BY <1>2, <2>3, <2>4, KeptFollow
<1>6. CASE PersistWrite
  <2> DEFINE hs == [handles EXCEPT !.map[op.fh].served = op.view]
  <2>1. op.fh \in DOMAIN handles.map /\ op.pc = "write"
    BY <1>1, <1>6 DEF PersistWrite
  <2>2. Kept(handles, hs)
    BY <1>1, <2>1, EditKeeps
  <2>3. GoodHandles(hs, Len(data))
    <3> DEFINE h == [handles.map[op.fh] EXCEPT !.served = op.view]
    <3>1. op \in StoreOp /\ Safe(op.kind, op.view) /\ handles.map[op.fh].tag = "Redacted"
          /\ handles.map[op.fh].kind = op.kind /\ ~handles.map[op.fh].pending.some
      BY <2>1, OpCases DEF Inv, OpGood
    <3>2. op.view \in Text
      BY <3>1 DEF StoreOp
    <3>3. HandleType(h, Len(data)) /\ HandleSafe(h)
      BY <1>1, <2>1, <3>1, <3>2, OpenFile, EditedHandleGood DEF Inv
    <3>4. hs = [handles EXCEPT !.map[op.fh] = h]
      BY <1>1, <2>1, FieldOfHandle
    <3> HIDE DEF h, hs
    <3> QED
      BY <1>1, <2>1, <3>3, <3>4, ReplaceGood
  <2> HIDE DEF hs
  <2>4. op' = Idle /\ handles' \in {AfterPersist(hs, op.fh, op.why), AfterPersist(handles, op.fh, op.why)}
    BY <1>6 DEF PersistWrite, EndPersist, hs
  <2>5. Kept(handles, handles')
    BY <1>1, <2>2, <2>3, <2>4, DropKeeps
  <2> QED
    BY <1>2, <2>4, <2>5, KeptFollow DEF Idle
<1>7. CASE SetattrSize
  BY <1>1, <1>2, <1>7, KeptFollow DEF SetattrSize, Idle
<1> QED
  BY <1>3, <1>4, <1>5, <1>6, <1>7 DEF Continue

(* A change by the host is counted, and nothing else changes the count. *)
LEMMA HostCounts ==
    ASSUME Inv, [Next]_vars
    PROVE  host' = 0 => host = 0 /\ (Request \/ Continue \/ UNCHANGED vars)
<1>1. host \in Nat
  BY OverlayAssumption DEF Inv, RestGood
<1>2. Host => host' # 0
  BY <1>1 DEF Host, HostWrite, HostReplace, HostRemove, HostMay
<1>3. Request => UNCHANGED host
  BY DEF Request, Lookup, Getattr, OpenView, Create, Read, Write, SetattrHandle,
         SetattrPath, PersistBegin, Unlink, Rename, Link
<1>4. Continue => UNCHANGED host
  BY DEF Continue, OpenFd, SetattrSize, PersistMerge, Merge, PersistTruncate, PersistWrite
<1>5. UNCHANGED vars => UNCHANGED host
  BY DEF vars
<1> QED
  BY <1>2, <1>3, <1>4, <1>5 DEF Next

(* design.md "hand back a stable inode": until a host process interferes, a
   file opened through an inode is the file that the inode's name leads to, as long
   as the table resolves that name back to the inode, across any number of
   renames, overwrites, links, unlinks and new files of the same name. *)
THEOREM HandlesFollowTheirInode == Spec => []HandleFollowsInode
<1> DEFINE J == Inv /\ (host = 0 => Follow)
<1>1. Init => J
  <2> SUFFICES ASSUME Init PROVE Follow
    BY InitInv
  <2>1. Named(inodes, dir)
    BY DEF Init, Named, NewTable
  <2> QED
    BY <2>1 DEF Init, Follow, Idle
<1>2. J /\ [Next]_vars => J'
  <2> SUFFICES ASSUME Inv, host = 0 => Follow, [Next]_vars, host' = 0 PROVE Follow'
    BY StepInv
  <2>1. Inv' /\ Follow /\ (Request \/ Continue \/ UNCHANGED vars)
    BY StepInv, HostCounts
  <2>2. CASE Request
    BY <2>1, <2>2, HandleRequestsFollow, InodeRequestsFollow, NamesFollow, CreateFollow DEF Request
  <2>3. CASE Continue
    BY <2>1, <2>3, ContinueFollow
  <2>4. CASE UNCHANGED vars
    BY <2>1, <2>4 DEF vars, Follow, HasPath, PathOf
  <2> QED
    BY <2>1, <2>2, <2>3, <2>4
<1>3. J => HandleFollowsInode
  BY DEF Follow, Agrees, HandleFollowsInode, HasPath, PathOf
<1> QED
  BY <1>1, <1>2, <1>3, PTL DEF Spec
-----------------------------------------------------------------------------
(* Overlay implements SecretFile.  The handlers and buffers of the abstract   *)
(* specification are those of the overlay.                                    *)

LEMMA SameRedact ==
    ASSUME NEW k, NEW b
    PROVE  SF!redact(k, b) = redact(k, b)
<1>1. SF!redact_env(b) = redact_env(b)
  BY DEF SF!redact_env, redact_env, SF!parse_env, parse_env, SF!Ok, Ok, SF!Err, Err, SF!Pair, Pair
<1>2. SF!redact_npmrc(b) = redact_npmrc(b)
  BY DEF SF!redact_npmrc, redact_npmrc, SF!Utf8, Utf8, SF!Ok, Ok, SF!Err, Err, SF!Pair, Pair,
         SF!is_npmrc_secret, is_npmrc_secret
<1>3. SF!redact_mitm_yaml(b) = redact_mitm_yaml(b)
  BY DEF SF!redact_mitm_yaml, redact_mitm_yaml, SF!Ok, Ok, SF!Err, Err, SF!Pair, Pair
<1> QED
  BY <1>1, <1>2, <1>3 DEF SF!redact, redact, SF!Err, Err

LEMMA SameLines ==
    ASSUME NEW o, NEW line, NEW k, NEW v
    PROVE  /\ SF!env_resolved(o, line) = env_resolved(o, line)
           /\ SF!npmrc_resolved(o, line) = npmrc_resolved(o, line)
           /\ SF!format_value(k, v) = format_value(k, v)
<1>1. SF!env_resolved(o, line) = env_resolved(o, line)
  BY DEF SF!env_resolved, env_resolved, SF!EnvSources, EnvSources, SF!LastIn, LastIn
<1>2. SF!npmrc_resolved(o, line) = npmrc_resolved(o, line)
  BY DEF SF!npmrc_resolved, npmrc_resolved, SF!NpmrcSources, NpmrcSources, SF!LastIn, LastIn,
         SF!is_npmrc_secret, is_npmrc_secret, SF!Pair, Pair
<1>3. SF!format_value(k, v) = format_value(k, v)
  BY DEF SF!format_value, format_value, SF!Unescaped, Unescaped, SF!Mark, Mark, SF!Pair, Pair,
         SF!NoKey, NoKey, SF!NoValue, NoValue
<1> QED
  BY <1>1, <1>2, <1>3

LEMMA SameMerge ==
    ASSUME NEW k, NEW o, NEW w
    PROVE  SF!merge(k, o, w) = merge(k, o, w)
<1>1. SF!merge_env(o, w) = merge_env(o, w)
  BY SameLines DEF SF!merge_env, merge_env, SF!parse_env, parse_env, SF!Ok, Ok, SF!Err, Err
<1>2. SF!merge_npmrc(o, w) = merge_npmrc(o, w)
  BY SameLines DEF SF!merge_npmrc, merge_npmrc, SF!Utf8, Utf8, SF!Ok, Ok, SF!Err, Err
<1> QED
  BY <1>1, <1>2 DEF SF!merge, merge, SF!Err, Err

LEMMA SameBuffers ==
    /\ \A b, n : SF!resize(b, n) = resize(b, n)
    /\ \A b, n, d : SF!write_at(b, n, d) = write_at(b, n, d)
    /\ \A b : SF!Some(b) = Some(b)
    /\ SF!None = None
    /\ \A p, s : SF!PendingOr(p, s) = PendingOr(p, s)
<1>1. \A b, n : SF!resize(b, n) = resize(b, n)
  BY DEF SF!resize, resize, SF!Mark, Mark, SF!NoKey, NoKey, SF!NoValue, NoValue
<1>2. \A b, n, d : SF!write_at(b, n, d) = write_at(b, n, d)
  BY DEF SF!write_at, write_at, SF!Mark, Mark, SF!NoKey, NoKey, SF!NoValue, NoValue
<1> QED
  BY <1>1, <1>2 DEF SF!Some, Some, SF!None, None, SF!PendingOr, PendingOr

LEMMA AbstractState ==
    SF!vars = <<Kind, Orig, Eds>> /\ SF!vars' = <<Kind, Orig', Eds'>>
  BY DEF SF!vars, Kind

(* Its steps, in these terms *)
LEMMA AbstractOpen ==
    ASSUME NEW e \in 1..MaxFh, NEW trunc \in BOOLEAN, ~Eds[e].open, redact(Kind, Orig).ok,
           Orig' = Orig,
           Eds' = [Eds EXCEPT ![e] = Ed(TRUE, redact(Kind, Orig).text,
                                        IF trunc THEN Some(<< >>) ELSE None)]
    PROVE  SF!Next
<1>1. SF!Open(e, trunc)
  BY SameRedact, SameBuffers, AbstractState DEF SF!Open, SF!Set, SF!Editor, SF!vars, Ed
<1> QED
  BY <1>1 DEF SF!Next
LEMMA AbstractWrite ==
    ASSUME NEW e \in 1..MaxFh, NEW off \in 0..MaxLen, NEW line \in Typed, off < MaxLen,
           Eds[e].open, Orig' = Orig,
           Eds' = [Eds EXCEPT ![e] = [Eds[e] EXCEPT !.pending =
                     Some(write_at(PendingOr(Eds[e].pending, Eds[e].served), off, <<line>>))]]
    PROVE  SF!Next
<1>1. SF!Write(e, off, line)
  BY SameBuffers, AbstractState DEF SF!Write, SF!Set, SF!Edited
<1> QED
  BY <1>1 DEF SF!Next

LEMMA AbstractSetSize ==
    ASSUME NEW e \in 1..MaxFh, NEW n \in 0..MaxLen, Eds[e].open, Orig' = Orig,
           Eds' = [Eds EXCEPT ![e] = [Eds[e] EXCEPT !.pending =
                     Some(resize(PendingOr(Eds[e].pending, Eds[e].served), n))]]
    PROVE  SF!Next
<1>1. SF!SetSize(e, n)
  BY SameBuffers, AbstractState DEF SF!SetSize, SF!Set, SF!Edited, SF!vars
<1> QED
  BY <1>1 DEF SF!Next

LEMMA AbstractClose ==
    ASSUME NEW e \in 1..MaxFh, Eds[e].open, ~Eds[e].pending.some, Orig' = Orig,
           Eds' = [Eds EXCEPT ![e] = ClosedEd]
    PROVE  SF!Next
<1>1. SF!Close(e)
  BY SameBuffers, AbstractState DEF SF!Close, SF!Set, SF!Closed, SF!Editor, SF!vars, Ed, ClosedEd
<1> QED
  BY <1>1 DEF SF!Next

(* A save either stores the merge, or fails and keeps the original. *)
Stored(original, written) ==
    LET merged == merge(Kind, original, written)
    IN IF merged.ok /\ redact(Kind, merged.text).ok THEN merged ELSE Err

LEMMA AbstractSave ==
    ASSUME NEW e \in 1..MaxFh, NEW closing \in BOOLEAN, Eds[e].open, Eds[e].pending.some,
           NEW s, s = Stored(Orig, Eds[e].pending.buf),
           Orig' = IF s.ok THEN s.text ELSE Orig,
           Eds' = [Eds EXCEPT ![e] =
                     IF closing THEN ClosedEd
                     ELSE Ed(TRUE, IF s.ok THEN redact(Kind, s.text).text ELSE Eds[e].served, None)]
    PROVE  SF!Next
<1>1. ASSUME NEW o, NEW w PROVE SF!saved(o, w) = Stored(o, w)
  BY SameRedact, SameMerge DEF SF!saved, Stored, SF!Err, Err, Kind
<1>2. SF!Save(e, closing)
  BY <1>1, SameRedact, SameBuffers, AbstractState
  DEF SF!Save, SF!Set, SF!Closed, SF!Editor, SF!vars, Ed, ClosedEd
<1> QED
  BY <1>2 DEF SF!Next
(* Which editors a step changes *)

SameBut(old, new, e) ==
    \A fh : fh # e => /\ fh \in DOMAIN new.map <=> fh \in DOMAIN old.map
                      /\ fh \in DOMAIN old.map => new.map[fh] = old.map[fh]

SaveFor(o, e) == o.pc \in {"merge", "truncate", "write"} => o.fh = e

LEMMA OneEditor ==
    ASSUME NEW e \in 1..MaxFh, SameBut(handles, handles', e), SaveFor(op, e), SaveFor(op', e)
    PROVE  /\ Eds[e] = EdIn(handles, op, e)
           /\ Eds' = [Eds EXCEPT ![e] = EdIn(handles', op', e)]
           /\ EdIn(handles', op', e) = EdIn(handles, op, e) => Eds' = Eds
<1>1. ASSUME NEW fh \in 1..MaxFh, fh # e PROVE EdIn(handles', op', fh) = EdIn(handles, op, fh)
  BY <1>1 DEF SameBut, SaveFor, EdIn, MineIn, SavingIn
<1> QED
  BY <1>1 DEF Eds

WithPending(hs, fh, x) == [hs EXCEPT !.map[fh].pending = x]
WithServed(hs, fh, x) == [hs EXCEPT !.map[fh].served = x]

LEMMA EditIsSameBut ==
    ASSUME NEW files \in Nat, NEW hs, GoodHandles(hs, files), NEW fh \in DOMAIN hs.map, NEW x
    PROVE  /\ SameBut(hs, WithPending(hs, fh, x), fh) /\ SameBut(hs, WithServed(hs, fh, x), fh)
           /\ WithPending(hs, fh, x).next = hs.next /\ WithServed(hs, fh, x).next = hs.next
           /\ fh \in DOMAIN WithPending(hs, fh, x).map /\ fh \in DOMAIN WithServed(hs, fh, x).map
           /\ LET new == WithPending(hs, fh, x).map[fh]
              IN /\ new.tag = hs.map[fh].tag /\ new.fd = hs.map[fh].fd /\ new.kind = hs.map[fh].kind
                 /\ new.served = hs.map[fh].served /\ new.pending = x
           /\ LET new == WithServed(hs, fh, x).map[fh]
              IN /\ new.tag = hs.map[fh].tag /\ new.fd = hs.map[fh].fd /\ new.kind = hs.map[fh].kind
                 /\ new.served = x /\ new.pending = hs.map[fh].pending
<1>1. hs = [next |-> hs.next, map |-> hs.map] /\ hs.map = [y \in DOMAIN hs.map |-> hs.map[y]]
  BY DEF GoodHandles, HandlesType
<1>2. hs.map[fh] \in HandleRec
  BY DEF GoodHandles, HandlesType, HandleType
<1>3. /\ WithPending(hs, fh, x).map[fh] = [hs.map[fh] EXCEPT !.pending = x]
      /\ WithServed(hs, fh, x).map[fh] = [hs.map[fh] EXCEPT !.served = x]
      /\ fh \in DOMAIN WithPending(hs, fh, x).map /\ fh \in DOMAIN WithServed(hs, fh, x).map
      /\ WithPending(hs, fh, x).next = hs.next /\ WithServed(hs, fh, x).next = hs.next
  BY <1>1 DEF WithPending, WithServed
<1>4. SameBut(hs, WithPending(hs, fh, x), fh) /\ SameBut(hs, WithServed(hs, fh, x), fh)
  BY <1>1 DEF SameBut, WithPending, WithServed
<1> QED
  BY <1>2, <1>3, <1>4 DEF HandleRec

LEMMA EdEdited ==
    ASSUME NEW s, NEW p, NEW q
    PROVE  [Ed(TRUE, s, p) EXCEPT !.pending = q] = Ed(TRUE, s, q)
<1>1. ASSUME NEW o PROVE [Ed(o, s, p) EXCEPT !.pending = q] = Ed(o, s, q)
  BY DEF Ed
<1>2. PICK t : t = TRUE
  OBVIOUS
<1>3. [Ed(t, s, p) EXCEPT !.pending = q] = Ed(t, s, q)
  BY <1>1
<1> QED
  BY <1>2, <1>3

LEMMA DropIsSameBut ==
    ASSUME NEW files \in Nat, NEW hs, GoodHandles(hs, files), NEW fh, NEW why
    PROVE  /\ SameBut(hs, AfterPersist(hs, fh, why), fh)
           /\ why = "release" => fh \notin DOMAIN AfterPersist(hs, fh, why).map
<1>1. hs = [next |-> hs.next, map |-> hs.map] /\ hs.map = [y \in DOMAIN hs.map |-> hs.map[y]]
  BY DEF GoodHandles, HandlesType
<1> QED
  BY <1>1 DEF SameBut, AfterPersist, Remove

LEMMA InsertIsSameBut ==
    ASSUME NEW hs, NEW h
    PROVE  /\ SameBut(hs, insert(hs, h), hs.next)
           /\ hs.next \in DOMAIN insert(hs, h).map
           /\ insert(hs, h).map[hs.next] = h
  BY DEF SameBut, insert, Put

(* What the implementation keeps true when every name has the one handler. *)
OpenFresh ==
    /\ op.pc = "open" => /\ handles.next <= MaxFh
                         /\ op.name \in Names /\ Exists(op.name)
                         /\ op.view = view_for(op.name, data[dir[op.name]])
    /\ op.pc # "setsize"

SaveExact ==
    /\ op.pc \in {"merge", "truncate", "write"} => handles.map[op.fh].pending = None
    /\ op.pc \in {"merge", "truncate"} => op.original = data[op.fd]
    /\ op.pc \in {"truncate", "write"} =>
          /\ Stored(op.original, op.written) = Ok(op.merged)
          /\ redact(Kind, op.merged) = Ok(op.view)
    /\ op.pc = "write" => data[op.fd] = << >>

HandleOfKind(h) == h.tag \in {"Redacted", "Failed"} /\ h.kind = Kind

Exact ==
    /\ Len(data) >= 1
    /\ \A n \in missing : ~Exists(n)
    /\ handles.next <= MaxFh + 1
    /\ \A fh \in DOMAIN handles.map : HandleOfKind(handles.map[fh])
    /\ OpenFresh
    /\ SaveExact

(* Every name selects the handler of the file; the system calls succeed. *)
OneKind == (\A n \in Names : ByName[n] = Kind) /\ ~DiskMayFail /\ redacting

Simulated == SF!Next \/ (Orig' = Orig /\ Eds' = Eds)

LEMMA KindIsMergeable ==
    Kind \in {"Env", "Npmrc"}
  BY ImplementsAssumption DEF Kind

LEMMA ViewOfKind ==
    ASSUME OneKind, NEW n \in Names, NEW b
    PROVE  view_for(n, b) = IF redact(Kind, b).ok THEN View("Redacted", Kind, redact(Kind, b).text)
                            ELSE View("Failed", Kind, << >>)
<1>1. Kind \in {"Env", "Npmrc"}
  BY KindIsMergeable
<1>2. detect(ByName[n], Prefix(b)) = Kind
  BY <1>1 DEF OneKind, detect
<1> QED
  BY <1>1, <1>2 DEF view_for, OneKind

(* A step that changes no handle and no file is seen by no editor. *)
LEMMA Unseen ==
    ASSUME Exact, UNCHANGED <<handles, data>>, op.pc \in {"idle", "open"}, op'.pc \in {"idle", "open"},
           \A n \in missing' : ~Exists(n)', OpenFresh'
    PROVE  Exact' /\ Simulated
<1>1. Orig' = Orig
  BY DEF Orig, SavingIn
<1>2. Eds' = Eds
  BY DEF Eds, EdIn, MineIn, SavingIn
<1>3. SaveExact'
  BY DEF SaveExact
<1> QED
  BY <1>1, <1>2, <1>3 DEF Exact, Simulated

LEMMA NamesSimulate ==
    ASSUME Inv, Exact, OneKind
    PROVE  /\ \A n \in Names : Lookup(n) => Exact' /\ Simulated
           /\ \A n \in Names : Unlink(n) => Exact' /\ Simulated
           /\ \A from, to \in Names : Rename(from, to) => Exact' /\ Simulated
           /\ \A ino \in Given, n \in Names : Link(ino, n) => Exact' /\ Simulated
<1>1. dir \in [Names -> 0..Len(data)] /\ missing \subseteq Names
  BY DEF Inv, FilesGood, RestGood
<1>2. \A n \in missing : dir[n] = NoFile
  BY DEF Exact, Exists
<1>3. ASSUME op = Idle, op' = op, UNCHANGED <<handles, data>>, \A n \in missing' : dir'[n] = NoFile
      PROVE  Exact' /\ Simulated
  BY <1>3, Unseen DEF Idle, OpenFresh, Exists
<1>4. ASSUME NEW n \in Names, Lookup(n) PROVE Exact' /\ Simulated
  BY <1>1, <1>2, <1>3, <1>4 DEF Lookup, Exists
<1>5. ASSUME NEW n \in Names, Unlink(n) PROVE Exact' /\ Simulated
  BY <1>1, <1>2, <1>3, <1>5 DEF Unlink
<1>6. ASSUME NEW from \in Names, NEW to \in Names, Rename(from, to) PROVE Exact' /\ Simulated
  BY <1>1, <1>2, <1>3, <1>6 DEF Rename
<1>7. ASSUME NEW ino \in Given, NEW n \in Names, Link(ino, n) PROVE Exact' /\ Simulated
  BY <1>1, <1>2, <1>3, <1>7 DEF Link
<1> QED
  BY <1>4, <1>5, <1>6, <1>7

LEMMA InodesSimulate ==
    ASSUME Inv, Exact, OneKind, NEW ino \in Given
    PROVE  /\ Getattr(ino) => Exact' /\ Simulated
           /\ \A wr, trunc \in BOOLEAN : OpenView(ino, wr, trunc) => Exact' /\ Simulated
           /\ \A sz : SetattrPath(ino, sz) => Exact' /\ Simulated
<1>1. \A n \in missing : ~Exists(n)
  BY DEF Exact
<1>2. ASSUME op = Idle, op' = op, UNCHANGED <<dir, missing, handles, data>>
      PROVE  Exact' /\ Simulated
  BY <1>1, <1>2, Unseen DEF Idle, OpenFresh, Exists
<1>3. ASSUME Getattr(ino) PROVE Exact' /\ Simulated
  BY <1>2, <1>3 DEF Getattr
<1>4. ASSUME NEW sz, SetattrPath(ino, sz) PROVE Exact' /\ Simulated
  <2>1. Resolves(ino) => PathOf(ino) \in Names
    BY GivenIsName DEF Inv, Resolves
  <2>2. Resolves(ino) => view_for(PathOf(ino), data[dir[PathOf(ino)]]).tag # "Passthrough"
    BY <2>1, ViewOfKind DEF View
  <2>3. op' = op
    BY <1>4, <2>2 DEF SetattrPath
  <2> QED
    BY <1>2, <1>4, <2>3 DEF SetattrPath
<1>5. ASSUME NEW wr \in BOOLEAN, NEW trunc \in BOOLEAN, OpenView(ino, wr, trunc)
      PROVE  Exact' /\ Simulated
  <2>1. CASE op' = op
    BY <1>2, <1>5, <2>1 DEF OpenView
  <2>2. CASE op' # op
    <3>1. /\ op'.pc = "open" /\ op'.name = PathOf(ino) /\ Resolves(ino) /\ op = Idle
          /\ op'.view = view_for(PathOf(ino), data[dir[PathOf(ino)]])
          /\ UNCHANGED <<dir, data, handles, missing>> /\ handles.next <= MaxFh
      BY <1>5, <2>2 DEF OpenView, CanOpen
    <3>2. PathOf(ino) \in Names
      BY <3>1, GivenIsName DEF Inv, Resolves
    <3>3. OpenFresh'
      BY <3>1, <3>2 DEF OpenFresh, Exists, Resolves
    <3> QED
      BY <1>1, <3>1, <3>3, Unseen DEF Idle, Exists
  <2> QED
    BY <2>1, <2>2
<1> QED
  BY <1>3, <1>4, <1>5
(* A new handle, on file 1 or not *)
LEMMA NewHandleSimulates ==
    ASSUME Inv, Exact, NEW h, HandleOfKind(h), handles.next <= MaxFh,
           handles' = insert(handles, h), op.pc \in {"idle", "open"}, op' = Idle,
           \A n \in missing' : ~Exists(n)',
           Len(data') >= 1, data'[1] = data[1],
           h.tag = "Redacted" /\ h.fd = 1 =>
              /\ redact(Kind, data[1]) = Ok(h.served)
              /\ h.pending \in {None, Some(<< >>)}
    PROVE  Exact' /\ Simulated
<1> DEFINE e == handles.next
<1>1. e \in 1..MaxFh /\ e \notin DOMAIN handles.map
  BY DEF Inv, GoodHandles, HandlesType
<1>2. /\ SameBut(handles, handles', e) /\ e \in DOMAIN handles'.map /\ handles'.map[e] = h
      /\ handles'.next = handles.next + 1
  BY InsertIsSameBut DEF insert
<1>3. Exact'
  <2>1. \A fh \in DOMAIN handles'.map : HandleOfKind(handles'.map[fh])
    BY <1>2 DEF Exact, SameBut
  <2>2. handles'.next <= MaxFh + 1
    BY <1>2, OverlayAssumption DEF Inv, GoodHandles, HandlesType
  <2>3. OpenFresh' /\ SaveExact'
    BY DEF Idle, OpenFresh, SaveExact
  <2>4. \A fh \in DOMAIN handles'.map : HandleOfKind(handles.map[fh])'
    BY <2>1 DEF HandleOfKind, Kind
  <2> QED
    BY <2>1, <2>2, <2>3, <2>4 DEF Exact
<1>4. Orig = data[1] /\ Orig' = data[1]
  BY DEF Orig, SavingIn, Idle
<1>5. SaveFor(op, e) /\ SaveFor(op', e)
  BY DEF SaveFor, Idle
<1>6. /\ Eds[e] = ClosedEd
      /\ Eds' = [Eds EXCEPT ![e] = EdIn(handles', op', e)]
      /\ EdIn(handles', op', e) = EdIn(handles, op, e) => Eds' = Eds
  <2>1. EdIn(handles, op, e) = ClosedEd
    BY <1>1 DEF EdIn, MineIn
  <2> HIDE DEF e
  <2> QED
    BY <1>1, <1>2, <1>5, <2>1, OneEditor
<1> HIDE DEF e
<1>7. CASE h.tag = "Redacted" /\ h.fd = 1
  <2>1. EdIn(handles', op', e) = Ed(TRUE, h.served, h.pending)
    BY <1>2, <1>7 DEF EdIn, MineIn, SavingIn, Idle
  <2>2. PICK trunc \in BOOLEAN : h.pending = IF trunc THEN Some(<< >>) ELSE None
    BY <1>7
  <2>3. redact(Kind, Orig).ok /\ redact(Kind, Orig).text = h.served
    BY <1>4, <1>7 DEF Ok
  <2>4. ~Eds[e].open
    BY <1>6 DEF ClosedEd, Ed
  <2>5. SF!Next
    BY <1>1, <1>4, <1>6, <2>1, <2>2, <2>3, <2>4, AbstractOpen
  <2> QED
    BY <1>3, <2>5 DEF Simulated
<1>8. CASE ~(h.tag = "Redacted" /\ h.fd = 1)
  <2>1. EdIn(handles', op', e) = EdIn(handles, op, e)
    BY <1>1, <1>2, <1>8 DEF EdIn, MineIn
  <2> QED
    BY <1>3, <1>4, <1>6, <2>1 DEF Simulated
<1> QED
  BY <1>7, <1>8

LEMMA OpenFdSimulates ==
    ASSUME Inv, Exact, OneKind, OpenFd
    PROVE  Exact' /\ Simulated
<1>1. /\ op.pc = "open" /\ handles.next <= MaxFh /\ op.name \in Names /\ Exists(op.name)
      /\ op.view = view_for(op.name, data[dir[op.name]])
  BY DEF OpenFd, Exact, OpenFresh
<1>2. op \in OpenOp /\ op.trunc \in BOOLEAN
  BY <1>1, OpCases DEF Inv, OpGood, OpenOp
<1> DEFINE text == data[dir[op.name]]
           h == OpenedHandle(op.view, dir[op.name], op.ino, op.wr, op.trunc)
<1>3. op.view = IF redact(Kind, text).ok THEN View("Redacted", Kind, redact(Kind, text).text)
                ELSE View("Failed", Kind, << >>)
  BY <1>1, ViewOfKind
<1>4. handles' = insert(handles, h) /\ data' = data /\ op' = Idle /\ UNCHANGED <<dir, missing>>
  BY <1>1, <1>3 DEF OpenFd, OneKind, View
<1>5. h = IF redact(Kind, text).ok
          THEN Handle("Redacted", Kind, dir[op.name], op.ino, op.wr, redact(Kind, text).text,
                      IF op.trunc THEN Some(<< >>) ELSE None)
          ELSE Handle("Failed", Kind, NoFile, op.ino, op.wr, << >>, None)
  BY <1>3 DEF OpenedHandle, View
<1>6. HandleOfKind(h)
  BY <1>5 DEF HandleOfKind, Handle
<1>7. ASSUME h.tag = "Redacted", h.fd = 1
      PROVE  redact(Kind, data[1]) = Ok(h.served) /\ h.pending \in {None, Some(<< >>)}
  <2>1. redact(Kind, text).ok /\ dir[op.name] = 1 /\ h.served = redact(Kind, text).text
        /\ h.pending \in {None, Some(<< >>)}
    BY <1>2, <1>5, <1>7 DEF Handle
  <2>2. redact(Kind, data[1]).ok => redact(Kind, data[1]) = Ok(redact(Kind, data[1]).text)
    BY DEF redact, Ok, Err, redact_env, redact_npmrc, redact_mitm_yaml
  <2> QED
    BY <2>1, <2>2
<1>8. \A n \in missing' : ~Exists(n)'
  BY <1>4 DEF Exact, Exists
<1>9. Len(data') >= 1 /\ data'[1] = data[1]
  BY <1>4 DEF Exact
<1> HIDE DEF h, text
<1> QED
  BY <1>1, <1>4, <1>6, <1>7, <1>8, <1>9, NewHandleSimulates

LEMMA CreateSimulates ==
    ASSUME Inv, Exact, OneKind, NEW n \in Names, NEW trunc \in BOOLEAN, Create(n, trunc)
    PROVE  Exact' /\ Simulated
<1>1. n \in missing /\ ~Exists(n) /\ op = Idle /\ op' = op /\ missing' = missing \ {n}
  BY DEF Create, Exact
<1>2. \A m \in missing : ~Exists(m)
  BY DEF Exact
<1>3. CASE UNCHANGED <<dir, data, inodes, handles>>
  <2>1. \A m \in missing' : ~Exists(m)'
    BY <1>1, <1>2, <1>3 DEF Exists
  <2> QED
    BY <1>1, <1>3, <2>1, Unseen DEF Idle, OpenFresh
<1>4. CASE ~UNCHANGED <<dir, data, inodes, handles>>
  <2> DEFINE h == Handle("Redacted", Kind, Len(data) + 1, inodes'.by_path[n], TRUE, << >>, Some(<< >>))
  <2>1. /\ CanOpen /\ dir' = [dir EXCEPT ![n] = Len(data) + 1] /\ data' = Append(data, << >>)
        /\ handles' = insert(handles,
              IF redacting /\ ByName[n] \in {"Env", "Npmrc"}
              THEN Handle("Redacted", ByName[n], dir'[n], inodes'.by_path[n], TRUE, << >>, Some(<< >>))
              ELSE Handle("File", "None", dir'[n], inodes'.by_path[n], TRUE, << >>, None))
    BY <1>1, <1>4 DEF Create
  <2>2. dir \in [Names -> 0..Len(data)] /\ data \in Seq(Text) /\ Len(data) \in Nat /\ missing \subseteq Names
    BY DEF Inv, FilesGood, RestGood
  <2>3. dir'[n] = Len(data) + 1 /\ \A m \in Names \ {n} : dir'[m] = dir[m]
    BY <2>1, <2>2
  <2>4. handles' = insert(handles, h)
    BY <2>1, <2>3, KindIsMergeable DEF OneKind
  <2>5. HandleOfKind(h) /\ h.fd # 1
    BY <2>2 DEF HandleOfKind, Handle, Exact
  <2>6. Len(data') >= 1 /\ data'[1] = data[1]
    BY <2>1, <2>2 DEF Exact
  <2>7. \A m \in missing' : ~Exists(m)'
    BY <1>1, <1>2, <2>2, <2>3 DEF Exists
  <2>8. handles.next <= MaxFh
    BY <2>1 DEF CanOpen
  <2> HIDE DEF h
  <2> QED
    BY <1>1, <2>4, <2>5, <2>6, <2>7, <2>8, NewHandleSimulates DEF Idle
<1> QED
  BY <1>3, <1>4
LEMMA HandleNumber ==
    ASSUME Inv, Exact, NEW fh \in DOMAIN handles.map
    PROVE  fh \in 1..MaxFh /\ HandleOfKind(handles.map[fh])
<1>1. fh \in 1..(handles.next - 1) /\ handles.next \in Nat
  BY DEF Inv, GoodHandles, HandlesType
<1> QED
  BY <1>1, OverlayAssumption DEF Exact

(* Handles whose set and kinds stay, or from which one is dropped *)
LEMMA StillOfKind ==
    ASSUME Exact, handles'.next = handles.next, NEW e, SameBut(handles, handles', e),
           e \in DOMAIN handles'.map => HandleOfKind(handles'.map[e])
    PROVE  /\ handles'.next <= MaxFh + 1
           /\ \A fh \in DOMAIN handles'.map : HandleOfKind(handles'.map[fh])
  BY DEF Exact, SameBut

(* An edit of the pending buffer of one handle *)
LEMMA EditSimulates ==
    ASSUME Inv, Exact, op = Idle, NEW fh \in DOMAIN handles.map, NEW b,
           handles.map[fh].tag = "Redacted", SetPending(fh, b),
           UNCHANGED <<dir, data, op, missing>>,
           ASSUME Eds[fh].open, Orig' = Orig,
                  Eds[fh].pending = handles.map[fh].pending, Eds[fh].served = handles.map[fh].served,
                  Eds' = [Eds EXCEPT ![fh] = [Eds[fh] EXCEPT !.pending = Some(b)]]
           PROVE  SF!Next
    PROVE  Exact' /\ Simulated
<1> DEFINE h == handles.map[fh]
<1>1. Len(data) \in Nat /\ GoodHandles(handles, Len(data))
  BY DEF Inv, FilesGood
<1>3. handles' = WithPending(handles, fh, Some(b))
  BY DEF SetPending, WithPending
<1>4. /\ SameBut(handles, handles', fh) /\ fh \in DOMAIN handles'.map
      /\ handles'.next = handles.next
      /\ handles'.map[fh].tag = h.tag /\ handles'.map[fh].fd = h.fd /\ handles'.map[fh].kind = h.kind
      /\ handles'.map[fh].served = h.served /\ handles'.map[fh].pending = Some(b)
  BY <1>1, <1>3, EditIsSameBut
<1>6. Exact'
  <2>1. HandleOfKind(h) /\ HandleOfKind(handles'.map[fh])
    BY <1>4, HandleNumber DEF HandleOfKind
  <2>2. handles'.next <= MaxFh + 1 /\ \A x \in DOMAIN handles'.map : HandleOfKind(handles'.map[x])
    BY <1>4, <2>1, StillOfKind
  <2>3. \A n \in missing' : ~Exists(n)'
    BY DEF Exact, Exists
  <2>4. OpenFresh' /\ SaveExact'
    BY DEF OpenFresh, SaveExact, Idle
  <2> QED
    BY <2>2, <2>3, <2>4 DEF Exact, HandleOfKind, Kind
<1>7. Orig' = Orig
  BY DEF Orig, SavingIn, Idle
<1>8. SaveFor(op, fh) /\ SaveFor(op', fh)
  BY DEF SaveFor, Idle
<1>9. /\ fh \in 1..MaxFh
      /\ Eds[fh] = EdIn(handles, op, fh)
      /\ Eds' = [Eds EXCEPT ![fh] = EdIn(handles', op', fh)]
      /\ EdIn(handles', op', fh) = EdIn(handles, op, fh) => Eds' = Eds
  BY <1>4, <1>8, HandleNumber, OneEditor
<1> HIDE DEF h
<1>10. CASE h.fd = 1
  <2>1. Eds[fh] = Ed(TRUE, h.served, h.pending)
    BY <1>9, <1>10 DEF EdIn, MineIn, SavingIn, Idle, h
  <2>2. EdIn(handles', op', fh) = Ed(TRUE, h.served, Some(b))
    BY <1>4, <1>10 DEF EdIn, MineIn, SavingIn, Idle, h
  <2>3. /\ Eds[fh].open /\ Eds[fh].pending = h.pending /\ Eds[fh].served = h.served
        /\ [Eds[fh] EXCEPT !.pending = Some(b)] = Ed(TRUE, h.served, Some(b))
    <3>1. Eds[fh].open /\ Eds[fh].pending = h.pending /\ Eds[fh].served = h.served
      BY <2>1 DEF Ed
    <3>2. [Ed(TRUE, h.served, h.pending) EXCEPT !.pending = Some(b)] = Ed(TRUE, h.served, Some(b))
      BY EdEdited
    <3> QED
      BY <2>1, <3>1, <3>2
  <2>4. Eds' = [Eds EXCEPT ![fh] = [Eds[fh] EXCEPT !.pending = Some(b)]]
    BY <1>9, <2>2, <2>3
  <2>5. SF!Next
    BY <1>7, <2>3, <2>4 DEF h
  <2> QED
    BY <1>6, <2>5 DEF Simulated
<1>11. CASE h.fd # 1
  <2>1. EdIn(handles', op', fh) = EdIn(handles, op, fh)
    BY <1>4, <1>11 DEF EdIn, MineIn, h
  <2> QED
    BY <1>6, <1>7, <1>9, <2>1 DEF Simulated
<1> QED
  BY <1>10, <1>11

LEMMA EditsSimulate ==
    ASSUME Inv, Exact, OneKind, NEW fh \in DOMAIN handles.map
    PROVE  /\ Read(fh) => Exact' /\ Simulated
           /\ \A off \in 0..MaxLen, line \in Typed : Write(fh, off, line) => Exact' /\ Simulated
           /\ \A sz \in 0..MaxLen : SetattrHandle(fh, sz) => Exact' /\ Simulated
<1> DEFINE h == handles.map[fh]
<1>1. fh \in 1..MaxFh /\ h.tag \in {"Redacted", "Failed"}
  BY HandleNumber DEF HandleOfKind
<1>2. ASSUME op = Idle, op' = op, UNCHANGED <<dir, missing, handles, data>>
      PROVE  Exact' /\ Simulated
  BY <1>2, Unseen DEF Exact, Idle, OpenFresh, Exists
<1>3. ASSUME Read(fh) PROVE Exact' /\ Simulated
  BY <1>2, <1>3 DEF Read
<1>4. ASSUME NEW off \in 0..MaxLen, NEW line \in Typed, Write(fh, off, line)
      PROVE  Exact' /\ Simulated
  <2>1. CASE h.tag = "Failed"
    BY <1>2, <1>4, <2>1 DEF Write
  <2>2. CASE h.tag = "Redacted"
    <3> DEFINE b == write_at(PendingOr(h.pending, h.served), off, <<line>>)
    <3>1. /\ op = Idle /\ off < MaxLen /\ SetPending(fh, b)
          /\ UNCHANGED <<dir, data, op, missing>>
      BY <1>4, <2>2 DEF Write
    <3>2. ASSUME Eds[fh].open, Orig' = Orig,
                 Eds[fh].pending = handles.map[fh].pending, Eds[fh].served = handles.map[fh].served,
                 Eds' = [Eds EXCEPT ![fh] = [Eds[fh] EXCEPT !.pending = Some(b)]]
          PROVE  SF!Next
      BY <1>1, <3>1, <3>2, AbstractWrite
    <3> HIDE DEF b
    <3> QED
      BY <2>2, <3>1, <3>2, EditSimulates
  <2> QED
    BY <1>1, <2>1, <2>2
<1>5. ASSUME NEW sz \in 0..MaxLen, SetattrHandle(fh, sz) PROVE Exact' /\ Simulated
  <2> DEFINE b == resize(PendingOr(h.pending, h.served), sz)
  <2>1. op = Idle /\ h.tag = "Redacted" /\ SetPending(fh, b) /\ UNCHANGED <<dir, data, op, missing>>
    BY <1>5 DEF SetattrHandle
  <2>2. ASSUME Eds[fh].open, Orig' = Orig,
               Eds[fh].pending = handles.map[fh].pending, Eds[fh].served = handles.map[fh].served,
               Eds' = [Eds EXCEPT ![fh] = [Eds[fh] EXCEPT !.pending = Some(b)]]
        PROVE  SF!Next
    BY <1>1, <2>2, AbstractSetSize
  <2> HIDE DEF b
  <2> QED
    BY <2>1, <2>2, EditSimulates
<1> QED
  BY <1>3, <1>4, <1>5
(* The end of a request on one handle: what is left of it for its editor *)
Left(h, why) ==
    IF h.fd = 1 /\ why # "release" THEN Ed(TRUE, h.served, h.pending) ELSE ClosedEd

LEMMA EndOfRequest ==
    ASSUME NEW files \in Nat, NEW hs, GoodHandles(hs, files), NEW fh \in DOMAIN hs.map,
           hs.map[fh].tag = "Redacted", NEW why
    PROVE  EdIn(AfterPersist(hs, fh, why), Idle, fh) = Left(hs.map[fh], why)
<1>1. CASE why = "release"
  <2>1. fh \notin DOMAIN AfterPersist(hs, fh, why).map
    BY <1>1, DropIsSameBut
  <2> QED
    BY <1>1, <2>1 DEF EdIn, MineIn, Left
<1>2. CASE why # "release"
  BY <1>2 DEF AfterPersist, EdIn, MineIn, SavingIn, Idle, Left
<1> QED
  BY <1>1, <1>2

LEMMA ThroughSameBut ==
    ASSUME NEW a, NEW b, NEW c, NEW e, SameBut(a, b, e), SameBut(b, c, e)
    PROVE  SameBut(a, c, e)
  BY DEF SameBut

LEMMA EndKeepsExact ==
    ASSUME Inv, Exact, NEW fh \in DOMAIN handles.map, NEW why, NEW hs,
           SameBut(handles, hs, fh), fh \in DOMAIN hs.map, HandleOfKind(hs.map[fh]),
           hs.next = handles.next, GoodHandles(hs, Len(data)),
           handles' = AfterPersist(hs, fh, why), op' = Idle,
           Len(data') = Len(data), UNCHANGED <<dir, missing>>
    PROVE  Exact' /\ SameBut(handles, handles', fh)
<1>1. Len(data) \in Nat
  BY DEF Inv, FilesGood
<1>2. SameBut(hs, handles', fh)
  BY <1>1, DropIsSameBut
<1>3. SameBut(handles, handles', fh)
  BY <1>2, ThroughSameBut
<1>4. handles'.next = handles.next /\ (fh \in DOMAIN handles'.map => handles'.map[fh] = hs.map[fh])
  BY DEF AfterPersist, Remove, GoodHandles, HandlesType
<1>5. handles'.next <= MaxFh + 1 /\ \A x \in DOMAIN handles'.map : HandleOfKind(handles'.map[x])
  BY <1>3, <1>4, StillOfKind
<1>6. \A n \in missing' : ~Exists(n)'
  BY DEF Exact, Exists
<1>7. OpenFresh' /\ SaveExact'
  BY DEF OpenFresh, SaveExact, Idle
<1>8. Exact'
  BY <1>5, <1>6, <1>7 DEF Exact, HandleOfKind, Kind
<1> QED
  BY <1>3, <1>8

LEMMA PersistBeginSimulates ==
    ASSUME Inv, Exact, OneKind, NEW fh \in DOMAIN handles.map, NEW why \in {"keep", "release"},
           PersistBegin(fh, why)
    PROVE  Exact' /\ Simulated
<1> DEFINE h == handles.map[fh]
           taken == [handles EXCEPT !.map[fh].pending = None]
<1>1. Len(data) \in Nat /\ GoodHandles(handles, Len(data))
  BY DEF Inv, FilesGood
<1>2. h \in HandleRec
  BY <1>1 DEF GoodHandles, HandlesType, HandleType
<1>3. fh \in 1..MaxFh /\ HandleOfKind(h)
  BY HandleNumber
<1>4. op = Idle /\ UNCHANGED <<dir, data, missing>>
  BY DEF PersistBegin
<1>5. SaveFor(op, fh) /\ Orig = data[1]
  BY <1>4 DEF SaveFor, Idle, Orig, SavingIn
<1>6. SameBut(handles, handles, fh)
  BY DEF SameBut
<1>7. CASE op' = Idle
  <2>1. handles' = AfterPersist(handles, fh, why) /\ (h.tag # "Redacted" \/ ~h.pending.some)
    BY <1>7 DEF PersistBegin, EndPersist, OneKind, Idle
  <2>2. Exact' /\ SameBut(handles, handles', fh)
    BY <1>1, <1>3, <1>4, <1>6, <1>7, <2>1, EndKeepsExact
  <2>3. SaveFor(op', fh) /\ Orig' = Orig
    BY <1>4, <1>5, <1>7 DEF SaveFor, Idle, Orig, SavingIn
  <2>4. /\ Eds[fh] = EdIn(handles, op, fh)
        /\ Eds' = [Eds EXCEPT ![fh] = EdIn(handles', op', fh)]
        /\ EdIn(handles', op', fh) = EdIn(handles, op, fh) => Eds' = Eds
    BY <1>3, <1>5, <2>2, <2>3, OneEditor
  <2>5. CASE MineIn(handles, fh)
    <3>1. h.tag = "Redacted" /\ h.fd = 1 /\ ~h.pending.some
      BY <2>1, <2>5 DEF MineIn
    <3>2. Eds[fh] = Ed(TRUE, h.served, h.pending)
      BY <1>4, <2>4, <2>5 DEF EdIn, SavingIn, Idle
    <3>3. EdIn(handles', op', fh) =
            IF why # "release" THEN Ed(TRUE, h.served, h.pending) ELSE ClosedEd
      <4>1. EdIn(handles', op', fh) = Left(h, why)
        BY <1>1, <1>7, <2>1, <3>1, EndOfRequest
      <4> QED
        BY <3>1, <4>1 DEF Left
    <3>4. CASE why = "release"
      <4>1. Eds[fh].open /\ ~Eds[fh].pending.some
        BY <3>1, <3>2 DEF Ed
      <4>2. SF!Next
        BY <1>3, <2>3, <2>4, <3>3, <3>4, <4>1, AbstractClose
      <4> QED
        BY <2>2, <4>2 DEF Simulated
    <3>5. CASE why # "release"
      BY <2>2, <2>3, <2>4, <3>2, <3>3, <3>5 DEF Simulated
    <3> QED
      BY <3>4, <3>5
  <2>6. CASE ~MineIn(handles, fh)
    <3>1. EdIn(handles', op', fh) = EdIn(handles, op, fh)
      <4>1. fh \in DOMAIN handles'.map => handles'.map[fh] = handles.map[fh]
        BY <2>1 DEF AfterPersist, Remove, GoodHandles, HandlesType
      <4> QED
        BY <2>6, <4>1 DEF EdIn, MineIn
    <3> QED
      BY <2>2, <2>3, <2>4, <3>1 DEF Simulated
  <2> QED
    BY <2>5, <2>6
<1>8. CASE op' # Idle
  <2>1. /\ h.tag = "Redacted" /\ h.pending.some /\ handles' = taken
        /\ op' = [pc |-> "merge", fh |-> fh, why |-> why, fd |-> h.fd, kind |-> h.kind,
                  written |-> h.pending.buf, original |-> data[h.fd]]
    BY <1>8 DEF PersistBegin, EndPersist
  <2>2. /\ op'.pc = "merge" /\ op'.fh = fh /\ op'.fd = h.fd
        /\ op'.written = h.pending.buf /\ op'.original = data[h.fd]
    BY <2>1
  <2>3. handles' = WithPending(handles, fh, None)
    BY <2>1 DEF WithPending
  <2>4. /\ SameBut(handles, handles', fh) /\ fh \in DOMAIN handles'.map
        /\ handles'.next = handles.next
        /\ handles'.map[fh].tag = h.tag /\ handles'.map[fh].fd = h.fd /\ handles'.map[fh].kind = h.kind
        /\ handles'.map[fh].served = h.served /\ handles'.map[fh].pending = None
    BY <1>1, <2>3, EditIsSameBut
  <2>6. Exact'
    <3>1. HandleOfKind(handles'.map[fh])
      BY <1>3, <2>4 DEF HandleOfKind
    <3>2. handles'.next <= MaxFh + 1 /\ \A x \in DOMAIN handles'.map : HandleOfKind(handles'.map[x])
      BY <2>4, <3>1, StillOfKind
    <3>3. \A n \in missing' : ~Exists(n)'
      BY <1>4 DEF Exact, Exists
    <3>4. OpenFresh' /\ SaveExact'
      BY <1>4, <2>2, <2>4 DEF OpenFresh, SaveExact
    <3> QED
      BY <1>4, <3>2, <3>3, <3>4 DEF Exact, HandleOfKind, Kind
  <2>7. SaveFor(op', fh) /\ Orig' = Orig
    BY <1>4, <1>5, <2>2 DEF SaveFor, Orig, SavingIn
  <2>8. Some(h.pending.buf) = h.pending
    BY <1>2, <2>1 DEF HandleRec, Some
  <2>9. EdIn(handles', op', fh) = EdIn(handles, op, fh)
    BY <1>4, <2>2, <2>4, <2>8 DEF EdIn, MineIn, SavingIn, Idle
  <2>10. Eds' = Eds
    BY <1>3, <1>5, <2>4, <2>7, <2>9, OneEditor
  <2> QED
    BY <2>6, <2>7, <2>10 DEF Simulated
<1> QED
  BY <1>7, <1>8
(* The facts about a write-back in progress *)
LEMMA SaveFacts ==
    ASSUME Inv, Exact, op.pc \in {"merge", "truncate", "write"}
    PROVE  /\ op.fh \in DOMAIN handles.map /\ op.fh \in 1..MaxFh
           /\ handles.map[op.fh].tag = "Redacted" /\ handles.map[op.fh].kind = Kind /\ op.kind = Kind
           /\ handles.map[op.fh].fd = op.fd /\ handles.map[op.fh].pending = None
           /\ op.fd \in 1..Len(data) /\ op.why \in {"keep", "release"}
           /\ Eds[op.fh] = IF op.fd = 1 THEN Ed(TRUE, handles.map[op.fh].served, Some(op.written))
                           ELSE ClosedEd
<1>1. /\ op.fh \in DOMAIN handles.map /\ handles.map[op.fh].tag = "Redacted"
      /\ handles.map[op.fh].fd = op.fd /\ handles.map[op.fh].kind = op.kind
  BY OpCases DEF Inv, OpGood
<1>2. op.fh \in 1..MaxFh /\ handles.map[op.fh].kind = Kind
  BY <1>1, HandleNumber DEF HandleOfKind
<1>3. op.fd \in 1..Len(data)
  BY <1>1, OpenFile DEF Inv
<1>4. op.why \in {"keep", "release"}
  BY OpCases DEF Inv, OpGood, MergeOp, StoreOp
<1>5. handles.map[op.fh].pending = None
  BY DEF Exact, SaveExact
<1>6. Eds[op.fh] = EdIn(handles, op, op.fh)
  BY <1>2 DEF Eds
<1>7. EdIn(handles, op, op.fh) = IF op.fd = 1 THEN Ed(TRUE, handles.map[op.fh].served, Some(op.written))
                                 ELSE ClosedEd
  BY <1>1 DEF EdIn, MineIn, SavingIn
<1> QED
  BY <1>1, <1>2, <1>3, <1>4, <1>5, <1>6, <1>7

(* A handler error: the save of the abstract editor that changes nothing *)
LEMMA PersistMergeSimulates ==
    ASSUME Inv, Exact, OneKind, PersistMerge
    PROVE  Exact' /\ Simulated
<1>1. op.pc = "merge" /\ UNCHANGED <<dir, missing, data>>
  BY DEF PersistMerge, Merge
<1> DEFINE h == handles.map[op.fh]
           merged == merge(Kind, op.original, op.written)
           view == redact(Kind, merged.text)
<1>2. /\ op.fh \in DOMAIN handles.map /\ op.fh \in 1..MaxFh
      /\ h.tag = "Redacted" /\ h.kind = Kind /\ op.kind = Kind
      /\ h.fd = op.fd /\ h.pending = None /\ op.why \in {"keep", "release"}
      /\ Eds[op.fh] = IF op.fd = 1 THEN Ed(TRUE, h.served, Some(op.written)) ELSE ClosedEd
  BY <1>1, SaveFacts
<1>3. op.original = data[op.fd] /\ Orig = data[1]
  BY <1>1 DEF Exact, SaveExact, Orig
<1>4. SaveFor(op, op.fh)
  BY DEF SaveFor
<1>5. Len(data) \in Nat /\ GoodHandles(handles, Len(data))
  BY DEF Inv, FilesGood
<1>6. /\ merged.ok => merged = Ok(merged.text)
      /\ view.ok => view = Ok(view.text)
  <2>1. ASSUME NEW b, redact(Kind, b).ok PROVE redact(Kind, b) = Ok(redact(Kind, b).text)
    BY <2>1 DEF redact, Ok, Err, redact_env, redact_npmrc, redact_mitm_yaml
  <2>2. merged.ok => merged = Ok(merged.text)
    BY DEF merge, Ok, Err, merge_env, merge_npmrc
  <2> QED
    BY <2>1, <2>2
<1> HIDE DEF h, merged, view
<1>7. CASE merged.ok /\ view.ok
  <2>1. /\ op' = [pc |-> "truncate", fh |-> op.fh, why |-> op.why, fd |-> op.fd,
                  kind |-> op.kind, written |-> op.written,
                  original |-> op.original, merged |-> merged.text, view |-> view.text]
        /\ handles' = handles
    BY <1>2, <1>7 DEF PersistMerge, Merge, NewOriginal, NewView, merged, view
  <2>2. /\ op'.pc = "truncate" /\ op'.fh = op.fh /\ op'.fd = op.fd /\ op'.written = op.written
        /\ op'.original = op.original /\ op'.merged = merged.text /\ op'.view = view.text
    BY <2>1
  <2>3. Stored(op.original, op.written) = Ok(merged.text) /\ redact(Kind, merged.text) = Ok(view.text)
    BY <1>6, <1>7 DEF Stored, merged, view
  <2>4. SaveExact'
    BY <1>1, <1>2, <1>3, <2>1, <2>2, <2>3 DEF SaveExact, Stored, Kind, h
  <2>5. OpenFresh'
    BY <2>2 DEF OpenFresh
  <2>6. Exact'
    BY <1>1, <2>1, <2>4, <2>5 DEF Exact, Exists, HandleOfKind, Kind
  <2>7. Orig' = Orig
    BY <1>1, <2>2 DEF Orig
  <2>8. Eds' = Eds
    BY <1>1, <2>1, <2>2 DEF Eds, EdIn, SavingIn, MineIn
  <2> QED
    BY <2>6, <2>7, <2>8 DEF Simulated
<1>8. CASE ~(merged.ok /\ view.ok)
  <2>1. op' = Idle /\ handles' = AfterPersist(handles, op.fh, op.why)
    BY <1>2, <1>8 DEF PersistMerge, Merge, NewOriginal, NewView, EndPersist, merged, view
  <2>2. Exact' /\ SameBut(handles, handles', op.fh)
    <3>1. SameBut(handles, handles, op.fh) /\ HandleOfKind(handles.map[op.fh])
      BY <1>2 DEF SameBut, HandleOfKind, h
    <3> QED
      BY <1>1, <1>2, <1>5, <2>1, <3>1, EndKeepsExact
  <2>3. Orig' = Orig /\ SaveFor(op', op.fh)
    BY <1>1, <1>3, <2>1 DEF Orig, SavingIn, Idle, SaveFor
  <2>4. EdIn(handles', op', op.fh) =
          IF op.fd = 1 /\ op.why # "release" THEN Ed(TRUE, h.served, None) ELSE ClosedEd
    <3>1. EdIn(handles', op', op.fh) = Left(h, op.why)
      BY <1>2, <1>5, <2>1, EndOfRequest DEF h
    <3> QED
      BY <1>2, <3>1 DEF Left
  <2>5. /\ Eds[op.fh] = EdIn(handles, op, op.fh)
        /\ Eds' = [Eds EXCEPT ![op.fh] = EdIn(handles', op', op.fh)]
        /\ EdIn(handles', op', op.fh) = EdIn(handles, op, op.fh) => Eds' = Eds
    BY <1>2, <1>4, <2>2, <2>3, OneEditor
  <2>6. CASE op.fd = 1
    <3>1. /\ Eds[op.fh].open /\ Eds[op.fh].pending.some /\ Eds[op.fh].pending.buf = op.written
          /\ Eds[op.fh].served = h.served
      BY <1>2, <2>6 DEF Ed, Some
    <3>2. Stored(Orig, Eds[op.fh].pending.buf) = Err /\ ~Err.ok
      BY <1>3, <1>8, <2>6, <3>1 DEF Stored, merged, view, Err
    <3>3. Eds' = [Eds EXCEPT ![op.fh] =
                    IF op.why = "release" THEN ClosedEd
                    ELSE Ed(TRUE, IF Err.ok THEN redact(Kind, Err.text).text ELSE Eds[op.fh].served, None)]
      BY <2>4, <2>5, <2>6, <3>1, <3>2
    <3>4. SF!Next
      BY <1>2, <2>3, <3>1, <3>2, <3>3, AbstractSave
    <3> QED
      BY <2>2, <3>4 DEF Simulated
  <2>7. CASE op.fd # 1
    BY <1>2, <2>2, <2>3, <2>4, <2>5, <2>7 DEF Simulated
  <2> QED
    BY <2>6, <2>7
<1> QED
  BY <1>7, <1>8

(* ftruncate is hidden: until the write the file counts as what it was. *)
LEMMA PersistTruncateSimulates ==
    ASSUME Inv, Exact, OneKind, PersistTruncate
    PROVE  Exact' /\ Simulated
<1>1. /\ op.pc = "truncate" /\ data' = [data EXCEPT ![op.fd] = << >>]
      /\ op' = [op EXCEPT !.pc = "write"] /\ UNCHANGED <<dir, missing, handles>>
  BY DEF PersistTruncate, OneKind
<1>2. op \in StoreOp
  BY <1>1, OpCases DEF Inv, OpGood
<1>3. /\ op'.pc = "write" /\ op'.fh = op.fh /\ op'.fd = op.fd /\ op'.written = op.written
      /\ op'.original = op.original /\ op'.merged = op.merged /\ op'.view = op.view
  BY <1>1, <1>2 DEF StoreOp
<1>4. op.fd \in 1..Len(data) /\ handles.map[op.fh].pending = None
  BY <1>1, SaveFacts
<1>5. /\ data'[op.fd] = << >> /\ Len(data') = Len(data)
      /\ 1 \in 1..Len(data) /\ (op.fd # 1 => data'[1] = data[1])
  BY <1>1, <1>4 DEF Inv, FilesGood, Exact
<1>6. /\ op.original = data[op.fd]
      /\ Stored(op.original, op.written) = Ok(op.merged) /\ redact(Kind, op.merged) = Ok(op.view)
  BY <1>1 DEF Exact, SaveExact
<1>7. SaveExact'
  BY <1>1, <1>3, <1>4, <1>5, <1>6 DEF SaveExact, Stored, Kind
<1>8. Exact'
  BY <1>1, <1>3, <1>5, <1>7 DEF Exact, Exists, OpenFresh, HandleOfKind, Kind
<1>9. Orig' = Orig
  BY <1>1, <1>3, <1>5, <1>6 DEF Orig, SavingIn
<1>10. Eds' = Eds
  BY <1>1, <1>3 DEF Eds, EdIn, MineIn, SavingIn
<1> QED
  BY <1>8, <1>9, <1>10 DEF Simulated

LEMMA WriteOverNothing ==
    ASSUME NEW m \in Text
    PROVE  write_at(<< >>, 0, m) = m
<1>1. m = [i \in 1..Len(m) |-> m[i]] /\ Len(m) \in Nat
  BY DEF Text
<1> QED
  BY <1>1 DEF write_at
(* The write at offset 0 of the emptied file: the save that stores the merge *)
LEMMA PersistWriteSimulates ==
    ASSUME Inv, Exact, OneKind, PersistWrite
    PROVE  Exact' /\ Simulated
<1> DEFINE h == handles.map[op.fh]
           hs == WithServed(handles, op.fh, op.view)
<1>1. /\ op.pc = "write" /\ op' = Idle /\ UNCHANGED <<dir, missing>>
      /\ data' = [data EXCEPT ![op.fd] = write_at(data[op.fd], 0, op.merged)]
      /\ handles' = AfterPersist(hs, op.fh, op.why)
  BY DEF PersistWrite, EndPersist, OneKind, WithServed
<1>2. /\ op.fh \in DOMAIN handles.map /\ op.fh \in 1..MaxFh
      /\ h.tag = "Redacted" /\ h.kind = Kind
      /\ h.fd = op.fd /\ h.pending = None /\ op.fd \in 1..Len(data) /\ op.why \in {"keep", "release"}
      /\ Eds[op.fh] = IF op.fd = 1 THEN Ed(TRUE, h.served, Some(op.written)) ELSE ClosedEd
  BY <1>1, SaveFacts
<1>3. /\ data[op.fd] = << >>
      /\ Stored(op.original, op.written) = Ok(op.merged) /\ redact(Kind, op.merged) = Ok(op.view)
  BY <1>1 DEF Exact, SaveExact
<1>4. op.merged \in Text /\ op.view \in Text /\ Safe(h.kind, op.view)
  BY <1>1, StoreFacts
<1>5. data' = [data EXCEPT ![op.fd] = op.merged]
  BY <1>1, <1>3, <1>4, WriteOverNothing
<1>6. /\ data'[op.fd] = op.merged /\ Len(data') = Len(data)
      /\ op.fd # 1 => data'[1] = data[1]
  BY <1>2, <1>5 DEF Inv, FilesGood, Exact
<1>7. Len(data) \in Nat /\ GoodHandles(handles, Len(data))
  BY DEF Inv, FilesGood
<1>8. /\ SameBut(handles, hs, op.fh) /\ op.fh \in DOMAIN hs.map /\ hs.next = handles.next
      /\ hs.map[op.fh].tag = h.tag /\ hs.map[op.fh].fd = h.fd /\ hs.map[op.fh].kind = h.kind
      /\ hs.map[op.fh].served = op.view /\ hs.map[op.fh].pending = None
  BY <1>2, <1>7, EditIsSameBut
<1>9. GoodHandles(hs, Len(data))
  <2> DEFINE g == [h EXCEPT !.served = op.view]
  <2>1. HandleType(g, Len(data)) /\ HandleSafe(g)
    <3>1. HandleType(h, Len(data)) /\ HandleSafe(h) /\ ~h.pending.some
      BY <1>1, <1>2, OpenFile, StoreFacts DEF Inv
    <3> HIDE DEF h
    <3> QED
      BY <1>2, <1>4, <1>7, <3>1, EditedHandleGood
  <2>2. hs = [handles EXCEPT !.map[op.fh] = g]
    BY <1>2, <1>7, FieldOfHandle DEF WithServed
  <2> HIDE DEF g, hs
  <2> QED
    BY <1>2, <1>7, <2>1, <2>2, ReplaceGood
<1> HIDE DEF h, hs
<1>10. Exact' /\ SameBut(handles, handles', op.fh)
  <2>1. HandleOfKind(hs.map[op.fh])
    BY <1>2, <1>8 DEF HandleOfKind
  <2> QED
    BY <1>1, <1>2, <1>6, <1>8, <1>9, <2>1, EndKeepsExact
<1>11. EdIn(handles', op', op.fh) =
         IF op.fd = 1 /\ op.why # "release" THEN Ed(TRUE, op.view, None) ELSE ClosedEd
  <2>1. EdIn(handles', op', op.fh) = Left(hs.map[op.fh], op.why)
    BY <1>1, <1>2, <1>7, <1>8, <1>9, EndOfRequest
  <2> QED
    BY <1>2, <1>8, <2>1 DEF Left
<1>12. SaveFor(op, op.fh) /\ SaveFor(op', op.fh)
  BY <1>1 DEF SaveFor, Idle
<1>13. /\ Eds[op.fh] = EdIn(handles, op, op.fh)
       /\ Eds' = [Eds EXCEPT ![op.fh] = EdIn(handles', op', op.fh)]
       /\ EdIn(handles', op', op.fh) = EdIn(handles, op, op.fh) => Eds' = Eds
  BY <1>2, <1>10, <1>12, OneEditor
<1>14. CASE op.fd = 1
  <2> DEFINE s == Ok(op.merged)
  <2>1. /\ Eds[op.fh].open /\ Eds[op.fh].pending.some /\ Eds[op.fh].pending.buf = op.written
    BY <1>2, <1>14 DEF Ed, Some
  <2>2. Orig = op.original /\ Orig' = op.merged
    BY <1>1, <1>6, <1>14 DEF Orig, SavingIn, Idle
  <2>3. s.ok /\ s.text = op.merged /\ redact(Kind, s.text).text = op.view
    BY <1>3 DEF Ok
  <2>4. s = Stored(Orig, Eds[op.fh].pending.buf)
    BY <1>3, <2>1, <2>2
  <2> HIDE DEF s
  <2>5. Eds' = [Eds EXCEPT ![op.fh] =
                  IF op.why = "release" THEN ClosedEd
                  ELSE Ed(TRUE, IF s.ok THEN redact(Kind, s.text).text ELSE Eds[op.fh].served, None)]
    BY <1>11, <1>13, <1>14, <2>3
  <2>6. SF!Next
    BY <1>2, <2>1, <2>2, <2>3, <2>4, <2>5, AbstractSave
  <2> QED
    BY <1>10, <2>6 DEF Simulated
<1>15. CASE op.fd # 1
  <2>1. Orig' = Orig
    BY <1>1, <1>6, <1>15 DEF Orig, SavingIn, Idle
  <2> QED
    BY <1>2, <1>10, <1>11, <1>13, <1>15, <2>1 DEF Simulated
<1> QED
  BY <1>14, <1>15

LEMMA StepSimulates ==
    ASSUME Inv, Exact, OneKind, MaxHost = 0, [Next]_vars
    PROVE  Exact' /\ Simulated
<1>1. CASE Request
  BY <1>1, NamesSimulate, InodesSimulate, CreateSimulates, EditsSimulate, PersistBeginSimulates
  DEF Request
<1>2. CASE Continue
  <2>1. ~SetattrSize
    BY DEF Exact, OpenFresh, SetattrSize
  <2> QED
    BY <1>2, <2>1, OpenFdSimulates, PersistMergeSimulates, PersistTruncateSimulates,
       PersistWriteSimulates DEF Continue
<1>3. CASE UNCHANGED vars
  BY <1>3 DEF vars, Exact, Exists, OpenFresh, SaveExact, Stored, HandleOfKind, Kind, Simulated, Orig, Eds
<1> QED
  BY <1>1, <1>2, <1>3, NoHost DEF Next

(* fs.rs open and persist: as long as no host process and no failing system call
   interferes and every name in the directory selects the handler of the file,
   each step of the overlay is, for the editors of the file, a step of
   SecretFile or no step at all, whatever is renamed, linked, unlinked and
   created meanwhile, and through however many handles. *)
THEOREM OverlayImplementsSecretFile ==
    ASSUME \A n \in Names : ByName[n] = ByName[Secret], ~DiskMayFail, redacting, MaxHost = 0
    PROVE  Spec => ImplementsSecretFile
<1>1. OneKind
  BY DEF OneKind, Kind
<1>2. Init => Inv /\ Exact /\ SF!Init
  <2> SUFFICES ASSUME Init PROVE Exact /\ SF!Init
    BY InitInv
  <2>1. Inv
    BY InitInv
  <2>2. 1 \in DOMAIN Mounted /\ DOMAIN data = DOMAIN Mounted
    BY ImplementsAssumption, OverlayAssumption DEF Init
  <2>3. Len(data) >= 1
    BY <2>1, <2>2 DEF Inv, FilesGood
  <2>4. handles.next <= MaxFh + 1 /\ DOMAIN handles.map = {}
    BY OverlayAssumption DEF Init
  <2>5. Exact
    BY <2>3, <2>4 DEF Init, Exact, OpenFresh, SaveExact, Idle
  <2>6. Orig = data[1] /\ data[1] \in HostTexts[Secret]
    BY <2>2, ImplementsAssumption DEF Init, Orig, SavingIn, Idle
  <2>7. Eds = [e \in 1..MaxFh |-> SF!Closed]
    BY <2>4, SameBuffers DEF Eds, EdIn, MineIn, ClosedEd, Ed, SF!Closed, SF!Editor
  <2> QED
    BY <2>5, <2>6, <2>7, KindIsMergeable DEF SF!Init
<1>3. Inv /\ Exact /\ [Next]_vars => Inv' /\ Exact' /\ [SF!Next]_(SF!vars)
  <2> SUFFICES ASSUME Inv, Exact, [Next]_vars PROVE Inv' /\ Exact' /\ [SF!Next]_(SF!vars)
    OBVIOUS
  <2>1. Inv' /\ Exact' /\ Simulated
    BY <1>1, StepInv, StepSimulates
  <2> QED
    BY <2>1, AbstractState DEF Simulated
<1> QED
  BY <1>2, <1>3, PTL DEF Spec, ImplementsSecretFile, SF!Spec
=============================================================================
