------------------------------ MODULE Overlay ------------------------------
(***************************************************************************)
(* The file operations of the FUSE overlay (src/fs.rs) on the files of one *)
(* directory: inode table, handle table, redacted views, pending buffers   *)
(* and the write-back in persist.                                          *)
(*                                                                         *)
(* The backend serves one request at a time; the variable op is the        *)
(* request it is in the middle of, one step per system call whose effect   *)
(* on the real files matters.  Host processes, which are not behind the    *)
(* overlay, change the same real files between any two steps.  The kernel  *)
(* is external: it issues requests with inode numbers and handles it was   *)
(* given.                                                                  *)
(***************************************************************************)
EXTENDS Buffer, InodeTable, FiniteSets

CONSTANTS
    Names,        \* the file names used in the directory
    ByName,       \* the handler detect selects from a name alone, or "None"
    Mounted,      \* the names that exist at mount time, a sequence
    HostTexts,    \* for each name, the texts the host stores under it
    Typed,        \* the lines the wrapped program writes
    redacting,    \* OverlayFs.redact
    Gated,        \* whether a gate may refuse an access
    DiskMayFail,  \* whether system calls on the real files may fail
    Sniff,        \* how many lines the 1024-byte prefix holds
    MaxLen,       \* bound: length of buffers and files
    MaxIno,       \* bound: inode numbers handed out
    MaxFile,      \* bound: real files ever created
    MaxFh,        \* bound: handles ever opened
    MaxOpen,      \* bound: handles open at a time
    MaxHost       \* bound: changes made by the host

NoFile == 0     \* real files are numbered 1, 2, ... in the order they appear

ASSUME OverlayAssumption ==
    /\ ROOT \notin Names
    /\ ByName \in [Names -> Kinds \cup {"None"}]
    /\ Mounted \in Seq(Names)
    /\ \A i, j \in DOMAIN Mounted : Mounted[i] = Mounted[j] => i = j
    /\ HostTexts \in [Names -> SUBSET Text]
    /\ Typed \subseteq Line
    /\ {redacting, Gated, DiskMayFail} \subseteq BOOLEAN
    /\ {Sniff, MaxLen, MaxIno, MaxFile, MaxFh, MaxOpen, MaxHost} \subseteq Nat

VARIABLES
    dir,       \* the real directory: which file each name is
    data,      \* the text of every real file, unlinked ones included
    inodes,    \* OverlayFs.inodes
    handles,   \* OverlayFs.handles
    op,        \* the request in progress
    reply,     \* the answer to the last request
    missing,   \* names the kernel was told do not exist and may now create
    host       \* changes made by the host so far

vars == <<dir, data, inodes, handles, op, reply, missing, host>>

-----------------------------------------------------------------------------
(* Handles and views *)

Handle(tag, kind, fd, ino, wr, served, pending) ==
    [tag |-> tag, kind |-> kind, fd |-> fd, ino |-> ino, wr |-> wr,
     served |-> served, pending |-> pending]

(* Mutant of insert: the next handle number is not advanced. *)
insert_reusing(hs, h) == [next |-> hs.next, map |-> Put(hs.map, hs.next, h)]

(* Handles::insert *)
insert(hs, h) == [next |-> hs.next + 1, map |-> Put(hs.map, hs.next, h)]

CanOpen == handles.next <= MaxFh /\ Cardinality(DOMAIN handles.map) < MaxOpen

View(tag, kind, text) == [tag |-> tag, kind |-> kind, text |-> text]

Prefix(text) == SubSeq(text, 1, IF Len(text) < Sniff THEN Len(text) ELSE Sniff)

(* view_for on a name that exists and whose file holds `original` *)
view_for(n, original) ==
    LET kind == detect(ByName[n], Prefix(original))
        view == redact(kind, original)
        key == redact_private_key(original)
    IN CASE ~redacting \/ kind = "None" -> View("Passthrough", "None", << >>)
         [] redacting /\ kind \in {"Env", "Npmrc"} ->
              IF view.ok THEN View("Redacted", kind, view.text)
                         ELSE View("Failed", kind, << >>)
         [] redacting /\ kind = "PrivateKey" ->
              IF key.ok THEN View("Key", kind, key.text)
                        ELSE View("Passthrough", kind, << >>)
         [] redacting /\ kind = "MitmYaml" ->
              IF view.ok THEN View("Key", kind, view.text)
                         ELSE View("Failed", kind, << >>)

(* The size attr reports for it. *)
attr_size(n, original) ==
    LET view == view_for(n, original)
    IN IF view.tag = "Passthrough" THEN Len(original) ELSE Len(view.text)

-----------------------------------------------------------------------------
(* Requests: the backend is idle when it takes one and idle after the last   *)
(* step of it.                                                               *)

Idle == [pc |-> "idle"]

Answer(err) == reply' = [err |-> err, size |-> 0]
AnswerAttr(size) == reply' = [err |-> "ok", size |-> size]

(* A request that ends with attr, which may fail when all else is done. *)
EndWithAttr(size) == AnswerAttr(size) \/ (DiskMayFail /\ Answer("errno"))

(* Inode numbers the kernel was given, other than the root's. *)
Given == (ROOT_INO + 1)..(inodes.next - 1)

(* path_of(ino) finds a path, and that name exists in the real directory. *)
HasPath(ino) == ino \in DOMAIN inodes.by_ino
PathOf(ino) == inodes.by_ino[ino]
Exists(n) == dir[n] # NoFile
Resolves(ino) == HasPath(ino) /\ Exists(PathOf(ino))

CanIntern(n) == n \in DOMAIN inodes.by_path \/ inodes.next <= MaxIno

CanCreate == Len(data) < MaxFile

Init ==
    /\ dir = [n \in Names |->
               IF \E i \in DOMAIN Mounted : Mounted[i] = n
               THEN CHOOSE i \in DOMAIN Mounted : Mounted[i] = n ELSE NoFile]
    /\ data \in [DOMAIN Mounted -> UNION {HostTexts[n] : n \in Names}]
    /\ \A i \in DOMAIN Mounted : data[i] \in HostTexts[Mounted[i]]
    /\ inodes = NewTable
    /\ handles = [next |-> 1, map |-> [x \in {} |-> x]]
    /\ op = Idle
    /\ reply = [err |-> "none", size |-> 0]
    /\ missing = {}
    /\ host = 0

-----------------------------------------------------------------------------
(* lookup: a name that exists gets a number.  A miss is what precedes a      *)
(* create request for the same name.                                         *)
Lookup(n) ==
    /\ op = Idle
    /\ \/ /\ ~Exists(n)
          /\ Answer("ENOENT")
          /\ missing' = missing \cup {n}
          /\ UNCHANGED inodes
       \/ /\ Exists(n) /\ CanIntern(n)
          /\ inodes' = intern(inodes, n)
          /\ EndWithAttr(attr_size(n, data[dir[n]]))
          /\ missing' = missing \ {n}
    /\ UNCHANGED <<dir, data, handles, op, host>>

(* getattr, and setattr without a size, which changes nothing. *)
Getattr(ino) ==
    /\ op = Idle
    /\ IF Resolves(ino)
       THEN EndWithAttr(attr_size(PathOf(ino), data[dir[PathOf(ino)]])) ELSE Answer("ENOENT")
    /\ UNCHANGED <<dir, data, inodes, handles, op, missing, host>>

(* open, up to view_for: the view is taken from the file of that name.       *)
OpenView(ino, wr, trunc) ==
    /\ op = Idle
    /\ CanOpen
    /\ \/ /\ ~HasPath(ino)
          /\ Answer("ENOENT") /\ UNCHANGED op
       \/ /\ HasPath(ino) /\ Gated
          /\ Answer("EACCES") /\ UNCHANGED op
       \/ /\ HasPath(ino) /\ ~Exists(PathOf(ino))
          /\ Answer("ENOENT") /\ UNCHANGED op
       \/ /\ Resolves(ino) /\ DiskMayFail
          /\ Answer("errno") /\ UNCHANGED op
       \/ /\ Resolves(ino)
          /\ op' = [pc |-> "open", ino |-> ino, name |-> PathOf(ino), wr |-> wr,
                    trunc |-> trunc, view |-> view_for(PathOf(ino), data[dir[PathOf(ino)]])]
          /\ UNCHANGED reply
    /\ UNCHANGED <<dir, data, inodes, handles, missing, host>>

(* The handle open builds from the view and a second open of the name. *)
OpenedHandle(view, fd, ino, wr, trunc) ==
    CASE view.tag = "Passthrough" ->
           Handle("File", view.kind, fd, ino, wr, << >>, None)
      [] view.tag = "Redacted" ->
           Handle("Redacted", view.kind, fd, ino, wr, view.text,
                  IF trunc THEN Some(<< >>) ELSE None)
      [] view.tag \in {"Key", "Failed"} ->
           Handle(view.tag, view.kind, NoFile, ino, wr, view.text, None)

OpenFd ==
    /\ op.pc = "open"
    /\ op' = Idle
    /\ \/ /\ op.view.tag \in {"Passthrough", "Redacted"}
          /\ \/ ~Exists(op.name) /\ Answer("ENOENT")
             \/ DiskMayFail /\ Answer("errno")
          /\ UNCHANGED <<data, handles>>
       \/ /\ op.view.tag \in {"Passthrough", "Redacted"} => Exists(op.name)
          /\ handles' = insert(handles,
                OpenedHandle(op.view, dir[op.name], op.ino, op.wr, op.trunc))
          /\ data' = IF op.view.tag = "Passthrough" /\ op.trunc
                     THEN [data EXCEPT ![dir[op.name]] = << >>] ELSE data
          /\ Answer("ok")
    /\ UNCHANGED <<dir, inodes, missing, host>>

(* create: O_CREAT without O_EXCL, so a file the host made after the miss is *)
(* opened (and truncated only if O_TRUNC was asked for).  When attr fails    *)
(* the handle stays in the table although the kernel never learns of it; the *)
(* requests below may use it all the same.                                   *)
Create(n, trunc) ==
    /\ op = Idle
    /\ n \in missing
    /\ missing' = missing \ {n}
    /\ \/ /\ \/ Gated /\ Answer("EACCES")
             \/ DiskMayFail /\ Answer("errno")
          /\ UNCHANGED <<dir, data, inodes, handles>>
       \/ /\ CanOpen /\ CanIntern(n)
          /\ \/ /\ ~Exists(n) /\ CanCreate
                /\ dir' = [dir EXCEPT ![n] = Len(data) + 1]
                /\ data' = Append(data, << >>)
             \/ /\ Exists(n)
                /\ data' = IF trunc THEN [data EXCEPT ![dir[n]] = << >>] ELSE data
                /\ UNCHANGED dir
          /\ inodes' = intern(inodes, n)
          /\ handles' = insert(handles,
                IF redacting /\ ByName[n] \in {"Env", "Npmrc"}
                THEN Handle("Redacted", ByName[n], dir'[n], inodes'.by_path[n], TRUE,
                            << >>, Some(<< >>))
                ELSE Handle("File", "None", dir'[n], inodes'.by_path[n], TRUE, << >>, None))
          /\ EndWithAttr(attr_size(n, data'[dir'[n]]))
    /\ UNCHANGED <<op, host>>

(* read: what the handle serves. *)
Served(h) ==
    CASE h.tag = "File"     -> Ok(data[h.fd])
      [] h.tag = "Redacted" -> Ok(PendingOr(h.pending, h.served))
      [] h.tag = "Key"      -> Ok(h.served)
      [] h.tag = "Failed"   -> Err

Read(fh) ==
    /\ op = Idle
    /\ fh \in DOMAIN handles.map
    /\ LET bytes == Served(handles.map[fh])
       IN \/ bytes.ok /\ AnswerAttr(Len(bytes.text))
          \/ ~bytes.ok /\ Answer("EIO")
          \/ handles.map[fh].tag = "File" /\ DiskMayFail /\ Answer("errno")
    /\ UNCHANGED <<dir, data, inodes, handles, op, missing, host>>

SetPending(fh, b) == handles' = [handles EXCEPT !.map[fh].pending = Some(b)]

Write(fh, off, line) ==
    /\ op = Idle
    /\ fh \in DOMAIN handles.map
    /\ off < MaxLen
    /\ LET h == handles.map[fh]
       IN /\ h.wr
          /\ \/ /\ h.tag = "File"
                /\ data' = [data EXCEPT ![h.fd] = write_at(data[h.fd], off, <<line>>)]
                /\ Answer("ok") /\ UNCHANGED handles
             \/ /\ h.tag = "File" /\ DiskMayFail
                /\ Answer("errno") /\ UNCHANGED <<data, handles>>
             \/ /\ h.tag = "Redacted"
                /\ SetPending(fh, write_at(PendingOr(h.pending, h.served), off, <<line>>))
                /\ Answer("ok") /\ UNCHANGED data
             \/ /\ h.tag = "Key"
                /\ Answer("EROFS") /\ UNCHANGED <<data, handles>>
             \/ /\ h.tag = "Failed"
                /\ Answer("EIO") /\ UNCHANGED <<data, handles>>
    /\ UNCHANGED <<dir, inodes, op, missing, host>>

(* setattr(size) on a redacted handle resizes its pending buffer, even when  *)
(* the name is gone and the answer is an error.                              *)
SetattrHandle(fh, sz) ==
    /\ op = Idle
    /\ fh \in DOMAIN handles.map
    /\ LET h == handles.map[fh]
       IN /\ h.tag = "Redacted" /\ h.wr /\ HasPath(h.ino)
          /\ SetPending(fh, resize(PendingOr(h.pending, h.served), sz))
          /\ IF Exists(PathOf(h.ino)) THEN AnswerAttr(sz) ELSE Answer("ENOENT")
    /\ UNCHANGED <<dir, data, inodes, op, missing, host>>

(* setattr(size) without a handle, or with one that is not redacted, takes   *)
(* the view of the file that has the name of the inode, ...                   *)
SetattrPath(ino, sz) ==
    /\ op = Idle
    /\ \/ /\ ~Resolves(ino)
          /\ Answer("ENOENT") /\ UNCHANGED op
       \/ /\ Resolves(ino) /\ DiskMayFail
          /\ Answer("errno") /\ UNCHANGED op
       \/ /\ Resolves(ino)
          /\ LET n == PathOf(ino)
                 view == view_for(n, data[dir[n]])
             IN \/ /\ view.tag = "Passthrough"
                   /\ op' = [pc |-> "setsize", name |-> n, size |-> sz] /\ UNCHANGED reply
                \/ /\ view.tag = "Redacted"
                   /\ EndWithAttr(attr_size(n, data[dir[n]])) /\ UNCHANGED op
                \/ /\ view.tag = "Key"
                   /\ Answer("EROFS") /\ UNCHANGED op
                \/ /\ view.tag = "Failed"
                   /\ Answer("EIO") /\ UNCHANGED op
    /\ UNCHANGED <<dir, data, inodes, handles, missing, host>>

(* ... and opens and truncates what then has the name.                        *)
SetattrSize ==
    /\ op.pc = "setsize"
    /\ op' = Idle
    /\ \/ /\ Exists(op.name)
          /\ data' = [data EXCEPT ![dir[op.name]] = resize(data[dir[op.name]], op.size)]
          /\ EndWithAttr(attr_size(op.name, data'[dir[op.name]]))
       \/ /\ ~Exists(op.name)
          /\ Answer("ENOENT") /\ UNCHANGED data
       \/ /\ DiskMayFail
          /\ Answer("errno") /\ UNCHANGED data
    /\ UNCHANGED <<dir, inodes, handles, missing, host>>

-----------------------------------------------------------------------------
(* persist, on behalf of flush, fsync or release: why is "keep" or "release".*)

AfterPersist(hs, fh, why) ==
    IF why = "release" THEN [hs EXCEPT !.map = Remove(hs.map, fh)] ELSE hs

(* The end of the request: release drops the handle whatever persist said. *)
EndPersist(fh, why, err, hs) ==
    /\ op' = Idle
    /\ handles' = AfterPersist(hs, fh, why)
    /\ Answer(err)

(* pending.take(), then read_all of the original *)
PersistBegin(fh, why) ==
    /\ op = Idle
    /\ fh \in DOMAIN handles.map
    /\ LET h == handles.map[fh]
           taken == [handles EXCEPT !.map[fh].pending = None]
       IN \/ /\ h.tag # "Redacted" \/ ~h.pending.some
             /\ EndPersist(fh, why, "ok", handles)
          \/ /\ h.tag = "Redacted" /\ h.pending.some
             /\ handles' = taken
             /\ op' = [pc |-> "merge", fh |-> fh, why |-> why, fd |-> h.fd, kind |-> h.kind,
                       written |-> h.pending.buf, original |-> data[h.fd]]
             /\ UNCHANGED reply
          \/ /\ h.tag = "Redacted" /\ h.pending.some /\ DiskMayFail
             /\ EndPersist(fh, why, "errno", taken)
    /\ UNCHANGED <<dir, data, inodes, missing, host>>

NewOriginal(kind, original, written) == merge(kind, original, written)

(* Mutant of NewView: what was stored is served. *)
NewView_raw(kind, merged) == Ok(merged)

NewView(kind, merged) == redact(kind, merged)

Merge ==
    /\ op.pc = "merge"
    /\ LET merged == NewOriginal(op.kind, op.original, op.written)
           view == NewView(op.kind, merged.text)
       IN IF merged.ok /\ view.ok
          THEN /\ op' = [pc |-> "truncate", fh |-> op.fh, why |-> op.why, fd |-> op.fd,
                         kind |-> op.kind, written |-> op.written,
                         original |-> op.original, merged |-> merged.text,
                         view |-> view.text]
               /\ UNCHANGED <<handles, reply>>
          ELSE EndPersist(op.fh, op.why, "EIO", handles)
    /\ UNCHANGED <<dir, inodes, missing, host>>

(* Mutant of PersistMerge: the original is truncated before the merge. *)
PersistMerge_late == Merge /\ data' = [data EXCEPT ![op.fd] = << >>]

(* merge, then redact the result: both before the original is touched *)
PersistMerge == Merge /\ UNCHANGED data

(* Mutant of PersistTruncate: the old text is written over, not truncated. *)
PersistTruncate_skipped ==
    /\ op.pc = "truncate"
    /\ op' = [op EXCEPT !.pc = "write"]
    /\ UNCHANGED <<dir, data, inodes, handles, reply, missing, host>>

PersistTruncate ==
    /\ op.pc = "truncate"
    /\ \/ /\ data' = [data EXCEPT ![op.fd] = << >>]
          /\ op' = [op EXCEPT !.pc = "write"]
          /\ UNCHANGED <<handles, reply>>
       \/ /\ DiskMayFail
          /\ EndPersist(op.fh, op.why, "errno", handles)
          /\ UNCHANGED data
    /\ UNCHANGED <<dir, inodes, missing, host>>

(* write_all_at: everything, or a prefix and an error *)
PersistWrite ==
    /\ op.pc = "write"
    /\ \/ /\ data' = [data EXCEPT ![op.fd] = write_at(data[op.fd], 0, op.merged)]
          /\ EndPersist(op.fh, op.why, "ok",
                        [handles EXCEPT !.map[op.fh].served = op.view])
       \/ /\ DiskMayFail
          /\ \E m \in 0..(Len(op.merged) - 1) :
                data' = [data EXCEPT ![op.fd] =
                           write_at(data[op.fd], 0, SubSeq(op.merged, 1, m))]
          /\ EndPersist(op.fh, op.why, "errno", handles)
    /\ UNCHANGED <<dir, inodes, missing, host>>

-----------------------------------------------------------------------------
(* Changes to the directory through the overlay.  The kernel has looked up a *)
(* name before it asks to remove or rename it.  rename ignores its flags.    *)

LookedUp(n) == n \in DOMAIN inodes.by_path

Unlink(n) ==
    /\ op = Idle
    /\ LookedUp(n)
    /\ \/ /\ Exists(n)
          /\ dir' = [dir EXCEPT ![n] = NoFile]
          /\ inodes' = forget_path(inodes, n)
          /\ Answer("ok")
       \/ /\ \/ ~Exists(n) /\ Answer("ENOENT")
             \/ DiskMayFail /\ Answer("errno")
          /\ UNCHANGED <<dir, inodes>>
    /\ UNCHANGED <<data, handles, op, missing, host>>

(* renameat does nothing when both names are links to one file; the table is *)
(* updated all the same.                                                     *)
Rename(from, to) ==
    /\ op = Idle
    /\ from # to
    /\ LookedUp(from)
    /\ \/ /\ Exists(from)
          /\ dir' = IF dir[from] = dir[to] THEN dir
                    ELSE [dir EXCEPT ![to] = dir[from], ![from] = NoFile]
          /\ inodes' = rename(inodes, from, to)
          /\ missing' = missing \ {to}
          /\ Answer("ok")
       \/ /\ \/ ~Exists(from) /\ Answer("ENOENT")
             \/ DiskMayFail /\ Answer("errno")
          /\ UNCHANGED <<dir, inodes, missing>>
    /\ UNCHANGED <<data, handles, op, host>>

Link(ino, n) ==
    /\ op = Idle
    /\ \/ /\ ~Resolves(ino)
          /\ Answer("ENOENT") /\ UNCHANGED <<dir, inodes, missing>>
       \/ /\ Resolves(ino) /\ Exists(n)
          /\ Answer("EEXIST") /\ UNCHANGED <<dir, inodes, missing>>
       \/ /\ DiskMayFail
          /\ Answer("errno") /\ UNCHANGED <<dir, inodes, missing>>
       \/ /\ Resolves(ino) /\ ~Exists(n) /\ CanIntern(n)
          /\ dir' = [dir EXCEPT ![n] = dir[PathOf(ino)]]
          /\ inodes' = intern(inodes, n)
          /\ missing' = missing \ {n}
          /\ EndWithAttr(attr_size(n, data[dir'[n]]))
    /\ UNCHANGED <<data, handles, op, host>>

-----------------------------------------------------------------------------
(* The host, at any time *)

HostMay == host < MaxHost /\ host' = host + 1

(* an editor or a shell that writes the file in place *)
HostWrite(n, text) ==
    /\ HostMay
    /\ Exists(n)
    /\ data' = [data EXCEPT ![dir[n]] = text]
    /\ UNCHANGED <<dir, inodes, handles, op, reply, missing>>

(* a new file under the name: a creation, or an editor that saves by rename *)
HostReplace(n, text) ==
    /\ HostMay
    /\ CanCreate
    /\ dir' = [dir EXCEPT ![n] = Len(data) + 1]
    /\ data' = Append(data, text)
    /\ UNCHANGED <<inodes, handles, op, reply, missing>>

HostRemove(n) ==
    /\ HostMay
    /\ Exists(n)
    /\ dir' = [dir EXCEPT ![n] = NoFile]
    /\ UNCHANGED <<data, inodes, handles, op, reply, missing>>

-----------------------------------------------------------------------------
Request ==
    \/ \E n \in Names : Lookup(n)
    \/ \E ino \in Given : Getattr(ino)
    \/ \E ino \in Given, wr, trunc \in BOOLEAN : (trunc => wr) /\ OpenView(ino, wr, trunc)
    \/ \E n \in Names, trunc \in BOOLEAN : Create(n, trunc)
    \/ \E fh \in DOMAIN handles.map : Read(fh)
    \/ \E fh \in DOMAIN handles.map, off \in 0..MaxLen, line \in Typed : Write(fh, off, line)
    \/ \E fh \in DOMAIN handles.map, sz \in 0..MaxLen : SetattrHandle(fh, sz)
    \/ \E ino \in Given, sz \in 0..MaxLen : SetattrPath(ino, sz)
    \/ \E fh \in DOMAIN handles.map, why \in {"keep", "release"} : PersistBegin(fh, why)
    \/ \E n \in Names : Unlink(n)
    \/ \E from, to \in Names : Rename(from, to)
    \/ \E ino \in Given, n \in Names : Link(ino, n)

(* The system calls the backend still has to make for the request. *)
Continue == OpenFd \/ SetattrSize \/ PersistMerge \/ PersistTruncate \/ PersistWrite

Host ==
    \E n \in Names :
        \/ \E text \in HostTexts[n] : HostWrite(n, text)
        \/ \E text \in HostTexts[n] : HostReplace(n, text)
        \/ HostRemove(n)

Next == Request \/ Continue \/ Host

Spec == Init /\ [][Next]_vars

-----------------------------------------------------------------------------
(* Properties *)

HandleRec ==
    [tag : {"File", "Redacted", "Key", "Failed"}, kind : Kinds \cup {"None"}, fd : Nat,
     ino : Nat, wr : BOOLEAN, served : Text, pending : [some : BOOLEAN, buf : Text]]

(* A descriptor refers to a real file; only mergeable files are Redacted. *)
HandleType(h, files) ==
    /\ h \in HandleRec
    /\ h.fd <= files
    /\ h.tag \in {"File", "Redacted"} => h.fd # NoFile
    /\ h.tag = "Redacted" => h.kind \in {"Env", "Npmrc"}

HandlesType(hs, files) ==
    /\ hs = [next |-> hs.next, map |-> hs.map]
    /\ hs.next \in Nat \ {0}
    /\ hs.map = [fh \in DOMAIN hs.map |-> hs.map[fh]]
    /\ \A fh \in DOMAIN hs.map : fh \in 1..(hs.next - 1) /\ HandleType(hs.map[fh], files)

ViewRec ==
    [tag : {"Passthrough", "Redacted", "Key", "Failed"}, kind : Kinds \cup {"None"}, text : Text]

OpenOp ==
    [pc : {"open"}, ino : Nat, name : Names, wr : BOOLEAN, trunc : BOOLEAN, view : ViewRec]

SizeOp == [pc : {"setsize"}, name : Names, size : Nat]

MergeOp ==
    [pc : {"merge"}, fh : Nat, why : {"keep", "release"}, fd : Nat, kind : Kinds,
     written : Text, original : Text]

StoreOp ==
    [pc : {"truncate", "write"}, fh : Nat, why : {"keep", "release"}, fd : Nat, kind : Kinds,
     written : Text, original : Text, merged : Text, view : Text]

(* The handle a write-back is for stays open until its end, its buffer taken. *)
OpType ==
    \/ op = Idle
    \/ op \in SizeOp
    \/ op \in OpenOp /\ (op.view.tag = "Redacted" => op.view.kind \in {"Env", "Npmrc"})
    \/ /\ op \in MergeOp \cup StoreOp
       /\ op.fh \in DOMAIN handles.map
       /\ LET h == handles.map[op.fh]
          IN /\ h.tag = "Redacted" /\ h.fd = op.fd /\ h.kind = op.kind
             /\ ~h.pending.some

TypeOK ==
    /\ dir \in [Names -> 0..Len(data)]
    /\ data \in Seq(Text)
    /\ TableType(inodes, Names \cup {ROOT})
    /\ HandlesType(handles, Len(data))
    /\ OpType
    /\ reply.size \in Nat
    /\ missing \subseteq Names
    /\ host \in 0..MaxHost

(* The lines whose content a handler has to hide. *)
Hidden(kind, line) ==
    CASE kind = "Env"        -> line.t = "pair"
      [] kind = "Npmrc"      -> is_npmrc_secret(line)
      [] kind = "MitmYaml"   -> line.t = "pair" /\ line.k \in HeaderKeys
      [] kind = "PrivateKey" -> line.t = "body"
      [] OTHER               -> FALSE

(* The values the program can have learnt from anything but a secret file. *)
Known == {line.v : line \in Typed} \cup {PLACEHOLDER}

Safe(kind, text) ==
    \A i \in DOMAIN text : Hidden(kind, text[i]) => text[i].t = "pair" /\ text[i].v \in Known

HandleSafe(h) ==
    h.tag # "File" => Safe(h.kind, PendingOr(h.pending, h.served)) /\ Safe(h.kind, h.served)

(* fs.rs "never the raw bytes": whatever the program writes, whichever handle
   it writes through, whatever the host does to the file and whichever system
   call fails, what a handle with a redacted view serves, before and after
   each write-back, holds no hidden value that the program did not type
   itself. *)
NoSecretServed == \A fh \in DOMAIN handles.map : HandleSafe(handles.map[fh])

(* A step that ends persist. *)
EndsPersist == op.pc \in {"merge", "truncate", "write"} /\ op'.pc = "idle"

(* design.md "If parsing fails on either side ... on write, leaves the original
   file unmodified": a write-back answered by EIO ends with the file as persist
   found it.  For runs without host changes. *)
HandlerErrorKeepsOriginal ==
    [][EndsPersist /\ reply'.err = "EIO" => data'[op.fd] = op.original]_vars

(* The inode table stays consistent whatever is looked up, created, linked,
   unlinked and renamed. *)
TableConsistent == Consistent(inodes)

(* design.md "hand back a stable inode": the name of the inode a file was
   opened through, as long as the table still resolves that name to it, is a
   name of that very file, across renames, overwrites, unlinks and new files
   of the same name, until the host has changed something. *)
HandleFollowsInode ==
    host = 0 => \A fh \in DOMAIN handles.map :
        LET h == handles.map[fh]
        IN /\ h.fd # NoFile
           /\ HasPath(h.ino)
           /\ PathOf(h.ino) \in DOMAIN inodes.by_path
           /\ inodes.by_path[PathOf(h.ino)] = h.ino
           => dir[PathOf(h.ino)] = h.fd

-----------------------------------------------------------------------------
(* A statement of the documentation that the code does not meet. *)

(* design.md "never a corrupted original": a write-back that reports an error
   leaves the file as it found it. *)
ErrorKeepsOriginal ==
    [][EndsPersist /\ reply'.err # "ok" => data'[op.fd] = op.original]_vars
=============================================================================
