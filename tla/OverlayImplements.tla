-------------------------- MODULE OverlayImplements --------------------------
(***************************************************************************)
(* Overlay implements SecretFile: seen through the handles on one          *)
(* mergeable file, and as long as no host process and no failing disk      *)
(* interferes, the several system calls of open and persist amount to the  *)
(* atomic steps of SecretFile.                                             *)
(***************************************************************************)
EXTENDS Overlay

CONSTANT Secret   \* the name of the file; it is mounted first, as file 1

ASSUME ImplementsAssumption ==
    /\ Secret \in Names /\ Mounted # << >> /\ Mounted[1] = Secret
    /\ ByName[Secret] \in {"Env", "Npmrc"}

Kind == ByName[Secret]

(* The handle fh of the table hs is open on file 1. *)
MineIn(hs, fh) ==
    fh \in DOMAIN hs.map /\ hs.map[fh].tag = "Redacted" /\ hs.map[fh].fd = 1

(* The request o is a write-back to file 1. *)
SavingIn(o) == o.pc \in {"merge", "truncate", "write"} /\ o.fd = 1

Ed(open, served, pending) == [open |-> open, served |-> served, pending |-> pending]
ClosedEd == Ed(FALSE, << >>, None)

(* A buffer taken by persist still counts as pending. *)
EdIn(hs, o, fh) ==
    IF MineIn(hs, fh)
    THEN Ed(TRUE, hs.map[fh].served,
            IF SavingIn(o) /\ o.fh = fh THEN Some(o.written) ELSE hs.map[fh].pending)
    ELSE ClosedEd

Eds == [fh \in 1..MaxFh |-> EdIn(handles, op, fh)]

(* Between ftruncate and the end of the write, the file still counts as what *)
(* it was.                                                                   *)
Orig == IF SavingIn(op) /\ op.pc = "write" THEN op.original ELSE data[1]

SF == INSTANCE SecretFile WITH
        kind <- Kind, Editors <- 1..MaxFh, Originals <- HostTexts[Secret],
        orig <- Orig, eds <- Eds

(* fs.rs open and persist together behave as editors with an atomic save that
   either stores the merge with what the file then holds or changes nothing,
   whichever handles are flushed and released in which order. *)
ImplementsSecretFile == SF!Spec
=============================================================================
