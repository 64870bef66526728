------------------------------- MODULE Buffer -------------------------------
(***************************************************************************)
(* Byte-buffer operations shared by the in-memory pending buffer of a      *)
(* redacted handle (Vec::resize, copy_from_slice) and by the real files    *)
(* (ftruncate, pwrite): both pad with NULs.  Offsets and sizes count lines.*)
(***************************************************************************)
EXTENDS Redact

(* Vec::resize(n, 0), ftruncate(fd, n) *)
resize(b, n) == [i \in 1..n |-> IF i <= Len(b) THEN b[i] ELSE Mark("zero")]

(* data copied over b at the 0-based offset off, b grown first if needed *)
write_at(b, off, data) ==
    LET end == off + Len(data)
        n == IF Len(b) < end THEN end ELSE Len(b)
    IN [i \in 1..n |-> IF i > off /\ i <= end THEN data[i - off]
                       ELSE IF i <= Len(b) THEN b[i] ELSE Mark("zero")]

(* Option<Vec<u8>> *)
Some(b) == [some |-> TRUE, buf |-> b]
None == [some |-> FALSE, buf |-> << >>]

(* pending.get_or_insert_with(|| served.clone()), pending.unwrap_or(served) *)
PendingOr(pending, served) == IF pending.some THEN pending.buf ELSE served
=============================================================================
