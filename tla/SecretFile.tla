----------------------------- MODULE SecretFile -----------------------------
(***************************************************************************)
(* What airgap promises for one mergeable secret file (`.env`, `.npmrc`)   *)
(* edited through several handles: each editor reads and edits a redacted  *)
(* view of its own, and closing the file either replaces the original by   *)
(* the merge of the two in one step or reports an error and leaves the     *)
(* original alone.  Overlay implements this with several system calls per  *)
(* step.                                                                   *)
(***************************************************************************)
EXTENDS Buffer

CONSTANTS
    Editors,    \* the handles there may be
    Originals,  \* the texts the original may start with
    Typed,      \* the lines the program may write
    MaxLen      \* bound on the length of the edited buffer

ASSUME SecretFileAssumption ==
    /\ Originals \subseteq Text
    /\ Typed \subseteq Line
    /\ MaxLen \in Nat

VARIABLES
    kind,     \* the handler the name of the file selects
    orig,     \* the original file
    eds       \* of each editor: whether it has the file open; the redacted
              \* view taken at open or at its last save; the edited view, if
              \* it has written to it

vars == <<kind, orig, eds>>

Editor(open, served, pending) == [open |-> open, served |-> served, pending |-> pending]
Closed == Editor(FALSE, << >>, None)

Init ==
    /\ kind \in {"Env", "Npmrc"}
    /\ orig \in Originals
    /\ eds = [e \in Editors |-> Closed]

Set(e, ed) == eds' = [eds EXCEPT ![e] = ed]

(* open: a text the handler cannot redact is not opened (fs.rs View::Failed). *)
Open(e, trunc) ==
    /\ ~eds[e].open
    /\ redact(kind, orig).ok
    /\ Set(e, Editor(TRUE, redact(kind, orig).text, IF trunc THEN Some(<< >>) ELSE None))
    /\ UNCHANGED <<kind, orig>>

Edited(ed) == PendingOr(ed.pending, ed.served)

Write(e, off, line) ==
    /\ eds[e].open
    /\ off < MaxLen
    /\ Set(e, [eds[e] EXCEPT !.pending = Some(write_at(Edited(eds[e]), off, <<line>>))])
    /\ UNCHANGED <<kind, orig>>

SetSize(e, n) ==
    /\ eds[e].open
    /\ Set(e, [eds[e] EXCEPT !.pending = Some(resize(Edited(eds[e]), n))])
    /\ UNCHANGED <<kind, orig>>

(* Mutant of saved: the merge is stored without being redacted first. *)
saved_unchecked(original, written) == merge(kind, original, written)

(* What persist stores: nothing if either side is malformed, or if the       *)
(* merged text could not be redacted again.                                  *)
saved(original, written) ==
    LET merged == merge(kind, original, written)
    IN IF merged.ok /\ redact(kind, merged.text).ok THEN merged ELSE Err

(* Mutant of Save: the view taken at open is served after the save too. *)
Save_stale(e, closing) ==
    /\ eds[e].open /\ eds[e].pending.some
    /\ LET s == saved(orig, eds[e].pending.buf)
       IN /\ orig' = IF s.ok THEN s.text ELSE orig
          /\ Set(e, IF closing THEN Closed ELSE Editor(TRUE, eds[e].served, None))
    /\ UNCHANGED kind

(* flush and fsync keep the file open; release saves what flush has not. *)
Save(e, closing) ==
    /\ eds[e].open
    /\ eds[e].pending.some
    /\ LET s == saved(orig, eds[e].pending.buf)
           view == IF s.ok THEN redact(kind, s.text).text ELSE eds[e].served
       IN /\ orig' = IF s.ok THEN s.text ELSE orig
          /\ Set(e, IF closing THEN Closed ELSE Editor(TRUE, view, None))
    /\ UNCHANGED kind

Close(e) ==
    /\ eds[e].open
    /\ ~eds[e].pending.some
    /\ Set(e, Closed)
    /\ UNCHANGED <<kind, orig>>

Next ==
    \E e \in Editors :
        \/ \E trunc \in BOOLEAN : Open(e, trunc)
        \/ \E off \in 0..MaxLen, line \in Typed : Write(e, off, line)
        \/ \E n \in 0..MaxLen : SetSize(e, n)
        \/ \E closing \in BOOLEAN : Save(e, closing)
        \/ Close(e)

Spec == Init /\ [][Next]_vars

-----------------------------------------------------------------------------
(* Properties *)

(* Lines that hold a value the handler must hide. *)
IsSecret(line) ==
    line.t = "pair" /\ (kind = "Npmrc" => line.k \in SecretKeys)

(* Same credential, as the merge matches it. *)
SameKey(k1, k2) == IF kind = "Env" THEN k1 = k2 ELSE NormKey[k1] = NormKey[k2]

LinesOf(b, k) == {i \in DOMAIN b : IsSecret(b[i]) /\ SameKey(b[i].k, k)}

(* The value a reader that lets the last line win finds for k. *)
Reads(b, k) == b[CHOOSE i \in LinesOf(b, k) : \A j \in LinesOf(b, k) : j <= i].v

(* The step is the save of a buffer of e in which every line of the credential
   k still holds the placeholder. *)
SavesUnseen(e, k) ==
    LET pending == eds[e].pending
    IN /\ pending.some /\ ~eds'[e].pending.some
       /\ LinesOf(orig, k) # {} /\ LinesOf(pending.buf, k) # {}
       /\ \A i \in LinesOf(pending.buf, k) : pending.buf[i].v = PLACEHOLDER

Survives(k) == LinesOf(orig', k) # {} /\ Reads(orig', k) = Reads(orig, k)

(* The values that a line of .env holding them unescaped turns into others. *)
Altered == {v \in Unescaped : Reparsed[v] \notin {v, NoValue}}

(* design.md: "persist real changes without clobbering the values it never
   saw".  A credential all of whose lines still hold the placeholder when an
   editor saves the file reads the same before and after, however many saves,
   edits, duplicates and failed saves there were, and whatever values the
   other lines of the file have.  Only a value of .env that format_value writes
   as the text of another value is not covered (EveryValueSurvives); one that it
   writes as a malformed line is: that save is refused. *)
UnseenValuesSurvive ==
    [][ \A e \in Editors, k \in Keys :
          ( /\ SavesUnseen(e, k)
            /\ kind = "Env" => Reads(orig, k) \notin Altered )
          => Survives(k) ]_vars

(* redact.rs:119, format_value: "quoting when needed so the line round-trips",
   and so no value at all is changed by a save that leaves it alone.  This does
   not hold: `$` and a bare `\` are written unescaped. *)
EveryValueSurvives ==
    [][ \A e \in Editors, k \in Keys : SavesUnseen(e, k) => Survives(k) ]_vars

(* fs.rs persist: the view a lone editor keeps being served after a save is the
   view a fresh open of the file would get, line for line what the program
   wrote except for the values. *)
ViewFollowsFile ==
    \A e \in Editors :
        eds[e].open /\ (\A d \in Editors \ {e} : ~eds[d].open)
          => redact(kind, orig) = Ok(eds[e].served)

(* redact.rs "never a corrupted original": the program cannot, by any edits,
   turn a file that can be opened into one that no later open can redact. *)
StaysReadable == [][redact(kind, orig).ok => redact(kind, orig').ok]_vars
=============================================================================
