----------------------------- MODULE GateState -----------------------------
(***************************************************************************)
(* The state of the interactive file-access gate of src/profiles/npm.rs    *)
(* and of the backend threads that call it, and what the gate promises of  *)
(* this state.  Gate has its steps.                                        *)
(***************************************************************************)
EXTENDS Naturals, Sequences

CONSTANTS
    Overlays,     \* the overlays that share the gate, one backend thread each
    Components,   \* names that paths are made of
    Paths,        \* the files accessed: absolute paths, as sequences of names
    Preapproved,  \* the allowlist the gate is seeded with: files and directories
    NoOverlay,    \* the lock is free
    MaxCalls      \* bound: calls made by each overlay

(* Path::starts_with, by components *)
starts_with(path, prefix) ==
    Len(prefix) <= Len(path) /\ SubSeq(path, 1, Len(prefix)) = prefix

(* The files accessed during a run are files throughout: none becomes a      *)
(* directory above another.                                                  *)
ASSUME GateAssumption ==
    /\ Paths \subseteq Seq(Components)
    /\ Preapproved \subseteq Seq(Components)
    /\ \A p, q \in Paths : starts_with(p, q) => p = q
    /\ NoOverlay \notin Overlays
    /\ MaxCalls \in Nat

VARIABLES
    allowed,   \* GateState.allowed; its order only words a debug message
    denied,    \* GateState.denied
    lock,      \* who holds the mutex around GateState
    pc,        \* where each backend thread is in allow
    path,      \* the file its current call is about
    result,    \* what its last call returned
    calls,     \* calls each thread has made
    prompts    \* how often the user was asked about each file

Covered(entries, p) == \E q \in entries : starts_with(p, q)

-----------------------------------------------------------------------------
(* Properties *)

(* design.md "a file is decided once regardless of which overlay serves it":
   the user is asked about a file at most once, however the calls of the
   overlays interleave. *)
DecidedOnce == \A p \in Paths : prompts[p] <= 1

(* "so concurrent requests don't interleave questions": one question is on
   the terminal at a time. *)
OneQuestion == \A o1, o2 \in Overlays : pc[o1] = "ask" /\ pc[o2] = "ask" => o1 = o2

(* The state of AtomicGate this state stands for. *)
Verdict(p) == IF Covered(allowed, p) THEN "yes"
              ELSE IF Covered(denied, p) THEN "no" ELSE "ask"

CallOf(o) ==
    IF pc[o] = "out" THEN [st |-> "none"]
    ELSE IF pc[o] = "done"
         THEN [st |-> "returned", path |-> path[o], ok |-> IF result[o] THEN "yes" ELSE "no"]
         ELSE [st |-> "waiting", path |-> path[o]]

AG == INSTANCE AtomicGate WITH
        verdict <- [p \in Paths |-> Verdict(p)],
        call <- [o \in Overlays |-> CallOf(o)]

(* Every access to a file gets the one decision made about it. *)
ImplementsAtomicGate == AG!Spec
=============================================================================
