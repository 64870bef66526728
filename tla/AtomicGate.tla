----------------------------- MODULE AtomicGate -----------------------------
(***************************************************************************)
(* What the directory gate promises the overlays: each file is decided     *)
(* once, whichever overlay serves it, and every access to it gets that     *)
(* decision (docs/design.md, "Both overlays share one gate instance").     *)
(***************************************************************************)
CONSTANTS
    Overlays,   \* the overlays that share the gate, one backend thread each
    Paths       \* the files asked about

VARIABLES
    verdict,    \* per file: "ask" until it is decided, then "yes" or "no"
    call        \* per overlay: the call in progress, or its result

vars == <<verdict, call>>

NoCall == [st |-> "none"]
Waiting(p) == [st |-> "waiting", path |-> p]
Returned(p, d) == [st |-> "returned", path |-> p, ok |-> d]

Init ==
    /\ verdict \in [Paths -> {"ask", "yes"}]
    /\ call = [o \in Overlays |-> NoCall]

Ask(o, p) ==
    /\ call[o] = NoCall
    /\ call' = [call EXCEPT ![o] = Waiting(p)]
    /\ UNCHANGED verdict

Decide(o, p, d) ==
    /\ call[o] = Waiting(p)
    /\ verdict[p] = "ask" \/ verdict[p] = d
    /\ verdict' = [verdict EXCEPT ![p] = d]
    /\ call' = [call EXCEPT ![o] = Returned(p, d)]

Return(o) ==
    /\ call[o].st = "returned"
    /\ call' = [call EXCEPT ![o] = NoCall]
    /\ UNCHANGED verdict

Next ==
    \E o \in Overlays :
        \/ \E p \in Paths : Ask(o, p) \/ \E d \in {"yes", "no"} : Decide(o, p, d)
        \/ Return(o)

Spec == Init /\ [][Next]_vars
=============================================================================
