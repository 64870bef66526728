-------------------------------- MODULE Gate --------------------------------
(***************************************************************************)
(* The interactive file-access gate of src/profiles/npm.rs, shared by the  *)
(* overlays of a run.  Each overlay's backend thread calls allow for every *)
(* open and create it serves; the first call for an uncovered file asks    *)
(* the user on the terminal while it holds the gate's lock.  The kind of   *)
(* access only words the prompt and is left out.                           *)
(***************************************************************************)
EXTENDS GateState

vars == <<allowed, denied, lock, pc, path, result, calls, prompts>>

Init ==
    /\ allowed = Preapproved
    /\ denied = {}
    /\ lock = NoOverlay
    /\ pc = [o \in Overlays |-> "out"]
    /\ path \in [Overlays -> Paths]
    /\ result = [o \in Overlays |-> FALSE]
    /\ calls = [o \in Overlays |-> 0]
    /\ prompts = [p \in Paths |-> 0]

(* gate_allows: an open or a create reaches the gate. *)
Call(o, p) ==
    /\ pc[o] = "out"
    /\ calls[o] < MaxCalls
    /\ calls' = [calls EXCEPT ![o] = @ + 1]
    /\ path' = [path EXCEPT ![o] = p]
    /\ pc' = [pc EXCEPT ![o] = "lock"]
    /\ UNCHANGED <<allowed, denied, lock, result, prompts>>

(* Mutant of Lock: every thread gets in. *)
Lock_unguarded(o) ==
    /\ pc[o] = "lock"
    /\ lock' = o
    /\ pc' = [pc EXCEPT ![o] = "check"]
    /\ UNCHANGED <<allowed, denied, path, result, calls, prompts>>

(* self.state.lock() *)
Lock(o) ==
    /\ pc[o] = "lock"
    /\ lock = NoOverlay
    /\ lock' = o
    /\ pc' = [pc EXCEPT ![o] = "check"]
    /\ UNCHANGED <<allowed, denied, path, result, calls, prompts>>

(* The end of allow: the lock guard is dropped. *)
Leave(o, decision) ==
    /\ result' = [result EXCEPT ![o] = decision]
    /\ pc' = [pc EXCEPT ![o] = "done"]
    /\ lock' = NoOverlay
    /\ UNCHANGED <<path, calls>>

(* Mutant of Check: a prompt is made without looking at past refusals. *)
Check_allowlist(o) ==
    /\ pc[o] = "check"
    /\ \/ /\ Covered(allowed, path[o])
          /\ Leave(o, TRUE) /\ UNCHANGED prompts
       \/ /\ ~Covered(allowed, path[o])
          /\ pc' = [pc EXCEPT ![o] = "ask"]
          /\ prompts' = [prompts EXCEPT ![path[o]] = @ + 1]
          /\ UNCHANGED <<lock, path, result, calls>>
    /\ UNCHANGED <<allowed, denied>>

(* The cached decisions, and if none covers the file, the prompt. *)
Check(o) ==
    /\ pc[o] = "check"
    /\ \/ /\ Covered(allowed, path[o])
          /\ Leave(o, TRUE) /\ UNCHANGED prompts
       \/ /\ ~Covered(allowed, path[o]) /\ Covered(denied, path[o])
          /\ Leave(o, FALSE) /\ UNCHANGED prompts
       \/ /\ ~Covered(allowed, path[o]) /\ ~Covered(denied, path[o])
          /\ pc' = [pc EXCEPT ![o] = "ask"]
          /\ prompts' = [prompts EXCEPT ![path[o]] = @ + 1]
          /\ UNCHANGED <<lock, path, result, calls>>
    /\ UNCHANGED <<allowed, denied>>

(* prompt_tty: only an answer that begins with y or Y allows; any failure    *)
(* to ask or to read the answer refuses.                                     *)
Allows(answer) == answer = "y"

(* Mutant of Answer: a refusal is not remembered. *)
Answer_forgetful(o, answer) ==
    /\ pc[o] = "ask"
    /\ allowed' = IF Allows(answer) THEN allowed \cup {path[o]} ELSE allowed
    /\ Leave(o, Allows(answer))
    /\ UNCHANGED <<denied, prompts>>

(* Mutant of Answer: the lock is not given back after a failed prompt. *)
Answer_stuck(o, answer) ==
    /\ pc[o] = "ask" /\ answer # "error"
    /\ allowed' = IF Allows(answer) THEN allowed \cup {path[o]} ELSE allowed
    /\ denied' = IF Allows(answer) THEN denied ELSE denied \cup {path[o]}
    /\ result' = [result EXCEPT ![o] = Allows(answer)]
    /\ pc' = [pc EXCEPT ![o] = "done"]
    /\ lock' = IF Allows(answer) THEN NoOverlay ELSE o
    /\ UNCHANGED <<path, calls, prompts>>

Answer(o, answer) ==
    /\ pc[o] = "ask"
    /\ allowed' = IF Allows(answer) THEN allowed \cup {path[o]} ELSE allowed
    /\ denied' = IF Allows(answer) THEN denied ELSE denied \cup {path[o]}
    /\ Leave(o, Allows(answer))
    /\ UNCHANGED prompts

(* The overlay answers the request: EACCES, or it goes on with the open. *)
Finish(o) ==
    /\ pc[o] = "done"
    /\ pc' = [pc EXCEPT ![o] = "out"]
    /\ UNCHANGED <<allowed, denied, lock, path, result, calls, prompts>>

Answers == {"y", "other", "error"}

Next ==
    \E o \in Overlays :
        \/ \E p \in Paths : Call(o, p)
        \/ Lock(o)
        \/ Check(o)
        \/ \E answer \in Answers : Answer(o, answer)
        \/ Finish(o)

(* A thread that can go on does; the user answers every prompt, if only by   *)
(* closing the terminal.                                                     *)
Fairness ==
    \A o \in Overlays :
        /\ WF_vars(Lock(o))
        /\ WF_vars(Check(o))
        /\ WF_vars(\E answer \in Answers : Answer(o, answer))
        /\ WF_vars(Finish(o))

Spec == Init /\ [][Next]_vars
FairSpec == Spec /\ Fairness

-----------------------------------------------------------------------------
(* Properties *)

TypeOK ==
    /\ allowed \subseteq Seq(Components)
    /\ denied \subseteq Seq(Components)
    /\ lock \in Overlays \cup {NoOverlay}
    /\ pc \in [Overlays -> {"out", "lock", "check", "ask", "done"}]
    /\ path \in [Overlays -> Paths]
    /\ result \in [Overlays -> BOOLEAN]
    /\ calls \in [Overlays -> Nat]
    /\ prompts \in [Paths -> Nat]

(* Every call returns, although all overlays wait for one prompt. *)
CallsReturn == \A o \in Overlays : pc[o] = "lock" ~> pc[o] = "done"
=============================================================================
