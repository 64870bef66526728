----------------------------- MODULE FileProofs -----------------------------
(***************************************************************************)
(* Proofs about what one access to a file goes through: the gate, which    *)
(* decides it, for any set of overlays, files and allowlist entries        *)
(* (GateState, and G with its steps); and SecretFile, which serves it, for *)
(* any keys, values, originals and edits.                                  *)
(***************************************************************************)
EXTENDS SecretFile, GateState, TLAPS, WellFoundedInduction

G == INSTANCE Gate

-----------------------------------------------------------------------------
(* The gate *)

(* Whoever is past the lock holds it, so nobody else is. *)
HolderInside == \A o \in Overlays : pc[o] \in {"check", "ask"} => lock = o

(* A file is asked about only while no decision covers it. *)
AskedIsOpen ==
    \A o \in Overlays : pc[o] = "ask" =>
        ~G!Covered(allowed, path[o]) /\ ~G!Covered(denied, path[o])

(* A file that was asked about is decided, or the question is on screen. *)
AskedIsDecided ==
    \A p \in Paths : prompts[p] # 0 =>
        /\ prompts[p] = 1
        /\ p \in allowed \cup denied \/ \E o \in Overlays : pc[o] = "ask" /\ path[o] = p

GateInv == G!TypeOK /\ HolderInside /\ AskedIsOpen /\ AskedIsDecided

LEMMA Granted == G!GateAssumption
  BY GateAssumption DEF G!GateAssumption, G!starts_with, starts_with

(* A path is a prefix of itself, so an entry covers the file it names. *)
LEMMA EntryCovers ==
    ASSUME G!GateAssumption, NEW entries, NEW p \in Paths, p \in entries
    PROVE  G!Covered(entries, p)
<1>1. p \in Seq(Components)
  BY G!GateAssumption
<1>2. Len(p) <= Len(p) /\ SubSeq(p, 1, Len(p)) = p
  BY <1>1
<1> QED
  BY <1>2 DEF G!Covered, G!starts_with

(* Approving or refusing one file decides no other file. *)
LEMMA EntryIsExact ==
    ASSUME G!GateAssumption, NEW entries, NEW p \in Paths, NEW q \in Paths, q # p
    PROVE  G!Covered(entries \cup {p}, q) <=> G!Covered(entries, q)
  BY G!GateAssumption DEF G!Covered

(* Type correctness: the tables hold paths and each thread is at one of the
   five points of allow. *)
LEMMA GateTypeCorrect ==
    ASSUME G!GateAssumption, G!TypeOK, [G!Next]_(G!vars)
    PROVE  G!TypeOK'
<1> USE G!GateAssumption DEF G!TypeOK
<1>1. ASSUME NEW o \in Overlays, NEW p \in Paths, G!Call(o, p) PROVE G!TypeOK'
  BY <1>1 DEF G!Call
<1>2. ASSUME NEW o \in Overlays, G!Lock(o) PROVE G!TypeOK'
  BY <1>2 DEF G!Lock
<1>3. ASSUME NEW o \in Overlays, G!Check(o) PROVE G!TypeOK'
  <2>1. /\ UNCHANGED <<allowed, denied, path, calls>>
        /\ lock' \in {lock, NoOverlay}
        /\ \E x \in {"ask", "done"} : pc' = [pc EXCEPT ![o] = x]
        /\ \/ UNCHANGED result
           \/ result' = [result EXCEPT ![o] = TRUE] \/ result' = [result EXCEPT ![o] = FALSE]
        /\ UNCHANGED prompts \/ prompts' = [prompts EXCEPT ![path[o]] = @ + 1]
    BY <1>3 DEF G!Check, G!Leave
  <2>2. prompts' \in [Paths -> Nat]
    <3>1. path[o] \in Paths /\ prompts \in [Paths -> Nat]
      OBVIOUS
    <3>2. prompts[path[o]] + 1 \in Nat
      BY <3>1
    <3> HIDE G!GateAssumption DEF G!TypeOK
    <3> QED
      BY <2>1, <3>1, <3>2
  <2>3. result' \in [Overlays -> BOOLEAN]
    BY <2>1, Zenon
  <2> QED
    BY <2>1, <2>2, <2>3
<1>4. ASSUME NEW o \in Overlays, NEW answer \in G!Answers, G!Answer(o, answer) PROVE G!TypeOK'
  <2>1. path[o] \in Seq(Components)
    OBVIOUS
  <2>2. G!Allows(answer) \in BOOLEAN
    BY DEF G!Allows
  <2> QED
    BY <1>4, <2>1, <2>2 DEF G!Answer, G!Leave
<1>5. ASSUME NEW o \in Overlays, G!Finish(o) PROVE G!TypeOK'
  BY <1>5 DEF G!Finish
<1>6. CASE UNCHANGED G!vars
  BY <1>6 DEF G!vars
<1> QED
  BY <1>1, <1>2, <1>3, <1>4, <1>5, <1>6 DEF G!Next

LEMMA GateInitInv ==
    ASSUME G!GateAssumption
    PROVE  G!Init => GateInv
  BY G!GateAssumption DEF G!Init, GateInv, G!TypeOK, HolderInside, AskedIsOpen, AskedIsDecided

(* The invariant is inductive: one step per action. *)
LEMMA GateNextInv ==
    ASSUME G!GateAssumption, GateInv, [G!Next]_(G!vars)
    PROVE  GateInv'
<1> USE DEF GateInv
<1>0. G!TypeOK /\ G!TypeOK'
  BY GateTypeCorrect
<1>1. ASSUME NEW o \in Overlays, NEW p \in Paths, G!Call(o, p) PROVE GateInv'
  BY <1>0, <1>1 DEF G!Call, G!TypeOK, HolderInside, AskedIsOpen, AskedIsDecided
<1>2. ASSUME NEW o \in Overlays, G!Lock(o) PROVE GateInv'
  <2>1. \A x \in Overlays : pc[x] \notin {"check", "ask"}
    BY <1>2, G!GateAssumption DEF G!Lock, HolderInside
  <2> QED
    BY <1>0, <1>2, <2>1 DEF G!Lock, G!TypeOK, HolderInside, AskedIsOpen, AskedIsDecided
<1>3. ASSUME NEW o \in Overlays, G!Check(o) PROVE GateInv'
  <2>0. lock = o /\ \A x \in Overlays : x # o => pc[x] \notin {"check", "ask"}
    BY <1>3 DEF G!Check, HolderInside
  <2>1. CASE G!Covered(allowed, path[o]) \/ G!Covered(denied, path[o])
    BY <1>0, <1>3, <2>0, <2>1
       DEF G!Check, G!Leave, G!TypeOK, HolderInside, AskedIsOpen, AskedIsDecided
  <2>2. CASE ~G!Covered(allowed, path[o]) /\ ~G!Covered(denied, path[o])
    <3>1. path[o] \in Paths /\ path[o] \notin allowed \cup denied
      BY <1>0, <2>2, EntryCovers DEF G!TypeOK
    <3>2. prompts[path[o]] = 0
      BY <1>0, <1>3, <2>0, <3>1 DEF G!Check, G!TypeOK, AskedIsDecided
    <3>3. /\ pc' = [pc EXCEPT ![o] = "ask"]
          /\ prompts' = [prompts EXCEPT ![path[o]] = @ + 1]
          /\ UNCHANGED <<lock, path, allowed, denied>>
      BY <1>3, <2>2 DEF G!Check
    <3>4. HolderInside' /\ AskedIsOpen'
      BY <1>0, <2>0, <2>2, <3>3 DEF G!TypeOK, HolderInside, AskedIsOpen
    <3>5. AskedIsDecided'
      BY <1>0, <1>3, <2>0, <3>1, <3>2, <3>3 DEF G!Check, G!TypeOK, AskedIsDecided
    <3> QED
      BY <1>0, <3>4, <3>5
  <2> QED
    BY <2>1, <2>2
<1>4. ASSUME NEW o \in Overlays, NEW answer \in G!Answers, G!Answer(o, answer) PROVE GateInv'
  <2>0. lock = o /\ \A x \in Overlays : x # o => pc[x] \notin {"check", "ask"}
    BY <1>4 DEF G!Answer, HolderInside
  <2>1. path[o] \in Paths /\ path[o] \in allowed' \cup denied'
    BY <1>0, <1>4 DEF G!Answer, G!TypeOK
  <2>2. allowed \subseteq allowed' /\ denied \subseteq denied'
    BY <1>4 DEF G!Answer
  <2>3. /\ pc' = [pc EXCEPT ![o] = "done"]
        /\ lock' = NoOverlay
        /\ UNCHANGED <<path, prompts>>
    BY <1>4 DEF G!Answer, G!Leave
  <2>4. HolderInside' /\ AskedIsOpen'
    BY <1>0, <2>0, <2>3 DEF G!TypeOK, HolderInside, AskedIsOpen
  <2>5. AskedIsDecided'
    BY <1>0, <2>0, <2>1, <2>2, <2>3 DEF G!TypeOK, AskedIsDecided
  <2> QED
    BY <1>0, <2>4, <2>5
<1>5. ASSUME NEW o \in Overlays, G!Finish(o) PROVE GateInv'
  BY <1>0, <1>5 DEF G!Finish, G!TypeOK, HolderInside, AskedIsOpen, AskedIsDecided
<1>6. CASE UNCHANGED G!vars
  BY <1>6 DEF G!vars, G!TypeOK, HolderInside, AskedIsOpen, AskedIsDecided, G!Covered
<1> QED
  BY <1>1, <1>2, <1>3, <1>4, <1>5, <1>6 DEF G!Next

LEMMA GateInvariance ==
    ASSUME G!GateAssumption
    PROVE  G!Spec => []GateInv
<1>1. G!Init => GateInv
  BY GateInitInv
<1>2. GateInv /\ [G!Next]_(G!vars) => GateInv'
  BY GateNextInv
<1> QED
  BY <1>1, <1>2, PTL DEF G!Spec

(* npm.rs allow holds the lock across the prompt: for any number of overlays,
   the user is asked about a file at most once in a run. *)
THEOREM GateDecidesOnce == G!Spec => []DecidedOnce
<1>1. ASSUME GateInv PROVE DecidedOnce
  <2>1. \A p \in Paths : prompts[p] = 0 \/ prompts[p] = 1
    BY <1>1 DEF GateInv, AskedIsDecided
  <2> QED
    BY <2>1 DEF DecidedOnce
<1>2. G!Spec => []GateInv
  BY Granted, GateInvariance
<1> QED
  BY <1>1, <1>2, PTL

(* At most one question is on the terminal. *)
THEOREM GateAsksOneQuestion == G!Spec => []OneQuestion
<1>1. GateInv => OneQuestion
  BY DEF GateInv, HolderInside, OneQuestion
<1>2. G!Spec => []GateInv
  BY Granted, GateInvariance
<1> QED
  BY <1>1, <1>2, PTL

(* What this state of the gate is in AtomicGate *)

Verdicts == [p \in Paths |-> G!Verdict(p)]
CallsOf == [o \in Overlays |-> G!CallOf(o)]

LEMMA VerdictsKept ==
    ASSUME UNCHANGED <<allowed, denied>>
    PROVE  Verdicts' = Verdicts
  BY DEF Verdicts, G!Verdict, G!Covered

(* A step of one thread changes the abstract call of that thread only. *)
LEMMA CallsMoved ==
    ASSUME G!TypeOK, NEW o \in Overlays, NEW x,
           pc' = [pc EXCEPT ![o] = x],
           \A q \in Overlays : q # o => path'[q] = path[q] /\ result'[q] = result[q]
    PROVE  CallsOf' = [CallsOf EXCEPT ![o] = G!CallOf(o)']
<1>1. \A q \in Overlays : q # o => G!CallOf(q)' = G!CallOf(q)
  BY DEF G!CallOf, G!TypeOK
<1> QED
  BY <1>1 DEF CallsOf

LEMMA GateRefinesInit == G!Init => G!AG!Init
<1> SUFFICES ASSUME G!Init PROVE G!AG!Init
  OBVIOUS
<1>1. \A p \in Paths : G!Verdict(p) \in {"ask", "yes"}
  BY DEF G!Init, G!Verdict, G!Covered
<1>2. \A o \in Overlays : G!CallOf(o) = G!AG!NoCall
  BY DEF G!Init, G!CallOf, G!AG!NoCall
<1> QED
  BY <1>1, <1>2 DEF G!AG!Init

(* Every step of the gate is a step of AtomicGate or changes nothing there: a
   file is decided by the Check that finds a decision or by the Answer. *)
LEMMA GateRefinesNext ==
    ASSUME G!GateAssumption, GateInv, [G!Next]_(G!vars)
    PROVE  [G!AG!Next]_(G!AG!vars)
<1> DEFINE Stutter == Verdicts' = Verdicts /\ CallsOf' = CallsOf
<1>0. G!TypeOK
  BY DEF GateInv
<1>a. Stutter => [G!AG!Next]_(G!AG!vars)
  BY DEF G!AG!vars, Verdicts, CallsOf
<1>b. ASSUME NEW o \in Overlays, NEW p \in Paths, NEW d \in {"yes", "no"},
             G!CallOf(o) = G!AG!Waiting(p),
             G!Verdict(p) = "ask" \/ G!Verdict(p) = d,
             Verdicts' = [Verdicts EXCEPT ![p] = d],
             CallsOf' = [CallsOf EXCEPT ![o] = G!AG!Returned(p, d)]
      PROVE  G!AG!Next
  BY <1>b DEF G!AG!Next, G!AG!Decide, Verdicts, CallsOf
<1>1. ASSUME NEW o \in Overlays, NEW p \in Paths, G!Call(o, p) PROVE G!AG!Next
  <2>1. G!CallOf(o) = G!AG!NoCall /\ G!CallOf(o)' = G!AG!Waiting(p)
    BY <1>0, <1>1 DEF G!Call, G!CallOf, G!AG!NoCall, G!AG!Waiting, G!TypeOK
  <2>2. CallsOf' = [CallsOf EXCEPT ![o] = G!AG!Waiting(p)]
    BY <1>0, <1>1, <2>1, CallsMoved DEF G!Call, G!TypeOK
  <2>3. Verdicts' = Verdicts
    BY <1>1, VerdictsKept DEF G!Call
  <2> QED
    BY <2>1, <2>2, <2>3 DEF G!AG!Next, G!AG!Ask, Verdicts, CallsOf
<1>2. ASSUME NEW o \in Overlays, G!Lock(o) PROVE Stutter
  <2>1. G!CallOf(o)' = G!CallOf(o)
    BY <1>0, <1>2 DEF G!Lock, G!CallOf, G!TypeOK
  <2>2. CallsOf' = CallsOf
    BY <1>0, <1>2, <2>1, CallsMoved DEF G!Lock, CallsOf
  <2> QED
    BY <1>2, <2>2, VerdictsKept DEF G!Lock
<1>3. ASSUME NEW o \in Overlays, G!Check(o) PROVE G!AG!Next \/ Stutter
  <2>1. Verdicts' = Verdicts
    BY <1>3, VerdictsKept DEF G!Check
  <2>2. G!CallOf(o) = G!AG!Waiting(path[o]) /\ path[o] \in Paths
    BY <1>0, <1>3 DEF G!Check, G!CallOf, G!AG!Waiting, G!TypeOK
  <2>3. CASE G!Covered(allowed, path[o])
    <3>1. G!Verdict(path[o]) = "yes"
      BY <2>3 DEF G!Verdict
    <3>2. G!CallOf(o)' = G!AG!Returned(path[o], "yes")
      BY <1>0, <1>3, <2>3 DEF G!Check, G!Leave, G!CallOf, G!AG!Returned, G!TypeOK
    <3>3. CallsOf' = [CallsOf EXCEPT ![o] = G!AG!Returned(path[o], "yes")]
      BY <1>0, <1>3, <2>3, <3>2, CallsMoved DEF G!Check, G!Leave, G!TypeOK
    <3>4. Verdicts' = [Verdicts EXCEPT ![path[o]] = "yes"]
      BY <2>1, <2>2, <3>1 DEF Verdicts
    <3> QED
      BY <1>b, <2>2, <3>1, <3>3, <3>4
  <2>4. CASE ~G!Covered(allowed, path[o]) /\ G!Covered(denied, path[o])
    <3>1. G!Verdict(path[o]) = "no"
      BY <2>4 DEF G!Verdict
    <3>2. G!CallOf(o)' = G!AG!Returned(path[o], "no")
      BY <1>0, <1>3, <2>4 DEF G!Check, G!Leave, G!CallOf, G!AG!Returned, G!TypeOK
    <3>3. CallsOf' = [CallsOf EXCEPT ![o] = G!AG!Returned(path[o], "no")]
      BY <1>0, <1>3, <2>4, <3>2, CallsMoved DEF G!Check, G!Leave, G!TypeOK
    <3>4. Verdicts' = [Verdicts EXCEPT ![path[o]] = "no"]
      BY <2>1, <2>2, <3>1 DEF Verdicts
    <3> QED
      BY <1>b, <2>2, <3>1, <3>3, <3>4
  <2>5. CASE ~G!Covered(allowed, path[o]) /\ ~G!Covered(denied, path[o])
    <3>1. /\ pc' = [pc EXCEPT ![o] = "ask"]
          /\ UNCHANGED <<path, result>>
      BY <1>3, <2>5 DEF G!Check
    <3>2. G!CallOf(o)' = G!CallOf(o)
      BY <1>0, <1>3, <3>1 DEF G!Check, G!CallOf, G!TypeOK
    <3>3. CallsOf' = CallsOf
      BY <1>0, <3>1, <3>2, CallsMoved DEF CallsOf
    <3> QED
      BY <2>1, <3>3
  <2> QED
    BY <2>3, <2>4, <2>5
<1>4. ASSUME NEW o \in Overlays, NEW answer \in G!Answers, G!Answer(o, answer) PROVE G!AG!Next
  <2> DEFINE p == path[o]
             d == IF G!Allows(answer) THEN "yes" ELSE "no"
  <2>1. G!CallOf(o) = G!AG!Waiting(p) /\ p \in Paths
    BY <1>0, <1>4 DEF G!Answer, G!CallOf, G!AG!Waiting, G!TypeOK
  <2>2. G!Verdict(p) = "ask" /\ ~G!Covered(allowed, p) /\ ~G!Covered(denied, p)
    BY <1>4 DEF GateInv, AskedIsOpen, G!Answer, G!Verdict
  <2>3. G!Allows(answer) \in BOOLEAN
    BY DEF G!Allows
  <2>4. G!CallOf(o)' = G!AG!Returned(p, d)
    BY <1>0, <1>4, <2>3 DEF G!Answer, G!Leave, G!CallOf, G!AG!Returned, G!TypeOK
  <2>5. CallsOf' = [CallsOf EXCEPT ![o] = G!AG!Returned(p, d)]
    BY <1>0, <1>4, <2>4, CallsMoved DEF G!Answer, G!Leave, G!TypeOK
  <2>6. \A q \in Paths : q # p => G!Verdict(q)' = G!Verdict(q)
    <3> SUFFICES ASSUME NEW q \in Paths, q # p PROVE G!Verdict(q)' = G!Verdict(q)
      OBVIOUS
    <3>1. G!Covered(allowed', q) <=> G!Covered(allowed, q)
      BY <1>4, <2>1, EntryIsExact DEF G!Answer
    <3>2. G!Covered(denied', q) <=> G!Covered(denied, q)
      BY <1>4, <2>1, EntryIsExact DEF G!Answer
    <3> QED
      BY <3>1, <3>2 DEF G!Verdict
  <2>7. G!Verdict(p)' = d
    <3>1. CASE G!Allows(answer)
      <4>1. p \in allowed'
        BY <1>4, <3>1 DEF G!Answer
      <4>2. G!Covered(allowed', p)
        BY <2>1, <4>1, EntryCovers
      <4>3. UNCHANGED path
        BY <1>4 DEF G!Answer, G!Leave
      <4> QED
        BY <3>1, <4>2, <4>3 DEF G!Verdict
    <3>2. CASE ~G!Allows(answer)
      <4>1. p \in denied' /\ allowed' = allowed
        BY <1>4, <3>2 DEF G!Answer
      <4>2. G!Covered(denied', p) /\ ~G!Covered(allowed', p)
        BY <2>1, <2>2, <4>1, EntryCovers
      <4>3. UNCHANGED path
        BY <1>4 DEF G!Answer, G!Leave
      <4> QED
        BY <3>2, <4>2, <4>3 DEF G!Verdict
    <3> QED
      BY <3>1, <3>2
  <2>8. Verdicts' = [Verdicts EXCEPT ![p] = d]
    BY <1>4, <2>6, <2>7 DEF Verdicts, G!Answer, G!Leave
  <2> QED
    BY <1>b, <2>1, <2>2, <2>5, <2>8
<1>5. ASSUME NEW o \in Overlays, G!Finish(o) PROVE G!AG!Next
  <2>1. G!CallOf(o).st = "returned" /\ G!CallOf(o)' = G!AG!NoCall
    BY <1>0, <1>5 DEF G!Finish, G!CallOf, G!AG!NoCall, G!TypeOK
  <2>2. CallsOf' = [CallsOf EXCEPT ![o] = G!AG!NoCall]
    BY <1>0, <1>5, <2>1, CallsMoved DEF G!Finish
  <2>3. Verdicts' = Verdicts
    BY <1>5, VerdictsKept DEF G!Finish
  <2> QED
    BY <2>1, <2>2, <2>3 DEF G!AG!Next, G!AG!Return, Verdicts, CallsOf
<1>6. ASSUME UNCHANGED G!vars PROVE Stutter
  BY <1>6 DEF G!vars, Verdicts, G!Verdict, G!Covered, CallsOf, G!CallOf
<1> QED
  BY <1>1, <1>2, <1>3, <1>4, <1>5, <1>6, <1>a DEF G!Next

(* AtomicGate as the gate's own module and as this one sees it are the same. *)
LEMMA SameGate ==
    /\ G!AG!Init => AG!Init
    /\ [G!AG!Next]_(G!AG!vars) => [AG!Next]_(AG!vars)
<1>1. \A p : G!Verdict(p) = Verdict(p)
  BY DEF G!Verdict, Verdict, G!Covered, Covered, G!starts_with, starts_with
<1>2. \A p : G!Verdict(p)' = Verdict(p)'
  BY DEF G!Verdict, Verdict, G!Covered, Covered, G!starts_with, starts_with
<1>3. (\A o : G!CallOf(o) = CallOf(o)) /\ \A o : G!CallOf(o)' = CallOf(o)'
  BY DEF G!CallOf, CallOf
<1>4. G!AG!Init => AG!Init
  BY <1>1, <1>3 DEF G!AG!Init, AG!Init, G!AG!NoCall, AG!NoCall
<1>5. G!AG!vars = AG!vars /\ G!AG!vars' = AG!vars'
  BY <1>1, <1>2, <1>3 DEF G!AG!vars, AG!vars
<1> DEFINE v == [p \in Paths |-> Verdict(p)]
           c == [o \in Overlays |-> CallOf(o)]
<1>6. /\ v = [p \in Paths |-> G!Verdict(p)] /\ v' = [p \in Paths |-> G!Verdict(p)']
      /\ c = [o \in Overlays |-> G!CallOf(o)] /\ c' = [o \in Overlays |-> G!CallOf(o)']
  BY <1>1, <1>2, <1>3
<1>7. ASSUME NEW o \in Overlays, NEW p \in Paths, G!AG!Ask(o, p) PROVE AG!Ask(o, p)
  <2>1. /\ c[o] = AG!NoCall /\ c' = [c EXCEPT ![o] = AG!Waiting(p)] /\ v' = v
    BY <1>6, <1>7, Zenon DEF G!AG!Ask, G!AG!NoCall, AG!NoCall, G!AG!Waiting, AG!Waiting
  <2> QED
    BY <2>1, Zenon DEF AG!Ask
<1>8. ASSUME NEW o \in Overlays, NEW p \in Paths, NEW d, G!AG!Decide(o, p, d) PROVE AG!Decide(o, p, d)
  <2>1. /\ c[o] = AG!Waiting(p) /\ (v[p] = "ask" \/ v[p] = d)
        /\ v' = [v EXCEPT ![p] = d] /\ c' = [c EXCEPT ![o] = AG!Returned(p, d)]
    BY <1>6, <1>8, Zenon DEF G!AG!Decide, G!AG!Waiting, AG!Waiting, G!AG!Returned, AG!Returned
  <2> QED
    BY <2>1, Zenon DEF AG!Decide
<1>9. ASSUME NEW o \in Overlays, G!AG!Return(o) PROVE AG!Return(o)
  <2>1. /\ c[o].st = "returned" /\ c' = [c EXCEPT ![o] = AG!NoCall] /\ v' = v
    BY <1>6, <1>9, Zenon DEF G!AG!Return, G!AG!NoCall, AG!NoCall
  <2> QED
    BY <2>1, Zenon DEF AG!Return
<1>10. G!AG!Next => AG!Next
  BY <1>7, <1>8, <1>9, Zenon DEF G!AG!Next, AG!Next
<1> QED
  BY <1>4, <1>5, <1>10

(* The lock and the cached entries together implement AtomicGate: every access
   to a file, through any overlay, gets the one decision made about it. *)
THEOREM GateImplementsAtomicGate == G!Spec => ImplementsAtomicGate
<1>1. GateInv /\ [G!Next]_(G!vars) => [AG!Next]_(AG!vars)
  BY Granted, GateRefinesNext, SameGate
<1>2. G!Spec => []GateInv
  BY Granted, GateInvariance
<1>3. G!Init => AG!Init
  BY GateRefinesInit, SameGate
<1> QED
  BY <1>1, <1>2, <1>3, PTL DEF G!Spec, ImplementsAtomicGate, AG!Spec

-----------------------------------------------------------------------------
(* Lines and texts *)

(* A set of line numbers that is not empty has a last one. *)
LEMMA LastExists ==
    ASSUME NEW n \in Nat, NEW idx \in SUBSET (1..n), idx # {}
    PROVE  LastIn(idx) \in idx /\ \A j \in idx : j <= LastIn(idx)
<1> DEFINE T == {n - i : i \in idx}
           R == OpToRel(<, Nat)
<1>1. T \in SUBSET Nat
  <2> HIDE DEF R
  <2> QED
    OBVIOUS
<1>2. T # {}
  <2> HIDE DEF R
  <2> QED
    OBVIOUS
<1> HIDE DEF T
<1>3. \E x \in T : \A y \in T : ~(<<y, x>> \in R)
  BY <1>1, <1>2, NatLessThanWellFounded, WFMin
<1>4. \A x, y \in Nat : y < x => <<y, x>> \in R
  BY DEF OpToRel
<1> HIDE DEF R
<1>5. PICK x \in T : \A y \in T : ~(<<y, x>> \in R)
  BY <1>3
<1>6. \A y \in T : ~(y < x)
  BY <1>1, <1>4, <1>5
<1>7. PICK i \in idx : x = n - i
  BY <1>5 DEF T
<1>8. \A j \in idx : j <= i
  <2> SUFFICES ASSUME NEW j \in idx PROVE j <= i
    OBVIOUS
  <2>1. n - j \in T
    BY DEF T
  <2>2. ~(n - j < n - i)
    BY <1>6, <1>7, <2>1
  <2> QED
    BY <2>2
<1> QED
  BY <1>8 DEF LastIn

LEMMA TextIsFunction ==
    ASSUME NEW b \in Text
    PROVE  /\ Len(b) \in Nat
           /\ DOMAIN b = 1..Len(b)
           /\ \A i \in 1..Len(b) : b[i] \in Line
  BY DEF Text

LEMMA LineCases ==
    ASSUME NEW line \in Line
    PROVE  \/ line.t = "pair" /\ line.k \in Keys /\ line.v \in Values
           \/ line.t \in Marks /\ line.t # "pair"
  BY DEF Line, Marks

LEMMA PairIsLine ==
    ASSUME NEW k \in Keys, NEW v \in Values
    PROVE  Pair(k, v) \in Line
  BY DEF Line, Pair

LEMMA MarkIsLine ==
    ASSUME NEW m \in Marks
    PROVE  Mark(m) \in Line
  BY DEF Line, Mark

(* A line whose key has a line in the original takes the value of the last. *)
LEMMA EnvResolvedType ==
    ASSUME NEW original \in Text, NEW line \in Line, line.t = "pair", parse_env(original).ok
    PROVE  env_resolved(original, line) \in Values
<1> DEFINE n == Len(original)
           src == EnvSources(original, line.k)
<1>1. n \in Nat /\ DOMAIN original = 1..n /\ \A i \in 1..n : original[i] \in Line
  BY TextIsFunction
<1>2. \A i \in 1..n : original[i].t = "pair"
  BY <1>1 DEF parse_env, Err
<1>3. src \in SUBSET (1..n)
  BY <1>1 DEF EnvSources
<1>4. src # {} => LastIn(src) \in 1..n
  BY <1>1, <1>3, LastExists
<1>5. src # {} => original[LastIn(src)].v \in Values
  BY <1>1, <1>2, <1>4, LineCases
<1>6. line.v \in Values
  BY LineCases
<1> QED
  BY <1>5, <1>6 DEF env_resolved

-----------------------------------------------------------------------------
(* The buffers *)

(* A property of lines that padding has is kept by both operations. *)
LEMMA EditedLines ==
    ASSUME NEW S, Mark("zero") \in S, NEW b \in Seq(S), NEW line \in S,
           NEW off \in Nat, NEW n \in Nat
    PROVE  resize(b, n) \in Seq(S) /\ write_at(b, off, <<line>>) \in Seq(S)
<1>1. Len(b) \in Nat /\ \A i \in 1..Len(b) : b[i] \in S
  OBVIOUS
<1>2. resize(b, n) \in [1..n -> S]
  BY <1>1 DEF resize
<1> DEFINE m == IF Len(b) < off + 1 THEN off + 1 ELSE Len(b)
<1>3. m \in Nat
  BY <1>1
<1>4. write_at(b, off, <<line>>) =
        [i \in 1..m |-> IF i > off /\ i <= off + 1 THEN <<line>>[i - off]
                        ELSE IF i <= Len(b) THEN b[i] ELSE Mark("zero")]
  BY DEF write_at
<1> HIDE DEF m
<1>5. \A i \in 1..m : i > off /\ i <= off + 1 => i - off = 1
  BY <1>3
<1>6. write_at(b, off, <<line>>) \in [1..m -> S]
  BY <1>1, <1>3, <1>4, <1>5
<1> QED
  BY <1>2, <1>3, <1>6

(* redact says Ok or Err, and nothing else. *)
LEMMA RedactOkOrErr ==
    ASSUME NEW knd, NEW b
    PROVE  redact(knd, b).ok => redact(knd, b) = Ok(redact(knd, b).text)
  BY DEF redact, redact_env, redact_npmrc, redact_mitm_yaml, Ok, Err

(* persist redacts the merge before it stores it. *)
LEMMA SavedReadable ==
    ASSUME NEW o, NEW w, saved(o, w).ok
    PROVE  /\ merge(kind, o, w).ok /\ saved(o, w).text = merge(kind, o, w).text
           /\ redact(kind, saved(o, w).text).ok
  BY DEF saved, Err

-----------------------------------------------------------------------------
(* redact.rs "never a corrupted original": a file that can be opened stays one
   that can be opened, for any number of editors and whatever they write. *)
THEOREM FileStaysReadable == Spec => StaysReadable
<1>1. [Next]_vars => [redact(kind, orig).ok => redact(kind, orig').ok]_vars
  <2> SUFFICES ASSUME Next, redact(kind, orig).ok PROVE redact(kind, orig').ok
    OBVIOUS
  <2>1. ASSUME NEW e \in Editors, NEW closing, Save(e, closing) PROVE redact(kind, orig').ok
    <3>1. orig' = IF saved(orig, eds[e].pending.buf).ok
                  THEN saved(orig, eds[e].pending.buf).text ELSE orig
      BY <2>1 DEF Save
    <3> QED
      BY <3>1, SavedReadable
  <2> QED
    BY <2>1 DEF Next, Open, Write, SetSize, Close
<1> QED
  BY <1>1, PTL DEF Spec, StaysReadable
-----------------------------------------------------------------------------
(* The editors *)

Shaped == eds = [e \in Editors |-> Editor(eds[e].open, eds[e].served, eds[e].pending)]

(* What a step makes of the editor that takes it; the others are left alone. *)
LEMMA EditorSteps ==
    ASSUME Shaped, NEW e \in Editors, NEW ed, Set(e, ed)
    PROVE  /\ DOMAIN eds' = Editors /\ eds'[e] = ed
           /\ \A d \in Editors : d # e => eds'[d] = eds[d]
           /\ ed = Editor(ed.open, ed.served, ed.pending) => Shaped'
<1>1. eds' = [eds EXCEPT ![e] = ed] /\ DOMAIN eds = Editors
  BY DEF Set, Shaped
<1>2. DOMAIN eds' = Editors /\ eds'[e] = ed /\ \A d \in Editors : d # e => eds'[d] = eds[d]
  BY <1>1
<1>3. \A d \in Editors : eds[d] = Editor(eds[d].open, eds[d].served, eds[d].pending)
  BY DEF Shaped
<1>4. eds' = [d \in Editors |-> eds'[d]]
  BY <1>1
<1>5. ASSUME ed = Editor(ed.open, ed.served, ed.pending) PROVE Shaped'
  <2>1. \A d \in Editors : eds'[d] = Editor(eds'[d].open, eds'[d].served, eds'[d].pending)
    BY <1>2, <1>3, <1>5
  <2> QED
    BY <1>4, <2>1 DEF Shaped
<1> QED
  BY <1>2, <1>5

LEMMA EditShape ==
    ASSUME Shaped, NEW e \in Editors, NEW p
    PROVE  [eds[e] EXCEPT !.pending = p] = Editor(eds[e].open, eds[e].served, p)
<1>1. eds[e] = Editor(eds[e].open, eds[e].served, eds[e].pending)
  BY DEF Shaped
<1> QED
  BY <1>1 DEF Editor

(* The steps, as what they do to one editor and the original *)
Opens(e, o) ==
    /\ ~eds[e].open /\ redact(kind, o).ok
    /\ \E p \in {None, Some(<< >>)} : Set(e, Editor(TRUE, redact(kind, o).text, p))

Edits(e) ==
    /\ eds[e].open
    /\ \/ \E off \in 0..MaxLen, line \in Typed :
             Set(e, Editor(TRUE, eds[e].served, Some(write_at(Edited(eds[e]), off, <<line>>))))
       \/ \E n \in 0..MaxLen : Set(e, Editor(TRUE, eds[e].served, Some(resize(Edited(eds[e]), n))))

Saves(e) ==
    /\ eds[e].open /\ eds[e].pending.some
    /\ LET s == saved(orig, eds[e].pending.buf)
       IN /\ orig' = IF s.ok THEN s.text ELSE orig
          /\ \/ Set(e, Closed)
             \/ s.ok /\ Set(e, Editor(TRUE, redact(kind, s.text).text, None))
             \/ ~s.ok /\ Set(e, Editor(TRUE, eds[e].served, None))

LEMMA StepCases ==
    ASSUME Shaped, Next, \A e \in Editors : eds[e].open \in BOOLEAN
    PROVE  /\ UNCHANGED kind
           /\ \E e \in Editors :
                 \/ UNCHANGED orig /\ Opens(e, orig)
                 \/ UNCHANGED orig /\ Edits(e)
                 \/ Saves(e)
                 \/ UNCHANGED orig /\ ~eds[e].pending.some /\ Set(e, Closed)
<1>1. PICK e \in Editors :
        \/ \E trunc \in BOOLEAN : Open(e, trunc)
        \/ \E off \in 0..MaxLen, line \in Typed : Write(e, off, line)
        \/ \E n \in 0..MaxLen : SetSize(e, n)
        \/ \E closing \in BOOLEAN : Save(e, closing)
        \/ Close(e)
  BY DEF Next
<1>2. ASSUME NEW trunc, Open(e, trunc) PROVE Opens(e, orig) /\ UNCHANGED <<kind, orig>>
  BY <1>2 DEF Open, Opens
<1>3. ASSUME NEW off \in 0..MaxLen, NEW line \in Typed, Write(e, off, line)
      PROVE  Edits(e) /\ UNCHANGED <<kind, orig>>
  BY <1>3, EditShape, ZenonT(60) DEF Write, Edits
<1>4. ASSUME NEW n \in 0..MaxLen, SetSize(e, n) PROVE Edits(e) /\ UNCHANGED <<kind, orig>>
  BY <1>4, EditShape DEF SetSize, Edits
<1>5. ASSUME NEW closing \in BOOLEAN, Save(e, closing) PROVE Saves(e) /\ UNCHANGED kind
  BY <1>5 DEF Save, Saves
<1> QED
  BY <1>1, <1>2, <1>3, <1>4, <1>5 DEF Close

-----------------------------------------------------------------------------
(* One editor sees the file. *)

Fresh ==
    /\ Shaped
    /\ \A e \in Editors : /\ eds[e].open \in BOOLEAN
                          /\ eds[e].open => redact(kind, orig) = Ok(eds[e].served)

(* fs.rs persist: with one handle at a time, the view it serves is at every
   moment the view a fresh open of the file would get, whatever was written and
   however many saves succeeded or failed. *)
THEOREM ServedViewFollowsFile ==
    ASSUME \A d, e \in Editors : d = e
    PROVE  Spec => []ViewFollowsFile
<1>1. Init => Fresh
  <2> SUFFICES ASSUME Init PROVE Fresh
    OBVIOUS
  <2>1. eds = [e \in Editors |-> Closed]
    BY DEF Init
  <2>2. Closed.open = FALSE /\ Closed = Editor(Closed.open, Closed.served, Closed.pending)
    BY DEF Closed, Editor
  <2> QED
    BY <2>1, <2>2 DEF Fresh, Shaped
<1>2. Fresh /\ [Next]_vars => Fresh'
  <2> SUFFICES ASSUME Fresh, [Next]_vars PROVE Fresh'
    OBVIOUS
  <2>1. CASE UNCHANGED vars
    BY <2>1 DEF vars, Fresh, Shaped
  <2>2. CASE Next
    <3>1. UNCHANGED kind
      BY <2>2, StepCases DEF Fresh
    <3>2. PICK e \in Editors :
             \/ UNCHANGED orig /\ Opens(e, orig)
             \/ UNCHANGED orig /\ Edits(e)
             \/ Saves(e)
             \/ UNCHANGED orig /\ ~eds[e].pending.some /\ Set(e, Closed)
      BY <2>2, StepCases DEF Fresh
    <3>3. ASSUME NEW ed, Set(e, ed), ed = Editor(ed.open, ed.served, ed.pending),
                 ed.open \in BOOLEAN, ed.open => redact(kind, orig') = Ok(ed.served)
          PROVE  Fresh'
      BY <3>1, <3>3, EditorSteps DEF Fresh
    <3>4. ASSUME NEW op, NEW sv, NEW p, Set(e, Editor(op, sv, p)), op \in BOOLEAN,
                 op => redact(kind, orig') = Ok(sv)
          PROVE  Fresh'
      <4>1. /\ Editor(op, sv, p).open = op /\ Editor(op, sv, p).served = sv
            /\ Editor(op, sv, p).pending = p
        BY DEF Editor
      <4> QED
        BY <3>3, <3>4, <4>1
    <3>5. CASE UNCHANGED orig /\ Opens(e, orig)
      BY <3>4, <3>5, RedactOkOrErr DEF Opens
    <3>6. CASE UNCHANGED orig /\ Edits(e)
      <4>1. redact(kind, orig') = Ok(eds[e].served)
        BY <3>6 DEF Edits, Fresh
      <4> QED
        BY <3>4, <3>6, <4>1 DEF Edits
    <3>7. CASE Saves(e)
      <4> DEFINE s == saved(orig, eds[e].pending.buf)
      <4>1. orig' = IF s.ok THEN s.text ELSE orig
        BY <3>7 DEF Saves
      <4>2. s.ok => redact(kind, orig') = Ok(redact(kind, s.text).text)
        BY <4>1, SavedReadable, RedactOkOrErr
      <4>3. ~s.ok => redact(kind, orig') = Ok(eds[e].served)
        BY <3>7, <4>1 DEF Saves, Fresh
      <4> QED
        BY <3>4, <3>7, <4>2, <4>3 DEF Saves, Closed
    <3>8. CASE Set(e, Closed)
      BY <3>4, <3>8 DEF Closed
    <3> QED
      BY <3>2, <3>5, <3>6, <3>7, <3>8
  <2> QED
    BY <2>1, <2>2
<1>3. Fresh => ViewFollowsFile
  BY DEF Fresh, ViewFollowsFile
<1> QED
  BY <1>1, <1>2, <1>3, PTL DEF Spec

-----------------------------------------------------------------------------
(* Values the program never saw *)

(* A reader finds the value in the last line of the key, if it has one. *)
LEMMA ReadsValue ==
    ASSUME NEW b \in Text, NEW k, LinesOf(b, k) # {}
    PROVE  /\ LastIn(LinesOf(b, k)) \in LinesOf(b, k)
           /\ Reads(b, k) = b[LastIn(LinesOf(b, k))].v
<1>1. Len(b) \in Nat /\ LinesOf(b, k) \in SUBSET (1..Len(b))
  BY TextIsFunction DEF LinesOf
<1>2. LastIn(LinesOf(b, k)) \in LinesOf(b, k)
  BY <1>1, LastExists
<1> QED
  BY <1>2 DEF Reads, LastIn

(* What .env's merge makes of a line: its key, with the resolved value if that *)
(* value survives being written and read back.                                *)
LEMMA EnvMerge ==
    ASSUME kind = "Env", NEW o \in Text, NEW w \in Text, saved(o, w).ok,
           NEW m, m = saved(o, w).text
    PROVE  /\ DOMAIN m = DOMAIN w /\ m \in Text
           /\ \A i \in DOMAIN o : o[i].t = "pair"
           /\ \A i \in DOMAIN w :
                /\ w[i].t = "pair" /\ m[i].t = "pair" /\ m[i].k = w[i].k
                /\ env_resolved(o, w[i]) \notin Altered => m[i].v = env_resolved(o, w[i])
<1>1. merge_env(o, w).ok /\ m = merge_env(o, w).text /\ redact_env(m).ok
  BY SavedReadable DEF merge, redact
<1>2. parse_env(o).ok /\ parse_env(w).ok /\ parse_env(m).ok
  BY <1>1 DEF merge_env, redact_env, Err
<1>3. /\ \A i \in DOMAIN o : o[i].t = "pair"
      /\ \A i \in DOMAIN w : w[i].t = "pair"
      /\ \A i \in DOMAIN m : m[i].t = "pair"
  BY <1>2 DEF parse_env, Err
<1>4. m = [i \in DOMAIN w |-> format_value(w[i].k, env_resolved(o, w[i]))]
  BY <1>1, <1>2 DEF merge_env, Ok
<1>5. DOMAIN m = DOMAIN w /\ \A i \in DOMAIN w : m[i] = format_value(w[i].k, env_resolved(o, w[i]))
  BY <1>4
<1>6. ASSUME NEW i \in DOMAIN w
      PROVE  /\ m[i] \in Line /\ m[i].k = w[i].k
             /\ env_resolved(o, w[i]) \notin Altered => m[i].v = env_resolved(o, w[i])
  <2> DEFINE v == env_resolved(o, w[i])
             read == IF v \in Unescaped THEN Reparsed[v] ELSE v
  <2>1. w[i] \in Line /\ w[i].k \in Keys
    BY <1>3, <1>6, TextIsFunction, LineCases
  <2>2. v \in Values
    BY <1>2, <1>3, <1>6, <2>1, EnvResolvedType
  <2>3. m[i] = IF read = NoValue THEN Mark("junk") ELSE Pair(w[i].k, read)
    BY <1>5, <1>6 DEF format_value
  <2>4. read # NoValue
    BY <1>3, <1>5, <1>6, <2>3 DEF Mark
  <2>5. read \in Values \cup {NoValue}
    BY <2>2, RedactAssumption
  <2>6. v \notin Altered => read = v
    BY <2>4 DEF Altered
  <2> HIDE DEF v, read
  <2>7. m[i] = Pair(w[i].k, read) /\ read \in Values
    BY <2>3, <2>4, <2>5
  <2>8. Pair(w[i].k, read).k = w[i].k /\ Pair(w[i].k, read).v = read
    BY DEF Pair
  <2> QED
    BY <2>1, <2>6, <2>7, <2>8, PairIsLine DEF v
<1>7. Len(w) \in Nat /\ DOMAIN w = 1..Len(w)
  BY TextIsFunction
<1>8. m \in [1..Len(w) -> Line]
  BY <1>4, <1>5, <1>6, <1>7
<1>9. m \in Text
  BY <1>7, <1>8 DEF Text
<1> QED
  BY <1>3, <1>5, <1>6, <1>9

(* A credential whose lines are all untouched keeps its value in .env ... *)
LEMMA EnvKeeps ==
    ASSUME kind = "Env", NEW o \in Text, NEW w \in Text, saved(o, w).ok,
           NEW k \in Keys, LinesOf(o, k) # {}, LinesOf(w, k) # {}, Reads(o, k) \notin Altered,
           \A i \in LinesOf(w, k) : w[i].v = PLACEHOLDER
    PROVE  /\ LinesOf(saved(o, w).text, k) # {}
           /\ Reads(saved(o, w).text, k) = Reads(o, k)
<1> DEFINE m == saved(o, w).text
<1>1. /\ DOMAIN m = DOMAIN w /\ \A i \in DOMAIN o : o[i].t = "pair"
      /\ \A i \in DOMAIN w :
           /\ w[i].t = "pair" /\ m[i].t = "pair" /\ m[i].k = w[i].k
           /\ env_resolved(o, w[i]) \notin Altered => m[i].v = env_resolved(o, w[i])
  BY EnvMerge
<1>2. m \in Text
  BY EnvMerge
<1> HIDE DEF m
<1>3. EnvSources(o, k) = LinesOf(o, k)
  BY <1>1 DEF EnvSources, LinesOf, IsSecret, SameKey
<1>4. \A i \in LinesOf(w, k) : m[i].v = Reads(o, k)
  <2> SUFFICES ASSUME NEW i \in LinesOf(w, k) PROVE m[i].v = Reads(o, k)
    OBVIOUS
  <2>1. i \in DOMAIN w /\ w[i].k = k /\ w[i].v = PLACEHOLDER
    BY DEF LinesOf, SameKey
  <2>2. env_resolved(o, w[i]) = o[LastIn(LinesOf(o, k))].v
    BY <1>3, <2>1 DEF env_resolved
  <2>3. env_resolved(o, w[i]) = Reads(o, k)
    BY <2>2, ReadsValue, TextIsFunction
  <2> QED
    BY <1>1, <2>1, <2>3
<1>5. LinesOf(m, k) = LinesOf(w, k)
  BY <1>1 DEF LinesOf, IsSecret, SameKey
<1>6. Reads(m, k) = Reads(o, k)
  <2>1. LastIn(LinesOf(m, k)) \in LinesOf(m, k) /\ Reads(m, k) = m[LastIn(LinesOf(m, k))].v
    BY <1>2, <1>5, ReadsValue, TextIsFunction
  <2> QED
    BY <1>4, <1>5, <2>1
<1> QED
  BY <1>5, <1>6 DEF m
(* What .npmrc's merge makes of them: only values change. *)
LEMMA NpmrcMerge ==
    ASSUME kind = "Npmrc", NEW o \in Text, NEW w \in Text, saved(o, w).ok,
           NEW m, m = saved(o, w).text
    PROVE  /\ DOMAIN m = DOMAIN w /\ m \in Text
           /\ \A i \in DOMAIN w : m[i] = npmrc_resolved(o, w[i])
           /\ \A i \in DOMAIN w : m[i].t = w[i].t /\ m[i].k = w[i].k
<1>1. merge_npmrc(o, w).ok /\ m = merge_npmrc(o, w).text
  BY SavedReadable DEF merge
<1>2. m = [i \in DOMAIN w |-> npmrc_resolved(o, w[i])]
  BY <1>1 DEF merge_npmrc, Ok, Err
<1>3. ASSUME NEW i \in DOMAIN w
      PROVE  /\ npmrc_resolved(o, w[i]) \in Line
             /\ npmrc_resolved(o, w[i]).t = w[i].t /\ npmrc_resolved(o, w[i]).k = w[i].k
  <2> DEFINE src == NpmrcSources(o, w[i].k)
             v == o[LastIn(src)].v
  <2>1. w[i] \in Line
    BY <1>3, TextIsFunction
  <2>2. CASE npmrc_resolved(o, w[i]) = w[i]
    BY <2>1, <2>2
  <2>3. CASE npmrc_resolved(o, w[i]) # w[i]
    <3>1. is_npmrc_secret(w[i]) /\ src # {} /\ npmrc_resolved(o, w[i]) = Pair(w[i].k, v)
      BY <2>3 DEF npmrc_resolved
    <3>2. src \in SUBSET (1..Len(o)) /\ Len(o) \in Nat /\ \A j \in src : o[j].t = "pair"
      BY TextIsFunction DEF NpmrcSources, is_npmrc_secret
    <3>3. LastIn(src) \in src
      BY <3>1, <3>2, LastExists
    <3>4. o[LastIn(src)] \in Line /\ o[LastIn(src)].t = "pair"
      BY <3>2, <3>3, TextIsFunction
    <3>5. v \in Values
      BY <3>4, LineCases
    <3>6. w[i].k \in Keys /\ w[i].t = "pair"
      BY <2>1, <3>1, LineCases DEF is_npmrc_secret
    <3>7. Pair(w[i].k, v).t = "pair" /\ Pair(w[i].k, v).k = w[i].k
      BY DEF Pair
    <3> HIDE DEF v, src
    <3> QED
      BY <3>1, <3>5, <3>6, <3>7, PairIsLine
  <2> QED
    BY <2>2, <2>3
<1>4. Len(w) \in Nat /\ DOMAIN w = 1..Len(w)
  BY TextIsFunction
<1>5. m \in [1..Len(w) -> Line]
  BY <1>2, <1>3, <1>4
<1> QED
  BY <1>2, <1>3, <1>4, <1>5 DEF Text

(* ... and in .npmrc, where keys match up to case and blanks. *)
LEMMA NpmrcKeeps ==
    ASSUME kind = "Npmrc", NEW o \in Text, NEW w \in Text, saved(o, w).ok,
           NEW k \in Keys, LinesOf(o, k) # {}, LinesOf(w, k) # {},
           \A i \in LinesOf(w, k) : w[i].v = PLACEHOLDER
    PROVE  /\ LinesOf(saved(o, w).text, k) # {}
           /\ Reads(saved(o, w).text, k) = Reads(o, k)
<1> DEFINE m == saved(o, w).text
<1>1. /\ DOMAIN m = DOMAIN w /\ m \in Text
      /\ \A i \in DOMAIN w : m[i] = npmrc_resolved(o, w[i])
      /\ \A i \in DOMAIN w : m[i].t = w[i].t /\ m[i].k = w[i].k
  BY NpmrcMerge
<1> HIDE DEF m
<1>2. LinesOf(m, k) = LinesOf(w, k)
  BY <1>1 DEF LinesOf, IsSecret, SameKey
<1>3. \A i \in LinesOf(w, k) : m[i].v = Reads(o, k)
  <2> SUFFICES ASSUME NEW i \in LinesOf(w, k) PROVE m[i].v = Reads(o, k)
    OBVIOUS
  <2>1. /\ i \in DOMAIN w /\ is_npmrc_secret(w[i]) /\ NormKey[w[i].k] = NormKey[k]
        /\ w[i].v = PLACEHOLDER
    BY DEF LinesOf, SameKey, IsSecret, is_npmrc_secret
  <2>2. NpmrcSources(o, w[i].k) = LinesOf(o, k)
    BY <2>1 DEF NpmrcSources, LinesOf, SameKey, IsSecret, is_npmrc_secret
  <2>3. m[i] = Pair(w[i].k, o[LastIn(LinesOf(o, k))].v)
    BY <1>1, <2>1, <2>2 DEF npmrc_resolved
  <2>4. o[LastIn(LinesOf(o, k))].v = Reads(o, k)
    BY ReadsValue, TextIsFunction
  <2> QED
    BY <2>3, <2>4 DEF Pair
<1>4. LastIn(LinesOf(m, k)) \in LinesOf(m, k) /\ Reads(m, k) = m[LastIn(LinesOf(m, k))].v
  BY <1>1, <1>2, ReadsValue, TextIsFunction
<1> QED
  BY <1>2, <1>3, <1>4 DEF m

(* What is served is a text. *)
LEMMA RedactedText ==
    ASSUME NEW b \in Text, kind \in {"Env", "Npmrc"}
    PROVE  redact(kind, b).text \in Text
<1>1. Len(b) \in Nat /\ DOMAIN b = 1..Len(b) /\ \A i \in 1..Len(b) : b[i] \in Line
  BY TextIsFunction
<1>2. << >> \in Text
  BY DEF Text
<1>3. \A i \in 1..Len(b) : b[i].t = "pair" => Pair(b[i].k, PLACEHOLDER) \in Line
  BY <1>1, LineCases, PairIsLine, RedactAssumption
<1>4. redact_env(b).text \in Text
  <2>1. CASE parse_env(b).ok
    <3>1. \A i \in 1..Len(b) : b[i].t = "pair"
      BY <1>1, <2>1 DEF parse_env, Err
    <3>2. [i \in 1..Len(b) |-> Pair(b[i].k, PLACEHOLDER)] \in [1..Len(b) -> Line]
      BY <1>3, <3>1
    <3>3. redact_env(b).text = [i \in 1..Len(b) |-> Pair(b[i].k, PLACEHOLDER)]
      BY <1>1, <2>1 DEF redact_env, Ok
    <3> QED
      BY <1>1, <3>2, <3>3 DEF Text
  <2>2. CASE ~parse_env(b).ok
    BY <1>2, <2>2 DEF redact_env, Err
  <2> QED
    BY <2>1, <2>2
<1>5. redact_npmrc(b).text \in Text
  <2>1. CASE Utf8(b)
    <3> DEFINE r == [i \in 1..Len(b) |-> IF is_npmrc_secret(b[i])
                                         THEN Pair(b[i].k, PLACEHOLDER) ELSE b[i]]
    <3>1. r \in [1..Len(b) -> Line]
      BY <1>1, <1>3 DEF is_npmrc_secret
    <3>2. redact_npmrc(b).text = r
      BY <1>1, <2>1 DEF redact_npmrc, Ok
    <3> HIDE DEF r
    <3> QED
      BY <1>1, <3>1, <3>2 DEF Text
  <2>2. CASE ~Utf8(b)
    BY <1>2, <2>2 DEF redact_npmrc, Err
  <2> QED
    BY <2>1, <2>2
<1> QED
  BY <1>4, <1>5 DEF redact
(* Everything around is a text, and a closed editor has nothing to save. *)
TextEditor(ed) ==
    /\ ed.open \in BOOLEAN /\ ed.served \in Text
    /\ ed.pending.some \in BOOLEAN /\ ed.pending.buf \in Text
    /\ ~ed.open => ~ed.pending.some

AllTexts ==
    /\ kind \in {"Env", "Npmrc"} /\ orig \in Text /\ Shaped
    /\ \A e \in Editors : TextEditor(eds[e])

LEMMA TextEditors ==
    ASSUME NEW sv \in Text, NEW b \in Text
    PROVE  /\ TextEditor(Editor(TRUE, sv, Some(b)))
           /\ TextEditor(Editor(TRUE, sv, None))
           /\ TextEditor(Closed)
<1>1. << >> \in Text
  BY DEF Text
<1> QED
  BY <1>1 DEF TextEditor, Closed, Editor, Some, None

LEMMA EditorFields ==
    ASSUME NEW open, NEW sv, NEW p
    PROVE  LET ed == Editor(open, sv, p) IN ed = Editor(ed.open, ed.served, ed.pending)
  BY DEF Editor

LEMMA SavedText ==
    ASSUME AllTexts, NEW w \in Text, saved(orig, w).ok
    PROVE  saved(orig, w).text \in Text
  BY EnvMerge, NpmrcMerge DEF AllTexts

LEMMA AllTextsStep ==
    ASSUME AllTexts, [Next]_vars
    PROVE  AllTexts'
<1>1. CASE UNCHANGED vars
  BY <1>1 DEF vars, AllTexts, Shaped
<1>2. CASE Next
  <2>1. \A d \in Editors : eds[d].open \in BOOLEAN
    BY DEF AllTexts, TextEditor
  <2>2. UNCHANGED kind
    BY <1>2, <2>1, StepCases DEF AllTexts
  <2>3. PICK e \in Editors :
           \/ UNCHANGED orig /\ Opens(e, orig)
           \/ UNCHANGED orig /\ Edits(e)
           \/ Saves(e)
           \/ UNCHANGED orig /\ ~eds[e].pending.some /\ Set(e, Closed)
    BY <1>2, <2>1, StepCases DEF AllTexts
  <2>4. /\ eds[e].served \in Text /\ eds[e].pending.buf \in Text
        /\ Edited(eds[e]) \in Text /\ << >> \in Text
    BY DEF AllTexts, TextEditor, Edited, PendingOr, Text
  <2>5. ASSUME NEW ed, Set(e, ed), TextEditor(ed), ed = Editor(ed.open, ed.served, ed.pending),
               orig' \in Text
        PROVE  AllTexts'
    <3>1. Shaped' /\ eds'[e] = ed /\ \A d \in Editors : d # e => eds'[d] = eds[d]
      BY <2>5, EditorSteps DEF AllTexts
    <3>2. \A d \in Editors : TextEditor(eds'[d])
      BY <2>5, <3>1 DEF AllTexts
    <3> QED
      BY <2>2, <2>5, <3>1, <3>2 DEF AllTexts
  <2>6. ASSUME NEW sv \in Text, NEW p, Set(e, Editor(TRUE, sv, p)), orig' \in Text,
               p = None \/ \E b \in Text : p = Some(b)
        PROVE  AllTexts'
    <3>1. TextEditor(Editor(TRUE, sv, p))
      BY <2>4, <2>6, TextEditors
    <3> QED
      BY <2>5, <2>6, <3>1, EditorFields
  <2>7. orig \in Text /\ kind \in {"Env", "Npmrc"}
    BY DEF AllTexts
  <2>8. CASE UNCHANGED orig /\ Opens(e, orig)
    <3>1. PICK p \in {None, Some(<< >>)} : Set(e, Editor(TRUE, redact(kind, orig).text, p))
      BY <2>8 DEF Opens
    <3>2. redact(kind, orig).text \in Text
      BY <2>7, RedactedText
    <3> QED
      BY <2>4, <2>6, <2>7, <2>8, <3>1, <3>2
  <2>9. CASE UNCHANGED orig /\ Edits(e)
    <3>1. PICK b : /\ Set(e, Editor(TRUE, eds[e].served, Some(b)))
                   /\ \/ \E off \in 0..MaxLen, line \in Typed :
                            b = write_at(Edited(eds[e]), off, <<line>>)
                      \/ \E n \in 0..MaxLen : b = resize(Edited(eds[e]), n)
      BY <2>9 DEF Edits
    <3>2. MaxLen \in Nat
      BY SecretFileAssumption
    <3>3. Mark("zero") \in Line
      BY MarkIsLine DEF Marks
    <3>4. b \in Text
      <4>1. ASSUME NEW off \in 0..MaxLen, NEW line \in Typed
            PROVE  write_at(Edited(eds[e]), off, <<line>>) \in Text
        <5>1. line \in Line /\ off \in Nat
          BY <3>2, <4>1, SecretFileAssumption
        <5> QED
          BY <2>4, <3>3, <5>1, EditedLines DEF Text
      <4>2. ASSUME NEW n \in 0..MaxLen
            PROVE  resize(Edited(eds[e]), n) \in Text
        <5>1. n \in Nat
          BY <3>2
        <5> QED
          BY <2>4, <3>3, <5>1, EditedLines DEF Text
      <4> QED
        BY <3>1, <4>1, <4>2
    <3> QED
      BY <2>4, <2>6, <2>7, <2>9, <3>1, <3>4
  <2>10. CASE Saves(e)
    <3> DEFINE s == saved(orig, eds[e].pending.buf)
    <3>1. s.ok => s.text \in Text /\ redact(kind, s.text).text \in Text
      BY <2>4, <2>7, SavedText, RedactedText
    <3>2. orig' \in Text
      BY <2>7, <2>10, <3>1 DEF Saves
    <3>3. \/ Set(e, Closed)
          \/ s.ok /\ Set(e, Editor(TRUE, redact(kind, s.text).text, None))
          \/ Set(e, Editor(TRUE, eds[e].served, None))
      BY <2>10 DEF Saves
    <3> HIDE DEF s
    <3>4. ASSUME Set(e, Closed) PROVE AllTexts'
      <4>1. TextEditor(Closed) /\ Closed = Editor(Closed.open, Closed.served, Closed.pending)
        BY <2>4, TextEditors, EditorFields DEF Closed
      <4> QED
        BY <2>5, <3>2, <3>4, <4>1
    <3> QED
      BY <2>4, <2>6, <3>1, <3>2, <3>3, <3>4
  <2>11. CASE UNCHANGED orig /\ Set(e, Closed)
    <3>1. TextEditor(Closed) /\ Closed = Editor(Closed.open, Closed.served, Closed.pending)
      BY <2>4, TextEditors, EditorFields DEF Closed
    <3> QED
      BY <2>5, <2>7, <2>11, <3>1
  <2> QED
    BY <2>3, <2>8, <2>9, <2>10, <2>11
<1> QED
  BY <1>1, <1>2

(* design.md "persist real changes without clobbering the values it never saw":
   a credential all of whose lines still hold the placeholder when an editor
   saves the file reads the same before and after, for any editors, keys, values,
   originals, duplicates and edits; in .env the value is one that format_value
   does not write as the text of another value. *)
THEOREM UnseenValuesAreKept == Spec => UnseenValuesSurvive
<1>1. Init => AllTexts
  <2> SUFFICES ASSUME Init PROVE AllTexts
    OBVIOUS
  <2>1. eds = [e \in Editors |-> Closed] /\ kind \in {"Env", "Npmrc"} /\ orig \in Text
    BY SecretFileAssumption DEF Init
  <2>2. Closed.open = FALSE /\ Closed.served = << >> /\ Closed.pending.some = FALSE
        /\ Closed.pending.buf = << >> /\ Closed = Editor(Closed.open, Closed.served, Closed.pending)
    BY DEF Closed, Editor, None
  <2>3. << >> \in Text
    BY DEF Text
  <2>4. TextEditor(Closed)
    BY <2>2, <2>3 DEF TextEditor
  <2> QED
    BY <2>1, <2>2, <2>4 DEF AllTexts, Shaped
<1>2. AllTexts /\ [Next]_vars => AllTexts'
  BY AllTextsStep
<1>3. AllTexts /\ [Next]_vars =>
        [ \A e \in Editors, k \in Keys :
            ( /\ SavesUnseen(e, k)
              /\ kind = "Env" => Reads(orig, k) \notin Altered )
            => Survives(k) ]_vars
  <2> SUFFICES ASSUME AllTexts, Next, NEW e \in Editors, NEW k \in Keys,
                      SavesUnseen(e, k), kind = "Env" => Reads(orig, k) \notin Altered
               PROVE  Survives(k)
    OBVIOUS
  <2>0. /\ eds[e].pending.some /\ ~eds'[e].pending.some
        /\ LinesOf(orig, k) # {} /\ LinesOf(eds[e].pending.buf, k) # {}
        /\ \A i \in LinesOf(eds[e].pending.buf, k) : eds[e].pending.buf[i].v = PLACEHOLDER
    BY DEF SavesUnseen
  <2>1. /\ eds[e].open /\ Shaped /\ eds[e].pending.buf \in Text /\ orig \in Text
        /\ \A d \in Editors : eds[d].open \in BOOLEAN
    BY <2>0 DEF AllTexts, TextEditor
  <2>2. CASE UNCHANGED orig
    <3>1. UNCHANGED kind
      BY <2>1, StepCases
    <3>2. LinesOf(orig', k) = LinesOf(orig, k) /\ Reads(orig', k) = Reads(orig, k)
      BY <2>2
    <3> QED
      BY <2>0, <3>2 DEF Survives
  <2>3. CASE ~UNCHANGED orig
    <3>1. PICK d \in Editors : Saves(d)
      BY <2>1, <2>3, StepCases
    <3>2. d = e
      <4>1. \E ed : Set(d, ed)
        BY <3>1 DEF Saves
      <4>2. d # e => eds'[e] = eds[e]
        BY <2>1, <4>1, EditorSteps
      <4> QED
        BY <2>0, <4>2
    <3> DEFINE w == eds[e].pending.buf
    <3>3. saved(orig, w).ok /\ orig' = saved(orig, w).text
      BY <2>3, <3>1, <3>2 DEF Saves
    <3> HIDE DEF w
    <3>4. w \in Text /\ LinesOf(w, k) # {} /\ \A i \in LinesOf(w, k) : w[i].v = PLACEHOLDER
      BY <2>0, <2>1 DEF w
    <3>5. CASE kind = "Env"
      BY <2>0, <2>1, <3>3, <3>4, <3>5, EnvKeeps DEF Survives
    <3>6. CASE kind = "Npmrc"
      BY <2>0, <2>1, <3>3, <3>4, <3>6, NpmrcKeeps DEF Survives
    <3> QED
      BY <3>5, <3>6 DEF AllTexts
  <2> QED
    BY <2>2, <2>3
<1> QED
  BY <1>1, <1>2, <1>3, PTL DEF Spec, UnseenValuesSurvive
=============================================================================
