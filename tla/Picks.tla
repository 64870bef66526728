------------------------------- MODULE Picks -------------------------------
(***************************************************************************)
(* The elements of a sequence at some of its places, in their order: what  *)
(* retain, filter and a loop that removes elements leave of a vector.      *)
(* Places are counted and not walked, so that the definitions can be       *)
(* reasoned about.                                                         *)
(***************************************************************************)
EXTENDS Naturals, Sequences, FiniteSets

(* The k-th of a set of numbers *)
Nth(I, k) == CHOOSE x \in I : Cardinality({y \in I : y <= x}) = k

(* The elements of s at the places I *)
Pick(s, I) == [k \in 1..Cardinality(I) |-> s[Nth(I, k)]]

(* The elements of s that pass the test *)
Select(s, Test(_)) == Pick(s, {i \in DOMAIN s : Test(s[i])})
=============================================================================
