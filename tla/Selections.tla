----------------------------- MODULE Selections -----------------------------
(***************************************************************************)
(* What a Python list comprehension with a condition makes of a list: the  *)
(* elements at some of its places, in their order.  Written over sets of   *)
(* places, and not with SelectSeq, so that it can be reasoned about.       *)
(***************************************************************************)
EXTENDS Integers, Sequences, FiniteSets

\* The position of place i among the places I.
Position(I, i) == Cardinality({j \in I : j <= i})

Selected(s, I) ==
    [k \in 1..Cardinality(I) |-> s[CHOOSE i \in I : Position(I, i) = k]]
=============================================================================
