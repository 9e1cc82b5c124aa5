------------------------------- MODULE Sorted -------------------------------
(***************************************************************************)
(* A finite set of integers as a sequence.                                 *)
(***************************************************************************)
EXTENDS Integers, FiniteSets

\* The members of a set in ascending order.
Sorted(S) ==
  CHOOSE s \in [1 .. Cardinality(S) -> S] :
    \A i, j \in DOMAIN s : i < j => s[i] < s[j]
=============================================================================
