----------------------------- MODULE OrderedSeqs -----------------------------
(* Sequences of message numbers: what is in them and how it is ordered.       *)
EXTENDS Integers, Sequences, FiniteSets

Elements(s) == {s[i] : i \in 1..Len(s)}

Increasing(s) == \A i, j \in 1..Len(s) : i < j => s[i] < s[j]

\* Like Increasing, but a number may be repeated.
NonDecreasing(s) == \A i, j \in 1..Len(s) : i < j => s[i] <= s[j]

\* Every number of A is below every number of B.
Precedes(A, B) == \A x \in A : \A y \in B : x < y

\* How many of the entries of s were in it before.
Repeats(s) == Len(s) - Cardinality(Elements(s))
=============================================================================
