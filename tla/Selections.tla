----------------------------- MODULE Selections -----------------------------
(***************************************************************************)
(* The loops that keep some entries of a vector or of a file, in order, as *)
(* functions of positions.  SelectSeq does the same for TLC, but the proof *)
(* system knows nothing about it.                                          *)
(***************************************************************************)
EXTENDS Naturals, Sequences, FiniteSets

\* The element of S with i - 1 elements below it.
Nth(S, i) == CHOOSE x \in S : Cardinality({y \in S : y < x}) = i - 1

\* A finite set of numbers as an increasing sequence.
Ascending(S) == [i \in 1 .. Cardinality(S) |-> Nth(S, i)]

\* The entries of s at the positions P, in order.
Picked(s, P) == [i \in 1 .. Cardinality(P) |-> s[Nth(P, i)]]
=============================================================================
