------------------------------- MODULE Sieve -------------------------------
(***************************************************************************)
(* What is left of a sequence.  SelectSeq says the same, but the provers   *)
(* do not know it.                                                         *)
(***************************************************************************)
EXTENDS SequencesExt

\* The elements of a sequence that are not in a set, in their order.
Outside(s, A) == FoldLeft(LAMBDA r, x : IF x \in A THEN r ELSE Append(r, x), <<>>, s)

\* The elements of a sequence that are in a set, in their order.
Within(s, A) == Outside(s, ToSet(s) \ A)

\* A sequence without an element that occurs once at most.
Without(s, x) ==
    IF Contains(s, x) THEN RemoveAt(s, CHOOSE i \in DOMAIN s : s[i] = x) ELSE s

\* Somewhere in the sequence x comes before y.
Precedes(s, x, y) == \E i, j \in DOMAIN s : i < j /\ s[i] = x /\ s[j] = y
=============================================================================
