------------------------------- MODULE Queues -------------------------------
(***************************************************************************)
(* Sorted sets and filtered queues, defined by position instead of by      *)
(* recursion over the sequence, so that the provers can reason about them. *)
(***************************************************************************)
EXTENDS Integers, Sequences, FiniteSets

(* How many elements of the set S of numbers are smaller than x *)
NumBelow(x, S) == Cardinality({y \in S : y < x})

(* The elements of a finite set of numbers in ascending order *)
Ascending(S) ==
  [i \in 1..Cardinality(S) |-> CHOOSE x \in S : NumBelow(x, S) = i - 1]

(* The n smallest elements of a set of numbers *)
Smallest(n, S) == {x \in S : NumBelow(x, S) < n}

(* The elements of the sequence q at the positions I, in the same order *)
AtPositions(q, I) ==
  LET keep == Ascending(I)
  IN  [k \in DOMAIN keep |-> q[keep[k]]]

(* The queue q without the elements of S *)
(* Mutant: only one of several elements is removed. *)
WithoutOne(q, S) ==
  AtPositions(q, {i \in DOMAIN q :
                    q[i] \notin IF S = {} THEN {} ELSE {CHOOSE x \in S : TRUE}})
Without(q, S) == AtPositions(q, {i \in DOMAIN q : q[i] \notin S})

(* The sum of a function, or of a sequence, of natural numbers: how many   *)
(* pairs of an argument and a positive number up to its value there are    *)
Units(f) == UNION {{x} \X (1..f[x]) : x \in DOMAIN f}
Total(f) == Cardinality(Units(f))
=============================================================================
