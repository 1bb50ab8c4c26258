-------------------------------- MODULE Lists --------------------------------
(***************************************************************************)
(* Python's lists: comprehensions with a condition, sorted(), sum(), and   *)
(* the first of equal elements.  SelectSeq and folds are recursive         *)
(* operators and SortSeq does not say what becomes of ties, so none of     *)
(* them can be reasoned about.                                             *)
(***************************************************************************)
EXTENDS Integers, FiniteSets, Sequences, SequencesExt

\* The elements of a list that are in a set.
Filtered(list, kept) ==
  FlattenSeq([n \in DOMAIN list |-> IF list[n] \in kept THEN <<list[n]>> ELSE << >>])

\* Of equal elements the first one.
Distinct(list) ==
  FlattenSeq([n \in DOMAIN list |->
    IF \E m \in 1..(n - 1) : list[m] = list[n] THEN << >> ELSE <<list[n]>>])

\* Each element is put behind those that it does not have to precede: equal ones stay in order.
Inserted(list, x, before) ==
  InsertAt(list, 1 + Cardinality({n \in DOMAIN list : <<x, list[n]>> \notin before}), x)

\* before: the pairs of elements of which the first comes first.
Sorted(list, before) ==
  LET upto[n \in 0..Len(list)] == IF n = 0 THEN << >> ELSE Inserted(upto[n - 1], list[n], before)
  IN  upto[Len(list)]

\* The sum of a list of numbers.
Total(list) ==
  LET upto[n \in 0..Len(list)] == IF n = 0 THEN 0 ELSE upto[n - 1] + list[n]
  IN  upto[Len(list)]

\* Their product.
Product(list) ==
  LET upto[n \in 0..Len(list)] == IF n = 0 THEN 1 ELSE upto[n - 1] * list[n]
  IN  upto[Len(list)]
=============================================================================
