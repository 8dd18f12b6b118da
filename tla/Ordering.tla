------------------------------- MODULE Ordering -------------------------------
(***************************************************************************)
(* Sorting and filtering, in a form that can be reasoned about: SelectSeq  *)
(* and SortSeq promise the same and are evaluated without a definition.    *)
(***************************************************************************)
EXTENDS Integers, FiniteSets

\* sorted() with a key that no two members share: the n-th has n - 1 members before it.
Arranged(members, before) ==
    [n \in 1..Cardinality(members) |->
        CHOOSE x \in members : Cardinality({y \in members : <<y, x>> \in before}) = n - 1]

Ascending(numbers) == Arranged(numbers, {p \in numbers \X numbers : p[1] < p[2]})

\* A comprehension over a list with a condition: the items at some positions, in order.
Picked(items, at) == [n \in 1..Cardinality(at) |-> items[Ascending(at)[n]]]
Filtered(items, test(_)) == Picked(items, {i \in DOMAIN items : test(items[i])})
=============================================================================
