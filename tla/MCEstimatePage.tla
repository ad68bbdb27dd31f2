---- MODULE MCEstimatePage ----
(* A finite instance of EstimatePage: 2 is a value that the form rounds to 1. *)
EXTENDS EstimatePage, TLC

SomeValues == {1, 2}

Rounded == [v \in SomeValues |-> 1]

Renaming == Permutations(Slots) \cup Permutations(Groups)
====
