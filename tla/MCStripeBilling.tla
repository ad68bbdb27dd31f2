---- MODULE MCStripeBilling ----
(* Finite instances of StripeBilling. *)
EXTENDS StripeBilling, TLC

\* Only a charge and its row use the key.
EveryCommand ==
    [kind : {"usage"}, user : Users, key : Keys]
        \cup [kind : {"subscription", "other"}, user : Users, key : {NoKey}]

ActorSymmetry == Permutations(Users) \cup Permutations(Calls) \cup Permutations(Hooks)
====
