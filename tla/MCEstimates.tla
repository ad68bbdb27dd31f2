---- MODULE MCEstimates ----
(* Finite instances of Estimates. *)
EXTENDS Estimates, FiniteSetsExt, TLC

\* Every line is marked up, then summed.
SumPriced(markup, price) ==
    MapThenSumSet(LAMBDA l : price[l] + markup, DOMAIN price)

LineCommands ==
    [kind : {"add", "template"}, price : {1}]
    \cup [kind : {"edit"}, line : LineIds, price : {2}]
    \cup [kind : {"remove"}, line : LineIds]
    \cup [kind : {"reorder"}, line : LineIds, index : {1}]
    \cup [kind : {"group"}, group : Groups]
    \cup [kind : {"group_line"}, line : LineIds, group : Groups]

EstimateCommands ==
    [kind : {"update"}, markup : {1}]
    \cup [kind : {"status"}, status : {"completed", "locked"}]
    \cup [kind : {"unlock", "recalc", "version", "delete"}]

EveryCommand == LineCommands \cup EstimateCommands

\* The calls that can leave a stale total when they overlap.
RepricingCommands == [kind : {"add"}, price : {1}] \cup [kind : {"update"}, markup : Markups]

SessionSymmetry == Permutations(Sessions)
====
