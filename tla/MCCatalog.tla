---- MODULE MCCatalog ----
(* A finite instance of Catalog: two names, one of them seeded.              *)
EXTENDS Catalog, TLC

Of(name, price, node) == [name |-> name, price |-> price, node |-> node]

Tile == Of("tile", 1, "bath")

SomePayloads == {Tile, Of("tile", 2, None), Of("tub", 1, None)}

NewCatalog == <<Tile>>

CallSymmetry == Permutations(Calls)
====
