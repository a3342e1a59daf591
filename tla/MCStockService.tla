-------------------------- MODULE MCStockService --------------------------
(* Instances of StockService for TLC: one unit of one item and GETs.       *)
EXTENDS StockService, TLC

CONSTANT i1              \* item key

OneItem    == [o \in Orders |-> i1]
OneEach    == [o \in Orders |-> 1]
StockOfOne == i1 :> 1
NoDeltas   == {}
Plus1      == {1}

WorkerSymmetry == Permutations(Workers)
=============================================================================
