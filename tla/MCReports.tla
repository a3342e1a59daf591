----------------------------- MODULE MCReports -----------------------------
(* Instances of Reports for TLC: one item with one unit, one order.          *)
EXTENDS Reports

CONSTANTS a, b, i1

OneItem    == [o \in Orders |-> i1]
OneEach    == [o \in Orders |-> 1]
StockOfOne == i1 :> 1
NoDeltas   == {}
Plus1      == {1}

WorkerSymmetry == Permutations(Workers)
=============================================================================
