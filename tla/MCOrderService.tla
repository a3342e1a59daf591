-------------------------- MODULE MCOrderService --------------------------
(* Instances of OrderService for TLC: two requests in flight, two orders.   *)
EXTENDS StockAccounting

CONSTANTS a, b, i1       \* order and item keys

OneItem == [o \in Orders |-> i1]

\* Two units, wanted by an order of one and an order of two.
OneAndTwo  == a :> 1 @@ b :> 2
StockOfTwo == i1 :> 2

\* One unit, wanted by each order.
OneEach    == [o \in Orders |-> 1]
StockOfOne == i1 :> 1

Minus1Plus1 == {-1, 1}
Plus1       == {1}
NoDeltas    == {}

WorkerSymmetry == Permutations(Workers)
=============================================================================
