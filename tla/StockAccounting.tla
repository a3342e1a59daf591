-------------------------- MODULE StockAccounting --------------------------
(***************************************************************************)
(* How stock and orders belong together: what the audit trail says was     *)
(* deducted and restored for an order, against the state the order is in.  *)
(* Nothing here adds behaviour to OrderService.                            *)
(***************************************************************************)
EXTENDS OrderService, FiniteSetsExt, SequencesExt

\* Primary keys are UUIDs: there are finitely many, and sums over tables exist.
ASSUME KeysAssumption == IsFiniteSet(Items) /\ IsFiniteSet(Orders)

\* Lines of item i's audit trail of one movement type, and those of one order.
Lines(i, type)    == {k \in 1..Len(stock_movements[i]) :
                          stock_movements[i][k].movement_type = type}
MovesOf(o, type)  == {k \in Lines(item_id[o], type) :
                          stock_movements[item_id[o]][k].order = o}

\* How many committed movements of a type an order has.
Moves(o, type) == Cardinality(MovesOf(o, type))

Holding(o) == orders[o].status \in StockHoldingStates

\* The order's stock is out exactly when its status says so.
Balanced(o) ==
    Moves(o, "DEDUCTION") - Moves(o, "RESTORATION") = IF Holding(o) THEN 1 ELSE 0

\* Order status and stock part company in one way only: a request that lost the
\* race for the order row (409) commits what it had flushed before.
OnlyConflictsUnbalance ==
    [][\A o \in Orders : Balanced(o) /\ ~ Balanced(o)' =>
           \E w \in Workers : /\ req[w].order = o /\ outcome[w] = "conflict"
                              /\ Commit(w)]_vars

\* "Stock is restored once": of concurrent cancels of an order, one restores.
RestoredAtMostOnce == \A o \in Orders : Moves(o, "RESTORATION") <= 1

\* "Stock is deducted only on PENDING -> CONFIRMED": a committed deduction comes
\* with that transition.
DeductedOnlyOnConfirm ==
    [][\A o \in Orders : Moves(o, "DEDUCTION")' > Moves(o, "DEDUCTION") =>
           orders[o].status = "PENDING" /\ orders'[o].status = "CONFIRMED"]_vars

\* The quantity_delta column of item i's audit trail.
DeltasOf(i) == [k \in 1..Len(stock_movements[i]) |-> stock_movements[i][k].quantity_delta]

\* Units of item i received, by creation and adjustments.
Received(i) == SumFunctionOnSet(DeltasOf(i), Lines(i, "ADJUSTMENT"))

\* Units of item i promised to orders that hold stock.
Promised(i) == SumFunctionOnSet(quantity, {o \in Orders : item_id[o] = i /\ Holding(o)})

\* Every unit received is in stock or promised to one order.
StockAccountedFor ==
    \A i \in Items : menu_items[i].stock_quantity = Received(i) - Promised(i)
=============================================================================
