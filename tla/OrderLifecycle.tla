--------------------------- MODULE OrderLifecycle ---------------------------
(***************************************************************************)
(* What the order API promises about the orders table: an order appears    *)
(* once, as PENDING with version 1, and afterwards changes only along the  *)
(* transition table of enums.py, one transition at a time, each of them    *)
(* raising the version by one.  There are no requests, snapshots or locks  *)
(* here: OrderService is shown to implement this specification.            *)
(***************************************************************************)
EXTENDS OrderStatus, Naturals

CONSTANT Orders          \* primary keys of the orders table

VARIABLE orders          \* [Orders -> [status, version]], committed rows

\* A key with no row.  Version 0, so that the insert is "version + 1" too.
AbsentRow == [status |-> "ABSENT", version |-> 0]

OrderRows == [status : OrderStatuses \cup {"ABSENT"}, version : Nat]

Init == orders = [o \in Orders |-> AbsentRow]

Write(o, s) ==
    orders' = [orders EXCEPT ![o] = [status |-> s, version |-> @.version + 1]]

Place(o) == orders[o] = AbsentRow /\ Write(o, "PENDING")

Transition(o, s) == CanTransition(orders[o].status, s) /\ Write(o, s)

Next == \E o \in Orders : Place(o) \/ \E s \in OrderStatuses : Transition(o, s)

Spec == Init /\ [][Next]_orders
=============================================================================
