---------------------------- MODULE OrderStatus ----------------------------
(***************************************************************************)
(* The vocabulary of app/domain/enums.py: the states of an order, the      *)
(* transition table every service consults before it writes, and the      *)
(* kinds of stock movement.  Pure definitions, shared by every module.     *)
(***************************************************************************)

OrderStatuses ==
    {"PENDING", "CONFIRMED", "SHIPPED", "DELIVERED", "CANCELLED", "REJECTED"}

\* OrderStatus.terminal_states
TerminalStates == {"REJECTED", "DELIVERED", "CANCELLED"}

\* OrderStatus.stock_holding_states: stock has been deducted for the order and
\* must be restored when it is cancelled.
StockHoldingStates == {"CONFIRMED", "SHIPPED", "DELIVERED"}

\* mutant: a delivered order can be cancelled, too
ReturnsAllowed ==
    ({"PENDING"}   \X {"CONFIRMED", "REJECTED", "CANCELLED"}) \cup
    ({"CONFIRMED"} \X {"SHIPPED", "CANCELLED"}) \cup
    ({"SHIPPED"}   \X {"DELIVERED", "CANCELLED"}) \cup
    ({"DELIVERED"} \X {"CANCELLED"})

\* OrderStatus.valid_transitions, as a relation.
ValidTransitions ==
    ({"PENDING"}   \X {"CONFIRMED", "REJECTED", "CANCELLED"}) \cup
    ({"CONFIRMED"} \X {"SHIPPED", "CANCELLED"}) \cup
    ({"SHIPPED"}   \X {"DELIVERED", "CANCELLED"})

\* OrderStatus.can_transition_to
CanTransition(s, next) == <<s, next>> \in ValidTransitions

MovementTypes == {"DEDUCTION", "RESTORATION", "ADJUSTMENT"}
=============================================================================
