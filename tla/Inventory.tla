----------------------------- MODULE Inventory -----------------------------
(***************************************************************************)
(* What the service promises about stock and orders together.  Every       *)
(* operation is one step: confirming takes the order's units out of stock, *)
(* cancelling puts them back when the order held them, and nothing else    *)
(* but an adjustment moves stock.                                          *)
(*                                                                         *)
(* Spec is the promise.  LeakySpec also has the two steps that get_db adds *)
(* to it by committing a request that lost the race for its order.         *)
(***************************************************************************)
EXTENDS OrderStatus, Integers

CONSTANTS Items, Orders, item_id, quantity, InitStock, Deltas, IntMax

VARIABLES
    stock,      \* [Items -> units]
    status      \* [Orders -> status, or ABSENT]

Init == stock = InitStock /\ status = [o \in Orders |-> "ABSENT"]

Move(i, d) ==
    /\ stock[i] + d \in 0..IntMax
    /\ stock' = [stock EXCEPT ![i] = @ + d]

Become(o, s) == status' = [status EXCEPT ![o] = s]

Place(o)   == status[o] = "ABSENT" /\ Become(o, "PENDING") /\ UNCHANGED stock

Confirm(o) == status[o] = "PENDING" /\ Move(item_id[o], -quantity[o])
              /\ Become(o, "CONFIRMED")

Reject(o)  == status[o] = "PENDING" /\ stock[item_id[o]] < quantity[o]
              /\ Become(o, "REJECTED") /\ UNCHANGED stock

Ship(o)    == status[o] = "CONFIRMED" /\ Become(o, "SHIPPED") /\ UNCHANGED stock

Deliver(o) == status[o] = "SHIPPED" /\ Become(o, "DELIVERED") /\ UNCHANGED stock

Drop(o)    == status[o] = "PENDING" /\ Become(o, "CANCELLED") /\ UNCHANGED stock

Return(o)  == status[o] \in {"CONFIRMED", "SHIPPED"} /\ Move(item_id[o], quantity[o])
              /\ Become(o, "CANCELLED")

Adjust(i, d) == Move(i, d) /\ UNCHANGED status

Next == \/ \E o \in Orders : \/ Place(o) \/ Confirm(o) \/ Reject(o) \/ Ship(o)
                             \/ Deliver(o) \/ Drop(o) \/ Return(o)
        \/ \E i \in Items, d \in Deltas : Adjust(i, d)

Spec == Init /\ [][Next]_<<stock, status>>

\* A confirm that read PENDING and lost: the units are gone.
LostConfirm(o) == status[o] \notin {"ABSENT", "PENDING"}
                  /\ Move(item_id[o], -quantity[o]) /\ UNCHANGED status

\* A cancel that read CONFIRMED or SHIPPED and lost: the units come back although
\* the order was shipped, delivered, or cancelled and restored by another.
LostCancel(o)  == status[o] \in {"SHIPPED", "DELIVERED", "CANCELLED"}
                  /\ Move(item_id[o], quantity[o]) /\ UNCHANGED status

LeakySpec ==
    Init /\ [][Next \/ \E o \in Orders : LostConfirm(o) \/ LostCancel(o)]_<<stock, status>>
=============================================================================
