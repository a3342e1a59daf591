----------------------------- MODULE Timestamps -----------------------------
(***************************************************************************)
(* created_at of orders and movements, kept beside the tables of           *)
(* OrderService.  Both columns have a default in Python, which reads the   *)
(* clock when the row is flushed: an order's before anybody sees it, a     *)
(* movement's under the row lock of its item, and either before its        *)
(* commit.  The clock is that of the one process and never set back.       *)
(***************************************************************************)
EXTENDS StockAccounting

CONSTANT ClockCap      \* bound: the clock stops there

VARIABLES
    now,               \* datetime.now(UTC), in units of a reporting period's grain
    stamp,             \* created_at of the row that a request has flushed
    placed_at,         \* created_at of the committed orders
    moved_at           \* created_at of the committed movements of each item

timevars == <<now, stamp, placed_at, moved_at>>

TimesInit ==
    /\ now = 0
    /\ stamp = [w \in Workers |-> 0]
    /\ placed_at = [o \in Orders |-> 0]
    /\ moved_at = [i \in Items |-> <<0>>]

\* mutant: server_default now(), which is the start of the transaction
HasBegun(w) == pc[w] # "idle"
\* A request inserts one row that has a created_at, an order or a movement.
HasInserted(w) == flushed[w] # NoMovement \/ target[w] = "PENDING"

\* The request that a step ends, the only one whose rows it can commit.
Ended == CHOOSE w \in Workers : pc[w] # "idle" /\ pc'[w] = "idle"

\* A step of the service, and the times of the rows that it flushes and commits.
Serve ==
    /\ Next
    /\ stamp' = [w \in Workers |-> IF ~ HasInserted(w)' THEN 0
                                   ELSE IF HasInserted(w) THEN stamp[w] ELSE now]
    /\ placed_at' = [o \in Orders |->
           IF orders[o] = AbsentRow /\ orders'[o] # AbsentRow
           THEN stamp[Ended] ELSE placed_at[o]]
    /\ moved_at' = [i \in Items |->
           IF stock_movements'[i] # stock_movements[i]
           THEN Append(moved_at[i], stamp[Ended]) ELSE moved_at[i]]
    /\ UNCHANGED now

Tick ==
    /\ now < ClockCap
    /\ now' = now + 1
    /\ UNCHANGED <<vars, stamp, placed_at, moved_at>>
=============================================================================
