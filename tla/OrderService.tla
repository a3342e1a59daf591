---------------------------- MODULE OrderService ----------------------------
(***************************************************************************)
(* The write paths of the inventory: OrderService (place, confirm, ship,   *)
(* deliver, cancel) and ItemService.adjust_stock, with the repositories    *)
(* they call, the transaction that get_db wraps around each request, and   *)
(* the write-through stock cache.                                          *)
(*                                                                         *)
(* A worker is one HTTP request in flight: one asyncio task with its own   *)
(* session and its own READ COMMITTED transaction.  What a transaction has *)
(* flushed stays in flushed[w] and target[w], invisible to the others,     *)
(* until Commit.  The steps of a request are its awaits:                   *)
(*                                                                         *)
(*   idle --read order--> lock --SELECT FOR UPDATE, flush--> cache         *)
(*        --SETEX--> update --UPDATE .. WHERE version--> done --> idle     *)
(*                                                                         *)
(* The flush follows the row lock without another transaction being able   *)
(* to see or disturb anything in between, so the two are one step.         *)
(***************************************************************************)
EXTENDS OrderStatus, Integers, Sequences

CONSTANTS
    Items, Orders,   \* primary keys of menu_items and orders
    Workers,         \* requests that may be in flight at once
    item_id,         \* [Orders -> Items], column orders.item_id
    quantity,        \* [Orders -> 1..], column orders.quantity
    InitStock,       \* [Items -> stock given to create_item]
    Deltas,          \* deltas that adjust_stock is called with
    IntMax,          \* largest value of the INTEGER column stock_quantity
    AdjustCap,       \* bound: adjust_stock only while an item has fewer movements
    EnableCache,     \* settings.enable_cache
    OnHttpError,     \* what the session does on an HTTPException, see Commits
    Aborts,          \* whether requests may die (crash, disconnect, lost DB)
    RedisFails,      \* whether a SETEX may fail
    NoItem, NoOrder, NoWorker, NoMovement, NoValue

ASSUME ConstantsAssumption ==
    /\ item_id \in [Orders -> Items]
    /\ IntMax \in Nat
    /\ quantity \in [Orders -> Nat \ {0}]
    /\ InitStock \in [Items -> 0..IntMax]
    /\ Deltas \subseteq Int
    /\ AdjustCap \in Nat
    /\ {EnableCache, Aborts, RedisFails} \subseteq BOOLEAN
    /\ OnHttpError \in {"commit", "rollback"}

ASSUME NoWorkerAssumption == NoWorker \notin Workers

VARIABLES
    menu_items,       \* committed rows: [stock_quantity, version]
    orders,           \* committed rows: [status, version]
    stock_movements,  \* committed audit trail of each item, oldest first
    cache,            \* Redis: stock:<item> or NoValue
    itemLock,         \* holder of the FOR UPDATE lock on the item row
    pc, req,          \* where a request is, and what it asks for
    snap,             \* the order row as the request read it
    flushed,          \* its uncommitted movement (and item update)
    target,           \* the order status it has written but not committed
    outcome           \* the answer it will give

db     == <<menu_items, orders, stock_movements>>
tx     == <<pc, req, snap, flushed, target, outcome>>
vars   == <<menu_items, orders, stock_movements, cache, itemLock,
            pc, req, snap, flushed, target, outcome>>

-----------------------------------------------------------------------------
Stock     == 0..IntMax
Movements == [order : Orders \cup {NoOrder}, movement_type : MovementTypes,
              quantity_delta : Int, stock_before : Stock, stock_after : Stock]

ASSUME NoMovementAssumption == NoMovement \notin Movements

AbsentRow == [status |-> "ABSENT", version |-> 0]
OrderRows == [status : OrderStatuses \cup {"ABSENT"}, version : Nat]

OrderOps  == {"confirm", "ship", "deliver", "cancel"}
Idle      == [op |-> "none", order |-> NoOrder, item |-> NoItem, delta |-> 0]
Requests  ==
    [op : OrderOps \cup {"none", "place", "adjust"}, order : Orders \cup {NoOrder},
     item : Items \cup {NoItem}, delta : Int]

\* A request for an order: confirm asks the item for -quantity, cancel for
\* +quantity, the others leave stock alone.
OrderRequest(op, o) ==
    [op |-> op, order |-> o, item |-> item_id[o],
     delta |-> IF op = "confirm" THEN -quantity[o]
               ELSE IF op = "cancel" THEN quantity[o] ELSE 0]

\* Types; a stock is never negative nor beyond its INTEGER column, whatever sums the
\* requests compute (CHECK constraint and flush of menu_items).
TypeOK ==
    /\ menu_items \in [Items -> [stock_quantity : Stock, version : Nat]]
    /\ orders \in [Orders -> OrderRows]
    /\ stock_movements \in [Items -> Seq(Movements)]
    /\ cache \in [Items -> Stock \cup {NoValue}]
    /\ itemLock \in [Items -> Workers \cup {NoWorker}]
    /\ pc \in [Workers -> {"idle", "lock", "cache", "update", "done"}]
    /\ req \in [Workers -> Requests]
    /\ snap \in [Workers -> OrderRows]
    /\ flushed \in [Workers -> Movements \cup {NoMovement}]
    /\ target \in [Workers -> OrderStatuses \cup {"none"}]
    /\ outcome \in [Workers -> {"none", "ok", "refused", "insufficient",
                                "conflict", "error"}]

-----------------------------------------------------------------------------
\* The items exist: create_item inserted each with its opening movement and
\* primed the cache, unless Redis was away or the key has expired since.
Opening(i) ==
    [order |-> NoOrder, movement_type |-> "ADJUSTMENT", quantity_delta |-> InitStock[i],
     stock_before |-> 0, stock_after |-> InitStock[i]]

Init ==
    /\ menu_items = [i \in Items |-> [stock_quantity |-> InitStock[i], version |-> 1]]
    /\ orders = [o \in Orders |-> AbsentRow]
    /\ stock_movements = [i \in Items |-> <<Opening(i)>>]
    /\ cache \in [Items -> Stock \cup {NoValue}]
    /\ \A i \in Items :
           cache[i] \in IF EnableCache THEN {InitStock[i], NoValue} ELSE {NoValue}
    /\ itemLock = [i \in Items |-> NoWorker]
    /\ pc = [w \in Workers |-> "idle"]
    /\ req = [w \in Workers |-> Idle]
    /\ snap = [w \in Workers |-> AbsentRow]
    /\ flushed = [w \in Workers |-> NoMovement]
    /\ target = [w \in Workers |-> "none"]
    /\ outcome = [w \in Workers |-> "none"]

-----------------------------------------------------------------------------
(* Reading the order, and the checks made on what was read.                *)

\* cancel_order restores only what the order holds; the status is the one read.
OnlyConfirmedRestores(status) == status = "CONFIRMED"   \* mutant: forgets SHIPPED
EveryCancelRestores(status)   == TRUE                   \* mutant: PENDING too
Restores(status) == status \in StockHoldingStates

Goal(op) == IF op = "confirm" THEN "CONFIRMED" ELSE
            IF op = "ship"    THEN "SHIPPED"   ELSE
            IF op = "deliver" THEN "DELIVERED" ELSE "CANCELLED"

NeedsItem(op, status) == op = "confirm" \/ (op = "cancel" /\ Restores(status))

\* get_by_id, then NotFoundError or InvalidTransitionError, or on to the writes.
ReadOrder(w, op, o) ==
    /\ pc[w] = "idle"
    /\ req' = [req EXCEPT ![w] = OrderRequest(op, o)]
    /\ snap' = [snap EXCEPT ![w] = orders[o]]
    /\ \/ /\ ~ CanTransition(orders[o].status, Goal(op))
          /\ pc' = [pc EXCEPT ![w] = "done"]
          /\ outcome' = [outcome EXCEPT ![w] = "refused"]
       \/ /\ CanTransition(orders[o].status, Goal(op))
          /\ pc' = [pc EXCEPT ![w] =
                        IF NeedsItem(op, orders[o].status) THEN "lock" ELSE "update"]
          /\ UNCHANGED outcome
    /\ UNCHANGED <<db, cache, itemLock, flushed, target>>

StartAdjust(w, i, d) ==
    /\ pc[w] = "idle" /\ Len(stock_movements[i]) < AdjustCap
    /\ req' = [req EXCEPT ![w] =
                   [op |-> "adjust", order |-> NoOrder, item |-> i, delta |-> d]]
    /\ pc' = [pc EXCEPT ![w] = "lock"]
    /\ UNCHANGED <<db, cache, itemLock, snap, flushed, target, outcome>>

\* No transaction has an uncommitted write on the order row.
OrderRowFree(o) == \A v \in Workers : target[v] # "none" => req[v].order # o

\* The INSERT of an order checks its foreign key with a KEY SHARE lock on the
\* item row.  FOR UPDATE and KEY SHARE exclude each other; the row keeps no
\* list of sharers here, an uncommitted insert is one.
PlacedOn(i) == \E v \in Workers : req[v].op = "place" /\ req[v].item = i

PlainSelect(i) == TRUE                   \* mutant: no FOR UPDATE
ItemRowFree(i) == itemLock[i] = NoWorker /\ ~ PlacedOn(i)

\* place_order; the item row read first is only tested for existence.  The id is
\* a fresh uuid, so no other transaction is inserting it.
PlaceOrder(w, o) ==
    /\ pc[w] = "idle" /\ orders[o] = AbsentRow /\ OrderRowFree(o)
    /\ itemLock[item_id[o]] = NoWorker
    /\ req' = [req EXCEPT ![w] = OrderRequest("place", o)]
    /\ target' = [target EXCEPT ![w] = "PENDING"]
    /\ outcome' = [outcome EXCEPT ![w] = "ok"]
    /\ pc' = [pc EXCEPT ![w] = "done"]
    /\ UNCHANGED <<db, cache, itemLock, snap, flushed>>

-----------------------------------------------------------------------------
(* Under the item row lock.                                                *)

MovementOf(w, before) ==
    [order |-> req[w].order, quantity_delta |-> req[w].delta,
     movement_type |-> IF req[w].op = "confirm" THEN "DEDUCTION"
                       ELSE IF req[w].op = "cancel" THEN "RESTORATION" ELSE "ADJUSTMENT",
     stock_before |-> before, stock_after |-> before + req[w].delta]

\* with_for_update waits for the row and then reads its committed state.
LockItem(w) ==
    /\ pc[w] = "lock" /\ ItemRowFree(req[w].item)
    /\ itemLock' = [itemLock EXCEPT ![req[w].item] = w]
    /\ UNCHANGED <<db, cache, req, snap, target>>

StockReadCacheFirst(w) ==                \* mutant: trusts the cache
    IF cache[req[w].item] = NoValue THEN menu_items[req[w].item].stock_quantity
                                    ELSE cache[req[w].item]
StockRead(w) == menu_items[req[w].item].stock_quantity

\* "stock < quantity" of confirm_order, "new_quantity < 0" of adjust_stock.
NoneLeft(stock, delta)  == stock + delta <= 0   \* mutant: off by one
TooLittle(stock, delta) == stock + delta < 0

\* Range of the INTEGER column and CHECK (stock_quantity >= 0).
AnyAmount(amount) == amount >= 0         \* mutant: no upper end
Fits(amount)      == amount \in Stock

\* The UPDATE of menu_items and the INSERT of the movement are flushed.
FlushMovement(w) ==
    /\ LockItem(w)
    /\ ~ TooLittle(StockRead(w), req[w].delta)
    /\ Fits(StockRead(w) + req[w].delta)
    /\ flushed' = [flushed EXCEPT ![w] = MovementOf(w, StockRead(w))]
    /\ pc' = [pc EXCEPT ![w] = "cache"]
    /\ UNCHANGED outcome

\* confirm_order goes on to reject the order, adjust_stock answers 422.
FindTooLittle(w) ==
    /\ LockItem(w)
    /\ TooLittle(StockRead(w), req[w].delta)
    /\ pc' = [pc EXCEPT ![w] = IF req[w].op = "adjust" THEN "done" ELSE "update"]
    /\ outcome' = [outcome EXCEPT ![w] = "insufficient"]
    /\ UNCHANGED flushed

\* A sum that the column cannot hold: the flush raises a database error, which
\* no router catches.
FlushFails(w) ==
    /\ LockItem(w)
    /\ ~ TooLittle(StockRead(w), req[w].delta)
    /\ ~ Fits(StockRead(w) + req[w].delta)
    /\ pc' = [pc EXCEPT ![w] = "done"]
    /\ outcome' = [outcome EXCEPT ![w] = "error"]
    /\ UNCHANGED flushed

AfterCache(w) ==
    IF req[w].op = "adjust"
    THEN /\ pc' = [pc EXCEPT ![w] = "done"]
         /\ outcome' = [outcome EXCEPT ![w] = "ok"]
    ELSE pc' = [pc EXCEPT ![w] = "update"] /\ UNCHANGED outcome

CacheAfterDeduction(w) ==                \* mutant: cancel, adjust do not write it
    IF EnableCache /\ req[w].op = "confirm"
    THEN [cache EXCEPT ![req[w].item] = flushed[w].stock_after] ELSE cache
WrittenThrough(w) ==
    IF EnableCache THEN [cache EXCEPT ![req[w].item] = flushed[w].stock_after] ELSE cache

\* CacheService.set_stock, before the transaction commits.
SetCache(w) ==
    /\ pc[w] = "cache"
    /\ cache' = WrittenThrough(w)
    /\ AfterCache(w)
    /\ UNCHANGED <<db, itemLock, req, snap, flushed, target>>

\* set_stock swallows every exception of the client.
SetCacheFails(w) ==
    /\ pc[w] = "cache" /\ EnableCache /\ RedisFails
    /\ AfterCache(w)
    /\ UNCHANGED <<db, cache, itemLock, req, snap, flushed, target>>

-----------------------------------------------------------------------------
(* The optimistic write of the order row, and the end of the transaction.  *)

AnyVersion(row, expected)     == TRUE                        \* mutant: no check
LaterVersion(row, expected)   == row.version >= expected     \* mutant: wrong check
VersionMatches(row, expected) == row.version = expected

NewStatus(w) ==
    IF outcome[w] = "insufficient" THEN "REJECTED" ELSE Goal(req[w].op)

\* UPDATE orders .. WHERE id = o AND version = expected.  A matching row locked
\* by another transaction makes the statement wait for that transaction.
TransitionStatus(w) ==
    /\ pc[w] = "update" /\ OrderRowFree(req[w].order)
    /\ VersionMatches(orders[req[w].order], snap[w].version)
    /\ target' = [target EXCEPT ![w] = NewStatus(w)]
    /\ outcome' = [outcome EXCEPT ![w] = IF @ = "insufficient" THEN @ ELSE "ok"]
    /\ pc' = [pc EXCEPT ![w] = "done"]
    /\ UNCHANGED <<db, cache, itemLock, req, snap, flushed>>

RetryStale(w) ==          \* mutant: tries again without reading the row again
    pc[w] = "update" /\ ~ VersionMatches(orders[req[w].order], snap[w].version)
    /\ UNCHANGED vars

IgnoreConflict(w) ==      \* mutant: the result of the UPDATE is not looked at
    /\ pc[w] = "update"
    /\ ~ VersionMatches(orders[req[w].order], snap[w].version)
    /\ outcome' = [outcome EXCEPT ![w] = "ok"]
    /\ pc' = [pc EXCEPT ![w] = "done"]
    /\ UNCHANGED <<db, cache, itemLock, req, snap, flushed, target>>

\* No row updated: ConflictError.  What was flushed before stays flushed.
TransitionConflicts(w) ==
    /\ pc[w] = "update"
    /\ ~ VersionMatches(orders[req[w].order], snap[w].version)
    /\ outcome' = [outcome EXCEPT ![w] = "conflict"]
    /\ pc' = [pc EXCEPT ![w] = "done"]
    /\ UNCHANGED <<db, cache, itemLock, req, snap, flushed, target>>

\* get_db commits when the handler returns and also when it raises an
\* HTTPException, which the routers make of every service error.  The sessions
\* of the concurrency tests roll back on any exception (OnHttpError="rollback").
HttpErrors == {"refused", "insufficient", "conflict"}
CommitsAll(answer) == answer \in HttpErrors \cup {"ok"}   \* mutant: never rolls back
CommitsSuccess(answer) == answer = "ok"                  \* mutant: an error rolls back
NoCommit(answer) == answer \in HttpErrors                \* mutant: no commit after yield
Commits(answer) == answer = "ok" \/ (answer \in HttpErrors /\ OnHttpError = "commit")

\* The session is closed and the worker may take the next request.
Release(w) ==
    /\ itemLock' = [i \in Items |-> IF itemLock[i] = w THEN NoWorker ELSE itemLock[i]]
    /\ pc' = [pc EXCEPT ![w] = "idle"]
    /\ req' = [req EXCEPT ![w] = Idle]
    /\ snap' = [snap EXCEPT ![w] = AbsentRow]
    /\ flushed' = [flushed EXCEPT ![w] = NoMovement]
    /\ target' = [target EXCEPT ![w] = "none"]
    /\ outcome' = [outcome EXCEPT ![w] = "none"]

CommitItem(w) ==
    IF flushed[w] = NoMovement
    THEN UNCHANGED <<menu_items, stock_movements>>
    ELSE /\ menu_items' = [menu_items EXCEPT ![req[w].item] =
                [stock_quantity |-> flushed[w].stock_after, version |-> @.version + 1]]
         /\ stock_movements' =
                [stock_movements EXCEPT ![req[w].item] = Append(@, flushed[w])]

CommitOrder(w) ==
    IF target[w] = "none"
    THEN UNCHANGED orders
    ELSE orders' = [orders EXCEPT ![req[w].order] =
                        [status |-> target[w], version |-> @.version + 1]]

Commit(w) ==
    /\ pc[w] = "done" /\ Commits(outcome[w])
    /\ CommitItem(w) /\ CommitOrder(w)
    /\ Release(w)
    /\ UNCHANGED cache

Rollback(w) ==
    /\ pc[w] = "done" /\ ~ Commits(outcome[w])
    /\ Release(w)
    /\ UNCHANGED <<db, cache>>

AbortKeepsItem(w) ==      \* mutant: the movement is committed on its own
    /\ Aborts /\ pc[w] # "idle"
    /\ CommitItem(w) /\ Release(w)
    /\ UNCHANGED <<orders, cache>>

AbortKeepsOrder(w) ==     \* mutant: the transition is committed on its own
    /\ Aborts /\ pc[w] # "idle"
    /\ CommitOrder(w) /\ Release(w)
    /\ UNCHANGED <<menu_items, stock_movements, cache>>

\* The request dies before COMMIT: the process is killed, the task cancelled or
\* an unexpected exception raised.  The database rolls back; Redis does not.
Abort(w) ==
    /\ Aborts /\ pc[w] # "idle"
    /\ Release(w)
    /\ UNCHANGED <<db, cache>>

\* The key's TTL runs out.
Expire(i) ==
    /\ cache[i] # NoValue
    /\ cache' = [cache EXCEPT ![i] = NoValue]
    /\ UNCHANGED <<db, itemLock, tx>>

-----------------------------------------------------------------------------
Start(w) == \/ \E o \in Orders : PlaceOrder(w, o)
            \/ \E op \in OrderOps, o \in Orders : ReadOrder(w, op, o)
            \/ \E i \in Items, d \in Deltas : StartAdjust(w, i, d)

TakeItem(w)    == FlushMovement(w) \/ FindTooLittle(w) \/ FlushFails(w)
WriteCache(w)  == SetCache(w) \/ SetCacheFails(w)
WriteOrder(w)  == TransitionStatus(w) \/ TransitionConflicts(w)
EndRequest(w)  == Commit(w) \/ Rollback(w)

Next == \/ \E w \in Workers : \/ Start(w) \/ TakeItem(w) \/ WriteCache(w)
                              \/ WriteOrder(w) \/ EndRequest(w) \/ Abort(w)
        \/ \E i \in Items : Expire(i)

Spec == Init /\ [][Next]_vars

\* A task that can run does; PostgreSQL queues those that wait for a row.
Fairness ==
    \A w \in Workers : /\ WF_vars(WriteCache(w)) /\ WF_vars(EndRequest(w))
                       /\ SF_vars(TakeItem(w)) /\ SF_vars(WriteOrder(w))

FairSpec == Spec /\ Fairness

-----------------------------------------------------------------------------
(* Properties.                                                             *)

\* The audit trail is a ledger: it starts from nothing, every movement adds up
\* and continues from the one before, and the item row is its last line, with
\* one version per movement.  Concurrent requests compute stock_before and
\* stock_after from their own reads and write the row as absolute values.
LedgerOf(i) ==
    LET log == stock_movements[i] IN
    /\ Len(log) > 0 /\ log[1].stock_before = 0
    /\ \A k \in 1..Len(log) :
           log[k].stock_after = log[k].stock_before + log[k].quantity_delta
    /\ \A k \in 1..Len(log) - 1 : log[k + 1].stock_before = log[k].stock_after
    /\ menu_items[i].stock_quantity = log[Len(log)].stock_after
    /\ menu_items[i].version = Len(log)

\* The audit trail of every item is a ledger (create_movement with save).
Ledger == \A i \in Items : LedgerOf(i)

Lifecycle == INSTANCE OrderLifecycle

\* The committed orders follow the lifecycle, although each request decides on
\* a row that it read without a lock and that may have changed since.
LifecycleSpec == Lifecycle!Spec

\* Stock and orders as an outsider sees them.
Promise == INSTANCE Inventory WITH
    stock  <- [i \in Items |-> menu_items[i].stock_quantity],
    status <- [o \in Orders |-> orders[o].status]

\* Confirm and cancel move the order and its stock in one step, although between
\* reading the order and committing other requests may have changed both.  Holds
\* when the session rolls back on every exception.
InventorySpec == Promise!Spec

\* With get_db's commit of a 409 the two "lost" steps are the only additions:
\* no other interleaving, failure or crash separates stock and orders.
LeakyInventorySpec == Promise!LeakySpec

\* While Redis answers, a transaction that commits stock leaves that stock in the
\* cache, or nothing: set_stock runs before COMMIT but under the row lock, so no
\* other request writes in between, whatever a request that died has left there.
CommitLeavesCacheRight ==
    [][\A w \in Workers : Commit(w) /\ flushed[w] # NoMovement =>
           cache'[req[w].item] \in
               {NoValue, menu_items'[req[w].item].stock_quantity}]_vars

\* Every request that starts is answered: no deadlock between item and order
\* rows, no wait without end for either.
EveryRequestEnds == \A w \in Workers : pc[w] # "idle" ~> pc[w] = "idle"
=============================================================================
