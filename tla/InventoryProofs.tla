-------------------------- MODULE InventoryProofs --------------------------
(***************************************************************************)
(* OrderService keeps the promise of Inventory: an order and its stock     *)
(* move in one step.  With get_db's commit of a 409 it keeps LeakySpec.    *)
(*                                                                         *)
(* A request decides on an order row read without a lock and writes stock  *)
(* before it knows whether the row is still the one it read, so the        *)
(* argument relates three things: what was read, what has been flushed,    *)
(* and what the answer says (TaskOf).                                      *)
(***************************************************************************)
EXTENDS LifecycleProofs

\* The versions at which a row can have a status: no transition is without one.
Age == [ABSENT |-> {0}, PENDING |-> {1}, CONFIRMED |-> {2}, REJECTED |-> {2},
        SHIPPED |-> {3}, DELIVERED |-> {4}, CANCELLED |-> 2..4]
Aged(row) == row.version \in Age[row.status]
AgesInv   == (\A o \in Orders : Aged(orders[o])) /\ (\A w \in Workers : Aged(snap[w]))

Needs(w)   == NeedsItem(req[w].op, snap[w].status)
Allowed(w) == CanTransition(snap[w].status, Goal(req[w].op))

\* A movement is flushed for the request as it was asked, on what was read.
FlushedOf(w) ==
    flushed[w] # NoMovement =>
        /\ flushed[w] = MovementOf(w, flushed[w].stock_before)
        /\ outcome[w] \in {"none", "ok", "conflict"}
        /\ \/ req[w].op = "adjust"
           \/ req[w].op \in OrderOps /\ Needs(w) /\ Allowed(w)

\* A request that needs the item has flushed by the time it writes the order, unless
\* it has found too little, and then it holds the item and there still is too little.
ProgressOf(w) ==
    /\ pc[w] = "lock" /\ req[w].op = "adjust" => req[w].delta \in Deltas
    /\ flushed[w] # NoMovement /\ req[w].op = "adjust" => req[w].delta \in Deltas
    /\ pc[w] = "lock" /\ req[w].op \in OrderOps => Needs(w)
    /\ pc[w] = "update" /\ Needs(w) =>
           outcome[w] = "insufficient" \/ flushed[w] # NoMovement
    /\ outcome[w] = "insufficient" =>
           /\ req[w].item \in Items /\ itemLock[req[w].item] = w
           /\ TooLittle(StockRead(w), req[w].delta)

\* The order is written together with its movement; a conflict means that the row
\* has moved on.
AnswerOf(w) ==
    /\ target[w] # "none" /\ req[w].op \in OrderOps =>
           /\ outcome[w] \in {"ok", "insufficient"} /\ target[w] = NewStatus(w)
           /\ outcome[w] = "ok" /\ Needs(w) => flushed[w] # NoMovement
    /\ outcome[w] = "ok" /\ target[w] = "none" => req[w].op = "adjust"
    /\ outcome[w] = "conflict" =>
           /\ req[w].op \in OrderOps /\ target[w] = "none"
           /\ snap[w].version < Row(w).version

TaskOf(w) == FlushedOf(w) /\ ProgressOf(w) /\ AnswerOf(w)

TasksInv     == \A w \in Workers : TaskOf(w)
InventoryInv == VersionInv /\ PendingInv /\ AgesInv /\ TasksInv

-----------------------------------------------------------------------------
(* Each action keeps the invariant.                                        *)

\* No order is placed and no request is under way initially.
LEMMA InitInventoryInv == Init => InventoryInv
<1> SUFFICES ASSUME Init PROVE InventoryInv
  OBVIOUS
<1>1. VersionInv /\ PendingInv
  BY InitVersionInv, InitLedgerInv DEF LedgerInv
<1>2. AgesInv
  BY DEF Init, AgesInv, Aged, Age, AbsentRow
<1>3. TasksInv
  BY DEF Init, TasksInv, TaskOf, FlushedOf, ProgressOf, AnswerOf, Idle, OrderOps
<1> QED
  BY <1>1, <1>2, <1>3 DEF InventoryInv

\* A step of w that commits nothing disturbs no other task.
LEMMA OtherTasks ==
    ASSUME InventoryInv, NEW w \in Workers, db' = db,
           \A v \in Workers \ {w} : Untouched(v),
           \A i \in Items : itemLock[i] \in Workers \ {w} => itemLock'[i] = itemLock[i],
           TaskOf(w)'
    PROVE  TasksInv'
<1> SUFFICES ASSUME NEW v \in Workers \ {w} PROVE TaskOf(v)'
  BY DEF TasksInv
<1>1. TaskOf(v) /\ Untouched(v)
  BY DEF InventoryInv, TasksInv
<1>2. FlushedOf(v)'
  BY <1>1 DEF TaskOf, FlushedOf, MovementOf, Untouched, Needs, Allowed
<1>3. ProgressOf(v)'
  BY <1>1 DEF TaskOf, ProgressOf, Untouched, Needs, StockRead, db
<1>4. AnswerOf(v)'
  BY <1>1 DEF TaskOf, AnswerOf, Untouched, Needs, NewStatus, Row, db
<1> QED
  BY <1>2, <1>3, <1>4 DEF TaskOf

\* A snapshot is a row.
LEMMA StartTasks ==
    ASSUME InventoryInv, NEW w \in Workers, Start(w)
    PROVE  AgesInv' /\ TasksInv'
<1>0. /\ TypeOK /\ ShapeOf(w) /\ VersionsOf(w) /\ PendingOf(w) /\ TaskOf(w) /\ AgesInv
  BY DEF InventoryInv, VersionInv, PendingInv, TypeInv, Shape, TasksInv
<1>1. /\ pc[w] = "idle" /\ db' = db /\ itemLock' = itemLock /\ flushed' = flushed
      /\ flushed[w] = NoMovement /\ target[w] = "none" /\ outcome[w] = "none"
      /\ \A v \in Workers \ {w} : Untouched(v)
  BY <1>0 DEF TypeOK, Start, PlaceOrder, ReadOrder, StartAdjust, Untouched, PendingOf,
              ShapeOf, VersionsOf, DecisionOf
<1>2. ASSUME NEW o \in Orders, PlaceOrder(w, o) PROVE AgesInv' /\ TaskOf(w)'
  <2>1. /\ req'[w].op = "place" /\ pc'[w] = "done" /\ outcome'[w] = "ok"
        /\ target'[w] = "PENDING" /\ snap' = snap
    BY <1>0, <1>2, OrderRequestType DEF TypeOK, PlaceOrder, OrderRequest
  <2> QED
    BY <1>0, <1>1, <2>1 DEF AgesInv, Aged, db, TaskOf, FlushedOf, ProgressOf, AnswerOf, OrderOps
<1>3. ASSUME NEW op \in OrderOps, NEW o \in Orders, ReadOrder(w, op, o)
      PROVE  AgesInv' /\ TaskOf(w)'
  <2>1. /\ req'[w].op = op /\ snap' = [snap EXCEPT ![w] = orders[o]] /\ target' = target
        /\ op # "adjust"
        /\ \/ pc'[w] = "done" /\ outcome'[w] = "refused"
           \/ pc'[w] = "lock" /\ NeedsItem(op, orders[o].status) /\ outcome'[w] = "none"
           \/ pc'[w] = "update" /\ ~ NeedsItem(op, orders[o].status) /\ outcome'[w] = "none"
    BY <1>0, <1>1, <1>3 DEF TypeOK, ReadOrder, OrderRequest, OrderOps
  <2>2. AgesInv'
    BY <1>0, <1>1, <2>1 DEF TypeOK, AgesInv, Aged, db
  <2>3. TaskOf(w)'
    BY <1>0, <1>1, <2>1 DEF TypeOK, TaskOf, FlushedOf, ProgressOf, AnswerOf, Needs
  <2> QED
    BY <2>2, <2>3
<1>4. ASSUME NEW i \in Items, NEW d \in Deltas, StartAdjust(w, i, d)
      PROVE  AgesInv' /\ TaskOf(w)'
  <2>1. /\ req'[w].op = "adjust" /\ req'[w].delta = d /\ pc'[w] = "lock" /\ snap' = snap
        /\ target' = target /\ outcome' = outcome
    BY <1>0, <1>4 DEF TypeOK, StartAdjust
  <2> QED
    BY <1>0, <1>1, <2>1 DEF AgesInv, Aged, db, TaskOf, FlushedOf, ProgressOf, AnswerOf, OrderOps
<1> QED
  BY <1>0, <1>1, <1>2, <1>3, <1>4, OtherTasks DEF Start

\* What is flushed is what was asked for; what is short is short under the lock.
LEMMA TakeItemTasks ==
    ASSUME InventoryInv, NEW w \in Workers, TakeItem(w)
    PROVE  AgesInv' /\ TasksInv'
<1>0. /\ TypeOK /\ TypeInv /\ ShapeOf(w) /\ VersionsOf(w) /\ TaskOf(w) /\ AgesInv
  BY DEF InventoryInv, VersionInv, PendingInv, TypeInv, Shape, TasksInv
<1>1. /\ pc[w] = "lock" /\ LockItem(w) /\ db' = db /\ req' = req /\ snap' = snap
      /\ target' = target /\ outcome[w] = "none" /\ target[w] = "none"
      /\ req[w].op \in OrderOps \cup {"adjust"} /\ req[w].item \in Items
      /\ itemLock[req[w].item] = NoWorker
      /\ itemLock' = [itemLock EXCEPT ![req[w].item] = w]
  BY <1>0, ItemOfRequest DEF TakeItem, FlushMovement, FindTooLittle, FlushFails, LockItem,
     ItemRowFree, ShapeOf, VersionsOf, DecisionOf
<1>2. flushed[w] = NoMovement
  BY <1>1, NothingFlushed DEF InventoryInv
<1>3. \A v \in Workers \ {w} : Untouched(v)
  BY <1>0, <1>1 DEF TypeOK, TakeItem, FlushMovement, FindTooLittle, FlushFails, Untouched
<1>4. \A i \in Items : itemLock[i] \in Workers \ {w} => itemLock'[i] = itemLock[i]
  BY <1>0, <1>1, NoWorkerAssumption DEF TypeOK
<1>5. AgesInv'
  BY <1>0, <1>1 DEF AgesInv, Aged, db
<1>6. CASE FlushMovement(w)
  <2>1. /\ flushed'[w] = MovementOf(w, StockRead(w)) /\ pc'[w] = "cache"
        /\ outcome'[w] = "none" /\ MovementOf(w, StockRead(w)).quantity_delta = req[w].delta
    BY <1>0, <1>1, <1>6 DEF TypeOK, FlushMovement, MovementOf
  <2>2. req[w].op \in OrderOps => Needs(w) /\ Allowed(w)
    BY <1>0, <1>1 DEF TaskOf, ProgressOf, VersionsOf, DecisionOf, Allowed
  <2>3. FlushedOf(w)'
    BY <1>1, <2>1, <2>2 DEF FlushedOf, MovementOf, Needs, Allowed
  <2>4. ProgressOf(w)' /\ AnswerOf(w)'
    BY <1>0, <1>1, <2>1 DEF TaskOf, ProgressOf, AnswerOf
  <2> QED
    BY <1>1, <1>3, <1>4, <1>5, <2>3, <2>4, OtherTasks DEF TaskOf
<1>7. CASE FindTooLittle(w)
  <2>1. /\ TooLittle(StockRead(w), req[w].delta) /\ flushed'[w] = NoMovement
        /\ pc'[w] \in {"done", "update"} /\ outcome'[w] = "insufficient"
    BY <1>0, <1>2, <1>7 DEF TypeOK, FindTooLittle
  <2>2. TooLittle(StockRead(w), req[w].delta)' /\ itemLock'[req'[w].item] = w
    BY <1>0, <1>1, <2>1 DEF TooLittle, StockRead, db, TypeOK
  <2>3. TaskOf(w)'
    BY <1>1, <2>1, <2>2 DEF TaskOf, FlushedOf, ProgressOf, AnswerOf
  <2> QED
    BY <1>1, <1>3, <1>4, <1>5, <2>3, OtherTasks
<1>8. CASE FlushFails(w)
  <2>1. flushed'[w] = NoMovement /\ pc'[w] = "done" /\ outcome'[w] = "error"
    BY <1>0, <1>2, <1>8 DEF TypeOK, FlushFails
  <2>2. TaskOf(w)'
    BY <1>1, <2>1 DEF TaskOf, FlushedOf, ProgressOf, AnswerOf
  <2> QED
    BY <1>1, <1>3, <1>4, <1>5, <2>2, OtherTasks
<1> QED
  BY <1>6, <1>7, <1>8 DEF TakeItem

\* After the cache a request goes on with what it has flushed.
LEMMA WriteCacheTasks ==
    ASSUME InventoryInv, NEW w \in Workers, WriteCache(w)
    PROVE  AgesInv' /\ TasksInv'
<1>0. /\ TypeOK /\ ShapeOf(w) /\ VersionsOf(w) /\ TaskOf(w) /\ AgesInv
  BY DEF InventoryInv, VersionInv, PendingInv, TypeInv, Shape, TasksInv
<1>1. /\ pc[w] = "cache" /\ db' = db /\ itemLock' = itemLock /\ req' = req /\ snap' = snap
      /\ flushed' = flushed /\ target' = target /\ AfterCache(w)
  BY DEF WriteCache, SetCache, SetCacheFails
<1>2. flushed[w] # NoMovement /\ outcome[w] = "none"
  BY <1>0, <1>1, NoMovementAssumption DEF ShapeOf, VersionsOf, DecisionOf
<1>3. \/ pc'[w] = "done" /\ req[w].op = "adjust" /\ outcome'[w] = "ok"
      \/ pc'[w] = "update" /\ outcome'[w] = "none"
  BY <1>0, <1>1, <1>2 DEF TypeOK, AfterCache
<1>4. \A v \in Workers \ {w} : Untouched(v)
  BY <1>0, <1>1 DEF TypeOK, AfterCache, Untouched
<1>5. target[w] = "none"
  BY <1>0, <1>1 DEF ShapeOf
<1>6. FlushedOf(w)'
  BY <1>0, <1>1, <1>2, <1>3 DEF TaskOf, FlushedOf, MovementOf, Needs, Allowed
<1>7. ProgressOf(w)' /\ AnswerOf(w)'
  BY <1>0, <1>1, <1>2, <1>3, <1>5 DEF TaskOf, ProgressOf, AnswerOf
<1>8. AgesInv'
  BY <1>0, <1>1 DEF AgesInv, Aged, db
<1> QED
  BY <1>1, <1>4, <1>6, <1>7, <1>8, OtherTasks DEF TaskOf

\* The UPDATE of the order finds the row that was read, or a newer one.
LEMMA WriteOrderTasks ==
    ASSUME InventoryInv, NEW w \in Workers, WriteOrder(w)
    PROVE  AgesInv' /\ TasksInv'
<1>0. /\ TypeOK /\ TypeInv /\ ShapeOf(w) /\ VersionsOf(w) /\ TaskOf(w) /\ AgesInv
  BY DEF InventoryInv, VersionInv, PendingInv, TypeInv, Shape, TasksInv
<1>1. /\ pc[w] = "update" /\ pc'[w] = "done" /\ db' = db /\ itemLock' = itemLock
      /\ req' = req /\ snap' = snap /\ flushed' = flushed
  BY <1>0 DEF TypeOK, WriteOrder, TransitionStatus, TransitionConflicts
<1>2. req[w].op \in OrderOps /\ req[w].op # "adjust" /\ target[w] = "none"
  BY <1>0, <1>1 DEF ShapeOf, OrderOps
<1>3. \A v \in Workers \ {w} : Untouched(v)
  BY <1>0 DEF TypeOK, WriteOrder, TransitionStatus, TransitionConflicts, Untouched
<1>4. AgesInv'
  BY <1>0, <1>1 DEF AgesInv, Aged, db
<1>5. CASE TransitionStatus(w)
  <2>1. /\ target'[w] = NewStatus(w)
        /\ \/ outcome[w] = "insufficient" /\ outcome'[w] = "insufficient"
           \/ outcome[w] # "insufficient" /\ outcome'[w] = "ok"
    BY <1>0, <1>5 DEF TypeOK, TransitionStatus
  <2>2. target'[w] = NewStatus(w)'
    BY <1>1, <2>1 DEF NewStatus
  <2>3. FlushedOf(w)'
    BY <1>0, <1>1, <2>1 DEF TaskOf, FlushedOf, MovementOf, Needs, Allowed
  <2>4. ProgressOf(w)'
    BY <1>0, <1>1, <1>2, <2>1 DEF TaskOf, ProgressOf, StockRead, db
  <2>5. AnswerOf(w)'
    <3>1. NewStatus(w) # "none"
      BY <1>2 DEF NewStatus, Goal
    <3>2. Needs(w)' /\ outcome'[w] = "ok" => flushed'[w] # NoMovement
      BY <1>0, <1>1, <2>1 DEF TaskOf, ProgressOf, Needs
    <3> QED
      BY <2>1, <2>2, <3>1, <3>2 DEF AnswerOf
  <2> QED
    BY <1>1, <1>3, <1>4, <2>3, <2>4, <2>5, OtherTasks DEF TaskOf
<1>6. CASE TransitionConflicts(w)
  <2>1. target' = target /\ outcome'[w] = "conflict" /\ Row(w).version # snap[w].version
    BY <1>0, <1>6 DEF TypeOK, TransitionConflicts, VersionMatches, Row
  <2>2. snap[w].version < Row(w).version
    <3>1. snap[w].version \in Nat /\ Row(w).version \in Nat
      BY <1>0, <1>2, RowTypes DEF OrderOpsAndPlace
    <3> QED
      BY <1>0, <1>2, <2>1, <3>1 DEF VersionsOf, SnapshotOf
  <2>3. FlushedOf(w)'
    BY <1>0, <1>1, <2>1 DEF TaskOf, FlushedOf, MovementOf, Needs, Allowed
  <2>4. ProgressOf(w)'
    BY <1>0, <1>1, <1>2, <2>1 DEF TaskOf, ProgressOf
  <2>5. AnswerOf(w)'
    BY <1>1, <1>2, <2>1, <2>2 DEF AnswerOf, Row, db
  <2> QED
    BY <1>1, <1>3, <1>4, <2>3, <2>4, <2>5, OtherTasks DEF TaskOf
<1> QED
  BY <1>5, <1>6 DEF WriteOrder

\* A commit moves a row to the next age of its status.
LEMMA EndRequestAges ==
    ASSUME InventoryInv, NEW w \in Workers, EndRequest(w) \/ Abort(w)
    PROVE  AgesInv'
<1>0. VersionInv /\ TypeOK /\ AgesInv
  BY DEF InventoryInv, VersionInv, TypeInv
<1>1. snap' = [snap EXCEPT ![w] = AbsentRow]
  BY DEF EndRequest, Commit, Rollback, Abort, Release
<1>2. \A v \in Workers : Aged(snap'[v])
  BY <1>0, <1>1 DEF AgesInv, Aged, Age, AbsentRow, TypeOK
<1>3. ASSUME NEW o \in Orders PROVE Aged(orders'[o])
  <2>1. CASE orders' = orders
    BY <1>0, <2>1 DEF AgesInv
  <2>2. CASE Commit(w) /\ target[w] # "none"
    <3> DEFINE p == req[w].order
    <3>1. /\ p \in Orders
          /\ orders' = [orders EXCEPT ![p] = [status |-> target[w], version |-> @.version + 1]]
          /\ \/ orders[p] = AbsentRow /\ target[w] = "PENDING"
             \/ CanTransition(orders[p].status, target[w])
      BY <1>0, <2>2, CommitOrderEffect DEF Commit, Row
    <3>2. orders \in [Orders -> OrderRows] /\ Aged(orders[p]) /\ Aged(orders[o])
      BY <1>0, <3>1 DEF TypeOK, AgesInv
    <3>3. orders[p].version + 1 \in Age[target[w]]
      <4>1. CASE orders[p] = AbsentRow /\ target[w] = "PENDING"
        BY <4>1 DEF AbsentRow, Age
      <4>2. CASE CanTransition(orders[p].status, target[w])
        BY <3>2, <4>2 DEF CanTransition, ValidTransitions, Aged, Age
      <4> QED
        BY <3>1, <4>1, <4>2
    <3> QED
      BY <3>1, <3>2, <3>3 DEF Aged
  <2> QED
    BY <1>0, <2>1, <2>2, CommitOrderEffect
       DEF EndRequest, Commit, Rollback, Abort, db
<1> QED
  BY <1>2, <1>3 DEF AgesInv

\* What w commits is another item than those that others hold, and makes the order
\* row newer.
LEMMA EndRequestOthers ==
    ASSUME InventoryInv, NEW w \in Workers, EndRequest(w) \/ Abort(w),
           NEW v \in Workers \ {w}
    PROVE  TaskOf(v)'
<1>0. /\ VersionInv /\ PendingInv /\ TypeOK /\ ShapeOf(v) /\ TaskOf(v)
      /\ Release(w) /\ Untouched(v)
  BY ReleaseEffect DEF InventoryInv, VersionInv, PendingInv, TypeInv, Shape, TasksInv,
     EndRequest, Commit, Rollback, Abort
<1>1. FlushedOf(v)'
  BY <1>0 DEF TaskOf, FlushedOf, MovementOf, Untouched, Needs, Allowed
<1>2. ProgressOf(v)'
  <2>1. ASSUME outcome[v] = "insufficient"
        PROVE  itemLock'[req[v].item] = v /\ StockRead(v)' = StockRead(v)
    <3>1. req[v].item \in Items /\ itemLock[req[v].item] = v
      BY <1>0, <2>1 DEF TaskOf, ProgressOf
    <3>2. itemLock'[req[v].item] = v
      BY <1>0, <3>1 DEF Release
    <3>3. CASE menu_items' = menu_items
      BY <1>0, <3>2, <3>3 DEF StockRead, Untouched
    <3>4. CASE Commit(w) /\ flushed[w] # NoMovement
      <4>1. itemLock[req[w].item] = w
        BY <1>0, <3>4 DEF PendingInv, PendingOf
      <4>2. menu_items'[req[v].item] = menu_items[req[v].item]
        BY <1>0, <3>1, <3>4, <4>1 DEF Commit, CommitItem, TypeOK
      <4> QED
        BY <1>0, <3>2, <4>2 DEF StockRead, Untouched
    <3> QED
      BY <3>2, <3>3, <3>4 DEF EndRequest, Commit, CommitItem, Rollback, Abort, db
  <2> QED
    BY <1>0, <2>1 DEF TaskOf, ProgressOf, Untouched, Needs
<1>3. AnswerOf(v)'
  <2>1. ASSUME outcome[v] = "conflict" PROVE snap[v].version < Row(v)'.version
    <3>1. /\ req[v].order \in Orders /\ snap[v].version < Row(v).version
          /\ snap[v].version \in Nat /\ Row(v).version \in Nat /\ req'[v] = req[v]
      BY <1>0, <2>1, RowTypes
         DEF TaskOf, AnswerOf, ShapeOf, OrderOpsAndPlace, VersionInv, Untouched
    <3>2. CASE orders' = orders
      BY <3>1, <3>2 DEF Row
    <3>3. CASE Commit(w) /\ target[w] # "none"
      <4>1. \/ orders'[req[v].order] = orders[req[v].order]
            \/ orders'[req[v].order].version = orders[req[v].order].version + 1
        BY <1>0, <3>1, <3>3 DEF Commit, CommitOrder, TypeOK
      <4> QED
        BY <3>1, <4>1 DEF Row
    <3> QED
      BY <3>2, <3>3 DEF EndRequest, Commit, CommitOrder, Rollback, Abort, db
  <2> QED
    BY <1>0, <2>1 DEF TaskOf, AnswerOf, Untouched, Needs, NewStatus
<1> QED
  BY <1>1, <1>2, <1>3 DEF TaskOf

\* A worker whose request has ended has no task.
LEMMA EndRequestTasks ==
    ASSUME InventoryInv, NEW w \in Workers, EndRequest(w) \/ Abort(w)
    PROVE  AgesInv' /\ TasksInv'
<1>1. /\ req'[w] = Idle /\ target'[w] = "none" /\ pc'[w] = "idle" /\ outcome'[w] = "none"
      /\ flushed'[w] = NoMovement
  BY DEF InventoryInv, VersionInv, TypeInv, TypeOK, EndRequest, Commit, Rollback, Abort, Release
<1>2. TaskOf(w)'
  BY <1>1 DEF TaskOf, FlushedOf, ProgressOf, AnswerOf
<1> QED
  BY <1>2, EndRequestAges, EndRequestOthers DEF TasksInv

\* Every step of every request keeps the tasks.
LEMMA NextInventoryInv == InventoryInv /\ [Next]_vars => InventoryInv'
<1> SUFFICES ASSUME InventoryInv, [Next]_vars PROVE InventoryInv'
  OBVIOUS
<1>1. VersionInv' /\ PendingInv'
  BY NextVersionInv, NextPendingInv DEF InventoryInv
<1>2. AgesInv' /\ TasksInv'
  <2>1. CASE (\E i \in Items : Expire(i)) \/ UNCHANGED vars
    <3>1. db' = db /\ itemLock' = itemLock /\ tx' = tx
      BY <2>1 DEF Expire, vars, db, tx
    <3>2. \A w \in Workers : TaskOf(w)'
      BY <3>1 DEF InventoryInv, TasksInv, TaskOf, FlushedOf, MovementOf, ProgressOf, AnswerOf, Needs,
                  Allowed, StockRead, NewStatus, Row, db, tx
    <3> QED
      BY <3>1, <3>2 DEF InventoryInv, AgesInv, Aged, TasksInv, db, tx
  <2> QED
    BY <2>1, StartTasks, TakeItemTasks, WriteCacheTasks, WriteOrderTasks, EndRequestTasks
       DEF Next
<1> QED
  BY <1>1, <1>2 DEF InventoryInv

-----------------------------------------------------------------------------
(* A commit is a step of the promise.                                      *)

\* The stock that a commit leaves is the stock before and what was asked for.
LEMMA CommitMoves ==
    ASSUME InventoryInv, NEW w \in Workers, Commit(w), flushed[w] # NoMovement,
           NEW i, NEW d, i = req[w].item, d = req[w].delta
    PROVE  i \in Items /\ Promise!Move(i, d)
<1>1. /\ i \in Items /\ flushed[w] \in Movements
      /\ flushed[w].stock_before = menu_items[i].stock_quantity
      /\ flushed[w].stock_after = flushed[w].stock_before + flushed[w].quantity_delta
      /\ flushed[w].quantity_delta = d
  BY DEF InventoryInv, PendingInv, PendingOf, TypeInv, TypeOK, Shape, ShapeOf,
         TasksInv, TaskOf, FlushedOf, MovementOf
<1>2. menu_items[i].stock_quantity + d = flushed[w].stock_after
      /\ flushed[w].stock_after \in 0..IntMax
  BY <1>1 DEF Movements, Stock
<1>3. menu_items' = [menu_items EXCEPT ![i] =
             [stock_quantity |-> flushed[w].stock_after, version |-> @.version + 1]]
      /\ menu_items \in [Items -> [stock_quantity : Stock, version : Nat]]
  BY DEF Commit, CommitItem, InventoryInv, PendingInv, TypeInv, TypeOK
<1> QED
  BY <1>1, <1>2, <1>3 DEF Promise!Move

\* The status that a commit leaves is the one that was written.
LEMMA CommitBecomes ==
    ASSUME InventoryInv, NEW w \in Workers, Commit(w), target[w] # "none",
           NEW o, NEW s, o = req[w].order, s = target[w]
    PROVE  o \in Orders /\ Promise!Become(o, s)
<1>1. /\ o \in Orders
      /\ orders' = [orders EXCEPT ![o] = [status |-> s, version |-> @.version + 1]]
      /\ orders \in [Orders -> OrderRows]
  BY DEF Commit, CommitOrder, InventoryInv, VersionInv, TypeInv, TypeOK, Shape, ShapeOf
<1> QED
  BY <1>1 DEF Promise!Become

\* Without a movement a commit leaves stock alone, without a transition the orders.
LEMMA CommitKeeps ==
    ASSUME NEW w \in Workers, Commit(w)
    PROVE  /\ flushed[w] = NoMovement =>
                  UNCHANGED [i \in Items |-> menu_items[i].stock_quantity]
           /\ target[w] = "none" => UNCHANGED [o \in Orders |-> orders[o].status]
BY DEF Commit, CommitItem, CommitOrder

\* What a request for an order asks of the stock.
LEMMA AsksFor ==
    ASSUME InventoryInv, NEW w \in Workers, req[w].op \in OrderOpsAndPlace
    PROVE  /\ req[w].order \in Orders /\ req[w].item = item_id[req[w].order]
           /\ quantity[req[w].order] \in Nat \ {0}
           /\ req[w].op = "confirm" => req[w].delta = -quantity[req[w].order]
           /\ req[w].op = "cancel" => req[w].delta = quantity[req[w].order]
           /\ req[w].op # "confirm" => req[w].delta \in Nat
<1>1. ShapeOf(w)
  BY DEF InventoryInv, VersionInv, TypeInv, Shape
<1> QED
  BY <1>1, ConstantsAssumption DEF ShapeOf, OrderRequest

\* A transition commits what was read of the row and its movement with it: stock for
\* a confirmed order, or back from a cancelled one that held some.
LEMMA TransitionKinds ==
    ASSUME InventoryInv, NEW w \in Workers, Commit(w), target[w] # "none",
           NEW o, o = req[w].order
    PROVE  /\ o \in Orders /\ outcome[w] # "conflict"
           /\ \/ /\ flushed[w] = NoMovement
                 /\ \/ orders[o] = AbsentRow /\ target[w] = "PENDING"
                    \/ orders[o].status = "PENDING" /\ target[w] = "CANCELLED"
                    \/ orders[o].status = "CONFIRMED" /\ target[w] = "SHIPPED"
                    \/ orders[o].status = "SHIPPED" /\ target[w] = "DELIVERED"
                    \/ /\ orders[o].status = "PENDING" /\ target[w] = "REJECTED"
                       /\ menu_items[item_id[o]].stock_quantity < quantity[o]
              \/ /\ flushed[w] # NoMovement
                 /\ req[w].item = item_id[o] /\ flushed[w].order = o
                 /\ \/ /\ orders[o].status = "PENDING" /\ target[w] = "CONFIRMED"
                       /\ flushed[w].movement_type = "DEDUCTION" /\ req[w].delta = -quantity[o]
                    \/ /\ orders[o].status \in {"CONFIRMED", "SHIPPED"}
                       /\ target[w] = "CANCELLED"
                       /\ flushed[w].movement_type = "RESTORATION" /\ req[w].delta = quantity[o]
<1>0. TaskOf(w) /\ VersionsOf(w) /\ ShapeOf(w) /\ o \in Orders
  BY DEF InventoryInv, TasksInv, VersionInv, TypeInv, Shape, ShapeOf
<1>1. CASE req[w].op = "place"
  <2>1. orders[o] = AbsentRow /\ target[w] = "PENDING"
    BY <1>0, <1>1 DEF VersionsOf, WriteOf, Row
  <2>2. flushed[w] = NoMovement /\ outcome[w] # "conflict"
    BY <1>0, <1>1 DEF TaskOf, FlushedOf, AnswerOf, OrderOps
  <2> QED
    BY <1>0, <2>1, <2>2
<1>2. CASE req[w].op \in OrderOps
  <2>1. /\ orders[o] = snap[w] /\ CanTransition(snap[w].status, target[w])
        /\ outcome[w] \in {"ok", "insufficient"} /\ target[w] = NewStatus(w)
        /\ outcome[w] = "ok" /\ Needs(w) => flushed[w] # NoMovement
        /\ flushed[w] # NoMovement => Needs(w) /\ outcome[w] = "ok"
    BY <1>0, <1>2 DEF TaskOf, FlushedOf, AnswerOf, VersionsOf, WriteOf, Row, OrderOps
  <2>2. /\ req[w].item = item_id[o] /\ quantity[o] \in Nat \ {0}
        /\ req[w].op = "confirm" => req[w].delta = -quantity[o]
        /\ req[w].op = "cancel" => req[w].delta = quantity[o]
        /\ req[w].op # "confirm" => req[w].delta \in Nat
    BY <1>2, AsksFor DEF OrderOpsAndPlace
  <2>3. flushed[w] # NoMovement =>
            /\ flushed[w].order = o
            /\ req[w].op = "confirm" => flushed[w].movement_type = "DEDUCTION"
            /\ req[w].op = "cancel" => flushed[w].movement_type = "RESTORATION"
    BY <1>0 DEF TaskOf, FlushedOf, MovementOf
  <2>4. CASE outcome[w] = "insufficient"
    <3>1. target[w] = "REJECTED" /\ flushed[w] = NoMovement
      BY <2>1, <2>4 DEF NewStatus
    <3>2. snap[w].status = "PENDING"
      BY <2>1, <3>1 DEF CanTransition, ValidTransitions
    <3>3. /\ menu_items[item_id[o]].stock_quantity \in Nat
          /\ menu_items[item_id[o]].stock_quantity + req[w].delta < 0
      BY <1>0, <2>2, <2>4, ConstantsAssumption
         DEF TaskOf, ProgressOf, TooLittle, StockRead, InventoryInv, VersionInv, TypeInv,
             TypeOK, Stock
    <3>4. menu_items[item_id[o]].stock_quantity < quantity[o]
      BY <2>2, <3>3
    <3> QED
      BY <1>0, <2>1, <2>4, <3>1, <3>2, <3>4
  <2>5. CASE outcome[w] = "ok"
    <3>1. target[w] = Goal(req[w].op) /\ (Needs(w) <=> flushed[w] # NoMovement)
      BY <2>1, <2>5 DEF NewStatus
    <3>2. CASE req[w].op = "confirm"
      <4>1. target[w] = "CONFIRMED" /\ snap[w].status = "PENDING" /\ flushed[w] # NoMovement
        BY <2>1, <3>1, <3>2 DEF Goal, CanTransition, ValidTransitions, Needs, NeedsItem
      <4> QED
        BY <1>0, <2>1, <2>2, <2>3, <2>5, <3>2, <4>1
    <3>3. CASE req[w].op = "ship"
      <4>1. target[w] = "SHIPPED" /\ snap[w].status = "CONFIRMED" /\ flushed[w] = NoMovement
        BY <2>1, <3>1, <3>3 DEF Goal, CanTransition, ValidTransitions, Needs, NeedsItem
      <4> QED
        BY <1>0, <2>1, <2>5, <4>1
    <3>4. CASE req[w].op = "deliver"
      <4>1. target[w] = "DELIVERED" /\ snap[w].status = "SHIPPED" /\ flushed[w] = NoMovement
        BY <2>1, <3>1, <3>4 DEF Goal, CanTransition, ValidTransitions, Needs, NeedsItem
      <4> QED
        BY <1>0, <2>1, <2>5, <4>1
    <3>5. CASE req[w].op = "cancel"
      <4>1. target[w] = "CANCELLED"
        BY <3>1, <3>5 DEF Goal
      <4>2. \/ snap[w].status = "PENDING" /\ flushed[w] = NoMovement
            \/ snap[w].status \in {"CONFIRMED", "SHIPPED"} /\ flushed[w] # NoMovement
        BY <2>1, <3>1, <3>5, <4>1
           DEF CanTransition, ValidTransitions, Needs, NeedsItem, Restores, StockHoldingStates
      <4> QED
        BY <1>0, <2>1, <2>2, <2>3, <2>5, <3>5, <4>1, <4>2
    <3> QED
      BY <1>2, <3>2, <3>3, <3>4, <3>5 DEF OrderOps
  <2> QED
    BY <2>1, <2>4, <2>5
<1> QED
  BY <1>0, <1>1, <1>2 DEF ShapeOf, OrderOpsAndPlace

\* A commit without a transition is an adjustment, or what get_db commits of a 409:
\* the movement for a row that has moved on since it was read.
LEMMA MovementKinds ==
    ASSUME InventoryInv, NEW w \in Workers, Commit(w), target[w] = "none",
           flushed[w] # NoMovement, NEW o, o = req[w].order
    PROVE  \/ /\ outcome[w] = "ok" /\ req[w].delta \in Deltas
              /\ flushed[w].movement_type = "ADJUSTMENT"
           \/ /\ OnHttpError = "commit" /\ outcome[w] = "conflict"
              /\ o \in Orders /\ req[w].item = item_id[o] /\ flushed[w].order = o
              /\ \/ /\ orders[o].status \notin {"ABSENT", "PENDING"}
                    /\ flushed[w].movement_type = "DEDUCTION" /\ req[w].delta = -quantity[o]
                 \/ /\ orders[o].status \in {"SHIPPED", "DELIVERED", "CANCELLED"}
                    /\ flushed[w].movement_type = "RESTORATION" /\ req[w].delta = quantity[o]
<1>0. TaskOf(w) /\ VersionsOf(w) /\ ShapeOf(w)
  BY DEF InventoryInv, TasksInv, VersionInv, TypeInv, Shape
<1>1. outcome[w] \in {"ok", "conflict"} /\ Commits(outcome[w])
  BY <1>0 DEF TaskOf, FlushedOf, Commit, Commits, HttpErrors
<1>2. CASE req[w].op = "adjust"
  <2>1. req[w].delta \in Deltas /\ outcome[w] = "ok"
    BY <1>0, <1>1, <1>2 DEF TaskOf, ProgressOf, AnswerOf, OrderOps
  <2>2. flushed[w].movement_type = "ADJUSTMENT"
    BY <1>0, <1>2 DEF TaskOf, FlushedOf, MovementOf
  <2> QED
    BY <2>1, <2>2
<1>3. CASE req[w].op # "adjust"
  <2>1. /\ req[w].op \in OrderOps /\ outcome[w] = "conflict" /\ Needs(w) /\ Allowed(w)
        /\ snap[w].version < Row(w).version
    BY <1>0, <1>1, <1>3 DEF TaskOf, FlushedOf, AnswerOf
  <2>2. OnHttpError = "commit"
    BY <1>1, <2>1 DEF Commits
  <2>3. /\ o \in Orders /\ req[w].item = item_id[o] /\ quantity[o] \in Nat \ {0}
        /\ req[w].op = "confirm" => req[w].delta = -quantity[o]
        /\ req[w].op = "cancel" => req[w].delta = quantity[o]
    BY <2>1, AsksFor DEF OrderOpsAndPlace
  <2>4. /\ snap[w].version < orders[o].version
        /\ Aged(snap[w]) /\ Aged(orders[o]) /\ orders[o] \in OrderRows
    BY <2>1, <2>3 DEF Row, InventoryInv, AgesInv, VersionInv, TypeInv, TypeOK
  <2>5. /\ flushed[w].order = o
        /\ req[w].op = "confirm" => flushed[w].movement_type = "DEDUCTION"
        /\ req[w].op = "cancel" => flushed[w].movement_type = "RESTORATION"
    BY <1>0 DEF TaskOf, FlushedOf, MovementOf
  <2>6. CASE req[w].op = "confirm"
    <3>1. snap[w].status = "PENDING"
      BY <2>1, <2>6 DEF Allowed, Goal, CanTransition, ValidTransitions
    <3>2. orders[o].status \notin {"ABSENT", "PENDING"}
      BY <2>4, <3>1 DEF Aged, Age
    <3> QED
      BY <2>1, <2>2, <2>3, <2>5, <2>6, <3>2
  <2>7. CASE req[w].op = "cancel"
    <3>1. snap[w].status \in {"CONFIRMED", "SHIPPED"}
      BY <2>1, <2>7 DEF Allowed, Needs, NeedsItem, Restores, StockHoldingStates, Goal,
                        CanTransition, ValidTransitions
    <3>2. orders[o].status \in {"SHIPPED", "DELIVERED", "CANCELLED"}
      BY <2>4, <3>1 DEF Aged, Age, OrderRows, OrderStatuses
    <3> QED
      BY <2>1, <2>2, <2>3, <2>5, <2>7, <3>2
  <2> QED
    BY <2>1, <2>6, <2>7 DEF Needs, NeedsItem
<1> QED
  BY <1>2, <1>3

\* A transition that commits is one step of the promise.
LEMMA TransitionKeepsPromise ==
    ASSUME InventoryInv, NEW w \in Workers, Commit(w), target[w] # "none"
    PROVE  Promise!Next
<1> PICK o : o = req[w].order
  OBVIOUS
<1>1. o \in Orders /\ \A s : s = target[w] => Promise!Become(o, s)
  BY CommitBecomes
<1>2. CASE flushed[w] = NoMovement
  <2>1. UNCHANGED [i \in Items |-> menu_items[i].stock_quantity] /\ item_id[o] \in Items
    BY <1>1, <1>2, CommitKeeps, ConstantsAssumption
  <2>2. \/ Promise!Place(o) \/ Promise!Reject(o) \/ Promise!Ship(o)
        \/ Promise!Deliver(o) \/ Promise!Drop(o)
    BY <1>1, <1>2, <2>1, TransitionKinds
       DEF Promise!Place, Promise!Reject, Promise!Ship, Promise!Deliver, Promise!Drop, AbsentRow
  <2> QED
    BY <1>1, <2>2 DEF Promise!Next
<1>3. CASE flushed[w] # NoMovement
  <2>1. \A i, d : i = req[w].item /\ d = req[w].delta => Promise!Move(i, d)
    BY <1>3, CommitMoves
  <2>2. Promise!Confirm(o) \/ Promise!Return(o)
    BY <1>1, <1>3, <2>1, TransitionKinds DEF Promise!Confirm, Promise!Return
  <2> QED
    BY <1>1, <2>2 DEF Promise!Next
<1> QED
  BY <1>2, <1>3

\* A movement that commits alone is an adjustment, or a lost step.
LEMMA MovementKeepsPromise ==
    ASSUME InventoryInv, NEW w \in Workers, Commit(w), target[w] = "none",
           flushed[w] # NoMovement
    PROVE  \/ Promise!Next
           \/ /\ OnHttpError = "commit"
              /\ \E o \in Orders : Promise!LostConfirm(o) \/ Promise!LostCancel(o)
<1> PICK i, d, o : i = req[w].item /\ d = req[w].delta /\ o = req[w].order
  OBVIOUS
<1>1. /\ i \in Items /\ Promise!Move(i, d)
      /\ UNCHANGED [p \in Orders |-> orders[p].status]
  BY CommitMoves, CommitKeeps
<1>2. CASE flushed[w].movement_type = "ADJUSTMENT"
  <2>1. Promise!Adjust(i, d) /\ d \in Deltas
    BY <1>1, <1>2, MovementKinds DEF Promise!Adjust
  <2> QED
    BY <1>1, <2>1 DEF Promise!Next
<1>3. CASE flushed[w].movement_type # "ADJUSTMENT"
  <2>1. o \in Orders /\ OnHttpError = "commit"
    BY <1>3, MovementKinds
  <2>2. Promise!LostConfirm(o) \/ Promise!LostCancel(o)
    BY <1>1, <1>3, <2>1, MovementKinds DEF Promise!LostConfirm, Promise!LostCancel
  <2> QED
    BY <2>1, <2>2
<1> QED
  BY <1>2, <1>3

\* Nothing but a commit writes to the tables.
LEMMA OnlyCommitsWrite ==
    ASSUME [Next]_vars, ~ \E w \in Workers : Commit(w)
    PROVE  db' = db
BY DEF Next, Start, PlaceOrder, ReadOrder, StartAdjust, TakeItem, FlushMovement,
   FindTooLittle, FlushFails, LockItem, WriteCache, SetCache, SetCacheFails, WriteOrder,
   TransitionStatus, TransitionConflicts, EndRequest, Rollback, Abort, Expire, vars, db

\* Every step of the service is a step of the promise, a lost one, or none.
LEMMA StepKeepsPromise ==
    InventoryInv /\ [Next]_vars =>
        \/ Promise!Next
        \/ /\ OnHttpError = "commit"
           /\ \E o \in Orders : Promise!LostConfirm(o) \/ Promise!LostCancel(o)
        \/ UNCHANGED <<[i \in Items |-> menu_items[i].stock_quantity],
                       [o \in Orders |-> orders[o].status]>>
<1>1. ASSUME InventoryInv, NEW w \in Workers, Commit(w), target[w] = "none",
             flushed[w] = NoMovement
      PROVE  UNCHANGED <<[i \in Items |-> menu_items[i].stock_quantity],
                         [o \in Orders |-> orders[o].status]>>
  BY <1>1, CommitKeeps
<1>2. db' = db => UNCHANGED <<[i \in Items |-> menu_items[i].stock_quantity],
                              [o \in Orders |-> orders[o].status]>>
  BY DEF db
<1> QED
  BY <1>1, <1>2, OnlyCommitsWrite, TransitionKeepsPromise, MovementKeepsPromise

\* The service starts where the promise does.
LEMMA InitKeepsPromise == Init => Promise!Init
BY ConstantsAssumption DEF Init, Promise!Init, AbsentRow

\* However requests interleave, fail or die: confirm and cancel move the order and
\* its stock in one step, but for what get_db commits of a request that answers 409.
THEOREM KeepsLeakyPromise == Spec => LeakyInventorySpec
<1>1. Spec => []InventoryInv
  BY InitInventoryInv, NextInventoryInv, PTL DEF Spec
<1>2. InventoryInv /\ [Next]_vars =>
          [Promise!Next \/ \E o \in Orders : Promise!LostConfirm(o) \/ Promise!LostCancel(o)]_
              <<[i \in Items |-> menu_items[i].stock_quantity],
                [o \in Orders |-> orders[o].status]>>
  BY StepKeepsPromise
<1> QED
  BY <1>1, <1>2, InitKeepsPromise, PTL DEF Spec, LeakyInventorySpec, Promise!LeakySpec

\* If the session rolled back on every error, as those of the concurrency tests do,
\* order and stock would never part.
THEOREM KeepsPromise ==
    ASSUME OnHttpError = "rollback"
    PROVE  Spec => InventorySpec
<1>1. Spec => []InventoryInv
  BY InitInventoryInv, NextInventoryInv, PTL DEF Spec
<1>2. InventoryInv /\ [Next]_vars =>
          [Promise!Next]_<<[i \in Items |-> menu_items[i].stock_quantity],
                           [o \in Orders |-> orders[o].status]>>
  BY StepKeepsPromise
<1> QED
  BY <1>1, <1>2, InitKeepsPromise, PTL DEF Spec, InventorySpec, Promise!Spec
=============================================================================
