------------------------- MODULE OrderServiceProofs -------------------------
(***************************************************************************)
(* Theorems about OrderService, for any items, orders, workers and         *)
(* settings: types, the audit trail, and the cache beside it.              *)
(***************************************************************************)
EXTENDS OrderService, TLAPS

-----------------------------------------------------------------------------
(* What a request in flight looks like at each program counter.            *)

OrderOpsAndPlace == OrderOps \cup {"place"}

ShapeOf(w) ==
    /\ req[w].op \in OrderOpsAndPlace =>
           req[w].order \in Orders /\ req[w] = OrderRequest(req[w].op, req[w].order)
    /\ pc[w] = "idle" => req[w] = Idle /\ target[w] = "none"
    /\ pc[w] \in {"lock", "cache"} => req[w].op \in OrderOps \cup {"adjust"}
    /\ pc[w] = "update" => req[w].op \in OrderOps
    /\ req[w].op = "adjust" => req[w].item \in Items
    /\ pc[w] = "cache" => flushed[w] \in Movements
    /\ flushed[w] # NoMovement => req[w].item \in Items
    /\ target[w] # "none" => req[w].op \in OrderOpsAndPlace /\ pc[w] = "done"

Shape == \A w \in Workers : ShapeOf(w)

TypeInv == TypeOK /\ Shape

\* What a request asks for has the type of a request.
LEMMA OrderRequestType ==
    ASSUME NEW op \in OrderOpsAndPlace, NEW o \in Orders
    PROVE  /\ OrderRequest(op, o) \in Requests
           /\ OrderRequest(op, o).op = op
           /\ OrderRequest(op, o).order = o
           /\ OrderRequest(op, o).item = item_id[o]
           /\ item_id[o] \in Items
           /\ OrderRequest(op, o).delta \in Int
BY ConstantsAssumption DEF OrderRequest, Requests, OrderOpsAndPlace, OrderOps

\* A movement computed from a stock value that the column holds, and whose sum
\* it holds too, has the type of a movement.
LEMMA MovementType ==
    ASSUME NEW w \in Workers, NEW before \in Stock, req[w] \in Requests,
           Fits(before + req[w].delta)
    PROVE  MovementOf(w, before) \in Movements
<1>1. req[w].order \in Orders \cup {NoOrder} /\ req[w].delta \in Int
  BY DEF Requests
<1> QED
  BY <1>1 DEF MovementOf, Movements, MovementTypes, Fits

\* Initially every row is committed and every worker idle.
LEMMA InitTypeInv == Init => TypeInv
<1> SUFFICES ASSUME Init PROVE TypeInv
  OBVIOUS
<1>1. TypeOK
  <2>1. menu_items \in [Items -> [stock_quantity : Stock, version : Nat]]
    BY ConstantsAssumption DEF Init, Stock
  <2>2. stock_movements \in [Items -> Seq(Movements)]
    <3>1. \A i \in Items : Opening(i) \in Movements
      BY ConstantsAssumption DEF Opening, Movements, MovementTypes, Stock
    <3> QED
      BY <3>1 DEF Init
  <2>3. orders \in [Orders -> OrderRows] /\ snap \in [Workers -> OrderRows]
    BY DEF Init, OrderRows, AbsentRow
  <2>4. req \in [Workers -> Requests]
    BY DEF Init, Requests, Idle
  <2> QED
    BY <2>1, <2>2, <2>3, <2>4 DEF Init, TypeOK
<1>2. Shape
  BY DEF Init, Shape, ShapeOf, Idle, OrderOpsAndPlace, OrderOps
<1> QED
  BY <1>1, <1>2 DEF TypeInv

-----------------------------------------------------------------------------
(* Each action keeps TypeInv.                                              *)

\* Workers that a step does not touch.
Untouched(v) ==
    /\ pc'[v] = pc[v] /\ req'[v] = req[v] /\ flushed'[v] = flushed[v]
    /\ target'[v] = target[v] /\ snap'[v] = snap[v] /\ outcome'[v] = outcome[v]

\* ShapeOf(v) looks at v's own request only.
LEMMA UntouchedShape ==
    ASSUME NEW v \in Workers, ShapeOf(v), Untouched(v)
    PROVE  ShapeOf(v)'
BY DEF ShapeOf, Untouched, OrderRequest

\* Splits the proof of Shape' into the acting worker and the others.
LEMMA OneWorkerShape ==
    ASSUME Shape, NEW w \in Workers, ShapeOf(w)',
           \A v \in Workers \ {w} : Untouched(v)
    PROVE  Shape'
<1> SUFFICES ASSUME NEW v \in Workers, v # w PROVE ShapeOf(v)'
  BY DEF Shape
<1> QED
  BY UntouchedShape DEF Shape

\* The start of a request (placing, reading an order, asking for an adjustment).
LEMMA StartType ==
    ASSUME TypeInv, NEW w \in Workers, Start(w)
    PROVE  TypeInv'
<1> USE DEF TypeInv
<1>0. ShapeOf(w)
  BY DEF Shape
<1>1. ASSUME NEW o \in Orders, PlaceOrder(w, o) PROVE TypeInv'
  <2>1. /\ OrderRequest("place", o) \in Requests
        /\ OrderRequest("place", o).op = "place" /\ OrderRequest("place", o).order = o
        /\ OrderRequest("place", o).item \in Items
    BY OrderRequestType DEF OrderOpsAndPlace
  <2>2. TypeOK'
    BY <1>1, <2>1 DEF TypeOK, PlaceOrder, db, OrderStatuses
  <2>3. req'[w] = OrderRequest("place", o) /\ pc'[w] = "done" /\ target'[w] = "PENDING"
    BY <1>1 DEF TypeOK, PlaceOrder
  <2>4. ShapeOf(w)'
    BY <2>1, <2>3 DEF ShapeOf, OrderRequest, OrderOpsAndPlace, OrderOps
  <2>5. \A v \in Workers \ {w} : Untouched(v)
    BY <1>1 DEF TypeOK, PlaceOrder, Untouched
  <2> QED
    BY <2>2, <2>4, <2>5, OneWorkerShape
<1>2. ASSUME NEW op \in OrderOps, NEW o \in Orders, ReadOrder(w, op, o) PROVE TypeInv'
  <2>1. op \in OrderOpsAndPlace /\ op # "adjust"
    BY DEF OrderOpsAndPlace, OrderOps
  <2>2. /\ OrderRequest(op, o) \in Requests
        /\ OrderRequest(op, o).op = op /\ OrderRequest(op, o).order = o
        /\ OrderRequest(op, o).item \in Items
    BY <2>1, OrderRequestType
  <2>3. TypeOK'
    BY <1>2, <2>2 DEF TypeOK, ReadOrder, db
  <2>4. req'[w] = OrderRequest(op, o) /\ pc'[w] \in {"done", "lock", "update"}
    BY <1>2 DEF TypeOK, ReadOrder
  <2>5. target'[w] = "none"
    BY <1>0, <1>2 DEF ReadOrder, ShapeOf
  <2>6. ShapeOf(w)'
    BY <2>1, <2>2, <2>4, <2>5 DEF ShapeOf, OrderRequest
  <2>7. \A v \in Workers \ {w} : Untouched(v)
    BY <1>2 DEF TypeOK, ReadOrder, Untouched
  <2> QED
    BY <2>3, <2>6, <2>7, OneWorkerShape
<1>3. ASSUME NEW i \in Items, NEW d \in Deltas, StartAdjust(w, i, d) PROVE TypeInv'
  <2>1. d \in Int
    BY ConstantsAssumption
  <2>2. TypeOK'
    BY <1>3, <2>1 DEF TypeOK, StartAdjust, db, Requests
  <2>3. /\ req'[w].op = "adjust" /\ req'[w].item = i /\ pc'[w] = "lock"
        /\ target'[w] = target[w]
    BY <1>3 DEF TypeOK, StartAdjust
  <2>4. target[w] = "none"
    BY <1>0, <1>3 DEF StartAdjust, ShapeOf
  <2>5. ShapeOf(w)'
    BY <2>3, <2>4 DEF ShapeOf, OrderOpsAndPlace, OrderOps
  <2>6. \A v \in Workers \ {w} : Untouched(v)
    BY <1>3 DEF TypeOK, StartAdjust, Untouched
  <2> QED
    BY <2>2, <2>5, <2>6, OneWorkerShape
<1> QED
  BY <1>1, <1>2, <1>3 DEF Start

\* A worker waiting for an item row or about to write the cache has an item.
LEMMA ItemOfRequest ==
    ASSUME TypeInv, NEW w \in Workers, pc[w] \in {"lock", "cache"}
    PROVE  /\ req[w] \in Requests /\ req[w].item \in Items
           /\ StockRead(w) \in Stock
<1>1. ShapeOf(w) /\ req[w] \in Requests
  BY DEF TypeInv, TypeOK, Shape
<1>2. req[w].item \in Items
  <2>1. CASE req[w].op = "adjust"
    BY <1>1, <2>1 DEF ShapeOf
  <2>2. CASE req[w].op # "adjust"
    <3>1. req[w].op \in OrderOpsAndPlace
      BY <1>1, <2>2 DEF ShapeOf, OrderOpsAndPlace
    <3> QED
      BY <1>1, <3>1, OrderRequestType DEF ShapeOf
  <2> QED
    BY <2>1, <2>2
<1> QED
  BY <1>1, <1>2 DEF StockRead, TypeInv, TypeOK

\* The locked read, its checks and the flush: what is flushed fits the columns.
LEMMA TakeItemType ==
    ASSUME TypeInv, NEW w \in Workers, TakeItem(w)
    PROVE  TypeInv'
<1> USE DEF TypeInv
<1>0. /\ ShapeOf(w) /\ pc[w] = "lock"
      /\ req[w] \in Requests /\ req[w].item \in Items /\ StockRead(w) \in Stock
  BY ItemOfRequest DEF Shape, TakeItem, FlushMovement, FindTooLittle, FlushFails, LockItem
<1>1. itemLock' \in [Items -> Workers \cup {NoWorker}] /\ req' = req /\ target' = target
  <2>1. LockItem(w)
    BY DEF TakeItem, FlushMovement, FindTooLittle, FlushFails
  <2>2. itemLock \in [Items -> Workers \cup {NoWorker}]
    BY DEF TypeOK
  <2> QED
    BY <1>0, <2>1, <2>2 DEF LockItem
<1>2. target[w] = "none"
  BY <1>0 DEF ShapeOf
<1>3. \A v \in Workers \ {w} : Untouched(v)
  BY DEF TypeOK, TakeItem, FlushMovement, FindTooLittle, FlushFails, LockItem, Untouched
<1>4. CASE FlushMovement(w)
  <2>1. MovementOf(w, StockRead(w)) \in Movements
    BY <1>0, <1>4, MovementType DEF FlushMovement
  <2>2. TypeOK'
    BY <1>1, <1>4, <2>1 DEF TypeOK, FlushMovement, LockItem, db
  <2>3. pc'[w] = "cache" /\ flushed'[w] = MovementOf(w, StockRead(w))
    BY <1>4 DEF TypeOK, FlushMovement
  <2>4. ShapeOf(w)'
    BY <1>0, <1>1, <1>2, <2>1, <2>3 DEF ShapeOf, OrderRequest
  <2> QED
    BY <1>3, <2>2, <2>4, OneWorkerShape
<1>5. CASE FindTooLittle(w)
  <2>1. TypeOK'
    BY <1>1, <1>5 DEF TypeOK, FindTooLittle, LockItem, db
  <2>2. pc'[w] = (IF req[w].op = "adjust" THEN "done" ELSE "update") /\ flushed' = flushed
    BY <1>5 DEF TypeOK, FindTooLittle
  <2>3. ShapeOf(w)'
    BY <1>0, <1>1, <1>2, <2>2 DEF ShapeOf, OrderRequest
  <2> QED
    BY <1>3, <2>1, <2>3, OneWorkerShape
<1>6. CASE FlushFails(w)
  <2>1. TypeOK'
    BY <1>1, <1>6 DEF TypeOK, FlushFails, LockItem, db
  <2>2. pc'[w] = "done" /\ flushed' = flushed
    BY <1>6 DEF TypeOK, FlushFails
  <2>3. ShapeOf(w)'
    BY <1>0, <1>1, <1>2, <2>2 DEF ShapeOf, OrderRequest
  <2> QED
    BY <1>3, <2>1, <2>3, OneWorkerShape
<1> QED
  BY <1>4, <1>5, <1>6 DEF TakeItem

\* set_stock writes the flushed stock, or nothing.
LEMMA WriteCacheType ==
    ASSUME TypeInv, NEW w \in Workers, WriteCache(w)
    PROVE  TypeInv'
<1> USE DEF TypeInv
<1>0. /\ ShapeOf(w) /\ pc[w] = "cache" /\ req[w].item \in Items
      /\ flushed[w] \in Movements
  BY ItemOfRequest DEF Shape, ShapeOf, WriteCache, SetCache, SetCacheFails
<1>1. /\ AfterCache(w) /\ req' = req /\ target' = target /\ flushed' = flushed
      /\ snap' = snap /\ itemLock' = itemLock /\ db' = db
  BY DEF WriteCache, SetCache, SetCacheFails
<1>2. cache' \in [Items -> Stock \cup {NoValue}]
  <2>1. flushed[w].stock_after \in Stock
    BY <1>0 DEF Movements
  <2> QED
    BY <1>0, <2>1 DEF TypeOK, WriteCache, SetCache, SetCacheFails, WrittenThrough
<1>3. TypeOK'
  BY <1>1, <1>2 DEF TypeOK, AfterCache, db
<1>4. pc'[w] = (IF req[w].op = "adjust" THEN "done" ELSE "update")
  BY <1>1 DEF TypeOK, AfterCache
<1>5. ShapeOf(w)'
  BY <1>0, <1>1, <1>4 DEF ShapeOf, OrderRequest
<1>6. \A v \in Workers \ {w} : Untouched(v)
  BY <1>1 DEF TypeOK, AfterCache, Untouched
<1> QED
  BY <1>3, <1>5, <1>6, OneWorkerShape

\* transition_status and its ConflictError.
LEMMA WriteOrderType ==
    ASSUME TypeInv, NEW w \in Workers, WriteOrder(w)
    PROVE  TypeInv'
<1> USE DEF TypeInv
<1>0. ShapeOf(w) /\ pc[w] = "update" /\ req[w].op \in OrderOps
  BY DEF Shape, ShapeOf, WriteOrder, TransitionStatus, TransitionConflicts
<1>1. pc'[w] = "done" /\ req' = req /\ flushed' = flushed
  BY DEF TypeOK, WriteOrder, TransitionStatus, TransitionConflicts
<1>2. target' \in [Workers -> OrderStatuses \cup {"none"}]
  <2>1. NewStatus(w) \in OrderStatuses
    BY DEF NewStatus, Goal, OrderStatuses
  <2>2. target \in [Workers -> OrderStatuses \cup {"none"}]
    BY DEF TypeOK
  <2>3. target' = target \/ target' = [target EXCEPT ![w] = NewStatus(w)]
    BY DEF WriteOrder, TransitionStatus, TransitionConflicts
  <2> QED
    BY <2>1, <2>2, <2>3
<1>3. TypeOK'
  BY <1>2 DEF TypeOK, WriteOrder, TransitionStatus, TransitionConflicts, db
<1>4. ShapeOf(w)'
  BY <1>0, <1>1 DEF ShapeOf, OrderRequest, OrderOps, OrderOpsAndPlace
<1>5. \A v \in Workers \ {w} : Untouched(v)
  BY DEF TypeOK, WriteOrder, TransitionStatus, TransitionConflicts, Untouched
<1> QED
  BY <1>3, <1>4, <1>5, OneWorkerShape

\* A transaction that ends frees its rows and its worker.
LEMMA ReleaseType ==
    ASSUME TypeInv, NEW w \in Workers, Release(w)
    PROVE  /\ itemLock' \in [Items -> Workers \cup {NoWorker}]
           /\ pc' \in [Workers -> {"idle", "lock", "cache", "update", "done"}]
           /\ req' \in [Workers -> Requests]
           /\ snap' \in [Workers -> OrderRows]
           /\ flushed' \in [Workers -> Movements \cup {NoMovement}]
           /\ target' \in [Workers -> OrderStatuses \cup {"none"}]
           /\ outcome' \in [Workers -> {"none", "ok", "refused", "insufficient",
                                        "conflict", "error"}]
           /\ Shape'
<1> USE DEF TypeInv
<1>1. Idle \in Requests /\ Idle.op = "none" /\ AbsentRow \in OrderRows
  BY DEF Idle, Requests, AbsentRow, OrderRows
<1>2. /\ pc'[w] = "idle" /\ req'[w] = Idle /\ flushed'[w] = NoMovement
      /\ target'[w] = "none"
  BY DEF TypeOK, Release
<1>3. ShapeOf(w)'
  BY <1>1, <1>2 DEF ShapeOf, OrderOpsAndPlace, OrderOps, Idle
<1>4. \A v \in Workers \ {w} : Untouched(v)
  BY DEF TypeOK, Release, Untouched
<1>5. Shape'
  BY <1>3, <1>4, OneWorkerShape
<1> QED
  BY <1>1, <1>5 DEF TypeOK, Release

\* Commit, rollback and death of a request.
LEMMA EndRequestType ==
    ASSUME TypeInv, NEW w \in Workers, EndRequest(w) \/ Abort(w)
    PROVE  TypeInv'
<1> USE DEF TypeInv
<1>0. ShapeOf(w) /\ Release(w) /\ cache' = cache
  BY DEF Shape, EndRequest, Commit, Rollback, Abort
<1>1. CASE Commit(w)
  <2>1. /\ menu_items' \in [Items -> [stock_quantity : Stock, version : Nat]]
        /\ stock_movements' \in [Items -> Seq(Movements)]
    <3>1. CASE flushed[w] = NoMovement
      BY <1>1, <3>1 DEF TypeOK, Commit, CommitItem
    <3>2. CASE flushed[w] # NoMovement
      <4>1. req[w].item \in Items /\ flushed[w] \in Movements
        BY <1>0, <3>2 DEF ShapeOf, TypeOK
      <4> DEFINE i == req[w].item
                 row == [stock_quantity |-> flushed[w].stock_after,
                         version |-> menu_items[i].version + 1]
                 log == Append(stock_movements[i], flushed[w])
      <4>2. row \in [stock_quantity : Stock, version : Nat]
        BY <4>1 DEF Movements, TypeOK
      <4>3. log \in Seq(Movements)
        BY <4>1 DEF TypeOK
      <4>4. /\ menu_items' = [menu_items EXCEPT ![i] = row]
            /\ stock_movements' = [stock_movements EXCEPT ![i] = log]
        BY <1>1, <3>2 DEF Commit, CommitItem
      <4> QED
        BY <4>1, <4>2, <4>3, <4>4 DEF TypeOK
    <3> QED
      BY <3>1, <3>2
  <2>2. orders' \in [Orders -> OrderRows]
    <3>1. CASE target[w] = "none"
      BY <1>1, <3>1 DEF TypeOK, Commit, CommitOrder
    <3>2. CASE target[w] # "none"
      <4>1. req[w].order \in Orders /\ target[w] \in OrderStatuses
        BY <1>0, <3>2 DEF ShapeOf, TypeOK
      <4> DEFINE row == [status |-> target[w],
                         version |-> orders[req[w].order].version + 1]
      <4>2. row \in OrderRows
        BY <4>1 DEF TypeOK, OrderRows
      <4>3. orders' = [orders EXCEPT ![req[w].order] = row]
        BY <1>1, <3>2 DEF Commit, CommitOrder
      <4> QED
        BY <4>1, <4>2, <4>3 DEF TypeOK
    <3> QED
      BY <3>1, <3>2
  <2> QED
    BY <1>0, <2>1, <2>2, ReleaseType DEF TypeOK
<1>2. CASE Rollback(w) \/ Abort(w)
  BY <1>0, <1>2, ReleaseType DEF TypeOK, Rollback, Abort, db
<1> QED
  BY <1>1, <1>2 DEF EndRequest

\* Every step of every request keeps types and shapes.
LEMMA NextTypeInv == TypeInv /\ [Next]_vars => TypeInv'
<1> SUFFICES ASSUME TypeInv, [Next]_vars PROVE TypeInv'
  OBVIOUS
<1>1. ASSUME NEW w \in Workers,
             \/ Start(w) \/ TakeItem(w) \/ WriteCache(w)
             \/ WriteOrder(w) \/ EndRequest(w) \/ Abort(w)
      PROVE  TypeInv'
  BY <1>1, StartType, TakeItemType, WriteCacheType, WriteOrderType, EndRequestType
<1>2. ASSUME NEW i \in Items, Expire(i) PROVE TypeInv'
  BY <1>2 DEF TypeInv, TypeOK, Shape, ShapeOf, Expire, db, tx, OrderRequest
<1>3. CASE UNCHANGED vars
  BY <1>3 DEF TypeInv, TypeOK, Shape, ShapeOf, vars, OrderRequest
<1> QED
  BY <1>1, <1>2, <1>3 DEF Next

\* Every reachable state is well typed: in particular no stock is ever negative
\* or beyond its column, whatever requests interleave, fail or die.
THEOREM TypeCorrect == Spec => []TypeOK
<1>1. Spec => []TypeInv
  BY InitTypeInv, NextTypeInv, PTL DEF Spec
<1> QED
  BY <1>1, PTL DEF TypeInv

-----------------------------------------------------------------------------
(* The audit trail is a ledger.  A request computes its movement from the  *)
(* stock it reads and commits it later, so the argument is about the row   *)
(* lock: while a movement is flushed and not committed, its request holds  *)
(* the item and the committed stock does not move.                         *)

\* The movement that w has flushed continues the committed ledger.
PendingOf(w) ==
    flushed[w] # NoMovement =>
        /\ pc[w] # "idle"
        /\ itemLock[req[w].item] = w
        /\ flushed[w].stock_before = menu_items[req[w].item].stock_quantity
        /\ flushed[w].stock_after = flushed[w].stock_before + flushed[w].quantity_delta

PendingInv == TypeInv /\ \A w \in Workers : PendingOf(w)
LedgerInv  == PendingInv /\ Ledger

-----------------------------------------------------------------------------
(* What is flushed stays the continuation of the row, ledger or not.       *)

\* A request that waits for a row, or does not run, has flushed nothing.
LEMMA NothingFlushed ==
    ASSUME PendingInv, NEW w \in Workers,
           pc[w] = "idle" \/ itemLock[req[w].item] = NoWorker
    PROVE  flushed[w] = NoMovement
BY NoWorkerAssumption DEF PendingInv, PendingOf

\* Steps that neither commit nor flush keep every claim.
LEMMA QuietStep ==
    ASSUME PendingInv, TypeInv', NEW w \in Workers,
           menu_items' = menu_items,
           itemLock' = itemLock, flushed' = flushed,
           \A v \in Workers \ {w} : Untouched(v),
           \/ flushed[w] = NoMovement
           \/ req'[w] = req[w] /\ pc'[w] # "idle"
    PROVE  PendingInv'
<1>1. \A v \in Workers : PendingOf(v)'
  BY DEF PendingInv, PendingOf, Untouched
<1> QED
  BY <1>1 DEF PendingInv

\* A request that takes the item row takes it from nobody.
LEMMA TakeItemPending ==
    ASSUME PendingInv, NEW w \in Workers, TakeItem(w)
    PROVE  PendingInv' /\ db' = db
<1>0. TypeInv /\ TypeInv'
  BY TakeItemType DEF PendingInv
<1> DEFINE i == req[w].item
<1>1. /\ pc[w] = "lock" /\ itemLock[i] = NoWorker /\ itemLock' = [itemLock EXCEPT ![i] = w]
      /\ db' = db /\ req' = req
  BY DEF TakeItem, FlushMovement, FindTooLittle, FlushFails, LockItem, ItemRowFree
<1>2. i \in Items /\ req[w] \in Requests /\ StockRead(w) \in Stock
  BY <1>0, <1>1, ItemOfRequest
<1>3. \A v \in Workers \ {w} : Untouched(v)
  BY <1>0 DEF TypeInv, TypeOK, TakeItem, FlushMovement, FindTooLittle, FlushFails, LockItem,
              Untouched
<1>4. ASSUME NEW v \in Workers \ {w} PROVE PendingOf(v)'
  <2>1. flushed[v] # NoMovement => itemLock[req[v].item] = v /\ req[v].item # i
    BY <1>1, NoWorkerAssumption DEF PendingInv, PendingOf
  <2> QED
    BY <1>1, <1>3, <2>1 DEF PendingInv, PendingOf, Untouched, db
<1>5. PendingOf(w)'
  <2>1. itemLock'[i] = w
    BY <1>0, <1>1, <1>2 DEF TypeInv, TypeOK
  <2>2. CASE FlushMovement(w)
    <3>1. flushed'[w] = MovementOf(w, StockRead(w)) /\ pc'[w] = "cache"
      BY <1>0, <2>2 DEF TypeInv, TypeOK, FlushMovement
    <3>2. /\ MovementOf(w, StockRead(w)).stock_before = menu_items[i].stock_quantity
          /\ MovementOf(w, StockRead(w)).stock_after =
                 MovementOf(w, StockRead(w)).stock_before
                     + MovementOf(w, StockRead(w)).quantity_delta
      BY DEF MovementOf, StockRead
    <3> QED
      BY <1>1, <2>1, <3>1, <3>2 DEF PendingOf, db
  <2>3. CASE FindTooLittle(w) \/ FlushFails(w)
    <3>1. flushed'[w] = NoMovement
      BY <1>1, <2>3, NothingFlushed DEF FindTooLittle, FlushFails
    <3> QED
      BY <3>1 DEF PendingOf
  <2> QED
    BY <2>2, <2>3 DEF TakeItem
<1> QED
  BY <1>0, <1>1, <1>4, <1>5 DEF PendingInv

\* A transaction that ends leaves the rows of the others to their holders.
LEMMA EndRequestPending ==
    ASSUME PendingInv, NEW w \in Workers, EndRequest(w) \/ Abort(w)
    PROVE  PendingInv'
<1>0. /\ TypeInv /\ TypeInv' /\ Release(w) /\ ShapeOf(w)
  BY EndRequestType DEF PendingInv, TypeInv, Shape, EndRequest, Commit, Rollback, Abort
<1>1. \A v \in Workers \ {w} : Untouched(v)
  BY <1>0 DEF TypeInv, TypeOK, Release, Untouched
<1>2. PendingOf(w)'
  BY <1>0 DEF TypeInv, TypeOK, Release, PendingOf
<1>3. \A v \in Workers \ {w} : flushed[v] # NoMovement =>
          itemLock'[req[v].item] = v /\ itemLock[req[v].item] = v /\ req[v].item \in Items
  BY <1>0 DEF PendingInv, PendingOf, TypeInv, TypeOK, Shape, ShapeOf, Release
<1>4. ASSUME NEW v \in Workers \ {w}, flushed[v] # NoMovement
      PROVE  menu_items'[req[v].item] = menu_items[req[v].item]
  <2>1. CASE Commit(w) /\ flushed[w] # NoMovement
    <3>1. req[w].item \in Items /\ itemLock[req[w].item] = w
      BY <1>0, <2>1 DEF PendingInv, PendingOf, ShapeOf
    <3>2. menu_items' = [menu_items EXCEPT ![req[w].item] =
              [stock_quantity |-> flushed[w].stock_after, version |-> @.version + 1]]
      BY <2>1 DEF Commit, CommitItem
    <3>3. menu_items \in [Items -> [stock_quantity : Stock, version : Nat]]
      BY <1>0 DEF TypeInv, TypeOK
    <3> QED
      BY <1>3, <1>4, <3>1, <3>2, <3>3
  <2>2. CASE menu_items' = menu_items
    BY <2>2
  <2> QED
    BY <2>1, <2>2 DEF EndRequest, Commit, CommitItem, Rollback, Abort, db
<1>5. \A v \in Workers \ {w} : PendingOf(v)'
  BY <1>1, <1>3, <1>4 DEF PendingInv, PendingOf, Untouched
<1> QED
  BY <1>0, <1>2, <1>5 DEF PendingInv

\* Every step of every request keeps the claims of the flushed movements; the steps
\* before the commit leave the database alone.
LEMMA NextPendingInv ==
    PendingInv /\ [Next]_vars =>
        PendingInv' /\ (db' = db \/ \E w \in Workers : EndRequest(w) \/ Abort(w))
<1> SUFFICES ASSUME PendingInv, [Next]_vars
             PROVE  PendingInv' /\ (db' = db \/ \E w \in Workers : EndRequest(w) \/ Abort(w))
  OBVIOUS
<1>0. TypeInv /\ TypeInv'
  BY NextTypeInv DEF PendingInv
<1>1. ASSUME NEW w \in Workers, Start(w) PROVE PendingInv' /\ db' = db
  <2>1. /\ pc[w] = "idle" /\ db' = db /\ itemLock' = itemLock /\ flushed' = flushed
        /\ \A v \in Workers \ {w} : Untouched(v)
    BY <1>0, <1>1 DEF TypeInv, TypeOK, Start, PlaceOrder, ReadOrder, StartAdjust, Untouched
  <2> QED
    BY <1>0, <2>1, NothingFlushed, QuietStep DEF db
<1>2. ASSUME NEW w \in Workers, WriteCache(w) \/ WriteOrder(w)
      PROVE  PendingInv' /\ db' = db
  <2>1. /\ db' = db /\ itemLock' = itemLock /\ flushed' = flushed /\ req' = req
    BY <1>2 DEF WriteCache, SetCache, SetCacheFails,
                WriteOrder, TransitionStatus, TransitionConflicts
  <2>2. pc'[w] # "idle"
    BY <1>0, <1>2 DEF TypeInv, TypeOK, WriteCache, SetCache, SetCacheFails, AfterCache,
                      WriteOrder, TransitionStatus, TransitionConflicts
  <2>3. \A v \in Workers \ {w} : Untouched(v)
    BY <1>0, <1>2 DEF TypeInv, TypeOK, WriteCache, SetCache, SetCacheFails, AfterCache,
                      WriteOrder, TransitionStatus, TransitionConflicts, Untouched
  <2> QED
    BY <1>0, <2>1, <2>2, <2>3, QuietStep DEF db
<1>3. ASSUME NEW w \in Workers, TakeItem(w) PROVE PendingInv' /\ db' = db
  BY <1>3, TakeItemPending
<1>4. ASSUME NEW w \in Workers, EndRequest(w) \/ Abort(w) PROVE PendingInv'
  BY <1>4, EndRequestPending
<1>5. CASE (\E i \in Items : Expire(i)) \/ UNCHANGED vars
  <2>1. /\ db' = db /\ itemLock' = itemLock /\ tx' = tx
    BY <1>5 DEF Expire, vars, db, tx
  <2>2. \A w \in Workers : PendingOf(w)'
    BY <2>1 DEF PendingInv, PendingOf, db, tx
  <2> QED
    BY <1>0, <2>1, <2>2 DEF PendingInv
<1> QED
  BY <1>1, <1>2, <1>3, <1>4, <1>5 DEF Next

-----------------------------------------------------------------------------
\* Appending a movement that continues a ledger gives a ledger.
LEMMA LedgerAppend ==
    ASSUME NEW i \in Items, LedgerOf(i), stock_movements[i] \in Seq(Movements),
           NEW m \in Movements, m.stock_before = menu_items[i].stock_quantity,
           m.stock_after = m.stock_before + m.quantity_delta,
           stock_movements'[i] = Append(stock_movements[i], m),
           menu_items'[i].stock_quantity = m.stock_after,
           menu_items'[i].version = menu_items[i].version + 1
    PROVE  LedgerOf(i)'
<1> DEFINE log == stock_movements[i]
           new == Append(log, m)
<1>1. /\ Len(log) \in Nat /\ Len(new) = Len(log) + 1 /\ new[Len(new)] = m
      /\ \A k \in 1..Len(log) : new[k] = log[k]
  OBVIOUS
<1>2. /\ Len(log) > 0 /\ log[1].stock_before = 0
      /\ \A k \in 1..Len(log) :
             log[k].stock_after = log[k].stock_before + log[k].quantity_delta
      /\ \A k \in 1..Len(log) - 1 : log[k + 1].stock_before = log[k].stock_after
      /\ menu_items[i].stock_quantity = log[Len(log)].stock_after
      /\ menu_items[i].version = Len(log)
  BY DEF LedgerOf
<1> HIDE DEF new
<1>3. Len(new) > 0 /\ new[1].stock_before = 0
  BY <1>1, <1>2
<1>4. ASSUME NEW k \in 1..Len(new)
      PROVE  new[k].stock_after = new[k].stock_before + new[k].quantity_delta
  <2>1. CASE k \in 1..Len(log)
    BY <1>1, <1>2, <2>1
  <2>2. CASE k = Len(new)
    BY <1>1, <2>2
  <2> QED
    BY <1>1, <2>1, <2>2
<1>5. ASSUME NEW k \in 1..Len(new) - 1 PROVE new[k + 1].stock_before = new[k].stock_after
  <2>1. k \in 1..Len(log)
    BY <1>1
  <2>2. CASE k = Len(log)
    BY <1>1, <1>2, <2>1, <2>2
  <2>3. CASE k # Len(log)
    <3>1. k \in 1..Len(log) - 1 /\ k + 1 \in 1..Len(log)
      BY <1>1, <2>1, <2>3
    <3> QED
      BY <1>1, <1>2, <2>1, <3>1
  <2> QED
    BY <2>2, <2>3
<1>6. menu_items'[i].stock_quantity = new[Len(new)].stock_after
      /\ menu_items'[i].version = Len(new)
  BY <1>1, <1>2
<1>7. stock_movements'[i] = new
  BY DEF new
<1> QED
  BY <1>3, <1>4, <1>5, <1>6, <1>7 DEF LedgerOf

-----------------------------------------------------------------------------
\* The end of a transaction appends its movement, or drops it.
LEMMA EndRequestLedger ==
    ASSUME LedgerInv, NEW w \in Workers, EndRequest(w) \/ Abort(w)
    PROVE  Ledger'
<1>1. CASE Commit(w) /\ flushed[w] # NoMovement
  <2> DEFINE i == req[w].item
  <2>1. /\ i \in Items /\ flushed[w] \in Movements
        /\ flushed[w].stock_before = menu_items[i].stock_quantity
        /\ flushed[w].stock_after = flushed[w].stock_before + flushed[w].quantity_delta
    BY <1>1 DEF LedgerInv, PendingInv, PendingOf, TypeInv, TypeOK, Shape, ShapeOf
  <2>2. /\ menu_items' = [menu_items EXCEPT ![i] =
               [stock_quantity |-> flushed[w].stock_after, version |-> @.version + 1]]
        /\ stock_movements' = [stock_movements EXCEPT ![i] = Append(@, flushed[w])]
    BY <1>1 DEF Commit, CommitItem
  <2>3. menu_items \in [Items -> [stock_quantity : Stock, version : Nat]]
        /\ stock_movements \in [Items -> Seq(Movements)]
    BY DEF LedgerInv, PendingInv, TypeInv, TypeOK
  <2>4. ASSUME NEW j \in Items PROVE LedgerOf(j)'
    <3>1. LedgerOf(j)
      BY DEF LedgerInv, Ledger
    <3>2. CASE j = i
      BY <2>1, <2>2, <2>3, <3>1, <3>2, LedgerAppend
    <3>3. CASE j # i
      BY <2>2, <2>3, <3>1, <3>3 DEF LedgerOf
    <3> QED
      BY <3>2, <3>3
  <2> QED
    BY <2>4 DEF Ledger
<1>2. CASE menu_items' = menu_items /\ stock_movements' = stock_movements
  BY <1>2 DEF LedgerInv, Ledger, LedgerOf
<1> QED
  BY <1>1, <1>2 DEF EndRequest, Commit, CommitItem, Rollback, Abort, db

\* create_item's opening movement is a ledger of one line.
LEMMA InitLedgerInv == Init => LedgerInv
<1> SUFFICES ASSUME Init PROVE LedgerInv
  OBVIOUS
<1>1. ASSUME NEW i \in Items PROVE LedgerOf(i)
  <2>1. stock_movements[i] = <<Opening(i)>> /\ Len(<<Opening(i)>>) = 1
        /\ <<Opening(i)>>[1] = Opening(i) /\ InitStock[i] \in Int
    BY ConstantsAssumption DEF Init
  <2>2. /\ Opening(i).stock_before = 0 /\ Opening(i).stock_after = InitStock[i]
        /\ Opening(i).quantity_delta = InitStock[i]
    BY DEF Opening
  <2>3. menu_items[i].stock_quantity = InitStock[i] /\ menu_items[i].version = 1
    BY DEF Init
  <2> QED
    BY <2>1, <2>2, <2>3 DEF LedgerOf
<1>2. \A w \in Workers : PendingOf(w)
  BY DEF Init, PendingOf
<1> QED
  BY <1>1, <1>2, InitTypeInv DEF LedgerInv, PendingInv, Ledger

\* Every step of every request keeps the ledger: only commits touch it.
LEMMA NextLedgerInv == LedgerInv /\ [Next]_vars => LedgerInv'
<1> SUFFICES ASSUME LedgerInv, [Next]_vars PROVE LedgerInv'
  OBVIOUS
<1>1. PendingInv' /\ (db' = db \/ \E w \in Workers : EndRequest(w) \/ Abort(w))
  BY NextPendingInv DEF LedgerInv
<1>2. CASE db' = db
  BY <1>1, <1>2 DEF LedgerInv, Ledger, LedgerOf, db
<1> QED
  BY <1>1, <1>2, EndRequestLedger DEF LedgerInv

\* The committed audit trail is a ledger with the item row as its last line,
\* however many requests for the item interleave, conflict, fail or die.
THEOREM LedgerHolds == Spec => []Ledger
<1>1. Spec => []LedgerInv
  BY InitLedgerInv, NextLedgerInv, PTL DEF Spec
<1> QED
  BY <1>1, PTL DEF LedgerInv

-----------------------------------------------------------------------------
(* The cache beside the ledger, while Redis answers: between its SETEX and *)
(* its COMMIT a request holds the item, so nobody else writes the key.     *)

\* What w has flushed is in the cache once set_stock has run, or has expired.
CachedOf(w) ==
    flushed[w] # NoMovement /\ pc[w] # "cache" =>
        cache[req[w].item] \in {NoValue, flushed[w].stock_after}

CacheInv == /\ PendingInv
            /\ \A w \in Workers : CachedOf(w)
            /\ ~ EnableCache => \A i \in Items : cache[i] = NoValue

\* No request is under way initially, and a cache that is off is empty.
LEMMA InitCacheInv == Init => CacheInv
BY InitLedgerInv DEF LedgerInv, Init, CacheInv, CachedOf

\* Steps that leave the cache alone, and of w's own claim only what set_stock gave.
LEMMA CacheKept ==
    ASSUME CacheInv, PendingInv', NEW w \in Workers, cache' = cache,
           \A v \in Workers \ {w} : Untouched(v),
           \/ flushed'[w] = NoMovement \/ pc'[w] = "cache"
           \/ flushed'[w] = flushed[w] /\ req'[w] = req[w] /\ pc[w] # "cache"
    PROVE  CacheInv'
BY DEF CacheInv, CachedOf, Untouched

\* The SETEX of a request writes the key of an item that it holds.
LEMMA SetCacheKeeps ==
    ASSUME CacheInv, PendingInv', NEW w \in Workers, SetCache(w)
    PROVE  CacheInv'
<1>0. TypeOK /\ ShapeOf(w) /\ PendingInv /\ \A v \in Workers : CachedOf(v)
  BY DEF CacheInv, PendingInv, TypeInv, Shape
<1>1. /\ pc[w] = "cache" /\ cache' = WrittenThrough(w)
      /\ flushed' = flushed /\ req' = req /\ \A v \in Workers \ {w} : pc'[v] = pc[v]
  BY <1>0 DEF SetCache, AfterCache, TypeOK
<1>2. flushed[w] # NoMovement /\ req[w].item \in Items
  BY <1>0, <1>1, NoMovementAssumption DEF ShapeOf
<1>3. CASE EnableCache
  <2>1. cache' = [cache EXCEPT ![req[w].item] = flushed[w].stock_after]
    BY <1>1, <1>3 DEF WrittenThrough
  <2>2. ASSUME NEW v \in Workers \ {w}, flushed[v] # NoMovement
        PROVE  req[v].item # req[w].item
    BY <1>0, <1>2, <2>2 DEF PendingInv, PendingOf
  <2>3. cache \in [Items -> Stock \cup {NoValue}]
    BY <1>0 DEF TypeOK
  <2>4. CachedOf(w)'
    BY <1>1, <1>2, <2>1, <2>3 DEF CachedOf
  <2>5. ASSUME NEW v \in Workers \ {w}, flushed[v] # NoMovement, pc[v] # "cache"
        PROVE  cache'[req[v].item] \in {NoValue, flushed[v].stock_after}
    <3>1. /\ req[v].item # req[w].item
          /\ cache[req[v].item] \in {NoValue, flushed[v].stock_after}
      BY <1>0, <2>2, <2>5 DEF CachedOf
    <3>2. req[v].item \in Items
      BY <1>0, <2>5 DEF PendingInv, TypeInv, Shape, ShapeOf
    <3> QED
      BY <2>1, <2>3, <3>1, <3>2
  <2> QED
    BY <1>1, <1>3, <2>4, <2>5 DEF CacheInv, CachedOf
<1>4. CASE ~ EnableCache
  <2>1. cache' = cache /\ \A i \in Items : cache[i] = NoValue
    BY <1>1, <1>4 DEF WrittenThrough, CacheInv
  <2>2. \A v \in Workers : flushed[v] # NoMovement => req[v].item \in Items
    BY <1>0 DEF CacheInv, PendingInv, TypeInv, Shape, ShapeOf
  <2> QED
    BY <1>1, <2>1, <2>2 DEF CacheInv, CachedOf
<1> QED
  BY <1>3, <1>4

\* Every step of every request keeps the cache right for those that hold an item.
LEMMA NextCacheInv ==
    ASSUME RedisFails = FALSE
    PROVE  CacheInv /\ [Next]_vars => CacheInv'
<1> SUFFICES ASSUME CacheInv, [Next]_vars PROVE CacheInv'
  OBVIOUS
<1>0. TypeOK /\ PendingInv /\ PendingInv'
  BY NextPendingInv DEF CacheInv, PendingInv, TypeInv
<1>1. ASSUME NEW w \in Workers, Start(w) \/ TakeItem(w) PROVE CacheInv'
  <2>1. flushed[w] = NoMovement
    BY <1>0, <1>1, NothingFlushed DEF Start, PlaceOrder, ReadOrder, StartAdjust, TakeItem,
                               FlushMovement, FindTooLittle, FlushFails, LockItem, ItemRowFree
  <2>2. /\ cache' = cache /\ \A v \in Workers \ {w} : Untouched(v)
        /\ flushed'[w] = NoMovement \/ pc'[w] = "cache"
    BY <1>0, <1>1, <2>1 DEF TypeOK, Start, PlaceOrder, ReadOrder, StartAdjust, TakeItem,
                       FlushMovement, FindTooLittle, FlushFails, LockItem, Untouched
  <2> QED
    BY <1>0, <2>2, CacheKept
<1>2. ASSUME NEW w \in Workers, WriteCache(w) PROVE CacheInv'
  BY <1>0, <1>2, SetCacheKeeps DEF WriteCache, SetCacheFails
<1>3. ASSUME NEW w \in Workers, WriteOrder(w) PROVE CacheInv'
  <2>1. /\ cache' = cache /\ flushed' = flushed /\ req' = req /\ pc[w] # "cache"
        /\ \A v \in Workers \ {w} : Untouched(v)
    BY <1>0, <1>3 DEF TypeOK, WriteOrder, TransitionStatus, TransitionConflicts, Untouched
  <2> QED
    BY <1>0, <2>1, CacheKept
<1>4. ASSUME NEW w \in Workers, EndRequest(w) \/ Abort(w) PROVE CacheInv'
  <2>1. /\ cache' = cache /\ flushed'[w] = NoMovement
        /\ \A v \in Workers \ {w} : Untouched(v)
    BY <1>0, <1>4 DEF TypeOK, EndRequest, Commit, Rollback, Abort, Release, Untouched
  <2> QED
    BY <1>0, <2>1, CacheKept
<1>5. CASE (\E i \in Items : Expire(i)) \/ UNCHANGED vars
  <2>1. /\ flushed' = flushed /\ req' = req /\ pc' = pc
        /\ \A i \in Items : cache'[i] \in {cache[i], NoValue}
    BY <1>0, <1>5 DEF TypeOK, Expire, tx, vars
  <2>2. \A v \in Workers : flushed[v] # NoMovement => req[v].item \in Items
    BY <1>0 DEF PendingInv, TypeInv, Shape, ShapeOf
  <2> QED
    BY <1>0, <2>1, <2>2 DEF CacheInv, CachedOf
<1> QED
  BY <1>1, <1>2, <1>3, <1>4, <1>5 DEF Next

\* While Redis answers, set_stock before the COMMIT is as good as after it: the
\* commit of a movement leaves its stock in the cache, or no key.
THEOREM CommitsLeaveCacheRight ==
    ASSUME RedisFails = FALSE
    PROVE  Spec => CommitLeavesCacheRight
<1>1. Spec => []CacheInv
  BY InitCacheInv, NextCacheInv, PTL DEF Spec
<1>2. ASSUME CacheInv, NEW w \in Workers, Commit(w), flushed[w] # NoMovement
      PROVE  cache'[req[w].item] \in {NoValue, menu_items'[req[w].item].stock_quantity}
  <2>1. TypeOK /\ req[w].item \in Items /\ CachedOf(w)
    BY <1>2 DEF CacheInv, PendingInv, TypeInv, Shape, ShapeOf
  <2>2. /\ pc[w] = "done" /\ cache' = cache
        /\ menu_items'[req[w].item].stock_quantity = flushed[w].stock_after
    BY <1>2, <2>1 DEF Commit, CommitItem, TypeOK
  <2> QED
    BY <1>2, <2>1, <2>2 DEF CachedOf
<1>3. CacheInv =>
          [\A w \in Workers : Commit(w) /\ flushed[w] # NoMovement =>
               cache'[req[w].item] \in
                   {NoValue, menu_items'[req[w].item].stock_quantity}]_vars
  BY <1>2
<1> QED
  BY <1>1, <1>3, PTL DEF CommitLeavesCacheRight
=============================================================================
