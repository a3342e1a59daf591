-------------------------- MODULE LifecycleProofs --------------------------
(***************************************************************************)
(* OrderService implements OrderLifecycle.  Each request decides on an     *)
(* order row that it read without a lock, so the argument is about the     *)
(* version: a row whose version has not moved has not changed.             *)
(***************************************************************************)
EXTENDS OrderServiceProofs

\* The row that request w is about.
Row(w) == orders[req[w].order]

\* What w read is at most as new as the row, and is the row if it is as new.
SnapshotOf(w) ==
    req[w].op \in OrderOps =>
        /\ snap[w].version <= Row(w).version
        /\ snap[w].version = Row(w).version => snap[w] = Row(w)

\* What w read allows what w goes on to do.
DecisionOf(w) ==
    /\ pc[w] \in {"idle", "lock", "cache"} => outcome[w] = "none"
    /\ pc[w] \in {"lock", "cache", "update"} /\ req[w].op \in OrderOps =>
           CanTransition(snap[w].status, Goal(req[w].op))
    /\ pc[w] = "update" /\ outcome[w] = "insufficient" => req[w].op = "confirm"

\* What w has written and not committed is a step of the lifecycle from the row.
WriteOf(w) ==
    target[w] # "none" =>
        IF req[w].op = "place"
        THEN Row(w) = AbsentRow /\ target[w] = "PENDING"
        ELSE Row(w) = snap[w] /\ CanTransition(snap[w].status, target[w])

VersionsOf(w) == SnapshotOf(w) /\ DecisionOf(w) /\ WriteOf(w)

\* An order row is written by one transaction at a time.
OneWriter ==
    \A v, w \in Workers :
        target[v] # "none" /\ target[w] # "none" /\ req[v].order = req[w].order => v = w

VersionInv == TypeInv /\ (\A w \in Workers : VersionsOf(w)) /\ OneWriter

-----------------------------------------------------------------------------
\* terminal_states are the states without a successor in valid_transitions: the
\* two definitions of enums.py agree.
LEMMA TerminalMeansFinal ==
    ASSUME NEW s \in OrderStatuses
    PROVE  s \in TerminalStates <=> \A n \in OrderStatuses : ~ CanTransition(s, n)
BY DEF TerminalStates, OrderStatuses, CanTransition, ValidTransitions

\* The rows of a request are rows of the table.
LEMMA RowTypes ==
    ASSUME TypeInv, NEW w \in Workers
    PROVE  /\ req[w].op \in OrderOpsAndPlace => req[w].order \in Orders /\ Row(w) \in OrderRows
           /\ snap[w] \in OrderRows /\ snap[w].version \in Nat
           /\ req[w].op \in OrderOpsAndPlace => Row(w).version \in Nat
BY DEF TypeInv, TypeOK, Shape, ShapeOf, Row, OrderRows

\* A request for a row that does not change is affected by its own steps only.
LEMMA UntouchedVersions ==
    ASSUME TypeInv, NEW v \in Workers, VersionsOf(v), Untouched(v), orders' = orders
    PROVE  VersionsOf(v)'
BY DEF VersionsOf, SnapshotOf, DecisionOf, WriteOf, Row, Untouched

\* Reading, waiting and flushing: nothing is written to the order rows.
LEMMA NoNewTarget ==
    ASSUME VersionInv, NEW w \in Workers, VersionsOf(w)', TypeInv', orders' = orders,
           \A v \in Workers \ {w} : Untouched(v),
           \A v \in Workers : target'[v] = target[v] \/ target'[v] = "none",
           target[w] = "none" \/ req'[w] = req[w] \/ target'[w] = "none"
    PROVE  VersionInv'
<1>1. \A v \in Workers : VersionsOf(v)'
  BY UntouchedVersions DEF VersionInv
<1>2. OneWriter'
  BY DEF VersionInv, OneWriter, Untouched
<1> QED
  BY <1>1, <1>2 DEF VersionInv

\* The first write of a free row.
LEMMA NewTarget ==
    ASSUME VersionInv, NEW w \in Workers, VersionsOf(w)', TypeInv', orders' = orders,
           \A v \in Workers \ {w} : Untouched(v),
           OrderRowFree(req'[w].order)
    PROVE  VersionInv'
<1>1. \A v \in Workers : VersionsOf(v)'
  BY UntouchedVersions DEF VersionInv
<1>2. OneWriter'
  BY DEF VersionInv, OneWriter, Untouched, OrderRowFree
<1> QED
  BY <1>1, <1>2 DEF VersionInv

\* place_order and get_by_id take a snapshot that is the committed row.
LEMMA StartVersions ==
    ASSUME VersionInv, NEW w \in Workers, Start(w)
    PROVE  VersionInv'
<1>0. TypeInv /\ TypeInv' /\ ShapeOf(w) /\ VersionsOf(w)
  BY StartType DEF VersionInv, TypeInv, Shape
<1>1. ASSUME NEW o \in Orders, PlaceOrder(w, o) PROVE VersionInv'
  <2>1. /\ req'[w] = OrderRequest("place", o) /\ target'[w] = "PENDING"
        /\ pc'[w] = "done" /\ outcome'[w] = "ok" /\ orders' = orders
        /\ \A v \in Workers \ {w} : Untouched(v)
    BY <1>0, <1>1 DEF TypeInv, TypeOK, PlaceOrder, Untouched, db
  <2>2. OrderRequest("place", o).op = "place" /\ OrderRequest("place", o).order = o
    BY OrderRequestType DEF OrderOpsAndPlace
  <2>3. VersionsOf(w)'
    BY <1>1, <2>1, <2>2 DEF PlaceOrder, VersionsOf, SnapshotOf, DecisionOf, WriteOf, Row,
                            OrderOps, AbsentRow
  <2> QED
    BY <1>0, <1>1, <2>1, <2>2, <2>3, NewTarget DEF PlaceOrder
<1>2. ASSUME NEW op \in OrderOps, NEW o \in Orders, ReadOrder(w, op, o) PROVE VersionInv'
  <2>1. /\ req'[w] = OrderRequest(op, o) /\ target' = target /\ snap'[w] = orders[o]
        /\ orders' = orders
        /\ \A v \in Workers \ {w} : Untouched(v)
    BY <1>0, <1>2 DEF TypeInv, TypeOK, ReadOrder, Untouched, db
  <2>2. /\ OrderRequest(op, o).op = op /\ OrderRequest(op, o).order = o
        /\ target[w] = "none"
    BY <1>0, <1>2, OrderRequestType DEF OrderOpsAndPlace, ReadOrder, ShapeOf
  <2>3. \/ pc'[w] = "done"
        \/ /\ CanTransition(orders[o].status, Goal(op)) /\ outcome'[w] = "none"
           /\ pc'[w] \in {"lock", "update"}
    BY <1>0, <1>2 DEF TypeInv, TypeOK, ReadOrder, VersionsOf, DecisionOf
  <2>4. orders[o].version \in Nat
    BY <1>0 DEF TypeInv, TypeOK, OrderRows
  <2>5. VersionsOf(w)'
    BY <2>1, <2>2, <2>3, <2>4 DEF VersionsOf, SnapshotOf, DecisionOf, WriteOf, Row
  <2> QED
    BY <1>0, <2>1, <2>2, <2>5, NoNewTarget
<1>3. ASSUME NEW i \in Items, NEW d \in Deltas, StartAdjust(w, i, d) PROVE VersionInv'
  <2>1. /\ req'[w].op = "adjust" /\ pc'[w] = "lock" /\ target' = target /\ orders' = orders
        /\ target[w] = "none" /\ outcome'[w] = "none"
        /\ \A v \in Workers \ {w} : Untouched(v)
    BY <1>0, <1>3 DEF TypeInv, TypeOK, StartAdjust, Untouched, db, ShapeOf, VersionsOf, DecisionOf
  <2>2. VersionsOf(w)'
    BY <2>1 DEF VersionsOf, SnapshotOf, DecisionOf, WriteOf, OrderOps
  <2> QED
    BY <1>0, <2>1, <2>2, NoNewTarget
<1> QED
  BY <1>1, <1>2, <1>3 DEF Start

\* Only a deduction can find too little stock: the other requests add or keep.
LEMMA OnlyConfirmFallsShort ==
    ASSUME TypeInv, NEW w \in Workers, pc[w] = "lock", req[w].op # "adjust",
           TooLittle(StockRead(w), req[w].delta)
    PROVE  req[w].op = "confirm"
<1>1. req[w].op \in OrderOps /\ req[w].order \in Orders
      /\ req[w] = OrderRequest(req[w].op, req[w].order)
  BY DEF TypeInv, Shape, ShapeOf, OrderOpsAndPlace
<1>2. StockRead(w) \in Stock /\ quantity[req[w].order] \in Nat
  BY <1>1, ItemOfRequest, ConstantsAssumption
<1>3. req[w].op # "confirm" => req[w].delta \in Nat
  BY <1>1, <1>2 DEF OrderRequest
<1> QED
  BY <1>2, <1>3, ConstantsAssumption DEF TooLittle, Stock

\* Locking the item and flushing the movement leave order rows and snapshots alone.
LEMMA TakeItemVersions ==
    ASSUME VersionInv, NEW w \in Workers, TakeItem(w)
    PROVE  VersionInv'
<1>0. TypeInv /\ TypeInv' /\ ShapeOf(w) /\ VersionsOf(w)
  BY TakeItemType DEF VersionInv, TypeInv, Shape
<1>1. /\ pc[w] = "lock" /\ req' = req /\ target' = target /\ snap' = snap
      /\ orders' = orders /\ target[w] = "none" /\ outcome[w] = "none"
      /\ \A v \in Workers \ {w} : Untouched(v)
  <2>1. LockItem(w)
    BY DEF TakeItem, FlushMovement, FindTooLittle, FlushFails
  <2>2. \A v \in Workers \ {w} : Untouched(v)
    BY <1>0, <2>1 DEF TypeInv, TypeOK, TakeItem, FlushMovement, FindTooLittle, FlushFails,
                      LockItem, Untouched
  <2> QED
    BY <1>0, <2>1, <2>2 DEF LockItem, db, ShapeOf, VersionsOf, DecisionOf
<1>2. DecisionOf(w)'
  <2>1. CASE FlushMovement(w)
    <3>1. pc'[w] = "cache" /\ outcome' = outcome
      BY <1>0, <2>1 DEF TypeInv, TypeOK, FlushMovement
    <3> QED
      BY <1>0, <1>1, <3>1 DEF VersionsOf, DecisionOf
  <2>2. CASE FindTooLittle(w)
    <3>1. pc'[w] = "done" \/ (pc'[w] = "update" /\ req[w].op # "adjust")
      BY <1>0, <2>2 DEF TypeInv, TypeOK, FindTooLittle
    <3>2. pc'[w] = "update" => req[w].op = "confirm"
      BY <1>0, <1>1, <2>2, <3>1, OnlyConfirmFallsShort DEF FindTooLittle
    <3> QED
      BY <1>0, <1>1, <3>1, <3>2 DEF VersionsOf, DecisionOf
  <2>3. CASE FlushFails(w)
    <3>1. pc'[w] = "done"
      BY <1>0, <2>3 DEF TypeInv, TypeOK, FlushFails
    <3> QED
      BY <3>1 DEF DecisionOf
  <2> QED
    BY <2>1, <2>2, <2>3 DEF TakeItem
<1>3. VersionsOf(w)'
  BY <1>0, <1>1, <1>2 DEF VersionsOf, SnapshotOf, WriteOf, Row
<1> QED
  BY <1>0, <1>1, <1>3, NoNewTarget

\* set_stock leaves order rows and snapshots alone.
LEMMA WriteCacheVersions ==
    ASSUME VersionInv, NEW w \in Workers, WriteCache(w)
    PROVE  VersionInv'
<1>0. TypeInv /\ TypeInv' /\ VersionsOf(w)
  BY WriteCacheType DEF VersionInv
<1>1. /\ pc[w] = "cache" /\ req' = req /\ target' = target /\ snap' = snap
      /\ orders' = orders /\ AfterCache(w)
  BY DEF WriteCache, SetCache, SetCacheFails, db
<1>2. \A v \in Workers \ {w} : Untouched(v)
  BY <1>0, <1>1 DEF TypeInv, TypeOK, AfterCache, Untouched, WriteCache, SetCache, SetCacheFails
<1>3. pc'[w] = "done" \/ (pc'[w] = "update" /\ outcome'[w] = "none")
  BY <1>0, <1>1 DEF TypeInv, TypeOK, AfterCache, VersionsOf, DecisionOf
<1>4. VersionsOf(w)'
  BY <1>0, <1>1, <1>3 DEF VersionsOf, SnapshotOf, DecisionOf, WriteOf, Row
<1> QED
  BY <1>0, <1>1, <1>2, <1>4, NoNewTarget

\* Whatever confirm, ship, deliver or cancel finally write is allowed.
LEMMA NewStatusAllowed ==
    ASSUME NEW w \in Workers, pc[w] = "update", req[w].op \in OrderOps, DecisionOf(w)
    PROVE  CanTransition(snap[w].status, NewStatus(w))
<1>1. CASE outcome[w] = "insufficient"
  <2>1. CanTransition(snap[w].status, "CONFIRMED")
    BY <1>1 DEF DecisionOf, Goal
  <2> QED
    BY <1>1, <2>1 DEF CanTransition, ValidTransitions, NewStatus
<1>2. CASE outcome[w] # "insufficient"
  BY <1>2 DEF DecisionOf, NewStatus
<1> QED
  BY <1>1, <1>2

\* transition_status writes only on a row of the version it read, and alone.
LEMMA WriteOrderVersions ==
    ASSUME VersionInv, NEW w \in Workers, WriteOrder(w)
    PROVE  VersionInv'
<1>0. TypeInv /\ TypeInv' /\ ShapeOf(w) /\ VersionsOf(w)
  BY WriteOrderType DEF VersionInv, TypeInv, Shape
<1>1. /\ pc[w] = "update" /\ pc'[w] = "done" /\ req' = req /\ snap' = snap
      /\ orders' = orders /\ \A v \in Workers \ {w} : Untouched(v)
  BY <1>0 DEF TypeInv, TypeOK, WriteOrder, TransitionStatus, TransitionConflicts, db, Untouched
<1>2. req[w].op \in OrderOps /\ target[w] = "none"
  BY <1>0, <1>1 DEF ShapeOf
<1>3. CASE TransitionStatus(w)
  <2>1. target'[w] = NewStatus(w) /\ CanTransition(snap[w].status, NewStatus(w))
    BY <1>0, <1>1, <1>2, <1>3, NewStatusAllowed
       DEF TypeInv, TypeOK, TransitionStatus, VersionsOf
  <2>2. Row(w) = snap[w]
    BY <1>0, <1>2, <1>3 DEF TransitionStatus, VersionMatches, VersionsOf, SnapshotOf, Row
  <2>3. req[w].op # "place"
    BY <1>2 DEF OrderOps
  <2>4. VersionsOf(w)'
    BY <1>0, <1>1, <2>1, <2>2, <2>3 DEF VersionsOf, SnapshotOf, DecisionOf, WriteOf, Row
  <2> QED
    BY <1>0, <1>1, <1>3, <2>4, NewTarget DEF TransitionStatus
<1>4. CASE TransitionConflicts(w)
  <2>1. target' = target
    BY <1>4 DEF TransitionConflicts
  <2>2. VersionsOf(w)'
    BY <1>0, <1>1, <1>2, <2>1 DEF VersionsOf, SnapshotOf, DecisionOf, WriteOf, Row
  <2> QED
    BY <1>0, <1>1, <2>1, <2>2, NoNewTarget
<1> QED
  BY <1>3, <1>4 DEF WriteOrder

-----------------------------------------------------------------------------
(* The end of a transaction.                                               *)

\* What Release leaves of the requests.
LEMMA ReleaseEffect ==
    ASSUME TypeInv, NEW w \in Workers, Release(w)
    PROVE  /\ req'[w] = Idle /\ target'[w] = "none" /\ pc'[w] = "idle"
           /\ outcome'[w] = "none"
           /\ \A v \in Workers \ {w} : Untouched(v)
BY DEF TypeInv, TypeOK, Release, Untouched

\* A commit with a written status changes one row, along the lifecycle.
LEMMA CommitOrderEffect ==
    ASSUME VersionInv, NEW w \in Workers, CommitOrder(w)
    PROVE  \/ target[w] = "none" /\ orders' = orders
           \/ /\ target[w] # "none" /\ req[w].order \in Orders
              /\ orders' = [orders EXCEPT ![req[w].order] =
                               [status |-> target[w], version |-> @.version + 1]]
              /\ \/ Row(w) = AbsentRow /\ target[w] = "PENDING"
                 \/ CanTransition(Row(w).status, target[w])
<1>1. ShapeOf(w) /\ WriteOf(w)
  BY DEF VersionInv, VersionsOf, TypeInv, Shape
<1>2. target[w] # "none" => req[w].order \in Orders
  BY <1>1 DEF ShapeOf
<1> QED
  BY <1>1, <1>2 DEF WriteOf, CommitOrder

\* A commit by w makes the snapshots that others took of the row old.
LEMMA CommitKeepsOthers ==
    ASSUME VersionInv, NEW w \in Workers, NEW v \in Workers \ {w},
           CommitOrder(w), Untouched(v)
    PROVE  VersionsOf(v)'
<1>0. TypeInv /\ VersionsOf(v) /\ ShapeOf(v)
  BY DEF VersionInv, TypeInv, Shape
<1>1. CASE orders' = orders
  BY <1>0, <1>1, UntouchedVersions
<1>2. CASE target[w] # "none"
  <2> DEFINE o == req[w].order
  <2>1. /\ o \in Orders /\ orders[o].version \in Nat
        /\ orders' = [orders EXCEPT ![o] =
                         [status |-> target[w], version |-> @.version + 1]]
    BY <1>0, <1>2, CommitOrderEffect DEF TypeInv, TypeOK, OrderRows
  <2>2. CASE req[v].order # o
    <3>1. orders'[req[v].order] = orders[req[v].order] \/ req[v].op \notin OrderOpsAndPlace
      BY <1>0, <2>1, <2>2 DEF TypeInv, TypeOK, ShapeOf
    <3>2. CASE orders'[req[v].order] = orders[req[v].order]
      BY <1>0, <3>2 DEF VersionsOf, SnapshotOf, DecisionOf, WriteOf, Row, Untouched
    <3>3. CASE req[v].op \notin OrderOpsAndPlace
      BY <1>0, <3>3 DEF VersionsOf, SnapshotOf, DecisionOf, WriteOf, Untouched, ShapeOf,
                        OrderOpsAndPlace
    <3> QED
      BY <3>1, <3>2, <3>3
  <2>3. CASE req[v].order = o
    <3>1. target[v] = "none"
      BY <1>2, <2>3 DEF VersionInv, OneWriter
    <3>2. orders'[o].version = orders[o].version + 1 /\ snap[v].version \in Nat
      BY <1>0, <2>1, RowTypes DEF TypeInv, TypeOK
    <3>3. SnapshotOf(v)'
      <4>1. req[v].op \in OrderOps => snap[v].version <= orders[o].version
        BY <1>0, <2>3 DEF VersionsOf, SnapshotOf, Row
      <4> QED
        BY <2>1, <2>3, <3>2, <4>1 DEF SnapshotOf, Row, Untouched
    <3>4. DecisionOf(v)' /\ WriteOf(v)'
      BY <1>0, <3>1 DEF VersionsOf, DecisionOf, WriteOf, Untouched
    <3> QED
      BY <3>3, <3>4 DEF VersionsOf
  <2> QED
    BY <2>2, <2>3
<1> QED
  BY <1>1, <1>2, CommitOrderEffect

\* The end of get_db commits the written row, which makes other snapshots old, or
\* drops it.
LEMMA EndRequestVersions ==
    ASSUME VersionInv, NEW w \in Workers, EndRequest(w) \/ Abort(w)
    PROVE  VersionInv'
<1>0. TypeInv /\ TypeInv' /\ Release(w)
  BY EndRequestType DEF VersionInv, EndRequest, Commit, Rollback, Abort
<1>1. VersionsOf(w)'
  BY <1>0, ReleaseEffect DEF VersionsOf, SnapshotOf, DecisionOf, WriteOf, Idle, OrderOps
<1>2. ASSUME NEW v \in Workers \ {w} PROVE VersionsOf(v)'
  <2>1. Untouched(v) /\ VersionsOf(v)
    BY <1>0, ReleaseEffect DEF VersionInv
  <2>2. CASE Commit(w)
    BY <2>1, <2>2, CommitKeepsOthers DEF Commit
  <2>3. CASE Rollback(w) \/ Abort(w)
    BY <1>0, <2>1, <2>3, UntouchedVersions DEF Rollback, Abort, db
  <2> QED
    BY <2>2, <2>3 DEF EndRequest
<1>3. OneWriter'
  BY <1>0, ReleaseEffect DEF VersionInv, OneWriter, Untouched
<1> QED
  BY <1>0, <1>1, <1>2, <1>3 DEF VersionInv

\* Before any order is placed no request has a snapshot.
LEMMA InitVersionInv == Init => VersionInv
<1> SUFFICES ASSUME Init PROVE VersionInv
  OBVIOUS
<1>1. \A w \in Workers : VersionsOf(w)
  BY DEF Init, VersionsOf, SnapshotOf, DecisionOf, WriteOf, Idle, OrderOps
<1>2. OneWriter
  BY DEF Init, OneWriter
<1> QED
  BY <1>1, <1>2, InitTypeInv DEF VersionInv

\* Every step of every request keeps the version invariant.
LEMMA NextVersionInv == VersionInv /\ [Next]_vars => VersionInv'
<1> SUFFICES ASSUME VersionInv, [Next]_vars PROVE VersionInv'
  OBVIOUS
<1>0. TypeInv'
  BY NextTypeInv DEF VersionInv
<1>1. ASSUME NEW w \in Workers,
             \/ Start(w) \/ TakeItem(w) \/ WriteCache(w)
             \/ WriteOrder(w) \/ EndRequest(w) \/ Abort(w)
      PROVE  VersionInv'
  BY <1>1, StartVersions, TakeItemVersions, WriteCacheVersions, WriteOrderVersions,
     EndRequestVersions
<1>2. CASE (\E i \in Items : Expire(i)) \/ UNCHANGED vars
  <2>1. orders' = orders /\ target' = target /\ req' = req
        /\ \A v \in Workers : Untouched(v)
    BY <1>2 DEF Expire, db, tx, vars, Untouched
  <2>2. \A v \in Workers : VersionsOf(v)'
    BY <2>1, UntouchedVersions DEF VersionInv
  <2>3. OneWriter'
    BY <2>1 DEF VersionInv, OneWriter
  <2> QED
    BY <1>0, <2>2, <2>3 DEF VersionInv
<1> QED
  BY <1>1, <1>2 DEF Next

-----------------------------------------------------------------------------
\* Every step of OrderService is a step of the lifecycle or leaves orders alone.
LEMMA StepRefines == VersionInv /\ [Next]_vars => [Lifecycle!Next]_orders
<1> SUFFICES ASSUME VersionInv, [Next]_vars PROVE [Lifecycle!Next]_orders
  OBVIOUS
<1>1. ASSUME NEW w \in Workers, Commit(w) PROVE [Lifecycle!Next]_orders
  <2>1. CASE orders' = orders
    BY <2>1
  <2>2. CASE orders' # orders
    <3> DEFINE o == req[w].order
    <3>1. /\ o \in Orders /\ Lifecycle!Write(o, target[w])
          /\ \/ orders[o] = AbsentRow /\ target[w] = "PENDING"
             \/ CanTransition(orders[o].status, target[w])
      BY <1>1, <2>2, CommitOrderEffect DEF Commit, Row, Lifecycle!Write
    <3>2. CASE orders[o] = AbsentRow /\ target[w] = "PENDING"
      BY <3>1, <3>2 DEF Lifecycle!Next, Lifecycle!Place, Lifecycle!AbsentRow, AbsentRow
    <3>3. CASE CanTransition(orders[o].status, target[w])
      <4>1. target[w] \in Lifecycle!OrderStatuses
        BY <3>3 DEF CanTransition, ValidTransitions, Lifecycle!OrderStatuses
      <4>2. Lifecycle!Transition(o, target[w])
        BY <3>1, <3>3 DEF Lifecycle!Transition, Lifecycle!CanTransition, CanTransition,
                          Lifecycle!ValidTransitions, ValidTransitions
      <4> QED
        BY <3>1, <4>1, <4>2 DEF Lifecycle!Next
    <3> QED
      BY <3>1, <3>2, <3>3
  <2> QED
    BY <2>1, <2>2
<1>2. ASSUME ~ \E w \in Workers : Commit(w) PROVE orders' = orders
  BY <1>2 DEF Next, Start, PlaceOrder, ReadOrder, StartAdjust, TakeItem, FlushMovement,
     FindTooLittle, FlushFails, LockItem, WriteCache, SetCache, SetCacheFails, WriteOrder,
     TransitionStatus, TransitionConflicts, EndRequest, Rollback, Abort, Expire, vars, db
<1> QED
  BY <1>1, <1>2

\* The orders table follows the lifecycle however requests interleave, conflict,
\* fail or die: no transition is skipped, undone or made twice.
THEOREM ImplementsLifecycle == Spec => LifecycleSpec
<1>1. Init => Lifecycle!Init
  BY DEF Init, Lifecycle!Init, AbsentRow, Lifecycle!AbsentRow
<1>2. Spec => []VersionInv
  BY InitVersionInv, NextVersionInv, PTL DEF Spec
<1> QED
  BY <1>1, <1>2, StepRefines, PTL DEF Spec, LifecycleSpec, Lifecycle!Spec

\* No step of any request changes a terminal row: there is nothing to go on to.
LEMMA TerminalRowStands ==
    ASSUME VersionInv, [Next]_vars, NEW o \in Orders, orders[o].status \in TerminalStates
    PROVE  orders'[o] = orders[o]
<1>1. CASE orders' = orders
  BY <1>1
<1>2. CASE Lifecycle!Next
  <2>1. PICK p \in Orders : Lifecycle!Place(p)
                             \/ \E s \in Lifecycle!OrderStatuses : Lifecycle!Transition(p, s)
    BY <1>2 DEF Lifecycle!Next
  <2>2. p # o
    <3>1. orders[o] # Lifecycle!AbsentRow
      BY DEF Lifecycle!AbsentRow, TerminalStates
    <3>2. \A s : ~ Lifecycle!CanTransition(orders[o].status, s)
      BY DEF Lifecycle!CanTransition, Lifecycle!ValidTransitions, TerminalStates
    <3> QED
      BY <2>1, <3>1, <3>2 DEF Lifecycle!Place, Lifecycle!Transition
  <2>3. orders \in [Orders -> OrderRows]
    BY DEF VersionInv, TypeInv, TypeOK
  <2> QED
    BY <2>1, <2>2, <2>3 DEF Lifecycle!Place, Lifecycle!Transition, Lifecycle!Write
<1> QED
  BY <1>1, <1>2, StepRefines

\* A terminal order never changes again (README, "no further transitions").
THEOREM TerminalIsFinal ==
    Spec => [][\A o \in Orders : orders[o].status \in TerminalStates
                                     => orders'[o] = orders[o]]_orders
<1> DEFINE Final == \A o \in Orders : orders[o].status \in TerminalStates
                                          => orders'[o] = orders[o]
<1>1. VersionInv /\ [Next]_vars => [Final]_orders
  BY TerminalRowStands
<1>2. Spec => []VersionInv
  BY InitVersionInv, NextVersionInv, PTL DEF Spec
<1> QED
  BY <1>1, <1>2, PTL DEF Spec
=============================================================================
