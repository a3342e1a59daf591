--------------------------- MODULE ReportsProofs ---------------------------
(***************************************************************************)
(* Answers beside writers.  What a statement has read bounds what is       *)
(* committed from then on, and the times that rows are given under a row   *)
(* lock are in the order of the trail.  So a list of orders in a terminal  *)
(* status stands, a page sorted by time has no gap, and the statements of  *)
(* a detail or a summary cover earlier ones, within their windows.         *)
(***************************************************************************)
EXTENDS Reports, AccountingProofs

-----------------------------------------------------------------------------
(* What the writers leave behind, while a reader is between two statements. *)

\* A row changes with its version.
LEMMA RowsAge ==
    ASSUME VersionInv, [Next]_vars, NEW o \in Orders
    PROVE  /\ orders[o].version \in Nat /\ orders'[o].version \in Nat
           /\ orders'[o] = orders[o] \/ orders'[o].version > orders[o].version
<1>1. orders \in [Orders -> OrderRows] /\ orders' \in [Orders -> OrderRows]
  <2>1. VersionInv'
    BY NextVersionInv
  <2> QED
    BY <2>1 DEF VersionInv, TypeInv, TypeOK
<1>2. orders[o].version \in Nat /\ orders'[o].version \in Nat
  BY <1>1 DEF OrderRows
<1>3. CASE \E w \in Workers : Commit(w)
  <2> PICK w \in Workers : Commit(w)
    BY <1>3
  <2>1. orders' = orders \/ orders' = [orders EXCEPT ![req[w].order] =
                                           [status |-> target[w], version |-> @.version + 1]]
    BY DEF Commit, CommitOrder
  <2>2. orders'[o] = orders[o] \/ orders'[o].version = orders[o].version + 1
    BY <1>1, <2>1
  <2> QED
    BY <1>2, <2>2
<1>4. CASE ~ \E w \in Workers : Commit(w)
  BY <1>2, <1>4, OnlyCommitsWrite DEF db
<1> QED
  BY <1>3, <1>4

\* So does the row of an item.
LEMMA ItemsAge ==
    ASSUME VersionInv, [Next]_vars, NEW i \in Items
    PROVE  /\ menu_items[i].version \in Nat /\ menu_items'[i].version \in Nat
           /\ menu_items'[i] = menu_items[i] \/ menu_items'[i].version > menu_items[i].version
<1>1. /\ menu_items \in [Items -> [stock_quantity : Stock, version : Nat]]
      /\ menu_items' \in [Items -> [stock_quantity : Stock, version : Nat]]
  <2>1. VersionInv'
    BY NextVersionInv
  <2> QED
    BY <2>1 DEF VersionInv, TypeInv, TypeOK
<1>2. menu_items[i].version \in Nat /\ menu_items'[i].version \in Nat
  BY <1>1
<1>3. CASE \E w \in Workers : Commit(w)
  <2> PICK w \in Workers : Commit(w)
    BY <1>3
  <2>1. menu_items' = menu_items \/
        menu_items' = [menu_items EXCEPT ![req[w].item] =
                          [stock_quantity |-> flushed[w].stock_after, version |-> @.version + 1]]
    BY DEF Commit, CommitItem
  <2>2. menu_items'[i] = menu_items[i] \/ menu_items'[i].version = menu_items[i].version + 1
    BY <1>1, <2>1
  <2> QED
    BY <1>2, <2>2
<1>4. CASE ~ \E w \in Workers : Commit(w)
  BY <1>2, <1>4, OnlyCommitsWrite DEF db
<1> QED
  BY <1>3, <1>4

\* No movement is ever taken back.
LEMMA MovesOnlyGrow ==
    ASSUME InventoryInv, [Next]_vars, NEW p \in Orders
    PROVE  /\ Moves(p, "DEDUCTION") \in Nat /\ Moves(p, "DEDUCTION")' \in Nat
           /\ Moves(p, "DEDUCTION")' >= Moves(p, "DEDUCTION")
<1>1. Moves(p, "DEDUCTION") \in Nat
  BY MovesType DEF InventoryInv, VersionInv, TypeInv
<1>2. Moves(p, "DEDUCTION")' \in {Moves(p, "DEDUCTION"), Moves(p, "DEDUCTION") + 1}
  BY StepBooks DEF BooksStand, BooksConfirm, BooksCancel, BooksLoseTrack
<1> QED
  BY <1>1, <1>2

-----------------------------------------------------------------------------
(* created_at.  It is read from the clock at the flush and becomes visible *)
(* at the commit; what keeps it in order is the lock held in between.      *)

\* The times of a trail are in the order of the trail.
DatesOf(i) ==
    /\ moved_at[i] \in Seq(Nat) /\ Len(moved_at[i]) = Len(stock_movements[i])
    /\ \A k \in 1..Len(moved_at[i]) : moved_at[i][k] <= now
    /\ \A k, l \in 1..Len(moved_at[i]) : k <= l => moved_at[i][k] <= moved_at[i][l]

\* An order is placed before its stock is deducted.
OrderDatesOf(o) == \A k \in MovesOf(o, "DEDUCTION") : placed_at[o] <= moved_at[item_id[o]][k]

\* What is flushed is later than the trail, and a deduction later than its order.
StampOf(w) ==
    flushed[w] # NoMovement =>
        /\ \A k \in 1..Len(moved_at[req[w].item]) : moved_at[req[w].item][k] <= stamp[w]
        /\ flushed[w].movement_type = "DEDUCTION" =>
               orders[req[w].order] # AbsentRow /\ placed_at[req[w].order] <= stamp[w]

TimesInv ==
    /\ now \in Nat /\ stamp \in [Workers -> Nat] /\ placed_at \in [Orders -> Nat]
    /\ moved_at \in [Items -> Seq(Nat)]
    /\ \A w \in Workers : stamp[w] <= now /\ StampOf(w)
    /\ \A o \in Orders : placed_at[o] <= now /\ OrderDatesOf(o)
    /\ \A i \in Items : DatesOf(i)

\* The writers' invariants, and that of the times of what they write.
BaseInv == BooksInv /\ LedgerInv /\ TimesInv

\* The request that a commit ends is the one that commits.
LEMMA EndedCommits ==
    ASSUME TypeInv, NEW w \in Workers, Commit(w)
    PROVE  Ended = w
<1>1. /\ pc \in [Workers -> {"idle", "lock", "cache", "update", "done"}]
      /\ pc[w] = "done" /\ pc' = [pc EXCEPT ![w] = "idle"]
  BY DEF Commit, Release, TypeInv, TypeOK
<1>2. \A v \in Workers : pc[v] # "idle" /\ pc'[v] = "idle" <=> v = w
  BY <1>1
<1> QED
  BY <1>2 DEF Ended

\* An order that is there stays.
LEMMA OrdersStay ==
    ASSUME VersionInv, [Next]_vars, NEW o \in Orders, orders[o] # AbsentRow
    PROVE  orders'[o] # AbsentRow
<1>1. /\ orders[o].version \in Nat
      /\ orders'[o] = orders[o] \/ orders'[o].version > orders[o].version
  BY RowsAge
<1>2. AbsentRow.version = 0
  BY DEF AbsentRow
<1> QED
  BY <1>1, <1>2

\* What a request has flushed it had flushed before, or flushes now.
LEMMA FlushedSince ==
    ASSUME PendingInv, [Next]_vars, NEW v \in Workers, flushed'[v] # NoMovement
    PROVE  \/ flushed[v] # NoMovement /\ flushed'[v] = flushed[v] /\ req'[v] = req[v]
           \/ FlushMovement(v)
<1>0. TypeInv /\ TypeOK
  BY DEF PendingInv, TypeInv
<1>1. ASSUME NEW w \in Workers, Start(w)
      PROVE  flushed[v] # NoMovement /\ flushed'[v] = flushed[v] /\ req'[v] = req[v]
  <2>1. /\ pc[w] = "idle" /\ flushed' = flushed
        /\ v # w => req'[v] = req[v]
    BY <1>0, <1>1 DEF TypeOK, Start, PlaceOrder, ReadOrder, StartAdjust
  <2>2. v # w
    BY <2>1, NothingFlushed
  <2> QED
    BY <2>1, <2>2
<1>2. ASSUME NEW w \in Workers, TakeItem(w)
      PROVE  \/ flushed[v] # NoMovement /\ flushed'[v] = flushed[v] /\ req'[v] = req[v]
             \/ FlushMovement(v)
  <2>1. req' = req /\ (flushed' = flushed \/ FlushMovement(w))
    BY <1>2 DEF TakeItem, FlushMovement, FindTooLittle, FlushFails, LockItem
  <2>2. FlushMovement(w) /\ v # w => flushed'[v] = flushed[v]
    BY <1>0 DEF FlushMovement, TypeOK
  <2> QED
    BY <2>1, <2>2
<1>3. ASSUME NEW w \in Workers, WriteCache(w) \/ WriteOrder(w)
      PROVE  flushed[v] # NoMovement /\ flushed'[v] = flushed[v] /\ req'[v] = req[v]
  BY <1>3 DEF WriteCache, SetCache, SetCacheFails,
              WriteOrder, TransitionStatus, TransitionConflicts
<1>4. ASSUME NEW w \in Workers, EndRequest(w) \/ Abort(w)
      PROVE  flushed[v] # NoMovement /\ flushed'[v] = flushed[v] /\ req'[v] = req[v]
  <2>1. /\ req' = [req EXCEPT ![w] = Idle] /\ flushed' = [flushed EXCEPT ![w] = NoMovement]
        /\ req \in [Workers -> Requests] /\ flushed \in [Workers -> Movements \cup {NoMovement}]
    BY <1>0, <1>4 DEF EndRequest, Commit, Rollback, Abort, Release, TypeOK
  <2> QED
    BY <2>1
<1>5. CASE (\E i \in Items : Expire(i)) \/ UNCHANGED vars
  BY <1>5 DEF Expire, vars, tx
<1> QED
  BY <1>1, <1>2, <1>3, <1>4, <1>5 DEF Next

\* A step that does not commit leaves the times of the rows; a flush takes the clock's,
\* and what is flushed keeps it.
LEMMA ServeStamps ==
    ASSUME TimesInv, TypeInv, PendingInv, Serve
    PROVE  /\ \A v \in Workers : stamp'[v] \in Nat /\ stamp'[v] <= now
           /\ \A v \in Workers : flushed[v] # NoMovement /\ flushed'[v] # NoMovement
                                     => stamp'[v] = stamp[v]
           /\ \A v \in Workers : FlushMovement(v) => stamp'[v] = now
           /\ stamp' \in [Workers -> Nat] /\ now' = now
<1>1. /\ now \in Nat /\ now' = now
      /\ \A v \in Workers : stamp[v] \in Nat /\ stamp[v] <= now
      /\ stamp' = [w \in Workers |-> IF ~ HasInserted(w)' THEN 0
                                     ELSE IF HasInserted(w) THEN stamp[w] ELSE now]
  BY DEF TimesInv, Serve
<1>2. \A v \in Workers : stamp'[v] \in {0, stamp[v], now}
  BY <1>1
<1>3. \A v \in Workers : stamp'[v] \in Nat /\ stamp'[v] <= now
  BY <1>1, <1>2
<1>4. \A v \in Workers : flushed[v] # NoMovement /\ flushed'[v] # NoMovement
                             => stamp'[v] = stamp[v]
  BY <1>1 DEF HasInserted
<1>5. ASSUME NEW v \in Workers, FlushMovement(v) PROVE stamp'[v] = now
  <2>1. /\ pc[v] = "lock" /\ itemLock[req[v].item] = NoWorker /\ pc'[v] = "cache"
        /\ ShapeOf(v)
    BY <1>5 DEF FlushMovement, LockItem, ItemRowFree, TypeInv, TypeOK, Shape
  <2>2. ~ HasInserted(v)
    BY <2>1, NothingFlushed DEF ShapeOf, HasInserted
  <2>3. HasInserted(v)'
    <3>1. TypeInv'
      BY NextTypeInv DEF Serve
    <3>2. flushed'[v] \in Movements
      BY <2>1, <3>1 DEF TypeInv, Shape, ShapeOf
    <3> QED
      BY <3>2, NoMovementAssumption DEF HasInserted
  <2> QED
    BY <1>1, <2>2, <2>3
<1>6. stamp' \in [Workers -> Nat]
  BY <1>1, <1>3
<1> QED
  BY <1>1, <1>3, <1>4, <1>5, <1>6

\* Rows take their times with them into the tables.
LEMMA ServeRows ==
    ASSUME BaseInv, Serve
    PROVE  /\ \A o \in Orders : orders[o] # AbsentRow => placed_at'[o] = placed_at[o]
           /\ placed_at' \in [Orders -> Nat] /\ moved_at' \in [Items -> Seq(Nat)]
           /\ \A o \in Orders : placed_at'[o] <= now
           /\ \A i \in Items :
                  \/ /\ stock_movements'[i] = stock_movements[i]
                     /\ moved_at'[i] = moved_at[i]
                  \/ \E w \in Workers :
                         /\ Commit(w) /\ flushed[w] # NoMovement /\ req[w].item = i
                         /\ stock_movements'[i] = Append(stock_movements[i], flushed[w])
                         /\ moved_at'[i] = Append(moved_at[i], stamp[w])
<1>0. /\ TypeInv /\ TypeOK /\ VersionInv /\ TimesInv /\ [Next]_vars
      /\ \A w \in Workers : stamp[w] \in Nat /\ stamp[w] <= now
  BY DEF BaseInv, BooksInv, InventoryInv, VersionInv, TypeInv, TimesInv, Serve
<1>1. /\ placed_at' = [o \in Orders |->
             IF orders[o] = AbsentRow /\ orders'[o] # AbsentRow
             THEN stamp[Ended] ELSE placed_at[o]]
      /\ moved_at' = [i \in Items |->
             IF stock_movements'[i] # stock_movements[i]
             THEN Append(moved_at[i], stamp[Ended]) ELSE moved_at[i]]
  BY DEF Serve
<1>2. ASSUME NEW o \in Orders
      PROVE  placed_at'[o] \in Nat /\ placed_at'[o] <= now
  <2>1. CASE orders'[o] = orders[o]
    BY <1>0, <1>1, <2>1 DEF TimesInv
  <2>2. CASE orders'[o] # orders[o]
    <3>1. PICK w \in Workers : Commit(w)
      BY <1>0, <2>2, OnlyCommitsWrite DEF db
    <3>2. Ended = w
      BY <1>0, <3>1, EndedCommits
    <3>3. placed_at'[o] \in {stamp[w], placed_at[o]}
      BY <1>1, <3>2
    <3> QED
      BY <1>0, <3>3 DEF TimesInv
  <2> QED
    BY <2>1, <2>2
<1>3. ASSUME NEW i \in Items
      PROVE  /\ moved_at'[i] \in Seq(Nat)
             /\ \/ /\ stock_movements'[i] = stock_movements[i]
                   /\ moved_at'[i] = moved_at[i]
                \/ \E w \in Workers :
                       /\ Commit(w) /\ flushed[w] # NoMovement /\ req[w].item = i
                       /\ stock_movements'[i] = Append(stock_movements[i], flushed[w])
                       /\ moved_at'[i] = Append(moved_at[i], stamp[w])
  <2>0. moved_at[i] \in Seq(Nat)
    BY DEF BaseInv, TimesInv
  <2>1. CASE stock_movements'[i] = stock_movements[i]
    BY <1>1, <2>0, <2>1
  <2>2. CASE stock_movements'[i] # stock_movements[i]
    <3>1. PICK w \in Workers : Commit(w)
      BY <1>0, <2>2, OnlyCommitsWrite DEF db
    <3>2. Ended = w
      BY <1>0, <3>1, EndedCommits
    <3>3. moved_at'[i] = Append(moved_at[i], stamp[w])
      BY <1>1, <2>2, <3>2
    <3>4. flushed[w] # NoMovement /\ req[w].item = i
          /\ stock_movements'[i] = Append(stock_movements[i], flushed[w])
      <4>1. stock_movements \in [Items -> Seq(Movements)]
        BY <1>0 DEF TypeOK
      <4> QED
        BY <2>2, <3>1, <4>1 DEF Commit, CommitItem
    <3>5. stamp[w] \in Nat
      BY <1>0
    <3> QED
      BY <2>0, <3>1, <3>3, <3>4, <3>5
  <2> QED
    BY <2>1, <2>2
<1>4. placed_at' \in [Orders -> Nat] /\ moved_at' \in [Items -> Seq(Nat)]
  BY <1>1, <1>2, <1>3
<1> QED
  BY <1>1, <1>2, <1>3, <1>4

\* A movement that is committed is not before those of its trail.
LEMMA ServeDates ==
    ASSUME BaseInv, Serve, NEW i \in Items
    PROVE  DatesOf(i)'
<1>1. /\ DatesOf(i) /\ now \in Nat /\ now' = now
      /\ \A w \in Workers : stamp[w] \in Nat /\ stamp[w] <= now /\ StampOf(w)
      /\ stock_movements[i] \in Seq(Movements)
  BY DEF BaseInv, TimesInv, Serve, LedgerInv, PendingInv, TypeInv, TypeOK
<1>2. CASE stock_movements'[i] = stock_movements[i] /\ moved_at'[i] = moved_at[i]
  BY <1>1, <1>2 DEF DatesOf
<1>3. CASE \E w \in Workers :
               /\ Commit(w) /\ flushed[w] # NoMovement /\ req[w].item = i
               /\ stock_movements'[i] = Append(stock_movements[i], flushed[w])
               /\ moved_at'[i] = Append(moved_at[i], stamp[w])
  <2>1. PICK w \in Workers :
               /\ Commit(w) /\ flushed[w] # NoMovement /\ req[w].item = i
               /\ stock_movements'[i] = Append(stock_movements[i], flushed[w])
               /\ moved_at'[i] = Append(moved_at[i], stamp[w])
    BY <1>3
  <2> DEFINE times == moved_at[i]
             t == stamp[w]
  <2>2. /\ times \in Seq(Nat) /\ Len(times) = Len(stock_movements[i])
        /\ \A k \in 1..Len(times) : times[k] <= t /\ times[k] <= now
        /\ \A k, l \in 1..Len(times) : k <= l => times[k] <= times[l]
        /\ t \in Nat /\ t <= now
    BY <1>1, <2>1 DEF DatesOf, StampOf
  <2>3. moved_at'[i] = Append(times, t) /\ Len(stock_movements'[i]) = Len(times) + 1
    BY <1>1, <2>1, <2>2
  <2> HIDE DEF times, t
  <2>4. /\ Append(times, t) \in Seq(Nat) /\ Len(Append(times, t)) = Len(times) + 1
        /\ \A k \in 1..Len(times) : Append(times, t)[k] = times[k]
        /\ Append(times, t)[Len(times) + 1] = t
    BY <2>2
  <2>5. \A k \in 1..Len(times) + 1 : k \in 1..Len(times) \/ k = Len(times) + 1
    BY <2>2
  <2>6. \A k \in 1..Len(times) + 1 : Append(times, t)[k] <= now
    BY <2>2, <2>4, <2>5
  <2>7. ASSUME NEW k \in 1..Len(times) + 1, NEW l \in 1..Len(times) + 1, k <= l
        PROVE  Append(times, t)[k] <= Append(times, t)[l]
    <3>1. CASE l \in 1..Len(times)
      <4>1. k \in 1..Len(times)
        BY <2>2, <2>7, <3>1
      <4> QED
        BY <2>2, <2>4, <2>7, <3>1, <4>1
    <3>2. CASE l = Len(times) + 1
      <4>1. Append(times, t)[l] = t
        BY <2>4, <3>2
      <4>2. Append(times, t)[k] <= t
        <5>1. t <= t
          BY <2>2
        <5> QED
          BY <2>2, <2>4, <2>5, <5>1
      <4> QED
        BY <4>1, <4>2
    <3> QED
      BY <2>5, <3>1, <3>2
  <2> QED
    BY <1>1, <2>3, <2>4, <2>6, <2>7 DEF DatesOf
<1> QED
  BY <1>2, <1>3, ServeRows

\* The deductions of an order are committed after the order, and later than it.
LEMMA ServeOrderDates ==
    ASSUME BaseInv, Serve, NEW o \in Orders
    PROVE  OrderDatesOf(o)'
<1> DEFINE i == item_id[o]
           log == stock_movements[i]
<1>1. /\ InventoryInv /\ TypeOK /\ OrderDatesOf(o) /\ DatesOf(i) /\ BooksOf(o)
      /\ i \in Items /\ log \in Seq(Movements)
      /\ \A w \in Workers : StampOf(w) /\ FlushedOf(w)
  BY ConstantsAssumption DEF BaseInv, TimesInv, BooksInv, InventoryInv, VersionInv, TypeInv,
     TypeOK, TasksInv, TaskOf
<1>2. orders[o] # AbsentRow => placed_at'[o] = placed_at[o]
  BY ServeRows
<1>3. ASSUME NEW k \in MovesOf(o, "DEDUCTION") PROVE orders[o] # AbsentRow
  <2>1. Moves(o, "DEDUCTION") # 0
    BY <1>1, <1>3, MovesType, FS_EmptySet DEF Moves
  <2> QED
    BY <1>1, <2>1 DEF BooksOf, AbsentRow
<1>4. CASE stock_movements'[i] = stock_movements[i] /\ moved_at'[i] = moved_at[i]
  <2>1. MovesOf(o, "DEDUCTION")' = MovesOf(o, "DEDUCTION")
    BY <1>4 DEF MovesOf, Lines
  <2> QED
    BY <1>1, <1>2, <1>3, <1>4, <2>1 DEF OrderDatesOf
<1>5. ASSUME NEW w \in Workers, Commit(w), flushed[w] # NoMovement, req[w].item = i,
             stock_movements'[i] = Append(log, flushed[w]),
             moved_at'[i] = Append(moved_at[i], stamp[w])
      PROVE  OrderDatesOf(o)'
  <2> SUFFICES ASSUME NEW k \in MovesOf(o, "DEDUCTION")'
               PROVE  placed_at'[o] <= moved_at'[i][k]
    BY DEF OrderDatesOf
  <2>1. /\ Len(stock_movements'[i]) = Len(log) + 1
        /\ stock_movements'[i][Len(log) + 1] = flushed[w]
        /\ \A l \in 1..Len(log) : stock_movements'[i][l] = log[l]
    BY <1>1, <1>5
  <2>2. /\ moved_at'[i][Len(log) + 1] = stamp[w]
        /\ \A l \in 1..Len(log) : moved_at'[i][l] = moved_at[i][l]
    BY <1>1, <1>5 DEF DatesOf
  <2>3. /\ k \in 1..Len(stock_movements'[i])
        /\ stock_movements'[i][k].movement_type = "DEDUCTION"
        /\ stock_movements'[i][k].order = o
    BY DEF MovesOf, Lines
  <2>4. k \in 1..Len(log) \/ k = Len(log) + 1
    BY <1>1, <2>1, <2>3
  <2> HIDE DEF log, i
  <2>5. CASE k \in 1..Len(log)
    <3>1. k \in MovesOf(o, "DEDUCTION")
      BY <2>1, <2>3, <2>5 DEF MovesOf, Lines, log, i
    <3> QED
      BY <1>1, <1>2, <1>3, <2>2, <2>5, <3>1 DEF OrderDatesOf, i
  <2>6. CASE k = Len(log) + 1
    <3>1. flushed[w].movement_type = "DEDUCTION" /\ flushed[w].order = o
      BY <2>1, <2>3, <2>6
    <3>2. req[w].order = o
      <4>1. flushed[w] = MovementOf(w, flushed[w].stock_before)
        BY <1>1, <1>5 DEF FlushedOf
      <4>2. MovementOf(w, flushed[w].stock_before).order = req[w].order
        BY DEF MovementOf
      <4> QED
        BY <3>1, <4>1, <4>2
    <3>3. orders[o] # AbsentRow /\ placed_at[o] <= stamp[w]
      BY <1>1, <1>5, <3>1, <3>2 DEF StampOf
    <3> QED
      BY <1>2, <2>2, <2>6, <3>3
  <2> QED
    BY <2>4, <2>5, <2>6
<1> QED
  BY <1>1, <1>4, <1>5, ServeRows

\* What is flushed under a lock stays later than the trail, which nobody else extends.
LEMMA ServeStampOf ==
    ASSUME BaseInv, Serve, NEW v \in Workers
    PROVE  StampOf(v)'
<1> SUFFICES ASSUME flushed'[v] # NoMovement
             PROVE  /\ \A k \in 1..Len(moved_at'[req'[v].item]) :
                           moved_at'[req'[v].item][k] <= stamp'[v]
                    /\ flushed'[v].movement_type = "DEDUCTION" =>
                           /\ orders'[req'[v].order] # AbsentRow
                           /\ placed_at'[req'[v].order] <= stamp'[v]
  BY DEF StampOf
<1>0. /\ InventoryInv /\ InventoryInv' /\ VersionInv /\ PendingInv /\ TypeInv /\ TypeOK
      /\ TimesInv /\ [Next]_vars
      /\ ShapeOf(v) /\ ShapeOf(v)' /\ FlushedOf(v)' /\ \A w \in Workers : PendingOf(w)
  BY NextInventoryInv DEF BaseInv, BooksInv, InventoryInv, VersionInv, PendingInv, TypeInv,
     Shape, TasksInv, TaskOf, Serve
<1>1. /\ req'[v].item \in Items
      /\ flushed'[v].movement_type = "DEDUCTION" =>
             req'[v].op = "confirm" /\ req'[v].order \in Orders
  BY <1>0 DEF ShapeOf, FlushedOf, MovementOf, OrderOpsAndPlace, OrderOps
<1> DEFINE i == req'[v].item
           o == req'[v].order
<1>2. CASE flushed[v] # NoMovement /\ flushed'[v] = flushed[v] /\ req'[v] = req[v]
  <2>1. stamp'[v] = stamp[v] /\ StampOf(v)
    BY <1>0, <1>2, ServeStamps DEF TimesInv
  <2>2. moved_at'[i] = moved_at[i]
    <3>1. ASSUME NEW w \in Workers, Commit(w), flushed[w] # NoMovement, req[w].item = i
          PROVE  FALSE
      <4>1. w = v
        BY <1>0, <1>2, <3>1 DEF PendingOf
      <4>2. flushed'[w] = NoMovement
        BY <1>0, <3>1 DEF Commit, Release, TypeOK
      <4> QED
        BY <4>1, <4>2
    <3> QED
      BY <1>1, <3>1, ServeRows
  <2>3. flushed[v].movement_type = "DEDUCTION" =>
            orders[o] # AbsentRow /\ orders'[o] # AbsentRow /\ placed_at'[o] = placed_at[o]
    BY <1>0, <1>1, <1>2, <2>1, OrdersStay, ServeRows DEF StampOf
  <2> QED
    BY <1>2, <2>1, <2>2, <2>3 DEF StampOf
<1>3. CASE FlushMovement(v)
  <2>1. /\ stamp'[v] = now /\ req' = req /\ flushed'[v] = MovementOf(v, StockRead(v))
        /\ pc[v] = "lock" /\ db' = db
    BY <1>0, <1>3, ServeStamps, TakeItemPending
       DEF FlushMovement, LockItem, TypeOK, TakeItem
  <2>2. \A k \in 1..Len(moved_at'[i]) : moved_at'[i][k] <= now
    <3>1. now' = now /\ \A j \in Items : DatesOf(j)'
      BY ServeDates DEF Serve
    <3>2. \A j \in Items : \A k \in 1..Len(moved_at'[j]) : moved_at'[j][k] <= now
      BY <3>1 DEF DatesOf
    <3> QED
      BY <1>1, <3>2
  <2>3. ASSUME flushed'[v].movement_type = "DEDUCTION"
        PROVE  orders'[o] # AbsentRow /\ placed_at'[o] <= now
    <3>1. req[v].op = "confirm" /\ o = req[v].order /\ o \in Orders
      BY <1>1, <2>1, <2>3
    <3>2. /\ snap[v].status = "PENDING" /\ snap[v].version \in {1}
          /\ snap[v].version <= orders[o].version
      <4>1. DecisionOf(v) /\ SnapshotOf(v) /\ Aged(snap[v]) /\ snap[v] \in OrderRows
        BY <1>0 DEF VersionInv, VersionsOf, InventoryInv, AgesInv, TypeOK
      <4>2. snap[v].status = "PENDING"
        <5>1. CanTransition(snap[v].status, "CONFIRMED")
          BY <2>1, <3>1, <4>1 DEF DecisionOf, Goal, OrderOps
        <5> QED
          BY <4>1, <5>1 DEF CanTransition, ValidTransitions, OrderRows, OrderStatuses
      <4>3. snap[v].version <= orders[o].version
        BY <3>1, <4>1 DEF SnapshotOf, OrderOps, Row
      <4> QED
        BY <4>1, <4>2, <4>3 DEF Aged, Age
    <3>3. orders[o] # AbsentRow
      BY <3>2 DEF AbsentRow
    <3> QED
      BY <1>0, <2>1, <3>1, <3>3, ServeRows DEF db
  <2> QED
    BY <2>1, <2>2, <2>3
<1> QED
  BY <1>0, <1>2, <1>3, FlushedSince

\* The first times.
LEMMA InitTimesInv == Init /\ TimesInit => TimesInv
<1> SUFFICES ASSUME Init, TimesInit PROVE TimesInv
  OBVIOUS
<1>1. /\ now = 0 /\ \A w \in Workers : stamp[w] = 0 /\ flushed[w] = NoMovement
      /\ \A o \in Orders : placed_at[o] = 0
      /\ \A i \in Items : /\ moved_at[i] = <<0>> /\ moved_at[i] \in Seq(Nat)
                           /\ Len(moved_at[i]) = 1 /\ moved_at[i][1] = 0
                           /\ Len(stock_movements[i]) = 1
  BY DEF Init, TimesInit
<1>2. /\ now \in Nat /\ stamp \in [Workers -> Nat] /\ placed_at \in [Orders -> Nat]
      /\ moved_at \in [Items -> Seq(Nat)]
  BY DEF TimesInit
<1>3. ASSUME NEW o \in Orders PROVE OrderDatesOf(o)
  <2>1. MovesOf(o, "DEDUCTION") \subseteq 1..Len(stock_movements[item_id[o]])
        /\ item_id[o] \in Items
    BY ConstantsAssumption DEF MovesOf, Lines
  <2>2. Len(stock_movements[item_id[o]]) = 1
    BY <1>1, <2>1
  <2>3. MovesOf(o, "DEDUCTION") \subseteq {1}
    BY <2>1, <2>2
  <2> QED
    BY <1>1, <2>1, <2>3 DEF OrderDatesOf
<1>4. ASSUME NEW i \in Items PROVE DatesOf(i)
  <2>1. Len(moved_at[i]) = 1
    BY <1>1
  <2>2. \A k \in 1..Len(moved_at[i]) : k = 1
    BY <2>1
  <2> QED
    BY <1>1, <2>2 DEF DatesOf
<1> QED
  BY <1>1, <1>2, <1>3, <1>4 DEF TimesInv, StampOf

\* Every step of the service and of its clock keeps the order of the times.
LEMMA ProceedTimes == ASSUME BaseInv, Proceed PROVE TimesInv'
<1>1. CASE Serve
  <2>1. TypeInv /\ PendingInv /\ TimesInv
    BY DEF BaseInv, LedgerInv, PendingInv
  <2>2. /\ \A v \in Workers : stamp'[v] <= now
        /\ stamp' \in [Workers -> Nat] /\ now' = now /\ now \in Nat
    BY <1>1, <2>1, ServeStamps DEF TimesInv
  <2>3. /\ placed_at' \in [Orders -> Nat] /\ moved_at' \in [Items -> Seq(Nat)]
        /\ \A o \in Orders : placed_at'[o] <= now
    BY <1>1, ServeRows
  <2>4. /\ \A v \in Workers : StampOf(v)'
        /\ \A o \in Orders : OrderDatesOf(o)'
        /\ \A i \in Items : DatesOf(i)'
    BY <1>1, ServeStampOf, ServeOrderDates, ServeDates
  <2> QED
    BY <2>2, <2>3, <2>4 DEF TimesInv
<1>2. CASE Tick
  <2>1. /\ now' = now + 1 /\ stamp' = stamp /\ placed_at' = placed_at /\ moved_at' = moved_at
        /\ stock_movements' = stock_movements /\ flushed' = flushed /\ req' = req
        /\ orders' = orders
    BY <1>2 DEF Tick, vars
  <2>2. TimesInv
    BY DEF BaseInv
  <2>3. /\ now \in Nat /\ now' \in Nat
        /\ \A n \in Nat : n <= now => n <= now'
    BY <2>1, <2>2 DEF TimesInv
  <2>4. \A v \in Workers : StampOf(v)' /\ stamp'[v] <= now'
    BY <2>1, <2>2, <2>3 DEF TimesInv, StampOf
  <2>5. \A o \in Orders : OrderDatesOf(o)' /\ placed_at'[o] <= now'
    BY <2>1, <2>2, <2>3 DEF TimesInv, OrderDatesOf, MovesOf, Lines
  <2>6. \A i \in Items : DatesOf(i)'
    BY <2>1, <2>2, <2>3 DEF TimesInv, DatesOf
  <2> QED
    BY <2>1, <2>2, <2>3, <2>4, <2>5, <2>6 DEF TimesInv
<1> QED
  BY <1>1, <1>2 DEF Proceed

\* A report changes nothing of the service.
LEMMA ReportsOnly == ASSUME Report PROVE UNCHANGED <<vars, timevars>>
BY DEF Report, ReadOrderRow, ReadMovements, ReadStock, ReadOrderClock, ReadCounts, ReadRevenue,
   ReadRefund, ReadMovementClock, ReadNet, ListOrders, ListMovements, Close, Statement

\* Writers keep their invariants beside a reader, who reads or waits.
LEMMA NextBaseInv ==
    ASSUME BaseInv, [Proceed \/ Report]_reportvars
    PROVE  /\ BaseInv' /\ [Next]_vars
           /\ \/ Report /\ UNCHANGED <<vars, timevars>>
              \/ Serve /\ UNCHANGED <<at, page>>
              \/ UNCHANGED <<vars, stamp, placed_at, moved_at, at, page>>
<1>1. /\ [Next]_vars
      /\ \/ Report /\ UNCHANGED <<vars, timevars>>
         \/ Serve /\ UNCHANGED <<at, page>>
         \/ UNCHANGED <<vars, stamp, placed_at, moved_at, at, page>>
  BY ReportsOnly DEF Proceed, Serve, Tick, reportvars, timevars
<1>2. BooksInv' /\ LedgerInv'
  BY <1>1, NextBooksInv, NextLedgerInv DEF BaseInv
<1>3. ASSUME Proceed PROVE BaseInv'
  <2>1. TimesInv'
    BY <1>3, ProceedTimes
  <2> QED
    BY <1>2, <2>1 DEF BaseInv
<1>4. ASSUME UNCHANGED <<vars, timevars>> PROVE BaseInv'
  <2>1. TimesInv'
    BY <1>4 DEF BaseInv, TimesInv, StampOf, OrderDatesOf, DatesOf, MovesOf, Lines,
                vars, timevars
  <2> QED
    BY <1>2, <2>1 DEF BaseInv
<1> QED
  BY <1>1, <1>3, <1>4, ReportsOnly DEF reportvars

\* The writers' invariants initially.
LEMMA InitBaseInv == ReportsInit => BaseInv
BY InitBooksInv, InitLedgerInv, InitTimesInv DEF ReportsInit, BaseInv
-----------------------------------------------------------------------------
(* GET /orders?status=                                                     *)

\* The writers' invariants, and what the reader has listed.
ListsInv == BaseInv /\ TerminalListStands

\* Writers keep their invariants beside a reader, and both keep the list: the rows that
\* it shows as terminal are left alone.
LEMMA NextListsInv == ListsInv /\ [Proceed \/ Report]_reportvars => ListsInv'
<1> SUFFICES ASSUME ListsInv, [Proceed \/ Report]_reportvars PROVE ListsInv'
  OBVIOUS
<1>1. /\ BaseInv' /\ [Next]_vars /\ VersionInv
      /\ (Report /\ UNCHANGED <<vars, timevars>>) \/ UNCHANGED <<at, page>>
  BY NextBaseInv DEF ListsInv, BaseInv, BooksInv, InventoryInv
<1>2. CASE Report /\ UNCHANGED <<vars, timevars>>
  <2>1. \A status : With(status)' = With(status)
    BY <1>2 DEF vars, With
  <2>2. ASSUME NEW status \in OrderStatuses, ListOrders(status) PROVE TerminalListStands'
    BY <2>1, <2>2 DEF ListOrders, TerminalListStands
  <2>3. at' = "orders listed" => \E status \in OrderStatuses : ListOrders(status)
    BY <1>2 DEF Report, ReadOrderRow, ReadMovements, ReadStock, ReadOrderClock, ReadCounts,
       ReadRevenue, ReadRefund, ReadMovementClock, ReadNet, ListMovements, Close, Statement
  <2>4. TerminalListStands'
    BY <2>2, <2>3 DEF TerminalListStands
  <2> QED
    BY <1>1, <2>4 DEF ListsInv
<1>3. CASE UNCHANGED <<at, page>>
  <2>1. ASSUME at = "orders listed", page.status \in TerminalStates, NEW o \in With(page.status)
        PROVE  o \in With(page.status)'
    <3>1. o \in Orders /\ orders[o].status = page.status
      BY DEF With
    <3>2. orders'[o] = orders[o]
      BY <1>1, <2>1, <3>1, TerminalRowStands
    <3> QED
      BY <1>3, <3>1, <3>2 DEF With
  <2>2. TerminalListStands'
    BY <1>3, <2>1 DEF ListsInv, TerminalListStands
  <2> QED
    BY <1>1, <2>2 DEF ListsInv
<1> QED
  BY <1>1, <1>2, <1>3

\* GET /orders?status=DELIVERED or CANCELLED, or REJECTED: no order ever leaves the list.
THEOREM TerminalListsStand == ReportsSpec => []TerminalListStands
<1>1. ReportsInit => ListsInv
  BY InitBaseInv DEF ReportsInit, ListsInv, TerminalListStands
<1>2. ReportsSpec => []ListsInv
  BY <1>1, NextListsInv, PTL DEF ReportsSpec
<1> QED
  BY <1>2, PTL DEF ListsInv

-----------------------------------------------------------------------------
(* GET /stock/{item_id}/movements                                          *)

\* limit, or the whole trail if that is shorter.
LEMMA MinOfTwo ==
    ASSUME NEW a \in Nat, NEW b \in Nat
    PROVE  Min({a, b}) \in Nat /\ Min({a, b}) \in {a, b} /\ Min({a, b}) <= a /\ Min({a, b}) <= b
<1>1. \E x \in {a, b} : \A y \in {a, b} : x =< y
  OBVIOUS
<1>2. Min({a, b}) \in {a, b} /\ \A y \in {a, b} : Min({a, b}) =< y
  BY <1>1 DEF Min
<1> QED
  BY <1>2

\* How many lines of a trail of n come after its m-th.
LEMMA IntervalCount ==
    ASSUME NEW m \in Nat, NEW n \in Nat, m <= n
    PROVE  IsFiniteSet(m + 1..n) /\ Cardinality(m + 1..n) = n - m
<1>1. \A a, b \in Int : IsFiniteSet(a..b) /\ Cardinality(a..b) = IF a > b THEN 0 ELSE b - a + 1
  BY FS_Interval
<1>2. m + 1 \in Int /\ n \in Int
  OBVIOUS
<1>3. IsFiniteSet(m + 1..n) /\ Cardinality(m + 1..n) = IF m + 1 > n THEN 0 ELSE n - (m + 1) + 1
  BY <1>1, <1>2
<1> QED
  BY <1>3

\* Sorted by created_at, the n-th line of a page is the n-th movement from the end of
\* the trail.
LEMMA LinesOfPage ==
    ASSUME NEW i \in Items, DatesOf(i), stock_movements[i] \in Seq(Movements), NEW limit \in Nat
    PROVE  LET log == stock_movements[i]
               lines == Newest(i, limit)
           IN  /\ Len(lines) \in {limit, Len(log)} /\ Len(lines) <= Len(log) /\ Len(lines) \in Nat
               /\ \A n \in 1..Len(lines) : lines[n] = log[Len(log) - n + 1]
<1> DEFINE log == stock_movements[i]
           Above(k) == {l \in 1..Len(log) : Newer(i, l, k)}
           Line(n) == CHOOSE k \in 1..Len(log) :
                          Cardinality(Above(k)) = n - 1
           size == Min({limit, Len(log)})
<1>1. Len(log) \in Nat
  OBVIOUS
<1>2. /\ size \in Nat /\ size \in {limit, Len(log)} /\ size <= Len(log)
  BY <1>1, MinOfTwo
<1>3. ASSUME NEW k \in 1..Len(log)
      PROVE  Cardinality(Above(k)) = Len(log) - k
  <2>1. /\ \A l \in 1..Len(log) : moved_at[i][l] \in Nat
        /\ \A l, m \in 1..Len(log) : l <= m => moved_at[i][l] <= moved_at[i][m]
    BY DEF DatesOf
  <2>2. \A l \in 1..Len(log) : Newer(i, l, k) <=> l > k
    BY <1>1, <2>1 DEF Newer
  <2>3. Above(k) = k + 1..Len(log)
    BY <1>1, <2>2
  <2>4. k \in Nat /\ k <= Len(log)
    BY <1>1
  <2> HIDE DEF Above, log
  <2> QED
    BY <1>1, <2>3, <2>4, IntervalCount
<1>4. ASSUME NEW n \in 1..Len(log) PROVE Line(n) = Len(log) - n + 1
  <2>1. Len(log) - n + 1 \in 1..Len(log)
    BY <1>1
  <2>2. ASSUME NEW k \in 1..Len(log)
        PROVE  Cardinality(Above(k)) = n - 1 <=> k = Len(log) - n + 1
    <3>1. Cardinality(Above(k)) = Len(log) - k
      BY <1>3
    <3>2. Len(log) - k = n - 1 <=> k = Len(log) - n + 1
      BY <1>1
    <3> HIDE DEF Above, log
    <3> QED
      BY <3>1, <3>2
  <2> QED
    BY <2>1, <2>2
<1>5. Newest(i, limit) = [n \in 1..size |-> log[Line(n)]]
  BY DEF Newest
<1> HIDE DEF size, Line
<1>6. Len(Newest(i, limit)) = size
  BY <1>2, <1>5
<1>7. \A n \in 1..size : n \in 1..Len(log)
  BY <1>1, <1>2
<1> QED
  BY <1>2, <1>4, <1>5, <1>6, <1>7

\* A page cut from a ledger starts with the stock of the item, has no gap, and reaches
\* the opening if it is not full.
LEMMA PageOfLedger ==
    ASSUME NEW i \in Items, LedgerOf(i), DatesOf(i), stock_movements[i] \in Seq(Movements)
    PROVE  LET lines == Newest(i, PageLimit) IN
           /\ lines[1].stock_after = menu_items[i].stock_quantity
           /\ \A k \in 1..Len(lines) - 1 : lines[k].stock_before = lines[k + 1].stock_after
           /\ Len(lines) < PageLimit => lines[Len(lines)].stock_before = 0
<1> DEFINE log == stock_movements[i]
           lines == Newest(i, PageLimit)
<1>1. /\ Len(lines) \in Nat /\ Len(log) \in Nat
      /\ Len(lines) \in {PageLimit, Len(log)} /\ Len(lines) <= Len(log)
      /\ \A k \in 1..Len(lines) : lines[k] = log[Len(log) - k + 1]
  BY LinesOfPage, PageAssumption
<1>2. /\ Len(log) > 0 /\ log[1].stock_before = 0
      /\ \A k \in 1..Len(log) - 1 : log[k + 1].stock_before = log[k].stock_after
      /\ menu_items[i].stock_quantity = log[Len(log)].stock_after
  BY DEF LedgerOf
<1> HIDE DEF log, lines
<1>3. lines[1].stock_after = menu_items[i].stock_quantity
  <2>1. 1 \in 1..Len(lines) /\ Len(log) - 1 + 1 = Len(log)
    BY <1>1, <1>2, PageAssumption
  <2> QED
    BY <1>1, <1>2, <2>1
<1>4. ASSUME NEW k \in 1..Len(lines) - 1
      PROVE  lines[k].stock_before = lines[k + 1].stock_after
  <2>1. lines[k] = log[Len(log) - k + 1] /\ lines[k + 1] = log[Len(log) - k]
    <3>1. k \in 1..Len(lines) /\ k + 1 \in 1..Len(lines)
      BY <1>1
    <3>2. Len(log) - (k + 1) + 1 = Len(log) - k
      BY <1>1
    <3> QED
      BY <1>1, <3>1, <3>2
  <2>2. Len(log) - k \in 1..Len(log) - 1
    BY <1>1
  <2> QED
    BY <1>1, <1>2, <2>1, <2>2
<1>5. ASSUME Len(lines) < PageLimit PROVE lines[Len(lines)].stock_before = 0
  BY <1>1, <1>2, <1>5, PageAssumption
<1> QED
  BY <1>3, <1>4, <1>5 DEF log, lines

\* In every state of readers and writers.
LEMMA BaseInvariant == ReportsSpec => []BaseInv
<1>1. BaseInv /\ [Proceed \/ Report]_reportvars => BaseInv'
  BY NextBaseInv
<1> QED
  BY <1>1, InitBaseInv, PTL DEF ReportsSpec

\* GET /stock/{item_id}/movements: no page, of any length, has a gap, although it is
\* sorted by times that were taken before the commits.
THEOREM PagesAreGapless == ReportsSpec => PageIsGapless
<1>1. ASSUME BaseInv, NEW i \in Items, ListMovements(i)
      PROVE  LET lines == page'.lines IN
             /\ lines[1].stock_after = menu_items[i].stock_quantity
             /\ \A k \in 1..Len(lines) - 1 : lines[k].stock_before = lines[k + 1].stock_after
             /\ Len(lines) < PageLimit => lines[Len(lines)].stock_before = 0
  <2>1. LedgerOf(i) /\ DatesOf(i) /\ stock_movements[i] \in Seq(Movements)
    BY <1>1 DEF BaseInv, LedgerInv, PendingInv, TypeInv, TypeOK, Ledger, TimesInv
  <2>2. page'.lines = Newest(i, PageLimit)
    BY <1>1 DEF ListMovements
  <2> QED
    BY <2>1, <2>2, PageOfLedger
<1>2. BaseInv /\ [Proceed \/ Report]_reportvars =>
          [\A i \in Items : ListMovements(i) =>
               LET lines == page'.lines IN
               /\ lines[1].stock_after = menu_items[i].stock_quantity
               /\ \A k \in 1..Len(lines) - 1 : lines[k].stock_before = lines[k + 1].stock_after
               /\ Len(lines) < PageLimit => lines[Len(lines)].stock_before = 0]_reportvars
  BY <1>1
<1> QED
  BY <1>2, BaseInvariant, PTL DEF ReportsSpec, PageIsGapless

-----------------------------------------------------------------------------
(* GET /orders/{id}                                                        *)

\* Between its statements the detail has a row that was in the table, with the
\* deduction that its status asks for.
DetailRow ==
    at = "detail movements" =>
        \E o \in Orders, row \in OrderRows :
            /\ page = [order |-> o, row |-> row, deductions |-> 0, restorations |-> 0]
            /\ row.version <= orders[o].version
            /\ row.version = orders[o].version => row = orders[o]
            /\ row.status \in StockHoldingStates => Moves(o, "DEDUCTION") > 0

DetailInv == BaseInv /\ DetailRow /\ DetailShowsDeduction

\* A report and the answer it is about to give.
LEMMA ReportKeepsDetail ==
    ASSUME DetailInv, Report
    PROVE  vars' = vars /\ DetailRow' /\ DetailShowsDeduction'
<1>0. vars' = vars
  BY ReportsOnly
<1>1. CASE \E o \in Orders : ReadOrderRow(o)
  <2> PICK o \in Orders : ReadOrderRow(o)
    BY <1>1
  <2>1. /\ at' = "detail movements" /\ orders' = orders
        /\ page' = [order |-> o, row |-> orders[o], deductions |-> 0, restorations |-> 0]
    BY DEF ReadOrderRow, Statement, vars
  <2>2. orders[o] \in OrderRows /\ orders[o].version \in Nat /\ BooksOf(o)
    BY DEF DetailInv, BaseInv, BooksInv, InventoryInv, VersionInv, TypeInv, TypeOK, OrderRows
  <2>3. Moves(o, "DEDUCTION")' = Moves(o, "DEDUCTION")
    BY MovesStand DEF ReadOrderRow, Statement, vars
  <2>4. orders[o].status \in StockHoldingStates => Moves(o, "DEDUCTION")' > 0
    BY <2>2, <2>3 DEF BooksOf, Holding
  <2>5. orders[o] = orders'[o] /\ orders[o].version <= orders'[o].version
    <3>1. \A n \in Nat : n <= n
      OBVIOUS
    <3> QED
      BY <2>1, <2>2, <3>1, Zenon
  <2>6. DetailRow'
    BY <2>1, <2>2, <2>4, <2>5, Zenon DEF DetailRow
  <2> QED
    BY <1>0, <2>1, <2>6 DEF DetailShowsDeduction
<1>2. CASE ReadMovements
  <2>1. PICK o \in Orders, row \in OrderRows :
            /\ page = [order |-> o, row |-> row, deductions |-> 0, restorations |-> 0]
            /\ row.status \in StockHoldingStates => Moves(o, "DEDUCTION") > 0
    BY <1>2 DEF ReadMovements, Statement, DetailInv, DetailRow
  <2>2. page'.row = row /\ page'.deductions = Moves(o, "DEDUCTION") /\ at' = "detail shown"
    BY <1>2, <2>1 DEF ReadMovements, Statement
  <2>3. DetailRow'
    BY <2>2 DEF DetailRow
  <2>4. row.status \in StockHoldingStates => page'.deductions > 0
    BY <2>1, <2>2
  <2> QED
    BY <1>0, <2>2, <2>3, <2>4, Zenon DEF DetailShowsDeduction
<1> QED
  BY <1>0, <1>1, <1>2 DEF Report, ReadStock, ReadOrderClock, ReadCounts, ReadRevenue,
     ReadRefund, ReadMovementClock, ReadNet, ListOrders, ListMovements, Close, Statement,
     DetailRow, DetailShowsDeduction

\* While it waits, its row may only fall behind, and its deduction stays in the trail.
LEMMA WriterKeepsDetail ==
    ASSUME DetailInv, [Next]_vars, UNCHANGED <<at, page>>
    PROVE  DetailRow' /\ DetailShowsDeduction'
<1>1. ASSUME at = "detail movements" PROVE DetailRow'
  <2>1. PICK o \in Orders, row \in OrderRows :
            /\ page = [order |-> o, row |-> row, deductions |-> 0, restorations |-> 0]
            /\ row.version <= orders[o].version
            /\ row.version = orders[o].version => row = orders[o]
            /\ row.status \in StockHoldingStates => Moves(o, "DEDUCTION") > 0
    BY <1>1 DEF DetailInv, DetailRow
  <2>2. /\ orders[o].version \in Nat /\ orders'[o].version \in Nat /\ row.version \in Nat
        /\ orders'[o] = orders[o] \/ orders'[o].version > orders[o].version
    BY RowsAge DEF DetailInv, BaseInv, BooksInv, InventoryInv, OrderRows
  <2>3. row.status \in StockHoldingStates => Moves(o, "DEDUCTION")' > 0
    BY <2>1, MovesOnlyGrow DEF DetailInv, BaseInv, BooksInv
  <2>4. /\ row.version <= orders'[o].version
        /\ row.version = orders'[o].version => row = orders'[o]
    BY <2>1, <2>2
  <2> QED
    BY <2>1, <2>3, <2>4 DEF DetailRow
<1> QED
  BY <1>1 DEF DetailInv, DetailRow, DetailShowsDeduction

\* Writers and readers keep what a detail shows.
LEMMA NextDetailInv ==
    DetailInv /\ [Proceed \/ Report]_reportvars => DetailInv'
<1> SUFFICES ASSUME DetailInv, [Proceed \/ Report]_reportvars
             PROVE  DetailInv'
  OBVIOUS
<1>1. BaseInv' /\ [Next]_vars /\ (Report \/ UNCHANGED <<at, page>>)
  BY NextBaseInv DEF DetailInv
<1>2. DetailRow' /\ DetailShowsDeduction'
  BY <1>1, ReportKeepsDetail, WriterKeepsDetail
<1> QED
  BY <1>1, <1>2 DEF DetailInv

\* Nothing is shown initially.
LEMMA InitDetailInv == ReportsInit => DetailInv
BY InitBaseInv DEF ReportsInit, DetailInv, DetailRow, DetailShowsDeduction

\* GET /orders/{id}: an order shown as holding stock is shown with its deduction,
\* conflicts and crashes or not.
THEOREM DetailsShowDeductions == ReportsSpec => []DetailShowsDeduction
<1>1. ReportsSpec => []DetailInv
  BY InitDetailInv, NextDetailInv, PTL DEF ReportsSpec
<1> QED
  BY <1>1, PTL DEF DetailInv

\* GET /orders/{id}: a PENDING order is shown with movements only if its row was
\* overtaken after it was read.
THEOREM TornDetailsAreRaces == ReportsSpec => TornOnlyByRace
<1>1. ReportsSpec => []DetailInv
  BY InitDetailInv, NextDetailInv, PTL DEF ReportsSpec
<1>2. ASSUME DetailInv, ReadMovements, page.row.status = "PENDING",
             page'.deductions + page'.restorations > 0
      PROVE  orders[page.order].version > page.row.version
  <2>1. PICK o \in Orders, row \in OrderRows :
            /\ page = [order |-> o, row |-> row, deductions |-> 0, restorations |-> 0]
            /\ row.version <= orders[o].version
            /\ row.version = orders[o].version => row = orders[o]
    BY <1>2 DEF ReadMovements, Statement, DetailInv, DetailRow
  <2>2. orders[o].version \in Nat /\ row.version \in Nat /\ BooksOf(o)
    BY <1>2 DEF DetailInv, BaseInv, BooksInv, InventoryInv, VersionInv, TypeInv, TypeOK, OrderRows
  <2>3. /\ page'.deductions = Moves(o, "DEDUCTION")
        /\ page'.restorations = Moves(o, "RESTORATION")
    BY <1>2, <2>1 DEF ReadMovements
  <2>4. orders[o].status # "PENDING"
    BY <1>2, <2>2, <2>3 DEF BooksOf
  <2> QED
    BY <1>2, <2>1, <2>2, <2>4
<1>3. DetailInv /\ [Proceed \/ Report]_reportvars =>
          [ReadMovements /\ page.row.status = "PENDING"
               /\ page'.deductions + page'.restorations > 0
               => orders[page.order].version > page.row.version]_reportvars
  BY <1>2
<1> QED
  BY <1>1, <1>3, PTL DEF ReportsSpec, TornOnlyByRace

-----------------------------------------------------------------------------
(* GET /analytics/summary: what one statement returns.                     *)

\* total_units are integers, whatever they come to.
LEMMA UnitsType == ASSUME TypeOK PROVE TotalUnits \in Int
<1> PICK f : f = [i \in Items |-> menu_items[i].stock_quantity]
  OBVIOUS
<1>1. \A i \in Items : f[i] \in Int
  BY ConstantsAssumption DEF TypeOK, Stock
<1>2. SumFunctionOnSet(f, Items) \in Int
  BY <1>1, SumInt, KeysAssumption
<1> QED
  BY <1>2, Zenon DEF TotalUnits, SumFunction

\* The stock of item i after n lines of its trail.
StockAfter(i, n) == IF n = 0 THEN 0 ELSE stock_movements[i][n].stock_after

\* What the lines of a ledger after the m-th add up to is what the stock has changed by.
LEMMA LedgerTelescopes ==
    ASSUME NEW i \in Items, LedgerOf(i), stock_movements[i] \in Seq(Movements),
           NEW m \in 0..Len(stock_movements[i])
    PROVE  /\ SumFunctionOnSet(DeltasOf(i), m + 1..Len(stock_movements[i]))
                  = menu_items[i].stock_quantity - StockAfter(i, m)
           /\ StockAfter(i, m) \in Int
<1> DEFINE log == stock_movements[i]
           f == DeltasOf(i)
           before(n) == StockAfter(i, n)
           T == {s \in SUBSET (1..Len(log)) : \E n \in m..Len(log) :
                     s = m + 1..n /\ SumFunctionOnSet(f, s) # before(n) - before(m)}
<1>1. /\ Len(log) \in Nat /\ Len(log) > 0 /\ log[1].stock_before = 0
      /\ \A k \in 1..Len(log) : log[k].stock_after = log[k].stock_before + log[k].quantity_delta
      /\ \A k \in 1..Len(log) - 1 : log[k + 1].stock_before = log[k].stock_after
      /\ menu_items[i].stock_quantity = log[Len(log)].stock_after
  BY DEF LedgerOf
<1>2. \A k \in 1..Len(log) : /\ log[k].quantity_delta \in Int
                              /\ log[k].stock_before \in Int /\ log[k].stock_after \in Int
  <2> SUFFICES ASSUME NEW k \in 1..Len(log)
               PROVE  /\ log[k].quantity_delta \in Int
                      /\ log[k].stock_before \in Int /\ log[k].stock_after \in Int
    OBVIOUS
  <2>1. log[k] \in Movements
    OBVIOUS
  <2>2. Stock \subseteq Int
    BY ConstantsAssumption DEF Stock
  <2> QED
    BY <2>1, <2>2 DEF Movements
<1>3. DOMAIN f = 1..Len(log) /\ \A k \in 1..Len(log) : f[k] = log[k].quantity_delta
  BY DEF DeltasOf
<1>4. \A n \in 0..Len(log) : before(n) \in Int
  BY <1>1, <1>2 DEF StockAfter
<1>5. T = {}
  <2> SUFFICES ASSUME T # {} PROVE FALSE
    OBVIOUS
  <2>1. PICK s \in T : \A r \in SUBSET s : r # s => r \notin T
    <3>1. T \in SUBSET SUBSET (1..Len(log))
      OBVIOUS
    <3>2. IsFiniteSet(1..Len(log))
      <4>1. 1 \in Int /\ Len(log) \in Int
        BY <1>1
      <4> QED
        BY <4>1, FS_Interval, Zenon
    <3>3. \A S, U : IsFiniteSet(S) /\ U \in SUBSET SUBSET S /\ U # {} =>
                        \E s \in U : \A r \in SUBSET s : r # s => r \notin U
      BY SmallestSubset
    <3> HIDE DEF T
    <3> QED
      BY <3>1, <3>2, <3>3, Zenon
  <2>2. PICK n \in m..Len(log) : s = m + 1..n /\ SumFunctionOnSet(f, s) # before(n) - before(m)
    OBVIOUS
  <2>3. n # m
    <3>1. SumFunctionOnSet(f, {}) = 0
      BY SumEmpty
    <3>2. n = m => s = {}
      BY <2>2
    <3>3. before(m) - before(m) = 0
      BY <1>4
    <3> HIDE DEF f, before
    <3> QED
      BY <2>2, <3>1, <3>2, <3>3
  <2> DEFINE r == m + 1..n - 1
  <2>4. /\ n - 1 \in m..Len(log) /\ n \in 1..Len(log) /\ r \in SUBSET s /\ r # s
        /\ s = r \cup {n} /\ n \notin r /\ r \in SUBSET (1..Len(log))
        /\ n - 1 \in 0..Len(log)
    BY <1>1, <2>2, <2>3
  <2>5. SumFunctionOnSet(f, r) = before(n - 1) - before(m)
    <3>1. r \notin T
      BY <2>1, <2>4
    <3> QED
      BY <2>4, <3>1
  <2>6. IsFiniteSet(r) /\ \A k \in r \cup {n} : f[k] \in Int
    <3>1. m + 1 \in Int /\ n - 1 \in Int
      BY <2>4
    <3>2. IsFiniteSet(m + 1..n - 1)
      BY <3>1, FS_Interval, Zenon
    <3> QED
      BY <1>2, <1>3, <2>4, <3>2
  <2>7. SumFunctionOnSet(f, r \cup {n}) = SumFunctionOnSet(f, r) + f[n]
    <3> HIDE DEF f, r
    <3> QED
      BY <2>4, <2>6, SumAdd
  <2>8. before(n - 1) = log[n].stock_before
    <3>1. CASE n = 1
      BY <1>1, <3>1 DEF StockAfter
    <3>2. CASE n # 1
      <4>1. n - 1 \in 1..Len(log) - 1 /\ (n - 1) + 1 = n
        BY <2>4, <3>2
      <4>2. log[(n - 1) + 1].stock_before = log[n - 1].stock_after
        BY <1>1, <4>1
      <4> QED
        BY <4>1, <4>2 DEF StockAfter
    <3> QED
      BY <3>1, <3>2
  <2>9. before(n) = log[n].stock_before + f[n]
    BY <1>1, <1>3, <2>4 DEF StockAfter
  <2>10. SumFunctionOnSet(f, s) = before(n - 1) - before(m) + f[n]
    <3> HIDE DEF before, f, r
    <3> QED
      BY <2>4, <2>5, <2>7
  <2>11. before(n - 1) - before(m) + f[n] = before(n) - before(m)
    <3>1. before(n - 1) \in Int /\ before(m) \in Int /\ f[n] \in Int
      BY <1>2, <1>3, <1>4, <2>4
    <3>2. before(n) = before(n - 1) + f[n]
      BY <2>8, <2>9
    <3> HIDE DEF before, f
    <3> QED
      BY <3>1, <3>2
  <2> HIDE DEF before, f, r
  <2> QED
    BY <2>2, <2>10, <2>11, Zenon
<1>6. SumFunctionOnSet(f, m + 1..Len(log)) = before(Len(log)) - before(m)
  <2>1. /\ m + 1..Len(log) \notin T /\ Len(log) \in m..Len(log)
        /\ m + 1..Len(log) \in SUBSET (1..Len(log))
    BY <1>1, <1>5
  <2> HIDE DEF before, f
  <2> QED
    BY <2>1
<1>7. before(Len(log)) = menu_items[i].stock_quantity
  BY <1>1 DEF StockAfter
<1>8. before(m) \in Int
  BY <1>4
<1> QED
  BY <1>6, <1>7, <1>8

\* The lines of a trail within a window are its last ones, since times are in order.
LEMMA EdgeOfWindow ==
    ASSUME NEW i \in Items, DatesOf(i), stock_movements[i] \in Seq(Movements), page.since \in Int
    PROVE  \E m \in 0..Len(stock_movements[i]) :
               /\ RecentLines(i) = m + 1..Len(stock_movements[i])
               /\ StockAtEdge(i) = StockAfter(i, m)
<1> DEFINE log == stock_movements[i]
           older == (1..Len(log)) \ RecentLines(i)
           T == {s \in SUBSET (1..Len(log)) :
                     older \subseteq s /\ \E m \in 0..Len(log) : s = 1..m}
<1>1. /\ Len(log) \in Nat
      /\ \A k \in 1..Len(log) : moved_at[i][k] \in Nat
      /\ \A k, l \in 1..Len(log) : k <= l => moved_at[i][k] <= moved_at[i][l]
  BY DEF DatesOf
<1>2. \A k \in 1..Len(log) : k \in older <=> moved_at[i][k] < page.since
  BY <1>1 DEF RecentLines
<1>3. \A l \in older : \A k \in 1..Len(log) : k <= l => k \in older
  <2> SUFFICES ASSUME NEW l \in older, NEW k \in 1..Len(log), k <= l PROVE k \in older
    OBVIOUS
  <2>1. l \in 1..Len(log) /\ moved_at[i][l] < page.since
    BY <1>2
  <2>2. moved_at[i][k] <= moved_at[i][l] /\ moved_at[i][k] \in Nat /\ moved_at[i][l] \in Nat
    BY <1>1, <2>1
  <2>3. moved_at[i][k] < page.since
    BY <2>1, <2>2
  <2> QED
    BY <1>2, <2>3
<1>4. PICK s \in T : \A r \in SUBSET s : r # s => r \notin T
  <2>1. T \in SUBSET SUBSET (1..Len(log))
    OBVIOUS
  <2>2. IsFiniteSet(1..Len(log))
    <3>1. \A n \in Nat : 1 \in Int /\ n \in Int
      OBVIOUS
    <3>2. \A n \in Nat : IsFiniteSet(1..n)
      BY <3>1, FS_Interval, Zenon
    <3> QED
      BY <1>1, <3>2, Zenon
  <2>3. T # {}
    <3>1. 1..Len(log) \in T
      BY <1>1
    <3> QED
      BY <3>1
  <2>4. \A S, U : IsFiniteSet(S) /\ U \in SUBSET SUBSET S /\ U # {} =>
                      \E s \in U : \A r \in SUBSET s : r # s => r \notin U
    BY SmallestSubset
  <2> HIDE DEF T
  <2> QED
    BY <2>1, <2>2, <2>3, <2>4, Zenon
<1>5. PICK m \in 0..Len(log) : s = 1..m /\ older \subseteq 1..m
  BY <1>4
<1>6. m # 0 => m \in older
  <2> SUFFICES ASSUME m # 0, m \notin older PROVE FALSE
    OBVIOUS
  <2>1. /\ m - 1 \in 0..Len(log) /\ 1..m - 1 \in SUBSET s /\ 1..m - 1 # s
        /\ older \subseteq 1..m - 1 /\ 1..m - 1 \in SUBSET (1..Len(log))
    BY <1>1, <1>5
  <2>2. 1..m - 1 \in T
    BY <2>1
  <2> QED
    BY <1>4, <2>1, <2>2
<1>7. older = 1..m
  <2>1. ASSUME NEW k \in 1..m PROVE k \in older
    <3>1. m \in older /\ k \in 1..Len(log) /\ k <= m
      BY <1>5, <1>6
    <3> QED
      BY <1>3, <3>1
  <2> QED
    BY <1>5, <2>1
<1>8. RecentLines(i) = m + 1..Len(log)
  <2>1. RecentLines(i) \subseteq 1..Len(log)
    BY DEF RecentLines
  <2>2. RecentLines(i) = (1..Len(log)) \ (1..m)
    BY <1>7, <2>1
  <2> HIDE DEF log, older
  <2> QED
    BY <1>1, <1>5, <2>2
<1>9. StockAtEdge(i) = StockAfter(i, m)
  <2>1. StockAtEdge(i) = IF older = {} THEN 0 ELSE log[Max(older)].stock_after
    BY DEF StockAtEdge
  <2>2. CASE m = 0
    <3>1. older = {}
      BY <1>7, <2>2
    <3> QED
      BY <2>1, <2>2, <3>1 DEF StockAfter
  <2>3. CASE m # 0
    <3>1. m \in 1..m /\ \A k \in 1..m : m >= k
      BY <1>5, <2>3
    <3>2. \A x \in 1..m : (\A k \in 1..m : x >= k) => x = m
      BY <3>1
    <3>3. Max(1..m) = m
      BY <3>1, <3>2 DEF Max
    <3>4. older # {} /\ Max(older) = m
      BY <1>7, <3>1, <3>3
    <3> HIDE DEF older
    <3> QED
      BY <2>1, <2>3, <3>4 DEF StockAfter
  <2> QED
    BY <2>2, <2>3
<1> QED
  BY <1>5, <1>8, <1>9

\* Sums of two functions over one set add up.
LEMMA SumPlus ==
    ASSUME NEW f, NEW g, NEW h, NEW S, IsFiniteSet(S),
           \A x \in S : f[x] \in Int /\ g[x] \in Int /\ h[x] = f[x] + g[x]
    PROVE  SumFunctionOnSet(h, S) = SumFunctionOnSet(f, S) + SumFunctionOnSet(g, S)
<1> DEFINE T == {s \in SUBSET S :
                   SumFunctionOnSet(h, s) # SumFunctionOnSet(f, s) + SumFunctionOnSet(g, s)}
<1> SUFFICES ASSUME T # {} PROVE FALSE
  OBVIOUS
<1>1. PICK s \in T : \A r \in SUBSET s : r # s => r \notin T
  <2>1. T \in SUBSET SUBSET S
    OBVIOUS
  <2> HIDE DEF T
  <2> QED
    BY <2>1, SmallestSubset
<1>2. /\ s \in SUBSET S /\ IsFiniteSet(s)
      /\ SumFunctionOnSet(h, s) # SumFunctionOnSet(f, s) + SumFunctionOnSet(g, s)
  BY <1>1, FS_Subset
<1>3. s # {}
  <2>1. /\ SumFunctionOnSet(f, {}) = 0 /\ SumFunctionOnSet(g, {}) = 0
        /\ SumFunctionOnSet(h, {}) = 0
    BY SumEmpty
  <2>2. 0 = 0 + 0
    OBVIOUS
  <2> QED
    BY <1>2, <2>1, <2>2
<1> DEFINE c == Chosen(s)
           rest == s \ {c}
<1>4. /\ c \in s
      /\ SumFunctionOnSet(f, s) = f[c] + SumFunctionOnSet(f, rest)
      /\ SumFunctionOnSet(g, s) = g[c] + SumFunctionOnSet(g, rest)
      /\ SumFunctionOnSet(h, s) = h[c] + SumFunctionOnSet(h, rest)
  BY <1>2, <1>3, SumChosen
<1> HIDE DEF c
<1>5. /\ rest \in SUBSET S /\ IsFiniteSet(rest)
      /\ SumFunctionOnSet(h, rest) = SumFunctionOnSet(f, rest) + SumFunctionOnSet(g, rest)
  BY <1>1, <1>2, <1>4, FS_Subset
<1>6. SumFunctionOnSet(f, rest) \in Int /\ SumFunctionOnSet(g, rest) \in Int
  BY <1>5, SumInt
<1>7. f[c] \in Int /\ g[c] \in Int /\ h[c] = f[c] + g[c]
  BY <1>2, <1>4
<1> HIDE DEF rest
<1> QED
  BY <1>2, <1>4, <1>5, <1>6, <1>7

\* net_stock_change is what total_units have changed by since the window began, if both
\* are read at once.
LEMMA NetSinceEdge ==
    ASSUME BaseInv, page.since \in Int
    PROVE  /\ NetChange \in Int
           /\ TotalUnits = SumFunction([i \in Items |-> StockAtEdge(i)]) + NetChange
<1> PICK f, g, h : /\ f = [i \in Items |-> StockAtEdge(i)]
                   /\ g = [i \in Items |-> SumFunctionOnSet(DeltasOf(i), RecentLines(i))]
                   /\ h = [i \in Items |-> menu_items[i].stock_quantity]
  OBVIOUS
<1>1. ASSUME NEW i \in Items
      PROVE  f[i] \in Int /\ g[i] \in Int /\ h[i] = f[i] + g[i]
  <2>1. /\ LedgerOf(i) /\ DatesOf(i) /\ stock_movements[i] \in Seq(Movements)
        /\ menu_items[i].stock_quantity \in Int
    BY ConstantsAssumption
       DEF BaseInv, LedgerInv, PendingInv, TypeInv, TypeOK, Ledger, TimesInv, Stock
  <2>2. PICK m \in 0..Len(stock_movements[i]) :
               /\ RecentLines(i) = m + 1..Len(stock_movements[i])
               /\ StockAtEdge(i) = StockAfter(i, m)
    BY <2>1, EdgeOfWindow
  <2>3. /\ SumFunctionOnSet(DeltasOf(i), RecentLines(i))
               = menu_items[i].stock_quantity - StockAtEdge(i)
        /\ StockAtEdge(i) \in Int
    <3>1. /\ SumFunctionOnSet(DeltasOf(i), m + 1..Len(stock_movements[i]))
                 = menu_items[i].stock_quantity - StockAfter(i, m)
          /\ StockAfter(i, m) \in Int
      BY <2>1, LedgerTelescopes
    <3> QED
      BY <2>2, <3>1, Zenon
  <2>4. /\ f[i] = StockAtEdge(i) /\ h[i] = menu_items[i].stock_quantity
        /\ g[i] = SumFunctionOnSet(DeltasOf(i), RecentLines(i))
    BY Zenon
  <2> QED
    BY <2>1, <2>3, <2>4
<1>2. /\ SumFunctionOnSet(h, Items) = SumFunctionOnSet(f, Items) + SumFunctionOnSet(g, Items)
      /\ SumFunctionOnSet(g, Items) \in Int
  BY <1>1, SumPlus, SumInt, KeysAssumption
<1>3. /\ NetChange = SumFunctionOnSet(g, Items) /\ TotalUnits = SumFunctionOnSet(h, Items)
      /\ SumFunction([i \in Items |-> StockAtEdge(i)]) = SumFunctionOnSet(f, Items)
  BY Zenon DEF NetChange, TotalUnits, SumFunction
<1> QED
  BY <1>2, <1>3

\* Orders that are counted are worth at least one unit each.
LEMMA ValueCovers ==
    ASSUME NEW S \in SUBSET Orders
    PROVE  /\ IsFiniteSet(S) /\ Cardinality(S) \in Nat /\ ValueOf(S) \in Int
           /\ Cardinality(S) <= ValueOf(S)
<1>1. IsFiniteSet(S)
  BY KeysAssumption, FS_Subset
<1>2. \A o \in S : quantity[o] \in Nat /\ quantity[o] >= 1 /\ quantity[o] \in Int
  BY ConstantsAssumption
<1>3. Cardinality(S) <= SumFunctionOnSet(quantity, S)
  BY <1>1, <1>2, SumCovers
<1>4. SumFunctionOnSet(quantity, S) \in Int
  BY <1>1, <1>2, SumInt
<1> QED
  BY <1>1, <1>3, <1>4, FS_CardinalityType DEF ValueOf

\* A deduction is not before its order: every order with one that is within the window
\* of the movements has it counted.
LEMMA DeductionsCover ==
    ASSUME BaseInv, NEW H \in SUBSET Orders, page.since \in Int,
           \A o \in H : Moves(o, "DEDUCTION") > 0
    PROVE  Deductions \in Int /\ Cardinality(Recent(H)) \in Nat
           /\ Cardinality(Recent(H)) <= Deductions
<1> PICK f : f = [o \in Orders |->
                     Cardinality(MovesOf(o, "DEDUCTION") \cap RecentLines(item_id[o]))]
  OBVIOUS
<1>1. ASSUME NEW o \in Orders
      PROVE  f[o] \in Nat /\ (o \in Recent(H) => f[o] >= 1)
  <2> DEFINE within == MovesOf(o, "DEDUCTION") \cap RecentLines(item_id[o])
  <2>1. /\ item_id[o] \in Items /\ DatesOf(item_id[o]) /\ OrderDatesOf(o)
        /\ placed_at[o] \in Nat /\ TypeOK
    BY ConstantsAssumption
       DEF BaseInv, TimesInv, LedgerInv, PendingInv, TypeInv
  <2>2. /\ IsFiniteSet(MovesOf(o, "DEDUCTION"))
        /\ MovesOf(o, "DEDUCTION") \subseteq 1..Len(stock_movements[item_id[o]])
    BY <2>1, MovesType
  <2>3. IsFiniteSet(within)
    BY <2>2, FS_Intersection
  <2>4. f[o] = Cardinality(within) /\ f[o] \in Nat
    BY <2>3, FS_CardinalityType
  <2>5. ASSUME o \in Recent(H) PROVE f[o] >= 1
    <3>1. Moves(o, "DEDUCTION") > 0 /\ placed_at[o] >= page.since
      BY <2>5 DEF Recent
    <3>2. MovesOf(o, "DEDUCTION") # {}
      BY <3>1, FS_EmptySet DEF Moves
    <3>3. PICK k \in MovesOf(o, "DEDUCTION") : TRUE
      BY <3>2
    <3>4. /\ k \in 1..Len(stock_movements[item_id[o]])
          /\ placed_at[o] <= moved_at[item_id[o]][k]
          /\ moved_at[item_id[o]][k] \in Nat
      BY <2>1, <2>2, <3>3 DEF OrderDatesOf, DatesOf
    <3>5. moved_at[item_id[o]][k] >= page.since
      BY <2>1, <3>1, <3>4
    <3>6. within # {}
      BY <3>3, <3>4, <3>5 DEF RecentLines
    <3>7. Cardinality(within) # 0
      BY <2>3, <3>6, FS_EmptySet
    <3> QED
      BY <2>4, <3>7
  <2> QED
    BY <2>4, <2>5
<1>2. Recent(H) \in SUBSET Orders
  BY DEF Recent
<1>3. SumFunctionOnSet(f, Orders) \in Int
  <2>1. \A o \in Orders : f[o] \in Int
    BY <1>1
  <2> QED
    BY <2>1, SumInt, KeysAssumption
<1>4. Cardinality(Recent(H)) <= SumFunctionOnSet(f, Orders)
  BY <1>1, <1>2, SumCovers, KeysAssumption
<1>5. Cardinality(Recent(H)) \in Nat
  BY <1>2, ValueCovers
<1>6. Deductions = SumFunctionOnSet(f, Orders)
  BY Zenon DEF Deductions, SumFunction
<1> QED
  BY <1>3, <1>4, <1>5, <1>6

\* The orders of a window that are in a terminal status do not get fewer.
LEMMA TerminalCountsGrow ==
    ASSUME VersionInv, [Next]_vars, NEW status \in TerminalStates, UNCHANGED page,
           \A o \in Orders : orders[o] # AbsentRow => placed_at'[o] = placed_at[o]
    PROVE  /\ Cardinality(Recent(With(status))) \in Nat
           /\ Cardinality(Recent(With(status)))' \in Nat
           /\ Cardinality(Recent(With(status))) <= Cardinality(Recent(With(status)))'
<1>1. ASSUME NEW o \in Recent(With(status)) PROVE o \in Recent(With(status))'
  <2>1. o \in Orders /\ orders[o].status = status /\ placed_at[o] >= page.since
    BY DEF Recent, With
  <2>2. orders'[o] = orders[o] /\ placed_at'[o] = placed_at[o]
    BY <2>1, TerminalRowStands DEF TerminalStates, AbsentRow
  <2> QED
    BY <2>1, <2>2 DEF Recent, With
<1>2. Recent(With(status)) \in SUBSET Recent(With(status))'
  BY <1>1
<1>3. Recent(With(status))' \in SUBSET Orders
  BY DEF Recent, With
<1>4. IsFiniteSet(Recent(With(status))')
  BY <1>3, FS_Subset, KeysAssumption
<1> QED
  BY <1>2, <1>4, FS_Subset, FS_CardinalityType

-----------------------------------------------------------------------------
(* GET /analytics/summary: the answer put together.                        *)

Summing   == {"order clock", "counts", "revenue", "refund", "movement clock", "movements",
              "summary shown"}
Summaries == [versions : [Items -> Nat], total_units : Int, since : Int,
              holding : SUBSET Orders, delivered : Nat, cancelled : Nat,
              revenue : Int, refund : Int, deductions : Int, net : Int]

\* The stock that was read is that of the versions, which have gone by or stand.
StockSeen ==
    at \in Summing =>
        /\ page \in Summaries
        /\ \A i \in Items : page.versions[i] <= menu_items[i].version
        /\ page.versions = ItemVersions => page.total_units = TotalUnits

\* What was counted is there still, within the window, and has its deductions.
CountsSeen ==
    /\ at \in {"revenue", "refund"} =>
           /\ page.delivered <= Cardinality(Recent(With("DELIVERED")))
           /\ page.cancelled <= Cardinality(Recent(With("CANCELLED")))
    /\ at \in {"revenue", "refund", "movement clock", "movements"} =>
           \A o \in page.holding : Moves(o, "DEDUCTION") > 0

\* Each sum that was read covers its count.
SumsSeen ==
    /\ at \in {"refund", "movement clock", "movements", "summary shown"} =>
           page.revenue >= page.delivered
    /\ at \in {"movement clock", "movements", "summary shown"} =>
           page.refund >= page.cancelled

SummaryInv == BaseInv /\ StockSeen /\ CountsSeen /\ SumsSeen

\* Only an item that stood still is read at the version it has.
LEMMA UnitsStand ==
    ASSUME VersionInv, [Next]_vars, NEW v \in [Items -> Nat],
           \A i \in Items : v[i] <= menu_items[i].version
    PROVE  /\ \A i \in Items : v[i] <= menu_items'[i].version
           /\ v = ItemVersions' => v = ItemVersions /\ TotalUnits' = TotalUnits
<1>1. \A i \in Items : /\ v[i] \in Nat /\ v[i] <= menu_items[i].version
                       /\ menu_items[i].version \in Nat /\ menu_items'[i].version \in Nat
                       /\ \/ menu_items'[i] = menu_items[i]
                          \/ menu_items'[i].version > menu_items[i].version
  BY ItemsAge
<1>2. \A i \in Items : v[i] <= menu_items'[i].version
  BY <1>1
<1>3. ASSUME v = ItemVersions' PROVE v = ItemVersions /\ TotalUnits' = TotalUnits
  <2>1. \A i \in Items : v[i] = menu_items'[i].version
    BY <1>3 DEF ItemVersions
  <2>2. \A i \in Items : menu_items'[i] = menu_items[i]
    BY <1>1, <2>1
  <2>3. /\ [i \in Items |-> menu_items'[i].version] = [i \in Items |-> menu_items[i].version]
        /\ [i \in Items |-> menu_items'[i].stock_quantity]
               = [i \in Items |-> menu_items[i].stock_quantity]
    BY <2>2
  <2> QED
    BY <1>3, <2>3, Zenon DEF ItemVersions, TotalUnits
<1> QED
  BY <1>2, <1>3

\* A report sees what is there; the window moves only with a reading of the clock.
LEMMA ReportSees ==
    ASSUME Report
    PROVE  /\ menu_items' = menu_items /\ now' = now
           /\ ItemVersions' = ItemVersions /\ TotalUnits' = TotalUnits
           /\ \A o \in Orders : Moves(o, "DEDUCTION")' = Moves(o, "DEDUCTION")
           /\ page'.since = page.since =>
                  /\ Recent(With("DELIVERED"))' = Recent(With("DELIVERED"))
                  /\ Recent(With("CANCELLED"))' = Recent(With("CANCELLED"))
<1>1. /\ menu_items' = menu_items /\ orders' = orders /\ stock_movements' = stock_movements
      /\ now' = now /\ placed_at' = placed_at
  BY ReportsOnly DEF vars, timevars
<1>2. \A o \in Orders : Moves(o, "DEDUCTION")' = Moves(o, "DEDUCTION")
  BY <1>1, MovesStand
<1> QED
  BY <1>1, <1>2 DEF ItemVersions, TotalUnits, Recent, With

\* Each statement of a summary, and what it may rely on.
LEMMA ReportKeepsSummary ==
    ASSUME SummaryInv, Report
    PROVE  StockSeen' /\ CountsSeen' /\ SumsSeen'
<1> USE DEF Summing
<1>0. /\ VersionInv /\ TypeOK /\ BooksInv /\ BaseInv
      /\ StockSeen /\ CountsSeen /\ SumsSeen /\ now - Days \in Int
  BY WindowAssumption
     DEF SummaryInv, BaseInv, BooksInv, InventoryInv, VersionInv, TypeInv, TimesInv
<1>1. CASE ReadStock
  <2>1. at' = "order clock" /\ page' = [versions |-> ItemVersions, total_units |-> TotalUnits,
            since |-> 0, holding |-> {}, delivered |-> 0, cancelled |-> 0, revenue |-> 0,
            refund |-> 0, deductions |-> 0, net |-> 0]
    BY <1>1 DEF ReadStock, Statement
  <2>2. \A i \in Items : ItemVersions[i] \in Nat /\ ItemVersions[i] = menu_items[i].version
    BY <1>0 DEF TypeOK, ItemVersions
  <2>3. ItemVersions \in [Items -> Nat]
    BY <2>2 DEF ItemVersions
  <2>4. TotalUnits \in Int
    BY <1>0, UnitsType
  <2>5. page' \in Summaries /\ page'.versions = ItemVersions /\ page'.total_units = TotalUnits
    <3>1. {} \in SUBSET Orders
      OBVIOUS
    <3>2. page'.versions = ItemVersions /\ page'.total_units = TotalUnits
      BY <2>1
    <3>3. \A v \in [Items -> Nat], t \in Int, h \in SUBSET Orders :
              [versions |-> v, total_units |-> t, since |-> 0, holding |-> h,
               delivered |-> 0, cancelled |-> 0, revenue |-> 0, refund |-> 0,
               deductions |-> 0, net |-> 0] \in Summaries
      BY DEF Summaries
    <3>4. page' \in Summaries
      BY <2>1, <2>3, <2>4, <3>1, <3>3, Zenon
    <3> QED
      BY <3>2, <3>4
  <2>6. \A i \in Items : page'.versions[i] <= menu_items'[i].version
    BY <2>2, <2>5, ReportSees
  <2>7. StockSeen'
    BY <2>5, <2>6, ReportSees DEF StockSeen
  <2> QED
    BY <2>1, <2>7 DEF CountsSeen, SumsSeen
<1>2. CASE ReadOrderClock
  <2>1. /\ at = "order clock" /\ at' = "counts" /\ page \in Summaries
        /\ page' = [page EXCEPT !.since = now - Days]
    BY <1>0, <1>2 DEF ReadOrderClock, Statement, StockSeen
  <2>2. /\ page' \in Summaries /\ page'.versions = page.versions
        /\ page'.total_units = page.total_units
    BY <1>0, <2>1 DEF Summaries
  <2>3. StockSeen'
    BY <1>0, <2>1, <2>2, ReportSees DEF StockSeen
  <2> QED
    BY <2>1, <2>3 DEF CountsSeen, SumsSeen
<1>3. CASE ReadCounts
  <2> DEFINE held  == Recent({o \in Orders : Holding(o)})
             done  == Cardinality(Recent(With("DELIVERED")))
             ended == Cardinality(Recent(With("CANCELLED")))
  <2>1. /\ at = "counts" /\ at' = "revenue" /\ page \in Summaries
        /\ page' = [page EXCEPT !.holding = held, !.delivered = done, !.cancelled = ended]
    BY <1>0, <1>3 DEF ReadCounts, Statement, StockSeen
  <2>2. held \in SUBSET Orders /\ done \in Nat /\ ended \in Nat
    BY ValueCovers DEF Recent, With
  <2>3. \A o \in held : o \in Orders /\ Moves(o, "DEDUCTION") > 0
    BY <1>0 DEF Recent, BooksInv, BooksOf
  <2> HIDE DEF held, done, ended
  <2>4. /\ page' \in Summaries /\ page'.versions = page.versions
        /\ page'.total_units = page.total_units /\ page'.since = page.since
        /\ page'.holding = held /\ page'.delivered = done /\ page'.cancelled = ended
    BY <2>1, <2>2 DEF Summaries
  <2>5. StockSeen'
    BY <1>0, <2>1, <2>4, ReportSees DEF StockSeen
  <2>6. page'.delivered <= Cardinality(Recent(With("DELIVERED")))'
        /\ page'.cancelled <= Cardinality(Recent(With("CANCELLED")))'
    <3>1. \A n \in Nat : n <= n
      OBVIOUS
    <3>2. /\ Cardinality(Recent(With("DELIVERED")))' = done
          /\ Cardinality(Recent(With("CANCELLED")))' = ended
      BY <2>4, ReportSees, Zenon DEF done, ended
    <3> QED
      BY <2>2, <2>4, <3>1, <3>2, Zenon
  <2>7. \A o \in page'.holding : Moves(o, "DEDUCTION")' > 0
    BY <2>3, <2>4, ReportSees
  <2> QED
    BY <2>1, <2>5, <2>6, <2>7, Zenon DEF CountsSeen, SumsSeen
<1>4. CASE ReadRevenue
  <2> DEFINE S == Recent(With("DELIVERED"))
  <2>1. /\ at = "revenue" /\ at' = "refund" /\ page \in Summaries
        /\ page' = [page EXCEPT !.revenue = ValueOf(S)]
    BY <1>0, <1>4 DEF ReadRevenue, Statement, StockSeen
  <2>2. /\ ValueOf(S) \in Int /\ Cardinality(S) <= ValueOf(S) /\ Cardinality(S) \in Nat
        /\ page.delivered <= Cardinality(S)
    BY <1>0, <2>1, ValueCovers DEF Recent, With, CountsSeen
  <2> HIDE DEF S
  <2>3. /\ page' \in Summaries /\ page'.versions = page.versions
        /\ page'.total_units = page.total_units /\ page'.since = page.since
        /\ page'.holding = page.holding /\ page.holding \in SUBSET Orders
        /\ page'.delivered = page.delivered /\ page'.cancelled = page.cancelled
        /\ page'.revenue = ValueOf(S) /\ page.delivered \in Nat
    BY <2>1, <2>2 DEF Summaries
  <2>4. page'.revenue >= page'.delivered
    BY <2>2, <2>3
  <2>5. StockSeen'
    BY <1>0, <2>1, <2>3, ReportSees DEF StockSeen
  <2>6. CountsSeen'
    BY <1>0, <2>1, <2>3, ReportSees DEF CountsSeen
  <2> QED
    BY <2>1, <2>4, <2>5, <2>6 DEF SumsSeen
<1>5. CASE ReadRefund
  <2> DEFINE S == Recent(With("CANCELLED"))
  <2>1. /\ at = "refund" /\ at' = "movement clock" /\ page \in Summaries
        /\ page' = [page EXCEPT !.refund = ValueOf(S)]
    BY <1>0, <1>5 DEF ReadRefund, Statement, StockSeen, Refunded
  <2>2. /\ ValueOf(S) \in Int /\ Cardinality(S) <= ValueOf(S) /\ Cardinality(S) \in Nat
        /\ page.cancelled <= Cardinality(S)
    BY <1>0, <2>1, ValueCovers DEF Recent, With, CountsSeen
  <2> HIDE DEF S
  <2>3. /\ page' \in Summaries /\ page'.versions = page.versions
        /\ page'.total_units = page.total_units /\ page'.since = page.since
        /\ page'.holding = page.holding /\ page.holding \in SUBSET Orders
        /\ page'.delivered = page.delivered /\ page'.cancelled = page.cancelled
        /\ page'.revenue = page.revenue
        /\ page'.refund = ValueOf(S) /\ page.cancelled \in Nat
    BY <2>1, <2>2 DEF Summaries
  <2>4. page'.refund >= page'.cancelled
    BY <2>2, <2>3
  <2>5. StockSeen'
    BY <1>0, <2>1, <2>3, ReportSees DEF StockSeen
  <2>6. CountsSeen'
    BY <1>0, <2>1, <2>3, ReportSees DEF CountsSeen
  <2> QED
    BY <1>0, <2>1, <2>3, <2>4, <2>5, <2>6 DEF SumsSeen
<1>6. CASE ReadMovementClock
  <2>1. /\ at = "movement clock" /\ at' = "movements" /\ page \in Summaries
        /\ page' = [page EXCEPT !.since = now - Days]
    BY <1>0, <1>6 DEF ReadMovementClock, Statement, StockSeen
  <2>2. /\ page' \in Summaries /\ page'.versions = page.versions
        /\ page'.total_units = page.total_units
        /\ page'.holding = page.holding /\ page.holding \in SUBSET Orders
        /\ page'.delivered = page.delivered /\ page'.cancelled = page.cancelled
        /\ page'.revenue = page.revenue /\ page'.refund = page.refund
    BY <1>0, <2>1 DEF Summaries
  <2>3. StockSeen' /\ CountsSeen'
    BY <1>0, <2>1, <2>2, ReportSees DEF StockSeen, CountsSeen
  <2> QED
    BY <1>0, <2>1, <2>2, <2>3 DEF SumsSeen
<1>7. CASE ReadNet
  <2>1. /\ at = "movements" /\ at' = "summary shown" /\ page \in Summaries
        /\ page' = [page EXCEPT !.net = NetChange, !.deductions = Deductions]
    BY <1>0, <1>7 DEF ReadNet, Statement, StockSeen
  <2>2. page.since \in Int
    BY <2>1 DEF Summaries
  <2>3. Deductions \in Int /\ NetChange \in Int
    <3>1. {} \in SUBSET Orders /\ \A o \in {} : Moves(o, "DEDUCTION") > 0
      OBVIOUS
    <3> QED
      BY <1>0, <2>2, <3>1, DeductionsCover, NetSinceEdge
  <2>4. /\ page' \in Summaries /\ page'.versions = page.versions
        /\ page'.total_units = page.total_units
        /\ page'.delivered = page.delivered /\ page'.cancelled = page.cancelled
        /\ page'.revenue = page.revenue /\ page'.refund = page.refund
    BY <2>1, <2>3 DEF Summaries
  <2>5. StockSeen'
    BY <1>0, <2>1, <2>4, ReportSees DEF StockSeen
  <2> QED
    BY <1>0, <2>1, <2>4, <2>5 DEF SumsSeen, CountsSeen
<1>8. CASE at' \notin Summing
  BY <1>8 DEF StockSeen, CountsSeen, SumsSeen
<1> QED
  BY <1>1, <1>2, <1>3, <1>4, <1>5, <1>6, <1>7, <1>8 DEF Report, ReadOrderRow, ReadMovements,
     ListOrders, ListMovements, Close, Statement

\* Whatever commits between two statements, what was read stays behind what is there.
LEMMA WriterKeepsSummary ==
    ASSUME SummaryInv, [Next]_vars, UNCHANGED <<at, page>>,
           \A o \in Orders : orders[o] # AbsentRow => placed_at'[o] = placed_at[o]
    PROVE  StockSeen' /\ CountsSeen' /\ SumsSeen'
<1>0. VersionInv /\ BooksInv /\ StockSeen /\ CountsSeen
  BY DEF SummaryInv, BaseInv, BooksInv, InventoryInv
<1>1. ASSUME at \in Summing PROVE StockSeen'
  <2> PICK v : v = page.versions
    OBVIOUS
  <2>1. /\ page \in Summaries /\ v \in [Items -> Nat]
        /\ \A i \in Items : v[i] <= menu_items[i].version
        /\ v = ItemVersions => page.total_units = TotalUnits
    BY <1>0, <1>1 DEF StockSeen, Summaries
  <2>2. /\ \A i \in Items : v[i] <= menu_items'[i].version
        /\ v = ItemVersions' => v = ItemVersions /\ TotalUnits' = TotalUnits
    BY <1>0, <2>1, UnitsStand
  <2> QED
    BY <2>1, <2>2 DEF StockSeen
<1>2. ASSUME at \in {"revenue", "refund"}
      PROVE  /\ page.delivered <= Cardinality(Recent(With("DELIVERED")))'
             /\ page.cancelled <= Cardinality(Recent(With("CANCELLED")))'
  <2>1. /\ page.delivered \in Nat /\ page.cancelled \in Nat
        /\ page.delivered <= Cardinality(Recent(With("DELIVERED")))
        /\ page.cancelled <= Cardinality(Recent(With("CANCELLED")))
    BY <1>0, <1>2 DEF StockSeen, CountsSeen, Summaries, Summing
  <2> DEFINE d == Cardinality(Recent(With("DELIVERED")))
             c == Cardinality(Recent(With("CANCELLED")))
  <2>2. d \in Nat /\ d' \in Nat /\ d <= d'
    BY <1>0, TerminalCountsGrow DEF TerminalStates
  <2>3. c \in Nat /\ c' \in Nat /\ c <= c'
    BY <1>0, TerminalCountsGrow DEF TerminalStates
  <2> HIDE DEF d, c
  <2> QED
    BY <2>1, <2>2, <2>3 DEF d, c
<1>3. ASSUME at \in {"revenue", "refund", "movement clock", "movements"}
      PROVE  \A o \in page.holding : Moves(o, "DEDUCTION")' > 0
  <2>1. /\ page.holding \in SUBSET Orders
        /\ \A o \in page.holding : Moves(o, "DEDUCTION") > 0
    BY <1>0, <1>3 DEF StockSeen, CountsSeen, Summaries, Summing
  <2>2. \A o \in Orders : /\ Moves(o, "DEDUCTION") \in Nat /\ Moves(o, "DEDUCTION")' \in Nat
                          /\ Moves(o, "DEDUCTION")' >= Moves(o, "DEDUCTION")
    BY <1>0, MovesOnlyGrow DEF BooksInv
  <2> QED
    BY <2>1, <2>2
<1>4. SumsSeen'
  BY DEF SummaryInv, SumsSeen
<1>5. StockSeen'
  BY <1>1 DEF StockSeen
<1>6. CountsSeen'
  BY <1>2, <1>3 DEF CountsSeen
<1> QED
  BY <1>4, <1>5, <1>6

\* Writers and readers keep what a summary relies on.
LEMMA NextSummaryInv == SummaryInv /\ [Proceed \/ Report]_reportvars => SummaryInv'
<1> SUFFICES ASSUME SummaryInv, [Proceed \/ Report]_reportvars PROVE SummaryInv'
  OBVIOUS
<1>1. /\ BaseInv' /\ [Next]_vars
      /\ \/ Report
         \/ Serve /\ UNCHANGED <<at, page>>
         \/ UNCHANGED <<placed_at, at, page>>
  BY NextBaseInv DEF SummaryInv
<1>2. CASE Report
  BY <1>1, <1>2, ReportKeepsSummary DEF SummaryInv
<1>3. CASE Serve /\ UNCHANGED <<at, page>>
  <2>1. \A o \in Orders : orders[o] # AbsentRow => placed_at'[o] = placed_at[o]
    BY <1>3, ServeRows DEF SummaryInv
  <2>2. StockSeen' /\ CountsSeen' /\ SumsSeen'
    BY <1>1, <1>3, <2>1, WriterKeepsSummary
  <2> QED
    BY <1>1, <2>2 DEF SummaryInv
<1>4. CASE UNCHANGED <<placed_at, at, page>>
  <2>1. StockSeen' /\ CountsSeen' /\ SumsSeen'
    BY <1>1, <1>4, WriterKeepsSummary
  <2> QED
    BY <1>1, <2>1 DEF SummaryInv
<1> QED
  BY <1>1, <1>2, <1>3, <1>4

\* In every reachable state of readers and writers.
LEMMA SummaryInvariant == ReportsSpec => []SummaryInv
<1>1. ReportsInit => SummaryInv
  BY InitBaseInv DEF ReportsInit, SummaryInv, StockSeen, CountsSeen, SumsSeen, Summing
<1> QED
  BY <1>1, NextSummaryInv, PTL DEF ReportsSpec

\* GET /analytics/summary: revenue and refunds cover every order counted as delivered or
\* as cancelled two statements earlier.
THEOREM TotalsCover == ReportsSpec => []TotalsCoverCounts
<1>1. SummaryInv => TotalsCoverCounts
  BY DEF SummaryInv, SumsSeen, TotalsCoverCounts
<1> QED
  BY <1>1, SummaryInvariant, PTL

\* GET /analytics/summary: every order counted as confirmed, shipped or delivered is among
\* the deductions, unless it was placed before the window of the movements, which is
\* computed later: an order is never younger than what was deducted for it.
THEOREM DeductionsCoverTheCounts == ReportsSpec => DeductionsCoverCounts
<1>1. ASSUME SummaryInv, ReadNet PROVE page'.deductions >= Cardinality(Recent(page.holding))
  <2>1. /\ page \in Summaries /\ BaseInv
        /\ \A o \in page.holding : Moves(o, "DEDUCTION") > 0
    BY <1>1 DEF SummaryInv, StockSeen, CountsSeen, Summing, ReadNet, Statement
  <2>2. page.since \in Int /\ page.holding \in SUBSET Orders
        /\ page'.deductions = Deductions
    BY <1>1, <2>1 DEF Summaries, ReadNet
  <2>3. /\ Deductions \in Int /\ Cardinality(Recent(page.holding)) \in Nat
        /\ Cardinality(Recent(page.holding)) <= Deductions
    BY <2>1, <2>2, DeductionsCover
  <2> QED
    BY <2>2, <2>3
<1>2. SummaryInv /\ [Proceed \/ Report]_reportvars =>
          [ReadNet => page'.deductions >= Cardinality(Recent(page.holding))]_reportvars
  BY <1>1
<1> QED
  BY <1>2, SummaryInvariant, PTL DEF ReportsSpec, DeductionsCoverCounts

\* GET /analytics/summary: unless stock moved meanwhile, the net change of an answer is
\* what its stock has changed by since the window began, however long the trails and
\* wherever in them the window begins.
THEOREM DashboardsAgree == ReportsSpec => DashboardAgrees
<1>1. ASSUME SummaryInv, ReadNet, page.versions = ItemVersions
      PROVE  page.total_units = SumFunction([i \in Items |-> StockAtEdge(i)]) + page'.net
  <2>1. page \in Summaries /\ BaseInv /\ page.total_units = TotalUnits
    BY <1>1 DEF SummaryInv, StockSeen, Summing, ReadNet, Statement
  <2>2. page.since \in Int /\ page'.net = NetChange
    BY <1>1, <2>1 DEF Summaries, ReadNet
  <2> QED
    BY <2>1, <2>2, NetSinceEdge
<1>2. SummaryInv /\ [Proceed \/ Report]_reportvars =>
          [ReadNet /\ page.versions = ItemVersions =>
               page.total_units
                   = SumFunction([i \in Items |-> StockAtEdge(i)]) + page'.net]_reportvars
  BY <1>1
<1> QED
  BY <1>2, SummaryInvariant, PTL DEF ReportsSpec, DashboardAgrees
=============================================================================
