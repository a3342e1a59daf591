---------------------------- MODULE ReadsProofs ----------------------------
(***************************************************************************)
(* What a GET /stock/{item_id} can write.  The stock it flushes is one it  *)
(* found in the cache, and the cache is written before COMMIT, so the      *)
(* argument follows a stock from the request that flushed it, through the  *)
(* cache, a SETEX that comes late and the memory of a reader, to the item  *)
(* row: by then the request has committed, because it held the row.        *)
(***************************************************************************)
EXTENDS StockService, OrderServiceProofs

\* What a reader has asked for, and has in its session, at each step.
ReaderOf(r) ==
    /\ rpc[r] # "idle" => asked[r] \in Items
    /\ rpc[r] # "read" => dirty[r] = NoValue
    /\ rpc[r] = "idle" => seen[r] = NoValue

ReadersInv == PendingInv /\ ReadersOK /\ \A r \in Readers : ReaderOf(r)

\* Initially there is no reader and no late command.
LEMMA InitReadersInv == ReadersInit => ReadersInv
<1> SUFFICES ASSUME ReadersInit PROVE ReadersInv
  OBVIOUS
<1>1. PendingInv
  BY InitLedgerInv DEF ReadersInit, LedgerInv
<1>2. ReadersOK /\ \A r \in Readers : ReaderOf(r)
  BY GetAssumption DEF ReadersInit, ReadersOK, ReaderOf
<1> QED
  BY <1>1, <1>2 DEF ReadersInv

\* A command given up is a step of OrderService that leaves the cache alone.
LEMMA TimeoutIsNext ==
    ASSUME NEW w \in Workers, SetCacheTimesOut(w)
    PROVE  Next
BY DEF SetCacheTimesOut, WriteCache, Next

\* The stock that a request puts into the cache has the type of the column.
LEMMA CachedStock ==
    ASSUME TypeInv, NEW w \in Workers, pc[w] = "cache"
    PROVE  /\ flushed[w] \in Movements /\ flushed[w] # NoMovement
           /\ flushed[w].stock_after \in Stock /\ req[w].item \in Items
BY NoMovementAssumption DEF TypeInv, Shape, ShapeOf, Movements

\* The UPDATE of a GET waits for the row, so it moves no row on which a movement
\* is flushed.
LEMMA EndReadPending ==
    ASSUME ReadersInv, NEW r \in Readers, EndRead(r)
    PROVE  PendingInv'
<1>0. TypeInv /\ asked[r] \in Items /\ dirty[r] \in Stock \cup {NoValue}
  BY DEF ReadersInv, PendingInv, ReadersOK, ReaderOf, EndRead
<1>1. /\ orders' = orders /\ stock_movements' = stock_movements /\ cache' = cache
      /\ itemLock' = itemLock /\ tx' = tx
  BY DEF EndRead
<1>2. CASE menu_items' = menu_items
  <2>1. vars' = vars
    BY <1>1, <1>2 DEF vars, tx
  <2> QED
    BY <2>1, NextPendingInv DEF ReadersInv
<1>3. CASE dirty[r] # NoValue
  <2>1. /\ itemLock[asked[r]] = NoWorker
        /\ menu_items' = [menu_items EXCEPT ![asked[r]].stock_quantity = dirty[r]]
    BY <1>3 DEF EndRead, UpdateMayRun
  <2>2. menu_items' \in [Items -> [stock_quantity : Stock, version : Nat]]
    BY <1>0, <1>3, <2>1 DEF TypeInv, TypeOK
  <2>3. TypeInv'
    BY <1>0, <1>1, <2>2 DEF TypeInv, TypeOK, Shape, ShapeOf, tx
  <2>4. ASSUME NEW w \in Workers PROVE PendingOf(w)'
    <3>1. flushed[w] # NoMovement => req[w].item # asked[r] /\ req[w].item \in Items
      BY <1>0, <2>1, NoWorkerAssumption
      DEF ReadersInv, PendingInv, PendingOf, TypeInv, Shape, ShapeOf
    <3> QED
      BY <1>0, <1>1, <2>1, <3>1 DEF ReadersInv, PendingInv, PendingOf, TypeInv, TypeOK, tx
  <2> QED
    BY <2>3, <2>4 DEF PendingInv
<1> QED
  BY <1>2, <1>3 DEF EndRead

\* The steps of a GET keep what is known of the readers.
LEMMA ReadStepReaders ==
    ASSUME ReadersInv, NEW r \in Readers, ReadStep(r)
    PROVE  ReadersOK' /\ \A q \in Readers : ReaderOf(q)'
<1>0. ReadersOK /\ TypeOK /\ \A q \in Readers : ReaderOf(q)
  BY DEF ReadersInv, PendingInv, TypeInv
<1>1. ASSUME NEW i \in Items, GetCached(r, i)
      PROVE  ReadersOK' /\ \A q \in Readers : ReaderOf(q)'
  <2>1. cache[i] \in Stock \cup {NoValue}
    BY <1>0 DEF TypeOK
  <2>2. ReadersOK'
    BY <1>0, <1>1, <2>1, GetAssumption DEF ReadersOK, GetCached
  <2> QED
    BY <1>0, <1>1, <2>2 DEF ReadersOK, ReaderOf, GetCached
<1>2. ASSUME ReadItem(r) PROVE ReadersOK' /\ \A q \in Readers : ReaderOf(q)'
  BY <1>0, <1>2 DEF ReadersOK, ReaderOf, ReadItem, Injected
<1>3. ASSUME EndRead(r) PROVE ReadersOK' /\ \A q \in Readers : ReaderOf(q)'
  BY <1>0, <1>3 DEF ReadersOK, ReaderOf, EndRead
<1> QED
  BY <1>1, <1>2, <1>3 DEF ReadStep

\* Late commands are values of the column.
LEMMA LateReaders ==
    ASSUME ReadersInv,
           \/ \E w \in Workers : SetCacheTimesOut(w)
           \/ \E i \in Items : LateWrite(i)
    PROVE  ReadersOK' /\ \A q \in Readers : ReaderOf(q)'
<1>0. ReadersOK /\ TypeInv /\ \A q \in Readers : ReaderOf(q)
  BY DEF ReadersInv, PendingInv
<1>1. ASSUME NEW w \in Workers, SetCacheTimesOut(w) PROVE late' \in [Items -> SUBSET Stock]
  BY <1>0, <1>1, CachedStock DEF ReadersOK, SetCacheTimesOut, SetCacheFails
<1>2. ASSUME NEW i \in Items, LateWrite(i) PROVE late' \in [Items -> SUBSET Stock]
  BY <1>0, <1>2 DEF ReadersOK, LateWrite
<1>3. /\ rpc' = rpc /\ asked' = asked /\ seen' = seen /\ dirty' = dirty /\ gets' = gets
      /\ late' \in [Items -> SUBSET Stock]
  BY <1>1, <1>2 DEF SetCacheTimesOut, LateWrite
<1> QED
  BY <1>0, <1>3 DEF ReadersOK, ReaderOf

\* A late SETEX writes the cache only, which no claim of a transaction is about.
LEMMA LateWritePending ==
    ASSUME ReadersInv, NEW i \in Items, LateWrite(i)
    PROVE  PendingInv'
<1>0. TypeInv /\ late[i] \subseteq Stock
  BY DEF ReadersInv, PendingInv, ReadersOK
<1>1. /\ db' = db /\ itemLock' = itemLock /\ tx' = tx
      /\ cache' \in [Items -> Stock \cup {NoValue}]
  BY <1>0 DEF LateWrite, TypeInv, TypeOK
<1>2. TypeInv'
  BY <1>0, <1>1 DEF TypeInv, TypeOK, Shape, ShapeOf, db, tx
<1>3. \A w \in Workers : PendingOf(w)'
  BY <1>1 DEF ReadersInv, PendingInv, PendingOf, db, tx
<1> QED
  BY <1>2, <1>3 DEF PendingInv

\* Every step, of a request, a reader or Redis, keeps the claims.
LEMMA NextReadersInv == ReadersInv /\ [ReadersNext]_allvars => ReadersInv'
<1> SUFFICES ASSUME ReadersInv, [ReadersNext]_allvars PROVE ReadersInv'
  OBVIOUS
<1>0. PendingInv /\ ReadersOK /\ \A q \in Readers : ReaderOf(q)
  BY DEF ReadersInv
<1>1. CASE [Next]_vars /\ UNCHANGED rvars
  <2>1. PendingInv'
    BY <1>0, <1>1, NextPendingInv
  <2>2. ReadersOK' /\ \A q \in Readers : ReaderOf(q)'
    BY <1>0, <1>1 DEF rvars, ReadersOK, ReaderOf
  <2> QED
    BY <2>1, <2>2 DEF ReadersInv
<1>2. ASSUME NEW r \in Readers, ReadStep(r) PROVE ReadersInv'
  <2>1. CASE EndRead(r)
    BY <1>2, <2>1, EndReadPending, ReadStepReaders DEF ReadersInv
  <2>2. CASE vars' = vars
    BY <1>0, <1>2, <2>2, NextPendingInv, ReadStepReaders DEF ReadersInv
  <2> QED
    BY <1>2, <2>1, <2>2 DEF ReadStep, GetCached, ReadItem
<1>3. ASSUME NEW w \in Workers, SetCacheTimesOut(w) PROVE ReadersInv'
  BY <1>0, <1>3, TimeoutIsNext, NextPendingInv, LateReaders DEF ReadersInv
<1>4. ASSUME NEW i \in Items, LateWrite(i) PROVE ReadersInv'
  BY <1>4, LateWritePending, LateReaders DEF ReadersInv
<1> QED
  BY <1>1, <1>2, <1>3, <1>4 DEF ReadersNext, allvars

\* With readers, failing and late cache writes beside the requests, every stock
\* is one its column holds, the one a GET flushes included.
THEOREM ReadersTypeCorrect == ReadersSpec => []ReadersTypeOK
<1>1. ReadersInv => ReadersTypeOK
  BY DEF ReadersInv, ReadersTypeOK, PendingInv, TypeInv
<1> QED
  BY <1>1, InitReadersInv, NextReadersInv, PTL DEF ReadersSpec

-----------------------------------------------------------------------------
(* Only a GET breaks the ledger.                                           *)

\* A step of which no GET flushes anything keeps a ledger.
LEMMA LedgerStep ==
    ASSUME ReadersInv, [ReadersNext]_allvars, Ledger, ~ Ledger'
    PROVE  \E r \in Readers : EndRead(r) /\ dirty[r] # NoValue
<1>0. LedgerInv
  BY DEF ReadersInv, LedgerInv
<1>1. CASE [Next]_vars
  BY <1>0, <1>1, NextLedgerInv DEF LedgerInv
<1>2. CASE db' = db
  BY <1>2 DEF Ledger, LedgerOf, db
<1>3. ASSUME NEW r \in Readers, ReadStep(r), ~ (EndRead(r) /\ dirty[r] # NoValue)
      PROVE  db' = db
  BY <1>3 DEF ReadStep, GetCached, ReadItem, EndRead, vars, db
<1> QED
  BY <1>1, <1>2, <1>3, TimeoutIsNext DEF ReadersNext, allvars, LateWrite

\* Whatever the requests, the cache and its late commands do, the item row leaves
\* its audit trail only when get_db commits a GET that found another stock cached.
THEOREM OnlyGetsBreakLedger == ReadersSpec => OnlyReadersBreakLedger
<1>1. ReadersInv /\ [ReadersNext]_allvars =>
          [Ledger /\ ~ Ledger' =>
               \E r \in Readers : EndRead(r) /\ dirty[r] # NoValue]_allvars
  BY LedgerStep
<1> QED
  BY <1>1, InitReadersInv, NextReadersInv, PTL DEF ReadersSpec, OnlyReadersBreakLedger

-----------------------------------------------------------------------------
(* Where a stock comes from, when get_db commits its HTTP errors and no    *)
(* request dies: what is flushed will be committed.                        *)

Committed(i, value) ==
    \E k \in 1..Len(stock_movements[i]) : stock_movements[i][k].stock_after = value
Coming(i, value) ==
    \E w \in Workers : /\ flushed[w] # NoMovement
                       /\ req[w].item = i /\ flushed[w].stock_after = value
Known(i, value) == Committed(i, value) \/ Coming(i, value)
known == [i \in Items |-> {value \in Stock : Known(i, value)}]

\* A request that has flushed a movement is on its way to an answer that commits.
WillCommit(w) ==
    flushed[w] # NoMovement => /\ pc[w] \in {"cache", "update", "done"}
                               /\ pc[w] = "done" => Commits(outcome[w])

Origins ==
    /\ \A w \in Workers : WillCommit(w)
    /\ \A i \in Items : cache[i] # NoValue => cache[i] \in known[i]
    /\ \A i \in Items : late[i] \subseteq known[i]
    /\ \A r \in Readers : /\ seen[r]  # NoValue => seen[r] \in known[asked[r]]
                          /\ dirty[r] # NoValue => dirty[r] \in known[asked[r]]

Faultless == Aborts = FALSE /\ OnHttpError = "commit"

\* Only the first cached value is there at the start: that of create_item.
LEMMA InitOrigins == ReadersInit => Origins
<1> SUFFICES ASSUME ReadersInit PROVE Origins
  OBVIOUS
<1>1. ASSUME NEW i \in Items, cache[i] # NoValue PROVE cache[i] \in known[i]
  <2>1. cache[i] = InitStock[i] /\ cache[i] \in Stock
    BY <1>1, ConstantsAssumption DEF ReadersInit, Init, Stock
  <2>2. /\ stock_movements[i] = <<Opening(i)>> /\ Len(<<Opening(i)>>) = 1
        /\ <<Opening(i)>>[1] = Opening(i) /\ Opening(i).stock_after = InitStock[i]
    BY DEF ReadersInit, Init, Opening
  <2>3. 1 \in 1..Len(stock_movements[i]) /\ stock_movements[i][1].stock_after = cache[i]
    BY <2>1, <2>2
  <2> QED
    BY <2>1, <2>3 DEF known, Known, Committed
<1> QED
  BY <1>1 DEF Origins, ReadersInit, Init, WillCommit

\* A request keeps its flushed movement until it commits it.
LEMMA WillCommitStays ==
    ASSUME Faultless, ReadersInv, Origins, [Next]_vars
    PROVE  \A w \in Workers : WillCommit(w)'
<1>0. /\ TypeInv /\ PendingInv /\ TypeOK /\ \A w \in Workers : WillCommit(w)
  BY DEF ReadersInv, PendingInv, TypeInv, Origins
<1>1. ASSUME NEW w \in Workers, Start(w) PROVE \A v \in Workers : WillCommit(v)'
  <2>1. /\ pc[w] = "idle" /\ flushed' = flushed
        /\ \A v \in Workers \ {w} : Untouched(v)
    BY <1>0, <1>1 DEF TypeOK, Start, PlaceOrder, ReadOrder, StartAdjust, Untouched
  <2> QED
    BY <1>0, <2>1, NothingFlushed DEF WillCommit, Untouched, Commits
<1>2. ASSUME NEW w \in Workers, TakeItem(w) PROVE \A v \in Workers : WillCommit(v)'
  <2>1. flushed[w] = NoMovement
    BY <1>0, <1>2, NothingFlushed DEF TakeItem, FlushMovement, FindTooLittle, FlushFails,
                                      LockItem, ItemRowFree
  <2>2. \A v \in Workers \ {w} : Untouched(v)
    BY <1>0, <1>2 DEF TypeOK, TakeItem, FlushMovement, FindTooLittle, FlushFails, LockItem,
                      Untouched
  <2>3. WillCommit(w)'
    BY <1>0, <1>2, <2>1 DEF TypeOK, TakeItem, FlushMovement, FindTooLittle, FlushFails,
                            LockItem, WillCommit, Commits
  <2> QED
    BY <1>0, <2>2, <2>3 DEF WillCommit, Untouched, Commits
<1>3. ASSUME NEW w \in Workers, WriteCache(w) \/ WriteOrder(w)
      PROVE  \A v \in Workers : WillCommit(v)'
  <2>1. \A v \in Workers \ {w} : Untouched(v)
    BY <1>0, <1>3 DEF TypeOK, WriteCache, SetCache, SetCacheFails, AfterCache,
                      WriteOrder, TransitionStatus, TransitionConflicts, Untouched
  <2>2. ASSUME pc'[w] = "update" PROVE WillCommit(w)'
    BY <2>2 DEF WillCommit
  <2>3. ASSUME pc'[w] = "done", outcome'[w] \in {"ok", "insufficient", "conflict"}
        PROVE  WillCommit(w)'
    BY <2>3 DEF WillCommit, Faultless, Commits, HttpErrors
  <2>4. \/ pc'[w] = "update"
        \/ pc'[w] = "done" /\ outcome'[w] \in {"ok", "insufficient", "conflict"}
    BY <1>0, <1>3 DEF TypeOK, WriteCache, SetCache, SetCacheFails, AfterCache,
                      WriteOrder, TransitionStatus, TransitionConflicts
  <2> QED
    BY <1>0, <2>1, <2>2, <2>3, <2>4 DEF WillCommit, Untouched, Commits
<1>4. ASSUME NEW w \in Workers, EndRequest(w) \/ Abort(w)
      PROVE  \A v \in Workers : WillCommit(v)'
  BY <1>0, <1>4 DEF TypeOK, EndRequest, Commit, Rollback, Abort, Release, WillCommit, Commits
<1>5. CASE (\E i \in Items : Expire(i)) \/ UNCHANGED vars
  BY <1>0, <1>5 DEF Expire, vars, tx, WillCommit, Commits
<1> QED
  BY <1>1, <1>2, <1>3, <1>4, <1>5 DEF Next

\* The commit of a request makes known what was to come, and keeps the rest.
LEMMA CommitKnown ==
    ASSUME ReadersInv, NEW w \in Workers, Commit(w),
           NEW i \in Items, NEW value, Known(i, value)
    PROVE  Known(i, value)'
<1>0. TypeOK /\ stock_movements[i] \in Seq(Movements) /\ ShapeOf(w)
  BY DEF ReadersInv, PendingInv, TypeInv, TypeOK, Shape
<1>1. CASE flushed[w] # NoMovement /\ req[w].item = i
  <2> DEFINE log == stock_movements[i]
             new == Append(log, flushed[w])
  <2>1. flushed[w] \in Movements
    BY <1>0, <1>1 DEF TypeOK
  <2>2. /\ Len(log) \in Nat /\ Len(new) = Len(log) + 1 /\ new[Len(new)] = flushed[w]
        /\ \A k \in 1..Len(log) : new[k] = log[k]
    BY <1>0, <2>1
  <2>3. stock_movements'[i] = new
    BY <1>0, <1>1 DEF TypeOK, Commit, CommitItem
  <2> HIDE DEF new
  <2>4. CASE Committed(i, value)
    <3>1. PICK k \in 1..Len(log) : log[k].stock_after = value
      BY <2>4 DEF Committed
    <3>2. k \in 1..Len(new) /\ new[k].stock_after = value
      BY <2>2, <3>1
    <3> QED
      BY <2>3, <3>2 DEF Known, Committed
  <2>5. CASE Coming(i, value)
    <3>1. PICK v \in Workers : /\ flushed[v] # NoMovement
                               /\ req[v].item = i /\ flushed[v].stock_after = value
      BY <2>5 DEF Coming
    <3>2. v = w
      BY <1>1, <3>1 DEF ReadersInv, PendingInv, PendingOf
    <3>3. Len(new) \in 1..Len(new) /\ new[Len(new)].stock_after = value
      BY <2>2, <3>1, <3>2
    <3> QED
      BY <2>3, <3>3 DEF Known, Committed
  <2> QED
    BY <2>4, <2>5 DEF Known
<1>2. CASE ~ (flushed[w] # NoMovement /\ req[w].item = i)
  <2>1. stock_movements'[i] = stock_movements[i]
    <3>1. flushed[w] # NoMovement => req[w].item \in Items
      BY <1>0 DEF ShapeOf
    <3> QED
      BY <1>0, <1>2, <3>1 DEF TypeOK, Commit, CommitItem
  <2>2. CASE Committed(i, value)
    BY <2>1, <2>2 DEF Known, Committed
  <2>3. CASE Coming(i, value)
    <3>1. PICK v \in Workers : /\ flushed[v] # NoMovement
                               /\ req[v].item = i /\ flushed[v].stock_after = value
      BY <2>3 DEF Coming
    <3>2. v # w
      BY <1>2, <3>1
    <3>3. flushed'[v] = flushed[v] /\ req'[v] = req[v]
      BY <1>0, <3>2 DEF TypeOK, Commit, Release
    <3> QED
      BY <3>1, <3>3 DEF Known, Coming
  <2> QED
    BY <2>2, <2>3 DEF Known
<1> QED
  BY <1>1, <1>2

\* A stock that is known stays known.
LEMMA KnownStays ==
    ASSUME Faultless, ReadersInv, Origins, [Next]_vars,
           NEW i \in Items, NEW value, Known(i, value)
    PROVE  Known(i, value)'
<1>0. /\ TypeOK /\ PendingInv /\ \A w \in Workers : WillCommit(w)
  BY DEF ReadersInv, PendingInv, TypeInv, Origins
<1>1. ASSUME stock_movements' = stock_movements,
             \A v \in Workers : flushed[v] # NoMovement =>
                 flushed'[v] = flushed[v] /\ req'[v] = req[v]
      PROVE  Known(i, value)'
  BY <1>1 DEF Known, Committed, Coming
<1>2. ASSUME NEW w \in Workers, Start(w) \/ TakeItem(w) PROVE Known(i, value)'
  <2>1. flushed[w] = NoMovement
    BY <1>0, <1>2, NothingFlushed DEF Start, PlaceOrder, ReadOrder, StartAdjust, TakeItem,
                               FlushMovement, FindTooLittle, FlushFails, LockItem, ItemRowFree
  <2>2. stock_movements' = stock_movements
    BY <1>2 DEF Start, PlaceOrder, ReadOrder, StartAdjust, TakeItem,
                FlushMovement, FindTooLittle, FlushFails, LockItem, db
  <2>3. \A v \in Workers \ {w} : flushed'[v] = flushed[v] /\ req'[v] = req[v]
    BY <1>0, <1>2 DEF TypeOK, Start, PlaceOrder, ReadOrder, StartAdjust, TakeItem,
                      FlushMovement, FindTooLittle, FlushFails, LockItem
  <2> QED
    BY <1>1, <2>1, <2>2, <2>3
<1>3. ASSUME NEW w \in Workers, WriteCache(w) \/ WriteOrder(w) PROVE Known(i, value)'
  <2>1. stock_movements' = stock_movements /\ flushed' = flushed /\ req' = req
    BY <1>3 DEF WriteCache, SetCache, SetCacheFails, WriteOrder, TransitionStatus,
                TransitionConflicts, db
  <2> QED
    BY <1>1, <2>1
<1>4. ASSUME NEW w \in Workers, Commit(w) PROVE Known(i, value)'
  BY <1>4, CommitKnown
<1>5. ASSUME NEW w \in Workers, Rollback(w) PROVE Known(i, value)'
  <2>1. flushed[w] = NoMovement /\ stock_movements' = stock_movements
    BY <1>0, <1>5 DEF WillCommit, Rollback, db
  <2>2. \A v \in Workers \ {w} : flushed'[v] = flushed[v] /\ req'[v] = req[v]
    BY <1>0, <1>5 DEF TypeOK, Rollback, Release
  <2> QED
    BY <1>1, <2>1, <2>2
<1>6. ASSUME NEW w \in Workers, Abort(w) PROVE FALSE
  BY <1>6 DEF Faultless, Abort
<1>7. CASE (\E j \in Items : Expire(j)) \/ UNCHANGED vars
  <2>1. stock_movements' = stock_movements /\ flushed' = flushed /\ req' = req
    BY <1>7 DEF Expire, vars, db, tx
  <2> QED
    BY <1>1, <2>1
<1> QED
  BY <1>2, <1>3, <1>4, <1>5, <1>6, <1>7 DEF Next, EndRequest

\* What is written to the cache, kept back by a timeout, read by a GET or put into
\* its session has an origin.
LEMMA OriginsStay ==
    ASSUME Faultless, ReadersInv, Origins, [ReadersNext]_allvars
    PROVE  Origins'
<1>0. /\ TypeInv /\ TypeOK /\ ReadersOK /\ \A w \in Workers : WillCommit(w)
      /\ \A r \in Readers : ReaderOf(r)
  BY DEF ReadersInv, PendingInv, TypeInv, Origins
<1>1. ASSUME NEW w \in Workers, pc[w] = "cache"
      PROVE  flushed[w].stock_after \in known[req[w].item]
  BY <1>0, <1>1, CachedStock DEF known, Known, Coming
<1>2. ASSUME [Next]_vars
      PROVE  /\ \A w \in Workers : WillCommit(w)'
             /\ \A i \in Items : known[i] \subseteq known'[i]
             /\ \A i \in Items : cache'[i] # NoValue => cache'[i] \in known'[i]
  <2>1. \A i \in Items : known[i] \subseteq known'[i]
    <3>1. \A i \in Items : \A value \in Stock : Known(i, value) => Known(i, value)'
      BY <1>2, KnownStays
    <3> QED
      BY <3>1 DEF known
  <2>2. ASSUME NEW i \in Items, cache'[i] # NoValue PROVE cache'[i] \in known[i]
    <3>1. CASE cache'[i] = cache[i]
      BY <2>2, <3>1 DEF Origins
    <3>2. ASSUME NEW w \in Workers, SetCache(w), cache'[i] # cache[i]
          PROVE  cache'[i] \in known[i]
      <4>1. req[w].item = i /\ cache'[i] = flushed[w].stock_after
        BY <1>0, <3>2, CachedStock DEF TypeOK, SetCache, WrittenThrough
      <4> QED
        BY <1>1, <3>2, <4>1 DEF SetCache
    <3>3. ASSUME NEW j \in Items, Expire(j) PROVE cache'[i] = cache[i]
      BY <1>0, <2>2, <3>3 DEF TypeOK, Expire
    <3>4. \/ cache' = cache \/ \E w \in Workers : SetCache(w)
          \/ \E j \in Items : Expire(j)
      BY <1>2 DEF Next, Start, PlaceOrder, ReadOrder, StartAdjust, TakeItem, FlushMovement,
                  FindTooLittle, FlushFails, LockItem, WriteCache, SetCacheFails, WriteOrder,
                  TransitionStatus, TransitionConflicts, EndRequest, Commit, Rollback, Abort,
                  vars
    <3> QED
      BY <3>1, <3>2, <3>3, <3>4
  <2> QED
    BY <1>2, <2>1, <2>2, WillCommitStays
<1>3. ASSUME vars' = vars
      PROVE  known' = known /\ cache' = cache /\ \A w \in Workers : WillCommit(w)'
  BY <1>0, <1>3 DEF vars, known, Known, Committed, Coming, WillCommit, Commits
<1>4. CASE [Next]_vars /\ UNCHANGED rvars
  <2>1. \A r \in Readers : (seen[r] # NoValue \/ dirty[r] # NoValue) => asked[r] \in Items
    BY <1>0 DEF ReaderOf
  <2> QED
    BY <1>2, <1>4, <2>1 DEF rvars, Origins
<1>5. ASSUME NEW r \in Readers, NEW i \in Items, GetCached(r, i) PROVE Origins'
  <2>1. known' = known /\ cache' = cache /\ late' = late
        /\ \A w \in Workers : WillCommit(w)'
    BY <1>3, <1>5 DEF GetCached
  <2>2. /\ asked'[r] = i /\ dirty' = dirty /\ dirty[r] = NoValue
        /\ seen'[r] \in {cache[i], NoValue}
    BY <1>0, <1>5 DEF ReadersOK, ReaderOf, GetCached
  <2>3. \A q \in Readers \ {r} : asked'[q] = asked[q] /\ seen'[q] = seen[q]
    BY <1>0, <1>5 DEF ReadersOK, GetCached
  <2> QED
    BY <2>1, <2>2, <2>3 DEF Origins
<1>6. ASSUME NEW r \in Readers, ReadItem(r) PROVE Origins'
  <2>1. known' = known /\ cache' = cache /\ late' = late
        /\ \A w \in Workers : WillCommit(w)'
    BY <1>3, <1>6 DEF ReadItem
  <2>2. /\ asked' = asked /\ seen' = seen /\ dirty'[r] \in {seen[r], NoValue}
        /\ \A q \in Readers \ {r} : dirty'[q] = dirty[q]
    BY <1>0, <1>6 DEF ReadersOK, ReadItem, Injected
  <2> QED
    BY <2>1, <2>2 DEF Origins
<1>7. ASSUME NEW r \in Readers, EndRead(r) PROVE Origins'
  <2>1. /\ stock_movements' = stock_movements /\ flushed' = flushed /\ req' = req
        /\ pc' = pc /\ outcome' = outcome /\ cache' = cache /\ late' = late
    BY <1>7 DEF EndRead, tx
  <2>2. known' = known
    BY <2>1 DEF known, Known, Committed, Coming
  <2>3. \A w \in Workers : WillCommit(w)'
    BY <1>0, <2>1 DEF WillCommit, Commits
  <2>4. /\ seen'[r] = NoValue /\ dirty'[r] = NoValue
        /\ \A q \in Readers \ {r} : /\ asked'[q] = asked[q] /\ seen'[q] = seen[q]
                                     /\ dirty'[q] = dirty[q]
    BY <1>0, <1>7 DEF ReadersOK, EndRead
  <2> QED
    BY <2>1, <2>2, <2>3, <2>4 DEF Origins
<1>8. ASSUME NEW w \in Workers, SetCacheTimesOut(w) PROVE Origins'
  <2>1. /\ \A v \in Workers : WillCommit(v)'
        /\ \A i \in Items : known[i] \subseteq known'[i]
        /\ \A i \in Items : cache'[i] # NoValue => cache'[i] \in known'[i]
    BY <1>2, <1>8, TimeoutIsNext
  <2>2. \A i \in Items : late'[i] \subseteq known[i]
    BY <1>0, <1>1, <1>8, CachedStock
    DEF ReadersOK, SetCacheTimesOut, SetCacheFails, Origins
  <2>3. \A r \in Readers : (seen[r] # NoValue \/ dirty[r] # NoValue) => asked[r] \in Items
    BY <1>0 DEF ReaderOf
  <2>4. asked' = asked /\ seen' = seen /\ dirty' = dirty
    BY <1>8 DEF SetCacheTimesOut
  <2> QED
    BY <2>1, <2>2, <2>3, <2>4 DEF Origins
<1>9. ASSUME NEW i \in Items, LateWrite(i) PROVE Origins'
  <2>1. /\ db' = db /\ tx' = tx
        /\ asked' = asked /\ seen' = seen /\ dirty' = dirty
    BY <1>9 DEF LateWrite
  <2>2. known' = known
    BY <2>1 DEF db, tx, known, Known, Committed, Coming
  <2>3. \A w \in Workers : WillCommit(w)'
    BY <1>0, <2>1 DEF tx, WillCommit, Commits
  <2>4. \A j \in Items : /\ late'[j] \subseteq late[j]
                         /\ cache'[j] = cache[j] \/ cache'[j] \in late[j]
    BY <1>0, <1>9 DEF TypeOK, ReadersOK, LateWrite
  <2> QED
    BY <2>1, <2>2, <2>3, <2>4 DEF Origins
<1> QED
  BY <1>4, <1>5, <1>6, <1>7, <1>8, <1>9 DEF ReadersNext, ReadStep, allvars

\* On a row that nobody holds, what is known is committed.
LEMMA FreeRowCommitted ==
    ASSUME ReadersInv, NEW i \in Items, itemLock[i] = NoWorker, NEW value \in known[i]
    PROVE  Committed(i, value)
<1>1. ~ Coming(i, value)
  BY NoWorkerAssumption DEF ReadersInv, PendingInv, PendingOf, Coming
<1> QED
  BY <1>1 DEF known, Known

\* Where requests do not die, Redis holds stocks that items have had: a command
\* may be executed at any time later, the stock it carries was committed anyhow.
THEOREM CachedStockWasTrue ==
    ASSUME Aborts = FALSE, OnHttpError = "commit"
    PROVE  ReadersSpec => []CacheWasTrue
<1>0. Faultless
  BY DEF Faultless
<1>1. ReadersInv /\ Origins /\ [ReadersNext]_allvars => (ReadersInv /\ Origins)'
  BY <1>0, NextReadersInv, OriginsStay
<1>2. ReadersInv /\ Origins => CacheWasTrue
  BY FreeRowCommitted DEF Origins, CacheWasTrue, Committed
<1> QED
  BY <1>1, <1>2, InitReadersInv, InitOrigins, PTL DEF ReadersSpec

\* And a GET restores no stock that the item never had, although it takes it from
\* a cache that is ahead of the database.
THEOREM WrittenBackWasTrue ==
    ASSUME Aborts = FALSE, OnHttpError = "commit"
    PROVE  ReadersSpec => WriteBackWasTrue
<1>0. Faultless
  BY DEF Faultless
<1>1. ReadersInv /\ Origins /\ [ReadersNext]_allvars => (ReadersInv /\ Origins)'
  BY <1>0, NextReadersInv, OriginsStay
<1>2. ASSUME ReadersInv, Origins, NEW r \in Readers, NEW i \in Items,
             EndRead(r), menu_items'[i] # menu_items[i]
      PROVE  \E k \in 1..Len(stock_movements[i]) :
                 stock_movements[i][k].stock_after = menu_items'[i].stock_quantity
  <2>1. menu_items \in [Items -> [stock_quantity : Stock, version : Nat]]
    BY <1>2 DEF ReadersInv, PendingInv, TypeInv, TypeOK
  <2>2. /\ dirty[r] # NoValue /\ asked[r] = i /\ itemLock[i] = NoWorker
        /\ menu_items'[i].stock_quantity = dirty[r]
    BY <1>2, <2>1 DEF EndRead, UpdateMayRun
  <2>3. dirty[r] \in known[i]
    BY <1>2, <2>2 DEF Origins
  <2> QED
    BY <1>2, <2>2, <2>3, FreeRowCommitted DEF Committed
<1>3. ReadersInv /\ Origins =>
          [\A i \in Items, r \in Readers :
               EndRead(r) /\ menu_items'[i] # menu_items[i] =>
                   \E k \in 1..Len(stock_movements[i]) :
                       stock_movements[i][k].stock_after
                           = menu_items'[i].stock_quantity]_allvars
  BY <1>2
<1> QED
  BY <1>1, <1>3, InitReadersInv, InitOrigins, PTL DEF ReadersSpec, WriteBackWasTrue
=============================================================================
