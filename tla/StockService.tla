---------------------------- MODULE StockService ----------------------------
(***************************************************************************)
(* GET /stock/{item_id} beside the write paths of OrderService.            *)
(*                                                                         *)
(* get_stock asks the cache, reads the item row, and on a hit assigns the  *)
(* cached quantity to the attribute of the row object, which belongs to    *)
(* the session.  get_db commits every request, and the commit flushes an   *)
(* attribute that differs from the value read: the reader then updates     *)
(* menu_items, without a version and without a movement.                   *)
(*                                                                         *)
(* The client of Redis gives a command up after socket_timeout.  What was  *)
(* sent before may still be executed, over the value of a newer request.   *)
(***************************************************************************)
EXTENDS OrderService

CONSTANT Readers         \* GET requests that may be in flight at once
CONSTANT GetCap          \* bound: how many GETs are made
ASSUME GetAssumption == GetCap \in Nat

VARIABLES
    rpc,                 \* where a reader is: idle, cached, read
    asked,               \* the item it asks for, or NoItem
    seen,                \* the quantity it got from the cache, or NoValue
    dirty,               \* the quantity its session will flush, or NoValue
    gets,                \* GETs made so far
    late                 \* values of SETEX commands given up and not yet lost

rvars   == <<rpc, asked, seen, dirty, gets, late>>
allvars == <<vars, rvars>>

ReadersOK ==
    /\ rpc \in [Readers -> {"idle", "cached", "read"}]
    /\ asked \in [Readers -> Items \cup {NoItem}]
    /\ seen \in [Readers -> Stock \cup {NoValue}]
    /\ dirty \in [Readers -> Stock \cup {NoValue}]
    /\ gets \in 0..GetCap
    /\ late \in [Items -> SUBSET Stock]

\* Types beside readers; what a GET writes back is a stock the column holds.
ReadersTypeOK == TypeOK /\ ReadersOK

ReadersInit ==
    /\ Init
    /\ rpc = [r \in Readers |-> "idle"]
    /\ asked = [r \in Readers |-> NoItem]
    /\ seen = [r \in Readers |-> NoValue]
    /\ dirty = [r \in Readers |-> NoValue]
    /\ gets = 0
    /\ late = [i \in Items |-> {}]

-----------------------------------------------------------------------------
\* CacheService.get_stock: a hit, or None on a miss, when disabled or on error.
GetCached(r, i) ==
    /\ rpc[r] = "idle" /\ gets < GetCap
    /\ gets' = gets + 1
    /\ rpc' = [rpc EXCEPT ![r] = "cached"]
    /\ asked' = [asked EXCEPT ![r] = i]
    /\ \/ seen' = [seen EXCEPT ![r] = IF EnableCache THEN cache[i] ELSE NoValue]
       \/ RedisFails /\ UNCHANGED seen
    /\ UNCHANGED <<vars, dirty, late>>

\* get_by_id, without a lock, then the assignment.  The ORM writes a column only
\* when its value is not the one loaded.
Injected(hit, stock) == IF hit = stock THEN NoValue ELSE hit

ReadItem(r) ==
    /\ rpc[r] = "cached"
    /\ dirty' = [dirty EXCEPT ![r] =
                     Injected(seen[r], menu_items[asked[r]].stock_quantity)]
    /\ rpc' = [rpc EXCEPT ![r] = "read"]
    /\ UNCHANGED <<vars, asked, seen, gets, late>>

\* The UPDATE of the flush waits for the holder of the row.  It does not wait for
\* the KEY SHARE of place_order.
WaitsForNobody(i) == TRUE                \* mutant: writes through the row lock
UpdateMayRun(i)   == itemLock[i] = NoWorker

EndRead(r) ==
    /\ rpc[r] = "read"
    /\ IF dirty[r] = NoValue
       THEN UNCHANGED menu_items
       ELSE /\ UpdateMayRun(asked[r])
            /\ menu_items' = [menu_items EXCEPT ![asked[r]].stock_quantity = dirty[r]]
    /\ rpc' = [rpc EXCEPT ![r] = "idle"]
    /\ asked' = [asked EXCEPT ![r] = NoItem]
    /\ seen' = [seen EXCEPT ![r] = NoValue]
    /\ dirty' = [dirty EXCEPT ![r] = NoValue]
    /\ UNCHANGED <<orders, stock_movements, cache, itemLock, tx, gets, late>>

ReadStep(r) == (\E i \in Items : GetCached(r, i)) \/ ReadItem(r) \/ EndRead(r)

-----------------------------------------------------------------------------
\* The timeout of set_stock's SETEX is one of the exceptions it swallows, but the
\* command is on its way to Redis.
SetCacheTimesOut(w) ==
    /\ SetCacheFails(w)
    /\ late' = [late EXCEPT ![req[w].item] = @ \cup {flushed[w].stock_after}]
    /\ UNCHANGED <<rpc, asked, seen, dirty, gets>>

LateWrite(i) ==
    /\ \E value \in late[i] :
           /\ cache' = [cache EXCEPT ![i] = value]
           /\ late' = [late EXCEPT ![i] = @ \ {value}]
    /\ UNCHANGED <<db, itemLock, tx, rpc, asked, seen, dirty, gets>>

ReadersNext == \/ Next /\ UNCHANGED rvars
               \/ \E r \in Readers : ReadStep(r)
               \/ \E w \in Workers : SetCacheTimesOut(w)
               \/ \E i \in Items : LateWrite(i)

ReadersSpec == ReadersInit /\ [][ReadersNext]_allvars

-----------------------------------------------------------------------------
\* The stock a GET writes back is at least one the item has had: the SETEX of a
\* request comes before its COMMIT, but the reader's UPDATE waits for the row,
\* so the value is committed by the time it is written.
WriteBackWasTrue ==
    [][\A i \in Items, r \in Readers :
           EndRead(r) /\ menu_items'[i] # menu_items[i] =>
               \E k \in 1..Len(stock_movements[i]) :
                   stock_movements[i][k].stock_after = menu_items'[i].stock_quantity]_allvars

\* Nothing but such a GET separates the item row from the audit trail.
OnlyReadersBreakLedger ==
    [][Ledger /\ ~ Ledger' => \E r \in Readers : EndRead(r) /\ dirty[r] # NoValue]_allvars

\* Where requests do not die, a cached stock is one the item has had, however late
\* it was written: whoever sends a SETEX holds the row until that stock commits.
CacheWasTrue ==
    \A i \in Items : cache[i] # NoValue /\ itemLock[i] = NoWorker =>
        \E k \in 1..Len(stock_movements[i]) : stock_movements[i][k].stock_after = cache[i]
=============================================================================
