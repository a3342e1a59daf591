---------------------------- MODULE ItemCatalog ----------------------------
(***************************************************************************)
(* POST /items: the API key, ItemService.create_item, the unique index on  *)
(* names, the session that a failed flush leaves behind, the connection    *)
(* pool, and the response that goes out before the commit.                 *)
(*                                                                         *)
(* A request creates one item, and stands for its uuid.  The end of a      *)
(* create is the state in which OrderService finds an item.                *)
(***************************************************************************)
EXTENDS Naturals, FiniteSets

CONSTANTS
    Requests,
    Names, name,      \* [Requests -> Names], the name asked for
    Oversized,        \* requests whose stock_quantity is no INTEGER
    RequireAuth,      \* settings.require_auth
    key,              \* [Requests -> "none", "wrong" or "valid"], the X-API-Key
    PoolSize,         \* connections: pool_size + max_overflow
    Aborts            \* whether requests may die

ASSUME CatalogAssumption ==
    /\ name \in [Requests -> Names]
    /\ Oversized \subseteq Requests
    /\ PoolSize \in Nat \ {0}
    /\ {RequireAuth, Aborts} \subseteq BOOLEAN
    /\ key \in [Requests -> {"none", "wrong", "valid"}]

VARIABLES
    menu_items,       \* committed items
    stock_movements,  \* items whose opening movement is committed
    cache,            \* items whose stock is in Redis
    pc,               \* where a request is
    connected,        \* requests that hold a connection of the pool
    answer            \* what the client is told: a status code, or "none"

cvars == <<menu_items, stock_movements, cache, pc, connected, answer>>

Steps == {"new", "admitted", "begun", "inserted", "opened", "returned", "answered",
          "duplicate", "failed", "end"}

\* Where the INSERT is flushed and not committed.
Uncommitted == {"inserted", "opened", "returned", "answered"}

\* Types; the engine never opens more connections than pool_size + max_overflow.
CatalogOK ==
    /\ menu_items \subseteq Requests /\ stock_movements \subseteq Requests
    /\ cache \subseteq Requests
    /\ pc \in [Requests -> Steps]
    /\ connected \subseteq Requests /\ Cardinality(connected) <= PoolSize
    /\ answer \in [Requests -> {"none", "201", "401", "403", "409", "500"}]

CatalogInit ==
    /\ menu_items = {} /\ stock_movements = {} /\ cache = {} /\ connected = {}
    /\ pc = [r \in Requests |-> "new"]
    /\ answer = [r \in Requests |-> "none"]

Step(r, from, to) == pc[r] = from /\ pc' = [pc EXCEPT ![r] = to]
Tell(r, status)   == answer' = [answer EXCEPT ![r] = status]

-----------------------------------------------------------------------------
\* ApiKeyMiddleware: a POST to /items is a write and no public path.
Verdict(r) == IF ~ RequireAuth \/ key[r] = "valid" THEN "pass"
              ELSE IF key[r] = "none" THEN "401" ELSE "403"

Admit(r) ==
    /\ Step(r, "new", "admitted")
    /\ Verdict(r) = "pass"
    /\ UNCHANGED <<menu_items, stock_movements, cache, connected, answer>>

\* Answered by the middleware: no session, no connection.
Refuse(r) ==
    /\ Step(r, "new", "end")
    /\ Verdict(r) # "pass"
    /\ Tell(r, Verdict(r))
    /\ UNCHANGED <<menu_items, stock_movements, cache, connected>>

ConnectAnyway(r) ==      \* mutant: a pool without limit
    /\ Step(r, "admitted", "begun")
    /\ connected' = connected \cup {r}
    /\ UNCHANGED <<menu_items, stock_movements, cache, answer>>

\* The first statement takes a connection from the pool and begins.
Connect(r) ==
    /\ Step(r, "admitted", "begun")
    /\ Cardinality(connected) < PoolSize
    /\ connected' = connected \cup {r}
    /\ UNCHANGED <<menu_items, stock_movements, cache, answer>>

\* No connection within pool_timeout: the session has nothing to roll back.
PoolTimeout(r) ==
    /\ Step(r, "admitted", "failed")
    /\ Cardinality(connected) = PoolSize
    /\ UNCHANGED <<menu_items, stock_movements, cache, connected, answer>>

\* The unique index: a committed name is taken; an uncommitted one of another
\* transaction makes the INSERT wait for the end of that transaction.
Taken(n) == \E s \in menu_items : name[s] = n
NeverPending(n) == FALSE                 \* mutant: looks for the name, then inserts
Pending(n) == \E s \in Requests : name[s] = n /\ pc[s] \in Uncommitted

\* create: the flush of the item.
Insert(r) ==
    /\ Step(r, "begun", "inserted")
    /\ r \notin Oversized /\ ~ Taken(name[r]) /\ ~ Pending(name[r])
    /\ UNCHANGED <<menu_items, stock_movements, cache, connected, answer>>

\* IntegrityError: the failed flush rolls the transaction back and leaves the
\* session unusable until someone calls rollback.  The router raises a 409.
InsertDuplicate(r) ==
    /\ Step(r, "begun", "duplicate")
    /\ r \notin Oversized /\ Taken(name[r])
    /\ UNCHANGED <<menu_items, stock_movements, cache, connected, answer>>

\* A value that no INTEGER holds: the driver refuses it and no router catches it.
InsertFails(r) ==
    /\ Step(r, "begun", "failed")
    /\ r \in Oversized
    /\ UNCHANGED <<menu_items, stock_movements, cache, connected, answer>>

\* create_movement: the flush of the opening movement.
OpenLedger(r) ==
    /\ Step(r, "inserted", "opened")
    /\ UNCHANGED <<menu_items, stock_movements, cache, connected, answer>>

\* set_stock, which never raises.
PrimeCache(r) ==
    /\ Step(r, "opened", "returned")
    /\ cache' \in {cache, cache \cup {r}}
    /\ UNCHANGED <<menu_items, stock_movements, connected, answer>>

\* The response goes out before the exit code of get_db.
AnswerCreated(r) ==
    /\ Step(r, "returned", "answered")
    /\ Tell(r, "201")
    /\ UNCHANGED <<menu_items, stock_movements, cache, connected>>

Commit(r) ==
    /\ Step(r, "answered", "end")
    /\ menu_items' = menu_items \cup {r}
    /\ stock_movements' = stock_movements \cup {r}
    /\ connected' = connected \ {r}
    /\ UNCHANGED <<cache, answer>>

\* get_db meets the HTTPException and commits a session that can only be rolled
\* back: the PendingRollbackError takes the place of the 409.
CommitDuplicate(r) ==
    /\ Step(r, "duplicate", "end")
    /\ Tell(r, "500")
    /\ connected' = connected \ {r}
    /\ UNCHANGED <<menu_items, stock_movements, cache>>

Rollback(r) ==
    /\ Step(r, "failed", "end")
    /\ Tell(r, "500")
    /\ connected' = connected \ {r}
    /\ UNCHANGED <<menu_items, stock_movements, cache>>

LeakConnection(r) ==     \* mutant: the session is not closed
    /\ Aborts /\ pc[r] \notin {"new", "end"}
    /\ pc' = [pc EXCEPT ![r] = "end"]
    /\ answer' = [answer EXCEPT ![r] = IF @ = "none" THEN "500" ELSE @]
    /\ UNCHANGED <<menu_items, stock_movements, cache, connected>>

KeepItem(r) ==           \* mutant: create() commits the item on its own
    /\ Aborts /\ pc[r] \notin {"new", "end"}
    /\ pc' = [pc EXCEPT ![r] = "end"]
    /\ answer' = [answer EXCEPT ![r] = IF @ = "none" THEN "500" ELSE @]
    /\ connected' = connected \ {r}
    /\ menu_items' = menu_items \cup (IF pc[r] \in {"inserted", "opened"} THEN {r} ELSE {})
    /\ UNCHANGED <<stock_movements, cache>>

\* The request dies: the database rolls back; Redis and the answer stay.
Abort(r) ==
    /\ Aborts /\ pc[r] \notin {"new", "end"}
    /\ pc' = [pc EXCEPT ![r] = "end"]
    /\ answer' = [answer EXCEPT ![r] = IF @ = "none" THEN "500" ELSE @]
    /\ connected' = connected \ {r}
    /\ UNCHANGED <<menu_items, stock_movements, cache>>

\* A process is gone and its pool with it.  Until the database notices, the INSERTs
\* of its requests stay in the index; Server says who goes on.
LosePool ==
    /\ Aborts
    /\ connected' = {}
    /\ UNCHANGED <<menu_items, stock_movements, cache, pc, answer>>

-----------------------------------------------------------------------------
Enter(r)  == Admit(r) \/ Refuse(r)
Create(r) == Connect(r) \/ Insert(r) \/ OpenLedger(r) \/ PrimeCache(r)
             \/ AnswerCreated(r) \/ Commit(r)
Fail(r)   == InsertDuplicate(r) \/ CommitDuplicate(r) \/ InsertFails(r) \/ Rollback(r)

Handle(r) == Enter(r) \/ Create(r) \/ Fail(r) \/ PoolTimeout(r)

CatalogNext == LosePool \/ \E r \in Requests : Handle(r) \/ Abort(r)

CatalogSpec == CatalogInit /\ [][CatalogNext]_cvars

-----------------------------------------------------------------------------
(* Properties.                                                             *)

\* One item to a name, however many requests insert it at once.
UniqueNames == \A r, s \in menu_items : name[r] = name[s] => r = s

\* An item and its opening movement exist together, as OrderService assumes, and
\* a request that was not told 201 has left neither.
OpeningMovement ==
    /\ menu_items = stock_movements
    /\ \A r \in menu_items : answer[r] = "201"

\* Every request that is admitted ends and gives its connection back, although the
\* waiters of the index keep theirs and requests and whole processes die anywhere.
EveryCreateEnds ==
    <>[] (connected = {} /\ \A r \in Requests : pc[r] \in {"new", "end"})

\* Where nobody dies and connections suffice, a valid create that does not get its
\* name is a duplicate, and is answered with 409.
DuplicateIs409 ==
    \A r \in Requests \ Oversized :
        pc[r] = "end" /\ Verdict(r) = "pass" /\ r \notin menu_items => answer[r] = "409"
=============================================================================
