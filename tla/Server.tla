------------------------------- MODULE Server -------------------------------
(***************************************************************************)
(* The life of the server process around POST /items: the container's      *)
(* entrypoint with its migration, the check of the schema at startup, the  *)
(* drain and the disposal at shutdown, and the restart.                    *)
(*                                                                         *)
(* A killed process leaves its transactions to PostgreSQL, which notices   *)
(* one dead connection after the other while the next process starts.      *)
(***************************************************************************)
EXTENDS ItemCatalog, Sequences

VARIABLES
    phase,            \* of the process: down, upgrading, validating, serving,
                      \* draining or disposed
    schema,           \* committed tables and indexes, and the revision in alembic_version
    ddl,              \* entries of Script executed in the open migration
    killed            \* requests that died, or whose process did

pvars == <<phase, schema, ddl, killed>>
svars == <<cvars, pvars>>

\* Revision 0001: the tables in the order of their foreign keys, their indexes, then
\* the stamp.
Script   == <<"menu_items", "orders", "stock_movements",
              "ix_orders_item_id", "ix_orders_status",
              "ix_stock_movements_item_id", "ix_stock_movements_order_id", "0001">>
Revision == "0001"
Migrated == {Script[k] : k \in 1..Len(Script)}

InFlight == {r \in Requests : pc[r] \notin {"new", "end"}}

\* The event loop of the process runs.
Up == phase \in {"serving", "draining"}

ServerInit ==
    /\ CatalogInit
    /\ phase = "down" /\ ddl = 0 /\ killed = {}
    /\ schema \in {{}, Migrated}

-----------------------------------------------------------------------------
(* Start.                                                                  *)

\* The container: alembic upgrade head, then uvicorn.
RunEntrypoint ==
    /\ phase = "down" /\ phase' = "upgrading"
    /\ UNCHANGED <<cvars, schema, ddl, killed>>

\* uvicorn started by hand, without the upgrade.
RunUvicorn ==
    /\ phase = "down" /\ phase' = "validating"
    /\ UNCHANGED <<cvars, schema, ddl, killed>>

StatementCommits ==        \* mutant: every statement commits itself
    /\ phase = "upgrading" /\ Revision \notin schema
    /\ \E k \in 1..Len(Script) :
           /\ Script[k] \notin schema /\ k = ddl + 1
           /\ schema' = schema \cup {Script[k]}
           /\ ddl' = k
    /\ UNCHANGED <<cvars, phase, killed>>

\* CREATE TABLE or INDEX, which fails on one that exists, or the stamp.
RunStatement ==
    /\ phase = "upgrading" /\ Revision \notin schema
    /\ ddl < Len(Script) /\ Script[ddl + 1] \notin schema
    /\ ddl' = ddl + 1
    /\ UNCHANGED <<cvars, phase, schema, killed>>

\* context.begin_transaction ends; nothing was to do when the revision is there.
CommitUpgrade ==
    /\ phase = "upgrading" /\ phase' = "validating"
    /\ Revision \in schema \/ ddl = Len(Script)
    /\ schema' = schema \cup {Script[k] : k \in 1..ddl}
    /\ ddl' = 0
    /\ UNCHANGED <<cvars, killed>>

NoValidation ==          \* mutant: the server starts on any schema
    /\ phase = "validating" /\ phase' = "serving"
    /\ UNCHANGED <<cvars, schema, ddl, killed>>

\* _validate_migrations compares revisions; it does not look at the tables.
Validate ==
    /\ phase = "validating" /\ Revision \in schema
    /\ phase' = "serving"
    /\ UNCHANGED <<cvars, schema, ddl, killed>>

RefuseToStart ==
    /\ phase = "validating" /\ Revision \notin schema
    /\ phase' = "down"
    /\ UNCHANGED <<cvars, schema, ddl, killed>>

\* The database is away, or the upgrade raises: the entrypoint ends.
StartupFails ==
    /\ Aborts /\ phase \in {"upgrading", "validating"}
    /\ phase' = "down" /\ ddl' = 0
    /\ UNCHANGED <<cvars, schema, killed>>

-----------------------------------------------------------------------------
(* Stop.                                                                   *)

\* SIGTERM: no request is accepted any more.
Shutdown ==
    /\ phase = "serving" /\ phase' = "draining"
    /\ UNCHANGED <<cvars, schema, ddl, killed>>

CloseUnderRequests ==    \* mutant: the engine goes while requests use it
    /\ phase = "draining" /\ phase' = "disposed"
    /\ pc' = [r \in Requests |-> IF r \in InFlight THEN "end" ELSE pc[r]]
    /\ connected' = {}
    /\ UNCHANGED <<menu_items, stock_movements, cache, answer, schema, ddl, killed>>

\* uvicorn waits for its tasks, exit code of get_db included; the lifespan goes on
\* with close_engine.
CloseEngine ==
    /\ phase = "draining" /\ InFlight \subseteq killed
    /\ phase' = "disposed"
    /\ UNCHANGED <<cvars, schema, ddl, killed>>

\* close_redis, and the process ends.
CloseRedis ==
    /\ phase = "disposed" /\ phase' = "down"
    /\ UNCHANGED <<cvars, schema, ddl, killed>>

\* The process is killed, at any point.  The migration is rolled back; a request
\* keeps its transaction, though no place in a pool, until the database notices.
Crash ==
    /\ phase # "down" /\ LosePool
    /\ phase' = "down" /\ ddl' = 0
    /\ killed' = killed \cup InFlight
    /\ UNCHANGED schema

-----------------------------------------------------------------------------
(* Requests.                                                               *)

Accept(r) ==
    /\ phase = "serving" /\ Enter(r)
    /\ UNCHANGED pvars

Work(r) ==
    /\ Up /\ r \notin killed
    /\ Create(r) \/ Fail(r)
    /\ UNCHANGED pvars

GiveUp(r) ==
    /\ Up /\ r \notin killed /\ PoolTimeout(r)
    /\ UNCHANGED pvars

\* One request dies and the process goes on.
Cancel(r) ==
    /\ Up /\ r \notin killed /\ Abort(r)
    /\ killed' = killed \cup {r}
    /\ UNCHANGED <<phase, schema, ddl>>

\* PostgreSQL rolls back the transaction of a process that is gone.
ConnectionLost(r) ==
    /\ r \in killed /\ Abort(r)
    /\ UNCHANGED pvars

Boot == \/ RunEntrypoint \/ RunStatement \/ CommitUpgrade \/ Validate \/ RefuseToStart
        \/ CloseEngine \/ CloseRedis

ServerNext ==
    \/ Boot \/ RunUvicorn \/ StartupFails \/ Shutdown \/ Crash
    \/ \E r \in Requests : \/ Accept(r) \/ Work(r) \/ GiveUp(r)
                           \/ Cancel(r) \/ ConnectionLost(r)

ServerSpec == ServerInit /\ [][ServerNext]_svars

\* The container is restarted and its scripts run; the pool and the index serve
\* those who wait in the order they came; dead connections are noticed.
FairServerSpec ==
    /\ ServerSpec
    /\ WF_svars(Boot)
    /\ \A r \in Requests : SF_svars(Work(r)) /\ WF_svars(ConnectionLost(r))

-----------------------------------------------------------------------------
(* Properties.                                                             *)

\* A server that takes requests has all its tables and indexes: the startup check reads only
\* the stamp, and the stamp comes and goes with the tables, whatever was killed.
ServesOnlyMigrated == Up => schema = Migrated

\* A creation answered with 201 is in the database when it is over, or it was
\* killed between its answer and its commit.  A shutdown is no reason to lose it.
AcknowledgedIsKept ==
    \A r \in Requests : pc[r] = "end" /\ answer[r] = "201" => r \in menu_items \cup killed

\* Once nothing kills it and nobody starts it by hand, the server comes back from
\* any state it was left in, half a migration included, and from every shutdown.
Disturbed == Crash \/ StartupFails \/ RunUvicorn
ServesAgain == <>[][~ Disturbed]_svars => []<>(phase = "serving")
=============================================================================
