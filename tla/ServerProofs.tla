---------------------------- MODULE ServerProofs ----------------------------
(***************************************************************************)
(* The catalog and the server around it, for any number of requests, names *)
(* and connections, with requests dying anywhere.                          *)
(*                                                                         *)
(* The catalog: names are unique and items have their opening movement.    *)
(* UniqueNames alone is not inductive: a commit adds an item whose INSERT  *)
(* was checked long before.  The index is what bridges the time between:   *)
(* as long as an INSERT is not committed, nobody has or inserts its name.  *)
(*                                                                         *)
(* The server: restarts, crashes and migrations add nothing to what the    *)
(* catalog may do, a server that takes requests is migrated, and what it   *)
(* acknowledges it keeps.  ServesOnlyMigrated is not inductive: the        *)
(* startup check looks at the stamp alone, so the stamp must imply the     *)
(* tables in every state.                                                  *)
(***************************************************************************)
EXTENDS Server, FiniteSetTheorems, TLAPS

-----------------------------------------------------------------------------
(* The catalog.                                                            *)

Types ==
    /\ menu_items \subseteq Requests
    /\ pc \in [Requests -> Steps]
    /\ answer \in [Requests -> {"none", "201", "401", "403", "409", "500"}]

\* The entry of an uncommitted INSERT in the index.
Reserved ==
    \A r \in Requests : pc[r] \in Uncommitted =>
        /\ \A s \in menu_items : name[s] # name[r]
        /\ \A s \in Requests : pc[s] \in Uncommitted /\ name[s] = name[r] => s = r

\* What is committed was answered with 201 and is over.
Settled ==
    /\ \A r \in menu_items : pc[r] = "end"
    /\ \A r \in Requests : pc[r] = "answered" => answer[r] = "201"

CatalogInv == Types /\ Reserved /\ Settled /\ UniqueNames /\ OpeningMovement

\* A fresh catalog has all of it: create_item has not run.
LEMMA CatalogStart == CatalogInit => CatalogInv
BY DEF CatalogInit, CatalogInv, Types, Steps, Reserved, Uncommitted, Settled,
       UniqueNames, OpeningMovement

\* Steps that commit nothing: they take an INSERT into the index only when the name
\* is free (Insert), or move along, or end.
LEMMA CatalogQuiet ==
    ASSUME CatalogInv, NEW r \in Requests,
           Admit(r) \/ Refuse(r) \/ Connect(r) \/ PoolTimeout(r) \/ InsertDuplicate(r) \/ InsertFails(r)
           \/ OpenLedger(r) \/ PrimeCache(r) \/ AnswerCreated(r)
           \/ CommitDuplicate(r) \/ Rollback(r) \/ Abort(r)
    PROVE  CatalogInv'
<1> USE DEF CatalogInv, Types, Steps
<1>1. /\ UNCHANGED <<menu_items, stock_movements>>
      /\ pc' \in [Requests -> Steps]
      /\ \A s \in Requests \ {r} : pc'[s] = pc[s] /\ answer'[s] = answer[s]
      /\ pc[r] # "end"
  BY DEF Admit, Refuse, Verdict, Connect, PoolTimeout, InsertDuplicate, InsertFails, OpenLedger, PrimeCache,
         AnswerCreated, CommitDuplicate, Rollback, Abort, Step, Tell
<1>2. answer' \in [Requests -> {"none", "201", "401", "403", "409", "500"}]
  BY DEF Admit, Refuse, Verdict, Connect, PoolTimeout, InsertDuplicate, InsertFails, OpenLedger, PrimeCache,
         AnswerCreated, CommitDuplicate, Rollback, Abort, Step, Tell
<1>3. pc'[r] \in Uncommitted => pc[r] \in Uncommitted
  BY DEF Admit, Refuse, Verdict, Connect, PoolTimeout, InsertDuplicate, InsertFails, OpenLedger, PrimeCache,
         AnswerCreated, CommitDuplicate, Rollback, Abort, Step, Tell, Uncommitted
<1>4. pc'[r] = "answered" => answer'[r] = "201"
  BY DEF Admit, Refuse, Verdict, Connect, PoolTimeout, InsertDuplicate, InsertFails, OpenLedger, PrimeCache,
         AnswerCreated, CommitDuplicate, Rollback, Abort, Step, Tell
<1>5. Types' BY <1>1, <1>2
<1>6. Reserved'
  <2>1. \A s \in Requests : pc'[s] \in Uncommitted => pc[s] \in Uncommitted
    BY <1>1, <1>3
  <2> QED BY <1>1, <2>1 DEF Reserved
<1>7. r \notin menu_items BY <1>1 DEF Settled
<1>8. Settled' BY <1>1, <1>4, <1>7 DEF Settled
<1>9. UniqueNames' BY <1>1 DEF UniqueNames
<1>10. OpeningMovement' BY <1>1, <1>7 DEF OpeningMovement
<1> QED BY <1>5, <1>6, <1>8, <1>9, <1>10

\* An INSERT passes only when nobody has or inserts the name.
LEMMA CatalogInsert ==
    ASSUME CatalogInv, NEW r \in Requests, Insert(r)
    PROVE  CatalogInv'
<1> USE DEF CatalogInv, Types
<1>1. /\ UNCHANGED <<menu_items, stock_movements, answer>>
      /\ pc[r] = "begun" /\ pc' = [pc EXCEPT ![r] = "inserted"]
  BY DEF Insert, Step
<1>2. /\ \A s \in menu_items : name[s] # name[r]
      /\ \A s \in Requests : pc[s] \in Uncommitted => name[s] # name[r]
  BY DEF Insert, Taken, Pending
<1>3. Types' BY <1>1 DEF Steps
<1>4. Reserved'
  <2>1. \A s \in Requests : pc'[s] \in Uncommitted <=> s = r \/ pc[s] \in Uncommitted
    BY <1>1 DEF Uncommitted
  <2> QED BY <1>1, <1>2, <2>1 DEF Reserved
<1>5. Settled' BY <1>1 DEF Settled
<1>6. UniqueNames' /\ OpeningMovement' BY <1>1 DEF UniqueNames, OpeningMovement
<1> QED BY <1>3, <1>4, <1>5, <1>6

\* A commit makes its entry of the index permanent.
LEMMA CatalogCommit ==
    ASSUME CatalogInv, NEW r \in Requests, Commit(r)
    PROVE  CatalogInv'
<1> USE DEF CatalogInv, Types
<1>1. /\ menu_items' = menu_items \cup {r}
      /\ stock_movements' = stock_movements \cup {r}
      /\ pc[r] = "answered" /\ pc' = [pc EXCEPT ![r] = "end"]
      /\ answer' = answer
  BY DEF Commit, Step
<1>2. /\ pc[r] \in Uncommitted
      /\ \A s \in Requests : pc'[s] \in Uncommitted <=> s # r /\ pc[s] \in Uncommitted
  BY <1>1 DEF Uncommitted
<1>3. \A s \in menu_items : name[s] # name[r] BY <1>2 DEF Reserved
<1>4. Types' BY <1>1 DEF Steps
<1>5. Reserved' BY <1>1, <1>2 DEF Reserved
<1>6. Settled' BY <1>1 DEF Settled
<1>7. UniqueNames' BY <1>1, <1>3 DEF UniqueNames
<1>8. OpeningMovement' BY <1>1 DEF OpeningMovement, Settled
<1> QED BY <1>4, <1>5, <1>6, <1>7, <1>8

\* Every step of create_item and get_db keeps the invariant: only Insert enters the
\* index, only Commit leaves it for the table.
LEMMA CatalogStep == CatalogInv /\ [CatalogNext]_cvars => CatalogInv'
<1> SUFFICES ASSUME CatalogInv, [CatalogNext]_cvars PROVE CatalogInv'
  OBVIOUS
<1>1. ASSUME NEW r \in Requests, Handle(r) \/ Abort(r) PROVE CatalogInv'
  BY <1>1, CatalogQuiet, CatalogInsert, CatalogCommit DEF Handle, Enter, Create, Fail
<1>2. CASE LosePool \/ UNCHANGED cvars
  BY <1>2 DEF LosePool, cvars, CatalogInv, Types, Reserved, Settled, UniqueNames,
              OpeningMovement
<1> QED BY <1>1, <1>2 DEF CatalogNext

\* The unique index keeps names unique however many create_item requests race for
\* one name (items.py, uq_menu_items_name).
THEOREM NamesStayUnique == CatalogSpec => []UniqueNames
<1>1. CatalogInv => UniqueNames BY DEF CatalogInv
<1> QED BY CatalogStart, CatalogStep, <1>1, PTL DEF CatalogSpec

\* create_item leaves an item with its opening movement or nothing at all: the
\* state in which OrderService starts, for every item.
THEOREM ItemsOpenWithMovement == CatalogSpec => []OpeningMovement
<1>1. CatalogInv => OpeningMovement BY DEF CatalogInv
<1> QED BY CatalogStart, CatalogStep, <1>1, PTL DEF CatalogSpec

-----------------------------------------------------------------------------
\* The pool: finitely many connections are out, no more than there are.
PoolInv == CatalogOK /\ IsFiniteSet(connected)

\* Only Connect takes a connection, and it looks at the pool first.
LEMMA PoolStep == PoolInv /\ [CatalogNext]_cvars => PoolInv'
<1> SUFFICES ASSUME PoolInv, [CatalogNext]_cvars PROVE PoolInv'
  OBVIOUS
<1> USE DEF PoolInv, CatalogOK, Steps
<1>1. ASSUME NEW r \in Requests, Connect(r) PROVE PoolInv'
  <2>1. /\ connected' = connected \cup {r} /\ Cardinality(connected) < PoolSize
        /\ UNCHANGED <<menu_items, stock_movements, cache, answer>>
        /\ pc' \in [Requests -> Steps]
    BY <1>1 DEF Connect, Step
  <2>2. /\ IsFiniteSet(connected')
        /\ Cardinality(connected') \in {Cardinality(connected), Cardinality(connected) + 1}
    BY <2>1, FS_AddElement
  <2>3. Cardinality(connected') <= PoolSize
    BY <2>1, <2>2, FS_CardinalityType, CatalogAssumption DEF CatalogAssumption
  <2> QED BY <2>1, <2>2, <2>3
<1>2. ASSUME NEW r \in Requests,
             Admit(r) \/ Refuse(r) \/ PoolTimeout(r) \/ Insert(r) \/ InsertDuplicate(r)
             \/ InsertFails(r) \/ OpenLedger(r) \/ PrimeCache(r) \/ AnswerCreated(r)
             \/ Commit(r) \/ CommitDuplicate(r) \/ Rollback(r) \/ Abort(r)
      PROVE  PoolInv'
  <2>1. /\ menu_items' \subseteq Requests /\ stock_movements' \subseteq Requests
        /\ cache' \subseteq Requests
        /\ pc' \in [Requests -> Steps]
    BY <1>2 DEF Admit, Refuse, PoolTimeout, Insert, InsertDuplicate, InsertFails,
                OpenLedger, PrimeCache, AnswerCreated, Commit, CommitDuplicate,
                Rollback, Abort, Step
  <2>2. answer' \in [Requests -> {"none", "201", "401", "403", "409", "500"}]
    BY <1>2 DEF Admit, Refuse, PoolTimeout, Insert, InsertDuplicate, InsertFails,
                OpenLedger, PrimeCache, AnswerCreated, Commit, CommitDuplicate,
                Rollback, Abort, Tell, Verdict
  <2>3. connected' = connected \/ connected' = connected \ {r}
    BY <1>2 DEF Admit, Refuse, PoolTimeout, Insert, InsertDuplicate, InsertFails,
                OpenLedger, PrimeCache, AnswerCreated, Commit, CommitDuplicate,
                Rollback, Abort
  <2>4. /\ IsFiniteSet(connected')
        /\ Cardinality(connected') \in {Cardinality(connected), Cardinality(connected) - 1}
    BY <2>3, FS_RemoveElement
  <2>5. connected' \subseteq Requests /\ Cardinality(connected') <= PoolSize
    BY <2>3, <2>4, FS_CardinalityType, CatalogAssumption DEF CatalogAssumption
  <2> QED BY <2>1, <2>2, <2>4, <2>5
<1>3. CASE UNCHANGED cvars
  BY <1>3 DEF cvars
<1>4. CASE LosePool
  BY <1>4, FS_EmptySet, CatalogAssumption DEF LosePool, CatalogAssumption
<1> QED BY <1>1, <1>2, <1>3, <1>4 DEF CatalogNext, Handle, Enter, Create, Fail

\* The engine never has more connections out than pool_size and max_overflow allow
\* (session.py), for any number of requests, and the catalog is well typed.
THEOREM PoolIsBounded == CatalogSpec => []CatalogOK
<1>1. CatalogInit => PoolInv
  <2>1. IsFiniteSet({}) /\ Cardinality({}) = 0 BY FS_EmptySet
  <2> QED BY <2>1, CatalogAssumption
          DEF CatalogInit, PoolInv, CatalogOK, Steps, CatalogAssumption
<1>2. PoolInv => CatalogOK BY DEF PoolInv
<1> QED BY <1>1, <1>2, PoolStep, PTL DEF CatalogSpec

-----------------------------------------------------------------------------
(* The server.                                                             *)

\* The stamp vouches for the tables, and only a migrated database is served.
SchemaInv ==
    /\ ddl \in 0..8
    /\ Revision \in schema => schema = Migrated
    /\ schema \subseteq Migrated
    /\ Up => Revision \in schema

\* Who was told 201 is about to commit, has committed, or was killed.
AnswerInv ==
    \A r \in Requests : answer[r] = "201" =>
        pc[r] = "answered" \/ (pc[r] = "end" /\ r \in menu_items \cup killed)

-----------------------------------------------------------------------------
\* Every step of the server is one of the catalog or leaves it alone.
LEMMA ServerStepIsCatalogStep == [ServerNext]_svars => [CatalogNext]_cvars
<1> SUFFICES ASSUME [ServerNext]_svars PROVE [CatalogNext]_cvars
  OBVIOUS
<1>1. CASE Boot \/ RunUvicorn \/ StartupFails \/ Shutdown \/ Crash
  BY <1>1 DEF Boot, RunEntrypoint, RunStatement, CommitUpgrade, Validate, RefuseToStart,
              CloseEngine, CloseRedis, RunUvicorn, StartupFails, Shutdown, Crash,
              CatalogNext
<1>2. ASSUME NEW r \in Requests,
             Accept(r) \/ Work(r) \/ GiveUp(r) \/ Cancel(r) \/ ConnectionLost(r)
      PROVE  CatalogNext
  BY <1>2 DEF Accept, Work, GiveUp, Cancel, ConnectionLost, CatalogNext, Handle
<1>3. CASE UNCHANGED svars
  BY <1>3 DEF svars
<1> QED BY <1>1, <1>2, <1>3 DEF ServerNext

\* create_item and get_db keep their promises across crashes and restarts: the
\* server implements the catalog.
THEOREM ServerImplementsCatalog == ServerSpec => CatalogSpec
<1>1. ServerInit => CatalogInit BY DEF ServerInit
<1> QED BY <1>1, ServerStepIsCatalogStep, PTL DEF ServerSpec, CatalogSpec

\* Names stay unique although the INSERT of a killed process is still pending while
\* the next process serves the same name.
THEOREM NamesSurviveRestarts == ServerSpec => []UniqueNames
BY ServerImplementsCatalog, NamesStayUnique

-----------------------------------------------------------------------------
\* A script of eight statements, the last of which is the stamp.
LEMMA WholeScript ==
    /\ Len(Script) = 8 /\ Script[8] = Revision
    /\ Migrated = {Script[k] : k \in 1..8}
<1>1. Len(Script) = 8 /\ Script[8] = Revision BY DEF Script, Revision
<1> QED BY <1>1 DEF Migrated

\* Steps that leave the database schema and the open migration alone, and either
\* the phase too or take it to where nothing is served, or pass the check.
LEMMA SchemaKept ==
    ASSUME SchemaInv, UNCHANGED schema, ddl' \in 0..8,
           Up' => Up \/ Revision \in schema
    PROVE  SchemaInv'
BY DEF SchemaInv

\* Tables and stamp arrive in one commit (alembic's transaction), and serving
\* starts behind the check (_validate_migrations).
LEMMA SchemaStep == SchemaInv /\ [ServerNext]_svars => SchemaInv'
<1> SUFFICES ASSUME SchemaInv, [ServerNext]_svars PROVE SchemaInv'
  OBVIOUS
<1>0. Len(Script) = 8 BY WholeScript
<1>1. CASE CommitUpgrade
  <2>1. ddl' = 0 /\ ~ Up' BY <1>1 DEF CommitUpgrade, Up
  <2>2. \A k \in 1..8 : Script[k] \in Migrated BY WholeScript
  <2>3. schema' = Migrated
    <3>1. CASE Revision \in schema
      <4>1. schema = Migrated /\ schema' = schema \cup {Script[k] : k \in 1..ddl}
        BY <1>1, <3>1 DEF SchemaInv, CommitUpgrade
      <4> QED BY <2>2, <4>1 DEF SchemaInv
    <3>2. CASE ddl = 8
      BY <1>1, <3>2, WholeScript DEF CommitUpgrade, SchemaInv
    <3> QED BY <1>0, <1>1, <3>1, <3>2 DEF CommitUpgrade
  <2> QED BY <2>1, <2>3 DEF SchemaInv
<1>2. CASE RunStatement
  BY <1>0, <1>2, SchemaKept DEF RunStatement, SchemaInv, Up
<1>3. CASE Validate
  BY <1>3, SchemaKept DEF Validate, SchemaInv, Up
<1>4. CASE \/ RunEntrypoint \/ RefuseToStart \/ CloseEngine \/ CloseRedis
           \/ RunUvicorn \/ StartupFails \/ Shutdown \/ Crash
  <2>1. UNCHANGED schema /\ ddl' \in 0..8
    BY <1>4 DEF RunEntrypoint, RefuseToStart, CloseEngine, CloseRedis, RunUvicorn,
                StartupFails, Shutdown, Crash, SchemaInv
  <2>2. Up' => Up
    BY <1>4 DEF RunEntrypoint, RefuseToStart, CloseEngine, CloseRedis, RunUvicorn,
                StartupFails, Shutdown, Crash, Up
  <2> QED BY <2>1, <2>2, SchemaKept
<1>5. ASSUME NEW r \in Requests,
             Accept(r) \/ Work(r) \/ GiveUp(r) \/ Cancel(r) \/ ConnectionLost(r)
      PROVE  SchemaInv'
  <2>1. UNCHANGED <<phase, schema, ddl>>
    BY <1>5 DEF Accept, Work, GiveUp, Cancel, ConnectionLost, pvars
  <2> QED BY <2>1, SchemaKept DEF SchemaInv, Up
<1>6. CASE UNCHANGED svars
  BY <1>6, SchemaKept DEF svars, pvars, SchemaInv, Up
<1> QED BY <1>1, <1>2, <1>3, <1>4, <1>5, <1>6 DEF ServerNext, Boot

\* A process that takes requests works on the schema of revision 0001, whatever
\* was killed in the middle of a migration before (main.py, _validate_migrations).
THEOREM OnlyMigratedIsServed == ServerSpec => []ServesOnlyMigrated
<1>1. ServerInit => SchemaInv
  BY DEF ServerInit, SchemaInv, Migrated, Revision, Up
<1>2. SchemaInv => ServesOnlyMigrated
  BY DEF SchemaInv, ServesOnlyMigrated
<1> QED BY <1>1, <1>2, SchemaStep, PTL DEF ServerSpec

-----------------------------------------------------------------------------
\* A step of one request: only AnswerCreated tells it 201, after which it commits or
\* is killed.
LEMMA AnswerOfOne ==
    ASSUME Types, AnswerInv, NEW r \in Requests,
           Accept(r) \/ Work(r) \/ GiveUp(r) \/ Cancel(r) \/ ConnectionLost(r)
    PROVE  AnswerInv'
<1> USE DEF Types, Steps
<1>1. /\ menu_items \subseteq menu_items' /\ killed \subseteq killed'
      /\ \A s \in Requests \ {r} : pc'[s] = pc[s] /\ answer'[s] = answer[s]
  BY DEF Accept, Work, GiveUp, Cancel, ConnectionLost, pvars, Enter, Create, Fail,
         Admit, Refuse, Connect, PoolTimeout, Insert, InsertDuplicate, InsertFails,
         OpenLedger, PrimeCache, AnswerCreated, Commit, CommitDuplicate, Rollback,
         Abort, Step, Tell
<1>2. answer'[r] = "201" =>
          pc'[r] = "answered" \/ (pc'[r] = "end" /\ r \in menu_items' \cup killed')
  <2>1. CASE Cancel(r) \/ ConnectionLost(r)
    BY <2>1 DEF Cancel, ConnectionLost, Abort, pvars
  <2>2. CASE AnswerCreated(r)
    BY <2>2 DEF AnswerCreated, Step
  <2>3. CASE Commit(r)
    BY <2>3 DEF Commit, Step
  <2>4. CASE Accept(r)
    BY <2>4 DEF AnswerInv, Accept, Enter, Admit, Refuse, Verdict, Step, Tell
  <2>5. CASE Connect(r) \/ Insert(r) \/ OpenLedger(r) \/ PrimeCache(r) \/ PoolTimeout(r)
             \/ InsertDuplicate(r) \/ InsertFails(r)
    BY <2>5 DEF AnswerInv, Connect, Insert, OpenLedger, PrimeCache, PoolTimeout,
                InsertDuplicate, InsertFails, Step
  <2>6. CASE CommitDuplicate(r) \/ Rollback(r)
    BY <2>6 DEF CommitDuplicate, Rollback, Tell
  <2> QED BY <2>1, <2>2, <2>3, <2>4, <2>5, <2>6 DEF Work, GiveUp, Create, Fail
<1> QED BY <1>1, <1>2 DEF AnswerInv

\* Nothing the process does as a whole ends a request or forgets one killed: neither
\* a shutdown, which waits, nor a crash, which counts whom it kills.
LEMMA AnswerStep == CatalogInv /\ AnswerInv /\ [ServerNext]_svars => AnswerInv'
<1> SUFFICES ASSUME CatalogInv, AnswerInv, [ServerNext]_svars PROVE AnswerInv'
  OBVIOUS
<1>1. Types BY DEF CatalogInv
<1>2. CASE Boot \/ RunUvicorn \/ StartupFails \/ Shutdown \/ Crash \/ UNCHANGED svars
  <2>1. UNCHANGED <<menu_items, pc, answer>> /\ killed \subseteq killed'
    BY <1>2 DEF Boot, RunEntrypoint, RunStatement, CommitUpgrade, Validate, RefuseToStart,
                CloseEngine, CloseRedis, RunUvicorn, StartupFails, Shutdown, Crash,
                svars, pvars, cvars, LosePool
  <2> QED BY <2>1 DEF AnswerInv
<1> QED BY <1>1, <1>2, AnswerOfOne DEF ServerNext

\* A 201 of create_item is kept through shutdowns and restarts; only a request that
\* was killed between its answer and the commit of get_db (session.py) loses it.
THEOREM AcknowledgedSurvives == ServerSpec => []AcknowledgedIsKept
<1>1. ServerInit => CatalogInv /\ AnswerInv
  BY CatalogStart DEF ServerInit, CatalogInit, AnswerInv
<1>2. CatalogInv /\ AnswerInv /\ [ServerNext]_svars => (CatalogInv /\ AnswerInv)'
  BY AnswerStep, ServerStepIsCatalogStep, CatalogStep
<1>3. AnswerInv => AcknowledgedIsKept
  BY DEF AnswerInv, AcknowledgedIsKept
<1> QED BY <1>1, <1>2, <1>3, PTL DEF ServerSpec
=============================================================================
