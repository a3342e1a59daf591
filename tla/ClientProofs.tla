---------------------------- MODULE ClientProofs ----------------------------
(***************************************************************************)
(* Whatever scripts clients run and whenever they are answered, the        *)
(* service stays the one of OrderService: its theorems hold beside them.   *)
(* Then what clients can rely on: one answer to each call, and an answered *)
(* success that is in effect, or all that its open transaction will        *)
(* commit, whatever has become of the transactions of other clients.       *)
(***************************************************************************)
EXTENDS OrderClient, InventoryProofs

Answers == {"none", "ok", "refused", "insufficient", "conflict", "error"}

\* That the answers are sequences is what makes the next call of a script a call.
ClientInv == TypeInv /\ answers \in [Clients -> Seq(Answers)]

\* A client starts with no answer and the service in its initial state.
LEMMA ClientStart == ClientInit => ClientInv
BY InitTypeInv DEF ClientInit, ClientInv

\* The call of an unfinished script names an operation and an order.
LEMMA TurnIsCall ==
    ASSUME ClientInv, NEW c \in Clients, ~ Finished(c)
    PROVE  Turn(c) \in Calls
<1>1. Len(answers[c]) \in Nat /\ Len(Script[c]) \in Nat /\ Script[c] \in Seq(Calls)
  BY ScriptAssumption DEF ClientInv
<1>2. Len(answers[c]) + 1 \in 1..Len(Script[c]) BY <1>1 DEF Finished
<1> QED BY <1>1, <1>2 DEF Turn

\* A client only chooses which request starts next; an answer before the commit
\* does not touch the service.
LEMMA ClientStep == ClientInv /\ [ClientNext]_clientvars => [Next]_vars
<1> SUFFICES ASSUME ClientInv, [ClientNext]_clientvars PROVE [Next]_vars
  OBVIOUS
<1>1. ASSUME NEW c \in Clients, Send(c) PROVE Next
  <2>1. PICK w \in Workers : Arrive(w, Turn(c)) BY <1>1 DEF Send
  <2>2. Turn(c) \in Calls BY <1>1, TurnIsCall DEF Send
  <2>3. Turn(c).order \in Orders /\ (Turn(c).op # "place" => Turn(c).op \in OrderOps)
    BY <2>2 DEF Calls
  <2>4. Start(w) BY <2>1, <2>3 DEF Arrive, Start
  <2> QED BY <2>4 DEF Next
<1>2. ASSUME NEW c \in Clients, AnswerSuccess(c) PROVE UNCHANGED vars
  BY <1>2 DEF AnswerSuccess
<1>3. ASSUME NEW w \in Workers, Handle(w) PROVE Next
  BY <1>3 DEF Handle, Next
<1>4. ASSUME NEW w \in Workers, Finish(w) PROVE Next
  BY <1>4 DEF Finish, Next
<1>5. CASE UNCHANGED clientvars BY <1>5 DEF clientvars
<1> QED BY <1>1, <1>2, <1>3, <1>4, <1>5 DEF ClientNext

\* Answers are only appended: each client's stay a sequence.
LEMMA AnswersGrow ==
    ASSUME ClientInv, [ClientNext]_clientvars
    PROVE  answers' \in [Clients -> Seq(Answers)]
<1> USE DEF ClientInv
<1>1. ASSUME NEW c \in Clients, AnswerSuccess(c) PROVE answers' \in [Clients -> Seq(Answers)]
  <2>1. Append(answers[c], "ok") \in Seq(Answers) BY DEF Answers
  <2> QED BY <1>1, <2>1 DEF AnswerSuccess
<1>2. ASSUME NEW w \in Workers, Finish(w) PROVE answers' \in [Clients -> Seq(Answers)]
  <2>1. outcome[w] \in Answers BY DEF TypeInv, TypeOK, Answers
  <2>2. \A c \in Clients : Append(answers[c], outcome[w]) \in Seq(Answers) BY <2>1
  <2> QED BY <1>2, <2>2 DEF Finish
<1>3. ASSUME NEW c \in Clients, Send(c) PROVE UNCHANGED answers BY <1>3 DEF Send
<1>4. ASSUME NEW w \in Workers, Handle(w) PROVE UNCHANGED answers BY <1>4 DEF Handle, cvars
<1>5. CASE UNCHANGED clientvars BY <1>5 DEF clientvars, cvars
<1> QED BY <1>1, <1>2, <1>3, <1>4, <1>5 DEF ClientNext

\* The service beside its clients is OrderService (get_db and the routers do not
\* depend on who calls).
THEOREM ClientsImplementService == ClientSpec => Spec
<1>1. ClientInv /\ [ClientNext]_clientvars => ClientInv'
  BY ClientStep, NextTypeInv, AnswersGrow DEF ClientInv
<1>2. ClientInit => Init BY DEF ClientInit
<1> QED BY ClientStart, ClientStep, <1>1, <1>2, PTL DEF ClientSpec, Spec

\* Answering before the commit shows clients a state that is behind, but the audit
\* trail, the lifecycle and what stock and orders promise together hold at every moment.
THEOREM ClientsKeepPromises == ClientSpec => []Ledger /\ LifecycleSpec /\ LeakyInventorySpec
BY ClientsImplementService, LedgerHolds, ImplementsLifecycle, KeepsLeakyPromise, PTL

-----------------------------------------------------------------------------
(* Who waits for whom.                                                     *)

\* Who waits, waits for a request under way and has calls left to be answered.
WaitsOf(c) == waiting[c] # NoWorker =>
                  pc[waiting[c]] # "idle" /\ Len(answers[c]) < Len(Script[c])

WaitingInv == ClientInv /\ ClientsOK /\ \A c \in Clients : WaitsOf(c)

\* A request takes an idle worker, and only its end gives the worker back.
LEMMA WorkersStayBusy ==
    ASSUME TypeOK, NEW w \in Workers
    PROVE  /\ \A call \in Calls : Arrive(w, call) =>
                  pc[w] = "idle" /\ pc'[w] # "idle"
                  /\ \A v \in Workers \ {w} : pc'[v] = pc[v]
           /\ Handle(w) => \A v \in Workers : pc[v] # "idle" => pc'[v] # "idle"
           /\ EndRequest(w) => \A v \in Workers \ {w} : pc'[v] = pc[v]
<1>0. pc \in [Workers -> {"idle", "lock", "cache", "update", "done"}]
  BY DEF TypeOK
<1>1. ASSUME NEW call \in Calls, Arrive(w, call)
      PROVE  /\ pc[w] = "idle" /\ pc'[w] # "idle"
             /\ \A v \in Workers \ {w} : pc'[v] = pc[v]
  BY <1>0, <1>1 DEF Arrive, PlaceOrder, ReadOrder
<1>2. ASSUME Handle(w) PROVE \A v \in Workers : pc[v] # "idle" => pc'[v] # "idle"
  <2>1. pc' \in {[pc EXCEPT ![w] = "cache"], [pc EXCEPT ![w] = "update"],
                 [pc EXCEPT ![w] = "done"]}
    BY <1>2 DEF Handle, TakeItem, FlushMovement, FindTooLittle, FlushFails, WriteCache,
       SetCache, SetCacheFails, AfterCache, WriteOrder, TransitionStatus, TransitionConflicts
  <2> QED
    BY <1>0, <2>1
<1>3. ASSUME EndRequest(w) PROVE \A v \in Workers \ {w} : pc'[v] = pc[v]
  BY <1>0, <1>3 DEF EndRequest, Commit, Rollback, Release
<1> QED
  BY <1>1, <1>2, <1>3

\* A client that sends gets a worker nobody waits for.
LEMMA SendWaits ==
    ASSUME WaitingInv, TypeOK', NEW c \in Clients, Send(c)
    PROVE  ClientsOK' /\ \A d \in Clients : WaitsOf(d)'
<1>1. PICK w \in Workers : Arrive(w, Turn(c)) /\ waiting' = [waiting EXCEPT ![c] = w]
  BY DEF Send
<1>2. /\ waiting[c] = NoWorker /\ answers' = answers
      /\ TypeOK /\ waiting \in [Clients -> Workers \cup {NoWorker}]
      /\ Len(answers[c]) < Len(Script[c])
      /\ \A d \in Clients : Len(answers[d]) <= Len(Script[d])
  <2>1. Len(answers[c]) \in Nat /\ Len(Script[c]) \in Nat
    BY ScriptAssumption DEF WaitingInv, ClientInv
  <2> QED
    BY <2>1 DEF Send, WaitingInv, ClientsOK, Finished
<1>3. Turn(c) \in Calls
  BY TurnIsCall DEF Send, WaitingInv
<1>4. pc[w] = "idle" /\ pc'[w] # "idle" /\ \A v \in Workers \ {w} : pc'[v] = pc[v]
  BY <1>1, <1>2, <1>3, WorkersStayBusy
<1>5. \A d \in Clients \ {c} : waiting'[d] = waiting[d] /\ waiting[d] # w
  BY <1>1, <1>2, <1>4, NoWorkerAssumption DEF WaitingInv, WaitsOf
<1>6. waiting'[c] = w /\ w # NoWorker /\ waiting' \in [Clients -> Workers \cup {NoWorker}]
  BY <1>1, <1>2, NoWorkerAssumption
<1>7. \A d, e \in Clients : waiting'[d] = waiting'[e] /\ d # e => waiting'[d] = NoWorker
  BY <1>5, <1>6 DEF WaitingInv, ClientsOK
<1>8. ASSUME NEW d \in Clients PROVE WaitsOf(d)'
  BY <1>2, <1>4, <1>5, <1>6 DEF WaitingInv, WaitsOf
<1> QED
  BY <1>2, <1>6, <1>7, <1>8 DEF ClientsOK

\* An answer ends the wait of one client, before the commit or after it.
LEMMA AnswerWaits ==
    ASSUME WaitingInv, TypeOK', NEW A \in SUBSET Clients,
           \A c \in A : waiting[c] # NoWorker /\ waiting'[c] = NoWorker
                        /\ Len(answers'[c]) = Len(answers[c]) + 1,
           \A c \in Clients \ A : waiting'[c] = waiting[c] /\ answers'[c] = answers[c],
           waiting' \in [Clients -> Workers \cup {NoWorker}],
           \A c \in Clients \ A : waiting[c] # NoWorker => pc'[waiting[c]] # "idle"
    PROVE  ClientsOK' /\ \A d \in Clients : WaitsOf(d)'
<1>1. \A d, e \in Clients : waiting'[d] = waiting'[e] /\ d # e => waiting'[d] = NoWorker
  BY DEF WaitingInv, ClientsOK
<1>2. ASSUME NEW d \in Clients PROVE Len(answers'[d]) <= Len(Script[d])
  <2>1. Len(answers[d]) \in Nat /\ Len(Script[d]) \in Nat
    BY ScriptAssumption DEF WaitingInv, ClientInv
  <2>2. CASE d \in A
    BY <2>1, <2>2 DEF WaitingInv, WaitsOf
  <2>3. CASE d \notin A
    BY <2>3 DEF WaitingInv, ClientsOK
  <2> QED
    BY <2>2, <2>3
<1>3. ASSUME NEW d \in Clients PROVE WaitsOf(d)'
  BY DEF WaitingInv, WaitsOf
<1> QED
  BY <1>1, <1>2, <1>3 DEF ClientsOK

\* Every step keeps clients and the requests they wait for together.
LEMMA NextWaitingInv == WaitingInv /\ [ClientNext]_clientvars => WaitingInv'
<1> SUFFICES ASSUME WaitingInv, [ClientNext]_clientvars PROVE WaitingInv'
  OBVIOUS
<1>0. ClientInv' /\ TypeOK'
  BY ClientStep, NextTypeInv, AnswersGrow DEF WaitingInv, ClientInv, TypeInv
<1>1. /\ TypeOK /\ waiting \in [Clients -> Workers \cup {NoWorker}]
      /\ answers \in [Clients -> Seq(Answers)]
  BY DEF WaitingInv, ClientInv, ClientsOK
<1>2. ASSUME NEW c \in Clients, AnswerSuccess(c)
      PROVE  ClientsOK' /\ \A d \in Clients : WaitsOf(d)'
  <2>1. /\ waiting[c] # NoWorker /\ pc' = pc
        /\ answers' = [answers EXCEPT ![c] = Append(@, "ok")]
        /\ waiting' = [waiting EXCEPT ![c] = NoWorker]
    BY <1>2 DEF AnswerSuccess, vars
  <2>2. Len(answers'[c]) = Len(answers[c]) + 1 /\ waiting'[c] = NoWorker
    BY <1>1, <2>1
  <2>3. \A d \in Clients \ {c} : waiting'[d] = waiting[d] /\ answers'[d] = answers[d]
    BY <1>1, <2>1
  <2>4. \A d \in Clients : waiting[d] # NoWorker => pc'[waiting[d]] # "idle"
    BY <2>1 DEF WaitingInv, WaitsOf
  <2>5. waiting' \in [Clients -> Workers \cup {NoWorker}] /\ {c} \in SUBSET Clients
    BY <1>1, <2>1
  <2> QED
    BY <1>0, <2>1, <2>2, <2>3, <2>4, <2>5, AnswerWaits
<1>3. ASSUME NEW w \in Workers, Handle(w)
      PROVE  ClientsOK' /\ \A d \in Clients : WaitsOf(d)'
  <2>1. waiting' = waiting /\ answers' = answers
    BY <1>3 DEF Handle, cvars
  <2>2. \A d \in Clients : waiting[d] # NoWorker => pc'[waiting[d]] # "idle"
    BY <1>1, <1>3, WorkersStayBusy DEF WaitingInv, WaitsOf
  <2> QED
    BY <1>0, <2>1, <2>2 DEF WaitingInv, ClientsOK, WaitsOf
<1>4. ASSUME NEW w \in Workers, Finish(w)
      PROVE  ClientsOK' /\ \A d \in Clients : WaitsOf(d)'
  <2> DEFINE A == {c \in Clients : waiting[c] = w}
  <2>1. \A c \in A : /\ waiting[c] # NoWorker /\ waiting'[c] = NoWorker
                     /\ Len(answers'[c]) = Len(answers[c]) + 1
    BY <1>1, <1>4, NoWorkerAssumption DEF Finish
  <2>2. \A c \in Clients \ A : waiting'[c] = waiting[c] /\ answers'[c] = answers[c]
    BY <1>4 DEF Finish
  <2>3. \A c \in Clients \ A : waiting[c] # NoWorker => pc'[waiting[c]] # "idle"
    BY <1>1, <1>4, WorkersStayBusy DEF Finish, WaitingInv, WaitsOf
  <2>4. waiting' \in [Clients -> Workers \cup {NoWorker}] /\ A \in SUBSET Clients
    BY <1>1, <1>4 DEF Finish
  <2> HIDE DEF A
  <2> QED
    BY <1>0, <2>1, <2>2, <2>3, <2>4, AnswerWaits
<1>5. CASE UNCHANGED clientvars
  BY <1>0, <1>5 DEF clientvars, cvars, vars, WaitingInv, ClientsOK, WaitsOf
<1> QED
  BY <1>0, <1>2, <1>3, <1>4, <1>5, SendWaits DEF ClientNext, WaitingInv

\* Nobody waits initially.
LEMMA InitWaitingInv == ClientInit => WaitingInv
<1> SUFFICES ASSUME ClientInit PROVE WaitingInv
  OBVIOUS
<1>1. \A c \in Clients : Len(answers[c]) = 0 /\ Len(Script[c]) \in Nat
  BY ScriptAssumption DEF ClientInit
<1>2. ClientInv /\ TypeOK
  BY ClientStart DEF ClientInv, TypeInv
<1> QED
  BY <1>1, <1>2 DEF ClientInit, WaitingInv, ClientsOK, WaitsOf

\* However many clients share however many workers: each call gets one answer, and no
\* answer goes to two of them (transition of seed.py, the response of get_db's request).
THEOREM OneAnswerPerCall == ClientSpec => []ClientsOK
<1>1. ClientSpec => []WaitingInv
  BY InitWaitingInv, NextWaitingInv, PTL DEF ClientSpec
<1>2. WaitingInv => ClientsOK
  BY DEF WaitingInv
<1> QED
  BY <1>1, <1>2, PTL

-----------------------------------------------------------------------------
(* What a client has been told, and what is in the database.               *)

Unwaited(v) == \A c \in Clients : waiting[c] # v

\* A transaction that was answered and is not committed.
Shadow(v, o) == target[v] # "none" /\ req[v].order = o /\ Unwaited(v)

\* A request that nobody waits for any more has done all but its commit.
LeftOver == \A v \in Workers :
                pc[v] # "idle" /\ Unwaited(v) => pc[v] = "done" /\ outcome[v] = "ok"

\* The request that a client waits for is the call whose turn it is.
ServesOf(c) == waiting[c] # NoWorker => /\ req[waiting[c]].op = Turn(c).op
                                        /\ req[waiting[c]].order = Turn(c).order

\* Call k is the last one answered for its order, and every one of them went well.
LastOk(c, k) ==
    /\ k \in 1..Len(answers[c])
    /\ \A j \in 1..Len(answers[c]) :
           Script[c][j].order = Script[c][k].order => j <= k /\ answers[c][j] = "ok"

\* The effect of that call is committed, or it is all that its shadow will commit.
EffectOf(c, k) ==
    LastOk(c, k) =>
        /\ \A v \in Workers : Shadow(v, Script[c][k].order) =>
                                  target[v] = Achieves(Script[c][k])
        /\ \/ orders[Script[c][k].order].status = Achieves(Script[c][k])
           \/ \E v \in Workers : Shadow(v, Script[c][k].order)

EffectInv == /\ WaitingInv /\ InventoryInv /\ LeftOver
             /\ \A c \in Clients : ServesOf(c)
             /\ \A c \in Clients : \A k \in 1..Len(Script[c]) : EffectOf(c, k)

\* Types of a client that waits.
LEMMA WaitingTurn ==
    ASSUME WaitingInv, NEW c \in Clients, waiting[c] # NoWorker
    PROVE  /\ waiting[c] \in Workers /\ pc[waiting[c]] # "idle"
           /\ Turn(c) \in Calls /\ Turn(c) = Script[c][Len(answers[c]) + 1]
           /\ Len(answers[c]) \in Nat /\ Len(answers[c]) + 1 \in 1..Len(Script[c])
<1>1. Len(answers[c]) \in Nat /\ Len(Script[c]) \in Nat
  BY ScriptAssumption DEF WaitingInv, ClientInv
<1>2. Len(answers[c]) < Len(Script[c]) /\ pc[waiting[c]] # "idle"
  BY DEF WaitingInv, WaitsOf
<1>3. Turn(c) \in Calls
  BY <1>1, <1>2, TurnIsCall DEF WaitingInv, Finished
<1> QED
  BY <1>1, <1>2, <1>3 DEF WaitingInv, ClientsOK, Turn

\* A request that ends well has written what it achieves.
LEMMA OkHasWritten ==
    ASSUME InventoryInv, NEW w \in Workers, NEW call \in Calls, outcome[w] = "ok",
           req[w].op = call.op
    PROVE  target[w] = Achieves(call) /\ target[w] # "none"
<1>1. TaskOf(w) /\ VersionsOf(w) /\ call.op \in OrderOps \cup {"place"}
  BY DEF InventoryInv, TasksInv, VersionInv, Calls
<1>2. target[w] # "none"
  BY <1>1 DEF TaskOf, AnswerOf, OrderOps
<1>3. CASE call.op = "place"
  BY <1>1, <1>2, <1>3 DEF VersionsOf, WriteOf, Achieves
<1>4. CASE call.op # "place"
  BY <1>1, <1>2, <1>4 DEF TaskOf, AnswerOf, NewStatus, Achieves
<1> QED
  BY <1>2, <1>3, <1>4

\* The calls of a script name orders of the table.
LEMMA ScriptOrders ==
    ASSUME NEW c \in Clients, NEW k \in 1..Len(Script[c])
    PROVE  Script[c][k].order \in Orders
<1>1. Script[c] \in Seq(Calls)
  BY ScriptAssumption
<1>2. Script[c][k] \in Calls
  BY <1>1
<1> QED
  BY <1>2 DEF Calls

\* An effect stands while its order and its shadow do.
LEMMA EffectStands ==
    ASSUME NEW c \in Clients, NEW k \in 1..Len(Script[c]), EffectOf(c, k),
           LastOk(c, k)' => LastOk(c, k),
           NEW o, o = Script[c][k].order, orders'[o] = orders[o],
           \A v \in Workers : Shadow(v, o)' <=> Shadow(v, o),
           \A v \in Workers : Shadow(v, o) => target'[v] = target[v]
    PROVE  EffectOf(c, k)'
<1>1. ASSUME LastOk(c, k)
      PROVE  /\ \A v \in Workers : Shadow(v, o)' => target'[v] = Achieves(Script[c][k])
             /\ \/ orders'[o].status = Achieves(Script[c][k])
                \/ \E v \in Workers : Shadow(v, o)'
  BY <1>1 DEF EffectOf
<1> QED
  BY <1>1 DEF EffectOf, Shadow, Unwaited

\* The worker of a call that is sent casts no shadow.
LEMMA SendEffect ==
    ASSUME EffectInv, NEW e \in Clients, Send(e)
    PROVE  /\ LeftOver' /\ \A c \in Clients : ServesOf(c)'
           /\ \A c \in Clients : \A k \in 1..Len(Script[c]) : EffectOf(c, k)'
<1>1. PICK w \in Workers : Arrive(w, Turn(e)) /\ waiting' = [waiting EXCEPT ![e] = w]
  BY DEF Send
<1>2. /\ WaitingInv /\ TypeOK /\ ShapeOf(w) /\ waiting[e] = NoWorker /\ answers' = answers
      /\ waiting \in [Clients -> Workers \cup {NoWorker}] /\ Turn(e) \in Calls
  BY TurnIsCall DEF EffectInv, WaitingInv, ClientInv, ClientsOK, TypeInv, Shape, Send
<1>3. /\ pc[w] = "idle" /\ orders' = orders /\ req'[w] = OrderRequest(Turn(e).op, Turn(e).order)
      /\ \A v \in Workers \ {w} : /\ pc'[v] = pc[v] /\ target'[v] = target[v]
                                  /\ req'[v] = req[v] /\ outcome'[v] = outcome[v]
  BY <1>1, <1>2 DEF Arrive, PlaceOrder, ReadOrder, TypeOK, db
<1>4. target[w] = "none"
  BY <1>2, <1>3 DEF ShapeOf
<1>5. waiting'[e] = w /\ \A c \in Clients \ {e} : waiting'[c] = waiting[c] /\ waiting[c] # w
  BY <1>1, <1>2, <1>3, NoWorkerAssumption DEF WaitingInv, WaitsOf
<1>6. \A v \in Workers \ {w} : Unwaited(v)' <=> Unwaited(v)
  BY <1>2, <1>5, NoWorkerAssumption DEF Unwaited
<1>7. ~ Unwaited(w)'
  BY <1>5 DEF Unwaited
<1>8. LeftOver'
  BY <1>3, <1>6, <1>7 DEF EffectInv, LeftOver
<1>9. ASSUME NEW c \in Clients PROVE ServesOf(c)'
  <2>1. CASE c = e
    BY <1>2, <1>3, <1>5, <2>1 DEF ServesOf, OrderRequest, Turn
  <2>2. CASE c # e
    BY <1>2, <1>3, <1>5, <2>2 DEF EffectInv, ServesOf, Turn
  <2> QED
    BY <2>1, <2>2
<1>10. ASSUME NEW c \in Clients, NEW k \in 1..Len(Script[c]) PROVE EffectOf(c, k)'
  <2> PICK o : o = Script[c][k].order
    OBVIOUS
  <2>1. \A v \in Workers : Shadow(v, o)' <=> Shadow(v, o)
    BY <1>3, <1>4, <1>6, <1>7 DEF Shadow
  <2>2. \A v \in Workers : Shadow(v, o) => target'[v] = target[v]
    BY <1>3, <1>4 DEF Shadow
  <2>3. LastOk(c, k)' => LastOk(c, k)
    BY <1>2 DEF LastOk
  <2> QED
    BY <1>3, <2>1, <2>2, <2>3, EffectStands DEF EffectInv
<1> QED
  BY <1>8, <1>9, <1>10

\* A success that is answered becomes the effect of its order, before its commit.
LEMMA AnswerEffect ==
    ASSUME EffectInv, LegalScripts, NEW e \in Clients, AnswerSuccess(e)
    PROVE  /\ LeftOver' /\ \A c \in Clients : ServesOf(c)'
           /\ \A c \in Clients : \A k \in 1..Len(Script[c]) : EffectOf(c, k)'
<1> PICK w, n : w = waiting[e] /\ n = Len(answers[e]) + 1
  OBVIOUS
<1>1. /\ w # NoWorker /\ pc[w] = "done" /\ outcome[w] = "ok"
      /\ answers' = [answers EXCEPT ![e] = Append(@, "ok")]
      /\ waiting' = [waiting EXCEPT ![e] = NoWorker]
      /\ pc' = pc /\ outcome' = outcome /\ target' = target /\ req' = req /\ orders' = orders
  BY DEF AnswerSuccess, vars
<1>2. /\ WaitingInv /\ InventoryInv /\ OneWriter
      /\ waiting \in [Clients -> Workers \cup {NoWorker}]
      /\ answers \in [Clients -> Seq(Answers)]
      /\ \A c \in Clients : Len(Script[c]) \in Nat
  BY ScriptAssumption
     DEF EffectInv, WaitingInv, ClientInv, ClientsOK, InventoryInv, VersionInv
<1>3. /\ w \in Workers /\ Turn(e) \in Calls /\ Turn(e) = Script[e][n]
      /\ n - 1 \in Nat /\ n \in 1..Len(Script[e]) /\ n = Len(answers[e]) + 1
  BY <1>1, <1>2, WaitingTurn
<1>4. req[w].op = Turn(e).op /\ req[w].order = Script[e][n].order
  BY <1>1, <1>3 DEF EffectInv, ServesOf
<1>5. target[w] = Achieves(Script[e][n]) /\ target[w] # "none"
  BY <1>1, <1>2, <1>3, <1>4, OkHasWritten
<1>6. \A c \in Clients \ {e} : waiting'[c] = waiting[c] /\ answers'[c] = answers[c] /\ waiting[c] # w
  BY <1>1, <1>2 DEF WaitingInv, ClientsOK
<1>7. /\ waiting'[e] = NoWorker /\ Len(answers'[e]) = n /\ answers'[e][n] = "ok"
      /\ \A j \in 1..n - 1 : answers'[e][j] = answers[e][j]
  BY <1>1, <1>2, <1>3
<1>8. /\ Unwaited(w)' /\ ~ Unwaited(w)
      /\ \A v \in Workers \ {w} : Unwaited(v)' <=> Unwaited(v)
  BY <1>1, <1>3, <1>6, <1>7, NoWorkerAssumption DEF Unwaited
<1>9. LeftOver'
  BY <1>1, <1>8 DEF EffectInv, LeftOver
<1>10. ASSUME NEW c \in Clients PROVE ServesOf(c)'
  BY <1>1, <1>6, <1>7 DEF EffectInv, ServesOf, Turn
<1>11. ASSUME NEW c \in Clients, NEW k \in 1..Len(Script[c]),
              Script[c][k].order # Script[e][n].order
       PROVE  EffectOf(c, k)'
  <2> PICK o : o = Script[c][k].order
    OBVIOUS
  <2>1. \A v \in Workers : Shadow(v, o)' <=> Shadow(v, o)
    BY <1>1, <1>4, <1>8, <1>11 DEF Shadow
  <2>2. LastOk(c, k)' => LastOk(c, k)
    <3>1. CASE c # e
      BY <1>6, <3>1 DEF LastOk
    <3>2. ASSUME c = e, LastOk(c, k)' PROVE LastOk(c, k)
      <4>1. k \in 1..n /\ k # n
        BY <1>7, <1>11, <3>2 DEF LastOk
      <4>2. Len(answers[c]) = n - 1 /\ k \in 1..n - 1
        BY <1>3, <3>2, <4>1
      <4>3. \A j \in 1..n - 1 : j \in 1..Len(answers'[c]) /\ answers'[c][j] = answers[c][j]
        BY <1>3, <1>7, <3>2
      <4> QED
        BY <3>2, <4>2, <4>3 DEF LastOk
    <3> QED
      BY <3>1, <3>2
  <2> QED
    BY <1>1, <2>1, <2>2, EffectStands DEF EffectInv
<1>12. ASSUME NEW c \in Clients, NEW k \in 1..Len(Script[c]),
              Script[c][k].order = Script[e][n].order, LastOk(c, k)'
       PROVE  EffectOf(c, k)'
  <2> PICK o : o = Script[c][k].order
    OBVIOUS
  <2>1. c = e
    BY <1>3, <1>12 DEF LegalScripts
  <2>2. k = n
    BY <1>3, <1>7, <1>12, <2>1 DEF LastOk
  <2>3. \A v \in Workers : Shadow(v, o)' => v = w
    BY <1>1, <1>2, <1>3, <1>4, <1>5, <1>12 DEF Shadow, OneWriter
  <2>4. Shadow(w, o)'
    BY <1>1, <1>4, <1>5, <1>8, <1>12 DEF Shadow
  <2>5. \A v \in Workers : Shadow(v, o)' => target'[v] = Achieves(Script[c][k])
    BY <1>1, <1>5, <2>1, <2>2, <2>3
  <2> QED
    BY <1>3, <2>4, <2>5 DEF EffectOf, Shadow, Unwaited
<1>13. ASSUME NEW c \in Clients, NEW k \in 1..Len(Script[c]) PROVE EffectOf(c, k)'
  BY <1>11, <1>12 DEF EffectOf
<1> QED
  BY <1>9, <1>10, <1>13

\* A request at work is waited for: what it writes is no shadow yet.
LEMMA HandleEffect ==
    ASSUME EffectInv, NEW w \in Workers, Handle(w)
    PROVE  /\ LeftOver' /\ \A c \in Clients : ServesOf(c)'
           /\ \A c \in Clients : \A k \in 1..Len(Script[c]) : EffectOf(c, k)'
<1>1. /\ pc[w] \in {"lock", "cache", "update"}
      /\ waiting' = waiting /\ answers' = answers /\ req' = req /\ orders' = orders
      /\ TypeOK
  BY DEF Handle, cvars, TakeItem, FlushMovement, FindTooLittle, FlushFails, LockItem,
     WriteCache, SetCache, SetCacheFails, WriteOrder, TransitionStatus,
     TransitionConflicts, db, EffectInv, WaitingInv, ClientsOK
<1>2. \A v \in Workers \ {w} : /\ pc'[v] = pc[v] /\ target'[v] = target[v]
                               /\ outcome'[v] = outcome[v]
  BY <1>1 DEF Handle, TakeItem, FlushMovement, FindTooLittle, FlushFails, LockItem,
     WriteCache, SetCache, SetCacheFails, AfterCache, WriteOrder, TransitionStatus,
     TransitionConflicts, TypeOK
<1>3. ~ Unwaited(w) /\ \A v \in Workers : Unwaited(v)' <=> Unwaited(v)
  BY <1>1 DEF EffectInv, LeftOver, Unwaited
<1>4. LeftOver'
  BY <1>2, <1>3 DEF EffectInv, LeftOver
<1>5. ASSUME NEW c \in Clients PROVE ServesOf(c)'
  BY <1>1 DEF EffectInv, ServesOf, Turn
<1>6. ASSUME NEW c \in Clients, NEW k \in 1..Len(Script[c]) PROVE EffectOf(c, k)'
  <2> PICK o : o = Script[c][k].order
    OBVIOUS
  <2>1. \A v \in Workers : Shadow(v, o)' <=> Shadow(v, o)
    BY <1>1, <1>2, <1>3 DEF Shadow
  <2>2. \A v \in Workers : Shadow(v, o) => target'[v] = target[v]
    BY <1>2, <1>3 DEF Shadow
  <2>3. LastOk(c, k)' => LastOk(c, k)
    BY <1>1 DEF LastOk
  <2> QED
    BY <1>1, <2>1, <2>2, <2>3, EffectStands DEF EffectInv
<1> QED
  BY <1>4, <1>5, <1>6

\* The end of a request that nobody waits for commits the effect it was a shadow of.
LEMMA CommitEffect ==
    ASSUME EffectInv, NEW w \in Workers, Finish(w), Unwaited(w),
           NEW c \in Clients, NEW k \in 1..Len(Script[c])
    PROVE  EffectOf(c, k)'
<1> PICK o : o = Script[c][k].order
  OBVIOUS
<1>1. /\ TypeOK /\ Shape /\ VersionInv /\ OneWriter
      /\ orders \in [Orders -> OrderRows]
  BY DEF EffectInv, WaitingInv, ClientsOK, InventoryInv, VersionInv, TypeInv, TypeOK
<1>2. pc[w] = "done" /\ outcome[w] = "ok" /\ Commit(w)
  BY DEF EffectInv, LeftOver, Finish, EndRequest, Commit, Rollback, Commits
<1>3. waiting' = waiting /\ answers' = answers
  BY DEF Finish, Unwaited, EffectInv, WaitingInv, ClientInv, ClientsOK
<1>4. target'[w] = "none" /\ \A v \in Workers \ {w} : target'[v] = target[v] /\ req'[v] = req[v]
  BY <1>1, <1>2 DEF Commit, Release, TypeOK
<1>5. \A v \in Workers : Unwaited(v)' <=> Unwaited(v)
  BY <1>3 DEF Unwaited
<1>6. \A v \in Workers \ {w} : Shadow(v, o)' <=> Shadow(v, o)
  BY <1>4, <1>5 DEF Shadow
<1>7. ~ Shadow(w, o)'
  BY <1>4 DEF Shadow
<1>8. LastOk(c, k)' => LastOk(c, k)
  BY <1>3 DEF LastOk
<1>9. CASE Shadow(w, o)
  <2>1. /\ o \in Orders
        /\ orders' = [orders EXCEPT ![o] = [status |-> target[w], version |-> @.version + 1]]
    BY <1>1, <1>2, <1>9 DEF Shadow, Shape, ShapeOf, Commit, CommitOrder
  <2>2. orders'[o].status = target[w]
    BY <1>1, <2>1
  <2>3. \A v \in Workers : ~ Shadow(v, o)'
    BY <1>1, <1>6, <1>7, <1>9 DEF Shadow, OneWriter
  <2>4. LastOk(c, k) => target[w] = Achieves(Script[c][k])
    BY <1>9 DEF EffectInv, EffectOf
  <2> QED
    BY <1>8, <2>2, <2>3, <2>4 DEF EffectOf, Shadow, Unwaited
<1>10. CASE ~ Shadow(w, o)
  <2>1. target[w] = "none" \/ req[w].order # o
    BY <1>10 DEF Shadow
  <2>2. orders'[o] = orders[o]
    BY <1>1, <1>2, <2>1, ScriptOrders DEF Commit, CommitOrder
  <2>3. \A v \in Workers : Shadow(v, o)' <=> Shadow(v, o)
    BY <1>6, <1>7, <1>10
  <2>4. \A v \in Workers : Shadow(v, o) => target'[v] = target[v]
    BY <1>4, <1>10
  <2> QED
    BY <1>8, <2>2, <2>3, <2>4, EffectStands DEF EffectInv
<1> QED
  BY <1>9, <1>10

\* A client that is answered at the end of its request is answered with an error.
LEMMA ErrorEffect ==
    ASSUME EffectInv, LegalScripts, NEW w \in Workers, Finish(w),
           NEW e \in Clients, waiting[e] = w,
           NEW c \in Clients, NEW k \in 1..Len(Script[c])
    PROVE  EffectOf(c, k)'
<1> PICK o, n : o = Script[c][k].order /\ n = Len(answers[e]) + 1
  OBVIOUS
<1>1. /\ WaitingInv /\ TypeOK /\ outcome[w] # "ok" /\ w # NoWorker
      /\ waiting \in [Clients -> Workers \cup {NoWorker}]
      /\ answers \in [Clients -> Seq(Answers)]
      /\ orders \in [Orders -> OrderRows]
  BY NoWorkerAssumption DEF EffectInv, WaitingInv, ClientInv, ClientsOK, TypeOK, Finish
<1>2. /\ n - 1 \in Nat /\ n \in 1..Len(Script[e]) /\ n - 1 = Len(answers[e])
      /\ req[w].order = Script[e][n].order
  BY <1>1, WaitingTurn DEF EffectInv, ServesOf
<1>3. /\ waiting'[e] = NoWorker /\ answers'[e] = Append(answers[e], outcome[w])
      /\ \A d \in Clients \ {e} : waiting'[d] = waiting[d] /\ answers'[d] = answers[d]
                                  /\ waiting[d] # w
  BY <1>1 DEF Finish, WaitingInv, ClientsOK
<1>4. /\ outcome[w] \in Answers /\ answers[e] \in Seq(Answers)
  BY <1>1 DEF TypeOK, Answers
<1>5. /\ Len(answers'[e]) = n /\ answers'[e][n] # "ok"
      /\ \A j \in 1..n - 1 : answers'[e][j] = answers[e][j]
  BY <1>1, <1>2, <1>3, <1>4
<1>6. CASE o = Script[e][n].order
  <2>1. c = e
    <3>1. Script[c][k].order = Script[e][n].order
      BY <1>6
    <3>2. n \in 1..Len(Script[e])
      BY <1>2
    <3> QED
      BY <3>1, <3>2, LegalScripts DEF LegalScripts
  <2>2. ~ LastOk(c, k)'
    BY <1>2, <1>5, <1>6, <2>1 DEF LastOk
  <2> QED
    BY <2>2 DEF EffectOf
<1>7. CASE o # Script[e][n].order
  <2>1. orders'[o] = orders[o]
    BY <1>1, <1>2, <1>7, ScriptOrders
       DEF Finish, EndRequest, Commit, CommitOrder, Rollback, db
  <2>2. target'[w] = "none" /\ \A v \in Workers \ {w} : target'[v] = target[v] /\ req'[v] = req[v]
    BY <1>1 DEF Finish, EndRequest, Commit, Rollback, Release, TypeOK
  <2>3. \A v \in Workers \ {w} : Unwaited(v)' <=> Unwaited(v)
    BY <1>1, <1>3, NoWorkerAssumption DEF Unwaited
  <2>4. ~ Shadow(w, o)' /\ ~ Shadow(w, o)
    BY <1>2, <1>7, <2>2 DEF Shadow
  <2>5. \A v \in Workers : Shadow(v, o)' <=> Shadow(v, o)
    BY <2>2, <2>3, <2>4 DEF Shadow
  <2>6. \A v \in Workers : Shadow(v, o) => target'[v] = target[v]
    BY <2>2, <2>4
  <2>7. LastOk(c, k)' => LastOk(c, k)
    <3>1. CASE c # e
      BY <1>3, <3>1 DEF LastOk
    <3>2. ASSUME c = e, LastOk(c, k)' PROVE LastOk(c, k)
      <4>1. k \in 1..n /\ k # n
        BY <1>5, <1>7, <3>2 DEF LastOk
      <4>2. Len(answers[c]) = n - 1 /\ k \in 1..n - 1
        BY <1>2, <3>2, <4>1
      <4>3. \A j \in 1..n - 1 : j \in 1..Len(answers'[c]) /\ answers'[c][j] = answers[c][j]
        BY <1>2, <1>5, <3>2
      <4> QED
        BY <3>2, <4>2, <4>3 DEF LastOk
    <3> QED
      BY <3>1, <3>2
  <2> QED
    BY <2>1, <2>5, <2>6, <2>7, EffectStands DEF EffectInv
<1> QED
  BY <1>6, <1>7

\* The end of a request, whether it was answered before or is now.
LEMMA FinishEffect ==
    ASSUME EffectInv, LegalScripts, NEW w \in Workers, Finish(w)
    PROVE  /\ LeftOver' /\ \A c \in Clients : ServesOf(c)'
           /\ \A c \in Clients : \A k \in 1..Len(Script[c]) : EffectOf(c, k)'
<1>1. /\ TypeOK /\ waiting \in [Clients -> Workers \cup {NoWorker}]
      /\ \A c \in Clients : waiting'[c] = IF waiting[c] = w THEN NoWorker ELSE waiting[c]
      /\ \A c \in Clients : waiting[c] # w => answers'[c] = answers[c]
  BY DEF EffectInv, WaitingInv, ClientsOK, Finish
<1>2. /\ pc'[w] = "idle"
      /\ \A v \in Workers \ {w} : /\ pc'[v] = pc[v] /\ outcome'[v] = outcome[v]
                                  /\ req'[v] = req[v]
  BY <1>1 DEF Finish, EndRequest, Commit, Rollback, Release, TypeOK
<1>3. \A v \in Workers \ {w} : Unwaited(v)' <=> Unwaited(v)
  BY <1>1, NoWorkerAssumption DEF Unwaited
<1>4. LeftOver'
  BY <1>2, <1>3 DEF EffectInv, LeftOver
<1>5. ASSUME NEW c \in Clients PROVE ServesOf(c)'
  <2>1. CASE waiting[c] = w
    BY <1>1, <2>1 DEF ServesOf
  <2>2. ASSUME waiting[c] # w, waiting[c] # NoWorker
        PROVE  waiting[c] \in Workers \ {w} /\ waiting'[c] = waiting[c] /\ Turn(c)' = Turn(c)
    BY <1>1, <2>2 DEF Turn
  <2>3. CASE waiting[c] # w /\ waiting[c] # NoWorker
    BY <1>2, <2>2, <2>3 DEF EffectInv, ServesOf
  <2>4. CASE waiting[c] = NoWorker
    BY <1>1, <2>4 DEF ServesOf
  <2> QED
    BY <2>1, <2>3, <2>4
<1>6. ASSUME NEW c \in Clients, NEW k \in 1..Len(Script[c]) PROVE EffectOf(c, k)'
  <2>1. CASE Unwaited(w)
    BY <2>1, CommitEffect
  <2>2. CASE ~ Unwaited(w)
    BY <2>2, ErrorEffect DEF Unwaited
  <2> QED
    BY <2>1, <2>2
<1> QED
  BY <1>4, <1>5, <1>6

\* Every step keeps what clients were told and what is or will be committed together.
LEMMA NextEffectInv ==
    ASSUME LegalScripts, EffectInv, [ClientNext]_clientvars
    PROVE  EffectInv'
<1>1. WaitingInv' /\ InventoryInv'
  BY NextWaitingInv, NextInventoryInv, ClientStep DEF EffectInv, WaitingInv
<1>2. CASE UNCHANGED clientvars
  BY <1>1, <1>2 DEF clientvars, cvars, vars, EffectInv, LeftOver, ServesOf, EffectOf, LastOk,
     Shadow, Unwaited, Turn
<1>3. CASE ClientNext
  BY <1>1, <1>3, SendEffect, AnswerEffect, HandleEffect, FinishEffect
     DEF ClientNext, EffectInv
<1> QED
  BY <1>2, <1>3

\* Nothing has been told initially.
LEMMA InitEffectInv == ClientInit => EffectInv
<1> SUFFICES ASSUME ClientInit PROVE EffectInv
  OBVIOUS
<1>1. WaitingInv /\ InventoryInv
  BY InitWaitingInv, InitInventoryInv DEF ClientInit
<1>2. LeftOver /\ \A c \in Clients : ServesOf(c)
  BY DEF ClientInit, Init, LeftOver, ServesOf
<1>3. ASSUME NEW c \in Clients, NEW k \in 1..Len(Script[c]) PROVE EffectOf(c, k)
  <2>1. Len(answers[c]) = 0
    BY DEF ClientInit
  <2> QED
    BY <2>1 DEF EffectOf, LastOk
<1> QED
  BY <1>1, <1>2, <1>3 DEF EffectInv

\* A success that was answered before its commit stays in effect until the next call for
\* its order is answered: committed, or all that the open transaction of it will commit.
THEOREM AcknowledgedStands ==
    ASSUME LegalScripts
    PROVE  ClientSpec => []\A c \in Clients : \A k \in 1..Len(Script[c]) : EffectOf(c, k)
<1>1. EffectInv /\ [ClientNext]_clientvars => EffectInv'
  BY NextEffectInv
<1>2. EffectInv => \A c \in Clients : \A k \in 1..Len(Script[c]) : EffectOf(c, k)
  BY DEF EffectInv
<1> QED
  BY <1>1, <1>2, InitEffectInv, PTL DEF ClientSpec

\* A request for an order of which all went well so far is allowed by what was
\* answered: if the committed row refuses it, that answer is not committed yet.
LEMMA RefusalIsOwnShadow ==
    ASSUME LegalScripts, EffectInv, NEW c \in Clients, NEW w \in Workers, Send(c),
           waiting'[c] = w, outcome'[w] = "refused",
           \A k \in 1..Len(answers[c]) :
               Script[c][k].order = Turn(c).order => answers[c][k] = "ok"
    PROVE  OwnShadow(Turn(c).order)
<1> PICK n : n = Len(answers[c]) + 1
  OBVIOUS
<1>1. /\ WaitingInv /\ TypeOK /\ VersionsOf(w) /\ ~ Finished(c)
      /\ waiting \in [Clients -> Workers \cup {NoWorker}]
      /\ Len(answers[c]) \in Nat /\ Len(Script[c]) \in Nat
  BY ScriptAssumption DEF EffectInv, WaitingInv, ClientInv, ClientsOK, InventoryInv,
     VersionInv, Send
<1>2. n \in 1..Len(Script[c]) /\ Turn(c) = Script[c][n] /\ n - 1 = Len(answers[c])
  BY <1>1 DEF Finished, Turn
<1>3. Arrive(w, Turn(c))
  <2>1. PICK v \in Workers : Arrive(v, Turn(c)) /\ waiting' = [waiting EXCEPT ![c] = v]
    BY DEF Send
  <2>2. v = w
    BY <1>1, <2>1
  <2> QED
    BY <2>1, <2>2
<1>4. /\ Turn(c).op # "place"
      /\ ~ CanTransition(orders[Turn(c).order].status, Goal(Turn(c).op))
  BY <1>1, <1>3 DEF Arrive, PlaceOrder, ReadOrder, TypeOK, VersionsOf, DecisionOf
<1>5. PICK j \in 1..n - 1 :
          /\ Script[c][j].order = Turn(c).order
          /\ \A l \in j + 1..n - 1 : Script[c][l].order # Turn(c).order
          /\ CanTransition(Achieves(Script[c][j]), Goal(Turn(c).op))
  BY <1>2, <1>4 DEF LegalScripts
<1>6. LastOk(c, j)
  <2>1. j \in 1..Len(answers[c])
    BY <1>2, <1>5
  <2>2. ASSUME NEW l \in 1..Len(answers[c]), Script[c][l].order = Script[c][j].order
        PROVE  l <= j /\ answers[c][l] = "ok"
    <3>1. l \notin j + 1..n - 1
      BY <1>5, <2>2
    <3>2. l <= j
      BY <1>1, <1>2, <1>5, <2>2, <3>1
    <3> QED
      BY <1>5, <2>2, <3>2
  <2> QED
    BY <2>1, <2>2 DEF LastOk
<1>7. j \in 1..Len(Script[c])
  BY <1>1, <1>2, <1>5
<1>8. EffectOf(c, j)
  BY <1>7 DEF EffectInv
<1>9. PICK v \in Workers : Shadow(v, Turn(c).order)
  BY <1>4, <1>5, <1>6, <1>8 DEF EffectOf
<1> QED
  BY <1>9 DEF Shadow, Unwaited, OwnShadow

\* A client that keeps to the lifecycle is first refused only because get_db answers
\* before it commits: the row that refuses it is one that its own transaction, already
\* answered, has still to replace.
THEOREM FirstRefusals ==
    ASSUME LegalScripts
    PROVE  ClientSpec => FirstRefusalIsOwnShadow
<1> DEFINE Refused(c, w) ==
               /\ waiting[c] = NoWorker /\ waiting'[c] = w /\ outcome'[w] = "refused"
               /\ \A k \in 1..Len(answers[c]) :
                      Script[c][k].order = Turn(c).order => answers[c][k] = "ok"
<1>1. ClientSpec => []EffectInv
  <2>1. EffectInv /\ [ClientNext]_clientvars => EffectInv'
    BY NextEffectInv
  <2> QED
    BY <2>1, InitEffectInv, PTL DEF ClientSpec
<1>2. ASSUME EffectInv, [ClientNext]_clientvars, NEW c \in Clients, NEW w \in Workers,
             Refused(c, w)
      PROVE  OwnShadow(Turn(c).order)
  <2>1. waiting \in [Clients -> Workers \cup {NoWorker}] /\ waiting'[c] # waiting[c]
    BY <1>2, NoWorkerAssumption DEF EffectInv, WaitingInv, ClientsOK
  <2>2. Send(c)
    BY <1>2, <2>1, NoWorkerAssumption
       DEF ClientNext, Send, AnswerSuccess, Handle, Finish, clientvars, cvars
  <2> QED
    BY <1>2, <2>2, RefusalIsOwnShadow
<1>3. EffectInv /\ [ClientNext]_clientvars =>
          [\A c \in Clients : \A w \in Workers : Refused(c, w) => OwnShadow(Turn(c).order)]_clientvars
  BY <1>2
<1> QED
  BY <1>1, <1>3, PTL DEF ClientSpec, FirstRefusalIsOwnShadow
=============================================================================
