---------------------------- MODULE OrderClient ----------------------------
(***************************************************************************)
(* Clients that call the service one request after the other, as the seed  *)
(* script and the lifecycle tests do, and what they are told.              *)
(*                                                                         *)
(* get_db is a dependency with yield: its commit is the exit code of the   *)
(* request.  With the FastAPI of uv.lock that code runs after the response *)
(* has been sent, so the next request of the same client may meet the      *)
(* transaction of the previous one.  An HTTPException passes through the   *)
(* exit code first: an error is answered after the end of its transaction. *)
(* (The tests' ASGITransport returns when the application has returned,    *)
(* and shows them every answer after the commit.)                          *)
(*                                                                         *)
(* Requests do not die here, and nobody else calls the service.            *)
(***************************************************************************)
EXTENDS OrderService

CONSTANTS
    Clients,
    Script           \* [Clients -> sequence of the calls a client makes]

Calls == [op : OrderOps \cup {"place"}, order : Orders,
          answer : {"ok", "refused", "insufficient", "conflict"}]

ASSUME ScriptAssumption == Script \in [Clients -> Seq(Calls)]

VARIABLES
    waiting,         \* the worker a client waits for, or NoWorker
    answers          \* the answers a client has had, in order

cvars      == <<waiting, answers>>
clientvars == <<vars, cvars>>

\* The sections of seed.py: the calls for an order and the answers it counts on.
Call(op, o) == [op |-> op, order |-> o, answer |-> "ok"]
Placed(o)    == <<Call("place", o)>>
Confirmed(o) == Append(Placed(o), Call("confirm", o))
Shipped(o)   == Append(Confirmed(o), Call("ship", o))
Delivered(o) == Append(Shipped(o), Call("deliver", o))
Cancelled(o) == Append(Confirmed(o), Call("cancel", o))
Rejected(o)  ==
    Append(Placed(o), [op |-> "confirm", order |-> o, answer |-> "insufficient"])

-----------------------------------------------------------------------------
ClientInit ==
    /\ Init
    /\ waiting = [c \in Clients |-> NoWorker]
    /\ answers = [c \in Clients |-> <<>>]

Finished(c) == Len(answers[c]) >= Len(Script[c])
Turn(c)     == Script[c][Len(answers[c]) + 1]

Arrive(w, call) == IF call.op = "place" THEN PlaceOrder(w, call.order)
                                        ELSE ReadOrder(w, call.op, call.order)

\* A client sends its next request when it has the answer to the one before; it
\* goes on whatever the answer is, as transition() of the seed script does.
Send(c) ==
    /\ waiting[c] = NoWorker /\ ~ Finished(c)
    /\ \E w \in Workers :
           /\ Arrive(w, Turn(c))
           /\ waiting' = [waiting EXCEPT ![c] = w]
    /\ UNCHANGED answers

AnswerTwice(c) ==        \* mutant: the client is not released
    /\ waiting[c] # NoWorker
    /\ pc[waiting[c]] = "done" /\ outcome[waiting[c]] = "ok"
    /\ answers' = [answers EXCEPT ![c] = Append(@, "ok")]
    /\ UNCHANGED <<vars, waiting>>

\* The handler has returned: the response goes out, the session is still open.
AnswerSuccess(c) ==
    /\ waiting[c] # NoWorker
    /\ pc[waiting[c]] = "done" /\ outcome[waiting[c]] = "ok"
    /\ answers' = [answers EXCEPT ![c] = Append(@, "ok")]
    /\ waiting' = [waiting EXCEPT ![c] = NoWorker]
    /\ UNCHANGED vars

Handle(w) == /\ TakeItem(w) \/ WriteCache(w) \/ WriteOrder(w)
             /\ UNCHANGED cvars

\* The exit code of get_db.  Who still waits for this request is answered now.
Finish(w) ==
    /\ EndRequest(w)
    /\ outcome[w] = "ok" => \A c \in Clients : waiting[c] # w
    /\ answers' = [c \in Clients |-> IF waiting[c] = w THEN Append(answers[c], outcome[w])
                                                       ELSE answers[c]]
    /\ waiting' = [c \in Clients |-> IF waiting[c] = w THEN NoWorker ELSE waiting[c]]

ClientNext == \/ \E c \in Clients : Send(c) \/ AnswerSuccess(c)
              \/ \E w \in Workers : Handle(w) \/ Finish(w)

ClientSpec == ClientInit /\ [][ClientNext]_clientvars

ClientFairness ==
    /\ \A c \in Clients : SF_clientvars(Send(c)) /\ WF_clientvars(AnswerSuccess(c))
    /\ \A w \in Workers : /\ WF_clientvars(Finish(w))
                          /\ SF_clientvars(TakeItem(w) /\ UNCHANGED cvars)
                          /\ WF_clientvars(WriteCache(w) /\ UNCHANGED cvars)
                          /\ SF_clientvars(WriteOrder(w) /\ UNCHANGED cvars)

FairClientSpec == ClientSpec /\ ClientFairness

-----------------------------------------------------------------------------
(* Properties.                                                             *)

\* Types; a client gets one answer to each call (transition waits for it), and no
\* two clients wait for one request.
ClientsOK ==
    /\ TypeOK
    /\ waiting \in [Clients -> Workers \cup {NoWorker}]
    /\ \A c \in Clients : Len(answers[c]) <= Len(Script[c])
    /\ \A c, d \in Clients : waiting[c] = waiting[d] /\ c # d => waiting[c] = NoWorker

\* Calls made one after the other get the answers the script counts on: placed
\* before confirmed, confirmed before shipped.
AnswersAsScripted ==
    \A c \in Clients : \A k \in 1..Len(answers[c]) :
        answers[c][k] = Script[c][k].answer

\* The status that a call gives its order when it is answered with ok.
Achieves(call) == IF call.op = "place" THEN "PENDING" ELSE Goal(call.op)

\* A success that was answered before its commit is committed in the end, and no
\* later call of the script takes its place before it was.
AcknowledgedTakesEffect ==
    \A c \in Clients : \A k \in 1..Len(Script[c]) :
        Len(answers[c]) = k /\ answers[c][k] = "ok"
            ~> orders[Script[c][k].order].status = Achieves(Script[c][k])

\* Scripts as seed.py has them: an order is called for by one client, and every call
\* for it but place is one that the lifecycle allows after the call before.
LegalScripts ==
    /\ \A c, e \in Clients : \A k \in 1..Len(Script[c]), l \in 1..Len(Script[e]) :
           Script[c][k].order = Script[e][l].order => c = e
    /\ \A c \in Clients : \A k \in 1..Len(Script[c]) :
           \/ Script[c][k].op = "place"
           \/ \E j \in 1..k - 1 :
                  /\ Script[c][j].order = Script[c][k].order
                  /\ \A l \in j + 1..k - 1 : Script[c][l].order # Script[c][k].order
                  /\ CanTransition(Achieves(Script[c][j]), Goal(Script[c][k].op))

OwnShadow(o) == \E v \in Workers : /\ target[v] # "none" /\ req[v].order = o
                                   /\ \A c \in Clients : waiting[c] # v

\* The first refusal in the life of an order comes from a transaction that was
\* answered and is not committed, never from a committed state.
FirstRefusalIsOwnShadow ==
    [][\A c \in Clients : \A w \in Workers :
           /\ waiting[c] = NoWorker /\ waiting'[c] = w /\ outcome'[w] = "refused"
           /\ \A k \in 1..Len(answers[c]) :
                  Script[c][k].order = Turn(c).order => answers[c][k] = "ok"
           => OwnShadow(Turn(c).order)]_clientvars

\* Every script runs to its end.
ScriptsEnd == <> \A c \in Clients : Finished(c) /\ waiting[c] = NoWorker
=============================================================================
