------------------------------- MODULE Health -------------------------------
(***************************************************************************)
(* GET /health, beside the other requests a worker serves with the same    *)
(* thread and the same connection.  The route asks libpq for the cached    *)
(* status of the connection and runs no statement, so what it says is what *)
(* the last statements found out.                                          *)
(*                                                                         *)
(* One probe per worker may be waiting; "data" stands for every request    *)
(* whose handler runs statements, the next one when the last is answered.  *)
(***************************************************************************)
EXTENDS Database, Naturals

VARIABLES
  probe,         \* probe[w]: a GET /health waits for the polling thread
  handler,       \* handler[w]: what the polling thread is doing
  health,        \* health[w]: status of the last answer to a probe, or 0
  data           \* data[w]: status of the last answer to a data request, or 0

vars == <<pg, link, probe, handler, health, data>>

\* A process that is not running has no probe waiting and no handler inside a
\* statement: what it leaves behind when it stops is nothing.
HealthTypeOK ==
  /\ DatabaseTypeOK
  /\ probe \in [Worker -> BOOLEAN]
  /\ handler \in [Worker -> {"idle", "statement"}]
  /\ health \in [Worker -> {0, 200, 503}]
  /\ data \in [Worker -> {0, 200, 500}]
  /\ \A w \in Worker :
       link[w] = "closed" => ~probe[w] /\ handler[w] = "idle"

Init ==
  /\ DatabaseInit
  /\ probe = [w \in Worker |-> FALSE]
  /\ handler = [w \in Worker |-> "idle"]
  /\ health = [w \in Worker |-> 0]
  /\ data = [w \in Worker |-> 0]

\* The supervisor starts the process; it stays up only if it can connect.
Start(w) ==
  /\ Connect(w)
  /\ health' = [health EXCEPT ![w] = 0]
  /\ data' = [data EXCEPT ![w] = 0]
  /\ UNCHANGED <<probe, handler>>

\* Faulty variant: the thread is not waited for when the process stops.
StopAbruptly(w) ==
  /\ Close(w)
  /\ probe' = [probe EXCEPT ![w] = FALSE]
  /\ UNCHANGED <<handler, health, data>>

Stop(w) ==
  /\ Close(w)
  /\ probe' = [probe EXCEPT ![w] = FALSE]
  /\ handler' = [handler EXCEPT ![w] = "idle"]
  /\ UNCHANGED <<health, data>>

Ask(w) ==
  /\ link[w] # "closed"
  /\ ~probe[w]
  /\ probe' = [probe EXCEPT ![w] = TRUE]
  /\ UNCHANGED <<handler, health, data, dbVars>>

\* Faulty variant: an error of the last statement is taken for a loss.
AnswerByLastStatement(w) ==
  /\ probe[w] /\ handler[w] = "idle" /\ link[w] # "closed"
  /\ probe' = [probe EXCEPT ![w] = FALSE]
  /\ health' = [health EXCEPT ![w] = IF data[w] # 500 THEN 200 ELSE 503]
  /\ UNCHANGED <<handler, data, dbVars>>

\* http_dispatch_without_body(), route /health.
AnswerHealth(w) ==
  /\ probe[w] /\ handler[w] = "idle" /\ link[w] # "closed"
  /\ probe' = [probe EXCEPT ![w] = FALSE]
  /\ health' = [health EXCEPT ![w] = IF IsConnected(w) THEN 200 ELSE 503]
  /\ UNCHANGED <<handler, data, dbVars>>

\* A data request reaches its first statement.
Run(w) ==
  /\ handler[w] = "idle" /\ link[w] # "closed"
  /\ handler' = [handler EXCEPT ![w] = "statement"]
  /\ UNCHANGED <<probe, health, data, dbVars>>

\* The statement ends, and the request is answered: 200 stands for any success,
\* 500 for the 500, 401 or 400 that its handler makes of an error.  A probe that
\* came meanwhile waited for it.
Finish(w) ==
  /\ handler[w] = "statement"
  /\ handler' = [handler EXCEPT ![w] = "idle"]
  /\ \/ QueryReturns(w) /\ data' = [data EXCEPT ![w] = 200]
     \/ /\ QueryLosesResult(w) \/ QueryFails(w)
        /\ data' = [data EXCEPT ![w] = 500]
  /\ UNCHANGED <<probe, health>>

Next ==
  \/ \E w \in Worker :
       Start(w) \/ Stop(w) \/ Ask(w) \/ AnswerHealth(w) \/ Run(w) \/ Finish(w)
  \/ DatabaseEnvironment /\ UNCHANGED <<probe, handler, health, data>>

Spec == Init /\ [][Next]_vars

\* The statement that is sent over a lost connection, and so finds out.
FindLoss(w) == Finish(w) /\ link[w] = "stale" /\ link'[w] = "bad"

\* The thread goes round its connections, so a waiting probe gets its turn
\* between two statements (SF); libpq ends every statement; memory is not short
\* for every one of them; clients keep sending data requests and probes; the
\* supervisor restarts what has exited.
FairSpec ==
  /\ Spec
  /\ \A w \in Worker :
       /\ SF_vars(AnswerHealth(w)) /\ WF_vars(Finish(w)) /\ SF_vars(FindLoss(w))
       /\ SF_vars(Run(w)) /\ WF_vars(Ask(w)) /\ SF_vars(Start(w))

-----------------------------------------------------------------------------
(* Properties.                                                             *)

\* A lost connection is noticed: while clients keep asking for data, a process
\* whose far end is gone does not go on believing in its connection.
LossIsNoticed ==
  \A w \in Worker : link[w] = "stale" ~> link[w] \in {"bad", "closed"}

\* A probe is answered, or its process stops, even when it arrived while the
\* only thread was inside a statement.
ProbeIsAnswered == \A w \in Worker : probe[w] ~> ~probe[w]

\* The polling thread of w, which goes on running, answers a probe, or ends the
\* statement of a data request.
ProbeAnswered(w) == probe[w] /\ ~probe'[w] /\ link'[w] # "closed"
DataAnswered(w) ==
  handler[w] = "statement" /\ handler'[w] = "idle" /\ link'[w] # "closed"

\* Once a statement has met the loss of its connection, every probe of that
\* process is answered 503: a failure seen is not forgotten, whether or not
\* PostgreSQL is back, and whatever the last probe was told.
LossIsReported ==
  [][\A w \in Worker : ProbeAnswered(w) /\ link[w] = "bad" => health'[w] = 503]_vars

\* A 503 is for a database that the process cannot use (API-TESTING.md, section
\* 3), never for a statement that failed for another reason: after it no data
\* request of the process succeeds.
AlarmIsTrue ==
  [][\A w \in Worker : DataAnswered(w) /\ health[w] = 503 => data'[w] = 500]_vars

\* A 200 means the API can reach PostgreSQL (API-TESTING.md, section 3).
HealthyMeansReachable ==
  [][\A w \in Worker : ProbeAnswered(w) /\ health'[w] = 200 => pg = "up"]_vars

\* When PostgreSQL is back for good and the process is running, /health says
\* 200 again (503 is for a database that is not available).
HealthRecovers ==
  \A w \in Worker :
    <>[](pg = "up" /\ link[w] # "closed") => <>[](health[w] = 200)

=============================================================================
