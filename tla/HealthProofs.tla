---------------------------- MODULE HealthProofs ----------------------------
(***************************************************************************)
(* Proofs about Health, for every set of processes on one server.          *)
(***************************************************************************)
EXTENDS Health, TLAPS

\* Only a connection that is CONNECTION_BAD makes /health say 503, and it stays
\* so for the life of the process.
AlarmOfLoss ==
  \A w \in Worker : health[w] = 503 /\ link[w] # "closed" => link[w] = "bad"

Inductive == HealthTypeOK /\ AlarmOfLoss

\* Processes start without connection, probe or answer.
LEMMA InductiveInit == Init => Inductive
BY DEF Init, Inductive, HealthTypeOK, AlarmOfLoss, DatabaseInit, DatabaseTypeOK, LinkState

\* Each step keeps the invariant.
LEMMA InductiveNext == Inductive /\ [Next]_vars => Inductive'
<1> SUFFICES ASSUME Inductive, [Next]_vars
             PROVE  Inductive'
  OBVIOUS
<1> USE DEF Inductive, HealthTypeOK, AlarmOfLoss, DatabaseTypeOK, LinkState
<1>1. ASSUME NEW w \in Worker, Start(w)
      PROVE  Inductive'
  BY <1>1 DEF Start, Connect
<1>2. ASSUME NEW w \in Worker, Stop(w)
      PROVE  Inductive'
  BY <1>2 DEF Stop, Close
<1>3. ASSUME NEW w \in Worker, Ask(w)
      PROVE  Inductive'
  BY <1>3 DEF Ask, dbVars
<1>4. ASSUME NEW w \in Worker, AnswerHealth(w)
      PROVE  Inductive'
  <2>1. ~IsConnected(w) => link[w] = "bad"
    BY <1>4 DEF AnswerHealth, IsConnected
  <2> QED
    BY <1>4, <2>1 DEF AnswerHealth, dbVars
<1>5. ASSUME NEW w \in Worker, Run(w)
      PROVE  Inductive'
  BY <1>5 DEF Run, dbVars
<1>6. ASSUME NEW w \in Worker, Finish(w)
      PROVE  Inductive'
  <2>1. CASE QueryReturns(w) /\ data' = [data EXCEPT ![w] = 200]
    BY <1>6, <2>1 DEF Finish, QueryReturns, dbVars
  <2>2. CASE /\ QueryLosesResult(w) \/ QueryFails(w)
             /\ data' = [data EXCEPT ![w] = 500]
    BY <1>6, <2>2 DEF Finish, QueryLosesResult, QueryFails
  <2> QED
    BY <1>6, <2>1, <2>2 DEF Finish
<1>7. ASSUME DatabaseEnvironment, UNCHANGED <<probe, handler, health, data>>
      PROVE  Inductive'
  BY <1>7 DEF DatabaseEnvironment, PgStops, PgStarts, LinkDrops
<1>8. CASE UNCHANGED vars
  BY <1>8 DEF vars
<1> QED
  BY <1>1, <1>2, <1>3, <1>4, <1>5, <1>6, <1>7, <1>8 DEF Next

\* The invariant holds of every behaviour.
THEOREM HealthInvariant == Spec => []Inductive
BY InductiveInit, InductiveNext, PTL DEF Spec

\* Connections, probes and answers stay typed; a stopped process holds nothing.
THEOREM HealthTypeCorrect == Spec => []HealthTypeOK
BY HealthInvariant, PTL DEF Inductive

\* Only the handler of /health answers a probe of a process that goes on.
LEMMA AnswerOfHealth ==
  ASSUME Inductive, Next, NEW w \in Worker, ProbeAnswered(w)
  PROVE  AnswerHealth(w)
<1> USE DEF Inductive, HealthTypeOK, DatabaseTypeOK, ProbeAnswered
<1>1. ASSUME NEW v \in Worker, Stop(v)
      PROVE  FALSE
  BY <1>1 DEF Stop, Close
<1>2. ASSUME NEW v \in Worker, AnswerHealth(v)
      PROVE  v = w
  BY <1>2 DEF AnswerHealth
<1> QED
  BY <1>1, <1>2 DEF Next, Start, Ask, Run, Finish

\* Only the end of its statement answers a data request of one.
LEMMA AnswerOfStatement ==
  ASSUME Inductive, Next, NEW w \in Worker, DataAnswered(w)
  PROVE  Finish(w)
<1> USE DEF Inductive, HealthTypeOK, DatabaseTypeOK, DataAnswered
<1>1. ASSUME NEW v \in Worker, Stop(v)
      PROVE  FALSE
  BY <1>1 DEF Stop, Close
<1>2. ASSUME NEW v \in Worker, Run(v)
      PROVE  FALSE
  BY <1>2 DEF Run
<1>3. ASSUME NEW v \in Worker, Finish(v)
      PROVE  v = w
  BY <1>3 DEF Finish
<1> QED
  BY <1>1, <1>2, <1>3 DEF Next, Start, Ask, AnswerHealth

\* After a statement has met the loss of the connection, every probe that the
\* process answers is answered 503.
THEOREM LossCorrect == Spec => LossIsReported
<1>1. Inductive /\ [Next]_vars =>
        [\A w \in Worker : ProbeAnswered(w) /\ link[w] = "bad" => health'[w] = 503]_vars
  <2> SUFFICES ASSUME Inductive, Next, NEW w \in Worker, ProbeAnswered(w), link[w] = "bad"
               PROVE  health'[w] = 503
    OBVIOUS
  <2>1. AnswerHealth(w)
    BY AnswerOfHealth
  <2> QED
    BY <2>1 DEF AnswerHealth, IsConnected, Inductive, HealthTypeOK
<1> QED
  BY <1>1, HealthInvariant, PTL DEF Spec, LossIsReported

\* After a 503 of /health no data request of the process succeeds.
THEOREM AlarmCorrect == Spec => AlarmIsTrue
<1>1. Inductive /\ [Next]_vars =>
        [\A w \in Worker : DataAnswered(w) /\ health[w] = 503 => data'[w] = 500]_vars
  <2> SUFFICES ASSUME Inductive, Next, NEW w \in Worker, DataAnswered(w), health[w] = 503
               PROVE  data'[w] = 500
    OBVIOUS
  <2>1. Finish(w)
    BY AnswerOfStatement
  <2>2. link[w] = "bad"
    BY DEF DataAnswered, Inductive, HealthTypeOK, AlarmOfLoss
  <2> QED
    BY <2>1, <2>2 DEF Finish, QueryReturns, Inductive, HealthTypeOK
<1> QED
  BY <1>1, HealthInvariant, PTL DEF Spec, AlarmIsTrue

=============================================================================
