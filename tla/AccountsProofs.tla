--------------------------- MODULE AccountsProofs ---------------------------
(***************************************************************************)
(* Proofs about Accounts, for every set of workers, addresses, passwords   *)
(* and tokens, every pair of lifetimes and every bound on the clock.       *)
(***************************************************************************)
EXTENDS Accounts, TLAPS

-----------------------------------------------------------------------------
(* Type correctness.                                                       *)

\* Every request a client can send is a Request.
LEMMA RequestsTyped == TypeOK => Requests \subseteq Request
BY DEF Requests, Mailed, Request, TypeOK, Presented

\* The fields of a request are what its kind says.
LEMMA RequestFields ==
  ASSUME NEW r \in Request
  PROVE  /\ r.token \in Presented
         /\ r.kind \in {"register", "login"} =>
              r.email \in Address /\ r.password \in Password
BY DEF Request, NoRequest, Credentials, Bearer, Presented

\* A connection moves among the states of LinkState only.
LEMMA LinkTyped ==
  ASSUME DatabaseTypeOK,
         \/ \E w \in Worker : \/ Connect(w) \/ Close(w) \/ QueryReturns(w)
                              \/ QueryLosesResult(w) \/ QueryFails(w)
         \/ DatabaseEnvironment
         \/ UNCHANGED dbVars
  PROVE  DatabaseTypeOK'
BY DEF DatabaseTypeOK, Connect, Close, QueryReturns, QueryLosesResult,
       QueryFails, DatabaseEnvironment, PgStops, PgStarts, LinkDrops, LinkState,
       dbVars

\* What is recorded of a handler is a Task.
LEMMA TasksTyped ==
  /\ Idle \in Task
  /\ \A r \in Request :
       /\ Step("authenticate", r) \in Task
       /\ Step("statement", r) \in Task
       /\ \A s \in Status, t \in Presented : Reply(r, s, t) \in Task
BY DEF Idle, NoRequest, Step, Reply, Task, Request, Presented, Status

\* The end of a statement: the worker has an answer, typed, and nothing else
\* but its connection has changed.
LEMMA Answered ==
  ASSUME TypeOK, NEW w \in Worker, NEW s \in Status, NEW t \in Presented,
         Completed(w, s, t) \/ Fail(w)
  PROVE  /\ \E c \in Status, u \in Presented :
              task' = [task EXCEPT ![w] = Reply(task[w].req, c, u)]
         /\ task' \in [Worker -> Task]
         /\ \A x \in Worker : Checked(x)'
         /\ DatabaseTypeOK'
         /\ UNCHANGED <<now, known, closed>>
<1>1. ErrorStatus(w) \in Status /\ NoUuid \in Presented
  BY DEF ErrorStatus, Status, Presented
<1>2. task[w].req \in Request
  BY DEF TypeOK, Task
<1>3. DatabaseTypeOK'
  BY LinkTyped DEF TypeOK, Completed, Fail
<1>4. PICK c \in Status, u \in Presented :
        task' = [task EXCEPT ![w] = Reply(task[w].req, c, u)]
  BY <1>1 DEF Completed, Fail, Answer
<1>5. task' \in [Worker -> Task]
  BY <1>2, <1>4, TasksTyped DEF TypeOK
<1>6. \A x \in Worker : Checked(x)'
  BY <1>4 DEF TypeOK, Checked, Runs, Reply
<1> QED
  BY <1>3, <1>4, <1>5, <1>6 DEF Completed, Fail, clients

\* An empty database and idle processes are typed.
LEMMA TypeInit == Init => TypeOK
BY TasksTyped DEF Init, TypeOK, DatabaseInit, DatabaseTypeOK, LinkState, Checked, Runs,
                  Idle

\* Each step keeps the columns of the tables and the handlers' locals typed.
\* The rest of the invariant is needed: a confirmation updates the row of
\* its user, which has to be there, and a 204 closes a token that is a session's.
LEMMA TypeNext == Inductive /\ [Next]_vars => TypeOK'
<1> SUFFICES ASSUME TypeOK, OneAccountPerMailbox, AnswersAreTrue, [Next]_vars
             PROVE  TypeOK'
  BY DEF Inductive
<1> USE AccountsAssumption
<1>1. ASSUME NEW w \in Worker, NEW r \in Requests, Receive(w, r)
      PROVE  TypeOK'
  <2>1. r \in Request
    BY RequestsTyped
  <2>2. Refused(r) \in Status
    BY DEF Refused, Status
  <2>3. task' \in [Worker -> Task]
    BY <1>1, <2>1, <2>2, TasksTyped DEF Receive, TypeOK, Presented
  <2>4. ASSUME NEW x \in Worker
        PROVE  Checked(x)'
    <3>1. r.kind = "register" /\ Refused(r) = 0 => r.password \in StrongPassword
      BY DEF Refused
    <3>2. CASE x = w
      BY <1>1, <3>1, <3>2 DEF Receive, TypeOK, Checked, Runs, Step, Reply
    <3>3. CASE x # w
      BY <1>1, <3>3 DEF Receive, TypeOK, Checked, Runs
    <3> QED
      BY <3>2, <3>3
  <2> QED
    BY <1>1, <2>3, <2>4 DEF Receive, TypeOK, tables, clients, dbVars,
                            DatabaseTypeOK
<1>2. ASSUME NEW w \in Worker, Authenticate(w)
      PROVE  TypeOK'
  <2>1. task[w].req \in Request
    BY DEF TypeOK, Task
  <2>2. task' \in [Worker -> Task]
    BY <1>2, <2>1, TasksTyped DEF Authenticate, TypeOK, Answer, Status, Presented
  <2>3. \A x \in Worker : Checked(x)'
    BY <1>2 DEF Authenticate, TypeOK, Checked, Runs, Step, Reply, Answer
  <2> QED
    BY <1>2, <2>2, <2>3, LinkTyped DEF Authenticate, TypeOK, tables, clients
<1>3. ASSUME NEW w \in Worker, Fail(w)
      PROVE  TypeOK'
  BY <1>3, Answered DEF TypeOK, Fail, tables, Status, Presented
<1>4. ASSUME NEW w \in Worker, Register(w)
      PROVE  TypeOK'
  <2> DEFINE a == Normalized(task[w].req)
             p == task[w].req.password
  <2>1. a \in Address /\ p \in StrongPassword
    BY <1>4, RequestFields DEF Register, Runs, TypeOK, Task, Checked,
                                   Normalized
  <2>2. users' \in [Address -> User \cup {NoRow}]
    BY <1>4, <2>1 DEF Register, TypeOK, NewUser, User, Instant
  <2>3. confirmations' \in [Uuid -> Confirmation \cup {NoRow}]
    BY <1>4, <2>1 DEF Register, TypeOK, NewConfirmation, Confirmation, Instant,
                      Fresh
  <2>4. \E s \in Status, t \in Presented : Completed(w, s, t)
    BY <1>4 DEF Register, Status, Presented, Exposed, Fresh
  <2> QED
    BY <1>4, <2>2, <2>3, <2>4, Answered DEF TypeOK, Register
<1>5. ASSUME NEW w \in Worker, Confirm(w)
      PROVE  TypeOK'
  <2> DEFINE t == task[w].req.token
  <2>1. CASE Confirmable(t) /\ Consume(t) /\ Completed(w, 200, NoUuid)
    <3>1. t \in Uuid /\ confirmations[t] \in Confirmation
      BY <2>1 DEF Confirmable, TypeOK
    <3>2. users' \in [Address -> User \cup {NoRow}]
      <4>1. confirmations[t].user \in Address
        BY <3>1 DEF Confirmation
      <4>2. users[confirmations[t].user] \in User
        BY <2>1, <3>1, <4>1 DEF TypeOK, OneAccountPerMailbox, Confirmable
      <4> QED
        BY <2>1, <4>1, <4>2 DEF Consume, TypeOK, User, Instant
    <3>3. confirmations' \in [Uuid -> Confirmation \cup {NoRow}]
      BY <2>1, <3>1 DEF Consume, TypeOK, Confirmation, Instant
    <3>4. UNCHANGED sessions
      BY <1>5 DEF Confirm
    <3> QED
      BY <2>1, <3>2, <3>3, <3>4, Answered DEF TypeOK, Status, Presented
  <2>2. CASE Completed(w, 400, NoUuid) /\ UNCHANGED tables
    BY <2>2, Answered DEF TypeOK, tables, Status, Presented
  <2> QED
    BY <1>5, <2>1, <2>2 DEF Confirm, tables
<1>6. ASSUME NEW w \in Worker, Login(w)
      PROVE  TypeOK'
  <2> DEFINE a == Normalized(task[w].req)
  <2>1. a \in Address
    BY <1>6, RequestFields DEF Login, Runs, TypeOK, Task, Normalized
  <2>2. sessions' \in [Uuid -> Session \cup {NoRow}]
    BY <1>6, <2>1 DEF Login, TypeOK, NewSession, Session, Instant, Fresh
  <2>3. \E s \in Status, t \in Presented : Completed(w, s, t)
    BY <1>6 DEF Login, Status, Presented, Fresh
  <2> QED
    BY <1>6, <2>2, <2>3, Answered DEF TypeOK, Login
<1>7. ASSUME NEW w \in Worker, Logout(w)
      PROVE  TypeOK'
  <2>1. sessions' \in [Uuid -> Session \cup {NoRow}]
    BY <1>7 DEF Logout, Closable, Revoke, TypeOK, Session, Instant
  <2>2. Completed(w, 204, NoUuid)
    BY <1>7 DEF Logout
  <2> QED
    BY <1>7, <2>1, <2>2, Answered DEF TypeOK, Logout, Status, Presented
<1>8. ASSUME NEW w \in Worker, Deliver(w) \/ Drop(w) \/ Crash(w)
      PROVE  TypeOK'
  <2>1. task' = [task EXCEPT ![w] = Idle] /\ UNCHANGED tables /\ UNCHANGED now
    BY <1>8 DEF Deliver, Drop, Crash
  <2>2. task' \in [Worker -> Task]
    BY <2>1, TasksTyped DEF TypeOK
  <2>3. \A x \in Worker : Checked(x)'
    BY <2>1 DEF TypeOK, Checked, Runs, Idle
  <2>4. DatabaseTypeOK'
    BY <1>8, LinkTyped DEF Deliver, Drop, Crash, TypeOK
  <2>5. known' \subseteq Uuid /\ closed' \subseteq Uuid
    BY <1>8 DEF Deliver, Drop, Crash, TypeOK, clients, AnswersAreTrue,
                  TrueAnswer
  <2> QED
    BY <2>1, <2>2, <2>3, <2>4, <2>5 DEF TypeOK, tables
<1>9. CASE (\E w \in Worker : Start(w)) \/ Tick \/ Environment \/ UNCHANGED vars
  <2>1. UNCHANGED <<tables, task, clients>> /\ now' \in {now, now + 1}
    BY <1>9 DEF Start, Tick, Environment, vars, tables, clients
  <2>2. DatabaseTypeOK'
    BY <1>9, LinkTyped
       DEF Start, Tick, Environment, vars, TypeOK, dbVars
  <2> QED
    BY <2>1, <2>2 DEF TypeOK, tables, clients, Checked, Runs
<1> QED
  BY <1>1, <1>2, <1>3, <1>4, <1>5, <1>6, <1>7, <1>8, <1>9 DEF Next, Serve

-----------------------------------------------------------------------------
(* What a step does to the tables.                                         *)

\* The four statements that write, each with what its WHERE clause and the
\* constraints of the tables guarantee, and the steps that write nothing.
Registers(a, p, t) ==
  /\ users[a] = NoRow /\ Lower[a] = a /\ t \in Fresh
  /\ NewUser(a, p) /\ NewConfirmation(t, a) /\ UNCHANGED <<sessions, now>>
Confirms(t) ==
  Confirmable(t) /\ Consume(t) /\ UNCHANGED <<sessions, now>>
Opens(t, a) ==
  /\ users[a] # NoRow /\ users[a].confirmed # Never /\ t \in Fresh
  /\ NewSession(t, a) /\ UNCHANGED <<users, confirmations, now>>
Closes(t) ==
  Closable(t) /\ Revoke(t) /\ UNCHANGED <<users, confirmations, now>>
WritesNothing ==
  UNCHANGED tables /\ now' \in {now, now + 1}

\* Every step of the specification writes as one of these.
LEMMA TableSteps ==
  ASSUME TypeOK, [Next]_vars
  PROVE  \/ WritesNothing
         \/ \E a \in Address, p \in StrongPassword, t \in Uuid : Registers(a, p, t)
         \/ \E t \in Uuid : Confirms(t)
         \/ \E t \in Uuid, a \in Address : Opens(t, a)
         \/ \E t \in Uuid : Closes(t)
<1> USE AccountsAssumption
<1>1. ASSUME NEW w \in Worker, Register(w)
      PROVE  WritesNothing \/ \E a \in Address, p \in StrongPassword, t \in Uuid :
                                Registers(a, p, t)
  <2> DEFINE a == Normalized(task[w].req)
             p == task[w].req.password
  <2>1. /\ a \in Address /\ Lower[a] = a /\ p \in StrongPassword
    BY <1>1, RequestFields DEF Register, Runs, TypeOK, Task, Checked, Normalized
  <2>2. UNCHANGED <<sessions, now>>
    BY <1>1 DEF Register, Completed
  <2>3. CASE users[a] = NoRow /\ PgLower[a] = a
    BY <1>1, <2>1, <2>2, <2>3 DEF Register, Registers, Fresh
  <2>4. CASE ~(users[a] = NoRow /\ PgLower[a] = a)
    BY <1>1, <2>2, <2>4 DEF Register, WritesNothing, tables
  <2> QED
    BY <2>3, <2>4
<1>2. ASSUME NEW w \in Worker, Confirm(w)
      PROVE  WritesNothing \/ \E t \in Uuid : Confirms(t)
  BY <1>2 DEF Confirm, Completed, Confirms, Confirmable, WritesNothing, tables
<1>3. ASSUME NEW w \in Worker, Login(w)
      PROVE  WritesNothing \/ \E t \in Uuid, a \in Address : Opens(t, a)
  <2>1. Normalized(task[w].req) \in Address
    BY <1>3, RequestFields DEF Login, Runs, TypeOK, Task, Normalized
  <2> QED
    BY <1>3, <2>1
       DEF Login, Completed, Opens, Candidate, Fresh, WritesNothing, tables
<1>4. ASSUME NEW w \in Worker, Logout(w)
      PROVE  WritesNothing \/ \E t \in Uuid : Closes(t)
  BY <1>4 DEF Logout, Completed, Closes, Closable, WritesNothing, tables
<1>5. ASSUME NEW w \in Worker,
             \/ \E r \in Requests : Receive(w, r)
             \/ Authenticate(w) \/ Fail(w) \/ Deliver(w) \/ Drop(w)
             \/ Crash(w) \/ Start(w)
      PROVE  WritesNothing
  BY <1>5 DEF Receive, Authenticate, Fail, Deliver, Drop, Crash, Start,
              WritesNothing
<1>6. CASE Tick \/ Environment \/ UNCHANGED vars
  BY <1>6 DEF Tick, Environment, vars, WritesNothing, tables
<1> QED
  BY <1>1, <1>2, <1>3, <1>4, <1>5, <1>6 DEF Next, Serve

\* No step removes a row or rewrites what is written once.
LEMMA RowsStep ==
  ASSUME TypeOK, OneAccountPerMailbox, [Next]_vars
  PROVE  RowsKept
<1>1. CASE WritesNothing
  BY <1>1 DEF WritesNothing, RowsKept, tables
<1>2. CASE \E a \in Address, p \in StrongPassword, t \in Uuid : Registers(a, p, t)
  BY <1>2, NoRowAssumption
     DEF Registers, NewUser, NewConfirmation, Fresh, RowsKept, TypeOK
<1>3. ASSUME NEW t \in Uuid, Confirms(t)
      PROVE  RowsKept
  <2> DEFINE u == confirmations[t].user
  <2>1. /\ confirmations[t] \in Confirmation /\ u \in Address
        /\ users[u] \in User
    BY <1>3 DEF Confirms, Confirmable, TypeOK, OneAccountPerMailbox, Confirmation
  <2>2. users'[u] \in User /\ confirmations'[t] \in Confirmation
    BY <1>3, <2>1 DEF Confirms, Consume, TypeOK, User, Confirmation, Instant
  <2>3. \A a \in Address : users[a] # NoRow =>
          /\ users'[a] # NoRow
          /\ users'[a].password = users[a].password
          /\ users[a].confirmed # Never => users'[a] = users[a]
    BY <1>3, <2>1, <2>2, NoRowAssumption DEF Confirms, Consume, TypeOK, User
  <2>4. \A s \in Uuid : confirmations[s] # NoRow =>
          /\ confirmations'[s] # NoRow
          /\ confirmations'[s].user = confirmations[s].user
          /\ confirmations'[s].expires = confirmations[s].expires
          /\ confirmations[s].consumed # Never =>
               confirmations'[s] = confirmations[s]
    BY <1>3, <2>1, <2>2, NoRowAssumption
       DEF Confirms, Confirmable, Consume, TypeOK, Confirmation
  <2> QED
    BY <1>3, <2>3, <2>4 DEF Confirms, RowsKept
<1>4. CASE \E t \in Uuid, a \in Address : Opens(t, a)
  BY <1>4 DEF Opens, NewSession, Fresh, RowsKept, TypeOK
<1>5. ASSUME NEW t \in Uuid, Closes(t)
      PROVE  RowsKept
  <2>1. sessions[t] \in Session /\ sessions'[t] \in Session
    BY <1>5 DEF Closes, Closable, Revoke, TypeOK, Session, Instant
  <2> QED
    BY <1>5, <2>1, NoRowAssumption
       DEF Closes, Closable, Revoke, RowsKept, TypeOK, Session
<1> QED
  BY <1>1, <1>2, <1>3, <1>4, <1>5, TableSteps

-----------------------------------------------------------------------------
(* The inductive invariant.                                                *)

\* Only POST /auth/register adds an account or a token, and it adds one of each,
\* for an address that has none.
LEMMA OneAccountStep ==
  ASSUME TypeOK, OneAccountPerMailbox, [Next]_vars
  PROVE  OneAccountPerMailbox'
<1>1. CASE WritesNothing \/ (\E t \in Uuid, a \in Address : Opens(t, a))
                         \/ (\E t \in Uuid : Closes(t))
  BY <1>1 DEF WritesNothing, tables, Opens, Closes, OneAccountPerMailbox
<1>2. ASSUME NEW a \in Address, NEW p \in StrongPassword, NEW t \in Uuid,
             Registers(a, p, t)
      PROVE  OneAccountPerMailbox'
  <2>1. /\ users' = [users EXCEPT ![a] = [password |-> p, confirmed |-> Never]]
        /\ users'[a] \in User /\ users'[a] # NoRow
    BY <1>2, NoRowAssumption DEF Registers, NewUser, User, Instant, TypeOK
  <2>2. /\ \A s \in Uuid : s # t => confirmations'[s] = confirmations[s]
        /\ confirmations[t] = NoRow
        /\ confirmations'[t] \in Confirmation /\ confirmations'[t] # NoRow
        /\ confirmations'[t].user = a
    BY <1>2, NoRowAssumption, AccountsAssumption
       DEF Registers, NewConfirmation, Fresh, Confirmation, Instant, TypeOK
  <2>3. \A s \in Uuid : confirmations[s] # NoRow =>
          confirmations[s].user \in Address /\ confirmations[s].user # a
    BY <1>2 DEF Registers, OneAccountPerMailbox, TypeOK, Confirmation
  <2> QED
    BY <1>2, <2>1, <2>2, <2>3 DEF Registers, OneAccountPerMailbox, TypeOK
<1>3. ASSUME NEW t \in Uuid, Confirms(t)
      PROVE  OneAccountPerMailbox'
  <2>1. RowsKept
    BY RowsStep
  <2>2. /\ \A a \in Address : users[a] = NoRow => users'[a] = NoRow
        /\ \A s \in Uuid : confirmations[s] = NoRow => confirmations'[s] = NoRow
    BY <1>3 DEF Confirms, Confirmable, Consume, TypeOK, OneAccountPerMailbox
  <2>3. \A s \in Uuid : confirmations[s] # NoRow =>
                          confirmations[s].user \in Address
    BY DEF TypeOK, Confirmation
  <2> QED
    BY <2>1, <2>2, <2>3 DEF RowsKept, OneAccountPerMailbox
<1> QED
  BY <1>1, <1>2, <1>3, TableSteps

\* POST /auth/confirm stamps the token and its account with the same instant,
\* and the clock never goes back.
LEMMA ConfirmedStep ==
  ASSUME TypeOK, OneAccountPerMailbox, ConfirmedByItsToken, [Next]_vars
  PROVE  ConfirmedByItsToken'
<1> USE AccountsAssumption, NoRowAssumption
<1>1. CASE WritesNothing \/ (\E t \in Uuid, a \in Address : Opens(t, a))
                         \/ (\E t \in Uuid : Closes(t))
  <2>1. UNCHANGED <<users, confirmations>> /\ now' >= now /\ now' \in Nat
    BY <1>1 DEF WritesNothing, tables, Opens, Closes, TypeOK
  <2>2. \A t \in Uuid : confirmations[t] # NoRow =>
                          confirmations[t].consumed \in Instant
    BY DEF TypeOK, Confirmation
  <2> QED
    BY <2>1, <2>2 DEF ConfirmedByItsToken, TypeOK, Instant, Never
<1>2. ASSUME NEW a \in Address, NEW p \in StrongPassword, NEW t \in Uuid,
             Registers(a, p, t)
      PROVE  ConfirmedByItsToken'
  <2>1. /\ users'[a].confirmed = Never
        /\ \A b \in Address : b # a => users'[b] = users[b]
    BY <1>2 DEF Registers, NewUser, TypeOK
  <2>2. /\ \A s \in Uuid : s # t => confirmations'[s] = confirmations[s]
        /\ confirmations'[t] =
             [user |-> a, expires |-> now + ConfirmationTtl, consumed |-> Never]
    BY <1>2 DEF Registers, NewConfirmation, TypeOK
  <2>3. \A s \in Uuid : confirmations[s] # NoRow =>
          confirmations[s].user \in Address /\ confirmations[s].user # a
    BY <1>2 DEF Registers, OneAccountPerMailbox, TypeOK, Confirmation
  <2>4. Never < now + ConfirmationTtl /\ Never <= now /\ now' = now
    BY <1>2 DEF Registers, Never, TypeOK
  <2> QED
    BY <2>1, <2>2, <2>3, <2>4 DEF ConfirmedByItsToken
<1>3. ASSUME NEW t \in Uuid, Confirms(t)
      PROVE  ConfirmedByItsToken'
  <2> DEFINE u == confirmations[t].user
  <2>1. /\ confirmations[t] \in Confirmation /\ confirmations[t] # NoRow
        /\ u \in Address /\ users[u] \in User
        /\ confirmations[t].consumed = Never
        /\ confirmations[t].expires > now /\ now' = now
    BY <1>3 DEF Confirms, Confirmable, TypeOK, OneAccountPerMailbox, Confirmation
  <2>2. users[u].confirmed = Never
    BY <2>1 DEF ConfirmedByItsToken
  <2>3. /\ users'[u].confirmed = now
        /\ \A b \in Address : b # u => users'[b] = users[b]
    BY <1>3, <2>1, <2>2 DEF Confirms, Consume, TypeOK, User
  <2>4. /\ \A s \in Uuid : s # t => confirmations'[s] = confirmations[s]
        /\ confirmations'[t].consumed = now
        /\ confirmations'[t].user = u
        /\ confirmations'[t].expires = confirmations[t].expires
    BY <1>3, <2>1 DEF Confirms, Consume, TypeOK, Confirmation
  <2>5. \A s \in Uuid : s # t /\ confirmations[s] # NoRow =>
          confirmations[s].user \in Address /\ confirmations[s].user # u
    BY <2>1 DEF OneAccountPerMailbox, TypeOK, Confirmation
  <2>6. ASSUME NEW s \in Uuid, confirmations'[s] # NoRow
        PROVE  /\ users'[confirmations'[s].user].confirmed
                    = confirmations'[s].consumed
               /\ confirmations'[s].consumed < confirmations'[s].expires
               /\ confirmations'[s].consumed <= now'
    <3>1. CASE s = t
      BY <2>1, <2>3, <2>4, <3>1 DEF TypeOK, Confirmation
    <3>2. CASE s # t
      BY <2>1, <2>3, <2>4, <2>5, <2>6, <3>2 DEF ConfirmedByItsToken
    <3> QED
      BY <3>1, <3>2
  <2> QED
    BY <2>6 DEF ConfirmedByItsToken
<1> QED
  BY <1>1, <1>2, <1>3, TableSteps

\* POST /auth/login grants a session to a confirmed account, for TokenTtl hours
\* counted from no earlier than its confirmation.
LEMMA SessionsStep ==
  ASSUME TypeOK, OneAccountPerMailbox, ConfirmedByItsToken,
         SessionsOnlyForConfirmed, [Next]_vars
  PROVE  SessionsOnlyForConfirmed'
<1>1. RowsKept
  BY RowsStep
<1>2. ASSUME NEW s \in Uuid, sessions'[s] # NoRow, sessions[s] # NoRow
      PROVE  /\ sessions[s].user \in Address
             /\ sessions'[s].user = sessions[s].user
             /\ sessions'[s].expires = sessions[s].expires
             /\ users'[sessions[s].user] = users[sessions[s].user]
             /\ users[sessions[s].user] # NoRow
  BY <1>1, <1>2 DEF RowsKept, TypeOK, Session, SessionsOnlyForConfirmed
<1>3. ASSUME NEW s \in Uuid, sessions'[s] # NoRow, sessions[s] = NoRow
      PROVE  \E a \in Address : Opens(s, a)
  BY <1>3, TableSteps
     DEF WritesNothing, tables, Registers, Confirms, Opens, Closes, Closable,
         NewSession, Revoke, TypeOK
<1>4. ASSUME NEW a \in Address, users[a] # NoRow, users[a].confirmed # Never
      PROVE  users[a].confirmed \in Nat /\ users[a].confirmed <= now
  <2>1. PICK t \in Uuid : confirmations[t] # NoRow /\ confirmations[t].user = a
    BY <1>4 DEF OneAccountPerMailbox
  <2>2. users[a] \in User
    BY <1>4 DEF TypeOK
  <2> QED
    BY <1>4, <2>1, <2>2 DEF ConfirmedByItsToken, User, Instant
<1>5. ASSUME NEW s \in Uuid, NEW a \in Address, Opens(s, a)
      PROVE  /\ sessions'[s].user = a
             /\ sessions'[s].expires = now + TokenTtl
             /\ users'[a] = users[a]
             /\ users[a] # NoRow /\ users[a].confirmed # Never
  BY <1>5 DEF Opens, NewSession, TypeOK
<1>6. ASSUME NEW s \in Uuid, sessions'[s] # NoRow
      PROVE  LET u == users'[sessions'[s].user]
             IN  /\ u # NoRow /\ u.confirmed # Never
                 /\ u.confirmed + TokenTtl <= sessions'[s].expires
  <2>1. CASE sessions[s] # NoRow
    BY <1>2, <1>6, <2>1 DEF SessionsOnlyForConfirmed
  <2>2. CASE sessions[s] = NoRow
    <3>1. PICK a \in Address : Opens(s, a)
      BY <1>3, <1>6, <2>2
    <3>2. users[a].confirmed + TokenTtl <= now + TokenTtl
      BY <1>4, <1>5, <3>1, AccountsAssumption DEF TypeOK
    <3> QED
      BY <1>5, <3>1, <3>2
  <2> QED
    BY <2>1, <2>2
<1> QED
  BY <1>6 DEF SessionsOnlyForConfirmed

-----------------------------------------------------------------------------
(* The answers.                                                            *)

\* Only a worker's own step changes what it is doing.
LEMMA WhoActs ==
  ASSUME TypeOK, [Next]_vars, NEW w \in Worker, task'[w] # task[w]
  PROVE  \/ Register(w) \/ Confirm(w) \/ Login(w) \/ Logout(w)
         \/ \E r \in Requests : Receive(w, r)
         \/ Authenticate(w) \/ Fail(w) \/ Deliver(w) \/ Drop(w) \/ Crash(w)
<1>1. ASSUME NEW x \in Worker,
             \/ Register(x) \/ Confirm(x) \/ Login(x) \/ Logout(x)
             \/ \E r \in Requests : Receive(x, r)
             \/ Authenticate(x) \/ Fail(x) \/ Deliver(x) \/ Drop(x) \/ Crash(x)
      PROVE  x = w
  <2>1. \E v : task' = [task EXCEPT ![x] = v]
    BY <1>1 DEF Register, Confirm, Login, Logout, Completed, Answer, Receive,
                Authenticate, Fail, Deliver, Drop, Crash
  <2> QED
    BY <2>1 DEF TypeOK
<1>2. ~((\E x \in Worker : Start(x)) \/ Tick \/ Environment \/ UNCHANGED vars)
  BY DEF Start, Tick, Environment, vars
<1> QED
  BY <1>1, <1>2 DEF Next, Serve

\* An answer that is true stays true until it is read.
LEMMA AnswerStays ==
  ASSUME TypeOK, RowsKept, NEW w \in Worker, TrueAnswer(w), task'[w] = task[w]
  PROVE  TrueAnswer(w)'
<1>1. task[w].req \in Request
  BY DEF TypeOK, Task
<1>2. task[w].req.kind \in {"register", "login"}
        => Normalized(task[w].req) \in Address
  BY <1>1, RequestFields, AccountsAssumption DEF Normalized
<1> QED
  BY <1>2 DEF TrueAnswer, RowsKept, Normalized

\* Every step gives true answers and keeps the earlier ones true.
LEMMA AnswersStep ==
  ASSUME TypeOK, OneAccountPerMailbox, AnswersAreTrue, AuthenticatedHasSession,
         [Next]_vars
  PROVE  AnswersAreTrue'
<1> USE AccountsAssumption
<1>1. RowsKept
  BY RowsStep
<1>2. SUFFICES ASSUME NEW w \in Worker, task'[w] # task[w]
               PROVE  TrueAnswer(w)'
  BY <1>1, AnswerStays DEF AnswersAreTrue
<1>3. ASSUME NEW s \in Status, NEW t \in Presented, Completed(w, s, t)
      PROVE  task' = [task EXCEPT ![w] = Reply(task[w].req, s, t)] \/ TrueAnswer(w)'
  <2>1. CASE Answer(w, ErrorStatus(w), NoUuid)
    <3>1. ErrorStatus(w) \in {0, 400, 401, 409, 500} /\ NoUuid \in Presented
      BY DEF ErrorStatus, Presented
    <3> QED
      BY <2>1, <3>1 DEF Answer, TypeOK, TrueAnswer, Reply
  <2> QED
    BY <1>3, <2>1 DEF Completed, Answer
<1>4. ASSUME NEW s \in Status, NEW t \in Presented,
             task' = [task EXCEPT ![w] = Reply(task[w].req, s, t)]
      PROVE  /\ task'[w] = Reply(task[w].req, s, t)
             /\ s \in {0, 400, 401, 409, 500} => TrueAnswer(w)'
  <2>1. task'[w] = Reply(task[w].req, s, t)
    BY <1>4 DEF TypeOK
  <2> QED
    BY <1>4, <2>1 DEF TrueAnswer, Reply
<1>5. ASSUME Register(w) PROVE TrueAnswer(w)'
  <2> DEFINE r == task[w].req
             a == Normalized(r)
  <2>1. a \in Address /\ r.kind = "register"
    BY <1>5, RequestFields DEF Register, Runs, TypeOK, Task, Normalized
  <2>2. CASE Completed(w, 500, NoUuid) \/ Completed(w, 409, NoUuid)
    BY <1>3, <1>4, <2>2 DEF Status, Presented
  <2>3. ASSUME NEW t \in Fresh, NewUser(a, r.password), NewConfirmation(t, a),
               Completed(w, 201, Exposed(t))
        PROVE  TrueAnswer(w)'
    <3>1. users'[a] = [password |-> r.password, confirmed |-> Never]
          /\ users'[a] # NoRow
      BY <1>5, <2>1, <2>3, RequestFields, NoRowAssumption
         DEF NewUser, Register, Runs, Checked, TypeOK, User, Instant
    <3>2. confirmations'[t] # NoRow /\ confirmations'[t].user = a
      BY <2>1, <2>3, NoRowAssumption
         DEF NewConfirmation, Fresh, TypeOK, Confirmation, Instant
    <3>3. CASE task'[w] = Reply(r, 201, Exposed(t))
      BY <2>1, <3>1, <3>2, <3>3 DEF TrueAnswer, Reply, Exposed, Normalized
    <3> QED
      BY <1>3, <1>4, <2>3, <3>3 DEF Status, Presented, Exposed, Fresh
  <2> QED
    BY <1>5, <2>2, <2>3 DEF Register
<1>6. ASSUME Confirm(w) PROVE TrueAnswer(w)'
  <2> DEFINE t == task[w].req.token
  <2>1. CASE Completed(w, 400, NoUuid)
    BY <1>3, <1>4, <2>1 DEF Status, Presented
  <2>2. CASE Confirmable(t) /\ Consume(t) /\ Completed(w, 200, NoUuid)
    <3>1. t \in Uuid /\ confirmations'[t] # NoRow
      BY <1>1, <2>2 DEF Confirmable, RowsKept
    <3>2. confirmations'[t].consumed # Never
      BY <2>2, <3>1 DEF Confirmable, Consume, TypeOK, Confirmation, Never
    <3>3. CASE task'[w] = Reply(task[w].req, 200, NoUuid)
      BY <1>6, <3>1, <3>2, <3>3 DEF Confirm, Runs, TrueAnswer, Reply
    <3> QED
      BY <1>3, <1>4, <2>2, <3>3 DEF Status, Presented
  <2> QED
    BY <1>6, <2>1, <2>2 DEF Confirm
<1>7. ASSUME Login(w) PROVE TrueAnswer(w)'
  <2> DEFINE r == task[w].req
             a == Normalized(r)
  <2>1. a \in Address /\ r.kind = "login"
    BY <1>7, RequestFields DEF Login, Runs, TypeOK, Task, Normalized
  <2>2. CASE Completed(w, 401, NoUuid)
    BY <1>3, <1>4, <2>2 DEF Status, Presented
  <2>3. ASSUME NEW t \in Fresh, Candidate(a, r.password), NewSession(t, a),
               Completed(w, 200, t)
        PROVE  TrueAnswer(w)'
    <3>1. users'[a] # NoRow /\ users'[a].password = r.password
      BY <1>1, <2>1, <2>3 DEF RowsKept, Candidate
    <3>2. t \in Uuid /\ sessions'[t] # NoRow /\ sessions'[t].user = a
      BY <2>1, <2>3, NoRowAssumption
         DEF NewSession, Fresh, TypeOK, Session, Instant
    <3>3. CASE task'[w] = Reply(r, 200, t)
      BY <2>1, <3>1, <3>2, <3>3 DEF TrueAnswer, Reply, Normalized
    <3> QED
      BY <1>3, <1>4, <2>3, <3>3 DEF Status, Presented, Exposed, Fresh
  <2> QED
    BY <1>7, <2>2, <2>3 DEF Login
<1>8. ASSUME Logout(w) PROVE TrueAnswer(w)'
  <2> DEFINE t == task[w].req.token
  <2>1. t \in Uuid /\ sessions[t] # NoRow
    BY <1>8 DEF Logout, AuthenticatedHasSession
  <2>2. sessions'[t] # NoRow
    BY <1>1, <2>1 DEF RowsKept
  <2>3. sessions'[t].revoked # Never
    BY <1>8, <2>1 DEF Logout, Closable, Revoke, TypeOK, Session, Never
  <2>4. CASE task'[w] = Reply(task[w].req, 204, NoUuid)
    BY <1>8, <2>1, <2>2, <2>3, <2>4 DEF Logout, Runs, TrueAnswer, Reply
  <2> QED
    BY <1>3, <1>4, <1>8, <2>4 DEF Logout, Status, Presented
<1>9. ASSUME NEW r \in Requests, Receive(w, r)
      PROVE  TrueAnswer(w)'
  <2>1. Refused(r) \in {0, 400, 401}
    BY DEF Refused
  <2> QED
    BY <1>9, <2>1 DEF Receive, TypeOK, TrueAnswer, Reply, Step
<1>10. CASE Authenticate(w) \/ Fail(w)
  <2>1. CASE Authenticate(w)
    <3>1. task'[w] \in {Step("statement", task[w].req),
                        Reply(task[w].req, 401, NoUuid)}
      BY <2>1 DEF Authenticate, Answer, TypeOK
    <3> QED
      BY <3>1 DEF TrueAnswer, Step, Reply
  <2>2. CASE Fail(w)
    <3>1. task'[w] = Reply(task[w].req, ErrorStatus(w), NoUuid)
      BY <2>2 DEF Fail, Answer, TypeOK
    <3>2. ErrorStatus(w) \in {400, 401, 500}
      BY DEF ErrorStatus
    <3> QED
      BY <3>1, <3>2 DEF TrueAnswer, Reply
  <2> QED
    BY <1>10, <2>1, <2>2
<1>11. CASE Deliver(w) \/ Drop(w) \/ Crash(w)
  BY <1>11 DEF Deliver, Drop, Crash, TypeOK, TrueAnswer, Idle
<1>12. \/ Register(w) \/ Confirm(w) \/ Login(w) \/ Logout(w)
       \/ \E r \in Requests : Receive(w, r)
       \/ Authenticate(w) \/ Fail(w) \/ Deliver(w) \/ Drop(w) \/ Crash(w)
  BY <1>2, WhoActs
<1> QED
  BY <1>5, <1>6, <1>7, <1>8, <1>9, <1>10, <1>11, <1>12

\* A logout that is about to run its UPDATE has been through the SELECT.
LEMMA AuthenticatedStep ==
  ASSUME TypeOK, OneAccountPerMailbox, AuthenticatedHasSession, [Next]_vars
  PROVE  AuthenticatedHasSession'
<1>1. RowsKept
  BY RowsStep
<1>2. SUFFICES ASSUME NEW w \in Worker, Runs(w, "logout")'
               PROVE  /\ task'[w].req.token \in Uuid
                      /\ sessions'[task'[w].req.token] # NoRow
  BY DEF AuthenticatedHasSession
<1>3. CASE task'[w] = task[w]
  BY <1>1, <1>2, <1>3 DEF AuthenticatedHasSession, Runs, RowsKept
<1>4. CASE Authenticate(w)
  BY <1>1, <1>2, <1>4
     DEF Authenticate, Answer, Reply, Step, Runs, Live, TypeOK, RowsKept
<1>5. CASE task'[w] # task[w] /\ ~Authenticate(w)
  <2>1. CASE Register(w) \/ Confirm(w) \/ Login(w) \/ Logout(w) \/ Fail(w)
    BY <1>2, <2>1 DEF Register, Confirm, Login, Logout, Completed, Fail, Answer,
                      Reply, Runs, TypeOK
  <2>2. CASE Deliver(w) \/ Drop(w) \/ Crash(w)
    BY <1>2, <2>2 DEF Deliver, Drop, Crash, Idle, Runs, TypeOK
  <2>3. ASSUME NEW r \in Requests, Receive(w, r)
        PROVE  FALSE
    BY <1>2, <2>3 DEF Receive, Step, Reply, Runs, TypeOK
  <2> QED
    BY <1>5, <2>1, <2>2, <2>3, WhoActs
<1> QED
  BY <1>3, <1>4, <1>5

\* A token is closed by the delivery of a true 204.
LEMMA ClosedStep ==
  ASSUME TypeOK, OneAccountPerMailbox, AnswersAreTrue, ClosedAreRevoked,
         [Next]_vars
  PROVE  ClosedAreRevoked'
<1>1. RowsKept
  BY RowsStep
<1>2. CASE UNCHANGED closed
  BY <1>1, <1>2 DEF ClosedAreRevoked, RowsKept, TypeOK
<1>3. ASSUME NEW w \in Worker, Deliver(w)
      PROVE  ClosedAreRevoked'
  BY <1>3 DEF Deliver, tables, ClosedAreRevoked, AnswersAreTrue, TrueAnswer
<1>4. UNCHANGED closed \/ \E w \in Worker : Deliver(w)
  BY DEF Next, Serve, Receive, Authenticate, Fail, Register, Confirm, Login,
         Logout, Completed, Drop, Crash, Start, Tick, Environment, clients, vars
<1> QED
  BY <1>2, <1>3, <1>4

\* The invariant holds at the start: the tables are empty, the workers idle.
LEMMA InductiveInit == Init => Inductive
BY TypeInit
   DEF Init, Inductive, OneAccountPerMailbox, ConfirmedByItsToken,
       SessionsOnlyForConfirmed, AnswersAreTrue, TrueAnswer,
       AuthenticatedHasSession, ClosedAreRevoked, Runs, Idle

\* Every step keeps it.
LEMMA InductiveNext == Inductive /\ [Next]_vars => Inductive'
BY TypeNext, OneAccountStep, ConfirmedStep, SessionsStep, AnswersStep,
   AuthenticatedStep, ClosedStep DEF Inductive

-----------------------------------------------------------------------------
(* The theorems.                                                           *)

\* Inductive is an invariant: the tables, the handlers and what the clients
\* have been told agree after any interleaving of statements, crashes, lost
\* results and lost answers.
THEOREM InductiveIsInvariant == Spec => []Inductive
BY InductiveInit, InductiveNext, PTL DEF Spec

\* The tables and the locals of the handlers have their types; no account is
\* stored with a short password.
THEOREM TypeCorrect == Spec => []TypeOK
BY InductiveIsInvariant, PTL DEF Inductive

\* Two registrations of one address, in any spelling, never make two accounts,
\* nor two tokens for one account.
THEOREM OneAccountCorrect == Spec => []OneAccountPerMailbox
BY InductiveIsInvariant, PTL DEF Inductive

\* A confirmed account is one whose token was spent in time, and at once.
THEOREM ConfirmationCorrect == Spec => []ConfirmedByItsToken
BY InductiveIsInvariant, PTL DEF Inductive

\* No session without a confirmed account.
THEOREM SessionsCorrect == Spec => []SessionsOnlyForConfirmed
BY InductiveIsInvariant, PTL DEF Inductive

\* A success answer is never a lie.
THEOREM AnswersCorrect == Spec => []AnswersAreTrue
BY InductiveIsInvariant, PTL DEF Inductive

\* What is written once is never rewritten.
THEOREM RowsCorrect == Spec => RowsAreFinal
<1>1. Inductive /\ [Next]_vars => [RowsKept]_vars
  BY RowsStep DEF Inductive
<1> QED
  BY <1>1, InductiveIsInvariant, PTL DEF Spec, RowsAreFinal

\* After the 204 of a logout no worker accepts the token again.
THEOREM LogoutCorrect == Spec => ClosedNeverAuthenticates
<1> DEFINE A == \A w \in Worker :
                  task[w].stage = "authenticate" /\ task'[w].stage = "statement"
                  => task[w].req.token \notin closed
<1>1. ASSUME Inductive, [Next]_vars
      PROVE  A
  <2> SUFFICES ASSUME NEW w \in Worker,
                      task[w].stage = "authenticate",
                      task'[w].stage = "statement"
               PROVE  task[w].req.token \notin closed
    OBVIOUS
  <2>1. TypeOK /\ ClosedAreRevoked
    BY <1>1 DEF Inductive
  <2>2. \/ Authenticate(w) \/ Fail(w)
        \/ Deliver(w) \/ Drop(w) \/ Crash(w)
    BY <1>1, <2>1, WhoActs
       DEF Register, Confirm, Login, Logout, Runs, Receive, Idle
  <2>3. CASE Authenticate(w)
    BY <2>1, <2>3 DEF Authenticate, Answer, Reply, Live, ClosedAreRevoked, TypeOK
  <2>4. CASE Fail(w) \/ Deliver(w) \/ Drop(w) \/ Crash(w)
    BY <2>1, <2>4 DEF Fail, Answer, Reply, Deliver, Drop, Crash, Idle, TypeOK
  <2> QED
    BY <2>2, <2>3, <2>4
<1>2. Inductive /\ [Next]_vars => [A]_vars
  BY <1>1
<1> QED
  BY <1>2, InductiveIsInvariant, PTL DEF Spec, ClosedNeverAuthenticates


-----------------------------------------------------------------------------
(* The secret of the confirmation token.                                   *)

\* Behind ConfirmationTokenIsSecret: no key names rows of both kinds, and a
\* token a client holds, or is being sent, is a session's, unless the answer
\* to a registration exposes its token.
SecretInv ==
  /\ \A t \in Uuid : sessions[t] # NoRow => confirmations[t] = NoRow
  /\ ~ExposeConfirmationToken =>
       /\ \A t \in known : sessions[t] # NoRow
       /\ \A w \in Worker : task[w].token \in Uuid => sessions[task[w].token] # NoRow

\* No step lets a confirmation token out of the tables while the configuration
\* does not expose it: POST /auth/login draws its tokens elsewhere.
LEMMA SecretStep ==
  ASSUME TypeOK, OneAccountPerMailbox, SecretInv, [Next]_vars
  PROVE  SecretInv'
<1>1. RowsKept
  BY RowsStep
<1>2. ASSUME NEW t \in Uuid, sessions'[t] # NoRow
      PROVE  confirmations'[t] = NoRow
  <2>1. CASE WritesNothing \/ (\E s \in Uuid, a \in Address : Opens(s, a))
                           \/ (\E s \in Uuid : Closes(s))
    BY <1>2, <2>1
       DEF WritesNothing, tables, Opens, NewSession, Fresh, Closes, Closable,
           Revoke, TypeOK, SecretInv
  <2>2. CASE \E a \in Address, p \in StrongPassword, s \in Uuid : Registers(a, p, s)
    BY <1>2, <2>2 DEF Registers, NewConfirmation, Fresh, TypeOK, SecretInv
  <2>3. CASE \E s \in Uuid : Confirms(s)
    BY <1>2, <2>3 DEF Confirms, Confirmable, Consume, TypeOK, SecretInv
  <2> QED
    BY <2>1, <2>2, <2>3, TableSteps
<1>3. ASSUME ~ExposeConfirmationToken, NEW w \in Worker, task'[w].token \in Uuid
      PROVE  sessions'[task'[w].token] # NoRow
  <2>1. CASE task'[w] = task[w]
    BY <1>1, <1>3, <2>1 DEF SecretInv, RowsKept
  <2>2. CASE Login(w)
    <3>1. CASE \E t \in Fresh : /\ NewSession(t, Normalized(task[w].req))
                                /\ task'[w].token \in {t, NoUuid}
      <4>1. Normalized(task[w].req) \in Address
        BY <2>2, RequestFields, AccountsAssumption
           DEF Login, Runs, TypeOK, Task, Normalized
      <4> QED
        BY <1>3, <3>1, <4>1, AccountsAssumption, NoRowAssumption
           DEF NewSession, Fresh, TypeOK, Session, Instant
    <3>2. CASE task'[w].token = NoUuid
      BY <1>3, <3>2, AccountsAssumption
    <3> QED
      BY <2>2, <3>1, <3>2 DEF Login, Completed, Answer, Reply, TypeOK
  <2>3. CASE task'[w] # task[w] /\ ~Login(w)
    <3>1. task'[w].token = NoUuid
      BY <1>3, <2>3, WhoActs
         DEF Register, Exposed, Confirm, Logout, Completed, Receive, Authenticate,
             Fail, Deliver, Drop, Crash, Answer, Reply, Step, Idle, TypeOK
    <3> QED
      BY <1>3, <3>1, AccountsAssumption
  <2> QED
    BY <2>1, <2>2, <2>3
<1>4. ASSUME ~ExposeConfirmationToken, NEW t \in known'
      PROVE  sessions'[t] # NoRow
  <2>1. known' = known \/ \E w \in Worker : Deliver(w)
    BY DEF Next, Serve, Receive, Authenticate, Fail, Register, Confirm, Login,
           Logout, Completed, Drop, Crash, Start, Tick, Environment, clients, vars
  <2>2. sessions[t] # NoRow /\ t \in Uuid
    BY <1>4, <2>1 DEF Deliver, SecretInv, TypeOK
  <2> QED
    BY <1>1, <2>2 DEF RowsKept
<1> QED
  BY <1>2, <1>3, <1>4 DEF SecretInv

\* With EXPOSE_CONFIRMATION_TOKEN=false no client ever gets a confirmation
\* token from the API.
THEOREM SecretCorrect == Spec => []ConfirmationTokenIsSecret
<1>1. Init => SecretInv
  BY AccountsAssumption DEF Init, SecretInv, Idle
<1>2. Inductive /\ SecretInv /\ [Next]_vars => SecretInv'
  BY SecretStep DEF Inductive
<1>3. SecretInv => ConfirmationTokenIsSecret
  BY DEF SecretInv, ConfirmationTokenIsSecret
<1> QED
  BY <1>1, <1>2, <1>3, InductiveIsInvariant, PTL DEF Spec

-----------------------------------------------------------------------------
(* Accounts that nobody can confirm.                                       *)

\* A confirmation token that nobody holds when the answer to its registration
\* is gone is never held again.
LEMMA StaysUnreachable ==
  ASSUME TypeOK, [Next]_vars, NEW t \in Uuid, confirmations[t] # NoRow,
         ~Reachable(t)
  PROVE  ~Reachable(t)'
<1> USE AccountsAssumption
<1>1. t \notin known' /\ ExposeConfirmationToken
  <2>1. known' = known \/ \E w \in Worker : Deliver(w)
    BY DEF Next, Serve, Receive, Authenticate, Fail, Register, Confirm, Login,
           Logout, Completed, Drop, Crash, Start, Tick, Environment, clients, vars
  <2> QED
    BY <2>1 DEF Deliver, Reachable, Mailed
<1>2. ASSUME NEW w \in Worker
      PROVE  task'[w].req.token # t /\ task'[w].token # t
  <2>1. CASE task'[w] = task[w]
    BY <2>1 DEF Reachable
  <2>2. ASSUME NEW r \in Requests, Receive(w, r)
        PROVE  task'[w].req.token # t /\ task'[w].token # t
    <3>1. r.token # t
      BY <1>1 DEF Requests, Mailed, Credentials, Bearer, Reachable
    <3> QED
      BY <2>2, <3>1 DEF Receive, Reply, Step, TypeOK
  <2>3. CASE Deliver(w) \/ Drop(w) \/ Crash(w)
    BY <2>3 DEF Deliver, Drop, Crash, Idle, NoRequest, TypeOK
  <2>4. CASE \/ Register(w) \/ Confirm(w) \/ Login(w) \/ Logout(w)
             \/ Authenticate(w) \/ Fail(w)
    <3>1. task'[w].req = task[w].req
      BY <2>4 DEF Register, Confirm, Login, Logout, Completed, Authenticate, Fail,
                  Answer, Reply, Step, TypeOK
    <3>2. task'[w].token \in Fresh \cup {NoUuid}
      BY <2>4 DEF Register, Exposed, Confirm, Login, Logout, Completed,
                  Authenticate, Fail, Answer, Reply, Step, TypeOK
    <3> QED
      BY <3>1, <3>2 DEF Reachable, Fresh
  <2> QED
    BY <2>1, <2>2, <2>3, <2>4, WhoActs
<1> QED
  BY <1>1, <1>2 DEF Reachable, Mailed

\* An account is confirmed only by a request that presents its token.
LEMMA ConfirmedByRequest ==
  ASSUME TypeOK, OneAccountPerMailbox, [Next]_vars, NEW a \in Address,
         users[a] # NoRow, users'[a] # users[a]
  PROVE  \E t \in Uuid : /\ Confirmable(t) /\ Reachable(t)
                         /\ confirmations[t].user = a
<1>1. \A w \in Worker : ~Register(w)
  BY DEF Register, NewUser, TypeOK, Normalized
<1>2. PICK w \in Worker : Confirm(w)
  BY <1>1 DEF Next, Serve, Receive, Authenticate, Fail, Login, Logout, Deliver,
              Drop, Crash, Start, Tick, Environment, tables, vars
<1> DEFINE t == task[w].req.token
<1>3. Confirmable(t) /\ Consume(t)
  BY <1>2 DEF Confirm
<1> QED
  BY <1>3 DEF Confirmable, Consume, Reachable, TypeOK

\* Once the only answer that bore its token is lost, or the token has expired,
\* an address is taken and unusable for good.
THEOREM StrandedCorrect == Spec => StrandedForever
<1> DEFINE A == \A a \in Address : Stranded(a) => Stranded(a)'
<1>1. ASSUME Inductive, [Next]_vars
      PROVE  A
  <2> SUFFICES ASSUME NEW a \in Address, Stranded(a)
               PROVE  Stranded(a)'
    OBVIOUS
  <2>1. TypeOK /\ OneAccountPerMailbox /\ RowsKept
    BY <1>1, RowsStep DEF Inductive
  <2>2. users'[a] = users[a] /\ users[a] # NoRow
    BY <1>1, <2>1, ConfirmedByRequest DEF Stranded, Confirmable, TypeOK, Confirmation
  <2>3. ASSUME NEW t \in Uuid, confirmations'[t] # NoRow,
               confirmations'[t].user = a
        PROVE  ~Reachable(t)' \/ confirmations'[t].expires <= now'
    <3>1. CASE confirmations[t] # NoRow
      <4>1. confirmations[t].user = a /\ confirmations[t].expires \in Nat
            /\ confirmations'[t].expires = confirmations[t].expires
        BY <2>1, <2>3, <3>1 DEF RowsKept, TypeOK, Confirmation
      <4>2. now' \in {now, now + 1} /\ now \in Nat
        BY <1>1, <2>1, TableSteps
           DEF WritesNothing, Registers, Confirms, Opens, Closes, TypeOK
      <4>3. CASE ~Reachable(t)
        BY <1>1, <2>1, <3>1, <4>3, StaysUnreachable
      <4>4. CASE confirmations[t].expires <= now
        BY <4>1, <4>2, <4>4
      <4> QED
        BY <3>1, <4>1, <4>3, <4>4 DEF Stranded
    <3>2. CASE confirmations[t] = NoRow
      <4>1. PICK b \in Address, p \in StrongPassword, s \in Uuid : Registers(b, p, s)
        BY <1>1, <2>1, <2>3, <3>2, TableSteps
           DEF WritesNothing, tables, Confirms, Confirmable, Consume, Opens,
               Closes, TypeOK
      <4>2. t = s /\ b = a
        BY <2>1, <2>3, <3>2, <4>1 DEF Registers, NewConfirmation, TypeOK
      <4> QED
        BY <2>2, <4>1, <4>2 DEF Registers
    <3> QED
      BY <3>1, <3>2
  <2> QED
    BY <2>2, <2>3 DEF Stranded
<1>2. Inductive /\ [Next]_vars => [A]_vars
  BY <1>1
<1> QED
  BY <1>2, InductiveIsInvariant, PTL DEF Spec, StrandedForever

=============================================================================
