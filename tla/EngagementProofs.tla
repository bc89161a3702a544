-------------------------- MODULE EngagementProofs --------------------------
(***************************************************************************)
(* Proofs about Engagement, for every finite set of workers, every set of  *)
(* users, tokens, anonymous ids, contents and keys, and every use clients  *)
(* may make of the workers.                                                *)
(***************************************************************************)
EXTENDS Engagement, FiniteSetTheorems, TLAPS

-----------------------------------------------------------------------------
(* Type correctness.                                                       *)

\* The fields of a request are what its route says.
LEMMA RequestFields ==
  ASSUME NEW r \in Request
  PROVE  /\ r.route \in Public \cup Private /\ r.bearer \in Bearer
         /\ r.route \in Public => /\ r.on \in Content
                                  /\ r.anonymous \in Anon \cup {NoAnon}
                                  /\ r.type \in {"view", "like", "comment"}
         /\ r.route \in Private => r.on \in Key
         /\ r.route = "like" => r.type = "like"
         /\ r.route = "comment" => r.type = "comment"
BY DEF Request, PublicRequest, PrivateRequest, Public, Private

\* A connection moves among the states of LinkState only.
LEMMA LinkTyped ==
  ASSUME DatabaseTypeOK,
         \/ \E w \in Worker : \/ Connect(w) \/ Close(w) \/ QueryReturns(w)
                              \/ QueryLosesResult(w) \/ QueryFails(w)
         \/ DatabaseEnvironment
         \/ UNCHANGED dbVars
  PROVE  DatabaseTypeOK'
BY DEF DatabaseTypeOK, Connect, Close, QueryReturns, QueryLosesResult,
       QueryFails, DatabaseEnvironment, PgStops, PgStarts, LinkDrops, LinkState,
       dbVars

\* What is recorded of a handler's thread, as far as it depends on the owners.
Handler(w) ==
  /\ task[w].stage = "authenticate" => task[w].req.bearer \in Token \cup {Bogus}
  /\ task[w].stage \in {"authenticate", "statement"} => task[w].req \in Requests
  /\ task[w].stage = "statement" =>
       /\ task[w].by \in Actor
       /\ task[w].req.route \in Private => task[w].by[1] = "user"
  /\ task[w].status = 201 => task[w].req \in Request /\ task[w].by \in Actor

\* The stages of a handler are Tasks.
LEMMA TasksTyped ==
  /\ Idle \in Task
  /\ \A s \in {200, 201, 204, 400, 401, 500} : Reply(NoRequest, NoActor, s) \in Task
  /\ \A r \in Request, x \in Actor : Reply(r, x, 201) \in Task
  /\ \A r \in Request : Step("authenticate", r, NoActor, TRUE) \in Task
                       /\ Step("authenticate", r, NoActor, FALSE) \in Task
  /\ \A r \in Request, x \in Actor : Step("statement", r, x, TRUE) \in Task
                                    /\ Step("statement", r, x, FALSE) \in Task
BY DEF Idle, Step, Reply, Task

\* A worker at rest, or with an answer to send, has nothing to check.
LEMMA Ended ==
  ASSUME EngagementTypeOK, NEW w \in Worker,
         \/ \E s \in {200, 204, 400, 401, 500} : End(w, s)
         \/ task' = [task EXCEPT ![w] = Idle],
         owner' = owner
  PROVE  task' \in [Worker -> Task] /\ \A v \in Worker : Handler(v)'
<1>1. task' \in [Worker -> Task]
  BY TasksTyped DEF End, EngagementTypeOK
<1>2. Handler(w)'
  BY DEF End, EngagementTypeOK, Handler, Idle, Step, Reply
<1>3. ASSUME NEW v \in Worker, v # w
      PROVE  Handler(v)'
  BY <1>3 DEF End, EngagementTypeOK, Handler, Requests
<1> QED
  BY <1>1, <1>2, <1>3

\* The end of a statement, with its result or without.
LEMMA Completes ==
  ASSUME EngagementTypeOK, NEW w \in Worker, task[w].stage = "statement",
         NEW s \in {200, 201, 204}, Completed(w, s)
  PROVE  /\ task' \in [Worker -> Task] /\ \A v \in Worker : Handler(v)'
         /\ DatabaseTypeOK'
<1>1. DatabaseTypeOK'
  BY LinkTyped DEF EngagementTypeOK, Completed
<1>2. owner' = owner
  BY DEF Completed, accounts
<1>3. CASE \E c \in {200, 204, 400, 401, 500} : End(w, c)
  BY <1>1, <1>2, <1>3, Ended
<1>4. CASE Created(w)
  <2>1. task[w].req \in Request /\ task[w].by \in Actor
    BY DEF EngagementTypeOK, Requests
  <2>2. task' \in [Worker -> Task]
    BY <1>4, <2>1, TasksTyped DEF Created, EngagementTypeOK
  <2>3. Handler(w)'
    BY <1>4, <2>1 DEF Created, EngagementTypeOK, Handler, Reply
  <2>4. ASSUME NEW v \in Worker, v # w
        PROVE  Handler(v)'
    BY <1>2, <1>4, <2>4 DEF Created, EngagementTypeOK, Handler, Requests
  <2> QED
    BY <1>1, <2>2, <2>3, <2>4
<1> QED
  BY <1>3, <1>4 DEF Completed

\* A handler whose statement runs has an actor, and an event if it inserts.
LEMMA StatementFields ==
  ASSUME EngagementTypeOK, NEW w \in Worker, task[w].stage = "statement"
  PROVE  /\ task[w].req \in Request /\ task[w].req \in Requests
         /\ task[w].by \in Actor
         /\ task[w].req.route \in Public =>
              task[w].req.on \in Content /\ EventOf(task[w]) \in Feedback!Event
         /\ task[w].req.route \in Private => Favorite(w) \in User \X Key
<1>1. task[w].req \in Request /\ task[w].req \in Requests /\ task[w].by \in Actor
  BY DEF EngagementTypeOK, Requests
<1>2. task[w].req.route \in Public =>
        task[w].req.on \in Content /\ EventOf(task[w]) \in Feedback!Event
  BY <1>1, RequestFields DEF EventOf, Feedback!Event
<1>3. task[w].req.route \in Private => Favorite(w) \in User \X Key
  BY <1>1, RequestFields DEF EngagementTypeOK, Favorite, Actor
<1> QED
  BY <1>1, <1>2, <1>3

\* What a step has to establish, handler by handler.
LEMMA HandlersTyped ==
  ASSUME DatabaseTypeOK',
         pending' \subseteq User, confirmed' \subseteq User, erased' \subseteq User,
         owner' \in [Token -> User \cup {NoOne}], live' \subseteq Token,
         likes' \subseteq [content : Content, key : Actor, by : Actor],
         \A r \in likes' : r.key = ActorKey(r.by),
         favorites' \subseteq User \X Key,
         comments' \in [Content \X Actor -> Nat],
         events' \in [Feedback!Event -> Nat],
         acked' \in [Feedback!Event -> Nat],
         task' \in [Worker -> Task],
         \A w \in Worker : Handler(w)'
  PROVE  EngagementTypeOK'
BY DEF EngagementTypeOK, Handler, ActorKey

\* Owners are drawn once: what a handler holds stays a request clients can send.
LEMMA HandlersKept ==
  ASSUME EngagementTypeOK, task' = task,
         \A t \in Token : owner[t] # NoOne => owner'[t] # NoOne
  PROVE  \A w \in Worker : Handler(w)'
BY DEF EngagementTypeOK, Handler, Requests

\* Empty tables and idle workers are typed.
LEMMA TypeInit == Init => EngagementTypeOK
<1> SUFFICES ASSUME Init
             PROVE  EngagementTypeOK
  OBVIOUS
<1>1. ASSUME NEW w \in Worker
      PROVE  Handler(w)
  <2>1. task[w] = Idle
    BY DEF Init
  <2> QED
    BY <2>1 DEF Handler, Idle, Step
<1>2. DatabaseTypeOK
  BY DEF Init, DatabaseInit, DatabaseTypeOK, LinkState
<1>3. task \in [Worker -> Task]
  BY TasksTyped DEF Init
<1> QED
  BY <1>1, <1>2, <1>3 DEF EngagementTypeOK, Handler, Init, Lifecycle!Init

\* Each step keeps tables, handlers and connections typed.
LEMMA TypeNext ==
  ASSUME EngagementTypeOK, [Next]_vars
  PROVE  EngagementTypeOK'
<1>1. ASSUME NEW w \in Worker, NEW r \in Requests, Receive(w, r)
      PROVE  EngagementTypeOK'
  <2>1. r \in Request /\ UNCHANGED <<accounts, tables, clients, dbVars>>
    BY <1>1 DEF Requests, Receive
  <2>2. CASE \E c \in {200, 204, 400, 401, 500} : End(w, c)
    BY <2>1, <2>2, Ended, HandlersTyped
       DEF EngagementTypeOK, accounts, tables, clients, dbVars, DatabaseTypeOK
  <2>3. CASE /\ Anonymous(r) /\ r.route \notin Private /\ r.anonymous # NoAnon
             /\ task' = [task EXCEPT ![w] =
                  Step("statement", r, <<"anonymous", r.anonymous>>, FALSE)]
    <3>1. <<"anonymous", r.anonymous>> \in Actor
      BY <2>1, <2>3, RequestFields DEF Actor
    <3>2. task' \in [Worker -> Task]
      BY <2>1, <2>3, <3>1, TasksTyped DEF EngagementTypeOK
    <3>3. \A v \in Worker : Handler(v)'
      BY <2>1, <2>3, <3>1 DEF EngagementTypeOK, Handler, Step, Requests, accounts
    <3> QED
      BY <2>1, <3>2, <3>3, HandlersTyped
         DEF EngagementTypeOK, accounts, tables, clients, dbVars, DatabaseTypeOK
  <2>4. CASE /\ r.bearer \notin {NoToken, Malformed}
             /\ task' = [task EXCEPT ![w] =
                  Step("authenticate", r, NoActor, r.bearer \in live)]
    <3>1. r.bearer \in Token \cup {Bogus}
      BY <2>1, <2>4, RequestFields DEF Bearer
    <3>2. Step("authenticate", r, NoActor, r.bearer \in live) \in Task
      <4>1. CASE r.bearer \in live
        <5>1. (r.bearer \in live) = TRUE
          BY <4>1
        <5> QED
          BY <2>1, <5>1, TasksTyped
      <4>2. CASE r.bearer \notin live
        <5>1. (r.bearer \in live) = FALSE
          BY <4>2
        <5> QED
          BY <2>1, <5>1, TasksTyped
      <4> QED
        BY <4>1, <4>2
    <3>3. task' \in [Worker -> Task]
      BY <2>4, <3>2 DEF EngagementTypeOK
    <3>4. \A v \in Worker : Handler(v)'
      BY <2>1, <2>4, <3>1 DEF EngagementTypeOK, Handler, Step, Requests, accounts
    <3> QED
      BY <2>1, <3>3, <3>4, HandlersTyped
         DEF EngagementTypeOK, accounts, tables, clients, dbVars, DatabaseTypeOK
  <2>5. CASE Anonymous(r)
    <3>1. End(w, 400) \/ End(w, 401) \/
          /\ r.route \notin Private /\ r.anonymous # NoAnon
          /\ task' = [task EXCEPT ![w] =
               Step("statement", r, <<"anonymous", r.anonymous>>, FALSE)]
      BY <1>1, <2>5 DEF Receive, Admit
    <3>2. CASE End(w, 400) \/ End(w, 401)
      <4>1. \E c \in {200, 204, 400, 401, 500} : End(w, c)
        BY <3>2
      <4> QED
        BY <2>2, <4>1
    <3> QED
      BY <2>3, <2>5, <3>1, <3>2
  <2>6. CASE ~Anonymous(r)
    <3>1. End(w, 400) \/ End(w, 401) \/
          /\ r.bearer # Malformed
          /\ task' = [task EXCEPT ![w] =
               Step("authenticate", r, NoActor, r.bearer \in live)]
      BY <1>1, <2>6 DEF Receive
    <3> QED
      BY <2>2, <2>4, <2>6, <3>1 DEF Anonymous
  <2> QED
    BY <2>5, <2>6
<1>2. ASSUME NEW w \in Worker, Authenticate(w)
      PROVE  EngagementTypeOK'
  <2> DEFINE r == task[w].req
  <2>1. r \in Request /\ r \in Requests /\ DatabaseTypeOK'
        /\ UNCHANGED <<accounts, tables, clients>>
    BY <1>2, LinkTyped DEF Authenticate, EngagementTypeOK, Requests
  <2>2. CASE \E c \in {200, 204, 400, 401, 500} : End(w, c)
    BY <2>1, <2>2, Ended, HandlersTyped DEF EngagementTypeOK, accounts, tables, clients
  <2>3. CASE /\ r.bearer \in Token /\ Valid(r.bearer)
             /\ task' = [task EXCEPT ![w] =
                  Step("statement", r, <<"user", owner[r.bearer]>>, task[w].lived)]
    <3>1. <<"user", owner[r.bearer]>> \in Actor
      BY <2>3 DEF Actor, Valid, EngagementTypeOK
    <3>2. task[w].lived \in BOOLEAN
      BY DEF EngagementTypeOK, Task
    <3>3. task' \in [Worker -> Task]
      BY <2>1, <2>3, <3>1, <3>2, TasksTyped DEF EngagementTypeOK
    <3>4. \A v \in Worker : Handler(v)'
      BY <2>1, <2>3, <3>1 DEF EngagementTypeOK, Handler, Step, Requests, accounts
    <3> QED
      BY <2>1, <3>3, <3>4, HandlersTyped DEF EngagementTypeOK, accounts, tables, clients
  <2> QED
    BY <1>2, <2>2, <2>3 DEF Authenticate, Admit
<1>3. ASSUME NEW w \in Worker, Fail(w) \/ RefusedByKey(w)
      PROVE  EngagementTypeOK'
  <2>1. DatabaseTypeOK' /\ UNCHANGED <<accounts, tables, clients>>
        /\ \E c \in {200, 204, 400, 401, 500} : End(w, c)
    BY <1>3, LinkTyped DEF Fail, RefusedByKey, EngagementTypeOK
  <2> QED
    BY <2>1, Ended, HandlersTyped DEF EngagementTypeOK, accounts, tables, clients
<1>4. ASSUME NEW w \in Worker, Activity(w)
      PROVE  EngagementTypeOK'
  <2>1. EventOf(task[w]) \in Feedback!Event
    BY <1>4, StatementFields DEF Activity, Runs, Public
  <2>2. events' \in [Feedback!Event -> Nat]
    BY <1>4, <2>1 DEF Activity, Log, EngagementTypeOK
  <2> QED
    BY <1>4, <2>2, Completes, HandlersTyped
       DEF EngagementTypeOK, Activity, Runs, Completed, accounts, clients
<1>5. ASSUME NEW w \in Worker, Like(w)
      PROVE  EngagementTypeOK'
  <2>1. EventOf(task[w]) \in Feedback!Event
        /\ task[w].req.on \in Content /\ task[w].by \in Actor
    BY <1>5, StatementFields DEF Like, Runs, Public
  <2>2. events' \in [Feedback!Event -> Nat]
    BY <1>5, <2>1 DEF Like, Log, EngagementTypeOK
  <2>3. /\ likes' \subseteq [content : Content, key : Actor, by : Actor]
        /\ \A r \in likes' : r.key = ActorKey(r.by)
    BY <1>5, <2>1 DEF Like, EngagementTypeOK, Row, ActorKey
  <2> QED
    BY <1>5, <2>2, <2>3, Completes, HandlersTyped
       DEF EngagementTypeOK, Like, Runs, Completed, accounts, clients
<1>6. ASSUME NEW w \in Worker, Comment(w)
      PROVE  EngagementTypeOK'
  <2>1. EventOf(task[w]) \in Feedback!Event
        /\ task[w].req.on \in Content /\ task[w].by \in Actor
    BY <1>6, StatementFields DEF Comment, Runs, Public
  <2>2. events' \in [Feedback!Event -> Nat]
    BY <1>6, <2>1 DEF Comment, Log, EngagementTypeOK
  <2>3. comments' \in [Content \X Actor -> Nat]
    BY <1>6, <2>1 DEF Comment, EngagementTypeOK
  <2> QED
    BY <1>6, <2>2, <2>3, Completes, HandlersTyped
       DEF EngagementTypeOK, Comment, Runs, Completed, accounts, clients
<1>7. ASSUME NEW w \in Worker,
             Unlike(w) \/ PutFavorite(w) \/ DeleteFavorite(w) \/ ListFavorites(w)
      PROVE  EngagementTypeOK'
  <2>1. task[w].stage = "statement" /\ UNCHANGED <<comments, events>>
        /\ \E c \in {200, 201, 204} : Completed(w, c)
    BY <1>7 DEF Unlike, PutFavorite, DeleteFavorite, ListFavorites, Runs, tables
  <2>2. likes' \subseteq likes
    BY <1>7 DEF Unlike, PutFavorite, DeleteFavorite, ListFavorites, tables
  <2>3. favorites' \subseteq User \X Key
    BY <1>7, StatementFields
       DEF Unlike, PutFavorite, DeleteFavorite, ListFavorites, tables, Runs, Private,
           EngagementTypeOK
  <2> QED
    BY <2>1, <2>2, <2>3, Completes, HandlersTyped
       DEF EngagementTypeOK, Completed, accounts, clients
<1>8. ASSUME NEW w \in Worker, Deliver(w) \/ Drop(w) \/ Crash(w)
      PROVE  EngagementTypeOK'
  <2>1. /\ task' = [task EXCEPT ![w] = Idle]
        /\ UNCHANGED <<accounts, tables>>
        /\ DatabaseTypeOK'
    BY <1>8, LinkTyped DEF Deliver, Drop, Crash, EngagementTypeOK
  <2>2. acked' \in [Feedback!Event -> Nat]
    <3>1. task[w].status = 201 => EventOf(task[w]).by \in Actor
      BY DEF EngagementTypeOK, EventOf
    <3> QED
      BY <1>8, <3>1 DEF Deliver, Drop, Crash, EngagementTypeOK, clients
  <2>3. owner' = owner
    BY <2>1 DEF accounts
  <2>4. task' \in [Worker -> Task] /\ \A v \in Worker : Handler(v)'
    BY <2>1, <2>3, Ended
  <2>5. /\ pending' \subseteq User /\ confirmed' \subseteq User /\ erased' \subseteq User
        /\ owner' \in [Token -> User \cup {NoOne}] /\ live' \subseteq Token
        /\ likes' \subseteq [content : Content, key : Actor, by : Actor]
        /\ \A r \in likes' : r.key = ActorKey(r.by)
        /\ favorites' \subseteq User \X Key
        /\ comments' \in [Content \X Actor -> Nat]
        /\ events' \in [Feedback!Event -> Nat]
    BY <2>1 DEF EngagementTypeOK, accounts, tables
  <2> QED
    BY <2>1, <2>2, <2>4, <2>5, HandlersTyped
<1>9. ASSUME \/ \E w \in Worker : Start(w)
             \/ Environment
             \/ UNCHANGED vars
      PROVE  EngagementTypeOK'
  <2>1. UNCHANGED <<accounts, tables, clients, task>> /\ DatabaseTypeOK'
    BY <1>9, LinkTyped DEF Start, Environment, vars, EngagementTypeOK, dbVars
  <2> QED
    BY <2>1, HandlersKept, HandlersTyped DEF EngagementTypeOK, accounts, tables, clients
<1>10. ASSUME AccountStep
       PROVE  EngagementTypeOK'
  <2>1. UNCHANGED <<erased, tables, clients, task, dbVars>>
    BY <1>10 DEF AccountStep
  <2>2. /\ pending' \subseteq User /\ confirmed' \subseteq User
        /\ owner' \in [Token -> User \cup {NoOne}] /\ live' \subseteq Token
    BY <1>10 DEF AccountStep, Lifecycle!Register, Lifecycle!Confirm,
                 Lifecycle!Grant, Lifecycle!End, EngagementTypeOK
  <2>3. \A t \in Token : owner[t] # NoOne => owner'[t] # NoOne
    BY <1>10 DEF AccountStep, Lifecycle!Register, Lifecycle!Confirm,
                 Lifecycle!Grant, Lifecycle!End, EngagementTypeOK
  <2> QED
    BY <2>1, <2>2, <2>3, HandlersKept, HandlersTyped
       DEF EngagementTypeOK, tables, clients, dbVars, DatabaseTypeOK
<1>11. ASSUME NEW u \in User, DeleteUser(u)
       PROVE  EngagementTypeOK'
  <2>1. UNCHANGED <<owner, likes, comments, events, clients, task, dbVars>>
    BY <1>11 DEF DeleteUser, Erase
  <2>2. /\ pending' \subseteq User /\ confirmed' \subseteq User
        /\ erased' \subseteq User /\ live' \subseteq Token
        /\ favorites' \subseteq User \X Key
    BY <1>11 DEF DeleteUser, Erase, EngagementTypeOK
  <2> QED
    BY <2>1, <2>2, HandlersKept, HandlersTyped DEF EngagementTypeOK, clients, dbVars, DatabaseTypeOK
<1> QED
  BY <1>1, <1>2, <1>3, <1>4, <1>5, <1>6, <1>7, <1>8, <1>9, <1>10, <1>11
     DEF Next, Serve

-----------------------------------------------------------------------------
(* The rows of the tables.                                                 *)

\* A statement that writes: the tables change as it says, the accounts do not.
Writes(w) ==
  \/ Activity(w) \/ Like(w) \/ Unlike(w) \/ Comment(w)
  \/ PutFavorite(w) \/ DeleteFavorite(w)

\* Every other step leaves the tables alone, and no user goes away with it
\* unless an operator deletes one.
LEMMA TablesKept ==
  ASSUME [Next]_vars
  PROVE  \/ \E w \in Worker : Writes(w)
         \/ \E u \in User : DeleteUser(u)
         \/ UNCHANGED tables /\ Users \subseteq Users'
<1>1. CASE UNCHANGED vars
  BY <1>1 DEF vars, accounts, Users
<1>2. ASSUME NEW w \in Worker,
             \/ \E r \in Requests : Receive(w, r)
             \/ Authenticate(w) \/ Fail(w) \/ RefusedByKey(w) \/ ListFavorites(w)
             \/ Deliver(w) \/ Drop(w) \/ Crash(w) \/ Start(w)
      PROVE  UNCHANGED tables /\ Users \subseteq Users'
  <2>1. UNCHANGED <<accounts, tables>>
    BY <1>2 DEF Receive, Authenticate, Fail, RefusedByKey, ListFavorites, Completed,
                Deliver, Drop, Crash, Start
  <2> QED
    BY <2>1 DEF accounts, Users
<1>3. ASSUME AccountStep
      PROVE  UNCHANGED tables /\ Users \subseteq Users'
  BY <1>3 DEF AccountStep, Lifecycle!Register, Lifecycle!Confirm, Lifecycle!Grant,
              Lifecycle!End, Users
<1>4. CASE Environment
  BY <1>4 DEF Environment, accounts, Users
<1> QED
  BY <1>1, <1>2, <1>3, <1>4 DEF Next, Serve, Writes

\* What a writing statement does to the rows that name users: it adds rows of
\* its own actor only, and only if that actor is there.
LEMMA WrittenByActor ==
  ASSUME EngagementTypeOK, NEW w \in Worker, Writes(w)
  PROVE  /\ Users' = Users
         /\ \A f \in favorites' \ favorites : f[1] \in Users
         /\ \A r \in likes' \ likes : Allowed(r.by)
         /\ \A c \in Content, x \in Actor :
              comments'[<<c, x>>] > comments[<<c, x>>] => Allowed(x)
         /\ \A e \in Feedback!Event : events'[e] > events[e] => Allowed(e.by)
<1> DEFINE t == task[w]
<1>1. /\ t.stage = "statement" /\ t.by \in Actor /\ t.req \in Request
      /\ t.req.route \in Public =>
           t.req.on \in Content /\ EventOf(t) \in Feedback!Event
  BY StatementFields
     DEF Writes, Activity, Like, Unlike, Comment, PutFavorite, DeleteFavorite, Runs
<1>2. Users' = Users
  BY DEF Writes, Activity, Like, Unlike, Comment, PutFavorite, DeleteFavorite,
         Completed, accounts, Users
<1>3. ASSUME NEW f \in favorites' \ favorites
      PROVE  f[1] \in Users
  <2>1. PutFavorite(w) /\ f = Favorite(w) /\ Allowed(t.by)
    BY <1>3 DEF Writes, Activity, Like, Unlike, Comment, PutFavorite, DeleteFavorite
  <2>2. t.by[1] = "user" /\ t.by = <<"user", t.by[2]>> /\ t.by[2] \in User
    BY <1>1, <2>1 DEF PutFavorite, Runs, EngagementTypeOK, Private, Actor
  <2> QED
    BY <2>1, <2>2 DEF Allowed, Refers, Favorite
<1>4. ASSUME NEW r \in likes' \ likes
      PROVE  Allowed(r.by)
  BY <1>4 DEF Writes, Activity, Like, Unlike, Comment, PutFavorite, DeleteFavorite,
              Row
<1>5. ASSUME NEW e \in Feedback!Event, events'[e] > events[e]
      PROVE  Allowed(e.by)
  <2>1. events' # events
    BY <1>5 DEF EngagementTypeOK
  <2>2. Log(w) /\ Allowed(t.by) /\ EventOf(t) \in Feedback!Event
    BY <1>1, <2>1
       DEF Writes, Activity, Like, Unlike, Comment, PutFavorite, DeleteFavorite, Runs,
           Public
  <2>3. e = EventOf(t)
    BY <1>5, <2>2 DEF Log, EngagementTypeOK
  <2> QED
    BY <2>2, <2>3 DEF EventOf
<1>6. ASSUME NEW c \in Content, NEW x \in Actor,
             comments'[<<c, x>>] > comments[<<c, x>>]
      PROVE  Allowed(x)
  <2>1. comments' # comments
    BY <1>6 DEF EngagementTypeOK
  <2>2. Comment(w)
    BY <2>1
       DEF Writes, Activity, Like, Unlike, Comment, PutFavorite, DeleteFavorite
  <2>3. <<t.req.on, t.by>> \in Content \X Actor
    BY <1>1, <2>2 DEF Comment, Runs, Public
  <2>4. <<c, x>> = <<t.req.on, t.by>>
    BY <1>6, <2>2, <2>3 DEF Comment, EngagementTypeOK
  <2> QED
    BY <2>2, <2>4 DEF Comment
<1> QED
  BY <1>2, <1>3, <1>4, <1>5, <1>6

\* No step leaves a row of a user who is not there.
LEMMA OrphansNext ==
  ASSUME EngagementTypeOK, EngagementTypeOK', NoOrphans, [Next]_vars
  PROVE  NoOrphans'
<1>1. CASE UNCHANGED tables /\ Users \subseteq Users'
  BY <1>1 DEF NoOrphans, tables, Allowed
<1>2. ASSUME NEW w \in Worker, Writes(w)
      PROVE  NoOrphans'
  <2>1. Users' = Users
    BY <1>2, WrittenByActor
  <2>2. \A x : Allowed(x)' <=> Allowed(x)
    BY <2>1 DEF Allowed, Refers
  <2>3. \A f \in favorites' : f[1] \in Users
    BY <1>2, WrittenByActor DEF NoOrphans
  <2>4. \A r \in likes' : Allowed(r.by)
    BY <1>2, WrittenByActor DEF NoOrphans
  <2>5. \A c \in Content, x \in Actor : comments'[<<c, x>>] > 0 => Allowed(x)
    <3> SUFFICES ASSUME NEW c \in Content, NEW x \in Actor, comments'[<<c, x>>] > 0
                 PROVE  Allowed(x)
      OBVIOUS
    <3>1. comments[<<c, x>>] \in Nat /\ comments'[<<c, x>>] \in Nat
      BY DEF EngagementTypeOK
    <3>2. CASE comments[<<c, x>>] > 0
      BY <3>2 DEF NoOrphans
    <3>3. CASE comments'[<<c, x>>] > comments[<<c, x>>]
      BY <1>2, <3>3, WrittenByActor
    <3> QED
      BY <3>1, <3>2, <3>3
  <2>6. \A e \in Feedback!Event : events'[e] > 0 => Allowed(e.by)
    <3> SUFFICES ASSUME NEW e \in Feedback!Event, events'[e] > 0
                 PROVE  Allowed(e.by)
      OBVIOUS
    <3>1. events[e] \in Nat /\ events'[e] \in Nat
      BY DEF EngagementTypeOK
    <3>2. CASE events[e] > 0
      BY <3>2 DEF NoOrphans
    <3>3. CASE events'[e] > events[e]
      BY <1>2, <3>3, WrittenByActor
    <3> QED
      BY <3>1, <3>2, <3>3
  <2> QED
    BY <2>1, <2>2, <2>3, <2>4, <2>5, <2>6 DEF NoOrphans
<1>3. ASSUME NEW u \in User, DeleteUser(u)
      PROVE  NoOrphans'
  <2>1. /\ Users' = Users \ {u}
        /\ favorites' = {f \in favorites : f[1] # u}
        /\ UNCHANGED <<likes, comments, events>>
    BY <1>3 DEF DeleteUser, Erase, Users
  <2>2. ~Mine(u)
    BY <1>3 DEF DeleteUser
  <2>3. \A x : Allowed(x) /\ ~Refers(x, u) => Allowed(x)'
    BY <2>1 DEF Allowed, Refers
  <2>4. \A x : Refers(x, u) => x = <<"user", u>>
    BY DEF Refers
  <2> QED
    BY <2>1, <2>2, <2>3, <2>4 DEF NoOrphans, Mine
<1> QED
  BY <1>1, <1>2, <1>3, TablesKept

\* No statement takes an event out of the log.
LEMMA EventsKept ==
  ASSUME EngagementTypeOK, [Next]_vars, NEW e \in Feedback!Event
  PROVE  events'[e] >= events[e] /\ events[e] \in Nat /\ events'[e] \in Nat
<1>1. ASSUME NEW w \in Worker, Log(w)
      PROVE  events'[e] = events[e] \/ events'[e] = events[e] + 1
  BY <1>1 DEF Log, EngagementTypeOK
<1>2. events' = events \/ \E w \in Worker : Log(w)
  BY TablesKept
     DEF Writes, Activity, Like, Unlike, Comment, PutFavorite, DeleteFavorite,
         DeleteUser, Erase, tables
<1>3. events[e] \in Nat
  BY DEF EngagementTypeOK
<1> QED
  BY <1>1, <1>2, <1>3

\* Each like and each comment comes with its event, and the event stays.
LEMMA FeedbackNext ==
  ASSUME EngagementTypeOK, EngagementTypeOK', FeedbackHasEvent, [Next]_vars
  PROVE  FeedbackHasEvent'
<1> DEFINE Liked(r) == [type |-> "like", content |-> r.content, by |-> r.by]
           Said(c, x) == [type |-> "comment", content |-> c, by |-> x]
<1>1. /\ \A r \in likes \cup likes' : Liked(r) \in Feedback!Event
      /\ \A c \in Content, x \in Actor : Said(c, x) \in Feedback!Event
  BY DEF EngagementTypeOK, Feedback!Event
<1>2. ASSUME NEW r \in likes'
      PROVE  events'[Liked(r)] > 0
  <2>1. CASE r \in likes
    <3>1. events[Liked(r)] > 0
      BY <2>1 DEF FeedbackHasEvent
    <3>2. /\ events'[Liked(r)] >= events[Liked(r)]
          /\ events[Liked(r)] \in Nat /\ events'[Liked(r)] \in Nat
      BY <1>1, <2>1, EventsKept
    <3> QED
      BY <3>1, <3>2
  <2>2. CASE r \notin likes
    <3>1. PICK w \in Worker : Like(w) /\ r = Row(w) /\ Log(w)
      BY <2>2, TablesKept
         DEF Writes, Activity, Like, Unlike, Comment, PutFavorite, DeleteFavorite,
             DeleteUser, Erase, tables
    <3>2. EventOf(task[w]) = Liked(r) /\ Liked(r) \in Feedback!Event
      BY <1>1, <3>1, StatementFields, RequestFields DEF Like, Runs, Row, EventOf
    <3>3. events[Liked(r)] \in Nat /\ events'[Liked(r)] = events[Liked(r)] + 1
      BY <3>1, <3>2 DEF Log, EngagementTypeOK
    <3> QED
      BY <3>3
  <2> QED
    BY <2>1, <2>2
<1>3. ASSUME NEW c \in Content, NEW x \in Actor
      PROVE  comments'[<<c, x>>] <= events'[Said(c, x)]
  <2>1. /\ comments[<<c, x>>] <= events[Said(c, x)]
        /\ events'[Said(c, x)] >= events[Said(c, x)]
        /\ events[Said(c, x)] \in Nat /\ events'[Said(c, x)] \in Nat
        /\ comments[<<c, x>>] \in Nat
    BY <1>1, EventsKept DEF FeedbackHasEvent, EngagementTypeOK
  <2>2. CASE comments'[<<c, x>>] = comments[<<c, x>>]
    BY <2>1, <2>2
  <2>3. CASE comments'[<<c, x>>] # comments[<<c, x>>]
    <3>1. PICK w \in Worker : Comment(w)
      BY <2>3, TablesKept
         DEF Writes, Activity, Like, Unlike, PutFavorite, DeleteFavorite,
             DeleteUser, Erase, tables
    <3>2. /\ <<c, x>> = <<task[w].req.on, task[w].by>>
          /\ comments'[<<c, x>>] = comments[<<c, x>>] + 1
      BY <2>3, <3>1 DEF Comment, EngagementTypeOK
    <3>3. EventOf(task[w]) = Said(c, x)
      BY <3>1, <3>2, StatementFields, RequestFields DEF Comment, Runs, EventOf
    <3>4. events'[Said(c, x)] = events[Said(c, x)] + 1
      BY <1>1, <3>1, <3>3 DEF Comment, Log, EngagementTypeOK
    <3> QED
      BY <2>1, <3>2, <3>4
  <2> QED
    BY <2>2, <2>3
<1> QED
  BY <1>2, <1>3 DEF FeedbackHasEvent

-----------------------------------------------------------------------------
(* Who acts.                                                               *)

\* Where a handler can come to: a statement as an anonymous visitor or an
\* authentication, both from Receive; a statement as a user, from Authenticate;
\* otherwise an answer, or rest.
LEMMA TaskOrigin ==
  ASSUME EngagementTypeOK, [Next]_vars, NEW w \in Worker, task'[w] # task[w]
  PROVE  \/ task'[w].stage \in {"idle", "reply"}
         \/ /\ UNCHANGED <<owner, live>>
            /\ \E r \in Requests :
                 \/ task'[w] = Step("authenticate", r, NoActor, r.bearer \in live)
                 \/ /\ Anonymous(r)
                    /\ task'[w] =
                         Step("statement", r, <<"anonymous", r.anonymous>>, FALSE)
         \/ /\ UNCHANGED <<owner, live>>
            /\ task[w].stage = "authenticate" /\ task[w].req.bearer \in Token
            /\ Valid(task[w].req.bearer)
            /\ task'[w] = Step("statement", task[w].req,
                               <<"user", owner[task[w].req.bearer]>>, task[w].lived)
<1> USE DEF EngagementTypeOK
<1>1. ASSUME NEW v \in Worker, NEW r \in Requests, Receive(v, r), v = w
      PROVE  /\ UNCHANGED <<owner, live>>
             /\ \/ task'[w].stage = "reply"
                \/ task'[w] = Step("authenticate", r, NoActor, r.bearer \in live)
                \/ /\ Anonymous(r)
                   /\ task'[w] =
                        Step("statement", r, <<"anonymous", r.anonymous>>, FALSE)
  <2>1. UNCHANGED <<owner, live>>
    BY <1>1 DEF Receive, accounts
  <2>2. \A c : End(w, c) => task'[w].stage = "reply"
    BY DEF End, Reply
  <2> QED
    BY <1>1, <2>1, <2>2 DEF Receive, Admit
<1>2. ASSUME NEW v \in Worker, Authenticate(v), v = w
      PROVE  /\ UNCHANGED <<owner, live>> /\ task[w].stage = "authenticate"
             /\ \/ task'[w].stage = "reply"
                \/ /\ task[w].req.bearer \in Token /\ Valid(task[w].req.bearer)
                   /\ task'[w] = Step("statement", task[w].req,
                         <<"user", owner[task[w].req.bearer]>>, task[w].lived)
  <2>1. UNCHANGED <<owner, live>> /\ task[w].stage = "authenticate"
    BY <1>2 DEF Authenticate, accounts
  <2>2. \A c : End(w, c) => task'[w].stage = "reply"
    BY DEF End, Reply
  <2> QED
    BY <1>2, <2>1, <2>2 DEF Authenticate, Admit
<1>3. ASSUME NEW v \in Worker, v = w,
             \/ Writes(v) \/ ListFavorites(v) \/ Fail(v) \/ RefusedByKey(v)
             \/ Deliver(v) \/ Drop(v) \/ Crash(v)
      PROVE  task'[w].stage \in {"idle", "reply"}
  BY <1>3 DEF Writes, Activity, Like, Unlike, Comment, PutFavorite, DeleteFavorite,
              ListFavorites, Completed, Fail, RefusedByKey, Deliver, Drop, Crash,
              End, Created, Reply, Idle, Step
<1>4. ASSUME NEW v \in Worker, v # w,
             \/ \E r \in Requests : Receive(v, r)
             \/ Serve(v) \/ Crash(v)
      PROVE  FALSE
  <2>1. \E T : task' = [task EXCEPT ![v] = T]
    <3>1. ASSUME NEW r \in Requests, Receive(v, r)
          PROVE  \E T : task' = [task EXCEPT ![v] = T]
      BY <3>1 DEF Receive, Admit, End
    <3>2. ASSUME Authenticate(v)
          PROVE  \E T : task' = [task EXCEPT ![v] = T]
      BY <3>2 DEF Authenticate, Admit, End
    <3>3. ASSUME \/ Writes(v) \/ ListFavorites(v) \/ Fail(v) \/ RefusedByKey(v)
                 \/ Deliver(v) \/ Drop(v) \/ Crash(v)
          PROVE  \E T : task' = [task EXCEPT ![v] = T]
      BY <3>3 DEF Writes, Activity, Like, Unlike, Comment, PutFavorite,
                  DeleteFavorite, ListFavorites, Completed, Fail, RefusedByKey,
                  Deliver, Drop, Crash, End, Created
    <3> QED
      BY <1>4, <3>1, <3>2, <3>3 DEF Serve, Writes
  <2> QED
    BY <1>4, <2>1
<1>5. ASSUME \/ \E v \in Worker : Start(v)
             \/ AccountStep \/ (\E u \in User : DeleteUser(u)) \/ Environment
             \/ UNCHANGED vars
      PROVE  FALSE
  BY <1>5 DEF Start, AccountStep, DeleteUser, Erase, Environment, vars
<1>6. CASE \E v \in Worker :
             \/ \E r \in Requests : Receive(v, r)
             \/ Serve(v) \/ Crash(v)
  <2>1. PICK v \in Worker :
             \/ \E r \in Requests : Receive(v, r)
             \/ Serve(v) \/ Crash(v)
    BY <1>6
  <2>2. v = w
    BY <1>4, <2>1
  <2> QED
    BY <1>1, <1>2, <1>3, <2>1, <2>2 DEF Serve, Writes
<1> QED
  BY <1>5, <1>6 DEF Next

\* Owners are for ever, and only a token that was nobody's begins to live.
LEMMA SessionsKept ==
  ASSUME EngagementTypeOK, [Next]_vars, NEW t \in Token
  PROVE  /\ owner[t] # NoOne => owner'[t] = owner[t]
         /\ t \in live' /\ t \notin live => owner[t] = NoOne
<1>1. CASE AccountStep
  BY <1>1 DEF AccountStep, Lifecycle!Register, Lifecycle!Confirm, Lifecycle!Grant,
              Lifecycle!End, EngagementTypeOK
<1>2. CASE \E u \in User : DeleteUser(u)
  BY <1>2 DEF DeleteUser, Erase
<1>3. CASE ~AccountStep /\ ~(\E u \in User : DeleteUser(u))
  <2>1. UNCHANGED accounts
    <3>1. CASE \E w \in Worker : \E r \in Requests : Receive(w, r)
      BY <3>1 DEF Receive
    <3>2. CASE \E w \in Worker : Authenticate(w) \/ Fail(w) \/ RefusedByKey(w)
      BY <3>2 DEF Authenticate, Fail, RefusedByKey
    <3>3. CASE \E w \in Worker : \E s \in {200, 201, 204} : Completed(w, s)
      BY <3>3 DEF Completed
    <3>4. ASSUME NEW w \in Worker,
                 \/ Activity(w) \/ Like(w) \/ Unlike(w) \/ Comment(w)
                 \/ PutFavorite(w) \/ DeleteFavorite(w) \/ ListFavorites(w)
          PROVE  \E s \in {200, 201, 204} : Completed(w, s)
      BY <3>4 DEF Activity, Like, Unlike, Comment, PutFavorite, DeleteFavorite,
                  ListFavorites
    <3>5. CASE \E w \in Worker : Deliver(w) \/ Drop(w) \/ Crash(w) \/ Start(w)
      BY <3>5 DEF Deliver, Drop, Crash, Start
    <3>6. CASE Environment \/ UNCHANGED vars
      BY <3>6 DEF Environment, vars
    <3> QED
      BY <1>3, <3>1, <3>2, <3>3, <3>4, <3>5, <3>6 DEF Next, Serve
  <2> QED
    BY <2>1 DEF accounts
<1> QED
  BY <1>1, <1>2, <1>3

\* The actor of a statement stays proven: the owner of its session is for ever.
LEMMA ProvenNext ==
  ASSUME EngagementTypeOK, EngagementTypeOK', ActorIsProven, [Next]_vars
  PROVE  ActorIsProven'
<1> SUFFICES ASSUME NEW w \in Worker, task'[w].stage = "statement"
             PROVE  \/ /\ task'[w].by[1] = "user" /\ task'[w].req.bearer \in Token
                       /\ owner'[task'[w].req.bearer] = task'[w].by[2]
                    \/ /\ task'[w].by[1] = "anonymous" /\ task'[w].req.bearer = NoToken
                       /\ task'[w].by[2] = task'[w].req.anonymous
  BY DEF ActorIsProven
<1>1. CASE task'[w] = task[w]
  <2>1. task[w].req.bearer \in Token => owner[task[w].req.bearer] # NoOne
    BY <1>1 DEF EngagementTypeOK, Requests
  <2> QED
    BY <1>1, <2>1, SessionsKept DEF ActorIsProven
<1>2. CASE task'[w] # task[w]
  <2>1. CASE \E r \in Requests :
               /\ Anonymous(r)
               /\ task'[w] = Step("statement", r, <<"anonymous", r.anonymous>>, FALSE)
    BY <2>1 DEF Step, Anonymous
  <2>2. CASE /\ owner' = owner /\ task[w].req.bearer \in Token
             /\ task'[w] = Step("statement", task[w].req,
                               <<"user", owner[task[w].req.bearer]>>, task[w].lived)
    BY <2>2 DEF Step
  <2>3. \A r \in Requests :
          task'[w] # Step("authenticate", r, NoActor, r.bearer \in live)
    BY DEF Step
  <2>4. task'[w].stage \notin {"idle", "reply"}
    OBVIOUS
  <2> QED
    BY <1>2, <2>1, <2>2, <2>3, <2>4, TaskOrigin
<1> QED
  BY <1>1, <1>2

\* A session that has ended when a request comes never lives again.
LEMMA EndedNext ==
  ASSUME EngagementTypeOK, EngagementTypeOK', EndedSessionsDoNothing, [Next]_vars
  PROVE  EndedSessionsDoNothing'
<1> SUFFICES ASSUME NEW w \in Worker
             PROVE  /\ task'[w].stage = "authenticate" /\ ~task'[w].lived
                       => task'[w].req.bearer \notin live'
                    /\ task'[w].stage = "statement" /\ task'[w].by[1] = "user"
                       => task'[w].lived
  BY DEF EndedSessionsDoNothing
<1>1. CASE task'[w] = task[w]
  <2>1. task[w].stage = "authenticate" /\ task[w].req.bearer \in Token =>
          owner[task[w].req.bearer] # NoOne
    BY DEF EngagementTypeOK, Requests
  <2>2. live' \subseteq Token
    BY DEF EngagementTypeOK
  <2> QED
    BY <1>1, <2>1, <2>2, SessionsKept DEF EndedSessionsDoNothing
<1>2. CASE task'[w] # task[w]
  <2>1. ASSUME live' = live, NEW r \in Requests,
               task'[w] = Step("authenticate", r, NoActor, r.bearer \in live)
        PROVE  /\ task'[w].stage = "authenticate"
               /\ task'[w].lived \/ task'[w].req.bearer \notin live'
    <3>1. task'[w].stage = "authenticate" /\ task'[w].req = r
      BY <2>1 DEF Step
    <3>2. task'[w].lived = (r.bearer \in live)
      BY <2>1 DEF Step
    <3> QED
      BY <2>1, <3>1, <3>2
  <2>2. ASSUME NEW r \in Requests,
               task'[w] = Step("statement", r, <<"anonymous", r.anonymous>>, FALSE)
        PROVE  task'[w].stage = "statement" /\ task'[w].by[1] # "user"
    BY <2>2 DEF Step
  <2>3. ASSUME task[w].stage = "authenticate", Valid(task[w].req.bearer),
               task'[w] = Step("statement", task[w].req,
                               <<"user", owner[task[w].req.bearer]>>, task[w].lived)
        PROVE  task'[w].stage = "statement" /\ task'[w].lived
    BY <2>3 DEF Step, Valid, EndedSessionsDoNothing
  <2>4. task'[w].stage \in {"idle", "reply"} =>
          task'[w].stage # "authenticate" /\ task'[w].stage # "statement"
    OBVIOUS
  <2>5. \/ task'[w].stage \in {"idle", "reply"}
        \/ task'[w].stage = "authenticate" /\
           (task'[w].lived \/ task'[w].req.bearer \notin live')
        \/ task'[w].stage = "statement" /\ task'[w].by[1] # "user"
        \/ task'[w].stage = "statement" /\ task'[w].lived
    BY <1>2, <2>1, <2>2, <2>3, TaskOrigin
  <2> QED
    BY <2>4, <2>5
<1> QED
  BY <1>1, <1>2

-----------------------------------------------------------------------------
(* What clients were told.                                                 *)

\* The answers on their way are finitely many, for the workers are.
LEMMA HeldFinite ==
  ASSUME NEW e
  PROVE  /\ IsFiniteSet(Held(e)) /\ Cardinality(Held(e)) \in Nat
         /\ IsFiniteSet(Held(e)') /\ Cardinality(Held(e)') \in Nat
<1>1. IsFiniteSet(Worker)
  BY EngagementAssumption
<1>2. Held(e) \subseteq Worker /\ Held(e)' \subseteq Worker
  BY DEF Held
<1> QED
  BY <1>1, <1>2, FS_Subset, FS_CardinalityType

\* A step that tells no client of a row and starts no answer keeps the count.
LEMMA CountKept ==
  ASSUME EngagementTypeOK, EngagementTypeOK', AcknowledgedIsKept,
         NEW e \in Feedback!Event, events'[e] >= events[e], acked'[e] = acked[e],
         Held(e)' \subseteq Held(e)
  PROVE  acked'[e] + Cardinality(Held(e)') <= events'[e]
<1>1. Cardinality(Held(e)') <= Cardinality(Held(e))
  BY HeldFinite, FS_Subset
<1>2. /\ acked[e] \in Nat /\ events[e] \in Nat /\ events'[e] \in Nat
      /\ acked[e] + Cardinality(Held(e)) <= events[e]
  BY DEF EngagementTypeOK, AcknowledgedIsKept
<1> QED
  BY <1>1, <1>2, HeldFinite

\* An event is logged before its 201 begins, and a 201 is counted once.
LEMMA AcknowledgedNext ==
  ASSUME EngagementTypeOK, EngagementTypeOK', AcknowledgedIsKept, [Next]_vars
  PROVE  AcknowledgedIsKept'
<1> SUFFICES ASSUME NEW e \in Feedback!Event
             PROVE  acked'[e] + Cardinality(Held(e)') <= events'[e]
  BY DEF AcknowledgedIsKept
<1>1. /\ events'[e] >= events[e] /\ events[e] \in Nat /\ events'[e] \in Nat
      /\ acked[e] \in Nat /\ acked[e] + Cardinality(Held(e)) <= events[e]
  BY EventsKept DEF EngagementTypeOK, AcknowledgedIsKept
<1>2. ASSUME NEW w \in Worker, Created(w), Log(w), acked' = acked,
             task[w].stage = "statement", task[w].req.route \in Public
      PROVE  acked'[e] + Cardinality(Held(e)') <= events'[e]
  <2>1. EventOf(task'[w]) = EventOf(task[w]) /\ task'[w].status = 201
    BY <1>2 DEF Created, EventOf, Reply, EngagementTypeOK
  <2>2. Held(e)' \subseteq Held(e) \cup {w}
    BY <1>2 DEF Held, Created, EngagementTypeOK, EventOf
  <2>3. CASE e = EventOf(task[w])
    <3>1. events'[e] = events[e] + 1
      BY <1>2, <2>3 DEF Log, EngagementTypeOK
    <3>2. /\ IsFiniteSet(Held(e) \cup {w})
          /\ Cardinality(Held(e) \cup {w}) <= Cardinality(Held(e)) + 1
      <4>1. IsFiniteSet(Held(e)) /\ Cardinality(Held(e)) \in Nat
        BY HeldFinite
      <4>2. /\ IsFiniteSet(Held(e) \cup {w})
            /\ Cardinality(Held(e) \cup {w}) =
                 IF w \in Held(e) THEN Cardinality(Held(e)) ELSE Cardinality(Held(e)) + 1
        BY <4>1, FS_AddElement
      <4> QED
        BY <4>1, <4>2
    <3>3. Cardinality(Held(e)') <= Cardinality(Held(e) \cup {w})
          /\ Cardinality(Held(e) \cup {w}) \in Nat
      BY <2>2, <3>2, FS_Subset, FS_CardinalityType
    <3> QED
      BY <1>1, <1>2, <3>1, <3>2, <3>3, HeldFinite
  <2>4. CASE e # EventOf(task[w])
    <3>1. Held(e)' \subseteq Held(e)
      BY <2>1, <2>2, <2>4 DEF Held, EventOf
    <3> QED
      BY <1>1, <1>2, <3>1, CountKept
  <2> QED
    BY <2>3, <2>4
<1>3. ASSUME NEW w \in Worker, acked' = acked,
             (\E c \in {200, 204, 400, 401, 500} : End(w, c))
             \/ task' = [task EXCEPT ![w] = Idle]
      PROVE  acked'[e] + Cardinality(Held(e)') <= events'[e]
  <2>1. Held(e)' \subseteq Held(e)
    BY <1>3 DEF Held, End, Reply, Idle, Step, EngagementTypeOK, EventOf
  <2> QED
    BY <1>1, <1>3, <2>1, CountKept
<1>4. ASSUME acked' = acked, task' = task
      PROVE  acked'[e] + Cardinality(Held(e)') <= events'[e]
  <2>1. Held(e)' \subseteq Held(e)
    BY <1>4 DEF Held, EventOf
  <2> QED
    BY <1>1, <1>4, <2>1, CountKept
<1>5. ASSUME NEW w \in Worker, NEW r \in Requests, Receive(w, r)
      PROVE  acked'[e] + Cardinality(Held(e)') <= events'[e]
  <2>1. acked' = acked
    BY <1>5 DEF Receive, clients
  <2>2. Held(e)' \subseteq Held(e)
    BY <1>5 DEF Receive, Admit, End, Held, Reply, Step, EngagementTypeOK, EventOf
  <2> QED
    BY <1>1, <2>1, <2>2, CountKept
<1>6. ASSUME NEW w \in Worker, Authenticate(w)
      PROVE  acked'[e] + Cardinality(Held(e)') <= events'[e]
  <2>1. acked' = acked
    BY <1>6 DEF Authenticate, clients
  <2>2. Held(e)' \subseteq Held(e)
    BY <1>6 DEF Authenticate, Admit, End, Held, Reply, Step, EngagementTypeOK, EventOf
  <2> QED
    BY <1>1, <2>1, <2>2, CountKept
<1>7. ASSUME NEW w \in Worker, Activity(w) \/ Comment(w)
      PROVE  acked'[e] + Cardinality(Held(e)') <= events'[e]
  <2>1. /\ Log(w) /\ acked' = acked /\ task[w].stage = "statement"
        /\ task[w].req.route \in Public
        /\ Created(w) \/ End(w, 500)
    BY <1>7 DEF Activity, Comment, Completed, clients, Runs, Public
  <2> QED
    BY <2>1, <1>2, <1>3
<1>8. ASSUME NEW w \in Worker,
             \/ Like(w) \/ Unlike(w) \/ PutFavorite(w) \/ DeleteFavorite(w)
             \/ ListFavorites(w) \/ Fail(w) \/ RefusedByKey(w) \/ Drop(w)
             \/ Crash(w)
      PROVE  acked'[e] + Cardinality(Held(e)') <= events'[e]
  <2>1. /\ acked' = acked
        /\ (\E c \in {200, 204, 400, 401, 500} : End(w, c))
           \/ task' = [task EXCEPT ![w] = Idle]
    BY <1>8 DEF Like, Unlike, PutFavorite, DeleteFavorite, ListFavorites, Completed,
                Fail, RefusedByKey, Drop, Crash, clients
  <2> QED
    BY <2>1, <1>3
<1>9. ASSUME NEW w \in Worker, Deliver(w)
      PROVE  acked'[e] + Cardinality(Held(e)') <= events'[e]
  <2>1. events' = events /\ task' = [task EXCEPT ![w] = Idle]
    BY <1>9 DEF Deliver, tables
  <2>2. CASE task[w].status = 201 /\ EventOf(task[w]) = e
    <3>1. acked'[e] = acked[e] + 1
      BY <1>9, <2>2 DEF Deliver, EngagementTypeOK
    <3>2. w \in Held(e) /\ Held(e)' = Held(e) \ {w}
      BY <2>1, <2>2 DEF Held, Idle, Step, EngagementTypeOK, EventOf
    <3>3. Cardinality(Held(e)') = Cardinality(Held(e)) - 1
      BY <3>2, HeldFinite, FS_RemoveElement
    <3> QED
      BY <1>1, <2>1, <3>1, <3>3, HeldFinite
  <2>3. CASE ~(task[w].status = 201 /\ EventOf(task[w]) = e)
    <3>1. acked'[e] = acked[e]
      BY <1>9, <2>3 DEF Deliver, EngagementTypeOK
    <3>2. Held(e)' \subseteq Held(e)
      BY <2>1 DEF Held, Idle, Step, EngagementTypeOK, EventOf
    <3> QED
      BY <1>1, <3>1, <3>2, CountKept
  <2> QED
    BY <2>2, <2>3
<1>10. ASSUME \/ \E w \in Worker : Start(w)
              \/ AccountStep \/ (\E u \in User : DeleteUser(u)) \/ Environment
              \/ UNCHANGED vars
       PROVE  acked' = acked /\ task' = task
  BY <1>10 DEF Start, AccountStep, DeleteUser, Erase, Environment, vars, clients
<1> QED
  BY <1>4, <1>5, <1>6, <1>7, <1>8, <1>9, <1>10 DEF Next, Serve

-----------------------------------------------------------------------------
(* The inductive invariant and its consequences.                           *)

Inductive ==
  /\ EngagementTypeOK /\ NoOrphans /\ FeedbackHasEvent
  /\ AcknowledgedIsKept /\ ActorIsProven /\ EndedSessionsDoNothing

\* Nothing is written, said or held at first.
LEMMA InductiveInit == Init => Inductive
<1> SUFFICES ASSUME Init
             PROVE  Inductive
  OBVIOUS
<1>1. EngagementTypeOK
  BY TypeInit
<1>2. NoOrphans /\ FeedbackHasEvent
  BY DEF Init, NoOrphans, FeedbackHasEvent, Feedback!Event
<1>3. \A w \in Worker : task[w].stage = "idle" /\ task[w].status = 0
  BY DEF Init, Idle, Step
<1>4. ActorIsProven /\ EndedSessionsDoNothing
  BY <1>3 DEF ActorIsProven, EndedSessionsDoNothing
<1>5. AcknowledgedIsKept
  <2> SUFFICES ASSUME NEW e \in Feedback!Event
               PROVE  acked[e] + Cardinality(Held(e)) <= events[e]
    BY DEF AcknowledgedIsKept
  <2>1. Held(e) = {}
    BY <1>3 DEF Held
  <2>2. acked[e] = 0 /\ events[e] = 0
    BY DEF Init
  <2> QED
    BY <2>1, <2>2, FS_EmptySet
<1> QED
  BY <1>1, <1>2, <1>4, <1>5 DEF Inductive

\* Each part needs the type invariant; ActorIsProven and EndedSessionsDoNothing
\* need, from it, that a token a client presents has had its owner since.
LEMMA InductiveNext == Inductive /\ [Next]_vars => Inductive'
BY TypeNext, OrphansNext, FeedbackNext, AcknowledgedNext, ProvenNext, EndedNext
   DEF Inductive

\* The invariant holds of every behaviour.
THEOREM EngagementInvariant == Spec => []Inductive
BY InductiveInit, InductiveNext, PTL DEF Spec

\* Tables, handlers and connections stay typed; a handler past its checks
\* holds a request that passed them.
THEOREM EngagementTypeCorrect == Spec => []EngagementTypeOK
BY EngagementInvariant, PTL DEF Inductive

\* No row of the tables refers to a user who is not there.
THEOREM OrphansCorrect == Spec => []NoOrphans
BY EngagementInvariant, PTL DEF Inductive

\* Each like and each comment has its event in the log.
THEOREM FeedbackCorrect == Spec => []FeedbackHasEvent
BY EngagementInvariant, PTL DEF Inductive

\* A client told 201 has its row.
THEOREM AcknowledgedCorrect == Spec => []AcknowledgedIsKept
BY EngagementInvariant, PTL DEF Inductive

\* Nobody acts under an identity it has not shown.
THEOREM ActorCorrect == Spec => []ActorIsProven
BY EngagementInvariant, PTL DEF Inductive

\* A request that came under an ended session writes nothing.
THEOREM EndedCorrect == Spec => []EndedSessionsDoNothing
BY EngagementInvariant, PTL DEF Inductive

-----------------------------------------------------------------------------
(* What a step may never do, and refinement.                               *)

\* A like goes only by its actor's DELETE, a favorite only by its user's or
\* with its user: two actors have two keys, whatever text they share.
LEMMA UndoneByActor ==
  ASSUME EngagementTypeOK, [Next]_vars
  PROVE  /\ \A r \in likes \ likes' : \E w \in Worker :
              Runs(w, "unlike") /\ task[w].by = r.by /\ task[w].req.on = r.content
         /\ \A f \in favorites \ favorites' :
              \/ f[1] \in erased'
              \/ \E w \in Worker : Runs(w, "delete") /\ Favorite(w) = f
<1>1. ASSUME NEW r \in likes \ likes'
      PROVE  \E w \in Worker :
               Runs(w, "unlike") /\ task[w].by = r.by /\ task[w].req.on = r.content
  <2>1. PICK w \in Worker : Unlike(w)
    BY TablesKept
       DEF Writes, Activity, Like, Unlike, Comment, PutFavorite, DeleteFavorite,
           DeleteUser, Erase, tables
  <2>2. Conflicts(r, Row(w)) /\ r.key = ActorKey(r.by)
    BY <2>1 DEF Unlike, EngagementTypeOK
  <2> QED
    BY <2>1, <2>2 DEF Unlike, Conflicts, Row, ActorKey
<1>2. ASSUME NEW f \in favorites \ favorites'
      PROVE  \/ f[1] \in erased'
             \/ \E w \in Worker : Runs(w, "delete") /\ Favorite(w) = f
  BY TablesKept
     DEF Writes, Activity, Like, Unlike, Comment, PutFavorite, DeleteFavorite,
         DeleteUser, Erase, tables
<1> QED
  BY <1>1, <1>2

\* Likes and favorites are undone by their own actor only.
THEOREM UndoneCorrect == Spec => OnlyItsActorUndoes
<1>1. Inductive /\ [Next]_vars =>
        [/\ \A r \in likes \ likes' : \E w \in Worker :
              Runs(w, "unlike") /\ task[w].by = r.by /\ task[w].req.on = r.content
         /\ \A f \in favorites \ favorites' :
              \/ f[1] \in erased'
              \/ \E w \in Worker : Runs(w, "delete") /\ Favorite(w) = f]_vars
  BY UndoneByActor DEF Inductive
<1> QED
  BY <1>1, EngagementInvariant, PTL DEF Spec, OnlyItsActorUndoes

\* The likes as pairs, the form Feedback gives them.
likedBar == {<<r.content, r.by>> : r \in likes}

\* A like conflicts with the rows of its own actor and content, and no other.
LEMMA ConflictIsLiked ==
  ASSUME EngagementTypeOK, NEW w \in Worker, NEW r \in likes
  PROVE  Conflicts(r, Row(w)) <=> <<r.content, r.by>> = <<task[w].req.on, task[w].by>>
BY DEF EngagementTypeOK, Conflicts, Row, ActorKey

\* Every step is one of Feedback's, or none.
LEMMA FeedbackStep ==
  ASSUME EngagementTypeOK, [Next]_vars
  PROVE  [Feedback!Next]_(Feedback!feedbackVars)
<1>1. CASE UNCHANGED <<likes, comments, events>>
  BY <1>1 DEF Feedback!feedbackVars
<1>2. ASSUME NEW w \in Worker, Activity(w)
      PROVE  Feedback!Next
  <2>1. /\ EventOf(task[w]) \in Feedback!Event
        /\ EventOf(task[w]).type \in Reported
    BY <1>2, StatementFields DEF Activity, Runs, Public, Requests, EventOf
  <2> QED
    BY <1>2, <2>1
       DEF Activity, Log, Feedback!Next, Feedback!Report, Feedback!Logged
<1>3. ASSUME NEW w \in Worker, Like(w)
      PROVE  Feedback!Next \/ UNCHANGED <<likes, comments, events>>
  <2> DEFINE c == task[w].req.on
             x == task[w].by
  <2>1. c \in Content /\ x \in Actor
        /\ EventOf(task[w]) = Feedback!EventOf("like", c, x)
    BY <1>3, StatementFields, RequestFields
       DEF Like, Runs, Public, EventOf, Feedback!EventOf
  <2>2. CASE \E r \in likes : Conflicts(r, Row(w))
    BY <1>3, <2>2 DEF Like
  <2>3. CASE ~\E r \in likes : Conflicts(r, Row(w))
    <3>1. likes' = likes \cup {Row(w)} /\ Log(w) /\ UNCHANGED comments
      BY <1>3, <2>3 DEF Like
    <3>2. <<c, x>> \notin likedBar
      BY <2>3, ConflictIsLiked DEF likedBar
    <3>3. likedBar' = likedBar \cup {<<c, x>>}
      <4>1. Row(w).content = c /\ Row(w).by = x
        BY DEF Row
      <4> QED
        BY <3>1, <4>1 DEF likedBar
    <3> QED
      BY <2>1, <3>1, <3>2, <3>3
         DEF Feedback!Next, Feedback!Like, Feedback!Logged, Log, likedBar
  <2> QED
    BY <2>2, <2>3
<1>4. ASSUME NEW w \in Worker, Unlike(w)
      PROVE  [Feedback!Next]_(Feedback!feedbackVars)
  <2> DEFINE c == task[w].req.on
             x == task[w].by
  <2>1. c \in Content /\ x \in Actor
    BY <1>4, StatementFields DEF Unlike, Runs, Public
  <2>2. likedBar' = likedBar \ {<<c, x>>} /\ UNCHANGED <<comments, events>>
    BY <1>4, ConflictIsLiked DEF Unlike, likedBar
  <2>3. CASE <<c, x>> \in likedBar
    BY <2>1, <2>2, <2>3 DEF Feedback!Next, Feedback!Unlike, likedBar
  <2>4. CASE <<c, x>> \notin likedBar
    BY <2>2, <2>4 DEF Feedback!feedbackVars, likedBar
  <2> QED
    BY <2>3, <2>4
<1>5. ASSUME NEW w \in Worker, Comment(w)
      PROVE  Feedback!Next
  <2>1. /\ task[w].req.on \in Content /\ task[w].by \in Actor
        /\ EventOf(task[w]) =
             Feedback!EventOf("comment", task[w].req.on, task[w].by)
    BY <1>5, StatementFields, RequestFields
       DEF Comment, Runs, Public, EventOf, Feedback!EventOf
  <2> QED
    BY <1>5, <2>1
       DEF Comment, Log, Feedback!Next, Feedback!Comment, Feedback!Logged
<1>6. ASSUME NEW w \in Worker, PutFavorite(w) \/ DeleteFavorite(w)
      PROVE  UNCHANGED <<likes, comments, events>>
  BY <1>6 DEF PutFavorite, DeleteFavorite
<1>7. ASSUME UNCHANGED tables \/ \E u \in User : DeleteUser(u)
      PROVE  UNCHANGED <<likes, comments, events>>
  BY <1>7 DEF DeleteUser, Erase, tables
<1> QED
  BY <1>1, <1>2, <1>3, <1>4, <1>5, <1>6, <1>7, TablesKept DEF Writes

\* The tables of likes, comments and events do what Feedback promises.
THEOREM FeedbackImplemented == Spec => ImplementsFeedback
<1>1. Init => Feedback!Init
  BY DEF Init, Feedback!Init
<1>2. Inductive /\ [Next]_vars => [Feedback!Next]_(Feedback!feedbackVars)
  BY FeedbackStep DEF Inductive
<1> QED
  BY <1>1, <1>2, EngagementInvariant, PTL DEF Spec, ImplementsFeedback, Feedback!Spec

=============================================================================
