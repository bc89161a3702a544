----------------------------- MODULE Engagement -----------------------------
(***************************************************************************)
(* Favorites, activity, likes and comments: the handlers of favorites.c    *)
(* and activity.c and the tables they write, beside accounts and sessions  *)
(* that change meanwhile.  Those follow AccountLifecycle, which Accounts   *)
(* implements; the connection is that of Database, a worker and the steps  *)
(* of its handler are those of Accounts.                                   *)
(*                                                                         *)
(* A user is named by its id, which is never drawn twice.  A client may    *)
(* choose the text of a user's id as its anonymous_id.                     *)
(***************************************************************************)
EXTENDS Database, Naturals, FiniteSets, Functions

CONSTANTS
  User, Token,
  Anon,              \* texts portal_validation_anonymous_id() accepts
  NoAnon,            \* no anonymous_id, or one it refuses
  Content,           \* content ids (or, in an event, none)
  Key,               \* favorites: a section, or a tag, with a valid key
  NoToken,           \* no Authorization header, or an empty one
  Malformed,         \* one that is not "Bearer " and 36 bytes
  Bogus,             \* a Bearer that is no row's token
  NoOne,
  Reported,          \* event types that clients send to POST /activity
  Asks,              \* the ways clients may use the workers: see asks
  MaxEvents          \* bound: no request that inserts is received beyond it

ASSUME EngagementAssumption ==
  /\ IsFiniteSet(Worker)
  /\ NoAnon \notin Anon /\ NoOne \notin User
  /\ {NoToken, Malformed, Bogus} \cap Token = {}
  /\ Reported \subseteq {"view", "like", "comment"}
  /\ MaxEvents \in Nat

VARIABLES
  pending, confirmed, owner, live,   \* those of AccountLifecycle
  erased,            \* users an operator has deleted
  likes,             \* content_likes: rows [content, key, by]
  favorites,         \* favorite_sections and favorite_tags: <<user, key>>
  comments,          \* comments[<<c, x>>]: rows of actor x on content c
  events,            \* activity_events: how many rows of each kind
  task,              \* what each worker's thread is doing
  acked,             \* 201 answers that clients have read
  asks               \* asks[w]: the routes clients use on worker w, always

accounts == <<pending, confirmed, owner, live, erased>>
tables == <<likes, favorites, comments, events>>
clients == <<acked, asks>>
vars == <<accounts, tables, clients, task, pg, link>>

Lifecycle == INSTANCE AccountLifecycle WITH Address <- User, Uuid <- Token

Actor == ({"user"} \X User) \cup ({"anonymous"} \X Anon)
NoActor == <<"none", NoOne>>

Feedback == INSTANCE Feedback WITH
  liked <- {<<r.content, r.by>> : r \in likes}, said <- comments, log <- events

\* Faulty variant: the actor's id without "u:" or "a:" before it.
ActorKeyBare(x) == <<"actor", x[2]>>

\* actor_key, "u:" or "a:" and the id, so that no text names two actors.
ActorKey(x) == x

-----------------------------------------------------------------------------
(* Requests, after dispatch.  "early" and "late" say which validation of   *)
(* the handler a request fails: the one before portal_http_authenticate()  *)
(* or the one after it.                                                    *)

Public == {"activity", "like", "unlike", "comment"}
Private == {"list", "put", "delete"}

NoRequest == [route |-> "none", bearer |-> NoToken, anonymous |-> NoAnon,
              type |-> "view", on |-> NoOne, defect |-> "none"]

Bearer == Token \cup {NoToken, Malformed, Bogus}
Defect(route) ==
  CASE route \in {"activity", "like"} -> {"none", "early", "late"}
    [] route \in {"unlike", "comment"} -> {"none", "early"}
    [] route \in {"put", "delete"} -> {"none", "late"}
    [] OTHER -> {"none"}

PublicRequest ==
  [route : Public, bearer : Bearer, anonymous : Anon \cup {NoAnon},
   type : {"view", "like", "comment"}, on : Content,
   defect : {"none", "early", "late"}]
PrivateRequest ==
  [route : Private, bearer : Bearer, anonymous : {NoAnon}, type : {"view"},
   on : Key, defect : {"none", "late"}]

\* Routes that insert log an event of their own type; /activity takes any.
Request ==
  {r \in PublicRequest \cup PrivateRequest :
     /\ r.defect \in Defect(r.route)
     /\ r.route \in {"like", "unlike"} => r.type = "like"
     /\ r.route = "comment" => r.type = "comment"}

\* Clients present the tokens they were given; what is wrong with a request
\* is wrong whoever sends it.
Requests ==
  {r \in Request :
     /\ r.bearer \in Token => owner[r.bearer] # NoOne
     /\ r.bearer # NoToken /\ r.route \in Public => r.anonymous # NoAnon
     /\ r.defect = "early" => r.bearer = NoToken
     /\ r.route = "activity" => r.type \in Reported}

Task == [stage : {"idle", "authenticate", "statement", "reply"},
         req : Request \cup {NoRequest}, by : Actor \cup {NoActor},
         status : {0, 200, 201, 204, 400, 401, 500}, lived : BOOLEAN]

Step(stage, r, x, lived) ==
  [stage |-> stage, req |-> r, by |-> x, status |-> 0, lived |-> lived]
Reply(r, x, status) ==
  [stage |-> "reply", req |-> r, by |-> x, status |-> status, lived |-> FALSE]
Idle == Step("idle", NoRequest, NoActor, FALSE)

EventOf(t) == [type |-> t.req.type, content |-> t.req.on, by |-> t.by]

\* A handler past its authentication has an actor, a user on the private routes.
EngagementTypeOK ==
  /\ DatabaseTypeOK
  /\ pending \subseteq User /\ confirmed \subseteq User /\ erased \subseteq User
  /\ owner \in [Token -> User \cup {NoOne}] /\ live \subseteq Token
  /\ likes \subseteq [content : Content, key : Actor, by : Actor]
  /\ \A r \in likes : r.key = ActorKey(r.by)
  /\ favorites \subseteq User \X Key
  /\ comments \in [Content \X Actor -> Nat]
  /\ events \in [Feedback!Event -> Nat]
  /\ acked \in [Feedback!Event -> Nat]
  /\ task \in [Worker -> Task]
  /\ \A w \in Worker :
       /\ task[w].stage = "authenticate" => task[w].req.bearer \in Token \cup {Bogus}
       /\ task[w].stage \in {"authenticate", "statement"} => task[w].req \in Requests
       /\ task[w].stage = "statement" =>
            /\ task[w].by \in Actor
            /\ task[w].req.route \in Private => task[w].by[1] = "user"
       /\ task[w].status = 201 => task[w].req \in Request /\ task[w].by \in Actor

Init ==
  /\ DatabaseInit
  /\ Lifecycle!Init /\ erased = {}
  /\ likes = {} /\ favorites = {}
  /\ comments = [p \in Content \X Actor |-> 0]
  /\ events = [e \in Feedback!Event |-> 0]
  /\ acked = [e \in Feedback!Event |-> 0]
  /\ task = [w \in Worker |-> Idle]
  /\ asks \in Asks

-----------------------------------------------------------------------------
(* Who acts: portal_http_authenticate() and activity_load_actor().         *)

\* The users there are; a row may refer to no other (FOREIGN KEY).
Users == pending \cup confirmed
Refers(x, u) == x = <<"user", u>>
Allowed(x) == \A u \in User : Refers(x, u) => u \in Users

Valid(t) == t \in live /\ owner[t] \in confirmed

Inserts(r) == r.route \in {"activity", "like", "comment"}

BelowBound == FoldFunction(+, 0, events) < MaxEvents

\* An answer that says nothing of a row, and the 201 that names a new one.
End(w, status) == task' = [task EXCEPT ![w] = Reply(NoRequest, NoActor, status)]
Created(w) == task' = [task EXCEPT ![w] = Reply(task[w].req, task[w].by, 201)]

\* The actor x is known: what the handler validates next, then its statement.
Admit(w, r, x, lived) ==
  IF r.defect = "late" THEN End(w, 400)
  ELSE task' = [task EXCEPT ![w] = Step("statement", r, x, lived)]

\* No Authorization header, or an empty one: PORTAL_AUTH_ANONYMOUS.
Anonymous(r) == r.bearer = NoToken

\* Up to the first statement.  The private routes want a user.
Receive(w, r) ==
  /\ task[w] = Idle /\ link[w] # "closed"
  /\ r.route \in asks[w]
  /\ Inserts(r) => BelowBound
  /\ IF r.defect = "early" THEN End(w, 400)
     ELSE IF Anonymous(r) /\ r.route \in Private
     THEN End(w, 401)
     ELSE IF Anonymous(r) /\ r.anonymous = NoAnon
     THEN End(w, 400)
     ELSE IF Anonymous(r)
     THEN Admit(w, r, <<"anonymous", r.anonymous>>, FALSE)
     ELSE IF r.bearer = Malformed THEN End(w, 401)
     ELSE task' = [task EXCEPT ![w] =
                     Step("authenticate", r, NoActor, r.bearer \in live)]
  /\ UNCHANGED <<accounts, tables, clients, dbVars>>

\* Faulty variant: a Bearer that is not valid leaves the anonymous_id to act.
AuthenticateOrFallBack(w) ==
  /\ task[w].stage = "authenticate"
  /\ QueryReturns(w)
  /\ LET r == task[w].req IN
     IF r.bearer \in Token /\ Valid(r.bearer)
     THEN Admit(w, r, <<"user", owner[r.bearer]>>, task[w].lived)
     ELSE IF r.anonymous \in Anon
     THEN Admit(w, r, <<"anonymous", r.anonymous>>, task[w].lived)
     ELSE End(w, 401)
  /\ UNCHANGED <<accounts, tables, clients>>

\* Faulty variant: revoked_at and expires_at left out of the SELECT.
AuthenticateEver(w) ==
  /\ task[w].stage = "authenticate"
  /\ QueryReturns(w)
  /\ LET r == task[w].req IN
     IF r.bearer \in Token /\ owner[r.bearer] \in confirmed
     THEN Admit(w, r, <<"user", owner[r.bearer]>>, task[w].lived)
     ELSE End(w, 401)
  /\ UNCHANGED <<accounts, tables, clients>>

\* A Bearer that is not valid is answered 401 whatever anonymous_id comes with it.
Authenticate(w) ==
  /\ task[w].stage = "authenticate"
  /\ QueryReturns(w)
  /\ LET r == task[w].req IN
     IF r.bearer \in Token /\ Valid(r.bearer)
     THEN Admit(w, r, <<"user", owner[r.bearer]>>, task[w].lived)
     ELSE End(w, 401)
  /\ UNCHANGED <<accounts, tables, clients>>

-----------------------------------------------------------------------------
(* The statements of the handlers.                                         *)

Runs(w, route) == task[w].stage = "statement" /\ task[w].req.route = route

\* Faulty variant: the status of the result is not looked at.
FailUnnoticed(w) ==
  /\ task[w].stage \in {"authenticate", "statement"}
  /\ QueryFails(w)
  /\ IF task[w].stage = "statement" /\ Inserts(task[w].req)
     THEN Created(w) ELSE End(w, 401)
  /\ UNCHANGED <<accounts, tables, clients>>

\* The statement had no effect.
Fail(w) ==
  /\ task[w].stage \in {"authenticate", "statement"}
  /\ QueryFails(w)
  /\ End(w, IF task[w].stage = "authenticate" THEN 401 ELSE 500)
  /\ UNCHANGED <<accounts, tables, clients>>

\* It committed; its result is read, or lost with the connection.
Completed(w, status) ==
  /\ \/ QueryReturns(w) /\ (IF status = 201 THEN Created(w) ELSE End(w, status))
     \/ QueryLosesResult(w) /\ End(w, 500)
  /\ UNCHANGED <<accounts, clients>>

\* The foreign key refuses the row: the user was deleted after authentication.
RefusedByKey(w) ==
  /\ task[w].stage = "statement"
  /\ task[w].req.route \in {"activity", "like", "comment", "put"}
  /\ ~Allowed(task[w].by)
  /\ QueryReturns(w)
  /\ End(w, 500)
  /\ UNCHANGED <<accounts, tables, clients>>

Log(w) == events' = [events EXCEPT ![EventOf(task[w])] = @ + 1]

\* POST /activity
Activity(w) ==
  /\ Runs(w, "activity") /\ Allowed(task[w].by)
  /\ Log(w)
  /\ Completed(w, 201)
  /\ UNCHANGED <<likes, favorites, comments>>

Row(w) == [content |-> task[w].req.on, key |-> ActorKey(task[w].by),
           by |-> task[w].by]

Conflicts(r, s) == r.content = s.content /\ r.key = s.key

\* Faulty variants: the event is inserted whether or not a like was; the event
\* is a statement of its own, after the like has committed.
LikeAlwaysLogged(w) ==
  /\ Runs(w, "like") /\ Allowed(task[w].by)
  /\ likes' = likes \cup {Row(w)}
  /\ Log(w)
  /\ Completed(w, 204)
  /\ UNCHANGED <<favorites, comments>>
LikeThenLog(w) ==
  /\ Runs(w, "like") /\ Allowed(task[w].by)
  /\ likes' = likes \cup {Row(w)}
  /\ Log(w) \/ UNCHANGED events
  /\ Completed(w, 204)
  /\ UNCHANGED <<favorites, comments>>

\* PUT /content/{id}/like: the row and its event, or ON CONFLICT neither.
Like(w) ==
  /\ Runs(w, "like")
  /\ IF \E r \in likes : Conflicts(r, Row(w))
     THEN UNCHANGED <<likes, events>>
     ELSE Allowed(task[w].by) /\ likes' = likes \cup {Row(w)} /\ Log(w)
  /\ Completed(w, 204)
  /\ UNCHANGED <<favorites, comments>>

\* DELETE /content/{id}/like
Unlike(w) ==
  /\ Runs(w, "unlike")
  /\ likes' = {r \in likes : ~Conflicts(r, Row(w))}
  /\ Completed(w, 204)
  /\ UNCHANGED <<favorites, comments, events>>

\* POST /content/{id}/comments: the comment and its event.
Comment(w) ==
  /\ Runs(w, "comment") /\ Allowed(task[w].by)
  /\ comments' = [comments EXCEPT ![<<task[w].req.on, task[w].by>>] = @ + 1]
  /\ Log(w)
  /\ Completed(w, 201)
  /\ UNCHANGED <<likes, favorites>>

Favorite(w) == <<task[w].by[2], task[w].req.on>>

\* PUT /me/favorite-sections/{key}, /me/favorite-tags/{key}: ON CONFLICT DO
\* NOTHING on the primary key (user_id, key).
PutFavorite(w) ==
  /\ Runs(w, "put") /\ (Favorite(w) \in favorites \/ Allowed(task[w].by))
  /\ favorites' = favorites \cup {Favorite(w)}
  /\ Completed(w, 204)
  /\ UNCHANGED <<likes, comments, events>>

DeleteFavorite(w) ==
  /\ Runs(w, "delete")
  /\ favorites' = favorites \ {Favorite(w)}
  /\ Completed(w, 204)
  /\ UNCHANGED <<likes, comments, events>>

\* GET /me/favorite-sections, /me/favorite-tags
ListFavorites(w) ==
  /\ Runs(w, "list")
  /\ Completed(w, 200)
  /\ UNCHANGED tables

-----------------------------------------------------------------------------
(* The answer, the process, the accounts and the operator.                 *)

Deliver(w) ==
  /\ task[w].stage = "reply"
  /\ acked' = IF task[w].status = 201
              THEN [acked EXCEPT ![EventOf(task[w])] = @ + 1] ELSE acked
  /\ task' = [task EXCEPT ![w] = Idle]
  /\ UNCHANGED <<accounts, tables, asks, dbVars>>

\* The answer is lost: no memory to build it, or the client is gone.
Drop(w) ==
  /\ task[w].stage = "reply"
  /\ task' = [task EXCEPT ![w] = Idle]
  /\ UNCHANGED <<accounts, tables, clients, dbVars>>

Crash(w) ==
  /\ Close(w)
  /\ task' = [task EXCEPT ![w] = Idle]
  /\ UNCHANGED <<accounts, tables, clients>>

Start(w) ==
  /\ Connect(w)
  /\ UNCHANGED <<accounts, tables, clients, task>>

\* Other requests, and the hours, change accounts and sessions.
AccountStep ==
  /\ \/ /\ pg = "up"
        /\ \/ \E u \in User \ erased : Lifecycle!Register(u) \/ Lifecycle!Confirm(u)
           \/ \E t \in Token, u \in User : Lifecycle!Grant(t, u)
     \/ \E t \in live : Lifecycle!End({t})
  /\ UNCHANGED <<erased, tables, clients, task, dbVars>>

Mine(u) ==
  \/ \E r \in likes : Refers(r.by, u)
  \/ \E c \in Content : comments[<<c, <<"user", u>>>>] > 0
  \/ \E e \in Feedback!Event : Refers(e.by, u) /\ events[e] > 0

Erase(u) ==
  /\ pending' = pending \ {u} /\ confirmed' = confirmed \ {u}
  /\ erased' = erased \cup {u}
  /\ live' = {t \in live : owner[t] # u}
  /\ favorites' = {f \in favorites : f[1] # u}
  /\ UNCHANGED <<owner, likes, comments, events, clients, task, dbVars>>

\* Faulty variant: without the actor CHECKs, ON DELETE SET NULL leaves rows of
\* nobody.
DeleteUserUnchecked(u) == pg = "up" /\ u \in Users /\ Erase(u)

\* DELETE FROM users, by an operator.  Sessions and favorites go with the user
\* (CASCADE); the SET NULL of the other tables would leave a row with neither
\* user_id nor anonymous_id, which their CHECKs refuse, and the DELETE with it.
DeleteUser(u) ==
  /\ pg = "up"
  /\ u \in Users
  /\ ~Mine(u)
  /\ Erase(u)

Environment == DatabaseEnvironment /\ UNCHANGED <<accounts, tables, clients, task>>

Serve(w) ==
  \/ Authenticate(w) \/ Fail(w) \/ RefusedByKey(w)
  \/ Activity(w) \/ Like(w) \/ Unlike(w) \/ Comment(w)
  \/ PutFavorite(w) \/ DeleteFavorite(w) \/ ListFavorites(w)
  \/ Deliver(w) \/ Drop(w)

Next ==
  \/ \E w \in Worker :
       \/ \E r \in Requests : Receive(w, r)
       \/ Serve(w) \/ Crash(w) \/ Start(w)
  \/ AccountStep
  \/ \E u \in User : DeleteUser(u)
  \/ Environment

Spec == Init /\ [][Next]_vars

-----------------------------------------------------------------------------
(* Properties of states.                                                   *)

\* A row that names a user names one that is there: whether the user was
\* deleted before, between or after the two statements of a handler.
NoOrphans ==
  /\ \A f \in favorites : f[1] \in Users
  /\ \A r \in likes : Allowed(r.by)
  /\ \A c \in Content, x \in Actor : comments[<<c, x>>] > 0 => Allowed(x)
  /\ \A e \in Feedback!Event : events[e] > 0 => Allowed(e.by)

\* Each like that stands and each comment has an event of its own in the log,
\* whatever was lost or crashed around the statement that made them.
FeedbackHasEvent ==
  /\ \A r \in likes :
       events[[type |-> "like", content |-> r.content, by |-> r.by]] > 0
  /\ \A c \in Content, x \in Actor :
       comments[<<c, x>>] <= events[[type |-> "comment", content |-> c, by |-> x]]

\* The answers 201 on their way to a client that name a row of event e.
Held(e) == {w \in Worker : task[w].status = 201 /\ EventOf(task[w]) = e}

\* An event that a client was told is recorded, is: there are as many rows as
\* 201 answers, or more, for a client whose answer was lost tries again.
AcknowledgedIsKept ==
  \A e \in Feedback!Event : acked[e] + Cardinality(Held(e)) <= events[e]

\* A handler acts as a user only under a session granted to that user, and as
\* an anonymous visitor only if no Authorization header came: a Bearer that is
\* invalid, or that a database failure kept from being checked, never falls
\* back to the anonymous_id of the same body.
ActorIsProven ==
  \A w \in Worker : task[w].stage = "statement" =>
    LET r == task[w].req x == task[w].by IN
    \/ x[1] = "user" /\ r.bearer \in Token /\ owner[r.bearer] = x[2]
    \/ x[1] = "anonymous" /\ r.bearer = NoToken /\ x[2] = r.anonymous

\* A request that came after its session had ended never gets to a statement;
\* one that came before may, although the session ends meanwhile.
EndedSessionsDoNothing ==
  \A w \in Worker :
    /\ task[w].stage = "authenticate" /\ ~task[w].lived
       => task[w].req.bearer \notin live
    /\ task[w].stage = "statement" /\ task[w].by[1] = "user" => task[w].lived

-----------------------------------------------------------------------------
(* Properties of steps, and refinement.                                    *)

\* A like goes away only by the DELETE of the very actor that put it, with no
\* help from a visitor who uses a user's id as anonymous_id, nor from the
\* deletion of a user; a favorite only by its user's DELETE or with its user.
OnlyItsActorUndoes ==
  [][/\ \A r \in likes \ likes' : \E w \in Worker :
          Runs(w, "unlike") /\ task[w].by = r.by /\ task[w].req.on = r.content
     /\ \A f \in favorites \ favorites' :
          \/ f[1] \in erased'
          \/ \E w \in Worker : Runs(w, "delete") /\ Favorite(w) = f]_vars

\* The tables do what Feedback promises: a repeated PUT is a stutter, each
\* request logs at most one event, and nothing logged or said goes away.
ImplementsFeedback == Feedback!Spec

=============================================================================
