------------------------------ MODULE Accounts ------------------------------
(***************************************************************************)
(* Accounts, confirmation tokens and sessions: the four /auth routes, the  *)
(* three tables they write (src/db/init.sql), the check every protected    *)
(* route makes first, and the connection they share.                       *)
(*                                                                         *)
(* A worker is an API process: one libmicrohttpd polling thread that runs  *)
(* one handler at a time over its one connection.  A handler is cut where  *)
(* another process, the clock or PostgreSQL can come between: before each  *)
(* statement and before the answer reaches the client.  Each statement is  *)
(* one autocommitted transaction, hence one step.  With two workers, two   *)
(* deployments share the database, or a server process still runs the      *)
(* last statement of an API process that died and was replaced.            *)
(*                                                                         *)
(* A user id stands for its e-mail (UNIQUE, never updated), a table for a  *)
(* function from its key to a row or NoRow, a password for its bcrypt hash.*)
(***************************************************************************)
EXTENDS Database, Integers

CONSTANTS
  Address,                 \* e-mail texts portal_validation_email() accepts
  Password,                \* passwords of 1 to 256 bytes
  StrongPassword,          \* those of at least 12
  Uuid,                    \* what gen_random_uuid() can draw
  Bogus,                   \* a 36-byte text that is the key of no row
  NoUuid,                  \* no token, or a text of another length
  NoRow,
  NoText,
  Lower,                   \* tolower() on every byte, in the C locale
  PgLower,                 \* lower() as PostgreSQL computes it
  ConfirmationTtl,         \* hours, portal_config_confirmation_ttl_hours()
  TokenTtl,                \* hours, portal_config_token_ttl_hours()
  ExposeConfirmationToken, \* portal_config_exposes_confirmation_token()
  MaxTime                  \* bound: the clock stops there

Never == -1                \* NULL, in confirmed_at, consumed_at, revoked_at

ASSUME AccountsAssumption ==
  /\ StrongPassword \subseteq Password
  /\ Bogus \notin Uuid /\ NoUuid \notin Uuid /\ Bogus # NoUuid
  /\ NoText \notin Address /\ NoText \notin Password
  /\ Lower \in [Address -> Address]
  /\ \A a \in Address : Lower[Lower[a]] = Lower[a]
  /\ DOMAIN PgLower = Address
  /\ ConfirmationTtl \in Nat \ {0} /\ TokenTtl \in Nat \ {0}
  /\ ExposeConfirmationToken \in BOOLEAN
  /\ MaxTime \in Nat

VARIABLES
  users,                   \* e-mail -> [password, confirmed]
  confirmations,           \* token -> [user, expires, consumed]
  sessions,                \* token -> [user, expires, revoked]
  now,                     \* the clock of PostgreSQL, in hours
  task,                    \* what each worker's thread is doing
  known,                   \* the tokens that answers have brought to clients
  closed                   \* those a client was told (204) are closed

tables == <<users, confirmations, sessions>>
clients == <<known, closed>>
vars == <<users, confirmations, sessions, now, task, known, closed, pg, link>>

-----------------------------------------------------------------------------
(* Requests, answers and rows.                                             *)

Presented == Uuid \cup {Bogus, NoUuid}

NoRequest == [kind |-> "none", email |-> NoText, password |-> NoText,
              token |-> NoUuid]
Credentials(k, a, p) ==
  [kind |-> k, email |-> a, password |-> p, token |-> NoUuid]
Bearer(k, t) ==
  [kind |-> k, email |-> NoText, password |-> NoText, token |-> t]

Request ==
  {NoRequest}
    \cup {Credentials(k, a, p) :
            k \in {"register", "login"}, a \in Address, p \in Password}
    \cup {Bearer(k, t) : k \in {"confirm", "logout"}, t \in Presented}

Status == {0, 200, 201, 204, 400, 401, 409, 500}

Task == [stage : {"idle", "authenticate", "statement", "reply"},
         req : Request, status : Status, token : Presented]

Idle == [stage |-> "idle", req |-> NoRequest, status |-> 0, token |-> NoUuid]
Step(stage, r) == [stage |-> stage, req |-> r, status |-> 0, token |-> NoUuid]
Reply(r, status, t) ==
  [stage |-> "reply", req |-> r, status |-> status, token |-> t]

Instant == Nat \cup {Never}
User == [password : StrongPassword, confirmed : Instant]
Confirmation == [user : Address, expires : Nat, consumed : Instant]
Session == [user : Address, expires : Nat, revoked : Instant]

ASSUME NoRowAssumption == NoRow \notin User \cup Confirmation \cup Session

\* The handler of this kind of request is about to run its statement.
Runs(w, kind) == task[w].stage = "statement" /\ task[w].req.kind = kind

\* What the validation before a statement leaves established.
Checked(w) ==
  /\ Runs(w, "register") => task[w].req.password \in StrongPassword
  /\ task[w].stage = "authenticate" => task[w].req.kind = "logout"

\* The columns of the three tables and the locals of the handlers hold values
\* the code can put there; no account has a password of less than 12 bytes.
TypeOK ==
  /\ DatabaseTypeOK
  /\ users \in [Address -> User \cup {NoRow}]
  /\ confirmations \in [Uuid -> Confirmation \cup {NoRow}]
  /\ sessions \in [Uuid -> Session \cup {NoRow}]
  /\ now \in Nat
  /\ task \in [Worker -> Task]
  /\ \A w \in Worker : Checked(w)
  /\ known \subseteq Uuid /\ closed \subseteq Uuid

Init ==
  /\ DatabaseInit
  /\ users = [a \in Address |-> NoRow]
  /\ confirmations = [t \in Uuid |-> NoRow]
  /\ sessions = [t \in Uuid |-> NoRow]
  /\ now = 0
  /\ task = [w \in Worker |-> Idle]
  /\ known = {} /\ closed = {}

-----------------------------------------------------------------------------
(* WHERE clauses.  A token that is the key of no row satisfies none.       *)

\* Faulty variants: expires_at, or consumed_at, left out of the UPDATE.
ConfirmableLate(t) ==
  t \in Uuid /\ confirmations[t] # NoRow /\ confirmations[t].consumed = Never
ConfirmableAgain(t) ==
  t \in Uuid /\ confirmations[t] # NoRow /\ confirmations[t].expires > now

\* token=$1 AND consumed_at IS NULL AND expires_at > now()
Confirmable(t) ==
  /\ t \in Uuid
  /\ confirmations[t] # NoRow
  /\ confirmations[t].consumed = Never
  /\ confirmations[t].expires > now

\* Faulty variant: an account not yet confirmed may sign in.
CandidateUnconfirmed(a, p) ==
  users[a] # NoRow /\ users[a].password = p

\* email=$1 AND confirmed_at IS NOT NULL AND password_hash=crypt($2, ...)
Candidate(a, p) ==
  /\ users[a] # NoRow
  /\ users[a].confirmed # Never
  /\ users[a].password = p

\* Faulty variant: revoked_at left out of the SELECT.
LiveEvenRevoked(t) ==
  t \in Uuid /\ sessions[t] # NoRow /\ sessions[t].expires > now

\* The row portal_http_authenticate() selects, joined with its user.
Live(t) ==
  /\ t \in Uuid
  /\ sessions[t] # NoRow
  /\ sessions[t].revoked = Never
  /\ sessions[t].expires > now
  /\ users[sessions[t].user] # NoRow
  /\ users[sessions[t].user].confirmed # Never

\* Faulty variant: the UPDATE also asks that the session has not expired.
ClosableUnexpired(t) ==
  /\ t \in Uuid /\ sessions[t] # NoRow
  /\ sessions[t].revoked = Never /\ sessions[t].expires > now

\* token=$1 AND revoked_at IS NULL
Closable(t) ==
  /\ t \in Uuid
  /\ sessions[t] # NoRow
  /\ sessions[t].revoked = Never

\* gen_random_uuid() never draws a value twice.
Fresh == {t \in Uuid : confirmations[t] = NoRow /\ sessions[t] = NoRow}

-----------------------------------------------------------------------------
(* What every handler does.                                                *)

\* The status a handler gives to any database error.
ErrorStatus(w) ==
  IF task[w].stage = "authenticate" THEN 401
  ELSE IF task[w].req.kind = "confirm" THEN 400 ELSE 500

Answer(w, status, t) ==
  task' = [task EXCEPT ![w] = Reply(task[w].req, status, t)]

\* The statement committed; its result is read, or lost with the connection.
Completed(w, status, t) ==
  /\ \/ QueryReturns(w) /\ Answer(w, status, t)
     \/ QueryLosesResult(w) /\ Answer(w, ErrorStatus(w), NoUuid)
  /\ UNCHANGED <<now, clients>>

\* The statement had no effect.
Fail(w) ==
  /\ task[w].stage \in {"authenticate", "statement"}
  /\ QueryFails(w)
  /\ Answer(w, ErrorStatus(w), NoUuid)
  /\ UNCHANGED <<tables, now, clients>>

\* Faulty variant: registration forgets the length of the password.
RefusedWeakly(r) ==
  IF r.kind \in {"confirm", "logout"} /\ r.token = NoUuid
  THEN IF r.kind = "confirm" THEN 400 ELSE 401
  ELSE 0

\* Answered before any statement: a field or a header is missing or malformed.
Refused(r) ==
  CASE r.kind = "register" /\ r.password \notin StrongPassword -> 400
    [] r.kind = "confirm" /\ r.token = NoUuid -> 400
    [] r.kind = "logout" /\ r.token = NoUuid -> 401
    [] OTHER -> 0

Receive(w, r) ==
  /\ task[w] = Idle
  /\ link[w] # "closed"
  /\ task' = [task EXCEPT ![w] =
       IF Refused(r) # 0 THEN Reply(r, Refused(r), NoUuid)
       ELSE Step(IF r.kind = "logout" THEN "authenticate" ELSE "statement", r)]
  /\ UNCHANGED <<tables, now, clients, dbVars>>

\* portal_http_authenticate(): the session is looked up by a statement of its
\* own, which the handler's next statement does not repeat.
Authenticate(w) ==
  /\ task[w].stage = "authenticate"
  /\ QueryReturns(w)
  /\ IF Live(task[w].req.token)
     THEN task' = [task EXCEPT ![w] = Step("statement", task[w].req)]
     ELSE Answer(w, 401, NoUuid)
  /\ UNCHANGED <<tables, now, clients>>

-----------------------------------------------------------------------------
(* POST /auth/register                                                     *)

\* portal_validation_lowercase_copy()
Normalized(r) == Lower[r.email]

\* Faulty variant: the token is always part of the answer.
AlwaysExposed(t) == t

Exposed(t) == IF ExposeConfirmationToken THEN t ELSE NoUuid

NewUser(a, p) ==
  users' = [users EXCEPT ![a] = [password |-> p, confirmed |-> Never]]

NewConfirmation(t, a) ==
  confirmations' = [confirmations EXCEPT ![t] =
    [user |-> a, expires |-> now + ConfirmationTtl, consumed |-> Never]]

\* Faulty variant: a second registration draws another token (an upsert).
RegisterAgain(w) ==
  /\ Runs(w, "register")
  /\ \E t \in Fresh :
       LET a == Normalized(task[w].req) IN
       /\ PgLower[a] = a
       /\ IF users[a] = NoRow THEN NewUser(a, task[w].req.password)
                              ELSE UNCHANGED users
       /\ NewConfirmation(t, a)
       /\ Completed(w, 201, Exposed(t))
  /\ UNCHANGED sessions

\* The row and its token are inserted together, or the CHECK (email =
\* lower(email)) or the UNIQUE (email) of the table refuses both.
Register(w) ==
  /\ Runs(w, "register")
  /\ LET a == Normalized(task[w].req) IN
     \/ /\ PgLower[a] # a
        /\ Completed(w, 500, NoUuid)
        /\ UNCHANGED <<users, confirmations>>
     \/ /\ PgLower[a] = a /\ users[a] # NoRow
        /\ Completed(w, 409, NoUuid)
        /\ UNCHANGED <<users, confirmations>>
     \/ /\ PgLower[a] = a /\ users[a] = NoRow
        /\ \E t \in Fresh :
             /\ NewUser(a, task[w].req.password)
             /\ NewConfirmation(t, a)
             /\ Completed(w, 201, Exposed(t))
  /\ UNCHANGED sessions

(* POST /auth/confirm                                                      *)

\* Faulty variant: the token is spent by a statement of its own, which commits
\* whether or not the account's row is then updated.
ConsumeOnly(t) ==
  /\ confirmations' = [confirmations EXCEPT ![t].consumed = now]
  /\ \/ UNCHANGED users
     \/ users' = [users EXCEPT ![confirmations[t].user].confirmed = now]

\* Both UPDATEs of the statement; COALESCE keeps an earlier confirmed_at.
Consume(t) ==
  /\ confirmations' = [confirmations EXCEPT ![t].consumed = now]
  /\ users' = [users EXCEPT ![confirmations[t].user].confirmed =
                 IF @ = Never THEN now ELSE @]

Confirm(w) ==
  /\ Runs(w, "confirm")
  /\ LET t == task[w].req.token IN
     \/ Confirmable(t) /\ Consume(t) /\ Completed(w, 200, NoUuid)
     \/ /\ ~Confirmable(t)
        /\ Completed(w, 400, NoUuid)
        /\ UNCHANGED <<users, confirmations>>
  /\ UNCHANGED sessions

(* POST /auth/login                                                        *)

\* Faulty variant: a session the account had is prolonged, not a new one made.
RenewSession(t, a) ==
  LET own == {s \in Uuid : sessions[s] # NoRow /\ sessions[s].user = a}
      s == IF own = {} THEN t ELSE CHOOSE s \in own : TRUE
  IN sessions' = [sessions EXCEPT ![s] =
       [user |-> a, expires |-> now + TokenTtl, revoked |-> Never]]

NewSession(t, a) ==
  sessions' = [sessions EXCEPT ![t] =
    [user |-> a, expires |-> now + TokenTtl, revoked |-> Never]]

Login(w) ==
  /\ Runs(w, "login")
  /\ LET a == Normalized(task[w].req) p == task[w].req.password IN
     \/ /\ Candidate(a, p)
        /\ \E t \in Fresh : NewSession(t, a) /\ Completed(w, 200, t)
     \/ ~Candidate(a, p) /\ Completed(w, 401, NoUuid) /\ UNCHANGED sessions
  /\ UNCHANGED <<users, confirmations>>

(* DELETE /auth/session                                                    *)

Revoke(t) == sessions' = [sessions EXCEPT ![t].revoked = now]

\* 204 whether or not the UPDATE touched a row.
Logout(w) ==
  /\ Runs(w, "logout")
  /\ LET t == task[w].req.token IN
     IF Closable(t) THEN Revoke(t) ELSE UNCHANGED sessions
  /\ Completed(w, 204, NoUuid)
  /\ UNCHANGED <<users, confirmations>>

-----------------------------------------------------------------------------
(* The answer, the process and the clock.                                  *)

Deliver(w) ==
  /\ task[w].stage = "reply"
  /\ known' = known \cup ({task[w].token} \cap Uuid)
  /\ closed' = IF task[w].status = 204 THEN closed \cup {task[w].req.token}
               ELSE closed
  /\ task' = [task EXCEPT ![w] = Idle]
  /\ UNCHANGED <<tables, now, dbVars>>

\* The answer is lost: no memory to build it, or the client is gone.
Drop(w) ==
  /\ task[w].stage = "reply"
  /\ task' = [task EXCEPT ![w] = Idle]
  /\ UNCHANGED <<tables, now, clients, dbVars>>

\* The process dies anywhere in a request, or is stopped between two.
Crash(w) ==
  /\ Close(w)
  /\ task' = [task EXCEPT ![w] = Idle]
  /\ UNCHANGED <<tables, now, clients>>

Start(w) ==
  /\ Connect(w)
  /\ UNCHANGED <<tables, now, task, clients>>

Tick ==
  /\ now < MaxTime
  /\ now' = now + 1
  /\ UNCHANGED <<tables, task, clients, dbVars>>

Environment == DatabaseEnvironment /\ UNCHANGED <<tables, now, task, clients>>

\* What is not exposed is brought to its owner outside the API: README.md asks
\* for a mail provider.
Mailed ==
  IF ExposeConfirmationToken THEN {} ELSE {t \in Uuid : confirmations[t] # NoRow}

Requests ==
  {Credentials(k, a, p) :
     k \in {"register", "login"}, a \in Address, p \in Password}
    \cup {Bearer(k, t) : k \in {"confirm", "logout"},
                         t \in known \cup Mailed \cup {Bogus, NoUuid}}

\* Everything the worker does for the request it holds.
Serve(w) ==
  \/ Authenticate(w) \/ Fail(w)
  \/ Register(w) \/ Confirm(w) \/ Login(w) \/ Logout(w)
  \/ Deliver(w) \/ Drop(w)

Next ==
  \/ \E w \in Worker :
       \/ \E r \in Requests : Receive(w, r)
       \/ Serve(w)
       \/ Crash(w)
       \/ Start(w)
  \/ Tick
  \/ Environment

Spec == Init /\ [][Next]_vars

\* The polling thread keeps running and libpq ends every call sooner or later.
FairSpec == Spec /\ \A w \in Worker : WF_vars(Serve(w))

-----------------------------------------------------------------------------
(* Properties of states.                                                   *)

\* Two spellings of one address (a@x.mx, A@x.mx) never become two accounts:
\* the one there is bears the spelling that login will look for.  And every
\* account has exactly one confirmation token: the two INSERTs of POST
\* /auth/register happen together or not at all.
OneAccountPerMailbox ==
  /\ \A a \in Address : users[a] # NoRow => Lower[a] = a
  /\ \A a \in Address : users[a] # NoRow =>
       \E t \in Uuid : confirmations[t] # NoRow /\ confirmations[t].user = a
  /\ \A s, t \in Uuid :
       /\ confirmations[s] # NoRow /\ confirmations[t] # NoRow
       /\ confirmations[s].user = confirmations[t].user
       => s = t
  /\ \A t \in Uuid :
       confirmations[t] # NoRow => users[confirmations[t].user] # NoRow

\* An account is confirmed exactly when its token is spent, at that moment and
\* before the token expired, whatever was lost or crashed around the statement
\* of POST /auth/confirm.
ConfirmedByItsToken ==
  \A t \in Uuid : confirmations[t] # NoRow =>
    /\ users[confirmations[t].user].confirmed = confirmations[t].consumed
    /\ confirmations[t].consumed < confirmations[t].expires
    /\ confirmations[t].consumed <= now

\* A session belongs to an account that was confirmed when POST /auth/login
\* opened the session, and still is.
SessionsOnlyForConfirmed ==
  \A t \in Uuid : sessions[t] # NoRow =>
    LET u == users[sessions[t].user] IN
    /\ u # NoRow
    /\ u.confirmed # Never
    /\ u.confirmed + TokenTtl <= sessions[t].expires

TrueAnswer(w) ==
  task[w].stage = "reply" =>
    LET r == task[w].req t == task[w].token a == Normalized(r) IN
    /\ task[w].status = 201 =>
         /\ r.kind = "register"
         /\ users[a] # NoRow /\ users[a].password = r.password
         /\ t \in Uuid => confirmations[t] # NoRow /\ confirmations[t].user = a
    /\ task[w].status = 200 /\ r.kind = "confirm" =>
         /\ r.token \in Uuid
         /\ confirmations[r.token] # NoRow
         /\ confirmations[r.token].consumed # Never
    /\ task[w].status = 200 /\ r.kind = "login" =>
         /\ t \in Uuid /\ sessions[t] # NoRow /\ sessions[t].user = a
         /\ users[a] # NoRow /\ users[a].password = r.password
    /\ task[w].status = 204 =>
         /\ r.token \in Uuid
         /\ sessions[r.token] # NoRow
         /\ sessions[r.token].revoked # Never

\* What a success answer says is true of the tables when the client reads it,
\* whatever other workers did after the statement: 201 the account is there
\* with that password; 200 to confirm, the token is spent; 200 to login, the
\* token is a session of that very account and the password was right; 204,
\* the session is revoked.
AnswersAreTrue == \A w \in Worker : TrueAnswer(w)

\* A logout that got through portal_http_authenticate() finds its session's row
\* when its UPDATE runs, expired or revoked though it may be by then.
AuthenticatedHasSession ==
  \A w \in Worker :
    Runs(w, "logout")
    => task[w].req.token \in Uuid /\ sessions[task[w].req.token] # NoRow

\* A session that a client was told is closed is revoked in its row.
ClosedAreRevoked ==
  \A t \in closed : sessions[t] # NoRow /\ sessions[t].revoked # Never

\* The invariant that is inductive: what AnswersAreTrue promises at the answer
\* has to be known while the statement is still to run.
Inductive ==
  /\ TypeOK
  /\ OneAccountPerMailbox
  /\ ConfirmedByItsToken
  /\ SessionsOnlyForConfirmed
  /\ AnswersAreTrue
  /\ AuthenticatedHasSession
  /\ ClosedAreRevoked

\* With EXPOSE_CONFIRMATION_TOKEN=false no answer ever carries a confirmation
\* token, although its owner gets it by mail, confirms and signs in (README.md:
\* the API must never expose it to the final client).
ConfirmationTokenIsSecret ==
  ~ExposeConfirmationToken =>
    \A t \in Uuid : confirmations[t] # NoRow =>
      t \notin known /\ \A w \in Worker : task[w].token # t

-----------------------------------------------------------------------------
(* Properties of steps.                                                    *)

\* Once a client has read the 204 of DELETE /auth/session, no worker lets that
\* token through portal_http_authenticate() again (API-TESTING.md, section 4).
ClosedNeverAuthenticates ==
  [][\A w \in Worker :
       task[w].stage = "authenticate" /\ task'[w].stage = "statement"
       => task[w].req.token \notin closed]_vars

RowsKept ==
  /\ \A a \in Address : users[a] # NoRow =>
       /\ users'[a] # NoRow
       /\ users'[a].password = users[a].password
       /\ users[a].confirmed # Never => users'[a] = users[a]
  /\ \A t \in Uuid : confirmations[t] # NoRow =>
       /\ confirmations'[t] # NoRow
       /\ confirmations'[t].user = confirmations[t].user
       /\ confirmations'[t].expires = confirmations[t].expires
       /\ confirmations[t].consumed # Never =>
            confirmations'[t] = confirmations[t]
  /\ \A t \in Uuid : sessions[t] # NoRow =>
       /\ sessions'[t] # NoRow
       /\ sessions'[t].user = sessions[t].user
       /\ sessions'[t].expires = sessions[t].expires
       /\ sessions[t].revoked # Never => sessions'[t] = sessions[t]

\* Rows stay; confirmed_at, consumed_at and revoked_at are written once; the
\* other columns never change.  No retry, race or late answer rewrites them.
RowsAreFinal == [][RowsKept]_vars

Reachable(t) ==
  \/ t \in known \cup Mailed
  \/ \E w \in Worker : task[w].req.token = t \/ task[w].token = t

\* An unconfirmed account whose token nobody holds, or whose token expired.
Stranded(a) ==
  /\ users[a] # NoRow
  /\ users[a].confirmed = Never
  /\ \A t \in Uuid :
       confirmations[t] # NoRow /\ confirmations[t].user = a
       => ~Reachable(t) \/ confirmations[t].expires <= now

\* When the answer to POST /auth/register is lost, or its token expires, the
\* address is taken for good: no later request confirms it or draws it a new
\* token (a second registration answers 409; there is no route to ask again).
StrandedForever ==
  [][\A a \in Address : Stranded(a) => Stranded(a)']_vars

-----------------------------------------------------------------------------
(* Statements of the documentation that the code does not keep.            *)

\* An answer that blames the token is true of it.  400 to a confirmation means
\* the token was invalid, expired or used (API-TESTING.md, section 4), and 401
\* to a Bearer that it was invalid, expired or revoked (section 12).
TokenIsBlamedJustly ==
  [][\A w \in Worker :
       LET r == task[w].req IN
       /\ Runs(w, "confirm") /\ task'[w].status = 400 => ~Confirmable(r.token)
       /\ task[w].stage = "authenticate" /\ task'[w].status = 401
          => ~Live(r.token)]_vars

-----------------------------------------------------------------------------
(* Liveness and refinement.                                                *)

\* A worker that has taken a request does not keep it for ever: it answers,
\* gives the answer up, or dies.
EveryRequestEnds == \A w \in Worker : task[w] # Idle ~> task[w] = Idle

\* What the tables promise: AccountLifecycle.
Lifecycle == INSTANCE AccountLifecycle WITH
  NoOne <- NoText,
  pending <- {a \in Address : users[a] # NoRow /\ users[a].confirmed = Never},
  confirmed <- {a \in Address : users[a] # NoRow /\ users[a].confirmed # Never},
  owner <- [t \in Uuid |->
              IF sessions[t] = NoRow THEN NoText ELSE sessions[t].user],
  live <- {t \in Uuid : Closable(t) /\ sessions[t].expires > now}

ImplementsLifecycle == Lifecycle!Spec

=============================================================================
