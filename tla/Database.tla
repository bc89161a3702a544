------------------------------ MODULE Database ------------------------------
(***************************************************************************)
(* The connection to PostgreSQL (src/src/database/database.c).             *)
(*                                                                         *)
(* An API process holds one PortalDatabase, that is one libpq connection,  *)
(* opened once by portal_database_create() and used by every statement.    *)
(* What the process believes of it is PQstatus(): a value cached in the    *)
(* process, which libpq revises only while a statement is being run.       *)
(* Nothing in the code resets a broken connection.                         *)
(*                                                                         *)
(*   "closed"  the process is not running, or has no PortalDatabase        *)
(*   "good"    CONNECTION_OK, and a server process answers at the far end  *)
(*   "stale"   CONNECTION_OK still, but the far end is gone                *)
(*   "bad"     CONNECTION_BAD: a statement has met the loss                *)
(*                                                                         *)
(* The module has no Next of its own: Health and Accounts conjoin these    *)
(* actions with what their requests do.                                    *)
(***************************************************************************)

CONSTANT Worker        \* API processes: each has one thread, one connection

VARIABLES
  pg,                  \* is the PostgreSQL server "up" or "down"
  link                 \* state of each process's connection

dbVars == <<pg, link>>

LinkState == {"closed", "good", "stale", "bad"}

DatabaseTypeOK ==
  /\ pg \in {"up", "down"}
  /\ link \in [Worker -> LinkState]

DatabaseInit ==
  /\ pg = "up"
  /\ link = [w \in Worker |-> "closed"]

-----------------------------------------------------------------------------
(* The operations of the component.                                        *)

\* portal_database_create(): a failed attempt returns NULL and leaves nothing.
Connect(w) ==
  /\ link[w] = "closed"
  /\ pg = "up"
  /\ link' = [link EXCEPT ![w] = "good"]
  /\ UNCHANGED pg

\* portal_database_destroy(), or the death of the process that owned the link.
Close(w) ==
  /\ link[w] # "closed"
  /\ link' = [link EXCEPT ![w] = "closed"]
  /\ UNCHANGED pg

\* Faulty variant: only the pointer is looked at.
IsConnectedByPointer(w) == link[w] # "closed"

\* portal_database_is_connected(): the cached status, no round trip.
IsConnected(w) == link[w] \in {"good", "stale"}

\* portal_database_query(): the statement ran and its result was read.
QueryReturns(w) ==
  /\ link[w] = "good"
  /\ UNCHANGED dbVars

\* The statement ran and committed, and the connection was lost before its
\* result was read: the caller sees PORTAL_DATABASE_RESULT_ERROR.
QueryLosesResult(w) ==
  /\ link[w] = "good"
  /\ link' = [link EXCEPT ![w] = "bad"]
  /\ UNCHANGED pg

\* Faulty variant: a far end that is gone is waited for without end.
QueryWaits(w) ==
  /\ \/ link[w] \in {"good", "bad"} /\ UNCHANGED link
     \/ link[w] = "good" /\ link' = [link EXCEPT ![w] = "bad"]
  /\ UNCHANGED pg

\* The statement had no effect and the caller sees an error: PostgreSQL
\* refused it, the connection was already CONNECTION_BAD (libpq then fails at
\* once), memory for the result was short and nothing was sent, or the loss of
\* the connection was found while the statement was sent.
QueryFails(w) ==
  /\ \/ link[w] # "closed" /\ UNCHANGED link
     \/ link[w] \in {"good", "stale"} /\ link' = [link EXCEPT ![w] = "bad"]
  /\ UNCHANGED pg

-----------------------------------------------------------------------------
(* The server and the network, which no code under src/ controls.          *)

PgStops ==
  /\ pg = "up"
  /\ pg' = "down"
  /\ link' = [w \in Worker |-> IF link[w] = "good" THEN "stale" ELSE link[w]]

PgStarts ==
  /\ pg = "down"
  /\ pg' = "up"
  /\ UNCHANGED link

\* One connection dies alone: its server process is terminated, or the network
\* forgets an idle connection.
LinkDrops(w) ==
  /\ link[w] = "good"
  /\ link' = [link EXCEPT ![w] = "stale"]
  /\ UNCHANGED pg

DatabaseEnvironment ==
  \/ PgStops
  \/ PgStarts
  \/ \E w \in Worker : LinkDrops(w)

=============================================================================
