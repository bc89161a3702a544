------------------------------ MODULE Analytics ------------------------------
(***************************************************************************)
(* GET /analytics/top-content, from the request on: dispatch, session,     *)
(* parameters and the query that ranks contents by their views.            *)
(***************************************************************************)
EXTENDS Requests, Numerals, FiniteSets, TLC

CONSTANTS
  Content,         \* content ids, in the order of the database: 1, 2, ...
  Ages,            \* ages of events in days
  Tables,          \* contents of activity_events, each a set of rows
  Days, Limits     \* texts of the parameters that are tried, NoText among them

VARIABLES
  rows,            \* activity_events
  parameters,      \* portal_key is valid, days, limit
  authenticated,   \* the handler is past portal_http_authenticate()
  answer           \* [status, items], or status 0 yet

analyticsVars == <<request, outcome, rows, parameters, authenticated, answer>>

\* Only rows of the portal asked for, whose type counts and that have a
\* content_id are views; the others are "noise".
Row == [id : Nat, content : Content, age : Ages, noise : BOOLEAN]

\* C's long is at least 32 bits wide.
ASSUME AnalyticsAssumption ==
  /\ Content \subseteq Nat /\ Ages \subseteq Nat
  /\ \A table \in Tables : IsFiniteSet(table) /\ table \subseteq Row
  /\ Days \cup Limits \subseteq Numeral \cup {NoText}
  /\ LongMax >= 365

NoAnswer == [status |-> 0, items |-> <<>>]
Status(s) == answer' = [NoAnswer EXCEPT !.status = s]

AnalyticsInit ==
  /\ Init
  /\ authenticated = FALSE /\ answer = NoAnswer
  /\ IF Dispatched(request) = "top_content" /\ request.body = "empty"
     THEN /\ rows \in Tables
          /\ parameters \in [portal : BOOLEAN, days : Days, limit : Limits]
     ELSE /\ rows = {}
          /\ parameters = [portal |-> FALSE, days |-> NoText, limit |-> NoText]

-----------------------------------------------------------------------------
(* The handler.                                                            *)

\* analytics_parse_range(): 0 for a text that is refused.
ParseRange(t, fallback, minimum, maximum) ==
  IF t = NoText THEN fallback
  ELSE IF Whole(t) /\ FitsLong(t.number) /\ t.number \in minimum..maximum
  THEN t.number ELSE 0

days == ParseRange(parameters.days, 7, 1, 365)
limit == ParseRange(parameters.limit, 10, 1, 100)

\* The rows of the WHERE clause: occurred_at >= now() - days.
Selected == {r \in rows : ~r.noise /\ r.age <= days}

\* GROUP BY content_id: each content that was selected, with count(*).
Views(c) == Cardinality({r \in Selected : r.content = c})
Groups == {[content |-> c, views |-> Views(c)] : c \in {r.content : r \in Selected}}

Smaller(m, n) == IF m < n THEN m ELSE n

\* ORDER BY count(*) DESC, content_id ASC
Ahead(g, h) == g.views > h.views \/ (g.views = h.views /\ g.content < h.content)

Sorted(s) == \A i, j \in DOMAIN s : i < j => Ahead(s[i], s[j])

\* Faulty variant: the limit is applied before the order.
TopUnordered(groups, k) ==
  SortSeq(SubSeq(SetToSeq(groups), 1, Smaller(k, Cardinality(groups))), Ahead)

\* ... LIMIT k
Top(groups, k) ==
  LET s == CHOOSE t \in [1..Cardinality(groups) -> groups] : Sorted(t)
  IN SubSeq(s, 1, Smaller(k, Cardinality(groups)))

Served == outcome = "top_content" /\ answer.status = 0

\* A session that is not valid, or a database that does not say so.
Unauthorized ==
  /\ Served /\ ~authenticated
  /\ Status(401)
  /\ UNCHANGED <<request, outcome, rows, parameters, authenticated>>

Authorized ==
  /\ Served /\ ~authenticated
  /\ IF parameters.portal /\ days # 0 /\ limit # 0
     THEN authenticated' = TRUE /\ UNCHANGED answer
     ELSE Status(400) /\ UNCHANGED authenticated
  /\ UNCHANGED <<request, outcome, rows, parameters>>

Query ==
  /\ Served /\ authenticated
  /\ \/ answer' = [status |-> 200, items |-> Top(Groups, limit)]
     \/ Status(500)
  /\ UNCHANGED <<request, outcome, rows, parameters, authenticated>>

AnalyticsNext ==
  \/ Dispatch /\ UNCHANGED <<rows, parameters, authenticated, answer>>
  \/ Unauthorized \/ Authorized \/ Query

AnalyticsSpec == AnalyticsInit /\ [][AnalyticsNext]_analyticsVars

-----------------------------------------------------------------------------
(* What the answer means: API-TESTING.md, section 10.                      *)

\* The number a parameter stands for, its default when it is not there, or 0
\* when it is not a number from 1 to the maximum.
Meant(t, default, maximum) ==
  IF t = NoText THEN default
  ELSE IF t.digits /\ ~t.tail /\ t.number >= 1 /\ t.number <= maximum
  THEN t.number ELSE 0

Rows(c, n) == Cardinality({r \in rows : r.content = c /\ ~r.noise /\ r.age \in 0..n})

\* c comes before d: more views, or as many and a smaller id.
Beats(c, d, n) ==
  Rows(c, n) > Rows(d, n) \/ (Rows(c, n) = Rows(d, n) /\ c < d)

\* 200 lists, each once, the contents with views that fewer than the limit beat,
\* each after all those that beat it and with the number of its rows in the
\* window, the last instant of it included.  400 means a parameter is wrong.
TopIsTop ==
  LET n == Meant(parameters.days, 7, 365)
      k == Meant(parameters.limit, 10, 100)
      better(c) == {d \in Content : Beats(d, c, n)}
  IN
  /\ answer.status = 400 <=> answer.status # 0 /\ answer.status # 401
                             /\ (~parameters.portal \/ n = 0 \/ k = 0)
  /\ answer.status = 200 =>
       \A c \in Content :
         LET place == Cardinality(better(c)) + 1
             listed == {i \in DOMAIN answer.items : answer.items[i].content = c} IN
         IF Rows(c, n) > 0 /\ place <= k
         THEN listed = {place} /\ answer.items[place].views = Rows(c, n)
         ELSE listed = {}

=============================================================================
