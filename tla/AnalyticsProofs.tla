--------------------------- MODULE AnalyticsProofs ---------------------------
(***************************************************************************)
(* Proofs about Requests and Analytics: every request reaches the handler  *)
(* that is documented for it, and the ranking that top_content answers is  *)
(* that of the views, for all URLs, tables, windows and limits.            *)
(***************************************************************************)
EXTENDS Analytics, FiniteSetTheorems, TLAPS

-----------------------------------------------------------------------------
(* Texts and keys.                                                         *)

\* Only the empty text has length 0.
LEMMA Sizes == Size \in [Text -> Nat] /\ \A t \in Text : Size[t] = 0 <=> t = ""
BY RequestsAssumption, Zenon

\* A URL starts with a slash: it has a first text.
LEMMA Urls == \A u \in Url : u \in Seq(Text) /\ u # <<>>
BY RequestsAssumption, Zenon

\* A text alone, without a slash, is as long as it is: 0 for the empty one only.
LEMMA LengthOne ==
  ASSUME NEW parts \in Seq(Text), Len(parts) = 1
  PROVE  /\ parts[1] \in Text /\ Length(parts) = Size[parts[1]]
         /\ Length(parts) \in Nat /\ (Length(parts) = 0 <=> parts[1] = "")
<1> DEFINE Upto(f) ==
             f = [n \in 0..Len(parts) |-> IF n = 0 THEN 0 ELSE f[n - 1] + Size[parts[n]] + 1]
           upto == CHOOSE f : Upto(f)
<1>0. parts[1] \in Text
  OBVIOUS
<1>1. Size[parts[1]] \in Nat
  BY <1>0, Sizes, Zenon
<1>2. Upto([n \in 0..1 |-> IF n = 0 THEN 0 ELSE Size[parts[1]] + 1])
  BY <1>1
<1>3. Upto(upto)
  BY <1>2
<1>4. Length(parts) = upto[1] - 1
  BY DEF Length
<1> HIDE DEF upto
<1>5. upto[0] = 0 /\ upto[1] = upto[0] + Size[parts[1]] + 1
  BY <1>3
<1>6. Length(parts) = Size[parts[1]]
  BY <1>1, <1>4, <1>5
<1> QED
  BY <1>0, <1>1, <1>6, Sizes, Zenon

\* A valid key is one text that is not empty.
LEMMA KeyIsText ==
  ASSUME NEW parts \in Seq(Text), NEW m \in Nat, ValidKey(parts, m)
  PROVE  Len(parts) = 1 /\ parts[1] # ""
<1>1. Len(parts) = 1 /\ Length(parts) # 0
  BY DEF ValidKey
<1> QED
  BY <1>1, LengthOne, Zenon

\* The keys and ids that handlers find in a URL, and are valid, are one text.
LEMMA KeyParts ==
  ASSUME NEW u \in Seq(Text), Len(u) >= 3
  PROVE  /\ FavoriteKey(u) \in Seq(Text) /\ ContentId(u) \in Seq(Text)
         /\ FavoriteKey(u)[1] = u[3] /\ ContentId(u)[1] = u[2]
         /\ Len(FavoriteKey(u)) = 1 <=> Len(u) = 3
         /\ Len(ContentId(u)) = 1 <=> Len(u) = 3
BY DEF FavoriteKey, ContentId

\* A URL with a valid favorite key has three texts, and the last is the key.
LEMMA FavoriteKeyIsText ==
  ASSUME NEW u \in Seq(Text), Len(u) >= 3, NEW m \in Nat, ValidKey(FavoriteKey(u), m)
  PROVE  Len(u) = 3 /\ u[3] # ""
<1>1. Len(FavoriteKey(u)) = 1 /\ FavoriteKey(u)[1] # ""
  BY KeyParts, KeyIsText, Zenon
<1> QED
  BY <1>1, KeyParts, Zenon

\* A URL with a valid content id has three texts, and the second is the id.
LEMMA ContentIdIsText ==
  ASSUME NEW u \in Seq(Text), Len(u) >= 3, NEW m \in Nat, ValidKey(ContentId(u), m)
  PROVE  Len(u) = 3 /\ u[2] # ""
<1>1. Len(ContentId(u)) = 1 /\ ContentId(u)[1] # ""
  BY KeyParts, KeyIsText, Zenon
<1> QED
  BY <1>1, KeyParts, Zenon

\* In a URL of three texts, the content id is the second.
LEMMA ContentIdLength ==
  ASSUME NEW u \in Seq(Text), Len(u) = 3
  PROVE  Length(ContentId(u)) \in Nat /\ (Length(ContentId(u)) = 0 <=> u[2] = "")
<1>1. Len(u) >= 3
  OBVIOUS
<1> QED
  BY <1>1, KeyParts, LengthOne, Zenon

-----------------------------------------------------------------------------
(* Routes.                                                                 *)

\* What http_dispatch_without_body() makes of a request, when it knows the route.
Direct(m, u, o) ==
  \/ m = "OPTIONS" /\ o = "options"
  \/ /\ m # "OPTIONS" /\ o \in {"health", "top_content", "favorite_list", "logout"}
     /\ Documented(m, u) = o
  \/ /\ m \in {"PUT", "DELETE"} /\ o = "favorite_change" /\ IsFavorite(u)
     /\ Documented(m, u) = IF Len(u) = 3 /\ u[3] # "" THEN o ELSE "none"

\* http_dispatch_without_body() serves documented routes, OPTIONS, and keys that
\* no handler accepts.
LEMMA DirectRoutes ==
  ASSUME NEW m \in Method, NEW u, WithoutBody(m, u) # "none"
  PROVE  Direct(m, u, WithoutBody(m, u))
<1> USE DEF Direct
<1>1. CASE m = "OPTIONS"
  BY <1>1 DEF WithoutBody
<1>2. CASE m = "GET"
  BY <1>2 DEF WithoutBody, Documented
<1>3. CASE m = "DELETE" /\ u = <<"auth", "session">>
  <2>1. WithoutBody(m, u) = "logout"
    BY <1>3 DEF WithoutBody, IsFavorite
  <2>2. Documented(m, u) = "logout"
    BY <1>3 DEF Documented
  <2> QED
    BY <1>3, <2>1, <2>2
<1>4. CASE m \in {"PUT", "DELETE"} /\ IsFavorite(u)
  <2>1. /\ u[1] = "me" /\ u[2] \in {"favorite-sections", "favorite-tags"}
        /\ u # <<"auth", "session">>
    BY <1>4 DEF IsFavorite
  <2>2. WithoutBody(m, u) = "favorite_change"
    BY <1>4, <2>1 DEF WithoutBody
  <2>3. Documented(m, u) = IF Len(u) = 3 /\ u[3] # "" THEN "favorite_change" ELSE "none"
    BY <1>4, <2>1 DEF Documented
  <2> QED
    BY <1>4, <2>2, <2>3
<1> QED
  BY <1>1, <1>2, <1>3, <1>4 DEF WithoutBody

\* An id that fills the buffer of http_dispatch_content() is not a valid one.
LEMMA IdIsShort ==
  ASSUME NEW parts, ValidKey(parts, 300)
  PROVE  ~(Length(parts) >= 301)
<1>1. Length(parts) \in 1..300
  BY DEF ValidKey
<1> QED
  BY <1>1

\* What is documented under /content.
LEMMA ContentDocumented ==
  ASSUME NEW m \in Method, NEW u, u[1] = "content"
  PROVE  LET named == Len(u) = 3 /\ u[2] # "" /\ u[3] # "" IN
         Documented(m, u) =
           IF m \in {"PUT", "DELETE"} /\ named /\ u[3] = "like" THEN "like"
           ELSE IF m = "POST" /\ named /\ u[3] = "comments" THEN "comment" ELSE "none"
<1>1. /\ u # <<"health">> /\ u # <<"activity">> /\ u # <<"auth", "session">>
      /\ u # <<"analytics", "top-content">>
  OBVIOUS
<1>2. CASE m \in {"PUT", "DELETE"}
  BY <1>1, <1>2 DEF Documented
<1>3. CASE m = "POST"
  BY <1>1, <1>3 DEF Documented
<1>4. CASE m \in {"GET", "OPTIONS", "PATCH"}
  BY <1>1, <1>4 DEF Documented
<1> QED
  BY <1>2, <1>3, <1>4 DEF Method

\* What http_dispatch_json_route() makes of a request.
AfterBody(m, u, o) ==
  \/ o = "not_found" /\ Documented(m, u) = "none"
  \/ o = "bad_id" /\ ~ValidKey(ContentId(u), 300)
  \/ /\ o \in {"register", "confirm", "login", "activity"} /\ m = "POST"
     /\ Documented(m, u) = o
  \/ /\ o \in {"like", "comment"}
     /\ \/ Documented(m, u) = o
        \/ Documented(m, u) = "none" /\ ~ValidKey(ContentId(u), 300)

\* /content/<id>/like and /content/<id>/comments, or what looks like one: an id
\* that is not documented, or is refused for its length, is not a valid one.
LEMMA ContentRoutes ==
  ASSUME NEW m \in Method, NEW u \in Seq(Text), Len(u) >= 2, u[1] = "content"
  PROVE  AfterBody(m, u, ContentRoute(m, u))
<1> USE DEF AfterBody
<1> DEFINE named == Len(u) = 3 /\ u[2] # "" /\ u[3] # ""
           long == Length(ContentId(u)) >= 301
           Ending(last) == EndsIn(u, last)
<1>1. ValidKey(ContentId(u), 300) => ~long
  BY IdIsShort
<1>2. ASSUME NEW last \in {"like", "comments"}
      PROVE  /\ named /\ u[3] = last => Ending(last)
             /\ Ending(last) => \/ named /\ u[3] = last
                                \/ ~(Len(u) = 3) /\ ~ValidKey(ContentId(u), 300)
  <2>1. CASE Len(u) = 3
    <3>1. Ending(last) <=> u[3] = last /\ Length(ContentId(u)) > 0
      BY <2>1 DEF EndsIn, Last
    <3>2. Length(ContentId(u)) > 0 <=> u[2] # ""
      <4>1. Length(ContentId(u)) \in Nat
        BY <2>1, ContentIdLength, Zenon
      <4>2. Length(ContentId(u)) > 0 <=> Length(ContentId(u)) # 0
        BY <4>1
      <4> QED
        BY <2>1, <4>2, ContentIdLength, Zenon
    <3>3. last # ""
      OBVIOUS
    <3> QED
      BY <2>1, <3>1, <3>2, <3>3, Zenon
  <2>2. CASE Len(u) # 3
    <3>1. Ending(last) => Len(u) >= 3
      BY DEF EndsIn
    <3>2. 300 \in Nat
      OBVIOUS
    <3>3. Len(u) >= 3 => ~ValidKey(ContentId(u), 300)
      BY <2>2, <3>2, ContentIdIsText, Zenon
    <3> QED
      BY <2>2, <3>1, <3>3, Zenon
  <2> QED
    BY <2>1, <2>2
<1>3. CASE m \in {"PUT", "DELETE"}
  <2>1. Documented(m, u) = IF named /\ u[3] = "like" THEN "like" ELSE "none"
    BY <1>3, ContentDocumented
  <2>2. ContentRoute(m, u) = IF Ending("like") THEN IF long THEN "bad_id" ELSE "like" ELSE "not_found"
    BY <1>3 DEF ContentRoute
  <2> QED
    BY <1>1, <1>2, <2>1, <2>2
<1>4. CASE m = "POST"
  <2>1. Documented(m, u) = IF named /\ u[3] = "comments" THEN "comment" ELSE "none"
    BY <1>4, ContentDocumented
  <2>2. ContentRoute(m, u) = IF Ending("comments") THEN IF long THEN "bad_id" ELSE "comment" ELSE "not_found"
    BY <1>4 DEF ContentRoute
  <2> QED
    BY <1>1, <1>2, <2>1, <2>2
<1>5. CASE m \in {"GET", "OPTIONS", "PATCH"}
  BY <1>5, ContentDocumented DEF ContentRoute
<1> QED
  BY <1>3, <1>4, <1>5 DEF Method

\* A sequence is made of its elements.
LEMMA TwoTexts ==
  ASSUME NEW u \in Seq(Text), Len(u) = 2, NEW s, NEW t, u[1] = s, u[2] = t
  PROVE  u = <<s, t>>
OBVIOUS

\* The other routes with a body.
LEMMA PlainRoutes ==
  ASSUME NEW m \in Method, NEW u \in Seq(Text), WithoutBody(m, u) = "none",
         ~(Len(u) >= 2 /\ u[1] = "content")
  PROVE  AfterBody(m, u, JsonRoute(m, u))
<1> USE DEF AfterBody
<1>1. ~(Len(u) = 3 /\ u[1] = "content")
  OBVIOUS
<1>2. CASE m = "POST"
  <2>1. ASSUME NEW last \in {"register", "confirm", "login"}, u = <<"auth", last>>
        PROVE  JsonRoute(m, u) = last /\ Documented(m, u) = last
    BY <1>2, <2>1 DEF JsonRoute, Documented
  <2>2. CASE u = <<"activity">>
    BY <1>2, <2>2 DEF JsonRoute, Documented
  <2>3. CASE u \notin {<<"auth", "register">>, <<"auth", "confirm">>, <<"auth", "login">>,
                       <<"activity">>}
    <3>1. JsonRoute(m, u) = "not_found"
      BY <1>2, <2>3 DEF JsonRoute
    <3>2. ~(Len(u) = 2 /\ u[1] = "auth" /\ u[2] \in {"register", "confirm", "login"})
      BY <2>3, TwoTexts, Zenon
    <3>3. Documented(m, u) = "none"
      BY <1>1, <1>2, <2>3, <3>2 DEF Documented
    <3> QED
      BY <3>1, <3>3
  <2>4. CASE \E last \in {"register", "confirm", "login"} : u = <<"auth", last>>
    <3>1. PICK last \in {"register", "confirm", "login"} : u = <<"auth", last>>
      BY <2>4
    <3>2. JsonRoute(m, u) = last /\ Documented(m, u) = last
      BY <2>1, <3>1
    <3> QED
      BY <1>2, <3>2
  <2> QED
    BY <2>2, <2>3, <2>4
<1>3. CASE m \in {"PUT", "DELETE"}
  <2>1. JsonRoute(m, u) = "not_found"
    BY <1>3 DEF JsonRoute
  <2>2. ~IsFavorite(u) /\ ~(m = "DELETE" /\ u = <<"auth", "session">>)
    BY <1>3 DEF WithoutBody
  <2>3. ~(Len(u) = 3 /\ u[1] = "me" /\ u[2] \in {"favorite-sections", "favorite-tags"})
    <3>1. Len(u) = 3 => Len(u) >= 3
      OBVIOUS
    <3> QED
      BY <2>2, <3>1, Zenon DEF IsFavorite
  <2>4. Documented(m, u) = "none"
    BY <1>1, <1>3, <2>2, <2>3 DEF Documented
  <2> QED
    BY <2>1, <2>4
<1>4. CASE m \in {"GET", "OPTIONS", "PATCH"}
  <2>1. JsonRoute(m, u) = "not_found"
    BY <1>4 DEF JsonRoute
  <2>2. CASE m = "GET"
    <3>1. ~(Len(u) = 2 /\ u[1] = "me" /\ u[2] \in {"favorite-sections", "favorite-tags"})
      <4>1. u # <<"me", "favorite-sections">> /\ u # <<"me", "favorite-tags">>
        BY <2>2 DEF WithoutBody
      <4> QED
        BY <4>1, TwoTexts, Zenon
    <3>2. u # <<"health">> /\ u # <<"analytics", "top-content">>
      BY <2>2 DEF WithoutBody
    <3>3. Documented(m, u) = "none"
      BY <2>2, <3>1, <3>2 DEF Documented
    <3> QED
      BY <2>1, <3>3
  <2>3. CASE m \in {"OPTIONS", "PATCH"}
    BY <2>1, <2>3 DEF Documented
  <2> QED
    BY <1>4, <2>2, <2>3
<1> QED
  BY <1>2, <1>3, <1>4 DEF Method

\* All the routes with a body.
LEMMA JsonRoutes ==
  ASSUME NEW m \in Method, NEW u \in Seq(Text), WithoutBody(m, u) = "none"
  PROVE  AfterBody(m, u, JsonRoute(m, u))
<1>1. CASE Len(u) >= 2 /\ u[1] = "content"
  <2>1. JsonRoute(m, u) = ContentRoute(m, u)
    BY <1>1 DEF JsonRoute
  <2> QED
    BY <1>1, <2>1, ContentRoutes
<1>2. CASE ~(Len(u) >= 2 /\ u[1] = "content")
  BY <1>2, PlainRoutes
<1> QED
  BY <1>1, <1>2

\* Whatever is dispatched is dispatched as it is documented.
LEMMA DispatchedAsDocumented ==
  ASSUME NEW m \in Method, NEW u \in Url, NEW b \in Body,
         request = [method |-> m, url |-> u, body |-> b], outcome = Dispatched(request)
  PROVE  RoutedAsDocumented
<1> DEFINE direct == WithoutBody(m, u)
<1>1. u \in Seq(Text)
  BY Urls
<1>2. request.method = m /\ request.url = u /\ request.body = b
  OBVIOUS
<1>3. CASE direct # "none"
  <2>1. outcome = WithoutBody(m, u) /\ outcome # "none"
    BY <1>2, <1>3, Zenon DEF Dispatched
  <2>2. CASE m = "OPTIONS" /\ outcome = "options"
    BY <1>2, <2>1, <2>2 DEF RoutedAsDocumented, Errors
  <2>3. CASE /\ m # "OPTIONS" /\ Documented(m, u) = outcome
             /\ outcome \in {"health", "top_content", "favorite_list", "logout"}
    BY <1>2, <2>1, <2>3 DEF RoutedAsDocumented, Errors
  <2>4. CASE /\ m \in {"PUT", "DELETE"} /\ outcome = "favorite_change" /\ IsFavorite(u)
             /\ Documented(m, u) = IF Len(u) = 3 /\ u[3] # "" THEN outcome ELSE "none"
    <3>1. Documented(m, u) \in {"none", outcome}
      BY <2>4
    <3>2. ValidKey(FavoriteKey(u), 160) => Documented(m, u) = outcome
      <4>1. Len(u) >= 3
        BY <2>4 DEF IsFavorite
      <4>2. 160 \in Nat
        OBVIOUS
      <4> QED
        BY <1>1, <2>4, <4>1, <4>2, FavoriteKeyIsText, Zenon
    <3>3. Named("favorite_change", u) = FavoriteKey(u) /\ Limit("favorite_change") = 160
      BY Zenon DEF Named, Limit
    <3>4. CASE Documented(m, u) = outcome
      BY <1>2, <2>1, <2>4, <3>4 DEF RoutedAsDocumented, Errors
    <3>5. CASE Documented(m, u) = "none" /\ ~ValidKey(FavoriteKey(u), 160)
      <4>1. outcome = "favorite_change" /\ m # "OPTIONS"
        BY <2>1, <2>4
      <4>2. ~ValidKey(Named(outcome, u), Limit(outcome))
        BY <3>3, <3>5, <4>1, Zenon
      <4> QED
        BY <1>2, <3>5, <4>1, <4>2 DEF RoutedAsDocumented, Errors
    <3> QED
      BY <3>1, <3>2, <3>4, <3>5
  <2>5. Direct(m, u, outcome)
    BY <2>1, DirectRoutes, Zenon
  <2> QED
    BY <2>2, <2>3, <2>4, <2>5, Zenon DEF Direct
<1>4. CASE direct = "none" /\ BodyExpected(m, b) /\ ~Parsed(b)
  <2>1. outcome = "invalid_json"
    BY <1>2, <1>4 DEF Dispatched
  <2>2. m # "OPTIONS" /\ (b = "empty" => m \in {"POST", "PUT"})
    BY <1>4 DEF BodyExpected
  <2> QED
    BY <1>2, <1>4, <2>1, <2>2 DEF RoutedAsDocumented, Errors
<1>5. CASE direct = "none" /\ (BodyExpected(m, b) => Parsed(b))
  <2>1. outcome = JsonRoute(m, u)
    BY <1>2, <1>5 DEF Dispatched
  <2>2. m # "OPTIONS"
    BY <1>5 DEF WithoutBody
  <2>3. Named("like", u) = ContentId(u) /\ Named("comment", u) = ContentId(u)
        /\ Limit("like") = 300 /\ Limit("comment") = 300
    BY DEF Named, Limit
  <2>4. m \in {"POST", "PUT", "DELETE"} => Parsed(b) \/ (m = "DELETE" /\ b = "empty")
    BY <1>5 DEF BodyExpected
  <2>5. JsonRoute(m, u) \in {"like", "comment"} => m \in {"POST", "PUT", "DELETE"}
    BY DEF JsonRoute, ContentRoute
  <2>6. CASE outcome = "not_found" /\ Documented(m, u) = "none"
    BY <1>2, <2>2, <2>6 DEF RoutedAsDocumented, Errors
  <2>7. CASE outcome = "bad_id" /\ ~ValidKey(ContentId(u), 300)
    BY <1>2, <2>2, <2>7 DEF RoutedAsDocumented, Errors
  <2>8. CASE /\ outcome \in {"register", "confirm", "login", "activity"} /\ m = "POST"
             /\ Documented(m, u) = outcome
    BY <1>2, <2>2, <2>4, <2>8 DEF RoutedAsDocumented, Errors
  <2>9. CASE /\ outcome \in {"like", "comment"}
             /\ \/ Documented(m, u) = outcome
                \/ Documented(m, u) = "none" /\ ~ValidKey(ContentId(u), 300)
    <3>1. Parsed(b) \/ (m = "DELETE" /\ b = "empty")
      BY <2>1, <2>4, <2>5, <2>9
    <3>2. CASE Documented(m, u) = outcome
      BY <1>2, <2>2, <2>9, <3>1, <3>2 DEF RoutedAsDocumented, Errors
    <3>3. CASE Documented(m, u) = "none" /\ ~ValidKey(ContentId(u), 300)
      <4>1. ~ValidKey(Named(outcome, u), Limit(outcome))
        BY <2>3, <2>9, <3>3
      <4> QED
        BY <1>2, <2>2, <2>9, <3>1, <3>3, <4>1 DEF RoutedAsDocumented, Errors
    <3> QED
      BY <2>9, <3>2, <3>3
  <2>10. AfterBody(m, u, outcome)
    BY <1>1, <1>5, <2>1, JsonRoutes, Zenon
  <2> QED
    BY <2>6, <2>7, <2>8, <2>9, <2>10, Zenon DEF AfterBody
<1> QED
  BY <1>3, <1>4, <1>5

\* A request is what some client sends, and is dispatched once.
Routed ==
  /\ request \in [method : Method, url : Url, body : Body]
  /\ outcome \in {"none", Dispatched(request)}

\* http_dispatch() is a function of the request, which nothing changes.
LEMMA RoutedInvariant == AnalyticsSpec => []Routed
<1>1. AnalyticsInit => Routed
  BY DEF AnalyticsInit, Init, Routed
<1>2. Routed /\ [AnalyticsNext]_analyticsVars => Routed'
  <2> SUFFICES ASSUME Routed, [AnalyticsNext]_analyticsVars
               PROVE  Routed'
    OBVIOUS
  <2>1. CASE Dispatch
    BY <2>1 DEF Routed, Dispatch
  <2>2. CASE UNCHANGED <<request, outcome>>
    BY <2>2 DEF Routed
  <2> QED
    BY <2>1, <2>2 DEF AnalyticsNext, Unauthorized, Authorized, Query, analyticsVars
<1> QED
  BY <1>1, <1>2, PTL DEF AnalyticsSpec

\* Every request, whatever its method, its URL and its body, reaches the handler
\* that the README names for it, and no other that would accept it.
THEOREM RoutingCorrect == AnalyticsSpec => []RoutedAsDocumented
<1>1. Routed => RoutedAsDocumented
  <2> SUFFICES ASSUME Routed, outcome # "none"
               PROVE  RoutedAsDocumented
    BY DEF RoutedAsDocumented
  <2>1. PICK m \in Method, u \in Url, b \in Body :
               request = [method |-> m, url |-> u, body |-> b]
    BY DEF Routed
  <2>2. outcome = Dispatched(request)
    BY DEF Routed
  <2> QED
    BY <2>1, <2>2, DispatchedAsDocumented, Zenon
<1> QED
  BY <1>1, RoutedInvariant, PTL

-----------------------------------------------------------------------------
(* Places.                                                                 *)

\* Groups that can be ranked: finitely many, of different contents.
Ranked(G) ==
  /\ IsFiniteSet(G)
  /\ \A g \in G : g.content \in Nat /\ g.views \in Nat
  /\ \A g, h \in G : g.content = h.content => g = h

\* ORDER BY is a strict and total order on them.
LEMMA AheadOrder ==
  ASSUME NEW G, Ranked(G)
  PROVE  /\ \A g \in G : ~Ahead(g, g)
         /\ \A g, h, i \in G : Ahead(g, h) /\ Ahead(h, i) => Ahead(g, i)
         /\ \A g, h \in G : g # h => Ahead(g, h) \/ Ahead(h, g)
<1>1. ASSUME NEW g \in G
      PROVE  ~Ahead(g, g)
  BY DEF Ahead, Ranked
<1>2. ASSUME NEW g \in G, NEW h \in G, NEW i \in G, Ahead(g, h), Ahead(h, i)
      PROVE  Ahead(g, i)
  BY <1>2 DEF Ahead, Ranked
<1>3. ASSUME NEW g \in G, NEW h \in G, g # h
      PROVE  Ahead(g, h) \/ Ahead(h, g)
  BY <1>3 DEF Ahead, Ranked
<1> QED
  BY <1>1, <1>2, <1>3

\* The groups ahead of one, and the place it has by them.
Before(G, g) == {h \in G : Ahead(h, g)}
Place(G, g) == Cardinality(Before(G, g)) + 1

\* Places are those from 1 to the number of groups.
LEMMA PlaceType ==
  ASSUME NEW G, Ranked(G), NEW g \in G
  PROVE  /\ IsFiniteSet(Before(G, g)) /\ Cardinality(Before(G, g)) \in Nat
         /\ Cardinality(G) \in Nat /\ Place(G, g) \in 1..Cardinality(G)
<1>1. IsFiniteSet(G) /\ Cardinality(G) \in Nat
  BY FS_CardinalityType DEF Ranked
<1>2. Before(G, g) \subseteq G /\ Before(G, g) # G
  BY AheadOrder DEF Before
<1>3. /\ IsFiniteSet(Before(G, g)) /\ Cardinality(Before(G, g)) <= Cardinality(G)
      /\ Cardinality(Before(G, g)) # Cardinality(G)
  BY <1>1, <1>2, FS_Subset
<1>4. Cardinality(Before(G, g)) \in Nat
  BY <1>3, FS_CardinalityType
<1> QED
  BY <1>1, <1>3, <1>4 DEF Place

\* Who is ahead has the smaller place.
LEMMA PlaceMonotone ==
  ASSUME NEW G, Ranked(G), NEW g \in G, NEW h \in G, Ahead(g, h)
  PROVE  Place(G, g) < Place(G, h)
<1>1. Before(G, g) \subseteq Before(G, h)
  BY AheadOrder DEF Before
<1>2. g \in Before(G, h) /\ g \notin Before(G, g)
  BY AheadOrder DEF Before
<1>3. /\ Cardinality(Before(G, g)) <= Cardinality(Before(G, h))
      /\ Cardinality(Before(G, g)) # Cardinality(Before(G, h))
  BY <1>1, <1>2, PlaceType, FS_Subset
<1> QED
  BY <1>3, PlaceType DEF Place

\* Groups can be sorted: give each its place.
LEMMA SortedExists ==
  ASSUME NEW G, Ranked(G)
  PROVE  \E t \in [1..Cardinality(G) -> G] : Sorted(t)
<1> DEFINE n == Cardinality(G)
           p == [g \in G |-> Place(G, g)]
<1>1. n \in Nat /\ IsFiniteSet(G)
  BY FS_CardinalityType DEF Ranked
<1>2. IsFiniteSet(1..n) /\ Cardinality(1..n) = n
  BY <1>1, FS_Interval
<1>3. p \in [G -> 1..n]
  BY PlaceType
<1>4. ASSUME NEW g \in G, NEW h \in G, p[g] = p[h]
      PROVE  g = h
  <2> SUFFICES ASSUME g # h PROVE FALSE
    OBVIOUS
  <2>1. Ahead(g, h) \/ Ahead(h, g)
    BY AheadOrder
  <2>2. Place(G, g) # Place(G, h)
    BY <2>1, PlaceMonotone, PlaceType
  <2> QED
    BY <2>2, <1>4
<1>5. p \in Surjection(G, 1..n)
  <2>1. p \in Injection(G, 1..n)
    BY <1>3, <1>4 DEF Injection, IsInjective
  <2> QED
    BY <2>1, <1>1, <1>2, FS_Injection
<1>6. \A i \in 1..n : \E g \in G : p[g] = i
  BY <1>5 DEF Surjection
<1> DEFINE t == [i \in 1..n |-> CHOOSE g \in G : p[g] = i]
<1>7. ASSUME NEW i \in 1..n
      PROVE  t[i] \in G /\ Place(G, t[i]) = i
  BY <1>6
<1>8. t \in [1..n -> G]
  BY <1>7
<1>9. ASSUME NEW i \in 1..n, NEW j \in 1..n, i < j
      PROVE  Ahead(t[i], t[j])
  <2> HIDE DEF t
  <2>1. t[i] # t[j] /\ ~(Place(G, t[j]) < Place(G, t[i]))
    BY <1>7, <1>9
  <2> QED
    BY <2>1, <1>7, AheadOrder, PlaceMonotone
<1> QED
  BY <1>8, <1>9 DEF Sorted

\* In a sorted sequence of all the groups, each is at its place.
LEMMA SortedPlaces ==
  ASSUME NEW G, Ranked(G), NEW t \in [1..Cardinality(G) -> G], Sorted(t)
  PROVE  /\ \A i \in 1..Cardinality(G) : Place(G, t[i]) = i
         /\ \A g \in G : t[Place(G, g)] = g
<1> DEFINE n == Cardinality(G)
<1>1. n \in Nat /\ IsFiniteSet(G)
  BY FS_CardinalityType DEF Ranked
<1>2. IsFiniteSet(1..n) /\ Cardinality(1..n) = n
  BY <1>1, FS_Interval
<1>3. ASSUME NEW i \in 1..n, NEW j \in 1..n
      PROVE  Ahead(t[i], t[j]) <=> i < j
  <2>1. i < j => Ahead(t[i], t[j])
    BY DEF Sorted
  <2>2. j < i => Ahead(t[j], t[i])
    BY DEF Sorted
  <2>3. t[i] \in G /\ t[j] \in G
    OBVIOUS
  <2>4. i < j \/ j < i \/ i = j
    BY <1>1
  <2>5. ~(Ahead(t[i], t[j]) /\ Ahead(t[j], t[i])) /\ ~Ahead(t[i], t[i])
    BY <2>3, AheadOrder
  <2> QED
    BY <2>1, <2>2, <2>4, <2>5
<1>4. ASSUME NEW i \in 1..n, NEW j \in 1..n, t[i] = t[j]
      PROVE  i = j
  <2>1. ~Ahead(t[i], t[j]) /\ ~Ahead(t[j], t[i])
    BY <1>4, AheadOrder
  <2> QED
    BY <2>1, <1>3, <1>1
<1>5. t \in Injection(1..n, G)
  BY <1>4 DEF Injection, IsInjective
<1>6. \A g \in G : \E i \in 1..n : t[i] = g
  <2>1. t \in Surjection(1..n, G)
    BY <1>5, <1>1, <1>2, FS_Injection
  <2> QED
    BY <2>1 DEF Surjection
<1>7. ASSUME NEW i \in 1..n
      PROVE  Place(G, t[i]) = i
  <2> DEFINE b == [j \in 1..(i - 1) |-> t[j]]
  <2>1. i - 1 \in Nat /\ 1..(i - 1) \subseteq 1..n
    BY <1>1
  <2>2. b \in [1..(i - 1) -> Before(G, t[i])]
    BY <2>1, <1>3, <1>1 DEF Before
  <2>3. \A j, k \in 1..(i - 1) : b[j] = b[k] => j = k
    BY <2>1, <1>4
  <2>4. \A g \in Before(G, t[i]) : \E j \in 1..(i - 1) : b[j] = g
    BY <2>1, <1>6, <1>3, <1>1 DEF Before
  <2>5. b \in Bijection(1..(i - 1), Before(G, t[i]))
    BY <2>2, <2>3, <2>4 DEF Bijection, Injection, IsInjective, Surjection
  <2>6. Cardinality(Before(G, t[i])) = i - 1
    BY <2>1, <2>5, FS_CountingElements DEF ExistsBijection
  <2> QED
    BY <2>6 DEF Place
<1> QED
  BY <1>6, <1>7

\* What top_content lists of groups: each whose place is within the limit, there.
LEMMA TopPlaces ==
  ASSUME NEW G, Ranked(G), NEW k \in Nat
  PROVE  /\ \A i \in DOMAIN Top(G, k) : Top(G, k)[i] \in G /\ Place(G, Top(G, k)[i]) = i
         /\ \A i \in DOMAIN Top(G, k) : i <= k
         /\ \A g \in G : Place(G, g) <= k =>
              Place(G, g) \in DOMAIN Top(G, k) /\ Top(G, k)[Place(G, g)] = g
<1> DEFINE n == Cardinality(G)
           s == CHOOSE t \in [1..n -> G] : Sorted(t)
           m == Smaller(k, n)
<1>1. n \in Nat
  BY FS_CardinalityType DEF Ranked
<1>2. s \in [1..n -> G] /\ Sorted(s)
  BY SortedExists
<1>3. m \in Nat /\ m <= n /\ m <= k /\ (\A i \in 1..n : i <= k => i <= m)
  BY <1>1 DEF Smaller
<1>4. Top(G, k) = SubSeq(s, 1, m)
  BY DEF Top
<1> HIDE DEF s, m
<1>5. s \in Seq(G) /\ Len(s) = n
  BY <1>1, <1>2
<1>6. DOMAIN Top(G, k) = 1..m /\ \A i \in 1..m : Top(G, k)[i] = s[i]
  BY <1>1, <1>3, <1>4, <1>5
<1>7. 1..m \subseteq 1..n
  BY <1>1, <1>3
<1>8. ASSUME NEW i \in 1..m
      PROVE  s[i] \in G /\ Place(G, s[i]) = i /\ i <= k
  BY <1>1, <1>2, <1>3, <1>7, SortedPlaces
<1>9. ASSUME NEW g \in G, Place(G, g) <= k
      PROVE  Place(G, g) \in 1..m /\ s[Place(G, g)] = g
  BY <1>1, <1>2, <1>3, <1>9, SortedPlaces, PlaceType
<1> QED
  BY <1>6, <1>8, <1>9

-----------------------------------------------------------------------------
(* Groups of rows.                                                         *)

Group(c) == [content |-> c, views |-> Views(c)]

\* A table of activity_events.
Table == IsFiniteSet(rows) /\ rows \subseteq Row

\* Views are counted of finitely many rows, and only of those selected.
LEMMA ViewsCounted ==
  ASSUME Table, NEW c
  PROVE  Views(c) \in Nat /\ (Views(c) > 0 <=> \E r \in Selected : r.content = c)
<1> DEFINE mine == {r \in Selected : r.content = c}
<1>1. mine \subseteq rows
  BY DEF Selected
<1>2. IsFiniteSet(mine)
  BY <1>1, FS_Subset DEF Table
<1>3. Cardinality(mine) \in Nat /\ (Cardinality(mine) = 0 <=> mine = {})
  BY <1>2, FS_CardinalityType, FS_EmptySet
<1> QED
  BY <1>3 DEF Views

\* The groups are those of the contents with views, one of each.
LEMMA GroupsOfContents ==
  ASSUME Table
  PROVE  /\ \A c : Views(c) > 0 <=> Group(c) \in Groups
         /\ \A g \in Groups : g.content \in Content /\ g = Group(g.content)
<1>1. Groups = {Group(c) : c \in {r.content : r \in Selected}}
  BY DEF Groups, Group
<1>2. ASSUME NEW r \in Selected
      PROVE  r.content \in Content
  BY DEF Selected, Table, Row
<1>3. \A c : Group(c).content = c
  BY DEF Group
<1>4. \A g \in Groups : \E r \in Selected : g = Group(r.content)
  BY <1>1
<1>5. \A r \in Selected : Group(r.content) \in Groups
  BY <1>1
<1> QED
  BY <1>2, <1>3, <1>4, <1>5, ViewsCounted

\* GROUP BY gives what ORDER BY ranks.
LEMMA GroupsRanked ==
  ASSUME Table
  PROVE  Ranked(Groups)
<1>1. IsFiniteSet(Groups)
  <2> DEFINE f == [r \in Selected |-> Group(r.content)]
  <2>1. Groups = {Group(r.content) : r \in Selected}
    BY DEF Groups, Group
  <2>2. f \in Surjection(Selected, Groups)
    BY <2>1 DEF Surjection
  <2>3. IsFiniteSet(Selected)
    BY FS_Subset DEF Selected, Table
  <2> QED
    BY <2>2, <2>3, FS_Surjection
<1>2. ASSUME NEW g \in Groups
      PROVE  g.content \in Nat /\ g.views \in Nat
  <2>1. g.content \in Content /\ g.views = Views(g.content)
    BY GroupsOfContents DEF Group
  <2> QED
    BY <2>1, ViewsCounted, AnalyticsAssumption
<1> QED
  BY <1>1, <1>2, GroupsOfContents DEF Ranked

-----------------------------------------------------------------------------
(* The query and the meaning of its answer.                                *)

Parameters == [portal : BOOLEAN, days : Numeral \cup {NoText}, limit : Numeral \cup {NoText}]

\* analytics_parse_range() takes the numbers that are meant, and no other.
LEMMA RangeIsMeant ==
  ASSUME NEW t \in Numeral \cup {NoText}, NEW default \in Nat,
         NEW maximum \in Nat, maximum <= 365
  PROVE  /\ ParseRange(t, default, 1, maximum) = Meant(t, default, maximum)
         /\ Meant(t, default, maximum) \in Nat
<1>1. CASE t = NoText
  BY <1>1 DEF ParseRange, Meant
<1>2. CASE t # NoText
  <2>1. t.number \in Int
    BY <1>2 DEF Numeral
  <2>2. t.number \in 1..maximum <=> t.number >= 1 /\ t.number <= maximum
    BY <2>1
  <2>3. t.number \in 1..maximum => FitsLong(t.number)
    BY <2>1, AnalyticsAssumption, NumeralsAssumption DEF FitsLong
  <2>4. t.number \in 1..maximum => t.number \in Nat
    BY <2>1
  <2> QED
    BY <1>2, <2>2, <2>3, <2>4 DEF ParseRange, Meant, Whole
<1> QED
  BY <1>1, <1>2

\* The window and the limit of the query are those that the parameters mean.
LEMMA ParametersMeant ==
  ASSUME parameters \in Parameters
  PROVE  /\ days = Meant(parameters.days, 7, 365) /\ days \in Nat
         /\ limit = Meant(parameters.limit, 10, 100) /\ limit \in Nat
<1>1. /\ parameters.days \in Numeral \cup {NoText}
      /\ parameters.limit \in Numeral \cup {NoText}
  BY DEF Parameters
<1>2. /\ ParseRange(parameters.days, 7, 1, 365) = Meant(parameters.days, 7, 365)
      /\ Meant(parameters.days, 7, 365) \in Nat
  BY <1>1, RangeIsMeant, 365 <= 365
<1>3. /\ ParseRange(parameters.limit, 10, 1, 100) = Meant(parameters.limit, 10, 100)
      /\ Meant(parameters.limit, 10, 100) \in Nat
  BY <1>1, RangeIsMeant, 100 <= 365
<1>4. days = ParseRange(parameters.days, 7, 1, 365)
  BY DEF days
<1>5. limit = ParseRange(parameters.limit, 10, 1, 100)
  BY DEF limit
<1> QED
  BY <1>2, <1>3, <1>4, <1>5

\* The rows of the window are those the query selects.
LEMMA RowsAreViews ==
  ASSUME Table, days \in Nat, NEW c
  PROVE  Rows(c, days) = Views(c)
<1>1. ASSUME NEW r \in rows
      PROVE  r.age \in 0..days <=> r.age <= days
  <2>1. r.age \in Nat
    BY AnalyticsAssumption DEF Table, Row
  <2> QED
    BY <2>1
<1>2. {r \in rows : r.content = c /\ ~r.noise /\ r.age \in 0..days}
        = {r \in Selected : r.content = c}
  BY <1>1 DEF Selected
<1> QED
  BY <1>2 DEF Rows, Views

\* A content has the place of its group.
LEMMA PlaceOfContent ==
  ASSUME Table, days \in Nat, NEW c \in Content, Views(c) > 0
  PROVE  Cardinality({d \in Content : Beats(d, c, days)}) + 1 = Place(Groups, Group(c))
<1> DEFINE better == {d \in Content : Beats(d, c, days)}
           before == Before(Groups, Group(c))
           f == [h \in before |-> h.content]
<1>1. \A d : Group(d).content = d /\ Group(d).views = Views(d)
  BY DEF Group
<1>2. \A d \in Content : Beats(d, c, days) <=> Ahead(Group(d), Group(c))
  BY <1>1, RowsAreViews DEF Beats, Ahead
<1>3. \A d \in Content : Ahead(Group(d), Group(c)) => Views(d) > 0
  BY <1>1, ViewsCounted DEF Ahead
<1>4. \A h \in before : h = Group(h.content) /\ h.content \in better
  BY <1>2, GroupsOfContents DEF Before
<1>5. \A d \in better : Group(d) \in before
  BY <1>2, <1>3, GroupsOfContents DEF Before
<1>6. f \in Bijection(before, better)
  <2>1. f \in [before -> better]
    BY <1>4
  <2>2. \A g, h \in before : f[g] = f[h] => g = h
    BY <1>4
  <2>3. \A d \in better : \E h \in before : f[h] = d
    BY <1>1, <1>5
  <2> QED
    BY <2>1, <2>2, <2>3 DEF Bijection, Injection, IsInjective, Surjection
<1>7. IsFiniteSet(before)
  BY GroupsRanked, GroupsOfContents, PlaceType
<1>8. Cardinality(better) = Cardinality(before)
  BY <1>6, <1>7, FS_Bijection DEF ExistsBijection
<1> QED
  BY <1>8 DEF Place

-----------------------------------------------------------------------------
(* The answers.                                                            *)

\* The parameters that are answered with a list.
Good == parameters.portal /\ days # 0 /\ limit # 0

\* What the answers say of the parameters and the rows.
Answered ==
  /\ Table
  /\ parameters \in Parameters
  /\ authenticated => Good
  /\ answer.status \in {0, 401, 400, 500, 200}
  /\ answer.status = 400 => ~Good
  /\ answer.status \in {500, 200} => Good
  /\ answer.status = 200 => answer.items = Top(Groups, limit)

\* The answer is the query's, with the parameters and the rows of the request.
LEMMA AnsweredInvariant == AnalyticsSpec => []Answered
<1>1. AnalyticsInit => Answered
  <2> SUFFICES ASSUME AnalyticsInit
               PROVE  Answered
    OBVIOUS
  <2>1. ~authenticated /\ answer.status = 0
    BY DEF AnalyticsInit, NoAnswer
  <2>2. Table
    BY AnalyticsAssumption, FS_EmptySet DEF AnalyticsInit, Table
  <2>3. parameters \in Parameters
    <3>1. \/ parameters \in [portal : BOOLEAN, days : Days, limit : Limits]
          \/ parameters = [portal |-> FALSE, days |-> NoText, limit |-> NoText]
      BY DEF AnalyticsInit
    <3>2. Days \subseteq Numeral \cup {NoText} /\ Limits \subseteq Numeral \cup {NoText}
      BY AnalyticsAssumption, Zenon
    <3> DEFINE all == Numeral \cup {NoText}
    <3>3. NoText \in all
      OBVIOUS
    <3> HIDE DEF all
    <3>4. CASE parameters \in [portal : BOOLEAN, days : Days, limit : Limits]
      <4>1. parameters \in [portal : BOOLEAN, days : all, limit : all]
        BY <3>2, <3>4 DEF all
      <4> QED
        BY <4>1 DEF Parameters, all
    <3>5. CASE parameters = [portal |-> FALSE, days |-> NoText, limit |-> NoText]
      <4>1. parameters \in [portal : BOOLEAN, days : all, limit : all]
        BY <3>3, <3>5
      <4> QED
        BY <4>1 DEF Parameters, all
    <3> QED
      BY <3>1, <3>4, <3>5
  <2> QED
    BY <2>1, <2>2, <2>3 DEF Answered
<1>2. Answered /\ [AnalyticsNext]_analyticsVars => Answered'
  <2> SUFFICES ASSUME Answered, [AnalyticsNext]_analyticsVars
               PROVE  Answered'
    OBVIOUS
  <2> DEFINE same == <<rows, parameters>>' = <<rows, parameters>>
  <2>1. same => /\ Table' = Table /\ (parameters \in Parameters)' = (parameters \in Parameters)
                /\ Good' = Good /\ Top(Groups, limit)' = Top(Groups, limit)
    BY DEF Table, Good, days, limit, Groups, Views, Selected
  <2>2. CASE Dispatch /\ UNCHANGED <<rows, parameters, authenticated, answer>>
    BY <2>1, <2>2 DEF Answered
  <2>3. CASE Unauthorized
    <3>1. same /\ authenticated' = authenticated /\ answer'.status = 401
      BY <2>3 DEF Unauthorized, Status, NoAnswer
    <3> QED
      BY <2>1, <3>1 DEF Answered
  <2>4. CASE Authorized
    <3>1. same
      BY <2>4 DEF Authorized
    <3>2. CASE Good
      <4>1. authenticated' /\ answer' = answer
        BY <2>4, <3>2 DEF Authorized, Good
      <4> QED
        BY <2>1, <3>1, <3>2, <4>1 DEF Answered
    <3>3. CASE ~Good
      <4>1. authenticated' = authenticated /\ answer'.status = 400
        BY <2>4, <3>3 DEF Authorized, Good, Status, NoAnswer
      <4> QED
        BY <2>1, <3>1, <3>3, <4>1 DEF Answered
    <3> QED
      BY <3>2, <3>3
  <2>5. CASE Query
    <3>1. same /\ authenticated' = authenticated /\ authenticated
      BY <2>5 DEF Query
    <3>2. CASE answer' = [status |-> 200, items |-> Top(Groups, limit)]
      BY <2>1, <3>1, <3>2 DEF Answered
    <3>3. CASE Status(500)
      <4>1. answer'.status = 500
        BY <3>3 DEF Status, NoAnswer
      <4> QED
        BY <2>1, <3>1, <4>1 DEF Answered
    <3> QED
      BY <2>5, <3>2, <3>3 DEF Query
  <2>6. CASE UNCHANGED analyticsVars
    BY <2>1, <2>6 DEF Answered, analyticsVars
  <2> QED
    BY <2>2, <2>3, <2>4, <2>5, <2>6 DEF AnalyticsNext
<1> QED
  BY <1>1, <1>2, PTL DEF AnalyticsSpec

\* For every finite table, window and limit, the list of top-content holds the
\* contents that fewer than the limit beat, each once and at its place.
THEOREM RankingCorrect == AnalyticsSpec => []TopIsTop
<1>1. Answered => TopIsTop
  <2> SUFFICES ASSUME Answered
               PROVE  TopIsTop
    OBVIOUS
  <2> DEFINE n == Meant(parameters.days, 7, 365)
             k == Meant(parameters.limit, 10, 100)
             items == answer.items
             place(c) == Cardinality({d \in Content : Beats(d, c, n)}) + 1
             listed(c) == {i \in DOMAIN items : items[i].content = c}
  <2>1. Table /\ n = days /\ k = limit /\ n \in Nat /\ k \in Nat
    BY ParametersMeant DEF Answered
  <2> HIDE DEF n, k
  <2>2. answer.status = 400 <=> answer.status # 0 /\ answer.status # 401
                                /\ (~parameters.portal \/ n = 0 \/ k = 0)
    BY <2>1 DEF Answered, Good
  <2>3. ASSUME answer.status = 200, NEW c \in Content
        PROVE  IF Rows(c, n) > 0 /\ place(c) <= k
               THEN listed(c) = {place(c)} /\ items[place(c)].views = Rows(c, n)
               ELSE listed(c) = {}
    <3>1. items = Top(Groups, k) /\ Ranked(Groups)
      BY <2>1, <2>3, GroupsRanked DEF Answered
    <3>2. Rows(c, n) = Views(c)
      BY <2>1, RowsAreViews
    <3>3. Group(c).content = c /\ Group(c).views = Views(c)
      BY DEF Group
    <3>4. ASSUME Views(c) > 0
          PROVE  Group(c) \in Groups /\ place(c) = Place(Groups, Group(c))
      BY <2>1, <3>4, GroupsOfContents, PlaceOfContent
    <3>5. ASSUME NEW i \in listed(c)
          PROVE  Views(c) > 0 /\ i = Place(Groups, Group(c)) /\ i <= k
      <4>1. items[i] \in Groups /\ Place(Groups, items[i]) = i /\ i <= k
        BY <2>1, <3>1, TopPlaces
      <4>2. items[i] = Group(c)
        BY <2>1, <4>1, GroupsOfContents
      <4> QED
        BY <2>1, <4>1, <4>2, GroupsOfContents
    <3>6. CASE Views(c) > 0 /\ place(c) <= k
      <4>1. place(c) \in DOMAIN items /\ items[place(c)] = Group(c)
        BY <2>1, <3>1, <3>4, <3>6, TopPlaces
      <4>2. listed(c) = {place(c)}
        BY <4>1, <3>3, <3>4, <3>5
      <4> QED
        BY <4>1, <4>2, <3>2, <3>3, <3>6
    <3>7. CASE ~(Views(c) > 0 /\ place(c) <= k)
      <4>1. listed(c) = {}
        BY <3>4, <3>5, <3>7
      <4> QED
        BY <4>1, <3>2, <3>7
    <3> QED
      BY <3>6, <3>7
  <2> QED
    BY <2>2, <2>3 DEF TopIsTop, n, k
<1> QED
  BY <1>1, AnsweredInvariant, PTL

=============================================================================
