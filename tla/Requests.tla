------------------------------ MODULE Requests ------------------------------
(***************************************************************************)
(* What becomes of a whole request before a handler sees it:               *)
(* http_dispatch() and the functions it calls, portal_http_request_parse_  *)
(* json(), and the checks on keys that handlers make of their URL.         *)
(*                                                                         *)
(* A URL is the sequence of the texts between its slashes, the first slash *)
(* left out: "/content//like" is <<"content", "", "like">>.                *)
(***************************************************************************)
EXTENDS Naturals, Sequences, SequencesExt

CONSTANTS
  Text,            \* texts between two slashes
  Size,            \* their lengths
  Clean,           \* those of letters, digits, '-', '_', '.' and ':'
  Url,             \* URLs that clients send
  Body             \* bodies that clients send

VARIABLES
  request,         \* [method, url, body]
  outcome          \* what http_dispatch() does: "none" yet, a handler, an error

ASSUME RequestsAssumption ==
  /\ Size \in [Text -> Nat] /\ \A t \in Text : Size[t] = 0 <=> t = ""
  /\ Clean \subseteq Text /\ Url \subseteq Seq(Text) \ {<<>>}
  /\ Body \subseteq {"empty", "spaces", "object", "object and spaces",
                     "object and more", "array", "broken"}

Method == {"GET", "POST", "PUT", "DELETE", "OPTIONS", "PATCH"}

-----------------------------------------------------------------------------
(* Texts.                                                                  *)

\* strlen() of the texts joined by slashes.
Length(parts) ==
  LET upto[n \in 0..Len(parts)] ==
        IF n = 0 THEN 0 ELSE upto[n - 1] + Size[parts[n]] + 1
  IN upto[Len(parts)] - 1

\* portal_validation_key(): a slash is none of the characters it accepts.
ValidKey(parts, maximum) ==
  /\ Len(parts) = 1
  /\ parts[1] \in Clean
  /\ Length(parts) \in 1..maximum

\* portal_http_request_parse_json(): NULL unless the whole body is one object,
\* with nothing but blanks after it.  That the parser itself may find no memory,
\* which is answered as a body that is no object, is left out.
Parsed(body) == body \in {"object", "object and spaces"}

-----------------------------------------------------------------------------
(* http_dispatch()                                                         *)

\* strncmp(url, "/me/favorite-sections/", 22), and the same for tags
FavoriteKey(url) == SubSeq(url, 3, Len(url))
IsFavorite(url) ==
  /\ Len(url) >= 3
  /\ url[1] = "me" /\ url[2] \in {"favorite-sections", "favorite-tags"}

\* http_dispatch_without_body(), but for the routes it leaves: "none"
WithoutBody(m, u) ==
  CASE m = "OPTIONS" -> "options"
    [] m = "GET" /\ u = <<"health">> -> "health"
    [] m = "GET" /\ u = <<"analytics", "top-content">> -> "top_content"
    [] m = "GET" /\ u \in {<<"me", "favorite-sections">>, <<"me", "favorite-tags">>}
         -> "favorite_list"
    [] m = "DELETE" /\ u = <<"auth", "session">> -> "logout"
    [] m \in {"PUT", "DELETE"} /\ IsFavorite(u) -> "favorite_change"
    [] OTHER -> "none"

\* The content id is what is left of the last text; 301 bytes hold it.
ContentId(u) == SubSeq(u, 2, Len(u) - 1)
EndsIn(u, last) == Len(u) >= 3 /\ Last(u) = last /\ Length(ContentId(u)) > 0

\* http_dispatch_content()
ContentRoute(m, u) ==
  CASE m \in {"PUT", "DELETE"} /\ EndsIn(u, "like") ->
         IF Length(ContentId(u)) >= 301 THEN "bad_id" ELSE "like"
    [] m = "POST" /\ EndsIn(u, "comments") ->
         IF Length(ContentId(u)) >= 301 THEN "bad_id" ELSE "comment"
    [] OTHER -> "not_found"

\* http_dispatch_json_route()
JsonRoute(m, u) ==
  CASE m = "POST" /\ u = <<"auth", "register">> -> "register"
    [] m = "POST" /\ u = <<"auth", "confirm">> -> "confirm"
    [] m = "POST" /\ u = <<"auth", "login">> -> "login"
    [] m = "POST" /\ u = <<"activity">> -> "activity"
    [] Len(u) >= 2 /\ u[1] = "content" -> ContentRoute(m, u)
    [] OTHER -> "not_found"

\* Faulty variant: a body is wanted of every DELETE.
BodyExpectedAlways(m, body) == m \in {"POST", "PUT", "DELETE"}

BodyExpected(m, body) ==
  m \in {"POST", "PUT"} \/ (m = "DELETE" /\ body # "empty")

Dispatched(r) ==
  LET direct == WithoutBody(r.method, r.url) IN
  IF direct # "none" THEN direct
  ELSE IF BodyExpected(r.method, r.body) /\ ~Parsed(r.body) THEN "invalid_json"
  ELSE JsonRoute(r.method, r.url)

Init ==
  /\ request \in [method : Method, url : Url, body : Body]
  /\ outcome = "none"

Dispatch ==
  /\ outcome = "none"
  /\ outcome' = Dispatched(request)
  /\ UNCHANGED request

-----------------------------------------------------------------------------
(* The documentation of the routes: README.md, "Endpoints".                *)

Errors == {"invalid_json", "bad_id", "not_found"}

\* What the table of README.md has for a method and a URL, or "none".
Documented(m, u) ==
  LET named == Len(u) = 3 /\ u[2] # "" /\ u[3] # "" IN
  CASE m = "GET" /\ u = <<"health">> -> "health"
    [] m = "POST" /\ Len(u) = 2 /\ u[1] = "auth"
         /\ u[2] \in {"register", "confirm", "login"} -> u[2]
    [] m = "DELETE" /\ u = <<"auth", "session">> -> "logout"
    [] m = "GET" /\ Len(u) = 2 /\ u[1] = "me"
         /\ u[2] \in {"favorite-sections", "favorite-tags"} -> "favorite_list"
    [] m \in {"PUT", "DELETE"} /\ named /\ u[1] = "me"
         /\ u[2] \in {"favorite-sections", "favorite-tags"} -> "favorite_change"
    [] m = "POST" /\ u = <<"activity">> -> "activity"
    [] m \in {"PUT", "DELETE"} /\ named /\ u[1] = "content" /\ u[3] = "like" -> "like"
    [] m = "POST" /\ named /\ u[1] = "content" /\ u[3] = "comments" -> "comment"
    [] m = "GET" /\ u = <<"analytics", "top-content">> -> "top_content"
    [] OTHER -> "none"

\* The key or content id that a handler finds in the URL, and its limit.
Named(o, u) == IF o = "favorite_change" THEN FavoriteKey(u) ELSE ContentId(u)
Limit(o) == IF o = "favorite_change" THEN 160 ELSE 300

\* Each documented route reaches its handler and no other, with the body it
\* may come with; what reaches a handler under another URL names a key or an
\* id that the handler refuses.  A handler that reads fields has an object,
\* except that of DELETE .../like, which may come with no body at all.
RoutedAsDocumented ==
  outcome # "none" =>
    LET m == request.method u == request.url documented == Documented(m, u) IN
    /\ m = "OPTIONS" <=> outcome = "options"
    /\ outcome \notin Errors \cup {"options", documented} =>
         /\ documented = "none" /\ outcome \in {"favorite_change", "like", "comment"}
         /\ ~ValidKey(Named(outcome, u), Limit(outcome))
    /\ m # "OPTIONS" /\ documented # "none" /\ outcome # documented =>
         \/ outcome = "bad_id" /\ ~ValidKey(ContentId(u), 300)
         \/ /\ outcome = "invalid_json" /\ ~Parsed(request.body)
            /\ request.body = "empty" => m \in {"POST", "PUT"}
    /\ outcome \in {"register", "confirm", "login", "activity", "like", "comment"} =>
         Parsed(request.body) \/ (m = "DELETE" /\ request.body = "empty")

\* A URL that no route has is answered 404 (API-TESTING.md, section 12: "Ruta
\* inexistente"), whatever body comes with it.
UnknownRouteIsNotFound ==
  (\A m \in Method : Documented(m, request.url) = "none")
  => outcome # "invalid_json"

=============================================================================
