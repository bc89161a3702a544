----------------------------- MODULE MCAnalytics -----------------------------
(***************************************************************************)
(* Requests and Analytics on every small request: bodies of each kind, ids *)
(* that are empty, usable, of other characters, and of lengths between and *)
(* beyond the limits; parameters at, inside and outside their ranges.      *)
(***************************************************************************)
EXTENDS Analytics

CONSTANTS
  Id,              \* the texts used as ids and keys
  MaxRows          \* bound: views of a content of one age

SizeOf ==
  [t \in Text |-> CASE t = "" -> 0 [] t = "k" -> 1 [] t = "a b" -> 3
                    [] t = "k160" -> 160 [] t = "k300" -> 300 [] OTHER -> 9]

\* Every documented URL, and others near them.
UrlTried ==
  {<<"health">>, <<"analytics", "top-content">>, <<"activity">>, <<"me">>,
   <<"me", "favorite-sections">>, <<"me", "favorite-tags">>,
   <<"auth", "session">>, <<"auth", "register">>, <<"auth", "confirm">>,
   <<"auth", "login">>, <<"">>, <<"content">>, <<"content", "like">>}
    \cup {<<"me", kind, k>> : kind \in {"favorite-sections", "favorite-tags"}, k \in Id}
    \cup {<<"content", i, last>> : i \in Id, last \in {"like", "comments", "likes"}}
    \cup {<<"content", i, j, last>> : i, j \in Id, last \in {"like", "comments"}}

Number(n) == [digits |-> TRUE, number |-> n, tail |-> FALSE]
Odd == {[digits |-> FALSE, number |-> 0, tail |-> TRUE],
        [digits |-> TRUE, number |-> 1, tail |-> TRUE]}

DayTexts == {NoText, Number(0), Number(1), Number(2), Number(365), Number(366)} \cup Odd
LimitTexts == {NoText, Number(-1), Number(1), Number(2), Number(100), Number(101),
               Number(LongMax + 2)}

\* Up to MaxRows views of each content and age, and one other row of each
\* content whose age is odd.
TablesTried ==
  LET others == {[id |-> 0, content |-> c, age |-> a, noise |-> TRUE] :
                   c \in Content, a \in {b \in Ages : b % 2 = 1}}
      views(f, v) == {[id |-> i, content |-> v[1], age |-> v[2], noise |-> FALSE] :
                        i \in 1..f[v]}
  IN {others \cup UNION {views(f, v) : v \in Content \X Ages} :
        f \in [Content \X Ages -> 0..MaxRows]}

=============================================================================
