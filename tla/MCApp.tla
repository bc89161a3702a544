-------------------------------- MODULE MCApp --------------------------------
(***************************************************************************)
(* App in environments whose numbers are at, inside and outside the ranges *)
(* and at the ends of what strtoul() takes.                                *)
(***************************************************************************)
EXTENDS App

Number(n) == [digits |-> TRUE, number |-> n, tail |-> FALSE]
Texts ==
  {NoText, [digits |-> FALSE, number |-> 0, tail |-> TRUE],
   [digits |-> TRUE, number |-> 1, tail |-> TRUE]}
    \cup {Number(n) : n \in {0, 1, 720, 721, 2160, 2161, 65535, 65536, -1,
                             ULongMax, ULongMax + 1, -ULongMax, -ULongMax - 1}}

Default == [database_url |-> TRUE, port |-> NoText, token_ttl |-> NoText,
            confirmation_ttl |-> NoText, expose |-> NoText]

EnvironmentsTried ==
  {[Default EXCEPT !.database_url = FALSE]}
    \cup {[Default EXCEPT !.port = t, !.token_ttl = t, !.confirmation_ttl = t] :
            t \in Texts}
    \cup {[Default EXCEPT !.expose = e] : e \in {"1", "true", "yes", "other"}}

=============================================================================
