---------------------------- MODULE MCEngagement ----------------------------
(***************************************************************************)
(* Engagement on small instances: one worker that serves every route, and  *)
(* pairs of workers whose statements can meet on the same rows.  A visitor *)
(* uses the text of a user's id as its anonymous_id.                       *)
(***************************************************************************)
EXTENDS Engagement

CONSTANTS w1, w2

Alone == [w \in Worker |-> IF w = w1 THEN Public \cup Private ELSE {}]
Together(R, S) == [w \in Worker |-> IF w = w1 THEN R ELSE S]

AskedOf ==
  {Alone, Together({"like"}, {"like", "unlike"}),
   Together({"activity"}, {"activity"}),
   Together({"put"}, {"put", "delete"})}

=============================================================================
