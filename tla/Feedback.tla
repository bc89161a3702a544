------------------------------ MODULE Feedback ------------------------------
(***************************************************************************)
(* What the engagement routes promise, without requests, statements or     *)
(* workers: an actor likes a content at most once and may take it back;    *)
(* the log counts, with each like and each comment, the event it caused;   *)
(* nothing but its own actor removes a like, nothing removes the rest.     *)
(***************************************************************************)
EXTENDS Naturals

CONSTANTS
  Content, Actor,
  Reported       \* event types that an actor may log without liking or commenting

VARIABLES
  liked,         \* the pairs <<content, actor>> that stand
  said,          \* said[<<c, x>>]: comments of actor x on content c
  log            \* log[e]: how many times event e was logged

feedbackVars == <<liked, said, log>>

Event ==
  [type : {"view", "like", "comment"}, content : Content, by : Actor]

EventOf(type, c, x) == [type |-> type, content |-> c, by |-> x]
Logged(e) == log' = [log EXCEPT ![e] = @ + 1]

Init ==
  /\ liked = {}
  /\ said = [p \in Content \X Actor |-> 0]
  /\ log = [e \in Event |-> 0]

Like(c, x) ==
  /\ <<c, x>> \notin liked
  /\ liked' = liked \cup {<<c, x>>}
  /\ Logged(EventOf("like", c, x))
  /\ UNCHANGED said

Unlike(c, x) ==
  /\ <<c, x>> \in liked
  /\ liked' = liked \ {<<c, x>>}
  /\ UNCHANGED <<said, log>>

Comment(c, x) ==
  /\ said' = [said EXCEPT ![<<c, x>>] = @ + 1]
  /\ Logged(EventOf("comment", c, x))
  /\ UNCHANGED liked

Report(e) ==
  /\ e.type \in Reported
  /\ Logged(e)
  /\ UNCHANGED <<liked, said>>

Next ==
  \/ \E c \in Content, x \in Actor : Like(c, x) \/ Unlike(c, x) \/ Comment(c, x)
  \/ \E e \in Event : Report(e)

Spec == Init /\ [][Next]_feedbackVars

=============================================================================
