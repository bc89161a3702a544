-------------------------- MODULE AccountLifecycle --------------------------
(***************************************************************************)
(* What the accounts of the API promise, without requests, statements,     *)
(* workers or clocks: an address registers, is confirmed once and stays    *)
(* so; a session is granted to a confirmed account only, keeps its owner,  *)
(* and once it has ended never lives again.                                *)
(***************************************************************************)
CONSTANTS Address, Uuid, NoOne

VARIABLES
  pending,       \* addresses registered and not confirmed
  confirmed,     \* addresses confirmed
  owner,         \* owner[t]: the account session t was granted to, or NoOne
  live           \* sessions neither revoked nor expired

lifecycleVars == <<pending, confirmed, owner, live>>

Init ==
  /\ pending = {} /\ confirmed = {} /\ live = {}
  /\ owner = [t \in Uuid |-> NoOne]

Register(a) ==
  /\ a \notin pending \cup confirmed
  /\ pending' = pending \cup {a}
  /\ UNCHANGED <<confirmed, owner, live>>

Confirm(a) ==
  /\ a \in pending
  /\ pending' = pending \ {a}
  /\ confirmed' = confirmed \cup {a}
  /\ UNCHANGED <<owner, live>>

Grant(t, a) ==
  /\ a \in confirmed
  /\ owner[t] = NoOne
  /\ owner' = [owner EXCEPT ![t] = a]
  /\ live' = live \cup {t}
  /\ UNCHANGED <<pending, confirmed>>

\* A logout ends one session, an hour that passes may end several.
End(S) ==
  /\ live' = live \ S
  /\ UNCHANGED <<pending, confirmed, owner>>

Next ==
  \/ \E a \in Address : Register(a) \/ Confirm(a)
  \/ \E t \in Uuid, a \in Address : Grant(t, a)
  \/ \E S \in SUBSET live : End(S)

Spec == Init /\ [][Next]_lifecycleVars

=============================================================================
