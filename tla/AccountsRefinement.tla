------------------------- MODULE AccountsRefinement -------------------------
(***************************************************************************)
(* Accounts implements AccountLifecycle: whatever the workers, the clock,  *)
(* the connections and the crashes do, the tables go through the life of   *)
(* accounts and sessions that the abstract specification describes.        *)
(***************************************************************************)
EXTENDS AccountsProofs

\* The abstract state, as the refinement mapping computes it.
pendingBar == {a \in Address : users[a] # NoRow /\ users[a].confirmed = Never}
confirmedBar == {a \in Address : users[a] # NoRow /\ users[a].confirmed # Never}
ownerBar == [t \in Uuid |->
               IF sessions[t] = NoRow THEN NoText ELSE sessions[t].user]
liveBar == {t \in Uuid : Closable(t) /\ sessions[t].expires > now}

\* Empty tables are a lifecycle where nothing has happened.
LEMMA LifecycleInit == Init => Lifecycle!Init
BY DEF Init, Lifecycle!Init, Closable

\* A statement that writes nothing, and the clock, can only end sessions.
LEMMA TimeEnds ==
  ASSUME TypeOK, WritesNothing
  PROVE  [Lifecycle!Next]_(Lifecycle!lifecycleVars)
<1>1. /\ pendingBar' = pendingBar /\ confirmedBar' = confirmedBar
      /\ ownerBar' = ownerBar
  BY DEF WritesNothing, tables, pendingBar, confirmedBar, ownerBar
<1>2. liveBar' \subseteq liveBar
  BY DEF WritesNothing, tables, liveBar, Closable, TypeOK, Session
<1>3. liveBar' = liveBar \ (liveBar \ liveBar')
  BY <1>2
<1> QED
  BY <1>1, <1>3 DEF Lifecycle!Next, Lifecycle!End, pendingBar, confirmedBar,
     ownerBar, liveBar

\* Every step of a worker, of PostgreSQL or of the clock is a step of the
\* lifecycle, or leaves it as it is.
LEMMA LifecycleStep ==
  ASSUME Inductive, [Next]_vars
  PROVE  [Lifecycle!Next]_(Lifecycle!lifecycleVars)
<1> USE DEF Inductive
<1>1. CASE WritesNothing
  BY <1>1, TimeEnds
<1>2. ASSUME NEW a \in Address, NEW p \in StrongPassword, NEW t \in Uuid,
             Registers(a, p, t)
      PROVE  Lifecycle!Next
  <2>1. users' = [users EXCEPT ![a] = [password |-> p, confirmed |-> Never]]
        /\ users'[a] # NoRow /\ users'[a].confirmed = Never
    BY <1>2, NoRowAssumption DEF Registers, NewUser, User, Instant, TypeOK
  <2>2. a \notin pendingBar \cup confirmedBar
    BY <1>2 DEF Registers, pendingBar, confirmedBar
  <2>3. pendingBar' = pendingBar \cup {a} /\ confirmedBar' = confirmedBar
    BY <1>2, <2>1 DEF Registers, pendingBar, confirmedBar, TypeOK
  <2>4. ownerBar' = ownerBar /\ liveBar' = liveBar
    BY <1>2 DEF Registers, ownerBar, liveBar, Closable
  <2> QED
    BY <2>2, <2>3, <2>4
       DEF Lifecycle!Next, Lifecycle!Register, pendingBar, confirmedBar, ownerBar,
           liveBar
<1>3. ASSUME NEW t \in Uuid, Confirms(t)
      PROVE  Lifecycle!Next
  <2> DEFINE u == confirmations[t].user
  <2>1. u \in Address /\ users[u] \in User /\ users[u].confirmed = Never
    BY <1>3 DEF Confirms, Confirmable, OneAccountPerMailbox, ConfirmedByItsToken,
                TypeOK, Confirmation
  <2>2. users' = [users EXCEPT ![u].confirmed = now]
        /\ users'[u] \in User /\ users'[u] # NoRow /\ users'[u].confirmed # Never
    BY <1>3, <2>1, NoRowAssumption
       DEF Confirms, Consume, TypeOK, User, Instant, Never
  <2>3. u \in pendingBar
    BY <2>1, NoRowAssumption DEF pendingBar
  <2>4. pendingBar' = pendingBar \ {u} /\ confirmedBar' = confirmedBar \cup {u}
    BY <2>1, <2>2 DEF pendingBar, confirmedBar, TypeOK
  <2>5. ownerBar' = ownerBar /\ liveBar' = liveBar
    BY <1>3 DEF Confirms, ownerBar, liveBar, Closable
  <2> QED
    BY <2>1, <2>3, <2>4, <2>5
       DEF Lifecycle!Next, Lifecycle!Confirm, pendingBar, confirmedBar, ownerBar,
           liveBar
<1>4. ASSUME NEW t \in Uuid, NEW a \in Address, Opens(t, a)
      PROVE  Lifecycle!Next
  <2>1. sessions' = [sessions EXCEPT ![t] =
                       [user |-> a, expires |-> now + TokenTtl, revoked |-> Never]]
        /\ sessions'[t] # NoRow /\ sessions[t] = NoRow
        /\ sessions'[t].expires > now'
    BY <1>4, NoRowAssumption, AccountsAssumption
       DEF Opens, NewSession, Fresh, Session, Instant, TypeOK
  <2>2. a \in confirmedBar /\ ownerBar[t] = NoText
    BY <1>4, <2>1 DEF Opens, confirmedBar, ownerBar
  <2>3. ownerBar' = [ownerBar EXCEPT ![t] = a]
    BY <2>1 DEF ownerBar, TypeOK
  <2>4. liveBar' = liveBar \cup {t}
    BY <1>4, <2>1 DEF Opens, liveBar, Closable, TypeOK
  <2>5. pendingBar' = pendingBar /\ confirmedBar' = confirmedBar
    BY <1>4 DEF Opens, pendingBar, confirmedBar
  <2> QED
    BY <2>2, <2>3, <2>4, <2>5
       DEF Lifecycle!Next, Lifecycle!Grant, pendingBar, confirmedBar, ownerBar,
           liveBar
<1>5. ASSUME NEW t \in Uuid, Closes(t)
      PROVE  Lifecycle!Next
  <2>1. sessions[t] \in Session /\ sessions[t] # NoRow
    BY <1>5 DEF Closes, Closable, TypeOK
  <2>2. sessions' = [sessions EXCEPT ![t] = [sessions[t] EXCEPT !.revoked = now]]
        /\ sessions'[t] \in Session /\ sessions'[t] # NoRow
        /\ sessions'[t].user = sessions[t].user /\ sessions'[t].revoked # Never
    BY <1>5, <2>1, NoRowAssumption
       DEF Closes, Revoke, Session, Instant, Never, TypeOK
  <2>3. ownerBar' = ownerBar
    BY <2>1, <2>2 DEF ownerBar, TypeOK
  <2>4. liveBar' = liveBar \ (liveBar \ liveBar') /\ liveBar \ liveBar' \subseteq liveBar
    BY <1>5, <2>2 DEF Closes, liveBar, Closable, TypeOK
  <2>5. pendingBar' = pendingBar /\ confirmedBar' = confirmedBar
    BY <1>5 DEF Closes, pendingBar, confirmedBar
  <2> QED
    BY <2>3, <2>4, <2>5
       DEF Lifecycle!Next, Lifecycle!End, pendingBar, confirmedBar, ownerBar,
           liveBar
<1> QED
  BY <1>1, <1>2, <1>3, <1>4, <1>5, TableSteps

\* The detailed specification implements the abstract one.
THEOREM LifecycleImplemented == Spec => ImplementsLifecycle
<1>1. Inductive /\ [Next]_vars => [Lifecycle!Next]_(Lifecycle!lifecycleVars)
  BY LifecycleStep
<1> QED
  BY <1>1, LifecycleInit, InductiveIsInvariant, PTL
     DEF Spec, ImplementsLifecycle, Lifecycle!Spec

=============================================================================
