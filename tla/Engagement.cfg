SPECIFICATION Spec
CONSTANTS
  w1 = w1
  w2 = w2
  Worker = {w1, w2}
  User = {u1}
  Token = {t1}
  Anon = {u1}
  NoAnon = noAnon
  Content = {c1}
  Key = {k1}
  NoToken = noToken
  Malformed = malformed
  Bogus = bogus
  NoOne = noOne
  MaxEvents = 2
  Reported = {"view"}
  Asks <- AskedOf
INVARIANTS
  EngagementTypeOK
  NoOrphans
  FeedbackHasEvent
  AcknowledgedIsKept
  ActorIsProven
  EndedSessionsDoNothing
PROPERTIES
  OnlyItsActorUndoes
  ImplementsFeedback
