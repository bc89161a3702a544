SPECIFICATION Spec
CONSTANTS
  Worker = {w1}
  Address = {"a", "A", "b", "E"}
  Password = {"short", "long enough"}
  StrongPassword = {"long enough"}
  Uuid = {t1, t2, t3}
  Bogus = bogus
  NoUuid = noUuid
  NoRow = noRow
  NoText = noText
  Lower <- LowerOf
  PgLower <- PgLowerOf
  ConfirmationTtl = 2
  TokenTtl = 1
  ExposeConfirmationToken = TRUE
  MaxTime = 2
SYMMETRY TokensSymmetric
INVARIANTS
  TypeOK
  OneAccountPerMailbox
  ConfirmedByItsToken
  SessionsOnlyForConfirmed
PROPERTY
  StrandedForever
