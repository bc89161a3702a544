SPECIFICATION FairSpec
CONSTANTS
  Worker = {w1, w2}
  Address = {"a"}
  Password = {"short", "long enough"}
  StrongPassword = {"long enough"}
  Uuid = {t1, t2}
  Bogus = bogus
  NoUuid = noUuid
  NoRow = noRow
  NoText = noText
  Lower <- LowerOf
  PgLower <- PgLowerOf
  ConfirmationTtl = 1
  TokenTtl = 1
  ExposeConfirmationToken = FALSE
  MaxTime = 1
INVARIANT
  ConfirmationTokenIsSecret
PROPERTY
  EveryRequestEnds
