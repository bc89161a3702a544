SPECIFICATION Spec
CONSTANTS
  Worker = {w1}
  Address = {"a"}
  Password = {"short", "long enough"}
  StrongPassword = {"long enough"}
  Uuid = {t1, t2}
  Bogus = bogus
  NoUuid = noUuid
  NoRow = noRow
  NoText = noText
  Lower <- LowerOf
  PgLower <- PgLowerOf
  ConfirmationTtl = 1
  TokenTtl = 1
  ExposeConfirmationToken = TRUE
  MaxTime = 1
PROPERTY
  TokenIsBlamedJustly
