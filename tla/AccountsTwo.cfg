SPECIFICATION Spec
CONSTANTS
  Worker = {w1, w2}
  Address = {"a"}
  Password = {"short", "long enough"}
  StrongPassword = {"long enough"}
  Uuid = {t1, t2, t3}
  Bogus = bogus
  NoUuid = noUuid
  NoRow = noRow
  NoText = noText
  Lower <- LowerOf
  PgLower <- PgLowerOf
  ConfirmationTtl = 2
  TokenTtl = 1
  ExposeConfirmationToken = TRUE
  MaxTime = 1
SYMMETRY Symmetric
INVARIANTS
  AnswersAreTrue
  Inductive
PROPERTIES
  ClosedNeverAuthenticates
  RowsAreFinal
  ImplementsLifecycle
