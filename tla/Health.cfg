SPECIFICATION FairSpec
CONSTANT Worker = {w1, w2}
INVARIANTS
  HealthTypeOK
PROPERTIES
  AlarmIsTrue
  LossIsReported
  LossIsNoticed
  ProbeIsAnswered
