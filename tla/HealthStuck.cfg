SPECIFICATION FairSpec
CONSTANT Worker = {w1}
PROPERTY
  HealthRecovers
