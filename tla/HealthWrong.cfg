SPECIFICATION Spec
CONSTANT Worker = {w1}
PROPERTY
  HealthyMeansReachable
