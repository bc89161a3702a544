SPECIFICATION FairSpec
CONSTANTS
  LongMax = 70000
  NoText = noText
  Environments <- EnvironmentsTried
INVARIANTS
  AppTypeOK
  NoUseAfterRelease
  SettingsAreUsable
  ReleasedInReverse
  OrderlyReturn
PROPERTIES
  NoRequestCut
  SignalEndsProcess
CHECK_DEADLOCK FALSE
