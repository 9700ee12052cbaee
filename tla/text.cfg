CONSTANTS
  Characters = {97, 34, 92, 10, 13, 1, 233, 20013}
  TextLength = 3
  LogCharacters = {97, 13, 10}
  LogLength = 5
  Significant = 2
  DoubleDigits = 3
  LongMax = 32767
  Scripts <- SomeScripts
  Hosts <- SomeHosts
  Outputs <- SomeOutputs
SPECIFICATION TextSpec
CHECK_DEADLOCK FALSE
INVARIANTS
  RunsWhatWasTyped
  ResultHonest
  NothingLost
PROPERTIES
  RunEnds
