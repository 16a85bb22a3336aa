CONSTANTS
  Images = {good, sick, deaf}
  Joins = {good, sick}
  Healthy = {good}
  Factory = good
  Erased = Erased
  MAX_RETRY = 1
  MaxUploads = 3
  MaxCuts = 1
  MaxApChanges = 1
  MaxFaults = 2
SPECIFICATION Spec
INVARIANTS
  NeverBricked
  UnprovenOnTrial
  FallbackKept
  MarksWhatRuns
  ShaNamesRunning
PROPERTIES
  TrialEnds
CHECK_DEADLOCK FALSE
