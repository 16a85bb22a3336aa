CONSTANTS
  Images = {good}
  Joins = {good}
  Healthy = {good}
  Factory = good
  Erased = Erased
  MAX_RETRY = 1
  MaxUploads = 0
  MaxCuts = 0
  MaxApChanges = 2
  MaxFaults = 0
SPECIFICATION SpecLossNoticed
PROPERTIES
  JoinsAgain
CHECK_DEADLOCK FALSE
