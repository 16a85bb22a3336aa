CONSTANTS
  PBC_STEP_MS = 4
  PBC_MIN_MS = 4
  PBC_MAX_MS = 12
  PBC_WINDOW_MS = 3
  PBC_RATE_THRESHOLD = 2
  PBC_DECAY_QUIET_MS = 5
  ResumeWindow = 2
  Builds = {TRUE, FALSE}
  ClockMod = 8
  TotalMod = 3
  Bases = {2, 10}
  Pauses = {1, 2}
  Recoveries = {0, 1}
SPECIFICATION Spec
INVARIANTS
  TypeOK
  DepthInBounds
  OneVerdictPerDrain
PROPERTIES
  StepsChangeDepth
  GrowsAfterBurst
  DecaysAfterQuiet
