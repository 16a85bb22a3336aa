CONSTANTS
  NPairs = 3
  AGENT_CONNCHECK_MAX = 3
  AGENT_CONNCHECK_PERIOD = 2
  connect_deadline_ticks = 6
  KEEPALIVE_TIMEOUT = 2
  ClockMod = 5
SPECIFICATION Spec
INVARIANTS
  TypeOK
  PairBudget
PROPERTIES
  ClosedOnlyWhenSilent
  SilentPeerIsClosed
  NeverIdle
  LostServerIsNoticed
  Heals
