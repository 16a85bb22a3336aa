CONSTANTS
  Phases = {"speaking", "waiting"}
  ClockSpan = 6
  LED_PHASE_TTL_MS = 2
SPECIFICATION LedRingSpec
PROPERTIES
  QuietTickIsRight
