CONSTANTS
  DL_MAX_PENDING_GAPS = 3
  Message = {"bot-started-speaking", "waiting", "ping"}
  QueueSize = 3
SPECIFICATION Spec
INVARIANTS
  ResetTakesOrIsUndone
PROPERTIES
  MainThreadReturns
  ImplementsServerCommands
