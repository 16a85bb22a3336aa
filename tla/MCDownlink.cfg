CONSTANTS
  Half = 5
  RED_MAX_BLOCKS = 2
  RED_MAX_GAP = 3
  MAX_TS_OFFSET = 7
  TS_STEP = 2
  TsMod = 16
  DL_MAX_PENDING_GAPS = 3
  RemoteSsrc = 6
  MaxIdx = 12
  Skews = {0, 1, 2}
  OtherSsrc = 7
  Packets <- MCPackets
SPECIFICATION Spec
INVARIANTS
  TypeOK
  OneOperationPerSlot
  TimelineInOrder
  FramesInTheirSlots
  OutputInOrder
  ArrivalOrderDecided
  FecFromNextOrAfterJump
PROPERTIES
  CopiesAreUsed
CHECK_DEADLOCK FALSE
