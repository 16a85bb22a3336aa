CONSTANTS
  PLAY_RING_SAMPLES = 7
  CounterMod = 14
  PCM_SAMPLES_PER_FRAME = 2
  PLAYBACK_SILENCE_FRAMES = 3
  Thresholds = {2, 7}
  ClipSamples = 9
  Workloads <- AllWorkloads
SPECIFICATION Spec
INVARIANTS
  TypeOK
  FramesIntact
  UnderrunMeansOverrun
  AudibleBehindSilence
  ResetAfterEarlierAudio
CHECK_DEADLOCK FALSE
