SPECIFICATION Spec
CONSTANTS
  Addrs = {a1}
  NULL = NULL
  MAX_EVENTS = 2
  IDLE_SWEEP_INTERVAL_SECONDS = 1
  idle_timeout_seconds = 2
  TicksPerSecond = 2
  Skews <- NeverSet
  MaxJump = 0
  MaxTime = 8
  MaxArrivals = 1
  MaxBroken = 1
PROPERTY SlowReaderNotPunished
