SPECIFICATION Spec
CONSTANTS
  Addrs = {a1, a2}
  NULL = NULL
  MAX_EVENTS = 2
  IDLE_SWEEP_INTERVAL_SECONDS = 1
  idle_timeout_seconds = 1
  TicksPerSecond = 1
  Skews <- NeverSet
  MaxJump = 0
  MaxTime = 2
  MaxArrivals = 2
  MaxBroken = 1
INVARIANT NoDanglingEvent
