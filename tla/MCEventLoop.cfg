SPECIFICATION Spec
CONSTANTS
  Addrs = {a1, a2, a3}
  NULL = NULL
  MAX_EVENTS = 2
  IDLE_SWEEP_INTERVAL_SECONDS = 1
  idle_timeout_seconds = 1
  TicksPerSecond = 1
  Skews <- NeverSet
  MaxJump = 0
  MaxTime = 1
  MaxArrivals = 3
  MaxBroken = 1
SYMMETRY Symmetry
INVARIANTS TypeOK ListIsExact CursorIsLive AcceptQueueDrained NothingLeaks
PROPERTY ImplementsContract
