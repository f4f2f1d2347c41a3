SPECIFICATION FairSpec
CONSTANTS
  Addrs = {a1}
  NULL = NULL
  MAX_EVENTS = 2
  IDLE_SWEEP_INTERVAL_SECONDS = 1
  idle_timeout_seconds = 2
  TicksPerSecond = 2
  Skews <- SetBack
  MaxJump = 1
  MaxTime = 8
  MaxArrivals = 2
  MaxBroken = 0
INVARIANT NoLinger
PROPERTIES SweepNotEarly ShutdownEndsLoop QueuedClientsAccepted
