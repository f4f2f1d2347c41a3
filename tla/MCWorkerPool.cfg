SPECIFICATION FairSpec
CONSTANTS
  MAX_WORKERS = 3
  NoNumber = NoNumber
  OnlineCpus <- MCOnlineCpus
  EnvWorkers <- MCEnvWorkers
  EnvTimeouts <- MCEnvTimeouts
  DEFAULT_IDLE_TIMEOUT_SECONDS = 30
INVARIANTS TypeOK SharedStateOutlivesWorkers ExitIsOrderly
PROPERTIES SignalEndsProcess DeadPoolExits
