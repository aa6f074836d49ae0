SPECIFICATION FairSpec
CONSTANTS
  t0 = t0
  t1 = t1
  NoTimer = NoTimer
  Timers <- OneTimer
  SyncModes <- ClockMode
  SchedTimer = t0
  Interval <- Intervals
  PassBroadcasts = FALSE
  Patient = TRUE
  MaxSigints = 1
PROPERTIES ShutdownCompletes
CHECK_DEADLOCK FALSE
