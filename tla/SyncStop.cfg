SPECIFICATION FairSpec
CONSTANTS
  t0 = t0
  t1 = t1
  NoTimer = NoTimer
  Timers <- OneTimer
  SyncModes <- BothModes
  SchedTimer = t0
  Interval <- Intervals
  PassBroadcasts = FALSE
  Patient = FALSE
  MaxSigints = 2
INVARIANTS TypeOK NoThreadOutlivesMain SelfLockNeedsTwo
PROPERTIES SchedulerStops ShutdownAccounted NoNewCallback
CHECK_DEADLOCK FALSE
