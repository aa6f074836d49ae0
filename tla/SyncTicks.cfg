SPECIFICATION FairSpec
CONSTANTS
  t0 = t0
  t1 = t1
  NoTimer = NoTimer
  Timers <- TwoTimers
  SyncModes <- BothModes
  SchedTimer = t0
  Interval <- Intervals
  PassBroadcasts = TRUE
  Patient = TRUE
  MaxSigints = 0
PROPERTIES ClockKeepsTicking SchedulerKeepsUp IntervalsExact
