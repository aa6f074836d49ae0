---------------------------- MODULE MCClockSync ----------------------------
(* Constant values for model checking ClockSync.                           *)
EXTENDS ClockSync

CONSTANTS t0, t1

NoTimers  == {}
OneTimer  == {t0}
TwoTimers == {t0, t1}
ClockMode == {"CLOCK"}
BothModes == {"CLOCK", "TIMER"}

\* Timer 0 has the quantum for its interval, the others one of their own.
Intervals == [t \in Timers |-> IF t = t0 THEN 2 ELSE 3]
Shortest  == [t \in Timers |-> 1]
=============================================================================
