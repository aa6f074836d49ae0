----------------------------- MODULE ClockSync -----------------------------
(***************************************************************************)
(* How the threads of the simulator wait for each other: the clock, the    *)
(* timers, the scheduler and the main thread, on clk_mutex with clk_cond   *)
(* and clk_cond2, on the scheduler's own sched_cond, and in pause().       *)
(* A step runs to the next point where the thread can be suspended with an *)
(* effect others see.  `blocked' pcs say which condition variable a thread *)
(* is waiting on; a broadcast moves it on, and it then needs the mutex     *)
(* again.  A broadcast that nobody waits for is lost.  A critical section  *)
(* is one step, unless a signal handler runs in the middle of it.          *)
(***************************************************************************)
EXTENDS Naturals, FiniteSets

CONSTANTS
    Timers,      \* timers_to_create of them
    SchedTimer,  \* the timer that gets the callback in TIMER mode, or NoTimer
    NoTimer,
    SyncModes,   \* the values of -sync: "CLOCK", "TIMER"
    Interval,    \* of each timer, in ticks
    PassBroadcasts, \* whether a pass may broadcast clk_cond (PRIO expiry)
    Patient,     \* whether usleep outlasts the other threads' return to their waits
    MaxSigints   \* bound: how often the user presses Ctrl-C

ASSUME SyncAssumption ==
    /\ IsFiniteSet(Timers) /\ {NoTimer, "main", "clock", "sched"} \cap Timers = {}
    /\ SyncModes \subseteq {"CLOCK", "TIMER"} /\ Interval \in [Timers -> Nat \ {0}]
    /\ SchedTimer \in Timers \cup {NoTimer}
    /\ "TIMER" \in SyncModes => SchedTimer \in Timers
    /\ PassBroadcasts \in BOOLEAN /\ Patient \in BOOLEAN /\ MaxSigints \in Nat

VARIABLES
    sync_mode,     \* as the option -sync has set it
    mutex_held,    \* clk_mutex is held by a thread that will never release it
    sched_mutex_held, \* sched_mutex is held by a thread that a signal interrupted
    running,       \* the global flag
    sched_running, timer_running,  \* the flags of the scheduler and of the timers
    fresh,         \* clk_counter # last_tick of the scheduler
    since,         \* clk_counter - last_tick of each timer, up to its interval
    clock, timer, sched, main,     \* where each thread is
    handler,       \* where handle_sigint is, inside each thread
    sigints

mutexVars  == <<mutex_held, sched_mutex_held>>
flagVars   == <<running, sched_running, timer_running>>
tickVars   == <<fresh, since>>
signalVars == <<handler, sigints>>
vars == <<sync_mode, mutexVars, flagVars, tickVars, clock, timer, sched, main, signalVars>>

Threads == {"main", "clock", "sched"} \cup Timers

\* A thread inside the handler goes on when the handler has returned.
Free(th) == handler[th] = "none"

Init ==
    /\ sync_mode \in SyncModes
    /\ mutex_held = FALSE /\ sched_mutex_held = FALSE
    /\ running = TRUE /\ sched_running = FALSE
    /\ timer_running = [t \in Timers |-> TRUE]
    /\ fresh = FALSE /\ since = [t \in Timers |-> 0]
    /\ clock = "sleep" /\ sched = "unborn" /\ timer = [t \in Timers |-> "unborn"]
    /\ main = "set_clock" /\ handler = [th \in Threads |-> "none"] /\ sigints = 0

\* pthread_cond_broadcast on each condition variable.
TimersAfterTick == [t \in Timers |-> IF timer[t] = "blocked" THEN "awake" ELSE timer[t]]
SchedAfterTick  == IF sched = "blocked" THEN "awake" ELSE sched
BroadcastTick   == timer' = TimersAfterTick /\ sched' = SchedAfterTick
BroadcastConfirmation == clock' = IF clock = "blocked" THEN "awake" ELSE clock
SignalScheduler == sched' = IF sched = "blocked_on_timer" THEN "activated" ELSE sched

----------------------------------------------------------------------------
(* The clock.                                                              *)

\* The others are back where the next tick will find them.
AllWaiting ==
    /\ \A t \in Timers : timer[t] \in {"blocked", "done"}
    /\ sched \in {"unborn", "blocked", "blocked_on_timer", "done"}
    /\ main \notin {"set_clock", "create_timers", "start_scheduler"}

\* A signal cuts usleep short.
ClockWakes ==
    /\ clock = "sleep" /\ Free("clock")
    /\ Patient /\ running => AllWaiting
    /\ clock' = IF running THEN "lock" ELSE "done"
    /\ UNCHANGED <<sync_mode, mutexVars, flagVars, tickVars, timer, sched, main, signalVars>>

\* Mutant of ClockTicks: the wait for the confirmation is left out.
ClockTicksOn ==
    /\ clock = "lock" /\ Free("clock") /\ ~mutex_held
    /\ fresh' = TRUE
    /\ since' = [t \in Timers |-> IF since[t] < Interval[t] THEN since[t] + 1 ELSE Interval[t]]
    /\ BroadcastTick
    /\ clock' = "sleep"
    /\ UNCHANGED <<sync_mode, mutexVars, flagVars, main, signalVars>>

\* One critical section: count the tick, broadcast clk_cond, wait on clk_cond2.
\* A pending pthread_cancel takes effect in it, with the mutex held.
ClockTicks ==
    /\ clock = "lock" /\ Free("clock") /\ ~mutex_held
    /\ fresh' = TRUE
    /\ since' = [t \in Timers |-> IF since[t] < Interval[t] THEN since[t] + 1 ELSE Interval[t]]
    /\ BroadcastTick
    /\ clock' = "blocked"
    /\ UNCHANGED <<sync_mode, mutexVars, flagVars, main, signalVars>>

ClockConfirmed ==
    /\ clock = "awake" /\ Free("clock") /\ ~mutex_held
    /\ clock' = IF running THEN "sleep" ELSE "done"
    /\ UNCHANGED <<sync_mode, mutexVars, flagVars, tickVars, timer, sched, main, signalVars>>

ClockStep == ClockWakes \/ ClockTicks \/ ClockConfirmed

----------------------------------------------------------------------------
(* The timers.                                                             *)

\* The loop condition, read without the mutex.
TimerLoops(t) ==
    /\ timer[t] = "loop" /\ Free(t)
    /\ timer' = [timer EXCEPT ![t] = IF timer_running[t] /\ running THEN "lock" ELSE "done"]
    /\ UNCHANGED <<sync_mode, mutexVars, flagVars, tickVars, clock, sched, main, signalVars>>

\* It locks clk_mutex and waits on clk_cond, without looking at any predicate.
TimerBlocks(t) ==
    /\ timer[t] = "lock" /\ Free(t) /\ ~mutex_held
    /\ timer' = [timer EXCEPT ![t] = "blocked"]
    /\ UNCHANGED <<sync_mode, mutexVars, flagVars, tickVars, clock, sched, main, signalVars>>

TimerQuits(t) ==
    /\ timer[t] = "awake" /\ Free(t) /\ ~mutex_held
    /\ ~(timer_running[t] /\ running)
    /\ BroadcastConfirmation
    /\ timer' = [timer EXCEPT ![t] = "done"]
    /\ UNCHANGED <<sync_mode, mutexVars, flagVars, tickVars, sched, main, signalVars>>

\* main gives the callback to one timer, in TIMER mode only.
Calls(t) == sync_mode = "TIMER" /\ t = SchedTimer

\* Mutant of TimerConfirms: last_tick is not brought up to date.
TimerConfirmsAgain(t) ==
    LET fires == since[t] >= Interval[t]
    IN  /\ timer[t] = "awake" /\ Free(t) /\ ~mutex_held
        /\ timer_running[t] /\ running
        /\ BroadcastConfirmation
        /\ timer' = [timer EXCEPT ![t] = IF fires /\ Calls(t) THEN "callback" ELSE "loop"]
        /\ UNCHANGED <<sync_mode, mutexVars, flagVars, tickVars, sched, main, signalVars>>

\* Mutant of TimerConfirms: the flags are not looked at again after the wait.
TimerConfirmsAnyway(t) ==
    LET fires == since[t] >= Interval[t]
    IN  /\ timer[t] = "awake" /\ Free(t) /\ ~mutex_held
        /\ since' = IF fires THEN [since EXCEPT ![t] = 0] ELSE since
        /\ BroadcastConfirmation
        /\ timer' = [timer EXCEPT ![t] = IF fires /\ Calls(t) THEN "callback" ELSE "loop"]
        /\ UNCHANGED <<sync_mode, mutexVars, flagVars, fresh, sched, main, signalVars>>

\* The tick is confirmed whether the interval is over or not.
TimerConfirms(t) ==
    LET fires == since[t] >= Interval[t]
    IN  /\ timer[t] = "awake" /\ Free(t) /\ ~mutex_held
        /\ timer_running[t] /\ running
        /\ since' = IF fires THEN [since EXCEPT ![t] = 0] ELSE since
        /\ BroadcastConfirmation
        /\ timer' = [timer EXCEPT ![t] = IF fires /\ Calls(t) THEN "callback" ELSE "loop"]
        /\ UNCHANGED <<sync_mode, mutexVars, flagVars, fresh, sched, main, signalVars>>

\* main is past destroy_scheduler: what the pointer to it leads to is freed.
SchedulerFreed == main \in {"stop_clock", "wake_timers", "destroy_timers", "return", "exited"}

TimerCallback(t) ==
    /\ timer[t] = "callback" /\ Free(t) /\ ~SchedulerFreed /\ ~sched_mutex_held
    /\ SignalScheduler
    /\ timer' = [timer EXCEPT ![t] = "loop"]
    /\ UNCHANGED <<sync_mode, mutexVars, flagVars, tickVars, clock, main, signalVars>>

\* The callback locks what was a mutex: it may return, or never.
TimerStrays(t) ==
    /\ timer[t] = "callback" /\ Free(t) /\ SchedulerFreed
    /\ \E at \in {"loop", "astray"} : timer' = [timer EXCEPT ![t] = at]
    /\ UNCHANGED <<sync_mode, mutexVars, flagVars, tickVars, clock, sched, main, signalVars>>

TimerStep(t) ==
    TimerLoops(t) \/ TimerBlocks(t) \/ TimerQuits(t) \/ TimerConfirms(t)
        \/ TimerCallback(t) \/ TimerStrays(t)

----------------------------------------------------------------------------
(* The scheduler.                                                          *)

SchedLoops ==
    /\ sched = "loop" /\ Free("sched")
    /\ sched' = IF ~(sched_running /\ running) THEN "done"
                ELSE IF sync_mode = "TIMER" THEN "wait_timer" ELSE "lock"
    /\ UNCHANGED <<sync_mode, mutexVars, flagVars, tickVars, clock, timer, main, signalVars>>

\* TIMER mode: it waits on sched_cond without looking at any predicate.
SchedBlocksOnTimer ==
    /\ sched = "wait_timer" /\ Free("sched") /\ ~sched_mutex_held
    /\ sched' = "blocked_on_timer"
    /\ UNCHANGED <<sync_mode, mutexVars, flagVars, tickVars, clock, timer, main, signalVars>>

SchedActivated ==
    /\ sched = "activated" /\ Free("sched") /\ ~sched_mutex_held
    /\ sched' = IF sched_running /\ running THEN "lock" ELSE "done"
    /\ UNCHANGED <<sync_mode, mutexVars, flagVars, tickVars, clock, timer, main, signalVars>>

\* CLOCK mode: the predicate loop, entered and re-entered with the mutex.
SchedBlocks ==
    /\ sync_mode = "CLOCK" /\ sched \in {"lock", "awake"} /\ Free("sched") /\ ~mutex_held
    /\ sched_running /\ running /\ ~fresh
    /\ sched' = "blocked"
    /\ UNCHANGED <<sync_mode, mutexVars, flagVars, tickVars, clock, timer, main, signalVars>>

\* Mutant of SchedQuits: the flags are looked at only after a tick.
SchedQuitsAfterTick ==
    /\ sync_mode = "CLOCK" /\ sched \in {"lock", "awake"} /\ Free("sched") /\ ~mutex_held
    /\ fresh /\ ~(sched_running /\ running)
    /\ sched' = "done"
    /\ UNCHANGED <<sync_mode, mutexVars, flagVars, tickVars, clock, timer, main, signalVars>>

SchedQuits ==
    /\ sync_mode = "CLOCK" /\ sched \in {"lock", "awake"} /\ Free("sched") /\ ~mutex_held
    /\ ~(sched_running /\ running)
    /\ sched' = "done"
    /\ UNCHANGED <<sync_mode, mutexVars, flagVars, tickVars, clock, timer, main, signalVars>>

\* Mutant of SchedPasses: last_tick is not brought up to date.
SchedPassesAgain ==
    /\ sched \in {"lock", "awake"} /\ Free("sched") /\ ~mutex_held
    /\ sync_mode = "CLOCK" => sched_running /\ running /\ fresh
    /\ sched' = "loop"
    /\ timer' \in {timer} \cup IF PassBroadcasts THEN {TimersAfterTick} ELSE {}
    /\ UNCHANGED <<sync_mode, mutexVars, flagVars, tickVars, clock, main, signalVars>>

\* The pass of module Scheduler, under the mutex.
SchedPasses ==
    /\ sched \in {"lock", "awake"} /\ Free("sched") /\ ~mutex_held
    /\ sync_mode = "CLOCK" => sched_running /\ running /\ fresh
    /\ fresh' = FALSE
    /\ sched' = "loop"
    /\ timer' \in {timer} \cup IF PassBroadcasts THEN {TimersAfterTick} ELSE {}
    /\ UNCHANGED <<sync_mode, mutexVars, flagVars, since, clock, main, signalVars>>

SchedStep == SchedLoops \/ SchedBlocksOnTimer \/ SchedActivated \/ SchedBlocks
                \/ SchedQuits \/ SchedPasses

----------------------------------------------------------------------------
(* The main thread.                                                        *)

MainFree == Free("main")

\* set_clock_machine and set_clock_physical_memory, each under clk_mutex.
SetClock ==
    /\ MainFree /\ main = "set_clock" /\ ~mutex_held
    /\ main' = "create_timers"
    /\ UNCHANGED <<sync_mode, mutexVars, flagVars, tickVars, clock, timer, sched, signalVars>>

CreateTimer ==
    /\ MainFree /\ main = "create_timers"
    /\ \E t \in Timers :
          /\ timer[t] = "unborn"
          /\ timer' = [timer EXCEPT ![t] = "loop"] /\ since' = [since EXCEPT ![t] = 0]
    /\ UNCHANGED <<sync_mode, mutexVars, flagVars, fresh, clock, sched, main, signalVars>>

LoadPrograms ==
    /\ MainFree /\ main = "create_timers" /\ \A t \in Timers : timer[t] # "unborn"
    /\ main' = "start_scheduler"
    /\ UNCHANGED <<sync_mode, mutexVars, flagVars, tickVars, clock, timer, sched, signalVars>>

StartScheduler ==
    /\ MainFree /\ main = "start_scheduler"
    /\ sched_running' = TRUE /\ sched' = "loop"
    /\ main' = "loop"
    /\ UNCHANGED <<sync_mode, mutexVars, running, timer_running, tickVars, clock, timer, signalVars>>

\* `while (running) pause();': the test and the call are two steps.
MainLoops ==
    /\ MainFree /\ main = "loop"
    /\ main' = IF running THEN "pause" ELSE "stop_scheduler"
    /\ UNCHANGED <<sync_mode, mutexVars, flagVars, tickVars, clock, timer, sched, signalVars>>

MainPauses ==
    /\ MainFree /\ main = "pause"
    /\ main' = "paused"
    /\ UNCHANGED <<sync_mode, mutexVars, flagVars, tickVars, clock, timer, sched, signalVars>>

UpStates == {"set_clock", "create_timers", "start_scheduler", "loop", "pause", "paused"}

\* cleanup_system: stop_scheduler broadcasts clk_cond and joins.
StopScheduler ==
    /\ MainFree /\ main = "stop_scheduler" /\ ~mutex_held
    /\ sched_running' = FALSE
    /\ BroadcastTick
    /\ main' = "join_scheduler"
    /\ UNCHANGED <<sync_mode, mutexVars, running, timer_running, tickVars, clock, signalVars>>

JoinScheduler ==
    /\ MainFree /\ main = "join_scheduler" /\ sched = "done"
    /\ main' = "stop_clock"
    /\ UNCHANGED <<sync_mode, mutexVars, flagVars, tickVars, clock, timer, sched, signalVars>>

\* Mutant of StopClock: the clock is joined without being cancelled.
JoinClock ==
    /\ MainFree /\ main = "stop_clock" /\ clock = "done"
    /\ main' = "wake_timers"
    /\ UNCHANGED <<sync_mode, mutexVars, flagVars, tickVars, clock, timer, sched, signalVars>>

\* pthread_cancel and join.  In usleep the clock just ends; in cond_wait, or in
\* the output of its next tick, it needs the mutex and ends with it locked.  In a
\* handler it is not cancelled before that has returned.
StopClock ==
    /\ MainFree /\ main = "stop_clock" /\ Free("clock")
    /\ clock \in {"blocked", "awake", "lock"} => ~mutex_held
    /\ mutex_held' = (mutex_held \/ clock \in {"blocked", "awake", "lock"})
    /\ clock' = "done"
    /\ main' = "wake_timers"
    /\ UNCHANGED <<sync_mode, sched_mutex_held, flagVars, tickVars, timer, sched, signalVars>>

WakeTimers ==
    /\ MainFree /\ main = "wake_timers" /\ ~mutex_held
    /\ BroadcastTick
    /\ main' = "destroy_timers"
    /\ UNCHANGED <<sync_mode, mutexVars, flagVars, tickVars, clock, signalVars>>

\* The timer before is joined, and there is another one.
NextTimer ==
    /\ main = "destroy_timers"
    /\ \A u \in Timers : timer_running[u] \/ timer[u] = "done"
    /\ \E t \in Timers : timer_running[t]

\* destroy_timer, first half, for each timer in turn.
StopTimer ==
    /\ MainFree /\ NextTimer /\ ~mutex_held
    /\ \E t \in Timers : timer_running[t] /\ timer_running' = [timer_running EXCEPT ![t] = FALSE]
    /\ BroadcastTick
    /\ UNCHANGED <<sync_mode, mutexVars, running, sched_running, tickVars, clock, main, signalVars>>

\* Mutant of JoinTimers: the last timer is not joined.
GoOnWithoutJoin ==
    /\ MainFree /\ main = "destroy_timers" /\ \A t \in Timers : ~timer_running[t]
    /\ main' = "return"
    /\ UNCHANGED <<sync_mode, mutexVars, flagVars, tickVars, clock, timer, sched, signalVars>>

\* The last timer is joined and the rest freed, in the end the mutex destroyed.
JoinTimers ==
    /\ MainFree /\ main = "destroy_timers"
    /\ \A t \in Timers : ~timer_running[t] /\ timer[t] = "done"
    /\ main' = "return"
    /\ UNCHANGED <<sync_mode, mutexVars, flagVars, tickVars, clock, timer, sched, signalVars>>

Exit ==
    /\ MainFree /\ main = "return"
    /\ main' = "exited"
    /\ UNCHANGED <<sync_mode, mutexVars, flagVars, tickVars, clock, timer, sched, signalVars>>

Exited == main = "exited" /\ UNCHANGED vars

----------------------------------------------------------------------------
(* SIGINT.  The handler is installed before any thread is created and stays*)
(* so to the end.  The signal is delivered to the main thread; while that  *)
(* is in the handler it blocks the signal, and another thread gets it.     *)

Alive ==
    {th \in Threads :
        \/ th = "main" /\ main # "exited"
        \/ th = "clock" /\ clock # "done"
        \/ th = "sched" /\ sched \notin {"unborn", "done"}
        \/ th \in Timers /\ timer[th] \notin {"unborn", "done"}}

Catchers == {th \in Alive : Free(th) /\ (th = "main" \/ ~MainFree)}

\* Mutant of InClkSection: start_scheduler takes the mutex, as stop_scheduler does.
InClkSectionAtStart ==
    {th \in Threads :
        \/ th = "main"
           /\ \/ main \in {"set_clock", "start_scheduler", "stop_scheduler", "wake_timers"}
              \/ NextTimer
        \/ th = "clock" /\ clock \in {"lock", "awake"}
        \/ th = "sched" /\ sched \in {"lock", "awake"}
        \/ th \in Timers /\ timer[th] \in {"lock", "awake"}}

\* Threads that are asking for clk_mutex and release it in their next step.
InClkSection ==
    {th \in Threads :
        \/ th = "main" /\ (main \in {"set_clock", "stop_scheduler", "wake_timers"} \/ NextTimer)
        \/ th = "clock" /\ clock \in {"lock", "awake"}
        \/ th = "sched" /\ sched \in {"lock", "awake"}
        \/ th \in Timers /\ timer[th] \in {"lock", "awake"}}

\* The same of sched_mutex.
InSchedSection ==
    {th \in Threads :
        \/ th = "sched" /\ sched \in {"wait_timer", "activated"}
        \/ th \in Timers /\ timer[th] = "callback" /\ ~SchedulerFreed}

\* Mutant of Sigint: the handler forgets `running = 0'.
SigintIgnored ==
    /\ sigints < MaxSigints
    /\ \E th \in Catchers : handler' = [handler EXCEPT ![th] = "clk_cond"]
    /\ sigints' = sigints + 1
    /\ UNCHANGED <<sync_mode, mutexVars, flagVars, tickVars, clock, timer, sched, main>>

\* The signal finds a thread outside the critical sections, or in front of one.
Sigint ==
    /\ sigints < MaxSigints
    /\ \E th \in Catchers : handler' = [handler EXCEPT ![th] = "clk_cond"]
    /\ sigints' = sigints + 1
    /\ running' = FALSE
    /\ UNCHANGED <<sync_mode, mutexVars, sched_running, timer_running, tickVars, clock, timer, sched, main>>

\* It finds a thread holding clk_mutex: the handler waits for the thread it runs
\* in.  What the section had done so far nobody can see without the mutex, or is
\* a flag that `running' makes irrelevant.
SigintHoldingClkMutex ==
    /\ sigints < MaxSigints /\ ~mutex_held
    /\ \E th \in Catchers \cap InClkSection : handler' = [handler EXCEPT ![th] = "self_locked"]
    /\ sigints' = sigints + 1
    /\ running' = FALSE /\ mutex_held' = TRUE
    /\ UNCHANGED <<sync_mode, sched_mutex_held, sched_running, timer_running, tickVars,
                   clock, timer, sched, main>>

\* It finds a thread holding sched_mutex, which the handler needs after clk_mutex.
SigintHoldingSchedMutex ==
    /\ sigints < MaxSigints /\ ~sched_mutex_held
    /\ \E th \in Catchers \cap InSchedSection : handler' = [handler EXCEPT ![th] = "clk_cond"]
    /\ sigints' = sigints + 1
    /\ running' = FALSE /\ sched_mutex_held' = TRUE
    /\ UNCHANGED <<sync_mode, mutex_held, sched_running, timer_running, tickVars,
                   clock, timer, sched, main>>

Interrupt == Sigint \/ SigintHoldingClkMutex \/ SigintHoldingSchedMutex

\* The test of scheduler_global: it is NULL at first, and after destroy_scheduler
\* leads to freed memory, where sync_mode may have any value.
AfterClkCond ==
    IF main = "set_clock" THEN {"return"}
    ELSE IF SchedulerFreed THEN {"return", "sched_cond"}
    ELSE IF sync_mode = "TIMER" THEN {"sched_cond"} ELSE {"return"}

HandlerBroadcasts(th) ==
    /\ handler[th] = "clk_cond" /\ ~mutex_held
    /\ BroadcastTick
    /\ \E at \in AfterClkCond : handler' = [handler EXCEPT ![th] = at]
    /\ UNCHANGED <<sync_mode, mutexVars, flagVars, tickVars, clock, main, sigints>>

HandlerSignals(th) ==
    /\ handler[th] = "sched_cond" /\ ~SchedulerFreed /\ ~sched_mutex_held
    /\ SignalScheduler
    /\ handler' = [handler EXCEPT ![th] = "return"]
    /\ UNCHANGED <<sync_mode, mutexVars, flagVars, tickVars, clock, timer, main, sigints>>

\* The handler locks a mutex that was destroyed: it may return, or never.
HandlerStrays(th) ==
    /\ \/ handler[th] = "sched_cond" /\ SchedulerFreed
       \/ handler[th] = "clk_cond" /\ main = "return"
    /\ \E at \in {"return", "astray"} : handler' = [handler EXCEPT ![th] = at]
    /\ UNCHANGED <<sync_mode, mutexVars, flagVars, tickVars, clock, timer, sched, main, sigints>>

HandlerReturns(th) ==
    /\ handler[th] = "return"
    /\ handler' = [handler EXCEPT ![th] = "none"]
    /\ main' = IF th = "main" /\ main = "paused" THEN "loop" ELSE main
    /\ UNCHANGED <<sync_mode, mutexVars, flagVars, tickVars, clock, timer, sched, sigints>>

HandlerStep(th) ==
    HandlerBroadcasts(th) \/ HandlerSignals(th) \/ HandlerStrays(th) \/ HandlerReturns(th)

----------------------------------------------------------------------------
StartUp  == SetClock \/ CreateTimer \/ LoadPrograms \/ StartScheduler
CleanUp  == StopScheduler \/ JoinScheduler \/ StopClock \/ WakeTimers \/ StopTimer
               \/ JoinTimers \/ Exit
MainStep == StartUp \/ MainLoops \/ MainPauses \/ CleanUp

Next ==
    \/ ClockStep \/ SchedStep \/ MainStep
    \/ \E t \in Timers : TimerStep(t)
    \/ \E th \in Threads : HandlerStep(th)
    \/ Interrupt \/ Exited

Spec == Init /\ [][Next]_vars

\* Threads that can run do run; clk_mutex, never held across these steps, is
\* granted to whoever keeps asking.  Nothing makes the user press Ctrl-C.
FairSpec ==
    /\ Spec
    /\ WF_vars(ClockStep) /\ WF_vars(SchedStep) /\ WF_vars(MainStep)
    /\ \A t \in Timers : WF_vars(TimerStep(t))
    /\ \A th \in Threads : WF_vars(HandlerStep(th))

----------------------------------------------------------------------------
(* Properties.                                                             *)

\* Every thread is at a point of its function, and a handler runs, in whichever
\* thread, only after `running' has fallen, which it never does again.
TypeOK ==
    /\ sync_mode \in SyncModes
    /\ mutex_held \in BOOLEAN /\ sched_mutex_held \in BOOLEAN
    /\ running \in BOOLEAN /\ sched_running \in BOOLEAN
    /\ timer_running \in [Timers -> BOOLEAN]
    /\ fresh \in BOOLEAN /\ since \in [Timers -> Nat]
    /\ \A t \in Timers : since[t] <= Interval[t]
    /\ clock \in {"sleep", "lock", "blocked", "awake", "done"}
    /\ timer \in [Timers -> {"unborn", "loop", "lock", "blocked", "awake", "callback",
                             "astray", "done"}]
    /\ sched \in {"unborn", "loop", "lock", "blocked", "awake", "wait_timer",
                  "blocked_on_timer", "activated", "done"}
    /\ main \in UpStates \cup {"stop_scheduler", "join_scheduler", "stop_clock",
                  "wake_timers", "destroy_timers", "return", "exited"}
    /\ handler \in [Threads -> {"none", "clk_cond", "sched_cond", "return",
                                "self_locked", "astray"}]
    /\ \A th \in Threads : ~Free(th) => ~running
    /\ sigints \in 0 .. MaxSigints

\* The clock never stops for good while the program runs: each tick is confirmed
\* by some timer, and another one follows.
ClockKeepsTicking == []<>(clock = "sleep") /\ []<>(clock = "blocked")

\* The scheduler comes round: ticks it has not looked at yet do not stay so.
SchedulerKeepsUp == (sched # "unborn" /\ fresh) ~> (~fresh \/ ~running)

\* A timer that has reached its interval handles it before the clock counts
\* another tick: no interval is ever longer than asked for.
IntervalsExact ==
    [][ClockTicks => \A t \in Timers : since[t] < Interval[t]]_vars

\* After SIGINT the scheduler thread terminates, wherever the signal found it, if
\* it waits on clk_cond: it looks at the flags under clk_mutex before it waits.
\* Only a second SIGINT, or one that comes before the thread exists, can prevent
\* it, by a handler that runs in a thread that holds clk_mutex.
SchedulerStops ==
    (sync_mode = "CLOCK" /\ ~running) ~> (sched = "done" \/ \E th \in Threads : handler[th] = "self_locked")

\* When the program destroys clk_mutex and exits no other thread of it is left,
\* in a handler or not, and the mutex is not locked.
NoThreadOutlivesMain ==
    main \in {"return", "exited"} => Alive \subseteq {"main"} /\ ~mutex_held

\* Once the scheduler is destroyed, whose mutex the callback locks, no timer sets
\* out to call back: the danger is confined to a call that a timer had decided on
\* before, and had not made when the main thread got there.
NoNewCallback ==
    [][\A t \in Timers : SchedulerFreed /\ timer'[t] = "callback" => timer[t] = "callback"]_vars

\* One Ctrl-C makes no thread wait for a mutex that it holds itself, unless it is
\* pressed while main sets up the clock: a main thread that is up holds no mutex
\* later, and none of the others gets the signal before main is in the handler.
SelfLockNeedsTwo ==
    (\E th \in Threads : handler[th] = "self_locked") => sigints > 1 \/ main = "set_clock"

\* The ways in which a shutdown can hang: the main thread missed the signal and
\* sleeps in pause(); the scheduler missed the last signal of its condition
\* variable; the clock was cancelled with clk_mutex locked; a timer that is
\* being joined missed its broadcast; a signal found a thread holding a mutex that
\* the handler needs; a late callback or handler locked a mutex that is no more.
MainMissed  == main = "paused" /\ MainFree
SchedMissed == sched = "blocked_on_timer" /\ main = "join_scheduler"
TimerMissed == \E t \in Timers :
    main = "destroy_timers" /\ ~timer_running[t] /\ timer[t] = "blocked"
ClockDiedLocked == mutex_held /\ clock = "done"
SelfLocked ==
    (\E th \in Threads : handler[th] = "self_locked") \/ (sched_mutex_held /\ ~SchedulerFreed)
Astray == (\E t \in Timers : timer[t] = "astray") \/ (\E th \in Threads : handler[th] = "astray")

\* After Ctrl-C the program exits, or hangs in one of those ways and no other.
ShutdownAccounted ==
    ~running ~> (main = "exited" \/ MainMissed \/ SchedMissed \/ TimerMissed
                    \/ ClockDiedLocked \/ SelfLocked \/ Astray)

\* After Ctrl-C the program cleans up and exits.
ShutdownCompletes == ~running ~> main = "exited"
=============================================================================
