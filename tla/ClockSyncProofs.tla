-------------------------- MODULE ClockSyncProofs --------------------------
(* Theorems about ClockSync, for any number of timers, both modes, any      *)
(* intervals and any number of SIGINTs, whichever threads they reach.       *)
EXTENDS ClockSync, TLAPS

----------------------------------------------------------------------------
(* Types.                                                                   *)

TimerPcs == {"unborn", "loop", "lock", "blocked", "awake", "callback", "astray", "done"}
SchedPcs == {"unborn", "loop", "lock", "blocked", "awake", "wait_timer", "blocked_on_timer",
             "activated", "done"}

\* A broadcast leaves the threads in states of theirs.
LEMMA BroadcastTypes ==
    ASSUME TypeOK
    PROVE  TimersAfterTick \in [Timers -> TimerPcs] /\ SchedAfterTick \in SchedPcs
  BY DEF TypeOK, TimersAfterTick, SchedAfterTick, TimerPcs, SchedPcs

\* The clock keeps the types.
LEMMA ClockTypes == TypeOK /\ ClockStep => TypeOK'
<1>. SUFFICES ASSUME TypeOK, ClockStep PROVE TypeOK'
  OBVIOUS
<1>. USE SyncAssumption DEF mutexVars, flagVars, tickVars, signalVars, Free
<1>1. CASE ClockWakes
  BY <1>1 DEF TypeOK, ClockWakes
<1>2. CASE ClockTicks
  <2>1. since' \in [Timers -> Nat] /\ \A t \in Timers : since'[t] <= Interval[t]
    BY <1>2 DEF TypeOK, ClockTicks
  <2>2. timer' \in [Timers -> TimerPcs] /\ sched' \in SchedPcs
    BY <1>2, BroadcastTypes DEF ClockTicks, BroadcastTick
  <2>. QED
    BY <1>2, <2>1, <2>2 DEF TypeOK, ClockTicks, TimerPcs, SchedPcs
<1>3. CASE ClockConfirmed
  BY <1>3 DEF TypeOK, ClockConfirmed
<1>. QED
  BY <1>1, <1>2, <1>3 DEF ClockStep

\* So do the timers.
LEMMA TimerTypes == \A t \in Timers : TypeOK /\ TimerStep(t) => TypeOK'
<1>. SUFFICES ASSUME TypeOK, NEW t \in Timers, TimerStep(t) PROVE TypeOK'
  OBVIOUS
<1>. USE SyncAssumption DEF mutexVars, flagVars, tickVars, signalVars, Free
<1>1. CASE TimerLoops(t)
  BY <1>1 DEF TypeOK, TimerLoops
<1>2. CASE TimerBlocks(t)
  BY <1>2 DEF TypeOK, TimerBlocks
<1>3. CASE TimerQuits(t)
  BY <1>3 DEF TypeOK, TimerQuits, BroadcastConfirmation
<1>4. CASE TimerConfirms(t)
  <2>1. since' \in [Timers -> Nat] /\ \A u \in Timers : since'[u] <= Interval[u]
    BY <1>4 DEF TypeOK, TimerConfirms
  <2>2. timer' \in [Timers -> TimerPcs]
    BY <1>4 DEF TypeOK, TimerConfirms, TimerPcs
  <2>. QED
    BY <1>4, <2>1, <2>2 DEF TypeOK, TimerConfirms, BroadcastConfirmation, TimerPcs
<1>5. CASE TimerCallback(t)
  BY <1>5 DEF TypeOK, TimerCallback, SignalScheduler
<1>6. CASE TimerStrays(t)
  BY <1>6 DEF TypeOK, TimerStrays
<1>. QED
  BY <1>1, <1>2, <1>3, <1>4, <1>5, <1>6 DEF TimerStep

\* So does the scheduler.
LEMMA SchedTypes == TypeOK /\ SchedStep => TypeOK'
<1>. SUFFICES ASSUME TypeOK, SchedStep PROVE TypeOK'
  OBVIOUS
<1>. USE DEF mutexVars, flagVars, tickVars, signalVars, Free
<1>1. CASE SchedLoops
  BY <1>1 DEF TypeOK, SchedLoops
<1>2. CASE SchedBlocksOnTimer
  BY <1>2 DEF TypeOK, SchedBlocksOnTimer
<1>3. CASE SchedActivated
  BY <1>3 DEF TypeOK, SchedActivated
<1>4. CASE SchedBlocks
  BY <1>4 DEF TypeOK, SchedBlocks
<1>5. CASE SchedQuits
  BY <1>5 DEF TypeOK, SchedQuits
<1>6. CASE SchedPasses
  <2>1. timer' \in {timer, TimersAfterTick}
    BY <1>6 DEF SchedPasses
  <2>2. timer' \in [Timers -> TimerPcs]
    BY <2>1, BroadcastTypes DEF TypeOK, TimerPcs
  <2>. QED
    BY <1>6, <2>2 DEF TypeOK, SchedPasses, TimerPcs
<1>. QED
  BY <1>1, <1>2, <1>3, <1>4, <1>5, <1>6 DEF SchedStep

\* So does main.
LEMMA MainTypes == TypeOK /\ MainStep => TypeOK'
<1>. SUFFICES ASSUME TypeOK, MainStep PROVE TypeOK'
  OBVIOUS
<1>. USE SyncAssumption DEF mutexVars, flagVars, tickVars, signalVars, UpStates, Free
<1>1. CASE CreateTimer
  <2>1. PICK t \in Timers : /\ timer' = [timer EXCEPT ![t] = "loop"]
                            /\ since' = [since EXCEPT ![t] = 0]
    BY <1>1 DEF CreateTimer
  <2>2. since' \in [Timers -> Nat] /\ \A u \in Timers : since'[u] <= Interval[u]
    BY <2>1 DEF TypeOK
  <2>3. timer' \in [Timers -> TimerPcs]
    BY <2>1 DEF TypeOK, TimerPcs
  <2>4. UNCHANGED <<sync_mode, mutexVars, flagVars, fresh, clock, sched, main, signalVars>>
    BY <1>1 DEF CreateTimer
  <2>. QED
    BY <2>2, <2>3, <2>4 DEF TypeOK, TimerPcs
<1>2. CASE SetClock \/ LoadPrograms \/ StartScheduler
  <2>1. /\ UNCHANGED <<sync_mode, mutexVars, running, timer_running, tickVars, clock, timer, signalVars>>
        /\ main' \in UpStates /\ sched' \in {sched, "loop"}
        /\ sched_running' = sched_running \/ sched_running' = TRUE
    BY <1>2 DEF SetClock, LoadPrograms, StartScheduler
  <2>2. sched_running' \in BOOLEAN
    <3>1. sched_running \in BOOLEAN
      BY Zenon DEF TypeOK
    <3>. QED
      BY <2>1, <3>1, Zenon
  <2>3. UNCHANGED <<sync_mode, mutex_held, sched_mutex_held, running, timer_running, fresh, since,
                    clock, timer, handler, sigints>>
    BY <2>1
  <2>4. sched' \in SchedPcs
    BY <2>1 DEF TypeOK, SchedPcs
  <2>. QED
    BY <2>1, <2>2, <2>3, <2>4 DEF TypeOK, SchedPcs
<1>3. CASE MainLoops \/ MainPauses
  BY <1>3 DEF TypeOK, MainLoops, MainPauses
<1>4. CASE StopScheduler \/ WakeTimers
  <2>1. timer' \in [Timers -> TimerPcs] /\ sched' \in SchedPcs
    BY <1>4, BroadcastTypes DEF StopScheduler, WakeTimers, BroadcastTick
  <2>2. CASE StopScheduler
    BY <2>1, <2>2 DEF TypeOK, StopScheduler, TimerPcs, SchedPcs
  <2>3. CASE WakeTimers
    BY <2>1, <2>3 DEF TypeOK, WakeTimers, TimerPcs, SchedPcs
  <2>. QED
    BY <1>4, <2>2, <2>3
<1>5. CASE StopTimer
  <2>1. timer_running' \in [Timers -> BOOLEAN]
    BY <1>5 DEF TypeOK, StopTimer
  <2>. QED
    BY <1>5, <2>1, BroadcastTypes DEF TypeOK, StopTimer, BroadcastTick, TimerPcs, SchedPcs
<1>6. CASE JoinScheduler \/ JoinTimers \/ Exit
  BY <1>6 DEF TypeOK, JoinScheduler, JoinTimers, Exit
<1>7. CASE StopClock
  <2>1. mutex_held' \in BOOLEAN
    <3>1. mutex_held' = (mutex_held \/ clock \in {"blocked", "awake", "lock"})
      BY <1>7 DEF StopClock
    <3>2. (mutex_held \/ clock \in {"blocked", "awake", "lock"}) \in BOOLEAN
      OBVIOUS
    <3>. QED
      BY <3>1, <3>2, Zenon
  <2>2. /\ clock' = "done" /\ main' = "wake_timers" /\ main = "stop_clock"
        /\ UNCHANGED <<sync_mode, sched_mutex_held, flagVars, tickVars, timer, sched, signalVars>>
    BY <1>7 DEF StopClock
  <2>. QED
    BY <2>1, <2>2 DEF TypeOK
<1>. QED
  BY <1>1, <1>2, <1>3, <1>4, <1>5, <1>6, <1>7 DEF MainStep, StartUp, CleanUp

\* So do SIGINT and the handler.
LEMMA SignalTypes ==
    /\ TypeOK /\ Interrupt => TypeOK'
    /\ \A th \in Threads : TypeOK /\ HandlerStep(th) => TypeOK'
<1>. USE SyncAssumption DEF mutexVars, flagVars, tickVars, signalVars, Free
<1>1. ASSUME TypeOK, Interrupt PROVE TypeOK'
  <2>1. PICK th \in Threads : \E at \in {"clk_cond", "self_locked"} :
                                handler' = [handler EXCEPT ![th] = at]
    BY <1>1 DEF Interrupt, Sigint, SigintHoldingClkMutex, SigintHoldingSchedMutex, Catchers, Alive
  <2>2. handler' \in [Threads -> {"none", "clk_cond", "sched_cond", "return",
                                  "self_locked", "astray"}]
    BY <1>1, <2>1 DEF TypeOK
  <2>3. sigints' \in 0 .. MaxSigints
    BY <1>1 DEF TypeOK, Interrupt, Sigint, SigintHoldingClkMutex, SigintHoldingSchedMutex
  <2>4. /\ mutex_held' \in BOOLEAN /\ sched_mutex_held' \in BOOLEAN /\ running' = FALSE
        /\ UNCHANGED <<sync_mode, sched_running, timer_running, tickVars, clock, timer, sched, main>>
    BY <1>1 DEF TypeOK, Interrupt, Sigint, SigintHoldingClkMutex, SigintHoldingSchedMutex
  <2>5. /\ sync_mode' \in SyncModes /\ mutex_held' \in BOOLEAN /\ sched_mutex_held' \in BOOLEAN
        /\ running' \in BOOLEAN /\ sched_running' \in BOOLEAN
        /\ timer_running' \in [Timers -> BOOLEAN]
    BY <1>1, <2>4 DEF TypeOK
  <2>6. /\ fresh' \in BOOLEAN /\ since' \in [Timers -> Nat]
        /\ \A u \in Timers : since'[u] <= Interval[u]
    BY <1>1, <2>4 DEF TypeOK
  <2>7. \A u \in Threads : ~Free(u)' => ~running'
    BY <2>4
  <2>8. UNCHANGED <<clock, timer, sched, main>>
    BY <2>4
  <2>. QED
    BY <1>1, <2>2, <2>3, <2>5, <2>6, <2>7, <2>8 DEF TypeOK
<1>2. ASSUME TypeOK, NEW th \in Threads, HandlerStep(th) PROVE TypeOK'
  <2>1. /\ handler[th] # "none"
        /\ UNCHANGED <<sync_mode, mutexVars, flagVars, tickVars, clock, sigints>>
    BY <1>2 DEF HandlerStep, HandlerBroadcasts, HandlerSignals, HandlerStrays, HandlerReturns
  <2>2. \E at \in {"none", "return", "sched_cond", "astray"} : handler' = [handler EXCEPT ![th] = at]
    BY <1>2 DEF HandlerStep, HandlerBroadcasts, HandlerSignals, HandlerStrays, HandlerReturns,
                AfterClkCond
  <2>3. /\ handler' \in [Threads -> {"none", "clk_cond", "sched_cond", "return",
                                     "self_locked", "astray"}]
        /\ \A u \in Threads : ~Free(u)' => ~running'
    BY <1>2, <2>1, <2>2 DEF TypeOK
  <2>4. timer' \in [Timers -> TimerPcs] /\ sched' \in SchedPcs
    <3>1. timer \in [Timers -> TimerPcs] /\ sched \in SchedPcs
      BY <1>2 DEF TypeOK, TimerPcs, SchedPcs
    <3>2. timer' \in {timer, TimersAfterTick} /\ sched' \in {sched, SchedAfterTick, "activated"}
      BY <1>2 DEF HandlerStep, HandlerBroadcasts, HandlerSignals, HandlerStrays, HandlerReturns,
                  BroadcastTick, SignalScheduler
    <3>. QED
      BY <1>2, <3>1, <3>2, BroadcastTypes DEF SchedPcs
  <2>5. main' \in {main, "loop"}
    BY <1>2 DEF HandlerStep, HandlerBroadcasts, HandlerSignals, HandlerStrays, HandlerReturns
  <2>. QED
    BY <1>2, <2>1, <2>3, <2>4, <2>5 DEF TypeOK, TimerPcs, SchedPcs, UpStates
<1>. QED
  BY <1>1, <1>2

\* Every variable of the handshake keeps its type, no timer's distance from its
\* last interval exceeds the interval, and whichever thread is in the handler,
\* before the cleanup or during it, `running' has fallen for good.
THEOREM SyncTypeCorrect == Spec => []TypeOK
<1>1. Init => TypeOK
  <2>. SUFFICES ASSUME Init PROVE TypeOK
    OBVIOUS
  <2>1. 0 \in 0 .. MaxSigints /\ \A t \in Timers : 0 <= Interval[t]
    BY SyncAssumption
  <2>2. /\ timer_running \in [Timers -> BOOLEAN] /\ since \in [Timers -> Nat]
        /\ \A t \in Timers : since[t] = 0
        /\ timer \in [Timers -> TimerPcs]
        /\ handler \in [Threads -> {"none"}]
    BY DEF Init, TimerPcs
  <2>. QED
    BY <2>1, <2>2 DEF Init, TypeOK, UpStates, TimerPcs, Free
<1>2. TypeOK /\ [Next]_vars => TypeOK'
  <2>1. CASE UNCHANGED vars
    BY <2>1 DEF TypeOK, vars, mutexVars, flagVars, tickVars, signalVars, Free
  <2>2. CASE Exited
    BY <2>2 DEF Exited, TypeOK, vars, mutexVars, flagVars, tickVars, signalVars, Free
  <2>. QED
    BY <2>1, <2>2, ClockTypes, TimerTypes, SchedTypes, MainTypes, SignalTypes DEF Next
<1>. QED
  BY <1>1, <1>2, PTL DEF Spec

----------------------------------------------------------------------------
(* The order of the shutdown.                                               *)

\* What has ended when the main thread is at a given point of cleanup_system.
\* `running' falls before it and never rises, so that a timer or a scheduler that
\* has ended is not needed, nor created, again.  A thread ends only when it has
\* returned from its handler.  From the joins of the timers on clk_mutex is
\* locked only by a thread that cannot end, and that is none of those joined.
ShutdownOrder ==
    /\ main \notin UpStates => ~running
    /\ SchedulerFreed => sched = "done"
    /\ main \in {"wake_timers", "destroy_timers", "return", "exited"} => clock = "done"
    /\ main \in {"return", "exited"} => \A t \in Timers : timer[t] = "done"
    /\ \A th \in Threads : Free(th) \/ th \in Alive
    /\ main = "destroy_timers" /\ mutex_held => \E th \in Threads : handler[th] = "self_locked"
    /\ main \in {"return", "exited"} => ~mutex_held

IInv == TypeOK /\ ShutdownOrder

\* A broadcast ends no thread, begins none, and moves none that has ended.
LEMMA BroadcastKeepsAlive ==
    /\ \A pc \in {"unborn", "done"} : sched = pc <=> SchedAfterTick = pc
    /\ \A t \in Timers, pc \in {"unborn", "done"} : timer[t] = pc <=> TimersAfterTick[t] = pc
  BY DEF SchedAfterTick, TimersAfterTick

\* A step that leaves main and the mutex alone keeps the order, if it ends only
\* threads that are not in a handler and begins none that was joined.
LEMMA OrderKept ==
    ASSUME TypeOK, ShutdownOrder, main' = main, mutex_held' = mutex_held, handler' = handler,
           running' => running,
           sched = "done" => sched' = "done",
           sched' \in {"unborn", "done"} => sched' = sched \/ Free("sched"),
           clock = "done" => clock' = "done",
           clock' = "done" => clock = "done" \/ Free("clock"),
           \A t \in Timers : timer[t] = "done" => timer'[t] = "done",
           \A t \in Timers : timer'[t] \in {"unborn", "done"} => timer'[t] = timer[t] \/ Free(t)
    PROVE  ShutdownOrder'
<1>1. \A th \in Threads : Free(th)' \/ th \in Alive'
  <2>. SUFFICES ASSUME NEW th \in Threads, ~Free(th), th \in Alive PROVE th \in Alive'
    BY DEF ShutdownOrder, Free
  <2>1. CASE th = "main" /\ main # "exited"
    BY <2>1 DEF Alive
  <2>2. CASE th = "clock" /\ clock # "done"
    BY <2>2 DEF Alive
  <2>3. CASE th = "sched" /\ sched \notin {"unborn", "done"}
    <3>1. sched' \notin {"unborn", "done"}
      BY <2>3
    <3>. QED
      BY <2>3, <3>1 DEF Alive
  <2>4. CASE th \in Timers /\ timer[th] \notin {"unborn", "done"}
    <3>1. timer'[th] \notin {"unborn", "done"}
      BY <2>4
    <3>. QED
      BY <2>4, <3>1 DEF Alive
  <2>. QED
    BY <2>1, <2>2, <2>3, <2>4 DEF Alive
<1>2. \A t \in Timers : main' \in {"return", "exited"} => timer'[t] = "done"
  BY DEF ShutdownOrder
<1>3. (\E th \in Threads : handler[th] = "self_locked")
         => \E th \in Threads : handler'[th] = "self_locked"
  OBVIOUS
<1>. QED
  BY <1>1, <1>2, <1>3 DEF ShutdownOrder, SchedulerFreed

\* The clock ends only by itself.
LEMMA ClockKeepsOrder == IInv /\ ClockStep => ShutdownOrder'
<1>. SUFFICES ASSUME TypeOK, ShutdownOrder, ClockStep PROVE ShutdownOrder'
  BY DEF IInv
<1>. USE DEF mutexVars, flagVars, tickVars, signalVars
<1>1. /\ main' = main /\ mutex_held' = mutex_held /\ handler' = handler /\ running' = running
      /\ clock # "done" /\ Free("clock")
      /\ timer' \in {timer, TimersAfterTick} /\ sched' \in {sched, SchedAfterTick}
  BY DEF ClockStep, ClockWakes, ClockTicks, ClockConfirmed, BroadcastTick
<1>. QED
  BY <1>1, BroadcastKeepsAlive, OrderKept

\* So does a timer.
LEMMA TimerKeepsOrder == \A t \in Timers : IInv /\ TimerStep(t) => ShutdownOrder'
<1>. SUFFICES ASSUME TypeOK, ShutdownOrder, NEW t \in Timers, TimerStep(t)
              PROVE  ShutdownOrder'
  BY DEF IInv
<1>. USE DEF mutexVars, flagVars, tickVars, signalVars
<1>1. /\ timer[t] # "done" /\ Free(t)
      /\ main' = main /\ mutex_held' = mutex_held /\ handler' = handler /\ running' = running
  BY DEF TimerStep, TimerLoops, TimerBlocks, TimerQuits, TimerConfirms, TimerCallback, TimerStrays
<1>2. \A u \in Timers : u # t => timer'[u] = timer[u]
  BY DEF TypeOK, TimerStep, TimerLoops, TimerBlocks, TimerQuits, TimerConfirms, TimerCallback,
         TimerStrays
<1>3. sched' = sched \/ (sched = "blocked_on_timer" /\ sched' = "activated")
  BY DEF TimerStep, TimerLoops, TimerBlocks, TimerQuits, TimerConfirms, TimerCallback, TimerStrays,
         SignalScheduler
<1>4. clock' = clock \/ (clock = "blocked" /\ clock' = "awake")
  BY DEF TimerStep, TimerLoops, TimerBlocks, TimerQuits, TimerConfirms, TimerCallback, TimerStrays,
         BroadcastConfirmation
<1>. QED
  BY <1>1, <1>2, <1>3, <1>4, OrderKept

\* So does the scheduler.
LEMMA SchedKeepsOrder == IInv /\ SchedStep => ShutdownOrder'
<1>. SUFFICES ASSUME TypeOK, ShutdownOrder, SchedStep PROVE ShutdownOrder'
  BY DEF IInv
<1>. USE DEF mutexVars, flagVars, tickVars, signalVars
<1>1. /\ sched # "done" /\ Free("sched") /\ timer' \in {timer, TimersAfterTick}
      /\ UNCHANGED <<main, running, mutex_held, handler, clock>>
  BY DEF SchedStep, SchedLoops, SchedBlocksOnTimer, SchedActivated, SchedBlocks, SchedQuits,
         SchedPasses
<1>. QED
  BY <1>1, BroadcastKeepsAlive, OrderKept

\* main stops the parts in the order of the shutdown.
LEMMA MainKeepsOrder == IInv /\ MainStep => ShutdownOrder'
<1>. SUFFICES ASSUME TypeOK, ShutdownOrder, MainStep PROVE ShutdownOrder'
  BY DEF IInv
<1>. USE DEF mutexVars, flagVars, tickVars, signalVars, UpStates, MainFree, SchedulerFreed
<1>1. /\ handler' = handler /\ running' = running /\ Free("main")
      /\ (main' \notin UpStates => ~running)
  BY DEF ShutdownOrder, MainStep, StartUp, CleanUp, SetClock, CreateTimer, LoadPrograms,
         StartScheduler, MainLoops, MainPauses, StopScheduler, JoinScheduler, StopClock,
         WakeTimers, StopTimer, JoinTimers, Exit
<1>2. /\ clock' # clock => Free("clock")
      /\ sched' \in {"unborn", "done"} => sched' = sched
      /\ \A t \in Timers : timer'[t] \in {"unborn", "done"} => timer'[t] = timer[t]
  BY BroadcastKeepsAlive
     DEF TypeOK, MainStep, StartUp, CleanUp, SetClock, CreateTimer, LoadPrograms,
         StartScheduler, MainLoops, MainPauses, StopScheduler, JoinScheduler, StopClock,
         WakeTimers, StopTimer, JoinTimers, Exit, BroadcastTick
<1>3. \A th \in Threads : Free(th)' \/ th \in Alive'
  <2>. SUFFICES ASSUME NEW th \in Threads, ~Free(th), th \in Alive PROVE th \in Alive'
    BY <1>1 DEF ShutdownOrder, Free
  <2>. QED
    BY <1>1, <1>2 DEF Alive
<1>4. CASE StartUp
  BY <1>1, <1>3, <1>4 DEF ShutdownOrder, StartUp, SetClock, CreateTimer, LoadPrograms, StartScheduler
<1>5. CASE MainLoops \/ MainPauses
  BY <1>1, <1>3, <1>5 DEF ShutdownOrder, MainLoops, MainPauses
<1>6. CASE StopScheduler
  BY <1>1, <1>3, <1>6 DEF ShutdownOrder, StopScheduler
<1>7. CASE JoinScheduler \/ StopClock
  BY <1>1, <1>3, <1>7 DEF ShutdownOrder, JoinScheduler, StopClock
<1>8. CASE WakeTimers \/ StopTimer
  BY <1>1, <1>3, <1>8, BroadcastKeepsAlive
     DEF ShutdownOrder, WakeTimers, StopTimer, NextTimer, BroadcastTick
<1>9. CASE JoinTimers
  <2>1. Alive = {"main"} /\ ~mutex_held
    <3>1. Alive \subseteq {"main"}
      BY <1>9 DEF JoinTimers, Alive, ShutdownOrder
    <3>2. \A th \in Threads : handler[th] = "none"
      BY <1>1, <3>1 DEF ShutdownOrder, Free
    <3>. QED
      BY <1>9, <3>1, <3>2 DEF JoinTimers, ShutdownOrder, Alive, Threads
  <2>. QED
    BY <1>1, <1>3, <1>9, <2>1 DEF ShutdownOrder, JoinTimers
<1>10. CASE Exit
  BY <1>1, <1>3, <1>10 DEF ShutdownOrder, Exit
<1>. QED
  BY <1>4, <1>5, <1>6, <1>7, <1>8, <1>9, <1>10 DEF MainStep, CleanUp

\* A signal reaches only a thread that lives, and locks clk_mutex for good only
\* with the handler of a thread that lives.
LEMMA SignalKeepsOrder == IInv /\ Interrupt => ShutdownOrder'
<1>. SUFFICES ASSUME TypeOK, ShutdownOrder, Interrupt PROVE ShutdownOrder'
  BY DEF IInv
<1>. USE DEF mutexVars, flagVars, tickVars, signalVars
<1>1. /\ running' = FALSE
      /\ UNCHANGED <<clock, timer, sched, main>>
  BY DEF Interrupt, Sigint, SigintHoldingClkMutex, SigintHoldingSchedMutex
<1>2. PICK th \in Catchers : \E at \in {"clk_cond", "self_locked"} :
          /\ handler' = [handler EXCEPT ![th] = at]
          /\ mutex_held' = mutex_held \/ (mutex_held' /\ at = "self_locked" /\ th \in InClkSection)
  BY DEF Interrupt, Sigint, SigintHoldingClkMutex, SigintHoldingSchedMutex
<1>3. th \in Threads /\ th \in Alive /\ handler[th] = "none"
  BY DEF Catchers, Alive, Free
<1>4. \A u \in Threads : Free(u)' \/ u \in Alive'
  <2>1. Alive' = Alive
    BY <1>1 DEF Alive
  <2>. QED
    BY <1>2, <1>3, <2>1 DEF ShutdownOrder, Free, TypeOK
<1>5. main = "destroy_timers" /\ mutex_held' => \E u \in Threads : handler'[u] = "self_locked"
  <2>1. CASE mutex_held
    BY <1>2, <1>3, <2>1 DEF ShutdownOrder, TypeOK
  <2>2. CASE ~mutex_held
    BY <1>2, <1>3, <2>2 DEF TypeOK
  <2>. QED
    BY <2>1, <2>2
<1>6. main \in {"return", "exited"} => ~mutex_held'
  <2>. SUFFICES ASSUME main \in {"return", "exited"} PROVE ~mutex_held'
    OBVIOUS
  <2>1. InClkSection \cap Alive = {}
    BY DEF ShutdownOrder, InClkSection, Alive, NextTimer, SchedulerFreed
  <2>. QED
    BY <1>2, <1>3, <2>1 DEF ShutdownOrder
<1>. QED
  BY <1>1, <1>4, <1>5, <1>6 DEF ShutdownOrder, SchedulerFreed

\* A handler broadcasts and returns, and moves main at most out of pause().
LEMMA HandlerKeepsOrder == \A th \in Threads : IInv /\ HandlerStep(th) => ShutdownOrder'
<1>. SUFFICES ASSUME TypeOK, ShutdownOrder, NEW th \in Threads, HandlerStep(th)
              PROVE  ShutdownOrder'
  BY DEF IInv
<1>. USE DEF mutexVars, flagVars, tickVars, signalVars
<1>1. /\ UNCHANGED <<running, mutex_held, clock>>
      /\ main' = main \/ (main = "paused" /\ main' = "loop")
      /\ timer' \in {timer, TimersAfterTick}
      /\ sched' \in {sched, SchedAfterTick} \/ (sched = "blocked_on_timer" /\ sched' = "activated")
  BY DEF HandlerStep, HandlerBroadcasts, HandlerSignals, HandlerStrays, HandlerReturns,
         BroadcastTick, SignalScheduler
<1>2. /\ ~Free(th) /\ handler[th] # "self_locked"
      /\ \E at \in {"none", "return", "sched_cond", "astray"} : handler' = [handler EXCEPT ![th] = at]
  BY DEF HandlerStep, HandlerBroadcasts, HandlerSignals, HandlerStrays, HandlerReturns,
         AfterClkCond, Free
<1>3. /\ \A u \in Threads : ~Free(u)' => ~Free(u)
      /\ \A u \in Threads : handler[u] = "self_locked" => handler'[u] = "self_locked"
  BY <1>2 DEF Free, TypeOK
<1>4. /\ \A pc \in {"unborn", "done"} : sched = pc <=> sched' = pc
      /\ \A t \in Timers, pc \in {"unborn", "done"} : timer[t] = pc <=> timer'[t] = pc
  BY <1>1, BroadcastKeepsAlive
<1>5. \A u \in Threads : Free(u)' \/ u \in Alive'
  <2>. SUFFICES ASSUME NEW u \in Threads, ~Free(u), u \in Alive PROVE u \in Alive'
    BY <1>3 DEF ShutdownOrder
  <2>. QED
    BY <1>1, <1>4 DEF Alive
<1>. QED
  BY <1>1, <1>3, <1>4, <1>5 DEF ShutdownOrder, SchedulerFreed, UpStates

\* The order in which cleanup_system joins its threads is kept whatever SIGINT
\* interrupts.
LEMMA OrderIsInvariant == Spec => []IInv
<1>1. Init => ShutdownOrder
  BY DEF Init, ShutdownOrder, UpStates, SchedulerFreed, Free
<1>2. IInv /\ [Next]_vars => ShutdownOrder'
  <2>1. CASE UNCHANGED vars \/ Exited
    BY <2>1 DEF Exited, IInv, ShutdownOrder, vars, mutexVars, flagVars, signalVars, UpStates,
                SchedulerFreed, Alive, Free
  <2>. QED
    BY <2>1, ClockKeepsOrder, TimerKeepsOrder, SchedKeepsOrder, MainKeepsOrder, SignalKeepsOrder,
       HandlerKeepsOrder DEF Next
<1>. QED
  BY <1>1, <1>2, SyncTypeCorrect, PTL DEF Spec, IInv

\* The scheduler, the clock and all timers have ended when main returns, and
\* clk_mutex, which it destroys, is not locked, even if signals have interrupted
\* the cleanup.
THEOREM ThreadsEndFirst == Spec => []NoThreadOutlivesMain
<1>1. IInv => NoThreadOutlivesMain
  BY DEF IInv, ShutdownOrder, NoThreadOutlivesMain, SchedulerFreed, Alive
<1>. QED
  BY <1>1, OrderIsInvariant, PTL

\* A timer that calls back after the scheduler's destruction had decided to do so
\* before it.
THEOREM CallbacksDecidedBefore == Spec => NoNewCallback
<1>. DEFINE A == \A t \in Timers :
                     SchedulerFreed /\ timer'[t] = "callback" => timer[t] = "callback"
<1>1. IInv /\ [Next]_vars => [A]_vars
  <2>. SUFFICES ASSUME IInv, Next, NEW t \in Timers,
                       SchedulerFreed, timer'[t] = "callback"
                PROVE  timer[t] = "callback"
    BY DEF A
  <2>. USE DEF mutexVars, flagVars, tickVars, signalVars
  <2>1. TypeOK /\ ~running
    BY DEF IInv, ShutdownOrder, SchedulerFreed, UpStates
  <2>2. CASE \E u \in Timers : TimerStep(u)
    <3>. PICK u \in Timers : TimerStep(u)
      BY <2>2
    <3>1. CASE TimerLoops(u) \/ TimerBlocks(u) \/ TimerQuits(u) \/ TimerCallback(u) \/ TimerStrays(u)
      BY <2>1, <3>1 DEF TypeOK, TimerLoops, TimerBlocks, TimerQuits, TimerCallback, TimerStrays
    <3>2. CASE TimerConfirms(u)
      BY <2>1, <3>2 DEF TimerConfirms
    <3>. QED
      BY <3>1, <3>2 DEF TimerStep
  <2>3. TimersAfterTick[t] = "callback" => timer[t] = "callback"
    BY DEF TimersAfterTick
  <2>4. CASE ClockStep
    BY <2>3, <2>4 DEF ClockStep, ClockWakes, ClockTicks, ClockConfirmed, BroadcastTick
  <2>5. CASE SchedStep
    BY <2>3, <2>5 DEF SchedStep, SchedLoops, SchedBlocksOnTimer, SchedActivated, SchedBlocks,
                      SchedQuits, SchedPasses
  <2>6. CASE MainStep
    BY <2>1, <2>3, <2>6 DEF TypeOK, MainStep, StartUp, SetClock, CreateTimer, LoadPrograms,
          StartScheduler, MainLoops, MainPauses, CleanUp, StopScheduler, JoinScheduler, StopClock,
          WakeTimers, StopTimer, JoinTimers, Exit, BroadcastTick
  <2>7. CASE Interrupt \/ \E th \in Threads : HandlerStep(th)
    BY <2>3, <2>7 DEF Interrupt, Sigint, SigintHoldingClkMutex, SigintHoldingSchedMutex,
          HandlerStep, HandlerBroadcasts, HandlerSignals, HandlerStrays, HandlerReturns,
          BroadcastTick
  <2>8. CASE Exited
    BY <2>8 DEF Exited, vars
  <2>. QED
    BY <2>2, <2>4, <2>5, <2>6, <2>7, <2>8 DEF Next
<1>. QED
  BY <1>1, OrderIsInvariant, PTL DEF Spec, NoNewCallback

----------------------------------------------------------------------------
(* Threads that wait for themselves.                                        *)

\* A thread in whose handler the thread waits for itself keeps the mutex, so that
\* main, which needs it, stays where it was when that happened at the set-up.
\* Without a signal no handler runs and no cleanup begins.
LockOrder ==
    /\ ~running => sigints > 0
    /\ \A th \in Threads : handler[th] = "self_locked"
          => mutex_held /\ (sigints > 1 \/ main = "set_clock")

\* No step but a signal makes a thread wait for itself or counts a signal, and
\* none releases a mutex that is held for good.
LEMMA OthersKeepLocks ==
    ASSUME IInv, LockOrder, Next, ~Interrupt
    PROVE  LockOrder'
<1>. USE DEF mutexVars, flagVars, tickVars, signalVars
<1>1. running' = running /\ sigints' = sigints
  BY DEF Next, ClockStep, ClockWakes, ClockTicks, ClockConfirmed, TimerStep, TimerLoops, TimerBlocks,
         TimerQuits, TimerConfirms, TimerCallback, TimerStrays, SchedStep, SchedLoops,
         SchedBlocksOnTimer, SchedActivated, SchedBlocks, SchedQuits, SchedPasses, MainStep,
         StartUp, SetClock, CreateTimer, LoadPrograms, StartScheduler, MainLoops, MainPauses,
         CleanUp, StopScheduler, JoinScheduler, StopClock, WakeTimers, StopTimer, JoinTimers, Exit,
         HandlerStep, HandlerBroadcasts, HandlerSignals, HandlerStrays, HandlerReturns, Exited, vars
<1>2. mutex_held => mutex_held'
  <2>1. CASE StopClock
    BY <2>1, Zenon DEF StopClock
  <2>2. CASE ~StopClock
    BY <2>2 DEF Next, ClockStep, ClockWakes, ClockTicks, ClockConfirmed, TimerStep, TimerLoops,
         TimerBlocks, TimerQuits, TimerConfirms, TimerCallback, TimerStrays, SchedStep, SchedLoops,
         SchedBlocksOnTimer, SchedActivated, SchedBlocks, SchedQuits, SchedPasses, MainStep,
         StartUp, SetClock, CreateTimer, LoadPrograms, StartScheduler, MainLoops, MainPauses,
         CleanUp, StopScheduler, JoinScheduler, WakeTimers, StopTimer, JoinTimers, Exit,
         HandlerStep, HandlerBroadcasts, HandlerSignals, HandlerStrays, HandlerReturns, Exited, vars
  <2>. QED
    BY <2>1, <2>2
<1>3. mutex_held /\ main = "set_clock" => main' = "set_clock"
  BY DEF Next, ClockStep, ClockWakes, ClockTicks, ClockConfirmed, TimerStep, TimerLoops, TimerBlocks,
         TimerQuits, TimerConfirms, TimerCallback, TimerStrays, SchedStep, SchedLoops,
         SchedBlocksOnTimer, SchedActivated, SchedBlocks, SchedQuits, SchedPasses, MainStep,
         StartUp, SetClock, CreateTimer, LoadPrograms, StartScheduler, MainLoops, MainPauses,
         CleanUp, StopScheduler, JoinScheduler, StopClock, WakeTimers, StopTimer, JoinTimers, Exit,
         NextTimer, HandlerStep, HandlerBroadcasts, HandlerSignals, HandlerStrays, HandlerReturns,
         Exited, vars
<1>4. \/ handler' = handler
      \/ \E th \in Threads, at \in {"none", "return", "sched_cond", "astray"} :
            handler' = [handler EXCEPT ![th] = at]
  BY DEF Next, ClockStep, ClockWakes, ClockTicks, ClockConfirmed, TimerStep, TimerLoops, TimerBlocks,
         TimerQuits, TimerConfirms, TimerCallback, TimerStrays, SchedStep, SchedLoops,
         SchedBlocksOnTimer, SchedActivated, SchedBlocks, SchedQuits, SchedPasses, MainStep,
         StartUp, SetClock, CreateTimer, LoadPrograms, StartScheduler, MainLoops, MainPauses,
         CleanUp, StopScheduler, JoinScheduler, StopClock, WakeTimers, StopTimer, JoinTimers, Exit,
         HandlerStep, HandlerBroadcasts, HandlerSignals, HandlerStrays, HandlerReturns, AfterClkCond,
         Exited, vars
<1>5. \A th \in Threads : handler'[th] = "self_locked" => handler[th] = "self_locked"
  BY <1>4 DEF IInv, TypeOK
<1>. QED
  BY <1>1, <1>2, <1>3, <1>5 DEF LockOrder

\* A signal that finds its thread holding clk_mutex is the second one, or finds
\* main at the set-up: another thread gets it only while main is in the handler.
LEMMA SignalKeepsLocks ==
    ASSUME IInv, LockOrder, Interrupt
    PROVE  LockOrder'
<1>1. /\ sigints \in Nat /\ sigints' = sigints + 1 /\ main' = main /\ (mutex_held => mutex_held')
  BY SyncAssumption DEF IInv, TypeOK, Interrupt, Sigint, SigintHoldingClkMutex,
         SigintHoldingSchedMutex, mutexVars
<1>2. CASE SigintHoldingClkMutex
  <2>1. PICK th \in Catchers \cap InClkSection : handler' = [handler EXCEPT ![th] = "self_locked"]
    BY <1>2 DEF SigintHoldingClkMutex
  <2>2. sigints > 0 \/ main = "set_clock"
    <3>1. CASE th = "main" /\ main # "set_clock"
      <4>1. main \notin UpStates
        BY <2>1, <3>1, SyncAssumption DEF InClkSection, NextTimer, UpStates
      <4>. QED
        BY <4>1 DEF IInv, ShutdownOrder, LockOrder
    <3>2. CASE th # "main"
      <4>1. ~Free("main") /\ "main" \in Threads
        BY <2>1, <3>2 DEF Catchers, MainFree, Threads
      <4>. QED
        BY <4>1 DEF IInv, TypeOK, LockOrder
    <3>. QED
      BY <3>1, <3>2
  <2>3. mutex_held'
    BY <1>2 DEF SigintHoldingClkMutex
  <2>. QED
    BY <1>1, <2>2, <2>3 DEF LockOrder
<1>3. CASE Sigint \/ SigintHoldingSchedMutex
  <2>1. PICK th \in Catchers : handler' = [handler EXCEPT ![th] = "clk_cond"]
    BY <1>3 DEF Sigint, SigintHoldingSchedMutex
  <2>2. \A u \in Threads : handler'[u] = "self_locked" => handler[u] = "self_locked"
    BY <2>1 DEF IInv, TypeOK
  <2>. QED
    BY <1>1, <2>2 DEF LockOrder
<1>. QED
  BY <1>2, <1>3 DEF Interrupt

\* One Ctrl-C alone makes no thread wait for a mutex that it holds itself, unless
\* it interrupts main while that sets up the clock, whatever the number of timers
\* and however often the user presses it later.
THEOREM SelfLockOnlyBySecond == Spec => []SelfLockNeedsTwo
<1>1. Init => LockOrder
  BY DEF Init, LockOrder
<1>2. IInv /\ LockOrder /\ [Next]_vars => LockOrder'
  <2>1. CASE UNCHANGED vars
    BY <2>1 DEF LockOrder, vars, mutexVars, flagVars, signalVars
  <2>. QED
    BY <2>1, OthersKeepLocks, SignalKeepsLocks
<1>3. LockOrder => SelfLockNeedsTwo
  BY DEF LockOrder, SelfLockNeedsTwo
<1>. QED
  BY <1>1, <1>2, <1>3, OrderIsInvariant, PTL DEF Spec

----------------------------------------------------------------------------
(* The intervals of the timers.                                             *)

\* While the program runs, no timer has ended, one that has reached its interval
\* has been woken for it and not yet got the mutex, and when the clock is about
\* to tick everybody else waits.  Once it is about to tick, no timer is late.
IntervalOrder ==
    /\ running =>
          /\ \A t \in Timers : timer_running[t] /\ timer[t] # "done"
          /\ \A t \in Timers : since[t] < Interval[t] \/ timer[t] = "awake"
          /\ clock = "lock" => AllWaiting
    /\ clock = "lock" => \A t \in Timers : since[t] < Interval[t]

\* A broadcast wakes timers and does nothing else to them.
LEMMA BroadcastWakes ==
    \A t \in Timers : /\ TimersAfterTick[t] = IF timer[t] = "blocked" THEN "awake" ELSE timer[t]
  BY DEF TimersAfterTick

\* The clock waits for the others before it asks for the mutex.
LEMMA ClockKeepsIntervals ==
    ASSUME Patient, IInv, IntervalOrder, ClockStep
    PROVE  IntervalOrder'
<1>. USE DEF mutexVars, flagVars, tickVars, signalVars
<1>1. since \in [Timers -> Nat] /\ Interval \in [Timers -> Nat \ {0}]
  BY SyncAssumption DEF IInv, TypeOK
<1>2. CASE ClockWakes
  <2>1. running => AllWaiting
    BY <1>2 DEF ClockWakes
  <2>2. running => \A t \in Timers : since[t] < Interval[t]
    BY <1>2, <2>1 DEF IntervalOrder, AllWaiting, ClockWakes
  <2>. QED
    BY <1>2, <2>1, <2>2 DEF IntervalOrder, ClockWakes, AllWaiting
<1>3. CASE ClockTicks
  <2>1. running => \A t \in Timers : timer[t] = "blocked"
    BY <1>3 DEF ClockTicks, IntervalOrder, AllWaiting
  <2>2. running => \A t \in Timers : timer'[t] = "awake"
    BY <1>3, <2>1, BroadcastWakes DEF ClockTicks, BroadcastTick
  <2>. QED
    BY <1>3, <2>2 DEF IntervalOrder, ClockTicks
<1>4. CASE ClockConfirmed
  BY <1>4 DEF IntervalOrder, ClockConfirmed
<1>. QED
  BY <1>2, <1>3, <1>4 DEF ClockStep

\* A timer that is woken brings its last_tick up to date before it goes on.
LEMMA TimerKeepsIntervals ==
    ASSUME Patient, IInv, IntervalOrder, NEW t \in Timers, TimerStep(t)
    PROVE  IntervalOrder'
<1>. USE DEF mutexVars, flagVars, tickVars, signalVars
<1>1. /\ timer[t] \notin {"blocked", "done"} /\ UNCHANGED <<running, timer_running, main>>
      /\ timer \in [Timers -> TimerPcs]
      /\ since \in [Timers -> Nat] /\ Interval \in [Timers -> Nat \ {0}]
  BY SyncAssumption DEF IInv, TypeOK, TimerPcs, TimerStep, TimerLoops, TimerBlocks, TimerQuits,
                        TimerConfirms, TimerCallback, TimerStrays
<1>2. clock = "lock" => ~running
  BY <1>1 DEF IntervalOrder, AllWaiting
<1>3. clock' = "lock" => clock = "lock"
  BY DEF TimerStep, TimerLoops, TimerBlocks, TimerQuits, TimerConfirms, TimerCallback, TimerStrays,
         BroadcastConfirmation
<1>4. \A u \in Timers : u # t => timer'[u] = timer[u]
  BY <1>1 DEF TimerStep, TimerLoops, TimerBlocks, TimerQuits, TimerConfirms, TimerCallback, TimerStrays
<1>5. running => timer'[t] # "done"
  BY <1>1 DEF TimerPcs, IntervalOrder, TimerStep, TimerLoops, TimerBlocks, TimerQuits, TimerConfirms,
              TimerCallback, TimerStrays
<1>6. \A u \in Timers : since'[u] = since[u] \/ since'[u] = 0
  BY <1>1 DEF TimerStep, TimerLoops, TimerBlocks, TimerQuits, TimerConfirms, TimerCallback, TimerStrays
<1>7. running => since'[t] < Interval[t] \/ timer'[t] = "awake"
  <2>1. CASE TimerConfirms(t)
    BY <1>1, <2>1 DEF TimerConfirms
  <2>2. CASE ~TimerConfirms(t)
    <3>1. since' = since
      BY <2>2 DEF TimerStep, TimerLoops, TimerBlocks, TimerQuits, TimerCallback, TimerStrays
    <3>2. running => timer[t] # "awake"
      BY <2>2 DEF IntervalOrder, TimerStep, TimerLoops, TimerBlocks, TimerQuits, TimerCallback, TimerStrays
    <3>. QED
      BY <3>1, <3>2 DEF IntervalOrder
  <2>. QED
    BY <2>1, <2>2
<1>. QED
  BY <1>1, <1>2, <1>3, <1>4, <1>5, <1>6, <1>7 DEF IntervalOrder

\* Neither the scheduler nor the main thread nor a signal touches what it says.
LEMMA OthersKeepIntervals ==
    ASSUME Patient, IInv, IntervalOrder,
           SchedStep \/ MainStep \/ Interrupt \/ \E th \in Threads : HandlerStep(th)
    PROVE  IntervalOrder'
<1>. USE DEF mutexVars, flagVars, tickVars, signalVars
<1>1. /\ \A t \in Timers : since'[t] = since[t] \/ since'[t] = 0
      /\ clock' = "lock" => clock = "lock"
      /\ running' => running
  BY DEF IInv, TypeOK, SchedStep, SchedLoops, SchedBlocksOnTimer, SchedActivated, SchedBlocks,
         SchedQuits, SchedPasses, MainStep, StartUp, SetClock, CreateTimer, LoadPrograms,
         StartScheduler, MainLoops, MainPauses, CleanUp, StopScheduler, JoinScheduler, StopClock,
         WakeTimers, StopTimer, JoinTimers, Exit,
         Interrupt, Sigint, SigintHoldingClkMutex, SigintHoldingSchedMutex,
         HandlerStep, HandlerBroadcasts, HandlerSignals, HandlerStrays, HandlerReturns
<1>2. \A t \in Timers : since[t] < Interval[t] => since'[t] < Interval[t]
  BY <1>1, SyncAssumption DEF IInv, TypeOK
<1>3. CASE ~running'
  BY <1>1, <1>2, <1>3 DEF IntervalOrder
<1>4. CASE running'
  <2>1. running /\ main \in UpStates /\ (SchedStep \/ MainStep)
    <3>1. running /\ main \in UpStates
      BY <1>1, <1>4 DEF IInv, ShutdownOrder
    <3>2. ~Interrupt
      BY <1>4 DEF Interrupt, Sigint, SigintHoldingClkMutex, SigintHoldingSchedMutex
    <3>3. ASSUME NEW th \in Threads, HandlerStep(th) PROVE FALSE
      BY <3>1, <3>3 DEF IInv, TypeOK, Free, HandlerStep, HandlerBroadcasts, HandlerSignals,
         HandlerStrays, HandlerReturns
    <3>. QED
      BY <3>1, <3>2, <3>3
  <2>2. timer_running' = timer_running
    BY <2>1 DEF SchedStep, SchedLoops, SchedBlocksOnTimer, SchedActivated, SchedBlocks, SchedQuits,
         SchedPasses, MainStep, StartUp, SetClock, CreateTimer, LoadPrograms,
         StartScheduler, MainLoops, MainPauses, CleanUp, StopScheduler, JoinScheduler, StopClock,
         WakeTimers, StopTimer, JoinTimers, Exit, NextTimer, UpStates
  <2>3. \/ timer' = timer
        \/ timer' = TimersAfterTick /\ SchedPasses
        \/ CreateTimer
    BY <2>1 DEF SchedStep, SchedLoops, SchedBlocksOnTimer, SchedActivated, SchedBlocks, SchedQuits,
         SchedPasses, MainStep, StartUp, SetClock, LoadPrograms, StartScheduler, MainLoops,
         MainPauses, CleanUp, StopScheduler, JoinScheduler, StopClock, WakeTimers, StopTimer, JoinTimers, Exit, NextTimer, UpStates
  <2>4. \A t \in Timers : /\ timer'[t] = "done" => timer[t] = "done"
                          /\ timer[t] = "awake" => timer'[t] = "awake"
    BY <2>3, BroadcastWakes DEF CreateTimer, IInv, TypeOK
  <2>5. clock = "lock" => AllWaiting'
    <3>. SUFFICES ASSUME clock = "lock"
                  PROVE  AllWaiting'
      OBVIOUS
    <3>1. AllWaiting
      BY <2>1 DEF IntervalOrder
    <3>. QED
      BY <2>1, <3>1 DEF AllWaiting, SchedStep, SchedLoops, SchedBlocksOnTimer, SchedActivated,
         SchedBlocks, SchedQuits, SchedPasses, MainStep, StartUp, SetClock, CreateTimer, LoadPrograms,
         StartScheduler, MainLoops, MainPauses, CleanUp, StopScheduler, JoinScheduler, StopClock,
         WakeTimers, StopTimer, JoinTimers, Exit, NextTimer, UpStates
  <2>. QED
    BY <1>1, <1>2, <2>1, <2>2, <2>4, <2>5 DEF IntervalOrder
<1>. QED
  BY <1>3, <1>4

\* If the usleep of the clock outlasts the work of the others, no timer misses
\* the tick that ends its interval, whatever the number of timers, whether or not
\* a pass broadcasts on clk_cond, and whenever SIGINT arrives.
THEOREM IntervalsKept == ASSUME Patient PROVE Spec => IntervalsExact
<1>1. Init => IntervalOrder
  BY SyncAssumption DEF Init, IntervalOrder
<1>2. IInv /\ IntervalOrder /\ [Next]_vars => IntervalOrder'
  <2>1. CASE UNCHANGED vars \/ Exited
    BY <2>1 DEF Exited, IntervalOrder, AllWaiting, vars, mutexVars, flagVars, tickVars
  <2>. QED
    BY <2>1, ClockKeepsIntervals, TimerKeepsIntervals, OthersKeepIntervals DEF Next
<1>3. IInv /\ IntervalOrder /\ [Next]_vars
         => [ClockTicks => \A t \in Timers : since[t] < Interval[t]]_vars
  BY DEF IntervalOrder, ClockTicks
<1>. QED
  BY <1>1, <1>2, <1>3, OrderIsInvariant, PTL DEF Spec, IntervalsExact
=============================================================================
