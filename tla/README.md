# A verification project for the_locOS

the_locOS is a simulator of a small operating system: a clock thread, timer
threads and a scheduler thread, synchronised with a mutex and condition
variables, move programs loaded from `.elf` text files through queues and the
hardware threads of a simulated machine, which fetch their instructions through
page tables from a simulated physical memory.  This directory holds TLA+ models
of its concurrent core and of its loader, memory and machine, TLC runs that check
them, and proofs checked by TLAPS.  Source references are to `src/sys/`.

## Inventory

| component | state | operations | talks to |
|---|---|---|---|
| scheduler (`process.c`) | policy, sync mode, ready queue, 40 level queues, `last_tick` | wait, scan for completion and quantum expiry, transfer of arrivals with preemption (PRIO), dispatch, start, stop, destroy | locks `clk_mutex`; woken by the clock's broadcast or by timer 0; changes machine, queues and PCBs |
| process queues (`process.c`) | ring buffer | enqueue, dequeue, removal of a selected element in place (BFS) | scheduler, loader, cleanup |
| PCBs (`process.c`) | pid, state, priority, TTL, quantum counter, deadline, context | create, destroy, decrement TTL | everyone, by pointer |
| machine (`machine.c`) | per core: hardware threads (PC, registers, PTBR, a PCB) and a "legacy" array of PCB copies with the count | assign, room test, the cycle of LD, ST, ADD and EXIT | clock (executes), scheduler, MMU |
| clock (`clock.c`) | `clk_counter` | tick: decrement TTLs, execute an instruction, broadcast `clk_cond`, wait on `clk_cond2` | timers confirm each tick |
| timers (`timer.c`) | interval, `last_tick` | wait for the tick, confirm it, call back | timer 0's callback signals `sched_cond` in TIMER mode |
| kernel (`kernel.c`) | `running`, globals | start-up, SIGINT handler, `cleanup_system` | starts and joins all threads |
| loader (`loader.c`) | next pid | parse, create a page table, take frames and fill them, create a PCB with a TTL | memory, ready queue |
| memory and MMU (`memory.c`) | the words, the bitmap of frames, the next free word of kernel space | allocate a frame, create a page table, translate, read, write | loader, instruction cycle |
| process generator (`process.c`) | | disabled in `kernel.c` | |
| program generator (`programs/prometheus`) | | writes random `.elf` files | loader, by files |

What is hard here: the shift loops over arrays that others index; a ring with
removals from the middle; a flag (`running`) that SIGINT clears without the
mutex while a pass is under way; condition variables waited on without
predicates, in three places; cancellation of a thread that holds a mutex; a
scheduler that may come late, so that ticks and activations are lost; queues
that are full; loads that fail half-way; segments copied page by page with word
indices of three origins; contexts that move from thread to thread.  `PROJECT.json` lists each hazard at its line.

What makes each component correct: the scheduler neither loses, doubles nor
touches a freed process, and switches contexts without losing work; each policy
selects the process it promises; a queue is FIFO but for the removal asked for;
the clock keeps ticking, timers keep their intervals, and a Ctrl-C ends all
threads; a frame belongs to one page, and a process computes what its program
says, whoever runs beside it.

## Modules

| module | models | how |
|---|---|---|
| `Queues` | what queue operations and shift loops do to a sequence | operators |
| `RingQueue` | the ring buffer as an array with its three counters | one action per operation; `Shifted` is the loop |
| `BoundedQueue` | what callers expect of a queue | abstract specification |
| `Scheduler` | `scheduler_function`, the tick, timer 0, SIGINT and cleanup, at the grain of loop iterations | see below |
| `ProcessLifecycle` | what a scheduler owes its processes | abstract specification |
| `ClockSync` | how all threads wait for each other, from start-up to exit | one step per stretch between two points of suspension |
| `Instructions` | the fields of an instruction word and the opcodes | operators |
| `Prometheus` | the programs that `prometheus.c` writes, and what they compute | operators on a draw of its `rand()` calls |
| `PhysicalMemory` | words, bitmap, kernel space, page tables, translation | state and operators |
| `Loader` | `loader.c` and the loop of `main` over the directory | one action per way through, one per page |
| `Execution` | assignment, expiry, completion and the instruction cycle, over `Loader` | one action per instruction of a thread |
| `PrivateMachine` | what a process may expect of the machine | abstract specification |
| `QueuesProofs`, `RingQueueProofs` | theorems about queues and the ring | see Proofs |
| `SchedulerSafety`; on top of it `SchedulerPriority`, `SchedulerWork` and `SchedulerRefinement` | theorems about `Scheduler` | |
| `ClockSyncProofs`, `ExecutionProofs` | theorems about `ClockSync`, and about `Loader` and `Execution` | |
| `MCScheduler`, `MCClockSync`, `MCRingQueue`, `MCExecution` | constants for TLC | |

`ClockSync` abstracts a scheduler pass to one step (`SchedPasses`); `Scheduler`
abstracts the waiting to guards on `clk_counter` and a lossy signal.  They share
the flag `running`, the tick and the order of the cleanup.  `Execution` leaves open
which process is assigned, expires or completes and when, so that any schedule of
`Scheduler` under round robin or BFS is one of its own; it composes `Loader`, which
composes `PhysicalMemory` and `Prometheus`.

**Scheduler.**  A pass holds `clk_mutex`, so clock and timers cannot step in the
middle of it (`MutexFree`), but `running` may change there and each loop
condition reads it: each iteration is one action.  `sched` says in which
loop the thread is and `cursor` holds the loop variables.  The nested loops over
CPUs and cores are one loop over `Cores`.  `CompleteProcess`, `ExpireQuantum` and
`KeepExecuting` are the three ways through the body of the scan;
`TransferArrival` and `TransferPreempting` an iteration of the PRIO transfer;
`DispatchRoundRobin`, `DispatchBFS` and `DispatchPriority` an iteration of the
dispatch loop with its selection and assignment.  `pcb` is the heap; queues and
hardware threads hold keys of it; freed keys are kept in `destroyed`, so that a
use after free can be seen.  A program is abstracted to the size of its code
(which fixes its TTL), the number of instructions after which it halts, and how
(EXIT or an unknown opcode, both of which leave the process TERMINATED).
Programs are loaded before the scheduler starts and no others arrive, because
the generator is disabled; those that do not fit in the ready queue are freed by
`main`, hence `AdmissionAssumption`.  `Clones` are the PCBs that a preemption
allocates.  There is one SIGINT, which finds the main thread in its loop and the
scheduler and the clock at any point; what a further one does, and why the main thread may
miss one or hang in the cleanup, is in `ClockSync`, and here a choice of
`WakeEverybody` and `StopClockAndTimers`.

**ClockSync.**  A thread's state names the point where it is suspended:
`"lock"` before it takes `clk_mutex`, `"blocked"` in `pthread_cond_wait`,
`"awake"` after a broadcast, needing the mutex again.  A critical section is one step,
so that the mutex is free between steps, except when a thread keeps it for ever
(`mutex_held`): a clock cancelled in it, or a thread that a signal interrupts in it.

`handle_sigint` is installed before any thread is created and stays installed through
`cleanup_system`.  It runs inside a thread, which goes on when it returns (`handler`),
and locks `clk_mutex`, and in TIMER mode `sched_mutex`, itself.  A signal is delivered to
the main thread, and to another one (`Catchers`) only while the main thread is in the
handler, which blocks the signal there: that is what Linux does with a signal sent to a
process none of whose threads blocks it.  It finds its thread outside the critical
sections (`Sigint`), inside one on `clk_mutex` (`SigintHoldingClkMutex`: the thread
waits for itself and nobody gets the mutex any more), or inside one on `sched_mutex`
(`SigintHoldingSchedMutex`).  After `destroy_scheduler` the handler reads
`sync_mode` in freed memory, which may have any value (`AfterClkCond`), and what it or a
late callback locks there may return or not (`HandlerStrays`, `TimerStrays`).  The
internal locks of stdio and of the condition variables, which the handler's `printf` and
broadcasts could find taken, are not modelled.

`Patient = TRUE` states the timing the authors rely on, that within one `usleep`
the other threads are back in their waits; `Patient = FALSE` drops it.

**Loader, PhysicalMemory, Execution.**  Memory is one array of words, in which page
tables lie as in the program: an entry is a word with the fields of the C
bit-field, a table is the index of its first entry, and `mmu_write_word` sets the
accessed and dirty bits of the entry before it writes.  Kernel space is counted in
words, the comparison is that of `create_page_table`, and a fault yields address 0.
Words have the program's layout (opcode, register, address; ADD with its sources in
the upper digits of the address) with the widths of register and address as
constants, and arithmetic wraps at the width of a word.  A file is its two directives
and its words.  `FileAssumptionOn` excludes files whose `.data` lies beyond their
words (`memcpy` would leave its buffer), files without words (their process has no
page table of its own), files beyond the address space, and more words than an
`unsigned int` counts.  A tick executes an
instruction on each thread in turn under `clk_mutex`; the model makes each a step, so
that expiries and completions may fall between two threads of one tick, where the
program has them only between ticks: more interleavings than the program has, none
fewer.  `ready_queue` is a set here, its order being `Scheduler`'s.  Two
variables record what the program forgets: `program`, from which file a process was
made, and `page_tables`, where its table is when its PCB is gone.  The TLB is cleared
and never consulted, IR and the entry point are written and never read: none of them
is a variable.

`PrivateMachine` gives each process an address space, registers and a program
counter of its own.  It starts with the image of its file, laid out by
`LinkedImage` independently of the loader's copying, and each of its steps is one
instruction on its own words; an address outside them has no step.  Expiry,
assignment, shifts, other loads and other processes are stutters of it.

## Runs

Passing:

* `SchedRR`: type, safety and refinement for round robin.  Two cores of one
  thread exercise the core loop, three programs of all shapes (exit, bad opcode,
  TTL) the scan; quantum 2 and 14 ticks give several rotations and completions
  by TTL; SIGINT comes at any tick.  `MaxMissed = 1` lets the scheduler miss a
  tick between any two passes, during which a process may execute beyond its TTL;
  `SpentLeaves` says that the next pass takes it off its thread, and that no pass requeues
  or dispatches one.
* `SchedBFS`: two threads on one core exercise the shifts; quantum 6 and
  priorities -20, 0, 19 give deadline offsets -1, 0, 1.  Capacity 4 for three
  programs leaves the ring the spare room that its removal needs (see Proofs).
* `SchedPreempt`: `-qsize 5` gives levels of capacity 2, so that some of five programs
  arrive late and preempt.  Two clones suffice up to tick 12: if one were missing
  the transfer would be stuck and TLC would report a deadlock.  `MostUrgentExecutes` says
  that some executing process is outranked by no level; that none is, `PriorityRespected`,
  is not true of two threads (see below).  `ArrivalsNotStranded`
  holds here because a level holds as many processes as there are threads; it says
  that an arrival behind a full level (`process.c:730`) never waits beside an idle
  thread when a pass is over.
* `SchedTimer`: TIMER mode.  The scheduler may be any number of ticks late, and
  activations are lost while it is busy.
* `SchedLive`: liveness under `FairSpec`.  The tick counter wraps at 2, which
  both bounds the model and exercises the wrap of the program's counter.  Two
  programs that end by TTL share one thread.  `ShutdownAccounted` says that after a SIGINT
  at any point of a pass the scheduler thread leaves its loops, and that the cleanup
  gets to its end unless the main thread sleeps in `pause()` (`"asleep"`) or hangs on the
  clock or a timer (`"hung"`); why it may is in `ClockSync`.
* `SyncTicks`: the handshake of clock, timers and scheduler in both modes
  (`sync_mode` is chosen initially), with two timers, no SIGINT, and `Patient`.
* `SyncStop`: up to two SIGINTs at any point from the start of the clock thread to the
  exit, set-up and cleanup included, in whichever thread gets them, in both modes, without
  `Patient`, with one timer (two are beyond TLC here; the theorems have any number).
  `NoNewCallback` bounds the use of the destroyed scheduler by timer 0 (`timer.c:43`,
  `kernel.c:115`): only a call that was decided before can come late.  The program can
  really hang, so the deadlock check is off and `ShutdownAccounted` states how: the main
  thread sleeping in `pause()` (`MainMissed`), the scheduler in its own condition variable
  (`SchedMissed`), a timer that missed its last broadcast (`TimerMissed`), `clk_mutex`
  locked by the cancelled clock (`ClockDiedLocked`), a thread whose handler needs a mutex
  that the thread holds (`SelfLocked`), and a handler or a late callback lost in memory
  that was freed (`Astray`).  Each of them happens.  `SelfLockNeedsTwo` says that
  `clk_mutex` is lost to a handler only by a second Ctrl-C, or by one during the set-up;
  `SchedulerStops` that in CLOCK mode nothing else keeps the scheduler from ending.
* `Ring`: a ring of five slots and three element names, in every occupation up to
  full.  `RemovalForm` ties the shift loop to the closed form `BfsRemove` that
  `Scheduler` uses; `ImplementsBoundedQueue` compares the ring with the abstract
  queue while it is at most about half full, because beyond that it does not agree.
* `Programs`: a directory of three files in any order and repetition, drawn from a
  program of one block whose numbers, registers and variables wrap around, one of two
  blocks, one that meets a bad opcode, and a file that is rejected; then all
  interleavings on two threads.  Four registers, words of 12 bits, 16 addressable
  words and pages of four are the least in which every field has a value that matters.
  Two kernel frames hold eight entries and there are seven user frames, so that
  4+4 pages exhaust the frames half-way, 3+3+3 the kernel space, and 3+3+1 the ready
  queue of two.  TTLs lie between 3 and 7: the program of nine instructions is
  sometimes cut by its TTL, as one of more than 100 is in the code, and sometimes
  reaches its EXIT because the scheduler is late.  `KeepsInside` says that what the
  generator writes never reaches for a word that the loader did not count for it; it is
  the hypothesis of the theorems on `Execution`, and `WellWrittenKeepInside` derives it
  from the files, on which TLC evaluates it too (`FilesWellWritten`, `FilesEndInTime`).  Nothing is left to do at the
  end but ticks (`IdleTick`).

Failing, each a disagreement between the code and its documents or comments
(`PROJECT.json`, "findings", quotes them):

* `LostRequeue`: a quantum that expires when the level is full loses the process.
* `DuplicatePid`: a preemption queues a second PCB with its victim's pid.
* `ShutdownHang`: one Ctrl-C may leave the program hanging, in CLOCK mode with one timer,
  although all threads return to their waits in time (`Patient`).

Other disagreements that the models show, or that were met while writing them,
without a run of their own:

* with no timer (`-t 0`) in CLOCK mode the clock waits for ever for the confirmation
  of its first tick (`clock.c:80`), although comments say that the timers of this mode
  "won't affect execution" (`kernel.c:402`) and that none are needed (`kernel.c:460`);
  `SyncTicks` with `Timers = {}` shows it;
* the frames and the page table of a process are never given back, neither when it
  completes (`process.c:620`, against `docs/MEMORIA.md:357-359` and
  `docs/ARQUITECTURA.md:180`) nor when its load fails; `FramesAccounted` says exactly
  what stays behind;
* programs of more than 100 words of code, which `prometheus` writes on request, are
  cut short by their TTL (`loader.c:131`); `TtlSuffices` has that as its condition;
* the page number of an address is not compared with the size of the table
  (`memory.c:200`): a stray address goes through the next process's table, and a
  fault reads or writes word 0 of memory;
* on a machine of more than one thread a process may execute beside which a more urgent
  one waits, although `docs/SCHEDULER.md:151-152` has it preempted and line 169 says
  "Prioridad -20 siempre se ejecuta primero".  Of two arrivals in one pass the first
  preempts, which makes room, so that the second does not (`process.c:721`); the first
  takes the room, the second is queued, and another thread may go on with a less urgent
  process.  `PriorityRespected` as an invariant of `SchedPreempt` shows it; on one
  hardware thread it cannot happen (`PriorityKept`);
* the shift of the BFS removal overlaps the front of a ring that is more than
  about half full (`process.c:380`), and then doubles one process and loses another;
* a process executes beyond its TTL while the scheduler is late, or has left its
  loop (`clock.c:66`, against `docs/ARQUITECTURA.md`);
* in TIMER mode every pass expires the quantum (`process.c:647`), and the interval
  of timer 0 is the quantum (`kernel.c:427`), although `docs/SCHEDULER.md` calls
  it independent;
* processes that execute at the shutdown are never freed (`kernel.c:178`);
* without `Patient` the clock can broadcast a tick before a timer waits for it
  (`timer.c:15`) and then wait for ever for its confirmation;
* in TIMER mode `stop_scheduler` (`process.c:893`) does not wake a scheduler that is
  about to wait on `sched_cond`;
* a second Ctrl-C while the cleanup holds `clk_mutex` (`process.c:891-894`,
  `kernel.c:138-140`, `timer.c:79-82`), or a first one while `main` holds it in the
  set-up (`kernel.c:365`, `kernel.c:379`), makes the main thread wait for itself
  (`kernel.c:227`), and after `destroy_scheduler` the handler reads freed memory
  (`kernel.c:232`), although `kernel.c:221` says "clean up and exit successfully";
* `docs/SCHEDULER.md:109-110` computes the deadline of BFS when a process is created and
  keeps the queue sorted by it; the code computes it at the first dispatch
  (`process.c:743-751`) and again at each expiry, and scans an unsorted ring
  (`process.c:356-373`).

**Bounds.**  `StartTicks` are the ticks that the clock, which runs from `kernel.c:341` on,
may have counted when the scheduler starts; `MaxTick` stops the clock; `MaxMissed` limits
ticks without a pass in CLOCK mode; `InterruptTicks` the ticks at which SIGINT may come (all, the first,
or the last, where it also keeps the bounded model from deadlocking);
`MaxSigints`, `MaxElements`, `MaxFiles` and `Clones` are what they say.  Symmetry over the
programs is used in safety runs only; nothing orders the programs.

**Fairness.**  `FairSpec` of `Scheduler` gives every thread weak fairness.  The
scheduler's wakeup in CLOCK mode needs strong fairness, because the tick counter
may change under it: the clock sleeps a whole period without the mutex
(`clock.c:27`), which is when the awakened scheduler gets it.  The same holds of
timer 0.  `FairSpec` of `ClockSync` is weak fairness of each thread.  Neither
assumes that SIGINT comes.

## Proofs

The theorems hold for all values of the constants that satisfy the named assumptions
of the modules (`SizeAssumption`, `ModeAssumption`, `PcbAssumption`, `ShapeAssumption`
and `AdmissionAssumption` of `Scheduler`, `RingAssumption`, `SyncAssumption`, and those
of `Loader`, `PhysicalMemory`, `Instructions` and `Execution`), which TLC evaluates on
its instances.  What a theorem assumes beyond them stands in its statement.

**Scheduler.**  Under `RoomyQueue`, which most of them assume, the policy is RR, or BFS
with twice the number of programs less than the capacity plus 3.  With PRIO
some of the conclusions fail (`LostRequeue`, `DuplicatePid`): levels are smaller than
the queue, and a preemption shifts only one of the two arrays.  What PRIO does keep has
an invariant and theorems of its own in `SchedulerPriority`.

* `TypeCorrect` (`SchedulerSafety`): `Spec => []TypeOK`, for all policies.  `TypeOK` is
  inductive as it stands; it contains the bounds that matter (no core counts more
  processes than it has threads, and `cursor.k` is a valid index, which holds because the
  scan counts down from the number of processes).  There is a lemma for each
  group of actions; those about dispatch need that `FirstRoom`, `TopLevel` and
  `Victim`, which are defined by CHOOSE, exist, for which the integers' least
  elements are found by induction in `QueuesProofs`.
* `OnePlace`, `NothingLost`, `NothingDangles`: `AtMostOnePlace`,
  `NeverLost` and `NoDanglingPcb`, none of which is inductive.  `HeldOnce`
  (`SchedulerSafety`) is: the queue
  holds each program at most once (`QueueOnce`); the first `current_pcb_count` threads of
  a core are the loaded ones and hold different PCBs (`ThreadsOnce`), without which a
  shift could drop or double one; queue, threads and freed PCBs have none in common
  (`Apart`); and together they are all programs (`Covered`).  The
  step that matters is the expiry of a quantum: the queue and the process to be appended
  are distinct programs, so there is room (`DistinctFits`, by the injection theorem for
  finite sets).
* `OnePlace` and `NothingDangles` (`SchedulerPriority`) hold under PRIO too, by another
  invariant.  A preemption appends a clone of its victim to a level and shifts the copies of
  the core, not the threads: the core counts one process less than its threads hold, and
  nothing but the count says that the last thread is to be given away.  `HeldByPriority`
  says what saves it.  In `Overhang` all threads of the machine are loaded and only one core
  counts one less, which ends in the same pass, because the clone waits in a level and the
  next dispatch overwrites the last thread of that core; SIGINT may end the pass before, and
  then no scan follows that would rely on the count.  `LevelsOnce` and `WaitsApart` say that
  no PCB waits twice, nor while it executes, nor when it is freed, and `PidsGiven` that the
  clone of a preemption is not in use already.
* `UrgentExecutes`: `MostUrgentExecutes` on every machine.  The copies before the last of a
  core may be stale, which `LastCopied` excludes for the last one of a full core.
  `UrgentServed` says that
  the last process of some core is no less urgent than all that wait, or that a pass is going
  on with room for one that is: an arrival that finds the machine full and waits is
  compared with the least urgent copy, which is not more urgent than that last one, and
  what a preemption queues is less urgent than what arrives.  The dispatch takes the most
  urgent level first.
* `PriorityKept`: with one core of one thread the process that executes is that one, so
  `PriorityRespected` follows.
* `NotStranded`: `ArrivalsNotStranded` under every policy.  While arrivals wait behind a full
  level, that level holds at least as many processes as there are free places
  (`FullBehind`), and each dispatch takes one place and at most one of these processes.
* `CopiesMirror`, `TtlExact` (`SchedulerWork`): `CopiesMirrorThreads` and `TtlCountsWork`.
  `Worked` is what is inductive: a program's PCB keeps its pid, the copies of a core stand
  beside the threads in the same order, and TTL and executed instructions add up to the
  initial TTL, for a loaded process with the PC of its thread and for any other with that
  of its PCB.  `RemoveMoves` says for both arrays where a shift takes what stood at an
  index; an expiry saves the one PC where a dispatch will find it.
* `QuantumGranted` (in CLOCK mode): a quantum expires after that many instructions.  It
  needs a relation between the clock, the thread and the pass.  The quantum counter
  counts passes, and a pass begins only when the tick has changed, so `Served` says that a
  loaded process has executed at least as many instructions since its dispatch as its
  counter shows, and one more between a tick and the scan's next visit.
* `SpentAreTaken`: `SpentLeaves` in both modes.  `Weeded` says that whatever waits has time
  left, and that during a pass whatever is on a thread that the scan has been at has, too
  (`Visited`); a removal moves visited threads to places that count as visited
  (`RemoveVisits`), and a tick cannot come in between.
* `NoSentinelQueued`, `DeadlinesFirst` (in CLOCK mode, under `NoWrap`): `DeadlinesUnambiguous`
  and `EarliestDeadlineFirst`.  `Timely` adds that nothing has executed more instructions
  than there were ticks; a requeued process has executed at least a quantum, whence
  its deadline, the tick plus an offset that is at least minus a fifth of the quantum, is
  above 0.  `BfsIndex` is a
  recursive function with an accumulator; its values are given in closed form by `FirstMin`
  (`QueuesProofs`), the first least element so far, and `BfsIndexIsLeast` concludes that the
  scan ends at a least deadline if none is -1.  `NoWrap` says that
  the clock stops before its counter wraps: a deadline computed before the wrap is not
  comparable with one computed after it.
* `RefinesLifecycle` (`SchedulerRefinement`): `Spec => ImplementsLifecycle`.  `Seen` restates
  the mapping place by place, so that no CHOOSE remains, and there is a lemma for each
  kind of step: a dispatch is a start, an expiry a suspension, a tick executes one
  instruction of every loaded process that has not ended (`TickExecutesSome`), a completion
  is an end, which the lifecycle permits only when the work is done, and the cleanup
  discards what waits.  `PausesOpen` ties `running` to the main thread.

**Queues.**

* `BfsRemoveIsDropAt` (`QueuesProofs`): the BFS removal takes out the selected
  element and nothing else if `2 * size < capacity + 3`; it is where `RoomyQueue` is used.
* `RingTyped`, `RingCounters`, `RingReadsFilled` (`RingQueueProofs`): the three invariants
  of `RingQueue` for every capacity.  They are inductive together with the fact that `rear`
  is -1 only before the first enqueue.
* `RemovalIsBfsRemove`: the shift loop computes `BfsRemove`, the closed form that `Scheduler`
  uses, for every capacity, occupation, front and position.  The loop is a recursive
  function over the array.  Its closed form is stated as an explicit function; the first
  iteration at which the two would differ (`LeastNat`) leads to a contradiction, which is
  how an induction is done here without the library's induction theorems.
* `RefinesBoundedQueue`: `ImplementsBoundedQueue` for every capacity.

**ClockSync.**

* `SyncTypeCorrect`, `ThreadsEndFirst`, `CallbacksDecidedBefore`: `TypeOK`,
  `NoThreadOutlivesMain` and `NoNewCallback` for any number of timers, both modes and any
  number of SIGINTs in any thread.  `NoThreadOutlivesMain` is not
  inductive; `ShutdownOrder` adds what has ended at each point of the cleanup, and that
  `running` never rises again.  `WakeTimers` is the step on which the mutex depends: it
  locks it, so that the cleanup gets past it only if neither the cancelled clock nor an
  interrupted thread has kept it.
* `SelfLockOnlyBySecond`: `SelfLockNeedsTwo`.  `LockOrder` adds that `running` has fallen
  only after a signal, and that a thread that waits for itself keeps the mutex, so that a
  main thread interrupted in the set-up never gets further.  After the set-up a main
  thread that is still up is in no critical section, and no other thread gets a signal
  before the main thread is in the handler.
* `IntervalsKept`: `IntervalsExact` if `Patient`.  `IntervalOrder` says that while the
  program runs a timer that has reached its interval has been woken for it, and that when the
  clock asks for the mutex everybody else is back in a wait, hence no timer is late.

**Loader and Execution** (`ExecutionProofs`).

* `ExecutionTyped`, `FramesBooked`: `TypeOK` and `FramesAccounted` for every memory,
  number of threads and directory, as long as the programs keep inside their words:
  `Spec /\ []KeepsInside => ...`.  The hypothesis is needed because the MMU has no limit to
  compare a page number with and a fault leads to word 0, the first entry of the first
  page table: a store to such an address overwrites an entry, and what a frame
  belongs to is then up to the program.  `WellWrittenKeepInside`, below, gives it for files
  that are well written.
* `Sound` is inductive relative to it.  `LaidOut`: tables lie one after the other
  and are as long as their program.  `Booked`: the entries that are present name frames of
  user space that are in use, different ones, and all of them.  `Filling`: of
  the table that the loader fills, exactly the entries before the page of the loop are
  present.  `Settled`: an admitted process has all its pages and is in one place, on a
  thread with its own page table or in the queue.  A store needs them together: the word
  it writes is in a frame of user space (`Translation`), hence changes no entry, and the
  bits that the MMU sets are above the frame and the present bit (`TouchedKeeps`).
* `FaithfulAlways`: the words that the loader has copied so far are those of the program,
  each at its place (`Home`), which no other word of any process shares (`Homes`) and at
  which the MMU finds it by any of its bytes (`ReadsHome`).
* `RefinesPrivateMachine`: `Aligned` gives `Spec /\ []KeepsInside => ImplementsPrivateMachine`.
  Each process sees the machine that it would have alone, whichever threads run it, whatever
  they ran before and whatever the other processes store.  `View` restates the mapping
  through `Home`.  The loader, a dispatch, an expiry and the shift
  that goes with it are stutters, because a process is in one place, which holds its
  registers (`Contexts`); an admission is the start of a machine with the program's words
  (`LinkedIsInitial`); an instruction changes the view of its process as the private machine
  does (`GoesOnExecutes`, `StopHalts`), and a store no view but that (`StoredWords`).
  `Aligned` says that a page divides the address space and that `.data` follows the code,
  as it does whenever both sections begin at whole words, because the loader takes the code's
  size from their distance (`loader.c:111`): the view has one row of words, the process two
  segments.  The 4096 bytes and 24 bits of `memory.h` and every program of `prometheus`
  satisfy it;
  TLC evaluates it on the files of `Programs` (`FilesAligned`).
* `WellWrittenKeepInside`: `Aligned` and `WellWritten` give `Spec => []KeepsInside`.
  `WellWritten` is about files, not runs: each has an end, a word that is no LD, ST or ADD
  (an EXIT, or a bad opcode), and the words up to it load only words of the file and store
  only behind it.  `Tame` is inductive with `Sound` and `Faithful` (`Orderly`): a process is
  at or before its end, and its words up to there are still those of its file.  There are no
  jumps, so the PC counts the instructions executed.  No process keeps inside by itself, since
  a store of another might change its code; `KeepsInside`, `Tame` and the refinement of the
  private machine therefore hold by one induction, each for a step as long as the others held
  before it.
* `ProgramsComputeSums`: `Aligned`, more than one register and `[]KeepsInside` give
  `[]ComputesItsSums`.  The invariant `Summing` says how far a process is: `q` blocks are done
  and `r` instructions of the next, its variables are `AfterBlocks[q]`, its code is untouched,
  and the registers hold what these `r` instructions loaded and added.  It is proved of the
  view, so that one private instruction is all there is to consider.  `AfterBlocks` is a
  recursive function; a least-number argument gives its equation (`BlocksAfter`).  With one
  register the second load would overwrite the first, and the sums would be wrong.
* `TtlIsEnough`: `Aligned`, `EndsInTime` and `[]KeepsInside` give `TtlSuffices`.  `Budgeted`
  says that TTL left and instructions executed are at least the initial TTL, which a switch
  might break by resuming at an older PC; `InTime` that the end lies before that TTL.  So a
  TTL that reaches 0 finds the process at its end.
* `PrometheusRuns`: if every file that can be loaded is one of `prometheus` (`OnlyPrometheus`),
  all of this holds of `Spec` without a hypothesis about the runs.  `PrometheusFiles` derives
  `Aligned`, `WellWritten` and `EndsInTime` from the generator's arithmetic, for every number
  of blocks and every draw: the variables lie behind the EXIT, and code of at most `MaxTtl`
  words ends within its TTL.

Only model-checked:

* liveness (`AllComplete` and what `ShutdownAccounted`, `SchedulerStops`,
  `ClockKeepsTicking` and `SchedulerKeepsUp` say leads to what): TLAPS 1.4.5 proves neither
  liveness under fairness nor ENABLED;
* `ExpiryGrantsQuantum` has no theorem for TIMER mode, where it is not promised, and the
  deadlines none beyond the wrap of the counter.

## Not modelled

* The process generator: `kernel.c` never creates one.
* Functions without a caller: `free_frame`, `destroy_page_table`,
  `remove_process_from_core`, `reset_pcb_ttl`.  (The shift of
  `remove_process_from_core`, which forgets the registers, serves as a mutant.)
* The TLB, the instruction register and the entry point, which nothing reads.
* Option parsing, messages, `main`'s error exits, and `malloc` returning NULL.
* The text of `.elf` files: lines, comments and hexadecimal digits are abstracted to
  words.  A `.data` beyond the words read (`loader.c:113`) is undefined behaviour.
* Programs whose addresses leave their pages, see above: no document says what they
  should do.
* In `Execution`, the PCBs that a priority preemption clones: `Scheduler` has them.
* The compiled `heracles` and the shell scripts under `programs/`.

## Plan

Done: every component but those named under "Not modelled", the runs above, and the
theorems above.

Next, in this order:

1. What a lost process leaves behind under PRIO: a bound on how many expiries can find
   their level full, in the manner of `NothingLost`.
2. Safety of `ClockSync` that leads to its liveness: which threads may hold the shutdown up,
   as an invariant for every number of timers.
3. Liveness in TIMER mode, by TLC.
