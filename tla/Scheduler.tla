----------------------------- MODULE Scheduler -----------------------------
(***************************************************************************)
(* The process scheduler of the locOS simulator (process.c), with the      *)
(* parts of machine.c it drives, the tick handler of clock.c, the timer    *)
(* that activates it (timer.c, kernel.c) and the shutdown of kernel.c.     *)
(*                                                                         *)
(* A pass of scheduler_function holds clk_mutex from the moment the thread *)
(* wakes up to the end of its loop body.  Every iteration of its loops is  *)
(* one step here, because the SIGINT handler clears `running' without the  *)
(* mutex and each of the loops reads it again.  The tick of the clock runs *)
(* under the same mutex and is one step.  How the threads wait on the      *)
(* condition variables is the subject of ClockSync.                        *)
(***************************************************************************)
EXTENDS Integers, Sequences, FiniteSets, Queues

CONSTANTS
    Programs,       \* the PCBs the loader created (and the page tables they own)
    Clones,         \* PCBs that create_pcb may still return: a bound on preemptions
    NoPcb,          \* the NULL pointer
    NumCores,       \* num_CPUs * num_cores, in the order of the nested loops
    NumThreads,     \* num_kernel_threads of a core
    Quantum,        \* -q
    Policy,         \* -policy: "RR", "BFS" or "PRIO"
    SyncMode,       \* -sync: "CLOCK" or "TIMER"
    ReadyCapacity,  \* -qsize
    Levels,         \* the priorities in use
    Shapes,         \* what a program may look like, see ShapeAssumption
    StartTicks,     \* bound: the ticks there may have been when the scheduler starts
    TickModulus,    \* the counter of ticks wraps here (2^32 in the program)
    MaxTick,        \* bound: the model stops the clock at this tick
    MaxMissed,      \* bound: ticks in a row without a pass (CLOCK mode)
    InterruptTicks  \* bound: the ticks at which SIGINT may arrive

Pcbs  == Programs \cup Clones
Cores == 1 .. NumCores
Slots == 1 .. NumThreads

MIN_PRIORITY == -20
MAX_PRIORITY == 19

\* The loader derives a program's time to live from the size of its code.
InitialTtl(code_size) ==
    LET estimated == 3 * code_size
    IN  IF estimated < 10 THEN 10 ELSE IF estimated > 100 THEN 100 ELSE estimated

ASSUME SizeAssumption ==
    /\ NumCores \in Nat \ {0} /\ NumThreads \in Nat \ {0}
    /\ Quantum \in Nat \ {0} /\ ReadyCapacity \in Nat \ {0}
    /\ TickModulus \in Nat \ {0} /\ StartTicks \subseteq 0 .. TickModulus - 1
    /\ MaxTick \in Nat /\ MaxMissed \in Nat
ASSUME ModeAssumption ==
    /\ Policy \in {"RR", "BFS", "PRIO"} /\ SyncMode \in {"CLOCK", "TIMER"}
ASSUME PcbAssumption ==
    /\ Programs \cap Clones = {} /\ NoPcb \notin Pcbs
    /\ IsFiniteSet(Programs) /\ IsFiniteSet(Clones)
    /\ Levels \subseteq MIN_PRIORITY .. MAX_PRIORITY
\* A program executes halt_at ordinary instructions and then meets `op'.
ASSUME ShapeAssumption ==
    Shapes \subseteq [code_size : Nat, halt_at : Nat, op : {"EXIT", "UNKNOWN"}]
\* kernel.c destroys the PCBs that do not fit in the ready queue.
ASSUME AdmissionAssumption == Cardinality(Programs) <= ReadyCapacity

VARIABLES
    clk_counter,     \* ticks so far
    running,         \* the global flag that SIGINT clears
    program,         \* what the page table of each program maps
    pcb,             \* the heap of PCBs
    ready_queue,     \* of pointers to PCBs, front first
    priority_queues, \* one such queue for each level
    hw_threads,      \* [core][thread]: the loaded PCB and the program counter
    pcbs,            \* [core]: the "legacy" copies; its length is current_pcb_count
    total_completed,
    destroyed,       \* the PCBs given to free()
    sched,           \* where the scheduler thread is
    last_tick,       \* its last_tick (CLOCK mode)
    cursor,          \* its loop variables: the core and the thread k
    clock,           \* where the clock thread is
    timer,           \* timer 0: where its thread is, and its last_tick
    main             \* where the main thread is

queueVars   == <<ready_queue, priority_queues>>
machineVars == <<hw_threads, pcbs>>
countVars   == <<total_completed, destroyed>>
schedVars   == <<sched, last_tick, cursor>>
deviceVars  == <<clock, timer>>
vars == <<clk_counter, running, program, pcb, queueVars, machineVars,
          countVars, schedVars, deviceVars, main>>

Idle == [pcb |-> NoPcb, PC |-> 0]

----------------------------------------------------------------------------
(* Queues, threads and priorities.                                         *)

LevelCapacity ==
    IF ReadyCapacity \div 40 < 2 THEN 2 ELSE ReadyCapacity \div 40

\* Mutant of ShiftThreads: `Clear the last one' is forgotten.
ShiftWithoutClearing(row, k, n) ==
    [j \in Slots |-> IF k <= j /\ j < n THEN row[j + 1] ELSE row[j]]

\* The shift loop on a core's n occupied hardware threads, the last one cleared.
ShiftThreads(row, k, n) ==
    [j \in Slots |-> IF j = n THEN Idle ELSE IF k <= j /\ j < n THEN row[j + 1] ELSE row[j]]

current_pcb_count(c) == Len(pcbs[c])

\* Mutant of RoomyCores: `<=' instead of `<'.
RoomyWhenFull == {c \in Cores : current_pcb_count(c) <= NumThreads}

RoomyCores == {c \in Cores : current_pcb_count(c) < NumThreads}
can_cpu_execute_process == RoomyCores # {}
FirstRoom == CHOOSE c \in RoomyCores : \A d \in RoomyCores : c <= d

ReadyLevels == {v \in Levels : priority_queues[v] # <<>>}

TopLevel == CHOOSE v \in ReadyLevels : \A w \in ReadyLevels : v <= w

has_ready_processes ==
    IF Policy = "PRIO" THEN ReadyLevels # {} ELSE ready_queue # <<>>

\* C division truncates towards zero.
BfsOffset(priority) ==
    IF priority >= 0 THEN (Quantum * priority) \div 100
                     ELSE -((Quantum * (-priority)) \div 100)

Deadline(p) == clk_counter + BfsOffset(pcb[p].priority)

\* Mutant of BfsIndex: the front is taken, as round robin does.
FrontIndex == IF ready_queue = <<>> THEN 0 ELSE 1

\* The scan for the minimum, in which the value -1 also means "none so far".
BfsIndex ==
    LET deadline(i) == pcb[ready_queue[i]].virtual_deadline
        best[i \in 0 .. Len(ready_queue)] ==
            IF i = 0 THEN [deadline |-> -1, at |-> 0]
            ELSE IF best[i - 1].deadline = -1 \/ deadline(i) < best[i - 1].deadline
                 THEN [deadline |-> deadline(i), at |-> i]
                 ELSE best[i - 1]
    IN  best[Len(ready_queue)].at

----------------------------------------------------------------------------
(* Initially the programs are loaded and the scheduler has just started.  The *)
(* clock has ticked since before, and timer 0 may have looked at it already. *)

Orders == {q \in [1 .. Cardinality(Programs) -> Programs] :
             \A i, j \in DOMAIN q : q[i] = q[j] => i = j}

NewPcb(p) == [pid |-> p, state |-> "WAITING", priority |-> 0, ttl |-> 0,
              quantum_counter |-> 0, virtual_deadline |-> 0, pc |-> 0, pgb |-> NoPcb]

Loaded(p, priority) ==
    [NewPcb(p) EXCEPT !.priority = priority, !.pgb = p,
                      !.ttl = InitialTtl(program[p].code_size)]

Init ==
    /\ clk_counter \in StartTicks
    /\ running = TRUE
    /\ program \in [Programs -> Shapes]
    /\ \E priority \in [Programs -> Levels] :
          pcb = [p \in Pcbs |-> IF p \in Programs THEN Loaded(p, priority[p]) ELSE NewPcb(p)]
    /\ ready_queue \in Orders
    /\ priority_queues = [v \in Levels |-> <<>>]
    /\ hw_threads = [c \in Cores |-> [k \in Slots |-> Idle]]
    /\ pcbs = [c \in Cores |-> <<>>]
    /\ total_completed = 0 /\ destroyed = {}
    /\ sched = "wait" /\ last_tick = 0 /\ cursor = [core |-> 1, k |-> 0]
    /\ clock = "sleep"
    /\ IF SyncMode = "TIMER"
       THEN timer \in [at : {"wait"}, last : {t \in StartTicks : t <= clk_counter}]
       ELSE timer = [at |-> "stopped", last |-> 0]
    /\ main = "pause"

\* clk_mutex is held by the scheduler during a pass and by nobody between steps.
MutexFree == sched \notin {"scan", "transfer", "dispatch"}

----------------------------------------------------------------------------
(* The clock thread.                                                       *)

IsLoaded(p) == \E c \in Cores, k \in Slots : hw_threads[c][k].pcb = p
ThreadOf(p) == CHOOSE h \in {hw_threads[c][k] : c \in Cores, k \in Slots} : h.pcb = p

\* execute_instruction_cycle returns at once for a terminated or unmapped process.
Executes(p) == pcb[p].state # "TERMINATED" /\ pcb[p].pgb # NoPcb
AtHalt(p, PC) == PC = program[pcb[p].pgb].halt_at

TickedThread(h) ==
    IF h.pcb # NoPcb /\ Executes(h.pcb) /\ ~AtHalt(h.pcb, h.PC)
    THEN [h EXCEPT !.PC = h.PC + 1] ELSE h

TickedPcb(p) ==
    LET ttl   == IF pcb[p].ttl > 0 THEN pcb[p].ttl - 1 ELSE pcb[p].ttl
        halts == Executes(p) /\ AtHalt(p, ThreadOf(p).PC)
        exits == halts /\ program[pcb[p].pgb].op = "EXIT"
    IN  [pcb[p] EXCEPT !.ttl   = IF exits THEN 0 ELSE ttl,
                       !.state = IF halts THEN "TERMINATED" ELSE pcb[p].state]

WokenTimer == IF timer.at = "wait" THEN [timer EXCEPT !.at = "woken"] ELSE timer

\* After each period the clock checks `running' before it asks for the mutex: a
\* tick may still follow a SIGINT, once, and then the clock stops.
ClockStops ==
    /\ clock = "sleep" /\ ~running
    /\ clock' = "stopped"
    /\ UNCHANGED <<clk_counter, running, program, pcb, queueVars, machineVars,
                   countVars, schedVars, timer, main>>

Tick ==
    /\ clock = "sleep" /\ MutexFree
    /\ clk_counter < MaxTick
    /\ SyncMode = "CLOCK" => (clk_counter - last_tick) % TickModulus <= MaxMissed
    /\ clk_counter' = (clk_counter + 1) % TickModulus
    /\ pcb' = [p \in Pcbs |-> IF IsLoaded(p) THEN TickedPcb(p) ELSE pcb[p]]
    /\ hw_threads' = [c \in Cores |-> [k \in Slots |-> TickedThread(hw_threads[c][k])]]
    /\ clock' = IF running THEN "sleep" ELSE "stopped"
    /\ timer' = WokenTimer
    /\ UNCHANGED <<running, program, queueVars, pcbs, countVars, schedVars, main>>

----------------------------------------------------------------------------
(* Timer 0, which activates the scheduler in TIMER mode.                   *)

TimerChecks ==
    /\ SyncMode = "TIMER" /\ timer.at = "woken" /\ MutexFree
    /\ timer' = IF ~running THEN [timer EXCEPT !.at = "stopped"]
                ELSE IF clk_counter - timer.last >= Quantum
                     THEN [at |-> "callback", last |-> clk_counter]
                     ELSE [timer EXCEPT !.at = "wait"]
    /\ UNCHANGED <<clk_counter, running, program, pcb, queueVars, machineVars,
                   countVars, schedVars, clock, main>>

\* A signal on sched_cond wakes the scheduler if it waits there already, and is
\* lost if it has yet to: its loop has looked at the flags before.
SchedAfterSignal == {sched} \cup IF SyncMode = "TIMER" /\ sched = "wait" THEN {"woken"} ELSE {}

TimerCallback ==
    /\ timer.at = "callback"
    /\ timer' = [timer EXCEPT !.at = IF running THEN "wait" ELSE "stopped"]
    /\ sched' \in SchedAfterSignal
    /\ UNCHANGED <<clk_counter, running, program, pcb, queueVars, machineVars,
                   countVars, last_tick, cursor, clock, main>>

----------------------------------------------------------------------------
(* The scheduler thread: waking up.                                        *)

StartPass ==
    /\ sched' = "scan"
    /\ cursor' = [core |-> 1, k |-> current_pcb_count(1)]

\* Mutant of WakeOnTick: the loop waits for a later tick, not for another one,
\* and never sees one once the counter has wrapped.
WakeOnLaterTick ==
    /\ SyncMode = "CLOCK" /\ sched = "wait" /\ running
    /\ clk_counter > last_tick
    /\ last_tick' = clk_counter
    /\ StartPass
    /\ UNCHANGED <<clk_counter, running, program, pcb, queueVars, machineVars,
                   countVars, deviceVars, main>>

\* The predicate loop of CLOCK mode: ticks that pass meanwhile count as one.
WakeOnTick ==
    /\ SyncMode = "CLOCK" /\ sched = "wait" /\ running
    /\ clk_counter # last_tick
    /\ last_tick' = clk_counter
    /\ StartPass
    /\ UNCHANGED <<clk_counter, running, program, pcb, queueVars, machineVars,
                   countVars, deviceVars, main>>

WakeOnTimer ==
    /\ SyncMode = "TIMER" /\ sched = "woken" /\ running
    /\ StartPass
    /\ UNCHANGED <<clk_counter, running, program, pcb, queueVars, machineVars,
                   countVars, last_tick, deviceVars, main>>

\* Mutant of StopWaiting: the thread goes back to wait instead of leaving.
WaitOn ==
    /\ ~running
    /\ sched = IF SyncMode = "CLOCK" THEN "wait" ELSE "woken"
    /\ UNCHANGED vars

StopWaiting ==
    /\ ~running
    /\ sched = IF SyncMode = "CLOCK" THEN "wait" ELSE "woken"
    /\ sched' = "stopped"
    /\ UNCHANGED <<clk_counter, running, program, pcb, queueVars, machineVars,
                   countVars, last_tick, cursor, deviceVars, main>>

----------------------------------------------------------------------------
(* The pass, first stage: completion and quantum of the executing processes. *)

\* The loop body at hardware thread k of core c, with the PCB it finds there;
\* `if (!pcb) continue' is never taken (CopiesMirrorThreads).
Visits(c, k, p) ==
    /\ sched = "scan" /\ running
    /\ c = cursor.core /\ c \in Cores /\ k = cursor.k /\ k \in 1 .. current_pcb_count(c)
    /\ p = hw_threads[c][k].pcb /\ p \in Pcbs

\* Mutant of HasCompleted: the last unit of the TTL is not granted.
CompletedOneEarly(p) == pcb[p].state = "TERMINATED" \/ pcb[p].ttl <= 1

\* Mutant of HasCompleted: a TTL of 0 is taken for time that is left.
CompletedOneLate(p) == pcb[p].state = "TERMINATED" \/ pcb[p].ttl < 0

HasCompleted(p) == pcb[p].state = "TERMINATED" \/ pcb[p].ttl <= 0

\* Mutant of QuantumExpired: the increment is counted twice.
ExpiresEarly(p) ==
    pcb[p].quantum_counter + 2 >= IF SyncMode = "TIMER" THEN 1 ELSE Quantum

\* The quantum counter has just been incremented; a timer pass always expires it.
QuantumExpired(p) ==
    pcb[p].quantum_counter + 1 >= IF SyncMode = "TIMER" THEN 1 ELSE Quantum

RemoveFromCore(c, k) ==
    /\ hw_threads' = [hw_threads EXCEPT ![c] = ShiftThreads(@, k, current_pcb_count(c))]
    /\ pcbs' = [pcbs EXCEPT ![c] = DropAt(@, k)]
    /\ cursor' = [cursor EXCEPT !.k = k - 1]

CompleteProcess(c, k, p) ==
    /\ Visits(c, k, p) /\ HasCompleted(p)
    /\ total_completed' = total_completed + 1
    /\ destroyed' = destroyed \cup {p}
    /\ pcb' = [pcb EXCEPT ![p].quantum_counter = @ + 1, ![p].pgb = NoPcb]
    /\ RemoveFromCore(c, k)
    /\ UNCHANGED <<clk_counter, running, program, queueVars, sched, last_tick,
                   deviceVars, main>>

\* enqueue_to_scheduler, whose result the scan and the preemption ignore.
EnqueueToScheduler(p, priority) ==
    IF Policy = "PRIO"
    THEN /\ priority_queues' = [priority_queues EXCEPT
                ![priority] = Enqueued(@, p, LevelCapacity)]
         /\ UNCHANGED ready_queue
    ELSE /\ ready_queue' = Enqueued(ready_queue, p, ReadyCapacity)
         /\ UNCHANGED priority_queues

\* Mutant of SavedPcb: the context of the thread is not saved.
SavedWithoutContext(p, PC) ==
    [pcb[p] EXCEPT !.state = "WAITING", !.quantum_counter = 0,
                   !.virtual_deadline = IF Policy = "BFS" THEN Deadline(p) ELSE @]

\* Mutant of SavedPcb: the deadline given at the first dispatch is kept.
SavedWithOldDeadline(p, PC) ==
    [pcb[p] EXCEPT !.pc = PC, !.state = "WAITING", !.quantum_counter = 0]

SavedPcb(p, PC) ==
    [pcb[p] EXCEPT !.pc = PC, !.state = "WAITING", !.quantum_counter = 0,
                   !.virtual_deadline = IF Policy = "BFS" THEN Deadline(p) ELSE @]

ExpireQuantum(c, k, p) ==
    /\ Visits(c, k, p) /\ ~HasCompleted(p) /\ QuantumExpired(p)
    /\ pcb' = [pcb EXCEPT ![p] = SavedPcb(p, hw_threads[c][k].PC)]
    /\ EnqueueToScheduler(p, pcb[p].priority)
    /\ RemoveFromCore(c, k)
    /\ timer' = IF Policy = "PRIO" THEN WokenTimer ELSE timer
    /\ UNCHANGED <<clk_counter, running, program, countVars, sched, last_tick,
                   clock, main>>

KeepExecuting(c, k, p) ==
    /\ Visits(c, k, p) /\ ~HasCompleted(p) /\ ~QuantumExpired(p)
    /\ pcb' = [pcb EXCEPT ![p].quantum_counter = @ + 1]
    /\ cursor' = [cursor EXCEPT !.k = k - 1]
    /\ UNCHANGED <<clk_counter, running, program, queueVars, machineVars, countVars,
                   sched, last_tick, deviceVars, main>>

NextCore ==
    /\ sched = "scan" /\ running
    /\ cursor.core < NumCores /\ cursor.k = 0
    /\ cursor' = [core |-> cursor.core + 1, k |-> current_pcb_count(cursor.core + 1)]
    /\ UNCHANGED <<clk_counter, running, program, pcb, queueVars, machineVars,
                   countVars, sched, last_tick, deviceVars, main>>

EndScan ==
    /\ sched = "scan"
    /\ running => cursor.core = NumCores /\ cursor.k = 0
    /\ sched' = IF Policy = "PRIO" THEN "transfer" ELSE "dispatch"
    /\ UNCHANGED <<clk_counter, running, program, pcb, queueVars, machineVars,
                   countVars, last_tick, cursor, deviceVars, main>>

----------------------------------------------------------------------------
(* Second stage (PRIO): arrivals move to the queue of their priority.      *)

\* get_lowest_priority_executing reads the copies made when the processes
\* were assigned, and keeps the first of the largest values it meets.
Copies == {h \in Cores \X Slots : h[2] <= current_pcb_count(h[1])}

Lowest == {h \in Copies : \A g \in Copies : pcbs[g[1]][g[2]].priority <= pcbs[h[1]][h[2]].priority}
Victim == CHOOSE h \in Lowest :
             \A g \in Lowest : h[1] < g[1] \/ (h[1] = g[1] /\ h[2] <= g[2])

\* Mutant of MustPreempt: a larger number is taken for more important.
PreemptsUpwards(p) ==
    /\ ~can_cpu_execute_process
    /\ Copies # {}
    /\ pcb[p].priority > pcbs[Victim[1]][Victim[2]].priority

MustPreempt(p) ==
    /\ ~can_cpu_execute_process
    /\ Copies # {}
    /\ pcb[p].priority < pcbs[Victim[1]][Victim[2]].priority

\* The PCB that preempt_lower_priority_processes creates for its victim.
CloneOf(copy) ==
    [NewPcb(copy.pid) EXCEPT !.priority = copy.priority, !.ttl = copy.ttl,
                             !.virtual_deadline = copy.virtual_deadline]

FreshClones == {f \in Clones : pcb[f].pid = f}

\* The arrival p, at the front of ready_queue, with the level queues as given.
Arrives(p, queues) ==
    LET level == pcb[p].priority
    IN  IF IsFull(queues[level], LevelCapacity)
        THEN /\ ready_queue' = Append(Tail(ready_queue), p)
             /\ priority_queues' = queues
             /\ sched' = "dispatch"
        ELSE /\ ready_queue' = Tail(ready_queue)
             /\ priority_queues' = [queues EXCEPT ![level] = Append(@, p)]
             /\ UNCHANGED sched

Transfers(p) ==
    /\ sched = "transfer" /\ running
    /\ ready_queue # <<>> /\ p = Head(ready_queue)

TransferArrival ==
    \E p \in Pcbs :
       /\ Transfers(p) /\ ~MustPreempt(p)
       /\ Arrives(p, priority_queues)
       /\ UNCHANGED <<clk_counter, running, program, pcb, machineVars, countVars,
                      last_tick, cursor, deviceVars, main>>

\* Only the copies are shifted: the hardware threads keep what they hold.
TransferPreempting ==
    \E p \in Pcbs, f \in FreshClones :
       LET c == Victim[1]
           k == Victim[2]
           v == pcbs[c][k].priority
       IN  /\ Transfers(p) /\ MustPreempt(p)
           /\ pcb' = [pcb EXCEPT ![f] = CloneOf(pcbs[c][k])]
           /\ Arrives(p, [priority_queues EXCEPT ![v] = Enqueued(@, f, LevelCapacity)])
           /\ pcbs' = [pcbs EXCEPT ![c] = DropAt(@, k)]
           /\ UNCHANGED <<clk_counter, running, program, hw_threads, countVars,
                          last_tick, cursor, deviceVars, main>>

EndTransfer ==
    /\ sched = "transfer" /\ (ready_queue = <<>> \/ ~running)
    /\ sched' = "dispatch"
    /\ UNCHANGED <<clk_counter, running, program, pcb, queueVars, machineVars,
                   countVars, last_tick, cursor, deviceVars, main>>

----------------------------------------------------------------------------
(* Third stage: free hardware threads are given to the selected processes. *)

CanDispatch == sched = "dispatch" /\ running /\ has_ready_processes /\ can_cpu_execute_process

\* assign_process_to_core: the first core with room, its first free thread.
AssignToCore(c, p, contents) ==
    /\ hw_threads' = [hw_threads EXCEPT
          ![c] = [@ EXCEPT ![current_pcb_count(c) + 1] = [pcb |-> p, PC |-> contents.pc]]]
    /\ pcbs' = [pcbs EXCEPT ![c] = Append(@, contents)]

Started(p) ==
    [pcb[p] EXCEPT !.state = "RUNNING", !.quantum_counter = 0,
                   !.virtual_deadline = IF Policy = "BFS" /\ @ = 0 THEN Deadline(p) ELSE @]

Dispatches(p) ==
    /\ pcb' = [pcb EXCEPT ![p] = Started(p)]
    /\ AssignToCore(FirstRoom, p, Started(p))
    /\ UNCHANGED <<clk_counter, running, program, countVars, schedVars, deviceVars, main>>

DispatchRoundRobin ==
    /\ Policy = "RR" /\ CanDispatch
    /\ ready_queue' = Tail(ready_queue)
    /\ UNCHANGED priority_queues
    /\ Dispatches(Head(ready_queue))

DispatchBFS ==
    /\ Policy = "BFS" /\ CanDispatch
    /\ \E i \in 1 .. Len(ready_queue) :
          /\ i = BfsIndex
          /\ ready_queue' = BfsRemove(ready_queue, i, ReadyCapacity)
          /\ UNCHANGED priority_queues
          /\ Dispatches(ready_queue[i])

DispatchPriority ==
    /\ Policy = "PRIO" /\ CanDispatch
    /\ priority_queues' = [priority_queues EXCEPT ![TopLevel] = Tail(@)]
    /\ UNCHANGED ready_queue
    /\ Dispatches(Head(priority_queues[TopLevel]))

\* The mutex is released and the loop condition decides whether to wait again.
EndPass ==
    /\ sched = "dispatch" /\ ~CanDispatch
    /\ sched' = IF running THEN "wait" ELSE "stopped"
    /\ UNCHANGED <<clk_counter, running, program, pcb, queueVars, machineVars,
                   countVars, last_tick, cursor, deviceVars, main>>

----------------------------------------------------------------------------
(* The main thread: one SIGINT and cleanup_system.  ClockSync has what makes *)
(* main miss the signal, what makes the cleanup hang, and further SIGINTs.   *)

Interrupt ==
    /\ main = "pause" /\ clk_counter \in InterruptTicks
    /\ running' = FALSE
    /\ main' = "handler"
    /\ UNCHANGED <<clk_counter, program, pcb, queueVars, machineVars, countVars,
                   schedVars, deviceVars>>

\* The broadcasts of handle_sigint.  main goes on, or sleeps in the pause() that
\* it had not entered when the signal came.
WakeEverybody ==
    /\ main = "handler" /\ MutexFree
    /\ main' \in {"stopping", "asleep"}
    /\ timer' = WokenTimer
    /\ sched' \in SchedAfterSignal
    /\ UNCHANGED <<clk_counter, running, program, pcb, queueVars, machineVars,
                   countVars, last_tick, cursor, clock>>

\* stop_scheduler joins the thread; destroy_scheduler empties the level queues.
DestroyScheduler ==
    /\ main = "stopping" /\ sched = "stopped"
    /\ destroyed' = destroyed \cup
          UNION {{priority_queues[v][i] : i \in DOMAIN priority_queues[v]} : v \in Levels}
    /\ priority_queues' = [v \in Levels |-> <<>>]
    /\ main' = "stop_clock"
    /\ UNCHANGED <<clk_counter, running, program, pcb, ready_queue, machineVars,
                   total_completed, schedVars, deviceVars>>

\* It hangs if the clock is cancelled with clk_mutex locked, or a timer is joined
\* that has missed its broadcast.
StopClockAndTimers ==
    /\ main = "stop_clock" /\ timer.at # "callback"
    /\ clock' = "stopped"
    /\ \/ main' = "clean_queue" /\ timer' = [timer EXCEPT !.at = "stopped"]
       \/ main' = "hung" /\ UNCHANGED timer
    /\ UNCHANGED <<clk_counter, running, program, pcb, queueVars, machineVars,
                   countVars, schedVars>>

\* The rest of cleanup_system; destroy_machine frees no PCB.
CleanReadyQueue ==
    /\ main = "clean_queue"
    /\ destroyed' = destroyed \cup {ready_queue[i] : i \in DOMAIN ready_queue}
    /\ ready_queue' = <<>>
    /\ main' = "exited"
    /\ UNCHANGED <<clk_counter, running, program, pcb, priority_queues, machineVars,
                   total_completed, schedVars, deviceVars>>

\* stop_scheduler joins a thread that waits for a signal nobody will send again.
SignalMissed ==
    SyncMode = "TIMER" /\ main = "stopping" /\ sched = "wait" /\ timer.at # "callback"

Halted == (main \in {"exited", "asleep", "hung"} \/ SignalMissed) /\ UNCHANGED vars

----------------------------------------------------------------------------
ScanStep == \E c \in Cores, k \in Slots, p \in Pcbs :
    CompleteProcess(c, k, p) \/ ExpireQuantum(c, k, p) \/ KeepExecuting(c, k, p)

SchedulerStep ==
    \/ StopWaiting
    \/ ScanStep \/ NextCore \/ EndScan
    \/ TransferArrival \/ TransferPreempting \/ EndTransfer
    \/ DispatchRoundRobin \/ DispatchBFS \/ DispatchPriority \/ EndPass

ClockStep == ClockStops \/ Tick
TimerStep == TimerChecks \/ TimerCallback

MainStep ==
    Interrupt \/ WakeEverybody \/ DestroyScheduler \/ StopClockAndTimers \/ CleanReadyQueue

Next == ClockStep \/ TimerStep \/ WakeOnTick \/ WakeOnTimer \/ SchedulerStep \/ MainStep \/ Halted

Spec == Init /\ [][Next]_vars

----------------------------------------------------------------------------
(* Properties.                                                             *)

PcbType ==
    [pid : Pcbs, state : {"WAITING", "RUNNING", "TERMINATED"},
     priority : MIN_PRIORITY .. MAX_PRIORITY, ttl : Nat, quantum_counter : Nat,
     virtual_deadline : Int, pc : Nat, pgb : Programs \cup {NoPcb}]

\* Every variable holds a value of the C type it stands for, the counts stay
\* within the arrays they index, and the scan never leaves the machine.
TypeOK ==
    /\ clk_counter \in 0 .. TickModulus - 1 /\ last_tick \in 0 .. TickModulus - 1
    /\ running \in BOOLEAN
    /\ program \in [Programs -> Shapes]
    /\ pcb \in [Pcbs -> PcbType]
    /\ ready_queue \in Seq(Pcbs)
    /\ priority_queues \in [Levels -> Seq(Pcbs)]
    /\ hw_threads \in [Cores -> [Slots -> [pcb : Pcbs \cup {NoPcb}, PC : Nat]]]
    /\ pcbs \in [Cores -> Seq(PcbType)]
    /\ \A c \in Cores : Len(pcbs[c]) <= NumThreads
    /\ total_completed \in Nat /\ destroyed \subseteq Pcbs
    /\ sched \in {"wait", "woken", "scan", "transfer", "dispatch", "stopped"}
    /\ cursor \in [core : Cores, k : 0 .. NumThreads]
    /\ clock \in {"sleep", "stopped"}
    /\ timer \in [at : {"wait", "woken", "callback", "stopped"}, last : 0 .. TickModulus - 1]
    /\ main \in {"pause", "handler", "asleep", "stopping", "stop_clock", "hung",
                 "clean_queue", "exited"}

\* The places that hold a pointer to p: queue positions and hardware threads.
ReadyPlaces(p) == {<<"ready", 0, i>> : i \in {i \in DOMAIN ready_queue : ready_queue[i] = p}}
LevelPlaces(p) ==
    UNION {{<<"level", v, i>> : i \in {i \in DOMAIN priority_queues[v] : priority_queues[v][i] = p}}
              : v \in Levels}
ThreadPlaces(p) ==
    UNION {{<<"thread", c, k>> : k \in {k \in Slots : hw_threads[c][k].pcb = p}} : c \in Cores}
Places(p) == ReadyPlaces(p) \cup LevelPlaces(p) \cup ThreadPlaces(p)

\* A process is never queued twice, nor queued while it executes, nor loaded
\* on two hardware threads: expiry, selection and dispatch move the pointer.
AtMostOnePlace == \A p \in Pcbs : \A x, y \in Places(p) : x = y

\* Until the shutdown starts to free things, a process that has not completed
\* is in some queue or on some hardware thread.
NeverLost ==
    main \in {"pause", "handler", "asleep", "stopping"} =>
        \A p \in Programs \ destroyed : Places(p) # {}

\* A freed PCB is in no queue and on no hardware thread, so that neither the
\* scheduler, the clock nor the cleanup can touch it or free it again.
NoDanglingPcb == \A p \in destroyed : Places(p) = {}

\* The first current_pcb_count hardware threads of a core are the loaded ones,
\* and the legacy copy beside each is a copy of the process that it runs: the
\* scan trusts the count, the preemption trusts the copies.
CopiesMirrorThreads ==
    \A c \in Cores, k \in Slots :
        IF k <= current_pcb_count(c)
        THEN /\ hw_threads[c][k].pcb # NoPcb
             /\ pcbs[c][k].pid = pcb[hw_threads[c][k].pcb].pid
        ELSE hw_threads[c][k].pcb = NoPcb

\* What a process has executed: on its thread if it is loaded, else as saved.
Executed(p) == IF IsLoaded(p) THEN ThreadOf(p).PC ELSE pcb[p].pc

\* The time to live of a process that has any left is what remains of its
\* initial value after one tick for each instruction executed: no context
\* switch loses or repeats work, and nothing else consumes the TTL.
TtlCountsWork ==
    \A p \in Programs \ destroyed :
        pcb[p].ttl > 0 /\ pcb[p].state # "TERMINATED" =>
            pcb[p].ttl + Executed(p) = InitialTtl(program[p].code_size)

\* Outside a pass some process executes that no process of the level queues
\* outranks, although the victim of a preemption is found among stale copies and
\* one preemption makes the room that keeps other arrivals from preempting.
MostUrgentExecutes ==
    Policy = "PRIO" /\ MutexFree /\ running /\ ReadyLevels # {} =>
        \E c \in Cores, k \in Slots :
            /\ hw_threads[c][k].pcb # NoPcb
            /\ \A v \in ReadyLevels : pcb[hw_threads[c][k].pcb].priority <= v

\* Outside a pass no process of the level queues outranks one that executes.  This
\* is so on a machine of one thread; on others two arrivals in one pass break it.
PriorityRespected ==
    Policy = "PRIO" /\ MutexFree /\ running =>
        \A v \in ReadyLevels, c \in Cores, k \in Slots :
            hw_threads[c][k].pcb # NoPcb => pcb[hw_threads[c][k].pcb].priority <= v

\* A queued process has no deadline yet, the value 0, exactly while it has
\* never executed, and no queued deadline is the -1 that BfsIndex gives a
\* second meaning, whatever negative offset the priorities produce.
DeadlinesUnambiguous ==
    Policy = "BFS" =>
        \A i \in DOMAIN ready_queue :
            LET p == pcb[ready_queue[i]]
            IN  IF p.pc = 0 THEN p.virtual_deadline = 0 ELSE p.virtual_deadline > 0

\* BFS hands a thread to a program only if no program left waiting, or lost
\* by the removal, had an earlier deadline.
EarliestDeadlineFirst ==
    [][\A p, q \in Programs :
          (Policy = "BFS" /\ ~IsLoaded(p) /\ IsLoaded(p)' /\ ~IsLoaded(q) /\ q \notin destroyed /\ ~IsLoaded(q)')
              => pcb[p].virtual_deadline <= pcb[q].virtual_deadline]_vars

\* A process whose quantum expires has executed a quantum of instructions
\* since it was dispatched, and its saved context shows it.
ExpiryGrantsQuantum ==
    [][\A p \in Programs :
          IsLoaded(p) /\ ~IsLoaded(p)' /\ p \notin destroyed'
              => pcb'[p].pc >= pcb[p].pc + Quantum]_vars

\* The clock goes on executing a process whose TTL is spent, or that has exited,
\* until a pass takes it off its thread, however many ticks the pass is late: no
\* pass that ends normally leaves one loaded, or loads one.
SpentLeaves ==
    [][sched = "dispatch" /\ sched' = "wait" =>
          \A c \in Cores, k \in Slots :
             LET p == hw_threads[c][k].pcb
             IN  p # NoPcb => pcb[p].ttl > 0 /\ pcb[p].state # "TERMINATED"]_vars

\* An arrival whose level is full goes back to ready_queue and ends the transfer.
\* It and those behind it wait for another pass, but not beside an idle thread,
\* as long as a level has as many places as the machine has threads: the pass
\* then finds processes for all of them in the level that was full.
ArrivalsNotStranded ==
    [][NumCores * NumThreads <= LevelCapacity /\ sched = "dispatch" /\ sched' = "wait"
          => ready_queue = <<>> \/ ~can_cpu_execute_process]_vars

\* A process identifier belongs to one process at a time.
PidsUnique ==
    \A p, q \in Pcbs \ destroyed :
        Places(p) # {} /\ Places(q) # {} /\ pcb[p].pid = pcb[q].pid => p = q

----------------------------------------------------------------------------
(* Liveness.                                                               *)

\* Every thread that can go on does.  The clock sleeps a full period between
\* two ticks without holding clk_mutex, which is when the scheduler, awake
\* after the broadcast of the tick, gets it: it may miss a tick now and then,
\* but not for ever.  Nothing forces SIGINT to arrive.  The mutex that makes main
\* hang may be what a timer needs.
FairSpec ==
    /\ Spec
    /\ WF_vars(ClockStep) /\ SF_vars(WakeOnTick)
    /\ WF_vars(WakeOnTimer) /\ WF_vars(SchedulerStep)
    /\ SF_vars(main # "hung" /\ TimerChecks) /\ WF_vars(TimerCallback)
    /\ WF_vars(WakeEverybody \/ DestroyScheduler \/ StopClockAndTimers \/ CleanReadyQueue)

Waits(p) ==
    \/ \E i \in DOMAIN ready_queue : ready_queue[i] = p
    \/ \E v \in Levels : \E i \in DOMAIN priority_queues[v] : priority_queues[v][i] = p

\* Every program completes, by its own EXIT or by its TTL, unless interrupted.
AllComplete == <>(Programs \subseteq destroyed \/ ~running)

\* After SIGINT the scheduler thread leaves its loops, wherever it was in its pass,
\* and the cleanup gets to its end, unless main sleeps in pause(), the cleanup hangs
\* on the clock or a timer, or, in TIMER mode, the scheduler has missed its signal.
ShutdownAccounted ==
    ~running ~> SignalMissed \/ (sched = "stopped" /\ main \in {"exited", "asleep", "hung"})

----------------------------------------------------------------------------
(* The scheduler implements ProcessLifecycle.                              *)

PhaseOf(p) ==
    CASE p \in destroyed -> "gone"
      [] p \notin destroyed /\ IsLoaded(p) -> "running"
      [] p \notin destroyed /\ ~IsLoaded(p) /\ Waits(p) -> "ready"
      [] OTHER -> "lost"

\* A program needs to reach its halting instruction or to spend its TTL.
NeedOf(p) ==
    LET ttl == InitialTtl(program[p].code_size)
    IN  IF program[p].halt_at < ttl THEN program[p].halt_at ELSE ttl

Lifecycle == INSTANCE ProcessLifecycle WITH
    Procs    <- Programs,
    Capacity <- NumCores * NumThreads,
    phase    <- [p \in Programs |-> PhaseOf(p)],
    work     <- [p \in Programs |-> IF p \in destroyed THEN 0 ELSE Executed(p)],
    need     <- [p \in Programs |-> NeedOf(p)],
    open     <- running

\* Every behaviour of the scheduler is one that ProcessLifecycle allows.
ImplementsLifecycle == Lifecycle!Spec

=============================================================================
