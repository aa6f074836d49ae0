------------------------ MODULE SchedulerRefinement ------------------------
(***************************************************************************)
(* Every step of the scheduler is a step of ProcessLifecycle, or none, for *)
(* the policies and queue sizes of SchedulerSafety.                        *)
(***************************************************************************)
EXTENDS SchedulerWork

----------------------------------------------------------------------------
(* The lifecycle in terms of queue, threads and freed PCBs.                *)

Phase(p) ==
    IF p \in destroyed THEN "gone" ELSE IF On(hw_threads, p) THEN "running" ELSE "ready"

Work(p) == IF p \in destroyed THEN 0 ELSE Executed(p)

\* What the mapping says of a process, place by place.
Seen ==
    \A p \in Programs :
        /\ PhaseOf(p) = Phase(p)
        /\ \A c \in Cores, k \in Slots :
              hw_threads[c][k].pcb = p => Executed(p) = hw_threads[c][k].PC
        /\ ~On(hw_threads, p) => Executed(p) = pcb[p].pc

\* What the mapping says of a process, from where the process is.
LEMMA SeenNow == TypeOK /\ HeldOnce => Seen
<1>. SUFFICES ASSUME TypeOK, HeldOnce, NEW p \in Programs
              PROVE  /\ PhaseOf(p) = Phase(p)
                     /\ \A c \in Cores, k \in Slots :
                           hw_threads[c][k].pcb = p => Executed(p) = hw_threads[c][k].PC
                     /\ ~On(hw_threads, p) => Executed(p) = pcb[p].pc
  BY DEF Seen
<1>1. IsLoaded(p) <=> On(hw_threads, p)
  BY DEF IsLoaded, On
<1>2. p \notin destroyed /\ ~On(hw_threads, p) => Waits(p)
  <2>1. DOMAIN ready_queue = 1 .. Len(ready_queue)
    BY TypeFacts
  <2>. QED
    BY <2>1 DEF HeldOnce, Covered, Holds, Waits
<1>3. PhaseOf(p) = Phase(p)
  BY <1>1, <1>2 DEF PhaseOf, Phase
<1>4. \A c \in Cores, k \in Slots :
         hw_threads[c][k].pcb = p => Executed(p) = hw_threads[c][k].PC
  BY ThreadOfLoaded DEF Executed, Pcbs
<1>. QED
  BY <1>1, <1>3, <1>4 DEF Executed

\* The same in the next state.
LEMMA SeenNext == (TypeOK /\ HeldOnce)' => Seen'
BY SeenNow, PTL

\* What a step does to a process whose thread, PC and saved context it leaves.
LEMMA Unseen ==
    ASSUME Seen, Seen', NEW p \in Programs,
           p \in destroyed' <=> p \in destroyed,
           On(hw_threads', p) <=> On(hw_threads, p),
           pcb'[p].pc = pcb[p].pc,
           \A c, d \in Cores : \A k, l \in Slots :
               hw_threads[c][k].pcb = p /\ hw_threads'[d][l].pcb = p
                  => hw_threads'[d][l].PC = hw_threads[c][k].PC
    PROVE  PhaseOf(p)' = PhaseOf(p) /\ Work(p)' = Work(p)
<1>1. PhaseOf(p)' = PhaseOf(p)
  <2>1. PhaseOf(p)' = Phase(p)' /\ PhaseOf(p) = Phase(p)
    BY DEF Seen
  <2>. QED
    BY <2>1 DEF Phase
<1>2. Executed(p)' = Executed(p)
  <2>1. CASE On(hw_threads, p)
    BY <2>1 DEF On, Seen
  <2>2. CASE ~On(hw_threads, p)
    BY <2>2 DEF Seen
  <2>. QED
    BY <2>1, <2>2
<1>. QED
  BY <1>1, <1>2 DEF Work

Phases == [p \in Programs |-> PhaseOf(p)]
Works  == [p \in Programs |-> Work(p)]
Needs  == [p \in Programs |-> NeedOf(p)]

\* The needs are chosen once.
LEMMA NeedsStay == UNCHANGED program => UNCHANGED Needs
BY DEF Needs, NeedOf

\* The step as ProcessLifecycle sees it.
LifecycleStep == [Lifecycle!Next]_(Lifecycle!vars)

\* A step that no process notices.
LEMMA LifecycleStutters ==
    ASSUME UNCHANGED <<Phases, Works, Needs, running>>
    PROVE  LifecycleStep
BY DEF LifecycleStep, Lifecycle!vars, Phases, Works, Needs, Work

\* A step that takes one process off its processor.
LEMMA LifecycleSuspends ==
    ASSUME NEW p \in Programs, Phases[p] = "running", Phases' = [Phases EXCEPT ![p] = "ready"],
           UNCHANGED <<Works, Needs, running>>
    PROVE  LifecycleStep
BY DEF LifecycleStep, Lifecycle!Next, Lifecycle!Suspend, Phases, Works, Needs, Work

\* ProcessLifecycle counts with the Cardinality of its own instance of FiniteSets.
LEMMA SameCardinality == ASSUME NEW S PROVE Lifecycle!Cardinality(S) = Cardinality(S)
BY DEF Lifecycle!Cardinality, Cardinality

\* A step that gives processors to processes.
LEMMA LifecycleStarts ==
    ASSUME NEW p \in Programs, Phases[p] = "ready", Phases' = [Phases EXCEPT ![p] = "running"],
           Cardinality({q \in Programs : Phases[q] = "running"}) < NumCores * NumThreads,
           UNCHANGED <<Works, Needs, running>>
    PROVE  LifecycleStep
<1>1. Lifecycle!In("running") = {q \in Programs : Phases[q] = "running"}
  BY DEF Lifecycle!In, Phases
<1>2. Lifecycle!Cardinality(Lifecycle!In("running")) < NumCores * NumThreads
  BY <1>1, SameCardinality
<1>. QED
  BY <1>2 DEF LifecycleStep, Lifecycle!Next, Lifecycle!Start, Phases, Works, Needs, Work

\* A step in which one process ends.
LEMMA LifecycleFinishes ==
    ASSUME NEW p \in Programs, Phases[p] = "running", Works[p] >= Needs[p],
           Phases' = [Phases EXCEPT ![p] = "gone"], Works' = [Works EXCEPT ![p] = 0],
           UNCHANGED <<Needs, running>>
    PROVE  LifecycleStep
BY DEF LifecycleStep, Lifecycle!Next, Lifecycle!Finish, Phases, Works, Needs, Work

\* A step in which running processes execute.
LEMMA LifecycleExecutes ==
    ASSUME NEW S \in SUBSET {q \in Programs : Phases[q] = "running"},
           Works' = [p \in Programs |-> IF p \in S THEN Works[p] + 1 ELSE Works[p]],
           UNCHANGED <<Phases, Needs, running>>
    PROVE  LifecycleStep
BY DEF LifecycleStep, Lifecycle!Next, Lifecycle!Execute, Lifecycle!In, Phases, Works, Needs, Work

\* A step that ends the life of the whole system.
LEMMA LifecycleCloses ==
    ASSUME running, running' = FALSE, UNCHANGED <<Phases, Works, Needs>>
    PROVE  LifecycleStep
BY DEF LifecycleStep, Lifecycle!Next, Lifecycle!Close, Phases, Works, Needs, Work

\* A step that throws away what is queued.
LEMMA LifecycleDiscards ==
    ASSUME ~running, NEW S \in SUBSET {q \in Programs : Phases[q] = "ready"},
           Phases' = [p \in Programs |-> IF p \in S THEN "gone" ELSE Phases[p]],
           Works' = [p \in Programs |-> IF p \in S THEN 0 ELSE Works[p]],
           UNCHANGED <<Needs, running>>
    PROVE  LifecycleStep
BY DEF LifecycleStep, Lifecycle!Next, Lifecycle!Discard, Lifecycle!In, Phases, Works, Needs, Work

----------------------------------------------------------------------------
(* The main thread leaves pause() exactly when the handler has cleared the flag. *)

PausesOpen == (main = "pause") <=> running

\* No step separates the two.
LEMMA NextPausesOpen == PausesOpen /\ [Next]_vars => PausesOpen'
<1>. SUFFICES ASSUME PausesOpen, [Next]_vars PROVE PausesOpen'
  OBVIOUS
<1>1. CASE Interrupt
  BY <1>1 DEF PausesOpen, Interrupt
<1>2. CASE WakeEverybody \/ DestroyScheduler \/ StopClockAndTimers \/ CleanReadyQueue
  BY <1>2 DEF PausesOpen, WakeEverybody, DestroyScheduler, StopClockAndTimers, CleanReadyQueue
<1>3. CASE ScanStep \/ NextCore \/ StopWaiting \/ EndScan \/ EndTransfer \/ EndPass
  <2>1. ScanStep \/ NextCore => UNCHANGED <<main, running>>
    BY DEF ScanStep, CompleteProcess, ExpireQuantum, KeepExecuting, NextCore
  <2>2. StopWaiting \/ EndScan \/ EndTransfer \/ EndPass => UNCHANGED <<main, running>>
    BY DEF StopWaiting, EndScan, EndTransfer, EndPass
  <2>. QED
    BY <1>3, <2>1, <2>2 DEF PausesOpen
<1>4. CASE \/ TransferArrival \/ TransferPreempting
           \/ DispatchRoundRobin \/ DispatchBFS \/ DispatchPriority
  <2>1. UNCHANGED <<main, running>>
    BY <1>4 DEF TransferArrival, TransferPreempting, DispatchRoundRobin, DispatchBFS,
       DispatchPriority, Dispatches
  <2>. QED
    BY <2>1 DEF PausesOpen
<1>5. CASE ClockStep \/ TimerStep \/ WakeOnTick \/ WakeOnTimer \/ Halted \/ UNCHANGED vars
  <2>1. UNCHANGED <<main, running>>
    BY <1>5 DEF ClockStep, ClockStops, Tick, TimerStep, TimerChecks, TimerCallback, WakeOnTick,
       WakeOnTimer, Halted, vars
  <2>. QED
    BY <2>1 DEF PausesOpen
<1>. QED
  BY <1>1, <1>2, <1>3, <1>4, <1>5 DEF Next, SchedulerStep, MainStep

----------------------------------------------------------------------------
(* Step by step.                                                           *)

Before == TypeOK /\ NoTransfer /\ HeldOnce /\ Worked /\ PausesOpen /\ Seen

\* The processes that a removal leaves on their threads are not seen to change.
LEMMA RemoveUnseen ==
    ASSUME Before, Seen', NEW c \in Cores, NEW k \in 1 .. Len(pcbs[c]), RemoveFromCore(c, k),
           NEW q \in Programs, q # hw_threads[c][k].pcb, pcb'[q] = pcb[q],
           q \in destroyed' <=> q \in destroyed
    PROVE  PhaseOf(q)' = PhaseOf(q) /\ Work(q)' = Work(q)
<1>1. TypeOK /\ ThreadsOnce /\ LoadedOnce(hw_threads) /\ q \in Pcbs /\ q # NoPcb
  BY PcbAssumption DEF Before, HeldOnce, ThreadsOnce, Pcbs
<1>2. On(hw_threads', q) <=> On(hw_threads, q)
  BY <1>1, UnloadThreads
<1>3. \A d \in Cores, l \in Slots :
         hw_threads'[d][l].pcb # NoPcb =>
            /\ Source(c, k, d, l) \in Slots
            /\ hw_threads'[d][l] = hw_threads[d][Source(c, k, d, l)]
  BY <1>1, RemoveMoves
<1>4. ASSUME NEW e \in Cores, NEW d \in Cores, NEW j \in Slots, NEW l \in Slots,
             hw_threads[e][j].pcb = q, hw_threads'[d][l].pcb = q
      PROVE  hw_threads'[d][l].PC = hw_threads[e][j].PC
  <2>1. PICK s \in Slots : hw_threads'[d][l] = hw_threads[d][s]
    BY <1>1, <1>3, <1>4
  <2>2. d = e /\ s = j
    BY <1>1, <1>4, <2>1 DEF LoadedOnce
  <2>. QED
    BY <2>1, <2>2
<1>. QED
  BY <1>2, <1>4, Unseen DEF Before

\* A completed process finishes.
LEMMA CompleteFinishes ==
    ASSUME Before, Seen', NEW c \in Cores, NEW k \in Slots, NEW p \in Pcbs, CompleteProcess(c, k, p)
    PROVE  LifecycleStep
<1>1. /\ k \in 1 .. Len(pcbs[c]) /\ p = hw_threads[c][k].pcb /\ HasCompleted(p)
      /\ RemoveFromCore(c, k) /\ destroyed' = destroyed \cup {p}
      /\ UNCHANGED <<program, running>>
      /\ pcb' = [pcb EXCEPT ![p].quantum_counter = @ + 1, ![p].pgb = NoPcb]
  BY DEF CompleteProcess, Visits, current_pcb_count
<1>2. On(hw_threads, p) /\ p \in Programs /\ p \notin destroyed
  BY <1>1 DEF Before, HeldOnce, Apart, On
<1>3. \A q \in Programs : q # p => PhaseOf(q)' = PhaseOf(q) /\ Work(q)' = Work(q)
  <2>1. \A q \in Programs : q # p => pcb'[q] = pcb[q] /\ (q \in destroyed' <=> q \in destroyed)
    BY <1>1, TypeFacts DEF Before, Pcbs
  <2>. QED
    BY <1>1, <2>1, RemoveUnseen
<1>4. /\ PhaseOf(p) = "running" /\ PhaseOf(p)' = "gone" /\ Work(p)' = 0
      /\ Work(p) = hw_threads[c][k].PC
  <2>1. PhaseOf(p) = Phase(p) /\ PhaseOf(p)' = Phase(p)' /\ Executed(p) = hw_threads[c][k].PC
    BY <1>1, <1>2 DEF Before, Seen
  <2>2. p \in destroyed'
    BY <1>1
  <2>. QED
    BY <1>2, <2>1, <2>2 DEF Phase, Work
<1>5. Work(p) >= NeedOf(p)
  <2>1. WorkDone(pcb[p], hw_threads[c][k].PC, program[p])
    BY <1>1, <1>2 DEF Before, Worked, WorkAdds
  <2>2. pcb[p].state = "TERMINATED" \/ ~(pcb[p].ttl > 0)
    <3>1. pcb[p].ttl \in Nat
      BY TypeFacts DEF Before, PcbType
    <3>. QED
      BY <1>1, <3>1 DEF HasCompleted
  <2>. DEFINE halt == program[p].halt_at
              ttl  == InitialTtl(program[p].code_size)
  <2>3. halt \in Nat /\ ttl \in Nat /\ hw_threads[c][k].PC \in Nat
    <3>1. program[p].code_size \in Nat /\ program[p].halt_at \in Nat
      BY <1>2, ShapeAssumption DEF Before, TypeOK
    <3>2. hw_threads[c][k] \in ThreadType
      BY TypeFacts DEF Before, Rows
    <3>. QED
      BY <3>1, <3>2, InitialTtlType DEF ThreadType
  <2>4. hw_threads[c][k].PC = halt \/ hw_threads[c][k].PC >= ttl
    BY <2>1, <2>2 DEF WorkDone
  <2>5. NeedOf(p) = IF halt < ttl THEN halt ELSE ttl
    BY DEF NeedOf
  <2>. HIDE DEF halt, ttl
  <2>. QED
    BY <1>4, <2>3, <2>4, <2>5
<1>6. /\ Phases[p] = "running" /\ Works[p] >= Needs[p]
      /\ Phases' = [Phases EXCEPT ![p] = "gone"] /\ Works' = [Works EXCEPT ![p] = 0]
  BY <1>2, <1>3, <1>4, <1>5 DEF Phases, Works, Needs
<1>. QED
  BY <1>1, <1>2, <1>6, NeedsStay, LifecycleFinishes

\* A process whose quantum expires is suspended.
LEMMA ExpireSuspends ==
    ASSUME Before, Seen', HeldOnce', NEW c \in Cores, NEW k \in Slots, NEW p \in Pcbs,
           ExpireQuantum(c, k, p)
    PROVE  LifecycleStep
<1>1. /\ k \in 1 .. Len(pcbs[c]) /\ p = hw_threads[c][k].pcb
      /\ RemoveFromCore(c, k) /\ UNCHANGED <<program, running, destroyed>>
      /\ pcb' = [pcb EXCEPT ![p] = SavedPcb(p, hw_threads[c][k].PC)]
  BY DEF ExpireQuantum, Visits, current_pcb_count, countVars
<1>2. On(hw_threads, p) /\ p \in Programs /\ p \notin destroyed
  BY <1>1 DEF Before, HeldOnce, Apart, On
<1>3. \A q \in Programs : q # p => PhaseOf(q)' = PhaseOf(q) /\ Work(q)' = Work(q)
  <2>1. \A q \in Programs : q # p => pcb'[q] = pcb[q] /\ (q \in destroyed' <=> q \in destroyed)
    BY <1>1, TypeFacts DEF Before, Pcbs
  <2>. QED
    BY <1>1, <2>1, RemoveUnseen
<1>4. ~On(hw_threads', p)
  BY <1>1, UnloadThreads DEF Before, HeldOnce
<1>5. pcb'[p].pc = hw_threads[c][k].PC
  BY <1>1, TypeFacts DEF Before, SavedPcb, PcbType
<1>6. PhaseOf(p) = "running" /\ PhaseOf(p)' = "ready" /\ Work(p)' = Work(p)
  <2>1. PhaseOf(p) = Phase(p) /\ PhaseOf(p)' = Phase(p)' /\ Executed(p) = hw_threads[c][k].PC
    BY <1>1, <1>2 DEF Before, Seen
  <2>2. Executed(p)' = pcb'[p].pc
    BY <1>2, <1>4 DEF Seen
  <2>. QED
    BY <1>1, <1>2, <1>4, <1>5, <2>1, <2>2 DEF Phase, Work
<1>7. Phases[p] = "running" /\ Phases' = [Phases EXCEPT ![p] = "ready"] /\ UNCHANGED Works
  BY <1>2, <1>3, <1>6 DEF Phases, Works
<1>. QED
  BY <1>1, <1>2, <1>7, NeedsStay, LifecycleSuspends

\* While a thread is free, fewer processes execute than there are threads.
LEMMA RoomToRun ==
    ASSUME Before, NEW c \in Cores, NEW m \in Slots, hw_threads[c][m].pcb = NoPcb
    PROVE  Cardinality({q \in Programs : Phases[q] = "running"}) < NumCores * NumThreads
<1>. DEFINE R == {q \in Programs : Phases[q] = "running"}
            T == Cores \X Slots
            place == [q \in R |-> CHOOSE h \in T : hw_threads[h[1]][h[2]].pcb = q]
<1>1. IsFiniteSet(T) /\ Cardinality(T) = NumCores * NumThreads
  <2>1. /\ IsFiniteSet(Cores) /\ Cardinality(Cores) = NumCores
        /\ IsFiniteSet(Slots) /\ Cardinality(Slots) = NumThreads
    <3>1. NumCores \in Nat /\ NumThreads \in Nat
      BY SizeAssumption
    <3>2. /\ IsFiniteSet(1 .. NumCores) /\ Cardinality(1 .. NumCores) = NumCores
          /\ IsFiniteSet(1 .. NumThreads) /\ Cardinality(1 .. NumThreads) = NumThreads
      BY <3>1, FS_Interval
    <3>. QED
      BY <3>2 DEF Cores, Slots
  <2>. QED
    BY <2>1, FS_Product
<1>2. \A q \in R : place[q] \in T /\ hw_threads[place[q][1]][place[q][2]].pcb = q
  <2>. SUFFICES ASSUME NEW q \in R PROVE place[q] \in T /\ hw_threads[place[q][1]][place[q][2]].pcb = q
    OBVIOUS
  <2>1. On(hw_threads, q)
    BY DEF Phases, Before, Seen, Phase
  <2>2. PICK d \in Cores, l \in Slots : hw_threads[d][l].pcb = q
    BY <2>1 DEF On
  <2>3. <<d, l>> \in T /\ hw_threads[<<d, l>>[1]][<<d, l>>[2]].pcb = q
    BY <2>2
  <2>4. \E h \in T : hw_threads[h[1]][h[2]].pcb = q
    BY <2>3
  <2>. HIDE DEF T, R
  <2>. QED
    BY <2>4
<1>3. place \in Injection(R, T)
  <2>1. place \in [R -> T]
    BY <1>2
  <2>2. \A q, r \in R : place[q] = place[r] => q = r
    <3>. HIDE DEF place, R, T
    <3>. QED
      BY <1>2
  <2>. HIDE DEF place, R, T
  <2>. QED
    BY <2>1, <2>2 DEF Injection, IsInjective
<1>4. place \notin Surjection(R, T)
  <2>1. <<c, m>> \in T /\ \A q \in R : place[q] # <<c, m>>
    <3>1. NoPcb \notin R
      BY PcbAssumption DEF Pcbs
    <3>2. ASSUME NEW q \in R, place[q] = <<c, m>> PROVE FALSE
      <4>. HIDE DEF place, R, T
      <4>1. place[q][1] = c /\ place[q][2] = m
        BY <3>2
      <4>2. hw_threads[c][m].pcb = q
        BY <1>2, <4>1
      <4>. QED
        BY <4>2, <3>1
    <3>. QED
      BY <3>2
  <2>. HIDE DEF place, R, T
  <2>. QED
    BY <2>1 DEF Surjection
<1>5. IsFiniteSet(R) /\ Cardinality(R) \in Nat
  BY PcbAssumption, FS_Subset, FS_CardinalityType
<1>6. Cardinality(T) \in Nat
  BY <1>1, FS_CardinalityType
<1>. HIDE DEF place, R, T
<1>7. Cardinality(R) <= Cardinality(T) /\ Cardinality(R) # Cardinality(T)
  BY <1>1, <1>3, <1>4, FS_Injection
<1>8. Cardinality(R) < NumCores * NumThreads
  BY <1>1, <1>5, <1>6, <1>7
<1>. QED
  BY <1>8 DEF R

\* A dispatch starts the process it takes from the queue, on a free thread.
LEMMA DispatchStarts ==
    ASSUME RoomyQueue, Before, Seen', DispatchRoundRobin \/ DispatchBFS \/ DispatchPriority
    PROVE  LifecycleStep
<1>1. PICK p \in Programs : Holds(ready_queue, p) /\ Dispatches(p)
  BY DispatchSelects DEF Before
<1>2. can_cpu_execute_process /\ TypeOK /\ ThreadsOnce /\ LoadedOnce(hw_threads)
  BY DEF DispatchRoundRobin, DispatchBFS, DispatchPriority, CanDispatch, Before, HeldOnce, ThreadsOnce
<1>3. p \in Pcbs /\ ~On(hw_threads, p) /\ p \notin destroyed
  BY <1>1 DEF Before, HeldOnce, Apart, Pcbs
<1>4. PICK c \in Cores, m \in Slots :
              /\ hw_threads[c][m].pcb = NoPcb
              /\ hw_threads'[c][m] = [pcb |-> p, PC |-> pcb[p].pc]
              /\ \A d \in Cores, l \in Slots :
                    ~(d = c /\ l = m) => hw_threads'[d][l] = hw_threads[d][l]
  BY <1>1, <1>2, <1>3, DispatchPlaces
<1>5. /\ pcb' = [pcb EXCEPT ![p] = Started(p)] /\ UNCHANGED <<program, running, destroyed>>
  BY <1>1 DEF Dispatches, countVars
<1>6. \A q \in Programs : q # p => PhaseOf(q)' = PhaseOf(q) /\ Work(q)' = Work(q)
  <2>. SUFFICES ASSUME NEW q \in Programs, q # p
                PROVE  PhaseOf(q)' = PhaseOf(q) /\ Work(q)' = Work(q)
    OBVIOUS
  <2>1. q # NoPcb /\ pcb'[q] = pcb[q]
    BY <1>5, PcbAssumption, TypeFacts DEF Before, Pcbs
  <2>2. \A d \in Cores, l \in Slots :
           hw_threads[d][l].pcb = q \/ hw_threads'[d][l].pcb = q => hw_threads'[d][l] = hw_threads[d][l]
    BY <1>4, <2>1
  <2>3. On(hw_threads', q) <=> On(hw_threads, q)
    BY <2>2 DEF On
  <2>4. \A e, d \in Cores : \A j, l \in Slots :
           hw_threads[e][j].pcb = q /\ hw_threads'[d][l].pcb = q
              => hw_threads'[d][l].PC = hw_threads[e][j].PC
    BY <1>2, <2>1, <2>2 DEF LoadedOnce
  <2>. QED
    BY <1>5, <2>1, <2>3, <2>4, Unseen DEF Before
<1>7. PhaseOf(p) = "ready" /\ PhaseOf(p)' = "running" /\ Work(p)' = Work(p)
  <2>1. PhaseOf(p) = Phase(p) /\ PhaseOf(p)' = Phase(p)' /\ Executed(p) = pcb[p].pc
    BY <1>3 DEF Before, Seen
  <2>2. On(hw_threads', p) /\ Executed(p)' = pcb[p].pc
    BY <1>4 DEF On, Seen
  <2>. QED
    BY <1>3, <1>5, <2>1, <2>2 DEF Phase, Work
<1>8. /\ Phases[p] = "ready" /\ Phases' = [Phases EXCEPT ![p] = "running"]
      /\ UNCHANGED Works
  BY <1>6, <1>7 DEF Phases, Works
<1>. QED
  BY <1>4, <1>5, <1>8, RoomToRun, NeedsStay, LifecycleStarts

\* A tick executes an instruction of processes that run.
LEMMA TickExecutesSome == ASSUME Before, Seen', Tick PROVE LifecycleStep
<1>1. /\ UNCHANGED <<program, running, destroyed>>
      /\ \A c \in Cores, k \in Slots : hw_threads'[c][k].pcb = hw_threads[c][k].pcb
      /\ \A p \in Pcbs : ~IsLoaded(p) => pcb'[p] = pcb[p]
  BY TickKeeps DEF Before, Tick
<1>2. \A p \in Programs : On(hw_threads', p) <=> On(hw_threads, p)
  BY <1>1 DEF On
<1>3. \A p \in Programs : PhaseOf(p)' = PhaseOf(p)
  BY <1>1, <1>2 DEF Before, Seen, Phase
<1>4. ASSUME NEW p \in Programs
      PROVE  Work(p)' = Work(p) \/ (PhaseOf(p) = "running" /\ Work(p)' = Work(p) + 1)
  <2>1. CASE On(hw_threads, p)
    <3>1. PICK c \in Cores, k \in Slots : hw_threads[c][k].pcb = p
      BY <2>1 DEF On
    <3>2. /\ p \notin destroyed
          /\ \/ hw_threads'[c][k] = [pcb |-> p, PC |-> hw_threads[c][k].PC]
             \/ hw_threads'[c][k] = [pcb |-> p, PC |-> hw_threads[c][k].PC + 1]
      BY <3>1, TickExecutes DEF Before
    <3>3. hw_threads'[c][k].PC = hw_threads[c][k].PC \/ hw_threads'[c][k].PC = hw_threads[c][k].PC + 1
      BY <3>2
    <3>4. Executed(p) = hw_threads[c][k].PC /\ Executed(p)' = hw_threads'[c][k].PC
      BY <1>1, <3>1 DEF Before, Seen
    <3>5. PhaseOf(p) = "running"
      BY <2>1, <3>2 DEF Before, Seen, Phase
    <3>. QED
      BY <1>1, <3>2, <3>3, <3>4, <3>5 DEF Work
  <2>2. CASE ~On(hw_threads, p)
    <3>1. pcb'[p] = pcb[p]
      BY <1>1, <2>2 DEF On, IsLoaded, Pcbs
    <3>2. Executed(p)' = Executed(p)
      BY <1>2, <2>2, <3>1 DEF Before, Seen
    <3>. QED
      BY <1>1, <3>2 DEF Work
  <2>. QED
    BY <2>1, <2>2
<1>. DEFINE S == {p \in Programs : PhaseOf(p) = "running" /\ Work(p)' = Work(p) + 1}
<1>5. S \in SUBSET {q \in Programs : Phases[q] = "running"}
  BY DEF Phases
<1>6. Works' = [p \in Programs |-> IF p \in S THEN Works[p] + 1 ELSE Works[p]]
  BY <1>4 DEF Works
<1>7. UNCHANGED Phases
  BY <1>3 DEF Phases
<1>. HIDE DEF S
<1>. QED
  BY <1>1, <1>5, <1>6, <1>7, NeedsStay, LifecycleExecutes

\* Cleaning the ready queue discards the processes in it.
LEMMA CleanDiscards == ASSUME Before, Seen', CleanReadyQueue PROVE LifecycleStep
<1>1. /\ UNCHANGED <<program, running, pcb, hw_threads>> /\ ~running
      /\ destroyed' = destroyed \cup {ready_queue[i] : i \in DOMAIN ready_queue}
  BY DEF CleanReadyQueue, machineVars, Before, PausesOpen
<1>. DEFINE S == {p \in Programs : Holds(ready_queue, p)}
<1>2. \A p : p \in destroyed' <=> p \in destroyed \/ Holds(ready_queue, p)
  <2>1. DOMAIN ready_queue = 1 .. Len(ready_queue)
    BY TypeFacts DEF Before
  <2>. QED
    BY <1>1, <2>1 DEF Holds
<1>3. \A p \in S : PhaseOf(p) = "ready" /\ PhaseOf(p)' = "gone" /\ Work(p)' = 0
  <2>1. \A p \in S : p \in Pcbs /\ p \notin destroyed /\ ~On(hw_threads, p) /\ p \in destroyed'
    BY <1>2 DEF Before, HeldOnce, Apart, Pcbs
  <2>2. \A p \in S : PhaseOf(p) = Phase(p) /\ PhaseOf(p)' = Phase(p)'
    BY DEF Before, Seen
  <2>. QED
    BY <2>1, <2>2 DEF Phase, Work
<1>4. \A p \in Programs : p \notin S => PhaseOf(p)' = PhaseOf(p) /\ Work(p)' = Work(p)
  <2>. SUFFICES ASSUME NEW p \in Programs, p \notin S
                PROVE  PhaseOf(p)' = PhaseOf(p) /\ Work(p)' = Work(p)
    OBVIOUS
  <2>1. p \in destroyed' <=> p \in destroyed
    BY <1>2
  <2>2. p # NoPcb
    BY PcbAssumption DEF Pcbs
  <2>3. \A e, d \in Cores : \A j, l \in Slots :
           hw_threads[e][j].pcb = p /\ hw_threads'[d][l].pcb = p
              => hw_threads'[d][l].PC = hw_threads[e][j].PC
    BY <1>1, <2>2 DEF Before, HeldOnce, ThreadsOnce, LoadedOnce
  <2>. QED
    BY <1>1, <2>1, <2>3, Unseen DEF Before
<1>5. S \in SUBSET {q \in Programs : Phases[q] = "ready"}
  BY <1>3 DEF Phases
<1>6. Phases' = [p \in Programs |-> IF p \in S THEN "gone" ELSE Phases[p]]
  BY <1>3, <1>4 DEF Phases
<1>7. Works' = [p \in Programs |-> IF p \in S THEN 0 ELSE Works[p]]
  BY <1>3, <1>4 DEF Works
<1>. HIDE DEF S
<1>. QED
  BY <1>1, <1>5, <1>6, <1>7, NeedsStay, LifecycleDiscards

\* A step that moves, frees and executes nothing changes nothing in the lifecycle.
LEMMA NothingSeen ==
    ASSUME Before, Seen', UNCHANGED <<program, hw_threads, destroyed>>,
           \A p \in Programs : pcb'[p].pc = pcb[p].pc
    PROVE  UNCHANGED <<Phases, Works, Needs>>
<1>1. ASSUME NEW p \in Programs PROVE PhaseOf(p)' = PhaseOf(p) /\ Work(p)' = Work(p)
  <2>1. p # NoPcb
    BY PcbAssumption DEF Pcbs
  <2>2. \A e, d \in Cores : \A j, l \in Slots :
           hw_threads[e][j].pcb = p /\ hw_threads'[d][l].pcb = p
              => hw_threads'[d][l].PC = hw_threads[e][j].PC
    BY <2>1 DEF Before, HeldOnce, ThreadsOnce, LoadedOnce
  <2>. QED
    BY <2>2, Unseen DEF Before
<1>. QED
  BY <1>1, NeedsStay DEF Phases, Works

\* Every step of the scheduler is one of the life cycle, or does not show.
LEMMA StepRefines ==
    ASSUME RoomyQueue, Before, (TypeOK /\ HeldOnce /\ Seen)', [Next]_vars
    PROVE  LifecycleStep
<1>1. CASE ScanStep
  <2>1. PICK c \in Cores, k \in Slots, p \in Pcbs :
           CompleteProcess(c, k, p) \/ ExpireQuantum(c, k, p) \/ KeepExecuting(c, k, p)
    BY <1>1 DEF ScanStep
  <2>2. CASE KeepExecuting(c, k, p)
    <3>1. /\ UNCHANGED <<program, running, hw_threads, destroyed>>
          /\ pcb' = [pcb EXCEPT ![p].quantum_counter = @ + 1]
      BY <2>2 DEF KeepExecuting, machineVars, countVars
    <3>2. \A q \in Programs : pcb'[q].pc = pcb[q].pc
      BY <3>1, TypeFacts DEF Before, PcbType, Pcbs
    <3>. QED
      BY <3>1, <3>2, NothingSeen, LifecycleStutters
  <2>. QED
    BY <2>1, <2>2, CompleteFinishes, ExpireSuspends
<1>2. CASE Tick
  BY <1>2, TickExecutesSome
<1>3. CASE DispatchRoundRobin \/ DispatchBFS \/ DispatchPriority
  BY <1>3, DispatchStarts
<1>4. CASE TransferArrival \/ TransferPreempting
  BY <1>4 DEF TransferArrival, TransferPreempting, Transfers, Before, NoTransfer, RoomyQueue
<1>5. CASE CleanReadyQueue
  BY <1>5, CleanDiscards
<1>6. CASE Interrupt
  <2>1. /\ UNCHANGED <<program, hw_threads, destroyed, pcb>>
        /\ running /\ running' = FALSE
    BY <1>6 DEF Interrupt, machineVars, countVars, Before, PausesOpen, TypeOK
  <2>. QED
    BY <2>1, NothingSeen, LifecycleCloses
<1>7. CASE DestroyScheduler
  <2>1. UNCHANGED <<program, running, pcb, hw_threads>>
    BY <1>7 DEF DestroyScheduler, machineVars
  <2>2. destroyed' = destroyed
    <3>1. \A v \in Levels : {priority_queues[v][i] : i \in DOMAIN priority_queues[v]} = {}
      BY DEF Before, HeldOnce, QueueOnce
    <3>. QED
      BY <1>7, <3>1 DEF DestroyScheduler
  <2>. QED
    BY <2>1, <2>2, NothingSeen, LifecycleStutters
<1>8. CASE \/ WakeOnTick \/ WakeOnTimer \/ NextCore \/ StopWaiting \/ EndScan \/ EndTransfer \/ EndPass
           \/ ClockStops \/ TimerChecks \/ TimerCallback
           \/ WakeEverybody \/ StopClockAndTimers \/ Halted \/ UNCHANGED vars
  <2>1. UNCHANGED <<program, running, pcb, hw_threads, destroyed>>
    BY <1>8 DEF WakeOnTick, WakeOnTimer, NextCore, StopWaiting, EndScan, EndTransfer, EndPass,
       ClockStops, TimerChecks, TimerCallback, WakeEverybody, StopClockAndTimers, Halted,
       vars, machineVars, countVars
  <2>. QED
    BY <2>1, NothingSeen, LifecycleStutters
<1>. QED
  BY <1>1, <1>2, <1>3, <1>4, <1>5, <1>6, <1>7, <1>8
     DEF Next, ClockStep, TimerStep, SchedulerStep, MainStep

\* Initially every program is ready, has executed nothing, and has its need.
LEMMA InitRefines == Init => Lifecycle!Init
<1>. SUFFICES ASSUME Init PROVE Lifecycle!Init
  OBVIOUS
<1>1. TypeOK /\ HeldOnce /\ Seen
  BY InitType, InitHeldOnce, SeenNow
<1>2. \A p \in Programs : ~On(hw_threads, p) /\ p \notin destroyed
  BY PcbAssumption DEF Init, Idle, On, Pcbs
<1>3. ASSUME NEW p \in Programs
      PROVE  /\ PhaseOf(p) = "ready" /\ (IF p \in destroyed THEN 0 ELSE Executed(p)) = 0
             /\ NeedOf(p) \in Nat
  <2>1. PhaseOf(p) = "ready"
    BY <1>1, <1>2 DEF Seen, Phase
  <2>2. pcb[p].pc = 0
    BY DEF Init, Loaded, NewPcb, Pcbs
  <2>3. Executed(p) = 0
    BY <1>1, <1>2, <2>2 DEF Seen
  <2>4. NeedOf(p) \in Nat
    <3>1. program[p].code_size \in Nat /\ program[p].halt_at \in Nat
      BY ShapeAssumption DEF Init
    <3>2. InitialTtl(program[p].code_size) \in Nat
      BY <3>1, InitialTtlType
    <3>. QED
      BY <3>1, <3>2 DEF NeedOf
  <2>. QED
    BY <1>2, <2>1, <2>3, <2>4
<1>4. running = TRUE
  BY DEF Init
<1>. QED
  BY <1>3, <1>4 DEF Lifecycle!Init

\* Under RR, and under BFS with a roomy ring, every behaviour of the scheduler
\* is one of ProcessLifecycle: a process never executes on more threads than
\* there are, no context switch loses or repeats its work, it leaves the system
\* only after the work it needs, or by a shutdown while it waits.
THEOREM RefinesLifecycle == ASSUME RoomyQueue PROVE Spec => ImplementsLifecycle
<1>. DEFINE Inv == TypeOK /\ NoTransfer /\ HeldOnce /\ Worked /\ PausesOpen
<1>1. Init => Inv
  BY InitType, InitHeldOnce, InitWorked DEF Init, NoTransfer, PausesOpen
<1>2. Inv /\ [Next]_vars => Inv'
  BY NextType, NextNoTransfer, NextHeldOnce, NextWorked, NextPausesOpen
<1>3. Inv /\ Inv' /\ [Next]_vars => [Lifecycle!Next]_(Lifecycle!vars)
  <2>. SUFFICES ASSUME Inv, Inv', [Next]_vars PROVE LifecycleStep
    BY DEF LifecycleStep
  <2>1. Seen /\ Seen'
    BY SeenNow, SeenNext
  <2>. QED
    BY <2>1, StepRefines DEF Before
<1>. QED
  BY <1>1, <1>2, <1>3, InitRefines, PTL DEF Spec, ImplementsLifecycle, Lifecycle!Spec
=============================================================================
