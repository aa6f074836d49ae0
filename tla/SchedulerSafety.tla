-------------------------- MODULE SchedulerSafety --------------------------
(***************************************************************************)
(* Theorems about Scheduler.  First the types, for every policy.  Then no  *)
(* process is lost, doubled or touched after it is freed under round robin,*)
(* and under BFS if the ring has room for its removal; preemption breaks   *)
(* the invariant of this module, and SchedulerPriority has another.        *)
(***************************************************************************)
EXTENDS Scheduler, QueuesProofs, FiniteSetTheorems

----------------------------------------------------------------------------
(* The choices that the code makes by searching.                           *)

\* If some core has room, FirstRoom is a core with room.
LEMMA FirstRoomIsRoomy == can_cpu_execute_process => FirstRoom \in RoomyCores
<1>1. SUFFICES ASSUME RoomyCores # {} PROVE FirstRoom \in RoomyCores
  BY DEF can_cpu_execute_process
<1>2. RoomyCores \in SUBSET Nat
  BY SizeAssumption DEF RoomyCores, Cores
<1>3. \E c \in RoomyCores : \A d \in RoomyCores : c <= d
  BY <1>1, <1>2, LeastNat
<1>. QED
  BY <1>3 DEF FirstRoom

\* If some level has a process, TopLevel is the first such level.
LEMMA TopLevelIsReady ==
    ReadyLevels # {} => TopLevel \in ReadyLevels /\ \A w \in ReadyLevels : TopLevel <= w
<1>1. SUFFICES ASSUME ReadyLevels # {}
              PROVE  TopLevel \in ReadyLevels /\ \A w \in ReadyLevels : TopLevel <= w
  OBVIOUS
<1>2. MIN_PRIORITY \in Int /\ MAX_PRIORITY \in Int
  BY DEF MIN_PRIORITY, MAX_PRIORITY
<1>3. ReadyLevels \in SUBSET Int /\ \A v \in ReadyLevels : MIN_PRIORITY <= v
  <2>1. \A v \in ReadyLevels : v \in MIN_PRIORITY .. MAX_PRIORITY
    BY PcbAssumption DEF ReadyLevels
  <2>. QED
    BY <2>1, <1>2
<1>4. \E v \in ReadyLevels : \A w \in ReadyLevels : v <= w
  BY <1>1, <1>2, <1>3, LeastInt
<1>. QED
  BY <1>4 DEF TopLevel

\* The victim of a preemption is one of the copies, of the least urgent ones.
LEMMA VictimIsACopy ==
    ASSUME TypeOK, Copies # {}
    PROVE  Victim \in Copies /\ Victim \in Lowest
<1>. DEFINE Prio(h) == pcbs[h[1]][h[2]].priority
            Urgency(h) == MAX_PRIORITY - Prio(h)
            T == {Urgency(h) : h \in Copies}
<1>0. MIN_PRIORITY \in Int /\ MAX_PRIORITY \in Int
  BY DEF MIN_PRIORITY, MAX_PRIORITY
<1>1. \A h \in Copies : h \in Cores \X Slots /\ Prio(h) \in MIN_PRIORITY .. MAX_PRIORITY
  <2>. SUFFICES ASSUME NEW h \in Copies
                PROVE  h \in Cores \X Slots /\ Prio(h) \in MIN_PRIORITY .. MAX_PRIORITY
    OBVIOUS
  <2>1. h \in Cores \X Slots /\ h[2] <= Len(pcbs[h[1]])
    BY DEF Copies, current_pcb_count
  <2>2. h[1] \in Cores /\ h[2] \in Nat \ {0}
    BY <2>1, SizeAssumption DEF Slots
  <2>3. pcbs[h[1]] \in Seq(PcbType)
    BY <2>2 DEF TypeOK
  <2>4. pcbs[h[1]][h[2]] \in PcbType
    BY <2>1, <2>2, <2>3, LenProperties, ElementOfSeq
  <2>. QED
    BY <2>1, <2>4 DEF PcbType
<1>2. T \in SUBSET Nat /\ T # {}
  <2>1. \A h \in Copies : Urgency(h) \in Nat
    BY <1>0, <1>1
  <2>. QED
    BY <2>1
<1>3. PICK h \in Copies : \A g \in Copies : Urgency(h) <= Urgency(g)
  <2>1. PICK u \in T : \A w \in T : u <= w
    BY <1>2, LeastNat
  <2>2. PICK h \in Copies : u = Urgency(h)
    OBVIOUS
  <2>. QED
    BY <2>1, <2>2
<1>4. h \in Lowest
  <2>1. ASSUME NEW g \in Copies PROVE Prio(g) <= Prio(h)
    <3>1. MAX_PRIORITY - Prio(h) <= MAX_PRIORITY - Prio(g)
      BY <1>3
    <3>. QED
      BY <3>1, <1>0, <1>1
  <2>. QED
    BY <2>1 DEF Lowest
<1>5. Lowest \subseteq Copies /\ \A g \in Lowest : g[1] \in Nat /\ g[2] \in Nat
  BY <1>1, SizeAssumption DEF Lowest, Cores, Slots
<1>6. PICK c \in {g[1] : g \in Lowest} : \A d \in {g[1] : g \in Lowest} : c <= d
  <2>1. {g[1] : g \in Lowest} \in SUBSET Nat /\ {g[1] : g \in Lowest} # {}
    BY <1>4, <1>5
  <2>. QED
    BY <2>1, LeastNat
<1>. DEFINE InCore == {g \in Lowest : g[1] = c}
<1>7. PICK k \in {g[2] : g \in InCore} : \A l \in {g[2] : g \in InCore} : k <= l
  <2>1. {g[2] : g \in InCore} \in SUBSET Nat /\ {g[2] : g \in InCore} # {}
    BY <1>5, <1>6
  <2>. QED
    BY <2>1, LeastNat
<1>8. PICK g \in InCore : g[2] = k
  BY <1>7
<1>9. \A f \in Lowest : g[1] < f[1] \/ (g[1] = f[1] /\ g[2] <= f[2])
  <2>. SUFFICES ASSUME NEW f \in Lowest PROVE g[1] < f[1] \/ (g[1] = f[1] /\ g[2] <= f[2])
    OBVIOUS
  <2>1. g[1] = c /\ c <= f[1] /\ c \in Nat /\ f[1] \in Nat
    BY <1>5, <1>6, <1>8
  <2>2. CASE f[1] = c
    <3>1. f \in InCore
      BY <2>2
    <3>. QED
      BY <3>1, <2>1, <2>2, <1>7, <1>8
  <2>. QED
    BY <2>1, <2>2
<1>. QED
  BY <1>5, <1>8, <1>9 DEF Victim

----------------------------------------------------------------------------
(* Type correctness.                                                       *)

\* Levels are priorities.
LEMMA PriorityType == Levels \subseteq MIN_PRIORITY .. MAX_PRIORITY /\ MIN_PRIORITY \in Int
                        /\ MAX_PRIORITY \in Int /\ 0 \in MIN_PRIORITY .. MAX_PRIORITY
BY PcbAssumption DEF MIN_PRIORITY, MAX_PRIORITY

\* The time to live that the loader computes is a natural number.
LEMMA InitialTtlType == \A n \in Nat : InitialTtl(n) \in Nat
BY DEF InitialTtl

\* A freshly created PCB is well typed.
LEMMA NewPcbType == \A p \in Pcbs : NewPcb(p) \in PcbType
BY PriorityType DEF NewPcb, PcbType

\* The offsets, and so the virtual deadlines, are integers.
LEMMA DeadlineType == ASSUME TypeOK, NEW p \in Pcbs PROVE Deadline(p) \in Int
<1>1. pcb[p].priority \in Int /\ clk_counter \in Int
  BY PriorityType, SizeAssumption DEF TypeOK, PcbType
<1>2. \A v \in Int : BfsOffset(v) \in Int
  <2>. SUFFICES ASSUME NEW v \in Int PROVE BfsOffset(v) \in Int
    OBVIOUS
  <2>1. Quantum * v \in Int /\ Quantum * (-v) \in Int
    BY SizeAssumption
  <2>. QED
    BY <2>1 DEF BfsOffset
<1>. QED
  BY <1>1, <1>2 DEF Deadline

\* The types at first.
LEMMA InitType == Init => TypeOK
<1>. SUFFICES ASSUME Init PROVE TypeOK
  OBVIOUS
<1>1. clk_counter \in 0 .. TickModulus - 1 /\ last_tick \in 0 .. TickModulus - 1
  <2>1. 0 \in 0 .. TickModulus - 1 /\ StartTicks \subseteq 0 .. TickModulus - 1
    BY SizeAssumption
  <2>. QED
    BY <2>1 DEF Init
<1>2. pcb \in [Pcbs -> PcbType]
  <2>1. PICK priority \in [Programs -> Levels] :
           pcb = [p \in Pcbs |-> IF p \in Programs THEN Loaded(p, priority[p]) ELSE NewPcb(p)]
    BY DEF Init
  <2>2. ASSUME NEW p \in Programs PROVE Loaded(p, priority[p]) \in PcbType
    <3>1. program[p].code_size \in Nat
      BY ShapeAssumption DEF Init
    <3>2. InitialTtl(program[p].code_size) \in Nat
      BY <3>1, InitialTtlType
    <3>3. priority[p] \in MIN_PRIORITY .. MAX_PRIORITY
      BY <2>1, PriorityType
    <3>4. NewPcb(p) \in PcbType
      BY NewPcbType DEF Pcbs
    <3>. QED
      BY <3>2, <3>3, <3>4 DEF Loaded, PcbType
  <2>. QED
    BY <2>1, <2>2, NewPcbType DEF Pcbs
<1>3. ready_queue \in Seq(Pcbs)
  <2>1. Cardinality(Programs) \in Nat
    BY PcbAssumption, FS_CardinalityType
  <2>. QED
    BY <2>1 DEF Init, Orders, Pcbs
<1>4. cursor \in [core : Cores, k : 0 .. NumThreads]
  BY SizeAssumption DEF Init, Cores
<1>5. hw_threads \in [Cores -> [Slots -> [pcb : Pcbs \cup {NoPcb}, PC : Nat]]]
  BY DEF Init, Idle
<1>6. /\ priority_queues \in [Levels -> Seq(Pcbs)]
      /\ pcbs \in [Cores -> Seq(PcbType)] /\ \A c \in Cores : Len(pcbs[c]) <= NumThreads
  BY SizeAssumption DEF Init
<1>7. timer \in [at : {"wait", "woken", "callback", "stopped"}, last : 0 .. TickModulus - 1]
  <2>1. 0 \in 0 .. TickModulus - 1 /\ StartTicks \subseteq 0 .. TickModulus - 1
    BY SizeAssumption
  <2>2. CASE SyncMode = "TIMER"
    <3>1. timer \in [at : {"wait"}, last : {t \in StartTicks : t <= clk_counter}]
      BY <2>2 DEF Init
    <3>. QED
      BY <2>1, <3>1
  <2>3. CASE SyncMode # "TIMER"
    <3>1. timer = [at |-> "stopped", last |-> 0]
      BY <2>3 DEF Init
    <3>. QED
      BY <2>1, <3>1
  <2>. QED
    BY <2>2, <2>3
<1>. QED
  BY <1>1, <1>2, <1>3, <1>4, <1>5, <1>6, <1>7 DEF Init, TypeOK

\* The tick of the clock.
LEMMA TickType == TypeOK /\ Tick => TypeOK'
<1>. SUFFICES ASSUME TypeOK, Tick PROVE TypeOK'
  OBVIOUS
<1>1. clk_counter' \in 0 .. TickModulus - 1
  BY SizeAssumption DEF TypeOK, Tick
<1>2. pcb' \in [Pcbs -> PcbType]
  <2>1. ASSUME NEW p \in Pcbs PROVE TickedPcb(p) \in PcbType
    <3>. DEFINE halts == Executes(p) /\ AtHalt(p, ThreadOf(p).PC)
                exits == halts /\ program[pcb[p].pgb].op = "EXIT"
                t == IF exits THEN 0 ELSE IF pcb[p].ttl > 0 THEN pcb[p].ttl - 1 ELSE pcb[p].ttl
                st == IF halts THEN "TERMINATED" ELSE pcb[p].state
    <3>1. pcb[p] \in PcbType
      BY DEF TypeOK
    <3>2. t \in Nat
      <4>1. pcb[p].ttl \in Nat
        BY <3>1 DEF PcbType
      <4>. HIDE DEF exits
      <4>. QED
        BY <4>1
    <3>3. st \in {"WAITING", "RUNNING", "TERMINATED"}
      <4>1. pcb[p].state \in {"WAITING", "RUNNING", "TERMINATED"}
        BY <3>1 DEF PcbType
      <4>. HIDE DEF halts
      <4>. QED
        BY <4>1
    <3>4. TickedPcb(p) = [pcb[p] EXCEPT !.ttl = t, !.state = st]
      BY DEF TickedPcb
    <3>. HIDE DEF t, st
    <3>. QED
      BY <3>1, <3>2, <3>3, <3>4 DEF PcbType
  <2>. QED
    BY <2>1 DEF Tick, TypeOK
<1>3. hw_threads' \in [Cores -> [Slots -> [pcb : Pcbs \cup {NoPcb}, PC : Nat]]]
  <2>1. ASSUME NEW c \in Cores, NEW k \in Slots
        PROVE  TickedThread(hw_threads[c][k]) \in [pcb : Pcbs \cup {NoPcb}, PC : Nat]
    <3>1. hw_threads[c][k] \in [pcb : Pcbs \cup {NoPcb}, PC : Nat]
      BY DEF TypeOK
    <3>2. \A h \in [pcb : Pcbs \cup {NoPcb}, PC : Nat] :
             [h EXCEPT !.PC = h.PC + 1] \in [pcb : Pcbs \cup {NoPcb}, PC : Nat]
      OBVIOUS
    <3>. QED
      BY <3>1, <3>2 DEF TickedThread
  <2>. QED
    BY <2>1 DEF Tick
<1>4. timer' \in [at : {"wait", "woken", "callback", "stopped"}, last : 0 .. TickModulus - 1]
  BY DEF TypeOK, Tick, WokenTimer
<1>. QED
  BY <1>1, <1>2, <1>3, <1>4 DEF TypeOK, Tick, queueVars, countVars, schedVars

\* What RemoveFromCore does to the arrays of the core and to the cursor.
LEMMA RemoveType ==
    ASSUME TypeOK, NEW c \in Cores, NEW k \in 1 .. current_pcb_count(c),
           cursor.k = k, RemoveFromCore(c, k)
    PROVE  /\ hw_threads' \in [Cores -> [Slots -> [pcb : Pcbs \cup {NoPcb}, PC : Nat]]]
           /\ pcbs' \in [Cores -> Seq(PcbType)]
           /\ \A d \in Cores : Len(pcbs'[d]) <= NumThreads
           /\ cursor' \in [core : Cores, k : 0 .. NumThreads]
<1>1. pcbs[c] \in Seq(PcbType) /\ Len(pcbs[c]) \in 0 .. NumThreads /\ NumThreads \in Nat
  BY SizeAssumption, LenProperties DEF TypeOK
<1>2. ShiftThreads(hw_threads[c], k, Len(pcbs[c])) \in [Slots -> [pcb : Pcbs \cup {NoPcb}, PC : Nat]]
  <2>. DEFINE Row == [pcb : Pcbs \cup {NoPcb}, PC : Nat]
  <2>1. hw_threads[c] \in [Slots -> Row]
    BY DEF TypeOK
  <2>2. Idle \in Row
    BY DEF Idle
  <2>. HIDE DEF Row
  <2>3. \A j \in Slots : j < Len(pcbs[c]) => j + 1 \in Slots
    BY <1>1 DEF Slots
  <2>4. ShiftThreads(hw_threads[c], k, Len(pcbs[c])) \in [Slots -> Row]
    BY <2>1, <2>2, <2>3 DEF ShiftThreads
  <2>. QED
    BY <2>4 DEF Row
<1>3. DropAt(pcbs[c], k) \in Seq(PcbType) /\ Len(DropAt(pcbs[c], k)) = Len(pcbs[c]) - 1
  BY <1>1, DropAtProperties DEF current_pcb_count
<1>4. hw_threads' \in [Cores -> [Slots -> [pcb : Pcbs \cup {NoPcb}, PC : Nat]]]
  BY <1>2 DEF RemoveFromCore, TypeOK, current_pcb_count
<1>5. pcbs' \in [Cores -> Seq(PcbType)] /\ \A d \in Cores : Len(pcbs'[d]) <= NumThreads
  BY <1>1, <1>3 DEF RemoveFromCore, TypeOK
<1>6. cursor' \in [core : Cores, k : 0 .. NumThreads]
  <2>1. cursor \in [core : Cores, k : 0 .. NumThreads] /\ k - 1 \in 0 .. NumThreads
    BY <1>1 DEF TypeOK, current_pcb_count
  <2>. QED
    BY <2>1 DEF RemoveFromCore
<1>. QED
  BY <1>4, <1>5, <1>6

\* A process in a queue, after enqueue_to_scheduler.
LEMMA EnqueueType ==
    ASSUME TypeOK, NEW p \in Pcbs, NEW v, EnqueueToScheduler(p, v)
    PROVE  ready_queue' \in Seq(Pcbs) /\ priority_queues' \in [Levels -> Seq(Pcbs)]
<1>1. ReadyCapacity \in Nat /\ LevelCapacity \in Nat
  BY SizeAssumption DEF LevelCapacity
<1>2. \A q \in Seq(Pcbs) : /\ Enqueued(q, p, ReadyCapacity) \in Seq(Pcbs)
                           /\ Enqueued(q, p, LevelCapacity) \in Seq(Pcbs)
  BY <1>1, EnqueuedProperties
<1>3. CASE Policy = "PRIO"
  <2>1. /\ priority_queues' = [priority_queues EXCEPT ![v] = Enqueued(priority_queues[v], p, LevelCapacity)]
        /\ ready_queue' = ready_queue
    BY <1>3 DEF EnqueueToScheduler
  <2>2. priority_queues \in [Levels -> Seq(Pcbs)] /\ ready_queue \in Seq(Pcbs)
    BY DEF TypeOK
  <2>3. v \in Levels => Enqueued(priority_queues[v], p, LevelCapacity) \in Seq(Pcbs)
    BY <1>2, <2>2
  <2>. QED
    BY <2>1, <2>2, <2>3
<1>4. CASE Policy # "PRIO"
  BY <1>2, <1>4 DEF EnqueueToScheduler, TypeOK
<1>. QED
  BY <1>3, <1>4

\* A completion keeps the types.
LEMMA CompleteType ==
    ASSUME TypeOK, NEW c \in Cores, NEW k \in Slots, NEW p \in Pcbs, CompleteProcess(c, k, p)
    PROVE  TypeOK'
<1>1. /\ k \in 1 .. current_pcb_count(c) /\ cursor.k = k /\ RemoveFromCore(c, k)
      /\ pcb' = [pcb EXCEPT ![p].quantum_counter = @ + 1, ![p].pgb = NoPcb]
  BY DEF CompleteProcess, Visits
<1>2. pcb \in [Pcbs -> PcbType] /\ pcb[p] \in PcbType
  BY DEF TypeOK
<1>3. [pcb[p] EXCEPT !.quantum_counter = @ + 1, !.pgb = NoPcb] \in PcbType
  <2>1. [pcb[p] EXCEPT !.quantum_counter = @ + 1] \in PcbType
    BY <1>2 DEF PcbType
  <2>2. \A r \in PcbType : [r EXCEPT !.pgb = NoPcb] \in PcbType
    BY DEF PcbType
  <2>3. [[pcb[p] EXCEPT !.quantum_counter = @ + 1] EXCEPT !.pgb = NoPcb] \in PcbType
    BY <2>1, <2>2
  <2>. QED
    BY <2>3
<1>4. pcb' = [pcb EXCEPT ![p] = [pcb[p] EXCEPT !.quantum_counter = @ + 1, !.pgb = NoPcb]]
  BY <1>1, <1>2 DEF PcbType
<1>5. pcb' \in [Pcbs -> PcbType]
  <2>. HIDE DEF PcbType
  <2>. QED
    BY <1>2, <1>3, <1>4
<1>6. /\ hw_threads' \in [Cores -> [Slots -> [pcb : Pcbs \cup {NoPcb}, PC : Nat]]]
      /\ pcbs' \in [Cores -> Seq(PcbType)]
      /\ \A d \in Cores : Len(pcbs'[d]) <= NumThreads
      /\ cursor' \in [core : Cores, k : 0 .. NumThreads]
  BY <1>1, RemoveType
<1>7. total_completed' \in Nat /\ destroyed' \subseteq Pcbs
  BY DEF TypeOK, CompleteProcess
<1>. QED
  BY <1>5, <1>6, <1>7 DEF TypeOK, CompleteProcess, queueVars, deviceVars

\* An expiry keeps the types.
LEMMA ExpireType ==
    ASSUME TypeOK, NEW c \in Cores, NEW k \in Slots, NEW p \in Pcbs, ExpireQuantum(c, k, p)
    PROVE  TypeOK'
<1>1. /\ k \in 1 .. current_pcb_count(c) /\ cursor.k = k /\ RemoveFromCore(c, k)
      /\ EnqueueToScheduler(p, pcb[p].priority)
      /\ pcb' = [pcb EXCEPT ![p] = SavedPcb(p, hw_threads[c][k].PC)]
  BY DEF ExpireQuantum, Visits
<1>2. SavedPcb(p, hw_threads[c][k].PC) \in PcbType
  <2>1. pcb[p] \in PcbType /\ hw_threads[c][k].PC \in Nat /\ Deadline(p) \in Int
    BY DeadlineType DEF TypeOK
  <2>2. (IF Policy = "BFS" THEN Deadline(p) ELSE pcb[p].virtual_deadline) \in Int
    BY <2>1 DEF PcbType
  <2>. QED
    BY <2>1, <2>2 DEF SavedPcb, PcbType
<1>3. pcb' \in [Pcbs -> PcbType]
  BY <1>1, <1>2 DEF TypeOK
<1>4. timer' \in [at : {"wait", "woken", "callback", "stopped"}, last : 0 .. TickModulus - 1]
  BY DEF TypeOK, ExpireQuantum, WokenTimer
<1>. QED
  BY <1>1, <1>3, <1>4, RemoveType, EnqueueType DEF TypeOK, ExpireQuantum, countVars

\* A process that keeps executing keeps the types.
LEMMA KeepType ==
    ASSUME TypeOK, NEW c \in Cores, NEW k \in Slots, NEW p \in Pcbs, KeepExecuting(c, k, p)
    PROVE  TypeOK'
<1>1. cursor' \in [core : Cores, k : 0 .. NumThreads]
  <2>1. cursor.k = k /\ k \in 1 .. NumThreads /\ cursor \in [core : Cores, k : 0 .. NumThreads]
    BY DEF KeepExecuting, Visits, TypeOK, Slots
  <2>2. k - 1 \in 0 .. NumThreads
    BY <2>1, SizeAssumption
  <2>. QED
    BY <2>1, <2>2 DEF KeepExecuting
<1>2. pcb' \in [Pcbs -> PcbType]
  <2>1. pcb \in [Pcbs -> PcbType] /\ pcb[p] \in PcbType
    BY DEF TypeOK
  <2>2. [pcb[p] EXCEPT !.quantum_counter = @ + 1] \in PcbType
    BY <2>1 DEF PcbType
  <2>3. pcb' = [pcb EXCEPT ![p] = [pcb[p] EXCEPT !.quantum_counter = @ + 1]]
    BY <2>1 DEF KeepExecuting, PcbType
  <2>. QED
    BY <2>1, <2>2, <2>3
<1>. QED
  BY <1>1, <1>2 DEF TypeOK, KeepExecuting, queueVars, machineVars, countVars, deviceVars

\* The loop variables at the start of a core.
LEMMA CursorType ==
    ASSUME TypeOK, NEW c \in Cores
    PROVE  [core |-> c, k |-> current_pcb_count(c)] \in [core : Cores, k : 0 .. NumThreads]
<1>1. pcbs[c] \in Seq(PcbType) /\ Len(pcbs[c]) <= NumThreads
  BY DEF TypeOK
<1>2. Len(pcbs[c]) \in 0 .. NumThreads
  BY <1>1, LenProperties, SizeAssumption
<1>. QED
  BY <1>2 DEF current_pcb_count

\* The wake-ups of the scheduler keep the types.
LEMMA WakeType == TypeOK /\ (WakeOnTick \/ WakeOnTimer \/ NextCore) => TypeOK'
<1>. SUFFICES ASSUME TypeOK, WakeOnTick \/ WakeOnTimer \/ NextCore PROVE TypeOK'
  OBVIOUS
<1>1. 1 \in Cores /\ (NextCore => cursor.core + 1 \in Cores)
  BY SizeAssumption DEF Cores, NextCore, TypeOK
<1>2. cursor' \in [core : Cores, k : 0 .. NumThreads]
  BY <1>1, CursorType DEF WakeOnTick, WakeOnTimer, NextCore, StartPass
<1>. QED
  BY <1>2 DEF TypeOK, WakeOnTick, WakeOnTimer, NextCore, StartPass,
              queueVars, machineVars, countVars, deviceVars

\* An arrival leaves the queues well typed.
LEMMA ArrivesType ==
    ASSUME TypeOK, NEW p \in Pcbs, NEW queues \in [Levels -> Seq(Pcbs)],
           Transfers(p), Arrives(p, queues)
    PROVE  /\ ready_queue' \in Seq(Pcbs) /\ priority_queues' \in [Levels -> Seq(Pcbs)]
           /\ sched' \in {sched, "dispatch"}
<1>1. ready_queue \in Seq(Pcbs) /\ ready_queue # <<>> /\ Tail(ready_queue) \in Seq(Pcbs)
  BY HeadTailProperties DEF TypeOK, Transfers
<1>2. Append(Tail(ready_queue), p) \in Seq(Pcbs)
  BY <1>1, AppendProperties
<1>. DEFINE level == pcb[p].priority
<1>3. [queues EXCEPT ![level] = Append(queues[level], p)] \in [Levels -> Seq(Pcbs)]
  <2>1. level \in Levels => Append(queues[level], p) \in Seq(Pcbs)
    BY AppendProperties
  <2>. HIDE DEF level
  <2>. QED
    BY <2>1
<1>. QED
  BY <1>1, <1>2, <1>3 DEF Arrives

\* The transfers between the priority queues keep the types.
LEMMA TransferType == TypeOK /\ (TransferArrival \/ TransferPreempting) => TypeOK'
<1>. SUFFICES ASSUME TypeOK, TransferArrival \/ TransferPreempting PROVE TypeOK'
  OBVIOUS
<1>1. CASE TransferArrival
  <2>1. PICK p \in Pcbs : /\ Transfers(p) /\ Arrives(p, priority_queues)
                          /\ UNCHANGED <<clk_counter, running, program, pcb, machineVars, countVars,
                                         last_tick, cursor, deviceVars, main>>
    BY <1>1 DEF TransferArrival
  <2>2. priority_queues \in [Levels -> Seq(Pcbs)]
    BY DEF TypeOK
  <2>. QED
    BY <2>1, <2>2, ArrivesType DEF TypeOK, machineVars, countVars, deviceVars
<1>2. CASE TransferPreempting
  <2>. DEFINE c == Victim[1]
              k == Victim[2]
              v == pcbs[c][k].priority
              requeued(f) == [priority_queues EXCEPT
                                 ![v] = Enqueued(priority_queues[v], f, LevelCapacity)]
  <2>1. PICK p \in Pcbs, f \in FreshClones :
           /\ Transfers(p) /\ MustPreempt(p)
           /\ pcb' = [pcb EXCEPT ![f] = CloneOf(pcbs[c][k])]
           /\ Arrives(p, requeued(f))
           /\ pcbs' = [pcbs EXCEPT ![c] = DropAt(pcbs[c], k)]
           /\ UNCHANGED <<clk_counter, running, program, hw_threads, countVars,
                          last_tick, cursor, deviceVars, main>>
    BY <1>2 DEF TransferPreempting
  <2>2. f \in Pcbs /\ c \in Cores /\ k \in 1 .. Len(pcbs[c]) /\ pcbs[c] \in Seq(PcbType)
    <3>1. Victim \in Copies
      BY <2>1, VictimIsACopy DEF MustPreempt
    <3>2. Victim \in Cores \X Slots /\ k <= Len(pcbs[c])
      BY <3>1 DEF Copies, current_pcb_count
    <3>3. c \in Cores /\ k \in 1 .. NumThreads
      BY <3>2 DEF Slots
    <3>4. pcbs[c] \in Seq(PcbType)
      BY <3>3 DEF TypeOK
    <3>. QED
      BY <2>1, <3>2, <3>3, <3>4, LenProperties, SizeAssumption DEF FreshClones, Pcbs
  <2>3. pcb' \in [Pcbs -> PcbType]
    <3>1. pcbs[c][k] \in PcbType
      BY <2>2, ElementOfSeq
    <3>2. NewPcb(pcbs[c][k].pid) \in PcbType
      BY <3>1, NewPcbType DEF PcbType
    <3>3. CloneOf(pcbs[c][k]) \in PcbType
      BY <3>1, <3>2 DEF CloneOf, PcbType
    <3>. QED
      BY <2>1, <3>3 DEF TypeOK
  <2>4. requeued(f) \in [Levels -> Seq(Pcbs)]
    <3>1. priority_queues \in [Levels -> Seq(Pcbs)] /\ LevelCapacity \in Nat
      BY SizeAssumption DEF TypeOK, LevelCapacity
    <3>2. v \in Levels => Enqueued(priority_queues[v], f, LevelCapacity) \in Seq(Pcbs)
      BY <3>1, <2>2, EnqueuedProperties
    <3>. HIDE DEF v
    <3>. QED
      BY <3>1, <3>2
  <2>5. pcbs' \in [Cores -> Seq(PcbType)] /\ \A d \in Cores : Len(pcbs'[d]) <= NumThreads
    <3>1. DropAt(pcbs[c], k) \in Seq(PcbType) /\ Len(DropAt(pcbs[c], k)) = Len(pcbs[c]) - 1
      BY <2>2, DropAtProperties
    <3>2. Len(pcbs[c]) \in Nat
      BY <2>2, LenProperties
    <3>. HIDE DEF c, k
    <3>. QED
      BY <2>1, <2>2, <3>1, <3>2, SizeAssumption DEF TypeOK
  <2>6. /\ ready_queue' \in Seq(Pcbs) /\ priority_queues' \in [Levels -> Seq(Pcbs)]
        /\ sched' \in {sched, "dispatch"}
    BY <2>1, <2>4, ArrivesType
  <2>. QED
    BY <2>1, <2>3, <2>5, <2>6 DEF TypeOK, countVars, deviceVars
<1>. QED
  BY <1>1, <1>2

\* Handing a hardware thread to a process.
LEMMA DispatchesType ==
    ASSUME TypeOK, NEW p \in Pcbs, CanDispatch, Dispatches(p),
           ready_queue' \in Seq(Pcbs), priority_queues' \in [Levels -> Seq(Pcbs)]
    PROVE  TypeOK'
<1>. DEFINE c == FirstRoom
            k == Len(pcbs[c]) + 1
<1>1. c \in Cores /\ pcbs[c] \in Seq(PcbType) /\ Len(pcbs[c]) < NumThreads
  <2>1. c \in RoomyCores
    BY FirstRoomIsRoomy DEF CanDispatch
  <2>. QED
    BY <2>1 DEF RoomyCores, current_pcb_count, TypeOK
<1>2. k \in Slots
  BY <1>1, LenProperties, SizeAssumption DEF Slots
<1>3. Started(p) \in PcbType
  <2>1. pcb[p] \in PcbType /\ Deadline(p) \in Int
    BY DeadlineType DEF TypeOK
  <2>2. (IF Policy = "BFS" /\ pcb[p].virtual_deadline = 0 THEN Deadline(p)
                                                         ELSE pcb[p].virtual_deadline) \in Int
    BY <2>1 DEF PcbType
  <2>. QED
    BY <2>1, <2>2 DEF Started, PcbType
<1>4. /\ pcb' = [pcb EXCEPT ![p] = Started(p)]
      /\ hw_threads' = [hw_threads EXCEPT
            ![c] = [hw_threads[c] EXCEPT ![k] = [pcb |-> p, PC |-> Started(p).pc]]]
      /\ pcbs' = [pcbs EXCEPT ![c] = Append(pcbs[c], Started(p))]
  BY DEF Dispatches, AssignToCore, current_pcb_count
<1>5. pcb' \in [Pcbs -> PcbType]
  BY <1>3, <1>4 DEF TypeOK
<1>6. hw_threads' \in [Cores -> [Slots -> [pcb : Pcbs \cup {NoPcb}, PC : Nat]]]
  <2>1. [pcb |-> p, PC |-> Started(p).pc] \in [pcb : Pcbs \cup {NoPcb}, PC : Nat]
    BY <1>3 DEF PcbType
  <2>. HIDE DEF c, k
  <2>. QED
    BY <2>1, <1>1, <1>2, <1>4 DEF TypeOK
<1>7. pcbs' \in [Cores -> Seq(PcbType)] /\ \A d \in Cores : Len(pcbs'[d]) <= NumThreads
  <2>1. /\ Append(pcbs[c], Started(p)) \in Seq(PcbType)
        /\ Len(Append(pcbs[c], Started(p))) = Len(pcbs[c]) + 1
    BY <1>1, <1>3, AppendProperties
  <2>2. Len(pcbs[c]) + 1 <= NumThreads
    BY <1>1, LenProperties, SizeAssumption
  <2>. HIDE DEF c
  <2>. QED
    BY <2>1, <2>2, <1>1, <1>4 DEF TypeOK
<1>. QED
  BY <1>5, <1>6, <1>7 DEF TypeOK, Dispatches, countVars, schedVars, deviceVars

\* A dispatch keeps the types.
LEMMA DispatchType ==
    TypeOK /\ (DispatchRoundRobin \/ DispatchBFS \/ DispatchPriority) => TypeOK'
<1>. SUFFICES ASSUME TypeOK, DispatchRoundRobin \/ DispatchBFS \/ DispatchPriority PROVE TypeOK'
  OBVIOUS
<1>1. CASE DispatchRoundRobin
  <2>1. ready_queue \in Seq(Pcbs) /\ ready_queue # <<>>
    BY <1>1 DEF TypeOK, DispatchRoundRobin, CanDispatch, has_ready_processes
  <2>2. Head(ready_queue) \in Pcbs /\ Tail(ready_queue) \in Seq(Pcbs)
    BY <2>1, HeadTailProperties
  <2>. QED
    BY <1>1, <2>2, DispatchesType DEF DispatchRoundRobin, TypeOK
<1>2. CASE DispatchBFS
  <2>1. PICK i \in 1 .. Len(ready_queue) :
           /\ ready_queue' = BfsRemove(ready_queue, i, ReadyCapacity)
           /\ UNCHANGED priority_queues /\ Dispatches(ready_queue[i])
    BY <1>2 DEF DispatchBFS
  <2>2. ready_queue \in Seq(Pcbs) /\ ReadyCapacity \in Nat
    BY SizeAssumption DEF TypeOK
  <2>3. ready_queue[i] \in Pcbs /\ ready_queue' \in Seq(Pcbs)
    BY <2>1, <2>2, ElementOfSeq, BfsRemoveProperties
  <2>. QED
    BY <1>2, <2>1, <2>3, DispatchesType DEF DispatchBFS, TypeOK
<1>3. CASE DispatchPriority
  <2>1. TopLevel \in Levels /\ priority_queues[TopLevel] # <<>>
    BY <1>3, TopLevelIsReady DEF DispatchPriority, CanDispatch, has_ready_processes, ReadyLevels
  <2>2. /\ Head(priority_queues[TopLevel]) \in Pcbs
        /\ Tail(priority_queues[TopLevel]) \in Seq(Pcbs)
    BY <2>1, HeadTailProperties DEF TypeOK
  <2>3. priority_queues' \in [Levels -> Seq(Pcbs)] /\ ready_queue' \in Seq(Pcbs)
    BY <1>3, <2>1, <2>2 DEF DispatchPriority, TypeOK
  <2>. QED
    BY <1>3, <2>2, <2>3, DispatchesType DEF DispatchPriority
<1>. QED
  BY <1>1, <1>2, <1>3

\* The shutdown frees what the queues hold.
LEMMA CleanUpType == TypeOK /\ (DestroyScheduler \/ StopClockAndTimers \/ CleanReadyQueue) => TypeOK'
<1>. SUFFICES ASSUME TypeOK, DestroyScheduler \/ StopClockAndTimers \/ CleanReadyQueue PROVE TypeOK'
  OBVIOUS
<1>1. \A q \in Seq(Pcbs) : {q[i] : i \in DOMAIN q} \subseteq Pcbs
  BY LenProperties, ElementOfSeq
<1>2. CASE DestroyScheduler
  <2>1. UNION {{priority_queues[v][i] : i \in DOMAIN priority_queues[v]} : v \in Levels} \subseteq Pcbs
    <3>1. \A v \in Levels : priority_queues[v] \in Seq(Pcbs)
      BY DEF TypeOK
    <3>. QED
      BY <1>1, <3>1
  <2>2. destroyed' \subseteq Pcbs
    BY <1>2, <2>1 DEF DestroyScheduler, TypeOK
  <2>3. priority_queues' \in [Levels -> Seq(Pcbs)]
    BY <1>2 DEF DestroyScheduler
  <2>. QED
    BY <1>2, <2>2, <2>3 DEF TypeOK, DestroyScheduler, machineVars, schedVars, deviceVars
<1>3. CASE StopClockAndTimers
  BY <1>3 DEF TypeOK, StopClockAndTimers, queueVars, machineVars, countVars, schedVars
<1>4. CASE CleanReadyQueue
  <2>1. destroyed' \subseteq Pcbs
    BY <1>1, <1>4 DEF CleanReadyQueue, TypeOK
  <2>. QED
    BY <1>4, <2>1 DEF TypeOK, CleanReadyQueue, machineVars, schedVars, deviceVars
<1>. QED
  BY <1>2, <1>3, <1>4

\* The actions that change nothing but the place where a thread is.
LEMMA ControlType ==
    TypeOK /\ (ClockStops \/ TimerChecks \/ TimerCallback \/ StopWaiting \/ EndScan \/ EndTransfer
               \/ EndPass \/ Interrupt \/ WakeEverybody \/ Halted) => TypeOK'
<1>. USE DEF TypeOK, queueVars, machineVars, countVars, schedVars, deviceVars
<1>1. TypeOK /\ ClockStops => TypeOK'
  BY DEF ClockStops
<1>2. TypeOK /\ TimerChecks => TypeOK'
  <2>. SUFFICES ASSUME TypeOK, TimerChecks PROVE TypeOK'
    OBVIOUS
  <2>1. /\ timer \in [at : {"wait", "woken", "callback", "stopped"}, last : 0 .. TickModulus - 1]
        /\ clk_counter \in 0 .. TickModulus - 1
    OBVIOUS
  <2>2. \/ timer' = [timer EXCEPT !.at = "stopped"]
        \/ timer' = [timer EXCEPT !.at = "wait"]
        \/ timer' = [at |-> "callback", last |-> clk_counter]
    BY DEF TimerChecks
  <2>3. timer' \in [at : {"wait", "woken", "callback", "stopped"}, last : 0 .. TickModulus - 1]
    <3>. HIDE DEF TypeOK
    <3>. QED
      BY <2>1, <2>2
  <2>. QED
    BY <2>3 DEF TimerChecks
<1>3. TypeOK /\ TimerCallback => TypeOK'
  BY DEF TimerCallback, SchedAfterSignal
<1>4. TypeOK /\ StopWaiting => TypeOK'
  BY DEF StopWaiting
<1>5. TypeOK /\ EndScan => TypeOK'
  BY DEF EndScan
<1>6. TypeOK /\ EndTransfer => TypeOK'
  BY DEF EndTransfer
<1>7. TypeOK /\ EndPass => TypeOK'
  BY DEF EndPass
<1>8. TypeOK /\ Interrupt => TypeOK'
  BY DEF Interrupt
<1>9. TypeOK /\ WakeEverybody => TypeOK'
  BY DEF WakeEverybody, WokenTimer, SchedAfterSignal
<1>10. TypeOK /\ Halted => TypeOK'
  BY DEF Halted, vars
<1>. QED
  BY <1>1, <1>2, <1>3, <1>4, <1>5, <1>6, <1>7, <1>8, <1>9, <1>10

\* Every step keeps the types.
LEMMA NextType == TypeOK /\ [Next]_vars => TypeOK'
<1>. SUFFICES ASSUME TypeOK, [Next]_vars PROVE TypeOK'
  OBVIOUS
<1>1. CASE ScanStep
  BY <1>1, CompleteType, ExpireType, KeepType DEF ScanStep
<1>2. CASE Tick
  BY <1>2, TickType
<1>3. CASE WakeOnTick \/ WakeOnTimer \/ NextCore
  BY <1>3, WakeType
<1>4. CASE TransferArrival \/ TransferPreempting
  BY <1>4, TransferType
<1>5. CASE DispatchRoundRobin \/ DispatchBFS \/ DispatchPriority
  BY <1>5, DispatchType
<1>6. CASE DestroyScheduler \/ StopClockAndTimers \/ CleanReadyQueue
  BY <1>6, CleanUpType
<1>7. CASE \/ ClockStops \/ TimerChecks \/ TimerCallback \/ StopWaiting \/ EndScan \/ EndTransfer
           \/ EndPass \/ Interrupt \/ WakeEverybody \/ Halted
  BY <1>7, ControlType
<1>8. CASE UNCHANGED vars
  BY <1>8 DEF TypeOK, vars, queueVars, machineVars, countVars, schedVars, deviceVars
<1>. QED
  BY <1>1, <1>2, <1>3, <1>4, <1>5, <1>6, <1>7, <1>8
     DEF Next, ClockStep, TimerStep, SchedulerStep, MainStep

\* In every run the variables keep their types: in particular no core is ever
\* given more processes than it has threads, and the scan stays in the machine.
THEOREM TypeCorrect == Spec => []TypeOK
BY InitType, NextType, PTL DEF Spec

----------------------------------------------------------------------------
(* The policies and queue sizes of the theorems that follow.                *)

\* The policies and queue sizes that the theorems are about.
RoomyQueue ==
    \/ Policy = "RR"
    \/ Policy = "BFS" /\ 2 * Cardinality(Programs) < ReadyCapacity + 3

----------------------------------------------------------------------------
(* Queues without repetition.                                              *)

Holds(q, p) == \E i \in 1 .. Len(q) : q[i] = p
Distinct(q) == \A i, j \in 1 .. Len(q) : q[i] = q[j] => i = j

\* Appending an element that a queue does not hold adds it, and it alone.
LEMMA AppendHolds ==
    ASSUME NEW S, NEW q \in Seq(S), NEW x \in S, Distinct(q), ~Holds(q, x)
    PROVE  /\ Distinct(Append(q, x))
           /\ \A p \in S : Holds(Append(q, x), p) <=> Holds(q, p) \/ p = x
<1>. DEFINE r == Append(q, x)
            n == Len(q)
<1>1. /\ n \in Nat /\ Len(r) = n + 1 /\ r[n + 1] = x
      /\ \A i \in 1 .. n : r[i] = q[i]
  BY AppendProperties, LenProperties
<1>2. \A i \in 1 .. n + 1 : i \in 1 .. n \/ i = n + 1
  BY <1>1
<1>3. \A i \in 1 .. n : i \in 1 .. n + 1 /\ i # n + 1
  BY <1>1
<1>4. n + 1 \in 1 .. n + 1
  BY <1>1
<1>. HIDE DEF r, n
<1>5. Distinct(q) <=> \A i, j \in 1 .. n : q[i] = q[j] => i = j
  BY DEF Distinct, n
<1>6. \A p : Holds(q, p) <=> \E i \in 1 .. n : q[i] = p
  BY DEF Holds, n
<1>7. \A p : Holds(r, p) <=> \E i \in 1 .. n + 1 : r[i] = p
  BY <1>1 DEF Holds
<1>8. Distinct(r)
  BY <1>1, <1>2, <1>5, <1>6 DEF Distinct
<1>9. \A p : Holds(r, p) <=> Holds(q, p) \/ p = x
  BY <1>1, <1>2, <1>3, <1>4, <1>6, <1>7
<1>. QED
  BY <1>8, <1>9 DEF r

\* The sequence r is q without its element i, as DropAt and Tail leave it.
Closes(r, q, i) ==
    /\ Len(r) = Len(q) - 1
    /\ \A j \in 1 .. Len(q) - 1 : r[j] = IF j < i THEN q[j] ELSE q[j + 1]

\* Closing the gap at i takes that element out, and it alone.
LEMMA ClosesHolds ==
    ASSUME NEW S, NEW q \in Seq(S), NEW r \in Seq(S), NEW i \in 1 .. Len(q),
           Closes(r, q, i), Distinct(q)
    PROVE  /\ Distinct(r)
           /\ \A p \in S : Holds(r, p) <=> Holds(q, p) /\ p # q[i]
<1>. DEFINE n == Len(q)
            from(j) == IF j < i THEN j ELSE j + 1
<1>1. n \in Nat /\ n - 1 \in Nat /\ i \in 1 .. n /\ Len(r) = n - 1
  BY LenProperties DEF Closes
<1>2. \A j \in 1 .. n - 1 : r[j] = q[from(j)] /\ from(j) \in 1 .. n /\ from(j) # i
  BY <1>1 DEF Closes
<1>3. \A j, l \in 1 .. n - 1 : from(j) = from(l) => j = l
  BY <1>1
<1>4. \A j \in 1 .. n : j # i => \E l \in 1 .. n - 1 : from(l) = j
  <2>. SUFFICES ASSUME NEW j \in 1 .. n, j # i PROVE \E l \in 1 .. n - 1 : from(l) = j
    OBVIOUS
  <2>1. CASE j < i
    BY <1>1, <2>1
  <2>2. CASE j > i
    <3>1. j - 1 \in 1 .. n - 1 /\ from(j - 1) = j
      BY <1>1, <2>2
    <3>. QED
      BY <3>1
  <2>. QED
    BY <1>1, <2>1, <2>2
<1>5. \A j, l \in 1 .. n : q[j] = q[l] => j = l
  BY DEF Distinct
<1>6. \A p : Holds(q, p) <=> \E j \in 1 .. n : q[j] = p
  BY DEF Holds
<1>7. \A p : Holds(r, p) <=> \E j \in 1 .. n - 1 : r[j] = p
  BY <1>1 DEF Holds
<1>. HIDE DEF from, n
<1>8. Distinct(r)
  BY <1>1, <1>2, <1>3, <1>5 DEF Distinct
<1>9. ASSUME NEW p PROVE Holds(r, p) <=> Holds(q, p) /\ p # q[i]
  <2>1. ASSUME Holds(r, p) PROVE Holds(q, p) /\ p # q[i]
    <3>1. PICK l \in 1 .. n - 1 : r[l] = p
      BY <2>1, <1>7
    <3>2. from(l) \in 1 .. n /\ q[from(l)] = p /\ from(l) # i
      BY <3>1, <1>2
    <3>. QED
      BY <3>2, <1>1, <1>5, <1>6
  <2>2. ASSUME Holds(q, p), p # q[i] PROVE Holds(r, p)
    <3>1. PICK j \in 1 .. n : q[j] = p /\ j # i
      BY <2>2, <1>6
    <3>2. PICK l \in 1 .. n - 1 : from(l) = j
      BY <3>1, <1>4
    <3>. QED
      BY <3>1, <3>2, <1>2, <1>7
  <2>. QED
    BY <2>1, <2>2
<1>. QED
  BY <1>8, <1>9

\* A queue without repetition is no longer than the programs are many.
LEMMA DistinctFits ==
    ASSUME NEW q \in Seq(Programs), Distinct(q)
    PROVE  /\ Len(q) <= Cardinality(Programs)
           /\ Len(q) = Cardinality(Programs) => \A p \in Programs : Holds(q, p)
<1>1. Len(q) \in Nat /\ IsFiniteSet(Programs)
  BY LenProperties, PcbAssumption
<1>2. q \in Injection(1 .. Len(q), Programs)
  BY <1>1, ElementOfSeq, SeqDef DEF Injection, IsInjective, Distinct
<1>3. Cardinality(1 .. Len(q)) = Len(q)
  BY <1>1, FS_Interval, SMTT(30)
<1>4. /\ Len(q) <= Cardinality(Programs)
      /\ Len(q) = Cardinality(Programs) <=> q \in Surjection(1 .. Len(q), Programs)
  BY <1>1, <1>2, <1>3, FS_Injection
<1>. QED
  BY <1>4 DEF Surjection, Holds

----------------------------------------------------------------------------
(* Hardware threads.                                                       *)

ThreadType == [pcb : Pcbs \cup {NoPcb}, PC : Nat]
Rows       == [Cores -> [Slots -> ThreadType]]

On(rows, p) == \E c \in Cores, k \in Slots : rows[c][k].pcb = p

\* The first n[c] threads of each core c are the loaded ones.
PrefixLoaded(rows, n) ==
    \A c \in Cores, k \in Slots : rows[c][k].pcb # NoPcb <=> k <= n[c]

LoadedOnce(rows) ==
    \A c, d \in Cores : \A k, l \in Slots :
        rows[c][k].pcb = rows[d][l].pcb /\ rows[c][k].pcb # NoPcb => c = d /\ k = l

Fewer(n, c)            == [n EXCEPT ![c] = @ - 1]
More(n, c)             == [n EXCEPT ![c] = @ + 1]
Unloaded(rows, n, c, k) == [rows EXCEPT ![c] = ShiftThreads(@, k, n[c])]
Assigned(rows, n, c, h) == [rows EXCEPT ![c] = [@ EXCEPT ![n[c] + 1] = h]]

\* Shifting the threads of a core unloads the process at k, and it alone.
LEMMA ShiftUnloads ==
    ASSUME NEW rows \in Rows, NEW n \in [Cores -> 0 .. NumThreads],
           NEW c \in Cores, NEW k \in 1 .. n[c],
           PrefixLoaded(rows, n), LoadedOnce(rows),
           NEW after, after = Unloaded(rows, n, c, k)
    PROVE  /\ PrefixLoaded(after, Fewer(n, c))
           /\ LoadedOnce(after)
           /\ \A p \in Pcbs : On(after, p) <=> On(rows, p) /\ p # rows[c][k].pcb
<1>. DEFINE m == n[c]
            from(d, l) == IF d = c /\ k <= l THEN l + 1 ELSE l
            moved(d, l) == d # c \/ l < m
<1>1. /\ NumThreads \in Nat /\ m \in 0 .. NumThreads /\ k \in 1 .. m
      /\ Slots = 1 .. NumThreads
  BY SizeAssumption DEF Slots
<1>2. after \in [Cores -> [Slots -> ThreadType]] /\ \A d \in Cores : d # c => after[d] = rows[d]
  <2>1. Idle \in ThreadType
    BY DEF Idle, ThreadType
  <2>2. \A l \in Slots : k <= l /\ l < m => rows[c][l + 1] \in ThreadType
    <3>1. \A l \in Slots : l < m => l + 1 \in Slots
      BY <1>1
    <3>. QED
      BY <3>1 DEF Rows
  <2>3. ShiftThreads(rows[c], k, m) \in [Slots -> ThreadType]
    BY <2>1, <2>2 DEF ShiftThreads, Rows
  <2>. HIDE DEF ThreadType
  <2>. QED
    BY <2>3 DEF Rows, Unloaded
<1>3. \A l \in Slots : after[c][l] = IF l = m THEN Idle
                                     ELSE IF k <= l /\ l < m THEN rows[c][l + 1] ELSE rows[c][l]
  BY DEF ShiftThreads, Rows, Unloaded
<1>4. \A d \in Cores, l \in Slots :
         moved(d, l) => /\ after[d][l].pcb = rows[d][from(d, l)].pcb
                        /\ from(d, l) \in Slots /\ (d = c => from(d, l) # k /\ from(d, l) <= m)
  <2>. SUFFICES ASSUME NEW d \in Cores, NEW l \in Slots, d # c \/ l < m
                PROVE  /\ after[d][l].pcb = rows[d][from(d, l)].pcb
                       /\ from(d, l) \in Slots /\ (d = c => from(d, l) # k /\ from(d, l) <= m)
    OBVIOUS
  <2>1. CASE d # c
    BY <2>1, <1>2
  <2>2. CASE d = c /\ k <= l
    BY <2>2, <1>1, <1>3
  <2>3. CASE d = c /\ l < k
    BY <2>3, <1>1, <1>3
  <2>. QED
    BY <2>1, <2>2, <2>3, <1>1
<1>5. \A d \in Cores, l \in Slots : ~moved(d, l) => after[d][l].pcb = NoPcb
  <2>. SUFFICES ASSUME NEW l \in Slots, ~(l < m) PROVE after[c][l].pcb = NoPcb
    OBVIOUS
  <2>1. CASE l = m
    BY <2>1, <1>3 DEF Idle
  <2>2. CASE l > m
    BY <2>2, <1>1, <1>3 DEF PrefixLoaded
  <2>. QED
    BY <2>1, <2>2, <1>1
<1>6. \A d \in Cores : \A i, l \in Slots : from(d, i) = from(d, l) => i = l
  BY <1>1
<1>. HIDE DEF moved, from, Slots
<1>7. LoadedOnce(after)
  BY <1>4, <1>5, <1>6 DEF LoadedOnce
<1>8. PrefixLoaded(after, Fewer(n, c))
  <2>. SUFFICES ASSUME NEW d \in Cores, NEW l \in Slots
                PROVE  after[d][l].pcb # NoPcb <=> l <= Fewer(n, c)[d]
    BY DEF PrefixLoaded
  <2>1. CASE d # c
    BY <2>1, <1>2 DEF PrefixLoaded, Fewer
  <2>2. CASE d = c
    <3>1. Fewer(n, c)[d] = m - 1
      BY <2>2 DEF Fewer
    <3>2. moved(d, l) <=> l <= m - 1
      BY <1>1, <2>2 DEF moved
    <3>3. moved(d, l) => after[d][l].pcb # NoPcb
      BY <2>2, <1>4 DEF PrefixLoaded
    <3>. QED
      BY <3>1, <3>2, <3>3, <1>5
  <2>. QED
    BY <2>1, <2>2
<1>9. ASSUME NEW p \in Pcbs
      PROVE  On(after, p) <=> On(rows, p) /\ p # rows[c][k].pcb
  <2>0. p # NoPcb /\ k \in Slots
    BY <1>1, PcbAssumption
  <2>1. ASSUME On(after, p) PROVE On(rows, p) /\ p # rows[c][k].pcb
    <3>1. PICK d \in Cores, l \in Slots : after[d][l].pcb = p
      BY <2>1 DEF On
    <3>2. from(d, l) \in Slots /\ rows[d][from(d, l)].pcb = p /\ (d = c => from(d, l) # k)
      BY <3>1, <2>0, <1>4, <1>5
    <3>3. On(rows, p)
      BY <3>2 DEF On
    <3>4. ASSUME p = rows[c][k].pcb PROVE FALSE
      <4>1. \A j \in Slots : rows[d][j].pcb = p => d = c /\ j = k
        BY <3>4, <2>0 DEF LoadedOnce
      <4>. QED
        BY <3>2, <4>1
    <3>. QED
      BY <3>3, <3>4
  <2>2. ASSUME On(rows, p), p # rows[c][k].pcb PROVE On(after, p)
    <3>1. PICK d \in Cores, l \in Slots : rows[d][l].pcb = p
      BY <2>2 DEF On
    <3>2. CASE d # c
      BY <3>1, <3>2, <1>2 DEF On
    <3>3. CASE d = c
      <4>1. l <= m /\ l # k
        BY <2>0, <2>2, <3>1, <3>3 DEF PrefixLoaded
      <4>2. PICK i \in Slots : from(d, i) = l /\ moved(d, i)
        <5>1. CASE l < k
          BY <5>1, <3>3, <1>1 DEF from, moved
        <5>2. CASE l > k
          <6>1. l - 1 \in Slots /\ from(d, l - 1) = l /\ moved(d, l - 1)
            BY <5>2, <4>1, <3>3, <1>1 DEF from, moved
          <6>. QED
            BY <6>1
        <5>. QED
          BY <5>1, <5>2, <4>1, <1>1
      <4>. QED
        BY <4>2, <3>1, <1>4 DEF On
    <3>. QED
      BY <3>2, <3>3
  <2>. QED
    BY <2>1, <2>2
<1>. QED
  BY <1>7, <1>8, <1>9

\* Giving the first free thread of a core to a process that no thread holds
\* loads it, and it alone.
LEMMA AssignLoads ==
    ASSUME NEW rows \in Rows, NEW n \in [Cores -> 0 .. NumThreads],
           NEW c \in Cores, n[c] < NumThreads, NEW h \in ThreadType,
           h.pcb \in Pcbs, ~On(rows, h.pcb),
           PrefixLoaded(rows, n), LoadedOnce(rows),
           NEW after, after = Assigned(rows, n, c, h)
    PROVE  /\ PrefixLoaded(after, More(n, c))
           /\ LoadedOnce(after)
           /\ \A p \in Pcbs : On(after, p) <=> On(rows, p) \/ p = h.pcb
<1>. DEFINE m == n[c] + 1
<1>1. /\ NumThreads \in Nat /\ n[c] \in 0 .. NumThreads /\ Slots = 1 .. NumThreads
      /\ m \in Slots /\ h.pcb # NoPcb
  BY SizeAssumption, PcbAssumption DEF Slots
<1>2. /\ \A d \in Cores : d # c => after[d] = rows[d]
      /\ \A l \in Slots : after[c][l] = IF l = m THEN h ELSE rows[c][l]
  BY <1>1 DEF Rows, Assigned
<1>3. rows[c][m].pcb = NoPcb
  BY <1>1 DEF PrefixLoaded
<1>4. \A d \in Cores, l \in Slots : ~(d = c /\ l = m) => after[d][l] = rows[d][l]
  BY <1>2
<1>5. after[c][m] = h
  BY <1>1, <1>2
<1>6. LoadedOnce(after)
  BY <1>4, <1>5 DEF LoadedOnce, On
<1>7. PrefixLoaded(after, More(n, c))
  BY <1>1, <1>2 DEF PrefixLoaded, More
<1>8. \A p \in Pcbs : On(after, p) <=> On(rows, p) \/ p = h.pcb
  <2>. SUFFICES ASSUME NEW p \in Pcbs PROVE On(after, p) <=> On(rows, p) \/ p = h.pcb
    OBVIOUS
  <2>1. p # NoPcb
    BY PcbAssumption
  <2>. QED
    BY <2>1, <1>1, <1>3, <1>4, <1>5 DEF On
<1>. QED
  BY <1>6, <1>7, <1>8

----------------------------------------------------------------------------
(* The inductive invariant.                                                *)

Counts == [c \in Cores |-> current_pcb_count(c)]

\* The ready queue alone is in use, and holds programs, each once.
QueueOnce ==
    /\ \A v \in Levels : priority_queues[v] = <<>>
    /\ ready_queue \in Seq(Programs) /\ Distinct(ready_queue)

ThreadsOnce == PrefixLoaded(hw_threads, Counts) /\ LoadedOnce(hw_threads)

\* The queue, the threads and the freed PCBs have none in common.
Apart ==
    \A p \in Pcbs :
        /\ On(hw_threads, p) => p \in Programs /\ p \notin destroyed /\ ~Holds(ready_queue, p)
        /\ Holds(ready_queue, p) => p \notin destroyed

\* Every program is in one of the three.
Covered == \A p \in Programs \ destroyed : Holds(ready_queue, p) \/ On(hw_threads, p)

HeldOnce == QueueOnce /\ ThreadsOnce /\ Apart /\ Covered

\* What the type invariant says of the variables that the lemmas are about.
LEMMA TypeFacts ==
    ASSUME TypeOK
    PROVE  /\ hw_threads \in Rows /\ pcb \in [Pcbs -> PcbType]
           /\ pcbs \in [Cores -> Seq(PcbType)]
           /\ Counts \in [Cores -> 0 .. NumThreads]
           /\ \A c \in Cores : Counts[c] = Len(pcbs[c])
           /\ ready_queue \in Seq(Pcbs)
<1>1. pcbs \in [Cores -> Seq(PcbType)] /\ \A c \in Cores : Len(pcbs[c]) <= NumThreads
  BY DEF TypeOK
<1>2. \A c \in Cores : Len(pcbs[c]) \in 0 .. NumThreads
  <2>. SUFFICES ASSUME NEW c \in Cores PROVE Len(pcbs[c]) \in 0 .. NumThreads
    OBVIOUS
  <2>1. Len(pcbs[c]) \in Nat
    BY <1>1, LenProperties
  <2>. QED
    BY <2>1, <1>1, SizeAssumption
<1>3. Counts \in [Cores -> 0 .. NumThreads] /\ \A c \in Cores : Counts[c] = Len(pcbs[c])
  BY <1>2 DEF Counts, current_pcb_count
<1>. QED
  BY <1>1, <1>3 DEF TypeOK, Rows, ThreadType

\* Initially all programs are queued, in an order that holds each once.
LEMMA InitHeldOnce == Init => HeldOnce
<1>. SUFFICES ASSUME Init PROVE HeldOnce
  OBVIOUS
<1>1. IsFiniteSet(Programs) /\ Cardinality(Programs) \in Nat
  BY PcbAssumption, FS_CardinalityType
<1>2. ready_queue \in Seq(Programs) /\ Len(ready_queue) = Cardinality(Programs) /\ Distinct(ready_queue)
  <2>1. ready_queue \in [1 .. Cardinality(Programs) -> Programs]
    BY DEF Init, Orders
  <2>2. ready_queue \in Seq(Programs) /\ Len(ready_queue) = Cardinality(Programs)
    BY <1>1, <2>1
  <2>. QED
    BY <2>1, <2>2 DEF Init, Orders, Distinct
<1>3. \A p \in Programs : Holds(ready_queue, p)
  BY <1>2, DistinctFits
<1>4. /\ \A c \in Cores, k \in Slots : hw_threads[c][k].pcb = NoPcb
      /\ \A c \in Cores : Counts[c] = 0
  BY DEF Init, Idle, Counts, current_pcb_count
<1>5. \A p \in Pcbs : ~On(hw_threads, p)
  BY <1>4, PcbAssumption DEF On
<1>6. ThreadsOnce
  <2>1. \A k \in Slots : ~(k <= 0)
    BY SizeAssumption DEF Slots
  <2>. QED
    BY <1>4, <2>1 DEF ThreadsOnce, PrefixLoaded, LoadedOnce
<1>7. QueueOnce
  BY <1>2 DEF QueueOnce, Init
<1>8. Apart /\ Covered
  BY <1>3, <1>5 DEF Apart, Covered, Init
<1>. QED
  BY <1>6, <1>7, <1>8 DEF HeldOnce

----------------------------------------------------------------------------
(* The scan: a process leaves its thread.                                  *)

\* A removal from a core unloads the process at k, and keeps both arrays in step.
LEMMA UnloadThreads ==
    ASSUME TypeOK, ThreadsOnce, NEW c \in Cores, NEW k \in 1 .. Len(pcbs[c]), RemoveFromCore(c, k)
    PROVE  /\ ThreadsOnce'
           /\ \A p \in Pcbs : On(hw_threads', p) <=> On(hw_threads, p) /\ p # hw_threads[c][k].pcb
<1>1. /\ hw_threads \in Rows /\ pcbs \in [Cores -> Seq(PcbType)]
      /\ Counts \in [Cores -> 0 .. NumThreads] /\ \A d \in Cores : Counts[d] = Len(pcbs[d])
  BY TypeFacts
<1>2. hw_threads' = Unloaded(hw_threads, Counts, c, k)
  BY <1>1 DEF RemoveFromCore, current_pcb_count, Unloaded
<1>3. Counts' = Fewer(Counts, c)
  <2>1. pcbs' = [pcbs EXCEPT ![c] = DropAt(@, k)]
    BY DEF RemoveFromCore
  <2>2. Len(DropAt(pcbs[c], k)) = Len(pcbs[c]) - 1
    BY <1>1, DropAtProperties
  <2>3. \A d \in Cores : Len(pcbs'[d]) = IF d = c THEN Counts[c] - 1 ELSE Counts[d]
    BY <1>1, <2>1, <2>2
  <2>4. Counts' = [d \in Cores |-> Len(pcbs'[d])]
    BY DEF Counts, current_pcb_count
  <2>. QED
    BY <1>1, <2>3, <2>4 DEF Fewer
<1>4. PrefixLoaded(hw_threads, Counts) /\ LoadedOnce(hw_threads) /\ k \in 1 .. Counts[c]
  BY <1>1 DEF ThreadsOnce
<1>5. /\ PrefixLoaded(hw_threads', Fewer(Counts, c)) /\ LoadedOnce(hw_threads')
      /\ \A p \in Pcbs : On(hw_threads', p) <=> On(hw_threads, p) /\ p # hw_threads[c][k].pcb
  <2>. HIDE DEF Counts
  <2>. QED
    BY <1>1, <1>2, <1>4, ShiftUnloads, SMTT(60)
<1>6. ThreadsOnce'
  BY <1>3, <1>5 DEF ThreadsOnce
<1>. QED
  BY <1>5, <1>6

\* A completed process goes from its thread to free().
LEMMA CompleteHeldOnce ==
    ASSUME TypeOK, HeldOnce, NEW c \in Cores, NEW k \in Slots, NEW p \in Pcbs, CompleteProcess(c, k, p)
    PROVE  HeldOnce'
<1>1. /\ k \in 1 .. Len(pcbs[c]) /\ p = hw_threads[c][k].pcb
      /\ RemoveFromCore(c, k) /\ destroyed' = destroyed \cup {p}
      /\ UNCHANGED <<queueVars, main>>
  BY DEF CompleteProcess, Visits, current_pcb_count
<1>2. /\ ThreadsOnce'
      /\ \A q \in Pcbs : On(hw_threads', q) <=> On(hw_threads, q) /\ q # p
  BY <1>1, UnloadThreads DEF HeldOnce
<1>3. On(hw_threads, p)
  BY <1>1 DEF On
<1>4. QueueOnce'
  BY <1>1 DEF HeldOnce, QueueOnce, queueVars
<1>5. ready_queue' = ready_queue
  BY <1>1 DEF queueVars
<1>6. Apart'
  BY <1>1, <1>2, <1>3, <1>5 DEF HeldOnce, Apart
<1>7. Covered'
  BY <1>1, <1>2, <1>5 DEF HeldOnce, Covered, Pcbs
<1>. QED
  BY <1>2, <1>4, <1>6, <1>7 DEF HeldOnce

\* A process whose quantum expires goes from its thread to the queue, which has
\* room for it: the queue and the process are together no more than the programs.
LEMMA ExpireHeldOnce ==
    ASSUME RoomyQueue, TypeOK, HeldOnce,
           NEW c \in Cores, NEW k \in Slots, NEW p \in Pcbs, ExpireQuantum(c, k, p)
    PROVE  HeldOnce'
<1>1. /\ k \in 1 .. Len(pcbs[c]) /\ p = hw_threads[c][k].pcb
      /\ RemoveFromCore(c, k) /\ EnqueueToScheduler(p, pcb[p].priority)
      /\ UNCHANGED <<destroyed, main>>
  BY DEF ExpireQuantum, Visits, current_pcb_count, countVars
<1>2. /\ ThreadsOnce'
      /\ \A q \in Pcbs : On(hw_threads', q) <=> On(hw_threads, q) /\ q # p
  BY <1>1, UnloadThreads DEF HeldOnce
<1>3. On(hw_threads, p)
  BY <1>1 DEF On
<1>4. /\ p \in Programs /\ p \notin destroyed /\ ~Holds(ready_queue, p)
      /\ ready_queue \in Seq(Programs) /\ Distinct(ready_queue)
  BY <1>3 DEF HeldOnce, Apart, QueueOnce
<1>5. /\ ready_queue' = Append(ready_queue, p)
      /\ UNCHANGED priority_queues
  <2>1. ready_queue' = Enqueued(ready_queue, p, ReadyCapacity) /\ UNCHANGED priority_queues
    BY <1>1 DEF RoomyQueue, EnqueueToScheduler
  <2>2. Append(ready_queue, p) \in Seq(Programs) /\ Len(Append(ready_queue, p)) = Len(ready_queue) + 1
    BY <1>4, AppendProperties
  <2>3. Len(ready_queue) + 1 <= Cardinality(Programs)
    BY <1>4, <2>2, AppendHolds, DistinctFits
  <2>4. Len(ready_queue) < ReadyCapacity
    <3>1. Cardinality(Programs) \in Nat /\ Len(ready_queue) \in Nat
      BY <1>4, LenProperties, PcbAssumption, FS_CardinalityType
    <3>. QED
      BY <2>3, <3>1, AdmissionAssumption, SizeAssumption
  <2>. QED
    BY <1>4, <2>1, <2>4, SizeAssumption, EnqueuedProperties
<1>6. /\ Distinct(ready_queue') /\ ready_queue' \in Seq(Programs)
      /\ \A q \in Programs : Holds(ready_queue', q) <=> Holds(ready_queue, q) \/ q = p
  BY <1>4, <1>5, AppendHolds, AppendProperties
<1>7. QueueOnce'
  BY <1>5, <1>6 DEF HeldOnce, QueueOnce
<1>8. \A q \in Pcbs : Holds(ready_queue', q) => q \in Programs
  BY <1>6, ElementOfSeq DEF Holds
<1>9. Apart'
  BY <1>1, <1>2, <1>4, <1>6, <1>8 DEF HeldOnce, Apart, Pcbs
<1>10. Covered'
  BY <1>1, <1>2, <1>6 DEF HeldOnce, Covered, Pcbs
<1>. QED
  BY <1>2, <1>7, <1>9, <1>10 DEF HeldOnce

----------------------------------------------------------------------------
(* Dispatch: the selected process leaves the queue for a free thread.      *)

\* The process selected at i leaves a gap that is closed, and is loaded.
LEMMA DispatchesHeldOnce ==
    ASSUME TypeOK, HeldOnce, can_cpu_execute_process,
           NEW i \in 1 .. Len(ready_queue), NEW rest \in Seq(Programs), Closes(rest, ready_queue, i),
           ready_queue' = rest, UNCHANGED priority_queues, Dispatches(ready_queue[i])
    PROVE  HeldOnce'
<1>. DEFINE p == ready_queue[i]
            c == FirstRoom
            h == [pcb |-> p, PC |-> Started(p).pc]
<1>1. /\ hw_threads \in Rows /\ pcbs \in [Cores -> Seq(PcbType)] /\ pcb \in [Pcbs -> PcbType]
      /\ Counts \in [Cores -> 0 .. NumThreads] /\ \A d \in Cores : Counts[d] = Len(pcbs[d])
  BY TypeFacts
<1>2. ready_queue \in Seq(Programs) /\ Distinct(ready_queue) /\ p \in Programs /\ p \in Pcbs
  BY ElementOfSeq DEF HeldOnce, QueueOnce, Pcbs
<1>3. c \in Cores /\ Counts[c] < NumThreads
  BY <1>1, FirstRoomIsRoomy DEF RoomyCores, current_pcb_count
<1>4. Started(p) \in PcbType
  <2>1. pcb[p] \in PcbType /\ Deadline(p) \in Int
    BY <1>1, <1>2, DeadlineType
  <2>. QED
    BY <2>1 DEF Started, PcbType
<1>5. h \in ThreadType /\ h.pcb = p
  BY <1>2, <1>4 DEF ThreadType, PcbType
<1>6. Holds(ready_queue, p) /\ ~On(hw_threads, p) /\ p \notin destroyed
  BY <1>2 DEF Holds, HeldOnce, Apart
<1>7. hw_threads' = Assigned(hw_threads, Counts, c, h)
  BY <1>1, <1>3 DEF Dispatches, AssignToCore, current_pcb_count, Assigned
<1>8. Counts' = More(Counts, c)
  <2>1. pcbs' = [pcbs EXCEPT ![c] = Append(@, Started(p))]
    BY DEF Dispatches, AssignToCore
  <2>2. Len(Append(pcbs[c], Started(p))) = Len(pcbs[c]) + 1
    BY <1>1, <1>3, <1>4, AppendProperties
  <2>3. \A d \in Cores : Len(pcbs'[d]) = IF d = c THEN Counts[c] + 1 ELSE Counts[d]
    BY <1>1, <1>3, <2>1, <2>2
  <2>4. Counts' = [d \in Cores |-> Len(pcbs'[d])]
    BY DEF Counts, current_pcb_count
  <2>. QED
    BY <1>1, <2>3, <2>4 DEF More
<1>9. UNCHANGED <<destroyed, main>>
  BY DEF Dispatches, countVars
<1>. HIDE DEF p, c, h
<1>10. /\ ThreadsOnce'
       /\ \A q \in Pcbs : On(hw_threads', q) <=> On(hw_threads, q) \/ q = p
  <2>1. PrefixLoaded(hw_threads, Counts) /\ LoadedOnce(hw_threads)
    BY DEF HeldOnce, ThreadsOnce
  <2>2. /\ PrefixLoaded(hw_threads', More(Counts, c)) /\ LoadedOnce(hw_threads')
        /\ \A q \in Pcbs : On(hw_threads', q) <=> On(hw_threads, q) \/ q = h.pcb
    <3>1. h.pcb \in Pcbs /\ ~On(hw_threads, h.pcb)
      BY <1>2, <1>5, <1>6
    <3>. QED
      BY <3>1, <1>1, <1>3, <1>5, <1>7, <2>1, AssignLoads
  <2>3. ThreadsOnce'
    BY <1>8, <2>2 DEF ThreadsOnce
  <2>. QED
    BY <1>5, <2>2, <2>3
<1>11. /\ Distinct(ready_queue')
       /\ \A q \in Programs : Holds(ready_queue', q) <=> Holds(ready_queue, q) /\ q # p
  BY <1>2, ClosesHolds DEF p
<1>12. QueueOnce'
  BY <1>11 DEF HeldOnce, QueueOnce
<1>13. \A q \in Pcbs : Holds(ready_queue', q) => q \in Programs
  BY ElementOfSeq DEF Holds
<1>14. Apart'
  BY <1>2, <1>6, <1>9, <1>10, <1>11, <1>13 DEF HeldOnce, Apart
<1>15. Covered'
  BY <1>9, <1>10, <1>11 DEF HeldOnce, Covered, Pcbs
<1>. QED
  BY <1>10, <1>12, <1>14, <1>15 DEF HeldOnce

\* RR takes the front, BFS the element it has selected, wherever it stands.
LEMMA DispatchHeldOnce ==
    ASSUME RoomyQueue, TypeOK, HeldOnce, DispatchRoundRobin \/ DispatchBFS \/ DispatchPriority
    PROVE  HeldOnce'
<1>1. ready_queue \in Seq(Programs) /\ Distinct(ready_queue) /\ Len(ready_queue) \in Nat
  BY LenProperties DEF HeldOnce, QueueOnce
<1>2. can_cpu_execute_process
  BY DEF DispatchRoundRobin, DispatchBFS, DispatchPriority, CanDispatch
<1>3. CASE DispatchRoundRobin
  <2>1. ready_queue # <<>>
    BY <1>3 DEF DispatchRoundRobin, CanDispatch, has_ready_processes
  <2>2. /\ Tail(ready_queue) \in Seq(Programs) /\ Head(ready_queue) = ready_queue[1]
        /\ Len(Tail(ready_queue)) = Len(ready_queue) - 1 /\ 1 \in 1 .. Len(ready_queue)
        /\ \A j \in 1 .. Len(ready_queue) - 1 : Tail(ready_queue)[j] = ready_queue[j + 1]
    BY <1>1, <2>1
  <2>3. Closes(Tail(ready_queue), ready_queue, 1)
    BY <1>1, <2>2 DEF Closes
  <2>4. /\ ready_queue' = Tail(ready_queue) /\ UNCHANGED priority_queues
        /\ Dispatches(ready_queue[1])
    BY <1>3, <2>2 DEF DispatchRoundRobin
  <2>. QED
    BY <1>2, <2>2, <2>3, <2>4, DispatchesHeldOnce
<1>4. CASE DispatchBFS
  <2>1. PICK i \in 1 .. Len(ready_queue) :
           /\ ready_queue' = BfsRemove(ready_queue, i, ReadyCapacity)
           /\ UNCHANGED priority_queues /\ Dispatches(ready_queue[i])
    BY <1>4 DEF DispatchBFS
  <2>2. 2 * Len(ready_queue) < ReadyCapacity + 3
    <3>1. Len(ready_queue) <= Cardinality(Programs) /\ Cardinality(Programs) \in Nat
      BY <1>1, DistinctFits, PcbAssumption, FS_CardinalityType
    <3>2. 2 * Cardinality(Programs) < ReadyCapacity + 3
      BY <1>4 DEF RoomyQueue, DispatchBFS
    <3>. QED
      BY <1>1, <3>1, <3>2, SizeAssumption
  <2>3. ready_queue' = DropAt(ready_queue, i)
    BY <1>1, <2>1, <2>2, SizeAssumption, BfsRemoveIsDropAt
  <2>4. DropAt(ready_queue, i) \in Seq(Programs) /\ Closes(DropAt(ready_queue, i), ready_queue, i)
    BY <1>1, DropAtProperties DEF Closes
  <2>. QED
    BY <1>2, <2>1, <2>3, <2>4, DispatchesHeldOnce
<1>5. ~DispatchPriority
  BY DEF RoomyQueue, DispatchPriority
<1>. QED
  BY <1>3, <1>4, <1>5

----------------------------------------------------------------------------
(* The other actions.                                                      *)

\* A tick executes instructions; no pointer moves.
LEMMA TickHeldOnce == TypeOK /\ HeldOnce /\ Tick => HeldOnce'
<1>. SUFFICES ASSUME TypeOK, HeldOnce, Tick PROVE HeldOnce'
  OBVIOUS
<1>1. UNCHANGED <<ready_queue, priority_queues, pcbs, destroyed, main>>
  BY DEF Tick, queueVars, countVars
<1>2. \A c \in Cores, k \in Slots : hw_threads'[c][k].pcb = hw_threads[c][k].pcb
  <2>. SUFFICES ASSUME NEW c \in Cores, NEW k \in Slots
                PROVE  hw_threads'[c][k].pcb = hw_threads[c][k].pcb
    OBVIOUS
  <2>1. hw_threads'[c][k] = TickedThread(hw_threads[c][k])
    BY DEF Tick
  <2>2. hw_threads[c][k] \in [pcb : Pcbs \cup {NoPcb}, PC : Nat]
    BY DEF TypeOK
  <2>. QED
    BY <2>1, <2>2 DEF TickedThread
<1>3. Counts' = Counts
  BY <1>1 DEF Counts, current_pcb_count
<1>4. \A p : On(hw_threads', p) <=> On(hw_threads, p)
  BY <1>2 DEF On
<1>5. ThreadsOnce'
  BY <1>2, <1>3 DEF HeldOnce, ThreadsOnce, PrefixLoaded, LoadedOnce
<1>6. QueueOnce' /\ Apart' /\ Covered'
  BY <1>1, <1>4 DEF HeldOnce, QueueOnce, Apart, Covered
<1>. QED
  BY <1>5, <1>6 DEF HeldOnce

\* The level queues are empty, and the threads keep what they hold.
LEMMA DestroyHeldOnce == TypeOK /\ HeldOnce /\ DestroyScheduler => HeldOnce'
<1>. SUFFICES ASSUME TypeOK, HeldOnce, DestroyScheduler PROVE HeldOnce'
  OBVIOUS
<1>1. /\ UNCHANGED <<ready_queue, hw_threads, pcbs>>
      /\ main' = "stop_clock"
      /\ priority_queues' = [v \in Levels |-> <<>>]
  BY DEF DestroyScheduler, machineVars
<1>2. destroyed' = destroyed
  <2>1. \A v \in Levels : {priority_queues[v][i] : i \in DOMAIN priority_queues[v]} = {}
    BY DEF HeldOnce, QueueOnce
  <2>. QED
    BY <2>1 DEF DestroyScheduler
<1>3. Counts' = Counts
  BY <1>1 DEF Counts, current_pcb_count
<1>. QED
  BY <1>1, <1>2, <1>3 DEF HeldOnce, QueueOnce, ThreadsOnce, Apart, Covered

\* What is freed was in the queue, so on no thread, and the queue is empty then.
LEMMA CleanHeldOnce == TypeOK /\ HeldOnce /\ CleanReadyQueue => HeldOnce'
<1>. SUFFICES ASSUME TypeOK, HeldOnce, CleanReadyQueue PROVE HeldOnce'
  OBVIOUS
<1>1. /\ UNCHANGED <<priority_queues, hw_threads, pcbs>>
      /\ main' = "exited" /\ ready_queue' = <<>>
      /\ destroyed' = destroyed \cup {ready_queue[i] : i \in DOMAIN ready_queue}
  BY DEF CleanReadyQueue, machineVars
<1>2. \A p \in destroyed' : p \in destroyed \/ Holds(ready_queue, p)
  <2>1. DOMAIN ready_queue = 1 .. Len(ready_queue)
    BY DEF HeldOnce, QueueOnce
  <2>. QED
    BY <1>1, <2>1 DEF Holds
<1>3. /\ ready_queue' \in Seq(Programs) /\ Distinct(ready_queue')
      /\ \A p : ~Holds(ready_queue', p)
  BY <1>1 DEF Distinct, Holds
<1>4. Counts' = Counts
  BY <1>1 DEF Counts, current_pcb_count
<1>5. QueueOnce' /\ ThreadsOnce'
  BY <1>1, <1>3, <1>4 DEF HeldOnce, QueueOnce, ThreadsOnce
<1>6. Apart'
  BY <1>1, <1>2, <1>3 DEF HeldOnce, Apart
<1>7. Covered'
  <2>1. DOMAIN ready_queue = 1 .. Len(ready_queue)
    BY DEF HeldOnce, QueueOnce
  <2>2. \A p : Holds(ready_queue, p) => p \in destroyed'
    BY <1>1, <2>1 DEF Holds
  <2>. QED
    BY <1>1, <2>2 DEF HeldOnce, Covered
<1>. QED
  BY <1>5, <1>6, <1>7 DEF HeldOnce

\* A step that moves no process keeps the invariant.
LEMMA StillHeldOnce ==
    ASSUME HeldOnce, UNCHANGED <<ready_queue, priority_queues, hw_threads, pcbs, destroyed>>
    PROVE  HeldOnce'
<1>1. Counts' = Counts
  BY DEF Counts, current_pcb_count
<1>. QED
  BY <1>1 DEF HeldOnce, QueueOnce, ThreadsOnce, Apart, Covered

\* The scan is one stage of the pass.
LEMMA ScanKeeps == ScanStep => sched = "scan" /\ UNCHANGED <<running, sched, main>>
<1>. SUFFICES ASSUME NEW c \in Cores, NEW k \in Slots, NEW p \in Pcbs,
                     CompleteProcess(c, k, p) \/ ExpireQuantum(c, k, p) \/ KeepExecuting(c, k, p)
              PROVE  sched = "scan" /\ UNCHANGED <<running, sched, main>>
  BY DEF ScanStep
<1>1. CASE CompleteProcess(c, k, p)
  BY <1>1 DEF CompleteProcess, Visits
<1>2. CASE ExpireQuantum(c, k, p)
  BY <1>2 DEF ExpireQuantum, Visits
<1>3. CASE KeepExecuting(c, k, p)
  BY <1>3 DEF KeepExecuting, Visits
<1>. QED
  BY <1>1, <1>2, <1>3

\* An arrival leaves the scheduler in the second stage, or ends it.
LEMMA TransferKeeps ==
    TransferArrival \/ TransferPreempting =>
        /\ sched = "transfer" /\ sched' \in {"transfer", "dispatch"}
        /\ UNCHANGED <<running, main>>
<1>1. ASSUME NEW p, NEW queues, Transfers(p), Arrives(p, queues)
      PROVE  sched = "transfer" /\ sched' \in {"transfer", "dispatch"}
  BY <1>1 DEF Transfers, Arrives
<1>2. ASSUME TransferArrival
      PROVE  sched = "transfer" /\ sched' \in {"transfer", "dispatch"} /\ UNCHANGED <<running, main>>
  <2>1. PICK p \in Pcbs : /\ Transfers(p) /\ Arrives(p, priority_queues)
                          /\ UNCHANGED <<running, main>>
    BY <1>2 DEF TransferArrival
  <2>. QED
    BY <2>1, <1>1
<1>3. ASSUME TransferPreempting
      PROVE  sched = "transfer" /\ sched' \in {"transfer", "dispatch"} /\ UNCHANGED <<running, main>>
  <2>. DEFINE v == pcbs[Victim[1]][Victim[2]].priority
  <2>1. PICK p \in Pcbs, f \in FreshClones :
           /\ Transfers(p)
           /\ Arrives(p, [priority_queues EXCEPT ![v] = Enqueued(@, f, LevelCapacity)])
           /\ UNCHANGED <<running, main>>
    BY <1>3 DEF TransferPreempting
  <2>. QED
    BY <2>1, <1>1
<1>. QED
  BY <1>2, <1>3

\* A dispatch leaves the scheduler in the third stage.
LEMMA DispatchKeeps ==
    DispatchRoundRobin \/ DispatchBFS \/ DispatchPriority =>
        sched = "dispatch" /\ UNCHANGED <<running, sched, main>>
<1>1. ASSUME NEW p, Dispatches(p) PROVE UNCHANGED <<running, sched, main>>
  BY <1>1 DEF Dispatches, schedVars
<1>2. CASE DispatchRoundRobin
  BY <1>1, <1>2 DEF DispatchRoundRobin, CanDispatch
<1>3. CASE DispatchBFS
  <2>1. PICK i \in 1 .. Len(ready_queue) : Dispatches(ready_queue[i])
    BY <1>3 DEF DispatchBFS
  <2>. QED
    BY <2>1, <1>1, <1>3 DEF DispatchBFS, CanDispatch
<1>4. CASE DispatchPriority
  BY <1>1, <1>4 DEF DispatchPriority, CanDispatch
<1>. QED
  BY <1>2, <1>3, <1>4

\* Only PRIO has the second stage of the pass.
NoTransfer == Policy # "PRIO" => sched # "transfer"

\* No step of RR or BFS enters the second stage.
LEMMA NextNoTransfer == NoTransfer /\ [Next]_vars => NoTransfer'
<1>. SUFFICES ASSUME NoTransfer, [Next]_vars, Policy # "PRIO" PROVE sched' # "transfer"
  BY DEF NoTransfer
<1>1. CASE SchedulerStep
  <2>1. CASE ScanStep \/ NextCore
    BY <2>1, ScanKeeps DEF NextCore
  <2>2. CASE StopWaiting \/ EndScan \/ EndTransfer \/ EndPass
    BY <2>2 DEF NoTransfer, StopWaiting, EndScan, EndTransfer, EndPass
  <2>3. CASE TransferArrival \/ TransferPreempting
    BY <2>3, TransferKeeps DEF NoTransfer
  <2>4. CASE DispatchRoundRobin \/ DispatchBFS \/ DispatchPriority
    BY <2>4, DispatchKeeps
  <2>. QED
    BY <1>1, <2>1, <2>2, <2>3, <2>4 DEF SchedulerStep
<1>2. CASE ClockStep \/ TimerStep \/ WakeOnTick \/ WakeOnTimer
  BY <1>2 DEF NoTransfer, ClockStep, ClockStops, Tick, TimerStep, TimerChecks, TimerCallback,
     SchedAfterSignal, WakeOnTick, WakeOnTimer, StartPass, schedVars
<1>3. CASE MainStep
  BY <1>3 DEF NoTransfer, MainStep, Interrupt, WakeEverybody, SchedAfterSignal, DestroyScheduler,
     StopClockAndTimers, CleanReadyQueue, schedVars
<1>4. CASE Halted \/ UNCHANGED vars
  BY <1>4 DEF NoTransfer, Halted, vars, schedVars
<1>. QED
  BY <1>1, <1>2, <1>3, <1>4 DEF Next

\* The invariant is inductive, given types and the absence of the second stage.
LEMMA NextHeldOnce == RoomyQueue /\ TypeOK /\ NoTransfer /\ HeldOnce /\ [Next]_vars => HeldOnce'
<1>. SUFFICES ASSUME RoomyQueue, TypeOK, NoTransfer, HeldOnce, [Next]_vars PROVE HeldOnce'
  OBVIOUS
<1>1. CASE ScanStep
  <2>1. PICK c \in Cores, k \in Slots, p \in Pcbs :
           CompleteProcess(c, k, p) \/ ExpireQuantum(c, k, p) \/ KeepExecuting(c, k, p)
    BY <1>1 DEF ScanStep
  <2>2. CASE KeepExecuting(c, k, p)
    BY <2>2, StillHeldOnce DEF KeepExecuting, queueVars, machineVars, countVars
  <2>. QED
    BY <2>1, <2>2, CompleteHeldOnce, ExpireHeldOnce
<1>2. CASE Tick
  BY <1>2, TickHeldOnce
<1>3. CASE DispatchRoundRobin \/ DispatchBFS \/ DispatchPriority
  BY <1>3, DispatchHeldOnce
<1>4. CASE DestroyScheduler \/ CleanReadyQueue
  BY <1>4, DestroyHeldOnce, CleanHeldOnce
<1>5. CASE TransferArrival \/ TransferPreempting
  BY <1>5 DEF TransferArrival, TransferPreempting, Transfers, NoTransfer, RoomyQueue
<1>6. CASE WakeOnTick \/ WakeOnTimer \/ NextCore \/ StopWaiting \/ EndScan \/ EndTransfer \/ EndPass
  BY <1>6, StillHeldOnce DEF WakeOnTick, WakeOnTimer, NextCore, StopWaiting, EndScan,
     EndTransfer, EndPass, queueVars, machineVars, countVars
<1>7. CASE ClockStops \/ TimerChecks \/ TimerCallback
  BY <1>7, StillHeldOnce DEF ClockStops, TimerChecks, TimerCallback, queueVars, machineVars, countVars
<1>8. CASE Interrupt \/ WakeEverybody \/ StopClockAndTimers
  BY <1>8, StillHeldOnce DEF Interrupt, WakeEverybody, StopClockAndTimers,
     queueVars, machineVars, countVars
<1>9. CASE Halted \/ UNCHANGED vars
  BY <1>9, StillHeldOnce DEF Halted, vars, queueVars, machineVars, countVars
<1>. QED
  BY <1>1, <1>2, <1>3, <1>4, <1>5, <1>6, <1>7, <1>8, <1>9
     DEF Next, ClockStep, TimerStep, SchedulerStep, MainStep

----------------------------------------------------------------------------
(* The theorems.                                                           *)

\* So it holds in every run.
LEMMA HeldOnceAlways ==
    ASSUME RoomyQueue PROVE Spec => [](TypeOK /\ HeldOnce)
<1>1. Init => TypeOK /\ NoTransfer /\ HeldOnce
  BY InitType, InitHeldOnce DEF Init, NoTransfer
<1>2. TypeOK /\ NoTransfer /\ HeldOnce /\ [Next]_vars => (TypeOK /\ NoTransfer /\ HeldOnce)'
  BY NextType, NextNoTransfer, NextHeldOnce
<1>. QED
  BY <1>1, <1>2, PTL DEF Spec

\* Where a pointer to p can be, while the level queues are empty.
LEMMA PlacesOf ==
    ASSUME TypeOK, HeldOnce, NEW p \in Pcbs
    PROVE  /\ \A x \in Places(p) :
                 \/ \E i \in 1 .. Len(ready_queue) : ready_queue[i] = p /\ x = <<"ready", 0, i>>
                 \/ \E c \in Cores, k \in Slots :
                       hw_threads[c][k].pcb = p /\ x = <<"thread", c, k>>
           /\ Holds(ready_queue, p) \/ On(hw_threads, p) => Places(p) # {}
<1>1. \A x : x \in ReadyPlaces(p) <=>
                \E i \in 1 .. Len(ready_queue) : ready_queue[i] = p /\ x = <<"ready", 0, i>>
  <2>1. DOMAIN ready_queue = 1 .. Len(ready_queue)
    BY DEF HeldOnce, QueueOnce
  <2>. QED
    BY <2>1 DEF ReadyPlaces
<1>2. LevelPlaces(p) = {}
  BY DEF HeldOnce, QueueOnce, LevelPlaces
<1>3. \A x : x \in ThreadPlaces(p) <=>
                \E c \in Cores, k \in Slots : hw_threads[c][k].pcb = p /\ x = <<"thread", c, k>>
  BY DEF ThreadPlaces
<1>4. \A x : x \in Places(p) <=> x \in ReadyPlaces(p) \/ x \in ThreadPlaces(p)
  BY <1>2 DEF Places
<1>5. Holds(ready_queue, p) => Places(p) # {}
  BY <1>1, <1>4 DEF Holds
<1>6. On(hw_threads, p) => Places(p) # {}
  BY <1>3, <1>4 DEF On
<1>. QED
  BY <1>1, <1>3, <1>4, <1>5, <1>6

\* Under RR, and under BFS with a roomy ring, no process that has not completed drops out
\* of both the queue and the machine before the cleanup: the queue has room for
\* every process whose quantum expires.
THEOREM NothingLost == ASSUME RoomyQueue PROVE Spec => []NeverLost
<1>1. TypeOK /\ HeldOnce => NeverLost
  BY PlacesOf DEF NeverLost, HeldOnce, Covered, Pcbs
<1>. QED
  BY <1>1, HeldOnceAlways, PTL
=============================================================================
