--------------------------- MODULE SchedulerWork ---------------------------
(***************************************************************************)
(* What the executing processes have done: theorems about the copies, the  *)
(* time to live, the quantum and the deadlines of Scheduler, for the       *)
(* policies and queue sizes of SchedulerSafety.                            *)
(***************************************************************************)
EXTENDS SchedulerSafety

----------------------------------------------------------------------------
(* Where a thread, and the copy beside it, go.                             *)

\* Before a removal at k of core c, what is now at l of core d was here.
Source(c, k, d, l) == IF d = c /\ k <= l THEN l + 1 ELSE l

\* A removal moves whole threads, and the copies with them.
LEMMA RemoveMoves ==
    ASSUME TypeOK, ThreadsOnce, NEW c \in Cores, NEW k \in 1 .. Len(pcbs[c]), RemoveFromCore(c, k)
    PROVE  /\ \A d \in Cores, l \in Slots :
                 hw_threads'[d][l].pcb # NoPcb =>
                    /\ Source(c, k, d, l) \in Slots
                    /\ hw_threads'[d][l] = hw_threads[d][Source(c, k, d, l)]
                    /\ d = c => Source(c, k, d, l) # k
           /\ \A d \in Cores : \A l \in 1 .. Len(pcbs'[d]) :
                 /\ l \in Slots /\ hw_threads'[d][l].pcb # NoPcb
                 /\ Source(c, k, d, l) \in 1 .. Len(pcbs[d])
                 /\ pcbs'[d][l] = pcbs[d][Source(c, k, d, l)]
<1>1. /\ hw_threads \in Rows /\ pcbs \in [Cores -> Seq(PcbType)]
      /\ \A d \in Cores : Counts[d] = Len(pcbs[d]) /\ Len(pcbs[d]) \in 0 .. NumThreads
      /\ NumThreads \in Nat /\ Slots = 1 .. NumThreads
  BY TypeFacts, SizeAssumption DEF Slots
<1>. DEFINE n == Len(pcbs[c])
<1>2. /\ \A d \in Cores : d # c => hw_threads'[d] = hw_threads[d] /\ pcbs'[d] = pcbs[d]
      /\ hw_threads'[c] = ShiftThreads(hw_threads[c], k, n)
      /\ pcbs'[c] = DropAt(pcbs[c], k)
  BY <1>1 DEF RemoveFromCore, current_pcb_count, Rows
<1>3. /\ Len(pcbs'[c]) = n - 1
      /\ \A l \in 1 .. n - 1 : pcbs'[c][l] = pcbs[c][IF l < k THEN l ELSE l + 1]
  <2>1. pcbs[c] \in Seq(PcbType) /\ k \in 1 .. n
    BY <1>1
  <2>2. /\ Len(DropAt(pcbs[c], k)) = n - 1
        /\ \A l \in 1 .. n - 1 : DropAt(pcbs[c], k)[l] = pcbs[c][IF l < k THEN l ELSE l + 1]
    BY <2>1, DropAtProperties
  <2>. QED
    BY <1>2, <2>2
<1>4. \A l \in Slots : hw_threads'[c][l] = IF l = n THEN Idle
                                 ELSE IF k <= l /\ l < n THEN hw_threads[c][l + 1] ELSE hw_threads[c][l]
  BY <1>2 DEF ShiftThreads
<1>5. \A l \in Slots : l > n => hw_threads[c][l].pcb = NoPcb
  BY <1>1 DEF ThreadsOnce, PrefixLoaded
<1>6. ASSUME NEW d \in Cores, NEW l \in Slots, hw_threads'[d][l].pcb # NoPcb
      PROVE  /\ Source(c, k, d, l) \in Slots
             /\ hw_threads'[d][l] = hw_threads[d][Source(c, k, d, l)]
             /\ d = c => Source(c, k, d, l) # k
  <2>1. CASE d # c
    BY <2>1, <1>2 DEF Source
  <2>2. CASE d = c
    <3>0. hw_threads'[c][l].pcb # NoPcb /\ Idle.pcb = NoPcb
      BY <2>2, <1>6 DEF Idle
    <3>1. l < n
      <4>1. l # n
        BY <3>0, <1>4
      <4>2. CASE l > n
        <5>1. hw_threads'[c][l] = hw_threads[c][l]
          BY <4>2, <1>1, <1>4
        <5>. QED
          BY <5>1, <4>2, <3>0, <1>5
      <4>. QED
        BY <4>1, <4>2, <1>1
    <3>. QED
      BY <2>2, <3>1, <1>1, <1>4 DEF Source
  <2>. QED
    BY <2>1, <2>2
<1>7. ASSUME NEW d \in Cores, NEW l \in 1 .. Len(pcbs'[d])
      PROVE  /\ l \in Slots /\ hw_threads'[d][l].pcb # NoPcb
             /\ Source(c, k, d, l) \in 1 .. Len(pcbs[d])
             /\ pcbs'[d][l] = pcbs[d][Source(c, k, d, l)]
  <2>0. \A i \in Slots : i <= Len(pcbs[d]) => hw_threads[d][i].pcb # NoPcb
    BY <1>1 DEF ThreadsOnce, PrefixLoaded
  <2>1. CASE d # c
    BY <2>0, <2>1, <1>1, <1>2, <1>7 DEF Source
  <2>2. CASE d = c
    <3>1. l \in 1 .. n - 1
      BY <2>2, <1>3, <1>7
    <3>. QED
      BY <2>0, <2>2, <3>1, <1>1, <1>3, <1>4, SMTT(30) DEF Source
  <2>. QED
    BY <2>1, <2>2
<1>. QED
  BY <1>6, <1>7

\* A dispatch fills the first free thread of a core, and the copy beside it.
LEMMA DispatchPlaces ==
    ASSUME TypeOK, ThreadsOnce, can_cpu_execute_process, NEW p \in Pcbs, Dispatches(p)
    PROVE  \E c \in Cores, m \in Slots :
              /\ hw_threads[c][m].pcb = NoPcb
              /\ hw_threads'[c][m] = [pcb |-> p, PC |-> pcb[p].pc]
              /\ \A d \in Cores, l \in Slots :
                    ~(d = c /\ l = m) => hw_threads'[d][l] = hw_threads[d][l]
              /\ \A d \in Cores : \A l \in 1 .. Len(pcbs'[d]) :
                    IF d = c /\ l = m
                    THEN pcbs'[d][l] = Started(p)
                    ELSE l \in 1 .. Len(pcbs[d]) /\ l \in Slots /\ pcbs'[d][l] = pcbs[d][l]
<1>. DEFINE c == FirstRoom
            m == Len(pcbs[c]) + 1
<1>1. /\ hw_threads \in Rows /\ pcbs \in [Cores -> Seq(PcbType)] /\ pcb \in [Pcbs -> PcbType]
      /\ \A d \in Cores : Len(pcbs[d]) \in 0 .. NumThreads
      /\ NumThreads \in Nat /\ Slots = 1 .. NumThreads
  BY TypeFacts, SizeAssumption DEF Slots
<1>2. c \in Cores /\ Len(pcbs[c]) < NumThreads /\ m \in Slots
  BY <1>1, FirstRoomIsRoomy DEF RoomyCores, current_pcb_count
<1>3. Started(p) \in PcbType /\ Started(p).pc = pcb[p].pc
  <2>1. pcb[p] \in PcbType /\ Deadline(p) \in Int
    BY <1>1, DeadlineType
  <2>. QED
    BY <2>1 DEF Started, PcbType
<1>4. /\ hw_threads' = [hw_threads EXCEPT
            ![c] = [hw_threads[c] EXCEPT ![m] = [pcb |-> p, PC |-> pcb[p].pc]]]
      /\ pcbs' = [pcbs EXCEPT ![c] = Append(pcbs[c], Started(p))]
  BY <1>3 DEF Dispatches, AssignToCore, current_pcb_count
<1>5. /\ Len(Append(pcbs[c], Started(p))) = Len(pcbs[c]) + 1
      /\ Append(pcbs[c], Started(p))[m] = Started(p)
      /\ \A l \in 1 .. Len(pcbs[c]) : Append(pcbs[c], Started(p))[l] = pcbs[c][l]
  BY <1>1, <1>2, <1>3, AppendProperties
<1>0. hw_threads[c][m].pcb = NoPcb
  <2>1. \A l \in Slots : l > Counts[c] => hw_threads[c][l].pcb = NoPcb
    BY <1>1, <1>2, TypeFacts DEF ThreadsOnce, PrefixLoaded
  <2>. QED
    BY <2>1, <1>1, <1>2, TypeFacts
<1>. HIDE DEF c, m
<1>6. /\ hw_threads'[c][m] = [pcb |-> p, PC |-> pcb[p].pc]
      /\ \A d \in Cores, l \in Slots :
                    ~(d = c /\ l = m) => hw_threads'[d][l] = hw_threads[d][l]
  BY <1>1, <1>2, <1>4 DEF Rows
<1>7. \A d \in Cores : \A l \in 1 .. Len(pcbs'[d]) :
                    IF d = c /\ l = m
                    THEN pcbs'[d][l] = Started(p)
                    ELSE l \in 1 .. Len(pcbs[d]) /\ l \in Slots /\ pcbs'[d][l] = pcbs[d][l]
  <2>1. /\ pcbs'[c] = Append(pcbs[c], Started(p))
        /\ \A d \in Cores : d # c => pcbs'[d] = pcbs[d]
    BY <1>1, <1>2, <1>4
  <2>2. Len(pcbs'[c]) = m /\ m = Len(pcbs[c]) + 1
    BY <2>1, <1>5 DEF m
  <2>3. ASSUME NEW l \in 1 .. Len(pcbs'[c])
        PROVE  IF l = m THEN pcbs'[c][l] = Started(p)
               ELSE l \in 1 .. Len(pcbs[c]) /\ l \in Slots /\ pcbs'[c][l] = pcbs[c][l]
    <3>1. l = m \/ l \in 1 .. Len(pcbs[c])
      BY <2>2, <1>1, <1>2
    <3>2. CASE l = m
      BY <3>2, <2>1, <1>5
    <3>3. CASE l # m
      BY <3>1, <3>3, <2>1, <1>1, <1>2, <1>5
    <3>. QED
      BY <3>2, <3>3
  <2>4. ASSUME NEW d \in Cores, d # c, NEW l \in 1 .. Len(pcbs'[d])
        PROVE  l \in 1 .. Len(pcbs[d]) /\ l \in Slots /\ pcbs'[d][l] = pcbs[d][l]
    BY <2>1, <2>4, <1>1
  <2>. QED
    BY <2>3, <2>4
<1>. QED
  BY <1>0, <1>2, <1>6, <1>7

----------------------------------------------------------------------------
(* The inductive invariant of the copies and of the work.                  *)

OwnPids == \A p \in Programs : pcb[p].pid = p

\* Each copy names the process on the thread beside it.
CopiesInStep ==
    \A c \in Cores : \A k \in 1 .. Len(pcbs[c]) : pcbs[c][k].pid = hw_threads[c][k].pcb

\* What the TTL of a process says of the instructions it has executed, while
\* there is some left, once it is spent, and when the process has halted.
WorkDone(proc, PC, shape) ==
    /\ PC <= shape.halt_at
    /\ IF proc.state = "TERMINATED" THEN PC = shape.halt_at
       ELSE IF proc.ttl > 0 THEN proc.ttl + PC = InitialTtl(shape.code_size)
       ELSE PC >= InitialTtl(shape.code_size)

\* A queued process has not halted, and its saved context tells what it has
\* done; for one that executes, the program counter of its thread does.
WorkAdds ==
    \A p \in Programs \ destroyed :
        /\ pcb[p].pgb = p
        /\ Holds(ready_queue, p) =>
              pcb[p].state # "TERMINATED" /\ WorkDone(pcb[p], pcb[p].pc, program[p])
        /\ \A c \in Cores, k \in Slots :
              hw_threads[c][k].pcb = p => WorkDone(pcb[p], hw_threads[c][k].PC, program[p])

Worked == OwnPids /\ CopiesInStep /\ WorkAdds

\* No work is done at first.
LEMMA InitWorked == Init => Worked
<1>. SUFFICES ASSUME Init PROVE Worked
  OBVIOUS
<1>1. PICK priority \in [Programs -> Levels] :
         pcb = [p \in Pcbs |-> IF p \in Programs THEN Loaded(p, priority[p]) ELSE NewPcb(p)]
  BY DEF Init
<1>2. ASSUME NEW p \in Programs
      PROVE  /\ pcb[p].pid = p /\ pcb[p].pgb = p /\ pcb[p].state = "WAITING" /\ pcb[p].pc = 0
             /\ pcb[p].ttl = InitialTtl(program[p].code_size)
             /\ InitialTtl(program[p].code_size) \in Nat
             /\ program[p].halt_at \in Nat
  <2>1. pcb[p] = Loaded(p, priority[p])
    BY <1>1 DEF Pcbs
  <2>2. program[p].code_size \in Nat /\ program[p].halt_at \in Nat
    BY ShapeAssumption DEF Init
  <2>3. InitialTtl(program[p].code_size) \in Nat
    BY <2>2, InitialTtlType
  <2>. QED
    BY <2>1, <2>2, <2>3 DEF Loaded, NewPcb
<1>3. \A c \in Cores, k \in Slots : hw_threads[c][k].pcb = NoPcb
  BY DEF Init, Idle
<1>4. OwnPids
  BY <1>2 DEF OwnPids
<1>5. CopiesInStep
  BY DEF Init, CopiesInStep
<1>6. WorkAdds
  <2>. SUFFICES ASSUME NEW p \in Programs PROVE WorkDone(pcb[p], pcb[p].pc, program[p])
    BY <1>2, <1>3, PcbAssumption DEF WorkAdds, Pcbs
  <2>. QED
    BY <1>2 DEF WorkDone
<1>. QED
  BY <1>4, <1>5, <1>6 DEF Worked

\* A step that moves no process and leaves the PCBs keeps it.
LEMMA StillWorked ==
    ASSUME Worked, UNCHANGED <<program, pcb, ready_queue, hw_threads, pcbs, destroyed>>
    PROVE  Worked'
BY DEF Worked, OwnPids, CopiesInStep, WorkAdds, WorkDone

\* Taking a process off its thread keeps the copies in step with the threads.
LEMMA RemoveCopies ==
    ASSUME TypeOK, ThreadsOnce, CopiesInStep,
           NEW c \in Cores, NEW k \in 1 .. Len(pcbs[c]), RemoveFromCore(c, k)
    PROVE  CopiesInStep'
BY RemoveMoves, SMTT(30) DEF CopiesInStep

\* The threads that are still loaded run what they ran, in the same state.
LEMMA RemoveWork ==
    ASSUME TypeOK, ThreadsOnce, WorkAdds,
           NEW c \in Cores, NEW k \in Slots, k \in 1 .. Len(pcbs[c]), RemoveFromCore(c, k),
           NEW q \in Programs, q \notin destroyed
    PROVE  \A d \in Cores, l \in Slots :
              hw_threads'[d][l].pcb = q => WorkDone(pcb[q], hw_threads'[d][l].PC, program[q])
<1>. SUFFICES ASSUME NEW d \in Cores, NEW l \in Slots, hw_threads'[d][l].pcb = q
              PROVE  WorkDone(pcb[q], hw_threads'[d][l].PC, program[q])
  OBVIOUS
<1>1. q # NoPcb
  BY PcbAssumption DEF Pcbs
<1>2. \A e \in Cores, i \in Slots :
         hw_threads'[e][i].pcb # NoPcb =>
            Source(c, k, e, i) \in Slots /\ hw_threads'[e][i] = hw_threads[e][Source(c, k, e, i)]
  BY RemoveMoves
<1>3. PICK j \in Slots : hw_threads'[d][l] = hw_threads[d][j]
  BY <1>1, <1>2
<1>. QED
  BY <1>3 DEF WorkAdds

\* A completed process has no work left to account for.
LEMMA CompleteWorked ==
    ASSUME TypeOK, HeldOnce, Worked, NEW c \in Cores, NEW k \in Slots, NEW p \in Pcbs,
           CompleteProcess(c, k, p)
    PROVE  Worked'
<1>1. /\ k \in 1 .. Len(pcbs[c]) /\ p = hw_threads[c][k].pcb
      /\ RemoveFromCore(c, k) /\ destroyed' = destroyed \cup {p}
      /\ UNCHANGED <<ready_queue, program>> /\ ThreadsOnce
      /\ pcb' = [pcb EXCEPT ![p].quantum_counter = @ + 1, ![p].pgb = NoPcb]
  BY DEF CompleteProcess, Visits, current_pcb_count, queueVars, HeldOnce
<1>2. /\ \A q \in Pcbs : q # p => pcb'[q] = pcb[q]
      /\ pcb'[p].pid = pcb[p].pid
  <2>1. pcb \in [Pcbs -> PcbType] /\ pcb[p] \in PcbType
    BY TypeFacts
  <2>. QED
    BY <2>1, <1>1 DEF PcbType
<1>3. OwnPids'
  BY <1>2 DEF Worked, OwnPids, Pcbs
<1>4. CopiesInStep'
  BY <1>1, RemoveCopies DEF Worked
<1>5. WorkAdds'
  <2>. SUFFICES ASSUME NEW q \in Programs, q \notin destroyed'
                PROVE  /\ pcb'[q].pgb = q
                       /\ Holds(ready_queue', q) =>
                            pcb'[q].state # "TERMINATED" /\ WorkDone(pcb'[q], pcb'[q].pc, program'[q])
                       /\ \A d \in Cores, l \in Slots :
                            hw_threads'[d][l].pcb = q
                               => WorkDone(pcb'[q], hw_threads'[d][l].PC, program'[q])
    BY DEF WorkAdds
  <2>1. q # p /\ q \notin destroyed /\ q \in Pcbs /\ pcb'[q] = pcb[q]
    BY <1>1, <1>2 DEF Pcbs
  <2>2. \A d \in Cores, l \in Slots :
           hw_threads'[d][l].pcb = q => WorkDone(pcb[q], hw_threads'[d][l].PC, program[q])
    BY <1>1, <2>1, RemoveWork DEF Worked
  <2>. QED
    BY <1>1, <2>1, <2>2 DEF Worked, WorkAdds
<1>. QED
  BY <1>3, <1>4, <1>5 DEF Worked

\* What ExpireQuantum needs of the round-robin queue: nothing but p is added.
LEMMA ExpireAdds ==
    ASSUME RoomyQueue, TypeOK, HeldOnce, NEW p \in Programs,
           EnqueueToScheduler(p, pcb[p].priority), HeldOnce'
    PROVE  \A q \in Programs : Holds(ready_queue', q) => Holds(ready_queue, q) \/ q = p
<1>1. ready_queue' = Enqueued(ready_queue, p, ReadyCapacity)
  BY DEF RoomyQueue, EnqueueToScheduler
<1>2. ready_queue \in Seq(Programs)
  BY DEF HeldOnce, QueueOnce
<1>3. CASE ready_queue' = ready_queue
  BY <1>3
<1>4. CASE ready_queue' = Append(ready_queue, p)
  <2>1. /\ Len(ready_queue') = Len(ready_queue) + 1 /\ ready_queue'[Len(ready_queue) + 1] = p
        /\ \A i \in 1 .. Len(ready_queue) : ready_queue'[i] = ready_queue[i]
        /\ Len(ready_queue) \in Nat
    BY <1>2, <1>4, AppendProperties, LenProperties
  <2>2. \A i \in 1 .. Len(ready_queue') : i \in 1 .. Len(ready_queue) \/ i = Len(ready_queue) + 1
    BY <2>1
  <2>. QED
    BY <2>1, <2>2 DEF Holds
<1>. QED
  BY <1>1, <1>3, <1>4 DEF Enqueued

\* The time to live is saved with the PC.
LEMMA ExpireWorked ==
    ASSUME RoomyQueue, TypeOK, HeldOnce, Worked,
           NEW c \in Cores, NEW k \in Slots, NEW p \in Pcbs, ExpireQuantum(c, k, p)
    PROVE  Worked'
<1>1. /\ k \in 1 .. Len(pcbs[c]) /\ p = hw_threads[c][k].pcb /\ ~HasCompleted(p)
      /\ RemoveFromCore(c, k) /\ EnqueueToScheduler(p, pcb[p].priority)
      /\ UNCHANGED <<destroyed, program>> /\ ThreadsOnce
      /\ pcb' = [pcb EXCEPT ![p] = SavedPcb(p, hw_threads[c][k].PC)]
  BY DEF ExpireQuantum, Visits, current_pcb_count, countVars, HeldOnce
<1>2. p \in Programs /\ p \notin destroyed /\ On(hw_threads, p)
  BY <1>1 DEF On, HeldOnce, Apart
<1>3. HeldOnce'
  BY ExpireHeldOnce
<1>4. \A q \in Programs : Holds(ready_queue', q) => Holds(ready_queue, q) \/ q = p
  BY <1>1, <1>2, <1>3, ExpireAdds
<1>5. /\ \A q \in Pcbs : q # p => pcb'[q] = pcb[q]
      /\ pcb'[p].pid = pcb[p].pid /\ pcb'[p].pgb = pcb[p].pgb /\ pcb'[p].ttl = pcb[p].ttl
      /\ pcb'[p].state = "WAITING" /\ pcb'[p].pc = hw_threads[c][k].PC
  BY <1>1, TypeFacts DEF PcbType, SavedPcb
<1>6. OwnPids'
  BY <1>5 DEF Worked, OwnPids, Pcbs
<1>7. CopiesInStep'
  BY <1>1, RemoveCopies DEF Worked
<1>8. \A d \in Cores, l \in Slots : hw_threads'[d][l].pcb # p
  <2>1. \A q \in Pcbs : On(hw_threads', q) <=> On(hw_threads, q) /\ q # p
    BY <1>1, UnloadThreads
  <2>. QED
    BY <2>1 DEF On
<1>9. WorkDone(pcb'[p], pcb'[p].pc, program'[p])
  <2>1. pcb[p].state # "TERMINATED"
    BY <1>1 DEF HasCompleted
  <2>2. WorkDone(pcb[p], hw_threads[c][k].PC, program[p])
    BY <1>1, <1>2 DEF Worked, WorkAdds
  <2>. QED
    BY <1>1, <1>5, <2>1, <2>2 DEF WorkDone
<1>10. WorkAdds'
  <2>. SUFFICES ASSUME NEW q \in Programs, q \notin destroyed
                PROVE  /\ pcb'[q].pgb = q
                       /\ Holds(ready_queue', q) =>
                            pcb'[q].state # "TERMINATED" /\ WorkDone(pcb'[q], pcb'[q].pc, program'[q])
                       /\ \A d \in Cores, l \in Slots :
                            hw_threads'[d][l].pcb = q
                               => WorkDone(pcb'[q], hw_threads'[d][l].PC, program'[q])
    BY <1>1 DEF WorkAdds
  <2>1. CASE q = p
    BY <1>2, <1>5, <1>8, <1>9, <2>1 DEF Worked, WorkAdds
  <2>2. CASE q # p
    <3>1. pcb'[q] = pcb[q]
      BY <1>5, <2>2 DEF Pcbs
    <3>2. \A d \in Cores, l \in Slots :
             hw_threads'[d][l].pcb = q => WorkDone(pcb[q], hw_threads'[d][l].PC, program[q])
      BY <1>1, RemoveWork DEF Worked
    <3>. QED
      BY <1>1, <1>4, <2>2, <3>1, <3>2 DEF Worked, WorkAdds
  <2>. QED
    BY <2>1, <2>2
<1>. QED
  BY <1>6, <1>7, <1>10 DEF Worked

\* The quantum counter is not part of the account.
LEMMA KeepWorked ==
    ASSUME TypeOK, Worked, NEW c \in Cores, NEW k \in Slots, NEW p \in Pcbs, KeepExecuting(c, k, p)
    PROVE  Worked'
<1>1. /\ pcb' = [pcb EXCEPT ![p].quantum_counter = @ + 1]
      /\ UNCHANGED <<program, ready_queue, hw_threads, pcbs, destroyed>>
  BY DEF KeepExecuting, queueVars, machineVars, countVars
<1>2. \A q \in Pcbs : /\ pcb'[q].pid = pcb[q].pid /\ pcb'[q].pgb = pcb[q].pgb
                      /\ pcb'[q].state = pcb[q].state /\ pcb'[q].ttl = pcb[q].ttl
                      /\ pcb'[q].pc = pcb[q].pc
  <2>1. pcb \in [Pcbs -> PcbType] /\ pcb[p] \in PcbType
    BY TypeFacts
  <2>. QED
    BY <2>1, <1>1 DEF PcbType
<1>. QED
  BY <1>1, <1>2 DEF Worked, OwnPids, CopiesInStep, WorkAdds, WorkDone, Pcbs

\* The dispatched process comes from the queue, where nothing else appears.
LEMMA DispatchSelects ==
    ASSUME RoomyQueue, TypeOK, HeldOnce, DispatchRoundRobin \/ DispatchBFS \/ DispatchPriority
    PROVE  \E p \in Programs :
              /\ Holds(ready_queue, p) /\ Dispatches(p)
              /\ \A q : Holds(ready_queue', q) => Holds(ready_queue, q)
<1>1. ready_queue \in Seq(Programs) /\ Len(ready_queue) \in Nat
  BY LenProperties DEF HeldOnce, QueueOnce
<1>2. CASE DispatchRoundRobin
  <2>1. ready_queue # <<>>
    BY <1>2 DEF DispatchRoundRobin, CanDispatch, has_ready_processes
  <2>2. /\ Head(ready_queue) = ready_queue[1] /\ Head(ready_queue) \in Programs
        /\ Len(Tail(ready_queue)) = Len(ready_queue) - 1 /\ 1 \in 1 .. Len(ready_queue)
        /\ \A j \in 1 .. Len(ready_queue) - 1 : Tail(ready_queue)[j] = ready_queue[j + 1]
    BY <1>1, <2>1
  <2>3. ready_queue' = Tail(ready_queue) /\ Dispatches(Head(ready_queue))
    BY <1>2 DEF DispatchRoundRobin
  <2>4. \A q : Holds(ready_queue', q) => Holds(ready_queue, q)
    BY <1>1, <2>2, <2>3 DEF Holds
  <2>. QED
    BY <2>2, <2>3, <2>4 DEF Holds
<1>3. CASE DispatchBFS
  <2>1. PICK i \in 1 .. Len(ready_queue) :
           ready_queue' = BfsRemove(ready_queue, i, ReadyCapacity) /\ Dispatches(ready_queue[i])
    BY <1>3 DEF DispatchBFS
  <2>2. /\ Len(ready_queue') = Len(ready_queue) - 1
        /\ \A j \in 1 .. Len(ready_queue) - 1 :
              ready_queue'[j] = ready_queue[j] \/ ready_queue'[j] = ready_queue[j + 1]
    BY <1>1, <2>1, SizeAssumption, BfsRemoveProperties DEF BfsRemove
  <2>3. \A q : Holds(ready_queue', q) => Holds(ready_queue, q)
    BY <1>1, <2>2 DEF Holds
  <2>4. ready_queue[i] \in Programs
    BY <1>1, ElementOfSeq
  <2>. QED
    BY <2>1, <2>3, <2>4 DEF Holds
<1>4. ~DispatchPriority
  BY DEF RoomyQueue, DispatchPriority
<1>. QED
  BY <1>2, <1>3, <1>4

\* A dispatched process starts from what its PCB remembers.
LEMMA DispatchWorked ==
    ASSUME RoomyQueue, TypeOK, HeldOnce, Worked,
           DispatchRoundRobin \/ DispatchBFS \/ DispatchPriority
    PROVE  Worked'
<1>1. PICK p \in Programs : /\ Holds(ready_queue, p) /\ Dispatches(p)
                            /\ \A q : Holds(ready_queue', q) => Holds(ready_queue, q)
  BY DispatchSelects
<1>2. can_cpu_execute_process /\ ThreadsOnce
  BY DEF DispatchRoundRobin, DispatchBFS, DispatchPriority, CanDispatch, HeldOnce
<1>3. /\ p \in Pcbs /\ p \notin destroyed /\ ~On(hw_threads, p) /\ p # NoPcb
      /\ pcb[p].pgb = p /\ pcb[p].pid = p /\ pcb[p].state # "TERMINATED"
      /\ WorkDone(pcb[p], pcb[p].pc, program[p])
  BY <1>1, PcbAssumption DEF HeldOnce, Apart, Worked, OwnPids, WorkAdds, Pcbs
<1>4. PICK c \in Cores, m \in Slots :
              /\ hw_threads'[c][m] = [pcb |-> p, PC |-> pcb[p].pc]
              /\ \A d \in Cores, l \in Slots :
                    ~(d = c /\ l = m) => hw_threads'[d][l] = hw_threads[d][l]
              /\ \A d \in Cores : \A l \in 1 .. Len(pcbs'[d]) :
                    IF d = c /\ l = m
                    THEN pcbs'[d][l] = Started(p)
                    ELSE l \in 1 .. Len(pcbs[d]) /\ l \in Slots /\ pcbs'[d][l] = pcbs[d][l]
  BY <1>1, <1>2, <1>3, DispatchPlaces
<1>5. /\ pcb' = [pcb EXCEPT ![p] = Started(p)]
      /\ UNCHANGED <<destroyed, program>>
  BY <1>1 DEF Dispatches, countVars
<1>6. /\ Started(p).pid = p /\ Started(p).pgb = p /\ Started(p).state = "RUNNING"
      /\ Started(p).ttl = pcb[p].ttl
  <2>1. pcb[p] \in PcbType
    BY <1>3, TypeFacts
  <2>. QED
    BY <1>3, <2>1 DEF Started, PcbType
<1>7. pcb'[p] = Started(p) /\ \A q \in Pcbs : q # p => pcb'[q] = pcb[q]
  BY <1>3, <1>5, TypeFacts
<1>8. OwnPids'
  BY <1>6, <1>7 DEF Worked, OwnPids, Pcbs
<1>9. CopiesInStep'
  <2>. SUFFICES ASSUME NEW d \in Cores, NEW l \in 1 .. Len(pcbs'[d])
                PROVE  pcbs'[d][l].pid = hw_threads'[d][l].pcb
    BY DEF CopiesInStep
  <2>1. CASE d = c /\ l = m
    BY <1>4, <1>6, <2>1
  <2>2. CASE ~(d = c /\ l = m)
    <3>1. l \in 1 .. Len(pcbs[d]) /\ l \in Slots /\ pcbs'[d][l] = pcbs[d][l]
      BY <1>4, <2>2
    <3>2. hw_threads'[d][l] = hw_threads[d][l]
      BY <1>4, <2>2, <3>1
    <3>. QED
      BY <3>1, <3>2 DEF Worked, CopiesInStep
  <2>. QED
    BY <2>1, <2>2
<1>10. WorkDone(pcb'[p], pcb[p].pc, program[p])
  BY <1>3, <1>6, <1>7 DEF WorkDone
<1>11. HeldOnce'
  BY DispatchHeldOnce
<1>12. ~Holds(ready_queue', p)
  BY <1>3, <1>4, <1>11 DEF HeldOnce, Apart, On
<1>13. WorkAdds'
  <2>. SUFFICES ASSUME NEW q \in Programs, q \notin destroyed
                PROVE  /\ pcb'[q].pgb = q
                       /\ Holds(ready_queue', q) =>
                            pcb'[q].state # "TERMINATED" /\ WorkDone(pcb'[q], pcb'[q].pc, program'[q])
                       /\ \A d \in Cores, l \in Slots :
                            hw_threads'[d][l].pcb = q
                               => WorkDone(pcb'[q], hw_threads'[d][l].PC, program'[q])
    BY <1>5 DEF WorkAdds
  <2>1. CASE q = p
    <3>1. \A d \in Cores, l \in Slots :
             hw_threads'[d][l].pcb = p => hw_threads'[d][l].PC = pcb[p].pc
      BY <1>3, <1>4 DEF On
    <3>. QED
      BY <2>1, <3>1, <1>5, <1>6, <1>7, <1>10, <1>12
  <2>2. CASE q # p
    <3>1. pcb'[q] = pcb[q]
      BY <1>7, <2>2 DEF Pcbs
    <3>2. \A d \in Cores, l \in Slots :
             hw_threads'[d][l].pcb = q => hw_threads'[d][l] = hw_threads[d][l]
      BY <1>4, <2>2
    <3>. QED
      BY <1>1, <1>5, <3>1, <3>2 DEF Worked, WorkAdds
  <2>. QED
    BY <2>1, <2>2
<1>. QED
  BY <1>8, <1>9, <1>13 DEF Worked

\* The thread that a process is found on is the one it is loaded on.
LEMMA ThreadOfLoaded ==
    ASSUME HeldOnce, NEW p \in Pcbs, NEW c \in Cores, NEW k \in Slots, hw_threads[c][k].pcb = p
    PROVE  IsLoaded(p) /\ ThreadOf(p) = hw_threads[c][k]
<1>. DEFINE H == {hw_threads[d][l] : d \in Cores, l \in Slots}
<1>1. hw_threads[c][k] \in H
  OBVIOUS
<1>2. \A h \in H : h.pcb = p => h = hw_threads[c][k]
  BY PcbAssumption DEF HeldOnce, ThreadsOnce, LoadedOnce
<1>. QED
  BY <1>1, <1>2 DEF ThreadOf, IsLoaded

\* What a tick does to the process p on a thread, and to the thread.
LEMMA TickExecutes ==
    ASSUME TypeOK, HeldOnce, Worked, Tick, NEW p \in Programs,
           NEW c \in Cores, NEW k \in Slots, hw_threads[c][k].pcb = p
    PROVE  LET PC == hw_threads[c][k].PC
               stop == program[p].halt_at
           IN  /\ p \notin destroyed /\ pcb'[p].pc = pcb[p].pc /\ pcb'[p].quantum_counter = pcb[p].quantum_counter
               /\ hw_threads'[c][k] =
                     [pcb |-> p, PC |-> IF pcb[p].state = "TERMINATED" \/ PC = stop THEN PC ELSE PC + 1]
               /\ pcb'[p].state = IF PC = stop THEN "TERMINATED" ELSE pcb[p].state
               /\ PC # stop => pcb'[p].ttl = IF pcb[p].ttl > 0 THEN pcb[p].ttl - 1 ELSE pcb[p].ttl
<1>. DEFINE PC == hw_threads[c][k].PC
            stop == program[p].halt_at
<1>1. /\ p \in Pcbs /\ p # NoPcb /\ p \notin destroyed
      /\ pcb[p].pgb = p /\ WorkDone(pcb[p], PC, program[p])
  BY PcbAssumption DEF Pcbs, On, HeldOnce, Apart, Worked, WorkAdds
<1>2. IsLoaded(p) /\ ThreadOf(p) = hw_threads[c][k]
  BY <1>1, ThreadOfLoaded
<1>3. hw_threads'[c][k] = TickedThread(hw_threads[c][k]) /\ pcb'[p] = TickedPcb(p)
  BY <1>1, <1>2 DEF Tick
<1>4. pcb[p] \in PcbType /\ hw_threads[c][k] \in ThreadType /\ PC \in Nat
  BY <1>1, TypeFacts DEF Rows, ThreadType
<1>5. (Executes(p) <=> pcb[p].state # "TERMINATED") /\ \A n : AtHalt(p, n) <=> n = stop
  BY <1>1 DEF Executes, AtHalt
<1>6. pcb[p].state = "TERMINATED" => PC = stop
  BY <1>1 DEF WorkDone
<1>7. /\ pcb'[p].pc = pcb[p].pc /\ pcb'[p].quantum_counter = pcb[p].quantum_counter
      /\ pcb'[p].state = IF PC = stop THEN "TERMINATED" ELSE pcb[p].state
      /\ PC # stop => pcb'[p].ttl = IF pcb[p].ttl > 0 THEN pcb[p].ttl - 1 ELSE pcb[p].ttl
  BY <1>2, <1>3, <1>4, <1>5, <1>6 DEF TickedPcb, PcbType
<1>8. hw_threads'[c][k] =
         [pcb |-> p, PC |-> IF pcb[p].state = "TERMINATED" \/ PC = stop THEN PC ELSE PC + 1]
  <2>1. hw_threads[c][k] = [pcb |-> p, PC |-> PC]
    BY <1>4 DEF ThreadType
  <2>. QED
    BY <2>1, <1>1, <1>3, <1>5 DEF TickedThread
<1>. QED
  BY <1>1, <1>7, <1>8

\* A tick names no process anew.
LEMMA TickKeeps ==
    ASSUME TypeOK, Tick
    PROVE  /\ UNCHANGED <<program, ready_queue, pcbs, destroyed>>
           /\ \A c \in Cores, k \in Slots : hw_threads'[c][k].pcb = hw_threads[c][k].pcb
           /\ \A p \in Pcbs : /\ pcb'[p].pid = pcb[p].pid /\ pcb'[p].pgb = pcb[p].pgb
                              /\ ~IsLoaded(p) => pcb'[p] = pcb[p]
<1>1. UNCHANGED <<program, ready_queue, pcbs, destroyed>>
  BY DEF Tick, queueVars, countVars
<1>2. \A c \in Cores, k \in Slots : hw_threads'[c][k].pcb = hw_threads[c][k].pcb
  <2>. SUFFICES ASSUME NEW c \in Cores, NEW k \in Slots
                PROVE  hw_threads'[c][k].pcb = hw_threads[c][k].pcb
    OBVIOUS
  <2>1. hw_threads'[c][k] = TickedThread(hw_threads[c][k]) /\ hw_threads[c][k] \in ThreadType
    BY TypeFacts DEF Tick, Rows
  <2>. QED
    BY <2>1 DEF TickedThread, ThreadType
<1>3. \A p \in Pcbs : /\ pcb'[p].pid = pcb[p].pid /\ pcb'[p].pgb = pcb[p].pgb
                      /\ ~IsLoaded(p) => pcb'[p] = pcb[p]
  <2>. SUFFICES ASSUME NEW p \in Pcbs
                PROVE  /\ pcb'[p].pid = pcb[p].pid /\ pcb'[p].pgb = pcb[p].pgb
                       /\ ~IsLoaded(p) => pcb'[p] = pcb[p]
    OBVIOUS
  <2>1. pcb[p] \in PcbType /\ pcb'[p] = IF IsLoaded(p) THEN TickedPcb(p) ELSE pcb[p]
    BY TypeFacts DEF Tick
  <2>. QED
    BY <2>1 DEF TickedPcb, PcbType
<1>. QED
  BY <1>1, <1>2, <1>3

\* A tick takes one from the time to live for the instruction it executes.
LEMMA TickWorked == ASSUME TypeOK, HeldOnce, Worked, Tick PROVE Worked'
<1>1. /\ UNCHANGED <<program, ready_queue, pcbs, destroyed>>
      /\ \A c \in Cores, k \in Slots : hw_threads'[c][k].pcb = hw_threads[c][k].pcb
      /\ \A p \in Pcbs : /\ pcb'[p].pid = pcb[p].pid /\ pcb'[p].pgb = pcb[p].pgb
                         /\ ~IsLoaded(p) => pcb'[p] = pcb[p]
  BY TickKeeps
<1>2. OwnPids'
  BY <1>1 DEF Worked, OwnPids, Pcbs
<1>3. CopiesInStep'
  <2>1. \A c \in Cores : \A k \in 1 .. Len(pcbs[c]) : k \in Slots
    BY TypeFacts, SizeAssumption DEF Slots
  <2>. QED
    BY <1>1, <2>1 DEF Worked, CopiesInStep
<1>4. ASSUME NEW p \in Programs, p \notin destroyed, NEW c \in Cores, NEW k \in Slots,
             hw_threads[c][k].pcb = p
      PROVE  WorkDone(pcb'[p], hw_threads'[c][k].PC, program[p])
  <2>. DEFINE PC == hw_threads[c][k].PC
              stop == program[p].halt_at
              initial == InitialTtl(program[p].code_size)
              done == pcb[p].state = "TERMINATED" \/ PC = stop
  <2>0. /\ hw_threads'[c][k] = [pcb |-> p, PC |-> IF done THEN PC ELSE PC + 1]
        /\ pcb'[p].state = IF PC = stop THEN "TERMINATED" ELSE pcb[p].state
        /\ PC # stop => pcb'[p].ttl = IF pcb[p].ttl > 0 THEN pcb[p].ttl - 1 ELSE pcb[p].ttl
    BY <1>4, TickExecutes, SMTT(60)
  <2>1. hw_threads'[c][k].PC = IF done THEN PC ELSE PC + 1
    BY <2>0
  <2>2. WorkDone(pcb[p], PC, program[p])
    BY <1>4 DEF Worked, WorkAdds
  <2>3. PC \in Nat /\ pcb[p].ttl \in Nat /\ stop \in Nat /\ initial \in Nat
    <3>1. hw_threads[c][k] \in ThreadType /\ pcb[p] \in PcbType
      BY <1>4, TypeFacts DEF Rows, Pcbs
    <3>2. program[p].halt_at \in Nat /\ program[p].code_size \in Nat
      BY ShapeAssumption DEF TypeOK
    <3>. QED
      BY <3>1, <3>2, InitialTtlType DEF ThreadType, PcbType
  <2>4. /\ PC <= stop
        /\ IF pcb[p].state = "TERMINATED" THEN PC = stop
           ELSE IF pcb[p].ttl > 0 THEN pcb[p].ttl + PC = initial ELSE PC >= initial
    BY <2>2 DEF WorkDone
  <2>5. /\ hw_threads'[c][k].PC <= stop
        /\ IF pcb'[p].state = "TERMINATED" THEN hw_threads'[c][k].PC = stop
           ELSE IF pcb'[p].ttl > 0 THEN pcb'[p].ttl + hw_threads'[c][k].PC = initial
           ELSE hw_threads'[c][k].PC >= initial
    <3>. HIDE DEF PC, stop, initial
    <3>1. CASE PC = stop
      BY <3>1, <2>0, <2>1, <2>3
    <3>2. CASE PC # stop
      <4>1. pcb[p].state # "TERMINATED" /\ hw_threads'[c][k].PC = PC + 1
            /\ pcb'[p].state = pcb[p].state
        BY <3>2, <2>0, <2>1, <2>4
      <4>. QED
        BY <3>2, <4>1, <2>0, <2>1, <2>3, <2>4
    <3>. QED
      BY <3>1, <3>2
  <2>. QED
    BY <2>5 DEF WorkDone
<1>5. WorkAdds'
  <2>. SUFFICES ASSUME NEW p \in Programs, p \notin destroyed
                PROVE  /\ pcb'[p].pgb = p
                       /\ Holds(ready_queue', p) =>
                            pcb'[p].state # "TERMINATED" /\ WorkDone(pcb'[p], pcb'[p].pc, program'[p])
                       /\ \A d \in Cores, l \in Slots :
                            hw_threads'[d][l].pcb = p
                               => WorkDone(pcb'[p], hw_threads'[d][l].PC, program'[p])
    BY <1>1 DEF WorkAdds
  <2>1. Holds(ready_queue, p) => pcb'[p] = pcb[p]
    BY <1>1 DEF HeldOnce, Apart, On, IsLoaded, Pcbs
  <2>. QED
    BY <1>1, <1>4, <2>1 DEF Worked, WorkAdds, Pcbs
<1>. QED
  BY <1>2, <1>3, <1>5 DEF Worked

\* The freed PCBs need nothing, and the queue is empty then.
LEMMA CleanWorked == ASSUME Worked, CleanReadyQueue PROVE Worked'
<1>1. /\ ready_queue' = <<>> /\ destroyed \subseteq destroyed'
      /\ UNCHANGED <<program, pcb, hw_threads, pcbs>>
  BY DEF CleanReadyQueue, machineVars
<1>2. \A p : ~Holds(ready_queue', p)
  BY <1>1 DEF Holds
<1>. QED
  BY <1>1, <1>2 DEF Worked, OwnPids, CopiesInStep, WorkAdds

\* Destroying the scheduler executes nothing.
LEMMA DestroyWorked == ASSUME HeldOnce, Worked, DestroyScheduler PROVE Worked'
<1>1. UNCHANGED <<program, pcb, ready_queue, hw_threads, pcbs>> /\ destroyed \subseteq destroyed'
  BY DEF DestroyScheduler, machineVars
<1>. QED
  BY <1>1 DEF Worked, OwnPids, CopiesInStep, WorkAdds

\* Every step keeps the account.
LEMMA NextWorked ==
    ASSUME RoomyQueue, TypeOK, NoTransfer, HeldOnce, Worked, [Next]_vars
    PROVE  Worked'
<1>1. CASE ScanStep
  BY <1>1, CompleteWorked, ExpireWorked, KeepWorked DEF ScanStep
<1>2. CASE Tick
  BY <1>2, TickWorked
<1>3. CASE DispatchRoundRobin \/ DispatchBFS \/ DispatchPriority
  BY <1>3, DispatchWorked
<1>4. CASE DestroyScheduler \/ CleanReadyQueue
  BY <1>4, DestroyWorked, CleanWorked
<1>5. CASE TransferArrival \/ TransferPreempting
  BY <1>5 DEF TransferArrival, TransferPreempting, Transfers, NoTransfer, RoomyQueue
<1>6. CASE WakeOnTick \/ WakeOnTimer \/ NextCore \/ StopWaiting \/ EndScan \/ EndTransfer \/ EndPass
  BY <1>6, StillWorked DEF WakeOnTick, WakeOnTimer, NextCore, StopWaiting, EndScan,
     EndTransfer, EndPass, queueVars, machineVars, countVars
<1>7. CASE ClockStops \/ TimerChecks \/ TimerCallback
  BY <1>7, StillWorked DEF ClockStops, TimerChecks, TimerCallback, queueVars, machineVars, countVars
<1>8. CASE Interrupt \/ WakeEverybody \/ StopClockAndTimers
  BY <1>8, StillWorked DEF Interrupt, WakeEverybody, StopClockAndTimers,
     queueVars, machineVars, countVars
<1>9. CASE Halted \/ UNCHANGED vars
  BY <1>9, StillWorked DEF Halted, vars, queueVars, machineVars, countVars
<1>. QED
  BY <1>1, <1>2, <1>3, <1>4, <1>5, <1>6, <1>7, <1>8, <1>9
     DEF Next, ClockStep, TimerStep, SchedulerStep, MainStep

\* So it holds in every run.
LEMMA WorkedAlways ==
    ASSUME RoomyQueue PROVE Spec => [](TypeOK /\ HeldOnce /\ Worked)
<1>1. Init => TypeOK /\ NoTransfer /\ HeldOnce /\ Worked
  BY InitType, InitHeldOnce, InitWorked DEF Init, NoTransfer
<1>2. TypeOK /\ NoTransfer /\ HeldOnce /\ Worked /\ [Next]_vars
         => (TypeOK /\ NoTransfer /\ HeldOnce /\ Worked)'
  BY NextType, NextNoTransfer, NextHeldOnce, NextWorked
<1>. QED
  BY <1>1, <1>2, PTL DEF Spec

\* The preemption and the scan index two arrays with one count: under the same
\* conditions the copies and the threads of a core never get out of step.
THEOREM CopiesMirror == ASSUME RoomyQueue PROVE Spec => []CopiesMirrorThreads
<1>1. TypeOK /\ HeldOnce /\ Worked => CopiesMirrorThreads
  <2>. SUFFICES ASSUME TypeOK, HeldOnce, Worked, NEW c \in Cores, NEW k \in Slots
                PROVE  IF k <= current_pcb_count(c)
                       THEN /\ hw_threads[c][k].pcb # NoPcb
                            /\ pcbs[c][k].pid = pcb[hw_threads[c][k].pcb].pid
                       ELSE hw_threads[c][k].pcb = NoPcb
    BY DEF CopiesMirrorThreads
  <2>1. /\ hw_threads[c][k].pcb \in Pcbs \cup {NoPcb}
        /\ Len(pcbs[c]) \in Nat /\ k \in 1 .. NumThreads /\ NumThreads \in Nat
        /\ hw_threads[c][k].pcb # NoPcb <=> k <= Len(pcbs[c])
    BY TypeFacts, SizeAssumption DEF Rows, ThreadType, Slots, HeldOnce, ThreadsOnce, PrefixLoaded
  <2>2. CASE k <= Len(pcbs[c])
    <3>. DEFINE p == hw_threads[c][k].pcb
    <3>1. p \in Programs
      BY <2>1, <2>2 DEF HeldOnce, Apart, On
    <3>2. k \in 1 .. Len(pcbs[c])
      BY <2>1, <2>2
    <3>. QED
      BY <2>1, <2>2, <3>1, <3>2 DEF Worked, OwnPids, CopiesInStep, current_pcb_count
  <2>. QED
    BY <2>1, <2>2 DEF current_pcb_count
<1>. QED
  BY <1>1, WorkedAlways, PTL

\* Under the same conditions no context switch loses or repeats an instruction,
\* and each unit of a TTL pays for exactly one.
THEOREM TtlExact == ASSUME RoomyQueue PROVE Spec => []TtlCountsWork
<1>1. TypeOK /\ HeldOnce /\ Worked => TtlCountsWork
  <2>. SUFFICES ASSUME TypeOK, HeldOnce, Worked, NEW p \in Programs, p \notin destroyed,
                       pcb[p].ttl > 0, pcb[p].state # "TERMINATED"
                PROVE  pcb[p].ttl + Executed(p) = InitialTtl(program[p].code_size)
    BY DEF TtlCountsWork
  <2>1. CASE IsLoaded(p)
    <3>1. PICK c \in Cores, k \in Slots : hw_threads[c][k].pcb = p
      BY <2>1 DEF IsLoaded
    <3>2. Executed(p) = hw_threads[c][k].PC
      BY <3>1, ThreadOfLoaded DEF Executed, Pcbs
    <3>. QED
      BY <3>1, <3>2 DEF Worked, WorkAdds, WorkDone
  <2>2. CASE ~IsLoaded(p)
    <3>1. Holds(ready_queue, p) /\ Executed(p) = pcb[p].pc
      BY <2>2 DEF HeldOnce, Covered, On, IsLoaded, Executed
    <3>. QED
      BY <3>1 DEF Worked, WorkAdds, WorkDone
  <2>. QED
    BY <2>1, <2>2
<1>. QED
  BY <1>1, WorkedAlways, PTL

----------------------------------------------------------------------------
(* The quantum, when the scheduler is activated by the clock.              *)

\* A thread that the scheduler has yet to visit, in this pass or the next one,
\* since the last tick.
Due(c, k) ==
    \/ sched = "wait" /\ clk_counter # last_tick
    \/ sched = "scan" /\ (c > cursor.core \/ (c = cursor.core /\ k <= cursor.k))

\* The quantum counter of a process counts passes.  There is no pass without a
\* tick, so the process has executed as many instructions, and one more if the
\* pass for the last tick has not come to it.
ServedOn(rows, procs, c, k, due) ==
    LET p == rows[c][k].pcb
    IN  p # NoPcb /\ procs[p].state # "TERMINATED" =>
            rows[c][k].PC >= procs[p].pc + procs[p].quantum_counter + (IF due THEN 1 ELSE 0)

QuantaServed == \A c \in Cores, k \in Slots : ServedOn(hw_threads, pcb, c, k, Due(c, k))

\* No tick passes during a pass.
SameTick == sched \in {"scan", "dispatch"} => last_tick = clk_counter

Served == SameTick /\ QuantaServed

\* Nobody has been served at first.
LEMMA InitServed == Init => Served
<1>. SUFFICES ASSUME Init PROVE Served
  OBVIOUS
<1>1. \A c \in Cores, k \in Slots : hw_threads[c][k].pcb = NoPcb
  BY DEF Init, Idle
<1>. QED
  BY <1>1 DEF Init, Served, SameTick, QuantaServed, ServedOn

\* What was true of a thread and its process stays true of them when no more
\* is due of them.
LEMMA ServedStill ==
    ASSUME NEW rows \in Rows, NEW procs \in [Pcbs -> PcbType],
           NEW rows2, NEW procs2,
           NEW c \in Cores, NEW k \in Slots, NEW d \in Cores, NEW l \in Slots,
           NEW due \in BOOLEAN, NEW due2 \in BOOLEAN, due2 => due,
           rows2[d][l] = rows[c][k],
           rows[c][k].pcb # NoPcb => procs2[rows[c][k].pcb] = procs[rows[c][k].pcb],
           ServedOn(rows, procs, c, k, due)
    PROVE  ServedOn(rows2, procs2, d, l, due2)
<1>. DEFINE p == rows[c][k].pcb
<1>1. CASE p = NoPcb
  BY <1>1 DEF ServedOn
<1>2. CASE p # NoPcb
  <2>1. rows[c][k].PC \in Nat /\ procs[p].pc \in Nat /\ procs[p].quantum_counter \in Nat
    BY <1>2 DEF Rows, ThreadType, PcbType
  <2>. QED
    BY <1>2, <2>1 DEF ServedOn
<1>. QED
  BY <1>1, <1>2

\* A step that leaves the threads and the PCBs, and makes nothing due.
LEMMA StillServed ==
    ASSUME TypeOK, Served, UNCHANGED <<hw_threads, pcb>>, SameTick',
           \A c \in Cores, k \in Slots : Due(c, k)' => Due(c, k)
    PROVE  Served'
<1>. SUFFICES ASSUME NEW c \in Cores, NEW k \in Slots
              PROVE  ServedOn(hw_threads', pcb', c, k, Due(c, k)')
  BY DEF Served, QuantaServed
<1>1. hw_threads \in Rows /\ pcb \in [Pcbs -> PcbType] /\ Due(c, k) \in BOOLEAN /\ Due(c, k)' \in BOOLEAN
  BY TypeFacts DEF Due
<1>2. ServedOn(hw_threads, pcb, c, k, Due(c, k)) /\ (Due(c, k)' => Due(c, k))
  BY DEF Served, QuantaServed
<1>. QED
  BY <1>1, <1>2, ServedStill

\* The visited process leaves; the scan goes on below it.
LEMMA RemoveServed ==
    ASSUME TypeOK, HeldOnce, Served,
           NEW c \in Cores, NEW k \in Slots, NEW p \in Pcbs, Visits(c, k, p), RemoveFromCore(c, k),
           UNCHANGED <<clk_counter, sched, last_tick>>,
           \A q \in Pcbs : q # p => pcb'[q] = pcb[q]
    PROVE  Served'
<1>1. /\ k \in 1 .. Len(pcbs[c]) /\ p = hw_threads[c][k].pcb /\ p # NoPcb
      /\ sched = "scan" /\ cursor.core = c /\ cursor.k = k
      /\ cursor'.core = c /\ cursor'.k = k - 1
  BY PcbAssumption DEF Visits, RemoveFromCore, TypeOK, current_pcb_count
<1>2. \A d \in Cores, l \in Slots :
         hw_threads'[d][l].pcb # NoPcb =>
            /\ Source(c, k, d, l) \in Slots
            /\ hw_threads'[d][l] = hw_threads[d][Source(c, k, d, l)]
            /\ d = c => Source(c, k, d, l) # k
  BY <1>1, RemoveMoves DEF HeldOnce
<1>3. SameTick'
  BY DEF Served, SameTick
<1>4. ASSUME NEW d \in Cores, NEW l \in Slots
      PROVE  ServedOn(hw_threads', pcb', d, l, Due(d, l)')
  <2>. DEFINE s == Source(c, k, d, l)
              q == hw_threads'[d][l].pcb
  <2>1. CASE q = NoPcb
    BY <2>1 DEF ServedOn
  <2>2. CASE q # NoPcb
    <3>1. s \in Slots /\ hw_threads'[d][l] = hw_threads[d][s] /\ (d = c => s # k)
      BY <2>2, <1>2
    <3>2. q # p
      <4>1. hw_threads[d][s].pcb = q /\ hw_threads[c][k].pcb = p
        BY <3>1, <1>1
      <4>2. q = p => d = c /\ s = k
        <5>. HIDE DEF q, s
        <5>. QED
          BY <4>1, <3>1, <1>1 DEF HeldOnce, ThreadsOnce, LoadedOnce
      <4>. QED
        BY <3>1, <4>2
    <3>3. q \in Pcbs
      BY <3>1, <2>2, TypeFacts DEF Rows, ThreadType
    <3>4. Due(d, l)' => Due(d, s)
      BY <1>1, SizeAssumption DEF Due, Source, Cores, Slots
    <3>5. Due(d, l)' \in BOOLEAN /\ Due(d, s) \in BOOLEAN
      BY DEF Due
    <3>6. ServedOn(hw_threads, pcb, d, s, Due(d, s))
      BY <3>1 DEF Served, QuantaServed
    <3>7. hw_threads[d][s].pcb = q /\ pcb'[q] = pcb[q]
      BY <3>1, <3>2, <3>3
    <3>8. hw_threads \in Rows /\ pcb \in [Pcbs -> PcbType]
      BY TypeFacts
    <3>. HIDE DEF q, s
    <3>. QED
      BY <3>1, <3>4, <3>5, <3>6, <3>7, <3>8, ServedStill, SMTT(60)
  <2>. QED
    BY <2>1, <2>2
<1>. QED
  BY <1>3, <1>4 DEF Served, QuantaServed

\* A pass counts one for each process it comes to, which has executed since the last.
LEMMA ScanServed ==
    ASSUME TypeOK, HeldOnce, Served, NEW c \in Cores, NEW k \in Slots, NEW p \in Pcbs,
           CompleteProcess(c, k, p) \/ ExpireQuantum(c, k, p) \/ KeepExecuting(c, k, p)
    PROVE  Served'
<1>0. pcb \in [Pcbs -> PcbType] /\ pcb[p] \in PcbType
  BY TypeFacts
<1>1. CASE CompleteProcess(c, k, p)
  <2>1. \A q \in Pcbs : q # p => pcb'[q] = pcb[q]
    BY <1>0, <1>1 DEF CompleteProcess
  <2>. QED
    BY <1>1, <2>1, RemoveServed DEF CompleteProcess
<1>2. CASE ExpireQuantum(c, k, p)
  <2>1. \A q \in Pcbs : q # p => pcb'[q] = pcb[q]
    BY <1>0, <1>2 DEF ExpireQuantum
  <2>. QED
    BY <1>2, <2>1, RemoveServed DEF ExpireQuantum
<1>3. CASE KeepExecuting(c, k, p)
  <2>1. /\ p = hw_threads[c][k].pcb /\ p # NoPcb
        /\ sched = "scan" /\ cursor.core = c /\ cursor.k = k
        /\ cursor'.core = c /\ cursor'.k = k - 1
        /\ UNCHANGED <<clk_counter, hw_threads, sched, last_tick>>
    BY <1>3, PcbAssumption DEF KeepExecuting, Visits, TypeOK, machineVars
  <2>2. SameTick'
    BY <2>1 DEF Served, SameTick
  <2>3. /\ \A q \in Pcbs : q # p => pcb'[q] = pcb[q]
        /\ pcb'[p].state = pcb[p].state /\ pcb'[p].pc = pcb[p].pc
        /\ pcb'[p].quantum_counter = pcb[p].quantum_counter + 1
    BY <1>0, <1>3 DEF KeepExecuting, PcbType
  <2>4. ASSUME NEW d \in Cores, NEW l \in Slots
        PROVE  ServedOn(hw_threads', pcb', d, l, Due(d, l)')
    <3>. DEFINE q == hw_threads[d][l].pcb
    <3>1. CASE q = NoPcb
      BY <2>1, <3>1 DEF ServedOn
    <3>2. CASE q # NoPcb /\ q # p
      <4>1. q \in Pcbs
        BY <3>2, TypeFacts DEF Rows, ThreadType
      <4>2. Due(d, l)' => Due(d, l)
        BY <2>1, SizeAssumption DEF Due, Cores, Slots
      <4>3. Due(d, l)' \in BOOLEAN /\ Due(d, l) \in BOOLEAN
        BY DEF Due
      <4>4. ServedOn(hw_threads, pcb, d, l, Due(d, l))
        BY DEF Served, QuantaServed
      <4>5. hw_threads \in Rows /\ pcb \in [Pcbs -> PcbType]
        BY TypeFacts
      <4>6. hw_threads'[d][l] = hw_threads[d][l] /\ pcb'[q] = pcb[q]
        BY <2>1, <2>3, <3>2, <4>1
      <4>. QED
        BY <4>2, <4>3, <4>4, <4>5, <4>6, ServedStill, SMTT(60)
    <3>3. CASE q = p
      <4>1. d = c /\ l = k
        BY <2>1, <3>3 DEF HeldOnce, ThreadsOnce, LoadedOnce
      <4>2. Due(d, l) /\ ~Due(d, l)'
        BY <2>1, <4>1, SizeAssumption DEF Due, Cores, Slots
      <4>3. ServedOn(hw_threads, pcb, d, l, Due(d, l))
        BY DEF Served, QuantaServed
      <4>4. hw_threads[d][l].PC \in Nat /\ pcb[p].pc \in Nat /\ pcb[p].quantum_counter \in Nat
        BY <1>0, TypeFacts DEF Rows, ThreadType, PcbType
      <4>. QED
        BY <2>1, <2>3, <3>3, <4>2, <4>3, <4>4 DEF ServedOn
    <3>. QED
      BY <3>1, <3>2, <3>3
  <2>. QED
    BY <2>2, <2>4 DEF Served, QuantaServed
<1>. QED
  BY <1>1, <1>2, <1>3

\* A dispatched process begins a quantum of its own.
LEMMA DispatchServed ==
    ASSUME RoomyQueue, TypeOK, HeldOnce, Served,
           DispatchRoundRobin \/ DispatchBFS \/ DispatchPriority
    PROVE  Served'
<1>1. PICK p \in Programs : Holds(ready_queue, p) /\ Dispatches(p)
  BY DispatchSelects
<1>2. can_cpu_execute_process /\ ThreadsOnce /\ sched = "dispatch"
  BY DEF DispatchRoundRobin, DispatchBFS, DispatchPriority, CanDispatch, HeldOnce
<1>3. /\ p \in Pcbs /\ ~On(hw_threads, p) /\ p # NoPcb
      /\ pcb \in [Pcbs -> PcbType] /\ hw_threads \in Rows
  BY <1>1, PcbAssumption, TypeFacts DEF HeldOnce, Apart, Pcbs
<1>4. PICK c \in Cores, m \in Slots :
              /\ hw_threads'[c][m] = [pcb |-> p, PC |-> pcb[p].pc]
              /\ \A d \in Cores, l \in Slots :
                    ~(d = c /\ l = m) => hw_threads'[d][l] = hw_threads[d][l]
  BY <1>1, <1>2, <1>3, DispatchPlaces
<1>5. /\ pcb' = [pcb EXCEPT ![p] = Started(p)]
      /\ UNCHANGED <<clk_counter, sched, last_tick, cursor>>
  BY <1>1 DEF Dispatches, schedVars
<1>6. /\ pcb'[p].pc = pcb[p].pc /\ pcb'[p].quantum_counter = 0
      /\ \A q \in Pcbs : q # p => pcb'[q] = pcb[q]
      /\ pcb[p].pc \in Nat
  BY <1>3, <1>5 DEF Started, PcbType
<1>7. SameTick' /\ \A d \in Cores, l \in Slots : ~Due(d, l)'
  BY <1>2, <1>5 DEF Served, SameTick, Due
<1>8. ASSUME NEW d \in Cores, NEW l \in Slots
      PROVE  ServedOn(hw_threads', pcb', d, l, Due(d, l)')
  <2>1. CASE d = c /\ l = m
    BY <2>1, <1>4, <1>6, <1>7 DEF ServedOn
  <2>2. CASE ~(d = c /\ l = m)
    <3>. DEFINE q == hw_threads[d][l].pcb
    <3>1. hw_threads'[d][l] = hw_threads[d][l] /\ q # p
      BY <2>2, <1>3, <1>4 DEF On
    <3>2. q # NoPcb => pcb'[q] = pcb[q]
      BY <3>1, <1>3, <1>6 DEF Rows, ThreadType
    <3>3. Due(d, l)' \in BOOLEAN /\ Due(d, l) \in BOOLEAN /\ (Due(d, l)' => Due(d, l))
      BY <1>7 DEF Due
    <3>4. ServedOn(hw_threads, pcb, d, l, Due(d, l))
      BY DEF Served, QuantaServed
    <3>5. pcb \in [Pcbs -> PcbType] /\ hw_threads \in Rows /\ hw_threads'[d][l] = hw_threads[d][l]
      BY <1>3, <3>1
    <3>6. q # NoPcb => hw_threads[d][l].PC \in Nat /\ pcb[q].pc \in Nat /\ pcb[q].quantum_counter \in Nat
      BY <1>3 DEF Rows, ThreadType, PcbType
    <3>. QED
      BY <3>2, <3>4, <3>5, <3>6, <1>7 DEF ServedOn
  <2>. QED
    BY <2>1, <2>2
<1>. QED
  BY <1>7, <1>8 DEF Served, QuantaServed

\* With a tick, the pass that follows is due on every thread.
LEMMA TickServed == ASSUME TypeOK, HeldOnce, Worked, Served, Tick PROVE Served'
<1>1. \A c \in Cores, k \in Slots : hw_threads'[c][k].pcb = hw_threads[c][k].pcb
  BY TickKeeps
<1>2. SameTick'
  BY DEF Tick, MutexFree, SameTick, schedVars
<1>3. ASSUME NEW c \in Cores, NEW k \in Slots
      PROVE  ServedOn(hw_threads', pcb', c, k, Due(c, k)')
  <2>. DEFINE p == hw_threads[c][k].pcb
              PC == hw_threads[c][k].PC
              stop == program[p].halt_at
  <2>1. CASE p = NoPcb
    BY <2>1, <1>1 DEF ServedOn
  <2>2. CASE p # NoPcb
    <3>1. p \in Programs
      BY <2>2, TypeFacts DEF HeldOnce, Apart, On, Rows, ThreadType
    <3>2. /\ pcb'[p].pc = pcb[p].pc /\ pcb'[p].quantum_counter = pcb[p].quantum_counter
          /\ hw_threads'[c][k] =
                [pcb |-> p, PC |-> IF pcb[p].state = "TERMINATED" \/ PC = stop THEN PC ELSE PC + 1]
          /\ pcb'[p].state = IF PC = stop THEN "TERMINATED" ELSE pcb[p].state
      BY <3>1, TickExecutes, SMTT(60)
    <3>3. PC \in Nat /\ pcb[p].pc \in Nat /\ pcb[p].quantum_counter \in Nat
      BY <3>1, TypeFacts DEF Rows, ThreadType, PcbType, Pcbs
    <3>4. p # NoPcb /\ pcb[p].state # "TERMINATED" => PC >= pcb[p].pc + pcb[p].quantum_counter
      BY <3>3 DEF Served, QuantaServed, ServedOn
    <3>5. pcb'[p].state # "TERMINATED" =>
             hw_threads'[c][k].PC >= pcb'[p].pc + pcb'[p].quantum_counter + 1
      <4>. HIDE DEF p, PC, stop
      <4>. QED
        BY <2>2, <3>2, <3>3, <3>4
    <3>6. hw_threads'[c][k].pcb = p /\ hw_threads'[c][k].PC \in Nat
      BY <3>2, <3>3
    <3>. HIDE DEF p, PC
    <3>. QED
      BY <3>2, <3>3, <3>5, <3>6 DEF ServedOn
  <2>. QED
    BY <2>1, <2>2
<1>. QED
  BY <1>2, <1>3 DEF Served, QuantaServed

\* Wherever the scheduler goes next, nothing becomes due but by a tick.
LEMMA ControlServed ==
    ASSUME RoomyQueue, SyncMode = "CLOCK", TypeOK, NoTransfer, Served,
           \/ WakeOnTick \/ WakeOnTimer \/ NextCore \/ StopWaiting \/ EndScan \/ EndTransfer \/ EndPass
           \/ ClockStops \/ TimerChecks \/ TimerCallback
           \/ Interrupt \/ WakeEverybody \/ StopClockAndTimers \/ DestroyScheduler \/ CleanReadyQueue
           \/ Halted \/ UNCHANGED vars
    PROVE  Served'
<1>1. Policy # "PRIO"
  BY DEF RoomyQueue
<1>2. UNCHANGED <<hw_threads, pcb, clk_counter>>
  BY DEF WakeOnTick, WakeOnTimer, NextCore, StopWaiting, EndScan, EndTransfer, EndPass,
     ClockStops, TimerChecks, TimerCallback, Interrupt, WakeEverybody, StopClockAndTimers,
     DestroyScheduler, CleanReadyQueue, Halted, vars, machineVars
<1>3. CASE WakeOnTick
  BY <1>2, <1>3, StillServed DEF WakeOnTick, SameTick, Due
<1>4. CASE NextCore
  <2>1. /\ sched = "scan" /\ sched' = "scan" /\ cursor'.core = cursor.core + 1 /\ cursor.core \in Cores
        /\ UNCHANGED last_tick
    BY <1>4 DEF NextCore, TypeOK
  <2>2. SameTick' /\ \A c \in Cores, k \in Slots : Due(c, k)' => Due(c, k)
    BY <2>1, <1>2, SizeAssumption DEF Served, SameTick, Due, Cores
  <2>. QED
    BY <1>2, <2>2, StillServed
<1>5. CASE StopWaiting \/ EndScan \/ EndTransfer \/ EndPass
  <2>1. UNCHANGED last_tick /\ sched' \in {"stopped", "dispatch", "wait"}
    BY <1>1, <1>5 DEF StopWaiting, EndScan, EndTransfer, EndPass
  <2>2. sched' \in {"dispatch", "wait"} => sched \in {"scan", "dispatch"}
    BY <1>1, <1>5 DEF StopWaiting, EndScan, EndTransfer, EndPass, NoTransfer
  <2>3. SameTick' /\ \A c \in Cores, k \in Slots : ~Due(c, k)'
    BY <2>1, <2>2, <1>2 DEF Served, SameTick, Due
  <2>. QED
    BY <1>2, <2>3, StillServed
<1>6. CASE TimerCallback \/ WakeEverybody
  <2>1. UNCHANGED <<last_tick, cursor>> /\ sched' \in {sched, "woken"}
    BY <1>6 DEF TimerCallback, WakeEverybody, SchedAfterSignal
  <2>2. SameTick' /\ \A c \in Cores, k \in Slots : Due(c, k)' => Due(c, k)
    BY <2>1, <1>2 DEF Served, SameTick, Due
  <2>. QED
    BY <1>2, <2>2, StillServed
<1>7. CASE UNCHANGED <<sched, last_tick, cursor>>
  <2>1. SameTick' /\ \A c \in Cores, k \in Slots : Due(c, k)' => Due(c, k)
    BY <1>2, <1>7 DEF Served, SameTick, Due
  <2>. QED
    BY <1>2, <2>1, StillServed
<1>8. CASE \/ ClockStops \/ TimerChecks \/ Interrupt \/ StopClockAndTimers
           \/ DestroyScheduler \/ CleanReadyQueue \/ Halted \/ UNCHANGED vars
  <2>1. UNCHANGED <<sched, last_tick, cursor>>
    BY <1>8 DEF ClockStops, TimerChecks, Interrupt, StopClockAndTimers, DestroyScheduler,
        CleanReadyQueue, Halted, vars, schedVars
  <2>. QED
    BY <2>1, <1>7
<1>. QED
  BY <1>3, <1>4, <1>5, <1>6, <1>8 DEF WakeOnTimer

\* Every step keeps the count of what was granted and served in step.
LEMMA NextServed ==
    ASSUME RoomyQueue, SyncMode = "CLOCK", TypeOK, NoTransfer, HeldOnce, Worked, Served, [Next]_vars
    PROVE  Served'
<1>1. CASE ScanStep
  BY <1>1, ScanServed DEF ScanStep
<1>2. CASE Tick
  BY <1>2, TickServed
<1>3. CASE DispatchRoundRobin \/ DispatchBFS \/ DispatchPriority
  BY <1>3, DispatchServed
<1>4. CASE TransferArrival \/ TransferPreempting
  BY <1>4 DEF TransferArrival, TransferPreempting, Transfers, NoTransfer, RoomyQueue
<1>5. CASE ~(ScanStep \/ Tick \/ DispatchRoundRobin \/ DispatchBFS \/ DispatchPriority
             \/ TransferArrival \/ TransferPreempting)
  BY <1>5, ControlServed DEF Next, ClockStep, TimerStep, SchedulerStep, MainStep
<1>. QED
  BY <1>1, <1>2, <1>3, <1>4, <1>5

\* Only a removal takes a process off its thread.
LEMMA OnlyScanUnloads ==
    ASSUME RoomyQueue, TypeOK, NoTransfer, HeldOnce, Worked, [Next]_vars,
           NEW p \in Programs, IsLoaded(p), ~IsLoaded(p)'
    PROVE  \E c \in Cores, k \in Slots : CompleteProcess(c, k, p) \/ ExpireQuantum(c, k, p)
<1>1. PICK d \in Cores, l \in Slots : hw_threads[d][l].pcb = p
  BY DEF IsLoaded
<1>2. p # NoPcb /\ p \in Pcbs
  BY PcbAssumption DEF Pcbs
<1>3. CASE ScanStep
  <2>1. PICK c \in Cores, k \in Slots, q \in Pcbs :
           CompleteProcess(c, k, q) \/ ExpireQuantum(c, k, q) \/ KeepExecuting(c, k, q)
    BY <1>3 DEF ScanStep
  <2>2. ~KeepExecuting(c, k, q)
    BY <1>1 DEF KeepExecuting, machineVars, IsLoaded
  <2>3. k \in 1 .. Len(pcbs[c]) /\ RemoveFromCore(c, k) /\ q = hw_threads[c][k].pcb
    BY <2>1, <2>2 DEF CompleteProcess, ExpireQuantum, Visits, current_pcb_count
  <2>4. On(hw_threads', p) <=> On(hw_threads, p) /\ p # q
    BY <1>2, <2>3, UnloadThreads DEF HeldOnce
  <2>5. p = q
    BY <2>4 DEF On, IsLoaded
  <2>. QED
    BY <2>1, <2>2, <2>5
<1>4. CASE Tick
  BY <1>1, <1>4, TickKeeps DEF IsLoaded
<1>5. CASE DispatchRoundRobin \/ DispatchBFS \/ DispatchPriority
  <2>1. PICK q \in Programs : Holds(ready_queue, q) /\ Dispatches(q)
    BY <1>5, DispatchSelects
  <2>2. can_cpu_execute_process /\ ThreadsOnce /\ q \in Pcbs /\ ~On(hw_threads, q)
    BY <1>5, <2>1 DEF DispatchRoundRobin, DispatchBFS, DispatchPriority, CanDispatch, HeldOnce,
       Apart, Pcbs
  <2>3. PICK c \in Cores, m \in Slots :
              /\ hw_threads[c][m].pcb = NoPcb
              /\ hw_threads'[c][m] = [pcb |-> q, PC |-> pcb[q].pc]
              /\ \A e \in Cores, i \in Slots :
                    ~(e = c /\ i = m) => hw_threads'[e][i] = hw_threads[e][i]
    BY <2>1, <2>2, DispatchPlaces
  <2>4. hw_threads'[d][l].pcb # p
    BY DEF IsLoaded
  <2>5. d = c /\ l = m
    BY <2>3, <2>4, <1>1
  <2>. QED
    BY <2>3, <2>5, <1>1, <1>2
<1>6. CASE TransferArrival \/ TransferPreempting
  BY <1>6 DEF TransferArrival, TransferPreempting, Transfers, NoTransfer, RoomyQueue
<1>7. CASE ~(ScanStep \/ Tick \/ DispatchRoundRobin \/ DispatchBFS \/ DispatchPriority
             \/ TransferArrival \/ TransferPreempting)
  <2>1. UNCHANGED hw_threads
    BY <1>7 DEF Next, ClockStep, TimerStep, SchedulerStep, MainStep,
       WakeOnTick, WakeOnTimer, NextCore, StopWaiting, EndScan, EndTransfer, EndPass,
       ClockStops, TimerChecks, TimerCallback, Interrupt, WakeEverybody, StopClockAndTimers,
       DestroyScheduler, CleanReadyQueue, Halted, vars, machineVars
  <2>. QED
    BY <2>1 DEF IsLoaded
<1>. QED
  BY <1>3, <1>4, <1>5, <1>6, <1>7

\* With the scheduler activated by the clock, and under the same conditions, a
\* process gives up its thread, unless it has completed, only after executing
\* at least a quantum of instructions, and its saved context shows them.
THEOREM QuantumGranted ==
    ASSUME RoomyQueue, SyncMode = "CLOCK" PROVE Spec => ExpiryGrantsQuantum
<1>1. Init => TypeOK /\ NoTransfer /\ HeldOnce /\ Worked /\ Served
  BY InitType, InitHeldOnce, InitWorked, InitServed DEF Init, NoTransfer
<1>2. TypeOK /\ NoTransfer /\ HeldOnce /\ Worked /\ Served /\ [Next]_vars
         => (TypeOK /\ NoTransfer /\ HeldOnce /\ Worked /\ Served)'
  BY NextType, NextNoTransfer, NextHeldOnce, NextWorked, NextServed
<1>. DEFINE Granted ==
        \A p \in Programs : IsLoaded(p) /\ ~IsLoaded(p)' /\ p \notin destroyed'
                               => pcb'[p].pc >= pcb[p].pc + Quantum
<1>3. TypeOK /\ NoTransfer /\ HeldOnce /\ Worked /\ Served /\ [Next]_vars => Granted
  <2>. SUFFICES ASSUME TypeOK, NoTransfer, HeldOnce, Worked, Served, [Next]_vars,
                       NEW p \in Programs, IsLoaded(p), ~IsLoaded(p)', p \notin destroyed'
                PROVE  pcb'[p].pc >= pcb[p].pc + Quantum
    OBVIOUS
  <2>1. PICK c \in Cores, k \in Slots : CompleteProcess(c, k, p) \/ ExpireQuantum(c, k, p)
    BY OnlyScanUnloads
  <2>2. ~CompleteProcess(c, k, p)
    BY DEF CompleteProcess
  <2>3. /\ p = hw_threads[c][k].pcb /\ p # NoPcb /\ p \in Pcbs
        /\ pcb[p].state # "TERMINATED" /\ pcb[p].quantum_counter + 1 >= Quantum
        /\ pcb' = [pcb EXCEPT ![p] = SavedPcb(p, hw_threads[c][k].PC)]
        /\ Due(c, k)
    BY <2>1, <2>2, PcbAssumption, SizeAssumption
       DEF ExpireQuantum, Visits, HasCompleted, QuantumExpired, Due, Slots
  <2>4. hw_threads[c][k].PC >= pcb[p].pc + pcb[p].quantum_counter + 1
    BY <2>3 DEF Served, QuantaServed, ServedOn
  <2>5. pcb \in [Pcbs -> PcbType] /\ pcb[p] \in PcbType /\ hw_threads[c][k].PC \in Nat
    BY <2>3, TypeFacts DEF Rows, ThreadType
  <2>6. pcb'[p].pc = hw_threads[c][k].PC
    BY <2>3, <2>5 DEF SavedPcb, PcbType
  <2>7. pcb[p].pc \in Nat /\ pcb[p].quantum_counter \in Nat
    BY <2>5 DEF PcbType
  <2>. QED
    BY <2>3, <2>4, <2>5, <2>6, <2>7, SizeAssumption
<1>. QED
  BY <1>1, <1>2, <1>3, PTL DEF Spec, ExpiryGrantsQuantum

----------------------------------------------------------------------------
(* A pass, and those whose time is spent.                                  *)

HasTime(process) == process.ttl > 0 /\ process.state # "TERMINATED"

\* A thread that the scan of this pass has been at.
Visited(c, k) ==
    \/ sched = "dispatch"
    \/ sched = "scan" /\ (c < cursor.core \/ (c = cursor.core /\ k > cursor.k))

\* Whatever waits has time left, although the clock takes it from what executes,
\* and so has, as long as the pass goes on, whatever it leaves on the threads.
QueueHasTime == \A p \in Programs : Holds(ready_queue, p) => HasTime(pcb[p])
ThreadsHaveTime ==
    running => \A c \in Cores, k \in Slots :
                  Visited(c, k) /\ hw_threads[c][k].pcb # NoPcb => HasTime(pcb[hw_threads[c][k].pcb])
Weeded == QueueHasTime /\ ThreadsHaveTime

\* The loader gives every program at least ten ticks.
LEMMA InitWeeded == Init => Weeded
<1>. SUFFICES ASSUME Init PROVE Weeded
  OBVIOUS
<1>1. PICK priority \in [Programs -> Levels] :
         pcb = [p \in Pcbs |-> IF p \in Programs THEN Loaded(p, priority[p]) ELSE NewPcb(p)]
  BY DEF Init
<1>2. ASSUME NEW p \in Programs PROVE HasTime(pcb[p])
  <2>1. pcb[p] = Loaded(p, priority[p])
    BY <1>1 DEF Pcbs
  <2>2. InitialTtl(program[p].code_size) > 0
    BY ShapeAssumption DEF Init, InitialTtl
  <2>. QED
    BY <2>1, <2>2 DEF HasTime, Loaded, NewPcb
<1>3. \A c \in Cores, k \in Slots : ~Visited(c, k)
  BY DEF Init, Visited
<1>. QED
  BY <1>2, <1>3 DEF Weeded, QueueHasTime, ThreadsHaveTime

\* A removal in the scan leaves visited threads where visited threads are looked
\* for, and the process that it removes on none.
LEMMA RemoveVisits ==
    ASSUME TypeOK, HeldOnce, Weeded, NEW c \in Cores, NEW k \in Slots, NEW p \in Pcbs,
           Visits(c, k, p), RemoveFromCore(c, k), UNCHANGED <<running, sched>>,
           \A q \in Pcbs : q # p => pcb'[q] = pcb[q]
    PROVE  ThreadsHaveTime'
<1>1. /\ k \in 1 .. Len(pcbs[c]) /\ p = hw_threads[c][k].pcb /\ sched = "scan" /\ running
      /\ ThreadsOnce /\ cursor.core = c /\ cursor.k = k
      /\ cursor'.core = c /\ cursor'.k = k - 1
  BY DEF Visits, current_pcb_count, HeldOnce, RemoveFromCore, TypeOK
<1>. SUFFICES ASSUME NEW d \in Cores, NEW l \in Slots, Visited(d, l)', hw_threads'[d][l].pcb # NoPcb
              PROVE  HasTime(pcb'[hw_threads'[d][l].pcb])
  BY DEF ThreadsHaveTime
<1>. DEFINE q == hw_threads'[d][l].pcb
            s == Source(c, k, d, l)
<1>2. s \in Slots /\ hw_threads'[d][l] = hw_threads[d][s] /\ (d = c => s # k)
  BY <1>1, RemoveMoves
<1>3. Visited(d, s)
  <2>1. d < c \/ (d = c /\ l > k - 1)
    BY <1>1 DEF Visited
  <2>2. d \in Nat /\ c \in Nat /\ k \in Nat /\ l \in Nat
    BY SizeAssumption DEF Cores, Slots
  <2>. QED
    BY <1>1, <2>1, <2>2 DEF Visited, Source
<1>4. HasTime(pcb[q])
  BY <1>1, <1>2, <1>3 DEF Weeded, ThreadsHaveTime
<1>5. q # p /\ q \in Pcbs
  BY <1>1, <1>2, TypeFacts DEF ThreadsOnce, LoadedOnce, Rows, ThreadType
<1>. QED
  BY <1>4, <1>5 DEF HasTime

\* The scan takes away whoever has no time left and requeues only who has.
LEMMA ScanWeeded ==
    ASSUME RoomyQueue, TypeOK, HeldOnce, Weeded, NEW c \in Cores, NEW k \in Slots, NEW p \in Pcbs,
           CompleteProcess(c, k, p) \/ ExpireQuantum(c, k, p) \/ KeepExecuting(c, k, p)
    PROVE  Weeded'
<1>1. /\ Visits(c, k, p) /\ p = hw_threads[c][k].pcb /\ pcb \in [Pcbs -> PcbType]
      /\ UNCHANGED <<running, sched>>
  BY TypeFacts DEF CompleteProcess, ExpireQuantum, KeepExecuting, Visits
<1>2. p \in Programs /\ ~Holds(ready_queue, p)
  BY <1>1 DEF On, HeldOnce, Apart
<1>3. ~HasCompleted(p) => HasTime(pcb[p])
  BY <1>1 DEF HasCompleted, HasTime, PcbType
<1>4. CASE CompleteProcess(c, k, p)
  <2>1. /\ RemoveFromCore(c, k) /\ ready_queue' = ready_queue
        /\ \A q \in Pcbs : q # p => pcb'[q] = pcb[q]
    BY <1>1, <1>4 DEF CompleteProcess, queueVars
  <2>2. QueueHasTime'
    BY <1>2, <2>1 DEF Weeded, QueueHasTime, HasTime, Pcbs
  <2>. QED
    BY <1>1, <2>1, <2>2, RemoveVisits DEF Weeded
<1>5. CASE ExpireQuantum(c, k, p)
  <2>1. /\ RemoveFromCore(c, k) /\ EnqueueToScheduler(p, pcb[p].priority) /\ HasTime(pcb[p])
        /\ pcb' = [pcb EXCEPT ![p] = SavedPcb(p, hw_threads[c][k].PC)]
    BY <1>3, <1>5 DEF ExpireQuantum
  <2>2. /\ \A q \in Pcbs : q # p => pcb'[q] = pcb[q]
        /\ pcb'[p].ttl = pcb[p].ttl /\ pcb'[p].state = "WAITING"
    BY <1>1, <2>1 DEF SavedPcb, PcbType
  <2>3. \A q \in Programs : Holds(ready_queue', q) => Holds(ready_queue, q) \/ q = p
    BY <1>2, <1>5, <2>1, ExpireHeldOnce, ExpireAdds
  <2>4. QueueHasTime'
    BY <2>1, <2>2, <2>3 DEF Weeded, QueueHasTime, HasTime, Pcbs
  <2>. QED
    BY <1>1, <2>1, <2>2, <2>4, RemoveVisits DEF Weeded
<1>6. CASE KeepExecuting(c, k, p)
  <2>1. /\ HasTime(pcb[p]) /\ UNCHANGED <<ready_queue, hw_threads>>
        /\ cursor.core = c /\ cursor.k = k /\ cursor'.core = c /\ cursor'.k = k - 1
        /\ sched = "scan" /\ running
    BY <1>3, <1>6 DEF KeepExecuting, Visits, queueVars, machineVars, TypeOK
  <2>2. \A q \in Pcbs : pcb'[q].ttl = pcb[q].ttl /\ pcb'[q].state = pcb[q].state
    BY <1>1, <1>6 DEF KeepExecuting, PcbType
  <2>3. QueueHasTime'
    BY <2>1, <2>2 DEF Weeded, QueueHasTime, HasTime, Pcbs
  <2>4. ASSUME NEW d \in Cores, NEW l \in Slots, Visited(d, l)', hw_threads[d][l].pcb # NoPcb
        PROVE  HasTime(pcb'[hw_threads[d][l].pcb])
    <3>1. Visited(d, l) \/ (d = c /\ l = k)
      BY <1>1, <2>1, <2>4, SizeAssumption DEF Visited, Cores, Slots
    <3>2. HasTime(pcb[hw_threads[d][l].pcb])
      BY <1>1, <2>1, <2>4, <3>1 DEF Weeded, ThreadsHaveTime
    <3>3. hw_threads[d][l].pcb \in Pcbs
      BY <2>4, TypeFacts DEF Rows, ThreadType
    <3>. QED
      BY <2>2, <3>2, <3>3 DEF HasTime
  <2>. QED
    BY <2>1, <2>3, <2>4 DEF Weeded, ThreadsHaveTime
<1>. QED
  BY <1>4, <1>5, <1>6

\* What is dispatched has waited.
LEMMA DispatchWeeded ==
    ASSUME RoomyQueue, TypeOK, HeldOnce, Weeded,
           DispatchRoundRobin \/ DispatchBFS \/ DispatchPriority
    PROVE  Weeded'
<1>1. PICK p \in Programs : /\ Holds(ready_queue, p) /\ Dispatches(p)
                            /\ \A q : Holds(ready_queue', q) => Holds(ready_queue, q)
  BY DispatchSelects
<1>2. can_cpu_execute_process /\ ThreadsOnce /\ sched = "dispatch" /\ running
  BY DEF DispatchRoundRobin, DispatchBFS, DispatchPriority, CanDispatch, HeldOnce
<1>3. p \in Pcbs /\ HasTime(pcb[p]) /\ pcb \in [Pcbs -> PcbType] /\ hw_threads \in Rows
  BY <1>1, TypeFacts DEF Weeded, QueueHasTime, Pcbs
<1>4. PICK c \in Cores, m \in Slots :
              /\ hw_threads'[c][m] = [pcb |-> p, PC |-> pcb[p].pc]
              /\ \A d \in Cores, l \in Slots :
                    ~(d = c /\ l = m) => hw_threads'[d][l] = hw_threads[d][l]
  BY <1>1, <1>2, <1>3, DispatchPlaces
<1>5. \A q \in Pcbs : HasTime(pcb[q]) => HasTime(pcb'[q])
  <2>1. pcb' = [pcb EXCEPT ![p] = Started(p)]
    BY <1>1 DEF Dispatches
  <2>2. /\ \A q \in Pcbs : q # p => pcb'[q] = pcb[q]
        /\ pcb'[p].ttl = pcb[p].ttl /\ pcb'[p].state = "RUNNING"
    BY <1>3, <2>1 DEF Started, PcbType
  <2>. QED
    BY <2>2 DEF HasTime
<1>6. \A d \in Cores, l \in Slots :
         hw_threads'[d][l].pcb # NoPcb => hw_threads'[d][l].pcb \in Pcbs /\ HasTime(pcb[hw_threads'[d][l].pcb])
  <2>1. \A d \in Cores, l \in Slots :
           hw_threads[d][l].pcb # NoPcb => hw_threads[d][l].pcb \in Pcbs /\ HasTime(pcb[hw_threads[d][l].pcb])
    BY <1>2, <1>3 DEF Weeded, ThreadsHaveTime, Visited, Rows, ThreadType
  <2>. QED
    BY <1>3, <1>4, <2>1
<1>. QED
  BY <1>1, <1>5, <1>6 DEF Weeded, QueueHasTime, ThreadsHaveTime, HasTime, Pcbs

\* The clock takes time only from what executes, and not during a pass.
LEMMA TickWeeded == ASSUME TypeOK, HeldOnce, Weeded, Tick PROVE Weeded'
<1>1. \A c \in Cores, k \in Slots : ~Visited(c, k)'
  BY DEF Tick, MutexFree, Visited, schedVars
<1>2. ready_queue' = ready_queue /\ \A p \in Pcbs : ~IsLoaded(p) => pcb'[p] = pcb[p]
  BY TickKeeps
<1>3. \A p \in Programs : Holds(ready_queue, p) => ~IsLoaded(p)
  BY DEF HeldOnce, Apart, On, IsLoaded, Pcbs
<1>4. QueueHasTime'
  BY <1>2, <1>3 DEF Weeded, QueueHasTime, HasTime, Pcbs
<1>. QED
  BY <1>1, <1>4 DEF Weeded, ThreadsHaveTime

\* A pass begins at the last loaded thread of the first core, and goes from the
\* first thread of one core to the last of the next.
LEMMA ControlWeeded ==
    ASSUME RoomyQueue, TypeOK, NoTransfer, HeldOnce, Weeded,
           \/ WakeOnTick \/ WakeOnTimer \/ NextCore \/ StopWaiting \/ EndScan \/ EndTransfer \/ EndPass
           \/ ClockStops \/ TimerChecks \/ TimerCallback
           \/ Interrupt \/ WakeEverybody \/ StopClockAndTimers \/ DestroyScheduler \/ CleanReadyQueue
           \/ Halted \/ UNCHANGED vars
    PROVE  Weeded'
<1>1. UNCHANGED <<hw_threads, pcb>> /\ (running' => running)
  BY DEF WakeOnTick, WakeOnTimer, NextCore, StopWaiting, EndScan, EndTransfer, EndPass,
     ClockStops, TimerChecks, TimerCallback, Interrupt, WakeEverybody, StopClockAndTimers,
     DestroyScheduler, CleanReadyQueue, Halted, vars, machineVars
<1>2. QueueHasTime'
  <2>1. ready_queue' = ready_queue \/ ready_queue' = <<>>
    BY DEF WakeOnTick, WakeOnTimer, NextCore, StopWaiting, EndScan, EndTransfer, EndPass,
       ClockStops, TimerChecks, TimerCallback, Interrupt, WakeEverybody, StopClockAndTimers,
       DestroyScheduler, CleanReadyQueue, Halted, vars, queueVars
  <2>. QED
    BY <1>1, <2>1 DEF Weeded, QueueHasTime, HasTime, Holds
<1>3. \A c \in Cores, k \in Slots : hw_threads[c][k].pcb # NoPcb => k <= current_pcb_count(c)
  BY DEF HeldOnce, ThreadsOnce, PrefixLoaded, Counts
<1>4. ASSUME NEW c \in Cores, NEW k \in Slots, running', Visited(c, k)',
             hw_threads[c][k].pcb # NoPcb
      PROVE  Visited(c, k)
  <2>0. /\ c \in 1 .. NumCores /\ k \in 1 .. NumThreads /\ NumCores \in Nat /\ NumThreads \in Nat
        /\ k <= current_pcb_count(c) /\ current_pcb_count(c) \in Nat
        /\ cursor.core \in 1 .. NumCores /\ cursor.k \in 0 .. NumThreads
    <3>1. Len(pcbs[c]) \in Nat
      BY TypeFacts
    <3>. QED
      BY <1>3, <1>4, <3>1, SizeAssumption DEF TypeOK, Cores, Slots, current_pcb_count
  <2>1. CASE WakeOnTick \/ WakeOnTimer
    <3>1. sched' = "scan" /\ cursor'.core = 1 /\ cursor'.k = current_pcb_count(1)
      BY <2>1 DEF WakeOnTick, WakeOnTimer, StartPass
    <3>2. c = 1 /\ k > current_pcb_count(1)
      BY <1>4, <2>0, <3>1 DEF Visited
    <3>. QED
      BY <2>0, <3>2
  <2>2. CASE NextCore
    <3>1. /\ sched = "scan" /\ sched' = "scan" /\ cursor.k = 0
          /\ cursor'.core = cursor.core + 1 /\ cursor'.k = current_pcb_count(cursor.core + 1)
      BY <2>2 DEF NextCore
    <3>2. c < cursor.core + 1 \/ (c = cursor.core + 1 /\ k > current_pcb_count(c))
      BY <1>4, <3>1 DEF Visited
    <3>. QED
      BY <2>0, <3>1, <3>2 DEF Visited
  <2>3. CASE EndScan
    <3>1. sched = "scan" /\ cursor.core = NumCores /\ cursor.k = 0
      BY <1>1, <1>4, <2>3 DEF EndScan
    <3>. QED
      BY <2>0, <3>1 DEF Visited
  <2>4. CASE StopWaiting \/ EndPass
    BY <1>4, <2>4 DEF StopWaiting, EndPass, Visited
  <2>5. CASE EndTransfer
    BY <2>5 DEF EndTransfer, NoTransfer, RoomyQueue
  <2>6. CASE TimerCallback \/ WakeEverybody
    BY <1>4, <2>6 DEF TimerCallback, WakeEverybody, SchedAfterSignal, Visited
  <2>7. CASE \/ ClockStops \/ TimerChecks \/ Interrupt \/ StopClockAndTimers
             \/ DestroyScheduler \/ CleanReadyQueue \/ Halted \/ UNCHANGED vars
    BY <1>4, <2>7 DEF ClockStops, TimerChecks, Interrupt, StopClockAndTimers, DestroyScheduler,
       CleanReadyQueue, Halted, vars, schedVars, Visited
  <2>. QED
    BY <2>1, <2>2, <2>3, <2>4, <2>5, <2>6, <2>7
<1>5. ThreadsHaveTime'
  BY <1>1, <1>4 DEF Weeded, ThreadsHaveTime, HasTime
<1>. QED
  BY <1>2, <1>5 DEF Weeded

\* Every step keeps the queue, and what the pass has been at, free of them.
LEMMA NextWeeded ==
    ASSUME RoomyQueue, TypeOK, NoTransfer, HeldOnce, Weeded, [Next]_vars
    PROVE  Weeded'
<1>1. CASE ScanStep
  BY <1>1, ScanWeeded DEF ScanStep
<1>2. CASE Tick
  BY <1>2, TickWeeded
<1>3. CASE DispatchRoundRobin \/ DispatchBFS \/ DispatchPriority
  BY <1>3, DispatchWeeded
<1>4. CASE TransferArrival \/ TransferPreempting
  BY <1>4 DEF TransferArrival, TransferPreempting, Transfers, NoTransfer, RoomyQueue
<1>5. CASE ~(ScanStep \/ Tick \/ DispatchRoundRobin \/ DispatchBFS \/ DispatchPriority
             \/ TransferArrival \/ TransferPreempting)
  BY <1>5, ControlWeeded DEF Next, ClockStep, TimerStep, SchedulerStep, MainStep
<1>. QED
  BY <1>1, <1>2, <1>3, <1>4, <1>5

\* However late a pass comes, in both modes, it ends with no process on a thread
\* whose time is spent or that has exited, unless a SIGINT has cut it short.
THEOREM SpentAreTaken == ASSUME RoomyQueue PROVE Spec => SpentLeaves
<1>1. Init => TypeOK /\ NoTransfer /\ HeldOnce /\ Weeded
  BY InitType, InitHeldOnce, InitWeeded DEF Init, NoTransfer
<1>2. TypeOK /\ NoTransfer /\ HeldOnce /\ Weeded /\ [Next]_vars
         => (TypeOK /\ NoTransfer /\ HeldOnce /\ Weeded)'
  BY NextType, NextNoTransfer, NextHeldOnce, NextWeeded
<1>. DEFINE Leaves ==
        sched = "dispatch" /\ sched' = "wait" =>
           \A c \in Cores, k \in Slots :
              LET p == hw_threads[c][k].pcb
              IN  p # NoPcb => pcb[p].ttl > 0 /\ pcb[p].state # "TERMINATED"
<1>3. Weeded /\ [Next]_vars => Leaves
  <2>. SUFFICES ASSUME Weeded, [Next]_vars, sched = "dispatch", sched' = "wait" PROVE running
    BY DEF Weeded, ThreadsHaveTime, Visited, HasTime
  <2>1. EndPass
    BY DEF Next, ClockStep, TimerStep, SchedulerStep, MainStep, ScanStep, CompleteProcess,
       ExpireQuantum, KeepExecuting, Visits, Tick, MutexFree, WakeOnTick, WakeOnTimer, NextCore,
       StopWaiting, EndScan, EndTransfer, TransferArrival, TransferPreempting, Transfers,
       DispatchRoundRobin, DispatchBFS, DispatchPriority, Dispatches, ClockStops, TimerChecks,
       TimerCallback, Interrupt, WakeEverybody, SchedAfterSignal, StopClockAndTimers,
       DestroyScheduler, CleanReadyQueue, Halted, vars, schedVars
  <2>. QED
    BY <2>1 DEF EndPass
<1>. QED
  BY <1>1, <1>2, <1>3, PTL DEF Spec, SpentLeaves

----------------------------------------------------------------------------
(* The deadlines of BFS.                                                   *)

\* The clock does not wrap around: the run is shorter than TickModulus ticks.
NoWrap == MaxTick < TickModulus

\* A negative offset is smaller than the quantum.
LEMMA OffsetBound ==
    \A priority \in MIN_PRIORITY .. MAX_PRIORITY :
        BfsOffset(priority) \in Int /\ BfsOffset(priority) + Quantum > 0
<1>. SUFFICES ASSUME NEW v \in MIN_PRIORITY .. MAX_PRIORITY
              PROVE  BfsOffset(v) \in Int /\ BfsOffset(v) + Quantum > 0
  OBVIOUS
<1>1. v \in Int /\ -20 <= v /\ v <= 19 /\ Quantum \in Nat /\ Quantum > 0
  BY SizeAssumption DEF MIN_PRIORITY, MAX_PRIORITY
<1>2. CASE v >= 0
  <2>1. Quantum * v \in Nat
    BY <1>1, <1>2
  <2>2. (Quantum * v) \div 100 \in Nat
    BY <2>1
  <2>. QED
    BY <1>1, <1>2, <2>2 DEF BfsOffset
<1>3. CASE ~(v >= 0)
  <2>. DEFINE m == Quantum * (-v)
  <2>1. m \in Nat /\ m <= Quantum * 20
    BY <1>1, <1>3
  <2>. HIDE DEF m
  <2>2. m \div 100 \in Nat /\ m \div 100 < Quantum
    BY <1>1, <2>1
  <2>. QED
    BY <1>1, <1>3, <2>2 DEF BfsOffset, m
<1>. QED
  BY <1>2, <1>3

\* The scan of BfsIndex ends at a least deadline, if none is -1.
LEMMA BfsIndexIsLeast ==
    ASSUME ready_queue # <<>>, ready_queue \in Seq(Pcbs),
           \A j \in 1 .. Len(ready_queue) : pcb[ready_queue[j]].virtual_deadline \in Nat
    PROVE  /\ BfsIndex \in 1 .. Len(ready_queue)
           /\ \A j \in 1 .. Len(ready_queue) :
                 pcb[ready_queue[BfsIndex]].virtual_deadline <= pcb[ready_queue[j]].virtual_deadline
<1>. DEFINE n == Len(ready_queue)
            d(j) == pcb[ready_queue[j]].virtual_deadline
            D == [j \in 1 .. n |-> d(j)]
            next(f, i) == IF i = 0 THEN [deadline |-> -1, at |-> 0]
                          ELSE IF f[i - 1].deadline = -1 \/ d(i) < f[i - 1].deadline
                               THEN [deadline |-> d(i), at |-> i]
                               ELSE f[i - 1]
            F(f) == [i \in 0 .. n |-> next(f, i)]
            best == CHOOSE f : f = F(f)
<1>1. n \in Nat /\ n > 0
  OBVIOUS
<1>2. D \in [1 .. n -> Nat] /\ \A j \in 1 .. n : D[j] = d(j)
  OBVIOUS
<1>3. BfsIndex = best[n].at
  BY DEF BfsIndex
<1>. HIDE DEF n, D, d
<1>4. PICK at \in [1 .. n -> 1 .. n] : \A i \in 1 .. n : FirstMin(D, i, at[i])
  <2>. DEFINE a == [i \in 1 .. n |-> CHOOSE m \in 1 .. n : FirstMin(D, i, m)]
  <2>1. \A i \in 1 .. n : \E m \in 1 .. n : FirstMin(D, i, m)
    BY <1>1, <1>2, FirstMinExists
  <2>2. a \in [1 .. n -> 1 .. n] /\ \A i \in 1 .. n : FirstMin(D, i, a[i])
    BY <2>1
  <2>. QED
    BY <2>2
<1>. DEFINE g == [i \in 0 .. n |-> IF i = 0 THEN [deadline |-> -1, at |-> 0]
                                   ELSE [deadline |-> D[at[i]], at |-> at[i]]]
<1>5. g[0] = [deadline |-> -1, at |-> 0] /\ \A i \in 1 .. n : g[i] = [deadline |-> D[at[i]], at |-> at[i]]
  BY <1>1
<1>6. \A i \in 0 .. n : i = 0 \/ i \in 1 .. n
  BY <1>1
<1>7. g = F(g)
  <2>1. ASSUME NEW i \in 0 .. n
        PROVE  next(g, i) = g[i]
    <3>1. CASE i = 0
      BY <1>5, <3>1
    <3>2. CASE i = 1
      <4>1. at[1] = 1 /\ 1 \in 1 .. n
        <5>1. 1 \in 1 .. n /\ at[1] \in 1 .. n /\ FirstMin(D, 1, at[1])
          BY <1>1, <1>4
        <5>. QED
          BY <5>1 DEF FirstMin
      <4>. HIDE DEF g
      <4>. QED
        BY <1>2, <1>5, <3>2, <4>1
    <3>3. CASE i # 0 /\ i # 1
      <4>1. i \in 1 .. n /\ i - 1 \in 1 .. n
        BY <1>1, <3>3
      <4>2. at[i] = IF D[i] < D[at[i - 1]] THEN i ELSE at[i - 1]
        <5>. DEFINE m == at[i]
                    o == at[i - 1]
        <5>1. m \in 1 .. n /\ FirstMin(D, i, m) /\ o \in 1 .. n /\ FirstMin(D, i - 1, o)
          BY <1>4, <4>1
        <5>. HIDE DEF m, o
        <5>2. m = IF D[i] < D[o] THEN i ELSE o
          BY <1>1, <1>2, <3>3, <4>1, <5>1, FirstMinMoves
        <5>. QED
          BY <5>2 DEF m, o
      <4>3. D[at[i - 1]] \in Nat /\ D[i] = d(i)
        BY <1>2, <1>4, <4>1
      <4>. HIDE DEF g
      <4>4. g[i - 1] = [deadline |-> D[at[i - 1]], at |-> at[i - 1]]
            /\ g[i] = [deadline |-> D[at[i]], at |-> at[i]]
        BY <1>5, <4>1
      <4>5. next(g, i) = IF D[i] < D[at[i - 1]] THEN [deadline |-> D[i], at |-> i] ELSE g[i - 1]
        BY <3>3, <4>3, <4>4
      <4>. QED
        BY <4>2, <4>4, <4>5
    <3>. QED
      BY <3>1, <3>2, <3>3
  <2>. QED
    BY <2>1, ZenonT(40)
<1>. HIDE DEF g
<1>8. best = F(best)
  BY <1>7
<1>. HIDE DEF best
<1>. DEFINE T == {i \in 0 .. n : best[i] # g[i]}
<1>9. T = {}
  <2>. SUFFICES ASSUME T # {}
                PROVE  FALSE
    OBVIOUS
  <2>1. T \in SUBSET Nat
    BY <1>1
  <2>2. PICK i \in T : \A j \in T : i <= j
    BY <2>1, LeastNat
  <2>3. i # 0 => i - 1 \notin T /\ i - 1 \in 0 .. n
    BY <1>1, <2>2
  <2>4. i # 0 => best[i - 1] = g[i - 1]
    BY <2>3
  <2>5. best[i] = next(best, i) /\ g[i] = next(g, i)
    BY <1>7, <1>8, <2>2
  <2>. QED
    BY <2>2, <2>4, <2>5
<1>10. n \in 1 .. n /\ n \in 0 .. n
  BY <1>1
<1>11. best[n] = g[n]
  BY <1>9, <1>10
<1>12. best[n].at = at[n] /\ FirstMin(D, n, at[n])
  <2>1. g[n] = [deadline |-> D[at[n]], at |-> at[n]] /\ FirstMin(D, n, at[n])
    BY <1>4, <1>5, <1>10
  <2>. QED
    BY <1>11, <2>1
<1>. QED
  BY <1>2, <1>3, <1>10, <1>12 DEF n, d, FirstMin

\* A process that has executed n instructions has seen n ticks, and under BFS
\* one that waits has a deadline exactly when it has executed.
Timely ==
    /\ \A c \in Cores, k \in Slots :
          hw_threads[c][k].pcb # NoPcb => hw_threads[c][k].PC <= clk_counter
    /\ \A p \in Programs :
          Holds(ready_queue, p) =>
              /\ pcb[p].pc <= clk_counter
              /\ Policy = "BFS" =>
                    IF pcb[p].pc = 0 THEN pcb[p].virtual_deadline = 0 ELSE pcb[p].virtual_deadline > 0

\* At first nothing is loaded and nothing has a deadline.
LEMMA InitTimely == Init => Timely
<1>. SUFFICES ASSUME Init PROVE Timely
  OBVIOUS
<1>1. PICK priority \in [Programs -> Levels] :
         pcb = [p \in Pcbs |-> IF p \in Programs THEN Loaded(p, priority[p]) ELSE NewPcb(p)]
  BY DEF Init
<1>2. \A p \in Programs : pcb[p].pc = 0 /\ pcb[p].virtual_deadline = 0
  <2>. TAKE p \in Programs
  <2>1. pcb[p] = Loaded(p, priority[p])
    BY <1>1 DEF Pcbs
  <2>. QED
    BY <2>1 DEF Loaded, NewPcb
<1>3. 0 <= clk_counter
  BY SizeAssumption DEF Init
<1>4. \A c \in Cores, k \in Slots : hw_threads[c][k].pcb = NoPcb
  BY DEF Init, Idle
<1>. QED
  BY <1>2, <1>3, <1>4 DEF Timely

\* A step that lets no time pass and moves no process keeps it.
LEMMA StillTimely ==
    ASSUME Timely, UNCHANGED <<clk_counter, pcb, hw_threads>>,
           \A q : Holds(ready_queue', q) => Holds(ready_queue, q)
    PROVE  Timely'
BY DEF Timely

\* The threads that are left by a removal ran before.
LEMMA RemoveTimely ==
    ASSUME TypeOK, ThreadsOnce, Timely, clk_counter' = clk_counter,
           NEW c \in Cores, NEW k \in 1 .. Len(pcbs[c]), RemoveFromCore(c, k)
    PROVE  \A d \in Cores, l \in Slots :
              hw_threads'[d][l].pcb # NoPcb => hw_threads'[d][l].PC <= clk_counter'
<1>. SUFFICES ASSUME NEW d \in Cores, NEW l \in Slots, hw_threads'[d][l].pcb # NoPcb
              PROVE  hw_threads'[d][l].PC <= clk_counter
  OBVIOUS
<1>1. \A e \in Cores, i \in Slots :
         hw_threads'[e][i].pcb # NoPcb =>
            Source(c, k, e, i) \in Slots /\ hw_threads'[e][i] = hw_threads[e][Source(c, k, e, i)]
  BY RemoveMoves
<1>2. PICK j \in Slots : hw_threads'[d][l] = hw_threads[d][j]
  BY <1>1
<1>. QED
  BY <1>2 DEF Timely

\* Completion and the visit that lets a process go on leave the queue alone.
LEMMA CompleteTimely ==
    ASSUME TypeOK, HeldOnce, Timely, NEW c \in Cores, NEW k \in Slots, NEW p \in Pcbs,
           CompleteProcess(c, k, p) \/ KeepExecuting(c, k, p)
    PROVE  Timely'
<1>1. k \in 1 .. Len(pcbs[c]) /\ p = hw_threads[c][k].pcb
      /\ UNCHANGED <<clk_counter, ready_queue>> /\ ThreadsOnce
  BY DEF CompleteProcess, KeepExecuting, Visits, current_pcb_count, queueVars, HeldOnce
<1>2. \A q \in Pcbs : pcb'[q].pc = pcb[q].pc /\ pcb'[q].virtual_deadline = pcb[q].virtual_deadline
  <2>1. pcb \in [Pcbs -> PcbType] /\ pcb[p] \in PcbType
    BY TypeFacts
  <2>. QED
    BY <2>1 DEF CompleteProcess, KeepExecuting, PcbType
<1>3. CASE CompleteProcess(c, k, p)
  <2>1. \A d \in Cores, l \in Slots :
           hw_threads'[d][l].pcb # NoPcb => hw_threads'[d][l].PC <= clk_counter'
    BY <1>1, <1>3, RemoveTimely DEF CompleteProcess
  <2>. QED
    BY <1>1, <1>2, <2>1 DEF Timely, Pcbs
<1>4. CASE KeepExecuting(c, k, p)
  BY <1>1, <1>2, <1>4 DEF KeepExecuting, machineVars, Timely, Pcbs
<1>. QED
  BY <1>3, <1>4

\* A process whose quantum expires has executed a quantum, which is more than
\* its offset can take off the time.
LEMMA ExpireTimely ==
    ASSUME RoomyQueue, SyncMode = "CLOCK", TypeOK, HeldOnce, Served, Timely,
           NEW c \in Cores, NEW k \in Slots, NEW p \in Pcbs, ExpireQuantum(c, k, p)
    PROVE  Timely'
<1>1. /\ k \in 1 .. Len(pcbs[c]) /\ p = hw_threads[c][k].pcb
      /\ pcb[p].state # "TERMINATED" /\ pcb[p].quantum_counter + 1 >= Quantum
      /\ RemoveFromCore(c, k) /\ EnqueueToScheduler(p, pcb[p].priority)
      /\ clk_counter' = clk_counter /\ ThreadsOnce
      /\ pcb' = [pcb EXCEPT ![p] = SavedPcb(p, hw_threads[c][k].PC)]
      /\ sched = "scan" /\ c = cursor.core /\ k = cursor.k
  BY DEF ExpireQuantum, Visits, current_pcb_count, HeldOnce, HasCompleted, QuantumExpired
<1>2. p \in Programs /\ p # NoPcb
  BY <1>1, PcbAssumption DEF On, HeldOnce, Apart
<1>3. HeldOnce'
  BY ExpireHeldOnce
<1>4. \A q \in Programs : Holds(ready_queue', q) => Holds(ready_queue, q) \/ q = p
  BY <1>1, <1>2, <1>3, ExpireAdds
<1>. DEFINE PC == hw_threads[c][k].PC
<1>5. /\ \A q \in Pcbs : q # p => pcb'[q] = pcb[q]
      /\ pcb'[p].pc = PC
      /\ Policy = "BFS" => pcb'[p].virtual_deadline = Deadline(p)
  <2>. DEFINE s == SavedPcb(p, hw_threads[c][k].PC)
  <2>1. pcb \in [Pcbs -> PcbType] /\ pcb' = [pcb EXCEPT ![p] = s]
    BY <1>1, TypeFacts
  <2>2. /\ s.pc = PC
        /\ Policy = "BFS" => s.virtual_deadline = Deadline(p)
    <3>1. pcb[p] \in PcbType
      BY <2>1
    <3>. HIDE DEF PC
    <3>. QED
      BY <3>1 DEF PcbType, SavedPcb, PC
  <2>. HIDE DEF s, PC
  <2>. QED
    BY <2>1, <2>2
<1>6. /\ pcb[p].pc \in Nat /\ pcb[p].quantum_counter \in Nat /\ PC \in Nat /\ clk_counter \in Nat
      /\ pcb[p].priority \in MIN_PRIORITY .. MAX_PRIORITY /\ Quantum \in Nat \ {0}
  <2>1. pcb[p] \in PcbType /\ hw_threads[c][k] \in ThreadType
    BY TypeFacts DEF Rows
  <2>. QED
    BY <2>1, SizeAssumption DEF PcbType, ThreadType, TypeOK
<1>7. PC >= Quantum
  <2>1. Due(c, k)
    <3>1. sched = "scan" /\ c = cursor.core /\ k = cursor.k
      BY <1>1
    <3>2. k <= k
      BY SizeAssumption DEF Slots
    <3>. QED
      BY <3>1, <3>2 DEF Due
  <2>2. PC >= pcb[p].pc + pcb[p].quantum_counter + 1
    BY <1>1, <1>2, <2>1 DEF Served, QuantaServed, ServedOn
  <2>3. pcb[p].quantum_counter + 1 >= Quantum
    BY <1>1
  <2>. HIDE DEF PC
  <2>. QED
    BY <1>6, <2>2, <2>3
<1>8. PC <= clk_counter
  BY <1>1, <1>2 DEF Timely
<1>9. Deadline(p) > 0
  <2>1. BfsOffset(pcb[p].priority) \in Int /\ BfsOffset(pcb[p].priority) + Quantum > 0
    BY <1>6, OffsetBound
  <2>. HIDE DEF PC
  <2>. QED
    BY <1>6, <1>7, <1>8, <2>1 DEF Deadline
<1>10. \A d \in Cores, l \in Slots :
          hw_threads'[d][l].pcb # NoPcb => hw_threads'[d][l].PC <= clk_counter'
  BY <1>1, RemoveTimely
<1>11. PC # 0
  <2>. HIDE DEF PC
  <2>. QED
    BY <1>6, <1>7
<1>12. ASSUME NEW q \in Programs, Holds(ready_queue', q)
       PROVE  /\ pcb'[q].pc <= clk_counter'
              /\ Policy = "BFS" =>
                   IF pcb'[q].pc = 0 THEN pcb'[q].virtual_deadline = 0
                                     ELSE pcb'[q].virtual_deadline > 0
  <2>1. CASE q = p
    BY <2>1, <1>1, <1>5, <1>8, <1>9, <1>11
  <2>2. CASE q # p
    <3>1. Holds(ready_queue, q) /\ pcb'[q] = pcb[q]
      BY <1>4, <1>5, <1>12, <2>2 DEF Pcbs
    <3>. QED
      BY <1>1, <3>1 DEF Timely
  <2>. QED
    BY <2>1, <2>2
<1>. QED
  BY <1>10, <1>12 DEF Timely

\* A dispatch takes up the saved context, and changes only what it takes.
LEMMA DispatchTimely ==
    ASSUME RoomyQueue, TypeOK, HeldOnce, HeldOnce', Timely,
           DispatchRoundRobin \/ DispatchBFS \/ DispatchPriority
    PROVE  Timely'
<1>1. PICK p \in Programs : /\ Holds(ready_queue, p) /\ Dispatches(p)
                            /\ \A q : Holds(ready_queue', q) => Holds(ready_queue, q)
  BY DispatchSelects
<1>2. can_cpu_execute_process /\ ThreadsOnce /\ p \in Pcbs /\ p # NoPcb
  BY PcbAssumption DEF DispatchRoundRobin, DispatchBFS, DispatchPriority, CanDispatch, HeldOnce, Pcbs
<1>3. PICK c \in Cores, m \in Slots :
              /\ hw_threads'[c][m] = [pcb |-> p, PC |-> pcb[p].pc]
              /\ \A d \in Cores, l \in Slots :
                    ~(d = c /\ l = m) => hw_threads'[d][l] = hw_threads[d][l]
  BY <1>1, <1>2, DispatchPlaces
<1>4. pcb' = [pcb EXCEPT ![p] = Started(p)] /\ clk_counter' = clk_counter
  BY <1>1 DEF Dispatches
<1>5. \A q \in Pcbs : q # p => pcb'[q] = pcb[q]
  BY <1>2, <1>4, TypeFacts
<1>6. \A d \in Cores, l \in Slots :
         hw_threads'[d][l].pcb # NoPcb => hw_threads'[d][l].PC <= clk_counter'
  <2>. SUFFICES ASSUME NEW d \in Cores, NEW l \in Slots, hw_threads'[d][l].pcb # NoPcb
                PROVE  hw_threads'[d][l].PC <= clk_counter
    BY <1>4
  <2>1. CASE d = c /\ l = m
    BY <2>1, <1>1, <1>3 DEF Timely
  <2>2. CASE ~(d = c /\ l = m)
    BY <2>2, <1>3 DEF Timely
  <2>. QED
    BY <2>1, <2>2
<1>7. ~Holds(ready_queue', p)
  <2>1. On(hw_threads', p)
    BY <1>3 DEF On
  <2>. QED
    BY <1>2, <2>1 DEF HeldOnce, Apart
<1>8. \A q \in Programs : Holds(ready_queue', q) => Holds(ready_queue, q) /\ pcb'[q] = pcb[q]
  BY <1>1, <1>5, <1>7 DEF Pcbs
<1>. QED
  BY <1>4, <1>6, <1>8 DEF Timely

\* A tick adds one to the time, and at most one to a program counter.
LEMMA TickTimely ==
    ASSUME NoWrap, TypeOK, HeldOnce, Worked, Timely, Tick
    PROVE  Timely'
<1>1. clk_counter' = clk_counter + 1 /\ clk_counter \in Nat
  <2>1. clk_counter + 1 \in 0 .. TickModulus - 1 /\ TickModulus \in Nat \ {0} /\ clk_counter \in Nat
    BY SizeAssumption DEF NoWrap, TypeOK, Tick
  <2>2. (clk_counter + 1) % TickModulus = clk_counter + 1
    BY <2>1
  <2>. QED
    BY <2>1, <2>2 DEF Tick
<1>2. /\ ready_queue' = ready_queue
      /\ \A c \in Cores, k \in Slots : hw_threads'[c][k].pcb = hw_threads[c][k].pcb
      /\ \A p \in Pcbs : ~IsLoaded(p) => pcb'[p] = pcb[p]
  BY TickKeeps
<1>3. ASSUME NEW c \in Cores, NEW k \in Slots, hw_threads'[c][k].pcb # NoPcb
      PROVE  hw_threads'[c][k].PC <= clk_counter'
  <2>. DEFINE p == hw_threads[c][k].pcb
              PC == hw_threads[c][k].PC
  <2>1. hw_threads[c][k] \in ThreadType
    BY TypeFacts DEF Rows
  <2>2. p \in Programs
    BY <1>2, <1>3, <2>1 DEF ThreadType, On, HeldOnce, Apart
  <2>3. hw_threads'[c][k] =
           [pcb |-> p, PC |-> IF pcb[p].state = "TERMINATED" \/ PC = program[p].halt_at
                              THEN PC ELSE PC + 1]
    BY <2>2, TickExecutes, SMTT(60)
  <2>4. PC \in Nat /\ PC <= clk_counter
    BY <1>2, <1>3, <2>1 DEF ThreadType, Timely
  <2>5. hw_threads'[c][k].PC \in {PC, PC + 1}
    BY <2>3
  <2>. HIDE DEF PC
  <2>. QED
    BY <1>1, <2>4, <2>5
<1>4. ASSUME NEW p \in Programs, Holds(ready_queue', p)
      PROVE  /\ pcb'[p].pc <= clk_counter'
             /\ Policy = "BFS" =>
                   IF pcb'[p].pc = 0 THEN pcb'[p].virtual_deadline = 0
                                     ELSE pcb'[p].virtual_deadline > 0
  <2>1. Holds(ready_queue, p) /\ p \in Pcbs
    BY <1>2, <1>4 DEF Pcbs
  <2>2. pcb'[p] = pcb[p]
    BY <1>2, <2>1 DEF HeldOnce, Apart, On, IsLoaded
  <2>3. pcb[p].pc \in Nat
    BY <2>1, TypeFacts DEF PcbType
  <2>4. pcb[p].pc <= clk_counter + 1
    BY <1>1, <2>1, <2>3 DEF Timely
  <2>. QED
    BY <1>1, <2>1, <2>2, <2>4 DEF Timely
<1>. QED
  BY <1>3, <1>4 DEF Timely

\* Every step keeps it.
LEMMA NextTimely ==
    ASSUME RoomyQueue, SyncMode = "CLOCK", NoWrap,
           TypeOK, NoTransfer, HeldOnce, HeldOnce', Worked, Served, Timely, [Next]_vars
    PROVE  Timely'
<1>1. CASE ScanStep
  BY <1>1, CompleteTimely, ExpireTimely DEF ScanStep
<1>2. CASE Tick
  BY <1>2, TickTimely
<1>3. CASE DispatchRoundRobin \/ DispatchBFS \/ DispatchPriority
  BY <1>3, DispatchTimely
<1>4. CASE TransferArrival \/ TransferPreempting
  BY <1>4 DEF TransferArrival, TransferPreempting, Transfers, NoTransfer, RoomyQueue
<1>5. CASE CleanReadyQueue
  <2>1. ready_queue' = <<>> /\ UNCHANGED <<clk_counter, pcb, hw_threads>>
    BY <1>5 DEF CleanReadyQueue, machineVars
  <2>. QED
    BY <2>1, StillTimely DEF Holds
<1>6. CASE ~(ScanStep \/ Tick \/ DispatchRoundRobin \/ DispatchBFS \/ DispatchPriority
             \/ TransferArrival \/ TransferPreempting \/ CleanReadyQueue)
  <2>1. UNCHANGED <<clk_counter, pcb, hw_threads, ready_queue>>
    BY <1>6 DEF Next, ClockStep, TimerStep, SchedulerStep, MainStep,
       WakeOnTick, WakeOnTimer, NextCore, StopWaiting, EndScan, EndTransfer, EndPass,
       ClockStops, TimerChecks, TimerCallback, Interrupt, WakeEverybody, StopClockAndTimers,
       DestroyScheduler, Halted, vars, machineVars, queueVars
  <2>. QED
    BY <2>1, StillTimely
<1>. QED
  BY <1>1, <1>2, <1>3, <1>4, <1>5, <1>6

\* What all of this holds together.
TimelyInv == TypeOK /\ NoTransfer /\ HeldOnce /\ Worked /\ Served /\ Timely

\* So it holds in every run.
LEMMA TimelyAlways ==
    ASSUME RoomyQueue, SyncMode = "CLOCK", NoWrap PROVE Spec => []TimelyInv
<1>1. Init => TimelyInv
  BY InitType, InitHeldOnce, InitWorked, InitServed, InitTimely DEF Init, NoTransfer, TimelyInv
<1>2. TimelyInv /\ [Next]_vars => TimelyInv'
  <2>. SUFFICES ASSUME TimelyInv, [Next]_vars
                PROVE  TimelyInv'
    OBVIOUS
  <2>1. TypeOK /\ NoTransfer /\ HeldOnce /\ Worked /\ Served /\ Timely
    BY DEF TimelyInv
  <2>2. TypeOK' /\ NoTransfer' /\ HeldOnce' /\ Worked' /\ Served'
    BY <2>1, NextType, NextNoTransfer, NextHeldOnce, NextWorked, NextServed
  <2>. QED
    BY <2>1, <2>2, NextTimely DEF TimelyInv
<1>. QED
  BY <1>1, <1>2, PTL DEF Spec

\* With the scheduler activated by the clock, and for as long as the counter of
\* ticks does not wrap, no deadline in the queue is the -1 that the scan takes
\* for "none so far", nor the 0 of a process that is new when it is not.
THEOREM NoSentinelQueued ==
    ASSUME RoomyQueue, SyncMode = "CLOCK", NoWrap PROVE Spec => []DeadlinesUnambiguous
<1>1. TimelyInv => DeadlinesUnambiguous
  <2>. SUFFICES ASSUME HeldOnce, Timely, Policy = "BFS", NEW i \in DOMAIN ready_queue
                PROVE  LET p == pcb[ready_queue[i]]
                       IN  IF p.pc = 0 THEN p.virtual_deadline = 0 ELSE p.virtual_deadline > 0
    BY DEF TimelyInv, DeadlinesUnambiguous
  <2>1. i \in 1 .. Len(ready_queue) /\ ready_queue[i] \in Programs
    BY LenProperties DEF HeldOnce, QueueOnce
  <2>2. Holds(ready_queue, ready_queue[i])
    BY <2>1 DEF Holds
  <2>. QED
    BY <2>1, <2>2 DEF Timely
<1>. QED
  BY <1>1, TimelyAlways, PTL

\* Only a dispatch puts a process on a thread.
LEMMA OnlyDispatchLoads ==
    ASSUME RoomyQueue, TypeOK, NoTransfer, HeldOnce, Worked, [Next]_vars,
           NEW p \in Programs, ~IsLoaded(p), IsLoaded(p)'
    PROVE  (DispatchRoundRobin \/ DispatchBFS \/ DispatchPriority)
<1>1. \A d \in Cores, l \in Slots : hw_threads[d][l].pcb # p
  BY DEF IsLoaded
<1>2. p # NoPcb /\ p \in Pcbs
  BY PcbAssumption DEF Pcbs
<1>3. ~ScanStep
  <2>. SUFFICES ASSUME NEW c \in Cores, NEW k \in Slots, NEW q \in Pcbs,
                       CompleteProcess(c, k, q) \/ ExpireQuantum(c, k, q) \/ KeepExecuting(c, k, q)
                PROVE  FALSE
    BY DEF ScanStep
  <2>1. ~KeepExecuting(c, k, q)
    BY <1>1 DEF KeepExecuting, machineVars, IsLoaded
  <2>2. k \in 1 .. Len(pcbs[c]) /\ RemoveFromCore(c, k) /\ q = hw_threads[c][k].pcb
    BY <2>1 DEF CompleteProcess, ExpireQuantum, Visits, current_pcb_count
  <2>3. On(hw_threads', p) => On(hw_threads, p)
    BY <1>2, <2>2, UnloadThreads DEF HeldOnce
  <2>. QED
    BY <1>1, <2>3 DEF On, IsLoaded
<1>4. ~Tick
  BY <1>1, TickKeeps DEF IsLoaded
<1>5. ~(TransferArrival \/ TransferPreempting)
  BY DEF TransferArrival, TransferPreempting, Transfers, NoTransfer, RoomyQueue
<1>6. hw_threads' # hw_threads
  BY DEF IsLoaded
<1>. QED
  BY <1>3, <1>4, <1>5, <1>6 DEF Next, ClockStep, TimerStep, SchedulerStep, MainStep,
       WakeOnTick, WakeOnTimer, NextCore, StopWaiting, EndScan, EndTransfer, EndPass,
       ClockStops, TimerChecks, TimerCallback, Interrupt, WakeEverybody, StopClockAndTimers,
       DestroyScheduler, CleanReadyQueue, Halted, vars, machineVars

\* It puts one there.
LEMMA DispatchLoadsOne ==
    ASSUME TypeOK, HeldOnce, can_cpu_execute_process, NEW p \in Programs, ~IsLoaded(p), IsLoaded(p)',
           NEW q \in Programs, Dispatches(q)
    PROVE  p = q
<1>1. p # NoPcb /\ q \in Pcbs
  BY PcbAssumption DEF Pcbs
<1>2. PICK c \in Cores, m \in Slots :
              /\ hw_threads'[c][m] = [pcb |-> q, PC |-> pcb[q].pc]
              /\ \A d \in Cores, l \in Slots :
                    ~(d = c /\ l = m) => hw_threads'[d][l] = hw_threads[d][l]
  BY <1>1, DispatchPlaces DEF HeldOnce
<1>. QED
  BY <1>2 DEF IsLoaded

\* Under the same conditions BFS never passes over a process with an earlier
\* deadline, although its scan starts from a value that is also a deadline.
THEOREM DeadlinesFirst ==
    ASSUME RoomyQueue, SyncMode = "CLOCK", NoWrap PROVE Spec => EarliestDeadlineFirst
<1>. DEFINE Earliest ==
        \A p, q \in Programs :
            (Policy = "BFS" /\ ~IsLoaded(p) /\ IsLoaded(p)' /\ ~IsLoaded(q) /\ q \notin destroyed /\ ~IsLoaded(q)')
                => pcb[p].virtual_deadline <= pcb[q].virtual_deadline
<1>1. TimelyInv /\ [Next]_vars => Earliest
  <2>. SUFFICES ASSUME TypeOK, NoTransfer, HeldOnce, Worked, Timely, [Next]_vars,
                       NEW p \in Programs, NEW q \in Programs,
                       Policy = "BFS", ~IsLoaded(p), IsLoaded(p)', ~IsLoaded(q), q \notin destroyed
                PROVE  pcb[p].virtual_deadline <= pcb[q].virtual_deadline
    BY DEF TimelyInv
  <2>1. DispatchBFS
    BY OnlyDispatchLoads DEF DispatchRoundRobin, DispatchPriority
  <2>2. /\ can_cpu_execute_process /\ ready_queue # <<>>
        /\ BfsIndex \in 1 .. Len(ready_queue) /\ Dispatches(ready_queue[BfsIndex])
    BY <2>1 DEF DispatchBFS, CanDispatch, has_ready_processes
  <2>3. ready_queue \in Seq(Programs) /\ ready_queue \in Seq(Pcbs)
    BY TypeFacts DEF HeldOnce, QueueOnce
  <2>4. \A j \in 1 .. Len(ready_queue) : ready_queue[j] \in Programs /\ Holds(ready_queue, ready_queue[j])
    BY <2>3 DEF Holds
  <2>5. p = ready_queue[BfsIndex]
    BY <2>2, <2>4, DispatchLoadsOne
  <2>6. \A j \in 1 .. Len(ready_queue) : pcb[ready_queue[j]].virtual_deadline \in Nat
    <3>. TAKE j \in 1 .. Len(ready_queue)
    <3>1. pcb[ready_queue[j]].virtual_deadline \in Int
      BY <2>4, TypeFacts DEF PcbType, Pcbs
    <3>2. pcb[ready_queue[j]].virtual_deadline = 0 \/ pcb[ready_queue[j]].virtual_deadline > 0
      BY <2>4 DEF Timely
    <3>. QED
      BY <3>1, <3>2
  <2>7. PICK j \in 1 .. Len(ready_queue) : ready_queue[j] = q
    BY DEF HeldOnce, Covered, Holds, On, IsLoaded
  <2>. QED
    BY <2>2, <2>3, <2>5, <2>6, <2>7, BfsIndexIsLeast
<1>. QED
  BY <1>1, TimelyAlways, PTL DEF Spec, EarliestDeadlineFirst
=============================================================================
