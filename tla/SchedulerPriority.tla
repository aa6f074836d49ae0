------------------------ MODULE SchedulerPriority ------------------------
(***************************************************************************)
(* Theorems about Scheduler under PRIO, whose preemptions leave a core with*)
(* fewer copies than loaded threads: what holds of the queues, the threads *)
(* and the freed PCBs nevertheless, which process executes, and that no    *)
(* arrival waits beside an idle thread.                                    *)
(***************************************************************************)
EXTENDS SchedulerSafety

----------------------------------------------------------------------------
(* Priorities.  Each level queue holds processes of its priority, each     *)
(* once; a preemption leaves one hardware thread more than it counts, until*)
(* the dispatch of the same pass puts another process there.               *)

HeldAtLevel(queues, p) == \E v \in Levels : Holds(queues[v], p)

\* The level queues hold processes by their priority on the heap, each once.
Sorted(queues, heap) ==
    \A v \in Levels :
        /\ Distinct(queues[v])
        /\ \A p \in Pcbs : Holds(queues[v], p) => heap[p].priority = v

\* Level v gains the process p at its rear, or is full and stays.
Gains(after, queues, v, p) ==
    /\ after \in [Levels -> Seq(Pcbs)]
    /\ \A w \in Levels : w # v => after[w] = queues[w]
    /\ v \in Levels => after[v] \in {queues[v], Append(queues[v], p)}

\* enqueue_to_scheduler and the transfer of an arrival are such gains.
LEMMA EnqueueGains ==
    ASSUME NEW queues \in [Levels -> Seq(Pcbs)], NEW v, NEW p \in Pcbs
    PROVE  /\ Gains([queues EXCEPT ![v] = Enqueued(@, p, LevelCapacity)], queues, v, p)
           /\ Gains([queues EXCEPT ![v] = Append(@, p)], queues, v, p)
           /\ Gains(queues, queues, v, p)
<1>. DEFINE enq == [queues EXCEPT ![v] = Enqueued(queues[v], p, LevelCapacity)]
            app == [queues EXCEPT ![v] = Append(queues[v], p)]
<1>1. \A w \in Levels : /\ Append(queues[w], p) \in Seq(Pcbs)
                        /\ Enqueued(queues[w], p, LevelCapacity) \in {queues[w], Append(queues[w], p)}
  BY AppendProperties DEF Enqueued
<1>2. enq \in [Levels -> Seq(Pcbs)] /\ app \in [Levels -> Seq(Pcbs)]
  BY <1>1
<1>3. \A w \in Levels : /\ enq[w] = IF w = v THEN Enqueued(queues[v], p, LevelCapacity) ELSE queues[w]
                        /\ app[w] = IF w = v THEN Append(queues[v], p) ELSE queues[w]
  OBVIOUS
<1>. HIDE DEF enq, app
<1>4. Gains(enq, queues, v, p)
  BY <1>1, <1>2, <1>3 DEF Gains
<1>5. Gains(app, queues, v, p)
  BY <1>1, <1>2, <1>3 DEF Gains
<1>6. Gains(queues, queues, v, p)
  BY DEF Gains
<1>. QED
  BY <1>4, <1>5, <1>6 DEF enq, app

\* A gain adds to the levels one process at most, at the level of its priority.
LEMMA GainsSorted ==
    ASSUME NEW queues \in [Levels -> Seq(Pcbs)], NEW heap, Sorted(queues, heap),
           NEW p \in Pcbs, ~HeldAtLevel(queues, p), NEW v, v = heap[p].priority,
           NEW after, Gains(after, queues, v, p)
    PROVE  /\ Sorted(after, heap)
           /\ \A q \in Pcbs : HeldAtLevel(after, q) => HeldAtLevel(queues, q) \/ q = p
           /\ \A w \in Levels : queues[w] # <<>> => after[w] # <<>>
<1>1. ASSUME NEW w \in Levels
      PROVE  /\ Distinct(after[w])
             /\ \A q \in Pcbs : Holds(after[w], q) => Holds(queues[w], q) \/ (q = p /\ w = v)
             /\ queues[w] # <<>> => after[w] # <<>>
  <2>1. CASE after[w] = queues[w]
    BY <2>1 DEF Sorted
  <2>2. CASE after[w] # queues[w]
    <3>1. w = v /\ after[w] = Append(queues[w], p)
      BY <2>2 DEF Gains
    <3>2. queues[w] \in Seq(Pcbs) /\ Distinct(queues[w]) /\ ~Holds(queues[w], p)
      BY DEF Sorted, HeldAtLevel
    <3>3. /\ Distinct(after[w])
          /\ \A q \in Pcbs : Holds(after[w], q) <=> Holds(queues[w], q) \/ q = p
      BY <3>1, <3>2, AppendHolds
    <3>4. after[w] # <<>>
      BY <3>1, <3>2, AppendProperties
    <3>. QED
      BY <3>1, <3>3, <3>4
  <2>. QED
    BY <2>1, <2>2
<1>2. Sorted(after, heap)
  BY <1>1 DEF Sorted
<1>3. \A q \in Pcbs : HeldAtLevel(after, q) => HeldAtLevel(queues, q) \/ q = p
  BY <1>1 DEF HeldAtLevel
<1>. QED
  BY <1>1, <1>2, <1>3

\* The front of a queue leaves it.
LEMMA TailHolds ==
    ASSUME NEW S, NEW q \in Seq(S), q # <<>>, Distinct(q)
    PROVE  /\ Head(q) \in S /\ Holds(q, Head(q)) /\ Tail(q) \in Seq(S) /\ Distinct(Tail(q))
           /\ Len(Tail(q)) = Len(q) - 1
           /\ \A p \in S : Holds(Tail(q), p) <=> Holds(q, p) /\ p # Head(q)
<1>1. /\ Tail(q) \in Seq(S) /\ Head(q) = q[1] /\ Head(q) \in S
      /\ Len(Tail(q)) = Len(q) - 1 /\ 1 \in 1 .. Len(q)
      /\ \A j \in 1 .. Len(q) - 1 : Tail(q)[j] = q[j + 1]
  BY HeadTailProperties
<1>2. Closes(Tail(q), q, 1)
  BY <1>1 DEF Closes
<1>3. Distinct(Tail(q)) /\ \A p \in S : Holds(Tail(q), p) <=> Holds(q, p) /\ p # q[1]
  BY <1>1, <1>2, ClosesHolds
<1>. QED
  BY <1>1, <1>3 DEF Holds

\* An arrival leaves the ready queue for its level, or returns to its rear.
LEMMA ArrivesSorted ==
    ASSUME ready_queue \in Seq(Pcbs), ready_queue # <<>>, Distinct(ready_queue),
           NEW queues \in [Levels -> Seq(Pcbs)], NEW heap, Sorted(queues, heap),
           NEW p \in Pcbs, p = Head(ready_queue), heap[p].priority = pcb[p].priority,
           \A q \in Pcbs : Holds(ready_queue, q) => ~HeldAtLevel(queues, q),
           Arrives(p, queues)
    PROVE  /\ Distinct(ready_queue') /\ Sorted(priority_queues', heap)
           /\ Gains(priority_queues', queues, pcb[p].priority, p)
           /\ \A q \in Pcbs : /\ Holds(ready_queue', q) => Holds(ready_queue, q)
                              /\ HeldAtLevel(priority_queues', q) => HeldAtLevel(queues, q) \/ q = p
                              /\ Holds(ready_queue', q) => ~HeldAtLevel(priority_queues', q)
           /\ \A w \in Levels : queues[w] # <<>> => priority_queues'[w] # <<>>
<1>1. /\ Holds(ready_queue, p) /\ Tail(ready_queue) \in Seq(Pcbs) /\ Distinct(Tail(ready_queue))
      /\ \A q \in Pcbs : Holds(Tail(ready_queue), q) <=> Holds(ready_queue, q) /\ q # p
  BY TailHolds
<1>2. Gains(priority_queues', queues, pcb[p].priority, p)
  <2>1. PICK v : v = pcb[p].priority
    OBVIOUS
  <2>2. priority_queues' = queues \/ priority_queues' = [queues EXCEPT ![v] = Append(queues[v], p)]
    BY <2>1 DEF Arrives
  <2>3. Gains(queues, queues, v, p) /\ Gains([queues EXCEPT ![v] = Append(@, p)], queues, v, p)
    BY EnqueueGains
  <2>. QED
    BY <2>1, <2>2, <2>3
<1>3. /\ Sorted(priority_queues', heap)
      /\ \A q \in Pcbs : HeldAtLevel(priority_queues', q) => HeldAtLevel(queues, q) \/ q = p
      /\ \A w \in Levels : queues[w] # <<>> => priority_queues'[w] # <<>>
  BY <1>1, <1>2, GainsSorted
<1>4. CASE ready_queue' = Tail(ready_queue)
  BY <1>1, <1>2, <1>3, <1>4
<1>5. CASE ready_queue' = Append(Tail(ready_queue), p) /\ priority_queues' = queues
  <2>1. /\ Distinct(ready_queue')
        /\ \A q \in Pcbs : Holds(ready_queue', q) <=> Holds(Tail(ready_queue), q) \/ q = p
    BY <1>1, <1>5, AppendHolds
  <2>. QED
    BY <2>1, <1>1, <1>2, <1>3, <1>5
<1>. QED
  BY <1>4, <1>5 DEF Arrives
----------------------------------------------------------------------------
(* The invariant under PRIO.                                               *)

Queued(p) == Holds(ready_queue, p) \/ HeldAtLevel(priority_queues, p)

\* Nothing is queued twice, neither in one queue nor in two.
LevelsOnce ==
    /\ Distinct(ready_queue) /\ Sorted(priority_queues, pcb)
    /\ \A p \in Pcbs : Holds(ready_queue, p) =>
          ~HeldAtLevel(priority_queues, p) /\ pcb[p].priority \in Levels

AllLoaded == \A c \in Cores, k \in Slots : hw_threads[c][k].pcb # NoPcb

\* After a preemption a core counts one process less than its threads hold, until a
\* dispatch follows in the same pass, unless SIGINT ends the pass before.
Overhang ==
    /\ AllLoaded
    /\ \E d \in Cores : \A c \in Cores :
          Len(pcbs[c]) = IF c = d THEN NumThreads - 1 ELSE NumThreads
    /\ running => sched \in {"transfer", "dispatch"} /\ ReadyLevels # {}

RowsOnce == LoadedOnce(hw_threads) /\ (PrefixLoaded(hw_threads, Counts) \/ Overhang)

\* What waits is on no thread, and neither is freed.
WaitsApart ==
    \A p \in Pcbs :
        /\ On(hw_threads, p) => p \notin destroyed /\ ~Queued(p)
        /\ Queued(p) => p \notin destroyed

\* A PCB in use has the pid of a program, so that a fresh clone is not in use.
PidsGiven ==
    /\ \A p \in Pcbs :
          pcb[p].pid \in Programs \/ (~On(hw_threads, p) /\ ~Queued(p) /\ p \notin destroyed)
    /\ \A c \in Cores : \A k \in 1 .. Len(pcbs[c]) : pcbs[c][k].pid \in Programs

HeldByPriority == LevelsOnce /\ RowsOnce /\ WaitsApart /\ PidsGiven

\* Initially all programs are in the ready queue.
LEMMA InitHeldByPriority == Init => HeldByPriority
<1>. SUFFICES ASSUME Init PROVE HeldByPriority
  OBVIOUS
<1>1. HeldOnce /\ TypeOK
  BY InitHeldOnce, InitType
<1>2. \A v \in Levels, p \in Pcbs : ~Holds(priority_queues[v], p)
  BY DEF Init, Holds
<1>3. Sorted(priority_queues, pcb)
  <2>1. \A v \in Levels : Distinct(priority_queues[v])
    BY DEF Init, Distinct
  <2>. QED
    BY <2>1, <1>2 DEF Sorted
<1>4. \A p \in Pcbs : /\ ~HeldAtLevel(priority_queues, p) /\ ~On(hw_threads, p) /\ p \notin destroyed
                      /\ Holds(ready_queue, p) => p \in Programs
  <2>1. \A c \in Cores, k \in Slots : hw_threads[c][k].pcb = NoPcb
    BY DEF Init, Idle
  <2>2. \A p : Holds(ready_queue, p) => p \in Programs
    BY <1>1, ElementOfSeq DEF HeldOnce, QueueOnce, Holds
  <2>. QED
    BY <2>1, <2>2, <1>2, PcbAssumption DEF HeldAtLevel, On, Init
<1>5. \A p \in Programs : pcb[p].pid \in Programs /\ pcb[p].priority \in Levels
  <2>1. PICK priority \in [Programs -> Levels] :
           pcb = [p \in Pcbs |-> IF p \in Programs THEN Loaded(p, priority[p]) ELSE NewPcb(p)]
    BY DEF Init
  <2>. QED
    BY <2>1 DEF Loaded, NewPcb, Pcbs
<1>6. LevelsOnce
  BY <1>1, <1>3, <1>4, <1>5 DEF LevelsOnce, HeldOnce, QueueOnce
<1>7. RowsOnce
  BY <1>1 DEF RowsOnce, HeldOnce, ThreadsOnce
<1>8. WaitsApart
  BY <1>4 DEF WaitsApart
<1>9. PidsGiven
  <2>1. \A c \in Cores : Len(pcbs[c]) = 0
    BY DEF Init
  <2>2. \A p \in Pcbs : pcb[p].pid \in Programs \/ ~Queued(p)
    BY <1>4, <1>5 DEF Queued
  <2>. QED
    BY <2>1, <2>2, <1>4 DEF PidsGiven
<1>. QED
  BY <1>6, <1>7, <1>8, <1>9 DEF HeldByPriority

\* A step of the scan finds the counts as many as the loaded threads.
LEMMA ScanCounts ==
    ASSUME HeldByPriority, running, sched \notin {"transfer", "dispatch"}
    PROVE  ThreadsOnce
BY DEF HeldByPriority, RowsOnce, Overhang, ThreadsOnce

\* Pids and priorities stay.
SameNames ==
    \A q \in Pcbs : pcb'[q].priority = pcb[q].priority /\ pcb'[q].pid = pcb[q].pid

\* A step that changes one PCB keeps them if it keeps those of that PCB.
LEMMA KeepsNames ==
    ASSUME TypeOK, NEW p \in Pcbs, NEW r, pcb' = [pcb EXCEPT ![p] = r],
           r.priority = pcb[p].priority, r.pid = pcb[p].pid
    PROVE  SameNames
<1>1. pcb \in [Pcbs -> PcbType]
  BY DEF TypeOK
<1>. QED
  BY <1>1 DEF SameNames

\* The scan changes neither pids nor priorities.
LEMMA NamesStay ==
    ASSUME TypeOK, NEW c \in Cores, NEW k \in Slots, NEW p \in Pcbs,
           CompleteProcess(c, k, p) \/ ExpireQuantum(c, k, p) \/ KeepExecuting(c, k, p)
    PROVE  SameNames
<1>1. pcb \in [Pcbs -> PcbType] /\ pcb[p] \in PcbType
  BY DEF TypeOK
<1>2. CASE CompleteProcess(c, k, p)
  <2>1. PICK r : r = [pcb[p] EXCEPT !.quantum_counter = @ + 1, !.pgb = NoPcb]
    OBVIOUS
  <2>2. pcb' = [pcb EXCEPT ![p] = r]
    BY <2>1, <1>1, <1>2 DEF CompleteProcess, PcbType
  <2>3. r.priority = pcb[p].priority /\ r.pid = pcb[p].pid
    BY <2>1, <1>1 DEF PcbType
  <2>. QED
    BY <2>2, <2>3, KeepsNames
<1>3. CASE ExpireQuantum(c, k, p)
  <2>1. PICK r : r = SavedPcb(p, hw_threads[c][k].PC)
    OBVIOUS
  <2>2. pcb' = [pcb EXCEPT ![p] = r]
    BY <2>1, <1>3 DEF ExpireQuantum
  <2>3. r.priority = pcb[p].priority /\ r.pid = pcb[p].pid
    BY <2>1, <1>1 DEF SavedPcb, PcbType
  <2>. QED
    BY <2>2, <2>3, KeepsNames
<1>4. CASE KeepExecuting(c, k, p)
  <2>1. PICK r : r = [pcb[p] EXCEPT !.quantum_counter = @ + 1]
    OBVIOUS
  <2>2. pcb' = [pcb EXCEPT ![p] = r]
    BY <2>1, <1>1, <1>4 DEF KeepExecuting, PcbType
  <2>3. r.priority = pcb[p].priority /\ r.pid = pcb[p].pid
    BY <2>1, <1>1 DEF PcbType
  <2>. QED
    BY <2>2, <2>3, KeepsNames
<1>. QED
  BY <1>2, <1>3, <1>4

\* Nor does the tick.
LEMMA TickNames == ASSUME TypeOK, Tick PROVE SameNames
<1>. SUFFICES ASSUME NEW q \in Pcbs
              PROVE  pcb'[q].priority = pcb[q].priority /\ pcb'[q].pid = pcb[q].pid
  BY DEF SameNames
<1>1. pcb[q] \in PcbType
  BY DEF TypeOK
<1>2. pcb'[q] = TickedPcb(q) \/ pcb'[q] = pcb[q]
  BY DEF Tick
<1>. QED
  BY <1>1, <1>2 DEF TickedPcb, PcbType

\* The tick leaves every process on its thread.
LEMMA TickStays ==
    ASSUME TypeOK, Tick
    PROVE  \A c \in Cores, k \in Slots : hw_threads'[c][k].pcb = hw_threads[c][k].pcb
<1>. SUFFICES ASSUME NEW c \in Cores, NEW k \in Slots
              PROVE  hw_threads'[c][k].pcb = hw_threads[c][k].pcb
  OBVIOUS
<1>1. hw_threads'[c][k] = TickedThread(hw_threads[c][k])
  BY DEF Tick
<1>2. hw_threads[c][k] \in [pcb : Pcbs \cup {NoPcb}, PC : Nat]
  BY DEF TypeOK
<1>. QED
  BY <1>1, <1>2 DEF TickedThread

\* What a removal leaves of the copies was there before.
LEMMA DropKeepsPids ==
    ASSUME TypeOK, NEW c \in Cores, NEW k \in 1 .. Len(pcbs[c]),
           pcbs' = [pcbs EXCEPT ![c] = DropAt(@, k)]
    PROVE  /\ \A d \in Cores : d # c => pcbs'[d] = pcbs[d]
           /\ Len(pcbs'[c]) = Len(pcbs[c]) - 1
           /\ (\A d \in Cores : \A j \in 1 .. Len(pcbs[d]) : pcbs[d][j].pid \in Programs) =>
                 \A d \in Cores : \A j \in 1 .. Len(pcbs'[d]) : pcbs'[d][j].pid \in Programs
<1>1. pcbs \in [Cores -> Seq(PcbType)] /\ pcbs[c] \in Seq(PcbType) /\ Len(pcbs[c]) \in Nat
  BY LenProperties DEF TypeOK
<1>2. /\ \A d \in Cores : d # c => pcbs'[d] = pcbs[d]
      /\ pcbs'[c] = DropAt(pcbs[c], k)
  BY <1>1
<1>3. /\ Len(pcbs'[c]) = Len(pcbs[c]) - 1
      /\ \A j \in 1 .. Len(pcbs[c]) - 1 :
            pcbs'[c][j] = IF j < k THEN pcbs[c][j] ELSE pcbs[c][j + 1]
  BY <1>1, <1>2, DropAtProperties DEF DropAt
<1>4. ASSUME \A d \in Cores : \A j \in 1 .. Len(pcbs[d]) : pcbs[d][j].pid \in Programs,
             NEW d \in Cores, NEW j \in 1 .. Len(pcbs'[d])
      PROVE  pcbs'[d][j].pid \in Programs
  <2>1. CASE d # c
    BY <2>1, <1>2, <1>4
  <2>2. CASE d = c
    <3>1. j \in 1 .. Len(pcbs[c]) /\ (~(j < k) => j + 1 \in 1 .. Len(pcbs[c]))
      BY <2>2, <1>1, <1>3
    <3>. QED
      BY <2>2, <3>1, <1>1, <1>3, <1>4
  <2>. QED
    BY <2>1, <2>2
<1>. QED
  BY <1>2, <1>3, <1>4

\* A completed process goes from its thread to free().
LEMMA CompleteHeldByPriority ==
    ASSUME TypeOK, HeldByPriority,
           NEW c \in Cores, NEW k \in Slots, NEW p \in Pcbs, CompleteProcess(c, k, p)
    PROVE  HeldByPriority'
<1>1. /\ k \in 1 .. Len(pcbs[c]) /\ p = hw_threads[c][k].pcb
      /\ RemoveFromCore(c, k) /\ destroyed' = destroyed \cup {p}
      /\ UNCHANGED <<ready_queue, priority_queues>>
      /\ running /\ sched = "scan"
  BY DEF CompleteProcess, Visits, current_pcb_count, queueVars
<1>2. ThreadsOnce
  BY <1>1, ScanCounts
<1>3. /\ ThreadsOnce'
      /\ \A q \in Pcbs : On(hw_threads', q) <=> On(hw_threads, q) /\ q # p
  BY <1>1, <1>2, UnloadThreads
<1>4. On(hw_threads, p) /\ ~Queued(p) /\ pcb[p].pid \in Programs
  <2>1. On(hw_threads, p)
    BY <1>1 DEF On
  <2>. QED
    BY <2>1 DEF HeldByPriority, WaitsApart, PidsGiven
<1>5. SameNames
  BY NamesStay
<1>6. \A q \in Pcbs : Queued(q)' <=> Queued(q)
  BY <1>1 DEF Queued, HeldAtLevel
<1>7. LevelsOnce'
  BY <1>1, <1>5 DEF HeldByPriority, LevelsOnce, Sorted, SameNames, HeldAtLevel
<1>8. RowsOnce'
  BY <1>3 DEF ThreadsOnce, RowsOnce
<1>9. WaitsApart'
  BY <1>1, <1>3, <1>4, <1>6 DEF HeldByPriority, WaitsApart
<1>10. PidsGiven'
  <2>1. \A d \in Cores : \A j \in 1 .. Len(pcbs'[d]) : pcbs'[d][j].pid \in Programs
    BY <1>1, DropKeepsPids DEF HeldByPriority, PidsGiven, RemoveFromCore
  <2>2. \A q \in Pcbs : \/ pcb'[q].pid \in Programs
                        \/ ~On(hw_threads', q) /\ ~Queued(q)' /\ q \notin destroyed'
    BY <1>1, <1>3, <1>4, <1>5, <1>6 DEF HeldByPriority, PidsGiven, SameNames
  <2>. QED
    BY <2>1, <2>2 DEF PidsGiven
<1>. QED
  BY <1>7, <1>8, <1>9, <1>10 DEF HeldByPriority

\* A process whose quantum expires goes to the rear of its level, or is lost.
LEMMA ExpireHeldByPriority ==
    ASSUME Policy = "PRIO", TypeOK, HeldByPriority,
           NEW c \in Cores, NEW k \in Slots, NEW p \in Pcbs, ExpireQuantum(c, k, p)
    PROVE  HeldByPriority'
<1>1. /\ k \in 1 .. Len(pcbs[c]) /\ p = hw_threads[c][k].pcb
      /\ RemoveFromCore(c, k) /\ EnqueueToScheduler(p, pcb[p].priority)
      /\ pcb' = [pcb EXCEPT ![p] = SavedPcb(p, hw_threads[c][k].PC)]
      /\ UNCHANGED <<destroyed, ready_queue>>
      /\ running /\ sched = "scan"
  BY DEF ExpireQuantum, Visits, current_pcb_count, countVars, EnqueueToScheduler
<1>2. ThreadsOnce
  BY <1>1, ScanCounts
<1>3. /\ ThreadsOnce'
      /\ \A q \in Pcbs : On(hw_threads', q) <=> On(hw_threads, q) /\ q # p
  BY <1>1, <1>2, UnloadThreads
<1>4. On(hw_threads, p) /\ ~Queued(p) /\ p \notin destroyed /\ pcb[p].pid \in Programs
  <2>1. On(hw_threads, p)
    BY <1>1 DEF On
  <2>. QED
    BY <2>1 DEF HeldByPriority, WaitsApart, PidsGiven
<1>5. SameNames
  BY NamesStay
<1>6. Sorted(priority_queues, pcb')
  BY <1>5 DEF HeldByPriority, LevelsOnce, Sorted, SameNames
<1>7. priority_queues \in [Levels -> Seq(Pcbs)]
  BY DEF TypeOK
<1>8. /\ Sorted(priority_queues', pcb')
      /\ \A q \in Pcbs : HeldAtLevel(priority_queues', q) => HeldAtLevel(priority_queues, q) \/ q = p
  <2>1. PICK v : v = pcb[p].priority
    OBVIOUS
  <2>2. priority_queues' = [priority_queues EXCEPT ![v] = Enqueued(@, p, LevelCapacity)]
    BY <1>1, <2>1 DEF EnqueueToScheduler
  <2>3. Gains(priority_queues', priority_queues, v, p)
    BY <1>7, <2>2, EnqueueGains
  <2>4. v = pcb'[p].priority /\ ~HeldAtLevel(priority_queues, p)
    BY <2>1, <1>4, <1>5 DEF SameNames, Queued
  <2>5. PICK heap : heap = pcb'
    OBVIOUS
  <2>6. PICK after : after = priority_queues'
    OBVIOUS
  <2>7. v = heap[p].priority /\ Sorted(priority_queues, heap) /\ Gains(after, priority_queues, v, p)
    BY <2>3, <2>4, <2>5, <2>6, <1>6
  <2>8. /\ Sorted(after, heap)
        /\ \A q \in Pcbs : HeldAtLevel(after, q) => HeldAtLevel(priority_queues, q) \/ q = p
    BY <2>4, <2>7, <1>7, GainsSorted
  <2>. QED
    BY <2>5, <2>6, <2>8
<1>9. \A q \in Pcbs : Queued(q)' => Queued(q) \/ q = p
  BY <1>1, <1>8 DEF Queued
<1>10. ~Holds(ready_queue, p)
  BY <1>4 DEF Queued
<1>11. LevelsOnce'
  BY <1>1, <1>5, <1>8, <1>10 DEF HeldByPriority, LevelsOnce, SameNames
<1>12. RowsOnce'
  BY <1>3 DEF ThreadsOnce, RowsOnce
<1>13. WaitsApart'
  BY <1>1, <1>3, <1>4, <1>9 DEF HeldByPriority, WaitsApart
<1>14. PidsGiven'
  <2>1. \A d \in Cores : \A j \in 1 .. Len(pcbs'[d]) : pcbs'[d][j].pid \in Programs
    BY <1>1, DropKeepsPids DEF HeldByPriority, PidsGiven, RemoveFromCore
  <2>2. \A q \in Pcbs : \/ pcb'[q].pid \in Programs
                        \/ ~On(hw_threads', q) /\ ~Queued(q)' /\ q \notin destroyed'
    BY <1>1, <1>3, <1>4, <1>5, <1>9 DEF HeldByPriority, PidsGiven, SameNames
  <2>. QED
    BY <2>1, <2>2 DEF PidsGiven
<1>. QED
  BY <1>11, <1>12, <1>13, <1>14 DEF HeldByPriority

\* An arrival that preempts nobody.
LEMMA TransferHeldByPriority ==
    ASSUME TypeOK, HeldByPriority, TransferArrival
    PROVE  HeldByPriority'
<1>1. PICK p \in Pcbs : /\ Transfers(p) /\ Arrives(p, priority_queues)
                        /\ UNCHANGED <<running, pcb, machineVars, countVars>>
  BY DEF TransferArrival
<1>2. /\ ready_queue \in Seq(Pcbs) /\ ready_queue # <<>> /\ p = Head(ready_queue)
      /\ priority_queues \in [Levels -> Seq(Pcbs)]
      /\ UNCHANGED <<pcb, hw_threads, pcbs, destroyed>>
  BY <1>1 DEF TypeOK, Transfers, machineVars, countVars
<1>3. /\ Distinct(ready_queue) /\ Sorted(priority_queues, pcb)
      /\ \A q \in Pcbs : Holds(ready_queue, q) => ~HeldAtLevel(priority_queues, q)
  BY DEF HeldByPriority, LevelsOnce
<1>4. /\ Distinct(ready_queue') /\ Sorted(priority_queues', pcb)
      /\ \A q \in Pcbs : /\ Holds(ready_queue', q) => Holds(ready_queue, q)
                         /\ HeldAtLevel(priority_queues', q) => HeldAtLevel(priority_queues, q) \/ q = p
                         /\ Holds(ready_queue', q) => ~HeldAtLevel(priority_queues', q)
      /\ \A w \in Levels : priority_queues[w] # <<>> => priority_queues'[w] # <<>>
  BY <1>1, <1>2, <1>3, ArrivesSorted
<1>5. Holds(ready_queue, p)
  BY <1>2, <1>3, TailHolds
<1>6. \A q \in Pcbs : Queued(q)' => Queued(q)
  BY <1>4, <1>5 DEF Queued
<1>7. LevelsOnce'
  BY <1>2, <1>4 DEF HeldByPriority, LevelsOnce
<1>8. RowsOnce'
  <2>1. Counts' = Counts
    BY <1>2 DEF Counts, current_pcb_count
  <2>2. sched' \in {"transfer", "dispatch"}
    BY <1>1 DEF Arrives, Transfers
  <2>3. ReadyLevels # {} => ReadyLevels' # {}
    BY <1>4 DEF ReadyLevels
  <2>4. Overhang => Overhang'
    BY <1>1, <1>2, <2>2, <2>3 DEF Overhang, AllLoaded
  <2>. QED
    BY <1>2, <2>1, <2>4 DEF HeldByPriority, RowsOnce
<1>9. WaitsApart' /\ PidsGiven'
  BY <1>2, <1>6 DEF HeldByPriority, WaitsApart, PidsGiven
<1>. QED
  BY <1>7, <1>8, <1>9 DEF HeldByPriority

\* Without room every hardware thread is loaded and counted.
LEMMA FullIsLoaded ==
    ASSUME TypeOK, HeldByPriority, ~can_cpu_execute_process
    PROVE  /\ AllLoaded /\ \A c \in Cores : Len(pcbs[c]) = NumThreads
<1>1. \A c \in Cores : Len(pcbs[c]) \in 0 .. NumThreads /\ Counts[c] = Len(pcbs[c])
  BY TypeFacts
<1>2. NumThreads \in Nat \ {0}
  BY SizeAssumption
<1>3. \A c \in Cores : Len(pcbs[c]) = NumThreads
  BY <1>1, <1>2 DEF can_cpu_execute_process, RoomyCores, current_pcb_count
<1>4. ~Overhang
  BY <1>2, <1>3 DEF Overhang
<1>5. PrefixLoaded(hw_threads, Counts)
  BY <1>4 DEF HeldByPriority, RowsOnce
<1>6. AllLoaded
  <2>1. \A k \in Slots : k <= NumThreads
    BY <1>2 DEF Slots
  <2>. QED
    BY <1>1, <1>3, <1>5, <2>1 DEF AllLoaded, PrefixLoaded
<1>. QED
  BY <1>3, <1>6

\* An arrival finds its level full, or stands in it afterwards.
LEMMA ArrivesSomewhere ==
    ASSUME NEW p \in Pcbs, NEW queues \in [Levels -> Seq(Pcbs)], pcb[p].priority \in Levels,
           Arrives(p, queues)
    PROVE  priority_queues'[pcb[p].priority] # <<>>
<1>1. PICK w \in Levels : w = pcb[p].priority
  OBVIOUS
<1>2. /\ queues[w] \in Seq(Pcbs) /\ Append(queues[w], p) # <<>>
      /\ Append(queues[w], p) \in Seq(Pcbs) /\ LevelCapacity \in Nat \ {0}
  BY AppendProperties, SizeAssumption DEF LevelCapacity
<1>3. CASE priority_queues' = queues /\ IsFull(queues[w], LevelCapacity)
  BY <1>1, <1>2, <1>3 DEF IsFull
<1>4. CASE priority_queues' = [queues EXCEPT ![w] = Append(@, p)]
  BY <1>1, <1>2, <1>4
<1>. QED
  BY <1>1, <1>3, <1>4 DEF Arrives

\* An arrival that preempts: the victim's clone goes to its level, a copy is
\* dropped, and the thread keeps the victim.
LEMMA PreemptHeldByPriority ==
    ASSUME TypeOK, HeldByPriority, TransferPreempting
    PROVE  HeldByPriority'
<1>. DEFINE c == Victim[1]
            k == Victim[2]
            copy == pcbs[c][k]
            mid(f) == [priority_queues EXCEPT
                          ![copy.priority] = Enqueued(priority_queues[copy.priority], f, LevelCapacity)]
<1>1. PICK p \in Pcbs, f \in FreshClones :
         /\ Transfers(p) /\ MustPreempt(p)
         /\ pcb' = [pcb EXCEPT ![f] = CloneOf(copy)]
         /\ Arrives(p, mid(f))
         /\ pcbs' = [pcbs EXCEPT ![c] = DropAt(@, k)]
         /\ UNCHANGED <<running, hw_threads, countVars>>
  BY DEF TransferPreempting
<1>2. c \in Cores /\ k \in 1 .. Len(pcbs[c]) /\ copy \in PcbType /\ copy.pid \in Programs
  <2>1. Victim \in Copies
    BY <1>1, VictimIsACopy DEF MustPreempt
  <2>2. Victim \in Cores \X Slots /\ k <= Len(pcbs[c])
    BY <2>1 DEF Copies, current_pcb_count
  <2>3. c \in Cores /\ k \in 1 .. NumThreads
    BY <2>2 DEF Slots
  <2>4. pcbs[c] \in Seq(PcbType)
    BY <2>3 DEF TypeOK
  <2>5. k \in 1 .. Len(pcbs[c])
    BY <2>2, <2>3, <2>4, LenProperties, SizeAssumption
  <2>. QED
    BY <2>3, <2>4, <2>5, ElementOfSeq DEF HeldByPriority, PidsGiven
<1>3. PICK v : v = copy.priority
  OBVIOUS
<1>4. /\ CloneOf(copy).priority = v /\ CloneOf(copy).pid = copy.pid
  BY <1>2, <1>3 DEF CloneOf, NewPcb
<1>. HIDE DEF c, k, copy
<1>5. /\ f \in Pcbs /\ ~On(hw_threads, f) /\ ~Queued(f) /\ f \notin destroyed
  <2>1. f \in Clones /\ f \in Pcbs /\ pcb[f].pid \notin Programs
    BY <1>1, PcbAssumption DEF FreshClones, Pcbs
  <2>. QED
    BY <2>1 DEF HeldByPriority, PidsGiven
<1>6. /\ pcb \in [Pcbs -> PcbType] /\ pcb'[f] = CloneOf(copy)
      /\ \A q \in Pcbs : q # f => pcb'[q] = pcb[q]
  BY <1>1, <1>5 DEF TypeOK
<1>7. /\ ready_queue \in Seq(Pcbs) /\ ready_queue # <<>> /\ p = Head(ready_queue)
      /\ priority_queues \in [Levels -> Seq(Pcbs)]
      /\ UNCHANGED <<running, hw_threads, destroyed>>
      /\ running /\ sched = "transfer"
  BY <1>1 DEF TypeOK, Transfers, countVars
<1>8. /\ Distinct(ready_queue) /\ Sorted(priority_queues, pcb)
      /\ \A q \in Pcbs : Holds(ready_queue, q) =>
            ~HeldAtLevel(priority_queues, q) /\ pcb[q].priority \in Levels
  BY DEF HeldByPriority, LevelsOnce
<1>9. Holds(ready_queue, p) /\ p # f
  BY <1>5, <1>7, <1>8, TailHolds DEF Queued
<1>10. Sorted(priority_queues, pcb')
  BY <1>5, <1>6, <1>8 DEF Sorted, HeldAtLevel, Queued
<1>11. PICK queues : queues = mid(f)
  OBVIOUS
<1>12. Gains(queues, priority_queues, v, f)
  BY <1>3, <1>5, <1>7, <1>11, EnqueueGains
<1>13. /\ queues \in [Levels -> Seq(Pcbs)] /\ Sorted(queues, pcb')
       /\ \A q \in Pcbs : HeldAtLevel(queues, q) => HeldAtLevel(priority_queues, q) \/ q = f
  <2>1. v = pcb'[f].priority /\ ~HeldAtLevel(priority_queues, f)
    BY <1>4, <1>5, <1>6 DEF Queued
  <2>2. /\ Sorted(queues, pcb')
        /\ \A q \in Pcbs : HeldAtLevel(queues, q) => HeldAtLevel(priority_queues, q) \/ q = f
    <3>1. PICK heap : heap = pcb'
      OBVIOUS
    <3>2. /\ priority_queues \in [Levels -> Seq(Pcbs)] /\ f \in Pcbs
          /\ Sorted(priority_queues, heap) /\ v = heap[f].priority
      BY <2>1, <3>1, <1>5, <1>7, <1>10
    <3>3. /\ Sorted(queues, heap)
          /\ \A q \in Pcbs : HeldAtLevel(queues, q) => HeldAtLevel(priority_queues, q) \/ q = f
      BY <2>1, <3>2, <1>12, GainsSorted
    <3>. QED
      BY <3>1, <3>3
  <2>. QED
    BY <2>2, <1>12 DEF Gains
<1>14. /\ Arrives(p, queues) /\ pcb'[p].priority = pcb[p].priority
       /\ \A q \in Pcbs : Holds(ready_queue, q) => ~HeldAtLevel(queues, q)
  BY <1>1, <1>5, <1>6, <1>8, <1>9, <1>11, <1>13 DEF Queued
<1>. HIDE DEF mid
<1>15. /\ Distinct(ready_queue') /\ Sorted(priority_queues', pcb')
       /\ \A q \in Pcbs : /\ Holds(ready_queue', q) => Holds(ready_queue, q)
                          /\ HeldAtLevel(priority_queues', q) => HeldAtLevel(queues, q) \/ q = p
                          /\ Holds(ready_queue', q) => ~HeldAtLevel(priority_queues', q)
  BY <1>7, <1>8, <1>13, <1>14, ArrivesSorted
<1>16. \A q \in Pcbs : Queued(q)' => Queued(q) \/ q = f
  BY <1>9, <1>13, <1>15 DEF Queued
<1>17. LevelsOnce'
  BY <1>5, <1>6, <1>8, <1>15 DEF LevelsOnce, Queued
<1>18. RowsOnce'
  <2>1. AllLoaded /\ \A d \in Cores : Len(pcbs[d]) = NumThreads
    BY <1>1, FullIsLoaded DEF MustPreempt
  <2>2. \A d \in Cores : Len(pcbs'[d]) = IF d = c THEN NumThreads - 1 ELSE NumThreads
    BY <2>1, <1>1, <1>2, DropKeepsPids
  <2>3. sched' \in {"transfer", "dispatch"}
    BY <1>7, <1>14 DEF Arrives
  <2>4. ReadyLevels' # {}
    <3>1. pcb[p].priority \in Levels
      BY <1>8, <1>9
    <3>2. priority_queues'[pcb[p].priority] # <<>>
      BY <3>1, <1>13, <1>14, ArrivesSomewhere
    <3>. QED
      BY <3>1, <3>2 DEF ReadyLevels
  <2>5. Overhang'
    BY <2>1, <2>2, <2>3, <2>4, <1>2, <1>7 DEF Overhang, AllLoaded
  <2>. QED
    BY <2>5, <1>7 DEF HeldByPriority, RowsOnce
<1>19. WaitsApart'
  BY <1>5, <1>7, <1>16 DEF HeldByPriority, WaitsApart
<1>20. PidsGiven'
  <2>1. \A d \in Cores : \A j \in 1 .. Len(pcbs'[d]) : pcbs'[d][j].pid \in Programs
    BY <1>1, <1>2, DropKeepsPids DEF HeldByPriority, PidsGiven
  <2>2. \A q \in Pcbs : \/ pcb'[q].pid \in Programs
                        \/ ~On(hw_threads', q) /\ ~Queued(q)' /\ q \notin destroyed'
    BY <1>2, <1>4, <1>6, <1>7, <1>16 DEF HeldByPriority, PidsGiven
  <2>. QED
    BY <2>1, <2>2 DEF PidsGiven
<1>. QED
  BY <1>17, <1>18, <1>19, <1>20 DEF HeldByPriority

\* Overwriting a hardware thread unloads at most the process that it held.
LEMMA OverwriteLoads ==
    ASSUME NEW rows, LoadedOnce(rows), NEW c \in Cores, NEW m \in Slots,
           NEW h, h.pcb \in Pcbs, ~On(rows, h.pcb), NEW after,
           \A d \in Cores, l \in Slots : after[d][l] = IF d = c /\ l = m THEN h ELSE rows[d][l]
    PROVE  /\ LoadedOnce(after)
           /\ \A p \in Pcbs : On(after, p) => On(rows, p) \/ p = h.pcb
           /\ \A d \in Cores, l \in Slots : rows[d][l].pcb # NoPcb => after[d][l].pcb # NoPcb
<1>1. /\ \A d \in Cores, l \in Slots : ~(d = c /\ l = m) => after[d][l] = rows[d][l]
      /\ after[c][m] = h /\ h.pcb # NoPcb
  BY PcbAssumption
<1>2. LoadedOnce(after)
  BY <1>1 DEF LoadedOnce, On
<1>3. \A p \in Pcbs : On(after, p) => On(rows, p) \/ p = h.pcb
  BY <1>1 DEF On
<1>. QED
  BY <1>1, <1>2, <1>3

\* A dispatch fills the free thread, or overwrites the one left by a preemption.
LEMMA DispatchRows ==
    ASSUME TypeOK, HeldByPriority, can_cpu_execute_process,
           NEW p \in Pcbs, ~On(hw_threads, p), Dispatches(p)
    PROVE  /\ LoadedOnce(hw_threads') /\ PrefixLoaded(hw_threads', Counts')
           /\ \A q \in Pcbs : On(hw_threads', q) => On(hw_threads, q) \/ q = p
<1>. DEFINE c == FirstRoom
            h == [pcb |-> p, PC |-> Started(p).pc]
<1>1. /\ hw_threads \in Rows /\ pcbs \in [Cores -> Seq(PcbType)] /\ pcb \in [Pcbs -> PcbType]
      /\ Counts \in [Cores -> 0 .. NumThreads] /\ \A d \in Cores : Counts[d] = Len(pcbs[d])
  BY TypeFacts
<1>2. c \in Cores /\ Counts[c] < NumThreads
  BY <1>1, FirstRoomIsRoomy DEF RoomyCores, current_pcb_count
<1>3. Started(p) \in PcbType
  <2>1. pcb[p] \in PcbType /\ Deadline(p) \in Int
    BY <1>1, DeadlineType
  <2>. QED
    BY <2>1 DEF Started, PcbType
<1>4. h \in ThreadType /\ h.pcb = p
  BY <1>3 DEF ThreadType, PcbType
<1>5. hw_threads' = Assigned(hw_threads, Counts, c, h)
  BY <1>1, <1>2 DEF Dispatches, AssignToCore, current_pcb_count, Assigned
<1>6. /\ Counts' = More(Counts, c)
      /\ \A d \in Cores : Counts'[d] = IF d = c THEN Counts[c] + 1 ELSE Counts[d]
  <2>1. pcbs' = [pcbs EXCEPT ![c] = Append(@, Started(p))]
    BY DEF Dispatches, AssignToCore
  <2>2. Len(Append(pcbs[c], Started(p))) = Len(pcbs[c]) + 1
    BY <1>1, <1>2, <1>3, AppendProperties
  <2>3. \A d \in Cores : Len(pcbs'[d]) = IF d = c THEN Counts[c] + 1 ELSE Counts[d]
    BY <1>1, <1>2, <2>1, <2>2
  <2>4. Counts' = [d \in Cores |-> Len(pcbs'[d])]
    BY DEF Counts, current_pcb_count
  <2>. QED
    BY <1>1, <2>3, <2>4 DEF More
<1>7. LoadedOnce(hw_threads)
  BY DEF HeldByPriority, RowsOnce
<1>. HIDE DEF c, h
<1>8. CASE PrefixLoaded(hw_threads, Counts)
  <2>1. /\ PrefixLoaded(hw_threads', More(Counts, c)) /\ LoadedOnce(hw_threads')
        /\ \A q \in Pcbs : On(hw_threads', q) <=> On(hw_threads, q) \/ q = h.pcb
    <3>1. h.pcb \in Pcbs /\ ~On(hw_threads, h.pcb)
      BY <1>4
    <3>. QED
      BY <3>1, <1>1, <1>2, <1>4, <1>5, <1>7, <1>8, AssignLoads
  <2>. QED
    BY <2>1, <1>4, <1>6
<1>9. CASE Overhang
  <2>1. /\ AllLoaded /\ NumThreads \in Nat \ {0} /\ Slots = 1 .. NumThreads
        /\ \A d \in Cores : Counts[d] = IF d = c THEN NumThreads - 1 ELSE NumThreads
    <3>1. NumThreads \in Nat \ {0}
      BY SizeAssumption
    <3>2. PICK e \in Cores : \A d \in Cores : Counts[d] = IF d = e THEN NumThreads - 1 ELSE NumThreads
      BY <1>1, <1>9 DEF Overhang
    <3>3. c = e
      BY <1>2, <3>1, <3>2
    <3>. QED
      BY <3>1, <3>2, <3>3, <1>9 DEF Overhang, Slots
  <2>2. Counts[c] + 1 = NumThreads /\ NumThreads \in Slots /\ \A d \in Cores : Counts'[d] = NumThreads
    BY <2>1, <1>2, <1>6
  <2>3. hw_threads' = [hw_threads EXCEPT ![c] = [@ EXCEPT ![NumThreads] = h]]
    BY <2>2, <1>5 DEF Assigned
  <2>4. /\ LoadedOnce(hw_threads')
        /\ \A q \in Pcbs : On(hw_threads', q) => On(hw_threads, q) \/ q = h.pcb
        /\ \A d \in Cores, l \in Slots : hw_threads[d][l].pcb # NoPcb => hw_threads'[d][l].pcb # NoPcb
    <3>1. h.pcb \in Pcbs /\ ~On(hw_threads, h.pcb)
      BY <1>4
    <3>2. \A d \in Cores, l \in Slots :
             hw_threads'[d][l] = IF d = c /\ l = NumThreads THEN h ELSE hw_threads[d][l]
      BY <2>2, <2>3, <1>1, <1>2 DEF Rows
    <3>. QED
      BY <3>1, <3>2, <2>2, <1>2, <1>7, OverwriteLoads
  <2>5. PrefixLoaded(hw_threads', Counts')
    BY <2>1, <2>2, <2>4 DEF PrefixLoaded, AllLoaded
  <2>. QED
    BY <2>4, <2>5, <1>4
<1>. QED
  BY <1>8, <1>9 DEF HeldByPriority, RowsOnce

\* The front of the top level goes to a hardware thread.
LEMMA DispatchHeldByPriority ==
    ASSUME TypeOK, HeldByPriority, DispatchPriority
    PROVE  HeldByPriority'
<1>1. PICK v \in Levels : /\ v = TopLevel /\ priority_queues[v] # <<>>
                          /\ priority_queues[v] \in Seq(Pcbs)
  BY TopLevelIsReady DEF DispatchPriority, CanDispatch, has_ready_processes, ReadyLevels, TypeOK
<1>2. PICK p : p = Head(priority_queues[v])
  OBVIOUS
<1>3. /\ priority_queues' = [priority_queues EXCEPT ![v] = Tail(@)]
      /\ can_cpu_execute_process /\ Dispatches(p)
      /\ UNCHANGED <<ready_queue, destroyed>>
  BY <1>1, <1>2 DEF DispatchPriority, CanDispatch, Dispatches, countVars
<1>4. /\ p \in Pcbs /\ Holds(priority_queues[v], p) /\ Distinct(Tail(priority_queues[v]))
      /\ \A q \in Pcbs : Holds(Tail(priority_queues[v]), q) <=> Holds(priority_queues[v], q) /\ q # p
  BY <1>1, <1>2, TailHolds DEF HeldByPriority, LevelsOnce, Sorted
<1>5. Queued(p) /\ HeldAtLevel(priority_queues, p) /\ pcb[p].priority = v
  BY <1>4 DEF Queued, HeldAtLevel, HeldByPriority, LevelsOnce, Sorted
<1>6. ~On(hw_threads, p) /\ p \notin destroyed /\ pcb[p].pid \in Programs
  BY <1>4, <1>5 DEF HeldByPriority, WaitsApart, PidsGiven
<1>7. /\ LoadedOnce(hw_threads') /\ PrefixLoaded(hw_threads', Counts')
      /\ \A q \in Pcbs : On(hw_threads', q) => On(hw_threads, q) \/ q = p
  BY <1>3, <1>4, <1>6, DispatchRows
<1>8. Started(p).priority = pcb[p].priority /\ Started(p).pid = pcb[p].pid
  <2>1. pcb[p] \in PcbType
    BY <1>4 DEF TypeOK
  <2>. QED
    BY <2>1 DEF Started, PcbType
<1>9. SameNames
  BY <1>3, <1>4, <1>8, KeepsNames DEF Dispatches
<1>10. /\ \A w \in Levels : priority_queues'[w] = IF w = v THEN Tail(priority_queues[v])
                                                          ELSE priority_queues[w]
  BY <1>3 DEF TypeOK
<1>11. \A q \in Pcbs, w \in Levels : Holds(priority_queues'[w], q) => Holds(priority_queues[w], q) /\ q # p
  BY <1>4, <1>5, <1>10 DEF HeldByPriority, LevelsOnce, Sorted
<1>12. Sorted(priority_queues', pcb')
  BY <1>4, <1>9, <1>10, <1>11 DEF HeldByPriority, LevelsOnce, Sorted, SameNames
<1>13. \A q \in Pcbs : HeldAtLevel(priority_queues', q) => HeldAtLevel(priority_queues, q) /\ q # p
  BY <1>11 DEF HeldAtLevel
<1>14. \A q \in Pcbs : Queued(q)' => Queued(q) /\ q # p
  BY <1>3, <1>4, <1>5, <1>13 DEF Queued, HeldByPriority, LevelsOnce
<1>15. LevelsOnce'
  BY <1>3, <1>9, <1>12, <1>13 DEF HeldByPriority, LevelsOnce, SameNames
<1>16. RowsOnce'
  BY <1>7 DEF RowsOnce
<1>17. WaitsApart'
  BY <1>3, <1>6, <1>7, <1>14 DEF HeldByPriority, WaitsApart
<1>18. PidsGiven'
  <2>1. pcbs' = [pcbs EXCEPT ![FirstRoom] = Append(@, Started(p))]
    BY <1>3 DEF Dispatches, AssignToCore
  <2>2. FirstRoom \in Cores /\ pcbs \in [Cores -> Seq(PcbType)] /\ Started(p) \in PcbType
    <3>1. pcb[p] \in PcbType /\ Deadline(p) \in Int
      BY <1>4, DeadlineType DEF TypeOK
    <3>. QED
      BY <3>1, <1>3, FirstRoomIsRoomy DEF RoomyCores, TypeOK, Started, PcbType
  <2>3. ASSUME NEW d \in Cores, NEW j \in 1 .. Len(pcbs'[d]) PROVE pcbs'[d][j].pid \in Programs
    <3>1. CASE d # FirstRoom
      BY <3>1, <2>1, <2>2, <2>3 DEF HeldByPriority, PidsGiven
    <3>2. CASE d = FirstRoom
      <4>1. pcbs'[d] = Append(pcbs[d], Started(p)) /\ pcbs[d] \in Seq(PcbType)
        BY <3>2, <2>1, <2>2
      <4>2. /\ Len(pcbs[d]) \in Nat /\ Len(pcbs'[d]) = Len(pcbs[d]) + 1
            /\ pcbs'[d][Len(pcbs[d]) + 1] = Started(p)
            /\ \A i \in 1 .. Len(pcbs[d]) : pcbs'[d][i] = pcbs[d][i]
        BY <4>1, <2>2, AppendProperties, LenProperties
      <4>3. j \in 1 .. Len(pcbs[d]) \/ j = Len(pcbs[d]) + 1
        BY <4>2
      <4>. QED
        BY <4>2, <4>3, <1>6, <1>8 DEF HeldByPriority, PidsGiven
    <3>. QED
      BY <3>1, <3>2
  <2>4. \A q \in Pcbs : \/ pcb'[q].pid \in Programs
                        \/ ~On(hw_threads', q) /\ ~Queued(q)' /\ q \notin destroyed'
    BY <1>3, <1>6, <1>7, <1>9, <1>14 DEF HeldByPriority, PidsGiven, SameNames
  <2>. QED
    BY <2>3, <2>4 DEF PidsGiven
<1>. QED
  BY <1>15, <1>16, <1>17, <1>18 DEF HeldByPriority

\* A step that moves no process keeps the invariant, if it does not leave a
\* preemption without its dispatch.
LEMMA StillHeldByPriority ==
    ASSUME HeldByPriority, SameNames, UNCHANGED <<ready_queue, priority_queues, pcbs, destroyed>>,
           \A c \in Cores, k \in Slots : hw_threads'[c][k].pcb = hw_threads[c][k].pcb,
           Overhang => (running' => running /\ sched' \in {"transfer", "dispatch"})
    PROVE  HeldByPriority'
<1>1. Counts' = Counts
  BY DEF Counts, current_pcb_count
<1>2. \A q : On(hw_threads', q) <=> On(hw_threads, q)
  BY DEF On
<1>3. \A q : Queued(q)' <=> Queued(q)
  BY DEF Queued, HeldAtLevel
<1>4. LevelsOnce'
  BY DEF HeldByPriority, LevelsOnce, Sorted, SameNames
<1>5. RowsOnce'
  <2>1. LoadedOnce(hw_threads') /\ (PrefixLoaded(hw_threads, Counts) => PrefixLoaded(hw_threads', Counts'))
    BY <1>1 DEF HeldByPriority, RowsOnce, LoadedOnce, PrefixLoaded
  <2>2. Overhang => Overhang'
    BY DEF Overhang, AllLoaded, ReadyLevels
  <2>. QED
    BY <2>1, <2>2 DEF HeldByPriority, RowsOnce
<1>6. WaitsApart' /\ PidsGiven'
  BY <1>2, <1>3 DEF HeldByPriority, WaitsApart, PidsGiven, SameNames
<1>. QED
  BY <1>4, <1>5, <1>6 DEF HeldByPriority

\* The cleanup frees processes that wait, and takes them out of their queue.
LEMMA FreesHeldByPriority ==
    ASSUME HeldByPriority, UNCHANGED <<running, pcb, hw_threads, pcbs>>, ~running, LevelsOnce',
           \A q \in Pcbs : /\ Queued(q)' => Queued(q) /\ q \notin destroyed'
                           /\ q \in destroyed' => q \in destroyed \/ Queued(q)
    PROVE  HeldByPriority'
<1>1. Counts' = Counts
  BY DEF Counts, current_pcb_count
<1>2. RowsOnce'
  BY <1>1 DEF HeldByPriority, RowsOnce, Overhang, AllLoaded
<1>3. WaitsApart' /\ PidsGiven'
  BY DEF HeldByPriority, WaitsApart, PidsGiven
<1>. QED
  BY <1>2, <1>3 DEF HeldByPriority

\* The scheduler stops only after a SIGINT.
StoppedByInterrupt == sched = "stopped" \/ main # "pause" => ~running

\* Nothing sets the flag again.
LEMMA NextStopped == StoppedByInterrupt /\ [Next]_vars => StoppedByInterrupt'
<1>. SUFFICES ASSUME StoppedByInterrupt, [Next]_vars PROVE StoppedByInterrupt'
  OBVIOUS
<1>1. CASE SchedulerStep
  <2>1. CASE ScanStep \/ NextCore
    BY <2>1, ScanKeeps DEF StoppedByInterrupt, NextCore
  <2>2. CASE StopWaiting \/ EndScan \/ EndTransfer \/ EndPass
    BY <2>2 DEF StoppedByInterrupt, StopWaiting, EndScan, EndTransfer, EndPass
  <2>3. CASE TransferArrival \/ TransferPreempting
    BY <2>3, TransferKeeps DEF StoppedByInterrupt
  <2>4. CASE DispatchRoundRobin \/ DispatchBFS \/ DispatchPriority
    BY <2>4, DispatchKeeps DEF StoppedByInterrupt
  <2>. QED
    BY <1>1, <2>1, <2>2, <2>3, <2>4 DEF SchedulerStep
<1>2. CASE ClockStep \/ TimerStep \/ WakeOnTick \/ WakeOnTimer
  BY <1>2 DEF StoppedByInterrupt, ClockStep, ClockStops, Tick, TimerStep, TimerChecks, TimerCallback,
     SchedAfterSignal, WakeOnTick, WakeOnTimer, StartPass, schedVars
<1>3. CASE MainStep
  BY <1>3 DEF StoppedByInterrupt, MainStep, Interrupt, WakeEverybody, SchedAfterSignal, DestroyScheduler,
     StopClockAndTimers, CleanReadyQueue, schedVars
<1>4. CASE Halted \/ UNCHANGED vars
  BY <1>4 DEF StoppedByInterrupt, Halted, vars, schedVars
<1>. QED
  BY <1>1, <1>2, <1>3, <1>4 DEF Next

\* destroy_scheduler frees what the level queues hold.
LEMMA DestroyHeldByPriority ==
    ASSUME TypeOK, StoppedByInterrupt, HeldByPriority, DestroyScheduler
    PROVE  HeldByPriority'
<1>1. /\ UNCHANGED <<running, pcb, ready_queue, hw_threads, pcbs>> /\ ~running
      /\ destroyed' = destroyed \cup
            UNION {{priority_queues[v][i] : i \in DOMAIN priority_queues[v]} : v \in Levels}
      /\ priority_queues' = [v \in Levels |-> <<>>]
  BY DEF DestroyScheduler, StoppedByInterrupt, machineVars
<1>2. \A q \in Pcbs : q \in destroyed' => q \in destroyed \/ HeldAtLevel(priority_queues, q)
  <2>1. \A v \in Levels : DOMAIN priority_queues[v] = 1 .. Len(priority_queues[v])
    BY DEF TypeOK
  <2>. QED
    BY <1>1, <2>1 DEF HeldAtLevel, Holds
<1>3. \A v \in Levels : Distinct(priority_queues'[v]) /\ \A q : ~Holds(priority_queues'[v], q)
  BY <1>1 DEF Distinct, Holds
<1>4. \A q \in Pcbs : ~HeldAtLevel(priority_queues', q)
  BY <1>3 DEF HeldAtLevel
<1>5. LevelsOnce'
  BY <1>1, <1>3, <1>4 DEF HeldByPriority, LevelsOnce, Sorted
<1>6. \A q \in Pcbs : /\ Queued(q)' => Queued(q) /\ q \notin destroyed'
                      /\ q \in destroyed' => q \in destroyed \/ Queued(q)
  BY <1>1, <1>2, <1>4 DEF Queued, HeldByPriority, LevelsOnce, WaitsApart
<1>. QED
  BY <1>1, <1>5, <1>6, FreesHeldByPriority

\* cleanup_system frees what the ready queue holds.
LEMMA CleanHeldByPriority ==
    ASSUME TypeOK, StoppedByInterrupt, HeldByPriority, CleanReadyQueue
    PROVE  HeldByPriority'
<1>1. /\ UNCHANGED <<running, pcb, priority_queues, hw_threads, pcbs>> /\ ~running
      /\ destroyed' = destroyed \cup {ready_queue[i] : i \in DOMAIN ready_queue}
      /\ ready_queue' = <<>>
  BY DEF CleanReadyQueue, StoppedByInterrupt, machineVars
<1>2. \A q \in Pcbs : q \in destroyed' => q \in destroyed \/ Holds(ready_queue, q)
  <2>1. DOMAIN ready_queue = 1 .. Len(ready_queue)
    BY DEF TypeOK
  <2>. QED
    BY <1>1, <2>1 DEF Holds
<1>3. Distinct(ready_queue') /\ \A q : ~Holds(ready_queue', q)
  BY <1>1 DEF Distinct, Holds
<1>4. LevelsOnce'
  BY <1>1, <1>3 DEF HeldByPriority, LevelsOnce
<1>5. \A q \in Pcbs : /\ Queued(q)' => Queued(q) /\ q \notin destroyed'
                      /\ q \in destroyed' => q \in destroyed \/ Queued(q)
  BY <1>1, <1>2, <1>3 DEF Queued, HeldByPriority, LevelsOnce, WaitsApart
<1>. QED
  BY <1>1, <1>4, <1>5, FreesHeldByPriority

\* The invariant is inductive under PRIO.
LEMMA NextHeldByPriority ==
    Policy = "PRIO" /\ TypeOK /\ StoppedByInterrupt /\ HeldByPriority /\ [Next]_vars => HeldByPriority'
<1>. SUFFICES ASSUME Policy = "PRIO", TypeOK, StoppedByInterrupt, HeldByPriority, [Next]_vars
              PROVE  HeldByPriority'
  OBVIOUS
<1>0. ASSUME UNCHANGED <<pcb, ready_queue, priority_queues, hw_threads, pcbs, destroyed>>,
             Overhang => (running' => running /\ sched' \in {"transfer", "dispatch"})
      PROVE  HeldByPriority'
  <2>1. SameNames
    BY <1>0 DEF SameNames
  <2>. QED
    BY <1>0, <2>1, StillHeldByPriority
<1>1. CASE ScanStep
  <2>1. PICK c \in Cores, k \in Slots, p \in Pcbs :
           CompleteProcess(c, k, p) \/ ExpireQuantum(c, k, p) \/ KeepExecuting(c, k, p)
    BY <1>1 DEF ScanStep
  <2>2. CASE KeepExecuting(c, k, p)
    <3>1. /\ UNCHANGED <<ready_queue, priority_queues, hw_threads, pcbs, destroyed>>
          /\ ~Overhang
      BY <2>2 DEF KeepExecuting, Visits, queueVars, machineVars, countVars, Overhang
    <3>2. SameNames
      BY <2>2, NamesStay
    <3>. QED
      BY <3>1, <3>2, StillHeldByPriority
  <2>. QED
    BY <2>1, <2>2, CompleteHeldByPriority, ExpireHeldByPriority
<1>2. CASE Tick
  <2>1. /\ UNCHANGED <<running, ready_queue, priority_queues, pcbs, destroyed, sched>>
    BY <1>2 DEF Tick, queueVars, countVars, schedVars
  <2>2. SameNames
    BY <1>2, TickNames
  <2>3. \A c \in Cores, k \in Slots : hw_threads'[c][k].pcb = hw_threads[c][k].pcb
    BY <1>2, TickStays
  <2>4. Overhang => (running => sched \in {"transfer", "dispatch"})
    BY DEF Overhang
  <2>. QED
    BY <2>1, <2>2, <2>3, <2>4, StillHeldByPriority
<1>3. CASE DispatchRoundRobin \/ DispatchBFS \/ DispatchPriority
  BY <1>3, DispatchHeldByPriority DEF DispatchRoundRobin, DispatchBFS
<1>4. CASE DestroyScheduler \/ CleanReadyQueue
  BY <1>4, DestroyHeldByPriority, CleanHeldByPriority
<1>5. CASE TransferArrival \/ TransferPreempting
  BY <1>5, TransferHeldByPriority, PreemptHeldByPriority
<1>6. CASE WakeOnTick \/ WakeOnTimer \/ NextCore \/ StopWaiting \/ EndScan \/ EndTransfer
  BY <1>6, <1>0 DEF WakeOnTick, WakeOnTimer, NextCore, StopWaiting, EndScan,
     EndTransfer, queueVars, machineVars, countVars, Overhang
<1>7. CASE EndPass
  <2>1. Overhang => can_cpu_execute_process /\ (running => has_ready_processes)
    <3>. SUFFICES ASSUME Overhang PROVE can_cpu_execute_process /\ (running => has_ready_processes)
      OBVIOUS
    <3>1. PICK d \in Cores : Len(pcbs[d]) = NumThreads - 1
      BY DEF Overhang
    <3>2. d \in RoomyCores
      BY <3>1, SizeAssumption DEF RoomyCores, current_pcb_count
    <3>. QED
      BY <3>2 DEF can_cpu_execute_process, has_ready_processes, Overhang
  <2>. QED
    BY <1>7, <2>1, <1>0 DEF EndPass, CanDispatch, queueVars, machineVars, countVars
<1>8. CASE ClockStops \/ TimerChecks \/ TimerCallback
  BY <1>8, <1>0 DEF ClockStops, TimerChecks, TimerCallback, SchedAfterSignal, queueVars, machineVars,
     countVars, schedVars, Overhang
<1>9. CASE Interrupt \/ WakeEverybody \/ StopClockAndTimers
  BY <1>9, <1>0 DEF Interrupt, WakeEverybody, SchedAfterSignal, StopClockAndTimers, queueVars,
     machineVars, countVars, schedVars, Overhang
<1>10. CASE Halted \/ UNCHANGED vars
  BY <1>10, <1>0 DEF Halted, vars, queueVars, machineVars, countVars, schedVars, Overhang
<1>. QED
  BY <1>1, <1>2, <1>3, <1>4, <1>5, <1>6, <1>7, <1>8, <1>9, <1>10
     DEF Next, ClockStep, TimerStep, SchedulerStep, MainStep

\* So it holds in every run.
LEMMA HeldByPriorityAlways ==
    ASSUME Policy = "PRIO" PROVE Spec => [](TypeOK /\ StoppedByInterrupt /\ HeldByPriority)
<1>1. Init => TypeOK /\ StoppedByInterrupt /\ HeldByPriority
  BY InitType, InitHeldByPriority DEF Init, StoppedByInterrupt
<1>2. TypeOK /\ StoppedByInterrupt /\ HeldByPriority /\ [Next]_vars
        => (TypeOK /\ StoppedByInterrupt /\ HeldByPriority)'
  BY NextType, NextStopped, NextHeldByPriority
<1>. QED
  BY <1>1, <1>2, PTL DEF Spec

----------------------------------------------------------------------------
(* The most urgent process executes.                                       *)

\* What a dispatch does to the core that it chooses.
LEMMA DispatchEffect ==
    ASSUME TypeOK, can_cpu_execute_process, NEW p \in Pcbs, Dispatches(p)
    PROVE  /\ SameNames
           /\ \E c \in Cores :
                 /\ Len(pcbs[c]) \in Nat /\ Len(pcbs[c]) < NumThreads
                 /\ Len(pcbs'[c]) = Len(pcbs[c]) + 1
                 /\ pcbs'[c][Len(pcbs[c]) + 1].priority = pcb[p].priority
                 /\ \A d \in Cores : d # c => pcbs'[d] = pcbs[d]
                 /\ \A d \in Cores, k \in Slots :
                       hw_threads'[d][k].pcb = IF d = c /\ k = Len(pcbs[c]) + 1
                                               THEN p ELSE hw_threads[d][k].pcb
<1>1. /\ hw_threads \in Rows /\ pcbs \in [Cores -> Seq(PcbType)] /\ pcb \in [Pcbs -> PcbType]
      /\ NumThreads \in Nat /\ Slots = 1 .. NumThreads
  BY TypeFacts, SizeAssumption DEF Slots
<1>2. PICK c \in Cores : c = FirstRoom /\ Len(pcbs[c]) < NumThreads /\ Len(pcbs[c]) \in Nat
  BY <1>1, FirstRoomIsRoomy, LenProperties DEF RoomyCores, current_pcb_count
<1>3. Started(p) \in PcbType /\ Started(p).priority = pcb[p].priority /\ Started(p).pid = pcb[p].pid
  <2>1. pcb[p] \in PcbType /\ Deadline(p) \in Int
    BY <1>1, DeadlineType
  <2>. QED
    BY <2>1 DEF Started, PcbType
<1>4. SameNames
  BY <1>3, KeepsNames DEF Dispatches
<1>5. PICK m : m = Len(pcbs[c]) + 1
  OBVIOUS
<1>6. /\ pcbs' = [pcbs EXCEPT ![c] = Append(@, Started(p))]
      /\ hw_threads' = [hw_threads EXCEPT ![c] = [@ EXCEPT ![m] = [pcb |-> p, PC |-> Started(p).pc]]]
  BY <1>2, <1>5 DEF Dispatches, AssignToCore, current_pcb_count
<1>7. m \in Slots
  BY <1>1, <1>2, <1>5
<1>8. \A d \in Cores, k \in Slots :
         hw_threads'[d][k].pcb = IF d = c /\ k = m THEN p ELSE hw_threads[d][k].pcb
  BY <1>1, <1>6, <1>7 DEF Rows
<1>9. /\ pcbs'[c] = Append(pcbs[c], Started(p)) /\ \A d \in Cores : d # c => pcbs'[d] = pcbs[d]
  BY <1>1, <1>6
<1>10. Len(pcbs'[c]) = Len(pcbs[c]) + 1 /\ pcbs'[c][Len(pcbs[c]) + 1] = Started(p)
  BY <1>1, <1>3, <1>9, AppendProperties
<1>. QED
  BY <1>2, <1>3, <1>4, <1>5, <1>8, <1>9, <1>10

LastOf(c) == hw_threads[c][NumThreads].pcb

\* The last copy of a full core, unlike those before it, was made of the
\* process that the thread at its side still holds.
LastCopied ==
    \A c \in Cores : Len(pcbs[c]) = NumThreads =>
        pcbs[c][NumThreads].priority = pcb[LastOf(c)].priority

Outranks(c) ==
    /\ Len(pcbs[c]) = NumThreads
    /\ \A v \in ReadyLevels : pcb[LastOf(c)].priority <= v

\* The last process of some core is no less urgent than all that wait, or a
\* pass is going on that has room for one that is.
UrgentServed ==
    running => \/ ReadyLevels = {} \/ \E c \in Cores : Outranks(c)
               \/ can_cpu_execute_process /\ ~MutexFree

Urgent == LastCopied /\ UrgentServed

\* The last thread of a full core is loaded, also after a preemption elsewhere.
LEMMA LastIsLoaded ==
    ASSUME TypeOK, HeldByPriority, NEW c \in Cores, Len(pcbs[c]) = NumThreads
    PROVE  LastOf(c) \in Pcbs /\ On(hw_threads, LastOf(c))
<1>1. NumThreads \in Slots /\ Counts[c] = NumThreads /\ hw_threads \in Rows
  BY SizeAssumption, TypeFacts DEF Slots
<1>2. LastOf(c) # NoPcb
  BY <1>1 DEF LastOf, HeldByPriority, RowsOnce, PrefixLoaded, Overhang, AllLoaded
<1>3. LastOf(c) \in Pcbs
  BY <1>1, <1>2 DEF LastOf, Rows, ThreadType
<1>. QED
  BY <1>1, <1>3 DEF On, LastOf

\* A step that moves no process keeps it, if a pass with room goes on.
LEMMA StillUrgent ==
    ASSUME TypeOK, HeldByPriority, Urgent, SameNames, UNCHANGED <<priority_queues, pcbs>>,
           \A c \in Cores, k \in Slots : hw_threads'[c][k].pcb = hw_threads[c][k].pcb,
           running' => running,
           running' /\ ~MutexFree /\ can_cpu_execute_process /\ ReadyLevels # {} => ~MutexFree'
    PROVE  Urgent'
<1>1. ASSUME NEW c \in Cores, Len(pcbs[c]) = NumThreads
      PROVE  LastOf(c)' = LastOf(c) /\ pcb'[LastOf(c)].priority = pcb[LastOf(c)].priority
  <2>1. NumThreads \in Slots
    BY SizeAssumption DEF Slots
  <2>2. LastOf(c)' = LastOf(c)
    BY <2>1 DEF LastOf
  <2>. QED
    BY <2>2, <1>1, LastIsLoaded DEF SameNames
<1>2. ReadyLevels' = ReadyLevels /\ can_cpu_execute_process' = can_cpu_execute_process
  BY DEF ReadyLevels, can_cpu_execute_process, RoomyCores, current_pcb_count
<1>3. LastCopied'
  BY <1>1 DEF Urgent, LastCopied
<1>4. \A c \in Cores : Outranks(c) => Outranks(c)'
  BY <1>1, <1>2 DEF Outranks
<1>5. UrgentServed'
  BY <1>2, <1>4 DEF Urgent, UrgentServed
<1>. QED
  BY <1>3, <1>5 DEF Urgent

\* A removal of a copy makes room, in a pass that goes on.
LEMMA RoomIsUrgent ==
    ASSUME TypeOK, HeldByPriority, Urgent, NEW c \in Cores, NEW k \in 1 .. Len(pcbs[c]),
           pcbs' = [pcbs EXCEPT ![c] = DropAt(@, k)],
           \A d \in Cores : d # c => hw_threads'[d] = hw_threads[d],
           \A d \in Cores : Len(pcbs[d]) = NumThreads =>
              pcb'[LastOf(d)].priority = pcb[LastOf(d)].priority,
           ~MutexFree'
    PROVE  Urgent'
<1>1. /\ \A d \in Cores : d # c => pcbs'[d] = pcbs[d]
      /\ Len(pcbs'[c]) = Len(pcbs[c]) - 1 /\ Len(pcbs[c]) \in Nat /\ Len(pcbs[c]) <= NumThreads
      /\ NumThreads \in Nat
  BY DropKeepsPids, LenProperties, SizeAssumption DEF TypeOK
<1>2. can_cpu_execute_process'
  <2>1. c \in RoomyCores'
    BY <1>1 DEF RoomyCores, current_pcb_count
  <2>. QED
    BY <2>1 DEF can_cpu_execute_process
<1>3. LastCopied'
  BY <1>1 DEF Urgent, LastCopied, LastOf
<1>. QED
  BY <1>2, <1>3 DEF Urgent, UrgentServed

\* A completion or an expiry makes room.
LEMMA RemovalUrgent ==
    ASSUME TypeOK, HeldByPriority, Urgent, NEW c \in Cores, NEW k \in Slots, NEW p \in Pcbs,
           CompleteProcess(c, k, p) \/ ExpireQuantum(c, k, p), SameNames
    PROVE  Urgent'
<1>1. /\ k \in 1 .. Len(pcbs[c]) /\ RemoveFromCore(c, k) /\ sched' = "scan"
  BY DEF CompleteProcess, ExpireQuantum, Visits, current_pcb_count
<1>2. \A d \in Cores : d # c => hw_threads'[d] = hw_threads[d]
  BY <1>1 DEF RemoveFromCore, TypeOK
<1>3. \A d \in Cores : Len(pcbs[d]) = NumThreads =>
         pcb'[LastOf(d)].priority = pcb[LastOf(d)].priority
  BY LastIsLoaded DEF SameNames
<1>. QED
  BY <1>1, <1>2, <1>3, RoomIsUrgent DEF RemoveFromCore, MutexFree

\* An arrival at a full machine preempts if it outranks the last process of a core.
LEMMA ArrivalUrgent ==
    ASSUME TypeOK, HeldByPriority, Urgent, TransferArrival
    PROVE  Urgent'
<1>1. PICK p \in Pcbs : /\ Transfers(p) /\ ~MustPreempt(p) /\ Arrives(p, priority_queues)
                        /\ UNCHANGED <<running, pcb, hw_threads, pcbs>>
  BY DEF TransferArrival, machineVars
<1>2. /\ pcb[p].priority \in Levels /\ Gains(priority_queues', priority_queues, pcb[p].priority, p)
  <2>1. /\ ready_queue \in Seq(Pcbs) /\ ready_queue # <<>> /\ p = Head(ready_queue)
        /\ priority_queues \in [Levels -> Seq(Pcbs)]
    BY <1>1 DEF TypeOK, Transfers
  <2>2. /\ Distinct(ready_queue) /\ Sorted(priority_queues, pcb)
        /\ \A q \in Pcbs : Holds(ready_queue, q) =>
              ~HeldAtLevel(priority_queues, q) /\ pcb[q].priority \in Levels
    BY DEF HeldByPriority, LevelsOnce
  <2>3. Holds(ready_queue, p)
    BY <2>1, <2>2, TailHolds
  <2>. QED
    BY <2>1, <2>2, <2>3, <1>1, ArrivesSorted
<1>3. \A v \in ReadyLevels' : v \in ReadyLevels \/ v = pcb[p].priority
  BY <1>2 DEF ReadyLevels, Gains
<1>4. LastCopied'
  BY <1>1 DEF Urgent, LastCopied, LastOf
<1>5. can_cpu_execute_process' = can_cpu_execute_process /\ ~MutexFree' /\ ~MutexFree
  BY <1>1, TransferKeeps DEF can_cpu_execute_process, RoomyCores, current_pcb_count, MutexFree
<1>6. CASE ~can_cpu_execute_process
  <2>1. \A c \in Cores : Len(pcbs[c]) = NumThreads
    BY <1>6, FullIsLoaded
  <2>2. NumThreads \in Slots /\ NumThreads <= NumThreads
    BY SizeAssumption DEF Slots
  <2>3. \A c \in Cores : <<c, NumThreads>> \in Copies
    BY <2>1, <2>2 DEF Copies, current_pcb_count
  <2>4. 1 \in Cores
    BY SizeAssumption DEF Cores
  <2>5. PICK least : least = pcbs[Victim[1]][Victim[2]].priority
    OBVIOUS
  <2>6. ASSUME NEW c \in Cores
        PROVE  /\ pcb[LastOf(c)].priority <= least
               /\ pcb[LastOf(c)].priority \in Int
    <3>1. Victim \in Lowest
      BY <2>3, <2>4, VictimIsACopy
    <3>2. pcbs[c][NumThreads].priority <= least
      BY <3>1, <2>3, <2>5 DEF Lowest
    <3>3. LastOf(c) \in Pcbs
      BY <2>1, LastIsLoaded
    <3>4. pcb[LastOf(c)].priority \in Int
      BY <3>3, PriorityType DEF TypeOK, PcbType
    <3>. QED
      BY <3>2, <3>4, <2>1 DEF Urgent, LastCopied
  <2>7. least \in Int /\ pcb[p].priority \in Int
    <3>1. Victim \in Copies
      BY <2>3, <2>4, VictimIsACopy
    <3>2. Victim \in Cores \X Slots /\ Victim[2] <= Len(pcbs[Victim[1]])
      BY <3>1 DEF Copies, current_pcb_count
    <3>3. Victim[1] \in Cores /\ Victim[2] \in 1 .. NumThreads
      BY <3>2 DEF Slots
    <3>4. pcbs[Victim[1]] \in Seq(PcbType)
      BY <3>3 DEF TypeOK
    <3>5. pcbs[Victim[1]][Victim[2]] \in PcbType
      BY <3>2, <3>3, <3>4, LenProperties, ElementOfSeq, SizeAssumption
    <3>6. pcb[p] \in PcbType
      BY DEF TypeOK
    <3>7. least \in MIN_PRIORITY .. MAX_PRIORITY /\ pcb[p].priority \in MIN_PRIORITY .. MAX_PRIORITY
      BY <3>5, <3>6, <2>5 DEF PcbType
    <3>. QED
      BY <3>7, PriorityType
  <2>8. least <= pcb[p].priority
    <3>1. Copies # {}
      BY <2>3, <2>4
    <3>2. ~(pcb[p].priority < least)
      BY <3>1, <1>1, <1>6, <2>5 DEF MustPreempt
    <3>. QED
      BY <3>2, <2>7
  <2>9. \A c \in Cores : pcb[LastOf(c)].priority <= pcb[p].priority
    BY <2>6, <2>7, <2>8
  <2>10. \E c \in Cores : \A v \in ReadyLevels : pcb[LastOf(c)].priority <= v
    BY <1>1, <1>6, <2>4 DEF Urgent, UrgentServed, Outranks, Transfers
  <2>11. \E c \in Cores : Outranks(c)'
    <3>1. PICK c \in Cores : \A v \in ReadyLevels : pcb[LastOf(c)].priority <= v
      BY <2>10
    <3>2. \A v \in ReadyLevels' : pcb[LastOf(c)].priority <= v
      BY <3>1, <1>3, <2>9
    <3>3. LastOf(c)' = LastOf(c) /\ Len(pcbs'[c]) = NumThreads
      BY <1>1, <2>1 DEF LastOf
    <3>. QED
      BY <3>2, <3>3, <1>1 DEF Outranks
  <2>. QED
    BY <1>4, <2>11 DEF Urgent, UrgentServed
<1>7. CASE can_cpu_execute_process
  BY <1>4, <1>5, <1>7 DEF Urgent, UrgentServed
<1>. QED
  BY <1>6, <1>7

\* A preemption makes the room into which the dispatch of the same pass puts
\* the most urgent process.
LEMMA PreemptUrgent ==
    ASSUME TypeOK, HeldByPriority, Urgent, TransferPreempting
    PROVE  Urgent'
<1>. DEFINE c == Victim[1]
            k == Victim[2]
<1>1. PICK p \in Pcbs, f \in FreshClones :
         /\ Transfers(p) /\ MustPreempt(p)
         /\ pcb' = [pcb EXCEPT ![f] = CloneOf(pcbs[c][k])]
         /\ pcbs' = [pcbs EXCEPT ![c] = DropAt(@, k)]
         /\ UNCHANGED <<running, hw_threads>>
  BY DEF TransferPreempting
<1>2. c \in Cores /\ k \in 1 .. Len(pcbs[c])
  <2>1. Victim \in Copies
    BY <1>1, VictimIsACopy DEF MustPreempt
  <2>2. Victim \in Cores \X Slots /\ k <= Len(pcbs[c])
    BY <2>1 DEF Copies, current_pcb_count
  <2>3. c \in Cores /\ k \in 1 .. NumThreads
    BY <2>2 DEF Slots
  <2>4. pcbs[c] \in Seq(PcbType)
    BY <2>3 DEF TypeOK
  <2>. QED
    BY <2>2, <2>3, <2>4, LenProperties, SizeAssumption
<1>3. f \in Pcbs /\ ~On(hw_threads, f)
  <2>1. f \in Clones /\ f \in Pcbs /\ pcb[f].pid \notin Programs
    BY <1>1, PcbAssumption DEF FreshClones, Pcbs
  <2>. QED
    BY <2>1 DEF HeldByPriority, PidsGiven
<1>4. \A d \in Cores : Len(pcbs[d]) = NumThreads =>
         pcb'[LastOf(d)].priority = pcb[LastOf(d)].priority
  <2>. SUFFICES ASSUME NEW d \in Cores, Len(pcbs[d]) = NumThreads
                PROVE  pcb'[LastOf(d)].priority = pcb[LastOf(d)].priority
    OBVIOUS
  <2>1. LastOf(d) \in Pcbs /\ LastOf(d) # f
    BY <1>3, LastIsLoaded
  <2>. QED
    BY <2>1, <1>1 DEF TypeOK
<1>5. ~MutexFree'
  BY TransferKeeps DEF MutexFree
<1>6. \A d \in Cores : d # c => hw_threads'[d] = hw_threads[d]
  BY <1>1
<1>. HIDE DEF c, k
<1>. QED
  BY <1>1, <1>2, <1>4, <1>5, <1>6, RoomIsUrgent

\* A dispatch takes a process of the top level.
LEMMA DispatchUrgent ==
    ASSUME TypeOK, HeldByPriority, Urgent, DispatchPriority
    PROVE  Urgent'
<1>1. PICK v \in Levels : /\ v = TopLevel /\ priority_queues[v] # <<>>
                          /\ priority_queues[v] \in Seq(Pcbs)
                          /\ \A w \in ReadyLevels : v <= w
  BY TopLevelIsReady DEF DispatchPriority, CanDispatch, has_ready_processes, ReadyLevels, TypeOK
<1>2. PICK p : p = Head(priority_queues[v])
  OBVIOUS
<1>3. /\ priority_queues' = [priority_queues EXCEPT ![v] = Tail(@)]
      /\ can_cpu_execute_process /\ Dispatches(p) /\ ~MutexFree'
  BY <1>1, <1>2 DEF DispatchPriority, CanDispatch, Dispatches, schedVars, MutexFree
<1>4. p \in Pcbs /\ pcb[p].priority = v /\ ~On(hw_threads, p)
  <2>1. p \in Pcbs /\ Holds(priority_queues[v], p)
    BY <1>1, <1>2, TailHolds DEF HeldByPriority, LevelsOnce, Sorted
  <2>. QED
    BY <2>1 DEF HeldByPriority, LevelsOnce, Sorted, WaitsApart, Queued, HeldAtLevel
<1>5. \A w \in ReadyLevels' : w \in ReadyLevels
  BY <1>1, <1>3 DEF ReadyLevels, TypeOK
<1>6. SameNames
  BY <1>3, <1>4, DispatchEffect
<1>7. PICK c \in Cores :
         /\ Len(pcbs[c]) \in Nat /\ Len(pcbs[c]) < NumThreads
         /\ Len(pcbs'[c]) = Len(pcbs[c]) + 1
         /\ pcbs'[c][Len(pcbs[c]) + 1].priority = pcb[p].priority
         /\ \A d \in Cores : d # c => pcbs'[d] = pcbs[d]
         /\ \A d \in Cores, k \in Slots :
               hw_threads'[d][k].pcb = IF d = c /\ k = Len(pcbs[c]) + 1
                                       THEN p ELSE hw_threads[d][k].pcb
  BY <1>3, <1>4, DispatchEffect
<1>8. NumThreads \in Slots /\ NumThreads \in Nat
  BY SizeAssumption DEF Slots
<1>9. \A d \in Cores : d # c => LastOf(d)' = LastOf(d) /\ Len(pcbs'[d]) = Len(pcbs[d])
  BY <1>7, <1>8 DEF LastOf
<1>10. Len(pcbs'[c]) = NumThreads => LastOf(c)' = p
  BY <1>7, <1>8 DEF LastOf
<1>11. LastCopied'
  <2>. SUFFICES ASSUME NEW d \in Cores, Len(pcbs'[d]) = NumThreads
                PROVE  pcbs'[d][NumThreads].priority = pcb'[LastOf(d)'].priority
    BY DEF LastCopied
  <2>1. CASE d # c
    <3>1. LastOf(d) \in Pcbs /\ LastOf(d)' = LastOf(d) /\ Len(pcbs[d]) = NumThreads
      BY <2>1, <1>9, LastIsLoaded
    <3>. QED
      BY <2>1, <3>1, <1>6, <1>7 DEF Urgent, LastCopied, SameNames
  <2>2. CASE d = c
    BY <2>2, <1>4, <1>6, <1>7, <1>10 DEF SameNames
  <2>. QED
    BY <2>1, <2>2
<1>12. UrgentServed'
  <2>1. CASE Len(pcbs'[c]) = NumThreads
    <3>1. LastOf(c)' = p /\ pcb'[p].priority = v
      BY <2>1, <1>4, <1>6, <1>10 DEF SameNames
    <3>2. Outranks(c)'
      BY <2>1, <3>1, <1>1, <1>5 DEF Outranks
    <3>. QED
      BY <3>2 DEF UrgentServed
  <2>2. CASE Len(pcbs'[c]) # NumThreads
    <3>1. c \in RoomyCores'
      BY <2>2, <1>7, <1>8 DEF RoomyCores, current_pcb_count
    <3>. QED
      BY <3>1, <1>3 DEF UrgentServed, can_cpu_execute_process
  <2>. QED
    BY <2>1, <2>2
<1>. QED
  BY <1>11, <1>12 DEF Urgent

\* Initially nothing waits at a level.
LEMMA InitUrgent == Init => Urgent
<1>. SUFFICES ASSUME Init PROVE Urgent
  OBVIOUS
<1>1. \A c \in Cores : Len(pcbs[c]) # NumThreads
  BY SizeAssumption DEF Init
<1>2. ReadyLevels = {}
  BY DEF Init, ReadyLevels
<1>. QED
  BY <1>1, <1>2 DEF Urgent, LastCopied, UrgentServed

\* It is inductive under PRIO.
LEMMA NextUrgent ==
    Policy = "PRIO" /\ TypeOK /\ StoppedByInterrupt /\ HeldByPriority /\ Urgent /\ [Next]_vars => Urgent'
<1>. SUFFICES ASSUME Policy = "PRIO", TypeOK, StoppedByInterrupt, HeldByPriority, Urgent, [Next]_vars
              PROVE  Urgent'
  OBVIOUS
<1>0. ASSUME UNCHANGED <<pcb, priority_queues, hw_threads, pcbs>>, running' => running,
             running' /\ ~MutexFree /\ can_cpu_execute_process /\ ReadyLevels # {} => ~MutexFree'
      PROVE  Urgent'
  <2>1. SameNames
    BY <1>0 DEF SameNames
  <2>. QED
    BY <1>0, <2>1, StillUrgent
<1>1. CASE ScanStep
  <2>1. PICK c \in Cores, k \in Slots, p \in Pcbs :
           CompleteProcess(c, k, p) \/ ExpireQuantum(c, k, p) \/ KeepExecuting(c, k, p)
    BY <1>1 DEF ScanStep
  <2>2. SameNames
    BY <2>1, NamesStay
  <2>3. CASE KeepExecuting(c, k, p)
    <3>1. UNCHANGED <<running, sched, priority_queues, hw_threads, pcbs>>
      BY <2>3 DEF KeepExecuting, queueVars, machineVars
    <3>. QED
      BY <3>1, <2>2, StillUrgent DEF MutexFree
  <2>. QED
    BY <2>1, <2>2, <2>3, RemovalUrgent
<1>2. CASE Tick
  <2>1. UNCHANGED <<running, sched, priority_queues, pcbs>>
    BY <1>2 DEF Tick, queueVars, schedVars
  <2>. QED
    BY <2>1, <1>2, TickNames, TickStays, StillUrgent DEF MutexFree
<1>3. CASE DispatchRoundRobin \/ DispatchBFS \/ DispatchPriority
  BY <1>3, DispatchUrgent DEF DispatchRoundRobin, DispatchBFS
<1>4. CASE DestroyScheduler
  <2>1. /\ UNCHANGED <<running, pcb, hw_threads, pcbs>> /\ ~running
    BY <1>4 DEF DestroyScheduler, StoppedByInterrupt, machineVars
  <2>. QED
    BY <2>1 DEF Urgent, LastCopied, LastOf, UrgentServed
<1>5. CASE TransferArrival \/ TransferPreempting
  BY <1>5, ArrivalUrgent, PreemptUrgent
<1>6. CASE WakeOnTick \/ WakeOnTimer \/ NextCore \/ StopWaiting \/ EndScan \/ EndTransfer
  BY <1>6, <1>0 DEF WakeOnTick, WakeOnTimer, NextCore, StopWaiting, EndScan, StartPass,
     EndTransfer, queueVars, machineVars, MutexFree
<1>7. CASE EndPass
  BY <1>7, <1>0 DEF EndPass, CanDispatch, has_ready_processes, queueVars, machineVars
<1>8. CASE ClockStops \/ TimerChecks \/ TimerCallback
  BY <1>8, <1>0 DEF ClockStops, TimerChecks, TimerCallback, SchedAfterSignal, queueVars, machineVars,
     schedVars, MutexFree
<1>9. CASE Interrupt \/ WakeEverybody \/ StopClockAndTimers \/ CleanReadyQueue
  BY <1>9, <1>0 DEF Interrupt, WakeEverybody, SchedAfterSignal, StopClockAndTimers, CleanReadyQueue,
     queueVars, machineVars, schedVars, MutexFree
<1>10. CASE Halted \/ UNCHANGED vars
  BY <1>10, <1>0 DEF Halted, vars, queueVars, machineVars, schedVars, MutexFree
<1>. QED
  BY <1>1, <1>2, <1>3, <1>4, <1>5, <1>6, <1>7, <1>8, <1>9, <1>10
     DEF Next, ClockStep, TimerStep, SchedulerStep, MainStep

\* Under PRIO some process executes between two passes that nothing queued at a
\* level outranks, on every machine and for every timing: the stale copies that
\* a preemption reads never hide that the last process of each core may be preempted.
THEOREM UrgentExecutes == Spec => []MostUrgentExecutes
<1>1. CASE Policy = "PRIO"
  <2>1. TypeOK /\ HeldByPriority /\ Urgent => MostUrgentExecutes
    <3>. SUFFICES ASSUME TypeOK, HeldByPriority, Urgent, MutexFree, running, ReadyLevels # {}
                  PROVE  \E c \in Cores, k \in Slots :
                            /\ hw_threads[c][k].pcb # NoPcb
                            /\ \A v \in ReadyLevels : pcb[hw_threads[c][k].pcb].priority <= v
      BY DEF MostUrgentExecutes
    <3>1. PICK c \in Cores : Outranks(c)
      BY DEF Urgent, UrgentServed
    <3>2. NumThreads \in Slots /\ LastOf(c) \in Pcbs
      BY <3>1, LastIsLoaded, SizeAssumption DEF Outranks, Slots
    <3>. QED
      BY <3>1, <3>2, PcbAssumption DEF Outranks, LastOf
  <2>2. Init => Urgent
    BY InitUrgent
  <2>3. TypeOK /\ StoppedByInterrupt /\ HeldByPriority /\ Urgent /\ [Next]_vars => Urgent'
    BY <1>1, NextUrgent
  <2>4. Spec => [](TypeOK /\ StoppedByInterrupt /\ HeldByPriority)
    BY <1>1, HeldByPriorityAlways
  <2>. QED
    BY <2>1, <2>2, <2>3, <2>4, PTL DEF Spec
<1>2. CASE Policy # "PRIO"
  <2>1. MostUrgentExecutes
    BY <1>2 DEF MostUrgentExecutes
  <2>. QED
    BY <2>1, PTL
<1>. QED
  BY <1>1, <1>2

\* On a machine of one hardware thread nothing queued at a level ever outranks
\* the process that executes.
THEOREM PriorityKept ==
    ASSUME NumCores = 1, NumThreads = 1 PROVE Spec => []PriorityRespected
<1>1. MostUrgentExecutes => PriorityRespected
  <2>1. Cores = {1} /\ Slots = {1}
    BY DEF Cores, Slots
  <2>. QED
    BY <2>1 DEF MostUrgentExecutes, PriorityRespected
<1>. QED
  BY <1>1, UrgentExecutes, PTL

----------------------------------------------------------------------------
(* Arrivals sent back are not left beside an idle thread.                  *)

FreeSlots(copies) == {h \in Cores \X Slots : h[2] > Len(copies[h[1]])}

\* While arrivals wait behind a full level, it can fill the machine.
FullBehind ==
    Policy = "PRIO" /\ running /\ sched = "dispatch" /\ ready_queue # <<>>
      /\ NumCores * NumThreads <= LevelCapacity =>
        \E v \in Levels : Len(priority_queues[v]) >= Cardinality(FreeSlots(pcbs))

\* There are no more free places than the machine has threads.
LEMMA FreeSlotsCount ==
    ASSUME NEW copies
    PROVE  /\ IsFiniteSet(FreeSlots(copies)) /\ Cardinality(FreeSlots(copies)) \in Nat
           /\ Cardinality(FreeSlots(copies)) <= NumCores * NumThreads
<1>1. /\ IsFiniteSet(Cores) /\ Cardinality(Cores) = NumCores
      /\ IsFiniteSet(Slots) /\ Cardinality(Slots) = NumThreads
  BY FS_Interval, SizeAssumption DEF Cores, Slots
<1>2. /\ IsFiniteSet(Cores \X Slots)
      /\ Cardinality(Cores \X Slots) = NumCores * NumThreads
  BY <1>1, FS_Product
<1>3. FreeSlots(copies) \subseteq Cores \X Slots
  BY DEF FreeSlots
<1>. QED
  BY <1>2, <1>3, FS_Subset, FS_CardinalityType

\* A dispatch takes one process out of one level, and one free place.
LEMMA DispatchFullBehind ==
    ASSUME TypeOK, HeldByPriority, FullBehind, DispatchPriority
    PROVE  FullBehind'
<1>1. PICK v \in Levels : /\ v = TopLevel /\ priority_queues[v] # <<>>
                          /\ priority_queues[v] \in Seq(Pcbs)
  BY TopLevelIsReady DEF DispatchPriority, CanDispatch, has_ready_processes, ReadyLevels, TypeOK
<1>2. PICK p : p = Head(priority_queues[v])
  OBVIOUS
<1>3. /\ priority_queues' = [priority_queues EXCEPT ![v] = Tail(@)]
      /\ can_cpu_execute_process /\ Dispatches(p)
      /\ UNCHANGED <<ready_queue, running, sched>>
  BY <1>1, <1>2 DEF DispatchPriority, CanDispatch, Dispatches, schedVars
<1>4. p \in Pcbs /\ Len(Tail(priority_queues[v])) = Len(priority_queues[v]) - 1
  BY <1>1, <1>2, TailHolds DEF HeldByPriority, LevelsOnce, Sorted
<1>5. PICK c \in Cores :
         /\ Len(pcbs[c]) \in Nat /\ Len(pcbs[c]) < NumThreads
         /\ Len(pcbs'[c]) = Len(pcbs[c]) + 1
         /\ \A d \in Cores : d # c => pcbs'[d] = pcbs[d]
  BY <1>3, <1>4, DispatchEffect
<1>6. PICK h : h = <<c, Len(pcbs[c]) + 1>>
  OBVIOUS
<1>7. h \in FreeSlots(pcbs) /\ FreeSlots(pcbs') = FreeSlots(pcbs) \ {h}
  <2>1. Slots = 1 .. NumThreads /\ NumThreads \in Nat
    BY SizeAssumption DEF Slots
  <2>2. h \in FreeSlots(pcbs)
    BY <2>1, <1>5, <1>6 DEF FreeSlots
  <2>3. ASSUME NEW d \in Cores, NEW k \in Slots
        PROVE  k > Len(pcbs'[d]) <=> k > Len(pcbs[d]) /\ <<d, k>> # h
    <3>1. CASE d # c
      BY <3>1, <1>5, <1>6
    <3>2. CASE d = c
      BY <3>2, <2>1, <1>5, <1>6
    <3>. QED
      BY <3>1, <3>2
  <2>4. FreeSlots(pcbs') = FreeSlots(pcbs) \ {h}
    BY <2>3 DEF FreeSlots
  <2>. QED
    BY <2>2, <2>4
<1>8. Cardinality(FreeSlots(pcbs')) = Cardinality(FreeSlots(pcbs)) - 1 /\ Cardinality(FreeSlots(pcbs)) \in Nat
  BY <1>7, FreeSlotsCount, FS_RemoveElement
<1>9. ASSUME NEW w \in Levels
      PROVE  Len(priority_queues'[w]) >= Len(priority_queues[w]) - 1
  <2>1. priority_queues[w] \in Seq(Pcbs) /\ Len(priority_queues[w]) \in Nat
    BY LenProperties DEF TypeOK
  <2>2. priority_queues'[w] = IF w = v THEN Tail(priority_queues[v]) ELSE priority_queues[w]
    BY <1>3 DEF TypeOK
  <2>. QED
    BY <2>1, <2>2, <1>4
<1>10. ASSUME NEW w \in Levels, Len(priority_queues[w]) >= Cardinality(FreeSlots(pcbs))
       PROVE  Len(priority_queues'[w]) >= Cardinality(FreeSlots(pcbs'))
  <2>1. Len(priority_queues[w]) \in Nat /\ Len(priority_queues'[w]) \in Nat
    BY DispatchType, LenProperties DEF TypeOK
  <2>. QED
    BY <2>1, <1>8, <1>9, <1>10
<1>. QED
  BY <1>3, <1>10 DEF FullBehind

\* An arrival that ends the transfer found its level full.
LEMMA ArrivesFullBehind ==
    ASSUME TypeOK, HeldByPriority, NEW p \in Pcbs, Transfers(p),
           NEW queues \in [Levels -> Seq(Pcbs)], Arrives(p, queues)
    PROVE  FullBehind'
<1>1. pcb[p].priority \in Levels
  <2>1. ready_queue \in Seq(Pcbs) /\ ready_queue # <<>> /\ p = Head(ready_queue)
    BY DEF TypeOK, Transfers
  <2>2. Holds(ready_queue, p)
    BY <2>1, TailHolds DEF HeldByPriority, LevelsOnce
  <2>. QED
    BY <2>2 DEF HeldByPriority, LevelsOnce
<1>2. PICK w \in Levels : w = pcb[p].priority
  BY <1>1
<1>3. CASE sched' # "dispatch"
  BY <1>3 DEF FullBehind
<1>4. CASE sched' = "dispatch"
  <2>1. IsFull(queues[w], LevelCapacity) /\ priority_queues' = queues
    BY <1>2, <1>4 DEF Arrives, Transfers
  <2>2. Len(queues[w]) >= LevelCapacity /\ Len(queues[w]) \in Nat /\ LevelCapacity \in Nat
    BY <2>1, LenProperties, SizeAssumption DEF IsFull, LevelCapacity
  <2>3. Cardinality(FreeSlots(pcbs')) \in Nat /\ Cardinality(FreeSlots(pcbs')) <= NumCores * NumThreads
    BY FreeSlotsCount
  <2>4. NumCores * NumThreads \in Nat
    BY SizeAssumption
  <2>5. NumCores * NumThreads <= LevelCapacity => Len(priority_queues'[w]) >= Cardinality(FreeSlots(pcbs'))
    BY <2>1, <2>2, <2>3, <2>4
  <2>. QED
    BY <2>5 DEF FullBehind
<1>. QED
  BY <1>3, <1>4

\* No other step brings arrivals before a dispatch.
LEMMA NextFullBehind ==
    TypeOK /\ HeldByPriority /\ FullBehind /\ [Next]_vars => FullBehind'
<1>. SUFFICES ASSUME TypeOK, HeldByPriority, FullBehind, [Next]_vars PROVE FullBehind'
  OBVIOUS
<1>0. ASSUME UNCHANGED <<priority_queues, pcbs>>, ready_queue' # <<>> => ready_queue # <<>>,
             running' => running, sched' = "dispatch" => sched = "dispatch" \/ ready_queue' = <<>>
      PROVE  FullBehind'
  BY <1>0 DEF FullBehind
<1>1. CASE ScanStep
  <2>1. sched' # "dispatch"
    BY <1>1, ScanKeeps
  <2>. QED
    BY <2>1 DEF FullBehind
<1>2. CASE Tick
  BY <1>2, <1>0 DEF Tick, queueVars, schedVars
<1>3. CASE DispatchRoundRobin \/ DispatchBFS \/ DispatchPriority
  <2>1. CASE DispatchPriority
    BY <2>1, DispatchFullBehind
  <2>2. CASE DispatchRoundRobin \/ DispatchBFS
    BY <2>2 DEF DispatchRoundRobin, DispatchBFS, FullBehind
  <2>. QED
    BY <1>3, <2>1, <2>2
<1>4. CASE DestroyScheduler
  BY <1>4 DEF DestroyScheduler, schedVars, FullBehind
<1>5. CASE TransferArrival
  <2>1. PICK p \in Pcbs : Transfers(p) /\ Arrives(p, priority_queues)
    BY <1>5 DEF TransferArrival
  <2>. QED
    BY <2>1, ArrivesFullBehind DEF TypeOK
<1>6. CASE TransferPreempting
  <2>. DEFINE v == pcbs[Victim[1]][Victim[2]].priority
  <2>1. PICK p \in Pcbs, f \in FreshClones :
           /\ Transfers(p)
           /\ Arrives(p, [priority_queues EXCEPT ![v] = Enqueued(@, f, LevelCapacity)])
    BY <1>6 DEF TransferPreempting
  <2>2. f \in Pcbs /\ priority_queues \in [Levels -> Seq(Pcbs)]
    BY DEF FreshClones, Pcbs, TypeOK
  <2>. HIDE DEF v
  <2>3. [priority_queues EXCEPT ![v] = Enqueued(@, f, LevelCapacity)] \in [Levels -> Seq(Pcbs)]
    BY <2>2, EnqueueGains DEF Gains
  <2>. QED
    BY <2>1, <2>3, ArrivesFullBehind
<1>7. CASE WakeOnTick \/ WakeOnTimer \/ NextCore \/ StopWaiting \/ EndPass
  BY <1>7, <1>0 DEF WakeOnTick, WakeOnTimer, NextCore, StopWaiting, StartPass, EndPass,
     queueVars, machineVars
<1>8. CASE EndScan
  BY <1>8 DEF EndScan, FullBehind
<1>9. CASE EndTransfer
  BY <1>9, <1>0 DEF EndTransfer, FullBehind, queueVars, machineVars
<1>10. CASE ClockStops \/ TimerChecks \/ TimerCallback
  BY <1>10, <1>0 DEF ClockStops, TimerChecks, TimerCallback, SchedAfterSignal, queueVars, machineVars,
     schedVars
<1>11. CASE Interrupt \/ WakeEverybody \/ StopClockAndTimers \/ CleanReadyQueue
  BY <1>11, <1>0 DEF Interrupt, WakeEverybody, SchedAfterSignal, StopClockAndTimers, CleanReadyQueue,
     queueVars, machineVars, schedVars
<1>12. CASE Halted \/ UNCHANGED vars
  BY <1>12, <1>0 DEF Halted, vars, queueVars, machineVars, schedVars
<1>. QED
  BY <1>1, <1>2, <1>3, <1>4, <1>5, <1>6, <1>7, <1>8, <1>9, <1>10, <1>11, <1>12
     DEF Next, ClockStep, TimerStep, SchedulerStep, MainStep

\* A pass that ends with a hardware thread idle has handed out everything that
\* waits, under every policy: where a full level sends arrivals back, a level of
\* as many processes as the machine has threads fills the machine.
THEOREM NotStranded == Spec => ArrivalsNotStranded
<1>. DEFINE Ends == NumCores * NumThreads <= LevelCapacity /\ sched = "dispatch" /\ sched' = "wait"
                      => ready_queue = <<>> \/ ~can_cpu_execute_process
<1>1. TypeOK /\ (Policy = "PRIO" => FullBehind) /\ [Next]_vars => [Ends]_vars
  <2>. SUFFICES ASSUME TypeOK, Policy = "PRIO" => FullBehind, Next,
                       NumCores * NumThreads <= LevelCapacity, sched = "dispatch", sched' = "wait",
                       ready_queue # <<>>, can_cpu_execute_process
                PROVE  FALSE
    OBVIOUS
  <2>1. running /\ ~has_ready_processes
    <3>1. CASE SchedulerStep
      <4>1. CASE ScanStep
        BY <4>1, ScanKeeps
      <4>2. CASE TransferArrival \/ TransferPreempting
        BY <4>2, TransferKeeps
      <4>3. CASE DispatchRoundRobin \/ DispatchBFS \/ DispatchPriority
        BY <4>3, DispatchKeeps
      <4>4. CASE StopWaiting \/ NextCore \/ EndScan \/ EndTransfer
        BY <4>4 DEF StopWaiting, NextCore, EndScan, EndTransfer
      <4>5. CASE EndPass
        BY <4>5 DEF EndPass, CanDispatch
      <4>. QED
        BY <3>1, <4>1, <4>2, <4>3, <4>4, <4>5 DEF SchedulerStep
    <3>2. ~(ClockStep \/ TimerStep \/ WakeOnTick \/ WakeOnTimer)
      BY DEF ClockStep, ClockStops, Tick, TimerStep, TimerChecks, TimerCallback,
         SchedAfterSignal, WakeOnTick, WakeOnTimer, schedVars
    <3>3. ~(MainStep \/ Halted)
      BY DEF MainStep, Interrupt, WakeEverybody, SchedAfterSignal, DestroyScheduler, StopClockAndTimers,
         CleanReadyQueue, Halted, vars, schedVars
    <3>. QED
      BY <3>1, <3>2, <3>3 DEF Next
  <2>2. Policy = "PRIO" /\ ReadyLevels = {}
    BY <2>1 DEF has_ready_processes
  <2>3. PICK v \in Levels : Len(priority_queues[v]) >= Cardinality(FreeSlots(pcbs))
    BY <2>1, <2>2 DEF FullBehind
  <2>4. priority_queues[v] = <<>>
    BY <2>2 DEF ReadyLevels
  <2>5. FreeSlots(pcbs) # {}
    <3>1. PICK c \in Cores : Len(pcbs[c]) < NumThreads
      BY DEF can_cpu_execute_process, RoomyCores, current_pcb_count
    <3>2. Len(pcbs[c]) \in Nat /\ NumThreads \in Slots /\ NumThreads \in Nat
      BY LenProperties, SizeAssumption DEF TypeOK, Slots
    <3>3. <<c, NumThreads>> \in FreeSlots(pcbs)
      BY <3>1, <3>2 DEF FreeSlots
    <3>. QED
      BY <3>3
  <2>6. Cardinality(FreeSlots(pcbs)) \in Nat \ {0}
    BY <2>5, FreeSlotsCount, FS_EmptySet
  <2>. QED
    BY <2>3, <2>4, <2>6
<1>2. Spec => [](TypeOK /\ (Policy = "PRIO" => FullBehind))
  <2>1. CASE Policy = "PRIO"
    <3>1. Spec => [](TypeOK /\ HeldByPriority)
      BY <2>1, HeldByPriorityAlways, PTL
    <3>2. Init => FullBehind
      BY DEF Init, FullBehind
    <3>3. FullBehind => (Policy = "PRIO" => FullBehind)
      OBVIOUS
    <3>. QED
      BY <3>1, <3>2, <3>3, NextFullBehind, PTL DEF Spec
  <2>2. CASE Policy # "PRIO"
    <3>1. Policy = "PRIO" => FullBehind
      BY <2>2
    <3>. QED
      BY <3>1, TypeCorrect, PTL
  <2>. QED
    BY <2>1, <2>2
<1>3. Spec => [][Ends]_vars
  BY <1>1, <1>2, PTL DEF Spec
<1>. QED
  BY <1>3 DEF ArrivalsNotStranded

----------------------------------------------------------------------------
(* One place, and none for what is freed.                                  *)

\* Where a pointer to p can be.
LEMMA AllPlaces ==
    ASSUME TypeOK, NEW p \in Pcbs, NEW x \in Places(p)
    PROVE  \/ \E i \in 1 .. Len(ready_queue) : ready_queue[i] = p /\ x = <<"ready", 0, i>>
           \/ \E v \in Levels : \E i \in 1 .. Len(priority_queues[v]) :
                 priority_queues[v][i] = p /\ x = <<"level", v, i>>
           \/ \E c \in Cores, k \in Slots : hw_threads[c][k].pcb = p /\ x = <<"thread", c, k>>
<1>1. /\ DOMAIN ready_queue = 1 .. Len(ready_queue)
      /\ \A v \in Levels : DOMAIN priority_queues[v] = 1 .. Len(priority_queues[v])
  BY DEF TypeOK
<1>2. CASE x \in ReadyPlaces(p)
  BY <1>1, <1>2 DEF ReadyPlaces
<1>3. CASE x \in LevelPlaces(p)
  BY <1>1, <1>3 DEF LevelPlaces
<1>4. CASE x \in ThreadPlaces(p)
  BY <1>4 DEF ThreadPlaces
<1>. QED
  BY <1>2, <1>3, <1>4 DEF Places

\* Under PRIO each of the three kinds of places excludes the others.
LEMMA OnePlaceByPriority ==
    ASSUME TypeOK, HeldByPriority, NEW p \in Pcbs, NEW x \in Places(p), NEW y \in Places(p)
    PROVE  x = y
<1>1. /\ \A i, j \in 1 .. Len(ready_queue) : ready_queue[i] = p /\ ready_queue[j] = p => i = j
      /\ \A c, d \in Cores : \A k, l \in Slots :
            hw_threads[c][k].pcb = p /\ hw_threads[d][l].pcb = p => c = d /\ k = l
  BY PcbAssumption DEF HeldByPriority, LevelsOnce, RowsOnce, Distinct, LoadedOnce
<1>2. \A v, w \in Levels : \A i \in 1 .. Len(priority_queues[v]), j \in 1 .. Len(priority_queues[w]) :
         priority_queues[v][i] = p /\ priority_queues[w][j] = p => v = w /\ i = j
  <2>1. \A v \in Levels : /\ Distinct(priority_queues[v])
                          /\ Holds(priority_queues[v], p) => pcb[p].priority = v
    BY DEF HeldByPriority, LevelsOnce, Sorted
  <2>. QED
    BY <2>1 DEF Distinct, Holds
<1>3. /\ ~(Holds(ready_queue, p) /\ HeldAtLevel(priority_queues, p))
      /\ ~(Holds(ready_queue, p) /\ On(hw_threads, p))
      /\ ~(HeldAtLevel(priority_queues, p) /\ On(hw_threads, p))
  BY DEF HeldByPriority, LevelsOnce, WaitsApart, Queued
<1>4. CASE Holds(ready_queue, p)
  BY <1>1, <1>3, <1>4, AllPlaces DEF On, HeldAtLevel, Holds
<1>5. CASE HeldAtLevel(priority_queues, p)
  BY <1>2, <1>3, <1>5, AllPlaces DEF On, HeldAtLevel, Holds
<1>6. CASE On(hw_threads, p)
  BY <1>1, <1>3, <1>6, AllPlaces DEF On, HeldAtLevel, Holds
<1>. QED
  BY <1>4, <1>5, <1>6, AllPlaces DEF On, HeldAtLevel, Holds

\* No process is ever queued twice, queued while it executes, or executed by two
\* hardware threads, whatever the machine, the programs, the timing and the moment
\* of the SIGINT: under RR and PRIO always, also while a preemption has left a
\* core's count behind its threads, and under BFS with a roomy ring.
THEOREM OnePlace ==
    ASSUME RoomyQueue \/ Policy = "PRIO" PROVE Spec => []AtMostOnePlace
<1>1. TypeOK /\ HeldOnce => AtMostOnePlace
  <2>. SUFFICES ASSUME TypeOK, HeldOnce, NEW p \in Pcbs, NEW x \in Places(p), NEW y \in Places(p)
                PROVE  x = y
    BY DEF AtMostOnePlace
  <2>1. /\ \A i, j \in 1 .. Len(ready_queue) : ready_queue[i] = p /\ ready_queue[j] = p => i = j
        /\ \A c, d \in Cores : \A k, l \in Slots :
              hw_threads[c][k].pcb = p /\ hw_threads[d][l].pcb = p => c = d /\ k = l
    BY PcbAssumption DEF HeldOnce, QueueOnce, Distinct, ThreadsOnce, LoadedOnce
  <2>2. ~(Holds(ready_queue, p) /\ On(hw_threads, p))
    BY DEF HeldOnce, Apart
  <2>3. CASE Holds(ready_queue, p)
    BY <2>1, <2>2, <2>3, PlacesOf DEF On
  <2>4. CASE ~Holds(ready_queue, p)
    BY <2>1, <2>4, PlacesOf DEF Holds
  <2>. QED
    BY <2>3, <2>4
<1>2. TypeOK /\ HeldByPriority => AtMostOnePlace
  BY OnePlaceByPriority DEF AtMostOnePlace
<1>3. CASE RoomyQueue
  BY <1>1, <1>3, HeldOnceAlways, PTL
<1>4. CASE Policy = "PRIO"
  BY <1>2, <1>4, HeldByPriorityAlways, PTL
<1>. QED
  BY <1>3, <1>4

\* Under the same conditions neither the scheduler, nor the clock, nor the
\* cleanup can reach a PCB that has been freed, or free it again.
THEOREM NothingDangles ==
    ASSUME RoomyQueue \/ Policy = "PRIO" PROVE Spec => []NoDanglingPcb
<1>1. TypeOK /\ HeldOnce => NoDanglingPcb
  <2>. SUFFICES ASSUME TypeOK, HeldOnce, NEW p \in destroyed PROVE Places(p) = {}
    BY DEF NoDanglingPcb
  <2>1. p \in Pcbs
    BY DEF TypeOK
  <2>2. ~Holds(ready_queue, p) /\ ~On(hw_threads, p)
    BY <2>1 DEF HeldOnce, Apart
  <2>. QED
    BY <2>1, <2>2, PlacesOf DEF Holds, On
<1>2. TypeOK /\ HeldByPriority => NoDanglingPcb
  <2>. SUFFICES ASSUME TypeOK, HeldByPriority, NEW p \in destroyed, NEW x \in Places(p) PROVE FALSE
    BY DEF NoDanglingPcb
  <2>1. p \in Pcbs
    BY DEF TypeOK
  <2>2. ~Queued(p) /\ ~On(hw_threads, p)
    BY <2>1 DEF HeldByPriority, WaitsApart
  <2>. QED
    BY <2>1, <2>2, AllPlaces DEF Holds, On, Queued, HeldAtLevel
<1>3. CASE RoomyQueue
  BY <1>1, <1>3, HeldOnceAlways, PTL
<1>4. CASE Policy = "PRIO"
  BY <1>2, <1>4, HeldByPriorityAlways, PTL
<1>. QED
  BY <1>3, <1>4
=============================================================================
