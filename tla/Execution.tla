------------------------------ MODULE Execution ------------------------------
(***************************************************************************)
(* What becomes of the loaded programs on the hardware threads (machine.c, *)
(* and the parts of clock.c and process.c that move processes on and off   *)
(* them), over the memory of the loader.  Which process is assigned,       *)
(* expires or completes, and when, is left open here: module Scheduler     *)
(* decides it, and any of its schedules under round robin or BFS is one of *)
(* this module's.  A tick executes an instruction on each thread in turn;  *)
(* here each of them is a step.                                            *)
(***************************************************************************)
EXTENDS Loader, Queues

CONSTANTS
    NumThreads,  \* the hardware threads of the core
    Draws        \* those of Prometheus that are among the FileContents

ASSUME ExecutionAssumption ==
    /\ NumThreads \in Nat \ {0}
    /\ \A d \in Draws : IsDraw(d) /\ ElfFile(d) \in FileContents

VARIABLE hw_threads  \* the occupied ones: [pcb, PTBR, PC, registers]

vars == <<memoryVars, loaderVars, hw_threads>>

Init == LoaderInit /\ hw_threads = <<>>

Load == LoaderNext /\ UNCHANGED hw_threads

----------------------------------------------------------------------------
(* Assignment and removal.                                                 *)

\* main starts the scheduler when it has read the directory.
Scheduling == files_read = MaxFiles /\ loading = NotLoading

Assign(p) ==
    /\ Scheduling /\ p \in ready_queue /\ Len(hw_threads) < NumThreads
    /\ ready_queue' = ready_queue \ {p}
    /\ pcb' = [pcb EXCEPT ![p].state = "RUNNING"]
    /\ hw_threads' = Append(hw_threads, [pcb |-> p, PTBR |-> pcb[p].pgb, PC |-> pcb[p].pc,
                                         registers |-> pcb[p].registers])
    /\ UNCHANGED <<memoryVars, files_read, next_pid, program, page_tables, loading, freed>>

\* Mutant of RemoveThread: of a thread that is shifted the registers stay behind,
\* as in the loop of remove_process_from_core.
RemoveWithoutRegisters(k) ==
    [j \in 1 .. Len(hw_threads) - 1 |->
        IF j < k THEN hw_threads[j]
        ELSE [hw_threads[j + 1] EXCEPT !.registers = hw_threads[j].registers]]

RemoveThread(k) == DropAt(hw_threads, k)

HasCompleted(p) == pcb[p].state = "TERMINATED" \/ pcb[p].ttl = 0

\* Mutant of SavedContext: the registers are not saved.
SavedWithoutRegisters(h) == [pcb[h.pcb] EXCEPT !.state = "WAITING", !.pc = h.PC]

\* Mutant of SavedContext: the program counter is not saved.
SavedWithoutPC(h) == [pcb[h.pcb] EXCEPT !.state = "WAITING", !.registers = h.registers]

SavedContext(h) ==
    [pcb[h.pcb] EXCEPT !.state = "WAITING", !.pc = h.PC, !.registers = h.registers]

\* A process that finds the queue full is lost: Scheduler, LostRequeue.
Expire(k) ==
    LET h == hw_threads[k]
    IN  /\ ~HasCompleted(h.pcb)
        /\ pcb' = [pcb EXCEPT ![h.pcb] = SavedContext(h)]
        /\ ready_queue' = IF Cardinality(ready_queue) < ReadyCapacity
                          THEN ready_queue \cup {h.pcb} ELSE ready_queue
        /\ hw_threads' = RemoveThread(k)
        /\ UNCHANGED <<memoryVars, files_read, next_pid, program, page_tables, loading, freed>>

\* The page table and the frames stay where they are.
Complete(k) ==
    LET p == hw_threads[k].pcb
    IN  /\ HasCompleted(p)
        /\ pcb' = [pcb EXCEPT ![p].pgb = Null]
        /\ freed' = freed \cup {p}
        /\ hw_threads' = RemoveThread(k)
        /\ UNCHANGED <<memoryVars, files_read, next_pid, program, page_tables, loading, ready_queue>>

----------------------------------------------------------------------------
(* The tick of the clock on one thread: the time to live is decremented,   *)
(* and execute_instruction_cycle fetches the word at PC and executes it.   *)

\* Mutant of decrement_pcb_ttl: the test is left out.
DecrementBelowZero(p) == pcb[p].ttl - 1

decrement_pcb_ttl(p) == IF pcb[p].ttl > 0 THEN pcb[p].ttl - 1 ELSE pcb[p].ttl

Fetched(k) == mmu_read_word(hw_threads[k].PTBR, hw_threads[k].PC)

Ticks(k) ==
    /\ pcb[hw_threads[k].pcb].state # "TERMINATED"
    /\ UNCHANGED <<frame_bitmap, next_kernel_frame, total_allocated_frames, files_read, next_pid,
                   program, page_tables, loading, ready_queue, freed>>

Goes_on(k) ==
    pcb' = [pcb EXCEPT ![hw_threads[k].pcb].ttl = decrement_pcb_ttl(hw_threads[k].pcb)]

\* The register gets the value and PC the next instruction.
WithRegister(h, r, value) ==
    [h EXCEPT !.registers = [@ EXCEPT ![r] = value], !.PC = @ + WORD_SIZE]

execute_ld(k) ==
    LET h == hw_threads[k]
        instruction == Fetched(k)
    IN  /\ Ticks(k) /\ extract_opcode(instruction) = OP_LD
        /\ hw_threads' = [hw_threads EXCEPT ![k] =
              WithRegister(h, extract_reg(instruction),
                           mmu_read_word(h.PTBR, extract_address(instruction)))]
        /\ Goes_on(k)
        /\ UNCHANGED memory

execute_st(k) ==
    LET h == hw_threads[k]
        instruction == Fetched(k)
    IN  /\ Ticks(k) /\ extract_opcode(instruction) = OP_ST
        /\ mmu_write_word(h.PTBR, extract_address(instruction), h.registers[extract_reg(instruction)])
        /\ hw_threads' = [hw_threads EXCEPT ![k].PC = @ + WORD_SIZE]
        /\ Goes_on(k)

execute_add(k) ==
    LET h == hw_threads[k]
        instruction == Fetched(k)
    IN  /\ Ticks(k) /\ extract_opcode(instruction) = OP_ADD
        /\ hw_threads' = [hw_threads EXCEPT ![k] =
              WithRegister(h, extract_reg(instruction),
                  Sum32(h.registers[extract_reg_src1(instruction)],
                        h.registers[extract_reg_src2(instruction)]))]
        /\ Goes_on(k)
        /\ UNCHANGED memory

execute_exit(k) ==
    /\ Ticks(k) /\ extract_opcode(Fetched(k)) = OP_EXIT
    /\ pcb' = [pcb EXCEPT ![hw_threads[k].pcb].state = "TERMINATED", ![hw_threads[k].pcb].ttl = 0]
    /\ UNCHANGED <<memory, hw_threads>>

UnknownOpcode(k) ==
    /\ Ticks(k) /\ ~IsInstruction(Fetched(k))
    /\ pcb' = [pcb EXCEPT ![hw_threads[k].pcb].state = "TERMINATED",
                          ![hw_threads[k].pcb].ttl = decrement_pcb_ttl(hw_threads[k].pcb)]
    /\ UNCHANGED <<memory, hw_threads>>

\* The clock goes on when nothing is left to execute.
IdleTick == Scheduling /\ ready_queue = {} /\ hw_threads = <<>> /\ UNCHANGED vars

----------------------------------------------------------------------------
Execute(k) ==
    execute_ld(k) \/ execute_st(k) \/ execute_add(k) \/ execute_exit(k) \/ UnknownOpcode(k)

Next ==
    \/ Load
    \/ \E p \in Pids : Assign(p)
    \/ \E k \in 1 .. NumThreads : k <= Len(hw_threads) /\ (Execute(k) \/ Expire(k) \/ Complete(k))
    \/ IdleTick

Spec == Init /\ [][Next]_vars

----------------------------------------------------------------------------
(* Properties.                                                             *)

PcbType ==
    [state : {"WAITING", "RUNNING", "TERMINATED"}, ttl : 0 .. MaxTtl,
     pgb : 0 .. KernelWords - 1 \cup {Null}, pc : 0 .. AddressSpace - 1,
     registers : [RegisterNumbers -> Word]]

\* Every variable holds a value of its C type, and no program counter has left
\* the address space.
TypeOK ==
    /\ memory \in [0 .. TotalWords - 1 -> Word]
    /\ frame_bitmap \subseteq Frames
    /\ next_kernel_frame \in Nat /\ total_allocated_frames \in Nat
    /\ files_read \in 0 .. MaxFiles /\ next_pid \in 1 .. MaxFiles + 1
    /\ program \in [Pids -> FileContents \cup {NoFile}]
    /\ pcb \in [Pids -> PcbType]
    /\ page_tables \in [Pids -> [base : Nat, pages : Nat]]
    /\ loading \in [pid : Pids \cup {0}, page : Nat]
    /\ ready_queue \subseteq Pids /\ freed \subseteq Pids
    /\ Len(hw_threads) <= NumThreads
    /\ \A k \in DOMAIN hw_threads :
          hw_threads[k] \in [pcb : Pids, PTBR : 0 .. KernelWords - 1,
                             PC : 0 .. AddressSpace - 1, registers : [RegisterNumbers -> Word]]

\* The byte addresses that the next instruction of thread k goes through the MMU with.
Uses(k) ==
    {hw_threads[k].PC} \cup (IF extract_opcode(Fetched(k)) \in {OP_LD, OP_ST}
                             THEN {extract_address(Fetched(k))} ELSE {})

\* Nothing a program fetches, reads or writes lies outside the words that the
\* loader counted for it, and no program runs past its end: the MMU would not
\* notice the first, as it has no limit to compare a page number with.
KeepsInside ==
    \A k \in DOMAIN hw_threads :
        LET p == hw_threads[k].pcb
        IN  pcb[p].state # "TERMINATED" =>
                \A a \in Uses(k) : a \div WORD_SIZE < total_words(program[p])

Loaded == {k \in DOMAIN hw_threads : hw_threads[k].pcb \notin freed}
IsLoaded(p) == \E k \in Loaded : hw_threads[k].pcb = p

\* Where the process is: on its thread, else as its PCB remembers it.
Context(p) ==
    IF IsLoaded(p)
    THEN LET k == CHOOSE k \in Loaded : hw_threads[k].pcb = p
         IN  [pgb |-> hw_threads[k].PTBR, pc |-> hw_threads[k].PC,
              registers |-> hw_threads[k].registers]
    ELSE [pgb |-> pcb[p].pgb, pc |-> pcb[p].pc, registers |-> pcb[p].registers]

Admitted == {p \in Pids : p < next_pid /\ p # loading.pid /\ p \notin freed}

\* A prometheus program that has reached its EXIT has computed its sums, whatever
\* register, pages and threads it used, however often it was suspended and
\* whichever programs ran beside it: the generator's encoding, the loader's
\* layout, the MMU and the instruction cycle agree.
ComputesItsSums ==
    \A d \in Draws, p \in Admitted :
        program[p] = ElfFile(d) /\ pcb[p].state = "TERMINATED" =>
            /\ Context(p).pc = WORD_SIZE * (code_words(d) - 1)
            /\ \A v \in DOMAIN d.data :
                  mmu_read_word(Context(p).pgb, data_start(d) + WORD_SIZE * (v - 1)) = DataAfter(d)[v]

\* The time to live cuts no program short whose code is at most MaxTtl words: a
\* switch neither repeats instructions nor consumes any of it.
TtlSuffices ==
    [][\A k \in DOMAIN hw_threads :
          LET p == hw_threads[k].pcb
          IN  p \in freed' \ freed /\ code_size(program[p]) <= MaxTtl
                => pcb[p].state = "TERMINATED"]_vars

\* The words of the file, one after the other from its .text address, over zeros.
LinkedImage(f, w) ==
    LET first == f.text \div WORD_SIZE
    IN  IF first <= w /\ w < first + Len(f.words) THEN f.words[w - first + 1] ELSE 0

\* Pages divide the address space, and the .data of a file follows its code, as it does
\* when both begin at whole words: then the loader's image is the file laid out in a row.
Aligned ==
    /\ AddressSpace % PageBytes = 0
    /\ \A f \in FileContents :
          f.found_text /\ HasDataSection(f) => data_start_word(f) = code_end_word(f)

\* Word s ends a program: up to there it loads words of its own, stores only behind
\* s and goes on to the next word.
EndsAt(f, s) ==
    /\ extract_opcode(LinkedImage(f, s)) \notin {OP_LD, OP_ST, OP_ADD}
    /\ \A w \in 0 .. s :
          LET i == LinkedImage(f, w)
              operand == extract_address(i) \div WORD_SIZE
          IN  /\ extract_opcode(i) \in {OP_LD, OP_ST} => operand < total_words(f)
              /\ extract_opcode(i) = OP_ST => s < operand

\* Programs that end, and keep inside their words while they run alone.
WellWritten ==
    \A f \in FileContents : f.found_text => \E s \in 0 .. total_words(f) - 1 : EndsAt(f, s)

\* Programs whose code is at most MaxTtl words end within their time to live.
EndsInTime ==
    \A f \in FileContents : f.found_text /\ code_size(f) <= MaxTtl =>
        \E s \in 0 .. total_words(f) - 1 : EndsAt(f, s) /\ s < ttl(f)

WordsOf(p) == 0 .. total_pages(program[p]) * WordsPerPage - 1

PhaseOf(p) ==
    IF p \in freed THEN "gone"
    ELSE IF p \notin Admitted THEN "absent"
    ELSE IF pcb[p].state = "TERMINATED" THEN "halted" ELSE "live"

Private == INSTANCE PrivateMachine WITH
    Procs     <- Pids,
    phase     <- [p \in Pids |-> PhaseOf(p)],
    origin    <- [p \in Pids |-> IF p \in Admitted
                     THEN [w \in WordsOf(p) |-> LinkedImage(program[p], w)] ELSE <<>>],
    image     <- [p \in Pids |-> IF p \in Admitted
                     THEN [w \in WordsOf(p) |-> mmu_read_word(Context(p).pgb, WORD_SIZE * w)] ELSE <<>>],
    pc        <- [p \in Pids |-> IF p \in Admitted THEN Context(p).pc ELSE 0],
    registers <- [p \in Pids |-> IF p \in Admitted THEN Context(p).registers
                                                   ELSE [r \in RegisterNumbers |-> 0]]

\* Each process has a machine of its own: the page tables keep the images apart,
\* and registers and program counters survive expiry, assignment and shifts.
ImplementsPrivateMachine == Private!Spec
=============================================================================
