------------------------------- MODULE Loader -------------------------------
(***************************************************************************)
(* The loader (loader.c) and the loop of main that feeds it (kernel.c):    *)
(* each file becomes a process with a page table, frames and an image of   *)
(* the program, or fails at one of several places.  An iteration over the  *)
(* pages is a step.  Nothing is undone when a load fails.                  *)
(***************************************************************************)
EXTENDS PhysicalMemory, Prometheus, FiniteSets

CONSTANTS
    FileContents,   \* what a file of the directory may hold
    MaxFiles,       \* bound: the files in the directory
    ReadyCapacity,  \* -qsize
    MinTtl, MaxTtl, \* the limits of a time to live, 10 and 100 in the program
    Null            \* the NULL pointer

VARIABLES
    files_read,
    next_pid,
    program,        \* the contents each process was made from
    pcb,            \* the heap of PCBs
    page_tables,    \* of each process, kept here when its PCB is gone
    loading,        \* the process and page create_process_from_program is at
    ready_queue,    \* the processes in it; their order is module Scheduler's
    freed           \* the PCBs given to destroy_pcb

loaderVars == <<files_read, next_pid, program, pcb, page_tables, loading, ready_queue, freed>>

Pids == 1 .. MaxFiles
NotLoading == [pid |-> 0, page |-> 0]

----------------------------------------------------------------------------
(* load_program_from_elf: the header of a program.                         *)

HasDataSection(f) == f.found_data /\ f.data > f.text

code_size(f) ==
    IF HasDataSection(f) THEN (f.data - f.text) \div WORD_SIZE ELSE Len(f.words)

\* An unsigned difference.
data_words(f) ==
    IF HasDataSection(f)
    THEN (Len(f.words) + WordModulus - code_size(f)) % WordModulus ELSE 0

ttl(f) ==
    LET estimated_ttl == 3 * code_size(f)
    IN  IF estimated_ttl < MinTtl THEN MinTtl
        ELSE IF estimated_ttl > MaxTtl THEN MaxTtl ELSE estimated_ttl

code_start_word(f) == f.text \div WORD_SIZE
code_end_word(f)   == code_start_word(f) + code_size(f)
data_start_word(f) == f.data \div WORD_SIZE
data_end_word(f)   == data_start_word(f) + data_words(f)

total_words(f) ==
    IF data_end_word(f) > code_end_word(f) THEN data_end_word(f) ELSE code_end_word(f)

total_pages(f) == (total_words(f) * WORD_SIZE + PageBytes - 1) \div PageBytes

\* What the loader puts at word w of the address space: the code segment, over
\* zeros, and the data segment over both.
InitialWord(f, w) ==
    IF data_start_word(f) <= w /\ w < data_end_word(f)
    THEN f.words[code_size(f) + w - data_start_word(f) + 1]
    ELSE IF code_start_word(f) <= w /\ w < code_end_word(f)
         THEN f.words[w - code_start_word(f) + 1] ELSE 0

\* A file with a .data directive beyond its words makes memcpy read outside the
\* buffer, one without words makes a process without a page table of its own,
\* and the words are counted in an unsigned int.
FileAssumptionOn(f) ==
    f.found_text => /\ f.words # <<>> /\ code_size(f) <= Len(f.words)
                    /\ Len(f.words) < WordModulus
                    /\ total_words(f) * WORD_SIZE <= AddressSpace

ASSUME LoaderAssumption ==
    /\ FileContents \subseteq [found_text : BOOLEAN, text : 0 .. AddressSpace - 1,
                               found_data : BOOLEAN, data : 0 .. AddressSpace - 1, words : Seq(Word)]
    /\ \A f \in FileContents : FileAssumptionOn(f)
    /\ MinTtl \in Nat \ {0} /\ MaxTtl \in Nat /\ MinTtl <= MaxTtl
    /\ MaxFiles \in Nat /\ ReadyCapacity \in Nat \ {0} /\ Null \notin Nat

----------------------------------------------------------------------------
NewPcb == [state |-> "WAITING", ttl |-> 0, pgb |-> Null, pc |-> 0,
           registers |-> [r \in RegisterNumbers |-> 0]]

NoFile == [found_text |-> FALSE, text |-> 0, found_data |-> FALSE, data |-> 0, words |-> <<>>]

LoaderInit ==
    /\ MemoryInit
    /\ files_read = 0 /\ next_pid = 1
    /\ program = [p \in Pids |-> NoFile]
    /\ pcb = [p \in Pids |-> NewPcb]
    /\ page_tables = [p \in Pids |-> [base |-> 0, pages |-> 0]]
    /\ loading = NotLoading
    /\ ready_queue = {} /\ freed = {}

ReadsFile(f) ==
    /\ loading = NotLoading /\ files_read < MaxFiles
    /\ f \in FileContents
    /\ files_read' = files_read + 1

\* load_program_from_elf finds no .text.
RejectFile(f) ==
    /\ ReadsFile(f) /\ ~f.found_text
    /\ UNCHANGED <<memoryVars, next_pid, program, pcb, page_tables, loading, ready_queue, freed>>

\* The beginning of create_process_from_program, to the loop over the pages.
CreateProcess(f) ==
    /\ ReadsFile(f) /\ f.found_text
    /\ create_page_table(total_pages(f))
    /\ next_pid' = next_pid + 1
    /\ program' = [program EXCEPT ![next_pid] = f]
    /\ pcb' = [pcb EXCEPT ![next_pid].ttl = ttl(f), ![next_pid].pgb = next_kernel_frame]
    /\ page_tables' = [page_tables EXCEPT
          ![next_pid] = [base |-> next_kernel_frame, pages |-> total_pages(f)]]
    /\ loading' = [pid |-> next_pid, page |-> 0]
    /\ UNCHANGED <<frame_bitmap, total_allocated_frames, ready_queue, freed>>

OutOfKernelSpace(f) ==
    /\ ReadsFile(f) /\ f.found_text
    /\ ~HasKernelSpace(total_pages(f))
    /\ next_pid' = next_pid + 1
    /\ freed' = freed \cup {next_pid}
    /\ UNCHANGED <<memoryVars, program, pcb, page_tables, loading, ready_queue>>

Loads(p, page) ==
    /\ loading # NotLoading
    /\ p = loading.pid /\ p \in Pids /\ page = loading.page

\* Mutant of Filled: every page is filled from the start of the segments.
FilledFromStart(p, page, frame) ==
    [x \in DOMAIN memory |->
        IF x \div WordsPerPage = frame THEN InitialWord(program[p], x % WordsPerPage)
        ELSE IF x = page_tables[p].base + page THEN MappedEntry(frame) ELSE memory[x]]

\* The frame is mapped, zeroed, and filled from the segments.
Filled(p, page, frame) ==
    [x \in DOMAIN memory |->
        IF x \div WordsPerPage = frame
        THEN InitialWord(program[p], page * WordsPerPage + (x % WordsPerPage))
        ELSE IF x = page_tables[p].base + page THEN MappedEntry(frame) ELSE memory[x]]

LoadPage(p, page, frame) ==
    /\ Loads(p, page) /\ page < page_tables[p].pages
    /\ allocate_frame(frame)
    /\ memory' = Filled(p, page, frame)
    /\ loading' = [loading EXCEPT !.page = page + 1]
    /\ UNCHANGED <<next_kernel_frame, files_read, next_pid, program, pcb, page_tables,
                   ready_queue, freed>>

\* The PCB is destroyed; the frames taken so far and the page table stay.
OutOfFrames(p, page) ==
    /\ Loads(p, page) /\ page < page_tables[p].pages
    /\ FreeFrames = {}
    /\ freed' = freed \cup {p}
    /\ loading' = NotLoading
    /\ UNCHANGED <<memoryVars, files_read, next_pid, program, pcb, page_tables, ready_queue>>

\* The process is complete and main queues it, or destroys it if it cannot.
QueueProcess(p) ==
    /\ Loads(p, page_tables[p].pages)
    /\ loading' = NotLoading
    /\ IF Cardinality(ready_queue) < ReadyCapacity
       THEN ready_queue' = ready_queue \cup {p} /\ UNCHANGED freed
       ELSE freed' = freed \cup {p} /\ UNCHANGED ready_queue
    /\ UNCHANGED <<memoryVars, files_read, next_pid, program, pcb, page_tables>>

LoaderNext ==
    \/ \E f \in FileContents : RejectFile(f) \/ CreateProcess(f) \/ OutOfKernelSpace(f)
    \/ \E p \in Pids :
          \/ \E page \in 0 .. KernelWords - 1 :
                (\E frame \in FreeFrames : LoadPage(p, page, frame)) \/ OutOfFrames(p, page)
          \/ QueueProcess(p)

LoaderSpec == LoaderInit /\ [][LoaderNext]_<<memoryVars, loaderVars>>

----------------------------------------------------------------------------
(* Properties.                                                             *)

Tables == {e \in Pids \X (0 .. KernelWords - 1) : e[2] < page_tables[e[1]].pages}
EntryOf(e) == memory[page_tables[e[1]].base + e[2]]
Mapped == {e \in Tables : IsPresent(EntryOf(e))}

\* Every frame of user space that is in use is the frame of one entry of one
\* page table, present in it, and of no other; no entry of a page table is part
\* of another table or lies outside kernel space; the counter agrees with the
\* bitmap.  The frames that are never given back, after a failure or a
\* completion, are therefore those of the tables that nobody uses any more.
FramesAccounted ==
    /\ \A e, d \in Tables :
          page_tables[e[1]].base + e[2] = page_tables[d[1]].base + d[2] => e = d
    /\ \A e \in Tables : page_tables[e[1]].base + e[2] < next_kernel_frame
    /\ \A e, d \in Mapped : FrameOf(EntryOf(e)) = FrameOf(EntryOf(d)) => e = d
    /\ {FrameOf(EntryOf(e)) : e \in Mapped} = frame_bitmap \ (0 .. KernelFrames - 1)
    /\ next_kernel_frame <= KernelWords
    /\ total_allocated_frames = Cardinality(frame_bitmap)
=============================================================================
