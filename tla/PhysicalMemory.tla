--------------------------- MODULE PhysicalMemory ---------------------------
(***************************************************************************)
(* The physical memory of the simulator and its MMU (memory.c).  Memory is *)
(* an array of words.  Its first KernelFrames frames are kernel space, in  *)
(* which page tables are laid out one after the other and never taken      *)
(* back; the bitmap says which frames are in use.  A page table entry is a *)
(* word of this memory, with the fields of the C bit-field.                *)
(***************************************************************************)
EXTENDS Instructions

CONSTANTS
    TotalFrames,
    KernelFrames,   \* of them, the first ones
    WordsPerPage    \* FRAME_SIZE / WORD_SIZE

VARIABLES
    memory,             \* pm->memory
    frame_bitmap,       \* the frames whose byte in the bitmap is 1
    next_kernel_frame,  \* the next free word, not frame, of kernel space
    total_allocated_frames

memoryVars == <<memory, frame_bitmap, next_kernel_frame, total_allocated_frames>>

Frames       == 0 .. TotalFrames - 1
KernelWords  == KernelFrames * WordsPerPage
TotalWords   == TotalFrames * WordsPerPage
PageBytes    == WordsPerPage * WORD_SIZE

\* A word can hold an entry, and no address leads past the end of memory when
\* it is used as an index of a page table.
ASSUME MemoryAssumption ==
    /\ WordsPerPage \in Nat \ {0} /\ KernelFrames \in Nat \ {0}
    /\ TotalFrames \in Nat /\ TotalFrames > KernelFrames
    /\ 32 * TotalFrames <= WordModulus
    /\ KernelWords + AddressSpace \div PageBytes < TotalWords

MemoryInit ==
    /\ memory = [x \in 0 .. TotalWords - 1 |-> 0]
    /\ frame_bitmap = 0 .. KernelFrames - 1
    /\ next_kernel_frame = 0
    /\ total_allocated_frames = KernelFrames

----------------------------------------------------------------------------
(* Frames and kernel space.                                                *)

FreeFrames == {f \in KernelFrames .. TotalFrames - 1 : f \notin frame_bitmap}
FirstFree  == CHOOSE f \in FreeFrames : \A g \in FreeFrames : f <= g

allocate_frame(frame) ==
    /\ frame \in FreeFrames /\ frame = FirstFree
    /\ frame_bitmap' = frame_bitmap \cup {frame}
    /\ total_allocated_frames' = total_allocated_frames + 1

\* Mutant of HasKernelSpace: the size of the new table is not counted.
HasSomeKernelSpace(size) == next_kernel_frame < KernelWords

HasKernelSpace(size) == next_kernel_frame + size <= KernelWords

----------------------------------------------------------------------------
(* Page table entries: frame, then one bit each for present, rw, user,     *)
(* accessed and dirty.  rw and user are 1 in every entry.                  *)

FrameOf(entry)   == entry % TotalFrames
IsPresent(entry) == (entry \div TotalFrames) % 2 = 1

UnmappedEntry      == 6 * TotalFrames
MappedEntry(frame) == frame + 7 * TotalFrames

WithBit(entry, bit) == IF (entry \div bit) % 2 = 1 THEN entry ELSE entry + bit
Touched(entry)      == WithBit(WithBit(entry, 8 * TotalFrames), 16 * TotalFrames)

\* create_page_table for n pages at the next free word of kernel space.
create_page_table(n) ==
    /\ HasKernelSpace(n)
    /\ next_kernel_frame' = next_kernel_frame + n
    /\ memory' = [x \in DOMAIN memory |->
          IF x \in next_kernel_frame .. next_kernel_frame + n - 1 THEN UnmappedEntry ELSE memory[x]]

----------------------------------------------------------------------------
(* The MMU.  The page number is not compared with the size of the table,   *)
(* and a page fault yields address 0.                                      *)

translate_virtual_to_physical(page_table, address) ==
    LET entry == memory[page_table + address \div PageBytes]
    IN  IF IsPresent(entry)
        THEN (FrameOf(entry) * PageBytes + (address % PageBytes)) \div WORD_SIZE
        ELSE 0

mmu_read_word(page_table, address) ==
    memory[translate_virtual_to_physical(page_table, address)]

\* The entry is marked before the word is written, whether it was present or not.
mmu_write_word(page_table, address, value) ==
    LET at    == page_table + address \div PageBytes
        first == [memory EXCEPT ![at] = Touched(@)]
    IN  memory' = [first EXCEPT ![translate_virtual_to_physical(page_table, address)] = value]
=============================================================================
