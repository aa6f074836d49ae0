-------------------------- MODULE ExecutionProofs --------------------------
(***************************************************************************)
(* Theorems about the loader and the execution of the loaded programs, for *)
(* every size of memory, every number of hardware threads and every        *)
(* directory whose programs stay inside their own words; that those of     *)
(* prometheus do, and what they compute; and that no time to live that     *)
(* suffices for a program is lost.                                         *)
(***************************************************************************)
EXTENDS Execution, QueuesProofs, FiniteSetTheorems

Threads == [pcb : Pids, PTBR : 0 .. KernelWords - 1, PC : 0 .. AddressSpace - 1,
            registers : [RegisterNumbers -> Word]]

base(p)  == page_tables[p].base
pages(p) == page_tables[p].pages

\* The tables lie one after the other in kernel space, and one of them is as
\* long as the program it was made for.
LaidOut ==
    /\ next_kernel_frame <= KernelWords
    /\ next_pid <= files_read + 1
    /\ \A p \in Pids :
          /\ base(p) + pages(p) <= next_kernel_frame
          /\ p >= next_pid => pages(p) = 0 /\ p \notin freed /\ pcb[p] = NewPcb
          /\ pages(p) # 0 =>
                /\ program[p] \in FileContents /\ program[p].found_text
                /\ pages(p) = total_pages(program[p])
    /\ \A p, q \in Pids : p < q /\ pages(q) # 0 => base(p) + pages(p) <= base(q)

Entry(p, i) == memory[base(p) + i]

\* The bitmap and its counter agree with the entries that are present.
Booked ==
    /\ 0 .. KernelFrames - 1 \subseteq frame_bitmap
    /\ total_allocated_frames = Cardinality(frame_bitmap)
    /\ \A p \in Pids : \A i \in 0 .. pages(p) - 1 :
          /\ Entry(p, i) < 32 * TotalFrames
          /\ IsPresent(Entry(p, i)) => FrameOf(Entry(p, i)) \in frame_bitmap \ (0 .. KernelFrames - 1)
    /\ \A p, q \in Pids : \A i \in 0 .. pages(p) - 1, j \in 0 .. pages(q) - 1 :
          IsPresent(Entry(p, i)) /\ IsPresent(Entry(q, j)) /\ FrameOf(Entry(p, i)) = FrameOf(Entry(q, j))
              => p = q /\ i = j
    /\ \A f \in frame_bitmap \ (0 .. KernelFrames - 1) :
          \E p \in Pids : \E i \in 0 .. pages(p) - 1 :
              IsPresent(Entry(p, i)) /\ FrameOf(Entry(p, i)) = f

\* Of the table being filled, the entries before the page of the loop are mapped.
Filling ==
    loading # NotLoading =>
        /\ loading.pid \in Pids /\ loading.pid < next_pid /\ loading.pid \notin freed
        /\ pages(loading.pid) # 0 /\ loading.page <= pages(loading.pid)
        /\ pcb[loading.pid].pgb = base(loading.pid)
        /\ \A i \in 0 .. pages(loading.pid) - 1 :
              IsPresent(Entry(loading.pid, i)) <=> i < loading.page

\* A process that has been admitted has all its pages, and it is in one place.
Settled ==
    /\ \A p \in Admitted :
          /\ pages(p) # 0 /\ pcb[p].pgb = base(p)
          /\ \A i \in 0 .. pages(p) - 1 : IsPresent(Entry(p, i))
    /\ ready_queue \subseteq Admitted
    /\ \A k \in DOMAIN hw_threads :
          /\ hw_threads[k].pcb \in Admitted \ ready_queue
          /\ hw_threads[k].PTBR = base(hw_threads[k].pcb)
    /\ \A j, k \in DOMAIN hw_threads : hw_threads[j].pcb = hw_threads[k].pcb => j = k

Sound == TypeOK /\ hw_threads \in Seq(Threads) /\ LaidOut /\ Booked /\ Filling /\ Settled

----------------------------------------------------------------------------
(* Division, and the entries of a page table.                              *)


\* Quotient and remainder, and that they determine a number.
LEMMA Division ==
    ASSUME NEW n \in Nat \ {0}, NEW x \in Nat
    PROVE  x \div n \in Nat /\ x % n \in 0 .. n - 1 /\ x = n * (x \div n) + (x % n)
  OBVIOUS

\* A number written with a remainder has that quotient and remainder.
LEMMA Quotient ==
    ASSUME NEW n \in Nat \ {0}, NEW q \in Nat, NEW r \in 0 .. n - 1
    PROVE  (n * q + r) \div n = q /\ (n * q + r) % n = r
  OBVIOUS

\* The quotient of a product.
LEMMA QuotientOfQuotient ==
    ASSUME NEW n \in Nat \ {0}, NEW m \in Nat \ {0}, NEW x \in Nat
    PROVE  x \div (m * n) = (x \div n) \div m
<1>. DEFINE q == x \div n
           r == x % n
           s == q \div m
           t == q % m
<1>1. q \in Nat /\ r \in 0 .. n - 1 /\ x = n * q + r
  BY Division
<1>2. s \in Nat /\ t \in 0 .. m - 1 /\ q = m * s + t
  BY <1>1, Division
<1>. HIDE DEF q, r, s, t
<1>3. x = n * (m * s) + (n * t + r)
  BY <1>1, <1>2
<1>4. n * (m * s) = (m * n) * s
  BY <1>2
<1>5. n * t + r \in Nat /\ n * t + r < n * (t + 1)
  BY <1>1, <1>2
<1>6. n * (t + 1) <= n * m
  BY <1>2
<1>7. m * n = n * m /\ m * n \in Nat \ {0}
  OBVIOUS
<1>8. n * t + r \in 0 .. (m * n) - 1
  BY <1>5, <1>6, <1>7, <1>1, <1>2
<1>9. x = (m * n) * s + (n * t + r)
  BY <1>3, <1>4, <1>8, <1>7, <1>2
<1>10. x \div (m * n) = s
  BY <1>9, <1>8, <1>7, <1>2, Quotient
<1>11. s = q \div m /\ q = x \div n
  BY DEF s, q
<1>. QED
  BY <1>10, <1>11

\* The constants are numbers.
LEMMA Sizes ==
    /\ WordsPerPage \in Nat \ {0} /\ KernelFrames \in Nat \ {0} /\ TotalFrames \in Nat \ {0}
    /\ KernelFrames < TotalFrames /\ 32 * TotalFrames <= WordModulus
    /\ NumRegisters \in Nat \ {0} /\ AddressSpace \in Nat \ {0} /\ WordModulus \in Nat \ {0}
    /\ KernelWords \in Nat \ {0} /\ TotalWords \in Nat /\ KernelWords < TotalWords
    /\ PageBytes \in Nat \ {0} /\ PageBytes = 4 * WordsPerPage
<1>1. /\ WordsPerPage \in Nat \ {0} /\ KernelFrames \in Nat \ {0} /\ TotalFrames \in Nat \ {0}
      /\ KernelFrames < TotalFrames /\ 32 * TotalFrames <= WordModulus
  BY MemoryAssumption
<1>2. NumRegisters \in Nat \ {0} /\ AddressSpace \in Nat \ {0} /\ WordModulus \in Nat \ {0}
  BY InstructionAssumption DEF WordModulus
<1>3. KernelWords \in Nat \ {0} /\ TotalWords \in Nat /\ KernelWords < TotalWords
  BY <1>1 DEF KernelWords, TotalWords
<1>4. PageBytes \in Nat \ {0} /\ PageBytes = 4 * WordsPerPage
  BY <1>1 DEF PageBytes, WORD_SIZE
<1>. QED
  BY <1>1, <1>2, <1>3, <1>4

\* The entry create_page_table writes is a word, and not present.
LEMMA UnmappedIsAbsent ==
    UnmappedEntry \in Word /\ ~IsPresent(UnmappedEntry) /\ UnmappedEntry < 32 * TotalFrames
<1>. USE Sizes
<1>1. UnmappedEntry = TotalFrames * 6 + 0
  BY DEF UnmappedEntry
<1>2. UnmappedEntry \div TotalFrames = 6
  BY <1>1, Quotient
<1>. QED
  BY <1>1, <1>2 DEF IsPresent, Word

\* The entry the loader maps a frame with is present and names the frame.
LEMMA MappedIsPresent ==
    ASSUME NEW f \in Frames
    PROVE  /\ MappedEntry(f) \in Word /\ MappedEntry(f) < 32 * TotalFrames
           /\ IsPresent(MappedEntry(f)) /\ FrameOf(MappedEntry(f)) = f
<1>. USE Sizes
<1>1. f \in 0 .. TotalFrames - 1
  BY DEF Frames
<1>2. MappedEntry(f) = TotalFrames * 7 + f
  BY <1>1 DEF MappedEntry
<1>3. MappedEntry(f) \div TotalFrames = 7 /\ MappedEntry(f) % TotalFrames = f
  BY <1>1, <1>2, Quotient
<1>. QED
  BY <1>1, <1>2, <1>3 DEF IsPresent, FrameOf, Word

\* Setting a bit above those of the frame and of present.
LEMMA WithBitKeeps ==
    ASSUME NEW e \in Nat, NEW b \in {8, 16}, e < 32 * TotalFrames
    PROVE  /\ WithBit(e, b * TotalFrames) \in Nat /\ WithBit(e, b * TotalFrames) < 32 * TotalFrames
           /\ IsPresent(WithBit(e, b * TotalFrames)) <=> IsPresent(e)
           /\ FrameOf(WithBit(e, b * TotalFrames)) = FrameOf(e)
<1>. USE Sizes
<1>. DEFINE q == e \div TotalFrames
           r == e % TotalFrames
<1>1. q \in Nat /\ r \in 0 .. TotalFrames - 1 /\ e = TotalFrames * q + r
  BY Division
<1>2. e \div (b * TotalFrames) = q \div b
  BY QuotientOfQuotient
<1>a. FrameOf(e) = r /\ (IsPresent(e) <=> q % 2 = 1)
  BY DEF FrameOf, IsPresent
<1>. HIDE DEF q, r
<1>3. q < 32
  BY <1>1
<1>4. CASE (q \div b) % 2 = 1
  BY <1>2, <1>4 DEF WithBit
<1>5. CASE (q \div b) % 2 # 1
  <2>1. q + b < 32 /\ (q + b) % 2 = q % 2 /\ q + b \in Nat
    BY <1>3, <1>1, <1>5
  <2>2. e + b * TotalFrames = TotalFrames * (q + b) + r
    BY <1>1
  <2>3. WithBit(e, b * TotalFrames) = TotalFrames * (q + b) + r
    BY <2>2, <1>2, <1>5 DEF WithBit
  <2>4. (TotalFrames * (q + b) + r) \div TotalFrames = q + b
        /\ (TotalFrames * (q + b) + r) % TotalFrames = r
    BY <2>1, <1>1, Quotient
  <2>5. TotalFrames * (q + b) + r \in Nat /\ TotalFrames * (q + b) + r < 32 * TotalFrames
    BY <2>1, <1>1
  <2>. QED
    BY <2>1, <2>3, <2>4, <2>5, <1>a DEF IsPresent, FrameOf
<1>. QED
  BY <1>4, <1>5

\* Marking an entry accessed and dirty leaves its frame and presence alone.
LEMMA TouchedKeeps ==
    ASSUME NEW e \in Nat, e < 32 * TotalFrames
    PROVE  /\ Touched(e) \in Word /\ Touched(e) < 32 * TotalFrames
           /\ IsPresent(Touched(e)) <=> IsPresent(e)
           /\ FrameOf(Touched(e)) = FrameOf(e)
<1>. DEFINE d == WithBit(e, 8 * TotalFrames)
<1>1. /\ d \in Nat /\ d < 32 * TotalFrames
      /\ IsPresent(d) <=> IsPresent(e)
      /\ FrameOf(d) = FrameOf(e)
  BY WithBitKeeps
<1>2. Touched(e) = WithBit(d, 16 * TotalFrames)
  BY DEF Touched
<1>. HIDE DEF d
<1>3. /\ Touched(e) \in Nat /\ Touched(e) < 32 * TotalFrames
      /\ IsPresent(Touched(e)) <=> IsPresent(d)
      /\ FrameOf(Touched(e)) = FrameOf(d)
  BY <1>1, <1>2, WithBitKeeps
<1>. QED
  BY <1>1, <1>3, Sizes DEF Word

\* A byte address of a page is a word of the frame.
LEMMA InFrame ==
    ASSUME NEW f \in Frames, NEW a \in Nat
    PROVE  LET w == (f * PageBytes + (a % PageBytes)) \div WORD_SIZE
           IN  /\ w \in 0 .. TotalWords - 1 /\ w \div WordsPerPage = f
               /\ w % WordsPerPage = (a % PageBytes) \div WORD_SIZE
<1>. USE Sizes
<1>. DEFINE r == (a % PageBytes) \div WORD_SIZE
           s == (a % PageBytes) % WORD_SIZE
           w == (f * PageBytes + (a % PageBytes)) \div WORD_SIZE
<1>1. a % PageBytes \in 0 .. PageBytes - 1
  BY Division
<1>2. r \in Nat /\ s \in 0 .. 3 /\ a % PageBytes = 4 * r + s
  <2>1. a % PageBytes \in Nat /\ WORD_SIZE \in Nat \ {0} /\ WORD_SIZE = 4
    BY <1>1 DEF WORD_SIZE
  <2>. HIDE DEF r, s
  <2>2. r \in Nat /\ s \in 0 .. WORD_SIZE - 1 /\ a % PageBytes = WORD_SIZE * r + s
    BY <2>1, Division, SMTT(30) DEF r, s
  <2>. QED
    BY <2>1, <2>2
<1>3. r \in 0 .. WordsPerPage - 1
  BY <1>1, <1>2
<1>4. f \in Nat /\ f <= TotalFrames - 1
  BY DEF Frames
<1>5. f * PageBytes + (a % PageBytes) = 4 * (WordsPerPage * f + r) + s
  BY <1>2, <1>3, <1>4
<1>6. w = (4 * (WordsPerPage * f + r) + s) \div 4
  BY <1>5 DEF WORD_SIZE
<1>. HIDE DEF r, s, w
<1>7. WordsPerPage * f + r \in Nat
  BY <1>3, <1>4
<1>8. w = WordsPerPage * f + r
  BY <1>6, <1>7, <1>2, Quotient
<1>9. w \div WordsPerPage = f /\ w % WordsPerPage = r
  BY <1>8, <1>3, <1>4, Quotient
<1>10. WordsPerPage * f <= WordsPerPage * (TotalFrames - 1)
  BY <1>4
<1>11. WordsPerPage * (TotalFrames - 1) = TotalWords - WordsPerPage
  BY DEF TotalWords
<1>12. w \in 0 .. TotalWords - 1
  <2>. DEFINE x == WordsPerPage * f
  <2>1. x \in Nat /\ x <= TotalWords - WordsPerPage /\ w = x + r
    BY <1>4, <1>8, <1>10, <1>11
  <2>. HIDE DEF x
  <2>. QED
    BY <2>1, <1>3
<1>. QED
  BY <1>9, <1>12 DEF w, r

----------------------------------------------------------------------------
(* Files and instructions.                                                 *)


\* What the loader computes from the header of a file with a .text.
LEMMA FileSizes ==
    ASSUME NEW f \in FileContents, f.found_text
    PROVE  /\ code_size(f) \in Nat /\ data_words(f) \in Nat
           /\ code_size(f) + data_words(f) <= Len(f.words)
           /\ total_words(f) \in Nat \ {0} /\ total_words(f) * WORD_SIZE <= AddressSpace
           /\ code_end_word(f) <= total_words(f) /\ data_end_word(f) <= total_words(f)
           /\ ttl(f) \in 1 .. MaxTtl
<1>. USE Sizes
<1>1. /\ f.text \in Nat /\ f.data \in Nat /\ f.words \in Seq(Word) /\ f.words # <<>>
      /\ code_size(f) <= Len(f.words) /\ Len(f.words) < WordModulus
      /\ total_words(f) * WORD_SIZE <= AddressSpace
  BY LoaderAssumption DEF FileAssumptionOn
<1>2. Len(f.words) \in Nat /\ Len(f.words) > 0
  BY <1>1, EmptySeq, LenProperties
<1>3. WORD_SIZE \in Nat \ {0}
  BY DEF WORD_SIZE
<1>4. code_size(f) \in Nat
  <2>1. CASE HasDataSection(f)
    <3>1. f.data - f.text \in Nat
      BY <1>1, <2>1 DEF HasDataSection
    <3>. QED
      BY <2>1, <3>1, <1>3, Division DEF code_size
  <2>2. CASE ~HasDataSection(f)
    BY <2>2, <1>2 DEF code_size
  <2>. QED
    BY <2>1, <2>2
<1>5. /\ data_words(f) \in Nat /\ code_size(f) + data_words(f) <= Len(f.words)
      /\ code_size(f) = 0 => data_words(f) > 0 /\ f.data > 0 
  <2>1. CASE HasDataSection(f)
    <3>. DEFINE n == Len(f.words)
               c == code_size(f)
    <3>1. n \in Nat /\ c \in Nat /\ c <= n /\ n < WordModulus /\ n > 0
      BY <1>1, <1>2, <1>4
    <3>2. data_words(f) = (n + WordModulus - c) % WordModulus
      BY <2>1 DEF data_words
    <3>. HIDE DEF n, c
    <3>3. n + WordModulus - c = WordModulus * 1 + (n - c) /\ n - c \in 0 .. WordModulus - 1
      BY <3>1
    <3>4. (WordModulus * 1 + (n - c)) % WordModulus = n - c
      BY <3>3, Quotient
    <3>5. data_words(f) = n - c
      BY <3>2, <3>3, <3>4
    <3>6. f.data > 0
      BY <2>1, <1>1 DEF HasDataSection
    <3>. QED
      BY <3>5, <3>1, <3>6 DEF n, c
  <2>2. CASE ~HasDataSection(f)
    BY <2>2, <1>1, <1>2 DEF code_size, data_words
  <2>. QED
    BY <2>1, <2>2
<1>6. code_start_word(f) \in Nat /\ data_start_word(f) \in Nat
  BY <1>1, <1>3, Division DEF code_start_word, data_start_word
<1>7. /\ total_words(f) \in Nat \ {0}
      /\ code_end_word(f) <= total_words(f) /\ data_end_word(f) <= total_words(f)
  <2>1. code_end_word(f) \in Nat /\ data_end_word(f) \in Nat
        /\ (code_end_word(f) > 0 \/ data_end_word(f) > 0)
    BY <1>4, <1>5, <1>6 DEF code_end_word, data_end_word
  <2>. QED
    BY <2>1 DEF total_words
<1>8. ttl(f) \in 1 .. MaxTtl
  BY <1>4, LoaderAssumption DEF ttl
<1>. QED
  BY <1>1, <1>4, <1>5, <1>7, <1>8

\* The pages of a program hold its words, and a byte of one of its words is in
\* one of its pages.
LEMMA PagesHoldWords ==
    ASSUME NEW f \in FileContents, f.found_text
    PROVE  /\ total_pages(f) \in Nat \ {0}
           /\ \A a \in Nat : a \div WORD_SIZE < total_words(f)
                 => a < AddressSpace /\ a \div PageBytes \in 0 .. total_pages(f) - 1
<1>. USE Sizes
<1>. DEFINE n == total_words(f) * WORD_SIZE
           m == total_pages(f)
<1>1. /\ total_words(f) \in Nat \ {0} /\ n = 4 * total_words(f) /\ n \in Nat \ {0}
      /\ n <= AddressSpace
  BY FileSizes DEF WORD_SIZE
<1>2. m = (n + PageBytes - 1) \div PageBytes
  BY DEF total_pages
<1>. HIDE DEF n, m
<1>3. n + PageBytes - 1 \in Nat
  BY <1>1
<1>4. /\ m \in Nat
      /\ (n + PageBytes - 1) % PageBytes \in 0 .. PageBytes - 1
      /\ n + PageBytes - 1 = PageBytes * m + ((n + PageBytes - 1) % PageBytes)
  BY <1>2, <1>3, Division
<1>5. n <= PageBytes * m /\ PageBytes * m \in Nat
  BY <1>1, <1>4
<1>6. m # 0
  BY <1>1, <1>5
<1>7. ASSUME NEW a \in Nat, a \div WORD_SIZE < total_words(f)
      PROVE  a < AddressSpace /\ a \div PageBytes \in 0 .. m - 1
  <2>1. a \div 4 \in Nat /\ a % 4 \in 0 .. 3 /\ a = 4 * (a \div 4) + (a % 4)
    BY Division
  <2>2. a < n
    BY <2>1, <1>1, <1>7 DEF WORD_SIZE
  <2>3. a \div PageBytes \in Nat /\ a % PageBytes \in 0 .. PageBytes - 1
        /\ a = PageBytes * (a \div PageBytes) + (a % PageBytes)
    BY Division
  <2>. DEFINE q == a \div PageBytes
  <2>4. q \in Nat /\ PageBytes * q <= a /\ PageBytes * q \in Nat
    BY <2>3
  <2>. HIDE DEF q
  <2>5. PageBytes * q < PageBytes * m
    BY <2>2, <2>4, <1>5, <1>1
  <2>6. q < m
    <3>1. CASE q >= m
      <4>1. PageBytes * q = PageBytes * m + PageBytes * (q - m)
        BY <2>4, <1>4
      <4>2. PageBytes * (q - m) \in Nat
        BY <2>4, <1>4, <3>1
      <4>. QED
        BY <4>1, <4>2, <2>5, <2>4, <1>5
    <3>. QED
      BY <3>1, <2>4, <1>4
  <2>7. q \in 0 .. m - 1
    BY <2>6, <2>4, <1>4
  <2>. QED
    BY <2>7, <2>2, <1>1 DEF q
<1>8. m \in Nat \ {0}
  BY <1>4, <1>6
<1>. QED
  BY <1>7, <1>8 DEF m

\* The loader puts words into memory.
LEMMA InitialWords ==
    ASSUME NEW f \in FileContents, f.found_text, NEW w \in Nat
    PROVE  InitialWord(f, w) \in Word
<1>1. f.words \in Seq(Word) /\ Len(f.words) \in Nat /\ f.text \in Nat /\ f.data \in Nat
  BY LoaderAssumption, LenProperties
<1>2. /\ code_size(f) \in Nat /\ data_words(f) \in Nat
      /\ code_size(f) + data_words(f) <= Len(f.words)
  BY FileSizes
<1>3. code_start_word(f) \in Nat /\ data_start_word(f) \in Nat
  <2>1. WORD_SIZE \in Nat \ {0}
    BY DEF WORD_SIZE
  <2>. QED
    BY <1>1, <2>1, Division DEF code_start_word, data_start_word
<1>4. \A x \in 1 .. Len(f.words) : f.words[x] \in Word
  BY <1>1, ElementOfSeq
<1>5. 0 \in Word
  BY Sizes DEF Word
<1>6. CASE data_start_word(f) <= w /\ w < data_end_word(f)
  <2>1. code_size(f) + w - data_start_word(f) + 1 \in 1 .. Len(f.words)
    BY <1>2, <1>3, <1>1, <1>6 DEF data_end_word
  <2>. QED
    BY <2>1, <1>4, <1>6 DEF InitialWord
<1>7. CASE ~(data_start_word(f) <= w /\ w < data_end_word(f))
  <2>1. code_start_word(f) <= w /\ w < code_end_word(f) =>
          w - code_start_word(f) + 1 \in 1 .. Len(f.words)
    BY <1>2, <1>3, <1>1 DEF code_end_word
  <2>. QED
    BY <2>1, <1>4, <1>5, <1>7 DEF InitialWord
<1>. QED
  BY <1>6, <1>7


\* The fields of an instruction, and the sum of two words.
LEMMA Decoding ==
    ASSUME NEW w \in Word
    PROVE  /\ extract_reg(w) \in RegisterNumbers
           /\ extract_address(w) \in 0 .. AddressSpace - 1
           /\ extract_reg_src1(w) \in RegisterNumbers
           /\ extract_reg_src2(w) \in RegisterNumbers
<1>. DEFINE n == NumRegisters
           a == AddressSpace
           k == AddressSpace \div (NumRegisters * NumRegisters)
<1>1. n \in Nat \ {0} /\ a \in Nat \ {0} /\ n * n \in Nat \ {0}
  BY Sizes
<1>2. k \in Nat /\ a = (n * n) * k
  <2>1. a % (n * n) = 0
    BY InstructionAssumption
  <2>. HIDE DEF n, a
  <2>2. a \div (n * n) \in Nat /\ a = (n * n) * (a \div (n * n)) + (a % (n * n))
    BY <1>1, Division
  <2>3. a = (n * n) * (a \div (n * n))
    BY <2>1, <2>2, <1>1
  <2>. QED
    BY <2>2, <2>3 DEF n, a
<1>3. w \in Nat
  BY DEF Word
<1>4. /\ extract_reg(w) = (w \div a) % n
      /\ extract_address(w) = w % a
      /\ extract_reg_src1(w) = (w % a) \div (a \div n)
      /\ extract_reg_src2(w) = ((w % a) \div k) % n
      /\ RegisterNumbers = 0 .. n - 1 /\ AddressSpace = a
  BY DEF extract_reg, extract_address, extract_reg_src1, extract_reg_src2, RegisterNumbers
<1>. HIDE DEF n, a, k
<1>5. k > 0
  BY <1>1, <1>2
<1>6. w % a \in 0 .. a - 1 /\ w \div a \in Nat
  BY <1>1, <1>3, Division
<1>7. a \div n = n * k
  <2>1. a = n * (n * k) + 0 /\ n * k \in Nat
    BY <1>1, <1>2
  <2>. QED
    BY <2>1, <1>1, Quotient
<1>8. n * k \in Nat \ {0}
  BY <1>1, <1>2, <1>5
<1>. DEFINE x == w % a
           y == n * k
           q == x \div y
<1>9. x \in Nat /\ x < n * y
  BY <1>6, <1>2, <1>1
<1>10. q \in 0 .. n - 1
  <2>1. y \in Nat \ {0}
    BY <1>8
  <2>. HIDE DEF x, y
  <2>2. q \in Nat /\ x % y \in 0 .. y - 1 /\ x = y * q + (x % y)
    BY <2>1, <1>9, Division
  <2>. HIDE DEF q
  <2>3. y * q <= x /\ y * q \in Nat
    BY <2>1, <2>2
  <2>4. CASE q >= n
    <3>1. y * q = y * n + y * (q - n) /\ y * (q - n) \in Nat /\ y * n = n * y /\ n * y \in Nat
      BY <2>1, <2>2, <2>4, <1>1
    <3>. QED
      BY <3>1, <2>3, <1>9
  <2>. QED
    BY <2>2, <2>4, <1>1
<1>11. (x \div k) % n \in 0 .. n - 1
  <2>. HIDE DEF x
  <2>1. x \div k \in Nat
    BY <1>9, <1>2, <1>5, Division
  <2>. QED
    BY <2>1, <1>1, Division
<1>12. (w \div a) % n \in 0 .. n - 1
  BY <1>6, <1>1, Division
<1>. QED
  BY <1>4, <1>6, <1>7, <1>10, <1>11, <1>12 DEF x, y, q

\* The sum of two words wraps to a word.
LEMMA SumIsWord ==
    ASSUME NEW x \in Word, NEW y \in Word
    PROVE  Sum32(x, y) \in Word
<1>1. x + y \in Nat
  BY DEF Word
<1>. QED
  BY <1>1, Sizes, Division DEF Word, Sum32

\* Before the first file is read.
LEMMA SoundInit ==
    ASSUME Init
    PROVE  Sound
<1>. USE Sizes, LoaderAssumption, ExecutionAssumption
<1>1. /\ memory = [x \in 0 .. TotalWords - 1 |-> 0] /\ frame_bitmap = 0 .. KernelFrames - 1
      /\ next_kernel_frame = 0 /\ total_allocated_frames = KernelFrames
      /\ files_read = 0 /\ next_pid = 1 /\ program = [p \in Pids |-> NoFile]
      /\ pcb = [p \in Pids |-> NewPcb] /\ page_tables = [p \in Pids |-> [base |-> 0, pages |-> 0]]
      /\ loading = NotLoading /\ ready_queue = {} /\ freed = {} /\ hw_threads = <<>>
  BY DEF Init, LoaderInit, MemoryInit
<1>2. NewPcb \in PcbType
  <2>1. 0 \in Word
    BY DEF Word
  <2>2. [r \in RegisterNumbers |-> 0] \in [RegisterNumbers -> Word]
    BY <2>1
  <2>. QED
    BY <2>2 DEF NewPcb, PcbType
<1>3. TypeOK
  <2>1. memory \in [0 .. TotalWords - 1 -> Word]
    BY <1>1 DEF Word
  <2>2. frame_bitmap \subseteq Frames
    BY <1>1 DEF Frames
  <2>3. loading \in [pid : Pids \cup {0}, page : Nat]
    BY <1>1 DEF NotLoading
  <2>4. Len(hw_threads) <= NumThreads /\ DOMAIN hw_threads = {}
    BY <1>1
  <2>. QED
    BY <1>1, <1>2, <2>1, <2>2, <2>3, <2>4 DEF TypeOK
<1>4. hw_threads \in Seq(Threads)
  BY <1>1
<1>5. \A p \in Pids : base(p) = 0 /\ pages(p) = 0
  BY <1>1 DEF base, pages
<1>6. LaidOut
  BY <1>1, <1>5 DEF LaidOut, Pids
<1>7. Booked
  <2>1. Cardinality(0 .. KernelFrames - 1) = KernelFrames
    BY FS_Interval
  <2>. QED
    BY <1>1, <1>5, <2>1 DEF Booked
<1>8. Filling
  BY <1>1 DEF Filling
<1>9. Settled
  BY <1>1 DEF Settled, Admitted, Pids
<1>. QED
  BY <1>3, <1>4, <1>6, <1>7, <1>8, <1>9 DEF Sound

----------------------------------------------------------------------------
(* The loader.                                                             *)


\* The entries of the tables are words of kernel space, each in one place.
LEMMA EntriesInKernel ==
    ASSUME Sound
    PROVE  /\ \A p \in Pids : base(p) \in Nat /\ pages(p) \in Nat
           /\ \A p \in Pids : \A i \in 0 .. pages(p) - 1 :
                 /\ base(p) + i \in 0 .. next_kernel_frame - 1
                 /\ base(p) + i \in 0 .. KernelWords - 1
                 /\ base(p) + i \in 0 .. TotalWords - 1
                 /\ Entry(p, i) \in Word /\ Entry(p, i) \in Nat
           /\ \A p, q \in Pids : \A i \in 0 .. pages(p) - 1, j \in 0 .. pages(q) - 1 :
                 base(p) + i = base(q) + j => p = q /\ i = j
<1>. USE Sizes
<1>1. /\ memory \in [0 .. TotalWords - 1 -> Word] /\ next_kernel_frame \in Nat
      /\ page_tables \in [Pids -> [base : Nat, pages : Nat]]
  BY DEF Sound, TypeOK
<1>2. \A p \in Pids : base(p) \in Nat /\ pages(p) \in Nat
  BY <1>1 DEF base, pages
<1>3. /\ next_kernel_frame <= KernelWords
      /\ \A p \in Pids : base(p) + pages(p) <= next_kernel_frame
      /\ \A p, q \in Pids : p < q /\ pages(q) # 0 => base(p) + pages(p) <= base(q)
  BY DEF Sound, LaidOut
<1>4. ASSUME NEW p \in Pids, NEW i \in 0 .. pages(p) - 1
      PROVE  /\ base(p) + i \in 0 .. next_kernel_frame - 1
             /\ base(p) + i \in 0 .. KernelWords - 1
             /\ base(p) + i \in 0 .. TotalWords - 1
             /\ Entry(p, i) \in Word /\ Entry(p, i) \in Nat
  <2>1. base(p) + i \in 0 .. next_kernel_frame - 1
    BY <1>1, <1>2, <1>3
  <2>2. base(p) + i \in 0 .. KernelWords - 1 /\ base(p) + i \in 0 .. TotalWords - 1
    BY <2>1, <1>1, <1>3
  <2>. QED
    BY <2>1, <2>2, <1>1 DEF Entry, Word
<1>5. ASSUME NEW p \in Pids, NEW q \in Pids, NEW i \in 0 .. pages(p) - 1,
             NEW j \in 0 .. pages(q) - 1, base(p) + i = base(q) + j
      PROVE  p = q /\ i = j
  <2>1. pages(p) # 0 /\ pages(q) # 0 /\ p \in Nat /\ q \in Nat
    BY <1>2 DEF Pids
  <2>2. CASE p < q
    BY <1>2, <1>3, <1>5, <2>1, <2>2
  <2>3. CASE q < p
    BY <1>2, <1>3, <1>5, <2>1, <2>3
  <2>4. CASE p = q
    BY <1>2, <1>5, <2>4
  <2>. QED
    BY <2>1, <2>2, <2>3, <2>4
<1>. QED
  BY <1>2, <1>4, <1>5

\* What is left to show of a step that allocates no frame: the entries that are
\* present stay so and keep their frames, and no others become present.
LEMMA BookedByEntries ==
    ASSUME Sound, frame_bitmap' = frame_bitmap, total_allocated_frames' = total_allocated_frames,
           \A p \in Pids : pages(p)' \in Nat /\ pages(p) <= pages(p)',
           \A p \in Pids : \A i \in 0 .. pages(p)' - 1 :
              /\ Entry(p, i)' < 32 * TotalFrames
              /\ i < pages(p) => /\ IsPresent(Entry(p, i)') <=> IsPresent(Entry(p, i))
                                 /\ FrameOf(Entry(p, i)') = FrameOf(Entry(p, i))
              /\ ~(i < pages(p)) => ~IsPresent(Entry(p, i)')
    PROVE  Booked'
<1>1. Booked /\ \A p \in Pids : pages(p) \in Nat
  BY EntriesInKernel DEF Sound
<1>2. \A p \in Pids : \A i \in 0 .. pages(p)' - 1 : IsPresent(Entry(p, i)') =>
        /\ i \in 0 .. pages(p) - 1 /\ IsPresent(Entry(p, i))
        /\ FrameOf(Entry(p, i)') = FrameOf(Entry(p, i))
  BY <1>1
<1>3. \A p \in Pids : \A i \in 0 .. pages(p) - 1 : IsPresent(Entry(p, i)) =>
        /\ i \in 0 .. pages(p)' - 1 /\ IsPresent(Entry(p, i)')
        /\ FrameOf(Entry(p, i)') = FrameOf(Entry(p, i))
  BY <1>1
<1>4. (0 .. KernelFrames - 1 \subseteq frame_bitmap /\ total_allocated_frames = Cardinality(frame_bitmap))'
  BY <1>1 DEF Booked
<1>5. \A p \in Pids : \A i \in 0 .. pages(p)' - 1 :
          /\ Entry(p, i)' < 32 * TotalFrames
          /\ IsPresent(Entry(p, i)') => FrameOf(Entry(p, i)') \in frame_bitmap \ (0 .. KernelFrames - 1)
  BY <1>1, <1>2 DEF Booked
<1>6. \A p, q \in Pids : \A i \in 0 .. pages(p)' - 1, j \in 0 .. pages(q)' - 1 :
          IsPresent(Entry(p, i)') /\ IsPresent(Entry(q, j)') /\ FrameOf(Entry(p, i)') = FrameOf(Entry(q, j)')
              => p = q /\ i = j
  BY <1>1, <1>2 DEF Booked
<1>7. \A f \in frame_bitmap \ (0 .. KernelFrames - 1) :
          \E p \in Pids : \E i \in 0 .. pages(p)' - 1 :
              IsPresent(Entry(p, i)') /\ FrameOf(Entry(p, i)') = f
  <2>. SUFFICES ASSUME NEW f \in frame_bitmap \ (0 .. KernelFrames - 1)
                PROVE  \E p \in Pids : \E i \in 0 .. pages(p)' - 1 :
                          IsPresent(Entry(p, i)') /\ FrameOf(Entry(p, i)') = f
    OBVIOUS
  <2>1. PICK p \in Pids : \E i \in 0 .. pages(p) - 1 : IsPresent(Entry(p, i)) /\ FrameOf(Entry(p, i)) = f
    BY <1>1 DEF Booked
  <2>. QED
    BY <2>1, <1>3
<1>. QED
  BY <1>4, <1>5, <1>6, <1>7 DEF Booked, IsPresent, FrameOf

\* A file without .text leaves everything as it was.
LEMMA RejectKeeps ==
    ASSUME Sound, NEW f \in FileContents, RejectFile(f), UNCHANGED hw_threads
    PROVE  Sound'
<1>1. /\ files_read < MaxFiles /\ files_read' = files_read + 1
      /\ UNCHANGED <<memory, frame_bitmap, next_kernel_frame, total_allocated_frames, next_pid,
                     program, pcb, page_tables, loading, ready_queue, freed, hw_threads>>
  BY DEF RejectFile, ReadsFile, memoryVars
<1>2. files_read \in 0 .. MaxFiles /\ MaxFiles \in Nat /\ next_pid \in Nat
  BY LoaderAssumption DEF Sound, TypeOK
<1>3. TypeOK' /\ (hw_threads \in Seq(Threads))'
  BY <1>1, <1>2 DEF Sound, TypeOK
<1>4. LaidOut'
  BY <1>1, <1>2 DEF Sound, LaidOut, base, pages
<1>5. Booked' /\ Filling' /\ Settled'
  BY <1>1 DEF Sound, Booked, Filling, Settled, Entry, base, pages, Admitted
<1>. QED
  BY <1>3, <1>4, <1>5 DEF Sound

\* A process without room for its page table leaves only its PCB behind.
LEMMA NoSpaceKeeps ==
    ASSUME Sound, NEW f \in FileContents, OutOfKernelSpace(f), UNCHANGED hw_threads
    PROVE  Sound'
<1>1. /\ files_read < MaxFiles /\ files_read' = files_read + 1 /\ loading = NotLoading
      /\ next_pid' = next_pid + 1 /\ freed' = freed \cup {next_pid}
      /\ UNCHANGED <<memory, frame_bitmap, next_kernel_frame, total_allocated_frames,
                     program, pcb, page_tables, loading, ready_queue, hw_threads>>
  BY DEF OutOfKernelSpace, ReadsFile, memoryVars
<1>2. files_read \in 0 .. MaxFiles /\ MaxFiles \in Nat /\ next_pid \in 1 .. MaxFiles + 1
      /\ next_pid <= files_read + 1
  BY LoaderAssumption DEF Sound, TypeOK, LaidOut
<1>3. next_pid \in Pids
  BY <1>1, <1>2 DEF Pids
<1>4. TypeOK' /\ (hw_threads \in Seq(Threads))'
  BY <1>1, <1>2, <1>3 DEF Sound, TypeOK
<1>5. LaidOut'
  BY <1>1, <1>2, <1>3 DEF Sound, LaidOut, base, pages, Pids
<1>6. Booked' /\ Filling'
  BY <1>1 DEF Sound, Booked, Filling, Entry, base, pages
<1>7. Admitted' = Admitted
  BY <1>1, <1>2 DEF Admitted, Pids
<1>8. Settled'
  BY <1>1, <1>7 DEF Sound, Settled, Entry, base, pages
<1>. QED
  BY <1>4, <1>5, <1>6, <1>8 DEF Sound

\* A new page table lies behind the others, and nothing in it is present.
LEMMA CreateKeeps ==
    ASSUME Sound, NEW f \in FileContents, CreateProcess(f), UNCHANGED hw_threads
    PROVE  Sound'
<1>. USE Sizes
<1>. DEFINE n == total_pages(f)
<1>a. PICK c : c = next_pid
  OBVIOUS
<1>b. PICK b : b = next_kernel_frame
  OBVIOUS
<1>1. /\ files_read < MaxFiles /\ files_read' = files_read + 1 /\ loading = NotLoading
      /\ f.found_text /\ b + n <= KernelWords /\ next_kernel_frame' = b + n
      /\ memory' = [x \in DOMAIN memory |-> IF x \in b .. b + n - 1 THEN UnmappedEntry ELSE memory[x]]
      /\ next_pid' = c + 1 /\ program' = [program EXCEPT ![c] = f]
      /\ pcb' = [pcb EXCEPT ![c].ttl = ttl(f), ![c].pgb = b]
      /\ page_tables' = [page_tables EXCEPT ![c] = [base |-> b, pages |-> n]]
      /\ loading' = [pid |-> c, page |-> 0]
      /\ UNCHANGED <<frame_bitmap, total_allocated_frames, ready_queue, freed, hw_threads>>
  BY <1>a, <1>b DEF CreateProcess, ReadsFile, create_page_table, HasKernelSpace
<1>2. files_read \in 0 .. MaxFiles /\ MaxFiles \in Nat /\ c \in 1 .. MaxFiles + 1
      /\ c <= files_read + 1 /\ b \in Nat
  BY <1>a, <1>b, LoaderAssumption DEF Sound, TypeOK, LaidOut
<1>3. c \in Pids /\ Pids \subseteq Nat
  BY <1>1, <1>2 DEF Pids
<1>4. n \in Nat \ {0} /\ ttl(f) \in 1 .. MaxTtl /\ MaxTtl \in Nat
  BY <1>1, PagesHoldWords, FileSizes, LoaderAssumption
<1>5. /\ memory \in [0 .. TotalWords - 1 -> Word]
      /\ pcb \in [Pids -> PcbType] /\ program \in [Pids -> FileContents \cup {NoFile}]
      /\ page_tables \in [Pids -> [base : Nat, pages : Nat]]
  BY DEF Sound, TypeOK
<1>6. /\ \A p \in Pids : base(p) \in Nat /\ pages(p) \in Nat
      /\ \A p \in Pids : \A i \in 0 .. pages(p) - 1 : base(p) + i \in 0 .. b - 1 /\ base(p) + i \in 0 .. TotalWords - 1
  BY <1>b, EntriesInKernel
<1>7. pages(c) = 0 /\ c \notin freed
  BY <1>a, <1>3 DEF Sound, LaidOut
<1>. HIDE DEF n
<1>8. /\ base(c)' = b /\ pages(c)' = n
      /\ \A p \in Pids \ {c} : base(p)' = base(p) /\ pages(p)' = pages(p)
  BY <1>1, <1>3, <1>5 DEF base, pages
<1>9. \A p \in Pids \ {c} : \A i \in 0 .. pages(p) - 1 : Entry(p, i)' = Entry(p, i)
  <2>. SUFFICES ASSUME NEW p \in Pids \ {c}, NEW i \in 0 .. pages(p) - 1
                PROVE  Entry(p, i)' = Entry(p, i)
    OBVIOUS
  <2>1. base(p) + i \in DOMAIN memory /\ ~(base(p) + i \in b .. b + n - 1)
    BY <1>2, <1>4, <1>5, <1>6
  <2>2. memory'[base(p) + i] = memory[base(p) + i]
    BY <2>1, <1>1
  <2>. QED
    BY <2>2, <1>8 DEF Entry
<1>10. \A i \in 0 .. n - 1 : Entry(c, i)' = UnmappedEntry
  <2>. SUFFICES ASSUME NEW i \in 0 .. n - 1
                PROVE  Entry(c, i)' = UnmappedEntry
    OBVIOUS
  <2>1. b + i \in DOMAIN memory /\ b + i \in b .. b + n - 1
    <3>1. b + n <= KernelWords /\ b \in Nat /\ n \in Nat /\ DOMAIN memory = 0 .. TotalWords - 1
      BY <1>1, <1>2, <1>4, <1>5
    <3>2. i \in Nat /\ i < n
      BY <3>1
    <3>3. b + i < TotalWords /\ b + i \in Nat
      BY <3>1, <3>2
    <3>. QED
      BY <3>1, <3>2, <3>3
  <2>2. memory'[b + i] = UnmappedEntry
    BY <2>1, <1>1
  <2>. QED
    BY <2>2, <1>8 DEF Entry
<1>11. UnmappedEntry \in Word /\ ~IsPresent(UnmappedEntry) /\ UnmappedEntry < 32 * TotalFrames
  BY UnmappedIsAbsent
<1>12. pcb' \in [Pids -> PcbType] /\ \A p \in Pids \ {c} : pcb'[p] = pcb[p]
  <2>1. pcb' = [pcb EXCEPT ![c] = [pcb[c] EXCEPT !.ttl = ttl(f), !.pgb = b]]
    BY <1>1, <1>3, <1>5
  <2>2. b \in 0 .. KernelWords - 1
    BY <1>1, <1>2, <1>4
  <2>3. pcb[c] \in PcbType
    BY <1>3, <1>5
  <2>4. [pcb[c] EXCEPT !.ttl = ttl(f), !.pgb = b] \in PcbType
    <3>1. ttl(f) \in 0 .. MaxTtl
      BY <1>4
    <3>. QED
      BY <2>2, <2>3, <3>1 DEF PcbType
  <2>. QED
    BY <2>1, <2>4, <1>3, <1>5
<1>13. TypeOK'
  <2>1. (memory \in [0 .. TotalWords - 1 -> Word])'
    BY <1>1, <1>5, <1>11
  <2>2. (program \in [Pids -> FileContents \cup {NoFile}])'
    BY <1>1, <1>3, <1>5
  <2>3. (page_tables \in [Pids -> [base : Nat, pages : Nat]])'
    BY <1>1, <1>2, <1>3, <1>4, <1>5
  <2>4. (loading \in [pid : Pids \cup {0}, page : Nat])'
    BY <1>1, <1>3
  <2>5. (next_kernel_frame \in Nat /\ files_read \in 0 .. MaxFiles /\ next_pid \in 1 .. MaxFiles + 1)'
    BY <1>1, <1>2, <1>4
  <2>6. (frame_bitmap \subseteq Frames /\ total_allocated_frames \in Nat
         /\ ready_queue \subseteq Pids /\ freed \subseteq Pids /\ Len(hw_threads) <= NumThreads
         /\ \A k \in DOMAIN hw_threads : hw_threads[k] \in Threads)'
    BY <1>1 DEF Sound, TypeOK, Threads
  <2>. QED
    BY <2>1, <2>2, <2>3, <2>4, <2>5, <2>6, <1>12 DEF TypeOK, Threads
<1>14. LaidOut'
  <2>1. \A p \in Pids \ {c} : program'[p] = program[p]
    BY <1>1, <1>3, <1>5
  <2>2. program'[c] = f
    BY <1>1, <1>3, <1>5
  <2>3. (next_kernel_frame <= KernelWords /\ next_pid <= files_read + 1)'
    BY <1>1, <1>2
  <2>4. \A p \in Pids : base(p) + pages(p) <= b
    BY <1>b DEF Sound, LaidOut
  <2>5. ASSUME NEW p \in Pids
        PROVE  /\ base(p)' + pages(p)' <= next_kernel_frame'
               /\ p >= next_pid' => pages(p)' = 0 /\ p \notin freed' /\ pcb'[p] = NewPcb
               /\ pages(p)' # 0 =>
                     /\ program'[p] \in FileContents /\ program'[p].found_text
                     /\ pages(p)' = total_pages(program'[p])
    <3>1. CASE p = c
      <4>1. ~(p >= next_pid')
        BY <3>1, <1>1, <1>2
      <4>. QED
        BY <3>1, <4>1, <2>2, <1>1, <1>2, <1>4, <1>8 DEF n
    <3>2. CASE p # c
      <4>1. p >= next_pid' => p >= c
        BY <1>1, <1>2, <1>3
      <4>2. /\ p >= c => pages(p) = 0 /\ p \notin freed /\ pcb[p] = NewPcb
            /\ pages(p) # 0 =>
                  /\ program[p] \in FileContents /\ program[p].found_text
                  /\ pages(p) = total_pages(program[p])
        BY <1>a DEF Sound, LaidOut
      <4>3. base(p) + pages(p) <= b + n
        BY <2>4, <1>2, <1>4, <1>6
      <4>. QED
        BY <3>2, <4>1, <4>2, <4>3, <2>1, <1>1, <1>8, <1>12
    <3>. QED
      BY <3>1, <3>2
  <2>6. ASSUME NEW p \in Pids, NEW q \in Pids, p < q, pages(q)' # 0
        PROVE  base(p)' + pages(p)' <= base(q)'
    <3>1. \A x \in Pids : x > c => pages(x)' = 0
      BY <1>a, <1>8, <1>2, <1>3 DEF Sound, LaidOut
    <3>2. q <= c /\ p # c
      BY <2>6, <3>1, <1>2, <1>3
    <3>3. CASE q = c
      BY <3>2, <3>3, <2>4, <1>8
    <3>4. CASE q # c
      BY <3>2, <3>4, <2>6, <1>8 DEF Sound, LaidOut
    <3>. QED
      BY <3>3, <3>4
  <2>. QED
    BY <2>3, <2>5, <2>6 DEF LaidOut, base, pages
<1>15. Booked'
  <2>1. \A p \in Pids : pages(p)' \in Nat /\ pages(p) <= pages(p)'
    BY <1>4, <1>6, <1>7, <1>8
  <2>2. ASSUME NEW p \in Pids, NEW i \in 0 .. pages(p)' - 1
        PROVE  /\ Entry(p, i)' < 32 * TotalFrames
               /\ i < pages(p) => /\ IsPresent(Entry(p, i)') <=> IsPresent(Entry(p, i))
                                  /\ FrameOf(Entry(p, i)') = FrameOf(Entry(p, i))
               /\ ~(i < pages(p)) => ~IsPresent(Entry(p, i)')
    <3>1. CASE p = c
      BY <3>1, <1>7, <1>8, <1>10, <1>11, <1>4
    <3>2. CASE p # c
      <4>1. i \in 0 .. pages(p) - 1 /\ Entry(p, i)' = Entry(p, i)
        BY <3>2, <1>8, <1>9
      <4>2. Entry(p, i) < 32 * TotalFrames /\ i < pages(p)
        BY <4>1, <1>6 DEF Sound, Booked
      <4>. QED
        BY <4>1, <4>2
    <3>. QED
      BY <3>1, <3>2
  <2>. QED
    BY <2>1, <2>2, <1>1, BookedByEntries
<1>16. Filling'
  <2>1. loading'.pid = c /\ loading'.page = 0
    BY <1>1
  <2>2. pcb'[c].pgb = b
    BY <1>1, <1>3, <1>5 DEF PcbType
  <2>3. \A i \in 0 .. pages(c)' - 1 : IsPresent(Entry(c, i)') <=> i < 0
    BY <1>8, <1>10, <1>11, <1>4
  <2>4. c < next_pid' /\ c \notin freed'
    BY <1>1, <1>2, <1>7
  <2>. QED
    BY <2>1, <2>2, <2>3, <2>4, <1>3, <1>4, <1>8 DEF Filling, Entry, base, pages, IsPresent
<1>17. Settled'
  <2>1. Admitted' = Admitted /\ c \notin Admitted
    BY <1>a, <1>1, <1>2 DEF Admitted, Pids, NotLoading
  <2>2. \A p \in Admitted : /\ pages(p)' # 0 /\ pcb'[p].pgb = base(p)'
                            /\ \A i \in 0 .. pages(p)' - 1 : IsPresent(Entry(p, i)')
    <3>1. ASSUME NEW p \in Admitted
          PROVE  /\ pages(p)' # 0 /\ pcb'[p].pgb = base(p)'
                 /\ \A i \in 0 .. pages(p)' - 1 : IsPresent(Entry(p, i)')
      <4>1. p \in Pids \ {c}
        BY <2>1 DEF Admitted
      <4>2. /\ pages(p) # 0 /\ pcb[p].pgb = base(p)
            /\ \A i \in 0 .. pages(p) - 1 : IsPresent(Entry(p, i))
        BY DEF Sound, Settled
      <4>. QED
        BY <4>1, <4>2, <1>8, <1>9, <1>12
    <3>. QED
      BY <3>1
  <2>3. \A k \in DOMAIN hw_threads : /\ hw_threads[k].pcb \in Admitted \ ready_queue
                                     /\ hw_threads[k].PTBR = base(hw_threads[k].pcb)'
    <3>1. \A k \in DOMAIN hw_threads : /\ hw_threads[k].pcb \in Admitted \ ready_queue
                                       /\ hw_threads[k].PTBR = base(hw_threads[k].pcb)
      BY DEF Sound, Settled
    <3>2. \A p \in Admitted : base(p)' = base(p)
      BY <2>1, <1>8 DEF Admitted
    <3>. QED
      BY <3>1, <3>2
  <2>4. ready_queue \subseteq Admitted
        /\ \A j, k \in DOMAIN hw_threads : hw_threads[j].pcb = hw_threads[k].pcb => j = k
    BY DEF Sound, Settled
  <2>. QED
    BY <2>1, <2>2, <2>3, <2>4, <1>1 DEF Settled, Entry, base, pages, IsPresent
<1>. QED
  BY <1>1, <1>13, <1>14, <1>15, <1>16, <1>17 DEF Sound


\* The words of kernel space are in the first frames.
LEMMA KernelFrame ==
    ASSUME NEW x \in 0 .. KernelWords - 1
    PROVE  x \div WordsPerPage \in 0 .. KernelFrames - 1
<1>. USE Sizes
<1>. DEFINE q == x \div WordsPerPage
           r == x % WordsPerPage
<1>0. x \in Nat /\ WordsPerPage \in Nat \ {0}
  OBVIOUS
<1>. HIDE DEF q, r
<1>1. q \in Nat /\ r \in 0 .. WordsPerPage - 1 /\ x = WordsPerPage * q + r
  BY <1>0, Division DEF q, r
<1>2. WordsPerPage * q < KernelFrames * WordsPerPage /\ WordsPerPage * q \in Nat
  BY <1>1 DEF KernelWords
<1>3. CASE q >= KernelFrames
  <2>1. WordsPerPage * q = KernelFrames * WordsPerPage + WordsPerPage * (q - KernelFrames)
        /\ WordsPerPage * (q - KernelFrames) \in Nat /\ KernelFrames * WordsPerPage \in Nat
    BY <1>1, <1>3
  <2>. QED
    BY <2>1, <1>2
<1>. QED
  BY <1>1, <1>3 DEF q

\* A page is mapped to a frame that no other entry names.
LEMMA LoadPageKeeps ==
    ASSUME Sound, NEW p \in Pids, NEW page \in 0 .. KernelWords - 1, NEW frame \in FreeFrames,
           LoadPage(p, page, frame), UNCHANGED hw_threads
    PROVE  Sound'
<1>. USE Sizes
<1>1. /\ loading # NotLoading /\ p = loading.pid /\ page = loading.page /\ page < pages(p)
      /\ frame_bitmap' = frame_bitmap \cup {frame}
      /\ total_allocated_frames' = total_allocated_frames + 1
      /\ memory' = Filled(p, page, frame)
      /\ loading' = [loading EXCEPT !.page = page + 1]
      /\ UNCHANGED <<next_kernel_frame, files_read, next_pid, program, pcb, page_tables,
                     ready_queue, freed, hw_threads>>
  BY DEF LoadPage, Loads, allocate_frame, pages
<1>2. /\ memory \in [0 .. TotalWords - 1 -> Word] /\ frame_bitmap \subseteq Frames
      /\ loading \in [pid : Pids \cup {0}, page : Nat] /\ total_allocated_frames \in Nat
  BY DEF Sound, TypeOK
<1>3. /\ p < next_pid /\ p \notin freed /\ pages(p) # 0 /\ page <= pages(p)
      /\ pcb[p].pgb = base(p)
      /\ \A i \in 0 .. pages(p) - 1 : IsPresent(Entry(p, i)) <=> i < page
  BY <1>1 DEF Sound, Filling
<1>4. frame \in Frames /\ frame \notin frame_bitmap /\ frame \in Nat /\ frame >= KernelFrames
  BY DEF FreeFrames, Frames
<1>5. program[p] \in FileContents /\ program[p].found_text
  BY <1>3 DEF Sound, LaidOut
<1>6. /\ \A q \in Pids : base(q) \in Nat /\ pages(q) \in Nat
      /\ \A q \in Pids : \A i \in 0 .. pages(q) - 1 :
            base(q) + i \in 0 .. KernelWords - 1 /\ base(q) + i \in 0 .. TotalWords - 1
      /\ \A q, r \in Pids : \A i \in 0 .. pages(q) - 1, j \in 0 .. pages(r) - 1 :
                 base(q) + i = base(r) + j => q = r /\ i = j
  BY EntriesInKernel
<1>7. page \in 0 .. pages(p) - 1 /\ page \in Nat /\ page + 1 <= pages(p)
  BY <1>1, <1>6
<1>8. /\ MappedEntry(frame) \in Word /\ MappedEntry(frame) < 32 * TotalFrames
      /\ IsPresent(MappedEntry(frame)) /\ FrameOf(MappedEntry(frame)) = frame
  BY <1>4, MappedIsPresent
<1>9. \A q \in Pids : base(q)' = base(q) /\ pages(q)' = pages(q)
  BY <1>1 DEF base, pages
<1>10. (memory \in [0 .. TotalWords - 1 -> Word])'
  <2>1. ASSUME NEW x \in 0 .. TotalWords - 1
        PROVE  InitialWord(program[p], page * WordsPerPage + (x % WordsPerPage)) \in Word
    <3>1. x \in Nat /\ WordsPerPage \in Nat \ {0}
      OBVIOUS
    <3>2. x % WordsPerPage \in Nat
      BY <3>1, Division
    <3>3. page * WordsPerPage + (x % WordsPerPage) \in Nat
      BY <3>1, <3>2, <1>7
    <3>. QED
      BY <3>3, <1>5, InitialWords
  <2>. QED
    BY <2>1, <1>1, <1>2, <1>8 DEF Filled
<1>11. Entry(p, page)' = MappedEntry(frame)
       /\ \A q \in Pids : \A i \in 0 .. pages(q) - 1 :
             ~(q = p /\ i = page) => Entry(q, i)' = Entry(q, i)
  <2>1. ASSUME NEW q \in Pids, NEW i \in 0 .. pages(q) - 1
        PROVE  memory'[base(q) + i] = IF q = p /\ i = page THEN MappedEntry(frame) ELSE memory[base(q) + i]
    <3>1. base(q) + i \in 0 .. KernelWords - 1 /\ base(q) + i \in DOMAIN memory
      BY <1>2, <1>6
    <3>2. (base(q) + i) \div WordsPerPage # frame
      BY <3>1, <1>4, KernelFrame
    <3>3. base(q) + i = page_tables[p].base + page <=> q = p /\ i = page
      BY <1>6, <1>7 DEF base
    <3>. QED
      BY <3>1, <3>2, <3>3, <1>1 DEF Filled
  <2>. QED
    BY <2>1, <1>7, <1>9 DEF Entry
<1>12. TypeOK'
  <2>1. frame_bitmap' \subseteq Frames /\ total_allocated_frames' \in Nat
    <3>1. total_allocated_frames + 1 \in Nat
      BY <1>2
    <3>. QED
      BY <3>1, <1>1, <1>2, <1>4
  <2>2. loading' \in [pid : Pids \cup {0}, page : Nat]
    <3>1. page + 1 \in Nat
      BY <1>7
    <3>. QED
      BY <3>1, <1>1, <1>2
  <2>. QED
    BY <2>1, <2>2, <1>1, <1>10 DEF Sound, TypeOK
<1>13. LaidOut'
  BY <1>1 DEF Sound, LaidOut, base, pages
<1>14. Booked'
  <2>1. /\ 0 .. KernelFrames - 1 \subseteq frame_bitmap
        /\ total_allocated_frames = Cardinality(frame_bitmap)
        /\ \A q \in Pids : \A i \in 0 .. pages(q) - 1 :
              /\ Entry(q, i) < 32 * TotalFrames
              /\ IsPresent(Entry(q, i)) => FrameOf(Entry(q, i)) \in frame_bitmap \ (0 .. KernelFrames - 1)
        /\ \A q, r \in Pids : \A i \in 0 .. pages(q) - 1, j \in 0 .. pages(r) - 1 :
              IsPresent(Entry(q, i)) /\ IsPresent(Entry(r, j)) /\ FrameOf(Entry(q, i)) = FrameOf(Entry(r, j))
                  => q = r /\ i = j
        /\ \A f \in frame_bitmap \ (0 .. KernelFrames - 1) :
              \E q \in Pids : \E i \in 0 .. pages(q) - 1 :
                  IsPresent(Entry(q, i)) /\ FrameOf(Entry(q, i)) = f
    BY DEF Sound, Booked
  <2>2. (0 .. KernelFrames - 1 \subseteq frame_bitmap)'
    BY <2>1, <1>1
  <2>3. (total_allocated_frames = Cardinality(frame_bitmap))'
    <3>1. IsFiniteSet(frame_bitmap)
      <4>1. IsFiniteSet(0 .. TotalFrames - 1)
        BY FS_Interval
      <4>. QED
        BY <4>1, <1>2, FS_Subset DEF Frames
    <3>2. Cardinality(frame_bitmap \cup {frame}) = Cardinality(frame_bitmap) + 1
      BY <3>1, <1>4, FS_AddElement
    <3>. QED
      BY <3>2, <2>1, <1>1
  <2>4. ~IsPresent(Entry(p, page))
    BY <1>3, <1>7
  <2>5. \A q \in Pids : \A i \in 0 .. pages(q)' - 1 :
          /\ Entry(q, i)' < 32 * TotalFrames
          /\ IsPresent(Entry(q, i)') => FrameOf(Entry(q, i)') \in frame_bitmap' \ (0 .. KernelFrames - 1)
    <3>1. ASSUME NEW q \in Pids, NEW i \in 0 .. pages(q)' - 1
          PROVE  /\ Entry(q, i)' < 32 * TotalFrames
                 /\ IsPresent(Entry(q, i)') => FrameOf(Entry(q, i)') \in frame_bitmap' \ (0 .. KernelFrames - 1)
      <4>1. CASE q = p /\ i = page
        BY <4>1, <1>1, <1>4, <1>8, <1>11
      <4>2. CASE ~(q = p /\ i = page)
        BY <4>2, <2>1, <1>1, <1>9, <1>11
      <4>. QED
        BY <4>1, <4>2
    <3>. QED
      BY <3>1
  <2>6. \A q, r \in Pids : \A i \in 0 .. pages(q)' - 1, j \in 0 .. pages(r)' - 1 :
          IsPresent(Entry(q, i)') /\ IsPresent(Entry(r, j)') /\ FrameOf(Entry(q, i)') = FrameOf(Entry(r, j)')
              => q = r /\ i = j
    <3>1. ASSUME NEW q \in Pids, NEW r \in Pids, NEW i \in 0 .. pages(q)' - 1, NEW j \in 0 .. pages(r)' - 1,
                 IsPresent(Entry(q, i)'), IsPresent(Entry(r, j)'),
                 FrameOf(Entry(q, i)') = FrameOf(Entry(r, j)')
          PROVE  q = r /\ i = j
      <4>1. i \in 0 .. pages(q) - 1 /\ j \in 0 .. pages(r) - 1
        BY <1>9
      <4>2. CASE ~(q = p /\ i = page) /\ ~(r = p /\ j = page)
        BY <4>1, <4>2, <3>1, <2>1, <1>11
      <4>3. CASE (q = p /\ i = page) /\ ~(r = p /\ j = page)
        <5>1. FrameOf(Entry(q, i)') = frame
          BY <4>3, <1>8, <1>11
        <5>2. IsPresent(Entry(r, j)) /\ FrameOf(Entry(r, j)) = FrameOf(Entry(r, j)')
          BY <4>1, <4>3, <3>1, <1>11
        <5>3. frame \in frame_bitmap
          BY <5>1, <5>2, <4>1, <3>1, <2>1
        <5>. QED
          BY <5>3, <1>4
      <4>4. CASE ~(q = p /\ i = page) /\ (r = p /\ j = page)
        BY <4>1, <4>4, <3>1, <2>1, <1>4, <1>8, <1>11
      <4>. QED
        BY <4>2, <4>3, <4>4
    <3>. QED
      BY <3>1
  <2>7. \A f \in frame_bitmap' \ (0 .. KernelFrames - 1) :
          \E q \in Pids : \E i \in 0 .. pages(q)' - 1 :
              IsPresent(Entry(q, i)') /\ FrameOf(Entry(q, i)') = f
    <3>1. ASSUME NEW f \in frame_bitmap' \ (0 .. KernelFrames - 1)
          PROVE  \E q \in Pids : \E i \in 0 .. pages(q)' - 1 :
                    IsPresent(Entry(q, i)') /\ FrameOf(Entry(q, i)') = f
      <4>1. CASE f = frame
        BY <4>1, <1>7, <1>8, <1>9, <1>11
      <4>2. CASE f # frame
        <5>1. PICK q \in Pids : \E i \in 0 .. pages(q) - 1 :
                  IsPresent(Entry(q, i)) /\ FrameOf(Entry(q, i)) = f
          BY <4>2, <2>1, <1>1
        <5>2. PICK i \in 0 .. pages(q) - 1 : IsPresent(Entry(q, i)) /\ FrameOf(Entry(q, i)) = f
          BY <5>1
        <5>3. ~(q = p /\ i = page)
          BY <5>2, <2>4
        <5>. QED
          BY <5>2, <5>3, <1>9, <1>11
      <4>. QED
        BY <4>1, <4>2
    <3>. QED
      BY <3>1
  <2>. QED
    BY <2>2, <2>3, <2>5, <2>6, <2>7 DEF Booked, IsPresent, FrameOf
<1>15. Filling'
  <2>1. loading'.pid = p /\ loading'.page = page + 1
    BY <1>1, <1>2
  <2>2. \A i \in 0 .. pages(p)' - 1 : IsPresent(Entry(p, i)') <=> i < page + 1
    <3>1. ASSUME NEW i \in 0 .. pages(p)' - 1
          PROVE  IsPresent(Entry(p, i)') <=> i < page + 1
      <4>1. i \in 0 .. pages(p) - 1 /\ i \in Nat
        BY <1>6, <1>9
      <4>2. CASE i = page
        BY <4>2, <1>7, <1>8, <1>11
      <4>3. CASE i # page
        <5>1. IsPresent(Entry(p, i)') <=> i < page
          BY <4>1, <4>3, <1>3, <1>11
        <5>. QED
          BY <5>1, <4>1, <4>3, <1>7
      <4>. QED
        BY <4>2, <4>3
    <3>. QED
      BY <3>1
  <2>3. p < next_pid' /\ p \notin freed' /\ pages(p)' # 0 /\ page + 1 <= pages(p)' /\ pcb'[p].pgb = base(p)'
    BY <1>1, <1>3, <1>7, <1>9
  <2>. QED
    BY <2>1, <2>2, <2>3 DEF Filling, Entry, base, pages, IsPresent
<1>16. Settled'
  <2>1. Admitted' = Admitted /\ p \notin Admitted
    BY <1>1, <1>2 DEF Admitted
  <2>2. Admitted \subseteq Pids
    BY DEF Admitted
  <2>3. \A q \in Admitted : \A i \in 0 .. pages(q)' - 1 : IsPresent(Entry(q, i)')
    <3>1. \A q \in Admitted : \A i \in 0 .. pages(q) - 1 : IsPresent(Entry(q, i))
      BY DEF Sound, Settled
    <3>. QED
      BY <3>1, <2>1, <2>2, <1>9, <1>11
  <2>. QED
    BY <2>1, <2>3, <1>1 DEF Sound, Settled, Entry, base, pages, IsPresent
<1>. QED
  BY <1>1, <1>12, <1>13, <1>14, <1>15, <1>16 DEF Sound

\* A process without a frame gives up, and its table stays booked.
LEMMA NoFramesKeeps ==
    ASSUME Sound, NEW p \in Pids, NEW page \in 0 .. KernelWords - 1,
           OutOfFrames(p, page), UNCHANGED hw_threads
    PROVE  Sound'
<1>1. /\ loading # NotLoading /\ p = loading.pid
      /\ freed' = freed \cup {p} /\ loading' = NotLoading
      /\ UNCHANGED <<memory, frame_bitmap, next_kernel_frame, total_allocated_frames, files_read,
                     next_pid, program, pcb, page_tables, ready_queue, hw_threads>>
  BY DEF OutOfFrames, Loads, memoryVars
<1>2. p < next_pid /\ next_pid \in Nat
  BY <1>1 DEF Sound, Filling, TypeOK
<1>3. TypeOK'
  BY <1>1 DEF Sound, TypeOK, NotLoading
<1>4. LaidOut'
  <2>1. \A q \in Pids : q >= next_pid => q # p
    BY <1>2 DEF Pids
  <2>. QED
    BY <2>1, <1>1 DEF Sound, LaidOut, base, pages
<1>5. Booked' /\ Filling'
  BY <1>1 DEF Sound, Booked, Filling, Entry, base, pages
<1>6. Admitted' = Admitted
  BY <1>1 DEF Admitted, Pids, NotLoading
<1>7. Settled'
  BY <1>1, <1>6 DEF Sound, Settled, Entry, base, pages
<1>. QED
  BY <1>1, <1>3, <1>4, <1>5, <1>7 DEF Sound

\* A process that is queued, or refused, has all its pages.
LEMMA QueueKeeps ==
    ASSUME Sound, NEW p \in Pids, QueueProcess(p), UNCHANGED hw_threads
    PROVE  Sound'
<1>1. /\ loading # NotLoading /\ p = loading.pid /\ loading.page = pages(p)
      /\ loading' = NotLoading
      /\ \/ ready_queue' = ready_queue \cup {p} /\ UNCHANGED freed
         \/ freed' = freed \cup {p} /\ UNCHANGED ready_queue
      /\ UNCHANGED <<memory, frame_bitmap, next_kernel_frame, total_allocated_frames, files_read,
                     next_pid, program, pcb, page_tables, hw_threads>>
  BY DEF QueueProcess, Loads, memoryVars, pages
<1>2. p < next_pid /\ next_pid \in Nat /\ p \notin freed /\ pages(p) # 0 /\ pcb[p].pgb = base(p)
      /\ \A i \in 0 .. pages(p) - 1 : IsPresent(Entry(p, i)) <=> i < pages(p)
  BY <1>1 DEF Sound, Filling, TypeOK
<1>3. TypeOK'
  BY <1>1 DEF Sound, TypeOK, NotLoading
<1>4. LaidOut'
  <2>1. \A q \in Pids : q >= next_pid => q # p
    BY <1>2 DEF Pids
  <2>2. \A q \in Pids : q >= next_pid => q \notin freed'
    BY <2>1, <1>1 DEF Sound, LaidOut
  <2>. QED
    BY <2>2, <1>1 DEF Sound, LaidOut, base, pages
<1>5. Booked' /\ Filling'
  BY <1>1 DEF Sound, Booked, Filling, Entry, base, pages
<1>6. /\ p \notin Admitted /\ Admitted \subseteq Pids
      /\ Admitted' \subseteq Admitted \cup {p} /\ Admitted \subseteq Admitted'
      /\ p \in ready_queue' => p \in Admitted'
  <2>1. p \notin Admitted /\ p \notin ready_queue
    BY <1>1 DEF Admitted, Sound, Settled
  <2>. QED
    BY <2>1, <1>1, <1>2 DEF Admitted, Pids, NotLoading
<1>7. Settled'
  <2>1. \A i \in 0 .. pages(p) - 1 : IsPresent(Entry(p, i))
    <3>1. pages(p) \in Nat
      BY EntriesInKernel
    <3>. QED
      BY <3>1, <1>2
  <2>2. \A q \in Admitted' : /\ pages(q) # 0 /\ pcb[q].pgb = base(q)
                             /\ \A i \in 0 .. pages(q) - 1 : IsPresent(Entry(q, i))
    BY <2>1, <1>2, <1>6 DEF Sound, Settled
  <2>3. ready_queue' \subseteq Admitted'
    BY <1>1, <1>6 DEF Sound, Settled
  <2>4. \A k \in DOMAIN hw_threads : /\ hw_threads[k].pcb \in Admitted' \ ready_queue'
                                     /\ hw_threads[k].PTBR = base(hw_threads[k].pcb)
    BY <1>1, <1>6 DEF Sound, Settled
  <2>. QED
    BY <2>2, <2>3, <2>4, <1>1 DEF Sound, Settled, Entry, base, pages
<1>. QED
  BY <1>1, <1>3, <1>4, <1>5, <1>7 DEF Sound

----------------------------------------------------------------------------
(* Assignment and removal.                                                 *)


\* What the moves of processes and the instructions share: they touch admitted
\* processes only, and leave the frame and the presence of every entry alone.
LEMMA ExecutionKeeps ==
    ASSUME Sound,
           UNCHANGED <<frame_bitmap, next_kernel_frame, total_allocated_frames, files_read,
                       next_pid, program, page_tables, loading>>,
           memory' \in [0 .. TotalWords - 1 -> Word],
           \A q \in Pids : \A i \in 0 .. pages(q) - 1 :
              /\ Entry(q, i)' < 32 * TotalFrames
              /\ IsPresent(Entry(q, i)') <=> IsPresent(Entry(q, i))
              /\ FrameOf(Entry(q, i)') = FrameOf(Entry(q, i)),
           pcb' \in [Pids -> PcbType], hw_threads' \in Seq(Threads), Len(hw_threads') <= NumThreads,
           ready_queue' \subseteq Pids, freed \subseteq freed', freed' \subseteq freed \cup Admitted,
           \A q \in Pids \ Admitted : pcb'[q] = pcb[q],
           \A q \in Admitted : q \notin freed' => pcb'[q].pgb = pcb[q].pgb,
           \A q \in ready_queue' : q \in Admitted /\ q \notin freed',
           \A k \in 1 .. Len(hw_threads') :
              LET h == hw_threads'[k]
              IN  h.pcb \in Admitted /\ h.pcb \notin freed' /\ h.pcb \notin ready_queue' /\ h.PTBR = base(h.pcb),
           \A j, k \in 1 .. Len(hw_threads') : hw_threads'[j].pcb = hw_threads'[k].pcb => j = k
    PROVE  Sound'
<1>1. Admitted' = {q \in Admitted : q \notin freed'} /\ Admitted \subseteq Pids
  BY DEF Admitted
<1>2. DOMAIN hw_threads' = 1 .. Len(hw_threads') /\ \A k \in DOMAIN hw_threads' : hw_threads'[k] \in Threads
  BY ElementOfSeq, LenProperties
<1>a. \A q \in Pids : pages(q)' = pages(q) /\ base(q)' = base(q) /\ pages(q) \in Nat
  BY EntriesInKernel DEF base, pages
<1>3. TypeOK'
  <2>1. freed' \subseteq Pids
    BY <1>1 DEF Sound, TypeOK
  <2>. QED
    BY <1>2, <2>1 DEF Sound, TypeOK, Threads
<1>4. LaidOut'
  <2>1. \A q \in Pids : q >= next_pid => q \notin Admitted
    BY DEF Admitted, Sound, TypeOK, Pids
  <2>2. \A q \in Pids : q >= next_pid => q \notin freed' /\ pcb'[q] = NewPcb
    BY <2>1 DEF Sound, LaidOut
  <2>. QED
    BY <2>2 DEF Sound, LaidOut, base, pages
<1>5. Booked'
  <2>1. \A q \in Pids : \A i \in 0 .. pages(q)' - 1 :
              /\ Entry(q, i)' < 32 * TotalFrames
              /\ i < pages(q) => /\ IsPresent(Entry(q, i)') <=> IsPresent(Entry(q, i))
                                 /\ FrameOf(Entry(q, i)') = FrameOf(Entry(q, i))
              /\ ~(i < pages(q)) => ~IsPresent(Entry(q, i)')
    BY <1>a
  <2>. QED
    BY <2>1, <1>a, BookedByEntries
<1>6. Filling'
  <2>1. loading.pid \in Pids => loading.pid \notin Admitted
    BY DEF Admitted
  <2>2. ASSUME loading # NotLoading
        PROVE  \A i \in 0 .. pages(loading.pid)' - 1 :
                  IsPresent(Entry(loading.pid, i)') <=> i < loading.page
    BY <2>2, <1>a DEF Sound, Filling
  <2>3. (loading # NotLoading =>
        /\ loading.pid \in Pids /\ loading.pid < next_pid /\ loading.pid \notin freed
        /\ pages(loading.pid) # 0 /\ loading.page <= pages(loading.pid)
        /\ pcb[loading.pid].pgb = base(loading.pid))'
    BY <2>1 DEF Sound, Filling, base, pages
  <2>. QED
    BY <2>2, <2>3 DEF Filling, Entry, base, pages, IsPresent
<1>7. Settled'
  <2>1. \A q \in Admitted : /\ pages(q) # 0 /\ pcb[q].pgb = base(q)
                            /\ \A i \in 0 .. pages(q) - 1 : IsPresent(Entry(q, i))
    BY DEF Sound, Settled
  <2>2. \A q \in Admitted' : /\ pages(q)' # 0 /\ pcb'[q].pgb = base(q)'
                             /\ \A i \in 0 .. pages(q)' - 1 : IsPresent(Entry(q, i)')
    BY <1>1, <1>a, <2>1
  <2>3. ready_queue' \subseteq Admitted'
    BY <1>1
  <2>4. \A k \in DOMAIN hw_threads' : /\ hw_threads'[k].pcb \in Admitted' \ ready_queue'
                                      /\ hw_threads'[k].PTBR = base(hw_threads'[k].pcb)
    BY <1>1, <1>2
  <2>5. \A j, k \in DOMAIN hw_threads' : hw_threads'[j].pcb = hw_threads'[k].pcb => j = k
    BY <1>2
  <2>. QED
    BY <2>2, <2>3, <2>4, <2>5 DEF Settled, Entry, base, pages, IsPresent
<1>. QED
  BY <1>3, <1>4, <1>5, <1>6, <1>7 DEF Sound

\* The same when memory is left alone altogether.
LEMMA SchedulingKeeps ==
    ASSUME Sound,
           UNCHANGED <<memory, frame_bitmap, next_kernel_frame, total_allocated_frames, files_read,
                       next_pid, program, page_tables, loading>>,
           pcb' \in [Pids -> PcbType], hw_threads' \in Seq(Threads), Len(hw_threads') <= NumThreads,
           ready_queue' \subseteq Pids, freed \subseteq freed', freed' \subseteq freed \cup Admitted,
           \A q \in Pids \ Admitted : pcb'[q] = pcb[q],
           \A q \in Admitted : q \notin freed' => pcb'[q].pgb = pcb[q].pgb,
           \A q \in ready_queue' : q \in Admitted /\ q \notin freed',
           \A k \in 1 .. Len(hw_threads') :
              LET h == hw_threads'[k]
              IN  h.pcb \in Admitted /\ h.pcb \notin freed' /\ h.pcb \notin ready_queue' /\ h.PTBR = base(h.pcb),
           \A j, k \in 1 .. Len(hw_threads') : hw_threads'[j].pcb = hw_threads'[k].pcb => j = k
    PROVE  Sound'
<1>1. memory' \in [0 .. TotalWords - 1 -> Word]
  BY DEF Sound, TypeOK
<1>2. \A q \in Pids : \A i \in 0 .. pages(q) - 1 :
         Entry(q, i)' = Entry(q, i) /\ Entry(q, i) < 32 * TotalFrames
  BY DEF Sound, Booked, Entry, base, pages
<1>. QED
  BY <1>1, <1>2, ExecutionKeeps

\* What is known of an occupied thread.
LEMMA OnThreads ==
    ASSUME Sound
    PROVE  /\ Len(hw_threads) \in Nat /\ DOMAIN hw_threads = 1 .. Len(hw_threads)
           /\ \A k \in 1 .. Len(hw_threads) :
                 /\ hw_threads[k] \in Threads /\ hw_threads[k].pcb \in Pids
                 /\ hw_threads[k].pcb \in Admitted /\ hw_threads[k].pcb \notin ready_queue
                 /\ hw_threads[k].pcb \notin freed
                 /\ hw_threads[k].PTBR = base(hw_threads[k].pcb)
           /\ \A j, k \in 1 .. Len(hw_threads) : hw_threads[j].pcb = hw_threads[k].pcb => j = k
           /\ \A q \in ready_queue : q \in Admitted /\ q \notin freed
           /\ \A q \in Admitted : q \in Pids /\ q \notin freed
           /\ pcb \in [Pids -> PcbType]
<1>1. hw_threads \in Seq(Threads) /\ Len(hw_threads) \in Nat /\ DOMAIN hw_threads = 1 .. Len(hw_threads)
  BY LenProperties DEF Sound
<1>2. \A k \in 1 .. Len(hw_threads) : hw_threads[k] \in Threads
  BY <1>1, ElementOfSeq
<1>3. \A q \in Admitted : q \in Pids /\ q \notin freed
  BY DEF Admitted
<1>. QED
  BY <1>1, <1>2, <1>3 DEF Sound, Settled, Threads, TypeOK

\* An assigned process moves from the queue to one thread.
LEMMA AssignKeeps ==
    ASSUME Sound, NEW p \in Pids, Assign(p)
    PROVE  Sound'
<1>. DEFINE h == [pcb |-> p, PTBR |-> pcb[p].pgb, PC |-> pcb[p].pc, registers |-> pcb[p].registers]
           n == Len(hw_threads)
<1>1. /\ p \in ready_queue /\ n < NumThreads /\ ready_queue' = ready_queue \ {p}
      /\ pcb' = [pcb EXCEPT ![p].state = "RUNNING"]
      /\ hw_threads' = Append(hw_threads, h)
      /\ UNCHANGED <<memory, frame_bitmap, next_kernel_frame, total_allocated_frames, files_read,
                     next_pid, program, page_tables, loading, freed>>
  BY DEF Assign, memoryVars
<1>2. p \in Admitted /\ pcb[p] \in PcbType /\ pcb \in [Pids -> PcbType]
  BY <1>1, OnThreads
<1>3. pages(p) # 0 /\ pcb[p].pgb = base(p)
  BY <1>2 DEF Sound, Settled
<1>4. base(p) \in 0 .. KernelWords - 1
  <2>1. pages(p) \in Nat /\ 0 \in 0 .. pages(p) - 1
    BY <1>3, EntriesInKernel
  <2>2. base(p) \in Nat /\ base(p) + 0 \in 0 .. KernelWords - 1
    BY <2>1, EntriesInKernel
  <2>. QED
    BY <2>2
<1>5. h \in Threads /\ h.pcb = p /\ h.PTBR = base(p)
  BY <1>2, <1>3, <1>4 DEF Threads, PcbType
<1>6. /\ pcb' \in [Pids -> PcbType]
      /\ \A q \in Pids : pcb'[q].pgb = pcb[q].pgb
      /\ \A q \in Pids \ Admitted : pcb'[q] = pcb[q]
  <2>1. pcb' = [pcb EXCEPT ![p] = [pcb[p] EXCEPT !.state = "RUNNING"]]
    BY <1>1, <1>2
  <2>2. [pcb[p] EXCEPT !.state = "RUNNING"] \in PcbType
        /\ [pcb[p] EXCEPT !.state = "RUNNING"].pgb = pcb[p].pgb
    BY <1>2 DEF PcbType
  <2>. QED
    BY <2>1, <2>2, <1>2
<1>. HIDE DEF h
<1>7. /\ hw_threads' \in Seq(Threads) /\ Len(hw_threads') = n + 1 /\ n \in Nat
      /\ \A k \in 1 .. n : hw_threads'[k] = hw_threads[k]
      /\ hw_threads'[n + 1] = h
  BY <1>1, <1>5, OnThreads, AppendProperties DEF Sound
<1>8. \A k \in 1 .. n : hw_threads[k].pcb # p
  BY <1>1, OnThreads
<1>9. Len(hw_threads') <= NumThreads
  BY <1>1, <1>7, ExecutionAssumption
<1>. HIDE DEF n
<1>10. \A k \in 1 .. n + 1 :
          LET x == hw_threads'[k]
          IN  x.pcb \in Admitted /\ x.pcb \notin freed /\ x.pcb \notin ready_queue' /\ x.PTBR = base(x.pcb)
  <2>1. ASSUME NEW k \in 1 .. n + 1
        PROVE  LET x == hw_threads'[k]
               IN  x.pcb \in Admitted /\ x.pcb \notin freed /\ x.pcb \notin ready_queue' /\ x.PTBR = base(x.pcb)
    <3>1. CASE k = n + 1
      BY <3>1, <1>1, <1>2, <1>5, <1>7, OnThreads
    <3>2. CASE k # n + 1
      <4>1. k \in 1 .. n
        BY <3>2, <1>7
      <4>. QED
        BY <4>1, <1>1, <1>7, OnThreads DEF n
    <3>. QED
      BY <3>1, <3>2
  <2>. QED
    BY <2>1
<1>11. \A j, k \in 1 .. n + 1 : hw_threads'[j].pcb = hw_threads'[k].pcb => j = k
  <2>1. ASSUME NEW j \in 1 .. n + 1, NEW k \in 1 .. n + 1, hw_threads'[j].pcb = hw_threads'[k].pcb
        PROVE  j = k
    <3>1. j \in 1 .. n \/ j = n + 1
      BY <1>7
    <3>2. k \in 1 .. n \/ k = n + 1
      BY <1>7
    <3>. QED
      BY <3>1, <3>2, <2>1, <1>5, <1>7, <1>8, OnThreads DEF n
  <2>. QED
    BY <2>1
<1>12. \A q \in ready_queue' : q \in Admitted /\ q \notin freed' /\ q \in Pids
  BY <1>1, OnThreads
<1>. QED
  BY <1>1, <1>6, <1>7, <1>9, <1>10, <1>11, <1>12, OnThreads, SchedulingKeeps

\* An expired process moves from its thread to the queue, or is lost.
LEMMA ExpireKeeps ==
    ASSUME Sound, NEW k \in 1 .. Len(hw_threads), Expire(k)
    PROVE  Sound'
<1>. DEFINE h == hw_threads[k]
           n == Len(hw_threads)
<1>1. /\ pcb' = [pcb EXCEPT ![h.pcb] = SavedContext(h)]
      /\ ready_queue' \subseteq ready_queue \cup {h.pcb}
      /\ hw_threads' = DropAt(hw_threads, k)
      /\ UNCHANGED <<memory, frame_bitmap, next_kernel_frame, total_allocated_frames, files_read,
                     next_pid, program, page_tables, loading, freed>>
  BY DEF Expire, memoryVars, RemoveThread
<1>2. h.pcb \in Admitted /\ h.pcb \in Pids /\ h.pcb \notin freed /\ h \in Threads
      /\ pcb[h.pcb] \in PcbType /\ pcb \in [Pids -> PcbType] /\ n \in Nat
  BY OnThreads
<1>3. /\ pcb' \in [Pids -> PcbType]
      /\ \A q \in Pids : pcb'[q].pgb = pcb[q].pgb
      /\ \A q \in Pids \ Admitted : pcb'[q] = pcb[q]
  <2>1. SavedContext(h) \in PcbType /\ SavedContext(h).pgb = pcb[h.pcb].pgb
    BY <1>2 DEF SavedContext, PcbType, Threads
  <2>. HIDE DEF h
  <2>. QED
    BY <2>1, <1>1, <1>2
<1>4. /\ hw_threads' \in Seq(Threads) /\ Len(hw_threads') = n - 1
      /\ \A j \in 1 .. n - 1 : hw_threads'[j] = IF j < k THEN hw_threads[j] ELSE hw_threads[j + 1]
  BY <1>1, DropAtProperties DEF Sound
<1>5. \A j \in 1 .. n - 1 : \E i \in 1 .. n :
         i # k /\ hw_threads'[j] = hw_threads[i] /\ i = IF j < k THEN j ELSE j + 1
  BY <1>2, <1>4
<1>. QED
  <2>1. Len(hw_threads') <= NumThreads
    BY <1>2, <1>4, ExecutionAssumption DEF Sound, TypeOK
  <2>2. \A q \in ready_queue' : q \in Admitted /\ q \notin freed' /\ q \in Pids
    BY <1>1, <1>2, OnThreads
  <2>3. ASSUME NEW j \in 1 .. n - 1
        PROVE  LET x == hw_threads'[j]
               IN  x.pcb \in Admitted /\ x.pcb \notin freed' /\ x.pcb \notin ready_queue' /\ x.PTBR = base(x.pcb)
    <3>1. PICK i \in 1 .. n : i # k /\ hw_threads'[j] = hw_threads[i]
      BY <1>5
    <3>2. hw_threads[i].pcb # h.pcb
      BY <3>1, OnThreads
    <3>. QED
      BY <3>1, <3>2, <1>1, OnThreads
  <2>4. ASSUME NEW i \in 1 .. n - 1, NEW j \in 1 .. n - 1, hw_threads'[i].pcb = hw_threads'[j].pcb
        PROVE  i = j
    <3>1. PICK x \in 1 .. n : hw_threads'[i] = hw_threads[x] /\ x = IF i < k THEN i ELSE i + 1
      BY <1>5
    <3>2. PICK y \in 1 .. n : hw_threads'[j] = hw_threads[y] /\ y = IF j < k THEN j ELSE j + 1
      BY <1>5
    <3>3. x = y
      BY <3>1, <3>2, <2>4, OnThreads
    <3>. QED
      BY <3>1, <3>2, <3>3, <1>2
  <2>. HIDE DEF h, n
  <2>. QED
    BY <1>1, <1>3, <1>4, <2>1, <2>2, <2>3, <2>4, SchedulingKeeps

\* A completed process leaves its thread and its PCB, not its frames.
LEMMA CompleteKeeps ==
    ASSUME Sound, NEW k \in 1 .. Len(hw_threads), Complete(k)
    PROVE  Sound'
<1>. DEFINE p == hw_threads[k].pcb
           n == Len(hw_threads)
<1>1. /\ pcb' = [pcb EXCEPT ![p].pgb = Null]
      /\ freed' = freed \cup {p}
      /\ hw_threads' = DropAt(hw_threads, k)
      /\ UNCHANGED <<memory, frame_bitmap, next_kernel_frame, total_allocated_frames, files_read,
                     next_pid, program, page_tables, loading, ready_queue>>
  BY DEF Complete, memoryVars, RemoveThread
<1>2. p \in Admitted /\ p \in Pids /\ p \notin freed /\ p \notin ready_queue
      /\ pcb[p] \in PcbType /\ pcb \in [Pids -> PcbType] /\ n \in Nat
  BY OnThreads
<1>3. /\ pcb' \in [Pids -> PcbType]
      /\ \A q \in Pids : q # p => pcb'[q] = pcb[q]
  <2>. HIDE DEF p
  <2>1. pcb' = [pcb EXCEPT ![p] = [pcb[p] EXCEPT !.pgb = Null]]
    BY <1>1, <1>2
  <2>2. [pcb[p] EXCEPT !.pgb = Null] \in PcbType
    BY <1>2 DEF PcbType
  <2>. QED
    BY <2>1, <2>2, <1>2
<1>4. /\ hw_threads' \in Seq(Threads) /\ Len(hw_threads') = n - 1
      /\ \A j \in 1 .. n - 1 : hw_threads'[j] = IF j < k THEN hw_threads[j] ELSE hw_threads[j + 1]
  BY <1>1, DropAtProperties DEF Sound
<1>5. \A j \in 1 .. n - 1 : \E i \in 1 .. n :
         i # k /\ hw_threads'[j] = hw_threads[i] /\ i = IF j < k THEN j ELSE j + 1
  BY <1>2, <1>4
<1>. QED
  <2>1. Len(hw_threads') <= NumThreads
    BY <1>2, <1>4, ExecutionAssumption DEF Sound, TypeOK
  <2>2. \A q \in ready_queue' : q \in Admitted /\ q \notin freed' /\ q \in Pids
    BY <1>1, <1>2, OnThreads
  <2>3. ASSUME NEW j \in 1 .. n - 1
        PROVE  LET x == hw_threads'[j]
               IN  x.pcb \in Admitted /\ x.pcb \notin freed' /\ x.pcb \notin ready_queue' /\ x.PTBR = base(x.pcb)
    <3>1. PICK i \in 1 .. n : i # k /\ hw_threads'[j] = hw_threads[i]
      BY <1>5
    <3>2. hw_threads[i].pcb # p
      BY <3>1, OnThreads
    <3>. QED
      BY <3>1, <3>2, <1>1, OnThreads
  <2>4. ASSUME NEW i \in 1 .. n - 1, NEW j \in 1 .. n - 1, hw_threads'[i].pcb = hw_threads'[j].pcb
        PROVE  i = j
    <3>1. PICK x \in 1 .. n : hw_threads'[i] = hw_threads[x] /\ x = IF i < k THEN i ELSE i + 1
      BY <1>5
    <3>2. PICK y \in 1 .. n : hw_threads'[j] = hw_threads[y] /\ y = IF j < k THEN j ELSE j + 1
      BY <1>5
    <3>3. x = y
      BY <3>1, <3>2, <2>4, OnThreads
    <3>. QED
      BY <3>1, <3>2, <3>3, <1>2
  <2>5. freed \subseteq freed' /\ freed' \subseteq freed \cup Admitted
    BY <1>1, <1>2
  <2>6. \A q \in Admitted : q \notin freed' => pcb'[q].pgb = pcb[q].pgb
    BY <1>1, <1>3, OnThreads
  <2>7. \A q \in Pids \ Admitted : pcb'[q] = pcb[q]
    BY <1>2, <1>3
  <2>8. ready_queue' \subseteq Pids
    BY <2>2
  <2>. HIDE DEF p, n
  <2>. QED
    BY <1>1, <1>3, <1>4, <2>1, <2>2, <2>3, <2>4, <2>5, <2>6, <2>7, <2>8, SchedulingKeeps

----------------------------------------------------------------------------
(* The instruction cycle.                                                  *)


\* An address of a word of the program is translated to a word of a frame of its
\* own, outside kernel space.
LEMMA Translation ==
    ASSUME Sound, NEW p \in Admitted, NEW a \in Nat, a \div WORD_SIZE < total_words(program[p])
    PROVE  LET i == a \div PageBytes
               x == translate_virtual_to_physical(base(p), a)
           IN  /\ a < AddressSpace /\ i \in 0 .. pages(p) - 1 /\ IsPresent(Entry(p, i))
               /\ x \in KernelWords .. TotalWords - 1
               /\ x \div WordsPerPage = FrameOf(Entry(p, i))
               /\ x % WordsPerPage = (a % PageBytes) \div WORD_SIZE
<1>. USE Sizes
<1>. DEFINE i == a \div PageBytes
           f == FrameOf(Entry(p, i))
           x == translate_virtual_to_physical(base(p), a)
<1>1. p \in Pids /\ pages(p) # 0 /\ \A j \in 0 .. pages(p) - 1 : IsPresent(Entry(p, j))
  BY OnThreads DEF Sound, Settled
<1>2. /\ program[p] \in FileContents /\ program[p].found_text
      /\ pages(p) = total_pages(program[p])
  BY <1>1 DEF Sound, LaidOut
<1>3. a < AddressSpace /\ i \in 0 .. pages(p) - 1
  BY <1>2, PagesHoldWords
<1>4. IsPresent(Entry(p, i))
  BY <1>1, <1>3
<1>5. f \in Frames /\ f >= KernelFrames
  <2>1. f \in frame_bitmap \ (0 .. KernelFrames - 1) /\ frame_bitmap \subseteq Frames
    BY <1>1, <1>3, <1>4 DEF Sound, Booked, TypeOK
  <2>. HIDE DEF f, i
  <2>2. f \in 0 .. TotalFrames - 1 /\ ~(f \in 0 .. KernelFrames - 1)
    BY <2>1 DEF Frames
  <2>. QED
    BY <2>2 DEF Frames
<1>6. x = (f * PageBytes + (a % PageBytes)) \div WORD_SIZE
  BY <1>4 DEF translate_virtual_to_physical, Entry
<1>. HIDE DEF i, f, x
<1>7. /\ x \in 0 .. TotalWords - 1 /\ x \div WordsPerPage = f
      /\ x % WordsPerPage = (a % PageBytes) \div WORD_SIZE
  BY <1>5, <1>6, InFrame
<1>8. ~(x \in 0 .. KernelWords - 1)
  <2>1. ASSUME x \in 0 .. KernelWords - 1
        PROVE  FALSE
    <3>1. f \in 0 .. KernelFrames - 1
      BY <2>1, <1>7, KernelFrame
    <3>. QED
      BY <3>1, <1>5
  <2>. QED
    BY <2>1
<1>9. x \in KernelWords .. TotalWords - 1
  BY <1>7, <1>8
<1>. QED
  BY <1>3, <1>4, <1>7, <1>9 DEF i, f, x

\* What an instruction of a program that keeps inside fetches and may read.
LEMMA Fetching ==
    ASSUME Sound, KeepsInside, NEW k \in 1 .. Len(hw_threads),
           pcb[hw_threads[k].pcb].state # "TERMINATED"
    PROVE  LET h == hw_threads[k]
               p == h.pcb
               w == Fetched(k)
           IN  /\ w \in Word
               /\ h.PC \in Nat /\ h.PC \div WORD_SIZE < total_words(program[p])
               /\ extract_opcode(w) \in {OP_LD, OP_ST} =>
                     /\ extract_address(w) \div WORD_SIZE < total_words(program[p])
                     /\ mmu_read_word(h.PTBR, extract_address(w)) \in Word
<1>. DEFINE h == hw_threads[k]
           p == h.pcb
           w == Fetched(k)
<1>1. p \in Admitted /\ h.PTBR = base(p) /\ h \in Threads /\ k \in DOMAIN hw_threads
  BY OnThreads
<1>2. \A a \in Uses(k) : a \div WORD_SIZE < total_words(program[p])
  BY <1>1 DEF KeepsInside
<1>3. h.PC \in Nat /\ h.PC \div WORD_SIZE < total_words(program[p])
  <2>1. h.PC \in 0 .. AddressSpace - 1
    BY <1>1 DEF Threads
  <2>. QED
    BY <2>1, <1>2, Sizes DEF Uses
<1>4. \A a \in Nat : a \div WORD_SIZE < total_words(program[p]) => mmu_read_word(h.PTBR, a) \in Word
  <2>1. ASSUME NEW a \in Nat, a \div WORD_SIZE < total_words(program[p])
        PROVE  mmu_read_word(h.PTBR, a) \in Word
    <3>. DEFINE x == translate_virtual_to_physical(base(p), a)
    <3>1. x \in KernelWords .. TotalWords - 1
      BY <1>1, <2>1, Translation
    <3>2. memory \in [0 .. TotalWords - 1 -> Word]
      BY DEF Sound, TypeOK
    <3>4. x \in 0 .. TotalWords - 1
      <4>1. KernelWords \in Nat /\ TotalWords \in Nat
        BY Sizes
      <4>. HIDE DEF x
      <4>. QED
        BY <3>1, <4>1
    <3>. HIDE DEF p, h
    <3>3. mmu_read_word(h.PTBR, a) = memory[x]
      BY <1>1 DEF mmu_read_word
    <3>. HIDE DEF x
    <3>. QED
      BY <3>2, <3>3, <3>4
  <2>. QED
    BY <2>1
<1>5. w \in Word
  BY <1>3, <1>4 DEF Fetched
<1>6. extract_address(w) \in Nat
  BY <1>5, Decoding, Sizes
<1>7. extract_opcode(w) \in {OP_LD, OP_ST} => extract_address(w) \div WORD_SIZE < total_words(program[p])
  BY <1>2 DEF Uses
<1>. QED
  BY <1>3, <1>4, <1>5, <1>6, <1>7

\* As much of KeepsInside as the next state has to satisfy: the program counters.
PcsInside ==
    \A k \in DOMAIN hw_threads :
        LET p == hw_threads[k].pcb
        IN  pcb[p].state # "TERMINATED" => hw_threads[k].PC \div WORD_SIZE < total_words(program[p])

\* A program counter is one of the addresses that an instruction uses.
LEMMA PcsKept == KeepsInside => PcsInside
BY DEF KeepsInside, PcsInside, Uses

\* The program counter of the next instruction, if there is to be one.
LEMMA NextPC ==
    ASSUME Sound, PcsInside', NEW k \in 1 .. Len(hw_threads),
           UNCHANGED program, k \in DOMAIN hw_threads', hw_threads'[k].pcb = hw_threads[k].pcb,
           pcb'[hw_threads[k].pcb].state # "TERMINATED", hw_threads'[k].PC \in Nat
    PROVE  hw_threads'[k].PC \in 0 .. AddressSpace - 1
<1>. DEFINE p == hw_threads[k].pcb
<1>1. p \in Admitted /\ p \in Pids
  BY OnThreads
<1>2. /\ program[p] \in FileContents /\ program[p].found_text
  BY <1>1 DEF Sound, LaidOut, Settled
<1>3. hw_threads'[k].PC \div WORD_SIZE < total_words(program[p])
  BY DEF PcsInside
<1>5. hw_threads'[k].PC < AddressSpace
  BY <1>2, <1>3, PagesHoldWords
<1>. QED
  BY <1>5, Sizes

\* A tick on one thread: the PCB and the context of its process change.
LEMMA TickKeeps ==
    ASSUME Sound, NEW k \in 1 .. Len(hw_threads), NEW g \in Threads, NEW v \in PcbType,
           UNCHANGED <<frame_bitmap, next_kernel_frame, total_allocated_frames, files_read,
                       next_pid, program, page_tables, loading, ready_queue, freed>>,
           memory' \in [0 .. TotalWords - 1 -> Word],
           \A q \in Pids : \A i \in 0 .. pages(q) - 1 :
              /\ Entry(q, i)' < 32 * TotalFrames
              /\ IsPresent(Entry(q, i)') <=> IsPresent(Entry(q, i))
              /\ FrameOf(Entry(q, i)') = FrameOf(Entry(q, i)),
           hw_threads' = [hw_threads EXCEPT ![k] = g],
           g.pcb = hw_threads[k].pcb, g.PTBR = hw_threads[k].PTBR,
           pcb' = [pcb EXCEPT ![hw_threads[k].pcb] = v], v.pgb = pcb[hw_threads[k].pcb].pgb
    PROVE  Sound'
<1>. DEFINE p == hw_threads[k].pcb
           n == Len(hw_threads)
<1>1. /\ p \in Admitted /\ p \in Pids /\ pcb \in [Pids -> PcbType]
      /\ hw_threads \in Seq(Threads) /\ n \in Nat /\ n <= NumThreads
  BY OnThreads DEF Sound, TypeOK
<1>2. hw_threads' \in Seq(Threads) /\ Len(hw_threads') = n
      /\ \A j \in 1 .. n : hw_threads'[j] = IF j = k THEN g ELSE hw_threads[j]
  BY <1>1, ExceptSeq
<1>3. \A j \in 1 .. n : hw_threads'[j].pcb = hw_threads[j].pcb /\ hw_threads'[j].PTBR = hw_threads[j].PTBR
  BY <1>2
<1>4. /\ pcb' \in [Pids -> PcbType]
      /\ \A q \in Pids \ Admitted : pcb'[q] = pcb[q]
      /\ \A q \in Admitted : pcb'[q].pgb = pcb[q].pgb
  BY <1>1, OnThreads
<1>5. ready_queue \subseteq Pids
  BY DEF Sound, TypeOK
<1>6. \A j \in 1 .. n :
        LET h == hw_threads'[j]
        IN  h.pcb \in Admitted /\ h.pcb \notin freed' /\ h.pcb \notin ready_queue' /\ h.PTBR = base(h.pcb)
  BY <1>3, OnThreads
<1>7. \A i, j \in 1 .. n : hw_threads'[i].pcb = hw_threads'[j].pcb => i = j
  BY <1>3, OnThreads
<1>8. \A q \in ready_queue' : q \in Admitted /\ q \notin freed'
  BY OnThreads
<1>. HIDE DEF p, n
<1>9. n = Len(hw_threads')
  BY <1>2
<1>. QED
  BY <1>1, <1>2, <1>4, <1>5, <1>6, <1>7, <1>8, <1>9, ExecutionKeeps


\* A PCB whose time to live is decremented.
LEMMA Decremented ==
    ASSUME Sound, NEW p \in Pids
    PROVE  /\ decrement_pcb_ttl(p) \in 0 .. MaxTtl
           /\ [pcb[p] EXCEPT !.ttl = decrement_pcb_ttl(p)] \in PcbType
           /\ [pcb[p] EXCEPT !.ttl = decrement_pcb_ttl(p)].pgb = pcb[p].pgb
           /\ [pcb[p] EXCEPT !.ttl = decrement_pcb_ttl(p)].state = pcb[p].state
<1>1. pcb[p] \in PcbType /\ MaxTtl \in Nat
  BY LoaderAssumption DEF Sound, TypeOK
<1>2. decrement_pcb_ttl(p) \in 0 .. MaxTtl
  BY <1>1 DEF decrement_pcb_ttl, PcbType
<1>. QED
  BY <1>1, <1>2 DEF PcbType

\* An instruction that leaves memory alone and goes on.
LEMMA GoesOnKeeps ==
    ASSUME Sound, KeepsInside, PcsInside', NEW k \in 1 .. Len(hw_threads), Ticks(k),
           NEW regs \in [RegisterNumbers -> Word],
           memory' \in [0 .. TotalWords - 1 -> Word],
           \A q \in Pids : \A i \in 0 .. pages(q) - 1 :
              /\ Entry(q, i)' < 32 * TotalFrames
              /\ IsPresent(Entry(q, i)') <=> IsPresent(Entry(q, i))
              /\ FrameOf(Entry(q, i)') = FrameOf(Entry(q, i)),
           hw_threads' = [hw_threads EXCEPT ![k] =
              [hw_threads[k] EXCEPT !.registers = regs, !.PC = hw_threads[k].PC + WORD_SIZE]],
           Goes_on(k)
    PROVE  Sound'
<1>. DEFINE h == hw_threads[k]
           p == h.pcb
           g == [h EXCEPT !.registers = regs, !.PC = h.PC + WORD_SIZE]
           v == [pcb[p] EXCEPT !.ttl = decrement_pcb_ttl(p)]
<1>1. /\ pcb[p].state # "TERMINATED"
      /\ UNCHANGED <<frame_bitmap, next_kernel_frame, total_allocated_frames, files_read,
                     next_pid, program, page_tables, loading, ready_queue, freed>>
  BY DEF Ticks
<1>2. /\ p \in Admitted /\ p \in Pids /\ h \in Threads /\ pcb \in [Pids -> PcbType]
      /\ DOMAIN hw_threads = 1 .. Len(hw_threads)
  BY OnThreads
<1>3. pcb' = [pcb EXCEPT ![p] = v]
  BY <1>2 DEF Goes_on
<1>4. v \in PcbType /\ v.pgb = pcb[p].pgb /\ v.state = pcb[p].state
  BY <1>2, Decremented
<1>5. hw_threads' = [hw_threads EXCEPT ![k] = g] /\ k \in DOMAIN hw_threads' /\ hw_threads'[k] = g
  BY <1>2
<1>6. g.pcb = p /\ g.PTBR = h.PTBR /\ g.PC = h.PC + WORD_SIZE /\ g.PC \in Nat
  <2>1. h.PC \in 0 .. AddressSpace - 1
    BY <1>2 DEF Threads
  <2>2. h.PC + WORD_SIZE \in Nat
    <3>1. \A x \in 0 .. AddressSpace - 1 : x + WORD_SIZE \in Nat
      BY Sizes, SMTT(30) DEF WORD_SIZE
    <3>. HIDE DEF h
    <3>. QED
      BY <2>1, <3>1
  <2>. HIDE DEF h
  <2>3. g.pcb = h.pcb /\ g.PTBR = h.PTBR /\ g.PC = h.PC + WORD_SIZE
    BY <1>2 DEF Threads
  <2>. QED
    BY <2>2, <2>3
<1>7. pcb'[p].state # "TERMINATED"
  <2>. HIDE DEF v, p
  <2>. QED
    BY <1>1, <1>2, <1>3, <1>4
<1>8. g.PC \in 0 .. AddressSpace - 1
  <2>. HIDE DEF g
  <2>. QED
    BY <1>1, <1>5, <1>6, <1>7, NextPC
<1>9. g \in Threads
  BY <1>2, <1>6, <1>8 DEF Threads
<1>. HIDE DEF g, v
<1>. QED
  BY <1>1, <1>3, <1>4, <1>5, <1>6, <1>9, TickKeeps

\* Memory that is left alone.
LEMMA SameEntries ==
    ASSUME Sound, UNCHANGED <<memory, page_tables>>
    PROVE  /\ memory' \in [0 .. TotalWords - 1 -> Word]
           /\ \A q \in Pids : \A i \in 0 .. pages(q) - 1 :
                 /\ Entry(q, i)' < 32 * TotalFrames
                 /\ IsPresent(Entry(q, i)') <=> IsPresent(Entry(q, i))
                 /\ FrameOf(Entry(q, i)') = FrameOf(Entry(q, i))
<1>1. memory' \in [0 .. TotalWords - 1 -> Word]
  BY DEF Sound, TypeOK
<1>2. \A q \in Pids : \A i \in 0 .. pages(q) - 1 :
         Entry(q, i)' = Entry(q, i) /\ Entry(q, i) < 32 * TotalFrames
  BY DEF Sound, Booked, Entry, base, pages
<1>. QED
  BY <1>1, <1>2

\* LD changes a register and the program counter of its thread.
LEMMA LdKeeps ==
    ASSUME Sound, KeepsInside, PcsInside', NEW k \in 1 .. Len(hw_threads), execute_ld(k)
    PROVE  Sound'
<1>. DEFINE h == hw_threads[k]
           w == Fetched(k)
           value == mmu_read_word(h.PTBR, extract_address(w))
           regs == [h.registers EXCEPT ![extract_reg(w)] = value]
<1>1. /\ Ticks(k) /\ extract_opcode(w) = OP_LD /\ UNCHANGED memory /\ Goes_on(k)
      /\ hw_threads' = [hw_threads EXCEPT ![k] = WithRegister(h, extract_reg(w), value)]
      /\ UNCHANGED page_tables /\ pcb[h.pcb].state # "TERMINATED"
  BY DEF execute_ld, Ticks
<1>2. h \in Threads
  BY OnThreads
<1>3. w \in Word /\ value \in Word
  BY <1>1, Fetching
<1>4. regs \in [RegisterNumbers -> Word]
  <2>. HIDE DEF value, w, h
  <2>. QED
    BY <1>2, <1>3 DEF Threads
<1>5. WithRegister(h, extract_reg(w), value) = [h EXCEPT !.registers = regs, !.PC = h.PC + WORD_SIZE]
  <2>. HIDE DEF value, w, h
  <2>. QED
    BY <1>2 DEF WithRegister, Threads
<1>6. hw_threads' = [hw_threads EXCEPT ![k] =
              [hw_threads[k] EXCEPT !.registers = regs, !.PC = hw_threads[k].PC + WORD_SIZE]]
  BY <1>1, <1>5
<1>. HIDE DEF regs
<1>. QED
  BY <1>1, <1>4, <1>6, SameEntries, GoesOnKeeps

\* So does ADD.
LEMMA AddKeeps ==
    ASSUME Sound, KeepsInside, PcsInside', NEW k \in 1 .. Len(hw_threads), execute_add(k)
    PROVE  Sound'
<1>. DEFINE h == hw_threads[k]
           w == Fetched(k)
           value == Sum32(h.registers[extract_reg_src1(w)], h.registers[extract_reg_src2(w)])
           regs == [h.registers EXCEPT ![extract_reg(w)] = value]
<1>1. /\ Ticks(k) /\ UNCHANGED memory /\ Goes_on(k)
      /\ hw_threads' = [hw_threads EXCEPT ![k] = WithRegister(h, extract_reg(w), value)]
      /\ UNCHANGED page_tables /\ pcb[h.pcb].state # "TERMINATED"
  BY DEF execute_add, Ticks
<1>2. h \in Threads
  BY OnThreads
<1>3. w \in Word
  BY <1>1, Fetching
<1>a. value \in Word
  <2>1. h.registers \in [RegisterNumbers -> Word]
    BY <1>2 DEF Threads
  <2>2. extract_reg_src1(w) \in RegisterNumbers /\ extract_reg_src2(w) \in RegisterNumbers
    BY <1>3, Decoding
  <2>3. h.registers[extract_reg_src1(w)] \in Word /\ h.registers[extract_reg_src2(w)] \in Word
    BY <2>1, <2>2
  <2>. QED
    BY <2>3, SumIsWord
<1>4. regs \in [RegisterNumbers -> Word]
  <2>. HIDE DEF value, w, h
  <2>. QED
    BY <1>2, <1>a DEF Threads
<1>5. WithRegister(h, extract_reg(w), value) = [h EXCEPT !.registers = regs, !.PC = h.PC + WORD_SIZE]
  <2>. HIDE DEF value, w, h
  <2>. QED
    BY <1>2 DEF WithRegister, Threads
<1>6. hw_threads' = [hw_threads EXCEPT ![k] =
              [hw_threads[k] EXCEPT !.registers = regs, !.PC = hw_threads[k].PC + WORD_SIZE]]
  BY <1>1, <1>5
<1>. HIDE DEF regs
<1>. QED
  BY <1>1, <1>4, <1>6, SameEntries, GoesOnKeeps

\* What a store inside does to memory: the entry of the page is marked, and a word
\* of a frame is written.
LEMMA Storing ==
    ASSUME Sound, NEW p \in Admitted, NEW a \in Nat, a \div WORD_SIZE < total_words(program[p]),
           NEW v \in Word, mmu_write_word(base(p), a, v), UNCHANGED page_tables
    PROVE  LET i == a \div PageBytes
               x == translate_virtual_to_physical(base(p), a)
           IN  /\ memory' \in [0 .. TotalWords - 1 -> Word]
               /\ \A y \in 0 .. TotalWords - 1 :
                     memory'[y] = IF y = x THEN v
                                  ELSE IF y = base(p) + i THEN Touched(memory[y]) ELSE memory[y]
               /\ \A q \in Pids : \A j \in 0 .. pages(q) - 1 :
                     /\ Entry(q, j)' < 32 * TotalFrames
                     /\ IsPresent(Entry(q, j)') <=> IsPresent(Entry(q, j))
                     /\ FrameOf(Entry(q, j)') = FrameOf(Entry(q, j))
<1>. USE Sizes
<1>. DEFINE i == a \div PageBytes
           x == translate_virtual_to_physical(base(p), a)
           at == base(p) + i
<1>1. i \in 0 .. pages(p) - 1 /\ x \in KernelWords .. TotalWords - 1 /\ p \in Pids
  BY Translation, OnThreads
<1>2. memory \in [0 .. TotalWords - 1 -> Word]
  BY DEF Sound, TypeOK
<1>3. at \in 0 .. KernelWords - 1 /\ at \in 0 .. TotalWords - 1 /\ memory[at] \in Nat /\ memory[at] < 32 * TotalFrames
  <2>. HIDE DEF i, x
  <2>. QED
    BY <1>1, EntriesInKernel DEF Sound, Booked, Entry
<1>4. memory' = [[memory EXCEPT ![at] = Touched(memory[at])] EXCEPT ![x] = v]
  BY <1>2, <1>3 DEF mmu_write_word
<1>. HIDE DEF at, x, i
<1>5. Touched(memory[at]) \in Word
  BY <1>3, TouchedKeeps
<1>6. memory' \in [0 .. TotalWords - 1 -> Word]
  BY <1>2, <1>4, <1>5
<1>7. \A y \in 0 .. TotalWords - 1 :
         memory'[y] = IF y = x THEN v ELSE IF y = at THEN Touched(memory[y]) ELSE memory[y]
  BY <1>2, <1>4
<1>8. ASSUME NEW q \in Pids, NEW j \in 0 .. pages(q) - 1
      PROVE  /\ Entry(q, j)' < 32 * TotalFrames
             /\ IsPresent(Entry(q, j)') <=> IsPresent(Entry(q, j))
             /\ FrameOf(Entry(q, j)') = FrameOf(Entry(q, j))
  <2>. DEFINE y == page_tables[q].base + j
  <2>1. y \in 0 .. KernelWords - 1 /\ y \in 0 .. TotalWords - 1
    BY EntriesInKernel DEF base
  <2>2. Entry(q, j)' = memory'[y] /\ Entry(q, j) = memory[y]
    BY DEF Entry, base
  <2>3. memory[y] < 32 * TotalFrames /\ memory[y] \in Nat
    <3>1. Entry(q, j) < 32 * TotalFrames
      BY DEF Sound, Booked
    <3>2. Entry(q, j) \in Nat
      BY EntriesInKernel
    <3>. QED
      BY <2>2, <3>1, <3>2
  <2>. HIDE DEF y
  <2>4. y # x
    BY <1>1, <2>1
  <2>5. CASE y = at
    <3>1. memory'[y] = Touched(memory[y])
      BY <1>7, <2>1, <2>4, <2>5
    <3>. QED
      BY <3>1, <2>2, <2>3, TouchedKeeps
  <2>6. CASE y # at
    <3>1. memory'[y] = memory[y]
      BY <1>7, <2>1, <2>4, <2>6
    <3>. QED
      BY <3>1, <2>2, <2>3
  <2>. QED
    BY <2>5, <2>6
<1>. QED
  BY <1>6, <1>7, <1>8 DEF at, x, i

\* ST changes a word in a frame of user space and marks a page table entry.
LEMMA StKeeps ==
    ASSUME Sound, KeepsInside, PcsInside', NEW k \in 1 .. Len(hw_threads), execute_st(k)
    PROVE  Sound'
<1>. DEFINE h == hw_threads[k]
           w == Fetched(k)
           value == h.registers[extract_reg(w)]
<1>1. /\ Ticks(k) /\ extract_opcode(w) = OP_ST /\ Goes_on(k)
      /\ mmu_write_word(h.PTBR, extract_address(w), value)
      /\ hw_threads' = [hw_threads EXCEPT ![k].PC = @ + WORD_SIZE]
      /\ UNCHANGED page_tables /\ pcb[h.pcb].state # "TERMINATED"
  BY DEF execute_st, Ticks
<1>2. h \in Threads /\ h.pcb \in Admitted /\ h.PTBR = base(h.pcb) /\ DOMAIN hw_threads = 1 .. Len(hw_threads)
  BY OnThreads
<1>3. w \in Word /\ extract_address(w) \div WORD_SIZE < total_words(program[h.pcb])
  BY <1>1, Fetching
<1>4. extract_address(w) \in Nat /\ value \in Word
  <2>. HIDE DEF w
  <2>1. extract_address(w) \in 0 .. AddressSpace - 1 /\ extract_reg(w) \in RegisterNumbers
    BY <1>3, Decoding
  <2>. QED
    BY <2>1, <1>2, Sizes DEF Threads
<1>. HIDE DEF value, w
<1>5. /\ memory' \in [0 .. TotalWords - 1 -> Word]
      /\ \A q \in Pids : \A j \in 0 .. pages(q) - 1 :
            /\ Entry(q, j)' < 32 * TotalFrames
            /\ IsPresent(Entry(q, j)') <=> IsPresent(Entry(q, j))
            /\ FrameOf(Entry(q, j)') = FrameOf(Entry(q, j))
  BY <1>1, <1>2, <1>3, <1>4, Storing
<1>6. hw_threads' = [hw_threads EXCEPT ![k] =
              [hw_threads[k] EXCEPT !.registers = h.registers, !.PC = hw_threads[k].PC + WORD_SIZE]]
  <2>1. [h EXCEPT !.PC = h.PC + WORD_SIZE] = [h EXCEPT !.registers = h.registers, !.PC = h.PC + WORD_SIZE]
    <3>. HIDE DEF h
    <3>. QED
      BY <1>2 DEF Threads
  <2>. QED
    BY <1>1, <1>2, <2>1
<1>7. h.registers \in [RegisterNumbers -> Word]
  BY <1>2 DEF Threads
<1>. QED
  BY <1>1, <1>5, <1>6, <1>7, GoesOnKeeps

\* An instruction after which the process is to be taken away.
LEMMA StopKeeps ==
    ASSUME Sound, NEW k \in 1 .. Len(hw_threads), execute_exit(k) \/ UnknownOpcode(k)
    PROVE  Sound'
<1>. DEFINE h == hw_threads[k]
           p == h.pcb
<1>1. /\ Ticks(k) /\ UNCHANGED <<memory, hw_threads>>
      /\ UNCHANGED <<frame_bitmap, next_kernel_frame, total_allocated_frames, files_read,
                     next_pid, program, page_tables, loading, ready_queue, freed>>
  BY DEF execute_exit, UnknownOpcode, Ticks
<1>2. /\ h \in Threads /\ p \in Pids /\ pcb \in [Pids -> PcbType] /\ pcb[p] \in PcbType
      /\ hw_threads \in Seq(Threads)
  BY OnThreads DEF Sound
<1>3. \E t \in 0 .. MaxTtl : pcb' = [pcb EXCEPT ![p].state = "TERMINATED", ![p].ttl = t]
  <2>1. 0 \in 0 .. MaxTtl /\ decrement_pcb_ttl(p) \in 0 .. MaxTtl
    <3>1. decrement_pcb_ttl(p) \in 0 .. MaxTtl
      BY <1>2, Decremented
    <3>2. MaxTtl \in Nat
      BY LoaderAssumption
    <3>. QED
      BY <3>1, <3>2
  <2>2. CASE execute_exit(k)
    BY <2>1, <2>2 DEF execute_exit
  <2>3. CASE UnknownOpcode(k)
    BY <2>1, <2>3 DEF UnknownOpcode
  <2>. QED
    BY <2>2, <2>3
<1>4. PICK t \in 0 .. MaxTtl : pcb' = [pcb EXCEPT ![p].state = "TERMINATED", ![p].ttl = t]
  BY <1>3
<1>. DEFINE v == [pcb[p] EXCEPT !.state = "TERMINATED", !.ttl = t]
<1>5. pcb' = [pcb EXCEPT ![p] = v]
  BY <1>2, <1>4
<1>6. v \in PcbType /\ v.pgb = pcb[p].pgb
  BY <1>2 DEF PcbType
<1>7. hw_threads' = [hw_threads EXCEPT ![k] = h]
  BY <1>1, <1>2
<1>. HIDE DEF v
<1>. QED
  BY <1>1, <1>2, <1>5, <1>6, <1>7, SameEntries, TickKeeps


\* One step, whatever it is.
LEMMA SoundNext ==
    ASSUME Sound, KeepsInside, PcsInside', [Next]_vars
    PROVE  Sound'
<1>1. CASE UNCHANGED vars
  BY <1>1, SMTT(30) DEF vars, memoryVars, loaderVars, Sound, TypeOK, LaidOut, Booked, Filling, Settled,
              Admitted, Entry, base, pages
<1>2. CASE Load
  <2>1. UNCHANGED hw_threads /\ LoaderNext
    BY <1>2 DEF Load
  <2>2. CASE \E f \in FileContents : RejectFile(f) \/ CreateProcess(f) \/ OutOfKernelSpace(f)
    BY <2>1, <2>2, RejectKeeps, CreateKeeps, NoSpaceKeeps
  <2>3. ASSUME NEW p \in Pids, NEW page \in 0 .. KernelWords - 1,
               (\E frame \in FreeFrames : LoadPage(p, page, frame)) \/ OutOfFrames(p, page)
        PROVE  Sound'
    BY <2>1, <2>3, LoadPageKeeps, NoFramesKeeps
  <2>4. ASSUME NEW p \in Pids, QueueProcess(p)
        PROVE  Sound'
    BY <2>1, <2>4, QueueKeeps
  <2>. QED
    BY <2>1, <2>2, <2>3, <2>4 DEF LoaderNext
<1>3. ASSUME NEW p \in Pids, Assign(p)
      PROVE  Sound'
  BY <1>3, AssignKeeps
<1>4. ASSUME NEW k \in 1 .. NumThreads, k <= Len(hw_threads), Execute(k) \/ Expire(k) \/ Complete(k)
      PROVE  Sound'
  <2>1. k \in 1 .. Len(hw_threads)
    BY <1>4, OnThreads
  <2>2. CASE Execute(k)
    BY <2>1, <2>2, LdKeeps, StKeeps, AddKeeps, StopKeeps DEF Execute
  <2>. QED
    BY <1>4, <2>1, <2>2, ExpireKeeps, CompleteKeeps
<1>5. CASE IdleTick
  BY <1>1, <1>5 DEF IdleTick
<1>. QED
  BY <1>1, <1>2, <1>3, <1>4, <1>5 DEF Next

\* Sound holds for as long as the programs keep inside.
LEMMA SoundAlways == Spec /\ []KeepsInside => []Sound
<1>1. KeepsInside => PcsInside
  BY PcsKept
<1>2. Sound /\ KeepsInside /\ PcsInside' /\ [Next]_vars => Sound'
  BY SoundNext
<1>. QED
  BY <1>1, <1>2, SoundInit, PTL DEF Spec

\* The loader, the MMU and the instruction cycle keep every variable within its C
\* type, if the programs keep inside their own words.
THEOREM ExecutionTyped == Spec /\ []KeepsInside => []TypeOK
<1>1. Sound => TypeOK
  BY DEF Sound
<1>. QED
  BY <1>1, SoundAlways, PTL

\* What FramesAccounted says of the pairs in Tables, Booked says of table and index.
LEMMA BookedIsAccounted == Sound => FramesAccounted
<1>. SUFFICES ASSUME Sound PROVE FramesAccounted
  OBVIOUS
<1>1. \A e \in Tables : /\ e[1] \in Pids /\ e[2] \in 0 .. pages(e[1]) - 1
                        /\ page_tables[e[1]].base = base(e[1])
                        /\ EntryOf(e) = Entry(e[1], e[2]) /\ e = <<e[1], e[2]>>
  <2>1. ASSUME NEW e \in Tables
        PROVE  /\ e[1] \in Pids /\ e[2] \in 0 .. pages(e[1]) - 1
               /\ page_tables[e[1]].base = base(e[1])
               /\ EntryOf(e) = Entry(e[1], e[2]) /\ e = <<e[1], e[2]>>
    <3>1. e \in Pids \X (0 .. KernelWords - 1) /\ e[2] < page_tables[e[1]].pages
      BY DEF Tables
    <3>2. e[1] \in Pids /\ e[2] \in Nat /\ e = <<e[1], e[2]>>
      BY <3>1, Sizes
    <3>3. e[2] \in 0 .. pages(e[1]) - 1
      BY <3>1, <3>2, EntriesInKernel DEF pages
    <3>. QED
      BY <3>2, <3>3 DEF EntryOf, Entry, base
  <2>. QED
    BY <2>1
<1>2. \A p \in Pids : \A i \in 0 .. pages(p) - 1 :
         /\ <<p, i>> \in Tables /\ EntryOf(<<p, i>>) = Entry(p, i)
  <2>1. ASSUME NEW p \in Pids, NEW i \in 0 .. pages(p) - 1
        PROVE  <<p, i>> \in Tables /\ EntryOf(<<p, i>>) = Entry(p, i)
    <3>1. base(p) \in Nat /\ pages(p) \in Nat /\ base(p) + i \in 0 .. KernelWords - 1
      BY EntriesInKernel
    <3>2. i \in 0 .. KernelWords - 1 /\ i < pages(p)
      BY <3>1, Sizes
    <3>. QED
      BY <3>2 DEF Tables, EntryOf, Entry, base, pages
  <2>. QED
    BY <2>1
<1>3. \A e, d \in Tables : page_tables[e[1]].base + e[2] = page_tables[d[1]].base + d[2] => e = d
  <2>1. ASSUME NEW e \in Tables, NEW d \in Tables, base(e[1]) + e[2] = base(d[1]) + d[2]
        PROVE  e = d
    <3>1. e[1] = d[1] /\ e[2] = d[2]
      BY <1>1, <2>1, EntriesInKernel
    <3>. QED
      BY <3>1, <1>1
  <2>. QED
    BY <2>1, <1>1
<1>4. \A e \in Tables : page_tables[e[1]].base + e[2] < next_kernel_frame
  BY <1>1, EntriesInKernel, SMTT(30) DEF Sound, TypeOK
<1>5. \A e \in Mapped : e \in Tables /\ IsPresent(Entry(e[1], e[2]))
  BY <1>1 DEF Mapped
<1>6. \A e, d \in Mapped : FrameOf(EntryOf(e)) = FrameOf(EntryOf(d)) => e = d
  <2>1. ASSUME NEW e \in Mapped, NEW d \in Mapped, FrameOf(EntryOf(e)) = FrameOf(EntryOf(d))
        PROVE  e = d
    <3>1. e[1] = d[1] /\ e[2] = d[2]
      BY <1>1, <1>5, <2>1 DEF Sound, Booked
    <3>. QED
      BY <3>1, <1>1, <1>5
  <2>. QED
    BY <2>1
<1>7. {FrameOf(EntryOf(e)) : e \in Mapped} = frame_bitmap \ (0 .. KernelFrames - 1)
  <2>1. ASSUME NEW e \in Mapped
        PROVE  FrameOf(EntryOf(e)) \in frame_bitmap \ (0 .. KernelFrames - 1)
    BY <1>1, <1>5 DEF Sound, Booked
  <2>2. ASSUME NEW f \in frame_bitmap \ (0 .. KernelFrames - 1)
        PROVE  \E e \in Mapped : FrameOf(EntryOf(e)) = f
    <3>1. PICK p \in Pids : \E i \in 0 .. pages(p) - 1 : IsPresent(Entry(p, i)) /\ FrameOf(Entry(p, i)) = f
      BY DEF Sound, Booked
    <3>2. PICK i \in 0 .. pages(p) - 1 : IsPresent(Entry(p, i)) /\ FrameOf(Entry(p, i)) = f
      BY <3>1
    <3>3. <<p, i>> \in Mapped /\ FrameOf(EntryOf(<<p, i>>)) = f
      BY <3>2, <1>2 DEF Mapped
    <3>. QED
      BY <3>3
  <2>. QED
    BY <2>1, <2>2
<1>. QED
  BY <1>3, <1>4, <1>6, <1>7 DEF FramesAccounted, Sound, LaidOut, Booked

\* Every frame in use is the frame of exactly one page of one process, however the
\* loads end and whatever the processes that keep inside do, in every memory.
THEOREM FramesBooked == Spec /\ []KeepsInside => []FramesAccounted
BY SoundAlways, BookedIsAccounted, PTL

----------------------------------------------------------------------------
(* Words of processes, and what the loader puts there.                     *)


\* Where the MMU finds word w of process p.
Home(p, w) == FrameOf(Entry(p, w \div WordsPerPage)) * WordsPerPage + (w % WordsPerPage)

\* What the loader has copied so far is the program, nothing of it has run yet, and
\* what waits to be run has not ended.
Faithful ==
    /\ hw_threads # <<>> => Scheduling
    /\ \A p \in ready_queue : pcb[p].state # "TERMINATED"
    /\ loading # NotLoading =>
          LET p == loading.pid
          IN  /\ pcb[p].state = "WAITING" /\ pcb[p].pc = 0
              /\ pcb[p].registers = [r \in RegisterNumbers |-> 0]
              /\ \A w \in 0 .. loading.page * WordsPerPage - 1 :
                    memory[Home(p, w)] = InitialWord(program[p], w)

\* Words and pages of an address space of n pages.
LEMMA WordOfPage ==
    ASSUME NEW n \in Nat, NEW w \in 0 .. n * WordsPerPage - 1
    PROVE  /\ w \in Nat /\ w \div WordsPerPage \in 0 .. n - 1 /\ w % WordsPerPage \in 0 .. WordsPerPage - 1
           /\ w = WordsPerPage * (w \div WordsPerPage) + (w % WordsPerPage)
<1>. USE Sizes
<1>. DEFINE q == w \div WordsPerPage
           r == w % WordsPerPage
<1>0. w \in Nat /\ WordsPerPage \in Nat \ {0} /\ w < n * WordsPerPage /\ n * WordsPerPage \in Nat
  <2>1. n * WordsPerPage \in Nat
    OBVIOUS
  <2>. DEFINE m == n * WordsPerPage
  <2>2. m \in Nat /\ w \in 0 .. m - 1
    BY <2>1
  <2>. HIDE DEF m
  <2>3. w \in Nat /\ w < m
    BY <2>2
  <2>. QED
    BY <2>1, <2>3 DEF m
<1>. HIDE DEF q, r
<1>1. q \in Nat /\ r \in 0 .. WordsPerPage - 1 /\ w = WordsPerPage * q + r
  BY <1>0, Division DEF q, r
<1>2. WordsPerPage * q < n * WordsPerPage /\ WordsPerPage * q \in Nat
  <2>1. WordsPerPage * q \in Nat /\ WordsPerPage * q <= w
    BY <1>1
  <2>. QED
    BY <2>1, <1>0
<1>3. CASE q >= n
  <2>1. WordsPerPage * q = n * WordsPerPage + WordsPerPage * (q - n)
        /\ WordsPerPage * (q - n) \in Nat
    BY <1>1, <1>3
  <2>. QED
    BY <2>1, <1>2, <1>0
<1>. QED
  BY <1>0, <1>1, <1>3 DEF q, r

\* Every word of a page that is present has a place of its own outside kernel space.
LEMMA Homes ==
    ASSUME Sound
    PROVE  /\ \A p \in Pids : \A w \in 0 .. pages(p) * WordsPerPage - 1 :
                 IsPresent(Entry(p, w \div WordsPerPage)) =>
                    /\ Home(p, w) \in KernelWords .. TotalWords - 1
                    /\ Home(p, w) \div WordsPerPage = FrameOf(Entry(p, w \div WordsPerPage))
                    /\ Home(p, w) % WordsPerPage = w % WordsPerPage
           /\ \A p, q \in Pids :
                 \A w \in 0 .. pages(p) * WordsPerPage - 1, v \in 0 .. pages(q) * WordsPerPage - 1 :
                    /\ IsPresent(Entry(p, w \div WordsPerPage)) /\ IsPresent(Entry(q, v \div WordsPerPage))
                    /\ Home(p, w) = Home(q, v)
                    => p = q /\ w = v
<1>. USE Sizes
<1>1. ASSUME NEW p \in Pids, NEW w \in 0 .. pages(p) * WordsPerPage - 1,
             IsPresent(Entry(p, w \div WordsPerPage))
      PROVE  /\ Home(p, w) \in KernelWords .. TotalWords - 1
             /\ Home(p, w) \div WordsPerPage = FrameOf(Entry(p, w \div WordsPerPage))
             /\ Home(p, w) % WordsPerPage = w % WordsPerPage
  <2>. DEFINE i == w \div WordsPerPage
             f == FrameOf(Entry(p, i))
             r == w % WordsPerPage
             x == Home(p, w)
  <2>1. i \in 0 .. pages(p) - 1 /\ r \in 0 .. WordsPerPage - 1
    BY EntriesInKernel, WordOfPage
  <2>2. f \in frame_bitmap \ (0 .. KernelFrames - 1) /\ frame_bitmap \subseteq Frames
    BY <2>1, <1>1 DEF Sound, Booked, TypeOK
  <2>3. x = f * WordsPerPage + r
    BY DEF Home
  <2>. HIDE DEF i, f, r, x
  <2>4. f \in 0 .. TotalFrames - 1 /\ f \in Nat /\ f >= KernelFrames
    <3>1. f \in 0 .. TotalFrames - 1 /\ ~(f \in 0 .. KernelFrames - 1)
      BY <2>2 DEF Frames
    <3>. QED
      BY <3>1
  <2>5. x = WordsPerPage * f + r /\ x \div WordsPerPage = f /\ x % WordsPerPage = r
    BY <2>1, <2>3, <2>4, Quotient
  <2>6. WordsPerPage * f <= WordsPerPage * (TotalFrames - 1) /\ WordsPerPage * f >= WordsPerPage * KernelFrames
    BY <2>4
  <2>7. WordsPerPage * (TotalFrames - 1) = TotalWords - WordsPerPage /\ WordsPerPage * KernelFrames = KernelWords
    BY DEF TotalWords, KernelWords
  <2>8. x \in KernelWords .. TotalWords - 1
    <3>. DEFINE y == WordsPerPage * f
    <3>1. y \in Nat /\ y <= TotalWords - WordsPerPage /\ y >= KernelWords /\ x = y + r
      BY <2>4, <2>5, <2>6, <2>7
    <3>. HIDE DEF y
    <3>. QED
      BY <3>1, <2>1
  <2>. QED
    BY <2>5, <2>8 DEF i, f, r, x
<1>2. ASSUME NEW p \in Pids, NEW q \in Pids, NEW w \in 0 .. pages(p) * WordsPerPage - 1,
             NEW v \in 0 .. pages(q) * WordsPerPage - 1,
             IsPresent(Entry(p, w \div WordsPerPage)), IsPresent(Entry(q, v \div WordsPerPage)),
             Home(p, w) = Home(q, v)
      PROVE  p = q /\ w = v
  <2>1. /\ FrameOf(Entry(p, w \div WordsPerPage)) = FrameOf(Entry(q, v \div WordsPerPage))
        /\ w % WordsPerPage = v % WordsPerPage
    BY <1>1, <1>2, SMTT(30)
  <2>2. /\ w \div WordsPerPage \in 0 .. pages(p) - 1 /\ v \div WordsPerPage \in 0 .. pages(q) - 1
        /\ w = WordsPerPage * (w \div WordsPerPage) + (w % WordsPerPage)
        /\ v = WordsPerPage * (v \div WordsPerPage) + (v % WordsPerPage)
    BY EntriesInKernel, WordOfPage
  <2>3. p = q /\ w \div WordsPerPage = v \div WordsPerPage
    BY <2>1, <2>2, <1>2 DEF Sound, Booked
  <2>. QED
    BY <2>1, <2>2, <2>3
<1>. QED
  BY <1>1, <1>2

\* The MMU finds it there, by whichever of its bytes the word is addressed.
LEMMA ReadsHome ==
    ASSUME Sound, NEW p \in Admitted, NEW a \in Nat,
           a \div WORD_SIZE \in 0 .. pages(p) * WordsPerPage - 1
    PROVE  /\ translate_virtual_to_physical(base(p), a) = Home(p, a \div WORD_SIZE)
           /\ IsPresent(Entry(p, (a \div WORD_SIZE) \div WordsPerPage))
           /\ a \div PageBytes = (a \div WORD_SIZE) \div WordsPerPage
<1>. USE Sizes
<1>. DEFINE w == a \div WORD_SIZE
           s == a % WORD_SIZE
           i == w \div WordsPerPage
           j == w % WordsPerPage
           f == FrameOf(Entry(p, i))
           x == translate_virtual_to_physical(base(p), a)
<1>1. WORD_SIZE \in Nat \ {0} /\ WORD_SIZE = 4
  BY DEF WORD_SIZE
<1>2. w \in Nat /\ s \in 0 .. 3 /\ a = 4 * w + s
  <2>. HIDE DEF w, s
  <2>1. w \in Nat /\ s \in 0 .. WORD_SIZE - 1 /\ a = WORD_SIZE * w + s
    BY <1>1, Division DEF w, s
  <2>. QED
    BY <2>1, <1>1
<1>3. p \in Pids /\ pages(p) \in Nat
  BY OnThreads, EntriesInKernel
<1>4. i \in 0 .. pages(p) - 1 /\ j \in 0 .. WordsPerPage - 1 /\ w = WordsPerPage * i + j
  BY <1>3, WordOfPage
<1>5. IsPresent(Entry(p, i))
  BY <1>4 DEF Sound, Settled
<1>a. a \div (WordsPerPage * WORD_SIZE) = w \div WordsPerPage
  BY <1>1, QuotientOfQuotient
<1>6. a \div PageBytes = i
  BY <1>a DEF PageBytes
<1>7. x = (f * PageBytes + (a % PageBytes)) \div WORD_SIZE
  BY <1>5, <1>6 DEF translate_virtual_to_physical, Entry
<1>8. f \in Frames
  BY <1>3, <1>4, <1>5 DEF Sound, Booked, TypeOK
<1>b. Home(p, w) = f * WordsPerPage + j
  BY DEF Home
<1>. HIDE DEF w, s, i, j, f, x
<1>9. a % PageBytes = 4 * j + s
  <2>1. a = PageBytes * i + (4 * j + s)
    BY <1>2, <1>4, <1>3
  <2>2. 4 * j + s \in 0 .. PageBytes - 1
    BY <1>2, <1>4
  <2>3. i \in Nat /\ PageBytes \in Nat \ {0}
    BY <1>4, <1>3
  <2>4. (PageBytes * i + (4 * j + s)) % PageBytes = 4 * j + s
    <3>. DEFINE t == 4 * j + s
    <3>1. t \in 0 .. PageBytes - 1
      BY <2>2
    <3>. HIDE DEF t
    <3>. DEFINE n == PageBytes
    <3>a. n \in Nat \ {0} /\ t \in 0 .. n - 1
      BY <2>3, <3>1
    <3>. HIDE Sizes
    <3>. HIDE DEF n
    <3>b. (n * i + t) % n = t
      BY <2>3, <3>a, Quotient
    <3>2. (PageBytes * i + t) % PageBytes = t
      BY <3>b DEF n
    <3>. QED
      BY <3>2 DEF t
  <2>. QED
    BY <2>1, <2>4
<1>10. (a % PageBytes) \div WORD_SIZE = j
  <2>1. j \in Nat
    BY <1>4
  <2>. QED
    BY <2>1, <1>9, <1>1, <1>2, Quotient
<1>11. x \in Nat /\ x \div WordsPerPage = f /\ x % WordsPerPage = j
  BY <1>7, <1>8, <1>10, InFrame
<1>12. x = WordsPerPage * f + j
  BY <1>11, Division
<1>13. x = Home(p, w)
  BY <1>12, <1>b, <1>8 DEF Frames
<1>. QED
  BY <1>13, <1>5, <1>6 DEF w, i, x


\* While files are read, nothing executes.
LEMMA LoadingAlone ==
    ASSUME Faithful, files_read < MaxFiles \/ loading # NotLoading, Sound
    PROVE  hw_threads = <<>>
BY LoaderAssumption DEF Faithful, Scheduling, Sound, TypeOK

\* Nothing is loading or scheduled at first.
LEMMA FaithfulInit ==
    ASSUME Init
    PROVE  Faithful
BY DEF Init, LoaderInit, Faithful

\* The loader puts into the pages what the file says, one after the other.
LEMMA LoadFaithful ==
    ASSUME Sound, Sound', Faithful, Load
    PROVE  Faithful'
<1>. USE Sizes
<1>0. UNCHANGED hw_threads /\ LoaderNext
  BY DEF Load
<1>1. ASSUME NEW f \in FileContents, RejectFile(f) \/ OutOfKernelSpace(f)
      PROVE  Faithful'
  <2>1. /\ loading = NotLoading /\ files_read < MaxFiles
        /\ UNCHANGED <<memory, program, pcb, page_tables, loading, ready_queue>>
    BY <1>1 DEF RejectFile, OutOfKernelSpace, ReadsFile, memoryVars
  <2>2. hw_threads' = <<>>
    BY <1>0, <2>1, LoadingAlone
  <2>. QED
    BY <2>1, <2>2 DEF Faithful
<1>2. ASSUME NEW f \in FileContents, CreateProcess(f)
      PROVE  Faithful'
  <2>. PICK c : c = next_pid
    OBVIOUS
  <2>1. /\ loading = NotLoading /\ files_read < MaxFiles
        /\ pcb' = [pcb EXCEPT ![c].ttl = ttl(f), ![c].pgb = next_kernel_frame]
        /\ loading' = [pid |-> c, page |-> 0] /\ UNCHANGED ready_queue
    BY <1>2 DEF CreateProcess, ReadsFile
  <2>2. hw_threads' = <<>>
    BY <1>0, <2>1, LoadingAlone
  <2>3. c \in Pids /\ pcb[c] = NewPcb /\ pcb \in [Pids -> PcbType] /\ c \notin Admitted
    <3>1. c \in 1 .. MaxFiles + 1 /\ c <= files_read + 1 /\ files_read \in 0 .. MaxFiles
          /\ MaxFiles \in Nat /\ pcb \in [Pids -> PcbType]
      BY LoaderAssumption DEF Sound, LaidOut, TypeOK
    <3>2. c \in Pids
      BY <3>1, <2>1, SMTT(30) DEF Pids
    <3>. QED
      BY <3>1, <3>2 DEF Sound, LaidOut, Admitted
  <2>4. /\ pcb'[c].state = "WAITING" /\ pcb'[c].pc = 0
        /\ pcb'[c].registers = [r \in RegisterNumbers |-> 0]
        /\ \A p \in Pids : p # c => pcb'[p] = pcb[p]
    BY <2>1, <2>3 DEF NewPcb
  <2>5. \A p \in ready_queue' : pcb'[p].state # "TERMINATED"
    BY <2>1, <2>3, <2>4, OnThreads DEF Faithful
  <2>6. 0 .. 0 * WordsPerPage - 1 = {}
    OBVIOUS
  <2>7. loading'.pid = c /\ loading'.page = 0
    BY <2>1
  <2>. QED
    BY <2>2, <2>4, <2>5, <2>6, <2>7 DEF Faithful
<1>3. ASSUME NEW p \in Pids, NEW page \in 0 .. KernelWords - 1, NEW frame \in FreeFrames,
             LoadPage(p, page, frame)
      PROVE  Faithful'
  <2>1. /\ loading # NotLoading /\ p = loading.pid /\ page = loading.page /\ page < pages(p)
        /\ memory' = Filled(p, page, frame)
        /\ loading' = [loading EXCEPT !.page = page + 1]
        /\ UNCHANGED <<next_pid, program, pcb, page_tables, ready_queue>>
    BY <1>3 DEF LoadPage, Loads, allocate_frame, pages
  <2>2. hw_threads' = <<>>
    BY <1>0, <2>1, LoadingAlone
  <2>3. /\ pcb[p].state = "WAITING" /\ pcb[p].pc = 0 /\ pcb[p].registers = [r \in RegisterNumbers |-> 0]
        /\ \A w \in 0 .. page * WordsPerPage - 1 : memory[Home(p, w)] = InitialWord(program[p], w)
    BY <2>1 DEF Faithful
  <2>4. loading'.pid = p /\ loading'.page = page + 1 /\ loading' # NotLoading /\ p \in Pids /\ page \in Nat
    <3>1. loading \in [pid : Pids \cup {0}, page : Nat]
      BY DEF Sound, TypeOK
    <3>2. p \in Nat /\ p # 0
      BY DEF Pids
    <3>3. loading'.pid = p /\ loading'.page = page + 1
      BY <2>1, <3>1
    <3>. QED
      BY <3>2, <3>3 DEF NotLoading
  <2>5. /\ frame \in Nat /\ frame \in Frames /\ frame \notin frame_bitmap /\ frame >= KernelFrames
        /\ DOMAIN memory = 0 .. TotalWords - 1 /\ pages(p) \in Nat /\ pages(p)' = pages(p) /\ base(p)' = base(p)
    <3>1. frame \in Nat /\ frame \in Frames /\ frame \notin frame_bitmap /\ frame >= KernelFrames
      BY DEF FreeFrames, Frames
    <3>2. pages(p) \in Nat
      BY EntriesInKernel
    <3>. QED
      BY <3>1, <3>2, <2>1 DEF Sound, TypeOK, base, pages
  <2>a. page \in 0 .. pages(p) - 1 /\ page + 1 <= pages(p)
    <3>1. page \in Nat /\ pages(p) \in Nat /\ page < pages(p)
      BY <2>1, <2>4, <2>5
    <3>. QED
      BY <3>1
  <2>6. \A i \in 0 .. page : Entry(p, i)' = IF i = page THEN MappedEntry(frame) ELSE Entry(p, i)
    <3>1. ASSUME NEW i \in 0 .. page
          PROVE  Entry(p, i)' = IF i = page THEN MappedEntry(frame) ELSE Entry(p, i)
      <4>1. i \in 0 .. pages(p) - 1 /\ page \in 0 .. pages(p) - 1 /\ base(p) \in Nat
        <5>1. i \in 0 .. pages(p) - 1
          BY <2>a, <2>4, <2>5
        <5>. QED
          BY <5>1, <2>a, EntriesInKernel
      <4>2. base(p) + i \in 0 .. KernelWords - 1 /\ base(p) + i \in DOMAIN memory
        BY <4>1, <2>5, EntriesInKernel
      <4>3. (base(p) + i) \div WordsPerPage # frame
        <5>. DEFINE y == base(p) + i
        <5>1. y \in 0 .. KernelWords - 1
          BY <4>2
        <5>. HIDE DEF y
        <5>2. y \div WordsPerPage \in 0 .. KernelFrames - 1
          BY <5>1, KernelFrame
        <5>3. y \div WordsPerPage # frame
          BY <5>2, <2>5
        <5>. QED
          BY <5>3 DEF y
      <4>4. base(p) + i = base(p) + page <=> i = page
        BY <4>1
      <4>5. memory'[base(p) + i] = IF i = page THEN MappedEntry(frame) ELSE memory[base(p) + i]
        BY <4>2, <4>3, <4>4, <2>1 DEF Filled, base
      <4>. QED
        BY <4>5, <2>5 DEF Entry
    <3>. QED
      BY <3>1
  <2>7. ASSUME NEW w \in 0 .. (page + 1) * WordsPerPage - 1
        PROVE  memory'[Home(p, w)'] = InitialWord(program[p], w)
    <3>. DEFINE i == w \div WordsPerPage
               x == Home(p, w)'
    <3>1. /\ w \in Nat /\ i \in 0 .. page /\ w % WordsPerPage \in 0 .. WordsPerPage - 1
          /\ w = WordsPerPage * i + (w % WordsPerPage)
      <4>1. page + 1 \in Nat
        BY <2>4
      <4>2. i \in 0 .. (page + 1) - 1
        BY <4>1, WordOfPage
      <4>. QED
        BY <4>1, <4>2, <2>4, WordOfPage
    <3>a. i \in 0 .. pages(p) - 1
      <4>. HIDE DEF i
      <4>. QED
        BY <3>1, <2>a, <2>5
    <3>2. x = FrameOf(Entry(p, i)') * WordsPerPage + (w % WordsPerPage)
      BY DEF Home, FrameOf
    <3>3. CASE i = page
      <4>1. FrameOf(Entry(p, i)') = frame
        BY <3>1, <3>3, <2>5, <2>6, MappedIsPresent
      <4>2. x = WordsPerPage * frame + (w % WordsPerPage)
        BY <4>1, <3>2, <2>5
      <4>3. x \div WordsPerPage = frame /\ x % WordsPerPage = w % WordsPerPage
        <5>. HIDE DEF x
        <5>. QED
          BY <4>2, <3>1, <2>5, Quotient
      <4>4. x \in DOMAIN memory
        <5>1. WordsPerPage * frame <= WordsPerPage * (TotalFrames - 1)
          BY <2>5 DEF Frames
        <5>2. WordsPerPage * (TotalFrames - 1) = TotalWords - WordsPerPage
          BY DEF TotalWords
        <5>. DEFINE y == WordsPerPage * frame
        <5>3. y \in Nat /\ y <= TotalWords - WordsPerPage /\ x = y + (w % WordsPerPage)
          BY <5>1, <5>2, <2>5, <4>2
        <5>. HIDE DEF y, x
        <5>4. x \in 0 .. TotalWords - 1
          BY <5>3, <3>1
        <5>. QED
          BY <5>4, <2>5
      <4>5. memory'[x] = InitialWord(program[p], page * WordsPerPage + (w % WordsPerPage))
        <5>. HIDE DEF x
        <5>. QED
          BY <4>3, <4>4, <2>1 DEF Filled
      <4>6. page * WordsPerPage + (w % WordsPerPage) = w
        <5>. HIDE DEF i
        <5>1. page * WordsPerPage = WordsPerPage * i
          BY <3>3, <2>4
        <5>. QED
          BY <5>1, <3>1
      <4>. QED
        BY <4>5, <4>6
    <3>4. CASE i # page
      <4>1. i \in 0 .. page - 1 /\ Entry(p, i)' = Entry(p, i)
        BY <3>1, <3>4, <2>4, <2>6
      <4>2. IsPresent(Entry(p, i))
        <5>1. \A j \in 0 .. pages(p) - 1 : j < page => IsPresent(Entry(p, j))
          BY <2>1 DEF Sound, Filling
        <5>2. i < page
          BY <4>1, <2>4
        <5>. HIDE DEF i
        <5>. QED
          BY <5>1, <5>2, <3>a
      <4>3. x = Home(p, w)
        BY <4>1, <3>2 DEF Home
      <4>4. w \in 0 .. page * WordsPerPage - 1 /\ w \in 0 .. pages(p) * WordsPerPage - 1
        <5>. DEFINE j == w % WordsPerPage
                   y == WordsPerPage * i
                   z == WordsPerPage * page
                   u == WordsPerPage * pages(p)
        <5>1. y + WordsPerPage <= z /\ z <= u /\ y \in Nat /\ z \in Nat /\ u \in Nat
          <6>1. WordsPerPage * (i + 1) <= WordsPerPage * page /\ WordsPerPage * page <= WordsPerPage * pages(p)
            <7>1. \A a, b \in Nat : a <= b => WordsPerPage * a <= WordsPerPage * b
              OBVIOUS
            <7>2. i + 1 \in Nat /\ i + 1 <= page /\ page <= pages(p)
              BY <4>1, <2>a, <2>4, <2>5
            <7>. HIDE DEF i, y, z, u
            <7>. QED
              BY <7>1, <7>2, <2>4, <2>5
          <6>2. WordsPerPage * (i + 1) = y + WordsPerPage
            BY <4>1
          <6>. QED
            BY <6>1, <6>2, <4>1, <2>4, <2>5
        <5>2. page * WordsPerPage = z /\ pages(p) * WordsPerPage = u /\ w = y + j /\ j \in 0 .. WordsPerPage - 1
          BY <3>1, <2>4, <2>5
        <5>. HIDE DEF j, y, z, u, i
        <5>. QED
          BY <5>1, <5>2, <3>1
      <4>5. Home(p, w) \in KernelWords .. TotalWords - 1
            /\ Home(p, w) \div WordsPerPage = FrameOf(Entry(p, i))
        BY <4>2, <4>4, Homes
      <4>6. FrameOf(Entry(p, i)) # frame
        BY <4>2, <3>a, <2>5 DEF Sound, Booked
      <4>7. Home(p, w) # base(p) + page
        <5>1. page \in 0 .. pages(p) - 1
          BY <2>a
        <5>2. base(p) + page \in 0 .. KernelWords - 1
          BY <5>1, EntriesInKernel
        <5>. DEFINE y == base(p) + page
        <5>3. y \in 0 .. KernelWords - 1
          BY <5>2
        <5>. HIDE DEF y
        <5>. QED
          BY <5>3, <4>5 DEF y
      <4>8. memory'[Home(p, w)] = memory[Home(p, w)]
        <5>1. Home(p, w) \in DOMAIN memory
          BY <4>5, <2>5
        <5>. QED
          BY <5>1, <4>5, <4>6, <4>7, <2>1 DEF Filled, base
      <4>. QED
        BY <4>3, <4>4, <4>8, <2>3
    <3>. QED
      BY <3>3, <3>4
  <2>. QED
    BY <2>1, <2>2, <2>3, <2>4, <2>7, SMTT(30) DEF Faithful, Home, FrameOf
<1>4. ASSUME NEW p \in Pids, NEW page \in 0 .. KernelWords - 1, OutOfFrames(p, page)
      PROVE  Faithful'
  <2>1. /\ loading # NotLoading /\ loading' = NotLoading
        /\ UNCHANGED <<pcb, ready_queue>>
    BY <1>4 DEF OutOfFrames, Loads
  <2>2. hw_threads' = <<>>
    BY <1>0, <2>1, LoadingAlone
  <2>. QED
    BY <2>1, <2>2 DEF Faithful
<1>5. ASSUME NEW p \in Pids, QueueProcess(p)
      PROVE  Faithful'
  <2>1. /\ loading # NotLoading /\ loading' = NotLoading /\ p = loading.pid
        /\ ready_queue' \subseteq ready_queue \cup {p} /\ UNCHANGED pcb
    BY <1>5 DEF QueueProcess, Loads
  <2>2. hw_threads' = <<>>
    BY <1>0, <2>1, LoadingAlone
  <2>. QED
    BY <2>1, <2>2 DEF Faithful
<1>. QED
  BY <1>0, <1>1, <1>2, <1>3, <1>4, <1>5 DEF LoaderNext

\* No other step runs while it does.
LEMMA FaithfulNext ==
    ASSUME Sound, Sound', Faithful, [Next]_vars
    PROVE  Faithful'
<1>1. CASE UNCHANGED vars
  BY <1>1 DEF vars, memoryVars, loaderVars, Faithful, Scheduling, Home, Entry, base
<1>2. CASE Load
  BY <1>2, LoadFaithful
<1>3. ASSUME NEW p \in Pids, Assign(p)
      PROVE  Faithful'
  <2>1. /\ Scheduling /\ ready_queue' = ready_queue \ {p}
        /\ pcb' = [pcb EXCEPT ![p].state = "RUNNING"] /\ UNCHANGED <<loading, files_read>>
    BY <1>3 DEF Assign
  <2>2. \A q \in ready_queue' : pcb'[q].state # "TERMINATED"
    BY <2>1, OnThreads DEF Faithful
  <2>. QED
    BY <2>1, <2>2 DEF Faithful, Scheduling
<1>4. ASSUME NEW k \in 1 .. NumThreads, k <= Len(hw_threads), Execute(k) \/ Expire(k) \/ Complete(k)
      PROVE  Faithful'
  <2>. PICK p : p = hw_threads[k].pcb
    OBVIOUS
  <2>1. k \in 1 .. Len(hw_threads)
    BY <1>4, OnThreads
  <2>2. Scheduling
    BY <2>1 DEF Faithful
  <2>3. p \in Pids /\ p \notin ready_queue /\ pcb \in [Pids -> PcbType] /\ pcb[p] \in PcbType
        /\ \A q \in ready_queue : q \in Pids
    BY <2>1, OnThreads
  <2>4. CASE Expire(k)
    <3>1. /\ pcb' = [pcb EXCEPT ![p] = SavedContext(hw_threads[k])]
          /\ ready_queue' \subseteq ready_queue \cup {p} /\ UNCHANGED <<loading, files_read>>
      BY <2>4 DEF Expire
    <3>2. SavedContext(hw_threads[k]).state = "WAITING"
      BY <2>3 DEF SavedContext, PcbType
    <3>3. \A q \in ready_queue' : pcb'[q].state # "TERMINATED"
      BY <3>1, <3>2, <2>3 DEF Faithful
    <3>. QED
      BY <3>1, <3>3, <2>2 DEF Faithful, Scheduling
  <2>5. CASE Complete(k) \/ Execute(k)
    <3>1. UNCHANGED <<loading, files_read, ready_queue>>
      BY <2>5 DEF Complete, Execute, execute_ld, execute_st, execute_add, execute_exit, UnknownOpcode, Ticks
    <3>2. \A q \in Pids : q # p => pcb'[q] = pcb[q]
      BY <2>5, <2>3 DEF Complete, Execute, execute_ld, execute_st, execute_add, execute_exit, UnknownOpcode, Goes_on
    <3>. QED
      BY <3>1, <3>2, <2>2, <2>3 DEF Faithful, Scheduling
  <2>. QED
    BY <1>4, <2>4, <2>5
<1>5. CASE IdleTick
  BY <1>1, <1>5 DEF IdleTick
<1>. QED
  BY <1>1, <1>2, <1>3, <1>4, <1>5 DEF Next

\* The two invariants hold together as long as programs keep inside.
LEMMA FaithfulAlways == Spec /\ []KeepsInside => [](Sound /\ Faithful)
<1>1. Sound /\ Sound' /\ Faithful /\ [Next]_vars => Faithful'
  BY FaithfulNext
<1>. QED
  BY <1>1, FaithfulInit, SoundAlways, PTL DEF Spec

----------------------------------------------------------------------------
(* The private machine of each process.                                    *)


Linked(p)      == [w \in WordsOf(p) |-> LinkedImage(program[p], w)]
Words(p)       == [w \in WordsOf(p) |-> memory[Home(p, w)]]
NoRegisters    == [r \in RegisterNumbers |-> 0]
OriginOf(p)    == IF p \in Admitted THEN Linked(p) ELSE <<>>
ImageOf(p)     == IF p \in Admitted
                  THEN [w \in WordsOf(p) |-> mmu_read_word(Context(p).pgb, WORD_SIZE * w)] ELSE <<>>
PcOf(p)        == IF p \in Admitted THEN Context(p).pc ELSE 0
RegistersOf(p) == IF p \in Admitted THEN Context(p).registers ELSE NoRegisters

\* What the mapping says of a process.
View(p) == <<PhaseOf(p), OriginOf(p), ImageOf(p), PcOf(p), RegistersOf(p)>>

Nothing(phase) == <<phase, <<>>, <<>>, 0, NoRegisters>>

Phases    == [p \in Pids |-> PhaseOf(p)]
Origins   == [p \in Pids |-> OriginOf(p)]
Images    == [p \in Pids |-> ImageOf(p)]
Counters  == [p \in Pids |-> PcOf(p)]
Registers == [p \in Pids |-> RegistersOf(p)]

\* The step as PrivateMachine sees it.
PrivateStep == [Private!Next]_(Private!vars)

\* Only p changes there.
Others(p) == \A q \in Pids \ {p} : View(q)' = View(q)

\* The registers of PrivateMachine are those of its own instance of Instructions.
LEMMA SameZeros == Private!Zeros = NoRegisters
BY DEF Private!Zeros, NoRegisters, Private!RegisterNumbers, RegisterNumbers

\* Componentwise, a view that stays.
LEMMA Componentwise ==
    ASSUME NEW p, View(p)' = View(p)
    PROVE  /\ PhaseOf(p)' = PhaseOf(p) /\ OriginOf(p)' = OriginOf(p) /\ ImageOf(p)' = ImageOf(p)
           /\ PcOf(p)' = PcOf(p) /\ RegistersOf(p)' = RegistersOf(p)
BY DEF View

\* A step that no view notices.
LEMMA PrivateStutters ==
    ASSUME \A p \in Pids : View(p)' = View(p)
    PROVE  PrivateStep
<1>1. UNCHANGED <<Phases, Origins, Images, Counters, Registers>>
  BY Componentwise DEF Phases, Origins, Images, Counters, Registers
<1>. QED
  BY <1>1 DEF PrivateStep, Private!vars, Phases, Origins, Images, Counters, Registers, OriginOf, ImageOf,
     PcOf, RegistersOf, NoRegisters, Linked

\* A step after which one process is gone.
LEMMA PrivateLeaves ==
    ASSUME NEW p \in Pids, PhaseOf(p) # "gone", View(p)' = Nothing("gone"), Others(p)
    PROVE  PrivateStep
<1>1. /\ Phases' = [Phases EXCEPT ![p] = "gone"]
      /\ Origins' = [Origins EXCEPT ![p] = <<>>] /\ Images' = [Images EXCEPT ![p] = <<>>]
      /\ Counters' = [Counters EXCEPT ![p] = 0] /\ Registers' = [Registers EXCEPT ![p] = NoRegisters]
  <2>1. /\ PhaseOf(p)' = "gone" /\ OriginOf(p)' = <<>> /\ ImageOf(p)' = <<>>
        /\ PcOf(p)' = 0 /\ RegistersOf(p)' = NoRegisters
    BY DEF View, Nothing
  <2>. QED
    BY <2>1, Componentwise DEF Others, Phases, Origins, Images, Counters, Registers
<1>2. Phases[p] # "gone"
  BY DEF Phases
<1>3. Private!Leave(p)
  BY <1>1, <1>2, SameZeros DEF Private!Leave, Private!NoImage,
     Phases, Origins, Images, Counters, Registers, OriginOf, ImageOf, PcOf, RegistersOf, NoRegisters, Linked
<1>. QED
  BY <1>3 DEF PrivateStep, Private!Next

\* Both modules decode instructions the same way.
LEMMA SameInstructions ==
    ASSUME NEW i
    PROVE  /\ Private!extract_opcode(i) = extract_opcode(i) /\ Private!extract_reg(i) = extract_reg(i)
           /\ Private!extract_address(i) = extract_address(i)
           /\ Private!extract_reg_src1(i) = extract_reg_src1(i)
           /\ Private!extract_reg_src2(i) = extract_reg_src2(i)
           /\ Private!IsInstruction(i) <=> IsInstruction(i)
           /\ \A x, y : Private!Sum32(x, y) = Sum32(x, y)
           /\ Private!Word = Word /\ Private!WORD_SIZE = WORD_SIZE
           /\ Private!OP_LD = OP_LD /\ Private!OP_ST = OP_ST /\ Private!OP_ADD = OP_ADD
           /\ Private!OP_EXIT = OP_EXIT
BY DEF Private!extract_opcode, Private!extract_reg, Private!extract_address, Private!extract_reg_src1,
    Private!extract_reg_src2, Private!IsInstruction, Private!Sum32, Private!Word, Private!WordModulus,
    Private!WORD_SIZE, Private!OP_LD, Private!OP_ST, Private!OP_ADD, Private!OP_EXIT,
    extract_opcode, extract_reg, extract_address, extract_reg_src1, extract_reg_src2,
    IsInstruction, Sum32, Word, WordModulus, WORD_SIZE, OP_LD, OP_ST, OP_ADD, OP_EXIT

\* A step that shows a process for the first time, with its image.
LEMMA PrivateAdmits ==
    ASSUME NEW p \in Pids, View(p) = Nothing("absent"),
           NEW i, NEW n \in 1 .. AddressSpace \div WORD_SIZE, i \in [0 .. n - 1 -> Word],
           View(p)' = <<"live", i, i, 0, NoRegisters>>, Others(p)
    PROVE  PrivateStep
<1>1. /\ PhaseOf(p) = "absent" /\ PcOf(p) = 0 /\ RegistersOf(p) = NoRegisters
      /\ PhaseOf(p)' = "live" /\ OriginOf(p)' = i /\ ImageOf(p)' = i
      /\ PcOf(p)' = 0 /\ RegistersOf(p)' = NoRegisters
  BY DEF View, Nothing
<1>2. /\ Phases[p] = "absent" /\ Phases' = [Phases EXCEPT ![p] = "live"]
      /\ Origins'[p] = i /\ \A q \in Pids \ {p} : Origins'[q] = Origins[q]
      /\ Images' = [Images EXCEPT ![p] = Origins'[p]] /\ UNCHANGED <<Counters, Registers>>
  BY <1>1, Componentwise DEF Others, Phases, Origins, Images, Counters, Registers
<1>3. Private!IsImage(i)
  BY SameInstructions DEF Private!IsImage
<1>4. Private!Admit(p)
  <2>1. Private!IsImage(Origins'[p])
    BY <1>2, <1>3
  <2>. QED
    BY <2>1, <1>2 DEF Private!Admit,
     Phases, Origins, Images, Counters, Registers, OriginOf, ImageOf, PcOf, RegistersOf, NoRegisters, Linked
<1>. QED
  BY <1>4 DEF PrivateStep, Private!Next

\* The instruction that p is at, and what it does to the words and registers of p.
CurrentInstruction(p) == ImageOf(p)[PcOf(p) \div WORD_SIZE]

Operand(p) == extract_address(CurrentInstruction(p)) \div WORD_SIZE

Target(p) == extract_reg(CurrentInstruction(p))

Computes(p, image, registers) ==
    \/ /\ extract_opcode(CurrentInstruction(p)) = OP_LD /\ Operand(p) \in DOMAIN ImageOf(p)
       /\ image = ImageOf(p)
       /\ registers = [RegistersOf(p) EXCEPT ![Target(p)] = ImageOf(p)[Operand(p)]]
    \/ /\ extract_opcode(CurrentInstruction(p)) = OP_ST /\ Operand(p) \in DOMAIN ImageOf(p)
       /\ image = [ImageOf(p) EXCEPT ![Operand(p)] = RegistersOf(p)[Target(p)]]
       /\ registers = RegistersOf(p)
    \/ /\ extract_opcode(CurrentInstruction(p)) = OP_ADD
       /\ image = ImageOf(p)
       /\ registers = [RegistersOf(p) EXCEPT ![Target(p)] =
             Sum32(RegistersOf(p)[extract_reg_src1(CurrentInstruction(p))],
                   RegistersOf(p)[extract_reg_src2(CurrentInstruction(p))])]

\* A step that executes one instruction of one process.
LEMMA PrivateExecutes ==
    ASSUME NEW q \in Pids, PhaseOf(q) = "live", PcOf(q) \div WORD_SIZE \in DOMAIN ImageOf(q),
           NEW image, NEW registers, Computes(q, image, registers),
           View(q)' = <<"live", OriginOf(q), image, PcOf(q) + WORD_SIZE, registers>>, Others(q)
    PROVE  PrivateStep
<1>. DEFINE i == CurrentInstruction(q)
           a == Operand(q)
<1>1. /\ UNCHANGED <<Phases, Origins>>
      /\ Images' = [Images EXCEPT ![q] = image]
      /\ Counters' = [Counters EXCEPT ![q] = @ + WORD_SIZE]
      /\ Registers' = [Registers EXCEPT ![q] = registers]
  <2>1. /\ PhaseOf(q)' = PhaseOf(q) /\ OriginOf(q)' = OriginOf(q) /\ ImageOf(q)' = image
        /\ PcOf(q)' = PcOf(q) + WORD_SIZE /\ RegistersOf(q)' = registers
    BY DEF View
  <2>. QED
    BY <2>1, Componentwise DEF Others, Phases, Origins, Images, Counters, Registers
<1>2. /\ Phases[q] = "live" /\ Images[q] = ImageOf(q) /\ Counters[q] = PcOf(q) /\ Registers[q] = RegistersOf(q)
  BY DEF Phases, Images, Counters, Registers
<1>3. /\ q \in DOMAIN Images /\ q \in DOMAIN Registers
  BY DEF Images, Registers
<1>. DEFINE c == [p \in Pids |-> IF p \in Admitted THEN Context(p).pc ELSE 0][q]
<1>8. Private!At(q, c) = i
  BY SameInstructions DEF Private!At, CurrentInstruction, ImageOf, PcOf
<1>9. Private!Holds(q, c)
  BY SameInstructions DEF Private!Holds, ImageOf, PcOf
<1>a. [p \in Pids |-> PhaseOf(p)][q] = "live"
  OBVIOUS
<1>b. Private!Step(q) => PrivateStep
  BY DEF PrivateStep, Private!Next
<1>. HIDE DEF i
<1>4. CASE extract_opcode(i) = OP_LD
  <2>1. a \in DOMAIN Images[q] /\ image = Images[q]
        /\ registers = [Registers[q] EXCEPT ![extract_reg(i)] = Images[q][a]]
    BY <1>2, <1>4 DEF Computes, Target, i, OP_LD, OP_ST, OP_ADD
  <2>2. UNCHANGED Images
    BY <1>1, <1>3, <2>1 DEF Images
  <2>3. /\ extract_opcode(i) = OP_LD /\ extract_address(i) \div WORD_SIZE \in DOMAIN Images[q]
        /\ Registers' = [Registers EXCEPT ![q][extract_reg(i)] = Images[q][extract_address(i) \div WORD_SIZE]]
    BY <1>1, <1>4, <2>1 DEF Operand, i
  <2>4. Private!Load(q, i)
    BY <1>1, <2>2, <2>3, SameInstructions DEF Private!Load, Private!Holds, Private!At, Private!Next_pc,
       Phases, Origins, Images, Counters, Registers, OriginOf, ImageOf, PcOf, RegistersOf, NoRegisters, Linked
  <2>7. Private!Step(q)
    BY <1>8, <1>9, <1>a, <2>4 DEF Private!Step, Private!Load, Private!Next_pc, Private!Holds, Private!At
  <2>. QED
    BY <2>7, <1>b
<1>6. CASE extract_opcode(i) = OP_ST
  <2>1. a \in DOMAIN Images[q] /\ image = [Images[q] EXCEPT ![a] = Registers[q][extract_reg(i)]]
        /\ registers = Registers[q]
    BY <1>2, <1>6 DEF Computes, Target, i, OP_LD, OP_ST, OP_ADD
  <2>2. UNCHANGED Registers
    BY <1>1, <1>3, <2>1 DEF Registers
  <2>3. /\ extract_opcode(i) = OP_ST /\ extract_address(i) \div WORD_SIZE \in DOMAIN Images[q]
        /\ Images' = [Images EXCEPT ![q][extract_address(i) \div WORD_SIZE] = Registers[q][extract_reg(i)]]
    BY <1>1, <1>6, <2>1 DEF Operand, i
  <2>4. Private!Store(q, i)
    BY <1>1, <2>2, <2>3, SameInstructions DEF Private!Store, Private!Holds, Private!At, Private!Next_pc,
       Phases, Origins, Images, Counters, Registers, OriginOf, ImageOf, PcOf, RegistersOf, NoRegisters, Linked
  <2>7. Private!Step(q)
    BY <1>8, <1>9, <1>a, <2>4 DEF Private!Step, Private!Store, Private!Next_pc, Private!Holds, Private!At
  <2>. QED
    BY <2>7, <1>b
<1>7. CASE extract_opcode(i) = OP_ADD
  <2>1. /\ image = Images[q]
        /\ registers = [Registers[q] EXCEPT ![extract_reg(i)] =
              Sum32(Registers[q][extract_reg_src1(i)], Registers[q][extract_reg_src2(i)])]
    BY <1>2, <1>7 DEF Computes, Target, i, OP_LD, OP_ST, OP_ADD
  <2>2. UNCHANGED Images
    BY <1>1, <1>3, <2>1 DEF Images
  <2>3. /\ extract_opcode(i) = OP_ADD
        /\ Registers' = [Registers EXCEPT ![q][extract_reg(i)] =
              Sum32(Registers[q][extract_reg_src1(i)], Registers[q][extract_reg_src2(i)])]
    BY <1>1, <1>7, <2>1 DEF i
  <2>4. /\ Private!extract_opcode(i) = Private!OP_ADD
        /\ Registers' = [Registers EXCEPT ![q][Private!extract_reg(i)] =
              Private!Sum32(Registers[q][Private!extract_reg_src1(i)], Registers[q][Private!extract_reg_src2(i)])]
    BY <2>3, SameInstructions
  <2>5. Private!Next_pc(q)
    BY <1>1, SameInstructions DEF Private!Next_pc, Counters, PcOf
  <2>6. Private!Add(q, i)
    BY <1>1, <2>2, <2>4, <2>5 DEF Private!Add,
       Phases, Origins, Images, Counters, Registers, OriginOf, ImageOf, PcOf, RegistersOf, NoRegisters, Linked
  <2>7. Private!Step(q)
    BY <1>8, <1>9, <1>a, <2>6 DEF Private!Step, Private!Add, Private!Next_pc, Private!Holds, Private!At
  <2>. QED
    BY <2>7, <1>b
<1>. QED
  BY <1>4, <1>6, <1>7 DEF Computes, i

\* A step that halts one process.
LEMMA PrivateHalts ==
    ASSUME NEW q \in Pids, PhaseOf(q) = "live", PcOf(q) \div WORD_SIZE \in DOMAIN ImageOf(q),
           extract_opcode(CurrentInstruction(q)) = OP_EXIT \/ ~IsInstruction(CurrentInstruction(q)),
           View(q)' = <<"halted", OriginOf(q), ImageOf(q), PcOf(q), RegistersOf(q)>>, Others(q)
    PROVE  PrivateStep
<1>. DEFINE i == CurrentInstruction(q)
<1>1. /\ Phases' = [Phases EXCEPT ![q] = "halted"]
      /\ UNCHANGED <<Origins, Images, Counters, Registers>>
  <2>1. /\ PhaseOf(q)' = "halted" /\ OriginOf(q)' = OriginOf(q) /\ ImageOf(q)' = ImageOf(q)
        /\ PcOf(q)' = PcOf(q) /\ RegistersOf(q)' = RegistersOf(q)
    BY DEF View
  <2>. QED
    BY <2>1, Componentwise DEF Others, Phases, Origins, Images, Counters, Registers
<1>2. Phases[q] = "live" /\ Counters[q] \div WORD_SIZE \in DOMAIN Images[q]
      /\ i = Images[q][Counters[q] \div WORD_SIZE]
      /\ (extract_opcode(i) = OP_EXIT \/ ~IsInstruction(i))
  BY DEF Phases, Images, Counters, CurrentInstruction
<1>. DEFINE c == [p \in Pids |-> IF p \in Admitted THEN Context(p).pc ELSE 0][q]
<1>4. Private!At(q, c) = i
  BY SameInstructions DEF Private!At, CurrentInstruction, ImageOf, PcOf
<1>5. Private!Holds(q, c)
  BY SameInstructions DEF Private!Holds, ImageOf, PcOf
<1>6. [p \in Pids |-> PhaseOf(p)][q] = "live"
  OBVIOUS
<1>7. Private!Step(q) => PrivateStep
  BY DEF PrivateStep, Private!Next
<1>. HIDE DEF i
<1>3. Private!Halt(q, i)
  BY <1>1, <1>2, SameInstructions DEF Private!Halt,
     Phases, Origins, Images, Counters, Registers, OriginOf, ImageOf, PcOf, RegistersOf, NoRegisters, Linked
<1>. QED
  BY <1>3, <1>4, <1>5, <1>6, <1>7 DEF Private!Step

\* Where Context looks for a process, and what it finds.
ContextsFound ==
    /\ \A k \in 1 .. Len(hw_threads) :
          Context(hw_threads[k].pcb) = [pgb |-> base(hw_threads[k].pcb), pc |-> hw_threads[k].PC,
                                        registers |-> hw_threads[k].registers]
    /\ \A p \in Admitted :
          (\A k \in 1 .. Len(hw_threads) : hw_threads[k].pcb # p)
          => Context(p) = [pgb |-> base(p), pc |-> pcb[p].pc, registers |-> pcb[p].registers]

\* A process is on at most one thread, so Context can choose only that one.
LEMMA Contexts == Sound => ContextsFound
<1>. SUFFICES ASSUME Sound PROVE ContextsFound
  OBVIOUS
<1>1. Loaded = 1 .. Len(hw_threads)
  BY OnThreads DEF Loaded
<1>2. ASSUME NEW k \in 1 .. Len(hw_threads)
      PROVE  Context(hw_threads[k].pcb) = [pgb |-> base(hw_threads[k].pcb), pc |-> hw_threads[k].PC,
                                           registers |-> hw_threads[k].registers]
  <2>. DEFINE j == CHOOSE j \in Loaded : hw_threads[j].pcb = hw_threads[k].pcb
  <2>1. j \in Loaded /\ hw_threads[j].pcb = hw_threads[k].pcb
    BY <1>1
  <2>2. j = k
    BY <1>1, <2>1, OnThreads
  <2>3. IsLoaded(hw_threads[k].pcb)
    BY <1>1 DEF IsLoaded
  <2>4. Context(hw_threads[k].pcb) = [pgb |-> hw_threads[j].PTBR, pc |-> hw_threads[j].PC,
                                      registers |-> hw_threads[j].registers]
    BY <2>3 DEF Context
  <2>. HIDE DEF j
  <2>. QED
    BY <2>2, <2>4, OnThreads
<1>3. ASSUME NEW p \in Admitted, \A k \in 1 .. Len(hw_threads) : hw_threads[k].pcb # p
      PROVE  Context(p) = [pgb |-> base(p), pc |-> pcb[p].pc, registers |-> pcb[p].registers]
  <2>1. ~IsLoaded(p)
    BY <1>1, <1>3 DEF IsLoaded
  <2>2. pcb[p].pgb = base(p)
    BY DEF Sound, Settled
  <2>. QED
    BY <2>1, <2>2 DEF Context
<1>. QED
  BY <1>2, <1>3 DEF ContextsFound

\* The same in the next state.
LEMMA ContextsNext == Sound' => ContextsFound'
BY Contexts, PTL

\* What a process shows, in terms of the memory of its frames.
Shown(p) ==
    IF p \in freed THEN Nothing("gone")
    ELSE IF p \notin Admitted THEN Nothing("absent")
    ELSE <<IF pcb[p].state = "TERMINATED" THEN "halted" ELSE "live", Linked(p), Words(p),
           Context(p).pc, Context(p).registers>>

AllShown == \A p \in Pids : View(p) = Shown(p)

\* The MMU reads the words of a process where Home says they are.
LEMMA ShowsWords == Sound => AllShown
<1>. SUFFICES ASSUME Sound, NEW p \in Pids PROVE View(p) = Shown(p)
  BY DEF AllShown
<1>1. CASE p \in freed \/ p \notin Admitted
  BY <1>1 DEF View, Shown, Nothing, PhaseOf, OriginOf, ImageOf, PcOf, RegistersOf, Admitted
<1>2. CASE p \notin freed /\ p \in Admitted
  <2>0. \E pc, registers : Context(p) = [pgb |-> base(p), pc |-> pc, registers |-> registers]
    <3>1. CASE \E k \in 1 .. Len(hw_threads) : hw_threads[k].pcb = p
      BY <3>1, Contexts DEF ContextsFound
    <3>2. CASE \A k \in 1 .. Len(hw_threads) : hw_threads[k].pcb # p
      BY <1>2, <3>2, Contexts DEF ContextsFound
    <3>. QED
      BY <3>1, <3>2
  <2>1. Context(p).pgb = base(p)
    BY <2>0
  <2>2. pages(p) = total_pages(program[p]) /\ pages(p) \in Nat
    BY <1>2, EntriesInKernel DEF Sound, LaidOut, Settled
  <2>3. ASSUME NEW w \in WordsOf(p)
        PROVE  mmu_read_word(Context(p).pgb, WORD_SIZE * w) = memory[Home(p, w)]
    <3>1. w \in 0 .. pages(p) * WordsPerPage - 1 /\ w \in Nat
      BY <2>2, <2>3, Sizes DEF WordsOf
    <3>. DEFINE a == WORD_SIZE * w
    <3>2. a \in Nat /\ a \div WORD_SIZE = w
      BY <3>1 DEF WORD_SIZE
    <3>. HIDE DEF a
    <3>3. translate_virtual_to_physical(base(p), a) = Home(p, a \div WORD_SIZE)
      BY <1>2, <3>1, <3>2, ReadsHome
    <3>4. mmu_read_word(base(p), a) = memory[Home(p, w)]
      BY <3>2, <3>3 DEF mmu_read_word
    <3>. QED
      BY <2>1, <3>4 DEF a
  <2>4. ImageOf(p) = Words(p)
    BY <1>2, <2>3 DEF ImageOf, Words
  <2>. QED
    BY <1>2, <2>4 DEF View, Shown, PhaseOf, OriginOf, PcOf, RegistersOf
<1>. QED
  BY <1>1, <1>2

\* The same in the next state.
LEMMA ShowsWordsNext == Sound' => AllShown'
BY ShowsWords, PTL

\* Where the process p is found: on a thread, or else in its PCB.
Finds(p, pc, registers) ==
    \/ \E k \in 1 .. Len(hw_threads) :
          hw_threads[k].pcb = p /\ hw_threads[k].PC = pc /\ hw_threads[k].registers = registers
    \/ /\ \A k \in 1 .. Len(hw_threads) : hw_threads[k].pcb # p
       /\ pcb[p].pc = pc /\ pcb[p].registers = registers

\* Context finds it there.
FindsContexts ==
    \A p \in Admitted :
       /\ Finds(p, Context(p).pc, Context(p).registers)
       /\ \A pc, registers : Finds(p, pc, registers) => Context(p).pc = pc /\ Context(p).registers = registers

\* There is one place where a process is found, and Context looks there.
LEMMA Found == Sound => FindsContexts
<1>. SUFFICES ASSUME Sound, NEW p \in Admitted
     PROVE  /\ Finds(p, Context(p).pc, Context(p).registers)
            /\ \A pc, registers : Finds(p, pc, registers)
                  => Context(p).pc = pc /\ Context(p).registers = registers
  BY DEF FindsContexts
<1>1. CASE \E k \in 1 .. Len(hw_threads) : hw_threads[k].pcb = p
  <2>1. PICK k \in 1 .. Len(hw_threads) : hw_threads[k].pcb = p
    BY <1>1
  <2>2. Context(p).pc = hw_threads[k].PC /\ Context(p).registers = hw_threads[k].registers
    <3>1. Context(hw_threads[k].pcb) = [pgb |-> base(hw_threads[k].pcb), pc |-> hw_threads[k].PC,
                                        registers |-> hw_threads[k].registers]
      BY Contexts DEF ContextsFound
    <3>. QED
      BY <2>1, <3>1
  <2>3. \A j \in 1 .. Len(hw_threads) : hw_threads[j].pcb = p => j = k
    BY <2>1, OnThreads
  <2>. QED
    BY <2>1, <2>2, <2>3 DEF Finds
<1>2. CASE \A k \in 1 .. Len(hw_threads) : hw_threads[k].pcb # p
  <2>1. Context(p).pc = pcb[p].pc /\ Context(p).registers = pcb[p].registers
    BY <1>2, Contexts DEF ContextsFound
  <2>. QED
    BY <1>2, <2>1 DEF Finds
<1>. QED
  BY <1>1, <1>2

\* The same in the next state.
LEMMA FoundNext == Sound' => FindsContexts'
BY Found, PTL

\* A process that is found where it was, with the same words, shows nothing.
LEMMA Stays ==
    ASSUME Sound, Sound', NEW p \in Pids,
           p \in freed' <=> p \in freed, (p \in Admitted)' <=> p \in Admitted,
           p \in Admitted =>
              /\ program'[p] = program[p]
              /\ pcb'[p].state = "TERMINATED" <=> pcb[p].state = "TERMINATED"
              /\ \A pc, registers : Finds(p, pc, registers) => Finds(p, pc, registers)'
              /\ Words(p)' = Words(p)
    PROVE  View(p)' = View(p)
<1>1. View(p) = Shown(p) /\ View(p)' = Shown(p)'
  BY ShowsWords, ShowsWordsNext DEF AllShown
<1>2. CASE p \in freed \/ p \notin Admitted
  BY <1>1, <1>2 DEF Shown, Nothing, NoRegisters
<1>3. CASE p \notin freed /\ p \in Admitted
  <2>1. PICK pc, registers : Context(p).pc = pc /\ Context(p).registers = registers
    OBVIOUS
  <2>2. Finds(p, pc, registers)'
    BY <1>3, <2>1, Found DEF FindsContexts
  <2>3. Context(p)'.pc = pc /\ Context(p)'.registers = registers
    BY <1>3, <2>2, FoundNext DEF FindsContexts
  <2>4. Linked(p)' = Linked(p)
    BY <1>3 DEF Linked, WordsOf
  <2>. QED
    BY <1>1, <1>3, <2>1, <2>3, <2>4 DEF Shown
<1>. QED
  BY <1>2, <1>3

\* Assignment, expiry and the tick that finds nothing to do do not show.
LEMMA AssignStays ==
    ASSUME Sound, Sound', Faithful, NEW p \in Pids, Assign(p)
    PROVE  PrivateStep
<1>1. /\ p \in ready_queue /\ pcb' = [pcb EXCEPT ![p].state = "RUNNING"]
      /\ hw_threads' = Append(hw_threads, [pcb |-> p, PTBR |-> pcb[p].pgb, PC |-> pcb[p].pc,
                                           registers |-> pcb[p].registers])
      /\ UNCHANGED <<memory, next_pid, program, page_tables, loading, freed>>
  BY DEF Assign, memoryVars
<1>2. /\ pcb[p].state # "TERMINATED" /\ \A q \in Pids : q # p => pcb'[q] = pcb[q]
      /\ pcb'[p].state # "TERMINATED" /\ pcb'[p].pc = pcb[p].pc /\ pcb'[p].registers = pcb[p].registers
  <2>1. pcb[p].state # "TERMINATED"
    BY <1>1 DEF Faithful
  <2>2. pcb \in [Pids -> PcbType]
    BY OnThreads
  <2>. QED
    BY <1>1, <2>1, <2>2 DEF PcbType
<1>3. /\ Len(hw_threads) \in Nat /\ Len(hw_threads') = Len(hw_threads) + 1
      /\ \A k \in 1 .. Len(hw_threads) : hw_threads'[k] = hw_threads[k] /\ hw_threads[k].pcb # p
      /\ hw_threads'[Len(hw_threads) + 1] = [pcb |-> p, PTBR |-> pcb[p].pgb, PC |-> pcb[p].pc,
                                             registers |-> pcb[p].registers]
  <2>1. hw_threads \in Seq(Threads)
    BY DEF Sound
  <2>2. \A k \in 1 .. Len(hw_threads) : hw_threads[k].pcb # p
    BY <1>1, OnThreads
  <2>. QED
    BY <1>1, <2>1, <2>2
<1>4. ASSUME NEW q \in Pids, NEW pc, NEW registers, Finds(q, pc, registers)
      PROVE  Finds(q, pc, registers)'
  <2>1. CASE q = p
    <3>1. pcb[p].pc = pc /\ pcb[p].registers = registers
      BY <1>3, <1>4, <2>1 DEF Finds
    <3>. QED
      BY <1>3, <2>1, <3>1 DEF Finds
  <2>2. CASE q # p
    <3>1. CASE \E k \in 1 .. Len(hw_threads) : hw_threads[k].pcb = q
      BY <1>3, <1>4, <3>1 DEF Finds
    <3>2. CASE \A k \in 1 .. Len(hw_threads) : hw_threads[k].pcb # q
      <4>1. pcb[q].pc = pc /\ pcb[q].registers = registers
        BY <1>4, <3>2 DEF Finds
      <4>2. \A k \in 1 .. Len(hw_threads') : hw_threads'[k].pcb # q
        BY <1>3, <2>2, <3>2
      <4>. QED
        BY <1>2, <2>2, <4>1, <4>2 DEF Finds
    <3>. QED
      BY <3>1, <3>2
  <2>. QED
    BY <2>1, <2>2
<1>5. ASSUME NEW q \in Pids PROVE View(q)' = View(q)
  <2>1. Words(q)' = Words(q)
    BY <1>1 DEF Words, WordsOf, Home, Entry, base
  <2>. QED
    BY <1>1, <1>2, <1>4, <2>1, Stays DEF Admitted
<1>. QED
  BY <1>5, PrivateStutters

\* On the threads after a removal are the threads that were there, but k.
LEMMA RemoveKeepsOthers ==
    ASSUME Sound, NEW k \in 1 .. Len(hw_threads), hw_threads' = RemoveThread(k),
           NEW q \in Pids, q # hw_threads[k].pcb, pcb'[q] = pcb[q],
           NEW pc, NEW registers, Finds(q, pc, registers)
    PROVE  Finds(q, pc, registers)'
<1>1. /\ hw_threads \in Seq(Threads) /\ Len(hw_threads) \in Nat
      /\ Len(hw_threads') = Len(hw_threads) - 1
      /\ \A j \in 1 .. Len(hw_threads) - 1 :
            hw_threads'[j] = IF j < k THEN hw_threads[j] ELSE hw_threads[j + 1]
  <2>1. hw_threads \in Seq(Threads)
    BY DEF Sound
  <2>. QED
    BY <2>1 DEF RemoveThread, DropAt
<1>2. CASE \E j \in 1 .. Len(hw_threads) : hw_threads[j].pcb = q
  <2>1. PICK j \in 1 .. Len(hw_threads) :
           hw_threads[j].pcb = q /\ hw_threads[j].PC = pc /\ hw_threads[j].registers = registers
    BY <1>2 DEF Finds
  <2>2. j # k
    BY <2>1
  <2>3. CASE j < k
    <3>1. j \in 1 .. Len(hw_threads') /\ hw_threads'[j] = hw_threads[j]
      BY <1>1, <2>3
    <3>. QED
      BY <2>1, <3>1 DEF Finds
  <2>4. CASE j > k
    <3>1. j - 1 \in 1 .. Len(hw_threads') /\ hw_threads'[j - 1] = hw_threads[j]
      BY <1>1, <2>4
    <3>. QED
      BY <2>1, <3>1 DEF Finds
  <2>. QED
    BY <2>2, <2>3, <2>4
<1>3. CASE \A j \in 1 .. Len(hw_threads) : hw_threads[j].pcb # q
  <2>1. pcb[q].pc = pc /\ pcb[q].registers = registers
    BY <1>3 DEF Finds
  <2>2. \A j \in 1 .. Len(hw_threads') : hw_threads'[j].pcb # q
    BY <1>1, <1>3
  <2>. QED
    BY <2>1, <2>2 DEF Finds
<1>. QED
  BY <1>2, <1>3

\* The saved context is the one the thread had.
LEMMA ExpireStays ==
    ASSUME Sound, Sound', NEW k \in 1 .. Len(hw_threads), Expire(k)
    PROVE  PrivateStep
<1>. DEFINE h == hw_threads[k]
           p == h.pcb
<1>1. /\ pcb[p].state # "TERMINATED" /\ pcb' = [pcb EXCEPT ![p] = SavedContext(h)]
      /\ hw_threads' = RemoveThread(k)
      /\ UNCHANGED <<memory, next_pid, program, page_tables, loading, freed>>
  BY DEF Expire, HasCompleted, memoryVars
<1>2. /\ p \in Pids /\ \A q \in Pids : q # p => pcb'[q] = pcb[q]
      /\ pcb'[p].state # "TERMINATED" /\ pcb'[p].pc = h.PC /\ pcb'[p].registers = h.registers
  <2>1. pcb \in [Pids -> PcbType] /\ p \in Pids
    BY OnThreads
  <2>. DEFINE v == SavedContext(h)
  <2>2. v.state = "WAITING" /\ v.pc = h.PC /\ v.registers = h.registers
    <3>1. pcb[p] \in PcbType
      BY <2>1
    <3>. QED
      BY <3>1 DEF SavedContext, PcbType
  <2>3. pcb' = [pcb EXCEPT ![p] = v]
    BY <1>1
  <2>. HIDE DEF v, p, h
  <2>. QED
    BY <2>1, <2>2, <2>3
<1>3. \A j \in 1 .. Len(hw_threads') : hw_threads'[j].pcb # p
  <2>1. hw_threads \in Seq(Threads)
    BY DEF Sound
  <2>2. /\ Len(hw_threads) \in Nat /\ Len(hw_threads') = Len(hw_threads) - 1
        /\ \A j \in 1 .. Len(hw_threads) - 1 :
              hw_threads'[j] = IF j < k THEN hw_threads[j] ELSE hw_threads[j + 1]
    BY <1>1, <2>1 DEF RemoveThread, DropAt
  <2>3. \A i, j \in 1 .. Len(hw_threads) : hw_threads[i].pcb = hw_threads[j].pcb => i = j
    BY OnThreads
  <2>4. ASSUME NEW j \in 1 .. Len(hw_threads') PROVE hw_threads'[j].pcb # p
    <3>1. PICK i \in 1 .. Len(hw_threads) : i # k /\ hw_threads'[j] = hw_threads[i]
      <4>1. CASE j < k
        BY <2>2, <4>1
      <4>2. CASE ~(j < k)
        <5>1. j + 1 \in 1 .. Len(hw_threads) /\ j + 1 # k /\ hw_threads'[j] = hw_threads[j + 1]
          BY <2>2, <4>2
        <5>. QED
          BY <5>1
      <4>. QED
        BY <4>1, <4>2
    <3>. QED
      BY <2>3, <3>1
  <2>. QED
    BY <2>4
<1>4. ASSUME NEW q \in Pids, NEW pc, NEW registers, Finds(q, pc, registers)
      PROVE  Finds(q, pc, registers)'
  <2>1. CASE q = p
    <3>1. h.PC = pc /\ h.registers = registers
      <4>1. PICK j \in 1 .. Len(hw_threads) :
               hw_threads[j].pcb = p /\ hw_threads[j].PC = pc /\ hw_threads[j].registers = registers
        BY <1>4, <2>1 DEF Finds
      <4>2. j = k
        BY <4>1, OnThreads
      <4>. QED
        BY <4>1, <4>2
    <3>. QED
      BY <1>2, <1>3, <2>1, <3>1 DEF Finds
  <2>2. CASE q # p
    BY <1>1, <1>2, <1>4, <2>2, RemoveKeepsOthers
  <2>. QED
    BY <2>1, <2>2
<1>5. ASSUME NEW q \in Pids PROVE View(q)' = View(q)
  <2>1. Words(q)' = Words(q)
    BY <1>1 DEF Words, WordsOf, Home, Entry, base
  <2>. QED
    BY <1>1, <1>2, <1>4, <2>1, Stays DEF Admitted
<1>. QED
  BY <1>5, PrivateStutters

\* A process that is destroyed leaves, and the others do not notice.
LEMMA Departs ==
    ASSUME Sound, Sound', NEW p \in Pids, p \notin freed, freed' = freed \cup {p},
           \A q \in Pids \ {p} :
              /\ (q \in Admitted)' <=> q \in Admitted
              /\ q \in Admitted =>
                    /\ program'[q] = program[q]
                    /\ pcb'[q].state = "TERMINATED" <=> pcb[q].state = "TERMINATED"
                    /\ \A pc, registers : Finds(q, pc, registers) => Finds(q, pc, registers)'
                    /\ Words(q)' = Words(q)
    PROVE  PrivateStep
<1>1. PhaseOf(p) # "gone"
  BY DEF PhaseOf
<1>2. View(p)' = Nothing("gone")
  <2>1. View(p)' = Shown(p)'
    BY ShowsWordsNext DEF AllShown
  <2>. QED
    BY <2>1 DEF Shown, Nothing, NoRegisters
<1>3. Others(p)
  BY Stays DEF Others
<1>. QED
  BY <1>1, <1>2, <1>3, PrivateLeaves

\* A completed process leaves; the shift of the threads does not show.
LEMMA CompleteLeaves ==
    ASSUME Sound, Sound', NEW k \in 1 .. Len(hw_threads), Complete(k)
    PROVE  PrivateStep
<1>. DEFINE p == hw_threads[k].pcb
<1>1. /\ p \in Pids /\ p \notin freed /\ freed' = freed \cup {p}
      /\ pcb' = [pcb EXCEPT ![p].pgb = Null] /\ hw_threads' = RemoveThread(k)
      /\ UNCHANGED <<memory, next_pid, program, page_tables, loading>>
  BY OnThreads DEF Complete, memoryVars
<1>2. \A q \in Pids : q # p => pcb'[q] = pcb[q]
  <2>1. pcb \in [Pids -> PcbType]
    BY OnThreads
  <2>. QED
    BY <1>1, <2>1
<1>3. ASSUME NEW q \in Pids \ {p}
      PROVE  /\ (q \in Admitted)' <=> q \in Admitted
             /\ q \in Admitted =>
                   /\ program'[q] = program[q]
                   /\ pcb'[q].state = "TERMINATED" <=> pcb[q].state = "TERMINATED"
                   /\ \A pc, registers : Finds(q, pc, registers) => Finds(q, pc, registers)'
                   /\ Words(q)' = Words(q)
  <2>1. Words(q)' = Words(q)
    BY <1>1 DEF Words, WordsOf, Home, Entry, base
  <2>2. (q \in Admitted)' <=> q \in Admitted
    BY <1>1 DEF Admitted
  <2>3. \A pc, registers : Finds(q, pc, registers) => Finds(q, pc, registers)'
    BY <1>1, <1>2, <1>3, RemoveKeepsOthers
  <2>. QED
    BY <1>1, <1>2, <2>1, <2>2, <2>3
<1>. QED
  BY <1>1, <1>3, Departs

\* What is found does not change when the threads and the PCB do not.
LEMMA FindsSame ==
    ASSUME UNCHANGED hw_threads, NEW p, pcb'[p] = pcb[p], NEW pc, NEW registers, Finds(p, pc, registers)
    PROVE  Finds(p, pc, registers)'
BY DEF Finds

\* The words depend on the memory, the tables and the programs only.
LEMMA SameMemorySameWords ==
    ASSUME UNCHANGED <<memory, page_tables, program>>, NEW p
    PROVE  Words(p)' = Words(p)
BY DEF Words, WordsOf, Home, Entry, base

\* A rejected file does not show.
LEMMA RejectStays ==
    ASSUME Sound, Sound', NEW f \in FileContents, RejectFile(f), UNCHANGED hw_threads
    PROVE  PrivateStep
<1>1. UNCHANGED <<memory, next_pid, program, pcb, page_tables, loading, freed>>
  BY DEF RejectFile, memoryVars
<1>2. ASSUME NEW p \in Pids PROVE View(p)' = View(p)
  BY <1>1, Stays, SameMemorySameWords, FindsSame DEF Admitted
<1>. QED
  BY <1>2, PrivateStutters

\* A process without a page table was never there, and leaves.
LEMMA NoSpaceLeaves ==
    ASSUME Sound, Sound', NEW f \in FileContents, OutOfKernelSpace(f), UNCHANGED hw_threads
    PROVE  PrivateStep
<1>. PICK c : c = next_pid
  OBVIOUS
<1>1. /\ loading = NotLoading /\ files_read < MaxFiles /\ next_pid' = c + 1 /\ freed' = freed \cup {c}
      /\ UNCHANGED <<memory, program, pcb, page_tables, loading>>
  BY DEF OutOfKernelSpace, ReadsFile, memoryVars
<1>2. c \in Pids /\ c \notin freed
  <2>1. c \in 1 .. MaxFiles + 1 /\ c <= files_read + 1 /\ files_read \in 0 .. MaxFiles /\ MaxFiles \in Nat
    BY LoaderAssumption DEF Sound, LaidOut, TypeOK
  <2>2. c \in Pids
    BY <2>1, <1>1 DEF Pids
  <2>. QED
    BY <2>1, <2>2 DEF Sound, LaidOut
<1>3. \A q \in Pids \ {c} : (q \in Admitted)' <=> q \in Admitted
  <2>1. \A q \in Pids \ {c} : q < c + 1 <=> q < c
    BY <1>2 DEF Pids
  <2>. QED
    BY <1>1, <2>1 DEF Admitted
<1>. QED
  BY <1>1, <1>2, <1>3, Departs, SameMemorySameWords, FindsSame

\* Nor was one that could not be loaded completely.
LEMMA NoFramesLeaves ==
    ASSUME Sound, Sound', NEW p \in Pids, NEW page \in 0 .. KernelWords - 1, OutOfFrames(p, page),
           UNCHANGED hw_threads
    PROVE  PrivateStep
<1>1. /\ loading # NotLoading /\ p = loading.pid /\ loading' = NotLoading /\ freed' = freed \cup {p}
      /\ UNCHANGED <<memory, next_pid, program, pcb, page_tables>>
  BY DEF OutOfFrames, Loads, memoryVars
<1>2. p \notin freed
  BY <1>1 DEF Sound, Filling
<1>3. \A q \in Pids \ {p} : (q \in Admitted)' <=> q \in Admitted
  <2>1. \A q \in Pids : q # NotLoading.pid
    BY DEF Pids, NotLoading
  <2>. QED
    BY <1>1, <2>1 DEF Admitted
<1>. QED
  BY <1>1, <1>2, <1>3, Departs, SameMemorySameWords, FindsSame

\* The words of an admitted process lie in frames that are booked.
LEMMA WordsHome ==
    ASSUME Sound, NEW p \in Admitted, NEW w \in WordsOf(p)
    PROVE  /\ w \in 0 .. pages(p) * WordsPerPage - 1 /\ w \in Nat
           /\ w \div WordsPerPage \in 0 .. pages(p) - 1
           /\ IsPresent(Entry(p, w \div WordsPerPage))
           /\ Home(p, w) \in KernelWords .. TotalWords - 1
           /\ Home(p, w) \div WordsPerPage \in frame_bitmap
<1>1. pages(p) = total_pages(program[p]) /\ pages(p) \in Nat /\ p \in Pids
  BY EntriesInKernel DEF Sound, LaidOut, Settled, Admitted
<1>2. w \in 0 .. pages(p) * WordsPerPage - 1
  BY <1>1 DEF WordsOf
<1>3. w \in Nat /\ w \div WordsPerPage \in 0 .. pages(p) - 1
  BY <1>1, <1>2, WordOfPage
<1>4. IsPresent(Entry(p, w \div WordsPerPage))
  BY <1>3 DEF Sound, Settled
<1>5. FrameOf(Entry(p, w \div WordsPerPage)) \in frame_bitmap
  BY <1>1, <1>3, <1>4 DEF Sound, Booked
<1>. QED
  BY <1>1, <1>2, <1>3, <1>4, <1>5, Homes

\* They stay when the frames of the process do, and what is in booked frames.
LEMMA WordsKept ==
    ASSUME Sound, NEW p \in Admitted, program'[p] = program[p], page_tables'[p] = page_tables[p],
           \A i \in 0 .. pages(p) - 1 : FrameOf(Entry(p, i)') = FrameOf(Entry(p, i)),
           \A x \in KernelWords .. TotalWords - 1 : x \div WordsPerPage \in frame_bitmap => memory'[x] = memory[x]
    PROVE  Words(p)' = Words(p)
<1>1. WordsOf(p)' = WordsOf(p)
  BY DEF WordsOf
<1>2. ASSUME NEW w \in WordsOf(p) PROVE memory'[Home(p, w)'] = memory[Home(p, w)]
  <2>1. /\ w \div WordsPerPage \in 0 .. pages(p) - 1 /\ Home(p, w) \in KernelWords .. TotalWords - 1
        /\ Home(p, w) \div WordsPerPage \in frame_bitmap
    BY WordsHome
  <2>2. Home(p, w)' = Home(p, w)
    BY <2>1 DEF Home, FrameOf
  <2>. QED
    BY <2>1, <2>2
<1>. QED
  BY <1>1, <1>2 DEF Words

\* A new page table overwrites no word and no entry of another process.
LEMMA CreateStays ==
    ASSUME Sound, Sound', Faithful, NEW f \in FileContents, CreateProcess(f), UNCHANGED hw_threads
    PROVE  PrivateStep
<1>. USE Sizes
<1>. DEFINE n == total_pages(f)
<1>. PICK c : c = next_pid
  OBVIOUS
<1>. PICK b : b = next_kernel_frame
  OBVIOUS
<1>1. /\ files_read < MaxFiles /\ loading = NotLoading
      /\ f.found_text /\ b + n <= KernelWords
      /\ memory' = [x \in DOMAIN memory |-> IF x \in b .. b + n - 1 THEN UnmappedEntry ELSE memory[x]]
      /\ next_pid' = c + 1 /\ program' = [program EXCEPT ![c] = f]
      /\ pcb' = [pcb EXCEPT ![c].ttl = ttl(f), ![c].pgb = b]
      /\ page_tables' = [page_tables EXCEPT ![c] = [base |-> b, pages |-> n]]
      /\ loading' = [pid |-> c, page |-> 0]
      /\ UNCHANGED freed
  BY DEF CreateProcess, ReadsFile, create_page_table, HasKernelSpace
<1>2. /\ b \in Nat /\ n \in Nat \ {0} /\ DOMAIN memory = 0 .. TotalWords - 1
      /\ c \in 1 .. MaxFiles + 1 /\ c <= files_read + 1 /\ files_read \in 0 .. MaxFiles /\ MaxFiles \in Nat
  BY <1>1, PagesHoldWords, LoaderAssumption DEF Sound, TypeOK, LaidOut
<1>3. c \in Pids /\ Pids \subseteq Nat
  <2>1. c \in Nat /\ 1 <= c /\ c <= MaxFiles
    <3>1. files_read < MaxFiles
      BY <1>1
    <3>. HIDE DEF n
    <3>. QED
      BY <3>1, <1>2
  <2>. QED
    BY <2>1, <1>2 DEF Pids
<1>4. /\ \A q \in Pids \ {c} :
            program'[q] = program[q] /\ page_tables'[q] = page_tables[q] /\ pcb'[q] = pcb[q]
  <2>1. /\ pcb \in [Pids -> PcbType] /\ program \in [Pids -> FileContents \cup {NoFile}]
        /\ page_tables \in [Pids -> [base : Nat, pages : Nat]]
    BY DEF Sound, TypeOK
  <2>. HIDE DEF n
  <2>. QED
    BY <1>1, <1>3, <2>1
<1>5. c \notin Admitted /\ \A q \in Pids : (q \in Admitted)' <=> q \in Admitted
  <2>1. \A q \in Pids : q < c + 1 <=> q < c \/ q = c
    BY <1>3
  <2>2. ~(c < c) /\ \A q \in Pids : q # NotLoading.pid
    BY <1>3 DEF Pids, NotLoading
  <2>3. loading'.pid = c
    BY <1>1
  <2>. QED
    BY <1>1, <1>3, <2>1, <2>2, <2>3 DEF Admitted
<1>6. ASSUME NEW q \in Admitted PROVE Words(q)' = Words(q)
  <2>1. q \in Pids /\ q # c
    BY <1>5 DEF Admitted
  <2>2. ASSUME NEW i \in 0 .. pages(q) - 1 PROVE Entry(q, i)' = Entry(q, i)
    <3>1. base(q) + i \in 0 .. b - 1 /\ base(q) + i \in 0 .. TotalWords - 1
      BY <2>1, EntriesInKernel
    <3>. HIDE DEF n
    <3>2. ~(base(q) + i \in b .. b + n - 1)
      BY <3>1, <1>2
    <3>3. memory'[base(q) + i] = memory[base(q) + i]
      BY <3>1, <3>2, <1>1, <1>2
    <3>. QED
      BY <2>1, <3>3, <1>4 DEF Entry, base
  <2>3. ASSUME NEW x \in KernelWords .. TotalWords - 1 PROVE memory'[x] = memory[x]
    <3>. HIDE DEF n
    <3>1. b \in Nat /\ n \in Nat /\ b + n <= KernelWords
      BY <1>1, <1>2
    <3>2. x \in 0 .. TotalWords - 1 /\ x >= KernelWords
      OBVIOUS
    <3>3. ~(x \in b .. b + n - 1)
      BY <3>1, <3>2
    <3>. QED
      BY <1>1, <1>2, <3>2, <3>3
  <2>. QED
    BY <2>1, <2>2, <2>3, <1>4, WordsKept
<1>7. ASSUME NEW q \in Pids PROVE View(q)' = View(q)
  BY <1>1, <1>4, <1>5, <1>6, Stays, FindsSame
<1>. QED
  BY <1>7, PrivateStutters

\* A page that is filled is in a frame of no other process.
LEMMA LoadPageStays ==
    ASSUME Sound, Sound', NEW p \in Pids, NEW page \in 0 .. KernelWords - 1, NEW frame \in FreeFrames,
           LoadPage(p, page, frame), UNCHANGED hw_threads
    PROVE  PrivateStep
<1>. USE Sizes
<1>1. /\ loading # NotLoading /\ p = loading.pid /\ page = loading.page /\ page < pages(p)
      /\ memory' = Filled(p, page, frame)
      /\ loading' = [loading EXCEPT !.page = page + 1]
      /\ UNCHANGED <<next_pid, program, pcb, page_tables, freed>>
  BY DEF LoadPage, Loads, allocate_frame, pages
<1>2. /\ loading'.pid = p /\ DOMAIN memory = 0 .. TotalWords - 1
  BY <1>1 DEF Sound, TypeOK
<1>3. p \notin Admitted /\ \A q \in Pids : (q \in Admitted)' <=> q \in Admitted
  BY <1>1, <1>2 DEF Admitted
<1>4. /\ frame \notin frame_bitmap /\ frame \in Nat /\ frame >= KernelFrames
      /\ page \in 0 .. pages(p) - 1
  <2>1. frame \notin frame_bitmap /\ frame \in Nat /\ frame >= KernelFrames
    BY DEF FreeFrames
  <2>2. pages(p) \in Nat
    BY EntriesInKernel
  <2>. QED
    BY <2>1, <2>2, <1>1
<1>5. base(p) + page \in 0 .. KernelWords - 1
  BY <1>4, EntriesInKernel
<1>6. ASSUME NEW q \in Admitted PROVE Words(q)' = Words(q)
  <2>1. q \in Pids /\ q # p
    BY <1>3 DEF Admitted
  <2>2. ASSUME NEW i \in 0 .. pages(q) - 1 PROVE Entry(q, i)' = Entry(q, i)
    <3>1. base(q) + i \in 0 .. KernelWords - 1 /\ base(q) + i \in 0 .. TotalWords - 1
          /\ base(q) + i # base(p) + page
      BY <2>1, <1>4, EntriesInKernel
    <3>. DEFINE y == base(q) + i
    <3>2. y \in 0 .. KernelWords - 1 /\ y \in DOMAIN memory /\ y # base(p) + page
      BY <3>1, <1>2
    <3>. HIDE DEF y
    <3>3. y \div WordsPerPage \in 0 .. KernelFrames - 1
      BY <3>2, KernelFrame
    <3>4. y \div WordsPerPage # frame
      BY <3>3, <1>4
    <3>5. memory'[y] = memory[y]
      BY <3>2, <3>4, <1>1 DEF Filled, base
    <3>. QED
      BY <3>5, <1>1 DEF Entry, base, y
  <2>3. ASSUME NEW x \in KernelWords .. TotalWords - 1, x \div WordsPerPage \in frame_bitmap
        PROVE  memory'[x] = memory[x]
    <3>1. x \in DOMAIN memory /\ x # base(p) + page
      BY <1>2, <1>5
    <3>. QED
      BY <3>1, <2>3, <1>1, <1>4 DEF Filled, base
  <2>. QED
    BY <2>2, <2>3, <1>1, WordsKept
<1>7. ASSUME NEW q \in Pids PROVE View(q)' = View(q)
  BY <1>1, <1>3, <1>6, Stays, FindsSame
<1>. QED
  BY <1>7, PrivateStutters

\* Laid out in a row, the image that the loader makes is the file's.
LEMMA LinkedIsInitial ==
    ASSUME Aligned, NEW f \in FileContents, f.found_text, NEW w \in Nat
    PROVE  InitialWord(f, w) = LinkedImage(f, w)
<1>. DEFINE first == code_start_word(f)
           cs == code_size(f)
           n == Len(f.words)
<1>1. /\ cs \in Nat /\ n \in Nat /\ cs <= n /\ n < WordModulus /\ f.text \in Nat
      /\ first \in Nat /\ WordModulus \in Nat \ {0}
  <2>1. f.text \in 0 .. AddressSpace - 1 /\ f.words \in Seq(Word)
    BY LoaderAssumption
  <2>2. cs <= n /\ n < WordModulus
    BY LoaderAssumption DEF FileAssumptionOn
  <2>3. first \in Nat
    BY <2>1 DEF code_start_word, WORD_SIZE
  <2>. QED
    BY <2>1, <2>2, <2>3, FileSizes, Sizes
<1>2. first = f.text \div WORD_SIZE /\ code_end_word(f) = first + cs
  BY DEF code_start_word, code_end_word
<1>3. CASE HasDataSection(f)
  <2>1. data_words(f) = n - cs
    <3>1. data_words(f) = (n + WordModulus - cs) % WordModulus
      BY <1>3 DEF data_words
    <3>. HIDE DEF n, cs
    <3>2. n - cs \in 0 .. WordModulus - 1 /\ n + WordModulus - cs = WordModulus * 1 + (n - cs)
      BY <1>1
    <3>. DEFINE r == n - cs
    <3>3. r \in 0 .. WordModulus - 1 /\ n + WordModulus - cs = WordModulus * 1 + r
      BY <3>2
    <3>. HIDE DEF r
    <3>4. (WordModulus * 1 + r) % WordModulus = r
      BY <1>1, <3>3, Quotient
    <3>. QED
      BY <3>1, <3>3, <3>4 DEF r
  <2>2. data_start_word(f) = first + cs
    BY <1>2, <1>3 DEF Aligned
  <2>3. data_end_word(f) = first + n
    BY <1>1, <2>1, <2>2 DEF data_end_word
  <2>4. InitialWord(f, w) = IF first + cs <= w /\ w < first + n THEN f.words[cs + w - (first + cs) + 1]
                            ELSE IF first <= w /\ w < first + cs THEN f.words[w - first + 1] ELSE 0
    BY <1>2, <2>2, <2>3 DEF InitialWord
  <2>. HIDE DEF first, cs, n
  <2>5. cs + w - (first + cs) + 1 = w - first + 1
    BY <1>1
  <2>6. first <= w /\ w < first + n <=> (first + cs <= w /\ w < first + n) \/ (first <= w /\ w < first + cs)
    BY <1>1, SMTT(30)
  <2>7. LinkedImage(f, w) = IF first <= w /\ w < first + n THEN f.words[w - first + 1] ELSE 0
    BY <1>2 DEF LinkedImage, n
  <2>. QED
    BY <2>4, <2>5, <2>6, <2>7
<1>4. CASE ~HasDataSection(f)
  <2>1. data_words(f) = 0 /\ cs = n
    BY <1>4 DEF data_words, code_size
  <2>2. data_start_word(f) \in Int /\ data_end_word(f) = data_start_word(f)
    <3>1. f.data \in 0 .. AddressSpace - 1
      BY LoaderAssumption
    <3>2. data_start_word(f) \in Int
      BY <3>1, Sizes DEF data_start_word, WORD_SIZE
    <3>. QED
      BY <2>1, <3>2 DEF data_end_word
  <2>3. ~(data_start_word(f) <= w /\ w < data_end_word(f))
    BY <2>2
  <2>4. InitialWord(f, w) = IF first <= w /\ w < first + cs THEN f.words[w - first + 1] ELSE 0
    BY <1>2, <2>3 DEF InitialWord
  <2>5. LinkedImage(f, w) = IF first <= w /\ w < first + n THEN f.words[w - first + 1] ELSE 0
    BY <1>2 DEF LinkedImage
  <2>. QED
    BY <2>1, <2>4, <2>5
<1>. QED
  BY <1>3, <1>4

\* The pages of a program fit in the address space, which they divide.
LEMMA PagesFit ==
    ASSUME Aligned, NEW f \in FileContents, f.found_text
    PROVE  total_pages(f) * WordsPerPage \in 1 .. AddressSpace \div WORD_SIZE
<1>. DEFINE t == total_pages(f)
           q == AddressSpace \div PageBytes
           y == total_words(f) * WORD_SIZE
           x == y + PageBytes - 1
<1>1. /\ t \in Nat \ {0} /\ y \in Nat /\ y <= AddressSpace /\ PageBytes \in Nat \ {0}
      /\ AddressSpace \in Nat /\ WordsPerPage \in Nat \ {0} /\ PageBytes = 4 * WordsPerPage
  <2>1. total_words(f) \in Nat /\ y <= AddressSpace
    BY FileSizes
  <2>2. y \in Nat
    BY <2>1 DEF WORD_SIZE
  <2>. QED
    BY <2>1, <2>2, PagesHoldWords, Sizes
<1>2. q \in Nat /\ AddressSpace = PageBytes * q
  <2>1. q \in Nat /\ AddressSpace = PageBytes * q + (AddressSpace % PageBytes)
    BY <1>1, Division
  <2>. HIDE DEF q
  <2>2. PageBytes * q \in Nat
    BY <1>1, <2>1
  <2>. QED
    BY <2>1, <2>2 DEF Aligned
<1>3. t = x \div PageBytes
  BY DEF total_pages
<1>. HIDE DEF t, q, y
<1>4. x \in Nat
  BY <1>1
<1>5. PageBytes * t <= x
  <2>. HIDE DEF x
  <2>. DEFINE r == x % PageBytes
  <2>1. x = PageBytes * (x \div PageBytes) + r /\ r \in 0 .. PageBytes - 1
    BY <1>1, <1>4, Division
  <2>2. PageBytes * t \in Nat
    BY <1>1
  <2>. HIDE DEF r
  <2>3. x = PageBytes * t + r /\ r \in Nat
    BY <1>1, <1>3, <2>1
  <2>. QED
    BY <2>2, <2>3
<1>6. t <= q
  <2>. SUFFICES ASSUME q + 1 <= t PROVE FALSE
    BY <1>1, <1>2
  <2>1. PageBytes * (q + 1) <= PageBytes * t
    <3>1. \A a, b \in Nat : a <= b => PageBytes * a <= PageBytes * b
      BY <1>1
    <3>. QED
      BY <1>1, <1>2, <3>1
  <2>2. PageBytes * (q + 1) = AddressSpace + PageBytes
    BY <1>1, <1>2
  <2>3. PageBytes * t \in Nat
    BY <1>1
  <2>. QED
    BY <1>1, <1>5, <2>1, <2>2, <2>3
<1>7. AddressSpace \div WORD_SIZE = WordsPerPage * q
  <2>. DEFINE m == WordsPerPage * q
  <2>1. m \in Nat
    BY <1>1, <1>2
  <2>2. AddressSpace = 4 * m
    BY <1>1, <1>2
  <2>. HIDE DEF m
  <2>3. AddressSpace \div 4 = m
    BY <2>1, <2>2
  <2>. QED
    BY <2>3 DEF WORD_SIZE, m
<1>8. WordsPerPage * t <= WordsPerPage * q /\ 1 <= WordsPerPage * t
  <2>1. \A a, b \in Nat : a <= b => WordsPerPage * a <= WordsPerPage * b
    BY <1>1
  <2>2. 1 <= t
    BY <1>1
  <2>3. WordsPerPage * 1 <= WordsPerPage * t
    BY <1>1, <2>1, <2>2
  <2>. QED
    BY <1>1, <1>2, <1>6, <2>1, <2>3
<1>9. t * WordsPerPage = WordsPerPage * t /\ WordsPerPage * t \in Nat
  BY <1>1
<1>. QED
  BY <1>7, <1>8, <1>9 DEF t

\* A process that is queued starts with the image of its file; one for which
\* the queue has no room leaves.
LEMMA QueueAdmits ==
    ASSUME Aligned, Sound, Sound', Faithful, NEW p \in Pids, QueueProcess(p), UNCHANGED hw_threads
    PROVE  PrivateStep
<1>1. /\ loading # NotLoading /\ p = loading.pid /\ loading.page = pages(p) /\ loading' = NotLoading
      /\ UNCHANGED <<memory, next_pid, program, pcb, page_tables>>
  BY DEF QueueProcess, Loads, memoryVars, pages
<1>2. p \notin Admitted /\ p \notin freed /\ p < next_pid /\ p # 0
  BY <1>1 DEF Sound, Filling, Admitted, Pids
<1>3. \A q \in Pids \ {p} : freed' \subseteq freed \cup {p} /\ freed \subseteq freed'
         => ((q \in Admitted)' <=> q \in Admitted)
  <2>1. \A q \in Pids : q # NotLoading.pid
    BY DEF Pids, NotLoading
  <2>. QED
    BY <1>1, <2>1 DEF Admitted
<1>4. CASE ~(Cardinality(ready_queue) < ReadyCapacity)
  <2>1. freed' = freed \cup {p}
    BY <1>4 DEF QueueProcess
  <2>. QED
    BY <1>1, <1>2, <1>3, <2>1, Departs, SameMemorySameWords, FindsSame
<1>5. CASE Cardinality(ready_queue) < ReadyCapacity
  <2>1. freed' = freed
    BY <1>5 DEF QueueProcess
  <2>. DEFINE f == program[p]
             n == total_pages(f) * WordsPerPage
             i == [w \in 0 .. n - 1 |-> LinkedImage(f, w)]
  <2>2. f \in FileContents /\ f.found_text /\ pages(p) = total_pages(f)
    BY <1>1 DEF Sound, Filling, LaidOut
  <2>3. n \in 1 .. AddressSpace \div WORD_SIZE
    BY <2>2, PagesFit
  <2>4. \A w \in 0 .. n - 1 : w \in Nat /\ LinkedImage(f, w) = InitialWord(f, w) /\ InitialWord(f, w) \in Word
    BY <2>2, LinkedIsInitial, InitialWords
  <2>5. /\ pcb[p].state = "WAITING" /\ pcb[p].pc = 0 /\ pcb[p].registers = NoRegisters
        /\ \A w \in 0 .. pages(p) * WordsPerPage - 1 : memory[Home(p, w)] = InitialWord(program[p], w)
    BY <1>1 DEF Faithful, NoRegisters
  <2>6. Words(p) = i /\ Linked(p) = i
    BY <2>2, <2>4, <2>5 DEF Words, Linked, WordsOf
  <2>7. i \in [0 .. n - 1 -> Word]
    BY <2>4
  <2>8. Words(p)' = i /\ Linked(p)' = i
    <3>1. Words(p)' = Words(p)
      BY <1>1, SameMemorySameWords
    <3>2. Linked(p)' = Linked(p)
      BY <1>1 DEF Linked, WordsOf
    <3>. QED
      BY <2>6, <3>1, <3>2
  <2>9. (p \in Admitted)' /\ p \notin freed'
    <3>1. loading'.pid = 0
      BY <1>1 DEF NotLoading
    <3>. QED
      BY <1>1, <1>2, <2>1, <3>1 DEF Admitted
  <2>10. Context(p)'.pc = 0 /\ Context(p)'.registers = NoRegisters
    <3>1. hw_threads = <<>>
      BY <1>1, LoadingAlone
    <3>2. \A k \in 1 .. Len(hw_threads) : hw_threads[k].pcb # p
      BY <3>1
    <3>3. Finds(p, 0, NoRegisters)'
      BY <1>1, <2>5, <3>2 DEF Finds, NoRegisters
    <3>. QED
      BY <2>9, <3>3, FoundNext DEF FindsContexts, NoRegisters
  <2>11. View(p)' = <<"live", i, i, 0, NoRegisters>>
    <3>1. View(p)' = Shown(p)'
      BY ShowsWordsNext DEF AllShown
    <3>. HIDE DEF i
    <3>. QED
      BY <1>1, <2>5, <2>8, <2>9, <2>10, <3>1 DEF Shown
  <2>12. View(p) = Nothing("absent")
    <3>1. View(p) = Shown(p)
      BY ShowsWords DEF AllShown
    <3>. QED
      BY <1>2, <3>1 DEF Shown
  <2>13. Others(p)
    BY <1>1, <1>3, <2>1, Stays, SameMemorySameWords, FindsSame DEF Others
  <2>. PICK j, m : j = i /\ m = n
    OBVIOUS
  <2>. HIDE DEF i, n
  <2>. QED
    BY <2>3, <2>7, <2>11, <2>12, <2>13, PrivateAdmits
<1>. QED
  BY <1>4, <1>5

\* The words that the loader counted are on the pages.
LEMMA CountedWords ==
    ASSUME NEW f \in FileContents, f.found_text, NEW w \in Nat, w < total_words(f)
    PROVE  w \in 0 .. total_pages(f) * WordsPerPage - 1
<1>. DEFINE a == 4 * w
           t == total_pages(f)
           q == a \div PageBytes
<1>1. /\ a \in Nat /\ t \in Nat \ {0} /\ PageBytes \in Nat \ {0} /\ PageBytes = 4 * WordsPerPage
      /\ WordsPerPage \in Nat \ {0}
  BY Sizes, PagesHoldWords
<1>2. q \in 0 .. t - 1
  <2>1. a \div 4 = w
    OBVIOUS
  <2>2. a \div WORD_SIZE < total_words(f)
    BY <2>1 DEF WORD_SIZE
  <2>. HIDE DEF a
  <2>. QED
    BY <1>1, <2>2, PagesHoldWords
<1>3. a < PageBytes * (q + 1)
  <2>. DEFINE r == a % PageBytes
  <2>1. a = PageBytes * q + r /\ r \in 0 .. PageBytes - 1 /\ q \in Nat
    BY <1>1, Division
  <2>. HIDE DEF a, q, r
  <2>2. PageBytes * (q + 1) = PageBytes * q + PageBytes /\ PageBytes * q \in Nat
    BY <1>1, <2>1
  <2>. QED
    BY <1>1, <2>1, <2>2
<1>4. PageBytes * (q + 1) <= PageBytes * t
  <2>1. \A x, y \in Nat : x <= y => PageBytes * x <= PageBytes * y
    BY <1>1
  <2>2. q + 1 \in Nat /\ q + 1 <= t
    BY <1>1, <1>2
  <2>. HIDE DEF q, t
  <2>. QED
    BY <1>1, <2>1, <2>2
<1>5. PageBytes * t = 4 * (t * WordsPerPage) /\ t * WordsPerPage \in Nat
  BY <1>1
<1>6. PageBytes * (q + 1) \in Nat
  BY <1>1, <1>2
<1>. HIDE DEF t, q
<1>7. w < t * WordsPerPage
  BY <1>1, <1>3, <1>4, <1>5, <1>6
<1>. QED
  BY <1>5, <1>7 DEF t

\* What PrivateMachine sees of the process on a thread that executes.
LEMMA Executing ==
    ASSUME Sound, KeepsInside, NEW k \in 1 .. Len(hw_threads), Ticks(k)
    PROVE  LET h == hw_threads[k]
               p == h.pcb
               a == extract_address(Fetched(k))
           IN  /\ p \in Pids /\ p \in Admitted /\ PhaseOf(p) = "live" /\ OriginOf(p) = Linked(p)
               /\ ImageOf(p) = Words(p) /\ PcOf(p) = h.PC /\ RegistersOf(p) = h.registers
               /\ PcOf(p) \div WORD_SIZE \in DOMAIN ImageOf(p) /\ CurrentInstruction(p) = Fetched(k)
               /\ extract_opcode(Fetched(k)) \in {OP_LD, OP_ST} =>
                     /\ Operand(p) \in DOMAIN ImageOf(p)
                     /\ mmu_read_word(h.PTBR, a) = ImageOf(p)[Operand(p)]
<1>. DEFINE h == hw_threads[k]
           p == h.pcb
           a == extract_address(Fetched(k))
<1>1. /\ p \in Pids /\ p \in Admitted /\ p \notin freed /\ h.PTBR = base(p)
      /\ pcb[p].state # "TERMINATED"
  BY OnThreads DEF Ticks
<1>2. PhaseOf(p) = "live" /\ OriginOf(p) = Linked(p) /\ ImageOf(p) = Words(p) /\ PcOf(p) = h.PC
      /\ RegistersOf(p) = h.registers
  <2>1. Context(p) = [pgb |-> base(p), pc |-> h.PC, registers |-> h.registers]
    BY Contexts DEF ContextsFound
  <2>2. PhaseOf(p) = "live" /\ OriginOf(p) = Linked(p) /\ PcOf(p) = h.PC /\ RegistersOf(p) = h.registers
    BY <1>1, <2>1 DEF PhaseOf, OriginOf, PcOf, RegistersOf
  <2>3. View(p) = Shown(p)
    BY <1>1, ShowsWords DEF AllShown
  <2>4. ImageOf(p) = Words(p)
    BY <1>1, <2>3 DEF View, Shown
  <2>. QED
    BY <2>2, <2>4
<1>3. program[p] \in FileContents /\ program[p].found_text /\ pages(p) = total_pages(program[p])
  BY <1>1 DEF Sound, LaidOut, Settled
<1>4. DOMAIN ImageOf(p) = 0 .. pages(p) * WordsPerPage - 1
  BY <1>2, <1>3 DEF Words, WordsOf
<1>5. ASSUME NEW b \in Nat, b \div WORD_SIZE < total_words(program[p])
      PROVE  /\ b \div WORD_SIZE \in DOMAIN ImageOf(p)
             /\ mmu_read_word(h.PTBR, b) = ImageOf(p)[b \div WORD_SIZE]
  <2>1. b \div WORD_SIZE \in Nat
    BY DEF WORD_SIZE
  <2>2. b \div WORD_SIZE \in 0 .. pages(p) * WordsPerPage - 1
    BY <1>3, <1>5, <2>1, CountedWords
  <2>3. translate_virtual_to_physical(base(p), b) = Home(p, b \div WORD_SIZE)
    BY <1>1, <2>2, ReadsHome
  <2>4. mmu_read_word(h.PTBR, b) = memory[Home(p, b \div WORD_SIZE)]
    BY <1>1, <2>3 DEF mmu_read_word
  <2>5. b \div WORD_SIZE \in WordsOf(p)
    BY <1>3, <2>2 DEF WordsOf
  <2>6. Words(p)[b \div WORD_SIZE] = memory[Home(p, b \div WORD_SIZE)]
    BY <2>5 DEF Words
  <2>. QED
    BY <1>2, <1>4, <2>2, <2>4, <2>6
<1>6. /\ Fetched(k) \in Word /\ h.PC \in Nat /\ h.PC \div WORD_SIZE < total_words(program[p])
      /\ extract_opcode(Fetched(k)) \in {OP_LD, OP_ST} => a \div WORD_SIZE < total_words(program[p])
  BY <1>1, Fetching
<1>7. a \in Nat
  BY <1>6, Decoding, Sizes
<1>8. PcOf(p) \div WORD_SIZE \in DOMAIN ImageOf(p) /\ CurrentInstruction(p) = Fetched(k)
  BY <1>2, <1>5, <1>6 DEF CurrentInstruction, Fetched
<1>9. Operand(p) = a \div WORD_SIZE
  BY <1>8 DEF Operand
<1>10. extract_opcode(Fetched(k)) \in {OP_LD, OP_ST} =>
          /\ Operand(p) \in DOMAIN ImageOf(p)
          /\ mmu_read_word(h.PTBR, a) = ImageOf(p)[Operand(p)]
  BY <1>5, <1>6, <1>7, <1>9
<1>. QED
  BY <1>1, <1>2, <1>8, <1>10

\* On the other threads nothing changes.
LEMMA TickKeepsOthers ==
    ASSUME Sound, NEW k \in 1 .. Len(hw_threads), NEW g, hw_threads' = [hw_threads EXCEPT ![k] = g],
           g.pcb = hw_threads[k].pcb, NEW q \in Pids, q # hw_threads[k].pcb, pcb'[q] = pcb[q],
           NEW pc, NEW registers, Finds(q, pc, registers)
    PROVE  Finds(q, pc, registers)'
<1>1. /\ Len(hw_threads') = Len(hw_threads)
      /\ \A j \in 1 .. Len(hw_threads) : hw_threads'[j] = IF j = k THEN g ELSE hw_threads[j]
  <2>1. hw_threads \in Seq(Threads)
    BY DEF Sound
  <2>. QED
    BY <2>1
<1>2. CASE \E j \in 1 .. Len(hw_threads) : hw_threads[j].pcb = q
  <2>1. PICK j \in 1 .. Len(hw_threads) :
           hw_threads[j].pcb = q /\ hw_threads[j].PC = pc /\ hw_threads[j].registers = registers
    BY <1>2 DEF Finds
  <2>2. j # k
    BY <2>1
  <2>. QED
    BY <1>1, <2>1, <2>2 DEF Finds
<1>3. CASE \A j \in 1 .. Len(hw_threads) : hw_threads[j].pcb # q
  <2>1. pcb[q].pc = pc /\ pcb[q].registers = registers
    BY <1>3 DEF Finds
  <2>2. \A j \in 1 .. Len(hw_threads') : hw_threads'[j].pcb # q
    BY <1>1, <1>3
  <2>. QED
    BY <2>1, <2>2 DEF Finds
<1>. QED
  BY <1>2, <1>3

\* The words of every process but p.
OtherWordsStay(p) == \A q \in Admitted : q # p => Words(q)' = Words(q)

\* An instruction that is executed, and leaves the process where the next begins.
LEMMA GoesOnExecutes ==
    ASSUME Sound, Sound', KeepsInside, NEW k \in 1 .. Len(hw_threads), Ticks(k), Goes_on(k),
           NEW p, p = hw_threads[k].pcb,
           NEW g, hw_threads' = [hw_threads EXCEPT ![k] = g],
           g.pcb = p, g.PC = hw_threads[k].PC + WORD_SIZE,
           NEW image, Words(p)' = image, OtherWordsStay(p), Computes(p, image, g.registers)
    PROVE  PrivateStep
<1>. PICK h : h = hw_threads[k]
  OBVIOUS
<1>1. UNCHANGED <<next_pid, program, page_tables, loading, freed>>
  BY DEF Ticks
<1>2. /\ p \in Pids /\ p \in Admitted /\ PhaseOf(p) = "live" /\ OriginOf(p) = Linked(p)
      /\ PcOf(p) = h.PC /\ PcOf(p) \div WORD_SIZE \in DOMAIN ImageOf(p)
  BY Executing
<1>3. pcb'[p].state = pcb[p].state /\ \A q \in Pids : q # p => pcb'[q] = pcb[q]
  <2>1. pcb \in [Pids -> PcbType]
    BY OnThreads
  <2>2. pcb' = [pcb EXCEPT ![p] = [pcb[p] EXCEPT !.ttl = decrement_pcb_ttl(p)]]
    BY <1>2, <2>1 DEF Goes_on
  <2>3. [pcb[p] EXCEPT !.ttl = decrement_pcb_ttl(p)].state = pcb[p].state
    BY <1>2, Decremented
  <2>. QED
    BY <1>2, <2>1, <2>2, <2>3
<1>4. Others(p)
  <2>1. \A q \in Pids \ {p} : (q \in Admitted)' <=> q \in Admitted
    BY <1>1 DEF Admitted
  <2>2. \A q \in Pids \ {p} : \A pc, registers : Finds(q, pc, registers) => Finds(q, pc, registers)'
    BY <1>3, TickKeepsOthers
  <2>. QED
    BY <1>1, <1>3, <2>1, <2>2, Stays DEF Others, OtherWordsStay
<1>5. View(p)' = <<"live", OriginOf(p), image, PcOf(p) + WORD_SIZE, g.registers>>
  <2>1. (p \in Admitted)' /\ p \notin freed'
    BY <1>1, <1>2 DEF Admitted
  <2>2. Finds(p, g.PC, g.registers)'
    <3>1. hw_threads \in Seq(Threads)
      BY DEF Sound
    <3>2. Len(hw_threads') = Len(hw_threads) /\ hw_threads'[k] = g
      BY <3>1
    <3>. QED
      BY <3>2 DEF Finds
  <2>3. PICK pc, registers : pc = g.PC /\ registers = g.registers
    OBVIOUS
  <2>4. Finds(p, pc, registers)'
    BY <2>2, <2>3
  <2>5. Context(p)'.pc = pc /\ Context(p)'.registers = registers
    BY <2>1, <2>4, FoundNext DEF FindsContexts
  <2>6. Linked(p)' = Linked(p)
    BY <1>1 DEF Linked, WordsOf
  <2>7. View(p)' = Shown(p)'
    BY <1>2, ShowsWordsNext DEF AllShown
  <2>8. pcb'[p].state # "TERMINATED"
    BY <1>3 DEF Ticks
  <2>9. View(p)' = <<"live", Linked(p), image, pc, registers>>
    BY <2>1, <2>5, <2>6, <2>7, <2>8 DEF Shown
  <2>. QED
    BY <1>2, <2>3, <2>9
<1>6. PICK registers : registers = g.registers
  OBVIOUS
<1>7. Computes(p, image, registers)
  BY <1>6
<1>. QED
  BY <1>2, <1>4, <1>5, <1>6, <1>7, PrivateExecutes

\* LD is the Load of the private machine.
LEMMA LdExecutes ==
    ASSUME Sound, Sound', KeepsInside, NEW k \in 1 .. Len(hw_threads), execute_ld(k)
    PROVE  PrivateStep
<1>. PICK h, p, r, v : /\ h = hw_threads[k] /\ p = h.pcb /\ r = extract_reg(Fetched(k))
                       /\ v = mmu_read_word(h.PTBR, extract_address(Fetched(k)))
  OBVIOUS
<1>. PICK g : g = WithRegister(h, r, v)
  OBVIOUS
<1>1. /\ Ticks(k) /\ Goes_on(k) /\ extract_opcode(Fetched(k)) = OP_LD
      /\ hw_threads' = [hw_threads EXCEPT ![k] = g]
      /\ UNCHANGED <<memory, page_tables, program>>
  BY DEF execute_ld, Ticks
<1>2. g.pcb = p /\ g.PC = h.PC + WORD_SIZE /\ g.registers = [h.registers EXCEPT ![r] = v]
  <2>1. h \in Threads
    BY OnThreads
  <2>. QED
    BY <2>1 DEF WithRegister, Threads
<1>3. \A q : Words(q)' = Words(q)
  BY <1>1, SameMemorySameWords
<1>4. /\ Operand(p) \in DOMAIN ImageOf(p) /\ v = ImageOf(p)[Operand(p)]
      /\ CurrentInstruction(p) = Fetched(k) /\ RegistersOf(p) = h.registers /\ ImageOf(p) = Words(p)
  BY <1>1, Executing
<1>5. PICK image : image = Words(p)
  OBVIOUS
<1>6. Computes(p, image, g.registers)
  BY <1>1, <1>2, <1>4, <1>5 DEF Computes, Target
<1>7. Words(p)' = image /\ OtherWordsStay(p)
  BY <1>3, <1>5 DEF OtherWordsStay
<1>. QED
  BY <1>1, <1>2, <1>6, <1>7, GoesOnExecutes

\* ADD is its Add.
LEMMA AddExecutes ==
    ASSUME Sound, Sound', KeepsInside, NEW k \in 1 .. Len(hw_threads), execute_add(k)
    PROVE  PrivateStep
<1>. PICK h, p, r, v : /\ h = hw_threads[k] /\ p = h.pcb /\ r = extract_reg(Fetched(k))
                       /\ v = Sum32(h.registers[extract_reg_src1(Fetched(k))],
                                    h.registers[extract_reg_src2(Fetched(k))])
  OBVIOUS
<1>. PICK g : g = WithRegister(h, r, v)
  OBVIOUS
<1>1. /\ Ticks(k) /\ Goes_on(k) /\ extract_opcode(Fetched(k)) = OP_ADD
      /\ hw_threads' = [hw_threads EXCEPT ![k] = g]
      /\ UNCHANGED <<memory, page_tables, program>>
  BY DEF execute_add, Ticks
<1>2. g.pcb = p /\ g.PC = h.PC + WORD_SIZE /\ g.registers = [h.registers EXCEPT ![r] = v]
  <2>1. h \in Threads
    BY OnThreads
  <2>. QED
    BY <2>1 DEF WithRegister, Threads
<1>3. \A q : Words(q)' = Words(q)
  BY <1>1, SameMemorySameWords
<1>4. CurrentInstruction(p) = Fetched(k) /\ RegistersOf(p) = h.registers /\ ImageOf(p) = Words(p)
  BY <1>1, Executing
<1>5. PICK image : image = Words(p)
  OBVIOUS
<1>6. Computes(p, image, g.registers)
  BY <1>1, <1>2, <1>4, <1>5 DEF Computes, Target
<1>7. Words(p)' = image /\ OtherWordsStay(p)
  BY <1>3, <1>5 DEF OtherWordsStay
<1>8. /\ Ticks(k) /\ Goes_on(k) /\ hw_threads' = [hw_threads EXCEPT ![k] = g]
      /\ p = hw_threads[k].pcb /\ g.pcb = p /\ g.PC = hw_threads[k].PC + WORD_SIZE
  BY <1>1, <1>2
<1>. QED
  BY <1>6, <1>7, <1>8, GoesOnExecutes, ZenonT(40)

\* A store changes a word of the process, and no word of any other.
LEMMA StoredWords ==
    ASSUME Sound, NEW p \in Admitted, NEW a \in Nat, a \div WORD_SIZE < total_words(program[p]),
           NEW v \in Word, mmu_write_word(base(p), a, v), UNCHANGED <<page_tables, program>>
    PROVE  /\ Words(p)' = [Words(p) EXCEPT ![a \div WORD_SIZE] = v]
           /\ \A q \in Admitted : q # p => Words(q)' = Words(q)
<1>. DEFINE u == a \div WORD_SIZE
           i == a \div PageBytes
           x == translate_virtual_to_physical(base(p), a)
<1>1. /\ \A y \in 0 .. TotalWords - 1 :
            memory'[y] = IF y = x THEN v ELSE IF y = base(p) + i THEN Touched(memory[y]) ELSE memory[y]
      /\ \A q \in Pids : \A j \in 0 .. pages(q) - 1 : FrameOf(Entry(q, j)') = FrameOf(Entry(q, j))
  BY Storing
<1>2. /\ p \in Pids /\ u \in Nat /\ u \in WordsOf(p) /\ x = Home(p, u)
  <2>1. program[p] \in FileContents /\ program[p].found_text /\ pages(p) = total_pages(program[p])
    BY DEF Sound, LaidOut, Settled, Admitted
  <2>2. u \in Nat
    BY DEF WORD_SIZE
  <2>3. u \in 0 .. pages(p) * WordsPerPage - 1
    BY <2>1, <2>2, CountedWords
  <2>4. x = Home(p, u)
    BY <2>3, ReadsHome
  <2>. QED
    BY <2>1, <2>2, <2>3, <2>4 DEF WordsOf, Admitted
<1>3. base(p) + i \in 0 .. KernelWords - 1 /\ KernelWords \in Nat
  <2>1. i \in 0 .. pages(p) - 1
    BY Translation
  <2>. QED
    BY <2>1, <1>2, EntriesInKernel, Sizes
<1>. HIDE DEF u, i, x
<1>4. ASSUME NEW q \in Admitted, NEW w \in WordsOf(q)
      PROVE  memory'[Home(q, w)'] = IF q = p /\ w = u THEN v ELSE memory[Home(q, w)]
  <2>1. /\ q \in Pids /\ w \in 0 .. pages(q) * WordsPerPage - 1 /\ w \div WordsPerPage \in 0 .. pages(q) - 1
        /\ IsPresent(Entry(q, w \div WordsPerPage))
        /\ Home(q, w) \in KernelWords .. TotalWords - 1
    BY WordsHome DEF Admitted
  <2>2. Home(q, w)' = Home(q, w)
    BY <1>1, <2>1 DEF Home, FrameOf
  <2>3. Home(q, w) = x <=> q = p /\ w = u
    <3>1. u \in 0 .. pages(p) * WordsPerPage - 1 /\ IsPresent(Entry(p, u \div WordsPerPage))
      BY <1>2, WordsHome
    <3>2. Home(q, w) = Home(p, u) => q = p /\ w = u
      BY <1>2, <2>1, <3>1, Homes
    <3>. QED
      BY <1>2, <3>2
  <2>4. Home(q, w) \in 0 .. TotalWords - 1 /\ Home(q, w) # base(p) + i
    BY <1>3, <2>1
  <2>5. memory'[Home(q, w)] = IF q = p /\ w = u THEN v ELSE memory[Home(q, w)]
    BY <1>1, <2>3, <2>4
  <2>. QED
    BY <2>2, <2>5
<1>5. \A q : WordsOf(q)' = WordsOf(q)
  BY DEF WordsOf
<1>6. Words(p)' = [w \in WordsOf(p) |-> IF w = u THEN v ELSE memory[Home(p, w)]]
  BY <1>4, <1>5 DEF Words
<1>7. Words(p)' = [Words(p) EXCEPT ![u] = v]
  BY <1>6 DEF Words
<1>8. \A q \in Admitted : q # p => Words(q)' = Words(q)
  BY <1>4, <1>5 DEF Words
<1>. QED
  BY <1>7, <1>8 DEF u

\* ST is its Store: it changes no word of another process.
LEMMA StExecutes ==
    ASSUME Sound, Sound', KeepsInside, NEW k \in 1 .. Len(hw_threads), execute_st(k)
    PROVE  PrivateStep
<1>. PICK h, p, a, v : /\ h = hw_threads[k] /\ p = h.pcb /\ a = extract_address(Fetched(k))
                       /\ v = h.registers[extract_reg(Fetched(k))]
  OBVIOUS
<1>1. /\ Ticks(k) /\ Goes_on(k) /\ extract_opcode(Fetched(k)) = OP_ST
      /\ mmu_write_word(h.PTBR, a, v) /\ UNCHANGED <<page_tables, program>>
  BY DEF execute_st, Ticks
<1>2. /\ h \in Threads /\ p \in Admitted /\ h.PTBR = base(p)
  BY OnThreads
<1>3. PICK g : /\ hw_threads' = [hw_threads EXCEPT ![k] = g]
               /\ g.pcb = p /\ g.PC = h.PC + WORD_SIZE /\ g.registers = h.registers
  <2>1. hw_threads' = [hw_threads EXCEPT ![k] = [h EXCEPT !.PC = @ + WORD_SIZE]]
    BY OnThreads DEF execute_st
  <2>2. LET g == [h EXCEPT !.PC = @ + WORD_SIZE]
        IN  g.pcb = p /\ g.PC = h.PC + WORD_SIZE /\ g.registers = h.registers
    BY <1>2 DEF Threads
  <2>. QED
    BY <2>1, <2>2
<1>4. /\ Fetched(k) \in Word /\ a \div WORD_SIZE < total_words(program[p])
  BY <1>1, Fetching DEF Ticks
<1>5. a \in Nat /\ v \in Word
  <2>1. extract_reg(Fetched(k)) \in RegisterNumbers /\ a \in 0 .. AddressSpace - 1
    BY <1>4, Decoding
  <2>. QED
    BY <1>2, <2>1, Sizes DEF Threads
<1>6. /\ Words(p)' = [Words(p) EXCEPT ![a \div WORD_SIZE] = v]
      /\ OtherWordsStay(p)
  BY <1>1, <1>2, <1>4, <1>5, StoredWords DEF OtherWordsStay
<1>7. /\ Operand(p) \in DOMAIN ImageOf(p) /\ CurrentInstruction(p) = Fetched(k)
      /\ RegistersOf(p) = h.registers /\ ImageOf(p) = Words(p)
  BY <1>1, Executing
<1>8. PICK image : image = [Words(p) EXCEPT ![a \div WORD_SIZE] = v]
  OBVIOUS
<1>9. Operand(p) = a \div WORD_SIZE
  BY <1>7 DEF Operand
<1>10. Computes(p, image, g.registers)
  BY <1>1, <1>3, <1>7, <1>8, <1>9 DEF Computes, Target
<1>11. Words(p)' = image /\ OtherWordsStay(p)
  BY <1>6, <1>8
<1>. QED
  BY <1>1, <1>3, <1>10, <1>11, GoesOnExecutes

\* EXIT and words that are no instruction halt the process.
LEMMA StopHalts ==
    ASSUME Sound, Sound', KeepsInside, NEW k \in 1 .. Len(hw_threads), execute_exit(k) \/ UnknownOpcode(k)
    PROVE  PrivateStep
<1>. PICK h, p : h = hw_threads[k] /\ p = h.pcb
  OBVIOUS
<1>1. /\ Ticks(k) /\ (extract_opcode(Fetched(k)) = OP_EXIT \/ ~IsInstruction(Fetched(k)))
      /\ UNCHANGED <<memory, hw_threads, next_pid, program, page_tables, loading, freed>>
  BY DEF execute_exit, UnknownOpcode, Ticks
<1>2. /\ p \in Pids /\ p \in Admitted /\ PhaseOf(p) = "live" /\ OriginOf(p) = Linked(p)
      /\ ImageOf(p) = Words(p) /\ PcOf(p) = h.PC /\ RegistersOf(p) = h.registers
      /\ PcOf(p) \div WORD_SIZE \in DOMAIN ImageOf(p) /\ CurrentInstruction(p) = Fetched(k)
  BY <1>1, Executing
<1>3. pcb'[p].state = "TERMINATED" /\ \A q \in Pids : q # p => pcb'[q] = pcb[q]
  <2>1. pcb \in [Pids -> PcbType]
    BY OnThreads
  <2>2. PICK n : pcb' = [pcb EXCEPT ![p].state = "TERMINATED", ![p].ttl = n]
    BY DEF execute_exit, UnknownOpcode
  <2>. QED
    BY <1>2, <2>1, <2>2 DEF PcbType
<1>4. Others(p)
  BY <1>1, <1>3, Stays, SameMemorySameWords, FindsSame DEF Others, Admitted
<1>5. View(p)' = <<"halted", OriginOf(p), ImageOf(p), PcOf(p), RegistersOf(p)>>
  <2>1. (p \in Admitted)' /\ p \notin freed'
    BY <1>1, <1>2 DEF Admitted
  <2>2. PICK pc, registers : pc = h.PC /\ registers = h.registers
    OBVIOUS
  <2>3. Finds(p, pc, registers)'
    BY <1>1, <2>2 DEF Finds
  <2>4. Context(p)'.pc = pc /\ Context(p)'.registers = registers
    BY <2>1, <2>3, FoundNext DEF FindsContexts
  <2>5. Linked(p)' = Linked(p) /\ Words(p)' = Words(p)
    BY <1>1, SameMemorySameWords DEF Linked, WordsOf
  <2>6. View(p)' = Shown(p)'
    BY <1>2, ShowsWordsNext DEF AllShown
  <2>7. View(p)' = <<"halted", Linked(p), Words(p), pc, registers>>
    BY <2>1, <1>3, <2>4, <2>5, <2>6 DEF Shown
  <2>. QED
    BY <1>2, <2>2, <2>7
<1>. QED
  BY <1>1, <1>2, <1>4, <1>5, PrivateHalts

\* At first every process is absent.
LEMMA PrivateInit ==
    ASSUME Init
    PROVE  Private!Init
<1>1. freed = {} /\ Admitted = {}
  BY DEF Init, LoaderInit, Admitted, Pids
<1>2. \A p \in Pids : PhaseOf(p) = "absent"
  BY <1>1 DEF PhaseOf
<1>3. Private!Zeros = [r \in RegisterNumbers |-> 0]
  BY SameZeros DEF NoRegisters
<1>. QED
  BY <1>1, <1>2, <1>3 DEF Private!Init, Private!NoImage

\* Every step is one of the private machine of a process, or does not show.
LEMMA StepIsPrivate ==
    ASSUME Aligned, Sound, Sound', Faithful, KeepsInside, [Next]_vars
    PROVE  PrivateStep
<1>1. CASE UNCHANGED vars
  <2>1. UNCHANGED <<memory, next_pid, program, pcb, page_tables, loading, freed, hw_threads>>
    BY <1>1 DEF vars, memoryVars, loaderVars
  <2>2. ASSUME NEW p \in Pids PROVE View(p)' = View(p)
    BY <2>1, Stays, SameMemorySameWords, FindsSame DEF Admitted
  <2>. QED
    BY <2>2, PrivateStutters
<1>2. CASE Load
  <2>1. LoaderNext /\ UNCHANGED hw_threads
    BY <1>2 DEF Load
  <2>2. ASSUME NEW f \in FileContents, RejectFile(f) \/ CreateProcess(f) \/ OutOfKernelSpace(f)
        PROVE  PrivateStep
    BY <2>1, <2>2, RejectStays, CreateStays, NoSpaceLeaves
  <2>3. ASSUME NEW p \in Pids, NEW page \in 0 .. KernelWords - 1, NEW frame \in FreeFrames,
               LoadPage(p, page, frame)
        PROVE  PrivateStep
    BY <2>1, <2>3, LoadPageStays
  <2>4. ASSUME NEW p \in Pids, NEW page \in 0 .. KernelWords - 1, OutOfFrames(p, page)
        PROVE  PrivateStep
    BY <2>1, <2>4, NoFramesLeaves
  <2>5. ASSUME NEW p \in Pids, QueueProcess(p) PROVE PrivateStep
    BY <2>1, <2>5, QueueAdmits
  <2>. QED
    BY <2>1, <2>2, <2>3, <2>4, <2>5 DEF LoaderNext
<1>3. CASE \E p \in Pids : Assign(p)
  BY <1>3, AssignStays
<1>4. CASE \E k \in 1 .. NumThreads : k <= Len(hw_threads) /\ (Execute(k) \/ Expire(k) \/ Complete(k))
  <2>1. PICK k \in 1 .. NumThreads : k <= Len(hw_threads) /\ (Execute(k) \/ Expire(k) \/ Complete(k))
    BY <1>4
  <2>2. k \in 1 .. Len(hw_threads)
    BY <2>1, OnThreads, ExecutionAssumption
  <2>3. CASE Execute(k)
    BY <2>2, <2>3, LdExecutes, StExecutes, AddExecutes, StopHalts DEF Execute
  <2>4. CASE Expire(k)
    BY <2>2, <2>4, ExpireStays
  <2>5. CASE Complete(k)
    BY <2>2, <2>5, CompleteLeaves
  <2>. QED
    BY <2>1, <2>3, <2>4, <2>5
<1>5. CASE IdleTick
  BY <1>1, <1>5 DEF IdleTick
<1>. QED
  BY <1>1, <1>2, <1>3, <1>4, <1>5 DEF Next

\* However the processes are scheduled over the hardware threads, and wherever the
\* loader has put their pages in memory, each one sees a machine of its own
\* (execute_instruction_cycle, the MMU and the context switch of machine.c).
THEOREM RefinesPrivateMachine ==
    ASSUME Aligned
    PROVE  Spec /\ []KeepsInside => ImplementsPrivateMachine
<1>1. Init => Private!Init
  BY PrivateInit
<1>2. Sound /\ Faithful /\ KeepsInside /\ (Sound /\ Faithful)' /\ [Next]_vars => [Private!Next]_(Private!vars)
  BY StepIsPrivate DEF PrivateStep
<1>3. Spec /\ []KeepsInside => [](Sound /\ Faithful)
  BY FaithfulAlways
<1>. QED
  BY <1>1, <1>2, <1>3, PTL DEF Spec, ImplementsPrivateMachine, Private!Spec

----------------------------------------------------------------------------
(* Programs that end.                                                      *)

\* What a step may do to the view of a process.
Appears(q) ==
    /\ PhaseOf(q) = "absent" /\ PhaseOf(q)' = "live"
    /\ ImageOf(q)' = OriginOf(q)' /\ PcOf(q)' = PcOf(q) /\ RegistersOf(q)' = RegistersOf(q)

Reaches(q) == PhaseOf(q) = "live" /\ PcOf(q) \div WORD_SIZE \in DOMAIN ImageOf(q)

GoesOn(q) ==
    /\ Reaches(q) /\ PhaseOf(q)' = "live" /\ OriginOf(q)' = OriginOf(q)
    /\ Computes(q, ImageOf(q)', RegistersOf(q)') /\ PcOf(q)' = PcOf(q) + WORD_SIZE

Halts(q) ==
    /\ Reaches(q) /\ PhaseOf(q)' = "halted"
    /\ extract_opcode(CurrentInstruction(q)) = OP_EXIT \/ ~IsInstruction(CurrentInstruction(q))
    /\ OriginOf(q)' = OriginOf(q) /\ ImageOf(q)' = ImageOf(q)
    /\ PcOf(q)' = PcOf(q) /\ RegistersOf(q)' = RegistersOf(q)

ViewStep(q) ==
    View(q)' = View(q) \/ Appears(q) \/ GoesOn(q) \/ Halts(q) \/ PhaseOf(q)' = "gone"

\* An instruction of a private machine, in terms of the views.
LEMMA PrivateStepViews ==
    ASSUME NEW p \in Pids, Private!Step(p), NEW q \in Pids
    PROVE  ViewStep(q)
<1>. DEFINE i == CurrentInstruction(p)
           c == [r \in Pids |-> IF r \in Admitted THEN Context(r).pc ELSE 0][p]
           a == extract_address(i) \div WORD_SIZE
<1>1. Private!At(p, c) = i
  BY SameInstructions DEF Private!At, CurrentInstruction, ImageOf, PcOf
<1>2. PhaseOf(p) = "live" /\ Private!Holds(p, c)
      /\ (Private!Load(p, i) \/ Private!Store(p, i) \/ Private!Add(p, i) \/ Private!Halt(p, i))
  BY <1>1 DEF Private!Step, Private!Load, Private!Store, Private!Add, Private!Next_pc, Private!Holds, Private!At
<1>3. PcOf(p) \div WORD_SIZE \in DOMAIN ImageOf(p)
  BY <1>2, SameInstructions DEF Private!Holds, ImageOf, PcOf
<1>4. Reaches(p) /\ p \in DOMAIN Images /\ p \in DOMAIN Registers /\ p \in DOMAIN Counters
  BY <1>2, <1>3 DEF Reaches, Images, Registers, Counters
<1>. HIDE DEF i
<1>5. CASE Private!Load(p, i)
  <2>1. /\ extract_opcode(i) = OP_LD /\ a \in DOMAIN Images[p]
        /\ Registers' = [Registers EXCEPT ![p][extract_reg(i)] = Images[p][a]]
        /\ Counters' = [Counters EXCEPT ![p] = @ + WORD_SIZE]
        /\ UNCHANGED <<Phases, Origins, Images>>
    BY <1>5, SameInstructions DEF Private!Load, Private!Holds, Private!At, Private!Next_pc,
       Phases, Origins, Images, Counters, Registers, OriginOf, ImageOf, PcOf, RegistersOf, NoRegisters, Linked
  <2>2. CASE q = p
    <3>1. /\ PhaseOf(p)' = "live" /\ OriginOf(p)' = OriginOf(p) /\ PcOf(p)' = PcOf(p) + WORD_SIZE
      BY <2>1, <1>4 DEF Phases, Origins, Counters, Reaches
    <3>2. Computes(p, ImageOf(p)', RegistersOf(p)')
      BY <2>1, <1>4 DEF Images, Registers, Computes, Operand, Target, i
    <3>. QED
      BY <1>4, <2>2, <3>1, <3>2 DEF GoesOn, ViewStep
  <2>3. CASE q # p
    BY <2>1, <2>3 DEF Phases, Origins, Images, Counters, Registers, ViewStep, View
  <2>. QED
    BY <2>2, <2>3
<1>6. CASE Private!Store(p, i)
  <2>1. /\ extract_opcode(i) = OP_ST /\ a \in DOMAIN Images[p]
        /\ Images' = [Images EXCEPT ![p][a] = Registers[p][extract_reg(i)]]
        /\ Counters' = [Counters EXCEPT ![p] = @ + WORD_SIZE]
        /\ UNCHANGED <<Phases, Origins, Registers>>
    BY <1>6, SameInstructions DEF Private!Store, Private!Holds, Private!At, Private!Next_pc,
       Phases, Origins, Images, Counters, Registers, OriginOf, ImageOf, PcOf, RegistersOf, NoRegisters, Linked
  <2>2. CASE q = p
    <3>1. /\ PhaseOf(p)' = "live" /\ OriginOf(p)' = OriginOf(p) /\ PcOf(p)' = PcOf(p) + WORD_SIZE
      BY <2>1, <1>4 DEF Phases, Origins, Counters, Reaches
    <3>2. Computes(p, ImageOf(p)', RegistersOf(p)')
      BY <2>1, <1>4 DEF Images, Registers, Computes, Operand, Target, i
    <3>. QED
      BY <1>4, <2>2, <3>1, <3>2 DEF GoesOn, ViewStep
  <2>3. CASE q # p
    BY <2>1, <2>3 DEF Phases, Origins, Images, Counters, Registers, ViewStep, View
  <2>. QED
    BY <2>2, <2>3
<1>7. CASE Private!Add(p, i)
  <2>1. /\ extract_opcode(i) = OP_ADD
        /\ Registers' = [Registers EXCEPT ![p][extract_reg(i)] =
              Sum32(Registers[p][extract_reg_src1(i)], Registers[p][extract_reg_src2(i)])]
        /\ Counters' = [Counters EXCEPT ![p] = @ + WORD_SIZE]
        /\ UNCHANGED <<Phases, Origins, Images>>
    <3>1. /\ Private!extract_opcode(i) = Private!OP_ADD
          /\ Registers' = [Registers EXCEPT ![p][Private!extract_reg(i)] =
                Private!Sum32(Registers[p][Private!extract_reg_src1(i)], Registers[p][Private!extract_reg_src2(i)])]
          /\ UNCHANGED <<Phases, Origins, Images>>
      BY <1>7 DEF Private!Add, Phases, Origins, Images, Counters, Registers, OriginOf, ImageOf,
         PcOf, RegistersOf, NoRegisters, Linked
    <3>2. Counters' = [Counters EXCEPT ![p] = @ + WORD_SIZE]
      BY <1>7, SameInstructions DEF Private!Add, Private!Next_pc, Counters, PcOf
    <3>. QED
      BY <3>1, <3>2, SameInstructions
  <2>2. CASE q = p
    <3>1. /\ PhaseOf(p)' = "live" /\ OriginOf(p)' = OriginOf(p) /\ PcOf(p)' = PcOf(p) + WORD_SIZE
      BY <2>1, <1>4 DEF Phases, Origins, Counters, Reaches
    <3>2. Computes(p, ImageOf(p)', RegistersOf(p)')
      BY <2>1, <1>4 DEF Images, Registers, Computes, Operand, Target, i
    <3>. QED
      BY <1>4, <2>2, <3>1, <3>2 DEF GoesOn, ViewStep
  <2>3. CASE q # p
    BY <2>1, <2>3 DEF Phases, Origins, Images, Counters, Registers, ViewStep, View
  <2>. QED
    BY <2>2, <2>3
<1>8. CASE Private!Halt(p, i)
  <2>1. /\ extract_opcode(i) = OP_EXIT \/ ~IsInstruction(i)
        /\ Phases' = [Phases EXCEPT ![p] = "halted"]
        /\ UNCHANGED <<Origins, Images, Counters, Registers>>
    BY <1>8, SameInstructions DEF Private!Halt,
       Phases, Origins, Images, Counters, Registers, OriginOf, ImageOf, PcOf, RegistersOf, NoRegisters, Linked
  <2>2. CASE q = p
    BY <1>4, <2>1, <2>2 DEF Phases, Origins, Images, Counters, Registers, ViewStep, Halts, i
  <2>3. CASE q # p
    BY <2>1, <2>3 DEF Phases, Origins, Images, Counters, Registers, ViewStep, View
  <2>. QED
    BY <2>2, <2>3
<1>. QED
  BY <1>2, <1>5, <1>6, <1>7, <1>8

\* A step of the private machines is such a step for each process.
LEMMA ViewSteps ==
    ASSUME PrivateStep, NEW q \in Pids
    PROVE  ViewStep(q)
<1>. DEFINE fold == <<Phases, Origins, Images, Counters, Registers>>
<1>1. CASE UNCHANGED Private!vars
  <2>1. UNCHANGED fold
    BY <1>1 DEF Private!vars, Phases, Origins, Images, Counters, Registers, OriginOf, ImageOf,
       PcOf, RegistersOf, NoRegisters, Linked
  <2>2. /\ PhaseOf(q)' = PhaseOf(q) /\ OriginOf(q)' = OriginOf(q) /\ ImageOf(q)' = ImageOf(q)
        /\ PcOf(q)' = PcOf(q) /\ RegistersOf(q)' = RegistersOf(q)
    BY <2>1 DEF Phases, Origins, Images, Counters, Registers
  <2>. QED
    BY <2>2 DEF View, ViewStep
<1>2. CASE Private!Next
  <2>1. PICK p \in Pids : Private!Admit(p) \/ Private!Step(p) \/ Private!Leave(p)
    BY <1>2 DEF Private!Next
  <2>2. CASE Private!Admit(p)
    <3>1. /\ Phases[p] = "absent" /\ Phases' = [Phases EXCEPT ![p] = "live"]
          /\ \A r \in Pids \ {p} : Origins'[r] = Origins[r]
          /\ Images' = [Images EXCEPT ![p] = Origins'[p]] /\ UNCHANGED <<Counters, Registers>>
      BY <2>2 DEF Private!Admit, Phases, Origins, Images, Counters, Registers, OriginOf, ImageOf,
         PcOf, RegistersOf, NoRegisters, Linked
    <3>2. CASE q = p
      BY <3>1, <3>2 DEF Phases, Origins, Images, Counters, Registers, ViewStep, Appears
    <3>3. CASE q # p
      BY <3>1, <3>3 DEF Phases, Origins, Images, Counters, Registers, ViewStep, View
    <3>. QED
      BY <3>2, <3>3
  <2>3. CASE Private!Leave(p)
    <3>1. /\ Phases' = [Phases EXCEPT ![p] = "gone"]
          /\ \A r \in Pids \ {p} : /\ Origins'[r] = Origins[r] /\ Images'[r] = Images[r]
                                   /\ Counters'[r] = Counters[r] /\ Registers'[r] = Registers[r]
      BY <2>3 DEF Private!Leave, Phases, Origins, Images, Counters, Registers, OriginOf, ImageOf,
         PcOf, RegistersOf, NoRegisters, Linked
    <3>. QED
      BY <3>1 DEF Phases, Origins, Images, Counters, Registers, ViewStep, View
  <2>4. CASE Private!Step(p)
    BY <2>4, PrivateStepViews
  <2>. QED
    BY <2>1, <2>2, <2>3, <2>4
<1>. QED
  BY <1>1, <1>2 DEF PrivateStep

\* A process has executed n words of its program, none of which comes after its end,
\* and the words up to that are those of its file.
Tame ==
    \A p \in Admitted :
        \E s \in 0 .. total_words(program[p]) - 1 : \E n \in 0 .. s :
            /\ EndsAt(program[p], s) /\ PcOf(p) = WORD_SIZE * n
            /\ \A w \in 0 .. s : ImageOf(p)[w] = LinkedImage(program[p], w)

\* The MMU reads a word of the program in the image.
LEMMA ReadsImage ==
    ASSUME Sound, NEW k \in 1 .. Len(hw_threads), NEW b \in Nat,
           b \div WORD_SIZE < total_words(program[hw_threads[k].pcb])
    PROVE  mmu_read_word(hw_threads[k].PTBR, b) = ImageOf(hw_threads[k].pcb)[b \div WORD_SIZE]
<1>. DEFINE p == hw_threads[k].pcb
<1>1. p \in Pids /\ p \in Admitted /\ p \notin freed /\ hw_threads[k].PTBR = base(p)
  BY OnThreads
<1>2. program[p] \in FileContents /\ program[p].found_text /\ pages(p) = total_pages(program[p])
  BY <1>1 DEF Sound, LaidOut, Settled
<1>3. b \div WORD_SIZE \in Nat
  BY DEF WORD_SIZE
<1>4. b \div WORD_SIZE \in 0 .. pages(p) * WordsPerPage - 1
  BY <1>2, <1>3, CountedWords
<1>5. translate_virtual_to_physical(base(p), b) = Home(p, b \div WORD_SIZE)
  BY <1>1, <1>4, ReadsHome
<1>6. mmu_read_word(hw_threads[k].PTBR, b) = memory[Home(p, b \div WORD_SIZE)]
  BY <1>1, <1>5 DEF mmu_read_word
<1>7. b \div WORD_SIZE \in WordsOf(p)
  BY <1>2, <1>4 DEF WordsOf
<1>8. ImageOf(p) = Words(p)
  <2>1. View(p) = Shown(p)
    BY <1>1, ShowsWords DEF AllShown
  <2>. QED
    BY <1>1, <2>1 DEF View, Shown
<1>. QED
  BY <1>6, <1>7, <1>8 DEF Words

\* A multiple of the word size, divided by it.
LEMMA WordOfPc ==
    ASSUME NEW n \in Nat
    PROVE  WORD_SIZE * n \in Nat /\ (WORD_SIZE * n) \div WORD_SIZE = n
BY DEF WORD_SIZE

\* Files have a number of words.
LEMMA TotalWordsNat ==
    ASSUME NEW f \in FileContents, f.found_text
    PROVE  total_words(f) \in Nat
BY FileSizes

\* What a program that ends is at: a word of its file.
LEMMA AtWord ==
    ASSUME Sound, Tame, NEW k \in 1 .. Len(hw_threads)
    PROVE  LET p == hw_threads[k].pcb
           IN  \E s \in 0 .. total_words(program[p]) - 1 : \E n \in 0 .. s :
                  /\ EndsAt(program[p], s) /\ n \in Nat /\ s \in Nat /\ total_words(program[p]) \in Nat
                  /\ hw_threads[k].PC = WORD_SIZE * n /\ PcOf(p) = WORD_SIZE * n
                  /\ hw_threads[k].PC \div WORD_SIZE = n
                  /\ Fetched(k) = LinkedImage(program[p], n)
<1>. DEFINE p == hw_threads[k].pcb
<1>1. p \in Pids /\ p \in Admitted /\ p \notin freed
  BY OnThreads
<1>2. program[p] \in FileContents /\ program[p].found_text
  BY <1>1 DEF Sound, LaidOut, Settled
<1>3. PICK s \in 0 .. total_words(program[p]) - 1 : \E n \in 0 .. s :
         /\ EndsAt(program[p], s) /\ PcOf(p) = WORD_SIZE * n
         /\ \A w \in 0 .. s : ImageOf(p)[w] = LinkedImage(program[p], w)
  BY <1>1 DEF Tame
<1>4. PICK n \in 0 .. s :
         /\ EndsAt(program[p], s) /\ PcOf(p) = WORD_SIZE * n
         /\ \A w \in 0 .. s : ImageOf(p)[w] = LinkedImage(program[p], w)
  BY <1>3
<1>5. n \in Nat /\ s \in Nat /\ total_words(program[p]) \in Nat /\ n < total_words(program[p])
  <2>1. total_words(program[p]) \in Nat
    BY <1>2, TotalWordsNat
  <2>. HIDE DEF p
  <2>. QED
    BY <2>1, <1>3, <1>4
<1>6. PcOf(p) = hw_threads[k].PC
  <2>1. Context(p) = [pgb |-> base(p), pc |-> hw_threads[k].PC, registers |-> hw_threads[k].registers]
    BY Contexts DEF ContextsFound
  <2>. QED
    BY <1>1, <2>1 DEF PcOf
<1>7. hw_threads[k].PC \in Nat /\ hw_threads[k].PC \div WORD_SIZE = n
  BY <1>4, <1>5, <1>6, WordOfPc
<1>8. Fetched(k) = ImageOf(p)[n]
  BY <1>5, <1>7, ReadsImage DEF Fetched
<1>. QED
  BY <1>3, <1>4, <1>5, <1>6, <1>7, <1>8

\* Programs that end keep inside.
LEMMA TameKeepsInside == Sound /\ Tame => KeepsInside
<1>. SUFFICES ASSUME Sound, Tame, NEW k \in DOMAIN hw_threads, NEW a \in Uses(k)
              PROVE  a \div WORD_SIZE < total_words(program[hw_threads[k].pcb])
  BY DEF KeepsInside
<1>. DEFINE p == hw_threads[k].pcb
<1>1. k \in 1 .. Len(hw_threads)
  BY OnThreads
<1>2. PICK s \in 0 .. total_words(program[p]) - 1 : \E n \in 0 .. s :
         /\ EndsAt(program[p], s) /\ n \in Nat /\ s \in Nat /\ total_words(program[p]) \in Nat
         /\ hw_threads[k].PC \div WORD_SIZE = n /\ Fetched(k) = LinkedImage(program[p], n)
  BY <1>1, AtWord
<1>3. PICK n \in 0 .. s :
         /\ EndsAt(program[p], s) /\ n \in Nat /\ s \in Nat /\ total_words(program[p]) \in Nat
         /\ hw_threads[k].PC \div WORD_SIZE = n /\ Fetched(k) = LinkedImage(program[p], n)
  BY <1>2
<1>4. CASE a = hw_threads[k].PC
  <2>1. n < total_words(program[p])
    <3>. HIDE DEF p
    <3>. QED
      BY <1>2, <1>3
  <2>. QED
    BY <1>3, <1>4, <2>1
<1>5. CASE a # hw_threads[k].PC
  <2>1. extract_opcode(Fetched(k)) \in {OP_LD, OP_ST} /\ a = extract_address(Fetched(k))
    BY <1>5 DEF Uses
  <2>. QED
    BY <1>3, <2>1 DEF EndsAt
<1>. QED
  BY <1>4, <1>5

\* An instruction after which the program goes on is not the last one.
LEMMA NotLast ==
    ASSUME Sound, Tame, NEW k \in 1 .. Len(hw_threads),
           extract_opcode(Fetched(k)) \in {OP_LD, OP_ST, OP_ADD}
    PROVE  (hw_threads[k].PC + WORD_SIZE) \div WORD_SIZE < total_words(program[hw_threads[k].pcb])
<1>. DEFINE p == hw_threads[k].pcb
<1>2. PICK s \in 0 .. total_words(program[p]) - 1 : \E n \in 0 .. s :
         /\ EndsAt(program[p], s) /\ n \in Nat /\ s \in Nat /\ total_words(program[p]) \in Nat
         /\ hw_threads[k].PC = WORD_SIZE * n /\ Fetched(k) = LinkedImage(program[p], n)
  BY AtWord
<1>3. PICK n \in 0 .. s :
         /\ EndsAt(program[p], s) /\ n \in Nat /\ s \in Nat /\ total_words(program[p]) \in Nat
         /\ hw_threads[k].PC = WORD_SIZE * n /\ Fetched(k) = LinkedImage(program[p], n)
  BY <1>2
<1>4. n # s
  BY <1>3 DEF EndsAt
<1>5. n + 1 < total_words(program[p])
  <2>. HIDE DEF p
  <2>. QED
    BY <1>2, <1>3, <1>4
<1>6. (WORD_SIZE * n + WORD_SIZE) \div WORD_SIZE = n + 1
  <2>1. WORD_SIZE * n + WORD_SIZE = WORD_SIZE * (n + 1) /\ n + 1 \in Nat
    BY <1>3 DEF WORD_SIZE
  <2>. QED
    BY <2>1, WordOfPc
<1>. QED
  BY <1>3, <1>5, <1>6

\* Where a process was or will be found, its program counter is one of its words.
LEMMA TameInPcb ==
    ASSUME Sound, Tame, NEW p \in ready_queue
    PROVE  pcb[p].pc \div WORD_SIZE < total_words(program[p])
<1>1. p \in Admitted /\ p \in Pids /\ \A k \in 1 .. Len(hw_threads) : hw_threads[k].pcb # p
  BY OnThreads
<1>2. PcOf(p) = pcb[p].pc
  <2>1. Context(p) = [pgb |-> base(p), pc |-> pcb[p].pc, registers |-> pcb[p].registers]
    BY <1>1, Contexts DEF ContextsFound
  <2>. QED
    BY <1>1, <2>1 DEF PcOf
<1>3. PICK s \in 0 .. total_words(program[p]) - 1 : \E n \in 0 .. s : PcOf(p) = WORD_SIZE * n
  BY <1>1 DEF Tame
<1>4. PICK n \in 0 .. s : PcOf(p) = WORD_SIZE * n
  BY <1>3
<1>5. total_words(program[p]) \in Nat
  BY <1>1, TotalWordsNat DEF Sound, LaidOut, Settled
<1>6. n \in Nat /\ n < total_words(program[p])
  BY <1>3, <1>4, <1>5
<1>. QED
  BY <1>2, <1>4, <1>6, WordOfPc

\* The other program counters when a thread is removed.
LEMMA RemovalPcs ==
    ASSUME Sound, KeepsInside, NEW k \in 1 .. Len(hw_threads), hw_threads' = DropAt(hw_threads, k),
           \A q \in Pids : q # hw_threads[k].pcb => pcb'[q].state = pcb[q].state, UNCHANGED program
    PROVE  PcsInside'
<1>. DEFINE n == Len(hw_threads)
<1>1. /\ n \in Nat /\ hw_threads' \in Seq(Threads) /\ Len(hw_threads') = n - 1
      /\ \A j \in 1 .. n - 1 : hw_threads'[j] = IF j < k THEN hw_threads[j] ELSE hw_threads[j + 1]
  <2>1. n \in Nat /\ hw_threads \in Seq(Threads)
    BY OnThreads DEF Sound
  <2>. QED
    BY <2>1, DropAtProperties
<1>2. DOMAIN hw_threads' = 1 .. n - 1
  BY <1>1
<1>3. ASSUME NEW j \in 1 .. n - 1, pcb'[hw_threads'[j].pcb].state # "TERMINATED"
      PROVE  hw_threads'[j].PC \div WORD_SIZE < total_words(program[hw_threads'[j].pcb])
  <2>. DEFINE i == IF j < k THEN j ELSE j + 1
  <2>1. i \in 1 .. n /\ i # k /\ hw_threads'[j] = hw_threads[i]
    BY <1>1
  <2>. HIDE DEF i
  <2>2. hw_threads[i].pcb # hw_threads[k].pcb /\ hw_threads[i].pcb \in Pids
    BY <2>1, OnThreads
  <2>3. pcb[hw_threads[i].pcb].state # "TERMINATED"
    BY <1>3, <2>1, <2>2
  <2>4. i \in DOMAIN hw_threads
    BY <2>1, OnThreads
  <2>. QED
    BY <2>1, <2>3, <2>4, PcsKept DEF PcsInside
<1>. QED
  BY <1>2, <1>3 DEF PcsInside

\* A dispatched process resumes at the word its PCB remembers.
LEMMA AssignPcs ==
    ASSUME Sound, Tame, KeepsInside, NEW p \in Pids, Assign(p)
    PROVE  PcsInside'
<1>. DEFINE h == [pcb |-> p, PTBR |-> pcb[p].pgb, PC |-> pcb[p].pc, registers |-> pcb[p].registers]
           n == Len(hw_threads)
<1>1. /\ p \in ready_queue /\ hw_threads' = Append(hw_threads, h)
      /\ pcb' = [pcb EXCEPT ![p].state = "RUNNING"] /\ UNCHANGED program
  BY DEF Assign
<1>2. h.PC \div WORD_SIZE < total_words(program[p]) /\ h.pcb = p
  BY <1>1, TameInPcb
<1>. HIDE DEF h
<1>3. /\ n \in Nat /\ DOMAIN hw_threads' = 1 .. n + 1 /\ hw_threads'[n + 1] = h
      /\ \A j \in 1 .. n : hw_threads'[j] = hw_threads[j]
  BY <1>1, OnThreads DEF Sound
<1>4. ASSUME NEW j \in 1 .. n, pcb'[hw_threads'[j].pcb].state # "TERMINATED"
      PROVE  hw_threads'[j].PC \div WORD_SIZE < total_words(program[hw_threads'[j].pcb])
  <2>1. hw_threads[j].pcb # p /\ hw_threads[j].pcb \in Pids /\ j \in DOMAIN hw_threads
    BY <1>1, OnThreads
  <2>2. pcb[hw_threads[j].pcb].state # "TERMINATED"
    BY <1>1, <1>3, <1>4, <2>1
  <2>. QED
    BY <1>3, <2>1, <2>2, PcsKept DEF PcsInside
<1>5. hw_threads'[n + 1].PC \div WORD_SIZE < total_words(program[hw_threads'[n + 1].pcb])
  BY <1>2, <1>3
<1>6. \A j \in 1 .. n + 1 : j = n + 1 \/ j \in 1 .. n
  BY <1>3
<1>. QED
  BY <1>1, <1>3, <1>4, <1>5, <1>6 DEF PcsInside

\* Nor does an instruction lead past the end.
LEMMA ExecutePcs ==
    ASSUME Sound, Tame, KeepsInside, NEW k \in 1 .. Len(hw_threads), Execute(k)
    PROVE  PcsInside'
<1>. PICK h : h = hw_threads[k]
  OBVIOUS
<1>1. Ticks(k) /\ UNCHANGED program /\ h \in Threads /\ hw_threads \in Seq(Threads) /\ k \in DOMAIN hw_threads
  BY OnThreads DEF Execute, execute_ld, execute_st, execute_add, execute_exit, UnknownOpcode, Ticks, Sound
<1>2. \A q \in Pids : q # h.pcb => pcb'[q].state = pcb[q].state
  BY OnThreads DEF Execute, execute_ld, execute_st, execute_add, execute_exit, UnknownOpcode, Goes_on
<1>3. \/ UNCHANGED hw_threads /\ pcb'[h.pcb].state = "TERMINATED"
      \/ /\ extract_opcode(Fetched(k)) \in {OP_LD, OP_ST, OP_ADD}
         /\ \E g : /\ hw_threads' = [hw_threads EXCEPT ![k] = g]
                   /\ g.pcb = h.pcb /\ g.PC = h.PC + WORD_SIZE
  <2>1. h.pcb \in Pids /\ pcb \in [Pids -> PcbType] /\ pcb[h.pcb] \in PcbType
    BY OnThreads
  <2>2. CASE execute_exit(k) \/ UnknownOpcode(k)
    BY <2>1, <2>2 DEF execute_exit, UnknownOpcode, PcbType
  <2>3. CASE execute_ld(k) \/ execute_add(k)
    <3>1. PICK r, v : hw_threads' = [hw_threads EXCEPT ![k] = WithRegister(h, r, v)]
      BY <2>3 DEF execute_ld, execute_add
    <3>2. WithRegister(h, r, v).pcb = h.pcb /\ WithRegister(h, r, v).PC = h.PC + WORD_SIZE
      BY <1>1 DEF WithRegister, Threads
    <3>3. extract_opcode(Fetched(k)) \in {OP_LD, OP_ST, OP_ADD}
      BY <2>3 DEF execute_ld, execute_add
    <3>. QED
      BY <3>1, <3>2, <3>3
  <2>4. CASE execute_st(k)
    <3>. PICK g : g = [h EXCEPT !.PC = @ + WORD_SIZE]
      OBVIOUS
    <3>1. hw_threads' = [hw_threads EXCEPT ![k] = g]
      BY <2>4 DEF execute_st
    <3>2. g.pcb = h.pcb /\ g.PC = h.PC + WORD_SIZE
      BY <1>1 DEF Threads
    <3>3. extract_opcode(Fetched(k)) \in {OP_LD, OP_ST, OP_ADD}
      BY <2>4 DEF execute_st
    <3>. QED
      BY <3>1, <3>2, <3>3
  <2>. QED
    BY <2>2, <2>3, <2>4 DEF Execute
<1>4. DOMAIN hw_threads' = DOMAIN hw_threads /\ \A j \in DOMAIN hw_threads : j # k => hw_threads'[j] = hw_threads[j]
  BY <1>1, <1>3
<1>5. ASSUME NEW j \in DOMAIN hw_threads, j # k, pcb'[hw_threads'[j].pcb].state # "TERMINATED"
      PROVE  hw_threads'[j].PC \div WORD_SIZE < total_words(program[hw_threads'[j].pcb])
  <2>1. hw_threads[j].pcb # h.pcb /\ hw_threads[j].pcb \in Pids
    BY <1>5, OnThreads
  <2>. QED
    BY <1>2, <1>4, <1>5, <2>1, PcsKept DEF PcsInside
<1>6. ASSUME pcb'[hw_threads'[k].pcb].state # "TERMINATED"
      PROVE  hw_threads'[k].PC \div WORD_SIZE < total_words(program[hw_threads'[k].pcb])
  <2>1. extract_opcode(Fetched(k)) \in {OP_LD, OP_ST, OP_ADD}
    BY <1>3, <1>6
  <2>2. hw_threads'[k].pcb = h.pcb /\ hw_threads'[k].PC = h.PC + WORD_SIZE
    BY <1>1, <1>3, <1>6
  <2>. QED
    BY <2>1, <2>2, NotLast
<1>. QED
  BY <1>1, <1>4, <1>5, <1>6 DEF PcsInside

\* No step takes a program that ends past its end.
LEMMA TamePcs ==
    ASSUME Sound, Faithful, Tame, [Next]_vars
    PROVE  PcsInside'
<1>. KeepsInside
  BY TameKeepsInside
<1>1. CASE UNCHANGED vars
  <2>1. UNCHANGED <<hw_threads, pcb, program>>
    BY <1>1 DEF vars, loaderVars
  <2>. QED
    BY <2>1, PcsKept DEF PcsInside
<1>2. CASE Load
  <2>1. UNCHANGED hw_threads /\ (loading # NotLoading \/ files_read < MaxFiles)
    BY <1>2 DEF Load, LoaderNext, RejectFile, CreateProcess, OutOfKernelSpace, ReadsFile, LoadPage,
       OutOfFrames, QueueProcess, Loads
  <2>2. hw_threads' = <<>>
    BY <2>1, LoadingAlone
  <2>. QED
    BY <2>2 DEF PcsInside
<1>3. CASE \E p \in Pids : Assign(p)
  BY <1>3, AssignPcs
<1>4. ASSUME NEW k \in 1 .. NumThreads, k <= Len(hw_threads), Execute(k) \/ Expire(k) \/ Complete(k)
      PROVE  PcsInside'
  <2>1. k \in 1 .. Len(hw_threads) /\ hw_threads[k].pcb \in Pids /\ pcb \in [Pids -> PcbType]
    BY <1>4, OnThreads
  <2>2. CASE Execute(k)
    BY <2>1, <2>2, ExecutePcs
  <2>3. CASE Expire(k)
    <3>1. /\ hw_threads' = DropAt(hw_threads, k) /\ UNCHANGED program
          /\ pcb' = [pcb EXCEPT ![hw_threads[k].pcb] = SavedContext(hw_threads[k])]
      BY <2>3 DEF Expire, RemoveThread
    <3>. QED
      BY <2>1, <3>1, RemovalPcs
  <2>4. CASE Complete(k)
    <3>1. /\ hw_threads' = DropAt(hw_threads, k) /\ UNCHANGED program
          /\ pcb' = [pcb EXCEPT ![hw_threads[k].pcb].pgb = Null]
      BY <2>4 DEF Complete, RemoveThread
    <3>. QED
      BY <2>1, <3>1, RemovalPcs
  <2>. QED
    BY <1>4, <2>2, <2>3, <2>4
<1>5. CASE IdleTick
  BY <1>1, <1>5 DEF IdleTick
<1>. QED
  BY <1>1, <1>2, <1>3, <1>4, <1>5 DEF Next

\* A process runs the program it was made from.
LEMMA ProgramKept ==
    ASSUME Sound, [Next]_vars, NEW p \in Admitted
    PROVE  program'[p] = program[p]
<1>1. p < next_pid /\ p \in Pids
  BY DEF Admitted
<1>2. CASE \E f \in FileContents : CreateProcess(f)
  <2>1. PICK f \in FileContents : program' = [program EXCEPT ![next_pid] = f]
    BY <1>2 DEF CreateProcess
  <2>2. p # next_pid /\ next_pid \in Nat
    BY <1>1, LoaderAssumption DEF Sound, TypeOK
  <2>3. program \in [Pids -> FileContents \cup {NoFile}]
    BY DEF Sound, TypeOK
  <2>. QED
    BY <1>1, <2>1, <2>2, <2>3
<1>3. CASE ~\E f \in FileContents : CreateProcess(f)
  <2>1. UNCHANGED program
    BY <1>3 DEF Next, vars, loaderVars, Load, LoaderNext, RejectFile, OutOfKernelSpace, LoadPage, OutOfFrames,
       QueueProcess, Assign, Execute, execute_ld, execute_st, execute_add, execute_exit, UnknownOpcode,
       Ticks, Expire, Complete, IdleTick
  <2>. QED
    BY <2>1
<1>. QED
  BY <1>2, <1>3

\* Every word that the loader counts is in the image.
LEMMA CountedInImage ==
    ASSUME Sound, NEW p \in Admitted, NEW w \in Nat, w < total_words(program[p])
    PROVE  w \in WordsOf(p) /\ program[p] \in FileContents /\ program[p].found_text
<1>1. program[p] \in FileContents /\ program[p].found_text
  BY OnThreads DEF Sound, LaidOut, Settled
<1>2. WORD_SIZE * w \in Nat /\ (WORD_SIZE * w) \div WORD_SIZE = w
  BY WordOfPc
<1>. QED
  BY <1>1, <1>2, CountedWords DEF WordsOf

\* Every process runs a file with a program.
RunsFiles == \A p \in Admitted : program[p] \in FileContents /\ program[p].found_text

LEMMA Running == Sound => RunsFiles
BY OnThreads DEF Sound, LaidOut, Settled, RunsFiles

\* The same in the next state.
LEMMA RunningNext == Sound' => RunsFiles'
BY Running, PTL

\* A process has executed n words, none of which comes after word s, its end.
TameTo(p, s) ==
    \E n \in 0 .. s :
        /\ EndsAt(program[p], s) /\ PcOf(p) = WORD_SIZE * n
        /\ \A w \in 0 .. s : ImageOf(p)[w] = LinkedImage(program[p], w)

TameOne(p) == \E s \in 0 .. total_words(program[p]) - 1 : TameTo(p, s)

\* A process whose file is well written is tame when it is admitted.
StartsTame ==
    \A p \in Admitted : \A s \in 0 .. total_words(program[p]) - 1 :
        PcOf(p) = 0 /\ ImageOf(p) = OriginOf(p) /\ EndsAt(program[p], s) => TameTo(p, s)

LEMMA Starting == Sound => StartsTame
<1>. SUFFICES ASSUME Sound, NEW p \in Admitted, NEW s \in 0 .. total_words(program[p]) - 1,
                     PcOf(p) = 0, ImageOf(p) = OriginOf(p), EndsAt(program[p], s)
              PROVE  TameTo(p, s)
  BY DEF StartsTame
<1>1. program[p] \in FileContents /\ program[p].found_text
  BY OnThreads DEF Sound, LaidOut, Settled
<1>3. total_words(program[p]) \in Nat
  BY <1>1, TotalWordsNat
<1>4. ASSUME NEW w \in 0 .. s
      PROVE  ImageOf(p)[w] = LinkedImage(program[p], w)
  <2>1. w \in Nat /\ w < total_words(program[p])
    BY <1>3
  <2>2. w \in WordsOf(p)
    BY <2>1, CountedInImage
  <2>. QED
    BY <2>2 DEF OriginOf, Linked
<1>5. 0 \in 0 .. s /\ PcOf(p) = WORD_SIZE * 0
  BY <1>3 DEF WORD_SIZE
<1>. QED
  BY <1>4, <1>5 DEF TameTo

\* The same in the next state.
LEMMA StartingNext == Sound' => StartsTame'
BY Starting, PTL

\* An instruction of a tame process leaves the words up to the end alone.
LEMMA TameGoesOn ==
    ASSUME Sound, NEW p \in Admitted, p \in Admitted', NEW s \in 0 .. total_words(program[p]) - 1,
           TameTo(p, s), GoesOn(p), program'[p] = program[p]
    PROVE  TameTo(p, s)'
<1>. PICK f : f = program[p]
  OBVIOUS
<1>1. s \in 0 .. total_words(f) - 1
  OBVIOUS
<1>2. PICK n \in 0 .. s :
         /\ EndsAt(f, s) /\ PcOf(p) = WORD_SIZE * n
         /\ \A w \in 0 .. s : ImageOf(p)[w] = LinkedImage(f, w)
  BY DEF TameTo
<1>. PICK i : i = LinkedImage(f, n)
  OBVIOUS
<1>3. n \in Nat /\ s \in Nat /\ total_words(f) \in Nat
  <2>1. total_words(f) \in Nat
    BY TotalWordsNat, OnThreads DEF Sound, LaidOut, Settled
  <2>. QED
    BY <2>1, <1>1, <1>2
<1>4. CurrentInstruction(p) = i
  BY <1>2, <1>3, WordOfPc DEF CurrentInstruction
<1>5. extract_opcode(i) \in {OP_LD, OP_ST, OP_ADD} /\ n # s
  <2>1. extract_opcode(i) \in {OP_LD, OP_ST, OP_ADD}
    BY <1>4 DEF GoesOn, Computes
  <2>. QED
    BY <2>1, <1>2 DEF EndsAt
<1>6. n + 1 \in 0 .. s /\ PcOf(p)' = WORD_SIZE * (n + 1)
  <2>1. PcOf(p)' = WORD_SIZE * n + WORD_SIZE
    BY <1>2 DEF GoesOn
  <2>. QED
    BY <2>1, <1>2, <1>3, <1>5 DEF WORD_SIZE
<1>7. ASSUME NEW w \in 0 .. s
      PROVE  ImageOf(p)'[w] = ImageOf(p)[w]
  <2>1. CASE extract_opcode(i) = OP_ST
    <3>1. Operand(p) = extract_address(i) \div WORD_SIZE /\ s < Operand(p)
      BY <1>2, <1>4, <2>1 DEF Operand, EndsAt
    <3>2. ImageOf(p)' = [ImageOf(p) EXCEPT ![Operand(p)] = RegistersOf(p)[Target(p)]]
      BY <1>4, <2>1 DEF GoesOn, Computes, OP_LD, OP_ST, OP_ADD
    <3>3. w # Operand(p)
      BY <1>3, <3>1
    <3>4. w \in DOMAIN ImageOf(p) /\ \E d : ImageOf(p) = [x \in WordsOf(p) |-> d[x]]
      <4>1. w \in WordsOf(p)
        BY <1>1, <1>3, CountedInImage
      <4>2. ImageOf(p) = [x \in WordsOf(p) |-> mmu_read_word(Context(p).pgb, WORD_SIZE * x)]
        BY DEF ImageOf
      <4>. QED
        BY <4>1, <4>2
    <3>. QED
      BY <3>2, <3>3, <3>4
  <2>2. CASE extract_opcode(i) # OP_ST
    BY <1>4, <2>2 DEF GoesOn, Computes
  <2>. QED
    BY <2>1, <2>2
<1>. QED
  BY <1>1, <1>2, <1>6, <1>7 DEF TameTo

\* Whatever else happens, a process stays before its end, or has just been admitted.
LEMMA TameToNext ==
    ASSUME Sound, Sound', [Next]_vars, PrivateStep, NEW q \in Admitted'
    PROVE  \/ Appears(q) /\ PcOf(q)' = 0 /\ ImageOf(q)' = OriginOf(q)'
           \/ /\ q \in Admitted /\ program'[q] = program[q]
              /\ \A s \in 0 .. total_words(program[q]) - 1 : TameTo(q, s) => TameTo(q, s)'
<1>1. q \in Pids /\ PhaseOf(q)' # "gone" /\ PhaseOf(q)' # "absent"
  BY DEF Admitted, PhaseOf
<1>2. ViewStep(q)
  BY <1>1, ViewSteps
<1>3. ASSUME PhaseOf(q) \notin {"gone", "absent"}
      PROVE  q \in Admitted /\ program'[q] = program[q]
  <2>1. q \in Admitted
    BY <1>1, <1>3 DEF PhaseOf
  <2>. QED
    BY <2>1, ProgramKept
<1>4. CASE View(q)' = View(q) \/ Halts(q)
  <2>1. PhaseOf(q) \notin {"gone", "absent"} /\ ImageOf(q)' = ImageOf(q) /\ PcOf(q)' = PcOf(q)
    BY <1>1, <1>4, Componentwise DEF Halts, Reaches
  <2>. QED
    BY <1>3, <2>1 DEF TameTo
<1>5. CASE GoesOn(q)
  <2>1. PhaseOf(q) \notin {"gone", "absent"}
    BY <1>5 DEF GoesOn, Reaches
  <2>. QED
    BY <1>3, <1>5, <2>1, TameGoesOn
<1>6. CASE Appears(q)
  <2>1. PcOf(q) = 0
    BY <1>6 DEF Appears, PhaseOf, PcOf
  <2>. QED
    BY <1>6, <2>1 DEF Appears
<1>. QED
  BY <1>1, <1>2, <1>4, <1>5, <1>6 DEF ViewStep

\* Programs that end, and keep to their words, go on doing so.
LEMMA TameNext ==
    ASSUME WellWritten, Sound, Sound', [Next]_vars, PrivateStep, Tame
    PROVE  Tame'
<1>. SUFFICES ASSUME NEW q \in Admitted' PROVE TameOne(q)'
  BY DEF Tame, TameOne, TameTo
<1>1. CASE Appears(q) /\ PcOf(q)' = 0 /\ ImageOf(q)' = OriginOf(q)'
  <2>1. program'[q] \in FileContents /\ program'[q].found_text
    BY RunningNext DEF RunsFiles
  <2>2. PICK s \in 0 .. total_words(program'[q]) - 1 : EndsAt(program'[q], s)
    BY <2>1 DEF WellWritten
  <2>3. TameTo(q, s)'
    BY <1>1, <2>2, StartingNext DEF StartsTame
  <2>. QED
    BY <2>2, <2>3 DEF TameOne
<1>2. CASE /\ q \in Admitted /\ program'[q] = program[q]
           /\ \A s \in 0 .. total_words(program[q]) - 1 : TameTo(q, s) => TameTo(q, s)'
  <2>1. PICK s \in 0 .. total_words(program[q]) - 1 : TameTo(q, s)
    BY <1>2 DEF Tame, TameTo
  <2>2. TameTo(q, s)' /\ s \in 0 .. total_words(program'[q]) - 1
    BY <1>2, <2>1
  <2>. QED
    BY <2>2 DEF TameOne
<1>. QED
  BY <1>1, <1>2, TameToNext

Orderly == Sound /\ Faithful /\ Tame

\* Nothing is admitted at first.
LEMMA OrderlyInit == Init => Orderly
<1>1. Init => Sound /\ Faithful
  BY SoundInit, FaithfulInit
<1>2. Init => Admitted = {}
  BY DEF Init, LoaderInit, Admitted, Pids
<1>. QED
  BY <1>1, <1>2 DEF Orderly, Tame

\* If every file is well written, the invariants need no other hypothesis.
LEMMA OrderlyAlways ==
    ASSUME Aligned, WellWritten
    PROVE  Spec => []Orderly
<1>1. Sound /\ Faithful /\ Tame /\ [Next]_vars => PcsInside'
  BY TamePcs
<1>2. Sound /\ Tame => KeepsInside
  BY TameKeepsInside
<1>3. Sound /\ KeepsInside /\ PcsInside' /\ [Next]_vars => Sound'
  BY SoundNext
<1>4. Sound /\ Sound' /\ Faithful /\ [Next]_vars => Faithful'
  BY FaithfulNext
<1>5. Sound /\ Sound' /\ Faithful /\ KeepsInside /\ [Next]_vars => PrivateStep
  BY StepIsPrivate
<1>6. Sound /\ Sound' /\ [Next]_vars /\ PrivateStep /\ Tame => Tame'
  BY TameNext
<1>7. Orderly /\ [Next]_vars => Orderly'
  BY <1>1, <1>2, <1>3, <1>4, <1>5, <1>6 DEF Orderly
<1>. QED
  BY <1>7, OrderlyInit, PTL DEF Spec

\* A program whose file is well written never fetches, reads or writes a word that
\* is not its own, although the MMU would let it: the loader, the page table and the
\* context switch bring it to the word that it is to execute next.
THEOREM WellWrittenKeepInside ==
    ASSUME Aligned, WellWritten
    PROVE  Spec => []KeepsInside
<1>1. Orderly => KeepsInside
  BY TameKeepsInside DEF Orderly
<1>. QED
  BY <1>1, OrderlyAlways, PTL

----------------------------------------------------------------------------
(* The programs that prometheus writes.                                    *)


\* A number that is given with quotient and remainder.
LEMMA QuotientIs ==
    ASSUME NEW n \in Nat \ {0}, NEW q \in Nat, NEW r \in 0 .. n - 1, NEW x, x = n * q + r
    PROVE  x \div n = q /\ x % n = r
BY Quotient

\* The fields that the generator puts into an instruction word.
LEMMA InstructionFields ==
    ASSUME NEW opcode \in 0 .. 15, NEW reg \in RegisterNumbers, NEW low \in 0 .. AddressSpace - 1
    PROVE  LET i == Instruction(opcode, reg, low)
           IN  extract_opcode(i) = opcode /\ extract_reg(i) = reg /\ extract_address(i) = low
<1>a. PICK i : i = Instruction(opcode, reg, low)
  OBVIOUS
<1>b. PICK n, a : n = NumRegisters /\ a = AddressSpace
  OBVIOUS
<1>1. n \in Nat \ {0} /\ a \in Nat \ {0} /\ reg \in 0 .. n - 1 /\ low \in 0 .. a - 1
  BY <1>b, Sizes DEF RegisterNumbers
<1>c. PICK m : m = n * opcode + reg
  OBVIOUS
<1>2. m \in Nat
  BY <1>1, <1>c
<1>3. i = a * m + low
  <2>1. i = (opcode * n + reg) * a + low
    BY <1>a, <1>b DEF Instruction
  <2>2. opcode * n + reg = m
    BY <1>1, <1>c
  <2>. QED
    BY <2>1, <2>2, <1>1, <1>2
<1>4. i \div a = m /\ i % a = low /\ i \in Nat
  <2>1. i \in Nat
    BY <1>1, <1>2, <1>3
  <2>. QED
    BY <2>1, <1>1, <1>2, <1>3, QuotientIs
<1>5. m \div n = opcode /\ m % n = reg
  <2>1. opcode \in Nat
    OBVIOUS
  <2>. QED
    BY <2>1, <1>1, <1>c, QuotientIs
<1>6. i \div (n * a) = (i \div a) \div n
  BY <1>1, <1>4, QuotientOfQuotient
<1>. QED
  BY <1>a, <1>b, <1>4, <1>5, <1>6 DEF extract_opcode, extract_reg, extract_address

\* The sources of an ADD.
LEMMA SourceFields ==
    ASSUME NEW r1 \in RegisterNumbers, NEW r2 \in RegisterNumbers, NEW opcode \in 0 .. 15, NEW reg \in RegisterNumbers
    PROVE  LET i == Instruction(opcode, reg, Sources(r1, r2))
           IN  /\ Sources(r1, r2) \in 0 .. AddressSpace - 1
               /\ extract_reg_src1(i) = r1 /\ extract_reg_src2(i) = r2
<1>a. PICK n, a : n = NumRegisters /\ a = AddressSpace
  OBVIOUS
<1>b. PICK k : k = a \div (n * n)
  OBVIOUS
<1>c. PICK low : low = Sources(r1, r2)
  OBVIOUS
<1>1. n \in Nat \ {0} /\ a \in Nat \ {0} /\ r1 \in 0 .. n - 1 /\ r2 \in 0 .. n - 1
  BY <1>a, Sizes DEF RegisterNumbers
<1>2. k \in Nat /\ a = (n * n) * k
  <2>1. a % (n * n) = 0
    BY <1>a, InstructionAssumption
  <2>2. n * n \in Nat \ {0}
    BY <1>1
  <2>3. k \in Nat /\ a = (n * n) * k + (a % (n * n))
    BY <1>1, <1>b, <2>2, Division
  <2>. QED
    BY <2>1, <2>2, <2>3
<1>3. k > 0 /\ k \in Nat \ {0}
  BY <1>1, <1>2
<1>4. a \div n = n * k /\ n * k \in Nat \ {0}
  <2>1. a = n * (n * k) + 0 /\ n * k \in Nat \ {0}
    BY <1>1, <1>2, <1>3
  <2>2. 0 \in 0 .. n - 1
    BY <1>1
  <2>. QED
    BY <2>1, <2>2, <1>1, QuotientIs
<1>d. PICK y : y = n * k
  OBVIOUS
<1>e. PICK z : z = k * r2
  OBVIOUS
<1>5. y \in Nat \ {0} /\ z \in 0 .. y - 1
  <2>1. k * r2 <= k * (n - 1) /\ k * (n - 1) = n * k - k /\ k * r2 \in Nat
    BY <1>1, <1>3
  <2>. QED
    BY <2>1, <1>d, <1>e, <1>3, <1>4
<1>6. low = y * r1 + z
  <2>1. low = r1 * (a \div n) + r2 * k
    BY <1>a, <1>b, <1>c, <1>2 DEF Sources
  <2>. QED
    BY <2>1, <1>d, <1>e, <1>1, <1>3, <1>4, <1>5
<1>7. low \div y = r1 /\ low \in Nat
  <2>1. low \in Nat /\ r1 \in Nat
    BY <1>1, <1>5, <1>6
  <2>. QED
    BY <2>1, <1>5, <1>6, QuotientIs
<1>8. low < a
  <2>1. y * r1 <= y * (n - 1) /\ y * (n - 1) = y * n - y
    BY <1>1, <1>5
  <2>2. y * n = a
    BY <1>d, <1>1, <1>2, <1>3
  <2>. QED
    BY <2>1, <2>2, <1>1, <1>5, <1>6
<1>9. (low \div k) % n = r2
  <2>1. low = k * (n * r1 + r2) + 0 /\ n * r1 + r2 \in Nat
    BY <1>d, <1>e, <1>1, <1>3, <1>6
  <2>2. low \div k = n * r1 + r2
    <3>1. 0 \in 0 .. k - 1
      BY <1>3
    <3>. QED
      BY <3>1, <2>1, <1>3, QuotientIs
  <2>3. r1 \in Nat /\ r2 \in 0 .. n - 1
    BY <1>1
  <2>. QED
    BY <2>2, <2>3, <1>1, QuotientIs
<1>10. extract_address(Instruction(opcode, reg, low)) = low /\ low \in 0 .. AddressSpace - 1
  <2>1. low \in 0 .. AddressSpace - 1
    BY <1>a, <1>1, <1>7, <1>8
  <2>. QED
    BY <2>1, InstructionFields
<1>. QED
  BY <1>a, <1>b, <1>c, <1>d, <1>4, <1>7, <1>9, <1>10 DEF extract_reg_src1, extract_reg_src2

\* The sections of a generated file.
LEMMA DrawnSections ==
    ASSUME NEW d \in Draws
    PROVE  LET f == ElfFile(d)
               c == code_words(d)
               m == data_size(d)
           IN  /\ f \in FileContents /\ f.found_text /\ HasDataSection(f)
               /\ Len(d.blocks) \in Nat /\ c = 4 * Len(d.blocks) + 1 /\ c \in Nat /\ m \in Nat \ {0}
               /\ code_size(f) = c /\ code_end_word(f) = c /\ data_start_word(f) = c
               /\ total_words(f) = c + m /\ WORD_SIZE * (c + m) <= AddressSpace
               /\ data_start(d) = WORD_SIZE * c
               /\ \A w \in 0 .. c - 1 : LinkedImage(f, w) = Code(d)[w + 1]
               /\ \A v \in 1 .. m : LinkedImage(f, c + v - 1) = d.data[v]
<1>a. PICK f, c, m : f = ElfFile(d) /\ c = code_words(d) /\ m = data_size(d)
  OBVIOUS
<1>1. IsDraw(d) /\ f \in FileContents
  BY <1>a, ExecutionAssumption
<1>2. /\ Len(d.blocks) \in Nat /\ c = 4 * Len(d.blocks) + 1 /\ c \in Nat \ {0}
      /\ d.data \in Seq(Word) /\ m = Len(d.data) /\ m \in Nat \ {0}
  <2>1. d.blocks \in Seq([reg1 : RegisterNumbers, var : Nat]) /\ d.data \in Seq(Word) /\ d.data # <<>>
    BY <1>1 DEF IsDraw
  <2>2. Len(d.blocks) \in Nat /\ Len(d.data) \in Nat /\ Len(d.data) # 0
    BY <2>1, LenProperties, EmptySeq
  <2>. QED
    BY <1>a, <2>1, <2>2 DEF code_words, data_size
<1>n. c \in Nat /\ m \in Nat /\ c > 0 /\ m > 0
  BY <1>2
<1>3. data_start(d) = 4 * c /\ WORD_SIZE = 4
  <2>1. c * 4 = 4 * c
    BY <1>n
  <2>. QED
    BY <1>a, <2>1 DEF data_start, WORD_SIZE
<1>4. f.found_text /\ f.text = 0 /\ f.data = 4 * c /\ f.words = Code(d) \o d.data /\ f.found_data
  BY <1>a, <1>3 DEF ElfFile
<1>5. /\ Len(f.words) = c + m
      /\ \A i \in 1 .. c : f.words[i] = Code(d)[i]
      /\ \A i \in 1 .. m : f.words[c + i] = d.data[i]
  <2>. DEFINE S == {Code(d)[i] : i \in 1 .. c} \cup Word
  <2>1. Code(d) \in [1 .. c -> S]
    BY <1>a DEF Code
  <2>2. Code(d) \in Seq(S) /\ d.data \in Seq(S)
    BY <2>1, <1>2, SeqDef
  <2>3. Len(Code(d)) = c
    BY <2>1, <2>2, <1>2, LenProperties
  <2>. HIDE DEF S
  <2>4. /\ Len(Code(d) \o d.data) = c + m
        /\ \A i \in 1 .. c + m : (Code(d) \o d.data)[i] = IF i <= c THEN Code(d)[i] ELSE d.data[i - c]
    <3>1. ASSUME NEW T, NEW s1 \in Seq(T), NEW s2 \in Seq(T), Len(s1) = c, Len(s2) = m
          PROVE  /\ Len(s1 \o s2) = c + m
                 /\ \A i \in 1 .. c + m : (s1 \o s2)[i] = IF i <= c THEN s1[i] ELSE s2[i - c]
      BY <3>1, ConcatProperties
    <3>2. m = Len(d.data)
      BY <1>2
    <3>. QED
      BY <2>2, <2>3, <3>1, <3>2
  <2>5. \A i \in 1 .. m : c + i \in 1 .. c + m /\ ~(c + i <= c) /\ (c + i) - c = i
    BY <1>n
  <2>6. \A i \in 1 .. c : i \in 1 .. c + m /\ i <= c
    BY <1>n
  <2>. QED
    BY <1>4, <2>4, <2>5, <2>6
<1>6. HasDataSection(f) /\ code_size(f) = c /\ code_start_word(f) = 0 /\ data_start_word(f) = c
  <2>1. (4 * c) \div 4 = c /\ 4 * c > 0 /\ 4 * c - 0 = 4 * c /\ 0 \div 4 = 0
    BY <1>n
  <2>2. HasDataSection(f)
    BY <1>4, <2>1 DEF HasDataSection
  <2>. QED
    BY <1>3, <1>4, <2>1, <2>2 DEF code_size, code_start_word, data_start_word
<1>7. data_words(f) = m
  <2>. PICK n : n = WordModulus
    OBVIOUS
  <2>a. PICK x : x = c + m + n - c
    OBVIOUS
  <2>1. c + m < n /\ n \in Nat \ {0}
    BY <1>1, <1>4, <1>5, LoaderAssumption, Sizes DEF FileAssumptionOn
  <2>2. data_words(f) = x % n
    BY <2>a, <1>5, <1>6 DEF data_words
  <2>3. x = n * 1 + m /\ m \in 0 .. n - 1
    BY <2>a, <1>n, <2>1
  <2>4. x % n = m
    <3>1. 1 \in Nat /\ n \in Nat \ {0} /\ m \in 0 .. n - 1
      BY <2>1, <2>3
    <3>2. (n * 1 + m) % n = m
      BY <3>1, Quotient, Zenon
    <3>. QED
      BY <2>3, <3>2
  <2>. QED
    BY <2>2, <2>4
<1>8. total_words(f) = c + m /\ code_end_word(f) = c
  <2>1. code_end_word(f) = 0 + c /\ 0 + c = c
    BY <1>n, <1>6 DEF code_end_word
  <2>2. data_end_word(f) = c + m
    BY <1>6, <1>7 DEF data_end_word
  <2>3. c < c + m /\ c + m - 0 = c + m
    BY <1>n
  <2>. QED
    BY <1>6, <2>1, <2>2, <2>3 DEF total_words
<1>9. WORD_SIZE * (c + m) <= AddressSpace
  <2>1. (c + m) * WORD_SIZE <= AddressSpace
    BY <1>1, <1>4, <1>8, FileSizes
  <2>. QED
    BY <2>1, <1>n, <1>3
<1>10. \A w \in 0 .. c + m - 1 : LinkedImage(f, w) = f.words[w + 1]
  <2>1. \A w \in 0 .. c + m - 1 : 0 <= w /\ w < 0 + (c + m) /\ w - 0 + 1 = w + 1
    BY <1>n
  <2>2. f.text \div WORD_SIZE = 0
    BY <1>6 DEF code_start_word
  <2>. QED
    BY <2>1, <2>2, <1>5 DEF LinkedImage
<1>11. \A w \in 0 .. c - 1 : LinkedImage(f, w) = Code(d)[w + 1]
  <2>1. \A w \in 0 .. c - 1 : w \in 0 .. c + m - 1 /\ w + 1 \in 1 .. c
    BY <1>n
  <2>. QED
    BY <2>1, <1>5, <1>10
<1>12. \A v \in 1 .. m : LinkedImage(f, c + v - 1) = d.data[v]
  <2>1. \A v \in 1 .. m : c + v - 1 \in 0 .. c + m - 1 /\ c + v - 1 + 1 = c + v
    BY <1>n
  <2>. QED
    BY <2>1, <1>5, <1>10
<1>. QED
  BY <1>a, <1>1, <1>2, <1>3, <1>4, <1>6, <1>8, <1>9, <1>11, <1>12

\* A register number counted on from another one.
LEMMA RegisterCounted ==
    ASSUME NEW r \in RegisterNumbers, NEW k \in Nat
    PROVE  (r + k) % NumRegisters \in RegisterNumbers
<1>. PICK n : n = NumRegisters
  OBVIOUS
<1>1. n \in Nat \ {0} /\ r \in 0 .. n - 1
  BY Sizes DEF RegisterNumbers
<1>2. (r + k) % n \in 0 .. n - 1
  BY <1>1, Division
<1>. QED
  BY <1>2 DEF RegisterNumbers

\* The register that block b counts n on from its own.
RegOf(b, n) == (b.reg1 + n) % NumRegisters

\* Every register and every variable of a block is one of the program's.
LEMMA BlockRanges ==
    ASSUME NEW d \in Draws, NEW b \in [reg1 : RegisterNumbers, var : Nat]
    PROVE  /\ RegOf(b, 0) \in RegisterNumbers /\ RegOf(b, 1) \in RegisterNumbers /\ RegOf(b, 2) \in RegisterNumbers
           /\ Var(d, b.var) \in 0 .. data_size(d) - 1 /\ Var(d, b.var + 1) \in 0 .. data_size(d) - 1
           /\ Var(d, b.var + 2) \in 0 .. data_size(d) - 1
<1>1. RegOf(b, 0) \in RegisterNumbers /\ RegOf(b, 1) \in RegisterNumbers /\ RegOf(b, 2) \in RegisterNumbers
  BY RegisterCounted DEF RegOf
<1>2. data_size(d) \in Nat \ {0}
  BY DrawnSections
<1>3. b.var \in Nat /\ b.var + 1 \in Nat /\ b.var + 2 \in Nat
  OBVIOUS
<1>4. \A x \in Nat : x % data_size(d) \in 0 .. data_size(d) - 1
  BY <1>2, Division
<1>. QED
  BY <1>1, <1>3, <1>4 DEF Var

\* The word of a variable, as the address field of an instruction names it.
LEMMA VariableFields ==
    ASSUME NEW d \in Draws, NEW v \in Nat, NEW op \in {OP_LD, OP_ST}, NEW reg \in RegisterNumbers,
           Var(d, v) \in 0 .. data_size(d) - 1
    PROVE  LET i == Instruction(op, reg, VarAddr(d, v))
           IN  /\ extract_opcode(i) = op /\ extract_reg(i) = reg
               /\ extract_address(i) \div WORD_SIZE = code_words(d) + Var(d, v)
<1>a. PICK c, m, x, low : c = code_words(d) /\ m = data_size(d) /\ x = Var(d, v) /\ low = VarAddr(d, v)
  OBVIOUS
<1>1. /\ c \in Nat /\ m \in Nat \ {0} /\ WORD_SIZE * (c + m) <= AddressSpace /\ data_start(d) = WORD_SIZE * c
  BY <1>a, DrawnSections
<1>2. c \in Nat /\ m \in Nat /\ x \in Nat /\ x < m /\ AddressSpace \in Nat
  BY <1>a, <1>1, Sizes
<1>3. low = 4 * (c + x) /\ 4 * (c + m) <= AddressSpace
  <2>1. low = 4 * c + 4 * x /\ 4 * (c + m) <= AddressSpace
    BY <1>a, <1>1 DEF WORD_SIZE, VarAddr
  <2>2. 4 * c + 4 * x = 4 * (c + x)
    BY <1>2
  <2>. QED
    BY <2>1, <2>2
<1>4. low \in 0 .. AddressSpace - 1 /\ low \div 4 = c + x
  BY <1>2, <1>3
<1>5. op \in 0 .. 15
  BY DEF OP_LD, OP_ST
<1>. QED
  BY <1>a, <1>4, <1>5, InstructionFields DEF WORD_SIZE

\* The four instructions of a block.
LEMMA BlockFields ==
    ASSUME NEW d \in Draws, NEW b \in [reg1 : RegisterNumbers, var : Nat]
    PROVE  LET c == code_words(d)
               B == Block(d, b)
           IN  /\ extract_opcode(B[1]) = OP_LD /\ extract_reg(B[1]) = RegOf(b, 0)
               /\ extract_address(B[1]) \div WORD_SIZE = c + Var(d, b.var)
               /\ extract_opcode(B[2]) = OP_LD /\ extract_reg(B[2]) = RegOf(b, 1)
               /\ extract_address(B[2]) \div WORD_SIZE = c + Var(d, b.var + 1)
               /\ extract_opcode(B[3]) = OP_ADD /\ extract_reg(B[3]) = RegOf(b, 2)
               /\ extract_reg_src1(B[3]) = RegOf(b, 0) /\ extract_reg_src2(B[3]) = RegOf(b, 1)
               /\ extract_opcode(B[4]) = OP_ST /\ extract_reg(B[4]) = RegOf(b, 2)
               /\ extract_address(B[4]) \div WORD_SIZE = c + Var(d, b.var + 2)
<1>1. Block(d, b) = << Instruction(OP_LD, RegOf(b, 0), VarAddr(d, b.var)),
                       Instruction(OP_LD, RegOf(b, 1), VarAddr(d, b.var + 1)),
                       Instruction(OP_ADD, RegOf(b, 2), Sources(RegOf(b, 0), RegOf(b, 1))),
                       Instruction(OP_ST, RegOf(b, 2), VarAddr(d, b.var + 2)) >>
  BY DEF Block, RegOf
<1>2. b.var \in Nat /\ b.var + 1 \in Nat /\ b.var + 2 \in Nat
  OBVIOUS
<1>3. /\ OP_LD \in {OP_LD, OP_ST} /\ OP_ST \in {OP_LD, OP_ST} /\ OP_ADD \in 0 .. 15
  BY DEF OP_ADD
<1>4. LET i == Instruction(OP_ADD, RegOf(b, 2), Sources(RegOf(b, 0), RegOf(b, 1)))
      IN  /\ extract_opcode(i) = OP_ADD /\ extract_reg(i) = RegOf(b, 2)
          /\ extract_reg_src1(i) = RegOf(b, 0) /\ extract_reg_src2(i) = RegOf(b, 1)
  BY <1>3, BlockRanges, SourceFields, InstructionFields
<1>5. LET i == Instruction(OP_LD, RegOf(b, 0), VarAddr(d, b.var))
      IN  /\ extract_opcode(i) = OP_LD /\ extract_reg(i) = RegOf(b, 0)
          /\ extract_address(i) \div WORD_SIZE = code_words(d) + Var(d, b.var)
  BY <1>2, <1>3, BlockRanges, VariableFields
<1>6. LET i == Instruction(OP_LD, RegOf(b, 1), VarAddr(d, b.var + 1))
      IN  /\ extract_opcode(i) = OP_LD /\ extract_reg(i) = RegOf(b, 1)
          /\ extract_address(i) \div WORD_SIZE = code_words(d) + Var(d, b.var + 1)
  BY <1>2, <1>3, BlockRanges, VariableFields
<1>7. LET i == Instruction(OP_ST, RegOf(b, 2), VarAddr(d, b.var + 2))
      IN  /\ extract_opcode(i) = OP_ST /\ extract_reg(i) = RegOf(b, 2)
          /\ extract_address(i) \div WORD_SIZE = code_words(d) + Var(d, b.var + 2)
  BY <1>2, <1>3, BlockRanges, VariableFields
<1>. QED
  BY <1>1, <1>4, <1>5, <1>6, <1>7

\* The words of the code: block after block.
LEMMA CodeWord ==
    ASSUME NEW d \in Draws, NEW q \in Nat, NEW r \in 0 .. 3, q < Len(d.blocks)
    PROVE  /\ d.blocks[q + 1] \in [reg1 : RegisterNumbers, var : Nat]
           /\ Code(d)[4 * q + r + 1] = Block(d, d.blocks[q + 1])[r + 1]
<1>a. PICK c, l, w : c = code_words(d) /\ l = Len(d.blocks) /\ w = 4 * q + r
  OBVIOUS
<1>1. l \in Nat /\ c = 4 * l + 1
  BY <1>a, DrawnSections
<1>2. q < l
  BY <1>a
<1>3. w + 1 \in 1 .. c /\ w + 1 # c /\ w + 1 - 1 = w /\ q + 1 \in 1 .. l
  <2>1. w = 4 * q + r
    BY <1>a
  <2>. QED
    BY <2>1, <1>1, <1>2
<1>4. w \div 4 = q /\ w % 4 = r
  <2>1. q \in Nat /\ r \in 0 .. 3 /\ w = 4 * q + r
    BY <1>a
  <2>. QED
    BY <2>1
<1>5. d.blocks[q + 1] \in [reg1 : RegisterNumbers, var : Nat]
  <2>1. d.blocks \in Seq([reg1 : RegisterNumbers, var : Nat])
    BY ExecutionAssumption DEF IsDraw
  <2>. QED
    BY <2>1, <1>3, <1>a, ElementOfSeq
<1>6. Code(d)[w + 1] = Block(d, d.blocks[(w \div 4) + 1])[(w % 4) + 1]
  BY <1>a, <1>3 DEF Code
<1>. QED
  BY <1>a, <1>4, <1>5, <1>6

\* The last word of the code.
LEMMA CodeEnd ==
    ASSUME NEW d \in Draws
    PROVE  extract_opcode(Code(d)[code_words(d)]) = OP_EXIT
<1>1. code_words(d) \in 1 .. code_words(d)
  <2>1. code_words(d) = 4 * Len(d.blocks) + 1 /\ Len(d.blocks) \in Nat
    BY DrawnSections
  <2>. QED
    BY <2>1
<1>2. Code(d)[code_words(d)] = Instruction(OP_EXIT, 0, 0)
  BY <1>1 DEF Code
<1>3. OP_EXIT \in 0 .. 15 /\ 0 \in RegisterNumbers /\ 0 \in 0 .. AddressSpace - 1
  BY Sizes DEF RegisterNumbers, OP_EXIT
<1>. QED
  BY <1>2, <1>3, InstructionFields

\* The instructions of a generated program: an EXIT at the end, and before it loads and
\* stores of its variables, which lie behind the EXIT, and additions.
LEMMA DrawnCode ==
    ASSUME NEW d \in Draws, NEW w \in 0 .. code_words(d) - 1
    PROVE  LET i == Code(d)[w + 1]
               c == code_words(d)
           IN  IF w = c - 1 THEN extract_opcode(i) = OP_EXIT
               ELSE /\ extract_opcode(i) \in {OP_LD, OP_ST, OP_ADD}
                    /\ extract_opcode(i) \in {OP_LD, OP_ST} =>
                          \E v \in 0 .. data_size(d) - 1 : extract_address(i) \div WORD_SIZE = c + v
<1>a. PICK c, l, q, r : c = code_words(d) /\ l = Len(d.blocks) /\ q = w \div 4 /\ r = w % 4
  OBVIOUS
<1>1. l \in Nat /\ c = 4 * l + 1
  BY <1>a, DrawnSections
<1>2. w \in Nat /\ w < c
  <2>1. w \in 0 .. c - 1
    BY <1>a
  <2>. QED
    BY <2>1, <1>1
<1>3. q \in Nat /\ r \in 0 .. 3 /\ w = 4 * q + r
  <2>1. 4 \in Nat \ {0} /\ 4 - 1 = 3
    OBVIOUS
  <2>. QED
    BY <2>1, <1>a, <1>2, Division
<1>4. CASE w = c - 1
  <2>1. w + 1 = c
    BY <1>1, <1>4
  <2>. QED
    BY <2>1, <1>a, <1>4, CodeEnd
<1>5. CASE w # c - 1
  <2>1. q < l
    BY <1>1, <1>2, <1>3, <1>5
  <2>b. PICK b : b = d.blocks[q + 1]
    OBVIOUS
  <2>2. b \in [reg1 : RegisterNumbers, var : Nat] /\ Code(d)[w + 1] = Block(d, b)[r + 1]
    <3>1. q < Len(d.blocks)
      BY <1>a, <2>1
    <3>2. /\ d.blocks[q + 1] \in [reg1 : RegisterNumbers, var : Nat]
          /\ Code(d)[4 * q + r + 1] = Block(d, d.blocks[q + 1])[r + 1]
      BY <3>1, <1>3, CodeWord
    <3>. QED
      BY <3>2, <1>3, <2>b
  <2>3. OP_ADD \notin {OP_LD, OP_ST}
    BY DEF OP_ADD, OP_LD, OP_ST
  <2>4. r = 0 \/ r = 1 \/ r = 2 \/ r = 3
    BY <1>3
  <2>5. 0 + 1 = 1 /\ 1 + 1 = 2 /\ 2 + 1 = 3 /\ 3 + 1 = 4
    OBVIOUS
  <2>. QED
    BY <1>a, <1>5, <2>2, <2>3, <2>4, <2>5, BlockRanges, BlockFields
<1>. QED
  BY <1>4, <1>5

\* A generated file has its sections side by side, and the EXIT ends its program.
LEMMA DrawnWellWritten ==
    ASSUME NEW d \in Draws
    PROVE  LET f == ElfFile(d)
           IN  /\ data_start_word(f) = code_end_word(f)
               /\ code_words(d) - 1 \in 0 .. total_words(f) - 1 /\ EndsAt(f, code_words(d) - 1)
<1>a. PICK f, c, m : f = ElfFile(d) /\ c = code_words(d) /\ m = data_size(d)
  OBVIOUS
<1>1. /\ Len(d.blocks) \in Nat /\ c = 4 * Len(d.blocks) + 1 /\ m \in Nat \ {0}
      /\ data_start_word(f) = code_end_word(f) /\ total_words(f) = c + m
      /\ \A w \in 0 .. c - 1 : LinkedImage(f, w) = Code(d)[w + 1]
  BY <1>a, DrawnSections
<1>2. c \in Nat /\ c > 0 /\ m \in Nat /\ m > 0
  BY <1>1
<1>3. c - 1 \in 0 .. c + m - 1 /\ c - 1 \in 0 .. c - 1
  BY <1>2
<1>4. extract_opcode(LinkedImage(f, c - 1)) = OP_EXIT
  BY <1>a, <1>1, <1>3, DrawnCode
<1>5. OP_EXIT \notin {OP_LD, OP_ST, OP_ADD}
  BY DEF OP_EXIT, OP_LD, OP_ST, OP_ADD
<1>6. ASSUME NEW w \in 0 .. c - 1, extract_opcode(LinkedImage(f, w)) \in {OP_LD, OP_ST}
      PROVE  /\ extract_address(LinkedImage(f, w)) \div WORD_SIZE < c + m
             /\ c - 1 < extract_address(LinkedImage(f, w)) \div WORD_SIZE
  <2>1. LinkedImage(f, w) = Code(d)[w + 1]
    BY <1>1
  <2>2. w # c - 1
    BY <1>4, <1>5, <1>6
  <2>3. PICK v \in 0 .. m - 1 : extract_address(LinkedImage(f, w)) \div WORD_SIZE = c + v
    BY <1>a, <1>6, <2>1, <2>2, DrawnCode
  <2>4. c + v < c + m /\ c - 1 < c + v
    BY <1>2
  <2>. QED
    BY <2>3, <2>4
<1>7. EndsAt(f, c - 1)
  BY <1>1, <1>4, <1>5, <1>6 DEF EndsAt
<1>. QED
  BY <1>a, <1>1, <1>3, <1>7

----------------------------------------------------------------------------
(* What those programs compute.                                            *)

\* The recursive function AfterBlocks exists, as it does for a first blocks more if it
\* does for one less, and gives each block what the one before has left.
LEMMA BlocksAfter ==
    ASSUME NEW d \in Draws
    PROVE  /\ AfterBlocks(d)[0] = d.data
           /\ \A i \in 1 .. Len(d.blocks) : AfterBlocks(d)[i] = BlockSum(d, AfterBlocks(d)[i - 1], i)
<1>. DEFINE L == Len(d.blocks)
            F(f, n) == [i \in 0 .. n |-> IF i = 0 THEN d.data ELSE BlockSum(d, f[i - 1], i)]
            T == {n \in 0 .. L : ~\E f : f = F(f, n)}
            after == CHOOSE f : f = F(f, L)
<1>1. L \in Nat
  BY DrawnSections
<1>2. T = {}
  <2>1. SUFFICES ASSUME T # {}
                 PROVE  FALSE
    OBVIOUS
  <2>. HIDE DEF L
  <2>2. T \in SUBSET Nat
    OBVIOUS
  <2>3. PICK n \in T : \A y \in T : n <= y
    BY <2>1, <2>2, LeastNat
  <2>4. CASE n = 0
    <3>. DEFINE g == [i \in 0 .. 0 |-> d.data]
    <3>1. g = F(g, 0)
      OBVIOUS
    <3>. QED
      BY <2>3, <2>4, <3>1
  <2>5. CASE n # 0
    <3>1. n \in Nat /\ n - 1 \in 0 .. L /\ n - 1 \notin T
      <4>1. n \in 0 .. L
        BY <2>3
      <4>. HIDE DEF T
      <4>2. n \in Nat /\ n - 1 \in 0 .. L /\ ~(n <= n - 1)
        BY <1>1, <2>5, <4>1
      <4>. QED
        BY <2>3, <4>2
    <3>2. PICK g : g = F(g, n - 1)
      BY <3>1
    <3>. DEFINE h == [i \in 0 .. n |-> IF i = n THEN BlockSum(d, g[n - 1], n) ELSE g[i]]
    <3>3. \A i \in 0 .. n : h[i] = IF i = 0 THEN d.data ELSE BlockSum(d, h[i - 1], i)
      <4>. TAKE i \in 0 .. n
      <4>1. CASE i = n
        <5>1. h[n - 1] = g[n - 1]
          BY <3>1, <2>5
        <5>. QED
          BY <4>1, <5>1, <2>5
      <4>2. CASE i # n
        <5>1. i \in 0 .. n - 1
          BY <3>1, <4>2
        <5>2. h[i] = g[i] /\ g[i] = IF i = 0 THEN d.data ELSE BlockSum(d, g[i - 1], i)
          BY <3>2, <4>2, <5>1
        <5>3. i # 0 => h[i - 1] = g[i - 1]
          BY <3>1, <4>2, <5>1
        <5>. QED
          BY <5>2, <5>3
      <4>. QED
        BY <4>1, <4>2
    <3>. HIDE DEF h
    <3>4. F(h, n) = [i \in 0 .. n |-> h[i]]
      BY <3>3
    <3>5. h = [i \in 0 .. n |-> h[i]]
      BY DEF h
    <3>. QED
      BY <2>3, <3>4, <3>5
  <2>. QED
    BY <2>4, <2>5
<1>3. after = F(after, L)
  <2>1. L \in 0 .. L
    BY <1>1
  <2>. QED
    BY <1>2, <2>1
<1>4. AfterBlocks(d) = after
  BY DEF AfterBlocks
<1>. HIDE DEF after
<1>5. \A i \in 1 .. L : i \in 0 .. L /\ i # 0
  BY <1>1
<1>6. 0 \in 0 .. L
  BY <1>1
<1>. QED
  BY <1>3, <1>4, <1>5, <1>6

\* There are as many variables after any block as before the first.
LEMMA BlocksKeepVariables ==
    ASSUME NEW d \in Draws, NEW q \in 0 .. Len(d.blocks)
    PROVE  DOMAIN AfterBlocks(d)[q] = 1 .. data_size(d)
<1>. DEFINE L == Len(d.blocks)
            T == {i \in 0 .. L : DOMAIN AfterBlocks(d)[i] # 1 .. data_size(d)}
<1>1. L \in Nat
  BY DrawnSections
<1>2. DOMAIN d.data = 1 .. data_size(d)
  BY ExecutionAssumption, LenProperties DEF IsDraw, data_size
<1>3. \A i, x : DOMAIN BlockSum(d, x, i) = DOMAIN x
  BY DEF BlockSum
<1>4. T = {}
  <2>1. SUFFICES ASSUME T # {}
                 PROVE  FALSE
    OBVIOUS
  <2>. HIDE DEF L
  <2>2. T \in SUBSET Nat
    OBVIOUS
  <2>3. PICK n \in T : \A y \in T : n <= y
    BY <2>1, <2>2, LeastNat
  <2>4. n # 0
    BY <1>2, <2>3, BlocksAfter
  <2>5. n \in 1 .. L /\ n - 1 \in 0 .. L /\ n - 1 \notin T
    BY <1>1, <2>3, <2>4
  <2>6. AfterBlocks(d)[n] = BlockSum(d, AfterBlocks(d)[n - 1], n)
    BY <2>5, BlocksAfter DEF L
  <2>. QED
    BY <1>3, <2>3, <2>5, <2>6
<1>. QED
  BY <1>4

\* An instruction i, executed.
Executed(i, image, registers, image2, registers2) ==
    LET operand == extract_address(i) \div WORD_SIZE
    IN  \/ /\ extract_opcode(i) = OP_LD /\ image2 = image
           /\ registers2 = [registers EXCEPT ![extract_reg(i)] = image[operand]]
        \/ /\ extract_opcode(i) = OP_ST /\ registers2 = registers
           /\ image2 = [image EXCEPT ![operand] = registers[extract_reg(i)]]
        \/ /\ extract_opcode(i) = OP_ADD /\ image2 = image
           /\ registers2 = [registers EXCEPT ![extract_reg(i)] =
                 Sum32(registers[extract_reg_src1(i)], registers[extract_reg_src2(i)])]

\* The code of d is in place, and the variables are those before block q + 1.
Holding(d, image, q) ==
    LET c == code_words(d)
    IN  /\ 0 .. c + data_size(d) - 1 \subseteq DOMAIN image
        /\ \A w \in 0 .. c - 1 : image[w] = Code(d)[w + 1]
        /\ \A v \in 0 .. data_size(d) - 1 : image[c + v] = AfterBlocks(d)[q][v + 1]

\* After r instructions of block b the registers hold what they have loaded and added.
Gathered(d, b, variables, registers, r) ==
    /\ r \in {1, 2} => registers[RegOf(b, 0)] = variables[Var(d, b.var) + 1]
    /\ r = 2 => registers[RegOf(b, 1)] = variables[Var(d, b.var + 1) + 1]
    /\ r = 3 => registers[RegOf(b, 2)] = Sum32(variables[Var(d, b.var) + 1], variables[Var(d, b.var + 1) + 1])

\* Blocks done, and instructions done of the next one.
SumsTo(d, image, registers, q, r) ==
    /\ q \in 0 .. Len(d.blocks) /\ r \in 0 .. 3 /\ (r # 0 => q < Len(d.blocks))
    /\ DOMAIN registers = RegisterNumbers
    /\ Holding(d, image, q)
    /\ Gathered(d, d.blocks[q + 1], AfterBlocks(d)[q], registers, r)

\* Two neighbouring registers are two registers.
LEMMA TwoRegisters ==
    ASSUME NumRegisters > 1, NEW b \in [reg1 : RegisterNumbers, var : Nat]
    PROVE  RegOf(b, 0) # RegOf(b, 1)
<1>. PICK n, x : n = NumRegisters /\ x = b.reg1
  OBVIOUS
<1>1. n \in Nat /\ n > 1 /\ x \in 0 .. n - 1
  BY Sizes DEF RegisterNumbers
<1>2. (x + 0) % n = x
  <2>1. x + 0 = n * 0 + x /\ 0 \in Nat /\ n \in Nat \ {0}
    BY <1>1
  <2>. QED
    BY <2>1, <1>1, QuotientIs
<1>3. (x + 1) % n # x
  <2>1. CASE x < n - 1
    <3>1. x + 1 = n * 0 + (x + 1) /\ 0 \in Nat /\ n \in Nat \ {0} /\ x + 1 \in 0 .. n - 1
      BY <1>1, <2>1
    <3>2. (x + 1) % n = x + 1
      BY <3>1, QuotientIs
    <3>. QED
      BY <3>2, <1>1
  <2>2. CASE x = n - 1
    <3>1. x + 1 = n * 1 + 0 /\ 1 \in Nat /\ n \in Nat \ {0} /\ 0 \in 0 .. n - 1
      BY <1>1, <2>2
    <3>2. (x + 1) % n = 0
      BY <3>1, QuotientIs
    <3>. QED
      BY <3>2, <1>1, <2>2
  <2>. QED
    BY <1>1, <2>1, <2>2
<1>. QED
  BY <1>2, <1>3 DEF RegOf

\* The instruction after r instructions of block q + 1.
LEMMA NextWord ==
    ASSUME NEW d \in Draws, NEW image, NEW registers, NEW q, NEW r, SumsTo(d, image, registers, q, r)
    PROVE  /\ q \in Nat /\ r \in 0 .. 3 /\ 4 * q + r \in 0 .. code_words(d) - 1
           /\ image[4 * q + r] = Code(d)[4 * q + r + 1]
           /\ q < Len(d.blocks) => image[4 * q + r] = Block(d, d.blocks[q + 1])[r + 1]
           /\ ~(q < Len(d.blocks)) =>
                 4 * q + r = code_words(d) - 1 /\ extract_opcode(image[4 * q + r]) = OP_EXIT
<1>a. PICK c, l, w : c = code_words(d) /\ l = Len(d.blocks) /\ w = 4 * q + r
  OBVIOUS
<1>1. l \in Nat /\ c = 4 * l + 1
  BY <1>a, DrawnSections
<1>2. q \in 0 .. l /\ r \in 0 .. 3 /\ (r # 0 => q < l) /\ Holding(d, image, q)
  BY <1>a DEF SumsTo
<1>3. q \in Nat /\ w \in 0 .. c - 1 /\ (~(q < l) => w = c - 1) /\ w + 1 \in Nat
  <2>1. w = 4 * q + r
    BY <1>a
  <2>. QED
    BY <2>1, <1>1, <1>2
<1>4. image[w] = Code(d)[w + 1]
  BY <1>a, <1>2, <1>3 DEF Holding
<1>5. ASSUME q < l PROVE image[w] = Block(d, d.blocks[q + 1])[r + 1]
  <2>1. Code(d)[4 * q + r + 1] = Block(d, d.blocks[q + 1])[r + 1]
    BY <1>a, <1>2, <1>3, <1>5, CodeWord
  <2>. QED
    BY <2>1, <1>4, <1>a
<1>6. ASSUME ~(q < l) PROVE w = c - 1 /\ extract_opcode(image[w]) = OP_EXIT
  <2>1. w = c - 1 /\ w + 1 = c
    BY <1>1, <1>3, <1>6
  <2>. QED
    BY <2>1, <1>a, <1>4, CodeEnd
<1>. QED
  BY <1>a, <1>2, <1>3, <1>4, <1>5, <1>6

\* An instruction of a generated program brings it one word on.
LEMMA SumsStep ==
    ASSUME NumRegisters > 1, NEW d \in Draws, NEW image, NEW registers, NEW image2, NEW registers2,
           NEW q, NEW r, SumsTo(d, image, registers, q, r),
           Executed(image[4 * q + r], image, registers, image2, registers2)
    PROVE  \E q2, r2 : 4 * q2 + r2 = 4 * q + r + 1 /\ SumsTo(d, image2, registers2, q2, r2)
<1>a. PICK c, m, l, b, x : /\ c = code_words(d) /\ m = data_size(d) /\ l = Len(d.blocks)
                           /\ b = d.blocks[q + 1] /\ x = AfterBlocks(d)[q]
  OBVIOUS
<1>b. PICK i : i = image[4 * q + r]
  OBVIOUS
<1>c. PICK v0, v1, v2 : v0 = Var(d, b.var) /\ v1 = Var(d, b.var + 1) /\ v2 = Var(d, b.var + 2)
  OBVIOUS
<1>d. PICK g0, g1, g2 : g0 = RegOf(b, 0) /\ g1 = RegOf(b, 1) /\ g2 = RegOf(b, 2)
  OBVIOUS
<1>1. l \in Nat /\ c \in Nat /\ m \in Nat
  BY <1>a, DrawnSections
<1>2. Executed(i, image, registers, image2, registers2)
  BY <1>b
<1>3. q < l
  <2>1. extract_opcode(i) \in {OP_LD, OP_ST, OP_ADD}
    BY <1>2 DEF Executed
  <2>2. OP_EXIT \notin {OP_LD, OP_ST, OP_ADD}
    BY DEF OP_EXIT, OP_LD, OP_ST, OP_ADD
  <2>. QED
    BY <1>a, <1>b, <2>1, <2>2, NextWord
<1>4. q \in Nat /\ r \in 0 .. 3 /\ i = Block(d, b)[r + 1]
  BY <1>a, <1>b, <1>3, NextWord
<1>5. b \in [reg1 : RegisterNumbers, var : Nat]
  <2>1. 0 \in 0 .. 3 /\ q < Len(d.blocks)
    BY <1>a, <1>3
  <2>. QED
    BY <2>1, <1>a, <1>4, CodeWord
<1>6. /\ g0 \in RegisterNumbers /\ g1 \in RegisterNumbers /\ g2 \in RegisterNumbers /\ g0 # g1
      /\ v0 \in 0 .. m - 1 /\ v1 \in 0 .. m - 1 /\ v2 \in 0 .. m - 1
  BY <1>a, <1>c, <1>d, <1>5, BlockRanges, TwoRegisters
<1>7. DOMAIN registers = RegisterNumbers /\ Holding(d, image, q) /\ Gathered(d, b, x, registers, r)
  BY <1>a DEF SumsTo
<1>8. \A v \in 0 .. m - 1 : image[c + v] = x[v + 1]
  BY <1>a, <1>7 DEF Holding
<1>9. q \in 0 .. l /\ q + 1 \in 0 .. l /\ q + 1 \in 1 .. l /\ q + 1 - 1 = q
  BY <1>1, <1>3, <1>4
<1>e. PICK o : o = extract_address(i) \div WORD_SIZE
  OBVIOUS
<1>10. OP_LD # OP_ST /\ OP_LD # OP_ADD /\ OP_ST # OP_ADD
  BY DEF OP_LD, OP_ST, OP_ADD
<1>11. CASE r = 0
  <2>1. extract_opcode(i) = OP_LD /\ extract_reg(i) = g0 /\ o = c + v0
    <3>1. i = Block(d, b)[1]
      BY <1>4, <1>11
    <3>. QED
      BY <3>1, <1>a, <1>c, <1>d, <1>e, <1>5, BlockFields
  <2>2. image2 = image /\ registers2 = [registers EXCEPT ![g0] = image[c + v0]]
    BY <2>1, <1>2, <1>e, <1>10 DEF Executed
  <2>3. registers2[g0] = x[v0 + 1] /\ DOMAIN registers2 = RegisterNumbers
    BY <2>2, <1>6, <1>7, <1>8
  <2>4. Gathered(d, b, x, registers2, 1)
    BY <2>3, <1>c, <1>d DEF Gathered
  <2>5. SumsTo(d, image2, registers2, q, 1)
    BY <1>a, <1>3, <1>7, <1>9, <2>2, <2>3, <2>4 DEF SumsTo
  <2>6. 4 * q + 1 = 4 * q + r + 1
    BY <1>4, <1>11
  <2>. QED
    BY <2>5, <2>6
<1>12. CASE r = 1
  <2>1. extract_opcode(i) = OP_LD /\ extract_reg(i) = g1 /\ o = c + v1
    <3>1. i = Block(d, b)[2]
      BY <1>4, <1>12
    <3>. QED
      BY <3>1, <1>a, <1>c, <1>d, <1>e, <1>5, BlockFields
  <2>2. image2 = image /\ registers2 = [registers EXCEPT ![g1] = image[c + v1]]
    BY <2>1, <1>2, <1>e, <1>10 DEF Executed
  <2>3. registers[g0] = x[v0 + 1]
    BY <1>c, <1>d, <1>7, <1>12 DEF Gathered
  <2>4. registers2[g0] = x[v0 + 1] /\ registers2[g1] = x[v1 + 1] /\ DOMAIN registers2 = RegisterNumbers
    BY <2>2, <2>3, <1>6, <1>7, <1>8
  <2>5. Gathered(d, b, x, registers2, 2)
    BY <2>4, <1>c, <1>d DEF Gathered
  <2>6. SumsTo(d, image2, registers2, q, 2)
    BY <1>a, <1>3, <1>7, <1>9, <2>2, <2>4, <2>5 DEF SumsTo
  <2>7. 4 * q + 2 = 4 * q + r + 1
    BY <1>4, <1>12
  <2>. QED
    BY <2>6, <2>7
<1>13. CASE r = 2
  <2>1. extract_opcode(i) = OP_ADD /\ extract_reg(i) = g2 /\ extract_reg_src1(i) = g0 /\ extract_reg_src2(i) = g1
    <3>1. i = Block(d, b)[3]
      BY <1>4, <1>13
    <3>. QED
      BY <3>1, <1>a, <1>d, <1>5, BlockFields
  <2>2. image2 = image /\ registers2 = [registers EXCEPT ![g2] = Sum32(registers[g0], registers[g1])]
    BY <2>1, <1>2, <1>10 DEF Executed
  <2>3. registers[g0] = x[v0 + 1] /\ registers[g1] = x[v1 + 1]
    BY <1>c, <1>d, <1>7, <1>13 DEF Gathered
  <2>4. registers2[g2] = Sum32(x[v0 + 1], x[v1 + 1]) /\ DOMAIN registers2 = RegisterNumbers
    BY <2>2, <2>3, <1>6, <1>7
  <2>5. Gathered(d, b, x, registers2, 3)
    BY <2>4, <1>c, <1>d DEF Gathered
  <2>6. SumsTo(d, image2, registers2, q, 3)
    BY <1>a, <1>3, <1>7, <1>9, <2>2, <2>4, <2>5 DEF SumsTo
  <2>7. 4 * q + 3 = 4 * q + r + 1
    BY <1>4, <1>13
  <2>. QED
    BY <2>6, <2>7
<1>14. CASE r = 3
  <2>1. extract_opcode(i) = OP_ST /\ extract_reg(i) = g2 /\ o = c + v2
    <3>1. i = Block(d, b)[4]
      BY <1>4, <1>14
    <3>. QED
      BY <3>1, <1>a, <1>c, <1>d, <1>e, <1>5, BlockFields
  <2>2. registers2 = registers /\ image2 = [image EXCEPT ![c + v2] = registers[g2]]
    BY <2>1, <1>2, <1>e, <1>10 DEF Executed
  <2>3. registers[g2] = Sum32(x[v0 + 1], x[v1 + 1])
    BY <1>c, <1>d, <1>7, <1>14 DEF Gathered
  <2>4. AfterBlocks(d)[q + 1] = [x EXCEPT ![v2 + 1] = Sum32(x[v0 + 1], x[v1 + 1])]
    BY <1>a, <1>c, <1>9, BlocksAfter DEF BlockSum
  <2>5. DOMAIN x = 1 .. m
    BY <1>a, <1>9, BlocksKeepVariables
  <2>6. DOMAIN image2 = DOMAIN image /\ c + v2 \in DOMAIN image
    <3>1. c + v2 \in 0 .. c + m - 1
      BY <1>1, <1>6
    <3>2. 0 .. c + m - 1 \subseteq DOMAIN image
      BY <1>a, <1>7 DEF Holding
    <3>. QED
      BY <3>1, <3>2, <2>2
  <2>7. ASSUME NEW w \in 0 .. c - 1 PROVE image2[w] = Code(d)[w + 1]
    <3>1. w # c + v2 /\ w \in 0 .. c + m - 1
      BY <1>1, <1>6
    <3>2. w \in DOMAIN image /\ image[w] = Code(d)[w + 1]
      BY <3>1, <1>a, <1>7 DEF Holding
    <3>. QED
      BY <3>1, <3>2, <2>2
  <2>8. ASSUME NEW v \in 0 .. m - 1 PROVE image2[c + v] = AfterBlocks(d)[q + 1][v + 1]
    <3>1. /\ c + v \in 0 .. c + m - 1 /\ v + 1 \in 1 .. m /\ v2 + 1 \in 1 .. m
          /\ (c + v = c + v2 <=> v = v2) /\ (v + 1 = v2 + 1 <=> v = v2)
      BY <1>1, <1>6
    <3>2. c + v \in DOMAIN image
      BY <3>1, <1>a, <1>7 DEF Holding
    <3>3. CASE v = v2
      BY <3>1, <3>3, <2>2, <2>3, <2>4, <2>5, <2>6
    <3>4. CASE v # v2
      BY <3>1, <3>2, <3>4, <2>2, <2>4, <2>5, <1>8
    <3>. QED
      BY <3>3, <3>4
  <2>9. Holding(d, image2, q + 1)
    BY <1>a, <1>7, <2>6, <2>7, <2>8 DEF Holding
  <2>10. Gathered(d, d.blocks[q + 1 + 1], AfterBlocks(d)[q + 1], registers2, 0)
    BY DEF Gathered
  <2>11. SumsTo(d, image2, registers2, q + 1, 0)
    BY <1>a, <1>7, <1>9, <2>2, <2>9, <2>10 DEF SumsTo
  <2>12. 4 * (q + 1) + 0 = 4 * q + r + 1
    BY <1>4, <1>14
  <2>. QED
    BY <2>11, <2>12
<1>. QED
  BY <1>4, <1>11, <1>12, <1>13, <1>14

\* A generated program in its own address space: where it is, and what it has summed.
SummingOne(p, d) ==
    \E q, r : /\ PcOf(p) = WORD_SIZE * (4 * q + r)
              /\ SumsTo(d, ImageOf(p), RegistersOf(p), q, r)
              /\ PhaseOf(p) = "halted" => q = Len(d.blocks)

Summing == \A p \in Admitted, d \in Draws : program[p] = ElfFile(d) => SummingOne(p, d)

\* The instruction of a view.
LEMMA SumsGoesOn ==
    ASSUME NumRegisters > 1, NEW p, NEW d \in Draws, SummingOne(p, d), GoesOn(p)
    PROVE  SummingOne(p, d)'
<1>1. PICK q, r : /\ PcOf(p) = WORD_SIZE * (4 * q + r)
                  /\ SumsTo(d, ImageOf(p), RegistersOf(p), q, r)
  BY DEF SummingOne
<1>2. q \in Nat /\ r \in 0 .. 3 /\ 4 * q + r \in Nat
  BY <1>1, NextWord
<1>3. CurrentInstruction(p) = ImageOf(p)[4 * q + r]
  BY <1>1, <1>2, WordOfPc DEF CurrentInstruction
<1>4. Executed(ImageOf(p)[4 * q + r], ImageOf(p), RegistersOf(p), ImageOf(p)', RegistersOf(p)')
  BY <1>3 DEF GoesOn, Computes, Executed, Operand, Target
<1>5. PICK q2, r2 : 4 * q2 + r2 = 4 * q + r + 1 /\ SumsTo(d, ImageOf(p)', RegistersOf(p)', q2, r2)
  BY <1>1, <1>4, SumsStep
<1>6. PcOf(p)' = WORD_SIZE * (4 * q2 + r2)
  <2>1. PcOf(p)' = WORD_SIZE * (4 * q + r) + WORD_SIZE
    BY <1>1 DEF GoesOn
  <2>2. WORD_SIZE * (4 * q + r) + WORD_SIZE = WORD_SIZE * (4 * q + r + 1)
    BY <1>2 DEF WORD_SIZE
  <2>. QED
    BY <1>5, <2>1, <2>2
<1>7. PhaseOf(p)' # "halted"
  BY DEF GoesOn
<1>8. SumsTo(d, ImageOf(p), RegistersOf(p), q2, r2)'
  BY <1>5 DEF SumsTo, Holding, Gathered
<1>. QED
  BY <1>6, <1>7, <1>8 DEF SummingOne

\* Only the EXIT ends a generated program.
LEMMA SumsHalts ==
    ASSUME NEW p, NEW d \in Draws, SummingOne(p, d), Halts(p)
    PROVE  SummingOne(p, d)'
<1>1. PICK q, r : /\ PcOf(p) = WORD_SIZE * (4 * q + r)
                  /\ SumsTo(d, ImageOf(p), RegistersOf(p), q, r)
  BY DEF SummingOne
<1>2. q \in Nat /\ r \in 0 .. 3 /\ 4 * q + r \in Nat
  BY <1>1, NextWord
<1>3. CurrentInstruction(p) = ImageOf(p)[4 * q + r]
  BY <1>1, <1>2, WordOfPc DEF CurrentInstruction
<1>4. q = Len(d.blocks)
  <2>1. SUFFICES ASSUME q < Len(d.blocks)
                 PROVE  FALSE
    BY <1>1, DrawnSections DEF SumsTo
  <2>2. CurrentInstruction(p) = Block(d, d.blocks[q + 1])[r + 1]
    BY <1>1, <1>3, <2>1, NextWord
  <2>3. d.blocks[q + 1] \in [reg1 : RegisterNumbers, var : Nat]
    BY <1>2, <2>1, CodeWord
  <2>4. extract_opcode(CurrentInstruction(p)) \in {OP_LD, OP_ST, OP_ADD}
    <3>1. r = 0 \/ r = 1 \/ r = 2 \/ r = 3
      BY <1>2
    <3>2. 0 + 1 = 1 /\ 1 + 1 = 2 /\ 2 + 1 = 3 /\ 3 + 1 = 4
      OBVIOUS
    <3>. QED
      BY <2>2, <2>3, <3>1, <3>2, BlockFields
  <2>5. OP_EXIT \notin {OP_LD, OP_ST, OP_ADD}
    BY DEF OP_EXIT, OP_LD, OP_ST, OP_ADD
  <2>. QED
    BY <2>4, <2>5 DEF Halts, IsInstruction
<1>5. SumsTo(d, ImageOf(p), RegistersOf(p), q, r)'
  BY <1>1 DEF Halts, SumsTo, Holding, Gathered
<1>6. PcOf(p)' = WORD_SIZE * (4 * q + r)
  BY <1>1 DEF Halts
<1>. QED
  BY <1>4, <1>5, <1>6 DEF SummingOne

\* A generated program that has just been admitted.
StartsSumming ==
    \A p \in Admitted, d \in Draws :
        /\ program[p] = ElfFile(d) /\ PhaseOf(p) = "live" /\ PcOf(p) = 0
        /\ ImageOf(p) = OriginOf(p) /\ RegistersOf(p) = NoRegisters
        => SummingOne(p, d)

LEMMA StartingSums == Sound => StartsSumming
<1>. SUFFICES ASSUME Sound, NEW p \in Admitted, NEW d \in Draws,
                     program[p] = ElfFile(d), PhaseOf(p) = "live", PcOf(p) = 0,
                     ImageOf(p) = OriginOf(p), RegistersOf(p) = NoRegisters
              PROVE  SummingOne(p, d)
  BY DEF StartsSumming
<1>a. PICK f, c, m : f = ElfFile(d) /\ c = code_words(d) /\ m = data_size(d)
  OBVIOUS
<1>1. /\ c \in Nat /\ m \in Nat \ {0} /\ Len(d.blocks) \in Nat /\ total_words(f) = c + m
      /\ \A w \in 0 .. c - 1 : LinkedImage(f, w) = Code(d)[w + 1]
      /\ \A v \in 1 .. m : LinkedImage(f, c + v - 1) = d.data[v]
  BY <1>a, DrawnSections
<1>2. c \in Nat /\ m \in Nat
  BY <1>1
<1>3. \A w \in 0 .. c + m - 1 : w \in WordsOf(p)
  <2>1. \A w \in 0 .. c + m - 1 : w \in Nat /\ w < c + m
    BY <1>2
  <2>. QED
    BY <2>1, <1>1, <1>a, CountedInImage
<1>4. ImageOf(p) = [w \in WordsOf(p) |-> LinkedImage(f, w)]
  BY <1>a DEF OriginOf, Linked
<1>5. ASSUME NEW w \in 0 .. c - 1 PROVE ImageOf(p)[w] = Code(d)[w + 1]
  <2>1. w \in 0 .. c + m - 1
    BY <1>2
  <2>. QED
    BY <2>1, <1>1, <1>3, <1>4
<1>6. ASSUME NEW v \in 0 .. m - 1 PROVE ImageOf(p)[c + v] = AfterBlocks(d)[0][v + 1]
  <2>1. c + v \in 0 .. c + m - 1 /\ v + 1 \in 1 .. m /\ c + (v + 1) - 1 = c + v
    BY <1>2
  <2>2. LinkedImage(f, c + v) = d.data[v + 1]
    BY <2>1, <1>1
  <2>. QED
    BY <2>1, <2>2, <1>3, <1>4, BlocksAfter
<1>7. Holding(d, ImageOf(p), 0)
  BY <1>a, <1>3, <1>4, <1>5, <1>6 DEF Holding
<1>8. SumsTo(d, ImageOf(p), RegistersOf(p), 0, 0)
  <2>1. Gathered(d, d.blocks[0 + 1], AfterBlocks(d)[0], RegistersOf(p), 0)
    BY DEF Gathered
  <2>2. 0 \in 0 .. Len(d.blocks) /\ 0 \in 0 .. 3
    BY <1>1
  <2>. QED
    BY <1>7, <2>1, <2>2 DEF SumsTo, NoRegisters
<1>9. PcOf(p) = WORD_SIZE * (4 * 0 + 0)
  BY DEF WORD_SIZE
<1>. QED
  BY <1>8, <1>9 DEF SummingOne

\* The same in the next state.
LEMMA StartingSumsNext == Sound' => StartsSumming'
BY StartingSums, PTL

\* Whatever else happens, generated programs go on summing.
LEMMA SummingNext ==
    ASSUME NumRegisters > 1, Sound, Sound', [Next]_vars, PrivateStep, Summing
    PROVE  Summing'
<1>. SUFFICES ASSUME NEW q \in Admitted', NEW d \in Draws, program'[q] = ElfFile(d)
              PROVE  SummingOne(q, d)'
  BY DEF Summing
<1>1. q \in Pids /\ PhaseOf(q)' # "gone" /\ PhaseOf(q)' # "absent"
  BY DEF Admitted, PhaseOf
<1>2. ViewStep(q)
  BY <1>1, ViewSteps
<1>3. ASSUME PhaseOf(q) \notin {"gone", "absent"}
      PROVE  SummingOne(q, d)
  <2>1. q \in Admitted
    BY <1>1, <1>3 DEF PhaseOf
  <2>2. program'[q] = program[q]
    BY <2>1, ProgramKept
  <2>. QED
    BY <2>1, <2>2 DEF Summing
<1>4. CASE View(q)' = View(q)
  <2>1. /\ PhaseOf(q)' = PhaseOf(q) /\ ImageOf(q)' = ImageOf(q) /\ PcOf(q)' = PcOf(q)
        /\ RegistersOf(q)' = RegistersOf(q)
    BY <1>4, Componentwise
  <2>2. SummingOne(q, d)
    BY <1>1, <1>3, <2>1
  <2>3. PICK b, r : /\ PcOf(q) = WORD_SIZE * (4 * b + r)
                    /\ SumsTo(d, ImageOf(q), RegistersOf(q), b, r)
                    /\ PhaseOf(q) = "halted" => b = Len(d.blocks)
    BY <2>2 DEF SummingOne
  <2>4. SumsTo(d, ImageOf(q), RegistersOf(q), b, r)'
    BY <2>1, <2>3 DEF SumsTo, Holding, Gathered
  <2>. QED
    BY <2>1, <2>3, <2>4 DEF SummingOne
<1>5. CASE Halts(q)
  <2>1. PhaseOf(q) \notin {"gone", "absent"}
    BY <1>5 DEF Halts, Reaches
  <2>. QED
    BY <1>3, <1>5, <2>1, SumsHalts
<1>6. CASE GoesOn(q)
  <2>1. PhaseOf(q) \notin {"gone", "absent"}
    BY <1>6 DEF GoesOn, Reaches
  <2>. QED
    BY <1>3, <1>6, <2>1, SumsGoesOn
<1>7. CASE Appears(q)
  <2>1. PcOf(q) = 0 /\ RegistersOf(q) = NoRegisters
    BY <1>7 DEF Appears, PhaseOf, PcOf, RegistersOf
  <2>2. /\ PhaseOf(q)' = "live" /\ PcOf(q)' = 0 /\ ImageOf(q)' = OriginOf(q)' /\ RegistersOf(q)' = NoRegisters
    BY <1>7, <2>1 DEF Appears
  <2>3. NoRegisters' = NoRegisters
    BY DEF NoRegisters
  <2>. QED
    BY <2>2, <2>3, StartingSumsNext DEF StartsSumming
<1>. QED
  BY <1>1, <1>2, <1>4, <1>5, <1>6, <1>7 DEF ViewStep

\* A halted generated program has its sums in its words.
LEMMA HaltedHasSums ==
    ASSUME Sound, Summing
    PROVE  ComputesItsSums
<1>. SUFFICES ASSUME NEW d \in Draws, NEW p \in Admitted, program[p] = ElfFile(d), pcb[p].state = "TERMINATED"
              PROVE  /\ Context(p).pc = WORD_SIZE * (code_words(d) - 1)
                     /\ \A v \in DOMAIN d.data :
                           mmu_read_word(Context(p).pgb, data_start(d) + WORD_SIZE * (v - 1)) = DataAfter(d)[v]
  BY DEF ComputesItsSums
<1>a. PICK c, m, l : c = code_words(d) /\ m = data_size(d) /\ l = Len(d.blocks)
  OBVIOUS
<1>1. c \in Nat /\ m \in Nat \ {0} /\ l \in Nat /\ c = 4 * l + 1 /\ data_start(d) = WORD_SIZE * c
  BY <1>a, DrawnSections
<1>2. PhaseOf(p) = "halted"
  BY DEF PhaseOf, Admitted
<1>3. PICK q, r : /\ PcOf(p) = WORD_SIZE * (4 * q + r) /\ q = l
                  /\ SumsTo(d, ImageOf(p), RegistersOf(p), q, r)
  BY <1>a, <1>2 DEF Summing, SummingOne
<1>4. r = 0 /\ Holding(d, ImageOf(p), l)
  BY <1>a, <1>1, <1>3 DEF SumsTo
<1>5. Context(p).pc = WORD_SIZE * (c - 1)
  <2>1. 4 * q + r = c - 1
    BY <1>1, <1>3, <1>4
  <2>. QED
    BY <2>1, <1>3 DEF PcOf
<1>6. ASSUME NEW v \in DOMAIN d.data
      PROVE  mmu_read_word(Context(p).pgb, data_start(d) + WORD_SIZE * (v - 1)) = DataAfter(d)[v]
  <2>1. v \in 1 .. m
    BY <1>a, ExecutionAssumption, LenProperties DEF IsDraw, data_size
  <2>2. v - 1 \in 0 .. m - 1 /\ v - 1 + 1 = v /\ c + (v - 1) \in 0 .. c + m - 1
    BY <2>1, <1>1
  <2>3. ImageOf(p)[c + (v - 1)] = AfterBlocks(d)[l][v] /\ c + (v - 1) \in DOMAIN ImageOf(p)
    BY <2>2, <1>4, <1>a DEF Holding
  <2>4. ImageOf(p)[c + (v - 1)] = mmu_read_word(Context(p).pgb, WORD_SIZE * (c + (v - 1)))
    BY <2>3 DEF ImageOf
  <2>5. WORD_SIZE * (c + (v - 1)) = WORD_SIZE * c + WORD_SIZE * (v - 1)
    BY <2>2, <1>1 DEF WORD_SIZE
  <2>. QED
    BY <2>3, <2>4, <2>5, <1>1, <1>a DEF DataAfter
<1>. QED
  BY <1>a, <1>5, <1>6

\* Whatever prometheus draws, and however the process is scheduled, suspended, moved to
\* other threads and loaded into frames, a program that has reached its EXIT has
\* computed its sums, if every program of the directory keeps inside its words.
THEOREM ProgramsComputeSums ==
    ASSUME Aligned, NumRegisters > 1
    PROVE  Spec /\ []KeepsInside => []ComputesItsSums
<1>1. Init => Summing
  BY DEF Init, LoaderInit, Admitted, Pids, Summing
<1>2. Sound /\ Sound' /\ Faithful /\ KeepsInside /\ [Next]_vars => PrivateStep
  BY StepIsPrivate
<1>3. Sound /\ Sound' /\ [Next]_vars /\ PrivateStep /\ Summing => Summing'
  BY SummingNext
<1>4. Sound /\ Summing => ComputesItsSums
  BY HaltedHasSums
<1>5. Spec /\ []KeepsInside => [](Sound /\ Faithful)
  BY FaithfulAlways
<1>. QED
  BY <1>1, <1>2, <1>3, <1>4, <1>5, PTL DEF Spec

----------------------------------------------------------------------------
(* The time to live.                                                       *)

\* What is left of it and the instructions executed are at least what it was at first.
Budgeted ==
    /\ \A p \in Admitted :
          PhaseOf(p) = "live" =>
              \E n \in Nat : PcOf(p) = WORD_SIZE * n /\ ttl(program[p]) <= pcb[p].ttl + n
    /\ loading # NotLoading => pcb[loading.pid].ttl = ttl(program[loading.pid])

\* A process whose code is at most MaxTtl words is before an end within its time to live.
InTime ==
    \A p \in Admitted :
        code_size(program[p]) <= MaxTtl =>
            \E s \in 0 .. total_words(program[p]) - 1 : TameTo(p, s) /\ s < ttl(program[p])

\* A time to live is a number.
LEMMA TtlNat ==
    ASSUME NEW f \in FileContents, f.found_text
    PROVE  ttl(f) \in Nat
<1>1. code_size(f) \in Nat
  BY FileSizes
<1>2. MinTtl \in Nat /\ MaxTtl \in Nat
  BY LoaderAssumption
<1>. QED
  BY <1>1, <1>2 DEF ttl

\* Only an instruction takes something of it, and goes on to the next word.
LEMMA TtlChanges ==
    ASSUME Sound, Sound', [Next]_vars, NEW q \in Admitted, PhaseOf(q)' = "live"
    PROVE  /\ pcb[q].ttl \in Nat /\ pcb'[q].ttl \in Nat
           /\ \/ pcb'[q].ttl = pcb[q].ttl
              \/ pcb'[q].ttl >= pcb[q].ttl - 1 /\ PcOf(q)' = PcOf(q) + WORD_SIZE
<1>1. q \in Pids /\ pcb \in [Pids -> PcbType] /\ pcb[q] \in PcbType /\ q < next_pid
  BY OnThreads DEF Admitted
<1>2. pcb[q].ttl \in Nat /\ pcb'[q].ttl \in Nat
  <2>1. pcb' \in [Pids -> PcbType]
    BY DEF Sound, TypeOK
  <2>2. pcb'[q] \in PcbType
    BY <1>1, <2>1
  <2>3. MaxTtl \in Nat
    BY LoaderAssumption
  <2>. QED
    BY <1>1, <2>2, <2>3 DEF PcbType
<1>3. pcb'[q].state # "TERMINATED" /\ q \in Admitted'
  BY DEF PhaseOf
<1>4. CASE UNCHANGED pcb
  BY <1>2, <1>4
<1>5. ASSUME NEW f \in FileContents, CreateProcess(f) PROVE pcb'[q] = pcb[q]
  <2>1. q # next_pid
    BY <1>1, LoaderAssumption DEF Sound, TypeOK, Pids
  <2>. QED
    BY <1>5, <1>1, <2>1 DEF CreateProcess
<1>6. ASSUME NEW p \in Pids, Assign(p) PROVE pcb'[q].ttl = pcb[q].ttl
  BY <1>1, <1>6 DEF Assign, PcbType
<1>7. ASSUME NEW k \in 1 .. Len(hw_threads), Expire(k) PROVE pcb'[q].ttl = pcb[q].ttl
  <2>1. hw_threads[k].pcb \in Pids
    BY OnThreads
  <2>. QED
    BY <1>1, <1>7, <2>1 DEF Expire, SavedContext, PcbType
<1>8. ASSUME NEW k \in 1 .. Len(hw_threads), Complete(k) PROVE pcb'[q].ttl = pcb[q].ttl
  BY <1>1, <1>8 DEF Complete, PcbType
<1>9. ASSUME NEW k \in 1 .. Len(hw_threads), Execute(k)
      PROVE  \/ pcb'[q].ttl = pcb[q].ttl
             \/ pcb'[q].ttl >= pcb[q].ttl - 1 /\ PcOf(q)' = PcOf(q) + WORD_SIZE
  <2>a. PICK h : h = hw_threads[k]
    OBVIOUS
  <2>1. h \in Threads /\ h.pcb \in Pids /\ h.pcb \in Admitted /\ hw_threads \in Seq(Threads)
    BY <2>a, OnThreads DEF Sound
  <2>2. CASE q # h.pcb
    BY <1>1, <1>9, <2>a, <2>1, <2>2 DEF Execute, execute_ld, execute_st, execute_add, execute_exit,
       UnknownOpcode, Goes_on, PcbType
  <2>3. CASE q = h.pcb
    <3>1. ~execute_exit(k) /\ ~UnknownOpcode(k)
      BY <1>1, <1>3, <2>a, <2>3 DEF execute_exit, UnknownOpcode, PcbType
    <3>2. Goes_on(k)
      BY <1>9, <3>1 DEF Execute, execute_ld, execute_st, execute_add
    <3>3. pcb'[q].ttl = decrement_pcb_ttl(q)
      BY <1>1, <2>a, <2>3, <3>2 DEF Goes_on, PcbType
    <3>4. pcb'[q].ttl >= pcb[q].ttl - 1
      BY <1>2, <3>3 DEF decrement_pcb_ttl
    <3>5. PICK g : hw_threads' = [hw_threads EXCEPT ![k] = g] /\ g.pcb = h.pcb /\ g.PC = h.PC + WORD_SIZE
      <4>1. CASE execute_ld(k) \/ execute_add(k)
        <5>1. PICK r, v : hw_threads' = [hw_threads EXCEPT ![k] = WithRegister(h, r, v)]
          BY <4>1, <2>a DEF execute_ld, execute_add
        <5>2. WithRegister(h, r, v).pcb = h.pcb /\ WithRegister(h, r, v).PC = h.PC + WORD_SIZE
          BY <2>1 DEF WithRegister, Threads
        <5>. QED
          BY <5>1, <5>2
      <4>2. CASE execute_st(k)
        <5>1. hw_threads' = [hw_threads EXCEPT ![k] = [h EXCEPT !.PC = @ + WORD_SIZE]]
          BY <4>2, <2>a DEF execute_st
        <5>2. [h EXCEPT !.PC = @ + WORD_SIZE].pcb = h.pcb
              /\ [h EXCEPT !.PC = @ + WORD_SIZE].PC = h.PC + WORD_SIZE
          BY <2>1 DEF Threads
        <5>. QED
          BY <5>1, <5>2
      <4>. QED
        BY <1>9, <3>1, <4>1, <4>2 DEF Execute
    <3>6. hw_threads'[k].pcb = q /\ hw_threads'[k].PC = h.PC + WORD_SIZE /\ k \in 1 .. Len(hw_threads')
      <4>1. DOMAIN hw_threads = 1 .. Len(hw_threads) /\ Len(hw_threads') = Len(hw_threads)
        BY <2>1, <3>5, LenProperties, ExceptSeq
      <4>. QED
        BY <4>1, <3>5, <2>3
    <3>7. PcOf(q) = h.PC
      <4>1. Context(q) = [pgb |-> base(q), pc |-> h.PC, registers |-> h.registers]
        BY <2>a, <2>3, Contexts DEF ContextsFound
      <4>. QED
        BY <4>1 DEF PcOf
    <3>8. PcOf(q)' = h.PC + WORD_SIZE
      <4>1. Context(hw_threads[k].pcb)' = [pgb |-> base(hw_threads[k].pcb), pc |-> hw_threads[k].PC,
                                           registers |-> hw_threads[k].registers]'
        BY <3>6, ContextsNext DEF ContextsFound
      <4>2. Context(hw_threads[k].pcb)'.pc = h.PC + WORD_SIZE
        BY <4>1, <3>6
      <4>3. Context(hw_threads[k].pcb)' = Context(q)'
        BY <3>6 DEF Context, IsLoaded
      <4>. QED
        BY <1>3, <4>2, <4>3 DEF PcOf
    <3>. QED
      BY <3>4, <3>7, <3>8
  <2>. QED
    BY <2>2, <2>3
<1>10. CASE Load
  BY <1>2, <1>5, <1>10 DEF Load, LoaderNext, RejectFile, OutOfKernelSpace, LoadPage, OutOfFrames, QueueProcess
<1>11. ASSUME NEW k \in 1 .. NumThreads, k <= Len(hw_threads), Execute(k) \/ Expire(k) \/ Complete(k)
       PROVE  k \in 1 .. Len(hw_threads)
  BY <1>11, OnThreads
<1>12. CASE IdleTick \/ UNCHANGED vars
  BY <1>2, <1>12 DEF IdleTick, vars, loaderVars
<1>. QED
  BY <1>2, <1>6, <1>7, <1>8, <1>9, <1>10, <1>11, <1>12 DEF Next

\* A process that is admitted is the one that has just been loaded, as it was loaded.
LEMMA AdmittedFresh ==
    ASSUME Sound, [Next]_vars, NEW q \in Admitted', q \notin Admitted, q \notin freed
    PROVE  loading # NotLoading /\ q = loading.pid /\ pcb'[q] = pcb[q] /\ program'[q] = program[q]
<1>1. q \in Pids /\ q < next_pid' /\ q # loading'.pid /\ q \notin freed' /\ q \in Nat /\ q > 0
  BY DEF Admitted, Pids
<1>2. q >= next_pid \/ q = loading.pid
  BY <1>1, LoaderAssumption DEF Admitted, Sound, TypeOK
<1>3. ASSUME NEW f \in FileContents, CreateProcess(f) PROVE FALSE
  <2>1. next_pid' = next_pid + 1 /\ loading'.pid = next_pid /\ loading = NotLoading
    BY <1>3 DEF CreateProcess, ReadsFile
  <2>2. next_pid \in Nat
    BY LoaderAssumption DEF Sound, TypeOK
  <2>. QED
    BY <1>1, <1>2, <2>1, <2>2 DEF NotLoading
<1>4. ASSUME NEW f \in FileContents, OutOfKernelSpace(f) PROVE FALSE
  <2>1. next_pid' = next_pid + 1 /\ freed' = freed \cup {next_pid} /\ loading = NotLoading
    BY <1>4 DEF OutOfKernelSpace, ReadsFile
  <2>2. next_pid \in Nat
    BY LoaderAssumption DEF Sound, TypeOK
  <2>. QED
    BY <1>1, <1>2, <2>1, <2>2 DEF NotLoading
<1>5. ASSUME UNCHANGED next_pid, loading'.pid = loading.pid PROVE FALSE
  <2>1. next_pid \in Nat
    BY LoaderAssumption DEF Sound, TypeOK
  <2>. QED
    BY <1>1, <1>2, <1>5, <2>1
<1>6. ASSUME UNCHANGED <<next_pid, pcb, program>>
      PROVE  loading # NotLoading /\ q = loading.pid /\ pcb'[q] = pcb[q] /\ program'[q] = program[q]
  <2>1. next_pid \in Nat
    BY LoaderAssumption DEF Sound, TypeOK
  <2>. QED
    BY <1>1, <1>2, <1>6, <2>1 DEF NotLoading
<1>7. ASSUME NEW p \in Pids, NEW page, NEW frame, LoadPage(p, page, frame) PROVE FALSE
  <2>1. UNCHANGED next_pid /\ loading' = [loading EXCEPT !.page = page + 1]
    BY <1>7 DEF LoadPage
  <2>2. loading'.pid = loading.pid
    BY <2>1 DEF Sound, TypeOK
  <2>. QED
    BY <1>5, <2>1, <2>2
<1>8. CASE Load
  BY <1>3, <1>4, <1>5, <1>6, <1>7, <1>8 DEF Load, LoaderNext, RejectFile, OutOfFrames, QueueProcess
<1>9. CASE ~Load
  <2>1. UNCHANGED <<next_pid, loading>>
    BY <1>9 DEF Next, vars, loaderVars, Assign, Execute, execute_ld, execute_st, execute_add, execute_exit,
       UnknownOpcode, Ticks, Expire, Complete, IdleTick
  <2>. QED
    BY <1>5, <2>1
<1>. QED
  BY <1>8, <1>9

\* The time to live of the process that is being loaded.
LEMMA LoadingBudget ==
    ASSUME Sound, Faithful, Budgeted, [Next]_vars, loading' # NotLoading
    PROVE  pcb'[loading'.pid].ttl = ttl(program'[loading'.pid])
<1>1. ASSUME NEW f \in FileContents, CreateProcess(f)
      PROVE  pcb'[loading'.pid].ttl = ttl(program'[loading'.pid])
  <2>1. next_pid \in Pids
    BY <1>1, LoaderAssumption DEF CreateProcess, ReadsFile, Sound, TypeOK, LaidOut, Pids
  <2>2. pcb[next_pid] \in PcbType /\ pcb \in [Pids -> PcbType] /\ program \in [Pids -> FileContents \cup {NoFile}]
    BY <2>1 DEF Sound, TypeOK
  <2>3. /\ loading'.pid = next_pid /\ program' = [program EXCEPT ![next_pid] = f]
        /\ pcb' = [pcb EXCEPT ![next_pid].ttl = ttl(f), ![next_pid].pgb = next_kernel_frame]
    BY <1>1 DEF CreateProcess
  <2>. QED
    BY <2>1, <2>2, <2>3 DEF PcbType
<1>2. CASE Load /\ ~\E f \in FileContents : CreateProcess(f)
  <2>1. UNCHANGED <<pcb, program>> /\ loading'.pid = loading.pid /\ loading # NotLoading
    <3>1. loading \in [pid : Pids \cup {0}, page : Nat]
      BY DEF Sound, TypeOK
    <3>. QED
      BY <1>2, <3>1 DEF Load, LoaderNext, RejectFile, OutOfKernelSpace, LoadPage, OutOfFrames, QueueProcess, Loads
  <2>. QED
    BY <2>1 DEF Budgeted
<1>3. CASE ~Load
  <2>1. UNCHANGED <<loading, program>>
    BY <1>3 DEF Next, vars, loaderVars, Assign, Execute, execute_ld, execute_st, execute_add, execute_exit,
       UnknownOpcode, Ticks, Expire, Complete, IdleTick
  <2>2. hw_threads = <<>> /\ ~Scheduling
    BY <2>1, LoadingAlone DEF Scheduling
  <2>3. UNCHANGED pcb
    <3>1. Len(hw_threads) = 0
      BY <2>2
    <3>. QED
      BY <1>3, <2>2, <3>1 DEF Next, vars, loaderVars, Assign, IdleTick
  <2>. QED
    BY <2>1, <2>3 DEF Budgeted
<1>. QED
  BY <1>1, <1>2, <1>3

\* The budget holds in every state.
LEMMA BudgetedNext ==
    ASSUME Sound, Sound', Faithful, Budgeted, [Next]_vars, PrivateStep
    PROVE  Budgeted'
<1>1. ASSUME NEW q \in Admitted', PhaseOf(q)' = "live"
      PROVE  \E n \in Nat : PcOf(q)' = WORD_SIZE * n /\ ttl(program'[q]) <= pcb'[q].ttl + n
  <2>1. q \in Pids
    BY DEF Admitted
  <2>2. ViewStep(q)
    BY <2>1, ViewSteps
  <2>3. ASSUME q \in Admitted, PhaseOf(q) = "live", PcOf(q)' = PcOf(q) \/ PcOf(q)' = PcOf(q) + WORD_SIZE
        PROVE  \E n \in Nat : PcOf(q)' = WORD_SIZE * n /\ ttl(program'[q]) <= pcb'[q].ttl + n
    <3>1. PICK n \in Nat : PcOf(q) = WORD_SIZE * n /\ ttl(program[q]) <= pcb[q].ttl + n
      BY <2>3 DEF Budgeted
    <3>2. program'[q] = program[q] /\ ttl(program[q]) \in Nat
      <4>1. program[q] \in FileContents /\ program[q].found_text
        BY <2>3, Running DEF RunsFiles
      <4>. QED
        BY <2>3, <4>1, ProgramKept, TtlNat
    <3>3. /\ pcb[q].ttl \in Nat /\ pcb'[q].ttl \in Nat
          /\ \/ pcb'[q].ttl = pcb[q].ttl
             \/ pcb'[q].ttl >= pcb[q].ttl - 1 /\ PcOf(q)' = PcOf(q) + WORD_SIZE
      BY <1>1, <2>3, TtlChanges
    <3>4. WORD_SIZE * n + WORD_SIZE = WORD_SIZE * (n + 1) /\ WORD_SIZE * n # WORD_SIZE * n + WORD_SIZE
      BY DEF WORD_SIZE
    <3>5. CASE PcOf(q)' = PcOf(q)
      BY <3>1, <3>2, <3>3, <3>4, <3>5
    <3>6. CASE PcOf(q)' = PcOf(q) + WORD_SIZE
      <4>1. PcOf(q)' = WORD_SIZE * (n + 1) /\ n + 1 \in Nat
        BY <3>1, <3>4, <3>6
      <4>2. ttl(program'[q]) <= pcb'[q].ttl + (n + 1)
        BY <3>1, <3>2, <3>3
      <4>. QED
        BY <4>1, <4>2
    <3>. QED
      BY <2>3, <3>5, <3>6
  <2>4. CASE View(q)' = View(q) \/ GoesOn(q)
    <3>1. PhaseOf(q) = "live" /\ (PcOf(q)' = PcOf(q) \/ PcOf(q)' = PcOf(q) + WORD_SIZE)
      BY <1>1, <2>4, Componentwise DEF GoesOn, Reaches
    <3>2. q \in Admitted
      BY <3>1 DEF PhaseOf
    <3>. QED
      BY <2>3, <3>1, <3>2
  <2>5. CASE Appears(q)
    <3>1. q \notin Admitted /\ q \notin freed /\ PcOf(q) = 0 /\ PcOf(q)' = 0
      BY <2>5 DEF Appears, PhaseOf, PcOf
    <3>2. loading # NotLoading /\ q = loading.pid /\ pcb'[q] = pcb[q] /\ program'[q] = program[q]
      BY <1>1, <3>1, AdmittedFresh
    <3>3. pcb'[q].ttl = ttl(program'[q])
      BY <3>2 DEF Budgeted
    <3>4. ttl(program'[q]) \in Nat
      BY <1>1, RunningNext, TtlNat DEF RunsFiles
    <3>5. PcOf(q)' = WORD_SIZE * 0 /\ ttl(program'[q]) <= pcb'[q].ttl + 0 /\ 0 \in Nat
      BY <3>1, <3>3, <3>4 DEF WORD_SIZE
    <3>. QED
      BY <3>5
  <2>. QED
    BY <1>1, <2>2, <2>4, <2>5 DEF ViewStep, Halts
<1>. QED
  BY <1>1, LoadingBudget DEF Budgeted

\* Programs that end in time go on doing so.
LEMMA InTimeNext ==
    ASSUME EndsInTime, Sound, Sound', [Next]_vars, PrivateStep, InTime
    PROVE  InTime'
<1>. SUFFICES ASSUME NEW q \in Admitted', code_size(program'[q]) <= MaxTtl
              PROVE  \E s \in 0 .. total_words(program'[q]) - 1 : TameTo(q, s)' /\ s < ttl(program'[q])
  BY DEF InTime
<1>1. CASE Appears(q) /\ PcOf(q)' = 0 /\ ImageOf(q)' = OriginOf(q)'
  <2>1. program'[q] \in FileContents /\ program'[q].found_text
    BY RunningNext DEF RunsFiles
  <2>2. PICK s \in 0 .. total_words(program'[q]) - 1 : EndsAt(program'[q], s) /\ s < ttl(program'[q])
    BY <2>1 DEF EndsInTime
  <2>3. TameTo(q, s)'
    BY <1>1, <2>2, StartingNext DEF StartsTame
  <2>. QED
    BY <2>2, <2>3
<1>2. CASE /\ q \in Admitted /\ program'[q] = program[q]
           /\ \A s \in 0 .. total_words(program[q]) - 1 : TameTo(q, s) => TameTo(q, s)'
  BY <1>2 DEF InTime
<1>. QED
  BY <1>1, <1>2, TameToNext

\* A time to live that is spent has been enough.
LEMMA SpentAtEnd ==
    ASSUME Sound, Budgeted, InTime, NEW k \in 1 .. Len(hw_threads), Complete(k),
           code_size(program[hw_threads[k].pcb]) <= MaxTtl
    PROVE  pcb[hw_threads[k].pcb].state = "TERMINATED"
<1>a. PICK p : p = hw_threads[k].pcb
  OBVIOUS
<1>1. p \in Admitted /\ p \in Pids /\ p \notin freed
  BY <1>a, OnThreads
<1>. SUFFICES ASSUME pcb[p].state # "TERMINATED"
              PROVE  FALSE
  BY <1>a
<1>2. pcb[p].ttl = 0
  BY <1>a DEF Complete, HasCompleted
<1>3. PhaseOf(p) = "live"
  BY <1>1 DEF PhaseOf
<1>4. PICK n \in Nat : PcOf(p) = WORD_SIZE * n /\ ttl(program[p]) <= 0 + n
  BY <1>1, <1>2, <1>3 DEF Budgeted
<1>5. PICK s \in 0 .. total_words(program[p]) - 1 : TameTo(p, s) /\ s < ttl(program[p])
  BY <1>1, <1>a DEF InTime
<1>6. PICK j \in 0 .. s : PcOf(p) = WORD_SIZE * j
  BY <1>5 DEF TameTo
<1>7. program[p] \in FileContents /\ program[p].found_text
  BY <1>1, Running DEF RunsFiles
<1>8. total_words(program[p]) \in Nat /\ ttl(program[p]) \in Nat
  BY <1>7, TotalWordsNat, TtlNat
<1>9. s \in Nat /\ j \in Nat /\ j <= s
  BY <1>5, <1>6, <1>8
<1>10. j = n
  BY <1>4, <1>6, <1>9 DEF WORD_SIZE
<1>. QED
  BY <1>4, <1>5, <1>8, <1>9, <1>10

\* Nothing but its completion destroys a process that is on a thread.
LEMMA FreedByCompletion ==
    ASSUME Sound, Faithful, [Next]_vars, NEW k \in DOMAIN hw_threads, hw_threads[k].pcb \in freed' \ freed
    PROVE  k \in 1 .. Len(hw_threads) /\ Complete(k)
<1>1. k \in 1 .. Len(hw_threads) /\ hw_threads # <<>>
  BY OnThreads
<1>2. ~Load
  <2>1. loading = NotLoading /\ ~(files_read < MaxFiles)
    BY <1>1, LoadingAlone
  <2>. QED
    BY <2>1 DEF Load, LoaderNext, RejectFile, CreateProcess, OutOfKernelSpace, ReadsFile, LoadPage,
       OutOfFrames, QueueProcess, Loads
<1>3. \E j \in 1 .. NumThreads : j <= Len(hw_threads) /\ Complete(j)
  BY <1>2 DEF Next, vars, loaderVars, Assign, Execute, execute_ld, execute_st, execute_add, execute_exit,
     UnknownOpcode, Ticks, Expire, IdleTick
<1>4. PICK j \in 1 .. Len(hw_threads) : Complete(j)
  BY <1>3, OnThreads
<1>5. hw_threads[k].pcb = hw_threads[j].pcb
  BY <1>4 DEF Complete
<1>6. k = j
  BY <1>1, <1>5, OnThreads
<1>. QED
  BY <1>1, <1>4, <1>6

\* No process whose code fits the largest time to live is cut short by it: a switch
\* neither repeats an instruction nor takes any of it, so that the time to live and the
\* instructions executed always add up to at least what the process was given.
THEOREM TtlIsEnough ==
    ASSUME Aligned, EndsInTime
    PROVE  Spec /\ []KeepsInside => TtlSuffices
<1>. DEFINE NoneCutShort ==
        \A k \in DOMAIN hw_threads :
           LET p == hw_threads[k].pcb
           IN  p \in freed' \ freed /\ code_size(program[p]) <= MaxTtl
                 => pcb[p].state = "TERMINATED"
<1>1. Init => Budgeted /\ InTime
  <2>1. Init => Admitted = {} /\ loading = NotLoading
    BY DEF Init, LoaderInit, Admitted, Pids
  <2>. QED
    BY <2>1 DEF Budgeted, InTime
<1>2. Sound /\ Sound' /\ Faithful /\ KeepsInside /\ [Next]_vars => PrivateStep
  BY StepIsPrivate
<1>3. Sound /\ Sound' /\ Faithful /\ [Next]_vars /\ PrivateStep /\ Budgeted => Budgeted'
  BY BudgetedNext
<1>4. Sound /\ Sound' /\ [Next]_vars /\ PrivateStep /\ InTime => InTime'
  BY InTimeNext
<1>5. Sound /\ Faithful /\ Budgeted /\ InTime /\ [Next]_vars => [NoneCutShort]_vars
  BY FreedByCompletion, SpentAtEnd
<1>6. Spec /\ []KeepsInside => [](Sound /\ Faithful)
  BY FaithfulAlways
<1>7. Spec /\ []KeepsInside => [](Budgeted /\ InTime)
  BY <1>1, <1>2, <1>3, <1>4, <1>6, PTL DEF Spec
<1>8. Spec /\ []KeepsInside => [][NoneCutShort]_vars
  <2>. HIDE DEF NoneCutShort
  <2>. QED
    BY <1>5, <1>6, <1>7, PTL DEF Spec
<1>. QED
  BY <1>8 DEF TtlSuffices

----------------------------------------------------------------------------
(* A directory that prometheus has filled.                                 *)

\* Every file with a program is one that prometheus has written, on a machine whose pages
\* divide the address space and that has more than one register.
OnlyPrometheus ==
    /\ AddressSpace % PageBytes = 0 /\ NumRegisters > 1
    /\ \A f \in FileContents : f.found_text => \E d \in Draws : f = ElfFile(d)

\* A generated program has its EXIT within its time to live.
LEMMA DrawnInTime ==
    ASSUME NEW d \in Draws, code_size(ElfFile(d)) <= MaxTtl
    PROVE  code_words(d) - 1 < ttl(ElfFile(d))
<1>a. PICK f, c : f = ElfFile(d) /\ c = code_words(d)
  OBVIOUS
<1>1. c = 4 * Len(d.blocks) + 1 /\ Len(d.blocks) \in Nat /\ code_size(f) = c
  BY <1>a, DrawnSections
<1>2. c \in Nat /\ c > 0 /\ c <= MaxTtl
  <2>1. c \in Nat /\ c > 0
    BY <1>1
  <2>. QED
    BY <2>1, <1>1, <1>a
<1>3. ttl(f) = IF 3 * c < MinTtl THEN MinTtl ELSE IF 3 * c > MaxTtl THEN MaxTtl ELSE 3 * c
  BY <1>1 DEF ttl
<1>4. MinTtl \in Nat /\ MaxTtl \in Nat
  BY LoaderAssumption
<1>5. c - 1 < ttl(f)
  BY <1>2, <1>3, <1>4
<1>. QED
  BY <1>a, <1>5

\* What the other theorems ask of the files holds of these.
LEMMA PrometheusFiles ==
    ASSUME OnlyPrometheus
    PROVE  Aligned /\ WellWritten /\ EndsInTime
<1>1. Aligned
  BY DrawnWellWritten DEF Aligned, OnlyPrometheus
<1>2. WellWritten
  BY DrawnWellWritten DEF WellWritten, OnlyPrometheus
<1>3. EndsInTime
  BY DrawnWellWritten, DrawnInTime DEF EndsInTime, OnlyPrometheus
<1>. QED
  BY <1>1, <1>2, <1>3

\* Whatever prometheus has drawn: the programs stay within their words, each sees a
\* machine of its own, every frame is accounted for, no time to live cuts a program short
\* that fits it, and a program that has halted has computed its sums.
THEOREM PrometheusRuns ==
    ASSUME OnlyPrometheus
    PROVE  Spec => /\ []TypeOK /\ []KeepsInside /\ []FramesAccounted /\ []ComputesItsSums
                   /\ TtlSuffices /\ ImplementsPrivateMachine
<1>1. Aligned /\ WellWritten /\ EndsInTime /\ NumRegisters > 1
  BY PrometheusFiles DEF OnlyPrometheus
<1>2. Spec => []KeepsInside
  BY <1>1, WellWrittenKeepInside
<1>3. Spec /\ []KeepsInside => []TypeOK
  BY ExecutionTyped
<1>4. Spec /\ []KeepsInside => []FramesAccounted
  BY FramesBooked
<1>5. Spec /\ []KeepsInside => []ComputesItsSums
  BY <1>1, ProgramsComputeSums
<1>6. Spec /\ []KeepsInside => TtlSuffices
  BY <1>1, TtlIsEnough
<1>7. Spec /\ []KeepsInside => ImplementsPrivateMachine
  BY <1>1, RefinesPrivateMachine
<1>. QED
  BY <1>2, <1>3, <1>4, <1>5, <1>6, <1>7
=============================================================================
