----------------------------- MODULE Prometheus -----------------------------
(***************************************************************************)
(* The programs that the generator prometheus.c writes: blocks of four     *)
(* instructions that add two neighbouring variables into the next one, an  *)
(* EXIT, and the variables.  A draw is what its calls of rand() decide: a  *)
(* register and a variable for each block, and the initial values.         *)
(***************************************************************************)
EXTENDS Instructions, Sequences

\* A draw d: the register and the first variable of each block, and the initial values.
IsDraw(d) ==
    /\ d.blocks \in Seq([reg1 : RegisterNumbers, var : Nat])
    /\ d.data \in Seq(Word) /\ d.data # <<>>

code_words(d) == 4 * Len(d.blocks) + 1

data_start(d) == code_words(d) * WORD_SIZE
data_size(d)  == Len(d.data)

Instruction(opcode, reg, low) == (opcode * NumRegisters + reg) * AddressSpace + low

\* Variable n of a program, counted round, and its address.
Var(d, n)     == n % data_size(d)
VarAddr(d, n) == data_start(d) + WORD_SIZE * Var(d, n)

Sources(reg1, reg2) ==
    reg1 * (AddressSpace \div NumRegisters) + reg2 * (AddressSpace \div (NumRegisters * NumRegisters))

Block(d, b) ==
    LET reg(n) == (b.reg1 + n) % NumRegisters
    IN  << Instruction(OP_LD, reg(0), VarAddr(d, b.var)),
           Instruction(OP_LD, reg(1), VarAddr(d, b.var + 1)),
           Instruction(OP_ADD, reg(2), Sources(reg(0), reg(1))),
           Instruction(OP_ST, reg(2), VarAddr(d, b.var + 2)) >>

Code(d) ==
    [i \in 1 .. code_words(d) |->
        IF i = code_words(d) THEN Instruction(OP_EXIT, 0, 0)
        ELSE Block(d, d.blocks[((i - 1) \div 4) + 1])[((i - 1) % 4) + 1]]

\* The .elf file: its two directives and its words.
ElfFile(d) ==
    [found_text |-> TRUE, text |-> 0, found_data |-> TRUE, data |-> data_start(d),
     words |-> Code(d) \o d.data]

\* What such a program is for: block i adds two variables into a third, and these are
\* the variables before block i + 1.
BlockSum(d, variables, i) ==
    LET v == d.blocks[i].var
    IN  [variables EXCEPT ![Var(d, v + 2) + 1] =
            Sum32(variables[Var(d, v) + 1], variables[Var(d, v + 1) + 1])]

AfterBlocks(d) ==
    LET after[i \in 0 .. Len(d.blocks)] ==
            IF i = 0 THEN d.data ELSE BlockSum(d, after[i - 1], i)
    IN  after

DataAfter(d) == AfterBlocks(d)[Len(d.blocks)]
=============================================================================
