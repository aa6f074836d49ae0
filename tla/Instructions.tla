---------------------------- MODULE Instructions ----------------------------
(***************************************************************************)
(* The instruction words of the simulated machine (machine.c).  A word has *)
(* 4 bits of opcode, a register and an address; ADD keeps the numbers of   *)
(* its sources in the upper digits of the address.  The widths of the      *)
(* register and the address fields are parameters: 16 registers and 2^24   *)
(* byte addresses in the program, which makes words of 2^32 values.        *)
(***************************************************************************)
EXTENDS Naturals

CONSTANTS NumRegisters, AddressSpace

ASSUME InstructionAssumption ==
    /\ NumRegisters \in Nat \ {0} /\ AddressSpace \in Nat \ {0}
    /\ AddressSpace % (NumRegisters * NumRegisters) = 0

WORD_SIZE == 4

WordModulus == 16 * NumRegisters * AddressSpace
Word == 0 .. WordModulus - 1
RegisterNumbers == 0 .. NumRegisters - 1

OP_LD   == 0
OP_ST   == 1
OP_ADD  == 2
OP_EXIT == 15

extract_opcode(word)  == word \div (NumRegisters * AddressSpace)
extract_reg(word)     == (word \div AddressSpace) % NumRegisters
extract_address(word) == word % AddressSpace
extract_reg_src1(word) ==
    extract_address(word) \div (AddressSpace \div NumRegisters)
extract_reg_src2(word) ==
    (extract_address(word) \div (AddressSpace \div (NumRegisters * NumRegisters))) % NumRegisters

IsInstruction(word) == extract_opcode(word) \in {OP_LD, OP_ST, OP_ADD, OP_EXIT}

\* The int32_t sum of execute_add, kept in a register; the build wraps around.
Sum32(x, y) == (x + y) % WordModulus
=============================================================================
