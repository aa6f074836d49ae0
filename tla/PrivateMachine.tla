--------------------------- MODULE PrivateMachine ---------------------------
(***************************************************************************)
(* What a process may expect of the machine: an address space, registers   *)
(* and a program counter of its own.  It starts with the image of its      *)
(* program, executes one instruction at a time on its own words only, and  *)
(* never leaves them.  How processes share processors, and where in        *)
(* physical memory their words are, does not show.                         *)
(***************************************************************************)
EXTENDS Instructions

CONSTANT Procs

VARIABLES
    phase,      \* of each process: "absent", "live", "halted" or "gone"
    origin,     \* the image its program prescribes
    image,      \* its words
    pc,
    registers

vars == <<phase, origin, image, pc, registers>>

NoImage == <<>>
Zeros   == [r \in RegisterNumbers |-> 0]

Init ==
    /\ phase = [p \in Procs |-> "absent"]
    /\ origin = [p \in Procs |-> NoImage] /\ image = [p \in Procs |-> NoImage]
    /\ pc = [p \in Procs |-> 0] /\ registers = [p \in Procs |-> Zeros]

IsImage(i) == \E n \in 1 .. AddressSpace \div WORD_SIZE : i \in [0 .. n - 1 -> Word]

Admit(p) ==
    /\ phase[p] = "absent"
    /\ phase' = [phase EXCEPT ![p] = "live"]
    /\ IsImage(origin'[p]) /\ \A q \in Procs \ {p} : origin'[q] = origin[q]
    /\ image' = [image EXCEPT ![p] = origin'[p]]
    /\ UNCHANGED <<pc, registers>>

Holds(p, address) == address \div WORD_SIZE \in DOMAIN image[p]
At(p, address)    == image[p][address \div WORD_SIZE]

Next_pc(p) == pc' = [pc EXCEPT ![p] = @ + WORD_SIZE]

Load(p, i) ==
    /\ extract_opcode(i) = OP_LD /\ Holds(p, extract_address(i))
    /\ registers' = [registers EXCEPT ![p][extract_reg(i)] = At(p, extract_address(i))]
    /\ Next_pc(p)
    /\ UNCHANGED <<phase, origin, image>>

Store(p, i) ==
    /\ extract_opcode(i) = OP_ST /\ Holds(p, extract_address(i))
    /\ image' = [image EXCEPT
          ![p][extract_address(i) \div WORD_SIZE] = registers[p][extract_reg(i)]]
    /\ Next_pc(p)
    /\ UNCHANGED <<phase, origin, registers>>

Add(p, i) ==
    /\ extract_opcode(i) = OP_ADD
    /\ registers' = [registers EXCEPT ![p][extract_reg(i)] =
          Sum32(registers[p][extract_reg_src1(i)], registers[p][extract_reg_src2(i)])]
    /\ Next_pc(p)
    /\ UNCHANGED <<phase, origin, image>>

Halt(p, i) ==
    /\ extract_opcode(i) = OP_EXIT \/ ~IsInstruction(i)
    /\ phase' = [phase EXCEPT ![p] = "halted"]
    /\ UNCHANGED <<origin, image, pc, registers>>

Step(p) ==
    /\ phase[p] = "live" /\ Holds(p, pc[p])
    /\ LET i == At(p, pc[p])
       IN  Load(p, i) \/ Store(p, i) \/ Add(p, i) \/ Halt(p, i)

\* A process leaves when it has halted, when its time to live is spent, or when
\* it could not be loaded.
Leave(p) ==
    /\ phase[p] # "gone"
    /\ phase' = [phase EXCEPT ![p] = "gone"]
    /\ origin' = [origin EXCEPT ![p] = NoImage] /\ image' = [image EXCEPT ![p] = NoImage]
    /\ pc' = [pc EXCEPT ![p] = 0] /\ registers' = [registers EXCEPT ![p] = Zeros]

Next == \E p \in Procs : Admit(p) \/ Step(p) \/ Leave(p)

Spec == Init /\ [][Next]_vars
=============================================================================
