---------------------------- MODULE MCExecution ----------------------------
(* Constant values for model checking Execution on a machine with pages of *)
(* four words, of four registers and of words of 12 bits.                  *)
EXTENDS Execution, TLC

\* Three pages: one block, whose registers and variables both wrap around, as
\* do the numbers it adds.
OneBlock == [blocks |-> << [reg1 |-> 3, var |-> 3] >>, data |-> <<1, 4095, 2, 4095>>]

\* Four pages: two blocks, of which the second needs the sum of the first.
TwoBlocks == [blocks |-> << [reg1 |-> 0, var |-> 0], [reg1 |-> 1, var |-> 1] >>,
              data |-> <<1, 2, 3, 4>>]

BothDraws == {OneBlock, TwoBlocks}

\* A page without .data, with a word that is no instruction, at address 4.
BadWord == [found_text |-> TRUE, text |-> 4, found_data |-> FALSE, data |-> 0,
            words |-> <<Instruction(OP_ADD, 1, Sources(2, 3)), Instruction(3, 0, 0)>>]

AllFiles == {ElfFile(d) : d \in BothDraws} \cup {BadWord, NoFile}

\* What the refinement of PrivateMachine is proved under holds of these files.
ASSUME FilesAligned == Aligned
ASSUME FilesWellWritten == WellWritten
ASSUME FilesEndInTime == EndsInTime
=============================================================================
