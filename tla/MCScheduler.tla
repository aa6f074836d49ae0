---------------------------- MODULE MCScheduler ----------------------------
(* Constant values for model checking Scheduler on small machines.         *)
EXTENDS Scheduler, TLC

CONSTANTS a, b, c1, d, e, x, y

Two   == {a, b}
Three == {a, b, c1}
Four  == {a, b, c1, d}
Five  == {a, b, c1, d, e}
NoClones  == {}
TwoClones == {x, y}

\* A program that exits at its fourth instruction, one that stops at a word
\* that is no instruction, and one that runs until its TTL is spent.
ExitsSoon    == [code_size |-> 4, halt_at |-> 3, op |-> "EXIT"]
BadOpcode    == [code_size |-> 3, halt_at |-> 2, op |-> "UNKNOWN"]
RunsOn       == [code_size |-> 2, halt_at |-> 50, op |-> "EXIT"]

AllShapes   == {ExitsSoon, BadOpcode, RunsOn}
PairShapes  == {ExitsSoon, RunsOn}
LongShapes  == {RunsOn}

OneLevel    == {0}
TwoLevels   == {-20, 19}
ThreeLevels == {-20, 0, 19}

Starts     == {0, 1}
LateStarts == {0, 3}

AnyTick  == 0 .. MaxTick
LastTick == {MaxTick}
FirstTick == {1}

Permuted == Permutations(Programs)
=============================================================================
