-------------------------- MODULE ProcessLifecycle --------------------------
(***************************************************************************)
(* What the scheduler promises its processes, whatever its policy and      *)
(* however it is activated: a process alternates between waiting and       *)
(* executing, at most Capacity of them execute at once, work done is never *)
(* lost or repeated by a context switch, and while the system is open a    *)
(* process leaves it only after the work it needs.  At shutdown those that *)
(* wait are discarded.                                                     *)
(***************************************************************************)
EXTENDS Naturals, FiniteSets

CONSTANTS Procs, Capacity

VARIABLES
    phase,   \* of each process: "ready", "running" or "gone"
    work,    \* the instructions it has executed
    need,    \* those it has to execute, chosen once
    open     \* no shutdown has been asked for

vars == <<phase, work, need, open>>

In(ph) == {p \in Procs : phase[p] = ph}

Init ==
    /\ phase = [p \in Procs |-> "ready"]
    /\ work = [p \in Procs |-> 0]
    /\ need \in [Procs -> Nat]
    /\ open = TRUE

Start(p) ==
    /\ phase[p] = "ready" /\ Cardinality(In("running")) < Capacity
    /\ phase' = [phase EXCEPT ![p] = "running"]
    /\ UNCHANGED <<work, need, open>>

Suspend(p) ==
    /\ phase[p] = "running"
    /\ phase' = [phase EXCEPT ![p] = "ready"]
    /\ UNCHANGED <<work, need, open>>

\* The clock moves any of the executing processes by one instruction each.
Execute ==
    /\ \E S \in SUBSET In("running") :
          work' = [p \in Procs |-> IF p \in S THEN work[p] + 1 ELSE work[p]]
    /\ UNCHANGED <<phase, need, open>>

Finish(p) ==
    /\ phase[p] = "running" /\ work[p] >= need[p]
    /\ phase' = [phase EXCEPT ![p] = "gone"]
    /\ work' = [work EXCEPT ![p] = 0]
    /\ UNCHANGED <<need, open>>

Close == open /\ open' = FALSE /\ UNCHANGED <<phase, work, need>>

Discard ==
    /\ ~open
    /\ \E S \in SUBSET In("ready") :
          /\ phase' = [p \in Procs |-> IF p \in S THEN "gone" ELSE phase[p]]
          /\ work' = [p \in Procs |-> IF p \in S THEN 0 ELSE work[p]]
    /\ UNCHANGED <<need, open>>

Next == (\E p \in Procs : Start(p) \/ Suspend(p) \/ Finish(p)) \/ Execute \/ Close \/ Discard

Spec == Init /\ [][Next]_vars
=============================================================================
