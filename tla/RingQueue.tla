----------------------------- MODULE RingQueue -----------------------------
(***************************************************************************)
(* The ring buffer behind a ProcessQueue: create_process_queue,            *)
(* enqueue_process and dequeue_process of process.c, and the removal of a  *)
(* selected element in the BFS branch of select_next_process.              *)
(***************************************************************************)
EXTENDS Integers, Sequences, FiniteSets, Queues

CONSTANTS
    Elements,      \* pointers to PCBs
    max_capacity,
    MaxElements,   \* bound: how many the callers ever have in the queue
    Garbage        \* what malloc leaves in the array

ASSUME RingAssumption ==
    /\ max_capacity \in Nat \ {0} /\ MaxElements \in Nat /\ Garbage \notin Elements

Indices == 0 .. max_capacity - 1

VARIABLES queue, front, rear, current_size

vars == <<queue, front, rear, current_size>>

Init ==
    /\ queue = [i \in Indices |-> Garbage]
    /\ front = 0 /\ rear = -1 /\ current_size = 0

\* The elements in the order in which the callers walk them.
Contents == [j \in 1 .. current_size |-> queue[(front + j - 1) % max_capacity]]

\* Mutant of enqueue_process: the element is stored before the rear advances.
EnqueueThenAdvance(x) ==
    /\ current_size < MaxElements
    /\ current_size < max_capacity
    /\ rear' = (rear + 1) % max_capacity
    /\ queue' = [queue EXCEPT ![rear] = x]
    /\ current_size' = current_size + 1
    /\ UNCHANGED front

\* Mutant of enqueue_process: the rear does not wrap.
EnqueueUnwrapped(x) ==
    /\ current_size < MaxElements
    /\ current_size < max_capacity
    /\ rear' = rear + 1
    /\ queue' = [queue EXCEPT ![rear'] = x]
    /\ current_size' = current_size + 1
    /\ UNCHANGED front

enqueue_process(x) ==
    /\ current_size < MaxElements
    /\ current_size < max_capacity
    /\ rear' = (rear + 1) % max_capacity
    /\ queue' = [queue EXCEPT ![rear'] = x]
    /\ current_size' = current_size + 1
    /\ UNCHANGED front

dequeue_process ==
    /\ current_size > 0
    /\ front' = (front + 1) % max_capacity
    /\ current_size' = current_size - 1
    /\ UNCHANGED <<queue, rear>>

\* The array after n iterations of the shift loop that starts at index `at'.
Shifted(at, n) ==
    LET loop[m \in 0 .. n] ==
            IF m = 0 THEN queue
            ELSE LET current_idx == (at + m - 1) % max_capacity
                 IN  [loop[m - 1] EXCEPT ![current_idx] =
                         loop[m - 1][(current_idx + 1) % max_capacity]]
    IN  loop[n]

\* Mutant of RemoveSelected: one iteration too few.
RemoveOnceTooFew(i) ==
    /\ i \in 1 .. current_size
    /\ queue' = Shifted((front + i - 1) % max_capacity,
                       IF current_size > 1 THEN current_size - 2 ELSE 0)
    /\ current_size' = current_size - 1
    /\ rear' = (rear - 1 + max_capacity) % max_capacity
    /\ UNCHANGED front

\* Mutant of RemoveSelected: the rear stays where it was.
RemoveWithoutRear(i) ==
    /\ i \in 1 .. current_size
    /\ queue' = Shifted((front + i - 1) % max_capacity, current_size - 1)
    /\ current_size' = current_size - 1
    /\ UNCHANGED <<front, rear>>

\* BFS has selected the i-th element; the deadlines may make it any of them.
RemoveSelected(i) ==
    /\ i \in 1 .. current_size
    /\ queue' = Shifted((front + i - 1) % max_capacity, current_size - 1)
    /\ current_size' = current_size - 1
    /\ rear' = (rear - 1 + max_capacity) % max_capacity
    /\ UNCHANGED front

Next ==
    \/ \E x \in Elements : enqueue_process(x)
    \/ dequeue_process
    \/ \E i \in 1 .. max_capacity : RemoveSelected(i)

Spec == Init /\ [][Next]_vars

----------------------------------------------------------------------------
\* The three counters of a ring agree: the rear is current_size - 1 slots
\* after the front, and the indices stay in the array.
TypeOK ==
    /\ queue \in [Indices -> Elements \cup {Garbage}]
    /\ front \in Indices /\ rear \in Indices \cup {-1} /\ current_size \in 0 .. max_capacity

CountersAgree == (front + current_size) % max_capacity = (rear + 1) % max_capacity

\* A pointer that the callers can reach was enqueued: garbage is never read.
NoGarbage == \A j \in 1 .. current_size : Contents[j] # Garbage

\* The closed form of the removal that module Scheduler uses is what the loop
\* computes, in rings of any occupation.
RemovalForm ==
    [][\A i \in 1 .. max_capacity :
          RemoveSelected(i) => Contents' = BfsRemove(Contents, i, max_capacity)]_vars

\* While the ring is at most about half full each step is one of BoundedQueue:
\* the removal loses, doubles or moves no other element.
Fifo == INSTANCE BoundedQueue WITH Capacity <- max_capacity, items <- Contents

ImplementsBoundedQueue ==
    Fifo!Init /\ [][2 * current_size < max_capacity + 3 => [Fifo!Next]_Contents]_vars
=============================================================================
