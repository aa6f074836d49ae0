------------------------------- MODULE Queues -------------------------------
(***************************************************************************)
(* What the operations of a ProcessQueue (process.c) and the shift loops   *)
(* over the arrays of a core do to the sequence of elements that they hold,*)
(* front first.  Module RingQueue has the array itself.                    *)
(***************************************************************************)
EXTENDS Naturals, Sequences

\* Mutant of IsFull: an off-by-one that gives up the last slot.
FullOneEarly(q, capacity) == Len(q) + 1 >= capacity

IsFull(q, capacity) == Len(q) >= capacity

\* enqueue_process: a full queue is left as it is.
Enqueued(q, x, capacity) == IF IsFull(q, capacity) THEN q ELSE Append(q, x)

\* `for (l = k; l < n - 1; l++) a[l] = a[l + 1]; n--'.
DropAt(s, k) == [j \in 1 .. Len(s) - 1 |-> IF j < k THEN s[j] ELSE s[j + 1]]

\* Mutant of BfsRemove: the shift starts one slot after the selected one.
GapNotClosed(q, i, capacity) ==
    [j \in 1 .. Len(q) - 1 |->
        IF j > i \/ capacity + j <= i + Len(q) - 1 THEN q[j + 1] ELSE q[j]]

\* BFS takes the element i out of the middle.  The shift that closes the gap
\* runs over Len(q) - 1 slots of the ring whichever i is: past the rear it
\* copies dead slots, and in a ring that is nearly full it comes round to the
\* front and shifts elements that were in their place (RingQueue shows that
\* this is what the loop computes).
BfsRemove(q, i, capacity) ==
    [j \in 1 .. Len(q) - 1 |->
        IF j >= i \/ capacity + j <= i + Len(q) - 2 THEN q[j + 1] ELSE q[j]]
=============================================================================
