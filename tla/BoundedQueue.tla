---------------------------- MODULE BoundedQueue ----------------------------
(* What the scheduler expects of a ProcessQueue: a bounded FIFO queue from  *)
(* which BFS may also take the element it has selected, wherever it stands. *)
EXTENDS Queues

CONSTANTS Elements, Capacity

VARIABLE items

Init == items = <<>>

Enqueue(x) == ~IsFull(items, Capacity) /\ items' = Append(items, x)

Dequeue == items # <<>> /\ items' = Tail(items)

Take(i) == i \in 1 .. Len(items) /\ items' = DropAt(items, i)

Next == (\E x \in Elements : Enqueue(x)) \/ Dequeue \/ (\E i \in 1 .. Capacity : Take(i))

Spec == Init /\ [][Next]_items
=============================================================================
