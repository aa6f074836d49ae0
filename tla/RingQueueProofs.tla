-------------------------- MODULE RingQueueProofs --------------------------
(***************************************************************************)
(* Theorems about module RingQueue, for rings of every size: the counters  *)
(* agree, no slot that the callers reach is garbage, and the shift loop of *)
(* the BFS branch of select_next_process computes the closed form that     *)
(* module Scheduler uses for it.                                           *)
(***************************************************************************)
EXTENDS RingQueue, QueuesProofs

\* An index after it has come round the ring at most once.
Wrap(k) == IF k < max_capacity THEN k ELSE k - max_capacity

\* The slot of the j-th element, and how far behind slot `at' a slot stands.
Slot(j) == Wrap(front + j - 1)
Behind(i, at) == IF at <= i THEN i - at ELSE i - at + max_capacity

\* A sum of two indices is reduced by `%' to at most one subtraction.
LEMMA WrapsOnce == \A k \in 0 .. 2 * max_capacity - 1 : k % max_capacity = Wrap(k)
<1>. DEFINE N == max_capacity
<1>1. N \in Nat \ {0}
  BY RingAssumption
<1>. HIDE DEF N
<1>2. \A k \in 0 .. 2 * N - 1 : k < N => k % N = k
  BY <1>1
<1>3. \A k \in 0 .. 2 * N - 1 : k >= N => k % N = k - N
  BY <1>1
<1>4. \A k \in 0 .. 2 * N - 1 : k % N = IF k < N THEN k ELSE k - N
  BY <1>1, <1>2, <1>3
<1>. QED
  BY <1>4 DEF N, Wrap

\* The array after m iterations of the loop, in one step: the slots that stand
\* less than m behind the start have the value of the slot after them.
ClosedShift(at, m) ==
    [i \in Indices |-> IF Behind(i, at) < m THEN queue[Wrap(i + 1)] ELSE queue[i]]

\* One iteration of the loop.
Iterated(f, at, m) ==
    IF m = 0 THEN queue
    ELSE LET current_idx == (at + m - 1) % max_capacity
         IN  [f[m - 1] EXCEPT ![current_idx] = f[m - 1][(current_idx + 1) % max_capacity]]

\* The closed form of every iteration follows from that of the one before.
LEMMA ClosedStep ==
    ASSUME queue \in [Indices -> Elements \cup {Garbage}],
           NEW at \in Indices, NEW n \in 0 .. max_capacity - 1,
           NEW f, NEW m \in 0 .. n,
           m # 0 => f[m - 1] = ClosedShift(at, m - 1)
    PROVE  Iterated(f, at, m) = ClosedShift(at, m)
<1>. DEFINE N == max_capacity
<1>1. N \in Nat \ {0} /\ at \in 0 .. N - 1 /\ n \in 0 .. N - 1 /\ m \in 0 .. n
  BY RingAssumption DEF Indices
<1>2. CASE m = 0
  <2>1. \A i \in Indices : ~(Behind(i, at) < 0)
    BY <1>1 DEF Behind, Indices
  <2>2. ClosedShift(at, m) = [i \in Indices |-> queue[i]]
    BY <1>2, <2>1 DEF ClosedShift
  <2>. QED
    BY <1>2, <2>2 DEF Iterated
<1>3. CASE m # 0
  <2>. DEFINE cur == Wrap(at + m - 1)
              nxt == Wrap(cur + 1)
              g == ClosedShift(at, m - 1)
  <2>1. (at + m - 1) % N = cur /\ cur \in Indices
    <3>1. at + m - 1 \in 0 .. 2 * N - 1
      BY <1>1, <1>3
    <3>2. cur \in Indices
      BY <1>1, <1>3 DEF Wrap, Indices
    <3>. QED
      BY <3>1, <3>2, WrapsOnce
  <2>2. (cur + 1) % N = nxt /\ nxt \in Indices
    <3>1. cur + 1 \in 0 .. 2 * N - 1
      BY <1>1, <2>1 DEF Indices
    <3>2. nxt \in Indices
      <4>. HIDE DEF cur
      <4>. QED
        BY <1>1, <2>1 DEF Wrap, Indices
    <3>. QED
      BY <3>1, <3>2, WrapsOnce
  <2>3. Iterated(f, at, m) = [g EXCEPT ![cur] = g[nxt]]
    BY <1>3, <2>1, <2>2 DEF Iterated
  <2>4. ~(Behind(nxt, at) < m - 1)
    BY <1>1, <1>3 DEF Behind, Wrap
  <2>5. g[nxt] = queue[nxt]
    BY <2>2, <2>4 DEF ClosedShift
  <2>6. Behind(cur, at) = m - 1
    BY <1>1, <1>3 DEF Behind, Wrap
  <2>7. \A i \in Indices : i # cur => (Behind(i, at) < m <=> Behind(i, at) < m - 1)
    BY <1>1, <1>3 DEF Behind, Wrap, Indices
  <2>8. Behind(cur, at) < m
    BY <2>6, <1>1
  <2>. HIDE DEF cur, nxt
  <2>9. \A i \in Indices : [g EXCEPT ![cur] = g[nxt]][i] = ClosedShift(at, m)[i]
    <3>. TAKE i \in Indices
    <3>1. CASE i = cur
      <4>1. ClosedShift(at, m)[i] = queue[Wrap(cur + 1)]
        BY <3>1, <2>8 DEF ClosedShift
      <4>. QED
        BY <3>1, <4>1, <2>5 DEF nxt, ClosedShift
    <3>2. CASE i # cur
      BY <3>2, <2>7 DEF ClosedShift
    <3>. QED
      BY <3>1, <3>2
  <2>. QED
    BY <2>3, <2>9 DEF ClosedShift
<1>. QED
  BY <1>2, <1>3

\* The loop computes its closed form: the recursive function exists, and a
\* least iteration at which it differs would differ from the one before.
LEMMA LoopIsShift ==
    ASSUME queue \in [Indices -> Elements \cup {Garbage}],
           NEW at \in Indices, NEW n \in 0 .. max_capacity - 1
    PROVE  Shifted(at, n) = ClosedShift(at, n)
<1>. DEFINE F(f) == [m \in 0 .. n |-> Iterated(f, at, m)]
            g == [m \in 0 .. n |-> ClosedShift(at, m)]
            loop == CHOOSE f : f = F(f)
<1>1. n \in Nat
  BY RingAssumption
<1>2. \A m \in 0 .. n : Iterated(g, at, m) = ClosedShift(at, m)
  <2>. TAKE m \in 0 .. n
  <2>1. m # 0 => g[m - 1] = ClosedShift(at, m - 1)
    BY <1>1
  <2>. QED
    BY <2>1, ClosedStep
<1>3. g = F(g)
  BY <1>2
<1>. HIDE DEF g
<1>4. loop = F(loop)
  BY <1>3
<1>5. Shifted(at, n) = loop[n]
  BY DEF Shifted, Iterated
<1>. HIDE DEF loop
<1>. DEFINE T == {m \in 0 .. n : loop[m] # ClosedShift(at, m)}
<1>6. T = {}
  <2>1. SUFFICES ASSUME T # {}
                 PROVE  FALSE
    OBVIOUS
  <2>2. T \in SUBSET Nat
    OBVIOUS
  <2>3. PICK m \in T : \A y \in T : m <= y
    BY <2>1, <2>2, LeastNat
  <2>4. m # 0 => m - 1 \notin T /\ m - 1 \in 0 .. n
    BY <2>3
  <2>5. m # 0 => loop[m - 1] = ClosedShift(at, m - 1)
    BY <2>4
  <2>6. loop[m] = Iterated(loop, at, m)
    BY <1>4, <2>3
  <2>7. loop[m] = ClosedShift(at, m)
    BY <2>5, <2>6, <2>3, ClosedStep
  <2>. QED
    BY <2>7, <2>3
<1>. QED
  BY <1>1, <1>5, <1>6

----------------------------------------------------------------------------
\* The inductive invariant: the three invariants that the runs check, and a
\* rear that is still before the array only while nothing was ever enqueued.
RingInv ==
    /\ TypeOK /\ CountersAgree /\ NoGarbage
    /\ rear = -1 => current_size = 0

\* The contents, slot by slot and without any remainder.
ReadBySlot ==
    /\ \A j \in 1 .. max_capacity : Slot(j) \in Indices
    /\ Contents = [j \in 1 .. current_size |-> queue[Slot(j)]]
    /\ Contents \in Seq(Elements \cup {Garbage}) /\ Len(Contents) = current_size

\* This is how they are read in every state of the right type.
LEMMA Slots == TypeOK => ReadBySlot
<1>. SUFFICES ASSUME TypeOK
              PROVE  ReadBySlot
  OBVIOUS
<1>. DEFINE N == max_capacity
<1>1. N \in Nat \ {0} /\ front \in 0 .. N - 1 /\ current_size \in 0 .. N
  BY RingAssumption DEF TypeOK, Indices
<1>2. \A j \in 1 .. N : Slot(j) \in Indices
  BY <1>1 DEF Slot, Wrap, Indices
<1>3. \A j \in 1 .. N : (front + j - 1) % N = Slot(j)
  <2>. TAKE j \in 1 .. N
  <2>1. front + j - 1 \in 0 .. 2 * N - 1
    BY <1>1
  <2>. QED
    BY <2>1, WrapsOnce DEF Slot
<1>. HIDE DEF N
<1>4. \A j \in 1 .. current_size : j \in 1 .. N
  BY <1>1
<1>5. Contents = [j \in 1 .. current_size |-> queue[Slot(j)]]
  BY <1>3, <1>4 DEF Contents, N
<1>6. \A j \in 1 .. current_size : queue[Slot(j)] \in Elements \cup {Garbage}
  BY <1>2, <1>4 DEF TypeOK, N
<1>. QED
  BY <1>1, <1>2, <1>5, <1>6 DEF N, ReadBySlot

\* What enqueue_process does to the counters and to the contents.
LEMMA Enqueues ==
    ASSUME RingInv, NEW x \in Elements, enqueue_process(x)
    PROVE  RingInv' /\ Contents' = Append(Contents, x)
<1>. DEFINE N == max_capacity
            r == Wrap(front + current_size)
<1>1. N \in Nat \ {0} /\ front \in 0 .. N - 1 /\ current_size \in 0 .. N - 1
  BY RingAssumption DEF RingInv, TypeOK, Indices, enqueue_process
<1>2. r \in 0 .. N - 1
  BY <1>1 DEF Wrap
<1>3. rear' = r
  <2>1. front + current_size \in 0 .. 2 * N - 1
    BY <1>1
  <2>2. (front + current_size) % N = r
    BY <2>1, WrapsOnce
  <2>. QED
    BY <2>2 DEF RingInv, CountersAgree, enqueue_process
<1>4. front' = front /\ current_size' = current_size + 1 /\ queue' = [queue EXCEPT ![r] = x]
  BY <1>3 DEF enqueue_process
<1>5. TypeOK'
  <2>1. current_size' \in 0 .. N /\ rear' \in 0 .. N - 1
    BY <1>1, <1>2, <1>3, <1>4
  <2>. HIDE DEF r
  <2>2. queue' \in [Indices -> Elements \cup {Garbage}]
    BY <1>4 DEF RingInv, TypeOK
  <2>. QED
    BY <1>1, <1>4, <2>1, <2>2 DEF TypeOK, Indices
<1>6. CountersAgree'
  <2>1. front + current_size + 1 \in 0 .. 2 * N - 1 /\ r + 1 \in 0 .. 2 * N - 1
    BY <1>1, <1>2
  <2>2. Wrap(front + current_size + 1) = Wrap(r + 1)
    BY <1>1 DEF Wrap
  <2>3. (front + current_size + 1) % N = (r + 1) % N
    BY <2>1, <2>2, WrapsOnce
  <2>. HIDE DEF r
  <2>4. front + (current_size + 1) = front + current_size + 1
    BY <1>1
  <2>. QED
    BY <1>3, <1>4, <2>3, <2>4 DEF CountersAgree
<1>7. \A j \in 1 .. N : Slot(j)' = Slot(j)
  BY <1>4 DEF Slot, Wrap
<1>8. Slot(current_size + 1) = r
  BY <1>1 DEF Slot
<1>9. \A j \in 1 .. current_size : Slot(j) # r
  BY <1>1 DEF Slot, Wrap
<1>10. Contents' = [j \in 1 .. current_size' |-> queue'[Slot(j)']]
  <2>1. TypeOK' => ReadBySlot'
    BY Slots, PTL
  <2>. QED
    BY <1>5, <2>1 DEF ReadBySlot
<1>. HIDE DEF r
<1>11. Contents' = [j \in 1 .. current_size + 1 |-> IF j = current_size + 1 THEN x ELSE queue[Slot(j)]]
  <2>1. queue \in [Indices -> Elements \cup {Garbage}] /\ r \in Indices
    BY <1>2 DEF RingInv, TypeOK, Indices
  <2>2. \A j \in 1 .. current_size + 1 :
           queue'[Slot(j)'] = IF j = current_size + 1 THEN x ELSE queue[Slot(j)]
    <3>. TAKE j \in 1 .. current_size + 1
    <3>1. j \in 1 .. N
      BY <1>1
    <3>2. CASE j = current_size + 1
      BY <1>4, <1>7, <1>8, <2>1, <3>1, <3>2
    <3>3. CASE j # current_size + 1
      <4>1. j \in 1 .. current_size
        BY <1>1, <3>3
      <4>2. Slot(j) \in Indices
        BY <3>1, Slots DEF RingInv, ReadBySlot
      <4>. QED
        BY <1>4, <1>7, <1>9, <2>1, <3>1, <3>3, <4>1, <4>2
    <3>. QED
      BY <3>2, <3>3
  <2>. QED
    BY <1>4, <1>10, <2>2
<1>12. Contents = [j \in 1 .. current_size |-> queue[Slot(j)]] /\ Len(Contents) = current_size
  BY Slots DEF RingInv, ReadBySlot
<1>13. Contents' = Append(Contents, x)
  BY <1>1, <1>11, <1>12
<1>14. NoGarbage'
  <2>1. \A j \in 1 .. current_size : Contents[j] # Garbage
    BY DEF RingInv, NoGarbage
  <2>2. x # Garbage
    BY RingAssumption
  <2>3. \A j \in 1 .. current_size + 1 : Contents'[j] # Garbage
    BY <1>1, <1>11, <1>12, <2>1, <2>2
  <2>. QED
    BY <1>4, <2>3 DEF NoGarbage
<1>. QED
  BY <1>2, <1>3, <1>5, <1>6, <1>13, <1>14 DEF RingInv

\* The tail of a sequence, index by index.
LEMMA TailByIndex ==
    ASSUME NEW S, NEW s \in Seq(S), s # <<>>
    PROVE  Tail(s) = [j \in 1 .. Len(s) - 1 |-> s[j + 1]]
<1>1. Tail(s) \in Seq(S) /\ Len(Tail(s)) = Len(s) - 1 /\ Len(s) \in Nat \ {0}
  BY HeadTailProperties
<1>2. \A j \in 1 .. Len(s) - 1 : Tail(s)[j] = s[j + 1]
  BY <1>1
<1>3. Tail(s) = [j \in 1 .. Len(s) - 1 |-> Tail(s)[j]]
  BY <1>1, LenProperties
<1>. QED
  BY <1>2, <1>3

\* What dequeue_process does.
LEMMA Dequeues ==
    ASSUME RingInv, dequeue_process
    PROVE  RingInv' /\ Contents # <<>> /\ Contents' = Tail(Contents)
<1>. DEFINE N == max_capacity
            f == Wrap(front + 1)
<1>1. N \in Nat \ {0} /\ front \in 0 .. N - 1 /\ current_size \in 1 .. N
  BY RingAssumption DEF RingInv, TypeOK, Indices, dequeue_process
<1>2. f \in 0 .. N - 1
  BY <1>1 DEF Wrap
<1>3. front' = f
  <2>1. front + 1 \in 0 .. 2 * N - 1
    BY <1>1
  <2>. QED
    BY <2>1, WrapsOnce DEF dequeue_process
<1>4. current_size' = current_size - 1 /\ queue' = queue /\ rear' = rear
  BY DEF dequeue_process
<1>5. TypeOK'
  <2>1. current_size' \in 0 .. N
    BY <1>1, <1>4
  <2>. HIDE DEF f
  <2>. QED
    BY <1>2, <1>3, <1>4, <2>1 DEF RingInv, TypeOK, Indices
<1>6. CountersAgree'
  <2>1. front + current_size \in 0 .. 2 * N - 1 /\ f + (current_size - 1) \in 0 .. 2 * N - 1
    BY <1>1, <1>2
  <2>2. Wrap(front + current_size) = Wrap(f + (current_size - 1))
    BY <1>1 DEF Wrap
  <2>3. (front + current_size) % N = (f + (current_size - 1)) % N
    BY <2>1, <2>2, WrapsOnce
  <2>. HIDE DEF f
  <2>. QED
    BY <1>3, <1>4, <2>3 DEF RingInv, CountersAgree
<1>7. \A j \in 1 .. current_size - 1 : Slot(j)' = Slot(j + 1)
  BY <1>1, <1>3 DEF Slot, Wrap
<1>8. Contents' = [j \in 1 .. current_size' |-> queue'[Slot(j)']]
  <2>1. TypeOK' => ReadBySlot'
    BY Slots, PTL
  <2>. QED
    BY <1>5, <2>1 DEF ReadBySlot
<1>9. Contents = [j \in 1 .. current_size |-> queue[Slot(j)]]
  BY Slots DEF RingInv, ReadBySlot
<1>10. Len(Contents) = current_size /\ Contents \in Seq(Elements \cup {Garbage})
  BY Slots DEF RingInv, ReadBySlot
<1>11. \A j \in 1 .. current_size - 1 : queue'[Slot(j)'] = Contents[j + 1]
  BY <1>1, <1>4, <1>7, <1>9
<1>12. Contents' = [j \in 1 .. current_size - 1 |-> Contents[j + 1]]
  BY <1>4, <1>8, <1>11
<1>13. NoGarbage'
  <2>1. \A j \in 1 .. current_size : Contents[j] # Garbage
    BY DEF RingInv, NoGarbage
  <2>2. \A j \in 1 .. current_size - 1 : Contents'[j] = Contents[j + 1] /\ j + 1 \in 1 .. current_size
    BY <1>1, <1>12
  <2>. QED
    BY <1>4, <2>1, <2>2 DEF NoGarbage
<1>14. rear' = -1 => current_size' = 0
  BY <1>1, <1>4 DEF RingInv
<1>15. Contents # <<>>
  BY <1>1, <1>10
<1>16. Contents' = Tail(Contents)
  <2>1. Tail(Contents) = [j \in 1 .. Len(Contents) - 1 |-> Contents[j + 1]]
    BY <1>10, <1>15, TailByIndex
  <2>. QED
    BY <1>10, <1>12, <2>1
<1>. QED
  BY <1>5, <1>6, <1>13, <1>14, <1>15, <1>16 DEF RingInv

\* What the removal of the i-th element does: the shift never wraps into what
\* it has already moved, so that it has the closed form of module Queues.
LEMMA Removes ==
    ASSUME RingInv, NEW i \in 1 .. max_capacity, RemoveSelected(i)
    PROVE  RingInv' /\ i \in 1 .. Len(Contents) /\ Contents' = BfsRemove(Contents, i, max_capacity)
<1>. DEFINE N == max_capacity
            at == Slot(i)
            r == Wrap(rear - 1 + N)
<1>1. /\ N \in Nat \ {0} /\ front \in 0 .. N - 1 /\ current_size \in 1 .. N
      /\ i \in 1 .. current_size /\ rear \in 0 .. N - 1
  BY RingAssumption DEF RingInv, TypeOK, Indices, RemoveSelected
<1>2. at \in Indices
  BY Slots DEF RingInv, ReadBySlot
<1>3. (front + i - 1) % N = at
  <2>1. front + i - 1 \in 0 .. 2 * N - 1
    BY <1>1
  <2>. QED
    BY <2>1, WrapsOnce DEF Slot
<1>4. queue \in [Indices -> Elements \cup {Garbage}]
  BY DEF RingInv, TypeOK
<1>5. queue' = ClosedShift(at, current_size - 1)
  <2>1. current_size - 1 \in 0 .. N - 1
    BY <1>1
  <2>. HIDE DEF at
  <2>2. queue' = Shifted(at, current_size - 1)
    BY <1>3 DEF RemoveSelected
  <2>. QED
    BY <1>2, <1>4, <2>1, <2>2, LoopIsShift
<1>6. r \in 0 .. N - 1
  BY <1>1 DEF Wrap
<1>7. rear' = r
  <2>1. rear - 1 + N \in 0 .. 2 * N - 1
    BY <1>1
  <2>. QED
    BY <2>1, WrapsOnce DEF RemoveSelected
<1>8. front' = front /\ current_size' = current_size - 1
  BY DEF RemoveSelected
<1>9. TypeOK'
  <2>1. current_size' \in 0 .. N
    BY <1>1, <1>8
  <2>2. \A k \in Indices : Wrap(k + 1) \in Indices
    BY <1>1 DEF Wrap, Indices
  <2>. HIDE DEF at, r
  <2>3. queue' \in [Indices -> Elements \cup {Garbage}]
    BY <1>4, <1>5, <2>2 DEF ClosedShift
  <2>. QED
    BY <1>1, <1>6, <1>7, <1>8, <2>1, <2>3 DEF TypeOK, Indices
<1>10. CountersAgree'
  <2>1. /\ front + current_size \in 0 .. 2 * N - 1 /\ rear + 1 \in 0 .. 2 * N - 1
        /\ front + (current_size - 1) \in 0 .. 2 * N - 1 /\ r + 1 \in 0 .. 2 * N - 1
    BY <1>1, <1>6
  <2>2. Wrap(front + current_size) = Wrap(rear + 1)
    BY <2>1, WrapsOnce DEF RingInv, CountersAgree
  <2>3. Wrap(front + (current_size - 1)) = Wrap(r + 1)
    BY <1>1, <2>2 DEF Wrap
  <2>4. (front + (current_size - 1)) % N = (r + 1) % N
    BY <2>1, <2>3, WrapsOnce
  <2>. HIDE DEF r
  <2>. QED
    BY <1>7, <1>8, <2>4 DEF CountersAgree
<1>11. \A j \in 1 .. N : Slot(j)' = Slot(j)
  BY <1>8 DEF Slot, Wrap
<1>12. \A j \in 1 .. current_size - 1 : Slot(j) \in Indices /\ Wrap(Slot(j) + 1) = Slot(j + 1)
  BY <1>1 DEF Slot, Wrap, Indices
<1>13. \A j \in 1 .. current_size - 1 :
          Behind(Slot(j), at) < current_size - 1 <=> (j >= i \/ N + j <= i + current_size - 2)
  BY <1>1 DEF Slot, Wrap, Behind
<1>14. Contents' = [j \in 1 .. current_size' |-> queue'[Slot(j)']]
  <2>1. TypeOK' => ReadBySlot'
    BY Slots, PTL
  <2>. QED
    BY <1>9, <2>1 DEF ReadBySlot
<1>15. Contents = [j \in 1 .. current_size |-> queue[Slot(j)]] /\ Len(Contents) = current_size
  BY Slots DEF RingInv, ReadBySlot
<1>. HIDE DEF at
<1>16. \A j \in 1 .. current_size - 1 :
          /\ j \in 1 .. N /\ j \in 1 .. current_size /\ j + 1 \in 1 .. current_size
          /\ queue'[Slot(j)'] = IF j >= i \/ N + j <= i + current_size - 2
                                THEN Contents[j + 1] ELSE Contents[j]
  <2>. TAKE j \in 1 .. current_size - 1
  <2>1. j \in 1 .. N /\ j \in 1 .. current_size /\ j + 1 \in 1 .. current_size
    BY <1>1
  <2>2. Contents[j] = queue[Slot(j)] /\ Contents[j + 1] = queue[Slot(j + 1)]
    BY <1>15, <2>1
  <2>3. queue'[Slot(j)] = IF Behind(Slot(j), at) < current_size - 1
                          THEN queue[Slot(j + 1)] ELSE queue[Slot(j)]
    BY <1>5, <1>12 DEF ClosedShift
  <2>. QED
    BY <1>11, <1>13, <2>1, <2>2, <2>3
<1>17. Contents' = BfsRemove(Contents, i, N)
  BY <1>8, <1>14, <1>15, <1>16 DEF BfsRemove
<1>18. NoGarbage'
  <2>1. \A j \in 1 .. current_size : Contents[j] # Garbage
    BY DEF RingInv, NoGarbage
  <2>2. \A j \in 1 .. current_size - 1 : Contents'[j] # Garbage
    BY <1>8, <1>14, <1>16, <2>1
  <2>. QED
    BY <1>8, <2>2 DEF NoGarbage
<1>. QED
  BY <1>1, <1>6, <1>7, <1>9, <1>10, <1>15, <1>17, <1>18 DEF RingInv

\* The initial ring is empty.
LEMMA InitRing == Init => RingInv /\ Contents = <<>>
<1>. SUFFICES ASSUME Init
              PROVE  RingInv /\ Contents = <<>>
  OBVIOUS
<1>1. TypeOK
  BY RingAssumption DEF Init, TypeOK, Indices
<1>2. (front + current_size) % max_capacity = (rear + 1) % max_capacity
  BY DEF Init
<1>3. Contents = <<>> /\ NoGarbage /\ current_size = 0
  BY DEF Init, Contents, NoGarbage
<1>. QED
  BY <1>1, <1>2, <1>3 DEF RingInv, CountersAgree

\* Every operation keeps the invariant.
LEMMA NextRing == RingInv /\ [Next]_vars => RingInv'
<1>. SUFFICES ASSUME RingInv, [Next]_vars
              PROVE  RingInv'
  OBVIOUS
<1>1. ASSUME NEW x \in Elements, enqueue_process(x)
      PROVE  RingInv'
  BY <1>1, Enqueues
<1>2. CASE dequeue_process
  BY <1>2, Dequeues
<1>3. ASSUME NEW i \in 1 .. max_capacity, RemoveSelected(i)
      PROVE  RingInv'
  BY <1>3, Removes
<1>4. CASE UNCHANGED vars
  BY <1>4 DEF vars, RingInv, TypeOK, CountersAgree, NoGarbage, Contents
<1>. QED
  BY <1>1, <1>2, <1>3, <1>4 DEF Next

\* The ring of every capacity keeps its inductive invariant.
LEMMA RingAlways == Spec => []RingInv
<1>. QED
  BY InitRing, NextRing, PTL DEF Spec

----------------------------------------------------------------------------
\* In a ring of any size front, rear and current_size stay in the array of
\* create_process_queue.
THEOREM RingTyped == Spec => []TypeOK
<1>1. RingInv => TypeOK
  BY DEF RingInv
<1>. QED
  BY <1>1, RingAlways, PTL

\* After any sequence of enqueue_process, dequeue_process and BFS removals the
\* three counters of the ring agree, also when it is full or empty.
THEOREM RingCounters == Spec => []CountersAgree
<1>1. RingInv => CountersAgree
  BY DEF RingInv
<1>. QED
  BY <1>1, RingAlways, PTL

\* What these operations leave between front and rear was enqueued: no caller
\* reads a slot as malloc left it.
THEOREM RingReadsFilled == Spec => []NoGarbage
<1>1. RingInv => NoGarbage
  BY DEF RingInv
<1>. QED
  BY <1>1, RingAlways, PTL

\* The loop by which select_next_process takes a PCB out of the middle of the
\* ring does to the sequence what BfsRemove of module Queues says, whatever the
\* capacity, the occupation, the place of the front and the element selected.
THEOREM RemovalIsBfsRemove == Spec => RemovalForm
<1>1. RingInv /\ [Next]_vars =>
        [\A i \in 1 .. max_capacity :
            RemoveSelected(i) => Contents' = BfsRemove(Contents, i, max_capacity)]_vars
  BY Removes
<1>. QED
  BY <1>1, RingAlways, PTL DEF Spec, RemovalForm

\* In a ring that is no more than about half full every operation is one of
\* the FIFO queue with removal: only the selected element goes, and the others
\* keep their order.
THEOREM RefinesBoundedQueue == Spec => ImplementsBoundedQueue
<1>1. Init => Fifo!Init
  BY InitRing DEF Fifo!Init
<1>2. RingInv /\ [Next]_vars => [2 * current_size < max_capacity + 3 => [Fifo!Next]_Contents]_vars
  <2>. SUFFICES ASSUME RingInv, Next, 2 * current_size < max_capacity + 3
                PROVE  [Fifo!Next]_Contents
    OBVIOUS
  <2>1. current_size \in 0 .. max_capacity /\ max_capacity \in Nat \ {0}
    BY RingAssumption DEF RingInv, TypeOK
  <2>2. Len(Contents) = current_size
    BY Slots DEF RingInv, ReadBySlot
  <2>3. ASSUME NEW x \in Elements, enqueue_process(x)
        PROVE  Fifo!Next
    <3>1. Contents' = Append(Contents, x)
      BY <2>3, Enqueues
    <3>2. ~(Len(Contents) >= max_capacity)
      BY <2>1, <2>2, <2>3 DEF enqueue_process
    <3>. QED
      BY <3>1, <3>2 DEF Fifo!Next, Fifo!Enqueue, Fifo!IsFull
  <2>4. CASE dequeue_process
    BY <2>4, Dequeues DEF Fifo!Next, Fifo!Dequeue
  <2>5. ASSUME NEW i \in 1 .. max_capacity, RemoveSelected(i)
        PROVE  Fifo!Next
    <3>1. i \in 1 .. Len(Contents) /\ Contents' = BfsRemove(Contents, i, max_capacity)
      BY <2>5, Removes
    <3>2. \A j \in 1 .. Len(Contents) - 1 :
             (j >= i \/ max_capacity + j <= i + Len(Contents) - 2) <=> ~(j < i)
      BY <2>1, <2>2, <3>1
    <3>3. Contents' = [j \in 1 .. Len(Contents) - 1 |->
                          IF j < i THEN Contents[j] ELSE Contents[j + 1]]
      BY <3>1, <3>2 DEF BfsRemove
    <3>. QED
      BY <3>1, <3>3 DEF Fifo!Next, Fifo!Take, Fifo!DropAt
  <2>. QED
    BY <2>3, <2>4, <2>5 DEF Next
<1>. QED
  BY <1>1, <1>2, RingAlways, PTL DEF Spec, ImplementsBoundedQueue
=============================================================================
