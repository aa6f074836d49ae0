---------------------------- MODULE QueuesProofs ----------------------------
(* Facts about the operators of Queues, and about least elements.          *)
EXTENDS Queues, Integers, SequenceTheorems, WellFoundedInduction, TLAPS

\* Appending to a queue keeps its elements where they are, adds the new one at
\* the rear unless the queue is full, and never exceeds the capacity.
LEMMA EnqueuedProperties ==
    ASSUME NEW S, NEW q \in Seq(S), NEW x \in S, NEW capacity \in Nat
    PROVE  /\ Enqueued(q, x, capacity) \in Seq(S)
           /\ Len(q) <= capacity => Len(Enqueued(q, x, capacity)) <= capacity
           /\ Len(q) < capacity => Enqueued(q, x, capacity) = Append(q, x)
<1>1. /\ Append(q, x) \in Seq(S) /\ Len(Append(q, x)) = Len(q) + 1 /\ Len(q) \in Nat
  BY AppendProperties, LenProperties
<1>2. CASE Len(q) >= capacity
  BY <1>1, <1>2 DEF Enqueued, IsFull
<1>3. CASE Len(q) < capacity
  BY <1>1, <1>3 DEF Enqueued, IsFull
<1>. QED
  BY <1>1, <1>2, <1>3

\* The shift loop shortens the sequence by the element at k, and moves each of
\* the others by at most one place.
LEMMA DropAtProperties ==
    ASSUME NEW S, NEW s \in Seq(S), NEW k \in 1 .. Len(s)
    PROVE  /\ DropAt(s, k) \in Seq(S)
           /\ Len(DropAt(s, k)) = Len(s) - 1
           /\ \A j \in 1 .. Len(s) - 1 :
                 DropAt(s, k)[j] = IF j < k THEN s[j] ELSE s[j + 1]
<1>1. Len(s) \in Nat /\ Len(s) - 1 \in Nat
  BY LenProperties
<1>2. \A j \in 1 .. Len(s) - 1 : (IF j < k THEN s[j] ELSE s[j + 1]) \in S
  BY <1>1, ElementOfSeq
<1>3. DropAt(s, k) \in [1 .. Len(s) - 1 -> S]
  BY <1>2 DEF DropAt
<1>. QED
  BY <1>1, <1>3 DEF DropAt

\* The removal of BFS shortens the queue by one, whatever the ring does.
LEMMA BfsRemoveProperties ==
    ASSUME NEW S, NEW q \in Seq(S), NEW i \in 1 .. Len(q), NEW capacity \in Nat
    PROVE  /\ BfsRemove(q, i, capacity) \in Seq(S)
           /\ Len(BfsRemove(q, i, capacity)) = Len(q) - 1
<1>1. Len(q) \in Nat /\ Len(q) - 1 \in Nat
  BY LenProperties
<1>2. \A j \in 1 .. Len(q) - 1 : q[j] \in S /\ q[j + 1] \in S
  BY <1>1, ElementOfSeq
<1>3. BfsRemove(q, i, capacity) \in [1 .. Len(q) - 1 -> S]
  BY <1>2 DEF BfsRemove
<1>. QED
  BY <1>1, <1>3

\* In a ring with enough room the removal of BFS is the removal of one element:
\* 2 * Len(q) - 3 < capacity keeps the shift from coming round to the front.
THEOREM BfsRemoveIsDropAt ==
    ASSUME NEW S, NEW q \in Seq(S), NEW i \in 1 .. Len(q), NEW capacity \in Nat,
           2 * Len(q) < capacity + 3
    PROVE  BfsRemove(q, i, capacity) = DropAt(q, i)
<1>1. Len(q) \in Nat
  BY LenProperties
<1>2. \A j \in 1 .. Len(q) - 1 : (j >= i \/ capacity + j <= i + Len(q) - 2) <=> ~(j < i)
  BY <1>1
<1>. QED
  BY <1>2 DEF BfsRemove, DropAt

\* A nonempty set of natural numbers has a least element.
LEMMA LeastNat ==
    ASSUME NEW T \in SUBSET Nat, T # {}
    PROVE  \E x \in T : \A y \in T : x <= y
<1>1. PICK x \in T : \A y \in T : ~ (<<y, x>> \in OpToRel(<, Nat))
  BY WFMin, NatLessThanWellFounded
<1>2. \A y \in T : ~(y < x)
  BY <1>1 DEF OpToRel
<1>. QED
  BY <1>2

\* So has a nonempty set of integers that is bounded from below.
LEMMA LeastInt ==
    ASSUME NEW T \in SUBSET Int, T # {}, NEW b \in Int, \A x \in T : b <= x
    PROVE  \E x \in T : \A y \in T : x <= y
<1>. DEFINE D == {x - b : x \in T}
<1>1. D \in SUBSET Nat /\ D # {}
  <2>1. \A x \in T : x - b \in Nat
    OBVIOUS
  <2>2. D # {}
    OBVIOUS
  <2>. QED
    BY <2>1, <2>2
<1>2. PICK d \in D : \A e \in D : d <= e
  BY <1>1, LeastNat
<1>3. PICK x \in T : d = x - b
  BY <1>2
<1>4. ASSUME NEW y \in T
      PROVE  x <= y
  <2>1. x - b <= y - b
    BY <1>2, <1>3
  <2>. QED
    BY <2>1
<1>. QED
  BY <1>4

\* D[m] is the minimum of the first i values of D, and its first occurrence.
FirstMin(D, i, m) ==
    /\ m \in 1 .. i
    /\ \A j \in 1 .. i : D[m] <= D[j]
    /\ \A j \in 1 .. i : D[j] = D[m] => m <= j

\* There is one.
LEMMA FirstMinExists ==
    ASSUME NEW n \in Nat, NEW D \in [1 .. n -> Nat], NEW i \in 1 .. n
    PROVE  \E m \in 1 .. n : FirstMin(D, i, m)
<1>. DEFINE V == {D[j] : j \in 1 .. i}
<1>1. V \in SUBSET Nat /\ V # {}
  OBVIOUS
<1>2. PICK v \in V : \A w \in V : v <= w
  BY <1>1, LeastNat
<1>. DEFINE T == {j \in 1 .. i : D[j] = v}
<1>3. T \in SUBSET Nat /\ T # {}
  BY <1>2
<1>4. PICK m \in T : \A j \in T : m <= j
  BY <1>3, LeastNat
<1>. QED
  BY <1>2, <1>4, SMTT(30) DEF FirstMin

\* One more value becomes the minimum if it is smaller.
LEMMA FirstMinMoves ==
    ASSUME NEW n \in Nat, NEW D \in [1 .. n -> Nat], NEW i \in 1 .. n,
           NEW m \in 1 .. n, FirstMin(D, i, m)
    PROVE  i # 1 => \A o \in 1 .. n : FirstMin(D, i - 1, o) => m = IF D[i] < D[o] THEN i ELSE o
<1>1. ASSUME i # 1, NEW o \in 1 .. n, FirstMin(D, i - 1, o)
      PROVE  m = IF D[i] < D[o] THEN i ELSE o
  <2>1. /\ i - 1 \in 1 .. n /\ i \in 1 .. i /\ o \in 1 .. i /\ o \in 1 .. i - 1 /\ m \in 1 .. i
        /\ \A j \in 1 .. i - 1 : j \in 1 .. i
        /\ \A j \in 1 .. i : j = i \/ j \in 1 .. i - 1
    BY <1>1 DEF FirstMin
  <2>2. D[i] \in Nat /\ D[o] \in Nat /\ D[m] \in Nat
    OBVIOUS
  <2>3. D[m] <= D[i] /\ D[m] <= D[o] /\ (D[i] = D[m] => m <= i) /\ (D[o] = D[m] => m <= o)
    BY <2>1 DEF FirstMin
  <2>4. m \in 1 .. i - 1 => D[o] <= D[m] /\ (D[m] = D[o] => o <= m)
    BY <1>1, <2>1 DEF FirstMin
  <2>. QED
    BY <2>1, <2>2, <2>3, <2>4
<1>. QED
  BY <1>1
=============================================================================
