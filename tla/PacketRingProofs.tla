-------------------------- MODULE PacketRingProofs --------------------------
(***************************************************************************)
(* What the short-number comparisons of SerialNumber decide and what the   *)
(* slots of PacketRing keep, for every size of the number space and of the *)
(* ring.                                                                   *)
(***************************************************************************)
EXTENDS PacketRing, WellFoundedInduction, TLAPS

USE Zenon

(***************************************************************************)
(* Arithmetic of \div and % with a symbolic divisor.                       *)
(***************************************************************************)

\* Division with remainder: the definition of the % that SHORT_SN, the slot
\* computation and their comparisons use.
LEMMA DivMod ==
    \A x \in Nat, n \in Nat \ {0} :
        /\ x = n * (x \div n) + (x % n)
        /\ x % n \in 0..(n - 1)
        /\ x \div n \in Nat
  BY SMT

\* Distinct multiples of n are at least n apart.
LEMMA MultipleGap ==
    \A q, r \in Int, n \in Nat \ {0} : q < r => n * q + n <= n * r
  BY SMT

\* The remainder is determined by any decomposition.
LEMMA ModIs ==
    \A n \in Nat \ {0} : \A x, q \in Nat, r \in 0..(n - 1) :
        x = n * q + r => x % n = r
  <1> TAKE n \in Nat \ {0}
  <1> TAKE x, q \in Nat, r \in 0..(n - 1)
  <1> HAVE x = n * q + r
  <1> DEFINE p == x \div n
  <1>1. x = n * p + (x % n) /\ p \in Nat /\ x % n \in 0..(n - 1)
    BY DivMod
  <1> HIDE DEF p
  <1>2. CASE q < p
    BY SMT, <1>1, <1>2, MultipleGap
  <1>3. CASE p < q
    BY SMT, <1>1, <1>3, MultipleGap
  <1>4. CASE p = q
    BY SMT, <1>1, <1>4
  <1> QED
    BY SMT, <1>1, <1>2, <1>3, <1>4

\* Two indices less than n apart share a remainder only when they are equal:
\* why a ring slot, or a short number, names one packet of a window.
LEMMA ModUnique ==
    \A n \in Nat \ {0} : \A x, y \in Nat :
        x % n = y % n /\ x < y + n /\ y < x + n => x = y
  <1> TAKE n \in Nat \ {0}
  <1> TAKE x, y \in Nat
  <1> HAVE x % n = y % n /\ x < y + n /\ y < x + n
  <1> DEFINE q == x \div n
             r == y \div n
  <1>1. x = n * q + (x % n) /\ q \in Nat /\ x % n \in 0..(n - 1)
    BY DivMod
  <1>2. y = n * r + (y % n) /\ r \in Nat /\ y % n \in 0..(n - 1)
    BY DivMod
  <1> HIDE DEF q, r
  <1>3. CASE q < r
    BY SMT, <1>1, <1>2, <1>3, MultipleGap
  <1>4. CASE r < q
    BY SMT, <1>1, <1>2, <1>4, MultipleGap
  <1>5. CASE q = r
    BY <1>1, <1>2, <1>5
  <1> QED
    BY SMT, <1>1, <1>2, <1>3, <1>4, <1>5

\* When the ring divides the number space, the slot of a packet can be found
\* from its short number (ReceiveQueue::markCompleted) as from its index.
LEMMA ModOfMod ==
    \A c, m \in Nat \ {0} : m % c = 0 => \A x \in Nat : (x % m) % c = x % c
  <1> TAKE c, m \in Nat \ {0}
  <1> HAVE m % c = 0
  <1> TAKE x \in Nat
  <1> DEFINE k == m \div c
             q == x \div m
             r == x % m
             p == r \div c
             s == r % c
  <1>1. m = c * k /\ k \in Nat
    BY SMT, DivMod
  <1>2. x = m * q + r /\ q \in Nat /\ r \in 0..(m - 1)
    BY DivMod
  <1>3. r = c * p + s /\ p \in Nat /\ s \in 0..(c - 1)
    <2>1. r \in Nat
      BY SMT, <1>2
    <2> HIDE DEF r
    <2> QED
      BY <2>1, DivMod
  <1>4. SUFFICES x % c = s
    OBVIOUS
  <1> HIDE DEF k, q, r, p, s
  <1>5. m * q = c * (k * q)
    BY SMT, <1>1, <1>2
  <1>6. c * (k * q) + c * p = c * (k * q + p)
    BY SMT, <1>1, <1>2, <1>3
  <1>7. x = c * (k * q + p) + s
    BY SMT, <1>2, <1>3, <1>5, <1>6
  <1>8. k * q + p \in Nat
    BY SMT, <1>1, <1>2, <1>3
  <1> QED
    BY <1>3, <1>7, <1>8, ModIs

\* The position of y relative to x in the number space, for y in the space
\* of SNSpace numbers from x on.
LEMMA SameOrNextRound ==
    \A x, y \in Nat : x <= y /\ y < x + SNSpace =>
        IF SHORT_SN(x) <= SHORT_SN(y)
        THEN y - x = SHORT_SN(y) - SHORT_SN(x)
        ELSE y - x = SHORT_SN(y) - SHORT_SN(x) + SNSpace
  <1> TAKE x, y \in Nat
  <1> HAVE x <= y /\ y < x + SNSpace
  <1> DEFINE n == SNSpace
             q == x \div n
             r == y \div n
             a == x % n
             b == y % n
  <1>0. n \in Nat \ {0}
    BY SNSpaceAssumption
  <1>1. x = n * q + a /\ q \in Nat /\ a \in 0..(n - 1)
    BY <1>0, DivMod
  <1>2. y = n * r + b /\ r \in Nat /\ b \in 0..(n - 1)
    BY <1>0, DivMod
  <1>a. x <= y /\ y < x + n
    OBVIOUS
  <1>3. SUFFICES IF a <= b THEN y - x = b - a ELSE y - x = b - a + n
    BY DEF SHORT_SN
  <1> HIDE DEF n, q, r, a, b
  <1>4. CASE r < q
    BY SMT, <1>0, <1>1, <1>2, <1>a, <1>4, MultipleGap
  <1>5. CASE r = q
    BY SMT, <1>0, <1>1, <1>2, <1>a, <1>5
  <1>6. CASE r = q + 1
    <2>1. n * r = n * q + n
      BY SMT, <1>0, <1>1, <1>6
    <2> QED
      BY SMT, <2>1, <1>0, <1>1, <1>2, <1>a
  <1>7. CASE q + 1 < r
    <2>1. n * (q + 1) + n <= n * r
      BY SMT, <1>0, <1>1, <1>2, <1>7, MultipleGap
    <2>2. n * (q + 1) = n * q + n
      BY SMT, <1>0, <1>1
    <2> QED
      BY SMT, <2>1, <2>2, <1>0, <1>1, <1>2, <1>a
  <1> QED
    BY SMT, <1>1, <1>2, <1>4, <1>5, <1>6, <1>7

\* SHORT_SN yields a number of the space.
LEMMA ShortRange ==
    \A x \in Nat : SHORT_SN(x) \in 0..(SNSpace - 1)
  BY SNSpaceAssumption, DivMod DEF SHORT_SN

(***************************************************************************)
(* The decisions of the code.                                              *)
(***************************************************************************)

\* SendQueue::markCompleted recovers the cumulative acknowledgement from its
\* short number, and ignores an acknowledgement behind the tail, as long as
\* the acknowledgement is not SNSpace or more behind the head.
THEOREM AckedTailCorrect ==
    \A tail, head, ack \in Nat :
        /\ tail <= head /\ head < tail + SNSpace
        /\ ack <= head /\ head < ack + SNSpace
        => AckedTail(tail, head, SHORT_SN(ack)) = Max2(tail, ack)
  <1> TAKE tail, head, ack \in Nat
  <1> HAVE /\ tail <= head /\ head < tail + SNSpace
           /\ ack <= head /\ head < ack + SNSpace
  <1> DEFINE t == SHORT_SN(tail)
             h == SHORT_SN(head)
             a == SHORT_SN(ack)
  <1>0. SNSpace \in Nat \ {0}
    BY SNSpaceAssumption
  <1>1. t \in 0..(SNSpace - 1) /\ h \in 0..(SNSpace - 1) /\ a \in 0..(SNSpace - 1)
    BY ShortRange
  <1>2. IF t <= h THEN head - tail = h - t ELSE head - tail = h - t + SNSpace
    BY SameOrNextRound
  <1>3. IF a <= h THEN head - ack = h - a ELSE head - ack = h - a + SNSpace
    BY SameOrNextRound
  <1>4. AckedTail(tail, head, a) =
            CASE t <= h /\ t <= a /\ a <= h -> tail + (a - t)
              [] t > h /\ a <= h            -> head - (h - a)
              [] t > h /\ a >= t            -> tail + (a - t)
              [] OTHER                      -> tail
    BY DEF AckedTail
  <1> SUFFICES AckedTail(tail, head, a) = Max2(tail, ack)
    OBVIOUS
  <1> HIDE DEF t, h, a
  <1>5. CASE t <= h /\ t <= a /\ a <= h
    BY SMT, <1>0, <1>1, <1>2, <1>3, <1>4, <1>5 DEF Max2
  <1>6. CASE t <= h /\ ~(t <= a /\ a <= h)
    BY SMT, <1>0, <1>1, <1>2, <1>3, <1>4, <1>6 DEF Max2
  <1>7. CASE t > h /\ a <= h
    BY SMT, <1>0, <1>1, <1>2, <1>3, <1>4, <1>7 DEF Max2
  <1>8. CASE t > h /\ a > h /\ a >= t
    BY SMT, <1>0, <1>1, <1>2, <1>3, <1>4, <1>8 DEF Max2
  <1>9. CASE t > h /\ a > h /\ a < t
    BY SMT, <1>0, <1>1, <1>2, <1>3, <1>4, <1>9 DEF Max2
  <1> QED
    BY SMT, <1>1, <1>5, <1>6, <1>7, <1>8, <1>9

\* ReceiveQueue::markCompleted looks at a packet exactly when its index is in
\* the window, as long as the packet is at most SNSpace - wnd behind the tail.
THEOREM ReceiveWindowCorrect ==
    \A tail, wnd, index \in Nat :
        /\ wnd < SNSpace
        /\ index < tail + SNSpace
        /\ tail + wnd <= index + SNSpace
        => (InReceiveWindow(tail, wnd, SHORT_SN(index))
                <=> tail <= index /\ index < tail + wnd)
  <1> TAKE tail, wnd, index \in Nat
  <1> HAVE /\ wnd < SNSpace
           /\ index < tail + SNSpace
           /\ tail + wnd <= index + SNSpace
  <1> DEFINE s == SHORT_SN(tail)
             e == SHORT_SN(tail + wnd)
             i == SHORT_SN(index)
  <1>0. SNSpace \in Nat \ {0} /\ tail + wnd \in Nat
    BY SMT, SNSpaceAssumption
  <1>1. s \in 0..(SNSpace - 1) /\ e \in 0..(SNSpace - 1) /\ i \in 0..(SNSpace - 1)
    BY <1>0, ShortRange
  <1>2. IF s <= e THEN wnd = e - s ELSE wnd = e - s + SNSpace
    <2>1. tail <= tail + wnd /\ tail + wnd < tail + SNSpace
      BY SMT, <1>0
    <2>2. (tail + wnd) - tail = wnd
      BY SMT, <1>0
    <2> QED
      BY <1>0, <2>1, <2>2, SameOrNextRound
  <1>3. InReceiveWindow(tail, wnd, i) <=>
            IF s <= e THEN i >= s /\ i < e ELSE i >= s \/ i < e
    BY DEF InReceiveWindow
  <1>4. CASE tail <= index
    <2>1. IF s <= i THEN index - tail = i - s ELSE index - tail = i - s + SNSpace
      BY <1>0, <1>4, SameOrNextRound
    <2> HIDE DEF s, e, i
    <2> SUFFICES InReceiveWindow(tail, wnd, i) <=> index < tail + wnd
      BY <1>4 DEF i
    <2> QED
      BY SMT, <2>1, <1>0, <1>1, <1>2, <1>3
  <1>5. CASE index < tail
    <2>1. CASE tail < index + SNSpace
      <3>1. IF i <= s THEN tail - index = s - i ELSE tail - index = s - i + SNSpace
        BY SMT, <1>0, <1>5, <2>1, SameOrNextRound
      <3> HIDE DEF s, e, i
      <3> SUFFICES ~InReceiveWindow(tail, wnd, i)
        BY SMT, <1>5 DEF i
      <3> QED
        BY SMT, <3>1, <1>0, <1>1, <1>2, <1>3, <1>5
    <2>2. CASE tail = index + SNSpace
      <3>1. wnd = 0
        BY SMT, <1>0, <2>2
      <3>2. s = e
        BY SMT, <3>1
      <3>3. ~InReceiveWindow(tail, wnd, i)
        <4> HIDE DEF s, e, i
        <4> QED
          BY SMT, <3>2, <1>1, <1>3
      <3> QED
        BY SMT, <1>5, <3>3
    <2> QED
      BY SMT, <1>0, <2>1, <2>2
  <1> QED
    BY SMT, <1>4, <1>5

(***************************************************************************)
(* The ring.                                                               *)
(***************************************************************************)

\* A non-empty set of naturals has a least element.
LEMMA LeastNatural ==
    ASSUME NEW T \in SUBSET Nat, T # {}
    PROVE  \E m \in T : \A k \in T : m <= k
  <1> DEFINE R == OpToRel(<, Nat)
  <1>1. IsWellFoundedOn(R, Nat)
    BY NatLessThanWellFounded
  <1>2. \A x, y \in Nat : x < y => <<x, y>> \in R
    BY DEF OpToRel
  <1> HIDE DEF R
  <1>3. PICK m \in T : \A k \in T : ~(<<k, m>> \in R)
    BY <1>1, WFMin, Zenon
  <1>4. \A k \in T : ~(k < m) /\ k \in Nat /\ m \in Nat
    BY <1>2, <1>3
  <1>5. \A k \in T : m <= k
    BY SMT, <1>4
  <1> QED
    BY <1>5

\* Types of the constants.
LEMMA RingTypes ==
    /\ SNSpace \in Nat \ {0}
    /\ QueueCapacity \in Nat \ {0}
    /\ WndSize \in Nat \ {0}
    /\ NumTasks \in Nat \ {0}
    /\ NumFragments \in Nat \ {0}
    /\ \A t \in 0..NumTasks : End[t] \in 0..NumFragments
    /\ \A s, t \in 0..NumTasks : s <= t => End[s] <= End[t]
  <1>1. 0 \in 0..NumTasks /\ NumTasks \in 0..NumTasks /\ 0 < NumTasks
    BY SMT, TaskAssumption
  <1>2. NumFragments \in Nat \ {0}
    BY SMT, <1>1, TaskAssumption DEF NumFragments
  <1>3. \A s, t \in 0..NumTasks : s <= t => End[s] <= End[t]
    BY SMT, TaskAssumption
  <1>4. \A t \in 0..NumTasks : End[t] \in 0..NumFragments
    BY SMT, <1>1, <1>2, <1>3, TaskAssumption DEF NumFragments
  <1> QED
    BY <1>2, <1>3, <1>4, SNSpaceAssumption, QueueAssumption, TaskAssumption

\* Every index has a slot.
LEMMA SlotType ==
    \A i \in Nat : SlotOf(i) \in Slots
  BY RingTypes, DivMod DEF SlotOf, Slots

\* Two indices of one ring's length share a slot only when they are equal.
LEMMA SlotUnique ==
    \A i, j \in Nat :
        SlotOf(i) = SlotOf(j) /\ i < j + QueueCapacity /\ j < i + QueueCapacity
        => i = j
  BY RingTypes, ModUnique DEF SlotOf

\* Storing at most QueueCapacity indices puts each in a slot of its own.
LEMMA LastWriteIs ==
    \A lo, hi \in Nat : hi <= lo + QueueCapacity =>
        \A i \in lo..(hi - 1) :
            /\ Written(SlotOf(i), lo, hi)
            /\ LastWrite(SlotOf(i), lo, hi) = i
  <1> SUFFICES ASSUME NEW lo \in Nat, NEW hi \in Nat,
                      hi <= lo + QueueCapacity,
                      NEW i \in lo..(hi - 1)
               PROVE  /\ Written(SlotOf(i), lo, hi)
                      /\ LastWrite(SlotOf(i), lo, hi) = i
    OBVIOUS
  <1> DEFINE P(k) == /\ SlotOf(k) = SlotOf(i)
                     /\ \A j \in (k + 1)..(hi - 1) : SlotOf(j) # SlotOf(i)
  <1>1. \A k \in lo..(hi - 1) : SlotOf(k) = SlotOf(i) => k = i
    BY SMT, RingTypes, SlotUnique
  <1>2. P(i)
    BY SMT, <1>1
  <1>3. \A k \in lo..(hi - 1) : P(k) => k = i
    BY <1>1
  <1>4. LastWrite(SlotOf(i), lo, hi) = CHOOSE k \in lo..(hi - 1) : P(k)
    BY DEF LastWrite
  <1> HIDE DEF P
  <1>5. LastWrite(SlotOf(i), lo, hi) = i
    BY <1>2, <1>3, <1>4
  <1> QED
    BY <1>5 DEF Written

\* A slot that is written holds the last index written to it.
LEMMA WrittenSlot ==
    \A lo, hi \in Nat, s \in Slots :
        hi <= lo + QueueCapacity /\ Written(s, lo, hi) =>
            /\ LastWrite(s, lo, hi) \in lo..(hi - 1)
            /\ SlotOf(LastWrite(s, lo, hi)) = s
  BY SMT, LastWriteIs DEF Written

\* fillPrimaryQueue stores the indices lo .. hi-1 in front of tail .. lo-1: as long
\* as all of them fit the ring, each new one gets a slot, and no old one loses its.
LEMMA FillKeeps ==
    \A tail, lo, hi \in Nat :
        tail <= lo /\ lo <= hi /\ hi <= tail + QueueCapacity =>
            \A i \in tail..(hi - 1) :
                /\ SlotOf(i) \in Slots
                /\ lo <= i => /\ Written(SlotOf(i), lo, hi)
                              /\ LastWrite(SlotOf(i), lo, hi) = i
                /\ i < lo => ~Written(SlotOf(i), lo, hi)
  <1> SUFFICES ASSUME NEW tail \in Nat, NEW lo \in Nat, NEW hi \in Nat,
                      tail <= lo, lo <= hi, hi <= tail + QueueCapacity,
                      NEW i \in tail..(hi - 1)
               PROVE  /\ SlotOf(i) \in Slots
                      /\ lo <= i => /\ Written(SlotOf(i), lo, hi)
                                    /\ LastWrite(SlotOf(i), lo, hi) = i
                      /\ i < lo => ~Written(SlotOf(i), lo, hi)
    OBVIOUS
  <1>1. i \in Nat /\ SlotOf(i) \in Slots
    BY SMT, SlotType
  <1>2. ASSUME lo <= i
        PROVE  Written(SlotOf(i), lo, hi) /\ LastWrite(SlotOf(i), lo, hi) = i
    <2>1. i \in lo..(hi - 1) /\ hi <= lo + QueueCapacity
      BY SMT, <1>1, <1>2, RingTypes
    <2> QED
      BY <2>1, LastWriteIs
  <1>3. ASSUME i < lo, NEW j \in lo..(hi - 1), SlotOf(j) = SlotOf(i)
        PROVE  FALSE
    <2>1. j \in Nat /\ i < j + QueueCapacity /\ j < i + QueueCapacity /\ i # j
      BY SMT, <1>1, <1>3, RingTypes
    <2> QED
      BY <1>1, <1>3, <2>1, SlotUnique
  <1> QED
    BY <1>1, <1>2, <1>3 DEF Written

\* A loop that walks from lo towards hi stops at the first index of S, or at hi.
LEMMA FirstStop ==
    ASSUME NEW lo \in Nat, NEW hi \in Nat, lo <= hi, NEW S
    PROVE  \E t \in lo..hi : (\A i \in lo..(t - 1) : i \notin S) /\ (t = hi \/ t \in S)
  <1> DEFINE T == {t \in lo..hi : t = hi \/ t \in S}
  <1>1. T \in SUBSET Nat /\ hi \in T
    BY SMT
  <1>2. PICK m \in T : \A k \in T : m <= k
    BY <1>1, LeastNatural
  <1>3. ASSUME NEW i \in lo..(m - 1), i \in S
        PROVE  FALSE
    <2>1. i \in T
      BY SMT, <1>3
    <2>2. m <= i
      BY <1>2, <2>1
    <2> QED
      BY SMT, <2>2
  <1> QED
    BY <1>3

\* ReceiveQueue::markCompleted finds the slot of an index from its short number.
LEMMA ShortSlot ==
    ASSUME SNSpace % QueueCapacity = 0
    PROVE  \A i \in Nat : SHORT_SN(i) % QueueCapacity = SlotOf(i)
  <1> SUFFICES ASSUME NEW i \in Nat
               PROVE  (i % SNSpace) % QueueCapacity = i % QueueCapacity
    BY DEF SHORT_SN, SlotOf
  <1>1. QueueCapacity \in Nat \ {0} /\ SNSpace \in Nat \ {0}
    BY RingTypes
  <1> QED
    BY <1>1, ModOfMod, Zenon

\* While numbers do not wrap, getStatus compares the end of a task with the
\* tail of its queue.
LEMMA SuccessIsTail ==
    ASSUME NumFragments < SNSpace
    PROVE  \A last, tail, head \in 0..NumFragments : tail <= head =>
               (IsSuccess(SHORT_SN(last), SHORT_SN(tail), SHORT_SN(head)) <=> last <= tail)
  <1>1. \A x \in 0..NumFragments : SHORT_SN(x) = x
    <2> TAKE x \in 0..NumFragments
    <2>1. x \in Nat /\ 0 \in Nat /\ SNSpace \in Nat \ {0} /\ x \in 0..(SNSpace - 1)
      BY SMT, RingTypes
    <2>2. x = SNSpace * 0 + x
      BY SMT, <2>1
    <2> QED
      BY <2>1, <2>2, ModIs DEF SHORT_SN
  <1> QED
    BY <1>1, RingTypes DEF IsSuccess
=============================================================================
