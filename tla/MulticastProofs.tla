--------------------------- MODULE MulticastProofs --------------------------
(***************************************************************************)
(* GroupInv is an inductive invariant of Multicast for any set of replicas *)
(* and all safe constants, and the theorems that follow from it.           *)
(***************************************************************************)
EXTENDS Multicast, PacketRingProofs

USE Zenon

\* The constants of the group.
LEMMA GroupTypes ==
    /\ Replicas # {}
    /\ MinSSThresh \in Nat \ {0}
    /\ MaxLag \in Nat
    /\ WndSize <= QueueCapacity
  BY MulticastAssumption, WindowAssumption, QueueAssumption

\* getMinTailIndex: the slowest replica decides.
LEMMA MinTailIs ==
    \A ts \in [Replicas -> Nat] :
        /\ MinTailIndex(ts) \in Nat
        /\ \E r \in Replicas : MinTailIndex(ts) = ts[r]
        /\ \A r \in Replicas : MinTailIndex(ts) <= ts[r]
  <1> TAKE ts \in [Replicas -> Nat]
  <1> DEFINE T == {ts[r] : r \in Replicas}
  <1>1. T \in SUBSET Nat /\ T # {}
    BY GroupTypes
  <1>2. \E x \in T : \A y \in T : x <= y
    BY <1>1, LeastNatural
  <1>3. MinTailIndex(ts) = CHOOSE x \in T : \A y \in T : x <= y
    BY DEF MinTailIndex, Min
  <1>4. MinTailIndex(ts) \in T /\ \A y \in T : MinTailIndex(ts) <= y
    BY <1>2, <1>3
  <1> QED
    BY <1>1, <1>4

(***************************************************************************)
(* The receive queue of a replica.                                         *)
(***************************************************************************)

\* ReceiveQueue::fillPrimaryQueue adds requests in slots of their own; a request
\* that is completed afterwards was completed before.
LEMMA FilledOK ==
    ASSUME SafeConstants, NEW q \in Queue, RequestsOK(q)
    PROVE  LET f == Filled(q)
           IN  /\ f \in Queue /\ f.posted = q.posted /\ f.tail = q.tail
               /\ q.head <= f.head
               /\ RequestsOK(f)
               /\ \A i \in f.tail..(f.head - 1) : ~f.slot[SlotOf(i)].inflight =>
                    i \in q.tail..(q.head - 1) /\ ~q.slot[SlotOf(i)].inflight
  <1> DEFINE h == Max2(q.head, Min2(End[q.posted], q.tail + WndSize + 1))
             new == [s \in Slots |->
                        IF Written(s, q.head, h)
                        THEN [buf |-> LastWrite(s, q.head, h), inflight |-> TRUE]
                        ELSE q.slot[s]]
             f == Filled(q)
  <1>1. f = [q EXCEPT !.head = h, !.slot = new]
    BY DEF Filled
  <1>2. /\ q.posted \in 0..NumTasks /\ q.head \in Nat /\ q.tail \in Nat
        /\ q.slot \in [Slots -> [buf : Fragments \cup {NoFragment}, inflight : BOOLEAN]]
        /\ q.tail <= q.head /\ q.head <= q.tail + WndSize + 1 /\ q.head <= End[q.posted]
    BY DEF Queue, RequestsOK
  <1>3. End[q.posted] \in Nat /\ End[q.posted] <= NumFragments
    BY SMT, <1>2, RingTypes
  <1>4. /\ h \in Nat /\ q.head <= h /\ h <= q.tail + WndSize + 1 /\ h <= End[q.posted]
        /\ h <= q.tail + QueueCapacity /\ h <= q.head + QueueCapacity
    BY SMT, <1>2, <1>3, RingTypes DEF Max2, Min2, SafeConstants
  <1> HIDE DEF h
  <1>5. \A s \in Slots : Written(s, q.head, h) =>
            /\ LastWrite(s, q.head, h) \in q.head..(h - 1)
            /\ SlotOf(LastWrite(s, q.head, h)) = s
            /\ LastWrite(s, q.head, h) \in Fragments
    <2> SUFFICES ASSUME NEW s \in Slots, Written(s, q.head, h)
                 PROVE  /\ LastWrite(s, q.head, h) \in q.head..(h - 1)
                        /\ SlotOf(LastWrite(s, q.head, h)) = s
                        /\ LastWrite(s, q.head, h) \in Fragments
      OBVIOUS
    <2>1. /\ LastWrite(s, q.head, h) \in q.head..(h - 1)
          /\ SlotOf(LastWrite(s, q.head, h)) = s
      BY <1>2, <1>4, WrittenSlot
    <2> QED
      BY SMT, <2>1, <1>2, <1>3, <1>4, RingTypes DEF Fragments
  <1>6. new \in [Slots -> [buf : Fragments \cup {NoFragment}, inflight : BOOLEAN]]
    <2> SUFFICES ASSUME NEW s \in Slots
                 PROVE  new[s] \in [buf : Fragments \cup {NoFragment}, inflight : BOOLEAN]
      OBVIOUS
    <2>1. CASE Written(s, q.head, h)
      BY <2>1, <1>5
    <2>2. CASE ~Written(s, q.head, h)
      BY <2>2, <1>2
    <2> QED
      BY <2>1, <2>2
  <1>7. ASSUME NEW s \in Slots, new[s].inflight
        PROVE  new[s].buf \in q.tail..(h - 1) /\ SlotOf(new[s].buf) = s
    <2>1. CASE Written(s, q.head, h)
      BY SMT, <2>1, <1>2, <1>4, <1>5
    <2>2. CASE ~Written(s, q.head, h)
      <3>1. new[s] = q.slot[s]
        BY <2>2
      <3>2. q.slot[s].buf \in q.tail..(q.head - 1) /\ SlotOf(q.slot[s].buf) = s
        BY <1>7, <3>1 DEF RequestsOK
      <3> QED
        BY SMT, <3>1, <3>2, <1>2, <1>4
    <2> QED
      BY <2>1, <2>2
  <1>8. ASSUME NEW i \in q.tail..(h - 1)
        PROVE  /\ new[SlotOf(i)].buf = i
               /\ ~new[SlotOf(i)].inflight =>
                    i \in q.tail..(q.head - 1) /\ ~q.slot[SlotOf(i)].inflight
    <2>1. /\ SlotOf(i) \in Slots
          /\ q.head <= i => Written(SlotOf(i), q.head, h) /\ LastWrite(SlotOf(i), q.head, h) = i
          /\ i < q.head => ~Written(SlotOf(i), q.head, h)
      BY <1>2, <1>4, FillKeeps
    <2>2. i \in Nat /\ (i < q.head => i \in q.tail..(q.head - 1))
      BY SMT, <1>2
    <2>3. CASE q.head <= i
      BY <2>1, <2>3
    <2>4. CASE i < q.head
      BY <2>1, <2>2, <2>4 DEF RequestsOK
    <2> QED
      BY SMT, <1>2, <2>2, <2>3, <2>4
  <1> HIDE DEF new
  <1>9. f \in Queue /\ f.posted = q.posted /\ f.tail = q.tail /\ f.head = h /\ f.slot = new
    BY <1>1, <1>2, <1>4, <1>6 DEF Queue
  <1> HIDE DEF f
  <1>10. RequestsOK(f)
    BY SMT, <1>2, <1>4, <1>7, <1>8, <1>9 DEF RequestsOK
  <1>11. /\ f \in Queue /\ f.posted = q.posted /\ f.tail = q.tail
         /\ q.head <= f.head
         /\ RequestsOK(f)
         /\ \A i \in f.tail..(f.head - 1) : ~f.slot[SlotOf(i)].inflight =>
              i \in q.tail..(q.head - 1) /\ ~q.slot[SlotOf(i)].inflight
    BY <1>4, <1>8, <1>9, <1>10
  <1> QED
    BY <1>11 DEF f

\* The loop at the end of ReceiveQueue::markCompleted stops at the first request
\* that is still in flight, or at the head.
LEMMA AdvancedTailIs ==
    ASSUME NEW q \in Queue, q.tail <= q.head
    PROVE  LET t == AdvancedTail(q)
           IN  /\ t \in Nat
               /\ q.tail <= t /\ t <= q.head
               /\ \A i \in q.tail..(t - 1) : ~q.slot[SlotOf(i)].inflight
  <1> DEFINE P(t) == /\ \A i \in q.tail..(t - 1) : ~q.slot[SlotOf(i)].inflight
                     /\ t = q.head \/ q.slot[SlotOf(t)].inflight
             S == {i \in q.tail..q.head : q.slot[SlotOf(i)].inflight}
  <1>1. q.tail \in Nat /\ q.head \in Nat
    BY DEF Queue
  <1>2. \E t \in q.tail..q.head : (\A i \in q.tail..(t - 1) : i \notin S) /\ (t = q.head \/ t \in S)
    <2> HIDE DEF S
    <2> QED
      BY <1>1, FirstStop
  <1>3. \E t \in q.tail..q.head : P(t)
    BY SMT, <1>1, <1>2
  <1>4. AdvancedTail(q) = CHOOSE t \in q.tail..q.head : P(t)
    BY DEF AdvancedTail
  <1> HIDE DEF P
  <1>5. AdvancedTail(q) \in q.tail..q.head /\ P(AdvancedTail(q))
    BY <1>3, <1>4
  <1> QED
    BY SMT, <1>1, <1>5 DEF P

\* An outstanding request that a packet of the window meets is the one for its
\* fragment.
LEMMA RequestMet ==
    ASSUME SafeConstants, NEW q \in Queue, RequestsOK(q),
           NEW p \in Nat, q.tail <= p, p < q.tail + WndSize, q.slot[SlotOf(p)].inflight
    PROVE  q.slot[SlotOf(p)].buf = p
  <1> DEFINE b == q.slot[SlotOf(p)].buf
  <1>1. q.tail \in Nat /\ q.head \in Nat /\ q.head <= q.tail + WndSize + 1
    BY DEF Queue, RequestsOK
  <1>2. b \in q.tail..(q.head - 1) /\ SlotOf(b) = SlotOf(p)
    BY SlotType DEF RequestsOK
  <1> HIDE DEF b
  <1>3. b \in Nat /\ b < p + QueueCapacity /\ p < b + QueueCapacity
    BY SMT, <1>1, <1>2, RingTypes DEF SafeConstants
  <1>4. b = p
    BY <1>2, <1>3, SlotUnique
  <1> QED
    BY <1>4 DEF b

\* ReceiveQueue::markCompleted of a packet of the window: what the tail passes is
\* in memory, and the request it completes holds its fragment.
LEMMA CompletedOK ==
    ASSUME SafeConstants, NEW q \in Queue, RequestsOK(q),
           NEW m \in [Fragments -> Fragments \cup {NoFragment}], NEW h \in Nat, Contents(q, m, h),
           NEW p \in Fragments, p < h, q.tail <= p, p < q.tail + WndSize,
           NEW n, n = IF q.slot[SlotOf(p)].inflight THEN [m EXCEPT ![p] = p] ELSE m
    PROVE  LET c == Completed(q, SlotOf(p))
           IN  /\ c \in Queue /\ c.posted = q.posted
               /\ q.tail <= c.tail
               /\ RequestsOK(c)
               /\ n \in [Fragments -> Fragments \cup {NoFragment}]
               /\ Contents(c, n, h)
  <1> DEFINE s == SlotOf(p)
             done == [q EXCEPT !.slot[s].inflight = FALSE]
             adv == [done EXCEPT !.tail = AdvancedTail(done)]
             c == Filled(adv)
  <1>0. p \in Nat
    BY SMT, RingTypes DEF Fragments
  <1>1. /\ q.posted \in 0..NumTasks /\ q.head \in Nat /\ q.tail \in Nat
        /\ q.slot \in [Slots -> [buf : Fragments \cup {NoFragment}, inflight : BOOLEAN]]
        /\ q.tail <= q.head /\ q.head <= q.tail + WndSize + 1 /\ q.head <= End[q.posted]
        /\ s \in Slots
    BY <1>0, SlotType DEF Queue, RequestsOK
  <1>2. q.slot[s].inflight => q.slot[s].buf = p
    BY <1>0, RequestMet
  <1>3. Completed(q, SlotOf(p)) = c
    BY DEF Completed
  <1>4. /\ done \in Queue /\ done.posted = q.posted /\ done.head = q.head /\ done.tail = q.tail
        /\ done.slot = [q.slot EXCEPT ![s].inflight = FALSE]
    BY <1>1 DEF Queue
  <1>5. /\ \A u \in Slots : done.slot[u].buf = q.slot[u].buf
        /\ \A u \in Slots : done.slot[u].inflight => u # s /\ q.slot[u].inflight
        /\ \A u \in Slots : ~done.slot[u].inflight => u = s \/ ~q.slot[u].inflight
    BY SMT, <1>1, <1>4
  <1> HIDE DEF done, s
  <1>6. /\ n \in [Fragments -> Fragments \cup {NoFragment}]
        /\ \A i \in Fragments : n[i] = m[i] \/ n[i] = i
        /\ q.slot[s].inflight => n[p] = p
    BY DEF s
  <1>7. LET t == AdvancedTail(done)
        IN  /\ t \in Nat
            /\ q.tail <= t /\ t <= q.head
            /\ \A i \in q.tail..(t - 1) : ~done.slot[SlotOf(i)].inflight
    BY <1>1, <1>4, AdvancedTailIs
  <1>8. \A i \in q.tail..(q.head - 1) :
            i \in Fragments /\ SlotOf(i) \in Slots /\ q.slot[SlotOf(i)].buf = i
    <2>1. End[q.posted] \in 0..NumFragments /\ NumFragments \in Nat
      BY <1>1, RingTypes
    <2>0. q.tail \in Nat /\ q.head \in Nat /\ q.head <= End[q.posted]
      BY <1>1
    <2>2. \A i \in q.tail..(q.head - 1) : i \in Nat /\ i \in Fragments
      BY SMT, <2>0, <2>1 DEF Fragments
    <2> QED
      BY <2>2, SlotType DEF RequestsOK
  <1>9. ASSUME NEW i \in q.tail..(q.head - 1), ~done.slot[SlotOf(i)].inflight
        PROVE  n[i] = i /\ i < h
    <2>1. CASE q.slot[SlotOf(i)].inflight
      <3>1. SlotOf(i) = s
        BY <2>1, <1>5, <1>8, <1>9
      <3>2. i = p
        BY <3>1, <2>1, <1>2, <1>8
      <3> QED
        BY <3>1, <3>2, <2>1, <1>6
    <2>2. CASE ~q.slot[SlotOf(i)].inflight
      <3>1. m[i] = i /\ i < h
        BY <2>2 DEF Contents
      <3> QED
        BY <3>1, <1>6, <1>8
    <2> QED
      BY <2>1, <2>2
  <1> DEFINE t == AdvancedTail(done)
  <1>10. /\ adv \in Queue /\ adv.posted = q.posted /\ adv.head = q.head /\ adv.tail = t
         /\ adv.slot = done.slot
    BY <1>4, <1>7 DEF Queue
  <1>11. t \in Nat /\ q.tail <= t /\ t <= q.head
    BY <1>7
  <1>12. \A i \in q.tail..(t - 1) : ~done.slot[SlotOf(i)].inflight
    BY <1>7
  <1> HIDE DEF t, adv
  <1>13. RequestsOK(adv)
    <2>1. ASSUME NEW u \in Slots, done.slot[u].inflight
          PROVE  done.slot[u].buf \in t..(q.head - 1) /\ SlotOf(done.slot[u].buf) = u
      <3>1. q.slot[u].buf \in q.tail..(q.head - 1) /\ SlotOf(q.slot[u].buf) = u
        BY <2>1, <1>5 DEF RequestsOK
      <3>2. ~(q.slot[u].buf \in q.tail..(t - 1))
        BY <3>1, <2>1, <1>12
      <3> QED
        BY SMT, <3>1, <3>2, <1>1, <1>5, <1>11
    <2>2. \A i \in t..(q.head - 1) : done.slot[SlotOf(i)].buf = i
      BY SMT, <1>1, <1>5, <1>8, <1>11
    <2>3. t <= q.head /\ q.head <= t + WndSize + 1
      BY SMT, <1>1, <1>11, RingTypes
    <2> QED
      BY <1>1, <1>10, <2>1, <2>2, <2>3 DEF RequestsOK
  <1>14. /\ c \in Queue /\ c.posted = q.posted /\ c.tail = t
         /\ RequestsOK(c)
         /\ \A i \in c.tail..(c.head - 1) : ~c.slot[SlotOf(i)].inflight =>
              i \in t..(q.head - 1) /\ ~done.slot[SlotOf(i)].inflight
    BY <1>10, <1>13, FilledOK
  <1> HIDE DEF c
  <1>15. t <= h
    <2>1. CASE t = q.tail
      BY <2>1 DEF Contents
    <2>2. CASE t # q.tail
      <3>1. t - 1 \in q.tail..(q.head - 1) /\ t - 1 \in q.tail..(t - 1)
        <4>1. q.tail \in Nat /\ q.head \in Nat
          BY <1>1
        <4> QED
          BY SMT, <2>2, <4>1, <1>11
      <3>2. t - 1 < h
        BY <3>1, <1>9, <1>12
      <3> QED
        BY SMT, <3>2, <1>11
    <2> QED
      BY <2>1, <2>2
  <1>16. \A i \in 0..(t - 1) : n[i] = i
    <2> SUFFICES ASSUME NEW i \in 0..(t - 1)
                 PROVE  n[i] = i
      OBVIOUS
    <2>1. CASE i < q.tail
      <3>1. i \in 0..(q.tail - 1) /\ i \in Fragments
        BY SMT, <2>1, <1>1, RingTypes DEF Fragments
      <3> QED
        BY <3>1, <1>6 DEF Contents
    <2>2. CASE q.tail <= i
      <3>1. i \in q.tail..(t - 1) /\ i \in q.tail..(q.head - 1)
        BY SMT, <2>2, <1>1, <1>11
      <3> QED
        BY <3>1, <1>9, <1>12
    <2> QED
      BY SMT, <2>1, <2>2, <1>1, <1>11
  <1>17. \A i \in t..(c.head - 1) : ~c.slot[SlotOf(i)].inflight => n[i] = i /\ i < h
    <2> SUFFICES ASSUME NEW i \in t..(c.head - 1), ~c.slot[SlotOf(i)].inflight
                 PROVE  n[i] = i /\ i < h
      OBVIOUS
    <2>1. i \in t..(q.head - 1) /\ ~done.slot[SlotOf(i)].inflight
      BY <1>14
    <2>2. i \in q.tail..(q.head - 1)
      BY SMT, <2>1, <1>1, <1>11
    <2> QED
      BY <2>1, <2>2, <1>9
  <1>18. \A i \in Fragments : n[i] \in {NoFragment, i}
    BY <1>6 DEF Contents
  <1>19. Contents(c, n, h)
    BY <1>14, <1>15, <1>16, <1>17, <1>18 DEF Contents
  <1> QED
    BY <1>3, <1>6, <1>11, <1>14, <1>19

(***************************************************************************)
(* The actions.                                                            *)
(***************************************************************************)

\* The indices that the invariant compares.
LEMMA GroupIndices ==
    ASSUME TypeOK
    PROVE  /\ head \in Nat /\ head <= NumFragments /\ posted \in 0..NumTasks
           /\ wnd \in Nat /\ cwnd \in Nat
           /\ tails \in [Replicas -> Nat]
           /\ \A r \in Replicas : /\ tails[r] \in Nat /\ tails[r] <= head
                                  /\ rq[r] \in Queue
                                  /\ rq[r].tail \in Nat /\ rq[r].head \in Nat
                                  /\ rq[r].posted \in 0..NumTasks
                                  /\ mem[r] \in [Fragments -> Fragments \cup {NoFragment}]
                                  /\ dataNet[r] \subseteq Fragments
                                  /\ ackNet[r] \subseteq 0..NumFragments
  <1>1. head \in Nat /\ head <= NumFragments /\ posted \in 0..NumTasks
    BY SMT, RingTypes DEF TypeOK
  <1>2. wnd \in Nat /\ cwnd \in Nat
    BY SMT, RingTypes DEF TypeOK, Max2
  <1>3. \A r \in Replicas : tails[r] \in 0..head
    BY DEF TypeOK
  <1>4. tails \in [Replicas -> Nat]
    BY SMT, <1>1, <1>3 DEF TypeOK
  <1>5. \A r \in Replicas : rq[r] \in Queue
    BY DEF TypeOK
  <1> QED
    BY SMT, <1>1, <1>2, <1>3, <1>4, <1>5 DEF TypeOK, Queue

\* A step that leaves the queue of a replica alone.
LEMMA ReplicaKept ==
    ASSUME TypeOK, NEW r \in Replicas, Replica(r),
           rq'[r] = rq[r], mem'[r] = mem[r], fault'[r] # "abort",
           head' \in Nat, head <= head', head' <= tails'[r] + WndSize + 1,
           tails'[r] <= rq[r].tail,
           \A p \in dataNet'[r] : p < head' /\ head' <= p + MaxLag,
           \A a \in ackNet'[r] : a <= rq[r].tail /\ head' <= a + MaxLag
    PROVE  Replica(r)'
  <1>1. /\ head \in Nat /\ rq[r].tail \in Nat /\ rq[r].head \in Nat
    BY GroupIndices
  <1>2. Contents(rq[r], mem[r], head')
    BY SMT, <1>1 DEF Replica, Contents
  <1>3. RequestsOK(rq[r])
    BY DEF Replica
  <1>4. RequestsOK(rq'[r]) /\ Contents(rq'[r], mem'[r], head')
    BY <1>2, <1>3
  <1> QED
    BY <1>4 DEF Replica, RequestsOK, Contents

\* McastSendQueue::fillPrimaryQueue keeps the packets that the slowest replica still
\* needs in slots of their own.
LEMMA FillOK ==
    ASSUME SafeConstants, GroupInv,
           NEW n \in 0..NumTasks, posted <= n,
           NEW ts \in [Replicas -> Nat],
           \A r \in Replicas : tails[r] <= ts[r] /\ ts[r] <= head,
           Fill(n, ts)
    PROVE  /\ head' \in Nat /\ head <= head' /\ head' <= End[n] /\ head' <= NumFragments
           /\ \A r \in Replicas : head' <= ts[r] + WndSize + 1
           /\ slot' \in [Slots -> [frag : Fragments \cup {NoFragment}, sent : BOOLEAN]]
           /\ \A i \in MinTailIndex(ts)..(head' - 1) : slot'[SlotOf(i)].frag = i
           /\ dataNet' \in [Replicas -> SUBSET Fragments]
           /\ \A r \in Replicas : \A p \in dataNet'[r] : p < head' /\ head' <= p + MaxLag
  <1> DEFINE h == head'
             mt == MinTailIndex(ts)
  <1>1. /\ mt \in Nat
        /\ \E r \in Replicas : mt = ts[r]
        /\ \A r \in Replicas : mt <= ts[r]
    BY MinTailIs
  <1>2. /\ MinTailIndex(tails) \in Nat
        /\ \A r \in Replicas : MinTailIndex(tails) <= tails[r]
    BY MinTailIs, GroupIndices DEF GroupInv
  <1>3. /\ head \in Nat /\ wnd \in Nat /\ wnd <= WndSize /\ posted \in 0..NumTasks
        /\ head <= End[posted]
        /\ \A r \in Replicas : tails[r] \in Nat /\ head <= tails[r] + WndSize + 1
    BY GroupIndices DEF GroupInv, Sender, Replica
  <1>4. h = Max2(head, Min2(End[n], mt + wnd + 1))
    BY DEF Fill, FillHead
  <1>5. End[posted] <= End[n] /\ End[posted] \in Nat /\ End[n] \in Nat /\ End[n] <= NumFragments
    BY SMT, <1>3, RingTypes
  <1> HIDE DEF h, mt
  <1>6. MinTailIndex(tails) <= mt /\ mt <= head
    <2>1. PICK r \in Replicas : mt = ts[r]
      BY <1>1
    <2>2. ts[r] \in Nat /\ tails[r] \in Nat /\ tails[r] <= ts[r] /\ ts[r] <= head
      BY <1>3
    <2> QED
      BY SMT, <2>1, <2>2, <1>1, <1>2
  <1>7. h \in Nat /\ head <= h /\ h <= End[n] /\ h <= NumFragments
    BY SMT, <1>1, <1>3, <1>4, <1>5, RingTypes DEF Max2, Min2
  <1>8. \A r \in Replicas : h <= ts[r] + WndSize + 1
    <2> TAKE r \in Replicas
    <2>1. ts[r] \in Nat /\ tails[r] \in Nat /\ tails[r] <= ts[r] /\ head <= tails[r] + WndSize + 1
          /\ mt <= ts[r]
      BY <1>1, <1>3
    <2> QED
      BY SMT, <2>1, <1>1, <1>3, <1>4, <1>5, RingTypes DEF Max2, Min2
  <1>9. h <= mt + QueueCapacity /\ h <= head + QueueCapacity
    <2>1. h <= mt + WndSize + 1
      BY <1>1, <1>8
    <2> QED
      BY SMT, <2>1, <1>1, <1>3, <1>6, <1>7, RingTypes DEF SafeConstants
  <1>10. slot' = [s \in Slots |->
                     IF Written(s, head, h)
                     THEN [frag |-> LastWrite(s, head, h), sent |-> FALSE]
                     ELSE slot[s]]
    BY DEF Fill, h
  <1>11. slot' \in [Slots -> [frag : Fragments \cup {NoFragment}, sent : BOOLEAN]]
    <2> SUFFICES ASSUME NEW s \in Slots
                 PROVE  slot'[s] \in [frag : Fragments \cup {NoFragment}, sent : BOOLEAN]
      BY <1>10
    <2>1. CASE Written(s, head, h)
      <3>1. LastWrite(s, head, h) \in head..(h - 1)
        BY <2>1, <1>3, <1>7, <1>9, WrittenSlot
      <3>2. LastWrite(s, head, h) \in Fragments
        BY SMT, <3>1, <1>3, <1>7, RingTypes DEF Fragments
      <3> QED
        BY <3>2, <2>1, <1>10
    <2>2. CASE ~Written(s, head, h)
      BY <2>2, <1>10 DEF GroupInv, TypeOK
    <2> QED
      BY <2>1, <2>2
  <1>12. ASSUME NEW i \in mt..(h - 1)
         PROVE  slot'[SlotOf(i)].frag = i
    <2>1. /\ SlotOf(i) \in Slots
          /\ head <= i => Written(SlotOf(i), head, h) /\ LastWrite(SlotOf(i), head, h) = i
          /\ i < head => ~Written(SlotOf(i), head, h)
      BY <1>1, <1>3, <1>6, <1>7, <1>9, FillKeeps
    <2>2. i \in Nat /\ (i < head => i \in Queued)
      BY SMT, <1>1, <1>2, <1>3, <1>6 DEF Queued
    <2>3. i < head => slot[SlotOf(i)].frag = i
      BY <2>2 DEF GroupInv, Sender
    <2> QED
      BY SMT, <1>3, <1>10, <2>1, <2>2, <2>3
  <1>13. dataNet' = [r \in Replicas |-> Alive(dataNet[r], h)]
    BY DEF Fill, h
  <1>14. \A r \in Replicas : /\ dataNet'[r] \subseteq dataNet[r]
                             /\ \A p \in dataNet'[r] : p + MaxLag >= h
    BY <1>13 DEF Alive
  <1>15. dataNet' \in [Replicas -> SUBSET Fragments]
    BY <1>13, <1>14 DEF GroupInv, TypeOK
  <1>16. ASSUME NEW r \in Replicas, NEW p \in dataNet'[r]
         PROVE  p < h /\ h <= p + MaxLag
    <2>1. p \in dataNet[r] /\ p \in Nat /\ p + MaxLag >= h
      BY SMT, <1>14, GroupIndices, RingTypes DEF GroupInv, Fragments
    <2>2. p < head
      BY <2>1 DEF GroupInv, Replica
    <2> QED
      BY SMT, <2>1, <2>2, <1>3, <1>7, GroupTypes
  <1> QED
    BY <1>7, <1>8, <1>11, <1>12, <1>15, <1>16 DEF h, mt

\* What is alive in the fabric is what was there, within the horizon.
LEMMA AliveAcksOK ==
    ASSUME GroupInv, NEW h \in Nat, ackNet' = [r \in Replicas |-> Alive(ackNet[r], h)]
    PROVE  /\ ackNet' \in [Replicas -> SUBSET (0..NumFragments)]
           /\ \A r \in Replicas : \A a \in ackNet'[r] : a <= rq[r].tail /\ h <= a + MaxLag
  <1>1. \A r \in Replicas : /\ ackNet'[r] \subseteq ackNet[r]
                            /\ \A a \in ackNet'[r] : a + MaxLag >= h
    BY DEF Alive
  <1>2. ackNet' \in [Replicas -> SUBSET (0..NumFragments)]
    BY <1>1 DEF GroupInv, TypeOK
  <1>3. ASSUME NEW r \in Replicas, NEW a \in ackNet'[r]
        PROVE  a <= rq[r].tail /\ h <= a + MaxLag
    <2>1. a \in ackNet[r] /\ a \in Nat /\ a + MaxLag >= h
      BY SMT, <1>1, GroupIndices, RingTypes DEF GroupInv
    <2> QED
      BY <2>1, GroupTypes DEF GroupInv, Replica
  <1> QED
    BY <1>2, <1>3

\* ContextMcast::send preserves the invariant.
LEMMA SendInv ==
    ASSUME SafeConstants, GroupInv, Send
    PROVE  GroupInv'
  <1>1. /\ posted < NumTasks /\ posted' = posted + 1
        /\ Fill(posted + 1, tails)
        /\ ackNet' = [r \in Replicas |-> Alive(ackNet[r], head')]
        /\ UNCHANGED <<tails, wnd, cwnd, rq, mem, ackDue, ackState, fault>>
    BY DEF Send, replicaVars
  <1>2. posted + 1 \in 0..NumTasks /\ posted <= posted + 1
    BY SMT, <1>1, GroupIndices, RingTypes DEF GroupInv
  <1>3. /\ tails \in [Replicas -> Nat] /\ head \in Nat
        /\ \A r \in Replicas : tails[r] \in Nat /\ tails[r] <= tails[r] /\ tails[r] <= head
    BY SMT, GroupIndices DEF GroupInv
  <1>4. /\ head' \in Nat /\ head <= head' /\ head' <= End[posted'] /\ head' <= NumFragments
        /\ \A r \in Replicas : head' <= tails[r] + WndSize + 1
        /\ slot' \in [Slots -> [frag : Fragments \cup {NoFragment}, sent : BOOLEAN]]
        /\ \A i \in MinTailIndex(tails)..(head' - 1) : slot'[SlotOf(i)].frag = i
        /\ dataNet' \in [Replicas -> SUBSET Fragments]
        /\ \A r \in Replicas : \A p \in dataNet'[r] : p < head' /\ head' <= p + MaxLag
    BY <1>1, <1>2, <1>3, FillOK
  <1>5. /\ ackNet' \in [Replicas -> SUBSET (0..NumFragments)]
        /\ \A r \in Replicas : \A a \in ackNet'[r] : a <= rq[r].tail /\ head' <= a + MaxLag
    BY <1>1, <1>4, AliveAcksOK
  <1>6. TypeOK'
    <2>1. head' \in 0..NumFragments
      BY SMT, <1>4, RingTypes
    <2>2. tails' \in [Replicas -> 0..head']
      <3>1. \A r \in Replicas : tails[r] \in 0..head'
        BY SMT, <1>3, <1>4
      <3> QED
        BY <1>1, <1>3, <3>1
    <2> QED
      BY <1>1, <1>2, <1>4, <1>5, <2>1, <2>2 DEF GroupInv, TypeOK
  <1>7. Sender'
    BY <1>1, <1>4 DEF GroupInv, Sender, Queued, MinTailIndex
  <1>8. \A r \in Replicas : Replica(r)'
    <2> TAKE r \in Replicas
    <2>1. TypeOK /\ Replica(r) /\ fault'[r] # "abort" /\ tails'[r] <= rq[r].tail
      BY <1>1 DEF GroupInv, Replica
    <2> QED
      BY <1>1, <1>4, <1>5, <2>1, ReplicaKept
  <1> QED
    BY <1>6, <1>7, <1>8 DEF GroupInv

\* ContextMcast::sendDataPackets preserves the invariant: it sends packets that some
\* replica still needs, to all of them.
LEMMA SendDataPacketsInv ==
    ASSUME SafeConstants, GroupInv, NEW expired \in SUBSET Sent, SendDataPackets(expired)
    PROVE  GroupInv'
  <1> DEFINE batch == {SlotOf(i) : i \in (Queued \ Sent) \cup expired}
  <1>1. /\ slot' = [s \in Slots |->
                       IF s \in batch THEN [slot[s] EXCEPT !.sent = TRUE] ELSE slot[s]]
        /\ dataNet' = [r \in Replicas |-> dataNet[r] \cup {slot[s].frag : s \in batch}]
        /\ wnd' = IF expired = {} THEN wnd ELSE Min2(1, QueueCapacity)
        /\ UNCHANGED <<posted, head, tails, cwnd, rq, mem, ackDue, ackState, fault, ackNet>>
    BY DEF SendDataPackets, replicaVars
  <1>2. batch \subseteq {SlotOf(i) : i \in Queued}
    BY DEF Sent
  <1> HIDE DEF batch
  <1>3. /\ head \in Nat /\ head <= NumFragments
        /\ \A r \in Replicas : /\ tails[r] \in Nat /\ head <= tails[r] + WndSize + 1
                               /\ dataNet[r] \subseteq Fragments
    BY GroupIndices DEF GroupInv, Replica
  <1>4. /\ MinTailIndex(tails) \in Nat
        /\ \E r \in Replicas : MinTailIndex(tails) = tails[r]
    BY MinTailIs, GroupIndices DEF GroupInv
  <1>5. \A i \in Queued : /\ i \in Nat /\ SlotOf(i) \in Slots /\ slot[SlotOf(i)].frag = i
                          /\ i \in Fragments /\ i < head /\ head <= i + MaxLag
    <2>1. MinTailIndex(tails) \in Nat /\ head <= MinTailIndex(tails) + WndSize + 1
      BY <1>3, <1>4
    <2>2. \A i \in Queued : i \in Nat /\ i < head /\ head <= i + MaxLag /\ i \in Fragments
      BY SMT, <1>3, <2>1, RingTypes, GroupTypes DEF Queued, SafeConstants, Fragments
    <2> QED
      BY <2>2, SlotType DEF GroupInv, Sender
  <1>6. \A s \in batch : /\ slot[s].frag \in Fragments
                         /\ slot[s].frag < head /\ head <= slot[s].frag + MaxLag
    BY <1>2, <1>5
  <1>7. /\ slot' \in [Slots -> [frag : Fragments \cup {NoFragment}, sent : BOOLEAN]]
        /\ \A s \in Slots : slot'[s].frag = slot[s].frag
    BY <1>1 DEF GroupInv, TypeOK
  <1>8. /\ dataNet' \in [Replicas -> SUBSET Fragments]
        /\ \A r \in Replicas : \A p \in dataNet'[r] : p < head /\ head <= p + MaxLag
    <2>1. \A r \in Replicas : \A p \in dataNet'[r] :
              p \in Fragments /\ p < head /\ head <= p + MaxLag
      <3> SUFFICES ASSUME NEW r \in Replicas, NEW p \in dataNet'[r]
                   PROVE  p \in Fragments /\ p < head /\ head <= p + MaxLag
        OBVIOUS
      <3>1. CASE p \in dataNet[r]
        BY <3>1, <1>3 DEF GroupInv, Replica
      <3>2. CASE p \notin dataNet[r]
        BY <3>2, <1>1, <1>6
      <3> QED
        BY <3>1, <3>2
    <2> QED
      BY <1>1, <2>1
  <1>9. wnd' \in 0..QueueCapacity /\ wnd' <= WndSize
    BY SMT, <1>1, RingTypes DEF GroupInv, TypeOK, Sender, Min2
  <1>10. TypeOK'
    BY <1>1, <1>7, <1>8, <1>9 DEF GroupInv, TypeOK
  <1>11. Sender'
    <2>1. \A i \in Queued : slot'[SlotOf(i)].frag = i
      BY <1>5, <1>7
    <2> QED
      BY <1>1, <1>9, <2>1 DEF GroupInv, Sender, Queued, MinTailIndex
  <1>12. \A r \in Replicas : Replica(r)'
    <2> TAKE r \in Replicas
    <2>1. /\ TypeOK /\ Replica(r) /\ fault'[r] # "abort" /\ tails'[r] <= rq[r].tail
          /\ \A a \in ackNet'[r] : a <= rq[r].tail /\ head' <= a + MaxLag
      BY <1>1 DEF GroupInv, Replica
    <2>2. head' = head /\ head' \in Nat /\ head <= head' /\ head' <= tails'[r] + WndSize + 1
      BY SMT, <1>1, <1>3
    <2> QED
      BY <1>1, <1>8, <2>1, <2>2, ReplicaKept
  <1> QED
    BY <1>10, <1>11, <1>12 DEF GroupInv

\* McastSendQueue::markCompleted resolves the short number of an acknowledgement of
\* the fabric to the index that the replica meant.
LEMMA AckTailIs ==
    ASSUME SafeConstants, GroupInv, NEW r \in Replicas, NEW a \in ackNet[r]
    PROVE  LET t == AckedTail(tails[r], head, SHORT_SN(a))
           IN  t \in Nat /\ tails[r] <= t /\ t <= rq[r].tail
  <1>1. /\ head \in Nat /\ tails[r] \in Nat /\ rq[r].tail \in Nat
        /\ tails[r] <= rq[r].tail /\ rq[r].tail <= head /\ head <= tails[r] + WndSize + 1
    BY GroupIndices DEF GroupInv, Replica, Contents
  <1>2. a \in Nat /\ a <= rq[r].tail /\ head <= a + MaxLag
    BY SMT, GroupIndices, RingTypes DEF GroupInv, Replica
  <1>3. head < tails[r] + SNSpace /\ head < a + SNSpace /\ a <= head /\ tails[r] <= head
    BY SMT, <1>1, <1>2, RingTypes, GroupTypes DEF SafeConstants
  <1>4. AckedTail(tails[r], head, SHORT_SN(a)) = Max2(tails[r], a)
    BY <1>1, <1>2, <1>3, AckedTailCorrect
  <1> QED
    BY SMT, <1>1, <1>2, <1>4 DEF Max2

\* The acknowledgement of one replica preserves the invariant of all.
LEMMA ReceiveAckInv ==
    ASSUME SafeConstants, GroupInv, NEW r \in Replicas, NEW a \in ackNet[r], ReceiveAck(r, a)
    PROVE  GroupInv'
  <1>1. /\ tails' = [tails EXCEPT ![r] = AckedTail(tails[r], head, SHORT_SN(a))]
        /\ Fill(posted, tails')
        /\ cwnd' \in SuccessWnds(cwnd, WndSize)
        /\ wnd' = Min2(cwnd', QueueCapacity)
        /\ ackNet' = [q \in Replicas |-> Alive(ackNet[q], head')]
        /\ UNCHANGED <<posted, rq, mem, ackDue, ackState, fault>>
    BY DEF ReceiveAck, replicaVars
  <1>2. /\ tails \in [Replicas -> Nat] /\ head \in Nat /\ posted \in 0..NumTasks
        /\ posted <= posted
        /\ \A q \in Replicas : /\ tails[q] \in Nat /\ tails[q] <= head
                               /\ rq[q].tail \in Nat /\ rq[q].tail <= head
                               /\ tails[q] <= rq[q].tail
    BY SMT, GroupIndices DEF GroupInv, Replica, Contents
  <1>3. LET t == AckedTail(tails[r], head, SHORT_SN(a))
        IN  t \in Nat /\ tails[r] <= t /\ t <= rq[r].tail
    BY AckTailIs
  <1>4. /\ tails' \in [Replicas -> Nat]
        /\ \A q \in Replicas : /\ tails'[q] \in Nat /\ tails[q] <= tails'[q]
                               /\ tails'[q] <= rq[q].tail /\ tails'[q] <= head
    <2>1. /\ \A q \in Replicas : tails'[q] = tails[q] \/ q = r
          /\ tails'[r] = AckedTail(tails[r], head, SHORT_SN(a))
      BY <1>1, <1>2
    <2>2. \A q \in Replicas : /\ tails'[q] \in Nat /\ tails[q] <= tails'[q]
                              /\ tails'[q] <= rq[q].tail
      BY SMT, <1>2, <1>3, <2>1
    <2>3. \A q \in Replicas : tails'[q] <= head
      BY SMT, <1>2, <2>2
    <2> QED
      BY <1>1, <1>2, <1>3, <2>2, <2>3
  <1>5. /\ head' \in Nat /\ head <= head' /\ head' <= End[posted'] /\ head' <= NumFragments
        /\ \A q \in Replicas : head' <= tails'[q] + WndSize + 1
        /\ slot' \in [Slots -> [frag : Fragments \cup {NoFragment}, sent : BOOLEAN]]
        /\ \A i \in MinTailIndex(tails')..(head' - 1) : slot'[SlotOf(i)].frag = i
        /\ dataNet' \in [Replicas -> SUBSET Fragments]
        /\ \A q \in Replicas : \A p \in dataNet'[q] : p < head' /\ head' <= p + MaxLag
    BY <1>1, <1>2, <1>4, FillOK
  <1>6. /\ ackNet' \in [Replicas -> SUBSET (0..NumFragments)]
        /\ \A q \in Replicas : \A b \in ackNet'[q] : b <= rq[q].tail /\ head' <= b + MaxLag
    BY <1>1, <1>5, AliveAcksOK
  <1>7. /\ cwnd' \in Nat /\ cwnd' <= WndSize
        /\ wnd' \in 0..QueueCapacity /\ wnd' <= WndSize
    <2>1. cwnd' \in Nat /\ cwnd' <= WndSize
      BY SMT, <1>1, RingTypes, GroupTypes, GroupIndices DEF GroupInv, SuccessWnds, Min2
    <2> QED
      BY SMT, <1>1, <2>1, RingTypes, GroupTypes DEF Min2
  <1>8. TypeOK'
    <2>1. head' \in 0..NumFragments /\ cwnd' \in 0..Max2(1, WndSize)
      BY SMT, <1>5, <1>7, RingTypes DEF Max2
    <2>2. tails' \in [Replicas -> 0..head']
      <3>1. \A q \in Replicas : tails'[q] \in 0..head'
        BY SMT, <1>2, <1>4, <1>5
      <3> QED
        BY <1>4, <3>1
    <2> QED
      BY <1>1, <1>2, <1>5, <1>6, <1>7, <2>1, <2>2 DEF GroupInv, TypeOK
  <1>9. Sender'
    BY <1>1, <1>5, <1>7 DEF GroupInv, Sender, Queued, MinTailIndex
  <1>10. \A q \in Replicas : Replica(q)'
    <2> TAKE q \in Replicas
    <2>1. TypeOK /\ Replica(q) /\ fault'[q] # "abort"
      BY <1>1 DEF GroupInv, Replica
    <2> QED
      BY <1>1, <1>4, <1>5, <1>6, <2>1, ReplicaKept
  <1> QED
    BY <1>8, <1>9, <1>10 DEF GroupInv

\* A step of one replica leaves the sender and the other replicas alone.
LEMMA OthersKept ==
    ASSUME GroupInv, NEW r \in Replicas, UNCHANGED senderVars, TypeOK', Replica(r)',
           \A q \in Replicas \ {r} :
               /\ rq'[q] = rq[q] /\ mem'[q] = mem[q] /\ fault'[q] = fault[q]
               /\ dataNet'[q] \subseteq dataNet[q] /\ ackNet'[q] \subseteq ackNet[q]
    PROVE  GroupInv'
  <1>1. UNCHANGED <<posted, head, tails, wnd, slot, cwnd>>
    BY DEF senderVars
  <1>2. Sender'
    BY <1>1 DEF GroupInv, Sender, Queued, MinTailIndex
  <1>3. ASSUME NEW q \in Replicas
        PROVE  Replica(q)'
    <2>1. CASE q = r
      BY <2>1
    <2>2. CASE q # r
      <3>1. TypeOK /\ Replica(q) /\ head' \in Nat /\ head <= head'
        BY SMT, <1>1, GroupIndices DEF GroupInv
      <3>2. /\ rq'[q] = rq[q] /\ mem'[q] = mem[q] /\ fault'[q] # "abort"
            /\ head' <= tails'[q] + WndSize + 1 /\ tails'[q] <= rq[q].tail
        BY <1>1, <2>2, <3>1 DEF Replica
      <3>3. /\ \A p \in dataNet'[q] : p < head' /\ head' <= p + MaxLag
            /\ \A a \in ackNet'[q] : a <= rq[q].tail /\ head' <= a + MaxLag
        BY <1>1, <2>2, <3>1 DEF Replica
      <3> QED
        BY <3>1, <3>2, <3>3, ReplicaKept
    <2> QED
      BY <2>1, <2>2
  <1> QED
    BY <1>2, <1>3 DEF GroupInv

\* ContextMcast::receive preserves the invariant.
LEMMA ReceiveInv ==
    ASSUME SafeConstants, GroupInv, NEW r \in Replicas, Receive(r)
    PROVE  GroupInv'
  <1> DEFINE q == rq[r]
             more == [q EXCEPT !.posted = @ + 1]
             f == Filled(more)
  <1>0. rq' = [rq EXCEPT ![r] = f]
    BY DEF Receive
  <1>1. /\ q.posted < NumTasks
        /\ rq' = [rq EXCEPT ![r] = f]
        /\ UNCHANGED senderVars
        /\ UNCHANGED <<head, tails, mem, ackDue, ackState, fault, dataNet, ackNet>>
    <2>1. q.posted < NumTasks
      BY DEF Receive
    <2> HIDE DEF q, more, f
    <2> QED
      BY <1>0, <2>1 DEF Receive, senderVars
  <1>2. /\ q \in Queue /\ RequestsOK(q) /\ Contents(q, mem[r], head)
        /\ q.posted \in 0..NumTasks /\ rq \in [Replicas -> Queue]
    BY GroupIndices DEF GroupInv, Replica, TypeOK
  <1> HIDE DEF q
  <1>3. /\ more \in Queue /\ more.posted = q.posted + 1 /\ more.tail = q.tail
        /\ more.head = q.head /\ more.slot = q.slot
    <2>1. q.posted + 1 \in 0..NumTasks
      BY SMT, <1>1, <1>2, RingTypes
    <2> QED
      BY <1>2, <2>1 DEF Queue
  <1> HIDE DEF more
  <1>4. RequestsOK(more)
    <2>1. /\ q.head \in Nat /\ End[q.posted] \in Nat /\ End[q.posted + 1] \in Nat
          /\ End[q.posted] <= End[q.posted + 1]
      BY SMT, <1>1, <1>2, RingTypes DEF Queue
    <2>2. q.head <= End[more.posted]
      BY SMT, <1>2, <1>3, <2>1 DEF RequestsOK
    <2> QED
      BY <1>2, <1>3, <2>2 DEF RequestsOK
  <1>5. /\ f \in Queue /\ f.tail = q.tail /\ RequestsOK(f)
        /\ \A i \in f.tail..(f.head - 1) : ~f.slot[SlotOf(i)].inflight =>
              i \in q.tail..(q.head - 1) /\ ~q.slot[SlotOf(i)].inflight
    BY <1>3, <1>4, FilledOK
  <1> HIDE DEF f
  <1>6. Contents(f, mem[r], head)
    BY <1>2, <1>5 DEF Contents
  <1>7. rq' \in [Replicas -> Queue] /\ rq'[r] = f /\ \A o \in Replicas \ {r} : rq'[o] = rq[o]
    BY <1>1, <1>2, <1>5
  <1>8. TypeOK'
    BY <1>1, <1>7 DEF GroupInv, TypeOK, senderVars
  <1>9. Replica(r)'
    <2>1. RequestsOK(rq'[r]) /\ Contents(rq'[r], mem'[r], head') /\ rq'[r].tail = rq[r].tail
      BY <1>1, <1>5, <1>6, <1>7 DEF q
    <2>2. /\ head' <= tails'[r] + WndSize + 1
          /\ tails'[r] <= rq'[r].tail
          /\ \A p \in dataNet'[r] : p < head' /\ head' <= p + MaxLag
          /\ \A a \in ackNet'[r] : a <= rq'[r].tail /\ head' <= a + MaxLag
          /\ fault'[r] # "abort"
      BY <1>1, <2>1 DEF GroupInv, Replica
    <2>3. RequestsOK(rq[r])' /\ Contents(rq[r], mem[r], head)'
      BY <2>1 DEF RequestsOK, Contents
    <2> QED
      BY <2>2, <2>3 DEF Replica
  <1> QED
    BY <1>1, <1>7, <1>8, <1>9, OthersKept

\* A packet of the fabric that a replica's window accepts is the one of that index.
LEMMA AcceptedIs ==
    ASSUME SafeConstants, GroupInv, NEW r \in Replicas, NEW p \in dataNet[r], Accepts(r, p)
    PROVE  rq[r].tail <= p /\ p < rq[r].tail + WndSize
  <1>1. /\ head \in Nat /\ rq[r].tail \in Nat /\ p \in Nat /\ rq[r].tail <= head
        /\ p < head /\ head <= p + MaxLag /\ tails[r] \in Nat
        /\ tails[r] <= rq[r].tail /\ head <= tails[r] + WndSize + 1
    BY SMT, GroupIndices, RingTypes DEF GroupInv, Replica, Contents, Fragments
  <1>2. /\ WndSize \in Nat /\ WndSize < SNSpace
        /\ p < rq[r].tail + SNSpace /\ rq[r].tail + WndSize <= p + SNSpace
    BY SMT, <1>1, RingTypes, GroupTypes DEF SafeConstants
  <1> QED
    BY <1>1, <1>2, ReceiveWindowCorrect, RingTypes DEF Accepts

\* ReceiveQueue::markCompleted never meets a request of another length.
LEMMA OutcomeIs ==
    ASSUME SafeConstants, GroupInv, NEW r \in Replicas, NEW p \in dataNet[r]
    PROVE  LET m == rq[r].slot[SlotOf(p)]
           IN  /\ Outcome(r, p, m) \in {"none", "assert"}
               /\ Accepts(r, p) /\ m.inflight => m.buf = p
  <1> DEFINE m == rq[r].slot[SlotOf(p)]
  <1>1. p \in Nat /\ rq[r] \in Queue /\ RequestsOK(rq[r])
    BY SMT, GroupIndices, RingTypes DEF GroupInv, Replica, Fragments
  <1>2. Accepts(r, p) /\ m.inflight => m.buf = p
    BY <1>1, AcceptedIs, RequestMet
  <1> HIDE DEF m
  <1>3. Outcome(r, p, m) \in {"none", "assert"}
    <2>1. ~(/\ rq[r].head # rq[r].tail
            /\ Accepts(r, p) /\ m.inflight
            /\ FragmentLength(p) # FragmentLength(m.buf))
      BY <1>2
    <2> QED
      BY <2>1 DEF Outcome
  <1> QED
    BY <1>2, <1>3 DEF m

\* What a data packet does to its replica: nothing, or it completes its own request
\* and puts itself in its own place.
LEMMA DataEffect ==
    ASSUME SafeConstants, GroupInv, NEW r \in Replicas, NEW p \in dataNet[r], ReceiveData(r, p)
    PROVE  /\ UNCHANGED senderVars /\ UNCHANGED <<ackState, dataNet, ackNet>>
           /\ fault' \in [Replicas -> {"none", "assert", "abort"}] /\ fault'[r] # "abort"
           /\ \A q \in Replicas \ {r} : fault'[q] = fault[q]
           /\ ackDue' \in [Replicas -> BOOLEAN]
           /\ \/ UNCHANGED <<rq, mem>>
              \/ /\ rq[r].tail <= p /\ p < rq[r].tail + WndSize
                 /\ rq' = [rq EXCEPT ![r] = Completed(rq[r], SlotOf(p))]
                 /\ mem' = [mem EXCEPT ![r] = IF rq[r].slot[SlotOf(p)].inflight
                                              THEN [mem[r] EXCEPT ![p] = p] ELSE mem[r]]
  <1> DEFINE m == rq[r].slot[SlotOf(p)]
  <1>1. p \in Nat /\ SHORT_SN(p) % QueueCapacity = SlotOf(p)
    BY SMT, GroupIndices, RingTypes, ShortSlot DEF GroupInv, Fragments, SafeConstants
  <1>2. /\ fault' = [fault EXCEPT ![r] = Outcome(r, p, m)]
        /\ IF fault'[r] = "none" /\ rq[r].head # rq[r].tail
           THEN /\ ackDue' = [ackDue EXCEPT ![r] = TRUE]
                /\ IF Accepts(r, p)
                   THEN /\ rq' = [rq EXCEPT ![r] = Completed(rq[r], SlotOf(p))]
                        /\ mem' = IF m.inflight THEN [mem EXCEPT ![r][m.buf] = p] ELSE mem
                   ELSE UNCHANGED <<rq, mem>>
           ELSE UNCHANGED <<rq, mem, ackDue>>
        /\ UNCHANGED <<senderVars, ackState, dataNet, ackNet>>
    BY <1>1 DEF ReceiveData
  <1>3. /\ Outcome(r, p, m) \in {"none", "assert"}
        /\ Accepts(r, p) /\ m.inflight => m.buf = p
    BY OutcomeIs
  <1> HIDE DEF m
  <1>4. /\ fault' \in [Replicas -> {"none", "assert", "abort"}] /\ fault'[r] # "abort"
        /\ \A q \in Replicas \ {r} : fault'[q] = fault[q]
    BY <1>2, <1>3 DEF GroupInv, TypeOK
  <1>5. ackDue' \in [Replicas -> BOOLEAN]
    <2>1. ackDue \in [Replicas -> BOOLEAN]
      BY DEF GroupInv, TypeOK
    <2>2. ackDue' = ackDue \/ ackDue' = [ackDue EXCEPT ![r] = TRUE]
      BY <1>2
    <2> QED
      BY <2>1, <2>2
  <1>6. CASE UNCHANGED <<rq, mem>>
    BY <1>2, <1>4, <1>5, <1>6
  <1>7. CASE /\ Accepts(r, p)
             /\ rq' = [rq EXCEPT ![r] = Completed(rq[r], SlotOf(p))]
             /\ mem' = IF m.inflight THEN [mem EXCEPT ![r][m.buf] = p] ELSE mem
    <2>1. rq[r].tail <= p /\ p < rq[r].tail + WndSize
      BY <1>7, AcceptedIs
    <2>2. mem \in [Replicas -> [Fragments -> Fragments \cup {NoFragment}]]
      BY DEF GroupInv, TypeOK
    <2>3. mem' = [mem EXCEPT ![r] = IF m.inflight THEN [mem[r] EXCEPT ![p] = p] ELSE mem[r]]
      <3>1. CASE m.inflight
        BY <1>3, <1>7, <2>2, <3>1
      <3>2. CASE ~m.inflight
        BY <1>7, <2>2, <3>2
      <3> QED
        BY <3>1, <3>2
    <2> QED
      BY <1>2, <1>4, <1>5, <1>7, <2>1, <2>3 DEF m
  <1> QED
    BY <1>2, <1>6, <1>7

\* A data packet preserves the invariant.
LEMMA ReceiveDataInv ==
    ASSUME SafeConstants, GroupInv, NEW r \in Replicas, NEW p \in dataNet[r], ReceiveData(r, p)
    PROVE  GroupInv'
  <1> DEFINE c == Completed(rq[r], SlotOf(p))
             n == IF rq[r].slot[SlotOf(p)].inflight THEN [mem[r] EXCEPT ![p] = p] ELSE mem[r]
  <1>1. /\ UNCHANGED senderVars /\ UNCHANGED <<ackState, dataNet, ackNet>>
        /\ UNCHANGED <<head, tails>>
        /\ fault' \in [Replicas -> {"none", "assert", "abort"}] /\ fault'[r] # "abort"
        /\ \A q \in Replicas \ {r} : fault'[q] = fault[q]
        /\ ackDue' \in [Replicas -> BOOLEAN]
    BY DataEffect DEF senderVars
  <1>2. /\ head \in Nat /\ p \in Fragments /\ p < head
        /\ rq[r] \in Queue /\ RequestsOK(rq[r])
        /\ mem[r] \in [Fragments -> Fragments \cup {NoFragment}]
        /\ Contents(rq[r], mem[r], head)
        /\ rq \in [Replicas -> Queue]
        /\ mem \in [Replicas -> [Fragments -> Fragments \cup {NoFragment}]]
        /\ tails[r] \in Nat /\ tails[r] <= rq[r].tail /\ rq[r].tail \in Nat
        /\ ackNet[r] \subseteq Nat
    BY SMT, GroupIndices, RingTypes DEF GroupInv, Replica, TypeOK
  <1>3. /\ rq' \in [Replicas -> Queue]
        /\ mem' \in [Replicas -> [Fragments -> Fragments \cup {NoFragment}]]
        /\ rq[r].tail <= rq'[r].tail /\ rq'[r].tail \in Nat
        /\ RequestsOK(rq'[r]) /\ Contents(rq'[r], mem'[r], head)
        /\ \A q \in Replicas \ {r} : rq'[q] = rq[q] /\ mem'[q] = mem[q]
    <2>1. CASE UNCHANGED <<rq, mem>>
      BY SMT, <1>2, <2>1
    <2>2. CASE /\ rq[r].tail <= p /\ p < rq[r].tail + WndSize
               /\ rq' = [rq EXCEPT ![r] = c]
               /\ mem' = [mem EXCEPT ![r] = n]
      <3>1. /\ c \in Queue /\ rq[r].tail <= c.tail /\ RequestsOK(c)
            /\ n \in [Fragments -> Fragments \cup {NoFragment}]
            /\ Contents(c, n, head)
        <4> HIDE DEF n
        <4>1. n = IF rq[r].slot[SlotOf(p)].inflight THEN [mem[r] EXCEPT ![p] = p] ELSE mem[r]
          BY DEF n
        <4> QED
          BY <1>2, <2>2, <4>1, CompletedOK
      <3> HIDE DEF c, n
      <3>2. c.tail \in Nat
        BY <3>1 DEF Queue
      <3>3. rq'[r] = c /\ mem'[r] = n
        BY <1>2, <2>2
      <3>4. \A q \in Replicas \ {r} : rq'[q] = rq[q] /\ mem'[q] = mem[q]
        BY <1>2, <2>2
      <3> QED
        BY <1>2, <2>2, <3>1, <3>2, <3>3, <3>4
    <2> QED
      BY <2>1, <2>2, DataEffect
  <1>4. TypeOK'
    BY <1>1, <1>3 DEF GroupInv, TypeOK, senderVars
  <1>5. Replica(r)'
    <2>1. RequestsOK(rq[r])' /\ Contents(rq[r], mem[r], head)'
      BY <1>1, <1>3 DEF RequestsOK, Contents
    <2>2. \A a \in ackNet[r] : a \in Nat /\ a <= rq[r].tail /\ head <= a + MaxLag
      BY <1>2 DEF GroupInv, Replica
    <2>3. /\ tails'[r] <= rq'[r].tail
          /\ \A a \in ackNet'[r] : a <= rq'[r].tail /\ head' <= a + MaxLag
      BY SMT, <1>1, <1>2, <1>3, <2>2
    <2>4. /\ head' <= tails'[r] + WndSize + 1
          /\ \A i \in dataNet'[r] : i < head' /\ head' <= i + MaxLag
          /\ fault'[r] # "abort"
      BY <1>1 DEF GroupInv, Replica
    <2> QED
      BY <2>1, <2>3, <2>4 DEF Replica
  <1> QED
    BY <1>1, <1>3, <1>4, <1>5, OthersKept

\* Acknowledgements, their completions and losses preserve the invariant.
LEMMA MinorStepsInv ==
    ASSUME SafeConstants, GroupInv, NEW r \in Replicas,
           SendAckPackets(r) \/ AckSent(r) \/ LoseData(r) \/ LoseAck(r)
    PROVE  GroupInv'
  <1>1. UNCHANGED senderVars /\ UNCHANGED <<head, tails, rq, mem, fault>>
    BY DEF SendAckPackets, AckSent, LoseData, LoseAck, senderVars, replicaVars
  <1>2. /\ ackDue \in [Replicas -> BOOLEAN]
        /\ ackState \in [Replicas -> {"idle", "posted", "stuck"}]
        /\ dataNet \in [Replicas -> SUBSET Fragments]
        /\ ackNet \in [Replicas -> SUBSET (0..NumFragments)]
    BY DEF GroupInv, TypeOK
  <1>3. /\ head \in Nat /\ rq[r].tail \in Nat /\ tails[r] \in Nat
        /\ tails[r] <= rq[r].tail /\ rq[r].tail <= head /\ head <= tails[r] + WndSize + 1
        /\ rq[r].tail <= rq[r].tail /\ rq[r].tail \in 0..NumFragments
        /\ head <= rq[r].tail + MaxLag
    <2>1. /\ head \in Nat /\ rq[r].tail \in Nat /\ tails[r] \in Nat /\ head <= NumFragments
          /\ tails[r] <= rq[r].tail /\ rq[r].tail <= head /\ head <= tails[r] + WndSize + 1
      BY GroupIndices DEF GroupInv, Replica, Contents
    <2> QED
      BY SMT, <2>1, RingTypes, GroupTypes DEF SafeConstants
  <1>4. /\ dataNet' \in [Replicas -> SUBSET Fragments]
        /\ \A q \in Replicas : dataNet'[q] \subseteq dataNet[q]
    BY <1>2 DEF SendAckPackets, AckSent, LoseData, LoseAck
  <1>5. /\ ackNet' \in [Replicas -> SUBSET (0..NumFragments)]
        /\ \A q \in Replicas \ {r} : ackNet'[q] \subseteq ackNet[q]
        /\ ackNet'[r] \subseteq ackNet[r] \cup {rq[r].tail}
    <2>1. \/ ackNet' = ackNet
          \/ ackNet' = [ackNet EXCEPT ![r] = ackNet[r] \cup {rq[r].tail}]
          \/ ackNet' = [ackNet EXCEPT ![r] = {}]
      BY DEF SendAckPackets, AckSent, LoseData, LoseAck
    <2>2. CASE ackNet' = ackNet
      BY <1>2, <2>2
    <2>3. CASE ackNet' = [ackNet EXCEPT ![r] = ackNet[r] \cup {rq[r].tail}]
      BY <1>2, <1>3, <2>3
    <2>4. CASE ackNet' = [ackNet EXCEPT ![r] = {}]
      BY <1>2, <2>4
    <2> QED
      BY <2>1, <2>2, <2>3, <2>4
  <1>6. /\ ackDue' \in [Replicas -> BOOLEAN]
        /\ ackState' \in [Replicas -> {"idle", "posted", "stuck"}]
    <2>1. \/ ackDue' = ackDue
          \/ ackDue' = [ackDue EXCEPT ![r] = FALSE]
      BY DEF SendAckPackets, AckSent, LoseData, LoseAck, replicaVars
    <2>2. \/ ackState' = ackState
          \/ \E v \in {"idle", "posted", "stuck"} : ackState' = [ackState EXCEPT ![r] = v]
      BY DEF SendAckPackets, AckSent, LoseData, LoseAck, replicaVars
    <2> QED
      BY <1>2, <2>1, <2>2
  <1>7. TypeOK'
    BY <1>1, <1>4, <1>5, <1>6 DEF GroupInv, TypeOK, senderVars
  <1>8. Replica(r)'
    <2>1. \A a \in ackNet'[r] : a <= rq[r].tail /\ head <= a + MaxLag
      BY <1>3, <1>5 DEF GroupInv, Replica
    <2>2. /\ TypeOK /\ Replica(r) /\ fault'[r] # "abort" /\ head' \in Nat /\ head <= head'
          /\ head' <= tails'[r] + WndSize + 1 /\ tails'[r] <= rq[r].tail
          /\ \A p \in dataNet'[r] : p < head' /\ head' <= p + MaxLag
      BY SMT, <1>1, <1>3, <1>4 DEF GroupInv, Replica
    <2> QED
      BY <1>1, <2>1, <2>2, ReplicaKept
  <1> QED
    BY <1>1, <1>4, <1>5, <1>7, <1>8, OthersKept

(***************************************************************************)
(* Safety of the group.                                                    *)
(***************************************************************************)

LEMMA GroupInitial == SafeConstants /\ Init => GroupInv
  <1> SUFFICES ASSUME SafeConstants, Init
               PROVE  GroupInv
    OBVIOUS
  <1>1. /\ head = 0 /\ posted = 0 /\ wnd = WndSize /\ cwnd = 1
        /\ 0 \in 0..NumTasks /\ 0 \in 0..NumFragments /\ End[0] = 0
        /\ cwnd \in 0..Max2(1, WndSize) /\ wnd \in 0..QueueCapacity
        /\ wnd <= WndSize /\ cwnd <= WndSize
    BY SMT, RingTypes, GroupTypes, TaskAssumption DEF Init, Max2
  <1>2. EmptyQueue \in Queue
    BY <1>1 DEF EmptyQueue, Queue
  <1>3. TypeOK
    BY SMT, <1>1, <1>2 DEF Init, TypeOK
  <1>4. Sender
    <2>1. MinTailIndex(tails) \in Nat
      BY <1>3, MinTailIs, GroupIndices
    <2>2. Queued = {}
      BY SMT, <1>1, <2>1 DEF Queued
    <2> QED
      BY SMT, <1>1, <2>2 DEF Sender
  <1>5. ASSUME NEW r \in Replicas
        PROVE  Replica(r)
    <2>1. /\ tails[r] = 0 /\ rq[r] = EmptyQueue /\ fault[r] = "none"
          /\ dataNet[r] = {} /\ ackNet[r] = {}
          /\ mem[r] = [i \in Fragments |-> NoFragment]
      BY DEF Init
    <2>2. /\ EmptyQueue.posted = 0 /\ EmptyQueue.head = 0 /\ EmptyQueue.tail = 0
          /\ \A s \in Slots : ~EmptyQueue.slot[s].inflight
      BY DEF EmptyQueue
    <2>3. RequestsOK(EmptyQueue)
      BY SMT, <1>1, <2>2, RingTypes DEF RequestsOK
    <2>4. Contents(EmptyQueue, mem[r], head)
      BY SMT, <1>1, <2>1, <2>2 DEF Contents
    <2> QED
      BY SMT, <1>1, <2>1, <2>2, <2>3, <2>4, RingTypes DEF Replica
  <1> QED
    BY <1>3, <1>4, <1>5 DEF GroupInv

LEMMA GroupStep == SafeConstants /\ GroupInv /\ [Next]_vars => GroupInv'
  <1> SUFFICES ASSUME SafeConstants, GroupInv, [Next]_vars
               PROVE  GroupInv'
    OBVIOUS
  <1>1. CASE Send
    BY <1>1, SendInv
  <1>2. ASSUME NEW expired \in SUBSET Sent, SendDataPackets(expired)
        PROVE  GroupInv'
    BY <1>2, SendDataPacketsInv
  <1>3. ASSUME NEW r \in Replicas, NEW a \in ackNet[r], ReceiveAck(r, a)
        PROVE  GroupInv'
    BY <1>3, ReceiveAckInv
  <1>4. ASSUME NEW r \in Replicas, ReplicaNext(r)
        PROVE  GroupInv'
    BY <1>4, ReceiveInv, ReceiveDataInv, MinorStepsInv DEF ReplicaNext
  <1>5. CASE UNCHANGED vars
    <2>1. /\ UNCHANGED <<posted, head, tails, wnd, slot, cwnd>>
          /\ UNCHANGED <<rq, mem, ackDue, ackState, fault, dataNet, ackNet>>
      BY <1>5 DEF vars, senderVars, replicaVars
    <2>2. TypeOK'
      BY <2>1 DEF GroupInv, TypeOK
    <2>3. Sender'
      BY <2>1 DEF GroupInv, Sender, Queued, MinTailIndex
    <2>4. ASSUME NEW r \in Replicas
          PROVE  Replica(r)'
      <3>1. RequestsOK(rq[r])' /\ Contents(rq[r], mem[r], head)'
        BY <2>1 DEF GroupInv, Replica, RequestsOK, Contents
      <3> QED
        BY <2>1, <3>1 DEF GroupInv, Replica
    <2> QED
      BY <2>2, <2>3, <2>4 DEF GroupInv
  <1> QED
    BY <1>1, <1>2, <1>3, <1>4, <1>5 DEF Next

\* Whatever the fabric loses, repeats or delays within the horizon, and however
\* far the replicas are apart, the queues of a group stay consistent.
THEOREM GroupInvariant ==
    ASSUME SafeConstants
    PROVE  Spec => []GroupInv
  BY GroupInitial, GroupStep, PTL DEF Spec

\* The sender keeps what the slowest replica still needs, and no replica's request
\* is replaced before it is complete.
THEOREM GroupKeepsPackets ==
    ASSUME SafeConstants
    PROVE  Spec => []GroupRingIntact
  <1>1. GroupInv => GroupRingIntact
    BY DEF GroupInv, Sender, Replica, RequestsOK, GroupRingIntact
  <1> QED
    BY <1>1, GroupInvariant, PTL

\* The length check of ReceiveQueue::markCompleted ends no replica.
THEOREM ReplicasSurvive ==
    ASSUME SafeConstants
    PROVE  Spec => []NoReplicaAborts
  <1>1. GroupInv => NoReplicaAborts
    BY DEF GroupInv, Replica, NoReplicaAborts
  <1> QED
    BY <1>1, GroupInvariant, PTL

\* The statuses of the tasks of a group are those of the tails.
LEMMA GroupStatusIsTail ==
    ASSUME NumFragments < SNSpace, GroupInv
    PROVE  /\ \A t \in 1..posted : SendDone(t) =>
                 \A r \in Replicas : End[t] <= tails[r]
           /\ \A r \in Replicas : \A t \in 1..rq[r].posted : ReceiveDone(r, t) =>
                 End[t] <= rq[r].tail
  <1>1. /\ head \in 0..NumFragments /\ posted \in 0..NumTasks
        /\ tails \in [Replicas -> Nat]
        /\ \A r \in Replicas : /\ tails[r] \in Nat /\ tails[r] <= head
                               /\ rq[r].posted \in 0..NumTasks
    BY GroupIndices DEF GroupInv, TypeOK
  <1>2. \A t \in 0..NumTasks : End[t] \in 0..NumFragments
    BY RingTypes
  <1>3. /\ MinTailIndex(tails) \in 0..NumFragments /\ MinTailIndex(tails) <= head
        /\ \A r \in Replicas : MinTailIndex(tails) <= tails[r]
    BY SMT, <1>1, MinTailIs, RingTypes
  <1>4. ASSUME NEW t \in 1..posted, SendDone(t), NEW r \in Replicas
        PROVE  End[t] <= tails[r]
    <2>1. t \in 0..NumTasks
      BY SMT, <1>1, RingTypes
    <2>2. End[t] <= MinTailIndex(tails)
      BY <1>1, <1>2, <1>3, <1>4, <2>1, SuccessIsTail DEF SendDone
    <2>3. End[t] \in Nat /\ MinTailIndex(tails) \in Nat
      BY SMT, <1>2, <1>3, <2>1
    <2> QED
      BY SMT, <1>1, <1>3, <2>2, <2>3
  <1>5. ASSUME NEW r \in Replicas, NEW t \in 1..rq[r].posted, ReceiveDone(r, t)
        PROVE  End[t] <= rq[r].tail
    <2>1. t \in 0..NumTasks
      BY SMT, <1>1, RingTypes
    <2>2. /\ rq[r].tail \in Nat /\ rq[r].head \in Nat
          /\ rq[r].tail <= rq[r].head /\ rq[r].head <= End[rq[r].posted]
      BY GroupIndices DEF GroupInv, Replica, RequestsOK
    <2>3. End[rq[r].posted] \in 0..NumFragments
      BY <1>1, <1>2
    <2>4. rq[r].tail \in 0..NumFragments /\ rq[r].head \in 0..NumFragments
      BY SMT, <2>2, <2>3, RingTypes
    <2> QED
      BY <1>2, <1>5, <2>1, <2>2, <2>4, SuccessIsTail DEF ReceiveDone
  <1> QED
    BY <1>4, <1>5

\* getStatus reports a multicast send SUCCESS only when every replica has all its
\* data, and a receive only when this replica has, as long as the sequence numbers
\* of the tasks do not wrap.
THEOREM GroupStatusCorrect ==
    ASSUME SafeConstants, NumFragments < SNSpace
    PROVE  Spec => []GroupStatusSound
  <1>1. GroupInv => GroupStatusSound
    <2> SUFFICES ASSUME GroupInv
                 PROVE  GroupStatusSound
      OBVIOUS
    <2>1. \A r \in Replicas : /\ tails[r] \in Nat /\ rq[r].tail \in Nat
                              /\ tails[r] <= rq[r].tail
                              /\ rq[r].posted \in 0..NumTasks
                              /\ \A i \in 0..(rq[r].tail - 1) : mem[r][i] = i
      BY GroupIndices DEF GroupInv, Replica, Contents
    <2>2. posted \in 0..NumTasks
      BY GroupIndices DEF GroupInv
    <2>3. \A t \in 0..NumTasks : End[t] \in Nat
      BY SMT, RingTypes
    <2>4. ASSUME NEW t \in 1..posted, SendDone(t), NEW r \in Replicas, NEW i \in 0..(End[t] - 1)
          PROVE  mem[r][i] = i
      <3>1. End[t] <= tails[r] /\ t \in 0..NumTasks
        BY SMT, <2>2, <2>4, GroupStatusIsTail, RingTypes
      <3>2. i \in 0..(rq[r].tail - 1)
        BY SMT, <2>1, <2>3, <3>1
      <3> QED
        BY <2>1, <3>2
    <2>5. ASSUME NEW r \in Replicas, NEW t \in 1..rq[r].posted, ReceiveDone(r, t),
                 NEW i \in 0..(End[t] - 1)
          PROVE  mem[r][i] = i
      <3>1. End[t] <= rq[r].tail /\ t \in 0..NumTasks
        BY SMT, <2>1, <2>5, GroupStatusIsTail, RingTypes
      <3>2. i \in 0..(rq[r].tail - 1)
        BY SMT, <2>1, <2>3, <3>1
      <3> QED
        BY <2>1, <3>2
    <2> QED
      BY <2>4, <2>5 DEF GroupStatusSound
  <1> QED
    BY <1>1, GroupInvariant, PTL

(***************************************************************************)
(* Refinement.                                                             *)
(***************************************************************************)

\* What a step does to the stream of one replica: it posts a task, or advances one
\* of the two tails, or does none of these.
LEMMA StreamEffect ==
    ASSUME SafeConstants, GroupInv, GroupInv', [Next]_vars, NEW q \in Replicas
    PROVE  \/ /\ posted' = posted /\ rq'[q].posted = rq[q].posted
              /\ tails'[q] = tails[q] /\ rq'[q].tail = rq[q].tail
           \/ /\ posted < NumTasks /\ posted' = posted + 1
              /\ rq'[q] = rq[q] /\ tails'[q] = tails[q]
           \/ /\ rq[q].posted < NumTasks /\ rq'[q].posted = rq[q].posted + 1
              /\ posted' = posted /\ tails'[q] = tails[q] /\ rq'[q].tail = rq[q].tail
           \/ /\ rq[q].tail < rq'[q].tail
              /\ posted' = posted /\ tails'[q] = tails[q] /\ rq'[q].posted = rq[q].posted
           \/ /\ tails[q] < tails'[q]
              /\ posted' = posted /\ rq'[q] = rq[q]
  <1> DEFINE G == \/ /\ posted' = posted /\ rq'[q].posted = rq[q].posted
                     /\ tails'[q] = tails[q] /\ rq'[q].tail = rq[q].tail
                  \/ /\ posted < NumTasks /\ posted' = posted + 1
                     /\ rq'[q] = rq[q] /\ tails'[q] = tails[q]
                  \/ /\ rq[q].posted < NumTasks /\ rq'[q].posted = rq[q].posted + 1
                     /\ posted' = posted /\ tails'[q] = tails[q] /\ rq'[q].tail = rq[q].tail
                  \/ /\ rq[q].tail < rq'[q].tail
                     /\ posted' = posted /\ tails'[q] = tails[q]
                     /\ rq'[q].posted = rq[q].posted
                  \/ /\ tails[q] < tails'[q]
                     /\ posted' = posted /\ rq'[q] = rq[q]
  <1> SUFFICES G
    OBVIOUS
  <1>0. /\ tails[q] \in Nat /\ rq[q].tail \in Nat /\ rq[q] \in Queue /\ RequestsOK(rq[q])
        /\ rq \in [Replicas -> Queue] /\ tails \in [Replicas -> Nat]
    BY GroupIndices DEF GroupInv, Replica, TypeOK
  <1>1. CASE Send
    BY <1>1 DEF Send, replicaVars
  <1>2. ASSUME NEW expired \in SUBSET Sent, SendDataPackets(expired)
        PROVE  G
    BY <1>2 DEF SendDataPackets, replicaVars
  <1>3. ASSUME NEW r \in Replicas, NEW a \in ackNet[r], ReceiveAck(r, a)
        PROVE  G
    <2>1. /\ tails' = [tails EXCEPT ![r] = AckedTail(tails[r], head, SHORT_SN(a))]
          /\ UNCHANGED <<posted, rq>>
      BY <1>3 DEF ReceiveAck, replicaVars
    <2>2. CASE q = r
      <3>1. tails'[q] \in Nat /\ tails[q] <= tails'[q]
        BY <1>0, <2>1, <2>2, AckTailIs
      <3>2. tails'[q] = tails[q] \/ tails[q] < tails'[q]
        BY SMT, <1>0, <3>1
      <3> QED
        BY <2>1, <3>2
    <2>3. CASE q # r
      BY <1>0, <2>1, <2>3
    <2> QED
      BY <2>2, <2>3
  <1>4. ASSUME NEW r \in Replicas, Receive(r)
        PROVE  G
    <2> DEFINE more == [rq[r] EXCEPT !.posted = @ + 1]
    <2>1. /\ rq[r].posted < NumTasks
          /\ rq' = [rq EXCEPT ![r] = Filled(more)]
      BY <1>4 DEF Receive
    <2>2. posted' = posted /\ tails' = tails
      BY <1>4 DEF Receive, senderVars
    <2>3. CASE q = r
      <3>1. more.posted = rq[q].posted + 1 /\ more.tail = rq[q].tail
        BY <1>0, <2>3 DEF Queue
      <3>2. Filled(more).posted = more.posted /\ Filled(more).tail = more.tail
        <4>1. more \in [posted : Nat, head : Nat, tail : Nat,
                        slot : [Slots -> [buf : Fragments \cup {NoFragment}, inflight : BOOLEAN]]]
          BY SMT, <1>0, <2>3, RingTypes DEF Queue
        <4> HIDE DEF more
        <4> QED
          BY <4>1 DEF Filled
      <3>3. rq'[q] = Filled(more)
        BY <1>0, <2>1, <2>3
      <3> QED
        BY <2>1, <2>2, <2>3, <3>1, <3>2, <3>3
    <2>4. CASE q # r
      BY <1>0, <2>1, <2>2, <2>4
    <2> QED
      BY <2>3, <2>4
  <1>5. ASSUME NEW r \in Replicas, NEW p \in dataNet[r], ReceiveData(r, p)
        PROVE  G
    <2>1. posted' = posted /\ tails' = tails
      BY <1>5, DataEffect DEF senderVars
    <2>2. CASE rq' = rq
      BY <2>1, <2>2
    <2>3. CASE rq' = [rq EXCEPT ![r] = Completed(rq[r], SlotOf(p))] /\ q = r
               /\ rq[r].tail <= p /\ p < rq[r].tail + WndSize
      <3> DEFINE c == Completed(rq[q], SlotOf(p))
                 n == IF rq[q].slot[SlotOf(p)].inflight THEN [mem[q] EXCEPT ![p] = p] ELSE mem[q]
      <3>1. rq'[q] = c
        BY <1>0, <2>3
      <3>2. /\ head \in Nat /\ p \in Fragments /\ p < head
            /\ mem[q] \in [Fragments -> Fragments \cup {NoFragment}]
            /\ Contents(rq[q], mem[q], head)
        BY <2>3, GroupIndices DEF GroupInv, Replica
      <3>3. c \in Queue /\ c.posted = rq[q].posted /\ rq[q].tail <= c.tail
        <4> HIDE DEF n
        <4>1. n = IF rq[q].slot[SlotOf(p)].inflight THEN [mem[q] EXCEPT ![p] = p] ELSE mem[q]
          BY DEF n
        <4> QED
          BY SMT, <1>0, <2>3, <3>2, <4>1, CompletedOK
      <3> HIDE DEF c
      <3>4. c.tail \in Nat
        BY <3>3 DEF Queue
      <3>5. c.tail = rq[q].tail \/ rq[q].tail < c.tail
        BY SMT, <1>0, <3>3, <3>4
      <3> QED
        BY <2>1, <3>1, <3>3, <3>5
    <2>4. CASE rq' = [rq EXCEPT ![r] = Completed(rq[r], SlotOf(p))] /\ q # r
      BY <1>0, <2>1, <2>4
    <2> QED
      BY <1>5, <2>2, <2>3, <2>4, DataEffect
  <1>6. ASSUME NEW r \in Replicas, SendAckPackets(r) \/ AckSent(r) \/ LoseData(r) \/ LoseAck(r)
        PROVE  G
    BY <1>6 DEF SendAckPackets, AckSent, LoseData, LoseAck, senderVars, replicaVars
  <1>7. CASE UNCHANGED vars
    BY <1>7 DEF vars, senderVars, replicaVars
  <1> HIDE DEF G
  <1> QED
    BY <1>1, <1>2, <1>3, <1>4, <1>5, <1>6, <1>7 DEF Next, ReplicaNext

\* A step of the group is a step of the stream of replica q, or leaves it alone.
LEMMA StreamStep ==
    ASSUME SafeConstants, GroupInv, GroupInv', [Next]_vars, NEW q \in Replicas
    PROVE  Stream(q)!StreamNext \/ UNCHANGED Stream(q)!streamVars
  <1> DEFINE tl == rq[q].tail
             tn == rq'[q].tail
             got == [i \in 0..(rq[q].tail - 1) |-> mem[q][i]]
             gotn == [i \in 0..(rq'[q].tail - 1) |-> mem'[q][i]]
  <1>1. /\ got = [i \in 0..(tl - 1) |-> i]
        /\ gotn = [i \in 0..(tn - 1) |-> i]
        /\ DOMAIN got = 0..(tl - 1)
    BY DEF GroupInv, Replica, Contents
  <1>2. /\ posted \in 0..NumTasks /\ posted' \in 0..NumTasks
        /\ rq[q].posted \in 0..NumTasks /\ rq'[q].posted \in 0..NumTasks
        /\ tails[q] \in Nat /\ tails'[q] \in Nat /\ tl \in Nat /\ tn \in Nat
    BY SMT, GroupIndices DEF GroupInv, TypeOK, Queue
  <1>3. \A t \in 0..NumTasks : End[t] \in 0..NumFragments
    BY RingTypes
  <1>4. /\ tn <= End[posted'] /\ tn <= End[rq'[q].posted] /\ tails'[q] <= tn
        /\ tn <= NumFragments
    <2>1. /\ tn <= head' /\ head' <= End[posted'] /\ head' \in Nat
          /\ tn <= rq'[q].head /\ rq'[q].head <= End[rq'[q].posted] /\ rq'[q].head \in Nat
          /\ tails'[q] <= tn
      <3>1. head' <= End[posted']
        BY DEF GroupInv, Sender
      <3>2. tails'[q] <= tn /\ RequestsOK(rq[q])' /\ Contents(rq[q], mem[q], head)'
        BY DEF GroupInv, Replica
      <3>3. rq'[q].head <= End[rq'[q].posted] /\ tn <= rq'[q].head
        BY <3>2 DEF RequestsOK
      <3>4. tn <= head'
        BY <3>2 DEF Contents
      <3>5. head' \in Nat /\ rq'[q].head \in Nat
        BY SMT DEF GroupInv, TypeOK, Queue
      <3> QED
        BY <3>1, <3>2, <3>3, <3>4, <3>5
    <2> QED
      BY SMT, <1>2, <1>3, <2>1, RingTypes
  <1>5. CASE /\ posted' = posted /\ rq'[q].posted = rq[q].posted
             /\ tails'[q] = tails[q] /\ rq'[q].tail = rq[q].tail
    BY <1>1, <1>5 DEF Stream!streamVars
  <1>6. CASE /\ posted < NumTasks /\ posted' = posted + 1
             /\ rq'[q] = rq[q] /\ tails'[q] = tails[q]
    <2>1. End[posted'] \in (End[posted] + 1)..NumFragments
      BY SMT, <1>2, <1>3, <1>6, RingTypes, TaskAssumption
    <2>2. gotn = got
      BY <1>1, <1>6
    <2>3. Stream(q)!Offer
      BY <1>6, <2>1, <2>2 DEF Stream!Offer
    <2> QED
      BY <2>3 DEF Stream!StreamNext
  <1>7. CASE /\ rq[q].posted < NumTasks /\ rq'[q].posted = rq[q].posted + 1
             /\ posted' = posted /\ tails'[q] = tails[q] /\ rq'[q].tail = rq[q].tail
    <2>1. End[rq'[q].posted] \in (End[rq[q].posted] + 1)..NumFragments
      BY SMT, <1>2, <1>3, <1>7, RingTypes, TaskAssumption
    <2>2. gotn = got
      BY <1>1, <1>7
    <2>3. Stream(q)!Want
      BY <1>7, <2>1, <2>2 DEF Stream!Want
    <2> QED
      BY <2>3 DEF Stream!StreamNext
  <1>8. CASE /\ rq[q].tail < rq'[q].tail
             /\ posted' = posted /\ tails'[q] = tails[q] /\ rq'[q].posted = rq[q].posted
    <2>1. /\ tn \in 1..NumFragments
          /\ tn <= End[posted] /\ tn <= End[rq[q].posted]
          /\ tn - 1 \notin 0..(tl - 1)
      BY SMT, <1>2, <1>4, <1>8, RingTypes
    <2>2. gotn = Stream(q)!Prefix(tn)
      BY <1>1 DEF Stream!Prefix
    <2>3. Stream(q)!Deliver
      BY <1>1, <1>8, <2>1, <2>2 DEF Stream!Deliver
    <2> QED
      BY <2>3 DEF Stream!StreamNext
  <1>9. CASE /\ tails[q] < tails'[q]
             /\ posted' = posted /\ rq'[q] = rq[q]
    <2>1. tails'[q] \in (tails[q] + 1)..NumFragments /\ tails'[q] - 1 \in 0..(tl - 1)
      BY SMT, <1>2, <1>4, <1>9, RingTypes
    <2>2. gotn = got
      BY <1>1, <1>9
    <2>3. Stream(q)!Confirm
      BY <1>1, <1>9, <2>1, <2>2 DEF Stream!Confirm
    <2> QED
      BY <2>3 DEF Stream!StreamNext
  <1> QED
    BY <1>5, <1>6, <1>7, <1>8, <1>9, StreamEffect

\* Every replica gets a reliable stream of its own: in order, each fragment once and
\* unaltered, and confirmed to the sender only when it has arrived there.
THEOREM GroupImplementsStreams ==
    ASSUME SafeConstants
    PROVE  Spec => ImplementsStreams
  <1>1. Init => \A r \in Replicas : Stream(r)!StreamInit
    BY SMT, TaskAssumption DEF Init, EmptyQueue, Stream!StreamInit, Stream!Prefix
  <1>2. GroupInv /\ GroupInv' /\ [Next]_vars =>
            \A r \in Replicas : Stream(r)!StreamNext \/ UNCHANGED Stream(r)!streamVars
    BY StreamStep
  <1> QED
    BY <1>1, <1>2, GroupInvariant, PTL DEF Spec, ImplementsStreams
=============================================================================
