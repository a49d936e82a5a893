----------------------------- MODULE PacketRing -----------------------------
(***************************************************************************)
(* What the send and the receive queue of packet_manager share: a ring of  *)
(* QueueCapacity slots in front of a secondary queue of user buffers.      *)
(*                                                                         *)
(* The applications transfer tasks 1, 2, ... in order; End[t] is the       *)
(* number of fragments in tasks 1 .. t (SecondaryQueue::fragment_id_ after *)
(* the t-th push).  popFragment hands fragments out in order and every pop *)
(* is stored at index head_, so an index is also the number of the         *)
(* fragment stored there, and the secondary queue of a queue with posted   *)
(* tasks holds the fragments head_ .. End[posted] - 1.                     *)
(***************************************************************************)
EXTENDS SerialNumber

CONSTANTS
    QueueCapacity,  \* slots of the ring (RT_QUEUE_CAPACITY)
    WndSize,        \* PacketManager::kWndSize
    NumTasks,       \* tasks the applications transfer
    End             \* End[t]: fragments in tasks 1 .. t

ASSUME QueueAssumption ==
    /\ QueueCapacity \in Nat \ {0}
    /\ WndSize \in Nat \ {0}
    /\ WndSize <= QueueCapacity     \* assert in the constructors of the queues

ASSUME TaskAssumption ==
    /\ NumTasks \in Nat \ {0}
    /\ End \in [0..NumTasks -> Nat]
    /\ End[0] = 0
    /\ \A s, t \in 0..NumTasks : s < t => End[s] < End[t]

Slots == 0..(QueueCapacity - 1)
NumFragments == End[NumTasks]
Fragments == 0..(NumFragments - 1)
NoFragment == -1

\* Only the last fragment of a task is shorter than the fragment size.
FragmentLength(i) ==
    IF \E t \in 1..NumTasks : End[t] = i + 1 THEN "short" ELSE "full"

SlotOf(index) == index % QueueCapacity

\* The last index of lo .. hi-1 that is stored in slot s.
LastWrite(s, lo, hi) ==
    CHOOSE i \in lo..(hi - 1) :
        /\ SlotOf(i) = s
        /\ \A j \in (i + 1)..(hi - 1) : SlotOf(j) # s

\* Whether storing indices lo .. hi-1 touches slot s.
Written(s, lo, hi) == \E i \in lo..(hi - 1) : SlotOf(i) = s
=============================================================================
