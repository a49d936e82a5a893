---------------------------- MODULE ReceiveQueue ----------------------------
(***************************************************************************)
(* ReceiveQueue of packet_manager: a ring of receive requests in front of  *)
(* a secondary queue of user buffers.                                      *)
(*                                                                         *)
(* The receiving application posts buffers for the same tasks as the       *)
(* sender, so buffer i is meant for fragment i.  The last fragment of a    *)
(* task is shorter than the others; markCompleted aborts the process when  *)
(* a packet and the request it meets differ in length.                     *)
(***************************************************************************)
EXTENDS PacketRing

VARIABLES
    rPosted,    \* tasks posted by the receiving application
    rHead,      \* head_
    rTail,      \* tail_
    rSlot,      \* requests_: the buffer each slot refers to, and inflight
    mem         \* user memory: the fragment written to each buffer

receiveQueueVars == <<rPosted, rHead, rTail, rSlot, mem>>

\* requests_[sn % queue_capacity_]: the slot is found from the short number.
RequestSlot(sn) == sn % QueueCapacity

ReceiveQueueInit ==
    /\ rPosted = 0
    /\ rHead = 0
    /\ rTail = 0
    /\ rSlot = [s \in Slots |-> [buf |-> NoFragment, inflight |-> FALSE]]
    /\ mem = [i \in Fragments |-> NoFragment]

\* Variant: the window is not checked.
ReceiveFillHeadUnbounded(posted, tail) == End[posted]

\* fillPrimaryQueue, on the ring `slots` with the given tail.
ReceiveFillHead(posted, tail) ==
    Max2(rHead, Min2(End[posted], tail + WndSize + 1))

ReceiveFill(posted, tail, slots) ==
    LET head == ReceiveFillHead(posted, tail)
    IN  /\ rHead' = head
        /\ rSlot' = [s \in Slots |->
                        IF Written(s, rHead, head)
                        THEN [buf |-> LastWrite(s, rHead, head), inflight |-> TRUE]
                        ELSE slots[s]]

\* ReceiveQueue::push of the next task.
ReceivePush ==
    /\ rPosted < NumTasks
    /\ rPosted' = rPosted + 1
    /\ ReceiveFill(rPosted + 1, rTail, rSlot)
    /\ UNCHANGED <<rTail, mem>>

\* Variant: the loop does not look at inflight.
AdvancedTailUnchecked(slots) == rHead

\* The tail after the loop that skips the completed requests at the front.
AdvancedTail(slots) ==
    CHOOSE t \in rTail..rHead :
        /\ \A i \in rTail..(t - 1) : ~slots[SlotOf(i)].inflight
        /\ t = rHead \/ slots[SlotOf(t)].inflight

(***************************************************************************)
(* ReceiveQueue::markCompleted on the packet of fragment p.                *)
(***************************************************************************)
\* Variant: the sequence number is not checked.
AcceptsAll(p) == TRUE

Accepts(p) == InReceiveWindow(rTail, WndSize, SHORT_SN(p))

Meets(p) == rSlot[RequestSlot(SHORT_SN(p))]

LengthMismatch(p) ==
    /\ Accepts(p)
    /\ Meets(p).inflight
    /\ FragmentLength(p) # FragmentLength(Meets(p).buf)

ReceiveMarkCompleted(p) ==
    \/ /\ ~Accepts(p)
       /\ UNCHANGED receiveQueueVars
    \/ /\ Accepts(p)
       /\ LET slots == [rSlot EXCEPT ![RequestSlot(SHORT_SN(p))].inflight = FALSE]
          IN  /\ mem' = IF Meets(p).inflight THEN [mem EXCEPT ![Meets(p).buf] = p]
                                             ELSE mem
              /\ rTail' = AdvancedTail(slots)
              /\ ReceiveFill(rPosted, rTail', slots)
              /\ UNCHANGED rPosted

\* getStatus of the receive task t.
ReceiveDone(t) == IsSuccess(SHORT_SN(End[t]), SHORT_SN(rTail), SHORT_SN(rHead))

Request == [buf : Fragments \cup {NoFragment}, inflight : BOOLEAN]

ReceiveQueueTypeOK ==
    /\ rPosted \in 0..NumTasks
    /\ rHead \in Nat
    /\ rTail \in Nat
    /\ rSlot \in [Slots -> Request]
    /\ mem \in [Fragments -> Fragments \cup {NoFragment}]
=============================================================================
