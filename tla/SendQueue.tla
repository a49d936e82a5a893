----------------------------- MODULE SendQueue ------------------------------
(***************************************************************************)
(* SendQueue of packet_manager.  Packet i carries sequence number          *)
(* SHORT_SN(i) and fragment i.                                             *)
(*                                                                         *)
(* Only the first QueueCapacity packets need a buffer from the pool: slot  *)
(* i % QueueCapacity keeps the buffer it got for index i until the queue   *)
(* is destroyed.  PoolPackets is the number of buffers left for the queue. *)
(***************************************************************************)
EXTENDS PacketRing

CONSTANT PoolPackets    \* packet buffers the pool can give to this queue

ASSUME PoolAssumption == PoolPackets \in Nat

VARIABLES
    sPosted,    \* tasks pushed so far
    sHead,      \* head_
    sTail,      \* tail_
    sWnd,       \* wnd_size_
    sSlot       \* handle_: the packet in each slot, and whether its ts is set

sendQueueVars == <<sPosted, sHead, sTail, sWnd, sSlot>>

(***************************************************************************)
(* The head fillPrimaryQueue stops at.  Its loop runs while fragments      *)
(* remain, head_ - tail_ <= wnd_size_ and the slot has or gets a buffer;   *)
(* each condition is a bound on head_.                                     *)
(***************************************************************************)
PoolLimit == IF PoolPackets < QueueCapacity THEN PoolPackets ELSE NumFragments

\* Variant: one packet too many.
SendFillHeadOffByOne(posted, tail) ==
    Max2(sHead, Min2(Min2(End[posted], tail + sWnd + 2), PoolLimit))

SendFillHead(posted, tail) ==
    Max2(sHead, Min2(Min2(End[posted], tail + sWnd + 1), PoolLimit))

SendFill(posted, tail) ==
    LET head == SendFillHead(posted, tail)
    IN  /\ sHead' = head
        /\ sSlot' = [s \in Slots |->
                        IF Written(s, sHead, head)
                        THEN [frag |-> LastWrite(s, sHead, head), sent |-> FALSE]
                        ELSE sSlot[s]]

SendQueueInit ==
    /\ sPosted = 0
    /\ sHead = 0
    /\ sTail = 0
    /\ sWnd = WndSize
    /\ sSlot = [s \in Slots |-> [frag |-> NoFragment, sent |-> FALSE]]

\* SendQueue::push of the next task.
SendPush ==
    /\ sPosted < NumTasks
    /\ sPosted' = sPosted + 1
    /\ SendFill(sPosted + 1, sTail)
    /\ UNCHANGED <<sTail, sWnd>>

\* SendQueue::markCompleted(ack_sn).
SendMarkCompleted(ack_sn) ==
    /\ sTail' = AckedTail(sTail, sHead, ack_sn)
    /\ SendFill(sPosted, sTail')
    /\ UNCHANGED sPosted

\* SendQueue::setWndSize.
ClampedWnd(wnd) == Min2(wnd, QueueCapacity)

\* getStatus of the send task t.
SendDone(t) == IsSuccess(SHORT_SN(End[t]), SHORT_SN(sTail), SHORT_SN(sHead))

Handle == [frag : Fragments \cup {NoFragment}, sent : BOOLEAN]

SendQueueTypeOK ==
    /\ sPosted \in 0..NumTasks
    /\ sHead \in Nat
    /\ sTail \in Nat
    /\ sWnd \in Nat
    /\ sSlot \in [Slots -> Handle]
=============================================================================
