---------------------------- MODULE WorkRequests ----------------------------
(***************************************************************************)
(* The work requests of one Context: the receive handles that it keeps     *)
(* posted on the UD queue pairs, the send requests it posts in batches,    *)
(* the depth counters of RdmaUDEndPointStore and the RequestCache that     *)
(* recycles Request objects.                                               *)
(*                                                                         *)
(* Request objects are numbered in the order in which they are allocated   *)
(* with new; made counts them.  MaxMade bounds them.                       *)
(***************************************************************************)
EXTENDS Integers, Sequences, FiniteSets, SequencesExt

CONSTANTS
    NumHandles,     \* kNumReceiveHandles
    NumQPs,         \* num_qp_per_endpoint
    MaxWr,          \* max_wr_per_qp
    BatchSize,      \* kRequestBatchSize
    CacheCapacity,  \* kLazyDeleteRequestCapacity
    PostMayFail,    \* ibv_post_send may refuse requests
    MaxMade         \* bound: Request objects made

ASSUME WorkRequestAssumption ==
    /\ {NumHandles, NumQPs, MaxWr, BatchSize, CacheCapacity, MaxMade} \subseteq Nat \ {0}
    /\ PostMayFail \in BOOLEAN

QPs == 0..(NumQPs - 1)
Handles == 1..NumHandles

VARIABLES
    built,      \* receive handles constructed so far
    index,      \* recv_handles_qp_index_map_
    made,       \* Request objects made with new
    deleted,    \* those that were deleted
    cache,      \* lazy_delete_requests_, from tail_ to head_
    recvDepth,  \* recv_wr_depth_list_
    sendDepth,  \* send_wr_depth_list_
    recvQueue,  \* work requests on the receive queues
    sendQueue,  \* work requests on the send queues
    recvCq,     \* receive completions that were not polled yet
    sendCq      \* send completions that were not polled yet

vars == <<built, index, made, deleted, cache, recvDepth, sendDepth, recvQueue, sendQueue,
          recvCq, sendCq>>

Init ==
    /\ built = 0
    /\ index = [h \in Handles |-> 0]
    /\ made = 0
    /\ deleted = {}
    /\ cache = <<>>
    /\ recvDepth = [q \in QPs |-> 0]
    /\ sendDepth = [q \in QPs |-> 0]
    /\ recvQueue = [q \in QPs |-> <<>>]
    /\ sendQueue = [q \in QPs |-> <<>>]
    /\ recvCq = <<>>
    /\ sendCq = <<>>

(***************************************************************************)
(* RequestCache.  A pool is a [cache, made] record.                        *)
(***************************************************************************)
\* Variant: the entry is not removed from the ring.
AllocatedKeeping(pool, k) ==
    [reqs |-> [i \in 1..k |-> IF i <= Len(pool.cache) THEN pool.cache[i]
                              ELSE pool.made + i - Len(pool.cache)],
     pool |-> [cache |-> pool.cache,
               made |-> IF k <= Len(pool.cache) THEN pool.made
                        ELSE pool.made + k - Len(pool.cache)]]

\* k calls of allocate.
Allocated(pool, k) ==
    LET cached == IF k <= Len(pool.cache) THEN k ELSE Len(pool.cache)
    IN  [reqs |-> SubSeq(pool.cache, 1, cached) \o [i \in 1..(k - cached) |-> pool.made + i],
         pool |-> [cache |-> SubSeq(pool.cache, cached + 1, Len(pool.cache)),
                   made |-> pool.made + k - cached]]

\* deallocate: a full ring deletes the request.
Deallocate(pool, req) ==
    /\ made' = pool.made
    /\ IF Len(pool.cache) = CacheCapacity
       THEN cache' = pool.cache /\ deleted' = deleted \cup {req}
       ELSE cache' = Append(pool.cache, req) /\ UNCHANGED deleted

Pool == [cache |-> cache, made |-> made]

Work(req, h, q) == [req |-> req, handle |-> h, qp |-> q]

(***************************************************************************)
(* submitNormalRecvWR for handle h, given the depth and the queues it      *)
(* meets: postReceiveRequest posts nothing on a full queue.                *)
(***************************************************************************)
\* Variant: every handle stays on queue pair 0.
SubmitOnFirst(h, req, depth) ==
    /\ recvDepth' = [depth EXCEPT ![0] = @ + 1]
    /\ recvQueue' = [recvQueue EXCEPT ![0] = Append(@, Work(req, h, 0))]

SubmitNormalRecvWR(h, req, depth) ==
    LET q == index[h]
        room == depth[q] < MaxWr
    IN  /\ recvDepth' = IF room THEN [depth EXCEPT ![q] = @ + 1] ELSE depth
        /\ recvQueue' = IF room THEN [recvQueue EXCEPT ![q] = Append(@, Work(req, h, q))]
                                ELSE recvQueue

\* One round of the loop in construct: the handle is posted before its queue pair
\* is chosen, hence on queue pair 0.
Construct ==
    LET h == built + 1
        got == Allocated(Pool, 1)
    IN  /\ built < NumHandles
        /\ built' = h
        /\ got.pool.made <= MaxMade
        /\ SubmitNormalRecvWR(h, got.reqs[1], recvDepth)
        /\ index' = [index EXCEPT ![h] = (h - 1) % NumQPs]
        /\ made' = got.pool.made
        /\ cache' = got.pool.cache
        /\ UNCHANGED <<deleted, sendDepth, sendQueue, recvCq, sendCq>>

\* A datagram arrives on queue pair q and takes the oldest receive request.
Arrive(q) ==
    /\ recvQueue[q] # <<>>
    /\ recvCq' = Append(recvCq, Head(recvQueue[q]))
    /\ recvQueue' = [recvQueue EXCEPT ![q] = Tail(@)]
    /\ UNCHANGED <<built, index, made, deleted, cache, recvDepth, sendDepth, sendQueue, sendCq>>

\* What postSendRequest adds to the depth when `posted` of wr_count were taken.
Counted(wr_count, posted) == posted

WrCount(q, k) ==
    LET room == MaxWr - sendDepth[q]
    IN  IF k <= room THEN k ELSE room

\* sendDataPackets or sendAckPackets post k requests on queue pair q.  The last
\* object is left to the receive side, so that the bound stops no poll.
PostSend(q, k) ==
    LET got == Allocated(Pool, k)
        wr_count == WrCount(q, k)
    IN  /\ built = NumHandles
        /\ got.pool.made < MaxMade
        /\ \E posted \in IF PostMayFail THEN 0..wr_count ELSE {wr_count} :
              /\ sendDepth' = [sendDepth EXCEPT ![q] = @ + Counted(wr_count, posted)]
              /\ sendQueue' = [sendQueue EXCEPT ![q] = @ \o SubSeq(got.reqs, 1, posted)]
        /\ made' = got.pool.made
        /\ cache' = got.pool.cache
        /\ UNCHANGED <<built, index, deleted, recvDepth, recvQueue, sendCq, recvCq>>

\* The oldest send request of queue pair q completes.
SendCompletes(q) ==
    /\ sendQueue[q] # <<>>
    /\ sendCq' = Append(sendCq, [req |-> Head(sendQueue[q]), qp |-> q])
    /\ sendQueue' = [sendQueue EXCEPT ![q] = Tail(@)]
    /\ UNCHANGED <<built, index, made, deleted, cache, recvDepth, sendDepth, recvQueue, recvCq>>

\* pollCompletedPackets(SEND_CQ), for one completion.
PollSend ==
    LET c == Head(sendCq)
    IN  /\ built = NumHandles
        /\ sendCq # <<>>
        /\ sendCq' = Tail(sendCq)
        /\ sendDepth' = [sendDepth EXCEPT ![c.qp] = @ - 1]
        /\ Deallocate(Pool, c.req)
        /\ UNCHANGED <<built, index, recvDepth, recvQueue, sendQueue, recvCq>>

\* Variant: the buffer of a received datagram is not posted again.
PollReceiveWithoutRepost ==
    LET c == Head(recvCq)
    IN  /\ built = NumHandles
        /\ recvCq # <<>>
        /\ recvCq' = Tail(recvCq)
        /\ recvDepth' = [recvDepth EXCEPT ![c.qp] = @ - 1]
        /\ Deallocate(Pool, c.req)
        /\ UNCHANGED <<built, index, sendDepth, recvQueue, sendQueue, sendCq>>

(***************************************************************************)
(* pollCompletedPackets(RECV_CQ), for one completion: the depth goes down, *)
(* processReceivedPacket posts the handle again with a new request, and    *)
(* then the old request is returned to the cache.  Datagrams come from     *)
(* peers that run this code, so deserialize accepts them.                  *)
(***************************************************************************)
PollReceive ==
    LET c == Head(recvCq)
        got == Allocated(Pool, 1)
    IN  /\ built = NumHandles
        /\ recvCq # <<>>
        /\ got.pool.made <= MaxMade
        /\ recvCq' = Tail(recvCq)
        /\ SubmitNormalRecvWR(c.handle, got.reqs[1], [recvDepth EXCEPT ![c.qp] = @ - 1])
        /\ Deallocate(got.pool, c.req)
        /\ UNCHANGED <<built, index, sendDepth, sendQueue, sendCq>>

Next ==
    \/ Construct
    \/ PollSend
    \/ PollReceive
    \/ \E q \in QPs : Arrive(q) \/ SendCompletes(q) \/ \E k \in 1..BatchSize : PostSend(q, k)

Spec == Init /\ [][Next]_vars

\* Peers choose the queue pair of each datagram at random, so every queue pair with
\* a buffer is used again and again; the worker keeps polling.
FairSpec ==
    Spec /\ WF_vars(Construct) /\ WF_vars(PollReceive) /\ \A q \in QPs : WF_vars(Arrive(q))

(***************************************************************************)
(* Properties.                                                             *)
(***************************************************************************)

\* Depth counters stay within max_wr_per_qp and all work refers to objects that
\* were made.
TypeOK ==
    /\ built \in 0..NumHandles
    /\ index \in [Handles -> QPs]
    /\ made \in 0..MaxMade
    /\ deleted \subseteq 1..MaxMade
    /\ Range(cache) \subseteq 1..MaxMade /\ Len(cache) <= CacheCapacity
    /\ recvDepth \in [QPs -> 0..MaxWr]
    /\ sendDepth \in [QPs -> 0..MaxWr]
    /\ \A q \in QPs : Range(sendQueue[q]) \subseteq 1..MaxMade
    /\ Range(sendCq) \subseteq [req : 1..MaxMade, qp : QPs]
    /\ Range(recvCq) \cup UNION {Range(recvQueue[q]) : q \in QPs}
           \subseteq [req : 1..MaxMade, handle : Handles, qp : QPs]

Unpolled(completions, q) == {i \in DOMAIN completions : completions[i].qp = q}

\* The depth counters that decide how much may be posted are exact, also when
\* ibv_post_send refuses requests.
DepthExact ==
    \A q \in QPs :
        /\ recvDepth[q] = Len(recvQueue[q]) + Cardinality(Unpolled(recvCq, q))
        /\ sendDepth[q] = Len(sendQueue[q]) + Cardinality(Unpolled(sendCq, q))

\* The work that refers to a receive handle, and all the Request objects in use.
Receiving == FoldFunction(LAMBDA s, acc : s \o acc, recvCq, recvQueue)
InUse ==
    [i \in DOMAIN Receiving |-> Receiving[i].req]
        \o FoldFunction(LAMBDA s, acc : s \o acc, [i \in DOMAIN sendCq |-> sendCq[i].req], sendQueue)

\* A Request object has one use at a time: two outstanding work requests never share
\* one, and none of them is in the cache or deleted.
NoAliasing ==
    /\ IsInjective(InUse \o cache)
    /\ (Range(InUse) \cup Range(cache)) \cap deleted = {}

\* Every receive handle is posted, or its datagram waits to be polled, exactly once:
\* the receiver never runs out of buffers.
HandlesConserved ==
    \A h \in 1..built : Cardinality({i \in DOMAIN Receiving : Receiving[i].handle = h}) = 1

\* Although construct posts all handles on queue pair 0, each one ends up on the
\* queue pair that it was given.
HandlesSettle ==
    <>[](\A q \in QPs : \A w \in Range(recvQueue[q]) : index[w.handle] = q)
=============================================================================
