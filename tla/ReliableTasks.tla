---------------------------- MODULE ReliableTasks ---------------------------
(***************************************************************************)
(* The rdma_reliable protocol between two nodes: the RdmaReliableProtocol  *)
(* object of each node, their applications, and the queue pairs of a       *)
(* hardware-reliable connection (RC).                                      *)
(*                                                                         *)
(* A task is a list of requests; request i of task t is <<t, i>>.  The     *)
(* application of node n issues the tasks of Program[n] in order.  The     *)
(* worker takes a task from the queue, posts its requests, and polls both  *)
(* completion queues; where spawn_worker_ is set it is a thread, otherwise *)
(* it is runStep, which keeps neither its task nor its count between calls.*)
(***************************************************************************)
EXTENDS Integers, Sequences, Functions

CONSTANTS
    Nodes,          \* the two nodes
    Program,        \* Program[n]: the tasks of node n, [type, size] records
    MaxWr,          \* max_wr_per_qp
    SpawnWorker,    \* the sets of nodes that may have spawn_worker_ set
    FreesTasks,     \* the applications call freeTask
    MayBreak,       \* the connection may fail
    PostMayFail     \* ibv_post_send and ibv_post_recv may fail

Types == {"SEND", "RECEIVE"}

ASSUME ReliableAssumption ==
    /\ \E x, y \in Nodes : x # y /\ Nodes = {x, y}
    /\ \A n \in Nodes : Program[n] \in Seq([type : Types, size : Nat \ {0}])
    /\ MaxWr \in Nat \ {0}
    /\ SpawnWorker \subseteq SUBSET Nodes /\ SpawnWorker # {}
    /\ {FreesTasks, MayBreak, PostMayFail} \subseteq BOOLEAN

VARIABLES
    worker,         \* the nodes with spawn_worker_, fixed by their constructors
    issued,         \* tasks issued by the application
    pending,        \* pending_task_
    held,           \* the worker's task, or 0
    inflight,       \* inflight_requests of the worker
    status,         \* Request::status
    outstanding,    \* work requests on the queue pair, by type
    done,           \* completions that were not polled yet, by type
    mem,            \* for each receive request, the send request it received
    freed,          \* tasks that were erased from task_map_
    broken          \* the connection has failed

vars ==
    <<worker, issued, pending, held, inflight, status, outstanding, done, mem, freed, broken>>

Peer(n) == CHOOSE m \in Nodes : m # n
Type(n, t) == Program[n][t].type
Size(n, t) == Program[n][t].size
RequestsOf(n, t) == {<<t, i>> : i \in 1..Size(n, t)}
Requests(n) == UNION {RequestsOf(n, t) : t \in DOMAIN Program[n]}
NoRequest == <<>>

\* The requests of one type, and the order in which a node issues them.
Typed(n, type) == {r \in Requests(n) : Type(n, r[1]) = type}
Earlier(r, q) == r[1] < q[1] \/ (r[1] = q[1] /\ r[2] < q[2])

\* The wr_depth counters of the endpoint: posted and not yet polled.
Depth(n, type) == Len(outstanding[n][type]) + Len(done[n][type])

Init ==
    /\ worker \in SpawnWorker
    /\ issued = [n \in Nodes |-> 0]
    /\ pending = [n \in Nodes |-> <<>>]
    /\ held = [n \in Nodes |-> 0]
    /\ inflight = [n \in Nodes |-> 0]
    /\ status = [n \in Nodes |-> [r \in Requests(n) |-> "PENDING"]]
    /\ outstanding = [n \in Nodes |-> [type \in Types |-> <<>>]]
    /\ done = [n \in Nodes |-> [type \in Types |-> <<>>]]
    /\ mem = [n \in Nodes |-> [r \in Requests(n) |-> NoRequest]]
    /\ freed = [n \in Nodes |-> {}]
    /\ broken = FALSE

\* send or receive: the task enters task_map_ and the queue.
Submit(n) ==
    /\ issued[n] < Len(Program[n])
    /\ issued' = [issued EXCEPT ![n] = @ + 1]
    /\ pending' = [pending EXCEPT ![n] = Append(@, issued'[n])]
    /\ UNCHANGED <<worker, held, inflight, status, outstanding, done, mem, freed, broken>>

\* getStatus.
Status(n, t) ==
    LET found == {status[n][r] : r \in RequestsOf(n, t)}
    IN  CASE "FAILED" \in found  -> "FAILED"
          [] "PENDING" \in found -> "PENDING"
          [] OTHER               -> "SUCCESS"

\* freeTask, called for a task that getStatus no longer reports PENDING.
FreeTask(n, t) ==
    /\ FreesTasks
    /\ t <= issued[n]
    /\ t \notin freed[n]
    /\ Status(n, t) # "PENDING"
    /\ freed' = [freed EXCEPT ![n] = @ \cup {t}]
    /\ UNCHANGED <<worker, issued, pending, held, inflight, status, outstanding, done, mem, broken>>

(***************************************************************************)
(* The worker.                                                             *)
(***************************************************************************)
\* Variant: the newest task first.
TakeNewestTask(n) ==
    /\ held[n] = 0
    /\ pending[n] # <<>>
    /\ LET last == Len(pending[n]) IN
       /\ held' = [held EXCEPT ![n] = IF pending[n][last] \in freed[n] THEN 0 ELSE pending[n][last]]
       /\ pending' = [pending EXCEPT ![n] = SubSeq(@, 1, last - 1)]
    /\ UNCHANGED <<worker, issued, inflight, status, outstanding, done, mem, freed, broken>>

\* A task that was freed while it waited is no longer in task_map_.
TakeTask(n) ==
    /\ held[n] = 0
    /\ pending[n] # <<>>
    /\ held' = [held EXCEPT ![n] = IF Head(pending[n]) \in freed[n] THEN 0 ELSE Head(pending[n])]
    /\ pending' = [pending EXCEPT ![n] = Tail(@)]
    /\ UNCHANGED <<worker, issued, inflight, status, outstanding, done, mem, freed, broken>>

Fits(n) == (IF n \in worker THEN inflight[n] ELSE 0) + Size(n, held[n]) <= MaxWr

\* The number of requests that the endpoint posts: what the queue pair has room for.
WrCount(n) ==
    LET room == MaxWr - Depth(n, Type(n, held[n]))
    IN  IF Size(n, held[n]) <= room THEN Size(n, held[n]) ELSE room

Completion(r, ok) == [req |-> r, ok |-> ok]
Flushed(reqs) == [i \in DOMAIN reqs |-> Completion(reqs[i], FALSE)]

(***************************************************************************)
(* postSendRequest or postReceiveRequest of the whole task.  A failing     *)
(* ibv_post leaves out the requests from `bad` on, yet the endpoint counts *)
(* them as posted.  On a broken queue pair posted requests are flushed.    *)
(***************************************************************************)
PostTask(n) ==
    LET t == held[n]
        count == WrCount(n)
    IN  /\ held[n] # 0
        /\ Fits(n)
        /\ held' = [held EXCEPT ![n] = 0]
        /\ inflight' = [inflight EXCEPT ![n] = IF n \in worker THEN @ + count ELSE 0]
        /\ \E bad \in IF PostMayFail THEN 1..(count + 1) ELSE {count + 1} :
              LET posted == [i \in 1..(bad - 1) |-> <<t, i>>]
              IN  /\ status' = [status EXCEPT ![n] =
                        [r \in Requests(n) |->
                            IF r[1] = t /\ r[2] >= bad THEN "FAILED" ELSE @[r]]]
                  /\ IF broken
                     THEN /\ done' = [done EXCEPT ![n][Type(n, t)] = @ \o Flushed(posted)]
                          /\ UNCHANGED outstanding
                     ELSE /\ outstanding' =
                                [outstanding EXCEPT ![n][Type(n, t)] = @ \o posted]
                          /\ UNCHANGED done
        /\ UNCHANGED <<worker, issued, pending, mem, freed, broken>>

\* runStep forgets a task that does not fit.
DropTask(n) ==
    /\ n \notin worker
    /\ held[n] # 0
    /\ ~Fits(n)
    /\ held' = [held EXCEPT ![n] = 0]
    /\ UNCHANGED <<worker, issued, pending, inflight, status, outstanding, done, mem, freed, broken>>

\* Variant: the count of the worker is not lowered.
PollUncounted(n, type) ==
    /\ done[n][type] # <<>>
    /\ LET c == Head(done[n][type])
       IN  status' = [status EXCEPT ![n][c.req] = IF c.ok THEN "SUCCESS" ELSE "FAILED"]
    /\ done' = [done EXCEPT ![n][type] = Tail(@)]
    /\ UNCHANGED <<worker, issued, pending, held, inflight, outstanding, mem, freed, broken>>

\* Variant: the status of the completion is not looked at.
PollUnchecked(n, type) ==
    /\ done[n][type] # <<>>
    /\ status' = [status EXCEPT ![n][Head(done[n][type]).req] = "SUCCESS"]
    /\ done' = [done EXCEPT ![n][type] = Tail(@)]
    /\ inflight' = [inflight EXCEPT ![n] = IF n \in worker THEN @ - 1 ELSE 0]
    /\ UNCHANGED <<worker, issued, pending, held, outstanding, mem, freed, broken>>

\* poll, for one completion.
Poll(n, type) ==
    /\ done[n][type] # <<>>
    /\ LET c == Head(done[n][type])
       IN  status' = [status EXCEPT ![n][c.req] = IF c.ok THEN "SUCCESS" ELSE "FAILED"]
    /\ done' = [done EXCEPT ![n][type] = Tail(@)]
    /\ inflight' = [inflight EXCEPT ![n] = IF n \in worker THEN @ - 1 ELSE 0]
    /\ UNCHANGED <<worker, issued, pending, held, outstanding, mem, freed, broken>>

(***************************************************************************)
(* The connection.  The oldest send request of a node meets the oldest     *)
(* receive request of its peer; a send waits for a receive without limit   *)
(* (rnr_retry = 7).                                                        *)
(***************************************************************************)
Transfer(n) ==
    LET m == Peer(n)
        s == outstanding[n]["SEND"]
        r == outstanding[m]["RECEIVE"]
    IN  /\ s # <<>> /\ r # <<>>
        /\ mem' = [mem EXCEPT ![m][Head(r)] = Head(s)]
        /\ outstanding' = [outstanding EXCEPT ![n]["SEND"] = Tail(s), ![m]["RECEIVE"] = Tail(r)]
        /\ done' = [done EXCEPT ![n]["SEND"] = Append(@, Completion(Head(s), TRUE)),
                                ![m]["RECEIVE"] = Append(@, Completion(Head(r), TRUE))]
        /\ UNCHANGED <<worker, issued, pending, held, inflight, status, freed, broken>>

Break ==
    /\ MayBreak
    /\ ~broken
    /\ broken' = TRUE
    /\ outstanding' = [n \in Nodes |-> [type \in Types |-> <<>>]]
    /\ done' = [n \in Nodes |-> [type \in Types |->
                   done[n][type] \o Flushed(outstanding[n][type])]]
    /\ UNCHANGED <<worker, issued, pending, held, inflight, status, mem, freed>>

WorkerNext(n) ==
    \/ TakeTask(n)
    \/ PostTask(n)
    \/ DropTask(n)
    \/ \E type \in Types : Poll(n, type)

Next ==
    \/ \E n \in Nodes : Submit(n) \/ WorkerNext(n) \/ Transfer(n)
    \/ \E n \in Nodes : \E t \in DOMAIN Program[n] : FreeTask(n, t)
    \/ Break

Spec == Init /\ [][Next]_vars

\* The applications issue all their tasks, the worker loops for ever, and the
\* connection carries what both sides have posted.
FairSpec ==
    /\ Spec
    /\ \A n \in Nodes : WF_vars(Submit(n)) /\ WF_vars(WorkerNext(n)) /\ WF_vars(Transfer(n))

(***************************************************************************)
(* Properties.                                                             *)
(***************************************************************************)

\* Tasks, work requests and completions of both nodes refer to requests of their
\* programs.
TypeOK ==
    /\ worker \in SpawnWorker
    /\ issued \in [Nodes -> Nat]
    /\ \A n \in Nodes :
          /\ issued[n] <= Len(Program[n])
          /\ Range(pending[n]) \subseteq 1..issued[n]
          /\ held[n] \in 0..issued[n]
          /\ inflight[n] \in 0..MaxWr
          /\ status[n] \in [Requests(n) -> {"PENDING", "SUCCESS", "FAILED"}]
          /\ \A type \in Types :
                /\ Range(outstanding[n][type]) \subseteq Requests(n)
                /\ Range(done[n][type]) \subseteq [req : Requests(n), ok : BOOLEAN]
          /\ mem[n] \in [Requests(n) -> Requests(Peer(n)) \cup {NoRequest}]
          /\ freed[n] \subseteq 1..issued[n]
    /\ broken \in BOOLEAN

\* The k-th receive request of a node gets the k-th send request of its peer: what
\* came before either of them was matched before, and in the same order.  Between
\* send() and the queue pair no task overtakes another one.
InOrder ==
    \A n \in Nodes : \A r \in Typed(n, "RECEIVE") : mem[n][r] # NoRequest =>
        /\ mem[n][r] \in Typed(Peer(n), "SEND")
        /\ \A q \in Typed(n, "RECEIVE") : Earlier(q, r) =>
               mem[n][q] # NoRequest /\ Earlier(mem[n][q], mem[n][r])
        /\ \A s \in Typed(Peer(n), "SEND") : Earlier(s, mem[n][r]) =>
               \E q \in Typed(n, "RECEIVE") : Earlier(q, r) /\ mem[n][q] = s

\* The peer has the buffer of a send request; the buffer of a receive request was
\* written.
Delivered(n, r) ==
    IF Type(n, r[1]) = "SEND" THEN \E q \in Requests(Peer(n)) : mem[Peer(n)][q] = r
                              ELSE mem[n][r] # NoRequest

\* getStatus reports a send SUCCESS only when the peer has all of its buffers, and
\* a receive only when all of its buffers were written.
SuccessMeansDelivered ==
    \A n \in Nodes : \A t \in 1..issued[n] :
        Status(n, t) = "SUCCESS" => \A r \in RequestsOf(n, t) : Delivered(n, r)

\* inflight_requests of a worker thread is the number of requests that it has
\* posted and not yet polled.
InflightExact ==
    \A n \in worker : inflight[n] = Depth(n, "SEND") + Depth(n, "RECEIVE")

\* A task fails only when the connection does: a task never finds the queue pair
\* too full for some of its requests.
FailedMeansBroken ==
    \A n \in Nodes : \A t \in 1..issued[n] : Status(n, t) = "FAILED" => broken

\* The requests on a queue pair or in a completion queue were not deleted: their
\* task is in task_map_ or held by the worker.
NoDangling ==
    \A n \in Nodes, type \in Types :
        /\ \A r \in Range(outstanding[n][type]) : r[1] \notin freed[n]
        /\ \A c \in Range(done[n][type]) : c.req[1] \notin freed[n]

(***************************************************************************)
(* The inductive invariants.                                               *)
(***************************************************************************)

ValueTypes ==
    /\ worker \in SpawnWorker
    /\ issued \in [Nodes -> Nat]
    /\ pending \in [Nodes -> Seq(Nat)]
    /\ held \in [Nodes -> Nat]
    /\ inflight \in [Nodes -> Int]
    /\ DOMAIN status = Nodes /\ DOMAIN mem = Nodes
    /\ DOMAIN outstanding = Nodes /\ DOMAIN done = Nodes
    /\ \A n \in Nodes :
          /\ status[n] \in [Requests(n) -> {"PENDING", "SUCCESS", "FAILED"}]
          /\ DOMAIN mem[n] = Requests(n)
          /\ DOMAIN outstanding[n] = Types /\ DOMAIN done[n] = Types
          /\ \A type \in Types :
                /\ outstanding[n][type] \in Seq(Typed(n, type))
                /\ done[n][type] \in Seq([req : Typed(n, type), ok : BOOLEAN])
    /\ broken \in BOOLEAN

\* The tasks that the worker has posted or dropped: it takes them in order.
Passed(n) == issued[n] - Len(pending[n]) - (IF held[n] = 0 THEN 0 ELSE 1)

QueueOK(n) ==
    /\ issued[n] <= Len(Program[n])
    /\ Passed(n) \in Nat
    /\ \A i \in DOMAIN pending[n] : pending[n][i] = issued[n] - Len(pending[n]) + i
    /\ held[n] # 0 => held[n] = Passed(n) + 1

\* A request is posted at most once, in order, and its buffer is empty until then.
WorkOK(n, type) ==
    /\ \A i, j \in DOMAIN outstanding[n][type] :
          i < j => Earlier(outstanding[n][type][i], outstanding[n][type][j])
    /\ \A i \in DOMAIN outstanding[n][type] :
          /\ outstanding[n][type][i][1] <= Passed(n)
          /\ type = "RECEIVE" => mem[n][outstanding[n][type][i]] = NoRequest
    /\ \A i \in DOMAIN done[n][type] :
          done[n][type][i].ok => Delivered(n, done[n][type][i].req)
    /\ Depth(n, type) <= MaxWr

MemoryOK(n) ==
    /\ \A r \in Requests(n) : mem[n][r] # NoRequest =>
          /\ Type(n, r[1]) = "RECEIVE"
          /\ r[1] <= Passed(n)
          /\ mem[n][r] \in Typed(Peer(n), "SEND")
    /\ \A r \in Requests(n) : status[n][r] = "SUCCESS" => Delivered(n, r)

TasksInv ==
    /\ ValueTypes
    /\ \A n \in Nodes : QueueOK(n) /\ MemoryOK(n) /\ \A type \in Types : WorkOK(n, type)

\* A worker thread counts every request that it has posted and not yet polled, and
\* more than those only where a post failed; only finished tasks are freed.
CountOK(n) ==
    /\ inflight[n] <= MaxWr
    /\ n \in worker =>
          /\ inflight[n] >= Depth(n, "SEND") + Depth(n, "RECEIVE")
          /\ ~PostMayFail => inflight[n] = Depth(n, "SEND") + Depth(n, "RECEIVE")
    /\ n \notin worker => inflight[n] = 0
    /\ \A t \in freed[n] : t \in 1..issued[n]

CountInv == TasksInv /\ DOMAIN freed = Nodes /\ \A n \in Nodes : CountOK(n)

\* Both nodes have a worker thread, and the device takes every request.
Steady == ~PostMayFail /\ SpawnWorker = {Nodes}

\* What has been passed is delivered or on the queue pair, and the queue pair holds
\* what comes after the delivered.
LineOK(n, type) ==
    /\ broken => outstanding[n][type] = <<>>
    /\ \A i \in DOMAIN done[n][type] :
          done[n][type][i].req[1] <= Passed(n) /\ (~done[n][type][i].ok => broken)
    /\ \A r \in Typed(n, type) : Delivered(n, r) =>
          /\ r[1] <= Passed(n)
          /\ \A i \in DOMAIN outstanding[n][type] : Earlier(r, outstanding[n][type][i])
    /\ \A r \in Typed(n, type) : ~broken /\ r[1] <= Passed(n) =>
          Delivered(n, r) \/ \E i \in DOMAIN outstanding[n][type] : outstanding[n][type][i] = r

\* A task that has not been passed is untouched, and nothing fails while the
\* connection stands.
OrderOK(n) ==
    /\ \A r \in Requests(n) : /\ r[1] > Passed(n) => status[n][r] = "PENDING"
                              /\ status[n][r] = "FAILED" => broken
    /\ \A t \in freed[n] : t <= Passed(n)
    /\ \A type \in Types : LineOK(n, type)

OrderInv == CountInv /\ InOrder /\ \A n \in Nodes : OrderOK(n)

\* A task that is no longer PENDING keeps the status getStatus gave it.
StatusFinal ==
    [][\A n \in Nodes : \A t \in 1..issued[n] :
          Status(n, t) # "PENDING" => Status(n, t)' = Status(n, t)]_vars

\* Every task comes to an end, unless it is larger than the queue pair: a worker
\* thread keeps such a task for ever and runStep forgets it.
TasksEnd ==
    <>[](\A n \in Nodes : \A t \in DOMAIN Program[n] :
            Size(n, t) <= MaxWr => Status(n, t) # "PENDING")
=============================================================================
