------------------------- MODULE ReliableOrderProofs ------------------------
(***************************************************************************)
(* inflight_requests is exact, buffers are matched in the order in which   *)
(* they were issued, and a task fails only with the connection: for every  *)
(* program of the two applications and every size of the queue pair.       *)
(***************************************************************************)
EXTENDS ReliableTasksProofs

USE Zenon

(***************************************************************************)
(* The count of the worker.                                                *)
(***************************************************************************)

LEMMA CountKept ==
    ASSUME CountInv, NEW k \in Nodes, worker' = worker, inflight'[k] = inflight[k],
           freed'[k] = freed[k], \A type \in Types : Depth(k, type)' = Depth(k, type),
           issued'[k] \in Nat, issued'[k] >= issued[k]
    PROVE  CountOK(k)'
  <1>1. CountOK(k) /\ ValueTypes
    BY DEF CountInv, TasksInv
  <1>2. Depth(k, "SEND")' = Depth(k, "SEND") /\ Depth(k, "RECEIVE")' = Depth(k, "RECEIVE")
    BY DEF Types
  <1>3. issued[k] \in Nat
    BY <1>1, NodeTypes
  <1>4. \A t \in freed'[k] : t \in 1..issued'[k]
    BY SMT, <1>1, <1>3 DEF CountOK
  <1> QED
    BY <1>1, <1>2, <1>4 DEF CountOK

LEMMA CountQuiet ==
    ASSUME CountInv, UNCHANGED <<worker, issued, inflight, freed>>,
           \A k \in Nodes, type \in Types : Depth(k, type)' = Depth(k, type)
    PROVE  DOMAIN freed' = Nodes /\ \A k \in Nodes : CountOK(k)'
  <1>1. ValueTypes
    BY DEF CountInv, TasksInv
  <1>2. \A k \in Nodes : issued'[k] \in Nat /\ issued'[k] >= issued[k]
    BY SMT, <1>1, NodeTypes
  <1> QED
    BY <1>2, CountKept DEF CountInv

LEMMA CountSubmit ==
    ASSUME CountInv, NEW n \in Nodes, Submit(n)
    PROVE  DOMAIN freed' = Nodes /\ \A k \in Nodes : CountOK(k)'
  <1>1. /\ issued' = [issued EXCEPT ![n] = issued[n] + 1]
        /\ UNCHANGED <<worker, inflight, outstanding, done, freed>>
    BY DEF Submit
  <1>2. ValueTypes
    BY DEF CountInv, TasksInv
  <1>3. \A k \in Nodes : issued'[k] \in Nat /\ issued'[k] >= issued[k]
    BY SMT, <1>1, <1>2 DEF ValueTypes
  <1>4. \A k \in Nodes, type \in Types : Depth(k, type)' = Depth(k, type)
    BY <1>1 DEF Depth
  <1> QED
    BY <1>1, <1>3, <1>4, CountKept DEF CountInv

LEMMA CountPost ==
    ASSUME CountInv, NEW n \in Nodes, PostTask(n)
    PROVE  DOMAIN freed' = Nodes /\ \A k \in Nodes : CountOK(k)'
  <1>1. TasksInv /\ ValueTypes
    BY DEF CountInv, TasksInv
  <1>2. PICK t, ty : t = held[n] /\ ty = Type(n, held[n])
    OBVIOUS
  <1>3. /\ ty \in Types /\ WrCount(n) \in Nat /\ WrCount(n) <= Size(n, t) /\ Fits(n)
        /\ inflight' = [inflight EXCEPT ![n] =
                           IF n \in worker THEN inflight[n] + WrCount(n) ELSE 0]
        /\ UNCHANGED <<worker, issued, freed>>
        /\ t \in 1..Len(Program[n])
    BY <1>1, <1>2, PostEffect
  <1>4. PICK c \in 0..WrCount(n) : /\ ~PostMayFail => c = WrCount(n)
                                   /\ Depth(n, ty)' = Depth(n, ty) + c
    BY <1>1, <1>2, PostTaskInv
  <1>5. \A k \in Nodes, type \in Types :
           k # n \/ type # ty => Depth(k, type)' = Depth(k, type)
    BY SMT, <1>1, <1>2, PostTaskInv
  <1>6. ASSUME NEW k \in Nodes, k # n
        PROVE  CountOK(k)'
    <2>1. inflight'[k] = inflight[k]
      BY <1>1, <1>3, <1>6 DEF ValueTypes
    <2>2. issued'[k] \in Nat /\ issued'[k] >= issued[k] /\ freed'[k] = freed[k] /\ worker' = worker
      BY SMT, <1>1, <1>3, NodeTypes
    <2>3. \A type \in Types : Depth(k, type)' = Depth(k, type)
      BY <1>5, <1>6
    <2> QED
      BY <2>1, <2>2, <2>3, CountKept
  <1>7. CountOK(n)'
    <2> DEFINE sum == Depth(n, "SEND") + Depth(n, "RECEIVE")
    <2>1. /\ Depth(n, "SEND") \in Nat /\ Depth(n, "RECEIVE") \in Nat /\ inflight[n] \in Int
          /\ Size(n, t) \in Nat /\ MaxWr \in Nat
      BY <1>1, <1>3, NodeTypes, Tasks, ReliableAssumption DEF Types
    <2>2. Depth(n, "SEND")' + Depth(n, "RECEIVE")' = sum + c
      <3>1. CASE ty = "SEND"
        <4>1. Depth(n, "SEND")' = Depth(n, "SEND") + c
          BY <1>4, <3>1
        <4>2. Depth(n, "RECEIVE")' = Depth(n, "RECEIVE")
          BY <1>5, <3>1 DEF Types
        <4> QED
          BY SMT, <1>3, <1>4, <2>1, <4>1, <4>2
      <3>2. CASE ty = "RECEIVE"
        <4>1. Depth(n, "RECEIVE")' = Depth(n, "RECEIVE") + c
          BY <1>4, <3>2
        <4>2. Depth(n, "SEND")' = Depth(n, "SEND")
          BY <1>5, <3>2 DEF Types
        <4> QED
          BY SMT, <1>3, <1>4, <2>1, <4>1, <4>2
      <3> QED
        BY <1>3, <3>1, <3>2 DEF Types
    <2>3. sum \in Nat
      BY SMT, <2>1
    <2>4. /\ inflight[n] <= MaxWr
          /\ n \in worker => inflight[n] >= sum /\ (~PostMayFail => inflight[n] = sum)
          /\ n \notin worker => inflight[n] = 0
          /\ \A i \in freed[n] : i \in 1..issued[n]
      BY DEF CountInv, CountOK
    <2> HIDE DEF sum
    <2>5. inflight'[n] = IF n \in worker THEN inflight[n] + WrCount(n) ELSE 0
      BY <1>1, <1>3 DEF ValueTypes
    <2>6. n \in worker => inflight[n] + Size(n, t) <= MaxWr
      BY <1>2, <1>3 DEF Fits
    <2>7. inflight'[n] <= MaxWr
      BY SMT, <1>3, <2>1, <2>5, <2>6
    <2>8. n \in worker => inflight'[n] >= sum + c /\ (~PostMayFail => inflight'[n] = sum + c)
      <3>1. /\ c \in 0..WrCount(n) /\ (~PostMayFail => c = WrCount(n)) /\ inflight[n] \in Int
            /\ WrCount(n) \in Nat
        BY <1>3, <1>4, <2>1
      <3> QED
        BY SMT, <2>3, <2>4, <2>5, <3>1
    <2> QED
      BY <1>3, <2>2, <2>4, <2>5, <2>7, <2>8 DEF CountOK
  <1> QED
    BY <1>3, <1>6, <1>7 DEF CountInv

LEMMA CountPoll ==
    ASSUME CountInv, NEW n \in Nodes, NEW ty \in Types, Poll(n, ty)
    PROVE  DOMAIN freed' = Nodes /\ \A k \in Nodes : CountOK(k)'
  <1>1. TasksInv /\ ValueTypes
    BY DEF CountInv, TasksInv
  <1>2. /\ UNCHANGED <<worker, issued, freed>>
        /\ Depth(n, ty)' = Depth(n, ty) - 1
        /\ \A k \in Nodes, type \in Types : k # n \/ type # ty => Depth(k, type)' = Depth(k, type)
    BY <1>1, PollInv
  <1>3. inflight' = [inflight EXCEPT ![n] = IF n \in worker THEN inflight[n] - 1 ELSE 0]
    BY DEF Poll
  <1>4. ASSUME NEW k \in Nodes, k # n
        PROVE  CountOK(k)'
    <2>1. inflight'[k] = inflight[k]
      BY <1>1, <1>3, <1>4 DEF ValueTypes
    <2>2. issued'[k] \in Nat /\ issued'[k] >= issued[k] /\ freed'[k] = freed[k] /\ worker' = worker
      BY SMT, <1>1, <1>2, NodeTypes
    <2>3. \A type \in Types : Depth(k, type)' = Depth(k, type)
      BY <1>2, <1>4
    <2> QED
      BY <2>1, <2>2, <2>3, CountKept
  <1>5. CountOK(n)'
    <2> DEFINE sum == Depth(n, "SEND") + Depth(n, "RECEIVE")
    <2>1. /\ Depth(n, "SEND") \in Nat /\ Depth(n, "RECEIVE") \in Nat /\ inflight[n] \in Int
          /\ MaxWr \in Nat
      BY <1>1, NodeTypes, ReliableAssumption DEF Types
    <2>2. Depth(n, "SEND")' + Depth(n, "RECEIVE")' = sum - 1
      <3>1. CASE ty = "SEND"
        <4>1. Depth(n, "RECEIVE")' = Depth(n, "RECEIVE")
          BY <1>2, <3>1 DEF Types
        <4> QED
          BY SMT, <1>2, <2>1, <3>1, <4>1
      <3>2. CASE ty = "RECEIVE"
        <4>1. Depth(n, "SEND")' = Depth(n, "SEND")
          BY <1>2, <3>2 DEF Types
        <4> QED
          BY SMT, <1>2, <2>1, <3>2, <4>1
      <3> QED
        BY <3>1, <3>2 DEF Types
    <2>3. sum \in Nat
      BY SMT, <2>1
    <2>4. /\ inflight[n] <= MaxWr
          /\ n \in worker => inflight[n] >= sum /\ (~PostMayFail => inflight[n] = sum)
          /\ \A i \in freed[n] : i \in 1..issued[n]
      BY DEF CountInv, CountOK
    <2> HIDE DEF sum
    <2>5. inflight'[n] = IF n \in worker THEN inflight[n] - 1 ELSE 0
      BY <1>1, <1>3 DEF ValueTypes
    <2>6. /\ inflight'[n] <= MaxWr
          /\ n \in worker => inflight'[n] >= sum - 1 /\ (~PostMayFail => inflight'[n] = sum - 1)
      BY SMT, <2>1, <2>3, <2>4, <2>5
    <2> QED
      BY <1>2, <2>2, <2>4, <2>5, <2>6 DEF CountOK
  <1> QED
    BY <1>2, <1>4, <1>5 DEF CountInv

LEMMA CountFree ==
    ASSUME CountInv, NEW n \in Nodes, NEW t \in DOMAIN Program[n], FreeTask(n, t)
    PROVE  DOMAIN freed' = Nodes /\ \A k \in Nodes : CountOK(k)'
  <1>1. /\ t <= issued[n] /\ freed' = [freed EXCEPT ![n] = freed[n] \cup {t}]
        /\ UNCHANGED <<worker, issued, inflight, outstanding, done>>
    BY DEF FreeTask
  <1>2. ValueTypes /\ DOMAIN freed = Nodes
    BY DEF CountInv, TasksInv
  <1>3. \A k \in Nodes, type \in Types : Depth(k, type)' = Depth(k, type)
    BY <1>1 DEF Depth
  <1>4. \A k \in Nodes : issued'[k] \in Nat /\ issued'[k] >= issued[k]
    BY SMT, <1>1, <1>2, NodeTypes
  <1>5. ASSUME NEW k \in Nodes, k # n
        PROVE  CountOK(k)'
    <2>1. freed'[k] = freed[k]
      BY <1>1, <1>2, <1>5
    <2> QED
      BY <1>1, <1>3, <1>4, <2>1, CountKept
  <1>6. CountOK(n)'
    <2>1. t \in 1..issued[n]
      BY SMT, <1>1, <1>2, NodeTypes, Tasks
    <2>2. CountOK(n)
      BY DEF CountInv
    <2>3. \A i \in freed'[n] : i \in 1..issued[n]
      BY <1>1, <1>2, <2>1, <2>2 DEF CountOK
    <2>4. Depth(n, "SEND")' = Depth(n, "SEND") /\ Depth(n, "RECEIVE")' = Depth(n, "RECEIVE")
      BY <1>3 DEF Types
    <2> QED
      BY <1>1, <2>2, <2>3, <2>4 DEF CountOK
  <1> QED
    BY <1>1, <1>2, <1>5, <1>6

LEMMA CountInitial == Init => CountInv
  <1> SUFFICES ASSUME Init
               PROVE  CountInv
    OBVIOUS
  <1>1. TasksInv
    BY TasksInitial
  <1>2. ASSUME NEW n \in Nodes
        PROVE  CountOK(n)
    <2>1. /\ inflight[n] = 0 /\ freed[n] = {}
          /\ outstanding[n]["SEND"] = <<>> /\ outstanding[n]["RECEIVE"] = <<>>
          /\ done[n]["SEND"] = <<>> /\ done[n]["RECEIVE"] = <<>>
      BY DEF Init, Types
    <2>2. Len(<<>>) = 0
      OBVIOUS
    <2>3. Depth(n, "SEND") = 0 /\ Depth(n, "RECEIVE") = 0
      BY SMT, <2>1, <2>2 DEF Depth
    <2> QED
      BY SMT, <2>1, <2>3, ReliableAssumption DEF CountOK
  <1>3. DOMAIN freed = Nodes
    BY DEF Init
  <1> QED
    BY <1>1, <1>2, <1>3 DEF CountInv

LEMMA CountStep == CountInv /\ [Next]_vars => CountInv'
  <1> SUFFICES ASSUME CountInv, [Next]_vars
               PROVE  DOMAIN freed' = Nodes /\ \A k \in Nodes : CountOK(k)'
    BY TasksStep DEF CountInv
  <1>0. TasksInv
    BY DEF CountInv
  <1>1. ASSUME UNCHANGED <<worker, issued, inflight, freed, outstanding, done>>
        PROVE  DOMAIN freed' = Nodes /\ \A k \in Nodes : CountOK(k)'
    <2>1. \A k \in Nodes, type \in Types : Depth(k, type)' = Depth(k, type)
      BY <1>1 DEF Depth
    <2> QED
      BY <1>1, <2>1, CountQuiet
  <1>2. ASSUME NEW n \in Nodes, WorkerNext(n)
        PROVE  DOMAIN freed' = Nodes /\ \A k \in Nodes : CountOK(k)'
    <2>1. CASE TakeTask(n)
      BY <1>1, <2>1 DEF TakeTask
    <2>2. CASE PostTask(n)
      BY <2>2, CountPost
    <2>3. CASE DropTask(n)
      BY <1>1, <2>3 DEF DropTask
    <2>4. ASSUME NEW type \in Types, Poll(n, type)
          PROVE  DOMAIN freed' = Nodes /\ \A k \in Nodes : CountOK(k)'
      BY <2>4, CountPoll
    <2> QED
      BY <1>2, <2>1, <2>2, <2>3, <2>4 DEF WorkerNext
  <1>3. ASSUME NEW n \in Nodes, Transfer(n)
        PROVE  DOMAIN freed' = Nodes /\ \A k \in Nodes : CountOK(k)'
    <2>1. UNCHANGED <<worker, issued, inflight, freed>>
      BY <1>3 DEF Transfer
    <2> QED
      BY <1>0, <1>3, <2>1, TransferInv, CountQuiet
  <1>4. CASE Break
    <2>1. UNCHANGED <<worker, issued, inflight, freed>>
      BY <1>4 DEF Break
    <2> QED
      BY <1>0, <1>4, <2>1, BreakInv, CountQuiet
  <1>5. ASSUME NEW n \in Nodes, Submit(n)
        PROVE  DOMAIN freed' = Nodes /\ \A k \in Nodes : CountOK(k)'
    BY <1>5, CountSubmit
  <1>6. ASSUME NEW n \in Nodes, NEW t \in DOMAIN Program[n], FreeTask(n, t)
        PROVE  DOMAIN freed' = Nodes /\ \A k \in Nodes : CountOK(k)'
    BY <1>6, CountFree
  <1>7. CASE UNCHANGED vars
    BY <1>1, <1>7 DEF vars
  <1> QED
    BY <1>2, <1>3, <1>4, <1>5, <1>6, <1>7 DEF Next

\* In every execution a worker thread's inflight_requests lies between the requests
\* that it has posted and not polled and max_wr_per_qp, and only tasks that were
\* issued are erased from task_map_.
THEOREM CountInvariant == Spec => []CountInv
  <1>1. CountInv /\ UNCHANGED vars => CountInv'
    BY CountStep
  <1> QED
    BY CountInitial, CountStep, PTL DEF Spec

LEMMA Exact ==
    ASSUME CountInv, ~PostMayFail
    PROVE  InflightExact
  <1>1. worker \subseteq Nodes
    BY ReliableAssumption DEF CountInv, TasksInv, ValueTypes
  <1> QED
    BY <1>1 DEF CountInv, CountOK, InflightExact

\* Where the device takes every request that the endpoint posts, inflight_requests of
\* a worker thread is exactly what it has posted and not yet polled.
THEOREM InflightCounts ==
    ASSUME ~PostMayFail
    PROVE  Spec => []InflightExact
  <1>1. CountInv => InflightExact
    BY Exact
  <1> QED
    BY <1>1, CountInvariant, PTL

(***************************************************************************)
(* The order of the tasks.                                                 *)
(***************************************************************************)

LEMMA LineKept ==
    ASSUME NEW k \in Nodes, NEW type \in Types, LineOK(k, type),
           outstanding'[k][type] = outstanding[k][type], done'[k][type] = done[k][type],
           UNCHANGED <<mem, broken>>, Passed(k)' = Passed(k)
    PROVE  LineOK(k, type)'
  <1>1. \A r : Delivered(k, r)' = Delivered(k, r)
    BY DEF Delivered
  <1> QED
    BY <1>1 DEF LineOK

LEMMA InOrderKept ==
    ASSUME InOrder, mem' = mem
    PROVE  InOrder'
  BY SMT DEF InOrder

LEMMA OrderQuiet ==
    ASSUME OrderInv, UNCHANGED <<status, freed, outstanding, done, mem, broken>>,
           \A k \in Nodes : Passed(k)' = Passed(k)
    PROVE  InOrder' /\ \A k \in Nodes : OrderOK(k)'
  <1>1. InOrder'
    BY InOrderKept DEF OrderInv
  <1>2. ASSUME NEW k \in Nodes
        PROVE  OrderOK(k)'
    <2>1. OrderOK(k)
      BY DEF OrderInv
    <2>2. \A type \in Types : LineOK(k, type)'
      BY <2>1, LineKept DEF OrderOK
    <2> QED
      BY <2>1, <2>2 DEF OrderOK
  <1> QED
    BY <1>1, <1>2

LEMMA OrderTake ==
    ASSUME OrderInv, NEW n \in Nodes, TakeTask(n)
    PROVE  InOrder' /\ \A k \in Nodes : OrderOK(k)'
  <1>1. TasksInv /\ ValueTypes /\ OrderOK(n)
    BY DEF OrderInv, CountInv, TasksInv
  <1>2. /\ \A k \in Nodes : k # n => Passed(k)' = Passed(k)
        /\ Head(pending[n]) = Passed(n) + 1
        /\ Passed(n)' = IF Head(pending[n]) \in freed[n] THEN Passed(n) + 1 ELSE Passed(n)
    BY <1>1, TakeTaskInv
  <1>3. Head(pending[n]) \notin freed[n]
    <2>1. Passed(n) \in Int
      BY <1>1, NodeTypes
    <2>2. \A t \in freed[n] : t <= Passed(n)
      BY <1>1 DEF OrderOK
    <2> QED
      BY SMT, <1>2, <2>1, <2>2
  <1>4. \A k \in Nodes : Passed(k)' = Passed(k)
    BY <1>2, <1>3
  <1>5. UNCHANGED <<status, freed, outstanding, done, mem, broken>>
    BY DEF TakeTask
  <1> QED
    BY <1>4, <1>5, OrderQuiet

LEMMA OrderFree ==
    ASSUME OrderInv, NEW n \in Nodes, NEW t \in DOMAIN Program[n], FreeTask(n, t)
    PROVE  InOrder' /\ \A k \in Nodes : OrderOK(k)'
  <1>1. TasksInv /\ ValueTypes /\ DOMAIN freed = Nodes
    BY DEF OrderInv, CountInv, TasksInv
  <1>2. /\ Status(n, t) # "PENDING" /\ freed' = [freed EXCEPT ![n] = freed[n] \cup {t}]
        /\ UNCHANGED <<status, outstanding, done, mem, broken>>
    BY DEF FreeTask
  <1>3. \A k \in Nodes : Passed(k)' = Passed(k)
    BY <1>1, FreeTaskInv
  <1>4. t \in 1..Len(Program[n]) /\ t \in Nat /\ Size(n, t) \in Nat \ {0}
    BY SMT, Tasks
  <1>5. t <= Passed(n)
    <2> SUFFICES ASSUME ~(t <= Passed(n))
                 PROVE  FALSE
      OBVIOUS
    <2>1. t > Passed(n)
      BY SMT, <1>1, <1>4, NodeTypes
    <2>2. \A r \in RequestsOf(n, t) : r \in Requests(n) /\ r[1] = t
      BY SMT, Tasks DEF Requests, RequestsOf
    <2>3. \A r \in RequestsOf(n, t) : status[n][r] = "PENDING"
      BY <2>1, <2>2 DEF OrderInv, OrderOK
    <2>4. <<t, 1>> \in RequestsOf(n, t)
      BY SMT, <1>4 DEF RequestsOf
    <2>5. Status(n, t) = "PENDING"
      BY <2>3, <2>4 DEF Status
    <2> QED
      BY <1>2, <2>5
  <1>6. ASSUME NEW k \in Nodes
        PROVE  OrderOK(k)'
    <2>1. OrderOK(k)
      BY DEF OrderInv
    <2>2. \A type \in Types : LineOK(k, type)'
      BY <1>2, <1>3, <2>1, LineKept DEF OrderOK
    <2>3. \A i \in freed'[k] : i <= Passed(k)
      BY <1>1, <1>2, <1>5, <2>1 DEF OrderOK
    <2> QED
      BY <1>2, <1>3, <2>1, <2>2, <2>3 DEF OrderOK
  <1>7. InOrder'
    BY <1>2, InOrderKept DEF OrderInv
  <1> QED
    BY <1>6, <1>7

LEMMA OrderPoll ==
    ASSUME OrderInv, NEW n \in Nodes, NEW ty \in Types, Poll(n, ty)
    PROVE  InOrder' /\ \A k \in Nodes : OrderOK(k)'
  <1> DEFINE d == done[n][ty]
             c == Head(d)
             v == IF c.ok THEN "SUCCESS" ELSE "FAILED"
             C == [req : Typed(n, ty), ok : BOOLEAN]
  <1>1. TasksInv /\ ValueTypes
    BY DEF OrderInv, CountInv, TasksInv
  <1>2. /\ d # <<>>
        /\ status' = [status EXCEPT ![n][c.req] = v]
        /\ done' = [done EXCEPT ![n][ty] = Tail(d)]
        /\ UNCHANGED <<issued, pending, held, outstanding, mem, freed, broken>>
    BY DEF Poll
  <1>3. \A k \in Nodes : Passed(k)' = Passed(k)
    BY <1>2 DEF Passed
  <1>4. d \in Seq(C)
    BY <1>1, NodeTypes
  <1>5. /\ DOMAIN Tail(d) = 1..(Len(d) - 1)
        /\ \A j \in 1..(Len(d) - 1) : Tail(d)[j] = d[j + 1]
        /\ c \in C /\ c = d[1] /\ Len(d) \in Nat \ {0} /\ DOMAIN d = 1..Len(d)
    <2>1. d # <<>>
      BY <1>2
    <2> HIDE DEF d, C
    <2> QED
      BY <1>4, <2>1, Shortened
  <1>6. /\ \A k \in Nodes, type \in Types : k # n \/ type # ty => done'[k][type] = done[k][type]
        /\ done'[n][ty] = Tail(d)
    <2>1. DOMAIN done = Nodes /\ \A k \in Nodes : DOMAIN done[k] = Types
      BY <1>1 DEF ValueTypes
    <2> HIDE DEF d
    <2> QED
      BY <1>2, <2>1, EntryChanged
  <1>7. \A k \in Nodes, type \in Types : LineOK(k, type)
    BY DEF OrderInv, OrderOK
  <1>8. \A j \in DOMAIN d : d[j].req[1] <= Passed(n) /\ (~d[j].ok => broken)
    BY <1>7 DEF LineOK
  <1>9. c.req[1] <= Passed(n) /\ (~c.ok => broken) /\ c.req \in Requests(n) /\ c.ok \in BOOLEAN
    <2>1. c.req \in Typed(n, ty) /\ c.ok \in BOOLEAN
      BY <1>5
    <2>2. 1 \in DOMAIN d
      BY SMT, <1>5
    <2> QED
      BY <1>5, <1>8, <2>1, <2>2, TypedForm
  <1> HIDE DEF d, C
  <1>10. LineOK(n, ty)'
    <2>1. \A j \in DOMAIN done'[n][ty] :
             done'[n][ty][j].req[1] <= Passed(n) /\ (~done'[n][ty][j].ok => broken)
      <3> SUFFICES ASSUME NEW j \in DOMAIN Tail(d)
                   PROVE  Tail(d)[j].req[1] <= Passed(n) /\ (~Tail(d)[j].ok => broken)
        BY <1>6
      <3>1. j + 1 \in DOMAIN d /\ Tail(d)[j] = d[j + 1]
        BY SMT, <1>5
      <3> QED
        BY <1>8, <3>1
    <2>2. \A r : Delivered(n, r)' = Delivered(n, r)
      BY <1>2 DEF Delivered
    <2>3. LineOK(n, ty) /\ Passed(n)' = Passed(n)
      BY <1>3, <1>7
    <2> QED
      BY <1>2, <2>1, <2>2, <2>3 DEF LineOK
  <1>11. ASSUME NEW k \in Nodes, NEW type \in Types
         PROVE  LineOK(k, type)'
    <2>1. CASE k # n \/ type # ty
      BY <1>2, <1>3, <1>6, <1>7, <2>1, LineKept
    <2> QED
      BY <1>10, <2>1
  <1>12. ASSUME NEW k \in Nodes
         PROVE  OrderOK(k)'
    <2>1. OrderOK(k)
      BY DEF OrderInv
    <2>2. ASSUME NEW r \in Requests(k)
          PROVE  /\ r[1] > Passed(k) => status'[k][r] = "PENDING"
                 /\ status'[k][r] = "FAILED" => broken
      <3>1. DOMAIN status = Nodes /\ status[k] \in [Requests(k) -> {"PENDING", "SUCCESS", "FAILED"}]
        BY <1>1, NodeTypes DEF ValueTypes
      <3>2. CASE k = n /\ r = c.req
        <4>1. status'[k][r] = v
          BY <1>2, <3>1, <3>2
        <4>2. ~(r[1] > Passed(k))
          BY SMT, <1>1, <1>9, <3>2, NodeTypes, RequestForm
        <4> QED
          BY <1>9, <4>1, <4>2
      <3>3. CASE ~(k = n /\ r = c.req)
        <4>1. status'[k][r] = status[k][r]
          BY <1>2, <3>1, <3>3
        <4> QED
          BY <2>1, <4>1 DEF OrderOK
      <3> QED
        BY <3>2, <3>3
    <2> QED
      BY <1>2, <1>3, <1>11, <2>1, <2>2 DEF OrderOK
  <1>13. InOrder'
    BY <1>2, InOrderKept DEF OrderInv
  <1> QED
    BY <1>12, <1>13

LEMMA OrderBreak ==
    ASSUME OrderInv, Break
    PROVE  InOrder' /\ \A k \in Nodes : OrderOK(k)'
  <1>1. TasksInv /\ ValueTypes
    BY DEF OrderInv, CountInv, TasksInv
  <1>2. /\ broken' = TRUE
        /\ \A k \in Nodes, type \in Types :
              /\ outstanding'[k][type] = <<>>
              /\ done'[k][type] = done[k][type] \o Flushed(outstanding[k][type])
        /\ UNCHANGED <<issued, pending, held, status, mem, freed>>
    BY DEF Break
  <1>3. \A k \in Nodes : Passed(k)' = Passed(k)
    BY <1>2 DEF Passed
  <1>4. ASSUME NEW k \in Nodes, NEW type \in Types
        PROVE  LineOK(k, type)'
    <2> DEFINE d == done[k][type]
               o == outstanding[k][type]
               C == [req : Typed(k, type), ok : BOOLEAN]
    <2>1. /\ d \in Seq(C) /\ o \in Seq(Typed(k, type)) /\ WorkOK(k, type) /\ LineOK(k, type)
          /\ DOMAIN d = 1..Len(d) /\ DOMAIN o = 1..Len(o)
      BY <1>1, NodeTypes DEF TasksInv, OrderInv, OrderOK
    <2>2. Flushed(o) \in Seq(C) /\ Len(Flushed(o)) = Len(o)
      BY <2>1, FlushedForm
    <2>3. \A j \in 1..Len(o) : Flushed(o)[j].req = o[j]
      BY <2>1 DEF Flushed, Completion
    <2>4. \A j \in DOMAIN o : o[j][1] <= Passed(k)
      BY <2>1 DEF WorkOK
    <2>5. \A j \in DOMAIN d : d[j].req[1] <= Passed(k)
      BY <2>1 DEF LineOK
    <2>6. done'[k][type] = d \o Flushed(o) /\ outstanding'[k][type] = <<>>
      BY <1>2
    <2> HIDE DEF d, o, C
    <2>7. /\ DOMAIN (d \o Flushed(o)) = 1..(Len(d) + Len(Flushed(o)))
          /\ \A j \in 1..(Len(d) + Len(Flushed(o))) :
                (d \o Flushed(o))[j] = IF j <= Len(d) THEN d[j] ELSE Flushed(o)[j - Len(d)]
          /\ Len(d) \in Nat /\ Len(Flushed(o)) \in Nat
      <3>1. d \in Seq(C) /\ Flushed(o) \in Seq(C)
        BY <2>1, <2>2
      <3> QED
        BY <3>1, Joined
    <2>8. ASSUME NEW j \in DOMAIN done'[k][type]
          PROVE  done'[k][type][j].req[1] <= Passed(k)
      <3>1. j \in 1..(Len(d) + Len(o)) /\ j \in Int
        BY SMT, <2>2, <2>6, <2>7
      <3>2. CASE j <= Len(d)
        <4>1. j \in DOMAIN d /\ done'[k][type][j] = d[j]
          BY SMT, <2>1, <2>2, <2>6, <2>7, <3>1, <3>2
        <4> QED
          BY <2>5, <4>1
      <3>3. CASE ~(j <= Len(d))
        <4>1. j - Len(d) \in 1..Len(o) /\ done'[k][type][j] = Flushed(o)[j - Len(d)]
          BY SMT, <2>2, <2>6, <2>7, <3>1, <3>3
        <4> QED
          BY <2>1, <2>3, <2>4, <4>1
      <3> QED
        BY <3>2, <3>3
    <2>9. \A r : Delivered(k, r)' = Delivered(k, r)
      BY <1>2 DEF Delivered
    <2>10. \A r \in Typed(k, type) : Delivered(k, r) => r[1] <= Passed(k)
      BY <2>1 DEF LineOK
    <2>11. DOMAIN outstanding'[k][type] = {}
      BY SMT, <2>6
    <2> QED
      BY <1>2, <1>3, <2>6, <2>8, <2>9, <2>10, <2>11 DEF LineOK
  <1>5. \A k \in Nodes : OrderOK(k)'
    BY <1>2, <1>3, <1>4 DEF OrderInv, OrderOK
  <1>6. InOrder'
    BY <1>2, InOrderKept DEF OrderInv
  <1> QED
    BY <1>5, <1>6

\* A worker thread that counts exactly never finds the queue pair too full for the
\* task that it posts.
LEMMA WholeTask ==
    ASSUME Steady, CountInv, NEW n \in Nodes, PostTask(n)
    PROVE  WrCount(n) = Size(n, held[n])
  <1>1. TasksInv /\ ValueTypes /\ CountOK(n)
    BY DEF CountInv, TasksInv
  <1>2. n \in worker /\ ~PostMayFail
    BY <1>1 DEF Steady, ValueTypes
  <1>3. PICK t, ty : t = held[n] /\ ty = Type(n, held[n])
    OBVIOUS
  <1>4. t \in 1..Len(Program[n]) /\ ty \in Types /\ Fits(n)
    BY <1>1, <1>3, PostEffect
  <1>5. Size(n, t) \in Nat /\ MaxWr \in Nat
    BY <1>4, Tasks, ReliableAssumption
  <1>6. inflight[n] + Size(n, t) <= MaxWr
    BY <1>2, <1>3, <1>4 DEF Fits
  <1>7. /\ Depth(n, "SEND") \in Nat /\ Depth(n, "RECEIVE") \in Nat
        /\ inflight[n] = Depth(n, "SEND") + Depth(n, "RECEIVE")
    BY <1>1, <1>2, NodeTypes DEF CountOK, Types
  <1>8. Depth(n, ty) + Size(n, t) <= MaxWr
    <2>1. CASE ty = "SEND"
      BY SMT, <1>5, <1>6, <1>7, <2>1
    <2>2. CASE ty = "RECEIVE"
      BY SMT, <1>5, <1>6, <1>7, <2>2
    <2> QED
      BY <1>4, <2>1, <2>2 DEF Types
  <1>9. Depth(n, ty) \in Nat
    BY <1>1, <1>4, NodeTypes
  <1>10. Size(n, t) <= MaxWr - Depth(n, ty)
    BY SMT, <1>5, <1>8, <1>9
  <1> QED
    BY <1>3, <1>10 DEF WrCount

LEMMA OrderPost ==
    ASSUME Steady, OrderInv, NEW n \in Nodes, PostTask(n)
    PROVE  InOrder' /\ \A k \in Nodes : OrderOK(k)'
  <1>1. CountInv /\ TasksInv /\ ValueTypes
    BY DEF OrderInv, CountInv, TasksInv
  <1>2. PICK t, ty : t = held[n] /\ ty = Type(n, held[n])
    OBVIOUS
  <1>3. /\ t \in 1..Len(Program[n]) /\ t = Passed(n) + 1 /\ ty \in Types
        /\ status'[n] = [r \in Requests(n) |-> status'[n][r]]
        /\ \A k \in Nodes : k # n => status'[k] = status[k]
        /\ UNCHANGED <<mem, freed, broken>>
    BY <1>1, <1>2, PostEffect
  <1>4. PICK p \in Seq(Typed(n, ty)) : Posts(n, t, ty, p)
    BY <1>1, <1>2, PostEffect
  <1>5. WrCount(n) = Size(n, t)
    BY <1>1, <1>2, WholeTask
  <1>6. /\ Len(p) = Size(n, t)
        /\ \A j \in 1..Len(p) : p[j] = <<t, j>>
        /\ \A r \in Requests(n) :
              status'[n][r] = IF r[1] = t /\ r[2] > Len(p) THEN "FAILED" ELSE status[n][r]
        /\ broken => /\ done' = [done EXCEPT ![n][ty] = done[n][ty] \o Flushed(p)]
                     /\ UNCHANGED outstanding
        /\ ~broken => /\ outstanding' = [outstanding EXCEPT ![n][ty] = outstanding[n][ty] \o p]
                      /\ UNCHANGED done
    BY <1>4, <1>5 DEF Posts, Steady
  <1>7. Passed(n)' = Passed(n) + 1 /\ \A k \in Nodes : k # n => Passed(k)' = Passed(k)
    BY <1>1, <1>2, PostTaskInv
  <1>8. Passed(n) \in Int /\ Len(p) \in Nat
    BY SMT, <1>1, <1>4, NodeTypes
  <1>9. \A k \in Nodes : \A r \in Requests(k) : status'[k][r] = status[k][r]
    <2> TAKE k \in Nodes
    <2> TAKE r \in Requests(k)
    <2>1. CASE k # n
      BY <1>3, <2>1
    <2>2. CASE k = n
      <3>1. ~(r[1] = t /\ r[2] > Len(p))
        BY SMT, <1>3, <1>6, <2>2, RequestForm, Tasks
      <3> QED
        BY <1>6, <2>2, <3>1
    <2> QED
      BY <2>1, <2>2
  <1>10. \A k \in Nodes, type \in Types : LineOK(k, type)
    BY DEF OrderInv, OrderOK
  <1>11. \A k \in Nodes : \A r : Delivered(k, r)' = Delivered(k, r)
    BY <1>3 DEF Delivered
  <1>12. /\ DOMAIN outstanding = Nodes /\ DOMAIN done = Nodes
         /\ \A k \in Nodes : DOMAIN outstanding[k] = Types /\ DOMAIN done[k] = Types
    BY <1>1 DEF ValueTypes
  <1>13. ASSUME NEW k \in Nodes, NEW type \in Types, k # n \/ type # ty
         PROVE  outstanding'[k][type] = outstanding[k][type] /\ done'[k][type] = done[k][type]
    <2>0. ty \in Types
      BY <1>3
    <2>1. CASE broken
      <3>1. /\ done' = [done EXCEPT ![n][ty] = done[n][ty] \o Flushed(p)]
            /\ outstanding' = outstanding
        BY <1>6, <2>1
      <3> QED
        BY <1>12, <1>13, <2>0, <3>1, EntryChanged
    <2>2. CASE ~broken
      <3>1. /\ outstanding' = [outstanding EXCEPT ![n][ty] = outstanding[n][ty] \o p]
            /\ done' = done
        BY <1>6, <2>2
      <3> QED
        BY <1>12, <1>13, <2>0, <3>1, EntryChanged
    <2> QED
      BY <2>1, <2>2
  <1>14. ASSUME NEW type \in Types, type # ty
         PROVE  LineOK(n, type)'
    <2>1. outstanding'[n][type] = outstanding[n][type] /\ done'[n][type] = done[n][type]
      BY <1>13, <1>14
    <2>2. LineOK(n, type) /\ DOMAIN done[n][type] = 1..Len(done[n][type])
      BY <1>1, <1>10, NodeTypes
    <2>3. \A r \in Typed(n, type) : r[1] \in Nat /\ r[1] # t
      BY SMT, <1>2, <1>14, TypedForm, RequestForm
    <2>4. \A r \in Typed(n, type) : r[1] <= Passed(n)' <=> r[1] <= Passed(n)
      BY SMT, <1>3, <1>7, <1>8, <2>3
    <2>5. \A j \in DOMAIN done[n][type] : done[n][type][j].req[1] <= Passed(n)'
      <3> TAKE j \in DOMAIN done[n][type]
      <3>1. done[n][type] \in Seq([req : Typed(n, type), ok : BOOLEAN])
        BY <1>1, NodeTypes
      <3>2. done[n][type][j] \in [req : Typed(n, type), ok : BOOLEAN]
        BY <2>2, <3>1, EntryOfSeq
      <3>3. done[n][type][j].req \in Typed(n, type)
        BY <3>2
      <3>4. done[n][type][j].req[1] <= Passed(n)
        BY <2>2 DEF LineOK
      <3> QED
        BY <2>4, <3>3, <3>4
    <2> QED
      BY SMT, <1>3, <1>11, <2>1, <2>2, <2>4, <2>5 DEF LineOK
  <1> DEFINE o == outstanding[n][ty]
             d == done[n][ty]
             C == [req : Typed(n, ty), ok : BOOLEAN]
  <1>15. /\ o \in Seq(Typed(n, ty)) /\ Len(o) \in Nat /\ DOMAIN o = 1..Len(o)
         /\ d \in Seq(C) /\ Len(d) \in Nat /\ DOMAIN d = 1..Len(d)
         /\ \A j \in DOMAIN o : o[j] \in Requests(n)
    BY <1>1, <1>3, NodeTypes
  <1>16. /\ broken => o = <<>>
         /\ \A j \in DOMAIN d : d[j].req[1] <= Passed(n) /\ (~d[j].ok => broken)
         /\ \A r \in Typed(n, ty) : Delivered(n, r) =>
               /\ r[1] <= Passed(n)
               /\ \A j \in DOMAIN o : Earlier(r, o[j])
         /\ \A r \in Typed(n, ty) : ~broken /\ r[1] <= Passed(n) =>
               Delivered(n, r) \/ \E j \in DOMAIN o : o[j] = r
    BY <1>3, <1>10 DEF LineOK
  <1>17. \A j \in DOMAIN d : d[j].req[1] \in Nat
    <2> TAKE j \in DOMAIN d
    <2>1. d[j] \in C
      BY <1>15, EntryOfSeq
    <2>2. d[j].req \in Typed(n, ty)
      BY <2>1
    <2> QED
      BY <2>2, TypedForm, RequestForm
  <1> HIDE DEF o, d
  <1>18. ASSUME broken
         PROVE  LineOK(n, ty)'
    <2>1. outstanding'[n][ty] = o /\ done'[n][ty] = d \o Flushed(p) /\ broken'
      <3>1. /\ done' = [done EXCEPT ![n][ty] = d \o Flushed(p)]
            /\ outstanding'[n][ty] = o /\ broken'
        BY <1>3, <1>6, <1>18 DEF o, d
      <3>2. ty \in Types
        BY <1>3
      <3> QED
        BY <1>12, <3>1, <3>2, EntryChanged
    <2>2. Flushed(p) \in Seq(C) /\ Len(Flushed(p)) = Len(p)
      BY <1>3, <1>4, FlushedForm
    <2>3. \A j \in 1..Len(p) : Flushed(p)[j].req[1] = t
      BY SMT, <1>4, <1>6 DEF Flushed, Completion
    <2>4. /\ DOMAIN (d \o Flushed(p)) = 1..(Len(d) + Len(Flushed(p)))
          /\ \A j \in 1..(Len(d) + Len(Flushed(p))) :
                (d \o Flushed(p))[j] = IF j <= Len(d) THEN d[j] ELSE Flushed(p)[j - Len(d)]
      <3> HIDE DEF C
      <3>1. d \in Seq(C) /\ Flushed(p) \in Seq(C)
        BY <1>15, <2>2
      <3> QED
        BY <3>1, Joined
    <2>5. ASSUME NEW j \in DOMAIN done'[n][ty]
          PROVE  done'[n][ty][j].req[1] <= Passed(n)'
      <3>1. j \in 1..(Len(d) + Len(p)) /\ j \in Int
        BY SMT, <1>8, <1>15, <2>1, <2>2, <2>4
      <3>2. CASE j <= Len(d)
        <4>1. j \in DOMAIN d /\ done'[n][ty][j] = d[j]
          BY SMT, <1>15, <2>1, <2>2, <2>4, <3>1, <3>2
        <4>2. d[j].req[1] <= Passed(n) /\ d[j].req[1] \in Nat
          BY <1>16, <1>17, <4>1
        <4> QED
          BY SMT, <1>7, <1>8, <4>1, <4>2
      <3>3. CASE ~(j <= Len(d))
        <4>1. j - Len(d) \in 1..Len(p) /\ done'[n][ty][j] = Flushed(p)[j - Len(d)]
          BY SMT, <1>8, <1>15, <2>1, <2>2, <2>4, <3>1, <3>3
        <4>2. done'[n][ty][j].req[1] = t
          BY <2>3, <4>1
        <4> QED
          BY SMT, <1>3, <1>7, <1>8, <4>2
      <3> QED
        BY <3>2, <3>3
    <2>6. ASSUME NEW r \in Typed(n, ty), Delivered(n, r)'
          PROVE  r[1] <= Passed(n)' /\ \A j \in DOMAIN o : Earlier(r, o[j])
      <3>1. Delivered(n, r) /\ r[1] \in Nat
        BY <1>11, <2>6, TypedForm, RequestForm
      <3> QED
        BY SMT, <1>7, <1>8, <1>16, <3>1
    <2> QED
      BY <1>16, <1>18, <2>1, <2>5, <2>6 DEF LineOK
  <1>19. ASSUME ~broken
         PROVE  LineOK(n, ty)'
    <2>1. outstanding'[n][ty] = o \o p /\ done'[n][ty] = d /\ ~broken'
      <3>1. /\ outstanding' = [outstanding EXCEPT ![n][ty] = o \o p]
            /\ done'[n][ty] = d /\ ~broken'
        BY <1>3, <1>6, <1>19 DEF o, d
      <3>2. ty \in Types
        BY <1>3
      <3> QED
        BY <1>12, <3>1, <3>2, EntryChanged
    <2>2. /\ DOMAIN (o \o p) = 1..(Len(o) + Len(p))
          /\ \A j \in 1..(Len(o) + Len(p)) :
                (o \o p)[j] = IF j <= Len(o) THEN o[j] ELSE p[j - Len(o)]
      <3>1. o \in Seq(Typed(n, ty)) /\ p \in Seq(Typed(n, ty))
        BY <1>4, <1>15
      <3> QED
        BY <3>1, Joined
    <2>3. \A j \in DOMAIN d : d[j].req[1] <= Passed(n)'
      BY SMT, <1>7, <1>8, <1>16, <1>17
    <2>4. ASSUME NEW r \in Typed(n, ty), Delivered(n, r)'
          PROVE  /\ r[1] <= Passed(n)'
                 /\ \A j \in DOMAIN (o \o p) : Earlier(r, (o \o p)[j])
      <3>1. Delivered(n, r) /\ r[1] \in Nat
        BY <1>11, <2>4, TypedForm, RequestForm
      <3>2. r[1] <= Passed(n) /\ \A j \in DOMAIN o : Earlier(r, o[j])
        BY <1>16, <3>1
      <3>3. r[1] <= Passed(n)' /\ r[1] < t
        BY SMT, <1>3, <1>7, <1>8, <3>1, <3>2
      <3>4. ASSUME NEW j \in DOMAIN (o \o p)
            PROVE  Earlier(r, (o \o p)[j])
        <4>1. j \in 1..(Len(o) + Len(p)) /\ j \in Int
          BY SMT, <1>8, <1>15, <2>2
        <4>2. CASE j <= Len(o)
          <5>1. j \in DOMAIN o /\ (o \o p)[j] = o[j]
            BY SMT, <1>15, <2>2, <4>1, <4>2
          <5> QED
            BY <3>2, <5>1
        <4>3. CASE ~(j <= Len(o))
          <5>1. j - Len(o) \in 1..Len(p) /\ (o \o p)[j] = p[j - Len(o)]
            BY SMT, <1>8, <1>15, <2>2, <4>1, <4>3
          <5>2. (o \o p)[j] = <<t, j - Len(o)>>
            BY <1>6, <5>1
          <5> QED
            BY SMT, <3>3, <5>2 DEF Earlier
        <4> QED
          BY <4>2, <4>3
      <3> QED
        BY <3>3, <3>4
    <2>5. ASSUME NEW r \in Typed(n, ty), r[1] <= Passed(n)', ~Delivered(n, r)
          PROVE  \E j \in DOMAIN (o \o p) : (o \o p)[j] = r
      <3>1. r \in Requests(n) /\ r[1] \in Nat /\ r[2] \in 1..Size(n, r[1]) /\ r = <<r[1], r[2]>>
        BY TypedForm, RequestForm
      <3>2. CASE r[1] <= Passed(n)
        <4>1. PICK j \in DOMAIN o : o[j] = r
          BY <1>16, <1>19, <2>5, <3>2
        <4>2. j \in DOMAIN (o \o p) /\ (o \o p)[j] = o[j]
          BY SMT, <1>8, <1>15, <2>2, <4>1
        <4> QED
          BY <4>1, <4>2
      <3>3. CASE ~(r[1] <= Passed(n))
        <4>1. r[1] = t
          BY SMT, <1>3, <1>7, <1>8, <2>5, <3>1, <3>3
        <4>2. r[2] \in 1..Len(p) /\ r[2] \in Nat
          BY <1>6, <3>1, <4>1, RequestForm
        <4>3. p[r[2]] = r
          BY <1>6, <3>1, <4>1, <4>2
        <4> DEFINE j == Len(o) + r[2]
        <4>4. j \in 1..(Len(o) + Len(p)) /\ ~(j <= Len(o)) /\ j - Len(o) = r[2]
          BY SMT, <1>8, <1>15, <4>2
        <4>5. (o \o p)[j] = r
          BY <2>2, <4>3, <4>4
        <4> QED
          BY <2>2, <4>4, <4>5
      <3> QED
        BY <3>2, <3>3
    <2>6. \A r \in Typed(n, ty) : Delivered(n, r)' = Delivered(n, r)
      BY <1>11
    <2> QED
      BY <1>16, <1>19, <2>1, <2>3, <2>4, <2>5, <2>6 DEF LineOK
  <1>20. ASSUME NEW k \in Nodes, NEW type \in Types
         PROVE  LineOK(k, type)'
    <2>1. CASE k # n
      BY <1>3, <1>7, <1>10, <1>13, <2>1, LineKept
    <2>2. CASE k = n
      BY <1>14, <1>18, <1>19, <2>2
    <2> QED
      BY <2>1, <2>2
  <1>21. ASSUME NEW k \in Nodes
         PROVE  OrderOK(k)'
    <2>1. OrderOK(k) /\ Passed(k)' \in Int /\ Passed(k) \in Int /\ Passed(k) <= Passed(k)'
      <3>1. Passed(k) \in Int
        BY <1>1, NodeTypes
      <3> QED
        BY SMT, <1>7, <3>1 DEF OrderInv
    <2>2. \A r \in Requests(k) : r[1] > Passed(k)' => status[k][r] = "PENDING"
      BY SMT, <2>1, RequestForm DEF OrderOK
    <2>3. \A i \in freed[k] : i <= Passed(k)'
      <3>1. \A i \in freed[k] : i \in Int
        BY SMT, <1>1, NodeTypes DEF CountInv, CountOK
      <3> QED
        BY SMT, <2>1, <3>1 DEF OrderOK
    <2>4. \A r \in Requests(k) : status[k][r] = "FAILED" => broken
      BY <2>1 DEF OrderOK
    <2> QED
      BY <1>3, <1>9, <1>20, <2>2, <2>3, <2>4 DEF OrderOK
  <1>22. InOrder'
    BY <1>3, InOrderKept DEF OrderInv
  <1> QED
    BY <1>21, <1>22

\* The queue pair of one side after its oldest request h was delivered.
LEMMA LineMoves ==
    ASSUME ValueTypes, NEW k \in Nodes, NEW type \in Types, WorkOK(k, type), LineOK(k, type),
           ~broken, ~broken', Passed(k)' = Passed(k),
           outstanding[k][type] # <<>>, NEW h, h = Head(outstanding[k][type]),
           outstanding'[k][type] = Tail(outstanding[k][type]),
           done'[k][type] = Append(done[k][type], Completion(h, TRUE)),
           \A r \in Typed(k, type) : Delivered(k, r)' <=> Delivered(k, r) \/ r = h
    PROVE  LineOK(k, type)'
  <1> DEFINE o == outstanding[k][type]
             d == done[k][type]
             C == [req : Typed(k, type), ok : BOOLEAN]
             c == Completion(h, TRUE)
  <1>1. o \in Seq(Typed(k, type)) /\ o # <<>> /\ d \in Seq(C)
    BY NodeTypes
  <1>2. /\ DOMAIN Tail(o) = 1..(Len(o) - 1)
        /\ \A j \in 1..(Len(o) - 1) : Tail(o)[j] = o[j + 1]
        /\ h \in Typed(k, type) /\ h = o[1]
        /\ Len(o) \in Nat \ {0} /\ DOMAIN o = 1..Len(o)
    <2>1. h = Head(o)
      OBVIOUS
    <2> HIDE DEF o
    <2>2. o \in Seq(Typed(k, type)) /\ o # <<>>
      BY <1>1
    <2> QED
      BY <2>1, <2>2, Shortened
  <1>3. c \in C /\ c.req = h /\ c.ok
    BY <1>2 DEF Completion
  <1>4. /\ DOMAIN Append(d, c) = 1..(Len(d) + 1)
        /\ \A j \in 1..Len(d) : Append(d, c)[j] = d[j]
        /\ Append(d, c)[Len(d) + 1] = c /\ Len(d) \in Nat /\ DOMAIN d = 1..Len(d)
    <2> HIDE DEF d, c, C
    <2>1. d \in Seq(C) /\ c \in C
      BY <1>1, <1>3
    <2> QED
      BY SMT, <2>1, Extended
  <1>5. outstanding'[k][type] = Tail(o) /\ done'[k][type] = Append(d, c)
    OBVIOUS
  <1>6. /\ \A i, j \in DOMAIN o : i < j => Earlier(o[i], o[j])
        /\ \A j \in DOMAIN o : o[j][1] <= Passed(k)
    BY DEF WorkOK
  <1>7. /\ \A j \in DOMAIN d : d[j].req[1] <= Passed(k) /\ d[j].ok
        /\ \A r \in Typed(k, type) : Delivered(k, r) =>
              r[1] <= Passed(k) /\ \A j \in DOMAIN o : Earlier(r, o[j])
        /\ \A r \in Typed(k, type) : r[1] <= Passed(k) =>
              Delivered(k, r) \/ \E j \in DOMAIN o : o[j] = r
    BY DEF LineOK
  <1> HIDE DEF o, d, c, C
  <1>8. \A j \in DOMAIN Tail(o) : j \in Nat /\ j + 1 \in DOMAIN o /\ Tail(o)[j] = o[j + 1] /\ 1 < j + 1
    BY SMT, <1>2
  <1>9. 1 \in DOMAIN o
    BY SMT, <1>2
  <1>10. ASSUME NEW j \in DOMAIN done'[k][type]
         PROVE  done'[k][type][j].req[1] <= Passed(k) /\ done'[k][type][j].ok
    <2>1. j \in 1..Len(d) \/ j = Len(d) + 1
      BY SMT, <1>4, <1>5
    <2>2. CASE j \in 1..Len(d)
      BY <1>4, <1>5, <1>7, <2>2
    <2>3. CASE j = Len(d) + 1
      <3>1. done'[k][type][j] = c
        BY <1>4, <1>5, <2>3
      <3>2. o[1][1] <= Passed(k)
        BY <1>6, <1>9
      <3> QED
        BY <1>2, <1>3, <3>1, <3>2
    <2> QED
      BY <2>1, <2>2, <2>3
  <1>11. ASSUME NEW r \in Typed(k, type), Delivered(k, r)'
         PROVE  r[1] <= Passed(k) /\ \A j \in DOMAIN Tail(o) : Earlier(r, Tail(o)[j])
    <2>1. CASE Delivered(k, r)
      BY <1>7, <1>8, <2>1
    <2>2. CASE r = h
      BY <1>2, <1>6, <1>8, <1>9, <2>2
    <2> QED
      BY <1>11, <2>1, <2>2
  <1>12. ASSUME NEW r \in Typed(k, type), r[1] <= Passed(k), ~Delivered(k, r)'
         PROVE  \E j \in DOMAIN Tail(o) : Tail(o)[j] = r
    <2>1. ~Delivered(k, r) /\ r # h
      BY <1>12
    <2>2. PICK i \in DOMAIN o : o[i] = r
      BY <1>7, <1>12, <2>1
    <2>3. i \in 1..Len(o) /\ i # 1
      BY <1>2, <2>1, <2>2
    <2>4. i - 1 \in 1..(Len(o) - 1) /\ (i - 1) + 1 = i
      BY SMT, <1>2, <2>3
    <2>5. Tail(o)[i - 1] = r
      BY <1>2, <2>2, <2>4
    <2> QED
      BY <1>2, <2>4, <2>5
  <1> QED
    BY <1>5, <1>10, <1>11, <1>12 DEF LineOK

LEMMA OrderTransfer ==
    ASSUME OrderInv, NEW n \in Nodes, Transfer(n)
    PROVE  InOrder' /\ \A k \in Nodes : OrderOK(k)'
  <1>1. TasksInv /\ ValueTypes /\ InOrder
    BY DEF OrderInv, CountInv, TasksInv
  <1>2. PICK m, x, y : /\ m = Peer(n) /\ x = Head(outstanding[n]["SEND"])
                       /\ y = Head(outstanding[m]["RECEIVE"])
    OBVIOUS
  <1>3. Moves(n, m, x, y)
    BY <1>1, <1>2, TransferEffect
  <1>4. /\ m \in Nodes /\ m # n /\ Peer(m) = n /\ \A k \in Nodes : k = n \/ k = m
        /\ outstanding[n]["SEND"] # <<>> /\ outstanding[m]["RECEIVE"] # <<>>
        /\ x \in Typed(n, "SEND") /\ y \in Typed(m, "RECEIVE")
        /\ x # NoRequest /\ mem[m][y] = NoRequest
        /\ x[1] <= Passed(n) /\ y[1] <= Passed(m)
        /\ \A k \in Nodes : \A r \in Requests(k) :
              mem'[k][r] = IF k = m /\ r = y THEN x ELSE mem[k][r]
    BY <1>3 DEF Moves
  <1>5. /\ outstanding'[n]["SEND"] = Tail(outstanding[n]["SEND"])
        /\ outstanding'[m]["RECEIVE"] = Tail(outstanding[m]["RECEIVE"])
        /\ done'[n]["SEND"] = Append(done[n]["SEND"], Completion(x, TRUE))
        /\ done'[m]["RECEIVE"] = Append(done[m]["RECEIVE"], Completion(y, TRUE))
        /\ \A k \in Nodes, type \in Types :
              ~(k = n /\ type = "SEND") /\ ~(k = m /\ type = "RECEIVE") =>
                  outstanding'[k][type] = outstanding[k][type] /\ done'[k][type] = done[k][type]
        /\ UNCHANGED <<worker, issued, pending, held, inflight, status, freed, broken>>
    BY <1>3 DEF Moves
  <1>6. "SEND" \in Types /\ "RECEIVE" \in Types
    BY DEF Types
  <1>7. \A k \in Nodes, type \in Types : LineOK(k, type) /\ WorkOK(k, type)
    BY <1>1 DEF OrderInv, OrderOK, TasksInv
  <1>8. \A k \in Nodes : Passed(k)' = Passed(k)
    BY <1>5 DEF Passed
  <1>9. ~broken /\ ~broken'
    BY <1>4, <1>5, <1>6, <1>7 DEF LineOK
  <1>10. x \in Requests(n) /\ y \in Requests(m) /\ Type(n, x[1]) = "SEND" /\ Type(m, y[1]) = "RECEIVE"
    BY SMT, <1>4, TypedForm
  <1>11. mem'[m][y] = x
    BY <1>4, <1>10
  <1>12. ASSUME NEW k \in Nodes, NEW r \in Requests(k)
         PROVE  Delivered(k, r)' <=> Delivered(k, r) \/ (k = n /\ r = x) \/ (k = m /\ r = y)
    <2>1. r # NoRequest /\ Peer(k) \in Nodes
      BY RequestForm, Peers
    <2>2. CASE Type(k, r[1]) = "SEND"
      <3>1. Delivered(k, r) <=> \E q \in Requests(Peer(k)) : mem[Peer(k)][q] = r
        BY <2>2 DEF Delivered
      <3>2. Delivered(k, r)' <=> \E q \in Requests(Peer(k)) : mem'[Peer(k)][q] = r
        BY <2>2 DEF Delivered
      <3>3. ~(k = m /\ r = y)
        BY <1>10, <2>2
      <3>4. CASE k = n
        <4>1. Peer(k) = m
          BY <1>2, <3>4
        <4>2. ASSUME NEW q \in Requests(m), mem'[m][q] = r
              PROVE  mem[m][q] = r \/ r = x
          BY <1>4, <4>2
        <4>3. ASSUME NEW q \in Requests(m), mem[m][q] = r
              PROVE  mem'[m][q] = r
          BY <1>4, <2>1, <4>3
        <4>4. r = x => \E q \in Requests(m) : mem'[m][q] = r
          BY <1>10, <1>11
        <4> QED
          BY SMT, <1>4, <3>1, <3>2, <3>3, <3>4, <4>1, <4>2, <4>3, <4>4
      <3>5. CASE k = m
        <4>1. Peer(k) = n /\ k # n
          BY <1>4, <3>5
        <4>2. \A q \in Requests(n) : mem'[n][q] = mem[n][q]
          BY <1>4
        <4> QED
          BY <3>1, <3>2, <3>3, <4>1, <4>2
      <3> QED
        BY <1>4, <3>4, <3>5
    <2>3. CASE Type(k, r[1]) # "SEND"
      <3>1. Delivered(k, r) <=> mem[k][r] # NoRequest
        BY <2>3 DEF Delivered
      <3>2. Delivered(k, r)' <=> mem'[k][r] # NoRequest
        BY <2>3 DEF Delivered
      <3>3. ~(k = n /\ r = x)
        BY <1>10, <2>3
      <3> QED
        BY <1>4, <3>1, <3>2, <3>3
    <2> QED
      BY <2>2, <2>3
  <1>13. ASSUME NEW k \in Nodes, NEW type \in Types
         PROVE  LineOK(k, type)'
    <2>1. LineOK(k, type) /\ WorkOK(k, type) /\ Passed(k)' = Passed(k)
      BY <1>7, <1>8
    <2>2. \A r \in Typed(k, type) : r \in Requests(k) /\ Type(k, r[1]) = type
      BY TypedForm
    <2>3. CASE k = n /\ type = "SEND"
      <3>1. \A r \in Typed(k, type) : Delivered(k, r)' <=> Delivered(k, r) \/ r = x
        BY <1>4, <1>12, <2>2, <2>3
      <3>2. /\ outstanding[k][type] # <<>> /\ x = Head(outstanding[k][type])
            /\ outstanding'[k][type] = Tail(outstanding[k][type])
            /\ done'[k][type] = Append(done[k][type], Completion(x, TRUE))
        BY <1>2, <1>4, <1>5, <2>3
      <3> QED
        BY <1>1, <1>9, <2>1, <3>1, <3>2, LineMoves
    <2>4. CASE k = m /\ type = "RECEIVE"
      <3>1. \A r \in Typed(k, type) : Delivered(k, r)' <=> Delivered(k, r) \/ r = y
        BY <1>4, <1>12, <2>2, <2>4
      <3>2. /\ outstanding[k][type] # <<>> /\ y = Head(outstanding[k][type])
            /\ outstanding'[k][type] = Tail(outstanding[k][type])
            /\ done'[k][type] = Append(done[k][type], Completion(y, TRUE))
        BY <1>2, <1>4, <1>5, <2>4
      <3> QED
        BY <1>1, <1>9, <2>1, <3>1, <3>2, LineMoves
    <2>5. CASE ~(k = n /\ type = "SEND") /\ ~(k = m /\ type = "RECEIVE")
      <3>1. \A r \in Typed(k, type) : Delivered(k, r)' <=> Delivered(k, r)
        <4> TAKE r \in Typed(k, type)
        <4>1. ~(k = n /\ r = x) /\ ~(k = m /\ r = y)
          BY <1>10, <2>2, <2>5
        <4> QED
          BY <1>12, <2>2, <4>1
      <3>2. outstanding'[k][type] = outstanding[k][type] /\ done'[k][type] = done[k][type]
        BY <1>5, <2>5
      <3>3. broken' = broken
        BY <1>5
      <3> QED
        BY <2>1, <3>1, <3>2, <3>3 DEF LineOK
    <2> QED
      BY <2>3, <2>4, <2>5
  <1>14. \A k \in Nodes : OrderOK(k)'
    BY <1>5, <1>8, <1>13 DEF OrderInv, OrderOK
  <1>15. /\ \A r \in Typed(n, "SEND") : Delivered(n, r) => Earlier(r, x)
         /\ \A r \in Typed(m, "RECEIVE") : Delivered(m, r) => Earlier(r, y)
         /\ \A r \in Typed(n, "SEND") : Earlier(r, x) => Delivered(n, r)
         /\ \A r \in Typed(m, "RECEIVE") : Earlier(r, y) => Delivered(m, r)
    <2>1. ASSUME NEW k \in Nodes, NEW type \in Types, outstanding[k][type] # <<>>,
                 NEW h, h = Head(outstanding[k][type]), NEW r \in Typed(k, type)
          PROVE  Delivered(k, r) <=> Earlier(r, h)
      <3> DEFINE o == outstanding[k][type]
      <3>1. o \in Seq(Typed(k, type)) /\ \A j \in DOMAIN o : o[j] \in Requests(k)
        BY <1>1, NodeTypes
      <3>2. h = o[1] /\ Len(o) \in Nat \ {0} /\ DOMAIN o = 1..Len(o)
        <4>1. h = Head(o) /\ o # <<>>
          BY <2>1
        <4> HIDE DEF o
        <4> QED
          BY <3>1, <4>1, Shortened
      <3>3. 1 \in DOMAIN o
        BY SMT, <3>2
      <3>4. r \in Requests(k) /\ h \in Requests(k)
        BY <3>1, <3>2, <3>3, TypedForm
      <3>5. Delivered(k, r) => Earlier(r, h)
        BY <1>7, <3>2, <3>3 DEF LineOK
      <3>6. ASSUME Earlier(r, h)
            PROVE  Delivered(k, r)
        <4>1. h[1] <= Passed(k)
          BY <1>7, <3>2, <3>3 DEF WorkOK
        <4>2. r[1] <= h[1] /\ r[1] \in Nat /\ h[1] \in Nat /\ Passed(k) \in Int
          BY <1>1, <3>4, <3>6, EarlierOrder, RequestForm, NodeTypes
        <4>3. r[1] <= Passed(k)
          BY SMT, <4>1, <4>2
        <4>4. ASSUME NEW j \in DOMAIN o, o[j] = r
              PROVE  FALSE
          <5>1. j = 1 \/ 1 < j
            BY SMT, <3>2
          <5>2. CASE j = 1
            BY <3>2, <3>4, <3>6, <4>4, <5>2, EarlierOrder
          <5>3. CASE 1 < j
            <6>1. Earlier(h, r)
              BY <1>7, <3>2, <3>3, <4>4, <5>3 DEF WorkOK
            <6> QED
              BY <3>4, <3>6, <6>1, EarlierOrder
          <5> QED
            BY <5>1, <5>2, <5>3
        <4> QED
          BY <1>7, <1>9, <4>3, <4>4 DEF LineOK
      <3> QED
        BY <3>5, <3>6
    <2> QED
      BY SMT, <1>2, <1>4, <1>6, <2>1
  <1>16. ASSUME NEW r \in Typed(m, "RECEIVE"), mem'[m][r] # NoRequest
         PROVE  /\ mem'[m][r] \in Typed(n, "SEND")
                /\ \A q \in Typed(m, "RECEIVE") : Earlier(q, r) =>
                      mem'[m][q] # NoRequest /\ Earlier(mem'[m][q], mem'[m][r])
                /\ \A s \in Typed(n, "SEND") : Earlier(s, mem'[m][r]) =>
                      \E q \in Typed(m, "RECEIVE") : Earlier(q, r) /\ mem'[m][q] = s
    <2>1. \A q \in Typed(m, "RECEIVE") : /\ q \in Requests(m)
                                         /\ Delivered(m, q) <=> mem[m][q] # NoRequest
      BY SMT, <1>4, TypedForm DEF Delivered
    <2>2. \A s \in Typed(n, "SEND") :
             /\ s # NoRequest /\ s \in Requests(n)
             /\ Delivered(n, s) <=> \E q \in Requests(m) : mem[m][q] = s
      BY <1>2, TypedForm, RequestForm DEF Delivered
    <2>3. \A q \in Typed(m, "RECEIVE") : mem[m][q] # NoRequest =>
             /\ mem[m][q] \in Typed(n, "SEND") /\ q # y /\ mem'[m][q] = mem[m][q]
      BY <1>1, <1>4, <2>1 DEF InOrder
    <2>4. CASE r = y
      <3>1. ASSUME NEW q \in Typed(m, "RECEIVE"), Earlier(q, y)
            PROVE  mem'[m][q] # NoRequest /\ Earlier(mem'[m][q], x)
        <4>1. mem[m][q] # NoRequest
          BY <1>15, <2>1, <3>1
        <4>2. mem[m][q] \in Typed(n, "SEND") /\ mem'[m][q] = mem[m][q]
          BY <2>3, <4>1
        <4>3. Delivered(n, mem[m][q])
          BY <2>1, <2>2, <4>2
        <4> QED
          BY <1>15, <4>1, <4>2, <4>3
      <3>2. ASSUME NEW s \in Typed(n, "SEND"), Earlier(s, x)
            PROVE  \E q \in Typed(m, "RECEIVE") : Earlier(q, y) /\ mem'[m][q] = s
        <4>1. PICK q \in Requests(m) : mem[m][q] = s
          BY <1>15, <2>2, <3>2
        <4>2. s # NoRequest
          BY <2>2
        <4>3. q \in Typed(m, "RECEIVE")
          <5>1. Type(m, q[1]) = "RECEIVE"
            BY <1>1, <1>4, <4>1, <4>2 DEF TasksInv, MemoryOK
          <5> QED
            BY <5>1 DEF Typed
        <4>4. Delivered(m, q) /\ mem'[m][q] = s
          BY <2>1, <2>3, <4>1, <4>2, <4>3
        <4> QED
          BY <1>15, <4>3, <4>4
      <3> QED
        BY <1>4, <1>11, <2>4, <3>1, <3>2
    <2>5. CASE r # y
      <3>1. mem'[m][r] = mem[m][r] /\ mem[m][r] # NoRequest
        BY <1>4, <1>16, <2>1, <2>5
      <3>2. /\ mem[m][r] \in Typed(n, "SEND")
            /\ \A q \in Typed(m, "RECEIVE") : Earlier(q, r) =>
                   mem[m][q] # NoRequest /\ Earlier(mem[m][q], mem[m][r])
            /\ \A s \in Typed(n, "SEND") : Earlier(s, mem[m][r]) =>
                   \E q \in Typed(m, "RECEIVE") : Earlier(q, r) /\ mem[m][q] = s
        BY <1>1, <1>4, <3>1 DEF InOrder
      <3>3. \A q \in Typed(m, "RECEIVE") : Earlier(q, r) =>
                mem'[m][q] # NoRequest /\ Earlier(mem'[m][q], mem'[m][r])
        BY <2>3, <3>1, <3>2
      <3>4. ASSUME NEW s \in Typed(n, "SEND"), Earlier(s, mem[m][r])
            PROVE  \E q \in Typed(m, "RECEIVE") : Earlier(q, r) /\ mem'[m][q] = s
        <4>1. PICK q \in Typed(m, "RECEIVE") : Earlier(q, r) /\ mem[m][q] = s
          BY <3>2, <3>4
        <4> QED
          BY <2>2, <2>3, <4>1
      <3> QED
        BY <3>1, <3>2, <3>3, <3>4
    <2> QED
      BY <2>4, <2>5
  <1>17. \A r \in Typed(n, "RECEIVE") : mem'[n][r] = mem[n][r]
    BY <1>4, TypedForm
  <1>18. InOrder'
    <2> SUFFICES ASSUME NEW k \in Nodes, NEW r \in Typed(k, "RECEIVE"), mem'[k][r] # NoRequest
                 PROVE  /\ mem'[k][r] \in Typed(Peer(k), "SEND")
                        /\ \A q \in Typed(k, "RECEIVE") : Earlier(q, r) =>
                              mem'[k][q] # NoRequest /\ Earlier(mem'[k][q], mem'[k][r])
                        /\ \A s \in Typed(Peer(k), "SEND") : Earlier(s, mem'[k][r]) =>
                              \E q \in Typed(k, "RECEIVE") : Earlier(q, r) /\ mem'[k][q] = s
      BY DEF InOrder
    <2>1. CASE k = m
      BY SMT, <1>4, <1>16, <2>1
    <2>2. CASE k = n
      <3>1. /\ mem[n][r] \in Typed(Peer(n), "SEND")
            /\ \A q \in Typed(n, "RECEIVE") : Earlier(q, r) =>
                   mem[n][q] # NoRequest /\ Earlier(mem[n][q], mem[n][r])
            /\ \A s \in Typed(Peer(n), "SEND") : Earlier(s, mem[n][r]) =>
                   \E q \in Typed(n, "RECEIVE") : Earlier(q, r) /\ mem[n][q] = s
        BY <1>1, <1>17, <2>2 DEF InOrder
      <3> QED
        BY <1>17, <2>2, <3>1
    <2> QED
      BY <1>4, <2>1, <2>2
  <1> QED
    BY <1>14, <1>18

LEMMA OrderInitial == Init => OrderInv
  <1> SUFFICES ASSUME Init
               PROVE  OrderInv
    OBVIOUS
  <1>1. CountInv /\ ValueTypes
    BY CountInitial DEF CountInv, TasksInv
  <1>2. \A k \in Nodes : \A r \in Requests(k) : mem[k][r] = NoRequest
    BY DEF Init
  <1>3. InOrder
    BY <1>2, TypedForm DEF InOrder
  <1>4. ASSUME NEW k \in Nodes
        PROVE  OrderOK(k)
    <2>1. /\ issued[k] = 0 /\ pending[k] = <<>> /\ held[k] = 0 /\ freed[k] = {} /\ ~broken
          /\ \A r \in Requests(k) : status[k][r] = "PENDING"
          /\ \A type \in Types : outstanding[k][type] = <<>> /\ done[k][type] = <<>>
      BY DEF Init
    <2>2. Passed(k) = 0
      <3>1. Len(<<>>) = 0
        OBVIOUS
      <3>2. Len(pending[k]) = 0
        BY <2>1, <3>1
      <3>3. Passed(k) = 0 - 0 - 0
        BY <2>1, <3>2 DEF Passed
      <3> QED
        BY SMT, <3>3
    <2>3. ASSUME NEW type \in Types
          PROVE  LineOK(k, type)
      <3>1. DOMAIN outstanding[k][type] = {} /\ DOMAIN done[k][type] = {}
        BY SMT, <2>1
      <3>2. ASSUME NEW r \in Typed(k, type)
            PROVE  ~Delivered(k, r) /\ ~(r[1] <= Passed(k))
        <4>1. r \in Requests(k) /\ r # NoRequest /\ r[1] \in 1..Len(Program[k]) /\ r[1] \in Nat
          BY TypedForm, RequestForm
        <4>2. Peer(k) \in Nodes
          BY Peers
        <4>3. ~Delivered(k, r)
          BY <1>2, <4>1, <4>2 DEF Delivered
        <4> QED
          BY SMT, <2>2, <4>1, <4>3
      <3> QED
        BY <2>1, <3>1, <3>2 DEF LineOK
    <2> QED
      BY <2>1, <2>3 DEF OrderOK
  <1> QED
    BY <1>1, <1>3, <1>4 DEF OrderInv

LEMMA OrderStep ==
    ASSUME Steady
    PROVE  OrderInv /\ [Next]_vars => OrderInv'
  <1> SUFFICES ASSUME OrderInv, [Next]_vars
               PROVE  InOrder' /\ \A k \in Nodes : OrderOK(k)'
    BY CountStep DEF OrderInv
  <1>0. TasksInv /\ ValueTypes
    BY DEF OrderInv, CountInv, TasksInv
  <1>1. ASSUME NEW n \in Nodes, Submit(n)
        PROVE  InOrder' /\ \A k \in Nodes : OrderOK(k)'
    <2>1. UNCHANGED <<status, freed, outstanding, done, mem, broken>>
      BY <1>1 DEF Submit
    <2> QED
      BY <1>0, <1>1, <2>1, SubmitInv, OrderQuiet
  <1>2. ASSUME NEW n \in Nodes, WorkerNext(n)
        PROVE  InOrder' /\ \A k \in Nodes : OrderOK(k)'
    <2>1. CASE TakeTask(n)
      BY <2>1, OrderTake
    <2>2. CASE PostTask(n)
      BY <2>2, OrderPost
    <2>3. CASE DropTask(n)
      BY <1>0, <2>3 DEF DropTask, ValueTypes, Steady
    <2>4. ASSUME NEW type \in Types, Poll(n, type)
          PROVE  InOrder' /\ \A k \in Nodes : OrderOK(k)'
      BY <2>4, OrderPoll
    <2> QED
      BY <1>2, <2>1, <2>2, <2>3, <2>4 DEF WorkerNext
  <1>3. ASSUME NEW n \in Nodes, Transfer(n)
        PROVE  InOrder' /\ \A k \in Nodes : OrderOK(k)'
    BY <1>3, OrderTransfer
  <1>4. ASSUME NEW n \in Nodes, NEW t \in DOMAIN Program[n], FreeTask(n, t)
        PROVE  InOrder' /\ \A k \in Nodes : OrderOK(k)'
    BY <1>4, OrderFree
  <1>5. CASE Break
    BY <1>5, OrderBreak
  <1>6. CASE UNCHANGED vars
    <2>1. UNCHANGED <<status, freed, outstanding, done, mem, broken>>
      BY <1>6 DEF vars
    <2>2. \A k \in Nodes : Passed(k)' = Passed(k)
      BY <1>6 DEF vars, Passed
    <2> QED
      BY <2>1, <2>2, OrderQuiet
  <1> QED
    BY <1>1, <1>2, <1>3, <1>4, <1>5, <1>6 DEF Next

\* Where both nodes run a worker thread and the device takes every request, OrderInv
\* is inductive: what a worker has passed is delivered or still on its queue pair.
THEOREM OrderInvariant ==
    ASSUME Steady
    PROVE  Spec => []OrderInv
  <1>1. OrderInv /\ [Next]_vars => OrderInv'
    BY OrderStep
  <1>2. OrderInv /\ UNCHANGED vars => OrderInv'
    BY OrderStep
  <1> QED
    BY <1>1, OrderInitial, PTL DEF Spec

\* Under the same conditions the k-th receive request of a node gets the k-th send
\* request of its peer, whatever the two applications issue, also when the
\* connection breaks halfway.
THEOREM TasksKeepOrder ==
    ASSUME Steady
    PROVE  Spec => []InOrder
  <1>1. OrderInv => InOrder
    BY DEF OrderInv
  <1> QED
    BY <1>1, OrderInvariant, PTL

\* Under the same conditions getStatus reports FAILED only on a broken connection: no
\* task meets a queue pair that is too full for it.
THEOREM FailureNeedsBreak ==
    ASSUME Steady
    PROVE  Spec => []FailedMeansBroken
  <1>1. OrderInv => FailedMeansBroken
    <2> SUFFICES ASSUME OrderInv, NEW n \in Nodes, NEW t \in 1..issued[n], Status(n, t) = "FAILED"
                 PROVE  broken
      BY DEF FailedMeansBroken
    <2>1. TasksInv /\ ValueTypes /\ QueueOK(n) /\ OrderOK(n)
      BY DEF OrderInv, CountInv, TasksInv
    <2>2. t \in 1..Len(Program[n])
      BY SMT, <2>1, NodeTypes, Tasks DEF QueueOK
    <2>3. PICK r \in RequestsOf(n, t) : status[n][r] = "FAILED"
      BY DEF Status
    <2>4. r \in Requests(n)
      BY <2>2, Tasks DEF Requests
    <2> QED
      BY <2>1, <2>3, <2>4 DEF OrderOK
  <1> QED
    BY <1>1, OrderInvariant, PTL
=============================================================================
