------------------------ MODULE ReliableTasksProofs -------------------------
(***************************************************************************)
(* What getStatus reports as SUCCESS was delivered, for every program of   *)
(* the two applications and every size of the queue pair.                  *)
(***************************************************************************)
EXTENDS ReliableTasks, TLAPS

USE Zenon

LEMMA EntryOfSeq ==
    ASSUME NEW S, NEW s \in Seq(S), NEW i \in 1..Len(s)
    PROVE  s[i] \in S
  BY SMT

LEMMA Peers ==
    ASSUME NEW n \in Nodes
    PROVE  /\ Peer(n) \in Nodes /\ Peer(n) # n
           /\ \A k \in Nodes : k = n \/ k = Peer(n)
           /\ Peer(Peer(n)) = n
  <1>1. PICK x \in Nodes, y \in Nodes : x # y /\ Nodes = {x, y}
    BY ReliableAssumption
  <1>2. \A k \in Nodes : Peer(k) \in Nodes /\ Peer(k) # k
    <2> TAKE k \in Nodes
    <2>1. \E m \in Nodes : m # k
      BY <1>1
    <2> QED
      BY <2>1 DEF Peer
  <1>3. \A k \in Nodes : k = n \/ k = Peer(n)
    BY <1>1, <1>2
  <1> QED
    BY <1>2, <1>3

LEMMA Tasks ==
    ASSUME NEW n \in Nodes
    PROVE  /\ Len(Program[n]) \in Nat
           /\ DOMAIN Program[n] = 1..Len(Program[n])
           /\ \A t \in 1..Len(Program[n]) : Type(n, t) \in Types /\ Size(n, t) \in Nat \ {0}
  <1>1. Program[n] \in Seq([type : Types, size : Nat \ {0}])
    BY ReliableAssumption
  <1>2. \A t \in 1..Len(Program[n]) : Program[n][t] \in [type : Types, size : Nat \ {0}]
    BY <1>1, EntryOfSeq
  <1> QED
    BY SMT, <1>1, <1>2 DEF Type, Size

\* A request is a task and a number.
LEMMA RequestForm ==
    ASSUME NEW n \in Nodes, NEW r \in Requests(n)
    PROVE  /\ r[1] \in 1..Len(Program[n])
           /\ r[2] \in 1..Size(n, r[1])
           /\ r = <<r[1], r[2]>>
           /\ r[1] \in Nat /\ r[2] \in Nat
           /\ r \in RequestsOf(n, r[1])
           /\ r \in Typed(n, Type(n, r[1]))
           /\ r # NoRequest
  <1>1. PICK t \in 1..Len(Program[n]) : r \in RequestsOf(n, t)
    BY Tasks DEF Requests
  <1>2. PICK i \in 1..Size(n, t) : r = <<t, i>>
    BY <1>1 DEF RequestsOf
  <1>3. r[1] = t /\ r[2] = i
    BY <1>2
  <1>4. Len(Program[n]) \in Nat /\ Size(n, t) \in Nat
    BY <1>1, Tasks
  <1>5. r # NoRequest
    BY <1>2 DEF NoRequest
  <1> QED
    BY SMT, <1>1, <1>2, <1>3, <1>4, <1>5 DEF Typed

LEMMA TaskRequests ==
    ASSUME NEW n \in Nodes, NEW t \in 1..Len(Program[n]), NEW i \in 1..Size(n, t)
    PROVE  <<t, i>> \in Typed(n, Type(n, t)) /\ <<t, i>> \in Requests(n)
  <1>1. <<t, i>> \in RequestsOf(n, t)
    BY DEF RequestsOf
  <1>2. t \in DOMAIN Program[n]
    BY Tasks
  <1>3. <<t, i>> \in Requests(n)
    BY <1>1, <1>2 DEF Requests
  <1> QED
    BY <1>3 DEF Typed

LEMMA TypedForm ==
    ASSUME NEW n \in Nodes, NEW type, NEW r \in Typed(n, type)
    PROVE  r \in Requests(n) /\ Type(n, r[1]) = type
  BY DEF Typed

LEMMA EarlierOrder ==
    ASSUME NEW n \in Nodes
    PROVE  /\ \A r \in Requests(n) : ~Earlier(r, r)
           /\ \A r, q \in Requests(n) : ~(Earlier(r, q) /\ Earlier(q, r))
           /\ \A r, q \in Requests(n) : Earlier(r, q) => r[1] <= q[1]
           /\ \A r, q \in Requests(n) : r[1] < q[1] => Earlier(r, q)
  <1>1. \A r \in Requests(n) : r[1] \in Nat /\ r[2] \in Nat
    BY RequestForm
  <1> QED
    BY SMT, <1>1 DEF Earlier

LEMMA IsSequence ==
    ASSUME NEW S, NEW m \in Nat, NEW f \in [1..m -> S]
    PROVE  f \in Seq(S) /\ Len(f) = m
  <1>1. f \in Seq(S)
    BY SMT
  <1>2. DOMAIN f = 1..m
    OBVIOUS
  <1> QED
    BY SMT, <1>1, <1>2

\* The contents of a sequence that is appended to another.
LEMMA Joined ==
    ASSUME NEW S, NEW s \in Seq(S), NEW p \in Seq(S)
    PROVE  /\ s \o p \in Seq(S)
           /\ Len(s \o p) = Len(s) + Len(p)
           /\ DOMAIN (s \o p) = 1..(Len(s) + Len(p))
           /\ \A i \in 1..(Len(s) + Len(p)) :
                 (s \o p)[i] = IF i <= Len(s) THEN s[i] ELSE p[i - Len(s)]
           /\ Len(s) \in Nat /\ Len(p) \in Nat
  BY SMT

LEMMA Shortened ==
    ASSUME NEW S, NEW s \in Seq(S), s # <<>>
    PROVE  /\ Tail(s) \in Seq(S)
           /\ Len(Tail(s)) = Len(s) - 1
           /\ DOMAIN Tail(s) = 1..(Len(s) - 1)
           /\ \A i \in 1..(Len(s) - 1) : Tail(s)[i] = s[i + 1]
           /\ Head(s) \in S /\ Head(s) = s[1]
           /\ Len(s) \in Nat \ {0} /\ DOMAIN s = 1..Len(s)
  <1>1. Len(s) \in Nat \ {0} /\ DOMAIN s = 1..Len(s)
    BY SMT
  <1>2. Tail(s) \in Seq(S) /\ Len(Tail(s)) = Len(s) - 1 /\ DOMAIN Tail(s) = 1..(Len(s) - 1)
    BY SMT, <1>1
  <1>3. \A i \in 1..(Len(s) - 1) : Tail(s)[i] = s[i + 1]
    BY SMT, <1>1
  <1>4. Head(s) \in S /\ Head(s) = s[1]
    BY SMT, <1>1
  <1> QED
    BY <1>1, <1>2, <1>3, <1>4

LEMMA Extended ==
    ASSUME NEW S, NEW s \in Seq(S), NEW e \in S
    PROVE  /\ Append(s, e) \in Seq(S)
           /\ Len(Append(s, e)) = Len(s) + 1
           /\ DOMAIN Append(s, e) = 1..(Len(s) + 1)
           /\ \A i \in 1..Len(s) : Append(s, e)[i] = s[i]
           /\ Append(s, e)[Len(s) + 1] = e
           /\ Len(s) \in Nat
  BY SMT

(***************************************************************************)
(* Tasks are posted once and in order, and success means delivery.         *)
(***************************************************************************)

LEMMA TasksInitial == Init => TasksInv
  <1> SUFFICES ASSUME Init
               PROVE  TasksInv
    OBVIOUS
  <1>1. \A n \in Nodes : Passed(n) = 0 /\ Len(Program[n]) \in Nat
    BY SMT, Tasks DEF Passed, Init
  <1>2. MaxWr \in Nat
    BY ReliableAssumption
  <1>3. \A n \in Nodes, type \in Types :
           outstanding[n][type] = <<>> /\ done[n][type] = <<>> /\ Depth(n, type) = 0
    BY SMT DEF Init, Depth
  <1>4. ValueTypes
    <2>1. \A n \in Nodes, type \in Types :
             /\ outstanding[n][type] \in Seq(Typed(n, type))
             /\ done[n][type] \in Seq([req : Typed(n, type), ok : BOOLEAN])
      <3>1. \A S : <<>> \in Seq(S)
        BY SMT
      <3> QED
        BY <1>3, <3>1, Zenon
    <2>2. /\ issued \in [Nodes -> Nat] /\ pending \in [Nodes -> Seq(Nat)]
          /\ held \in [Nodes -> Nat] /\ inflight \in [Nodes -> Int]
      BY SMT DEF Init
    <2>3. \A n \in Nodes : /\ status[n] \in [Requests(n) -> {"PENDING", "SUCCESS", "FAILED"}]
                           /\ DOMAIN mem[n] = Requests(n)
                           /\ DOMAIN outstanding[n] = Types /\ DOMAIN done[n] = Types
      BY DEF Init
    <2>4. /\ DOMAIN status = Nodes /\ DOMAIN mem = Nodes
          /\ DOMAIN outstanding = Nodes /\ DOMAIN done = Nodes
          /\ worker \in SpawnWorker /\ broken \in BOOLEAN
      BY DEF Init
    <2> QED
      BY <2>1, <2>2, <2>3, <2>4 DEF ValueTypes
  <1>5. \A n \in Nodes : QueueOK(n)
    BY SMT, <1>1 DEF QueueOK, Init
  <1>6. \A n \in Nodes : MemoryOK(n)
    BY DEF MemoryOK, Init
  <1>7. \A n \in Nodes, type \in Types : WorkOK(n, type)
    BY SMT, <1>2, <1>3 DEF WorkOK
  <1> QED
    BY <1>4, <1>5, <1>6, <1>7 DEF TasksInv

\* Facts about the tables of one node, without the quantifiers.
LEMMA NodeTypes ==
    ASSUME ValueTypes, NEW n \in Nodes
    PROVE  /\ issued[n] \in Nat /\ held[n] \in Nat /\ inflight[n] \in Int
           /\ pending[n] \in Seq(Nat) /\ Len(pending[n]) \in Nat
           /\ DOMAIN pending[n] = 1..Len(pending[n])
           /\ Passed(n) \in Int
           /\ status[n] \in [Requests(n) -> {"PENDING", "SUCCESS", "FAILED"}]
           /\ \A type \in Types :
                 /\ outstanding[n][type] \in Seq(Typed(n, type))
                 /\ Len(outstanding[n][type]) \in Nat
                 /\ DOMAIN outstanding[n][type] = 1..Len(outstanding[n][type])
                 /\ \A i \in DOMAIN outstanding[n][type] :
                       /\ outstanding[n][type][i] \in Typed(n, type)
                       /\ outstanding[n][type][i] \in Requests(n)
                       /\ outstanding[n][type][i][1] \in Nat
                 /\ done[n][type] \in Seq([req : Typed(n, type), ok : BOOLEAN])
                 /\ Len(done[n][type]) \in Nat
                 /\ DOMAIN done[n][type] = 1..Len(done[n][type])
                 /\ Depth(n, type) \in Nat
  <1>1. /\ issued[n] \in Nat /\ held[n] \in Nat /\ inflight[n] \in Int
        /\ pending[n] \in Seq(Nat)
        /\ status[n] \in [Requests(n) -> {"PENDING", "SUCCESS", "FAILED"}]
    BY DEF ValueTypes
  <1>2. Len(pending[n]) \in Nat /\ DOMAIN pending[n] = 1..Len(pending[n])
    BY SMT, <1>1
  <1>3. Passed(n) \in Int
    BY SMT, <1>1, <1>2 DEF Passed
  <1>4. ASSUME NEW type \in Types
        PROVE  /\ outstanding[n][type] \in Seq(Typed(n, type))
               /\ Len(outstanding[n][type]) \in Nat
               /\ DOMAIN outstanding[n][type] = 1..Len(outstanding[n][type])
               /\ \A i \in DOMAIN outstanding[n][type] :
                     /\ outstanding[n][type][i] \in Typed(n, type)
                     /\ outstanding[n][type][i] \in Requests(n)
                     /\ outstanding[n][type][i][1] \in Nat
               /\ done[n][type] \in Seq([req : Typed(n, type), ok : BOOLEAN])
               /\ Len(done[n][type]) \in Nat
               /\ DOMAIN done[n][type] = 1..Len(done[n][type])
               /\ Depth(n, type) \in Nat
    <2>1. /\ outstanding[n][type] \in Seq(Typed(n, type))
          /\ done[n][type] \in Seq([req : Typed(n, type), ok : BOOLEAN])
      BY <1>4 DEF ValueTypes
    <2>2. /\ Len(outstanding[n][type]) \in Nat
          /\ DOMAIN outstanding[n][type] = 1..Len(outstanding[n][type])
          /\ Len(done[n][type]) \in Nat
          /\ DOMAIN done[n][type] = 1..Len(done[n][type])
      BY SMT, <2>1
    <2>3. \A i \in DOMAIN outstanding[n][type] : outstanding[n][type][i] \in Typed(n, type)
      BY <2>1, <2>2, EntryOfSeq
    <2>4. \A i \in DOMAIN outstanding[n][type] :
             outstanding[n][type][i] \in Requests(n) /\ outstanding[n][type][i][1] \in Nat
      BY <2>3, TypedForm, RequestForm
    <2>5. Depth(n, type) \in Nat
      <3>1. \A x, y \in Nat : x + y \in Nat
        BY SMT
      <3> QED
        BY <2>2, <3>1, Zenon DEF Depth
    <2> QED
      BY <2>1, <2>2, <2>3, <2>4, <2>5
  <1> QED
    BY <1>1, <1>2, <1>3, <1>4

\* The work of a node on one queue pair, where nothing happens to it.
LEMMA WorkKept ==
    ASSUME ValueTypes, NEW n \in Nodes, NEW type \in Types, WorkOK(n, type),
           outstanding'[n][type] = outstanding[n][type], done'[n][type] = done[n][type],
           Passed(n)' \in Int, Passed(n)' >= Passed(n),
           \A r \in Typed(n, type) : Delivered(n, r) => Delivered(n, r)',
           type = "RECEIVE" =>
               \A i \in DOMAIN outstanding[n][type] :
                   mem'[n][outstanding[n][type][i]] = mem[n][outstanding[n][type][i]]
    PROVE  WorkOK(n, type)'
  <1>0. /\ Passed(n) \in Int
        /\ done[n][type] \in Seq([req : Typed(n, type), ok : BOOLEAN])
        /\ DOMAIN done[n][type] = 1..Len(done[n][type])
        /\ \A i \in DOMAIN outstanding[n][type] : outstanding[n][type][i][1] \in Nat
    BY NodeTypes
  <1>1. Depth(n, type)' = Depth(n, type)
    BY DEF Depth
  <1>2. \A i \in DOMAIN outstanding[n][type] : outstanding[n][type][i][1] <= Passed(n)'
    <2>1. \A i \in DOMAIN outstanding[n][type] : outstanding[n][type][i][1] <= Passed(n)
      BY DEF WorkOK
    <2> QED
      BY SMT, <1>0, <2>1
  <1>3. \A i \in DOMAIN done[n][type] :
           done[n][type][i].ok => Delivered(n, done[n][type][i].req)'
    <2> TAKE i \in DOMAIN done[n][type]
    <2>1. done[n][type][i] \in [req : Typed(n, type), ok : BOOLEAN]
      BY <1>0, EntryOfSeq
    <2> QED
      BY <2>1 DEF WorkOK
  <1> QED
    BY <1>1, <1>2, <1>3 DEF WorkOK

LEMMA MemoryKept ==
    ASSUME ValueTypes, NEW n \in Nodes, MemoryOK(n), mem' = mem,
           \A r \in Requests(n) :
               status'[n][r] = "SUCCESS" => status[n][r] = "SUCCESS" \/ Delivered(n, r),
           Passed(n)' \in Int, Passed(n)' >= Passed(n)
    PROVE  MemoryOK(n)'
  <1>1. \A r \in Requests(n) : Delivered(n, r)' = Delivered(n, r) /\ r[1] \in Nat
    BY RequestForm DEF Delivered
  <1>2. Passed(n) \in Int
    BY NodeTypes
  <1> QED
    BY SMT, <1>1, <1>2 DEF MemoryOK

\* Steps of the application and of the worker that touch no request.
LEMMA QuietStep ==
    ASSUME TasksInv, UNCHANGED <<worker, status, outstanding, done, mem, broken>>,
           issued' \in [Nodes -> Nat], pending' \in [Nodes -> Seq(Nat)],
           held' \in [Nodes -> Nat], inflight' \in [Nodes -> Int],
           \A n \in Nodes : QueueOK(n)' /\ Passed(n)' >= Passed(n)
    PROVE  TasksInv'
  <1>1. ValueTypes'
    BY DEF TasksInv, ValueTypes
  <1>2. \A n \in Nodes : Passed(n)' \in Int
    BY SMT DEF QueueOK
  <1>3. ASSUME NEW n \in Nodes
        PROVE  MemoryOK(n)'
    BY <1>2, MemoryKept DEF TasksInv
  <1>4. ASSUME NEW n \in Nodes, NEW type \in Types
        PROVE  WorkOK(n, type)'
    <2>1. \A r \in Typed(n, type) : Delivered(n, r) => Delivered(n, r)'
      BY DEF Delivered
    <2> QED
      BY <1>2, <2>1, WorkKept DEF TasksInv
  <1> QED
    BY <1>1, <1>3, <1>4 DEF TasksInv

LEMMA SubmitInv ==
    ASSUME TasksInv, NEW n \in Nodes, Submit(n)
    PROVE  TasksInv' /\ \A k \in Nodes : Passed(k)' = Passed(k)
  <1>1. ValueTypes /\ QueueOK(n)
    BY DEF TasksInv
  <1> DEFINE p == pending[n]
             c == issued[n]
  <1>2. /\ c < Len(Program[n])
        /\ issued' = [issued EXCEPT ![n] = c + 1]
        /\ pending' = [pending EXCEPT ![n] = Append(p, issued'[n])]
        /\ UNCHANGED <<worker, held, inflight, status, outstanding, done, mem, freed, broken>>
    BY DEF Submit
  <1>3. /\ issued \in [Nodes -> Nat] /\ pending \in [Nodes -> Seq(Nat)]
        /\ held \in [Nodes -> Nat] /\ inflight \in [Nodes -> Int]
        /\ p \in Seq(Nat) /\ c \in Nat /\ Len(p) \in Nat /\ DOMAIN p = 1..Len(p)
        /\ held[n] \in Nat /\ Len(Program[n]) \in Nat
    BY <1>1, NodeTypes, Tasks DEF ValueTypes
  <1>4. issued'[n] = c + 1 /\ pending'[n] = Append(p, c + 1) /\ held'[n] = held[n]
    BY <1>2, <1>3
  <1>5. /\ issued' \in [Nodes -> Nat] /\ pending' \in [Nodes -> Seq(Nat)]
    <2>1. Append(p, c + 1) \in Seq(Nat)
      BY SMT, <1>3
    <2> QED
      BY SMT, <1>2, <1>3, <1>4, <2>1
  <1> HIDE DEF p, c
  <1>6. /\ Len(pending'[n]) = Len(p) + 1
        /\ DOMAIN pending'[n] = 1..(Len(p) + 1)
        /\ \A i \in 1..Len(p) : pending'[n][i] = p[i]
        /\ pending'[n][Len(p) + 1] = c + 1
    BY SMT, <1>3, <1>4, Extended
  <1>7. Passed(n) = c - Len(p) - (IF held[n] = 0 THEN 0 ELSE 1)
    BY DEF Passed, p, c
  <1>8. Passed(n)' = Passed(n)
    <2>1. Passed(n)' = (c + 1) - (Len(p) + 1) - (IF held[n] = 0 THEN 0 ELSE 1)
      BY <1>4, <1>6 DEF Passed
    <2> QED
      BY SMT, <1>3, <1>7, <2>1
  <1>9. QueueOK(n)'
    <2>1. issued'[n] <= Len(Program[n])
      BY SMT, <1>2, <1>3, <1>4 DEF c
    <2>2. \A i \in 1..Len(p) : p[i] = c - Len(p) + i
      BY <1>1, <1>3 DEF QueueOK, p, c
    <2>3. \A i \in 1..(Len(p) + 1) : pending'[n][i] = (c + 1) - (Len(p) + 1) + i
      <3> TAKE i \in 1..(Len(p) + 1)
      <3>1. CASE i = Len(p) + 1
        BY SMT, <1>3, <1>6, <3>1
      <3>2. CASE i # Len(p) + 1
        <4>1. i \in 1..Len(p)
          BY SMT, <1>3, <3>2
        <4>2. pending'[n][i] = c - Len(p) + i
          BY <1>6, <2>2, <4>1
        <4> QED
          BY SMT, <1>3, <4>1, <4>2
      <3> QED
        BY <3>1, <3>2
    <2>4. \A i \in DOMAIN pending'[n] : pending'[n][i] = issued'[n] - Len(pending'[n]) + i
      BY <1>4, <1>6, <2>3
    <2>5. Passed(n)' \in Nat /\ (held'[n] # 0 => held'[n] = Passed(n)' + 1)
      BY <1>1, <1>4, <1>8 DEF QueueOK
    <2> QED
      BY <2>1, <2>4, <2>5 DEF QueueOK
  <1>10. ASSUME NEW k \in Nodes, k # n
         PROVE  Passed(k)' = Passed(k) /\ QueueOK(k)'
    <2>1. issued'[k] = issued[k] /\ pending'[k] = pending[k] /\ held'[k] = held[k]
      BY <1>2, <1>3, <1>10
    <2>2. Passed(k)' = Passed(k) /\ QueueOK(k)
      BY <2>1 DEF Passed, TasksInv
    <2> QED
      BY <2>1, <2>2 DEF QueueOK
  <1>11. \A k \in Nodes : QueueOK(k)' /\ Passed(k)' = Passed(k) /\ Passed(k) \in Int
    BY <1>1, <1>8, <1>9, <1>10, NodeTypes
  <1>12. \A k \in Nodes : QueueOK(k)' /\ Passed(k)' >= Passed(k)
    BY SMT, <1>11
  <1>13. TasksInv'
    BY <1>2, <1>3, <1>5, <1>12, QuietStep
  <1> QED
    BY <1>11, <1>13

\* Taking a task passes it if it was freed, dropping one passes it always.
LEMMA TakeTaskInv ==
    ASSUME TasksInv, NEW n \in Nodes, TakeTask(n)
    PROVE  /\ TasksInv'
           /\ \A k \in Nodes : k # n => Passed(k)' = Passed(k)
           /\ Head(pending[n]) = Passed(n) + 1
           /\ Passed(n)' = IF Head(pending[n]) \in freed[n] THEN Passed(n) + 1 ELSE Passed(n)
  <1>1. ValueTypes /\ QueueOK(n)
    BY DEF TasksInv
  <1> DEFINE p == pending[n]
             c == issued[n]
             h == IF Head(p) \in freed[n] THEN 0 ELSE Head(p)
  <1>2. /\ held[n] = 0 /\ p # <<>>
        /\ held' = [held EXCEPT ![n] = h]
        /\ pending' = [pending EXCEPT ![n] = Tail(p)]
        /\ UNCHANGED <<worker, issued, inflight, status, outstanding, done, mem, freed, broken>>
    BY DEF TakeTask
  <1>3. /\ issued \in [Nodes -> Nat] /\ pending \in [Nodes -> Seq(Nat)]
        /\ held \in [Nodes -> Nat] /\ inflight \in [Nodes -> Int]
        /\ p \in Seq(Nat) /\ c \in Nat /\ Len(Program[n]) \in Nat
    BY <1>1, NodeTypes, Tasks DEF ValueTypes
  <1>4. /\ Tail(p) \in Seq(Nat) /\ Len(Tail(p)) = Len(p) - 1 /\ DOMAIN Tail(p) = 1..(Len(p) - 1)
        /\ \A i \in 1..(Len(p) - 1) : Tail(p)[i] = p[i + 1]
        /\ Head(p) \in Nat /\ Head(p) = p[1]
        /\ Len(p) \in Nat \ {0} /\ DOMAIN p = 1..Len(p)
    BY SMT, <1>2, <1>3, Shortened
  <1>5. h \in Nat
    BY <1>4
  <1>6. pending'[n] = Tail(p) /\ held'[n] = h /\ issued'[n] = c
    BY <1>2, <1>3
  <1>7. issued' \in [Nodes -> Nat] /\ pending' \in [Nodes -> Seq(Nat)] /\ held' \in [Nodes -> Nat]
    BY <1>2, <1>3, <1>4, <1>5
  <1>8. Passed(n) = c - Len(p)
    BY SMT, <1>2, <1>3, <1>4 DEF Passed
  <1>9. \A i \in 1..Len(p) : p[i] = c - Len(p) + i
    BY <1>1, <1>4 DEF QueueOK
  <1>10. Head(p) = Passed(n) + 1 /\ Passed(n) \in Nat
    BY SMT, <1>1, <1>4, <1>8, <1>9 DEF QueueOK
  <1>11. Passed(n)' = IF Head(p) \in freed[n] THEN Passed(n) + 1 ELSE Passed(n)
    <2>1. Passed(n)' = c - (Len(p) - 1) - (IF h = 0 THEN 0 ELSE 1)
      BY <1>4, <1>6 DEF Passed
    <2>2. h = 0 <=> Head(p) \in freed[n]
      BY SMT, <1>10
    <2>3. CASE Head(p) \in freed[n]
      <3>1. Passed(n)' = c - (Len(p) - 1) - 0
        BY <2>1, <2>2, <2>3
      <3> QED
        BY SMT, <1>3, <1>4, <1>8, <2>3, <3>1
    <2>4. CASE Head(p) \notin freed[n]
      <3>1. Passed(n)' = c - (Len(p) - 1) - 1
        BY <2>1, <2>2, <2>4
      <3> QED
        BY SMT, <1>3, <1>4, <1>8, <2>4, <3>1
    <2> QED
      BY <2>3, <2>4
  <1>12. QueueOK(n)'
    <2>1. h # 0 => h = Passed(n)' + 1
      BY <1>10, <1>11
    <2> HIDE DEF h, p, c
    <2>2. \A i \in 1..(Len(p) - 1) : Tail(p)[i] = c - (Len(p) - 1) + i
      BY SMT, <1>3, <1>4, <1>9
    <2>3. \A i \in DOMAIN pending'[n] : pending'[n][i] = issued'[n] - Len(pending'[n]) + i
      BY <1>4, <1>6, <2>2
    <2>4. Passed(n)' \in Nat
      BY SMT, <1>10, <1>11
    <2>5. issued'[n] <= Len(Program[n])
      BY <1>1, <1>6 DEF QueueOK, c
    <2> QED
      BY <1>6, <2>1, <2>3, <2>4, <2>5 DEF QueueOK
  <1>13. ASSUME NEW k \in Nodes, k # n
         PROVE  Passed(k)' = Passed(k) /\ QueueOK(k)' /\ Passed(k) \in Int
    <2>1. issued'[k] = issued[k] /\ pending'[k] = pending[k] /\ held'[k] = held[k]
      BY <1>2, <1>3, <1>13
    <2>2. Passed(k)' = Passed(k) /\ QueueOK(k)
      BY <2>1 DEF Passed, TasksInv
    <2> QED
      BY <1>1, <2>1, <2>2, NodeTypes DEF QueueOK
  <1>14. \A k \in Nodes : QueueOK(k)' /\ Passed(k)' >= Passed(k)
    BY SMT, <1>10, <1>11, <1>12, <1>13
  <1>15. TasksInv'
    BY <1>2, <1>3, <1>7, <1>14, QuietStep
  <1> QED
    BY <1>10, <1>11, <1>13, <1>15

LEMMA DropTaskInv ==
    ASSUME TasksInv, NEW n \in Nodes, DropTask(n)
    PROVE  TasksInv'
  <1>1. ValueTypes /\ QueueOK(n)
    BY DEF TasksInv
  <1>2. /\ held[n] # 0
        /\ held' = [held EXCEPT ![n] = 0]
        /\ UNCHANGED <<worker, issued, pending, inflight, status, outstanding, done, mem, freed, broken>>
    BY DEF DropTask
  <1>3. held \in [Nodes -> Nat] /\ held' \in [Nodes -> Nat] /\ held'[n] = 0
    BY <1>1, <1>2 DEF ValueTypes
  <1>4. issued[n] \in Nat /\ Len(pending[n]) \in Nat /\ Passed(n) \in Nat
    BY <1>1, NodeTypes DEF QueueOK
  <1>5. Passed(n)' = Passed(n) + 1
    BY SMT, <1>2, <1>3, <1>4 DEF Passed
  <1>6. QueueOK(n)'
    BY SMT, <1>1, <1>2, <1>3, <1>4, <1>5 DEF QueueOK
  <1>7. ASSUME NEW k \in Nodes, k # n
        PROVE  Passed(k)' = Passed(k) /\ QueueOK(k)' /\ Passed(k) \in Int
    <2>1. held'[k] = held[k]
      BY <1>2, <1>3, <1>7
    <2>2. Passed(k)' = Passed(k) /\ QueueOK(k)
      BY <1>2, <2>1 DEF Passed, TasksInv
    <2> QED
      BY <1>1, <1>2, <2>1, <2>2, NodeTypes DEF QueueOK
  <1>8. \A k \in Nodes : QueueOK(k)' /\ Passed(k)' >= Passed(k)
    BY SMT, <1>4, <1>5, <1>6, <1>7
  <1> QED
    BY <1>1, <1>2, <1>3, <1>8, QuietStep DEF ValueTypes

LEMMA QueueKept ==
    ASSUME TasksInv, UNCHANGED <<issued, pending, held>>
    PROVE  \A k \in Nodes : /\ QueueOK(k)' /\ Passed(k)' = Passed(k)
                            /\ Passed(k)' \in Int /\ Passed(k)' >= Passed(k)
  <1> TAKE k \in Nodes
  <1>1. ValueTypes /\ QueueOK(k)
    BY DEF TasksInv
  <1>2. Passed(k) \in Int
    BY <1>1, NodeTypes
  <1>3. Passed(k)' = Passed(k)
    BY DEF Passed
  <1> QED
    BY SMT, <1>1, <1>2, <1>3 DEF QueueOK

\* The steps that the queues of both nodes go through: a table with one entry changed.
LEMMA EntryChanged ==
    ASSUME NEW f, NEW g, NEW n \in Nodes, NEW ty \in Types, NEW x,
           DOMAIN f = Nodes, \A k \in Nodes : DOMAIN f[k] = Types,
           g = [f EXCEPT ![n][ty] = x]
    PROVE  /\ DOMAIN g = Nodes /\ \A k \in Nodes : DOMAIN g[k] = Types
           /\ g[n][ty] = x
           /\ \A k \in Nodes, type \in Types : k # n \/ type # ty => g[k][type] = f[k][type]
  OBVIOUS

LEMMA PollInv ==
    ASSUME TasksInv, NEW n \in Nodes, NEW ty \in Types, Poll(n, ty)
    PROVE  /\ TasksInv'
           /\ UNCHANGED <<worker, issued, pending, held, outstanding, mem, freed, broken>>
           /\ Depth(n, ty)' = Depth(n, ty) - 1
           /\ \A k \in Nodes, type \in Types :
                 k # n \/ type # ty => Depth(k, type)' = Depth(k, type)
  <1> DEFINE d == done[n][ty]
             c == Head(d)
             v == IF c.ok THEN "SUCCESS" ELSE "FAILED"
             w == IF n \in worker THEN inflight[n] - 1 ELSE 0
  <1>1. ValueTypes /\ WorkOK(n, ty)
    BY DEF TasksInv
  <1>2. /\ d # <<>>
        /\ status' = [status EXCEPT ![n][c.req] = v]
        /\ done' = [done EXCEPT ![n][ty] = Tail(d)]
        /\ inflight' = [inflight EXCEPT ![n] = w]
        /\ UNCHANGED <<worker, issued, pending, held, outstanding, mem, freed, broken>>
    BY DEF Poll
  <1>3. d \in Seq([req : Typed(n, ty), ok : BOOLEAN])
    BY <1>1, NodeTypes
  <1>4. /\ Tail(d) \in Seq([req : Typed(n, ty), ok : BOOLEAN])
        /\ Len(Tail(d)) = Len(d) - 1 /\ DOMAIN Tail(d) = 1..(Len(d) - 1)
        /\ \A i \in 1..(Len(d) - 1) : Tail(d)[i] = d[i + 1]
        /\ c \in [req : Typed(n, ty), ok : BOOLEAN] /\ c = d[1]
        /\ Len(d) \in Nat \ {0} /\ DOMAIN d = 1..Len(d)
    BY <1>2, <1>3, Shortened
  <1>5. c.req \in Typed(n, ty) /\ c.req \in Requests(n) /\ c.ok \in BOOLEAN
    BY <1>4, TypedForm
  <1>6. /\ DOMAIN done = Nodes /\ \A k \in Nodes : DOMAIN done[k] = Types
        /\ DOMAIN status = Nodes
        /\ \A k \in Nodes : status[k] \in [Requests(k) -> {"PENDING", "SUCCESS", "FAILED"}]
        /\ inflight \in [Nodes -> Int]
    BY <1>1 DEF ValueTypes
  <1> HIDE DEF c, d
  <1>7. /\ DOMAIN done' = Nodes /\ \A k \in Nodes : DOMAIN done'[k] = Types
        /\ done'[n][ty] = Tail(d)
        /\ \A k \in Nodes, type \in Types : k # n \/ type # ty => done'[k][type] = done[k][type]
    BY <1>2, <1>6, EntryChanged
  <1>8. /\ DOMAIN status' = Nodes
        /\ status'[n] = [status[n] EXCEPT ![c.req] = v]
        /\ \A k \in Nodes : k # n => status'[k] = status[k]
    BY <1>2, <1>6
  <1>9. inflight' \in [Nodes -> Int]
    <2>1. w \in Int
      BY SMT, <1>6
    <2> HIDE DEF w
    <2> QED
      BY <1>2, <1>6, <2>1
  <1>10. ValueTypes'
    <2>1. v \in {"PENDING", "SUCCESS", "FAILED"}
      OBVIOUS
    <2> HIDE DEF v
    <2>2. \A k \in Nodes : status'[k] \in [Requests(k) -> {"PENDING", "SUCCESS", "FAILED"}]
      BY SMT, <1>5, <1>6, <1>8, <2>1
    <2>3. \A k \in Nodes, type \in Types :
             done'[k][type] \in Seq([req : Typed(k, type), ok : BOOLEAN])
      <3> TAKE k \in Nodes, type \in Types
      <3>1. done[k][type] \in Seq([req : Typed(k, type), ok : BOOLEAN])
        BY <1>1, NodeTypes
      <3>2. CASE k = n /\ type = ty
        BY <1>4, <1>7, <3>2
      <3>3. CASE k # n \/ type # ty
        BY <1>7, <3>1, <3>3, Zenon
      <3> QED
        BY <3>2, <3>3
    <2> QED
      BY <1>1, <1>2, <1>7, <1>8, <1>9, <2>2, <2>3 DEF ValueTypes
  <1>11. \A k \in Nodes : \A r : Delivered(k, r)' = Delivered(k, r)
    BY <1>2 DEF Delivered
  <1>12. \A k \in Nodes : QueueOK(k)' /\ Passed(k)' = Passed(k)
                          /\ Passed(k)' \in Int /\ Passed(k)' >= Passed(k)
    BY <1>2, QueueKept
  <1>13. Depth(n, ty)' = Depth(n, ty) - 1
    <2>1. Len(outstanding[n][ty]) \in Nat
      BY <1>1, NodeTypes
    <2>2. Depth(n, ty) = Len(outstanding[n][ty]) + Len(d)
          /\ Depth(n, ty)' = Len(outstanding[n][ty]) + (Len(d) - 1)
      BY <1>2, <1>4, <1>7 DEF Depth, d
    <2> QED
      BY SMT, <1>4, <2>1, <2>2
  <1>14. \A k \in Nodes, type \in Types :
            k # n \/ type # ty => Depth(k, type)' = Depth(k, type)
    <2> TAKE k \in Nodes, type \in Types
    <2> HAVE k # n \/ type # ty
    <2>1. done'[k][type] = done[k][type]
      BY <1>7
    <2> QED
      BY <1>2, <2>1 DEF Depth
  <1>15. ASSUME NEW k \in Nodes
         PROVE  MemoryOK(k)'
    <2>1. \A r \in Requests(k) :
             status'[k][r] = "SUCCESS" => status[k][r] = "SUCCESS" \/ Delivered(k, r)
      <3>1. CASE k # n
        BY <1>8, <3>1
      <3>2. CASE k = n
        <4>1. \A r \in Requests(n) : r # c.req => status'[n][r] = status[n][r]
          BY <1>5, <1>6, <1>8
        <4>2. status'[n][c.req] = v
          BY <1>5, <1>6, <1>8
        <4>3. c.ok => Delivered(n, c.req)
          BY SMT, <1>1, <1>4 DEF WorkOK, d
        <4>4. v = "SUCCESS" => c.ok
          OBVIOUS
        <4> QED
          BY <3>2, <4>1, <4>2, <4>3, <4>4
      <3> QED
        BY <3>1, <3>2
    <2>2. MemoryOK(k)
      BY DEF TasksInv
    <2> QED
      BY <1>1, <1>2, <1>12, <2>1, <2>2, MemoryKept
  <1>16. ASSUME NEW k \in Nodes, NEW type \in Types
         PROVE  WorkOK(k, type)'
    <2>0. WorkOK(k, type)
      BY DEF TasksInv
    <2>1. CASE k # n \/ type # ty
      <3>1. done'[k][type] = done[k][type] /\ outstanding'[k][type] = outstanding[k][type]
            /\ mem' = mem
        BY SMT, <1>2, <1>7, <2>1
      <3> QED
        BY <1>1, <1>11, <1>12, <2>0, <3>1, WorkKept
    <2>2. CASE k = n /\ type = ty
      <3>1. \A i \in DOMAIN done'[n][ty] :
               done'[n][ty][i].ok => Delivered(n, done[n][ty][i].req)'
        <4> TAKE i \in DOMAIN done'[n][ty]
        <4>1. i \in 1..(Len(d) - 1) /\ done'[n][ty][i] = d[i + 1] /\ i + 1 \in DOMAIN d
          BY SMT, <1>4, <1>7
        <4>2. d[i + 1].ok => Delivered(n, d[i + 1].req)
          BY <1>1, <4>1 DEF WorkOK, d
        <4> QED
          BY <1>2, <4>1, <4>2 DEF Delivered
      <3>2. Depth(n, ty)' <= MaxWr
        <4>1. Depth(n, ty) \in Nat /\ MaxWr \in Nat /\ Depth(n, ty) <= MaxWr
          BY <1>1, NodeTypes, ReliableAssumption DEF WorkOK
        <4> QED
          BY SMT, <1>13, <4>1
      <3>3. UNCHANGED <<outstanding, mem>> /\ Passed(n)' = Passed(n)
        BY <1>2, <1>12
      <3>4. WorkOK(n, ty)'
        <4>1. /\ \A i, j \in DOMAIN outstanding[n][ty] :
                    i < j => Earlier(outstanding[n][ty][i], outstanding[n][ty][j])
              /\ \A i \in DOMAIN outstanding[n][ty] :
                    /\ outstanding[n][ty][i][1] <= Passed(n)
                    /\ ty = "RECEIVE" => mem[n][outstanding[n][ty][i]] = NoRequest
          BY <1>1 DEF WorkOK
        <4> QED
          BY <3>1, <3>2, <3>3, <4>1 DEF WorkOK
      <3> QED
        BY <2>2, <3>4
    <2> QED
      BY <2>1, <2>2
  <1>17. TasksInv'
    BY <1>10, <1>12, <1>15, <1>16 DEF TasksInv
  <1> QED
    BY <1>2, <1>13, <1>14, <1>17

\* What a broken queue pair flushes.
LEMMA FlushedForm ==
    ASSUME NEW n \in Nodes, NEW type \in Types, NEW s \in Seq(Typed(n, type))
    PROVE  /\ Flushed(s) \in Seq([req : Typed(n, type), ok : BOOLEAN])
           /\ Len(Flushed(s)) = Len(s)
           /\ \A i \in 1..Len(s) : Flushed(s)[i].ok = FALSE
  <1>1. DOMAIN s = 1..Len(s) /\ Len(s) \in Nat
    BY SMT
  <1>2. \A i \in 1..Len(s) : s[i] \in Typed(n, type)
    BY EntryOfSeq
  <1>3. Flushed(s) = [i \in 1..Len(s) |-> [req |-> s[i], ok |-> FALSE]]
    BY <1>1 DEF Flushed, Completion
  <1>4. \A i \in 1..Len(s) : [req |-> s[i], ok |-> FALSE] \in [req : Typed(n, type), ok : BOOLEAN]
    BY <1>2
  <1>5. Flushed(s) \in [1..Len(s) -> [req : Typed(n, type), ok : BOOLEAN]]
    BY SMT, <1>3, <1>4
  <1>6. Flushed(s) \in Seq([req : Typed(n, type), ok : BOOLEAN]) /\ Len(Flushed(s)) = Len(s)
    BY <1>1, <1>5, IsSequence
  <1>7. \A i \in 1..Len(s) : Flushed(s)[i].ok = FALSE
    BY SMT, <1>3
  <1> QED
    BY <1>6, <1>7

LEMMA BreakInv ==
    ASSUME TasksInv, Break
    PROVE  /\ TasksInv'
           /\ \A n \in Nodes, type \in Types :
                 Depth(n, type)' = Depth(n, type) /\ outstanding'[n][type] = <<>>
  <1>1. ValueTypes
    BY DEF TasksInv
  <1>2. /\ broken' = TRUE
        /\ outstanding' = [n \in Nodes |-> [type \in Types |-> <<>>]]
        /\ done' = [n \in Nodes |-> [type \in Types |->
                       done[n][type] \o Flushed(outstanding[n][type])]]
        /\ UNCHANGED <<worker, issued, pending, held, inflight, status, mem, freed>>
    BY DEF Break
  <1>3. \A k \in Nodes : QueueOK(k)' /\ Passed(k)' = Passed(k)
                         /\ Passed(k)' \in Int /\ Passed(k)' >= Passed(k)
    BY <1>2, QueueKept
  <1>4. \A k \in Nodes : \A r : Delivered(k, r)' = Delivered(k, r)
    BY <1>2 DEF Delivered
  <1>5. ASSUME NEW n \in Nodes, NEW type \in Types
        PROVE  /\ outstanding'[n][type] \in Seq(Typed(n, type))
               /\ done'[n][type] \in Seq([req : Typed(n, type), ok : BOOLEAN])
               /\ Depth(n, type)' = Depth(n, type) /\ outstanding'[n][type] = <<>>
               /\ WorkOK(n, type)'
    <2> DEFINE o == outstanding[n][type]
               d == done[n][type]
               f == Flushed(o)
               C == [req : Typed(n, type), ok : BOOLEAN]
    <2>1. /\ o \in Seq(Typed(n, type)) /\ Len(o) \in Nat /\ Depth(n, type) \in Nat
          /\ d \in Seq(C) /\ Len(d) \in Nat /\ DOMAIN d = 1..Len(d)
      BY <1>1, NodeTypes
    <2>2. f \in Seq(C) /\ Len(f) = Len(o) /\ \A i \in 1..Len(o) : f[i].ok = FALSE
      BY <2>1, FlushedForm
    <2>3. outstanding'[n][type] = <<>> /\ done'[n][type] = d \o f
      BY <1>2
    <2>4. WorkOK(n, type)
      BY DEF TasksInv
    <2> HIDE DEF C, f, d, o
    <2>5. /\ d \o f \in Seq(C)
          /\ Len(d \o f) = Len(d) + Len(o)
          /\ DOMAIN (d \o f) = 1..(Len(d) + Len(o))
          /\ \A i \in 1..(Len(d) + Len(o)) :
                (d \o f)[i] = IF i <= Len(d) THEN d[i] ELSE f[i - Len(d)]
      <3>0. d \in Seq(C) /\ f \in Seq(C)
        BY <2>1, <2>2
      <3>1. /\ d \o f \in Seq(C)
            /\ Len(d \o f) = Len(d) + Len(f)
            /\ DOMAIN (d \o f) = 1..(Len(d) + Len(f))
            /\ \A i \in 1..(Len(d) + Len(f)) :
                  (d \o f)[i] = IF i <= Len(d) THEN d[i] ELSE f[i - Len(d)]
        BY <3>0, Joined
      <3> QED
        BY <2>2, <3>1, Zenon
    <2>6. outstanding'[n][type] \in Seq(Typed(n, type))
      BY SMT, <2>3
    <2>7. Depth(n, type)' = Depth(n, type)
      <3>1. Depth(n, type)' = 0 + (Len(d) + Len(o)) /\ Depth(n, type) = Len(o) + Len(d)
        <4>1. Depth(n, type)' = Len(outstanding'[n][type]) + Len(done'[n][type])
          BY DEF Depth
        <4>2. Len(outstanding'[n][type]) = 0
          BY SMT, <2>3
        <4> QED
          BY <2>3, <2>5, <4>1, <4>2 DEF Depth, d, o
      <3> QED
        BY SMT, <2>1, <3>1
    <2>8. ASSUME NEW i \in DOMAIN done'[n][type], done'[n][type][i].ok
          PROVE  Delivered(n, done[n][type][i].req)'
      <3>1. i \in 1..(Len(d) + Len(o)) /\ i \in Int
        BY SMT, <2>1, <2>3, <2>5
      <3>2. CASE i <= Len(d)
        <4>1. done'[n][type][i] = d[i] /\ i \in DOMAIN d
          BY SMT, <2>1, <2>3, <2>5, <3>1, <3>2
        <4>2. Delivered(n, d[i].req)
          BY <2>4, <2>8, <4>1 DEF WorkOK, d
        <4> QED
          BY <1>2, <4>1, <4>2 DEF Delivered
      <3>3. CASE ~(i <= Len(d))
        <4>1. done'[n][type][i] = f[i - Len(d)]
          BY <2>3, <2>5, <3>1, <3>3
        <4>2. i - Len(d) \in 1..Len(o)
          BY SMT, <2>1, <3>1, <3>3
        <4>3. f[i - Len(d)].ok = FALSE
          BY <2>2, <4>2
        <4> QED
          BY <2>8, <4>1, <4>3
      <3> QED
        BY <3>2, <3>3
    <2>9. WorkOK(n, type)'
      <3>1. DOMAIN outstanding'[n][type] = {}
        BY SMT, <2>3
      <3>2. Depth(n, type)' <= MaxWr
        BY <2>4, <2>7 DEF WorkOK
      <3> QED
        BY <2>8, <3>1, <3>2 DEF WorkOK
    <2> QED
      BY <2>3, <2>5, <2>6, <2>7, <2>9 DEF C
  <1>6. ValueTypes'
    <2>1. DOMAIN outstanding' = Nodes /\ DOMAIN done' = Nodes
          /\ \A n \in Nodes : DOMAIN outstanding'[n] = Types /\ DOMAIN done'[n] = Types
      BY <1>2
    <2> QED
      BY <1>1, <1>2, <1>5, <2>1 DEF ValueTypes
  <1>7. ASSUME NEW n \in Nodes PROVE MemoryOK(n)'
    <2>1. MemoryOK(n)
      BY DEF TasksInv
    <2> QED
      BY <1>1, <1>2, <1>3, <2>1, MemoryKept
  <1> QED
    BY <1>3, <1>5, <1>6, <1>7 DEF TasksInv

\* What PostTask does: the work requests p of task t enter the queue pair, or are flushed where it is
\* broken; the rest of the task fails.
Posts(n, t, ty, p) ==
    /\ Len(p) <= WrCount(n)
    /\ ~PostMayFail => Len(p) = WrCount(n)
    /\ \A j \in 1..Len(p) : p[j] = <<t, j>>
    /\ Depth(n, ty) + Len(p) <= MaxWr
    /\ \A r \in Requests(n) :
          status'[n][r] = IF r[1] = t /\ r[2] > Len(p) THEN "FAILED" ELSE status[n][r]
    /\ broken => /\ done' = [done EXCEPT ![n][ty] = done[n][ty] \o Flushed(p)]
                 /\ UNCHANGED outstanding
    /\ ~broken => /\ outstanding' = [outstanding EXCEPT ![n][ty] = outstanding[n][ty] \o p]
                  /\ UNCHANGED done

LEMMA PostEffect ==
    ASSUME TasksInv, NEW n \in Nodes, PostTask(n),
           NEW t, t = held[n], NEW ty, ty = Type(n, held[n])
    PROVE  /\ t \in 1..Len(Program[n]) /\ t = Passed(n) + 1 /\ ty \in Types
           /\ WrCount(n) \in Nat /\ WrCount(n) <= Size(n, t) /\ Fits(n)
           /\ held' = [held EXCEPT ![n] = 0]
           /\ inflight' = [inflight EXCEPT ![n] =
                              IF n \in worker THEN inflight[n] + WrCount(n) ELSE 0]
           /\ DOMAIN status' = Nodes
           /\ status'[n] = [r \in Requests(n) |-> status'[n][r]]
           /\ \A k \in Nodes : k # n => status'[k] = status[k]
           /\ UNCHANGED <<worker, issued, pending, mem, freed, broken>>
           /\ \E p \in Seq(Typed(n, ty)) : Posts(n, t, ty, p)
  <1> DEFINE count == WrCount(n)
  <1>1. ValueTypes /\ QueueOK(n)
    BY DEF TasksInv
  <1>2. /\ t # 0 /\ Fits(n)
        /\ held' = [held EXCEPT ![n] = 0]
        /\ inflight' = [inflight EXCEPT ![n] = IF n \in worker THEN inflight[n] + count ELSE 0]
        /\ UNCHANGED <<worker, issued, pending, mem, freed, broken>>
    BY DEF PostTask
  <1>3. PICK bad \in IF PostMayFail THEN 1..(WrCount(n) + 1) ELSE {WrCount(n) + 1} :
           /\ status' = [status EXCEPT ![n] =
                 [r \in Requests(n) |->
                     IF r[1] = held[n] /\ r[2] >= bad THEN "FAILED" ELSE status[n][r]]]
           /\ broken => /\ done' = [done EXCEPT ![n][Type(n, held[n])] =
                                       done[n][Type(n, held[n])] \o Flushed([j \in 1..(bad - 1) |-> <<held[n], j>>])]
                        /\ UNCHANGED outstanding
           /\ ~broken => /\ outstanding' = [outstanding EXCEPT ![n][Type(n, held[n])] =
                                       outstanding[n][Type(n, held[n])] \o [j \in 1..(bad - 1) |-> <<held[n], j>>]]
                         /\ UNCHANGED done
    BY DEF PostTask
  <1>4. t \in 1..Len(Program[n]) /\ t = Passed(n) + 1
    <2>1. t = Passed(n) + 1 /\ Passed(n) \in Nat /\ issued[n] <= Len(Program[n])
      BY <1>1, <1>2 DEF QueueOK
    <2>2. issued[n] \in Nat /\ Len(pending[n]) \in Nat /\ Len(Program[n]) \in Nat
      BY <1>1, NodeTypes, Tasks
    <2>3. Passed(n) = issued[n] - Len(pending[n]) - 1
      BY <1>2 DEF Passed
    <2> QED
      BY SMT, <2>1, <2>2, <2>3
  <1>5. ty \in Types /\ Size(n, t) \in Nat \ {0}
    BY <1>4, Tasks
  <1>6. Depth(n, ty) \in Nat /\ MaxWr \in Nat /\ Depth(n, ty) <= MaxWr
    <2>1. WorkOK(n, ty)
      BY <1>5 DEF TasksInv
    <2> QED
      BY <1>1, <1>5, <2>1, NodeTypes, ReliableAssumption DEF WorkOK
  <1>7. count \in Nat /\ count <= Size(n, t) /\ Depth(n, ty) + count <= MaxWr
    <2>1. count = IF Size(n, t) <= MaxWr - Depth(n, ty) THEN Size(n, t) ELSE MaxWr - Depth(n, ty)
      BY DEF WrCount
    <2> HIDE DEF count
    <2> QED
      BY SMT, <1>5, <1>6, <2>1
  <1> HIDE DEF count
  <1> DEFINE m == bad - 1
             p == [j \in 1..m |-> <<t, j>>]
  <1>8. m \in Nat /\ m <= count /\ (~PostMayFail => m = count) /\ bad \in Int
    <2>1. bad \in IF PostMayFail THEN 1..(count + 1) ELSE {count + 1}
      BY <1>3 DEF count
    <2> QED
      BY SMT, <1>7, <2>1
  <1>9. p \in Seq(Typed(n, ty)) /\ Len(p) = m
    <2>1. \A j \in 1..m : <<t, j>> \in Typed(n, ty)
      <3> TAKE j \in 1..m
      <3>1. j \in 1..Size(n, t)
        BY SMT, <1>5, <1>7, <1>8
      <3> QED
        BY <1>4, <3>1, TaskRequests
    <2>2. p \in [1..m -> Typed(n, ty)]
      BY <2>1
    <2> HIDE DEF p, m
    <2> QED
      BY <1>8, <2>2, IsSequence
  <1>10. \A j \in 1..Len(p) : p[j] = <<t, j>>
    BY <1>9
  <1>11. Depth(n, ty) + Len(p) <= MaxWr
    BY SMT, <1>6, <1>7, <1>8, <1>9
  <1>12. /\ DOMAIN status' = Nodes
         /\ status'[n] = [r \in Requests(n) |-> status'[n][r]]
         /\ \A k \in Nodes : k # n => status'[k] = status[k]
         /\ \A r \in Requests(n) :
               status'[n][r] = IF r[1] = t /\ r[2] >= bad THEN "FAILED" ELSE status[n][r]
    <2>1. DOMAIN status = Nodes
      BY <1>1 DEF ValueTypes
    <2> QED
      BY <1>3, <2>1
  <1>13. \A r \in Requests(n) :
            status'[n][r] = IF r[1] = t /\ r[2] > Len(p) THEN "FAILED" ELSE status[n][r]
    <2> TAKE r \in Requests(n)
    <2>1. r[2] >= bad <=> r[2] > Len(p)
      BY SMT, <1>8, <1>9, RequestForm
    <2> QED
      BY <1>12, <2>1
  <1>14. /\ broken => /\ done' = [done EXCEPT ![n][ty] = done[n][ty] \o Flushed(p)]
                      /\ UNCHANGED outstanding
         /\ ~broken => /\ outstanding' = [outstanding EXCEPT ![n][ty] = outstanding[n][ty] \o p]
                       /\ UNCHANGED done
    BY <1>3
  <1> HIDE DEF p, m
  <1>15. Posts(n, t, ty, p)
    <2>1. Len(p) <= count /\ (~PostMayFail => Len(p) = count)
      BY <1>8, <1>9
    <2> QED
      BY <1>10, <1>11, <1>13, <1>14, <2>1 DEF Posts, count
  <1> QED
    BY <1>2, <1>4, <1>5, <1>7, <1>9, <1>12, <1>15 DEF count

LEMMA PostTaskInv ==
    ASSUME TasksInv, NEW n \in Nodes, PostTask(n),
           NEW t, t = held[n], NEW ty, ty = Type(n, held[n])
    PROVE  /\ TasksInv'
           /\ Passed(n)' = Passed(n) + 1
           /\ \A k \in Nodes : k # n => Passed(k)' = Passed(k)
           /\ \E c \in 0..WrCount(n) :
                 /\ ~PostMayFail => c = WrCount(n)
                 /\ Depth(n, ty)' = Depth(n, ty) + c
           /\ \A k \in Nodes, type \in Types :
                 k # n \/ type # ty => Depth(k, type)' = Depth(k, type)
  <1> DEFINE count == WrCount(n)
             w == IF n \in worker THEN inflight[n] + count ELSE 0
  <1>1. /\ t \in 1..Len(Program[n]) /\ t = Passed(n) + 1 /\ ty \in Types
        /\ count \in Nat /\ count <= Size(n, t)
        /\ held' = [held EXCEPT ![n] = 0]
        /\ inflight' = [inflight EXCEPT ![n] = w]
        /\ DOMAIN status' = Nodes
        /\ status'[n] = [r \in Requests(n) |-> status'[n][r]]
        /\ \A k \in Nodes : k # n => status'[k] = status[k]
        /\ UNCHANGED <<worker, issued, pending, mem, freed, broken>>
    BY PostEffect
  <1>0. PICK p \in Seq(Typed(n, ty)) : Posts(n, t, ty, p)
    BY PostEffect
  <1>2. /\ Len(p) <= count
        /\ ~PostMayFail => Len(p) = count
        /\ \A j \in 1..Len(p) : p[j] = <<t, j>>
        /\ Depth(n, ty) + Len(p) <= MaxWr
        /\ \A r \in Requests(n) :
              status'[n][r] = IF r[1] = t /\ r[2] > Len(p) THEN "FAILED" ELSE status[n][r]
        /\ broken => /\ done' = [done EXCEPT ![n][ty] = done[n][ty] \o Flushed(p)]
                     /\ UNCHANGED outstanding
        /\ ~broken => /\ outstanding' = [outstanding EXCEPT ![n][ty] = outstanding[n][ty] \o p]
                      /\ UNCHANGED done
    BY <1>0 DEF Posts
  <1>3. ValueTypes /\ QueueOK(n) /\ MemoryOK(n)
    BY DEF TasksInv
  <1>4. /\ held \in [Nodes -> Nat] /\ inflight \in [Nodes -> Int] /\ inflight[n] \in Int
        /\ issued[n] \in Nat /\ Len(pending[n]) \in Nat /\ Passed(n) \in Nat
        /\ DOMAIN outstanding = Nodes /\ DOMAIN done = Nodes
        /\ \A k \in Nodes : DOMAIN outstanding[k] = Types /\ DOMAIN done[k] = Types
    BY <1>3, NodeTypes DEF ValueTypes, QueueOK
  <1>5. held' \in [Nodes -> Nat] /\ held'[n] = 0
    BY <1>1, <1>4
  <1>6. inflight' \in [Nodes -> Int]
    <2>1. w \in Int
      BY SMT, <1>1, <1>4
    <2> HIDE DEF w
    <2> QED
      BY <1>1, <1>4, <2>1
  <1> HIDE DEF w
  <1>7. Passed(n)' = Passed(n) + 1
    <2>1. Passed(n) = issued[n] - Len(pending[n]) - 1 /\ Passed(n)' = issued[n] - Len(pending[n]) - 0
      <3>1. t # 0
        BY SMT, <1>1
      <3> QED
        BY <1>1, <1>5, <3>1 DEF Passed
    <2> QED
      BY SMT, <1>4, <2>1
  <1>8. QueueOK(n)'
    BY SMT, <1>1, <1>3, <1>4, <1>5, <1>7 DEF QueueOK
  <1>9. ASSUME NEW k \in Nodes, k # n
        PROVE  Passed(k)' = Passed(k) /\ QueueOK(k)'
    <2>1. held'[k] = held[k]
      BY <1>1, <1>4, <1>9
    <2>2. Passed(k)' = Passed(k) /\ QueueOK(k)
      BY <1>1, <2>1 DEF Passed, TasksInv
    <2> QED
      BY <1>1, <2>1, <2>2 DEF QueueOK
  <1>10. \A k \in Nodes : QueueOK(k)' /\ Passed(k)' \in Int /\ Passed(k)' >= Passed(k)
    <2>1. \A k \in Nodes : Passed(k) \in Int
      BY <1>3, NodeTypes
    <2> QED
      BY SMT, <1>4, <1>7, <1>8, <1>9, <2>1
  <1>11. \A k \in Nodes : \A r : Delivered(k, r)' = Delivered(k, r)
    BY <1>1 DEF Delivered
  <1>12. ASSUME NEW k \in Nodes
         PROVE  MemoryOK(k)'
    <2>1. \A r \in Requests(k) : status'[k][r] = "SUCCESS" => status[k][r] = "SUCCESS"
      <3>1. CASE k = n
        BY <1>2, <3>1
      <3>2. CASE k # n
        BY <1>1, <3>2
      <3> QED
        BY <3>1, <3>2
    <2>2. MemoryOK(k)
      BY DEF TasksInv
    <2> QED
      BY <1>1, <1>3, <1>10, <2>1, <2>2, MemoryKept
  <1>13. ASSUME NEW k \in Nodes, NEW type \in Types, k # n \/ type # ty
         PROVE  /\ outstanding'[k][type] = outstanding[k][type]
                /\ done'[k][type] = done[k][type]
                /\ Depth(k, type)' = Depth(k, type)
                /\ WorkOK(k, type)'
    <2>1. outstanding'[k][type] = outstanding[k][type] /\ done'[k][type] = done[k][type]
      <3>0. /\ ty \in Types /\ DOMAIN outstanding = Nodes /\ DOMAIN done = Nodes
            /\ \A i \in Nodes : DOMAIN outstanding[i] = Types /\ DOMAIN done[i] = Types
        BY <1>1, <1>4
      <3>1. CASE broken
        <4>1. /\ done' = [done EXCEPT ![n][ty] = done[n][ty] \o Flushed(p)]
              /\ outstanding' = outstanding
          BY <1>2, <3>1
        <4> QED
          BY <1>13, <3>0, <4>1, EntryChanged
      <3>2. CASE ~broken
        <4>1. /\ outstanding' = [outstanding EXCEPT ![n][ty] = outstanding[n][ty] \o p]
              /\ done' = done
          BY <1>2, <3>2
        <4> QED
          BY <1>13, <3>0, <4>1, EntryChanged
      <3> QED
        BY <3>1, <3>2
    <2>2. Depth(k, type)' = Depth(k, type)
      BY <2>1 DEF Depth
    <2>3. WorkOK(k, type) /\ mem' = mem
      BY <1>1 DEF TasksInv
    <2>4. WorkOK(k, type)'
      BY <1>3, <1>10, <1>11, <2>1, <2>3, WorkKept
    <2> QED
      BY <2>1, <2>2, <2>4
  <1> DEFINE o == outstanding[n][ty]
             d == done[n][ty]
             C == [req : Typed(n, ty), ok : BOOLEAN]
             f == Flushed(p)
  <1>14. /\ o \in Seq(Typed(n, ty)) /\ Len(o) \in Nat /\ DOMAIN o = 1..Len(o)
         /\ d \in Seq(C) /\ Len(d) \in Nat /\ DOMAIN d = 1..Len(d)
         /\ Depth(n, ty) \in Nat /\ WorkOK(n, ty)
         /\ \A j \in DOMAIN o : o[j] \in Typed(n, ty) /\ o[j][1] \in Nat
    <2>1. ty \in Types
      BY <1>1
    <2> QED
      BY <1>3, <2>1, NodeTypes DEF TasksInv
  <1>15. f \in Seq(C) /\ Len(f) = Len(p) /\ \A j \in 1..Len(p) : f[j].ok = FALSE
    BY <1>1, <1>0, FlushedForm
  <1>16. Len(p) \in Nat
    BY SMT, <1>0
  <1> HIDE DEF o, d, C, f, count
  <1>17. ASSUME broken
         PROVE  /\ outstanding'[n][ty] \in Seq(Typed(n, ty))
                /\ done'[n][ty] \in Seq(C)
                /\ Depth(n, ty)' = Depth(n, ty) + Len(p)
                /\ WorkOK(n, ty)'
    <2>1. outstanding'[n][ty] = o /\ done'[n][ty] = d \o f
      <3>1. outstanding'[n][ty] = o
        BY <1>1, <1>2, <1>4, <1>17, EntryChanged DEF o
      <3>2. done'[n][ty] = d \o f
        <4>1. done' = [done EXCEPT ![n][ty] = d \o f]
          BY <1>2, <1>17 DEF d, f
        <4>2. ty \in Types /\ DOMAIN done = Nodes /\ \A k \in Nodes : DOMAIN done[k] = Types
          BY <1>1, <1>4
        <4> QED
          BY <4>1, <4>2, EntryChanged
      <3> QED
        BY <3>1, <3>2
    <2>2. /\ d \o f \in Seq(C)
          /\ Len(d \o f) = Len(d) + Len(f)
          /\ DOMAIN (d \o f) = 1..(Len(d) + Len(f))
          /\ \A j \in 1..(Len(d) + Len(f)) :
                (d \o f)[j] = IF j <= Len(d) THEN d[j] ELSE f[j - Len(d)]
      <3>1. d \in Seq(C) /\ f \in Seq(C)
        BY <1>14, <1>15
      <3> QED
        BY SMT, <3>1, Joined
    <2>3. Depth(n, ty)' = Depth(n, ty) + Len(p)
      <3>1. Depth(n, ty)' = Len(o) + (Len(d) + Len(p)) /\ Depth(n, ty) = Len(o) + Len(d)
        BY <1>15, <2>1, <2>2 DEF Depth, o, d
      <3> QED
        BY SMT, <1>14, <1>16, <3>1
    <2>4. ASSUME NEW j \in DOMAIN done'[n][ty], done'[n][ty][j].ok
          PROVE  Delivered(n, done[n][ty][j].req)'
      <3>1. j \in 1..(Len(d) + Len(p)) /\ j \in Int
        BY SMT, <1>14, <1>15, <1>16, <2>1, <2>2
      <3>2. CASE j <= Len(d)
        <4>1. done'[n][ty][j] = d[j] /\ j \in DOMAIN d
          BY SMT, <1>14, <1>15, <2>1, <2>2, <3>1, <3>2
        <4>2. Delivered(n, d[j].req)
          BY <1>14, <2>4, <4>1 DEF WorkOK, d
        <4> QED
          BY <1>1, <4>1, <4>2 DEF Delivered
      <3>3. CASE ~(j <= Len(d))
        <4>1. done'[n][ty][j] = f[j - Len(d)]
          BY <1>15, <2>1, <2>2, <3>1, <3>3
        <4>2. j - Len(d) \in 1..Len(p)
          BY SMT, <1>14, <1>16, <3>1, <3>3
        <4>3. f[j - Len(d)].ok = FALSE
          BY <1>15, <4>2
        <4> QED
          BY <2>4, <4>1, <4>3
      <3> QED
        BY <3>2, <3>3
    <2>5. WorkOK(n, ty)'
      <3>1. /\ \A j, l \in DOMAIN o : j < l => Earlier(o[j], o[l])
            /\ \A j \in DOMAIN o : /\ o[j][1] <= Passed(n)
                                   /\ ty = "RECEIVE" => mem[n][o[j]] = NoRequest
        BY <1>14 DEF WorkOK, o
      <3>2. ASSUME NEW j \in DOMAIN o
            PROVE  o[j][1] <= Passed(n)'
        <4>1. o[j][1] \in Nat /\ o[j][1] <= Passed(n) /\ Passed(n) \in Nat
          BY <1>4, <1>14, <3>1
        <4> QED
          BY SMT, <1>7, <4>1
      <3>3. Depth(n, ty)' <= MaxWr
        BY <1>2, <2>3
      <3> QED
        BY <1>1, <2>1, <2>4, <3>1, <3>2, <3>3 DEF WorkOK
    <2> QED
      BY <1>14, <2>1, <2>2, <2>3, <2>5
  <1>18. ASSUME ~broken
         PROVE  /\ outstanding'[n][ty] \in Seq(Typed(n, ty))
                /\ done'[n][ty] \in Seq(C)
                /\ Depth(n, ty)' = Depth(n, ty) + Len(p)
                /\ WorkOK(n, ty)'
    <2>1. outstanding'[n][ty] = o \o p /\ done'[n][ty] = d
      <3>1. outstanding' = [outstanding EXCEPT ![n][ty] = o \o p] /\ done'[n][ty] = d
        BY <1>2, <1>18 DEF o, d
      <3>2. /\ ty \in Types /\ DOMAIN outstanding = Nodes
            /\ \A k \in Nodes : DOMAIN outstanding[k] = Types
        BY <1>1, <1>4
      <3> QED
        BY <3>1, <3>2, EntryChanged
    <2>2. /\ o \o p \in Seq(Typed(n, ty))
          /\ Len(o \o p) = Len(o) + Len(p)
          /\ DOMAIN (o \o p) = 1..(Len(o) + Len(p))
          /\ \A j \in 1..(Len(o) + Len(p)) :
                (o \o p)[j] = IF j <= Len(o) THEN o[j] ELSE p[j - Len(o)]
      <3>1. o \in Seq(Typed(n, ty)) /\ p \in Seq(Typed(n, ty))
        BY <1>14
      <3> QED
        BY SMT, <3>1, Joined
    <2>3. Depth(n, ty)' = Depth(n, ty) + Len(p)
      <3>1. Depth(n, ty)' = (Len(o) + Len(p)) + Len(d) /\ Depth(n, ty) = Len(o) + Len(d)
        BY <2>1, <2>2 DEF Depth, o, d
      <3> QED
        BY SMT, <1>14, <1>16, <3>1
    <2>4. \A j \in 1..(Len(o) + Len(p)) :
             \/ j \in DOMAIN o /\ (o \o p)[j] = o[j] /\ j <= Len(o)
             \/ j > Len(o) /\ (o \o p)[j] = <<t, j - Len(o)>> /\ j - Len(o) \in 1..Len(p)
      <3> TAKE j \in 1..(Len(o) + Len(p))
      <3>1. CASE j <= Len(o)
        BY SMT, <1>14, <2>2, <3>1
      <3>2. CASE ~(j <= Len(o))
        <4>1. j - Len(o) \in 1..Len(p) /\ j > Len(o)
          BY SMT, <1>14, <1>16, <3>2
        <4>2. (o \o p)[j] = p[j - Len(o)]
          BY <2>2, <3>2
        <4> QED
          BY <1>2, <4>1, <4>2
      <3> QED
        BY <3>1, <3>2
    <2>5. /\ \A j, l \in DOMAIN o : j < l => Earlier(o[j], o[l])
          /\ \A j \in DOMAIN o : /\ o[j][1] <= Passed(n)
                                 /\ ty = "RECEIVE" => mem[n][o[j]] = NoRequest
      BY <1>14 DEF WorkOK, o
    <2>6. ASSUME NEW j \in 1..(Len(o) + Len(p)), NEW l \in 1..(Len(o) + Len(p)), j < l
          PROVE  Earlier((o \o p)[j], (o \o p)[l])
      <3>1. CASE l <= Len(o)
        <4>1. j \in DOMAIN o /\ l \in DOMAIN o /\ (o \o p)[j] = o[j] /\ (o \o p)[l] = o[l]
          BY SMT, <1>14, <1>16, <2>2, <2>6, <3>1
        <4> QED
          BY <2>5, <2>6, <4>1
      <3>2. CASE j <= Len(o) /\ ~(l <= Len(o))
        <4>1. j \in DOMAIN o /\ (o \o p)[j] = o[j] /\ (o \o p)[l] = <<t, l - Len(o)>>
          <5>1. j \in 1..Len(o) /\ l > Len(o)
            BY SMT, <1>14, <1>16, <3>2
          <5>2. ~(j > Len(o)) /\ ~(l <= Len(o))
            BY SMT, <1>14, <5>1, <3>2
          <5> QED
            BY <2>4, <5>2
        <4>2. o[j][1] \in Nat /\ o[j][1] <= Passed(n)
          BY <1>14, <2>5, <4>1
        <4>3. o[j][1] < t
          BY SMT, <1>1, <1>4, <4>2
        <4> QED
          BY SMT, <4>1, <4>3 DEF Earlier
      <3>3. CASE ~(j <= Len(o))
        <4>1. (o \o p)[j] = <<t, j - Len(o)>> /\ (o \o p)[l] = <<t, l - Len(o)>>
          <5>1. ~(j <= Len(o)) /\ ~(l <= Len(o))
            BY SMT, <1>14, <1>16, <2>6, <3>3
          <5> QED
            BY <2>4, <5>1
        <4>2. j - Len(o) < l - Len(o)
          BY SMT, <1>14, <1>16, <2>6
        <4> QED
          BY SMT, <4>1, <4>2 DEF Earlier
      <3> QED
        BY <1>14, <1>16, <2>6, <3>1, <3>2, <3>3
    <2>7. ASSUME NEW j \in 1..(Len(o) + Len(p))
          PROVE  /\ (o \o p)[j][1] <= Passed(n)'
                 /\ ty = "RECEIVE" => mem[n][(o \o p)[j]] = NoRequest
      <3>1. CASE j \in DOMAIN o /\ (o \o p)[j] = o[j]
        BY SMT, <1>4, <1>7, <1>14, <2>5, <3>1
      <3>2. CASE (o \o p)[j] = <<t, j - Len(o)>> /\ j - Len(o) \in 1..Len(p)
        <4>1. t <= Passed(n)' /\ ~(t <= Passed(n)) /\ t \in Nat
          BY SMT, <1>1, <1>4, <1>7
        <4>2. (o \o p)[j] \in Typed(n, ty)
          BY <2>2, EntryOfSeq
        <4>3. (o \o p)[j] \in Requests(n) /\ (o \o p)[j][1] = t
          BY SMT, <3>2, <4>2, TypedForm
        <4>4. mem[n][(o \o p)[j]] = NoRequest
          BY <1>3, <4>1, <4>3 DEF MemoryOK
        <4> QED
          BY <4>1, <4>3, <4>4
      <3> QED
        BY <2>4, <3>1, <3>2
    <2>8. ASSUME NEW j \in DOMAIN done'[n][ty], done'[n][ty][j].ok
          PROVE  Delivered(n, done[n][ty][j].req)'
      <3>1. Delivered(n, d[j].req)
        BY <1>14, <2>1, <2>8 DEF WorkOK, d
      <3> QED
        BY <1>1, <2>1, <3>1 DEF Delivered
    <2>9. WorkOK(n, ty)'
      <3>1. Depth(n, ty)' <= MaxWr
        BY <1>2, <2>3
      <3>2. DOMAIN outstanding'[n][ty] = 1..(Len(o) + Len(p)) /\ mem' = mem
        BY <1>1, <2>1, <2>2
      <3> QED
        BY <2>1, <2>6, <2>7, <2>8, <3>1, <3>2 DEF WorkOK
    <2> QED
      BY <1>14, <2>1, <2>2, <2>3, <2>9
  <1>19. /\ outstanding'[n][ty] \in Seq(Typed(n, ty))
         /\ done'[n][ty] \in Seq(C)
         /\ Depth(n, ty)' = Depth(n, ty) + Len(p)
         /\ WorkOK(n, ty)'
    BY <1>17, <1>18
  <1>20. ValueTypes'
    <2>1. /\ DOMAIN outstanding' = Nodes /\ DOMAIN done' = Nodes
          /\ \A k \in Nodes : DOMAIN outstanding'[k] = Types /\ DOMAIN done'[k] = Types
      <3>1. ty \in Types
        BY <1>1
      <3>2. CASE broken
        BY <1>2, <1>4, <3>1, <3>2, EntryChanged
      <3>3. CASE ~broken
        BY <1>2, <1>4, <3>1, <3>3, EntryChanged
      <3> QED
        BY <3>2, <3>3
    <2>2. ASSUME NEW k \in Nodes, NEW type \in Types
          PROVE  /\ outstanding'[k][type] \in Seq(Typed(k, type))
                 /\ done'[k][type] \in Seq([req : Typed(k, type), ok : BOOLEAN])
      <3>1. /\ outstanding[k][type] \in Seq(Typed(k, type))
            /\ done[k][type] \in Seq([req : Typed(k, type), ok : BOOLEAN])
        BY <1>3, NodeTypes
      <3>2. CASE k = n /\ type = ty
        BY <1>19, <3>2 DEF C
      <3>3. CASE k # n \/ type # ty
        BY <1>13, <3>1, <3>3, Zenon
      <3> QED
        BY <3>2, <3>3
    <2>3. \A k \in Nodes : status'[k] \in [Requests(k) -> {"PENDING", "SUCCESS", "FAILED"}]
      <3> TAKE k \in Nodes
      <3>1. status[k] \in [Requests(k) -> {"PENDING", "SUCCESS", "FAILED"}]
        BY <1>3, NodeTypes
      <3>2. CASE k # n
        BY <1>1, <3>1, <3>2
      <3>3. CASE k = n
        BY SMT, <1>1, <1>2, <3>1, <3>3
      <3> QED
        BY <3>2, <3>3
    <2> QED
      BY <1>1, <1>3, <1>5, <1>6, <2>1, <2>2, <2>3 DEF ValueTypes
  <1>21. TasksInv'
    BY <1>10, <1>12, <1>13, <1>19, <1>20 DEF TasksInv
  <1>22. Len(p) \in 0..count /\ (~PostMayFail => Len(p) = count)
    BY SMT, <1>1, <1>2, <1>16
  <1> QED
    BY <1>7, <1>9, <1>13, <1>19, <1>21, <1>22 DEF count

\* The oldest request of a queue pair completes.
LEMMA Completed ==
    ASSUME ValueTypes, NEW k \in Nodes, NEW type \in Types, WorkOK(k, type),
           outstanding[k][type] # <<>>, NEW h, h = Head(outstanding[k][type]),
           outstanding'[k][type] = Tail(outstanding[k][type]),
           done'[k][type] = Append(done[k][type], Completion(h, TRUE)),
           Delivered(k, h)', \A r \in Typed(k, type) : Delivered(k, r) => Delivered(k, r)',
           Passed(k)' = Passed(k),
           type = "RECEIVE" => \A r \in Requests(k) : r # h => mem'[k][r] = mem[k][r]
    PROVE  /\ outstanding'[k][type] \in Seq(Typed(k, type))
           /\ done'[k][type] \in Seq([req : Typed(k, type), ok : BOOLEAN])
           /\ Depth(k, type)' = Depth(k, type)
           /\ WorkOK(k, type)'
  <1> DEFINE o == outstanding[k][type]
             d == done[k][type]
             C == [req : Typed(k, type), ok : BOOLEAN]
             c == Completion(h, TRUE)
  <1>1. /\ o \in Seq(Typed(k, type)) /\ o # <<>> /\ d \in Seq(C)
        /\ \A j \in DOMAIN o : o[j] \in Typed(k, type) /\ o[j] \in Requests(k)
    BY NodeTypes
  <1>2. /\ Tail(o) \in Seq(Typed(k, type)) /\ Len(Tail(o)) = Len(o) - 1
        /\ DOMAIN Tail(o) = 1..(Len(o) - 1)
        /\ \A j \in 1..(Len(o) - 1) : Tail(o)[j] = o[j + 1]
        /\ h \in Typed(k, type) /\ h = o[1]
        /\ Len(o) \in Nat \ {0} /\ DOMAIN o = 1..Len(o)
    <2> HIDE DEF o
    <2>1. o \in Seq(Typed(k, type)) /\ o # <<>>
      BY <1>1
    <2>2. h = Head(o)
      BY DEF o
    <2> QED
      BY SMT, <2>1, <2>2, Shortened
  <1>3. c \in C /\ c.req = h
    BY <1>2 DEF Completion
  <1>4. /\ Append(d, c) \in Seq(C) /\ Len(Append(d, c)) = Len(d) + 1
        /\ DOMAIN Append(d, c) = 1..(Len(d) + 1)
        /\ \A j \in 1..Len(d) : Append(d, c)[j] = d[j]
        /\ Append(d, c)[Len(d) + 1] = c /\ Len(d) \in Nat /\ DOMAIN d = 1..Len(d)
    <2> HIDE DEF d, c, C
    <2>1. d \in Seq(C) /\ c \in C
      BY <1>1, <1>3
    <2> QED
      BY SMT, <2>1, Extended
  <1>5. outstanding'[k][type] = Tail(o) /\ done'[k][type] = Append(d, c)
    OBVIOUS
  <1>6. Depth(k, type)' = Depth(k, type)
    <2>1. Depth(k, type)' = (Len(o) - 1) + (Len(d) + 1) /\ Depth(k, type) = Len(o) + Len(d)
      BY <1>2, <1>4, <1>5 DEF Depth
    <2> HIDE DEF o, d
    <2> QED
      BY SMT, <1>2, <1>4, <2>1
  <1>7. /\ \A i, j \in DOMAIN o : i < j => Earlier(o[i], o[j])
        /\ \A j \in DOMAIN o : /\ o[j][1] <= Passed(k)
                               /\ type = "RECEIVE" => mem[k][o[j]] = NoRequest
        /\ \A j \in DOMAIN d : d[j].ok => Delivered(k, d[j].req)
        /\ Depth(k, type) <= MaxWr
    BY DEF WorkOK
  <1>8. \A j \in DOMAIN d : d[j].req \in Typed(k, type)
    <2> HIDE DEF d
    <2>1. \A j \in 1..Len(d) : d[j] \in C
      BY <1>1, EntryOfSeq
    <2> QED
      BY <1>4, <2>1
  <1> HIDE DEF o, d, c
  <1>9. \A j \in DOMAIN Tail(o) : j \in Nat /\ j + 1 \in DOMAIN o /\ Tail(o)[j] = o[j + 1] /\ 1 < j + 1
    BY SMT, <1>2
  <1>10. 1 \in DOMAIN o
    BY SMT, <1>2
  <1>11. ASSUME NEW j \in DOMAIN Tail(o)
         PROVE  /\ Tail(o)[j][1] <= Passed(k)
                /\ type = "RECEIVE" => mem'[k][Tail(o)[j]] = NoRequest
    <2>1. Earlier(h, o[j + 1]) /\ h \in Requests(k) /\ o[j + 1] \in Requests(k)
      BY SMT, <1>1, <1>2, <1>7, <1>9, <1>10
    <2>2. o[j + 1] # h
      BY <2>1, EarlierOrder
    <2> QED
      BY SMT, <1>7, <1>9, <2>1, <2>2
  <1>12. ASSUME NEW i \in DOMAIN Tail(o), NEW j \in DOMAIN Tail(o), i < j
         PROVE  Earlier(Tail(o)[i], Tail(o)[j])
    <2>1. i + 1 < j + 1
      BY SMT, <1>9, <1>12
    <2> QED
      BY <1>7, <1>9, <2>1
  <1>13. ASSUME NEW j \in DOMAIN done'[k][type], done'[k][type][j].ok
         PROVE  Delivered(k, done[k][type][j].req)'
    <2>1. CASE j \in 1..Len(d)
      <3>1. done'[k][type][j] = d[j] /\ j \in DOMAIN d
        BY <1>4, <1>5, <2>1
      <3>2. Delivered(k, d[j].req) /\ d[j].req \in Typed(k, type)
        BY <1>7, <1>8, <1>13, <3>1
      <3> QED
        BY <3>1, <3>2 DEF Delivered
    <2>2. CASE j = Len(d) + 1
      <3>1. done'[k][type][j].req = h
        BY <1>3, <1>4, <1>5, <2>2
      <3> QED
        BY <3>1 DEF Delivered
    <2>3. j \in 1..(Len(d) + 1)
      BY <1>4, <1>5
    <2>4. j \in 1..Len(d) \/ j = Len(d) + 1
      BY SMT, <1>4, <2>3
    <2> QED
      BY <2>1, <2>2, <2>4
  <1>14. WorkOK(k, type)'
    BY <1>5, <1>6, <1>7, <1>11, <1>12, <1>13 DEF WorkOK
  <1> QED
    BY <1>2, <1>4, <1>5, <1>6, <1>14 DEF C

\* What Transfer does: send request x of node n meets receive request y of node m.
Moves(n, m, x, y) ==
    /\ m \in Nodes /\ m # n /\ Peer(m) = n /\ \A k \in Nodes : k = n \/ k = m
    /\ outstanding[n]["SEND"] # <<>> /\ outstanding[m]["RECEIVE"] # <<>>
    /\ x \in Typed(n, "SEND") /\ y \in Typed(m, "RECEIVE")
    /\ x # NoRequest /\ mem[m][y] = NoRequest
    /\ x[1] <= Passed(n) /\ y[1] <= Passed(m)
    /\ DOMAIN mem' = Nodes
    /\ \A k \in Nodes : /\ DOMAIN mem'[k] = Requests(k)
                        /\ \A r \in Requests(k) :
                              mem'[k][r] = IF k = m /\ r = y THEN x ELSE mem[k][r]
    /\ DOMAIN outstanding' = Nodes /\ DOMAIN done' = Nodes
    /\ \A k \in Nodes : DOMAIN outstanding'[k] = Types /\ DOMAIN done'[k] = Types
    /\ outstanding'[n]["SEND"] = Tail(outstanding[n]["SEND"])
    /\ outstanding'[m]["RECEIVE"] = Tail(outstanding[m]["RECEIVE"])
    /\ done'[n]["SEND"] = Append(done[n]["SEND"], Completion(x, TRUE))
    /\ done'[m]["RECEIVE"] = Append(done[m]["RECEIVE"], Completion(y, TRUE))
    /\ \A k \in Nodes, type \in Types :
          ~(k = n /\ type = "SEND") /\ ~(k = m /\ type = "RECEIVE") =>
              outstanding'[k][type] = outstanding[k][type] /\ done'[k][type] = done[k][type]
    /\ UNCHANGED <<worker, issued, pending, held, inflight, status, freed, broken>>

LEMMA TransferEffect ==
    ASSUME TasksInv, NEW n \in Nodes, Transfer(n), NEW m, m = Peer(n),
           NEW x, x = Head(outstanding[n]["SEND"]), NEW y, y = Head(outstanding[m]["RECEIVE"])
    PROVE  Moves(n, m, x, y)
  <1> DEFINE s == outstanding[n]["SEND"]
             o == outstanding[m]["RECEIVE"]
  <1>1. m \in Nodes /\ m # n /\ Peer(m) = n /\ \A k \in Nodes : k = n \/ k = m
    BY Peers
  <1>2. /\ s # <<>> /\ o # <<>>
        /\ mem' = [mem EXCEPT ![m][y] = x]
        /\ outstanding' = [outstanding EXCEPT ![n]["SEND"] = Tail(s), ![m]["RECEIVE"] = Tail(o)]
        /\ done' = [done EXCEPT ![n]["SEND"] = Append(@, Completion(x, TRUE)),
                                ![m]["RECEIVE"] = Append(@, Completion(y, TRUE))]
        /\ UNCHANGED <<worker, issued, pending, held, inflight, status, freed, broken>>
    BY DEF Transfer
  <1>3. "SEND" \in Types /\ "RECEIVE" \in Types
    BY DEF Types
  <1>4. /\ ValueTypes /\ WorkOK(n, "SEND") /\ WorkOK(m, "RECEIVE")
    BY <1>1, <1>3 DEF TasksInv
  <1>5. s \in Seq(Typed(n, "SEND")) /\ o \in Seq(Typed(m, "RECEIVE"))
    BY <1>1, <1>3, <1>4, NodeTypes
  <1>6. /\ x \in Typed(n, "SEND") /\ x = s[1] /\ 1 \in DOMAIN s
        /\ y \in Typed(m, "RECEIVE") /\ y = o[1] /\ 1 \in DOMAIN o
    <2>1. x = Head(s) /\ y = Head(o)
      OBVIOUS
    <2>2. s # <<>> /\ o # <<>>
      BY <1>2
    <2> HIDE DEF s, o
    <2>3. Head(s) \in Typed(n, "SEND") /\ Head(s) = s[1] /\ Len(s) \in Nat \ {0} /\ DOMAIN s = 1..Len(s)
      BY <1>5, <2>2, Shortened
    <2>4. Head(o) \in Typed(m, "RECEIVE") /\ Head(o) = o[1] /\ Len(o) \in Nat \ {0} /\ DOMAIN o = 1..Len(o)
      BY <1>5, <2>2, Shortened
    <2> QED
      BY SMT, <2>1, <2>3, <2>4
  <1>7. x # NoRequest /\ x \in Requests(n) /\ y \in Requests(m)
    BY <1>1, <1>6, TypedForm, RequestForm
  <1>8. mem[m][y] = NoRequest /\ x[1] <= Passed(n) /\ y[1] <= Passed(m)
    BY <1>4, <1>6 DEF WorkOK
  <1>9. /\ DOMAIN mem = Nodes /\ DOMAIN outstanding = Nodes /\ DOMAIN done = Nodes
        /\ \A k \in Nodes : /\ DOMAIN mem[k] = Requests(k)
                            /\ DOMAIN outstanding[k] = Types /\ DOMAIN done[k] = Types
    BY <1>4 DEF ValueTypes
  <1>10. /\ DOMAIN mem' = Nodes
         /\ \A k \in Nodes : /\ DOMAIN mem'[k] = Requests(k)
                             /\ \A q \in Requests(k) :
                                   mem'[k][q] = IF k = m /\ q = y THEN x ELSE mem[k][q]
    BY <1>1, <1>2, <1>7, <1>9
  <1>11. /\ DOMAIN outstanding' = Nodes
         /\ \A k \in Nodes : DOMAIN outstanding'[k] = Types
         /\ outstanding'[n]["SEND"] = Tail(s) /\ outstanding'[m]["RECEIVE"] = Tail(o)
         /\ \A k \in Nodes, type \in Types :
               ~(k = n /\ type = "SEND") /\ ~(k = m /\ type = "RECEIVE") =>
                   outstanding'[k][type] = outstanding[k][type]
    <2>1. outstanding' = [[outstanding EXCEPT ![n]["SEND"] = Tail(s)] EXCEPT ![m]["RECEIVE"] = Tail(o)]
      BY <1>2
    <2> DEFINE f == [outstanding EXCEPT ![n]["SEND"] = Tail(s)]
    <2>2. /\ DOMAIN f = Nodes /\ \A k \in Nodes : DOMAIN f[k] = Types
          /\ f[n]["SEND"] = Tail(s)
          /\ \A k \in Nodes, type \in Types :
                k # n \/ type # "SEND" => f[k][type] = outstanding[k][type]
      <3> HIDE DEF s
      <3> QED
        BY <1>3, <1>9, EntryChanged
    <2>3. outstanding' = [f EXCEPT ![m]["RECEIVE"] = Tail(o)]
      BY <2>1
    <2> HIDE DEF f, s, o
    <2>4. /\ DOMAIN outstanding' = Nodes
          /\ \A k \in Nodes : DOMAIN outstanding'[k] = Types
          /\ outstanding'[m]["RECEIVE"] = Tail(o)
          /\ \A k \in Nodes, type \in Types :
                k # m \/ type # "RECEIVE" => outstanding'[k][type] = f[k][type]
      BY SMT, <1>1, <1>3, <2>2, <2>3, EntryChanged
    <2> QED
      BY SMT, <1>1, <1>3, <2>2, <2>4
  <1>12. /\ DOMAIN done' = Nodes
         /\ \A k \in Nodes : DOMAIN done'[k] = Types
         /\ done'[n]["SEND"] = Append(done[n]["SEND"], Completion(x, TRUE))
         /\ done'[m]["RECEIVE"] = Append(done[m]["RECEIVE"], Completion(y, TRUE))
         /\ \A k \in Nodes, type \in Types :
               ~(k = n /\ type = "SEND") /\ ~(k = m /\ type = "RECEIVE") =>
                   done'[k][type] = done[k][type]
    <2> DEFINE p == Append(done[n]["SEND"], Completion(x, TRUE))
               f == [done EXCEPT ![n]["SEND"] = p]
               q == Append(f[m]["RECEIVE"], Completion(y, TRUE))
    <2>1. /\ DOMAIN f = Nodes /\ \A k \in Nodes : DOMAIN f[k] = Types
          /\ f[n]["SEND"] = p
          /\ \A k \in Nodes, type \in Types :
                k # n \/ type # "SEND" => f[k][type] = done[k][type]
      <3> HIDE DEF p
      <3> QED
        BY <1>3, <1>9, EntryChanged
    <2>2. done' = [f EXCEPT ![m]["RECEIVE"] = q]
      BY <1>2
    <2>3. q = Append(done[m]["RECEIVE"], Completion(y, TRUE))
      BY <1>1, <1>3, <2>1
    <2> HIDE DEF f, p, q
    <2>4. /\ DOMAIN done' = Nodes
          /\ \A k \in Nodes : DOMAIN done'[k] = Types
          /\ done'[m]["RECEIVE"] = q
          /\ \A k \in Nodes, type \in Types :
                k # m \/ type # "RECEIVE" => done'[k][type] = f[k][type]
      BY SMT, <1>1, <1>3, <2>1, <2>2, EntryChanged
    <2>5. done'[n]["SEND"] = p
      BY <1>1, <1>3, <2>1, <2>4
    <2> QED
      BY SMT, <1>1, <1>3, <2>1, <2>3, <2>4, <2>5 DEF p
  <1>13. \A k \in Nodes, type \in Types :
            ~(k = n /\ type = "SEND") /\ ~(k = m /\ type = "RECEIVE") =>
                outstanding'[k][type] = outstanding[k][type] /\ done'[k][type] = done[k][type]
    BY <1>11, <1>12
  <1> QED
    BY <1>1, <1>2, <1>6, <1>7, <1>8, <1>10, <1>11, <1>12, <1>13, Zenon DEF Moves

LEMMA TransferInv ==
    ASSUME TasksInv, NEW n \in Nodes, Transfer(n)
    PROVE  /\ TasksInv'
           /\ \A k \in Nodes, type \in Types : Depth(k, type)' = Depth(k, type)
           /\ \A k \in Nodes : Passed(k)' = Passed(k)
           /\ \A k \in Nodes : \A r \in Requests(k) : Delivered(k, r) => Delivered(k, r)'
  <1>1. PICK m, x, y : /\ m = Peer(n) /\ x = Head(outstanding[n]["SEND"])
                       /\ y = Head(outstanding[m]["RECEIVE"])
    OBVIOUS
  <1>0. Moves(n, m, x, y)
    BY <1>1, TransferEffect
  <1>2. /\ m \in Nodes /\ m # n /\ Peer(m) = n /\ \A k \in Nodes : k = n \/ k = m
        /\ outstanding[n]["SEND"] # <<>> /\ outstanding[m]["RECEIVE"] # <<>>
        /\ x \in Typed(n, "SEND") /\ y \in Typed(m, "RECEIVE")
        /\ x # NoRequest /\ mem[m][y] = NoRequest
        /\ y[1] <= Passed(m)
        /\ DOMAIN mem' = Nodes
        /\ \A k \in Nodes : /\ DOMAIN mem'[k] = Requests(k)
                            /\ \A r \in Requests(k) :
                                  mem'[k][r] = IF k = m /\ r = y THEN x ELSE mem[k][r]
        /\ DOMAIN outstanding' = Nodes /\ DOMAIN done' = Nodes
        /\ \A k \in Nodes : DOMAIN outstanding'[k] = Types /\ DOMAIN done'[k] = Types
        /\ outstanding'[n]["SEND"] = Tail(outstanding[n]["SEND"])
        /\ outstanding'[m]["RECEIVE"] = Tail(outstanding[m]["RECEIVE"])
        /\ done'[n]["SEND"] = Append(done[n]["SEND"], Completion(x, TRUE))
        /\ done'[m]["RECEIVE"] = Append(done[m]["RECEIVE"], Completion(y, TRUE))
        /\ \A k \in Nodes, type \in Types :
              ~(k = n /\ type = "SEND") /\ ~(k = m /\ type = "RECEIVE") =>
                  outstanding'[k][type] = outstanding[k][type] /\ done'[k][type] = done[k][type]
        /\ UNCHANGED <<worker, issued, pending, held, inflight, status, freed, broken>>
    BY <1>0 DEF Moves
  <1>3. ValueTypes /\ "SEND" \in Types /\ "RECEIVE" \in Types
    BY DEF TasksInv, Types
  <1>4. \A k \in Nodes : /\ QueueOK(k)' /\ Passed(k)' = Passed(k)
                         /\ Passed(k)' \in Int /\ Passed(k)' >= Passed(k)
    BY <1>2, QueueKept
  <1>5. x \in Requests(n) /\ y \in Requests(m) /\ Type(n, x[1]) = "SEND" /\ Type(m, y[1]) = "RECEIVE"
    BY SMT, <1>2, TypedForm
  <1>6. Delivered(n, x)' /\ Delivered(m, y)'
    <2>1. mem'[m][y] = x
      BY <1>2, <1>5
    <2> QED
      BY <1>1, <1>2, <1>5, <2>1 DEF Delivered
  <1>7. ASSUME NEW k \in Nodes, NEW r \in Requests(k), Delivered(k, r)
        PROVE  Delivered(k, r)'
    <2>1. r # NoRequest
      BY RequestForm
    <2>2. CASE Type(k, r[1]) = "SEND"
      <3>1. PICK q \in Requests(Peer(k)) : mem[Peer(k)][q] = r
        BY <1>7, <2>2 DEF Delivered
      <3>2. Peer(k) \in Nodes
        BY Peers
      <3>3. mem'[Peer(k)][q] = r
        BY <1>2, <2>1, <3>1, <3>2
      <3> QED
        BY <2>2, <3>1, <3>3 DEF Delivered
    <2>3. CASE Type(k, r[1]) # "SEND"
      <3>1. mem[k][r] # NoRequest
        BY <1>7, <2>3 DEF Delivered
      <3>2. mem'[k][r] # NoRequest
        BY <1>2, <3>1
      <3> QED
        BY <2>3, <3>2 DEF Delivered
    <2> QED
      BY <2>2, <2>3
  <1>8. \A k \in Nodes, type \in Types : \A r \in Typed(k, type) : Delivered(k, r) => Delivered(k, r)'
    BY <1>7, TypedForm
  <1>9. ASSUME NEW k \in Nodes, NEW type \in Types
        PROVE  /\ outstanding'[k][type] \in Seq(Typed(k, type))
               /\ done'[k][type] \in Seq([req : Typed(k, type), ok : BOOLEAN])
               /\ Depth(k, type)' = Depth(k, type)
               /\ WorkOK(k, type)'
    <2>1. WorkOK(k, type)
      BY DEF TasksInv
    <2>2. CASE k = n /\ type = "SEND"
      <3>1. /\ outstanding[k][type] # <<>> /\ x = Head(outstanding[k][type])
            /\ outstanding'[k][type] = Tail(outstanding[k][type])
            /\ done'[k][type] = Append(done[k][type], Completion(x, TRUE))
            /\ Delivered(k, x)' /\ Passed(k)' = Passed(k) /\ type # "RECEIVE"
            /\ \A r \in Typed(k, type) : Delivered(k, r) => Delivered(k, r)'
        BY <1>1, <1>2, <1>4, <1>6, <1>8, <2>2
      <3> QED
        BY <1>3, <2>1, <3>1, Completed
    <2>3. CASE k = m /\ type = "RECEIVE"
      <3>1. /\ outstanding[k][type] # <<>> /\ y = Head(outstanding[k][type])
            /\ outstanding'[k][type] = Tail(outstanding[k][type])
            /\ done'[k][type] = Append(done[k][type], Completion(y, TRUE))
            /\ Delivered(k, y)' /\ Passed(k)' = Passed(k)
            /\ \A r \in Requests(k) : r # y => mem'[k][r] = mem[k][r]
            /\ \A r \in Typed(k, type) : Delivered(k, r) => Delivered(k, r)'
        BY <1>1, <1>2, <1>4, <1>6, <1>8, <2>3
      <3> QED
        BY <1>3, <2>1, <3>1, Completed
    <2>4. CASE ~(k = n /\ type = "SEND") /\ ~(k = m /\ type = "RECEIVE")
      <3>1. outstanding'[k][type] = outstanding[k][type] /\ done'[k][type] = done[k][type]
        BY <1>2, <2>4
      <3>2. Depth(k, type)' = Depth(k, type)
        BY <3>1 DEF Depth
      <3>3. ASSUME type = "RECEIVE", NEW i \in DOMAIN outstanding[k][type]
            PROVE  mem'[k][outstanding[k][type][i]] = mem[k][outstanding[k][type][i]]
        <4>1. outstanding[k][type][i] \in Requests(k)
          BY <1>3, NodeTypes
        <4>2. k # m
          BY <2>4, <3>3
        <4> QED
          BY <1>2, <4>1, <4>2
      <3>4. WorkOK(k, type)'
        BY <1>3, <1>4, <1>8, <2>1, <3>1, <3>3, WorkKept
      <3>5. /\ outstanding[k][type] \in Seq(Typed(k, type))
            /\ done[k][type] \in Seq([req : Typed(k, type), ok : BOOLEAN])
        BY <1>3, NodeTypes
      <3> QED
        BY <3>1, <3>2, <3>4, <3>5
    <2> QED
      BY <2>2, <2>3, <2>4
  <1>10. ASSUME NEW k \in Nodes
         PROVE  MemoryOK(k)'
    <2>1. MemoryOK(k)
      BY DEF TasksInv
    <2>2. ASSUME NEW r \in Requests(k), mem'[k][r] # NoRequest
          PROVE  /\ Type(k, r[1]) = "RECEIVE"
                 /\ r[1] <= Passed(k)
                 /\ mem'[k][r] \in Typed(Peer(k), "SEND")
      <3>1. CASE k = m /\ r = y
        BY <1>2, <1>5, <3>1
      <3>2. CASE ~(k = m /\ r = y)
        BY <1>2, <2>1, <2>2, <3>2 DEF MemoryOK
      <3> QED
        BY <3>1, <3>2
    <2>3. \A r \in Requests(k) : status'[k][r] = "SUCCESS" => Delivered(k, r)'
      BY <1>2, <1>7, <2>1 DEF MemoryOK
    <2> QED
      BY <1>4, <2>2, <2>3 DEF MemoryOK
  <1>11. ValueTypes'
    BY <1>2, <1>3, <1>9 DEF ValueTypes
  <1>12. TasksInv'
    BY <1>4, <1>9, <1>10, <1>11 DEF TasksInv
  <1> QED
    BY <1>4, <1>7, <1>9, <1>12

LEMMA FreeTaskInv ==
    ASSUME TasksInv, NEW n \in Nodes, NEW t \in DOMAIN Program[n], FreeTask(n, t)
    PROVE  TasksInv' /\ \A k \in Nodes : Passed(k)' = Passed(k)
  <1>1. UNCHANGED <<worker, issued, pending, held, inflight, status, outstanding, done, mem, broken>>
    BY DEF FreeTask
  <1>2. \A k \in Nodes : /\ QueueOK(k)' /\ Passed(k)' = Passed(k)
                         /\ Passed(k)' \in Int /\ Passed(k)' >= Passed(k)
    BY <1>1, QueueKept
  <1>3. ValueTypes
    BY DEF TasksInv
  <1> QED
    BY <1>1, <1>2, <1>3, QuietStep DEF ValueTypes

LEMMA TasksStep == TasksInv /\ [Next]_vars => TasksInv'
  <1> SUFFICES ASSUME TasksInv, [Next]_vars
               PROVE  TasksInv'
    OBVIOUS
  <1>1. ASSUME NEW n \in Nodes, Submit(n)
        PROVE  TasksInv'
    BY <1>1, SubmitInv
  <1>2. ASSUME NEW n \in Nodes, WorkerNext(n)
        PROVE  TasksInv'
    <2>1. CASE TakeTask(n)
      BY <2>1, TakeTaskInv
    <2>2. CASE PostTask(n)
      BY <2>2, PostTaskInv
    <2>3. CASE DropTask(n)
      BY <2>3, DropTaskInv
    <2>4. ASSUME NEW type \in Types, Poll(n, type)
          PROVE  TasksInv'
      BY <2>4, PollInv
    <2> QED
      BY <1>2, <2>1, <2>2, <2>3, <2>4 DEF WorkerNext
  <1>3. ASSUME NEW n \in Nodes, Transfer(n)
        PROVE  TasksInv'
    BY <1>3, TransferInv
  <1>4. ASSUME NEW n \in Nodes, NEW t \in DOMAIN Program[n], FreeTask(n, t)
        PROVE  TasksInv'
    BY <1>4, FreeTaskInv
  <1>5. CASE Break
    BY <1>5, BreakInv
  <1>6. CASE UNCHANGED vars
    <2>1. UNCHANGED <<worker, issued, pending, held, inflight, status, outstanding, done, mem, broken>>
      BY <1>6 DEF vars
    <2>2. \A k \in Nodes : QueueOK(k)' /\ Passed(k)' >= Passed(k)
      BY <2>1, QueueKept
    <2>3. ValueTypes
      BY DEF TasksInv
    <2> QED
      BY <2>1, <2>2, <2>3, QuietStep DEF ValueTypes
  <1> QED
    BY <1>1, <1>2, <1>3, <1>4, <1>5, <1>6 DEF Next

\* TasksInv is inductive: in every execution of two nodes a request is posted at
\* most once and in order, no queue pair holds more than max_wr_per_qp requests, a
\* buffer is written only by a request of the other side, and a completion that
\* reports success stands for a transfer.
THEOREM TasksInvariant == Spec => []TasksInv
  <1>1. TasksInv /\ UNCHANGED vars => TasksInv'
    BY TasksStep
  <1> QED
    BY TasksInitial, TasksStep, PTL DEF Spec

\* getStatus reports a task SUCCESS only when each of its buffers was delivered,
\* whatever the programs of the two nodes, with or without worker threads, failing
\* posts and a connection that breaks.
THEOREM SuccessIsDelivery == Spec => []SuccessMeansDelivered
  <1>1. TasksInv => SuccessMeansDelivered
    <2> SUFFICES ASSUME TasksInv, NEW n \in Nodes, NEW t \in 1..issued[n],
                        Status(n, t) = "SUCCESS", NEW r \in RequestsOf(n, t)
                 PROVE  Delivered(n, r)
      BY DEF SuccessMeansDelivered
    <2>1. ValueTypes /\ QueueOK(n) /\ MemoryOK(n)
      BY DEF TasksInv
    <2>2. issued[n] \in Nat /\ issued[n] <= Len(Program[n]) /\ Len(Program[n]) \in Nat
      BY <2>1, NodeTypes, Tasks DEF QueueOK
    <2>3. t \in 1..Len(Program[n])
      BY SMT, <2>2
    <2>4. r \in Requests(n)
      BY <2>3, Tasks DEF Requests
    <2>5. status[n][r] \in {"PENDING", "SUCCESS", "FAILED"}
      BY <2>1, <2>4, NodeTypes
    <2>6. status[n][r] # "PENDING" /\ status[n][r] # "FAILED"
      BY DEF Status
    <2> QED
      BY <2>1, <2>4, <2>5, <2>6 DEF MemoryOK
  <1> QED
    BY <1>1, TasksInvariant, PTL
=============================================================================
