---------------------------- MODULE GroupTables ----------------------------
(***************************************************************************)
(* The tables of Controller with multicast groups.  All instances use one  *)
(* of the two UD protocols.  With rdma_unreliable they behave as in        *)
(* Connection.  With rdma_unreliable_mcast an application joins groups and *)
(* names the replicas of a group, which connects to each of them; the      *)
(* handshake tells the peer, in ext_qp, the queue pairs of the groups that *)
(* the caller has joined by then.                                          *)
(*                                                                         *)
(* A group that is joined gets a node id and new queue pairs, so the pair  *)
(* of a node and the id stands for their address.  Group data is looked up *)
(* by that address at the replica; its acknowledgement comes from the      *)
(* replica's own queue pair and is redirected to a group by the name of    *)
(* the replica.  What then happens in the queues is the subject of         *)
(* Multicast.                                                              *)
(***************************************************************************)
EXTENDS Connection, Sequences

CONSTANTS
    Groups,     \* multicast addresses
    Lists,      \* Lists[n]: the replica lists that the application of n gives
    JoinFirst,  \* the application joins its groups before it connects
    JoinIds     \* bound: groups are joined while fewer ids are given out

ASSUME GroupTablesAssumption ==
    /\ Lists \in [Nodes -> SUBSET (Seq(Nodes) \ {<< >>})]
    /\ JoinFirst \in BOOLEAN
    /\ JoinIds \in [Nodes -> 0..MaxIds]

VARIABLES
    protocol,   \* the protocol of all instances
    contextId,  \* groupId() of each entry of multicast_context_map_
    replicas,   \* its replicas()
    extIds,     \* node_id_map_: the id of a group's queue pairs
    call        \* what each thread in setMulticastReplicas works on

groupTables == <<contextId, replicas, extIds>>
groupVars == <<protocol, groupTables, call>>

(***************************************************************************)
(* A call sets the replicas of the group to the list; it has still to      *)
(* connect to the rest.  request and response are the queue pairs of       *)
(* groups in the attributes of the handshake under way.                    *)
(***************************************************************************)
NoCall == [group |-> NoNode, list |-> << >>, rest |-> << >>,
           request |-> {}, response |-> {}]

GroupTablesInit ==
    /\ Init
    /\ protocol \in {"unreliable", "mcast"}
    /\ contextId = [n \in Nodes |-> [g \in Groups |-> NoId]]
    /\ replicas = [n \in Nodes |-> [g \in Groups |-> << >>]]
    /\ extIds = [n \in Nodes |-> [m \in Nodes |-> [id \in Ids |-> NoId]]]
    /\ call = [t \in Threads |-> NoCall]

\* The queue pairs that prepareConnection adds for the groups of n.
GroupQps(n) == {contextId[n][g] : g \in Groups} \ {NoId}

\* registerNode at n for the listed queue pairs of m.
RegisterQps(n, m, qps) ==
    extIds' = [extIds EXCEPT ![n][m] =
                  [id \in Ids |-> IF id \in qps THEN nextId[n] ELSE @[id]]]

\* joinMulticast.  The id is used up even when the construction fails.
JoinMulticast(n, g) ==
    /\ contextId[n][g] = NoId
    /\ nextId[n] < JoinIds[n]
    /\ JoinFirst => /\ sessions[n] = {}
                    /\ \A t \in Threads : Home[t] = n => pc[t] = "idle"
    /\ nextId' = [nextId EXCEPT ![n] = @ + 1]
    /\ \/ UNCHANGED contextId
       \/ contextId' = [contextId EXCEPT ![n][g] = nextId[n]]
    /\ UNCHANGED <<sessions, uid, nodeIds, peerNames, revNames, endpoints, active,
                   pc, peer, protocol, replicas, extIds, call>>

\* leaveMulticast.  The tables of ids keep what they know of the group.
LeaveMulticast(n, g) ==
    /\ contextId[n][g] # NoId
    /\ contextId' = [contextId EXCEPT ![n][g] = NoId]
    /\ replicas' = [replicas EXCEPT ![n][g] = << >>]
    /\ UNCHANGED <<vars, protocol, extIds, call>>

(***************************************************************************)
(* RapidTransfer::setMulticastReplicas.                                    *)
(***************************************************************************)

\* makeConnectionIfNeeded of the next name of the call k.
ConnectNext(t, k) ==
    LET m == Head(k.rest)
        left == [k EXCEPT !.rest = Tail(@)]
    IN  /\ peer' = [peer EXCEPT ![t] = m]
        /\ IF m \in sessions[Home[t]]
           THEN Goto(t, "send") /\ call' = [call EXCEPT ![t] = left]
           ELSE /\ Goto(t, "connect")
                /\ call' = [call EXCEPT ![t] = [left EXCEPT !.request = GroupQps(Home[t])]]
        /\ UNCHANGED <<sessions, uid, tables, active, protocol, groupTables>>

SetReplicas(t, g, names) ==
    /\ pc[t] = "idle"
    /\ ConnectNext(t, [NoCall EXCEPT !.group = g, !.list = names, !.rest = names])

\* A name is connected; the next one follows.
NextReplica(t) ==
    /\ pc[t] = "send" /\ call[t].rest # << >>
    /\ ConnectNext(t, call[t])

\* ContextMcast::setMulticastReplicas.  It fails when the group is not joined.
StoreReplicas(t) ==
    LET n == Home[t]
        g == call[t].group
    IN  /\ pc[t] = "send" /\ call[t].rest = << >>
        /\ replicas' = IF contextId[n][g] = NoId THEN replicas
                       ELSE [replicas EXCEPT ![n][g] = call[t].list]
        /\ Goto(t, "idle")
        /\ call' = [call EXCEPT ![t] = NoCall]
        /\ UNCHANGED <<sessions, uid, tables, active, peer, protocol, contextId, extIds>>

\* Variant: the listener registers the queue pairs of the endpoint only.
AcceptEndpointOnly(t) ==
    /\ Accept(t)
    /\ call' = [call EXCEPT ![t].response = GroupQps(peer[t])]
    /\ UNCHANGED <<protocol, groupTables>>

\* on_accept: the response is prepared, then the caller is registered.
AcceptGroups(t) ==
    /\ Accept(t)
    /\ call' = [call EXCEPT ![t].response = GroupQps(peer[t])]
    /\ RegisterQps(peer[t], Home[t], call[t].request)
    /\ UNCHANGED <<protocol, contextId, replicas>>

\* The end of SessionManager::connect.
InsertGroups(t) ==
    /\ Insert(t)
    /\ UNCHANGED groupVars

\* The end of makeConnectionIfNeeded: the peer is registered.
SetupGroups(t) ==
    /\ Setup(t)
    /\ RegisterQps(Home[t], peer[t], call[t].response)
    /\ call' = [call EXCEPT ![t].request = {}, ![t].response = {}]
    /\ UNCHANGED <<protocol, contextId, replicas>>

\* The handshake fails, and with it the call.
ConnectFails(t) ==
    /\ RequestFails(t) \/ ReplyFails(t)
    /\ call' = [call EXCEPT ![t] = NoCall]
    /\ UNCHANGED <<protocol, groupTables>>

GroupTablesNext ==
    \/ protocol = "unreliable" /\ Next /\ UNCHANGED groupVars
    \/ /\ protocol = "mcast"
       /\ \/ \E n \in Nodes, g \in Groups : JoinMulticast(n, g) \/ LeaveMulticast(n, g)
          \/ \E t \in Threads :
                \/ \E g \in Groups : \E names \in Lists[Home[t]] : SetReplicas(t, g, names)
                \/ NextReplica(t) \/ StoreReplicas(t)
                \/ AcceptGroups(t) \/ InsertGroups(t) \/ SetupGroups(t) \/ ConnectFails(t)

GroupTablesSpec == GroupTablesInit /\ [][GroupTablesNext]_<<vars, groupVars>>

(***************************************************************************)
(* Properties.                                                             *)
(***************************************************************************)

\* The id that processReceivedPacket at m gives to data that n sends to the group g:
\* the one of the sender's queue pair or else the one of the group at m itself.
DataId(m, n, g) ==
    LET id == extIds[m][n][contextId[n][g]]
    IN  IF id = NoId THEN contextId[m][g] ELSE id

\* redirectMulticast for an acknowledgement of the node id: the possible results, as
\* the hash table may be walked in any order.
Redirect(n, id) ==
    LET found == UNION {{<<g, i>> : i \in {j \in DOMAIN replicas[n][g] :
                                            replicas[n][g][j] = revNames[n][id]}} :
                        g \in Groups}
    IN  IF found = {} THEN {<<id, 0>>} ELSE {<<contextId[n][f[1]], f[2]>> : f \in found}

\* Data of n to its i-th replica of g is answered to n, and n counts the answer for
\* that replica of that group.  It drops the answer while another thread has not
\* finished the handshake.
AnswerReturns(n, g, i) ==
    LET m    == replicas[n][g][i]
        name == revNames[m][DataId(m, n, g)]
    IN  contextId[m][g] # NoId =>
            /\ name # NoName /\ endpoints[m][name] = n
            /\ \/ nodeIds[n][m] = NoId
               \/ Redirect(n, nodeIds[n][m]) = {<<contextId[n][g], i>>}

\* When processReceivedPacket of a replica looks up group data and redirectMulticast
\* at the sender looks up the acknowledgement, each finds the queue the other one
\* means, however often handshakes failed and were repeated and groups were left and
\* joined, unless the replica has itself connected to the sender.
GroupAnswersReturn ==
    \A n \in Nodes, g \in Groups : \A i \in DOMAIN replicas[n][g] :
        (\A name \in ServerNames : endpoints[n][name] # replicas[n][g][i])
            => AnswerReturns(n, g, i)

(***************************************************************************)
(* The inductive invariant of the group tables, for applications that join *)
(* before they connect.  A replica that has been reached knows the queue   *)
(* pairs of all groups that the sender is in; the replicas of a group know *)
(* those of that group, also when the sender joins another group later.    *)
(***************************************************************************)

Calls == [group : Groups \cup {NoNode}, list : Seq(Nodes), rest : Seq(Nodes),
          request : SUBSET Ids, response : SUBSET Ids]

\* The tables of groups hold ids, and calls work on lists of nodes.
GroupTypeOK ==
    /\ protocol \in {"unreliable", "mcast"}
    /\ contextId \in [Nodes -> [Groups -> Ids \cup {NoId}]]
    /\ replicas \in [Nodes -> [Groups -> Seq(Nodes)]]
    /\ extIds \in [Nodes -> [Nodes -> [Ids -> Ids \cup {NoId}]]]
    /\ call \in [Threads -> Calls]

\* m knows the queue pairs of the group g of n.
Registered(n, m, g) == contextId[n][g] # NoId => extIds[m][n][contextId[n][g]] # NoId

Reached(n, m) == \A g \in Groups : Registered(n, m, g)

\* m has given out the id, for a session with n.
Leads(m, id, n) ==
    /\ id < nextId[m]
    /\ revNames[m][id] # NoName
    /\ endpoints[m][revNames[m][id]] = n

\* The id that m has for a queue pair of n leads to n.
ExtIdsLead ==
    \A m, n \in Nodes : \A q \in Ids :
        extIds[m][n][q] # NoId => Leads(m, extIds[m][n][q], n)

\* What the thread t has reached so far.
CallOK(t) ==
    LET n == Home[t]
        k == call[t]
    IN  /\ k.list \in Lists[n] \cup {<< >>}
        /\ pc[t] \in {"insert", "setup"} => Reached(n, peer[t])
        /\ protocol = "mcast" /\ pc[t] # "idle" =>
              /\ k.group \in Groups
              /\ pc[t] = "connect" => GroupQps(n) \subseteq k.request
              /\ \A i \in DOMAIN k.list :
                    \/ \E j \in DOMAIN k.rest : k.rest[j] = k.list[i]
                    \/ pc[t] = "connect" /\ k.list[i] = peer[t]
                    \/ Reached(n, k.list[i])

ReplicasOK(n, g) ==
    /\ replicas[n][g] \in Lists[n] \cup {<< >>}
    /\ replicas[n][g] # << >> => contextId[n][g] # NoId
    /\ \A i \in DOMAIN replicas[n][g] : Registered(n, replicas[n][g][i], g)

GroupTablesInv ==
    /\ TablesInv
    /\ GroupTypeOK
    /\ protocol = "unreliable" => \A n \in Nodes, g \in Groups : contextId[n][g] = NoId
    /\ ExtIdsLead
    /\ \A n \in Nodes : \A m \in sessions[n] : Reached(n, m)
    /\ \A t \in Threads : CallOK(t)
    /\ \A n \in Nodes, g \in Groups : ReplicasOK(n, g)

\* An application that joins before it connects and names a node once, as a replica
\* of one group: redirectMulticast looks for the name in the lists of all groups.
UnambiguousReplicas ==
    /\ JoinFirst
    /\ \A n \in Nodes : \A l \in Lists[n] : \A i, j \in DOMAIN l : l[i] = l[j] => i = j
    /\ \A g, h \in Groups : g = h

\* The same without the exception: a replica that connects to the sender is known to
\* it by another name, and its acknowledgements are not redirected.
EveryAnswerReturns ==
    \A n \in Nodes, g \in Groups : \A i \in DOMAIN replicas[n][g] :
        AnswerReturns(n, g, i)
=============================================================================
