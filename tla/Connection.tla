----------------------------- MODULE Connection -----------------------------
(***************************************************************************)
(* Connection set-up of the UD protocols: RapidTransfer::send with its     *)
(* implicit handshake, SessionManager, and the tables of Controller that   *)
(* lead from a peer name or the source address of a packet to a session.   *)
(*                                                                         *)
(* A node is one RapidTransfer instance; its queue pairs give it one       *)
(* address for all its peers, so a node stands for its own address.  A     *)
(* node that connects to m calls it m; a node that accepts a connection    *)
(* calls its peer "server/k", here the number k.  A session is the node id *)
(* (session / 256): the applications use session 0 of each node only.      *)
(***************************************************************************)
EXTENDS Integers, FiniteSets

CONSTANTS
    Nodes,          \* instances
    Threads,        \* application threads
    Home,           \* Home[t]: the instance that thread t uses
    Links,          \* pairs <<n, m>> such that the application of n sends to m
    RequestMayFail, \* the handshake may fail before the peer has accepted it
    ReplyMayFail,   \* the handshake may fail after the peer has accepted it
    SendMayFail,    \* the packet pool may have no packet for the new session
    MaxAccepts,     \* bound: handshakes that one node accepts
    MaxIds          \* bound: node ids that one node gives out

ASSUME ConnectionAssumption ==
    /\ Nodes \cap Int = {} /\ "none" \notin Nodes
    /\ Home \in [Threads -> Nodes]
    /\ Links \subseteq Nodes \X Nodes
    /\ \A l \in Links : l[1] # l[2]
    /\ {RequestMayFail, ReplyMayFail, SendMayFail} \subseteq BOOLEAN
    /\ {MaxAccepts, MaxIds} \subseteq Nat

ServerNames == 0..(MaxAccepts - 1)
Names == Nodes \cup ServerNames
Ids == 0..(MaxIds - 1)
NoId == -1
NoName == -1
NoNode == "none"

VARIABLES
    sessions,       \* SessionManager::sessions_
    uid,            \* SessionManager::uid_
    nextId,         \* next_node_id_
    nodeIds,        \* node_id_map_: the id of a source address
    peerNames,      \* peer_name_map_: the id of a name
    revNames,       \* peer_name_rev_map_: the name of an id
    endpoints,      \* the peer of each connected endpoint
    active,         \* keys of active_session_map_
    pc,             \* where each thread is in RapidTransfer::send
    peer            \* the peer that it sends to

tables == <<nextId, nodeIds, peerNames, revNames, endpoints>>
vars == <<sessions, uid, tables, active, pc, peer>>

Init ==
    /\ sessions = [n \in Nodes |-> {}]
    /\ uid = [n \in Nodes |-> 0]
    /\ nextId = [n \in Nodes |-> 0]
    /\ nodeIds = [n \in Nodes |-> [m \in Nodes |-> NoId]]
    /\ peerNames = [n \in Nodes |-> [name \in Names |-> NoId]]
    /\ revNames = [n \in Nodes |-> [id \in Ids |-> NoName]]
    /\ endpoints = [n \in Nodes |-> [name \in Names |-> NoNode]]
    /\ active = [n \in Nodes |-> {}]
    /\ pc = [t \in Threads |-> "idle"]
    /\ peer = [t \in Threads |-> NoNode]

\* Variant: the reverse table is left out.
SetupWithoutReverse(n, name, m) ==
    /\ nextId[n] < MaxIds
    /\ nextId' = [nextId EXCEPT ![n] = @ + 1]
    /\ nodeIds' = [nodeIds EXCEPT ![n][m] = nextId[n]]
    /\ peerNames' = [peerNames EXCEPT ![n][name] = nextId[n]]
    /\ endpoints' = [endpoints EXCEPT ![n][name] = m]
    /\ UNCHANGED revNames

(***************************************************************************)
(* Controller::setupConnection and registerNode, at n, for the peer m      *)
(* under the given name.  A connected endpoint is kept; the node id is     *)
(* always a new one.                                                       *)
(***************************************************************************)
SetupConnection(n, name, m) ==
    /\ nextId[n] < MaxIds
    /\ endpoints' = [endpoints EXCEPT ![n][name] = IF @ = NoNode THEN m ELSE @]
    /\ nextId' = [nextId EXCEPT ![n] = @ + 1]
    /\ nodeIds' = [nodeIds EXCEPT ![n][m] = nextId[n]]
    /\ peerNames' = [peerNames EXCEPT ![n][name] = nextId[n]]
    /\ revNames' = [revNames EXCEPT ![n][nextId[n]] = name]

\* findSession by name: NoId is its -1.
FindSession(n, name) == peerNames[n][name]

Goto(t, label) == pc' = [pc EXCEPT ![t] = label]

\* RapidTransfer::send up to the handshake.
StartSend(t, m) ==
    /\ pc[t] = "idle"
    /\ <<Home[t], m>> \in Links
    /\ peer' = [peer EXCEPT ![t] = m]
    /\ Goto(t, IF m \in sessions[Home[t]] THEN "send" ELSE "connect")
    /\ UNCHANGED <<sessions, uid, tables, active>>

\* SessionManager::connect returns an error; the peer did not see the request, or
\* its on_accept failed after it had taken a number.
RequestFails(t) ==
    LET m == peer[t]
    IN  /\ pc[t] = "connect"
        /\ RequestMayFail
        /\ \/ UNCHANGED uid
           \/ uid[m] < MaxAccepts /\ uid' = [uid EXCEPT ![m] = @ + 1]
        /\ Goto(t, "idle")
        /\ UNCHANGED <<sessions, tables, active, peer>>

\* Variant: the accepting side does not set up its end.
AcceptOnly(t) ==
    LET m == peer[t]
    IN  /\ pc[t] = "connect"
        /\ uid[m] < MaxAccepts
        /\ uid' = [uid EXCEPT ![m] = @ + 1]
        /\ Goto(t, "insert")
        /\ UNCHANGED <<sessions, tables, active, peer>>

\* exchangeMetadata and on_accept, on the listener thread of the peer.
Accept(t) ==
    LET m == peer[t]
    IN  /\ pc[t] = "connect"
        /\ uid[m] < MaxAccepts
        /\ uid' = [uid EXCEPT ![m] = @ + 1]
        /\ SetupConnection(m, uid[m], Home[t])
        /\ Goto(t, "insert")
        /\ UNCHANGED <<sessions, active, peer>>

\* The reply is lost, or the caller cannot set up its end and disconnects: the
\* peer has a connection and the caller has none.
ReplyFails(t) ==
    /\ ReplyMayFail
    /\ \/ pc[t] = "insert" /\ UNCHANGED sessions
       \/ pc[t] = "setup" /\ sessions' = [sessions EXCEPT ![Home[t]] = @ \ {peer[t]}]
    /\ Goto(t, "idle")
    /\ UNCHANGED <<uid, tables, active, peer>>

\* The end of SessionManager::connect.
Insert(t) ==
    /\ pc[t] = "insert"
    /\ sessions' = [sessions EXCEPT ![Home[t]] = @ \cup {peer[t]}]
    /\ Goto(t, "setup")
    /\ UNCHANGED <<uid, tables, active, peer>>

\* The end of makeConnectionIfNeeded.
Setup(t) ==
    /\ pc[t] = "setup"
    /\ SetupConnection(Home[t], peer[t], peer[t])
    /\ Goto(t, "send")
    /\ UNCHANGED <<sessions, uid, active, peer>>

\* Context::send finds the session and activates it.
Send(t) ==
    LET id == FindSession(Home[t], peer[t])
    IN  /\ pc[t] = "send"
        /\ id # NoId
        /\ active' = [active EXCEPT ![Home[t]] = @ \cup {id}]
        /\ Goto(t, "idle")
        /\ UNCHANGED <<sessions, uid, tables, peer>>

\* Context::send fails and the connection is forgotten.  Without a packet the
\* entry of the session stays in active_session_map_.
SendFails(t) ==
    LET n == Home[t]
        id == FindSession(n, peer[t])
    IN  /\ pc[t] = "send"
        /\ \/ id = NoId /\ UNCHANGED active
           \/ /\ id # NoId /\ id \notin active[n] /\ SendMayFail
              /\ active' = [active EXCEPT ![n] = @ \cup {id}]
        /\ sessions' = [sessions EXCEPT ![n] = @ \ {peer[t]}]
        /\ Goto(t, "idle")
        /\ UNCHANGED <<uid, tables, peer>>

\* Context::receive, for a name that the listener has announced.
Receive(n, name) ==
    /\ FindSession(n, name) \notin active[n] \cup {NoId}
    /\ active' = [active EXCEPT ![n] = @ \cup {FindSession(n, name)}]
    /\ UNCHANGED <<sessions, uid, tables, pc, peer>>

Next ==
    \/ \E t \in Threads :
          \/ \E m \in Nodes : StartSend(t, m)
          \/ RequestFails(t) \/ Accept(t) \/ ReplyFails(t)
          \/ Insert(t) \/ Setup(t) \/ Send(t) \/ SendFails(t)
    \/ \E n \in Nodes, name \in ServerNames : Receive(n, name)

Spec == Init /\ [][Next]_vars

(***************************************************************************)
(* Properties.                                                             *)
(***************************************************************************)

\* Names, node ids and endpoints in the tables of SessionManager and Controller are
\* ones that were given out.
TypeOK ==
    /\ sessions \in [Nodes -> SUBSET Nodes]
    /\ uid \in [Nodes -> 0..MaxAccepts]
    /\ nextId \in [Nodes -> 0..MaxIds]
    /\ nodeIds \in [Nodes -> [Nodes -> Ids \cup {NoId}]]
    /\ peerNames \in [Nodes -> [Names -> Ids \cup {NoId}]]
    /\ revNames \in [Nodes -> [Ids -> Names \cup {NoName}]]
    /\ endpoints \in [Nodes -> [Names -> Nodes \cup {NoNode}]]
    /\ active \in [Nodes -> SUBSET Ids]
    /\ pc \in [Threads -> {"idle", "connect", "insert", "setup", "send"}]
    /\ peer \in [Threads -> Nodes \cup {NoNode}]

\* m has a session and an endpoint for n.
Knows(m, n) ==
    /\ nodeIds[m][n] # NoId
    /\ \E name \in ServerNames : endpoints[m][name] = n

\* A node that can address a peer by name is known to that peer: the listener has
\* an endpoint for it and a session for its packets before the first one is sent.
PeerIsReady ==
    \A n, m \in Nodes : FindSession(n, m) # NoId => Knows(m, n)

\* The session that findSession gives to a packet leads back to its sender: the
\* acknowledgement goes through an endpoint whose peer is the source of the packet.
AnswersReachSender ==
    \A n, m \in Nodes : nodeIds[n][m] # NoId =>
        LET name == revNames[n][nodeIds[n][m]]
        IN  name # NoName /\ endpoints[n][name] = m

(***************************************************************************)
(* The inductive invariant of the tables: ids and server names are used in *)
(* the order of their counters, the endpoint under the name of a node      *)
(* leads to that node, and a handshake that has reached its second half    *)
(* has been accepted.                                                      *)
(***************************************************************************)
TablesInv ==
    /\ TypeOK
    /\ \A t \in Threads : pc[t] # "idle" => peer[t] \in Nodes
    /\ \A n, m \in Nodes : nodeIds[n][m] < nextId[n]
    /\ \A n \in Nodes, k \in ServerNames : uid[n] <= k => endpoints[n][k] = NoNode
    /\ \A n, m \in Nodes : endpoints[n][m] \in {NoNode, m}
    /\ \A t \in Threads : pc[t] \in {"insert", "setup"} => Knows(peer[t], Home[t])
    /\ PeerIsReady
    /\ AnswersReachSender

\* The peer of an active session.
PeerOf(n, id) == endpoints[n][revNames[n][id]]

\* Every active session receives the packets of its peer: no other session has
\* taken over the address.
AllRouted ==
    \A n \in Nodes : \A id \in active[n] : nodeIds[n][PeerOf(n, id)] = id

\* A send that has found or made a connection has a session.
SendsFindSession ==
    \A t \in Threads : pc[t] = "send" => FindSession(Home[t], peer[t]) # NoId
=============================================================================
