------------------------- MODULE GroupTablesProofs --------------------------
(***************************************************************************)
(* The tables of Controller stay consistent, for any number of nodes,      *)
(* threads, names and groups, whatever handshakes fail and however the     *)
(* threads of a node interleave.                                           *)
(***************************************************************************)
EXTENDS GroupTables, TLAPS

USE Zenon

\* Types of the constants, and the names and ids that stand for none.
LEMMA TableTypes ==
    /\ MaxIds \in Nat /\ MaxAccepts \in Nat
    /\ \A t \in Threads : Home[t] \in Nodes
    /\ NoNode \notin Nodes /\ NoName \notin Names /\ NoId \notin Ids
    /\ \A k \in ServerNames : k \in Nat /\ k \notin Nodes /\ k < MaxAccepts
    /\ \A k \in Nat : k < MaxAccepts => k \in ServerNames
    /\ \A id \in Ids : id \in Nat
    /\ \A k \in Nat : k < MaxIds => k \in Ids
    /\ Nodes \subseteq Names /\ ServerNames \subseteq Names
    /\ \A x \in Names : x \in Nodes \/ x \in ServerNames
  <1>1. MaxIds \in Nat /\ MaxAccepts \in Nat
    BY ConnectionAssumption
  <1>2. \A k \in ServerNames : k \in Nat /\ k < MaxAccepts
    BY SMT, <1>1 DEF ServerNames
  <1>3. \A k \in Int : k \notin Nodes
    BY ConnectionAssumption
  <1>4. NoNode \notin Nodes /\ \A t \in Threads : Home[t] \in Nodes
    BY ConnectionAssumption DEF NoNode
  <1>5. NoName \in Int /\ NoName \notin ServerNames
    BY SMT, <1>1 DEF NoName, ServerNames
  <1>6. NoId \notin Ids /\ (\A id \in Ids : id \in Nat) /\ (\A k \in Nat : k < MaxIds => k \in Ids)
    BY SMT, <1>1 DEF NoId, Ids
  <1>7. \A k \in Nat : k < MaxAccepts => k \in ServerNames
    BY SMT, <1>1 DEF ServerNames
  <1> QED
    BY SMT, <1>1, <1>2, <1>3, <1>4, <1>5, <1>6, <1>7 DEF Names

\* The tables only grow: an id keeps its name, a name its endpoint, and an address
\* that has an id always has one.
TablesGrow ==
    /\ \A n \in Nodes : nextId[n] <= nextId'[n]
    /\ \A n, m \in Nodes : nodeIds[n][m] # NoId => nodeIds'[n][m] # NoId
    /\ \A n \in Nodes, x \in Names : endpoints[n][x] # NoNode => endpoints'[n][x] = endpoints[n][x]
    /\ \A n \in Nodes, id \in Ids : id < nextId[n] => revNames'[n][id] = revNames[n][id]

LEMMA KnowsStays ==
    ASSUME TablesGrow, NEW m \in Nodes, NEW n \in Nodes, Knows(m, n)
    PROVE  nodeIds'[m][n] # NoId /\ \E name \in ServerNames : endpoints'[m][name] = n
  BY SMT, TableTypes DEF TablesGrow, Knows

\* The types of single entries of the tables of the groups.
LEMMA EntryTypes ==
    ASSUME GroupTypeOK
    PROVE  /\ \A m, n \in Nodes : \A q \in Ids : extIds[m][n][q] \in Ids \cup {NoId}
           /\ \A n \in Nodes, g \in Groups :
                 /\ contextId[n][g] \in Ids \cup {NoId}
                 /\ \A i \in DOMAIN replicas[n][g] :
                       replicas[n][g][i] \in Nodes /\ replicas[n][g] # << >>
  <1>1. \A m, n \in Nodes : \A q \in Ids : extIds[m][n][q] \in Ids \cup {NoId}
    BY SMT DEF GroupTypeOK
  <1>2. \A n \in Nodes, g \in Groups : contextId[n][g] \in Ids \cup {NoId}
    BY SMT DEF GroupTypeOK
  <1>3. \A n \in Nodes, g \in Groups : \A i \in DOMAIN replicas[n][g] :
            replicas[n][g][i] \in Nodes /\ replicas[n][g] # << >>
    BY SMT DEF GroupTypeOK
  <1> QED
    BY <1>1, <1>2, <1>3

\* The types of single entries of the tables of the nodes.
LEMMA NodeEntryTypes ==
    ASSUME TypeOK
    PROVE  /\ \A n \in Nodes : nextId[n] \in Nat
           /\ \A n, m \in Nodes : nodeIds[n][m] \in Ids \cup {NoId}
           /\ \A n \in Nodes, id \in Ids : revNames[n][id] \in Names \cup {NoName}
  <1>1. \A n \in Nodes : nextId[n] \in Nat
    BY SMT DEF TypeOK
  <1>2. \A n, m \in Nodes : nodeIds[n][m] \in Ids \cup {NoId}
    BY SMT DEF TypeOK
  <1>3. \A n \in Nodes, id \in Ids : revNames[n][id] \in Names \cup {NoName}
    BY SMT DEF TypeOK
  <1> QED
    BY <1>1, <1>2, <1>3

\* Leads and ExtIdsLead after a step.
LeadsNext(m, id, n) ==
    id < nextId'[m] /\ revNames'[m][id] # NoName /\ endpoints'[m][revNames'[m][id]] = n

LEMMA ExtIdsLeadNext ==
    ASSUME \A m, n \in Nodes : \A q \in Ids :
              extIds'[m][n][q] # NoId => LeadsNext(m, extIds'[m][n][q], n)
    PROVE  ExtIdsLead'
  BY SMT DEF ExtIdsLead, Leads, LeadsNext

\* An id that leads to a node still does when the tables grow.
LEMMA LeadStays ==
    ASSUME TablesInv, TablesInv', TablesGrow,
           NEW m \in Nodes, NEW n \in Nodes, NEW id \in Ids, Leads(m, id, n)
    PROVE  LeadsNext(m, id, n)
  <1>1. id < nextId[m] /\ revNames[m][id] \in Names /\ endpoints[m][revNames[m][id]] = n
    BY NodeEntryTypes DEF TablesInv, Leads
  <1>2. endpoints[m][revNames[m][id]] # NoNode
    BY <1>1, TableTypes
  <1>3. revNames'[m][id] = revNames[m][id]
    BY <1>1 DEF TablesGrow
  <1>4. endpoints'[m][revNames[m][id]] = n
    BY <1>1, <1>2 DEF TablesGrow
  <1>5. nextId[m] <= nextId'[m]
    BY DEF TablesGrow
  <1>6. nextId[m] \in Nat
    BY NodeEntryTypes DEF TablesInv
  <1>7. nextId'[m] \in Nat
    BY SMT DEF TablesInv, TypeOK
  <1>8. id \in Nat
    BY TableTypes
  <1>9. id < nextId'[m]
    BY SMT, <1>1, <1>5, <1>6, <1>7, <1>8
  <1> QED
    BY <1>1, <1>3, <1>4, <1>9, TableTypes DEF LeadsNext

\* So does the id that m has for a queue pair of n.
LEMMA ExtIdStays ==
    ASSUME TablesInv, TablesInv', TablesGrow, GroupTypeOK, ExtIdsLead,
           NEW m \in Nodes, NEW n \in Nodes, NEW q \in Ids, extIds[m][n][q] # NoId
    PROVE  LeadsNext(m, extIds[m][n][q], n)
  <1>1. extIds[m][n][q] \in Ids
    BY EntryTypes
  <1>2. Leads(m, extIds[m][n][q], n)
    BY DEF ExtIdsLead
  <1> QED
    BY <1>1, <1>2, LeadStays

\* What setupConnection and registerNode write.
LEMMA SetupEffect ==
    ASSUME TypeOK, NEW n \in Nodes, NEW name \in Names, NEW m \in Nodes,
           SetupConnection(n, name, m), endpoints[n][name] \in {NoNode, m}
    PROVE  /\ nextId[n] \in Ids /\ nextId'[n] = nextId[n] + 1
           /\ nextId' \in [Nodes -> 0..MaxIds]
           /\ nodeIds' \in [Nodes -> [Nodes -> Ids \cup {NoId}]]
           /\ peerNames' \in [Nodes -> [Names -> Ids \cup {NoId}]]
           /\ revNames' \in [Nodes -> [Ids -> Names \cup {NoName}]]
           /\ endpoints' \in [Nodes -> [Names -> Nodes \cup {NoNode}]]
           /\ nodeIds'[n][m] = nextId[n]
           /\ revNames'[n][nextId[n]] = name
           /\ endpoints'[n][name] = m
           /\ \A p \in Nodes \ {m} : nodeIds'[n][p] = nodeIds[n][p]
           /\ \A x \in Names \ {name} : /\ endpoints'[n][x] = endpoints[n][x]
                                        /\ peerNames'[n][x] = peerNames[n][x]
           /\ \A id \in Ids \ {nextId[n]} : revNames'[n][id] = revNames[n][id]
           /\ \A o \in Nodes \ {n} :
                 /\ nextId'[o] = nextId[o] /\ nodeIds'[o] = nodeIds[o]
                 /\ peerNames'[o] = peerNames[o] /\ revNames'[o] = revNames[o]
                 /\ endpoints'[o] = endpoints[o]
  <1>1. /\ nextId[n] < MaxIds
        /\ nextId \in [Nodes -> 0..MaxIds]
        /\ nodeIds \in [Nodes -> [Nodes -> Ids \cup {NoId}]]
        /\ peerNames \in [Nodes -> [Names -> Ids \cup {NoId}]]
        /\ revNames \in [Nodes -> [Ids -> Names \cup {NoName}]]
        /\ endpoints \in [Nodes -> [Names -> Nodes \cup {NoNode}]]
    BY DEF SetupConnection, TypeOK
  <1>2. nextId[n] \in Ids /\ nextId[n] + 1 \in 0..MaxIds
    BY SMT, <1>1, TableTypes
  <1>3. nextId' = [nextId EXCEPT ![n] = nextId[n] + 1]
    BY DEF SetupConnection
  <1>4. nodeIds' = [nodeIds EXCEPT ![n] = [nodeIds[n] EXCEPT ![m] = nextId[n]]]
    BY DEF SetupConnection
  <1>5. peerNames' = [peerNames EXCEPT ![n] = [peerNames[n] EXCEPT ![name] = nextId[n]]]
    BY DEF SetupConnection
  <1>6. revNames' = [revNames EXCEPT ![n] = [revNames[n] EXCEPT ![nextId[n]] = name]]
    BY DEF SetupConnection
  <1>7. endpoints' = [endpoints EXCEPT ![n] = [endpoints[n] EXCEPT ![name] = m]]
    BY <1>1 DEF SetupConnection
  <1> QED
    BY <1>1, <1>2, <1>3, <1>4, <1>5, <1>6, <1>7

LEMMA SetupGrows ==
    ASSUME TablesInv, NEW n \in Nodes, NEW name \in Names, NEW m \in Nodes,
           SetupConnection(n, name, m), endpoints[n][name] \in {NoNode, m}
    PROVE  TablesGrow
  <1>0. TypeOK
    BY DEF TablesInv
  <1>1. \A o \in Nodes : nextId[o] \in Nat
    BY SMT, <1>0 DEF TypeOK
  <1>2. /\ nextId[n] \in Ids /\ nextId'[n] = nextId[n] + 1
        /\ nodeIds'[n][m] = nextId[n]
        /\ endpoints'[n][name] = m
        /\ \A p \in Nodes \ {m} : nodeIds'[n][p] = nodeIds[n][p]
        /\ \A x \in Names \ {name} : endpoints'[n][x] = endpoints[n][x]
        /\ \A id \in Ids \ {nextId[n]} : revNames'[n][id] = revNames[n][id]
        /\ \A o \in Nodes \ {n} :
              /\ nextId'[o] = nextId[o] /\ nodeIds'[o] = nodeIds[o]
              /\ revNames'[o] = revNames[o] /\ endpoints'[o] = endpoints[o]
    BY SMT, <1>0, SetupEffect
  <1>3. ASSUME NEW o \in Nodes
        PROVE  /\ nextId[o] <= nextId'[o]
               /\ \A p \in Nodes : nodeIds[o][p] # NoId => nodeIds'[o][p] # NoId
               /\ \A x \in Names : endpoints[o][x] # NoNode => endpoints'[o][x] = endpoints[o][x]
               /\ \A id \in Ids : id < nextId[o] => revNames'[o][id] = revNames[o][id]
    <2>1. CASE o = n
      <3>1. nextId[o] <= nextId'[o]
        BY SMT, <1>1, <1>2, <2>1
      <3>2. \A p \in Nodes : nodeIds[o][p] # NoId => nodeIds'[o][p] # NoId
        BY SMT, <1>2, <2>1, TableTypes
      <3>3. \A x \in Names : endpoints[o][x] # NoNode => endpoints'[o][x] = endpoints[o][x]
        BY <1>2, <2>1
      <3>4. \A id \in Ids : id < nextId[o] => id # nextId[n]
        BY SMT, <1>1, <2>1, TableTypes
      <3> QED
        BY <1>2, <2>1, <3>1, <3>2, <3>3, <3>4
    <2>2. CASE o # n
      BY SMT, <1>1, <1>2, <2>2
    <2> QED
      BY <2>1, <2>2
  <1> QED
    BY <1>3 DEF TablesGrow

\* The answers to a peer still reach it after the set-up of another connection, or
\* of a new one to the same peer.
LEMMA SetupAnswers ==
    ASSUME TablesInv, NEW n \in Nodes, NEW name \in Names, NEW m \in Nodes,
           SetupConnection(n, name, m), endpoints[n][name] \in {NoNode, m}
    PROVE  /\ AnswersReachSender'
           /\ \A o, p \in Nodes : nodeIds'[o][p] < nextId'[o]
  <1>0. TypeOK /\ TablesGrow
    BY SetupGrows DEF TablesInv
  <1> SUFFICES ASSUME NEW o \in Nodes, NEW p \in Nodes
               PROVE  /\ nodeIds'[o][p] < nextId'[o]
                      /\ nodeIds'[o][p] # NoId =>
                            LET x == revNames'[o][nodeIds'[o][p]]
                            IN  x # NoName /\ endpoints'[o][x] = p
    BY DEF AnswersReachSender
  <1>1. /\ nodeIds[o][p] \in Ids \cup {NoId} /\ nodeIds[o][p] < nextId[o]
        /\ nextId[o] \in Nat
        /\ \A id \in Ids : revNames[o][id] \in Names \cup {NoName}
    BY SMT DEF TablesInv, TypeOK
  <1>2. CASE o = n /\ p = m
    <2>1. /\ nodeIds'[o][p] = nextId[n] /\ nextId'[o] = nextId[n] + 1
          /\ revNames'[o][nextId[n]] = name /\ endpoints'[o][name] = p
      BY SMT, <1>0, <1>2, SetupEffect
    <2> QED
      BY SMT, <1>1, <1>2, <2>1, TableTypes
  <1>3. CASE ~(o = n /\ p = m)
    <2>1. nodeIds'[o][p] = nodeIds[o][p] /\ nextId[o] <= nextId'[o] /\ nextId'[o] \in Nat
      BY SMT, <1>0, <1>1, <1>3, SetupEffect DEF TablesGrow
    <2>2. nodeIds[o][p] \in Int
      BY SMT, <1>1, TableTypes DEF NoId
    <2>3. nodeIds'[o][p] < nextId'[o]
      BY SMT, <1>1, <2>1, <2>2
    <2>4. ASSUME nodeIds'[o][p] # NoId
          PROVE  LET x == revNames'[o][nodeIds'[o][p]]
                 IN  x # NoName /\ endpoints'[o][x] = p
      <3> DEFINE id == nodeIds[o][p]
                 x == revNames[o][id]
      <3>1. id \in Ids /\ id < nextId[o] /\ x # NoName /\ endpoints[o][x] = p
        BY <1>1, <2>1, <2>4 DEF TablesInv, AnswersReachSender
      <3>2. revNames'[o][id] = x /\ x \in Names
        BY <1>0, <1>1, <3>1 DEF TablesGrow
      <3>3. endpoints'[o][x] = p
        BY SMT, <1>0, <3>1, <3>2, TableTypes DEF TablesGrow
      <3> QED
        BY <2>1, <3>1, <3>2, <3>3
    <2> QED
      BY <2>3, <2>4
  <1> QED
    BY <1>2, <1>3

\* The threads' part of the types.
ThreadTypes ==
    /\ sessions \in [Nodes -> SUBSET Nodes]
    /\ uid \in [Nodes -> 0..MaxAccepts]
    /\ active \in [Nodes -> SUBSET Ids]
    /\ pc \in [Threads -> {"idle", "connect", "insert", "setup", "send"}]
    /\ peer \in [Threads -> Nodes \cup {NoNode}]
    /\ \A t \in Threads : pc[t] # "idle" => peer[t] \in Nodes

\* Steps that leave the tables alone, or only use up an id.
LEMMA TablesKept ==
    ASSUME TablesInv, UNCHANGED <<nodeIds, peerNames, revNames, endpoints>>,
           nextId' \in [Nodes -> 0..MaxIds], \A n \in Nodes : nextId[n] <= nextId'[n],
           ThreadTypes', \A n \in Nodes : uid[n] <= uid'[n],
           \A t \in Threads : pc'[t] \in {"insert", "setup"} => Knows(peer'[t], Home[t])
    PROVE  TablesInv' /\ TablesGrow
  <1>1. /\ \A n, m \in Nodes : nodeIds[n][m] \in Int
        /\ \A n \in Nodes : nextId[n] \in Nat /\ nextId'[n] \in Nat /\ uid[n] \in Nat /\ uid'[n] \in Nat
    <2>1. \A n, m \in Nodes : nodeIds[n][m] \in Ids \cup {NoId}
      BY SMT DEF TablesInv, TypeOK
    <2>2. \A n \in Nodes : nextId[n] \in 0..MaxIds /\ nextId'[n] \in 0..MaxIds
                           /\ uid[n] \in 0..MaxAccepts /\ uid'[n] \in 0..MaxAccepts
      BY DEF TablesInv, TypeOK, ThreadTypes
    <2> QED
      BY SMT, <2>1, <2>2, TableTypes DEF NoId
  <1>2. TypeOK'
    BY DEF TablesInv, TypeOK, ThreadTypes
  <1>3. \A n, m \in Nodes : nodeIds'[n][m] < nextId'[n]
    BY SMT, <1>1 DEF TablesInv
  <1>4. \A n \in Nodes, k \in ServerNames : uid'[n] <= k => endpoints'[n][k] = NoNode
    BY SMT, <1>1, TableTypes DEF TablesInv
  <1>5. \A n, m \in Nodes : endpoints'[n][m] \in {NoNode, m}
    BY DEF TablesInv
  <1>6. \A t \in Threads : pc'[t] \in {"insert", "setup"} => Knows(peer[t], Home[t])'
    BY DEF Knows
  <1>7. PeerIsReady' /\ AnswersReachSender'
    BY SMT DEF TablesInv, PeerIsReady, AnswersReachSender, FindSession, Knows
  <1>8. TablesGrow
    BY DEF TablesGrow
  <1> QED
    BY <1>2, <1>3, <1>4, <1>5, <1>6, <1>7, <1>8 DEF TablesInv, ThreadTypes

\* on_accept at the peer: the caller becomes known there.
LEMMA AcceptTables ==
    ASSUME TablesInv, NEW t \in Threads, Accept(t)
    PROVE  /\ TablesInv' /\ TablesGrow
           /\ peer[t] \in Nodes /\ nextId[peer[t]] \in Ids
           /\ nextId'[peer[t]] = nextId[peer[t]] + 1
           /\ revNames'[peer[t]][nextId[peer[t]]] = uid[peer[t]]
           /\ uid[peer[t]] \in ServerNames
           /\ endpoints'[peer[t]][uid[peer[t]]] = Home[t]
  <1> DEFINE m == peer[t]
             n == Home[t]
             x == uid[m]
  <1>1. /\ pc[t] = "connect" /\ uid[m] < MaxAccepts
        /\ uid' = [uid EXCEPT ![m] = @ + 1]
        /\ SetupConnection(m, x, n)
        /\ pc' = [pc EXCEPT ![t] = "insert"]
        /\ UNCHANGED <<sessions, active, peer>>
    BY DEF Accept, Goto
  <1>2. m \in Nodes /\ n \in Nodes
    BY <1>1, TableTypes DEF TablesInv
  <1> HIDE DEF m, n
  <1>3. /\ x \in Nat /\ x \in ServerNames /\ x \in Names /\ endpoints[m][x] = NoNode
        /\ endpoints[m][x] \in {NoNode, n}
    <2>1. x \in Nat /\ x <= x
      BY SMT, <1>2 DEF TablesInv, TypeOK
    <2> QED
      BY <1>1, <1>2, <2>1, TableTypes DEF TablesInv
  <1>4. TypeOK
    BY DEF TablesInv
  <1> HIDE DEF x
  <1>5. TablesGrow
    BY <1>1, <1>2, <1>3, SetupGrows
  <1>6. /\ nextId[m] \in Ids /\ nextId'[m] = nextId[m] + 1
        /\ nextId' \in [Nodes -> 0..MaxIds]
        /\ nodeIds' \in [Nodes -> [Nodes -> Ids \cup {NoId}]]
        /\ peerNames' \in [Nodes -> [Names -> Ids \cup {NoId}]]
        /\ revNames' \in [Nodes -> [Ids -> Names \cup {NoName}]]
        /\ endpoints' \in [Nodes -> [Names -> Nodes \cup {NoNode}]]
        /\ nodeIds'[m][n] = nextId[m]
        /\ revNames'[m][nextId[m]] = x
        /\ endpoints'[m][x] = n
        /\ \A y \in Names \ {x} : endpoints'[m][y] = endpoints[m][y]
                                  /\ peerNames'[m][y] = peerNames[m][y]
        /\ \A o \in Nodes \ {m} : endpoints'[o] = endpoints[o] /\ peerNames'[o] = peerNames[o]
    BY SMT, <1>1, <1>2, <1>3, <1>4, SetupEffect
  <1>7. AnswersReachSender' /\ \A o, p \in Nodes : nodeIds'[o][p] < nextId'[o]
    BY <1>1, <1>2, <1>3, SetupAnswers
  <1>8. TypeOK' /\ ThreadTypes'
    <2>1. uid' \in [Nodes -> 0..MaxAccepts]
      <3>1. uid \in [Nodes -> 0..MaxAccepts] /\ uid[m] + 1 \in 0..MaxAccepts
        BY SMT, <1>1, <1>2, TableTypes DEF TablesInv, TypeOK
      <3> QED
        BY <1>1, <3>1
    <2> QED
      BY SMT, <1>1, <1>6, <2>1 DEF TablesInv, TypeOK, ThreadTypes, m
  <1>9. \A o \in Nodes, k \in ServerNames : uid'[o] <= k => endpoints'[o][k] = NoNode
    <2> TAKE o \in Nodes, k \in ServerNames
    <2>1. uid[o] \in Nat /\ k \in Nat /\ uid[o] <= k => endpoints[o][k] = NoNode
      BY DEF TablesInv, TypeOK
    <2>1a. uid[o] \in Nat /\ k \in Nat
      BY SMT, TableTypes DEF TablesInv, TypeOK
    <2>2. CASE o = m
      <3>1. uid'[o] = x + 1
        BY <1>1, <1>2, <2>2 DEF TablesInv, TypeOK, x
      <3>2. uid'[o] <= k => k # x /\ uid[o] <= k
        BY SMT, <1>3, <2>1a, <2>2, <3>1 DEF x
      <3> QED
        BY <1>6, <2>1, <2>1a, <2>2, <3>2, TableTypes
    <2>3. CASE o # m
      <3>1. uid'[o] = uid[o] /\ endpoints'[o] = endpoints[o]
        BY <1>1, <1>2, <1>6, <2>3 DEF TablesInv, TypeOK
      <3> QED
        BY <2>1, <2>1a, <3>1
    <2> QED
      BY <2>2, <2>3
  <1>10. \A o, p \in Nodes : endpoints'[o][p] \in {NoNode, p}
    <2> TAKE o, p \in Nodes
    <2>1. p # x /\ p \in Names
      BY <1>3, TableTypes
    <2>2. endpoints'[o][p] = endpoints[o][p]
      BY <1>6, <2>1
    <2> QED
      BY <2>2 DEF TablesInv
  <1>11. nodeIds'[m][n] # NoId /\ \E name \in ServerNames : endpoints'[m][name] = n
    BY SMT, <1>3, <1>6, TableTypes
  <1>12. \A u \in Threads : pc'[u] \in {"insert", "setup"} => Knows(peer[u], Home[u])'
    <2> SUFFICES ASSUME NEW u \in Threads, pc'[u] \in {"insert", "setup"}
                 PROVE  /\ nodeIds'[peer[u]][Home[u]] # NoId
                        /\ \E name \in ServerNames : endpoints'[peer[u]][name] = Home[u]
      BY <1>1 DEF Knows
    <2>1. CASE u = t
      BY <1>11, <2>1 DEF m, n
    <2>2. CASE u # t
      <3>1. pc[u] \in {"insert", "setup"}
        BY <1>1, <2>2 DEF TablesInv, TypeOK
      <3>2. peer[u] \in Nodes /\ Home[u] \in Nodes /\ Knows(peer[u], Home[u])
        BY <3>1, TableTypes DEF TablesInv
      <3> QED
        BY <1>5, <3>2, KnowsStays
    <2> QED
      BY <2>1, <2>2
  <1>13. PeerIsReady'
    <2> SUFFICES ASSUME NEW o \in Nodes, NEW p \in Nodes, peerNames'[o][p] # NoId
                 PROVE  /\ nodeIds'[p][o] # NoId
                        /\ \E name \in ServerNames : endpoints'[p][name] = o
      BY DEF PeerIsReady, FindSession, Knows
    <2>1. p # x /\ p \in Names
      BY <1>3, TableTypes
    <2>2. peerNames'[o][p] = peerNames[o][p]
      BY <1>6, <2>1
    <2>3. Knows(p, o)
      BY <2>2 DEF TablesInv, PeerIsReady, FindSession
    <2> QED
      BY <1>5, <2>3, KnowsStays
  <1>14. TablesInv'
    BY <1>7, <1>8, <1>9, <1>10, <1>12, <1>13 DEF TablesInv, ThreadTypes
  <1> QED
    BY <1>2, <1>3, <1>5, <1>6, <1>14 DEF m, n, x

\* The end of makeConnectionIfNeeded: the peer has been ready since it accepted.
LEMMA SetupTables ==
    ASSUME TablesInv, NEW t \in Threads, Setup(t)
    PROVE  /\ TablesInv' /\ TablesGrow
           /\ peer[t] \in Nodes /\ nextId[Home[t]] \in Ids
           /\ nextId'[Home[t]] = nextId[Home[t]] + 1
           /\ revNames'[Home[t]][nextId[Home[t]]] = peer[t]
           /\ endpoints'[Home[t]][peer[t]] = peer[t]
  <1> DEFINE m == peer[t]
             n == Home[t]
  <1>1. /\ pc[t] = "setup"
        /\ SetupConnection(n, m, m)
        /\ pc' = [pc EXCEPT ![t] = "send"]
        /\ UNCHANGED <<sessions, uid, active, peer>>
    BY DEF Setup, Goto
  <1>2. m \in Nodes /\ n \in Nodes /\ m \in Names /\ Knows(m, n)
    BY <1>1, TableTypes DEF TablesInv
  <1> HIDE DEF m, n
  <1>3. TypeOK /\ endpoints[n][m] \in {NoNode, m}
    BY <1>2 DEF TablesInv
  <1>5. TablesGrow
    BY <1>1, <1>2, <1>3, SetupGrows
  <1>6. /\ nextId[n] \in Ids /\ nextId'[n] = nextId[n] + 1
        /\ nextId' \in [Nodes -> 0..MaxIds]
        /\ nodeIds' \in [Nodes -> [Nodes -> Ids \cup {NoId}]]
        /\ peerNames' \in [Nodes -> [Names -> Ids \cup {NoId}]]
        /\ revNames' \in [Nodes -> [Ids -> Names \cup {NoName}]]
        /\ endpoints' \in [Nodes -> [Names -> Nodes \cup {NoNode}]]
        /\ revNames'[n][nextId[n]] = m
        /\ endpoints'[n][m] = m
        /\ \A y \in Names \ {m} : endpoints'[n][y] = endpoints[n][y]
                                  /\ peerNames'[n][y] = peerNames[n][y]
        /\ \A o \in Nodes \ {n} : endpoints'[o] = endpoints[o] /\ peerNames'[o] = peerNames[o]
    BY SMT, <1>1, <1>2, <1>3, SetupEffect
  <1>7. AnswersReachSender' /\ \A o, p \in Nodes : nodeIds'[o][p] < nextId'[o]
    BY <1>1, <1>2, <1>3, SetupAnswers
  <1>8. TypeOK' /\ ThreadTypes'
    BY <1>1, <1>6 DEF TablesInv, TypeOK, ThreadTypes
  <1>9. \A o \in Nodes, k \in ServerNames : uid'[o] <= k => endpoints'[o][k] = NoNode
    <2> TAKE o \in Nodes, k \in ServerNames
    <2>1. k # m /\ k \in Names
      BY <1>2, TableTypes
    <2>2. endpoints'[o][k] = endpoints[o][k]
      BY <1>6, <2>1
    <2> QED
      BY <1>1, <2>2 DEF TablesInv
  <1>10. \A o, p \in Nodes : endpoints'[o][p] \in {NoNode, p}
    <2> TAKE o, p \in Nodes
    <2>1. p \in Names
      BY TableTypes
    <2>2. endpoints'[o][p] = endpoints[o][p] \/ endpoints'[o][p] = p
      BY <1>6, <2>1
    <2> QED
      BY <2>2 DEF TablesInv
  <1>12. \A u \in Threads : pc'[u] \in {"insert", "setup"} => Knows(peer[u], Home[u])'
    <2> SUFFICES ASSUME NEW u \in Threads, pc'[u] \in {"insert", "setup"}
                 PROVE  /\ nodeIds'[peer[u]][Home[u]] # NoId
                        /\ \E name \in ServerNames : endpoints'[peer[u]][name] = Home[u]
      BY <1>1 DEF Knows
    <2>1. pc[u] \in {"insert", "setup"}
      BY <1>1 DEF TablesInv, TypeOK
    <2>2. peer[u] \in Nodes /\ Home[u] \in Nodes /\ Knows(peer[u], Home[u])
      BY <2>1, TableTypes DEF TablesInv
    <2> QED
      BY <1>5, <2>2, KnowsStays
  <1>13. PeerIsReady'
    <2> SUFFICES ASSUME NEW o \in Nodes, NEW p \in Nodes, peerNames'[o][p] # NoId
                 PROVE  /\ nodeIds'[p][o] # NoId
                        /\ \E name \in ServerNames : endpoints'[p][name] = o
      BY DEF PeerIsReady, FindSession, Knows
    <2>1. CASE o = n /\ p = m
      BY SMT, <1>2, <1>5, <2>1, KnowsStays
    <2>2. CASE ~(o = n /\ p = m)
      <3>1. p \in Names
        BY TableTypes
      <3>2. peerNames'[o][p] = peerNames[o][p]
        BY <1>6, <2>2, <3>1
      <3>3. Knows(p, o)
        BY <3>2 DEF TablesInv, PeerIsReady, FindSession
      <3> QED
        BY <1>5, <3>3, KnowsStays
    <2> QED
      BY <2>1, <2>2
  <1>14. TablesInv'
    BY <1>7, <1>8, <1>9, <1>10, <1>12, <1>13 DEF TablesInv, ThreadTypes
  <1> QED
    BY <1>2, <1>5, <1>6, <1>14 DEF m, n

\* A thread begins to connect to m, or finds it connected.
LEMMA BeginTables ==
    ASSUME TablesInv, NEW t \in Threads, NEW m \in Nodes, NEW label \in {"connect", "send"},
           pc' = [pc EXCEPT ![t] = label], peer' = [peer EXCEPT ![t] = m],
           UNCHANGED <<sessions, uid, tables, active>>
    PROVE  TablesInv' /\ TablesGrow
  <1>1. TypeOK /\ \A u \in Threads : pc[u] # "idle" => peer[u] \in Nodes
    BY DEF TablesInv
  <1>2. ThreadTypes'
    BY <1>1 DEF TypeOK, ThreadTypes
  <1>3. /\ UNCHANGED <<nodeIds, peerNames, revNames, endpoints>>
        /\ nextId' \in [Nodes -> 0..MaxIds]
        /\ \A n \in Nodes : nextId[n] <= nextId'[n] /\ uid[n] <= uid'[n]
    <2>1. \A n \in Nodes : nextId[n] \in Nat /\ uid[n] \in Nat
      BY SMT, <1>1 DEF TypeOK
    <2> QED
      BY SMT, <1>1, <2>1 DEF TypeOK, tables
  <1>4. \A u \in Threads : pc'[u] \in {"insert", "setup"} => Knows(peer'[u], Home[u])
    BY <1>1 DEF TypeOK, TablesInv
  <1> QED
    BY <1>2, <1>3, <1>4, TablesKept

\* The other steps of a thread that leave the tables alone.
LEMMA ThreadStepTables ==
    ASSUME TablesInv, NEW t \in Threads,
           RequestFails(t) \/ ReplyFails(t) \/ Insert(t) \/ Send(t) \/ SendFails(t)
    PROVE  TablesInv' /\ TablesGrow
  <1> DEFINE n == Home[t]
  <1>0. /\ n \in Nodes /\ sessions \in [Nodes -> SUBSET Nodes]
        /\ uid \in [Nodes -> 0..MaxAccepts] /\ nextId \in [Nodes -> 0..MaxIds]
        /\ active \in [Nodes -> SUBSET Ids]
        /\ pc \in [Threads -> {"idle", "connect", "insert", "setup", "send"}]
        /\ peer \in [Threads -> Nodes \cup {NoNode}]
        /\ \A u \in Threads : pc[u] # "idle" => peer[u] \in Nodes
        /\ peerNames \in [Nodes -> [Names -> Ids \cup {NoId}]]
    BY TableTypes DEF TablesInv, TypeOK
  <1>1. pc[t] # "idle" /\ peer[t] \in Nodes /\ UNCHANGED peer /\ UNCHANGED tables
    BY <1>0 DEF RequestFails, ReplyFails, Insert, Send, SendFails
  <1>2. \/ pc' = [pc EXCEPT ![t] = "idle"]
        \/ pc[t] = "insert" /\ pc' = [pc EXCEPT ![t] = "setup"]
    BY DEF RequestFails, ReplyFails, Insert, Send, SendFails, Goto
  <1>3. sessions' \in [Nodes -> SUBSET Nodes]
    <2>1. \/ sessions' = sessions
          \/ sessions' = [sessions EXCEPT ![n] = sessions[n] \cup {peer[t]}]
          \/ sessions' = [sessions EXCEPT ![n] = sessions[n] \ {peer[t]}]
      BY DEF RequestFails, ReplyFails, Insert, Send, SendFails
    <2>2. sessions[n] \cup {peer[t]} \in SUBSET Nodes /\ sessions[n] \ {peer[t]} \in SUBSET Nodes
      BY <1>0, <1>1
    <2> QED
      BY <1>0, <2>1, <2>2
  <1>4. uid' \in [Nodes -> 0..MaxAccepts] /\ \A o \in Nodes : uid[o] <= uid'[o]
    <2>0. \A o \in Nodes : uid[o] \in Nat
      BY SMT, <1>0
    <2>1. \/ uid' = uid
          \/ uid[peer[t]] < MaxAccepts /\ uid' = [uid EXCEPT ![peer[t]] = uid[peer[t]] + 1]
      BY DEF RequestFails, ReplyFails, Insert, Send, SendFails
    <2>2. uid[peer[t]] < MaxAccepts => uid[peer[t]] + 1 \in 0..MaxAccepts
      BY SMT, <1>0, <1>1, TableTypes
    <2>3. uid' \in [Nodes -> 0..MaxAccepts]
      BY <1>0, <2>1, <2>2
    <2>4. \A o \in Nodes : uid'[o] = uid[o] \/ uid'[o] = uid[o] + 1
      BY <1>0, <2>1
    <2> QED
      BY SMT, <2>0, <2>3, <2>4
  <1>5. active' \in [Nodes -> SUBSET Ids]
    <2>1. peerNames[n][peer[t]] \in Ids \cup {NoId}
      BY SMT, <1>0, <1>1, TableTypes
    <2>2. \/ active' = active
          \/ /\ peerNames[n][peer[t]] # NoId
             /\ active' = [active EXCEPT ![n] = active[n] \cup {peerNames[n][peer[t]]}]
      BY DEF RequestFails, ReplyFails, Insert, Send, SendFails, FindSession
    <2>3. peerNames[n][peer[t]] # NoId =>
              active[n] \cup {peerNames[n][peer[t]]} \in SUBSET Ids
      BY <1>0, <2>1
    <2> QED
      BY <1>0, <2>2, <2>3
  <1>6. ThreadTypes'
    BY <1>0, <1>1, <1>2, <1>3, <1>4, <1>5 DEF ThreadTypes
  <1>7. /\ UNCHANGED <<nodeIds, peerNames, revNames, endpoints>>
        /\ nextId' \in [Nodes -> 0..MaxIds] /\ \A o \in Nodes : nextId[o] <= nextId'[o]
    <2>1. \A o \in Nodes : nextId[o] \in Nat
      BY SMT, <1>0
    <2> QED
      BY SMT, <1>0, <1>1, <2>1 DEF tables
  <1>8. \A u \in Threads : pc'[u] \in {"insert", "setup"} => Knows(peer'[u], Home[u])
    <2> SUFFICES ASSUME NEW u \in Threads, pc'[u] \in {"insert", "setup"}
                 PROVE  Knows(peer[u], Home[u])
      BY <1>1
    <2>1. pc[u] \in {"insert", "setup"}
      BY <1>0, <1>2
    <2> QED
      BY <2>1 DEF TablesInv
  <1> QED
    BY <1>4, <1>6, <1>7, <1>8, TablesKept

\* Every step of Connection.
LEMMA ConnectionTables ==
    ASSUME TablesInv, Next
    PROVE  TablesInv' /\ TablesGrow
  <1>1. ASSUME NEW t \in Threads, NEW m \in Nodes, StartSend(t, m)
        PROVE  TablesInv' /\ TablesGrow
    <2>1. \E label \in {"connect", "send"} : pc' = [pc EXCEPT ![t] = label]
      BY <1>1 DEF StartSend, Goto
    <2>2. peer' = [peer EXCEPT ![t] = m] /\ UNCHANGED <<sessions, uid, tables, active>>
      BY <1>1 DEF StartSend
    <2> QED
      BY <2>1, <2>2, BeginTables
  <1>2. ASSUME NEW t \in Threads,
               RequestFails(t) \/ ReplyFails(t) \/ Insert(t) \/ Send(t) \/ SendFails(t)
        PROVE  TablesInv' /\ TablesGrow
    BY <1>2, ThreadStepTables
  <1>3. ASSUME NEW t \in Threads, Accept(t) \/ Setup(t)
        PROVE  TablesInv' /\ TablesGrow
    BY <1>3, AcceptTables, SetupTables
  <1>4. ASSUME NEW n \in Nodes, NEW name \in ServerNames, Receive(n, name)
        PROVE  TablesInv' /\ TablesGrow
    <2>1. /\ UNCHANGED <<sessions, uid, tables, pc, peer>>
          /\ active' = [active EXCEPT ![n] = active[n] \cup {peerNames[n][name]}]
          /\ peerNames[n][name] # NoId
      BY <1>4 DEF Receive, FindSession
    <2>2. peerNames[n][name] \in Ids \cup {NoId} /\ TypeOK
      BY SMT, TableTypes DEF TablesInv, TypeOK
    <2>3. active[n] \cup {peerNames[n][name]} \in SUBSET Ids
      BY <2>1, <2>2 DEF TypeOK
    <2>4. ThreadTypes'
      BY <2>1, <2>2, <2>3 DEF TablesInv, TypeOK, ThreadTypes
    <2>5. /\ UNCHANGED <<nodeIds, peerNames, revNames, endpoints>>
          /\ nextId' \in [Nodes -> 0..MaxIds]
          /\ \A o \in Nodes : nextId[o] <= nextId'[o] /\ uid[o] <= uid'[o]
      <3>1. \A o \in Nodes : nextId[o] \in Nat /\ uid[o] \in Nat
        BY SMT, <2>2 DEF TypeOK
      <3> QED
        BY SMT, <2>1, <2>2, <3>1 DEF TypeOK, tables
    <2>6. \A u \in Threads : pc'[u] \in {"insert", "setup"} => Knows(peer'[u], Home[u])
      BY <2>1 DEF TablesInv
    <2> QED
      BY <2>4, <2>5, <2>6, TablesKept
  <1> QED
    BY <1>1, <1>2, <1>3, <1>4 DEF Next

(***************************************************************************)
(* The types of the group tables.                                          *)
(***************************************************************************)

LEMMA GroupQpsType ==
    ASSUME GroupTypeOK, NEW n \in Nodes
    PROVE  GroupQps(n) \in SUBSET Ids
  BY SMT DEF GroupTypeOK, GroupQps

LEMMA NoCallType == NoCall \in Calls
  BY SMT DEF NoCall, Calls

\* registerNode for the queue pairs of groups.
LEMMA RegisterEffect ==
    ASSUME GroupTypeOK, NEW n \in Nodes, NEW m \in Nodes, NEW qps, nextId[n] \in Ids,
           RegisterQps(n, m, qps)
    PROVE  /\ extIds' \in [Nodes -> [Nodes -> [Ids -> Ids \cup {NoId}]]]
           /\ \A q \in Ids : extIds'[n][m][q] = IF q \in qps THEN nextId[n] ELSE extIds[n][m][q]
           /\ \A o, p \in Nodes : ~(o = n /\ p = m) => extIds'[o][p] = extIds[o][p]
  <1> DEFINE row == [q \in Ids |-> IF q \in qps THEN nextId[n] ELSE extIds[n][m][q]]
  <1>1. extIds' = [extIds EXCEPT ![n] = [extIds[n] EXCEPT ![m] = row]]
    BY DEF RegisterQps
  <1>2. row \in [Ids -> Ids \cup {NoId}]
    BY SMT DEF GroupTypeOK
  <1>3. \A q \in Ids : row[q] = IF q \in qps THEN nextId[n] ELSE extIds[n][m][q]
    OBVIOUS
  <1> HIDE DEF row
  <1>4. extIds \in [Nodes -> [Nodes -> [Ids -> Ids \cup {NoId}]]]
    BY DEF GroupTypeOK
  <1>5. extIds'[n][m] = row
    BY <1>1, <1>4
  <1> QED
    BY <1>1, <1>2, <1>3, <1>4, <1>5

\* makeConnectionIfNeeded of the next replica of a call.
LEMMA ConnectNextTypes ==
    ASSUME TablesInv, GroupTypeOK, NEW t \in Threads, NEW k \in Calls, k.rest # << >>,
           ConnectNext(t, k)
    PROVE  /\ TablesInv' /\ TablesGrow /\ GroupTypeOK'
           /\ UNCHANGED <<sessions, protocol, contextId, replicas, extIds>>
           /\ \A u \in Threads \ {t} : call'[u] = call[u] /\ pc'[u] = pc[u] /\ peer'[u] = peer[u]
           /\ peer'[t] = Head(k.rest) /\ peer'[t] \in Nodes
           /\ \/ /\ peer'[t] \in sessions[Home[t]] /\ pc'[t] = "send"
                 /\ call'[t] = [k EXCEPT !.rest = Tail(k.rest)]
              \/ /\ pc'[t] = "connect"
                 /\ call'[t] = [k EXCEPT !.rest = Tail(k.rest), !.request = GroupQps(Home[t])]
  <1> DEFINE m == Head(k.rest)
             left == [k EXCEPT !.rest = Tail(k.rest)]
             asked == [k EXCEPT !.rest = Tail(k.rest), !.request = GroupQps(Home[t])]
  <1>1. /\ peer' = [peer EXCEPT ![t] = m]
        /\ UNCHANGED <<sessions, uid, tables, active, protocol, contextId, replicas, extIds>>
    BY DEF ConnectNext, groupTables
  <1>2. \/ /\ m \in sessions[Home[t]]
           /\ pc' = [pc EXCEPT ![t] = "send"] /\ call' = [call EXCEPT ![t] = left]
        \/ /\ pc' = [pc EXCEPT ![t] = "connect"] /\ call' = [call EXCEPT ![t] = asked]
    <2>1. [left EXCEPT !.request = GroupQps(Home[t])] = asked
      BY DEF Calls
    <2> QED
      BY <2>1 DEF ConnectNext, Goto
  <1>3. m \in Nodes /\ Tail(k.rest) \in Seq(Nodes) /\ Home[t] \in Nodes
    BY SMT, TableTypes DEF Calls
  <1>4. GroupQps(Home[t]) \in SUBSET Ids
    BY <1>3, GroupQpsType
  <1>5. left \in Calls /\ asked \in Calls
    BY <1>3, <1>4 DEF Calls
  <1>6. pc \in [Threads -> {"idle", "connect", "insert", "setup", "send"}]
        /\ peer \in [Threads -> Nodes \cup {NoNode}] /\ call \in [Threads -> Calls]
    BY DEF TablesInv, TypeOK, GroupTypeOK
  <1> HIDE DEF m, left, asked
  <1>7. TablesInv' /\ TablesGrow
    BY <1>1, <1>2, <1>3, BeginTables
  <1>8. GroupTypeOK'
    <2>1. call' \in [Threads -> Calls]
      BY <1>2, <1>5, <1>6
    <2> QED
      BY <1>1, <2>1 DEF GroupTypeOK
  <1>9. \A u \in Threads \ {t} : call'[u] = call[u] /\ pc'[u] = pc[u] /\ peer'[u] = peer[u]
    BY <1>1, <1>2, <1>6
  <1>10. peer'[t] = m
    BY <1>1, <1>6
  <1>11. \/ m \in sessions[Home[t]] /\ pc'[t] = "send" /\ call'[t] = left
         \/ pc'[t] = "connect" /\ call'[t] = asked
    BY <1>2, <1>6
  <1> QED
    BY <1>1, <1>3, <1>7, <1>8, <1>9, <1>10, <1>11 DEF m, left, asked

\* The other steps of a thread of an instance with groups.
LEMMA GroupThreadTypes ==
    ASSUME TablesInv, GroupTypeOK, NEW t \in Threads,
           \/ StoreReplicas(t) \/ AcceptGroups(t) \/ InsertGroups(t) \/ SetupGroups(t)
           \/ ConnectFails(t)
    PROVE  TablesInv' /\ TablesGrow /\ GroupTypeOK'
  <1>0. /\ Home[t] \in Nodes /\ call \in [Threads -> Calls] /\ call[t] \in Calls
        /\ replicas \in [Nodes -> [Groups -> Seq(Nodes)]]
        /\ peer[t] \in Nodes \cup {NoNode}
    BY TableTypes DEF GroupTypeOK, TablesInv, TypeOK
  <1>1. CASE StoreReplicas(t)
    <2>1. /\ pc' = [pc EXCEPT ![t] = "idle"] /\ call' = [call EXCEPT ![t] = NoCall]
          /\ UNCHANGED <<sessions, uid, tables, active, peer, protocol, contextId, extIds>>
          /\ \/ replicas' = replicas
             \/ replicas' = [replicas EXCEPT ![Home[t]] =
                                [replicas[Home[t]] EXCEPT ![call[t].group] = call[t].list]]
      BY <1>1 DEF StoreReplicas, Goto
    <2>2. /\ TypeOK /\ \A o \in Nodes : nextId[o] \in Nat /\ uid[o] \in Nat
      BY SMT DEF TablesInv, TypeOK
    <2>3. ThreadTypes'
      BY <2>1, <2>2 DEF TablesInv, TypeOK, ThreadTypes
    <2>4. /\ UNCHANGED <<nodeIds, peerNames, revNames, endpoints>>
          /\ nextId' \in [Nodes -> 0..MaxIds]
          /\ \A o \in Nodes : nextId[o] <= nextId'[o] /\ uid[o] <= uid'[o]
      BY SMT, <2>1, <2>2 DEF TypeOK, tables
    <2>5. \A u \in Threads : pc'[u] \in {"insert", "setup"} => Knows(peer'[u], Home[u])
      BY <2>1, <2>2 DEF TablesInv, TypeOK
    <2>6. TablesInv' /\ TablesGrow
      BY <2>3, <2>4, <2>5, TablesKept
    <2>7. replicas' \in [Nodes -> [Groups -> Seq(Nodes)]]
      <3> DEFINE row == [replicas[Home[t]] EXCEPT ![call[t].group] = call[t].list]
      <3>1. call[t].list \in Seq(Nodes)
        BY <1>0 DEF Calls
      <3>2. row \in [Groups -> Seq(Nodes)]
        BY <1>0, <3>1
      <3>3. [replicas EXCEPT ![Home[t]] = row] \in [Nodes -> [Groups -> Seq(Nodes)]]
        BY <1>0, <3>2
      <3> QED
        BY <1>0, <2>1, <3>3
    <2>8. call' \in [Threads -> Calls]
      BY <1>0, <2>1, NoCallType
    <2> QED
      BY <2>1, <2>6, <2>7, <2>8 DEF GroupTypeOK
  <1>2. CASE AcceptGroups(t)
    <2>1. /\ Accept(t) /\ UNCHANGED <<protocol, contextId, replicas>>
          /\ call' = [call EXCEPT ![t] = [call[t] EXCEPT !.response = GroupQps(peer[t])]]
          /\ RegisterQps(peer[t], Home[t], call[t].request)
      BY <1>2 DEF AcceptGroups
    <2>2. TablesInv' /\ TablesGrow /\ peer[t] \in Nodes /\ nextId[peer[t]] \in Ids
      BY <2>1, AcceptTables
    <2>3. extIds' \in [Nodes -> [Nodes -> [Ids -> Ids \cup {NoId}]]]
      BY <1>0, <2>1, <2>2, RegisterEffect
    <2>4. [call[t] EXCEPT !.response = GroupQps(peer[t])] \in Calls
      BY <1>0, <2>2, GroupQpsType DEF Calls
    <2>5. call' \in [Threads -> Calls]
      BY <1>0, <2>1, <2>4
    <2> QED
      BY <2>1, <2>2, <2>3, <2>5 DEF GroupTypeOK
  <1>3. CASE InsertGroups(t)
    <2>1. Insert(t) /\ UNCHANGED <<protocol, contextId, replicas, extIds, call>>
      BY <1>3 DEF InsertGroups, groupVars, groupTables
    <2> QED
      BY <2>1, ThreadStepTables DEF GroupTypeOK
  <1>4. CASE SetupGroups(t)
    <2>1. /\ Setup(t) /\ UNCHANGED <<protocol, contextId, replicas>>
          /\ call' = [call EXCEPT ![t] = [call[t] EXCEPT !.request = {}, !.response = {}]]
          /\ RegisterQps(Home[t], peer[t], call[t].response)
      BY <1>0, <1>4 DEF SetupGroups
    <2>2. TablesInv' /\ TablesGrow /\ peer[t] \in Nodes /\ nextId[Home[t]] \in Ids
      BY <2>1, SetupTables
    <2>3. extIds' \in [Nodes -> [Nodes -> [Ids -> Ids \cup {NoId}]]]
      BY <1>0, <2>1, <2>2, RegisterEffect
    <2>4. [call[t] EXCEPT !.request = {}, !.response = {}] \in Calls
      BY <1>0 DEF Calls
    <2>5. call' \in [Threads -> Calls]
      BY <1>0, <2>1, <2>4
    <2> QED
      BY <2>1, <2>2, <2>3, <2>5 DEF GroupTypeOK
  <1>5. CASE ConnectFails(t)
    <2>1. /\ RequestFails(t) \/ ReplyFails(t)
          /\ UNCHANGED <<protocol, contextId, replicas, extIds>>
          /\ call' = [call EXCEPT ![t] = NoCall]
      BY <1>5 DEF ConnectFails, groupTables
    <2>2. call' \in [Threads -> Calls]
      BY <1>0, <2>1, NoCallType
    <2> QED
      BY <2>1, <2>2, ThreadStepTables DEF GroupTypeOK
  <1> QED
    BY <1>1, <1>2, <1>3, <1>4, <1>5

\* joinMulticast and leaveMulticast.
LEMMA JoinLeaveTypes ==
    ASSUME TablesInv, GroupTypeOK, NEW n \in Nodes, NEW g \in Groups,
           JoinMulticast(n, g) \/ LeaveMulticast(n, g)
    PROVE  TablesInv' /\ TablesGrow /\ GroupTypeOK'
  <1>0. /\ TypeOK /\ \A o \in Nodes : nextId[o] \in Nat /\ uid[o] \in Nat
        /\ ThreadTypes
        /\ \A t \in Threads : pc[t] \in {"insert", "setup"} => Knows(peer[t], Home[t])
    BY SMT DEF TablesInv, TypeOK, ThreadTypes
  <1>1. CASE JoinMulticast(n, g)
    <2>1. /\ nextId[n] < JoinIds[n] /\ nextId' = [nextId EXCEPT ![n] = nextId[n] + 1]
          /\ \/ contextId' = contextId
             \/ contextId' = [contextId EXCEPT ![n] = [contextId[n] EXCEPT ![g] = nextId[n]]]
          /\ UNCHANGED <<sessions, uid, nodeIds, peerNames, revNames, endpoints, active,
                         pc, peer, protocol, replicas, extIds, call>>
      BY <1>1 DEF JoinMulticast
    <2>2. JoinIds[n] \in 0..MaxIds
      BY GroupTablesAssumption
    <2>3. nextId[n] \in Ids /\ nextId[n] + 1 \in 0..MaxIds
      BY SMT, <1>0, <2>1, <2>2, TableTypes
    <2>4. nextId' \in [Nodes -> 0..MaxIds] /\ \A o \in Nodes : nextId[o] <= nextId'[o]
      BY SMT, <1>0, <2>1, <2>3 DEF TypeOK
    <2>5. ThreadTypes' /\ \A o \in Nodes : uid[o] <= uid'[o]
      BY SMT, <1>0, <2>1 DEF ThreadTypes
    <2>6. TablesInv' /\ TablesGrow
      BY <1>0, <2>1, <2>4, <2>5, TablesKept
    <2>7. contextId' \in [Nodes -> [Groups -> Ids \cup {NoId}]]
      <3>1. contextId \in [Nodes -> [Groups -> Ids \cup {NoId}]]
        BY DEF GroupTypeOK
      <3>2. [contextId[n] EXCEPT ![g] = nextId[n]] \in [Groups -> Ids \cup {NoId}]
        BY <2>3, <3>1
      <3>3. [contextId EXCEPT ![n] = [contextId[n] EXCEPT ![g] = nextId[n]]]
                \in [Nodes -> [Groups -> Ids \cup {NoId}]]
        BY <3>1, <3>2
      <3> QED
        BY <2>1, <3>1, <3>3
    <2> QED
      BY <2>1, <2>6, <2>7 DEF GroupTypeOK
  <1>2. CASE LeaveMulticast(n, g)
    <2>1. /\ contextId' = [contextId EXCEPT ![n] = [contextId[n] EXCEPT ![g] = NoId]]
          /\ replicas' = [replicas EXCEPT ![n] = [replicas[n] EXCEPT ![g] = << >>]]
          /\ UNCHANGED <<sessions, uid, nextId, nodeIds, peerNames, revNames, endpoints, active,
                         pc, peer, protocol, extIds, call>>
      BY <1>2 DEF LeaveMulticast, vars, tables
    <2>2. ThreadTypes' /\ \A o \in Nodes : uid[o] <= uid'[o] /\ nextId[o] <= nextId'[o]
      BY SMT, <1>0, <2>1 DEF ThreadTypes
    <2>3. nextId' \in [Nodes -> 0..MaxIds]
      BY <1>0, <2>1 DEF TypeOK
    <2>4. TablesInv' /\ TablesGrow
      BY <1>0, <2>1, <2>2, <2>3, TablesKept
    <2>5. /\ contextId' \in [Nodes -> [Groups -> Ids \cup {NoId}]]
          /\ replicas' \in [Nodes -> [Groups -> Seq(Nodes)]]
      BY SMT, <2>1 DEF GroupTypeOK
    <2> QED
      BY <2>1, <2>4, <2>5 DEF GroupTypeOK
  <1> QED
    BY <1>1, <1>2

\* The lists that an application gives.
LEMMA ListTypes ==
    \A n \in Nodes : \A l \in Lists[n] : l \in Seq(Nodes) /\ l # << >>
  BY GroupTablesAssumption

\* The call that setMulticastReplicas begins with.
LEMMA FirstCall ==
    ASSUME NEW g \in Groups, NEW names \in Seq(Nodes)
    PROVE  LET k == [NoCall EXCEPT !.group = g, !.list = names, !.rest = names]
           IN  k \in Calls /\ k.group = g /\ k.list = names /\ k.rest = names
  BY DEF NoCall, Calls

LEMMA TypesInitial == GroupTablesInit => TablesInv /\ GroupTypeOK
  <1> SUFFICES ASSUME GroupTablesInit
               PROVE  TablesInv /\ GroupTypeOK
    OBVIOUS
  <1>1. Init
    BY DEF GroupTablesInit
  <1>2. TypeOK
    BY SMT, <1>1, TableTypes DEF Init, TypeOK
  <1>3. \A n, m \in Nodes : nodeIds[n][m] = NoId /\ nextId[n] = 0
    BY <1>1 DEF Init
  <1>4. \A n, m \in Nodes : nodeIds[n][m] < nextId[n]
    BY SMT, <1>3 DEF NoId
  <1>5. \A n \in Nodes, x \in Names : endpoints[n][x] = NoNode /\ peerNames[n][x] = NoId
    BY <1>1 DEF Init
  <1>6. \A t \in Threads : pc[t] = "idle"
    BY <1>1 DEF Init
  <1>7. PeerIsReady /\ AnswersReachSender
    BY <1>3, <1>5, TableTypes DEF PeerIsReady, AnswersReachSender, FindSession
  <1>8. TablesInv
    BY <1>2, <1>4, <1>5, <1>6, <1>7, TableTypes DEF TablesInv
  <1>9. GroupTypeOK
    BY SMT, NoCallType DEF GroupTablesInit, GroupTypeOK
  <1> QED
    BY <1>8, <1>9

LEMMA TypesStep ==
    ASSUME TablesInv, GroupTypeOK, [GroupTablesNext]_<<vars, groupVars>>
    PROVE  TablesInv' /\ TablesGrow /\ GroupTypeOK'
  <1> DEFINE G == TablesInv' /\ TablesGrow /\ GroupTypeOK'
  <1> SUFFICES G
    OBVIOUS
  <1>1. CASE Next /\ UNCHANGED groupVars
    BY <1>1, ConnectionTables DEF groupVars, groupTables, GroupTypeOK
  <1>2. ASSUME NEW n \in Nodes, NEW g \in Groups, JoinMulticast(n, g) \/ LeaveMulticast(n, g)
        PROVE  G
    BY <1>2, JoinLeaveTypes
  <1>3. ASSUME NEW t \in Threads, NEW g \in Groups, NEW names \in Lists[Home[t]],
               SetReplicas(t, g, names)
        PROVE  G
    <2> DEFINE k == [NoCall EXCEPT !.group = g, !.list = names, !.rest = names]
    <2>1. names \in Seq(Nodes) /\ names # << >>
      BY ListTypes, TableTypes
    <2>2. k \in Calls /\ k.rest # << >>
      BY <2>1, FirstCall
    <2>3. ConnectNext(t, k)
      BY <1>3 DEF SetReplicas
    <2> HIDE DEF k
    <2> QED
      BY <2>2, <2>3, ConnectNextTypes
  <1>4. ASSUME NEW t \in Threads, NextReplica(t)
        PROVE  G
    <2>1. call[t] \in Calls
      BY DEF GroupTypeOK
    <2> QED
      BY <1>4, <2>1, ConnectNextTypes DEF NextReplica
  <1>5. ASSUME NEW t \in Threads,
               \/ StoreReplicas(t) \/ AcceptGroups(t) \/ InsertGroups(t) \/ SetupGroups(t)
               \/ ConnectFails(t)
        PROVE  G
    BY <1>5, GroupThreadTypes
  <1>6. CASE UNCHANGED <<vars, groupVars>>
    <2>1. /\ UNCHANGED <<sessions, uid, nextId, nodeIds, peerNames, revNames, endpoints, active,
                         pc, peer, protocol, contextId, replicas, extIds, call>>
          /\ TypeOK
      BY <1>6 DEF vars, tables, groupVars, groupTables, TablesInv
    <2>2. \A n \in Nodes : nextId[n] \in Nat
      BY <2>1, NodeEntryTypes
    <2>3. TablesGrow
      <3>1. \A n \in Nodes : nextId[n] <= nextId[n]
        BY SMT, <2>2
      <3> QED
        BY <2>1, <3>1 DEF TablesGrow
    <2>4. TablesInv'
      <3>1. TypeOK'
        BY <2>1 DEF TypeOK
      <3>0. PeerIsReady /\ AnswersReachSender
        BY DEF TablesInv
      <3>2. PeerIsReady' /\ AnswersReachSender'
        <4>1. PeerIsReady'
          BY <2>1, <3>0 DEF PeerIsReady, FindSession, Knows
        <4>2. AnswersReachSender'
          BY SMT, <2>1, <3>0 DEF AnswersReachSender
        <4> QED
          BY <4>1, <4>2
      <3>3. ASSUME NEW t \in Threads
            PROVE  /\ pc'[t] # "idle" => peer'[t] \in Nodes
                   /\ pc'[t] \in {"insert", "setup"} => Knows(peer[t], Home[t])'
        BY <2>1 DEF TablesInv, Knows
      <3>4. /\ \A n, m \in Nodes : nodeIds'[n][m] < nextId'[n]
            /\ \A n \in Nodes, k \in ServerNames : uid'[n] <= k => endpoints'[n][k] = NoNode
            /\ \A n, m \in Nodes : endpoints'[n][m] \in {NoNode, m}
        BY <2>1 DEF TablesInv
      <3> QED
        BY <3>1, <3>2, <3>3, <3>4 DEF TablesInv
    <2> QED
      BY <2>1, <2>3, <2>4 DEF GroupTypeOK
  <1> HIDE DEF G
  <1> QED
    BY <1>1, <1>2, <1>3, <1>4, <1>5, <1>6 DEF GroupTablesNext

\* Whatever handshakes fail, and however threads of one node interleave in them, the
\* tables of SessionManager and Controller stay consistent.
THEOREM TablesConsistent == GroupTablesSpec => [](TablesInv /\ GroupTypeOK)
  <1>1. TablesInv /\ GroupTypeOK /\ [GroupTablesNext]_<<vars, groupVars>> =>
            (TablesInv /\ GroupTypeOK)'
    BY TypesStep
  <1> QED
    BY <1>1, TypesInitial, PTL DEF GroupTablesSpec

\* A node that can address a peer by name is known to that peer.
THEOREM PeersReady == GroupTablesSpec => []PeerIsReady
  <1>1. TablesInv => PeerIsReady
    BY DEF TablesInv
  <1> QED
    BY <1>1, TablesConsistent, PTL

\* An acknowledgement goes to the source of the packet that it answers.
THEOREM AnswersReturnToSender == GroupTablesSpec => []AnswersReachSender
  <1>1. TablesInv => AnswersReachSender
    BY DEF TablesInv
  <1> QED
    BY <1>1, TablesConsistent, PTL

(***************************************************************************)
(* The group tables, for applications that join before they connect.       *)
(***************************************************************************)

\* No group is joined in the step, and no queue pair is forgotten.
NoJoin == \A n \in Nodes, g \in Groups : contextId'[n][g] \in {contextId[n][g], NoId}
ExtGrow == \A m, n \in Nodes : \A q \in Ids : extIds[m][n][q] # NoId => extIds'[m][n][q] # NoId

\* Registered and Reached in the next state.
RegisteredNext(n, m, g) == contextId'[n][g] # NoId => extIds'[m][n][contextId'[n][g]] # NoId
ReachedNext(n, m) == \A g \in Groups : RegisteredNext(n, m, g)

LEMMA RegisteredStays ==
    ASSUME GroupTypeOK, NoJoin, ExtGrow, NEW n \in Nodes, NEW m \in Nodes
    PROVE  /\ \A g \in Groups : Registered(n, m, g) => RegisteredNext(n, m, g)
           /\ Reached(n, m) => ReachedNext(n, m)
  <1>1. \A g \in Groups : Registered(n, m, g) => RegisteredNext(n, m, g)
    <2> SUFFICES ASSUME NEW g \in Groups, Registered(n, m, g), contextId'[n][g] # NoId
                 PROVE  extIds'[m][n][contextId'[n][g]] # NoId
      BY DEF RegisteredNext
    <2>1. contextId'[n][g] = contextId[n][g] /\ contextId[n][g] \in Ids
      BY SMT DEF NoJoin, GroupTypeOK
    <2> QED
      BY <2>1 DEF Registered, ExtGrow
  <1> QED
    BY <1>1 DEF Reached, ReachedNext

\* CallOK in the next state.
LEMMA CallNext ==
    ASSUME NEW t \in Threads,
           call'[t].list \in Lists[Home[t]] \cup {<< >>},
           pc'[t] \in {"insert", "setup"} => ReachedNext(Home[t], peer'[t]),
           protocol' = "mcast" /\ pc'[t] # "idle" =>
              /\ call'[t].group \in Groups
              /\ pc'[t] = "connect" =>
                    \A g \in Groups : contextId'[Home[t]][g] \in call'[t].request \cup {NoId}
              /\ \A i \in DOMAIN call'[t].list :
                    \/ \E j \in DOMAIN call'[t].rest : call'[t].rest[j] = call'[t].list[i]
                    \/ pc'[t] = "connect" /\ call'[t].list[i] = peer'[t]
                    \/ ReachedNext(Home[t], call'[t].list[i])
    PROVE  CallOK(t)'
  BY DEF CallOK, Reached, Registered, ReachedNext, RegisteredNext, GroupQps

\* A thread that does nothing keeps what it has reached.
LEMMA CallKept ==
    ASSUME TablesInv, GroupTypeOK, NoJoin, ExtGrow, protocol' = protocol,
           NEW t \in Threads, CallOK(t),
           call'[t] = call[t], pc'[t] = pc[t], peer'[t] = peer[t]
    PROVE  CallOK(t)'
  <1> DEFINE n == Home[t]
             k == call[t]
  <1>0. n \in Nodes /\ k \in Calls /\ k.list \in Seq(Nodes)
    BY TableTypes DEF GroupTypeOK, Calls
  <1>1. \A i \in DOMAIN k.list : k.list[i] \in Nodes
    BY SMT, <1>0
  <1>2. pc[t] # "idle" => peer[t] \in Nodes
    BY DEF TablesInv
  <1>3. \A m \in Nodes : Reached(n, m) => ReachedNext(n, m)
    BY <1>0, RegisteredStays
  <1>4. GroupQps(n) \subseteq k.request =>
            \A g \in Groups : contextId'[n][g] \in k.request \cup {NoId}
    BY <1>0 DEF GroupQps, NoJoin
  <1>5. pc[t] \in {"insert", "setup"} => ReachedNext(n, peer[t])
    BY <1>2, <1>3 DEF CallOK
  <1>6. protocol = "mcast" /\ pc[t] # "idle" =>
              /\ k.group \in Groups
              /\ pc[t] = "connect" => \A g \in Groups : contextId'[n][g] \in k.request \cup {NoId}
              /\ \A i \in DOMAIN k.list :
                    \/ \E j \in DOMAIN k.rest : k.rest[j] = k.list[i]
                    \/ pc[t] = "connect" /\ k.list[i] = peer[t]
                    \/ ReachedNext(n, k.list[i])
    BY <1>1, <1>3, <1>4 DEF CallOK
  <1>7. k.list \in Lists[n] \cup {<< >>}
    BY DEF CallOK
  <1> QED
    BY <1>5, <1>6, <1>7, CallNext

\* A thread that is outside of a call has reached all it has to.
LEMMA CallIdle ==
    ASSUME NEW t \in Threads, pc'[t] = "idle",
           call'[t].list \in Lists[Home[t]] \cup {<< >>}
    PROVE  CallOK(t)'
  BY CallNext

LEMMA ReplicasKept ==
    ASSUME GroupTypeOK, ExtGrow, NEW n \in Nodes, NEW g \in Groups, ReplicasOK(n, g),
           replicas'[n][g] = replicas[n][g], contextId'[n][g] = contextId[n][g]
    PROVE  ReplicasOK(n, g)'
  <1>1. \A i \in DOMAIN replicas[n][g] : replicas[n][g][i] \in Nodes
    BY SMT DEF GroupTypeOK
  <1>2. contextId[n][g] # NoId => contextId[n][g] \in Ids
    BY SMT DEF GroupTypeOK
  <1>3. ASSUME NEW i \in DOMAIN replicas[n][g]
        PROVE  RegisteredNext(n, replicas[n][g][i], g)
    BY <1>1, <1>2 DEF ReplicasOK, Registered, RegisteredNext, ExtGrow
  <1> QED
    BY <1>3 DEF ReplicasOK, Registered, RegisteredNext

\* The ids of the queue pairs of groups still lead to their nodes when the tables grow.
LEMMA ExtIdsKept ==
    ASSUME TablesInv, GroupTypeOK, ExtIdsLead, TablesGrow, TablesInv', extIds' = extIds
    PROVE  ExtIdsLead' /\ ExtGrow
  <1>1. ExtGrow
    BY DEF ExtGrow
  <1>2. ASSUME NEW m \in Nodes, NEW n \in Nodes, NEW q \in Ids, extIds[m][n][q] # NoId
        PROVE  LeadsNext(m, extIds[m][n][q], n)
    BY <1>2, ExtIdStays
  <1>3. ExtIdsLead'
    BY <1>2, ExtIdsLeadNext
  <1> QED
    BY <1>1, <1>3

\* registerNode gives the queue pairs of groups an id that leads to their node.
LEMMA ExtIdsRegistered ==
    ASSUME TablesInv, GroupTypeOK, ExtIdsLead, TablesGrow, TablesInv',
           NEW o \in Nodes, NEW p \in Nodes, NEW qps, NEW x \in Names,
           RegisterQps(o, p, qps), nextId[o] \in Ids, nextId'[o] = nextId[o] + 1,
           revNames'[o][nextId[o]] = x, endpoints'[o][x] = p
    PROVE  /\ ExtIdsLead' /\ ExtGrow
           /\ \A q \in Ids : q \in qps => extIds'[o][p][q] # NoId
  <1>1. /\ \A q \in Ids : extIds'[o][p][q] = IF q \in qps THEN nextId[o] ELSE extIds[o][p][q]
        /\ \A m, n \in Nodes : ~(m = o /\ n = p) => extIds'[m][n] = extIds[m][n]
    BY SMT, RegisterEffect
  <1>2. \A m, n \in Nodes : \A q \in Ids :
            extIds'[m][n][q] = extIds[m][n][q] \/ (m = o /\ n = p /\ extIds'[m][n][q] = nextId[o])
    BY SMT, <1>1
  <1>3. ExtGrow
    BY SMT, <1>2, TableTypes DEF ExtGrow
  <1>4. \A q \in Ids : q \in qps => extIds'[o][p][q] # NoId
    BY SMT, <1>1, TableTypes
  <1>5. LeadsNext(o, nextId[o], p)
    <2>1. nextId[o] \in Nat
      BY TableTypes
    <2>2. nextId[o] < nextId'[o]
      BY SMT, <2>1
    <2> QED
      BY <2>2, TableTypes DEF LeadsNext
  <1>6. ASSUME NEW m \in Nodes, NEW n \in Nodes, NEW q \in Ids, extIds[m][n][q] # NoId
        PROVE  LeadsNext(m, extIds[m][n][q], n)
    BY <1>6, ExtIdStays
  <1>7. ASSUME NEW m \in Nodes, NEW n \in Nodes, NEW q \in Ids, extIds'[m][n][q] # NoId
        PROVE  LeadsNext(m, extIds'[m][n][q], n)
    <2>1. extIds'[m][n][q] = extIds[m][n][q] \/ (m = o /\ n = p /\ extIds'[m][n][q] = nextId[o])
      BY SMT, <1>2
    <2>2. CASE extIds'[m][n][q] = extIds[m][n][q]
      BY <1>6, <1>7, <2>2
    <2>3. CASE m = o /\ n = p /\ extIds'[m][n][q] = nextId[o]
      BY <1>5, <2>3
    <2> QED
      BY <2>1, <2>2, <2>3
  <1>8. ExtIdsLead'
    BY <1>7, ExtIdsLeadNext
  <1> QED
    BY <1>3, <1>4, <1>8

\* The parts of the invariant, put together after a step that joins no group.
LEMMA GroupTablesNextInv ==
    ASSUME GroupTablesInv, TablesInv', GroupTypeOK', ExtIdsLead', NoJoin, ExtGrow,
           protocol' = protocol,
           \A n \in Nodes : \A m \in sessions'[n] : m \in sessions[n] \/ ReachedNext(n, m),
           \A t \in Threads : CallOK(t)',
           \A n \in Nodes, g \in Groups : ReplicasOK(n, g)'
    PROVE  GroupTablesInv'
  <1>1. \A n \in Nodes : \A m \in sessions'[n] : Reached(n, m)'
    <2> SUFFICES ASSUME NEW n \in Nodes, NEW m \in sessions'[n]
                 PROVE  ReachedNext(n, m)
      BY DEF Reached, Registered, ReachedNext, RegisteredNext
    <2>1. m \in Nodes /\ GroupTypeOK
      BY DEF TablesInv, TypeOK, GroupTablesInv
    <2>2. CASE m \in sessions[n]
      BY <2>1, <2>2, RegisteredStays DEF GroupTablesInv
    <2> QED
      BY <2>2
  <1>2. protocol' = "unreliable" => \A n \in Nodes, g \in Groups : contextId'[n][g] = NoId
    BY DEF GroupTablesInv, NoJoin
  <1> QED
    BY <1>1, <1>2 DEF GroupTablesInv

\* A step without groups.
LEMMA UnreliableInv ==
    ASSUME GroupTablesInv, protocol = "unreliable", Next, UNCHANGED groupVars
    PROVE  GroupTablesInv'
  <1>1. UNCHANGED <<protocol, contextId, replicas, extIds, call>>
    BY DEF groupVars, groupTables
  <1>2. TablesInv' /\ TablesGrow /\ TablesInv /\ GroupTypeOK /\ ExtIdsLead
    BY ConnectionTables DEF GroupTablesInv
  <1>3. ExtIdsLead' /\ ExtGrow /\ GroupTypeOK' /\ NoJoin
    BY <1>1, <1>2, ExtIdsKept DEF GroupTypeOK, NoJoin
  <1>4. \A n, m \in Nodes : ReachedNext(n, m)
    BY <1>1 DEF GroupTablesInv, ReachedNext, RegisteredNext
  <1>5. ASSUME NEW t \in Threads
        PROVE  CallOK(t)'
    <2>1. call'[t].list \in Lists[Home[t]] \cup {<< >>}
      BY <1>1 DEF GroupTablesInv, CallOK
    <2>2. pc'[t] \in {"insert", "setup"} => ReachedNext(Home[t], peer'[t])
      BY <1>2, <1>4, TableTypes DEF TablesInv
    <2>3. protocol' # "mcast"
      BY <1>1
    <2> QED
      BY <2>1, <2>2, <2>3, CallNext
  <1>6. \A n \in Nodes, g \in Groups : ReplicasOK(n, g)'
    BY <1>1, <1>2, <1>3, ReplicasKept DEF GroupTablesInv
  <1>7. \A n \in Nodes : \A m \in sessions'[n] : ReachedNext(n, m)
    BY <1>2, <1>4 DEF TablesInv, TypeOK
  <1> QED
    BY <1>1, <1>2, <1>3, <1>5, <1>6, <1>7, GroupTablesNextInv

\* A group is joined while its node has no session and no call.
LEMMA JoinInv ==
    ASSUME JoinFirst, GroupTablesInv, protocol = "mcast",
           NEW n \in Nodes, NEW g \in Groups, JoinMulticast(n, g)
    PROVE  GroupTablesInv'
  <1>1. TablesInv' /\ TablesGrow /\ GroupTypeOK' /\ TablesInv /\ GroupTypeOK /\ ExtIdsLead
    BY JoinLeaveTypes DEF GroupTablesInv
  <1>2. /\ contextId[n][g] = NoId /\ sessions[n] = {}
        /\ \A t \in Threads : Home[t] = n => pc[t] = "idle"
        /\ \/ contextId' = contextId
           \/ contextId' = [contextId EXCEPT ![n] = [contextId[n] EXCEPT ![g] = nextId[n]]]
        /\ UNCHANGED <<sessions, pc, peer, protocol, replicas, extIds, call>>
    BY DEF JoinMulticast
  <1>3. ExtIdsLead' /\ ExtGrow
    BY <1>1, <1>2, ExtIdsKept
  <1>4. /\ \A o \in Nodes \ {n} : contextId'[o] = contextId[o]
        /\ \A h \in Groups \ {g} : contextId'[n][h] = contextId[n][h]
    BY SMT, <1>1, <1>2 DEF GroupTypeOK
  <1>5. ASSUME NEW o \in Nodes \ {n}, NEW m \in Nodes, Reached(o, m)
        PROVE  ReachedNext(o, m)
    BY <1>2, <1>4, <1>5 DEF Reached, Registered, ReachedNext, RegisteredNext
  <1>6. \A o \in Nodes : \A m \in sessions'[o] : Reached(o, m)'
    <2> SUFFICES ASSUME NEW o \in Nodes, NEW m \in sessions[o]
                 PROVE  ReachedNext(o, m)
      BY <1>2 DEF Reached, Registered, ReachedNext, RegisteredNext
    <2>1. o # n /\ m \in Nodes
      BY <1>1, <1>2 DEF TablesInv, TypeOK
    <2> QED
      BY <1>5, <2>1 DEF GroupTablesInv
  <1>7. ASSUME NEW t \in Threads
        PROVE  CallOK(t)'
    <2>0. CallOK(t) /\ Home[t] \in Nodes
      BY TableTypes DEF GroupTablesInv
    <2>1. CASE Home[t] = n
      BY <1>2, <2>0, <2>1, CallIdle DEF CallOK
    <2>2. CASE Home[t] # n
      <3>1. call[t] \in Calls /\ \A i \in DOMAIN call[t].list : call[t].list[i] \in Nodes
        BY SMT, <1>1 DEF GroupTypeOK, Calls
      <3>2. pc[t] # "idle" => peer[t] \in Nodes
        BY <1>1 DEF TablesInv
      <3>3. pc'[t] \in {"insert", "setup"} => ReachedNext(Home[t], peer'[t])
        BY <1>2, <1>5, <2>0, <2>2, <3>2 DEF CallOK
      <3>4. call'[t].list \in Lists[Home[t]] \cup {<< >>}
        BY <1>2, <2>0 DEF CallOK
      <3>5. ASSUME protocol' = "mcast", pc'[t] # "idle"
            PROVE  /\ call'[t].group \in Groups
                   /\ pc'[t] = "connect" =>
                         \A h \in Groups : contextId'[Home[t]][h] \in call'[t].request \cup {NoId}
                   /\ \A i \in DOMAIN call'[t].list :
                         \/ \E j \in DOMAIN call'[t].rest : call'[t].rest[j] = call'[t].list[i]
                         \/ pc'[t] = "connect" /\ call'[t].list[i] = peer'[t]
                         \/ ReachedNext(Home[t], call'[t].list[i])
        <4>1. /\ call[t].group \in Groups
              /\ pc[t] = "connect" => GroupQps(Home[t]) \subseteq call[t].request
              /\ \A i \in DOMAIN call[t].list :
                    \/ \E j \in DOMAIN call[t].rest : call[t].rest[j] = call[t].list[i]
                    \/ pc[t] = "connect" /\ call[t].list[i] = peer[t]
                    \/ Reached(Home[t], call[t].list[i])
          BY <1>2, <2>0, <3>5 DEF CallOK
        <4>2. pc[t] = "connect" =>
                  \A h \in Groups : contextId'[Home[t]][h] \in call[t].request \cup {NoId}
          BY <1>4, <2>0, <2>2, <4>1 DEF GroupQps
        <4>3. \A i \in DOMAIN call[t].list : Reached(Home[t], call[t].list[i]) =>
                  ReachedNext(Home[t], call[t].list[i])
          BY <1>5, <2>0, <2>2, <3>1
        <4> QED
          BY <1>2, <4>1, <4>2, <4>3
      <3> QED
        BY <3>3, <3>4, <3>5, CallNext
    <2> QED
      BY <2>1, <2>2
  <1>8. ASSUME NEW o \in Nodes, NEW h \in Groups
        PROVE  ReplicasOK(o, h)'
    <2>1. ReplicasOK(o, h)
      BY DEF GroupTablesInv
    <2>2. CASE o = n /\ h = g
      <3>1. replicas'[o][h] = << >>
        BY <1>2, <2>1, <2>2 DEF ReplicasOK
      <3> QED
        BY SMT, <3>1 DEF ReplicasOK
    <2>3. CASE ~(o = n /\ h = g)
      <3>1. contextId'[o][h] = contextId[o][h] /\ replicas'[o][h] = replicas[o][h]
        BY <1>2, <1>4, <2>3
      <3> QED
        BY <1>1, <1>3, <2>1, <3>1, ReplicasKept
    <2> QED
      BY <2>2, <2>3
  <1> QED
    BY <1>1, <1>2, <1>3, <1>6, <1>7, <1>8 DEF GroupTablesInv

LEMMA LeaveInv ==
    ASSUME GroupTablesInv, NEW n \in Nodes, NEW g \in Groups, LeaveMulticast(n, g)
    PROVE  GroupTablesInv'
  <1>1. TablesInv' /\ TablesGrow /\ GroupTypeOK' /\ TablesInv /\ GroupTypeOK /\ ExtIdsLead
    BY JoinLeaveTypes DEF GroupTablesInv
  <1>2. /\ contextId' = [contextId EXCEPT ![n] = [contextId[n] EXCEPT ![g] = NoId]]
        /\ replicas' = [replicas EXCEPT ![n] = [replicas[n] EXCEPT ![g] = << >>]]
        /\ UNCHANGED <<sessions, pc, peer, protocol, extIds, call>>
    BY DEF LeaveMulticast, vars, tables
  <1>3. ExtIdsLead' /\ ExtGrow
    BY <1>1, <1>2, ExtIdsKept
  <1>4. NoJoin
    BY SMT, <1>1, <1>2 DEF NoJoin, GroupTypeOK
  <1>5. \A t \in Threads : CallOK(t)'
    BY <1>1, <1>2, <1>3, <1>4, CallKept DEF GroupTablesInv
  <1>6. ASSUME NEW o \in Nodes, NEW h \in Groups
        PROVE  ReplicasOK(o, h)'
    <2>1. ReplicasOK(o, h)
      BY DEF GroupTablesInv
    <2>2. CASE o = n /\ h = g
      <3>1. replicas'[o][h] = << >>
        BY SMT, <1>1, <1>2, <2>2 DEF GroupTypeOK
      <3> QED
        BY SMT, <3>1 DEF ReplicasOK
    <2>3. CASE ~(o = n /\ h = g)
      <3>1. contextId'[o][h] = contextId[o][h] /\ replicas'[o][h] = replicas[o][h]
        BY SMT, <1>1, <1>2, <2>3 DEF GroupTypeOK
      <3> QED
        BY <1>1, <1>3, <2>1, <3>1, ReplicasKept
    <2> QED
      BY <2>2, <2>3
  <1> QED
    BY <1>1, <1>2, <1>3, <1>4, <1>5, <1>6, GroupTablesNextInv

\* A step of the thread t that changes no table of groups but extIds.
LEMMA ThreadInv ==
    ASSUME GroupTablesInv, TablesInv', TablesGrow, GroupTypeOK', ExtIdsLead', ExtGrow,
           UNCHANGED <<protocol, contextId, replicas>>, NEW t \in Threads,
           \A u \in Threads \ {t} : call'[u] = call[u] /\ pc'[u] = pc[u] /\ peer'[u] = peer[u],
           \A n \in Nodes : \A m \in sessions'[n] : m \in sessions[n] \/ ReachedNext(n, m),
           CallOK(t)'
    PROVE  GroupTablesInv'
  <1>1. NoJoin
    BY DEF NoJoin
  <1>2. \A u \in Threads : CallOK(u)'
    BY <1>1, CallKept DEF GroupTablesInv
  <1>3. \A n \in Nodes, g \in Groups : ReplicasOK(n, g)'
    BY ReplicasKept DEF GroupTablesInv
  <1> QED
    BY <1>1, <1>2, <1>3, GroupTablesNextInv

\* setMulticastReplicas turns to the next name of its list.
LEMMA ConnectNextInv ==
    ASSUME GroupTablesInv, NEW t \in Threads, NEW k \in Calls, k.rest # << >>, k.group \in Groups,
           k.list \in Lists[Home[t]] \cup {<< >>}, ConnectNext(t, k),
           \A i \in DOMAIN k.list :
               \/ \E j \in DOMAIN k.rest : k.rest[j] = k.list[i]
               \/ Reached(Home[t], k.list[i])
    PROVE  GroupTablesInv'
  <1> DEFINE n == Home[t]
  <1>1. /\ TablesInv' /\ TablesGrow /\ GroupTypeOK'
        /\ UNCHANGED <<sessions, protocol, contextId, replicas, extIds>>
        /\ \A u \in Threads \ {t} : call'[u] = call[u] /\ pc'[u] = pc[u] /\ peer'[u] = peer[u]
        /\ peer'[t] = Head(k.rest) /\ peer'[t] \in Nodes
        /\ \/ /\ peer'[t] \in sessions[n] /\ pc'[t] = "send"
              /\ call'[t] = [k EXCEPT !.rest = Tail(k.rest)]
           \/ /\ pc'[t] = "connect"
              /\ call'[t] = [k EXCEPT !.rest = Tail(k.rest), !.request = GroupQps(n)]
    BY ConnectNextTypes DEF GroupTablesInv
  <1>2. TablesInv /\ GroupTypeOK /\ ExtIdsLead /\ n \in Nodes
    BY TableTypes DEF GroupTablesInv
  <1>3. ExtIdsLead' /\ ExtGrow
    BY <1>1, <1>2, ExtIdsKept
  <1>4. /\ call'[t].list = k.list /\ call'[t].rest = Tail(k.rest) /\ call'[t].group = k.group
        /\ pc'[t] = "connect" => call'[t].request = GroupQps(n)
    BY <1>1 DEF Calls
  <1>5. \A m \in Nodes : Reached(n, m) => ReachedNext(n, m)
    BY <1>1 DEF Reached, Registered, ReachedNext, RegisteredNext
  <1>6. k.rest \in Seq(Nodes) /\ k.list \in Seq(Nodes)
    BY DEF Calls
  <1>7. ASSUME NEW i \in DOMAIN k.list
        PROVE  \/ \E j \in DOMAIN Tail(k.rest) : Tail(k.rest)[j] = k.list[i]
               \/ pc'[t] = "connect" /\ k.list[i] = peer'[t]
               \/ ReachedNext(n, k.list[i])
    <2>0. k.list[i] \in Nodes
      BY SMT, <1>6
    <2>1. CASE Reached(n, k.list[i])
      BY <1>5, <2>0, <2>1
    <2>2. ASSUME NEW j \in DOMAIN k.rest, k.rest[j] = k.list[i], j # 1
          PROVE  \E p \in DOMAIN Tail(k.rest) : Tail(k.rest)[p] = k.list[i]
      <3>1. j \in 2..Len(k.rest)
        BY SMT, <1>6, <2>2
      <3>2. j - 1 \in DOMAIN Tail(k.rest) /\ Tail(k.rest)[j - 1] = k.rest[j]
        BY SMT, <1>6, <3>1
      <3> QED
        BY <2>2, <3>2
    <2>3. CASE k.rest[1] = k.list[i]
      <3>1. k.list[i] = peer'[t]
        BY SMT, <1>1, <1>6, <2>3
      <3>2. peer'[t] \in sessions[n] => ReachedNext(n, peer'[t])
        BY <1>1, <1>2, <1>5 DEF GroupTablesInv
      <3> QED
        BY <1>1, <3>1, <3>2
    <2> QED
      BY <2>1, <2>2, <2>3
  <1>8. pc'[t] = "connect" =>
            \A g \in Groups : contextId'[n][g] \in call'[t].request \cup {NoId}
    BY <1>1, <1>4 DEF GroupQps
  <1>9. CallOK(t)'
    <2>1. pc'[t] \notin {"insert", "setup"}
      BY <1>1
    <2> QED
      BY <1>4, <1>7, <1>8, <2>1, CallNext
  <1> QED
    BY <1>1, <1>3, <1>9, ThreadInv

\* The whole list has been reached when it is stored.
LEMMA StoreInv ==
    ASSUME GroupTablesInv, protocol = "mcast", NEW t \in Threads, StoreReplicas(t)
    PROVE  GroupTablesInv'
  <1> DEFINE n == Home[t]
             k == call[t]
             g == call[t].group
  <1>1. TablesInv' /\ TablesGrow /\ GroupTypeOK' /\ TablesInv /\ GroupTypeOK /\ ExtIdsLead
    BY GroupThreadTypes DEF GroupTablesInv
  <1>2. n \in Nodes /\ call \in [Threads -> Calls] /\ k \in Calls /\ pc \in [Threads -> {"idle", "connect", "insert", "setup", "send"}]
    BY <1>1, TableTypes DEF GroupTypeOK, TablesInv, TypeOK
  <1>3. /\ pc[t] = "send" /\ k.rest = << >>
        /\ replicas' = IF contextId[n][g] = NoId THEN replicas
                       ELSE [replicas EXCEPT ![n] = [replicas[n] EXCEPT ![g] = k.list]]
        /\ pc' = [pc EXCEPT ![t] = "idle"] /\ call' = [call EXCEPT ![t] = NoCall]
        /\ UNCHANGED <<sessions, peer, protocol, contextId, extIds>>
    BY DEF StoreReplicas, Goto
  <1>4. ExtIdsLead' /\ ExtGrow
    BY <1>1, <1>3, ExtIdsKept
  <1>5. NoJoin
    BY <1>3 DEF NoJoin
  <1>6. CallOK(t)'
    <2>1. pc'[t] = "idle" /\ call'[t].list = << >>
      BY <1>2, <1>3 DEF NoCall
    <2> QED
      BY <2>1, CallIdle
  <1>7. \A u \in Threads \ {t} : call'[u] = call[u] /\ pc'[u] = pc[u] /\ peer'[u] = peer[u]
    BY <1>2, <1>3
  <1>8. \A u \in Threads : CallOK(u)'
    BY <1>1, <1>3, <1>4, <1>5, <1>6, <1>7, CallKept DEF GroupTablesInv
  <1>9. ASSUME NEW o \in Nodes, NEW h \in Groups
        PROVE  ReplicasOK(o, h)'
    <2>1. CASE o = n /\ h = g /\ contextId[n][g] # NoId
      <3>1. replicas'[o][h] = k.list
        BY SMT, <1>1, <1>2, <1>3, <2>1 DEF GroupTypeOK
      <3>2. /\ k.list \in Lists[n] \cup {<< >>}
            /\ \A i \in DOMAIN k.list : Reached(n, k.list[i])
        BY SMT, <1>3 DEF GroupTablesInv, CallOK
      <3>3. \A i \in DOMAIN k.list : RegisteredNext(n, k.list[i], g)
        BY <1>3, <2>1, <3>2 DEF Reached, Registered, RegisteredNext
      <3>4. contextId'[o][h] # NoId
        BY <1>3, <2>1
      <3> HIDE DEF k
      <3> QED
        BY <2>1, <3>1, <3>2, <3>3, <3>4 DEF ReplicasOK, Registered, RegisteredNext
    <2>2. CASE ~(o = n /\ h = g /\ contextId[n][g] # NoId)
      <3>1. contextId'[o][h] = contextId[o][h] /\ replicas'[o][h] = replicas[o][h]
        BY SMT, <1>1, <1>2, <1>3, <2>2 DEF GroupTypeOK
      <3> QED
        BY <1>1, <1>4, <3>1, ReplicasKept DEF GroupTablesInv
    <2> QED
      BY <2>1, <2>2
  <1> QED
    BY <1>1, <1>3, <1>4, <1>5, <1>8, <1>9, GroupTablesNextInv

\* The listener has registered the queue pairs of all groups of the caller.
LEMMA AcceptInv ==
    ASSUME GroupTablesInv, protocol = "mcast", NEW t \in Threads, AcceptGroups(t)
    PROVE  GroupTablesInv'
  <1> DEFINE n == Home[t]
             k == call[t]
  <1>1. TablesInv' /\ TablesGrow /\ GroupTypeOK' /\ TablesInv /\ GroupTypeOK /\ ExtIdsLead
    BY GroupThreadTypes DEF GroupTablesInv
  <1>2. /\ n \in Nodes /\ call \in [Threads -> Calls] /\ k \in Calls
        /\ pc \in [Threads -> {"idle", "connect", "insert", "setup", "send"}]
    BY <1>1, TableTypes DEF GroupTypeOK, TablesInv, TypeOK
  <1>3. /\ Accept(t) /\ pc[t] = "connect" /\ RegisterQps(peer[t], n, k.request)
        /\ pc' = [pc EXCEPT ![t] = "insert"]
        /\ call' = [call EXCEPT ![t] = [call[t] EXCEPT !.response = GroupQps(peer[t])]]
        /\ UNCHANGED <<sessions, peer, protocol, contextId, replicas>>
    BY DEF AcceptGroups, Accept, Goto
  <1>4. /\ peer[t] \in Nodes /\ nextId[peer[t]] \in Ids
        /\ nextId'[peer[t]] = nextId[peer[t]] + 1
        /\ revNames'[peer[t]][nextId[peer[t]]] = uid[peer[t]]
        /\ uid[peer[t]] \in Names
        /\ endpoints'[peer[t]][uid[peer[t]]] = n
    BY <1>1, <1>3, AcceptTables DEF Names
  <1>5. /\ ExtIdsLead' /\ ExtGrow
        /\ \A q \in Ids : q \in k.request => extIds'[peer[t]][n][q] # NoId
    BY <1>1, <1>2, <1>3, <1>4, ExtIdsRegistered
  <1>6. /\ k.list \in Lists[n] \cup {<< >>} /\ k.group \in Groups
        /\ GroupQps(n) \subseteq k.request
        /\ \A i \in DOMAIN k.list :
              \/ \E j \in DOMAIN k.rest : k.rest[j] = k.list[i]
              \/ k.list[i] = peer[t]
              \/ Reached(n, k.list[i])
    BY <1>3 DEF GroupTablesInv, CallOK
  <1>7. ReachedNext(n, peer[t])
    <2> SUFFICES ASSUME NEW g \in Groups, contextId[n][g] # NoId
                 PROVE  extIds'[peer[t]][n][contextId[n][g]] # NoId
      BY <1>3 DEF ReachedNext, RegisteredNext
    <2>1. contextId[n][g] \in Ids
      BY SMT, <1>1, <1>2 DEF GroupTypeOK
    <2>2. contextId[n][g] \in k.request
      BY <1>6 DEF GroupQps
    <2> QED
      BY <1>5, <2>1, <2>2
  <1>8. /\ call'[t].list = k.list /\ call'[t].rest = k.rest /\ call'[t].group = k.group
        /\ pc'[t] = "insert" /\ peer'[t] = peer[t]
        /\ \A u \in Threads \ {t} : call'[u] = call[u] /\ pc'[u] = pc[u] /\ peer'[u] = peer[u]
    BY <1>2, <1>3 DEF Calls
  <1>9. NoJoin /\ \A i \in DOMAIN k.list : k.list[i] \in Nodes
    BY SMT, <1>2, <1>3 DEF NoJoin, Calls
  <1>10. \A i \in DOMAIN k.list : Reached(n, k.list[i]) => ReachedNext(n, k.list[i])
    BY <1>1, <1>2, <1>5, <1>9, RegisteredStays
  <1> HIDE DEF k, n
  <1>11. CallOK(t)'
    <2>1. /\ call'[t].list \in Lists[Home[t]] \cup {<< >>} /\ call'[t].group \in Groups
          /\ ReachedNext(Home[t], peer'[t])
      BY <1>6, <1>7, <1>8 DEF n
    <2>2. ASSUME NEW i \in DOMAIN k.list
          PROVE  \/ \E j \in DOMAIN k.rest : k.rest[j] = k.list[i]
                 \/ ReachedNext(n, k.list[i])
      BY <1>6, <1>7, <1>10
    <2> QED
      BY <1>8, <2>1, <2>2, CallNext DEF n
  <1> QED
    BY <1>1, <1>3, <1>5, <1>8, <1>11, ThreadInv

\* The session that SessionManager::connect inserts has been reached.
LEMMA InsertInv ==
    ASSUME GroupTablesInv, protocol = "mcast", NEW t \in Threads, InsertGroups(t)
    PROVE  GroupTablesInv'
  <1> DEFINE n == Home[t]
             k == call[t]
  <1>1. TablesInv' /\ TablesGrow /\ GroupTypeOK' /\ TablesInv /\ GroupTypeOK /\ ExtIdsLead
    BY GroupThreadTypes DEF GroupTablesInv
  <1>2. /\ n \in Nodes /\ sessions \in [Nodes -> SUBSET Nodes]
        /\ pc \in [Threads -> {"idle", "connect", "insert", "setup", "send"}]
    BY <1>1, TableTypes DEF TablesInv, TypeOK
  <1>3. /\ pc[t] = "insert" /\ pc' = [pc EXCEPT ![t] = "setup"]
        /\ sessions' = [sessions EXCEPT ![n] = sessions[n] \cup {peer[t]}]
        /\ UNCHANGED <<peer, protocol, contextId, replicas, extIds, call>>
    BY DEF InsertGroups, Insert, Goto, groupVars, groupTables
  <1>4. ExtIdsLead' /\ ExtGrow
    BY <1>1, <1>3, ExtIdsKept
  <1>5. /\ k.list \in Lists[n] \cup {<< >>} /\ k.group \in Groups
        /\ Reached(n, peer[t])
        /\ \A i \in DOMAIN k.list :
              (\E j \in DOMAIN k.rest : k.rest[j] = k.list[i]) \/ Reached(n, k.list[i])
    BY <1>3 DEF GroupTablesInv, CallOK
  <1>6. \A m : Reached(n, m) => ReachedNext(n, m)
    BY <1>3 DEF Reached, Registered, ReachedNext, RegisteredNext
  <1>7. /\ pc'[t] = "setup" /\ peer'[t] = peer[t] /\ call'[t] = k
        /\ \A u \in Threads \ {t} : call'[u] = call[u] /\ pc'[u] = pc[u] /\ peer'[u] = peer[u]
    BY <1>2, <1>3
  <1>8. \A o \in Nodes : \A m \in sessions'[o] : m \in sessions[o] \/ ReachedNext(o, m)
    BY <1>2, <1>3, <1>5, <1>6
  <1> HIDE DEF k, n
  <1>9. CallOK(t)'
    BY <1>5, <1>6, <1>7, CallNext DEF n
  <1> QED
    BY <1>1, <1>3, <1>4, <1>7, <1>8, <1>9, ThreadInv

\* The end of the handshake on the side of the caller.
LEMMA SetupInv ==
    ASSUME GroupTablesInv, protocol = "mcast", NEW t \in Threads, SetupGroups(t)
    PROVE  GroupTablesInv'
  <1> DEFINE n == Home[t]
             k == call[t]
  <1>1. TablesInv' /\ TablesGrow /\ GroupTypeOK' /\ TablesInv /\ GroupTypeOK /\ ExtIdsLead
    BY GroupThreadTypes DEF GroupTablesInv
  <1>2. /\ n \in Nodes /\ call \in [Threads -> Calls] /\ k \in Calls
        /\ pc \in [Threads -> {"idle", "connect", "insert", "setup", "send"}]
    BY <1>1, TableTypes DEF GroupTypeOK, TablesInv, TypeOK
  <1>3. /\ Setup(t) /\ pc[t] = "setup" /\ RegisterQps(n, peer[t], k.response)
        /\ pc' = [pc EXCEPT ![t] = "send"]
        /\ call' = [call EXCEPT ![t] = [call[t] EXCEPT !.request = {}, !.response = {}]]
        /\ UNCHANGED <<sessions, peer, protocol, contextId, replicas>>
    <2>1. call' = [call EXCEPT ![t].request = {}, ![t].response = {}]
      BY DEF SetupGroups
    <2>2. call' = [call EXCEPT ![t] = [call[t] EXCEPT !.request = {}, !.response = {}]]
      BY <1>2, <2>1 DEF Calls
    <2> QED
      BY <2>2 DEF SetupGroups, Setup, Goto
  <1>4. /\ peer[t] \in Nodes /\ peer[t] \in Names /\ nextId[n] \in Ids
        /\ nextId'[n] = nextId[n] + 1
        /\ revNames'[n][nextId[n]] = peer[t]
        /\ endpoints'[n][peer[t]] = peer[t]
    BY <1>1, <1>3, SetupTables DEF Names
  <1>5. ExtIdsLead' /\ ExtGrow
    BY <1>1, <1>2, <1>3, <1>4, ExtIdsRegistered
  <1>6. /\ k.list \in Lists[n] \cup {<< >>} /\ k.group \in Groups
        /\ \A i \in DOMAIN k.list :
              (\E j \in DOMAIN k.rest : k.rest[j] = k.list[i]) \/ Reached(n, k.list[i])
    BY <1>3 DEF GroupTablesInv, CallOK
  <1>7. /\ call'[t].list = k.list /\ call'[t].rest = k.rest /\ call'[t].group = k.group
        /\ pc'[t] = "send"
        /\ \A u \in Threads \ {t} : call'[u] = call[u] /\ pc'[u] = pc[u] /\ peer'[u] = peer[u]
    BY <1>2, <1>3 DEF Calls
  <1>8. NoJoin /\ \A i \in DOMAIN k.list : k.list[i] \in Nodes
    BY SMT, <1>2, <1>3 DEF NoJoin, Calls
  <1>9. \A i \in DOMAIN k.list : Reached(n, k.list[i]) => ReachedNext(n, k.list[i])
    BY <1>1, <1>2, <1>5, <1>8, RegisteredStays
  <1> HIDE DEF k, n
  <1>10. CallOK(t)'
    <2>1. call'[t].list \in Lists[Home[t]] \cup {<< >>} /\ call'[t].group \in Groups
      BY <1>6, <1>7 DEF n
    <2>2. ASSUME NEW i \in DOMAIN k.list
          PROVE  \/ \E j \in DOMAIN k.rest : k.rest[j] = k.list[i]
                 \/ ReachedNext(n, k.list[i])
      BY <1>6, <1>9
    <2> QED
      BY <1>7, <2>1, <2>2, CallNext DEF n
  <1> QED
    BY <1>1, <1>3, <1>5, <1>7, <1>10, ThreadInv

LEMMA FailsInv ==
    ASSUME GroupTablesInv, NEW t \in Threads, ConnectFails(t)
    PROVE  GroupTablesInv'
  <1>1. TablesInv' /\ TablesGrow /\ GroupTypeOK' /\ TablesInv /\ GroupTypeOK /\ ExtIdsLead
    BY GroupThreadTypes DEF GroupTablesInv
  <1>2. /\ Home[t] \in Nodes /\ call \in [Threads -> Calls]
        /\ sessions \in [Nodes -> SUBSET Nodes]
        /\ pc \in [Threads -> {"idle", "connect", "insert", "setup", "send"}]
    BY <1>1, TableTypes DEF GroupTypeOK, TablesInv, TypeOK
  <1>3. /\ pc' = [pc EXCEPT ![t] = "idle"] /\ call' = [call EXCEPT ![t] = NoCall]
        /\ UNCHANGED <<peer, protocol, contextId, replicas, extIds>>
        /\ \/ UNCHANGED sessions
           \/ sessions' = [sessions EXCEPT ![Home[t]] = sessions[Home[t]] \ {peer[t]}]
    BY DEF ConnectFails, RequestFails, ReplyFails, Goto, groupTables
  <1>4. ExtIdsLead' /\ ExtGrow
    BY <1>1, <1>3, ExtIdsKept
  <1>5. /\ pc'[t] = "idle" /\ call'[t].list = << >>
        /\ \A u \in Threads \ {t} : call'[u] = call[u] /\ pc'[u] = pc[u] /\ peer'[u] = peer[u]
    BY <1>2, <1>3 DEF NoCall
  <1>6. \A o \in Nodes : \A m \in sessions'[o] : m \in sessions[o]
    BY <1>2, <1>3
  <1>7. CallOK(t)'
    BY <1>5, CallIdle
  <1> QED
    BY <1>1, <1>3, <1>4, <1>5, <1>6, <1>7, ThreadInv

LEMMA GroupTablesInitial == GroupTablesInit => GroupTablesInv
  <1> SUFFICES ASSUME GroupTablesInit
               PROVE  GroupTablesInv
    OBVIOUS
  <1>1. TablesInv /\ GroupTypeOK
    BY TypesInitial
  <1>2. /\ \A n \in Nodes : sessions[n] = {}
        /\ \A n \in Nodes, g \in Groups : contextId[n][g] = NoId /\ replicas[n][g] = << >>
        /\ \A m, n \in Nodes : \A q \in Ids : extIds[m][n][q] = NoId
        /\ \A t \in Threads : pc[t] = "idle" /\ call[t].list = << >>
    BY DEF GroupTablesInit, Init, NoCall
  <1>3. ExtIdsLead
    BY SMT, <1>2 DEF ExtIdsLead
  <1>4. \A t \in Threads : CallOK(t)
    BY <1>2 DEF CallOK
  <1>5. \A n \in Nodes, g \in Groups : ReplicasOK(n, g)
    BY SMT, <1>2 DEF ReplicasOK
  <1> QED
    BY <1>1, <1>2, <1>3, <1>4, <1>5 DEF GroupTablesInv

LEMMA GroupTablesStep ==
    ASSUME JoinFirst, GroupTablesInv, [GroupTablesNext]_<<vars, groupVars>>
    PROVE  GroupTablesInv'
  <1>1. CASE protocol = "unreliable" /\ Next /\ UNCHANGED groupVars
    BY <1>1, UnreliableInv
  <1>2. ASSUME protocol = "mcast", NEW n \in Nodes, NEW g \in Groups,
               JoinMulticast(n, g) \/ LeaveMulticast(n, g)
        PROVE  GroupTablesInv'
    BY <1>2, JoinInv, LeaveInv
  <1>3. ASSUME NEW t \in Threads, NEW g \in Groups, NEW names \in Lists[Home[t]],
               SetReplicas(t, g, names)
        PROVE  GroupTablesInv'
    <2> DEFINE k == [NoCall EXCEPT !.group = g, !.list = names, !.rest = names]
    <2>1. names \in Seq(Nodes) /\ names # << >>
      BY ListTypes, TableTypes
    <2>2. k \in Calls /\ k.group = g /\ k.list = names /\ k.rest = names
      BY <2>1, FirstCall
    <2>3. ConnectNext(t, k)
      BY <1>3 DEF SetReplicas
    <2> HIDE DEF k
    <2> QED
      BY <2>1, <2>2, <2>3, ConnectNextInv
  <1>4. ASSUME protocol = "mcast", NEW t \in Threads, NextReplica(t)
        PROVE  GroupTablesInv'
    <2>1. pc[t] = "send" /\ call[t].rest # << >> /\ ConnectNext(t, call[t])
      BY <1>4 DEF NextReplica
    <2>2. call[t] \in Calls
      BY DEF GroupTablesInv, GroupTypeOK
    <2>3. /\ call[t].list \in Lists[Home[t]] \cup {<< >>} /\ call[t].group \in Groups
          /\ \A i \in DOMAIN call[t].list :
                \/ \E j \in DOMAIN call[t].rest : call[t].rest[j] = call[t].list[i]
                \/ Reached(Home[t], call[t].list[i])
      BY <1>4, <2>1 DEF GroupTablesInv, CallOK
    <2> QED
      BY <2>1, <2>2, <2>3, ConnectNextInv
  <1>5. ASSUME protocol = "mcast", NEW t \in Threads,
               \/ StoreReplicas(t) \/ AcceptGroups(t) \/ InsertGroups(t) \/ SetupGroups(t)
               \/ ConnectFails(t)
        PROVE  GroupTablesInv'
    BY <1>5, StoreInv, AcceptInv, InsertInv, SetupInv, FailsInv
  <1>6. CASE UNCHANGED <<vars, groupVars>>
    <2>1. UNCHANGED <<sessions, pc, peer, protocol, contextId, replicas, extIds, call>>
      BY <1>6 DEF vars, groupVars, groupTables
    <2>2. TablesInv' /\ TablesGrow /\ GroupTypeOK' /\ TablesInv /\ GroupTypeOK /\ ExtIdsLead
      BY TypesStep DEF GroupTablesInv
    <2>3. ExtIdsLead' /\ ExtGrow /\ NoJoin
      BY <2>1, <2>2, ExtIdsKept DEF NoJoin
    <2>4. \A t \in Threads : CallOK(t)'
      BY <2>1, <2>2, <2>3, CallKept DEF GroupTablesInv
    <2>5. \A n \in Nodes, g \in Groups : ReplicasOK(n, g)'
      BY <2>1, <2>2, <2>3, ReplicasKept DEF GroupTablesInv
    <2> QED
      BY <2>1, <2>2, <2>3, <2>4, <2>5, GroupTablesNextInv
  <1> QED
    BY <1>1, <1>2, <1>3, <1>4, <1>5, <1>6 DEF GroupTablesNext

\* When applications join their groups before they connect, whoever sends to a group
\* has replicas that know the queue pair of that group, in every interleaving of
\* joinMulticast, leaveMulticast and the handshakes of setMulticastReplicas.
THEOREM GroupTablesInvariant ==
    ASSUME JoinFirst
    PROVE  GroupTablesSpec => []GroupTablesInv
  <1>1. GroupTablesInit => GroupTablesInv
    BY GroupTablesInitial
  <1>2. GroupTablesInv /\ [GroupTablesNext]_<<vars, groupVars>> => GroupTablesInv'
    BY GroupTablesStep
  <1> QED
    BY <1>1, <1>2, PTL DEF GroupTablesSpec

\* What redirectMulticast finds for the only place of a name.
LEMMA RedirectOne ==
    ASSUME UnambiguousReplicas, GroupTablesInv, NEW n \in Nodes, NEW g \in Groups,
           NEW i \in DOMAIN replicas[n][g], NEW id, revNames[n][id] = replicas[n][g][i]
    PROVE  Redirect(n, id) = {<<contextId[n][g], i>>}
  <1> DEFINE places(h) == {j \in DOMAIN replicas[n][h] : replicas[n][h][j] = revNames[n][id]}
             found == UNION {{<<h, j>> : j \in places(h)} : h \in Groups}
  <1>1. ReplicasOK(n, g)
    BY DEF GroupTablesInv
  <1>2. \A j \in DOMAIN replicas[n][g] : replicas[n][g][j] = replicas[n][g][i] => j = i
    BY SMT, <1>1 DEF ReplicasOK, UnambiguousReplicas
  <1>3. Groups = {g}
    BY DEF UnambiguousReplicas
  <1>4. places(g) = {i}
    BY <1>2
  <1>5. found = {<<g, i>>}
    BY SMT, <1>3, <1>4
  <1>6. Redirect(n, id) = IF found = {} THEN {<<id, 0>>}
                          ELSE {<<contextId[n][f[1]], f[2]>> : f \in found}
    BY DEF Redirect
  <1> HIDE DEF found
  <1> QED
    BY SMT, <1>5, <1>6

LEMMA AnswersFollow ==
    ASSUME UnambiguousReplicas, GroupTablesInv
    PROVE  GroupAnswersReturn
  <1> SUFFICES ASSUME NEW n \in Nodes, NEW g \in Groups, NEW i \in DOMAIN replicas[n][g],
                      \A name \in ServerNames : endpoints[n][name] # replicas[n][g][i]
               PROVE  AnswerReturns(n, g, i)
    BY DEF GroupAnswersReturn
  <1>0. \A w : revNames[n][w] = replicas[n][g][i] => Redirect(n, w) = {<<contextId[n][g], i>>}
    BY SMT, RedirectOne
  <1> DEFINE m == replicas[n][g][i]
             q == contextId[n][g]
             id == extIds[m][n][q]
  <1>1. m \in Nodes /\ q \in Ids \cup {NoId} /\ replicas[n][g] # << >>
    BY EntryTypes DEF GroupTablesInv
  <1>2. q \in Ids /\ id # NoId
    <2>1. ReplicasOK(n, g)
      BY DEF GroupTablesInv
    <2> QED
      BY <1>1, <2>1 DEF ReplicasOK, Registered
  <1>3. DataId(m, n, g) = id
    BY <1>2 DEF DataId
  <1>4. revNames[m][id] # NoName /\ endpoints[m][revNames[m][id]] = n
    <2>1. ExtIdsLead
      BY DEF GroupTablesInv
    <2>2. Leads(m, id, n)
      BY <1>1, <1>2, <2>1 DEF ExtIdsLead
    <2> QED
      BY <2>2 DEF Leads
  <1>5. ASSUME nodeIds[n][m] # NoId
        PROVE  Redirect(n, nodeIds[n][m]) = {<<contextId[n][g], i>>}
    <2> DEFINE x == revNames[n][nodeIds[n][m]]
    <2>1. x # NoName /\ endpoints[n][x] = m
      BY <1>1, <1>5 DEF GroupTablesInv, TablesInv, AnswersReachSender
    <2>2. x \in Names
      <3>1. TypeOK
        BY DEF GroupTablesInv, TablesInv
      <3>2. nodeIds[n][m] \in Ids
        BY <1>1, <1>5, <3>1, NodeEntryTypes
      <3> QED
        BY <2>1, <3>1, <3>2, NodeEntryTypes
    <2>3. x \in Nodes
      BY <2>1, <2>2 DEF Names
    <2>4. x = m
      <3>1. endpoints[n][x] \in {NoNode, x}
        BY <2>3 DEF GroupTablesInv, TablesInv
      <3> HIDE DEF x
      <3> QED
        BY <1>1, <2>1, <3>1, TableTypes
    <2> QED
      BY <1>0, <2>4
  <1> QED
    BY <1>3, <1>4, <1>5 DEF AnswerReturns

\* Data to a replica of a group is acknowledged to its sender, and redirectMulticast
\* counts the acknowledgement for that replica, for any number of nodes, threads,
\* failed handshakes, joins and leaves.
THEOREM GroupAnswersCorrect ==
    ASSUME UnambiguousReplicas
    PROVE  GroupTablesSpec => []GroupAnswersReturn
  <1>1. GroupTablesSpec => []GroupTablesInv
    BY GroupTablesInvariant DEF UnambiguousReplicas
  <1>2. GroupTablesInv => GroupAnswersReturn
    BY AnswersFollow
  <1> QED
    BY <1>1, <1>2, PTL
=============================================================================
