---------------------------- MODULE GroupContext ----------------------------
(***************************************************************************)
(* RdmaMulticastContext: one connection-manager id per queue pair, driven  *)
(* by events that a thread of its own takes from the event channel while   *)
(* construct waits for the last connection to join the group.              *)
(*                                                                         *)
(* The connection manager and the device are external: they answer a       *)
(* request by an event, good or bad, and rdma_destroy_id waits until the   *)
(* events of the id are acknowledged.                                      *)
(***************************************************************************)
EXTENDS Integers, Sequences, FiniteSets

CONSTANTS
    NumConn,        \* num_qp_per_endpoint
    GroupFaults     \* what may fail: "start", "id", "resolve", "qp", "join", "ah"

ASSUME GroupAssumption == NumConn \in Nat \ {0}

Conns == 1..NumConn

VARIABLES
    life,           \* where construct or deconstruct is
    next,           \* index of its loop over the connections
    conn,           \* connections_, empty before construct and after clear
    cm,             \* what the connection manager does for an id
    queue,          \* events on the channel, of each connection
    event,          \* the event the thread works on, none or one
    running,        \* running_, and with it the thread
    active,         \* num_active_connections_
    stray           \* the thread touched a connection that is gone

groupVars == <<life, next, conn, cm, queue, event, running, active, stray>>

NewConnection == [cm_id |-> FALSE, pd |-> FALSE, cq |-> FALSE, qp |-> FALSE, ah |-> FALSE]

GroupInit ==
    /\ life = "none"
    /\ next = 1
    /\ conn = <<>>
    /\ cm = [c \in Conns |-> "idle"]
    /\ queue = [c \in Conns |-> <<>>]
    /\ event = <<>>
    /\ running = FALSE
    /\ active = 0
    /\ stray = FALSE

(***************************************************************************)
(* construct.                                                              *)
(***************************************************************************)

\* The channel, the thread and the two addresses.  The thread runs already when an
\* address turns out to be bad.
Start ==
    /\ life \in {"none", "gone"}
    /\ active' = 0
    /\ next' = 1
    /\ \/ /\ life' = "opening"
          /\ running' = TRUE
          /\ conn' = [c \in Conns |-> NewConnection]
       \/ /\ "start" \in GroupFaults
          /\ life' = "closing"
          /\ running' \in BOOLEAN
          /\ conn' = <<>>
    /\ UNCHANGED <<cm, queue, event, stray>>

\* rdma_create_id, rdma_bind_addr and rdma_resolve_addr.
CreateId ==
    /\ life = "opening"
    /\ \/ /\ conn' = [conn EXCEPT ![next].cm_id = TRUE]
          /\ cm' = [cm EXCEPT ![next] = "resolving"]
          /\ next' = IF next < NumConn THEN next + 1 ELSE 1
          /\ life' = IF next < NumConn THEN "opening" ELSE "waiting"
       \/ /\ "id" \in GroupFaults
          /\ conn' \in {conn, [conn EXCEPT ![next].cm_id = TRUE]}
          /\ life' = "closing"
          /\ next' = 1
          /\ UNCHANGED cm
    /\ UNCHANGED <<queue, event, running, active, stray>>

\* The loop on num_active_connections_.
AwaitActive ==
    /\ life = "waiting"
    /\ active >= Len(conn)
    /\ life' = "up"
    /\ UNCHANGED <<next, conn, cm, queue, event, running, active, stray>>

(***************************************************************************)
(* The connection manager.                                                 *)
(***************************************************************************)
Answer(c, doing, good, fault) ==
    /\ cm[c] = doing
    /\ cm' = [cm EXCEPT ![c] = "idle"]
    /\ \E kind \in {good} \cup (IF fault \in GroupFaults THEN {"error"} ELSE {}) :
           queue' = [queue EXCEPT ![c] = Append(@, kind)]
    /\ UNCHANGED <<life, next, conn, event, running, active, stray>>

Manager ==
    \E c \in Conns :
        \/ Answer(c, "resolving", "resolved", "resolve")
        \/ Answer(c, "joining", "joined", "join")

(***************************************************************************)
(* The event thread.                                                       *)
(***************************************************************************)

\* rdma_get_cm_event.  The answers for different ids come in any order.
GetEvent ==
    /\ running
    /\ event = <<>>
    /\ \E c \in Conns :
          /\ queue[c] # <<>>
          /\ event' = <<[conn |-> c, kind |-> Head(queue[c])]>>
          /\ queue' = [queue EXCEPT ![c] = Tail(@)]
    /\ UNCHANGED <<life, next, conn, cm, running, active, stray>>

\* createQueuePair.
CreateQueuePair(c) ==
    [c EXCEPT !.pd = TRUE, !.cq = TRUE, !.qp = TRUE]

\* Variant: the connection counts as soon as its queue pair exists.
OnAddressResolvedActive(c) ==
    /\ active' = active + 1
    /\ conn' = [conn EXCEPT ![c] = CreateQueuePair(@)]
    /\ cm' = [cm EXCEPT ![c] = "joining"]

\* What createQueuePair has made when it fails stays.
OnAddressResolved(c) ==
    /\ \/ /\ conn' = [conn EXCEPT ![c] = CreateQueuePair(@)]
          /\ \/ cm' = [cm EXCEPT ![c] = "joining"]
             \/ "join" \in GroupFaults /\ UNCHANGED cm
       \/ /\ "qp" \in GroupFaults
          /\ \E pd, cq \in BOOLEAN :
                 /\ cq => pd
                 /\ conn' = [conn EXCEPT ![c].pd = pd, ![c].cq = cq]
          /\ UNCHANGED cm
    /\ UNCHANGED active

\* Variant: the connection is not counted.
OnMulticastJoinUncounted(c) ==
    /\ conn' = [conn EXCEPT ![c].ah = TRUE]
    /\ UNCHANGED <<active, cm>>

OnMulticastJoin(c) ==
    /\ \/ /\ conn' = [conn EXCEPT ![c].ah = TRUE]
          /\ active' = active + 1
       \/ /\ "ah" \in GroupFaults
          /\ UNCHANGED <<conn, active>>
    /\ UNCHANGED cm

\* processEvents, from the switch to rdma_ack_cm_event.
HandleEvent ==
    /\ event # <<>>
    /\ event' = <<>>
    /\ LET c == event[1].conn  kind == event[1].kind IN
       /\ stray' = (stray \/ c \notin DOMAIN conn)
       /\ \/ kind = "resolved" /\ OnAddressResolved(c)
          \/ kind = "joined" /\ OnMulticastJoin(c)
          \/ kind = "error" /\ UNCHANGED <<conn, cm, active>>
    /\ UNCHANGED <<life, next, queue, running>>

(***************************************************************************)
(* deconstruct.                                                            *)
(***************************************************************************)

\* Variant: events are acknowledged before they are handled, so nothing is waited for.
AcknowledgedEarly(c) == FALSE

\* rdma_destroy_id waits for the event that is being handled: processEvents
\* acknowledges it after its handler.
Unacknowledged(c) == event # <<>> /\ event[1].conn = c

\* Leave the group and destroy the id, for one connection; the manager forgets the
\* events of the id that nobody has taken.
DestroyId ==
    /\ life = "closing"
    /\ next \in DOMAIN conn
    /\ \/ /\ conn[next].cm_id
          /\ ~Unacknowledged(next)
          /\ conn' = [conn EXCEPT ![next].cm_id = FALSE]
          /\ cm' = [cm EXCEPT ![next] = "idle"]
          /\ queue' = [queue EXCEPT ![next] = <<>>]
       \/ /\ ~conn[next].cm_id
          /\ UNCHANGED <<conn, cm, queue>>
    /\ next' = next + 1
    /\ UNCHANGED <<life, event, running, active, stray>>

\* connections_.clear().
Clear ==
    /\ life = "closing"
    /\ next \notin DOMAIN conn
    /\ conn' = <<>>
    /\ life' = "stopping"
    /\ UNCHANGED <<next, cm, queue, event, running, active, stray>>

\* Join the thread, then destroy the channel.
StopThread ==
    /\ life = "stopping"
    /\ event = <<>>
    /\ running' = FALSE
    /\ life' = "gone"
    /\ UNCHANGED <<next, conn, cm, queue, event, active, stray>>

Close ==
    /\ life = "up"
    /\ life' = "closing"
    /\ next' = 1
    /\ UNCHANGED <<conn, cm, queue, event, running, active, stray>>

\* The thread of the application, inside construct or deconstruct.
Advance == CreateId \/ AwaitActive \/ DestroyId \/ Clear \/ StopThread

\* The thread of the context.
ProcessEvents == GetEvent \/ HandleEvent

(***************************************************************************)
(* Properties.                                                             *)
(***************************************************************************)

\* When construct has returned, every connection has the queue pair that qpNum reads,
\* and the address handle that sends use: counting the joins is enough.
ContextReady ==
    life = "up" => \A c \in DOMAIN conn : conn[c].qp /\ conn[c].ah

\* The event thread never works on a connection that deconstruct has cleared, although
\* the connections are cleared before the thread is stopped.
NoStrayEvent ==
    /\ ~stray
    /\ event # <<>> => event[1].conn \in DOMAIN conn
    /\ life = "gone" => ~running /\ \A c \in Conns : queue[c] = <<>>

(***************************************************************************)
(* The inductive invariant: the manager has at most one answer on its way  *)
(* for a connection, and only while the connection has its id; a           *)
(* connection that still waits for the group is not counted yet.           *)
(***************************************************************************)
Kinds == {"resolved", "joined", "error"}
Connections == [cm_id : BOOLEAN, pd : BOOLEAN, cq : BOOLEAN, qp : BOOLEAN, ah : BOOLEAN]

ContextTypeOK ==
    /\ life \in {"none", "opening", "waiting", "up", "closing", "stopping", "gone"}
    /\ next \in 1..(NumConn + 1)
    /\ conn \in {<< >>} \cup [Conns -> Connections]
    /\ cm \in [Conns -> {"idle", "resolving", "joining"}]
    /\ queue \in [Conns -> {<< >>} \cup {<<kind>> : kind \in Kinds}]
    /\ event \in {<< >>} \cup {<<e>> : e \in [conn : Conns, kind : Kinds]}
    /\ running \in BOOLEAN
    /\ active \in Nat
    /\ stray \in BOOLEAN

\* The thread works on an event of c.
Handling(c) == event # << >> /\ event[1].conn = c

\* An answer for c is on its way, of one of these kinds.
Expected(c, kind) ==
    \/ cm[c] = (IF kind = "joined" THEN "joining" ELSE "resolving")
    \/ queue[c] = <<kind>>
    \/ Handling(c) /\ event[1].kind = kind

ConnectionOK(c) ==
    /\ cm[c] # "idle" => queue[c] = << >> /\ ~Handling(c)
    /\ queue[c] # << >> => ~Handling(c)
    /\ cm[c] # "idle" \/ queue[c] # << >> \/ Handling(c) => conn # << >> /\ conn[c].cm_id
    /\ conn # << >> =>
          /\ conn[c].ah => conn[c].qp
          /\ Expected(c, "joined") => conn[c].qp /\ ~conn[c].ah
          /\ Expected(c, "resolved") => ~conn[c].ah
    /\ life = "opening" /\ next <= c => conn[c] = NewConnection
    /\ life = "closing" /\ conn # << >> /\ c < next => ~conn[c].cm_id

ContextInv ==
    /\ ContextTypeOK
    /\ life \in {"opening", "waiting", "up"} => conn # << >>
    /\ life \in {"none", "stopping", "gone"} => conn = << >>
    /\ life = "opening" => next \in Conns
    /\ \A c \in Conns : ConnectionOK(c)
    /\ conn # << >> => active = Cardinality({c \in Conns : conn[c].ah})
    /\ ContextReady
    /\ NoStrayEvent
=============================================================================
