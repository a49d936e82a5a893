------------------------------- MODULE Engine -------------------------------
(***************************************************************************)
(* An engine that joins and leaves multicast groups between Create and its *)
(* destructor: EngineSetup and GroupContext under the join and leave calls *)
(* of ContextMcast and Controller, which register the packet arena with    *)
(* the group and lend it receive packets of the pool.                      *)
(*                                                                         *)
(* One thread of the application makes the calls.  There is one group at a *)
(* time; pool counts the packets on the free list.                         *)
(***************************************************************************)
EXTENDS EngineSetup, GroupContext

CONSTANTS
    MaxPackets,     \* packets of the pool
    RecvHandles,    \* kNumReceiveHandles
    MaxJoins        \* bound on the joinMulticast calls

ASSUME EngineAssumption ==
    /\ NumConn = NumQp
    /\ MaxPackets \in Nat
    /\ RecvHandles \in 1..MaxPackets
    /\ MaxJoins \in Nat

VARIABLES
    call,           \* the application's join or leave call, and the group's state
    joins,          \* joinMulticast calls made
    group_mr,       \* connections the arena is registered with
    unleft,         \* the engine was dropped, or the arena kept, with a group on it
    pool,           \* packets on the free list
    group_packets,  \* packets posted to the group
    sending         \* packets in send queues

joinVars == <<call, joins, group_mr, unleft, pool, group_packets, sending>>
engineVars == <<setupVars, groupVars, joinVars>>

EngineInit ==
    /\ SetupInit
    /\ GroupInit
    /\ call = "out"
    /\ joins = 0
    /\ group_mr = {}
    /\ unleft = FALSE
    /\ pool = MaxPackets
    /\ group_packets = 0
    /\ sending = 0

\* The application is not inside a call.
Idle == at = "up" /\ call \in {"out", "in", "half"}

\* Create takes the receive packets from the pool.
Setup ==
    /\ Construct
    /\ pool' = IF at' = "up" THEN pool - RecvHandles ELSE pool
    /\ UNCHANGED <<groupVars, call, joins, group_mr, unleft, group_packets, sending>>

\* Controller::joinMulticast, up to the wait in construct.
JoinMulticast ==
    /\ Idle /\ call = "out"
    /\ joins < MaxJoins
    /\ Start
    /\ call' = "joining"
    /\ joins' = joins + 1
    /\ UNCHANGED <<setupVars, group_mr, unleft, pool, group_packets, sending>>

\* construct has returned, or failed and deconstructed the context.
Constructed ==
    /\ call = "joining"
    /\ life \in {"up", "gone"}
    /\ call' = IF life = "up" THEN "registering" ELSE "out"
    /\ UNCHANGED <<setupVars, groupVars, joins, group_mr, unleft, pool, group_packets, sending>>

\* registerMemoryRegion goes through the connections and stops at a failure.
RegisterGroup ==
    /\ call = "registering"
    /\ \/ group_mr' = Conns /\ call' = "posting"
       \/ \E c \in Conns : /\ "mr" \in GroupFaults
                           /\ group_mr' = 1..(c - 1)
                           /\ call' = "half"
    /\ UNCHANGED <<setupVars, groupVars, joins, unleft, pool, group_packets, sending>>

\* The receive packets; the call fails half-way when the pool runs dry.
PostGroup ==
    /\ call = "posting"
    /\ LET n == IF pool < RecvHandles THEN pool ELSE RecvHandles IN
       /\ group_packets' = n
       /\ pool' = pool - n
       /\ call' = IF n = RecvHandles THEN "in" ELSE "half"
    /\ UNCHANGED <<setupVars, groupVars, joins, group_mr, unleft, sending>>

\* Variant: the packets go back and the arena stays registered.
LeaveRegistered ==
    /\ Idle /\ call \in {"in", "half"}
    /\ UNCHANGED group_mr
    /\ pool' = pool + group_packets
    /\ group_packets' = 0
    /\ Close
    /\ call' = "leaving"
    /\ UNCHANGED <<setupVars, joins, unleft, sending>>

\* ContextMcast::leaveMulticast: the arena is unregistered, the packets go back to the
\* pool, and the context is deconstructed.  A region that cannot be deregistered ends
\* unregisterMemoryRegion, and nobody looks.
LeaveMulticast ==
    /\ Idle /\ call \in {"in", "half"}
    /\ \/ group_mr' = {} /\ UNCHANGED unleft
       \/ \E c \in group_mr : /\ "dereg" \in GroupFaults
                             /\ group_mr' = {d \in group_mr : d >= c}
                             /\ unleft' = TRUE
    /\ pool' = pool + group_packets
    /\ group_packets' = 0
    /\ Close
    /\ call' = "leaving"
    /\ UNCHANGED <<setupVars, joins, sending>>

Deconstructed ==
    /\ call = "leaving"
    /\ life = "gone"
    /\ call' = "out"
    /\ UNCHANGED <<setupVars, groupVars, joins, group_mr, unleft, pool, group_packets, sending>>

\* Traffic takes packets of the pool and gives them back.
Send ==
    /\ Idle
    /\ \/ pool > 0 /\ pool' = pool - 1 /\ sending' = sending + 1
       \/ sending > 0 /\ pool' = pool + 1 /\ sending' = sending - 1
    /\ UNCHANGED <<setupVars, groupVars, call, joins, group_mr, unleft, group_packets>>

ConnectPeer == Idle /\ Connect /\ UNCHANGED <<groupVars, joinVars>>

\* The last reference to the engine goes, in a group or not.
Drop ==
    /\ Idle
    /\ Destroy
    /\ unleft' = (unleft \/ call # "out")
    /\ UNCHANGED <<groupVars, call, joins, group_mr, pool, group_packets, sending>>

TearDown == Deconstruct /\ UNCHANGED <<groupVars, joinVars>>

\* multicast_context_map_ is destroyed after deconstruct, with the groups in it.
DropGroups ==
    /\ at = "groups"
    /\ \/ life = "up" /\ Close /\ UNCHANGED setupVars
       \/ life \in {"none", "gone"} /\ Finish /\ UNCHANGED groupVars
    /\ UNCHANGED joinVars

\* The steps of the thread that is inside a call.
Call ==
    \/ Setup \/ Constructed \/ RegisterGroup \/ PostGroup \/ Deconstructed
    \/ TearDown \/ DropGroups
    \/ Advance /\ UNCHANGED <<setupVars, joinVars>>

EventThread == ProcessEvents /\ UNCHANGED <<setupVars, joinVars>>

Fabric == Manager /\ UNCHANGED <<setupVars, joinVars>>

Application == JoinMulticast \/ LeaveMulticast \/ Send \/ ConnectPeer \/ Drop

EngineNext == Call \/ EventThread \/ Fabric \/ Application

EngineSpec == EngineInit /\ [][EngineNext]_engineVars

\* Threads run, and the connection manager answers.
FairEngineSpec ==
    /\ EngineSpec
    /\ WF_engineVars(Call)
    /\ WF_engineVars(EventThread)
    /\ WF_engineVars(Fabric)

(***************************************************************************)
(* Properties.                                                             *)
(***************************************************************************)

\* The device holds no key of a group to memory that the pool has freed or lent to
\* somebody else: leaveMulticast unregisters the arena before it returns the packets,
\* which are still posted.
GroupKeysCurrent ==
    ~unleft => /\ group_mr # {} => Arena \in held
               /\ call \in {"out", "leaving"} => group_mr = {}

\* Packets are neither lost nor duplicated by joins and leaves, those that failed
\* half-way included.
PacketsKept ==
    at = "up" => pool + group_packets + sending + RecvHandles = MaxPackets

\* The inductive invariant of the calls: a group is on the arena only inside a live
\* engine and between its join and its leave.
CallsInv ==
    /\ call \in {"out", "joining", "registering", "posting", "in", "half", "leaving"}
    /\ {pool, group_packets, sending} \subseteq Int
    /\ ~unleft /\ at # "up" => call = "out"
    /\ ~unleft /\ call \in {"out", "joining", "leaving"} => group_mr = {}
    /\ at \in Opening =>
           call = "out" /\ pool = MaxPackets /\ group_packets = 0 /\ sending = 0
    /\ call \notin {"in", "half"} => group_packets = 0
    /\ PacketsKept

EngineInv == SetupInv /\ ContextInv /\ CallsInv

\* A connection whose answer was an error, or whose handler failed: nothing follows.
Stuck(c) ==
    /\ life = "waiting"
    /\ cm[c] = "idle"
    /\ event = <<>>
    /\ queue[c] = <<>>
    /\ ~conn[c].ah

\* joinMulticast returns unless the connection manager or the device refuses one of
\* the connections, and the destructor always ends.
CallsReturn ==
    /\ call \in {"joining", "leaving"}
           ~> call \notin {"joining", "leaving"} \/ \E c \in Conns : Stuck(c)
    /\ at \in {"device", "join"} ~> at \in {"up", "gone", "crashed"}

\* joinMulticast returns, with an error if need be.
JoinReturns == call = "joining" ~> call # "joining"

\* An engine may be dropped while it is in a group.
DropInGroup == group_mr # {} => Arena \in held
=============================================================================
