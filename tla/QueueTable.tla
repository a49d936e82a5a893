----------------------------- MODULE QueueTable -----------------------------
(***************************************************************************)
(* The queues of the packet manager, made on first use by whichever thread *)
(* gets there first, under the ticket lock of RWSpinlock.                  *)
(*                                                                         *)
(* A lookup runs under the shared lock, lets go of it when it finds        *)
(* nothing, and looks again under the exclusive lock before it makes the   *)
(* queue.  The reference to the slot is followed after the lock is         *)
(* released.  Other users of the lock take it in all of its modes.         *)
(***************************************************************************)
EXTENDS RWSpinlock, Sequences

CONSTANTS
    Users,          \* the threads that call the packet manager
    Keys,           \* queues: a kind and a session
    Groups,         \* the keys that are multicast send queues
    ReplicaNum,     \* replicas the application gives each group
    MaxQueues,      \* bound on the queues made
    SetFirst        \* the application sets the replicas before it sends

ASSUME QueueAssumption ==
    /\ Users \subseteq Threads
    /\ Groups \subseteq Keys
    /\ ReplicaNum \in Nat \ {0}
    /\ MaxQueues \in Nat
    /\ SetFirst \in BOOLEAN

VARIABLES
    table,          \* send_queue_, receive_queue_ and mcast_send_queue_
    made,           \* the queues made so far; a queue is its place in it
    replica_num,    \* mcast_replica_num_
    step,           \* where each user is in its call
    want,           \* the key it was called with, None between calls
    refused,        \* setMulticastReplicaNum calls that returned -1
    got             \* the queues the calls returned

tableVars == <<table, made, replica_num, refused>>
callVars == <<step, want, got>>
allVars == <<vars, tableVars, callVars>>

None == 0

Unset == [present |-> FALSE, num |-> 0]

QueueInit ==
    /\ Init
    /\ table = [k \in Keys |-> None]
    /\ made = <<>>
    /\ replica_num = [k \in Groups |-> Unset]
    /\ refused = {}
    /\ step = [t \in Users |-> "out"]
    /\ want = [t \in Users |-> None]
    /\ got = {}

To(t, s) == step' = [step EXCEPT ![t] = s]

\* A call returns.
Leave(t) ==
    /\ To(t, "out")
    /\ want' = [want EXCEPT ![t] = None]

\* The get functions begin with lockShared; setMulticastReplicaNum with lock.
Get(t, k) ==
    /\ step[t] = "out"
    /\ SetFirst /\ k \in Groups => replica_num[k].present
    /\ Load(t, "tryLockShared")
    /\ To(t, "find")
    /\ want' = [want EXCEPT ![t] = k]
    /\ UNCHANGED <<tableVars, got>>

SetReplicas(t, k) ==
    /\ step[t] = "out"
    /\ ~replica_num[k].present
    /\ Load(t, "tryLock")
    /\ To(t, "set")
    /\ want' = [want EXCEPT ![t] = k]
    /\ UNCHANGED <<tableVars, got>>

\* count(sid) under the shared lock.
Find(t) ==
    /\ step[t] = "find"
    /\ pc[t] = "reading"
    /\ To(t, IF table[want[t]] # None THEN "found" ELSE "missed")
    /\ UNCHANGED <<vars, tableVars, want, got>>

LeaveShared(t) ==
    /\ step[t] \in {"found", "missed"}
    /\ UnlockShared(t)
    /\ To(t, IF step[t] = "found" THEN "follow" ELSE "relock")
    /\ UNCHANGED <<tableVars, want, got>>

Relock(t) ==
    /\ step[t] = "relock"
    /\ Load(t, "tryLock")
    /\ To(t, "make")
    /\ UNCHANGED <<tableVars, want, got>>

\* The queue is built with the number of replicas known now; operator[] enters a
\* zero for a group that has none.
NewQueue(k) ==
    /\ Len(made) < MaxQueues
    /\ made' = Append(made, [key |-> k,
                             replicas |-> IF k \in Groups THEN replica_num[k].num ELSE 0])
    /\ table' = [table EXCEPT ![k] = Len(made) + 1]
    /\ replica_num' = IF k \in Groups THEN [replica_num EXCEPT ![k].present = TRUE]
                                      ELSE replica_num

\* Variant: no second look.
LookPast(t) ==
    /\ step[t] = "make"
    /\ pc[t] = "writing"
    /\ To(t, "making")
    /\ UNCHANGED <<vars, tableVars, want, got>>

\* The second count(sid), under the exclusive lock.
Look(t) ==
    /\ step[t] = "make"
    /\ pc[t] = "writing"
    /\ To(t, IF table[want[t]] = None THEN "making" ELSE "made")
    /\ UNCHANGED <<vars, tableVars, want, got>>

Make(t) ==
    /\ step[t] = "making"
    /\ NewQueue(want[t])
    /\ To(t, "made")
    /\ UNCHANGED <<vars, refused, want, got>>

\* Variant: the number of replicas is not stored.
DropReplicas(t) ==
    /\ step[t] = "set"
    /\ pc[t] = "writing"
    /\ To(t, "was_set")
    /\ replica_num' = [replica_num EXCEPT ![want[t]].present = TRUE]
    /\ UNCHANGED <<vars, table, made, refused, want, got>>

\* A second call for a group is refused.
StoreReplicas(t) ==
    /\ step[t] = "set"
    /\ pc[t] = "writing"
    /\ To(t, "was_set")
    /\ LET k == want[t] IN
       \/ /\ replica_num[k].present
          /\ refused' = refused \cup {k}
          /\ UNCHANGED replica_num
       \/ /\ ~replica_num[k].present
          /\ replica_num' = [replica_num EXCEPT ![k] = [present |-> TRUE, num |-> ReplicaNum]]
          /\ UNCHANGED refused
    /\ UNCHANGED <<vars, table, made, want, got>>

LeaveExclusive(t) ==
    /\ step[t] \in {"made", "was_set"}
    /\ \/ LoadToUnlock(t) /\ UNCHANGED <<step, want>>
       \/ /\ Unlock(t)
          /\ IF step[t] = "made" THEN To(t, "follow") /\ UNCHANGED want ELSE Leave(t)
    /\ UNCHANGED <<tableVars, got>>

\* return *entry.
Return(t) ==
    /\ step[t] = "follow"
    /\ got' = got \cup {<<want[t], table[want[t]]>>}
    /\ Leave(t)
    /\ UNCHANGED <<vars, tableVars>>

\* The loops of lock and lockShared.
Spin(t) ==
    /\ step[t] \in {"find", "make", "set"}
    /\ \/ pc[t] # "idle" /\ \E mode \in Trying : Load(t, mode)
       \/ TryLock(t) \/ TryLockShared(t)
    /\ UNCHANGED <<tableVars, callVars>>

\* Any other user of the lock.
Other(t) ==
    /\ Ask(t) \/ Proceed(t)
    /\ UNCHANGED <<tableVars, callVars>>

Work(t) ==
    \/ Find(t) \/ LeaveShared(t) \/ Relock(t) \/ Look(t) \/ Make(t) \/ StoreReplicas(t)
    \/ LeaveExclusive(t) \/ Return(t) \/ Spin(t)

QueueNext ==
    \/ \E t \in Users :
           \/ \E k \in Keys : Get(t, k)
           \/ \E k \in Groups : SetReplicas(t, k)
           \/ Work(t)
    \/ \E t \in Threads \ Users : Other(t)

QueueSpec == QueueInit /\ [][QueueNext]_allVars

(***************************************************************************)
(* Properties.                                                             *)
(***************************************************************************)

\* getSendQueue, getReceiveQueue and getMcastSendQueue give all callers of a session
\* the same queue, and never a null one, although the slot is read after the lock is
\* let go: sequence numbers are assigned in one place only.
OneQueuePerKey ==
    \A x, y \in got : x[1] = y[1] => x = y /\ x[2] # None

\* A group's send queue waits for as many replicas as setMulticastReplicas was given,
\* and that call is not refused, whichever threads it and the first send run on.
ReplicasAgree ==
    /\ \A i \in DOMAIN made : made[i].key \in Groups => made[i].replicas = ReplicaNum
    /\ \A k \in refused : replica_num[k].num = ReplicaNum

(***************************************************************************)
(* The inductive invariant.  A queue is made where the second look found   *)
(* none, by the one writer, and a slot that was once seen stays.           *)
(***************************************************************************)
GetSteps == {"find", "found", "missed", "relock", "make", "making", "made", "follow"}

QueueTypeOK ==
    /\ table \in [Keys -> Nat]
    /\ made \in Seq([key : Keys, replicas : Nat])
    /\ replica_num \in [Groups -> [present : BOOLEAN, num : Nat]]
    /\ step \in [Users -> GetSteps \cup {"out", "set", "was_set"}]
    /\ DOMAIN want = Users
    /\ \A t \in Users : /\ step[t] \in GetSteps => want[t] \in Keys
                        /\ step[t] \in {"set", "was_set"} => want[t] \in Groups

SlotsStay ==
    /\ \A x \in got : x[1] \in Keys /\ x = <<x[1], table[x[1]]>> /\ table[x[1]] # None
    /\ \A t \in Users :
           /\ step[t] \in {"found", "made", "follow"} => table[want[t]] # None
           /\ step[t] = "making" => pc[t] = "writing" /\ table[want[t]] = None

QueueInv == LockInv /\ QueueTypeOK /\ SlotsStay

\* A group that is being looked up has its replicas.
ReplicasKnown ==
    /\ \A k \in Groups : replica_num[k].present => replica_num[k].num = ReplicaNum
    /\ \A t \in Users : step[t] \in GetSteps /\ want[t] \in Groups => replica_num[want[t]].present
    /\ \A i \in DOMAIN made : made[i].key \in Groups => made[i].replicas = ReplicaNum
    /\ \A k \in refused : k \in Groups /\ replica_num[k].present
=============================================================================
