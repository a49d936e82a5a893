---------------------------- MODULE MemoryRegions ---------------------------
(***************************************************************************)
(* The memory regions a process has registered: one list in RdmaContext    *)
(* and one in the RdmaMulticastContext of each group it has joined.        *)
(*                                                                         *)
(* Threads interleave where RdmaContext::registerMemoryRegion holds no     *)
(* lock.  The lists of the groups have no lock at all, so with more than   *)
(* one thread Groups must be empty.  A group has one connection, the       *)
(* default of num_qp_per_endpoint.                                         *)
(***************************************************************************)
EXTENDS Integers, Sequences, SequencesExt, FiniteSets

CONSTANTS
    Threads,
    Groups,
    Device,         \* the RdmaContext, beside the groups
    MaxAddr,        \* bound: the arena is address 0, application memory 1..MaxAddr
    DeviceMayFail,  \* whether ibv_reg_mr and ibv_dereg_mr may fail
    JoinFirst       \* the application joins before it registers any memory

ASSUME RegionAssumption ==
    /\ MaxAddr \in Nat \ {0}
    /\ Device \notin Groups
    /\ DeviceMayFail \in BOOLEAN /\ JoinFirst \in BOOLEAN
    /\ Cardinality(Threads) > 1 => Groups = {}

VARIABLES
    joined,         \* the keys of multicast_context_map_
    regions,        \* memory_region_list_ and memory_regions
    call,           \* the registerLocalMemory each thread is in
    granted         \* history: memory whose registration returned 0

vars == <<joined, regions, call, granted>>

Contexts == {Device} \cup Groups
Arena == [addr |-> 0, length |-> 1]
Intervals == {r \in [addr : 1..MaxAddr, length : 1..MaxAddr] : r.addr + r.length <= MaxAddr + 1}
Idle == [pc |-> "idle", mem |-> Arena, lkey |-> 0, todo |-> {}]

\* construct has registered the arena, and local_arena_lkey_ is its key.
local_arena_lkey_ == 1

Region(r, k) == [addr |-> r.addr, length |-> r.length, lkey |-> k]

Init ==
    /\ joined = {}
    /\ regions = [c \in Contexts |-> IF c = Device THEN <<Region(Arena, local_arena_lkey_)>>
                                                   ELSE <<>>]
    /\ call = [t \in Threads |-> Idle]
    /\ granted = {}

Limit(r) == r.addr + r.length

\* Variant: a region inside the new one is not noticed.
OverlapsUnlessCovered(e, r) ==
    \/ e.addr <= r.addr /\ r.addr < Limit(e)
    \/ e.addr < Limit(r) /\ Limit(r) <= Limit(e)

\* start_overlapped, end_overlapped, covered.
Overlaps(e, r) ==
    \/ e.addr <= r.addr /\ r.addr < Limit(e)
    \/ e.addr < Limit(r) /\ Limit(r) <= Limit(e)
    \/ r.addr <= e.addr /\ Limit(e) <= Limit(r)

Free(c, r) == \A i \in DOMAIN regions[c] : ~Overlaps(regions[c][i], r)

Covers(e, a) == e.addr <= a /\ a < Limit(e)

\* key: the first region that contains the address, 0 if there is none.
key(c, a) ==
    LET i == SelectInSeq(regions[c], LAMBDA e : Covers(e, a))
    IN  IF i = 0 THEN 0 ELSE regions[c][i].lkey

\* The key ibv_reg_mr gives out: one that its protection domain does not use.
KeysInUse(c) ==
    {regions[c][i].lkey : i \in DOMAIN regions[c]}
      \cup (IF c = Device THEN {call[t].lkey : t \in Threads} ELSE {})

NewKey(c) == CHOOSE k \in 1..(Cardinality(KeysInUse(c)) + 1) : k \notin KeysInUse(c)

(***************************************************************************)
(* registerLocalMemory: RdmaContext first, then each group.                *)
(***************************************************************************)
\* The test under the shared lock; on an overlap nothing changes.
CheckOverlap(t, r) ==
    /\ call[t] = Idle
    /\ Free(Device, r)
    /\ call' = [call EXCEPT ![t] = [Idle EXCEPT !.pc = "reg", !.mem = r]]
    /\ UNCHANGED <<joined, regions, granted>>

\* ibv_reg_mr, without a lock.
RegMr(t) ==
    /\ call[t].pc = "reg"
    /\ \/ call' = [call EXCEPT ![t].pc = "add", ![t].lkey = NewKey(Device)]
       \/ DeviceMayFail /\ call' = [call EXCEPT ![t] = Idle]
    /\ UNCHANGED <<joined, regions, granted>>

\* The insertion under the exclusive lock.
Add(t) ==
    /\ call[t].pc = "add"
    /\ regions' = [regions EXCEPT ![Device] = Append(@, Region(call[t].mem, call[t].lkey))]
    /\ call' = [call EXCEPT ![t].pc = "groups", ![t].lkey = 0, ![t].todo = joined]
    /\ UNCHANGED <<joined, granted>>

\* Variant: the groups are left out.
AddToGroupSkipped(t, g) ==
    /\ call[t].pc = "groups"
    /\ g \in call[t].todo
    /\ call' = [call EXCEPT ![t].todo = @ \ {g}]
    /\ UNCHANGED <<joined, regions, granted>>

\* RdmaMulticastContext::registerMemoryRegion; an error ends the call and leaves
\* the memory registered where it already is.
AddToGroup(t, g) ==
    /\ call[t].pc = "groups"
    /\ g \in call[t].todo
    /\ \/ /\ Free(g, call[t].mem)
          /\ regions' = [regions EXCEPT ![g] = Append(@, Region(call[t].mem, NewKey(g)))]
          /\ call' = [call EXCEPT ![t].todo = @ \ {g}]
       \/ /\ ~Free(g, call[t].mem) \/ DeviceMayFail
          /\ call' = [call EXCEPT ![t] = Idle]
          /\ UNCHANGED regions
    /\ UNCHANGED <<joined, granted>>

ReturnOk(t) ==
    /\ call[t].pc = "groups" /\ call[t].todo = {}
    /\ granted' = granted \cup {call[t].mem}
    /\ call' = [call EXCEPT ![t] = Idle]
    /\ UNCHANGED <<joined, regions>>

(***************************************************************************)
(* unregisterLocalMemory: each list loses its regions around the address,  *)
(* in order, up to one whose ibv_dereg_mr fails.  A failure in one list    *)
(* does not stop the others.  An address is in at most one region for each *)
(* thread, those that passed the overlap test together.                    *)
(***************************************************************************)
Around(list, a) == {i \in DOMAIN list : Covers(list[i], a)}

RemovedUpTo(list, a, n) ==
    LET gone == {list[i].lkey : i \in {i \in Around(list, a) :
                                        Cardinality(Around(list, a) \cap 1..i) <= n}}
    IN  SelectSeq(list, LAMBDA e : e.lkey \notin gone)

unregisterLocalMemory(t, a) ==
    /\ call[t] = Idle
    /\ \E n \in [Contexts -> 0..Cardinality(Threads)] :
          /\ \A c \in Contexts :
                LET all == Cardinality(Around(regions[c], a))
                IN  n[c] <= all /\ (~DeviceMayFail => n[c] = all)
          /\ regions' = [c \in Contexts |-> RemovedUpTo(regions[c], a, n[c])]
    /\ granted' = {r \in granted : ~Covers(r, a)}
    /\ UNCHANGED <<joined, call>>

\* joinMulticast.  A failed registration of the arena leaves the group joined.
joinMulticast(t, g) ==
    /\ call[t] = Idle
    /\ g \notin joined
    /\ JoinFirst => Len(regions[Device]) = 1
    /\ joined' = joined \cup {g}
    /\ \/ regions' = [regions EXCEPT ![g] = <<Region(Arena, NewKey(g))>>]
       \/ DeviceMayFail /\ UNCHANGED regions
    /\ UNCHANGED <<call, granted>>

\* leaveMulticast drops the context of the group and its list with it.
leaveMulticast(t, g) ==
    /\ call[t] = Idle
    /\ g \in joined
    /\ joined' = joined \ {g}
    /\ regions' = [regions EXCEPT ![g] = <<>>]
    /\ UNCHANGED <<call, granted>>

Next ==
    \E t \in Threads :
        \/ \E r \in Intervals : CheckOverlap(t, r)
        \/ RegMr(t) \/ Add(t) \/ ReturnOk(t)
        \/ \E g \in Groups : AddToGroup(t, g) \/ joinMulticast(t, g) \/ leaveMulticast(t, g)
        \/ \E a \in 1..MaxAddr : unregisterLocalMemory(t, a)

Spec == Init /\ [][Next]_vars

(***************************************************************************)
(* Properties.                                                             *)
(***************************************************************************)

\* The lists hold regions of known memory, and a group that is not joined has none.
TypeOK ==
    /\ joined \subseteq Groups
    /\ granted \subseteq Intervals
    /\ \A c \in Contexts : \A i \in DOMAIN regions[c] :
          /\ [addr |-> regions[c][i].addr, length |-> regions[c][i].length]
                \in Intervals \cup {Arena}
          /\ regions[c][i].lkey \in Nat \ {0}
    /\ \A g \in Groups \ joined : regions[g] = <<>>
    /\ \A t \in Threads : call[t].pc \in {"idle", "reg", "add", "groups"}

\* registerMemoryRegion refuses overlaps, so no address of a context lies in two of
\* its regions, whatever registrations and failures came before.
NoOverlap ==
    \A c \in Contexts : \A i, j \in DOMAIN regions[c] :
        i # j => \/ Limit(regions[c][i]) <= regions[c][j].addr
                 \/ Limit(regions[c][j]) <= regions[c][i].addr

\* The key of the arena that construct caches in local_arena_lkey_ stays the one the
\* device has for it: the application cannot unregister the arena by accident.
ArenaKept == key(Device, Arena.addr) = local_arena_lkey_

\* Memory whose registerLocalMemory returned 0, and that was not unregistered since,
\* has a key in the device context and in each joined group, where submitting a packet
\* looks it up.
GrantedHasKeys ==
    \A r \in granted : \A c \in {Device} \cup joined :
        \A a \in r.addr..(Limit(r) - 1) : key(c, a) # 0
=============================================================================
