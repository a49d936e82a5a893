---------------------------- MODULE EngineSetup -----------------------------
(***************************************************************************)
(* RapidTransfer::Create and the destructor of the engine it returns: the  *)
(* device, the completion queues, the queue pairs, the packet arena and    *)
(* the worker thread are acquired one by one, and given back in an order   *)
(* that the device library accepts.                                        *)
(*                                                                         *)
(* held is what the process owns; ptr and the lists are what the objects   *)
(* believe.  A failed construct runs the destructors on objects that are   *)
(* constructed in part.                                                    *)
(***************************************************************************)
EXTENDS Integers, Sequences, FiniteSets

CONSTANTS
    NumQp,          \* num_qp_per_endpoint
    SpawnWorker,    \* spawn_worker_
    SetupFaults     \* the steps that may fail

ASSUME SetupAssumption ==
    /\ NumQp \in Nat \ {0}
    /\ SpawnWorker \in BOOLEAN

VARIABLES
    at,             \* the step of Create or of the destructor
    i,              \* index of the loop the step is in
    ptr,            \* which of the pointers and descriptors are not null
    cq_list_,       \* which elements are not null
    qp_list_,
    depth_list_,    \* send_wr_depth_list_ and recv_wr_depth_list_
    worker,         \* worker_running_
    pass,           \* deconstruct runs explicitly and again from the destructors
    held,           \* resources of the process
    mishaps,        \* the steps that failed
    damage          \* releases of what is not held

setupVars == <<at, i, ptr, cq_list_, qp_list_, depth_list_, worker, pass, held, mishaps,
               damage>>
lists == <<cq_list_, qp_list_, depth_list_>>

Pointers == {"context_", "pd_", "comp_channel_", "event_fd_", "arena_"}

Device == <<"device", 0>>
Pd == <<"pd", 0>>
Channel == <<"channel", 0>>
Epoll == <<"epoll", 0>>
Arena == <<"arena", 0>>
ArenaMr == <<"mr", 0>>
Handle == <<"ah", 0>>
Cq(n) == <<"cq", n>>
Qp(n) == <<"qp", n>>

NumCq == 2

\* What the device library wants released before a resource.
UsedBy(r) ==
    CASE r = Device  -> {Pd, Channel} \cup {Cq(n) : n \in 1..NumCq}
      [] r = Channel -> {Cq(n) : n \in 1..NumCq}
      [] r = Pd      -> {ArenaMr, Handle} \cup {Qp(n) : n \in 1..NumQp}
      [] r[1] = "cq" -> {Qp(n) : n \in 1..NumQp}
      [] OTHER       -> {}

\* A resource in use stays; the code logs the error and goes on.
Release(h, r) == IF UsedBy(r) \cap h = {} THEN h \ {r} ELSE h

\* The seven resources of o, in turn.
ReleaseAll(o) ==
    LET h1 == Release(held, o[1])
        h2 == Release(h1, o[2])
        h3 == Release(h2, o[3])
        h4 == Release(h3, o[4])
        h5 == Release(h4, o[5])
        h6 == Release(h5, o[6])
    IN  Release(h6, o[7])

SetupInit ==
    /\ at = "device"
    /\ i = 1
    /\ ptr = [p \in Pointers |-> FALSE]
    /\ cq_list_ = <<>>
    /\ qp_list_ = <<>>
    /\ depth_list_ = "uninitialized"
    /\ worker = FALSE
    /\ pass = 1
    /\ held = {}
    /\ mishaps = {}
    /\ damage = {}

(***************************************************************************)
(* Construct.                                                              *)
(***************************************************************************)

Fail(s) ==
    /\ s \in SetupFaults
    /\ mishaps' = mishaps \cup {s}

\* A step returns -1 up to Create, which drops the engine.
Abandon(s) ==
    /\ Fail(s)
    /\ at' = "join"
    /\ i' = 1

\* One pointer is acquired.
Acquire(s, p, r, next) ==
    /\ at = s
    /\ \/ at' = next /\ ptr' = [ptr EXCEPT ![p] = TRUE] /\ held' = held \cup {r}
          /\ UNCHANGED <<i, mishaps>>
       \/ Abandon(s) /\ UNCHANGED <<ptr, held>>
    /\ UNCHANGED <<lists, worker, pass, damage>>

\* openRdmaDevice closes what it opened when it fails.
OpenDevice == Acquire("device", "context_", Device, "pd")
AllocPd == Acquire("pd", "pd_", Pd, "channel")
CreateChannel == Acquire("channel", "comp_channel_", Channel, "epoll")
CreateEpoll == Acquire("epoll", "event_fd_", Epoll, "poll")

\* The async descriptor and the channel join the poll list.  When epoll_ctl fails the
\* descriptor is closed, and event_fd_ keeps its number.
JoinNonblockingPollList ==
    /\ at = "poll"
    /\ \/ /\ i' = IF i = 1 THEN 2 ELSE 1
          /\ at' = IF i = 1 THEN "poll" ELSE "cq"
          /\ UNCHANGED <<held, mishaps>>
       \/ /\ Abandon("poll")
          /\ held' \in {held, held \ {Epoll}}
    /\ UNCHANGED <<ptr, lists, worker, pass, damage>>

CreateCq ==
    /\ at = "cq"
    /\ LET list == IF i = 1 THEN [n \in 1..NumCq |-> FALSE] ELSE cq_list_ IN
       \/ /\ cq_list_' = [list EXCEPT ![i] = TRUE]
          /\ held' = held \cup {Cq(i)}
          /\ i' = IF i < NumCq THEN i + 1 ELSE 1
          /\ at' = IF i < NumCq THEN "cq" ELSE "qp"
          /\ UNCHANGED mishaps
       \/ /\ Abandon("cq")
          /\ cq_list_' = list
          /\ UNCHANGED held
    /\ UNCHANGED <<ptr, qp_list_, depth_list_, worker, pass, damage>>

CreateQp ==
    /\ at = "qp"
    /\ depth_list_' = "array"
    /\ LET list == IF i = 1 THEN [n \in 1..NumQp |-> FALSE] ELSE qp_list_ IN
       \/ /\ qp_list_' = [list EXCEPT ![i] = TRUE]
          /\ held' = held \cup {Qp(i)}
          /\ at' = "rts"
          /\ UNCHANGED <<i, mishaps>>
       \/ /\ Abandon("qp")
          /\ qp_list_' = list
          /\ UNCHANGED held
    /\ UNCHANGED <<ptr, cq_list_, worker, pass, damage>>

\* RESET, INIT, RTR and RTS.
SetupQueuePair ==
    /\ at = "rts"
    /\ \/ /\ i' = IF i < NumQp THEN i + 1 ELSE 1
          /\ at' = IF i < NumQp THEN "qp" ELSE "arena"
          /\ UNCHANGED mishaps
       \/ Abandon("rts")
    /\ UNCHANGED <<ptr, lists, worker, pass, held, damage>>

\* The result of numa_alloc_onnode is not checked before the free list is written.
AllocArena ==
    /\ at = "arena"
    /\ \/ /\ at' = "mr"
          /\ ptr' = [ptr EXCEPT !["arena_"] = TRUE]
          /\ held' = held \cup {Arena}
          /\ UNCHANGED <<mishaps, damage>>
       \/ /\ Fail("arena")
          /\ at' = "crashed"
          /\ damage' = damage \cup {"null arena"}
          /\ UNCHANGED <<ptr, held>>
    /\ UNCHANGED <<i, lists, worker, pass>>

RegisterArena ==
    /\ at = "mr"
    /\ \/ at' = "post" /\ held' = held \cup {ArenaMr} /\ UNCHANGED <<i, mishaps>>
       \/ Abandon("mr") /\ UNCHANGED held
    /\ UNCHANGED <<ptr, lists, worker, pass, damage>>

\* The receive handles are posted, and the worker is started.
Open ==
    /\ at = "post"
    /\ \/ at' = "up" /\ worker' = SpawnWorker /\ UNCHANGED <<i, mishaps>>
       \/ Abandon("post") /\ UNCHANGED worker
    /\ UNCHANGED <<ptr, lists, pass, held, damage>>

\* An address handle, for the first connection to a peer.
Connect ==
    /\ at = "up"
    /\ Handle \notin held
    /\ held' = held \cup {Handle}
    /\ UNCHANGED <<at, i, ptr, lists, worker, pass, mishaps, damage>>

Construct ==
    \/ OpenDevice \/ AllocPd \/ CreateChannel \/ CreateEpoll \/ JoinNonblockingPollList
    \/ CreateCq \/ CreateQp \/ SetupQueuePair \/ AllocArena \/ RegisterArena \/ Open

(***************************************************************************)
(* Destroy.                                                                *)
(***************************************************************************)
Destroy ==
    /\ at = "up"
    /\ at' = "join"
    /\ UNCHANGED <<i, ptr, lists, worker, pass, held, mishaps, damage>>

\* Variant: the worker is told to stop and not waited for.
JoinNoWorker ==
    /\ at = "join"
    /\ at' = "unregister"
    /\ UNCHANGED <<i, ptr, lists, worker, pass, held, mishaps, damage>>

JoinWorker ==
    /\ at = "join"
    /\ worker' = FALSE
    /\ at' = "unregister"
    /\ UNCHANGED <<i, ptr, lists, pass, held, mishaps, damage>>

\* A region that cannot be deregistered stays in memory_region_list_.
UnregisterArena ==
    /\ at = "unregister"
    /\ at' = "free"
    /\ \/ held' = held \ {ArenaMr} /\ UNCHANGED mishaps
       \/ ArenaMr \in held /\ Fail("dereg") /\ UNCHANGED held
    /\ UNCHANGED <<i, ptr, lists, worker, pass, damage>>

\* The queues are deleted and the arena is freed.
FreeArena ==
    /\ at = "free"
    /\ at' = "qps"
    /\ held' = held \ {Arena}
    /\ ptr' = [ptr EXCEPT !["arena_"] = FALSE]
    /\ UNCHANGED <<i, lists, worker, pass, mishaps, damage>>

Crash(what) ==
    /\ at' = "crashed"
    /\ damage' = damage \cup {what}

\* Variant: the list is not cleared.
KeptQps == qp_list_

\* qp_list_.clear().
ClearedQps == <<>>

\* ibv_destroy_qp on the queue pairs in turn.  The first that is not destroyed ends
\* the loop.
Destroyed(n) == held \ ({Handle} \cup {Qp(m) : m \in 1..n})

\* RdmaUDEndPointStore::deconstruct.  The address handles go with the endpoints; after
\* a failure the lists stay as they are.
DestroyQps ==
    /\ at = "qps"
    /\ \/ /\ \E n \in DOMAIN qp_list_ : ~qp_list_[n]
          /\ Crash("null queue pair")
          /\ UNCHANGED <<held, qp_list_, depth_list_, mishaps>>
       \/ /\ \E n \in DOMAIN qp_list_ : qp_list_[n] /\ Qp(n) \notin held
          /\ Crash("queue pair destroyed twice")
          /\ UNCHANGED <<held, qp_list_, depth_list_, mishaps>>
       \/ /\ \A n \in DOMAIN qp_list_ : qp_list_[n] /\ Qp(n) \in held
          /\ held' = Destroyed(Len(qp_list_))
          /\ qp_list_' = ClearedQps
          /\ \/ depth_list_' = "null" /\ at' = "context" /\ UNCHANGED damage
             \/ /\ depth_list_ = "uninitialized"
                /\ Crash("delete of an uninitialized pointer")
                /\ UNCHANGED depth_list_
          /\ UNCHANGED mishaps
       \/ /\ \A n \in DOMAIN qp_list_ : qp_list_[n] /\ Qp(n) \in held
          /\ \E n \in DOMAIN qp_list_ : held' = Destroyed(n - 1)
          /\ Fail("destroy")
          /\ at' = "context"
          /\ UNCHANGED <<qp_list_, depth_list_, damage>>
    /\ UNCHANGED <<i, ptr, cq_list_, worker, pass>>

\* Variant: the channel goes before the queues that report to it.
ReleaseChannelFirst == <<ArenaMr, Epoll, Channel, Cq(1), Cq(2), Pd, Device>>

\* The order of RdmaContext::deconstruct.
ReleaseOrder == <<ArenaMr, Cq(1), Cq(2), Epoll, Channel, Pd, Device>>

\* RdmaContext::deconstruct.  A null completion queue is not skipped.  The pointers are
\* cleared even when a release is refused, so a second pass releases nothing.
DeconstructContext ==
    /\ at = "context"
    /\ \/ /\ \E n \in DOMAIN cq_list_ : ~cq_list_[n]
          /\ Crash("null completion queue")
          /\ UNCHANGED <<held, cq_list_, ptr, pass>>
       \/ /\ \A n \in DOMAIN cq_list_ : cq_list_[n]
          /\ held' = IF ptr["context_"] THEN ReleaseAll(ReleaseOrder) ELSE held
          /\ cq_list_' = <<>>
          /\ ptr' = [p \in Pointers |-> FALSE]
          /\ damage' = IF ptr["event_fd_"] /\ Epoll \notin held
                       THEN damage \cup {"descriptor closed twice"} ELSE damage
          /\ at' = IF pass = 1 THEN "qps" ELSE "groups"
          /\ pass' = 2
    /\ UNCHANGED <<i, qp_list_, depth_list_, worker, mishaps>>

Deconstruct ==
    \/ JoinWorker \/ UnregisterArena \/ FreeArena \/ DestroyQps \/ DeconstructContext

\* The engine object is gone.
Finish ==
    /\ at = "groups"
    /\ at' = "gone"
    /\ UNCHANGED <<i, ptr, lists, worker, pass, held, mishaps, damage>>

(***************************************************************************)
(* Properties.                                                             *)
(***************************************************************************)

\* Failures that leave objects behind which the destructors are not written for.
Early == {"device", "pd", "channel", "epoll", "poll", "cq", "qp", "rts", "arena"}

\* Destroying an engine, or dropping one whose construct failed once its queue pairs
\* were ready, releases no null, uninitialized or already released object, although
\* deconstruct runs more than once.
NoWildRelease == mishaps \cap (Early \cup {"destroy"}) = {} => damage = {}

\* A failed Create returns: what construct left undone is not released.
FailedCreateReturns == at # "crashed"

\* Nothing stays behind, however far construct got: the order of the releases is one
\* the device accepts, so none is refused because something still uses the resource.
NothingLeft == at = "gone" /\ "destroy" \notin mishaps => held = {}

\* While the worker polls, everything it works on is there, and the device holds a key
\* to the arena only as long as the arena is mapped.
UsesLiveMemory ==
    /\ worker => {Arena, ArenaMr, Qp(NumQp), Cq(1), Cq(2)} \subseteq held
    /\ ArenaMr \in held /\ "dereg" \notin mishaps => Arena \in held

(***************************************************************************)
(* The inductive invariant: how far the lists and what is held agree, in   *)
(* each stage of construct and of the destructors.                         *)
(***************************************************************************)
Opening == {"device", "pd", "channel", "epoll", "poll", "cq", "qp", "rts", "arena", "mr",
            "post"}
Closing == {"join", "unregister", "free", "qps", "context", "groups", "gone"}

Releasable == {ArenaMr, Cq(1), Cq(2), Epoll, Channel, Pd, Device}
Resources == Releasable \cup {Arena, Handle} \cup {Qp(n) : n \in 1..NumQp}

SetupTypeOK ==
    /\ at \in Opening \cup {"up"} \cup Closing \cup {"crashed"}
    /\ i \in 1..NumQp \/ i \in 1..NumCq
    /\ ptr \in [Pointers -> BOOLEAN]
    /\ cq_list_ \in {<< >>} \cup [1..NumCq -> BOOLEAN]
    /\ qp_list_ \in {<< >>} \cup [1..NumQp -> BOOLEAN]
    /\ depth_list_ \in {"uninitialized", "array", "null"}
    /\ worker \in BOOLEAN
    /\ pass \in {1, 2}
    /\ held \subseteq Resources
    /\ mishaps \subseteq SetupFaults

AllCqs == cq_list_ = [n \in 1..NumCq |-> TRUE]
AllQps == qp_list_ = [n \in 1..NumQp |-> TRUE]

\* construct on its way.
OpeningOK ==
    /\ mishaps = {} /\ damage = {} /\ pass = 1
    /\ at \in Opening => ~worker
    /\ at = "device" => held = {} /\ ~ptr["event_fd_"]
    /\ at # "device" => ptr["context_"]
    /\ at \in {"device", "pd", "channel", "epoll", "poll"} => cq_list_ = << >>
    /\ at \in {"device", "pd", "channel", "epoll", "poll", "cq"} => qp_list_ = << >>
    /\ at \in {"device", "pd", "channel", "epoll", "arena", "mr", "post"} => i = 1
    /\ at \in {"poll", "cq"} => i \in 1..NumCq
    /\ at = "cq" => IF i = 1 THEN cq_list_ = << >> ELSE cq_list_ # << >> /\ cq_list_[1]
    /\ at \in {"qp", "rts", "arena", "mr", "post", "up"} => AllCqs
    /\ at \in {"qp", "rts"} => i \in 1..NumQp
    /\ at = "qp" => IF i = 1 THEN qp_list_ = << >>
                    ELSE qp_list_ # << >> /\ \A n \in 1..(i - 1) : qp_list_[n]
    /\ at = "rts" => qp_list_ # << >> /\ \A n \in 1..i : qp_list_[n]
    /\ at \in {"arena", "mr", "post", "up"} => AllQps
    /\ at \in {"rts", "arena", "mr", "post", "up"} => depth_list_ = "array"
    /\ at \in {"mr", "post", "up"} => Arena \in held
    /\ at \in {"post", "up"} => ArenaMr \in held
    /\ at \notin {"post", "up"} => ArenaMr \notin held

\* The destructors on their way.
ClosingOK ==
    /\ worker => at = "join"
    /\ at \in {"join", "unregister", "free"} => pass = 1
    /\ at \in {"groups", "gone"} => pass = 2
    /\ pass = 1 /\ at # "context" /\ mishaps \cap (Early \cup {"destroy"}) = {} =>
          AllQps /\ depth_list_ = "array"
    /\ pass = 1 /\ mishaps \cap (Early \cup {"destroy"}) = {} => AllCqs
    /\ at \in {"join", "unregister"} /\ ArenaMr \in held => Arena \in held
    /\ at \notin {"join", "unregister"} /\ ArenaMr \in held => "dereg" \in mishaps
    /\ at \in {"qps", "context", "groups", "gone"} => Arena \notin held
    /\ at = "context" /\ "destroy" \notin mishaps =>
          held \subseteq Releasable /\ qp_list_ = << >> /\ depth_list_ = "null"

\* After a crash.
CrashedOK ==
    /\ mishaps \cap (Early \cup {"destroy"}) # {}
    /\ ~worker
    /\ ArenaMr \in held => "dereg" \in mishaps

\* What the objects believe is what the process holds.
HeldOK ==
    /\ "destroy" \notin mishaps =>
          \A n \in 1..NumQp : Qp(n) \in held <=> n \in DOMAIN qp_list_ /\ qp_list_[n]
    /\ pass = 1 =>
          \A n \in 1..NumCq : Cq(n) \in held <=> n \in DOMAIN cq_list_ /\ cq_list_[n]
    /\ "poll" \notin mishaps /\ ptr["event_fd_"] => Epoll \in held
    /\ pass = 1 /\ held # {} => ptr["context_"]
    /\ pass = 2 => cq_list_ = << >> /\ ptr = [p \in Pointers |-> FALSE]
    /\ pass = 2 /\ "destroy" \notin mishaps =>
          held = {} /\ qp_list_ = << >> /\ depth_list_ = "null"

SetupInv ==
    /\ SetupTypeOK
    /\ at \in Opening \cup {"up"} => OpeningOK
    /\ at \in Closing => ClosingOK
    /\ at = "crashed" => CrashedOK
    /\ at # "crashed" => HeldOK
    /\ NoWildRelease
    /\ UsesLiveMemory
=============================================================================
