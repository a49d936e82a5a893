---------------------------- MODULE EngineProofs ----------------------------
(***************************************************************************)
(* Proofs about Engine: the destructors release what construct acquired    *)
(* and nothing else, the event thread of a group outlives no connection it *)
(* works on, and no packet is lost by joins and leaves.                    *)
(***************************************************************************)
EXTENDS Engine, TLAPS

USE Zenon

(***************************************************************************)
(* Construct and the destructors.                                          *)
(***************************************************************************)

LEMMA ResourcesDiffer ==
    /\ \A n, m \in Nat : /\ Cq(n) = Cq(m) => n = m
                         /\ Qp(n) = Qp(m) => n = m
                         /\ Cq(n) # Qp(m)
    /\ \A n \in Nat :
          /\ Cq(n) \notin {Device, Pd, Channel, Epoll, Arena, ArenaMr, Handle}
          /\ Qp(n) \notin {Device, Pd, Channel, Epoll, Arena, ArenaMr, Handle}
    /\ Device \notin {Pd, Channel, Epoll, Arena, ArenaMr, Handle}
    /\ Pd \notin {Channel, Epoll, Arena, ArenaMr, Handle}
    /\ Channel \notin {Epoll, Arena, ArenaMr, Handle}
    /\ Epoll \notin {Arena, ArenaMr, Handle}
    /\ Arena \notin {ArenaMr, Handle}
    /\ ArenaMr # Handle
  BY DEF Cq, Qp, Device, Pd, Channel, Epoll, Arena, ArenaMr, Handle

\* Construct has not begun: nothing is held.
LEMMA SetupInitial == SetupInit => SetupInv
  <1> SUFFICES ASSUME SetupInit
               PROVE  SetupInv
    OBVIOUS
  <1>1. SetupTypeOK
    <2>1. i \in 1..NumQp /\ at \in Opening /\ ptr \in [Pointers -> BOOLEAN]
      BY SMT, SetupAssumption DEF SetupInit, Opening
    <2>2. worker \in BOOLEAN /\ pass \in {1, 2} /\ held \subseteq Resources
      BY DEF SetupInit
    <2> QED
      BY <2>1, <2>2 DEF SetupInit, SetupTypeOK
  <1>2. OpeningOK /\ HeldOK
    BY SMT DEF SetupInit, OpeningOK, HeldOK, Opening, Pointers
  <1>3. NoWildRelease /\ UsesLiveMemory
    BY DEF SetupInit, NoWildRelease, UsesLiveMemory
  <1> QED
    BY <1>1, <1>2, <1>3 DEF SetupInv, SetupInit, Opening, Closing

\* A step of construct fails: the destructors begin, with the objects as they are.
LEMMA AbandonInv ==
    ASSUME SetupInv, at \in Opening, NEW s \in SetupFaults, Abandon(s),
           s \in Early \/ (AllQps /\ AllCqs /\ depth_list_ = "array"),
           s # "destroy", s # "dereg",
           SetupTypeOK', HeldOK', ArenaMr \in held' => ArenaMr \in held /\ Arena \in held',
           UNCHANGED <<worker, pass, damage>>,
           s \in Early \/ UNCHANGED lists
    PROVE  SetupInv'
  <1>1. /\ OpeningOK /\ ~worker /\ pass = 1 /\ mishaps = {} /\ damage = {}
        /\ at' = "join" /\ mishaps' = {s}
    BY DEF SetupInv, OpeningOK, Abandon, Fail
  <1>2. s \notin Early => AllQps' /\ AllCqs' /\ depth_list_' = "array"
    BY DEF lists, AllQps, AllCqs
  <1>3. ClosingOK'
    BY <1>1, <1>2 DEF ClosingOK
  <1>4. NoWildRelease'
    BY <1>1 DEF NoWildRelease
  <1>5. UsesLiveMemory'
    BY <1>1 DEF UsesLiveMemory
  <1> QED
    BY <1>1, <1>3, <1>4, <1>5 DEF SetupInv, Opening, Closing

\* The device, its protection domain, the channel and the event descriptor.
LEMMA AcquireInv ==
    ASSUME SetupInv, NEW s, NEW p, NEW r, NEW next_,
           \/ s = "device" /\ p = "context_" /\ r = Device /\ next_ = "pd"
           \/ s = "pd" /\ p = "pd_" /\ r = Pd /\ next_ = "channel"
           \/ s = "channel" /\ p = "comp_channel_" /\ r = Channel /\ next_ = "epoll"
           \/ s = "epoll" /\ p = "event_fd_" /\ r = Epoll /\ next_ = "poll",
           Acquire(s, p, r, next_)
    PROVE  SetupInv'
  <1>1. /\ SetupTypeOK /\ OpeningOK /\ HeldOK /\ at = s /\ at \in Opening
        /\ UNCHANGED <<cq_list_, qp_list_, depth_list_, worker, pass, damage>>
    BY DEF SetupInv, Acquire, Opening, lists
  <1>2. CASE Abandon(s) /\ UNCHANGED <<ptr, held>>
    <2>1. SetupTypeOK'
      BY SMT, <1>1, <1>2, SetupAssumption DEF SetupTypeOK, Abandon, Fail, Closing
    <2>2. HeldOK'
      BY <1>1, <1>2 DEF HeldOK, OpeningOK, Abandon, Fail
    <2>3. ArenaMr \notin held
      BY <1>1 DEF OpeningOK
    <2>4. s \in SetupFaults /\ s \in Early
      BY <1>2 DEF Abandon, Fail, Early
    <2> QED
      BY <1>1, <1>2, <2>1, <2>2, <2>3, <2>4, AbandonInv
  <1>3. CASE /\ at' = next_ /\ ptr' = [ptr EXCEPT ![p] = TRUE] /\ held' = held \cup {r}
             /\ UNCHANGED <<i, mishaps>>
    <2>1. SetupTypeOK'
      BY <1>1, <1>3 DEF SetupTypeOK, Opening, Resources, Releasable, Pointers
    <2>2. at' \in Opening /\ at' \notin Closing /\ at' # "crashed"
      BY <1>3 DEF Opening, Closing
    <2>3. OpeningOK'
      <3>1. ArenaMr \notin held'
        BY <1>1, <1>3, ResourcesDiffer DEF OpeningOK
      <3>2. ptr'["context_"]
        BY <1>1, <1>3 DEF OpeningOK, SetupTypeOK, Pointers
      <3>3. i = 1 /\ 1 \in 1..NumCq
        BY SMT, <1>1 DEF OpeningOK, NumCq
      <3> QED
        BY <1>1, <1>3, <3>1, <3>2, <3>3 DEF OpeningOK
    <2>4. \A n \in Nat : r # Qp(n) /\ r # Cq(n)
      BY ResourcesDiffer
    <2>5. HeldOK'
      BY SMT, <1>1, <1>3, <2>4 DEF HeldOK, SetupTypeOK, Pointers, NumCq, OpeningOK
    <2>6. NoWildRelease' /\ UsesLiveMemory'
      BY <1>1, <1>3, <2>2, <2>3 DEF NoWildRelease, UsesLiveMemory, OpeningOK, SetupInv, Opening
    <2> QED
      BY <2>1, <2>2, <2>3, <2>5, <2>6 DEF SetupInv
  <1> QED
    BY <1>2, <1>3 DEF Acquire

LEMMA PollListInv ==
    ASSUME SetupInv, JoinNonblockingPollList
    PROVE  SetupInv'
  <1>1. /\ SetupTypeOK /\ OpeningOK /\ HeldOK /\ at = "poll" /\ at \in Opening
        /\ UNCHANGED <<ptr, cq_list_, qp_list_, depth_list_, worker, pass, damage>>
    BY DEF SetupInv, JoinNonblockingPollList, Opening, lists
  <1>2. ArenaMr \notin held
    BY <1>1 DEF OpeningOK
  <1>3. CASE Abandon("poll") /\ held' \in {held, held \ {Epoll}}
    <2>1. SetupTypeOK'
      BY SMT, <1>1, <1>3, SetupAssumption DEF SetupTypeOK, Abandon, Fail, Closing
    <2>2. HeldOK'
      <3>1. \A n \in Nat : Epoll # Qp(n) /\ Epoll # Cq(n)
        BY ResourcesDiffer
      <3> QED
        BY SMT, <1>1, <1>3, <3>1 DEF HeldOK, OpeningOK, Abandon, Fail, NumCq
    <2>3. "poll" \in SetupFaults /\ "poll" \in Early
      BY <1>3 DEF Abandon, Fail, Early
    <2> QED
      BY <1>1, <1>2, <1>3, <2>1, <2>2, <2>3, AbandonInv
  <1>4. CASE /\ i' = IF i = 1 THEN 2 ELSE 1
             /\ at' = IF i = 1 THEN "poll" ELSE "cq"
             /\ UNCHANGED <<held, mishaps>>
    <2>0. i' \in 1..NumCq /\ (at' = "cq" => i' = 1) /\ at' \in {"poll", "cq"}
      BY SMT, <1>1, <1>4 DEF OpeningOK, NumCq
    <2>1. SetupTypeOK'
      BY <1>1, <1>4, <2>0 DEF SetupTypeOK, Opening
    <2>2. at' \in Opening /\ at' \notin Closing /\ at' # "crashed"
      BY <2>0 DEF Opening, Closing
    <2>3. OpeningOK'
      BY <1>1, <1>4, <2>0 DEF OpeningOK
    <2>4. HeldOK'
      BY <1>1, <1>4 DEF HeldOK
    <2>5. NoWildRelease' /\ UsesLiveMemory'
      BY <1>1, <1>4 DEF NoWildRelease, UsesLiveMemory, SetupInv
    <2> QED
      BY <2>1, <2>2, <2>3, <2>4, <2>5 DEF SetupInv
  <1> QED
    BY <1>3, <1>4 DEF JoinNonblockingPollList

LEMMA CreateCqInv ==
    ASSUME SetupInv, CreateCq
    PROVE  SetupInv'
  <1> DEFINE list == IF i = 1 THEN [n \in 1..NumCq |-> FALSE] ELSE cq_list_
  <1>1. /\ SetupTypeOK /\ OpeningOK /\ HeldOK /\ at = "cq" /\ at \in Opening
        /\ UNCHANGED <<ptr, qp_list_, depth_list_, worker, pass, damage>>
    BY DEF SetupInv, CreateCq, Opening
  <1>2. ArenaMr \notin held /\ i \in 1..NumCq /\ pass = 1
    BY <1>1 DEF OpeningOK
  <1>3. list \in [1..NumCq -> BOOLEAN] /\ \A n \in 1..(i - 1) : list[n]
    BY SMT, <1>1, <1>2 DEF OpeningOK, SetupTypeOK, NumCq
  <1>4. \A n \in 1..NumCq : Cq(n) \in held <=> list[n]
    <2>1. \A n \in 1..NumCq : Cq(n) \in held <=> n \in DOMAIN cq_list_ /\ cq_list_[n]
      BY <1>1, <1>2 DEF HeldOK
    <2>2. CASE i = 1
      <3>1. cq_list_ = << >>
        BY <1>1, <2>2 DEF OpeningOK
      <3> QED
        BY SMT, <2>1, <2>2, <3>1
    <2>3. CASE i # 1
      <3>1. cq_list_ \in [1..NumCq -> BOOLEAN] /\ list = cq_list_
        BY <1>1, <2>3 DEF OpeningOK, SetupTypeOK
      <3> QED
        BY <2>1, <3>1
    <2> QED
      BY <2>2, <2>3
  <1> HIDE DEF list
  <1>5. CASE Abandon("cq") /\ cq_list_' = list /\ UNCHANGED held
    <2>1. SetupTypeOK'
      BY SMT, <1>1, <1>3, <1>5, SetupAssumption DEF SetupTypeOK, Abandon, Fail, Closing
    <2>2. HeldOK'
      BY SMT, <1>1, <1>2, <1>3, <1>4, <1>5 DEF HeldOK, OpeningOK, Abandon, Fail
    <2>3. "cq" \in SetupFaults /\ "cq" \in Early
      BY <1>5 DEF Abandon, Fail, Early
    <2> QED
      BY <1>1, <1>2, <1>5, <2>1, <2>2, <2>3, AbandonInv
  <1>6. CASE /\ cq_list_' = [list EXCEPT ![i] = TRUE]
             /\ held' = held \cup {Cq(i)}
             /\ i' = IF i < NumCq THEN i + 1 ELSE 1
             /\ at' = IF i < NumCq THEN "cq" ELSE "qp"
             /\ UNCHANGED mishaps
    <2>0. /\ i' \in 1..NumCq /\ at' \in {"cq", "qp"}
          /\ at' = "cq" => i' = 2
          /\ at' = "qp" => i' = 1 /\ i = NumCq
      BY SMT, <1>2, <1>6 DEF NumCq
    <2>1. SetupTypeOK'
      <3>1. cq_list_' \in [1..NumCq -> BOOLEAN]
        BY <1>2, <1>3, <1>6
      <3>2. Cq(i) \in Resources
        BY SMT, <1>2 DEF Resources, Releasable, NumCq
      <3> QED
        BY <1>1, <1>6, <2>0, <3>1, <3>2 DEF SetupTypeOK, Opening
    <2>2. at' \in Opening /\ at' \notin Closing /\ at' # "crashed"
      BY <2>0 DEF Opening, Closing
    <2>3. cq_list_' \in [1..NumCq -> BOOLEAN] /\ \A n \in 1..i : cq_list_'[n]
      BY SMT, <1>2, <1>3, <1>6
    <2>4. OpeningOK'
      <3>1. ArenaMr \notin held'
        BY SMT, <1>2, <1>6, ResourcesDiffer DEF NumCq
      <3>2. at' = "qp" => AllCqs' /\ i' \in 1..NumQp
        BY SMT, <2>0, <2>3, SetupAssumption DEF AllCqs, NumCq
      <3>3. cq_list_' # << >> /\ cq_list_'[1]
        BY SMT, <1>2, <2>3 DEF NumCq
      <3> QED
        BY SMT, <1>1, <1>6, <2>0, <3>1, <3>2, <3>3 DEF OpeningOK
    <2>5. HeldOK'
      <3>1. \A n \in 1..NumQp : Cq(i) # Qp(n)
        BY SMT, <1>2, ResourcesDiffer, SetupAssumption DEF NumCq
      <3>2. \A n \in 1..NumCq : Cq(i) = Cq(n) => n = i
        BY SMT, <1>2, ResourcesDiffer DEF NumCq
      <3>3. \A n \in 1..NumCq : Cq(n) \in held' <=> n \in DOMAIN cq_list_' /\ cq_list_'[n]
        BY <1>2, <1>3, <1>4, <1>6, <3>2
      <3> QED
        BY SMT, <1>1, <1>2, <1>6, <3>1, <3>3 DEF HeldOK, OpeningOK
    <2>6. NoWildRelease' /\ UsesLiveMemory'
      BY <1>1, <1>6, <2>2, <2>4 DEF NoWildRelease, UsesLiveMemory, OpeningOK
    <2> QED
      BY <2>1, <2>2, <2>4, <2>5, <2>6 DEF SetupInv
  <1> QED
    BY <1>5, <1>6 DEF CreateCq, list

LEMMA CreateQpInv ==
    ASSUME SetupInv, CreateQp
    PROVE  SetupInv'
  <1> DEFINE list == IF i = 1 THEN [n \in 1..NumQp |-> FALSE] ELSE qp_list_
  <1>1. /\ SetupTypeOK /\ OpeningOK /\ HeldOK /\ at = "qp" /\ at \in Opening
        /\ depth_list_' = "array"
        /\ UNCHANGED <<ptr, cq_list_, worker, pass, damage>>
    BY DEF SetupInv, CreateQp, Opening
  <1>2. ArenaMr \notin held /\ i \in 1..NumQp /\ pass = 1 /\ mishaps = {} /\ AllCqs
    BY <1>1 DEF OpeningOK
  <1>3. list \in [1..NumQp -> BOOLEAN] /\ \A n \in 1..(i - 1) : list[n]
    BY SMT, <1>1, <1>2, SetupAssumption DEF OpeningOK, SetupTypeOK
  <1>4. \A n \in 1..NumQp : Qp(n) \in held <=> list[n]
    <2>1. \A n \in 1..NumQp : Qp(n) \in held <=> n \in DOMAIN qp_list_ /\ qp_list_[n]
      BY <1>1, <1>2 DEF HeldOK
    <2>2. CASE i = 1
      <3>1. qp_list_ = << >>
        BY <1>1, <2>2 DEF OpeningOK
      <3> QED
        BY SMT, <2>1, <2>2, <3>1
    <2>3. CASE i # 1
      <3>1. qp_list_ \in [1..NumQp -> BOOLEAN] /\ list = qp_list_
        BY <1>1, <2>3 DEF OpeningOK, SetupTypeOK
      <3> QED
        BY <2>1, <3>1
    <2> QED
      BY <2>2, <2>3
  <1> HIDE DEF list
  <1>5. CASE Abandon("qp") /\ qp_list_' = list /\ UNCHANGED held
    <2>1. SetupTypeOK'
      BY SMT, <1>1, <1>3, <1>5, SetupAssumption DEF SetupTypeOK, Abandon, Fail, Closing
    <2>2. HeldOK'
      BY SMT, <1>1, <1>2, <1>3, <1>4, <1>5 DEF HeldOK, OpeningOK, Abandon, Fail
    <2>3. "qp" \in SetupFaults /\ "qp" \in Early
      BY <1>5 DEF Abandon, Fail, Early
    <2> QED
      BY <1>1, <1>2, <1>5, <2>1, <2>2, <2>3, AbandonInv
  <1>6. CASE /\ qp_list_' = [list EXCEPT ![i] = TRUE]
             /\ held' = held \cup {Qp(i)}
             /\ at' = "rts"
             /\ UNCHANGED <<i, mishaps>>
    <2>1. SetupTypeOK'
      <3>1. qp_list_' \in [1..NumQp -> BOOLEAN]
        BY <1>2, <1>3, <1>6
      <3>2. Qp(i) \in Resources
        BY <1>2 DEF Resources
      <3> QED
        BY <1>1, <1>2, <1>6, <3>1, <3>2 DEF SetupTypeOK, Opening
    <2>2. at' \in Opening /\ at' \notin Closing /\ at' # "crashed"
      BY <1>6 DEF Opening, Closing
    <2>3. qp_list_' \in [1..NumQp -> BOOLEAN] /\ \A n \in 1..i : qp_list_'[n]
      BY SMT, <1>2, <1>3, <1>6, SetupAssumption
    <2>4. OpeningOK'
      <3>1. ArenaMr \notin held'
        BY SMT, <1>2, <1>6, ResourcesDiffer, SetupAssumption
      <3>2. AllCqs'
        BY <1>1, <1>2 DEF AllCqs
      <3>3. qp_list_' # << >>
        <4>1. i \in DOMAIN qp_list_'
          BY <1>2, <2>3
        <4> QED
          BY SMT, <4>1
      <3> QED
        BY <1>1, <1>2, <1>6, <2>3, <3>1, <3>2, <3>3 DEF OpeningOK
    <2>5. HeldOK'
      <3>1. \A n \in 1..NumCq : Cq(n) # Qp(i)
        BY SMT, <1>2, ResourcesDiffer, SetupAssumption DEF NumCq
      <3>2. \A n \in 1..NumQp : Qp(i) = Qp(n) => n = i
        BY SMT, <1>2, ResourcesDiffer, SetupAssumption
      <3>3. \A n \in 1..NumQp : Qp(n) \in held' <=> n \in DOMAIN qp_list_' /\ qp_list_'[n]
        BY <1>2, <1>3, <1>4, <1>6, <3>2
      <3> QED
        BY SMT, <1>1, <1>2, <1>6, <3>1, <3>3 DEF HeldOK, OpeningOK
    <2>6. NoWildRelease' /\ UsesLiveMemory'
      BY <1>1, <1>6, <2>2, <2>4 DEF NoWildRelease, UsesLiveMemory, OpeningOK
    <2> QED
      BY <2>1, <2>2, <2>4, <2>5, <2>6 DEF SetupInv
  <1> QED
    BY <1>5, <1>6 DEF CreateQp, list

LEMMA SetupQueuePairInv ==
    ASSUME SetupInv, SetupQueuePair
    PROVE  SetupInv'
  <1>1. /\ SetupTypeOK /\ OpeningOK /\ HeldOK /\ at = "rts" /\ at \in Opening
        /\ UNCHANGED <<ptr, cq_list_, qp_list_, depth_list_, worker, pass, held, damage>>
    BY DEF SetupInv, SetupQueuePair, Opening, lists
  <1>2. /\ ArenaMr \notin held /\ i \in 1..NumQp /\ AllCqs
        /\ qp_list_ # << >> /\ \A n \in 1..i : qp_list_[n]
    BY <1>1 DEF OpeningOK
  <1>3. CASE Abandon("rts")
    <2>1. SetupTypeOK'
      BY SMT, <1>1, <1>3, SetupAssumption DEF SetupTypeOK, Abandon, Fail, Closing
    <2>2. HeldOK'
      BY <1>1, <1>3 DEF HeldOK, OpeningOK, Abandon, Fail
    <2>3. "rts" \in SetupFaults /\ "rts" \in Early
      BY <1>3 DEF Abandon, Fail, Early
    <2> QED
      BY <1>1, <1>2, <1>3, <2>1, <2>2, <2>3, AbandonInv
  <1>4. CASE /\ i' = IF i < NumQp THEN i + 1 ELSE 1
             /\ at' = IF i < NumQp THEN "qp" ELSE "arena"
             /\ UNCHANGED mishaps
    <2>0. /\ i' \in 1..NumQp /\ at' \in {"qp", "arena"}
          /\ at' = "qp" => i' = i + 1 /\ i' # 1 /\ i = i' - 1
          /\ at' = "arena" => i' = 1 /\ i = NumQp
      BY SMT, <1>2, <1>4, SetupAssumption
    <2>1. SetupTypeOK'
      BY <1>1, <1>4, <2>0 DEF SetupTypeOK, Opening
    <2>2. at' \in Opening /\ at' \notin Closing /\ at' # "crashed"
      BY <2>0 DEF Opening, Closing
    <2>3. OpeningOK'
      <3>1. AllCqs'
        BY <1>1, <1>2 DEF AllCqs
      <3>2. qp_list_ \in [1..NumQp -> BOOLEAN]
        BY <1>1, <1>2 DEF SetupTypeOK
      <3>3. at' = "arena" => AllQps'
        BY <1>1, <1>2, <2>0, <3>2 DEF AllQps
      <3>4. at' = "qp" => \A n \in 1..(i' - 1) : qp_list_'[n]
        BY <1>1, <1>2, <2>0
      <3> QED
        BY <1>1, <1>2, <1>4, <2>0, <3>1, <3>3, <3>4 DEF OpeningOK
    <2>4. HeldOK'
      BY <1>1, <1>4 DEF HeldOK
    <2>5. NoWildRelease' /\ UsesLiveMemory'
      BY <1>1, <1>4 DEF NoWildRelease, UsesLiveMemory, SetupInv
    <2> QED
      BY <2>1, <2>2, <2>3, <2>4, <2>5 DEF SetupInv
  <1> QED
    BY <1>3, <1>4 DEF SetupQueuePair

\* A step of construct that leaves the lists and the completed checks as they are.
LEMMA ArenaStepInv ==
    ASSUME SetupInv, at \in {"arena", "mr", "post"}, SetupTypeOK',
           at' \in {"mr", "post", "up"}, at = "arena" => at' = "mr", at = "post" => at' = "up",
           UNCHANGED <<i, cq_list_, qp_list_, depth_list_, pass, mishaps, damage>>,
           ptr'["context_"] = ptr["context_"], ptr'["event_fd_"] = ptr["event_fd_"],
           at' # "up" => ~worker',
           held' \in {held, held \cup {Arena}, held \cup {ArenaMr}},
           Arena \in held', ArenaMr \in held' <=> at' \in {"post", "up"}
    PROVE  SetupInv'
  <1>1. OpeningOK /\ HeldOK /\ SetupTypeOK /\ AllQps /\ AllCqs /\ mishaps = {} /\ damage = {} /\ pass = 1
    BY DEF SetupInv, OpeningOK, Opening
  <1>2. AllQps' /\ AllCqs'
    BY <1>1 DEF AllQps, AllCqs
  <1>3. OpeningOK'
    <2>1. ptr'["context_"]
      BY <1>1 DEF OpeningOK
    <2>2. at' \in Opening => ~worker'
      BY DEF Opening
    <2> QED
      BY <1>1, <1>2, <2>1, <2>2 DEF OpeningOK
  <1>4. HeldOK'
    <2>1. \A n \in Nat : Arena # Qp(n) /\ Arena # Cq(n) /\ ArenaMr # Qp(n) /\ ArenaMr # Cq(n)
      BY ResourcesDiffer
    <2>2. \A n \in Nat : (Qp(n) \in held' <=> Qp(n) \in held) /\ (Cq(n) \in held' <=> Cq(n) \in held)
      BY <2>1
    <2>3. Epoll \in held => Epoll \in held'
      OBVIOUS
    <2>4. ptr'["context_"]
      BY <1>1 DEF OpeningOK
    <2> QED
      BY SMT, <1>1, <2>2, <2>3, <2>4, SetupAssumption DEF HeldOK, NumCq
  <1>5. NoWildRelease'
    BY <1>1 DEF NoWildRelease
  <1>6. {Arena, ArenaMr, Qp(NumQp), Cq(1), Cq(2)} \subseteq held' \/ at' # "up"
    <2>1. Qp(NumQp) \in held' /\ Cq(1) \in held' /\ Cq(2) \in held'
      BY SMT, <1>1, <1>2, <1>4, SetupAssumption DEF HeldOK, AllQps, AllCqs, NumCq
    <2> QED
      BY <2>1
  <1>7. UsesLiveMemory'
    BY <1>6 DEF UsesLiveMemory
  <1> QED
    BY <1>3, <1>4, <1>5, <1>7 DEF SetupInv, Opening, Closing

LEMMA AllocArenaInv ==
    ASSUME SetupInv, AllocArena
    PROVE  SetupInv'
  <1>1. /\ SetupTypeOK /\ OpeningOK /\ HeldOK /\ at = "arena" /\ at \in Opening
        /\ UNCHANGED <<i, cq_list_, qp_list_, depth_list_, worker, pass>>
    BY DEF SetupInv, AllocArena, Opening, lists
  <1>2. ArenaMr \notin held /\ ~worker
    BY <1>1 DEF OpeningOK
  <1>3. CASE /\ Fail("arena") /\ at' = "crashed"
             /\ damage' = damage \cup {"null arena"}
             /\ UNCHANGED <<ptr, held>>
    <2>1. "arena" \in SetupFaults /\ mishaps' = mishaps \cup {"arena"} /\ "arena" \in Early
      BY <1>3 DEF Fail, Early
    <2>2. SetupTypeOK'
      BY <1>1, <1>3, <2>1 DEF SetupTypeOK
    <2>3. CrashedOK'
      BY <1>1, <1>2, <1>3, <2>1 DEF CrashedOK
    <2>4. NoWildRelease' /\ UsesLiveMemory'
      BY <1>1, <1>2, <1>3, <2>1 DEF NoWildRelease, UsesLiveMemory
    <2> QED
      BY <1>3, <2>2, <2>3, <2>4 DEF SetupInv, Opening, Closing
  <1>4. CASE /\ at' = "mr"
             /\ ptr' = [ptr EXCEPT !["arena_"] = TRUE]
             /\ held' = held \cup {Arena}
             /\ UNCHANGED <<mishaps, damage>>
    <2>1. SetupTypeOK'
      BY <1>1, <1>4 DEF SetupTypeOK, Opening, Resources, Pointers
    <2>2. ptr'["context_"] = ptr["context_"] /\ ptr'["event_fd_"] = ptr["event_fd_"]
      BY <1>1, <1>4 DEF SetupTypeOK, Pointers
    <2>3. ArenaMr \notin held'
      BY <1>2, <1>4, ResourcesDiffer
    <2> QED
      BY <1>1, <1>2, <1>4, <2>1, <2>2, <2>3, ArenaStepInv
  <1> QED
    BY <1>3, <1>4 DEF AllocArena

LEMMA RegisterArenaInv ==
    ASSUME SetupInv, RegisterArena
    PROVE  SetupInv'
  <1>1. /\ SetupTypeOK /\ OpeningOK /\ HeldOK /\ at = "mr" /\ at \in Opening
        /\ UNCHANGED <<ptr, cq_list_, qp_list_, depth_list_, worker, pass, damage>>
        /\ UNCHANGED lists
    BY DEF SetupInv, RegisterArena, Opening, lists
  <1>2. /\ ArenaMr \notin held /\ ~worker /\ Arena \in held
        /\ AllCqs /\ AllQps /\ depth_list_ = "array"
    BY <1>1 DEF OpeningOK
  <1>3. CASE Abandon("mr") /\ UNCHANGED held
    <2>1. SetupTypeOK'
      BY SMT, <1>1, <1>3, SetupAssumption DEF SetupTypeOK, Abandon, Fail, Closing
    <2>2. HeldOK'
      BY <1>1, <1>3 DEF HeldOK, OpeningOK, Abandon, Fail
    <2>3. "mr" \in SetupFaults
      BY <1>3 DEF Abandon, Fail
    <2> QED
      BY <1>1, <1>2, <1>3, <2>1, <2>2, <2>3, AbandonInv
  <1>4. CASE at' = "post" /\ held' = held \cup {ArenaMr} /\ UNCHANGED <<i, mishaps>>
    <2>1. SetupTypeOK'
      BY <1>1, <1>4 DEF SetupTypeOK, Opening, Resources, Releasable
    <2> QED
      BY <1>1, <1>2, <1>4, <2>1, ArenaStepInv
  <1> QED
    BY <1>3, <1>4 DEF RegisterArena

LEMMA OpenInv ==
    ASSUME SetupInv, Open
    PROVE  SetupInv'
  <1>1. /\ SetupTypeOK /\ OpeningOK /\ HeldOK /\ at = "post" /\ at \in Opening
        /\ UNCHANGED <<ptr, cq_list_, qp_list_, depth_list_, pass, held, damage>>
        /\ UNCHANGED lists
    BY DEF SetupInv, Open, Opening, lists
  <1>2. ArenaMr \in held /\ Arena \in held /\ AllCqs /\ AllQps /\ depth_list_ = "array"
    BY <1>1 DEF OpeningOK
  <1>3. CASE Abandon("post") /\ UNCHANGED worker
    <2>1. SetupTypeOK'
      BY SMT, <1>1, <1>3, SetupAssumption DEF SetupTypeOK, Abandon, Fail, Closing
    <2>2. HeldOK'
      BY <1>1, <1>3 DEF HeldOK, OpeningOK, Abandon, Fail
    <2>3. "post" \in SetupFaults
      BY <1>3 DEF Abandon, Fail
    <2> QED
      BY <1>1, <1>2, <1>3, <2>1, <2>2, <2>3, AbandonInv
  <1>4. CASE at' = "up" /\ worker' = SpawnWorker /\ UNCHANGED <<i, mishaps>>
    <2>1. SetupTypeOK'
      BY <1>1, <1>4, SetupAssumption DEF SetupTypeOK
    <2> QED
      BY <1>1, <1>2, <1>4, <2>1, ArenaStepInv
  <1> QED
    BY <1>3, <1>4 DEF Open

LEMMA ConnectInv ==
    ASSUME SetupInv, Connect
    PROVE  SetupInv'
  <1>1. /\ at = "up" /\ held' = held \cup {Handle}
        /\ UNCHANGED <<at, i, ptr, cq_list_, qp_list_, depth_list_, worker, pass, mishaps, damage>>
    BY DEF Connect, lists
  <1>2. SetupTypeOK /\ OpeningOK /\ HeldOK /\ NoWildRelease /\ UsesLiveMemory
    BY <1>1 DEF SetupInv
  <1>3. SetupTypeOK'
    BY <1>1, <1>2 DEF SetupTypeOK, Resources
  <1>4. OpeningOK'
    BY <1>1, <1>2 DEF OpeningOK, AllQps, AllCqs
  <1>5. HeldOK'
    <2>1. \A n \in Nat : Handle # Qp(n) /\ Handle # Cq(n)
      BY ResourcesDiffer
    <2>2. ptr["context_"]
      BY <1>1, <1>2 DEF OpeningOK
    <2> QED
      BY SMT, <1>1, <1>2, <2>1, <2>2, SetupAssumption DEF HeldOK, NumCq, OpeningOK
  <1>6. NoWildRelease' /\ UsesLiveMemory'
    BY <1>1, <1>2 DEF NoWildRelease, UsesLiveMemory, OpeningOK
  <1> QED
    BY <1>1, <1>3, <1>4, <1>5, <1>6 DEF SetupInv, Closing

LEMMA DestroyInv ==
    ASSUME SetupInv, Destroy
    PROVE  SetupInv'
  <1>1. /\ at = "up" /\ at' = "join"
        /\ UNCHANGED <<i, ptr, cq_list_, qp_list_, depth_list_, worker, pass, held, mishaps, damage>>
    BY DEF Destroy, lists
  <1>2. SetupTypeOK /\ OpeningOK /\ HeldOK /\ NoWildRelease /\ UsesLiveMemory
    BY <1>1 DEF SetupInv
  <1>3. SetupTypeOK'
    BY <1>1, <1>2 DEF SetupTypeOK, Closing
  <1>4. ClosingOK'
    BY <1>1, <1>2 DEF OpeningOK, ClosingOK, AllQps, AllCqs
  <1>5. HeldOK'
    BY <1>1, <1>2 DEF HeldOK
  <1>6. NoWildRelease' /\ UsesLiveMemory'
    BY <1>1, <1>2 DEF NoWildRelease, UsesLiveMemory
  <1> QED
    BY <1>1, <1>3, <1>4, <1>5, <1>6 DEF SetupInv, Opening

LEMMA JoinWorkerInv ==
    ASSUME SetupInv, JoinWorker
    PROVE  SetupInv'
  <1>1. /\ at = "join" /\ at' = "unregister" /\ worker' = FALSE
        /\ UNCHANGED <<i, ptr, cq_list_, qp_list_, depth_list_, pass, held, mishaps, damage>>
    BY DEF JoinWorker, lists
  <1>2. SetupTypeOK /\ ClosingOK /\ HeldOK /\ NoWildRelease /\ UsesLiveMemory
    BY <1>1 DEF SetupInv, Closing
  <1>3. SetupTypeOK'
    BY <1>1, <1>2 DEF SetupTypeOK, Closing
  <1>4. ClosingOK'
    BY <1>1, <1>2 DEF ClosingOK, AllQps, AllCqs
  <1>5. HeldOK'
    BY <1>1, <1>2 DEF HeldOK
  <1>6. NoWildRelease' /\ UsesLiveMemory'
    BY <1>1, <1>2 DEF NoWildRelease, UsesLiveMemory
  <1> QED
    BY <1>1, <1>3, <1>4, <1>5, <1>6 DEF SetupInv, Opening

LEMMA UnregisterArenaInv ==
    ASSUME SetupInv, UnregisterArena
    PROVE  SetupInv'
  <1>1. /\ at = "unregister" /\ at' = "free"
        /\ UNCHANGED <<i, ptr, cq_list_, qp_list_, depth_list_, worker, pass, damage>>
        /\ \/ held' = held \ {ArenaMr} /\ UNCHANGED mishaps
           \/ /\ held' = held /\ "dereg" \in SetupFaults
              /\ mishaps' = mishaps \cup {"dereg"}
    BY DEF UnregisterArena, Fail, lists
  <1>2. SetupTypeOK /\ ClosingOK /\ HeldOK /\ NoWildRelease /\ UsesLiveMemory
    BY <1>1 DEF SetupInv, Closing
  <1>3. mishaps' \cap (Early \cup {"destroy"}) = mishaps \cap (Early \cup {"destroy"})
    BY <1>1 DEF Early
  <1>4. SetupTypeOK'
    BY <1>1, <1>2 DEF SetupTypeOK, Closing
  <1>5. ClosingOK'
    BY <1>1, <1>2, <1>3 DEF ClosingOK, AllQps, AllCqs
  <1>6. HeldOK'
    <2>1. \A n \in Nat : ArenaMr # Qp(n) /\ ArenaMr # Cq(n)
      BY ResourcesDiffer
    <2>2. \A n \in Nat : (Qp(n) \in held' <=> Qp(n) \in held) /\ (Cq(n) \in held' <=> Cq(n) \in held)
      BY <1>1, <2>1
    <2>3. Epoll \in held => Epoll \in held'
      BY <1>1, ResourcesDiffer
    <2>4. held' \subseteq held /\ ("poll" \in mishaps' <=> "poll" \in mishaps)
          /\ ("destroy" \in mishaps' <=> "destroy" \in mishaps) /\ pass = 1
      BY <1>1, <1>2 DEF ClosingOK
    <2> QED
      BY SMT, <1>1, <1>2, <2>2, <2>3, <2>4, SetupAssumption DEF HeldOK, NumCq
  <1>7. NoWildRelease' /\ UsesLiveMemory'
    <2>1. ~worker
      BY <1>1, <1>2 DEF ClosingOK
    <2> QED
      BY <1>1, <1>2, <1>3, <2>1 DEF NoWildRelease, UsesLiveMemory
  <1> QED
    BY <1>1, <1>4, <1>5, <1>6, <1>7 DEF SetupInv, Opening

LEMMA FreeArenaInv ==
    ASSUME SetupInv, FreeArena
    PROVE  SetupInv'
  <1>1. /\ at = "free" /\ at' = "qps" /\ held' = held \ {Arena}
        /\ ptr' = [ptr EXCEPT !["arena_"] = FALSE]
        /\ UNCHANGED <<i, cq_list_, qp_list_, depth_list_, worker, pass, mishaps, damage>>
    BY DEF FreeArena, lists
  <1>2. SetupTypeOK /\ ClosingOK /\ HeldOK /\ NoWildRelease /\ UsesLiveMemory
    BY <1>1 DEF SetupInv, Closing
  <1>3. SetupTypeOK'
    BY <1>1, <1>2 DEF SetupTypeOK, Closing
  <1>4. ClosingOK'
    BY <1>1, <1>2 DEF ClosingOK, AllQps, AllCqs
  <1>5. HeldOK'
    <2>1. \A n \in Nat : Arena # Qp(n) /\ Arena # Cq(n)
      BY ResourcesDiffer
    <2>2. \A n \in Nat : (Qp(n) \in held' <=> Qp(n) \in held) /\ (Cq(n) \in held' <=> Cq(n) \in held)
      BY <1>1, <2>1
    <2>3. (Epoll \in held => Epoll \in held') /\ held' \subseteq held /\ pass = 1
      BY <1>1, <1>2, ResourcesDiffer DEF ClosingOK
    <2>4. ptr'["context_"] = ptr["context_"] /\ ptr'["event_fd_"] = ptr["event_fd_"]
      BY <1>1, <1>2 DEF SetupTypeOK, Pointers
    <2> QED
      BY SMT, <1>1, <1>2, <2>2, <2>3, <2>4, SetupAssumption DEF HeldOK, NumCq
  <1>6. NoWildRelease' /\ UsesLiveMemory'
    <2>1. ~worker /\ (ArenaMr \in held => "dereg" \in mishaps)
      BY <1>1, <1>2 DEF ClosingOK
    <2> QED
      BY <1>1, <1>2, <2>1 DEF NoWildRelease, UsesLiveMemory
  <1> QED
    BY <1>1, <1>3, <1>4, <1>5, <1>6 DEF SetupInv, Opening

\* What the loop over the queue pairs leaves.
LEMMA DestroyedHeld ==
    ASSUME SetupTypeOK, NEW n \in Nat
    PROVE  /\ Destroyed(n) \subseteq held
           /\ Epoll \in held => Epoll \in Destroyed(n)
           /\ \A k \in Nat : Cq(k) \in Destroyed(n) <=> Cq(k) \in held
           /\ \A k \in 1..n : Qp(k) \notin Destroyed(n)
           /\ Handle \notin Destroyed(n)
  BY SMT, ResourcesDiffer DEF Destroyed

\* A crash of the destructors comes from objects that construct left undone.
LEMMA CrashInv ==
    ASSUME SetupInv, at \in {"qps", "context"}, NEW what, Crash(what), SetupTypeOK', held' \subseteq held,
           mishaps \cap (Early \cup {"destroy"}) # {},
           UNCHANGED <<worker, mishaps>>
    PROVE  SetupInv'
  <1>1. ~worker /\ (ArenaMr \in held => "dereg" \in mishaps) /\ at' = "crashed"
    BY DEF SetupInv, Closing, ClosingOK, Crash
  <1>2. CrashedOK'
    BY <1>1 DEF CrashedOK
  <1>3. NoWildRelease' /\ UsesLiveMemory'
    BY <1>1 DEF NoWildRelease, UsesLiveMemory
  <1> QED
    BY <1>1, <1>2, <1>3 DEF SetupInv, Opening, Closing

LEMMA DestroyQpsInv ==
    ASSUME SetupInv, DestroyQps
    PROVE  SetupInv'
  <1>1. /\ at = "qps" /\ UNCHANGED <<i, ptr, cq_list_, worker, pass>>
        /\ SetupTypeOK /\ ClosingOK /\ HeldOK /\ NoWildRelease /\ UsesLiveMemory
    BY DEF DestroyQps, SetupInv, Closing
  <1>2. /\ ~worker /\ Arena \notin held
        /\ ArenaMr \in held => "dereg" \in mishaps
    BY <1>1 DEF ClosingOK
  <1>3. ASSUME mishaps \cap (Early \cup {"destroy"}) = {}
        PROVE  /\ \A n \in DOMAIN qp_list_ : qp_list_[n] /\ Qp(n) \in held
               /\ depth_list_ # "uninitialized" /\ damage = {}
               /\ pass = 1 => AllCqs
    <2>1. "destroy" \notin mishaps /\ damage = {}
      BY <1>1, <1>3 DEF NoWildRelease
    <2>2. CASE pass = 1
      <3>1. AllQps /\ AllCqs /\ depth_list_ = "array"
        BY <1>1, <1>3, <2>2 DEF ClosingOK
      <3> QED
        BY <1>1, <2>1, <3>1 DEF HeldOK, AllQps
    <2>3. CASE pass = 2
      <3>1. qp_list_ = << >> /\ depth_list_ = "null"
        BY <1>1, <2>1, <2>3 DEF HeldOK
      <3> QED
        BY SMT, <2>1, <2>3, <3>1
    <2> QED
      BY <1>1, <2>2, <2>3 DEF SetupTypeOK
  <1>4. CASE /\ \E n \in DOMAIN qp_list_ : ~qp_list_[n]
             /\ Crash("null queue pair")
             /\ UNCHANGED <<held, qp_list_, depth_list_, mishaps>>
    <2>1. SetupTypeOK'
      BY <1>1, <1>4 DEF SetupTypeOK, Crash
    <2> QED
      BY <1>1, <1>3, <1>4, <2>1, CrashInv
  <1>5. CASE /\ \E n \in DOMAIN qp_list_ : qp_list_[n] /\ Qp(n) \notin held
             /\ Crash("queue pair destroyed twice")
             /\ UNCHANGED <<held, qp_list_, depth_list_, mishaps>>
    <2>1. SetupTypeOK'
      BY <1>1, <1>5 DEF SetupTypeOK, Crash
    <2> QED
      BY <1>1, <1>3, <1>5, <2>1, CrashInv
  <1>6. CASE /\ \A n \in DOMAIN qp_list_ : qp_list_[n] /\ Qp(n) \in held
             /\ held' = Destroyed(Len(qp_list_))
             /\ qp_list_' = ClearedQps
             /\ \/ depth_list_' = "null" /\ at' = "context" /\ UNCHANGED damage
                \/ /\ depth_list_ = "uninitialized"
                   /\ Crash("delete of an uninitialized pointer")
                   /\ UNCHANGED depth_list_
             /\ UNCHANGED mishaps
    <2>1. Len(qp_list_) \in Nat /\ DOMAIN qp_list_ = 1..Len(qp_list_)
      <3>1. CASE qp_list_ = << >>
        BY SMT, <3>1
      <3>2. CASE qp_list_ \in [1..NumQp -> BOOLEAN]
        <4>1. qp_list_ \in Seq(BOOLEAN)
          BY SMT, <3>2, SetupAssumption
        <4> QED
          BY SMT, <4>1
      <3> QED
        BY <1>1, <3>1, <3>2 DEF SetupTypeOK
    <2>2. held' \subseteq held /\ qp_list_' = << >>
      BY <1>1, <1>6, <2>1, DestroyedHeld DEF ClearedQps
    <2>3. CASE at' = "context" /\ depth_list_' = "null" /\ UNCHANGED damage
      <3>1. SetupTypeOK'
        BY <1>1, <1>6, <2>2, <2>3 DEF SetupTypeOK, Closing
      <3>2. "destroy" \notin mishaps => \A n \in 1..NumQp : Qp(n) \notin held'
        <4>1. ASSUME "destroy" \notin mishaps, NEW n \in 1..NumQp, Qp(n) \in held'
              PROVE  FALSE
          <5>1. n \in DOMAIN qp_list_
            BY <1>1, <2>2, <4>1 DEF HeldOK
          <5> QED
            BY <1>1, <1>6, <2>1, <4>1, <5>1, DestroyedHeld
        <4> QED
          BY <4>1
      <3>3. "destroy" \notin mishaps => held' \subseteq Releasable
        <4>1. Handle \notin held' /\ Arena \notin held'
          BY <1>1, <1>2, <1>6, <2>1, <2>2, DestroyedHeld
        <4> QED
          BY SMT, <3>1, <3>2, <4>1 DEF SetupTypeOK, Resources
      <3>4. ClosingOK'
        BY <1>1, <1>2, <1>6, <2>2, <2>3, <3>3 DEF ClosingOK, AllCqs, ClearedQps
      <3>5. HeldOK'
        <4>1. /\ Epoll \in held => Epoll \in held'
              /\ \A k \in Nat : Cq(k) \in held' <=> Cq(k) \in held
          BY <1>1, <1>6, <2>1, DestroyedHeld
        <4> QED
          BY SMT, <1>1, <1>6, <2>2, <2>3, <3>2, <4>1 DEF HeldOK, NumCq
      <3>6. NoWildRelease' /\ UsesLiveMemory'
        BY <1>1, <1>2, <1>6, <2>2, <2>3 DEF NoWildRelease, UsesLiveMemory
      <3> QED
        BY <2>3, <3>1, <3>4, <3>5, <3>6 DEF SetupInv, Opening
    <2>4. CASE /\ depth_list_ = "uninitialized"
               /\ Crash("delete of an uninitialized pointer")
               /\ UNCHANGED depth_list_
      <3>1. SetupTypeOK'
        BY <1>1, <1>6, <2>2, <2>4 DEF SetupTypeOK, Crash
      <3> QED
        BY <1>1, <1>3, <1>6, <2>2, <2>4, <3>1, CrashInv
    <2> QED
      BY <1>6, <2>3, <2>4
  <1>7. CASE /\ \E n \in DOMAIN qp_list_ : held' = Destroyed(n - 1)
             /\ Fail("destroy")
             /\ at' = "context"
             /\ UNCHANGED <<qp_list_, depth_list_, damage>>
    <2>1. PICK n \in Nat : held' = Destroyed(n)
      <3>1. PICK n \in DOMAIN qp_list_ : held' = Destroyed(n - 1)
        BY <1>7
      <3>2. n \in 1..NumQp
        <4>1. qp_list_ # << >>
          BY SMT, <3>1
        <4> QED
          BY <1>1, <3>1, <4>1 DEF SetupTypeOK
      <3>3. n - 1 \in Nat
        BY SMT, <3>2, SetupAssumption
      <3> QED
        BY <3>1, <3>3
    <2>2. "destroy" \in SetupFaults /\ mishaps' = mishaps \cup {"destroy"}
      BY <1>7 DEF Fail
    <2>3. /\ held' \subseteq held
          /\ Epoll \in held => Epoll \in held'
          /\ \A k \in Nat : Cq(k) \in held' <=> Cq(k) \in held
      BY <1>1, <2>1, DestroyedHeld
    <2>4. SetupTypeOK'
      BY <1>1, <1>7, <2>2, <2>3 DEF SetupTypeOK, Closing
    <2>5. ClosingOK'
      BY <1>1, <1>2, <1>7, <2>2, <2>3 DEF ClosingOK
    <2>6. HeldOK'
      BY SMT, <1>1, <1>7, <2>2, <2>3 DEF HeldOK, NumCq
    <2>7. NoWildRelease' /\ UsesLiveMemory'
      BY <1>1, <1>2, <1>7, <2>2, <2>3 DEF NoWildRelease, UsesLiveMemory
    <2> QED
      BY <1>7, <2>4, <2>5, <2>6, <2>7 DEF SetupInv, Opening
  <1> QED
    BY <1>4, <1>5, <1>6, <1>7 DEF DestroyQps

\* What must be released before each resource.
LEMMA UsedByIs ==
    LET qps == {Qp(n) : n \in 1..NumQp}
        cqs == {Cq(n) : n \in 1..NumCq}
    IN  /\ UsedBy(ArenaMr) = {} /\ UsedBy(Epoll) = {}
        /\ UsedBy(Cq(1)) = qps /\ UsedBy(Cq(2)) = qps
        /\ UsedBy(Channel) = cqs
        /\ UsedBy(Pd) = {ArenaMr, Handle} \cup qps
        /\ UsedBy(Device) = {Pd, Channel} \cup cqs
  <1>1. /\ ArenaMr[1] = "mr" /\ Epoll[1] = "epoll" /\ Cq(1)[1] = "cq" /\ Cq(2)[1] = "cq"
        /\ Channel[1] = "channel" /\ Pd[1] = "pd" /\ Device[1] = "device"
    BY DEF ArenaMr, Epoll, Cq, Channel, Pd, Device
  <1>2. UsedBy(ArenaMr) = {} /\ UsedBy(Epoll) = {}
    BY <1>1 DEF UsedBy
  <1>3. /\ UsedBy(Cq(1)) = {Qp(n) : n \in 1..NumQp}
        /\ UsedBy(Cq(2)) = {Qp(n) : n \in 1..NumQp}
    BY <1>1 DEF UsedBy
  <1>4. UsedBy(Channel) = {Cq(n) : n \in 1..NumCq}
    BY <1>1 DEF UsedBy
  <1>5. UsedBy(Pd) = {ArenaMr, Handle} \cup {Qp(n) : n \in 1..NumQp}
    BY <1>1 DEF UsedBy
  <1>6. UsedBy(Device) = {Pd, Channel} \cup {Cq(n) : n \in 1..NumCq}
    BY <1>1 DEF UsedBy
  <1> QED
    BY <1>2, <1>3, <1>4, <1>5, <1>6

\* A release takes away one resource or none.
LEMMA ReleaseOne ==
    ASSUME NEW h, NEW r
    PROVE  Release(h, r) \subseteq h /\ (UsedBy(r) \cap h = {} => Release(h, r) = h \ {r})
  BY DEF Release

\* The order of deconstruct is one that the device accepts: once the queue pairs and
\* the address handles are gone no release is refused.
LEMMA ReleaseOrderWorks ==
    /\ ReleaseAll(ReleaseOrder) \subseteq held
    /\ held \subseteq Releasable => ReleaseAll(ReleaseOrder) = {}
  <1> DEFINE h1 == Release(held, ArenaMr)
             h2 == Release(h1, Cq(1))
             h3 == Release(h2, Cq(2))
             h4 == Release(h3, Epoll)
             h5 == Release(h4, Channel)
             h6 == Release(h5, Pd)
             h7 == Release(h6, Device)
  <1>1. ReleaseAll(ReleaseOrder) = h7
    BY DEF ReleaseAll, ReleaseOrder
  <1>0. /\ h1 = Release(held, ArenaMr) /\ h2 = Release(h1, Cq(1)) /\ h3 = Release(h2, Cq(2))
        /\ h4 = Release(h3, Epoll) /\ h5 = Release(h4, Channel) /\ h6 = Release(h5, Pd)
        /\ h7 = Release(h6, Device)
    OBVIOUS
  <1> HIDE DEF h1, h2, h3, h4, h5, h6, h7
  <1>2. /\ h1 \subseteq held /\ h2 \subseteq h1 /\ h3 \subseteq h2 /\ h4 \subseteq h3
        /\ h5 \subseteq h4 /\ h6 \subseteq h5 /\ h7 \subseteq h6
    BY <1>0, ReleaseOne
  <1>3. ASSUME held \subseteq Releasable
        PROVE  h7 = {}
    <2>1. \A n \in 1..NumQp : Qp(n) \notin held
      BY SMT, <1>3, ResourcesDiffer, SetupAssumption DEF Releasable
    <2>2. Handle \notin held
      BY <1>3, ResourcesDiffer DEF Releasable
    <2>3. h1 = held \ {ArenaMr}
      BY SMT, <1>0, UsedByIs, ReleaseOne
    <2>4. h2 = h1 \ {Cq(1)}
      BY SMT, <1>2, <2>1, <1>0, UsedByIs, ReleaseOne
    <2>5. h3 = h2 \ {Cq(2)}
      BY SMT, <1>2, <2>1, <1>0, UsedByIs, ReleaseOne
    <2>6. h4 = h3 \ {Epoll}
      BY SMT, <1>0, UsedByIs, ReleaseOne
    <2>7. h5 = h4 \ {Channel}
      <3>1. \A n \in 1..NumCq : Cq(n) \notin h4
        BY SMT, <2>4, <2>5, <1>2 DEF NumCq
      <3> QED
        BY SMT, <3>1, <1>0, UsedByIs, ReleaseOne
    <2>8. h6 = h5 \ {Pd}
      <3>1. ArenaMr \notin h5 /\ Handle \notin h5 /\ \A n \in 1..NumQp : Qp(n) \notin h5
        BY <1>2, <2>1, <2>2, <2>3
      <3> QED
        BY SMT, <3>1, <1>0, UsedByIs, ReleaseOne
    <2>9. h7 = h6 \ {Device}
      <3>1. Pd \notin h6 /\ Channel \notin h6 /\ \A n \in 1..NumCq : Cq(n) \notin h6
        BY SMT, <1>2, <2>4, <2>5, <2>7, <2>8 DEF NumCq
      <3> QED
        BY SMT, <3>1, <1>0, UsedByIs, ReleaseOne
    <2> QED
      BY <1>3, <2>3, <2>4, <2>5, <2>6, <2>7, <2>8, <2>9 DEF Releasable
  <1> QED
    BY <1>1, <1>2, <1>3

LEMMA DeconstructContextInv ==
    ASSUME SetupInv, DeconstructContext
    PROVE  SetupInv'
  <1>1. /\ at = "context" /\ UNCHANGED <<i, qp_list_, depth_list_, worker, mishaps>>
        /\ SetupTypeOK /\ ClosingOK /\ HeldOK /\ NoWildRelease /\ UsesLiveMemory
    BY DEF DeconstructContext, SetupInv, Closing
  <1>2. /\ ~worker /\ Arena \notin held
        /\ ArenaMr \in held => "dereg" \in mishaps
        /\ "destroy" \notin mishaps =>
              held \subseteq Releasable /\ qp_list_ = << >> /\ depth_list_ = "null"
    BY <1>1 DEF ClosingOK
  <1>3. CASE /\ \E n \in DOMAIN cq_list_ : ~cq_list_[n]
             /\ Crash("null completion queue")
             /\ UNCHANGED <<held, cq_list_, ptr, pass>>
    <2>1. SetupTypeOK'
      BY <1>1, <1>3 DEF SetupTypeOK, Crash
    <2>2. mishaps \cap (Early \cup {"destroy"}) # {}
      <3>1. pass = 1
        <4>1. PICK n \in DOMAIN cq_list_ : TRUE
          BY <1>3
        <4>2. cq_list_ # << >>
          BY SMT, <4>1
        <4> QED
          BY <1>1, <4>2 DEF HeldOK, SetupTypeOK
      <3>2. ~AllCqs
        BY <1>3 DEF AllCqs
      <3> QED
        BY <1>1, <3>1, <3>2 DEF ClosingOK
    <2> QED
      BY <1>1, <1>3, <2>1, <2>2, CrashInv
  <1>4. CASE /\ held' = IF ptr["context_"] THEN ReleaseAll(ReleaseOrder) ELSE held
             /\ cq_list_' = <<>>
             /\ ptr' = [p \in Pointers |-> FALSE]
             /\ damage' = IF ptr["event_fd_"] /\ Epoll \notin held
                          THEN damage \cup {"descriptor closed twice"} ELSE damage
             /\ at' = IF pass = 1 THEN "qps" ELSE "groups"
             /\ pass' = 2
    <2>1. held' \subseteq held
      BY <1>4, ReleaseOrderWorks
    <2>2. "destroy" \notin mishaps => held' = {}
      <3>1. ASSUME "destroy" \notin mishaps, ~ptr["context_"]
            PROVE  held = {}
        BY <1>1, <3>1 DEF HeldOK, SetupTypeOK
      <3> QED
        BY <1>2, <1>4, <3>1, ReleaseOrderWorks
    <2>3. at' \in {"qps", "groups"} /\ (at' = "groups" => pass' = 2)
      BY <1>4
    <2>4. SetupTypeOK'
      BY <1>1, <1>4, <2>1 DEF SetupTypeOK, Closing
    <2>5. ClosingOK'
      <3>1. ~worker' /\ pass' = 2 /\ Arena \notin held' /\ (ArenaMr \in held' => "dereg" \in mishaps')
        BY <1>1, <1>2, <1>4, <2>1
      <3> QED
        BY SMT, <2>3, <3>1 DEF ClosingOK
    <2>6. HeldOK'
      <3>1. ~ptr'["event_fd_"]
        BY <1>4 DEF Pointers
      <3>2. pass' = 2 /\ cq_list_' = << >> /\ ptr' = [p \in Pointers |-> FALSE]
        BY <1>4
      <3>3. "destroy" \notin mishaps' => held' = {} /\ qp_list_' = << >> /\ depth_list_' = "null"
        BY <1>1, <1>2, <2>2
      <3>4. "destroy" \notin mishaps' => \A n \in 1..NumQp :
                Qp(n) \in held' <=> n \in DOMAIN qp_list_' /\ qp_list_'[n]
        BY SMT, <3>3
      <3> QED
        BY SMT, <3>1, <3>2, <3>3, <3>4 DEF HeldOK
    <2>7. NoWildRelease'
      <3>1. mishaps \cap (Early \cup {"destroy"}) = {} => "poll" \notin mishaps
        BY DEF Early
      <3> QED
        BY <1>1, <1>4, <3>1 DEF NoWildRelease, HeldOK
    <2>8. UsesLiveMemory'
      BY <1>1, <1>2, <1>4, <2>1 DEF UsesLiveMemory
    <2>9. at' \in Closing /\ at' \notin Opening \cup {"up"} /\ at' # "crashed"
      BY <1>4 DEF Opening, Closing
    <2> QED
      BY <2>4, <2>5, <2>6, <2>7, <2>8, <2>9 DEF SetupInv
  <1> QED
    BY <1>3, <1>4 DEF DeconstructContext

LEMMA FinishInv ==
    ASSUME SetupInv, Finish
    PROVE  SetupInv'
  <1>1. /\ at = "groups" /\ at' = "gone"
        /\ UNCHANGED <<i, ptr, cq_list_, qp_list_, depth_list_, worker, pass, held, mishaps, damage>>
    BY DEF Finish, lists
  <1>2. SetupTypeOK /\ ClosingOK /\ HeldOK /\ NoWildRelease /\ UsesLiveMemory
    BY <1>1 DEF SetupInv, Closing
  <1>3. SetupTypeOK'
    BY <1>1, <1>2 DEF SetupTypeOK, Closing
  <1>4. ClosingOK'
    BY <1>1, <1>2 DEF ClosingOK, AllQps, AllCqs
  <1>5. HeldOK'
    BY <1>1, <1>2 DEF HeldOK
  <1>6. NoWildRelease' /\ UsesLiveMemory'
    BY <1>1, <1>2 DEF NoWildRelease, UsesLiveMemory
  <1> QED
    BY <1>1, <1>3, <1>4, <1>5, <1>6 DEF SetupInv, Opening

LEMMA SetupSteps ==
    ASSUME SetupInv, Construct \/ Connect \/ Destroy \/ Deconstruct \/ Finish
    PROVE  SetupInv'
  <1>1. OpenDevice \/ AllocPd \/ CreateChannel \/ CreateEpoll => SetupInv'
    BY AcquireInv DEF OpenDevice, AllocPd, CreateChannel, CreateEpoll
  <1>2. Construct => SetupInv'
    BY <1>1, PollListInv, CreateCqInv, CreateQpInv, SetupQueuePairInv, AllocArenaInv,
       RegisterArenaInv, OpenInv DEF Construct
  <1>3. Deconstruct => SetupInv'
    BY JoinWorkerInv, UnregisterArenaInv, FreeArenaInv, DestroyQpsInv, DeconstructContextInv
       DEF Deconstruct
  <1> QED
    BY <1>2, <1>3, ConnectInv, DestroyInv, FinishInv

\* An engine that is gone has passed deconstruct.
LEMMA GoneIsEmpty == SetupInv => NothingLeft
  <1> SUFFICES ASSUME SetupInv, at = "gone", "destroy" \notin mishaps
               PROVE  held = {}
    BY DEF NothingLeft
  <1>1. ClosingOK /\ HeldOK
    BY DEF SetupInv, Closing
  <1>2. pass = 2
    BY <1>1 DEF ClosingOK
  <1> QED
    BY <1>1, <1>2 DEF HeldOK

(***************************************************************************)
(* The multicast context.                                                  *)
(***************************************************************************)

\* FiniteSets!Cardinality under a name of this module: the theorems about it are
\* instantiated only where ConnsCounted needs them.
Count(S) ==
    LET CS[T \in SUBSET S] == IF T = {} THEN 0 ELSE 1 + CS[T \ {CHOOSE x : x \in T}]
    IN  CS[S]

LEMMA CountIs == \A S : Cardinality(S) = Count(S)
  BY DEF Cardinality, Count

\* What the number of active connections needs of Count; ConnsCounted shows that it
\* holds.
ConnsCount ==
    /\ Count({}) = 0
    /\ \A S \in SUBSET Conns :
          /\ Count(S) \in 0..NumConn
          /\ Count(S) = NumConn => S = Conns
          /\ \A c \in Conns \ S : Count(S \cup {c}) = Count(S) + 1

LEMMA ConnsNonempty == 1 \in Conns /\ NumConn \in Conns /\ << >> \notin [Conns -> Connections]
  <1>1. 1 \in Conns /\ NumConn \in Conns
    BY SMT, GroupAssumption DEF Conns
  <1>2. ASSUME << >> \in [Conns -> Connections]
        PROVE  FALSE
    <2>1. DOMAIN << >> = Conns
      BY <1>2
    <2> QED
      BY SMT, <1>1, <2>1
  <1> QED
    BY <1>1, <1>2

LEMMA ContextInitial == GroupInit => ContextInv
  <1> SUFFICES ASSUME GroupInit
               PROVE  ContextInv
    OBVIOUS
  <1>1. ContextTypeOK
    <2>1. next \in 1..(NumConn + 1) /\ active \in Nat
      BY SMT, GroupAssumption DEF GroupInit
    <2>2. running \in BOOLEAN /\ stray \in BOOLEAN
      BY DEF GroupInit
    <2>3. cm \in [Conns -> {"idle", "resolving", "joining"}]
      BY DEF GroupInit
    <2>4. queue \in [Conns -> {<< >>} \cup {<<kind>> : kind \in Kinds}]
      BY DEF GroupInit
    <2> QED
      BY <2>1, <2>2, <2>3, <2>4 DEF GroupInit, ContextTypeOK
  <1>2. \A c \in Conns : ConnectionOK(c)
    BY DEF GroupInit, ConnectionOK, Handling
  <1>3. ContextReady /\ NoStrayEvent
    BY DEF GroupInit, ContextReady, NoStrayEvent
  <1> QED
    BY <1>1, <1>2, <1>3 DEF ContextInv, GroupInit

\* A connection that a step does not touch.
LEMMA ConnectionKept ==
    ASSUME NEW c \in Conns, ConnectionOK(c), cm'[c] = cm[c], queue'[c] = queue[c],
           conn'[c] = conn[c], conn' # << >> <=> conn # << >>,
           event' # event => ~Handling(c) /\ (event' = << >> \/ event'[1].conn # c),
           life' = "opening" /\ next' <= c => life = "opening" /\ next <= c,
           life' = "closing" /\ conn # << >> /\ c < next' =>
               (life = "closing" /\ c < next) \/ ~conn[c].cm_id
    PROVE  ConnectionOK(c)'
  <1>1. (event' # << >> /\ event'[1].conn = c) <=> Handling(c)
    BY DEF Handling
  <1>2. Handling(c) => event' = event
    OBVIOUS
  <1>3. \A kind : Expected(c, kind)' => Expected(c, kind)
    BY <1>1, <1>2 DEF Expected, Handling
  <1>4. conn' # << >> => /\ conn'[c].ah => conn'[c].qp
                         /\ Expected(c, "joined")' => conn'[c].qp /\ ~conn'[c].ah
                         /\ Expected(c, "resolved")' => ~conn'[c].ah
    BY <1>3 DEF ConnectionOK
  <1> QED
    BY <1>1, <1>4 DEF ConnectionOK, Handling

LEMMA StartInv ==
    ASSUME ConnsCount, ContextInv, Start
    PROVE  ContextInv'
  <1>1. /\ life \in {"none", "gone"} /\ conn = << >> /\ active' = 0 /\ next' = 1
        /\ UNCHANGED <<cm, queue, event, stray>>
        /\ \/ life' = "opening" /\ running' = TRUE /\ conn' = [c \in Conns |-> NewConnection]
           \/ life' = "closing" /\ running' \in BOOLEAN /\ conn' = << >>
    BY DEF Start, ContextInv
  <1>2. \A c \in Conns : cm[c] = "idle" /\ queue[c] = << >> /\ ~Handling(c)
    BY <1>1 DEF ContextInv, ConnectionOK, ContextTypeOK
  <1>3. NewConnection \in Connections /\ ~NewConnection.ah /\ ~NewConnection.cm_id
    BY DEF NewConnection, Connections
  <1>4. ContextTypeOK'
    <2>1. conn' \in {<< >>} \cup [Conns -> Connections]
      BY <1>1, <1>3
    <2>2. next' \in 1..(NumConn + 1) /\ active' \in Nat
      BY SMT, <1>1, GroupAssumption
    <2>3. running' \in BOOLEAN
      BY <1>1
    <2> QED
      BY <1>1, <2>1, <2>2, <2>3 DEF ContextInv, ContextTypeOK
  <1>5. ASSUME NEW c \in Conns
        PROVE  ConnectionOK(c)'
    <2>1. cm'[c] = "idle" /\ queue'[c] = << >> /\ ~Handling(c)'
      BY <1>1, <1>2 DEF Handling
    <2>2. \A kind : ~Expected(c, kind)'
      BY SMT, <2>1 DEF Expected
    <2>3. conn' # << >> => conn'[c] = NewConnection
      BY <1>1
    <2>4. ~(c < next')
      BY SMT, <1>1 DEF Conns
    <2>5. life' = "opening" => conn' # << >>
      BY <1>1, <1>3, ConnsNonempty
    <2> QED
      BY <1>3, <2>1, <2>2, <2>3, <2>4, <2>5 DEF ConnectionOK
  <1>6. conn' # << >> => active' = Cardinality({c \in Conns : conn'[c].ah})
    <2> SUFFICES ASSUME conn' # << >>
                 PROVE  active' = Cardinality({c \in Conns : conn'[c].ah})
      OBVIOUS
    <2> DEFINE T == {c \in Conns : conn'[c].ah}
    <2>1. T = {}
      BY <1>1, <1>3
    <2> HIDE DEF T
    <2>2. active' = Cardinality(T)
      BY <1>1, <2>1, CountIs DEF ConnsCount
    <2> QED
      BY <2>2 DEF T
  <1>7. life' \in {"opening", "waiting", "up"} => conn' # << >>
    BY <1>1, <1>3, ConnsNonempty
  <1>8. ContextReady' /\ NoStrayEvent'
    <2>1. event = << >>
      <3>1. event # << >> => event[1].conn \in Conns
        BY SMT DEF ContextInv, ContextTypeOK
      <3> QED
        BY <1>2, <3>1 DEF Handling
    <2> QED
      BY <1>1, <2>1 DEF ContextInv, ContextReady, NoStrayEvent
  <1> QED
    BY <1>1, <1>4, <1>5, <1>6, <1>7, <1>8, ConnsNonempty DEF ContextInv

\* The fields of a connection, one of them changed.
LEMMA ConnectionUpdate ==
    ASSUME conn \in [Conns -> Connections], NEW c \in Conns, NEW b \in BOOLEAN
    PROVE  /\ LET new == [conn EXCEPT ![c].cm_id = b]
              IN  /\ new \in [Conns -> Connections] /\ new # << >>
                  /\ \A d \in Conns \ {c} : new[d] = conn[d]
                  /\ new[c].cm_id = b /\ new[c].qp = conn[c].qp /\ new[c].ah = conn[c].ah
           /\ LET new == [conn EXCEPT ![c].ah = b]
              IN  /\ new \in [Conns -> Connections] /\ new # << >>
                  /\ \A d \in Conns \ {c} : new[d] = conn[d]
                  /\ new[c].cm_id = conn[c].cm_id /\ new[c].qp = conn[c].qp /\ new[c].ah = b
           /\ LET new == [conn EXCEPT ![c] = CreateQueuePair(@)]
              IN  /\ new \in [Conns -> Connections] /\ new # << >>
                  /\ \A d \in Conns \ {c} : new[d] = conn[d]
                  /\ new[c].cm_id = conn[c].cm_id /\ new[c].qp /\ new[c].ah = conn[c].ah
  <1> DEFINE r == conn[c]
             r1 == [r EXCEPT !.cm_id = b]
             r2 == [r EXCEPT !.ah = b]
             r3 == [r EXCEPT !.pd = TRUE, !.cq = TRUE, !.qp = TRUE]
  <1>1. r \in Connections
    OBVIOUS
  <1> HIDE DEF r
  <1>2. r1 \in Connections /\ r1.cm_id = b /\ r1.qp = r.qp /\ r1.ah = r.ah
    BY <1>1 DEF Connections
  <1>3. r2 \in Connections /\ r2.cm_id = r.cm_id /\ r2.qp = r.qp /\ r2.ah = b
    BY <1>1 DEF Connections
  <1>4. r3 \in Connections /\ r3.cm_id = r.cm_id /\ r3.qp = TRUE /\ r3.ah = r.ah
    BY <1>1 DEF Connections
  <1>5. /\ [conn EXCEPT ![c].cm_id = b] = [conn EXCEPT ![c] = r1]
        /\ [conn EXCEPT ![c].ah = b] = [conn EXCEPT ![c] = r2]
        /\ [conn EXCEPT ![c] = CreateQueuePair(@)] = [conn EXCEPT ![c] = r3]
    BY DEF r, CreateQueuePair
  <1> HIDE DEF r1, r2, r3
  <1>6. \A q \in Connections : /\ [conn EXCEPT ![c] = q] \in [Conns -> Connections]
                               /\ [conn EXCEPT ![c] = q] # << >>
                               /\ \A d \in Conns \ {c} : [conn EXCEPT ![c] = q][d] = conn[d]
                               /\ [conn EXCEPT ![c] = q][c] = q
    BY ConnsNonempty
  <1> QED
    BY SMT, <1>2, <1>3, <1>4, <1>5, <1>6 DEF r

\* The number of counted connections does not change.
LEMMA CountKept ==
    ASSUME ContextInv, conn # << >>, conn' # << >>, active' = active,
           \A c \in Conns : conn'[c].ah = conn[c].ah
    PROVE  active' = Cardinality({c \in Conns : conn'[c].ah})
  <1>1. {c \in Conns : conn'[c].ah} = {c \in Conns : conn[c].ah}
    OBVIOUS
  <1> QED
    BY <1>1 DEF ContextInv

LEMMA CreateIdInv ==
    ASSUME ContextInv, CreateId
    PROVE  ContextInv'
  <1>1. /\ life = "opening" /\ conn # << >> /\ next \in Conns /\ ContextTypeOK
        /\ UNCHANGED <<queue, event, running, active, stray>>
    BY DEF CreateId, ContextInv
  <1>2. conn \in [Conns -> Connections]
    BY <1>1 DEF ContextTypeOK
  <1>3. ConnectionOK(next) /\ conn[next] = NewConnection
    <2>1. next <= next
      BY SMT, <1>1 DEF Conns
    <2> QED
      BY <1>1, <2>1 DEF ContextInv, ConnectionOK
  <1>4. cm[next] = "idle" /\ queue[next] = << >> /\ ~Handling(next)
    BY SMT, <1>3 DEF ConnectionOK, NewConnection
  <1>5. /\ conn' \in [Conns -> Connections] /\ conn' # << >>
        /\ \A d \in Conns \ {next} : conn'[d] = conn[d] /\ cm'[d] = cm[d]
        /\ conn'[next].qp = conn[next].qp /\ conn'[next].ah = conn[next].ah
        /\ cm' \in [Conns -> {"idle", "resolving", "joining"}]
        /\ \/ /\ conn'[next].cm_id /\ cm'[next] = "resolving"
              /\ next' = IF next < NumConn THEN next + 1 ELSE 1
              /\ life' = IF next < NumConn THEN "opening" ELSE "waiting"
           \/ cm'[next] = "idle" /\ life' = "closing" /\ next' = 1
    <2>1. LET new == [conn EXCEPT ![next].cm_id = TRUE]
          IN  /\ new \in [Conns -> Connections] /\ new # << >>
              /\ \A d \in Conns \ {next} : new[d] = conn[d]
              /\ new[next].cm_id = TRUE /\ new[next].qp = conn[next].qp
              /\ new[next].ah = conn[next].ah
      BY <1>1, <1>2, ConnectionUpdate
    <2>2. cm \in [Conns -> {"idle", "resolving", "joining"}]
      BY <1>1 DEF ContextTypeOK
    <2>3. CASE /\ conn' = [conn EXCEPT ![next].cm_id = TRUE]
               /\ cm' = [cm EXCEPT ![next] = "resolving"]
               /\ next' = IF next < NumConn THEN next + 1 ELSE 1
               /\ life' = IF next < NumConn THEN "opening" ELSE "waiting"
      BY <1>1, <2>1, <2>2, <2>3
    <2>4. CASE /\ conn' \in {conn, [conn EXCEPT ![next].cm_id = TRUE]}
               /\ life' = "closing" /\ next' = 1 /\ UNCHANGED cm
      BY <1>1, <1>2, <1>4, <2>1, <2>2, <2>4
    <2> QED
      BY <2>3, <2>4 DEF CreateId
  <1>6. /\ next' \in 1..(NumConn + 1) /\ (life' = "opening" => next' \in Conns)
        /\ life' \in {"opening", "waiting", "closing"}
        /\ life' = "opening" => next' > next
        /\ life' = "closing" => next' = 1
    BY SMT, <1>1, <1>5, GroupAssumption DEF Conns
  <1>7. ContextTypeOK'
    BY <1>1, <1>5, <1>6 DEF ContextTypeOK
  <1>8. ASSUME NEW c \in Conns
        PROVE  ConnectionOK(c)'
    <2>1. CASE c # next
      <3>1. life' = "opening" /\ next' <= c => next <= c
        BY SMT, <1>1, <1>6 DEF Conns
      <3>2. life' = "closing" => ~(c < next')
        BY SMT, <1>6 DEF Conns
      <3> QED
        BY <1>1, <1>5, <2>1, <3>1, <3>2, ConnectionKept DEF ContextInv
    <2>2. CASE c = next
      <3>1. queue'[c] = << >> /\ ~Handling(c)' /\ cm'[c] \in {"idle", "resolving"}
        BY <1>1, <1>4, <1>5, <2>2 DEF Handling
      <3>2. ~conn'[c].ah /\ (cm'[c] # "idle" => conn'[c].cm_id)
        <4>1. conn[next].ah = FALSE
          BY SMT, <1>3 DEF NewConnection
        <4>2. conn'[c].ah = conn[next].ah
          BY <1>5, <2>2
        <4>3. cm'[c] # "idle" => conn'[c].cm_id
          BY <1>5, <2>2
        <4> QED
          BY <4>1, <4>2, <4>3
      <3>3. ~Expected(c, "joined")'
        BY SMT, <3>1 DEF Expected
      <3>4. ~(life' = "opening" /\ next' <= c) /\ ~(life' = "closing" /\ c < next')
        BY SMT, <1>1, <1>6, <2>2 DEF Conns
      <3> QED
        BY <1>5, <3>1, <3>2, <3>3, <3>4 DEF ConnectionOK
    <2> QED
      BY <2>1, <2>2
  <1>9. active' = Cardinality({c \in Conns : conn'[c].ah})
    BY <1>1, <1>5, CountKept
  <1>10. ContextReady' /\ NoStrayEvent'
    <2>1. DOMAIN conn' = Conns
      BY <1>5
    <2>2. event # << >> => event[1].conn \in Conns
      BY SMT, <1>1 DEF ContextTypeOK
    <2> QED
      BY <1>1, <1>6, <2>1, <2>2 DEF ContextInv, ContextReady, NoStrayEvent
  <1> QED
    BY <1>5, <1>6, <1>7, <1>8, <1>9, <1>10 DEF ContextInv

\* All connections are counted.
LEMMA AwaitActiveInv ==
    ASSUME ConnsCount, ContextInv, AwaitActive
    PROVE  ContextInv'
  <1>1. /\ life = "waiting" /\ life' = "up" /\ active >= Len(conn)
        /\ UNCHANGED <<next, conn, cm, queue, event, running, active, stray>>
        /\ conn # << >> /\ ContextTypeOK
    BY DEF AwaitActive, ContextInv
  <1>2. conn \in [Conns -> Connections]
    BY <1>1 DEF ContextTypeOK
  <1>3. Len(conn) = NumConn
    <2>1. conn \in Seq(Connections)
      BY SMT, <1>2, GroupAssumption DEF Conns
    <2>2. DOMAIN conn = 1..NumConn /\ DOMAIN conn = 1..Len(conn) /\ Len(conn) \in Nat
      BY SMT, <1>2, <2>1 DEF Conns
    <2> QED
      BY SMT, <2>2, GroupAssumption
  <1> DEFINE S == {c \in Conns : conn[c].ah}
  <1>4. S \in SUBSET Conns /\ active = Cardinality(S)
    BY <1>1 DEF ContextInv
  <1> HIDE DEF S
  <1>5. S = Conns
    BY SMT, <1>1, <1>3, <1>4, CountIs, GroupAssumption DEF ConnsCount
  <1> USE DEF S
  <1>6. \A c \in Conns : conn[c].ah /\ conn[c].qp
    BY <1>1, <1>5 DEF ContextInv, ConnectionOK
  <1>7. ContextReady'
    BY <1>1, <1>2, <1>6 DEF ContextReady
  <1>8. ContextTypeOK'
    BY <1>1 DEF ContextTypeOK
  <1>9. \A c \in Conns : ConnectionOK(c)'
    BY <1>1, ConnectionKept DEF ContextInv
  <1>10. NoStrayEvent'
    BY <1>1 DEF ContextInv, NoStrayEvent
  <1> QED
    BY <1>1, <1>7, <1>8, <1>9, <1>10 DEF ContextInv

\* What the invariant of a connection needs after a step that leaves life and next.
LEMMA ConnectionNext ==
    ASSUME ContextInv, NEW c \in Conns, UNCHANGED <<life, next>>, conn # << >>, conn' # << >>,
           life # "opening" \/ c < next,
           conn'[c].cm_id = conn[c].cm_id, conn[c].cm_id,
           cm'[c] # "idle" => queue'[c] = << >> /\ ~Handling(c)',
           queue'[c] # << >> => ~Handling(c)',
           conn'[c].ah => conn'[c].qp,
           Expected(c, "joined")' => conn'[c].qp /\ ~conn'[c].ah,
           Expected(c, "resolved")' => ~conn'[c].ah
    PROVE  ConnectionOK(c)'
  <1>1. life = "opening" => ~(next <= c)
    <2>1. next \in Int /\ c \in Int
      BY SMT DEF ContextInv, ContextTypeOK, Conns
    <2> QED
      BY SMT, <2>1
  <1>2. life = "closing" => ~(c < next)
    BY DEF ContextInv, ConnectionOK
  <1> QED
    BY <1>1, <1>2 DEF ConnectionOK

\* A connection with its id has been reached by the loop of construct.
LEMMA HasId ==
    ASSUME ContextInv, NEW c \in Conns, conn # << >>, conn[c].cm_id
    PROVE  life # "opening" \/ c < next
  <1>1. life = "opening" => ~(next <= c)
    <2>1. NewConnection.cm_id = FALSE
      BY DEF NewConnection
    <2> QED
      BY <2>1 DEF ContextInv, ConnectionOK
  <1>2. next \in Int /\ c \in Int
    BY SMT DEF ContextInv, ContextTypeOK, Conns
  <1> QED
    BY SMT, <1>1, <1>2

LEMMA AnswerInv ==
    ASSUME ContextInv, NEW c \in Conns, NEW doing, NEW good, NEW fault,
           \/ doing = "resolving" /\ good = "resolved"
           \/ doing = "joining" /\ good = "joined",
           Answer(c, doing, good, fault)
    PROVE  ContextInv'
  <1>1. /\ cm[c] = doing /\ cm' = [cm EXCEPT ![c] = "idle"] /\ ContextTypeOK
        /\ UNCHANGED <<life, next, conn, event, running, active, stray>>
    BY DEF Answer, ContextInv
  <1>2. PICK kind \in {good, "error"} : queue' = [queue EXCEPT ![c] = Append(@, kind)]
    BY DEF Answer
  <1>3. queue[c] = << >> /\ ~Handling(c) /\ conn # << >> /\ conn[c].cm_id
    BY <1>1 DEF ContextInv, ConnectionOK
  <1>4. /\ queue' \in [Conns -> {<< >>} \cup {<<k>> : k \in Kinds}]
        /\ queue'[c] = <<kind>> /\ \A d \in Conns \ {c} : queue'[d] = queue[d]
    <2>1. queue \in [Conns -> {<< >>} \cup {<<k>> : k \in Kinds}]
      BY <1>1 DEF ContextTypeOK
    <2>2. Append(queue[c], kind) = <<kind>>
      BY SMT, <1>3
    <2>3. kind \in Kinds
      BY DEF Kinds
    <2> QED
      BY <1>2, <2>1, <2>2, <2>3
  <1>5. /\ cm' \in [Conns -> {"idle", "resolving", "joining"}] /\ cm'[c] = "idle"
        /\ \A d \in Conns \ {c} : cm'[d] = cm[d]
    BY <1>1 DEF ContextTypeOK
  <1>6. ContextTypeOK'
    BY <1>1, <1>4, <1>5 DEF ContextTypeOK
  <1>7. ASSUME NEW d \in Conns
        PROVE  ConnectionOK(d)'
    <2>1. CASE d # c
      BY <1>1, <1>4, <1>5, <2>1, ConnectionKept DEF ContextInv
    <2>2. CASE d = c
      <3>1. /\ ~Handling(c)' /\ (conn[c].ah => conn[c].qp)
            /\ Expected(c, "joined") => conn[c].qp /\ ~conn[c].ah
            /\ Expected(c, "resolved") => ~conn[c].ah
        BY <1>1, <1>3 DEF Handling, ContextInv, ConnectionOK
      <3>2. Expected(c, "joined")' => Expected(c, "joined")
        BY SMT, <1>1, <1>4, <1>5, <3>1 DEF Expected
      <3>3. Expected(c, "resolved")' => Expected(c, "resolved")
        BY SMT, <1>1, <1>4, <1>5, <3>1 DEF Expected
      <3>4. /\ conn'[c].ah => conn'[c].qp
            /\ Expected(c, "joined")' => conn'[c].qp /\ ~conn'[c].ah
            /\ Expected(c, "resolved")' => ~conn'[c].ah
        BY <1>1, <3>1, <3>2, <3>3
      <3> QED
        BY <1>1, <1>3, <1>5, <2>2, <3>1, <3>4, ConnectionNext, HasId
    <2> QED
      BY <2>1, <2>2
  <1>8. ContextReady' /\ NoStrayEvent'
    BY <1>1, <1>3 DEF ContextInv, ContextReady, NoStrayEvent
  <1> QED
    BY <1>1, <1>6, <1>7, <1>8 DEF ContextInv

LEMMA GetEventInv ==
    ASSUME ContextInv, GetEvent
    PROVE  ContextInv'
  <1>1. PICK c \in Conns : /\ queue[c] # <<>>
                           /\ event' = <<[conn |-> c, kind |-> Head(queue[c])]>>
                           /\ queue' = [queue EXCEPT ![c] = Tail(@)]
    BY DEF GetEvent
  <1>2. /\ running /\ event = << >> /\ ContextTypeOK
        /\ UNCHANGED <<life, next, conn, cm, running, active, stray>>
    BY DEF GetEvent, ContextInv
  <1>3. PICK k \in Kinds : queue[c] = <<k>>
    BY <1>1, <1>2 DEF ContextTypeOK
  <1>4. Head(queue[c]) = k /\ Tail(queue[c]) = << >>
    BY SMT, <1>3
  <1>5. cm[c] = "idle" /\ conn # << >> /\ conn[c].cm_id
    BY <1>1, <1>2 DEF ContextInv, ConnectionOK
  <1>6. /\ queue' \in [Conns -> {<< >>} \cup {<<j>> : j \in Kinds}]
        /\ queue'[c] = << >> /\ \A d \in Conns \ {c} : queue'[d] = queue[d]
    BY <1>1, <1>2, <1>4 DEF ContextTypeOK
  <1>7. /\ event' = <<[conn |-> c, kind |-> k]>> /\ event' # << >>
        /\ event'[1].conn = c /\ event'[1].kind = k
    BY <1>1, <1>4
  <1>8. ContextTypeOK'
    <2>1. event' \in {<<e>> : e \in [conn : Conns, kind : Kinds]}
      BY <1>7
    <2> QED
      BY <1>2, <1>6, <2>1 DEF ContextTypeOK
  <1>9. ASSUME NEW d \in Conns
        PROVE  ConnectionOK(d)'
    <2>1. CASE d # c
      <3>1. ~Handling(d)
        BY <1>2 DEF Handling
      <3> QED
        BY <1>2, <1>6, <1>7, <2>1, <3>1, ConnectionKept DEF ContextInv
    <2>2. CASE d = c
      <3>1. /\ conn[c].ah => conn[c].qp
            /\ Expected(c, "joined") => conn[c].qp /\ ~conn[c].ah
            /\ Expected(c, "resolved") => ~conn[c].ah
        BY <1>5 DEF ContextInv, ConnectionOK
      <3>2. Expected(c, "joined")' => Expected(c, "joined")
        BY SMT, <1>2, <1>3, <1>5, <1>6, <1>7 DEF Expected
      <3>3. Expected(c, "resolved")' => Expected(c, "resolved")
        BY SMT, <1>2, <1>3, <1>5, <1>6, <1>7 DEF Expected
      <3>4. /\ conn'[c].ah => conn'[c].qp
            /\ Expected(c, "joined")' => conn'[c].qp /\ ~conn'[c].ah
            /\ Expected(c, "resolved")' => ~conn'[c].ah
        BY <1>2, <3>1, <3>2, <3>3
      <3>5. cm'[c] = "idle" /\ queue'[c] = << >>
        BY <1>2, <1>5, <1>6
      <3> QED
        BY <1>2, <1>5, <2>2, <3>4, <3>5, ConnectionNext, HasId
    <2> QED
      BY <2>1, <2>2
  <1>10. ContextReady'
    BY <1>2 DEF ContextInv, ContextReady
  <1>11. NoStrayEvent'
    <2>1. conn \in [Conns -> Connections]
      BY <1>2, <1>5 DEF ContextTypeOK
    <2>2. life # "gone"
      BY <1>5 DEF ContextInv
    <2> QED
      BY <1>2, <1>7, <2>1, <2>2 DEF ContextInv, NoStrayEvent
  <1> QED
    BY <1>2, <1>8, <1>9, <1>10, <1>11 DEF ContextInv

\* What a handler does to its connection: nothing that counts, or it asks to join
\* the group, or it counts the connection.
LEMMA HandlerEffect ==
    ASSUME ContextInv, NEW c \in Conns, conn # << >>, Handling(c), conn[c].cm_id,
           \/ event[1].kind = "resolved" /\ OnAddressResolved(c)
           \/ event[1].kind = "joined" /\ OnMulticastJoin(c)
           \/ event[1].kind = "error" /\ UNCHANGED <<conn, cm, active>>
    PROVE  /\ conn' \in [Conns -> Connections] /\ conn' # << >>
           /\ cm' \in [Conns -> {"idle", "resolving", "joining"}]
           /\ \A d \in Conns \ {c} : conn'[d] = conn[d] /\ cm'[d] = cm[d]
           /\ conn'[c].cm_id = conn[c].cm_id
           /\ conn'[c].ah => conn'[c].qp
           /\ conn[c].qp => conn'[c].qp
           /\ \/ conn'[c].ah = conn[c].ah /\ active' = active /\ cm'[c] = "idle"
              \/ /\ conn'[c].ah = conn[c].ah /\ active' = active
                 /\ cm'[c] = "joining" /\ conn'[c].qp /\ ~conn[c].ah
              \/ conn'[c].ah /\ ~conn[c].ah /\ active' = active + 1 /\ cm'[c] = "idle"
  <1>1. /\ conn \in [Conns -> Connections]
        /\ cm \in [Conns -> {"idle", "resolving", "joining"}]
    BY DEF ContextInv, ContextTypeOK
  <1>2. cm[c] = "idle" /\ (conn[c].ah => conn[c].qp)
    BY DEF ContextInv, ConnectionOK
  <1>3. event[1].kind = "resolved" => ~conn[c].ah
    <2>1. event[1].kind = "resolved" => Expected(c, "resolved")
      BY DEF Expected
    <2> QED
      BY <2>1 DEF ContextInv, ConnectionOK
  <1>4. event[1].kind = "joined" => conn[c].qp /\ ~conn[c].ah
    <2>1. event[1].kind = "joined" => Expected(c, "joined")
      BY DEF Expected
    <2> QED
      BY <2>1 DEF ContextInv, ConnectionOK
  <1>5. CASE UNCHANGED <<conn, cm, active>>
    BY <1>1, <1>2, <1>5
  <1>6. CASE /\ event[1].kind = "resolved" /\ UNCHANGED active
             /\ conn' = [conn EXCEPT ![c] = CreateQueuePair(@)]
             /\ cm' = [cm EXCEPT ![c] = "joining"] \/ UNCHANGED cm
    <2>1. LET new == [conn EXCEPT ![c] = CreateQueuePair(@)]
          IN  /\ new \in [Conns -> Connections] /\ new # << >>
              /\ \A d \in Conns \ {c} : new[d] = conn[d]
              /\ new[c].cm_id = conn[c].cm_id /\ new[c].qp /\ new[c].ah = conn[c].ah
      BY <1>1, ConnectionUpdate
    <2>2. /\ cm' \in [Conns -> {"idle", "resolving", "joining"}]
          /\ \A d \in Conns \ {c} : cm'[d] = cm[d]
          /\ cm'[c] \in {"idle", "joining"}
      BY <1>1, <1>2, <1>6
    <2> QED
      BY <1>3, <1>6, <2>1, <2>2
  <1>7. ASSUME NEW pd \in BOOLEAN, NEW cq \in BOOLEAN,
               conn' = [conn EXCEPT ![c].pd = pd, ![c].cq = cq], UNCHANGED <<cm, active>>
        PROVE  /\ conn' \in [Conns -> Connections] /\ conn' # << >>
               /\ cm' \in [Conns -> {"idle", "resolving", "joining"}]
               /\ \A d \in Conns \ {c} : conn'[d] = conn[d] /\ cm'[d] = cm[d]
               /\ conn'[c].cm_id = conn[c].cm_id
               /\ conn'[c].ah => conn'[c].qp
               /\ conn[c].qp => conn'[c].qp
               /\ conn'[c].ah = conn[c].ah /\ active' = active /\ cm'[c] = "idle"
    <2> DEFINE r == conn[c]
               q == [r EXCEPT !.pd = pd, !.cq = cq]
    <2>1. r \in Connections
      BY <1>1
    <2>2. conn' = [conn EXCEPT ![c] = q]
      BY <1>1, <1>7, <2>1 DEF Connections
    <2> HIDE DEF r
    <2>3. q \in Connections /\ q.cm_id = r.cm_id /\ q.qp = r.qp /\ q.ah = r.ah
      BY <2>1 DEF Connections
    <2> HIDE DEF q
    <2>4. /\ conn' \in [Conns -> Connections] /\ conn' # << >>
          /\ \A d \in Conns \ {c} : conn'[d] = conn[d]
          /\ conn'[c] = q
      BY <1>1, <2>2, <2>3, ConnsNonempty
    <2> QED
      BY <1>1, <1>2, <1>7, <2>3, <2>4 DEF r
  <1>8. CASE /\ event[1].kind = "joined" /\ conn' = [conn EXCEPT ![c].ah = TRUE]
             /\ active' = active + 1 /\ UNCHANGED cm
    <2>1. LET new == [conn EXCEPT ![c].ah = TRUE]
          IN  /\ new \in [Conns -> Connections] /\ new # << >>
              /\ \A d \in Conns \ {c} : new[d] = conn[d]
              /\ new[c].cm_id = conn[c].cm_id /\ new[c].qp = conn[c].qp /\ new[c].ah = TRUE
      BY <1>1, ConnectionUpdate
    <2> QED
      BY <1>1, <1>2, <1>4, <1>8, <2>1
  <1> QED
    BY <1>5, <1>6, <1>7, <1>8 DEF OnAddressResolved, OnMulticastJoin

LEMMA HandleEventInv ==
    ASSUME ConnsCount, ContextInv, HandleEvent
    PROVE  ContextInv'
  <1> DEFINE c == event[1].conn
  <1>1. /\ event # << >> /\ event' = << >> /\ ContextTypeOK
        /\ stray' = (stray \/ c \notin DOMAIN conn)
        /\ \/ event[1].kind = "resolved" /\ OnAddressResolved(c)
           \/ event[1].kind = "joined" /\ OnMulticastJoin(c)
           \/ event[1].kind = "error" /\ UNCHANGED <<conn, cm, active>>
        /\ UNCHANGED <<life, next, queue, running>>
    BY DEF HandleEvent, ContextInv
  <1>2. c \in Conns /\ Handling(c)
    BY SMT, <1>1 DEF ContextTypeOK, Handling
  <1>3. cm[c] = "idle" /\ queue[c] = << >> /\ conn # << >> /\ conn[c].cm_id
    BY <1>2 DEF ContextInv, ConnectionOK
  <1> HIDE DEF c
  <1>4. /\ conn' \in [Conns -> Connections] /\ conn' # << >>
        /\ cm' \in [Conns -> {"idle", "resolving", "joining"}]
        /\ \A d \in Conns \ {c} : conn'[d] = conn[d] /\ cm'[d] = cm[d]
        /\ conn'[c].cm_id = conn[c].cm_id
        /\ conn'[c].ah => conn'[c].qp
        /\ conn[c].qp => conn'[c].qp
        /\ \/ conn'[c].ah = conn[c].ah /\ active' = active /\ cm'[c] = "idle"
           \/ /\ conn'[c].ah = conn[c].ah /\ active' = active
              /\ cm'[c] = "joining" /\ conn'[c].qp /\ ~conn[c].ah
           \/ conn'[c].ah /\ ~conn[c].ah /\ active' = active + 1 /\ cm'[c] = "idle"
    BY <1>1, <1>2, <1>3, HandlerEffect
  <1>5. conn \in [Conns -> Connections] /\ active \in Nat /\ stray \in BOOLEAN
    BY <1>1, <1>3 DEF ContextTypeOK
  <1>6. stray' = FALSE
    BY <1>1, <1>2, <1>5 DEF ContextInv, NoStrayEvent
  <1>7. ContextTypeOK'
    <2>1. active' \in Nat
      BY SMT, <1>4, <1>5
    <2>2. stray' \in BOOLEAN
      BY <1>6
    <2> QED
      BY <1>1, <1>4, <2>1, <2>2 DEF ContextTypeOK
  <1>8. ASSUME NEW d \in Conns
        PROVE  ConnectionOK(d)'
    <2>1. CASE d # c
      <3>1. ~Handling(d)
        BY <2>1 DEF Handling, c
      <3> QED
        BY <1>1, <1>3, <1>4, <2>1, <3>1, ConnectionKept DEF ContextInv
    <2>2. CASE d = c
      <3>1. ~Handling(d)' /\ queue'[d] = << >>
        BY <1>1, <1>3, <2>2 DEF Handling
      <3>2. Expected(d, "joined")' => cm'[d] = "joining"
        BY SMT, <3>1 DEF Expected
      <3>3. ~Expected(d, "resolved")'
        BY SMT, <1>4, <2>2, <3>1 DEF Expected
      <3>4. Expected(d, "joined")' => conn'[d].qp /\ ~conn'[d].ah
        BY <1>4, <2>2, <3>2
      <3>5. /\ conn'[d].cm_id = conn[d].cm_id /\ conn[d].cm_id
            /\ conn'[d].ah => conn'[d].qp
            /\ life # "opening" \/ d < next
        BY <1>3, <1>4, <2>2, HasId
      <3> QED
        BY <1>1, <1>3, <1>4, <3>1, <3>3, <3>4, <3>5, ConnectionNext
    <2> QED
      BY <2>1, <2>2
  <1>9. active' = Cardinality({d \in Conns : conn'[d].ah})
    <2> DEFINE S == {d \in Conns : conn[d].ah}
               T == {d \in Conns : conn'[d].ah}
    <2>1. CASE conn'[c].ah = conn[c].ah /\ active' = active
      BY <1>3, <1>4, <2>1, CountKept
    <2>2. CASE conn'[c].ah /\ ~conn[c].ah /\ active' = active + 1
      <3>1. T = S \cup {c} /\ c \notin S
        BY <1>2, <1>4, <2>2
      <3>4. active = Cardinality(S) /\ S \in SUBSET Conns
        BY <1>3 DEF ContextInv
      <3> HIDE DEF S, T
      <3>5. Cardinality(T) = Cardinality(S) + 1
        BY <1>2, <3>1, <3>4, CountIs DEF ConnsCount
      <3>6. active' = Cardinality(T)
        BY <2>2, <3>4, <3>5
      <3> QED
        BY <3>6 DEF T
    <2> QED
      BY <1>4, <2>1, <2>2
  <1>10. ContextReady'
    <2> SUFFICES ASSUME life = "up", NEW d \in Conns
                 PROVE  conn'[d].qp /\ conn'[d].ah
      BY <1>1, <1>4 DEF ContextReady
    <2>1. conn[d].qp /\ conn[d].ah
      BY <1>5 DEF ContextInv, ContextReady
    <2> QED
      BY <1>4, <2>1
  <1>11. NoStrayEvent'
    BY <1>1, <1>6 DEF ContextInv, NoStrayEvent
  <1> QED
    BY <1>1, <1>3, <1>4, <1>7, <1>8, <1>9, <1>10, <1>11 DEF ContextInv

\* rdma_destroy_id takes back what is under way for its connection.
LEMMA DestroyIdInv ==
    ASSUME ContextInv, DestroyId
    PROVE  ContextInv'
  <1>1. /\ life = "closing" /\ next \in DOMAIN conn /\ next' = next + 1 /\ ContextTypeOK
        /\ UNCHANGED <<life, event, running, active, stray>>
    BY DEF DestroyId, ContextInv
  <1>2. conn \in [Conns -> Connections] /\ conn # << >> /\ next \in Conns
    <2>1. conn # << >>
      BY SMT, <1>1
    <2> QED
      BY <1>1, <2>1 DEF ContextTypeOK
  <1>3. /\ conn' \in [Conns -> Connections] /\ conn' # << >>
        /\ \A d \in Conns : conn'[d].ah = conn[d].ah /\ conn'[d].qp = conn[d].qp
        /\ \A d \in Conns \ {next} : /\ conn'[d] = conn[d] /\ cm'[d] = cm[d]
                                     /\ queue'[d] = queue[d]
        /\ ~conn'[next].cm_id /\ cm'[next] = "idle" /\ queue'[next] = << >> /\ ~Handling(next)
        /\ cm' \in [Conns -> {"idle", "resolving", "joining"}]
        /\ queue' \in [Conns -> {<< >>} \cup {<<k>> : k \in Kinds}]
    <2>1. /\ cm \in [Conns -> {"idle", "resolving", "joining"}]
          /\ queue \in [Conns -> {<< >>} \cup {<<k>> : k \in Kinds}]
      BY <1>1 DEF ContextTypeOK
    <2>2. CASE /\ ~Unacknowledged(next)
               /\ conn' = [conn EXCEPT ![next].cm_id = FALSE]
               /\ cm' = [cm EXCEPT ![next] = "idle"]
               /\ queue' = [queue EXCEPT ![next] = <<>>]
      <3>1. LET new == [conn EXCEPT ![next].cm_id = FALSE]
            IN  /\ new \in [Conns -> Connections] /\ new # << >>
                /\ \A d \in Conns \ {next} : new[d] = conn[d]
                /\ new[next].cm_id = FALSE /\ new[next].qp = conn[next].qp
                /\ new[next].ah = conn[next].ah
        BY <1>2, ConnectionUpdate
      <3>2. ~Handling(next)
        BY <2>2 DEF Unacknowledged, Handling
      <3>3. /\ \A d \in Conns : conn'[d].ah = conn[d].ah /\ conn'[d].qp = conn[d].qp
            /\ \A d \in Conns \ {next} : conn'[d] = conn[d]
            /\ ~conn'[next].cm_id /\ conn' \in [Conns -> Connections] /\ conn' # << >>
        BY <2>2, <3>1
      <3> QED
        BY <1>2, <2>1, <2>2, <3>2, <3>3
    <2>3. CASE ~conn[next].cm_id /\ UNCHANGED <<conn, cm, queue>>
      <3>1. cm[next] = "idle" /\ queue[next] = << >> /\ ~Handling(next)
        BY <1>2, <2>3 DEF ContextInv, ConnectionOK
      <3> QED
        BY <1>2, <2>1, <2>3, <3>1
    <2> QED
      BY <2>2, <2>3 DEF DestroyId
  <1>4. next' \in 1..(NumConn + 1) /\ next \in Int
    BY SMT, <1>1, <1>2, GroupAssumption DEF Conns
  <1>5. ContextTypeOK'
    BY <1>1, <1>3, <1>4 DEF ContextTypeOK
  <1>6. ASSUME NEW d \in Conns
        PROVE  ConnectionOK(d)'
    <2>1. CASE d # next
      <3>1. d < next' => d < next
        BY SMT, <1>1, <1>4, <2>1 DEF Conns
      <3> QED
        BY <1>1, <1>2, <1>3, <2>1, <3>1, ConnectionKept DEF ContextInv
    <2>2. CASE d = next
      <3>1. ~Handling(d)' /\ cm'[d] = "idle" /\ queue'[d] = << >> /\ ~conn'[d].cm_id
        BY <1>1, <1>3, <2>2 DEF Handling
      <3>2. \A kind : ~Expected(d, kind)'
        BY SMT, <3>1 DEF Expected
      <3>3. conn'[d].ah => conn'[d].qp
        BY <1>2, <1>3 DEF ContextInv, ConnectionOK
      <3> QED
        BY <1>1, <3>1, <3>2, <3>3 DEF ConnectionOK
    <2> QED
      BY <2>1, <2>2
  <1>7. active' = Cardinality({c \in Conns : conn'[c].ah})
    BY <1>1, <1>2, <1>3, CountKept
  <1>8. ContextReady' /\ NoStrayEvent'
    <2>1. event # << >> => event[1].conn \in Conns
      BY SMT, <1>1 DEF ContextTypeOK
    <2> QED
      BY <1>1, <1>3, <2>1 DEF ContextInv, ContextReady, NoStrayEvent
  <1> QED
    BY <1>1, <1>3, <1>5, <1>6, <1>7, <1>8 DEF ContextInv

\* The connections are cleared when no id is left, so no event is under way.
LEMMA ClearInv ==
    ASSUME ContextInv, Clear
    PROVE  ContextInv'
  <1>1. /\ life = "closing" /\ life' = "stopping" /\ next \notin DOMAIN conn /\ conn' = << >>
        /\ UNCHANGED <<next, cm, queue, event, running, active, stray>> /\ ContextTypeOK
    BY DEF Clear, ContextInv
  <1>2. ASSUME NEW c \in Conns
        PROVE  cm[c] = "idle" /\ queue[c] = << >> /\ ~Handling(c)
    <2>1. CASE conn = << >>
      BY <2>1 DEF ContextInv, ConnectionOK
    <2>2. CASE conn # << >>
      <3>1. DOMAIN conn = Conns /\ next \in 1..(NumConn + 1)
        BY <1>1, <2>2 DEF ContextTypeOK
      <3>2. c < next
        BY SMT, <1>1, <3>1, GroupAssumption DEF Conns
      <3> QED
        BY <1>1, <2>2, <3>2 DEF ContextInv, ConnectionOK
    <2> QED
      BY <2>1, <2>2
  <1>3. event = << >>
    <2>1. event # << >> => event[1].conn \in Conns
      BY SMT, <1>1 DEF ContextTypeOK
    <2> QED
      BY <1>2, <2>1 DEF Handling
  <1>4. ContextTypeOK'
    BY <1>1 DEF ContextTypeOK
  <1>5. \A c \in Conns : ConnectionOK(c)'
    BY <1>1, <1>2, <1>3 DEF ConnectionOK, Handling
  <1>6. ContextReady' /\ NoStrayEvent'
    BY <1>1, <1>3 DEF ContextInv, ContextReady, NoStrayEvent
  <1> QED
    BY <1>1, <1>4, <1>5, <1>6 DEF ContextInv

LEMMA StopThreadInv ==
    ASSUME ContextInv, StopThread
    PROVE  ContextInv'
  <1>1. /\ life = "stopping" /\ life' = "gone" /\ event = << >> /\ running' = FALSE
        /\ UNCHANGED <<next, conn, cm, queue, event, active, stray>>
        /\ ContextTypeOK /\ conn = << >>
    BY DEF StopThread, ContextInv
  <1>2. \A c \in Conns : cm[c] = "idle" /\ queue[c] = << >>
    BY <1>1 DEF ContextInv, ConnectionOK
  <1>3. ContextTypeOK'
    BY <1>1 DEF ContextTypeOK
  <1>4. \A c \in Conns : ConnectionOK(c)'
    BY <1>1, <1>2 DEF ConnectionOK, Handling
  <1>5. ContextReady' /\ NoStrayEvent'
    BY <1>1, <1>2 DEF ContextInv, ContextReady, NoStrayEvent
  <1> QED
    BY <1>1, <1>3, <1>4, <1>5 DEF ContextInv

LEMMA CloseInv ==
    ASSUME ContextInv, Close
    PROVE  ContextInv'
  <1>1. /\ life = "up" /\ life' = "closing" /\ next' = 1
        /\ UNCHANGED <<conn, cm, queue, event, running, active, stray>> /\ ContextTypeOK
    BY DEF Close, ContextInv
  <1>2. ContextTypeOK'
    BY SMT, <1>1, GroupAssumption DEF ContextTypeOK
  <1>3. ASSUME NEW c \in Conns
        PROVE  ConnectionOK(c)'
    <2>1. ~(c < next')
      BY SMT, <1>1 DEF Conns
    <2> QED
      BY <1>1, <2>1, ConnectionKept DEF ContextInv
  <1>4. ContextReady' /\ NoStrayEvent'
    BY <1>1 DEF ContextInv, ContextReady, NoStrayEvent
  <1> QED
    BY <1>1, <1>2, <1>3, <1>4 DEF ContextInv

LEMMA ContextSteps ==
    ASSUME ConnsCount, ContextInv, Start \/ Advance \/ Manager \/ ProcessEvents \/ Close
    PROVE  ContextInv'
  <1>1. Advance => ContextInv'
    BY CreateIdInv, AwaitActiveInv, DestroyIdInv, ClearInv, StopThreadInv DEF Advance
  <1>2. Manager => ContextInv'
    BY AnswerInv DEF Manager
  <1>3. ProcessEvents => ContextInv'
    BY GetEventInv, HandleEventInv DEF ProcessEvents
  <1>4. Start => ContextInv'
    BY StartInv
  <1>5. Close => ContextInv'
    BY CloseInv
  <1> QED
    BY <1>1, <1>2, <1>3, <1>4, <1>5

(***************************************************************************)
(* The engine.                                                             *)
(***************************************************************************)

LEMMA SetupStutter ==
    ASSUME SetupInv, UNCHANGED setupVars
    PROVE  SetupInv' /\ at' = at
  <1>1. UNCHANGED <<at, i, ptr, cq_list_, qp_list_, depth_list_, worker, pass, held, mishaps, damage>>
    BY DEF setupVars
  <1>2. SetupTypeOK'
    BY <1>1 DEF SetupInv, SetupTypeOK
  <1>3. at' \in Opening \cup {"up"} => OpeningOK'
    BY <1>1 DEF SetupInv, OpeningOK, AllQps, AllCqs
  <1>4. at' \in Closing => ClosingOK'
    BY <1>1 DEF SetupInv, ClosingOK, AllQps, AllCqs
  <1>5. at' = "crashed" => CrashedOK'
    BY <1>1 DEF SetupInv, CrashedOK
  <1>6. at' # "crashed" => HeldOK'
    BY <1>1 DEF SetupInv, HeldOK
  <1>7. NoWildRelease' /\ UsesLiveMemory'
    BY <1>1 DEF SetupInv, NoWildRelease, UsesLiveMemory
  <1> QED
    BY <1>1, <1>2, <1>3, <1>4, <1>5, <1>6, <1>7 DEF SetupInv

LEMMA ContextStutter ==
    ASSUME ContextInv, UNCHANGED groupVars
    PROVE  ContextInv'
  BY SMT DEF groupVars, ContextInv, ContextTypeOK, ConnectionOK, Handling, Expected,
         ContextReady, NoStrayEvent

LEMMA CallsStutter ==
    ASSUME CallsInv, UNCHANGED joinVars, at' = at
    PROVE  CallsInv'
  BY DEF joinVars, CallsInv, PacketsKept

\* Once an engine closes, no call is under way and nothing is counted any more.
LEMMA CallsClosing ==
    ASSUME CallsInv, UNCHANGED joinVars, at # "up", at' # "up", at' \notin Opening
    PROVE  CallsInv'
  BY DEF joinVars, CallsInv, PacketsKept

LEMMA SetupCalls ==
    ASSUME EngineInv, Setup
    PROVE  EngineInv'
  <1>1. /\ Construct /\ UNCHANGED groupVars
        /\ pool' = IF at' = "up" THEN pool - RecvHandles ELSE pool
        /\ UNCHANGED <<call, joins, group_mr, unleft, group_packets, sending>>
        /\ CallsInv
    BY DEF Setup, EngineInv
  <1>2. at \in Opening
    BY <1>1 DEF Construct, OpenDevice, AllocPd, CreateChannel, CreateEpoll, Acquire,
                JoinNonblockingPollList, CreateCq, CreateQp, SetupQueuePair, AllocArena,
                RegisterArena, Open, Opening
  <1>3. at # "up" /\ pool = MaxPackets /\ group_packets = 0 /\ sending = 0
    BY <1>1, <1>2 DEF CallsInv, Opening
  <1>4. MaxPackets \in Int /\ RecvHandles \in Int
    BY SMT, EngineAssumption
  <1>5. PacketsKept'
    BY SMT, <1>1, <1>3, <1>4 DEF PacketsKept
  <1>6. /\ {pool', group_packets', sending'} \subseteq Int
        /\ at' \in Opening => pool' = MaxPackets /\ group_packets' = 0 /\ sending' = 0
        /\ call' = "out"
    BY SMT, <1>1, <1>2, <1>3, <1>4 DEF Opening, CallsInv
  <1>7. CallsInv'
    BY <1>1, <1>3, <1>5, <1>6 DEF CallsInv
  <1> QED
    BY <1>1, <1>7, SetupSteps, ContextStutter DEF EngineInv

LEMMA GroupCalls ==
    ASSUME ConnsCount, EngineInv,
           JoinMulticast \/ Constructed \/ RegisterGroup \/ PostGroup \/ LeaveMulticast \/ Deconstructed
           \/ Send
    PROVE  EngineInv'
  <1>0. /\ SetupInv /\ ContextInv /\ CallsInv
        /\ MaxPackets \in Int /\ RecvHandles \in Int
        /\ pool \in Int /\ group_packets \in Int /\ sending \in Int
    BY SMT, EngineAssumption DEF EngineInv, CallsInv
  <1>1. SetupInv' /\ at' = at
    BY <1>0, SetupStutter DEF JoinMulticast, Constructed, RegisterGroup, PostGroup,
                              LeaveMulticast, Deconstructed, Send
  <1>2. ContextInv'
    <2>1. UNCHANGED groupVars \/ Start \/ Close
      BY DEF JoinMulticast, Constructed, RegisterGroup, PostGroup, LeaveMulticast, Deconstructed, Send
    <2> QED
      BY <1>0, <2>1, ContextStutter, ContextSteps
  <1>3. CASE JoinMulticast
    <2>1. /\ at = "up" /\ call = "out" /\ call' = "joining"
          /\ UNCHANGED <<group_mr, unleft, pool, group_packets, sending>>
      BY <1>3 DEF JoinMulticast, Idle
    <2>2. CallsInv'
      BY <1>0, <1>1, <2>1 DEF CallsInv, PacketsKept, Opening
    <2> QED
      BY <1>1, <1>2, <2>2 DEF EngineInv
  <1>4. CASE Constructed
    <2>1. /\ call = "joining" /\ call' \in {"registering", "out"}
          /\ UNCHANGED <<group_mr, unleft, pool, group_packets, sending>>
      BY <1>4 DEF Constructed
    <2>2. CallsInv'
      BY <1>0, <1>1, <2>1 DEF CallsInv, PacketsKept
    <2> QED
      BY <1>1, <1>2, <2>2 DEF EngineInv
  <1>5. CASE RegisterGroup
    <2>1. /\ call = "registering" /\ call' \in {"posting", "half"}
          /\ UNCHANGED <<unleft, pool, group_packets, sending>>
      BY <1>5 DEF RegisterGroup
    <2>2. CallsInv'
      BY <1>0, <1>1, <2>1 DEF CallsInv, PacketsKept
    <2> QED
      BY <1>1, <1>2, <2>2 DEF EngineInv
  <1>6. CASE PostGroup
    <2> DEFINE n == IF pool < RecvHandles THEN pool ELSE RecvHandles
    <2>1. /\ call = "posting" /\ call' \in {"in", "half"} /\ group_packets' = n
          /\ pool' = pool - n /\ UNCHANGED <<group_mr, unleft, sending>>
      BY <1>6 DEF PostGroup
    <2>2. n \in Int /\ group_packets = 0
      BY <1>0, <2>1 DEF CallsInv
    <2> HIDE DEF n
    <2>3. pool' + group_packets' = pool + group_packets /\ pool' \in Int
      BY SMT, <1>0, <2>1, <2>2
    <2>5. PacketsKept'
      BY <1>0, <1>1, <2>1, <2>2, <2>3 DEF CallsInv, PacketsKept
    <2>6. at \notin Opening
      BY <1>0, <2>1 DEF CallsInv
    <2>7. CallsInv'
      BY <1>0, <1>1, <2>1, <2>2, <2>3, <2>5, <2>6 DEF CallsInv
    <2> QED
      BY <1>1, <1>2, <2>7 DEF EngineInv
  <1>7. CASE LeaveMulticast
    <2>1. /\ at = "up" /\ call \in {"in", "half"} /\ call' = "leaving"
          /\ pool' = pool + group_packets /\ group_packets' = 0 /\ UNCHANGED sending
          /\ group_mr' = {} \/ unleft' = TRUE
      BY <1>7 DEF LeaveMulticast, Idle
    <2>2. pool' + group_packets' = pool + group_packets /\ pool' \in Int
      BY SMT, <1>0, <2>1
    <2>3. PacketsKept'
      BY <1>0, <1>1, <2>1, <2>2 DEF CallsInv, PacketsKept
    <2>4. CallsInv'
      BY SMT, <1>0, <1>1, <2>1, <2>2, <2>3 DEF CallsInv, Opening
    <2> QED
      BY <1>1, <1>2, <2>4 DEF EngineInv
  <1>8. CASE Deconstructed
    <2>1. /\ call = "leaving" /\ call' = "out"
          /\ UNCHANGED <<group_mr, unleft, pool, group_packets, sending>>
      BY <1>8 DEF Deconstructed
    <2>2. CallsInv'
      BY <1>0, <1>1, <2>1 DEF CallsInv, PacketsKept
    <2> QED
      BY <1>1, <1>2, <2>2 DEF EngineInv
  <1>9. CASE Send
    <2>1. /\ at = "up" /\ UNCHANGED <<call, group_mr, unleft, group_packets>>
          /\ \/ pool' = pool - 1 /\ sending' = sending + 1
             \/ pool' = pool + 1 /\ sending' = sending - 1
      BY <1>9 DEF Send, Idle
    <2>2. pool' \in Int /\ sending' \in Int /\ pool' + sending' = pool + sending
      BY SMT, <1>0, <2>1
    <2>3. pool + group_packets + sending + RecvHandles = MaxPackets
      BY <1>0, <2>1 DEF CallsInv, PacketsKept
    <2>4. pool' + group_packets + sending' + RecvHandles = MaxPackets
      <3>1. \A q, t \in Int : q + t = pool + sending
                             => q + group_packets + t + RecvHandles = MaxPackets
        BY SMT, <1>0, <2>3
      <3> QED
        BY <2>2, <3>1
    <2>5. PacketsKept'
      BY <2>1, <2>4 DEF PacketsKept
    <2>6. CallsInv'
      BY <1>0, <1>1, <2>1, <2>2, <2>5 DEF CallsInv, Opening
    <2> QED
      BY <1>1, <1>2, <2>6 DEF EngineInv
  <1> QED
    BY <1>3, <1>4, <1>5, <1>6, <1>7, <1>8, <1>9

LEMMA DropCalls ==
    ASSUME ConnsCount, EngineInv, Drop \/ TearDown \/ DropGroups \/ ConnectPeer
    PROVE  EngineInv'
  <1>0. SetupInv /\ ContextInv /\ CallsInv
    BY DEF EngineInv
  <1>1. CASE Drop
    <2>1. /\ Destroy /\ at = "up" /\ at' = "join" /\ unleft' = (unleft \/ call # "out")
          /\ UNCHANGED groupVars /\ UNCHANGED <<call, joins, group_mr, pool, group_packets, sending>>
      BY <1>1 DEF Drop, Destroy
    <2>2. at' # "up" /\ at' \notin Opening
      BY <2>1 DEF Opening
    <2>3. (~unleft' => call = "out") /\ (~unleft' => ~unleft)
      BY <2>1
    <2>4. CallsInv'
      BY <1>0, <2>1, <2>2, <2>3 DEF CallsInv, PacketsKept
    <2> QED
      BY <1>0, <2>1, <2>4, SetupSteps, ContextStutter DEF EngineInv
  <1>2. CASE TearDown
    <2>1. Deconstruct /\ UNCHANGED groupVars /\ UNCHANGED joinVars
      BY <1>2 DEF TearDown
    <2>2. at # "up" /\ at' # "up" /\ at' \notin Opening
      BY <2>1 DEF Deconstruct, JoinWorker, UnregisterArena, FreeArena, DestroyQps,
                  DeconstructContext, Crash, Opening
    <2> QED
      BY <1>0, <2>1, <2>2, CallsClosing, SetupSteps, ContextStutter DEF EngineInv
  <1>3. CASE DropGroups
    <2>1. /\ at = "groups" /\ UNCHANGED joinVars
          /\ \/ Close /\ UNCHANGED setupVars
             \/ Finish /\ UNCHANGED groupVars
      BY <1>3 DEF DropGroups
    <2>2. at' \in {"groups", "gone"}
      BY <2>1 DEF Finish, setupVars
    <2>3. at # "up" /\ at' # "up" /\ at' \notin Opening
      BY <2>1, <2>2 DEF Opening
    <2> QED
      BY <1>0, <2>1, <2>3, CallsClosing, SetupSteps, SetupStutter, ContextSteps, ContextStutter
         DEF EngineInv
  <1>4. CASE ConnectPeer
    <2>1. Connect /\ UNCHANGED groupVars /\ UNCHANGED joinVars /\ at' = at
      BY <1>4 DEF ConnectPeer, Connect
    <2> QED
      BY <1>0, <2>1, CallsStutter, SetupSteps, ContextStutter DEF EngineInv
  <1> QED
    BY <1>1, <1>2, <1>3, <1>4

LEMMA EngineStep ==
    ASSUME ConnsCount, EngineInv, [EngineNext]_engineVars
    PROVE  EngineInv'
  <1>0. SetupInv /\ ContextInv /\ CallsInv
    BY DEF EngineInv
  <1>1. CASE /\ Advance \/ ProcessEvents \/ Manager
             /\ UNCHANGED setupVars /\ UNCHANGED joinVars
    BY <1>0, <1>1, SetupStutter, ContextSteps, CallsStutter DEF EngineInv
  <1>2. CASE UNCHANGED engineVars
    <2>1. UNCHANGED setupVars /\ UNCHANGED groupVars /\ UNCHANGED joinVars
      BY <1>2 DEF engineVars
    <2> QED
      BY <1>0, <2>1, SetupStutter, ContextStutter, CallsStutter DEF EngineInv
  <1> QED
    BY <1>1, <1>2, SetupCalls, GroupCalls, DropCalls
       DEF EngineNext, Call, EventThread, Fabric, Application

LOCAL INSTANCE FiniteSetTheorems

LEMMA ConnsCounted == ConnsCount
  <1>1. \A S : Count(S) = Cardinality(S)
    BY DEF Cardinality, Count
  <1>2. Count({}) = 0
    BY <1>1, FS_EmptySet
  <1>3. IsFiniteSet(Conns) /\ Cardinality(Conns) = NumConn
    <2>1. 1 \in Int /\ NumConn \in Int /\ NumConn - 1 + 1 = NumConn /\ ~(1 > NumConn)
      BY SMT, GroupAssumption
    <2> QED
      BY <2>1, FS_Interval DEF Conns
  <1>4. ASSUME NEW S \in SUBSET Conns
        PROVE  /\ Count(S) \in 0..NumConn
               /\ Count(S) = NumConn => S = Conns
               /\ \A c \in Conns \ S : Count(S \cup {c}) = Count(S) + 1
    <2>1. /\ IsFiniteSet(S) /\ Cardinality(S) <= Cardinality(Conns)
          /\ Cardinality(S) = Cardinality(Conns) => S = Conns
      BY <1>3, FS_Subset
    <2>2. Cardinality(S) \in Nat
      BY <2>1, FS_CardinalityType
    <2>3. \A c \in Conns \ S : Cardinality(S \cup {c}) = Cardinality(S) + 1
      BY <2>1, FS_AddElement
    <2> QED
      BY SMT, <1>1, <1>3, <2>1, <2>2, <2>3, GroupAssumption
  <1> QED
    BY <1>2, <1>4 DEF ConnsCount

\* The inductive invariant of an engine, for any number of queue pairs, packets,
\* joins and failures.
THEOREM EngineInvariant == EngineSpec => []EngineInv
  <1>1. EngineInit => EngineInv
    <2> SUFFICES ASSUME EngineInit
                 PROVE  EngineInv
      OBVIOUS
    <2>1. SetupInv /\ ContextInv /\ at = "device"
      BY SetupInitial, ContextInitial DEF EngineInit, SetupInit
    <2>2. MaxPackets \in Int
      BY SMT, EngineAssumption
    <2>3. CallsInv
      BY SMT, <2>1, <2>2 DEF EngineInit, CallsInv, PacketsKept
    <2> QED
      BY <2>1, <2>3 DEF EngineInv
  <1>2. EngineInv /\ [EngineNext]_engineVars => EngineInv'
    BY EngineStep, ConnsCounted
  <1> QED
    BY <1>1, <1>2, PTL DEF EngineSpec

\* The destructors of RapidTransfer release no null, uninitialized or already released
\* object unless construct failed before its queue pairs were ready, although
\* deconstruct runs twice.
THEOREM NoWildReleases == EngineSpec => []NoWildRelease
  <1>1. EngineInv => NoWildRelease
    BY DEF EngineInv, SetupInv
  <1> QED
    BY <1>1, EngineInvariant, PTL

\* An engine that is gone has left nothing with the process, however far construct
\* had got: RdmaContext::deconstruct releases in an order that the device accepts.
THEOREM EngineLeavesNothing == EngineSpec => []NothingLeft
  <1>1. EngineInv => NothingLeft
    BY GoneIsEmpty DEF EngineInv
  <1> QED
    BY <1>1, EngineInvariant, PTL

\* The worker thread is joined before anything it works on is released.
THEOREM WorkerMemoryLives == EngineSpec => []UsesLiveMemory
  <1>1. EngineInv => UsesLiveMemory
    BY DEF EngineInv, SetupInv
  <1> QED
    BY <1>1, EngineInvariant, PTL

\* When construct of a multicast context returns, each of its connections has a queue
\* pair and an address handle: num_active_connections_ counts every one once.
THEOREM ContextsReady == EngineSpec => []ContextReady
  <1>1. EngineInv => ContextReady
    BY DEF EngineInv, ContextInv
  <1> QED
    BY <1>1, EngineInvariant, PTL

\* processEvents works on no connection that deconstruct has cleared.
THEOREM NoStrayEvents == EngineSpec => []NoStrayEvent
  <1>1. EngineInv => NoStrayEvent
    BY DEF EngineInv, ContextInv
  <1> QED
    BY <1>1, EngineInvariant, PTL

\* The device has no key of a group to an arena that was freed, unless the engine was
\* dropped inside the group or the device refused to deregister.
THEOREM GroupKeysStayCurrent == EngineSpec => []GroupKeysCurrent
  <1>1. EngineInv => GroupKeysCurrent
    <2> SUFFICES ASSUME EngineInv, ~unleft
                 PROVE  /\ group_mr # {} => Arena \in held
                        /\ call \in {"out", "leaving"} => group_mr = {}
      BY DEF GroupKeysCurrent
    <2>1. group_mr # {} => at = "up"
      BY DEF EngineInv, CallsInv
    <2>2. at = "up" => Arena \in held
      BY DEF EngineInv, SetupInv, OpeningOK
    <2> QED
      BY <2>1, <2>2 DEF EngineInv, CallsInv
  <1> QED
    BY <1>1, EngineInvariant, PTL

\* The packets of the pool, of the group and of the send queues are those that the
\* pool began with, also after joins that failed half-way.
THEOREM PacketsAreKept == EngineSpec => []PacketsKept
  <1>1. EngineInv => PacketsKept
    BY DEF EngineInv, CallsInv
  <1> QED
    BY <1>1, EngineInvariant, PTL
=============================================================================
