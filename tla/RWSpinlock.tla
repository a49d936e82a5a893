----------------------------- MODULE RWSpinlock -----------------------------
(***************************************************************************)
(* The ticket lock that guards the maps and registries of the library, at  *)
(* the level of its atomic instructions: one load, compare-and-swap,       *)
(* fetch-and-add or store per step.  Memory is sequentially consistent for *)
(* the single word that the lock consists of.                              *)
(*                                                                         *)
(* Tickets are 16-bit numbers, modulo TicketSpace here.  tryLockShared     *)
(* installs the users field of its snapshot without having compared it, so *)
(* the lock relies on the tickets not coming round between its load and    *)
(* its compare-and-swap.  age counts the acquisitions in between, and      *)
(* MaxStale bounds it.                                                     *)
(***************************************************************************)
EXTENDS Integers, FiniteSets

CONSTANTS
    Threads,
    TicketSpace,    \* 2^16 in the code
    MaxStale        \* acquisitions that one attempt may be behind

ASSUME SpinlockAssumption ==
    /\ IsFiniteSet(Threads)
    /\ TicketSpace \in Nat
    /\ MaxStale \in Nat
    /\ MaxStale + Cardinality(Threads) <= TicketSpace
    /\ Cardinality(Threads) < TicketSpace

VARIABLES
    ticket,     \* the union RWTicket
    pc,         \* what each thread does with the lock
    snap,       \* its copy of the ticket
    age         \* acquisitions since it took the copy

vars == <<ticket, pc, snap, age>>

Tickets == 0..(TicketSpace - 1)
Inc(x) == (x + 1) % TicketSpace
Ticket == [write : Tickets, read : Tickets, users : Tickets]
Zero == [write |-> 0, read |-> 0, users |-> 0]

Trying == {"tryLock", "tryLockShared"}

\* Between two attempts.
Again(mode) == IF mode = "tryLock" THEN "lock" ELSE "lockShared"

Init ==
    /\ ticket = Zero
    /\ pc = [t \in Threads |-> "idle"]
    /\ snap = [t \in Threads |-> Zero]
    /\ age = [t \in Threads |-> 0]

Goto(t, label) == pc' = [pc EXCEPT ![t] = label]

\* A copy of the ticket that is not read again is forgotten.
Forget(t) == snap' = [snap EXCEPT ![t] = Zero]

\* The bound on staleness, and its bookkeeping.
Acquire(t) ==
    /\ \A u \in Threads \ {t} : pc[u] \in Trying => age[u] < MaxStale
    /\ age' = [u \in Threads |-> IF u # t /\ pc[u] \in Trying THEN age[u] + 1 ELSE 0]

\* lock and lockShared, up to the load of their first attempt.
Load(t, mode) ==
    /\ pc[t] \in {"idle", Again(mode)}
    /\ snap' = [snap EXCEPT ![t] = ticket]
    /\ Goto(t, mode)
    /\ UNCHANGED <<ticket, age>>

\* A failed attempt: the loop of lock or lockShared comes round.
Retry(t) ==
    /\ Goto(t, Again(pc[t]))
    /\ age' = [age EXCEPT ![t] = 0]
    /\ Forget(t)
    /\ UNCHANGED ticket

\* Variant: the users are not compared with write.
TryLockUnchecked(t) ==
    /\ pc[t] = "tryLock"
    /\ \/ /\ ticket = snap[t]
          /\ Acquire(t)
          /\ ticket' = [snap[t] EXCEPT !.users = Inc(@)]
          /\ Goto(t, "writing")
          /\ Forget(t)
       \/ /\ ticket # snap[t]
          /\ Retry(t)

\* tryLock, after the load.
TryLock(t) ==
    /\ pc[t] = "tryLock"
    /\ \/ /\ snap[t].users = snap[t].write
          /\ ticket = snap[t]
          /\ Acquire(t)
          /\ ticket' = [snap[t] EXCEPT !.users = Inc(@)]
          /\ Goto(t, "writing")
          /\ Forget(t)
       \/ /\ snap[t].users # snap[t].write \/ ticket # snap[t]
          /\ Retry(t)

\* The value tryLockShared compares with.
Expected(s) == [s EXCEPT !.users = s.read]

\* tryLockShared, after the load.
TryLockShared(t) ==
    /\ pc[t] = "tryLockShared"
    /\ \/ /\ ticket = Expected(snap[t])
          /\ Acquire(t)
          /\ ticket' = [snap[t] EXCEPT !.read = Inc(@), !.users = Inc(@)]
          /\ Goto(t, "reading")
          /\ Forget(t)
       \/ /\ ticket # Expected(snap[t])
          /\ Retry(t)

\* writeLockAggressive takes a ticket; snap.users holds it.
TakeTicket(t) ==
    /\ pc[t] = "idle"
    /\ Acquire(t)
    /\ snap' = [snap EXCEPT ![t] = ticket]
    /\ ticket' = [ticket EXCEPT !.users = Inc(@)]
    /\ Goto(t, "waiting")

AwaitTurn(t) ==
    /\ pc[t] = "waiting"
    /\ snap[t].users = ticket.write
    /\ Goto(t, "writing")
    /\ Forget(t)
    /\ UNCHANGED <<ticket, age>>

\* unlock reads the ticket and then stores two of its fields.
LoadToUnlock(t) ==
    /\ pc[t] = "writing"
    /\ snap' = [snap EXCEPT ![t] = ticket]
    /\ Goto(t, "unlocking")
    /\ UNCHANGED <<ticket, age>>

Unlock(t) ==
    /\ pc[t] = "unlocking"
    /\ ticket' = [ticket EXCEPT !.write = Inc(snap[t].write), !.read = Inc(snap[t].read)]
    /\ Goto(t, "idle")
    /\ Forget(t)
    /\ UNCHANGED age

UnlockAndLockShared(t) ==
    /\ pc[t] = "writing"
    /\ ticket' = [ticket EXCEPT !.read = Inc(@)]
    /\ Goto(t, "reading")
    /\ UNCHANGED <<snap, age>>

UnlockShared(t) ==
    /\ pc[t] = "reading"
    /\ ticket' = [ticket EXCEPT !.write = Inc(@)]
    /\ Goto(t, "idle")
    /\ UNCHANGED <<snap, age>>

\* A thread asks for the lock in one of its three modes.
Ask(t) == pc[t] = "idle" /\ ((\E mode \in Trying : Load(t, mode)) \/ TakeTicket(t))

\* A thread that has asked for the lock, or holds it, goes on.
Proceed(t) ==
    \/ pc[t] # "idle" /\ \E mode \in Trying : Load(t, mode)
    \/ TryLock(t) \/ TryLockShared(t) \/ AwaitTurn(t)
    \/ LoadToUnlock(t) \/ Unlock(t) \/ UnlockAndLockShared(t) \/ UnlockShared(t)

Next == \E t \in Threads : Ask(t) \/ Proceed(t)

Spec == Init /\ [][Next]_vars

\* A thread in one of the operations keeps running, and critical sections end.
FairSpec == Spec /\ \A t \in Threads : WF_vars(Proceed(t))

(***************************************************************************)
(* Properties.                                                             *)
(***************************************************************************)
Readers == {t \in Threads : pc[t] = "reading"}
Writers == {t \in Threads : pc[t] \in {"writing", "unlocking"}}
Waiting == {t \in Threads : pc[t] = "waiting"}

\* The three ticket fields stay in their width and every thread is at an
\* instruction of concurrency.h.
TypeOK ==
    /\ ticket \in Ticket
    /\ pc \in [Threads -> Trying \cup {"idle", "lock", "lockShared", "waiting",
                             "writing", "unlocking", "reading"}]
    /\ snap \in [Threads -> Ticket]
    /\ age \in [Threads -> 0..MaxStale]

\* A writer is alone: neither a reader nor a second writer is inside with it.
Exclusion ==
    \A t \in Writers : Readers = {} /\ Writers = {t}

\* The three fields count what they should: read is ahead of write by the readers,
\* users by all that hold the lock or have a ticket.  In particular the two stores
\* of unlock lose no ticket that was taken since its load.
TicketsCount ==
    /\ (ticket.read - ticket.write) % TicketSpace = Cardinality(Readers)
    /\ (ticket.users - ticket.write) % TicketSpace
           = Cardinality(Readers \cup Writers \cup Waiting)

(***************************************************************************)
(* The inductive invariant.  Tickets are compared by their distance, which *)
(* survives the end of their range.  Those who wait stand behind those who *)
(* hold the lock, each at a place of its own; unlock stores into fields    *)
(* that nobody else has changed; and users has moved on by the age of an   *)
(* attempt since it copied the ticket.                                     *)
(***************************************************************************)
Gap(x, y) == (x - y) % TicketSpace

Inside == Readers \cup Writers \cup Waiting

Place(t) == Gap(snap[t].users, ticket.write)

InLine ==
    /\ \A t \in Waiting : Cardinality(Readers \cup Writers) <= Place(t) /\ Place(t) < Cardinality(Inside)
    /\ \A t, u \in Waiting : snap[t].users = snap[u].users => t = u

Unlocking ==
    \A t \in Threads : pc[t] = "unlocking" =>
        snap[t].write = ticket.write /\ snap[t].read = ticket.read

Attempts ==
    \A t \in Threads :
        IF pc[t] \in Trying
        THEN /\ Gap(ticket.users, snap[t].users) = age[t]
             /\ Gap(snap[t].read, snap[t].write) <= Gap(snap[t].users, snap[t].write)
             /\ Gap(snap[t].users, snap[t].write) < Cardinality(Threads)
        ELSE age[t] = 0

LockInv ==
    /\ TypeOK
    /\ Exclusion
    /\ TicketsCount
    /\ InLine
    /\ Unlocking
    /\ Attempts

\* The lock is never dead: a thread that tries to get in is followed by some thread
\* that is in.
SomeoneGetsIn ==
    (\E t \in Threads : pc[t] \in Trying \cup {"lock", "lockShared", "waiting"})
        ~> (Readers \cup Writers # {})

\* A ticket is served: a thread in writeLockAggressive gets its turn.
TicketServed ==
    \A t \in Threads : pc[t] = "waiting" ~> pc[t] = "writing"
=============================================================================
