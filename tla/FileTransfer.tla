---------------------------- MODULE FileTransfer ----------------------------
(***************************************************************************)
(* The example file_transfer: processes that send a file to one or more    *)
(* targets, and processes that receive a number of files, one thread for   *)
(* each connection.  The engine between them is its promise (ReliableStream*)
(* at the granularity of tasks): a send is confirmed after the matching    *)
(* receive has its data, and the data is read from the sender's buffer     *)
(* when it is delivered, because packets carry it without a copy.          *)
(*                                                                         *)
(* Message 0 of a stream is the size of the file, message k > 0 is chunk k.*)
(***************************************************************************)
EXTENDS Integers, Sequences, FiniteSets

CONSTANTS
    Links,          \* pairs <<s, r>>: sender s has r in its target list
    Chunks,         \* Chunks[s]: the number of chunks of the file of s
    Files,          \* Files[r]: num_recv_files of r
    MayFail,        \* whether a file, a send or a connection may fail (bound: one failure)
    InsertAtOnce,   \* emplace_back ends before the new thread takes a step
    AcksInTime      \* the extra delay is enough for the last acknowledgements

Senders == {l[1] : l \in Links}
Receivers == {l[2] : l \in Links}
Targets(s) == {l[2] : l \in {k \in Links : k[1] = s}}
LinksTo(r) == {l \in Links : l[2] = r}

VARIABLES
    sender,     \* sender(): program counter, message, buffer and target loop
    link,       \* the stream of a pair, and its failures
    thread,     \* the receiver thread of a pair
    main        \* receiver(): the main thread, and what the lambdas share

vars == <<sender, link, thread, main>>

Nothing == <<>>
Ended == {"done", "error"}
Slots(r) == 0..(Cardinality(LinksTo(r)) - 1)

Init ==
    /\ sender = [s \in Senders |-> [pc |-> "send", msg |-> 0, buf |-> <<s, 0>>, todo |-> Targets(s)]]
    /\ link = [l \in Links |-> [offered |-> 0, wanted |-> 0, delivered |-> 0, confirmed |-> 0,
                                broken |-> FALSE]]
    /\ thread = [l \in Links |-> [pc |-> "none", index |-> 0, total |-> 0, file |-> <<>>]]
    /\ main = [r \in Receivers |-> [pc |-> "await", start_recv_count |-> 0, receiver_list |-> {},
                                    joining |-> {}, mem |-> [i \in Slots(r) |-> Nothing]]]

\* Nothing has gone wrong outside the control of the program.
Undisturbed ==
    /\ \A l \in Links : ~link[l].broken /\ thread[l].pc # "error"
    /\ \A s \in Senders : sender[s].pc # "error"
    /\ \A r \in Receivers : main[r].pc # "error"

CanFail == MayFail /\ Undisturbed

\* Empty when nothing can fail.
Failures == {f \in {"failure"} : CanFail}

(***************************************************************************)
(* sender().                                                               *)
(***************************************************************************)
\* No engine, no group, no memory or no file: the process ends before it sends.
SenderSetUpFails(s) ==
    /\ CanFail
    /\ sender[s].msg = 0
    /\ \A r \in Targets(s) : thread[<<s, r>>].pc = "none"
    /\ sender' = [sender EXCEPT ![s].pc = "error"]
    /\ UNCHANGED <<link, thread, main>>

Sent(s, r) == [sender EXCEPT ![s].todo = @ \ {r},
                             ![s].pc = IF sender[s].todo = {r} THEN "wait" ELSE "send"]

\* The handshake in the first send to a target.  on_new_connection starts the thread.
Connect(s, r) ==
    /\ sender[s].pc = "send" /\ r \in sender[s].todo
    /\ thread[<<s, r>>].pc = "none"
    /\ main[r].pc \notin {"exit", "error"} /\ ~link[<<s, r>>].broken
    /\ thread' = [thread EXCEPT ![<<s, r>>].pc = "created"]
    /\ UNCHANGED <<sender, link, main>>

\* The end of emplace_back, still before the reply of the handshake.
Insert(l) ==
    /\ thread[l].pc # "none"
    /\ l \notin main[l[2]].receiver_list
    /\ main' = [main EXCEPT ![l[2]].receiver_list = @ \cup {l}]
    /\ UNCHANGED <<sender, link, thread>>

Send(s, r) ==
    /\ sender[s].pc = "send" /\ r \in sender[s].todo
    /\ <<s, r>> \in main[r].receiver_list
    /\ link' = [link EXCEPT ![<<s, r>>].offered = @ + 1]
    /\ sender' = Sent(s, r)
    /\ UNCHANGED <<thread, main>>

\* send returns -1; wait_for_completion then polls a task that does not exist.
SendFails(s, r) ==
    /\ CanFail
    /\ sender[s].pc = "send" /\ r \in sender[s].todo
    /\ link' = [link EXCEPT ![<<s, r>>].broken = TRUE]
    /\ sender' = Sent(s, r)
    /\ UNCHANGED <<thread, main>>

\* Variant: the loop goes on when one target has confirmed the chunk.
AnyConfirmed(s) == \E r \in Targets(s) : link[<<s, r>>].confirmed > sender[s].msg

\* wait_for_completion has returned 0 for each target.
AllConfirmed(s) == \A r \in Targets(s) : link[<<s, r>>].confirmed > sender[s].msg

\* readFully overwrites the buffer with the next chunk, or the process gives up.
ReadFully(s) ==
    {[sender[s] EXCEPT !.pc = "send", !.msg = @ + 1, !.todo = Targets(s),
                       !.buf = <<s, sender[s].msg + 1>>]}
    \cup {[sender[s] EXCEPT !.pc = "error"] : f \in Failures}

\* The loop over the chunks.
NextChunk(s) ==
    /\ sender[s].pc = "wait"
    /\ AllConfirmed(s)
    /\ \E x \in IF sender[s].msg = Chunks[s] THEN {[sender[s] EXCEPT !.pc = "done"]}
                                            ELSE ReadFully(s) :
          sender' = [sender EXCEPT ![s] = x]
    /\ UNCHANGED <<link, thread, main>>

\* wait_for_completion sees FAILED for a task that was sent.
WaitFails(s) ==
    /\ sender[s].pc = "wait"
    /\ \E r \in Targets(s) :
          /\ link[<<s, r>>].broken
          /\ link[<<s, r>>].offered > sender[s].msg /\ link[<<s, r>>].confirmed <= sender[s].msg
    /\ sender' = [sender EXCEPT ![s].pc = "error"]
    /\ UNCHANGED <<link, thread, main>>

(***************************************************************************)
(* The lambda receiver, one thread for each connection.                    *)
(***************************************************************************)
\* start_recv_count.fetch_add.
Start(l) ==
    /\ thread[l].pc = "created"
    /\ InsertAtOnce => l \in main[l[2]].receiver_list
    /\ thread' = [thread EXCEPT ![l].pc = "open", ![l].index = main[l[2]].start_recv_count]
    /\ main' = [main EXCEPT ![l[2]].start_recv_count = @ + 1]
    /\ UNCHANGED <<sender, link>>

\* receive into the part of the buffer that belongs to this thread.
PostReceive(l) == link' = [link EXCEPT ![l].wanted = @ + 1]

Open(l) ==
    /\ thread[l].pc = "open"
    /\ \/ /\ PostReceive(l)
          /\ thread' = [thread EXCEPT ![l].pc = "wait"]
       \/ /\ CanFail
          /\ thread' = [thread EXCEPT ![l].pc = "error"]
          /\ UNCHANGED link
    /\ UNCHANGED <<sender, main>>

Received(l) == thread[l].pc = "wait" /\ link[l].delivered = link[l].wanted

\* What this thread finds in its part of the buffer.
Content(l) == main[l[2]].mem[thread[l].index]

\* The size has arrived; the assert refuses an empty file.
GotSize(l) ==
    /\ Received(l) /\ link[l].wanted = 1
    /\ LET total == Chunks[Content(l)[1]]
       IN  IF total > 0
           THEN /\ thread' = [thread EXCEPT ![l].total = total]
                /\ PostReceive(l)
           ELSE /\ thread' = [thread EXCEPT ![l].pc = "assert"]
                /\ UNCHANGED link
    /\ UNCHANGED <<sender, main>>

\* writeFully writes all of the chunk, or the thread returns -1.
WriteFully(l) ==
    LET file == Append(thread[l].file, Content(l))
    IN  {[thread[l] EXCEPT !.file = file,
                           !.pc = IF Len(file) = thread[l].total THEN "done" ELSE "wait"]}
        \cup {[thread[l] EXCEPT !.pc = "error"] : f \in Failures}

\* A chunk has arrived; the loop goes on while there is more of the file.
GotChunk(l) ==
    /\ Received(l) /\ link[l].wanted > 1
    /\ \E x \in WriteFully(l) : thread' = [thread EXCEPT ![l] = x]
    /\ IF thread'[l].pc = "wait" THEN PostReceive(l) ELSE UNCHANGED link
    /\ UNCHANGED <<sender, main>>

ReceiveFails(l) ==
    /\ thread[l].pc = "wait" /\ link[l].delivered < link[l].wanted
    /\ link[l].broken /\ link[l].offered > 0
    /\ thread' = [thread EXCEPT ![l].pc = "error"]
    /\ UNCHANGED <<sender, link, main>>

(***************************************************************************)
(* The main thread of receiver().                                          *)
(***************************************************************************)
\* No engine, no group, no memory or no listener.
ReceiverSetUpFails(r) ==
    /\ CanFail
    /\ main[r].pc = "await"
    /\ \A l \in LinksTo(r) : thread[l].pc = "none"
    /\ main' = [main EXCEPT ![r].pc = "error"]
    /\ UNCHANGED <<sender, link, thread>>

\* The loop on start_recv_count ends; the loop of joins goes over what is in the list.
Await(r) ==
    /\ main[r].pc = "await"
    /\ main[r].start_recv_count >= Files[r]
    /\ main' = [main EXCEPT ![r].pc = "join", ![r].joining = main[r].receiver_list]
    /\ UNCHANGED <<sender, link, thread>>

\* Variant: the threads are not joined.
JoinNone(r) ==
    /\ main[r].pc = "join"
    /\ main' = [main EXCEPT ![r].pc = "delay"]
    /\ UNCHANGED <<sender, link, thread>>

Join(r) ==
    /\ main[r].pc = "join"
    /\ \A l \in main[r].joining : thread[l].pc \in Ended
    /\ main' = [main EXCEPT ![r].pc = "delay"]
    /\ UNCHANGED <<sender, link, thread>>

\* Variant: the process ends without the delay.
ExitAtOnce(r) ==
    /\ main[r].pc = "delay"
    /\ main' = [main EXCEPT ![r].pc = "exit"]
    /\ UNCHANGED <<sender, link, thread>>

\* The extra delay, then cleanup, which frees the buffer.
Exit(r) ==
    /\ main[r].pc = "delay"
    /\ AcksInTime => \A l \in LinksTo(r) : link[l].broken \/ link[l].confirmed = link[l].delivered
    /\ main' = [main EXCEPT ![r].pc = "exit"]
    /\ UNCHANGED <<sender, link, thread>>

(***************************************************************************)
(* The engine.                                                             *)
(***************************************************************************)
Works(l) ==
    /\ ~link[l].broken
    /\ main[l[2]].pc # "exit"
    /\ sender[l[1]].pc \notin Ended

Deliver(l) ==
    /\ Works(l)
    /\ link[l].delivered < link[l].offered
    /\ link[l].delivered < link[l].wanted
    /\ main' = [main EXCEPT ![l[2]].mem[thread[l].index] = sender[l[1]].buf]
    /\ link' = [link EXCEPT ![l].delivered = @ + 1]
    /\ UNCHANGED <<sender, thread>>

Confirm(l) ==
    /\ Works(l)
    /\ link[l].confirmed < link[l].delivered
    /\ link' = [link EXCEPT ![l].confirmed = link[l].delivered]
    /\ UNCHANGED <<sender, thread, main>>

\* The connection breaks; tasks that are not complete are FAILED.
Break(l) ==
    /\ CanFail
    /\ Works(l)
    /\ link[l].offered > 0
    /\ link' = [link EXCEPT ![l].broken = TRUE]
    /\ UNCHANGED <<sender, thread, main>>

SenderStep(s) == NextChunk(s) \/ WaitFails(s) \/ \E r \in Targets(s) : Connect(s, r) \/ Send(s, r)
ThreadStep(l) == Insert(l) \/ Start(l) \/ Open(l) \/ GotSize(l) \/ GotChunk(l) \/ ReceiveFails(l)
MainStep(r) == Await(r) \/ Join(r) \/ Exit(r)
EngineStep(l) == Deliver(l) \/ Confirm(l)

Steps ==
    \/ \E s \in Senders : SenderStep(s)
    \/ \E l \in Links : ThreadStep(l) \/ EngineStep(l)
    \/ \E r \in Receivers : MainStep(r)

Next ==
    \/ Steps
    \/ \E s \in Senders : SenderSetUpFails(s) \/ \E r \in Targets(s) : SendFails(s, r)
    \/ \E l \in Links : Break(l)
    \/ \E r \in Receivers : ReceiverSetUpFails(r)

\* Threads keep running, and the engine keeps the promise of a live ReliableStream.  No
\* step can be taken twice, so one condition amounts to one for each thread.
FairSpec == Init /\ [][Next]_vars /\ WF_vars(Steps)

(***************************************************************************)
(* Properties.                                                             *)
(***************************************************************************)

\* What a receiver thread has written is a beginning of its sender's file, chunk by
\* chunk in order, and the whole file when the thread has returned 0, although sender()
\* reuses one buffer for all chunks and targets and the threads share one memory pool.
FileIntact ==
    \A l \in Links :
        /\ \A k \in 1..Len(thread[l].file) : thread[l].file[k] = <<l[1], k>>
        /\ thread[l].pc = "done" => Len(thread[l].file) = Chunks[l[1]]

\* cleanup frees the memory pool only when no receiver thread uses it any more, and a
\* thread uses only its own part, inside the pool.
PoolOutlivesThreads ==
    \A r \in Receivers :
        /\ main[r].pc = "exit" => \A l \in LinksTo(r) : thread[l].pc \in Ended \cup {"none"}
        /\ \A l \in LinksTo(r) : thread[l].pc = "wait" => thread[l].index < Files[r]

\* Unless a file, a send or a connection fails, every sender and every receiver returns:
\* none waits for a message, an acknowledgement or a thread that never comes.
AllReturn ==
    <>(~Undisturbed \/ /\ \A s \in Senders : sender[s].pc = "done"
                       /\ \A r \in Receivers : main[r].pc = "exit")
=============================================================================
