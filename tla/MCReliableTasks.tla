--------------------------- MODULE MCReliableTasks --------------------------
(* Programs of the instances of ReliableTasks that TLC checks. *)
EXTENDS ReliableTasks, TLC

CONSTANTS a, b

Send(size) == [type |-> "SEND", size |-> size]
Receive(size) == [type |-> "RECEIVE", size |-> size]

\* Traffic in both directions, with more requests than fit at once.  The last task
\* of b is larger than the queue pair.
BothWays ==
    a :> <<Send(2), Receive(1), Send(1)>> @@
    b :> <<Receive(1), Receive(2), Send(1), Send(4)>>

\* One direction, in tasks cut differently on the two sides.
OneWay == a :> <<Send(2), Send(1)>> @@ b :> <<Receive(1), Receive(2)>>

\* Both nodes post all their receives before they send.
ReceiveFirst == a :> <<Receive(2), Send(2)>> @@ b :> <<Receive(2), Send(2)>>
=============================================================================
