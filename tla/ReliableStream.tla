--------------------------- MODULE ReliableStream ---------------------------
(***************************************************************************)
(* What one direction of an rdma_unreliable session promises: the          *)
(* fragments that the sending application hands over reach the buffers of  *)
(* the receiving application in order, each once and unaltered, and the    *)
(* sender learns of it.  There is no fabric, no window and no number here. *)
(***************************************************************************)
EXTENDS Integers

CONSTANT NumFragments

VARIABLES
    offered,    \* fragments handed over by the sending application
    wanted,     \* fragments the receiving application has buffers for
    received,   \* the contents of the buffers filled so far, in order
    confirmed   \* fragments the sender knows to have arrived

streamVars == <<offered, wanted, received, confirmed>>

\* The first n fragments of the stream.
Prefix(n) == [i \in 0..(n - 1) |-> i]

StreamInit ==
    /\ offered = 0
    /\ wanted = 0
    /\ received = Prefix(0)
    /\ confirmed = 0

Offer ==
    /\ \E n \in (offered + 1)..NumFragments : offered' = n
    /\ UNCHANGED <<wanted, received, confirmed>>

Want ==
    /\ \E n \in (wanted + 1)..NumFragments : wanted' = n
    /\ UNCHANGED <<offered, received, confirmed>>

Deliver ==
    /\ \E n \in 1..NumFragments :
          /\ n <= offered /\ n <= wanted
          /\ n - 1 \notin DOMAIN received
          /\ received' = Prefix(n)
    /\ UNCHANGED <<offered, wanted, confirmed>>

Confirm ==
    /\ \E n \in (confirmed + 1)..NumFragments :
          /\ n - 1 \in DOMAIN received
          /\ confirmed' = n
    /\ UNCHANGED <<offered, wanted, received>>

StreamNext == Offer \/ Want \/ Deliver \/ Confirm

StreamSafety == StreamInit /\ [][StreamNext]_streamVars

\* Delivery and confirmation are not postponed for ever.
StreamSpec ==
    StreamSafety /\ WF_streamVars(Deliver) /\ WF_streamVars(Confirm)
=============================================================================
