---------------------------- MODULE SerialNumber ----------------------------
(***************************************************************************)
(* Sequence-number arithmetic of the unreliable-datagram (UD) transport.   *)
(*                                                                         *)
(* The queues count packets with 64-bit indices; a packet header carries   *)
(* only SHORT_SN(index), the index modulo SNSpace.  This module holds the  *)
(* three places where the code decides something from short numbers alone: *)
(* SendQueue::markCompleted, ReceiveQueue::markCompleted and getStatus.    *)
(***************************************************************************)
EXTENDS MinMax

CONSTANT SNSpace    \* number of short sequence numbers, 2^24 in the code

ASSUME SNSpaceAssumption == SNSpace \in Nat \ {0}

\* The macro SHORT_SN: the low bits of an index.
SHORT_SN(x) == x % SNSpace

\* Variant: acknowledgements outside the window are not ignored.
AckedTailUnchecked(tail, head, ack_sn) ==
    tail + ((ack_sn - SHORT_SN(tail) + SNSpace) % SNSpace)

(***************************************************************************)
(* The tail a send queue holding indices tail .. head-1 moves to on the    *)
(* cumulative acknowledgement ack_sn, a short number.  Numbers outside the *)
(* window leave the tail alone.                                            *)
(***************************************************************************)
AckedTail(tail, head, ack_sn) ==
    LET t == SHORT_SN(tail)
        h == SHORT_SN(head)
    IN  CASE t <= h /\ t <= ack_sn /\ ack_sn <= h -> tail + (ack_sn - t)
          [] t > h /\ ack_sn <= h                 -> head - (h - ack_sn)
          [] t > h /\ ack_sn >= t                 -> tail + (ack_sn - t)
          [] OTHER                                -> tail

(***************************************************************************)
(* Whether a receive queue with this tail and window looks at a packet     *)
(* numbered sn or drops it.                                                *)
(***************************************************************************)
InReceiveWindow(tail, wnd, sn) ==
    LET wnd_start == SHORT_SN(tail)
        wnd_end   == SHORT_SN(tail + wnd)
    IN  IF wnd_start <= wnd_end
        THEN sn >= wnd_start /\ sn < wnd_end
        ELSE sn >= wnd_start \/ sn < wnd_end

\* Variant: compares with the head instead of the tail.
IsSuccessAtHead(last_sn, ack_sn, next_sn) == last_sn <= next_sn

\* Variant: strict comparisons.
IsSuccessStrict(last_sn, ack_sn, next_sn) ==
    IF ack_sn <= next_sn THEN last_sn < ack_sn ELSE last_sn > next_sn

(***************************************************************************)
(* getStatus: whether the task whose last fragment precedes last_sn is     *)
(* reported SUCCESS by a queue whose short tail is ack_sn and whose short  *)
(* head is next_sn.                                                        *)
(***************************************************************************)
IsSuccess(last_sn, ack_sn, next_sn) ==
    IF ack_sn <= next_sn
    THEN last_sn <= ack_sn
    ELSE last_sn >= next_sn
=============================================================================
