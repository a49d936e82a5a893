------------------------------ MODULE AckPath -------------------------------
(***************************************************************************)
(* The way of an acknowledgement: sendAckPackets fills a header, the       *)
(* fabric carries it, and processReceivedPacket lets it set the            *)
(* retransmission timeout of the context and the window of the session.    *)
(*                                                                         *)
(* The round-trip time is an input: the code takes it from a clock.  A     *)
(* sample is far off when the receiver had nothing to echo, and sends the  *)
(* time stamp zero.                                                        *)
(***************************************************************************)
EXTENDS CongestionControl, PacketHeader

CONSTANTS
    MinRTO,         \* kMinRTO
    MaxRTO,         \* kMaxRTO
    DefaultRTO,     \* kDefaultRTO
    Usual,          \* round-trip times of the fabric
    FarOff          \* the sample of a time stamp of zero

ASSUME RTOAssumption ==
    /\ {MinRTO, MaxRTO, DefaultRTO} \subseteq Nat
    /\ Usual \subseteq Nat
    /\ FarOff \in Nat
    /\ MaxRwnd < HalfWord               \* PktHdr has room for the window

VARIABLES
    srtt,           \* recv_srtt_
    rttval,         \* recv_rttval_
    rto,            \* recv_rto_
    sample          \* the last round-trip time

rtoVars == <<srtt, rttval, rto, sample>>
pathVars == <<windowVars, rtoVars>>

PathInit ==
    /\ WindowInit
    /\ srtt = 0
    /\ rttval = 0
    /\ rto = DefaultRTO
    /\ sample = 0

Distance(x, y) == IF x < y THEN y - x ELSE x - y

\* Variant: the deviation is not smoothed.
UpdateRTOKeeping(rtt) ==
    /\ srtt' = IF srtt = 0 THEN rtt ELSE Max2((7 * srtt + rtt) \div 8, 1)
    /\ rttval' = Max2(rttval, Distance(rtt, srtt))
    /\ rto' = Min2(Max2(MinRTO, srtt' + 4 * rttval'), MaxRTO)
    /\ sample' = rtt

\* updateRTO.
UpdateRTO(rtt) ==
    /\ \/ /\ srtt = 0
          /\ srtt' = rtt
          /\ rttval' = rtt \div 2
       \/ /\ srtt # 0
          /\ rttval' = (3 * rttval + Distance(rtt, srtt)) \div 4
          /\ srtt' = Max2((7 * srtt + rtt) \div 8, 1)
    /\ rto' = Min2(Max2(MinRTO, srtt' + 4 * rttval'), MaxRTO)
    /\ sample' = rtt

\* The window that sendAckPackets advertises, for a receive queue that holds that
\* many packets.
Advertised(queued) == Max2(queued, MinRwnd)

\* sendAckPackets.
AckPacket(queued) == Serialize(Handle(0, Ack, Advertised(queued), 0, 0, FALSE, 0))

\* Receive queues that hold less than the minimum advertise the same.
Queued == (MinRwnd - 1)..MaxRwnd

\* processReceivedPacket on an acknowledgement.
ProcessAck(queued, rtt) ==
    LET a == Arrived(AckPacket(queued))
        h == Deserialize(a)
    IN  /\ Readable(a)
        /\ h.cmd = Ack
        /\ UpdateRTO(rtt)
        /\ UpdateWndOnSuccess(h.wnd)

Pass == SendDataPackets /\ UNCHANGED rtoVars

ProcessAnyAck ==
    \E queued \in Queued, rtt \in Usual \cup {FarOff} : ProcessAck(queued, rtt)

PathNext == ProcessAnyAck \/ Pass

PathSpec == PathInit /\ [][PathNext]_pathVars

\* Acknowledgements keep arriving.  runStep polls for them before each pass, and a pass
\* ends.
FairPathSpec ==
    /\ PathSpec
    /\ SF_pathVars(ProcessAnyAck)
    /\ WF_pathVars(EndPass /\ UNCHANGED rtoVars)

(***************************************************************************)
(* Properties.                                                             *)
(***************************************************************************)

\* The largest usual round-trip time.
MaxUsual == CHOOSE r \in Usual : \A q \in Usual : q <= r

\* However far off the samples of the past were, once only usual ones come updateRTO
\* brings the timeout down to five round-trip times, and keeps it there; and a window
\* that closed when incr wrapped opens again up to what the receiver advertises.
PathRecovers ==
    /\ (<>[](sample \in Usual)) => <>[](rto <= Max2(MinRTO, 5 * MaxUsual))
    /\ WindowRecovers
=============================================================================
