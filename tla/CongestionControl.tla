------------------------- MODULE CongestionControl --------------------------
(***************************************************************************)
(* The window arithmetic of a SessionInfo in Context: updateWndOnSuccess,  *)
(* run for every acknowledgement, and the back-off in sendDataPackets, run *)
(* for every retransmitted packet.                                         *)
(*                                                                         *)
(* incr is an unsigned 32-bit number of bytes; its width is a constant     *)
(* here, so that a small instance reaches the end of the range.            *)
(***************************************************************************)
EXTENDS WindowContract

CONSTANTS
    Mtu,            \* mtu_size_
    IncrSpace,      \* number of values of incr, 2^32 in the code
    QueueCapacity,  \* slots of the send queue
    WndSize,        \* PacketManager::kWndSize
    MinRwnd,        \* kMinWindowSize of sendAckPackets (8)
    MaxRwnd         \* the largest window an acknowledgement advertises (65)

ASSUME CongestionAssumption ==
    /\ Mtu \in Nat \ {0}
    /\ QueueCapacity \in Nat \ {0}
    /\ WndSize \in Nat \ {0}
    /\ MinRwnd \in Nat \ {0}
    /\ MaxRwnd \in Nat
    /\ MinRwnd <= MaxRwnd
    /\ IncrSpace \in Nat
    /\ (MaxRwnd + 2) * Mtu <= IncrSpace     \* (cwnd + 1) * mtu_size_ does not wrap

VARIABLES
    cwnd,       \* SessionInfo::cwnd
    incr,       \* SessionInfo::incr
    wnd,        \* wnd_size_ of the send queue
    copy,       \* cwnd of the copy that a pass of sendDataPackets works on; 0: no pass
    left        \* packets of the window that the pass has not reached

windowVars == <<cwnd, incr, wnd, copy, left>>

\* The windows that sendAckPackets advertises.
Rwnds == MinRwnd..MaxRwnd

WindowInit ==
    /\ cwnd = 1
    /\ incr = 0
    /\ wnd = WndSize
    /\ copy = 0
    /\ left = 0

\* SendQueue::setWndSize.
SetWndSize(w) == wnd' = Min2(w, QueueCapacity)

\* Slow start, while cwnd < ssthresh.
SlowStart ==
    /\ cwnd < MinSSThresh
    /\ incr' = (incr + Mtu) % IncrSpace

\* The value of incr after an acknowledgement outside slow start.
GrownIncr ==
    LET base == Max2(incr, Mtu)
    IN  (base + (Mtu * Mtu) \div base + Mtu \div 16) % IncrSpace

\* incr in packets, rounded up.
IncrPackets(bytes) == ((bytes + Mtu - 1) % IncrSpace) \div Mtu

\* Congestion avoidance, from ssthresh on.
Avoidance ==
    /\ cwnd >= MinSSThresh
    /\ incr' = GrownIncr

\* Variant: slow start opens the window by two packets.
GrownWndByTwo ==
    IF cwnd < MinSSThresh THEN cwnd + 2
    ELSE IF (cwnd + 1) * Mtu <= GrownIncr THEN IncrPackets(GrownIncr)
    ELSE cwnd

\* cwnd before it is limited by the advertised window.
GrownWnd ==
    IF cwnd < MinSSThresh THEN cwnd + 1
    ELSE IF (cwnd + 1) * Mtu <= GrownIncr THEN IncrPackets(GrownIncr)
    ELSE cwnd

\* updateWndOnSuccess on an acknowledgement that advertises rwnd.
UpdateWndOnSuccess(rwnd) ==
    /\ copy = 0
    /\ SlowStart \/ Avoidance
    /\ cwnd' = Min2(rwnd, GrownWnd)
    /\ SetWndSize(cwnd')
    /\ UNCHANGED <<copy, left>>

(***************************************************************************)
(* A pass of sendDataPackets.  Its loop iterates over copies of the        *)
(* sessions: each retransmission halves the window of the copy, the copy   *)
(* is dropped, and only the window of the send queue is kept.  A packet    *)
(* that is sent for the first time changes no window.                      *)
(***************************************************************************)
BeginPass ==
    /\ copy = 0
    /\ cwnd > 0
    /\ copy' = cwnd
    /\ left' = cwnd
    /\ UNCHANGED <<cwnd, incr, wnd>>

\* Variant: no lower limit.
HalvedUnlimited(w) == w \div 2 + ResendValue

Halved(w) == Max2(MinSSThresh, w \div 2) + ResendValue

Resend ==
    /\ left > 0
    /\ left' = left - 1
    /\ copy' = Halved(copy)
    /\ SetWndSize(copy')
    /\ UNCHANGED <<cwnd, incr>>

\* The loop has met a packet that has not expired, or the end of the window.
EndPass ==
    /\ copy # 0
    /\ copy' = 0
    /\ left' = 0
    /\ UNCHANGED <<cwnd, incr, wnd>>

SendDataPackets == BeginPass \/ Resend \/ EndPass

WindowNext == (\E rwnd \in Rwnds : UpdateWndOnSuccess(rwnd)) \/ SendDataPackets

WindowSpec == WindowInit /\ [][WindowNext]_windowVars

(***************************************************************************)
(* Properties.                                                             *)
(***************************************************************************)

\* The inductive invariant: the copy of a pass began as the window of the session,
\* and halving has not led it out of the contract.
WindowInv ==
    /\ cwnd \in 0..MaxRwnd
    /\ incr \in 0..(IncrSpace - 1)
    /\ left \in Nat
    /\ copy = 0 => left = 0
    /\ copy # 0 => copy \in BackoffWnds(cwnd) \cup {cwnd}

\* An acknowledgement leads updateWndOnSuccess only to windows that
\* WindowContract allows to a session, also where incr wraps.
SuccessKeepsContract ==
    [][cwnd' # cwnd \/ incr' # incr =>
          /\ \E rwnd \in Rwnds : cwnd' \in SuccessWnds(cwnd, rwnd)
          /\ SetWndSize(cwnd')]_windowVars

\* However often a pass of sendDataPackets halves the window of its copy, the window
\* it leaves in the send queue is one that WindowContract allows.
BackoffKeepsContract ==
    [][Resend => \E w \in BackoffWnds(cwnd) : SetWndSize(w)]_windowVars

\* The congestion window never closes: a session can always send its oldest
\* packet again, so the next acknowledgement can come.
WindowOpen == cwnd > 0

\* However incr and the windows have evolved, acknowledgements open the
\* congestion window again up to what the receiver advertises.
WindowRecovers == []<>(cwnd >= MinRwnd)

\* A pass that retransmits leaves a session above the threshold with a smaller
\* congestion window.
LossShrinksWindow ==
    [][EndPass /\ copy # cwnd /\ cwnd > 2 * (MinSSThresh + ResendValue) => cwnd' < cwnd]_windowVars
=============================================================================
