--------------------------- MODULE WindowContract ---------------------------
(***************************************************************************)
(* What the congestion control of a Context guarantees about the windows   *)
(* it computes.  Session uses these bounds in place of the formulas;       *)
(* CongestionControl has the formulas and is shown to keep the bounds.     *)
(***************************************************************************)
EXTENDS MinMax

CONSTANTS
    MinSSThresh,    \* kMinSSThreshValue (2)
    ResendValue,    \* kResendValue (2)
    IncrMayWrap     \* the session lasts long enough for incr to wrap

ASSUME WindowAssumption ==
    /\ MinSSThresh \in Nat \ {0}
    /\ ResendValue \in 0..MinSSThresh
    /\ IncrMayWrap \in BOOLEAN

(***************************************************************************)
(* updateWndOnSuccess: the congestion windows that an acknowledgement      *)
(* which advertises rwnd can lead to.  The ssthresh of a session keeps its *)
(* initial value kMinSSThreshValue, because sendDataPackets lowers it in a *)
(* copy only.  At the end of its range, incr rounds up to no window.       *)
(***************************************************************************)
SuccessWnds(cwnd, rwnd) ==
    IF cwnd < MinSSThresh
    THEN {Min2(rwnd, cwnd + 1)}
    ELSE (Min2(rwnd, cwnd)..rwnd) \cup (IF IncrMayWrap THEN {0} ELSE {})

(***************************************************************************)
(* sendDataPackets: the windows that the retransmissions of one pass can   *)
(* leave in the send queue.                                                *)
(***************************************************************************)
BackoffWnds(cwnd) ==
    (MinSSThresh + ResendValue)..Max2(MinSSThresh + ResendValue, cwnd)
=============================================================================
