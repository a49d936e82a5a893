--------------------------- MODULE ContextProofs ----------------------------
(***************************************************************************)
(* What the sessions of a Context share.                                   *)
(*                                                                         *)
(* The way of an acknowledgement: a header survives the wire, for every    *)
(* width of its fields, and the windows of a session keep WindowContract,  *)
(* for every MTU, every width of incr and every advertised window.         *)
(*                                                                         *)
(* The queues: the ticket lock excludes, for any number of threads and any *)
(* width of the tickets, and the queue table that it guards keeps one      *)
(* queue for each key.                                                     *)
(***************************************************************************)
EXTENDS AckPath, QueueTable, FiniteSetTheorems, TLAPS

USE Zenon

(***************************************************************************)
(* Headers and windows.                                                    *)
(***************************************************************************)

\* The division of the code: quotient and remainder.
LEMMA DivMod ==
    \A x \in Nat, n \in Nat \ {0} :
        /\ x = n * (x \div n) + (x % n)
        /\ x % n \in 0..(n - 1)
        /\ x \div n \in Nat
  BY SMT

\* The remainder of a number below n, and of one below 2n.
LEMMA ModSmall ==
    \A x \in Nat, n \in Nat \ {0} :
        /\ x < n => x % n = x
        /\ n <= x /\ x < n + n => x % n = x - n
  BY SMT

(***************************************************************************)
(* The header.                                                             *)
(***************************************************************************)

\* A mask keeps what fits.
LEMMA MaskKeeps ==
    \A n \in Nat \ {0} : \A x \in 0..(n - 1) : x % n = x
  BY SMT

\* A shift of a number below m * n leaves a number below m.
LEMMA ShiftFits ==
    ASSUME NEW m \in Nat \ {0}, NEW n \in Nat \ {0}, NEW x \in Nat, x < n * m
    PROVE  x \div n \in 0..(m - 1)
  <1> DEFINE q == x \div n
  <1>1. q \in Nat /\ x >= n * q
    BY SMT, DivMod
  <1>2. SUFFICES ASSUME q >= m PROVE FALSE
    BY SMT, <1>1
  <1>3. n * q >= n * m
    <2>1. q - m \in Nat /\ n \in Nat /\ m \in Nat
      BY SMT, <1>1, <1>2
    <2>2. n * (q - m) \in Nat
      BY SMT, <2>1
    <2>3. n * q = n * m + n * (q - m)
      BY SMT, <1>1, <2>1
    <2> HIDE DEF q
    <2>4. n * m \in Nat
      BY SMT, <2>1
    <2> QED
      BY SMT, <2>2, <2>3, <2>4
  <1> HIDE DEF q
  <1>4. n * m \in Nat /\ n * q \in Nat
    BY SMT, <1>1
  <1> QED
    BY SMT, <1>1, <1>3, <1>4

\* The three bytes of encode give the sequence number back in decode.
LEMMA SequenceNumberKept ==
    ASSUME NEW sn \in Nat, sn < Byte * (Byte * Byte)
    PROVE  sn = (sn % Byte) + Byte * (((sn \div Byte) % Byte)
                                      + Byte * (((sn \div Byte) \div Byte) % Byte))
  <1>1. Byte \in Nat \ {0} /\ Byte * Byte \in Nat \ {0}
    BY SMT, HeaderAssumption
  <1> DEFINE q == sn \div Byte
             p == q \div Byte
  <1>2. q \in 0..(Byte * Byte - 1)
    BY <1>1, ShiftFits
  <1>3. q \in Nat /\ q < Byte * Byte
    BY SMT, <1>1, <1>2
  <1>4. sn = Byte * q + (sn % Byte) /\ sn % Byte \in 0..(Byte - 1)
    BY <1>1, DivMod
  <1> HIDE DEF q
  <1>5. p \in 0..(Byte - 1)
    BY <1>1, <1>3, ShiftFits
  <1>6. q = Byte * p + (q % Byte) /\ q % Byte \in 0..(Byte - 1)
    BY <1>1, <1>3, DivMod
  <1>7. p % Byte = p
    BY <1>1, <1>5, MaskKeeps
  <1>8. Byte * ((q % Byte) + Byte * (p % Byte)) = Byte * q
    <2> HIDE DEF p
    <2>1. (q % Byte) + Byte * p = q
      BY SMT, <1>1, <1>3, <1>5, <1>6
    <2> QED
      BY <2>1, <1>7
  <1>9. sn = (sn % Byte) + Byte * ((q % Byte) + Byte * (p % Byte))
    BY SMT, <1>1, <1>3, <1>4, <1>8
  <1> QED
    BY <1>9 DEF q, p

\* The two halves of encode give the time stamp back in decode.
LEMMA TimeStampKept ==
    ASSUME NEW ts \in Nat, ts < HalfWord * Word
    PROVE  ts = ((ts \div HalfWord) % Word) * HalfWord + (ts % HalfWord)
  <1>1. HalfWord \in Nat \ {0} /\ Word \in Nat \ {0}
    BY HeaderAssumption
  <1> DEFINE q == ts \div HalfWord
  <1>2. q \in 0..(Word - 1)
    BY <1>1, ShiftFits
  <1>3. q % Word = q
    BY <1>1, <1>2, MaskKeeps
  <1>4. ts = HalfWord * q + (ts % HalfWord) /\ ts % HalfWord \in 0..(HalfWord - 1)
    BY <1>1, DivMod
  <1> HIDE DEF q
  <1>5. q \in Nat
    BY SMT, <1>1, <1>2
  <1>6. HalfWord * q = q * HalfWord
    BY SMT, <1>1, <1>5
  <1>7. ts = (q % Word) * HalfWord + (ts % HalfWord)
    BY <1>3, <1>4, <1>6
  <1> QED
    BY <1>7 DEF q

\* The handles whose fields fit their widths in PktHdrImm and PktHdr.
Fits(h) ==
    \E session \in 0..(SessionSpace - 1), cmd \in {Data, Ack}, window \in 0..(HalfWord - 1),
       sn \in Nat, ts \in Nat, len \in Nat :
        /\ sn < Byte * (Byte * Byte)
        /\ ts < HalfWord * Word
        /\ h = Handle(session, cmd, window, sn, ts, FALSE, len)

\* What serialize writes, deserialize reads back: session, command, window, sequence
\* number, time stamp and length, for every width, also when all of the immediate data
\* is zero and is therefore not sent.
THEOREM HeaderRoundTrip ==
    ASSUME NEW h, Fits(h)
    PROVE  /\ Readable(Arrived(Serialize(h)))
           /\ Deserialize(Arrived(Serialize(h))) = h
  <1>1. PICK session \in 0..(SessionSpace - 1), cmd \in {Data, Ack},
             window \in 0..(HalfWord - 1), sn \in Nat, ts \in Nat, len \in Nat :
            /\ sn < Byte * (Byte * Byte)
            /\ ts < HalfWord * Word
            /\ h = Handle(session, cmd, window, sn, ts, FALSE, len)
    BY DEF Fits
  <1> DEFINE a == Arrived(Serialize(h))
             m == IF a.with_imm THEN a.imm ELSE ZeroImm
  <1>2. /\ session % SessionSpace = session
        /\ window % HalfWord = window
    BY HeaderAssumption, MaskKeeps
  <1>3. cmd % 2 = cmd
    BY SMT DEF Data, Ack
  <1>4. /\ a.with_imm = (Imm(h) # ZeroImm)
        /\ a.imm = Imm(h)
        /\ a.hdr = Hdr(h)
        /\ a.bytes = Grh + (HeaderSize + len)
    BY <1>1 DEF Arrived, Serialize, Handle
  <1>5. m = Imm(h)
    BY <1>4
  <1>6. Imm(h) = [session |-> session, cmd |-> cmd, compacted |-> FALSE,
                  sn0 |-> sn % Byte, sn1 |-> (sn \div Byte) % Byte,
                  sn2 |-> ((sn \div Byte) \div Byte) % Byte]
    BY <1>1, <1>2, <1>3 DEF Imm, Handle
  <1>7. Hdr(h) = [wnd |-> window, ts_lo |-> ts % HalfWord, ts_hi |-> (ts \div HalfWord) % Word]
    BY <1>1, <1>2 DEF Hdr, Handle
  <1> HIDE DEF a, m
  <1>8. DecodedSN(m) = sn
    <2>1. m.sn0 = sn % Byte /\ m.sn1 = (sn \div Byte) % Byte
          /\ m.sn2 = ((sn \div Byte) \div Byte) % Byte
      BY SMT, <1>5, <1>6
    <2>2. DecodedSN(m) = (sn % Byte) + Byte * (((sn \div Byte) % Byte)
                                      + Byte * (((sn \div Byte) \div Byte) % Byte))
      BY <2>1, Zenon DEF DecodedSN
    <2> QED
      BY <1>1, <2>2, SequenceNumberKept, Zenon
  <1>9. a.hdr.ts_hi * HalfWord + a.hdr.ts_lo = ts
    <2>1. a.hdr.ts_hi = (ts \div HalfWord) % Word /\ a.hdr.ts_lo = ts % HalfWord
      BY SMT, <1>4, <1>7
    <2> QED
      BY <1>1, <2>1, TimeStampKept, Zenon
  <1>10. a.bytes - HeaderSize - Grh = len /\ a.bytes >= HeaderSize + Grh
    <2>1. a.bytes = Grh + (HeaderSize + len)
      BY <1>4
    <2> QED
      BY SMT, <2>1, HeaderAssumption DEF HeaderSize
  <1>11. /\ m.session = session
         /\ m.cmd = cmd
         /\ m.compacted = FALSE
         /\ a.hdr.wnd = window
    BY SMT, <1>4, <1>5, <1>6, <1>7
  <1>12. Readable(a)
    BY <1>10 DEF Readable
  <1>13. Deserialize(a) = [session |-> m.session, cmd |-> m.cmd,
                           wnd |-> IF m.compacted THEN 0 ELSE a.hdr.wnd,
                           sn |-> DecodedSN(m),
                           ts |-> IF m.compacted THEN 0
                                  ELSE a.hdr.ts_hi * HalfWord + a.hdr.ts_lo,
                           compacted |-> m.compacted,
                           len |-> a.bytes - HeaderSize - Grh]
    BY DEF Deserialize, m
  <1>14. Deserialize(a) = [session |-> session, cmd |-> cmd, wnd |-> window, sn |-> sn,
                           ts |-> ts, compacted |-> FALSE, len |-> len]
    BY <1>8, <1>9, <1>10, <1>11, <1>13
  <1> QED
    BY <1>1, <1>12, <1>14 DEF a, Handle

(***************************************************************************)
(* The windows.                                                            *)
(***************************************************************************)

\* Halving a window leaves it within the bounds, however often it is done.
LEMMA HalvedInBounds ==
    \A c \in Nat : \A w \in BackoffWnds(c) \cup {c} : Halved(w) \in BackoffWnds(c)
  <1> TAKE c \in Nat
  <1> TAKE w \in BackoffWnds(c) \cup {c}
  <1> DEFINE lo == MinSSThresh + ResendValue
  <1>1. /\ MinSSThresh \in Nat \ {0} /\ ResendValue \in Nat /\ ResendValue <= MinSSThresh
    BY SMT, WindowAssumption
  <1>2. w \in Nat /\ w <= Max2(lo, c)
    BY SMT, <1>1 DEF BackoffWnds, Max2
  <1>3. w \div 2 \in Nat /\ 2 * (w \div 2) <= w
    BY SMT, <1>2
  <1> QED
    BY SMT, <1>1, <1>2, <1>3 DEF Halved, BackoffWnds, Max2

\* A window that incr allows to grow does grow, unless rounding up wraps.
LEMMA IncrPacketsGrows ==
    ASSUME NEW c \in Nat, NEW g \in 0..(IncrSpace - 1), (c + 1) * Mtu <= g
    PROVE  IncrPackets(g) = 0 \/ (IncrPackets(g) \in Nat /\ c < IncrPackets(g))
  <1>1. Mtu \in Nat \ {0} /\ IncrSpace \in Nat \ {0} /\ Mtu <= IncrSpace
    <2>1. Mtu \in Nat \ {0} /\ IncrSpace \in Nat /\ MaxRwnd \in Nat
      BY CongestionAssumption
    <2>2. Mtu <= (MaxRwnd + 2) * Mtu
      BY SMT, <2>1
    <2> QED
      BY SMT, <2>1, <2>2, CongestionAssumption
  <1> DEFINE x == g + Mtu - 1
             r == x % IncrSpace
  <1>2. x \in Nat /\ x < IncrSpace + Mtu - 1
    BY SMT, <1>1
  <1>3. CASE x < IncrSpace
    <2>1. r = x
      BY <1>1, <1>2, <1>3, ModSmall
    <2>2. x = Mtu * (x \div Mtu) + (x % Mtu) /\ x % Mtu \in 0..(Mtu - 1) /\ x \div Mtu \in Nat
      BY <1>1, <1>2, DivMod
    <2> DEFINE q == x \div Mtu
    <2>3. (c + 1) * Mtu < Mtu * q + 1
      BY SMT, <1>1, <2>2
    <2> HIDE DEF q
    <2>4. q \in Nat
      BY <2>2 DEF q
    <2>5. c < q
      <3> SUFFICES ASSUME q <= c PROVE FALSE
        BY SMT, <2>4
      <3>1. Mtu * q <= c * Mtu
        BY SMT, <1>1, <2>4
      <3>2. (c + 1) * Mtu = c * Mtu + Mtu
        BY SMT, <1>1
      <3>3. c * Mtu \in Nat /\ Mtu * q \in Nat
        BY SMT, <1>1, <2>4
      <3> QED
        BY SMT, <1>1, <2>3, <3>1, <3>2, <3>3
    <2> QED
      BY <2>1, <2>4, <2>5 DEF IncrPackets, q
  <1>4. CASE IncrSpace <= x
    <2>1. r = x - IncrSpace
      <3> HIDE DEF x
      <3>1. x \in Nat /\ IncrSpace <= x /\ x < IncrSpace + IncrSpace
        BY SMT, <1>1, <1>2, <1>4
      <3> QED
        BY <1>1, <3>1, ModSmall
    <2>2. r \in Nat /\ r < Mtu
      BY SMT, <1>1, <1>2, <1>4, <2>1
    <2> HIDE DEF r
    <2>3. r \div Mtu = 0
      <3>1. r = Mtu * (r \div Mtu) + (r % Mtu) /\ r % Mtu \in 0..(Mtu - 1) /\ r \div Mtu \in Nat
        BY <1>1, <2>2, DivMod
      <3> DEFINE q == r \div Mtu
      <3> HIDE DEF q
      <3>2. q \in Nat /\ Mtu * q <= r
        BY SMT, <1>1, <2>2, <3>1 DEF q
      <3>3. q = 0
        <4> SUFFICES ASSUME q >= 1 PROVE FALSE
          BY SMT, <3>2
        <4>1. Mtu <= Mtu * q
          BY SMT, <1>1, <3>2
        <4> QED
          BY SMT, <1>1, <2>2, <3>2, <4>1
      <3> QED
        BY <3>3 DEF q
    <2> QED
      BY <2>3 DEF IncrPackets, r
  <1> QED
    BY SMT, <1>1, <1>2, <1>3, <1>4

\* Types of the constants.
LEMMA ConstantTypes ==
    /\ MinSSThresh \in Nat \ {0}
    /\ Mtu \in Nat \ {0}
    /\ IncrSpace \in Nat \ {0}
    /\ MinRwnd \in Nat \ {0}
    /\ MaxRwnd \in Nat \ {0}
    /\ MinRwnd <= MaxRwnd
  <1>1. Mtu \in Nat \ {0} /\ IncrSpace \in Nat /\ MaxRwnd \in Nat
    BY CongestionAssumption
  <1>2. Mtu <= (MaxRwnd + 2) * Mtu
    BY SMT, <1>1
  <1> QED
    BY SMT, <1>1, <1>2, WindowAssumption, CongestionAssumption

\* incr stays in its range.
LEMMA GrownIncrType == WindowInv => GrownIncr \in 0..(IncrSpace - 1)
  <1> SUFFICES ASSUME WindowInv
               PROVE  GrownIncr \in 0..(IncrSpace - 1)
    OBVIOUS
  <1> DEFINE base == Max2(incr, Mtu)
             sum == base + (Mtu * Mtu) \div base + Mtu \div 16
  <1>1. base \in Nat \ {0}
    BY SMT, ConstantTypes DEF WindowInv, Max2
  <1>2. Mtu * Mtu \in Nat
    BY SMT, ConstantTypes
  <1>3. (Mtu * Mtu) \div base \in Nat /\ Mtu \div 16 \in Nat
    <2> HIDE DEF base
    <2>1. 16 \in Nat \ {0}
      BY SMT
    <2> QED
      BY <1>1, <1>2, <2>1, ConstantTypes, DivMod
  <1>4. sum \in Nat
    BY SMT, <1>1, <1>3
  <1> HIDE DEF sum
  <1>5. sum % IncrSpace \in 0..(IncrSpace - 1)
    BY <1>4, ConstantTypes, DivMod
  <1> QED
    BY <1>5 DEF sum, GrownIncr

\* The window of updateWndOnSuccess is one of the contract.
LEMMA SuccessInBounds ==
    ASSUME IncrMayWrap, WindowInv, NEW rwnd \in Rwnds, UpdateWndOnSuccess(rwnd)
    PROVE  /\ cwnd' \in SuccessWnds(cwnd, rwnd)
           /\ cwnd' \in 0..MaxRwnd
           /\ SetWndSize(cwnd')
           /\ WindowInv'
  <1>1. rwnd \in Nat \ {0} /\ rwnd <= MaxRwnd /\ cwnd \in Nat
    BY SMT, ConstantTypes DEF Rwnds, WindowInv
  <1>2. cwnd' = Min2(rwnd, GrownWnd) /\ SetWndSize(cwnd')
    BY DEF UpdateWndOnSuccess
  <1>3. \/ cwnd < MinSSThresh /\ GrownWnd = cwnd + 1
        \/ /\ ~(cwnd < MinSSThresh)
           /\ GrownWnd = 0 \/ (GrownWnd \in Nat /\ cwnd <= GrownWnd)
    <2>1. CASE cwnd < MinSSThresh
      BY <2>1 DEF GrownWnd
    <2>2. CASE ~(cwnd < MinSSThresh) /\ (cwnd + 1) * Mtu <= GrownIncr
      <3>1. IncrPackets(GrownIncr) = 0
              \/ (IncrPackets(GrownIncr) \in Nat /\ cwnd < IncrPackets(GrownIncr))
        BY <1>1, <2>2, GrownIncrType, IncrPacketsGrows
      <3> QED
        BY SMT, <1>1, <2>2, <3>1 DEF GrownWnd
    <2>3. CASE ~(cwnd < MinSSThresh) /\ ~((cwnd + 1) * Mtu <= GrownIncr)
      BY SMT, <1>1, <2>3 DEF GrownWnd
    <2> QED
      BY <2>1, <2>2, <2>3
  <1>4. cwnd' \in SuccessWnds(cwnd, rwnd) /\ cwnd' \in 0..MaxRwnd
    BY SMT, <1>1, <1>2, <1>3, ConstantTypes DEF SuccessWnds, Min2
  <1>5. incr' \in 0..(IncrSpace - 1)
    <2>1. CASE SlowStart
      <3>1. incr + Mtu \in Nat
        BY SMT, ConstantTypes DEF WindowInv
      <3> QED
        BY <2>1, <3>1, ConstantTypes, DivMod DEF SlowStart
    <2>2. CASE Avoidance
      BY <2>2, GrownIncrType DEF Avoidance
    <2> QED
      BY <2>1, <2>2 DEF UpdateWndOnSuccess
  <1>6. copy' = 0 /\ left' = 0
    BY DEF UpdateWndOnSuccess, WindowInv
  <1>7. WindowInv'
    BY <1>4, <1>5, <1>6 DEF WindowInv
  <1> QED
    BY <1>2, <1>4, <1>7

\* The steps of a pass stay within the contract.
LEMMA PassInBounds ==
    ASSUME WindowInv, SendDataPackets
    PROVE  /\ WindowInv'
           /\ UNCHANGED <<cwnd, incr>>
           /\ Resend => \E w \in BackoffWnds(cwnd) : SetWndSize(w)
  <1>1. cwnd \in Nat /\ UNCHANGED <<cwnd, incr>>
    BY SMT, ConstantTypes DEF WindowInv, SendDataPackets, BeginPass, Resend, EndPass
  <1>2. BackoffWnds(cwnd)' = BackoffWnds(cwnd)
    BY <1>1 DEF BackoffWnds
  <1>3. ASSUME Resend
        PROVE  WindowInv' /\ \E w \in BackoffWnds(cwnd) : SetWndSize(w)
    <2>1. left > 0 /\ left' = left - 1 /\ copy' = Halved(copy) /\ SetWndSize(copy')
      BY <1>3 DEF Resend
    <2>2. copy # 0 /\ left \in Nat /\ copy \in BackoffWnds(cwnd) \cup {cwnd}
      BY SMT, <2>1 DEF WindowInv
    <2>3. copy' \in BackoffWnds(cwnd)
      BY <1>1, <2>1, <2>2, HalvedInBounds
    <2>4. copy' # 0
      BY SMT, <2>3, WindowAssumption DEF BackoffWnds
    <2>5. left' \in Nat
      BY SMT, <2>1, <2>2
    <2>6. WindowInv'
      BY <1>1, <1>2, <2>3, <2>4, <2>5 DEF WindowInv
    <2> QED
      BY <2>1, <2>3, <2>6
  <1>4. CASE BeginPass
    <2>1. copy' = cwnd /\ left' = cwnd /\ cwnd > 0
      BY <1>4 DEF BeginPass
    <2>2. WindowInv'
      BY <1>1, <1>2, <2>1 DEF WindowInv
    <2> QED
      BY <1>1, <1>3, <2>2
  <1>5. CASE EndPass
    <2>1. copy' = 0 /\ left' = 0
      BY <1>5 DEF EndPass
    <2>2. WindowInv'
      BY <1>1, <2>1 DEF WindowInv
    <2> QED
      BY <1>1, <1>3, <2>2
  <1> QED
    BY <1>1, <1>3, <1>4, <1>5 DEF SendDataPackets

\* The window of an acknowledgement arrives as it was advertised.
LEMMA WindowArrives ==
    ASSUME NEW queued \in Queued
    PROVE  /\ Deserialize(Arrived(AckPacket(queued))).wnd = Advertised(queued)
           /\ Advertised(queued) \in Rwnds
  <1> DEFINE h == Handle(0, Ack, Advertised(queued), 0, 0, FALSE, 0)
  <1>1. /\ queued \in Int /\ queued <= MaxRwnd
        /\ HalfWord \in Nat /\ MaxRwnd < HalfWord
    BY SMT, ConstantTypes, RTOAssumption, HeaderAssumption DEF Queued
  <1>2. Advertised(queued) \in Rwnds
    BY SMT, <1>1, ConstantTypes DEF Advertised, Rwnds, Max2
  <1>3. Advertised(queued) \in 0..(HalfWord - 1)
    BY SMT, <1>1, <1>2, ConstantTypes DEF Rwnds
  <1>4. 0 \in 0..(SessionSpace - 1) /\ Ack \in {Data, Ack}
    BY SMT, HeaderAssumption
  <1>5. 0 < Byte * (Byte * Byte) /\ 0 < HalfWord * Word
    <2>1. \A x, y \in Nat \ {0} : x * y \in Nat \ {0}
      BY SMT
    <2>2. Byte * (Byte * Byte) \in Nat \ {0} /\ HalfWord * Word \in Nat \ {0}
      BY <2>1, HeaderAssumption
    <2> QED
      BY SMT, <2>2
  <1>6. Fits(h)
    BY <1>3, <1>4, <1>5 DEF Fits
  <1>7. Deserialize(Arrived(Serialize(h))) = h
    BY <1>6, HeaderRoundTrip
  <1>8. h.wnd = Advertised(queued)
    BY DEF Handle
  <1> QED
    BY <1>2, <1>7, <1>8 DEF AckPacket

\* Acknowledgements that went through the header are steps of the window arithmetic.
THEOREM PathImplementsCongestion == PathSpec => WindowSpec
  <1>1. PathInit => WindowInit
    BY DEF PathInit
  <1>2. [PathNext]_pathVars => [WindowNext]_windowVars
    <2> SUFFICES ASSUME [PathNext]_pathVars
                 PROVE  [WindowNext]_windowVars
      OBVIOUS
    <2>1. ASSUME NEW queued \in Queued, NEW rtt \in Usual \cup {FarOff}, ProcessAck(queued, rtt)
          PROVE  WindowNext
      <3>1. UpdateWndOnSuccess(Deserialize(Arrived(AckPacket(queued))).wnd)
        BY <2>1 DEF ProcessAck
      <3>2. UpdateWndOnSuccess(Advertised(queued)) /\ Advertised(queued) \in Rwnds
        BY <3>1, WindowArrives
      <3> QED
        BY <3>2 DEF WindowNext
    <2> QED
      BY <2>1 DEF PathNext, ProcessAnyAck, Pass, WindowNext, pathVars
  <1> QED
    BY <1>1, <1>2, PTL DEF PathSpec, WindowSpec

\* The windows that updateWndOnSuccess and the copies of sendDataPackets reach.
THEOREM WindowInvariant ==
    ASSUME IncrMayWrap
    PROVE  WindowSpec => []WindowInv
  <1>1. WindowInit => WindowInv
    BY SMT, ConstantTypes DEF WindowInit, WindowInv
  <1>2. WindowInv /\ [WindowNext]_windowVars => WindowInv'
    <2>1. ASSUME WindowInv, UNCHANGED windowVars PROVE WindowInv'
      BY <2>1 DEF windowVars, WindowInv, BackoffWnds
    <2> QED
      BY <2>1, SuccessInBounds, PassInBounds DEF WindowNext
  <1> QED
    BY <1>1, <1>2, PTL DEF WindowSpec

\* Every step of the window arithmetic that an acknowledgement causes keeps the
\* contract Session relies on, for every MTU and every width of incr, with the window
\* that processReceivedPacket read from the header.
THEOREM SuccessContract ==
    ASSUME IncrMayWrap
    PROVE  PathSpec => SuccessKeepsContract
  <1> DEFINE Kept == cwnd' # cwnd \/ incr' # incr =>
                        /\ \E rwnd \in Rwnds : cwnd' \in SuccessWnds(cwnd, rwnd)
                        /\ SetWndSize(cwnd')
  <1>1. WindowInv /\ [WindowNext]_windowVars => [Kept]_windowVars
    <2> SUFFICES ASSUME WindowInv, WindowNext
                 PROVE  Kept
      OBVIOUS
    <2>1. ASSUME NEW rwnd \in Rwnds, UpdateWndOnSuccess(rwnd)
          PROVE  Kept
      BY <2>1, SuccessInBounds
    <2>2. CASE SendDataPackets
      BY <2>2, PassInBounds
    <2> QED
      BY <2>1, <2>2 DEF WindowNext
  <1> QED
    BY <1>1, WindowInvariant, PathImplementsCongestion, PTL DEF WindowSpec, SuccessKeepsContract

\* The back-off of a pass of sendDataPackets keeps the contract, for every window and
\* any number of retransmissions.
THEOREM BackoffContract ==
    ASSUME IncrMayWrap
    PROVE  PathSpec => BackoffKeepsContract
  <1> DEFINE Kept == Resend => \E w \in BackoffWnds(cwnd) : SetWndSize(w)
  <1>1. WindowInv /\ [WindowNext]_windowVars => [Kept]_windowVars
    BY PassInBounds DEF SendDataPackets
  <1> QED
    BY <1>1, WindowInvariant, PathImplementsCongestion, PTL DEF WindowSpec, BackoffKeepsContract

(***************************************************************************)
(* Distances of tickets.                                                   *)
(***************************************************************************)

\* The bounds on the constants in the form the proofs use.
LEMMA LockConstants ==
    /\ Cardinality(Threads) \in Nat
    /\ TicketSpace \in Nat \ {0}
    /\ MaxStale \in Nat
    /\ MaxStale + Cardinality(Threads) <= TicketSpace
    /\ Cardinality(Threads) < TicketSpace
  BY SMT, SpinlockAssumption, FS_CardinalityType

\* A remainder that is at most one round away.
LEMMA ModNear ==
    \A n \in Nat \ {0} : \A x \in Int :
        /\ 0 <= x /\ x < n => x % n = x
        /\ x = n => x % n = 0
        /\ x < 0 /\ 0 <= x + n => x % n = x + n
  BY SMT

\* The distance of two tickets without the remainder.
LEMMA GapIs ==
    \A x, y \in Tickets : Gap(x, y) = IF y <= x THEN x - y ELSE x - y + TicketSpace
  <1> TAKE x, y \in Tickets
  <1>1. /\ x \in Int /\ 0 <= x /\ x < TicketSpace
        /\ y \in Int /\ 0 <= y /\ y < TicketSpace
    BY SMT, LockConstants DEF Tickets
  <1> DEFINE d == x - y
  <1>2. d \in Int /\ (y <= x => 0 <= d /\ d < TicketSpace)
                  /\ (~(y <= x) => d < 0 /\ 0 <= d + TicketSpace)
    BY SMT, <1>1, LockConstants
  <1>3. Gap(x, y) = d % TicketSpace
    BY DEF Gap
  <1> HIDE DEF d
  <1>4. Gap(x, y) = IF y <= x THEN d ELSE d + TicketSpace
    BY <1>2, <1>3, LockConstants, ModNear
  <1> QED
    BY <1>4 DEF d

\* The 16-bit increment.
LEMMA IncIs ==
    \A x \in Tickets : Inc(x) = IF x + 1 = TicketSpace THEN 0 ELSE x + 1
  <1> TAKE x \in Tickets
  <1> DEFINE d == x + 1
  <1>1. d \in Int /\ 0 < d /\ d <= TicketSpace
    BY SMT, LockConstants DEF Tickets
  <1>2. Inc(x) = d % TicketSpace
    BY DEF Inc
  <1> HIDE DEF d
  <1>3. Inc(x) = IF d = TicketSpace THEN 0 ELSE d
    <2>1. CASE d = TicketSpace
      BY <1>1, <1>2, <2>1, LockConstants, ModNear
    <2>2. CASE d # TicketSpace
      <3>1. TicketSpace \in Nat
        BY LockConstants
      <3>2. 0 <= d /\ d < TicketSpace
        BY SMT, <1>1, <2>2, <3>1
      <3> QED
        BY <1>1, <1>2, <2>2, <3>2, LockConstants, ModNear
    <2> QED
      BY <2>1, <2>2
  <1> QED
    BY <1>3 DEF d

\* Distances and increments are tickets again.
LEMMA GapType ==
    \A x, y \in Tickets : Gap(x, y) \in Tickets /\ Inc(x) \in Tickets
  <1> TAKE x, y \in Tickets
  <1>1. /\ x \in 0..(TicketSpace - 1) /\ y \in 0..(TicketSpace - 1)
        /\ Gap(x, y) = IF y <= x THEN x - y ELSE x - y + TicketSpace
        /\ Inc(x) = IF x + 1 = TicketSpace THEN 0 ELSE x + 1
    BY GapIs, IncIs DEF Tickets
  <1> QED
    BY SMT, <1>1, LockConstants DEF Tickets

\* A distance is a number of acquisitions.
LEMMA GapNat ==
    \A x, y \in Tickets : Gap(x, y) \in Nat /\ Gap(x, y) < TicketSpace
  <1>1. \A x \in Tickets : x \in Nat /\ x < TicketSpace
    BY SMT, LockConstants DEF Tickets
  <1> QED
    BY <1>1, GapType

\* What an increment of either end does to a distance, also across the end of the
\* range.
LEMMA GapSteps ==
    \A x, y \in Tickets :
        /\ Gap(x, y) + 1 < TicketSpace => Gap(Inc(x), y) = Gap(x, y) + 1
        /\ Gap(x, y) > 0 => Gap(x, Inc(y)) = Gap(x, y) - 1
        /\ Gap(Inc(x), Inc(y)) = Gap(x, y)
        /\ Gap(x, y) = 0 <=> x = y
  <1> TAKE x, y \in Tickets
  <1>1. x \in 0..(TicketSpace - 1) /\ y \in 0..(TicketSpace - 1)
    BY DEF Tickets
  <1>2. Inc(x) \in Tickets /\ Inc(y) \in Tickets
    BY GapType
  <1> QED
    BY SMT, <1>1, <1>2, GapIs, IncIs, LockConstants

\* Distances from one ticket tell tickets apart, and add up while they stay within
\* one round.
LEMMA GapAdds ==
    \A x, y, z \in Tickets :
        /\ Gap(x, z) = Gap(y, z) => x = y
        /\ Gap(x, y) + Gap(y, z) < TicketSpace => Gap(x, z) = Gap(x, y) + Gap(y, z)
  <1> TAKE x, y, z \in Tickets
  <1>1. /\ x \in 0..(TicketSpace - 1) /\ y \in 0..(TicketSpace - 1)
        /\ z \in 0..(TicketSpace - 1)
    BY DEF Tickets
  <1> QED
    BY SMT, <1>1, GapIs, LockConstants

(***************************************************************************)
(* Counting threads.                                                       *)
(***************************************************************************)

\* Sets of threads, and what one thread more or less changes.
LEMMA ThreadCounts ==
    \A S \in SUBSET Threads :
        /\ IsFiniteSet(S)
        /\ Cardinality(S) \in Nat
        /\ Cardinality(S) <= Cardinality(Threads)
        /\ Cardinality(S) = 0 <=> S = {}
        /\ \A t \in S : Cardinality(S \ {t}) = Cardinality(S) - 1
        /\ \A t \in Threads \ S : /\ Cardinality(S \cup {t}) = Cardinality(S) + 1
                                 /\ Cardinality(S) < Cardinality(Threads)
  <1> TAKE S \in SUBSET Threads
  <1>1. /\ IsFiniteSet(Threads)
        /\ IsFiniteSet(S)
        /\ Cardinality(S) <= Cardinality(Threads)
    BY SpinlockAssumption, FS_Subset
  <1>2. Cardinality(S) \in Nat /\ (Cardinality(S) = 0 <=> S = {})
    BY <1>1, FS_CardinalityType, FS_EmptySet
  <1>3. \A t \in S : Cardinality(S \ {t}) = Cardinality(S) - 1
    BY <1>1, FS_RemoveElement
  <1>4. ASSUME NEW t \in Threads \ S
        PROVE  /\ Cardinality(S \cup {t}) = Cardinality(S) + 1
               /\ Cardinality(S) < Cardinality(Threads)
    <2>1. Cardinality(S \cup {t}) = Cardinality(S) + 1
      BY <1>1, FS_AddElement
    <2>2. Cardinality(S \cup {t}) <= Cardinality(Threads)
      BY <1>1, FS_Subset, S \cup {t} \in SUBSET Threads
    <2> QED
      BY SMT, <2>1, <2>2, <1>2, LockConstants
  <1> QED
    BY <1>1, <1>2, <1>3, <1>4

\* The fields of the ticket, and the distances the invariant speaks of.
LEMMA TicketTypes ==
    ASSUME TypeOK
    PROVE  /\ ticket.write \in Tickets /\ ticket.read \in Tickets /\ ticket.users \in Tickets
           /\ \A t \in Threads : /\ snap[t].write \in Tickets
                                /\ snap[t].read \in Tickets
                                /\ snap[t].users \in Tickets
           /\ Readers \in SUBSET Threads /\ Writers \in SUBSET Threads
           /\ Waiting \in SUBSET Threads /\ Inside \in SUBSET Threads
           /\ 0 \in Tickets
  BY SMT, LockConstants DEF TypeOK, Ticket, Readers, Writers, Waiting, Inside, Tickets

(***************************************************************************)
(* The steps of the lock.                                                  *)
(***************************************************************************)

\* A load of lock or lockShared copies a ticket that counts right.
LEMMA LoadInv ==
    ASSUME LockInv, NEW t \in Threads, NEW mode \in Trying, Load(t, mode)
    PROVE  LockInv'
  <1>1. /\ pc[t] \in {"idle", "lock", "lockShared"}
        /\ pc' = [pc EXCEPT ![t] = mode]
        /\ snap' = [snap EXCEPT ![t] = ticket]
        /\ ticket' = ticket /\ age' = age
    BY DEF Load, Goto, Again, Trying
  <1>2. TypeOK'
    BY <1>1 DEF LockInv, TypeOK, Trying
  <1>3. /\ Readers' = Readers /\ Writers' = Writers /\ Waiting' = Waiting
        /\ Inside' = Inside /\ t \notin Inside
    BY <1>1 DEF LockInv, TypeOK, Readers, Writers, Waiting, Inside, Trying
  <1>4. Exclusion' /\ TicketsCount'
    BY <1>1, <1>3 DEF LockInv, Exclusion, TicketsCount
  <1>5. InLine'
    BY <1>1, <1>3 DEF LockInv, TypeOK, InLine, Place, Inside, Waiting
  <1>6. Unlocking'
    BY <1>1 DEF LockInv, TypeOK, Unlocking, Trying
  <1>7. Attempts'
    <2> SUFFICES ASSUME NEW u \in Threads
                 PROVE  IF pc'[u] \in Trying
                        THEN /\ Gap(ticket.users, snap'[u].users) = age[u]
                             /\ Gap(snap'[u].read, snap'[u].write) <= Gap(snap'[u].users, snap'[u].write)
                             /\ Gap(snap'[u].users, snap'[u].write) < Cardinality(Threads)
                        ELSE age[u] = 0
      BY <1>1 DEF Attempts, Gap
    <2>1. CASE u # t
      BY <1>1, <2>1 DEF LockInv, TypeOK, Attempts
    <2>2. CASE u = t
      <3>1. snap'[u] = ticket /\ age[u] = 0 /\ pc'[u] \in Trying
        BY <1>1, <2>2 DEF LockInv, TypeOK, Attempts, Trying
      <3>2. Gap(ticket.users, ticket.users) = 0
        BY TicketTypes, GapSteps DEF LockInv
      <3>3. /\ Gap(ticket.read, ticket.write) = Cardinality(Readers)
            /\ Gap(ticket.users, ticket.write) = Cardinality(Inside)
        BY DEF LockInv, TicketsCount, Gap, Inside
      <3>4. /\ Cardinality(Readers) <= Cardinality(Inside)
            /\ Cardinality(Inside) < Cardinality(Threads)
        <4>1. IsFiniteSet(Inside) /\ Readers \in SUBSET Inside /\ t \in Threads \ Inside
          BY <1>3, TicketTypes, ThreadCounts DEF Inside, LockInv
        <4> QED
          BY <4>1, FS_Subset, TicketTypes, ThreadCounts DEF LockInv
      <3> QED
        BY <3>1, <3>2, <3>3, <3>4
    <2> QED
      BY <2>1, <2>2
  <1> QED
    BY <1>2, <1>4, <1>5, <1>6, <1>7 DEF LockInv

\* A failed attempt changes nothing but the place of its thread.
LEMMA RetryInv ==
    ASSUME LockInv, NEW t \in Threads, pc[t] \in Trying, Retry(t)
    PROVE  LockInv'
  <1>1. /\ pc' = [pc EXCEPT ![t] = Again(pc[t])]
        /\ Again(pc[t]) \in {"lock", "lockShared"}
        /\ snap' = [snap EXCEPT ![t] = Zero]
        /\ ticket' = ticket
        /\ age' = [age EXCEPT ![t] = 0]
    BY DEF Retry, Goto, Forget, Again, Trying
  <1>2. TypeOK'
    BY SMT, <1>1, TicketTypes, LockConstants DEF LockInv, TypeOK, Trying, Zero, Ticket
  <1>3. /\ Readers' = Readers /\ Writers' = Writers /\ Waiting' = Waiting
        /\ Inside' = Inside /\ t \notin Inside
    BY <1>1 DEF LockInv, TypeOK, Readers, Writers, Waiting, Inside, Trying
  <1>4. Exclusion' /\ TicketsCount'
    BY <1>1, <1>3 DEF LockInv, Exclusion, TicketsCount
  <1>5. InLine'
    BY <1>1, <1>3 DEF LockInv, TypeOK, InLine, Place, Inside, Waiting
  <1>6. Unlocking'
    BY <1>1 DEF LockInv, TypeOK, Unlocking
  <1>7. Attempts'
    BY <1>1 DEF LockInv, TypeOK, Attempts, Trying, Gap
  <1> QED
    BY <1>2, <1>4, <1>5, <1>6, <1>7 DEF LockInv

\* One acquisition: users moves on by one, and so does the age of the attempts of
\* the other threads.
LEMMA AcquireInv ==
    ASSUME TypeOK, Attempts, NEW t \in Threads, Acquire(t),
           NEW label \in {"waiting", "writing", "reading"}, Goto(t, label),
           NEW s \in Ticket, snap' = [snap EXCEPT ![t] = s],
           ticket' \in Ticket, ticket'.users = Inc(ticket.users)
    PROVE  TypeOK' /\ Attempts'
  <1>1. /\ pc' = [pc EXCEPT ![t] = label]
        /\ \A u \in Threads \ {t} : pc[u] \in Trying => age[u] < MaxStale
        /\ age' = [u \in Threads |-> IF u # t /\ pc[u] \in Trying THEN age[u] + 1 ELSE 0]
    BY DEF Acquire, Goto
  <1>2. \A u \in Threads : age[u] \in Nat /\ age[u] <= MaxStale
    BY SMT, LockConstants DEF TypeOK
  <1>3. age' \in [Threads -> 0..MaxStale]
    BY SMT, <1>1, <1>2, LockConstants
  <1>4. TypeOK'
    BY <1>1, <1>3 DEF TypeOK
  <1>5. ASSUME NEW u \in Threads
        PROVE  IF pc'[u] \in Trying
               THEN /\ Gap(ticket'.users, snap'[u].users) = age'[u]
                    /\ Gap(snap'[u].read, snap'[u].write) <= Gap(snap'[u].users, snap'[u].write)
                    /\ Gap(snap'[u].users, snap'[u].write) < Cardinality(Threads)
               ELSE age'[u] = 0
    <2>1. CASE u = t
      BY <1>1, <2>1 DEF TypeOK, Trying
    <2>2. CASE u # t /\ pc[u] \notin Trying
      BY <1>1, <2>2 DEF TypeOK, Trying
    <2>3. CASE u # t /\ pc[u] \in Trying
      <3>1. /\ pc'[u] = pc[u] /\ snap'[u] = snap[u] /\ age'[u] = age[u] + 1
            /\ age[u] < MaxStale
        BY <1>1, <2>3 DEF TypeOK
      <3>2. /\ Gap(ticket.users, snap[u].users) = age[u]
            /\ Gap(snap[u].read, snap[u].write) <= Gap(snap[u].users, snap[u].write)
            /\ Gap(snap[u].users, snap[u].write) < Cardinality(Threads)
        BY <2>3 DEF Attempts
      <3>3. age[u] + 1 < TicketSpace
        <4>1. Cardinality(Threads) > 0
          BY ThreadCounts, Threads # {}
        <4> QED
          BY SMT, <3>1, <1>2, <4>1, LockConstants
      <3>4. Gap(Inc(ticket.users), snap[u].users) = age[u] + 1
        BY SMT, <3>2, <3>3, GapSteps, TicketTypes
      <3> QED
        BY <3>1, <3>2, <3>4, <2>3
    <2> QED
      BY <2>1, <2>2, <2>3
  <1>6. Attempts'
    BY <1>5 DEF Attempts, Gap
  <1> QED
    BY <1>4, <1>6

\* tryLock: a ticket whose users equals its write belongs to nobody.
LEMMA TryLockInv ==
    ASSUME LockInv, NEW t \in Threads, TryLock(t)
    PROVE  LockInv'
  <1> USE DEF LockInv
  <1>1. CASE Retry(t)
    BY <1>1, RetryInv DEF TryLock, Trying
  <1>2. CASE ~Retry(t)
    <2>1. /\ pc[t] = "tryLock" /\ ticket.users = ticket.write
          /\ Acquire(t) /\ Goto(t, "writing") /\ snap' = [snap EXCEPT ![t] = Zero]
          /\ ticket' = [ticket EXCEPT !.users = Inc(@)]
      BY <1>2 DEF TryLock, Forget
    <2>2. ticket' \in Ticket /\ Zero \in Ticket
      BY <2>1, TicketTypes, GapType DEF Ticket, Zero, TypeOK
    <2>3. TypeOK' /\ Attempts'
      BY <2>1, <2>2, AcquireInv DEF TypeOK, Ticket
    <2>4. Inside = {}
      <3>1. Gap(ticket.users, ticket.write) = 0
        BY <2>1, TicketTypes, GapSteps
      <3> QED
        BY <3>1, TicketTypes, ThreadCounts DEF TicketsCount, Gap, Inside
    <2>5. Readers' = {} /\ Waiting' = {} /\ Writers' = {t} /\ Inside' = {t}
      BY <2>1, <2>4 DEF Goto, TypeOK, Readers, Writers, Waiting, Inside
    <2>6. Exclusion' /\ InLine'
      BY <2>5 DEF Exclusion, InLine
    <2>7. TicketsCount'
      <3>1. Gap(ticket.read, ticket.write) = 0 /\ Gap(ticket.users, ticket.write) = 0
        BY <2>4, FS_EmptySet DEF TicketsCount, Gap, Inside
      <3>2. Gap(Inc(ticket.users), ticket.write) = 1
        <4>1. 1 < TicketSpace
          BY SMT, LockConstants, ThreadCounts, Threads # {}
        <4> QED
          BY SMT, <4>1, <3>1, TicketTypes, GapSteps
      <3>3. Cardinality({t}) = 1 /\ Cardinality({}) = 0
        BY FS_Singleton, FS_EmptySet
      <3> QED
        BY <2>1, <2>5, <3>1, <3>2, <3>3 DEF TicketsCount, Gap, Inside, TypeOK, Ticket
    <2>8. Unlocking'
      <3>1. \A u \in Threads : pc'[u] # "unlocking"
        BY <2>1, <2>4 DEF Goto, TypeOK, Inside, Writers
      <3> QED
        BY <3>1 DEF Unlocking
    <2> QED
      BY <2>3, <2>6, <2>7, <2>8
  <1> QED
    BY <1>1, <1>2

\* tryLockShared: the swap that it makes can only succeed on the ticket that it
\* read, and only readers are inside then.
LEMMA TryLockSharedInv ==
    ASSUME LockInv, NEW t \in Threads, TryLockShared(t)
    PROVE  LockInv'
  <1> USE DEF LockInv
  <1>1. CASE Retry(t)
    BY <1>1, RetryInv DEF TryLockShared, Trying
  <1>2. CASE ~Retry(t)
    <2>1. /\ pc[t] = "tryLockShared" /\ ticket = Expected(snap[t])
          /\ Acquire(t) /\ Goto(t, "reading") /\ snap' = [snap EXCEPT ![t] = Zero]
          /\ ticket' = [snap[t] EXCEPT !.read = Inc(@), !.users = Inc(@)]
      BY <1>2 DEF TryLockShared, Forget
    <2>2. /\ ticket.write = snap[t].write /\ ticket.read = snap[t].read
          /\ ticket.users = snap[t].read
      BY <2>1 DEF Expected, TypeOK, Ticket
    <2>3. snap[t].users = ticket.users /\ Gap(ticket.users, ticket.write) = Gap(ticket.read, ticket.write)
      <3>1. /\ Gap(ticket.users, snap[t].users) = age[t]
            /\ Gap(snap[t].read, snap[t].write) <= Gap(snap[t].users, snap[t].write)
            /\ Gap(snap[t].users, snap[t].write) < Cardinality(Threads)
        BY <2>1 DEF Attempts, Trying
      <3>2. age[t] \in Nat /\ age[t] <= MaxStale
        BY SMT, LockConstants DEF TypeOK
      <3>3. /\ Gap(snap[t].users, snap[t].write) \in Nat
            /\ Gap(snap[t].read, snap[t].write) \in Nat
        BY TicketTypes, GapNat
      <3>4. Gap(ticket.users, snap[t].users) + Gap(snap[t].users, snap[t].write) < TicketSpace
        BY SMT, <3>1, <3>2, <3>3, LockConstants
      <3>5. Gap(ticket.users, snap[t].write) = age[t] + Gap(snap[t].users, snap[t].write)
        BY SMT, <3>1, <3>4, TicketTypes, GapAdds
      <3>6. age[t] = 0
        BY SMT, <3>1, <3>2, <3>3, <3>5, <2>2
      <3> QED
        BY <3>1, <3>6, <2>2, TicketTypes, GapSteps
    <2>4. Readers = Inside /\ Writers = {} /\ Waiting = {} /\ t \notin Inside
      <3>1. Cardinality(Readers) = Cardinality(Inside)
        BY <2>3 DEF TicketsCount, Gap, Inside
      <3>2. Readers = Inside
        BY <3>1, TicketTypes, ThreadCounts, FS_Subset DEF Inside
      <3> QED
        BY <2>1, <3>2 DEF Inside, Readers, Writers, Waiting
    <2>5. ticket' = [ticket EXCEPT !.read = Inc(@), !.users = Inc(@)]
      BY <2>1, <2>2, <2>3 DEF TypeOK, Ticket
    <2>6. ticket' \in Ticket /\ Zero \in Ticket
      BY <2>5, TicketTypes, GapType DEF Ticket, Zero, TypeOK
    <2>7. TypeOK' /\ Attempts'
      BY <2>1, <2>5, <2>6, AcquireInv DEF TypeOK, Ticket
    <2>8. /\ Readers' = Readers \cup {t} /\ Waiting' = {} /\ Writers' = {}
          /\ Inside' = Inside \cup {t}
      BY SMT, <2>1, <2>4 DEF Goto, TypeOK, Readers, Writers, Waiting, Inside
    <2>9. Exclusion' /\ InLine'
      BY <2>8 DEF Exclusion, InLine
    <2>10. TicketsCount'
      <3>1. /\ Gap(ticket.read, ticket.write) = Cardinality(Readers)
            /\ Gap(ticket.users, ticket.write) = Cardinality(Readers)
        BY <2>3 DEF TicketsCount, Gap
      <3>2. /\ Cardinality(Readers \cup {t}) = Cardinality(Readers) + 1
            /\ Cardinality(Readers) < Cardinality(Threads)
            /\ Cardinality(Readers) \in Nat
        BY <2>4, TicketTypes, ThreadCounts
      <3>3. /\ Gap(Inc(ticket.read), ticket.write) = Cardinality(Readers) + 1
            /\ Gap(Inc(ticket.users), ticket.write) = Cardinality(Readers) + 1
        BY SMT, <3>1, <3>2, LockConstants, TicketTypes, GapSteps
      <3> QED
        BY <2>4, <2>5, <2>8, <3>2, <3>3 DEF TicketsCount, Gap, Inside, TypeOK, Ticket
    <2>11. Unlocking'
      <3>1. \A u \in Threads : pc'[u] # "unlocking"
        BY <2>1, <2>4 DEF Goto, TypeOK, Writers
      <3> QED
        BY <3>1 DEF Unlocking
    <2> QED
      BY <2>7, <2>9, <2>10, <2>11
  <1> QED
    BY <1>1, <1>2

\* A ticket is drawn behind everyone inside.
LEMMA TakeTicketInv ==
    ASSUME LockInv, NEW t \in Threads, TakeTicket(t)
    PROVE  LockInv'
  <1> USE DEF LockInv
  <1>1. /\ pc[t] = "idle" /\ Acquire(t) /\ Goto(t, "waiting")
        /\ snap' = [snap EXCEPT ![t] = ticket]
        /\ ticket' = [ticket EXCEPT !.users = Inc(@)]
    BY DEF TakeTicket
  <1>2. ticket' \in Ticket /\ ticket \in Ticket
    BY <1>1, TicketTypes, GapType DEF Ticket, TypeOK
  <1>3. TypeOK' /\ Attempts'
    BY <1>1, <1>2, AcquireInv DEF TypeOK, Ticket
  <1>4. /\ Readers' = Readers /\ Writers' = Writers /\ Waiting' = Waiting \cup {t}
        /\ Inside' = Inside \cup {t} /\ t \notin Inside
    BY <1>1 DEF Goto, TypeOK, Readers, Writers, Waiting, Inside
  <1>5. /\ Gap(ticket.users, ticket.write) = Cardinality(Inside)
        /\ Gap(ticket.read, ticket.write) = Cardinality(Readers)
    BY DEF TicketsCount, Gap, Inside
  <1>6. /\ Cardinality(Inside \cup {t}) = Cardinality(Inside) + 1
        /\ Cardinality(Inside) < Cardinality(Threads)
        /\ Cardinality(Inside) \in Nat
    BY <1>4, TicketTypes, ThreadCounts
  <1>7. Exclusion'
    BY <1>4 DEF Exclusion
  <1>8. TicketsCount'
    <2>1. Gap(Inc(ticket.users), ticket.write) = Cardinality(Inside) + 1
      BY SMT, <1>5, <1>6, LockConstants, TicketTypes, GapSteps
    <2> QED
      BY <1>1, <1>4, <1>5, <1>6, <2>1 DEF TicketsCount, Gap, Inside, TypeOK, Ticket
  <1>9. InLine'
    <2>1. \A u \in Waiting : /\ snap'[u] = snap[u]
                             /\ Gap(snap'[u].users, ticket'.write) = Place(u)
      BY SMT, <1>1, <1>4, TicketTypes DEF Place, TypeOK, Ticket, Inside, Waiting
    <2>2. snap'[t] = ticket /\ Gap(snap'[t].users, ticket'.write) = Cardinality(Inside)
      BY <1>1, <1>5 DEF TypeOK, Ticket
    <2>3. \A u \in Waiting : /\ Cardinality(Readers \cup Writers) <= Place(u)
                             /\ Place(u) < Cardinality(Inside)
                             /\ Place(u) \in Nat
      BY TicketTypes, GapNat DEF InLine, Place, Waiting
    <2>4. Cardinality(Readers \cup Writers) <= Cardinality(Inside)
      BY TicketTypes, ThreadCounts, FS_Subset DEF Inside
    <2>5. \A u \in Waiting : snap[u].users # ticket.users
      BY SMT, <2>3, <1>5, <1>6 DEF Place
    <2>6. \A u \in Waiting' :
              /\ Cardinality(Readers' \cup Writers') <= Gap(snap'[u].users, ticket'.write)
              /\ Gap(snap'[u].users, ticket'.write) < Cardinality(Inside')
      <3> SUFFICES ASSUME NEW u \in Waiting \cup {t}
                   PROVE  /\ Cardinality(Readers \cup Writers) <= Gap(snap'[u].users, ticket'.write)
                          /\ Gap(snap'[u].users, ticket'.write) < Cardinality(Inside) + 1
        BY <1>4, <1>6
      <3>1. CASE u = t
        BY SMT, <3>1, <1>6, <2>2, <2>4
      <3>2. CASE u \in Waiting
        <4>1. /\ Gap(snap'[u].users, ticket'.write) = Place(u)
              /\ Cardinality(Readers \cup Writers) <= Place(u)
              /\ Place(u) < Cardinality(Inside)
              /\ Place(u) \in Nat
          BY <3>2, <2>1, <2>3
        <4> QED
          BY SMT, <4>1, <1>6
      <3> QED
        BY <3>1, <3>2
    <2>7. \A u, v \in Waiting' : snap'[u].users = snap'[v].users => u = v
      BY SMT, <1>4, <2>1, <2>2, <2>5 DEF InLine
    <2> QED
      BY <2>6, <2>7 DEF InLine, Place, Gap
  <1>10. Unlocking'
    BY <1>1 DEF Unlocking, Goto, TypeOK, Ticket
  <1> QED
    BY <1>3, <1>7, <1>8, <1>9, <1>10

\* The steps of a thread that has a ticket leave users alone.
LEMMA HolderInv ==
    ASSUME TypeOK, Attempts, NEW t \in Threads, pc[t] \notin Trying,
           NEW label \in {"idle", "writing", "unlocking", "reading"}, Goto(t, label),
           NEW s \in Ticket, snap' = [snap EXCEPT ![t] = s], age' = age,
           ticket' \in Ticket, ticket'.users = ticket.users
    PROVE  TypeOK' /\ Attempts'
  <1>1. TypeOK'
    BY DEF TypeOK, Goto
  <1>2. \A u \in Threads :
            /\ pc'[u] \in Trying <=> pc[u] \in Trying
            /\ pc[u] \in Trying => snap'[u] = snap[u]
    BY DEF TypeOK, Goto, Trying
  <1>3. Attempts'
    BY <1>2 DEF Attempts, Gap
  <1> QED
    BY <1>1, <1>3

\* The turn of a ticket comes when nobody is before it.
LEMMA AwaitTurnInv ==
    ASSUME LockInv, NEW t \in Threads, AwaitTurn(t)
    PROVE  LockInv'
  <1> USE DEF LockInv
  <1>1. /\ pc[t] = "waiting" /\ snap[t].users = ticket.write
        /\ Goto(t, "writing") /\ snap' = [snap EXCEPT ![t] = Zero]
        /\ ticket' = ticket /\ age' = age
    BY DEF AwaitTurn, Forget
  <1>2. ticket' \in Ticket /\ Zero \in Ticket
    BY <1>1, TicketTypes DEF Ticket, Zero, TypeOK
  <1>3. TypeOK' /\ Attempts'
    BY <1>1, <1>2, HolderInv DEF Trying
  <1>4. Readers \cup Writers = {}
    <2>1. t \in Waiting /\ Place(t) = 0
      BY <1>1, TicketTypes, GapSteps DEF Waiting, Place
    <2>2. Cardinality(Readers \cup Writers) <= 0
      BY <2>1 DEF InLine
    <2> QED
      BY SMT, <2>2, TicketTypes, ThreadCounts, Readers \cup Writers \in SUBSET Threads
  <1>5. /\ Readers' = {} /\ Writers' = {t} /\ Waiting' = Waiting \ {t} /\ Inside' = Inside
    BY <1>1, <1>4 DEF Goto, TypeOK, Readers, Writers, Waiting, Inside
  <1>6. Exclusion'
    BY <1>5 DEF Exclusion
  <1>7. TicketsCount'
    <2>1. Readers' = Readers
      BY <1>4, <1>5
    <2> QED
      BY <1>1, <1>5, <2>1 DEF TicketsCount, Inside
  <1>8. InLine'
    <2>1. ASSUME NEW u \in Waiting'
          PROVE  /\ snap'[u] = snap[u]
                 /\ 1 <= Place(u)
                 /\ Place(u) < Cardinality(Inside)
      <3>1. u \in Waiting /\ u # t /\ u \in Threads /\ t \in Waiting
        BY <1>1, <1>5 DEF Waiting
      <3>2. snap[u].users # ticket.write
        BY <3>1, <1>1 DEF InLine
      <3>3. Place(u) \in Nat /\ Place(u) # 0
        BY SMT, <3>1, <3>2, TicketTypes, GapNat, GapSteps DEF Place
      <3>4. Place(u) < Cardinality(Inside)
        BY <3>1 DEF InLine
      <3> QED
        BY SMT, <1>1, <3>1, <3>3, <3>4 DEF TypeOK
    <2>2. Cardinality(Readers' \cup Writers') = 1
      BY <1>5, FS_Singleton, {} \cup {t} = {t}
    <2>3. \A u \in Waiting' :
              /\ Cardinality(Readers' \cup Writers') <= Gap(snap'[u].users, ticket'.write)
              /\ Gap(snap'[u].users, ticket'.write) < Cardinality(Inside')
      BY <1>1, <1>5, <2>1, <2>2 DEF Place
    <2>4. \A u, v \in Waiting' : snap'[u].users = snap'[v].users => u = v
      BY SMT, <1>5, <2>1 DEF InLine
    <2> QED
      BY <2>3, <2>4 DEF InLine, Place, Gap
  <1>9. Unlocking'
    <2>1. \A u \in Threads : pc'[u] # "unlocking"
      BY <1>1, <1>4 DEF Goto, TypeOK, Writers
    <2> QED
      BY <2>1 DEF Unlocking
  <1> QED
    BY <1>3, <1>6, <1>7, <1>8, <1>9

\* unlock loads the ticket.
LEMMA LoadToUnlockInv ==
    ASSUME LockInv, NEW t \in Threads, LoadToUnlock(t)
    PROVE  LockInv'
  <1> USE DEF LockInv
  <1>1. /\ pc[t] = "writing" /\ Goto(t, "unlocking")
        /\ snap' = [snap EXCEPT ![t] = ticket]
        /\ ticket' = ticket /\ age' = age
    BY DEF LoadToUnlock
  <1>2. ticket' \in Ticket /\ ticket \in Ticket
    BY <1>1 DEF TypeOK
  <1>3. TypeOK' /\ Attempts'
    BY <1>1, <1>2, HolderInv DEF Trying
  <1>4. /\ Readers' = Readers /\ Writers' = Writers /\ Waiting' = Waiting /\ Inside' = Inside
        /\ t \notin Waiting
    BY <1>1 DEF Goto, TypeOK, Readers, Writers, Waiting, Inside
  <1>5. Exclusion' /\ TicketsCount'
    BY <1>1, <1>4 DEF Exclusion, TicketsCount
  <1>6. InLine'
    <2>1. \A u \in Waiting : snap'[u] = snap[u]
      BY <1>1, <1>4 DEF TypeOK, Waiting
    <2>2. \A u \in Waiting' :
              /\ Cardinality(Readers' \cup Writers') <= Gap(snap'[u].users, ticket'.write)
              /\ Gap(snap'[u].users, ticket'.write) < Cardinality(Inside')
      BY <1>1, <1>4, <2>1 DEF InLine, Place
    <2>3. \A u, v \in Waiting' : snap'[u].users = snap'[v].users => u = v
      BY SMT, <1>4, <2>1 DEF InLine
    <2> QED
      BY <2>2, <2>3 DEF InLine, Place, Gap
  <1>7. Unlocking'
    BY <1>1 DEF Unlocking, Goto, TypeOK
  <1> QED
    BY <1>3, <1>5, <1>6, <1>7

\* The two stores of unlock: no reader came or went since the load, so they count
\* out exactly the writer.
LEMMA UnlockInv ==
    ASSUME LockInv, NEW t \in Threads, Unlock(t)
    PROVE  LockInv'
  <1> USE DEF LockInv
  <1>1. /\ pc[t] = "unlocking" /\ Goto(t, "idle")
        /\ snap' = [snap EXCEPT ![t] = Zero] /\ age' = age
        /\ ticket' = [ticket EXCEPT !.write = Inc(ticket.write), !.read = Inc(ticket.read)]
    BY DEF Unlock, Forget, Unlocking
  <1>2. ticket' \in Ticket /\ Zero \in Ticket
    BY <1>1, TicketTypes, GapType DEF Ticket, Zero, TypeOK
  <1>3. TypeOK' /\ Attempts'
    BY <1>1, <1>2, HolderInv DEF Trying, TypeOK, Ticket
  <1>4. Readers = {} /\ Writers = {t}
    BY <1>1 DEF Exclusion, Writers
  <1>5. /\ Readers' = {} /\ Writers' = {} /\ Waiting' = Waiting
        /\ Inside' = Inside \ {t} /\ t \in Inside /\ t \notin Waiting
    BY SMT, <1>1, <1>4 DEF Goto, TypeOK, Readers, Writers, Waiting, Inside
  <1>6. /\ ticket'.write = Inc(ticket.write) /\ ticket'.read = Inc(ticket.read)
        /\ ticket'.users = ticket.users
    BY <1>1 DEF TypeOK, Ticket
  <1>7. /\ Cardinality(Inside') = Cardinality(Inside) - 1
        /\ Cardinality(Inside) > 0
        /\ Cardinality(Inside) \in Nat
    BY SMT, <1>5, TicketTypes, ThreadCounts
  <1>8. Exclusion'
    BY <1>5 DEF Exclusion
  <1>9. TicketsCount'
    <2>1. Gap(ticket'.read, ticket'.write) = Cardinality(Readers)
      BY SMT, <1>6, TicketTypes, GapSteps DEF TicketsCount, Gap
    <2>2. Gap(ticket'.users, ticket'.write) = Cardinality(Inside) - 1
      <3>1. Gap(ticket.users, ticket.write) = Cardinality(Inside)
        BY DEF TicketsCount, Gap, Inside
      <3> QED
        BY SMT, <1>6, <1>7, <3>1, TicketTypes, GapSteps
    <2> QED
      BY <1>4, <1>5, <1>7, <2>1, <2>2 DEF TicketsCount, Gap, Inside
  <1>10. InLine'
    <2>1. Cardinality(Readers \cup Writers) = 1 /\ Cardinality(Readers' \cup Writers') = 0
      BY <1>4, <1>5, FS_Singleton, FS_EmptySet, {} \cup {t} = {t}, {} \cup {} = {}
    <2>2. ASSUME NEW u \in Waiting
          PROVE  /\ snap'[u] = snap[u]
                 /\ 0 <= Gap(snap'[u].users, ticket'.write)
                 /\ Gap(snap'[u].users, ticket'.write) < Cardinality(Inside) - 1
      <3>1. u \in Threads /\ u # t
        BY <1>5 DEF Waiting
      <3>2. Place(u) \in Nat /\ 1 <= Place(u) /\ Place(u) < Cardinality(Inside)
        BY <3>1, <2>1, TicketTypes, GapNat DEF InLine, Place
      <3>3. Gap(snap[u].users, Inc(ticket.write)) = Place(u) - 1
        BY SMT, <3>1, <3>2, TicketTypes, GapSteps DEF Place
      <3>4. snap'[u] = snap[u]
        BY <1>1, <3>1 DEF TypeOK
      <3> QED
        BY SMT, <3>2, <3>3, <3>4, <1>6, <1>7
    <2>3. \A u \in Waiting' :
              /\ Cardinality(Readers' \cup Writers') <= Gap(snap'[u].users, ticket'.write)
              /\ Gap(snap'[u].users, ticket'.write) < Cardinality(Inside')
      BY <1>5, <1>7, <2>1, <2>2
    <2>4. \A u, v \in Waiting' : snap'[u].users = snap'[v].users => u = v
      BY SMT, <1>5, <2>2 DEF InLine
    <2> QED
      BY <2>3, <2>4 DEF InLine, Place, Gap
  <1>11. Unlocking'
    <2>1. \A u \in Threads : pc'[u] # "unlocking"
      BY <1>1, <1>4 DEF Goto, TypeOK, Writers
    <2> QED
      BY <2>1 DEF Unlocking
  <1> QED
    BY <1>3, <1>8, <1>9, <1>10, <1>11

\* A writer becomes a reader in one store.
LEMMA UnlockAndLockSharedInv ==
    ASSUME LockInv, NEW t \in Threads, UnlockAndLockShared(t)
    PROVE  LockInv'
  <1> USE DEF LockInv
  <1>1. /\ pc[t] = "writing" /\ Goto(t, "reading")
        /\ snap' = snap /\ age' = age
        /\ ticket' = [ticket EXCEPT !.read = Inc(ticket.read)]
    BY DEF UnlockAndLockShared
  <1>2. ticket' \in Ticket /\ snap[t] \in Ticket /\ snap' = [snap EXCEPT ![t] = snap[t]]
    BY <1>1, TicketTypes, GapType DEF Ticket, TypeOK
  <1>3. TypeOK' /\ Attempts'
    BY <1>1, <1>2, HolderInv DEF Trying, TypeOK, Ticket
  <1>4. Readers = {} /\ Writers = {t}
    BY <1>1 DEF Exclusion, Writers
  <1>5. /\ Readers' = {t} /\ Writers' = {} /\ Waiting' = Waiting
        /\ Inside' = Inside
    BY <1>1, <1>4 DEF Goto, TypeOK, Readers, Writers, Waiting, Inside
  <1>6. /\ ticket'.write = ticket.write /\ ticket'.read = Inc(ticket.read)
        /\ ticket'.users = ticket.users
    BY <1>1 DEF TypeOK, Ticket
  <1>7. Exclusion'
    BY <1>5 DEF Exclusion
  <1>8. TicketsCount'
    <2>1. Gap(ticket.read, ticket.write) = 0
      BY <1>4, FS_EmptySet DEF TicketsCount, Gap
    <2>2. 1 < TicketSpace
      BY SMT, LockConstants, ThreadCounts, Threads # {}
    <2>3. Gap(ticket'.read, ticket'.write) = Cardinality({t})
      <3>1. Gap(Inc(ticket.read), ticket.write) = 1
        BY SMT, <2>1, <2>2, TicketTypes, GapSteps
      <3>2. Cardinality({t}) = 1
        BY FS_Singleton
      <3> QED
        BY <1>6, <3>1, <3>2
    <2>4. Gap(ticket'.users, ticket'.write) = Cardinality(Inside)
      BY <1>6 DEF TicketsCount, Gap, Inside
    <2> QED
      BY <1>5, <2>3, <2>4 DEF TicketsCount, Gap, Inside
  <1>9. InLine'
    <2>1. \A u \in Waiting' :
              /\ Cardinality(Readers' \cup Writers') <= Gap(snap'[u].users, ticket'.write)
              /\ Gap(snap'[u].users, ticket'.write) < Cardinality(Inside')
      <3>1. Readers' \cup Writers' = Readers \cup Writers
        BY <1>4, <1>5
      <3> QED
        BY <3>1, <1>1, <1>5, <1>6 DEF InLine, Place
    <2>2. \A u, v \in Waiting' : snap'[u].users = snap'[v].users => u = v
      BY <1>1, <1>5 DEF InLine
    <2> QED
      BY <2>1, <2>2 DEF InLine, Place, Gap
  <1>10. Unlocking'
    <2>1. \A u \in Threads : pc'[u] # "unlocking"
      BY <1>1, <1>4 DEF Goto, TypeOK, Writers
    <2> QED
      BY <2>1 DEF Unlocking
  <1> QED
    BY <1>3, <1>7, <1>8, <1>9, <1>10

\* A reader leaves: everyone behind it moves up by one.
LEMMA UnlockSharedInv ==
    ASSUME LockInv, NEW t \in Threads, UnlockShared(t)
    PROVE  LockInv'
  <1> USE DEF LockInv
  <1>1. /\ pc[t] = "reading" /\ Goto(t, "idle")
        /\ snap' = snap /\ age' = age
        /\ ticket' = [ticket EXCEPT !.write = Inc(ticket.write)]
    BY DEF UnlockShared
  <1>2. ticket' \in Ticket /\ snap[t] \in Ticket /\ snap' = [snap EXCEPT ![t] = snap[t]]
    BY <1>1, TicketTypes, GapType DEF Ticket, TypeOK
  <1>3. TypeOK' /\ Attempts'
    BY <1>1, <1>2, HolderInv DEF Trying, TypeOK, Ticket
  <1>4. t \in Readers /\ Writers = {}
    BY <1>1 DEF Exclusion, Readers
  <1>5. /\ Readers' = Readers \ {t} /\ Writers' = {} /\ Waiting' = Waiting
        /\ Inside' = Inside \ {t} /\ t \in Inside /\ t \notin Waiting
    BY <1>1, <1>4 DEF Goto, TypeOK, Readers, Writers, Waiting, Inside
  <1>6. /\ ticket'.write = Inc(ticket.write) /\ ticket'.read = ticket.read
        /\ ticket'.users = ticket.users
    BY <1>1 DEF TypeOK, Ticket
  <1>7. /\ Cardinality(Inside') = Cardinality(Inside) - 1
        /\ Cardinality(Inside) > 0
        /\ Cardinality(Inside) \in Nat
        /\ Cardinality(Readers') = Cardinality(Readers) - 1
        /\ Cardinality(Readers) > 0
        /\ Cardinality(Readers) \in Nat
    BY SMT, <1>4, <1>5, TicketTypes, ThreadCounts
  <1>8. Exclusion'
    BY <1>5 DEF Exclusion
  <1>9. TicketsCount'
    <2>1. Gap(ticket'.read, ticket'.write) = Cardinality(Readers) - 1
      <3>1. Gap(ticket.read, ticket.write) = Cardinality(Readers)
        BY DEF TicketsCount, Gap
      <3> QED
        BY SMT, <1>6, <1>7, <3>1, TicketTypes, GapSteps
    <2>2. Gap(ticket'.users, ticket'.write) = Cardinality(Inside) - 1
      <3>1. Gap(ticket.users, ticket.write) = Cardinality(Inside)
        BY DEF TicketsCount, Gap, Inside
      <3> QED
        BY SMT, <1>6, <1>7, <3>1, TicketTypes, GapSteps
    <2> QED
      BY <1>7, <2>1, <2>2 DEF TicketsCount, Gap, Inside
  <1>10. InLine'
    <2>1. /\ Readers \cup Writers = Readers /\ Readers' \cup Writers' = Readers'
      BY <1>4, <1>5
    <2>2. ASSUME NEW u \in Waiting
          PROVE  /\ Cardinality(Readers') <= Gap(snap'[u].users, ticket'.write)
                 /\ Gap(snap'[u].users, ticket'.write) < Cardinality(Inside')
      <3>1. u \in Threads
        BY DEF Waiting
      <3>2. Place(u) \in Nat /\ Cardinality(Readers) <= Place(u) /\ Place(u) < Cardinality(Inside)
        BY <3>1, <2>1, TicketTypes, GapNat DEF InLine, Place
      <3>3. Place(u) > 0
        BY SMT, <3>2, <1>7
      <3>4. Gap(snap[u].users, Inc(ticket.write)) = Place(u) - 1
        BY <3>1, <3>3, TicketTypes, GapSteps DEF Place
      <3> QED
        BY SMT, <3>2, <3>4, <1>1, <1>6, <1>7
    <2>3. \A u \in Waiting' :
              /\ Cardinality(Readers' \cup Writers') <= Gap(snap'[u].users, ticket'.write)
              /\ Gap(snap'[u].users, ticket'.write) < Cardinality(Inside')
      BY <1>5, <2>1, <2>2
    <2>4. \A u, v \in Waiting' : snap'[u].users = snap'[v].users => u = v
      BY <1>1, <1>5 DEF InLine
    <2> QED
      BY <2>3, <2>4 DEF InLine, Place, Gap
  <1>11. Unlocking'
    <2>1. \A u \in Threads : pc'[u] # "unlocking"
      BY <1>1, <1>4 DEF Goto, TypeOK, Writers
    <2> QED
      BY <2>1 DEF Unlocking
  <1> QED
    BY <1>3, <1>8, <1>9, <1>10, <1>11

\* The lock starts free.
LEMMA LockInit ==
    ASSUME Init
    PROVE  LockInv
  <1>1. TypeOK
    BY SMT, LockConstants DEF Init, TypeOK, Ticket, Tickets, Zero
  <1>2. Readers = {} /\ Writers = {} /\ Waiting = {} /\ Inside = {}
    BY DEF Init, Readers, Writers, Waiting, Inside
  <1>3. Gap(0, 0) = 0
    BY TicketTypes, <1>1, GapSteps
  <1>4. TicketsCount
    BY <1>2, <1>3, FS_EmptySet DEF Init, Zero, TicketsCount, Gap, Inside
  <1>5. Exclusion /\ InLine
    BY <1>2 DEF Exclusion, InLine
  <1>6. Unlocking /\ Attempts
    BY DEF Init, Unlocking, Attempts, Trying
  <1> QED
    BY <1>1, <1>4, <1>5, <1>6 DEF LockInv

\* Every instruction of the lock, by any thread, keeps the invariant.
LEMMA LockStep ==
    ASSUME LockInv, [Next]_vars
    PROVE  LockInv'
  <1>1. CASE UNCHANGED vars
    BY <1>1 DEF vars, LockInv, TypeOK, Exclusion, TicketsCount, InLine, Unlocking, Attempts,
                Readers, Writers, Waiting, Inside, Place
  <1>2. ASSUME NEW t \in Threads, Ask(t) \/ Proceed(t)
        PROVE  LockInv'
    <2>1. CASE \E mode \in Trying : Load(t, mode)
      BY <2>1, LoadInv
    <2>2. CASE TakeTicket(t)
      BY <2>2, TakeTicketInv
    <2>3. CASE TryLock(t) \/ TryLockShared(t) \/ AwaitTurn(t)
      BY <2>3, TryLockInv, TryLockSharedInv, AwaitTurnInv
    <2>4. CASE LoadToUnlock(t) \/ Unlock(t) \/ UnlockAndLockShared(t) \/ UnlockShared(t)
      BY <2>4, LoadToUnlockInv, UnlockInv, UnlockAndLockSharedInv, UnlockSharedInv
    <2> QED
      BY <1>2, <2>1, <2>2, <2>3, <2>4 DEF Ask, Proceed
  <1> QED
    BY <1>1, <1>2 DEF Next

\* The lock of concurrency.h excludes: whatever the interleaving of its loads, swaps
\* and stores, no writer is inside together with a reader or with a second writer.
THEOREM LockExcludes ==
    Spec => []Exclusion
  <1>1. Spec => []LockInv
    BY LockInit, LockStep, PTL DEF Spec
  <1>2. LockInv => Exclusion
    BY DEF LockInv
  <1> QED
    BY <1>1, <1>2, PTL

\* The ticket counts: read is ahead of write by the readers, and users by everyone
\* who holds the lock or has drawn a ticket, so neither store of unlock loses one.
THEOREM LockCounts ==
    Spec => []TicketsCount
  <1>1. Spec => []LockInv
    BY LockInit, LockStep, PTL DEF Spec
  <1>2. LockInv => TicketsCount
    BY DEF LockInv
  <1> QED
    BY <1>1, <1>2, PTL

(***************************************************************************)
(* The queue table.                                                        *)
(***************************************************************************)

\* A step on the lock moves one thread only.
LEMMA OneThreadMoves ==
    ASSUME TypeOK, NEW t \in Threads, Ask(t) \/ Proceed(t)
    PROVE  \A u \in Threads \ {t} : pc'[u] = pc[u]
  <1>1. \E label : pc' = [pc EXCEPT ![t] = label]
    BY DEF Ask, Proceed, Load, TakeTicket, TryLock, TryLockShared, AwaitTurn, LoadToUnlock,
           Unlock, UnlockAndLockShared, UnlockShared, Retry, Goto
  <1> QED
    BY <1>1 DEF TypeOK

\* What a call of the packet manager does to the lock: one of the lock's own steps,
\* or nothing.
LEMMA CallLockStep ==
    ASSUME NEW t \in Users,
           (\E k \in Keys : Get(t, k)) \/ (\E k \in Groups : SetReplicas(t, k)) \/ Work(t)
    PROVE  Ask(t) \/ Proceed(t) \/ UNCHANGED vars
  <1>1. CASE (\E k \in Keys : Get(t, k)) \/ (\E k \in Groups : SetReplicas(t, k)) \/ Relock(t)
    <2>1. \E mode \in Trying : Load(t, mode)
      BY <1>1 DEF Get, SetReplicas, Relock, Trying
    <2> QED
      BY <2>1 DEF Ask, Proceed
  <1>2. CASE Find(t) \/ Look(t) \/ Make(t) \/ StoreReplicas(t) \/ Return(t)
    BY <1>2 DEF Find, Look, Make, StoreReplicas, Return
  <1>3. CASE LeaveShared(t) \/ LeaveExclusive(t) \/ Spin(t)
    BY <1>3 DEF LeaveShared, LeaveExclusive, Spin, Proceed
  <1> QED
    BY <1>1, <1>2, <1>3 DEF Work

\* The table and its callers are users of the lock like any other.
LEMMA QueueLockStep ==
    ASSUME [QueueNext]_allVars
    PROVE  [Next]_vars
  <1>1. CASE UNCHANGED allVars
    BY <1>1 DEF allVars
  <1>2. ASSUME NEW t \in Threads, Other(t)
        PROVE  Next
    BY <1>2 DEF Other, Next
  <1>3. ASSUME NEW t \in Users,
               (\E k \in Keys : Get(t, k)) \/ (\E k \in Groups : SetReplicas(t, k)) \/ Work(t)
        PROVE  [Next]_vars
    BY <1>3, CallLockStep, QueueAssumption DEF Next
  <1> QED
    BY <1>1, <1>2, <1>3 DEF QueueNext

\* The packet manager uses the lock as the lock is meant to be used: every behaviour
\* of the table and its callers is a behaviour of the lock.
THEOREM TableUsesLock ==
    QueueSpec => Spec
  <1>1. QueueInit => Init
    BY DEF QueueInit
  <1> QED
    BY <1>1, QueueLockStep, PTL DEF QueueSpec, Spec

\* So the exclusive lock of the packet manager excludes.
THEOREM TableExcludes ==
    QueueSpec => []Exclusion
  BY TableUsesLock, LockExcludes, PTL

\* The types of the table's state.
LEMMA QueueTypes ==
    ASSUME QueueTypeOK, [QueueNext]_allVars
    PROVE  QueueTypeOK'
  <1> USE DEF QueueTypeOK, GetSteps
  <1>1. CASE UNCHANGED allVars
    BY <1>1 DEF allVars, tableVars, callVars
  <1>2. ASSUME NEW t \in Threads, Other(t)
        PROVE  QueueTypeOK'
    BY <1>2 DEF Other, tableVars, callVars
  <1>3. ASSUME NEW t \in Users, NEW k \in Keys, Get(t, k)
        PROVE  QueueTypeOK'
    BY <1>3 DEF Get, To, tableVars
  <1>4. ASSUME NEW t \in Users, NEW k \in Groups, SetReplicas(t, k)
        PROVE  QueueTypeOK'
    BY <1>4 DEF SetReplicas, To, tableVars
  <1>5. ASSUME NEW t \in Users, Find(t) \/ Look(t)
        PROVE  QueueTypeOK'
    BY <1>5 DEF Find, Look, To, tableVars
  <1>6. ASSUME NEW t \in Users, LeaveShared(t) \/ Relock(t) \/ Spin(t)
        PROVE  QueueTypeOK'
    BY <1>6 DEF LeaveShared, Relock, Spin, To, tableVars, callVars
  <1>7. ASSUME NEW t \in Users, Make(t)
        PROVE  QueueTypeOK'
    <2>1. want[t] \in Keys /\ NewQueue(want[t]) /\ To(t, "made") /\ want' = want
      BY <1>7 DEF Make
    <2>2. Len(made) \in Nat
      BY SMT
    <2>3. table' \in [Keys -> Nat]
      BY SMT, <2>1, <2>2 DEF NewQueue
    <2>4. replica_num' \in [Groups -> [present : BOOLEAN, num : Nat]]
      BY <2>1 DEF NewQueue
    <2>5. made' \in Seq([key : Keys, replicas : Nat])
      <3>1. [key |-> want[t], replicas |-> IF want[t] \in Groups THEN replica_num[want[t]].num ELSE 0]
                \in [key : Keys, replicas : Nat]
        BY <2>1
      <3> QED
        BY SMT, <2>1, <3>1 DEF NewQueue
    <2> QED
      BY <2>1, <2>3, <2>4, <2>5 DEF To
  <1>8. ASSUME NEW t \in Users, StoreReplicas(t)
        PROVE  QueueTypeOK'
    <2>1. /\ step[t] = "set" /\ To(t, "was_set") /\ want' = want
          /\ table' = table /\ made' = made
      BY <1>8 DEF StoreReplicas
    <2>2. replica_num' \in [Groups -> [present : BOOLEAN, num : Nat]]
      <3>1. [present |-> TRUE, num |-> ReplicaNum] \in [present : BOOLEAN, num : Nat]
        BY QueueAssumption
      <3>2. \/ replica_num' = replica_num
            \/ replica_num' = [replica_num EXCEPT ![want[t]] = [present |-> TRUE, num |-> ReplicaNum]]
        BY <1>8 DEF StoreReplicas
      <3> QED
        BY <2>1, <3>1, <3>2
    <2> QED
      BY <2>1, <2>2 DEF To
  <1>9. ASSUME NEW t \in Users, LeaveExclusive(t) \/ Return(t)
        PROVE  QueueTypeOK'
    BY <1>9 DEF LeaveExclusive, Return, Leave, To, tableVars
  <1> QED
    BY <1>1, <1>2, <1>3, <1>4, <1>5, <1>6, <1>7, <1>8, <1>9 DEF QueueNext, Work

\* A call that leaves the table alone keeps what the others saw in it.
LEMMA SlotsKept ==
    ASSUME QueueInv, NEW t \in Users,
           table' = table, got' = got,
           \A u \in Users \ {t} : step'[u] = step[u] /\ want'[u] = want[u] /\ pc'[u] = pc[u],
           step'[t] \in {"found", "made", "follow"} => table[want'[t]] # None,
           step'[t] = "making" => pc'[t] = "writing" /\ table[want'[t]] = None
    PROVE  SlotsStay'
  BY SMT DEF QueueInv, SlotsStay

\* A slot is filled once, by the only writer, and is seen by everyone after that.
LEMMA QueueSlots ==
    ASSUME QueueInv, [QueueNext]_allVars
    PROVE  SlotsStay'
  <1> USE DEF QueueInv, QueueTypeOK
  <1>0. Users \subseteq Threads /\ TypeOK
    BY QueueAssumption DEF LockInv
  <1>1. CASE UNCHANGED allVars
    BY <1>1 DEF allVars, vars, tableVars, callVars, SlotsStay
  <1>2. ASSUME NEW t \in Threads \ Users, Other(t)
        PROVE  SlotsStay'
    <2>1. \A u \in Users : pc'[u] = pc[u]
      BY <1>0, <1>2, OneThreadMoves DEF Other
    <2> QED
      BY <1>2, <2>1 DEF Other, tableVars, callVars, SlotsStay
  <1>3. ASSUME NEW t \in Users,
               (\E k \in Keys : Get(t, k)) \/ (\E k \in Groups : SetReplicas(t, k)) \/ Work(t)
        PROVE  SlotsStay'
    <2>1. \A u \in Users \ {t} : pc'[u] = pc[u]
      BY <1>0, <1>3, CallLockStep, OneThreadMoves DEF vars
    <2>2. CASE (\E k \in Keys : Get(t, k)) \/ (\E k \in Groups : SetReplicas(t, k)) \/ Relock(t)
      <3>1. \E s \in {"find", "set", "make"} : step' = [step EXCEPT ![t] = s]
        BY <2>2 DEF Get, SetReplicas, Relock, To
      <3>2. table' = table /\ got' = got /\ \A u \in Users \ {t} : want'[u] = want[u]
        BY <2>2 DEF Get, SetReplicas, Relock, tableVars
      <3> QED
        BY SMT, <2>1, <3>1, <3>2, SlotsKept
    <2>3. CASE Find(t)
      BY <2>1, <2>3, SlotsKept DEF Find, To, tableVars
    <2>4. CASE LeaveShared(t)
      BY SMT, <2>1, <2>4, SlotsKept DEF LeaveShared, To, tableVars, SlotsStay
    <2>5. CASE Look(t)
      BY <2>1, <2>5, SlotsKept DEF Look, To, tableVars, vars
    <2>6. CASE Make(t)
      <3>1. /\ step[t] = "making" /\ want[t] \in Keys /\ want' = want /\ got' = got /\ pc' = pc
            /\ step' = [step EXCEPT ![t] = "made"]
            /\ table' = [table EXCEPT ![want[t]] = Len(made) + 1]
        BY <2>6 DEF Make, To, NewQueue, vars, GetSteps
      <3>2. pc[t] = "writing" /\ table[want[t]] = None
        BY <3>1 DEF SlotsStay
      <3>3. \A u \in Users : step[u] = "making" => u = t
        <4>1. \A u \in Users : step[u] = "making" => u \in Writers
          BY <1>0 DEF SlotsStay, Writers
        <4> QED
          BY <4>1, <3>1 DEF LockInv, Exclusion
      <3>4. Len(made) + 1 \in Nat /\ Len(made) + 1 # None
        BY SMT DEF None
      <3>5. \A k \in Keys : table[k] # None => table'[k] = table[k]
        BY <3>1, <3>2
      <3>6. \A x \in got' : x[1] \in Keys /\ x = <<x[1], table'[x[1]]>> /\ table'[x[1]] # None
        BY <3>1, <3>5 DEF SlotsStay
      <3>7. ASSUME NEW u \in Users
            PROVE  /\ step'[u] \in {"found", "made", "follow"} => table'[want'[u]] # None
                   /\ step'[u] = "making" => pc'[u] = "writing" /\ table'[want'[u]] = None
        <4>1. CASE u = t
          BY <3>1, <3>4, <4>1
        <4>2. CASE u # t
          <5>1. step'[u] = step[u] /\ step[u] # "making"
            BY <3>1, <3>3, <4>2
          <5>2. step[u] \in {"found", "made", "follow"} => want[u] \in Keys /\ table[want[u]] # None
            BY DEF SlotsStay, GetSteps
          <5> QED
            BY <5>1, <5>2, <3>1, <3>5
        <4> QED
          BY <4>1, <4>2
      <3> QED
        BY <3>6, <3>7 DEF SlotsStay
    <2>7. CASE StoreReplicas(t)
      BY <2>1, <2>7, SlotsKept DEF StoreReplicas, To, vars
    <2>8. CASE LeaveExclusive(t)
      BY SMT, <2>1, <2>8, SlotsKept DEF LeaveExclusive, Leave, To, tableVars, SlotsStay
    <2>9. CASE Return(t)
      <3>1. /\ step[t] = "follow" /\ want[t] \in Keys /\ table' = table
            /\ got' = got \cup {<<want[t], table[want[t]]>>}
            /\ step' = [step EXCEPT ![t] = "out"] /\ want' = [want EXCEPT ![t] = None]
        BY <2>9 DEF Return, Leave, To, tableVars, GetSteps
      <3>2. table[want[t]] # None
        BY <3>1 DEF SlotsStay
      <3>3. \A x \in got' : x[1] \in Keys /\ x = <<x[1], table'[x[1]]>> /\ table'[x[1]] # None
        BY SMT, <3>1, <3>2 DEF SlotsStay
      <3> QED
        BY <2>1, <3>1, <3>3 DEF SlotsStay
    <2>10. CASE Spin(t)
      <3>1. step[t] # "making" /\ step' = step /\ want' = want /\ table' = table /\ got' = got
        BY <2>10 DEF Spin, tableVars, callVars
      <3> QED
        BY SMT, <2>1, <3>1, SlotsKept DEF SlotsStay
    <2> QED
      BY <1>3, <2>2, <2>3, <2>4, <2>5, <2>6, <2>7, <2>8, <2>9, <2>10 DEF Work
  <1> QED
    BY <1>1, <1>2, <1>3 DEF QueueNext

\* The invariant of the table.
LEMMA QueueInvariant ==
    QueueSpec => []QueueInv
  <1>1. QueueInit => QueueInv
    BY SMT, LockInit DEF QueueInit, QueueInv, QueueTypeOK, SlotsStay, GetSteps, None, Unset
  <1>2. QueueInv /\ [QueueNext]_allVars => QueueInv'
    BY LockStep, QueueLockStep, QueueTypes, QueueSlots DEF QueueInv
  <1> QED
    BY <1>1, <1>2, PTL DEF QueueSpec

\* All callers that ask for the queue of a session get one and the same, and never
\* a null one, although lookup and creation are two critical sections and the slot
\* is read outside of both.
THEOREM TableOneQueuePerKey ==
    QueueSpec => []OneQueuePerKey
  <1>1. QueueInv => OneQueuePerKey
    BY SMT DEF QueueInv, SlotsStay, OneQueuePerKey
  <1> QED
    BY <1>1, QueueInvariant, PTL

\* When the application sets the replicas before it sends, a group that is looked
\* up has them.
LEMMA ReplicasStep ==
    ASSUME SetFirst, QueueTypeOK, ReplicasKnown, [QueueNext]_allVars
    PROVE  ReplicasKnown'
  <1> USE DEF QueueTypeOK
  <1>1. CASE UNCHANGED allVars
    BY <1>1 DEF allVars, tableVars, callVars, ReplicasKnown
  <1>2. ASSUME NEW t \in Threads \ Users, Other(t)
        PROVE  ReplicasKnown'
    BY <1>2 DEF Other, tableVars, callVars, ReplicasKnown
  <1>3. ASSUME NEW t \in Users, tableVars' = tableVars,
               \A u \in Users \ {t} : step'[u] = step[u] /\ want'[u] = want[u],
               step'[t] \in GetSteps /\ want'[t] \in Groups => replica_num[want'[t]].present
        PROVE  ReplicasKnown'
    BY <1>3 DEF tableVars, ReplicasKnown
  <1>4. ASSUME NEW t \in Users, NEW k \in Keys, Get(t, k)
        PROVE  ReplicasKnown'
    BY <1>3, <1>4 DEF Get, To
  <1>5. ASSUME NEW t \in Users, NEW k \in Groups, SetReplicas(t, k)
        PROVE  ReplicasKnown'
    BY <1>3, <1>5 DEF SetReplicas, To, GetSteps
  <1>6. ASSUME NEW t \in Users,
               Find(t) \/ LeaveShared(t) \/ Relock(t) \/ Look(t) \/ Spin(t)
        PROVE  ReplicasKnown'
    <2>1. step[t] \in GetSteps \/ step' = step
      BY <1>6 DEF Find, LeaveShared, Relock, Look, Spin, GetSteps, callVars
    <2>2. /\ tableVars' = tableVars /\ want' = want
          /\ \A u \in Users \ {t} : step'[u] = step[u]
      BY <1>6 DEF Find, LeaveShared, Relock, Look, Spin, To, callVars
    <2> QED
      BY <1>3, <2>1, <2>2 DEF ReplicasKnown
  <1>7. ASSUME NEW t \in Users, Make(t)
        PROVE  ReplicasKnown'
    <2>1. /\ step[t] \in GetSteps /\ want[t] \in Keys /\ NewQueue(want[t]) /\ want' = want
          /\ step' = [step EXCEPT ![t] = "made"] /\ refused' = refused
      BY <1>7 DEF Make, To, GetSteps
    <2>2. want[t] \in Groups => /\ replica_num[want[t]].present
                                /\ replica_num[want[t]].num = ReplicaNum
      BY <2>1 DEF ReplicasKnown
    <2>3. \A k \in Groups : /\ replica_num'[k].num = replica_num[k].num
                            /\ replica_num'[k].present <=> replica_num[k].present
      <3>1. CASE want[t] \notin Groups
        BY <2>1, <3>1 DEF NewQueue
      <3>2. CASE want[t] \in Groups
        <4>1. replica_num' = [replica_num EXCEPT ![want[t]].present = TRUE]
          BY <2>1, <3>2 DEF NewQueue
        <4> QED
          BY <4>1, <3>2, <2>2
      <3> QED
        BY <3>1, <3>2
    <2>4. \A i \in DOMAIN made' : made'[i].key \in Groups => made'[i].replicas = ReplicaNum
      <3> DEFINE e == [key |-> want[t],
                       replicas |-> IF want[t] \in Groups THEN replica_num[want[t]].num ELSE 0]
      <3>1. e \in [key : Keys, replicas : Nat] /\ made' = Append(made, e)
        BY <2>1 DEF NewQueue
      <3>2. e.key \in Groups => e.replicas = ReplicaNum
        BY <2>2
      <3> HIDE DEF e
      <3>3. /\ DOMAIN made = 1..Len(made) /\ Len(made) \in Nat
            /\ DOMAIN made' = 1..(Len(made) + 1)
            /\ \A i \in 1..Len(made) : made'[i] = made[i]
            /\ made'[Len(made) + 1] = e
        BY SMT, <3>1
      <3>4. \A i \in 1..Len(made) : made[i].key \in Groups => made[i].replicas = ReplicaNum
        BY <3>3 DEF ReplicasKnown
      <3>5. ASSUME NEW i \in DOMAIN made'
            PROVE  made'[i].key \in Groups => made'[i].replicas = ReplicaNum
        <4>1. i \in 1..Len(made) \/ i = Len(made) + 1
          BY SMT, <3>3
        <4> QED
          BY <4>1, <3>2, <3>3, <3>4
      <3> QED
        BY <3>5
    <2>5. \A k \in Groups : replica_num'[k].present => replica_num'[k].num = ReplicaNum
      BY <2>3 DEF ReplicasKnown
    <2>6. \A u \in Users : step'[u] \in GetSteps /\ want'[u] \in Groups
                               => replica_num'[want'[u]].present
      <3>1. \A u \in Users : step'[u] \in GetSteps => step[u] \in GetSteps
        BY <2>1
      <3> QED
        BY <2>1, <2>3, <3>1 DEF ReplicasKnown
    <2>7. \A k \in refused' : k \in Groups /\ replica_num'[k].present
      BY <2>1, <2>3 DEF ReplicasKnown
    <2> QED
      BY <2>4, <2>5, <2>6, <2>7 DEF ReplicasKnown
  <1>8. ASSUME NEW t \in Users, StoreReplicas(t)
        PROVE  ReplicasKnown'
    <2>1. /\ step' = [step EXCEPT ![t] = "was_set"] /\ want' = want /\ made' = made
          /\ want[t] \in Groups
      BY <1>8 DEF StoreReplicas, To
    <2>2. CASE replica_num[want[t]].present
      <3>1. replica_num' = replica_num /\ refused' = refused \cup {want[t]}
        BY <1>8, <2>2 DEF StoreReplicas
      <3> QED
        BY <2>1, <2>2, <3>1 DEF ReplicasKnown, GetSteps
    <2>3. CASE ~replica_num[want[t]].present
      <3>1. /\ replica_num' = [replica_num EXCEPT ![want[t]] = [present |-> TRUE, num |-> ReplicaNum]]
            /\ refused' = refused
        BY <1>8, <2>3 DEF StoreReplicas
      <3>2. \A k \in Groups : \/ replica_num'[k] = replica_num[k]
                              \/ replica_num'[k] = [present |-> TRUE, num |-> ReplicaNum]
        BY <3>1
      <3>3. \A k \in Groups : /\ replica_num[k].present => replica_num'[k].present
                              /\ replica_num'[k].present => replica_num'[k].num = ReplicaNum
        BY SMT, <3>2 DEF ReplicasKnown
      <3>4. \A u \in Users : step'[u] \in GetSteps => step[u] \in GetSteps
        BY <2>1 DEF GetSteps
      <3> QED
        BY <2>1, <3>1, <3>3, <3>4 DEF ReplicasKnown
    <2> QED
      BY <2>2, <2>3
  <1>9. ASSUME NEW t \in Users, LeaveExclusive(t) \/ Return(t)
        PROVE  ReplicasKnown'
    <2>1. /\ tableVars' = tableVars
          /\ \A u \in Users \ {t} : step'[u] = step[u] /\ want'[u] = want[u]
      BY <1>9 DEF LeaveExclusive, Return, Leave, To
    <2>2. \/ step'[t] = "out"
          \/ step[t] \in GetSteps /\ want' = want
          \/ step' = step /\ want' = want
      BY <1>9 DEF LeaveExclusive, Return, Leave, To, GetSteps
    <2> QED
      BY <1>3, <2>1, <2>2 DEF ReplicasKnown, GetSteps
  <1> QED
    BY <1>1, <1>2, <1>4, <1>5, <1>6, <1>7, <1>8, <1>9 DEF QueueNext, Work

\* When setMulticastReplicas is called before the first send, every send queue of a
\* group waits for the number it was given, and no call is refused for a group that
\* has another number.
THEOREM TableReplicasAgree ==
    ASSUME SetFirst
    PROVE  QueueSpec => []ReplicasAgree
  <1>1. QueueInit => ReplicasKnown
    BY SMT DEF QueueInit, ReplicasKnown, Unset, GetSteps
  <1>2. QueueTypeOK /\ ReplicasKnown /\ [QueueNext]_allVars => ReplicasKnown'
    BY ReplicasStep
  <1>3. QueueInv => QueueTypeOK
    BY DEF QueueInv
  <1>4. ReplicasKnown => ReplicasAgree
    BY DEF ReplicasKnown, ReplicasAgree
  <1> QED
    BY <1>1, <1>2, <1>3, <1>4, QueueInvariant, PTL DEF QueueSpec
=============================================================================
