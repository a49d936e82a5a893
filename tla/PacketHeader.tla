---------------------------- MODULE PacketHeader ----------------------------
(***************************************************************************)
(* The header of a packet: four bytes of immediate data, and eight bytes   *)
(* in front of the payload.  A handle is what the code works with, a wire  *)
(* record what the fabric carries.                                         *)
(*                                                                         *)
(* The widths are constants: a byte has Byte values, a 16-bit field        *)
(* HalfWord and a 32-bit field Word.                                       *)
(***************************************************************************)
EXTENDS Integers

CONSTANTS
    Byte,           \* 2^8
    SessionSpace,   \* 2^6, the bits left for the session
    HalfWord,       \* 2^16
    Word,           \* 2^32
    Grh             \* sizeof(ibv_grh), in front of a received packet (40)

ASSUME HeaderAssumption ==
    /\ Byte \in Nat \ {0}
    /\ SessionSpace \in Nat \ {0}
    /\ HalfWord \in Nat \ {0}
    /\ Word \in Nat \ {0}
    /\ Grh \in Nat

HeaderSize == 8     \* sizeof(PktHdr)

Data == 0
Ack == 1

\* A handle as setRawPacket and setPayload leave it.
Handle(session, cmd, wnd, sn, ts, compacted, len) ==
    [session |-> session, cmd |-> cmd, wnd |-> wnd, sn |-> sn, ts |-> ts,
     compacted |-> compacted, len |-> len]

\* PktHdrImm.
Imm(h) ==
    [session |-> h.session % SessionSpace, cmd |-> h.cmd % 2, compacted |-> h.compacted,
     sn0 |-> h.sn % Byte, sn1 |-> (h.sn \div Byte) % Byte,
     sn2 |-> ((h.sn \div Byte) \div Byte) % Byte]

\* PktHdr.
Hdr(h) ==
    [wnd |-> h.wnd % HalfWord, ts_lo |-> h.ts % HalfWord,
     ts_hi |-> (h.ts \div HalfWord) % Word]

ZeroImm == [session |-> 0, cmd |-> 0, compacted |-> FALSE, sn0 |-> 0, sn1 |-> 0, sn2 |-> 0]
NoHdr == [wnd |-> 0, ts_lo |-> 0, ts_hi |-> 0]

\* serialize and the post of the request: immediate data that is zero is not sent.
\* A compacted packet leaves its header bytes as they were.
Serialize(h) ==
    [with_imm |-> Imm(h) # ZeroImm, imm |-> Imm(h),
     hdr |-> IF h.compacted THEN NoHdr ELSE Hdr(h), bytes |-> HeaderSize + h.len]

\* The byte count of a receive completion includes the GRH.
Arrived(w) == [w EXCEPT !.bytes = Grh + @]

\* deserialize refuses what is shorter than the two headers.
Readable(a) == a.bytes >= HeaderSize + Grh

DecodedSN(m) == m.sn0 + Byte * (m.sn1 + Byte * m.sn2)

\* deserialize, with the immediate data that processReceivedPacket passes on.
Deserialize(a) ==
    LET m == IF a.with_imm THEN a.imm ELSE ZeroImm
    IN  [session |-> m.session, cmd |-> m.cmd,
         wnd |-> IF m.compacted THEN 0 ELSE a.hdr.wnd,
         sn |-> DecodedSN(m),
         ts |-> IF m.compacted THEN 0 ELSE a.hdr.ts_hi * HalfWord + a.hdr.ts_lo,
         compacted |-> m.compacted, len |-> a.bytes - HeaderSize - Grh]
=============================================================================
