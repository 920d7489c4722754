---------------------------- MODULE PacketFramer ----------------------------
(***************************************************************************)
(* Z1Shared/PacketFramer.h: the buffer that cuts the TCP byte stream back  *)
(* into packets.  The server and the client each keep one per connection.  *)
(*                                                                         *)
(* A packet is [id, size]; its size counts the header.  The bytes of p are *)
(* <<p, 1>>, .., <<p, p.size>>: what a byte says is reduced to where it    *)
(* comes from, which is enough to read a size from the bytes of a header   *)
(* and to notice when bytes that are not a header are read as one.         *)
(*                                                                         *)
(* An operator whose comment starts with "Mistake:" is the definition after *)
(* it as a likely slip would have it; the runs show what it would break.   *)
(***************************************************************************)
EXTENDS Naturals, Sequences

CONSTANTS
  HeaderSize,    \* PacketHeaderSize, 4 in the code
  MaxPacketSize, \* 4096 in the code
  ChunkSize,     \* bytes received at once, 4096 on both sides
  MaxPackets     \* bound of the model: packets sent in a behaviour

ASSUME SizesAssumption ==
  /\ HeaderSize \in Nat \ {0} /\ MaxPacketSize \in Nat /\ ChunkSize \in Nat
  /\ HeaderSize <= MaxPacketSize
  /\ ChunkSize \in 1 .. MaxPacketSize
  /\ MaxPackets \in Nat

MaxBufferedRecvBytes == 2 * MaxPacketSize

Packet == [id : 1 .. MaxPackets, size : HeaderSize .. MaxPacketSize]

Byte == Packet \X (1 .. MaxPacketSize)

Bytes(p) == [k \in 1 .. p.size |-> <<p, k>>]

Framer == [buffer : Seq(Byte), readOffset : Nat]

NewFramer == [buffer |-> <<>>, readOffset |-> 0]

Buffered(f) == SubSeq(f.buffer, f.readOffset + 1, Len(f.buffer))

CompactConsumedBytes(f) == [buffer |-> Buffered(f), readOffset |-> 0]

-----------------------------------------------------------------------------
(* Append.                                                                 *)

AppendSucceeds(f, bytes) ==
  Len(bytes) <= MaxBufferedRecvBytes - Len(CompactConsumedBytes(f).buffer)

AfterAppend(f, bytes) ==
  LET compact == CompactConsumedBytes(f)
  IN IF AppendSucceeds(f, bytes)
     THEN [compact EXCEPT !.buffer = @ \o bytes]
     ELSE compact

-----------------------------------------------------------------------------
(* TryPop.                                                                 *)

\* The size that the next HeaderSize bytes say.  Bytes that are not the start
\* of a packet say anything; 0 stands for the sizes that TryPop refuses.
SizeInHeader(f) ==
  LET at(k) == f.buffer[f.readOffset + k]
  IN IF \A k \in 1 .. HeaderSize : at(k) = <<at(1)[1], k>> THEN at(1)[1].size ELSE 0

HasHeader(f) == Len(Buffered(f)) >= HeaderSize

\* Mistake: > for >= in the test of the buffered size.
HoldsMoreThanPacket(f) == Len(Buffered(f)) > SizeInHeader(f)

HoldsPacket(f) == Len(Buffered(f)) >= SizeInHeader(f)

PopResult(f) ==
  IF ~HasHeader(f) THEN "NeedMoreData"
  ELSE IF SizeInHeader(f) \notin HeaderSize .. MaxPacketSize THEN "Invalid"
  ELSE IF ~HoldsPacket(f) THEN "NeedMoreData" ELSE "Ready"

\* The packet whose bytes are popped, where PopResult(f) = "Ready".
Popped(f) == f.buffer[f.readOffset + 1][1]

\* Mistake: the read offset is advanced by the payload alone.
AfterPopOfPayload(f) == [f EXCEPT !.readOffset = @ + SizeInHeader(f) - HeaderSize]

AfterPop(f) == [f EXCEPT !.readOffset = @ + SizeInHeader(f)]
=============================================================================
