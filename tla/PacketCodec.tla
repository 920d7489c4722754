---------------------------- MODULE PacketCodec ----------------------------
(***************************************************************************)
(* What a packet says and how it is read back (Z1Shared/PacketCodec.h and  *)
(* Serialization.h).  A payload is a head of fields, and for a snapshot or *)
(* a path a count and that many items; every field is a number in one, two *)
(* or four bytes, the most significant first.                              *)
(*                                                                         *)
(* A message is a record: its type, the values of the head, and the items, *)
(* each a sequence of values.  A behaviour is the way of one message from  *)
(* one peer to the other.                                                  *)
(***************************************************************************)
EXTENDS Integers, SequencesExt

CONSTANTS
    Base,              \* how many values a byte has
    MaxPacketSize,
    RoomTiles,         \* tiles of a room, 16 * 11
    ProtocolVersion,   \* of the peer that receives
    Messages           \* what is sent

VARIABLES message, packet, received

vars == <<message, packet, received>>

\* What the receiver has of a message that has not arrived, of one that could
\* not be built, and of one it did not accept.
Verdict(word) == [type |-> word, head |-> <<>>, items |-> <<>>]
Nothing == Verdict("nothing")
Unsent  == Verdict("unsent")
Refused == Verdict("refused")

-----------------------------------------------------------------------------
(* Numbers and bytes.                                                      *)

\* A field has one byte, two or four.
WriteU8(n)  == <<n % Base>>
WriteU16(n) == <<(n \div Base) % Base, n % Base>>
WriteU32(n) == WriteU16(n \div (Base * Base)) \o WriteU16(n)

\* Write32 writes the same bits as WriteU32.
Write(n, width) == CASE width = 1 -> WriteU8(n)
                     [] width = 2 -> WriteU16(n)
                     [] width = 4 -> WriteU32(n)

ReadU16(high, low) == high * Base + low

\* Mistake: the bytes are taken as they lie in memory.
ReadUnswapped(bytes) ==
    CASE Len(bytes) = 1 -> bytes[1]
      [] Len(bytes) = 2 -> ReadU16(bytes[2], bytes[1])
      [] Len(bytes) = 4 -> ReadU16(bytes[4], bytes[3]) * (Base * Base)
                             + ReadU16(bytes[2], bytes[1])

Read(bytes) ==
    CASE Len(bytes) = 1 -> bytes[1]
      [] Len(bytes) = 2 -> ReadU16(bytes[1], bytes[2])
      [] Len(bytes) = 4 -> ReadU16(bytes[1], bytes[2]) * (Base * Base)
                             + ReadU16(bytes[3], bytes[4])

\* How many values a field has.
Values(width) == CASE width = 1 -> Base
                   [] width = 2 -> Base * Base
                   [] width = 4 -> (Base * Base) * (Base * Base)

\* Read32
Signed(n) == IF n < Values(4) \div 2 THEN n ELSE n - Values(4)

WriteAll(values, widths) ==
    FlattenSeq([i \in 1 .. Len(widths) |-> Write(values[i], widths[i])])

\* PacketReader::_offset after each of the fields.
Offsets(widths) ==
    LET offset[i \in 0 .. Len(widths)] == IF i = 0 THEN 0 ELSE offset[i - 1] + widths[i]
    IN offset

Sum(widths) == Offsets(widths)[Len(widths)]

ReadAll(bytes, widths) ==
    [i \in 1 .. Len(widths) |->
        Read(SubSeq(bytes, Offsets(widths)[i - 1] + 1, Offsets(widths)[i]))]

-----------------------------------------------------------------------------
(* The packets: their type, the widths of the head, the count and an item. *)

HeaderWidths == <<2, 2>>    \* the size of the packet, its type

Packets ==
    [C2S_Enter          |-> [type |-> 1,   head |-> <<2>>],
     C2S_Input          |-> [type |-> 2,   head |-> <<4, 1, 1>>],
     S2C_Enter          |-> [type |-> 101, head |-> <<2, 4>>],
     S2C_WorldSnapshot  |-> [type |-> 102, head |-> <<4>>],
     S2C_CombatEvent    |-> [type |-> 104, head |-> <<1, 4, 1>>],
     S2C_EnemyPathDebug |-> [type |-> 105, head |-> <<4, 4, 4, 4>>]]

CountWidths(type) == CASE type = "S2C_WorldSnapshot"  -> <<4>>
                       [] type = "S2C_EnemyPathDebug" -> <<1>>
                       [] OTHER -> <<>>

ItemWidths(type) == IF type = "S2C_WorldSnapshot" THEN <<4, 4, 2, 2, 1, 1, 1>>
                                                  ELSE <<1>>

\* Positions of rooms and health are signed.
SignedInHead(type) == IF type = "S2C_EnemyPathDebug" THEN {3, 4} ELSE {}
SignedInItem(type) == IF type = "S2C_WorldSnapshot" THEN {2} ELSE {}

MoveDirections     == 0 .. 4
CardinalDirections == 1 .. 4

\* Of an actor: a player, an enemy or a spear, with a direction and flags that
\* such an actor may have.
IsValidActor(actor) ==
    LET kind == actor[5]  direction == actor[6]  flags == actor[7]
    IN CASE kind = 1       -> direction \in MoveDirections /\ flags \in 0 .. 3
         [] kind \in 2 .. 4 -> direction \in MoveDirections /\ flags \in 0 .. 1
         [] kind = 5       -> direction \in CardinalDirections
         [] OTHER          -> FALSE

\* What is asked of a message at either end.
IsValid(type, head, items) ==
    CASE type = "C2S_Input"          -> head[2] \in MoveDirections /\ head[3] \in 0 .. 1
      [] type = "S2C_WorldSnapshot"  -> \A i \in DOMAIN items : IsValidActor(items[i])
      [] type = "S2C_CombatEvent"    -> head[1] = 1 /\ head[3] \in CardinalDirections
      [] type = "S2C_EnemyPathDebug" -> /\ Len(items) <= RoomTiles
                                        /\ \A i \in DOMAIN items : items[i][1] < RoomTiles
      [] type = "S2C_Enter"          -> head[2] # 0
      [] OTHER -> TRUE

\* At the sender's end also: actors have ids.
HasIds(m) ==
    CASE m.type = "S2C_WorldSnapshot" -> \A i \in DOMAIN m.items : m.items[i][1] # 0
      [] m.type = "S2C_CombatEvent"   -> m.head[2] # 0
      [] OTHER -> TRUE

\* What the simulation and the game have to say: values of their fields' types.
Fits(values, widths, signed) ==
    /\ values \in Seq(Int) /\ Len(values) = Len(widths)
    /\ \A i \in DOMAIN widths :
          LET n == IF i \in signed THEN values[i] + Values(widths[i]) \div 2 ELSE values[i]
          IN n \in 0 .. Values(widths[i]) - 1

IsMessage(m) ==
    /\ m = [type |-> m.type, head |-> m.head, items |-> m.items]
    /\ m.type \in DOMAIN Packets
    /\ Fits(m.head, Packets[m.type].head, SignedInHead(m.type))
    /\ m.items \in Seq(Seq(Int))
    /\ \A i \in DOMAIN m.items : Fits(m.items[i], ItemWidths(m.type), SignedInItem(m.type))
    /\ CountWidths(m.type) = <<>> => m.items = <<>>
    /\ IsValid(m.type, m.head, m.items) /\ HasIds(m)

\* A packet's size and type, and a path's length, fit their fields; a signed
\* field has as many values below zero as not.
CodecAssumption ==
    /\ Base \in Nat /\ Base % 2 = 0
    /\ MaxPacketSize \in Nat /\ MaxPacketSize < Base * Base
    /\ \A type \in DOMAIN Packets : Packets[type].type < Base * Base
    /\ RoomTiles \in Nat /\ RoomTiles < Base
    /\ ProtocolVersion \in 1 .. Base * Base - 1
    /\ \A m \in Messages : IsMessage(m)

\* The fields before the items: the head and the count.
FixedWidths(type) == Packets[type].head \o CountWidths(type)

PayloadOf(m) ==
    WriteAll(m.head \o [i \in DOMAIN CountWidths(m.type) |-> Len(m.items)],
             FixedWidths(m.type))
        \o FlattenSeq([i \in 1 .. Len(m.items) |->
                           WriteAll(m.items[i], ItemWidths(m.type))])

\* BuildPacket: the size of the whole packet, the type, the payload.
PacketOf(type, payload) ==
    WriteAll(<<Sum(HeaderWidths) + Len(payload), Packets[type].type>>, HeaderWidths)
        \o payload

WithSigns(values, signed) ==
    [i \in DOMAIN values |-> IF i \in signed THEN Signed(values[i]) ELSE values[i]]

Typed(type, head, items) ==
    [type |-> type,
     head |-> WithSigns(head, SignedInHead(type)),
     items |-> [i \in DOMAIN items |-> WithSigns(items[i], SignedInItem(type))]]

\* ParsePayload: all is read and nothing is left, every value is one it may be,
\* and a peer that enters speaks the same version.
Parse(type, payload) ==
    LET fixed  == FixedWidths(type)
        values == ReadAll(payload, fixed)
        n      == Len(Packets[type].head)
        head   == SubSeq(values, 1, n)
        count  == IF CountWidths(type) = <<>> THEN 0 ELSE values[n + 1]
        size   == Sum(ItemWidths(type))
        items  == [i \in 1 .. count |->
                      ReadAll(SubSeq(payload, Sum(fixed) + (i - 1) * size + 1,
                                              Sum(fixed) + i * size), ItemWidths(type))]
    IN IF /\ Len(payload) >= Sum(fixed)
          /\ Len(payload) = Sum(fixed) + count * size
          /\ IsValid(type, head, items)
          /\ type \in {"C2S_Enter", "S2C_Enter"} => head[1] = ProtocolVersion
       THEN Typed(type, head, items)
       ELSE Refused

-----------------------------------------------------------------------------
(* A message is built, framed as its header says, and parsed.              *)

Init == message \in Messages /\ packet = <<>> /\ received = Nothing

Build ==
    /\ packet = <<>> /\ received = Nothing
    /\ LET payload == PayloadOf(message)
       IN IF /\ Sum(HeaderWidths) + Len(payload) <= MaxPacketSize
             /\ IsValid(message.type, message.head, message.items)
             /\ HasIds(message)
          THEN packet' = PacketOf(message.type, payload) /\ UNCHANGED received
          ELSE received' = Unsent /\ UNCHANGED packet
    /\ UNCHANGED message

\* HandleServerPacket and its like: a type that is none ends the connection,
\* as a size does that the framer makes nothing of.
Receive ==
    /\ packet # <<>> /\ received = Nothing
    /\ LET header  == ReadAll(packet, HeaderWidths)
           types   == {t \in DOMAIN Packets : Packets[t].type = header[2]}
           payload == SubSeq(packet, Sum(HeaderWidths) + 1, Len(packet))
       IN IF header[1] = Len(packet) /\ types # {}
          THEN received' = Parse(CHOOSE t \in types : TRUE, payload)
          ELSE received' = Refused
    /\ UNCHANGED <<message, packet>>

Next == Build \/ Receive

Spec == Init /\ [][Next]_vars
-----------------------------------------------------------------------------
(* Properties.                                                             *)

\* Is it too large to be one packet?
IsTooLarge(m) == Sum(HeaderWidths) + Len(PayloadOf(m)) > MaxPacketSize

\* Whatever a peer of the same version builds the other one understands as it
\* was meant, values at the edge of their fields included, and a peer of
\* another version is refused when it enters; of what the simulation knows only
\* the world that is too large for a packet cannot be told.
PeersAgree ==
    CASE received = Nothing -> TRUE
      [] received = Unsent  -> IsTooLarge(message)
      [] OTHER -> received = IF /\ message.type \in {"C2S_Enter", "S2C_Enter"}
                                /\ message.head[1] # ProtocolVersion
                             THEN Refused ELSE message
=============================================================================
