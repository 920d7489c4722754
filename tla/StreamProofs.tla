---------------------------- MODULE StreamProofs ----------------------------
(***************************************************************************)
(* Proofs about the byte streams of a connection, ServerToClient and       *)
(* ClientToServer as MCStreams puts them together, for every size of       *)
(* header, packet and chunk, every limit of the queues, and every way the  *)
(* sends and the receives are split.                                       *)
(***************************************************************************)
EXTENDS MCStreams, SequenceTheorems, TLAPS

-----------------------------------------------------------------------------
(* What is on its way: the bytes S that left the sender and that no packet *)
(* has been popped from, of the packets A that were accepted.              *)

\* The n-th packet that is accepted has number n.
Numbered(A) == \A n \in 1 .. Len(A) : A[n].id = n

\* S begins with the packet after the first m.  After a byte of a packet come
\* the rest of it, as far as S goes, and then the packet accepted next.
Continues(S, A, m) ==
  /\ S # <<>> => S[1] = <<A[m + 1], 1>>
  /\ \A i \in 1 .. Len(S) :
       LET p == S[i][1]
           k == S[i][2]
       IN /\ p.id \in m + 1 .. Len(A) /\ A[p.id] = p /\ k \in 1 .. p.size
          /\ \A j \in i .. Len(S) :
               /\ p.id <= S[j][1].id
               /\ k + (j - i) <= p.size => S[j] = <<p, k + (j - i)>>
          /\ i < Len(S) /\ k = p.size =>
               p.id < Len(A) /\ S[i + 1] = <<A[p.id + 1], 1>>

\* S ends where the sender is: k bytes of the n-th packet have left it.
ReachesTo(S, A, m, n, k) ==
  IF S = <<>>
  THEN \/ k = 0 /\ m = n - 1
       \/ k > 0 /\ m = n /\ k = A[n].size
  ELSE IF k > 0 THEN S[Len(S)] = <<A[n], k>>
                ELSE n > 1 /\ S[Len(S)] = <<A[n - 1], A[n - 1].size>>

\* The packets of q are the last of A.
LastOf(q, A) ==
  /\ Len(q) <= Len(A)
  /\ \A i \in 1 .. Len(q) : q[i] = A[Len(A) - Len(q) + i]

\* The packets of q are those of A that come after d.
After(q, A, d) ==
  /\ Len(d) + Len(q) <= Len(A)
  /\ \A i \in 1 .. Len(q) : q[i] = A[Len(d) + i]

\* A framer that has read no further than it holds.
FramerOK(f) == f \in Framer /\ f.readOffset <= Len(f.buffer)

-----------------------------------------------------------------------------
(* The inductive invariant of the direction to the client.                 *)

\* What the session has still to send, and how far it got with the front of it.
DownQueue ==
  /\ Numbered(accepted) /\ LastOf(sendQueue, accepted)
  /\ After(incoming, accepted, delivered)
  /\ sendQueue = <<>> => sendOffset = 0 /\ view = Down!NoView
  /\ sendQueue # <<>> => sendOffset < Head(sendQueue).size
  /\ view = Down!NoView => transferred = 0

\* What is on its way, how many packets came out of it, which packet is sent
\* next and how much of it has left.
DownFlight == Buffered(framer) \o wire
DownPopped == Len(delivered) + Len(incoming)
DownFront  == Len(accepted) - Len(sendQueue) + 1
DownSent   == sendOffset + transferred

\* What is on its way follows what was popped and reaches to what was sent,
\* until a full queue ends the loop of the client.
DownStream ==
  netPc # "full" =>
    /\ Continues(DownFlight, accepted, DownPopped)
    /\ sessionOpen => ReachesTo(DownFlight, accepted, DownPopped, DownFront, DownSent)

\* The loop asks for more bytes when it holds no whole packet.
DownRoom == netPc = "recv" => Len(Buffered(framer)) < MaxPacketSize

DownInv ==
  /\ Down!TypeOK /\ Down!FramingNeverFails /\ Down!SendReadsTheFront
  /\ DownQueue /\ DownStream /\ DownRoom

(* And of the direction to the server.                                     *)

ToSend   == pending \o clientQueue
UpFlight == Buffered(sessionFramer) \o clientWire
UpPopped == Len(handled) + Len(recvd)
UpFront  == Len(queued) - Len(ToSend) + 1

UpQueue ==
  /\ Numbered(queued) /\ LastOf(ToSend, queued) /\ After(recvd, queued, handled)
  /\ queueing => Len(queued) < MaxPackets
  /\ pending = <<>> => clientOffset = 0
  /\ pending # <<>> => clientOffset < Head(pending).size

UpStream ==
  /\ Continues(UpFlight, queued, UpPopped)
  /\ ~Up!SocketClosed => ReachesTo(UpFlight, queued, UpPopped, UpFront, clientOffset)

UpRoom ==
  recvPc \in {"posted", "dispatch"} => Len(Buffered(sessionFramer)) < MaxPacketSize

UpInv == Up!TypeOK /\ Up!FramingNeverFails /\ UpQueue /\ UpStream /\ UpRoom

IInv == DownInv /\ UpInv

-----------------------------------------------------------------------------
(* Bytes and packets.                                                      *)

LEMMA BytesTyped ==
  ASSUME NEW p \in Packet
  PROVE  /\ p.size \in Nat /\ p.size >= 1 /\ p.size <= MaxPacketSize
         /\ p.size >= HeaderSize /\ p.id \in Nat
         /\ Bytes(p) \in Seq(Byte) /\ Len(Bytes(p)) = p.size
         /\ \A k \in 1 .. p.size : Bytes(p)[k] = <<p, k>>
  BY SizesAssumption DEF Packet, Bytes, Byte

LEMMA ByteParts ==
  ASSUME NEW b \in Byte
  PROVE  b[1] \in Packet /\ b[2] \in 1 .. MaxPacketSize /\ b = <<b[1], b[2]>>
  BY DEF Byte

(* What is left of a sequence after its first z elements, and those. *)
LEMMA RestOf ==
  ASSUME NEW T, NEW s \in Seq(T), NEW z \in 0 .. Len(s)
  PROVE  /\ SubSeq(s, z + 1, Len(s)) \in Seq(T)
         /\ Len(SubSeq(s, z + 1, Len(s))) = Len(s) - z
         /\ \A i \in 1 .. Len(s) - z :
              SubSeq(s, z + 1, Len(s))[i] = s[z + i] /\ z + i \in 1 .. Len(s)
  OBVIOUS

LEMMA FrontOf ==
  ASSUME NEW T, NEW s \in Seq(T), NEW z \in 0 .. Len(s)
  PROVE  /\ SubSeq(s, 1, z) \in Seq(T) /\ Len(SubSeq(s, 1, z)) = z
         /\ \A i \in 1 .. z : SubSeq(s, 1, z)[i] = s[i]
  OBVIOUS

(* A packet of the sequence is at the place its number says. *)
LEMMA NumberIsPlace ==
  ASSUME NEW A \in Seq(Packet), Numbered(A), NEW i \in 1 .. Len(A), NEW j \in 1 .. Len(A)
  PROVE  A[i] \in Packet /\ A[i].id = i /\ (A[i] = A[j] => i = j)
  BY DEF Numbered

(* What one byte of the stream says of the rest of it. *)
LEMMA ContinuesAt ==
  ASSUME NEW S \in Seq(Byte), NEW A \in Seq(Packet), NEW m \in Nat, Continues(S, A, m),
         NEW i \in 1 .. Len(S), NEW p, NEW k, S[i] = <<p, k>>
  PROVE  /\ p \in Packet /\ p.id \in m + 1 .. Len(A) /\ A[p.id] = p /\ k \in 1 .. p.size
         /\ \A j \in i .. Len(S) :
              /\ p.id <= S[j][1].id
              /\ k + (j - i) <= p.size => S[j] = <<p, k + (j - i)>>
         /\ i < Len(S) /\ k = p.size =>
              p.id < Len(A) /\ S[i + 1] = <<A[p.id + 1], 1>>
  <1>1. S[i] \in Byte
    BY ElementOfSeq
  <1>2. S[i][1] = p /\ S[i][2] = k
    OBVIOUS
  <1>3. p \in Packet
    BY <1>1, <1>2, ByteParts
  <1>4. QED  BY <1>2, <1>3 DEF Continues

(* And what is to be shown of each byte for a sequence to be such a stream. *)
LEMMA ContinuesIf ==
  ASSUME NEW S \in Seq(Byte), NEW A \in Seq(Packet), NEW m \in Nat,
         S # <<>> => S[1] = <<A[m + 1], 1>>,
         \A i \in 1 .. Len(S) : \E p, k :
           /\ S[i] = <<p, k>>
           /\ p.id \in m + 1 .. Len(A) /\ A[p.id] = p /\ k \in 1 .. p.size
           /\ \A j \in i .. Len(S) :
                /\ p.id <= S[j][1].id
                /\ k + (j - i) <= p.size => S[j] = <<p, k + (j - i)>>
           /\ i < Len(S) /\ k = p.size =>
                p.id < Len(A) /\ S[i + 1] = <<A[p.id + 1], 1>>
  PROVE  Continues(S, A, m)
  <1> SUFFICES ASSUME NEW i \in 1 .. Len(S)
               PROVE  LET p == S[i][1]
                          k == S[i][2]
                      IN /\ p.id \in m + 1 .. Len(A) /\ A[p.id] = p /\ k \in 1 .. p.size
                         /\ \A j \in i .. Len(S) :
                              /\ p.id <= S[j][1].id
                              /\ k + (j - i) <= p.size => S[j] = <<p, k + (j - i)>>
                         /\ i < Len(S) /\ k = p.size =>
                              p.id < Len(A) /\ S[i + 1] = <<A[p.id + 1], 1>>
    BY DEF Continues
  <1>1. PICK p, k :
           /\ S[i] = <<p, k>>
           /\ p.id \in m + 1 .. Len(A) /\ A[p.id] = p /\ k \in 1 .. p.size
           /\ \A j \in i .. Len(S) :
                /\ p.id <= S[j][1].id
                /\ k + (j - i) <= p.size => S[j] = <<p, k + (j - i)>>
           /\ i < Len(S) /\ k = p.size =>
                p.id < Len(A) /\ S[i + 1] = <<A[p.id + 1], 1>>
    OBVIOUS
  <1>2. S[i][1] = p /\ S[i][2] = k
    BY <1>1
  <1>3. QED  BY <1>1, <1>2

(* The header at the front of what is buffered is that of the next packet. *)
LEMMA FrontIsNextPacket ==
  ASSUME NEW S \in Seq(Byte), NEW A \in Seq(Packet), NEW m \in Nat,
         Continues(S, A, m), S # <<>>
  PROVE  /\ m + 1 <= Len(A)
         /\ \A j \in 1 .. Len(S) : j <= A[m + 1].size => S[j] = <<A[m + 1], j>>
  <1>1. 1 \in 1 .. Len(S)
    OBVIOUS
  <1>2. S[1] = <<A[m + 1], 1>>
    BY DEF Continues
  <1>3. /\ A[m + 1] \in Packet /\ A[m + 1].id \in m + 1 .. Len(A)
        /\ \A j \in 1 .. Len(S) : 1 + (j - 1) <= A[m + 1].size => S[j] = <<A[m + 1], 1 + (j - 1)>>
    BY <1>1, <1>2, ContinuesAt
  <1>4. A[m + 1].size \in Nat
    BY <1>3, BytesTyped
  <1>5. ASSUME NEW j \in 1 .. Len(S), j <= A[m + 1].size
        PROVE  S[j] = <<A[m + 1], j>>
    <2>1. 1 + (j - 1) = j
      OBVIOUS
    <2>2. QED  BY <1>3, <1>5, <2>1
  <1>6. QED  BY <1>3, <1>5

(* Without its first packet, the stream continues with the one after it. *)
LEMMA PoppedContinues ==
  ASSUME NEW S \in Seq(Byte), NEW A \in Seq(Packet), NEW m \in Nat, Numbered(A),
         Continues(S, A, m), S # <<>>, A[m + 1].size <= Len(S)
  PROVE  Continues(SubSeq(S, A[m + 1].size + 1, Len(S)), A, m + 1)
  <1> DEFINE z == A[m + 1].size
             R == SubSeq(S, z + 1, Len(S))
  <1>1. /\ m + 1 \in 1 .. Len(A) /\ A[m + 1] \in Packet /\ A[m + 1].id = m + 1
        /\ z \in Nat /\ z >= 1
    BY FrontIsNextPacket, NumberIsPlace, BytesTyped
  <1>2. S[z] = <<A[m + 1], z>> /\ z \in 1 .. Len(S) /\ A[m + 1].size = z
    BY <1>1, FrontIsNextPacket
  <1>r. /\ R \in Seq(Byte) /\ Len(R) = Len(S) - z
        /\ \A i \in 1 .. Len(S) - z : R[i] = S[z + i] /\ z + i \in 1 .. Len(S)
    <2>1. z \in 0 .. Len(S)
      BY <1>2
    <2>2. QED  BY <2>1, RestOf
  <1> HIDE DEF R, z
  <1>3. z < Len(S) => m + 1 < Len(A) /\ S[z + 1] = <<A[m + 2], 1>>
    <2>1. z < Len(S) => A[m + 1].id < Len(A) /\ S[z + 1] = <<A[A[m + 1].id + 1], 1>>
      BY <1>1, <1>2, ContinuesAt
    <2>2. (m + 1) + 1 = m + 2
      OBVIOUS
    <2>3. QED  BY <1>1, <2>1, <2>2
  <1>4. /\ R \in Seq(Byte) /\ Len(R) = Len(S) - z
        /\ \A i \in 1 .. Len(R) : R[i] = S[z + i] /\ z + i \in 1 .. Len(S)
    BY <1>1, <1>2, <1>r
  <1>5. ASSUME NEW i \in 1 .. Len(R)
        PROVE  \E p, k :
           /\ R[i] = <<p, k>>
           /\ p.id \in m + 1 + 1 .. Len(A) /\ A[p.id] = p /\ k \in 1 .. p.size
           /\ \A j \in i .. Len(R) :
                /\ p.id <= R[j][1].id
                /\ k + (j - i) <= p.size => R[j] = <<p, k + (j - i)>>
           /\ i < Len(R) /\ k = p.size =>
                p.id < Len(A) /\ R[i + 1] = <<A[p.id + 1], 1>>
    <2>1. z + i \in 1 .. Len(S) /\ R[i] = S[z + i] /\ S[z + i] \in Byte
      BY <1>4
    <2>2. PICK p, k : S[z + i] = <<p, k>>
      BY <2>1, ByteParts
    <2> DEFINE x == z + i
    <2>x. x \in 1 .. Len(S) /\ S[x] = <<p, k>>
      BY <2>1, <2>2
    <2> HIDE DEF x
    <2>y. /\ p \in Packet /\ p.id \in m + 1 .. Len(A) /\ A[p.id] = p /\ k \in 1 .. p.size
          /\ \A j \in x .. Len(S) :
               /\ p.id <= S[j][1].id
               /\ k + (j - x) <= p.size => S[j] = <<p, k + (j - x)>>
          /\ x < Len(S) /\ k = p.size =>
               p.id < Len(A) /\ S[x + 1] = <<A[p.id + 1], 1>>
      <3>1. S[x][1] = p /\ S[x][2] = k /\ p \in Packet
        BY <2>x, <2>1, <2>2, ByteParts
      <3>2. QED  BY <2>x, <3>1 DEF Continues
    <2>3. /\ p \in Packet /\ p.id \in m + 1 .. Len(A) /\ A[p.id] = p /\ k \in 1 .. p.size
          /\ \A j \in z + i .. Len(S) :
               /\ p.id <= S[j][1].id
               /\ k + (j - (z + i)) <= p.size => S[j] = <<p, k + (j - (z + i))>>
          /\ z + i < Len(S) /\ k = p.size =>
               p.id < Len(A) /\ S[z + i + 1] = <<A[p.id + 1], 1>>
      BY <2>y DEF x
    <2>4. p.id >= m + 2
      <3>1. z < Len(S) /\ z + 1 \in 1 .. Len(S) /\ z + i \in z + 1 .. Len(S)
        BY <1>1, <1>2, <1>4
      <3>2. A[m + 2] \in Packet /\ A[m + 2].id = m + 2
        BY <1>3, <3>1, NumberIsPlace
      <3>3. A[m + 2].id <= S[z + i][1].id
        <4>1. S[z + 1][1] = A[m + 2]
          BY <1>3, <3>1
        <4>2. S[z + 1][1].id <= S[z + i][1].id
          BY <3>1 DEF Continues
        <4>3. QED  BY <4>1, <4>2
      <3>4. QED  BY <2>2, <3>2, <3>3
    <2>5. ASSUME NEW j \in i .. Len(R)
          PROVE  /\ p.id <= R[j][1].id
                 /\ k + (j - i) <= p.size => R[j] = <<p, k + (j - i)>>
      <3>1. z + j \in z + i .. Len(S) /\ R[j] = S[z + j] /\ (z + j) - (z + i) = j - i
        <4>1. j \in Nat /\ i \in Nat /\ j >= i /\ j \in 1 .. Len(R)
          BY <1>4
        <4>2. z + j \in 1 .. Len(S) /\ R[j] = S[z + j]
          BY <1>4, <4>1
        <4>3. z + j >= z + i /\ (z + j) - (z + i) = j - i /\ z + i \in Nat
          BY <1>1, <4>1
        <4>4. QED  BY <4>2, <4>3
      <3>2. QED  BY <2>3, <3>1
    <2>6. i < Len(R) /\ k = p.size => p.id < Len(A) /\ R[i + 1] = <<A[p.id + 1], 1>>
      <3>1. SUFFICES ASSUME i < Len(R), k = p.size
                     PROVE  p.id < Len(A) /\ R[i + 1] = <<A[p.id + 1], 1>>
        OBVIOUS
      <3>2. z + i < Len(S) /\ R[i + 1] = S[z + (i + 1)] /\ z + (i + 1) = z + i + 1
        <4>1. i + 1 \in 1 .. Len(R) /\ i \in Nat /\ Len(R) \in Nat
          BY <1>4, <3>1
        <4>2. R[i + 1] = S[z + (i + 1)] /\ z + (i + 1) <= Len(S) /\ Len(S) \in Nat
          BY <1>4, <4>1, LenProperties
        <4>3. z + (i + 1) = z + i + 1 /\ z + i \in Nat
          BY <1>1, <4>1
        <4>4. QED  BY <4>2, <4>3
      <3>3. QED  BY <2>3, <3>1, <3>2
    <2>7. p.id \in m + 1 + 1 .. Len(A)
      BY <2>3, <2>4, BytesTyped
    <2>8. QED  BY <2>1, <2>2, <2>3, <2>5, <2>6, <2>7
  <1>6. R # <<>> => R[1] = <<A[m + 1 + 1], 1>>
    <2>1. R # <<>> => Len(R) >= 1
      BY <1>4
    <2>2. m + 1 + 1 = m + 2
      OBVIOUS
    <2>3. QED  BY <1>1, <1>3, <1>4, <2>1, <2>2
  <1>7. Continues(R, A, m + 1)
    <2>1. m + 1 \in Nat
      OBVIOUS
    <2>2. QED  BY <1>4, <1>5, <1>6, <2>1, ContinuesIf
  <1>8. QED  BY <1>7 DEF R, z

(* And ends where it ended. *)
LEMMA PoppedReachesTo ==
  ASSUME NEW S \in Seq(Byte), NEW A \in Seq(Packet), NEW m \in Nat, Numbered(A),
         Continues(S, A, m), S # <<>>, A[m + 1].size <= Len(S),
         NEW n \in 1 .. Len(A) + 1, NEW k \in Nat, k > 0 => n <= Len(A),
         ReachesTo(S, A, m, n, k)
  PROVE  ReachesTo(SubSeq(S, A[m + 1].size + 1, Len(S)), A, m + 1, n, k)
  <1> DEFINE z == A[m + 1].size
             R == SubSeq(S, z + 1, Len(S))
  <1>1. /\ m + 1 \in 1 .. Len(A) /\ A[m + 1] \in Packet /\ z \in Nat /\ z >= 1
        /\ S[z] = <<A[m + 1], z>>
    <2>1. m + 1 \in 1 .. Len(A) /\ \A j \in 1 .. Len(S) : j <= z => S[j] = <<A[m + 1], j>>
      BY FrontIsNextPacket
    <2>2. A[m + 1] \in Packet
      BY <2>1, ElementOfSeq
    <2>3. z \in Nat /\ z >= 1
      BY <2>2, BytesTyped
    <2>4. QED  BY <2>1, <2>2, <2>3
  <1>2. /\ R \in Seq(Byte) /\ Len(R) = Len(S) - z
        /\ \A i \in 1 .. Len(R) : R[i] = S[z + i] /\ z + i \in 1 .. Len(S)
    <2>1. z \in 0 .. Len(S)
      BY <1>1
    <2>2. QED  BY <2>1, RestOf
  <1>3. IF k > 0 THEN S[Len(S)] = <<A[n], k>>
                 ELSE n > 1 /\ S[Len(S)] = <<A[n - 1], A[n - 1].size>>
    BY DEF ReachesTo
  <1> HIDE DEF R, z
  <1>4. CASE R = <<>>
    <2>1. z = Len(S)
      BY <1>1, <1>2, <1>4
    <2>2. CASE k > 0
      <3>1. A[m + 1] = A[n] /\ z = k
        BY <1>1, <1>3, <2>1, <2>2
      <3>2. m + 1 = n
        BY <1>1, <2>2, <3>1, NumberIsPlace
      <3>3. QED  BY <1>4, <2>2, <3>1, <3>2 DEF ReachesTo, R, z
    <2>3. CASE k = 0
      <3>1. n > 1 /\ A[m + 1] = A[n - 1]
        BY <1>1, <1>3, <2>1, <2>3
      <3>2. m + 1 = n - 1
        BY <1>1, <3>1, NumberIsPlace
      <3>3. QED  BY <1>4, <2>3, <3>2 DEF ReachesTo, R, z
    <2>4. QED  BY <2>2, <2>3
  <1>5. CASE R # <<>>
    <2>1. Len(R) \in 1 .. Len(R) /\ z + Len(R) = Len(S)
      <3>1. Len(R) \in Nat \ {0}
        BY <1>2, <1>5, EmptySeq
      <3>2. Len(S) \in Nat
        OBVIOUS
      <3>3. QED  BY <1>1, <1>2, <3>1, <3>2
    <2>2. R[Len(R)] = S[Len(S)]
      BY <1>2, <2>1
    <2>3. QED  BY <1>3, <1>5, <2>2 DEF ReachesTo, R, z
  <1>6. QED  BY <1>4, <1>5

LEMMA Shift ==
  ASSUME NEW L \in Nat, NEW i \in Nat, NEW j \in Nat, NEW l \in Nat, NEW k \in Nat,
         l + (L - i) = k
  PROVE  k + (j - L) = l + (j - i)
  OBVIOUS

(* The bytes sent next continue the stream and take its end along. *)
LEMMA SentContinues ==
  ASSUME NEW S \in Seq(Byte), NEW A \in Seq(Packet), NEW m \in Nat, Numbered(A),
         Continues(S, A, m), NEW n \in 1 .. Len(A), NEW k \in Nat, NEW c \in Nat \ {0},
         k + c <= A[n].size, ReachesTo(S, A, m, n, k)
  PROVE  /\ S \o SubSeq(Bytes(A[n]), k + 1, k + c) \in Seq(Byte)
         /\ Continues(S \o SubSeq(Bytes(A[n]), k + 1, k + c), A, m)
         /\ ReachesTo(S \o SubSeq(Bytes(A[n]), k + 1, k + c), A, m, n, k + c)
  <1> DEFINE X == SubSeq(Bytes(A[n]), k + 1, k + c)
             E == S \o X
             q == A[n]
             L == Len(S)
  <1>1. /\ q \in Packet /\ q.id = n /\ A[n] = q /\ q.size \in Nat /\ q.size >= 1
        /\ Bytes(q) \in Seq(Byte) /\ Len(Bytes(q)) = q.size
        /\ \A i \in 1 .. q.size : Bytes(q)[i] = <<q, i>>
    BY NumberIsPlace, BytesTyped
  <1>2. X \in Seq(Byte) /\ Len(X) = c /\ \A i \in 1 .. c : X[i] = <<q, k + i>>
    <2>1. \A i \in k + 1 .. k + c : i \in 1 .. q.size /\ Bytes(q)[i] \in Byte /\ Bytes(q)[i] = <<q, i>>
      BY <1>1, ElementOfSeq
    <2>2. k + 1 \in Int /\ k + c \in Int /\ k + c - (k + 1) + 1 = c /\ k + 1 <= k + c
      OBVIOUS
    <2>3. /\ X \in Seq(Byte) /\ Len(X) = c
          /\ \A i \in 1 .. c : X[i] = Bytes(q)[k + 1 + i - 1]
      BY <2>1, <2>2, SubSeqProperties
    <2>4. ASSUME NEW i \in 1 .. c  PROVE  X[i] = <<q, k + i>>
      <3>1. k + 1 + i - 1 = k + i /\ k + i \in k + 1 .. k + c
        OBVIOUS
      <3>2. QED  BY <2>1, <2>3, <3>1
    <2>5. QED  BY <2>3, <2>4
  <1> HIDE DEF X, q
  <1>3. /\ E \in Seq(Byte) /\ L \in Nat /\ Len(E) = L + c
        /\ \A i \in 1 .. L : E[i] = S[i]
        /\ \A i \in L + 1 .. L + c : E[i] = <<q, k + (i - L)>>
    <2>1. E \in Seq(Byte) /\ Len(E) = L + c /\ L \in Nat
      <3>1. X \in Seq(Byte) /\ Len(X) = c /\ L \in Nat
        BY <1>2, LenProperties
      <3>2. QED  BY <3>1, ConcatProperties
    <2>2. \A i \in 1 .. L : E[i] = S[i]
      BY <1>2
    <2>3. ASSUME NEW i \in L + 1 .. L + c  PROVE  E[i] = <<q, k + (i - L)>>
      <3>1. E[i] = X[i - L] /\ i - L \in 1 .. c
        BY <1>2, <2>1
      <3>2. QED  BY <1>2, <3>1
    <2>4. QED  BY <2>1, <2>2, <2>3
  <1> HIDE DEF E
  \* Where the stream ended: before this packet, or in it.
  <1>4. S = <<>> => k = 0 /\ m + 1 = n
    BY <1>1 DEF ReachesTo, q
  <1>5. S # <<>> => L \in 1 .. L
    BY EmptySeq, <1>3
  <1>6. S # <<>> /\ k > 0 => S[L] = <<q, k>>
    BY DEF ReachesTo, q
  <1>7. S # <<>> /\ k = 0 => /\ n - 1 \in 1 .. Len(A) /\ A[n - 1] \in Packet /\ A[n - 1].id = n - 1
                             /\ S[L] = <<A[n - 1], A[n - 1].size>>
    <2>1. S # <<>> /\ k = 0 => n > 1 /\ S[L] = <<A[n - 1], A[n - 1].size>>
      BY DEF ReachesTo
    <2>2. n > 1 => n - 1 \in 1 .. Len(A)
      OBVIOUS
    <2>3. QED  BY <2>1, <2>2, NumberIsPlace
  <1>8. S # <<>> => S[L][1].id <= n /\ S[L][1].id \in m + 1 .. Len(A) /\ S[L][1].id \in Nat
    <2>1. S # <<>> /\ k > 0 => S[L][1] = q
      BY <1>6
    <2>2. S # <<>> /\ k = 0 => S[L][1] = A[n - 1]
      BY <1>7
    <2>3. S # <<>> => S[L][1].id \in m + 1 .. Len(A)
      BY <1>5 DEF Continues
    <2>4. QED  BY <1>1, <1>7, <2>1, <2>2, <2>3
  <1>9. n \in m + 1 .. Len(A)
    BY <1>4, <1>8
  <1>10. ASSUME NEW i \in L + 1 .. L + c
         PROVE  \E r, l :
           /\ E[i] = <<r, l>>
           /\ r.id \in m + 1 .. Len(A) /\ A[r.id] = r /\ l \in 1 .. r.size
           /\ \A j \in i .. Len(E) :
                /\ r.id <= E[j][1].id
                /\ l + (j - i) <= r.size => E[j] = <<r, l + (j - i)>>
           /\ i < Len(E) /\ l = r.size =>
                r.id < Len(A) /\ E[i + 1] = <<A[r.id + 1], 1>>
    <2> DEFINE l == k + (i - L)
    <2>0. L \in Nat /\ Len(E) = L + c /\ i \in Nat /\ i > L /\ i <= L + c
      BY <1>3
    <2>1. /\ E[i] = <<q, l>> /\ l \in 1 .. q.size
          /\ q.id \in m + 1 .. Len(A) /\ A[q.id] = q
      <3>1. E[i] = <<q, l>>
        BY <1>3
      <3>2. l \in Nat /\ l >= 1 /\ l <= k + c
        BY <2>0
      <3>3. l <= q.size
        BY <1>1, <3>2 DEF q
      <3>4. q.id \in m + 1 .. Len(A) /\ A[q.id] = q
        BY <1>1, <1>9
      <3>5. QED  BY <1>1, <3>1, <3>2, <3>3, <3>4
    <2>2. ASSUME NEW j \in i .. Len(E)
          PROVE  q.id <= E[j][1].id /\ E[j] = <<q, l + (j - i)>>
      <3>1. j \in L + 1 .. L + c /\ k + (j - L) = l + (j - i)
        <4>1. j \in Nat /\ j >= i /\ j <= L + c
          BY <2>0
        <4>2. QED  BY <2>0, <4>1
      <3>2. E[j] = <<q, l + (j - i)>>
        BY <1>3, <3>1
      <3>3. E[j][1] = q
        BY <3>2
      <3>4. QED  BY <1>1, <3>2, <3>3
    <2>3. ~(i < Len(E) /\ l = q.size)
      <3>1. i < L + c => l < k + c
        BY <2>0
      <3>2. QED  BY <1>1, <2>0, <3>1 DEF q
    <2> HIDE DEF l
    <2>4. QED  BY <2>1, <2>2, <2>3
  <1>11. ASSUME NEW i \in 1 .. L
         PROVE  \E r, l :
           /\ E[i] = <<r, l>>
           /\ r.id \in m + 1 .. Len(A) /\ A[r.id] = r /\ l \in 1 .. r.size
           /\ \A j \in i .. Len(E) :
                /\ r.id <= E[j][1].id
                /\ l + (j - i) <= r.size => E[j] = <<r, l + (j - i)>>
           /\ i < Len(E) /\ l = r.size =>
                r.id < Len(A) /\ E[i + 1] = <<A[r.id + 1], 1>>
    <2>1. S # <<>> /\ L \in i .. L
      BY <1>3
    <2>2. PICK r, l : S[i] = <<r, l>>
      BY ElementOfSeq, ByteParts
    <2>3. /\ r \in Packet /\ r.id \in m + 1 .. Len(A) /\ A[r.id] = r /\ l \in 1 .. r.size
          /\ \A j \in i .. L :
               /\ r.id <= S[j][1].id
               /\ l + (j - i) <= r.size => S[j] = <<r, l + (j - i)>>
          /\ i < L /\ l = r.size =>
               r.id < Len(A) /\ S[i + 1] = <<A[r.id + 1], 1>>
      <3>1. S[i][1] = r /\ S[i][2] = l /\ r \in Packet
        BY <2>2, ElementOfSeq, ByteParts
      <3>2. QED  BY <3>1 DEF Continues
    <2>4. r.size \in Nat /\ r.id \in Nat /\ l \in Nat
      BY <2>3, BytesTyped
    <2>5. r.id <= n
      <3>1. r.id <= S[L][1].id
        BY <2>1, <2>3
      <3>2. S[L][1].id \in Nat /\ S[L][1].id <= n
        BY <1>8, <2>1
      <3>3. QED  BY <2>4, <3>1, <3>2
    <2>6. ASSUME NEW j \in L + 1 .. L + c, l + (j - i) <= r.size
          PROVE  E[j] = <<r, l + (j - i)>>
      <3>0. L \in Nat /\ i \in Nat /\ j \in Nat /\ j > L
        BY <1>3
      <3>1. l + (L - i) < r.size /\ S[L] = <<r, l + (L - i)>>
        <4>1. l + (L - i) < r.size
          BY <2>4, <2>6, <3>0
        <4>2. l + (L - i) <= r.size
          BY <2>4, <3>0, <4>1
        <4>3. QED  BY <2>1, <2>3, <4>1, <4>2
      <3>2. k # 0
        <4>1. SUFFICES ASSUME k = 0  PROVE FALSE
          OBVIOUS
        <4>2. r = A[n - 1] /\ l + (L - i) = A[n - 1].size
          BY <1>7, <2>1, <3>1, <4>1
        <4>3. QED  BY <2>4, <3>1, <4>2
      <3>3. r = q /\ l + (L - i) = k
        BY <1>6, <2>1, <3>1, <3>2
      <3>4. k + (j - L) = l + (j - i)
        <4>1. l + (L - i) = k
          BY <3>3
        <4>2. l \in Nat
          BY <2>4
        <4>3. L \in Nat /\ i \in Nat /\ j \in Nat
          BY <3>0
        <4> HIDE DEF L
        <4>4. QED  BY <4>1, <4>2, <4>3, Shift
      <3>5. QED  BY <1>3, <3>3, <3>4
    <2>7. ASSUME NEW j \in i .. Len(E)
          PROVE  /\ r.id <= E[j][1].id
                 /\ l + (j - i) <= r.size => E[j] = <<r, l + (j - i)>>
      <3>1. CASE j \in i .. L
        <4>1. E[j] = S[j]
          BY <1>3, <3>1
        <4>2. QED  BY <2>3, <3>1, <4>1
      <3>2. CASE j \in L + 1 .. L + c
        <4>1. E[j][1] = q
          BY <1>3, <3>2
        <4>2. QED  BY <1>1, <2>5, <2>6, <3>2, <4>1
      <3>3. QED  BY <1>3, <3>1, <3>2
    <2>8. ASSUME i < Len(E), l = r.size
          PROVE  r.id < Len(A) /\ E[i + 1] = <<A[r.id + 1], 1>>
      <3>1. CASE i < L
        <4>1. i + 1 \in 1 .. L
          BY <1>3, <3>1
        <4>2. QED  BY <1>3, <2>3, <2>8, <3>1, <4>1
      <3>2. CASE i = L
        <4>1. k = 0
          <5>1. SUFFICES ASSUME k > 0  PROVE FALSE
            OBVIOUS
          <5>2. r = q /\ l = k
            BY <1>6, <2>1, <2>2, <3>2, <5>1
          <5>3. QED  BY <1>1, <2>8, <5>2 DEF q
        <4>2. r = A[n - 1] /\ r.id = n - 1
          BY <1>7, <2>1, <2>2, <3>2, <4>1
        <4>3. E[L + 1] = <<q, k + (L + 1 - L)>> /\ k + (L + 1 - L) = 1
          BY <1>3, <4>1
        <4>4. r.id + 1 = n /\ r.id < Len(A)
          BY <4>2
        <4>5. QED  BY <1>1, <3>2, <4>3, <4>4
      <3>3. QED  BY <1>3, <3>1, <3>2
    <2>9. E[i] = <<r, l>>
      BY <1>3, <2>2
    <2>10. QED  BY <2>3, <2>7, <2>8, <2>9
  <1>12. E # <<>> => E[1] = <<A[m + 1], 1>>
    <2>1. CASE S = <<>>
      <3>1. L = 0 /\ 1 \in L + 1 .. L + c /\ k + (1 - L) = 1
        BY <1>4, <2>1
      <3>2. QED  BY <1>3, <1>4, <2>1, <3>1 DEF q
    <2>2. CASE S # <<>>
      <3>1. 1 \in 1 .. L /\ S[1] = <<A[m + 1], 1>>
        BY <1>5, <2>2 DEF Continues
      <3>2. QED  BY <1>3, <3>1
    <2>3. QED  BY <2>1, <2>2
  <1>13. Continues(E, A, m)
    <2>1. \A i \in 1 .. Len(E) : i \in 1 .. L \/ i \in L + 1 .. L + c
      BY <1>3
    <2>2. QED  BY <1>3, <1>10, <1>11, <1>12, <2>1, ContinuesIf
  <1>14. ReachesTo(E, A, m, n, k + c)
    <2>1. Len(E) \in L + 1 .. L + c /\ k + (Len(E) - L) = k + c /\ E # <<>> /\ k + c > 0
      BY <1>3
    <2>2. E[Len(E)] = <<A[n], k + c>>
      BY <1>3, <2>1 DEF q
    <2>3. QED  BY <2>1, <2>2 DEF ReachesTo
  <1>15. QED  BY <1>3, <1>13, <1>14 DEF E, X, q

(* A packet that has left as a whole leaves the sender before the next one. *)
LEMMA SentWhole ==
  ASSUME NEW S \in Seq(Byte), NEW A \in Seq(Packet), NEW m \in Nat,
         NEW n \in 1 .. Len(A), ReachesTo(S, A, m, n, A[n].size)
  PROVE  ReachesTo(S, A, m, n + 1, 0)
  <1>1. A[n].size \in Nat /\ A[n].size > 0
    BY ElementOfSeq, BytesTyped
  <1>2. n + 1 > 1 /\ n + 1 - 1 = n /\ ~(0 > 0)
    OBVIOUS
  <1>3. CASE S = <<>>
    BY <1>1, <1>2, <1>3 DEF ReachesTo
  <1>4. CASE S # <<>>
    BY <1>1, <1>2, <1>4 DEF ReachesTo
  <1>5. QED  BY <1>3, <1>4

(* A packet accepted now comes after everything on its way. *)
LEMMA AcceptedContinues ==
  ASSUME NEW S \in Seq(Byte), NEW A \in Seq(Packet), NEW m \in Nat,
         Continues(S, A, m), NEW p \in Packet
  PROVE  Continues(S, Append(A, p), m)
  <1> DEFINE B == Append(A, p)
  <1>1. Len(B) = Len(A) + 1 /\ \A i \in 1 .. Len(A) : B[i] = A[i]
    BY AppendProperties
  <1> HIDE DEF B
  <1>2. S # <<>> => S[1] = <<B[m + 1], 1>>
    <2>1. S # <<>> => m + 1 \in 1 .. Len(A) /\ S[1] = <<A[m + 1], 1>>
      BY FrontIsNextPacket DEF Continues
    <2>2. QED  BY <1>1, <2>1
  <1>3. ASSUME NEW i \in 1 .. Len(S)
        PROVE  \E r, l :
           /\ S[i] = <<r, l>>
           /\ r.id \in m + 1 .. Len(B) /\ B[r.id] = r /\ l \in 1 .. r.size
           /\ \A j \in i .. Len(S) :
                /\ r.id <= S[j][1].id
                /\ l + (j - i) <= r.size => S[j] = <<r, l + (j - i)>>
           /\ i < Len(S) /\ l = r.size =>
                r.id < Len(B) /\ S[i + 1] = <<B[r.id + 1], 1>>
    <2>1. PICK r, l : S[i] = <<r, l>>
      BY ElementOfSeq, ByteParts
    <2>2. S[i][1] = r /\ S[i][2] = l
      BY <2>1
    <2>3. /\ r.id \in m + 1 .. Len(A) /\ A[r.id] = r /\ l \in 1 .. r.size
          /\ \A j \in i .. Len(S) :
               /\ r.id <= S[j][1].id
               /\ l + (j - i) <= r.size => S[j] = <<r, l + (j - i)>>
          /\ i < Len(S) /\ l = r.size =>
               r.id < Len(A) /\ S[i + 1] = <<A[r.id + 1], 1>>
      BY <2>2 DEF Continues
    <2>4. r.id \in m + 1 .. Len(B) /\ B[r.id] = r /\ (r.id < Len(A) => B[r.id + 1] = A[r.id + 1])
      <3>1. r.id \in 1 .. Len(A) /\ r.id \in m + 1 .. Len(B)
        BY <1>1, <2>3
      <3>2. r.id < Len(A) => r.id + 1 \in 1 .. Len(A)
        BY <3>1
      <3>3. QED  BY <1>1, <2>3, <3>1, <3>2
    <2>5. i < Len(S) /\ l = r.size => r.id < Len(B) /\ S[i + 1] = <<B[r.id + 1], 1>>
      BY <1>1, <2>3, <2>4
    <2>6. QED  BY <2>1, <2>3, <2>4, <2>5
  <1>4. B \in Seq(Packet)
    BY AppendProperties DEF B
  <1>5. Continues(S, B, m)
    BY <1>2, <1>3, <1>4, ContinuesIf
  <1>6. QED  BY <1>5 DEF B

LEMMA AcceptedReachesTo ==
  ASSUME NEW S \in Seq(Byte), NEW A \in Seq(Packet), NEW m \in Nat,
         NEW n \in 1 .. Len(A) + 1, NEW k \in Nat, k > 0 => n <= Len(A),
         ReachesTo(S, A, m, n, k), NEW p \in Packet
  PROVE  ReachesTo(S, Append(A, p), m, n, k)
  <1>1. \A i \in 1 .. Len(A) : Append(A, p)[i] = A[i]
    BY AppendProperties
  <1>2. k > 0 => Append(A, p)[n] = A[n]
    BY <1>1
  <1>3. n > 1 => Append(A, p)[n - 1] = A[n - 1]
    BY <1>1
  <1>4. QED  BY <1>2, <1>3 DEF ReachesTo

(* The bytes still to come can be lost, those that came continue the stream. *)
LEMMA FrontContinues ==
  ASSUME NEW S \in Seq(Byte), NEW W \in Seq(Byte), NEW A \in Seq(Packet), NEW m \in Nat,
         Continues(S \o W, A, m)
  PROVE  Continues(S, A, m)
  <1> DEFINE E == S \o W
  <1>1. E \in Seq(Byte) /\ Len(E) = Len(S) + Len(W) /\ \A i \in 1 .. Len(S) : E[i] = S[i]
    OBVIOUS
  <1>2. Continues(E, A, m)
    OBVIOUS
  <1> HIDE DEF E
  <1>3. S # <<>> => S[1] = <<A[m + 1], 1>>
    <2>1. S # <<>> => 1 \in 1 .. Len(S) /\ E # <<>>
      BY <1>1, EmptySeq
    <2>2. QED  BY <1>1, <1>2, <2>1 DEF Continues
  <1>4. ASSUME NEW i \in 1 .. Len(S)
        PROVE  \E r, l :
           /\ S[i] = <<r, l>>
           /\ r.id \in m + 1 .. Len(A) /\ A[r.id] = r /\ l \in 1 .. r.size
           /\ \A j \in i .. Len(S) :
                /\ r.id <= S[j][1].id
                /\ l + (j - i) <= r.size => S[j] = <<r, l + (j - i)>>
           /\ i < Len(S) /\ l = r.size =>
                r.id < Len(A) /\ S[i + 1] = <<A[r.id + 1], 1>>
    <2>1. PICK r, l : S[i] = <<r, l>>
      BY ElementOfSeq, ByteParts
    <2>2. E[i][1] = r /\ E[i][2] = l /\ i \in 1 .. Len(E)
      BY <1>1, <2>1
    <2>3. /\ r.id \in m + 1 .. Len(A) /\ A[r.id] = r /\ l \in 1 .. r.size
          /\ \A j \in i .. Len(E) :
               /\ r.id <= E[j][1].id
               /\ l + (j - i) <= r.size => E[j] = <<r, l + (j - i)>>
          /\ i < Len(E) /\ l = r.size =>
               r.id < Len(A) /\ E[i + 1] = <<A[r.id + 1], 1>>
      BY <1>2, <2>2 DEF Continues
    <2>4. \A j \in i .. Len(S) : j \in i .. Len(E) /\ E[j] = S[j]
      BY <1>1
    <2>5. i < Len(S) => i < Len(E) /\ E[i + 1] = S[i + 1]
      BY <1>1
    <2>6. ASSUME NEW j \in i .. Len(S)
          PROVE  /\ r.id <= S[j][1].id
                 /\ l + (j - i) <= r.size => S[j] = <<r, l + (j - i)>>
      BY <2>3, <2>4
    <2>7. i < Len(S) /\ l = r.size => r.id < Len(A) /\ S[i + 1] = <<A[r.id + 1], 1>>
      BY <2>3, <2>5
    <2>8. QED  BY <2>1, <2>3, <2>6, <2>7
  <1>5. QED  BY <1>3, <1>4, ContinuesIf

-----------------------------------------------------------------------------
(* The framer.                                                             *)

LEMMA BufferedTyped ==
  ASSUME NEW f, FramerOK(f)
  PROVE  /\ f.buffer \in Seq(Byte) /\ f.readOffset \in 0 .. Len(f.buffer)
         /\ Buffered(f) \in Seq(Byte)
         /\ Len(Buffered(f)) = Len(f.buffer) - f.readOffset
         /\ \A i \in 1 .. Len(Buffered(f)) : Buffered(f)[i] = f.buffer[f.readOffset + i]
  <1>1. f.buffer \in Seq(Byte) /\ f.readOffset \in 0 .. Len(f.buffer)
    BY DEF FramerOK, Framer
  <1>2. QED  BY <1>1, RestOf DEF Buffered

(* Append adds the bytes behind what is buffered and forgets what was popped. *)
LEMMA AppendedBuffered ==
  ASSUME NEW f, FramerOK(f), NEW b \in Seq(Byte), AppendSucceeds(f, b)
  PROVE  /\ FramerOK(AfterAppend(f, b))
         /\ Buffered(AfterAppend(f, b)) = Buffered(f) \o b
         /\ Len(AfterAppend(f, b).buffer) = Len(Buffered(f)) + Len(b)
  <1> DEFINE g == AfterAppend(f, b)
             B == Buffered(f)
  <1>1. B \in Seq(Byte)
    BY BufferedTyped
  <1>2. g = [buffer |-> B \o b, readOffset |-> 0]
    BY DEF AfterAppend, CompactConsumedBytes
  <1>3. B \o b \in Seq(Byte) /\ Len(B \o b) = Len(B) + Len(b)
    BY <1>1, ConcatProperties
  <1> HIDE DEF B, g
  <1>4. g.buffer = B \o b /\ g.readOffset = 0 /\ g \in Framer
    BY <1>2, <1>3 DEF Framer
  <1>5. Buffered(g) = B \o b
    <2>1. Buffered(g) = SubSeq(B \o b, 1, Len(B \o b))
      BY <1>4 DEF Buffered
    <2>2. QED  BY <1>3, <2>1, SubSeqFull
  <1>6. 0 <= Len(g.buffer)
    BY <1>3, <1>4
  <1>7. QED  BY <1>3, <1>4, <1>5, <1>6 DEF FramerOK, B, g

(* Popping moves past the packet, which has to be there. *)
LEMMA PoppedBuffered ==
  ASSUME NEW f, FramerOK(f), SizeInHeader(f) \in 0 .. Len(Buffered(f))
  PROVE  /\ FramerOK(AfterPop(f)) /\ AfterPop(f).buffer = f.buffer
         /\ Buffered(AfterPop(f)) =
              SubSeq(Buffered(f), SizeInHeader(f) + 1, Len(Buffered(f)))
  <1> DEFINE z == SizeInHeader(f)
             g == AfterPop(f)
             R == SubSeq(Buffered(f), z + 1, Len(Buffered(f)))
  <1>1. /\ f.buffer \in Seq(Byte) /\ f.readOffset \in 0 .. Len(f.buffer)
        /\ Buffered(f) \in Seq(Byte)
        /\ Len(Buffered(f)) = Len(f.buffer) - f.readOffset
        /\ \A i \in 1 .. Len(Buffered(f)) : Buffered(f)[i] = f.buffer[f.readOffset + i]
    BY BufferedTyped
  <1>2. f \in Framer
    BY DEF FramerOK
  <1>3. z \in 0 .. Len(Buffered(f))
    OBVIOUS
  <1>4. g.buffer = f.buffer /\ g.readOffset = f.readOffset + z
    BY <1>2 DEF Framer, AfterPop
  <1>5. FramerOK(g)
    <2>1. f.readOffset + z \in Nat /\ f.readOffset + z <= Len(f.buffer)
      BY <1>1, <1>3
    <2>2. g \in Framer
      BY <1>1, <1>2, <2>1 DEF Framer, AfterPop
    <2>3. QED  BY <1>4, <2>1, <2>2 DEF FramerOK
  <1>6. /\ R \in Seq(Byte) /\ Len(R) = Len(Buffered(f)) - z
        /\ \A i \in 1 .. Len(Buffered(f)) - z :
             R[i] = Buffered(f)[z + i] /\ z + i \in 1 .. Len(Buffered(f))
    BY <1>1, <1>3, RestOf
  <1>7. /\ Buffered(g) \in Seq(Byte) /\ Len(Buffered(g)) = Len(g.buffer) - g.readOffset
        /\ \A i \in 1 .. Len(Buffered(g)) : Buffered(g)[i] = g.buffer[g.readOffset + i]
    BY <1>5, BufferedTyped
  <1> HIDE DEF g, z, R
  <1>8. Len(Buffered(g)) = Len(R)
    BY <1>1, <1>3, <1>4, <1>6, <1>7
  <1>9. ASSUME NEW i \in 1 .. Len(R)
        PROVE  Buffered(g)[i] = R[i]
    <2>1. i \in 1 .. Len(Buffered(f)) - z /\ i \in 1 .. Len(Buffered(g))
      BY <1>6, <1>8
    <2>2. R[i] = f.buffer[f.readOffset + (z + i)]
      BY <1>1, <1>6, <2>1
    <2>3. Buffered(g)[i] = f.buffer[f.readOffset + z + i]
      BY <1>4, <1>7, <2>1
    <2>4. f.readOffset + (z + i) = f.readOffset + z + i
      BY <1>1, <1>3, <2>1
    <2>5. QED  BY <2>2, <2>3, <2>4
  <1>10. Buffered(g) = R
    BY <1>6, <1>7, <1>8, <1>9, SeqEqual
  <1>11. QED  BY <1>4, <1>5, <1>10 DEF g, z, R

(* With a stream that continues, what is popped is the next packet, and a loop *)
(* that pops nothing has less than a packet of the largest size.               *)
LEMMA PopFindsNextPacket ==
  ASSUME NEW f, FramerOK(f), NEW W \in Seq(Byte), NEW A \in Seq(Packet), NEW m \in Nat,
         Continues(Buffered(f) \o W, A, m)
  PROVE  /\ PopResult(f) # "Invalid"
         /\ PopResult(f) = "Ready" =>
              /\ Popped(f) = A[m + 1] /\ m + 1 \in 1 .. Len(A)
              /\ SizeInHeader(f) = A[m + 1].size /\ SizeInHeader(f) \in 1 .. Len(Buffered(f))
         /\ PopResult(f) # "Ready" => Len(Buffered(f)) < MaxPacketSize
  <1> DEFINE B == Buffered(f)
             z == SizeInHeader(f)
             q == A[m + 1]
  <1>1. /\ f.buffer \in Seq(Byte) /\ f.readOffset \in 0 .. Len(f.buffer)
        /\ B \in Seq(Byte) /\ Len(B) \in Nat
        /\ \A i \in 1 .. Len(B) : B[i] = f.buffer[f.readOffset + i]
    BY BufferedTyped
  <1>2. Continues(B, A, m)
    BY <1>1, FrontContinues
  <1>3. HeaderSize \in Nat \ {0} /\ MaxPacketSize \in Nat /\ HeaderSize <= MaxPacketSize
    BY SizesAssumption
  <1>4. CASE ~HasHeader(f)
    <2>1. Len(B) < MaxPacketSize
      BY <1>1, <1>3, <1>4 DEF HasHeader
    <2>2. QED  BY <1>4, <2>1 DEF PopResult
  <1>5. CASE HasHeader(f)
    <2>1. Len(B) >= HeaderSize /\ B # <<>>
      BY <1>1, <1>3, <1>5, EmptySeq DEF HasHeader
    <2>2. m + 1 \in 1 .. Len(A) /\ \A j \in 1 .. Len(B) : j <= q.size => B[j] = <<q, j>>
      BY <1>1, <1>2, <2>1, FrontIsNextPacket
    <2>3. q \in Packet
      BY <2>2, ElementOfSeq
    <2>4. q.size \in Nat /\ q.size >= HeaderSize /\ q.size <= MaxPacketSize
      BY <2>3, BytesTyped
    <2>5. \A j \in 1 .. HeaderSize : f.buffer[f.readOffset + j] = <<q, j>>
      <3>1. \A j \in 1 .. HeaderSize : j \in 1 .. Len(B) /\ j <= q.size
        <4>1. Len(B) \in Nat /\ Len(B) >= HeaderSize
          BY <1>1, <2>1
        <4>2. QED  BY <1>3, <2>4, <4>1
      <3>2. QED  BY <1>1, <2>2, <3>1
    <2>6. f.buffer[f.readOffset + 1] = <<q, 1>>
      BY <1>3, <2>5
    <2>7. f.buffer[f.readOffset + 1][1] = q
      BY <2>6
    <2>8. z = q.size
      BY <2>5, <2>7 DEF SizeInHeader
    <2>9. Popped(f) = q
      BY <2>7 DEF Popped
    <2>10. z \in HeaderSize .. MaxPacketSize
      BY <1>3, <2>4, <2>8
    <2>11. CASE HoldsPacket(f)
      <3>1. PopResult(f) = "Ready"
        BY <1>5, <2>10, <2>11 DEF PopResult
      <3>2. z \in 1 .. Len(B)
        BY <1>1, <1>3, <2>4, <2>8, <2>11 DEF HoldsPacket
      <3>3. QED  BY <2>2, <2>8, <2>9, <3>1, <3>2
    <2>12. CASE ~HoldsPacket(f)
      <3>1. PopResult(f) = "NeedMoreData"
        BY <1>5, <2>10, <2>12 DEF PopResult
      <3>2. Len(B) < MaxPacketSize
        BY <1>1, <1>3, <2>4, <2>8, <2>12 DEF HoldsPacket
      <3>3. QED  BY <3>1, <3>2
    <2>13. QED  BY <2>11, <2>12
  <1>6. QED  BY <1>4, <1>5

(* What is on its way loses its first packet at the framer, and nothing when *)
(* bytes go from the connection into the framer.                             *)
LEMMA PopFromFront ==
  ASSUME NEW B \in Seq(Byte), NEW W \in Seq(Byte), NEW z \in 1 .. Len(B)
  PROVE  SubSeq(B, z + 1, Len(B)) \o W = SubSeq(B \o W, z + 1, Len(B \o W))
  <1> DEFINE E == B \o W
             R == SubSeq(B, z + 1, Len(B))
             Q == SubSeq(E, z + 1, Len(E))
  <1>1. E \in Seq(Byte) /\ Len(E) = Len(B) + Len(W) /\ Len(B) \in Nat /\ Len(W) \in Nat
    BY ConcatProperties
  <1>2. /\ R \in Seq(Byte) /\ Len(R) = Len(B) - z
        /\ \A i \in 1 .. Len(B) - z : R[i] = B[z + i] /\ z + i \in 1 .. Len(B)
    BY RestOf
  <1>3. z \in 0 .. Len(E)
    BY <1>1
  <1>4. /\ Q \in Seq(Byte) /\ Len(Q) = Len(E) - z
        /\ \A i \in 1 .. Len(E) - z : Q[i] = E[z + i] /\ z + i \in 1 .. Len(E)
    BY <1>1, <1>3, RestOf
  <1>5. /\ R \o W \in Seq(Byte) /\ Len(R \o W) = Len(R) + Len(W)
        /\ \A i \in 1 .. Len(R) + Len(W) :
             (R \o W)[i] = IF i <= Len(R) THEN R[i] ELSE W[i - Len(R)]
    BY <1>2, ConcatProperties
  <1>6. \A i \in 1 .. Len(B) + Len(W) : E[i] = IF i <= Len(B) THEN B[i] ELSE W[i - Len(B)]
    BY ConcatProperties
  <1> HIDE DEF E, R, Q
  <1>7. Len(R \o W) = Len(Q)
    BY <1>1, <1>2, <1>4, <1>5
  <1>8. ASSUME NEW i \in 1 .. Len(Q)  PROVE  (R \o W)[i] = Q[i]
    <2>1. i \in 1 .. Len(E) - z /\ z + i \in 1 .. Len(B) + Len(W) /\ i \in 1 .. Len(R) + Len(W)
      BY <1>1, <1>2, <1>4
    <2>2. Q[i] = E[z + i]
      BY <1>4, <2>1
    <2>3. CASE i <= Len(R)
      <3>1. i \in 1 .. Len(B) - z /\ z + i <= Len(B)
        BY <1>1, <1>2, <2>1, <2>3
      <3>2. (R \o W)[i] = B[z + i]
        BY <1>2, <1>5, <2>1, <2>3, <3>1
      <3>3. E[z + i] = B[z + i]
        BY <1>6, <2>1, <3>1
      <3>4. QED  BY <2>2, <3>2, <3>3
    <2>4. CASE ~(i <= Len(R))
      <3>1. ~(z + i <= Len(B)) /\ (z + i) - Len(B) = i - Len(R)
        BY <1>1, <1>2, <2>1, <2>4
      <3>2. E[z + i] = W[(z + i) - Len(B)]
        BY <1>6, <2>1, <3>1
      <3>3. (R \o W)[i] = W[i - Len(R)]
        BY <1>5, <2>1, <2>4
      <3>4. QED  BY <2>2, <3>1, <3>2, <3>3
    <2>5. QED  BY <2>3, <2>4
  <1>9. R \o W = Q
    BY <1>4, <1>5, <1>7, <1>8, SeqEqual
  <1>10. QED  BY <1>9 DEF E, R, Q

LEMMA BytesAssociative ==
  ASSUME NEW B \in Seq(Byte), NEW X \in Seq(Byte), NEW Y \in Seq(Byte)
  PROVE  (B \o X) \o Y = B \o (X \o Y)
  BY ConcatAssociative

LEMMA MoveToFramer ==
  ASSUME NEW B \in Seq(Byte), NEW W \in Seq(Byte), NEW n \in 1 .. Len(W)
  PROVE  /\ SubSeq(W, 1, n) \in Seq(Byte) /\ Len(SubSeq(W, 1, n)) = n
         /\ SubSeq(W, n + 1, Len(W)) \in Seq(Byte)
         /\ (B \o SubSeq(W, 1, n)) \o SubSeq(W, n + 1, Len(W)) = B \o W
  <1>1. n \in 0 .. Len(W)
    OBVIOUS
  <1>2. SubSeq(W, 1, n) \in Seq(Byte) /\ Len(SubSeq(W, 1, n)) = n
        /\ SubSeq(W, n + 1, Len(W)) \in Seq(Byte)
    BY <1>1, FrontOf, RestOf
  <1>3. SubSeq(W, 1, n) \o SubSeq(W, n + 1, Len(W)) = W
    <2>1. 1 \in 1 .. Len(W) + 1 /\ n \in 1 - 1 .. Len(W) /\ Len(W) \in n .. Len(W)
      OBVIOUS
    <2>2. SubSeq(W, 1, n) \o SubSeq(W, n + 1, Len(W)) = SubSeq(W, 1, Len(W))
      BY <2>1, ConcatAdjacentSubSeq
    <2>3. QED  BY <2>2, SubSeqFull
  <1>4. (B \o SubSeq(W, 1, n)) \o SubSeq(W, n + 1, Len(W))
          = B \o (SubSeq(W, 1, n) \o SubSeq(W, n + 1, Len(W)))
    <2> DEFINE X == SubSeq(W, 1, n)
               Y == SubSeq(W, n + 1, Len(W))
    <2>1. X \in Seq(Byte) /\ Y \in Seq(Byte)
      BY <1>2
    <2> HIDE DEF X, Y
    <2>2. (B \o X) \o Y = B \o (X \o Y)
      BY <2>1, BytesAssociative
    <2>3. QED  BY <2>2 DEF X, Y
  <1>5. QED  BY <1>2, <1>3, <1>4

-----------------------------------------------------------------------------
(* The queues of packets at both ends.                                     *)

LEMMA NumberedAppend ==
  ASSUME NEW A \in Seq(Packet), Numbered(A), NEW p \in Packet, p.id = Len(A) + 1
  PROVE  Numbered(Append(A, p))
  <1>1. /\ Len(Append(A, p)) = Len(A) + 1
        /\ \A i \in 1 .. Len(A) : Append(A, p)[i] = A[i]
        /\ Append(A, p)[Len(A) + 1] = p
    BY AppendProperties
  <1>2. QED  BY <1>1 DEF Numbered

LEMMA LastOfAppend ==
  ASSUME NEW A \in Seq(Packet), NEW q \in Seq(Packet), LastOf(q, A), NEW p \in Packet
  PROVE  LastOf(Append(q, p), Append(A, p))
  <1> DEFINE r == Append(q, p)
             B == Append(A, p)
  <1>1. /\ Len(r) = Len(q) + 1 /\ r[Len(q) + 1] = p
        /\ \A i \in 1 .. Len(q) : r[i] = q[i]
    BY AppendProperties
  <1>2. /\ Len(B) = Len(A) + 1 /\ B[Len(A) + 1] = p
        /\ \A i \in 1 .. Len(A) : B[i] = A[i]
    BY AppendProperties
  <1>3. /\ Len(q) \in Nat /\ Len(A) \in Nat /\ Len(q) <= Len(A)
        /\ \A i \in 1 .. Len(q) : q[i] = A[Len(A) - Len(q) + i]
    BY LenProperties DEF LastOf
  <1> HIDE DEF r, B
  <1>4. ASSUME NEW i \in 1 .. Len(r)  PROVE  r[i] = B[Len(B) - Len(r) + i]
    <2>1. Len(B) - Len(r) + i = Len(A) - Len(q) + i
      BY <1>1, <1>2, <1>3
    <2>2. CASE i \in 1 .. Len(q)
      <3>1. Len(A) - Len(q) + i \in 1 .. Len(A)
        BY <1>3, <2>2
      <3>2. QED  BY <1>1, <1>2, <1>3, <2>1, <2>2, <3>1
    <2>3. CASE i = Len(q) + 1
      <3>1. Len(A) - Len(q) + i = Len(A) + 1
        BY <1>3, <2>3
      <3>2. QED  BY <1>1, <1>2, <2>1, <2>3, <3>1
    <2>4. QED  BY <1>1, <1>3, <2>2, <2>3
  <1>5. LastOf(r, B)
    BY <1>1, <1>2, <1>3, <1>4 DEF LastOf
  <1>6. QED  BY <1>5 DEF r, B

LEMMA LastOfTail ==
  ASSUME NEW A \in Seq(Packet), NEW q \in Seq(Packet), LastOf(q, A), q # <<>>
  PROVE  /\ LastOf(Tail(q), A) /\ Tail(q) \in Seq(Packet) /\ Len(Tail(q)) = Len(q) - 1
         /\ Len(A) - Len(q) + 1 \in 1 .. Len(A) /\ Head(q) = A[Len(A) - Len(q) + 1]
         /\ Head(q) \in Packet
  <1>1. /\ Tail(q) \in Seq(Packet) /\ Len(Tail(q)) = Len(q) - 1 /\ Head(q) \in Packet
        /\ \A i \in 1 .. Len(Tail(q)) : Tail(q)[i] = q[i + 1]
    BY HeadTailProperties
  <1>2. Len(q) \in Nat \ {0} /\ Len(A) \in Nat /\ Head(q) = q[1]
    BY EmptySeq
  <1>3. Len(q) <= Len(A) /\ \A i \in 1 .. Len(q) : q[i] = A[Len(A) - Len(q) + i]
    BY DEF LastOf
  <1>4. \A i \in 1 .. Len(Tail(q)) : i + 1 \in 1 .. Len(q) /\ Len(A) - Len(q) + (i + 1) = Len(A) - Len(Tail(q)) + i
    BY <1>1, <1>2
  <1>5. LastOf(Tail(q), A)
    BY <1>1, <1>2, <1>3, <1>4 DEF LastOf
  <1>6. QED  BY <1>1, <1>2, <1>3, <1>5

LEMMA AfterAccepted ==
  ASSUME NEW A \in Seq(Packet), NEW q \in Seq(Packet), NEW d \in Seq(Packet),
         After(q, A, d), NEW p \in Packet
  PROVE  After(q, Append(A, p), d)
  BY AppendProperties DEF After

LEMMA AfterPopped ==
  ASSUME NEW A \in Seq(Packet), NEW q \in Seq(Packet), NEW d \in Seq(Packet),
         After(q, A, d), Len(d) + Len(q) + 1 <= Len(A)
  PROVE  /\ After(Append(q, A[Len(d) + Len(q) + 1]), A, d)
         /\ Append(q, A[Len(d) + Len(q) + 1]) \in Seq(Packet)
         /\ Len(Append(q, A[Len(d) + Len(q) + 1])) = Len(q) + 1
  <1> DEFINE p == A[Len(d) + Len(q) + 1]
             r == Append(q, p)
  <1>1. Len(d) \in Nat /\ Len(q) \in Nat /\ p \in Packet
    BY ElementOfSeq
  <1>2. /\ r \in Seq(Packet) /\ Len(r) = Len(q) + 1
        /\ \A i \in 1 .. Len(q) : r[i] = q[i]
        /\ r[Len(q) + 1] = p
    BY <1>1, AppendProperties
  <1> HIDE DEF r
  <1>3. ASSUME NEW i \in 1 .. Len(r)  PROVE  r[i] = A[Len(d) + i]
    <2>1. CASE i \in 1 .. Len(q)
      BY <1>2, <2>1 DEF After
    <2>2. CASE i = Len(q) + 1
      <3>1. Len(d) + i = Len(d) + Len(q) + 1
        BY <1>1, <2>2
      <3>2. QED  BY <1>2, <2>2, <3>1
    <2>3. QED  BY <1>1, <1>2, <2>1, <2>2
  <1>4. After(r, A, d)
    BY <1>1, <1>2, <1>3 DEF After
  <1>5. QED  BY <1>2, <1>4 DEF r

LEMMA AfterDelivered ==
  ASSUME NEW A \in Seq(Packet), NEW q \in Seq(Packet), NEW d \in Seq(Packet),
         After(q, A, d), q # <<>>
  PROVE  /\ Head(q) = A[Len(d) + 1] /\ Len(d) < Len(A) /\ Head(q) \in Packet
         /\ Tail(q) \in Seq(Packet) /\ Append(d, Head(q)) \in Seq(Packet)
         /\ Len(Append(d, Head(q))) + Len(Tail(q)) = Len(d) + Len(q)
         /\ Len(Tail(q)) = Len(q) - 1
         /\ After(Tail(q), A, Append(d, Head(q)))
  <1>1. /\ Tail(q) \in Seq(Packet) /\ Len(Tail(q)) = Len(q) - 1 /\ Head(q) \in Packet
        /\ \A i \in 1 .. Len(Tail(q)) : Tail(q)[i] = q[i + 1]
    BY HeadTailProperties
  <1>2. Len(q) \in Nat \ {0} /\ Len(A) \in Nat /\ Len(d) \in Nat /\ Head(q) = q[1]
    BY EmptySeq
  <1>3. Append(d, Head(q)) \in Seq(Packet) /\ Len(Append(d, Head(q))) = Len(d) + 1
    BY <1>1, AppendProperties
  <1>4. Len(d) + Len(q) <= Len(A) /\ \A i \in 1 .. Len(q) : q[i] = A[Len(d) + i]
    BY DEF After
  <1>5. \A i \in 1 .. Len(Tail(q)) : i + 1 \in 1 .. Len(q) /\ Len(d) + (i + 1) = Len(d) + 1 + i
    BY <1>1, <1>2
  <1>6. \A i \in 1 .. Len(Tail(q)) : Tail(q)[i] = A[Len(d) + 1 + i]
    BY <1>1, <1>4, <1>5
  <1>7. Len(d) + 1 + Len(Tail(q)) = Len(d) + Len(q)
    BY <1>1, <1>2
  <1>8. After(Tail(q), A, Append(d, Head(q)))
    BY <1>3, <1>4, <1>6, <1>7 DEF After
  <1>9. Head(q) = A[Len(d) + 1] /\ Len(d) < Len(A)
    BY <1>2, <1>4
  <1>10. QED  BY <1>1, <1>3, <1>7, <1>8, <1>9

-----------------------------------------------------------------------------
(* The direction to the client.                                            *)

(* Its framer and packets are those of PacketFramer. *)
LEMMA DownSame ==
  /\ Down!Packet = Packet /\ Down!Byte = Byte /\ Down!Framer = Framer
  /\ Down!NewFramer = NewFramer /\ Down!MaxBufferedRecvBytes = MaxBufferedRecvBytes
  /\ \A p : Down!Bytes(p) = Bytes(p)
  /\ \A f : /\ Down!PopResult(f) = PopResult(f) /\ Down!Popped(f) = Popped(f)
           /\ Down!AfterPop(f) = AfterPop(f)
  /\ \A f, b : /\ Down!AppendSucceeds(f, b) <=> AppendSucceeds(f, b)
              /\ Down!AfterAppend(f, b) = AfterAppend(f, b)
  <1>1. Down!Packet = Packet /\ Down!Byte = Byte /\ Down!Framer = Framer
    BY DEF Down!Packet, Packet, Down!Byte, Byte, Down!Framer, Framer
  <1>2. Down!NewFramer = NewFramer /\ Down!MaxBufferedRecvBytes = MaxBufferedRecvBytes
    BY DEF Down!NewFramer, NewFramer, Down!MaxBufferedRecvBytes, MaxBufferedRecvBytes
  <1>3. \A p : Down!Bytes(p) = Bytes(p)
    BY DEF Down!Bytes, Bytes
  <1>4. \A f : Down!Buffered(f) = Buffered(f) /\ Down!SizeInHeader(f) = SizeInHeader(f)
    BY DEF Down!Buffered, Buffered, Down!SizeInHeader, SizeInHeader
  <1>5. ASSUME NEW f  PROVE Down!PopResult(f) = PopResult(f)
    <2>1. Down!HasHeader(f) <=> HasHeader(f)
      BY <1>4 DEF Down!HasHeader, HasHeader
    <2>2. Down!HoldsPacket(f) <=> HoldsPacket(f)
      BY <1>4 DEF Down!HoldsPacket, HoldsPacket
    <2>3. QED  BY <1>4, <2>1, <2>2 DEF Down!PopResult, PopResult
  <1>6. \A f : Down!Popped(f) = Popped(f) /\ Down!AfterPop(f) = AfterPop(f)
    BY <1>4 DEF Down!Popped, Popped, Down!AfterPop, AfterPop
  <1>7. \A f : Down!CompactConsumedBytes(f) = CompactConsumedBytes(f)
    BY <1>4 DEF Down!CompactConsumedBytes, CompactConsumedBytes
  <1>8. ASSUME NEW f, NEW b  PROVE Down!AppendSucceeds(f, b) <=> AppendSucceeds(f, b)
    BY <1>2, <1>7 DEF Down!AppendSucceeds, AppendSucceeds
  <1>9. ASSUME NEW f, NEW b  PROVE Down!AfterAppend(f, b) = AfterAppend(f, b)
    BY <1>7, <1>8 DEF Down!AfterAppend, AfterAppend
  <1>10. QED  BY <1>1, <1>2, <1>3, <1>5, <1>6, <1>8, <1>9

LEMMA DownTyped ==
  ASSUME DownInv
  PROVE  /\ FramerOK(framer) /\ Buffered(framer) \in Seq(Byte) /\ wire \in Seq(Byte)
         /\ DownFlight \in Seq(Byte)
         /\ accepted \in Seq(Packet) /\ delivered \in Seq(Packet)
         /\ incoming \in Seq(Packet) /\ sendQueue \in Seq(Packet)
         /\ DownPopped \in Nat /\ DownFront \in 1 .. Len(accepted) + 1 /\ DownSent \in Nat
         /\ sendQueue # <<>> =>
              /\ DownFront \in 1 .. Len(accepted) /\ Head(sendQueue) = accepted[DownFront]
              /\ Head(sendQueue) \in Packet
         /\ DownSent > 0 => sendQueue # <<>>
  <1>1. /\ FramerOK(framer) /\ wire \in Seq(Byte)
        /\ accepted \in Seq(Packet) /\ delivered \in Seq(Packet)
        /\ incoming \in Seq(Packet) /\ sendQueue \in Seq(Packet)
        /\ sendOffset \in Nat /\ transferred \in Nat
    <2>1. /\ framer \in Framer /\ framer.readOffset <= Len(framer.buffer) /\ wire \in Seq(Byte)
          /\ accepted \in Seq(Packet) /\ delivered \in Seq(Packet)
          /\ incoming \in Seq(Packet) /\ sendQueue \in Seq(Packet)
          /\ sendOffset \in 0 .. MaxPacketSize /\ transferred \in 0 .. MaxPacketSize
      BY DownSame DEF DownInv, Down!TypeOK
    <2>2. QED  BY <2>1, SizesAssumption DEF FramerOK
  <1>2. Buffered(framer) \in Seq(Byte)
    BY <1>1, BufferedTyped
  <1>3. DownFlight \in Seq(Byte)
    BY <1>1, <1>2, ConcatProperties DEF DownFlight
  <1>4. LastOf(sendQueue, accepted)
    BY DEF DownInv, DownQueue
  <1>5. DownFront \in 1 .. Len(accepted) + 1
    <2>1. Len(sendQueue) \in Nat /\ Len(accepted) \in Nat
      BY <1>1, LenProperties
    <2>2. QED  BY <1>4, <2>1 DEF LastOf, DownFront
  <1>6. sendQueue # <<>> =>
          /\ DownFront \in 1 .. Len(accepted) /\ Head(sendQueue) = accepted[DownFront]
          /\ Head(sendQueue) \in Packet
    BY <1>1, <1>4, LastOfTail DEF DownFront
  <1>7. DownSent > 0 => sendQueue # <<>>
    BY DEF DownInv, DownQueue, DownSent
  <1>8. DownPopped \in Nat /\ DownSent \in Nat
    <2>1. Len(delivered) \in Nat /\ Len(incoming) \in Nat
      BY <1>1, LenProperties
    <2>2. QED  BY <1>1, <2>1 DEF DownPopped, DownSent
  <1>9. QED  BY <1>1, <1>2, <1>3, <1>5, <1>6, <1>7, <1>8

(* A WSASend that is posted reads what is left of the front of the queue. *)
LEMMA PostedView ==
  ASSUME NEW q \in Seq(Packet), q # <<>>, NEW o \in 0 .. MaxPacketSize, o < Head(q).size,
         NEW v, v = [packet |-> Head(q), from |-> o, len |-> Head(q).size - o]
  PROVE  /\ v \in [packet : Packet, from : 0 .. MaxPacketSize, len : 1 .. MaxPacketSize]
         /\ v # Down!NoView /\ v.packet = Head(q) /\ v.from = o
         /\ v.from + v.len = v.packet.size /\ v.len \in Nat
  <1>1. Head(q) \in Packet
    BY HeadTailProperties
  <1>2. Head(q).size \in Nat /\ Head(q).size <= MaxPacketSize /\ MaxPacketSize \in Nat
    BY <1>1, BytesTyped, SizesAssumption
  <1>3. Head(q).size - o \in 1 .. MaxPacketSize /\ o + (Head(q).size - o) = Head(q).size
    BY <1>2
  <1>4. v.packet = Head(q) /\ v.from = o /\ v.len = Head(q).size - o
    OBVIOUS
  <1>5. v # Down!NoView
    <2>1. Down!NoView.len = 0
      BY DEF Down!NoView
    <2>2. QED  BY <1>3, <1>4, <2>1
  <1>6. QED  BY <1>1, <1>3, <1>4, <1>5

LEMMA DownInit ==
  ASSUME Down!Init
  PROVE  DownInv
  <1>1. /\ Buffered(framer) = <<>> /\ framer.readOffset = 0 /\ Len(framer.buffer) = 0
        /\ framer \in Framer
    <2>1. framer.buffer = <<>> /\ framer.readOffset = 0 /\ framer \in Framer
      <3>1. framer = [buffer |-> <<>>, readOffset |-> 0] /\ <<>> \in Seq(Byte)
        BY EmptySeq, DownSame DEF Down!Init, NewFramer
      <3>2. QED  BY <3>1 DEF Framer
    <2>2. QED  BY <2>1, EmptySeq, SubSeqEmpty DEF Buffered
  <1>2. DownFlight = <<>> /\ DownPopped = 0 /\ DownFront = 1 /\ DownSent = 0
    BY <1>1, EmptySeq DEF Down!Init, DownFlight, DownPopped, DownFront, DownSent
  <1>3. Down!TypeOK
    <2>1. 0 <= MaxQueuedSendPackets /\ 0 <= MaxIncomingMessages /\ 0 \in 0 .. MaxPacketSize
          /\ 0 <= MaxBufferedRecvBytes /\ MaxBufferedRecvBytes \in Nat
      BY SizesAssumption, Capacities DEF Down!CapacitiesAssumption, MaxBufferedRecvBytes
    <2>2. <<>> \in Seq(Packet) /\ <<>> \in Seq(Byte) /\ Len(<<>>) = 0
      BY EmptySeq
    <2>3. QED  BY <1>1, <2>1, <2>2, DownSame DEF Down!Init, Down!TypeOK
  <1>4. Down!FramingNeverFails /\ Down!SendReadsTheFront
    BY DEF Down!Init, Down!FramingNeverFails, Down!SendReadsTheFront
  <1>5. DownQueue
    BY EmptySeq DEF Down!Init, DownQueue, Numbered, LastOf, After
  <1>6. DownStream
    BY <1>2, EmptySeq DEF Down!Init, DownStream, Continues, ReachesTo
  <1>7. DownRoom
    BY <1>1, EmptySeq, SizesAssumption DEF DownRoom
  <1>8. QED  BY <1>3, <1>4, <1>5, <1>6, <1>7 DEF DownInv

(* Session::Send queues the packet and posts it when nothing is being sent. *)
LEMMA DownSend ==
  ASSUME DownInv, Down!SendPacket
  PROVE  DownInv'
  <1>1. PICK size \in HeaderSize .. MaxPacketSize :
          Down!Send([id |-> Len(accepted) + 1, size |-> size])
    BY DEF Down!SendPacket
  <1> DEFINE p == [id |-> Len(accepted) + 1, size |-> size]
  <1>2. p \in Packet /\ p.id = Len(accepted) + 1 /\ p.size \in Nat /\ p.size >= 1
    <2>1. Len(accepted) \in Nat
      BY DownTyped, LenProperties
    <2>2. Len(accepted) + 1 \in 1 .. MaxPackets
      BY <2>1, SizesAssumption DEF Down!SendPacket
    <2>3. QED  BY <2>2, SizesAssumption DEF Packet
  <1>3. Down!Send(p)
    BY <1>1
  <1> HIDE DEF p
  <1>4. /\ sessionOpen /\ sendQueue' = Append(sendQueue, p) /\ accepted' = Append(accepted, p)
        /\ UNCHANGED <<sendOffset, transferred, wire, framer, netPc, incoming, delivered>>
    BY <1>3 DEF Down!Send, Down!receiver
  <1>5. /\ sendQueue' \in Seq(Packet) /\ sendQueue' # <<>>
        /\ Len(sendQueue') = Len(sendQueue) + 1
        /\ accepted' \in Seq(Packet) /\ Len(accepted') = Len(accepted) + 1
    <2>1. sendQueue \in Seq(Packet) /\ accepted \in Seq(Packet)
      BY DownTyped
    <2>2. /\ Append(sendQueue, p) \in Seq(Packet) /\ Append(sendQueue, p) # <<>>
          /\ Len(Append(sendQueue, p)) = Len(sendQueue) + 1
      BY <1>2, <2>1, AppendProperties
    <2>3. Append(accepted, p) \in Seq(Packet) /\ Len(Append(accepted, p)) = Len(accepted) + 1
      BY <1>2, <2>1, AppendProperties
    <2>4. QED  BY <1>4, <2>2, <2>3
  <1>6. Head(sendQueue') = IF sendQueue = <<>> THEN p ELSE Head(sendQueue)
    BY <1>4, DownTyped, HeadTailAppend
  <1>7. sendOffset' < Head(sendQueue').size
    BY <1>2, <1>4, <1>6 DEF DownInv, DownQueue
  <1>8. /\ sessionOpen' \in BOOLEAN
        /\ \/ view # Down!NoView /\ view' = view
           \/ view' = Down!NoView /\ view = Down!NoView
           \/ /\ view = Down!NoView
              /\ view' = [packet |-> Head(sendQueue'), from |-> sendOffset,
                          len |-> Head(sendQueue').size - sendOffset]
    BY <1>3 DEF Down!Send, Down!PostSend, DownInv, Down!TypeOK
  <1>9. sendOffset \in 0 .. MaxPacketSize /\ transferred \in Nat
    BY SizesAssumption DEF DownInv, Down!TypeOK
  <1>10. \/ view' = Down!NoView /\ transferred = 0
         \/ /\ view' \in [packet : Packet, from : 0 .. MaxPacketSize, len : 1 .. MaxPacketSize]
            /\ view' # Down!NoView /\ view'.packet = Head(sendQueue') /\ view'.from = sendOffset
            /\ view'.from + view'.len = view'.packet.size
            /\ transferred <= view'.len
    <2>1. CASE view # Down!NoView /\ view' = view
      <3>1. sendQueue # <<>>
        BY <2>1 DEF DownInv, DownQueue, Down!SendReadsTheFront
      <3>2. view \in [packet : Packet, from : 0 .. MaxPacketSize, len : 1 .. MaxPacketSize]
        BY <2>1, DownSame DEF DownInv, Down!TypeOK
      <3>3. /\ view.packet = Head(sendQueue) /\ view.from = sendOffset
            /\ view.from + view.len = view.packet.size /\ transferred <= view.len
        BY <2>1 DEF DownInv, Down!SendReadsTheFront
      <3>4. Head(sendQueue') = Head(sendQueue)
        BY <1>6, <3>1
      <3>5. QED  BY <2>1, <3>2, <3>3, <3>4
    <2>2. CASE view' = Down!NoView /\ view = Down!NoView
      BY <2>2 DEF DownInv, DownQueue
    <2>3. CASE view = Down!NoView
               /\ view' = [packet |-> Head(sendQueue'), from |-> sendOffset,
                           len |-> Head(sendQueue').size - sendOffset]
      <3>1. transferred = 0
        BY <2>3 DEF DownInv, DownQueue
      <3>2. /\ view' \in [packet : Packet, from : 0 .. MaxPacketSize, len : 1 .. MaxPacketSize]
            /\ view' # Down!NoView /\ view'.packet = Head(sendQueue') /\ view'.from = sendOffset
            /\ view'.from + view'.len = view'.packet.size /\ view'.len \in Nat
        <4>1. sendOffset < Head(sendQueue').size /\ sendOffset \in 0 .. MaxPacketSize
          BY <1>4, <1>7, <1>9
        <4> DEFINE q == sendQueue'
                   v == view'
        <4>2. /\ q \in Seq(Packet) /\ q # <<>> /\ sendOffset < Head(q).size
              /\ v = [packet |-> Head(q), from |-> sendOffset, len |-> Head(q).size - sendOffset]
          BY <1>5, <2>3, <4>1
        <4> HIDE DEF q, v
        <4>3. /\ v \in [packet : Packet, from : 0 .. MaxPacketSize, len : 1 .. MaxPacketSize]
              /\ v # Down!NoView /\ v.packet = Head(q) /\ v.from = sendOffset
              /\ v.from + v.len = v.packet.size /\ v.len \in Nat
          BY <4>1, <4>2, PostedView
        <4>4. QED  BY <4>3 DEF q, v
      <3>3. QED  BY <3>1, <3>2
    <2>4. QED  BY <1>8, <2>1, <2>2, <2>3
  <1>11. Down!TypeOK'
    <2>1. Len(sendQueue') <= MaxQueuedSendPackets
      <3>1. Len(sendQueue) < MaxQueuedSendPackets /\ Len(sendQueue) \in Nat
        BY <1>3, DownTyped, LenProperties DEF Down!Send
      <3>2. QED  BY <1>5, <3>1, Capacities DEF Down!CapacitiesAssumption
    <2>2. \/ view' = Down!NoView
          \/ view' \in [packet : Packet, from : 0 .. MaxPacketSize, len : 1 .. MaxPacketSize]
      BY <1>10
    <2>3. sessionOpen' \in BOOLEAN
      BY <1>8
    <2>4. QED  BY <1>4, <1>5, <2>1, <2>2, <2>3, DownSame DEF DownInv, Down!TypeOK
  <1>12. Down!FramingNeverFails' /\ Down!SendReadsTheFront'
    BY <1>4, <1>5, <1>10 DEF DownInv, Down!FramingNeverFails, Down!SendReadsTheFront
  <1>13. DownQueue'
    <2>1. Numbered(accepted') /\ LastOf(sendQueue', accepted') /\ After(incoming', accepted', delivered')
      BY <1>2, <1>4, DownTyped, NumberedAppend, LastOfAppend, AfterAccepted DEF DownInv, DownQueue
    <2>2. QED  BY <1>4, <1>5, <1>7, <1>10, <2>1 DEF DownQueue
  <1>14. DownStream'
    <2>1. /\ DownFlight' = DownFlight /\ DownPopped' = DownPopped /\ DownSent' = DownSent
      BY <1>4 DEF DownFlight, DownPopped, DownSent
    <2>2. DownFront' = DownFront
      <3>1. Len(sendQueue) \in Nat /\ Len(accepted) \in Nat
        BY DownTyped, LenProperties
      <3>2. QED  BY <1>5, <3>1 DEF DownFront
    <2>3. SUFFICES ASSUME netPc # "full"
                   PROVE  /\ Continues(DownFlight, accepted', DownPopped)
                          /\ ReachesTo(DownFlight, accepted', DownPopped, DownFront, DownSent)
      BY <1>4, <2>1, <2>2 DEF DownStream
    <2>4. /\ Continues(DownFlight, accepted, DownPopped)
          /\ ReachesTo(DownFlight, accepted, DownPopped, DownFront, DownSent)
      BY <1>4, <2>3 DEF DownInv, DownStream
    <2>5. QED  BY <1>2, <1>4, <2>4, DownTyped, AcceptedContinues, AcceptedReachesTo
  <1>15. DownRoom'
    BY <1>4 DEF DownInv, DownRoom
  <1>16. QED  BY <1>11, <1>12, <1>13, <1>14, <1>15 DEF DownInv

(* HandleSend drops the front of the queue once all of it is sent, and posts *)
(* what is left.                                                             *)
LEMMA DownHandleSend ==
  ASSUME DownInv, Down!HandleSend
  PROVE  DownInv'
  <1> DEFINE sent == sendOffset + transferred
             whole == ~(sent < Head(sendQueue).size)
  <1>1. /\ transferred > 0 /\ transferred' = 0
        /\ sendQueue' = (IF whole THEN Tail(sendQueue) ELSE sendQueue)
        /\ sendOffset' = (IF whole THEN 0 ELSE sent)
        /\ UNCHANGED <<wire, framer, netPc, incoming, accepted, delivered>>
    BY DEF Down!HandleSend, Down!SentOffset, Down!receiver, Down!history
  <1>2. /\ sendOffset \in Nat /\ transferred \in Nat /\ sendOffset <= MaxPacketSize
        /\ MaxPacketSize \in Nat /\ sessionOpen \in BOOLEAN
    BY SizesAssumption DEF DownInv, Down!TypeOK
  <1>3. sendQueue # <<>> /\ view # Down!NoView
    BY <1>1, <1>2 DEF DownInv, DownQueue, Down!SendReadsTheFront
  <1>4. sent <= Head(sendQueue).size
    <2>1. /\ view.packet = Head(sendQueue) /\ view.from = sendOffset
          /\ view.from + view.len = view.packet.size /\ transferred <= view.len
      BY <1>3 DEF DownInv, Down!SendReadsTheFront
    <2>2. view.len \in 1 .. MaxPacketSize
      BY <1>3 DEF DownInv, Down!TypeOK
    <2>3. QED  BY <1>2, <2>1, <2>2
  <1>5. /\ Head(sendQueue) \in Packet /\ DownFront \in 1 .. Len(accepted)
        /\ Head(sendQueue) = accepted[DownFront]
        /\ Head(sendQueue).size \in Nat /\ Head(sendQueue).size <= MaxPacketSize
    BY <1>3, DownTyped, BytesTyped
  <1>6. sent \in Nat /\ (whole => sent = Head(sendQueue).size) /\ sendOffset' \in 0 .. MaxPacketSize
    BY <1>1, <1>2, <1>4, <1>5
  <1>7. /\ LastOf(Tail(sendQueue), accepted) /\ Tail(sendQueue) \in Seq(Packet)
        /\ Len(Tail(sendQueue)) = Len(sendQueue) - 1
    BY <1>3, DownTyped, LastOfTail DEF DownInv, DownQueue
  <1>8. /\ sendQueue' \in Seq(Packet) /\ LastOf(sendQueue', accepted)
        /\ Len(sendQueue') <= Len(sendQueue)
    <2>1. LastOf(sendQueue, accepted) /\ sendQueue \in Seq(Packet) /\ Len(sendQueue) \in Nat
      BY DownTyped, LenProperties DEF DownInv, DownQueue
    <2>2. QED  BY <1>1, <1>7, <2>1
  <1>9. sendQueue' = <<>> => whole
    BY <1>1, <1>3
  <1>10. sendQueue' # <<>> => sendOffset' < Head(sendQueue').size
    <2>1. CASE whole
      <3>1. sendQueue' # <<>> => Head(sendQueue') \in Packet
        BY <1>8, HeadTailProperties
      <3>2. QED  BY <1>1, <2>1, <3>1, BytesTyped
    <2>2. CASE ~whole
      BY <1>1, <2>2
    <2>3. QED  BY <2>1, <2>2
  <1>11. /\ sessionOpen' \in BOOLEAN /\ (sessionOpen' => sessionOpen)
         /\ \/ view' = Down!NoView
            \/ /\ sendQueue' # <<>>
               /\ view' = [packet |-> Head(sendQueue'), from |-> sendOffset',
                           len |-> Head(sendQueue').size - sendOffset']
    BY <1>2 DEF Down!HandleSend, Down!PostSend
  <1>12. sendQueue' = <<>> => view' = Down!NoView
    BY DEF Down!HandleSend
  <1> HIDE DEF sent, whole
  <1>13. \/ view' = Down!NoView
         \/ /\ view' \in [packet : Packet, from : 0 .. MaxPacketSize, len : 1 .. MaxPacketSize]
            /\ view' # Down!NoView /\ view'.packet = Head(sendQueue') /\ view'.from = sendOffset'
            /\ view'.from + view'.len = view'.packet.size
            /\ 0 <= view'.len /\ sendQueue' # <<>>
    <2> SUFFICES ASSUME view' # Down!NoView
                 PROVE  /\ view' \in [packet : Packet, from : 0 .. MaxPacketSize, len : 1 .. MaxPacketSize]
                        /\ view' # Down!NoView /\ view'.packet = Head(sendQueue')
                        /\ view'.from = sendOffset'
                        /\ view'.from + view'.len = view'.packet.size
                        /\ 0 <= view'.len /\ sendQueue' # <<>>
      OBVIOUS
    <2> DEFINE q == sendQueue'
               v == view'
               o == sendOffset'
    <2>1. /\ q \in Seq(Packet) /\ q # <<>> /\ o \in 0 .. MaxPacketSize /\ o < Head(q).size
          /\ v = [packet |-> Head(q), from |-> o, len |-> Head(q).size - o]
      BY <1>6, <1>8, <1>10, <1>11
    <2> HIDE DEF q, v, o
    <2>2. /\ v \in [packet : Packet, from : 0 .. MaxPacketSize, len : 1 .. MaxPacketSize]
          /\ v # Down!NoView /\ v.packet = Head(q) /\ v.from = o
          /\ v.from + v.len = v.packet.size /\ v.len \in Nat
      BY <2>1, PostedView
    <2>3. 0 <= v.len
      BY <2>2
    <2>4. QED  BY <2>1, <2>2, <2>3 DEF q, v, o
  <1>14. Down!TypeOK'
    <2>1. Len(sendQueue') <= MaxQueuedSendPackets
      <3>1. Len(sendQueue) <= MaxQueuedSendPackets /\ Len(sendQueue) \in Nat /\ Len(sendQueue') \in Nat
        BY <1>8, DownTyped, LenProperties DEF DownInv, Down!TypeOK
      <3>2. QED  BY <1>8, <3>1, Capacities DEF Down!CapacitiesAssumption
    <2>2. transferred' \in 0 .. MaxPacketSize
      BY <1>1, <1>2
    <2>3. \/ view' = Down!NoView
          \/ view' \in [packet : Packet, from : 0 .. MaxPacketSize, len : 1 .. MaxPacketSize]
      BY <1>13
    <2>4. QED  BY <1>1, <1>6, <1>8, <1>11, <2>1, <2>2, <2>3, DownSame DEF DownInv, Down!TypeOK
  <1>15. Down!FramingNeverFails' /\ Down!SendReadsTheFront'
    BY <1>1, <1>13 DEF DownInv, Down!FramingNeverFails, Down!SendReadsTheFront
  <1>16. DownQueue'
    <2>1. sendQueue' = <<>> => sendOffset' = 0
      BY <1>1, <1>9
    <2>2. Numbered(accepted) /\ After(incoming, accepted, delivered)
      BY DEF DownInv, DownQueue
    <2>3. QED  BY <1>1, <1>8, <1>10, <1>12, <2>1, <2>2 DEF DownQueue
  <1>17. DownStream'
    <2>1. DownFlight' = DownFlight /\ DownPopped' = DownPopped
      BY <1>1 DEF DownFlight, DownPopped
    <2>2. SUFFICES ASSUME netPc # "full", sessionOpen
                   PROVE  ReachesTo(DownFlight, accepted, DownPopped, DownFront', DownSent')
      BY <1>1, <1>11, <2>1 DEF DownInv, DownStream
    <2>3. ReachesTo(DownFlight, accepted, DownPopped, DownFront, sent)
      BY <2>2 DEF DownInv, DownStream, DownSent, sent
    <2>4. CASE ~whole
      <3>1. DownSent' = sent
        BY <1>1, <1>6, <2>4 DEF DownSent
      <3>2. DownFront' = DownFront
        BY <1>1, <2>4 DEF DownFront
      <3>3. QED  BY <2>3, <3>1, <3>2
    <2>5. CASE whole
      <3>1. DownSent' = 0
        BY <1>1, <2>5 DEF DownSent
      <3>2. DownFront' = DownFront + 1
        <4>1. Len(sendQueue) \in Nat /\ Len(accepted) \in Nat
          BY DownTyped, LenProperties
        <4>2. QED  BY <1>1, <1>7, <2>5, <4>1 DEF DownFront
      <3>3. ReachesTo(DownFlight, accepted, DownPopped, DownFront, accepted[DownFront].size)
        BY <1>5, <1>6, <2>3, <2>5
      <3>4. QED  BY <1>5, <3>1, <3>2, <3>3, DownTyped, SentWhole
    <2>6. QED  BY <2>4, <2>5
  <1>18. DownRoom'
    BY <1>1 DEF DownInv, DownRoom
  <1>19. QED  BY <1>14, <1>15, <1>16, <1>17, <1>18 DEF DownInv

(* A full queue makes the session close. *)
LEMMA DownSendRefused ==
  ASSUME DownInv, Down!SendRefused
  PROVE  DownInv'
  <1>1. /\ sessionOpen' = FALSE
        /\ UNCHANGED <<sendQueue, sendOffset, view, transferred, wire, framer, netPc, incoming,
                       accepted, delivered>>
    BY DEF Down!SendRefused, Down!receiver, Down!history
  <1>2. Down!TypeOK' /\ Down!FramingNeverFails' /\ Down!SendReadsTheFront'
    BY <1>1 DEF DownInv, Down!TypeOK, Down!FramingNeverFails, Down!SendReadsTheFront
  <1>3. DownQueue' /\ DownStream' /\ DownRoom'
    BY <1>1 DEF DownInv, DownQueue, DownStream, DownRoom, DownFlight, DownPopped
  <1>4. QED  BY <1>2, <1>3 DEF DownInv

(* TCP sends any part of what is posted. *)
LEMMA DownTransmit ==
  ASSUME DownInv, Down!Transmit
  PROVE  DownInv'
  <1>1. PICK c \in 1 .. view.len :
          /\ wire' = wire \o SubSeq(Bytes(view.packet), view.from + 1, view.from + c)
          /\ transferred' = c
    BY DownSame DEF Down!Transmit
  <1>2. /\ sessionOpen /\ view # Down!NoView /\ transferred = 0
        /\ UNCHANGED <<sendQueue, sendOffset, view, sessionOpen, framer, netPc, incoming,
                       accepted, delivered>>
    BY DEF Down!Transmit, Down!receiver, Down!history
  <1>3. /\ sendQueue # <<>> /\ view.packet = Head(sendQueue) /\ view.from = sendOffset
        /\ view.from + view.len = view.packet.size
    BY <1>2 DEF DownInv, Down!SendReadsTheFront
  <1>4. view.len \in 1 .. MaxPacketSize /\ sendOffset \in Nat /\ MaxPacketSize \in Nat
    BY <1>2, SizesAssumption DEF DownInv, Down!TypeOK
  <1>5. /\ DownFront \in 1 .. Len(accepted) /\ Head(sendQueue) = accepted[DownFront]
        /\ Head(sendQueue) \in Packet
    BY <1>3, DownTyped
  <1>6. c \in Nat \ {0} /\ c \in 0 .. MaxPacketSize /\ sendOffset + c <= accepted[DownFront].size
    BY <1>3, <1>4, <1>5
  <1> DEFINE X == SubSeq(Bytes(accepted[DownFront]), sendOffset + 1, sendOffset + c)
  <1>7. wire' = wire \o X /\ X \in Seq(Byte)
    <2>1. wire' = wire \o X
      BY <1>1, <1>3, <1>5
    <2>2. Bytes(accepted[DownFront]) \in Seq(Byte)
          /\ Len(Bytes(accepted[DownFront])) = accepted[DownFront].size
          /\ accepted[DownFront].size \in Nat
      BY <1>5, BytesTyped
    <2>3. \A i \in sendOffset + 1 .. sendOffset + c : Bytes(accepted[DownFront])[i] \in Byte
      <3>1. \A i \in sendOffset + 1 .. sendOffset + c : i \in 1 .. accepted[DownFront].size
        BY <1>4, <1>6, <2>2
      <3>2. QED  BY <2>2, <3>1, ElementOfSeq
    <2>4. sendOffset + 1 \in Int /\ sendOffset + c \in Int
      BY <1>4
    <2>5. QED  BY <2>1, <2>3, <2>4, SubSeqProperties
  <1> HIDE DEF X
  <1>8. wire' \in Seq(Byte)
    BY <1>7, DownTyped, ConcatProperties
  <1>9. Down!TypeOK'
    BY <1>1, <1>2, <1>6, <1>8, DownSame DEF DownInv, Down!TypeOK
  <1>10. Down!FramingNeverFails' /\ Down!SendReadsTheFront'
    <2>1. c <= view.len
      BY <1>4
    <2>2. QED  BY <1>1, <1>2, <2>1 DEF DownInv, Down!FramingNeverFails, Down!SendReadsTheFront
  <1>11. DownQueue' /\ DownRoom'
    BY <1>2 DEF DownInv, DownQueue, DownRoom
  <1>12. DownStream'
    <2>1. DownFlight' = DownFlight \o X
      <3>1. Buffered(framer) \in Seq(Byte) /\ wire \in Seq(Byte)
        BY DownTyped
      <3>2. (Buffered(framer) \o wire) \o X = Buffered(framer) \o (wire \o X)
        BY <1>7, <3>1, ConcatAssociative
      <3>3. QED  BY <1>2, <1>7, <3>2 DEF DownFlight
    <2>2. /\ DownPopped' = DownPopped /\ DownFront' = DownFront /\ DownSent' = sendOffset + c
          /\ DownSent = sendOffset
      BY <1>1, <1>2, <1>4 DEF DownPopped, DownFront, DownSent
    <2>3. SUFFICES ASSUME netPc # "full"
                   PROVE  /\ Continues(DownFlight \o X, accepted, DownPopped)
                          /\ ReachesTo(DownFlight \o X, accepted, DownPopped, DownFront, sendOffset + c)
      BY <1>2, <2>1, <2>2 DEF DownStream
    <2>4. /\ Continues(DownFlight, accepted, DownPopped)
          /\ ReachesTo(DownFlight, accepted, DownPopped, DownFront, sendOffset)
          /\ Numbered(accepted)
      BY <1>2, <2>2, <2>3 DEF DownInv, DownStream, DownQueue
    <2>5. QED  BY <1>4, <1>5, <1>6, <2>4, DownTyped, SentContinues DEF X
  <1>13. QED  BY <1>9, <1>10, <1>11, <1>12 DEF DownInv

(* A connection that is lost takes the bytes on their way along. *)
LEMMA DownConnectionLost ==
  ASSUME DownInv, Down!ConnectionLost
  PROVE  DownInv'
  <1>1. /\ sessionOpen' = FALSE /\ wire' = <<>>
        /\ UNCHANGED <<sendQueue, sendOffset, view, transferred, framer, netPc, incoming,
                       accepted, delivered>>
    BY DEF Down!ConnectionLost, Down!receiver, Down!history
  <1>2. Down!TypeOK' /\ Down!FramingNeverFails' /\ Down!SendReadsTheFront'
    BY <1>1, EmptySeq DEF DownInv, Down!TypeOK, Down!FramingNeverFails, Down!SendReadsTheFront
  <1>3. DownQueue' /\ DownRoom'
    BY <1>1 DEF DownInv, DownQueue, DownRoom
  <1>4. DownStream'
    <2>1. Buffered(framer) \in Seq(Byte) /\ wire \in Seq(Byte)
      BY DownTyped
    <2>2. DownFlight' = Buffered(framer) /\ DownPopped' = DownPopped
      BY <1>1, <2>1, ConcatEmptySeq DEF DownFlight, DownPopped
    <2>3. netPc # "full" => Continues(Buffered(framer), accepted, DownPopped)
      BY <2>1, DownTyped, FrontContinues DEF DownInv, DownStream, DownFlight
    <2>4. QED  BY <1>1, <2>2, <2>3 DEF DownStream
  <1>5. QED  BY <1>2, <1>3, <1>4 DEF DownInv

(* A chunk goes from the connection into the framer, which has room for it. *)
LEMMA DownRecvChunk ==
  ASSUME DownInv, Down!RecvChunk
  PROVE  DownInv'
  <1>1. PICK c \in 1 .. ChunkSize :
          /\ c <= Len(wire)
          /\ wire' = SubSeq(wire, c + 1, Len(wire))
          /\ framer' = AfterAppend(framer, SubSeq(wire, 1, c))
          /\ netPc' = IF AppendSucceeds(framer, SubSeq(wire, 1, c)) THEN "frame" ELSE "refused"
    BY DownSame DEF Down!RecvChunk
  <1>2. /\ netPc = "recv"
        /\ UNCHANGED <<sendQueue, sendOffset, view, transferred, sessionOpen, incoming,
                       accepted, delivered>>
    BY DEF Down!RecvChunk, Down!sender, Down!history
  <1>3. /\ FramerOK(framer) /\ Buffered(framer) \in Seq(Byte) /\ wire \in Seq(Byte)
        /\ Len(wire) \in Nat /\ Len(Buffered(framer)) \in Nat
    BY DownTyped, LenProperties
  <1>4. Len(Buffered(framer)) < MaxPacketSize
    BY <1>2 DEF DownInv, DownRoom
  <1>5. ChunkSize \in Nat /\ MaxPacketSize \in Nat /\ ChunkSize <= MaxPacketSize
    BY SizesAssumption
  <1>6. c \in 1 .. Len(wire) /\ c <= MaxPacketSize
    BY <1>1, <1>3, <1>5
  <1> DEFINE X == SubSeq(wire, 1, c)
             R == SubSeq(wire, c + 1, Len(wire))
  <1>7. /\ X \in Seq(Byte) /\ Len(X) = c /\ R \in Seq(Byte)
        /\ (Buffered(framer) \o X) \o R = Buffered(framer) \o wire
    <2> DEFINE B == Buffered(framer)
    <2>1. B \in Seq(Byte) /\ wire \in Seq(Byte) /\ c \in 1 .. Len(wire)
      BY <1>3, <1>6
    <2> HIDE DEF B
    <2>2. /\ SubSeq(wire, 1, c) \in Seq(Byte) /\ Len(SubSeq(wire, 1, c)) = c
          /\ SubSeq(wire, c + 1, Len(wire)) \in Seq(Byte)
          /\ (B \o SubSeq(wire, 1, c)) \o SubSeq(wire, c + 1, Len(wire)) = B \o wire
      BY <2>1, MoveToFramer
    <2>3. QED  BY <2>2 DEF B
  <1>8. wire' = R /\ framer' = AfterAppend(framer, X)
    BY <1>1
  <1>9. AppendSucceeds(framer, X) /\ Len(Buffered(framer)) + c <= MaxBufferedRecvBytes
    BY <1>3, <1>4, <1>5, <1>6, <1>7 DEF AppendSucceeds, CompactConsumedBytes, MaxBufferedRecvBytes
  <1>10. netPc' = "frame"
    BY <1>1, <1>9
  <1> HIDE DEF X, R
  <1>11. /\ FramerOK(framer') /\ Buffered(framer') = Buffered(framer) \o X
         /\ Len(framer'.buffer) = Len(Buffered(framer)) + c
    BY <1>3, <1>7, <1>8, <1>9, AppendedBuffered
  <1>12. Down!TypeOK'
    <2>1. Len(framer'.buffer) <= MaxBufferedRecvBytes
      BY <1>9, <1>11
    <2>2. framer' \in Framer /\ framer'.readOffset <= Len(framer'.buffer)
      BY <1>11 DEF FramerOK
    <2>3. wire' \in Seq(Byte)
      BY <1>7, <1>8
    <2>4. QED  BY <1>2, <1>10, <2>1, <2>2, <2>3, DownSame DEF DownInv, Down!TypeOK
  <1>13. Down!FramingNeverFails' /\ Down!SendReadsTheFront'
    BY <1>2, <1>10 DEF DownInv, Down!FramingNeverFails, Down!SendReadsTheFront
  <1>14. DownQueue' /\ DownRoom'
    BY <1>2, <1>10 DEF DownInv, DownQueue, DownRoom
  <1>15. DownStream'
    <2>1. DownFlight' = DownFlight
      BY <1>7, <1>8, <1>11 DEF DownFlight
    <2>2. DownPopped' = DownPopped /\ DownFront' = DownFront /\ DownSent' = DownSent
      BY <1>2 DEF DownPopped, DownFront, DownSent
    <2>3. QED  BY <1>2, <2>1, <2>2 DEF DownInv, DownStream
  <1>16. QED  BY <1>12, <1>13, <1>14, <1>15 DEF DownInv

LEMMA DownRecvEnd ==
  ASSUME DownInv, Down!RecvEnd
  PROVE  DownInv'
  <1>1. /\ netPc = "recv" /\ netPc' = "lost"
        /\ UNCHANGED <<sendQueue, sendOffset, view, transferred, sessionOpen, wire, framer,
                       incoming, accepted, delivered>>
    BY DEF Down!RecvEnd, Down!sender, Down!history
  <1>2. Down!TypeOK' /\ Down!FramingNeverFails' /\ Down!SendReadsTheFront'
    BY <1>1 DEF DownInv, Down!TypeOK, Down!LoopEnds, Down!FramingNeverFails, Down!SendReadsTheFront
  <1>3. DownQueue' /\ DownStream' /\ DownRoom'
    BY <1>1 DEF DownInv, DownQueue, DownStream, DownRoom, DownFlight, DownPopped, DownFront, DownSent
  <1>4. QED  BY <1>2, <1>3 DEF DownInv

(* What TryPop finds at the front of what is on its way. *)
LEMMA DownPops ==
  ASSUME DownInv, netPc = "frame"
  PROVE  /\ PopResult(framer) # "Invalid"
         /\ PopResult(framer) = "Ready" =>
              /\ Popped(framer) = accepted[DownPopped + 1] /\ DownPopped + 1 \in 1 .. Len(accepted)
              /\ SizeInHeader(framer) = accepted[DownPopped + 1].size
              /\ SizeInHeader(framer) \in 1 .. Len(Buffered(framer))
         /\ PopResult(framer) # "Ready" => Len(Buffered(framer)) < MaxPacketSize
  <1>1. Continues(Buffered(framer) \o wire, accepted, DownPopped)
    BY DEF DownInv, DownStream, DownFlight
  <1>2. /\ FramerOK(framer) /\ wire \in Seq(Byte) /\ accepted \in Seq(Packet)
        /\ DownPopped \in Nat
    BY DownTyped
  <1>3. QED  BY <1>1, <1>2, PopFindsNextPacket

LEMMA DownPopNothing ==
  ASSUME DownInv, Down!PopNothing
  PROVE  DownInv'
  <1>1. /\ netPc = "frame" /\ PopResult(framer) # "Ready"
        /\ netPc' = (IF PopResult(framer) = "Invalid" THEN "invalid" ELSE "recv")
        /\ UNCHANGED <<sendQueue, sendOffset, view, transferred, sessionOpen, wire, framer,
                       incoming, accepted, delivered>>
    BY DownSame DEF Down!PopNothing, Down!sender, Down!history
  <1>2. netPc' = "recv" /\ Len(Buffered(framer)) < MaxPacketSize
    BY <1>1, DownPops
  <1>3. Down!TypeOK' /\ Down!FramingNeverFails' /\ Down!SendReadsTheFront'
    BY <1>1, <1>2 DEF DownInv, Down!TypeOK, Down!FramingNeverFails, Down!SendReadsTheFront
  <1>4. DownQueue' /\ DownRoom'
    BY <1>1, <1>2 DEF DownInv, DownQueue, DownRoom
  <1>5. DownStream'
    BY <1>1, <1>2 DEF DownInv, DownStream, DownFlight, DownPopped, DownFront, DownSent
  <1>6. QED  BY <1>3, <1>4, <1>5 DEF DownInv

(* The packet that is popped is the one accepted next. *)
LEMMA DownPopPacket ==
  ASSUME DownInv, Down!PopPacket
  PROVE  DownInv'
  <1>1. /\ netPc = "frame" /\ PopResult(framer) = "Ready" /\ framer' = AfterPop(framer)
        /\ \/ /\ Len(incoming) < MaxIncomingMessages /\ netPc' = netPc
              /\ incoming' = Append(incoming, Popped(framer))
           \/ netPc' = "full" /\ incoming' = incoming
        /\ UNCHANGED <<sendQueue, sendOffset, view, transferred, sessionOpen, wire,
                       accepted, delivered>>
    BY DownSame DEF Down!PopPacket, Down!IncomingHasRoom, Down!sender, Down!history
  <1> DEFINE z == SizeInHeader(framer)
             B == Buffered(framer)
             q == accepted[DownPopped + 1]
  <1>2. /\ Popped(framer) = q /\ DownPopped + 1 \in 1 .. Len(accepted)
        /\ z = q.size /\ z \in 1 .. Len(B)
    BY <1>1, DownPops
  <1>3. /\ FramerOK(framer) /\ B \in Seq(Byte) /\ wire \in Seq(Byte) /\ Len(B) \in Nat
        /\ accepted \in Seq(Packet) /\ incoming \in Seq(Packet) /\ delivered \in Seq(Packet)
    BY DownTyped, LenProperties
  <1>4. /\ FramerOK(framer') /\ framer'.buffer = framer.buffer
        /\ Buffered(framer') = SubSeq(B, z + 1, Len(B))
    <2>1. z \in 0 .. Len(B)
      BY <1>2, <1>3
    <2>2. QED  BY <1>1, <1>3, <2>1, PoppedBuffered
  <1>5. incoming' \in Seq(Packet) /\ Len(incoming') <= MaxIncomingMessages
    <2>1. q \in Packet /\ Len(incoming) \in Nat /\ Len(incoming) <= MaxIncomingMessages
      BY <1>2, <1>3, ElementOfSeq, LenProperties DEF DownInv, Down!TypeOK
    <2>2. /\ Append(incoming, q) \in Seq(Packet) /\ Len(Append(incoming, q)) = Len(incoming) + 1
      BY <1>3, <2>1, AppendProperties
    <2>3. MaxIncomingMessages \in Nat
      BY Capacities DEF Down!CapacitiesAssumption
    <2>4. CASE incoming' = incoming
      BY <1>3, <2>1, <2>4
    <2>5. CASE Len(incoming) < MaxIncomingMessages /\ incoming' = Append(incoming, q)
      BY <2>1, <2>2, <2>3, <2>5
    <2>6. QED  BY <1>1, <1>2, <2>4, <2>5
  <1> HIDE DEF z, B, q
  <1>6. Down!TypeOK'
    <2>1. framer' \in Framer /\ framer'.readOffset <= Len(framer'.buffer)
      BY <1>4 DEF FramerOK
    <2>2. Len(framer'.buffer) <= MaxBufferedRecvBytes
      BY <1>4, DownSame DEF DownInv, Down!TypeOK
    <2>3. netPc' \in {"frame", "full"}
      BY <1>1
    <2>4. QED  BY <1>1, <1>5, <2>1, <2>2, <2>3, DownSame DEF DownInv, Down!TypeOK, Down!LoopEnds
  <1>7. Down!FramingNeverFails' /\ Down!SendReadsTheFront'
    BY <1>1 DEF DownInv, Down!FramingNeverFails, Down!SendReadsTheFront
  <1>8. DownRoom'
    BY <1>1 DEF DownRoom
  <1>9. CASE netPc' = "full" /\ incoming' = incoming
    <2>1. DownQueue'
      BY <1>1, <1>9 DEF DownInv, DownQueue
    <2>2. DownStream'
      BY <1>9 DEF DownStream
    <2>3. QED  BY <1>6, <1>7, <1>8, <2>1, <2>2 DEF DownInv
  <1>10. CASE netPc' = netPc /\ incoming' = Append(incoming, Popped(framer))
    <2>1. incoming' = Append(incoming, accepted[Len(delivered) + Len(incoming) + 1])
      BY <1>2, <1>10 DEF DownPopped, q
    <2>2. /\ After(incoming', accepted, delivered) /\ Len(incoming') = Len(incoming) + 1
      <3>1. After(incoming, accepted, delivered)
        BY DEF DownInv, DownQueue
      <3>2. Len(delivered) + Len(incoming) + 1 <= Len(accepted)
        BY <1>2 DEF DownPopped
      <3>3. QED  BY <1>3, <2>1, <3>1, <3>2, AfterPopped
    <2>3. DownQueue'
      BY <1>1, <2>2 DEF DownInv, DownQueue
    <2>4. DownPopped' = DownPopped + 1 /\ DownFront' = DownFront /\ DownSent' = DownSent
      <3>1. Len(delivered) \in Nat /\ Len(incoming) \in Nat
        BY <1>3, LenProperties
      <3>2. QED  BY <1>1, <2>2, <3>1 DEF DownPopped, DownFront, DownSent
    <2>5. DownFlight' = SubSeq(DownFlight, z + 1, Len(DownFlight))
      <3>1. SubSeq(B, z + 1, Len(B)) \o wire = SubSeq(B \o wire, z + 1, Len(B \o wire))
        BY <1>2, <1>3, PopFromFront
      <3>2. QED  BY <1>1, <1>4, <3>1 DEF DownFlight, B
    <2>6. /\ DownFlight # <<>> /\ z <= Len(DownFlight)
      <3>1. Len(DownFlight) = Len(B) + Len(wire) /\ Len(wire) \in Nat
        BY <1>3, ConcatProperties, LenProperties DEF DownFlight, B
      <3>2. QED  BY <1>2, <1>3, <3>1, EmptySeq
    <2>7. /\ Continues(DownFlight, accepted, DownPopped) /\ Numbered(accepted)
          /\ sessionOpen => ReachesTo(DownFlight, accepted, DownPopped, DownFront, DownSent)
      BY <1>1 DEF DownInv, DownStream, DownQueue
    <2>8. DownFlight \in Seq(Byte) /\ DownPopped \in Nat /\ accepted[DownPopped + 1].size = z
      BY <1>2, DownTyped DEF q
    <2>9. Continues(DownFlight', accepted, DownPopped + 1)
      BY <1>3, <2>5, <2>6, <2>7, <2>8, PoppedContinues
    <2>10. sessionOpen => ReachesTo(DownFlight', accepted, DownPopped + 1, DownFront, DownSent)
      <3>1. DownFront \in 1 .. Len(accepted) + 1 /\ DownSent \in Nat
            /\ (DownSent > 0 => DownFront <= Len(accepted))
        BY DownTyped
      <3>2. QED  BY <1>3, <2>5, <2>6, <2>7, <2>8, <3>1, PoppedReachesTo
    <2>11. DownStream'
      BY <1>1, <2>4, <2>9, <2>10 DEF DownStream
    <2>12. QED  BY <1>6, <1>7, <1>8, <2>3, <2>11 DEF DownInv
  <1>11. QED  BY <1>1, <1>9, <1>10

(* The game takes the next message. *)
LEMMA DownDeliver ==
  ASSUME DownInv, Down!TryPopIncomingMessage
  PROVE  /\ DownInv' /\ UNCHANGED <<accepted, sessionOpen>>
         /\ Len(delivered) < Len(accepted)
         /\ delivered' = Append(delivered, accepted[Len(delivered) + 1])
  <1>1. /\ incoming # <<>> /\ incoming' = Tail(incoming)
        /\ delivered' = Append(delivered, Head(incoming))
        /\ UNCHANGED <<sendQueue, sendOffset, view, transferred, sessionOpen, wire, framer, netPc,
                       accepted>>
    BY DEF Down!TryPopIncomingMessage, Down!sender
  <1>2. /\ Head(incoming) = accepted[Len(delivered) + 1] /\ Len(delivered) < Len(accepted)
        /\ incoming' \in Seq(Packet) /\ delivered' \in Seq(Packet)
        /\ Len(delivered') + Len(incoming') = Len(delivered) + Len(incoming)
        /\ Len(incoming') = Len(incoming) - 1
        /\ After(incoming', accepted, delivered')
    <2>1. /\ accepted \in Seq(Packet) /\ incoming \in Seq(Packet) /\ delivered \in Seq(Packet)
          /\ After(incoming, accepted, delivered) /\ incoming # <<>>
      BY <1>1, DownTyped DEF DownInv, DownQueue
    <2>2. /\ Head(incoming) = accepted[Len(delivered) + 1] /\ Len(delivered) < Len(accepted)
          /\ Tail(incoming) \in Seq(Packet) /\ Append(delivered, Head(incoming)) \in Seq(Packet)
          /\ Len(Append(delivered, Head(incoming))) + Len(Tail(incoming))
               = Len(delivered) + Len(incoming)
          /\ Len(Tail(incoming)) = Len(incoming) - 1
          /\ After(Tail(incoming), accepted, Append(delivered, Head(incoming)))
      BY <2>1, AfterDelivered
    <2>3. QED  BY <1>1, <2>2
  <1>3. Len(incoming') <= MaxIncomingMessages
    <2>1. /\ Len(incoming) \in Nat /\ Len(incoming) <= MaxIncomingMessages /\ MaxIncomingMessages \in Nat
      BY DownTyped, LenProperties, Capacities DEF DownInv, Down!TypeOK, Down!CapacitiesAssumption
    <2>2. QED  BY <1>2, <2>1
  <1>4. Down!TypeOK' /\ Down!FramingNeverFails' /\ Down!SendReadsTheFront'
    BY <1>1, <1>2, <1>3, DownSame
    DEF DownInv, Down!TypeOK, Down!FramingNeverFails, Down!SendReadsTheFront
  <1>5. DownQueue' /\ DownRoom'
    BY <1>1, <1>2 DEF DownInv, DownQueue, DownRoom
  <1>6. DownStream'
    <2>1. DownFlight' = DownFlight /\ DownPopped' = DownPopped /\ DownFront' = DownFront
          /\ DownSent' = DownSent
      BY <1>1, <1>2 DEF DownFlight, DownPopped, DownFront, DownSent
    <2>2. QED  BY <1>1, <2>1 DEF DownInv, DownStream
  <1>7. QED  BY <1>1, <1>2, <1>4, <1>5, <1>6 DEF DownInv

LEMMA DownStep ==
  ASSUME DownInv, Down!Next
  PROVE  DownInv'
  BY DownSend, DownSendRefused, DownHandleSend, DownTransmit, DownConnectionLost, DownRecvChunk,
     DownRecvEnd, DownPopNothing, DownPopPacket, DownDeliver
  DEF Down!Next, Down!NetworkLoop

LEMMA DownUnchanged ==
  ASSUME DownInv, UNCHANGED down
  PROVE  DownInv'
  <1>1. UNCHANGED <<sendQueue, sendOffset, view, transferred, sessionOpen, wire, framer,
                    netPc, incoming, accepted, delivered>>
    BY DEF down
  <1>2. Down!TypeOK' /\ Down!FramingNeverFails' /\ Down!SendReadsTheFront'
    BY <1>1 DEF DownInv, Down!TypeOK, Down!FramingNeverFails, Down!SendReadsTheFront
  <1>3. DownQueue' /\ DownStream' /\ DownRoom'
    BY <1>1 DEF DownInv, DownQueue, DownStream, DownRoom, DownFlight, DownPopped, DownFront, DownSent
  <1>4. QED  BY <1>2, <1>3 DEF DownInv

-----------------------------------------------------------------------------
(* The direction to the server.                                            *)

(* Its framer and packets are those of PacketFramer. *)
LEMMA UpSame ==
  /\ Up!Packet = Packet /\ Up!Byte = Byte /\ Up!Framer = Framer
  /\ Up!NewFramer = NewFramer /\ Up!MaxBufferedRecvBytes = MaxBufferedRecvBytes
  /\ \A p : Up!Bytes(p) = Bytes(p)
  /\ \A f : /\ Up!PopResult(f) = PopResult(f) /\ Up!Popped(f) = Popped(f)
           /\ Up!AfterPop(f) = AfterPop(f)
  /\ \A f, b : /\ Up!AppendSucceeds(f, b) <=> AppendSucceeds(f, b)
              /\ Up!AfterAppend(f, b) = AfterAppend(f, b)
  <1>1. Up!Packet = Packet /\ Up!Byte = Byte /\ Up!Framer = Framer
    BY DEF Up!Packet, Packet, Up!Byte, Byte, Up!Framer, Framer
  <1>2. Up!NewFramer = NewFramer /\ Up!MaxBufferedRecvBytes = MaxBufferedRecvBytes
    BY DEF Up!NewFramer, NewFramer, Up!MaxBufferedRecvBytes, MaxBufferedRecvBytes
  <1>3. \A p : Up!Bytes(p) = Bytes(p)
    BY DEF Up!Bytes, Bytes
  <1>4. \A f : Up!Buffered(f) = Buffered(f) /\ Up!SizeInHeader(f) = SizeInHeader(f)
    BY DEF Up!Buffered, Buffered, Up!SizeInHeader, SizeInHeader
  <1>5. ASSUME NEW f  PROVE Up!PopResult(f) = PopResult(f)
    <2>1. Up!HasHeader(f) <=> HasHeader(f)
      BY <1>4 DEF Up!HasHeader, HasHeader
    <2>2. Up!HoldsPacket(f) <=> HoldsPacket(f)
      BY <1>4 DEF Up!HoldsPacket, HoldsPacket
    <2>3. QED  BY <1>4, <2>1, <2>2 DEF Up!PopResult, PopResult
  <1>6. \A f : Up!Popped(f) = Popped(f) /\ Up!AfterPop(f) = AfterPop(f)
    BY <1>4 DEF Up!Popped, Popped, Up!AfterPop, AfterPop
  <1>7. \A f : Up!CompactConsumedBytes(f) = CompactConsumedBytes(f)
    BY <1>4 DEF Up!CompactConsumedBytes, CompactConsumedBytes
  <1>8. ASSUME NEW f, NEW b  PROVE Up!AppendSucceeds(f, b) <=> AppendSucceeds(f, b)
    BY <1>2, <1>7 DEF Up!AppendSucceeds, AppendSucceeds
  <1>9. ASSUME NEW f, NEW b  PROVE Up!AfterAppend(f, b) = AfterAppend(f, b)
    BY <1>7, <1>8 DEF Up!AfterAppend, AfterAppend
  <1>10. QED  BY <1>1, <1>2, <1>3, <1>5, <1>6, <1>8, <1>9

LEMMA TailOfConcat ==
  ASSUME NEW q \in Seq(Packet), NEW r \in Seq(Packet), q # <<>>
  PROVE  /\ q \o r \in Seq(Packet) /\ q \o r # <<>> /\ Head(q \o r) = Head(q)
         /\ Tail(q) \o r = Tail(q \o r) /\ Tail(q) \in Seq(Packet)
  <1> DEFINE E == q \o r
             F == Tail(q) \o r
  <1>1. /\ E \in Seq(Packet) /\ Len(E) = Len(q) + Len(r)
        /\ \A i \in 1 .. Len(q) + Len(r) : E[i] = IF i <= Len(q) THEN q[i] ELSE r[i - Len(q)]
    BY ConcatProperties
  <1>2. Len(q) \in Nat \ {0} /\ Len(r) \in Nat /\ Head(q) = q[1]
    BY EmptySeq, LenProperties
  <1>3. /\ Tail(q) \in Seq(Packet) /\ Len(Tail(q)) = Len(q) - 1
        /\ \A i \in 1 .. Len(Tail(q)) : Tail(q)[i] = q[i + 1]
    BY HeadTailProperties
  <1>4. /\ F \in Seq(Packet) /\ Len(F) = Len(Tail(q)) + Len(r)
        /\ \A i \in 1 .. Len(Tail(q)) + Len(r) :
             F[i] = IF i <= Len(Tail(q)) THEN Tail(q)[i] ELSE r[i - Len(Tail(q))]
    BY <1>3, ConcatProperties
  <1> HIDE DEF E, F
  <1>5. E # <<>> /\ Head(E) = E[1] /\ E[1] = q[1]
    <2>1. Len(E) >= 1
      BY <1>1, <1>2
    <2>2. E # <<>>
      BY <2>1, EmptySeq
    <2>3. QED  BY <1>1, <1>2, <2>2
  <1>6. /\ Tail(E) \in Seq(Packet) /\ Len(Tail(E)) = Len(E) - 1
        /\ \A i \in 1 .. Len(Tail(E)) : Tail(E)[i] = E[i + 1]
    BY <1>1, <1>5, HeadTailProperties
  <1>7. Len(F) = Len(Tail(E))
    BY <1>1, <1>2, <1>3, <1>4, <1>6
  <1>8. ASSUME NEW i \in 1 .. Len(F)  PROVE F[i] = Tail(E)[i]
    <2>1. i + 1 \in 1 .. Len(q) + Len(r) /\ i \in 1 .. Len(Tail(q)) + Len(r) /\ i \in Nat
      BY <1>2, <1>3, <1>4
    <2>2. Tail(E)[i] = E[i + 1]
      BY <1>6, <1>7
    <2>3. CASE i <= Len(Tail(q))
      <3>1. i + 1 <= Len(q) /\ i \in 1 .. Len(Tail(q))
        BY <1>2, <1>3, <2>1, <2>3
      <3>2. E[i + 1] = q[i + 1]
        BY <1>1, <2>1, <3>1
      <3>3. F[i] = q[i + 1]
        BY <1>3, <1>4, <2>1, <2>3, <3>1
      <3>4. QED  BY <2>2, <3>2, <3>3
    <2>4. CASE ~(i <= Len(Tail(q)))
      <3>1. ~(i + 1 <= Len(q)) /\ (i + 1) - Len(q) = i - Len(Tail(q))
        BY <1>2, <1>3, <2>1, <2>4
      <3>2. E[i + 1] = r[(i + 1) - Len(q)]
        BY <1>1, <2>1, <3>1
      <3>3. F[i] = r[i - Len(Tail(q))]
        BY <1>4, <2>1, <2>4
      <3>4. QED  BY <2>2, <3>1, <3>2, <3>3
    <2>5. QED  BY <2>3, <2>4
  <1>9. F = Tail(E)
    BY <1>4, <1>6, <1>7, <1>8, SeqEqual
  <1>10. QED  BY <1>1, <1>2, <1>3, <1>5, <1>9 DEF E, F

LEMMA AppendToConcat ==
  ASSUME NEW q \in Seq(Packet), NEW r \in Seq(Packet), NEW p \in Packet
  PROVE  q \o Append(r, p) = Append(q \o r, p)
  <1>1. Append(r, p) = r \o <<p>> /\ <<p>> \in Seq(Packet)
    BY AppendIsConcat
  <1>2. q \o r \in Seq(Packet)
    BY ConcatProperties
  <1>3. Append(q \o r, p) = (q \o r) \o <<p>>
    BY <1>2, AppendIsConcat
  <1>4. (q \o r) \o <<p>> = q \o (r \o <<p>>)
    BY <1>1, ConcatAssociative
  <1>5. QED  BY <1>1, <1>3, <1>4

LEMMA UpTyped ==
  ASSUME UpInv
  PROVE  /\ FramerOK(sessionFramer) /\ Buffered(sessionFramer) \in Seq(Byte)
         /\ clientWire \in Seq(Byte) /\ UpFlight \in Seq(Byte)
         /\ queued \in Seq(Packet) /\ handled \in Seq(Packet) /\ recvd \in Seq(Packet)
         /\ clientQueue \in Seq(Packet) /\ pending \in Seq(Packet) /\ ToSend \in Seq(Packet)
         /\ UpPopped \in Nat /\ UpFront \in 1 .. Len(queued) + 1
         /\ clientOffset \in 0 .. MaxPacketSize /\ clientOffset \in Nat
         /\ pending # <<>> =>
              /\ UpFront \in 1 .. Len(queued) /\ Head(pending) = queued[UpFront]
              /\ Head(pending) \in Packet
         /\ clientOffset > 0 => pending # <<>>
  <1>1. /\ FramerOK(sessionFramer) /\ clientWire \in Seq(Byte)
        /\ queued \in Seq(Packet) /\ handled \in Seq(Packet) /\ recvd \in Seq(Packet)
        /\ clientQueue \in Seq(Packet) /\ pending \in Seq(Packet)
        /\ clientOffset \in 0 .. MaxPacketSize /\ clientOffset \in Nat
    <2>1. /\ sessionFramer \in Framer /\ sessionFramer.readOffset <= Len(sessionFramer.buffer)
          /\ clientWire \in Seq(Byte)
          /\ queued \in Seq(Packet) /\ handled \in Seq(Packet) /\ recvd \in Seq(Packet)
          /\ clientQueue \in Seq(Packet) /\ pending \in Seq(Packet)
          /\ clientOffset \in 0 .. MaxPacketSize
      BY UpSame DEF UpInv, Up!TypeOK
    <2>2. QED  BY <2>1, SizesAssumption DEF FramerOK
  <1>2. Buffered(sessionFramer) \in Seq(Byte)
    BY <1>1, BufferedTyped
  <1>3. UpFlight \in Seq(Byte)
    BY <1>1, <1>2, ConcatProperties DEF UpFlight
  <1>4. ToSend \in Seq(Packet) /\ LastOf(ToSend, queued)
    BY <1>1, ConcatProperties DEF ToSend, UpInv, UpQueue
  <1>5. UpFront \in 1 .. Len(queued) + 1
    <2>1. Len(ToSend) \in Nat /\ Len(queued) \in Nat
      BY <1>1, <1>4, LenProperties
    <2>2. QED  BY <1>4, <2>1 DEF LastOf, UpFront
  <1>6. pending # <<>> =>
          /\ UpFront \in 1 .. Len(queued) /\ Head(pending) = queued[UpFront]
          /\ Head(pending) \in Packet
    <2> SUFFICES ASSUME pending # <<>>
                 PROVE  /\ UpFront \in 1 .. Len(queued) /\ Head(pending) = queued[UpFront]
                        /\ Head(pending) \in Packet
      OBVIOUS
    <2>1. ToSend # <<>> /\ Head(ToSend) = Head(pending)
      BY <1>1, TailOfConcat DEF ToSend
    <2>2. QED  BY <1>1, <1>4, <2>1, LastOfTail DEF UpFront
  <1>7. clientOffset > 0 => pending # <<>>
    BY DEF UpInv, UpQueue
  <1>8. UpPopped \in Nat
    <2>1. Len(handled) \in Nat /\ Len(recvd) \in Nat
      BY <1>1, LenProperties
    <2>2. QED  BY <2>1 DEF UpPopped
  <1>9. QED  BY <1>1, <1>2, <1>3, <1>4, <1>5, <1>6, <1>7, <1>8

LEMMA UpInit ==
  ASSUME Up!Init
  PROVE  UpInv
  <1>1. /\ Buffered(sessionFramer) = <<>> /\ sessionFramer.readOffset = 0
        /\ Len(sessionFramer.buffer) = 0 /\ sessionFramer \in Framer
    <2>1. sessionFramer.buffer = <<>> /\ sessionFramer.readOffset = 0 /\ sessionFramer \in Framer
      <3>1. sessionFramer = [buffer |-> <<>>, readOffset |-> 0] /\ <<>> \in Seq(Byte)
        BY EmptySeq, UpSame DEF Up!Init, NewFramer
      <3>2. QED  BY <3>1 DEF Framer
    <2>2. QED  BY <2>1, EmptySeq, SubSeqEmpty DEF Buffered
  <1>2. ToSend = <<>> /\ UpFlight = <<>> /\ UpPopped = 0 /\ UpFront = 1
    BY <1>1, EmptySeq DEF Up!Init, ToSend, UpFlight, UpPopped, UpFront
  <1>3. Up!TypeOK
    <2>1. 0 <= MaxQueuedPackets /\ 0 \in 0 .. MaxPacketSize
          /\ 0 <= MaxBufferedRecvBytes /\ MaxBufferedRecvBytes \in Nat
      BY SizesAssumption, Capacities DEF Up!CapacitiesAssumption, MaxBufferedRecvBytes
    <2>2. <<>> \in Seq(Packet) /\ <<>> \in Seq(Byte) /\ Len(<<>>) = 0
      BY EmptySeq
    <2>3. /\ queueing = FALSE /\ clientQueue = <<>> /\ pending = <<>> /\ clientOffset = 0
          /\ clientPc = "swap" /\ clientWire = <<>> /\ recvPc = "posted" /\ recvd = <<>>
          /\ queued = <<>> /\ handled = <<>>
      BY DEF Up!Init
    <2>4. /\ clientQueue \in Seq(Packet) /\ Len(clientQueue) <= MaxQueuedPackets
          /\ pending \in Seq(Packet) /\ clientOffset \in 0 .. MaxPacketSize
          /\ clientWire \in Seq(Byte) /\ recvd \in Seq(Packet)
          /\ queued \in Seq(Packet) /\ handled \in Seq(Packet)
      BY <2>1, <2>2, <2>3
    <2>5. queueing \in BOOLEAN /\ clientPc \in {"swap", "select", "send", "closed", "ended"}
          /\ recvPc \in {"posted", "frame", "dispatch"} \cup Up!Closings
      BY <2>3
    <2>6. sessionFramer.readOffset <= Len(sessionFramer.buffer)
          /\ Len(sessionFramer.buffer) <= MaxBufferedRecvBytes
      BY <1>1, <2>1
    <2>7. QED  BY <1>1, <2>4, <2>5, <2>6, UpSame DEF Up!TypeOK
  <1>4. Up!FramingNeverFails
    BY DEF Up!Init, Up!FramingNeverFails
  <1>5. UpQueue
    BY <1>2, EmptySeq DEF Up!Init, UpQueue, Numbered, LastOf, After
  <1>6. UpStream
    BY <1>2, EmptySeq DEF Up!Init, UpStream, Continues, ReachesTo
  <1>7. UpRoom
    BY <1>1, EmptySeq, SizesAssumption DEF UpRoom
  <1>8. QED  BY <1>3, <1>4, <1>5, <1>6, <1>7 DEF UpInv

(* NetworkClient::QueueInput finds the client connected. *)
LEMMA UpQueueInput ==
  ASSUME UpInv, Up!QueueInput
  PROVE  UpInv'
  <1>1. /\ Len(queued) < MaxPackets /\ queueing' = TRUE
        /\ UNCHANGED <<clientQueue, pending, clientOffset, clientPc, clientWire, sessionFramer,
                       recvPc, recvd, queued, handled>>
    BY DEF Up!QueueInput, Up!receiver, Up!history
  <1>2. Up!TypeOK' /\ Up!FramingNeverFails'
    BY <1>1 DEF UpInv, Up!TypeOK, Up!FramingNeverFails
  <1>3. UpQueue' /\ UpRoom'
    BY <1>1 DEF UpInv, UpQueue, UpRoom, ToSend
  <1>4. UpStream'
    BY <1>1 DEF UpInv, UpStream, UpFlight, UpPopped, UpFront, ToSend, Up!SocketClosed
  <1>5. QED  BY <1>2, <1>3, <1>4 DEF UpInv

(* And NetworkClient::QueuePacket queues the packet, or refuses it. *)
LEMMA UpQueuesPacket ==
  ASSUME UpInv, NEW p \in Packet, p.id = Len(queued) + 1, Up!QueuePacket(p),
         Up!SendQueueHasRoom
  PROVE  UpInv'
  <1>1. /\ Len(clientQueue) < MaxQueuedPackets
        /\ clientQueue' = Append(clientQueue, p) /\ queued' = Append(queued, p)
        /\ UNCHANGED <<pending, clientOffset, clientPc, clientWire, sessionFramer, recvPc, recvd, handled>>
        /\ queueing' = FALSE
    BY DEF Up!QueuePacket, Up!SendQueueHasRoom, Up!receiver
  <1>2. /\ clientQueue' \in Seq(Packet) /\ Len(clientQueue') = Len(clientQueue) + 1
        /\ queued' \in Seq(Packet) /\ Len(queued') = Len(queued) + 1
    BY <1>1, UpTyped, AppendProperties
  <1>3. ToSend' = Append(ToSend, p) /\ Len(ToSend') = Len(ToSend) + 1
    <2>1. ToSend' = Append(ToSend, p)
      BY <1>1, UpTyped, AppendToConcat DEF ToSend
    <2>2. QED  BY <2>1, UpTyped, AppendProperties
  <1>4. Up!TypeOK' /\ Up!FramingNeverFails'
    <2>1. Len(clientQueue') <= MaxQueuedPackets
      <3>1. Len(clientQueue) \in Nat /\ MaxQueuedPackets \in Nat
        BY UpTyped, LenProperties, Capacities DEF Up!CapacitiesAssumption
      <3>2. QED  BY <1>1, <1>2, <3>1
    <2>2. QED  BY <1>1, <1>2, <2>1, UpSame DEF UpInv, Up!TypeOK, Up!FramingNeverFails
  <1>5. UpQueue'
    <2>1. Numbered(queued') /\ LastOf(ToSend', queued') /\ After(recvd', queued', handled')
      BY <1>1, <1>3, UpTyped, NumberedAppend, LastOfAppend, AfterAccepted DEF UpInv, UpQueue
    <2>2. QED  BY <1>1, <2>1 DEF UpInv, UpQueue
  <1>6. UpStream'
    <2>1. /\ UpFlight' = UpFlight /\ UpPopped' = UpPopped
      BY <1>1 DEF UpFlight, UpPopped
    <2>2. UpFront' = UpFront
      <3>1. Len(ToSend) \in Nat /\ Len(queued) \in Nat
        BY UpTyped, LenProperties
      <3>2. QED  BY <1>2, <1>3, <3>1 DEF UpFront
    <2>3. /\ Continues(UpFlight, queued, UpPopped)
          /\ ~Up!SocketClosed => ReachesTo(UpFlight, queued, UpPopped, UpFront, clientOffset)
      BY DEF UpInv, UpStream
    <2>4. Continues(UpFlight, queued', UpPopped)
      BY <1>1, <2>3, UpTyped, AcceptedContinues
    <2>5. ~Up!SocketClosed => ReachesTo(UpFlight, queued', UpPopped, UpFront, clientOffset)
      <3>1. clientOffset > 0 => UpFront <= Len(queued)
        BY UpTyped
      <3>2. QED  BY <1>1, <2>3, <3>1, UpTyped, AcceptedReachesTo
    <2>6. QED  BY <1>1, <2>1, <2>2, <2>4, <2>5 DEF UpStream, Up!SocketClosed
  <1>7. UpRoom'
    BY <1>1 DEF UpInv, UpRoom
  <1>8. QED  BY <1>4, <1>5, <1>6, <1>7 DEF UpInv

LEMMA UpQueueNext ==
  ASSUME UpInv, Up!QueueNext
  PROVE  UpInv'
  <1>1. PICK size \in HeaderSize .. MaxPacketSize :
          Up!QueuePacket([id |-> Len(queued) + 1, size |-> size])
    BY DEF Up!QueueNext
  <1> DEFINE p == [id |-> Len(queued) + 1, size |-> size]
  <1>2. p \in Packet /\ p.id = Len(queued) + 1
    <2>1. Len(queued) \in Nat
      BY UpTyped, LenProperties
    <2>2. Len(queued) < MaxPackets
      BY <1>1 DEF Up!QueuePacket, UpInv, UpQueue
    <2>3. Len(queued) + 1 \in 1 .. MaxPackets
      BY <2>1, <2>2, SizesAssumption
    <2>4. QED  BY <2>3, SizesAssumption DEF Packet
  <1>3. Up!QueuePacket(p)
    BY <1>1
  <1> HIDE DEF p
  <1>4. CASE Up!SendQueueHasRoom
    BY <1>2, <1>3, <1>4, UpQueuesPacket
  <1>5. CASE ~Up!SendQueueHasRoom
    <2>1. /\ queueing' = FALSE
          /\ UNCHANGED <<clientQueue, pending, clientOffset, clientPc, clientWire, sessionFramer,
                         recvPc, recvd, queued, handled>>
      BY <1>3, <1>5 DEF Up!QueuePacket, Up!receiver
    <2>2. Up!TypeOK' /\ Up!FramingNeverFails'
      BY <2>1 DEF UpInv, Up!TypeOK, Up!FramingNeverFails
    <2>3. UpQueue' /\ UpRoom'
      BY <2>1 DEF UpInv, UpQueue, UpRoom, ToSend
    <2>4. UpStream'
      BY <2>1 DEF UpInv, UpStream, UpFlight, UpPopped, UpFront, ToSend, Up!SocketClosed
    <2>5. QED  BY <2>2, <2>3, <2>4 DEF UpInv
  <1>6. QED  BY <1>4, <1>5

(* Steps of the network thread that send nothing. *)
LEMMA UpKeeps ==
  ASSUME UpInv, ToSend' = ToSend, pending' \in Seq(Packet), clientQueue' \in Seq(Packet),
         Len(clientQueue') <= Len(clientQueue),
         pending # <<>> => pending' # <<>> /\ Head(pending') = Head(pending),
         clientPc' \in {"swap", "select", "send", "closed", "ended"},
         Up!SocketClosed => Up!SocketClosed',
         UNCHANGED <<queueing, clientOffset, clientWire, sessionFramer, recvPc, recvd, queued,
                     handled>>
  PROVE  UpInv'
  <1>1. Len(clientQueue') <= MaxQueuedPackets
    <2>1. Len(clientQueue) \in Nat /\ Len(clientQueue') \in Nat /\ MaxQueuedPackets \in Nat
          /\ Len(clientQueue) <= MaxQueuedPackets
      BY UpTyped, LenProperties, Capacities DEF Up!CapacitiesAssumption, UpInv, Up!TypeOK
    <2>2. QED  BY <2>1
  <1>2. Up!TypeOK' /\ Up!FramingNeverFails'
    BY <1>1, UpSame DEF UpInv, Up!TypeOK, Up!FramingNeverFails
  <1>3. pending' = <<>> => clientOffset' = 0
    BY DEF UpInv, UpQueue
  <1>4. pending' # <<>> => clientOffset' < Head(pending').size
    <2>1. CASE pending # <<>>
      BY <2>1 DEF UpInv, UpQueue
    <2>2. CASE pending = <<>>
      <3>1. clientOffset' = 0
        BY <2>2 DEF UpInv, UpQueue
      <3>2. pending' # <<>> => Head(pending') \in Packet
        BY HeadTailProperties
      <3>3. QED  BY <3>1, <3>2, BytesTyped
    <2>3. QED  BY <2>1, <2>2
  <1>5. UpQueue'
    BY <1>3, <1>4 DEF UpInv, UpQueue
  <1>6. UpStream'
    BY DEF UpInv, UpStream, Up!SocketClosed, UpFlight, UpPopped, UpFront
  <1>7. UpRoom'
    BY DEF UpInv, UpRoom
  <1>8. QED  BY <1>2, <1>5, <1>6, <1>7 DEF UpInv

LEMMA UpSwapQueues ==
  ASSUME UpInv, Up!SwapQueues
  PROVE  UpInv'
  <1>1. /\ pending' = pending \o clientQueue /\ clientQueue' = <<>>
        /\ clientPc = "swap" /\ clientPc' = "select"
        /\ UNCHANGED <<queueing, clientOffset, clientWire, sessionFramer, recvPc, recvd, queued,
                       handled>>
    BY DEF Up!SwapQueues, Up!PendingAfterSwap, Up!receiver, Up!history
  <1>2. /\ pending \in Seq(Packet) /\ clientQueue \in Seq(Packet) /\ Len(clientQueue) \in Nat
        /\ pending' \in Seq(Packet) /\ clientQueue' \in Seq(Packet) /\ Len(clientQueue') = 0
    BY <1>1, UpTyped, ConcatProperties, EmptySeq, LenProperties
  <1>3. ToSend' = ToSend
    BY <1>1, <1>2, ConcatEmptySeq DEF ToSend
  <1>4. pending # <<>> => pending' # <<>> /\ Head(pending') = Head(pending)
    BY <1>1, <1>2, TailOfConcat
  <1>5. Len(clientQueue') <= Len(clientQueue) /\ ~Up!SocketClosed
    BY <1>1, <1>2 DEF Up!SocketClosed
  <1>6. QED  BY <1>1, <1>2, <1>3, <1>4, <1>5, UpKeeps

LEMMA UpSelects ==
  ASSUME UpInv, Up!Select \/ Up!SendNothing
  PROVE  UpInv'
  <1>1. /\ clientPc \in {"select", "send"} /\ clientPc' \in {"swap", "send"}
        /\ UNCHANGED <<queueing, clientQueue, pending, clientOffset, clientWire, sessionFramer, recvPc, recvd,
                       queued, handled>>
    BY DEF Up!Select, Up!SendNothing, Up!receiver, Up!history
  <1>2. /\ ToSend' = ToSend /\ pending' \in Seq(Packet) /\ clientQueue' \in Seq(Packet)
        /\ Len(clientQueue') <= Len(clientQueue)
    BY <1>1, UpTyped, LenProperties DEF ToSend
  <1>3. ~Up!SocketClosed
    BY <1>1 DEF Up!SocketClosed
  <1>4. QED  BY <1>1, <1>2, <1>3, UpKeeps

(* The loop has closed the socket and clears _connected. *)
LEMMA UpClearConnected ==
  ASSUME UpInv, Up!ClearConnected
  PROVE  UpInv'
  <1>1. /\ clientPc = "closed" /\ clientPc' = "ended"
        /\ UNCHANGED <<queueing, clientQueue, pending, clientOffset, clientWire, sessionFramer,
                       recvPc, recvd, queued, handled>>
    BY DEF Up!ClearConnected, Up!receiver, Up!history
  <1>2. /\ ToSend' = ToSend /\ pending' \in Seq(Packet) /\ clientQueue' \in Seq(Packet)
        /\ Len(clientQueue') <= Len(clientQueue)
    BY <1>1, UpTyped, LenProperties DEF ToSend
  <1>3. Up!SocketClosed'
    BY <1>1 DEF Up!SocketClosed
  <1>4. QED  BY <1>1, <1>2, <1>3, UpKeeps

(* One turn of SendPacketsToServer. *)
LEMMA UpSendPart ==
  ASSUME UpInv, Up!SendPart
  PROVE  UpInv'
  <1>1. PICK c \in 1 .. Head(pending).size - clientOffset :
          /\ clientWire' = clientWire \o SubSeq(Bytes(Head(pending)), clientOffset + 1, clientOffset + c)
          /\ clientOffset' = Up!OffsetAfter(c)
          /\ IF Up!SendsRest(c)
             THEN pending' = Tail(pending) /\ clientPc' = clientPc
             ELSE clientPc' = "swap" /\ pending' = pending
    BY UpSame DEF Up!SendPart
  <1>2. /\ clientPc = "send" /\ pending # <<>>
        /\ UNCHANGED <<queueing, clientQueue, sessionFramer, recvPc, recvd, queued, handled>>
        /\ ~Up!SocketClosed
    BY DEF Up!SendPart, Up!receiver, Up!history, Up!SocketClosed
  <1> DEFINE q == Head(pending)
             whole == clientOffset + c = q.size
             X == SubSeq(Bytes(queued[UpFront]), clientOffset + 1, clientOffset + c)
  <1>3. /\ UpFront \in 1 .. Len(queued) /\ q = queued[UpFront] /\ q \in Packet
        /\ q.size \in Nat /\ q.size <= MaxPacketSize
    BY <1>2, UpTyped, BytesTyped
  <1>4. clientOffset \in Nat /\ MaxPacketSize \in Nat /\ clientOffset < q.size
    BY <1>2, UpTyped, SizesAssumption DEF UpInv, UpQueue
  <1>5. c \in Nat \ {0} /\ clientOffset + c <= q.size
    BY <1>3, <1>4
  <1>6. clientWire' = clientWire \o X /\ X \in Seq(Byte)
    <2>1. clientWire' = clientWire \o X
      BY <1>1, <1>3
    <2>2. Bytes(q) \in Seq(Byte) /\ Len(Bytes(q)) = q.size
      BY <1>3, BytesTyped
    <2>3. \A i \in clientOffset + 1 .. clientOffset + c : Bytes(q)[i] \in Byte
      <3>1. \A i \in clientOffset + 1 .. clientOffset + c : i \in 1 .. q.size
        BY <1>3, <1>4, <1>5
      <3>2. QED  BY <2>2, <3>1, ElementOfSeq
    <2>4. clientOffset + 1 \in Int /\ clientOffset + c \in Int
      BY <1>4, <1>5
    <2>5. QED  BY <1>3, <2>1, <2>3, <2>4, SubSeqProperties
  <1>7. /\ clientOffset' = (IF whole THEN 0 ELSE clientOffset + c)
        /\ pending' = (IF whole THEN Tail(pending) ELSE pending)
        /\ clientPc' \in {"send", "swap"}
    BY <1>1, <1>2 DEF Up!OffsetAfter, Up!SendsRest
  <1> HIDE DEF X, whole
  <1>8. /\ clientWire' \in Seq(Byte) /\ UpFlight' = UpFlight \o X
    <2>1. Buffered(sessionFramer) \in Seq(Byte) /\ clientWire \in Seq(Byte)
      BY UpTyped
    <2>2. clientWire' \in Seq(Byte)
      BY <1>6, <2>1, ConcatProperties
    <2>3. (Buffered(sessionFramer) \o clientWire) \o X = Buffered(sessionFramer) \o (clientWire \o X)
      BY <1>6, <2>1, ConcatAssociative
    <2>4. QED  BY <1>2, <1>6, <2>2, <2>3 DEF UpFlight
  <1>9. /\ Tail(pending) \in Seq(Packet) /\ Tail(pending) \o clientQueue = Tail(ToSend)
        /\ ToSend # <<>> /\ LastOf(ToSend, queued)
        /\ LastOf(Tail(ToSend), queued) /\ Len(Tail(ToSend)) = Len(ToSend) - 1
    <2>1. pending \in Seq(Packet) /\ clientQueue \in Seq(Packet) /\ queued \in Seq(Packet)
          /\ ToSend \in Seq(Packet) /\ LastOf(ToSend, queued)
      BY UpTyped DEF UpInv, UpQueue
    <2>2. /\ Tail(pending) \in Seq(Packet) /\ Tail(pending) \o clientQueue = Tail(ToSend)
          /\ ToSend # <<>>
      BY <1>2, <2>1, TailOfConcat DEF ToSend
    <2>3. QED  BY <2>1, <2>2, LastOfTail
  <1>10. /\ Continues(UpFlight', queued, UpPopped)
         /\ ReachesTo(UpFlight', queued, UpPopped, UpFront, clientOffset + c)
    <2>1. /\ Continues(UpFlight, queued, UpPopped) /\ Numbered(queued)
          /\ ReachesTo(UpFlight, queued, UpPopped, UpFront, clientOffset)
      BY <1>2 DEF UpInv, UpStream, UpQueue
    <2>2. QED  BY <1>3, <1>4, <1>5, <1>8, <2>1, UpTyped, SentContinues DEF X
  <1>11. UpFlight' \in Seq(Byte)
    BY <1>6, <1>8, UpTyped, ConcatProperties
  <1>12. UpPopped' = UpPopped /\ UpRoom' /\ Up!FramingNeverFails'
    BY <1>2 DEF UpPopped, UpInv, UpRoom, Up!FramingNeverFails
  <1>13. CASE whole
    <2>1. pending' = Tail(pending) /\ clientOffset' = 0 /\ ToSend' = Tail(ToSend)
      BY <1>2, <1>7, <1>9, <1>13 DEF ToSend
    <2>2. Up!TypeOK'
      <3>1. pending' \in Seq(Packet) /\ clientOffset' \in 0 .. MaxPacketSize
        <4>1. Tail(pending) \in Seq(Packet)
          BY <1>9
        <4>2. 0 \in 0 .. MaxPacketSize
          BY SizesAssumption
        <4>3. QED  BY <2>1, <4>1, <4>2
      <3>2. QED  BY <1>2, <1>7, <1>8, <3>1, UpSame DEF UpInv, Up!TypeOK
    <2>3. UpQueue'
      <3>1. pending' # <<>> => clientOffset' < Head(pending').size
        <4>1. pending' # <<>> => Head(pending') \in Packet
          BY <1>9, <2>1, HeadTailProperties
        <4>2. QED  BY <2>1, <4>1, BytesTyped
      <3>2. QED  BY <1>2, <1>9, <2>1, <3>1 DEF UpInv, UpQueue
    <2>4. UpFront' = UpFront + 1
      <3>1. Len(ToSend) \in Nat /\ Len(queued) \in Nat
        BY UpTyped, LenProperties
      <3>2. Len(ToSend') = Len(ToSend) - 1 /\ queued' = queued
        BY <1>2, <1>9, <2>1
      <3>3. QED  BY <3>1, <3>2 DEF UpFront
    <2>5. ReachesTo(UpFlight', queued, UpPopped, UpFront, queued[UpFront].size)
      BY <1>3, <1>10, <1>13 DEF whole
    <2>6. ReachesTo(UpFlight', queued, UpPopped, UpFront + 1, 0)
      BY <1>3, <1>11, <2>5, UpTyped, SentWhole
    <2>7. UpStream'
      BY <1>2, <1>10, <1>12, <2>1, <2>4, <2>6 DEF UpStream, Up!SocketClosed
    <2>8. QED  BY <1>12, <2>2, <2>3, <2>7 DEF UpInv
  <1>14. CASE ~whole
    <2>1. pending' = pending /\ clientOffset' = clientOffset + c /\ ToSend' = ToSend
      BY <1>2, <1>7, <1>14 DEF ToSend
    <2>2. clientOffset' \in 0 .. MaxPacketSize /\ clientOffset' < q.size
      BY <1>3, <1>4, <1>5, <1>14, <2>1 DEF whole
    <2>3. Up!TypeOK'
      BY <1>2, <1>7, <1>8, <2>1, <2>2, UpSame DEF UpInv, Up!TypeOK
    <2>4. UpQueue'
      BY <1>2, <2>1, <2>2 DEF UpInv, UpQueue
    <2>5. UpStream'
      BY <1>2, <1>10, <1>12, <2>1 DEF UpStream, Up!SocketClosed, UpFront
    <2>6. QED  BY <1>12, <2>3, <2>4, <2>5 DEF UpInv
  <1>15. QED  BY <1>13, <1>14

(* The connection fails, with or without what is on its way. *)
LEMMA UpNetworkLoopEnds ==
  ASSUME UpInv, Up!NetworkLoopEnds
  PROVE  UpInv'
  <1>1. /\ clientPc' = "closed" /\ clientWire' \in {clientWire, <<>>}
        /\ UNCHANGED <<queueing, clientQueue, pending, clientOffset, sessionFramer, recvPc, recvd,
                       queued, handled>>
        /\ Up!SocketClosed'
    BY DEF Up!NetworkLoopEnds, Up!receiver, Up!history, Up!SocketClosed
  <1>2. Up!TypeOK' /\ Up!FramingNeverFails'
    <2>1. clientWire' \in Seq(Byte)
      BY <1>1, UpTyped, EmptySeq
    <2>2. QED  BY <1>1, <2>1, UpSame DEF UpInv, Up!TypeOK, Up!FramingNeverFails
  <1>3. UpQueue' /\ UpRoom'
    BY <1>1 DEF UpInv, UpQueue, UpRoom, ToSend
  <1>4. UpStream'
    <2>1. UpPopped' = UpPopped
      BY <1>1 DEF UpPopped
    <2>2. Continues(UpFlight', queued, UpPopped)
      <3>1. Continues(UpFlight, queued, UpPopped) /\ Buffered(sessionFramer) \in Seq(Byte)
            /\ clientWire \in Seq(Byte)
        BY UpTyped DEF UpInv, UpStream, Up!SocketClosed
      <3>2. CASE clientWire' = clientWire
        BY <1>1, <3>1, <3>2 DEF UpFlight
      <3>3. CASE clientWire' = <<>>
        <4>1. UpFlight' = Buffered(sessionFramer)
          BY <1>1, <3>1, <3>3, ConcatEmptySeq DEF UpFlight
        <4>2. Continues(Buffered(sessionFramer), queued, UpPopped)
          BY <3>1, UpTyped, FrontContinues DEF UpFlight
        <4>3. QED  BY <4>1, <4>2
      <3>4. QED  BY <1>1, <3>2, <3>3
    <2>3. QED  BY <1>1, <2>1, <2>2 DEF UpStream, Up!SocketClosed
  <1>5. QED  BY <1>2, <1>3, <1>4 DEF UpInv

(* A chunk goes from the connection into the framer, which has room for it. *)
LEMMA UpHandleRecv ==
  ASSUME UpInv, Up!HandleRecv
  PROVE  UpInv'
  <1>1. PICK c \in 1 .. ChunkSize :
          /\ c <= Len(clientWire)
          /\ clientWire' = SubSeq(clientWire, c + 1, Len(clientWire))
          /\ sessionFramer' = AfterAppend(sessionFramer, SubSeq(clientWire, 1, c))
          /\ recvPc' = IF AppendSucceeds(sessionFramer, SubSeq(clientWire, 1, c))
                       THEN "frame" ELSE "refused"
    BY UpSame DEF Up!HandleRecv
  <1>2. /\ recvPc = "posted"
        /\ UNCHANGED <<queueing, clientQueue, pending, clientOffset, clientPc, recvd, queued, handled>>
    BY DEF Up!HandleRecv, Up!sender, Up!history
  <1>3. /\ FramerOK(sessionFramer) /\ Buffered(sessionFramer) \in Seq(Byte)
        /\ clientWire \in Seq(Byte)
        /\ Len(clientWire) \in Nat /\ Len(Buffered(sessionFramer)) \in Nat
    BY UpTyped, LenProperties
  <1>4. Len(Buffered(sessionFramer)) < MaxPacketSize
    BY <1>2 DEF UpInv, UpRoom
  <1>5. ChunkSize \in Nat /\ MaxPacketSize \in Nat /\ ChunkSize <= MaxPacketSize
    BY SizesAssumption
  <1>6. c \in 1 .. Len(clientWire) /\ c <= MaxPacketSize
    BY <1>1, <1>3, <1>5
  <1> DEFINE X == SubSeq(clientWire, 1, c)
             R == SubSeq(clientWire, c + 1, Len(clientWire))
  <1>7. /\ X \in Seq(Byte) /\ Len(X) = c /\ R \in Seq(Byte)
        /\ (Buffered(sessionFramer) \o X) \o R = Buffered(sessionFramer) \o clientWire
    <2> DEFINE B == Buffered(sessionFramer)
    <2>1. B \in Seq(Byte) /\ clientWire \in Seq(Byte) /\ c \in 1 .. Len(clientWire)
      BY <1>3, <1>6
    <2> HIDE DEF B
    <2>2. /\ SubSeq(clientWire, 1, c) \in Seq(Byte) /\ Len(SubSeq(clientWire, 1, c)) = c
          /\ SubSeq(clientWire, c + 1, Len(clientWire)) \in Seq(Byte)
          /\ (B \o SubSeq(clientWire, 1, c)) \o SubSeq(clientWire, c + 1, Len(clientWire))
               = B \o clientWire
      BY <2>1, MoveToFramer
    <2>3. QED  BY <2>2 DEF B
  <1>8. clientWire' = R /\ sessionFramer' = AfterAppend(sessionFramer, X)
    BY <1>1
  <1>9. AppendSucceeds(sessionFramer, X) /\ Len(Buffered(sessionFramer)) + c <= MaxBufferedRecvBytes
    BY <1>3, <1>4, <1>5, <1>6, <1>7 DEF AppendSucceeds, CompactConsumedBytes, MaxBufferedRecvBytes
  <1>10. recvPc' = "frame"
    BY <1>1, <1>9
  <1> HIDE DEF X, R
  <1>11. /\ FramerOK(sessionFramer') /\ Buffered(sessionFramer') = Buffered(sessionFramer) \o X
         /\ Len(sessionFramer'.buffer) = Len(Buffered(sessionFramer)) + c
    BY <1>3, <1>7, <1>8, <1>9, AppendedBuffered
  <1>12. Up!TypeOK' /\ Up!FramingNeverFails'
    <2>1. Len(sessionFramer'.buffer) <= MaxBufferedRecvBytes
      BY <1>9, <1>11
    <2>2. sessionFramer' \in Framer /\ sessionFramer'.readOffset <= Len(sessionFramer'.buffer)
      BY <1>11 DEF FramerOK
    <2>3. clientWire' \in Seq(Byte)
      BY <1>7, <1>8
    <2>4. QED  BY <1>2, <1>10, <2>1, <2>2, <2>3, UpSame DEF UpInv, Up!TypeOK, Up!FramingNeverFails
  <1>13. UpQueue' /\ UpRoom'
    BY <1>2, <1>10 DEF UpInv, UpQueue, UpRoom, ToSend
  <1>14. UpStream'
    <2>1. UpFlight' = UpFlight
      BY <1>7, <1>8, <1>11 DEF UpFlight
    <2>2. UpPopped' = UpPopped /\ UpFront' = UpFront
      BY <1>2 DEF UpPopped, UpFront, ToSend
    <2>3. QED  BY <1>2, <2>1, <2>2 DEF UpInv, UpStream, Up!SocketClosed
  <1>15. QED  BY <1>12, <1>13, <1>14 DEF UpInv

(* What TryPop finds at the front of what is on its way. *)
LEMMA UpPops ==
  ASSUME UpInv
  PROVE  /\ PopResult(sessionFramer) # "Invalid"
         /\ PopResult(sessionFramer) = "Ready" =>
              /\ Popped(sessionFramer) = queued[UpPopped + 1] /\ UpPopped + 1 \in 1 .. Len(queued)
              /\ SizeInHeader(sessionFramer) = queued[UpPopped + 1].size
              /\ SizeInHeader(sessionFramer) \in 1 .. Len(Buffered(sessionFramer))
         /\ PopResult(sessionFramer) # "Ready" => Len(Buffered(sessionFramer)) < MaxPacketSize
  <1>1. Continues(Buffered(sessionFramer) \o clientWire, queued, UpPopped)
    BY DEF UpInv, UpStream, Up!SocketClosed, UpFlight
  <1>2. /\ FramerOK(sessionFramer) /\ clientWire \in Seq(Byte) /\ queued \in Seq(Packet)
        /\ UpPopped \in Nat
    BY UpTyped
  <1>3. QED  BY <1>1, <1>2, PopFindsNextPacket

(* Steps of the session that leave the bytes and the packets alone. *)
LEMMA UpWaits ==
  ASSUME UpInv, Up!PopNothing \/ Up!PostRecv \/ Up!RecvEnd
  PROVE  UpInv'
  <1>1. UNCHANGED <<queueing, clientQueue, pending, clientOffset, clientPc, clientWire, sessionFramer, recvd,
                    queued, handled>>
    BY DEF Up!PopNothing, Up!PostRecv, Up!RecvEnd, Up!sender, Up!history
  <1>2. /\ recvPc' \in {"dispatch", "posted", "lost"}
        /\ recvPc' \in {"dispatch", "posted"} => Len(Buffered(sessionFramer)) < MaxPacketSize
    <2>1. CASE Up!PopNothing
      <3>1. /\ PopResult(sessionFramer) # "Ready"
            /\ recvPc' = IF PopResult(sessionFramer) = "Invalid" THEN "invalid" ELSE "dispatch"
        BY <2>1, UpSame DEF Up!PopNothing
      <3>2. QED  BY <3>1, UpPops
    <2>2. CASE Up!PostRecv
      BY <2>2 DEF Up!PostRecv, UpInv, UpRoom
    <2>3. CASE Up!RecvEnd
      BY <2>3 DEF Up!RecvEnd
    <2>4. QED  BY <2>1, <2>2, <2>3
  <1>3. Up!TypeOK' /\ Up!FramingNeverFails'
    BY <1>1, <1>2 DEF UpInv, Up!TypeOK, Up!Closings, Up!FramingNeverFails
  <1>4. UpQueue' /\ UpRoom'
    BY <1>1, <1>2 DEF UpInv, UpQueue, UpRoom, ToSend
  <1>5. UpStream'
    BY <1>1 DEF UpInv, UpStream, Up!SocketClosed, UpFlight, UpPopped, UpFront, ToSend
  <1>6. QED  BY <1>3, <1>4, <1>5 DEF UpInv

(* The packet that is popped is the one queued next. *)
LEMMA UpPopPacket ==
  ASSUME UpInv, Up!PopPacket
  PROVE  UpInv'
  <1>1. /\ recvPc = "frame" /\ PopResult(sessionFramer) = "Ready"
        /\ sessionFramer' = AfterPop(sessionFramer)
        /\ recvd' = Append(recvd, Popped(sessionFramer))
        /\ UNCHANGED <<queueing, clientQueue, pending, clientOffset, clientPc, clientWire, recvPc, queued, handled>>
    BY UpSame DEF Up!PopPacket, Up!sender, Up!history
  <1> DEFINE z == SizeInHeader(sessionFramer)
             B == Buffered(sessionFramer)
             q == queued[UpPopped + 1]
  <1>2. /\ Popped(sessionFramer) = q /\ UpPopped + 1 \in 1 .. Len(queued)
        /\ z = q.size /\ z \in 1 .. Len(B)
    BY <1>1, UpPops
  <1>3. /\ FramerOK(sessionFramer) /\ B \in Seq(Byte) /\ clientWire \in Seq(Byte) /\ Len(B) \in Nat
        /\ queued \in Seq(Packet) /\ recvd \in Seq(Packet) /\ handled \in Seq(Packet)
    BY UpTyped, LenProperties
  <1>4. /\ FramerOK(sessionFramer') /\ sessionFramer'.buffer = sessionFramer.buffer
        /\ Buffered(sessionFramer') = SubSeq(B, z + 1, Len(B))
    <2>1. z \in 0 .. Len(B)
      BY <1>2, <1>3
    <2>2. QED  BY <1>1, <1>3, <2>1, PoppedBuffered
  <1> HIDE DEF z, B, q
  <1>5. recvd' = Append(recvd, queued[Len(handled) + Len(recvd) + 1])
    BY <1>1, <1>2 DEF UpPopped, q
  <1>6. /\ After(recvd', queued, handled) /\ recvd' \in Seq(Packet) /\ Len(recvd') = Len(recvd) + 1
    <2>1. After(recvd, queued, handled)
      BY DEF UpInv, UpQueue
    <2>2. Len(handled) + Len(recvd) + 1 <= Len(queued)
      BY <1>2 DEF UpPopped
    <2>3. QED  BY <1>3, <1>5, <2>1, <2>2, AfterPopped
  <1>7. Up!TypeOK' /\ Up!FramingNeverFails'
    <2>1. sessionFramer' \in Framer /\ sessionFramer'.readOffset <= Len(sessionFramer'.buffer)
      BY <1>4 DEF FramerOK
    <2>2. Len(sessionFramer'.buffer) <= MaxBufferedRecvBytes
      BY <1>4, UpSame DEF UpInv, Up!TypeOK
    <2>3. QED  BY <1>1, <1>6, <2>1, <2>2, UpSame DEF UpInv, Up!TypeOK, Up!FramingNeverFails
  <1>8. UpQueue' /\ UpRoom'
    BY <1>1, <1>6 DEF UpInv, UpQueue, UpRoom, ToSend
  <1>9. UpPopped' = UpPopped + 1 /\ UpFront' = UpFront
    <2>1. Len(handled) \in Nat /\ Len(recvd) \in Nat
      BY <1>3, LenProperties
    <2>2. QED  BY <1>1, <1>6, <2>1 DEF UpPopped, UpFront, ToSend
  <1>10. UpFlight' = SubSeq(UpFlight, z + 1, Len(UpFlight))
    <2>1. SubSeq(B, z + 1, Len(B)) \o clientWire
            = SubSeq(B \o clientWire, z + 1, Len(B \o clientWire))
      BY <1>2, <1>3, PopFromFront
    <2>2. QED  BY <1>1, <1>4, <2>1 DEF UpFlight, B
  <1>11. /\ UpFlight # <<>> /\ z <= Len(UpFlight)
    <2>1. Len(UpFlight) = Len(B) + Len(clientWire) /\ Len(clientWire) \in Nat
      BY <1>3, ConcatProperties, LenProperties DEF UpFlight, B
    <2>2. QED  BY <1>2, <1>3, <2>1, EmptySeq
  <1>12. /\ Continues(UpFlight, queued, UpPopped) /\ Numbered(queued)
         /\ ~Up!SocketClosed => ReachesTo(UpFlight, queued, UpPopped, UpFront, clientOffset)
    BY DEF UpInv, UpStream, UpQueue
  <1>13. UpFlight \in Seq(Byte) /\ UpPopped \in Nat /\ queued[UpPopped + 1].size = z
    BY <1>2, UpTyped DEF q
  <1>14. Continues(UpFlight', queued, UpPopped + 1)
    BY <1>3, <1>10, <1>11, <1>12, <1>13, PoppedContinues
  <1>15. ~Up!SocketClosed => ReachesTo(UpFlight', queued, UpPopped + 1, UpFront, clientOffset)
    <2>1. UpFront \in 1 .. Len(queued) + 1 /\ clientOffset \in Nat
          /\ (clientOffset > 0 => UpFront <= Len(queued))
      BY UpTyped
    <2>2. QED  BY <1>3, <1>10, <1>11, <1>12, <1>13, <2>1, PoppedReachesTo
  <1>16. UpStream'
    BY <1>1, <1>9, <1>14, <1>15 DEF UpStream, Up!SocketClosed
  <1>17. QED  BY <1>7, <1>8, <1>16 DEF UpInv

(* The server handles the next packet. *)
LEMMA UpDeliver ==
  ASSUME UpInv, Up!HandlePacket
  PROVE  /\ UpInv' /\ UNCHANGED <<queueing, queued, clientPc>>
         /\ Len(handled) < Len(queued)
         /\ handled' = Append(handled, queued[Len(handled) + 1])
  <1>1. /\ recvd # <<>> /\ recvd' = Tail(recvd) /\ handled' = Append(handled, Head(recvd))
        /\ UNCHANGED <<queueing, clientQueue, pending, clientOffset, clientPc, clientWire, sessionFramer, recvPc,
                       queued>>
    BY DEF Up!HandlePacket, Up!sender
  <1>2. /\ Head(recvd) = queued[Len(handled) + 1] /\ Len(handled) < Len(queued)
        /\ recvd' \in Seq(Packet) /\ handled' \in Seq(Packet)
        /\ Len(handled') + Len(recvd') = Len(handled) + Len(recvd)
        /\ After(recvd', queued, handled')
    <2>1. /\ queued \in Seq(Packet) /\ recvd \in Seq(Packet) /\ handled \in Seq(Packet)
          /\ After(recvd, queued, handled) /\ recvd # <<>>
      BY <1>1, UpTyped DEF UpInv, UpQueue
    <2>2. /\ Head(recvd) = queued[Len(handled) + 1] /\ Len(handled) < Len(queued)
          /\ Tail(recvd) \in Seq(Packet) /\ Append(handled, Head(recvd)) \in Seq(Packet)
          /\ Len(Append(handled, Head(recvd))) + Len(Tail(recvd)) = Len(handled) + Len(recvd)
          /\ After(Tail(recvd), queued, Append(handled, Head(recvd)))
      BY <2>1, AfterDelivered
    <2>3. QED  BY <1>1, <2>2
  <1>3. Up!TypeOK' /\ Up!FramingNeverFails'
    BY <1>1, <1>2, UpSame DEF UpInv, Up!TypeOK, Up!FramingNeverFails
  <1>4. UpQueue' /\ UpRoom'
    BY <1>1, <1>2 DEF UpInv, UpQueue, UpRoom, ToSend
  <1>5. UpStream'
    <2>1. UpFlight' = UpFlight /\ UpPopped' = UpPopped /\ UpFront' = UpFront
      BY <1>1, <1>2 DEF UpFlight, UpPopped, UpFront, ToSend
    <2>2. QED  BY <1>1, <2>1 DEF UpInv, UpStream, Up!SocketClosed
  <1>6. QED  BY <1>1, <1>2, <1>3, <1>4, <1>5 DEF UpInv

LEMMA UpStep ==
  ASSUME UpInv, Up!Next
  PROVE  UpInv'
  BY UpQueueInput, UpQueueNext, UpSwapQueues, UpSelects, UpSendPart, UpNetworkLoopEnds,
     UpClearConnected, UpHandleRecv, UpPopPacket, UpWaits, UpDeliver
  DEF Up!Next, Up!NetworkLoop, Up!IOLoop

LEMMA UpUnchanged ==
  ASSUME UpInv, UNCHANGED up
  PROVE  UpInv'
  <1>1. UNCHANGED <<queueing, clientQueue, pending, clientOffset, clientPc, clientWire, sessionFramer, recvPc,
                    recvd, queued, handled>>
    BY DEF up
  <1>2. Up!TypeOK' /\ Up!FramingNeverFails'
    BY <1>1 DEF UpInv, Up!TypeOK, Up!FramingNeverFails
  <1>3. UpQueue' /\ UpStream' /\ UpRoom'
    BY <1>1 DEF UpInv, UpQueue, UpStream, Up!SocketClosed, UpRoom, UpFlight, UpPopped, UpFront, ToSend
  <1>4. QED  BY <1>2, <1>3 DEF UpInv

-----------------------------------------------------------------------------
(* Both directions.                                                        *)

LEMMA Inductive ==
  ASSUME IInv, [Next]_vars
  PROVE  IInv'
  <1>1. CASE ToClient(Down!Next)
    BY <1>1, DownStep, UpUnchanged DEF IInv, ToClient
  <1>2. CASE ToServer(Up!Next)
    BY <1>2, UpStep, DownUnchanged DEF IInv, ToServer
  <1>3. CASE UNCHANGED vars
    BY <1>3, DownUnchanged, UpUnchanged DEF IInv, vars
  <1>4. QED  BY <1>1, <1>2, <1>3 DEF Next

(* The invariant of both directions: what is on its way is what was accepted *)
(* and not yet popped, in order and without a gap, as far as it has left the *)
(* sender.                                                                   *)
THEOREM Invariance == Spec => []IInv
  <1>1. Init => IInv
    BY DownInit, UpInit DEF Init, IInv
  <1>2. IInv /\ [Next]_vars => IInv'
    BY Inductive
  <1>3. QED  BY <1>1, <1>2, PTL DEF Spec

(* However TCP cuts the two streams and however the sends are split, neither *)
(* framer refuses a chunk or takes a byte for a header that is not one, a    *)
(* WSASend in progress reads the unsent rest of the front packet, and no     *)
(* queue outgrows its limit (PacketFramer.h, Session.cpp, NetworkClient.cpp).*)
THEOREM FramesStayWholeAlways == Spec => []FramesStayWhole
  <1>1. IInv => FramesStayWhole
    BY DEF IInv, DownInv, UpInv, FramesStayWhole
  <1>2. QED  BY <1>1, Invariance, PTL

-----------------------------------------------------------------------------
(* Refinement: either direction is a queue of packets.                     *)

LEMMA DownImplements ==
  ASSUME DownInv, Down!Next
  PROVE  [Down!Fifo!Next]_(Down!Fifo!vars)
  <1>1. CASE Down!SendPacket
    <2>1. PICK size \in HeaderSize .. MaxPacketSize :
            Down!Send([id |-> Len(accepted) + 1, size |-> size])
      BY <1>1 DEF Down!SendPacket
    <2> DEFINE p == [id |-> Len(accepted) + 1, size |-> size]
    <2>2. p \in Down!Packet
      <3>1. Len(accepted) \in Nat
        BY DownTyped, LenProperties
      <3>2. Len(accepted) + 1 \in 1 .. MaxPackets
        BY <1>1, <3>1, SizesAssumption DEF Down!SendPacket
      <3>3. QED  BY <3>2 DEF Down!Packet
    <2>3. Down!Send(p)
      BY <2>1
    <2> HIDE DEF p
    <2>4. /\ sessionOpen /\ accepted' = Append(accepted, p) /\ UNCHANGED delivered
          /\ sessionOpen' \in BOOLEAN
      BY <2>3 DEF Down!Send, Down!PostSend, DownInv, Down!TypeOK
    <2>5. Down!Fifo!Accept(p)
      BY <2>4 DEF Down!Fifo!Accept
    <2>6. QED  BY <2>2, <2>5 DEF Down!Fifo!Next
  <1>2. CASE Down!TryPopIncomingMessage
    BY <1>2, DownDeliver DEF Down!Fifo!Next, Down!Fifo!Deliver
  <1>3. CASE Down!SendRefused \/ Down!ConnectionLost
    BY <1>3 DEF Down!SendRefused, Down!ConnectionLost, Down!history, Down!Fifo!Next, Down!Fifo!Close
  <1>4. CASE Down!HandleSend
    <2>1. UNCHANGED <<accepted, delivered>> /\ sessionOpen' \in {sessionOpen, FALSE}
      BY <1>4 DEF Down!HandleSend, Down!PostSend, Down!history
    <2>2. QED  BY <2>1 DEF Down!Fifo!Next, Down!Fifo!Close, Down!Fifo!vars
  <1>5. CASE Down!Transmit \/ Down!NetworkLoop
    <2>1. UNCHANGED <<accepted, delivered, sessionOpen>>
      BY <1>5 DEF Down!Transmit, Down!NetworkLoop, Down!RecvChunk, Down!RecvEnd, Down!PopNothing,
                  Down!PopPacket, Down!sender, Down!history
    <2>2. QED  BY <2>1 DEF Down!Fifo!vars
  <1>6. QED  BY <1>1, <1>2, <1>3, <1>4, <1>5 DEF Down!Next

LEMMA UpImplements ==
  ASSUME UpInv, Up!Next
  PROVE  [Up!Fifo!Next]_(Up!Fifo!vars)
  <1>1. CASE Up!QueueInput
    <2>1. /\ clientPc # "ended" /\ ~queueing /\ queueing' = TRUE
          /\ UNCHANGED <<queued, handled, clientPc>>
      BY <1>1 DEF Up!QueueInput, Up!IsConnected, Up!history
    <2>2. QED  BY <2>1 DEF Up!Fifo!Next, Up!Fifo!Begin, Up!IsConnected
  <1>2. CASE Up!QueueNext
    <2>1. PICK size \in HeaderSize .. MaxPacketSize :
            Up!QueuePacket([id |-> Len(queued) + 1, size |-> size])
      BY <1>2 DEF Up!QueueNext
    <2> DEFINE p == [id |-> Len(queued) + 1, size |-> size]
    <2>2. p \in Up!Packet
      <3>1. Len(queued) \in Nat
        BY UpTyped, LenProperties
      <3>2. Len(queued) < MaxPackets
        BY <2>1 DEF Up!QueuePacket, UpInv, UpQueue
      <3>3. Len(queued) + 1 \in 1 .. MaxPackets
        BY <3>1, <3>2, SizesAssumption
      <3>4. QED  BY <3>3 DEF Up!Packet
    <2>3. Up!QueuePacket(p)
      BY <2>1
    <2> HIDE DEF p
    <2>4. /\ queueing /\ queueing' = FALSE /\ UNCHANGED <<handled, clientPc>>
          /\ IF Up!SendQueueHasRoom THEN queued' = Append(queued, p) ELSE UNCHANGED queued
      BY <2>3 DEF Up!QueuePacket
    <2>5. CASE Up!SendQueueHasRoom
      <3>1. Up!Fifo!Accept(p)
        BY <2>4, <2>5 DEF Up!Fifo!Accept, Up!IsConnected
      <3>2. QED  BY <2>2, <3>1 DEF Up!Fifo!Next
    <2>6. CASE ~Up!SendQueueHasRoom
      <3>1. Up!Fifo!Refuse
        BY <2>4, <2>6 DEF Up!Fifo!Refuse, Up!IsConnected
      <3>2. QED  BY <3>1 DEF Up!Fifo!Next
    <2>7. QED  BY <2>5, <2>6
  <1>3. CASE Up!HandlePacket
    BY <1>3, UpDeliver DEF Up!Fifo!Next, Up!Fifo!Deliver, Up!IsConnected
  <1>4. CASE Up!NetworkLoopEnds
    <2>1. /\ UNCHANGED <<queueing, queued, handled>>
          /\ clientPc # "ended" /\ clientPc' # "ended"
      BY <1>4 DEF Up!NetworkLoopEnds, Up!SocketClosed, Up!history
    <2>2. QED  BY <2>1 DEF Up!Fifo!vars, Up!IsConnected
  <1>5. CASE Up!ClearConnected
    <2>1. UNCHANGED <<queueing, queued, handled>> /\ clientPc' = "ended"
      BY <1>5 DEF Up!ClearConnected, Up!history
    <2>2. QED  BY <2>1 DEF Up!Fifo!Next, Up!Fifo!Close, Up!IsConnected
  <1>6. CASE Up!NetworkLoop
    <2>1. /\ UNCHANGED <<queueing, queued, handled>>
          /\ clientPc # "ended" /\ clientPc' # "ended"
      BY <1>6 DEF Up!NetworkLoop, Up!SwapQueues, Up!Select, Up!SendPart, Up!SendNothing, Up!history
    <2>2. QED  BY <2>1 DEF Up!Fifo!vars, Up!IsConnected
  <1>7. CASE Up!HandleRecv \/ Up!PopPacket \/ Up!PopNothing \/ Up!PostRecv \/ Up!RecvEnd
    <2>1. UNCHANGED <<queueing, queued, handled, clientPc>>
      BY <1>7 DEF Up!HandleRecv, Up!PopPacket, Up!PopNothing, Up!PostRecv, Up!RecvEnd, Up!sender,
                  Up!history
    <2>2. QED  BY <2>1 DEF Up!Fifo!vars, Up!IsConnected
  <1>8. QED
    BY <1>1, <1>2, <1>3, <1>4, <1>5, <1>6, <1>7 DEF Up!Next, Up!IOLoop

(* Each direction implements PacketFifo: packets are delivered in the order  *)
(* of their acceptance, each once and with none left out.  No acceptance     *)
(* begins after the sender has closed: of those that end later, as a packet  *)
(* does that QueueInput checked _connected for before the network loop       *)
(* cleared it, there is at most one (NetworkClient.cpp:150, 183-189,         *)
(* 255-256).                                                                 *)
THEOREM StreamsAreFifo == Spec => ImplementsFifo
  <1>1. Init => Down!Fifo!Init /\ Up!Fifo!Init
    BY DEF Init, Down!Init, Up!Init, Down!Fifo!Init, Up!Fifo!Init, Up!IsConnected
  <1>2. IInv /\ [Next]_vars => [Down!Fifo!Next]_(Down!Fifo!vars) /\ [Up!Fifo!Next]_(Up!Fifo!vars)
    <2> SUFFICES ASSUME IInv, [Next]_vars
                 PROVE  [Down!Fifo!Next]_(Down!Fifo!vars) /\ [Up!Fifo!Next]_(Up!Fifo!vars)
      OBVIOUS
    <2>1. UNCHANGED down => UNCHANGED (Down!Fifo!vars)
      BY DEF down, Down!Fifo!vars
    <2>2. UNCHANGED up => UNCHANGED (Up!Fifo!vars)
      BY DEF up, Up!Fifo!vars, Up!IsConnected
    <2>3. CASE ToClient(Down!Next)
      BY <2>2, <2>3, DownImplements DEF IInv, ToClient
    <2>4. CASE ToServer(Up!Next)
      BY <2>1, <2>4, UpImplements DEF IInv, ToServer
    <2>5. CASE UNCHANGED vars
      BY <2>1, <2>2, <2>5 DEF vars
    <2>6. QED  BY <2>3, <2>4, <2>5 DEF Next
  <1>3. QED
    BY <1>1, <1>2, Invariance, PTL
    DEF Spec, ImplementsFifo, Down!ImplementsFifo, Up!ImplementsFifo, Down!Fifo!Spec, Up!Fifo!Spec
=============================================================================
