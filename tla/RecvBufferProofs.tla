---------------------------- MODULE RecvBufferProofs ----------------------------
(***************************************************************************)
(* Proofs about RecvBuffer, for every capacity and every packet size.      *)
(*                                                                         *)
(* InStep alone is not inductive: that the byte behind a consumed packet   *)
(* starts the next one depends on all the bytes of the packet.  Frames     *)
(* says of two bytes any distance apart what InStep says of neighbours.    *)
(***************************************************************************)
EXTENDS RecvBuffer, TLAPS

ReadIsOver == pc = "parse" => arrived = 0

Frames ==
    \A c \in Received, k \in Nat :
        c + k \in Received /\ buffer[c].at + k < buffer[c].size
            => buffer[c + k] = Onward(buffer[c], k)

RInv == TypeOK /\ ReadIsOver /\ RoomToReceive /\ InStep /\ Frames

--------------------------------------------------------------------------------
LEMMA InitRInv == Init => RInv
<1> SUFFICES ASSUME Init PROVE RInv
  OBVIOUS
<1>1. Fresh \in Bytes /\ Fresh.at + 1 = Fresh.size
  BY RecvAssumption DEF Fresh, Bytes, PacketSizes
<1>2. Received = {}
  BY RecvAssumption DEF Init, Received, Cells
<1>3. TypeOK
  <2>1. 0 \in 0 .. Capacity /\ 0 \in 0 .. 0 /\ 0 \in 0 .. Capacity - 0
    BY RecvAssumption
  <2>2. QED BY <1>1, <2>1 DEF Init, TypeOK, GetWritableSize
<1>4. RoomToReceive
  BY RecvAssumption DEF Init, RoomToReceive, GetWritableSize
<1>5. QED
  BY <1>1, <1>2, <1>3, <1>4 DEF RInv, ReadIsOver, InStep, Frames, Init

--------------------------------------------------------------------------------
LEMMA ArriveStep ==
    ASSUME RInv, NEW b \in Bytes, Arrive(b)
    PROVE  RInv'
<1> DEFINE n == writePos + arrived
<1> USE DEF RInv
<1>1. /\ n \in Cells /\ n \in Nat /\ readPos \in Nat /\ writePos \in Nat /\ arrived \in Nat
      /\ readPos <= n /\ Capacity \in Nat
  BY RecvAssumption DEF Arrive, TypeOK, Cells, GetWritableSize
<1>2. TypeOK'
  BY <1>1, RecvAssumption DEF Arrive, TypeOK, GetWritableSize, Cells
<1>3. RoomToReceive' /\ ReadIsOver'
  BY DEF Arrive, RoomToReceive, ReadIsOver, GetWritableSize
<1>4. /\ Received \subseteq Nat /\ n \notin Received /\ Received' = Received \cup {n}
      /\ \A c \in Received : readPos <= c /\ c < n
      /\ \A c \in Nat : readPos <= c /\ c < n => c \in Received
  BY <1>1 DEF Arrive, Received, Cells
<1>5. buffer'[n] = b /\ last' = b /\ \A c \in Received : buffer'[c] = buffer[c]
  BY <1>1, <1>4 DEF Arrive, TypeOK
<1>6. Received # {} => n - 1 \in Received /\ buffer[n - 1] = last
  <2> SUFFICES ASSUME Received # {} PROVE n - 1 \in Received /\ buffer[n - 1] = last
    OBVIOUS
  <2>1. PICK c \in Received : readPos <= c /\ c < n
    BY <1>4
  <2>2. c \in Nat
    BY <1>4
  <2>3. n - 1 \in Received
    BY <1>1, <1>4, <2>1, <2>2
  <2>4. buffer[writePos + arrived - 1] = last
    BY DEF InStep
  <2>5. QED BY <1>1, <2>3, <2>4
<1>7. InStep'
  <2>1. \A c \in Received' : c + 1 \in Received' => Follows(buffer[c], buffer[c + 1])'
    <3> SUFFICES ASSUME NEW c \in Received', c + 1 \in Received'
                 PROVE  Follows(buffer'[c], buffer'[c + 1])
      BY DEF Follows
    <3>1. CASE c + 1 \in Received
      BY <1>1, <1>4, <1>5, <3>1 DEF InStep, Follows
    <3>2. CASE c + 1 = n
      BY <1>1, <1>4, <1>5, <1>6, <3>2 DEF Arrive, Follows
    <3>3. QED BY <1>4, <3>1, <3>2
  <2>2. readPos' \in Received' => buffer'[readPos'].at = 0
    <3>1. CASE readPos \in Received
      BY <1>1, <1>4, <1>5, <3>1 DEF InStep, Arrive
    <3>2. CASE readPos \notin Received
      <4>1. Received = {} /\ n = readPos
        BY <1>1, <1>4, <3>2
      <4>2. b.at = 0
        BY <4>1 DEF Arrive, Follows, InStep, TypeOK, Bytes, PacketSizes
      <4>3. QED BY <1>5, <4>1, <4>2 DEF Arrive
    <3>3. QED BY <3>1, <3>2
  <2>3. writePos' + arrived' - 1 = n
    BY <1>1 DEF Arrive
  <2>4. QED BY <1>4, <1>5, <2>1, <2>2, <2>3 DEF InStep
<1>8. Frames'
  <2> SUFFICES ASSUME NEW c \in Received', NEW k \in Nat, c + k \in Received',
                      buffer'[c].at + k < buffer'[c].size
               PROVE  buffer'[c + k] = Onward(buffer'[c], k)
    BY DEF Frames
  <2>0. c \in Nat /\ buffer'[c] \in Bytes
    BY <1>1, <1>2, <1>4 DEF TypeOK, Received, Cells
  <2>1. CASE k = 0
    BY <2>0, <2>1 DEF Onward, Bytes, PacketSizes
  <2>2. CASE c + k \in Received
    BY <1>1, <1>4, <1>5, <2>0, <2>2 DEF Frames
  <2>3. CASE k > 0 /\ c + k = n
    <3>1. c \in Received /\ c + (k - 1) = n - 1 /\ n - 1 \in Received
      BY <1>1, <1>4, <2>0, <2>3
    <3>2. buffer[c] \in Bytes /\ buffer'[c] = buffer[c]
      BY <1>5, <2>0, <3>1
    <3>3. buffer[n - 1] = Onward(buffer[c], k - 1)
      <4>1. k - 1 \in Nat /\ buffer[c].at + (k - 1) < buffer[c].size
        BY <2>3, <3>2 DEF Bytes, PacketSizes
      <4>2. QED BY <3>1, <4>1 DEF Frames
    <3>4. last.size = buffer[c].size /\ last.at = buffer[c].at + (k - 1) /\ last = buffer[n - 1]
      BY <1>6, <3>1, <3>2, <3>3 DEF Onward, Bytes
    <3>5. b = Onward(last, 1)
      BY <2>3, <3>2, <3>4 DEF Arrive, Follows, Bytes, PacketSizes
    <3>6. QED BY <1>5, <2>3, <3>2, <3>3, <3>4, <3>5 DEF Onward, Bytes, PacketSizes
  <2>4. QED BY <1>4, <2>1, <2>2, <2>3
<1>9. QED BY <1>2, <1>3, <1>7, <1>8

--------------------------------------------------------------------------------
LEMMA CommitStep ==
    ASSUME RInv, CommitWrite
    PROVE  RInv'
<1> USE DEF RInv
<1>1. /\ TypeOK' /\ writePos' + arrived' = writePos + arrived
      /\ writePos \in Nat /\ arrived \in Nat /\ writePos' = writePos + arrived /\ arrived' = 0
  BY RecvAssumption DEF CommitWrite, TypeOK, GetWritableSize
<1>2. Received' = Received
  BY <1>1 DEF CommitWrite, Received
<1>3. ReadIsOver' /\ RoomToReceive'
  BY DEF CommitWrite, ReadIsOver, RoomToReceive
<1>4. InStep' /\ Frames'
  <2>1. buffer' = buffer /\ readPos' = readPos /\ last' = last
    BY DEF CommitWrite
  <2>2. InStep'
    <3>1. Received # {} => buffer'[writePos' + arrived' - 1] = last'
      <4>1. writePos' + arrived' - 1 = writePos + arrived - 1
        BY <1>1
      <4>2. QED BY <2>1, <4>1 DEF InStep
    <3>2. QED BY <1>2, <2>1, <3>1 DEF InStep, Follows, Onward
  <2>3. Frames'
    BY <1>2, <2>1 DEF Frames, Onward
  <2>4. QED BY <2>2, <2>3
<1>5. QED BY <1>1, <1>3, <1>4

\* Where the packet lies that the parser and its caller have found complete.
LEMMA PacketAtHead ==
    ASSUME RInv, pc = "parse", PacketIsThere
    PROVE  /\ readPos \in Nat /\ writePos \in Nat /\ arrived = 0 /\ readPos \in Cells
           /\ ParsePacketHeader = buffer[readPos].size
           /\ buffer[readPos] \in Bytes
           /\ buffer[readPos].size \in Nat /\ 0 < buffer[readPos].size
           /\ readPos + buffer[readPos].size <= writePos
           /\ writePos <= Capacity /\ Capacity \in Nat
<1> DEFINE s == buffer[readPos].size
<1>1. /\ readPos \in Nat /\ writePos \in Nat /\ arrived = 0 /\ readPos <= writePos
      /\ writePos <= Capacity /\ Capacity \in Nat /\ 0 < HeaderSize /\ HeaderSize \in Nat
  BY RecvAssumption DEF RInv, TypeOK, ReadIsOver
<1>2. ~(GetReadableSize < HeaderSize) /\ ParsePacketHeader = s /\ s <= GetReadableSize
  BY <1>1 DEF PacketIsThere, ParsePacketHeader
<1>3. readPos \in Cells
  BY <1>1, <1>2 DEF GetReadableSize, Cells
<1>4. buffer[readPos] \in Bytes
  BY <1>3 DEF RInv, TypeOK
<1>5. s \in PacketSizes
  BY <1>4 DEF Bytes
<1>6. s \in Nat /\ 0 < s
  BY <1>1, <1>5, RecvAssumption DEF PacketSizes
<1>7. QED BY <1>1, <1>2, <1>3, <1>4, <1>6 DEF GetReadableSize

\* A whole packet ends where the next begins: the byte behind it starts a packet,
\* or it is the last the peer has sent.
LEMMA ConsumeStep ==
    ASSUME RInv, Consume
    PROVE  RInv'
<1> DEFINE s == buffer[readPos].size
           e == readPos + s - 1
<1> USE DEF RInv
<1>1. /\ readPos \in Nat /\ writePos \in Nat /\ arrived = 0 /\ readPos \in Cells
      /\ ParsePacketHeader = s /\ s \in Nat /\ 0 < s /\ readPos + s <= writePos /\ writePos <= Capacity
      /\ Capacity \in Nat /\ readPos' = readPos + s /\ buffer[readPos] \in Bytes
  BY PacketAtHead DEF Consume
<1>2. TypeOK'
  BY <1>1 DEF Consume, TypeOK, GetWritableSize
<1>3. ReadIsOver' /\ RoomToReceive'
  BY DEF Consume, ReadIsOver, RoomToReceive
<1>4. /\ Received' \subseteq Received /\ readPos \in Received /\ e \in Received /\ e \in Nat
      /\ (e + 1 = readPos + s)
  BY <1>1 DEF Consume, Received, Cells
<1>5. buffer[e].size = s /\ buffer[e].at = s - 1
  <2>1. buffer[readPos].at = 0
    BY <1>4 DEF InStep
  <2>2. s - 1 \in Nat /\ readPos + (s - 1) = e /\ buffer[readPos].at + (s - 1) < s
    BY <1>1, <2>1
  <2>3. buffer[e] = Onward(buffer[readPos], s - 1)
    BY <1>4, <2>2 DEF Frames
  <2>4. QED BY <1>1, <2>1, <2>3 DEF Onward, Bytes
<1>6. InStep'
  <2>1. readPos' \in Received' => buffer'[readPos'].at = 0
    <3> SUFFICES ASSUME readPos' \in Received' PROVE buffer[e + 1].at = 0
      BY <1>1, <1>4 DEF Consume
    <3>1. Follows(buffer[e], buffer[e + 1])
      BY <1>1, <1>4 DEF InStep
    <3>2. QED BY <1>1, <1>5, <3>1 DEF Follows
  <2>2. Received' = {} => last'.at + 1 = last'.size
    <3> SUFFICES ASSUME Received' = {} PROVE last.at + 1 = last.size
      BY DEF Consume
    <3>1. e = writePos + arrived - 1
      BY <1>1 DEF Consume, Received, Cells
    <3>2. QED BY <1>1, <1>4, <1>5, <3>1 DEF InStep
  <2>3. Received' # {} => buffer'[writePos' + arrived' - 1] = last'
    BY <1>4 DEF InStep, Consume
  <2>4. \A c \in Received' : c + 1 \in Received' => Follows(buffer[c], buffer[c + 1])'
    BY <1>4 DEF InStep, Consume, Follows
  <2>5. QED BY <2>1, <2>2, <2>3, <2>4 DEF InStep
<1>7. Frames'
  BY <1>4 DEF Frames, Consume
<1>8. QED BY <1>2, <1>3, <1>6, <1>7

--------------------------------------------------------------------------------
\* Behind an incomplete packet there is room, at the end or after the move.
LEMMA CompactStep ==
    ASSUME RInv, Compact
    PROVE  RInv'
<1> DEFINE r == GetReadableSize
<1> USE DEF RInv
<1>1. /\ readPos \in Nat /\ writePos \in Nat /\ arrived = 0 /\ arrived' = 0 /\ last' = last
      /\ r \in Nat /\ readPos + r = writePos /\ writePos <= Capacity
      /\ Capacity \in Nat /\ pc' = "read" /\ MinWritable \in Nat
  BY RecvAssumption DEF Compact, GetReadableSize, TypeOK, ReadIsOver
<1>2. ReadIsOver'
  BY <1>1 DEF ReadIsOver
<1>3. CASE r = 0 /\ readPos' = 0 /\ writePos' = 0 /\ buffer' = buffer
  <2>1. Received = {} /\ Received' = {}
    BY <1>1, <1>3 DEF Received, Cells
  <2>2. TypeOK'
    BY <1>1, <1>3 DEF TypeOK, GetWritableSize
  <2>3. RoomToReceive'
    BY <1>1, <1>3, RecvAssumption DEF RoomToReceive, GetWritableSize
  <2>4. InStep' /\ Frames'
    BY <1>1, <2>1 DEF InStep, Frames
  <2>5. QED BY <1>2, <2>2, <2>3, <2>4
<1>4. CASE RoomLeft /\ buffer' = buffer /\ readPos' = readPos /\ writePos' = writePos
  <2>1. Received' = Received
    BY <1>1, <1>4 DEF Received
  <2>2. TypeOK' /\ RoomToReceive'
    BY <1>1, <1>4 DEF TypeOK, RoomToReceive, RoomLeft, GetWritableSize
  <2>3. InStep' /\ Frames'
    BY <1>1, <1>4, <2>1 DEF InStep, Frames, Follows, Onward
  <2>4. QED BY <1>2, <2>2, <2>3
<1>5. CASE r > 0 /\ buffer' = Moved /\ readPos' = 0 /\ writePos' = r
  <2>1. r < MaxPacketSize
    <3>1. readPos \in Cells
      BY <1>1, <1>5 DEF Cells
    <3>2. buffer[readPos] \in Bytes
      BY <3>1 DEF TypeOK
    <3>3. QED
      BY <1>1, <3>2, RecvAssumption DEF Compact, PacketIsThere, ParsePacketHeader, Bytes, PacketSizes
  <2>2. /\ \A c \in Received' : c \in Nat /\ readPos + c \in Received /\ buffer'[c] = buffer[readPos + c]
        /\ \A c \in Nat : readPos + c \in Received => c \in Received'
    BY <1>1, <1>5 DEF Received, Cells, Moved
  <2>3. TypeOK'
    <3>1. buffer' \in [Cells -> Bytes]
      BY <1>1, <1>5 DEF Moved, TypeOK, Cells
    <3>2. QED BY <1>1, <1>5, <3>1 DEF TypeOK, GetWritableSize, Compact
  <2>4. RoomToReceive'
    BY <1>1, <1>5, <2>1, RecvAssumption DEF RoomToReceive, GetWritableSize
  <2>5. InStep'
    <3>1. \A c \in Received' : c + 1 \in Received' => Follows(buffer'[c], buffer'[c + 1])
      <4> SUFFICES ASSUME NEW c \in Received', c + 1 \in Received'
                   PROVE  Follows(buffer'[c], buffer'[c + 1])
        OBVIOUS
      <4>1. c \in Nat /\ readPos + (c + 1) = (readPos + c) + 1
        BY <1>1, <2>2
      <4>2. Follows(buffer[readPos + c], buffer[(readPos + c) + 1])
        BY <2>2, <4>1 DEF InStep
      <4>3. QED BY <2>2, <4>1, <4>2
    <3>2. 0 \in Received' /\ buffer'[0].at = 0
      <4>1. readPos \in Received
        BY <1>1, <1>5 DEF Received, Cells
      <4>2. QED BY <1>1, <2>2, <4>1 DEF InStep
    <3>3. buffer'[writePos' + arrived' - 1] = last'
      <4>1. writePos - 1 \in Received /\ r - 1 \in Nat /\ readPos + (r - 1) = writePos - 1
        BY <1>1, <1>5 DEF Received, Cells
      <4>2. buffer[writePos - 1] = last
        BY <1>1, <4>1 DEF InStep
      <4>3. QED BY <1>1, <1>5, <2>2, <4>1, <4>2
    <3>4. QED BY <1>5, <3>1, <3>2, <3>3 DEF InStep, Follows
  <2>6. Frames'
    <3> SUFFICES ASSUME NEW c \in Received', NEW k \in Nat, c + k \in Received',
                        buffer'[c].at + k < buffer'[c].size
                 PROVE  buffer'[c + k] = Onward(buffer'[c], k)
      BY DEF Frames, Onward
    <3>1. c \in Nat /\ readPos + (c + k) = (readPos + c) + k
      BY <1>1, <2>2
    <3>2. buffer[(readPos + c) + k] = Onward(buffer[readPos + c], k)
      BY <2>2, <3>1 DEF Frames
    <3>3. QED BY <2>2, <3>1, <3>2
  <2>7. QED BY <1>2, <2>3, <2>4, <2>5, <2>6
<1>6. QED BY <1>3, <1>4, <1>5 DEF Compact

LEMMA ClearStep ==
    ASSUME RInv, Clear
    PROVE  RInv'
<1>1. Fresh \in Bytes /\ Fresh.at + 1 = Fresh.size
  BY RecvAssumption DEF Fresh, Bytes, PacketSizes
<1>2. Received' = {}
  BY RecvAssumption DEF Clear, Received, Cells
<1>3. TypeOK'
  <2>1. 0 \in 0 .. Capacity /\ 0 \in 0 .. 0 /\ 0 \in 0 .. Capacity - 0
    BY RecvAssumption
  <2>2. QED BY <1>1, <2>1 DEF Clear, RInv, TypeOK, GetWritableSize
<1>4. ReadIsOver' /\ RoomToReceive'
  BY RecvAssumption DEF Clear, ReadIsOver, RoomToReceive, GetWritableSize
<1>5. InStep' /\ Frames'
  BY <1>1, <1>2 DEF Clear, InStep, Frames
<1>6. QED BY <1>3, <1>4, <1>5 DEF RInv

--------------------------------------------------------------------------------
LEMMA RecvInvariant == Spec => []RInv
<1>1. Init => RInv
  BY InitRInv
<1>2. RInv /\ [Next]_vars => RInv'
  <2> SUFFICES ASSUME RInv, [Next]_vars PROVE RInv'
    OBVIOUS
  <2>1. CASE Next
    BY <2>1, ArriveStep, CommitStep, ConsumeStep, CompactStep, ClearStep DEF Next
  <2>2. CASE UNCHANGED vars
    BY <2>2 DEF vars, RInv, TypeOK, ReadIsOver, RoomToReceive, InStep, Frames, Received,
                Follows, Onward, GetWritableSize
  <2>3. QED BY <2>1, <2>2
<1>3. QED BY <1>1, <1>2, PTL DEF Spec

\* The positions never leave the buffer nor pass each other (RecvBuffer.cpp:23-58).
THEOREM PositionsStayInside == Spec => []TypeOK
<1>1. RInv => TypeOK
  BY DEF RInv
<1>2. QED BY <1>1, RecvInvariant, PTL

\* No receive loop starves: before every read there is the promised room
\* (RecvBuffer.cpp:9-10, 35-52).
THEOREM NoReadStarves == Spec => []RoomToReceive
<1>1. RInv => RoomToReceive
  BY DEF RInv
<1>2. QED BY <1>1, RecvInvariant, PTL

\* Framing never slips, for packets of any valid size (RecvBuffer.cpp:23-58).
THEOREM FramingNeverSlips == Spec => []InStep
<1>1. RInv => InStep
  BY DEF RInv
<1>2. QED BY <1>1, RecvInvariant, PTL

--------------------------------------------------------------------------------
(* The packets the caller is given, and the stream they are cut from.      *)

\* A packet that the caller takes is one packet of the peer, from its first byte to
\* its last and with none of another (Packet.cpp:8-25, RecvBuffer.cpp:28-33).
PacketsWhole ==
    pc = "parse" /\ PacketIsThere =>
        \A k \in 0 .. ParsePacketHeader - 1 :
            buffer[readPos + k] = [size |-> ParsePacketHeader, at |-> k]

\* No complete packet is left behind while the loop waits for more bytes, which the
\* peer may not send before it has its answer (RecvBuffer.cpp:35-52).
NoPacketWaits == pc = "read" => ~PacketIsThere

\* The k-th byte held, and how many there are.
Held(k) == buffer[readPos + k]
Count   == writePos + arrived - readPos

\* What a step does to the bytes held, wherever they are stored: nothing; one byte more,
\* at the end; a packet less, at the front; a new connection
\* (RecvBuffer.cpp:23-58).
StreamStep ==
    \/ /\ Count' = Count /\ last' = last
       /\ \A k \in 0 .. Count - 1 : Held(k)' = Held(k)
    \/ /\ Count' = Count + 1
       /\ \A k \in 0 .. Count - 1 : Held(k)' = Held(k)
       /\ \A k \in {Count} : Held(k)' = last'
    \/ /\ PacketIsThere /\ last' = last
       /\ Count' = Count - ParsePacketHeader
       /\ \A k \in 0 .. Count - 1, i \in 0 .. Count - 1 :
             k = i + ParsePacketHeader => Held(i)' = Held(k)
    \/ Count' = 0 /\ last' = Fresh

LEMMA WholeInside == RInv => PacketsWhole
<1> SUFFICES ASSUME RInv, pc = "parse", PacketIsThere, NEW k \in 0 .. ParsePacketHeader - 1
             PROVE  buffer[readPos + k] = [size |-> ParsePacketHeader, at |-> k]
  BY DEF PacketsWhole
<1> DEFINE s == buffer[readPos].size
<1>1. /\ readPos \in Nat /\ writePos \in Nat /\ arrived = 0 /\ readPos \in Cells
      /\ ParsePacketHeader = s /\ s \in Nat /\ 0 < s /\ readPos + s <= writePos /\ writePos <= Capacity
      /\ Capacity \in Nat
  BY PacketAtHead
<1>2. readPos \in Received /\ readPos + k \in Received /\ k \in Nat /\ k < s
  BY <1>1 DEF Received, Cells
<1>3. buffer[readPos].at = 0
  BY <1>2 DEF RInv, InStep
<1>4. buffer[readPos + k] = Onward(buffer[readPos], k)
  BY <1>2, <1>3 DEF RInv, Frames
<1>5. QED BY <1>1, <1>2, <1>3, <1>4 DEF Onward

LEMMA WaitsStep ==
    ASSUME RInv, NoPacketWaits, [Next]_vars
    PROVE  NoPacketWaits'
<1>0. /\ readPos \in Nat /\ writePos \in Nat /\ arrived \in Nat /\ readPos <= writePos
      /\ writePos <= Capacity /\ Capacity \in Nat /\ HeaderSize \in Nat /\ 0 < HeaderSize
  BY RecvAssumption DEF RInv, TypeOK, GetWritableSize
<1>1. ASSUME NEW b \in Bytes, Arrive(b) PROVE NoPacketWaits'
  <2>1. readPos' = readPos /\ writePos' = writePos /\ pc = "read"
    BY <1>1 DEF Arrive
  <2>2. readPos < writePos => buffer'[readPos] = buffer[readPos]
    BY <1>0, <1>1 DEF Arrive, RInv, TypeOK, Cells
  <2>3. ~(GetReadableSize < HeaderSize) => readPos < writePos
    BY <1>0 DEF GetReadableSize
  <2>4. GetReadableSize' = GetReadableSize
    BY <2>1 DEF GetReadableSize
  <2>5. QED BY <2>1, <2>2, <2>3, <2>4 DEF NoPacketWaits, PacketIsThere, ParsePacketHeader
<1>2. CASE CommitWrite \/ Consume
  BY <1>2 DEF CommitWrite, Consume, NoPacketWaits
<1>3. CASE Compact
  <2>1. CASE readPos' = 0 /\ writePos' = 0
    BY <1>0, <2>1 DEF NoPacketWaits, PacketIsThere, ParsePacketHeader, GetReadableSize
  <2>2. CASE UNCHANGED <<buffer, readPos, writePos>>
    BY <1>3, <2>2 DEF Compact, NoPacketWaits, PacketIsThere, ParsePacketHeader, GetReadableSize
  <2>3. CASE GetReadableSize > 0 /\ buffer' = Moved /\ readPos' = 0 /\ writePos' = GetReadableSize
    <3>1. buffer'[0] = buffer[readPos]
      BY <1>0, <2>3 DEF Moved, GetReadableSize, Cells
    <3>2. GetReadableSize' = GetReadableSize
      BY <1>0, <2>3 DEF GetReadableSize
    <3>3. QED BY <1>3, <2>3, <3>1, <3>2 DEF Compact, NoPacketWaits, PacketIsThere, ParsePacketHeader
  <2>4. QED BY <1>3, <2>1, <2>2, <2>3 DEF Compact
<1>4. CASE Clear
  <2>1. GetReadableSize' = 0
    BY <1>4 DEF Clear, GetReadableSize
  <2>2. ParsePacketHeader' = 0
    BY <1>0, <2>1 DEF ParsePacketHeader
  <2>3. QED BY <2>2 DEF NoPacketWaits, PacketIsThere
<1>5. CASE UNCHANGED vars
  BY <1>5 DEF vars, NoPacketWaits, PacketIsThere, ParsePacketHeader, GetReadableSize
<1>6. QED BY <1>1, <1>2, <1>3, <1>4, <1>5 DEF Next

LEMMA StreamKept == ASSUME RInv, [Next]_vars PROVE [StreamStep]_vars
<1> USE DEF RInv
<1>0. /\ readPos \in Nat /\ writePos \in Nat /\ arrived \in Nat /\ readPos <= writePos
      /\ writePos + arrived <= Capacity /\ Capacity \in Nat /\ Count \in Nat
  BY RecvAssumption DEF TypeOK, GetWritableSize, Count
<1>1. ASSUME NEW b \in Bytes, Arrive(b) PROVE StreamStep
  <2>1. readPos' = readPos /\ Count' = Count + 1 /\ last' = b
    BY <1>0, <1>1 DEF Arrive, Count
  <2>2. writePos + arrived \in Cells /\ writePos + arrived = readPos + Count
    BY <1>0, <1>1 DEF Arrive, GetWritableSize, Cells, Count
  <2>3. buffer'[readPos + Count] = b
        /\ \A c \in Cells : c # readPos + Count => buffer'[c] = buffer[c]
    BY <1>1, <2>2 DEF Arrive, TypeOK
  <2>4. \A k \in 0 .. Count - 1 : readPos + k \in Cells /\ readPos + k # readPos + Count
    BY <1>0 DEF Cells, Count
  <2>5. QED BY <2>1, <2>3, <2>4 DEF StreamStep, Held
<1>2. CASE CommitWrite
  <2>1. readPos' = readPos /\ buffer' = buffer /\ last' = last /\ Count' = Count
    BY <1>0, <1>2 DEF CommitWrite, Count
  <2>2. QED BY <2>1 DEF StreamStep, Held
<1>3. CASE Consume
  <2>1. ParsePacketHeader \in Nat /\ arrived = 0
    BY <1>3, PacketAtHead DEF Consume
  <2>2. /\ readPos' = readPos + ParsePacketHeader /\ buffer' = buffer /\ last' = last
        /\ writePos' = writePos /\ arrived' = arrived /\ PacketIsThere
    BY <1>3 DEF Consume
  <2>3. Count' = Count - ParsePacketHeader
    BY <1>0, <2>1, <2>2 DEF Count
  <2>4. ASSUME NEW i \in Nat, NEW k \in Nat, k = i + ParsePacketHeader
        PROVE  readPos' + i = readPos + k
    BY <1>0, <2>1, <2>2, <2>4
  <2>5. 0 .. Count - 1 \subseteq Nat
    OBVIOUS
  <2>6. QED BY <2>2, <2>3, <2>4, <2>5 DEF StreamStep, Held
<1>4. CASE Compact
  <2>1. arrived = 0 /\ arrived' = 0 /\ last' = last /\ Count = GetReadableSize
    BY <1>0, <1>4 DEF Compact, ReadIsOver, Count, GetReadableSize
  <2>2. CASE GetReadableSize = 0 /\ readPos' = 0 /\ writePos' = 0
    <3>1. Count' = 0 /\ Count = 0
      BY <2>1, <2>2 DEF Count
    <3>2. 0 .. Count - 1 = {}
      BY <3>1
    <3>3. QED BY <2>1, <3>1, <3>2 DEF StreamStep
  <2>3. CASE UNCHANGED <<buffer, readPos, writePos>>
    BY <2>1, <2>3 DEF StreamStep, Held, Count
  <2>4. CASE buffer' = Moved /\ readPos' = 0 /\ writePos' = GetReadableSize
    <3>1. Count' = Count
      BY <1>0, <2>1, <2>4 DEF Count
    <3>2. \A k \in 0 .. Count - 1 : 0 + k = k /\ k \in Cells /\ k < GetReadableSize
      BY <1>0, <2>1 DEF Cells, Count
    <3>3. \A k \in 0 .. Count - 1 : buffer'[0 + k] = buffer[readPos + k]
      BY <2>4, <3>2 DEF Moved
    <3>4. QED BY <2>1, <2>4, <3>1, <3>3 DEF StreamStep, Held
  <2>5. QED BY <1>4, <2>2, <2>3, <2>4 DEF Compact
<1>5. CASE Clear
  BY <1>5 DEF Clear, StreamStep, Count
<1>6. CASE UNCHANGED vars
  BY <1>6
<1>7. QED BY <1>1, <1>2, <1>3, <1>4, <1>5, <1>6 DEF Next

\* Every packet the caller takes is one of the peer's, whole.
THEOREM PacketsTakenWhole == Spec => []PacketsWhole
BY WholeInside, RecvInvariant, PTL

\* A new read starts only when every complete packet was taken.
THEOREM EveryPacketIsTaken == Spec => []NoPacketWaits
<1>1. Init => NoPacketWaits
  BY RecvAssumption DEF Init, NoPacketWaits, PacketIsThere, ParsePacketHeader, GetReadableSize
<1>2. RInv /\ NoPacketWaits /\ [Next]_vars => NoPacketWaits'
  BY WaitsStep
<1>3. QED BY <1>1, <1>2, RecvInvariant, PTL DEF Spec

\* Seen from outside the buffer is a stream: every step leaves the bytes held and
\* their order alone, but for one at the end, a packet at the front or all.
THEOREM BufferIsAStream == Spec => [][StreamStep]_vars
BY StreamKept, RecvInvariant, PTL DEF Spec
================================================================================
