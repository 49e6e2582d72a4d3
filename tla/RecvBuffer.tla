------------------------------- MODULE RecvBuffer -------------------------------
(***************************************************************************)
(* RecvBuffer, the linear receive buffer of a session, with                *)
(* IPacketParser::ParsePacketHeader looking at its head.                   *)
(*                                                                         *)
(* The caller is one receive loop: it lets a socket read fill the writable *)
(* span, commits, consumes every complete packet, compacts and reads       *)
(* again.  What the ASSERTs demand of it are guards here.                  *)
(*                                                                         *)
(* A byte is the packet it belongs to, given by its size, and its place in *)
(* that packet.  The peer sends well-formed packets (PacketHeader::IsValid) *)
(* one after the other.                                                    *)
(***************************************************************************)
EXTENDS Naturals

CONSTANTS Capacity,      \* m_buffer.size()
          MinWritable,   \* m_minWritableSize
          HeaderSize,    \* PacketHeader::kHeaderSize
          MaxPacketSize  \* PacketHeader::kMaxPacketSize

\* The constructor's ASSERTs, and kRecvBufferSize of BoostSession.
ASSUME RecvAssumption ==
    /\ Capacity \in Nat /\ MinWritable \in Nat \ {0} /\ 2 * MinWritable <= Capacity
    /\ HeaderSize \in Nat \ {0} /\ MaxPacketSize \in Nat
    /\ HeaderSize < MaxPacketSize /\ 2 * MaxPacketSize <= Capacity

VARIABLES buffer,             \* m_buffer
          readPos, writePos,
          arrived,            \* bytes the socket read has put behind writePos
          last,               \* the last byte the peer sent
          pc                  \* "read": a socket read is on; "parse": between two reads

vars == <<buffer, readPos, writePos, arrived, last, pc>>

PacketSizes == HeaderSize .. MaxPacketSize - 1
Bytes       == [size : PacketSizes, at : 0 .. MaxPacketSize - 1]
Cells       == 0 .. Capacity - 1

\* The byte k places behind byte c in its packet.
Onward(c, k) == [size |-> c.size, at |-> c.at + k]

\* What the peer may send after byte c: the rest of the packet, then a new one.
Follows(c, d) == IF c.at + 1 < c.size THEN d = Onward(c, 1) ELSE d.at = 0

\* Before a connection's first byte.
Fresh == [size |-> HeaderSize, at |-> HeaderSize - 1]

GetReadableSize == writePos - readPos

\* Mutant: the consumed bytes in front count as room.
RoomAnywhere == Capacity - GetReadableSize

GetWritableSize == Capacity - writePos

Init ==
    /\ buffer = [c \in Cells |-> Fresh]
    /\ readPos = 0 /\ writePos = 0
    /\ arrived = 0 /\ last = Fresh /\ pc = "read"

--------------------------------------------------------------------------------
\* The socket read stores the next byte in the writable span.
Arrive(b) ==
    /\ pc = "read" /\ arrived < GetWritableSize
    /\ Follows(last, b)
    /\ buffer' = [buffer EXCEPT ![writePos + arrived] = b]
    /\ arrived' = arrived + 1
    /\ last' = b
    /\ UNCHANGED <<readPos, writePos, pc>>

CommitWrite ==
    /\ pc = "read" /\ arrived > 0
    /\ writePos' = writePos + arrived
    /\ arrived' = 0
    /\ pc' = "parse"
    /\ UNCHANGED <<buffer, readPos, last>>

\* ParsePacketHeader: the size it reports, 0 when no header is there.
ParsePacketHeader == IF GetReadableSize < HeaderSize THEN 0 ELSE buffer[readPos].size

\* The caller's own test, on top of the parser's.
PacketIsThere == ParsePacketHeader > 0 /\ ParsePacketHeader <= GetReadableSize

Consume ==
    /\ pc = "parse" /\ PacketIsThere
    /\ readPos' = readPos + ParsePacketHeader
    /\ UNCHANGED <<buffer, writePos, arrived, last, pc>>

\* Mutants: the bytes stay where they were; room for one byte is taken for enough.
NotMoved == buffer
RoomForOne == 1 <= GetWritableSize

\* memmove of the readable bytes to the front.
Moved == [c \in Cells |-> IF c < GetReadableSize THEN buffer[readPos + c] ELSE buffer[c]]

RoomLeft == MinWritable <= GetWritableSize

Compact ==
    /\ pc = "parse" /\ ~PacketIsThere
    /\ \/ /\ GetReadableSize = 0
          /\ readPos' = 0 /\ writePos' = 0
          /\ UNCHANGED buffer
       \/ /\ GetReadableSize > 0 /\ RoomLeft
          /\ UNCHANGED <<buffer, readPos, writePos>>
       \/ /\ GetReadableSize > 0 /\ ~RoomLeft
          /\ buffer' = Moved
          /\ readPos' = 0 /\ writePos' = GetReadableSize
    /\ pc' = "read"
    /\ UNCHANGED <<arrived, last>>

\* Clear, for a new connection.
Clear ==
    /\ readPos' = 0 /\ writePos' = 0
    /\ arrived' = 0 /\ last' = Fresh /\ pc' = "read"
    /\ UNCHANGED buffer

Next == (\E b \in Bytes : Arrive(b)) \/ CommitWrite \/ Consume \/ Compact \/ Clear

Spec == Init /\ [][Next]_vars

--------------------------------------------------------------------------------
(* Properties.                                                             *)

\* The positions stay ordered and inside the buffer, so that neither size wraps
\* around below 0 (RecvBuffer.h:18-19, RecvBuffer.cpp:23-33).
TypeOK ==
    /\ buffer \in [Cells -> Bytes] /\ last \in Bytes
    /\ writePos \in 0 .. Capacity /\ readPos \in 0 .. writePos
    /\ arrived \in 0 .. GetWritableSize
    /\ pc \in {"read", "parse"}

\* A read never starts with less room than the constructor was asked for: the
\* loop cannot stop in the middle of a packet, whatever the packets' sizes and
\* however they are cut (RecvBuffer.cpp:9-10, 35-52; BoostSession.h:20).
RoomToReceive == pc = "read" => MinWritable <= GetWritableSize

Received == {c \in Cells : readPos <= c /\ c < writePos + arrived}

\* What is held is a gapless piece of what the peer sent, up to its last byte, and
\* starts with a packet: framing never slips, over partial packets, moves and new
\* connections (RecvBuffer.cpp:23-58, Packet.cpp:8-25).
InStep ==
    /\ \A c \in Received : c + 1 \in Received => Follows(buffer[c], buffer[c + 1])
    /\ readPos \in Received => buffer[readPos].at = 0
    /\ Received # {} => buffer[writePos + arrived - 1] = last
    /\ Received = {} => last.at + 1 = last.size

\* What Packet.cpp notes of its second early return, and README.md of the receive
\* path: a packet whose bytes are not all there is not reported.
HeaderMeansPacket == pc = "parse" => ParsePacketHeader <= GetReadableSize
================================================================================
