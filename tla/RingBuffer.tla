------------------------------- MODULE RingBuffer -------------------------------
(***************************************************************************)
(* RingBuffer with its RAII handles RingBufferWriter and RingBufferReader. *)
(* One writer and one reader handle may be active at once, and their       *)
(* operations interleave.  A handle is always one contiguous span.         *)
(*                                                                         *)
(* What the ASSERTs demand of the caller (no second handle, sizes within   *)
(* the span, no size 0) are guards here: a handle's destructor commits its *)
(* whole span, and a refused reservation that changes nothing is no step.  *)
(***************************************************************************)
EXTENDS Naturals, Sequences

CONSTANTS Capacity,   \* kCapacity
          Bytes       \* what a cell may hold

ASSUME RingAssumption == Capacity \in Nat \ {0} /\ Bytes # {}

VARIABLES buffer,       \* m_buffer
          readCursor, writeCursor, tailCursor, isFull,
          writer,       \* the writer handle's span; active when not empty
          reader        \* the reader handle's span; active when not empty

cursors == <<readCursor, writeCursor, tailCursor, isFull>>
vars    == <<buffer, cursors, writer, reader>>

Cells  == 0 .. Capacity - 1

\* A handle is made with its span; Clear, and a move to another handle, leave none.
Span(ptr, size) == [ptr |-> ptr, size |-> size]
NoSpan == Span(0, 0)

isActiveWriter == writer.size > 0
isActiveReader == reader.size > 0

Init ==
    /\ buffer \in [Cells -> Bytes]
    /\ readCursor = 0 /\ writeCursor = 0 /\ tailCursor = Capacity
    /\ isFull = FALSE
    /\ writer = NoSpan /\ reader = NoSpan

--------------------------------------------------------------------------------
(* Writing.                                                                *)

\* Mutant: the writer may reach the reader's first cell.
FitsInFrontLate(n) == readCursor <= writeCursor /\ n > Capacity - writeCursor /\ n <= readCursor + 1

\* Mutant: the last cell of the array stays unused.
FitsBehindShort(n) == readCursor <= writeCursor /\ n < Capacity - writeCursor

FitsBehind(n)  == readCursor <= writeCursor /\ n <= Capacity - writeCursor
FitsInFront(n) == readCursor <= writeCursor /\ n > Capacity - writeCursor /\ n <= readCursor
FitsBetween(n) == writeCursor < readCursor /\ n <= readCursor - writeCursor

CreateWriter(n) ==
    /\ ~isActiveWriter
    /\ ~isFull
    /\ \/ /\ FitsBehind(n) \/ FitsBetween(n)
          /\ writer' = Span(writeCursor, n)
          /\ UNCHANGED <<writeCursor, tailCursor>>
       \/ /\ FitsInFront(n)
          /\ writer' = Span(0, n)
          /\ tailCursor' = writeCursor
          /\ writeCursor' = 0
    /\ UNCHANGED <<buffer, readCursor, isFull, reader>>

CreateAllWriter ==
    LET contiguousSize == IF readCursor <= writeCursor THEN Capacity - writeCursor
                                                       ELSE readCursor - writeCursor
    IN  /\ ~isActiveWriter
        /\ ~isFull
        /\ contiguousSize > 0
        /\ writer' = Span(writeCursor, contiguousSize)
        /\ UNCHANGED <<buffer, cursors, reader>>

\* The caller stores a byte through GetPtr or As, while it holds the handle.
Store(i, b) ==
    /\ i < writer.size
    /\ buffer' = [buffer EXCEPT ![writer.ptr + i] = b]
    /\ UNCHANGED <<cursors, writer, reader>>

\* Mutant: no wrap at the end of the array.
AdvancedPastEnd(n) == writeCursor + n

Advanced(n) == (writeCursor + n) % Capacity

\* Commit(0) commits the whole span.
CommitWrite(n) ==
    LET writeSize == IF n = 0 THEN writer.size ELSE n
    IN  /\ isActiveWriter /\ writeSize <= writer.size
        /\ writeCursor' = Advanced(writeSize)
        /\ isFull' = (writeCursor' = readCursor)
        /\ writer' = NoSpan
        /\ UNCHANGED <<buffer, readCursor, tailCursor, reader>>

\* The destructors of handles that are still active.
DestroyWriter == CommitWrite(0)

GiveUpWriter == isActiveWriter /\ writer' = NoSpan /\ UNCHANGED <<buffer, cursors, reader>>

--------------------------------------------------------------------------------
(* Reading.                                                                *)

\* Mutant: no jump.
NoJump == readCursor

\* The cursors after the jump to the front that ends a skipped tail.
JumpedRead == IF readCursor = tailCursor THEN 0 ELSE readCursor
JumpedTail == IF readCursor = tailCursor THEN Capacity ELSE tailCursor

\* Mutant: a full buffer is taken for an empty one.
ContiguousUnlessFull ==
    IF writeCursor = JumpedRead THEN 0
    ELSE IF JumpedRead < writeCursor THEN writeCursor - JumpedRead
    ELSE JumpedTail - JumpedRead

ContiguousToRead ==
    IF ~isFull /\ writeCursor = JumpedRead THEN 0
    ELSE IF JumpedRead < writeCursor THEN writeCursor - JumpedRead
    ELSE JumpedTail - JumpedRead

\* At most limit bytes are reserved; the jump happens also when none are.
ReserveRead(limit) ==
    /\ ~isActiveReader
    /\ readCursor' = JumpedRead /\ tailCursor' = JumpedTail
    /\ reader' = IF ContiguousToRead = 0 THEN NoSpan
                 ELSE Span(JumpedRead, IF limit < ContiguousToRead THEN limit ELSE ContiguousToRead)
    /\ UNCHANGED <<buffer, writeCursor, isFull, writer>>

CreateReader(n) == ReserveRead(n)
CreateAllReader == ReserveRead(Capacity)

\* Mutant: a commit resets the buffer under a writer's span.
EmptiedUnderWriter(next) == next = writeCursor

Emptied(next) == ~isActiveWriter /\ next = writeCursor

\* Commit(0) commits the whole span.  The commit that
\* empties the buffer resets it, unless a writer holds a span.
CommitRead(n) ==
    LET readSize == IF n = 0 THEN reader.size ELSE n
        advanced == readCursor + readSize
        jumped   == IF advanced = tailCursor THEN 0 ELSE advanced
        emptied  == Emptied(jumped)
    IN  /\ isActiveReader /\ readSize <= reader.size
        /\ readCursor' = IF emptied THEN 0 ELSE jumped
        /\ writeCursor' = IF emptied THEN 0 ELSE writeCursor
        /\ tailCursor' = IF emptied \/ advanced = tailCursor THEN Capacity ELSE tailCursor
        /\ isFull' = FALSE
        /\ reader' = NoSpan
        /\ UNCHANGED <<buffer, writer>>

DestroyReader == CommitRead(0)

GiveUpReader == isActiveReader /\ reader' = NoSpan /\ UNCHANGED <<buffer, cursors, writer>>

--------------------------------------------------------------------------------
Next ==
    \/ \E n \in 1 .. Capacity : CreateWriter(n) \/ CreateReader(n)
    \/ CreateAllWriter \/ CreateAllReader
    \/ \E n \in 0 .. Capacity : CommitWrite(n) \/ CommitRead(n)
    \/ DestroyWriter \/ DestroyReader \/ GiveUpWriter \/ GiveUpReader
    \/ \E i \in Cells, b \in Bytes : Store(i, b)

Spec == Init /\ [][Next]_vars

--------------------------------------------------------------------------------
(* Properties.                                                             *)

Spans == [ptr : Cells, size : 0 .. Capacity]

\* The cursors stay inside the array and a span inside its bounds (RingBuffer.h:140-146).
TypeOK ==
    /\ buffer \in [Cells -> Bytes]
    /\ readCursor \in Cells /\ writeCursor \in Cells
    /\ tailCursor \in 1 .. Capacity
    /\ isFull \in BOOLEAN
    /\ writer \in Spans /\ reader \in Spans

\* The cells that hold unread bytes: between the cursors, or from the read
\* cursor to the tail and on from the front.
InTail(c)  == readCursor <= c /\ c < tailCursor
InFront(c) == c < writeCursor
Unread ==
    IF ~isFull /\ readCursor = writeCursor THEN {}
    ELSE IF readCursor < writeCursor THEN {c \in Cells : InTail(c) /\ InFront(c)}
    ELSE {c \in Cells : InTail(c) \/ InFront(c)}

Covers(span) == {c \in Cells : span.ptr <= c /\ c < span.ptr + span.size}

\* The span handed to a writer never covers a byte that is still to be read,
\* whatever the reader does meanwhile (RingBuffer.cpp:184-213, 265-282, 352-375).
WriterOverwritesNothing == Covers(writer) \cap Unread = {}

\* A handle's pointer stays where its commit will advance from, and the commit
\* never passes the array's end or the tail: the ASSERTs "Write cursor overflow"
\* and "Read cursor overflow", which no build compiles in (RingBuffer.cpp:344, 360).
HandlesStayValid ==
    /\ isActiveWriter => writer.ptr = writeCursor /\ writeCursor + writer.size <= Capacity
    /\ isActiveReader => reader.ptr = readCursor /\ readCursor + reader.size <= tailCursor

\* What is unread can be read: with no reader active, a reservation succeeds
\* unless the buffer is empty (RingBuffer.cpp:223-250, 289-315).
UnreadIsReadable == ~isActiveReader /\ Unread # {} => ContiguousToRead > 0

\* The unread bytes, oldest first.
Run(from, to) == [i \in 1 .. (IF from < to THEN to - from ELSE 0) |-> buffer[from + i - 1]]
Contents ==
    IF ~isFull /\ readCursor = writeCursor THEN <<>>
    ELSE IF readCursor < writeCursor THEN Run(readCursor, writeCursor)
    ELSE Run(readCursor, tailCursor) \o Run(0, writeCursor)

\* The ring buffer implements the byte stream: nothing is lost, duplicated or
\* reordered over wraps, skipped tails, partial commits and give-ups, and what
\* an active reader sees does not change under it (RingBuffer.cpp:174-388).
Stream == INSTANCE ByteStream WITH
    stream <- Contents,
    view   <- Run(reader.ptr, reader.ptr + reader.size)

ImplementsStream == Stream!StreamSpec

\* What RingBuffer.md says of a refused reservation: the caller retries later.
\* Once everything is read and no handle is active, a retry must succeed.
CanReserve(n) == ~isFull /\ (FitsBehind(n) \/ FitsInFront(n) \/ FitsBetween(n))
DrainedAccepts ==
    Unread = {} /\ ~isActiveWriter /\ ~isActiveReader => \A n \in 1 .. Capacity : CanReserve(n)

\* What holds of it: wherever the cursors stopped, a drained ring refuses nothing
\* up to half its size, so a caller that asks for no more than that and retries is
\* served once all is read (RingBuffer.cpp:184-213, 372-386).
HalfFits ==
    Unread = {} /\ ~isActiveWriter /\ ~isActiveReader =>
        \A n \in 1 .. Capacity : 2 * n <= Capacity + 1 => CanReserve(n)
================================================================================
