---------------------------- MODULE RingBufferProofs ----------------------------
(***************************************************************************)
(* Proofs about RingBuffer, for every capacity and every kind of byte: the *)
(* cursors and spans first, then the refinement of the byte stream.        *)
(***************************************************************************)
EXTENDS RingBuffer, SequenceTheorems, TLAPS

USE RingAssumption DEF RingAssumption

\* The cursor of a committed write wraps exactly at the end of the array.
LEMMA Wraps == \A n \in 0 .. Capacity : n % Capacity = IF n = Capacity THEN 0 ELSE n
<1>1. ASSUME NEW n \in 0 .. Capacity PROVE n % Capacity = IF n = Capacity THEN 0 ELSE n
  <2>1. CASE n = Capacity
    BY <2>1
  <2>2. CASE n < Capacity
    BY <2>2
  <2>3. QED BY <2>1, <2>2
<1>2. QED BY <1>1

\* How the cursors lie.  A tail is skipped only while the writer is in front of
\* the reader.  A full buffer has no writer; full, the cursors meet, or the
\* reader has just jumped to the front.
CursorsInv ==
    /\ readCursor <= tailCursor
    /\ tailCursor < Capacity => writeCursor < readCursor \/ (writeCursor = readCursor /\ isFull)
    /\ isFull => writeCursor = readCursor \/ readCursor = 0

\* A tail is skipped only in the rear half: what did not fit behind the cursor fits
\* in front of the reader, who is not behind the cursor.
TailInv == tailCursor < Capacity => 2 * tailCursor > Capacity

\* A writer's span lies between the cursors of the free region it was cut from.
WriterInv ==
    isActiveWriter =>
        /\ ~isFull
        /\ writer.ptr = writeCursor
        /\ writeCursor + writer.size <= Capacity
        /\ writeCursor < readCursor => writeCursor + writer.size <= readCursor

\* A reader's span lies in the unread region it was cut from.
ReaderInv ==
    isActiveReader =>
        /\ reader.ptr = readCursor
        /\ isFull \/ readCursor # writeCursor
        /\ readCursor + reader.size <= tailCursor
        /\ readCursor < writeCursor => readCursor + reader.size <= writeCursor

RInv == TypeOK /\ CursorsInv /\ TailInv /\ WriterInv /\ ReaderInv

\* A reservation at the write cursor, of cells that are free, moves no cursor.
LEMMA WriterOpens ==
  ASSUME RInv, NEW n \in 1 .. Capacity, writer' = Span(writeCursor, n),
         UNCHANGED <<buffer, cursors, reader>>, ~isFull,
         writeCursor + n <= Capacity, writeCursor < readCursor => writeCursor + n <= readCursor
  PROVE  RInv'
<1>1. /\ TypeOK /\ CursorsInv /\ TailInv /\ ReaderInv
      /\ UNCHANGED <<buffer, readCursor, writeCursor, tailCursor, isFull, reader>>
  BY DEF RInv, cursors
<1>2. writer'.ptr = writeCursor /\ writer'.size = n /\ writer' \in Spans
  BY <1>1 DEF Span, Spans, TypeOK, Cells
<1>3. TypeOK'
  BY <1>1, <1>2 DEF TypeOK, Cells, Spans
<1>4. CursorsInv' /\ TailInv'
  BY <1>1 DEF CursorsInv, TailInv
<1>5. ReaderInv'
  BY <1>1 DEF ReaderInv, isActiveReader
<1>6. WriterInv'
  BY <1>1, <1>2 DEF WriterInv, isActiveWriter
<1>7. QED BY <1>3, <1>4, <1>5, <1>6 DEF RInv

LEMMA RingStep == RInv /\ [Next]_vars => RInv'
<1> SUFFICES ASSUME RInv, [Next]_vars PROVE RInv'
  OBVIOUS
<1>00. TailInv /\ CursorsInv
  BY DEF RInv
<1> USE DEF RInv, TypeOK, CursorsInv, TailInv, WriterInv, ReaderInv, isActiveWriter, isActiveReader, Cells
<1>0. /\ readCursor \in Cells /\ writeCursor \in Cells /\ tailCursor \in 1 .. Capacity
      /\ writer.size \in 0 .. Capacity /\ reader.size \in 0 .. Capacity
      /\ NoSpan \in Spans /\ ~(NoSpan.size > 0) /\ Capacity \in Nat \ {0}
  BY DEF Spans, Span, NoSpan
<1>1. ASSUME NEW n \in 1 .. Capacity, CreateWriter(n) PROVE RInv'
  <2>0. ~isFull /\ UNCHANGED <<buffer, reader>>
    BY <1>1 DEF CreateWriter
  <2>1. CASE FitsBehind(n)
    <3>1. writer' = Span(writeCursor, n) /\ UNCHANGED cursors
      BY <1>0, <1>1, <2>1 DEF CreateWriter, FitsBehind, FitsInFront, cursors
    <3>2. writeCursor + n <= Capacity /\ ~(writeCursor < readCursor)
      BY <1>0, <2>1 DEF FitsBehind
    <3>3. QED BY <2>0, <3>1, <3>2, WriterOpens
  <2>2. CASE FitsBetween(n)
    <3>1. writer' = Span(writeCursor, n) /\ UNCHANGED cursors
      BY <1>0, <1>1, <2>2 DEF CreateWriter, FitsBetween, FitsInFront, cursors
    <3>2. writeCursor + n <= Capacity /\ writeCursor + n <= readCursor
      BY <1>0, <2>2 DEF FitsBetween
    <3>3. QED BY <2>0, <3>1, <3>2, WriterOpens
  <2>3. CASE FitsInFront(n)
    BY <1>1, <2>3 DEF CreateWriter, Spans, Span, NoSpan, FitsBehind, FitsInFront, FitsBetween
  <2>4. QED BY <1>1, <2>1, <2>2, <2>3 DEF CreateWriter
<1>2. CASE CreateAllWriter
  <2> DEFINE n == IF readCursor <= writeCursor THEN Capacity - writeCursor ELSE readCursor - writeCursor
  <2>1. n > 0 /\ ~isFull /\ writer' = Span(writeCursor, n) /\ UNCHANGED <<buffer, cursors, reader>>
    BY <1>2 DEF CreateAllWriter
  <2>2. /\ n \in 1 .. Capacity /\ writeCursor + n <= Capacity
        /\ writeCursor < readCursor => writeCursor + n <= readCursor
    BY <1>0, <2>1
  <2> HIDE DEF n
  <2>3. QED BY <2>1, <2>2, WriterOpens
<1>3. ASSUME NEW n \in 1 .. Capacity, ReserveRead(n) PROVE RInv'
  <2>1. CASE readCursor = tailCursor
    BY <1>3, <2>1 DEF ReserveRead, Spans, Span, NoSpan, JumpedRead, JumpedTail, ContiguousToRead
  <2>2. CASE readCursor # tailCursor
    BY <1>3, <2>2 DEF ReserveRead, Spans, Span, NoSpan, JumpedRead, JumpedTail, ContiguousToRead
  <2>3. QED BY <2>1, <2>2
<1>4. ASSUME NEW n \in 0 .. Capacity, CommitWrite(n) PROVE RInv'
  <2> DEFINE size == IF n = 0 THEN writer.size ELSE n
  <2>0. isActiveWriter /\ size <= writer.size
    BY <1>4 DEF CommitWrite, Advanced
  <2>1. size \in 1 .. Capacity /\ size <= writer.size /\ writeCursor + size \in 0 .. Capacity
    BY <1>0, <2>0
  <2>2. /\ writeCursor' = (writeCursor + size) % Capacity
        /\ isFull' \in BOOLEAN /\ (isFull' <=> writeCursor' = readCursor)
        /\ writer' = NoSpan
        /\ UNCHANGED <<buffer, readCursor, tailCursor, reader>>
    BY <1>4 DEF CommitWrite, Advanced
  <2>3. ~isFull /\ (writeCursor < readCursor => writeCursor + size <= readCursor)
    BY <1>0, <2>0, <2>1
  <2> HIDE DEF size
  <2>4. writeCursor' = IF writeCursor + size = Capacity THEN 0 ELSE writeCursor + size
    BY <2>1, <2>2, Wraps
  <2>5. TypeOK'
    BY <1>0, <2>1, <2>2, <2>4
  <2>6. WriterInv'
    BY <1>0, <2>2
  <2>7. CASE readCursor <= writeCursor
    <3>1. tailCursor = Capacity
      BY <1>0, <2>3, <2>7
    <3>2. CursorsInv'
      BY <1>0, <2>1, <2>2, <2>3, <2>4, <2>7, <3>1
    <3>3. ReaderInv'
      <4> SUFFICES ASSUME isActiveReader PROVE ReaderInv'
        BY <2>2
      <4>1. /\ reader.ptr = readCursor /\ readCursor < writeCursor
            /\ readCursor + reader.size <= writeCursor
        BY <1>0, <2>3, <2>7
      <4>2. CASE writeCursor + size = Capacity
        <5>1. writeCursor' = 0 /\ readCursor' = readCursor /\ reader' = reader /\ tailCursor' = Capacity
          BY <2>2, <2>4, <3>1, <4>2
        <5>2. isFull' \/ readCursor # 0
          BY <2>2, <5>1
        <5>3. QED BY <1>0, <3>1, <4>1, <5>1, <5>2
      <4>3. CASE writeCursor + size < Capacity
        <5>1. /\ writeCursor' = writeCursor + size /\ readCursor' = readCursor
              /\ reader' = reader /\ tailCursor' = Capacity
          <6> HIDE DEF RInv, TypeOK, CursorsInv, TailInv, WriterInv, ReaderInv, isActiveWriter, isActiveReader, Cells
          <6>1. writeCursor + size \in Int /\ writeCursor + size # Capacity
            BY <2>1, <4>3
          <6>2. writeCursor' = writeCursor + size
            BY <2>4, <6>1
          <6>3. readCursor' = readCursor /\ reader' = reader /\ tailCursor' = tailCursor
            BY <2>2
          <6>4. QED BY <3>1, <6>2, <6>3
        <5>2. readCursor + reader.size <= writeCursor + size
          BY <1>0, <2>1, <4>1
        <5>3. QED BY <1>0, <2>1, <3>1, <4>1, <5>1, <5>2
      <4>4. QED BY <2>1, <4>2, <4>3
    <3>4. TailInv'
      <4> HIDE DEF RInv, TypeOK, CursorsInv, WriterInv, ReaderInv, Cells
      <4>1. tailCursor' = tailCursor
        BY <2>2
      <4>2. QED BY <1>00, <4>1
    <3>5. QED BY <2>5, <2>6, <3>2, <3>3, <3>4
  <2>8. CASE writeCursor < readCursor
    <3>1. writeCursor' = writeCursor + size /\ writeCursor' <= readCursor
      BY <1>0, <2>1, <2>3, <2>4, <2>8
    <3>2. CursorsInv'
      <4> HIDE DEF RInv, TypeOK, TailInv, WriterInv, ReaderInv, isActiveWriter, isActiveReader
      <4>1. /\ readCursor' = readCursor /\ tailCursor' = tailCursor
            /\ isFull' => writeCursor' = readCursor
        BY <2>2
      <4>2. readCursor <= tailCursor
        BY <1>00
      <4>3. writeCursor' < readCursor \/ (writeCursor' = readCursor /\ isFull')
        BY <1>0, <2>1, <2>2, <3>1
      <4>4. QED BY <4>1, <4>2, <4>3
    <3>3. ReaderInv'
      <4>1. reader' = reader /\ readCursor' = readCursor /\ tailCursor' = tailCursor
        BY <2>2
      <4>2. isFull' \/ readCursor # writeCursor'
        BY <2>2
      <4>3. ~(readCursor < writeCursor')
        BY <1>0, <2>1, <3>1
      <4>4. QED BY <4>1, <4>2, <4>3
    <3>4. TailInv'
      <4> HIDE DEF RInv, TypeOK, CursorsInv, WriterInv, ReaderInv, Cells
      <4>1. tailCursor' = tailCursor
        BY <2>2
      <4>2. QED BY <1>00, <4>1
    <3>5. QED BY <2>5, <2>6, <3>2, <3>3, <3>4
  <2>9. QED BY <1>0, <2>7, <2>8
<1>5. ASSUME NEW n \in 0 .. Capacity, CommitRead(n) PROVE RInv'
  <2> DEFINE size == IF n = 0 THEN reader.size ELSE n
      advanced == readCursor + size
      jumped   == IF advanced = tailCursor THEN 0 ELSE advanced
      emptied  == ~isActiveWriter /\ jumped = writeCursor
  <2>0. isActiveReader /\ size <= reader.size
    BY <1>5 DEF CommitRead, Emptied
  <2>1. size \in 1 .. Capacity /\ size <= reader.size
    BY <1>0, <2>0
  <2>2. /\ readCursor' = IF emptied THEN 0 ELSE jumped
        /\ writeCursor' = IF emptied THEN 0 ELSE writeCursor
        /\ tailCursor' = IF emptied \/ advanced = tailCursor THEN Capacity ELSE tailCursor
        /\ isFull' = FALSE /\ reader' = NoSpan
        /\ UNCHANGED <<buffer, writer>>
    BY <1>5 DEF CommitRead, Emptied
  <2>3. /\ advanced <= tailCursor
        /\ readCursor < writeCursor => advanced <= writeCursor
        /\ isFull \/ readCursor # writeCursor
    BY <1>0, <2>0, <2>1
  <2> HIDE DEF size
  <2> USE <1>0
  <2>4. jumped \in Cells /\ advanced \in 1 .. Capacity
    BY <2>1, <2>3
  <2>5. TypeOK'
    <3>1. readCursor' \in Cells /\ writeCursor' \in Cells /\ tailCursor' \in 1 .. Capacity
      BY <2>2, <2>4
    <3>2. QED BY <2>2, <3>1
  <2>6. ReaderInv'
    BY <2>2
  <2>7. CASE emptied
    BY <2>2, <2>5, <2>6, <2>7
  <2>8. CASE ~emptied /\ advanced = tailCursor
    <3>1. readCursor' = 0 /\ tailCursor' = Capacity /\ writeCursor' = writeCursor
      BY <2>2, <2>8
    <3>2. CursorsInv' /\ WriterInv'
      BY <2>2, <3>1
    <3>3. TailInv'
      BY <3>1
    <3>4. QED BY <2>5, <2>6, <3>2, <3>3
  <2>9. CASE ~emptied /\ advanced # tailCursor
    <3>1. readCursor' = advanced /\ tailCursor' = tailCursor /\ writeCursor' = writeCursor
      BY <2>2, <2>9
    <3>2. CursorsInv'
      BY <2>1, <2>2, <2>3, <3>1, <2>9
    <3>3. WriterInv'
      BY <2>1, <2>2, <2>3, <3>1
    <3>4. TailInv'
      BY <3>1
    <3>5. QED BY <2>5, <2>6, <3>2, <3>3, <3>4
  <2>10. QED BY <2>7, <2>8, <2>9
<1>6. CASE GiveUpWriter
  BY <1>0, <1>6 DEF GiveUpWriter, cursors
<1>7. CASE GiveUpReader
  BY <1>0, <1>7 DEF GiveUpReader, cursors
<1>8. ASSUME NEW i \in Cells, NEW b \in Bytes, Store(i, b) PROVE RInv'
  BY <1>8 DEF Store, cursors
<1>9. CASE UNCHANGED vars
  BY <1>9 DEF vars, cursors
<1>10. Capacity \in 1 .. Capacity /\ 0 \in 0 .. Capacity
  OBVIOUS
<1>11. QED
  BY <1>1, <1>2, <1>3, <1>4, <1>5, <1>6, <1>7, <1>8, <1>9, <1>10 DEF Next, CreateReader, CreateAllReader,
     DestroyWriter, DestroyReader

LEMMA RingInit == Init => RInv
<1> SUFFICES ASSUME Init PROVE RInv
  OBVIOUS
<1>1. NoSpan \in Spans /\ ~(NoSpan.size > 0) /\ 0 \in Cells /\ Capacity \in 1 .. Capacity
  BY DEF Span, NoSpan, Spans, Cells
<1>2. TypeOK
  BY <1>1 DEF Init, TypeOK
<1>3. QED
  BY <1>1, <1>2 DEF Init, RInv, CursorsInv, TailInv, WriterInv, ReaderInv, isActiveWriter, isActiveReader

LEMMA RingInvariant == Spec => []RInv
BY RingInit, RingStep, PTL DEF Spec

\* The cursors stay inside the array.
THEOREM CursorsStayInside == Spec => []TypeOK
<1>1. RInv => TypeOK
  BY DEF RInv
<1>2. QED BY <1>1, RingInvariant, PTL

\* The two overflow ASSERTs of the commits can never fail.
THEOREM CommitsNeverOverflow == Spec => []HandlesStayValid
<1>1. RInv => HandlesStayValid
  BY DEF RInv, WriterInv, ReaderInv, HandlesStayValid
<1>2. QED BY <1>1, RingInvariant, PTL

\* A writer is never given a cell that is still to be read.
THEOREM NoUnreadByteIsOverwritten == Spec => []WriterOverwritesNothing
<1>1. RInv => WriterOverwritesNothing
  BY DEF RInv, TypeOK, WriterInv, CursorsInv, WriterOverwritesNothing, Covers, Unread, InTail, InFront,
         isActiveWriter, Cells, Spans
<1>2. QED BY <1>1, RingInvariant, PTL

\* Unread bytes can always be reserved for reading.
THEOREM NoUnreadByteIsStuck == Spec => []UnreadIsReadable
<1>1. RInv => UnreadIsReadable
  BY DEF RInv, TypeOK, CursorsInv, UnreadIsReadable, Unread, InTail, InFront, ContiguousToRead, JumpedRead,
         JumpedTail, Cells
<1>2. QED BY <1>1, RingInvariant, PTL

\* Up to half the ring can always be reserved once it is drained: the free cells
\* lie on one side of equal cursors or the other, or before a skipped tail.
THEOREM HalfOfTheRingFits == Spec => []HalfFits
<1>1. RInv => HalfFits
  <2> SUFFICES ASSUME RInv, Unread = {}, ~isActiveWriter, ~isActiveReader,
                      NEW n \in 1 .. Capacity, 2 * n <= Capacity + 1
               PROVE  CanReserve(n)
    BY DEF HalfFits
  <2> USE DEF RInv, TypeOK, CursorsInv, TailInv, Cells
  <2>1. readCursor \in Cells /\ writeCursor \in Cells /\ tailCursor \in 1 .. Capacity
    OBVIOUS
  <2>2. \A c \in Cells : readCursor <= c /\ c < tailCursor =>
            /\ writeCursor <= readCursor => ~isFull /\ readCursor = writeCursor
            /\ readCursor < writeCursor => ~(c < writeCursor)
    BY DEF Unread, InTail, InFront
  <2>3. \A c \in Cells : c < writeCursor /\ writeCursor <= readCursor => ~isFull /\ readCursor = writeCursor
    BY DEF Unread, InTail, InFront
  <2>4. CASE readCursor = writeCursor
    <3>1. ~isFull
      <4>1. CASE readCursor < tailCursor
        BY <2>1, <2>2, <2>4, <4>1
      <4>2. CASE readCursor = tailCursor
        BY <2>1, <2>3, <2>4, <4>2
      <4>3. QED BY <2>1, <4>1, <4>2
    <3>2. QED BY <2>1, <2>4, <3>1 DEF CanReserve, FitsBehind, FitsInFront
  <2>5. CASE writeCursor < readCursor
    <3>1. readCursor = tailCursor /\ writeCursor = 0
      BY <2>1, <2>2, <2>3, <2>5
    <3>2. ~isFull /\ n <= readCursor
      BY <2>1, <2>5, <3>1
    <3>3. QED BY <2>1, <2>5, <3>1, <3>2 DEF CanReserve, FitsBetween
  <2>6. CASE readCursor < writeCursor
    BY <2>1, <2>2, <2>6
  <2>7. QED BY <2>1, <2>4, <2>5, <2>6
<1>2. QED BY <1>1, RingInvariant, PTL

--------------------------------------------------------------------------------
(* The stream.  The unread bytes are told cell by cell: the i-th of them   *)
(* is in Cell(i), and a step is followed through its effect on Total and   *)
(* Cell.                                                                   *)

\* How many unread bytes lie before the wrap, how many there are, and where.
Drained == ~isFull /\ readCursor = writeCursor
First   == IF Drained THEN 0
           ELSE IF readCursor < writeCursor THEN writeCursor - readCursor
           ELSE tailCursor - readCursor
Total   == IF Drained \/ readCursor < writeCursor THEN First ELSE First + writeCursor
Cell(i) == IF i <= First THEN readCursor + i - 1 ELSE i - First - 1

View == Run(reader.ptr, reader.ptr + reader.size)

ContentsFact ==
    /\ First \in Nat /\ Total \in 0 .. Capacity
    /\ Contents \in Seq(Bytes) /\ Len(Contents) = Total
    /\ \A i \in 1 .. Total : Cell(i) \in Unread /\ Contents[i] = buffer[Cell(i)]

ViewFact ==
    /\ View \in Seq(Bytes) /\ Len(View) = reader.size
    /\ \A i \in 1 .. reader.size : View[i] = buffer[reader.ptr + i - 1]

LEMMA RunIs ==
    ASSUME buffer \in [Cells -> Bytes], NEW from \in Nat, NEW to \in 0 .. Capacity, from <= to
    PROVE  /\ Run(from, to) \in Seq(Bytes)
           /\ Len(Run(from, to)) = to - from
           /\ \A i \in 1 .. to - from : Run(from, to)[i] = buffer[from + i - 1]
<1>1. Run(from, to) = [i \in 1 .. to - from |-> buffer[from + i - 1]]
  BY DEF Run
<1>2. \A i \in 1 .. to - from : from + i - 1 \in Cells
  BY DEF Cells
<1>3. \A i \in 1 .. to - from : buffer[from + i - 1] \in Bytes
  BY <1>2
<1>4. to - from \in Nat
  OBVIOUS
<1>5. Run(from, to) \in [1 .. to - from -> Bytes]
  BY <1>1, <1>3
<1>6. Run(from, to) \in Seq(Bytes)
  BY <1>4, <1>5, SeqDef
<1>7. Len(Run(from, to)) = to - from
  BY <1>1, <1>4
<1>8. QED BY <1>1, <1>6, <1>7

LEMMA RInvTypes ==
    RInv => /\ buffer \in [Cells -> Bytes]
            /\ readCursor \in Cells /\ writeCursor \in Cells /\ tailCursor \in 1 .. Capacity
            /\ isFull \in BOOLEAN
            /\ writer.ptr \in Cells /\ writer.size \in 0 .. Capacity
            /\ reader.ptr \in Cells /\ reader.size \in 0 .. Capacity
            /\ readCursor <= tailCursor
BY DEF RInv, TypeOK, CursorsInv, Spans

LEMMA ContentsAre == RInv => ContentsFact
<1> SUFFICES ASSUME RInv PROVE ContentsFact
  OBVIOUS
<1>1. /\ buffer \in [Cells -> Bytes] /\ readCursor \in Cells /\ writeCursor \in Cells
      /\ tailCursor \in 1 .. Capacity /\ isFull \in BOOLEAN /\ readCursor <= tailCursor
  BY RInvTypes
<1>2. isFull => writeCursor = readCursor \/ readCursor = 0
  BY DEF RInv, CursorsInv
<1>3. CASE Drained
  <2>1. First = 0 /\ Total = 0 /\ Contents = <<>>
    BY <1>3 DEF First, Total, Contents, Drained
  <2>2. QED BY <2>1, EmptySeq DEF ContentsFact
<1>4. CASE ~Drained /\ readCursor < writeCursor
  <2>1. First = writeCursor - readCursor /\ Total = First /\ Contents = Run(readCursor, writeCursor)
    BY <1>1, <1>4 DEF First, Total, Contents, Drained
  <2>2. First \in Nat /\ Total \in 0 .. Capacity
    BY <1>1, <1>4, <2>1 DEF Cells
  <2>3. /\ Contents \in Seq(Bytes) /\ Len(Contents) = Total
        /\ \A i \in 1 .. Total : Contents[i] = buffer[readCursor + i - 1]
    <3>1. readCursor \in Nat /\ writeCursor \in 0 .. Capacity /\ readCursor <= writeCursor
      BY <1>1, <1>4 DEF Cells
    <3>2. /\ Run(readCursor, writeCursor) \in Seq(Bytes)
          /\ Len(Run(readCursor, writeCursor)) = writeCursor - readCursor
          /\ \A i \in 1 .. writeCursor - readCursor :
                 Run(readCursor, writeCursor)[i] = buffer[readCursor + i - 1]
      BY <1>1, <3>1, RunIs
    <3>3. QED BY <2>1, <3>2
  <2>4. \A i \in 1 .. Total : Cell(i) = readCursor + i - 1
    BY <2>1 DEF Cell
  <2>5. writeCursor <= tailCursor
    BY <1>1, <1>4 DEF RInv, CursorsInv, Cells
  <2>6. \A i \in 1 .. Total : Cell(i) \in Unread
    BY <1>1, <1>4, <2>1, <2>4, <2>5 DEF Unread, InTail, InFront, Cells, Drained
  <2>7. QED BY <2>2, <2>3, <2>4, <2>6 DEF ContentsFact
<1>5. CASE ~Drained /\ ~(readCursor < writeCursor)
  <2>1. /\ First = tailCursor - readCursor /\ Total = First + writeCursor
        /\ Contents = Run(readCursor, tailCursor) \o Run(0, writeCursor)
    BY <1>1, <1>5 DEF First, Total, Contents, Drained
  <2>2. First \in Nat /\ Total \in 0 .. Capacity
    BY <1>1, <1>5, <2>1 DEF Cells
  <2>3. /\ Run(readCursor, tailCursor) \in Seq(Bytes) /\ Len(Run(readCursor, tailCursor)) = First
        /\ \A i \in 1 .. First : Run(readCursor, tailCursor)[i] = buffer[readCursor + i - 1]
    <3>1. readCursor \in Nat /\ tailCursor \in 0 .. Capacity /\ readCursor <= tailCursor
      BY <1>1 DEF Cells
    <3>2. /\ Run(readCursor, tailCursor) \in Seq(Bytes)
          /\ Len(Run(readCursor, tailCursor)) = tailCursor - readCursor
          /\ \A i \in 1 .. tailCursor - readCursor :
                 Run(readCursor, tailCursor)[i] = buffer[readCursor + i - 1]
      BY <1>1, <3>1, RunIs
    <3>3. QED BY <2>1, <3>2
  <2>4. /\ Run(0, writeCursor) \in Seq(Bytes) /\ Len(Run(0, writeCursor)) = writeCursor
        /\ \A i \in 1 .. writeCursor : Run(0, writeCursor)[i] = buffer[i - 1]
    <3>1. writeCursor \in 0 .. Capacity /\ 0 <= writeCursor /\ writeCursor - 0 = writeCursor
      BY <1>1 DEF Cells
    <3>2. /\ Run(0, writeCursor) \in Seq(Bytes) /\ Len(Run(0, writeCursor)) = writeCursor - 0
          /\ \A i \in 1 .. writeCursor - 0 : Run(0, writeCursor)[i] = buffer[0 + i - 1]
      BY <1>1, <3>1, RunIs
    <3>3. \A i \in 1 .. writeCursor : 0 + i - 1 = i - 1
      OBVIOUS
    <3>4. QED BY <3>1, <3>2, <3>3
  <2>5. /\ Contents \in Seq(Bytes) /\ Len(Contents) = Total
        /\ \A i \in 1 .. Total : Contents[i] = IF i <= First THEN Run(readCursor, tailCursor)[i]
                                                           ELSE Run(0, writeCursor)[i - First]
    BY <2>1, <2>3, <2>4, ConcatProperties
  <2>6. \A i \in 1 .. Total : Contents[i] = buffer[Cell(i)]
    <3> SUFFICES ASSUME NEW i \in 1 .. Total PROVE Contents[i] = buffer[Cell(i)]
      OBVIOUS
    <3>1. CASE i <= First
      BY <2>2, <2>3, <2>5, <3>1 DEF Cell
    <3>2. CASE ~(i <= First)
      <4>1. i - First \in 1 .. writeCursor
        BY <1>1, <2>1, <2>2, <3>2 DEF Cells
      <4>2. QED BY <2>4, <2>5, <3>2, <4>1 DEF Cell
    <3>3. QED BY <3>1, <3>2
  <2>7. \A i \in 1 .. Total : Cell(i) \in Unread
    <3> SUFFICES ASSUME NEW i \in 1 .. Total PROVE Cell(i) \in Unread
      OBVIOUS
    <3>1. Unread = {c \in Cells : InTail(c) \/ InFront(c)}
      BY <1>5 DEF Unread, Drained
    <3>2. CASE i <= First
      BY <1>1, <2>1, <2>2, <3>1, <3>2 DEF Cell, Cells, InTail
    <3>3. CASE ~(i <= First)
      BY <1>1, <2>1, <2>2, <3>1, <3>3 DEF Cell, Cells, InFront
    <3>4. QED BY <3>2, <3>3
  <2>8. QED BY <2>2, <2>5, <2>6, <2>7 DEF ContentsFact
<1>6. QED BY <1>3, <1>4, <1>5

LEMMA ViewIs == RInv => ViewFact
<1> SUFFICES ASSUME RInv PROVE ViewFact
  OBVIOUS
<1>1. /\ buffer \in [Cells -> Bytes] /\ reader.ptr \in Nat /\ reader.size \in Nat
      /\ reader.ptr + reader.size \in 0 .. Capacity /\ reader.ptr <= reader.ptr + reader.size
  BY RInvTypes DEF RInv, ReaderInv, isActiveReader, Cells
<1>2. (reader.ptr + reader.size) - reader.ptr = reader.size
  BY <1>1
<1>3. /\ View \in Seq(Bytes) /\ Len(View) = (reader.ptr + reader.size) - reader.ptr
      /\ \A i \in 1 .. (reader.ptr + reader.size) - reader.ptr : View[i] = buffer[reader.ptr + i - 1]
  BY <1>1, RunIs DEF View
<1>4. QED BY <1>2, <1>3 DEF ViewFact

\* An active reader looks at a beginning of the stream.
Prefix == isActiveReader => reader.size <= Total /\ View = SubSeq(Contents, 1, reader.size)

LEMMA ViewIsPrefix == RInv => Prefix
<1> SUFFICES ASSUME RInv, isActiveReader
             PROVE  reader.size <= Total /\ View = SubSeq(Contents, 1, reader.size)
  BY DEF Prefix
<1>1. ContentsFact /\ ViewFact
  BY ContentsAre, ViewIs
<1>2. /\ readCursor \in Cells /\ writeCursor \in Cells /\ tailCursor \in 1 .. Capacity
      /\ isFull \in BOOLEAN /\ reader.size \in 0 .. Capacity
  BY RInvTypes
<1>3. /\ reader.ptr = readCursor
      /\ isFull \/ readCursor # writeCursor
      /\ readCursor + reader.size <= tailCursor
      /\ readCursor < writeCursor => readCursor + reader.size <= writeCursor
  BY DEF RInv, ReaderInv
<1>4. reader.size <= First /\ First <= Total
  BY <1>2, <1>3 DEF First, Total, Drained, Cells
<1>5. \A i \in 1 .. reader.size : i \in 1 .. Total /\ Cell(i) = reader.ptr + i - 1
  <2>1. First \in Nat /\ Total \in Nat
    BY <1>1 DEF ContentsFact
  <2>2. \A i \in 1 .. reader.size : i <= First /\ i \in 1 .. Total
    BY <1>2, <1>4, <2>1
  <2>3. QED BY <1>3, <2>2 DEF Cell
<1>6. \A i \in 1 .. reader.size : Contents[i] = View[i] /\ Contents[i] \in Bytes
  BY <1>1, <1>5, ElementOfSeq DEF ContentsFact, ViewFact
<1>7. /\ SubSeq(Contents, 1, reader.size) \in Seq(Bytes)
      /\ Len(SubSeq(Contents, 1, reader.size)) = reader.size
      /\ \A i \in 1 .. reader.size : SubSeq(Contents, 1, reader.size)[i] = Contents[i]
  BY <1>1, <1>2, <1>4, <1>6, SubSeqProperties DEF ContentsFact
<1>8. View = SubSeq(Contents, 1, reader.size)
  BY <1>1, <1>6, <1>7, SeqEqual DEF ViewFact
<1>9. reader.size <= Total
  BY <1>1, <1>2, <1>4 DEF ContentsFact
<1>10. QED BY <1>8, <1>9

--------------------------------------------------------------------------------
(* What a step does to the cells of the unread bytes.                      *)

Facts == RInv /\ ContentsFact /\ ViewFact /\ Prefix

LEMMA FactsHold == RInv => Facts
BY ContentsAre, ViewIs, ViewIsPrefix DEF Facts

LEMMA SameCells ==
    ASSUME Facts, Facts', Total' = Total, \A i \in 1 .. Total : buffer'[Cell(i)'] = buffer[Cell(i)]
    PROVE  Contents' = Contents
<1>1. Contents \in Seq(Bytes) /\ Contents' \in Seq(Bytes) /\ Len(Contents') = Len(Contents)
  BY DEF Facts, ContentsFact
<1>2. \A i \in 1 .. Len(Contents) : Contents'[i] = Contents[i]
  BY DEF Facts, ContentsFact
<1>3. QED BY <1>1, <1>2, SeqEqual

\* A writer that goes to the front skips the tail; what is unread stays.
LEMMA SkipKeeps ==
    ASSUME Facts, Facts', NEW n \in 1 .. Capacity, ~isFull, FitsInFront(n),
           tailCursor' = writeCursor, writeCursor' = 0,
           UNCHANGED <<buffer, readCursor, isFull>>
    PROVE  Contents' = Contents
<1>1. /\ readCursor \in Cells /\ writeCursor \in Cells /\ tailCursor \in 1 .. Capacity
      /\ isFull \in BOOLEAN
  BY RInvTypes DEF Facts
<1>2. readCursor <= writeCursor /\ 0 < readCursor
  BY <1>1 DEF FitsInFront, Cells
<1>3. First = writeCursor - readCursor /\ Total = First
  BY <1>1, <1>2 DEF First, Total, Drained, Cells
<1>4. First' = writeCursor - readCursor /\ Total' = First'
  BY <1>1, <1>2 DEF First, Total, Drained, Cells
<1>5. \A i \in 1 .. Total : Cell(i)' = Cell(i)
  BY <1>3, <1>4 DEF Cell
<1>6. QED BY <1>3, <1>4, <1>5, SameCells

\* A reader that has used the tail up jumps to the front; what is unread stays.
LEMMA JumpKeeps ==
    ASSUME Facts, Facts', readCursor' = JumpedRead, tailCursor' = JumpedTail,
           UNCHANGED <<buffer, writeCursor, isFull>>
    PROVE  Contents' = Contents
<1>1. /\ readCursor \in Cells /\ writeCursor \in Cells /\ tailCursor \in 1 .. Capacity
      /\ isFull \in BOOLEAN
  BY RInvTypes DEF Facts
<1>2. tailCursor < Capacity => writeCursor < readCursor \/ (writeCursor = readCursor /\ isFull)
  BY DEF Facts, RInv, CursorsInv
<1>3. isFull => writeCursor = readCursor \/ readCursor = 0
  BY DEF Facts, RInv, CursorsInv
<1>4. CASE readCursor # tailCursor
  <2>1. Total' = Total /\ \A i \in 1 .. Total : Cell(i)' = Cell(i)
    BY <1>4 DEF JumpedRead, JumpedTail, Total, First, Drained, Cell
  <2>2. QED BY <2>1, SameCells
<1>5. CASE readCursor = tailCursor
  <2>1. readCursor' = 0 /\ tailCursor' = Capacity
    BY <1>5 DEF JumpedRead, JumpedTail
  <2>2. First = 0 /\ Total = writeCursor
    BY <1>1, <1>2, <1>3, <1>5 DEF First, Total, Drained, Cells
  <2>3. Total' = writeCursor /\ (writeCursor > 0 => First' = writeCursor)
    BY <1>1, <1>2, <1>3, <1>5, <2>1 DEF First, Total, Drained, Cells
  <2>4. \A i \in 1 .. Total : Cell(i)' = Cell(i)
    BY <1>1, <2>1, <2>2, <2>3 DEF Cell, Cells
  <2>5. QED BY <2>2, <2>3, <2>4, SameCells
<1>6. QED BY <1>4, <1>5

\* A committed write appends the cells it covered.
LEMMA WriteAppends ==
    ASSUME Facts, Facts', NEW size \in 1 .. Capacity, isActiveWriter, size <= writer.size,
           writeCursor' = (writeCursor + size) % Capacity,
           isFull' \in BOOLEAN, isFull' <=> writeCursor' = readCursor,
           UNCHANGED <<buffer, readCursor, tailCursor>>
    PROVE  \E s \in [1 .. size -> Bytes] : Contents' = Contents \o s
<1>1. /\ buffer \in [Cells -> Bytes] /\ readCursor \in Cells /\ writeCursor \in Cells
      /\ tailCursor \in 1 .. Capacity /\ isFull \in BOOLEAN /\ writer.size \in 0 .. Capacity
      /\ readCursor <= tailCursor
  BY RInvTypes DEF Facts
<1>2. /\ ~isFull /\ writeCursor + writer.size <= Capacity
      /\ writeCursor < readCursor => writeCursor + writer.size <= readCursor
      /\ tailCursor < Capacity => writeCursor < readCursor
  BY DEF Facts, RInv, WriterInv, CursorsInv
<1>3. writeCursor + size \in 0 .. Capacity /\ (writeCursor < readCursor => writeCursor + size <= readCursor)
  BY <1>1, <1>2 DEF Cells
<1>4. writeCursor' = IF writeCursor + size = Capacity THEN 0 ELSE writeCursor + size
  BY <1>3, Wraps
<1>5. /\ Total' = Total + size
      /\ \A i \in 1 .. Total : Cell(i)' = Cell(i)
      /\ \A i \in 1 .. Total + size : i > Total => Cell(i)' = writeCursor + (i - Total) - 1
  <2>1. CASE readCursor <= writeCursor
    <3>1. tailCursor = Capacity
      BY <1>1, <1>2, <2>1 DEF Cells
    <3>2. Total = writeCursor - readCursor /\ First = Total
      BY <1>1, <1>2, <2>1 DEF First, Total, Drained, Cells
    <3>3. Total' = writeCursor + size - readCursor /\ First' = Total'
      <4>1. CASE writeCursor + size = Capacity
        BY <1>1, <1>3, <1>4, <2>1, <3>1, <4>1 DEF First, Total, Drained, Cells
      <4>2. CASE writeCursor + size # Capacity
        BY <1>1, <1>3, <1>4, <2>1, <3>1, <4>2 DEF First, Total, Drained, Cells
      <4>3. QED BY <4>1, <4>2
    <3>4. \A i \in 1 .. Total : Cell(i) = readCursor + i - 1 /\ Cell(i)' = readCursor + i - 1
      BY <1>1, <2>1, <3>2, <3>3 DEF Cell, Cells
    <3>5. \A i \in 1 .. Total + size : i > Total => Cell(i)' = readCursor + i - 1
      BY <1>1, <2>1, <3>2, <3>3 DEF Cell, Cells
    <3>6. QED BY <1>1, <3>2, <3>3, <3>4, <3>5 DEF Cells
  <2>2. CASE writeCursor < readCursor
    <3>1. writeCursor' = writeCursor + size /\ writeCursor' <= readCursor
      BY <1>1, <1>3, <1>4, <2>2 DEF Cells
    <3>2. First = tailCursor - readCursor /\ Total = First + writeCursor
      BY <1>1, <1>2, <2>2 DEF First, Total, Drained, Cells
    <3>3. First' = tailCursor - readCursor /\ Total' = First' + writeCursor + size
      BY <1>1, <2>2, <3>1 DEF First, Total, Drained, Cells
    <3>4. \A i \in 1 .. Total : Cell(i)' = Cell(i)
      BY <1>1, <3>2, <3>3 DEF Cell, Cells
    <3>5. \A i \in 1 .. Total + size : i > Total => Cell(i)' = i - First - 1
      BY <1>1, <3>2, <3>3 DEF Cell, Cells
    <3>6. QED BY <1>1, <3>2, <3>3, <3>4, <3>5 DEF Cells
  <2>3. QED BY <1>1, <2>1, <2>2 DEF Cells
<1> DEFINE s == [i \in 1 .. size |-> buffer[writeCursor + i - 1]]
<1>6. s \in [1 .. size -> Bytes] /\ s \in Seq(Bytes) /\ Len(s) = size
  <2>1. \A i \in 1 .. size : writeCursor + i - 1 \in Cells
    BY <1>1, <1>3 DEF Cells
  <2>2. s \in [1 .. size -> Bytes]
    BY <1>1, <2>1
  <2>3. s \in Seq(Bytes)
    BY <2>2, SeqDef
  <2>4. QED BY <2>2, <2>3
<1>7. /\ Contents \in Seq(Bytes) /\ Contents' \in Seq(Bytes)
      /\ Len(Contents) = Total /\ Len(Contents') = Total + size /\ Total \in Nat
  BY <1>5 DEF Facts, ContentsFact
<1>8. \A i \in 1 .. size : s[i] = buffer[writeCursor + i - 1]
  OBVIOUS
<1> HIDE DEF s
<1>9. /\ Contents \o s \in Seq(Bytes) /\ Len(Contents \o s) = Total + size
      /\ \A i \in 1 .. Total + size : (Contents \o s)[i] = IF i <= Total THEN Contents[i] ELSE s[i - Total]
  <2>1. /\ Contents \o s \in Seq(Bytes) /\ Len(Contents \o s) = Len(Contents) + Len(s)
        /\ \A i \in 1 .. Len(Contents) + Len(s) :
               (Contents \o s)[i] = IF i <= Len(Contents) THEN Contents[i] ELSE s[i - Len(Contents)]
    BY <1>6, <1>7, ConcatProperties
  <2>2. QED BY <1>6, <1>7, <2>1
<1>10. \A i \in 1 .. Total + size : Contents'[i] = (Contents \o s)[i]
  <2> SUFFICES ASSUME NEW i \in 1 .. Total + size PROVE Contents'[i] = (Contents \o s)[i]
    OBVIOUS
  <2>1. Contents'[i] = buffer[Cell(i)']
    BY <1>5 DEF Facts, ContentsFact
  <2>2. CASE i <= Total
    <3>1. i \in 1 .. Total
      BY <1>7, <2>2
    <3>2. Contents[i] = buffer[Cell(i)]
      BY <3>1 DEF Facts, ContentsFact
    <3>3. QED BY <1>5, <1>9, <2>1, <2>2, <3>1, <3>2
  <2>3. CASE ~(i <= Total)
    <3>1. i - Total \in 1 .. size
      BY <1>7, <2>3
    <3>2. Cell(i)' = writeCursor + (i - Total) - 1
      BY <1>5, <1>7, <2>3
    <3>3. QED BY <1>8, <1>9, <2>1, <2>3, <3>1, <3>2
  <2>4. QED BY <2>2, <2>3
<1>11. Contents' = Contents \o s
  BY <1>7, <1>9, <1>10, SeqEqual
<1>12. QED BY <1>6, <1>11

\* A committed read takes its bytes off the front.
LEMMA ReadConsumes ==
    ASSUME Facts, Facts', NEW n \in 0 .. Capacity, CommitRead(n)
    PROVE  \E size \in 1 .. reader.size : Contents' = SubSeq(Contents, size + 1, Total)
<1> DEFINE size == IF n = 0 THEN reader.size ELSE n
    advanced == readCursor + size
    jumped   == IF advanced = tailCursor THEN 0 ELSE advanced
    emptied  == ~isActiveWriter /\ jumped = writeCursor
<1>1. /\ readCursor \in Cells /\ writeCursor \in Cells /\ tailCursor \in 1 .. Capacity
      /\ isFull \in BOOLEAN /\ reader.size \in 0 .. Capacity /\ readCursor <= tailCursor
  BY RInvTypes DEF Facts
<1>2. isActiveReader /\ size <= reader.size
  BY DEF CommitRead, Emptied
<1>3. size \in 1 .. reader.size
  BY <1>1, <1>2 DEF isActiveReader
<1>4. /\ readCursor' = IF emptied THEN 0 ELSE jumped
      /\ writeCursor' = IF emptied THEN 0 ELSE writeCursor
      /\ tailCursor' = IF emptied \/ advanced = tailCursor THEN Capacity ELSE tailCursor
      /\ isFull' = FALSE /\ buffer' = buffer
  BY DEF CommitRead, Emptied
<1>5. /\ isFull \/ readCursor # writeCursor
      /\ readCursor + reader.size <= tailCursor
      /\ readCursor < writeCursor => readCursor + reader.size <= writeCursor
      /\ tailCursor < Capacity => writeCursor < readCursor \/ (writeCursor = readCursor /\ isFull)
  BY <1>2 DEF Facts, RInv, ReaderInv, CursorsInv
<1> HIDE DEF size
<1>6. /\ advanced <= tailCursor /\ advanced > readCursor
      /\ readCursor < writeCursor => advanced <= writeCursor
  BY <1>1, <1>3, <1>5 DEF Cells
<1>7. ~Drained
  BY <1>5 DEF Drained
<1>8. Total' = Total - size /\ \A i \in 1 .. Total - size : Cell(i)' = Cell(i + size)
  <2>1. CASE emptied
    <3>1. Total' = 0
      BY <1>4, <2>1 DEF Total, First, Drained
    <3>2. Total = size
      <4>1. CASE advanced = tailCursor
        BY <1>1, <1>3, <1>6, <1>7, <2>1, <4>1 DEF Total, First, Cells
      <4>2. CASE advanced # tailCursor
        BY <1>1, <1>3, <1>6, <1>7, <2>1, <4>2 DEF Total, First, Cells
      <4>3. QED BY <4>1, <4>2
    <3>3. 0 = Total - size /\ 1 .. Total - size = {}
      BY <1>1, <1>3, <3>2
    <3>4. QED BY <3>1, <3>3
  <2>2. CASE ~emptied /\ advanced = tailCursor
    <3>1. ~(readCursor < writeCursor)
      BY <1>1, <1>5, <1>6, <2>2 DEF Cells
    <3>2. First = size /\ Total = size + writeCursor
      BY <1>1, <1>3, <1>7, <2>2, <3>1 DEF Total, First, Cells
    <3>3. readCursor' = 0 /\ writeCursor' = writeCursor
      BY <1>4, <2>2
    <3>4. Total' = writeCursor /\ (writeCursor > 0 => First' = writeCursor)
      BY <1>1, <1>4, <3>3 DEF Total, First, Drained, Cells
    <3>5. Total - size = writeCursor
      BY <1>1, <1>3, <3>2 DEF Cells
    <3>6. \A i \in 1 .. writeCursor : Cell(i)' = i - 1 /\ Cell(i + size) = i - 1
      BY <1>1, <1>3, <3>2, <3>3, <3>4 DEF Cell, Cells
    <3>7. QED BY <3>4, <3>5, <3>6
  <2>3. CASE ~emptied /\ advanced # tailCursor
    <3>1. /\ readCursor' = advanced /\ writeCursor' = writeCursor
          /\ tailCursor' = tailCursor /\ ~isFull'
      BY <1>4, <2>3
    <3>2. CASE readCursor < writeCursor
      <4>1. First = writeCursor - readCursor /\ Total = First
        BY <1>1, <1>7, <3>2 DEF Total, First, Cells
      <4>2. First' = writeCursor - advanced /\ Total' = First'
        BY <1>1, <1>3, <1>6, <3>1, <3>2 DEF Total, First, Drained, Cells
      <4>3. \A i \in 1 .. Total - size : Cell(i)' = advanced + i - 1 /\ Cell(i + size) = readCursor + (i + size) - 1
        BY <1>1, <1>3, <3>1, <4>1, <4>2 DEF Cell, Cells
      <4>4. QED BY <1>1, <1>3, <4>1, <4>2, <4>3 DEF Cells
    <3>3. CASE ~(readCursor < writeCursor)
      <4>1. First = tailCursor - readCursor /\ Total = First + writeCursor
        BY <1>1, <1>7, <3>3 DEF Total, First, Cells
      <4>2. First' = tailCursor - advanced /\ Total' = First' + writeCursor
        BY <1>1, <1>3, <1>6, <3>1, <3>3 DEF Total, First, Drained, Cells
      <4>3. First' = First - size
        BY <1>1, <1>3, <4>1, <4>2 DEF Cells
      <4>4. \A i \in 1 .. Total - size : Cell(i)' = Cell(i + size)
        BY <1>1, <1>3, <3>1, <4>1, <4>3 DEF Cell, Cells
      <4>5. QED BY <1>1, <1>3, <4>1, <4>2, <4>4 DEF Cells
    <3>4. QED BY <3>2, <3>3
  <2>4. QED BY <2>1, <2>2, <2>3
<1>9. /\ Contents \in Seq(Bytes) /\ Contents' \in Seq(Bytes) /\ Total \in Nat
      /\ Len(Contents) = Total /\ Len(Contents') = Total - size /\ Total - size \in Nat
  BY <1>8 DEF Facts, ContentsFact
<1>10. \A i \in 1 .. Total - size : i + size \in 1 .. Total
  BY <1>1, <1>3, <1>9
<1>11. \A i \in 1 .. Total - size : Contents'[i] = Contents[i + size]
  <2> SUFFICES ASSUME NEW i \in 1 .. Total - size PROVE Contents'[i] = Contents[i + size]
    OBVIOUS
  <2>1. Contents'[i] = buffer[Cell(i)']
    BY <1>4, <1>8 DEF Facts, ContentsFact
  <2>2. Contents[i + size] = buffer[Cell(i + size)]
    BY <1>10 DEF Facts, ContentsFact
  <2>3. QED BY <1>8, <2>1, <2>2
<1>12. \A i \in size + 1 .. Total : Contents[i] \in Bytes
  <2>1. \A i \in size + 1 .. Total : i \in 1 .. Len(Contents)
    BY <1>1, <1>3, <1>9
  <2>2. QED BY <1>9, <2>1, ElementOfSeq
<1>13. /\ SubSeq(Contents, size + 1, Total) \in Seq(Bytes)
       /\ Len(SubSeq(Contents, size + 1, Total)) = Total - size
       /\ \A i \in 1 .. Total - size : SubSeq(Contents, size + 1, Total)[i] = Contents[i + size]
  <2>1. size + 1 \in Int /\ Total \in Int
    BY <1>1, <1>3, <1>9
  <2>2. /\ SubSeq(Contents, size + 1, Total) \in Seq(Bytes)
        /\ Len(SubSeq(Contents, size + 1, Total)) =
               IF size + 1 <= Total THEN Total - (size + 1) + 1 ELSE 0
        /\ \A i \in 1 .. Total - (size + 1) + 1 :
               SubSeq(Contents, size + 1, Total)[i] = Contents[(size + 1) + i - 1]
    BY <1>12, <2>1, SubSeqProperties
  <2>3. Total - (size + 1) + 1 = Total - size
    BY <1>1, <1>3, <1>9
  <2>4. \A i \in 1 .. Total - size : (size + 1) + i - 1 = i + size
    BY <1>1, <1>3, <1>9
  <2>5. ~(size + 1 <= Total) => Total - size = 0
    BY <1>1, <1>3, <1>9
  <2>6. QED BY <2>2, <2>3, <2>4, <2>5
<1>14. Contents' = SubSeq(Contents, size + 1, Total)
  BY <1>9, <1>11, <1>13, SeqEqual
<1>15. QED BY <1>3, <1>14

\* A byte stored through the writer's handle is no unread byte, nor one the reader sees.
LEMMA StoreHides ==
    ASSUME Facts, Facts', NEW i \in Cells, NEW b \in Bytes, Store(i, b)
    PROVE  Contents' = Contents /\ View' = View
<1>1. /\ buffer \in [Cells -> Bytes] /\ readCursor \in Cells /\ writeCursor \in Cells
      /\ tailCursor \in 1 .. Capacity /\ isFull \in BOOLEAN
      /\ writer.ptr \in Cells /\ writer.size \in 0 .. Capacity
      /\ reader.ptr \in Cells /\ reader.size \in 0 .. Capacity
  BY RInvTypes DEF Facts
<1>2. /\ i < writer.size /\ UNCHANGED <<cursors, writer, reader>>
      /\ buffer' = [buffer EXCEPT ![writer.ptr + i] = b]
  BY DEF Store
<1>3. /\ isActiveWriter /\ ~isFull /\ writer.ptr = writeCursor
      /\ writeCursor + writer.size <= Capacity
      /\ writeCursor < readCursor => writeCursor + writer.size <= readCursor
      /\ tailCursor < Capacity => writeCursor < readCursor
  BY <1>1, <1>2 DEF Facts, RInv, WriterInv, CursorsInv, isActiveWriter, Cells
<1>4. \A c \in Cells : c # writeCursor + i => buffer'[c] = buffer[c]
  BY <1>1, <1>2, <1>3
<1>5. writeCursor + i \notin Unread
  BY <1>1, <1>2, <1>3 DEF Unread, InTail, InFront, Cells
<1>6. Unread \subseteq Cells
  BY DEF Unread
<1>7. Total' = Total /\ First' = First /\ readCursor' = readCursor
  BY <1>2 DEF cursors, Total, First, Drained
<1>8. \A k \in 1 .. Total : Cell(k)' = Cell(k)
  BY <1>7 DEF Cell
<1>9. \A k \in 1 .. Total : Cell(k) \in Unread
  BY DEF Facts, ContentsFact
<1>10. \A k \in 1 .. Total : buffer'[Cell(k)'] = buffer[Cell(k)]
  BY <1>4, <1>5, <1>6, <1>8, <1>9
<1>11. Contents' = Contents
  BY <1>7, <1>10, SameCells
<1>12. View' = View
  <2>1. isActiveReader' = isActiveReader /\ reader' = reader
    BY <1>2 DEF isActiveReader
  <2>2. CASE isActiveReader
    BY <1>11, <2>1, <2>2 DEF Facts, Prefix
  <2>3. CASE ~isActiveReader
    <3>1. reader.size = 0
      BY <1>1, <2>3 DEF isActiveReader
    <3>2. /\ View \in Seq(Bytes) /\ Len(View) = 0
          /\ View' \in Seq(Bytes) /\ Len(View') = 0
      BY <2>1, <3>1 DEF Facts, ViewFact
    <3>3. QED BY <3>2, EmptySeq
  <2>4. QED BY <2>2, <2>3
<1>13. QED BY <1>11, <1>12

--------------------------------------------------------------------------------
(* The refinement.                                                         *)

LEMMA NoReaderNoView == ViewFact /\ reader.size = 0 => View = <<>>
BY EmptySeq DEF ViewFact

LEMMA StreamStep == Facts /\ Facts' /\ [Next]_vars => [Stream!StreamNext]_(Stream!streamVars)
<1> SUFFICES ASSUME Facts, Facts', [Next]_vars, ~(Contents' = Contents /\ View' = View)
             PROVE  Stream!StreamNext
  BY DEF Stream!streamVars, View
<1>0. /\ writer.size \in 0 .. Capacity /\ reader.size \in 0 .. Capacity
      /\ reader'.size \in 0 .. Capacity
      /\ Len(Contents) = Total /\ Total \in 0 .. Capacity /\ Contents \in Seq(Bytes)
      /\ Len(Contents') = Total' /\ Total' \in 0 .. Capacity
      /\ Len(View) = reader.size
  <2>1. /\ writer.size \in 0 .. Capacity /\ reader.size \in 0 .. Capacity
        /\ reader'.size \in 0 .. Capacity
    BY DEF Facts, RInv, TypeOK, Spans
  <2>2. QED BY <2>1 DEF Facts, ContentsFact, ViewFact
<1>k. ASSUME UNCHANGED <<buffer, cursors>> PROVE Contents' = Contents
  BY <1>k DEF cursors, Contents, Run
<1>v. ASSUME UNCHANGED <<buffer, reader>> PROVE View' = View
  BY <1>v DEF View, Run
<1>1. ASSUME NEW n \in 1 .. Capacity, CreateWriter(n) PROVE FALSE
  <2>1. View' = View
    BY <1>1, <1>v DEF CreateWriter
  <2>2. CASE UNCHANGED <<writeCursor, tailCursor>>
    BY <1>1, <1>k, <2>1, <2>2 DEF CreateWriter, cursors
  <2>3. CASE FitsInFront(n) /\ tailCursor' = writeCursor /\ writeCursor' = 0
    BY <1>1, <2>1, <2>3, SkipKeeps DEF CreateWriter
  <2>4. QED BY <1>1, <2>2, <2>3 DEF CreateWriter
<1>2. CASE CreateAllWriter
  BY <1>2, <1>k, <1>v DEF CreateAllWriter
<1>3. ASSUME NEW n \in 1 .. Capacity, ReserveRead(n) PROVE Stream!StreamNext
  <2>1. Contents' = Contents
    BY <1>3, JumpKeeps DEF ReserveRead
  <2>2. View = <<>>
    BY <1>0, <1>3, NoReaderNoView DEF ReserveRead, isActiveReader, Facts
  <2>3. CASE isActiveReader'
    <3>1. reader'.size \in 1 .. Len(Contents) /\ View' = SubSeq(Contents, 1, reader'.size)
      <4>1. reader'.size \in 0 .. Capacity
        BY <1>0
      <4>2. reader'.size <= Total' /\ View' = SubSeq(Contents', 1, reader'.size) /\ reader'.size > 0
        BY <2>3 DEF Facts, Prefix, isActiveReader
      <4>3. QED BY <1>0, <2>1, <4>1, <4>2
    <3>2. QED BY <2>1, <2>2, <3>1 DEF View, Stream!StreamNext, Stream!Look
  <2>4. CASE ~isActiveReader'
    <3>1. reader'.size \in 0 .. Capacity /\ ~(reader'.size > 0)
      BY <1>0, <2>4 DEF isActiveReader
    <3>2. ViewFact' /\ reader'.size = 0
      BY <3>1 DEF Facts
    <3>3. View' = <<>>
      BY <3>2, EmptySeq DEF ViewFact
    <3>4. QED BY <2>1, <2>2, <3>3
  <2>5. QED BY <2>3, <2>4
<1>4. ASSUME NEW n \in 0 .. Capacity, CommitWrite(n) PROVE Stream!StreamNext
  <2> DEFINE size == IF n = 0 THEN writer.size ELSE n
  <2>1. /\ isActiveWriter /\ size <= writer.size
        /\ writeCursor' = (writeCursor + size) % Capacity
        /\ isFull' \in BOOLEAN /\ (isFull' <=> writeCursor' = readCursor)
        /\ UNCHANGED <<buffer, readCursor, tailCursor, reader>>
    BY <1>4 DEF CommitWrite, Advanced
  <2>2. size \in 1 .. Capacity
    BY <1>0, <2>1 DEF isActiveWriter
  <2> HIDE DEF size
  <2>3. PICK s \in [1 .. size -> Bytes] : Contents' = Contents \o s
    BY <2>1, <2>2, WriteAppends
  <2>4. Len(s) = size /\ s \in Seq(Bytes)
    <3>1. s \in Seq(Bytes)
      BY <2>2, SeqDef
    <3>2. QED BY <2>2, <3>1
  <2>5. Len(Contents') = Len(Contents) + size
    BY <1>0, <2>3, <2>4, ConcatProperties
  <2>6. size \in 1 .. Capacity - Len(Contents)
    BY <1>0, <2>2, <2>5
  <2>7. View' = View
    BY <1>v, <2>1
  <2>8. QED BY <2>3, <2>6, <2>7 DEF View, Stream!StreamNext, Stream!Write
<1>5. ASSUME NEW n \in 0 .. Capacity, CommitRead(n) PROVE Stream!StreamNext
  <2>1. PICK size \in 1 .. reader.size : Contents' = SubSeq(Contents, size + 1, Total)
    BY <1>5, ReadConsumes
  <2>2. reader'.size = 0
    BY <1>5 DEF CommitRead, NoSpan, Span
  <2>3. View' = <<>>
    BY <2>2, EmptySeq DEF Facts, ViewFact
  <2>4. size \in 1 .. Len(View) /\ Contents' = SubSeq(Contents, size + 1, Len(Contents))
    BY <1>0, <2>1
  <2>5. QED BY <2>3, <2>4 DEF View, Stream!StreamNext, Stream!Consume
<1>6. CASE GiveUpWriter
  BY <1>6, <1>k, <1>v DEF GiveUpWriter
<1>7. CASE GiveUpReader
  <2>1. Contents' = Contents
    BY <1>7, <1>k DEF GiveUpReader
  <2>2. reader'.size = 0
    BY <1>7 DEF GiveUpReader, NoSpan, Span
  <2>3. View' = <<>>
    BY <2>2, EmptySeq DEF Facts, ViewFact
  <2>4. QED BY <2>1, <2>3 DEF View, Stream!StreamNext, Stream!PutBack
<1>8. ASSUME NEW i \in Cells, NEW b \in Bytes, Store(i, b) PROVE FALSE
  BY <1>8, StoreHides
<1>9. CASE UNCHANGED vars
  BY <1>9, <1>k, <1>v DEF vars
<1>10. Capacity \in 1 .. Capacity /\ 0 \in 0 .. Capacity
  OBVIOUS
<1>11. QED
  BY <1>1, <1>2, <1>3, <1>4, <1>5, <1>6, <1>7, <1>8, <1>9, <1>10 DEF Next, CreateReader, CreateAllReader,
     DestroyWriter, DestroyReader

\* ImplementsStream: over wraps, skipped tails, partial commits, give-ups and any
\* interleaving of writer and reader, the ring buffer is a first-in, first-out
\* stream, and a reader sees its beginning (RingBuffer.cpp:174-388).
THEOREM RingIsAStream == Spec => ImplementsStream
<1>1. Init => Stream!StreamInit
  <2> SUFFICES ASSUME Init PROVE Stream!StreamInit
    OBVIOUS
  <2>1. Contents = <<>>
    BY DEF Init, Contents
  <2>2. RInv
    BY RingInit
  <2>3. View = <<>>
    BY <2>2, ViewIs, NoReaderNoView DEF Init, NoSpan, Span
  <2>4. QED BY <2>1, <2>3 DEF View, Stream!StreamInit
<1>2. QED
  BY <1>1, RingInvariant, FactsHold, StreamStep, PTL DEF Spec, ImplementsStream, Stream!StreamSpec

--------------------------------------------------------------------------------
(* Room.                                                                   *)

\* The cells behind a skipped tail serve nobody until the reader has jumped.
Skipped == Capacity - tailCursor
Free    == Capacity - Total - Skipped

\* Not only a drained ring serves, and not only half the ring can be had: whenever
\* the full flag is clear, no reservation of up to half the free cells is refused,
\* wherever the cursors are and however the cells are split
\* (RingBuffer.cpp:184-213).  A caller that keeps its packets under that never retries.
HalfOfFreeFits ==
    ~isActiveWriter /\ ~isFull => \A n \in 1 .. Capacity : 2 * n <= Free + 1 => CanReserve(n)

THEOREM HalfOfTheFreeFits == Spec => []HalfOfFreeFits
<1>1. RInv => HalfOfFreeFits
  <2> SUFFICES ASSUME RInv, ~isFull, NEW n \in 1 .. Capacity, 2 * n <= Free + 1
               PROVE  CanReserve(n)
    BY DEF HalfOfFreeFits
  <2>1. readCursor \in Cells /\ writeCursor \in Cells /\ tailCursor \in 1 .. Capacity
    BY RInvTypes
  <2>2. readCursor <= writeCursor => tailCursor = Capacity
    <3>1. tailCursor < Capacity => writeCursor < readCursor
      BY DEF RInv, CursorsInv
    <3>2. QED BY <2>1, <3>1 DEF Cells
  <2>3. CASE readCursor <= writeCursor
    <3>1. Free = Capacity - (writeCursor - readCursor)
      BY <2>1, <2>2, <2>3 DEF Free, Skipped, Total, First, Drained, Cells
    <3>2. n <= Capacity - writeCursor \/ n <= readCursor
      BY <2>1, <3>1 DEF Cells
    <3>3. QED BY <2>1, <2>3, <3>2 DEF CanReserve, FitsBehind, FitsInFront, Cells
  <2>4. CASE writeCursor < readCursor
    <3>1. Free = readCursor - writeCursor
      BY <2>1, <2>4 DEF Free, Skipped, Total, First, Drained, Cells
    <3>2. n <= readCursor - writeCursor
      BY <2>1, <2>4, <3>1 DEF Cells
    <3>3. QED BY <2>4, <3>2 DEF CanReserve, FitsBetween
  <2>5. QED BY <2>1, <2>3, <2>4 DEF Cells
<1>2. QED BY <1>1, RingInvariant, PTL
================================================================================
