--------------------------- MODULE SessionSendProofs ---------------------------
(***************************************************************************)
(* Proofs about SessionSend, for any producers, I/O threads, queue limit   *)
(* and number of Sends.                                                    *)
(***************************************************************************)
EXTENDS SessionSend, SequenceTheorems, TLAPS

USE SessionAssumption DEF SessionAssumption

\* Posting a handler, and picking one up, keeps the counts natural numbers.
LEMMA PostTyped ==
  ASSUME posted \in [Handlers -> Nat], NEW h \in Handlers
  PROVE  /\ Post(h) => posted' \in [Handlers -> Nat]
         /\ posted[h] > 0 /\ posted' = [posted EXCEPT ![h] = @ - 1] => posted' \in [Handlers -> Nat]
<1>1. posted[h] \in Nat /\ posted[h] + 1 \in Nat /\ (posted[h] > 0 => posted[h] - 1 \in Nat)
  OBVIOUS
<1>2. QED BY <1>1 DEF Post

\* Every step keeps the shape of the session's members.
LEMMA TypeStep == TypeOK /\ [Next]_vars => TypeOK'
<1> SUFFICES ASSUME TypeOK, [Next]_vars PROVE TypeOK'
  OBVIOUS
<1> USE DEF TypeOK, Buffers, Handlers, IoSteps
<1>1. ASSUME NEW p \in Producers, SendLocked(p) PROVE TypeOK'
  <2>1. CASE MaxQueue <= Len(sendQueue)
    <3>1. producer' \in [Producers -> {"idle", "post_close", "post_flush"}]
      BY <1>1, <2>1 DEF SendLocked, QueueFull, AfterPush
    <3>2. calls' = calls + 1 /\ calls < MaxCalls
      BY <1>1 DEF SendLocked, QueueFull, AfterPush
    <3>3. UNCHANGED <<session, accepted, io, posted, network, alive>>
      BY <1>1, <2>1 DEF SendLocked, QueueFull, AfterPush, session
    <3>4. calls' \in Nat /\ accepted' \in Nat /\ accepted' <= calls' /\ calls' <= MaxCalls
      BY <3>2, <3>3
    <3>5. UNCHANGED <<sendQueue, isSending, sendingBuffers, io, posted, writes, socket, wire, alive>>
      BY <3>3 DEF session, network
    <3>6. QED BY <3>1, <3>4, <3>5
  <2>2. CASE ~(MaxQueue <= Len(sendQueue))
    <3>1. /\ sendQueue' = Append(sendQueue, accepted + 1)
          /\ accepted' = accepted + 1
          /\ calls' = calls + 1
          /\ calls < MaxCalls
      BY <1>1, <2>2 DEF SendLocked, QueueFull, AfterPush
    <3>2. accepted + 1 \in Buffers
      BY <3>1
    <3>3. sendQueue' \in Seq(Buffers) /\ Len(sendQueue') = Len(sendQueue) + 1
      BY <3>1, <3>2
    <3>4. Len(sendQueue') <= MaxQueue
      BY <2>2, <3>3
    <3>5. producer' \in [Producers -> {"idle", "post_close", "post_flush"}] /\ isSending' = TRUE
      BY <1>1, <2>2 DEF SendLocked, QueueFull, AfterPush
    <3>6. accepted' \in Nat /\ calls' \in Nat /\ accepted' <= calls' /\ calls' <= MaxCalls
      BY <3>1
    <3>7. UNCHANGED <<sendingBuffers, io, posted, writes, socket, wire, alive>>
      BY <1>1 DEF SendLocked, QueueFull, AfterPush, network
    <3>8. QED BY <3>3, <3>4, <3>5, <3>6, <3>7
  <2>3. QED BY <2>1, <2>2
<1>0. posted \in [Handlers -> Nat] /\ "close" \in Handlers /\ "flush" \in Handlers
  OBVIOUS
<1>2. ASSUME NEW p \in Producers, PostClose(p) \/ PostFlush(p) PROVE TypeOK'
  <2>1. Post("close") \/ Post("flush")
    BY <1>2 DEF PostClose, PostFlush
  <2>2. posted' \in [Handlers -> Nat]
    BY <1>0, <2>1, PostTyped
  <2>3. producer' \in [Producers -> {"idle", "post_close", "post_flush"}]
    BY <1>2 DEF PostClose, PostFlush
  <2>4. UNCHANGED <<sendQueue, isSending, sendingBuffers, io, writes, socket, wire, accepted, calls, alive>>
    BY <1>2 DEF PostClose, PostFlush, session, network
  <2>5. QED BY <2>2, <2>3, <2>4
<1>4. ASSUME NEW t \in IoThreads, NEW h \in Handlers, Dispatch(t, h) PROVE TypeOK'
  <2>1. posted' \in [Handlers -> Nat]
    BY <1>0, <1>4, PostTyped DEF Dispatch
  <2>2. io' \in [IoThreads -> IoSteps]
    BY <1>4 DEF Dispatch, Goto
  <2>3. UNCHANGED <<sendQueue, isSending, sendingBuffers, producer, writes, socket, wire, accepted, calls, alive>>
    BY <1>4 DEF Dispatch, session, network
  <2>4. QED BY <2>1, <2>2, <2>3
<1>5. ASSUME NEW t \in IoThreads, FlushLocked(t) PROVE TypeOK'
  BY <1>5 DEF FlushLocked, Goto, network
<1>6. ASSUME NEW t \in IoThreads, StartWrite(t) PROVE TypeOK'
  BY <1>6 DEF StartWrite, Goto, session
<1>7. ASSUME NEW t \in IoThreads, CompleteSend(t) PROVE TypeOK'
  BY <1>7 DEF CompleteSend, Goto, network
<1>8. ASSUME NEW t \in IoThreads, DropLocked(t) PROVE TypeOK'
  <2>1. sendQueue' \in Seq(Buffers) /\ Len(sendQueue') <= MaxQueue
    BY <1>8, EmptySeq DEF DropLocked
  <2>2. io' \in [IoThreads -> IoSteps] /\ isSending' = FALSE
    BY <1>8 DEF DropLocked, Goto
  <2>3. UNCHANGED <<sendingBuffers, producer, posted, writes, socket, wire, accepted, calls, alive>>
    BY <1>8 DEF DropLocked, network
  <2>4. QED BY <2>1, <2>2, <2>3
<1>9. ASSUME NEW t \in IoThreads, CloseSocket(t) PROVE TypeOK'
  BY <1>9 DEF CloseSocket, Goto, session
<1>10. ASSUME NEW w \in writes, Transmit(w) PROVE TypeOK'
  <2>00. w \in [by : IoThreads, views : Seq(Buffers), rest : Seq(Buffers)]
    BY <1>10
  <2>0. w.rest \in Seq(Buffers) /\ w.rest # <<>>
    BY <1>10, <2>00 DEF Transmit
  <2>1. Head(w.rest) \in Buffers /\ Tail(w.rest) \in Seq(Buffers)
    BY <2>0, HeadTailProperties
  <2>2. [w EXCEPT !.rest = Tail(@)] \in [by : IoThreads, views : Seq(Buffers), rest : Seq(Buffers)]
    BY <2>00, <2>1
  <2>3. wire' \in Seq(Buffers)
    BY <1>10, <2>1 DEF Transmit
  <2>4. writes' \subseteq [by : IoThreads, views : Seq(Buffers), rest : Seq(Buffers)]
    BY <1>10, <2>2 DEF Transmit
  <2>5. QED BY <1>10, <2>3, <2>4 DEF Transmit, session, locals
<1>11. ASSUME NEW w \in writes, EndWrite(w) PROVE TypeOK'
  <2>1. posted' \in [Handlers -> Nat]
    <3>1. Post("sent") \/ Post("failed")
      BY <1>11 DEF EndWrite
    <3>2. "sent" \in Handlers /\ "failed" \in Handlers
      OBVIOUS
    <3>3. QED BY <1>0, <3>1, <3>2, PostTyped
  <2>2. writes' \subseteq [by : IoThreads, views : Seq(Buffers), rest : Seq(Buffers)]
    BY <1>11 DEF EndWrite
  <2>3. UNCHANGED <<sendQueue, isSending, sendingBuffers, producer, io, socket, wire, accepted, calls, alive>>
    BY <1>11 DEF EndWrite, session, locals
  <2>4. QED BY <2>1, <2>2, <2>3
<1>12. CASE PeerReset
  BY <1>12 DEF PeerReset, session, locals
<1>13. CASE RaceCrash
  BY <1>13 DEF RaceCrash, session, locals, network
<1>14. CASE UNCHANGED vars
  BY <1>14 DEF vars, session, locals, network
<1>15. QED
  BY <1>1, <1>2, <1>4, <1>5, <1>6, <1>7, <1>8, <1>9, <1>10, <1>11, <1>12, <1>13, <1>14
     DEF Next, SendStep, HandlerStep

\* The members of a session always have the types of BoostSession.h.
THEOREM TypeCorrect == Spec => []TypeOK
<1>1. Init => TypeOK
  <2> SUFFICES ASSUME Init PROVE TypeOK
    OBVIOUS
  <2>1. /\ sendQueue \in Seq(Buffers) /\ Len(sendQueue) <= MaxQueue
        /\ sendingBuffers \in Seq(Buffers) /\ Len(sendingBuffers) <= MaxQueue
        /\ wire \in Seq(Buffers)
    BY EmptySeq DEF Init
  <2>2. /\ io \in [IoThreads -> IoSteps]
        /\ producer \in [Producers -> {"idle", "post_close", "post_flush"}]
        /\ posted \in [Handlers -> Nat]
    BY DEF Init, IoSteps
  <2>3. /\ writes \subseteq [by : IoThreads, views : Seq(Buffers), rest : Seq(Buffers)]
        /\ accepted \in Nat /\ calls \in Nat /\ accepted <= calls /\ calls <= MaxCalls
    BY DEF Init
  <2>4. QED BY <2>1, <2>2, <2>3 DEF Init, TypeOK
<1>2. QED BY <1>1, TypeStep, PTL DEF Spec

--------------------------------------------------------------------------------
(* The send token.                                                         *)

\* Every step hands the token on, takes it when m_isSending was false, or
\* gives it up together with m_isSending.
LEMMA TokenStep == TypeOK /\ OneSender /\ [Next]_vars => OneSender'
<1> SUFFICES ASSUME TypeOK, OneSender, [Next]_vars PROVE OneSender'
  OBVIOUS
<1> USE DEF OneSender, TokenHeld, Posting, Running, Queued, Writing
<1>0. /\ isSending \in BOOLEAN
      /\ producer \in [Producers -> {"idle", "post_close", "post_flush"}]
      /\ io \in [IoThreads -> IoSteps]
      /\ posted \in [{"flush", "close", "sent", "failed"} -> Nat]
  BY DEF TypeOK, Handlers
<1>1. ASSUME NEW p \in Producers, SendLocked(p) PROVE OneSender'
  BY <1>0, <1>1 DEF SendLocked, QueueFull, AfterPush, network
<1>2. ASSUME NEW p \in Producers, PostClose(p) PROVE OneSender'
  BY <1>0, <1>2 DEF PostClose, Post, session, network
<1>3. ASSUME NEW p \in Producers, PostFlush(p) PROVE OneSender'
  BY <1>0, <1>3 DEF PostFlush, Post, session, network
<1>4. ASSUME NEW t \in IoThreads, NEW h \in Handlers, Dispatch(t, h) PROVE OneSender'
  BY <1>0, <1>4 DEF Dispatch, Goto, session, network, Handlers
<1>5. ASSUME NEW t \in IoThreads, FlushLocked(t) PROVE OneSender'
  BY <1>0, <1>5 DEF FlushLocked, Goto, network
<1>6. ASSUME NEW t \in IoThreads, StartWrite(t) PROVE OneSender'
  BY <1>0, <1>6 DEF StartWrite, Goto, session
<1>7. ASSUME NEW t \in IoThreads, CompleteSend(t) PROVE OneSender'
  BY <1>0, <1>7 DEF CompleteSend, Goto, network
<1>8. ASSUME NEW t \in IoThreads, DropLocked(t) PROVE OneSender'
  BY <1>0, <1>8 DEF DropLocked, Goto, network
<1>9. ASSUME NEW t \in IoThreads, CloseSocket(t) PROVE OneSender'
  BY <1>0, <1>9 DEF CloseSocket, Goto, session
<1>10. ASSUME NEW w \in writes, Transmit(w) PROVE OneSender'
  BY <1>0, <1>10 DEF Transmit, session, locals
<1>11. ASSUME NEW w \in writes, EndWrite(w) PROVE OneSender'
  BY <1>0, <1>11 DEF EndWrite, Post, session, locals
<1>12. CASE PeerReset
  BY <1>12 DEF PeerReset, session, locals
<1>13. CASE RaceCrash
  BY <1>13 DEF RaceCrash, session, locals, network
<1>14. CASE UNCHANGED vars
  BY <1>14 DEF vars, session, locals, network
<1>15. QED
  BY <1>1, <1>2, <1>3, <1>4, <1>5, <1>6, <1>7, <1>8, <1>9, <1>10, <1>11, <1>12, <1>13, <1>14
     DEF Next, SendStep, HandlerStep

\* m_isSending admits one sender at a time, without a strand.
THEOREM SingleSender == Spec => []OneSender
<1>1. Init => OneSender
  BY DEF Init, OneSender, TokenHeld, Posting, Running, Queued, Writing, Handlers
<1>2. QED BY <1>1, TypeCorrect, TokenStep, PTL DEF Spec

--------------------------------------------------------------------------------
(* The batch of buffers being sent.                                        *)

\* Who owns m_sendingBuffers, and when it is empty.  The connection never comes
\* back, so an error completion is only seen once it is gone.
BatchInv ==
    /\ BuffersHeld
    /\ sendQueue # <<>> => isSending
    /\ sendingBuffers # <<>> =>
          \/ Writing
          \/ posted["sent"] + posted["failed"] > 0
          \/ \E t \in IoThreads : io[t] \in {"write", "sent", "failed"}
    /\ \A w \in writes : Len(w.rest) <= Len(w.views)
    /\ socket = "open" => posted["failed"] = 0 /\ \A t \in IoThreads : io[t] \notin {"failed", "drop"}

IInv == TypeOK /\ OneSender /\ BatchInv

LEMMA BatchStep == IInv /\ [Next]_vars => BatchInv'
<1> SUFFICES ASSUME IInv, [Next]_vars PROVE BatchInv'
  OBVIOUS
<1> USE DEF IInv, BatchInv, BuffersHeld, OneSender, TokenHeld, Posting, Running, Queued, Writing
<1>0. /\ isSending \in BOOLEAN
      /\ producer \in [Producers -> {"idle", "post_close", "post_flush"}]
      /\ io \in [IoThreads -> IoSteps]
      /\ posted \in [{"flush", "close", "sent", "failed"} -> Nat]
      /\ writes \subseteq [by : IoThreads, views : Seq(Buffers), rest : Seq(Buffers)]
      /\ sendingBuffers \in Seq(Buffers)
  BY DEF TypeOK, Handlers
<1>1. ASSUME NEW p \in Producers, SendLocked(p) PROVE BatchInv'
  BY <1>0, <1>1 DEF SendLocked, QueueFull, AfterPush, network
<1>2. ASSUME NEW p \in Producers, PostClose(p) PROVE BatchInv'
  BY <1>0, <1>2 DEF PostClose, Post, session, network
<1>3. ASSUME NEW p \in Producers, PostFlush(p) PROVE BatchInv'
  BY <1>0, <1>3 DEF PostFlush, Post, session, network
<1>4. ASSUME NEW t \in IoThreads, NEW h \in Handlers, Dispatch(t, h) PROVE BatchInv'
  <2>1. /\ io' = [io EXCEPT ![t] = h] /\ io[t] = "idle" /\ posted[h] > 0
        /\ posted' = [posted EXCEPT ![h] = @ - 1]
        /\ UNCHANGED <<sendQueue, isSending, sendingBuffers, writes, socket>>
    BY <1>4 DEF Dispatch, Goto, session, network
  <2>2. CASE h = "flush" \/ h = "close"
    BY <1>0, <2>1, <2>2
  <2>3. CASE h = "sent"
    BY <1>0, <2>1, <2>3
  <2>4. CASE h = "failed"
    BY <1>0, <2>1, <2>4
  <2>5. QED BY <2>2, <2>3, <2>4 DEF Handlers
<1>5. ASSUME NEW t \in IoThreads, FlushLocked(t) PROVE BatchInv'
  BY <1>0, <1>5 DEF FlushLocked, Goto, network
<1>6. ASSUME NEW t \in IoThreads, StartWrite(t) PROVE BatchInv'
  <2>1. writes = {}
    BY <1>0, <1>6 DEF StartWrite
  <2>2. \A w \in writes' : w.views = sendingBuffers /\ w.rest = sendingBuffers
    BY <1>6, <2>1 DEF StartWrite
  <2>3. writes' # {}
    BY <1>6 DEF StartWrite
  <2>4. UNCHANGED <<sendQueue, isSending, sendingBuffers, posted, socket>>
    BY <1>6 DEF StartWrite, session
  <2>5. \A u \in IoThreads : io'[u] = io[u] \/ io'[u] = "idle"
    BY <1>0, <1>6 DEF StartWrite, Goto
  <2>6. QED BY <1>0, <2>2, <2>3, <2>4, <2>5
<1>7. ASSUME NEW t \in IoThreads, CompleteSend(t) PROVE BatchInv'
  BY <1>0, <1>7 DEF CompleteSend, Goto, network
<1>8. ASSUME NEW t \in IoThreads, DropLocked(t) PROVE BatchInv'
  BY <1>0, <1>8 DEF DropLocked, Goto, network
<1>9. ASSUME NEW t \in IoThreads, CloseSocket(t) PROVE BatchInv'
  BY <1>0, <1>9 DEF CloseSocket, Goto, session
<1>10. ASSUME NEW w \in writes, Transmit(w) PROVE BatchInv'
  <2>1. Len(Tail(w.rest)) <= Len(w.rest)
    BY <1>0, <1>10, HeadTailProperties DEF Transmit
  <2>2. \A v \in writes' : v.views = w.views /\ v.rest = Tail(w.rest)
    <3>1. writes = {w}
      OBVIOUS
    <3>2. [w EXCEPT !.rest = Tail(@)].views = w.views /\ [w EXCEPT !.rest = Tail(@)].rest = Tail(w.rest)
      BY <1>0
    <3>3. QED BY <1>10, <3>1, <3>2 DEF Transmit
  <2>3. writes' # {}
    BY <1>10 DEF Transmit
  <2>4. UNCHANGED <<sendQueue, isSending, sendingBuffers, posted, io, socket>>
    BY <1>10 DEF Transmit, session, locals
  <2>5. Len(Tail(w.rest)) <= Len(w.views)
    <3>1. Len(w.rest) \in Nat /\ Len(w.views) \in Nat /\ Len(Tail(w.rest)) \in Nat
      BY <1>0, <1>10, HeadTailProperties, LenProperties DEF Transmit
    <3>2. QED BY <2>1, <3>1
  <2>6. QED BY <2>2, <2>3, <2>4, <2>5
<1>11. ASSUME NEW w \in writes, EndWrite(w) PROVE BatchInv'
  <2>1. writes' = {}
    BY <1>11 DEF EndWrite
  <2>2. UNCHANGED <<sendQueue, isSending, sendingBuffers, io, socket>>
    BY <1>11 DEF EndWrite, session, locals
  <2>3. posted["sent"] = 0 /\ posted["failed"] = 0
    BY <1>0
  <2>4. CASE Post("sent")
    BY <1>0, <2>1, <2>2, <2>3, <2>4 DEF Post
  <2>5. CASE socket # "open" /\ Post("failed")
    BY <1>0, <2>1, <2>2, <2>3, <2>5 DEF Post
  <2>6. QED BY <1>11, <2>4, <2>5 DEF EndWrite
<1>12. CASE PeerReset
  BY <1>12 DEF PeerReset, session, locals
<1>13. CASE RaceCrash
  BY <1>13 DEF RaceCrash, session, locals, network
<1>14. CASE UNCHANGED vars
  BY <1>14 DEF vars, session, locals, network
<1>15. QED
  BY <1>1, <1>2, <1>3, <1>4, <1>5, <1>6, <1>7, <1>8, <1>9, <1>10, <1>11, <1>12, <1>13, <1>14
     DEF Next, SendStep, HandlerStep

LEMMA Inductive == Spec => []IInv
<1>1. Init => BatchInv
  BY DEF Init, BatchInv, BuffersHeld, Handlers
<1>2. QED BY <1>1, BatchStep, TypeCorrect, SingleSender, PTL DEF Spec, IInv

\* A queued buffer always has somebody on the way to flush it.
THEOREM NoWakeupIsLost == Spec => []NoLostWakeup
<1>1. IInv => NoLostWakeup
  BY DEF IInv, BatchInv, OneSender, NoLostWakeup
<1>2. QED BY <1>1, Inductive, PTL

\* The views given to async_write never outlive their buffers.
THEOREM ViewsStayValid == Spec => []BuffersHeld
<1>1. IInv => BuffersHeld
  BY DEF IInv, BatchInv
<1>2. QED BY <1>1, Inductive, PTL

--------------------------------------------------------------------------------
(* The ordered channel.                                                    *)

\* Where the batch in flight is to be found.
BatchFacts ==
    /\ InFlight \in Seq(Buffers) /\ Len(InFlight) <= MaxQueue
    /\ \A w \in writes : InFlight = w.rest
    /\ \A t \in IoThreads : io[t] = "write" => InFlight = sendingBuffers
    /\ writes = {} /\ (\A t \in IoThreads : io[t] # "write") => InFlight = <<>>

LEMMA BatchLocated == IInv => BatchFacts
<1> SUFFICES ASSUME IInv PROVE BatchFacts
  OBVIOUS
<1> USE DEF IInv, OneSender, Running, Writing
<1>1. CASE \E t \in IoThreads : io[t] = "write"
  <2>1. InFlight = sendingBuffers /\ writes = {}
    BY <1>1 DEF InFlight
  <2>2. QED BY <1>1, <2>1 DEF BatchFacts, TypeOK
<1>2. CASE writes # {} /\ \A t \in IoThreads : io[t] # "write"
  <2>1. PICK w \in writes : writes = {w}
    BY <1>2
  <2>2. InFlight = w.rest
    BY <1>2, <2>1 DEF InFlight
  <2>3. w.rest \in Seq(Buffers) /\ w.views \in Seq(Buffers) /\ Len(w.rest) <= Len(w.views) /\ sendingBuffers = w.views
    BY DEF TypeOK, BatchInv, BuffersHeld
  <2>4. Len(w.rest) <= MaxQueue
    <3>1. Len(w.rest) \in Nat /\ Len(w.views) \in Nat /\ Len(w.views) <= MaxQueue
      BY <2>3, LenProperties DEF TypeOK
    <3>2. QED BY <2>3, <3>1
  <2>5. QED BY <1>2, <2>1, <2>2, <2>3, <2>4 DEF BatchFacts
<1>3. CASE writes = {} /\ \A t \in IoThreads : io[t] # "write"
  <2>1. InFlight = <<>>
    BY <1>3 DEF InFlight
  <2>2. QED BY <1>3, <2>1, EmptySeq DEF BatchFacts
<1>4. QED BY <1>1, <1>2, <1>3

\* Never more than two queues' worth of buffers.
THEOREM PendingIsBounded == Spec => []PendingBounded
<1>1. IInv => PendingBounded
  <2> SUFFICES ASSUME IInv PROVE PendingBounded
    OBVIOUS
  <2>1. InFlight \in Seq(Buffers) /\ Len(InFlight) <= MaxQueue
    BY BatchLocated DEF BatchFacts
  <2>2. sendQueue \in Seq(Buffers) /\ Len(sendQueue) <= MaxQueue
    BY DEF IInv, TypeOK
  <2>3. Len(Pending) = Len(InFlight) + Len(sendQueue)
    BY <2>1, <2>2, ConcatProperties DEF Pending
  <2>4. QED BY <2>1, <2>2, <2>3, LenProperties DEF PendingBounded
<1>2. QED BY <1>1, Inductive, PTL

\* How a step of the session changes what is pending: the abstract channel's
\* steps, before the crash of the process is looked at.
Accepts ==
    /\ Len(Pending) < 2 * MaxQueue
    /\ accepted' = accepted + 1
    /\ Pending' = Append(Pending, accepted + 1)
    /\ UNCHANGED <<wire, socket>>

Delivers ==
    /\ socket = "open"
    /\ Pending # <<>>
    /\ wire' = Append(wire, Head(Pending))
    /\ Pending' = Tail(Pending)
    /\ UNCHANGED <<accepted, socket>>

Breaks ==
    /\ socket' # "open"
    /\ Pending' = Pending
    /\ UNCHANGED <<accepted, wire>>

Discards ==
    /\ socket # "open"
    /\ \E n \in 0 .. Len(Pending) : Pending' = SubSeq(Pending, n + 1, Len(Pending))
    /\ UNCHANGED <<accepted, wire, socket>>

Keeps == Pending' = Pending /\ UNCHANGED <<accepted, wire, socket>>

\* Appending to the queue appends to what is pending.
LEMMA AppendToConcat ==
  ASSUME NEW S, NEW s \in Seq(S), NEW t \in Seq(S), NEW e \in S
  PROVE  s \o Append(t, e) = Append(s \o t, e)
<1>1. Append(t, e) = t \o <<e>> /\ Append(s \o t, e) = (s \o t) \o <<e>>
  BY AppendIsConcat, ConcatProperties
<1>2. <<e>> \in Seq(S)
  OBVIOUS
<1>3. QED BY <1>1, <1>2, ConcatAssociative

\* Taking the head of a batch takes the head of what is pending.
LEMMA TailOfConcat ==
  ASSUME NEW S, NEW s \in Seq(S), NEW t \in Seq(S), s # <<>>
  PROVE  /\ s \o t # <<>>
         /\ Head(s \o t) = Head(s)
         /\ Tail(s \o t) = Tail(s) \o t
<1>1. s \o t \in Seq(S) /\ Len(s) \in Nat \ {0} /\ Len(t) \in Nat /\ Len(s \o t) = Len(s) + Len(t)
  BY ConcatProperties, EmptySeq, LenProperties
<1>2. s \o t # <<>>
  BY <1>1, EmptySeq
<1>3. (s \o t)[1] = s[1]
  BY <1>1, ConcatProperties
<1>4. Head(s \o t) = Head(s)
  BY <1>1, <1>2, <1>3
<1>5. /\ Tail(s \o t) \in Seq(S) /\ Len(Tail(s \o t)) = Len(s) + Len(t) - 1
      /\ \A i \in 1 .. Len(Tail(s \o t)) : Tail(s \o t)[i] = (s \o t)[i + 1]
  BY <1>1, <1>2, HeadTailProperties
<1>6. /\ Tail(s) \in Seq(S) /\ Len(Tail(s)) = Len(s) - 1
      /\ \A i \in 1 .. Len(Tail(s)) : Tail(s)[i] = s[i + 1]
  BY HeadTailProperties
<1>7. /\ Tail(s) \o t \in Seq(S) /\ Len(Tail(s) \o t) = Len(s) - 1 + Len(t)
      /\ \A i \in 1 .. Len(s) - 1 + Len(t) :
            (Tail(s) \o t)[i] = IF i <= Len(s) - 1 THEN Tail(s)[i] ELSE t[i - (Len(s) - 1)]
  BY <1>6, ConcatProperties
<1>8. ASSUME NEW i \in 1 .. Len(s) + Len(t) - 1 PROVE Tail(s \o t)[i] = (Tail(s) \o t)[i]
  <2>1. (s \o t)[i + 1] = IF i + 1 <= Len(s) THEN s[i + 1] ELSE t[i + 1 - Len(s)]
    BY <1>1, ConcatProperties
  <2>2. i + 1 - Len(s) = i - (Len(s) - 1) /\ (i + 1 <= Len(s) <=> i <= Len(s) - 1)
    BY <1>1
  <2>3. QED BY <1>1, <1>5, <1>6, <1>7, <2>1, <2>2
<1>9. Tail(s \o t) = Tail(s) \o t
  BY <1>1, <1>5, <1>7, <1>8, SeqEqual
<1>10. QED BY <1>2, <1>4, <1>9

\* What follows a prefix of a concatenation.
LEMMA ConcatSuffix ==
  ASSUME NEW S, NEW s \in Seq(S), NEW t \in Seq(S)
  PROVE  t = SubSeq(s \o t, Len(s) + 1, Len(s \o t))
<1>1. /\ s \o t \in Seq(S) /\ Len(s) \in Nat /\ Len(t) \in Nat /\ Len(s \o t) = Len(s) + Len(t)
      /\ \A i \in 1 .. Len(s) + Len(t) : (s \o t)[i] = IF i <= Len(s) THEN s[i] ELSE t[i - Len(s)]
  BY ConcatProperties, LenProperties
<1>2. \A i \in Len(s) + 1 .. Len(s \o t) : (s \o t)[i] \in S
  BY <1>1, ElementOfSeq
<1> DEFINE u == SubSeq(s \o t, Len(s) + 1, Len(s \o t))
<1>3. /\ u \in Seq(S) /\ Len(u) = Len(t)
      /\ \A i \in 1 .. Len(t) : u[i] = (s \o t)[Len(s) + i]
  BY <1>1, <1>2, SubSeqProperties
<1>4. ASSUME NEW i \in 1 .. Len(t) PROVE u[i] = t[i]
  <2>1. Len(s) + i \in 1 .. Len(s) + Len(t) /\ ~(Len(s) + i <= Len(s)) /\ Len(s) + i - Len(s) = i
    BY <1>1
  <2>2. QED BY <1>1, <1>3, <2>1
<1>5. QED BY <1>3, <1>4, SeqEqual

\* Every step accepts a buffer, delivers one, breaks the connection, discards what is
\* pending, or keeps all of that.
LEMMA StepKinds == IInv /\ IInv' /\ [Next]_vars => Accepts \/ Delivers \/ Breaks \/ Discards \/ Keeps
<1> SUFFICES ASSUME IInv, IInv', [Next]_vars PROVE Accepts \/ Delivers \/ Breaks \/ Discards \/ Keeps
  OBVIOUS
<1>a. BatchFacts
  BY BatchLocated
<1>b. BatchFacts'
  BY BatchLocated, PTL
<1>c. /\ InFlight \in Seq(Buffers) /\ sendQueue \in Seq(Buffers)
      /\ Pending \in Seq(Buffers) /\ Len(Pending) = Len(InFlight) + Len(sendQueue)
      /\ Len(Pending) \in Nat
  <2>1. InFlight \in Seq(Buffers) /\ sendQueue \in Seq(Buffers)
    BY <1>a DEF BatchFacts, IInv, TypeOK
  <2>2. QED BY <2>1, ConcatProperties, LenProperties DEF Pending
<1>d. io \in [IoThreads -> IoSteps]
  BY DEF IInv, TypeOK
<1>1. ASSUME NEW p \in Producers, SendLocked(p) PROVE Accepts \/ Keeps
  <2>1. InFlight' = InFlight
    BY <1>1 DEF SendLocked, QueueFull, AfterPush, network, InFlight
  <2>2. CASE MaxQueue <= Len(sendQueue)
    BY <1>1, <2>1, <2>2 DEF SendLocked, QueueFull, AfterPush, network, Keeps, Pending
  <2>3. CASE ~(MaxQueue <= Len(sendQueue))
    <3>1. sendQueue' = Append(sendQueue, accepted + 1) /\ accepted' = accepted + 1
      BY <1>1, <2>3 DEF SendLocked, QueueFull, AfterPush
    <3>2. accepted + 1 \in Buffers
      BY <1>1 DEF SendLocked, QueueFull, AfterPush, IInv, TypeOK, Buffers
    <3>3. Pending' = Append(Pending, accepted + 1)
      BY <1>c, <2>1, <3>1, <3>2, AppendToConcat DEF Pending
    <3>4. Len(Pending) < 2 * MaxQueue
      <4>1. Len(InFlight) <= MaxQueue /\ Len(sendQueue) < MaxQueue
            /\ Len(InFlight) \in Nat /\ Len(sendQueue) \in Nat
        BY <1>a, <1>c, <2>3, LenProperties DEF BatchFacts
      <4>2. QED BY <1>c, <4>1
    <3>5. QED BY <1>1, <3>1, <3>3, <3>4 DEF Accepts, SendLocked, QueueFull, AfterPush, network
  <2>4. QED BY <2>2, <2>3
<1>2. ASSUME NEW p \in Producers, PostClose(p) \/ PostFlush(p) PROVE Keeps
  <2>1. UNCHANGED <<session, io, network, accepted>>
    BY <1>2 DEF PostClose, PostFlush
  <2>2. QED BY <2>1 DEF session, network, Keeps, Pending, InFlight
<1>3. ASSUME NEW t \in IoThreads, NEW h \in Handlers, Dispatch(t, h) PROVE Keeps
  <2>1. \A u \in IoThreads : io'[u] = "write" <=> io[u] = "write"
    BY <1>3, <1>d DEF Dispatch, Goto, Handlers
  <2>2. InFlight' = InFlight
    BY <1>3, <2>1 DEF Dispatch, session, network, InFlight
  <2>3. QED BY <1>3, <2>2 DEF Dispatch, session, network, Keeps, Pending
<1>4. ASSUME NEW t \in IoThreads, FlushLocked(t) PROVE Keeps
  <2>1. CASE sendQueue = <<>>
    <3>1. \A u \in IoThreads : io'[u] = "write" <=> io[u] = "write"
      BY <1>4, <1>d, <2>1 DEF FlushLocked, Goto
    <3>2. InFlight' = InFlight
      BY <1>4, <2>1, <3>1 DEF FlushLocked, network, InFlight
    <3>3. QED BY <1>4, <2>1, <3>2 DEF FlushLocked, network, Keeps, Pending
  <2>2. CASE sendQueue # <<>>
    <3>1. sendingBuffers = <<>> /\ InFlight = <<>>
      <4>1. io[t] = "flush"
        BY <1>4 DEF FlushLocked
      <4>2. Running(t)
        BY <4>1 DEF Running
      <4>3. OneSender /\ BatchInv
        BY DEF IInv
      <4>4. Queued = 0 /\ ~Writing /\ \A u \in IoThreads : Running(u) => u = t
        BY <4>2, <4>3 DEF OneSender
      <4>5. \A u \in IoThreads : io[u] \notin {"write", "sent", "failed"}
        BY <4>1, <4>4 DEF Running
      <4>6. posted["flush"] \in Nat /\ posted["sent"] \in Nat /\ posted["failed"] \in Nat
        BY DEF IInv, TypeOK, Handlers
      <4>7. ~(posted["sent"] + posted["failed"] > 0)
        BY <4>4, <4>6 DEF Queued
      <4>8. sendingBuffers = <<>>
        BY <4>3, <4>4, <4>5, <4>7 DEF BatchInv
      <4>9. InFlight = <<>>
        BY <1>a, <4>4, <4>5 DEF BatchFacts, Writing
      <4>10. QED BY <4>8, <4>9
    <3>2. sendQueue' = <<>> /\ sendingBuffers' = sendQueue /\ io'[t] = "write"
      BY <1>4, <1>d, <2>2, <3>1 DEF FlushLocked, Goto
    <3>3. InFlight' = sendQueue
      BY <1>b, <3>2 DEF BatchFacts
    <3>4. Pending' = Pending
      BY <1>c, <3>1, <3>2, <3>3, ConcatEmptySeq DEF Pending
    <3>5. QED BY <1>4, <3>4 DEF FlushLocked, network, Keeps
  <2>3. QED BY <2>1, <2>2
<1>5. ASSUME NEW t \in IoThreads, StartWrite(t) PROVE Keeps
  <2>1. InFlight = sendingBuffers
    BY <1>5, <1>a DEF StartWrite, BatchFacts
  <2>2. [by |-> t, views |-> sendingBuffers, rest |-> sendingBuffers] \in writes'
    BY <1>5 DEF StartWrite
  <2>3. InFlight' = sendingBuffers
    BY <1>b, <2>2 DEF BatchFacts
  <2>4. QED BY <1>5, <2>1, <2>3 DEF StartWrite, session, Keeps, Pending
<1>6. ASSUME NEW t \in IoThreads, CompleteSend(t) PROVE Keeps
  <2>1. writes = {} /\ \A u \in IoThreads : io[u] # "write"
    BY <1>6 DEF CompleteSend, IInv, OneSender, Running, Writing
  <2>2. writes' = {} /\ \A u \in IoThreads : io'[u] # "write"
    BY <1>6, <1>d, <2>1 DEF CompleteSend, Goto, network
  <2>3. InFlight = <<>> /\ InFlight' = <<>>
    BY <1>a, <1>b, <2>1, <2>2 DEF BatchFacts
  <2>4. QED BY <1>6, <2>3 DEF CompleteSend, network, Keeps, Pending
<1>7. ASSUME NEW t \in IoThreads, DropLocked(t) PROVE Discards
  <2>1. socket # "open" /\ writes = {} /\ \A u \in IoThreads : io[u] # "write"
    <3>1. io[t] = "drop" /\ OneSender /\ BatchInv /\ socket \in {"open", "reset", "closed"}
      BY <1>7 DEF DropLocked, IInv, TypeOK
    <3>2. socket # "open"
      BY <3>1 DEF BatchInv
    <3>3. Running(t)
      BY <3>1 DEF Running
    <3>4. ~Writing /\ \A u \in IoThreads : Running(u) => u = t
      BY <3>1, <3>3 DEF OneSender
    <3>5. QED BY <3>1, <3>2, <3>4 DEF Running, Writing
  <2>2. writes' = {} /\ \A u \in IoThreads : io'[u] # "write"
    BY <1>7, <1>d, <2>1 DEF DropLocked, Goto, network
  <2>3. InFlight' = <<>> /\ sendQueue' = <<>>
    BY <1>7, <1>b, <2>2 DEF DropLocked, BatchFacts
  <2>4. Pending' = <<>>
    BY <2>3, ConcatEmptySeq, EmptySeq DEF Pending
  <2>5. Pending' = SubSeq(Pending, Len(Pending) + 1, Len(Pending))
    BY <1>c, <2>4, SubSeqEmpty
  <2>6. QED BY <1>7, <1>c, <2>1, <2>5 DEF DropLocked, network, Discards
<1>8. ASSUME NEW t \in IoThreads, CloseSocket(t) PROVE Breaks
  <2>1. \A u \in IoThreads : io'[u] = "write" <=> io[u] = "write"
    BY <1>8, <1>d DEF CloseSocket, Goto
  <2>2. InFlight' = InFlight
    BY <1>8, <2>1 DEF CloseSocket, session, InFlight
  <2>3. QED BY <1>8, <2>2 DEF CloseSocket, session, Breaks, Pending
<1>9. ASSUME NEW w \in writes, Transmit(w) PROVE Delivers
  <2>1. InFlight = w.rest /\ w.rest # <<>>
    BY <1>9, <1>a DEF Transmit, BatchFacts
  <2>2. [w EXCEPT !.rest = Tail(@)] \in writes' /\ [w EXCEPT !.rest = Tail(@)].rest = Tail(w.rest)
    BY <1>9 DEF Transmit, IInv, TypeOK
  <2>3. InFlight' = Tail(w.rest)
    BY <1>b, <2>2 DEF BatchFacts
  <2>4. /\ Pending # <<>> /\ Head(Pending) = Head(w.rest)
        /\ Tail(Pending) = Tail(w.rest) \o sendQueue
    BY <1>c, <2>1, TailOfConcat DEF Pending
  <2>5. Pending' = Tail(Pending)
    BY <1>9, <2>3, <2>4 DEF Pending, Transmit, session
  <2>6. QED BY <1>9, <2>4, <2>5 DEF Transmit, Delivers
<1>10. ASSUME NEW w \in writes, EndWrite(w) PROVE Keeps \/ Discards
  <2>1. InFlight = w.rest
    BY <1>a DEF BatchFacts
  <2>2. writes' = {} /\ \A t \in IoThreads : io'[t] # "write"
    BY <1>10, <1>d DEF EndWrite, locals, IInv, OneSender, Running, Writing
  <2>3. InFlight' = <<>>
    BY <1>b, <2>2 DEF BatchFacts
  <2>4. Pending' = sendQueue
    BY <1>10, <1>c, <2>3, ConcatEmptySeq DEF Pending, EndWrite, session
  <2>5. CASE w.rest = <<>>
    BY <1>10, <1>c, <2>1, <2>4, <2>5, ConcatEmptySeq DEF Pending, EndWrite, Keeps
  <2>6. CASE w.rest # <<>>
    <3>1. socket # "open"
      BY <1>10, <2>6 DEF EndWrite
    <3>2. sendQueue = SubSeq(Pending, Len(InFlight) + 1, Len(Pending))
      BY <1>c, ConcatSuffix DEF Pending
    <3>3. Len(InFlight) \in 0 .. Len(Pending)
      BY <1>c, LenProperties
    <3>4. QED BY <1>10, <2>4, <3>1, <3>2, <3>3 DEF EndWrite, Discards
  <2>7. QED BY <2>5, <2>6
<1>11. CASE PeerReset
  BY <1>11 DEF PeerReset, session, locals, Breaks, Pending, InFlight
<1>12. CASE RaceCrash
  BY <1>12 DEF RaceCrash, session, locals, network, Keeps, Pending, InFlight
<1>13. CASE UNCHANGED vars
  BY <1>13 DEF vars, session, locals, network, Keeps, Pending, InFlight
<1>14. QED
  BY <1>1, <1>2, <1>3, <1>4, <1>5, <1>6, <1>7, <1>8, <1>9, <1>10, <1>11, <1>12, <1>13
     DEF Next, SendStep, HandlerStep

\* Nothing accepted is lost while the connection is open, and the connection
\* takes buffers in the order of acceptance.
OrderInv == DeliveredInOrder /\ NothingLost

LEMMA OrderStep == IInv /\ IInv' /\ OrderInv /\ [Next]_vars => OrderInv'
<1> SUFFICES ASSUME IInv, IInv', OrderInv, [Next]_vars PROVE OrderInv'
  OBVIOUS
<1>0. /\ Pending \in Seq(Buffers) /\ Len(Pending) \in Nat
      /\ wire \in Seq(Buffers) /\ Len(wire) \in Nat
      /\ accepted \in Nat
  <2>1. InFlight \in Seq(Buffers) /\ sendQueue \in Seq(Buffers)
    BY BatchLocated DEF BatchFacts, IInv, TypeOK
  <2>2. QED BY <2>1, ConcatProperties, LenProperties DEF Pending, IInv, TypeOK
<1>1. CASE Accepts
  <2>1. accepted + 1 \in Buffers /\ accepted' = accepted + 1
    <3>1. accepted' = accepted + 1
      BY <1>1 DEF Accepts
    <3>2. accepted + 1 <= MaxCalls
      BY <3>1 DEF IInv, TypeOK
    <3>3. QED BY <1>0, <3>1, <3>2 DEF Buffers
  <2>2. /\ Len(Pending') = Len(Pending) + 1
        /\ \A i \in 1 .. Len(Pending) : Pending'[i] = Pending[i]
        /\ Pending'[Len(Pending) + 1] = accepted + 1
    BY <1>0, <1>1, <2>1, AppendProperties DEF Accepts
  <2>3. DeliveredInOrder'
    BY <1>1 DEF Accepts, OrderInv, DeliveredInOrder
  <2>4. NothingLost'
    <3> SUFFICES ASSUME socket' = "open" PROVE NothingLost'
      BY DEF NothingLost
    <3>1. accepted = Len(wire) + Len(Pending) /\ \A i \in 1 .. Len(Pending) : Pending[i] = Len(wire) + i
      BY <1>1 DEF Accepts, OrderInv, NothingLost
    <3>2. ASSUME NEW i \in 1 .. Len(Pending) + 1 PROVE Pending'[i] = Len(wire) + i
      <4>1. CASE i \in 1 .. Len(Pending)
        BY <2>2, <3>1, <4>1
      <4>2. CASE i = Len(Pending) + 1
        BY <1>0, <2>2, <3>1, <4>2
      <4>3. QED BY <1>0, <4>1, <4>2
    <3>3. QED BY <1>0, <1>1, <2>2, <3>1, <3>2 DEF Accepts, NothingLost
  <2>5. QED BY <2>3, <2>4 DEF OrderInv
<1>2. CASE Delivers
  <2>1. /\ Head(Pending) \in Buffers /\ Pending' \in Seq(Buffers)
        /\ Len(Pending') = Len(Pending) - 1
        /\ \A i \in 1 .. Len(Pending') : Pending'[i] = Pending[i + 1]
    BY <1>0, <1>2, HeadTailProperties DEF Delivers
  <2>2. /\ Len(wire') = Len(wire) + 1
        /\ \A i \in 1 .. Len(wire) : wire'[i] = wire[i]
        /\ wire'[Len(wire) + 1] = Head(Pending)
    BY <1>0, <1>2, <2>1, AppendProperties DEF Delivers
  <2>3. accepted = Len(wire) + Len(Pending) /\ \A i \in 1 .. Len(Pending) : Pending[i] = Len(wire) + i
    BY <1>2 DEF Delivers, OrderInv, NothingLost
  <2>4. Head(Pending) = Len(wire) + 1
    <3>1. Len(Pending) >= 1 /\ Head(Pending) = Pending[1]
      BY <1>0, <1>2, EmptySeq DEF Delivers
    <3>2. QED BY <1>0, <2>3, <3>1
  <2>5. DeliveredInOrder'
    BY <1>0, <2>2, <2>4 DEF OrderInv, DeliveredInOrder
  <2>6. accepted' = Len(wire') + Len(Pending')
    BY <1>0, <1>2, <2>1, <2>2, <2>3 DEF Delivers
  <2>7. \A i \in 1 .. Len(Pending') : Pending'[i] = Len(wire') + i
    BY <1>0, <2>1, <2>2, <2>3
  <2>8. QED BY <2>5, <2>6, <2>7 DEF OrderInv, NothingLost
<1>3. CASE Breaks
  BY <1>3 DEF Breaks, OrderInv, DeliveredInOrder, NothingLost
<1>4. CASE Discards
  BY <1>4 DEF Discards, OrderInv, DeliveredInOrder, NothingLost
<1>5. CASE Keeps
  BY <1>5 DEF Keeps, OrderInv, DeliveredInOrder, NothingLost
<1>6. QED BY <1>1, <1>2, <1>3, <1>4, <1>5, StepKinds

LEMMA OrderIsInvariant == Spec => []OrderInv
<1>1. Init => OrderInv
  <2> SUFFICES ASSUME Init PROVE OrderInv
    OBVIOUS
  <2>1. InFlight = <<>> /\ Pending = <<>> /\ wire = <<>> /\ accepted = 0
    BY EmptySeq, ConcatEmptySeq DEF Init, InFlight, Pending
  <2>2. Len(wire) = 0 /\ Len(Pending) = 0
    BY <2>1, EmptySeq
  <2>3. QED BY <2>1, <2>2 DEF OrderInv, DeliveredInOrder, NothingLost
<1>2. QED BY <1>1, Inductive, OrderStep, PTL DEF Spec

\* The connection has taken a prefix of what Send accepted.
THEOREM DeliveryIsOrdered == Spec => []DeliveredInOrder
<1>1. OrderInv => DeliveredInOrder
  BY DEF OrderInv
<1>2. QED BY <1>1, OrderIsInvariant, PTL

\* An open connection loses nothing.
THEOREM OpenConnectionLosesNothing == Spec => []NothingLost
<1>1. OrderInv => NothingLost
  BY DEF OrderInv
<1>2. QED BY <1>1, OrderIsInvariant, PTL

\* Every step of the session is a step of the ordered channel, or none.
LEMMA ChannelStep == IInv /\ IInv' /\ [Next]_vars => [Channel!ChanNext]_(Channel!chanVars)
<1> SUFFICES ASSUME IInv, IInv', [Next]_vars PROVE [Channel!ChanNext]_(Channel!chanVars)
  OBVIOUS
<1> USE DEF Channel!ChanNext, Channel!chanVars
<1>0. Len(Pending) \in Nat /\ Pending \in Seq(Buffers)
  <2>1. InFlight \in Seq(Buffers) /\ sendQueue \in Seq(Buffers)
    BY BatchLocated DEF BatchFacts, IInv, TypeOK
  <2>2. QED BY <2>1, ConcatProperties, LenProperties DEF Pending
<1>1. CASE alive /\ alive'
  <2>1. CASE Accepts
    BY <1>1, <2>1 DEF Accepts, Channel!Accept
  <2>2. CASE Delivers
    BY <1>1, <2>2 DEF Delivers, Channel!Deliver
  <2>3. CASE Breaks
    <3>1. Pending = SubSeq(Pending, 0 + 1, Len(Pending))
      BY <1>0, SubSeqFull
    <3>2. CASE socket = "open"
      BY <1>0, <1>1, <2>3, <3>1, <3>2 DEF Breaks, Channel!Break, Channel!Suffix
    <3>3. CASE socket # "open"
      BY <1>1, <2>3, <3>3 DEF Breaks
    <3>4. QED BY <3>2, <3>3
  <2>4. CASE Discards
    <3>1. PICK n \in 0 .. Len(Pending) : Pending' = SubSeq(Pending, n + 1, Len(Pending))
      BY <2>4 DEF Discards
    <3>2. CASE n = 0
      BY <1>0, <1>1, <2>4, <3>1, <3>2, SubSeqFull DEF Discards
    <3>3. CASE n # 0
      BY <1>0, <1>1, <2>4, <3>1, <3>3 DEF Discards, Channel!Discard, Channel!Suffix
    <3>4. QED BY <3>2, <3>3
  <2>5. CASE Keeps
    BY <1>1, <2>5 DEF Keeps
  <2>6. QED BY <2>1, <2>2, <2>3, <2>4, <2>5, StepKinds
<1>2. CASE alive /\ ~alive'
  <2>1. RaceCrash
    BY <1>2 DEF Next, vars, SendStep, HandlerStep, SendLocked, QueueFull, AfterPush, PostClose, PostFlush, Dispatch,
       FlushLocked, StartWrite, CompleteSend, DropLocked, CloseSocket, Transmit, EndWrite, PeerReset
  <2>2. UNCHANGED <<accepted, wire, socket>>
    BY <2>1 DEF RaceCrash, network
  <2>3. <<>> = SubSeq(Pending, Len(Pending) + 1, Len(Pending))
    BY <1>0, SubSeqEmpty
  <2>4. CASE socket = "open"
    BY <1>0, <1>2, <2>2, <2>3, <2>4 DEF Channel!Break, Channel!Suffix
  <2>5. CASE socket # "open" /\ Pending # <<>>
    <3>1. Len(Pending) \in 1 .. Len(Pending)
      BY <1>0, <2>5, EmptySeq
    <3>2. QED BY <1>2, <2>2, <2>3, <2>5, <3>1 DEF Channel!Discard, Channel!Suffix
  <2>6. CASE socket # "open" /\ Pending = <<>>
    BY <1>2, <2>2, <2>6
  <2>7. QED BY <2>4, <2>5, <2>6
<1>3. CASE ~alive
  BY <1>3 DEF Next, vars, session, locals, network, Pending, InFlight
<1>4. QED BY <1>1, <1>2, <1>3 DEF IInv, TypeOK

\* BoostSession::Send implements the ordered channel.
THEOREM SessionIsAChannel == Spec => ImplementsChannel
<1>1. Init => Channel!ChanInit
  BY ConcatEmptySeq, EmptySeq DEF Init, Channel!ChanInit, Pending, InFlight
<1>2. QED BY <1>1, Inductive, ChannelStep, PTL DEF Spec, ImplementsChannel, Channel!ChanSpec

--------------------------------------------------------------------------------
(* What progress rests on.                                                 *)

\* How far the send token is from starting a write, or from dropping the queue.
Distance ==
    IF \E t \in IoThreads : io[t] \in {"write", "drop"} THEN 1
    ELSE IF \E t \in IoThreads : io[t] \in {"flush", "failed"} THEN 2
    ELSE IF posted["flush"] + posted["failed"] > 0 \/ \E t \in IoThreads : io[t] = "sent" THEN 3
    ELSE 4

\* Whoever has the token lets go of it, or goes on with it.
TokenMoves ==
    \/ \E p \in Producers : Posting(p) /\ ~Posting(p)'
    \/ \E t \in IoThreads : Running(t) /\ io'[t] # io[t]
    \/ \E h \in Handlers \ {"close"} : posted'[h] < posted[h]

\* Why a queued buffer is served: while one waits and no write is stalled by the
\* peer, every move of the token brings it nearer to the write that takes the queue,
\* or to the error that drops it, and nothing else touches it: no Send, close or
\* reset that comes in between sends it back (BoostSession.cpp:76-158).
TokenAdvances ==
    [][sendQueue # <<>> /\ ~Writing =>
          \/ sendQueue' = <<>>
          \/ Writing'
          \/ IF TokenMoves THEN Distance' < Distance ELSE Distance' = Distance]_vars

LEMMA TokenMove ==
    IInv /\ [Next]_vars /\ sendQueue # <<>> /\ ~Writing =>
          \/ sendQueue' = <<>>
          \/ Writing'
          \/ IF TokenMoves THEN Distance' < Distance ELSE Distance' = Distance
<1> DEFINE Goal == \/ sendQueue' = <<>>
                   \/ Writing'
                   \/ IF TokenMoves THEN Distance' < Distance ELSE Distance' = Distance
<1> SUFFICES ASSUME IInv, [Next]_vars, sendQueue # <<>>, ~Writing PROVE Goal
  OBVIOUS
<1>0. /\ isSending
      /\ producer \in [Producers -> {"idle", "post_close", "post_flush"}]
      /\ io \in [IoThreads -> IoSteps]
      /\ posted \in [{"flush", "close", "sent", "failed"} -> Nat]
  BY DEF IInv, TypeOK, Handlers, BatchInv
<1>00. OneSender /\ TokenHeld
  BY <1>0 DEF IInv, OneSender
<1> USE DEF OneSender, TokenHeld, Posting, Running, Queued, Distance, TokenMoves, Handlers, Goto, Post
\* A step that leaves the handlers and their threads alone.
<1>a. ASSUME UNCHANGED <<io, posted>>, \A p \in Producers : Posting(p) => Posting(p)' PROVE Goal
  BY <1>0, <1>a
<1>1. ASSUME NEW p \in Producers, SendLocked(p) PROVE Goal
  <2>1. UNCHANGED <<io, posted>> /\ producer[p] = "idle"
    BY <1>1 DEF SendLocked
  <2>2. \A q \in Producers \ {p} : producer'[q] = producer[q]
    BY <1>0, <1>1 DEF SendLocked
  <2>3. QED BY <2>1, <2>2, <1>a
<1>2. ASSUME NEW p \in Producers, PostClose(p) PROVE Goal
  BY <1>0, <1>00, <1>2 DEF PostClose, session, network
<1>3. ASSUME NEW p \in Producers, PostFlush(p) PROVE Goal
  BY <1>0, <1>00, <1>3 DEF PostFlush, session, network
<1>4. ASSUME NEW t \in IoThreads, NEW h \in Handlers, Dispatch(t, h) PROVE Goal
  <2>1. /\ io[t] = "idle" /\ posted[h] > 0
        /\ posted' = [posted EXCEPT ![h] = @ - 1] /\ io' = [io EXCEPT ![t] = h]
        /\ UNCHANGED producer
    BY <1>4 DEF Dispatch
  <2>2. CASE h = "close"
    <3>1. /\ \A u \in IoThreads \ {t} : io'[u] = io[u]
          /\ io'[t] = "close" /\ ~Running(t)
      BY <1>0, <2>1, <2>2
    <3>2. posted'["flush"] = posted["flush"] /\ posted'["sent"] = posted["sent"] /\ posted'["failed"] = posted["failed"]
      BY <1>0, <2>1, <2>2
    <3>3. Distance' = Distance
      BY <2>1, <3>1, <3>2
    <3>4. ~TokenMoves
      BY <1>0, <2>1, <3>1, <3>2
    <3>5. QED BY <3>3, <3>4
  <2>3. CASE h = "flush"
    BY <1>0, <1>00, <2>1, <2>3
  <2>4. CASE h = "failed"
    BY <1>0, <1>00, <2>1, <2>4
  <2>5. CASE h = "sent"
    BY <1>0, <1>00, <2>1, <2>5
  <2>6. QED BY <2>2, <2>3, <2>4, <2>5
<1>5. ASSUME NEW t \in IoThreads, FlushLocked(t) PROVE Goal
  <2>1. /\ io[t] = "flush" /\ io' = [io EXCEPT ![t] = "write"]
        /\ UNCHANGED <<producer, posted>>
    BY <1>5 DEF FlushLocked
  <2>2. \A u \in IoThreads : io[u] \notin {"write", "drop"}
    BY <1>00, <2>1
  <2>3. Distance = 2 /\ Distance' = 1
    BY <1>0, <2>1, <2>2
  <2>4. QED BY <2>1, <2>3
<1>6. ASSUME NEW t \in IoThreads, StartWrite(t) PROVE Goal
  BY <1>6 DEF StartWrite, Writing
<1>7. ASSUME NEW t \in IoThreads, CompleteSend(t) PROVE Goal
  <2>1. /\ io[t] \in {"sent", "failed"}
        /\ io' = [io EXCEPT ![t] = IF io[t] = "sent" THEN "flush" ELSE "drop"]
        /\ UNCHANGED <<producer, posted>>
    BY <1>7 DEF CompleteSend
  <2>2. /\ posted["flush"] = 0 /\ posted["failed"] = 0
        /\ \A u \in IoThreads \ {t} : ~Running(u) /\ io'[u] = io[u]
    BY <1>0, <1>00, <2>1
  <2>3. CASE io[t] = "sent"
    BY <1>0, <2>1, <2>2, <2>3
  <2>4. CASE io[t] = "failed"
    BY <1>0, <2>1, <2>2, <2>4
  <2>5. QED BY <2>1, <2>3, <2>4
<1>8. ASSUME NEW t \in IoThreads, DropLocked(t) PROVE Goal
  BY <1>8 DEF DropLocked
<1>9. ASSUME NEW t \in IoThreads, CloseSocket(t) PROVE Goal
  BY <1>0, <1>00, <1>9 DEF CloseSocket, session
<1>10. ASSUME NEW w \in writes PROVE FALSE
  BY <1>10 DEF Writing
<1>11. CASE PeerReset
  BY <1>0, <1>00, <1>11 DEF PeerReset, session, locals
<1>12. CASE RaceCrash
  BY <1>0, <1>00, <1>12 DEF RaceCrash, session, locals, network
<1>13. CASE UNCHANGED vars
  BY <1>0, <1>00, <1>13 DEF vars, session, locals, network
<1>14. QED
  BY <1>1, <1>2, <1>3, <1>4, <1>5, <1>6, <1>7, <1>8, <1>9, <1>10, <1>11, <1>12, <1>13
     DEF Next, SendStep, HandlerStep

\* The send token only goes forward while a buffer waits for it.
THEOREM TokenOnlyAdvances == Spec => TokenAdvances
BY Inductive, TokenMove, PTL DEF Spec, TokenAdvances

\* Somebody is on the way to close the socket.
CloseDue ==
    \/ \E p \in Producers : producer[p] = "post_close"
    \/ posted["close"] > 0
    \/ \E t \in IoThreads : io[t] = "close"

\* Why an overflow closes the connection: the close that a refused Send owes, or
\* that follows an error, stays due over everything else that happens, until the
\* socket is closed (BoostSession.cpp:96-103, 145-157).
CloseStaysDue == [][CloseDue => CloseDue' \/ socket' = "closed"]_vars

THEOREM CloseIsNotForgotten == Spec => CloseStaysDue
<1>1. TypeOK /\ [Next]_vars => [CloseDue => CloseDue' \/ socket' = "closed"]_vars
  <2> SUFFICES ASSUME TypeOK, Next, CloseDue PROVE CloseDue' \/ socket' = "closed"
    OBVIOUS
  <2>0. /\ producer \in [Producers -> {"idle", "post_close", "post_flush"}]
        /\ io \in [IoThreads -> IoSteps]
        /\ posted \in [{"flush", "close", "sent", "failed"} -> Nat]
    BY DEF TypeOK, Handlers
  <2> USE DEF CloseDue, Goto, Post
  <2>1. ASSUME NEW p \in Producers, SendStep(p) PROVE CloseDue'
    BY <2>0, <2>1 DEF SendStep, SendLocked, PostClose, PostFlush
  <2>2. ASSUME NEW t \in IoThreads, NEW h \in Handlers, Dispatch(t, h) PROVE CloseDue'
    BY <2>0, <2>2 DEF Dispatch, Handlers
  <2>3. ASSUME NEW t \in IoThreads, HandlerStep(t) PROVE CloseDue' \/ socket' = "closed"
    BY <2>0, <2>3 DEF HandlerStep, FlushLocked, StartWrite, CompleteSend, DropLocked, CloseSocket
  <2>4. ASSUME NEW w \in writes, Transmit(w) \/ EndWrite(w) PROVE CloseDue'
    BY <2>0, <2>4 DEF Transmit, EndWrite, locals
  <2>5. CASE PeerReset \/ RaceCrash
    BY <2>5 DEF PeerReset, RaceCrash, locals
  <2>6. QED BY <2>1, <2>2, <2>3, <2>4, <2>5 DEF Next
<1>2. QED BY <1>1, TypeCorrect, PTL DEF Spec, CloseStaysDue

\* A Send was refused: it was called and no buffer was accepted for it.
Refused == accepted < calls

\* No refusal is forgotten: the connection is closed, or somebody is on the way to
\* close it, however full queues, errors and resets meet (BoostSession.cpp:84-103,
\* 145-157).  A client that missed a message does not go on with an open connection.
RefusalCloses == Refused => CloseDue \/ socket = "closed"

\* Only a Send that leaves a close behind makes a refusal.
LEMMA RefusalStep == TypeOK /\ Next /\ Refused' => Refused \/ CloseDue'
<1> SUFFICES ASSUME TypeOK, Next, Refused', ~Refused PROVE CloseDue'
  OBVIOUS
<1>0. producer \in [Producers -> {"idle", "post_close", "post_flush"}] /\ accepted \in Nat /\ calls \in Nat
  BY DEF TypeOK
<1>1. ~(UNCHANGED <<accepted, calls>>)
  BY DEF Refused
<1>2. PICK p \in Producers : SendLocked(p)
  BY <1>1 DEF Next, SendStep, PostClose, PostFlush, HandlerStep, FlushLocked, StartWrite, CompleteSend,
     DropLocked, CloseSocket, Dispatch, Transmit, EndWrite, PeerReset, RaceCrash
<1>3. producer' = [producer EXCEPT ![p] = "post_close"]
  <2>1. calls' = calls + 1
    BY <1>2 DEF SendLocked
  <2>2. accepted' # accepted + 1
    BY <1>0, <2>1 DEF Refused
  <2>3. QED BY <1>2, <2>2 DEF SendLocked
<1>4. producer'[p] = "post_close"
  BY <1>0, <1>3
<1>5. QED BY <1>4 DEF CloseDue

LEMMA ClosedStays == Next /\ socket = "closed" => socket' = "closed"
<1> SUFFICES ASSUME Next, socket = "closed" PROVE socket' = "closed"
  OBVIOUS
<1>1. ASSUME NEW p \in Producers, SendStep(p) PROVE socket' = "closed"
  BY <1>1 DEF SendStep, SendLocked, PostClose, PostFlush, network
<1>2. ASSUME NEW t \in IoThreads, HandlerStep(t) PROVE socket' = "closed"
  BY <1>2 DEF HandlerStep, FlushLocked, StartWrite, CompleteSend, DropLocked, CloseSocket, network
<1>3. ASSUME NEW t \in IoThreads, NEW h \in Handlers, Dispatch(t, h) PROVE socket' = "closed"
  BY <1>3 DEF Dispatch, network
<1>4. ASSUME NEW w \in writes, Transmit(w) \/ EndWrite(w) PROVE socket' = "closed"
  BY <1>4 DEF Transmit, EndWrite
<1>5. CASE PeerReset \/ RaceCrash
  BY <1>5 DEF PeerReset, RaceCrash, network
<1>6. QED BY <1>1, <1>2, <1>3, <1>4, <1>5 DEF Next

THEOREM RefusedSendCloses == Spec => []RefusalCloses
<1>1. Init => RefusalCloses
  BY DEF Init, RefusalCloses, Refused
<1>2. /\ TypeOK /\ RefusalCloses /\ [Next]_vars
      /\ [CloseDue => CloseDue' \/ socket' = "closed"]_vars
      => RefusalCloses'
  <2> SUFFICES ASSUME TypeOK, RefusalCloses, [Next]_vars, Refused',
                      [CloseDue => CloseDue' \/ socket' = "closed"]_vars
               PROVE  CloseDue' \/ socket' = "closed"
    BY DEF RefusalCloses
  <2>1. CASE UNCHANGED vars
    <3>1. UNCHANGED <<producer, posted, io, socket, accepted, calls>>
      BY <2>1 DEF vars, locals, network
    <3>2. Refused
      BY <3>1 DEF Refused
    <3>3. CASE socket = "closed"
      BY <3>1, <3>3
    <3>4. CASE CloseDue
      BY <3>1, <3>4 DEF CloseDue
    <3>5. QED BY <3>2, <3>3, <3>4 DEF RefusalCloses
  <2>2. CASE Next /\ ~(UNCHANGED vars)
    <3>1. CloseDue => CloseDue' \/ socket' = "closed"
      BY <2>2
    <3>2. CASE Refused
      BY <2>2, <3>1, <3>2, ClosedStays DEF RefusalCloses
    <3>3. CASE CloseDue'
      BY <3>3
    <3>4. QED BY <2>2, <3>2, <3>3, RefusalStep
  <2>3. QED BY <2>1, <2>2
<1>3. QED BY <1>1, <1>2, TypeCorrect, CloseIsNotForgotten, PTL DEF Spec, CloseStaysDue
================================================================================
