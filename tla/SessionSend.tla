------------------------------ MODULE SessionSend ------------------------------
(***************************************************************************)
(* The send path of one BoostSession: Send, FlushSendQueue, CompleteSend   *)
(* and CloseSocket, called by producer threads and run as handlers by the  *)
(* io_context's threads.                                                   *)
(*                                                                         *)
(* Every handler is cut where it takes or leaves m_sendMutex, and where it *)
(* touches m_socket: between two cuts other threads may run.  m_socket is  *)
(* built on the bare io_context, not on a strand, so any idle I/O thread   *)
(* may start any posted handler of the session.                            *)
(*                                                                         *)
(* A buffer is named by its acceptance number, the order in which pushes   *)
(* happened under m_sendMutex.                                             *)
(***************************************************************************)
EXTENDS Naturals, Sequences

CONSTANTS Producers,   \* threads that call Send
          IoThreads,   \* threads inside io_context::run
          MaxQueue,    \* kMaxSendQueueSize
          MaxCalls     \* bound of the model: Send is called this often

ASSUME SessionAssumption ==
    /\ MaxQueue \in Nat \ {0}
    /\ MaxCalls \in Nat

VARIABLES sendQueue,       \* m_sendQueue, guarded by m_sendMutex
          isSending,       \* m_isSending, guarded by m_sendMutex
          sendingBuffers,  \* m_sendingBuffers, guarded by the send token
          producer,        \* where each producer is in Send
          io,              \* where each I/O thread is, or the handler it runs
          posted,          \* handlers in the io_context, by kind
          writes,          \* async_writes in progress
          socket,          \* what m_socket is good for
          wire,            \* what the connection has taken, in order
          accepted,        \* Sends that pushed a buffer
          calls,           \* Sends made
          alive            \* the process still runs

locals  == <<producer, io>>
session == <<sendQueue, isSending, sendingBuffers>>
network == <<writes, socket, wire>>
vars    == <<session, locals, network, posted, accepted, calls, alive>>

\* The handlers the session posts, or asio posts for it.
Handlers == {"flush", "close", "sent", "failed"}

\* Steps of a running handler: a handler's own name is its first step.
IoSteps == {"idle", "write", "drop"} \cup Handlers

\* Steps that call into m_socket.
SocketSteps == {"write", "close"}

Init ==
    /\ sendQueue = <<>> /\ isSending = FALSE /\ sendingBuffers = <<>>
    /\ producer = [p \in Producers |-> "idle"]
    /\ io = [t \in IoThreads |-> "idle"]
    /\ posted = [h \in Handlers |-> 0]
    /\ writes = {} /\ socket = "open" /\ wire = <<>>
    /\ accepted = 0 /\ calls = 0 /\ alive = TRUE

Post(h) == posted' = [posted EXCEPT ![h] = @ + 1]

Goto(t, step) == io' = [io EXCEPT ![t] = step]

--------------------------------------------------------------------------------
(* Send, on a producer.                                                    *)

\* Mutant: one push too many.
QueueFullLate == MaxQueue < Len(sendQueue)

QueueFull == MaxQueue <= Len(sendQueue)

\* Mutant: every Send posts a flush.
AfterPushAlways == "post_flush"

\* The duty to flush falls to the Send that finds nobody sending.
AfterPush == IF isSending THEN "idle" ELSE "post_flush"

\* The locked block: refuse when the queue is full, otherwise push.
SendLocked(p) ==
    /\ producer[p] = "idle"
    /\ calls < MaxCalls
    /\ calls' = calls + 1
    /\ \/ /\ QueueFull
          /\ producer' = [producer EXCEPT ![p] = "post_close"]
          /\ UNCHANGED <<sendQueue, isSending, accepted>>
       \/ /\ ~QueueFull
          /\ accepted' = accepted + 1
          /\ sendQueue' = Append(sendQueue, accepted + 1)
          /\ producer' = [producer EXCEPT ![p] = AfterPush]
          /\ isSending' = TRUE
    /\ UNCHANGED <<sendingBuffers, io, posted, network, alive>>

\* Mutant: the overflow is refused and nothing else.
PostCloseForgotten(p) ==
    /\ producer[p] = "post_close"
    /\ producer' = [producer EXCEPT ![p] = "idle"]
    /\ UNCHANGED <<session, io, posted, network, accepted, calls, alive>>

\* After the unlock: hand the close or the flush over to the io_context.
PostClose(p) ==
    /\ producer[p] = "post_close"
    /\ producer' = [producer EXCEPT ![p] = "idle"]
    /\ Post("close")
    /\ UNCHANGED <<session, io, network, accepted, calls, alive>>

PostFlush(p) ==
    /\ producer[p] = "post_flush"
    /\ producer' = [producer EXCEPT ![p] = "idle"]
    /\ Post("flush")
    /\ UNCHANGED <<session, io, network, accepted, calls, alive>>

--------------------------------------------------------------------------------
(* Handlers, on the I/O threads.                                           *)

Dispatch(t, h) ==
    /\ io[t] = "idle"
    /\ posted[h] > 0
    /\ posted' = [posted EXCEPT ![h] = @ - 1]
    /\ Goto(t, h)
    /\ UNCHANGED <<session, producer, network, accepted, calls, alive>>

\* FlushSendQueue, the locked block.
FlushLocked(t) ==
    /\ io[t] = "flush"
    /\ \/ /\ sendQueue = <<>>
          /\ isSending' = FALSE
          /\ Goto(t, "idle")
          /\ UNCHANGED <<sendQueue, sendingBuffers>>
       \/ /\ sendQueue # <<>>
          /\ sendQueue' = sendingBuffers
          /\ sendingBuffers' = sendQueue
          /\ Goto(t, "write")
          /\ UNCHANGED isSending
    /\ UNCHANGED <<producer, posted, network, accepted, calls, alive>>

\* Mutant: only the first buffer of the batch gets into the write.
StartWriteFirst(t) ==
    /\ io[t] = "write"
    /\ writes' = writes \cup {[by |-> t, views |-> sendingBuffers, rest |-> <<Head(sendingBuffers)>>]}
    /\ Goto(t, "idle")
    /\ UNCHANGED <<session, producer, posted, socket, wire, accepted, calls, alive>>

\* FlushSendQueue, async_write over views of the buffers just swapped in.
StartWrite(t) ==
    /\ io[t] = "write"
    /\ writes' = writes \cup {[by |-> t, views |-> sendingBuffers, rest |-> sendingBuffers]}
    /\ Goto(t, "idle")
    /\ UNCHANGED <<session, producer, posted, socket, wire, accepted, calls, alive>>

\* Mutant: the sent buffers stay in m_sendingBuffers, and the next swap queues them.
CompleteSendKeeps(t) ==
    /\ io[t] \in {"sent", "failed"}
    /\ Goto(t, IF io[t] = "sent" THEN "flush" ELSE "drop")
    /\ UNCHANGED <<session, producer, posted, network, accepted, calls, alive>>

\* Mutant: no second look at the queue after a write.
CompleteSendStops(t) ==
    /\ io[t] \in {"sent", "failed"}
    /\ sendingBuffers' = <<>>
    /\ Goto(t, IF io[t] = "sent" THEN "idle" ELSE "drop")
    /\ UNCHANGED <<sendQueue, isSending, producer, posted, network, accepted, calls, alive>>

\* CompleteSend, up to the lock.
CompleteSend(t) ==
    /\ io[t] \in {"sent", "failed"}
    /\ sendingBuffers' = <<>>
    /\ Goto(t, IF io[t] = "sent" THEN "flush" ELSE "drop")
    /\ UNCHANGED <<sendQueue, isSending, producer, posted, network, accepted, calls, alive>>

\* Mutants: the queue, or the flag, survives the error.
DropKeepsQueue(t) ==
    /\ io[t] = "drop"
    /\ isSending' = FALSE
    /\ Goto(t, "close")
    /\ UNCHANGED <<sendQueue, sendingBuffers, producer, posted, network, accepted, calls, alive>>

DropKeepsFlag(t) ==
    /\ io[t] = "drop"
    /\ sendQueue' = <<>>
    /\ Goto(t, "close")
    /\ UNCHANGED <<isSending, sendingBuffers, producer, posted, network, accepted, calls, alive>>

\* CompleteSend, the locked block of the error path; CloseSocket follows it.
DropLocked(t) ==
    /\ io[t] = "drop"
    /\ sendQueue' = <<>>
    /\ isSending' = FALSE
    /\ Goto(t, "close")
    /\ UNCHANGED <<sendingBuffers, producer, posted, network, accepted, calls, alive>>

CloseSocket(t) ==
    /\ io[t] = "close"
    /\ socket' = "closed"
    /\ Goto(t, "idle")
    /\ UNCHANGED <<session, producer, posted, writes, wire, accepted, calls, alive>>

--------------------------------------------------------------------------------
(* asio, the connection and the process, as src/ uses them.                *)

\* The connection takes the next buffer of a write.
Transmit(w) ==
    /\ socket = "open" /\ w.rest # <<>>
    /\ wire' = Append(wire, Head(w.rest))
    /\ writes' = (writes \ {w}) \cup {[w EXCEPT !.rest = Tail(@)]}
    /\ UNCHANGED <<session, locals, posted, socket, accepted, calls, alive>>

\* A write ends: with success when all is taken, with an error when the peer
\* reset the connection or the socket was closed under it (or before it).
EndWrite(w) ==
    /\ \/ w.rest = <<>> /\ Post("sent")
       \/ w.rest # <<>> /\ socket # "open" /\ Post("failed")
    /\ writes' = writes \ {w}
    /\ UNCHANGED <<session, locals, socket, wire, accepted, calls, alive>>

PeerReset ==
    /\ socket = "open"
    /\ socket' = "reset"
    /\ UNCHANGED <<session, locals, posted, writes, wire, accepted, calls, alive>>

\* Two threads inside m_socket at once: a data race, whose outcomes are that
\* the calls take effect in either order (the actions above) or a crash.
SocketRace == \E t, u \in IoThreads : t # u /\ io[t] \in SocketSteps /\ io[u] \in SocketSteps

RaceCrash ==
    /\ SocketRace
    /\ alive' = FALSE
    /\ UNCHANGED <<session, locals, network, posted, accepted, calls>>

--------------------------------------------------------------------------------
SendStep(p) == SendLocked(p) \/ PostClose(p) \/ PostFlush(p)

HandlerStep(t) == FlushLocked(t) \/ StartWrite(t) \/ CompleteSend(t) \/ DropLocked(t) \/ CloseSocket(t)

Next ==
    /\ alive
    /\ \/ \E p \in Producers : SendStep(p)
       \/ \E t \in IoThreads : HandlerStep(t) \/ \E h \in Handlers : Dispatch(t, h)
       \/ \E w \in writes : Transmit(w) \/ EndWrite(w)
       \/ PeerReset
       \/ RaceCrash

Spec == Init /\ [][Next]_vars

\* A thread that is between two steps takes the next one, and the io_context
\* starts what is posted: its queue is first in, first out.
ThreadFairness ==
    /\ \A p \in Producers : WF_vars(alive /\ (PostClose(p) \/ PostFlush(p)))
    /\ \A t \in IoThreads : WF_vars(alive /\ HandlerStep(t))
    /\ \A h \in Handlers : SF_vars(alive /\ \E t \in IoThreads : Dispatch(t, h))

\* The kernel ends a write that is complete or whose socket is gone.
KernelFairness == WF_vars(alive /\ \E w \in writes : EndWrite(w))

\* The peer keeps reading.
PeerFairness == WF_vars(alive /\ \E w \in writes : Transmit(w))

\* The peer may stop reading for ever: PeerFairness is no part of it.
FairSpec == Spec /\ ThreadFairness /\ KernelFairness

--------------------------------------------------------------------------------
(* Properties.                                                             *)

Buffers == 1 .. MaxCalls

\* Every variable keeps the shape the C++ members have; a batch of views never
\* outgrows the queue it was swapped from (BoostSession.h:48-55).
TypeOK ==
    /\ sendQueue \in Seq(Buffers) /\ Len(sendQueue) <= MaxQueue
    /\ isSending \in BOOLEAN
    /\ sendingBuffers \in Seq(Buffers) /\ Len(sendingBuffers) <= MaxQueue
    /\ producer \in [Producers -> {"idle", "post_close", "post_flush"}]
    /\ io \in [IoThreads -> IoSteps]
    /\ posted \in [Handlers -> Nat]
    /\ writes \subseteq [by : IoThreads, views : Seq(Buffers), rest : Seq(Buffers)]
    /\ socket \in {"open", "reset", "closed"}
    /\ wire \in Seq(Buffers)
    /\ accepted \in Nat /\ calls \in Nat /\ accepted <= calls /\ calls <= MaxCalls
    /\ alive \in BOOLEAN

\* The duty to flush, the send token, in each place it can be: with a producer
\* about to post, in a posted handler, in a running handler, in a write.
Posting(p) == producer[p] = "post_flush"
Running(t) == io[t] \in {"flush", "write", "sent", "failed", "drop"}
Queued     == posted["flush"] + posted["sent"] + posted["failed"]
Writing    == writes # {}

TokenHeld ==
    \/ \E p \in Producers : Posting(p)
    \/ \E t \in IoThreads : Running(t)
    \/ Queued > 0
    \/ Writing

\* m_isSending says exactly whether somebody has the token, and never have two:
\* whatever the threads do, one flush, one async_write or one completion of the
\* session is on its way at a time, although no strand orders the handlers and
\* m_sendingBuffers has no lock (BoostSession.cpp:91, 121, 135, 151).
OneSender ==
    /\ isSending <=> TokenHeld
    /\ Queued <= 1
    /\ \A v, w \in writes : v = w
    /\ \A p, q \in Producers : Posting(p) /\ Posting(q) => p = q
    /\ \A t, u \in IoThreads : Running(t) /\ Running(u) => t = u
    /\ \A p \in Producers : Posting(p) => Queued = 0 /\ ~Writing /\ \A t \in IoThreads : ~Running(t)
    /\ \A t \in IoThreads : Running(t) => Queued = 0 /\ ~Writing
    /\ Writing => Queued = 0

\* A buffer in the queue is never left without somebody on the way to flush it:
\* the early return of FlushSendQueue cannot miss a push (BoostSession.cpp:91,
\* 119-123, 150-151).
NoLostWakeup == sendQueue # <<>> => TokenHeld

\* While a write is in progress, m_sendingBuffers still owns every buffer the
\* write has views of: nobody clears or swaps the vector under it
\* (BoostSession.cpp:124, 127-135, 143).
BuffersHeld == \A w \in writes : sendingBuffers = w.views

\* What the connection has taken is a prefix of what Send accepted: no gap, no
\* duplicate, no reordering, also when errors, closes and new Sends interleave
\* (BoostSession.cpp:90, 124, 129-135, 145-157).
DeliveredInOrder == \A i \in 1 .. Len(wire) : wire[i] = i

\* The batch being written: swapped out but not started, or not yet taken.
\* One completed with an error is gone.
InFlight ==
    IF \E t \in IoThreads : io[t] = "write" THEN sendingBuffers
    ELSE IF writes = {} THEN <<>> ELSE (CHOOSE w \in writes : TRUE).rest

Pending == InFlight \o sendQueue

\* While the connection is open nothing accepted is lost: it is on the wire or
\* pending, in the order of acceptance (BoostSession.cpp:90, 124, 143, 157).
NothingLost ==
    socket = "open" =>
        /\ accepted = Len(wire) + Len(Pending)
        /\ \A i \in 1 .. Len(Pending) : Pending[i] = Len(wire) + i

\* kMaxSendQueueSize bounds the queue only: with the batch in flight a session
\* may hold twice as many buffers, and never more (BoostSession.cpp:84, 124).
PendingBounded == Len(Pending) <= 2 * MaxQueue

\* The session implements the ordered channel: a crash of the process breaks
\* the connection too (BoostSession.cpp:76-158).
Channel == INSTANCE SendChannel WITH
    Capacity <- 2 * MaxQueue,
    pending  <- IF alive THEN Pending ELSE <<>>,
    broken   <- ~(alive /\ socket = "open")

ImplementsChannel == Channel!ChanSpec

\* With a peer that keeps reading, every accepted buffer is delivered, or
\* discarded with its connection (BoostSession.cpp:113-158).
PeerReadsAllDelivered == PeerFairness => Channel!Progress

\* A queued buffer gets out of the queue unless a write is stalled by the peer
\* (BoostSession.cpp:105-111, 157).
QueueServed == sendQueue # <<>> ~> (Writing \/ sendQueue = <<>> \/ ~alive)

\* A Send refused by a full queue closes the connection, whatever the peer does
\* (BoostSession.cpp:96-103).
OverflowCloses ==
    (\E p \in Producers : producer[p] = "post_close") ~> (socket = "closed" \/ ~alive)
================================================================================
