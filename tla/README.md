# TuxBase-MMO in TLA+

Models, model checks and proofs for the C++ server of this repository
(`src/01_Server/Src`, below shortened to the file's name). The server is a layered
network engine on Boost.Asio: `01_ServerBase` (buffers, containers, threads, time),
`02_ServerEngine` (engine, acceptor, session, packets) and two applications that so
far only construct or print something. Much of the planned code exists as comments
only; a comment is never modelled.

Every module is translated from the code. `PROJECT.json` names, for every definition,
the lines it stands for.

## Components

| Component | State | Operations | What makes it correct | Module |
|---|---|---|---|---|
| Session send path (`BoostSession.cpp`) | `m_sendQueue`, `m_isSending`, `m_sendingBuffers`, the socket | `Send`, `FlushSendQueue`, `CompleteSend`, `CloseSocket` | one `async_write` at a time, no queued buffer forgotten, order kept, views of buffers valid, memory bounded | `SessionSend`, `SendChannel` |
| Ring buffer (`RingBuffer.cpp`) | three cursors, the full flag, two handles | reserve, commit, give up, for a reader and a writer | a byte stream; a writer never covers unread bytes | `RingBuffer`, `ByteStream` |
| Its handles (`RingBufferWriter`, `RingBufferReader`) | owner, pointer, size of each handle; the buffer's active flags | construct, move, commit, give up, destroy | one holder per reservation, which ends once | `RingHandles` |
| Receive buffer and framing (`RecvBuffer.cpp`, `Packet.cpp`) | two positions in an array | `CommitWrite`, `Consume`, `Compact`, `Clear`, `ParsePacketHeader` | room for every read; the next header is read where it starts | `RecvBuffer` |
| Engine (`NetEngine.cpp`, `BoostNetEngine.cpp`, `Thread.cpp`, `Delegate.h`) and acceptor (`BoostAcceptor.cpp`) | running flag, session pool, threads, `io_context`, acceptor, retry timer | `Start`, `Stop`, the accept loop | one accept loop that does not die, no session in two places, `Stop` returns | `NetEngine`, `SessionPool` |
| Serial numbers (`SerialGenerator.cpp`) | last second, counter | `CreateSerial` | no serial twice, as far as clock and counter allow | `SerialGenerator` |
| Bounded queue (`LockQueue.inl`) | cells, two indices, counter | `Push`, `Emplace`, `Pop`, `TryPop` | refuse only when full | `LockQueue` |
| Stacks (`LockStack.inl`) | an array and an index, or a vector, and a mutex | `Push`, `Emplace`, `Pop`, `TryPop`, `GetSize`, `IsEmpty` | one owner per item; the one with a size is the one that grows, as long as it is neither overfilled nor popped empty | `LockStack`, `FixedLockStack` |
| Stop watch (`StopWatch.cpp`) | two points in time | `Start`, `Stop`, `Reset`, durations | a running watch shows the time since its start | `StopWatch` |
| Client engine, packet dispatch, receive loop, signals, logger, assertions, applications, protocol files | | | | not modelled, see below |

How they interact. A producer thread calls `Send`; `Send` posts handlers into the
`io_context`, whose threads are the engine's workers. The starter's thread opens the
acceptor inside `Start` and begins the accept loop, which then lives in the workers'
handlers; a stopper runs `Stop`'s events against it. The accept loop takes sessions from
the pool and puts them back when an accept fails. The receive loop that would join
`RecvBuffer` with the parser and the session is commented out.

Hard here: handlers of one session on several I/O threads with no strand; state that is
protected only by a duty handed from thread to thread (`m_isSending` for the batch, the
accept loop for the acceptor and its timer); a close or a stop in the middle; error
paths that must undo exactly what was done; cursors that meet, wrap and skip; counters
that wrap. `PROJECT.json` lists each as a hazard at its line with the properties that
cover it.

## Modules and their correspondence to the code

**`SessionSend`** has a step for each piece of a function between two places where
another thread may interfere: the taking of `m_sendMutex`, and the calls into
`m_socket`. `Send` is `SendLocked` (the locked block, up to its early return) and
`PostClose` or `PostFlush`. A handler is picked up by `Dispatch` and runs `FlushLocked`,
`StartWrite`, `CompleteSend`, `DropLocked`, `CloseSocket`, in the order of the code;
`CompleteSend` runs the flush on its own thread, as the code's direct call does. A buffer is immutable
(`SendBuffer`) and is named by the order of its push. External, modelled from how the
session uses it: `async_write`, which takes the batch buffer by buffer and ends with
success or an error; the kernel; the peer, which may reset. Two threads inside
`m_socket` at the same time are a data race: either order of the two calls, or a crash
(`RaceCrash`). The composed operation's inner `async_write_some` calls are folded into
`Transmit`. A `Send` on a closed session is still accepted, as in the code, and its
write fails.

**`SendChannel`** is what `Send` promises: buffers are accepted in some order and
delivered in that order, each once, with nothing left out; only a broken connection
discards. `SessionSend` implements it (`Channel`, a refinement mapping to the pending
buffers and the connection).

**`RingBuffer`** has an action for each method that changes state, with the handles
as spans: `CreateWriter`, `CreateAllWriter`, `CommitWrite`, `GiveUpWriter`, the reader's
counterparts and the destructors. `Commit(0)` commits the whole span. What an ASSERT
demands of the caller is a guard: no second handle of a kind, no size 0, no more than
reserved. A call that returns an invalid handle and changes nothing is no step; one that
jumps a cursor on the way (`CreateReader` on a used-up tail) is. `Store` is the caller
writing through its handle. **`ByteStream`** is the promise: append, look, consume, put
back.

**`RingHandles`** looks at the handles as C++ objects where `RingBuffer` follows only
the one active span: several handle variables with a lifetime, of several buffers,
constructed by a `Create...`, moved into each other (`MoveConstruct`, `MoveAssign`),
committed, given up and destroyed. `owner` stands for the three fields of a handle, which
the code sets and clears together. The writer's and the reader's class have the same
code, and their handles never meet; the map names lines of both. `granted`, `settled`
and `lost` are histories. The moves have no guard, because the code has none in the build
the repository makes: a handle may be moved to itself, onto one that holds a reservation, or
when it is empty. `lost` counts the reservations a move assignment overwrites that way. With
ASSERTs compiled in it would demand `m_owner == other.m_owner` (`RingBuffer.cpp:43`,
`117`). An empty target has no owner, and two valid handles of one kind are never on one
buffer, so only an assignment of a handle to itself passes (`NoMovePassesItsAssert`), and
that one loses the reservation. What is left to the caller, and a guard, is what
`RingBuffer.md` demands of it and the code cannot survive or see: one reservation of a kind at
a time (`Create` asks that no handle holds one, not that the flag is down, which it is not
after a loss), and no `Commit` or `GiveUp` through an empty handle, which is a call
through `nullptr`. The destructor of the buffer is not modelled: it is empty in this build,
and which scope ends first is the caller's.

**`LockStack`** is the stack that grows, one step for each call, as each holds its mutex from
the first line to the last. **`FixedLockStack`** is the one with a size, in the steps between
locking and unlocking, because that is where the index and the slot disagree: `CallPush`
and `Call` lock, `PushIndex` and `PopIndex` move the index, `Store` and `Take` touch the
slot, and every way out unlocks (`Return`). `TryPop` tests (`TryPopFound`, `TryPopEmpty`) and
moves the index in two steps. It implements `LockStack`: the height is
the one before the operation until the slot has followed the index. The ASSERTs of
`Push` and `Pop` are empty in every build of the repository, so a `Push` on a full stack and a
`Pop` on an empty one go on: the index, a `UINT32` that wraps, leaves the array, a write fills
no slot, and a read gives anything (`Readable`). The history `misused` records that this has
happened. What such a write destroys, or that the process dies of it, is not modelled; every
property but the types is promised until then only.

**`RecvBuffer`** gives every byte its packet's size and its place in it, so that
framing is visible, and models header reads as reading that size. Its driver, one
receive loop, is the assumption the commented-out code suggests.

**`NetEngine`** puts `NetEngine`, `BoostNetEngine`, `BoostNetEngineServer`,
`BoostAcceptor`, `Thread`, `Delegate` and the `LockStack` pool together. A thread's
position is the next call in the code; the accept loop's calls (`CheckRunning`,
`TakeSession`, `AsyncAccept`, `RetryAcception`) can be on the starter or on a worker.
The stop events run in subscription order (`StopEvents`): the base class's constructor
subscribes first. `Stop` may begin as soon as `m_isRun` is set, also while `Start` is
still inside its events. `bind`, `listen` and `open` may throw. Stopping the
`io_context` leaves ready handlers where they are. `LockStack`'s order does not matter
to anything the engine promises, so the pool is a set. **`SessionPool`** is the promise:
a free session is taken, and a taken one comes back or is connected.

**`SerialGenerator`** lets the clock show any second at every call, and keeps the
serials' fields in a history. `Pack` is the shifting. **`LockQueue`** is the queue with a
size, with its test as written. **`StopWatch`** is the watch and the steady clock.

A definition whose comment starts with "Mutant:" is not part of a specification. It
is a wrong version of the definition behind it, kept to show that a property of this
project would notice it; `PROJECT.json` pairs them.

## Runs

| Run | Question | Bounds, and why they are enough |
|---|---|---|
| `session_send` | all safety properties of the send path, the refinement of the ordered channel, and that a queued buffer reaches a write, an overflow closes with a peer that may stop reading, and every accepted buffer is delivered or discarded with one that reads on | 2 producers, 2 I/O threads, queue of 2, 6 Sends: the queue overflows while a batch of 2 is in flight, a flush races a Send, an error meets both |
| `ring_stream` | safety of the ring, its refinement of the byte stream, and how much a drained ring is sure to serve | 6 cells, 2 values: both halves, tails of every length, every partial commit, full and empty with the cursors anywhere |
| `ring_retry` | finding: a drained ring refuses | 4 cells |
| `engine_runs` | the accept loop, session ownership, the refinement of the session pool, one `Stop` at a time, and that it only advances, is for good and returns | 2 workers, 2 stoppers, 2 sessions, 2 starts: an empty pool, two stops, a start after a stop |
| `engine_sessions_kept` | finding: connected sessions are lost | one stopper, one start |
| `recv_framing` | room and framing | 8 bytes, a header of 2, packets of 2 and 3: the smallest sizes that satisfy the constructor's demands and leave a partial header and a partial body |
| `recv_header` | finding: an incomplete packet is reported | as above |
| `serials` | repeated and shared serials | 2 servers with 2 threads, a counter with 2 values, 2 seconds, 3 calls each: wraps, and clocks that return |
| `queue_overflow` | finding: the overflow test is inverted | 2 cells |
| `stopwatch_restart` | finding: a restarted watch shows an old end point | a clock of 6 ticks, a modulus of 64, three units |
| `ring_handles` | who holds a reservation, and that it ends once | 4 handles, 2 buffers: a grant on each, moves between all of them, a reservation overwritten and the next one on the same buffer |
| `lock_stack` | accesses inside the array, one owner per item, the refinement of the stack that grows, all until it is misused | 2 threads, 3 items, 2 slots, an index of 5 values: a push on the full and a pop from the empty stack, met by another thread at every step, and an index that wraps soon |

`CHECK_DEADLOCK FALSE` stands where the bound on calls or starts, or a crash, really ends
the behaviour, or where all scopes have ended (`ring_handles`). `RingBuffer` and `RecvBuffer` are checked for deadlock.

### Fairness

- Threads (`ThreadFairness`, `FairSpec` of `NetEngine`): weak fairness for each thread's
  next step. Steps between locks never wait for anything but a short lock.
- `Dispatch` in `SessionSend`: strong fairness for each kind of handler. The `io_context`'s queue is first in,
  first out, so a posted handler is run although the threads keep finding others; weak
  fairness would not say so, because a thread is not always idle.
- `KernelFairness`: a write that is complete, or whose socket is gone, ends.
- `PeerFairness`, that the peer reads on, is no part of `FairSpec`: it is the antecedent of
  `PeerReadsAllDelivered` only.
- `NetEngine`: the retry timer expires. Nobody has to connect or to call anything.
- `RingHandles`: the scope of every handle ends (`Destroy`); no handle has to be committed.

Liveness ends where a crash does (`~alive`).

## Proofs

All for every value of the constants, under the named assumptions of the modules
(`SessionAssumption`, `RingAssumption`, `RecvAssumption`, `SerialAssumption`,
`EngineAssumption`, `HandlesAssumption`, `StackAssumption`), which say no more than
positive sizes, distinct threads, values that are no member of a set, and the
constructors' ASSERTs, and a stack's size that fits its index.

- **`SessionSendProofs`.** `OneSender` is inductive with `TypeOK`: it names every place
  the send duty can be and says it is in one at most, and in one exactly when `m_isSending`
  holds. `BatchInv` adds what is in `m_sendingBuffers` in each of those places; without it
  nothing says that a swap finds the vector empty. From `IInv` (the three together) follow
  no lost wakeup, the views' validity and the bound. For order, `StepKinds` shows that
  each step accepts, delivers, breaks, discards or keeps the sequence of pending buffers,
  and `OrderInv` is preserved by each kind. The same lemma gives the refinement,
  `SessionIsAChannel`. Behind progress are two facts about single steps: while a buffer waits,
  the send token only comes nearer to the write that takes the queue (`Distance`,
  `TokenOnlyAdvances`), and a close that is due stays due (`CloseIsNotForgotten`). From the
  second follows `RefusedSendCloses`: a refused `Send` is a close that is on its way or done.
- **`RingBufferProofs`.** `RInv`: `CursorsInv` says when a skipped tail can exist and what
  full means after the reader's jump; `WriterInv` and `ReaderInv` keep each span inside
  the region it was cut from, whatever the other handle commits; `TailInv` says that a
  tail is skipped only in the rear half, which `HalfFits` needs. The five safety
  properties follow from it without further steps, and `HalfOfTheFreeFits` with them, which says
  for a ring that is not drained what `HalfFits` says for one that is: without a writer and
  with the full flag clear, half of the free cells, rounded up, can be reserved at once. In
  the second half of the module is `ImplementsStream`. `ContentsAre` tells the unread bytes cell by cell
  (`Total`, `Cell(i)`), and there is one lemma for each thing that can happen to them: the
  tail is skipped (`SkipKeeps`), the reader jumps (`JumpKeeps`), cells are appended
  (`WriteAppends`), taken off the front (`ReadConsumes`), or a byte is stored outside of them
  (`StoreHides`). `ViewIsPrefix` says that a reader's span is a beginning of the stream.
- **`RingHandlesProofs`.** The three safety properties are inductive together; `SettledOnce`
  needs `OneHolder`, which says that the handle that ends or overwrites a reservation is
  its only one. `MoveKeeps` is about every move, to itself or not, onto a holder or not.
  `ReservationHasDestructor` and `ScopeEndsReservation`: a handle with a destructor still to
  run holds every reservation that was neither settled nor overwritten, and its end is the
  reservation's. `NoMovePassesItsAssert` needs `OneHolder` only.
- **`FixedLockStackProofs`.** `Basics` holds of a misused stack too: the types, `MutexInv`, that
  one thread is inside an operation, the one that has the mutex, `ArgInv`, and `FoundInv`, that
  what `TryPop` has tested stays true. `Intact` holds until the stack is misused: `AccessInside`,
  `SlotsInv`, which says which slots are filled while the index is ahead of, or behind, its
  slot, and `OwnedOnce`. From them `OneOwner`, and with `Height` the refinement.
  `StepsLeft` falls with every step of the mutex's holder, and nobody else steps meanwhile
  (`HolderReturnsSoon`), misused or not. `StackIsAPool` proves for this form what `NetEngine`
  takes for granted when it has a set for its `LockStack`: the stack implements `SessionPool`.
- **`LockStackProofs`.** The same for the form that grows, which the engine uses:
  `GrowingStackIsAPool`. A stack may be constructed full and its users may start with items in hand,
  so its two theorems take any start in which no item has two places (`OwnedOnce`), which
  the constructor of the engine provides; `OwnedOnce` is inductive with the types.
- **`RecvBufferProofs`.** `RInv` strengthens `InStep` by `Frames`, which places every held
  byte relative to the start of its packet, so that consuming a whole packet lands on a
  start. `Frames` also gives `PacketsTakenWhole`. `EveryPacketIsTaken` is inductive on top of
  it, and `BufferIsAStream` tells every step by the bytes held, counted from the read
  position, so that a move of the bytes is no step at all.
- **`SerialGeneratorProofs`.** `CounterInv`: as long as a second lasts, the counter is
  the number of calls behind any call's own counter. From it, no repetition within fewer
  calls than the counter has values. `PackApart`: the fields can be read back.
  `PackOrdered`: they are ordered like the pair of second and counter; with `NextSerialGrows`,
  about one call and the next, `SerialsOnlyGrow` follows by adding a call at a time.
- **`NetEngineProofs`.** `EInv`: `Alone` and `Owned` say place by place what `OneAcceptLoop`
  and `SessionOwned` say of sets of places. They are not inductive alone: `StartInv` says
  that the start event finds no loop, `StopInv` that the acceptor is closed and the threads
  are joined only on a stopped `io_context`, `AbortInv` that only a stop aborts, `HandInv`
  that a handler holds the session it will put back. `AliveInv` is the accept loop's
  survival while `Start` is still running.
  `EngineIsAPool` needs `FreeHand` besides: a thread's pointer is empty outside the steps
  that use it, so that taking a session does not drop another.
  `StopperInv` says that an engine that runs, or is about to, has no stopper on its way, which
  the exchange of `m_isRun` keeps; `OneStopAtATime` follows. `StopsOnlyAdvance` needs
  nothing else: `WayOut` falls with every step of a stopper, and of a worker once the
  `io_context` is stopped. Two results are about what a `Stop` leaves: no thread
  (`StopLeavesNoThread`), which again needs `StopperInv`, and no later connection
  (`NoConnectionAfterStop`, the run's `StopIsForGood`). The second rests on `IdleInv`, that a worker of an engine that
  runs on a stopped `io_context` never carries the accept loop, and on `SessionMoves`, the lemma
  about what a step does to the sessions that the refinement of the pool uses too.

Only model-checked: liveness (`PeerReadsAllDelivered`, `QueueServed`, `OverflowCloses`,
`StopTerminates`, `ReservationEnds`), which needs fairness and ENABLED and
is out of TLAPS's reach. For four of them what the argument rests on is proved, for every
value of the constants, as a property of single steps: `TokenOnlyAdvances` (`QueueServed`),
`CloseIsNotForgotten` (`OverflowCloses`), `StopsOnlyAdvance` (`StopTerminates`), and
`ScopeEndsReservation` with `ReservationHasDestructor` (`ReservationEnds`). What is missing between them and the liveness
property is that the steps are taken, which the runs check. These formulas, the inductive
invariants, and the theorems without a run's property (`SerialsGrow`, `StreamStep`,
`NoPacketWaits`, `ActsAsPool`, `HalfOfFreeFits`, `OnlySelfMovePasses`, `RefusalCloses`,
`NoThreadLeft` among them) were checked by TLC on the small instances of
the runs before they were proved.

`DrainedAccepts` fails, so it has no theorem. `HalfFits` is what holds in its place, half
the ring, rounded up, is always served, and `ring_retry` shows that more need not be.

## What the checks found

1. `DrainedAccepts`: a ring buffer emptied with the cursors in the middle can refuse a
   reservation for ever. It happens when the reader's last commit comes while a writer is
   active that is then given up. The notes tell the caller to retry.
2. `SessionsKept`: a connected session is in no place; the pool shrinks for good.
3. `HeaderMeansPacket`: `ParsePacketHeader` does not tell an incomplete packet from a complete one.
4. `OverflowMeansFull`: `LockQueue<T, Size>` crashes on its first push.
5. `RunningShowsNow`: `Start` does not clear the end point of an earlier `Stop`.

Two more the models had to take a position on. The notes describe a strand per session,
but `m_socket` is built on the bare `io_context` (`BoostSession.cpp:7`): handlers of one
session do run on two threads at once in `SessionSend`. The send path is still right
(`OneSender` needs no strand), except that a close may run inside the socket next to a
write (`SocketRace`). And `RingBuffer.md:73` allows a ring buffer's handle to be moved
within its buffer, but the move assignment has no test against moving to itself or onto a handle that
holds a reservation: either way a reservation is left that nobody holds, and with it an active
flag that no destructor clears. `OneHolder` says that nothing else does that.

## What is not modelled

- The receive path of the session, `Connect` of the client, packet dispatch: comments,
  or code without a live caller.
- Object lifetime of sessions and engines: raw `this` in handlers, the cycle engine - session - engine, and the
  constructor that calls `shared_from_this` before a `shared_ptr` exists and throws. The
  models start behind a successful constructor, and start and stop an engine although
  the applications do not yet call `Start`.
- The ASSERTs, which are empty unless `DEBUG` is defined (`Assert.h:12-19`), and no build file
  defines it. They are guards where a document makes them the caller's duty and the code has
  no defined way on (the reservations of `RingBuffer`, a commit through an empty handle),
  properties where they speak of the code, and otherwise the models go on as the code does.
- The order in which a buffer and its handles are destroyed.
- Signals (the flag they set is read nowhere), logger, profile, back trace, protocol files.
- The unbounded `LockQueue`: `std::queue` behind a mutex, with no user.
- `io_context::restart`, which nothing calls. An engine that is started a second time therefore
  says that it runs, opens its acceptor, and never connects anybody; the model has it, and
  `NoConnectionAfterStop` proves it. No line of the repository promises otherwise.

## Plan

In the order of importance; 1 to 7 stand.

1. `SessionSend` with `SendChannel`, runs and proofs; `RingBuffer` with `ByteStream`.
2. `RecvBuffer`, `NetEngine`, `SerialGenerator`, `LockQueue`, `StopWatch`.
3. `NetEngineProofs`.
4. `SessionPool`, the abstract session pool that `NetEngine` implements, with its proof.
5. The refinement of the byte stream, in `RingBufferProofs`.
6. `RingHandles`, `LockStack` and `FixedLockStack`, with their proofs.
7. The steps behind the liveness properties, the order of serials, the receive buffer as a
   stream and the stacks as the engine's pool, and what `Stop` and a refused `Send` leave, proved.
8. Not begun: the session's lifetime composed with the acceptor (which pointers keep a session
   alive while handlers with a raw `this` are posted), and the client's retry timer. Both wait
   for code that starts a session and calls `async_connect`.
