---------------------------- MODULE NetEngineProofs ----------------------------
(***************************************************************************)
(* Proofs about NetEngine, for any number of workers, stoppers, sessions   *)
(* and starts.                                                             *)
(*                                                                         *)
(* OneAcceptLoop and SessionOwned speak of sets of places.  The proofs use *)
(* the same facts place by place: Alone and Owned, with a lemma for each.  *)
(*                                                                         *)
(* Neither holds by itself: that the start event finds no loop (StartInv)  *)
(* and that only a stop aborts (StopInv, AbortInv) is what keeps the first *)
(* loop single and the last one from ending early.                         *)
(***************************************************************************)
EXTENDS NetEngine, TLAPS

USE EngineAssumption DEF EngineAssumption, Threads, Loopers

\* A thread holds a session where the code's local pointer is used.
HandInv ==
    \A t \in Loopers : pc[t] \in {"accept", "ok", "error", "aborted"} => hand[t] \in Sessions

\* What a stopper has done by its last events.
StopInv == \A s \in Stoppers : pc[s] \in {"close", "cancel", "join"} => ioStopped

\* OneAcceptLoop, place by place.
OneThread == \A t, u \in Loopers : LoopIn(t) /\ LoopIn(u) => t = u

NoThread     == \A t \in Loopers : ~LoopIn(t)
NoHandler    == \A c \in completions : ~CarriesOn(c)
NoLoop       == NoThread /\ accepting = {} /\ NoHandler /\ timer = "idle"

Alone ==
    /\ \A a, b \in accepting : a = b
    /\ \A c, d \in completions : CarriesOn(c) /\ CarriesOn(d) => c = d
    /\ NoThread \/ (accepting = {} /\ NoHandler /\ timer = "idle")
    /\ accepting = {} \/ (NoHandler /\ timer = "idle")
    /\ NoHandler \/ timer = "idle"

\* Before Start, and as long as the starter has not opened the acceptor, there is
\* no accept loop that could still run; none of an earlier start is on a worker.
StartInv ==
    /\ pc[Starter] \in {"store", "open"} =>
          /\ \A w \in Workers : ~LoopIn(w)
          /\ ~ioStopped => NoLoop /\ acceptor = "closed"
    /\ ~ioStopped /\ (\A w \in Workers : pc[w] = "none") =>
          NoLoop /\ acceptor = "closed" /\ pc[Starter] = "idle"

\* Only a stop aborts an accept.
AbortInv ==
    /\ \A c \in completions : c.of = "accept" /\ c.ec = "aborted" => ioStopped
    /\ \A w \in Workers : pc[w] = "aborted" => ioStopped

\* AcceptLoopAlive, and also while Start has not returned.
AliveInv == isRun /\ ~ioStopped /\ acceptor = "listening" => ~NoLoop

\* SessionOwned, place by place.
Owned ==
    /\ \A s \in pool : s \notin accepting
    /\ \A c \in completions : c.session \notin pool /\ c.session \notin accepting
    /\ \A t \in Loopers : hand[t] \notin pool /\ hand[t] \notin accepting
    /\ \A c \in completions, t \in Loopers : c.session \in Sessions => hand[t] # c.session
    /\ \A c, d \in completions : c.session = d.session /\ c.session \in Sessions => c = d
    /\ \A t, u \in Loopers : hand[t] = hand[u] /\ hand[t] \in Sessions => t = u

EInv ==
    /\ TypeOK /\ HandInv /\ Owned
    /\ OneThread /\ (~ioStopped => Alone)
    /\ StopInv /\ StartInv /\ AbortInv /\ AliveInv

--------------------------------------------------------------------------------
(* What the events come to, and the places of the loop and of a session.   *)

LEMMA EventOrder ==
    /\ Invoke(StartEvents, "idle") = "open"
    /\ Invoke(StopEvents, "join") = "stop_io"
    /\ AfterEvent(StopEvents, "stop_io", "join") = "close"
    /\ AfterEvent(StopEvents, "close", "join") = "join"
<1> DEFINE Names == {"open", "stop_io", "close"}
<1>1. /\ StartEvents = <<"open">> /\ BaseStopEvents = <<"stop_io">>
      /\ <<"stop_io">> \in Seq(Names) /\ Len(<<"stop_io">>) = 1 /\ <<"stop_io">>[1] = "stop_io"
  BY DEF StartEvents, BaseStopEvents, Subscribe
<1>2. StopEvents = Append(<<"stop_io">>, "close")
  BY <1>1 DEF StopEvents, Subscribe
<1>3. /\ StopEvents \in Seq(Names) /\ Len(StopEvents) = 2
      /\ StopEvents[1] = "stop_io" /\ StopEvents[2] = "close"
  BY <1>1, <1>2
<1>4. Invoke(StartEvents, "idle") = "open" /\ Invoke(StopEvents, "join") = "stop_io"
  BY <1>1, <1>3 DEF Invoke
<1>5. /\ (CHOOSE i \in DOMAIN StopEvents : StopEvents[i] = "stop_io") = 1
      /\ (CHOOSE i \in DOMAIN StopEvents : StopEvents[i] = "close") = 2
  BY <1>3
<1>6. AfterEvent(StopEvents, "stop_io", "join") = "close"
  <2>1. /\ SubSeq(StopEvents, 1 + 1, Len(StopEvents)) # <<>>
        /\ Head(SubSeq(StopEvents, 1 + 1, Len(StopEvents))) = "close"
    BY <1>3
  <2>2. AfterEvent(StopEvents, "stop_io", "join") = Invoke(SubSeq(StopEvents, 1 + 1, Len(StopEvents)), "join")
    BY <1>5 DEF AfterEvent
  <2>3. QED BY <2>1, <2>2 DEF Invoke
<1>7. AfterEvent(StopEvents, "close", "join") = "join"
  <2>1. SubSeq(StopEvents, 2 + 1, Len(StopEvents)) = <<>>
    BY <1>3
  <2>2. AfterEvent(StopEvents, "close", "join") = Invoke(SubSeq(StopEvents, 2 + 1, Len(StopEvents)), "join")
    BY <1>5 DEF AfterEvent
  <2>3. QED BY <2>1, <2>2 DEF Invoke
<1>8. QED BY <1>4, <1>6, <1>7

LEMMA LoopPlaces == TypeOK /\ OneThread /\ Alone => \A a, b \in Loops : a = b
<1> SUFFICES ASSUME TypeOK, OneThread, Alone, NEW a \in Loops, NEW b \in Loops PROVE a = b
  OBVIOUS
<1>1. timer = "idle" => {timer} \ {"idle"} = {}
  OBVIOUS
<1>2. \A x \in {timer} \ {"idle"}, y \in {timer} \ {"idle"} : x = y
  OBVIOUS
<1>3. CASE ~NoThread
  <2>1. accepting = {} /\ NoHandler /\ timer = "idle"
    BY <1>3 DEF Alone
  <2>2. Loops = {<<"thread", t>> : t \in {u \in Loopers : LoopIn(u)}}
    BY <1>1, <2>1 DEF Loops, NoHandler
  <2>3. QED BY <2>2 DEF OneThread
<1>4. CASE NoThread
  <2>1. QED BY <1>1, <1>2, <1>4 DEF Loops, Alone, NoThread, NoHandler, TypeOK
<1>5. QED BY <1>3, <1>4

LEMMA SessionPlaces == TypeOK /\ Owned => SessionOwned
<1> SUFFICES ASSUME TypeOK, Owned, NEW s \in Sessions, NEW a \in Places(s), NEW b \in Places(s)
             PROVE  a = b
  BY DEF SessionOwned
<1>1. QED BY DEF Places, Owned, TypeOK

LEMMA HandlerShape ==
    /\ \A c \in Handlers :
          \/ c.of = "accept" /\ c.session \in Sessions /\ c.ec \in {"ok", "error", "aborted"}
          \/ c.of = "timer" /\ c.session = NoSession /\ c.ec \in {"ok", "aborted"}
    /\ \A s \in Sessions, ec \in {"ok", "error", "aborted"} :
          /\ Accepted(s, ec) \in Handlers /\ Accepted(s, ec).of = "accept"
          /\ Accepted(s, ec).session = s /\ Accepted(s, ec).ec = ec
    /\ \A ec \in {"ok", "aborted"} :
          /\ Waited(ec) \in Handlers /\ Waited(ec).of = "timer"
          /\ Waited(ec).session = NoSession /\ Waited(ec).ec = ec
  BY DEF Handlers, Accepted, Waited

--------------------------------------------------------------------------------
LEMMA InitEInv == Init => EInv
<1> SUFFICES ASSUME Init PROVE EInv
  OBVIOUS
<1>1. TypeOK
  <2>1. pc \in [Threads -> WorkerSteps \cup StopperSteps \cup StarterSteps]
    BY DEF Init, WorkerSteps, StopperSteps
  <2>2. /\ \A w \in Workers : pc[w] \in WorkerSteps
        /\ \A s \in Stoppers : pc[s] \in StopperSteps
        /\ pc[Starter] \in StarterSteps
    BY DEF Init, WorkerSteps, StopperSteps, StarterSteps
  <2>3. hand \in [Loopers -> Sessions \cup {NoSession}]
    BY DEF Init
  <2>4. starts \in 0 .. MaxStarts /\ pool \subseteq Sessions /\ accepting \subseteq Sessions /\ completions \subseteq Handlers
    BY DEF Init
  <2>5. isRun \in BOOLEAN /\ ioStopped \in BOOLEAN /\ alive \in BOOLEAN
        /\ acceptor \in {"closed", "unbound", "listening"} /\ timer \in {"idle", "waiting"}
    BY DEF Init
  <2>6. QED BY <2>1, <2>2, <2>3, <2>4, <2>5 DEF TypeOK
<1>2. HandInv /\ StopInv
  BY DEF Init, HandInv, StopInv
<1>3. NoLoop
  BY DEF Init, NoLoop, NoThread, NoHandler, LoopIn, LoopSteps
<1>4. OneThread /\ Alone
  BY <1>3 DEF Init, OneThread, Alone, NoLoop, NoThread
<1>5. StartInv /\ AbortInv /\ AliveInv
  BY <1>3 DEF Init, StartInv, AbortInv, AliveInv, NoLoop, NoThread
<1>6. Owned
  BY DEF Init, Owned
<1>7. QED BY <1>1, <1>2, <1>4, <1>5, <1>6 DEF EInv

--------------------------------------------------------------------------------
(* Each action keeps the invariant.                                       *)

LEMMA KeepStartThreads ==
    ASSUME EInv, StartThreads
    PROVE  EInv'
<1> USE DEF EInv
<1>1. TypeOK'
  BY DEF StartThreads, io, TypeOK, WorkerSteps, StarterSteps
<1>2. HandInv'
  BY DEF StartThreads, HandInv
<1>3. OneThread'
  BY DEF StartThreads, OneThread, LoopIn, LoopSteps
<1>4. (~ioStopped => Alone)'
  BY DEF StartThreads, io, Joinable, Alone, StartInv, NoLoop, NoHandler
<1>5. StopInv'
  BY DEF StartThreads, StopInv
<1>6. StartInv'
  BY DEF StartThreads, io, Joinable, StartInv, NoLoop, NoThread, NoHandler, LoopIn, LoopSteps
<1>7. AbortInv'
  BY DEF StartThreads, io, AbortInv
<1>8. AliveInv'
  BY DEF StartThreads, io, Joinable, AliveInv, StartInv
<1>9. Owned'
  BY DEF StartThreads, io, Owned
<1>10. QED BY <1>1, <1>2, <1>3, <1>4, <1>5, <1>6, <1>7, <1>8, <1>9

LEMMA KeepStoreRunning ==
    ASSUME EInv, StoreRunning
    PROVE  EInv'
<1> USE DEF EInv
<1>1. TypeOK'
  BY EventOrder DEF StoreRunning, io, Goto, TypeOK, StarterSteps
<1>2. HandInv'
  BY EventOrder DEF StoreRunning, Goto, HandInv
<1>3. OneThread'
  BY DEF StoreRunning, Goto, OneThread, LoopIn, StartInv
<1>4. (~ioStopped => Alone)'
  BY DEF StoreRunning, io, Alone, StartInv, NoLoop, NoHandler
<1>5. StopInv'
  BY DEF StoreRunning, Goto, StopInv
<1>6. StartInv'
  BY DEF StoreRunning, io, Goto, StartInv, NoLoop, NoThread, NoHandler, LoopIn, LoopSteps
<1>7. AbortInv'
  BY DEF StoreRunning, io, Goto, AbortInv
<1>8. AliveInv'
  BY DEF StoreRunning, io, AliveInv, StartInv
<1>9. Owned'
  BY DEF StoreRunning, io, Owned
<1>10. QED BY <1>1, <1>2, <1>3, <1>4, <1>5, <1>6, <1>7, <1>8, <1>9

LEMMA KeepStartListening ==
    ASSUME EInv, StartListening
    PROVE  EInv'
<1> USE DEF EInv
<1>1. TypeOK'
  BY DEF StartListening, Goto, TypeOK, StarterSteps
<1>2. HandInv'
  BY DEF StartListening, Goto, TypeOK, HandInv
<1>3. OneThread'
  BY DEF StartListening, Goto, TypeOK, OneThread, LoopIn, StartInv
<1>4. (~ioStopped => Alone)'
  BY DEF StartListening, Alone, StartInv, NoLoop, NoHandler
<1>5. StopInv'
  BY DEF StartListening, Goto, TypeOK, StopInv
<1>6. StartInv'
  BY DEF StartListening, Goto, TypeOK, StartInv
<1>7. AbortInv'
  BY DEF StartListening, Goto, TypeOK, AbortInv
<1>8. AliveInv'
  BY DEF StartListening, Goto, TypeOK, AliveInv, NoLoop, NoThread, NoHandler, LoopIn, LoopSteps
<1>9. Owned'
  BY DEF StartListening, Owned
<1>10. QED BY <1>1, <1>2, <1>3, <1>4, <1>5, <1>6, <1>7, <1>8, <1>9

LEMMA KeepCheckRunning ==
    ASSUME EInv, NEW t \in Loopers, CheckRunning(t)
    PROVE  EInv'
<1> USE DEF EInv
<1>1. TypeOK'
  BY DEF CheckRunning, io, Goto, Return, TypeOK, WorkerSteps, StarterSteps, LoopSteps
<1>2. HandInv'
  BY DEF CheckRunning, Goto, Return, HandInv
<1>3. OneThread'
  BY DEF CheckRunning, Goto, OneThread, LoopIn, LoopSteps
<1>4. (~ioStopped => Alone)'
  BY DEF CheckRunning, io, Alone, NoThread, NoHandler, LoopIn, LoopSteps
<1>5. StopInv'
  BY DEF CheckRunning, Goto, StopInv
<1>6. StartInv'
  BY DEF CheckRunning, Goto, Return, StartInv, LoopIn, LoopSteps
<1>7. AbortInv'
  BY DEF CheckRunning, io, Goto, Return, AbortInv
<1>8. AliveInv'
  BY DEF CheckRunning, Goto, AliveInv, NoLoop, NoThread, LoopIn, LoopSteps
<1>9. Owned'
  BY DEF CheckRunning, io, Owned
<1>10. QED BY <1>1, <1>2, <1>3, <1>4, <1>5, <1>6, <1>7, <1>8, <1>9

LEMMA KeepTakeSession ==
    ASSUME EInv, NEW t \in Loopers, TakeSession(t)
    PROVE  EInv'
<1> USE DEF EInv
<1>1. TypeOK'
  BY DEF TakeSession, io, Goto, TakeSessionInto, TryPop, TypeOK, WorkerSteps, StarterSteps, LoopSteps
<1>2. HandInv'
  BY DEF TakeSession, Goto, TakeSessionInto, TypeOK, HandInv
<1>3. OneThread'
  BY DEF TakeSession, Goto, TypeOK, OneThread, LoopIn, LoopSteps
<1>4. (~ioStopped => Alone)'
  BY DEF TakeSession, io, Alone, NoThread, NoHandler, LoopIn, LoopSteps
<1>5. StopInv'
  BY DEF TakeSession, Goto, TypeOK, StopInv
<1>6. StartInv'
  BY DEF TakeSession, Goto, TypeOK, StartInv, LoopIn, LoopSteps
<1>7. AbortInv'
  BY DEF TakeSession, io, Goto, TypeOK, AbortInv
<1>8. AliveInv'
  BY DEF TakeSession, Goto, TypeOK, AliveInv, NoLoop, NoThread, LoopIn, LoopSteps
<1>9. Owned'
  BY DEF TakeSession, io, TakeSessionInto, TryPop, TypeOK, Owned
<1>10. QED BY <1>1, <1>2, <1>3, <1>4, <1>5, <1>6, <1>7, <1>8, <1>9

LEMMA KeepAsyncAccept ==
    ASSUME EInv, NEW t \in Loopers, AsyncAccept(t)
    PROVE  EInv'
<1> USE DEF EInv
<1>1. TypeOK'
  BY HandlerShape DEF AsyncAccept, Goto, Return, TypeOK, HandInv, WorkerSteps, StarterSteps
<1>2. HandInv'
  BY DEF AsyncAccept, Goto, Return, TypeOK, HandInv
<1>3. OneThread'
  BY DEF AsyncAccept, Goto, OneThread, LoopIn, LoopSteps
<1>4. (~ioStopped => Alone)'
  BY DEF AsyncAccept, Goto, Return, TypeOK, Alone, OneThread, NoThread, NoHandler, LoopIn, LoopSteps
<1>5. StopInv'
  BY DEF AsyncAccept, Goto, StopInv
<1>6. StartInv'
  BY DEF AsyncAccept, Goto, Return, StartInv, LoopIn, LoopSteps
<1>7. AbortInv'
  BY HandlerShape DEF AsyncAccept, Goto, Return, HandInv, AbortInv
<1>8. AliveInv'
  BY DEF AsyncAccept, AliveInv, NoLoop
<1>9. Owned'
  BY HandlerShape DEF AsyncAccept, TypeOK, Owned, HandInv
<1>10. QED BY <1>1, <1>2, <1>3, <1>4, <1>5, <1>6, <1>7, <1>8, <1>9

LEMMA KeepRetryAcception ==
    ASSUME EInv, NEW t \in Loopers, RetryAcception(t)
    PROVE  EInv'
<1> USE DEF EInv
<1>1. TypeOK'
  BY HandlerShape DEF RetryAcception, Goto, Return, TypeOK, WorkerSteps, StarterSteps
<1>2. HandInv'
  BY DEF RetryAcception, Goto, Return, HandInv
<1>3. OneThread'
  BY DEF RetryAcception, Goto, OneThread, LoopIn, LoopSteps
<1>4. (~ioStopped => Alone)'
  BY DEF RetryAcception, Goto, Return, TypeOK, Alone, OneThread, NoThread, NoHandler, LoopIn, LoopSteps
<1>5. StopInv'
  BY DEF RetryAcception, Goto, StopInv
<1>6. StartInv'
  BY DEF RetryAcception, Goto, Return, StartInv, LoopIn, LoopSteps
<1>7. AbortInv'
  BY HandlerShape DEF RetryAcception, Goto, Return, AbortInv
<1>8. AliveInv'
  BY DEF RetryAcception, AliveInv, NoLoop
<1>9. Owned'
  BY HandlerShape DEF RetryAcception, TypeOK, Owned
<1>10. QED BY <1>1, <1>2, <1>3, <1>4, <1>5, <1>6, <1>7, <1>8, <1>9

LEMMA KeepDispatch ==
    ASSUME EInv, NEW w \in Workers, Dispatch(w)
    PROVE  EInv'
<1> USE DEF EInv
<1>1. TypeOK'
  BY HandlerShape DEF Dispatch, Goto, TypeOK, WorkerSteps, LoopSteps
<1>2. HandInv'
  BY HandlerShape DEF Dispatch, Goto, TypeOK, HandInv
<1>3. OneThread'
  <2>1. PICK c \in completions :
            Goto(w, IF c.of = "accept" THEN c.ec ELSE IF c.ec = "ok" THEN "check" ELSE "run")
    BY DEF Dispatch
  <2>2. CASE CarriesOn(c)
    BY <2>1, <2>2 DEF Dispatch, Goto, OneThread, Alone, NoThread, NoHandler, LoopIn
  <2>3. CASE ~CarriesOn(c)
    BY <2>1, <2>3 DEF Goto, CarriesOn, OneThread, LoopIn, LoopSteps
  <2>4. QED BY <2>2, <2>3
<1>4. (~ioStopped => Alone)'
  BY DEF Dispatch, Goto, Alone, NoThread, NoHandler, LoopIn, CarriesOn
<1>5. StopInv'
  BY DEF Dispatch, Goto, StopInv
<1>6. StartInv'
  BY HandlerShape DEF Dispatch, Goto, TypeOK, StartInv, NoLoop, NoThread, NoHandler, LoopIn, CarriesOn
<1>7. AbortInv'
  BY DEF Dispatch, Goto, AbortInv
<1>8. AliveInv'
  BY HandlerShape DEF Dispatch, Goto, TypeOK, AliveInv, NoLoop, NoThread, NoHandler, LoopIn, LoopSteps, CarriesOn
<1>9. Owned'
  BY DEF Dispatch, Owned
<1>10. QED BY <1>1, <1>2, <1>3, <1>4, <1>5, <1>6, <1>7, <1>8, <1>9

LEMMA KeepCompleteAcception ==
    ASSUME EInv, NEW w \in Workers, CompleteAcception(w)
    PROVE  EInv'
<1> USE DEF EInv
<1>1. TypeOK'
  BY DEF CompleteAcception, io, Goto, ReleaseSession, Push, TypeOK, HandInv, WorkerSteps, LoopSteps
<1>2. HandInv'
  BY DEF CompleteAcception, Goto, TypeOK, HandInv
<1>3. OneThread'
  BY DEF CompleteAcception, Goto, OneThread, LoopIn, LoopSteps
<1>4. (~ioStopped => Alone)'
  BY DEF CompleteAcception, io, Alone, NoThread, NoHandler, LoopIn, LoopSteps
<1>5. StopInv'
  BY DEF CompleteAcception, Goto, StopInv
<1>6. StartInv'
  BY DEF CompleteAcception, Goto, StartInv, LoopIn, LoopSteps
<1>7. AbortInv'
  BY DEF CompleteAcception, io, Goto, AbortInv
<1>8. AliveInv'
  BY DEF CompleteAcception, Goto, AliveInv, AbortInv, NoLoop, NoThread, LoopIn, LoopSteps
<1>9. Owned'
  BY DEF CompleteAcception, io, ReleaseSession, Push, TypeOK, Owned, HandInv
<1>10. QED BY <1>1, <1>2, <1>3, <1>4, <1>5, <1>6, <1>7, <1>8, <1>9

LEMMA KeepLeaveRun ==
    ASSUME EInv, NEW w \in Workers, LeaveRun(w)
    PROVE  EInv'
<1> USE DEF EInv
<1>1. TypeOK'
  BY DEF LeaveRun, io, Goto, TypeOK, WorkerSteps
<1>2. HandInv'
  BY DEF LeaveRun, Goto, HandInv
<1>3. OneThread'
  BY DEF LeaveRun, Goto, OneThread, LoopIn, LoopSteps
<1>4. (~ioStopped => Alone)'
  BY DEF LeaveRun
<1>5. StopInv'
  BY DEF LeaveRun, StopInv
<1>6. StartInv'
  BY DEF LeaveRun, Goto, StartInv, LoopIn, LoopSteps
<1>7. AbortInv'
  BY DEF LeaveRun, AbortInv
<1>8. AliveInv'
  BY DEF LeaveRun, AliveInv
<1>9. Owned'
  BY DEF LeaveRun, io, Owned
<1>10. QED BY <1>1, <1>2, <1>3, <1>4, <1>5, <1>6, <1>7, <1>8, <1>9

LEMMA KeepStop ==
    ASSUME EInv, NEW s \in Stoppers, Stop(s)
    PROVE  EInv'
<1> USE DEF EInv
<1>1. TypeOK'
  BY EventOrder DEF Stop, io, Goto, TypeOK, StopperSteps
<1>2. HandInv'
  BY DEF Stop, Goto, HandInv
<1>3. OneThread'
  BY DEF Stop, Goto, OneThread, LoopIn
<1>4. (~ioStopped => Alone)'
  BY DEF Stop, io, Goto, Alone, NoThread, NoHandler, LoopIn
<1>5. StopInv'
  BY EventOrder DEF Stop, Goto, StopInv
<1>6. StartInv'
  BY DEF Stop, io, Goto, StartInv, NoLoop, NoThread, NoHandler, LoopIn
<1>7. AbortInv'
  BY DEF Stop, io, Goto, AbortInv
<1>8. AliveInv'
  BY DEF Stop, AliveInv
<1>9. Owned'
  BY DEF Stop, io, Owned
<1>10. QED BY <1>1, <1>2, <1>3, <1>4, <1>5, <1>6, <1>7, <1>8, <1>9

LEMMA KeepStopIoContext ==
    ASSUME EInv, NEW s \in Stoppers, StopIoContext(s)
    PROVE  EInv'
<1> USE DEF EInv
<1>1. TypeOK'
  BY EventOrder DEF StopIoContext, io, Goto, TypeOK, StopperSteps
<1>2. HandInv'
  BY DEF StopIoContext, Goto, HandInv
<1>3. OneThread'
  BY DEF StopIoContext, Goto, OneThread, LoopIn
<1>4. (~ioStopped => Alone)'
  BY DEF StopIoContext
<1>5. StopInv'
  BY DEF StopIoContext, StopInv
<1>6. StartInv'
  BY DEF StopIoContext, Goto, StartInv, LoopIn
<1>7. AbortInv'
  BY DEF StopIoContext, AbortInv
<1>8. AliveInv'
  BY DEF StopIoContext, AliveInv
<1>9. Owned'
  BY DEF StopIoContext, io, Owned
<1>10. QED BY <1>1, <1>2, <1>3, <1>4, <1>5, <1>6, <1>7, <1>8, <1>9

LEMMA KeepCloseAcceptor ==
    ASSUME EInv, NEW s \in Stoppers, CloseAcceptor(s)
    PROVE  EInv'
<1> USE DEF EInv
<1>1. TypeOK'
  BY HandlerShape DEF CloseAcceptor, Goto, TypeOK, StopperSteps
<1>2. HandInv'
  BY DEF CloseAcceptor, Goto, HandInv
<1>3. OneThread'
  BY DEF CloseAcceptor, Goto, OneThread, LoopIn
<1>4. (~ioStopped => Alone)'
  BY DEF CloseAcceptor, StopInv
<1>5. StopInv'
  BY DEF CloseAcceptor, StopInv
<1>6. StartInv'
  BY DEF CloseAcceptor, Goto, StartInv, NoLoop, NoThread, NoHandler, LoopIn
<1>7. AbortInv'
  BY DEF CloseAcceptor, StopInv, AbortInv
<1>8. AliveInv'
  BY DEF CloseAcceptor, AliveInv
<1>9. Owned'
  BY HandlerShape DEF CloseAcceptor, TypeOK, Owned
<1>10. QED BY <1>1, <1>2, <1>3, <1>4, <1>5, <1>6, <1>7, <1>8, <1>9

LEMMA KeepCancelTimer ==
    ASSUME EInv, NEW s \in Stoppers, CancelTimer(s)
    PROVE  EInv'
<1> USE DEF EInv
<1>1. TypeOK'
  BY EventOrder, HandlerShape DEF CancelTimer, Goto, TypeOK, StopperSteps
<1>2. HandInv'
  BY DEF CancelTimer, Goto, HandInv
<1>3. OneThread'
  BY DEF CancelTimer, Goto, OneThread, LoopIn
<1>4. (~ioStopped => Alone)'
  BY DEF CancelTimer, StopInv
<1>5. StopInv'
  BY DEF CancelTimer, StopInv
<1>6. StartInv'
  BY DEF CancelTimer, Goto, StartInv, NoLoop, NoThread, NoHandler, LoopIn
<1>7. AbortInv'
  BY HandlerShape DEF CancelTimer, Goto, AbortInv
<1>8. AliveInv'
  BY DEF CancelTimer, AliveInv, StopInv
<1>9. Owned'
  BY HandlerShape DEF CancelTimer, TypeOK, Owned
<1>10. QED BY <1>1, <1>2, <1>3, <1>4, <1>5, <1>6, <1>7, <1>8, <1>9

LEMMA KeepJoinThreads ==
    ASSUME EInv, NEW s \in Stoppers, JoinThreads(s)
    PROVE  EInv'
<1> USE DEF EInv
<1>1. TypeOK'
  BY DEF JoinThreads, io, TypeOK, WorkerSteps, StopperSteps
<1>2. HandInv'
  BY DEF JoinThreads, HandInv
<1>3. OneThread'
  BY DEF JoinThreads, OneThread, LoopIn, LoopSteps
<1>4. (~ioStopped => Alone)'
  BY DEF JoinThreads, StopInv
<1>5. StopInv'
  BY DEF JoinThreads, StopInv
<1>6. StartInv'
  BY DEF JoinThreads, StartInv, StopInv, LoopIn, LoopSteps
<1>7. AbortInv'
  BY DEF JoinThreads, io, AbortInv
<1>8. AliveInv'
  BY DEF JoinThreads, AliveInv, StopInv
<1>9. Owned'
  BY DEF JoinThreads, io, Owned
<1>10. QED BY <1>1, <1>2, <1>3, <1>4, <1>5, <1>6, <1>7, <1>8, <1>9

LEMMA KeepEndAccept ==
    ASSUME EInv, EndAccept
    PROVE  EInv'
<1> USE DEF EInv
<1>1. TypeOK'
  BY HandlerShape DEF EndAccept, TypeOK
<1>2. HandInv'
  BY DEF EndAccept, HandInv
<1>3. OneThread'
  BY DEF EndAccept, OneThread, LoopIn
<1>4. (~ioStopped => Alone)'
  BY DEF EndAccept, Alone, NoThread, NoHandler, LoopIn
<1>5. StopInv'
  BY DEF EndAccept, StopInv
<1>6. StartInv'
  BY DEF EndAccept, StartInv, NoLoop
<1>7. AbortInv'
  BY HandlerShape DEF EndAccept, TypeOK, AbortInv
<1>8. AliveInv'
  BY HandlerShape DEF EndAccept, TypeOK, AliveInv, NoLoop, NoHandler, CarriesOn
<1>9. Owned'
  BY HandlerShape DEF EndAccept, TypeOK, Owned
<1>10. QED BY <1>1, <1>2, <1>3, <1>4, <1>5, <1>6, <1>7, <1>8, <1>9

LEMMA KeepExpireTimer ==
    ASSUME EInv, ExpireTimer
    PROVE  EInv'
<1> USE DEF EInv
<1>1. TypeOK'
  BY HandlerShape DEF ExpireTimer, TypeOK
<1>2. HandInv'
  BY DEF ExpireTimer, HandInv
<1>3. OneThread'
  BY DEF ExpireTimer, OneThread, LoopIn
<1>4. (~ioStopped => Alone)'
  BY DEF ExpireTimer, Alone, NoThread, NoHandler, LoopIn
<1>5. StopInv'
  BY DEF ExpireTimer, StopInv
<1>6. StartInv'
  BY DEF ExpireTimer, StartInv, NoLoop
<1>7. AbortInv'
  BY HandlerShape DEF ExpireTimer, AbortInv
<1>8. AliveInv'
  BY HandlerShape DEF ExpireTimer, AliveInv, NoLoop, NoHandler, CarriesOn
<1>9. Owned'
  BY HandlerShape DEF ExpireTimer, TypeOK, Owned
<1>10. QED BY <1>1, <1>2, <1>3, <1>4, <1>5, <1>6, <1>7, <1>8, <1>9

LEMMA KeepRaceCrash ==
    ASSUME EInv, RaceCrash
    PROVE  EInv'
<1> USE DEF EInv
<1>1. TypeOK'
  BY DEF RaceCrash, io, TypeOK
<1>2. HandInv'
  BY DEF RaceCrash, HandInv
<1>3. OneThread'
  BY DEF RaceCrash, OneThread, LoopIn
<1>4. (~ioStopped => Alone)'
  BY DEF RaceCrash, StopInv
<1>5. StopInv'
  BY DEF RaceCrash, StopInv
<1>6. StartInv'
  BY DEF RaceCrash, StartInv, StopInv, LoopIn
<1>7. AbortInv'
  BY DEF RaceCrash, io, AbortInv
<1>8. AliveInv'
  BY DEF RaceCrash, AliveInv, StopInv
<1>9. Owned'
  BY DEF RaceCrash, io, Owned
<1>10. QED BY <1>1, <1>2, <1>3, <1>4, <1>5, <1>6, <1>7, <1>8, <1>9

--------------------------------------------------------------------------------
LEMMA NextKeepsEInv == EInv /\ [Next]_vars => EInv'
<1> SUFFICES ASSUME EInv, [Next]_vars PROVE EInv'
  OBVIOUS
<1>1. CASE StartStep
  BY <1>1, KeepStartThreads, KeepStoreRunning, KeepStartListening DEF StartStep
<1>2. ASSUME NEW t \in Loopers, LoopStep(t) PROVE EInv'
  BY <1>2, KeepCheckRunning, KeepTakeSession, KeepAsyncAccept, KeepRetryAcception DEF LoopStep
<1>3. ASSUME NEW w \in Workers, WorkerStep(w) PROVE EInv'
  BY <1>2, <1>3, KeepDispatch, KeepCompleteAcception, KeepLeaveRun DEF WorkerStep
<1>4. ASSUME NEW s \in Stoppers, Stop(s) \/ StopStep(s) PROVE EInv'
  BY <1>4, KeepStop, KeepStopIoContext, KeepCloseAcceptor, KeepCancelTimer, KeepJoinThreads DEF StopStep
<1>5. CASE EndAccept \/ ExpireTimer \/ RaceCrash
  BY <1>5, KeepEndAccept, KeepExpireTimer, KeepRaceCrash
<1>6. CASE UNCHANGED vars
  BY <1>6 DEF vars, io, EInv, TypeOK, HandInv, Owned, OneThread, Alone, StopInv, StartInv, AbortInv,
     AliveInv, NoLoop, NoThread, NoHandler, LoopIn
<1>7. QED BY <1>1, <1>2, <1>3, <1>4, <1>5, <1>6 DEF Next

THEOREM EngineInvariant == Spec => []EInv
  BY InitEInv, NextKeepsEInv, PTL DEF Spec

\* TypeOK: every member and every thread's position keep their shape
\* (NetEngine.h, BoostAcceptor.h).
THEOREM EngineTypeCorrect == Spec => []TypeOK
<1>1. EInv => TypeOK
  BY DEF EInv
<1>2. QED BY <1>1, EngineInvariant, PTL

\* OneAcceptLoop: start, completion and retry hand the accept loop over, and no
\* second one ever comes to be (BoostAcceptor.cpp:20, 29-84).
THEOREM OnlyOneAcceptLoop == Spec => []OneAcceptLoop
<1>1. EInv => OneAcceptLoop
  BY LoopPlaces DEF EInv, OneThread, OneAcceptLoop
<1>2. QED BY <1>1, EngineInvariant, PTL

\* AcceptLoopAlive: a running, listening engine never loses its accept loop
\* (NetEngine.cpp:31-38, BoostAcceptor.cpp:31-45, 55-67).
THEOREM AcceptLoopSurvives == Spec => []AcceptLoopAlive
<1>1. EInv => AcceptLoopAlive
  <2> SUFFICES ASSUME EInv, isRun, ~ioStopped, acceptor = "listening" PROVE Loops # {}
    BY DEF AcceptLoopAlive
  <2>1. ~NoLoop
    BY DEF EInv, AliveInv
  <2>2. CASE ~NoThread
    <3>1. PICK t \in Loopers : LoopIn(t)
      BY <2>2 DEF NoThread
    <3>2. <<"thread", t>> \in Loops
      BY <3>1 DEF Loops
    <3>3. QED BY <3>2
  <2>3. CASE accepting # {}
    <3>1. PICK s \in accepting : TRUE
      BY <2>3
    <3>2. <<"accept", s>> \in Loops
      BY DEF Loops
    <3>3. QED BY <3>2
  <2>4. CASE ~NoHandler
    <3>1. PICK c \in completions : CarriesOn(c)
      BY <2>4 DEF NoHandler
    <3>2. <<"handler", c>> \in Loops
      BY <3>1 DEF Loops
    <3>3. QED BY <3>2
  <2>5. CASE timer # "idle"
    <3>1. <<"timer", timer>> \in Loops
      BY <2>5 DEF Loops
    <3>2. QED BY <3>1
  <2>6. QED BY <2>1, <2>2, <2>3, <2>4, <2>5 DEF NoLoop
<1>2. QED BY <1>1, EngineInvariant, PTL

\* SessionOwned: no session is in two of the pool, an accept, a handler and a
\* thread's hands (BoostAcceptor.cpp:34-44, 47-68; NetEngine.cpp:65-75).
THEOREM NoSessionIsShared == Spec => []SessionOwned
<1>1. EInv => SessionOwned
  BY SessionPlaces DEF EInv
<1>2. QED BY <1>1, EngineInvariant, PTL

--------------------------------------------------------------------------------
(* The refinement of the session pool.                                     *)

\* A thread's pointer is empty outside the steps that use it.
FreeHand ==
    \A t \in Loopers : pc[t] \notin {"accept", "ok", "error", "aborted"} => hand[t] = NoSession

LEMMA KeepFreeHand == EInv /\ FreeHand /\ [Next]_vars => FreeHand'
<1> SUFFICES ASSUME EInv, FreeHand, [Next]_vars PROVE FreeHand'
  OBVIOUS
<1>0. TypeOK
  BY DEF EInv
<1> USE DEF FreeHand, TypeOK, Goto, Return
<1>1. CASE StartStep
  BY <1>0, <1>1, EventOrder DEF StartStep, StartThreads, StoreRunning, StartListening, Joinable
<1>2. ASSUME NEW t \in Loopers, LoopStep(t) PROVE FreeHand'
  BY <1>0, <1>2 DEF LoopStep, CheckRunning, TakeSession, TakeSessionInto, AsyncAccept, RetryAcception
<1>3. ASSUME NEW w \in Workers, Dispatch(w) PROVE FreeHand'
  <2>1. PICK c \in completions :
            /\ hand' = [hand EXCEPT ![w] = c.session]
            /\ pc' = [pc EXCEPT ![w] = IF c.of = "accept" THEN c.ec ELSE IF c.ec = "ok" THEN "check" ELSE "run"]
    BY <1>3 DEF Dispatch
  <2>2. /\ c.of = "accept" => c.ec \in {"ok", "error", "aborted"}
        /\ c.of # "accept" => c.session = NoSession
    BY <1>0 DEF Handlers
  <2>3. QED BY <1>0, <2>1, <2>2
<1>4. ASSUME NEW w \in Workers, CompleteAcception(w) \/ LeaveRun(w) PROVE FreeHand'
  BY <1>0, <1>4 DEF CompleteAcception, LeaveRun
<1>5. ASSUME NEW s \in Stoppers, Stop(s) \/ StopStep(s) PROVE FreeHand'
  BY <1>0, <1>5 DEF Stop, StopStep, StopIoContext, CloseAcceptor, CancelTimer, JoinThreads, Joinable, Ended
<1>6. CASE EndAccept \/ ExpireTimer \/ RaceCrash
  BY <1>6 DEF EndAccept, ExpireTimer, RaceCrash
<1>7. CASE UNCHANGED vars
  BY <1>7 DEF vars
<1>8. QED BY <1>1, <1>2, <1>3, <1>4, <1>5, <1>6, <1>7 DEF Next, WorkerStep

\* What a step may do to the sessions: take one, put one back, or, in the completion
\* of an accept that succeeded while the engine runs, connect one.
EngineMoves ==
    \/ UNCHANGED pool /\ Taken' = Taken
    \/ \E s \in Sessions : Pool!Take(s) \/ Pool!GiveBack(s)
    \/ \E w \in Workers : /\ CompleteAcception(w) /\ pc[w] = "ok" /\ isRun
                          /\ hand[w] \in Sessions /\ Pool!Connect(hand[w])

LEMMA SessionMoves == EInv /\ FreeHand /\ [Next]_vars => EngineMoves
<1> SUFFICES ASSUME EInv, FreeHand, [Next]_vars PROVE EngineMoves
  OBVIOUS
<1>0. TypeOK /\ HandInv /\ Owned
  BY DEF EInv
<1> SUFFICES ASSUME ~(UNCHANGED pool /\ Taken' = Taken) PROVE EngineMoves
  BY DEF EngineMoves
<1>1. CASE StartStep
  BY <1>1 DEF StartStep, StartThreads, StoreRunning, StartListening, io, Taken
<1>2. ASSUME NEW t \in Loopers, LoopStep(t) PROVE EngineMoves
  <2>1. CASE CheckRunning(t) \/ RetryAcception(t)
    <3>1. CASE CheckRunning(t)
      BY <3>1 DEF CheckRunning, io, Taken
    <3>2. CASE RetryAcception(t)
      <4>1. \A s \in Sessions : (\E c \in completions' : c.session = s) <=> (\E c \in completions : c.session = s)
        BY <3>2 DEF RetryAcception, Waited
      <4>2. QED BY <3>2, <4>1 DEF RetryAcception, Taken
    <3>3. QED BY <2>1, <3>1, <3>2
  <2>2. CASE TakeSession(t)
    <3>1. PICK s \in pool : pool' = pool \ {s} /\ hand' = [hand EXCEPT ![t] = s]
      BY <2>2 DEF TakeSession, TakeSessionInto, TryPop, io, Taken
    <3>2. s \in Sessions /\ hand[t] = NoSession /\ UNCHANGED <<accepting, completions>>
      BY <1>0, <2>2 DEF TypeOK, FreeHand, TakeSession, io
    <3>3. hand'[t] = s /\ \A u \in Loopers \ {t} : hand'[u] = hand[u]
      BY <1>0, <3>1 DEF TypeOK
    <3>4. Taken' = Taken \cup {s}
      BY <3>2, <3>3 DEF Taken
    <3>5. QED BY <1>0, <3>1, <3>2, <3>4 DEF TypeOK, EngineMoves, Pool!Take, Connected
  <2>3. CASE AsyncAccept(t)
    <3>1. hand[t] \in Sessions /\ UNCHANGED pool
      BY <1>0, <2>3 DEF HandInv, AsyncAccept
    <3>2. hand'[t] = NoSession /\ \A u \in Loopers \ {t} : hand'[u] = hand[u]
      BY <1>0, <2>3 DEF AsyncAccept, TypeOK
    <3>3. Accepted(hand[t], "error").session = hand[t]
      BY DEF Accepted
    <3>4. CASE acceptor = "listening"
      BY <2>3, <3>1, <3>2, <3>4 DEF AsyncAccept, Taken
    <3>5. CASE acceptor # "listening"
      BY <2>3, <3>1, <3>2, <3>3, <3>5 DEF AsyncAccept, Taken
    <3>6. QED BY <3>4, <3>5
  <2>4. QED BY <1>2, <2>1, <2>2, <2>3 DEF LoopStep
<1>3. ASSUME NEW w \in Workers, Dispatch(w) PROVE EngineMoves
  <2>1. PICK c \in completions :
            completions' = completions \ {c} /\ hand' = [hand EXCEPT ![w] = c.session]
    BY <1>3 DEF Dispatch
  <2>2. /\ hand[w] = NoSession /\ hand'[w] = c.session
        /\ \A u \in Loopers \ {w} : hand'[u] = hand[u]
    BY <1>0, <1>3, <2>1 DEF Dispatch, FreeHand, TypeOK, Handlers
  <2>3. Taken' = Taken
    BY <1>3, <2>1, <2>2 DEF Dispatch, Taken
  <2>4. QED BY <1>3, <2>3 DEF Dispatch
<1>4. ASSUME NEW w \in Workers, CompleteAcception(w) PROVE EngineMoves
  <2>1. /\ hand[w] \in Sessions /\ hand[w] \notin pool
        /\ UNCHANGED <<accepting, completions>>
    BY <1>0, <1>4 DEF HandInv, Owned, CompleteAcception, io
  <2>2. hand'[w] = NoSession /\ \A u \in Loopers \ {w} : hand'[u] = hand[u]
    BY <1>0, <1>4 DEF CompleteAcception, TypeOK
  <2>3. Taken' = Taken \ {hand[w]} /\ hand[w] \in Taken
    BY <1>0, <2>1, <2>2 DEF Taken, Owned
  <2>4. CASE pool' = pool \cup {hand[w]}
    <3>1. Pool!GiveBack(hand[w])
      BY <1>0, <2>1, <2>3, <2>4 DEF TypeOK, Pool!GiveBack, Connected
    <3>2. QED BY <2>1, <3>1 DEF EngineMoves
  <2>5. CASE UNCHANGED pool /\ isRun /\ pc[w] = "ok"
    <3>1. Pool!Connect(hand[w])
      BY <1>0, <2>1, <2>3, <2>5 DEF TypeOK, Taken, Pool!Connect, Connected
    <3>2. QED BY <1>4, <2>1, <2>5, <3>1 DEF EngineMoves
  <2>6. QED BY <1>4, <2>4, <2>5 DEF CompleteAcception, ReleaseSession, Push
<1>5. ASSUME NEW w \in Workers, LeaveRun(w) PROVE EngineMoves
  BY <1>5 DEF LeaveRun, io, Taken
<1>6. ASSUME NEW s \in Stoppers, Stop(s) \/ StopStep(s) PROVE EngineMoves
  <2>1. CASE Stop(s) \/ StopIoContext(s) \/ JoinThreads(s)
    BY <2>1 DEF Stop, StopIoContext, JoinThreads, io, Taken
  <2>2. CASE CloseAcceptor(s)
    <3>1. \A x \in Sessions : (\E c \in completions' : c.session = x)
                                <=> (x \in accepting \/ \E c \in completions : c.session = x)
      <4>1. completions' = completions \cup {Accepted(a, "aborted") : a \in accepting}
        BY <2>2 DEF CloseAcceptor
      <4>2. \A a \in accepting : Accepted(a, "aborted").session = a
        BY DEF Accepted
      <4>3. \A a \in accepting : Accepted(a, "aborted") \in completions'
        BY <4>1
      <4>4. \A c \in completions' : c \in completions \/ \E a \in accepting : c = Accepted(a, "aborted")
        BY <4>1
      <4>5. QED BY <4>1, <4>2, <4>3, <4>4
    <3>2. QED BY <2>2, <3>1 DEF CloseAcceptor, Taken
  <2>3. CASE CancelTimer(s)
    <3>1. \A x \in Sessions : (\E c \in completions' : c.session = x) <=> (\E c \in completions : c.session = x)
      BY <2>3 DEF CancelTimer, Waited
    <3>2. QED BY <2>3, <3>1 DEF CancelTimer, Taken
  <2>4. QED BY <1>6, <2>1, <2>2, <2>3 DEF StopStep
<1>7. CASE EndAccept
  <2>1. PICK s \in accepting, ec \in {"ok", "error"} :
            accepting' = accepting \ {s} /\ completions' = completions \cup {Accepted(s, ec)}
    BY <1>7 DEF EndAccept
  <2>2. Accepted(s, ec).session = s
    BY DEF Accepted
  <2>3. Taken' = Taken
    BY <1>7, <2>1, <2>2 DEF EndAccept, Taken
  <2>4. QED BY <1>7, <2>3 DEF EndAccept
<1>8. CASE ExpireTimer
  <2>1. \A x \in Sessions : (\E c \in completions' : c.session = x) <=> (\E c \in completions : c.session = x)
    BY <1>8 DEF ExpireTimer, Waited
  <2>2. QED BY <1>8, <2>1 DEF ExpireTimer, Taken
<1>9. CASE RaceCrash \/ UNCHANGED vars
  BY <1>9 DEF RaceCrash, vars, io, Taken
<1>10. QED BY <1>1, <1>2, <1>3, <1>4, <1>5, <1>6, <1>7, <1>8, <1>9 DEF Next, WorkerStep

\* Every step takes a session, gives one back, connects one, or leaves all alone.
LEMMA PoolStep == EInv /\ FreeHand /\ [Next]_vars => [Pool!PoolNext]_(Pool!poolVars)
<1> SUFFICES ASSUME EInv, FreeHand, [Next]_vars, ~(UNCHANGED pool /\ Taken' = Taken) PROVE Pool!PoolNext
  BY DEF Pool!poolVars, Connected
<1>1. EngineMoves
  BY SessionMoves
<1>2. QED BY <1>1 DEF EngineMoves, Pool!PoolNext

\* ImplementsPool: the engine is a session pool whose sessions go out once
\* and come back once (BoostAcceptor.cpp:29-68, NetEngine.cpp:65-75).
THEOREM EngineIsAPool == Spec => ImplementsPool
<1>1. Init => FreeHand
  BY DEF Init, FreeHand
<1>2. Init => Pool!PoolInit
  BY DEF Init, Pool!PoolInit, Taken, Connected
<1>3. QED
  BY <1>1, <1>2, EngineInvariant, KeepFreeHand, PoolStep, PTL DEF Spec, ImplementsPool, Pool!PoolSpec

--------------------------------------------------------------------------------
(* Stopping.                                                               *)

\* A running engine has its threads and no stopper; so has one that is about to
\* run.  The exchange of m_isRun hands this over to one stopper.
StopperInv ==
    /\ OneStopper
    /\ isRun \/ pc[Starter] = "store" =>
          (\A s \in Stoppers : pc[s] = "idle") /\ (\A w \in Workers : pc[w] # "none")
    /\ pc[Starter] = "store" => ~isRun

LEMMA KeepStopperInv == TypeOK /\ StopperInv /\ [Next]_vars => StopperInv'
<1> SUFFICES ASSUME TypeOK, StopperInv, [Next]_vars PROVE StopperInv'
  OBVIOUS
<1>0. /\ pc \in [Threads -> WorkerSteps \cup StopperSteps \cup StarterSteps]
      /\ isRun \in BOOLEAN
      /\ \A c \in completions : c.of = "accept" => c.ec \in {"ok", "error", "aborted"}
  BY HandlerShape DEF TypeOK
<1> USE DEF StopperInv, OneStopper, Goto, Return
<1>1. CASE StartThreads
  BY <1>0, <1>1 DEF StartThreads, Joinable
<1>2. CASE StoreRunning
  BY <1>0, <1>2, EventOrder DEF StoreRunning
<1>3. CASE StartListening
  BY <1>0, <1>3 DEF StartListening
<1>4. ASSUME NEW t \in Loopers, LoopStep(t) PROVE StopperInv'
  BY <1>0, <1>4 DEF LoopStep, CheckRunning, TakeSession, AsyncAccept, RetryAcception
<1>5. ASSUME NEW w \in Workers, Dispatch(w) \/ CompleteAcception(w) \/ LeaveRun(w) PROVE StopperInv'
  BY <1>0, <1>5 DEF Dispatch, CompleteAcception, LeaveRun
<1>6. ASSUME NEW s \in Stoppers, Stop(s) PROVE StopperInv'
  BY <1>0, <1>6, EventOrder DEF Stop
<1>7. ASSUME NEW s \in Stoppers, StopStep(s) PROVE StopperInv'
  BY <1>0, <1>7, EventOrder DEF StopStep, StopIoContext, CloseAcceptor, CancelTimer, JoinThreads
<1>8. CASE EndAccept \/ ExpireTimer \/ RaceCrash \/ UNCHANGED vars
  BY <1>8 DEF EndAccept, ExpireTimer, RaceCrash, vars
<1>9. QED BY <1>1, <1>2, <1>3, <1>4, <1>5, <1>6, <1>7, <1>8 DEF Next, StartStep, WorkerStep

\* OneStopper: no two Stops join the threads at once (NetEngine.cpp:37-54).
THEOREM OneStopAtATime == Spec => []OneStopper
<1>1. Init => StopperInv
  BY DEF Init, StopperInv, OneStopper
<1>2. StopperInv => OneStopper
  BY DEF StopperInv
<1>3. QED BY <1>1, <1>2, KeepStopperInv, EngineTypeCorrect, PTL DEF Spec

\* StopAdvances: once the io_context is stopped every worker's step leads towards
\* its end, and a stopper's towards the join (NetEngine.cpp:41-54, BoostNetEngine.cpp:19-28).
THEOREM StopsOnlyAdvance == Spec => StopAdvances
<1> DEFINE StopStepAdvances ==
              /\ \A s \in Stoppers : pc[s] # "idle" => Nearer(s)
              /\ \A w \in Workers : ioStopped /\ pc[w] # "none" => Nearer(w)
<1>1. TypeOK /\ [Next]_vars => [StopStepAdvances]_vars
  <2> SUFFICES ASSUME TypeOK, Next PROVE StopStepAdvances
    OBVIOUS
  <2>0. /\ pc \in [Threads -> WorkerSteps \cup StopperSteps \cup StarterSteps]
        /\ \A w \in Workers  : pc[w] \in WorkerSteps
    BY DEF TypeOK
  <2> USE DEF Nearer, Goto, Return
  <2>1. /\ WayOut["none"] = 0 /\ WayOut["left"] = 1 /\ WayOut["run"] = 2 /\ WayOut["accept"] = 3
        /\ WayOut["retry"] = 3 /\ WayOut["take"] = 4 /\ WayOut["check"] = 5 /\ WayOut["ok"] = 6
        /\ WayOut["error"] = 6 /\ WayOut["aborted"] = 6
        /\ WayOut["idle"] = 0 /\ WayOut["join"] = 1 /\ WayOut["cancel"] = 2 /\ WayOut["close"] = 3
        /\ WayOut["stop_io"] = 4
    BY DEF WayOut
  <2>2. CASE StartStep
    BY <2>0, <2>2 DEF StartStep, StartThreads, StoreRunning, StartListening, Joinable
  <2>3. ASSUME NEW t \in Loopers, LoopStep(t) PROVE StopStepAdvances
    BY <2>0, <2>1, <2>3 DEF LoopStep, CheckRunning, TakeSession, AsyncAccept, RetryAcception
  <2>4. ASSUME NEW w \in Workers, Dispatch(w) \/ CompleteAcception(w) \/ LeaveRun(w) PROVE StopStepAdvances
    BY <2>0, <2>1, <2>4 DEF Dispatch, CompleteAcception, LeaveRun
  <2>5. ASSUME NEW s \in Stoppers, Stop(s) PROVE StopStepAdvances
    BY <2>0, <2>5 DEF Stop
  <2>6. ASSUME NEW s \in Stoppers, StopStep(s) PROVE StopStepAdvances
    BY <2>0, <2>1, <2>6, EventOrder DEF StopStep, StopIoContext, CloseAcceptor, CancelTimer, JoinThreads, Joinable, Ended
  <2>7. CASE EndAccept \/ ExpireTimer \/ RaceCrash
    BY <2>7 DEF EndAccept, ExpireTimer, RaceCrash
  <2>8. QED BY <2>2, <2>3, <2>4, <2>5, <2>6, <2>7 DEF Next, WorkerStep
<1>2. QED BY <1>1, EngineTypeCorrect, PTL DEF Spec, StopAdvances

\* The engine is stopped, and no Stop is on its way; Start may be, but not with
\* threads it is about to declare running.
AtRest == ~isRun /\ pc[Starter] # "store" /\ \A s \in Stoppers : pc[s] = "idle"

\* Stop leaves no thread behind: when it has returned every worker has ended and been
\* joined, also when it overtook the end of Start (NetEngine.cpp:26-55).  The
\* engine may be destroyed, and started again, without a std::thread that still runs.
NoThreadLeft == AtRest => \A w \in Workers : pc[w] = "none"

LEMMA KeepNoThreadLeft == TypeOK /\ StopperInv /\ NoThreadLeft /\ [Next]_vars => NoThreadLeft'
<1> SUFFICES ASSUME TypeOK, StopperInv, NoThreadLeft, [Next]_vars, AtRest'
             PROVE  \A w \in Workers : pc'[w] = "none"
  BY DEF NoThreadLeft
<1>0. pc \in [Threads -> WorkerSteps \cup StopperSteps \cup StarterSteps] /\ isRun \in BOOLEAN
  BY DEF TypeOK
<1> USE DEF Goto, Return
<1>1. CASE StartStep
  <2>1. ~StartThreads
    BY <1>0 DEF StartThreads, AtRest
  <2>2. ~StoreRunning
    BY DEF StoreRunning, AtRest
  <2>3. StartListening
    BY <1>1, <2>1, <2>2 DEF StartStep
  <2>4. AtRest /\ \A w \in Workers : pc'[w] = pc[w]
    BY <1>0, <2>3 DEF StartListening, AtRest
  <2>5. QED BY <2>4 DEF NoThreadLeft
<1>2. ASSUME NEW t \in Loopers, LoopStep(t) PROVE \A w \in Workers : pc'[w] = "none"
  <2>1. /\ pc[t] \in {"check", "take", "accept", "retry"} /\ isRun' = isRun
        /\ \A u \in Threads \ {t} : pc'[u] = pc[u]
    BY <1>0, <1>2 DEF LoopStep, CheckRunning, TakeSession, AsyncAccept, RetryAcception
  <2>2. AtRest
    BY <1>0, <2>1 DEF AtRest
  <2>3. QED BY <2>1, <2>2 DEF NoThreadLeft
<1>3. ASSUME NEW v \in Workers, Dispatch(v) \/ CompleteAcception(v) \/ LeaveRun(v)
      PROVE  \A w \in Workers : pc'[w] = "none"
  <2>1. /\ pc[v] # "none" /\ isRun' = isRun
        /\ \A u \in Threads \ {v} : pc'[u] = pc[u]
    BY <1>0, <1>3 DEF Dispatch, CompleteAcception, LeaveRun
  <2>2. AtRest
    BY <1>0, <2>1 DEF AtRest
  <2>3. QED BY <2>1, <2>2 DEF NoThreadLeft
<1>4. ASSUME NEW s \in Stoppers, Stop(s) \/ StopIoContext(s) \/ CloseAcceptor(s) \/ CancelTimer(s) PROVE FALSE
  <2>1. pc'[s] \in {"stop_io", "close", "cancel", "join"}
    BY <1>0, <1>4, EventOrder DEF Stop, StopIoContext, CloseAcceptor, CancelTimer
  <2>2. QED BY <2>1 DEF AtRest
<1>5. ASSUME NEW s \in Stoppers, JoinThreads(s) PROVE \A w \in Workers : pc'[w] = "none"
  BY <1>5 DEF JoinThreads
<1>6. CASE EndAccept \/ ExpireTimer \/ RaceCrash \/ UNCHANGED vars
  <2>1. UNCHANGED <<pc, isRun>>
    BY <1>6 DEF EndAccept, ExpireTimer, RaceCrash, vars
  <2>2. QED BY <2>1 DEF AtRest, NoThreadLeft
<1>7. QED BY <1>1, <1>2, <1>3, <1>4, <1>5, <1>6 DEF Next, WorkerStep, StopStep

THEOREM StopLeavesNoThread == Spec => []NoThreadLeft
<1>1. Init => StopperInv /\ NoThreadLeft
  BY DEF Init, StopperInv, OneStopper, NoThreadLeft
<1>2. QED BY <1>1, KeepStopperInv, KeepNoThreadLeft, EngineTypeCorrect, PTL DEF Spec

\* On a stopped io_context no worker is in the accept loop of an engine that says it runs.
IdleInv == ioStopped /\ (isRun \/ pc[Starter] = "store") => \A w \in Workers : ~LoopIn(w)

LEMMA KeepIdleInv == TypeOK /\ StopperInv /\ IdleInv /\ [Next]_vars => IdleInv'
<1> SUFFICES ASSUME TypeOK, StopperInv, IdleInv, [Next]_vars,
                    ioStopped', isRun' \/ pc'[Starter] = "store", NEW v \in Workers
             PROVE  ~LoopIn(v)'
  BY DEF IdleInv
<1>0. /\ pc \in [Threads -> WorkerSteps \cup StopperSteps \cup StarterSteps] /\ isRun \in BOOLEAN
      /\ isRun \/ pc[Starter] = "store" => \A s \in Stoppers : pc[s] = "idle"
      /\ pc[Starter] = "store" => ~isRun
  BY DEF TypeOK, StopperInv
<1> USE DEF Goto, Return
<1>1. CASE StartThreads
  BY <1>0, <1>1 DEF StartThreads, LoopIn, LoopSteps
<1>2. CASE StoreRunning \/ StartListening
  <2>1. ioStopped /\ (isRun \/ pc[Starter] = "store") /\ pc'[v] = pc[v]
    BY <1>0, <1>2 DEF StoreRunning, StartListening
  <2>2. QED BY <2>1 DEF IdleInv, LoopIn
<1>3. ASSUME NEW t \in Loopers, LoopStep(t) PROVE ~LoopIn(v)'
  <2>1. /\ pc[t] \in {"check", "take", "accept", "retry"} /\ isRun' = isRun /\ ioStopped
        /\ \A u \in Threads \ {t} : pc'[u] = pc[u]
        /\ t = Starter => pc'[Starter] # "store"
    BY <1>0, <1>3 DEF LoopStep, CheckRunning, TakeSession, AsyncAccept, RetryAcception
  <2>2. LoopIn(t)
    BY <2>1 DEF LoopIn, LoopSteps
  <2>3. \A w \in Workers : ~LoopIn(w)
    BY <2>1 DEF IdleInv
  <2>4. QED BY <2>1, <2>2, <2>3 DEF LoopIn
<1>4. ASSUME NEW w \in Workers, Dispatch(w) PROVE FALSE
  BY <1>4 DEF Dispatch
<1>5. ASSUME NEW w \in Workers, CompleteAcception(w) \/ LeaveRun(w) PROVE ~LoopIn(v)'
  <2>1. /\ isRun' = isRun /\ ioStopped /\ pc'[Starter] = pc[Starter]
        /\ pc[w] \in {"ok", "error", "aborted"} \/ pc'[w] = "left"
        /\ \A u \in Workers \ {w} : pc'[u] = pc[u]
    BY <1>0, <1>5 DEF CompleteAcception, LeaveRun
  <2>2. \A u \in Workers : ~LoopIn(u)
    BY <2>1 DEF IdleInv
  <2>3. pc'[w] = "left"
    BY <2>1, <2>2 DEF LoopIn, LoopSteps
  <2>4. QED BY <2>1, <2>2, <2>3 DEF LoopIn, LoopSteps
<1>6. ASSUME NEW s \in Stoppers, Stop(s) PROVE FALSE
  BY <1>0, <1>6 DEF Stop
<1>7. ASSUME NEW s \in Stoppers, StopStep(s) PROVE FALSE
  <2>1. pc[s] # "idle" /\ isRun' = isRun /\ pc'[Starter] = pc[Starter]
    BY <1>0, <1>7 DEF StopStep, StopIoContext, CloseAcceptor, CancelTimer, JoinThreads
  <2>2. QED BY <1>0, <2>1
<1>8. CASE EndAccept \/ ExpireTimer \/ RaceCrash \/ UNCHANGED vars
  <2>1. UNCHANGED <<pc, isRun, ioStopped>>
    BY <1>8 DEF EndAccept, ExpireTimer, RaceCrash, vars
  <2>2. QED BY <2>1 DEF IdleInv, LoopIn
<1>9. QED BY <1>1, <1>2, <1>3, <1>4, <1>5, <1>6, <1>7, <1>8 DEF Next, StartStep, WorkerStep

\* After the first Stop no client is ever connected, whatever is started later
\* (NetEngine.cpp:28-44, BoostNetEngine.cpp:19-28, BoostAcceptor.cpp:14-68).
THEOREM NoConnectionAfterStop == Spec => StopIsForGood
<1>1. Init => StopperInv /\ IdleInv /\ FreeHand
  BY DEF Init, StopperInv, OneStopper, IdleInv, FreeHand
<1>2. EInv /\ FreeHand /\ IdleInv /\ [Next]_vars => [ioStopped => ioStopped' /\ Connected' = Connected]_vars
  <2> SUFFICES ASSUME EInv, FreeHand, IdleInv, Next, ioStopped PROVE ioStopped' /\ Connected' = Connected
    OBVIOUS
  <2>1. ioStopped'
    <3>1. ASSUME NEW t \in Loopers, LoopStep(t) PROVE ioStopped'
      BY <3>1 DEF LoopStep, CheckRunning, TakeSession, AsyncAccept, RetryAcception
    <3>2. QED
      BY <3>1 DEF Next, StartStep, StartThreads, StoreRunning, StartListening, WorkerStep, Dispatch,
         CompleteAcception, LeaveRun, Stop, StopStep, StopIoContext, CloseAcceptor, CancelTimer, JoinThreads,
         EndAccept, ExpireTimer, RaceCrash
  <2>2. EngineMoves
    BY SessionMoves
  <2>3. CASE UNCHANGED pool /\ Taken' = Taken
    BY <2>1, <2>3 DEF Connected
  <2>4. ASSUME NEW s \in Sessions, Pool!Take(s) \/ Pool!GiveBack(s) PROVE Connected' = Connected
    BY <2>4 DEF Connected, Pool!Take, Pool!GiveBack
  <2>5. ASSUME NEW w \in Workers, pc[w] = "ok", isRun PROVE FALSE
    BY <2>5 DEF IdleInv, LoopIn, LoopSteps
  <2>6. QED BY <2>1, <2>2, <2>3, <2>4, <2>5 DEF EngineMoves
<1>3. QED
  BY <1>1, <1>2, EngineInvariant, EngineTypeCorrect, KeepStopperInv, KeepFreeHand, KeepIdleInv, PTL
     DEF Spec, StopIsForGood
================================================================================
