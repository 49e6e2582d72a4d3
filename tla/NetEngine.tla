------------------------------- MODULE NetEngine -------------------------------
(***************************************************************************)
(* The server engine: NetEngine (threads, running flag, session pool),     *)
(* BoostNetEngine (io_context) and BoostAcceptor (the accept loop), as     *)
(* BoostNetEngineServer puts them together.                                *)
(*                                                                         *)
(* One thread, the starter, calls Start; any stopper may call Stop, also   *)
(* while Start is still running.  The workers run the acceptor's handlers. *)
(* Code of the accept loop runs on the starter first (StartListening) and  *)
(* on the workers afterwards, with nothing but the loop itself to keep two *)
(* of them apart; StopListening runs on a stopper at the same time.        *)
(***************************************************************************)
EXTENDS Naturals, Sequences

CONSTANTS Workers,    \* the I/O threads
          Starter,    \* the thread that calls Start
          Stoppers,   \* threads that may call Stop
          Sessions,   \* the sessions the constructor puts into the pool
          MaxStarts   \* bound of the model: Start is called this often

NoSession == "none"

ASSUME EngineAssumption ==
    /\ Workers # {} /\ Sessions # {} /\ MaxStarts \in Nat \ {0} /\ NoSession \notin Sessions
    /\ Starter \notin Workers /\ (Workers \cup {Starter}) \cap Stoppers = {}

VARIABLES isRun,        \* m_isRun
          pool,         \* m_sessionPool
          ioStopped,    \* io_context::stop has been called; nothing calls restart
          acceptor,     \* m_rawAcceptor
          accepting,    \* sessions with an async_accept in progress
          timer,        \* m_acceptRetryTimer
          completions,  \* acceptor handlers ready to run in the io_context
          pc,           \* where each thread is
          hand,         \* the session each thread holds a pointer to
          starts,       \* calls of Start
          alive         \* the process still runs

io   == <<acceptor, accepting, timer, completions>>
vars == <<isRun, pool, ioStopped, io, pc, hand, starts, alive>>

Threads == Workers \cup {Starter} \cup Stoppers
Loopers == Workers \cup {Starter}

Init ==
    /\ isRun = FALSE /\ pool = Sessions /\ ioStopped = FALSE
    /\ acceptor = "closed" /\ accepting = {} /\ timer = "idle" /\ completions = {}
    /\ pc = [t \in Threads |-> IF t \in Workers THEN "none" ELSE "idle"]
    /\ hand = [t \in Loopers |-> NoSession]
    /\ starts = 0 /\ alive = TRUE

Goto(t, step) == pc' = [pc EXCEPT ![t] = step]

Accepted(s, ec) == [of |-> "accept", session |-> s, ec |-> ec]
Waited(ec)      == [of |-> "timer", session |-> NoSession, ec |-> ec]

\* Where a thread goes when the accept loop's code returns: the starter leaves
\* Start, a worker goes back into io_context::run.
Return(t) == IF t = Starter THEN "idle" ELSE "run"

--------------------------------------------------------------------------------
(* What the engine is put together from.                                   *)

\* LockStack: every call is one critical section that moves one item in or out.
\* Which session is on top makes no difference, so the stack is a set and TryPop
\* takes any.
TryPop(s) == s \in pool /\ pool' = pool \ {s}
Push(s)   == pool' = pool \cup {s}

\* NetEngine::TakeSession and ReleaseSession.
TakeSessionInto(t) == \E s \in pool : TryPop(s) /\ hand' = [hand EXCEPT ![t] = s]
ReleaseSession(t)  == Push(hand[t])

\* Delegate: callbacks run in the order they were subscribed, the base class's
\* constructor first.
Subscribe(events, event) == Append(events, event)
BaseStopEvents == Subscribe(<<>>, "stop_io")
StartEvents    == Subscribe(<<>>, "open")
StopEvents     == Subscribe(BaseStopEvents, "close")

\* Where Invoke goes from one callback: to the next one, or on with its caller.
Invoke(events, caller) == IF events = <<>> THEN caller ELSE Head(events)
AfterEvent(events, event, caller) ==
    LET at == CHOOSE i \in DOMAIN events : events[i] = event
    IN  Invoke(SubSeq(events, at + 1, Len(events)), caller)

\* Thread::Join returns when the thread's function has.
Joinable(w) == pc[w] # "none"
Ended(w)    == pc[w] = "left"

--------------------------------------------------------------------------------
(* NetEngine::Start, on the starter, not before an earlier Stop returned.  *)

StartThreads ==
    /\ starts < MaxStarts
    /\ \A w \in Workers : ~Joinable(w)
    /\ \A t \in Stoppers \cup {Starter} : pc[t] = "idle"
    /\ starts' = starts + 1
    /\ pc' = [t \in Threads |-> IF t \in Workers THEN "run" ELSE IF t = Starter THEN "store" ELSE pc[t]]
    /\ UNCHANGED <<isRun, pool, ioStopped, io, hand, alive>>

StoreRunning ==
    /\ pc[Starter] = "store"
    /\ isRun' = TRUE
    /\ Goto(Starter, Invoke(StartEvents, "idle"))
    /\ UNCHANGED <<pool, ioStopped, io, hand, starts, alive>>

\* The start event, BoostAcceptor::StartListening.  bind or listen may throw, and
\* open does when the acceptor is open: Start is left without an accept loop.
StartListening ==
    /\ pc[Starter] = "open"
    /\ \/ acceptor = "closed" /\ acceptor' = "listening" /\ Goto(Starter, "check")
       \/ acceptor = "closed" /\ acceptor' = "unbound" /\ Goto(Starter, "idle")
       \/ acceptor # "closed" /\ UNCHANGED acceptor /\ Goto(Starter, "idle")
    /\ UNCHANGED <<isRun, pool, ioStopped, accepting, timer, completions, hand, starts, alive>>

--------------------------------------------------------------------------------
(* The accept loop, on the starter or on a worker.                         *)

\* AcceptSession, first test.
CheckRunning(t) ==
    /\ pc[t] = "check"
    /\ Goto(t, IF isRun THEN "take" ELSE Return(t))
    /\ UNCHANGED <<isRun, pool, ioStopped, io, hand, starts, alive>>

\* Mutant: the empty pool goes unnoticed.
TakeSessionUnchecked(t) ==
    /\ pc[t] = "take"
    /\ \E s \in pool \cup {NoSession} :
          /\ pool' = pool \ {s}
          /\ hand' = [hand EXCEPT ![t] = s]
    /\ Goto(t, "accept")
    /\ UNCHANGED <<isRun, ioStopped, io, starts, alive>>

\* TakeBoostSession.
TakeSession(t) ==
    /\ pc[t] = "take"
    /\ \/ /\ pool = {}
          /\ Goto(t, "retry")
          /\ UNCHANGED <<pool, hand>>
       \/ TakeSessionInto(t) /\ Goto(t, "accept")
    /\ UNCHANGED <<isRun, ioStopped, io, starts, alive>>

\* Mutant: the retry is armed behind a started accept too.
AsyncAcceptAndRetry(t) ==
    /\ pc[t] = "accept" /\ acceptor = "listening"
    /\ accepting' = accepting \cup {hand[t]}
    /\ hand' = [hand EXCEPT ![t] = NoSession]
    /\ Goto(t, "retry")
    /\ UNCHANGED <<isRun, pool, ioStopped, acceptor, timer, completions, starts, alive>>

\* Mutant: the session of a failed start goes back at once, and with its handler again.
AsyncAcceptPutsBack(t) ==
    /\ pc[t] = "accept"
    /\ IF acceptor = "listening"
       THEN accepting' = accepting \cup {hand[t]} /\ UNCHANGED <<completions, pool>>
       ELSE /\ completions' = completions \cup {Accepted(hand[t], "error")}
            /\ pool' = pool \cup {hand[t]}
            /\ UNCHANGED accepting
    /\ hand' = [hand EXCEPT ![t] = NoSession]
    /\ Goto(t, Return(t))
    /\ UNCHANGED <<isRun, ioStopped, acceptor, timer, starts, alive>>

\* async_accept; on a closed acceptor it completes with an error.
AsyncAccept(t) ==
    /\ pc[t] = "accept"
    /\ IF acceptor = "listening"
       THEN accepting' = accepting \cup {hand[t]} /\ UNCHANGED completions
       ELSE completions' = completions \cup {Accepted(hand[t], "error")} /\ UNCHANGED accepting
    /\ hand' = [hand EXCEPT ![t] = NoSession]
    /\ Goto(t, Return(t))
    /\ UNCHANGED <<isRun, pool, ioStopped, acceptor, timer, starts, alive>>

\* RetryAcception: expires_after cancels a wait in progress, async_wait starts one.
RetryAcception(t) ==
    /\ pc[t] = "retry"
    /\ timer' = "waiting"
    /\ completions' = IF timer = "waiting" THEN completions \cup {Waited("aborted")} ELSE completions
    /\ Goto(t, Return(t))
    /\ UNCHANGED <<isRun, pool, ioStopped, acceptor, accepting, hand, starts, alive>>

--------------------------------------------------------------------------------
(* The workers in io_context::run.                                         *)

\* Mutant: handlers run on after the stop.
DispatchStopped(w) ==
    /\ pc[w] = "run"
    /\ \E c \in completions :
          /\ completions' = completions \ {c}
          /\ hand' = [hand EXCEPT ![w] = c.session]
          /\ Goto(w, IF c.of = "accept" THEN c.ec ELSE IF c.ec = "ok" THEN "check" ELSE "run")
    /\ UNCHANGED <<isRun, pool, ioStopped, acceptor, accepting, timer, starts, alive>>

\* A worker picks a handler; the retry handler goes on to AcceptSession, or
\* returns when the wait was aborted.
Dispatch(w) ==
    /\ pc[w] = "run" /\ ~ioStopped
    /\ \E c \in completions :
          /\ completions' = completions \ {c}
          /\ hand' = [hand EXCEPT ![w] = c.session]
          /\ Goto(w, IF c.of = "accept" THEN c.ec ELSE IF c.ec = "ok" THEN "check" ELSE "run")
    /\ UNCHANGED <<isRun, pool, ioStopped, acceptor, accepting, timer, starts, alive>>

\* Mutant: an error ends the loop.
CompleteAcceptionStops(w) ==
    /\ pc[w] \in {"ok", "error", "aborted"}
    /\ IF isRun /\ pc[w] = "ok" THEN UNCHANGED pool ELSE ReleaseSession(w)
    /\ hand' = [hand EXCEPT ![w] = NoSession]
    /\ Goto(w, IF isRun /\ pc[w] = "ok" THEN "check" ELSE "run")
    /\ UNCHANGED <<isRun, ioStopped, io, starts, alive>>

\* Mutant: m_isRun is not asked.
CompleteAcceptionUntested(w) ==
    /\ pc[w] \in {"ok", "error", "aborted"}
    /\ IF pc[w] = "ok" THEN UNCHANGED pool ELSE ReleaseSession(w)
    /\ hand' = [hand EXCEPT ![w] = NoSession]
    /\ Goto(w, IF pc[w] # "aborted" THEN "check" ELSE "run")
    /\ UNCHANGED <<isRun, ioStopped, io, starts, alive>>

\* CompleteAcception.  A connected session is neither stored nor started: the
\* last pointer to it goes away with the handler.
CompleteAcception(w) ==
    /\ pc[w] \in {"ok", "error", "aborted"}
    /\ IF isRun /\ pc[w] = "ok" THEN UNCHANGED pool ELSE ReleaseSession(w)
    /\ hand' = [hand EXCEPT ![w] = NoSession]
    /\ Goto(w, IF isRun /\ pc[w] # "aborted" THEN "check" ELSE "run")
    /\ UNCHANGED <<isRun, ioStopped, io, starts, alive>>

\* run returns: at once when stopped, handlers that are ready stay behind.
LeaveRun(w) ==
    /\ pc[w] = "run" /\ ioStopped
    /\ Goto(w, "left")
    /\ UNCHANGED <<isRun, pool, ioStopped, io, hand, starts, alive>>

--------------------------------------------------------------------------------
(* NetEngine::Stop, on a stopper.  A call that finds the engine stopped    *)
(* returns at once and is no step.                                         *)

\* Mutant: the threads are joined before the stop events.
StopJoinsFirst(s) ==
    /\ pc[s] = "idle" /\ isRun
    /\ isRun' = FALSE
    /\ Goto(s, "join")
    /\ UNCHANGED <<pool, ioStopped, io, hand, starts, alive>>

\* Mutant: m_isRun is read, not exchanged.
StopLeavesRunning(s) ==
    /\ pc[s] = "idle" /\ isRun
    /\ Goto(s, Invoke(StopEvents, "join"))
    /\ UNCHANGED <<isRun, pool, ioStopped, io, hand, starts, alive>>

Stop(s) ==
    /\ pc[s] = "idle" /\ isRun
    /\ isRun' = FALSE
    /\ Goto(s, Invoke(StopEvents, "join"))
    /\ UNCHANGED <<pool, ioStopped, io, hand, starts, alive>>

\* BoostNetEngine's stop event.
StopIoContext(s) ==
    /\ pc[s] = "stop_io"
    /\ ioStopped' = TRUE
    /\ Goto(s, AfterEvent(StopEvents, "stop_io", "join"))
    /\ UNCHANGED <<isRun, pool, io, hand, starts, alive>>

\* BoostNetEngineServer's, StopListening: close aborts the accepts in progress,
\* cancel the wait.
CloseAcceptor(s) ==
    /\ pc[s] = "close"
    /\ acceptor' = "closed"
    /\ accepting' = {}
    /\ completions' = completions \cup {Accepted(a, "aborted") : a \in accepting}
    /\ Goto(s, "cancel")
    /\ UNCHANGED <<isRun, pool, ioStopped, timer, hand, starts, alive>>

CancelTimer(s) ==
    /\ pc[s] = "cancel"
    /\ timer' = "idle"
    /\ completions' = IF timer = "waiting" THEN completions \cup {Waited("aborted")} ELSE completions
    /\ Goto(s, AfterEvent(StopEvents, "close", "join"))
    /\ UNCHANGED <<isRun, pool, ioStopped, acceptor, accepting, hand, starts, alive>>

\* Every thread is joined, and Stop returns.
JoinThreads(s) ==
    /\ pc[s] = "join"
    /\ \A w \in Workers : Joinable(w) => Ended(w)
    /\ pc' = [t \in Threads |-> IF t \in Workers THEN "none" ELSE IF t = s THEN "idle" ELSE pc[t]]
    /\ UNCHANGED <<isRun, pool, ioStopped, io, hand, starts, alive>>

--------------------------------------------------------------------------------
(* Clients, the clock and the process.                                     *)

\* A client connects, or accepting fails (no descriptor left, an aborted
\* handshake); noticed only while a worker may be in run.
EndAccept ==
    /\ ~ioStopped
    /\ \E s \in accepting, ec \in {"ok", "error"} :
          /\ accepting' = accepting \ {s}
          /\ completions' = completions \cup {Accepted(s, ec)}
    /\ UNCHANGED <<isRun, pool, ioStopped, acceptor, timer, pc, hand, starts, alive>>

ExpireTimer ==
    /\ ~ioStopped /\ timer = "waiting"
    /\ timer' = "idle"
    /\ completions' = completions \cup {Waited("ok")}
    /\ UNCHANGED <<isRun, pool, ioStopped, acceptor, accepting, pc, hand, starts, alive>>

\* A stopper and a loop thread inside the acceptor, or inside the timer, at once:
\* the calls take effect in either order (the actions above), or the process dies.
RaceCrash ==
    /\ \E s \in Stoppers, t \in Loopers :
          <<pc[s], pc[t]>> \in {<<"close", "open">>, <<"close", "accept">>, <<"cancel", "retry">>}
    /\ alive' = FALSE
    /\ UNCHANGED <<isRun, pool, ioStopped, io, pc, hand, starts>>

--------------------------------------------------------------------------------
StartStep == StartThreads \/ StoreRunning \/ StartListening

LoopStep(t) == CheckRunning(t) \/ TakeSession(t) \/ AsyncAccept(t) \/ RetryAcception(t)

WorkerStep(w) == LoopStep(w) \/ Dispatch(w) \/ CompleteAcception(w) \/ LeaveRun(w)

StopStep(s) == StopIoContext(s) \/ CloseAcceptor(s) \/ CancelTimer(s) \/ JoinThreads(s)

Next ==
    /\ alive
    /\ \/ StartStep \/ LoopStep(Starter)
       \/ \E w \in Workers : WorkerStep(w)
       \/ \E s \in Stoppers : Stop(s) \/ StopStep(s)
       \/ EndAccept \/ ExpireTimer \/ RaceCrash

Spec == Init /\ [][Next]_vars

\* Every thread goes on with what it has begun; the clock runs.  Nobody has to
\* call Start or Stop, and no client has to connect.
FairSpec ==
    /\ Spec
    /\ WF_vars(alive /\ (StoreRunning \/ StartListening \/ LoopStep(Starter)))
    /\ \A w \in Workers : WF_vars(alive /\ WorkerStep(w))
    /\ \A s \in Stoppers : WF_vars(alive /\ StopStep(s))
    /\ WF_vars(alive /\ ExpireTimer)

--------------------------------------------------------------------------------
(* Properties.                                                             *)

LoopSteps    == {"check", "take", "accept", "retry", "ok", "error", "aborted"}
WorkerSteps  == {"none", "run", "left"} \cup LoopSteps
StopperSteps == {"idle", "stop_io", "close", "cancel", "join"}
StarterSteps == {"idle", "store", "open", "check", "take", "accept", "retry"}

Handlers == [of : {"accept"}, session : Sessions, ec : {"ok", "error", "aborted"}]
            \cup [of : {"timer"}, session : {NoSession}, ec : {"ok", "aborted"}]

\* The variables keep the shape of the members and of the threads' positions
\* (NetEngine.h, BoostAcceptor.h).
TypeOK ==
    /\ isRun \in BOOLEAN /\ ioStopped \in BOOLEAN /\ alive \in BOOLEAN
    /\ pool \subseteq Sessions /\ accepting \subseteq Sessions
    /\ acceptor \in {"closed", "unbound", "listening"}
    /\ timer \in {"idle", "waiting"}
    /\ completions \subseteq Handlers
    /\ pc \in [Threads -> WorkerSteps \cup StopperSteps \cup StarterSteps]
    /\ \A w \in Workers  : pc[w] \in WorkerSteps
    /\ \A s \in Stoppers : pc[s] \in StopperSteps
    /\ pc[Starter] \in StarterSteps
    /\ hand \in [Loopers -> Sessions \cup {NoSession}]
    /\ starts \in 0 .. MaxStarts

\* The accept loop, in each form it can take: a thread in its code, an accept or
\* a wait in progress, a handler that will carry it on.
LoopIn(t)  == pc[t] \in LoopSteps
CarriesOn(c) == c.of = "accept" \/ c.ec = "ok"
Loops == {<<"thread", t>> : t \in {u \in Loopers : LoopIn(u)}}
         \cup {<<"accept", s>> : s \in accepting}
         \cup {<<"handler", c>> : c \in {d \in completions : CarriesOn(d)}}
         \cup {<<"timer", t>> : t \in {timer} \ {"idle"}}

\* There is never a second accept loop: m_rawAcceptor and m_acceptRetryTimer have
\* no lock and no strand, and are safe only because start, completion and retry
\* hand the loop over (BoostAcceptor.cpp:20, 37, 41-43, 61, 67, 74-83).  What a
\* stopped io_context still holds never runs and does not count.
OneAcceptLoop ==
    /\ \A t, u \in Loopers : LoopIn(t) /\ LoopIn(u) => t = u
    /\ ~ioStopped => \A a, b \in Loops : a = b

\* As long as the engine runs and listens, the loop has not died: not after an
\* empty pool, a failed accept, or an accept between the creation of the threads
\* and m_isRun (NetEngine.cpp:31-38, BoostAcceptor.cpp:31-45, 55-67).
AcceptLoopAlive ==
    isRun /\ ~ioStopped /\ pc[Starter] = "idle" /\ acceptor = "listening" => Loops # {}

\* A session is in one place at most: no session is put back into the pool while
\* an accept, a handler or a thread still uses it, and none is put back twice
\* (BoostAcceptor.cpp:34-44, 47-68; NetEngine.cpp:65-75).
Places(s) == {<<"pool", p>> : p \in pool \cap {s}}
             \cup {<<"accept", a>> : a \in accepting \cap {s}}
             \cup {<<"handler", c>> : c \in {d \in completions : d.session = s}}
             \cup {<<"thread", t>> : t \in {u \in Loopers : hand[u] = s}}

SessionOwned == \A s \in Sessions : \A a, b \in Places(s) : a = b

Taken == {s \in Sessions : \/ s \in accepting
                           \/ \E c \in completions : c.session = s
                           \/ \E t \in Loopers : hand[t] = s}

\* The sessions that went to a client.
Connected == Sessions \ (pool \cup Taken)

\* The engine implements the pool's promise: whatever fails, stops or races, every
\* session taken for an accept comes back once or goes to one client, and one that
\* went to a client is never taken again (BoostAcceptor.cpp:29-68, NetEngine.cpp:65-75).
Pool == INSTANCE SessionPool WITH free <- pool, taken <- Taken, connected <- Connected

ImplementsPool == Pool!PoolSpec

\* What main.cpp notes of the sessions: a connected one has to be kept somewhere,
\* or it is destroyed.  None is out of every place while the engine goes on.
SessionsKept == \A s \in Sessions : Places(s) # {}

\* Two Stops are never on their way at once, so no std::thread is joined by two
\* threads, whenever the calls come and whether or not Start has returned: the
\* exchange of m_isRun lets one of them in (NetEngine.cpp:37-54, Thread.cpp:18-24).
OneStopper == \A s, u \in Stoppers : pc[s] # "idle" /\ pc[u] # "idle" => s = u

\* How far a worker is from its end, and a stopper from its return.
WayOut == [none |-> 0, left |-> 1, run |-> 2, accept |-> 3, retry |-> 3, take |-> 4, check |-> 5,
           ok |-> 6, error |-> 6, aborted |-> 6,
           idle |-> 0, join |-> 1, cancel |-> 2, close |-> 3, stop_io |-> 4]

Nearer(t) == pc'[t] = pc[t] \/ WayOut[pc'[t]] < WayOut[pc[t]]

\* Why Stop returns: a stopper goes on to the join, and once io_context::stop was
\* called every step of a worker brings it nearer to its end.  The accept loop,
\* which goes round for ever, is no way back (NetEngine.cpp:41-54,
\* BoostNetEngine.cpp:19-28, BoostAcceptor.cpp:29-84).
StopAdvances ==
    [][/\ \A s \in Stoppers : pc[s] # "idle" => Nearer(s)
       /\ \A w \in Workers : ioStopped /\ pc[w] # "none" => Nearer(w)]_vars

\* A handler that was running when Stop came connects nobody any more, and the first
\* Stop is for good, because nothing calls io_context::restart: Start may be called
\* again, or go on inside its events and open the acceptor that was just closed, and
\* take a session for an accept, but no client is ever connected
\* (NetEngine.cpp:28-44, BoostNetEngine.cpp:19-28, BoostAcceptor.cpp:14-68).
StopIsForGood == [][ioStopped => ioStopped' /\ Connected' = Connected]_vars

\* Stop returns: every thread can be joined, wherever the accept loop was when
\* m_isRun fell (NetEngine.cpp:41-54, BoostNetEngine.cpp:24-28).
StopTerminates == \A s \in Stoppers : pc[s] # "idle" ~> (pc[s] = "idle" \/ ~alive)
================================================================================
