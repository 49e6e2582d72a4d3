------------------------------- MODULE StopWatch -------------------------------
(***************************************************************************)
(* StopWatch: two points in time, 0 for none, and durations computed from  *)
(* them in unsigned arithmetic.  Reset, Start and Stop come in any order.  *)
(***************************************************************************)
EXTENDS Integers

CONSTANTS Modulus,   \* 2^64 in the code
          Scales,    \* nanoseconds in a unit: 1, 10^3, 10^6 and 10^9 in the code
          MaxTime    \* bound of the model: the clock stops here, below Modulus

VARIABLES startPoint,   \* m_startPoint
          endPoint,     \* m_endPoint
          now,          \* the steady clock
          running       \* history: Start was called, and neither Stop nor Reset since

vars == <<startPoint, endPoint, now, running>>

\* The steady clock has been running since the machine's start.
Init == startPoint = 0 /\ endPoint = 0 /\ now = 1 /\ running = FALSE

GetNow == now

Start == startPoint' = GetNow /\ running' = TRUE /\ UNCHANGED <<endPoint, now>>

Stop == endPoint' = GetNow /\ running' = FALSE /\ UNCHANGED <<startPoint, now>>

Reset == startPoint' = 0 /\ endPoint' = 0 /\ running' = FALSE /\ UNCHANGED now

Tick == now < MaxTime /\ now' = now + 1 /\ UNCHANGED <<startPoint, endPoint, running>>

Next == Start \/ Stop \/ Reset \/ Tick

Spec == Init /\ [][Next]_vars

Minus(x, y) == (x - y) % Modulus

GetDurationNs ==
    IF 0 < startPoint /\ 0 = endPoint THEN Minus(GetNow, startPoint)
    ELSE Minus(endPoint, startPoint)

\* GetDurationNs, Us, Ms and Sec.
GetDuration(scale) == GetDurationNs \div scale

--------------------------------------------------------------------------------
\* What the comment in GetDurationNs and the test Tick say: a watch that was
\* started and not stopped yet shows the time since its start (StopWatch.cpp:28).
RunningShowsNow ==
    running => \A scale \in Scales : GetDuration(scale) = Minus(now, startPoint) \div scale
================================================================================
