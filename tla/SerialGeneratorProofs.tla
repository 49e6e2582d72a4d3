------------------------- MODULE SerialGeneratorProofs -------------------------
(***************************************************************************)
(* Proofs about SerialGenerator, for every width of its fields.            *)
(***************************************************************************)
EXTENDS SerialGenerator, TLAPS

USE SerialAssumption DEF SerialAssumption

\* Two numbers written next to each other, the right one below R, can be told apart.
LEMMA FieldsApart ==
    ASSUME NEW R \in Nat \ {0}, NEW a \in Nat, NEW c \in Nat,
           NEW b \in 0 .. R - 1, NEW d \in 0 .. R - 1,
           Beside(a, R, b) = Beside(c, R, d)
    PROVE  a = c /\ b = d
<1> USE DEF Beside
<1>1. ASSUME NEW x \in Nat, NEW y \in Nat, NEW u \in 0 .. R - 1, NEW v \in 0 .. R - 1,
             Beside(x, R, u) = Beside(y, R, v), x < y
      PROVE  FALSE
  <2>1. PICK n \in Nat : y = x + 1 + n
    <3>1. y - x - 1 \in Nat /\ y = x + 1 + (y - x - 1)
      BY <1>1
    <3>2. QED BY <3>1
  <2>2. y * R = x * R + R + n * R /\ n * R \in Nat /\ x * R \in Nat
    BY <2>1, <1>1
  <2>3. QED BY <1>1, <2>2
<1>2. ~(a < c)
  BY <1>1
<1>3. ~(c < a)
  BY <1>1
<1>4. a = c
  BY <1>2, <1>3
<1>5. a * R \in Nat
  OBVIOUS
<1>6. QED BY <1>4, <1>5

\* The counter's next value, without the remainder.
LEMMA Wraps == \A id \in Ids : Incremented(id) = IF id + 1 = IdRange THEN 0 ELSE id + 1
<1>1. ASSUME NEW id \in Ids PROVE Incremented(id) = IF id + 1 = IdRange THEN 0 ELSE id + 1
  <2>1. CASE id + 1 = IdRange
    BY <2>1 DEF Incremented, Ids
  <2>2. CASE id + 1 < IdRange
    BY <2>2 DEF Incremented, Ids
  <2>3. QED BY <2>1, <2>2 DEF Ids
<1>2. QED BY <1>1

\* The counter n steps after id, for no more steps than the counter has values.
StepsAfter(id, n) == IF id + n < IdRange THEN id + n ELSE id + n - IdRange

\* All calls of g from the i-th to the j-th were made in second t.
SameSecond(g, i, j, t) == \A k \in i .. j : calls[g][k].second = t

\* m_lastTime is the second of the last call.
LastInv ==
    \A g \in Generators : calls[g] # <<>> => lastTime[g] = calls[g][Len(calls[g])].second

\* While the second lasts, the counter goes on from the counter of each call.
CounterInv ==
    \A g \in Generators : \A i \in 1 .. Len(calls[g]) :
        Len(calls[g]) - i < IdRange /\ SameSecond(g, i, Len(calls[g]), lastTime[g]) =>
            baseId[g] = StepsAfter(calls[g][i].id, Len(calls[g]) - i + 1)

\* No counter returns within a second before all its values were used.
NoRepeatInv ==
    \A g \in Generators : \A i, j \in 1 .. Len(calls[g]) :
        i < j /\ j - i < IdRange /\ SameSecond(g, i, j, calls[g][i].second) =>
            calls[g][i].id # calls[g][j].id

SInv == TypeOK /\ LastInv /\ CounterInv /\ NoRepeatInv

LEMMA CallStep ==
    ASSUME SInv, NEW g \in Generators, NEW t \in Seconds, CreateSerial(g, t)
    PROVE  SInv'
<1> DEFINE n == Len(calls[g])
           id == IdAt(g, t)
<1>1. /\ calls[g] \in Seq(Calls) /\ n \in Nat
      /\ lastTime[g] \in Nat /\ baseId[g] \in Ids
      /\ t \in Nat /\ 0 \in Ids /\ id \in Ids
  <2>1. calls[g] \in Seq(Calls) /\ lastTime[g] \in Nat /\ baseId[g] \in Ids
    BY DEF SInv, TypeOK
  <2>2. 0 \in Ids /\ t \in Nat
    BY DEF Ids
  <2>3. QED BY <2>1, <2>2 DEF IdAt
<1>2. /\ lastTime' = [lastTime EXCEPT ![g] = t]
      /\ baseId' = [baseId EXCEPT ![g] = Incremented(id)]
      /\ calls' = [calls EXCEPT ![g] = Append(calls[g], [second |-> t, id |-> id])]
  BY DEF CreateSerial
<1>3. Incremented(id) \in Ids /\ Incremented(id) = IF id + 1 = IdRange THEN 0 ELSE id + 1
  BY <1>1, Wraps DEF Ids
<1>4. /\ lastTime'[g] = t /\ baseId'[g] = Incremented(id)
      /\ calls'[g] = Append(calls[g], [second |-> t, id |-> id])
      /\ \A h \in Generators \ {g} :
            lastTime'[h] = lastTime[h] /\ baseId'[h] = baseId[h] /\ calls'[h] = calls[h]
  BY <1>2 DEF SInv, TypeOK
<1>5. TypeOK'
  <2>1. [second |-> t, id |-> id] \in Calls
    BY <1>1 DEF Calls
  <2>2. QED BY <1>1, <1>2, <1>3, <2>1 DEF SInv, TypeOK
<1>6. /\ Len(calls'[g]) = n + 1
      /\ calls'[g][n + 1].second = t /\ calls'[g][n + 1].id = id
      /\ \A i \in 1 .. n : calls'[g][i] = calls[g][i]
      /\ \A i \in 1 .. n : calls[g][i].id \in Ids
  <2>1. \A i \in 1 .. n : calls[g][i] \in Calls
    BY <1>1
  <2>2. \A i \in 1 .. n : calls[g][i].id \in Ids
    BY <2>1 DEF Calls
  <2>3. /\ Len(calls'[g]) = n + 1
        /\ calls'[g][n + 1] = [second |-> t, id |-> id]
        /\ \A i \in 1 .. n : calls'[g][i] = calls[g][i]
    BY <1>1, <1>4
  <2>4. QED BY <2>2, <2>3
<1> HIDE DEF n, id
<1>7. LastInv'
  <2>1. ASSUME NEW h \in Generators, calls'[h] # <<>>
        PROVE  lastTime'[h] = calls'[h][Len(calls'[h])].second
    <3>1. CASE h = g
      BY <3>1, <1>4, <1>6
    <3>2. CASE h # g
      BY <2>1, <3>2, <1>4 DEF SInv, LastInv
    <3>3. QED BY <3>1, <3>2
  <2>2. QED BY <2>1 DEF LastInv
\* What the invariant says of an earlier call of the same second.
<1>8. ASSUME NEW i \in 1 .. n, n - i < IdRange, \A k \in i .. n : calls[g][k].second = t
      PROVE  id = StepsAfter(calls[g][i].id, n - i + 1)
  <2>1. lastTime[g] = t
    <3>1. calls[g] # <<>> /\ n \in i .. n
      BY <1>1, <1>8 DEF n
    <3>2. QED BY <3>1, <1>8 DEF SInv, LastInv, n
  <2>2. id = baseId[g]
    BY <2>1 DEF id, IdAt
  <2>3. SameSecond(g, i, Len(calls[g]), lastTime[g])
    BY <1>8, <2>1 DEF SameSecond, n
  <2>4. baseId[g] = StepsAfter(calls[g][i].id, n - i + 1)
    <3>1. CounterInv
      BY DEF SInv
    <3>2. i \in 1 .. Len(calls[g]) /\ Len(calls[g]) - i < IdRange
      BY <1>8 DEF n
    <3>3. baseId[g] = StepsAfter(calls[g][i].id, Len(calls[g]) - i + 1)
      BY <2>3, <3>1, <3>2 DEF CounterInv
    <3>4. QED BY <3>3 DEF n
  <2>5. QED BY <2>2, <2>4
<1>9. CounterInv'
  <2>1. ASSUME NEW h \in Generators, NEW i \in 1 .. Len(calls'[h]), Len(calls'[h]) - i < IdRange,
               \A k \in i .. Len(calls'[h]) : calls'[h][k].second = lastTime'[h]
        PROVE  baseId'[h] = StepsAfter(calls'[h][i].id, Len(calls'[h]) - i + 1)
    <3>1. CASE h # g
      <4>1. lastTime'[h] = lastTime[h] /\ baseId'[h] = baseId[h] /\ calls'[h] = calls[h]
        BY <3>1, <1>4
      <4>2. SameSecond(h, i, Len(calls[h]), lastTime[h])
        BY <2>1, <4>1 DEF SameSecond
      <4>3. i \in 1 .. Len(calls[h]) /\ Len(calls[h]) - i < IdRange
        BY <2>1, <4>1
      <4>4. baseId[h] = StepsAfter(calls[h][i].id, Len(calls[h]) - i + 1)
        BY <4>2, <4>3 DEF SInv, CounterInv
      <4>5. QED BY <4>1, <4>4
    <3>2. CASE h = g /\ i = n + 1
      <4>1. calls'[h][i].id = id /\ Len(calls'[h]) - i + 1 = 1 /\ baseId'[h] = Incremented(id)
        BY <3>2, <1>1, <1>4, <1>6 DEF n
      <4>2. Incremented(id) = StepsAfter(id, 1)
        BY <1>1, <1>3 DEF StepsAfter, Ids
      <4>3. QED BY <4>1, <4>2
    <3>3. CASE h = g /\ i # n + 1
      <4>1. i \in 1 .. n /\ Len(calls'[h]) = n + 1 /\ n \in Nat /\ n + 1 - i < IdRange
        BY <2>1, <3>3, <1>1, <1>6 DEF n
      <4>2. \A k \in i .. n : calls[g][k].second = t
        <5>1. ASSUME NEW k \in i .. n PROVE calls[g][k].second = t
          <6>1. k \in 1 .. n /\ k \in i .. n + 1
            BY <4>1
          <6>2. calls'[g][k].second = t
            BY <2>1, <3>3, <4>1, <6>1, <1>4
          <6>3. QED BY <6>1, <6>2, <1>6
        <5>2. QED BY <5>1
      <4>3. id = StepsAfter(calls[g][i].id, n - i + 1)
        <5>1. n - i < IdRange
          BY <4>1
        <5>2. QED BY <1>8, <4>1, <4>2, <5>1
      <4>4. baseId'[h] = Incremented(id) /\ calls'[h][i].id = calls[g][i].id
        BY <3>3, <4>1, <1>4, <1>6
      <4>5. calls[g][i].id \in Ids
        BY <4>1, <1>6
      <4>6. StepsAfter(calls[g][i].id, n + 1 - i + 1) = Incremented(id)
        <5>1. n - i + 1 \in 1 .. IdRange - 1 /\ n + 1 - i + 1 = (n - i + 1) + 1
          BY <4>1
        <5>2. ASSUME NEW a \in Ids, NEW m \in 1 .. IdRange - 1, id = StepsAfter(a, m)
              PROVE  StepsAfter(a, m + 1) = Incremented(id)
          BY <5>2, <1>1, <1>3 DEF StepsAfter, Ids
        <5>3. QED BY <4>3, <4>5, <5>1, <5>2
      <4>7. QED BY <4>1, <4>4, <4>6
    <3>4. QED BY <3>1, <3>2, <3>3
  <2>2. QED BY <2>1 DEF CounterInv, SameSecond
<1>10. NoRepeatInv'
  <2>1. ASSUME NEW h \in Generators, NEW i \in 1 .. Len(calls'[h]), NEW j \in 1 .. Len(calls'[h]),
               i < j, j - i < IdRange, \A k \in i .. j : calls'[h][k].second = calls'[h][i].second
        PROVE  calls'[h][i].id # calls'[h][j].id
    <3>1. CASE h # g
      <4>1. calls'[h] = calls[h]
        BY <3>1, <1>4
      <4>2. SameSecond(h, i, j, calls[h][i].second)
        BY <2>1, <4>1 DEF SameSecond
      <4>3. QED BY <2>1, <4>1, <4>2 DEF SInv, NoRepeatInv
    <3>2. CASE h = g /\ j # n + 1
      <4>1. i \in 1 .. n /\ j \in 1 .. n
        BY <2>1, <3>2, <1>1, <1>6 DEF n
      <4>2. \A k \in i .. j : calls[g][k].second = calls[g][i].second
        <5>1. \A k \in i .. j : k \in 1 .. n
          BY <4>1, <1>1 DEF n
        <5>2. QED BY <2>1, <3>2, <4>1, <5>1, <1>6
      <4>3. calls[g][i].id # calls[g][j].id
        BY <2>1, <4>1, <4>2 DEF SInv, NoRepeatInv, SameSecond, n
      <4>4. QED BY <3>2, <4>1, <4>3, <1>6
    <3>3. CASE h = g /\ j = n + 1
      <4>1. i \in 1 .. n /\ n \in Nat /\ n - i + 1 < IdRange /\ n - i + 1 \in Nat \ {0}
        BY <2>1, <3>3, <1>1, <1>6 DEF n
      <4>2. \A k \in i .. n : calls[g][k].second = t
        <5>1. calls'[g][i].second = t
          <6>1. n + 1 \in i .. j
            BY <3>3, <4>1
          <6>2. QED BY <2>1, <3>3, <6>1, <1>6
        <5>2. \A k \in i .. n : k \in 1 .. n /\ k \in i .. j
          BY <3>3, <4>1
        <5>3. QED BY <2>1, <3>3, <5>1, <5>2, <1>6
      <4>3. id = StepsAfter(calls[g][i].id, n - i + 1)
        <5>1. n - i < IdRange
          BY <4>1
        <5>2. QED BY <1>8, <4>1, <4>2, <5>1
      <4>4. calls[g][i].id \in Ids
        BY <4>1, <1>6
      <4>5. id # calls[g][i].id
        BY <4>1, <4>3, <4>4 DEF StepsAfter, Ids
      <4>6. QED BY <3>3, <4>1, <4>5, <1>6
    <3>4. QED BY <3>1, <3>2, <3>3
  <2>2. QED BY <2>1 DEF NoRepeatInv, SameSecond
<1>11. QED BY <1>5, <1>7, <1>9, <1>10 DEF SInv

LEMMA SerialInvariant == Spec => []SInv
<1>1. Init => SInv
  <2> SUFFICES ASSUME Init PROVE SInv
    OBVIOUS
  <2>1. TypeOK
    <3>1. <<>> \in Seq(Calls) /\ 0 \in Ids
      BY DEF Ids
    <3>2. QED BY <3>1 DEF Init, TypeOK
  <2>2. \A g \in Generators : calls[g] = <<>> /\ Len(calls[g]) = 0
    BY DEF Init
  <2>3. QED BY <2>1, <2>2 DEF SInv, LastInv, CounterInv, NoRepeatInv
<1>2. SInv /\ [Next]_vars => SInv'
  <2> SUFFICES ASSUME SInv, [Next]_vars PROVE SInv'
    OBVIOUS
  <2>1. ASSUME NEW g \in Generators, NEW t \in Seconds, CreateSerial(g, t) PROVE SInv'
    BY <2>1, CallStep
  <2>2. CASE UNCHANGED vars
    BY <2>2 DEF vars, SInv, TypeOK, LastInv, CounterInv, NoRepeatInv, SameSecond
  <2>3. QED BY <2>1, <2>2 DEF Next
<1>3. QED BY <1>1, <1>2, PTL DEF Spec

\* The packed fields of a serial can be read back.
LEMMA PackApart ==
    ASSUME NEW g \in Generators, NEW h \in Generators, NEW t \in Nat, NEW u \in Nat,
           NEW a \in Ids, NEW b \in Ids, Pack(t, g, a) = Pack(u, h, b)
    PROVE  t = u /\ g = h /\ a = b
<1>1. /\ g = <<g[1], g[2]>> /\ g[1] \in 0 .. FieldRange - 1 /\ g[2] \in 0 .. FieldRange - 1
      /\ h = <<h[1], h[2]>> /\ h[1] \in 0 .. FieldRange - 1 /\ h[2] \in 0 .. FieldRange - 1
  <2>1. \A x \in Generators : x = <<x[1], x[2]>> /\ x[1] \in Servers /\ x[2] \in Threads
    BY DEF Generators
  <2>2. QED BY <2>1
<1>2. \A s \in Nat, x \in 0 .. FieldRange - 1 : Beside(s, FieldRange, x) \in Nat
  BY DEF Beside
<1> DEFINE left  == Beside(Beside(t, FieldRange, g[1]), FieldRange, g[2])
           right == Beside(Beside(u, FieldRange, h[1]), FieldRange, h[2])
<1>3. /\ Beside(t, FieldRange, g[1]) \in Nat /\ left \in Nat
      /\ Beside(u, FieldRange, h[1]) \in Nat /\ right \in Nat
  BY <1>1, <1>2
<1>4. left = right /\ a = b
  <2>1. Beside(left, IdRange, a) = Beside(right, IdRange, b)
    BY DEF Pack
  <2> HIDE DEF left, right
  <2>2. QED BY <1>3, <2>1, FieldsApart DEF Ids
<1>5. Beside(t, FieldRange, g[1]) = Beside(u, FieldRange, h[1]) /\ g[2] = h[2]
  BY <1>1, <1>3, <1>4, FieldsApart
<1>6. t = u /\ g[1] = h[1]
  BY <1>1, <1>5, FieldsApart
<1>7. QED BY <1>1, <1>4, <1>5, <1>6

\* Type correctness: the counter stays in its width.
THEOREM CounterStaysInWidth == Spec => []TypeOK
<1>1. SInv => TypeOK
  BY DEF SInv
<1>2. QED BY <1>1, SerialInvariant, PTL

\* Generators with different numbers never return the same serial.
THEOREM NoSerialIsShared == Spec => []GeneratorsDisjoint
<1>1. TypeOK => GeneratorsDisjoint
  <2> SUFFICES ASSUME TypeOK, NEW g \in Generators, NEW h \in Generators,
                      NEW i \in DOMAIN calls[g], NEW j \in DOMAIN calls[h],
                      Serial(g, i) = Serial(h, j)
               PROVE  g = h
    BY DEF GeneratorsDisjoint
  <2>1. /\ calls[g][i].second \in Nat /\ calls[g][i].id \in Ids
        /\ calls[h][j].second \in Nat /\ calls[h][j].id \in Ids
    <3>1. calls[g][i] \in Calls /\ calls[h][j] \in Calls
      BY DEF TypeOK
    <3>2. QED BY <3>1 DEF Calls
  <2>2. QED BY <2>1, PackApart DEF Serial
<1>2. QED BY <1>1, CounterStaysInWidth, PTL

\* A generator repeats itself only when the counter is used up within a second,
\* or the clock comes back to one.
THEOREM EveryRepeatIsExplained == Spec => []RepeatsExplained
<1>1. SInv => RepeatsExplained
  <2> SUFFICES ASSUME SInv, NEW g \in Generators,
                      NEW i \in DOMAIN calls[g], NEW j \in DOMAIN calls[g],
                      i < j, Serial(g, i) = Serial(g, j), ~(j - i >= IdRange),
                      \A k \in i .. j : calls[g][k].second = calls[g][i].second
               PROVE  FALSE
    BY DEF RepeatsExplained
  <2>1. i \in 1 .. Len(calls[g]) /\ j \in 1 .. Len(calls[g]) /\ j - i < IdRange
    BY DEF SInv, TypeOK
  <2>2. /\ calls[g][i].second \in Nat /\ calls[g][i].id \in Ids
        /\ calls[g][j].second \in Nat /\ calls[g][j].id \in Ids
    <3>1. calls[g][i] \in Calls /\ calls[g][j] \in Calls
      BY DEF SInv, TypeOK
    <3>2. QED BY <3>1 DEF Calls
  <2>3. calls[g][i].id = calls[g][j].id
    BY <2>2, PackApart DEF Serial
  <2>4. QED BY <2>1, <2>3 DEF SInv, NoRepeatInv, SameSecond
<1>2. QED BY <1>1, SerialInvariant, PTL

--------------------------------------------------------------------------------
(* The order of the serials.                                               *)

\* Fields side by side are ordered by the left one first, then by the right one.
LEMMA FieldsOrdered ==
    ASSUME NEW R \in Nat \ {0}, NEW a \in Nat, NEW c \in Nat,
           NEW b \in 0 .. R - 1, NEW d \in 0 .. R - 1,
           a < c \/ (a = c /\ b < d)
    PROVE  Beside(a, R, b) < Beside(c, R, d)
<1>1. CASE a < c
  <2>1. PICK n \in Nat : c = a + 1 + n
    <3>1. c - a - 1 \in Nat /\ c = a + 1 + (c - a - 1)
      BY <1>1
    <3>2. QED BY <3>1
  <2>2. c * R = a * R + R + n * R /\ n * R \in Nat /\ a * R \in Nat
    BY <2>1
  <2>3. QED BY <2>2 DEF Beside
<1>2. CASE a = c /\ b < d
  <2>1. a * R \in Nat
    OBVIOUS
  <2>2. QED BY <1>2, <2>1 DEF Beside
<1>3. QED BY <1>1, <1>2

\* Serials of one generator are ordered by second, then by counter.
LEMMA PackOrdered ==
    ASSUME NEW g \in Generators, NEW t \in Nat, NEW u \in Nat, NEW a \in Ids, NEW b \in Ids,
           t < u \/ (t = u /\ a < b)
    PROVE  Pack(t, g, a) < Pack(u, g, b)
<1>1. g[1] \in 0 .. FieldRange - 1 /\ g[2] \in 0 .. FieldRange - 1
  BY DEF Generators
<1>2. \A s \in Nat, x \in 0 .. FieldRange - 1 : Beside(s, FieldRange, x) \in Nat
  BY DEF Beside
<1> DEFINE top(s) == Beside(s, FieldRange, g[1])
           high(s) == Beside(top(s), FieldRange, g[2])
<1>3. \A s \in Nat : top(s) \in Nat /\ high(s) \in Nat
  BY <1>1, <1>2
<1>4. t < u => high(t) < high(u)
  <2>1. t < u => top(t) < top(u)
    BY <1>1, FieldsOrdered
  <2> HIDE DEF top
  <2>2. QED BY <1>1, <1>3, <2>1, FieldsOrdered
<1> HIDE DEF high
<1>5. Beside(high(t), IdRange, a) < Beside(high(u), IdRange, b)
  BY <1>3, <1>4, FieldsOrdered DEF Ids
<1>6. QED BY <1>5 DEF Pack, high

\* Between call k and the next one the clock was set back, or the counter came round
\* within the second.
SetBack(g, k)   == calls[g][k + 1].second < calls[g][k].second
CameRound(g, k) == /\ calls[g][k + 1].second = calls[g][k].second
                   /\ calls[g][k].id = IdRange - 1

\* A generator's serials grow from call to call for as long as the clock is not set
\* back and no second uses the counter up (SerialGenerator.cpp:14-21).  Two such
\* calls are the only way for a later serial to be as small as an earlier one.
SerialsGrow ==
    \A g \in Generators : \A i, j \in 1 .. Len(calls[g]) :
        i < j => \/ Serial(g, i) < Serial(g, j)
                 \/ \E k \in i .. j - 1 : SetBack(g, k) \/ CameRound(g, k)

\* One call against the call before it.
LEMMA NextSerialGrows ==
    ASSUME SInv, NEW g \in Generators, NEW t \in Seconds, CreateSerial(g, t),
           NEW n \in Nat \ {0}, n = Len(calls[g])
    PROVE  Serial(g, n)' < Serial(g, n + 1)' \/ SetBack(g, n)' \/ CameRound(g, n)'
<1> DEFINE last == calls[g][n]
           id == IdAt(g, t)
<1>1. /\ calls[g] \in Seq(Calls) /\ calls[g] # <<>> /\ n \in 1 .. n
      /\ last.second \in Nat /\ last.id \in Ids /\ t \in Nat
      /\ lastTime[g] = last.second
  <2>1. calls[g] \in Seq(Calls) /\ calls[g] # <<>> /\ n \in 1 .. n
    BY DEF SInv, TypeOK
  <2>2. last \in Calls
    BY <2>1
  <2>3. QED BY <2>1, <2>2 DEF Calls, SInv, LastInv
<1>2. baseId[g] = StepsAfter(last.id, 1)
  <2>1. SameSecond(g, n, n, lastTime[g])
    BY <1>1 DEF SameSecond
  <2>2. baseId[g] = StepsAfter(calls[g][n].id, n - n + 1)
    BY <1>1, <2>1 DEF SInv, CounterInv
  <2>3. QED BY <1>1, <2>2
<1>3. id \in Ids
  BY DEF IdAt, Ids, SInv, TypeOK
<1>4. /\ calls'[g][n + 1].second = t /\ calls'[g][n + 1].id = id
      /\ calls'[g][n].second = last.second /\ calls'[g][n].id = last.id
  <2>1. calls'[g] = Append(calls[g], [second |-> t, id |-> id])
    BY DEF CreateSerial, SInv, TypeOK
  <2>2. calls'[g][n + 1] = [second |-> t, id |-> id] /\ calls'[g][n] = last
    BY <1>1, <2>1
  <2>3. QED BY <2>2
<1>5. CASE t < last.second
  BY <1>4, <1>5 DEF SetBack
<1>6. CASE t = last.second /\ last.id = IdRange - 1
  BY <1>4, <1>6 DEF CameRound
<1>7. CASE last.second < t \/ (t = last.second /\ last.id # IdRange - 1)
  <2>1. t = last.second => id = baseId[g]
    BY <1>1 DEF IdAt
  <2>2. last.second < t \/ (last.second = t /\ last.id < id)
    BY <1>1, <1>2, <1>7, <2>1 DEF StepsAfter, Ids
  <2>3. Pack(last.second, g, last.id) < Pack(t, g, id)
    BY <1>1, <1>3, <2>2, PackOrdered
  <2>4. QED BY <1>4, <2>3 DEF Serial
<1>8. QED BY <1>1, <1>5, <1>6, <1>7

LEMMA GrowStep ==
    ASSUME SInv, SerialsGrow, NEW g \in Generators, NEW t \in Seconds, CreateSerial(g, t), SInv'
    PROVE  SerialsGrow'
<1>0. PICK n \in Nat : n = Len(calls[g])
  <2>1. Len(calls[g]) \in Nat
    BY DEF SInv, TypeOK
  <2>2. QED BY <2>1
<1>1. /\ calls[g] \in Seq(Calls) /\ n \in Nat
      /\ Len(calls'[g]) = n + 1
      /\ \A i \in 1 .. n : calls'[g][i] = calls[g][i]
      /\ \A h \in Generators \ {g} : calls'[h] = calls[h]
  <2>1. calls' = [calls EXCEPT ![g] = Append(calls[g], [second |-> t, id |-> IdAt(g, t)])]
    BY DEF CreateSerial
  <2>2. calls[g] \in Seq(Calls) /\ calls'[g] = Append(calls[g], [second |-> t, id |-> IdAt(g, t)])
    BY <2>1 DEF SInv, TypeOK
  <2>3. QED BY <1>0, <2>1, <2>2 DEF SInv, TypeOK
<1>2. \A i \in 1 .. n + 1 : Serial(g, i)' \in Int
  <2>1. ASSUME NEW i \in 1 .. n + 1 PROVE Serial(g, i)' \in Int
    <3>1. calls'[g][i] \in Calls
      BY <1>1 DEF SInv, TypeOK
    <3>2. calls'[g][i].second \in Nat /\ calls'[g][i].id \in Nat
      <4>1. calls'[g][i].second \in Seconds /\ calls'[g][i].id \in Ids
        BY <3>1 DEF Calls
      <4>2. Seconds \subseteq Nat /\ Ids \subseteq Nat
        BY DEF Ids
      <4>3. QED BY <4>1, <4>2
    <3>3. g[1] \in Nat /\ g[2] \in Nat /\ FieldRange \in Nat /\ IdRange \in Nat
      <4>1. g[1] \in 0 .. FieldRange - 1 /\ g[2] \in 0 .. FieldRange - 1
        BY DEF Generators
      <4>2. QED BY <4>1
    <3>4. \A x, y, z \in Nat : Beside(x, y, z) \in Nat
      BY DEF Beside
    <3>5. Pack(calls'[g][i].second, g, calls'[g][i].id) \in Nat
      BY <3>2, <3>3, <3>4 DEF Pack
    <3>6. QED BY <3>5 DEF Serial
  <2>2. QED BY <2>1
\* Calls already made are told apart as before.
<1>3. ASSUME NEW i \in 1 .. n, NEW j \in 1 .. n, i < j
      PROVE  \/ Serial(g, i)' < Serial(g, j)'
             \/ \E k \in i .. j - 1 : SetBack(g, k)' \/ CameRound(g, k)'
  <2>1. Serial(g, i)' = Serial(g, i) /\ Serial(g, j)' = Serial(g, j)
    BY <1>1 DEF Serial
  <2>2. \A k \in i .. j - 1 : (SetBack(g, k)' <=> SetBack(g, k)) /\ (CameRound(g, k)' <=> CameRound(g, k))
    <3>1. \A k \in i .. j - 1 : k \in 1 .. n /\ k + 1 \in 1 .. n
      BY <1>3, <1>1
    <3>2. QED BY <1>1, <3>1 DEF SetBack, CameRound
  <2>3. QED BY <1>0, <1>3, <2>1, <2>2 DEF SerialsGrow
<1>4. ASSUME NEW h \in Generators, NEW i \in 1 .. Len(calls'[h]), NEW j \in 1 .. Len(calls'[h]), i < j
      PROVE  \/ Serial(h, i)' < Serial(h, j)'
             \/ \E k \in i .. j - 1 : SetBack(h, k)' \/ CameRound(h, k)'
  <2>1. CASE h # g
    <3>1. calls'[h] = calls[h]
      BY <1>1, <2>1
    <3>2. QED BY <1>4, <3>1 DEF SerialsGrow, Serial, SetBack, CameRound
  <2>2. CASE h = g /\ j # n + 1
    <3>1. i \in 1 .. n /\ j \in 1 .. n
      BY <1>1, <1>4, <2>2
    <3>2. QED BY <1>3, <1>4, <2>2, <3>1
  <2>3. CASE h = g /\ j = n + 1
    <3>1. i \in 1 .. n /\ n \in Nat \ {0} /\ calls[g] # <<>> /\ n \in 1 .. n /\ n \in i .. j - 1
      BY <1>0, <1>1, <1>4, <2>3
    <3>2. Serial(g, n)' < Serial(g, n + 1)' \/ SetBack(g, n)' \/ CameRound(g, n)'
      BY <1>0, <3>1, NextSerialGrows
    <3>3. CASE i = n
      BY <2>3, <3>1, <3>2, <3>3
    <3>4. CASE i # n
      <4>1. \/ Serial(g, i)' < Serial(g, n)'
            \/ \E k \in i .. n - 1 : SetBack(g, k)' \/ CameRound(g, k)'
        BY <1>3, <3>1, <3>4
      <4>2. i .. n - 1 \subseteq i .. j - 1
        BY <1>1, <2>3
      <4>3. Serial(g, i)' \in Int /\ Serial(g, n)' \in Int /\ Serial(g, n + 1)' \in Int
        BY <1>1, <1>2, <3>1
      <4>4. QED BY <2>3, <3>1, <3>2, <4>1, <4>2, <4>3
    <3>5. QED BY <3>3, <3>4
  <2>4. QED BY <2>1, <2>2, <2>3
<1>5. QED BY <1>4 DEF SerialsGrow

\* Serials grow, unless the clock goes back or a second uses the counter up.
THEOREM SerialsOnlyGrow == Spec => []SerialsGrow
<1>1. Init => SerialsGrow
  BY DEF Init, SerialsGrow
<1>2. SInv /\ SInv' /\ SerialsGrow /\ [Next]_vars => SerialsGrow'
  <2> SUFFICES ASSUME SInv, SInv', SerialsGrow, [Next]_vars PROVE SerialsGrow'
    OBVIOUS
  <2>1. ASSUME NEW g \in Generators, NEW t \in Seconds, CreateSerial(g, t) PROVE SerialsGrow'
    BY <2>1, GrowStep
  <2>2. CASE UNCHANGED vars
    BY <2>2 DEF vars, SerialsGrow, Serial, SetBack, CameRound
  <2>3. QED BY <2>1, <2>2 DEF Next
<1>3. QED BY <1>1, <1>2, SerialInvariant, PTL DEF Spec
================================================================================
