-------------------------- MODULE FixedLockStackProofs --------------------------
(***************************************************************************)
(* Proofs about FixedLockStack, for every size, thread and item.           *)
(***************************************************************************)
EXTENDS FixedLockStack, TLAPS

USE StackAssumption DEF StackAssumption

\* One thread at a time is inside an operation: the one that has the mutex.
MutexInv == \A t \in Threads : pc[t] # "idle" => mutex = t

\* A push has its item until the slot has it.
ArgInv == \A t \in Threads : arg[t] # Nothing <=> pc[t] \in {"push", "store"}

\* What TryPop's test has seen stays true.
FoundInv == \A t \in Threads : pc[t] = "found" => topIndex # 0

\* The slots below the height are filled, the others are not.
SlotsInv ==
    /\ Height \in 0 .. Size
    /\ \A i \in Indices : slots[i] # Nothing <=> i < Height

\* What holds also of a stack that is misused, and what no longer does.
Basics == TypeOK /\ MutexInv /\ ArgInv /\ FoundInv
Intact == AccessInside /\ SlotsInv /\ OwnedOnce

IInv == Basics /\ (misused \/ Intact)

\* Inside the array the index does not wrap.
LEMMA NoWrap ==
    /\ \A i \in Indices : Up(i) = i + 1 /\ Down(i + 1) = i
    /\ \A i \in 0 .. IndexRange - 1 : Down(i) \in Indices => i \in 1 .. Size /\ Down(i) = i - 1
BY DEF Indices, Up, Down

LEMMA IndexTypes ==
    \A i \in 0 .. IndexRange - 1 : Up(i) \in 0 .. IndexRange - 1 /\ Down(i) \in 0 .. IndexRange - 1
BY DEF Up, Down

\* Only the thread that has the mutex tells how the height is read off the index.
LEMMA HeightOf ==
    ASSUME MutexInv, NEW t \in Threads, mutex \in {t, NoThread}
    PROVE  Height = IF pc[t] = "store" THEN Down(topIndex)
                    ELSE IF pc[t] = "take" THEN Up(topIndex) ELSE topIndex
BY DEF Height, MutexInv, At

LEMMA Initially == Init => IInv
<1> SUFFICES ASSUME Init PROVE IInv
  OBVIOUS
<1>1. TypeOK
  <2>1. topIndex \in 0 .. IndexRange - 1 /\ 0 \in 0 .. IndexRange - 1
    BY DEF Init
  <2>2. seen \in [Threads -> 0 .. IndexRange - 1]
    BY <2>1 DEF Init
  <2>3. QED BY <2>1, <2>2 DEF Init, TypeOK, Ops
<1>2. MutexInv /\ ArgInv /\ FoundInv /\ AccessInside
  BY DEF Init, MutexInv, ArgInv, FoundInv, AccessInside, At
<1>3. Height = topIndex
  BY DEF Init, Height, At
<1>4. SlotsInv
  BY <1>1, <1>3 DEF Init, SlotsInv, Indices, TypeOK
<1>5. QED BY <1>1, <1>2, <1>4 DEF Init, IInv, Basics, Intact

LEMMA BasicStep == Basics /\ [Next]_vars => Basics'
<1> SUFFICES ASSUME Basics, [Next]_vars PROVE Basics'
  OBVIOUS
<1>0. TypeOK /\ MutexInv /\ ArgInv /\ FoundInv
  BY DEF Basics
<1> USE DEF TypeOK, Ops, At, Goto, Lock, Return
<1>1. ASSUME NEW t \in Threads, CallPush(t) PROVE Basics'
  <2>1. PICK x \in held[t] : /\ arg' = [arg EXCEPT ![t] = x]
                             /\ held' = [held EXCEPT ![t] = @ \ {x}]
    BY <1>1 DEF CallPush
  <2>2. TypeOK'
    BY <1>0, <1>1, <2>1 DEF CallPush
  <2>3. MutexInv' /\ FoundInv'
    BY <1>0, <1>1 DEF CallPush, MutexInv, FoundInv
  <2>4. ArgInv'
    BY <1>0, <1>1, <2>1 DEF CallPush, ArgInv
  <2>5. QED BY <2>2, <2>3, <2>4 DEF Basics
<1>2. ASSUME NEW t \in Threads, NEW op \in Ops \ {"push"}, Call(t, op) PROVE Basics'
  BY <1>0, <1>2 DEF Call, Basics, MutexInv, ArgInv, FoundInv
<1>3. ASSUME NEW t \in Threads, PushIndex(t) PROVE Basics'
  <2>1. TypeOK'
    BY <1>0, <1>3, IndexTypes DEF PushIndex
  <2>2. MutexInv' /\ ArgInv' /\ FoundInv'
    BY <1>0, <1>3 DEF PushIndex, MutexInv, ArgInv, FoundInv
  <2>3. QED BY <2>1, <2>2 DEF Basics
<1>4. ASSUME NEW t \in Threads, Store(t) PROVE Basics'
  <2>1. TypeOK'
    BY <1>0, <1>4 DEF Store
  <2>2. MutexInv' /\ ArgInv' /\ FoundInv'
    BY <1>0, <1>4 DEF Store, MutexInv, ArgInv, FoundInv
  <2>3. QED BY <2>1, <2>2 DEF Basics
<1>5. ASSUME NEW t \in Threads, PopIndex(t) PROVE Basics'
  <2>1. TypeOK'
    BY <1>0, <1>5, IndexTypes DEF PopIndex
  <2>2. MutexInv' /\ ArgInv' /\ FoundInv'
    BY <1>0, <1>5 DEF PopIndex, MutexInv, ArgInv, FoundInv
  <2>3. QED BY <2>1, <2>2 DEF Basics
<1>6. ASSUME NEW t \in Threads, Take(t) PROVE Basics'
  <2>1. PICK x \in Items \cup {Nothing} : held' = [held EXCEPT ![t] = @ \cup ({x} \ {Nothing})]
    BY <1>0, <1>6 DEF Take, Readable
  <2>2. TypeOK'
    BY <1>0, <1>6, <2>1 DEF Take
  <2>3. MutexInv' /\ ArgInv' /\ FoundInv'
    BY <1>0, <1>6 DEF Take, MutexInv, ArgInv, FoundInv
  <2>4. QED BY <2>2, <2>3 DEF Basics
<1>7. ASSUME NEW t \in Threads, TryPopFound(t) \/ TryPopEmpty(t) \/ GetSize(t) PROVE Basics'
  BY <1>0, <1>7 DEF TryPopFound, TryPopEmpty, GetSize, Basics, MutexInv, ArgInv, FoundInv
<1>8. CASE UNCHANGED vars
  BY <1>0, <1>8 DEF vars, Basics, MutexInv, ArgInv, FoundInv
<1>9. QED BY <1>1, <1>2, <1>3, <1>4, <1>5, <1>6, <1>7, <1>8 DEF Next, Enter, Continue

\* A misused stack stays so.
LEMMA MisuseStays == misused /\ [Next]_vars => misused'
BY DEF Next, Enter, Continue, CallPush, Call, PushIndex, Store, PopIndex, Take,
       TryPopFound, TryPopEmpty, GetSize, vars

\* How each step of an intact stack moves the index and the height.
LEMMA Heights ==
    ASSUME Basics, Basics', Intact, ~misused, ~misused', NEW t \in Threads
    PROVE  /\ CallPush(t) \/ (\E op \in Ops : Call(t, op)) \/ TryPopFound(t)
                  \/ TryPopEmpty(t) \/ GetSize(t) => Height = topIndex /\ Height' = topIndex
           /\ PushIndex(t) => /\ Height = topIndex /\ topIndex \in Indices
                              /\ topIndex' = topIndex + 1 /\ Height' = topIndex
           /\ Store(t) => /\ topIndex - 1 \in Indices /\ Down(topIndex) = topIndex - 1
                          /\ Height = topIndex - 1 /\ Height' = topIndex
           /\ PopIndex(t) => /\ Height = topIndex /\ topIndex - 1 \in Indices
                             /\ topIndex' = topIndex - 1 /\ Height' = topIndex
           /\ Take(t) => topIndex \in Indices /\ Height = topIndex + 1 /\ Height' = topIndex
<1>0. /\ TypeOK /\ MutexInv /\ FoundInv /\ AccessInside /\ SlotsInv /\ TypeOK' /\ MutexInv'
  BY DEF Basics, Intact
<1> USE DEF At, Goto, Lock, Return
<1>1. /\ mutex \in {t, NoThread} => Height = IF pc[t] = "store" THEN Down(topIndex)
                    ELSE IF pc[t] = "take" THEN Up(topIndex) ELSE topIndex
      /\ mutex' \in {t, NoThread} => Height' = IF pc'[t] = "store" THEN Down(topIndex')
                    ELSE IF pc'[t] = "take" THEN Up(topIndex') ELSE topIndex'
  <2>1. (MutexInv /\ mutex \in {t, NoThread} =>
            Height = IF pc[t] = "store" THEN Down(topIndex)
                    ELSE IF pc[t] = "take" THEN Up(topIndex) ELSE topIndex)'
    BY HeightOf, PTL
  <2>2. Down(topIndex)' = Down(topIndex') /\ Up(topIndex)' = Up(topIndex')
    BY DEF Up, Down
  <2>3. QED BY <1>0, <2>1, <2>2, HeightOf
<1>2. CallPush(t) \/ (\E op \in Ops : Call(t, op)) \/ TryPopFound(t)
          \/ TryPopEmpty(t) \/ GetSize(t) => Height = topIndex /\ Height' = topIndex
  BY <1>0, <1>1 DEF CallPush, Call, Ops, TryPopFound, TryPopEmpty, GetSize, TypeOK, MutexInv
<1>3. ASSUME PushIndex(t)
      PROVE  Height = topIndex /\ topIndex \in Indices /\ topIndex' = topIndex + 1 /\ Height' = topIndex
  <2>1. ~(topIndex >= Size) /\ topIndex' = Up(topIndex)
    BY <1>3 DEF PushIndex
  <2>2. topIndex \in Indices
    BY <1>0, <2>1 DEF TypeOK, Indices
  <2>3. QED BY <1>0, <1>1, <1>3, <2>1, <2>2, NoWrap DEF PushIndex, TypeOK, MutexInv
<1>4. ASSUME Store(t)
      PROVE  /\ topIndex - 1 \in Indices /\ Down(topIndex) = topIndex - 1
             /\ Height = topIndex - 1 /\ Height' = topIndex
  <2>1. topIndex - 1 \in Indices /\ Down(topIndex) = topIndex - 1
    BY <1>0, <1>4, NoWrap DEF Store, AccessInside, TypeOK
  <2>2. QED BY <1>0, <1>1, <1>4, <2>1 DEF Store, TypeOK, MutexInv
<1>5. ASSUME PopIndex(t)
      PROVE  /\ Height = topIndex /\ topIndex - 1 \in Indices
             /\ topIndex' = topIndex - 1 /\ Height' = topIndex
  <2>1. Height = topIndex
    BY <1>0, <1>1, <1>5 DEF PopIndex, MutexInv
  <2>2. topIndex # 0
    BY <1>0, <1>5 DEF PopIndex, FoundInv
  <2>3. topIndex - 1 \in Indices /\ topIndex' = topIndex - 1
    BY <1>0, <1>5, <2>1, <2>2 DEF PopIndex, Down, SlotsInv, Indices, TypeOK
  <2>4. Up(topIndex') = topIndex
    BY <2>3, NoWrap, <1>0 DEF TypeOK
  <2>5. QED BY <1>0, <1>1, <1>5, <2>1, <2>3, <2>4 DEF PopIndex, TypeOK, MutexInv
<1>6. ASSUME Take(t)
      PROVE  topIndex \in Indices /\ Height = topIndex + 1 /\ Height' = topIndex
  <2>1. topIndex \in Indices
    BY <1>0, <1>6 DEF Take, AccessInside
  <2>2. QED BY <1>0, <1>1, <1>6, <2>1, NoWrap DEF Take, TypeOK, MutexInv
<1>7. QED BY <1>2, <1>3, <1>4, <1>5, <1>6

\* What Store and Take do to the slots and to what the threads own.
LEMMA Stored ==
    ASSUME Basics, Basics', Intact, ~misused, ~misused', NEW t \in Threads, Store(t)
    PROVE  /\ arg[t] \in Items /\ topIndex - 1 \in Indices /\ slots[topIndex - 1] = Nothing
           /\ slots'[topIndex - 1] = arg[t]
           /\ \A i \in Indices \ {topIndex - 1} : slots'[i] = slots[i]
           /\ Owned(t)' = Owned(t) \ {arg[t]} /\ arg[t] \in Owned(t)
           /\ \A u \in Threads \ {t} : Owned(u)' = Owned(u)
<1>1. topIndex - 1 \in Indices /\ Down(topIndex) = topIndex - 1 /\ Height = topIndex - 1
  BY Heights
<1>2. arg[t] \in Items
  BY DEF Basics, ArgInv, Store, At, TypeOK
<1>3. slots[topIndex - 1] = Nothing
  BY <1>1 DEF Intact, SlotsInv, Basics, TypeOK, Indices
<1>4. /\ slots'[topIndex - 1] = arg[t]
      /\ \A i \in Indices \ {topIndex - 1} : slots'[i] = slots[i]
  BY <1>1 DEF Store
<1>5. /\ Owned(t)' = Owned(t) \ {arg[t]} /\ arg[t] \in Owned(t)
      /\ \A u \in Threads \ {t} : Owned(u)' = Owned(u)
  BY <1>2 DEF Store, Owned, Intact, OwnedOnce, Basics, TypeOK
<1>6. QED BY <1>1, <1>2, <1>3, <1>4, <1>5

LEMMA Taken ==
    ASSUME Basics, Basics', Intact, ~misused, ~misused', NEW t \in Threads, Take(t)
    PROVE  /\ topIndex \in Indices /\ slots[topIndex] \in Items /\ slots'[topIndex] = Nothing
           /\ \A i \in Indices \ {topIndex} : slots'[i] = slots[i]
           /\ Owned(t)' = Owned(t) \cup {slots[topIndex]}
           /\ \A u \in Threads \ {t} : Owned(u)' = Owned(u)
<1>1. topIndex \in Indices /\ slots[topIndex] \in Items
  BY DEF Basics, TypeOK, Intact, AccessInside, Take, At
<1>2. slots'[topIndex] = Nothing /\ \A i \in Indices \ {topIndex} : slots'[i] = slots[i]
  BY <1>1 DEF Take
<1>3. held' = [held EXCEPT ![t] = @ \cup {slots[topIndex]}]
  BY <1>1 DEF Take, Readable
<1>4. /\ Owned(t)' = Owned(t) \cup {slots[topIndex]}
      /\ \A u \in Threads \ {t} : Owned(u)' = Owned(u)
  BY <1>3 DEF Take, Owned, Basics, TypeOK
<1>5. QED BY <1>1, <1>2, <1>4

\* A push takes its item along, so its call changes nobody's property.
LEMMA PushOwns ==
    ASSUME Basics, NEW t \in Threads, CallPush(t)
    PROVE  /\ \A u \in Threads : Owned(u)' = Owned(u)
           /\ \A u \in Threads \ {t} : arg'[u] = arg[u] /\ held'[u] = held[u]
           /\ arg'[t] \notin held'[t]
<1>1. PICK x \in held[t] : /\ arg' = [arg EXCEPT ![t] = x]
                           /\ held' = [held EXCEPT ![t] = @ \ {x}]
  BY DEF CallPush
<1>2. x \in Items /\ x # Nothing /\ arg[t] = Nothing
  BY <1>1 DEF Basics, TypeOK, ArgInv, CallPush, At
<1>3. QED BY <1>1, <1>2 DEF Basics, TypeOK, Owned

LEMMA IntactStep ==
    ASSUME Basics, Basics', Intact, ~misused, ~misused', [Next]_vars
    PROVE  Intact'
<1>0. /\ TypeOK /\ MutexInv /\ ArgInv /\ FoundInv /\ AccessInside /\ SlotsInv /\ OwnedOnce
      /\ TypeOK' /\ MutexInv' /\ ArgInv' /\ FoundInv'
  BY DEF Basics, Intact
<1> USE DEF At, Goto, Lock, Return
\* The first two parts together: where the thread is, and what the slots hold.
<1>1. ASSUME NEW t \in Threads, UNCHANGED slots, Height' = Height,
             \A u \in Threads \ {t} : pc'[u] = "idle",
             pc'[t] = "store" => Down(topIndex') \in Indices,
             pc'[t] = "take" => topIndex' \in Indices /\ topIndex' < Height
      PROVE  AccessInside' /\ SlotsInv'
  <2>1. SlotsInv'
    BY <1>0, <1>1 DEF SlotsInv
  <2>2. ASSUME NEW u \in Threads
        PROVE  /\ pc'[u] = "store" => Down(topIndex') \in Indices
               /\ pc'[u] = "found" => topIndex' > 0
               /\ pc'[u] = "take" => topIndex' \in Indices /\ slots'[topIndex'] # Nothing
    <3>1. pc'[u] = "found" => topIndex' > 0
      BY <1>0 DEF FoundInv, TypeOK
    <3>2. pc'[t] = "take" => slots'[topIndex'] # Nothing
      BY <1>0, <1>1 DEF SlotsInv
    <3>3. QED BY <1>1, <3>1, <3>2
  <2>3. Down(topIndex)' = Down(topIndex')
    BY DEF Down
  <2>4. QED BY <2>1, <2>2, <2>3 DEF AccessInside
<1>2. ASSUME NEW t \in Threads, mutex' \in {t, NoThread} PROVE \A u \in Threads \ {t} : pc'[u] = "idle"
  BY <1>0, <1>2 DEF MutexInv
<1>3. ASSUME NEW t \in Threads, CallPush(t) PROVE Intact'
  <2>1. AccessInside' /\ SlotsInv'
    <3>1. mutex' = t /\ pc'[t] = "push" /\ UNCHANGED slots
      BY <1>0, <1>3 DEF CallPush, TypeOK
    <3>2. Height' = Height
      BY <1>3, Heights
    <3>3. QED BY <1>1, <1>2, <3>1, <3>2
  <2>2. OwnedOnce'
    <3>1. UNCHANGED slots /\ (\A u \in Threads : Owned(u)' = Owned(u))
          /\ \A u \in Threads : arg'[u] \notin held'[u]
      BY <1>0, <1>3, PushOwns DEF CallPush, OwnedOnce
    <3>2. QED BY <1>0, <3>1 DEF OwnedOnce
  <2>3. QED BY <2>1, <2>2 DEF Intact
<1>4. ASSUME NEW t \in Threads, NEW op \in Ops \ {"push"}, Call(t, op) PROVE Intact'
  <2>1. AccessInside' /\ SlotsInv'
    <3>1. mutex' = t /\ pc'[t] = op /\ UNCHANGED slots /\ op \notin {"store", "take"}
      BY <1>0, <1>4 DEF Call, TypeOK, Ops
    <3>2. Height' = Height
      BY <1>4, Heights
    <3>3. QED BY <1>1, <1>2, <3>1, <3>2
  <2>2. OwnedOnce'
    BY <1>0, <1>4 DEF Call, OwnedOnce, Owned
  <2>3. QED BY <2>1, <2>2 DEF Intact
<1>5. ASSUME NEW t \in Threads, PushIndex(t) PROVE Intact'
  <2>1. mutex' = t /\ pc'[t] = "store" /\ Height' = Height /\ Down(topIndex') \in Indices
    <3>1. mutex' = t /\ pc'[t] = "store"
      BY <1>0, <1>5 DEF PushIndex, MutexInv, TypeOK
    <3>2. /\ Height = topIndex /\ topIndex \in Indices /\ topIndex' = topIndex + 1
          /\ Height' = topIndex
      BY <1>5, Heights
    <3>3. Down(topIndex') = topIndex
      BY <3>2, NoWrap
    <3>4. QED BY <3>1, <3>2, <3>3
  <2>2. AccessInside' /\ SlotsInv'
    BY <1>1, <1>2, <1>5, <2>1 DEF PushIndex
  <2>3. OwnedOnce'
    BY <1>0, <1>5 DEF PushIndex, OwnedOnce, Owned
  <2>4. QED BY <2>2, <2>3 DEF Intact
<1>6. ASSUME NEW t \in Threads, PopIndex(t) PROVE Intact'
  <2>1. mutex' = t /\ pc'[t] = "take" /\ Height' = Height /\ topIndex' \in Indices /\ topIndex' < Height
    <3>1. mutex' = t /\ pc'[t] = "take"
      BY <1>0, <1>6 DEF PopIndex, MutexInv, TypeOK
    <3>2. /\ Height = topIndex /\ Height' = topIndex /\ topIndex' = topIndex - 1
          /\ topIndex - 1 \in Indices
      BY <1>6, Heights
    <3>3. QED BY <1>0, <3>1, <3>2 DEF TypeOK
  <2>2. AccessInside' /\ SlotsInv'
    BY <1>1, <1>2, <1>6, <2>1 DEF PopIndex
  <2>3. OwnedOnce'
    BY <1>0, <1>6 DEF PopIndex, OwnedOnce, Owned
  <2>4. QED BY <2>2, <2>3 DEF Intact
<1>7. ASSUME NEW t \in Threads, TryPopFound(t) \/ TryPopEmpty(t) \/ GetSize(t) PROVE Intact'
  <2>1. /\ mutex' \in {t, NoThread} /\ pc'[t] \in {"found", "idle"}
        /\ Height' = Height /\ UNCHANGED slots
    <3>1. mutex' \in {t, NoThread} /\ pc'[t] \in {"found", "idle"} /\ UNCHANGED slots
      BY <1>0, <1>7 DEF TryPopFound, TryPopEmpty, GetSize, MutexInv, TypeOK
    <3>2. Height' = Height
      BY <1>7, Heights
    <3>3. QED BY <3>1, <3>2
  <2>2. AccessInside' /\ SlotsInv'
    BY <1>1, <1>2, <2>1
  <2>3. OwnedOnce'
    BY <1>0, <1>7 DEF TryPopFound, TryPopEmpty, GetSize, OwnedOnce, Owned
  <2>4. QED BY <2>2, <2>3 DEF Intact
\* Between operations no slot is about to be accessed.
<1>8. ASSUME NEW t \in Threads, mutex' = NoThread PROVE AccessInside'
  BY <1>0, <1>8 DEF AccessInside, MutexInv
<1>9. ASSUME NEW t \in Threads, Store(t) PROVE Intact'
  <2>1. /\ arg[t] \in Items /\ topIndex - 1 \in Indices /\ slots[topIndex - 1] = Nothing
        /\ slots'[topIndex - 1] = arg[t]
        /\ \A i \in Indices \ {topIndex - 1} : slots'[i] = slots[i]
        /\ Owned(t)' = Owned(t) \ {arg[t]} /\ arg[t] \in Owned(t)
        /\ \A u \in Threads \ {t} : Owned(u)' = Owned(u)
    BY <1>9, Stored
  <2>2. Height = topIndex - 1 /\ Height' = topIndex
    BY <1>9, Heights
  <2>3. SlotsInv'
    <3>1. topIndex \in 1 .. Size /\ arg[t] # Nothing
      BY <1>0, <2>1 DEF TypeOK, Indices
    <3>2. ASSUME NEW i \in Indices PROVE slots'[i] # Nothing <=> i < topIndex
      <4>1. CASE i = topIndex - 1
        BY <2>1, <3>1, <4>1
      <4>2. CASE i # topIndex - 1
        BY <1>0, <2>1, <2>2, <3>1, <4>2 DEF SlotsInv, Indices
      <4>3. QED BY <4>1, <4>2
    <3>3. QED BY <2>2, <3>1, <3>2 DEF SlotsInv
  <2>4. OwnedOnce'
    <3>1. \A x \in Items : (\E i \in Indices : slots'[i] = x) \/ (\E u \in Threads : x \in Owned(u)')
      BY <1>0, <2>1 DEF OwnedOnce
    <3>2. \A i, j \in Indices : slots'[i] = slots'[j] /\ slots'[i] # Nothing => i = j
      BY <1>0, <2>1 DEF OwnedOnce
    <3>3. \A u, w \in Threads : Owned(u)' \cap Owned(w)' # {} => u = w
      BY <1>0, <2>1 DEF OwnedOnce
    <3>4. \A i \in Indices, u \in Threads : slots'[i] \notin Owned(u)'
      BY <1>0, <2>1 DEF OwnedOnce
    <3>5. \A u \in Threads : arg'[u] \notin held'[u]
      BY <1>0, <1>9 DEF Store, OwnedOnce, TypeOK
    <3>6. QED BY <3>1, <3>2, <3>3, <3>4, <3>5 DEF OwnedOnce
  <2>5. QED BY <1>8, <1>9, <2>3, <2>4 DEF Store, Intact
<1>10. ASSUME NEW t \in Threads, Take(t) PROVE Intact'
  <2>1. /\ topIndex \in Indices /\ slots[topIndex] \in Items /\ slots'[topIndex] = Nothing
        /\ \A i \in Indices \ {topIndex} : slots'[i] = slots[i]
        /\ Owned(t)' = Owned(t) \cup {slots[topIndex]}
        /\ \A u \in Threads \ {t} : Owned(u)' = Owned(u)
    BY <1>10, Taken
  <2>2. Height = topIndex + 1 /\ Height' = topIndex
    BY <1>10, Heights
  <2>3. SlotsInv'
    BY <1>0, <2>1, <2>2 DEF SlotsInv, Indices, TypeOK
  <2>4. OwnedOnce'
    <3>1. \A x \in Items : (\E i \in Indices : slots'[i] = x) \/ (\E u \in Threads : x \in Owned(u)')
      BY <1>0, <2>1 DEF OwnedOnce
    <3>2. \A i, j \in Indices : slots'[i] = slots'[j] /\ slots'[i] # Nothing => i = j
      BY <1>0, <2>1 DEF OwnedOnce
    <3>3. \A u, w \in Threads : Owned(u)' \cap Owned(w)' # {} => u = w
      BY <1>0, <2>1 DEF OwnedOnce
    <3>4. \A i \in Indices, u \in Threads : slots'[i] \notin Owned(u)'
      <4>1. \A u \in Threads : Nothing \notin Owned(u)'
        BY <1>0 DEF Owned, TypeOK
      <4>2. ASSUME NEW i \in Indices \ {topIndex}, NEW u \in Threads PROVE slots'[i] \notin Owned(u)'
        <5>1. slots'[i] # slots[topIndex] /\ slots'[i] \notin Owned(u)
          BY <1>0, <2>1 DEF OwnedOnce
        <5>2. QED BY <2>1, <5>1
      <4>3. QED BY <2>1, <4>1, <4>2
    <3>5. \A u \in Threads : arg'[u] \notin held'[u]
      <4>1. pc[t] = "take" /\ arg' = arg /\ \A u \in Threads \ {t} : held'[u] = held[u]
        BY <1>0, <1>10 DEF Take, TypeOK
      <4>2. arg[t] = Nothing
        BY <1>0, <4>1 DEF ArgInv
      <4>3. held'[t] \in SUBSET Items
        BY <1>0 DEF TypeOK
      <4>4. QED BY <1>0, <4>1, <4>2, <4>3 DEF OwnedOnce
    <3>6. QED BY <3>1, <3>2, <3>3, <3>4, <3>5 DEF OwnedOnce
  <2>5. QED BY <1>8, <1>10, <2>3, <2>4 DEF Take, Intact
<1>11. CASE UNCHANGED vars
  BY <1>0, <1>11 DEF vars, Intact, AccessInside, SlotsInv, Height, OwnedOnce, Owned, Up, Down
<1>12. QED BY <1>3, <1>4, <1>5, <1>6, <1>7, <1>9, <1>10, <1>11 DEF Next, Enter, Continue

LEMMA Preserved == IInv /\ [Next]_vars => IInv'
BY BasicStep, IntactStep, MisuseStays DEF IInv

LEMMA Inductive == Spec => []IInv
BY Initially, Preserved, PTL DEF Spec

\* The index keeps its width whatever the callers do, and the slots, the mutex and the
\* threads have values of their kinds (LockStack.inl:24-80).
THEOREM StackTypeCorrect == Spec => []TypeOK
BY Inductive, PTL DEF IInv, Basics

\* Until a Push finds the stack full or a Pop finds it empty, every access of every
\* operation is to a slot of the array, and TryPop's is to a filled one
\* (LockStack.inl:28, 53, 61-64).
THEOREM AccessStaysInside == Spec => []AccessInside
<1>1. IInv => AccessInside
  BY DEF IInv, Intact, AccessInside
<1>2. QED BY <1>1, Inductive, PTL

\* No item is lost, and none is handed out twice, until the stack is misused
\* (LockStack.inl:29, 54, 64).
THEOREM ItemsKeepOneOwner == Spec => []OneOwner
<1>1. IInv => OneOwner
  BY DEF IInv, Intact, OneOwner
<1>2. QED BY <1>1, Inductive, PTL

--------------------------------------------------------------------------------
(* The refinement.                                                         *)

LEMMA ContentIs ==
    ASSUME Basics, SlotsInv
    PROVE  /\ Content \in Seq(Items) /\ Len(Content) = Height
           /\ \A i \in 1 .. Height : Content[i] = slots[i - 1]
<1>1. Height \in 0 .. Size /\ \A i \in 1 .. Height : slots[i - 1] \in Items
  BY DEF Basics, TypeOK, SlotsInv, Indices
<1>2. QED BY <1>1 DEF Content

LEMMA Initial == Init => Stack!StackInit
<1> SUFFICES ASSUME Init PROVE Stack!StackInit
  OBVIOUS
<1>1. Basics /\ SlotsInv
  BY Initially DEF IInv, Intact, Init
<1>2. [t \in Threads |-> Owned(t)] \in [Threads -> SUBSET Items]
  BY <1>1 DEF Basics, TypeOK, Owned
<1>3. QED BY <1>1, <1>2, ContentIs DEF Init, Stack!StackInit

\* What a step does not change, the mapping does not.
LEMMA Stutters ==
    ASSUME Height' = Height, UNCHANGED <<slots, seen>>, \A u \in Threads : Owned(u)' = Owned(u)
    PROVE  UNCHANGED Stack!stackVars
BY DEF Stack!stackVars, Content

LEMMA StackStep == IInv /\ IInv' /\ [Next]_vars => [misused' \/ Stack!StackNext]_(Stack!stackVars)
<1> SUFFICES ASSUME IInv, IInv', [Next]_vars, ~misused' PROVE [Stack!StackNext]_(Stack!stackVars)
  OBVIOUS
<1>0. Basics /\ Basics' /\ Intact /\ Intact' /\ ~misused
  BY MisuseStays DEF IInv
<1>00. /\ Content \in Seq(Items) /\ Len(Content) = Height /\ Height \in Nat
       /\ \A i \in 1 .. Height : Content[i] = slots[i - 1]
       /\ Content' \in Seq(Items) /\ Len(Content') = Height' /\ Height' \in Nat
       /\ \A i \in 1 .. Height' : Content'[i] = slots'[i - 1]
  <2>1. Content \in Seq(Items) /\ Len(Content) = Height /\ \A i \in 1 .. Height : Content[i] = slots[i - 1]
    BY <1>0, ContentIs DEF Intact
  <2>2. (Basics /\ SlotsInv => /\ Content \in Seq(Items) /\ Len(Content) = Height
                               /\ \A i \in 1 .. Height : Content[i] = slots[i - 1])'
    BY ContentIs, PTL
  <2>3. Height \in Nat /\ Height' \in Nat
    BY <1>0 DEF Intact, SlotsInv
  <2>4. QED BY <1>0, <2>1, <2>2, <2>3 DEF Intact
<1> USE DEF At, Goto, Lock, Return
<1>1. ASSUME NEW t \in Threads, CallPush(t) PROVE UNCHANGED Stack!stackVars
  <2>1. Height' = Height
    BY <1>0, <1>1, Heights
  <2>2. QED BY <1>0, <1>1, <2>1, PushOwns, Stutters DEF CallPush
<1>2. ASSUME NEW t \in Threads, NEW op \in Ops \ {"push"}, Call(t, op) PROVE UNCHANGED Stack!stackVars
  <2>1. Height' = Height
    BY <1>0, <1>2, Heights
  <2>2. QED BY <1>2, <2>1, Stutters DEF Call, Owned
<1>3. ASSUME NEW t \in Threads, PushIndex(t) \/ PopIndex(t) \/ TryPopFound(t)
      PROVE  UNCHANGED Stack!stackVars
  <2>1. Height' = Height
    BY <1>0, <1>3, Heights
  <2>2. QED BY <1>3, <2>1, Stutters DEF PushIndex, PopIndex, TryPopFound, Owned
<1>4. ASSUME NEW t \in Threads, Store(t) PROVE Stack!Push(t)
  <2>1. /\ arg[t] \in Items /\ topIndex - 1 \in Indices /\ slots'[topIndex - 1] = arg[t]
        /\ \A i \in Indices \ {topIndex - 1} : slots'[i] = slots[i]
        /\ Owned(t)' = Owned(t) \ {arg[t]} /\ arg[t] \in Owned(t)
        /\ \A u \in Threads \ {t} : Owned(u)' = Owned(u)
    BY <1>0, <1>4, Stored
  <2>2. Height = topIndex - 1 /\ Height' = topIndex
    BY <1>0, <1>4, Heights
  <2>3. Content' = Append(Content, arg[t])
    <3>1. Len(Content') = Height + 1 /\ topIndex \in Nat
      BY <1>0, <1>00, <2>2 DEF Basics, TypeOK
    <3>2. \A i \in 1 .. Height : Content'[i] = Content[i]
      <4> SUFFICES ASSUME NEW i \in 1 .. Height PROVE Content'[i] = Content[i]
        OBVIOUS
      <4>1. i \in 1 .. Height' /\ i - 1 \in Indices \ {topIndex - 1}
        BY <1>00, <2>1, <2>2, <3>1 DEF Indices
      <4>2. QED BY <1>00, <2>1, <4>1
    <3>3. Content'[Height + 1] = arg[t]
      BY <1>00, <2>1, <2>2, <3>1
    <3>4. QED BY <1>00, <2>1, <3>1, <3>2, <3>3
  <2>4. QED BY <1>4, <2>1, <2>3 DEF Store, Stack!Push
<1>5. ASSUME NEW t \in Threads, Take(t) PROVE Stack!PopTop(t)
  <2>1. /\ topIndex \in Indices
        /\ \A i \in Indices \ {topIndex} : slots'[i] = slots[i]
        /\ Owned(t)' = Owned(t) \cup {slots[topIndex]}
        /\ \A u \in Threads \ {t} : Owned(u)' = Owned(u)
    BY <1>0, <1>5, Taken
  <2>2. Height = topIndex + 1 /\ Height' = topIndex /\ topIndex \in Nat
    BY <1>0, <1>5, Heights DEF Basics, TypeOK
  <2>3. Content[topIndex + 1] = slots[topIndex]
    BY <1>00, <2>2
  <2>4. Content' = SubSeq(Content, 1, Len(Content) - 1)
    <3>1. \A i \in 1 .. topIndex : Content'[i] = Content[i]
      <4> SUFFICES ASSUME NEW i \in 1 .. topIndex PROVE Content'[i] = Content[i]
        OBVIOUS
      <4>1. i \in 1 .. Height /\ i - 1 \in Indices \ {topIndex}
        BY <2>1, <2>2 DEF Indices
      <4>2. QED BY <1>00, <2>1, <2>2, <4>1
    <3>2. QED BY <1>00, <2>2, <3>1
  <2>5. Content # <<>>
    BY <1>00, <2>2
  <2>6. Stack!Top = slots[topIndex]
    BY <1>00, <2>2, <2>3 DEF Stack!Top
  <2>7. [u \in Threads |-> Owned(u)]' =
            [[u \in Threads |-> Owned(u)] EXCEPT ![t] = @ \cup {slots[topIndex]}]
    BY <2>1
  <2>8. QED BY <1>5, <2>4, <2>5, <2>6, <2>7 DEF Take, Stack!PopTop
<1>6. ASSUME NEW t \in Threads, TryPopEmpty(t) \/ GetSize(t) PROVE Stack!TellSize(t)
  <2>1. Height = topIndex /\ Height' = topIndex
    BY <1>0, <1>6, Heights
  <2>2. seen' = [seen EXCEPT ![t] = Height]
    BY <1>6, <2>1 DEF TryPopEmpty, GetSize
  <2>3. Content' = Content
    BY <1>6, <2>1 DEF TryPopEmpty, GetSize, Content
  <2>4. QED BY <1>00, <1>6, <2>2, <2>3 DEF TryPopEmpty, GetSize, Stack!TellSize, Owned
<1>7. CASE UNCHANGED vars
  <2>1. Height' = Height
    BY <1>7 DEF vars, Height, Up, Down
  <2>2. QED BY <1>7, <2>1, Stutters DEF vars, Owned
<1>8. QED BY <1>1, <1>2, <1>3, <1>4, <1>5, <1>6, <1>7 DEF Next, Enter, Continue, Stack!StackNext

\* The stack on an array implements the stack that grows until a Push finds it full or
\* a Pop finds it empty, whatever the interleaving (LockStack.inl:24-80).
THEOREM ArrayIsAStack == Spec => ImplementsStack
BY Initial, Inductive, StackStep, PTL DEF Spec, ImplementsStack

--------------------------------------------------------------------------------
(* Why an operation ends.                                                  *)

\* The mutex is locked exactly while the thread that locked it is inside.
LockedMeansInside == \A t \in Threads : mutex = t <=> pc[t] # "idle"

\* The steps a thread has left until its operation returns.
StepsLeft == [tryPop |-> 3, push |-> 2, pop |-> 2, found |-> 2,
              getSize |-> 1, store |-> 1, take |-> 1, idle |-> 0]

LEMMA LockedStep == IInv /\ LockedMeansInside /\ [Next]_vars => LockedMeansInside'
<1> SUFFICES ASSUME IInv, LockedMeansInside, [Next]_vars PROVE LockedMeansInside'
  OBVIOUS
<1>0. TypeOK
  BY DEF IInv, Basics
<1> USE DEF TypeOK, Ops, LockedMeansInside, At, Goto, Lock, Return
<1>1. ASSUME NEW t \in Threads, Enter(t) PROVE LockedMeansInside'
  BY <1>0, <1>1 DEF Enter, CallPush, Call
<1>2. ASSUME NEW t \in Threads, PushIndex(t) \/ PopIndex(t) \/ TryPopFound(t) PROVE LockedMeansInside'
  BY <1>0, <1>2 DEF PushIndex, PopIndex, TryPopFound
<1>3. ASSUME NEW t \in Threads, Store(t) \/ Take(t) \/ TryPopEmpty(t) \/ GetSize(t) PROVE LockedMeansInside'
  BY <1>0, <1>3 DEF Store, Take, TryPopEmpty, GetSize
<1>4. CASE UNCHANGED vars
  BY <1>4 DEF vars
<1>5. QED BY <1>1, <1>2, <1>3, <1>4 DEF Next, Continue

LEMMA MutexFollowsOperation == Spec => []LockedMeansInside
<1>1. Init => LockedMeansInside
  BY DEF Init, LockedMeansInside
<1>2. QED BY <1>1, LockedStep, Inductive, PTL DEF Spec

\* While a thread has the mutex, every step is its own and brings it nearer to the
\* return: nobody waits for more than three of its steps, and nothing inside an
\* operation waits for anybody, misused or not (LockStack.inl:24-80).
HolderAdvances ==
    [][\A t \in Threads : mutex = t =>
            /\ StepsLeft[pc'[t]] < StepsLeft[pc[t]]
            /\ \A u \in Threads \ {t} : pc'[u] = pc[u]]_vars

THEOREM HolderReturnsSoon == Spec => HolderAdvances
<1> DEFINE Advance == \A t \in Threads : mutex = t =>
                          /\ StepsLeft[pc'[t]] < StepsLeft[pc[t]]
                          /\ \A u \in Threads \ {t} : pc'[u] = pc[u]
<1>1. IInv /\ LockedMeansInside /\ [Next]_vars => [Advance]_vars
  <2> SUFFICES ASSUME IInv, LockedMeansInside, Next, NEW t \in Threads, mutex = t
               PROVE  /\ StepsLeft[pc'[t]] < StepsLeft[pc[t]]
                      /\ \A u \in Threads \ {t} : pc'[u] = pc[u]
    OBVIOUS
  <2>0. TypeOK /\ (\A u \in Threads : pc[u] # "idle" => u = t) /\ t # NoThread
    BY DEF IInv, Basics, LockedMeansInside
  <2>1. /\ StepsLeft["push"] = 2 /\ StepsLeft["pop"] = 2 /\ StepsLeft["tryPop"] = 3
        /\ StepsLeft["found"] = 2 /\ StepsLeft["getSize"] = 1 /\ StepsLeft["store"] = 1
        /\ StepsLeft["take"] = 1 /\ StepsLeft["idle"] = 0
    BY DEF StepsLeft
  <2>2. ~(\E u \in Threads : Enter(u))
    BY <2>0 DEF Enter, CallPush, Call, Lock
  <2>3. PICK u \in Threads : Continue(u)
    BY <2>2 DEF Next
  <2> USE DEF TypeOK, At, Goto, Return
  <2>4. u = t
    BY <2>0, <2>3 DEF Continue, PushIndex, Store, PopIndex, Take, TryPopFound, TryPopEmpty, GetSize
  <2>5. CASE PushIndex(t) \/ PopIndex(t) \/ TryPopFound(t)
    BY <2>0, <2>1, <2>5 DEF PushIndex, PopIndex, TryPopFound
  <2>6. CASE Store(t) \/ Take(t) \/ TryPopEmpty(t) \/ GetSize(t)
    BY <2>0, <2>1, <2>6 DEF Store, Take, TryPopEmpty, GetSize
  <2>7. QED BY <2>3, <2>4, <2>5, <2>6 DEF Continue
<1>2. QED BY <1>1, Inductive, MutexFollowsOperation, PTL DEF Spec, HolderAdvances

--------------------------------------------------------------------------------
(* The stack as the session pool.                                          *)

\* The items on the stack are free, those in the threads' hands taken.
Stacked == {Content[i] : i \in 1 .. Len(Content)}
InHands == {x \in Items : \E t \in Threads : x \in Owned(t)}

Pool == INSTANCE SessionPool WITH Sessions <- Items, free <- Stacked, taken <- InHands, connected <- {}

ActsAsPool == [][misused' \/ Pool!PoolNext]_(Pool!poolVars)

LEMMA StackedIs == Basics /\ Intact => Stacked = {x \in Items : \E i \in Indices : slots[i] = x}
<1> SUFFICES ASSUME Basics, Intact PROVE Stacked = {x \in Items : \E i \in Indices : slots[i] = x}
  OBVIOUS
<1>0. TypeOK /\ SlotsInv
  BY DEF Basics, Intact
<1>1. /\ Len(Content) = Height /\ Height \in 0 .. Size
      /\ \A i \in 1 .. Height : Content[i] = slots[i - 1] /\ i - 1 \in Indices /\ slots[i - 1] \in Items
  <2>1. Height \in 0 .. Size /\ \A i \in 1 .. Height : i - 1 \in Indices /\ slots[i - 1] \in Items
    BY <1>0 DEF SlotsInv, Indices, TypeOK
  <2>2. QED BY <1>0, <2>1, ContentIs
<1>2. \A i \in Indices : slots[i] \in Items => i + 1 \in 1 .. Height /\ slots[i] = Content[i + 1]
  <2>1. ASSUME NEW i \in Indices, slots[i] \in Items PROVE i + 1 \in 1 .. Height /\ slots[i] = Content[i + 1]
    <3>1. i < Height /\ i \in Nat
      BY <1>0, <2>1 DEF SlotsInv, Indices
    <3>2. i + 1 \in 1 .. Height /\ (i + 1) - 1 = i
      BY <1>1, <3>1
    <3>3. QED BY <1>1, <3>2
  <2>2. QED BY <2>1
<1>3. ASSUME NEW x \in Stacked PROVE x \in Items /\ \E i \in Indices : slots[i] = x
  <2>1. PICK i \in 1 .. Height : x = Content[i]
    BY <1>1, <1>3 DEF Stacked
  <2>2. QED BY <1>1, <2>1
<1>4. ASSUME NEW i \in Indices, slots[i] \in Items PROVE slots[i] \in Stacked
  BY <1>1, <1>2, <1>4 DEF Stacked
<1>5. QED BY <1>3, <1>4

\* A push gives an item back, a pop takes one; nothing else moves an item.
LEMMA PoolStep == IInv /\ IInv' /\ [Next]_vars => [misused' \/ Pool!PoolNext]_(Pool!poolVars)
<1> SUFFICES ASSUME IInv, IInv', [Next]_vars, ~misused', ~(UNCHANGED Pool!poolVars)
             PROVE  Pool!PoolNext
  OBVIOUS
<1>0. Basics /\ Basics' /\ Intact /\ Intact' /\ ~misused /\ OwnedOnce
  BY MisuseStays DEF IInv, Intact
<1>1. /\ Stacked = {x \in Items : \E i \in Indices : slots[i] = x}
      /\ Stacked' = {x \in Items : \E i \in Indices : slots'[i] = x}
  <2>1. (Basics /\ Intact => Stacked = {x \in Items : \E i \in Indices : slots[i] = x})'
    BY StackedIs, PTL
  <2>2. QED BY <1>0, <2>1, StackedIs
<1>2. ASSUME NEW t \in Threads, Store(t) PROVE Pool!GiveBack(arg[t]) /\ arg[t] \in Items
  <2>1. /\ arg[t] \in Items /\ topIndex - 1 \in Indices /\ slots[topIndex - 1] = Nothing
        /\ slots'[topIndex - 1] = arg[t]
        /\ \A i \in Indices \ {topIndex - 1} : slots'[i] = slots[i]
        /\ Owned(t)' = Owned(t) \ {arg[t]} /\ arg[t] \in Owned(t)
        /\ \A u \in Threads \ {t} : Owned(u)' = Owned(u)
    BY <1>0, <1>2, Stored
  <2>2. Stacked' = Stacked \cup {arg[t]}
    BY <1>1, <2>1
  <2>3. \A u \in Threads \ {t} : arg[t] \notin Owned(u)
    BY <1>0, <2>1 DEF OwnedOnce
  <2>4. InHands' = InHands \ {arg[t]} /\ arg[t] \in InHands
    BY <2>1, <2>3 DEF InHands
  <2>5. QED BY <2>1, <2>2, <2>4 DEF Pool!GiveBack
<1>3. ASSUME NEW t \in Threads, Take(t) PROVE Pool!Take(slots[topIndex]) /\ slots[topIndex] \in Items
  <2>1. /\ topIndex \in Indices /\ slots[topIndex] \in Items /\ slots'[topIndex] = Nothing
        /\ \A i \in Indices \ {topIndex} : slots'[i] = slots[i]
        /\ Owned(t)' = Owned(t) \cup {slots[topIndex]}
        /\ \A u \in Threads \ {t} : Owned(u)' = Owned(u)
    BY <1>0, <1>3, Taken
  <2>2. \A i \in Indices : slots[i] = slots[topIndex] => i = topIndex
    BY <1>0, <2>1 DEF OwnedOnce
  <2>3. Stacked' = Stacked \ {slots[topIndex]} /\ slots[topIndex] \in Stacked
    BY <1>1, <2>1, <2>2
  <2>4. InHands' = InHands \cup {slots[topIndex]}
    BY <2>1 DEF InHands
  <2>5. QED BY <2>1, <2>3, <2>4 DEF Pool!Take
<1>4. ASSUME UNCHANGED slots, \A t \in Threads : Owned(t)' = Owned(t) PROVE FALSE
  BY <1>1, <1>4 DEF InHands, Pool!poolVars
<1>5. ASSUME NEW t \in Threads, CallPush(t) PROVE FALSE
  BY <1>0, <1>4, <1>5, PushOwns DEF CallPush
<1>6. ASSUME NEW t \in Threads, NEW op \in Ops, Call(t, op) PROVE FALSE
  BY <1>4, <1>6 DEF Call, Owned
<1>7. ASSUME NEW t \in Threads,
             PushIndex(t) \/ PopIndex(t) \/ TryPopFound(t) \/ TryPopEmpty(t) \/ GetSize(t)
      PROVE FALSE
  BY <1>4, <1>7 DEF PushIndex, PopIndex, TryPopFound, TryPopEmpty, GetSize, Owned
<1>8. CASE UNCHANGED vars
  BY <1>4, <1>8 DEF vars, Owned
<1>9. QED
  BY <1>2, <1>3, <1>5, <1>6, <1>7, <1>8 DEF Next, Enter, Continue, Pool!PoolNext

\* What NetEngine builds on: to its users the stack is a set of items that are
\* taken and given back one at a time, whatever the order in which they lie on it, as
\* long as no Push finds it full and no Pop finds it empty (LockStack.inl:24-69;
\* NetEngine.cpp:65-75).
THEOREM StackIsAPool == Spec => ActsAsPool
BY Inductive, PoolStep, PTL DEF ActsAsPool, Spec
================================================================================
