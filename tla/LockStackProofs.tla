---------------------------- MODULE LockStackProofs ----------------------------
(***************************************************************************)
(* Proofs about LockStack, the form that grows, for every thread and item. *)
(* The stack may be constructed full, and its users may start with items   *)
(* in hand: the theorems take any such start in which no item has two      *)
(* places.  An engine starts like that, with its sessions on the stack and *)
(* nothing in anybody's hands (NetEngine.cpp:7-14).                        *)
(***************************************************************************)
EXTENDS LockStack, SequenceTheorems, TLAPS

Places == 1 .. Len(stack)

StackTypeOK ==
    /\ stack \in Seq(Items)
    /\ held \in [Threads -> SUBSET Items]
    /\ seen \in [Threads -> Nat]

\* An item lies in one place of the stack or in one hand.
OwnedOnce ==
    /\ \A i, j \in Places : stack[i] = stack[j] => i = j
    /\ \A t, u \in Threads : held[t] \cap held[u] # {} => t = u
    /\ \A i \in Places, t \in Threads : stack[i] \notin held[t]

LInv == StackTypeOK /\ OwnedOnce

LEMMA PushIs ==
    ASSUME StackTypeOK, NEW x \in Items, stack' = Append(stack, x)
    PROVE  /\ stack' \in Seq(Items) /\ Len(stack') = Len(stack) + 1 /\ Len(stack) \in Nat
           /\ stack'[Len(stack) + 1] = x
           /\ \A i \in Places : stack'[i] = stack[i]
BY DEF StackTypeOK, Places

LEMMA PopIs ==
    ASSUME StackTypeOK, stack # <<>>, stack' = SubSeq(stack, 1, Len(stack) - 1)
    PROVE  /\ stack' \in Seq(Items) /\ Len(stack') = Len(stack) - 1
           /\ Len(stack) \in Nat \ {0} /\ Len(stack) \in Places /\ Top \in Items
           /\ \A i \in Places \ {Len(stack)} : stack'[i] = stack[i]
<1>1. Len(stack) \in Nat \ {0} /\ Len(stack) \in Places
  BY DEF StackTypeOK, Places
<1>2. Top \in Items
  BY <1>1 DEF Top, StackTypeOK, Places
<1>3. 1 \in Int /\ Len(stack) - 1 \in Int /\ \A i \in 1 .. Len(stack) - 1 : stack[i] \in Items
  BY <1>1 DEF StackTypeOK
<1> DEFINE s == SubSeq(stack, 1, Len(stack) - 1)
<1>4. /\ s \in Seq(Items)
      /\ Len(s) = IF 1 <= Len(stack) - 1 THEN (Len(stack) - 1) - 1 + 1 ELSE 0
      /\ \A i \in 1 .. (Len(stack) - 1) - 1 + 1 : s[i] = stack[1 + i - 1]
  BY <1>3, SubSeqProperties
<1>5. stack' = s
  OBVIOUS
<1> HIDE DEF s
<1>6. Len(s) = Len(stack) - 1 /\ \A i \in 1 .. Len(stack) - 1 : s[i] = stack[i]
  <2>1. Len(s) = Len(stack) - 1
    <3>1. \A n \in Nat \ {0} : (IF 1 <= n - 1 THEN (n - 1) - 1 + 1 ELSE 0) = n - 1
      OBVIOUS
    <3>2. Len(s) = IF 1 <= Len(stack) - 1 THEN (Len(stack) - 1) - 1 + 1 ELSE 0
      BY <1>4
    <3>3. QED BY <1>1, <3>1, <3>2
  <2>2. ASSUME NEW i \in 1 .. Len(stack) - 1 PROVE s[i] = stack[i]
    <3>1. i \in 1 .. (Len(stack) - 1) - 1 + 1 /\ 1 + i - 1 = i
      BY <1>1
    <3>2. QED BY <1>4, <3>1
  <2>3. QED BY <2>1, <2>2
<1>7. QED BY <1>1, <1>2, <1>4, <1>5, <1>6 DEF Places

LEMMA StackStep == LInv /\ [StackNext]_stackVars => LInv'
<1> SUFFICES ASSUME LInv, [StackNext]_stackVars PROVE LInv'
  OBVIOUS
<1>0. StackTypeOK /\ OwnedOnce /\ Len(stack) \in Nat
  BY DEF LInv, StackTypeOK
<1>1. ASSUME NEW t \in Threads, Push(t) PROVE LInv'
  <2>1. PICK x \in held[t] : stack' = Append(stack, x) /\ held' = [held EXCEPT ![t] = @ \ {x}]
    BY <1>1 DEF Push
  <2>2. x \in Items
    BY <1>0 DEF StackTypeOK
  <2>3. /\ stack' \in Seq(Items) /\ Len(stack') = Len(stack) + 1
        /\ stack'[Len(stack) + 1] = x
        /\ \A i \in Places : stack'[i] = stack[i]
    BY <1>0, <2>1, <2>2, PushIs
  <2>4. /\ held'[t] = held[t] \ {x}
        /\ \A u \in Threads \ {t} : held'[u] = held[u]
    BY <1>0, <2>1 DEF StackTypeOK
  <2>5. StackTypeOK'
    BY <1>0, <1>1, <2>1, <2>3 DEF StackTypeOK, Push
  <2>6. Places' = Places \cup {Len(stack) + 1} /\ \A i \in Places : stack'[i] # x
    BY <1>0, <2>1, <2>3 DEF Places, OwnedOnce
  <2>7. \A i, j \in Places' : stack'[i] = stack'[j] => i = j
    BY <1>0, <2>3, <2>6 DEF OwnedOnce
  <2>8. \A u, w \in Threads : held'[u] \cap held'[w] # {} => u = w
    BY <1>0, <2>4 DEF OwnedOnce
  <2>9. \A u \in Threads : x \notin held'[u]
    BY <1>0, <2>1, <2>4 DEF OwnedOnce
  <2>10. \A i \in Places', u \in Threads : stack'[i] \notin held'[u]
    BY <1>0, <2>3, <2>4, <2>6, <2>9 DEF OwnedOnce
  <2>11. OwnedOnce'
    BY <2>7, <2>8, <2>10 DEF OwnedOnce
  <2>12. QED BY <2>5, <2>11 DEF LInv
<1>2. ASSUME NEW t \in Threads, PopTop(t) PROVE LInv'
  <2>1. /\ stack' \in Seq(Items) /\ Len(stack') = Len(stack) - 1
        /\ Len(stack) \in Places /\ Top \in Items
        /\ \A i \in Places \ {Len(stack)} : stack'[i] = stack[i]
    BY <1>0, <1>2, PopIs DEF PopTop
  <2>2. /\ held'[t] = held[t] \cup {Top}
        /\ \A u \in Threads \ {t} : held'[u] = held[u]
    BY <1>0, <1>2 DEF PopTop, StackTypeOK
  <2>3. StackTypeOK'
    BY <1>0, <1>2, <2>1 DEF StackTypeOK, PopTop
  <2>4. Places' = Places \ {Len(stack)} /\ \A i \in Places' : stack'[i] # Top
    <3>1. Places' = Places \ {Len(stack)}
      BY <1>0, <2>1 DEF Places
    <3>2. QED BY <1>0, <2>1, <3>1 DEF OwnedOnce, Top
  <2>5. \A u \in Threads : Top \notin held[u]
    BY <1>0, <2>1 DEF OwnedOnce, Top
  <2>6. \A i, j \in Places' : stack'[i] = stack'[j] => i = j
    BY <1>0, <2>1, <2>4 DEF OwnedOnce
  <2>7. \A u, w \in Threads : held'[u] \cap held'[w] # {} => u = w
    BY <1>0, <2>2, <2>5 DEF OwnedOnce
  <2>8. \A i \in Places', u \in Threads : stack'[i] \notin held'[u]
    BY <1>0, <2>1, <2>2, <2>4 DEF OwnedOnce
  <2>9. OwnedOnce'
    BY <2>6, <2>7, <2>8 DEF OwnedOnce
  <2>10. QED BY <2>3, <2>9 DEF LInv
<1>3. ASSUME NEW t \in Threads, TellSize(t) PROVE LInv'
  BY <1>0, <1>3 DEF TellSize, LInv, StackTypeOK, OwnedOnce, Places
<1>4. CASE UNCHANGED stackVars
  BY <1>0, <1>4 DEF stackVars, LInv, StackTypeOK, OwnedOnce, Places
<1>5. QED BY <1>1, <1>2, <1>3, <1>4 DEF StackNext

LEMMA StackInvariant == StackSpec /\ OwnedOnce => []LInv
<1>1. StackInit /\ OwnedOnce => LInv
  BY DEF StackInit, LInv, StackTypeOK
<1>2. QED BY <1>1, StackStep, PTL DEF StackSpec

\* Moving an item in and out never makes two of it: no item comes to lie twice on
\* the stack, none is in two threads' hands, and none is in a hand while it is still
\* on the stack (LockStack.inl:103-160).
THEOREM GrowingStackOwnsOnce == StackSpec /\ OwnedOnce => []OwnedOnce
BY StackInvariant, PTL DEF LInv

--------------------------------------------------------------------------------
(* The stack as the session pool.                                          *)

Stacked == {stack[i] : i \in Places}
InHands == {x \in Items : \E t \in Threads : x \in held[t]}

Pool == INSTANCE SessionPool WITH Sessions <- Items, free <- Stacked, taken <- InHands, connected <- {}

ActsAsPool == [][Pool!PoolNext]_(Pool!poolVars)

\* A push gives an item back, a pop takes one, and telling the size does neither.
LEMMA PoolStep == LInv /\ [StackNext]_stackVars => [Pool!PoolNext]_(Pool!poolVars)
<1> SUFFICES ASSUME LInv, [StackNext]_stackVars PROVE [Pool!PoolNext]_(Pool!poolVars)
  OBVIOUS
<1>0. StackTypeOK /\ OwnedOnce /\ Len(stack) \in Nat
  BY DEF LInv, StackTypeOK
<1>1. ASSUME NEW t \in Threads, Push(t) PROVE \E x \in Items : Pool!GiveBack(x)
  <2>1. PICK x \in held[t] : stack' = Append(stack, x) /\ held' = [held EXCEPT ![t] = @ \ {x}]
    BY <1>1 DEF Push
  <2>2. x \in Items
    BY <1>0 DEF StackTypeOK
  <2>3. /\ Len(stack') = Len(stack) + 1 /\ stack'[Len(stack) + 1] = x
        /\ \A i \in Places : stack'[i] = stack[i]
    BY <1>0, <2>1, <2>2, PushIs
  <2>4. /\ held'[t] = held[t] \ {x}
        /\ \A u \in Threads \ {t} : held'[u] = held[u]
    BY <1>0, <2>1 DEF StackTypeOK
  <2>5. Places' = Places \cup {Len(stack) + 1}
    BY <1>0, <2>3 DEF Places
  <2>6. Stacked' = Stacked \cup {x}
    BY <2>3, <2>5 DEF Stacked
  <2>7. \A u \in Threads \ {t} : x \notin held[u]
    BY <1>0, <2>1 DEF OwnedOnce
  <2>8. InHands' = InHands \ {x} /\ x \in InHands
    BY <2>1, <2>2, <2>4, <2>7 DEF InHands
  <2>9. QED BY <2>2, <2>6, <2>8 DEF Pool!GiveBack
<1>2. ASSUME NEW t \in Threads, PopTop(t) PROVE \E x \in Items : Pool!Take(x)
  <2>1. /\ Len(stack') = Len(stack) - 1 /\ Len(stack) \in Places /\ Top \in Items
        /\ \A i \in Places \ {Len(stack)} : stack'[i] = stack[i]
    BY <1>0, <1>2, PopIs DEF PopTop
  <2>2. /\ held'[t] = held[t] \cup {Top}
        /\ \A u \in Threads \ {t} : held'[u] = held[u]
    BY <1>0, <1>2 DEF PopTop, StackTypeOK
  <2>3. Places' = Places \ {Len(stack)}
    BY <1>0, <2>1 DEF Places
  <2>4. \A i \in Places' : stack[i] # Top
    BY <1>0, <2>1, <2>3 DEF OwnedOnce, Top
  <2>5. Stacked' = Stacked \ {Top} /\ Top \in Stacked
    BY <2>1, <2>3, <2>4 DEF Stacked, Top
  <2>6. InHands' = InHands \cup {Top}
    BY <2>1, <2>2 DEF InHands
  <2>7. QED BY <2>1, <2>5, <2>6 DEF Pool!Take
<1>3. ASSUME NEW t \in Threads, TellSize(t) PROVE UNCHANGED Pool!poolVars
  BY <1>3 DEF TellSize, Pool!poolVars, Stacked, InHands, Places
<1>4. CASE UNCHANGED stackVars
  BY <1>4 DEF stackVars, Pool!poolVars, Stacked, InHands, Places
<1>5. QED BY <1>1, <1>2, <1>3, <1>4 DEF StackNext, Pool!PoolNext

\* The stack that NetEngine keeps its sessions on is a pool: each is taken and given
\* back one at a time, whatever the order in which they lie on it
\* (LockStack.inl:103-160; NetEngine.cpp:65-75).
THEOREM GrowingStackIsAPool == StackSpec /\ OwnedOnce => ActsAsPool
BY StackInvariant, PoolStep, PTL DEF ActsAsPool, StackSpec
================================================================================
