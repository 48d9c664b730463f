---------------------------- MODULE ButtonProofs ----------------------------
(***************************************************************************)
(* Proofs about modules PushButton and Button, for any hooks, sizes of the *)
(* arrays, periods and delays, and with hooks registered at any time.      *)
(*                                                                         *)
(* The first part is about the arrays alone and the loops over them.  The  *)
(* second follows a press through the interrupt, the timer and the thread  *)
(* (Control), and the third compares the times they leave behind with the  *)
(* time the button was really held (Times).  Then come the types, and last *)
(* hooks registered before the button is used: each is called once in a    *)
(* press (Once).                                                           *)
(***************************************************************************)
EXTENDS Button, FiniteSetTheorems, WellFoundedInduction, TLAPS

-----------------------------------------------------------------------------
(* The arrays.                                                             *)

Arrays(H) == [Idx -> H \cup {Empty}]
AreHooks(H) == \A x \in H : x.hook # NoHook /\ x.timeout \in Nat

LEMMA EmptyIsFree == Empty.hook = NoHook /\ Empty.timeout = 0
BY DEF Empty

\* A hook put in its place leaves the array ordered and without gaps.
LEMMA InsertedOrdered ==
  ASSUME NEW H, AreHooks(H), NEW a \in Arrays(H), Ordered(a), NEW x \in H,
         NEW b, Inserted(a, x, b)
  PROVE  b \in Arrays(H) /\ Ordered(b)
<1>1. PICK i \in Idx : /\ InsertsAt(a, i, x) /\ \A j \in Idx : j < i => ~InsertsAt(a, j, x)
                       /\ b = WithHookAt(a, i, x)
  BY DEF Inserted
<1>2. ~Free(a, MaxHooks - 1) => FALSE
  BY DEF Inserted, Full
<1>3. \A j \in Idx : a[j].timeout \in Nat /\ a[j] \in H \cup {Empty}
  BY EmptyIsFree DEF Arrays, AreHooks
<1>4. x.timeout \in Nat /\ x.hook # NoHook
  BY DEF AreHooks
<1>5. \A j \in Idx : j < i => ~Free(a, j) /\ a[j].timeout <= x.timeout
  BY <1>1, <1>3, <1>4 DEF InsertsAt, Idx
<1>6. CASE Free(a, i)
  <2>1. b = [a EXCEPT ![i] = x]
    BY <1>1, <1>6 DEF WithHookAt
  <2>2. b \in Arrays(H)
    BY <2>1 DEF Arrays
  <2>3. \A j \in Idx : j > i => Free(a, j)
    BY <1>6 DEF Ordered, Idx
  <2>4. b[i] = x /\ \A j \in Idx : j # i => b[j] = a[j]
    BY <2>1 DEF Arrays
  <2>5. ASSUME NEW j \in Idx, NEW k \in Idx, j < k, ~Free(b, k)
        PROVE  ~Free(b, j) /\ b[j].timeout <= b[k].timeout
    <3>1. k <= i
      BY <2>3, <2>4, <2>5 DEF Free, Idx
    <3>2. CASE k = i
      BY <3>2, <2>4, <2>5, <1>5, <1>4 DEF Free, Idx
    <3>3. CASE k # i
      BY <3>1, <3>3, <2>4, <2>5 DEF Free, Idx, Ordered
    <3> QED
      BY <3>2, <3>3
  <2> QED
    BY <2>2, <2>5 DEF Ordered
<1>7. CASE ~Free(a, i)
  <2>1. b = [j \in Idx |-> IF j < i THEN a[j] ELSE IF j = i THEN x ELSE a[j - 1]]
    BY <1>1, <1>7 DEF WithHookAt
  <2>2. ASSUME NEW j \in Idx, j > i
        PROVE  j - 1 \in Idx /\ j - 1 >= i /\ b[j] = a[j - 1]
    <3>1. j - 1 \in Idx /\ j - 1 >= i /\ ~(j < i) /\ j # i
      BY <2>2, PushButtonAssumption DEF Idx
    <3> QED
      BY <2>1, <3>1
  <2>3. b[i] = x /\ \A j \in Idx : j < i => b[j] = a[j]
    BY <2>1 DEF Idx
  <2>4. b \in Arrays(H)
    BY <1>3, <2>1, <2>2 DEF Arrays, Idx
  <2>5. a[i].timeout > x.timeout
    BY <1>1, <1>7 DEF InsertsAt
  <2>6. ASSUME NEW j \in Idx, NEW k \in Idx, j < k, ~Free(b, k)
        PROVE  ~Free(b, j) /\ b[j].timeout <= b[k].timeout
    <3>1. CASE k <= i
      BY <3>1, <2>3, <2>6, <1>4, <1>5 DEF Free, Idx, Ordered
    <3>2. CASE k > i
      <4>1. b[k] = a[k - 1] /\ k - 1 \in Idx /\ k - 1 >= i /\ ~Free(a, k - 1)
        BY <3>2, <2>2, <2>6 DEF Free
      <4>2. x.timeout < a[k - 1].timeout
        <5>1. i < k - 1 => a[i].timeout <= a[k - 1].timeout
          BY <4>1 DEF Ordered
        <5> QED
          BY <5>1, <4>1, <2>5, <1>3, <1>4 DEF Idx
      <4>3. CASE j < i
        BY <4>3, <4>1, <2>3, <2>6 DEF Free, Idx, Ordered
      <4>4. CASE j = i
        BY <4>4, <4>1, <4>2, <2>3, <1>3, <1>4 DEF Free
      <4>5. CASE j > i
        BY <4>5, <4>1, <2>2, <2>6 DEF Free, Idx, Ordered
      <4> QED
        BY <4>3, <4>4, <4>5 DEF Idx
    <3> QED
      BY <3>1, <3>2 DEF Idx
  <2> QED
    BY <2>4, <2>6 DEF Ordered
<1> QED
  BY <1>6, <1>7

\* So does a hook taken out.
LEMMA DeletedOrdered ==
  ASSUME NEW H, AreHooks(H), NEW a \in Arrays(H), Ordered(a), NEW i \in Idx
  PROVE  WithoutHookAt(a, i) \in Arrays(H) /\ Ordered(WithoutHookAt(a, i))
<1> DEFINE b == WithoutHookAt(a, i)
<1>1. \A j \in Idx : /\ j < i => b[j] = a[j]
                     /\ j >= i /\ j < MaxHooks - 1 => j + 1 \in Idx /\ b[j] = a[j + 1]
                     /\ j >= i /\ j = MaxHooks - 1 => b[j] = Empty
  BY PushButtonAssumption DEF WithoutHookAt, Idx
<1>2. b \in Arrays(H)
  BY PushButtonAssumption DEF WithoutHookAt, Arrays, Idx
<1> HIDE DEF b
<1>3. ASSUME NEW j \in Idx, NEW k \in Idx, j < k, ~Free(b, k)
      PROVE  ~Free(b, j) /\ b[j].timeout <= b[k].timeout
  <2>1. j < MaxHooks - 1
    BY <1>3, PushButtonAssumption DEF Idx
  <2>2. CASE k < i
    BY <2>2, <1>1, <1>3 DEF Free, Idx, Ordered
  <2>3. CASE k >= i
    <3>1. k < MaxHooks - 1 /\ b[k] = a[k + 1] /\ k + 1 \in Idx
      BY <2>3, <1>1, <1>3, EmptyIsFree, PushButtonAssumption DEF Free, Idx
    <3>2. CASE j < i
      BY <3>1, <3>2, <1>1, <1>3 DEF Free, Idx, Ordered
    <3>3. CASE j >= i
      BY <3>1, <3>3, <2>1, <1>1, <1>3 DEF Free, Idx, Ordered
    <3> QED
      BY <3>2, <3>3 DEF Idx
  <2> QED
    BY <2>2, <2>3 DEF Idx
<1> QED
  BY <1>2, <1>3 DEF Ordered, b

-----------------------------------------------------------------------------
(* The loops over the arrays.                                              *)

LEMMA LeastNat ==
  ASSUME NEW T \in SUBSET Nat, T # {}
  PROVE  \E x \in T : \A y \in T : x <= y
<1>1. PICK x \in T : \A y \in T : ~(<<y, x>> \in OpToRel(<, Nat))
  BY NatLessThanWellFounded, WFMin, Zenon
<1>2. \A y \in T : ~(y < x)
  BY <1>1, Zenon DEF OpToRel
<1> QED
  BY <1>2

\* What holds before a loop and goes on from one turn to the next holds
\* throughout: G is the set of turns after which it does.
LEMMA EveryTurn ==
  ASSUME NEW n \in Nat, NEW G, 0 \in G, \A i \in 1..n : i - 1 \in G => i \in G
  PROVE  \A i \in 0..n : i \in G
<1> SUFFICES ASSUME {i \in 0..n : i \notin G} # {}
             PROVE  FALSE
  OBVIOUS
<1> DEFINE T == {i \in 0..n : i \notin G}
<1>1. PICK x \in T : \A y \in T : x <= y
  <2>1. T \in SUBSET Nat /\ T # {}
    OBVIOUS
  <2> HIDE DEF T
  <2> QED
    BY <2>1, LeastNat
<1>2. x \in 1..n /\ x - 1 \in 0..n
  BY <1>1
<1>3. x - 1 \notin T
  BY <1>1, <1>2
<1> QED
  BY <1>1, <1>2, <1>3

\* f[i] is what a loop has computed after i of its n turns.
Computes(f, n, start, turn) == f[0] = start /\ \A i \in 1..n : f[i] = turn[i][f[i - 1]]

\* A loop each turn of which makes a value of S from one computes such values.
LEMMA LoopComputes ==
  ASSUME NEW n \in Nat, NEW S, NEW start \in S, NEW turn \in [1..n -> [S -> S]]
  PROVE  \E f \in [0..n -> S] : Computes(f, n, start, turn)
<1> DEFINE G == {k \in 0..n : \E f \in [0..k -> S] : Computes(f, k, start, turn)}
<1>1. 0 \in G
  <2> DEFINE f == [i \in 0..0 |-> start]
  <2>1. f \in [0..0 -> S] /\ f[0] = start
    OBVIOUS
  <2> HIDE DEF f
  <2>2. Computes(f, 0, start, turn)
    BY <2>1 DEF Computes
  <2> QED
    BY <2>1, <2>2
<1>2. ASSUME NEW k \in 1..n, k - 1 \in G
      PROVE  k \in G
  <2>1. PICK f \in [0..(k - 1) -> S] : Computes(f, k - 1, start, turn)
    BY <1>2
  <2> DEFINE g == [i \in 0..k |-> IF i = k THEN turn[k][f[k - 1]] ELSE f[i]]
  <2>2. f[k - 1] \in S /\ turn[k] \in [S -> S]
    BY <1>2
  <2>3. g \in [0..k -> S]
    BY <2>2, <1>2
  <2>4. g[0] = start
    BY <2>1, <1>2 DEF Computes
  <2>5. ASSUME NEW i \in 1..k
        PROVE  g[i] = turn[i][g[i - 1]]
    <3>1. i - 1 \in 0..(k - 1) /\ g[i - 1] = f[i - 1]
      BY <1>2
    <3>2. CASE i = k
      BY <3>1, <3>2
    <3>3. CASE i # k
      <4>1. i \in 1..(k - 1) /\ i \in 0..(k - 1)
        BY <3>3, <1>2
      <4>2. f[i] = turn[i][f[i - 1]]
        BY <4>1, <2>1 DEF Computes
      <4> QED
        BY <3>1, <3>3, <4>1, <4>2
    <3> QED
      BY <3>2, <3>3
  <2> HIDE DEF g
  <2>6. Computes(g, k, start, turn)
    BY <2>4, <2>5 DEF Computes
  <2> QED
    BY <2>3, <2>6, <1>2
<1> HIDE DEF G
<1>3. \A k \in 0..n : k \in G
  BY <1>1, <1>2, EveryTurn
<1>4. n \in G
  BY <1>3
<1> QED
  BY <1>4 DEF G

\* doPushButtonPress chooses press hooks.
LEMMA PressedAreHooks ==
  ASSUME btnPressedInfo \in Arrays(PressHooks)
  PROVE  PressedHooks \in Seq(PressHooks)
<1> DEFINE S == Seq(PressHooks)
           Turn(i, v) == IF Free(btnPressedInfo, i - 1) THEN v
                         ELSE Append(v, btnPressedInfo[i - 1])
           turn == [i \in 1..MaxHooks |-> [v \in S |-> Turn(i, v)]]
           Loop(f) == [i \in 0..MaxHooks |-> IF i = 0 THEN <<>> ELSE Turn(i, f[i - 1])]
           chosen == CHOOSE f : f = Loop(f)
<1>1. MaxHooks \in Nat
  BY PushButtonAssumption
<1>2. <<>> \in S
  OBVIOUS
<1>3. ASSUME NEW i \in 1..MaxHooks, NEW v \in S
      PROVE  Turn(i, v) \in S
  <2>1. i - 1 \in Idx
    BY <1>1 DEF Idx
  <2>2. btnPressedInfo[i - 1] \in PressHooks \/ Free(btnPressedInfo, i - 1)
    BY <2>1 DEF Arrays, Free, Empty
  <2> QED
    BY <2>2
<1> HIDE DEF S, Turn
<1>4. turn \in [1..MaxHooks -> [S -> S]]
  BY <1>3
<1>5. PICK f \in [0..MaxHooks -> S] : Computes(f, MaxHooks, <<>>, turn)
  <2> HIDE DEF turn
  <2> QED
    BY <1>1, <1>2, <1>4, LoopComputes
<1>6. f = Loop(f)
  <2>1. ASSUME NEW i \in 0..MaxHooks
        PROVE  f[i] = IF i = 0 THEN <<>> ELSE Turn(i, f[i - 1])
    <3>1. CASE i = 0
      BY <3>1, <1>5 DEF Computes
    <3>2. CASE i # 0
      <4>1. i \in 1..MaxHooks /\ i - 1 \in 0..MaxHooks
        BY <3>2, <1>1
      <4> QED
        BY <4>1, <3>2, <1>5 DEF Computes
    <3> QED
      BY <3>1, <3>2
  <2> QED
    BY <2>1, <1>5
<1>7. chosen = Loop(chosen)
  BY <1>6
<1>12. PressedHooks = chosen[MaxHooks]
  BY DEF PressedHooks, Turn
<1> HIDE DEF chosen
<1> DEFINE G == {i \in 0..MaxHooks : chosen[i] \in S}
<1>8. 0 \in G
  BY <1>1, <1>2, <1>7
<1>9. ASSUME NEW i \in 1..MaxHooks, i - 1 \in G
      PROVE  i \in G
  <2>1. chosen[i - 1] \in S /\ i \in 0..MaxHooks
    BY <1>9, <1>1
  <2>2. chosen[i] = Turn(i, chosen[i - 1])
    BY <1>7, <2>1, <1>9
  <2> QED
    BY <2>1, <2>2, <1>3
<1> HIDE DEF G
<1>10. MaxHooks \in G
  BY <1>1, <1>8, <1>9, EveryTurn
<1> QED
  BY <1>10, <1>12 DEF G, S

\* doPushButtonRelease chooses release hooks whose time the button was held.
LEMMA ReleasedWereDue ==
  ASSUME btnReleasedInfo \in Arrays(ReleaseHooks), NEW time \in Nat
  PROVE  ReleasedHooks(time) \in Seq({x \in ReleaseHooks : x.timeout <= time})
<1> DEFINE H == {x \in ReleaseHooks : x.timeout <= time}
           S == Seq(H)
           Turn(i, v) == ChooseReleased(v, btnReleasedInfo[i - 1], time)
           turn == [i \in 1..MaxHooks |-> [v \in S |-> Turn(i, v)]]
           Loop(f) == [i \in 0..MaxHooks |-> IF i = 0 THEN <<>> ELSE Turn(i, f[i - 1])]
           chosen == CHOOSE f : f = Loop(f)
<1>1. MaxHooks \in Nat
  BY PushButtonAssumption
<1>2. <<>> \in S
  OBVIOUS
<1>3. ASSUME NEW i \in 1..MaxHooks, NEW v \in S
      PROVE  Turn(i, v) \in S
  <2>1. i - 1 \in Idx
    BY <1>1 DEF Idx
  <2>2. btnReleasedInfo[i - 1] \in H \/ btnReleasedInfo[i - 1].hook = NoHook
                                     \/ btnReleasedInfo[i - 1].timeout > time
    BY <2>1, PushButtonAssumption DEF Arrays, Empty
  <2> HIDE DEF H
  <2>3. v \in Seq(H)
    OBVIOUS
  <2>4. ASSUME btnReleasedInfo[i - 1] \in H
        PROVE  /\ Append(v, btnReleasedInfo[i - 1]) \in Seq(H)
               /\ <<btnReleasedInfo[i - 1]>> \in Seq(H)
    BY <2>3, <2>4
  <2> QED
    BY <2>2, <2>3, <2>4 DEF ChooseReleased
<1> HIDE DEF H, S, Turn
<1>4. turn \in [1..MaxHooks -> [S -> S]]
  BY <1>3
<1>5. PICK f \in [0..MaxHooks -> S] : Computes(f, MaxHooks, <<>>, turn)
  <2> HIDE DEF turn
  <2> QED
    BY <1>1, <1>2, <1>4, LoopComputes
<1>6. f = Loop(f)
  <2>1. ASSUME NEW i \in 0..MaxHooks
        PROVE  f[i] = IF i = 0 THEN <<>> ELSE Turn(i, f[i - 1])
    <3>1. CASE i = 0
      BY <3>1, <1>5 DEF Computes
    <3>2. CASE i # 0
      <4>1. i \in 1..MaxHooks /\ i - 1 \in 0..MaxHooks
        BY <3>2, <1>1
      <4> QED
        BY <4>1, <3>2, <1>5 DEF Computes
    <3> QED
      BY <3>1, <3>2
  <2> QED
    BY <2>1, <1>5
<1>7. chosen = Loop(chosen)
  BY <1>6
<1>12. ReleasedHooks(time) = chosen[MaxHooks]
  BY DEF ReleasedHooks, Turn
<1> HIDE DEF chosen
<1> DEFINE G == {i \in 0..MaxHooks : chosen[i] \in S}
<1>8. 0 \in G
  BY <1>1, <1>2, <1>7
<1>9. ASSUME NEW i \in 1..MaxHooks, i - 1 \in G
      PROVE  i \in G
  <2>1. chosen[i - 1] \in S /\ i \in 0..MaxHooks
    BY <1>9, <1>1
  <2>2. chosen[i] = Turn(i, chosen[i - 1])
    BY <1>7, <2>1, <1>9
  <2> QED
    BY <2>1, <2>2, <1>3
<1> HIDE DEF G
<1>10. MaxHooks \in G
  BY <1>1, <1>8, <1>9, EveryTurn
<1> QED
  BY <1>10, <1>12 DEF G, S, H

HooksInv ==
  /\ btnPressedInfo \in Arrays(PressHooks) /\ Ordered(btnPressedInfo)
  /\ btnHeldInfo \in Arrays(HoldHooks) /\ Ordered(btnHeldInfo)
  /\ btnReleasedInfo \in Arrays(ReleaseHooks) /\ Ordered(btnReleasedInfo)

LEMMA HookSets == AreHooks(PressHooks) /\ AreHooks(HoldHooks) /\ AreHooks(ReleaseHooks)
BY PushButtonAssumption DEF AreHooks

LEMMA HooksInitInv == HooksInit => HooksInv
<1> SUFFICES ASSUME HooksInit PROVE HooksInv
  OBVIOUS
<1>1. \A H : NoHooks \in Arrays(H)
  BY DEF NoHooks, Arrays
<1>2. Ordered(NoHooks)
  BY EmptyIsFree DEF Ordered, NoHooks, Free
<1> QED
  BY <1>1, <1>2 DEF HooksInit, HooksInv

LEMMA RegistrationInv ==
  ASSUME HooksInv, Registration
  PROVE  HooksInv'
<1>1. ASSUME NEW x \in PressHooks, RegisterPress(x)
      PROVE  HooksInv'
  <2>1. btnPressedInfo' \in Arrays(PressHooks) /\ Ordered(btnPressedInfo')
    BY <1>1, InsertedOrdered, HookSets DEF RegisterPress, HooksInv
  <2> QED
    BY <1>1, <2>1 DEF RegisterPress, HooksInv
<1>2. ASSUME NEW x \in PressHooks, DeregisterPress(x)
      PROVE  HooksInv'
  <2>1. btnPressedInfo' \in Arrays(PressHooks) /\ Ordered(btnPressedInfo')
    BY <1>2, DeletedOrdered, HookSets DEF DeregisterPress, HooksInv
  <2> QED
    BY <1>2, <2>1 DEF DeregisterPress, HooksInv
<1>3. ASSUME NEW x \in HoldHooks, RegisterHold(x)
      PROVE  HooksInv'
  <2>1. btnHeldInfo' \in Arrays(HoldHooks) /\ Ordered(btnHeldInfo')
    BY <1>3, InsertedOrdered, HookSets DEF RegisterHold, HooksInv
  <2> QED
    BY <1>3, <2>1 DEF RegisterHold, HooksInv
<1>4. ASSUME NEW x \in HoldHooks, DeregisterHold(x)
      PROVE  HooksInv'
  <2>1. btnHeldInfo' \in Arrays(HoldHooks) /\ Ordered(btnHeldInfo')
    BY <1>4, DeletedOrdered, HookSets DEF DeregisterHold, HooksInv
  <2> QED
    BY <1>4, <2>1 DEF DeregisterHold, HooksInv
<1>5. ASSUME NEW x \in ReleaseHooks, RegisterRelease(x)
      PROVE  HooksInv'
  <2>1. btnReleasedInfo' \in Arrays(ReleaseHooks) /\ Ordered(btnReleasedInfo')
    BY <1>5, InsertedOrdered, HookSets DEF RegisterRelease, HooksInv
  <2> QED
    BY <1>5, <2>1 DEF RegisterRelease, HooksInv
<1>6. ASSUME NEW x \in ReleaseHooks, DeregisterRelease(x)
      PROVE  HooksInv'
  <2>1. btnReleasedInfo' \in Arrays(ReleaseHooks) /\ Ordered(btnReleasedInfo')
    BY <1>6, DeletedOrdered, HookSets DEF DeregisterRelease, HooksInv
  <2> QED
    BY <1>6, <2>1 DEF DeregisterRelease, HooksInv
<1> QED
  BY <1>1, <1>2, <1>3, <1>4, <1>5, <1>6 DEF Registration

LEMMA HooksStepInv ==
  ASSUME HooksInv, [HooksNext]_hookVars
  PROVE  HooksInv'
<1>1. UNCHANGED lists => HooksInv'
  BY DEF HooksInv, lists
<1>2. CASE Registration
  BY <1>2, RegistrationInv
<1>3. CASE HooksCalled \/ UNCHANGED hookVars
  BY <1>1, <1>3 DEF HooksCalled, hookVars
<1>4. ASSUME NEW t \in Jiffies, DoPress(t) \/ DoHold(t) \/ DoRelease(t)
      PROVE  HooksInv'
  BY <1>1, <1>4 DEF DoPress, DoHold, DoRelease
<1> QED
  BY <1>2, <1>3, <1>4 DEF HooksNext

\* Whatever is registered and deregistered in between the events of the button,
\* the arrays stay ordered by timeout and without gaps, as pushbutton.c:47 demands.
THEOREM ListsStayOrdered == HooksSpec => []ListsOrdered
<1>1. HooksInv /\ [HooksNext]_hookVars => HooksInv'
  BY HooksStepInv
<1>2. HooksInv => ListsOrdered
  BY DEF HooksInv, ListsOrdered
<1> QED
  BY HooksInitInv, <1>1, <1>2, PTL DEF HooksSpec

-----------------------------------------------------------------------------
(* A press, from the interrupt to the thread.                              *)

Busy == {"press", "pressing", "wait", "ifHold", "hold", "holding", "ifReleased"}
Done == {"release", "releasing", "enable"}

\* The types that the proofs need.
Types ==
  /\ jiffies \in Jiffies /\ down \in BOOLEAN /\ dwell \in Nat
  /\ mapped \in BOOLEAN /\ irq \in BOOLEAN /\ active \in BOOLEAN
  /\ timer \in {Off} \cup (-Late..Poll)
  /\ events \subseteq Events /\ pc \in PCs
  /\ lastPressJiffies \in Jiffies /\ lastHoldJiffies \in Jiffies
  /\ lastReleaseJiffies \in Jiffies
  /\ heldFor \in Nat /\ btnHeldIdx \in -1..MaxHooks

\* What may be going on at each place of the thread.
Idle ==
  \/ irq = mapped /\ ~active /\ events = {}
  \/ mapped /\ ~irq /\ "PRESSED" \in events /\ (active \/ "RELEASED" \in events)
Control ==
  /\ PollOnlyActive
  /\ "RELEASED" \in events => ~active
  /\ pc = "idle" => Idle
  /\ pc \in Busy => /\ mapped /\ ~irq /\ "PRESSED" \notin events
                    /\ active \/ "RELEASED" \in events
  /\ pc \in Done => mapped /\ ~irq /\ ~active /\ events = {}


LEMMA ClockInRange ==
  ASSUME NEW j \in Jiffies
  PROVE  /\ (j + 1) % Wrap \in Jiffies
         /\ (j + 1) % Wrap = IF j + 1 < Wrap THEN j + 1 ELSE 0
BY PushButtonAssumption DEF Jiffies

LEMMA InitTypes == Init => Types
<1> SUFFICES ASSUME Init PROVE Types
  OBVIOUS
<1>1. 0 \in Jiffies /\ 0 \in -1..MaxHooks /\ MinUp \in Nat
  BY PushButtonAssumption, ButtonAssumption DEF Jiffies
<1> QED
  BY <1>1 DEF Init, HooksInit, Types, PCs

LEMMA StepTypes ==
  ASSUME Types, [Next]_vars
  PROVE  Types'
<1> USE DEF Types
<1>1. CASE PushDown \/ LetGo
  <2>1. down' \in BOOLEAN
    BY <1>1 DEF PushDown, LetGo
  <2>2. dwell' = 0
    BY <1>1 DEF PushDown, LetGo
  <2> QED
    BY <1>1, <2>1, <2>2 DEF PushDown, LetGo, hookVars, history
<1>2. CASE Tick
  <2>1. jiffies' \in Jiffies /\ dwell' \in Nat /\ heldFor' \in Nat
    BY <1>2, ClockInRange DEF Tick
  <2>2. timer' \in {Off} \cup (-Late..Poll)
    BY <1>2, ButtonAssumption DEF Tick
  <2> QED
    BY <1>2, <2>1, <2>2 DEF Tick, hookVars
<1>3. CASE btnPressIsr \/ PollDown \/ PollUp
  <2>1. timer' \in {Off} \cup (-Late..Poll)
    BY <1>3, ButtonAssumption DEF btnPressIsr, PollDown, PollUp
  <2>2. heldFor' \in Nat
    BY <1>3 DEF btnPressIsr, PollDown, PollUp, history
  <2>3. events' \subseteq Events
    BY <1>3 DEF btnPressIsr, PollDown, PollUp, Events
  <2>4. active' \in BOOLEAN /\ irq' \in BOOLEAN
    BY <1>3 DEF btnPressIsr, PollDown, PollUp
  <2> QED
    BY <1>3, <2>1, <2>2, <2>3, <2>4 DEF btnPressIsr, PollDown, PollUp, hookVars, history
<1>4. CASE Press
  <2>1. btnHeldIdx' \in -1..MaxHooks
    BY <1>4, PushButtonAssumption DEF Press, DoPress
  <2> QED
    BY <1>4, <2>1 DEF Press, Goto, PCs
<1>5. CASE Hold
  <2>1. btnHeldIdx' \in -1..MaxHooks
    BY <1>5, PushButtonAssumption DEF Hold, DoHold
  <2> QED
    BY <1>5, <2>1 DEF Hold, Goto, PCs, buttonVars
<1>6. CASE Release
  BY <1>6 DEF Release, DoRelease, ButtonUnchanged, buttonVars, history, Goto, PCs
<1>7. CASE TakePress \/ TakeHold \/ TakeRelease
  BY <1>7 DEF TakePress, TakeHold, TakeRelease, TakeEvents, Goto, PCs, hookVars, history
<1>8. CASE Wake \/ NoHold \/ NoRelease
  BY <1>8 DEF Wake, NoHold, NoRelease, ButtonUnchanged, buttonVars, history, Goto, PCs, hookVars
<1>9. CASE CallHooks
  BY <1>9 DEF CallHooks, HooksCalled, ButtonUnchanged, buttonVars, history, Goto, PCs
<1>10. CASE EnableIrq
  BY <1>10 DEF EnableIrq, Goto, PCs, hookVars, history
<1>11. CASE MapInterrupt
  BY <1>11 DEF MapInterrupt, hookVars, history
<1>12. CASE Register
  <2>1. ASSUME NEW i \in Idx
        PROVE  MoveHeldIdx(btnHeldIdx, i) \in -1..MaxHooks
    BY PushButtonAssumption DEF MoveHeldIdx, Idx
  <2>2. ASSUME NEW x \in HoldHooks, DeregisterHold(x)
        PROVE  btnHeldIdx' \in -1..MaxHooks
    BY <2>1, <2>2 DEF DeregisterHold
  <2>3. btnHeldIdx' \in -1..MaxHooks
    BY <1>12, <2>2 DEF Register, RegisterPress, RegisterHold, RegisterRelease,
      DeregisterPress, DeregisterRelease
  <2> QED
    BY <1>12, <2>3 DEF Register, buttonVars
<1>13. CASE UNCHANGED vars
  BY <1>13 DEF vars, hookVars, buttonVars, history
<1> QED
  BY <1>1, <1>2, <1>3, <1>4, <1>5, <1>6, <1>7, <1>8, <1>9, <1>10, <1>11, <1>12, <1>13
  DEF Next, btnThread

LEMMA InitControl == Init => Control
BY DEF Init, Control, PollOnlyActive, Idle, Busy, Done

LEMMA StepControl ==
  ASSUME Types, Control, [Next]_vars
  PROVE  Control'
<1> USE DEF Control, PollOnlyActive, Idle, Busy, Done
<1>1. CASE PushDown \/ LetGo
  BY <1>1 DEF PushDown, LetGo
<1>2. CASE Tick
  BY <1>2, ButtonAssumption DEF Tick, Types
<1>3. CASE btnPressIsr
  <2>1. pc = "idle" /\ events = {} /\ mapped
    BY <1>3 DEF btnPressIsr, Types, PCs
  <2>2. Poll # Off
    BY ButtonAssumption
  <2> QED
    BY <1>3, <2>1, <2>2 DEF btnPressIsr
<1>4. CASE PollDown \/ PollUp
  <2>1. Poll # Off
    BY ButtonAssumption
  <2> QED
    BY <1>4, <2>1 DEF PollDown, PollUp, Due
<1>5. CASE Press
  BY <1>5 DEF Press, Goto
<1>6. CASE Hold \/ Release
  BY <1>6 DEF Hold, Release, ButtonUnchanged, buttonVars, Goto
<1>7. CASE TakePress \/ TakeHold
  BY <1>7 DEF TakePress, TakeHold, TakeEvents, Goto
<1>8. CASE TakeRelease
  <2>1. events' = {}
    BY <1>8 DEF TakeRelease, TakeEvents, Goto, Types, Events
  <2> QED
    BY <1>8, <2>1 DEF TakeRelease, TakeEvents, Goto
<1>9. CASE Wake \/ NoHold \/ NoRelease \/ CallHooks
  BY <1>9 DEF Wake, NoHold, NoRelease, CallHooks, ButtonUnchanged, buttonVars, Goto
<1>10. CASE EnableIrq
  BY <1>10 DEF EnableIrq, Goto
<1>11. CASE MapInterrupt
  BY <1>11 DEF MapInterrupt, Types, PCs
<1>12. CASE Register
  BY <1>12 DEF Register, buttonVars
<1>13. CASE UNCHANGED vars
  BY <1>13 DEF vars, buttonVars
<1> QED
  BY <1>1, <1>2, <1>3, <1>4, <1>5, <1>6, <1>7, <1>8, <1>9, <1>10, <1>11, <1>12, <1>13
  DEF Next, btnThread

THEOREM ControlInvariant == Spec => [](Types /\ Control)
<1>1. Init => Types /\ Control
  BY InitTypes, InitControl
<1>2. Types /\ Control /\ [Next]_vars => (Types /\ Control)'
  BY StepTypes, StepControl
<1> QED
  BY <1>1, <1>2, PTL DEF Spec

\* The interrupt is never off with nobody to enable it again: however late the
\* thread is, a press or a release is noted for it, or the timer runs.
THEOREM NeverDeadAlways == Spec => []NeverDead
<1>1. Types /\ Control => NeverDead
  BY DEF Control, PollOnlyActive, Idle, Busy, NeverDead
<1> QED
  BY <1>1, ControlInvariant, PTL

\* The timer runs exactly while a press is on: btnPoll does not get where its
\* comment says it should not.
THEOREM PollOnlyActiveAlways == Spec => []PollOnlyActive
<1>1. Types /\ Control => PollOnlyActive
  BY DEF Control
<1> QED
  BY <1>1, ControlInvariant, PTL

\* The events and times that the thread finds are those of one press.
THEOREM OnePressAlways == Spec => []OnePress
<1>1. Types /\ Control => OnePress
  BY DEF Types, PCs, Control, Idle, Busy, Done, OnePress
<1> QED
  BY <1>1, ControlInvariant, PTL

-----------------------------------------------------------------------------
(* Times.                                                                  *)

Since(t, p) == (t - p) % Wrap

\* While a press is on, the clock, the button and the timer fit together.
ActiveTimes ==
  /\ down => heldFor <= dwell /\ Since(jiffies, lastPressJiffies) = heldFor
  /\ ~down => /\ dwell + timer <= Poll
              /\ Since(jiffies, lastPressJiffies) = heldFor + dwell

\* What the interrupt and the timer have left for the thread.
Times ==
  /\ down => dwell <= MaxHold
  /\ heldFor <= MaxHold
  /\ active => ActiveTimes
  /\ "HOLD" \in events \/ pc = "hold" =>
       Since(lastHoldJiffies, lastPressJiffies) <= heldFor
  /\ "RELEASED" \in events \/ pc = "release" =>
       Since(lastReleaseJiffies, lastPressJiffies) <= heldFor + Poll + Late
  /\ pc \notin {"idle", "press"} => btnPressJiffies = lastPressJiffies

LEMMA SinceIs ==
  ASSUME NEW t \in Jiffies, NEW p \in Jiffies
  PROVE  /\ Since(t, p) \in Nat
         /\ Since(t, p) = IF t >= p THEN t - p ELSE (t - p) + Wrap
BY PushButtonAssumption DEF Since, Jiffies

\* One jiffy later one more has passed, as long as they do not wrap around.
LEMMA SinceGrows ==
  ASSUME NEW t \in Jiffies, NEW p \in Jiffies, Since(t, p) + 1 < Wrap
  PROVE  Since((t + 1) % Wrap, p) = Since(t, p) + 1
<1>1. (t + 1) % Wrap \in Jiffies
  BY ClockInRange
<1>2. (t + 1) % Wrap = IF t + 1 < Wrap THEN t + 1 ELSE 0
  BY ClockInRange
<1>3. Since(t, p) = IF t >= p THEN t - p ELSE (t - p) + Wrap
  BY SinceIs
<1> DEFINE n == (t + 1) % Wrap
<1>4. Since(n, p) = IF n >= p THEN n - p ELSE (n - p) + Wrap
  BY <1>1, SinceIs
<1> HIDE DEF n
<1>5. n = IF t + 1 < Wrap THEN t + 1 ELSE 0
  BY <1>2 DEF n
<1>6. Since(n, p) = Since(t, p) + 1
  BY <1>3, <1>4, <1>5, PushButtonAssumption DEF Jiffies
<1> QED
  BY <1>6 DEF n

LEMMA NoTimeAtOnce ==
  ASSUME NEW t \in Jiffies
  PROVE  Since(t, t) = 0
BY SinceIs, PushButtonAssumption DEF Jiffies

LEMMA InitTimes == Init => Times
BY ButtonAssumption DEF Init, Times

LEMMA TickTimes ==
  ASSUME Types, Control, Times, Tick
  PROVE  Times'
<1>1. /\ dwell \in Nat /\ heldFor \in Nat /\ jiffies \in Jiffies /\ lastPressJiffies \in Jiffies
      /\ active => timer \in -Late..Poll
  BY DEF Types, Control, PollOnlyActive
<1>2. ASSUME down
      PROVE  dwell' = dwell + 1 /\ dwell' <= MaxHold
  BY <1>1, <1>2, ButtonAssumption DEF Tick
<1>3. ASSUME active, down
      PROVE  heldFor' = heldFor + 1 /\ heldFor' <= dwell' /\ heldFor' <= MaxHold
  BY <1>1, <1>2, <1>3, ButtonAssumption DEF Tick, Times, ActiveTimes
<1>4. ASSUME active, ~down
      PROVE  heldFor' = heldFor /\ dwell' = dwell + 1 /\ dwell' + timer' <= Poll /\ dwell' <= Poll + Late
  <2>1. timer > -Late /\ timer' = timer - 1
    BY <1>4, ButtonAssumption DEF Tick, Control, PollOnlyActive
  <2>2. dwell + timer <= Poll
    BY <1>4 DEF Times, ActiveTimes
  <2>3. dwell < Poll + Late
    BY <2>1, <2>2, <1>1, <1>4, ButtonAssumption
  <2>4. heldFor' = heldFor /\ dwell' = dwell + 1
    BY <1>4, <2>3, <1>1, ButtonAssumption DEF Tick
  <2> QED
    BY <2>1, <2>2, <2>3, <2>4, <1>1, <1>4, ButtonAssumption
<1>5. heldFor' \in Nat /\ heldFor' >= heldFor
  BY <1>1 DEF Tick
<1>6. heldFor' <= MaxHold
  BY <1>1, <1>3 DEF Tick, Times
<1>7. ASSUME active
      PROVE  ActiveTimes'
  <2>1. CASE down
    <3>1. Since(jiffies, lastPressJiffies) = heldFor
      BY <2>1, <1>7 DEF Times, ActiveTimes
    <3>2. heldFor + 1 < Wrap
      BY <2>1, <1>1, <1>3, <1>7, ButtonAssumption, PushButtonAssumption
    <3>3. Since(jiffies', lastPressJiffies') = heldFor'
      BY <3>1, <3>2, <1>1, <1>3, <1>7, <2>1, SinceGrows DEF Tick
    <3> QED
      BY <3>3, <2>1, <1>3, <1>7 DEF ActiveTimes, Tick
  <2>2. CASE ~down
    <3>1. Since(jiffies, lastPressJiffies) = heldFor + dwell
      BY <2>2, <1>7 DEF Times, ActiveTimes
    <3>2. heldFor + dwell + 1 < Wrap
      BY <2>2, <1>1, <1>4, <1>5, <1>6, <1>7, ButtonAssumption, PushButtonAssumption
    <3>3. Since(jiffies', lastPressJiffies') = heldFor' + dwell'
      BY <3>1, <3>2, <1>1, <1>4, <1>7, <2>2, SinceGrows DEF Tick
    <3> QED
      BY <3>3, <2>2, <1>4, <1>7 DEF ActiveTimes, Tick
  <2> QED
    BY <2>1, <2>2
<1>8. Since(lastHoldJiffies, lastPressJiffies) \in Nat /\ Since(lastReleaseJiffies, lastPressJiffies) \in Nat
  BY SinceIs DEF Types
<1>9. (("HOLD" \in events \/ pc = "hold") =>
        Since(lastHoldJiffies, lastPressJiffies) <= heldFor)'
  BY <1>1, <1>5, <1>8 DEF Tick, Times
<1>10. (("RELEASED" \in events \/ pc = "release") =>
         Since(lastReleaseJiffies, lastPressJiffies) <= heldFor + Poll + Late)'
  BY <1>1, <1>5, <1>8, ButtonAssumption DEF Tick, Times
<1>11. btnPressJiffies' = btnPressJiffies /\ lastPressJiffies' = lastPressJiffies /\ pc' = pc /\ active' = active /\ down' = down
  BY DEF Tick, hookVars
<1> QED
  BY <1>2, <1>6, <1>7, <1>9, <1>10, <1>11 DEF Times

\* The steps that leave the clock, the button and the times alone.
LEMMA QuietTimes ==
  ASSUME Times,
         jiffies' = jiffies, down' = down, dwell' = dwell, heldFor' = heldFor,
         active' = active, timer' = timer,
         lastPressJiffies' = lastPressJiffies, lastHoldJiffies' = lastHoldJiffies,
         lastReleaseJiffies' = lastReleaseJiffies,
         events' \subseteq events,
         pc' = "hold" => "HOLD" \in events \/ pc = "hold",
         pc' = "release" => "RELEASED" \in events \/ pc = "release",
         pc' \notin {"idle", "press"} => btnPressJiffies' = lastPressJiffies
  PROVE  Times'
<1>1. active' => ActiveTimes'
  BY DEF Times, ActiveTimes
<1>2. /\ down' => dwell' <= MaxHold
      /\ heldFor' <= MaxHold
  BY DEF Times
<1>3. ("HOLD" \in events' \/ pc' = "hold") =>
        Since(lastHoldJiffies', lastPressJiffies') <= heldFor'
  BY DEF Times
<1>4. ("RELEASED" \in events' \/ pc' = "release") =>
        Since(lastReleaseJiffies', lastPressJiffies') <= heldFor' + Poll + Late
  BY DEF Times
<1> QED
  BY <1>1, <1>2, <1>3, <1>4 DEF Times

LEMMA StepTimes ==
  ASSUME Types, Control, Times, [Next]_vars
  PROVE  Times'
<1>1. CASE PushDown
  <2>1. ~active
    <3> SUFFICES ASSUME active PROVE FALSE
      OBVIOUS
    <3>1. dwell + timer <= Poll /\ timer \in -Late..Poll /\ dwell \in Nat /\ dwell >= MinUp
      BY <1>1 DEF PushDown, Times, ActiveTimes, Types, Control, PollOnlyActive
    <3> QED
      BY <3>1, ButtonAssumption
  <2> QED
    BY <1>1, <2>1, ButtonAssumption DEF PushDown, Times, hookVars, history
<1>2. CASE LetGo
  <2>1. active => timer \in -Late..Poll
    BY DEF Types, Control, PollOnlyActive
  <2>2. active => /\ dwell' + timer' <= Poll
                  /\ Since(jiffies', lastPressJiffies') = heldFor' + dwell'
    BY <1>2, <2>1, ButtonAssumption DEF LetGo, Times, ActiveTimes, Types, history
  <2>3. active' => ActiveTimes'
    BY <1>2, <2>2 DEF LetGo, ActiveTimes
  <2> QED
    BY <1>2, <2>3 DEF LetGo, Times, hookVars, history
<1>3. CASE Tick
  BY <1>3, TickTimes
<1>4. CASE btnPressIsr
  <2>1. pc = "idle" /\ events = {}
    BY <1>4 DEF btnPressIsr, Types, PCs, Control, Idle, Busy, Done
  <2>2. pc' = "idle" /\ events' = {"PRESSED"} /\ heldFor' = 0 /\ lastPressJiffies' = jiffies
        /\ jiffies' = jiffies /\ down' /\ dwell' = dwell /\ dwell \in Nat /\ jiffies \in Jiffies
    BY <1>4, <2>1 DEF btnPressIsr, Types
  <2>3. ActiveTimes'
    BY <2>2, NoTimeAtOnce DEF ActiveTimes
  <2>4. dwell' <= MaxHold
    BY <1>4, <2>2 DEF btnPressIsr, Times
  <2> QED
    BY <2>2, <2>3, <2>4, ButtonAssumption DEF Times
<1>5. CASE PollDown
  <2>1. Since(lastHoldJiffies', lastPressJiffies') <= heldFor'
    BY <1>5 DEF PollDown, Times, ActiveTimes, Types, history
  <2>2. ActiveTimes'
    BY <1>5 DEF PollDown, Times, ActiveTimes, history
  <2> QED
    BY <1>5, <2>1, <2>2 DEF PollDown, Times, hookVars, history
<1>6. CASE PollUp
  <2>1. timer \in -Late..Poll /\ dwell + timer <= Poll /\ dwell \in Nat /\ heldFor \in Nat
    BY <1>6 DEF PollUp, Times, ActiveTimes, Types, Control, PollOnlyActive
  <2>2. Since(lastReleaseJiffies', lastPressJiffies') = heldFor + dwell
    BY <1>6 DEF PollUp, Times, ActiveTimes
  <2>3. Since(lastReleaseJiffies', lastPressJiffies') <= heldFor' + Poll + Late
    BY <1>6, <2>1, <2>2, ButtonAssumption DEF PollUp, history
  <2> QED
    BY <1>6, <2>3 DEF PollUp, Times, hookVars, history
<1>7. CASE Press
  BY <1>7, QuietTimes DEF Press, DoPress, Goto
<1>8. CASE Hold
  BY <1>8, QuietTimes DEF Hold, DoHold, Goto, buttonVars, Times
<1>9. CASE Release
  BY <1>9, QuietTimes DEF Release, DoRelease, Goto, ButtonUnchanged, buttonVars, history, Times
<1>10. CASE TakePress \/ TakeHold \/ TakeRelease
  BY <1>10, QuietTimes DEF TakePress, TakeHold, TakeRelease, TakeEvents, Goto, hookVars, history, Times
<1>11. CASE Wake \/ NoHold \/ NoRelease
  BY <1>11, QuietTimes DEF Wake, NoHold, NoRelease, ButtonUnchanged, buttonVars, history, Goto, hookVars, Times
<1>12. CASE CallHooks
  BY <1>12, QuietTimes DEF CallHooks, HooksCalled, ButtonUnchanged, buttonVars, history, Goto, Times
<1>13. CASE EnableIrq
  BY <1>13, QuietTimes DEF EnableIrq, Goto, hookVars, history
<1>14. CASE MapInterrupt
  BY <1>14, QuietTimes DEF MapInterrupt, hookVars, history, Times
<1>15. CASE Register
  <2>1. btnPressJiffies' = btnPressJiffies
    BY <1>15 DEF Register, RegisterPress, RegisterHold, RegisterRelease,
      DeregisterPress, DeregisterHold, DeregisterRelease
  <2> QED
    BY <1>15, <2>1, QuietTimes DEF Register, buttonVars, Times
<1>16. CASE UNCHANGED vars
  BY <1>16, QuietTimes DEF vars, hookVars, buttonVars, history, Times
<1> QED
  BY <1>1, <1>2, <1>3, <1>4, <1>5, <1>6, <1>7, <1>8, <1>9, <1>10, <1>11, <1>12, <1>13,
    <1>14, <1>15, <1>16
  DEF Next, btnThread

\* Every step of the button is one of the hooks' module.
LEMMA StepHooks ==
  ASSUME Types, [Next]_vars
  PROVE  [HooksNext]_hookVars
<1>1. CASE PushDown \/ LetGo \/ Tick \/ btnPressIsr \/ PollDown \/ PollUp
  BY <1>1 DEF PushDown, LetGo, Tick, btnPressIsr, PollDown, PollUp
<1>2. CASE Press
  BY <1>2 DEF Press, HooksNext, Types
<1>3. CASE Hold
  BY <1>3 DEF Hold, HooksNext, Types
<1>4. CASE Release
  BY <1>4 DEF Release, HooksNext, Types
<1>5. CASE CallHooks
  BY <1>5 DEF CallHooks, HooksNext
<1>6. CASE TakePress \/ TakeHold \/ TakeRelease \/ Wake \/ NoHold \/ NoRelease \/ EnableIrq
  BY <1>6 DEF TakePress, TakeHold, TakeRelease, TakeEvents, Wake, NoHold, NoRelease, EnableIrq
<1>7. CASE MapInterrupt \/ UNCHANGED vars
  BY <1>7 DEF MapInterrupt, vars
<1>8. CASE Register
  BY <1>8 DEF Register, HooksNext, Registration
<1> QED
  BY <1>1, <1>2, <1>3, <1>4, <1>5, <1>6, <1>7, <1>8 DEF Next, btnThread

\* The button uses its hooks as their module assumes: the thread's calls, at
\* whatever time it makes them, are steps of HooksSpec.
THEOREM UsesHooks == Spec => HooksSpec
<1>1. Init => HooksInit
  BY DEF Init
<1>2. Types /\ [Next]_vars => [HooksNext]_hookVars
  BY StepHooks
<1> QED
  BY <1>1, <1>2, ControlInvariant, PTL DEF Spec, HooksSpec

THEOREM TimesInvariant == Spec => []Times
<1>1. Types /\ Control /\ Times /\ [Next]_vars => Times'
  BY StepTimes
<1> QED
  BY InitTimes, <1>1, ControlInvariant, PTL DEF Spec

\* What doPushButtonHold chooses was due.
LEMMA ChosenWereDue ==
  ASSUME NEW t, DoHold(t), TimeInMs(t) \in Nat, HooksInv, btnHeldIdx \in -1..MaxHooks,
         NEW x \in Range(callInfo')
  PROVE  x.timeout \in Nat /\ x.timeout <= TimeInMs(t)
<1>1. PICK stray \in {Empty} \cup (IF btnHeldIdx = -1 THEN HoldHooks ELSE {}),
           stop \in btnHeldIdx..MaxHooks :
        /\ \A i \in btnHeldIdx..(stop - 1) : ~HoldStops(i, TimeInMs(t), stray)
        /\ callInfo' = [k \in 1..(stop - btnHeldIdx) |-> HeldInfo(btnHeldIdx + k - 1, stray)]
  BY DEF DoHold
<1>2. PICK k \in 1..(stop - btnHeldIdx) : x = HeldInfo((btnHeldIdx + k) - 1, stray)
  BY <1>1 DEF Range
<1> DEFINE i == (btnHeldIdx + k) - 1
<1>3. i \in btnHeldIdx..(stop - 1)
  BY <1>2
<1>4. ~(HeldInfo(i, stray).timeout > TimeInMs(t))
  BY <1>1, <1>3 DEF HoldStops
<1>5. HeldInfo(i, stray).timeout \in Nat
  <2>1. \A y \in HoldHooks \cup {Empty} : y.timeout \in Nat
    BY PushButtonAssumption DEF Empty
  <2>2. HeldInfo(i, stray) \in HoldHooks \cup {Empty}
    BY DEF HeldInfo, HooksInv, Arrays
  <2> QED
    BY <2>1, <2>2
<1>6. HeldInfo(i, stray).timeout <= TimeInMs(t)
  BY <1>4, <1>5
<1> QED
  BY <1>2, <1>5, <1>6

\* No hold hook is called for a button that was held for a shorter time than the
\* hook's, though the thread is late, the clock wraps around and hooks come and
\* go meanwhile.
THEOREM HeldLongEnoughAlways == Spec => HeldLongEnough
<1>1. ASSUME Types, HooksInv, Times, pc = "hold" /\ pc' = "holding", [Next]_vars
      PROVE  \A x \in Range(callInfo') : x.timeout <= heldFor
  <2>1. Hold
    BY <1>1 DEF Next, btnThread, PushDown, LetGo, Tick, btnPressIsr, PollDown, PollUp,
      TakePress, Press, CallHooks, Wake, TakeHold, NoHold, TakeRelease, NoRelease, Release,
      EnableIrq, Register, MapInterrupt, Goto, vars
  <2>2. btnPressJiffies = lastPressJiffies
    BY <1>1 DEF Times
  <2>3. TimeInMs(lastHoldJiffies) = Since(lastHoldJiffies, lastPressJiffies)
    BY <2>2 DEF TimeInMs, Since
  <2>4. TimeInMs(lastHoldJiffies) \in Nat /\ heldFor \in Nat /\ btnHeldIdx \in -1..MaxHooks
    BY <2>3, <1>1, SinceIs DEF Types
  <2>5. TimeInMs(lastHoldJiffies) <= heldFor
    BY <2>3, <1>1 DEF Times
  <2>6. ASSUME NEW x \in Range(callInfo')
        PROVE  x.timeout <= heldFor
    <3>1. x.timeout \in Nat /\ x.timeout <= TimeInMs(lastHoldJiffies)
      BY <2>1, <2>4, <2>6, <1>1, ChosenWereDue DEF Hold
    <3> QED
      BY <3>1, <2>4, <2>5
  <2> QED
    BY <2>6
<1>2. HooksSpec => []HooksInv
  BY HooksInitInv, HooksStepInv, PTL DEF HooksSpec
<1>3. Types /\ HooksInv /\ Times /\ [Next]_vars =>
        [pc = "hold" /\ pc' = "holding" =>
           \A x \in Range(callInfo') : x.timeout <= heldFor]_vars
  BY <1>1
<1> QED
  BY <1>2, <1>3, ControlInvariant, TimesInvariant, UsesHooks, PTL DEF Spec, HeldLongEnough

\* No release hook is called for a button that was held for a shorter time than
\* the hook's, but for the period and the delay of the timer that finds the
\* release: however late the thread is and whichever hooks come and go.
THEOREM ReleaseTimelyAlways == Spec => ReleaseTimely
<1>1. ASSUME Types, HooksInv, Times, pc = "release" /\ pc' = "releasing", [Next]_vars
      PROVE  \A x \in Range(callInfo') : x.timeout <= heldFor + Poll + Late
  <2>1. Release
    BY <1>1 DEF Next, btnThread, PushDown, LetGo, Tick, btnPressIsr, PollDown, PollUp,
      TakePress, Press, CallHooks, Wake, TakeHold, NoHold, Hold, TakeRelease, NoRelease,
      EnableIrq, Register, MapInterrupt, Goto, vars
  <2> DEFINE time == TimeInMs(lastReleaseJiffies)
  <2>2. time = Since(lastReleaseJiffies, lastPressJiffies)
    BY <1>1 DEF Times, TimeInMs, Since
  <2>3. time \in Nat /\ time <= heldFor + Poll + Late
    BY <2>2, <1>1, SinceIs DEF Types, Times
  <2>4. callInfo' = ReleasedHooks(time)
    BY <2>1 DEF Release, DoRelease
  <2> HIDE DEF time
  <2>5. callInfo' \in Seq({x \in ReleaseHooks : x.timeout <= time})
    BY <2>3, <2>4, <1>1, ReleasedWereDue DEF HooksInv
  <2>6. ASSUME NEW x \in Range(callInfo')
        PROVE  x.timeout <= heldFor + Poll + Late
    <3>1. x \in ReleaseHooks /\ x.timeout <= time
      BY <2>5, <2>6 DEF Range
    <3>2. x.timeout \in Nat /\ heldFor \in Nat
      BY <3>1, <1>1, PushButtonAssumption DEF Types
    <3> QED
      BY <3>1, <3>2, <2>3, ButtonAssumption
  <2> QED
    BY <2>6
<1>2. HooksSpec => []HooksInv
  BY HooksInitInv, HooksStepInv, PTL DEF HooksSpec
<1>3. Types /\ HooksInv /\ Times /\ [Next]_vars =>
        [pc = "release" /\ pc' = "releasing" =>
           \A x \in Range(callInfo') : x.timeout <= heldFor + Poll + Late]_vars
  BY <1>1
<1> QED
  BY <1>2, <1>3, ControlInvariant, TimesInvariant, UsesHooks, PTL DEF Spec, ReleaseTimely

-----------------------------------------------------------------------------
(* Types.                                                                  *)

AllHooks == PressHooks \cup HoldHooks \cup ReleaseHooks

\* The thread calls nothing but hooks.
CallsHooks ==
  /\ callInfo \in Seq(AllHooks) /\ held \subseteq HoldHooks
  /\ btnPressJiffies \in Jiffies

\* doPushButtonHold chooses hold hooks, also from an index before its array.
LEMMA HeldAreHooks ==
  ASSUME NEW t, DoHold(t), HooksInv, btnHeldIdx \in -1..MaxHooks
  PROVE  callInfo' \in Seq(HoldHooks)
<1>1. PICK stray \in {Empty} \cup (IF btnHeldIdx = -1 THEN HoldHooks ELSE {}),
           stop \in btnHeldIdx..MaxHooks :
        /\ \A i \in btnHeldIdx..(stop - 1) : ~HoldStops(i, TimeInMs(t), stray)
        /\ callInfo' = [k \in 1..(stop - btnHeldIdx) |-> HeldInfo(btnHeldIdx + k - 1, stray)]
  BY DEF DoHold
<1>2. stop - btnHeldIdx \in Nat
  BY PushButtonAssumption
<1>3. ASSUME NEW k \in 1..(stop - btnHeldIdx)
      PROVE  HeldInfo(btnHeldIdx + k - 1, stray) \in HoldHooks
  <2> DEFINE i == btnHeldIdx + k - 1
  <2>1. i \in btnHeldIdx..(stop - 1)
    BY PushButtonAssumption
  <2> HIDE DEF i
  <2>2. HeldInfo(i, stray).hook # NoHook
    BY <1>1, <2>1 DEF HoldStops
  <2>3. HeldInfo(i, stray) \in HoldHooks \cup {Empty}
    BY DEF HeldInfo, HooksInv, Arrays
  <2>4. HeldInfo(i, stray) \in HoldHooks
    BY <2>2, <2>3, EmptyIsFree
  <2> QED
    BY <2>4 DEF i
<1> QED
  BY <1>1, <1>2, <1>3

LEMMA InitCallsHooks == Init => CallsHooks
BY PushButtonAssumption DEF Init, HooksInit, CallsHooks, Jiffies

LEMMA StepCallsHooks ==
  ASSUME Types, HooksInv, CallsHooks, [Next]_vars
  PROVE  CallsHooks'
<1> USE DEF CallsHooks
<1>1. CASE PushDown \/ LetGo \/ Tick \/ btnPressIsr \/ PollDown \/ PollUp \/ MapInterrupt
           \/ UNCHANGED vars
  BY <1>1 DEF PushDown, LetGo, Tick, btnPressIsr, PollDown, PollUp, MapInterrupt, vars,
    hookVars, history
<1>2. CASE TakePress \/ TakeHold \/ TakeRelease \/ Wake \/ NoHold \/ NoRelease \/ EnableIrq
  BY <1>2 DEF TakePress, TakeHold, TakeRelease, TakeEvents, Wake, NoHold, NoRelease, EnableIrq,
    ButtonUnchanged, hookVars, history
<1>3. CASE CallHooks
  BY <1>3 DEF CallHooks, HooksCalled, ButtonUnchanged, history
<1>4. CASE Press
  <2>1. callInfo' \in Seq(PressHooks)
    BY <1>4, PressedAreHooks DEF Press, DoPress, HooksInv
  <2>2. callInfo' \in Seq(AllHooks)
    BY <2>1 DEF AllHooks
  <2> QED
    BY <1>4, <2>2 DEF Press, DoPress, Types
<1>5. CASE Hold
  <2>1. callInfo' \in Seq(HoldHooks)
    BY <1>5, HeldAreHooks DEF Hold, Types
  <2>2. callInfo' \in Seq(AllHooks)
    BY <2>1 DEF AllHooks
  <2>3. Range(callInfo') \subseteq HoldHooks
    BY <2>1 DEF Range
  <2> QED
    BY <1>5, <2>2, <2>3 DEF Hold, DoHold
<1>6. CASE Release
  <2> DEFINE time == TimeInMs(lastReleaseJiffies)
  <2>1. time \in Nat
    BY SinceIs DEF Types, TimeInMs, Since
  <2>2. callInfo' = ReleasedHooks(time)
    BY <1>6 DEF Release, DoRelease
  <2> HIDE DEF time
  <2>3. callInfo' \in Seq({x \in ReleaseHooks : x.timeout <= time})
    BY <2>1, <2>2, ReleasedWereDue DEF HooksInv
  <2>4. callInfo' \in Seq(AllHooks)
    BY <2>3 DEF AllHooks
  <2> QED
    BY <1>6, <2>4 DEF Release, DoRelease, ButtonUnchanged, history
<1>7. CASE Register
  BY <1>7 DEF Register, RegisterPress, RegisterHold, RegisterRelease,
    DeregisterPress, DeregisterHold, DeregisterRelease
<1> QED
  BY <1>1, <1>2, <1>3, <1>4, <1>5, <1>6, <1>7 DEF Next, btnThread

\* The arrays hold hooks of their kinds, btnHeldIdx stays in its array or next to
\* it although hooks are deregistered while the button is held, and what is
\* called are hooks.
THEOREM ButtonTypes == Spec => []ButtonTypeOK
<1>1. HooksSpec => []HooksInv
  BY HooksInitInv, HooksStepInv, PTL DEF HooksSpec
<1>2. Types /\ HooksInv /\ CallsHooks /\ [Next]_vars => CallsHooks'
  BY StepCallsHooks
<1>3. Types /\ HooksInv /\ CallsHooks => ButtonTypeOK
  BY DEF Types, HooksInv, Arrays, CallsHooks, AllHooks, HooksTypeOK, ButtonTypeOK
<1> QED
  BY InitCallsHooks, <1>1, <1>2, <1>3, ControlInvariant, UsesHooks, PTL DEF Spec

-----------------------------------------------------------------------------
(* Once in a press.                                                        *)

Distinct(a) == \A i, j \in Idx : i < j /\ ~Free(a, j) => a[i] # a[j]

\* A hook that is put in, and is not there yet, is the only one of its kind.
LEMMA InsertedDistinct ==
  ASSUME NEW H, NEW a \in Arrays(H), Ordered(a), Distinct(a),
         NEW x \in H, x \notin Registered(a), NEW b, Inserted(a, x, b)
  PROVE  Distinct(b)
<1>1. PICK i \in Idx : b = WithHookAt(a, i, x)
  BY DEF Inserted
<1>2. \A j \in Idx : ~Free(a, j) => a[j] # x
  BY DEF Registered
<1>3. CASE Free(a, i)
  <2>1. \A j \in Idx : b[j] = IF j = i THEN x ELSE a[j]
    BY <1>1, <1>3 DEF WithHookAt, Arrays
  <2>3. \A j \in Idx : j > i => Free(a, j)
    BY <1>3 DEF Ordered, Idx
  <2>4. ASSUME NEW j \in Idx, NEW k \in Idx, j < k, ~Free(b, k), b[j] = b[k]
        PROVE  FALSE
    <3>1. CASE k = i
      <4>1. b[j] = a[j] /\ b[k] = x
        BY <2>1, <2>4, <3>1 DEF Idx
      <4>2. ~Free(a, j)
        BY <4>1, <2>4, <3>1 DEF Free
      <4> QED
        BY <4>1, <4>2, <1>2, <2>4
    <3>2. CASE k # i
      <4>1. b[k] = a[k] /\ ~Free(a, k)
        BY <2>1, <2>4, <3>2 DEF Free
      <4>2. CASE j = i
        BY <4>1, <4>2, <2>3, <2>4 DEF Idx
      <4>3. CASE j # i
        BY <4>1, <4>3, <2>1, <2>4 DEF Distinct
      <4> QED
        BY <4>2, <4>3
    <3> QED
      BY <3>1, <3>2
  <2> QED
    BY <2>4 DEF Distinct
<1>4. CASE ~Free(a, i)
  <2> DEFINE from(j) == IF j < i THEN j ELSE j - 1
  <2>1. ASSUME NEW j \in Idx
        PROVE  b[j] = IF j = i THEN x ELSE a[from(j)]
    <3>1. b = [k \in Idx |-> IF k < i THEN a[k] ELSE IF k = i THEN x ELSE a[k - 1]]
      BY <1>1, <1>4 DEF WithHookAt
    <3>2. b[j] = IF j < i THEN a[j] ELSE IF j = i THEN x ELSE a[j - 1]
      BY <3>1
    <3> QED
      BY <3>2 DEF Idx
  <2>2. ASSUME NEW j \in Idx, j # i
        PROVE  from(j) \in Idx
    BY <2>2, PushButtonAssumption DEF Idx
  <2>3. ASSUME NEW j \in Idx, NEW k \in Idx, j < k, ~Free(b, k), b[j] = b[k]
        PROVE  FALSE
    <3>1. ASSUME NEW l \in Idx, l # i, ~Free(b, l)
          PROVE  b[l] # x
      <4>1. from(l) \in Idx /\ b[l] = a[from(l)]
        BY <2>1, <2>2, <3>1
      <4> QED
        BY <4>1, <3>1, <1>2 DEF Free
    <3>2. ~Free(b, j)
      BY <2>3 DEF Free
    <3>3. b[i] = x
      BY <2>1
    <3>4. j # i /\ k # i
      BY <3>1, <3>2, <3>3, <2>3 DEF Idx
    <3>5. from(j) \in Idx /\ from(k) \in Idx /\ b[j] = a[from(j)] /\ b[k] = a[from(k)]
      BY <2>1, <2>2, <3>4
    <3>6. from(j) < from(k)
      BY <2>3, <3>4 DEF Idx
    <3> HIDE DEF from
    <3> QED
      BY <3>5, <3>6, <2>3 DEF Distinct, Free
  <2> QED
    BY <2>3 DEF Distinct
<1> QED
  BY <1>3, <1>4

LEMMA DeletedDistinct ==
  ASSUME NEW H, NEW a \in Arrays(H), Distinct(a), NEW i \in Idx
  PROVE  Distinct(WithoutHookAt(a, i))
<1> DEFINE b == WithoutHookAt(a, i)
<1>1. \A j \in Idx : b[j] = IF j < i THEN a[j] ELSE IF j < MaxHooks - 1 THEN a[j + 1] ELSE Empty
  BY DEF WithoutHookAt
<1> HIDE DEF b
<1>2. ASSUME NEW j \in Idx, NEW k \in Idx, j < k, ~Free(b, k)
      PROVE  b[j] # b[k]
  <2>1. k < i \/ k < MaxHooks - 1
    BY <1>1, <1>2, EmptyIsFree DEF Free, Idx
  <2>2. PICK l \in Idx : b[k] = a[l] /\ (IF k < i THEN l = k ELSE l = k + 1)
    BY <1>1, <2>1, PushButtonAssumption DEF Idx
  <2>3. PICK m \in Idx : b[j] = a[m] /\ (IF j < i THEN m = j ELSE m = j + 1)
    BY <1>1, <1>2, <2>1, PushButtonAssumption DEF Idx
  <2>4. m < l
    BY <1>2, <2>2, <2>3 DEF Idx
  <2> QED
    BY <1>2, <2>2, <2>3, <2>4 DEF Distinct, Free
<1> QED
  BY <1>2 DEF Distinct, b

\* Without hooks that come and go: those called in this press are the ones before
\* btnHeldIdx, which is in its array once the thread has called the press hooks.
Once ==
  /\ Distinct(btnHeldInfo)
  /\ ~mapped => held = {}
  /\ \A h \in held : \E i \in Idx : i < btnHeldIdx /\ btnHeldInfo[i] = h
  /\ pc \in Busy \ {"press"} => btnHeldIdx >= 0

LEMMA InitOnce == Init => Once
BY EmptyIsFree DEF Init, HooksInit, Once, Distinct, NoHooks, Free, Busy

\* What doPushButtonHold chooses from an index in the array, and the next index.
LEMMA ChosenAre ==
  ASSUME NEW t, DoHold(t), btnHeldIdx \in 0..MaxHooks
  PROVE  \E stop \in btnHeldIdx..MaxHooks :
           /\ stop <= btnHeldIdx' /\ btnHeldIdx' \in Int
           /\ \A i \in btnHeldIdx..(stop - 1) : i \in Idx /\ ~Free(btnHeldInfo, i)
           /\ callInfo' = [k \in 1..(stop - btnHeldIdx) |-> btnHeldInfo[btnHeldIdx + k - 1]]
           /\ btnHeldInfo' = btnHeldInfo
<1>1. PICK stray \in {Empty}, stop \in btnHeldIdx..MaxHooks :
        /\ \A i \in btnHeldIdx..(stop - 1) : ~HoldStops(i, TimeInMs(t), stray)
        /\ btnHeldIdx' = IF stop < MaxHooks /\ HeldInfo(stop, stray).hook = NoHook
                         THEN MaxHooks ELSE stop
        /\ callInfo' = [k \in 1..(stop - btnHeldIdx) |-> HeldInfo(btnHeldIdx + k - 1, stray)]
        /\ UNCHANGED lists
  BY DEF DoHold
<1>2. MaxHooks \in Nat
  BY PushButtonAssumption
<1>3. ASSUME NEW i \in btnHeldIdx..(stop - 1)
      PROVE  i \in Idx /\ HeldInfo(i, stray) = btnHeldInfo[i] /\ ~Free(btnHeldInfo, i)
  <2>1. i \in Idx
    BY <1>2 DEF Idx
  <2> QED
    BY <2>1, <1>1 DEF HeldInfo, HoldStops, Free
<1>4. \A k \in 1..(stop - btnHeldIdx) : btnHeldIdx + k - 1 \in btnHeldIdx..(stop - 1)
  BY <1>2
<1>5. callInfo' = [k \in 1..(stop - btnHeldIdx) |-> btnHeldInfo[btnHeldIdx + k - 1]]
  BY <1>1, <1>3, <1>4
<1>6. stop <= btnHeldIdx' /\ btnHeldIdx' \in Int
  BY <1>1, <1>2
<1> QED
  BY <1>1, <1>3, <1>5, <1>6 DEF lists

LEMMA StepOnce ==
  ASSUME ~HotPlug, Types, Control, HooksInv, Once, [Next]_vars
  PROVE  Once'
<1> USE DEF Once
<1>1. CASE UNCHANGED <<btnHeldInfo, btnHeldIdx, held, mapped>> /\ (pc' = pc \/ pc \in Busy \ {"press"} \/ pc' \notin Busy \ {"press"})
  BY <1>1 DEF Distinct, Free
<1>2. CASE PushDown \/ LetGo \/ Tick \/ btnPressIsr \/ PollDown \/ PollUp \/ UNCHANGED vars
  BY <1>1, <1>2 DEF PushDown, LetGo, Tick, btnPressIsr, PollDown, PollUp, vars, hookVars, lists,
    buttonVars, history
<1>3. CASE Press
  BY <1>3, PushButtonAssumption DEF Press, DoPress, lists, Goto, Busy, Control, Distinct, Free
<1>4. CASE Hold
  <2>1. pc \in Busy \ {"press"} /\ mapped /\ pc' = "holding" /\ mapped' = mapped
    BY <1>4 DEF Hold, Goto, Busy, Control, buttonVars
  <2>2. btnHeldIdx \in 0..MaxHooks
    BY <2>1, PushButtonAssumption DEF Types
  <2>3. PICK stop \in btnHeldIdx..MaxHooks :
           /\ stop <= btnHeldIdx' /\ btnHeldIdx' \in Int
           /\ \A i \in btnHeldIdx..(stop - 1) : i \in Idx /\ ~Free(btnHeldInfo, i)
           /\ callInfo' = [k \in 1..(stop - btnHeldIdx) |-> btnHeldInfo[btnHeldIdx + k - 1]]
           /\ btnHeldInfo' = btnHeldInfo
    BY <1>4, <2>2, ChosenAre DEF Hold
  <2>4. MaxHooks \in Nat
    BY PushButtonAssumption
  <2>5. ASSUME NEW h \in held'
        PROVE  \E i \in Idx : i < btnHeldIdx' /\ btnHeldInfo'[i] = h
    <3>1. CASE h \in held
      <4>1. PICK i \in Idx : i < btnHeldIdx /\ btnHeldInfo[i] = h
        BY <3>1
      <4> QED
        BY <4>1, <2>2, <2>3, <2>4 DEF Idx
    <3>2. CASE h \in Range(callInfo')
      <4>1. PICK k \in 1..(stop - btnHeldIdx) : h = btnHeldInfo[btnHeldIdx + k - 1]
        BY <3>2, <2>3 DEF Range
      <4>2. btnHeldIdx + k - 1 \in btnHeldIdx..(stop - 1)
        BY <4>1, <2>2, <2>3, <2>4
      <4> QED
        BY <4>1, <4>2, <2>2, <2>3, <2>4 DEF Idx
    <3> QED
      BY <1>4, <3>1, <3>2 DEF Hold
  <2>6. btnHeldIdx' >= 0
    BY <2>2, <2>3, <2>4
  <2>7. Distinct(btnHeldInfo')
    BY <2>3 DEF Distinct, Free
  <2> QED
    BY <2>1, <2>5, <2>6, <2>7
<1>5. CASE Release
  BY <1>1, <1>5 DEF Release, DoRelease, lists, ButtonUnchanged, buttonVars, history, Goto, Busy
<1>6. CASE TakePress \/ TakeHold \/ TakeRelease
  BY <1>1, <1>6 DEF TakePress, TakeHold, TakeRelease, TakeEvents, hookVars, lists, history, Goto, Busy
<1>7. CASE Wake \/ NoHold \/ NoRelease
  BY <1>1, <1>7 DEF Wake, NoHold, NoRelease, ButtonUnchanged, buttonVars, hookVars, lists, history, Goto, Busy
<1>8. CASE CallHooks
  BY <1>1, <1>8 DEF CallHooks, HooksCalled, lists, ButtonUnchanged, buttonVars, history, Goto, Busy
<1>9. CASE EnableIrq
  BY <1>1, <1>9 DEF EnableIrq, hookVars, lists, history, Goto, Busy
<1>10. CASE MapInterrupt
  <2>1. UNCHANGED <<btnHeldInfo, btnHeldIdx, held, pc>>
    BY <1>10 DEF MapInterrupt, hookVars, lists, history
  <2>2. mapped' = TRUE
    BY <1>10 DEF MapInterrupt
  <2> QED
    BY <2>1, <2>2 DEF Distinct, Free
<1>11. CASE Register
  <2>1. ~mapped /\ mapped' = mapped /\ pc' = pc /\ held' = {}
    BY <1>11 DEF Register, buttonVars
  <2>2. pc' \notin Busy
    BY <2>1 DEF Control
  <2>3. ASSUME NEW x \in HoldHooks \ Registered(btnHeldInfo), RegisterHold(x)
        PROVE  Distinct(btnHeldInfo')
    BY <2>3, InsertedDistinct DEF RegisterHold, HooksInv
  <2>4. ASSUME NEW x \in HoldHooks, DeregisterHold(x)
        PROVE  Distinct(btnHeldInfo')
    <3>1. PICK i \in Idx : btnHeldInfo' = WithoutHookAt(btnHeldInfo, i)
      BY <2>4 DEF DeregisterHold
    <3>2. Distinct(WithoutHookAt(btnHeldInfo, i))
      BY DeletedDistinct DEF HooksInv
    <3> QED
      BY <3>1, <3>2
  <2>5. ASSUME btnHeldInfo' = btnHeldInfo
        PROVE  Distinct(btnHeldInfo')
    BY <2>5 DEF Distinct, Free
  <2>6. Distinct(btnHeldInfo')
    BY <1>11, <2>3, <2>4, <2>5 DEF Register, RegisterPress, RegisterRelease, DeregisterPress,
      DeregisterRelease
  <2> QED
    BY <2>1, <2>2, <2>6
<1> QED
  BY <1>2, <1>3, <1>4, <1>5, <1>6, <1>7, <1>8, <1>9, <1>10, <1>11
  DEF Next, btnThread

\* A hold hook is called at most once in a press, however late the thread is,
\* as long as the hooks are registered before the button is used.
THEOREM HeldOnceAlways == ~HotPlug => (Spec => HeldOnce)
<1> SUFFICES ASSUME ~HotPlug
             PROVE  Spec => HeldOnce
  OBVIOUS
<1>1. ASSUME Types, Once, pc = "hold", pc' = "holding", btnHeldIdx >= 0, [Next]_vars
      PROVE  /\ Range(callInfo') \cap held = {}
             /\ Cardinality(Range(callInfo')) = Len(callInfo')
  <2>1. Hold
    BY <1>1 DEF Next, btnThread, PushDown, LetGo, Tick, btnPressIsr, PollDown, PollUp,
      TakePress, Press, CallHooks, Wake, TakeHold, NoHold, TakeRelease, NoRelease, Release,
      EnableIrq, Register, MapInterrupt, Goto, vars
  <2>2. btnHeldIdx \in 0..MaxHooks /\ MaxHooks \in Nat
    BY <1>1, PushButtonAssumption DEF Types
  <2>3. PICK stop \in btnHeldIdx..MaxHooks :
           /\ \A i \in btnHeldIdx..(stop - 1) : i \in Idx /\ ~Free(btnHeldInfo, i)
           /\ callInfo' = [k \in 1..(stop - btnHeldIdx) |-> btnHeldInfo[btnHeldIdx + k - 1]]
    BY <2>1, <2>2, ChosenAre DEF Hold
  <2> DEFINE n == stop - btnHeldIdx
             c == [k \in 1..n |-> btnHeldInfo[btnHeldIdx + k - 1]]
  <2>4. n \in Nat
    BY <2>2
  <2>5. ASSUME NEW k \in 1..n
        PROVE  /\ c[k] = btnHeldInfo[btnHeldIdx + k - 1]
               /\ btnHeldIdx + k - 1 \in Idx /\ ~Free(btnHeldInfo, btnHeldIdx + k - 1)
    <3>1. btnHeldIdx + k - 1 \in btnHeldIdx..(stop - 1)
      BY <2>2
    <3> QED
      BY <3>1, <2>3
  <2>6. ASSUME NEW h \in held, NEW k \in 1..n, c[k] = h
        PROVE  FALSE
    <3>1. PICK i \in Idx : i < btnHeldIdx /\ btnHeldInfo[i] = h
      BY <1>1 DEF Once
    <3>2. i < btnHeldIdx + k - 1
      BY <3>1, <2>2 DEF Idx
    <3> QED
      BY <3>1, <3>2, <2>5, <2>6, <1>1 DEF Once, Distinct
  <2>7. ASSUME NEW k \in 1..n, NEW l \in 1..n, k < l
        PROVE  c[k] # c[l]
    <3>1. btnHeldIdx + k - 1 < btnHeldIdx + l - 1
      BY <2>7, <2>2
    <3> QED
      BY <3>1, <2>5, <1>1 DEF Once, Distinct
  <2>8. Range(c) = {c[k] : k \in 1..n}
    BY DEF Range
  <2>9. c \in [1..n -> Range(c)] /\ \A y \in Range(c) : \E k \in 1..n : c[k] = y
    BY DEF Range
  <2>10. Len(c) = n
    BY <2>4
  <2> HIDE DEF c, n
  <2>11. IsInjective(c)
    BY <2>7, <2>9, <2>4 DEF IsInjective
  <2>12. ExistsBijection(1..n, Range(c))
    BY <2>9, <2>11 DEF ExistsBijection, Bijection, Injection, Surjection
  <2>13. Cardinality(Range(c)) = n
    <3>1. IsFiniteSet(1..n) /\ Cardinality(1..n) = n
      BY <2>4, FS_Interval
    <3> QED
      BY <3>1, <2>12, FS_Bijection
  <2>14. callInfo' = c
    BY <2>3 DEF c, n
  <2> QED
    BY <2>6, <2>8, <2>10, <2>13, <2>14
<1>2. HooksSpec => []HooksInv
  BY HooksInitInv, HooksStepInv, PTL DEF HooksSpec
<1>3. Types /\ Control /\ HooksInv /\ Once /\ [Next]_vars => Once'
  BY StepOnce
<1>4. Spec => []Once
  BY InitOnce, <1>2, <1>3, ControlInvariant, UsesHooks, PTL DEF Spec
<1>5. Types /\ Once /\ [Next]_vars =>
        [pc = "hold" /\ pc' = "holding" /\ btnHeldIdx >= 0 =>
           /\ Range(callInfo') \cap held = {}
           /\ Cardinality(Range(callInfo')) = Len(callInfo')]_vars
  BY <1>1
<1> QED
  BY <1>4, <1>5, ControlInvariant, PTL DEF Spec, HeldOnce
=============================================================================
