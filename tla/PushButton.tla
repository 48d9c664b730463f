----------------------------- MODULE PushButton -----------------------------
(* The hooks of one push button (char/board/bcm963xx/impl1/pushbutton.c):    *)
(* three arrays of callbacks, for its press, for the time it is held and for *)
(* its release, and the functions that choose which of them to call.         *)
(*                                                                           *)
(* Each operation holds the module's lock while it works on the arrays; the  *)
(* chosen hooks, callInfo, are called after that.  jiffies count modulo      *)
(* Wrap, and one is a millisecond.                                           *)
(*                                                                           *)
(* A definition marked "slip" is a plausible mistake in the one after it;    *)
(* no behaviour of the model uses it (see README, "Seeded mistakes").        *)
EXTENDS Integers, SequencesExt

CONSTANTS
  PressHooks, HoldHooks, ReleaseHooks,   \* what is registered: [hook, timeout, param]
  NoHook,                                \* NULL
  MaxHooks,                              \* MAX_BTN_HOOKS_PER_TRIG
  Wrap                                   \* the range of jiffies

ASSUME PushButtonAssumption ==
  /\ MaxHooks \in Nat \ {0} /\ Wrap \in Nat \ {0}
  /\ \A x \in PressHooks \cup HoldHooks \cup ReleaseHooks :
       x.hook # NoHook /\ x.timeout \in Nat
  /\ \A x \in PressHooks : x.timeout = 0

VARIABLES
  btnPressedInfo, btnHeldInfo, btnReleasedInfo,   \* the arrays
  btnPressJiffies,   \* when the button was pressed
  btnHeldIdx,        \* the next of btnHeldInfo to call
  callInfo           \* hooks chosen by the last operation and not called yet

lists == <<btnPressedInfo, btnHeldInfo, btnReleasedInfo>>
hookVars == <<lists, btnPressJiffies, btnHeldIdx, callInfo>>

Idx == 0..(MaxHooks - 1)
Jiffies == 0..(Wrap - 1)
Empty == [hook |-> NoHook, timeout |-> 0, param |-> 0]
NoHooks == [i \in Idx |-> Empty]

HooksInit ==
  /\ btnPressedInfo = NoHooks /\ btnHeldInfo = NoHooks /\ btnReleasedInfo = NoHooks
  /\ btnPressJiffies = 0 /\ btnHeldIdx = 0
  /\ callInfo = <<>>
-----------------------------------------------------------------------------
(* The arrays.                                                               *)

Free(a, i) == a[i].hook = NoHook
Full(a) == ~Free(a, MaxHooks - 1)
Registered(a) == {a[i] : i \in {j \in Idx : ~Free(a, j)}}

\* Slip: a hook is inserted before the others of its timeout ends as well.
InsertsAtAnyLater(a, i, x) == Free(a, i) \/ a[i].timeout # x.timeout

\* insertToOrderedArray puts x at the first place i where this holds.
InsertsAt(a, i, x) == Free(a, i) \/ a[i].timeout > x.timeout

\* The array with x at place i and the hooks from there moved up.
WithHookAt(a, i, x) ==
  IF Free(a, i) THEN [a EXCEPT ![i] = x]
  ELSE [j \in Idx |-> IF j < i THEN a[j] ELSE IF j = i THEN x ELSE a[j - 1]]

Inserted(a, x, b) ==
  /\ ~Full(a)
  /\ \E i \in Idx :
       /\ InsertsAt(a, i, x) /\ \A j \in Idx : j < i => ~InsertsAt(a, j, x)
       /\ b = WithHookAt(a, i, x)

\* deleteFromOrderedArray: place i is the first with this hook and timeout,
\* and the hooks after it move down.
FoundAt(a, i, hook, timeout) ==
  /\ a[i].hook = hook /\ a[i].timeout = timeout
  /\ \A j \in Idx : j < i => ~(a[j].hook = hook /\ a[j].timeout = timeout)

WithoutHookAt(a, i) ==
  [j \in Idx |-> IF j < i THEN a[j] ELSE IF j < MaxHooks - 1 THEN a[j + 1] ELSE Empty]
-----------------------------------------------------------------------------
(* Registration.  A hook may be registered more than once, and each          *)
(* deregistration takes out one of them.                                     *)

RegisterPress(x) ==
  /\ Inserted(btnPressedInfo, x, btnPressedInfo')
  /\ UNCHANGED <<btnHeldInfo, btnReleasedInfo, btnPressJiffies, btnHeldIdx, callInfo>>

\* The function means to adjust btnHeldIdx, but only does so for a hook that
\* is NULL, which it has refused before.
RegisterHold(x) ==
  /\ Inserted(btnHeldInfo, x, btnHeldInfo')
  /\ UNCHANGED <<btnPressedInfo, btnReleasedInfo, btnPressJiffies, btnHeldIdx, callInfo>>

RegisterRelease(x) ==
  /\ Inserted(btnReleasedInfo, x, btnReleasedInfo')
  /\ UNCHANGED <<btnPressedInfo, btnHeldInfo, btnPressJiffies, btnHeldIdx, callInfo>>

DeregisterPress(x) ==
  /\ \E i \in Idx : FoundAt(btnPressedInfo, i, x.hook, 0)
                    /\ btnPressedInfo' = WithoutHookAt(btnPressedInfo, i)
  /\ UNCHANGED <<btnHeldInfo, btnReleasedInfo, btnPressJiffies, btnHeldIdx, callInfo>>

\* Where btnHeldIdx goes when place i is taken out.
\* Slip: it also goes down for a hook that is still to come.
MoveAlways(idx, i) == idx - 1
MoveHeldIdx(idx, i) == IF idx >= i THEN idx - 1 ELSE idx

DeregisterHold(x) ==
  /\ \E i \in Idx :
       /\ FoundAt(btnHeldInfo, i, x.hook, x.timeout)
       /\ btnHeldInfo' = WithoutHookAt(btnHeldInfo, i)
       /\ btnHeldIdx' = MoveHeldIdx(btnHeldIdx, i)
  /\ UNCHANGED <<btnPressedInfo, btnReleasedInfo, btnPressJiffies, callInfo>>

DeregisterRelease(x) ==
  /\ \E i \in Idx : FoundAt(btnReleasedInfo, i, x.hook, x.timeout)
                    /\ btnReleasedInfo' = WithoutHookAt(btnReleasedInfo, i)
  /\ UNCHANGED <<btnPressedInfo, btnHeldInfo, btnPressJiffies, btnHeldIdx, callInfo>>

Registration ==
  \/ \E x \in PressHooks : RegisterPress(x) \/ DeregisterPress(x)
  \/ \E x \in HoldHooks : RegisterHold(x) \/ DeregisterHold(x)
  \/ \E x \in ReleaseHooks : RegisterRelease(x) \/ DeregisterRelease(x)
-----------------------------------------------------------------------------
(* Events.                                                                   *)

TimeInMs(t) == (t - btnPressJiffies) % Wrap

\* The loop of doPushButtonPress chooses all press hooks: chosen[i] are those
\* of the first i places.
PressedHooks ==
  LET chosen[i \in 0..MaxHooks] ==
        IF i = 0 THEN <<>>
        ELSE IF Free(btnPressedInfo, i - 1) THEN chosen[i - 1]
        ELSE Append(chosen[i - 1], btnPressedInfo[i - 1])
  IN  chosen[MaxHooks]

\* doPushButtonPress
DoPress(t) ==
  /\ btnPressJiffies' = t /\ btnHeldIdx' = 0
  /\ callInfo' = PressedHooks
  /\ UNCHANGED lists

\* What doPushButtonHold finds at index i.  An index of -1, which
\* DeregisterHold can leave, is outside of the button's array: the stray value
\* there is the last element of another button's array, or anything.
HeldInfo(i, stray) == IF i \in Idx THEN btnHeldInfo[i] ELSE stray

\* The loop ends at index i: behind the array, at an empty element, or at a
\* hook whose time has not come.
HoldStops(i, time, stray) ==
  \/ i = MaxHooks
  \/ HeldInfo(i, stray).hook = NoHook
  \/ HeldInfo(i, stray).timeout > time

\* doPushButtonHold chooses the next hold hooks whose time has come, and none
\* in this press any more once it has met an empty element.
\* Slip: btnHeldIdx stays, and they are chosen again the next time.
DoHoldAgain(t) ==
  \E stray \in {Empty} \cup (IF btnHeldIdx = -1 THEN HoldHooks ELSE {}) :
  \E stop \in btnHeldIdx..MaxHooks :
    /\ HoldStops(stop, TimeInMs(t), stray)
    /\ \A i \in btnHeldIdx..(stop - 1) : ~HoldStops(i, TimeInMs(t), stray)
    /\ callInfo' = [k \in 1..(stop - btnHeldIdx) |-> HeldInfo(btnHeldIdx + k - 1, stray)]
    /\ UNCHANGED <<lists, btnPressJiffies, btnHeldIdx>>
DoHold(t) ==
  \E stray \in {Empty} \cup (IF btnHeldIdx = -1 THEN HoldHooks ELSE {}) :
  \E stop \in btnHeldIdx..MaxHooks :
    /\ HoldStops(stop, TimeInMs(t), stray)
    /\ \A i \in btnHeldIdx..(stop - 1) : ~HoldStops(i, TimeInMs(t), stray)
    /\ btnHeldIdx' = IF stop < MaxHooks /\ HeldInfo(stop, stray).hook = NoHook
                     THEN MaxHooks ELSE stop
    /\ callInfo' = [k \in 1..(stop - btnHeldIdx) |-> HeldInfo(btnHeldIdx + k - 1, stray)]
    /\ UNCHANGED <<lists, btnPressJiffies>>

\* One element in the loop of doPushButtonRelease.
ChooseReleased(chosen, x, time) ==
  IF x.hook = NoHook \/ x.timeout > time THEN chosen
  ELSE IF chosen = <<>> \/ x.timeout = chosen[1].timeout THEN Append(chosen, x)
  ELSE IF x.timeout > chosen[1].timeout THEN <<x>>
  ELSE chosen

\* The loop, over the first i places.
ReleasedHooks(time) ==
  LET chosen[i \in 0..MaxHooks] ==
        IF i = 0 THEN <<>>
        ELSE ChooseReleased(chosen[i - 1], btnReleasedInfo[i - 1], time)
  IN  chosen[MaxHooks]

\* doPushButtonRelease
DoRelease(t) ==
  /\ callInfo' = ReleasedHooks(TimeInMs(t))
  /\ UNCHANGED <<lists, btnPressJiffies, btnHeldIdx>>

\* Outside of the lock, the chosen hooks are called.
HooksCalled == callInfo' = <<>> /\ UNCHANGED <<lists, btnPressJiffies, btnHeldIdx>>

HooksNext ==
  \/ Registration \/ HooksCalled
  \/ \E t \in Jiffies : DoPress(t) \/ DoHold(t) \/ DoRelease(t)

HooksSpec == HooksInit /\ [][HooksNext]_hookVars
-----------------------------------------------------------------------------
(* Properties *)

\* The arrays hold hooks, and btnHeldIdx is in its array or next to it.
HooksTypeOK ==
  /\ btnPressedInfo \in [Idx -> PressHooks \cup {Empty}]
  /\ btnHeldInfo \in [Idx -> HoldHooks \cup {Empty}]
  /\ btnReleasedInfo \in [Idx -> ReleaseHooks \cup {Empty}]
  /\ btnPressJiffies \in Jiffies
  /\ btnHeldIdx \in -1..MaxHooks
  /\ callInfo \in Seq(PressHooks \cup HoldHooks \cup ReleaseHooks)

\* pushbutton.c:48, "the following arrays must be ordered by timeout", on
\* which the loop of doPushButtonHold relies, as it relies on there being no
\* gaps: whatever is registered and deregistered between.
Ordered(a) ==
  \A i, j \in Idx : i < j /\ ~Free(a, j) => ~Free(a, i) /\ a[i].timeout <= a[j].timeout
ListsOrdered ==
  Ordered(btnPressedInfo) /\ Ordered(btnHeldInfo) /\ Ordered(btnReleasedInfo)
=============================================================================
