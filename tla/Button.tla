------------------------------- MODULE Button -------------------------------
(* One push button of the board driver (char/board/bcm963xx/impl1/           *)
(* board_button.c): its press interrupt, the timer that polls it while it is *)
(* down, and the thread that calls its hooks, with the hooks of PushButton.  *)
(*                                                                           *)
(* The interrupt and the timer only leave times and events for the thread,   *)
(* under the button's lock.  The thread tests and clears events one at a     *)
(* time and may be late by any time: each of its steps is an action of its   *)
(* own.  Time is discrete: one Tick is one jiffy, and jiffies count modulo   *)
(* Wrap.                                                                     *)
(*                                                                           *)
(* A definition marked "slip" is a plausible mistake in the one after it;    *)
(* no behaviour of the model uses it (see README, "Seeded mistakes").        *)
EXTENDS PushButton

CONSTANTS
  Poll,      \* BTN_POLLFREQ
  Late,      \* how late the kernel may run the timer
  MinUp,     \* the button stays up for this long between two presses
  MaxHold,   \* the longest time somebody holds it down
  Off,       \* a timer that is not running
  HotPlug    \* whether hooks are also registered while the button is in use

ASSUME ButtonAssumption ==
  /\ Poll \in Nat \ {0} /\ Late \in Nat
  /\ MinUp \in Nat /\ MaxHold \in Nat
  /\ MinUp > Poll + Late /\ MaxHold + Poll + Late < Wrap
  /\ Off \notin Int /\ HotPlug \in BOOLEAN

VARIABLES
  jiffies,
  down, dwell,       \* is the button down (isDown), and for how long up or down
  mapped, irq,       \* has registerBtns connected its interrupt, is it enabled
  active, timer,     \* a press is on; jiffies until the timer is due
  events,            \* BTN_EV_*
  lastPressJiffies, lastHoldJiffies, lastReleaseJiffies,
  pc,                \* where the thread is
  heldFor,           \* history: how long the button has been down in this press
  held               \* history: hold hooks chosen in this press

buttonVars == <<jiffies, down, dwell, mapped, irq, active, timer, events,
                lastPressJiffies, lastHoldJiffies, lastReleaseJiffies>>
history == <<heldFor, held>>
vars == <<hookVars, buttonVars, pc, history>>

Events == {"PRESSED", "HOLD", "RELEASED"}
PCs == {"idle", "press", "pressing", "wait", "ifHold", "hold", "holding",
        "ifReleased", "release", "releasing", "enable"}

Init ==
  /\ HooksInit
  /\ jiffies = 0 /\ down = FALSE /\ dwell = MinUp
  /\ mapped = FALSE /\ irq = FALSE /\ active = FALSE /\ timer = Off /\ events = {}
  /\ lastPressJiffies = 0 /\ lastHoldJiffies = 0 /\ lastReleaseJiffies = 0
  /\ pc = "idle" /\ heldFor = 0 /\ held = {}
-----------------------------------------------------------------------------
(* The person at the button and the clock.                                   *)

PushDown ==
  /\ ~down /\ dwell >= MinUp
  /\ down' = TRUE /\ dwell' = 0
  /\ UNCHANGED <<hookVars, jiffies, mapped, irq, active, timer, events, lastPressJiffies,
                 lastHoldJiffies, lastReleaseJiffies, pc, history>>

LetGo ==
  /\ down
  /\ down' = FALSE /\ dwell' = 0
  /\ UNCHANGED <<hookVars, jiffies, mapped, irq, active, timer, events, lastPressJiffies,
                 lastHoldJiffies, lastReleaseJiffies, pc, history>>

Due == timer # Off /\ timer <= 0

Tick ==
  /\ down => dwell < MaxHold
  /\ timer # Off => timer > -Late
  /\ jiffies' = (jiffies + 1) % Wrap
  /\ dwell' = IF down \/ dwell < MinUp THEN dwell + 1 ELSE dwell
  /\ timer' = IF timer = Off THEN Off ELSE timer - 1
  /\ heldFor' = IF active /\ down THEN heldFor + 1 ELSE heldFor
  /\ UNCHANGED <<hookVars, down, mapped, irq, active, events, lastPressJiffies,
                 lastHoldJiffies, lastReleaseJiffies, pc, held>>
-----------------------------------------------------------------------------
(* The interrupt, which a button that is down raises while it is enabled,    *)
(* and the timer.                                                            *)

btnPressIsr ==
  /\ irq /\ down
  /\ active' = TRUE /\ lastPressJiffies' = jiffies /\ timer' = Poll
  /\ events' = events \cup {"PRESSED"}
  /\ irq' = FALSE
  /\ heldFor' = 0
  /\ UNCHANGED <<hookVars, jiffies, down, dwell, mapped, lastHoldJiffies,
                 lastReleaseJiffies, pc, held>>

\* btnPoll while the button is down.
\* Slip: the timer is not set again.
PollDownOnce ==
  /\ Due /\ active /\ down
  /\ lastHoldJiffies' = jiffies /\ timer' = Off
  /\ events' = events \cup {"HOLD"}
  /\ UNCHANGED <<hookVars, jiffies, down, dwell, mapped, irq, active, lastPressJiffies,
                 lastReleaseJiffies, pc, history>>
PollDown ==
  /\ Due /\ active /\ down
  /\ lastHoldJiffies' = jiffies /\ timer' = Poll
  /\ events' = events \cup {"HOLD"}
  /\ UNCHANGED <<hookVars, jiffies, down, dwell, mapped, irq, active, lastPressJiffies,
                 lastReleaseJiffies, pc, history>>

\* btnPoll finds the button up: there is no release interrupt for a button, so
\* this is how its release is noticed.
PollUp ==
  /\ Due /\ active /\ ~down
  /\ lastReleaseJiffies' = jiffies /\ active' = FALSE /\ timer' = Off
  /\ events' = events \cup {"RELEASED"}
  /\ UNCHANGED <<hookVars, jiffies, down, dwell, mapped, irq, lastPressJiffies,
                 lastHoldJiffies, pc, history>>

btnPoll == PollDown \/ PollUp
-----------------------------------------------------------------------------
(* The thread: btnThread, with btnDoPress, btnDoHold and btnDoRelease.       *)

Goto(from, to) == pc = from /\ pc' = to

ButtonUnchanged == UNCHANGED <<buttonVars, history>>

\* The thread takes events of E out of those set.
TakeEvents(E) ==
  /\ events' = events \ E
  /\ UNCHANGED <<hookVars, jiffies, down, dwell, mapped, irq, active, timer, lastPressJiffies,
                 lastHoldJiffies, lastReleaseJiffies, history>>

\* It sleeps until a press.
TakePress == Goto("idle", "press") /\ "PRESSED" \in events /\ TakeEvents({"PRESSED"})

Press ==
  /\ Goto("press", "pressing")
  /\ DoPress(lastPressJiffies)
  /\ irq' = FALSE /\ held' = {}
  /\ UNCHANGED <<jiffies, down, dwell, mapped, active, timer, events, lastPressJiffies,
                 lastHoldJiffies, lastReleaseJiffies, heldFor>>

CallHooks ==
  /\ Goto("pressing", "wait") \/ Goto("holding", "ifReleased") \/ Goto("releasing", "enable")
  /\ HooksCalled /\ ButtonUnchanged

\* It wakes up for an event, and without one after BTN_POLLFREQ.
Wake == Goto("wait", "ifHold") /\ ButtonUnchanged /\ UNCHANGED hookVars

TakeHold == Goto("ifHold", "hold") /\ "HOLD" \in events /\ TakeEvents({"HOLD"})
NoHold ==
  /\ Goto("ifHold", "ifReleased") /\ "HOLD" \notin events
  /\ ButtonUnchanged /\ UNCHANGED hookVars

Hold ==
  /\ Goto("hold", "holding")
  /\ DoHold(lastHoldJiffies)
  /\ held' = held \cup Range(callInfo')
  /\ UNCHANGED <<buttonVars, heldFor>>

\* Slip: a hold that came with the release is left for later.
TakeReleaseOnly ==
  Goto("ifReleased", "release") /\ "RELEASED" \in events /\ TakeEvents({"RELEASED"})
TakeRelease ==
  Goto("ifReleased", "release") /\ "RELEASED" \in events /\ TakeEvents({"RELEASED", "HOLD"})
NoRelease ==
  /\ Goto("ifReleased", "wait") /\ "RELEASED" \notin events
  /\ ButtonUnchanged /\ UNCHANGED hookVars

\* Slip: the time is that at which the thread gets there.
ReleaseNow ==
  /\ Goto("release", "releasing")
  /\ DoRelease(jiffies)
  /\ ButtonUnchanged
Release ==
  /\ Goto("release", "releasing")
  /\ DoRelease(lastReleaseJiffies)
  /\ ButtonUnchanged

\* Slip: the interrupt stays off.
LeaveIrqOff == Goto("enable", "idle") /\ ButtonUnchanged /\ UNCHANGED hookVars
EnableIrq ==
  /\ Goto("enable", "idle")
  /\ irq' = TRUE
  /\ UNCHANGED <<hookVars, jiffies, down, dwell, mapped, active, timer, events, lastPressJiffies,
                 lastHoldJiffies, lastReleaseJiffies, history>>

btnThread ==
  \/ TakePress \/ Press \/ CallHooks \/ Wake
  \/ TakeHold \/ NoHold \/ Hold
  \/ TakeRelease \/ NoRelease \/ Release \/ EnableIrq
-----------------------------------------------------------------------------
(* registerBtns registers the hooks of the board's parameters and then       *)
(* connects the interrupt.  With HotPlug clients also register hooks later.  *)
(* None of them registers a hook that is registered.                         *)

MapInterrupt ==
  /\ ~mapped /\ mapped' = TRUE /\ irq' = TRUE
  /\ UNCHANGED <<hookVars, jiffies, down, dwell, active, timer, events, lastPressJiffies,
                 lastHoldJiffies, lastReleaseJiffies, pc, history>>

Register ==
  /\ HotPlug \/ ~mapped
  /\ \/ \E x \in PressHooks \ Registered(btnPressedInfo) : RegisterPress(x)
     \/ \E x \in HoldHooks \ Registered(btnHeldInfo) : RegisterHold(x)
     \/ \E x \in ReleaseHooks \ Registered(btnReleasedInfo) : RegisterRelease(x)
     \/ \E x \in PressHooks : DeregisterPress(x)
     \/ \E x \in HoldHooks : DeregisterHold(x)
     \/ \E x \in ReleaseHooks : DeregisterRelease(x)
  /\ held' = held \cap Registered(btnHeldInfo')
  /\ UNCHANGED <<buttonVars, pc, heldFor>>

Next ==
  \/ PushDown \/ LetGo \/ Tick
  \/ btnPressIsr \/ PollDown \/ PollUp
  \/ btnThread \/ Register \/ MapInterrupt

Spec == Init /\ [][Next]_vars

\* Time goes on, nobody holds the button for ever, and the kernel runs the
\* timer and the thread.
LiveSpec ==
  /\ Spec
  /\ WF_vars(LetGo) /\ WF_vars(Tick)
  /\ WF_vars(btnPoll) /\ WF_vars(btnThread)
-----------------------------------------------------------------------------
(* Properties *)

ButtonTypeOK ==
  /\ HooksTypeOK
  /\ jiffies \in Jiffies /\ down \in BOOLEAN /\ dwell \in Nat
  /\ mapped \in BOOLEAN /\ irq \in BOOLEAN /\ active \in BOOLEAN /\ timer \in {Off} \cup (-Late..Poll)
  /\ events \subseteq Events /\ pc \in PCs
  /\ {lastPressJiffies, lastHoldJiffies, lastReleaseJiffies} \subseteq Jiffies
  /\ heldFor \in Nat /\ held \subseteq HoldHooks

\* The comment in btnPoll, "we should not get here": the timer runs exactly
\* while a press is on.
PollOnlyActive == active <=> timer # Off

\* The thread does not sleep for ever with the interrupt off.  While it waits
\* for a press either one can come or one has been noted; while it waits for
\* the release either the timer will find it or it has been noted.
NeverDead ==
  /\ mapped /\ pc = "idle" => irq \/ "PRESSED" \in events
  /\ pc \in {"press", "pressing", "wait", "ifHold", "hold", "holding", "ifReleased"} =>
       timer # Off \/ "RELEASED" \in events

\* One press at a time: a new press is noted only when the thread is through
\* with the last, so the times and events it finds are of one press.
OnePress == "PRESSED" \in events => pc = "idle" /\ ~irq

\* The hold hooks that are called belong to this press and have not been called
\* in it: none of them is called for a button that was held for a shorter time
\* (timeInMs comes from two times that the interrupt and the timer leave behind).
HeldLongEnough ==
  [][pc = "hold" /\ pc' = "holding" =>
       \A x \in Range(callInfo') : x.timeout <= heldFor]_vars

\* pushbutton.h:54, the hold event "occurs after the button has been held for a
\* specific period of time": once in a press.  (Nothing is said of a btnHeldIdx
\* outside of its array.)
HeldOnce ==
  [][pc = "hold" /\ pc' = "holding" /\ btnHeldIdx >= 0 =>
       /\ Range(callInfo') \cap held = {}
       /\ Cardinality(Range(callInfo')) = Len(callInfo')]_vars

\* pushbutton.h:57, "A button release hook will only be called if the button was
\* held down more than the specified time".  As the timer finds the release, a
\* hook may be called too early, but by no more than the timer's period and delay.
ReleaseTimely ==
  [][pc = "release" /\ pc' = "releasing" =>
       \A x \in Range(callInfo') : x.timeout <= heldFor + Poll + Late]_vars

\* An interrupt that is off is on again later, whenever the button is pressed and
\* for however long.
Recovers == mapped /\ ~irq ~> irq
=============================================================================
