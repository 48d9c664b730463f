\* A button whose hooks are registered, in any order, before it is used; fair
\* behaviours, the thread is as late as it likes.
SPECIFICATION LiveSpec
CONSTANTS
  PressHooks <- NoHookAtAll
  HoldHooks <- TwoHoldTimes
  ReleaseHooks <- TwoReleases
  NoHook = "null"
  Off = Off
  MaxHooks = 2
  Wrap = 4
  Poll = 1
  Late = 0
  MinUp = 2
  MaxHold = 2
  HotPlug = FALSE
INVARIANTS ListsOrdered ButtonTypeOK NeverDead
PROPERTIES HeldLongEnough HeldOnce ReleaseTimely Recovers
