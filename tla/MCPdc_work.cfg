\* Two channels that share the interrupt and the work thread, with a fair engine and thread.
SPECIFICATION FairSpec
CONSTANTS
  NumChan = 2
  RingEntries = 3
  RxBudget = 2
  MaxQueued = 1
  NoMsg = NoMsg
  m1 = m1  m2 = m2  m3 = m3  m4 = m4
  Msg = {m1, m2}
  Cost <- UnitCost
INVARIANTS OneAcknowledger
PROPERTIES EveryRequestAnswered
