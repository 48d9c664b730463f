\* One channel, requests of four sizes: the rings fill, wrap and back up.
SPECIFICATION Spec
CONSTANTS
  NumChan = 1
  RingEntries = 3
  RxBudget = 1
  MaxQueued = 1
  NoMsg = NoMsg
  m1 = m1  m2 = m2  m3 = m3  m4 = m4
  Msg = {m1, m2, m3, m4}
  Cost <- MCCost
INVARIANTS TypeOK RingLayout SlotsIntact EngineBetween NoStrandedQueue NoLostWork
PROPERTIES ServiceSpec
