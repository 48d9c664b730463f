\* Three channels: a round of the polling loop can step over the budget.
SPECIFICATION Spec
CONSTANTS
  NumChan = 3
  RingEntries = 3
  RxBudget = 2
  MaxQueued = 1
  NoMsg = NoMsg
  m1 = m1  m2 = m2  m3 = m3  m4 = m4
  Msg = {m1, m2, m3, m4}
  Cost <- UnitCost
SYMMETRY Sym
INVARIANT NoLostWork
