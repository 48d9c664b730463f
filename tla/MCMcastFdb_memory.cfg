\* Two VLAN devices and a bonded one; allocations fail and the flow cache
\* fills up.
SPECIFICATION Spec
CONSTANTS
  Stream <- OneStream
  Port <- WithBond
  Rep <- OneRep
  Bonded = {"bond0"}
  Tag = {0, 1}
  MaxRules = 2
  Capacity = 2
  Plenty = Plenty
  Mem = {2, 4, 5, 7, 8}
  Accept <- AllButOne
  Overlap = FALSE
CHECK_DEADLOCK FALSE
INVARIANTS FlowsAccounted JoinKeepsOthers
