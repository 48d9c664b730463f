\* Two VLAN devices on one switch port, one stream with up to two VLAN rules,
\* two reporters from one Wi-Fi station.
SPECIFICATION Spec
CONSTANTS
  Stream <- OneStream
  Port <- OneRoot
  Rep <- TwoReps
  Bonded = {}
  Tag = {0, 1}
  MaxRules = 2
  Capacity = 6
  Plenty = Plenty
  Mem = {Plenty}
  Accept <- InOrder
  Overlap = FALSE
INVARIANTS TypeOK OneTagPerRoot CopiesFollowRoot
