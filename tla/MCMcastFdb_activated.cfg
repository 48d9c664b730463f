\* A join runs out of memory after it activated its first flow.
SPECIFICATION Spec
CONSTANTS
  Stream <- OneStream
  Port <- OneRoot
  Rep <- OneRep
  Bonded = {}
  Tag = {0, 1}
  MaxRules = 2
  Capacity = 6
  Plenty = Plenty
  Mem = {0, 1, 2, 3, 4, 5, 6, 7, 8}
  Accept <- Always
  Overlap = FALSE
PROPERTIES ActivatedMeansFlow
