\* A user and a kernel thread on boards of each layout, with a fault at any time.
SPECIFICATION Spec
CONSTANTS
  SpMaxLen = 4
  TagLen = 1
  Word = 2097152
  Boards <- AllBoards
  Users = {u1}
  Kernel = {k}
  Tokens = {"a", "b"}
  SpRoom = 2
  Val = {v1, v2}
  None = None
  Torn = Torn
  MaxFaults = 1
SYMMETRY Symmetry
INVARIANTS  FlashStoreTypeOK OneCopyLeft NvramMatchesMemory NvramGood
PROPERTIES OthersKept
