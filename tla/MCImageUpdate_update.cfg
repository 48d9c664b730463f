CONSTANTS
  Sizes = {1, 2, 3}
  AvailableTwo = 1
  FirstHalf = 2
  AvailableOne = 3
  MaxSeq = 6
  MaxFaults = 2
SPECIFICATION Spec
INVARIANTS ImageTypeOK SeqDistinct BootableAlways RequestHonoured
PROPERTIES BootedRight
