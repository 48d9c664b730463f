CONSTANTS
  Hashes = {h}
  Ciphers = {b}
  NoReq = NoReq
  Chan = {1}
  ChanOf <- OneChan
  Lists <- MCLists
  BlockSize = 2
  IvLen = 2
  CarryMax = 4
  MaxPayload = 6
  MaxTotal = 15
SPECIFICATION LiveSpec
INVARIANTS SpuTypeOK LockStep TypesRight NothingLost InOrder
PROPERTIES EachCompletes
