CONSTANTS
  Hashes = {h}
  Ciphers = {}
  NoReq = NoReq
  Chan = {1}
  ChanOf <- OneChan
  Lists <- Scattered
  BlockSize = 2
  IvLen = 2
  CarryMax = 4
  MaxPayload = 6
  MaxTotal = 10
SPECIFICATION Spec
INVARIANT AllInOrder
