CONSTANTS
  Key <- Keys
  Bound <- Bounds
  NameOf <- Names
  KeyOf <- Signers
  MaxLevels = 0
  MaxPackets = 4
  Interest <- Interests

SPECIFICATION IndexSpec

PROPERTY EverySearchReturns
