CONSTANTS
  Key <- Keys
  Bound <- Bounds
  NameOf <- Names
  KeyOf <- Signers
  MaxLevels = 2
  MaxPackets = 4
  Interest <- Interests

SPECIFICATION IndexSpec
INVARIANT LevelsWellFormed
INVARIANT SelectionIsRight
PROPERTY ImplementsSortedSet
PROPERTY SearchReturns
