CONSTANTS
  Name <- Names
  Nameless <- NoName
  MaxPackets = 3
  Query <- PlainQueries
  LostWrites = FALSE
  IntMax = 5
  MaxId = 5

SPECIFICATION Spec
INVARIANT TypeOK
INVARIANT IndexPointsToOwnRow
INVARIANT NoRowOutsideIndex
INVARIANT RestartPossible
PROPERTY ImplementsPacketStore
