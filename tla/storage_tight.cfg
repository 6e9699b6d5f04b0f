CONSTANTS
  Name <- Names
  Nameless <- NoName
  MaxPackets = 2
  Query <- AllQueries
  LostWrites = TRUE
  IntMax = 3
  MaxId = 3

SPECIFICATION Spec
PROPERTY StartRepairsIndex
PROPERTY DeleteCountsBoth
