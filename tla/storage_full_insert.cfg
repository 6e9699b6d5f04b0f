CONSTANTS
  Name <- Names
  Nameless <- NoName
  MaxPackets = 2
  Query <- PlainQueries
  LostWrites = FALSE
  IntMax = 4
  MaxId = 4

SPECIFICATION Spec
PROPERTY FailedInsertStoresNothing
