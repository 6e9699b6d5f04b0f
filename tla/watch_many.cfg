CONSTANTS
  a = a
  b = b
  c1 = c1
  c2 = c2
  Watched = {a, b}
  Packet <- TwoPackets
  Command <- TwoNames
  Chain = {c1, c2}
  MaxStarts = 2
  Word = 16
  StorageFails = TRUE

SPECIFICATION Spec
INVARIANT RunningIsFetching
INVARIANT AloneWithinMaxInterestNum
PROPERTY StoppedIsQuiet
SYMMETRY Perms
\* an exception that reaches main ends the program
CHECK_DEADLOCK FALSE
