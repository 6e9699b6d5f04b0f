CONSTANTS
  a = a
  c1 = c1
  Watched = {a}
  Packet <- TwoPackets
  Command <- Commands
  Chain = {c1}
  MaxStarts = 2
  StorageFails = FALSE
  Wanted <- Wants
  Word = 16

SPECIFICATION FairWatch
INVARIANT ReplyIsTheState
INVARIANT OptionsReachTheRepo
INVARIANT StoredIsExcluded
PROPERTY LimitedWatchEnds
\* the tool may be done and the repo have nothing to do
CHECK_DEADLOCK FALSE
