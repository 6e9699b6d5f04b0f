CONSTANTS
  a = a
  p1 = p1
  Proc = {p1}
  Command <- EveryCommand
  Word = 6
  Credit = 2
  RetryTime = 1
  Environment <- Everything

SPECIFICATION FairSpec
INVARIANT TypeOK
INVARIANT CreditBound
INVARIANT WaitingSegmentIsFresh
INVARIANT OutstandingIsTracked
INVARIANT FinishedIsDoomed
INVARIANT NoProcessStuck
PROPERTY SuccessIsFinal
PROPERTY NoResurrection
PROPERTY VerifiedProcessTerminates
PROPERTY CommandCompletes
\* an exception that reaches main ends the program
CHECK_DEADLOCK FALSE
