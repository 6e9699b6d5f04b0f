CONSTANTS
  a = a
  p1 = p1
  File = a
  NoProcess = NoProcess
  Proc = {p1}
  Command <- Commands
  Word = 6
  Credit = 2
  RetryTime = 2
  PreSign = 2
  MaxRetry = 1
  Environment <- Plain
  Scene <- OneScene
  Reading <- OneSingle

SPECIFICATION GetFileSpec
INVARIANT SingleUploadIsStored
\* both tools end, and then the repo has nothing to do
CHECK_DEADLOCK FALSE
