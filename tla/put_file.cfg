CONSTANTS
  a = a
  p1 = p1
  File = a
  NoProcess = NoProcess
  Proc = {p1}
  Command <- Commands
  Word = 6
  Credit = 2
  RetryTime = 2
  PreSign = 2
  MaxRetry = 1
  Environment <- Environments
  Scene <- Scenes
  Reading <- Sessions

SPECIFICATION FairGetFile
INVARIANT UploadIsStored
INVARIANT OutputIsTheFile
PROPERTY UploadCompletes
PROPERTY StoredFileIsRead
\* both tools end, and then the repo has nothing to do
CHECK_DEADLOCK FALSE
