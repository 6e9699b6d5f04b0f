CONSTANTS
  Name <- MCName
  Nameless <- None
  MaxPackets = 2
  Query <- MCRead
  LostWrites = FALSE
  MaxId = 2
  IntMax = 2
  DeleteCommand <- MCDelete
  SegmentsOf <- MCSegments
  Word = 3
  Conn = {1}
  Max = 2
  Sent <- MCSent
  Element <- MCElement
  ReadInterest <- MCRead

SPECIFICATION FairRepo
INVARIANT BufferIsTheRest
INVARIANT RoomToReceive
INVARIANT AcceptedIsOnDisk
PROPERTY StreamIsHandled
PROPERTY ReportedIsGone
PROPERTY RangeIsAnswered
