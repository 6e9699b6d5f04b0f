CONSTANTS
  a = a
  p1 = p1
  p2 = p2
  Proc = {p1, p2}
  Command <- Ranges
  Word = 8
  Credit = 2
  RetryTime = 1
  Environment <- OneFinalOnly

SPECIFICATION Spec
INVARIANT InsertNumIsStored
INVARIANT DoneMeansStored
SYMMETRY Perms
\* an exception that reaches main ends the program
CHECK_DEADLOCK FALSE
