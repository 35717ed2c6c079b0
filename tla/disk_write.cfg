CONSTANTS
  Words = 8
  nCR = 2
  nAC = 2
  nBZ = 1
  Image <- SmallImage
  BLOCK = 8
  TRACKSIZE = 2
  MAXTRK = 0
  RETCNT = 1
  Jobs <- SmallJobs
  SECTOR = 8
  CardFails = FALSE
  LineBuffer = 2
SPECIFICATION Spec
INVARIANTS WholeBlockSent
