SPECIFICATION LiveSpec
CONSTANTS
  r1 = r1
  r2 = r2
  w1 = w1
  w2 = w2
  Readers = {r1, r2, w1}
  Writers = {w1}
  WriterDir = WriterDir
  NoOne = NoOne
  StaleAge = 2
  GivenAge = NoOne
  PollAge = 1
  CapAge = 5
  StepAge = 1
  Ahead = {r1}
  Skew = 1
  Retries = 1
  Faults = {"crash"}
  MaxFaults = 2
INVARIANTS
  WriterExcludesOthers
  ReadersKeepTokens
PROPERTIES
  WriterGetsIn
  ReaderGetsIn
  BreaksSpareTheLiving
  ImplementsRWLock
