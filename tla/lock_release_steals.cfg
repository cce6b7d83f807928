SPECIFICATION Spec
CONSTANTS
  r1 = r1
  r2 = r2
  w1 = w1
  w2 = w2
  Readers = {r1}
  Writers = {w1, w2}
  WriterDir = WriterDir
  NoOne = NoOne
  StaleAge = 1
  GivenAge = NoOne
  PollAge = 1
  CapAge = 5
  StepAge = 1
  Ahead = {}
  Skew = 0
  Retries = 1
  Faults = {}
  MaxFaults = 0
INVARIANTS
  WriterExcludesOthers
