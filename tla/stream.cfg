CONSTANTS
  Unset = Unset
  Streams = {s1}
  Generators = {g1, g2}
  NoFile = NoFile
  Rounded = Rounded
  NoColumns = NoColumns
  Columns <- MCColumns
  Samples <- MCSamples
  Frames <- MCFrames
  BatchSize = 1
  MaxRows = 2
  MaxChanges = 1
  MaxCalls = 1
  StreamFaults = {"oracle", "disk", "crash", "interrupt"}
  MaxFaults = 1
SPECIFICATION FairStreamSpec
INVARIANTS PartsGone NumbersArrive StreamsDeliver
PROPERTIES ImplementsAtomicFile StreamsEnd
CHECK_DEADLOCK FALSE
