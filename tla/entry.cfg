SPECIFICATION EntryLiveSpec
CONSTANTS
  a = a
  b = b
  s = s
  Readers = {a, s}
  Writers = {a, s}
  Streamers = {s}
  NoOne = NoOne
  Absent = Absent
  Damaged = Damaged
  MaxSource = 2
  Revert = FALSE
  MaxCalls = 2
  EntryFaults = {"crash", "interrupt", "source", "disk", "parquet", "json", "bytes", "lock"}
  MaxFaults = 1
INVARIANTS
  EntryTypeOK
  EntryHonest
  ReturnedIsFresh
  NoLitter
  CallsKeepToTheLock
  SomeCallGoesOn
PROPERTIES
  ValidEntriesAreKept
  CallsSeeTheSource
  CallsEnd
CHECK_DEADLOCK FALSE
