CONSTANTS
  Byte = {a, b}
  Attempts = 2
  Absent = Absent
  MaxClock = 2
  MaxWrites = 3
SPECIFICATION Spec
CHECK_DEADLOCK FALSE
INVARIANTS EntryWasReal PayloadWasReal
