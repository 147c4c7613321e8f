\* An operator who lowers the ceiling and leaves the default as it is.
CONSTANTS
  Calls = {c1, c2}
  Slots = 2
  Threads = 2
  DefaultCap = 2
  Ceiling = 1
  Requests = {0, 1, 4}
SPECIFICATION Spec
INVARIANTS CapUnderCeiling
