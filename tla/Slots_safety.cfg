\* Three calls for two slots and one blocking thread.
CONSTANTS
  Calls = {c1, c2, c3}
  Slots = 2
  Threads = 1
  DefaultCap = 2
  Ceiling = 3
  Requests = {0, 1, 4}
SPECIFICATION FairSpec
INVARIANTS TypeOK SlotsBalance CountersBalance
PROPERTIES RefusedOnlyWhenFull StartedEnds
