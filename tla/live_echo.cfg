\* Two transmitters, two sessions of each, and a reader; readers do not act on each other.
CONSTANTS
  Transmitters = {a1, a2}
  Readers = {r1}
  LIVE_DELAY = 2
  Capacities = {3, 4}
  Blocks = {1, 2}
  MaxTasks = 2
  MaxHead = 5
  MaxEpoch = 2
SPECIFICATION LiveSpec
INVARIANTS LiveTypeOK HeardWhole
PROPERTIES TailHeard
