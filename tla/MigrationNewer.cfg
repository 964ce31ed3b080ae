\* A newer database, with or without the tables of this version.
CONSTANTS
  MaxChunks = 2
  MaxIno = 3
  MaxFaults = 2
  NsPerSec = 4
  MaxNs = 14
  Horizon = 4
SPECIFICATION Spec
INVARIANTS NewerUntouched
