\* getattr against the shutdown flush.
CONSTANTS
  MaxSize = 3
  MaxTime = 2
  MaxRefs = 2
  None = None
SPECIFICATION Spec
INVARIANTS GetattrAlwaysCurrent
