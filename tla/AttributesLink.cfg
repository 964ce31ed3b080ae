\* link on a file with buffered writes.
CONSTANTS
  MaxSize = 3
  MaxTime = 2
  MaxRefs = 2
  None = None
SPECIFICATION Spec
INVARIANTS LinkReplyCurrent
