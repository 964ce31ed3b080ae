\* Three sizes, three clock readings, two handles.
CONSTANTS
  MaxSize = 3
  MaxTime = 2
  MaxRefs = 2
  None = None
SPECIFICATION Spec
INVARIANTS SetattrReplyCurrent OverlayShowsTold
PROPERTIES GetattrReplyCurrent
