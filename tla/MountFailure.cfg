\* The doc comment of mount_dbfs, refuted.
CONSTANTS
  x = x
  y = y
  File <- MCFile
  MaxSignals = 2
SPECIFICATION Spec
INVARIANTS FlushFailureIsError
