\* Two files and two signals: one to start the shutdown, one during it.
CONSTANTS
  x = x
  y = y
  File <- MCFile
  MaxSignals = 2
SPECIFICATION Spec
INVARIANTS ShutdownHeeded ExitZeroMeansDurable ExitOneHasCause
PROPERTIES SignalEndsProcess
