CONSTANTS
  Label = {"dbfs", "data"}
  MaxTokens = 2
  MaxDigits = 3
  Kilo = 4
  ChunkSize = 5
  MaxUsize = 127
  DefaultBuffer = 20
SPECIFICATION Spec
CHECK_DEADLOCK FALSE
INVARIANTS OptionsAsAsked BudgetAsAsked
