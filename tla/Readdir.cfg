CONSTANTS
  Name = {a, b, c}
  MaxIno = 4
  MaxId = 3
SPECIFICATION ReaddirSpec
SYMMETRY NameSymmetry
INVARIANTS TypeOK OneTree LinkCountsExact EntriesSound EveryStayerOnce
PROPERTY OneEntryAtATime
