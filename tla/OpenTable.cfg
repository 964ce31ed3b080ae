\* Three names, three handles and two inode numbers, so that every number is reused;
\* two chunks per file, a budget of two dirty chunks.
CONSTANTS
  n1 = n1
  n2 = n2
  n3 = n3
  h1 = h1
  h2 = h2
  h3 = h3
  f1 = f1
  f2 = f2
  f3 = f3
  Name <- MCName
  Fh <- MCFh
  FileId <- MCFileId
  MaxIno = 3
  MaxChunks = 2
  Budget = 2
  NoFile = NoFile
SPECIFICATION Spec
SYMMETRY MCSymmetry
INVARIANTS HandleIdentity ChunkOwnership UnsavedBuffered SlotsExact NlinkCountsNames OrphansAccounted
PROPERTIES DeletedOnlyUnreachable
