\* One file, three chunks of two bytes, room for two dirty chunks.
CONSTANTS
  x = x
  ChunkSize = 2
  MaxChunks = 3
  Ino <- MCIno
  MaxSlots = 2
  Byte <- MCBytes
  Zero = 0
  Payloads <- MCPayloads
  NoWrite = NoWrite
SPECIFICATION Spec
INVARIANTS TypeOK ArenaConserved CleanSizeStored SizesCover EvictionFindsVictim PlacedBytesReadBack ReadsReturnContent
PROPERTIES ImplementsFileContents WriteMovesOn WriteReturns
