------------------------------ MODULE ChunkSpan ------------------------------
(***************************************************************************)
(* Chunk arithmetic of src/db.rs: a file is cut into chunks of ChunkSize   *)
(* bytes, at most MaxChunks of them, and a byte range offset..offset+len   *)
(* touches one piece of each chunk it covers.  The code calls ChunkSpan    *)
(* "the one place that does chunk boundary arithmetic for reads, writes    *)
(* and the dirty overlay"; this module is the one place that models it.    *)
(* Offsets, chunk indexes and positions inside a chunk count from 0.       *)
(***************************************************************************)
EXTENDS Integers

CONSTANTS ChunkSize,   \* bytes per chunk (65 536 in the code)
          MaxChunks    \* chunks per file (2^24 in the code)

ASSUME ChunkAssumption ==
  /\ ChunkSize \in Nat \ {0}
  /\ MaxChunks \in Nat \ {0}

MaxFileSize == MaxChunks * ChunkSize

\* The chunk indexes of a file, and the byte positions within a chunk.
Chunk  == 0 .. (MaxChunks - 1)
Within == 0 .. (ChunkSize - 1)

Larger(m, n)  == IF m >= n THEN m ELSE n
Smaller(m, n) == IF m <= n THEN m ELSE n

ChunkStart(c) == c * ChunkSize

\* First and last chunk of the span of len > 0 bytes at offset.
SpanFirst(offset)     == offset \div ChunkSize
SpanLast(offset, len) == (offset + len - 1) \div ChunkSize

\* The piece of chunk c inside the span: positions PieceStart .. PieceEnd - 1
\* of the chunk, which come from BufStart onwards in the caller's buffer.
PieceStart(offset, c)    == Larger(offset, ChunkStart(c)) - ChunkStart(c)
PieceEnd(offset, len, c) ==
  Smaller(offset + len, ChunkStart(c) + ChunkSize) - ChunkStart(c)
BufStart(offset, c)      == Larger(offset, ChunkStart(c)) - offset

IsFullChunk(offset, len, c) ==
  PieceStart(offset, c) = 0 /\ PieceEnd(offset, len, c) = ChunkSize
==============================================================================
