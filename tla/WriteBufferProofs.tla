-------------------------- MODULE WriteBufferProofs --------------------------
(***************************************************************************)
(* Proofs about WriteBuffer, for any chunk size, arena budget, number of   *)
(* files and payloads.                                                     *)
(***************************************************************************)
EXTENDS WriteBuffer, FiniteSetTheorems, WellFoundedInduction, TLAPS

------------------------------------------------------------------------------
(* Chunk arithmetic *)

\* Euclidean division, as ChunkSpan uses it.
LEMMA DivFacts ==
  ASSUME NEW n \in Nat, NEW d \in Nat \ {0}
  PROVE  /\ n \div d \in Nat
         /\ n % d \in 0 .. (d - 1)
         /\ n = d * (n \div d) + (n % d)
  OBVIOUS

\* Multiplication is monotonic: the provers need the one nonlinear fact spelled
\* out.
LEMMA TimesMono ==
  ASSUME NEW a \in Nat, NEW b \in Nat, NEW d \in Nat, a <= b
  PROVE  a * d <= b * d
  OBVIOUS

\* A position below m chunks lies in a chunk below m.
LEMMA DivBelow ==
  ASSUME NEW n \in Nat, NEW d \in Nat \ {0}, NEW m \in Nat, n < m * d
  PROVE  n \div d < m
  <1>1. ASSUME n \div d >= m PROVE FALSE
    <2>1. m * d <= (n \div d) * d
        BY <1>1, DivFacts, TimesMono
    <2> QED
        BY <2>1, DivFacts
  <1> QED
      BY <1>1, DivFacts

\* The limits of a file are positive numbers.
LEMMA Limits ==
  /\ ChunkSize \in Nat \ {0}
  /\ MaxChunks \in Nat \ {0}
  /\ MaxFileSize \in Nat
  BY ChunkAssumption DEF MaxFileSize

\* The span a write covers: it begins and ends inside the file, and its last
\* chunk is not before its first.
LEMMA SpanBounds ==
  ASSUME NEW off \in 0 .. (MaxFileSize - 1), NEW len \in Nat \ {0},
         off + len <= MaxFileSize
  PROVE  /\ SpanFirst(off) \in Chunk
         /\ SpanLast(off, len) \in Chunk
         /\ SpanFirst(off) <= SpanLast(off, len)
         /\ ChunkStart(SpanFirst(off)) <= off
         /\ off < ChunkStart(SpanFirst(off)) + ChunkSize
         /\ ChunkStart(SpanLast(off, len)) < off + len
         /\ off + len <= ChunkStart(SpanLast(off, len)) + ChunkSize
  <1> DEFINE a == off \div ChunkSize
             b == (off + len - 1) \div ChunkSize
  <1>1. off \in Nat /\ off + len - 1 \in Nat /\ off + len - 1 < MaxFileSize
      BY Limits
  <1>2. a \in Nat /\ a < MaxChunks /\ b \in Nat /\ b < MaxChunks
      BY <1>1, Limits, DivFacts, DivBelow DEF MaxFileSize
  <1>3. /\ a * ChunkSize <= off /\ off < a * ChunkSize + ChunkSize
        /\ b * ChunkSize <= off + len - 1
        /\ off + len - 1 < b * ChunkSize + ChunkSize
      BY <1>1, <1>2, Limits, DivFacts
  <1>4. ASSUME b < a PROVE FALSE
    <2>1. (b + 1) * ChunkSize <= a * ChunkSize
        BY <1>2, <1>4, Limits, TimesMono
    <2> QED
        BY <1>1, <1>2, <1>3, <2>1, Limits
  <1> QED
      BY <1>1, <1>2, <1>3, <1>4, Limits DEF SpanFirst, SpanLast, ChunkStart, Chunk

\* The piece of chunk c in a span that reaches it: a non-empty range of the
\* chunk, whose bytes lie inside the caller's buffer.
LEMMA PieceBounds ==
  ASSUME NEW off \in 0 .. (MaxFileSize - 1), NEW len \in Nat \ {0},
         off + len <= MaxFileSize,
         NEW c \in Nat, SpanFirst(off) <= c, c <= SpanLast(off, len)
  PROVE  /\ c \in Chunk
         /\ ChunkStart(c) \in Nat
         /\ PieceStart(off, c) \in Within
         /\ PieceEnd(off, len, c) \in 1 .. ChunkSize
         /\ PieceStart(off, c) < PieceEnd(off, len, c)
         /\ ChunkStart(c) + PieceEnd(off, len, c) \in 1 .. (off + len)
         /\ \A k \in Within :
              PieceStart(off, c) <= k /\ k < PieceEnd(off, len, c)
                => BufStart(off, c) + (k - PieceStart(off, c)) + 1 \in 1 .. len
  <1> DEFINE s == ChunkStart(c)
  <1>1. c \in Chunk
      BY SpanBounds, Limits DEF Chunk
  <1>2. /\ SpanFirst(off) \in Nat /\ SpanLast(off, len) \in Nat
        /\ s \in Nat /\ ChunkStart(SpanFirst(off)) \in Nat
        /\ ChunkStart(SpanLast(off, len)) \in Nat
      BY SpanBounds, Limits DEF ChunkStart, Chunk
  <1>3. s < off + len
    <2>1. c * ChunkSize <= SpanLast(off, len) * ChunkSize
        BY <1>2, Limits, TimesMono
    <2> QED
        BY <2>1, <1>2, SpanBounds, Limits DEF ChunkStart
  <1>4. off < s + ChunkSize
    <2>1. SpanFirst(off) * ChunkSize <= c * ChunkSize
        BY <1>2, Limits, TimesMono
    <2> QED
        BY <2>1, <1>2, SpanBounds, Limits DEF ChunkStart

  <1> QED
      BY <1>1, <1>2, <1>3, <1>4, Limits
         DEF PieceStart, PieceEnd, BufStart, Larger, Smaller, Within

------------------------------------------------------------------------------
(* The inductive invariant *)

\* The write that holds the lock fits in the file, and its next chunk is in its
\* span or just past it.
WriteFits ==
  writing # NoWrite =>
    /\ writing.off + Len(writing.data) <= MaxFileSize
    /\ SpanFirst(writing.off) <= writing.chunk
    /\ writing.chunk <= SpanLast(writing.off, Len(writing.data)) + 1

\* TypeOK without the write.
StateType ==
  /\ stored  \in [Ino -> [Chunk -> Row]]
  /\ dbsize  \in [Ino -> 0 .. MaxFileSize]
  /\ size    \in [Ino -> 0 .. MaxFileSize]
  /\ dirty   \in [Ino -> [Chunk -> ArenaSlot \cup {NoSlot}]]
  /\ abytes  \in [ArenaSlot -> [Within -> Byte]]
  /\ alen    \in [ArenaSlot -> 0 .. ChunkSize]
  /\ free    \in SUBSET ArenaSlot
  /\ grown   \in 0 .. MaxSlots

\* ArenaConserved without the set Used: no dirty slot is free, no two dirty
\* chunks share one, and the reserved slots are those and no others.
Conserved ==
  /\ \A i \in Ino, c \in Chunk :
       IsDirty(i, c) => dirty[i][c] \notin free /\ dirty[i][c] < grown
  /\ \A a \in free : a < grown
  /\ \A a \in ArenaSlot :
       a < grown => a \in free \/ \E i \in Ino, c \in Chunk : dirty[i][c] = a
  /\ \A i, j \in Ino, c, d \in Chunk :
       IsDirty(i, c) /\ dirty[i][c] = dirty[j][d] => i = j /\ c = d

\* What holds of buffers and rows at every point of an operation.
StateInv == StateType /\ Conserved /\ SizesCover /\ CleanSizeStored

BufferInv == StateInv /\ writing \in Job \cup {NoWrite} /\ WriteFits

------------------------------------------------------------------------------
(* Types of the helpers *)

\* RowOf builds a chunk row.
LEMMA RowOfType ==
  ASSUME NEW len \in 0 .. ChunkSize, NEW bytes \in [Within -> Byte]
  PROVE  RowOf(len, bytes) \in Row /\ RowOf(len, bytes).len = len
  BY BufferAssumption DEF RowOf, Row

\* The row of a hole.
LEMMA NoRowType == NoRow \in Row /\ NoRow.len = 0
  <1>1. [k \in Within |-> Zero] \in [Within -> Byte]
      BY BufferAssumption
  <1> QED
      BY <1>1, RowOfType, Limits DEF NoRow

\* The rows a flush stores: the length of a dirty chunk's row is its length in
\* the arena (replace_chunks).
LEMMA FlushedRowsType ==
  ASSUME StateType, NEW i \in Ino
  PROVE  /\ FlushedRows(i) \in [Chunk -> Row]
         /\ \A c \in Chunk :
              FlushedRows(i)[c].len = IF IsDirty(i, c) THEN alen[dirty[i][c]]
                                                       ELSE stored[i][c].len
  <1>1. ASSUME NEW c \in Chunk
        PROVE  /\ FlushedRows(i)[c] \in Row
               /\ FlushedRows(i)[c].len = IF IsDirty(i, c) THEN alen[dirty[i][c]]
                                                           ELSE stored[i][c].len
    <2>1. CASE IsDirty(i, c)
      <3>1. dirty[i][c] \in ArenaSlot
          BY <2>1 DEF IsDirty, StateType
      <3>2. alen[dirty[i][c]] \in 0 .. ChunkSize /\ abytes[dirty[i][c]] \in [Within -> Byte]
          BY <3>1 DEF StateType
      <3> QED
          BY <2>1, <3>2, RowOfType DEF FlushedRows
    <2>2. CASE ~IsDirty(i, c)
        BY <2>2 DEF FlushedRows, StateType
    <2> QED
        BY <2>1, <2>2
  <1> QED
      BY <1>1 DEF FlushedRows

\* The rows that truncate_file leaves: rows of the file, none of them past n.
LEMMA CutRowsType ==
  ASSUME NEW rows \in [Chunk -> Row], NEW n \in 0 .. MaxFileSize
  PROVE  /\ CutRows(rows, n) \in [Chunk -> Row]
         /\ \A c \in Chunk :
              CutRows(rows, n)[c].len > 0 => ChunkStart(c) + CutRows(rows, n)[c].len <= n
  <1> DEFINE last    == (n - 1) \div ChunkSize
             lastLen == ((n - 1) % ChunkSize) + 1
             cut     == CutRows(rows, n)
  <1>1. CASE n = 0
    <2>1. \A c \in Chunk : cut[c] = NoRow
        BY <1>1 DEF CutRows
    <2> QED
        BY <2>1, NoRowType DEF CutRows
  <1>2. CASE n > 0
    <2>1. n - 1 \in Nat
        BY <1>2, Limits
    <2>2. last \in Nat /\ lastLen \in 1 .. ChunkSize /\ n = ChunkSize * last + lastLen
        BY <2>1, Limits, DivFacts
    <2>3. ASSUME NEW c \in Chunk
          PROVE  cut[c] \in Row /\ (cut[c].len > 0 => ChunkStart(c) + cut[c].len <= n)
      <3>0. c \in Nat /\ rows[c] \in Row /\ rows[c].len \in 0 .. ChunkSize
            /\ rows[c].data \in [Within -> Byte]
          BY DEF Chunk, Row
      <3>1. CASE c > last
        <4>1. cut[c] = NoRow
            BY <3>1, <3>0, <2>2, <1>2, Limits DEF CutRows
        <4> QED
            BY <4>1, NoRowType
      <3>2. CASE c = last /\ rows[c].len > lastLen
        <4>1. cut[c] = RowOf(lastLen, rows[c].data)
            BY <3>2, <3>0, <2>2, <1>2, Limits DEF CutRows
        <4>2. cut[c] \in Row /\ cut[c].len = lastLen
            BY <4>1, <3>0, <2>2, RowOfType, Limits
        <4> QED
            BY <4>2, <3>2, <2>2, Limits DEF ChunkStart
      <3>3. CASE c <= last /\ ~(c = last /\ rows[c].len > lastLen)
        <4>1. cut[c] = rows[c]
            BY <3>3, <3>0, <2>2, <1>2, Limits DEF CutRows
        <4>2. CASE c = last
            BY <4>1, <4>2, <3>3, <3>0, <2>2, Limits DEF ChunkStart
        <4>3. CASE c < last
          <5>1. (c + 1) * ChunkSize <= last * ChunkSize
              BY <4>3, <3>0, <2>2, Limits, TimesMono
          <5> QED
              BY <5>1, <4>1, <3>0, <2>2, Limits DEF ChunkStart
        <4> QED
            BY <4>2, <4>3, <3>3, <3>0, <2>2
      <3> QED
          BY <3>0, <3>1, <3>2, <3>3, <2>2
    <2> QED
        BY <2>3 DEF CutRows
  <1> QED
      BY <1>1, <1>2, Limits

------------------------------------------------------------------------------
(* Each piece of an operation keeps StateInv *)

\* StateType, with the typing of single slots and chunks the steps below need.
LEMMA SlotTypes ==
  ASSUME StateType
  PROVE  /\ \A i \in Ino, c \in Chunk :
              /\ dirty[i][c] \in ArenaSlot \cup {NoSlot}
              /\ IsDirty(i, c) => dirty[i][c] \in ArenaSlot
              /\ stored[i][c] \in Row
              /\ stored[i][c].len \in 0 .. ChunkSize
         /\ \A i \in Ino : size[i] \in Nat /\ dbsize[i] \in Nat
         /\ \A a \in ArenaSlot : alen[a] \in 0 .. ChunkSize /\ abytes[a] \in [Within -> Byte]
         /\ grown \in Nat
         /\ NoSlot \notin ArenaSlot
         /\ \A c \in Chunk : c \in Nat /\ ChunkStart(c) \in Nat
  BY Limits, BufferAssumption
     DEF StateType, IsDirty, Row, ArenaSlot, NoSlot, Chunk, ChunkStart

\* flush_slot keeps rows, sizes and the arena consistent.
LEMMA FlushKeeps ==
  ASSUME StateInv, NEW i \in Ino, FlushSlot(i)
  PROVE  StateInv'
  <1>0. StateType /\ Conserved /\ SizesCover /\ CleanSizeStored
      BY DEF StateInv
  <1>1. /\ \A j \in Ino, c \in Chunk :
             dirty'[j][c] = IF j = i THEN NoSlot ELSE dirty[j][c]
        /\ \A j \in Ino : stored'[j] = IF j = i THEN FlushedRows(i) ELSE stored[j]
        /\ \A j \in Ino : dbsize'[j] = IF j = i THEN size[i] ELSE dbsize[j]
        /\ size' = size /\ abytes' = abytes /\ alen' = alen /\ grown' = grown
      BY <1>0 DEF FlushSlot, StateType, NoDirty
  <1>2. \A a : a \in free' <=> a \in free \/ \E c \in Chunk : IsDirty(i, c) /\ a = dirty[i][c]
      BY DEF FlushSlot, DirtyChunks
  <1>3. StateType'
    <2>1. NoDirty \in [Chunk -> ArenaSlot \cup {NoSlot}]
        BY DEF NoDirty
    <2>2. free' \in SUBSET ArenaSlot
        BY <1>0, <1>2, SlotTypes DEF StateType
    <2> QED
        BY <1>0, <2>1, <2>2, FlushedRowsType DEF StateType, FlushSlot
  <1>4. Conserved'
      BY <1>0, <1>1, <1>2, SlotTypes DEF Conserved, IsDirty
  <1>5. SizesCover'
      BY <1>0, <1>1, FlushedRowsType, SlotTypes DEF SizesCover, IsDirty
  <1>6. CleanSizeStored'
      BY <1>0, <1>1 DEF CleanSizeStored, DirtyChunks, IsDirty
  <1> QED
      BY <1>3, <1>4, <1>5, <1>6 DEF StateInv

\* truncate_locked keeps rows, sizes and the arena consistent.
LEMMA TruncateKeeps ==
  ASSUME StateInv, NEW i \in Ino, NEW n \in 0 .. MaxFileSize, TruncateLocked(i, n)
  PROVE  StateInv'
  <1>0. StateType /\ Conserved /\ SizesCover /\ CleanSizeStored
      BY DEF StateInv
  <1> DEFINE rows == CutRows(FlushedRows(i), n)
  <1>1. /\ \A j \in Ino, c \in Chunk :
             dirty'[j][c] = IF j = i THEN NoSlot ELSE dirty[j][c]
        /\ \A j \in Ino : stored'[j] = IF j = i THEN rows ELSE stored[j]
        /\ \A j \in Ino : dbsize'[j] = IF j = i THEN n ELSE dbsize[j]
        /\ \A j \in Ino : size'[j] = IF j = i THEN n ELSE size[j]
        /\ abytes' = abytes /\ alen' = alen /\ grown' = grown
      BY <1>0 DEF TruncateLocked, StateType, NoDirty
  <1>2. \A a : a \in free' <=> a \in free \/ \E c \in Chunk : IsDirty(i, c) /\ a = dirty[i][c]
      BY DEF TruncateLocked, DirtyChunks
  <1>a. FlushedRows(i) \in [Chunk -> Row]
      BY <1>0, FlushedRowsType
  <1>b. /\ rows \in [Chunk -> Row]
        /\ \A c \in Chunk : rows[c].len > 0 => ChunkStart(c) + rows[c].len <= n
      BY <1>a, CutRowsType
  <1>3. StateType'
    <2>1. NoDirty \in [Chunk -> ArenaSlot \cup {NoSlot}]
        BY DEF NoDirty
    <2>2. free' \in SUBSET ArenaSlot
        BY <1>0, <1>2, SlotTypes DEF StateType
    <2> QED
        BY <1>0, <1>b, <2>1, <2>2 DEF StateType, TruncateLocked
  <1>4. Conserved'
      BY <1>0, <1>1, <1>2, SlotTypes DEF Conserved, IsDirty
  <1>5. SizesCover'
      BY <1>0, <1>1, <1>b, SlotTypes DEF SizesCover, IsDirty
  <1>6. CleanSizeStored'
      BY <1>0, <1>1 DEF CleanSizeStored, DirtyChunks, IsDirty
  <1> QED
      BY <1>3, <1>4, <1>5, <1>6 DEF StateInv

\* A write in its loop: the facts about its next piece.
LEMMA LoopPiece ==
  ASSUME BufferInv, InLoop
  PROVE  /\ writing \in Job
         /\ writing.ino \in Ino /\ writing.chunk \in Chunk
         /\ writing.data \in Seq(Byte) /\ Len(writing.data) \in Nat \ {0}
         /\ writing.off \in 0 .. (MaxFileSize - 1)
         /\ writing.off + Len(writing.data) <= MaxFileSize
         /\ SpanFirst(writing.off) <= writing.chunk
         /\ PieceEnd(writing.off, Len(writing.data), writing.chunk) \in 1 .. ChunkSize
         /\ AtEnd(writing) \in 1 .. MaxFileSize
         /\ \A k \in Within :
              /\ PieceStart(writing.off, writing.chunk) <= k
              /\ k < PieceEnd(writing.off, Len(writing.data), writing.chunk)
              => BufStart(writing.off, writing.chunk)
                   + (k - PieceStart(writing.off, writing.chunk)) + 1
                     \in 1 .. Len(writing.data)
  <1>1. writing \in Job /\ writing # NoWrite
      BY DEF InLoop, BufferInv
  <1>2. /\ writing.ino \in Ino /\ writing.chunk \in 0 .. MaxChunks
        /\ writing.data \in Payloads /\ writing.off \in 0 .. (MaxFileSize - 1)
      BY <1>1 DEF Job
  <1>3. writing.data \in Seq(Byte) /\ Len(writing.data) \in Nat \ {0}
      BY <1>2, BufferAssumption
  <1>4. /\ writing.off + Len(writing.data) <= MaxFileSize
        /\ SpanFirst(writing.off) <= writing.chunk
        /\ writing.chunk <= SpanLast(writing.off, Len(writing.data))
        /\ writing.chunk \in Nat
      BY <1>1, <1>2 DEF BufferInv, WriteFits, InLoop
  <1> DEFINE e == PieceEnd(writing.off, Len(writing.data), writing.chunk)
  <1>5. /\ writing.chunk \in Chunk
        /\ e \in 1 .. ChunkSize
        /\ ChunkStart(writing.chunk) + e \in 1 .. (writing.off + Len(writing.data))
        /\ \A k \in Within :
              PieceStart(writing.off, writing.chunk) <= k /\ k < e
              => BufStart(writing.off, writing.chunk)
                   + (k - PieceStart(writing.off, writing.chunk)) + 1
                     \in 1 .. Len(writing.data)
      BY <1>2, <1>3, <1>4, PieceBounds
  <1>6. AtEnd(writing) \in 1 .. MaxFileSize
      BY <1>2, <1>3, <1>4, <1>5, Limits DEF AtEnd
  <1> QED
      BY <1>1, <1>2, <1>3, <1>4, <1>5, <1>6

\* The tail of write_slot's loop body: what it stores is well-typed, and the
\* write stays inside its span.
LEMMA PutPieceType ==
  ASSUME BufferInv, InLoop, NEW a \in ArenaSlot,
         NEW bytes \in [Within -> Byte], NEW len \in 0 .. ChunkSize,
         PutPiece(writing, a, bytes, len)
  PROVE  /\ abytes' \in [ArenaSlot -> [Within -> Byte]]
         /\ alen' \in [ArenaSlot -> 0 .. ChunkSize]
         /\ size' \in [Ino -> 0 .. MaxFileSize]
         /\ writing' \in Job
         /\ WriteFits'
  <1>0. StateType
      BY DEF BufferInv, StateInv
  <1>1. Overlaid(bytes, len, writing) \in [Within -> Byte]
    <2>1. ASSUME NEW k \in Within,
                 PieceStart(writing.off, writing.chunk) <= k,
                 k < PieceEnd(writing.off, Len(writing.data), writing.chunk)
          PROVE  writing.data[BufStart(writing.off, writing.chunk)
                                + (k - PieceStart(writing.off, writing.chunk)) + 1] \in Byte
        BY <2>1, LoopPiece
    <2> QED
        BY <2>1, BufferAssumption DEF Overlaid
  <1>2. Larger(len, PieceEnd(writing.off, Len(writing.data), writing.chunk)) \in 0 .. ChunkSize
      BY LoopPiece, Limits DEF Larger
  <1>3. Larger(size[writing.ino], AtEnd(writing)) \in 0 .. MaxFileSize
      BY <1>0, LoopPiece, Limits DEF Larger, StateType
  <1>4. writing' = [writing EXCEPT !.chunk = writing.chunk + 1]
      BY DEF PutPiece
  <1>5. writing.chunk + 1 \in 0 .. MaxChunks
      BY LoopPiece, Limits DEF Chunk
  <1>6. writing' \in Job
      BY <1>4, <1>5, LoopPiece DEF Job
  <1>7. WriteFits'
    <2>1. /\ writing'.off = writing.off /\ writing'.data = writing.data
          /\ writing'.chunk = writing.chunk + 1
        BY <1>4, LoopPiece DEF Job
    <2>2. writing.chunk <= SpanLast(writing.off, Len(writing.data))
        BY DEF InLoop
    <2>3. SpanFirst(writing.off) \in Nat /\ SpanLast(writing.off, Len(writing.data)) \in Nat
        BY LoopPiece, SpanBounds DEF Chunk
    <2> QED
        BY <2>1, <2>2, <2>3, LoopPiece DEF WriteFits, Chunk
  <1> QED
      BY <1>0, <1>1, <1>2, <1>3, <1>6, <1>7 DEF PutPiece, StateType

\* The sizes after a piece is put: the slot's length covers the piece and what
\* was valid before, the file's size covers the piece.
LEMMA PutPieceSizes ==
  ASSUME BufferInv, InLoop, NEW a \in ArenaSlot, NEW bytes, NEW len \in 0 .. ChunkSize,
         PutPiece(writing, a, bytes, len)
  PROVE  /\ \A b \in ArenaSlot \ {a} : alen'[b] = alen[b]
         /\ \A i \in Ino : size'[i] >= size[i] /\ (i # writing.ino => size'[i] = size[i])
         /\ alen'[a] > 0 /\ alen'[a] >= len
         /\ \/ alen'[a] = len
            \/ ChunkStart(writing.chunk) + alen'[a] <= size'[writing.ino]
         /\ alen'[a] >= PieceEnd(writing.off, Len(writing.data), writing.chunk)
  <1>0. StateType
      BY DEF BufferInv, StateInv
  <1>1. alen'[a] = Larger(len, PieceEnd(writing.off, Len(writing.data), writing.chunk))
      BY <1>0 DEF PutPiece, StateType
  <1>2. /\ size'[writing.ino] = Larger(size[writing.ino], AtEnd(writing))
        /\ \A i \in Ino \ {writing.ino} : size'[i] = size[i]
      BY <1>0, LoopPiece DEF PutPiece, StateType
  <1>3. \A b \in ArenaSlot \ {a} : alen'[b] = alen[b]
      BY <1>0 DEF PutPiece, StateType
  <1>4. \A i \in Ino : size[i] \in Nat
      BY <1>0, SlotTypes
  <1> QED
      BY <1>1, <1>2, <1>3, <1>4, LoopPiece, Limits DEF Larger, AtEnd

------------------------------------------------------------------------------
(* The steps of a write *)

\* A piece put into a chunk that is already dirty.
LEMMA HitKeeps ==
  ASSUME BufferInv, WriteHit
  PROVE  BufferInv'
  <1> DEFINE i == writing.ino
             c == writing.chunk
             a == dirty[i][c]
  <1>0. StateType /\ Conserved /\ SizesCover /\ CleanSizeStored
      BY DEF BufferInv, StateInv
  <1>1. InLoop /\ IsDirty(i, c) /\ i \in Ino /\ c \in Chunk
      BY LoopPiece DEF WriteHit
  <1>2. a \in ArenaSlot /\ abytes[a] \in [Within -> Byte] /\ alen[a] \in 0 .. ChunkSize
      BY <1>0, <1>1, SlotTypes
  <1>3. PutPiece(writing, a, abytes[a], alen[a])
      BY DEF WriteHit
  <1>4. UNCHANGED <<stored, dbsize, dirty, free, grown>>
      BY DEF WriteHit, db
  <1>5. StateType' /\ writing' \in Job /\ WriteFits'
      BY <1>0, <1>1, <1>2, <1>3, <1>4, PutPieceType DEF StateType
  <1>6. Conserved'
      BY <1>0, <1>4 DEF Conserved, IsDirty
  <1>7. SizesCover'
    <2>1. /\ \A b \in ArenaSlot \ {a} : alen'[b] = alen[b]
          /\ \A j \in Ino : size'[j] >= size[j]
          /\ alen'[a] > 0 /\ alen'[a] >= alen[a]
          /\ alen'[a] = alen[a] \/ ChunkStart(c) + alen'[a] <= size'[i]
        BY <1>1, <1>2, <1>3, PutPieceSizes
    <2>2. \A j \in Ino : size'[j] \in Nat
        BY <1>5 DEF StateType
    <2>3. alen'[a] \in Nat
        BY <1>5, <1>2 DEF StateType
    <2>4. ASSUME NEW j \in Ino, NEW d \in Chunk, dirty[j][d] = a
          PROVE  j = i /\ d = c
        BY <1>0, <1>1, <2>4 DEF Conserved, IsDirty
    <2> QED
        BY <1>0, <1>1, <1>2, <1>4, <2>1, <2>2, <2>3, <2>4, SlotTypes DEF SizesCover, IsDirty
  <1>8. CleanSizeStored'
    <2>1. \A j \in Ino \ {i} : size'[j] = size[j]
        BY <1>1, <1>2, <1>3, PutPieceSizes
    <2> QED
        BY <1>0, <1>1, <1>4, <2>1 DEF CleanSizeStored, DirtyChunks, IsDirty
  <1> QED
      BY <1>5, <1>6, <1>7, <1>8 DEF BufferInv, StateInv

\* The slot that alloc_chunk takes: no dirty chunk has it, and the reserved
\* slots grow by it at most.
LEMMA AllocFacts ==
  ASSUME StateInv, NEW a \in Allocatable
  PROVE  /\ a \in ArenaSlot
         /\ \A i \in Ino, c \in Chunk : dirty[i][c] # a
         /\ Reserved(a) \in 0 .. MaxSlots
         /\ grown <= Reserved(a) /\ a < Reserved(a)
         /\ \A b \in ArenaSlot : b < Reserved(a) => b < grown \/ b = a
  <1>0. StateType /\ Conserved
      BY DEF StateInv
  <1>1. /\ a \in ArenaSlot
        /\ a \in free \/ a = grown
        /\ a < grown \/ a = grown
      BY <1>0 DEF Allocatable, StateType, Conserved
  <1>2. a \in Nat /\ grown \in 0 .. MaxSlots /\ MaxSlots \in Nat /\ a < MaxSlots
      BY <1>0, <1>1, BufferAssumption DEF StateType, ArenaSlot
  <1>3. ASSUME NEW i \in Ino, NEW c \in Chunk, dirty[i][c] = a PROVE FALSE
      BY <1>0, <1>1, <1>2, <1>3, SlotTypes DEF Conserved, IsDirty
  <1> QED
      BY <1>1, <1>2, <1>3 DEF Reserved, ArenaSlot

\* A piece put into a newly allocated slot, over the stored bytes or, when it
\* covers the chunk, over nothing.
LEMMA NewKeeps ==
  ASSUME BufferInv, WriteNew
  PROVE  BufferInv'
  <1> DEFINE i   == writing.ino
             c   == writing.chunk
             row == stored[i][c]
  <1>0. StateType /\ Conserved /\ SizesCover /\ CleanSizeStored /\ StateInv
      BY DEF BufferInv, StateInv
  <1>1. InLoop /\ ~IsDirty(i, c) /\ i \in Ino /\ c \in Chunk
      BY LoopPiece DEF WriteNew
  <1>2. PICK a \in Allocatable :
          /\ free'  = free \ {a}
          /\ grown' = Reserved(a)
          /\ dirty' = [dirty EXCEPT ![i][c] = a]
          /\ IF IsFullChunk(writing.off, Len(writing.data), c)
             THEN PutPiece(writing, a, abytes[a], 0)
             ELSE PutPiece(writing, a, Loaded(row, abytes[a]), row.len)
      BY DEF WriteNew
  <1>3. a \in ArenaSlot
      BY <1>0, AllocFacts
  <1>4. UNCHANGED <<stored, dbsize>>
      BY DEF WriteNew, db
  <1>5. PICK bytes \in [Within -> Byte], len \in 0 .. ChunkSize :
          /\ PutPiece(writing, a, bytes, len)
          /\ \/ len = row.len
             \/ len = 0 /\ PieceEnd(writing.off, Len(writing.data), c) = ChunkSize
    <2>1. CASE IsFullChunk(writing.off, Len(writing.data), c)
      <3>1. abytes[a] \in [Within -> Byte] /\ 0 \in 0 .. ChunkSize
          BY <1>0, <1>3, SlotTypes, Limits
      <3> QED
          BY <2>1, <1>2, <3>1 DEF IsFullChunk
    <2>2. CASE ~IsFullChunk(writing.off, Len(writing.data), c)
      <3>1. row \in Row /\ row.len \in 0 .. ChunkSize /\ abytes[a] \in [Within -> Byte]
          BY <1>0, <1>1, <1>3, SlotTypes
      <3>2. Loaded(row, abytes[a]) \in [Within -> Byte]
          BY <3>1 DEF Loaded, Row
      <3> QED
          BY <2>2, <1>2, <3>1, <3>2
    <2> QED
        BY <2>1, <2>2
  <1>6. \A j \in Ino, d \in Chunk :
          dirty'[j][d] = IF j = i /\ d = c THEN a ELSE dirty[j][d]
      BY <1>0, <1>1, <1>2 DEF StateType
  <1>7. StateType' /\ writing' \in Job /\ WriteFits'
    <2>1. /\ abytes' \in [ArenaSlot -> [Within -> Byte]]
          /\ alen' \in [ArenaSlot -> 0 .. ChunkSize]
          /\ size' \in [Ino -> 0 .. MaxFileSize]
          /\ writing' \in Job /\ WriteFits'
        BY <1>1, <1>3, <1>5, PutPieceType
    <2>2. grown' \in 0 .. MaxSlots
        BY <1>0, <1>2, AllocFacts
    <2>3. dirty' \in [Ino -> [Chunk -> ArenaSlot \cup {NoSlot}]]
        BY <1>0, <1>1, <1>2, <1>3 DEF StateType
    <2> QED
        BY <1>0, <1>2, <1>4, <2>1, <2>2, <2>3 DEF StateType
  <1>8. Conserved'
    <2>0. /\ \A j \in Ino, d \in Chunk : dirty[j][d] # a
          /\ grown <= grown' /\ a < grown' /\ grown' \in Nat /\ grown \in Nat
          /\ \A b \in ArenaSlot : b < grown' => b < grown \/ b = a
          /\ \A b : b \in free' <=> b \in free /\ b # a
          /\ \A b \in ArenaSlot : b \in Int
          /\ free \subseteq ArenaSlot
        BY <1>0, <1>2, <1>7, AllocFacts, BufferAssumption DEF StateType, ArenaSlot
    <2>1. \A j \in Ino, d \in Chunk :
            dirty'[j][d] # NoSlot => dirty'[j][d] \notin free' /\ dirty'[j][d] < grown'
        BY <1>0, <1>6, <2>0, SlotTypes DEF Conserved, IsDirty
    <2>2. \A b \in free' : b < grown'
        BY <1>0, <2>0 DEF Conserved
    <2>3. \A b \in ArenaSlot :
            b < grown' => b \in free' \/ \E j \in Ino, d \in Chunk : dirty'[j][d] = b
      <3> SUFFICES ASSUME NEW b \in ArenaSlot, b < grown', b \notin free'
                   PROVE  \E j \in Ino, d \in Chunk : dirty'[j][d] = b
          OBVIOUS
      <3>1. CASE b = a
          BY <3>1, <1>1, <1>6
      <3>2. CASE b # a
        <4>1. PICK j \in Ino, d \in Chunk : dirty[j][d] = b
            BY <3>2, <1>0, <2>0 DEF Conserved
        <4>2. ~(j = i /\ d = c)
            BY <4>1, <1>0, <1>1, SlotTypes DEF IsDirty
        <4> QED
            BY <4>1, <4>2, <1>6
      <3> QED
          BY <3>1, <3>2
    <2>4. \A j, k \in Ino, d, e \in Chunk :
            dirty'[j][d] # NoSlot /\ dirty'[j][d] = dirty'[k][e] => j = k /\ d = e
        BY <1>0, <1>6, <2>0 DEF Conserved, IsDirty
    <2> QED
        BY <2>1, <2>2, <2>3, <2>4 DEF Conserved, IsDirty
  <1>9. SizesCover'
    <2>1. /\ \A b \in ArenaSlot \ {a} : alen'[b] = alen[b]
          /\ \A j \in Ino : size'[j] >= size[j]
          /\ alen'[a] > 0 /\ alen'[a] >= len
          /\ alen'[a] = len \/ ChunkStart(c) + alen'[a] <= size'[i]
          /\ alen'[a] >= PieceEnd(writing.off, Len(writing.data), c)
        BY <1>1, <1>3, <1>5, PutPieceSizes
    <2>2. /\ \A j \in Ino : size'[j] \in Nat
          /\ alen'[a] \in 0 .. ChunkSize
        BY <1>3, <1>7 DEF StateType
    <2>3. /\ row.len <= alen'[a]
          /\ ChunkStart(c) + alen'[a] <= size'[i]
      <3>1. /\ row.len \in 0 .. ChunkSize
            /\ row.len > 0 => ChunkStart(c) + row.len <= dbsize[i]
            /\ dbsize[i] <= size[i] /\ dbsize[i] \in Nat /\ size[i] \in Nat
            /\ ChunkStart(c) \in Nat
          BY <1>0, <1>1, SlotTypes DEF SizesCover
      <3> QED
          BY <1>1, <1>5, <2>1, <2>2, <3>1, Limits
    <2>4. \A j \in Ino, d \in Chunk : dirty[j][d] # a
        BY <1>0, <1>2, AllocFacts
    <2>5. ASSUME NEW j \in Ino, NEW d \in Chunk
          PROVE  /\ stored'[j][d].len > 0 => ChunkStart(d) + stored'[j][d].len <= dbsize'[j]
                 /\ dbsize'[j] <= size'[j]
        BY <1>0, <1>4, <2>1, <2>2, SlotTypes DEF SizesCover
    <2>6. ASSUME NEW j \in Ino, NEW d \in Chunk, dirty'[j][d] # NoSlot, ~(j = i /\ d = c)
          PROVE  /\ alen'[dirty'[j][d]] > 0
                 /\ ChunkStart(d) + alen'[dirty'[j][d]] <= size'[j]
                 /\ stored'[j][d].len <= alen'[dirty'[j][d]]
      <3>1. dirty'[j][d] = dirty[j][d] /\ IsDirty(j, d)
          BY <1>6, <2>6 DEF IsDirty
      <3>2. dirty[j][d] \in ArenaSlot /\ alen[dirty[j][d]] \in Nat
          BY <1>0, <3>1, SlotTypes
      <3>3. alen'[dirty[j][d]] = alen[dirty[j][d]]
          BY <2>1, <2>4, <3>2
      <3> QED
          BY <1>0, <1>4, <2>1, <2>2, <3>1, <3>2, <3>3, SlotTypes DEF SizesCover
    <2>7. /\ dirty'[i][c] = a
          /\ stored'[i][c] = row
        BY <1>1, <1>4, <1>6
    <2> QED
        BY <2>1, <2>3, <2>5, <2>6, <2>7 DEF SizesCover, IsDirty
  <1>10. CleanSizeStored'
    <2>1. \A j \in Ino \ {i} : size'[j] = size[j]
        BY <1>1, <1>3, <1>5, PutPieceSizes
    <2>2. a # NoSlot
        BY <1>0, <1>3, SlotTypes
    <2> QED
        BY <1>0, <1>1, <1>4, <1>6, <2>1, <2>2 DEF CleanSizeStored, DirtyChunks, IsDirty
  <1> QED
      BY <1>7, <1>8, <1>9, <1>10 DEF BufferInv, StateInv

\* A load that fails gives its slot back.
LEMMA LoadFailKeeps ==
  ASSUME BufferInv, WriteLoadFail
  PROVE  BufferInv'
  <1>0. StateType /\ Conserved /\ SizesCover /\ CleanSizeStored /\ StateInv
      BY DEF BufferInv, StateInv
  <1>1. PICK a \in Allocatable :
          /\ free'  = free \cup {a}
          /\ grown' = Reserved(a)
          /\ alen'  = [alen EXCEPT ![a] = 0]
      BY DEF WriteLoadFail
  <1>2. /\ a \in ArenaSlot
        /\ \A j \in Ino, d \in Chunk : dirty[j][d] # a
        /\ grown <= grown' /\ a < grown' /\ grown' \in 0 .. MaxSlots /\ grown \in Nat
        /\ \A b \in ArenaSlot : b < grown' => b < grown \/ b = a
        /\ \A b \in ArenaSlot : b \in Int
      BY <1>0, <1>1, AllocFacts, BufferAssumption DEF StateType, ArenaSlot
  <1>3. UNCHANGED <<stored, dbsize, size, dirty, abytes>> /\ writing' = NoWrite
      BY DEF WriteLoadFail, db
  <1>4. StateType'
      BY <1>0, <1>1, <1>2, <1>3, Limits DEF StateType
  <1>5. Conserved'
      BY <1>0, <1>1, <1>2, <1>3, SlotTypes, BufferAssumption DEF Conserved, IsDirty, StateType
  <1>6. SizesCover' /\ CleanSizeStored'
      BY <1>0, <1>1, <1>2, <1>3, SlotTypes
         DEF SizesCover, CleanSizeStored, DirtyChunks, IsDirty, StateType
  <1> QED
      BY <1>3, <1>4, <1>5, <1>6 DEF BufferInv, StateInv, WriteFits

------------------------------------------------------------------------------
(* The theorems *)

\* The state after a start or a crash: nothing buffered, rows within the sizes.
EmptyState ==
  /\ stored \in [Ino -> [Chunk -> Row]]
  /\ dbsize \in [Ino -> 0 .. MaxFileSize]
  /\ \A i \in Ino, c \in Chunk :
       stored[i][c].len > 0 => ChunkStart(c) + stored[i][c].len <= dbsize[i]
  /\ size    = dbsize
  /\ dirty   = [i \in Ino |-> NoDirty]
  /\ abytes  = [a \in ArenaSlot |-> [k \in Within |-> Zero]]
  /\ alen    = [a \in ArenaSlot |-> 0]
  /\ free    = {}
  /\ grown   = 0
  /\ writing = NoWrite

\* An empty arena holds nothing, so sizes from the database are right.
LEMMA EmptyKeeps == EmptyState => BufferInv
  <1> SUFFICES ASSUME EmptyState PROVE BufferInv
      OBVIOUS
  <1> USE DEF EmptyState
  <1>1. \A i \in Ino, c \in Chunk : dirty[i][c] = NoSlot
      BY DEF NoDirty
  <1>2. StateType
    <2>1. dirty \in [Ino -> [Chunk -> ArenaSlot \cup {NoSlot}]]
        BY DEF NoDirty
    <2>2. abytes \in [ArenaSlot -> [Within -> Byte]] /\ alen \in [ArenaSlot -> 0 .. ChunkSize]
        BY BufferAssumption, Limits
    <2> QED
        BY <2>1, <2>2, BufferAssumption DEF StateType
  <1>3. Conserved
      BY <1>1, BufferAssumption DEF Conserved, IsDirty, ArenaSlot
  <1>4. SizesCover
    <2>1. \A i \in Ino : dbsize[i] <= size[i]
        BY Limits
    <2> QED
        BY <1>1, <2>1 DEF SizesCover, IsDirty
  <1>5. CleanSizeStored
      BY DEF CleanSizeStored
  <1> QED
      BY <1>2, <1>3, <1>4, <1>5 DEF BufferInv, StateInv, WriteFits

\* The same of the state a step leads to.
LEMMA EmptyKeepsNext == EmptyState' => BufferInv'
  BY EmptyKeeps, PTL

\* The buffers start consistent.
LEMMA BufferInit == Init => BufferInv
  <1> SUFFICES ASSUME Init PROVE BufferInv
      OBVIOUS
  <1>1. stored \in [Ino -> [Chunk -> Row]] /\ \A i \in Ino, c \in Chunk : stored[i][c].len = 0
      BY NoRowType DEF Init
  <1>2. dbsize \in [Ino -> 0 .. MaxFileSize] /\ size = dbsize
      BY Limits DEF Init
  <1> QED
      BY <1>1, <1>2, EmptyKeeps DEF Init, EmptyState

\* Every step keeps the buffers consistent.
LEMMA BufferStep == BufferInv /\ [Next]_vars => BufferInv'
  <1> SUFFICES ASSUME BufferInv, [Next]_vars PROVE BufferInv'
      OBVIOUS
  <1>0. StateInv /\ writing \in Job \cup {NoWrite} /\ WriteFits
      BY DEF BufferInv
  <1>a. ASSUME UNCHANGED <<stored, dbsize, size, dirty, abytes, alen, free, grown>>
        PROVE  StateInv'
      BY <1>0, <1>a DEF StateInv, StateType, Conserved, SizesCover, CleanSizeStored,
                        IsDirty, DirtyChunks
  <1>b. ASSUME UNCHANGED writing
        PROVE  writing' \in Job \cup {NoWrite} /\ WriteFits'
      BY <1>0, <1>b DEF WriteFits
  <1>1. ASSUME NEW i \in Ino, NEW off \in 0 .. (MaxFileSize - 1), NEW data \in Payloads,
               WriteStart(i, off, data)
        PROVE  BufferInv'
    <2>1. StateInv'
        BY <1>a, <1>1 DEF WriteStart, db, arena
    <2>2. Len(data) \in Nat \ {0} /\ off + Len(data) <= MaxFileSize
        BY <1>1, BufferAssumption DEF WriteStart
    <2>3. /\ SpanFirst(off) \in 0 .. MaxChunks
          /\ SpanFirst(off) <= SpanLast(off, Len(data)) + 1
      <3>1. /\ SpanFirst(off) \in Chunk /\ SpanLast(off, Len(data)) \in Chunk
            /\ SpanFirst(off) <= SpanLast(off, Len(data))
          BY <2>2, SpanBounds
      <3> QED
          BY <3>1, Limits DEF Chunk
    <2>4. writing' = [ino |-> i, off |-> off, data |-> data, chunk |-> SpanFirst(off)]
        BY <1>1 DEF WriteStart
    <2>5. writing' \in Job
        BY <2>3, <2>4 DEF Job
    <2>6. WriteFits'
        BY <2>2, <2>3, <2>4 DEF WriteFits
    <2> QED
        BY <2>1, <2>5, <2>6 DEF BufferInv
  <1>2. CASE WriteHit
      BY <1>2, HitKeeps
  <1>3. CASE WriteNew
      BY <1>3, NewKeeps
  <1>4. CASE WriteEvict
    <2>1. PICK v \in Ino : FlushSlot(v)
        BY <1>4 DEF WriteEvict, Victims
    <2> QED
        BY <2>1, <1>0, <1>4, <1>b, FlushKeeps DEF BufferInv, WriteEvict
  <1>5. CASE WriteReturn \/ WriteEvictFail
    <2>1. StateInv'
        BY <1>a, <1>5 DEF WriteReturn, WriteEvictFail, db, arena
    <2> QED
        BY <2>1, <1>5 DEF BufferInv, WriteFits, WriteReturn, WriteEvictFail
  <1>6. CASE WriteLoadFail
      BY <1>6, LoadFailKeeps
  <1>7. ASSUME NEW i \in Ino, Flush(i) PROVE BufferInv'
      BY <1>0, <1>7, <1>b, FlushKeeps DEF BufferInv, Flush
  <1>8. ASSUME NEW i \in Ino, NEW n \in 0 .. MaxFileSize, TruncateLocked(i, n)
        PROVE  BufferInv'
      BY <1>0, <1>8, <1>b, TruncateKeeps DEF BufferInv, TruncateLocked
  <1>9. ASSUME NEW i \in Ino, NEW end \in 1 .. MaxFileSize, Fallocate(i, end)
        PROVE  BufferInv'
    <2>1. end \in 0 .. MaxFileSize /\ TruncateLocked(i, end)
        BY <1>9, Limits DEF Fallocate
    <2> QED
        BY <2>1, <1>8
  <1>10. CASE Crash
    <2>1. /\ stored' \in [Ino -> [Chunk -> Row]] /\ dbsize' \in [Ino -> 0 .. MaxFileSize]
          /\ \A i \in Ino, c \in Chunk :
               stored'[i][c].len > 0 => ChunkStart(c) + stored'[i][c].len <= dbsize'[i]
        BY <1>0, <1>10 DEF Crash, db, StateInv, StateType, SizesCover
    <2>2. /\ size' = dbsize' /\ dirty' = [i \in Ino |-> NoDirty]
          /\ abytes' = [a \in ArenaSlot |-> [k \in Within |-> Zero]]
          /\ alen' = [a \in ArenaSlot |-> 0] /\ free' = {} /\ grown' = 0
          /\ writing' = NoWrite
        BY <1>10 DEF Crash, db
    <2>3. EmptyState'
        BY <2>1, <2>2 DEF EmptyState
    <2> QED
        BY <2>3, EmptyKeepsNext
  <1>11. CASE UNCHANGED vars
      BY <1>11, <1>a, <1>b DEF vars, BufferInv
  <1> QED
      BY <1>1, <1>2, <1>3, <1>4, <1>5, <1>6, <1>7, <1>8, <1>9, <1>10, <1>11
         DEF Next, WriteStep, Truncate

\* BufferInv holds throughout.
LEMMA BufferAlways == Spec => []BufferInv
  BY BufferInit, BufferStep, PTL DEF Spec

\* Buffers, rows, sizes and the write in progress keep their types, for every
\* chunk size and budget: every index into the arena and into a write's buffer
\* is in bounds (write_slot, ChunkArena, ChunkSpan).
THEOREM TypeCorrect == Spec => []TypeOK
  <1>1. BufferInv => TypeOK
      BY DEF BufferInv, StateInv, StateType, TypeOK
  <1> QED
      BY <1>1, BufferAlways, PTL

\* No arena slot is leaked or shared, whatever fails and whatever is evicted
\* (ChunkArena::alloc and release, alloc_chunk, flush_slot).
THEOREM ArenaSafe == Spec => []ArenaConserved
  <1>1. BufferInv => ArenaConserved
    <2> SUFFICES ASSUME BufferInv PROVE ArenaConserved
        OBVIOUS
    <2>0. StateType /\ Conserved
        BY DEF BufferInv, StateInv
    <2>1. ASSUME NEW a \in Used
          PROVE  a # NoSlot /\ \E i \in Ino, c \in Chunk : a = dirty[i][c]
      <3>1. PICK ic \in Ino \X Chunk : a = dirty[ic[1]][ic[2]] /\ a # NoSlot
          BY DEF Used
      <3>2. ic[1] \in Ino /\ ic[2] \in Chunk
          OBVIOUS
      <3> QED
          BY <3>1, <3>2
    <2>a. ASSUME NEW i \in Ino, NEW c \in Chunk, IsDirty(i, c)
          PROVE  dirty[i][c] \in Used
      <3>1. /\ <<i, c>> \in Ino \X Chunk
            /\ dirty[i][c] = dirty[<<i, c>>[1]][<<i, c>>[2]]
          OBVIOUS
      <3> QED
          BY <2>a, <3>1 DEF Used, IsDirty
    <2>b. \A a : a \in ArenaSlot <=> a \in Nat /\ a < MaxSlots
        BY BufferAssumption DEF ArenaSlot
    <2>c. grown \in Nat /\ grown <= MaxSlots /\ MaxSlots \in Nat
        BY <2>0, BufferAssumption DEF StateType
    <2>2. free \cap Used = {}
        BY <2>0, <2>1 DEF Conserved, IsDirty
    <2>3. ASSUME NEW a \in free \cup Used
          PROVE  a \in 0 .. (grown - 1)
      <3>1. a \in ArenaSlot /\ a < grown
          BY <2>0, <2>1, SlotTypes DEF Conserved, IsDirty, StateType
      <3> QED
          BY <3>1, <2>b, <2>c
    <2>4. ASSUME NEW a \in 0 .. (grown - 1)
          PROVE  a \in free \cup Used
      <3>1. a \in ArenaSlot /\ a < grown
          BY <2>b, <2>c
      <3>2. a # NoSlot
          BY <3>1, <2>0, SlotTypes
      <3> QED
          BY <3>1, <3>2, <2>0, <2>a DEF Conserved, IsDirty
    <2> QED
        BY <2>0, <2>2, <2>3, <2>4 DEF ArenaConserved, Conserved
  <1> QED
      BY <1>1, BufferAlways, PTL

\* No chunk reaches past the size kept with it, and no flush shortens a row: a
\* truncate, a hole or a failed write never exposes old bytes later (write_slot,
\* truncate_file, replace_chunks).
THEOREM SizesSafe == Spec => []SizesCover
  <1>1. BufferInv => SizesCover
      BY DEF BufferInv, StateInv
  <1> QED
      BY <1>1, BufferAlways, PTL

\* A slot whose inode is clean can be dropped and its size reloaded from the
\* database (free_if_idle, slot_for).
THEOREM CleanSafe == Spec => []CleanSizeStored
  <1>1. BufferInv => CleanSizeStored
      BY DEF BufferInv, StateInv
  <1> QED
      BY <1>1, BufferAlways, PTL

\* The number of dirty chunks of an inode is a number, at most MaxChunks, and 0
\* only without any.
LEMMA DirtyCount ==
  ASSUME NEW i \in Ino
  PROVE  /\ Cardinality(DirtyChunks(i)) \in 0 .. MaxChunks
         /\ Cardinality(DirtyChunks(i)) = 0 <=> DirtyChunks(i) = {}
  <1>1. IsFiniteSet(Chunk) /\ Cardinality(Chunk) = MaxChunks
      BY Limits, FS_Interval DEF Chunk
  <1>2. DirtyChunks(i) \subseteq Chunk
      BY DEF DirtyChunks
  <1>3. /\ IsFiniteSet(DirtyChunks(i))
        /\ Cardinality(DirtyChunks(i)) \in Nat
        /\ Cardinality(DirtyChunks(i)) <= MaxChunks
      BY <1>1, <1>2, FS_Subset, FS_CardinalityType
  <1> QED
      BY <1>3, FS_EmptySet, Limits

\* The EIO of alloc_chunk ("nothing to evict") is unreachable: with the budget
\* used up, every arena slot holds a dirty chunk, so an inode has dirty chunks,
\* and one has the most of them, even among infinitely many inodes.
THEOREM EvictionSafe == Spec => []EvictionFindsVictim
  <1>1. BufferInv => EvictionFindsVictim
    <2> SUFFICES ASSUME BufferInv, NeedsSlot PROVE Victims # {}
        BY DEF EvictionFindsVictim
    <2>0. StateType /\ Conserved
        BY DEF BufferInv, StateInv
    <2>1. free = {} /\ grown \notin ArenaSlot
        BY DEF NeedsSlot, Allocatable
    <2>2. grown = MaxSlots /\ 0 \in ArenaSlot /\ 0 < grown
        BY <2>0, <2>1, BufferAssumption DEF StateType, ArenaSlot
    <2>3. PICK i \in Ino, c \in Chunk : dirty[i][c] = 0
        BY <2>0, <2>1, <2>2 DEF Conserved
    <2>4. DirtyChunks(i) # {}
        BY <2>3 DEF DirtyChunks, IsDirty, NoSlot
    <2> DEFINE Spare(v) == MaxChunks - Cardinality(DirtyChunks(v))
               T        == {Spare(v) : v \in Ino}
    <2>5. T \subseteq Nat /\ T # {}
        BY <2>3, DirtyCount, Limits
    <2>6. PICK m \in T : \A n \in T : ~(<<n, m>> \in OpToRel(<, Nat))
      <3> HIDE DEF T
      <3> QED
          BY <2>5, NatLessThanWellFounded, WFMin
    <2>7. PICK v \in Ino : m = Spare(v)
        OBVIOUS
    <2>8. ASSUME NEW u \in Ino
          PROVE  Cardinality(DirtyChunks(u)) <= Cardinality(DirtyChunks(v))
      <3>1. ~(<<Spare(u), Spare(v)>> \in OpToRel(<, Nat))
          BY <2>6, <2>7
      <3>2. Spare(u) \in Nat /\ Spare(v) \in Nat
          BY <2>5
      <3>3. ~(Spare(u) < Spare(v))
          BY <3>1, <3>2 DEF OpToRel
      <3> QED
          BY <3>3, DirtyCount, Limits
    <2>9. DirtyChunks(v) # {}
        BY <2>4, <2>8, DirtyCount, Limits
    <2> QED
        BY <2>8, <2>9 DEF Victims
  <1> QED
      BY <1>1, BufferAlways, PTL

------------------------------------------------------------------------------
(* A write gets to its end *)

\* The span of a write in progress ends where its chunks do, and the steps left are
\* a number.
LEMMA StepsAre ==
  ASSUME BufferInv, writing # NoWrite
  PROVE  /\ writing \in Job
         /\ writing.chunk \in Int /\ SpanLast(writing.off, Len(writing.data)) \in Int
         /\ writing.chunk <= SpanLast(writing.off, Len(writing.data)) + 1
         /\ StepsLeft \in Nat \ {0}
  <1>1. writing \in Job /\ writing.chunk \in Int
      BY DEF BufferInv, Job
  <1>2. /\ writing.off \in 0 .. (MaxFileSize - 1) /\ Len(writing.data) \in Nat \ {0}
        /\ writing.off + Len(writing.data) <= MaxFileSize
        /\ writing.chunk <= SpanLast(writing.off, Len(writing.data)) + 1
      BY <1>1, BufferAssumption DEF BufferInv, Job, WriteFits
  <1>3. PICK last \in Int : last = SpanLast(writing.off, Len(writing.data))
      BY <1>2, SpanBounds DEF Chunk
  <1>4. StepsLeft = 2 * (last + 1 - writing.chunk) + (IF InLoop /\ ~NeedsSlot THEN 0 ELSE 1)
      BY <1>3 DEF StepsLeft
  <1>5. InLoop <=> writing.chunk <= last
      BY <1>3 DEF InLoop
  <1>6. StepsLeft \in Nat \ {0}
    <2>1. PICK c \in Int : c = writing.chunk /\ c <= last + 1
        BY <1>1, <1>2, <1>3
    <2>2. CASE InLoop /\ ~NeedsSlot
      <3>1. StepsLeft = 2 * (last + 1 - c) /\ c <= last
          BY <1>4, <1>5, <2>1, <2>2
      <3> QED
          BY <3>1
    <2>3. CASE ~(InLoop /\ ~NeedsSlot)
      <3>1. StepsLeft = 2 * (last + 1 - c) + 1
          BY <1>4, <2>1, <2>3
      <3> QED
          BY <2>1, <3>1
    <2> QED
        BY <2>2, <2>3
  <1> QED
      BY <1>1, <1>2, <1>3, <1>6

\* One step of a write, of whatever outcome.
LEMMA StepShrinks ==
  ASSUME BufferInv, BufferInv', Next, writing # NoWrite
  PROVE  StepsLeft' < StepsLeft /\ StepsLeft' >= 0
  <1>1. PICK last \in Int, c \in Int :
          last = SpanLast(writing.off, Len(writing.data)) /\ c = writing.chunk /\ c <= last + 1
      BY StepsAre
  <1>2. StepsLeft \in Nat \ {0} /\ writing \in Job
      BY StepsAre
  <1>3. StepsLeft = 2 * (last + 1 - c) + (IF InLoop /\ ~NeedsSlot THEN 0 ELSE 1)
      BY <1>1 DEF StepsLeft
  <1>4. CASE writing' = NoWrite
    <2>1. StepsLeft' = 0
        BY <1>4 DEF StepsLeft
    <2> QED
        BY <1>2, <2>1
  <1>5. CASE WriteHit \/ WriteNew
    <2>1. InLoop /\ ~NeedsSlot
        BY <1>5 DEF WriteHit, WriteNew, NeedsSlot
    <2>2. writing' = [writing EXCEPT !.chunk = c + 1]
        BY <1>1, <1>5 DEF WriteHit, WriteNew, PutPiece
    <2>3. writing'.chunk = c + 1 /\ writing'.off = writing.off /\ writing'.data = writing.data
        BY <1>2, <2>2 DEF Job
    <2>4. ASSUME writing' # NoWrite
          PROVE  StepsLeft' = 2 * (last + 1 - (c + 1)) + (IF (InLoop /\ ~NeedsSlot)' THEN 0 ELSE 1)
        BY <1>1, <2>3, <2>4 DEF StepsLeft
    <2>5. c <= last
        BY <1>1, <2>1 DEF InLoop
    <2>6. StepsLeft = 2 * (last + 1 - c)
        BY <1>3, <2>1
    <2>7. CASE writing' # NoWrite
      <3>1. StepsLeft' = 2 * (last - c) \/ StepsLeft' = 2 * (last - c) + 1
          BY <1>1, <2>4, <2>7
      <3> QED
          BY <1>1, <2>5, <2>6, <3>1
    <2> QED
        BY <1>4, <2>7
  <1>6. CASE WriteEvict
    <2>1. InLoop /\ NeedsSlot /\ writing' = writing
        BY <1>6 DEF WriteEvict, NeedsSlot
    <2>2. PICK v \in Victims : FlushSlot(v)
        BY <1>6 DEF WriteEvict
    <2>3. free' # {}
        BY <2>2 DEF FlushSlot, Victims
    <2>4. InLoop' /\ ~NeedsSlot'
        BY <2>1, <2>3 DEF InLoop, NeedsSlot, Allocatable
    <2>5. StepsLeft' = 2 * (last + 1 - c)
        BY <1>1, <2>1, <2>4 DEF StepsLeft
    <2> QED
        BY <1>1, <1>2, <1>3, <2>1, <2>5
  <1>7. WriteHit \/ WriteNew \/ WriteEvict \/ writing' = NoWrite
      BY DEF Next, WriteStep, WriteStart, WriteReturn, WriteEvictFail, WriteLoadFail, Flush,
             Truncate, Fallocate, TruncateLocked, Crash
  <1> QED
      BY <1>4, <1>5, <1>6, <1>7

\* A write takes at most two steps for each of its chunks and one to return, for any
\* budget and any other files: alloc_chunk evicts at most once for a chunk.
THEOREM WriteBounded == Spec => WriteMovesOn
  <1>1. BufferInv /\ BufferInv' /\ [Next]_vars =>
          [StepsLeft > 0 => StepsLeft' < StepsLeft /\ StepsLeft' >= 0]_vars
    <2> SUFFICES ASSUME BufferInv, BufferInv', Next, StepsLeft > 0
                 PROVE  StepsLeft' < StepsLeft /\ StepsLeft' >= 0
        OBVIOUS
    <2>1. writing # NoWrite
        BY DEF StepsLeft
    <2> QED
        BY <2>1, StepShrinks
  <1> QED
      BY <1>1, BufferAlways, PTL DEF Spec, WriteMovesOn

------------------------------------------------------------------------------
(* What the files look like *)

\* Position p of a file that has these rows.
Flat(rows, p) == rows[p \div ChunkSize].data[p % ChunkSize]

\* The image of a file of n bytes with these rows.
Image(n, rows) == [size |-> n, data |-> [p \in Position |-> Flat(rows, p)]]

\* A row has no byte past its length.
PaddedRow(r) == \A k \in Within : r.len <= k => r.data[k] = Zero
Padded       == \A i \in Ino, c \in Chunk : PaddedRow(stored[i][c])

ContentInv == BufferInv /\ Padded

\* A position is a chunk and a place within it.
LEMMA PositionIs ==
  ASSUME NEW p \in Position
  PROVE  /\ p \div ChunkSize \in Chunk /\ p % ChunkSize \in Within
         /\ p = ChunkStart(p \div ChunkSize) + (p % ChunkSize)
  <1>1. p \in Nat /\ p < MaxChunks * ChunkSize
      BY Limits DEF Position, MaxFileSize
  <1>2. p \div ChunkSize \in Nat /\ p % ChunkSize \in 0 .. (ChunkSize - 1)
        /\ p = ChunkSize * (p \div ChunkSize) + (p % ChunkSize)
      BY <1>1, Limits, DivFacts
  <1>3. p \div ChunkSize < MaxChunks
      BY <1>1, Limits, DivBelow
  <1> QED
      BY <1>2, <1>3, Limits DEF Chunk, Within, ChunkStart

\* The rows a flush would store are padded too.
LEMMA FlushedPadded ==
  ASSUME ContentInv, NEW i \in Ino, NEW c \in Chunk
  PROVE  PaddedRow(FlushedRows(i)[c])
  <1>1. CASE IsDirty(i, c)
    <2>1. FlushedRows(i)[c] = RowOf(alen[dirty[i][c]], abytes[dirty[i][c]])
        BY <1>1 DEF FlushedRows
    <2>2. alen[dirty[i][c]] \in Int
        BY <1>1, SlotTypes DEF ContentInv, BufferInv, StateInv
    <2>3. \A k \in Within : k \in Int
        BY Limits DEF Within
    <2> QED
        BY <2>1, <2>2, <2>3 DEF RowOf, PaddedRow
  <1>2. CASE ~IsDirty(i, c)
      BY <1>2 DEF FlushedRows, ContentInv, Padded
  <1> QED
      BY <1>1, <1>2

\* Reads and restarts show images of rows: the flushed ones and the stored ones.
Shows ==
  \A i \in Ino : /\ ContentOf(i) = Image(size[i], FlushedRows(i))
                 /\ SavedOf(i) = Image(dbsize[i], stored[i])

\* The checks of the size in ReadByte change nothing: past the size of a file its
\* rows, stored and dirty, have no byte.
LEMMA ImagesShown == ContentInv => Shows
  <1> SUFFICES ASSUME ContentInv, NEW i \in Ino
               PROVE  /\ ContentOf(i) = Image(size[i], FlushedRows(i))
                      /\ SavedOf(i) = Image(dbsize[i], stored[i])
      BY DEF Shows
  <1>0. StateType /\ SizesCover /\ Padded
      BY DEF ContentInv, BufferInv, StateInv
  <1>1. ASSUME NEW p \in Position
        PROVE  /\ ReadByte(i, p) = Flat(FlushedRows(i), p)
               /\ p >= dbsize[i] => Flat(stored[i], p) = Zero
    <2> DEFINE c == p \div ChunkSize
               k == p % ChunkSize
               a == dirty[i][c]
    <2>1. c \in Chunk /\ k \in Within /\ p = ChunkStart(c) + k
        BY PositionIs
    <2>2. Flat(FlushedRows(i), p) = FlushedRows(i)[c].data[k] /\ Flat(stored[i], p) = stored[i][c].data[k]
        BY DEF Flat
    <2>3. ReadByte(i, p) = CASE p >= size[i] -> Zero
                             [] IsDirty(i, c) /\ k < alen[a] -> abytes[a][k]
                             [] OTHER -> stored[i][c].data[k]
        BY DEF ReadByte
    <2> HIDE DEF c, k
    <2>4. /\ stored[i][c].len \in Nat /\ dbsize[i] \in Nat /\ size[i] \in Nat /\ k \in Nat
          /\ ChunkStart(c) \in Nat /\ p \in Nat
          /\ dbsize[i] <= size[i]
          /\ stored[i][c].len > 0 => ChunkStart(c) + stored[i][c].len <= dbsize[i]
        BY <1>0, <2>1, SlotTypes, Limits DEF SizesCover, Within, Position
    <2>5. /\ stored[i][c].len <= k => stored[i][c].data[k] = Zero
          /\ p >= dbsize[i] => stored[i][c].len <= k
        BY <1>0, <2>1, <2>4 DEF Padded, PaddedRow
    <2>6. CASE IsDirty(i, c)
      <3>1. /\ alen[a] \in Nat /\ ChunkStart(c) + alen[a] <= size[i] /\ stored[i][c].len <= alen[a]
          BY <1>0, <2>1, <2>6, SlotTypes DEF SizesCover
      <3>2. FlushedRows(i)[c].data[k] = IF k < alen[a] THEN abytes[a][k] ELSE Zero
          BY <2>1, <2>6 DEF FlushedRows, RowOf
      <3>3. p >= size[i] => alen[a] <= k
          BY <2>1, <2>4, <3>1
      <3>4. alen[a] <= k => stored[i][c].data[k] = Zero
          BY <2>4, <2>5, <3>1
      <3> QED
          BY <2>2, <2>3, <2>4, <2>5, <2>6, <3>1, <3>2, <3>3, <3>4
    <2>7. CASE ~IsDirty(i, c)
      <3>1. FlushedRows(i)[c].data[k] = stored[i][c].data[k]
          BY <2>1, <2>7 DEF FlushedRows
      <3> QED
          BY <2>2, <2>3, <2>4, <2>5, <2>7, <3>1
    <2> QED
        BY <2>6, <2>7
  <1>2. ContentOf(i) = Image(size[i], FlushedRows(i))
      BY <1>1 DEF ContentOf, Image
  <1>3. SavedOf(i) = Image(dbsize[i], stored[i])
    <2>1. ASSUME NEW p \in Position
          PROVE  (IF p < dbsize[i] THEN stored[i][p \div ChunkSize].data[p % ChunkSize] ELSE Zero)
                 = Flat(stored[i], p)
      <3>1. p \in Int /\ dbsize[i] \in Int
          BY <1>0, SlotTypes, Limits DEF Position
      <3> QED
          BY <1>1, <3>1 DEF Flat
    <2> QED
        BY <2>1 DEF SavedOf, Image
  <1> QED
      BY <1>2, <1>3

\* The same after a step.
LEMMA ImagesShownNext == ContentInv' => Shows'
  BY ImagesShown, PTL

\* RowOf pads.
LEMMA RowOfPadded ==
  ASSUME NEW len \in Int, NEW bytes
  PROVE  PaddedRow(RowOf(len, bytes)) /\ RowOf(len, bytes).len = len
  <1>1. \A k \in Within : k \in Int
      BY Limits DEF Within
  <1> QED
      BY <1>1 DEF RowOf, PaddedRow

\* truncate_file: bytes before the new size stay, the others are gone, also those of
\* the last chunk.
LEMMA CutBytes ==
  ASSUME NEW rows \in [Chunk -> Row], NEW n \in 0 .. MaxFileSize,
         \A c \in Chunk : PaddedRow(rows[c])
  PROVE  /\ \A c \in Chunk : PaddedRow(CutRows(rows, n)[c])
         /\ \A p \in Position : Flat(CutRows(rows, n), p) = IF p < n THEN Flat(rows, p) ELSE Zero
  <1> DEFINE last    == (n - 1) \div ChunkSize
             lastLen == ((n - 1) % ChunkSize) + 1
             cut     == CutRows(rows, n)
  <1>0. PaddedRow(NoRow) /\ NoRow.len = 0 /\ \A k \in Within : NoRow.data[k] = Zero
      BY RowOfPadded, Limits DEF NoRow, RowOf
  <1>1. CASE n = 0
    <2>1. \A c \in Chunk : cut[c] = NoRow
        BY <1>1 DEF CutRows
    <2>2. \A p \in Position : p \in Nat
        BY Limits DEF Position
    <2> QED
        BY <1>0, <1>1, <2>1, <2>2, PositionIs DEF Flat
  <1>2. CASE n > 0
    <2>0. n - 1 \in Nat /\ n \in Nat
        BY <1>2, Limits
    <2>1. last \in Nat /\ lastLen \in 1 .. ChunkSize /\ n = ChunkSize * last + lastLen
        BY <2>0, Limits, DivFacts
    <2>2. \A c \in Chunk : cut[c] = CASE n = 0 \/ c > last                     -> NoRow
                                      [] n > 0 /\ c = last /\ rows[c].len > lastLen -> RowOf(lastLen, rows[c].data)
                                      [] OTHER                                 -> rows[c]
        BY DEF CutRows
    <2> HIDE DEF last, lastLen, cut
    <2>3. ASSUME NEW c \in Chunk
          PROVE  /\ c > last => cut[c] = NoRow
                 /\ c = last /\ rows[c].len > lastLen => cut[c] = RowOf(lastLen, rows[c].data)
                 /\ c < last \/ (c = last /\ ~(rows[c].len > lastLen)) => cut[c] = rows[c]
                 /\ c > last \/ c = last \/ c < last
                 /\ c \in Nat /\ rows[c].len \in Nat
        BY <1>2, <2>1, <2>2, Limits DEF Chunk, Row
    <2>4. \A c \in Chunk : PaddedRow(cut[c])
        BY <1>0, <2>1, <2>3, RowOfPadded
    <2>5. ASSUME NEW p \in Position PROVE Flat(cut, p) = IF p < n THEN Flat(rows, p) ELSE Zero
      <3> DEFINE c == p \div ChunkSize
                 k == p % ChunkSize
      <3>1. c \in Chunk /\ k \in Within /\ p = ChunkStart(c) + k
          BY PositionIs
      <3>2. Flat(cut, p) = cut[c].data[k] /\ Flat(rows, p) = rows[c].data[k]
          BY DEF Flat
      <3> HIDE DEF c, k
      <3>3. /\ p = c * ChunkSize + k /\ k \in Nat /\ k < ChunkSize /\ c \in Nat
            /\ c * ChunkSize \in Nat /\ last * ChunkSize \in Nat
            /\ n = last * ChunkSize + lastLen
          BY <2>1, <2>3, <3>1, Limits DEF ChunkStart, Within
      <3>4. CASE c > last
        <4>1. (last + 1) * ChunkSize <= c * ChunkSize /\ (last + 1) * ChunkSize = last * ChunkSize + ChunkSize
            BY <2>1, <3>3, <3>4, Limits, TimesMono
        <4>2. ~(p < n)
            BY <2>1, <3>3, <4>1, Limits
        <4> QED
            BY <1>0, <2>3, <3>1, <3>2, <3>4, <4>2
      <3>5. CASE c < last
        <4>1. (c + 1) * ChunkSize <= last * ChunkSize /\ (c + 1) * ChunkSize = c * ChunkSize + ChunkSize
            BY <2>1, <3>3, <3>5, Limits, TimesMono
        <4>2. p < n
            BY <2>1, <3>3, <4>1, Limits
        <4> QED
            BY <2>3, <3>1, <3>2, <3>5, <4>2
      <3>6. CASE c = last
        <4>1. p < n <=> k < lastLen
            BY <2>1, <3>3, <3>6
        <4>2. CASE rows[c].len > lastLen
          <5>0. cut[c] = RowOf(lastLen, rows[c].data)
              BY <2>3, <3>1, <3>6, <4>2
          <5>1. cut[c].data[k] = IF k < lastLen THEN rows[c].data[k] ELSE Zero
              BY <3>1, <5>0 DEF RowOf
          <5> QED
              BY <3>2, <4>1, <5>1
        <4>3. CASE ~(rows[c].len > lastLen)
          <5>1. cut[c] = rows[c] /\ rows[c].len \in Nat
              BY <2>3, <3>1, <3>6, <4>3
          <5>2. ~(k < lastLen) => rows[c].data[k] = Zero
              BY <2>1, <3>1, <3>3, <4>3, <5>1 DEF PaddedRow
          <5> QED
              BY <3>2, <4>1, <5>1, <5>2
        <4> QED
            BY <4>2, <4>3
      <3> QED
          BY <2>3, <3>1, <3>4, <3>5, <3>6
    <2> QED
        BY <2>4, <2>5 DEF cut
  <1> QED
      BY <1>1, <1>2, Limits

\* Every step keeps the padding.
LEMMA ContentStep == ContentInv /\ [Next]_vars => ContentInv'
  <1> SUFFICES ASSUME ContentInv, [Next]_vars PROVE ContentInv'
      OBVIOUS
  <1>0. BufferInv' /\ StateType /\ Padded
      BY BufferStep DEF ContentInv, BufferInv, StateInv
  <1>1. ASSUME stored' = stored PROVE Padded'
      BY <1>0, <1>1 DEF Padded
  <1>2. ASSUME NEW i \in Ino, FlushSlot(i) PROVE Padded'
    <2>1. \A j \in Ino : stored'[j] = IF j = i THEN FlushedRows(i) ELSE stored[j]
        BY <1>0, <1>2 DEF FlushSlot, StateType
    <2> QED
        BY <1>0, <2>1, FlushedPadded DEF Padded
  <1>3. ASSUME NEW i \in Ino, NEW n \in 0 .. MaxFileSize, TruncateLocked(i, n) PROVE Padded'
    <2>1. \A j \in Ino : stored'[j] = IF j = i THEN CutRows(FlushedRows(i), n) ELSE stored[j]
        BY <1>0, <1>3 DEF TruncateLocked, StateType
    <2>2. FlushedRows(i) \in [Chunk -> Row] /\ \A c \in Chunk : PaddedRow(FlushedRows(i)[c])
        BY <1>0, FlushedRowsType, FlushedPadded
    <2>3. \A c \in Chunk : PaddedRow(CutRows(FlushedRows(i), n)[c])
        BY <2>2, CutBytes
    <2> QED
        BY <1>0, <2>1, <2>3 DEF Padded
  <1>4. ASSUME NEW i \in Ino, NEW end \in 1 .. MaxFileSize, Fallocate(i, end) PROVE Padded'
    <2>1. end \in 0 .. MaxFileSize /\ TruncateLocked(i, end)
        BY <1>4, Limits DEF Fallocate
    <2> QED
        BY <1>3, <2>1
  <1>5. Padded'
    <2>1. CASE \E i \in Ino, off \in 0 .. (MaxFileSize - 1), data \in Payloads : WriteStart(i, off, data)
        BY <1>1, <2>1 DEF WriteStart, db
    <2>2. CASE WriteHit \/ WriteNew \/ WriteReturn \/ WriteEvictFail \/ WriteLoadFail
        BY <1>1, <2>2 DEF WriteHit, WriteNew, WriteReturn, WriteEvictFail, WriteLoadFail, db
    <2>3. CASE WriteEvict
        BY <1>2, <2>3 DEF WriteEvict, Victims
    <2>4. CASE \E i \in Ino : Flush(i)
        BY <1>2, <2>4 DEF Flush
    <2>5. CASE \E i \in Ino, n \in 0 .. MaxFileSize : Truncate(i, n)
        BY <1>3, <2>5 DEF Truncate
    <2>6. CASE \E i \in Ino, end \in 1 .. MaxFileSize : Fallocate(i, end)
        BY <1>4, <2>6
    <2>7. CASE Crash \/ UNCHANGED vars
        BY <1>1, <2>7 DEF Crash, vars, db
    <2> QED
        BY <2>1, <2>2, <2>3, <2>4, <2>5, <2>6, <2>7 DEF Next, WriteStep
  <1> QED
      BY <1>0, <1>5 DEF ContentInv

------------------------------------------------------------------------------
(* What each step does to the images *)

\* An inode whose rows and dirty chunks stay shows the same.
LEMMA SameRows ==
  ASSUME NEW i \in Ino, stored'[i] = stored[i], dirty'[i] = dirty[i],
         \A c \in Chunk : IsDirty(i, c) => /\ alen'[dirty[i][c]] = alen[dirty[i][c]]
                                           /\ abytes'[dirty[i][c]] = abytes[dirty[i][c]]
  PROVE  FlushedRows(i)' = FlushedRows(i)
  <1>1. \A c \in Chunk : IsDirty(i, c)' = IsDirty(i, c)
      BY DEF IsDirty
  <1>2. ASSUME NEW c \in Chunk
        PROVE  (IF IsDirty(i, c) THEN RowOf(alen[dirty[i][c]], abytes[dirty[i][c]]) ELSE stored[i][c])'
               = IF IsDirty(i, c) THEN RowOf(alen[dirty[i][c]], abytes[dirty[i][c]]) ELSE stored[i][c]
      BY <1>1 DEF RowOf
  <1> QED
      BY <1>2 DEF FlushedRows

\* Without dirty chunks a flush would store what is stored.
LEMMA CleanRows ==
  ASSUME NEW i \in Ino, dirty'[i] = NoDirty, stored'[i] \in [Chunk -> Row]
  PROVE  FlushedRows(i)' = stored'[i]
  <1>1. \A c \in Chunk : ~IsDirty(i, c)'
      BY DEF IsDirty, NoDirty
  <1> QED
      BY <1>1 DEF FlushedRows

\* flush_slot saves one file and shows the same.
LEMMA FlushShows ==
  ASSUME ContentInv, NEW i \in Ino, FlushSlot(i)
  PROVE  \A j \in Ino : /\ size'[j] = size[j] /\ FlushedRows(j)' = FlushedRows(j)
                        /\ dbsize'[j] = IF j = i THEN size[i] ELSE dbsize[j]
                        /\ stored'[j] = IF j = i THEN FlushedRows(i) ELSE stored[j]
  <1>0. StateType
      BY DEF ContentInv, BufferInv, StateInv
  <1>1. /\ \A j \in Ino : dirty'[j] = IF j = i THEN NoDirty ELSE dirty[j]
        /\ \A j \in Ino : stored'[j] = IF j = i THEN FlushedRows(i) ELSE stored[j]
        /\ \A j \in Ino : dbsize'[j] = IF j = i THEN size[i] ELSE dbsize[j]
        /\ size' = size /\ abytes' = abytes /\ alen' = alen
      BY <1>0 DEF FlushSlot, StateType
  <1>2. FlushedRows(i) \in [Chunk -> Row]
      BY <1>0, FlushedRowsType
  <1>3. FlushedRows(i)' = FlushedRows(i)
    <2>1. dirty'[i] = NoDirty /\ stored'[i] = FlushedRows(i)
        BY <1>1
    <2>2. stored'[i] \in [Chunk -> Row]
        BY <1>2, <2>1
    <2>3. FlushedRows(i)' = stored'[i]
        BY <2>1, <2>2, CleanRows
    <2> QED
        BY <2>1, <2>3
  <1>4. ASSUME NEW j \in Ino, j # i PROVE FlushedRows(j)' = FlushedRows(j)
    <2>1. dirty'[j] = dirty[j] /\ stored'[j] = stored[j]
        BY <1>1, <1>4
    <2> QED
        BY <1>1, <2>1, SameRows
  <1> QED
      BY <1>1, <1>3, <1>4

\* truncate_locked cuts what is shown, and saves it.
LEMMA TruncateShows ==
  ASSUME ContentInv, NEW i \in Ino, NEW n \in 0 .. MaxFileSize, TruncateLocked(i, n)
  PROVE  \A j \in Ino :
           /\ size'[j] = IF j = i THEN n ELSE size[j]
           /\ FlushedRows(j)' = IF j = i THEN CutRows(FlushedRows(i), n) ELSE FlushedRows(j)
           /\ dbsize'[j] = IF j = i THEN n ELSE dbsize[j]
           /\ stored'[j] = IF j = i THEN CutRows(FlushedRows(i), n) ELSE stored[j]
  <1> DEFINE cut == CutRows(FlushedRows(i), n)
  <1>0. StateType
      BY DEF ContentInv, BufferInv, StateInv
  <1>1. /\ \A j \in Ino : dirty'[j] = IF j = i THEN NoDirty ELSE dirty[j]
        /\ \A j \in Ino : stored'[j] = IF j = i THEN cut ELSE stored[j]
        /\ \A j \in Ino : dbsize'[j] = IF j = i THEN n ELSE dbsize[j]
        /\ \A j \in Ino : size'[j] = IF j = i THEN n ELSE size[j]
        /\ abytes' = abytes /\ alen' = alen
      BY <1>0 DEF TruncateLocked, StateType
  <1>2. cut \in [Chunk -> Row]
      BY <1>0, FlushedRowsType, CutRowsType
  <1> HIDE DEF cut
  <1>3. FlushedRows(i)' = cut
    <2>1. dirty'[i] = NoDirty /\ stored'[i] = cut
        BY <1>1
    <2>2. stored'[i] \in [Chunk -> Row]
        BY <1>2, <2>1
    <2>3. FlushedRows(i)' = stored'[i]
        BY <2>1, <2>2, CleanRows
    <2> QED
        BY <2>1, <2>3
  <1>4. ASSUME NEW j \in Ino, j # i PROVE FlushedRows(j)' = FlushedRows(j)
    <2>1. dirty'[j] = dirty[j] /\ stored'[j] = stored[j]
        BY <1>1, <1>4
    <2> QED
        BY <1>1, <2>1, SameRows
  <1> QED
      BY <1>1, <1>3, <1>4 DEF cut

\* After a crash the stored rows are shown.
LEMMA CrashShows ==
  ASSUME ContentInv, Crash
  PROVE  /\ stored' = stored /\ dbsize' = dbsize /\ size' = dbsize
         /\ \A j \in Ino : FlushedRows(j)' = stored[j]
  <1>0. StateType
      BY DEF ContentInv, BufferInv, StateInv
  <1>1. stored' = stored /\ dbsize' = dbsize /\ size' = dbsize /\ dirty' = [i \in Ino |-> NoDirty]
      BY DEF Crash, db
  <1>2. ASSUME NEW j \in Ino PROVE FlushedRows(j)' = stored[j]
    <2>1. dirty'[j] = NoDirty /\ stored'[j] \in [Chunk -> Row] /\ stored'[j] = stored[j]
        BY <1>0, <1>1 DEF StateType
    <2>2. FlushedRows(j)' = stored'[j]
        BY <2>1, CleanRows
    <2> QED
        BY <2>1, <2>2
  <1> QED
      BY <1>1, <1>2

\* The piece of the write in progress, byte by byte.
PieceByte(k) ==
  writing.data[BufStart(writing.off, writing.chunk) + (k - PieceStart(writing.off, writing.chunk)) + 1]
InPiece(k) ==
  /\ PieceStart(writing.off, writing.chunk) <= k
  /\ k < PieceEnd(writing.off, Len(writing.data), writing.chunk)

\* A slot holds a row, or is about to be covered as a whole.
Holds(row, bytes, len) ==
  \/ \A k \in Within : row.data[k] = IF k < len THEN bytes[k] ELSE Zero
  \/ len = 0 /\ \A k \in Within : InPiece(k)

\* ChunkArena::write lays the piece over the row: the gap it zeroes and the bytes
\* past its end read as before.
LEMMA PieceOverRow ==
  ASSUME ContentInv, InLoop, NEW row, NEW bytes, NEW len \in 0 .. ChunkSize, Holds(row, bytes, len),
         NEW k \in Within
  PROVE  RowOf(Larger(len, PieceEnd(writing.off, Len(writing.data), writing.chunk)),
               Overlaid(bytes, len, writing)).data[k]
         = IF InPiece(k) THEN PieceByte(k) ELSE row.data[k]
  <1> DEFINE from == PieceStart(writing.off, writing.chunk)
             to   == PieceEnd(writing.off, Len(writing.data), writing.chunk)
             new  == Overlaid(bytes, len, writing)
             m    == Larger(len, to)
  <1>0. /\ from \in Int /\ to \in 1 .. ChunkSize /\ from <= to
    <2>1. BufferInv
        BY DEF ContentInv
    <2>2. /\ writing.off \in 0 .. (MaxFileSize - 1) /\ Len(writing.data) \in Nat \ {0}
          /\ writing.off + Len(writing.data) <= MaxFileSize /\ writing.chunk \in Nat
          /\ SpanFirst(writing.off) <= writing.chunk
          /\ writing.chunk <= SpanLast(writing.off, Len(writing.data))
        BY <2>1, LoopPiece DEF InLoop, Chunk
    <2>3. from \in Within /\ to \in 1 .. ChunkSize /\ from < to
        BY <2>2, PieceBounds
    <2> QED
        BY <2>3, Limits DEF Within
  <1>1. new[k] = CASE InPiece(k) -> PieceByte(k)
                   [] len <= k /\ k < from -> Zero
                   [] OTHER -> bytes[k]
      BY DEF Overlaid, InPiece, PieceByte
  <1>2. RowOf(m, new).data[k] = IF k < m THEN new[k] ELSE Zero
      BY DEF RowOf
  <1>3. InPiece(k) <=> from <= k /\ k < to
      BY DEF InPiece
  <1>4. k \in Nat /\ k < ChunkSize
      BY Limits DEF Within
  <1>5. m = IF len >= to THEN len ELSE to
      BY DEF Larger
  <1> HIDE DEF from, to, new, m
  <1>6. CASE InPiece(k)
    <2>1. k < m
        BY <1>0, <1>3, <1>4, <1>5, <1>6
    <2>2. ~(len <= k /\ k < from)
        BY <1>0, <1>3, <1>4, <1>6
    <2>3. new[k] = PieceByte(k)
        BY <1>1, <1>6, <2>2
    <2>4. RowOf(m, new).data[k] = PieceByte(k)
        BY <1>2, <2>1, <2>3
    <2> QED
        BY <1>6, <2>4 DEF m, to, new
  <1>7. CASE ~InPiece(k)
    <2>1. row.data[k] = IF k < len THEN bytes[k] ELSE Zero
        BY <1>7 DEF Holds
    <2>2. RowOf(m, new).data[k] = row.data[k]
        BY <1>0, <1>1, <1>2, <1>3, <1>4, <1>5, <1>7, <2>1
    <2> QED
        BY <1>7, <2>2 DEF m, to, new
  <1> QED
      BY <1>6, <1>7

\* What a step of the write's loop shows.
Placed(i, c) ==
  /\ \A j \in Ino : size'[j] = IF j = i THEN Larger(size[j], AtEnd(writing)) ELSE size[j]
  /\ \A j \in Ino : j # i => FlushedRows(j)' = FlushedRows(j)
  /\ \A d \in Chunk : d # c => FlushedRows(i)'[d] = FlushedRows(i)[d]
  /\ \A k \in Within : FlushedRows(i)'[c].data[k] = IF InPiece(k) THEN PieceByte(k)
                                                     ELSE FlushedRows(i)[c].data[k]

\* The tail of write_slot's loop body, on the slot that the chunk has after it.
LEMMA PutShows ==
  ASSUME ContentInv, InLoop, NEW i \in Ino, NEW c \in Chunk, i = writing.ino, c = writing.chunk,
         NEW a \in ArenaSlot, NEW bytes \in [Within -> Byte],
         NEW len \in 0 .. ChunkSize, PutPiece(writing, a, bytes, len),
         Holds(FlushedRows(i)[c], bytes, len), stored' = stored,
         \A j \in Ino, d \in Chunk :
           IF j = i /\ d = c THEN dirty'[j][d] = a
           ELSE dirty'[j][d] = dirty[j][d] /\ dirty[j][d] # a
  PROVE  Placed(i, c)
  <1> DEFINE m == Larger(len, PieceEnd(writing.off, Len(writing.data), writing.chunk))
             new == Overlaid(bytes, len, writing)
  <1>0. StateType /\ BufferInv
      BY DEF ContentInv, BufferInv, StateInv
  <1>2. /\ abytes'[a] = new /\ alen'[a] = m
        /\ \A b \in ArenaSlot : b # a => abytes'[b] = abytes[b] /\ alen'[b] = alen[b]
        /\ \A j \in Ino : size'[j] = IF j = i THEN Larger(size[j], AtEnd(writing)) ELSE size[j]
      BY <1>0 DEF PutPiece, StateType
  <1>3. \A j \in Ino, d \in Chunk :
          FlushedRows(j)[d] = IF IsDirty(j, d) THEN RowOf(alen[dirty[j][d]], abytes[dirty[j][d]])
                              ELSE stored[j][d]
      BY DEF FlushedRows
  <1>4. \A j \in Ino, d \in Chunk :
          FlushedRows(j)'[d] = IF IsDirty(j, d)' THEN RowOf(alen'[dirty'[j][d]], abytes'[dirty'[j][d]])
                               ELSE stored[j][d]
      BY DEF FlushedRows, RowOf
  <1>5. ASSUME NEW j \in Ino, NEW d \in Chunk, ~(j = i /\ d = c)
        PROVE  FlushedRows(j)'[d] = FlushedRows(j)[d]
    <2>1. dirty'[j][d] = dirty[j][d] /\ dirty[j][d] # a
        BY <1>5
    <2>2. IsDirty(j, d)' = IsDirty(j, d)
        BY <2>1 DEF IsDirty
    <2>3. IsDirty(j, d) => dirty[j][d] \in ArenaSlot
        BY <1>0, SlotTypes
    <2> QED
        BY <1>2, <1>3, <1>4, <2>1, <2>2, <2>3
  <1>6. FlushedRows(i)'[c] = RowOf(m, new)
    <2>1. dirty'[i][c] = a /\ a # NoSlot
        BY <1>0, SlotTypes
    <2>2. IsDirty(i, c)'
        BY <2>1 DEF IsDirty
    <2> QED
        BY <1>2, <1>4, <2>1, <2>2
  <1>7. \A j \in Ino : j # i => FlushedRows(j)' = FlushedRows(j)
    <2> SUFFICES ASSUME NEW j \in Ino, j # i PROVE FlushedRows(j)' = FlushedRows(j)
        OBVIOUS
    <2>1. \A d \in Chunk : FlushedRows(j)'[d] = FlushedRows(j)[d]
        BY <1>5
    <2>2. FlushedRows(j) = [d \in Chunk |-> FlushedRows(j)[d]]
        BY DEF FlushedRows
    <2>3. FlushedRows(j)' = [d \in Chunk |-> FlushedRows(j)'[d]]
        BY DEF FlushedRows
    <2> QED
        BY <2>1, <2>2, <2>3
  <1>8. \A k \in Within : RowOf(m, new).data[k] = IF InPiece(k) THEN PieceByte(k)
                                                   ELSE FlushedRows(i)[c].data[k]
      BY PieceOverRow
  <1> QED
      BY <1>2, <1>5, <1>6, <1>7, <1>8 DEF Placed

\* A step of the loop of write_slot that puts a piece.
LEMMA WriteShows ==
  ASSUME ContentInv, WriteHit \/ WriteNew,
         NEW i \in Ino, NEW c \in Chunk, i = writing.ino, c = writing.chunk
  PROVE  /\ Placed(i, c) /\ stored' = stored /\ dbsize' = dbsize
         /\ writing' = [writing EXCEPT !.chunk = c + 1]
  <1>0. StateType /\ Conserved /\ StateInv /\ BufferInv
      BY DEF ContentInv, BufferInv, StateInv
  <1>1. InLoop /\ stored' = stored /\ dbsize' = dbsize
      BY DEF WriteHit, WriteNew, db
  <1>2. ASSUME NEW a, NEW bytes, NEW len, PutPiece(writing, a, bytes, len)
        PROVE  writing' = [writing EXCEPT !.chunk = c + 1]
      BY <1>2 DEF PutPiece
  <1>3. CASE WriteHit
    <2> DEFINE a == dirty[i][c]
    <2>1. IsDirty(i, c) /\ PutPiece(writing, a, abytes[a], alen[a]) /\ dirty' = dirty
        BY <1>3 DEF WriteHit
    <2>2. a \in ArenaSlot /\ abytes[a] \in [Within -> Byte] /\ alen[a] \in 0 .. ChunkSize
        BY <1>0, <2>1, SlotTypes
    <2>3. Holds(FlushedRows(i)[c], abytes[a], alen[a])
      <3>1. FlushedRows(i)[c] = RowOf(alen[a], abytes[a])
          BY <2>1 DEF FlushedRows
      <3> QED
          BY <3>1 DEF Holds, RowOf
    <2>4. \A j \in Ino, d \in Chunk :
            IF j = i /\ d = c THEN dirty'[j][d] = a
            ELSE dirty'[j][d] = dirty[j][d] /\ dirty[j][d] # a
        BY <1>0, <2>1 DEF Conserved, IsDirty
    <2>5. PICK b : b = a
        OBVIOUS
    <2> HIDE DEF a
    <2>6. /\ b \in ArenaSlot /\ abytes[b] \in [Within -> Byte] /\ alen[b] \in 0 .. ChunkSize
          /\ PutPiece(writing, b, abytes[b], alen[b]) /\ Holds(FlushedRows(i)[c], abytes[b], alen[b])
          /\ \A j \in Ino, d \in Chunk :
               IF j = i /\ d = c THEN dirty'[j][d] = b
               ELSE dirty'[j][d] = dirty[j][d] /\ dirty[j][d] # b
        BY <2>1, <2>2, <2>3, <2>4, <2>5
    <2>7. Placed(i, c)
        BY <1>1, <2>6, PutShows
    <2> QED
        BY <1>1, <1>2, <2>6, <2>7
  <1>4. CASE WriteNew
    <2> DEFINE row == stored[i][c]
    <2>1. PICK a \in Allocatable :
            /\ dirty' = [dirty EXCEPT ![i][c] = a]
            /\ IF IsFullChunk(writing.off, Len(writing.data), c)
               THEN PutPiece(writing, a, abytes[a], 0)
               ELSE PutPiece(writing, a, Loaded(row, abytes[a]), row.len)
        BY <1>4 DEF WriteNew
    <2>2. ~IsDirty(i, c)
        BY <1>4 DEF WriteNew
    <2>3. a \in ArenaSlot /\ abytes[a] \in [Within -> Byte] /\ \A j \in Ino, d \in Chunk : dirty[j][d] # a
        BY <1>0, AllocFacts, SlotTypes
    <2>4. \A j \in Ino, d \in Chunk :
            IF j = i /\ d = c THEN dirty'[j][d] = a
            ELSE dirty'[j][d] = dirty[j][d] /\ dirty[j][d] # a
        BY <1>0, <2>1, <2>3 DEF StateType
    <2>5. FlushedRows(i)[c] = row /\ row \in Row /\ row.len \in 0 .. ChunkSize
        BY <1>0, <2>2, SlotTypes DEF FlushedRows
    <2>6. CASE IsFullChunk(writing.off, Len(writing.data), c)
      <3>1. \A k \in Within : InPiece(k)
          BY <2>6, Limits DEF IsFullChunk, InPiece, Within
      <3>2. Holds(FlushedRows(i)[c], abytes[a], 0) /\ 0 \in 0 .. ChunkSize
          BY <3>1, Limits DEF Holds
      <3>3. PutPiece(writing, a, abytes[a], 0)
          BY <2>1, <2>6
      <3>4. Placed(i, c)
          BY <1>1, <2>3, <2>4, <3>2, <3>3, PutShows
      <3> QED
          BY <1>1, <1>2, <3>3, <3>4
    <2>7. CASE ~IsFullChunk(writing.off, Len(writing.data), c)
      <3> DEFINE bytes == Loaded(row, abytes[a])
                 len == row.len
      <3>1. bytes \in [Within -> Byte] /\ len \in 0 .. ChunkSize
          BY <2>3, <2>5 DEF Loaded, Row
      <3>2. Holds(FlushedRows(i)[c], bytes, len)
        <4>1. ASSUME NEW k \in Within PROVE row.data[k] = IF k < len THEN bytes[k] ELSE Zero
          <5>1. k \in Int /\ len \in Int
              BY <3>1, Limits DEF Within
          <5>2. k < len => bytes[k] = row.data[k]
              BY DEF Loaded
          <5>3. len <= k => row.data[k] = Zero
              BY DEF ContentInv, Padded, PaddedRow
          <5> HIDE DEF bytes, len, row
          <5> QED
              BY <5>1, <5>2, <5>3
        <4>2. Holds(row, bytes, len)
            BY <4>1 DEF Holds
        <4> QED
            BY <2>5, <4>2
      <3>3. PutPiece(writing, a, bytes, len)
          BY <2>1, <2>7
      <3>4. PICK x, n : x = bytes /\ n = len
          OBVIOUS
      <3> HIDE DEF bytes, len, row
      <3>5. /\ x \in [Within -> Byte] /\ n \in 0 .. ChunkSize /\ PutPiece(writing, a, x, n)
            /\ Holds(FlushedRows(i)[c], x, n)
          BY <3>1, <3>2, <3>3, <3>4
      <3>6. Placed(i, c)
          BY <1>1, <2>3, <2>4, <3>5, PutShows
      <3> QED
          BY <1>1, <1>2, <3>5, <3>6
    <2> QED
        BY <2>6, <2>7
  <1> QED
      BY <1>3, <1>4

\* A piece is the range of positions that the write places with its chunk.
LEMMA PieceSpan ==
  ASSUME ContentInv, InLoop, NEW c \in Chunk, c = writing.chunk
  PROVE  /\ PlacedUpto(writing) \in Position /\ AtEnd(writing) \in 1 .. MaxFileSize
         /\ writing.off <= PlacedUpto(writing)
         /\ PlacedUpto(writing) < AtEnd(writing)
         /\ AtEnd(writing) <= writing.off + Len(writing.data)
         /\ PlacedUpto([writing EXCEPT !.chunk = c + 1]) = AtEnd(writing)
         /\ \A p \in Position :
              /\ PlacedUpto(writing) <= p /\ p < AtEnd(writing)
                   <=> p \div ChunkSize = c /\ InPiece(p % ChunkSize)
              /\ p \div ChunkSize = c => PieceByte(p % ChunkSize) = writing.data[p - writing.off + 1]
  <1> DEFINE off == writing.off
             len == Len(writing.data)
             s == ChunkStart(c)
             f == SpanFirst(off)
             l == SpanLast(off, len)
             from == PieceStart(off, c)
             to == PieceEnd(off, len, c)
             w == [writing EXCEPT !.chunk = c + 1]
  <1>0. BufferInv /\ writing \in Job
      BY LoopPiece DEF ContentInv
  <1>1. /\ off \in 0 .. (MaxFileSize - 1) /\ len \in Nat \ {0} /\ off + len <= MaxFileSize
        /\ c \in Nat /\ f <= c /\ c <= l
      BY <1>0, LoopPiece DEF InLoop, Chunk
  <1>2. /\ f \in Nat /\ l \in Nat /\ ChunkStart(f) <= off /\ off < ChunkStart(f) + ChunkSize
        /\ ChunkStart(l) < off + len
      BY <1>1, SpanBounds DEF Chunk
  <1>3. /\ from = (IF off >= s THEN off ELSE s) - s
        /\ to = (IF off + len <= s + ChunkSize THEN off + len ELSE s + ChunkSize) - s
        /\ BufStart(off, c) = (IF off >= s THEN off ELSE s) - off
      BY DEF PieceStart, PieceEnd, BufStart, Larger, Smaller
  <1>4. /\ s \in Nat /\ from \in Within /\ to \in 1 .. ChunkSize /\ from < to
      BY <1>1, PieceBounds
  <1>5. s < off + len
    <2>1. c * ChunkSize <= l * ChunkSize
        BY <1>1, <1>2, Limits, TimesMono
    <2>2. ChunkStart(l) = l * ChunkSize /\ s = c * ChunkSize /\ l * ChunkSize \in Int
        BY <1>2, Limits DEF ChunkStart
    <2> HIDE DEF off, len, l, s
    <2> QED
        BY <1>1, <1>2, <1>4, <2>1, <2>2
  <1>6. AtEnd(writing) = s + to
      BY DEF AtEnd
  <1>7. PlacedUpto(writing) = s + from
    <2>1. PlacedUpto(writing) = IF c = f THEN off ELSE IF s <= off + len THEN s ELSE off + len
        BY DEF PlacedUpto, Smaller
    <2>2. CASE c = f
      <3>1. s <= off
          BY <1>2, <2>2
      <3> HIDE DEF off, len, s, f, from
      <3> QED
          BY <1>1, <1>3, <1>4, <2>1, <2>2, <3>1
    <2>3. CASE c # f
      <3>1. (f + 1) * ChunkSize <= c * ChunkSize
        <4>1. f + 1 \in Nat /\ c \in Nat /\ ChunkSize \in Nat /\ f + 1 <= c
            BY <1>1, <1>2, <2>3, Limits
        <4> HIDE DEF f
        <4> QED
            BY <4>1, TimesMono
      <3>2. ChunkStart(f) = f * ChunkSize /\ s = c * ChunkSize
            /\ (f + 1) * ChunkSize = f * ChunkSize + ChunkSize /\ f * ChunkSize \in Int
          BY <1>2, Limits DEF ChunkStart
      <3> HIDE DEF off, len, s, f, from
      <3>3. off < s
          BY <1>1, <1>2, <1>4, <3>1, <3>2, Limits
      <3> QED
          BY <1>1, <1>3, <1>4, <1>5, <2>1, <2>3, <3>3
    <2> QED
        BY <2>2, <2>3
  <1>8. PlacedUpto(w) = s + to
    <2>1. w.off = off /\ w.data = writing.data /\ w.chunk = c + 1
        BY <1>0 DEF Job
    <2>2. PlacedUpto(w) = IF c + 1 = f THEN off ELSE IF ChunkStart(c + 1) <= off + len
                                                    THEN ChunkStart(c + 1) ELSE off + len
        BY <2>1 DEF PlacedUpto, Smaller
    <2>3. c + 1 # f /\ ChunkStart(c + 1) = s + ChunkSize
        BY <1>1, <1>2, Limits DEF ChunkStart
    <2> HIDE DEF off, len, s, f, to, w
    <2> QED
        BY <1>1, <1>3, <1>4, <2>2, <2>3, Limits
  <1>9. /\ s + from \in Position /\ off <= s + from /\ s + from < s + to /\ s + to <= off + len
        /\ s + to \in 1 .. MaxFileSize
    <2>1. ChunkSize \in Nat /\ MaxFileSize \in Nat /\ from \in Nat
        BY <1>4, Limits DEF Within
    <2> HIDE DEF off, len, s, from, to
    <2> QED
        BY <1>1, <1>3, <1>4, <1>5, <2>1 DEF Position
  <1>10. ASSUME NEW p \in Position
         PROVE  /\ s + from <= p /\ p < s + to <=> p \div ChunkSize = c /\ InPiece(p % ChunkSize)
                /\ p \div ChunkSize = c => PieceByte(p % ChunkSize) = writing.data[p - off + 1]
    <2> DEFINE d == p \div ChunkSize
               k == p % ChunkSize
    <2>1. d \in Chunk /\ k \in Within /\ p = ChunkStart(d) + k
        BY PositionIs
    <2>2. InPiece(k) <=> from <= k /\ k < to
        BY DEF InPiece
    <2>3. PieceByte(k) = writing.data[BufStart(off, c) + (k - from) + 1]
        BY DEF PieceByte
    <2>4. d \in Nat /\ k \in Nat /\ k < ChunkSize /\ p \in Nat /\ from \in Nat /\ ChunkStart(d) \in Nat
        BY <1>4, <2>1, Limits DEF Chunk, Within, Position, ChunkStart
    <2>5. CASE d = c
      <3>1. p = s + k
          BY <2>1, <2>5
      <3>2. BufStart(off, c) + (k - from) + 1 = p - off + 1
        <4> HIDE DEF off, len, s, from, d, k
        <4> QED
            BY <1>1, <1>3, <1>4, <2>4, <3>1
      <3>3. s + from <= p /\ p < s + to <=> from <= k /\ k < to
        <4> HIDE DEF off, len, s, from, to, d, k
        <4> QED
            BY <1>4, <2>4, <3>1
      <3> QED
          BY <2>2, <2>3, <2>5, <3>2, <3>3
    <2>6. CASE d < c
      <3>1. (d + 1) * ChunkSize <= c * ChunkSize
        <4>1. d + 1 \in Nat /\ c \in Nat /\ ChunkSize \in Nat /\ d + 1 <= c
            BY <1>1, <2>4, <2>6, Limits
        <4> HIDE DEF d
        <4> QED
            BY <4>1, TimesMono
      <3>2. (d + 1) * ChunkSize = ChunkStart(d) + ChunkSize /\ s = c * ChunkSize
          BY <2>4, Limits DEF ChunkStart
      <3>3. p < s + from
        <4> HIDE DEF off, len, s, from, to, d, k
        <4> QED
            BY <1>4, <2>1, <2>4, <3>1, <3>2, Limits
      <3>4. ~(s + from <= p)
        <4> HIDE DEF off, len, s, from, to, d, k
        <4> QED
            BY <1>4, <2>4, <3>3
      <3> QED
          BY <1>1, <2>4, <2>6, <3>4
    <2>7. CASE d > c
      <3>1. (c + 1) * ChunkSize <= d * ChunkSize
        <4>1. c + 1 \in Nat /\ d \in Nat /\ ChunkSize \in Nat /\ c + 1 <= d
            BY <1>1, <2>4, <2>7, Limits
        <4> HIDE DEF d
        <4> QED
            BY <4>1, TimesMono
      <3>2. (c + 1) * ChunkSize = s + ChunkSize /\ ChunkStart(d) = d * ChunkSize
          BY <1>1, Limits DEF ChunkStart
      <3>3. ~(p < s + to)
        <4> HIDE DEF off, len, s, from, to, d, k
        <4> QED
            BY <1>4, <2>1, <2>4, <3>1, <3>2, Limits
      <3> QED
          BY <1>1, <2>4, <2>7, <3>3
    <2> QED
        BY <1>1, <2>4, <2>5, <2>6, <2>7
  <1> QED
      BY <1>6, <1>7, <1>8, <1>9, <1>10

------------------------------------------------------------------------------
(* Every step is a step of FileContents *)

\* What the files show after a step.
LEMMA NextImages ==
  ASSUME ContentInv, ContentInv'
  PROVE  \A j \in Ino : /\ ContentOf(j) = Image(size[j], FlushedRows(j))
                        /\ SavedOf(j) = Image(dbsize[j], stored[j])
                        /\ ContentOf(j)' = Image(size'[j], FlushedRows(j)')
                        /\ SavedOf(j)' = Image(dbsize'[j], stored'[j])
  <1>1. Shows /\ Shows'
      BY ImagesShown, ImagesShownNext
  <1> QED
      BY <1>1 DEF Shows, Image, Flat

\* The write as FileContents sees it.
LEMMA RequestIs ==
  ASSUME BufferInv
  PROVE  /\ writing = NoWrite => RequestOf(writing) = NoWrite
         /\ writing # NoWrite => RequestOf(writing) \in Request /\ RequestOf(writing) # NoWrite
  <1>1. SUFFICES ASSUME writing # NoWrite PROVE RequestOf(writing) \in Request
      BY NoWriteAssumption DEF RequestOf
  <1>2. /\ writing.ino \in Ino /\ writing.off \in 0 .. (MaxFileSize - 1)
        /\ writing.data \in Payloads /\ writing.chunk \in Nat
        /\ writing.off + Len(writing.data) <= MaxFileSize
      BY <1>1 DEF BufferInv, WriteFits, Job
  <1>3. Len(writing.data) \in Nat
      BY <1>2, BufferAssumption
  <1>4. ChunkStart(writing.chunk) \in Nat
      BY <1>2, Limits DEF ChunkStart
  <1>5. PlacedUpto(writing) \in 0 .. MaxFileSize
      BY <1>2, <1>3, <1>4, Limits DEF PlacedUpto, Smaller
  <1> QED
      BY <1>1, <1>2, <1>5 DEF RequestOf, Request

\* A step that shows and saves the same.
LEMMA SameImages ==
  ASSUME ContentInv, ContentInv', stored' = stored, dbsize' = dbsize, size' = size,
         \A j \in Ino : FlushedRows(j)' = FlushedRows(j)
  PROVE  /\ [i \in Ino |-> ContentOf(i)]' = [i \in Ino |-> ContentOf(i)]
         /\ [i \in Ino |-> SavedOf(i)]' = [i \in Ino |-> SavedOf(i)]
  <1>1. \A j \in Ino : ContentOf(j)' = ContentOf(j) /\ SavedOf(j)' = SavedOf(j)
      BY NextImages
  <1> QED
      BY <1>1

\* flush_slot is Save.
LEMMA FlushIsSave ==
  ASSUME ContentInv, ContentInv', NEW i \in Ino, FlushSlot(i), writing' = writing
  PROVE  Files!Save(i)
  <1>1. \A j \in Ino : /\ size'[j] = size[j] /\ FlushedRows(j)' = FlushedRows(j)
                       /\ dbsize'[j] = IF j = i THEN size[i] ELSE dbsize[j]
                       /\ stored'[j] = IF j = i THEN FlushedRows(i) ELSE stored[j]
      BY FlushShows
  <1>2. \A j \in Ino : /\ ContentOf(j)' = ContentOf(j)
                       /\ SavedOf(j)' = IF j = i THEN ContentOf(i) ELSE SavedOf(j)
      BY <1>1, NextImages
  <1>3. RequestOf(writing)' = RequestOf(writing)
      BY DEF RequestOf, PlacedUpto
  <1> QED
      BY <1>2, <1>3 DEF Files!Save

\* truncate_locked is Resize.
LEMMA TruncateIsResize ==
  ASSUME ContentInv, ContentInv', NEW i \in Ino, NEW n \in 0 .. MaxFileSize, TruncateLocked(i, n)
  PROVE  Files!Resize(i, n)
  <1> DEFINE cut == CutRows(FlushedRows(i), n)
  <1>1. \A j \in Ino : /\ size'[j] = IF j = i THEN n ELSE size[j]
                       /\ FlushedRows(j)' = IF j = i THEN cut ELSE FlushedRows(j)
                       /\ dbsize'[j] = IF j = i THEN n ELSE dbsize[j]
                       /\ stored'[j] = IF j = i THEN cut ELSE stored[j]
      BY TruncateShows
  <1>2. \A p \in Position : Flat(cut, p) = IF p < n THEN Flat(FlushedRows(i), p) ELSE Zero
    <2>1. FlushedRows(i) \in [Chunk -> Row] /\ \A c \in Chunk : PaddedRow(FlushedRows(i)[c])
        BY FlushedRowsType, FlushedPadded DEF ContentInv, BufferInv, StateInv
    <2> QED
        BY <2>1, CutBytes
  <1> HIDE DEF cut
  <1>3. Image(n, cut) = Files!Resized(ContentOf(i), n)
    <2>1. ContentOf(i) = Image(size[i], FlushedRows(i))
        BY NextImages
    <2>2. /\ ContentOf(i).data = [p \in Position |-> Flat(FlushedRows(i), p)]
          /\ Image(n, cut) = [size |-> n, data |-> [p \in Position |-> Flat(cut, p)]]
        BY <2>1 DEF Image
    <2>3. Files!Resized(ContentOf(i), n)
          = [size |-> n, data |-> [p \in Position |-> IF p < n THEN ContentOf(i).data[p] ELSE Zero]]
        BY DEF Files!Resized, Files!Position, Position
    <2>4. \A p \in Position : (IF p < n THEN ContentOf(i).data[p] ELSE Zero) = Flat(cut, p)
        BY <1>2, <2>2
    <2> QED
        BY <2>2, <2>3, <2>4
  <1>4. \A j \in Ino : /\ ContentOf(j)' = IF j = i THEN Image(n, cut) ELSE ContentOf(j)
                       /\ SavedOf(j)' = IF j = i THEN Image(n, cut) ELSE SavedOf(j)
      BY <1>1, NextImages
  <1>5. RequestOf(writing) = NoWrite /\ RequestOf(writing)' = NoWrite
      BY DEF TruncateLocked, RequestOf
  <1> QED
      BY <1>3, <1>4, <1>5 DEF Files!Resize

\* A crash is Lose.
LEMMA CrashIsLose == ASSUME ContentInv, ContentInv', Crash PROVE Files!Lose
  <1>1. /\ stored' = stored /\ dbsize' = dbsize /\ size' = dbsize
        /\ \A j \in Ino : FlushedRows(j)' = stored[j]
      BY CrashShows
  <1>2. \A j \in Ino : ContentOf(j)' = SavedOf(j) /\ SavedOf(j)' = SavedOf(j)
      BY <1>1, NextImages
  <1>3. RequestOf(writing)' = NoWrite
      BY DEF Crash, RequestOf
  <1> QED
      BY <1>2, <1>3 DEF Files!Lose

\* A write that returns, with an error or without, is End.
LEMMA ReturnIsEnd ==
  ASSUME ContentInv, ContentInv', WriteReturn \/ WriteEvictFail \/ WriteLoadFail
  PROVE  Files!End
  <1>0. StateInv /\ StateType
      BY DEF ContentInv, BufferInv, StateInv
  <1>1. writing # NoWrite /\ writing' = NoWrite
      BY DEF WriteReturn, WriteEvictFail, WriteLoadFail, NeedsSlot, InLoop
  <1>2. /\ stored' = stored /\ dbsize' = dbsize /\ size' = size /\ dirty' = dirty /\ abytes' = abytes
      BY DEF WriteReturn, WriteEvictFail, WriteLoadFail, db, arena
  <1>3. \A j \in Ino, c \in Chunk : IsDirty(j, c) => alen'[dirty[j][c]] = alen[dirty[j][c]]
    <2>1. CASE WriteReturn \/ WriteEvictFail
        BY <2>1 DEF WriteReturn, WriteEvictFail, arena
    <2>2. CASE WriteLoadFail
      <3>1. PICK a \in Allocatable : alen' = [alen EXCEPT ![a] = 0]
          BY <2>2 DEF WriteLoadFail
      <3>2. \A j \in Ino, c \in Chunk : dirty[j][c] # a
          BY <1>0, AllocFacts
      <3>3. \A j \in Ino, c \in Chunk : IsDirty(j, c) => dirty[j][c] \in ArenaSlot
          BY <1>0, SlotTypes
      <3> QED
          BY <1>0, <3>1, <3>2, <3>3 DEF StateType
    <2> QED
        BY <2>1, <2>2
  <1>4. \A j \in Ino : FlushedRows(j)' = FlushedRows(j)
      BY <1>2, <1>3, SameRows
  <1>5. /\ [i \in Ino |-> ContentOf(i)]' = [i \in Ino |-> ContentOf(i)]
        /\ [i \in Ino |-> SavedOf(i)]' = [i \in Ino |-> SavedOf(i)]
      BY <1>2, <1>4, SameImages
  <1>6. RequestOf(writing)' = NoWrite /\ RequestOf(writing) # NoWrite
    <2>1. RequestOf(writing)' = NoWrite
        BY <1>1 DEF RequestOf
    <2>2. RequestOf(writing) # NoWrite
        BY <1>1, RequestIs DEF ContentInv
    <2> QED
        BY <2>1, <2>2
  <1> QED
      BY <1>5, <1>6 DEF Files!End

\* The start of write_slot is Begin.
LEMMA StartIsBegin ==
  ASSUME ContentInv, ContentInv', NEW i \in Ino, NEW off \in 0 .. (MaxFileSize - 1),
         NEW data \in Payloads, WriteStart(i, off, data)
  PROVE  Files!Begin(i, off, data)
  <1>1. /\ writing = NoWrite /\ off + Len(data) <= MaxFileSize
        /\ writing' = [ino |-> i, off |-> off, data |-> data, chunk |-> SpanFirst(off)]
        /\ stored' = stored /\ dbsize' = dbsize /\ size' = size /\ dirty' = dirty
        /\ abytes' = abytes /\ alen' = alen
      BY DEF WriteStart, db, arena
  <1>2. \A j \in Ino : FlushedRows(j)' = FlushedRows(j)
      BY <1>1, SameRows
  <1>3. /\ [j \in Ino |-> ContentOf(j)]' = [j \in Ino |-> ContentOf(j)]
        /\ [j \in Ino |-> SavedOf(j)]' = [j \in Ino |-> SavedOf(j)]
      BY <1>1, <1>2, SameImages
  <1>4. RequestOf(writing) = NoWrite
      BY <1>1 DEF RequestOf
  <1>5. RequestOf(writing)' = [ino |-> i, off |-> off, data |-> data, upto |-> off]
    <2>1. writing' # NoWrite
      <3>1. SpanFirst(off) \in 0 .. MaxChunks
        <4>1. Len(data) \in Nat \ {0}
            BY BufferAssumption
        <4>2. SpanFirst(off) \in Chunk
            BY <1>1, <4>1, SpanBounds
        <4> QED
            BY <4>2, Limits DEF Chunk
      <3>2. writing' \in Job
          BY <1>1, <3>1 DEF Job
      <3> QED
          BY <3>2, NoWriteAssumption
    <2>2. PlacedUpto(writing)' = off
        BY <1>1 DEF PlacedUpto
    <2> QED
        BY <1>1, <2>1, <2>2 DEF RequestOf
  <1> QED
      BY <1>1, <1>3, <1>4, <1>5 DEF Files!Begin

\* A piece that is put is Place.
LEMMA PutIsPlace ==
  ASSUME ContentInv, ContentInv', WriteHit \/ WriteNew
  PROVE  \E to \in 1 .. MaxFileSize : Files!Place(to)
  <1>0. InLoop /\ BufferInv
      BY DEF WriteHit, WriteNew, ContentInv
  <1>0a. PICK i \in Ino, c \in Chunk : i = writing.ino /\ c = writing.chunk
      BY <1>0, LoopPiece
  <1>1. PICK to : i = writing.ino /\ c = writing.chunk /\ to = AtEnd(writing)
      BY <1>0a
  <1>2. /\ Placed(i, c) /\ stored' = stored /\ dbsize' = dbsize
        /\ writing' = [writing EXCEPT !.chunk = c + 1]
      BY <1>1, WriteShows
  <1> DEFINE r == RequestOf(writing)
             upto == PlacedUpto(writing)
  <1>3. /\ upto \in Position /\ to \in 1 .. MaxFileSize /\ upto < to
        /\ to <= writing.off + Len(writing.data)
        /\ PlacedUpto([writing EXCEPT !.chunk = c + 1]) = to
        /\ \A p \in Position :
             /\ upto <= p /\ p < to <=> p \div ChunkSize = c /\ InPiece(p % ChunkSize)
             /\ p \div ChunkSize = c => PieceByte(p % ChunkSize) = writing.data[p - writing.off + 1]
      BY <1>0, <1>1, PieceSpan
  <1>4. writing # NoWrite /\ writing \in Job
      BY <1>0, LoopPiece DEF InLoop
  <1>5. /\ r = [ino |-> i, off |-> writing.off, data |-> writing.data, upto |-> upto]
        /\ r # NoWrite
      BY <1>0, <1>1, <1>4, RequestIs DEF RequestOf
  <1>6. RequestOf(writing)' = [r EXCEPT !.upto = to]
    <2>1. writing' # NoWrite
      <3>1. WriteFits' /\ writing' \in Job \cup {NoWrite}
          BY DEF ContentInv, BufferInv
      <3>2. writing' \in Job
          BY <1>2, <1>4, Limits DEF Job, Chunk
      <3> QED
          BY <3>2, NoWriteAssumption
    <2>2. writing'.ino = i /\ writing'.off = writing.off /\ writing'.data = writing.data
        BY <1>1, <1>2, <1>4 DEF Job
    <2>3. PlacedUpto(writing)' = to
        BY <1>2, <1>3 DEF PlacedUpto
    <2>4. RequestOf(writing)' = [ino |-> i, off |-> writing.off, data |-> writing.data, upto |-> to]
        BY <2>1, <2>2, <2>3 DEF RequestOf
    <2> QED
        BY <1>5, <2>4
  <1>7. \A j \in Ino : SavedOf(j)' = SavedOf(j) /\ (j # i => ContentOf(j)' = ContentOf(j))
      BY <1>2, NextImages DEF Placed
  <1>8. ContentOf(i)' = Files!Written(ContentOf(i), r, to)
    <2> DEFINE f == ContentOf(i)
    <2>1. /\ f.size = size[i] /\ f.data = [p \in Position |-> Flat(FlushedRows(i), p)]
          /\ ContentOf(i)' = [size |-> size'[i],
                              data |-> [p \in Position |-> Flat(FlushedRows(i)', p)]]
        BY NextImages DEF Image
    <2>2. size'[i] = IF to > size[i] THEN to ELSE size[i]
      <3>1. size[i] \in Int
          BY SlotTypes DEF ContentInv, BufferInv, StateInv
      <3>2. size'[i] = Larger(size[i], to)
          BY <1>1, <1>2 DEF Placed
      <3> QED
          BY <1>3, <3>1, <3>2 DEF Larger
    <2>3. ASSUME NEW p \in Position
          PROVE  Flat(FlushedRows(i)', p) = IF upto <= p /\ p < to THEN writing.data[p - writing.off + 1]
                                            ELSE f.data[p]
      <3>1. p \div ChunkSize \in Chunk /\ p % ChunkSize \in Within
          BY PositionIs
      <3>2. f.data[p] = FlushedRows(i)[p \div ChunkSize].data[p % ChunkSize]
          BY <2>1 DEF Flat
      <3>3. Flat(FlushedRows(i)', p) = FlushedRows(i)'[p \div ChunkSize].data[p % ChunkSize]
          BY DEF Flat
      <3>4. CASE p \div ChunkSize = c
        <4>1. FlushedRows(i)'[c].data[p % ChunkSize]
              = IF InPiece(p % ChunkSize) THEN PieceByte(p % ChunkSize)
                ELSE FlushedRows(i)[c].data[p % ChunkSize]
            BY <1>2, <3>1 DEF Placed
        <4>2. upto <= p /\ p < to <=> InPiece(p % ChunkSize)
            BY <1>3, <3>4
        <4>3. PieceByte(p % ChunkSize) = writing.data[p - writing.off + 1]
            BY <1>3, <3>4
        <4> QED
            BY <3>2, <3>3, <3>4, <4>1, <4>2, <4>3
      <3>5. CASE p \div ChunkSize # c
        <4>1. FlushedRows(i)'[p \div ChunkSize] = FlushedRows(i)[p \div ChunkSize]
            BY <1>2, <3>1, <3>5 DEF Placed
        <4>2. ~(upto <= p /\ p < to)
            BY <1>3, <3>5
        <4> QED
            BY <3>2, <3>3, <4>1, <4>2
      <3> QED
          BY <3>4, <3>5
    <2>4. Files!Written(f, r, to)
          = [size |-> IF to > size[i] THEN to ELSE size[i],
             data |-> [p \in Position |-> IF upto <= p /\ p < to THEN writing.data[p - writing.off + 1]
                                          ELSE f.data[p]]]
        BY <1>5, <2>1 DEF Files!Written, Files!Position, Position
    <2> HIDE DEF f, upto, r
    <2> QED
        BY <2>1, <2>2, <2>3, <2>4 DEF f
  <1>9. [j \in Ino |-> ContentOf(j)]'
        = [[j \in Ino |-> ContentOf(j)] EXCEPT ![i] = Files!Written(ContentOf(i), r, to)]
    <2> HIDE DEF r
    <2> QED
        BY <1>7, <1>8
  <1>10. [j \in Ino |-> SavedOf(j)]' = [j \in Ino |-> SavedOf(j)]
      BY <1>7
  <1>11. r.ino = i /\ r.upto = upto /\ r.off = writing.off /\ r.data = writing.data
      BY <1>5
  <1>12. Files!Place(to)
    <2>1. [[j \in Ino |-> ContentOf(j)] EXCEPT ![i] = Files!Written(@, r, to)]
          = [[j \in Ino |-> ContentOf(j)] EXCEPT ![i] = Files!Written(ContentOf(i), r, to)]
        OBVIOUS
    <2> HIDE DEF r, upto
    <2> QED
        BY <1>3, <1>5, <1>6, <1>9, <1>10, <1>11, <2>1 DEF Files!Place, r
  <1> QED
      BY <1>3, <1>12

\* Files start empty.
LEMMA ContentInit == ASSUME Init PROVE ContentInv /\ Files!Init
  <1>1. PaddedRow(NoRow) /\ \A k \in Within : NoRow.data[k] = Zero
      BY RowOfPadded, Limits DEF NoRow, RowOf
  <1>2. ContentInv
      BY <1>1, BufferInit DEF ContentInv, Padded, Init
  <1>3. \A i \in Ino : /\ stored[i] = [c \in Chunk |-> NoRow] /\ size[i] = 0 /\ dbsize[i] = 0
                       /\ dirty[i] = NoDirty
      BY DEF Init
  <1>4. ASSUME NEW i \in Ino PROVE FlushedRows(i) = [c \in Chunk |-> NoRow]
    <2>1. \A c \in Chunk : ~IsDirty(i, c)
        BY <1>3 DEF IsDirty, NoDirty
    <2> QED
        BY <1>3, <2>1 DEF FlushedRows
  <1>5. Image(0, [c \in Chunk |-> NoRow]) = Files!Empty
    <2>1. \A p \in Position : Flat([c \in Chunk |-> NoRow], p) = Zero
        BY <1>1, PositionIs DEF Flat
    <2> QED
        BY <2>1 DEF Image, Files!Empty, Files!Position, Position
  <1>6. \A i \in Ino : ContentOf(i) = Files!Empty /\ SavedOf(i) = Files!Empty
    <2>1. Shows
        BY <1>2, ImagesShown
    <2> QED
        BY <1>3, <1>4, <1>5, <2>1 DEF Shows
  <1>7. RequestOf(writing) = NoWrite
      BY DEF Init, RequestOf
  <1> QED
      BY <1>2, <1>6, <1>7 DEF Files!Init

\* Each step of the write buffer is a step of the files, or none.
LEMMA RefineStep == ContentInv /\ [Next]_vars => [Files!Next]_(Files!vars)
  <1> SUFFICES ASSUME ContentInv, [Next]_vars PROVE [Files!Next]_(Files!vars)
      OBVIOUS
  <1>0. ContentInv'
      BY ContentStep
  <1>1. CASE \E i \in Ino, off \in 0 .. (MaxFileSize - 1), data \in Payloads : WriteStart(i, off, data)
    <2>1. PICK i \in Ino, off \in 0 .. (MaxFileSize - 1), data \in Payloads : WriteStart(i, off, data)
        BY <1>1
    <2>2. Files!Begin(i, off, data)
        BY <1>0, <2>1, StartIsBegin
    <2> QED
        BY <2>2 DEF Files!Next, Files!Position
  <1>2. CASE WriteHit \/ WriteNew
    <2>1. \E to \in 1 .. MaxFileSize : Files!Place(to)
        BY <1>0, <1>2, PutIsPlace
    <2> QED
        BY <2>1 DEF Files!Next
  <1>3. CASE WriteEvict
    <2>1. PICK i \in Ino : FlushSlot(i)
        BY <1>3 DEF WriteEvict, Victims
    <2>2. Files!Save(i)
        BY <1>0, <1>3, <2>1, FlushIsSave DEF WriteEvict
    <2> QED
        BY <2>2 DEF Files!Next
  <1>4. CASE WriteReturn \/ WriteEvictFail \/ WriteLoadFail
    <2>1. Files!End
        BY <1>0, <1>4, ReturnIsEnd
    <2> QED
        BY <2>1 DEF Files!Next
  <1>5. CASE \E i \in Ino : Flush(i)
    <2>1. PICK i \in Ino : Flush(i)
        BY <1>5
    <2>2. Files!Save(i)
        BY <1>0, <2>1, FlushIsSave DEF Flush
    <2> QED
        BY <2>2 DEF Files!Next
  <1>6. ASSUME NEW i \in Ino, NEW n \in 0 .. MaxFileSize, TruncateLocked(i, n) PROVE Files!Next
    <2>1. Files!Resize(i, n)
        BY <1>0, <1>6, TruncateIsResize
    <2> QED
        BY <2>1 DEF Files!Next
  <1>7. CASE \E i \in Ino, n \in 0 .. MaxFileSize : Truncate(i, n)
      BY <1>6, <1>7 DEF Truncate
  <1>8. CASE \E i \in Ino, end \in 1 .. MaxFileSize : Fallocate(i, end)
    <2>1. PICK i \in Ino, end \in 1 .. MaxFileSize : Fallocate(i, end)
        BY <1>8
    <2>2. end \in 0 .. MaxFileSize /\ TruncateLocked(i, end)
        BY <2>1, Limits DEF Fallocate
    <2> QED
        BY <1>6, <2>2
  <1>9. CASE Crash
    <2>1. Files!Lose
        BY <1>0, <1>9, CrashIsLose
    <2> QED
        BY <2>1 DEF Files!Next
  <1>10. CASE UNCHANGED vars
    <2>1. /\ stored' = stored /\ dbsize' = dbsize /\ size' = size /\ dirty' = dirty
          /\ abytes' = abytes /\ alen' = alen /\ writing' = writing
        BY <1>10 DEF vars
    <2>2. \A j \in Ino : FlushedRows(j)' = FlushedRows(j)
        BY <2>1, SameRows
    <2>3. /\ [j \in Ino |-> ContentOf(j)]' = [j \in Ino |-> ContentOf(j)]
          /\ [j \in Ino |-> SavedOf(j)]' = [j \in Ino |-> SavedOf(j)]
        BY <1>0, <2>1, <2>2, SameImages
    <2>4. RequestOf(writing)' = RequestOf(writing)
        BY <2>1 DEF RequestOf, PlacedUpto
    <2> QED
        BY <2>3, <2>4 DEF Files!vars
  <1> QED
      BY <1>1, <1>2, <1>3, <1>4, <1>5, <1>7, <1>8, <1>9, <1>10 DEF Next, WriteStep

\* The padding holds throughout.
LEMMA ContentAlways == Spec => []ContentInv
  <1>1. Init => ContentInv
      BY ContentInit
  <1> QED
      BY <1>1, ContentStep, PTL DEF Spec

\* Chunks, arena slots, evictions and two-step truncations are invisible: for any
\* chunk size, budget, files and payloads, what reads return and what a crash
\* leaves behind change as plain file images would (write_slot, alloc_chunk,
\* flush_slot, truncate_locked, read_slot).
THEOREM RefinesFileContents == Spec => ImplementsFileContents
  <1>1. Init => Files!Init
      BY ContentInit
  <1>2. Spec => []ContentInv
      BY ContentAlways
  <1>3. ContentInv /\ [Next]_vars => [Files!Next]_(Files!vars)
      BY RefineStep
  <1> QED
      BY <1>1, <1>2, <1>3, PTL DEF Spec, Files!Spec, ImplementsFileContents

\* Of file images c and a request r: the bytes placed so far are there.
BytesPlaced(c, r) ==
  r # NoWrite => \A p \in r.off .. (r.upto - 1) : c[r.ino].data[p] = r.data[p - r.off + 1]

FilesPlaced == BytesPlaced([i \in Ino |-> ContentOf(i)], RequestOf(writing))

\* FileContents keeps the bytes it has placed: nothing but the write itself changes
\* the content while it runs.
LEMMA PlacedStep == ContentInv /\ FilesPlaced /\ [Next]_vars => FilesPlaced'
  <1> SUFFICES ASSUME ContentInv, FilesPlaced, [Next]_vars PROVE FilesPlaced'
      OBVIOUS
  <1>0. [Files!Next]_(Files!vars) /\ ContentInv'
      BY RefineStep, ContentStep
  <1> DEFINE C == [i \in Ino |-> ContentOf(i)]
             R == RequestOf(writing)
  <1>1. PICK c, d, r, s : c = C /\ d = C' /\ r = R /\ s = R'
      OBVIOUS
  <1>2. BytesPlaced(c, r)
      BY <1>1 DEF FilesPlaced
  <1>3. SUFFICES BytesPlaced(d, s)
      BY <1>1 DEF FilesPlaced, BytesPlaced
  <1>4. r = NoWrite \/ r \in Request
      BY <1>1, RequestIs DEF ContentInv
  <1>5. c = [i \in Ino |-> c[i]]
      BY <1>1
  <1>6. CASE \E i \in Ino, off \in Files!Position, data \in Payloads : Files!Begin(i, off, data)
    <2>1. PICK i \in Ino, off \in Files!Position, data \in Payloads : Files!Begin(i, off, data)
        BY <1>6
    <2>2. s = [ino |-> i, off |-> off, data |-> data, upto |-> off]
        BY <1>1, <2>1 DEF Files!Begin
    <2>3. off \in Int
        BY Limits DEF Files!Position
    <2> QED
        BY <2>2, <2>3 DEF BytesPlaced
  <1>7. CASE \E to \in 1 .. MaxFileSize : Files!Place(to)
    <2>1. PICK to \in 1 .. MaxFileSize : Files!Place(to)
        BY <1>7
    <2>2. /\ r # NoWrite /\ r.upto < to
          /\ d = [c EXCEPT ![r.ino] = Files!Written(c[r.ino], r, to)]
          /\ s = [r EXCEPT !.upto = to]
        BY <1>1, <2>1 DEF Files!Place
    <2>3. /\ r.ino \in Ino /\ r.off \in 0 .. (MaxFileSize - 1) /\ r.upto \in 0 .. MaxFileSize
          /\ s.ino = r.ino /\ s.off = r.off /\ s.data = r.data /\ s.upto = to
        BY <1>4, <2>2 DEF Request
    <2>4. d[r.ino] = Files!Written(c[r.ino], r, to)
        BY <1>5, <2>2, <2>3
    <2>5. d[r.ino].data = [p \in Position |-> IF r.upto <= p /\ p < to THEN r.data[p - r.off + 1]
                                              ELSE c[r.ino].data[p]]
        BY <2>4 DEF Files!Written, Files!Position, Position
    <2>6. ASSUME NEW p \in r.off .. (to - 1) PROVE d[r.ino].data[p] = r.data[p - r.off + 1]
      <3>1. p \in Position /\ p \in Int
          BY <2>3, Limits DEF Position
      <3>2. CASE r.upto <= p
          BY <2>3, <2>5, <3>1, <3>2
      <3>3. CASE ~(r.upto <= p)
        <4>1. p \in r.off .. (r.upto - 1)
            BY <2>3, <3>1, <3>3
        <4>2. c[r.ino].data[p] = r.data[p - r.off + 1]
            BY <1>2, <2>2, <4>1 DEF BytesPlaced
        <4> QED
            BY <2>5, <3>1, <3>3, <4>2
      <3> QED
          BY <3>2, <3>3
    <2> QED
        BY <2>3, <2>6 DEF BytesPlaced
  <1>8. CASE Files!End \/ Files!Lose
    <2>1. s = NoWrite
        BY <1>1, <1>8 DEF Files!End, Files!Lose
    <2> QED
        BY <2>1 DEF BytesPlaced
  <1>9. CASE \E i \in Ino : Files!Save(i)
    <2>1. d = c /\ s = r
        BY <1>1, <1>9 DEF Files!Save
    <2> QED
        BY <1>2, <2>1
  <1>10. CASE \E i \in Ino, n \in 0 .. MaxFileSize : Files!Resize(i, n)
    <2>1. r = NoWrite /\ s = r
        BY <1>1, <1>10 DEF Files!Resize
    <2> QED
        BY <2>1 DEF BytesPlaced
  <1>11. CASE UNCHANGED Files!vars
    <2>1. d = c /\ s = r
        BY <1>1, <1>11 DEF Files!vars
    <2> QED
        BY <1>2, <2>1
  <1> QED
      BY <1>0, <1>6, <1>7, <1>8, <1>9, <1>10, <1>11 DEF Files!Next

\* The bytes a write has placed read back as written at every moment until it
\* returns, whatever it evicts in between, its own earlier chunks included
\* (write_slot, alloc_chunk).
THEOREM PlacedBytesSafe == Spec => []PlacedBytesReadBack
  <1>1. Init => FilesPlaced
    <2> SUFFICES ASSUME Init PROVE FilesPlaced
        OBVIOUS
    <2>1. RequestOf(writing) = NoWrite
        BY DEF Init, RequestOf
    <2> QED
        BY <2>1 DEF FilesPlaced, BytesPlaced
  <1>2. ContentInv /\ FilesPlaced => PlacedBytesReadBack
    <2> SUFFICES ASSUME ContentInv, FilesPlaced, writing # NoWrite,
                        NEW p \in writing.off .. (PlacedUpto(writing) - 1)
                 PROVE  ReadByte(writing.ino, p) = writing.data[p - writing.off + 1]
        BY DEF PlacedBytesReadBack
    <2>1. RequestOf(writing) \in Request /\ RequestOf(writing) # NoWrite
        BY RequestIs DEF ContentInv
    <2> DEFINE r == RequestOf(writing)
    <2>2. r.ino = writing.ino /\ r.off = writing.off /\ r.data = writing.data
          /\ r.upto = PlacedUpto(writing)
        BY DEF RequestOf
    <2>3. r.ino \in Ino /\ r.off \in 0 .. (MaxFileSize - 1) /\ r.upto \in 0 .. MaxFileSize
        BY <2>1 DEF Request
    <2>4. ContentOf(r.ino).data[p] = r.data[p - r.off + 1]
        BY <2>1, <2>2, <2>3 DEF FilesPlaced, BytesPlaced
    <2>5. p \in Position
        BY <2>2, <2>3, Limits DEF Position
    <2>6. ContentOf(r.ino).data[p] = ReadByte(r.ino, p)
        BY <2>5 DEF ContentOf
    <2> QED
        BY <2>2, <2>4, <2>6
  <1> QED
      BY <1>1, <1>2, ContentAlways, PlacedStep, PTL DEF Spec

------------------------------------------------------------------------------
(* Reads *)

\* A set of naturals has a least element.
LEMMA LeastOf ==
  ASSUME NEW T \in SUBSET Nat, T # {}
  PROVE  \E m \in T : \A n \in T : m <= n
  <1>1. PICK m \in T : \A n \in T : ~(<<n, m>> \in OpToRel(<, Nat))
      BY NatLessThanWellFounded, WFMin
  <1>2. ASSUME NEW n \in T PROVE m <= n
    <2>1. ~(n < m)
        BY <1>1 DEF OpToRel
    <2> QED
        BY <2>1
  <1> QED
      BY <1>2

\* Two functions that start alike and go on alike are alike.
LEMMA Agree ==
  ASSUME NEW first \in Nat, NEW last \in Nat, NEW g, NEW h, g[first - 1] = h[first - 1],
         \A c \in first .. last : g[c - 1] = h[c - 1] => g[c] = h[c]
  PROVE  \A c \in (first - 1) .. last : g[c] = h[c]
  <1> DEFINE T == {c \in first .. last : g[c] # h[c]}
  <1>1. CASE T = {}
      BY <1>1
  <1>2. CASE T # {}
    <2>1. T \subseteq Nat
        OBVIOUS
    <2>2. PICK m \in T : \A n \in T : m <= n
      <3> HIDE DEF T
      <3> QED
          BY <1>2, <2>1, LeastOf
    <2>3. m \in first .. last /\ g[m] # h[m]
        OBVIOUS
    <2>4. g[m - 1] = h[m - 1]
      <3>1. CASE m = first
          BY <3>1
      <3>2. CASE m # first
        <4>1. m - 1 \in first .. last /\ ~(m <= m - 1)
            BY <2>3, <3>2
        <4> QED
            BY <2>2, <4>1
      <3> QED
          BY <3>1, <3>2
    <2> QED
        BY <2>3, <2>4
  <1> QED
      BY <1>1, <1>2

\* The buffer out after chunk c, n bytes of it, has been copied over it.
Copied(off, len, c, bytes, n, out) ==
  [j \in 1 .. len |->
     IF (off + j - 1) \div ChunkSize = c /\ (off + j - 1) % ChunkSize < n
     THEN bytes[(off + j - 1) % ChunkSize] ELSE out[j]]

\* ChunkSpan::copy_out puts every valid byte of a chunk at its place in the buffer.
LEMMA CopyOutIs ==
  ASSUME NEW off \in Position, NEW len \in Nat \ {0}, off + len <= MaxFileSize, NEW c \in Chunk,
         NEW bytes, NEW n \in 0 .. ChunkSize, NEW out, DOMAIN out = 1 .. len
  PROVE  CopyOut(off, len, c, bytes, n, out)
         = Copied(off, len, c, bytes, n, out)
  <1> DEFINE from  == PieceStart(off, c)
             avail == Smaller(n, PieceEnd(off, len, c))
             at    == BufStart(off, c)
             s     == ChunkStart(c)
  <1>1. CopyOut(off, len, c, bytes, n, out)
        = [j \in 1 .. len |-> IF at < j /\ j <= at + (avail - from) THEN bytes[from + (j - 1 - at)]
                              ELSE out[j]]
      BY DEF CopyOut
  <1>2. /\ from = (IF off >= s THEN off ELSE s) - s /\ at = (IF off >= s THEN off ELSE s) - off
        /\ PieceEnd(off, len, c) = (IF off + len <= s + ChunkSize THEN off + len ELSE s + ChunkSize) - s
        /\ avail = IF n <= PieceEnd(off, len, c) THEN n ELSE PieceEnd(off, len, c)
      BY DEF PieceStart, PieceEnd, BufStart, Larger, Smaller
  <1>3. s \in Nat /\ off \in Nat /\ ChunkSize \in Nat /\ c \in Nat /\ n <= ChunkSize /\ n \in Nat
      BY Limits DEF ChunkStart, Chunk, Position
  <1>4. ASSUME NEW j \in 1 .. len
        PROVE  (IF at < j /\ j <= at + (avail - from) THEN bytes[from + (j - 1 - at)] ELSE out[j])
               = IF (off + j - 1) \div ChunkSize = c /\ (off + j - 1) % ChunkSize < n
                 THEN bytes[(off + j - 1) % ChunkSize] ELSE out[j]
    <2> DEFINE p == off + j - 1
               d == p \div ChunkSize
               k == p % ChunkSize
    <2>1. p \in Position /\ p \in Nat /\ off <= p /\ p < off + len
        BY Limits DEF Position
    <2>2. d \in Chunk /\ k \in Within /\ p = ChunkStart(d) + k
        BY <2>1, PositionIs
    <2>3. d \in Nat /\ k \in Nat /\ k < ChunkSize /\ ChunkStart(d) \in Nat
      <3> HIDE DEF d, k
      <3> QED
          BY <2>2, Limits DEF Chunk, Within, ChunkStart
    <2>4. at < j /\ j <= at + (avail - from) <=> s <= p /\ p < s + n /\ p < s + ChunkSize
      <3> HIDE DEF from, avail, at, s
      <3> QED
          BY <1>2, <1>3, <2>1
    <2>5. from + (j - 1 - at) = p - s
      <3> HIDE DEF from, avail, at, s
      <3> QED
          BY <1>2, <1>3, <2>1
    <2>6. s <= p /\ p < s + ChunkSize <=> d = c
      <3>1. CASE d = c
        <4>1. p = s + k
            BY <2>2, <3>1
        <4> HIDE DEF s, p, d, k
        <4> QED
            BY <1>3, <2>3, <3>1, <4>1
      <3>2. CASE d < c
        <4>1. d + 1 \in Nat /\ c \in Nat /\ ChunkSize \in Nat /\ d + 1 <= c
            BY <1>3, <2>3, <3>2
        <4>2. (d + 1) * ChunkSize <= c * ChunkSize
          <5> HIDE DEF d
          <5> QED
              BY <4>1, TimesMono
        <4>3. (d + 1) * ChunkSize = ChunkStart(d) + ChunkSize /\ s = c * ChunkSize
            BY <2>3, Limits DEF ChunkStart
        <4> HIDE DEF s, p, d, k
        <4> QED
            BY <1>3, <2>1, <2>2, <2>3, <3>2, <4>2, <4>3
      <3>3. CASE d > c
        <4>1. c + 1 \in Nat /\ d \in Nat /\ ChunkSize \in Nat /\ c + 1 <= d
            BY <1>3, <2>3, <3>3
        <4>2. (c + 1) * ChunkSize <= d * ChunkSize
          <5> HIDE DEF d
          <5> QED
              BY <4>1, TimesMono
        <4>3. (c + 1) * ChunkSize = s + ChunkSize /\ ChunkStart(d) = d * ChunkSize
            BY <1>3, Limits DEF ChunkStart
        <4> HIDE DEF s, p, d, k
        <4> QED
            BY <1>3, <2>1, <2>2, <2>3, <3>3, <4>2, <4>3
      <3> QED
          BY <1>3, <2>3, <3>1, <3>2, <3>3
    <2>7. d = c => p = s + k
        BY <2>2
    <2>8. at < j /\ j <= at + (avail - from) <=> d = c /\ k < n
      <3> HIDE DEF from, avail, at, s, p, d, k
      <3> QED
          BY <1>3, <2>1, <2>3, <2>4, <2>6, <2>7
    <2>9. d = c => from + (j - 1 - at) = k
      <3> HIDE DEF from, avail, at, s, p, d, k
      <3> QED
          BY <1>3, <2>3, <2>5, <2>7
    <2> HIDE DEF from, avail, at, s
    <2> QED
        BY <2>8, <2>9
  <1> HIDE DEF from, avail, at, s
  <1> QED
      BY <1>1, <1>4 DEF Copied

\* The same, for every argument.
LEMMA CopyOutAll ==
  \A off \in Position, len \in Nat \ {0} : off + len <= MaxFileSize =>
    \A c \in Chunk, n \in 0 .. ChunkSize : \A bytes, out : DOMAIN out = 1 .. len =>
      CopyOut(off, len, c, bytes, n, out) = Copied(off, len, c, bytes, n, out)
  <1> TAKE off \in Position, len \in Nat \ {0}
  <1> HAVE off + len <= MaxFileSize
  <1> TAKE c \in Chunk, n \in 0 .. ChunkSize
  <1> TAKE bytes, out
  <1> HAVE DOMAIN out = 1 .. len
  <1> QED
      BY CopyOutIs

\* Division is monotonic.
LEMMA DivMono ==
  ASSUME NEW a \in Nat, NEW b \in Nat, NEW d \in Nat \ {0}, a <= b
  PROVE  a \div d <= b \div d
  <1> DEFINE x == a \div d
             y == b \div d
  <1>1. /\ x \in Nat /\ y \in Nat /\ d * x <= a /\ b < d * y + d
      BY DivFacts
  <1> HIDE DEF x, y
  <1>2. ASSUME y < x PROVE FALSE
    <2>1. y + 1 \in Nat /\ d \in Nat /\ y + 1 <= x
        BY <1>1, <1>2
    <2>2. (y + 1) * d <= x * d
        BY <1>1, <2>1, TimesMono
    <2>3. (y + 1) * d = d * y + d /\ x * d = d * x /\ d * x \in Int /\ d * y \in Int
        BY <1>1
    <2> QED
        BY <1>1, <2>2, <2>3
  <1>3. x <= y
      BY <1>1, <1>2
  <1> QED
      BY <1>3 DEF x, y

\* The bytes of a read lie in the chunks of its span.
LEMMA ReadSpan ==
  ASSUME NEW off \in Position, NEW len \in Nat \ {0}, off + len <= MaxFileSize
  PROVE  /\ SpanFirst(off) \in Nat /\ SpanLast(off, len) \in Nat
         /\ SpanFirst(off) <= SpanLast(off, len)
         /\ SpanFirst(off) .. SpanLast(off, len) \subseteq Chunk
         /\ \A j \in 1 .. len :
              /\ off + j - 1 \in Position
              /\ (off + j - 1) \div ChunkSize \in SpanFirst(off) .. SpanLast(off, len)
              /\ (off + j - 1) % ChunkSize \in Within
  <1> DEFINE f == SpanFirst(off)
             l == SpanLast(off, len)
  <1>1. f \in Chunk /\ l \in Chunk /\ f <= l
      BY SpanBounds DEF Position
  <1>2. f \in Nat /\ l \in Nat /\ f .. l \subseteq Chunk
      BY <1>1, Limits DEF Chunk
  <1>3. ASSUME NEW j \in 1 .. len
        PROVE  /\ off + j - 1 \in Position /\ (off + j - 1) % ChunkSize \in Within
               /\ (off + j - 1) \div ChunkSize \in f .. l
    <2> DEFINE p == off + j - 1
    <2>1. p \in Position /\ p \in Nat /\ off \in Nat /\ off <= p /\ p <= off + len - 1
          /\ off + len - 1 \in Nat
        BY Limits DEF Position
    <2>2. p \div ChunkSize \in Chunk /\ p % ChunkSize \in Within
        BY <2>1, PositionIs
    <2>3. off \div ChunkSize <= p \div ChunkSize
      <3> HIDE DEF p
      <3> QED
          BY <2>1, Limits, DivMono
    <2>4. p \div ChunkSize <= (off + len - 1) \div ChunkSize
      <3> DEFINE e == off + len - 1
      <3>1. e \in Nat /\ p <= e
          BY <2>1
      <3> HIDE DEF p, e
      <3>2. p \div ChunkSize <= e \div ChunkSize
          BY <2>1, <3>1, Limits, DivMono
      <3> QED
          BY <3>2 DEF e
    <2>5. f = off \div ChunkSize /\ l = (off + len - 1) \div ChunkSize
        BY DEF SpanFirst, SpanLast
    <2>6. p \div ChunkSize \in Nat
        BY <2>2 DEF Chunk
    <2> HIDE DEF p, f, l
    <2> QED
        BY <1>2, <2>1, <2>2, <2>3, <2>4, <2>5, <2>6 DEF p
  <1> QED
      BY <1>1, <1>2, <1>3

\* One pass of read_slot over the chunks of its span, as an equation: base, and over
\* it b[c] (n[c] bytes of it) for every chunk c with s[c].
Pass(off, len, base, s, n, b, g) ==
  [c \in (SpanFirst(off) - 1) .. SpanLast(off, len) |->
     IF c < SpanFirst(off) THEN base
     ELSE IF s[c] THEN CopyOut(off, len, c, b[c], n[c], g[c - 1]) ELSE g[c - 1]]

\* The buffer when the chunks up to c have had their turn.
Filled(off, len, x, y) ==
  [c \in (SpanFirst(off) - 1) .. SpanLast(off, len) |->
     [j \in 1 .. len |-> IF (off + j - 1) \div ChunkSize <= c THEN y[j] ELSE x[j]]]

\* y has the bytes of the chunks that are copied, and those of x elsewhere.
Turns(off, len, x, s, n, b, y) ==
  /\ \A c \in Chunk : s[c] => n[c] \in 0 .. ChunkSize
  /\ x = [j \in 1 .. len |-> x[j]] /\ y = [j \in 1 .. len |-> y[j]]
  /\ \A j \in 1 .. len :
       y[j] = IF s[(off + j - 1) \div ChunkSize]
                 /\ (off + j - 1) % ChunkSize < n[(off + j - 1) \div ChunkSize]
              THEN b[(off + j - 1) \div ChunkSize][(off + j - 1) % ChunkSize] ELSE x[j]

\* A pass turns x into y when y has the bytes of the chunks that are copied and the
\* bytes of x elsewhere; and the equation determines what the pass returns.
LEMMA PassFills ==
  ASSUME NEW off \in Position, NEW len \in Nat \ {0}, off + len <= MaxFileSize,
         NEW s, NEW n, NEW b, NEW x, NEW y,
         Turns(off, len, x, s, n, b, y)
  PROVE  /\ Filled(off, len, x, y) = Pass(off, len, x, s, n, b, Filled(off, len, x, y))
         /\ \A h : h = Pass(off, len, x, s, n, b, h) => h[SpanLast(off, len)] = y
  <1> DEFINE g == Filled(off, len, x, y)
             f == SpanFirst(off)
             l == SpanLast(off, len)
             D(j) == (off + j - 1) \div ChunkSize
             K(j) == (off + j - 1) % ChunkSize
             Row0(c) == [j \in 1 .. len |-> IF D(j) <= c THEN y[j] ELSE x[j]]
             Turn(c, r) == IF s[c] THEN CopyOut(off, len, c, b[c], n[c], r) ELSE r
  <1>1. /\ f \in Nat /\ l \in Nat /\ f <= l /\ f .. l \subseteq Chunk
        /\ \A j \in 1 .. len : D(j) \in f .. l /\ D(j) \in Int /\ K(j) \in Within
      BY ReadSpan
  <1>2. g = [c \in (f - 1) .. l |-> Row0(c)]
      BY DEF Filled
  <1>3. Row0(f - 1) = x
    <2>1. \A j \in 1 .. len : ~(D(j) <= f - 1)
        BY <1>1
    <2> HIDE DEF D
    <2> QED
        BY <2>1 DEF Turns
  <1>4. Row0(l) = y
    <2>1. \A j \in 1 .. len : D(j) <= l
        BY <1>1
    <2> HIDE DEF D
    <2> QED
        BY <2>1 DEF Turns
  <1>5. ASSUME NEW c \in f .. l
        PROVE  Row0(c) = Turn(c, Row0(c - 1))
    <2>1. c \in Chunk /\ c \in Int
        BY <1>1
    <2>2. PICK out : out = Row0(c - 1)
        OBVIOUS
    <2>3. DOMAIN out = 1 .. len /\ \A j \in 1 .. len : out[j] = IF D(j) <= c - 1 THEN y[j] ELSE x[j]
        BY <2>2
    <2>4. \A j \in 1 .. len : D(j) # c => (D(j) <= c <=> D(j) <= c - 1)
        BY <1>1, <2>1
    <2>5. \A j \in 1 .. len : D(j) = c => D(j) <= c /\ ~(D(j) <= c - 1)
        BY <1>1, <2>1
    <2>6. \A j \in 1 .. len : y[j] = IF s[D(j)] /\ K(j) < n[D(j)] THEN b[D(j)][K(j)] ELSE x[j]
        BY DEF Turns
    <2>7. out = [j \in 1 .. len |-> out[j]]
        BY <2>2
    <2>8. CASE s[c]
      <3>1. n[c] \in 0 .. ChunkSize
          BY <2>1, <2>8 DEF Turns
      <3>1a. PICK m \in 0 .. ChunkSize : m = n[c]
          BY <3>1
      <3>2. PICK bytes : m = n[c] /\ bytes = b[c]
          BY <3>1a
      <3>3. CopyOut(off, len, c, bytes, m, out)
            = [j \in 1 .. len |-> IF D(j) = c /\ K(j) < m THEN bytes[K(j)] ELSE out[j]]
        <4>1. c \in Chunk /\ off \in Position /\ len \in Nat \ {0} /\ m \in 0 .. ChunkSize
            BY <2>1
        <4>2. DOMAIN out = 1 .. len
            BY <2>3
        <4>3. off + len <= MaxFileSize
            OBVIOUS
        <4>4. CopyOut(off, len, c, bytes, m, out) = Copied(off, len, c, bytes, m, out)
            BY <4>1, <4>2, <4>3, CopyOutAll
        <4> QED
            BY <4>4 DEF Copied
      <3> HIDE DEF D, K
      <3>4. \A j \in 1 .. len : (IF D(j) <= c THEN y[j] ELSE x[j])
                                = IF D(j) = c /\ K(j) < m THEN bytes[K(j)] ELSE out[j]
          BY <2>3, <2>4, <2>5, <2>6, <2>8, <3>2
      <3>5. Row0(c) = [j \in 1 .. len |-> IF D(j) = c /\ K(j) < m THEN bytes[K(j)] ELSE out[j]]
          BY <3>4
      <3> HIDE DEF Row0
      <3> QED
          BY <2>2, <2>8, <3>2, <3>3, <3>5
    <2>9. CASE ~s[c]
      <3> HIDE DEF D, K
      <3>1. \A j \in 1 .. len : (IF D(j) <= c THEN y[j] ELSE x[j]) = out[j]
          BY <2>3, <2>4, <2>5, <2>6, <2>9
      <3>2. Row0(c) = [j \in 1 .. len |-> out[j]]
          BY <3>1
      <3> HIDE DEF Row0
      <3> QED
          BY <2>2, <2>7, <2>9, <3>2
    <2> QED
        BY <2>8, <2>9
  <1> HIDE DEF Row0
  <1>6. g = Pass(off, len, x, s, n, b, g)
    <2>1. \A c \in (f - 1) .. l : c < f => c = f - 1
        BY <1>1
    <2>2. \A c \in (f - 1) .. l : ~(c < f) => c \in f .. l /\ c - 1 \in (f - 1) .. l
        BY <1>1
    <2> HIDE DEF f, l, g
    <2>3. \A c \in (f - 1) .. l : Row0(c) = IF c < f THEN x ELSE Turn(c, g[c - 1])
      <3> SUFFICES ASSUME NEW c \in (f - 1) .. l
                   PROVE  Row0(c) = IF c < f THEN x ELSE Turn(c, g[c - 1])
          OBVIOUS
      <3> HIDE DEF Turn
      <3>1. CASE c < f
          BY <1>3, <2>1, <3>1
      <3>2. CASE ~(c < f)
        <4>1. c \in f .. l /\ g[c - 1] = Row0(c - 1)
            BY <1>2, <2>2, <3>2
        <4> QED
            BY <1>5, <3>2, <4>1
      <3> QED
          BY <3>1, <3>2
    <2>4. g = [c \in (f - 1) .. l |-> IF c < f THEN x ELSE Turn(c, g[c - 1])]
      <3> HIDE DEF Turn
      <3> QED
          BY <1>2, <2>3
    <2> QED
        BY <2>4 DEF Pass, f, l
  <1>7. ASSUME NEW h, h = Pass(off, len, x, s, n, b, h) PROVE h[l] = y
    <2> HIDE DEF g
    <2>1. \A e : e = Pass(off, len, x, s, n, b, e) =>
            \A c \in (f - 1) .. l : e[c] = IF c < f THEN x ELSE Turn(c, e[c - 1])
        BY DEF Pass
    <2>2. h[f - 1] = g[f - 1]
      <3>1. f - 1 \in (f - 1) .. l /\ f - 1 < f
          BY <1>1
      <3> HIDE DEF f, l, Turn
      <3> QED
          BY <1>6, <1>7, <2>1, <3>1
    <2>3. \A c \in f .. l : h[c - 1] = g[c - 1] => h[c] = g[c]
      <3>1. \A c \in f .. l : c \in (f - 1) .. l /\ ~(c < f)
          BY <1>1
      <3> HIDE DEF f, l, Turn
      <3> QED
          BY <1>6, <1>7, <2>1, <3>1
    <2>4. \A c \in (f - 1) .. l : h[c] = g[c]
      <3>1. PICK u \in Nat, v \in Nat : u = f /\ v = l /\ u <= v
          BY <1>1
      <3> HIDE DEF f, l
      <3>2. /\ h[u - 1] = g[u - 1]
            /\ \A c \in u .. v : h[c - 1] = g[c - 1] => h[c] = g[c]
          BY <2>2, <2>3, <3>1
      <3>3. \A c \in (u - 1) .. v : h[c] = g[c]
          BY <3>1, <3>2, Agree
      <3> QED
          BY <3>1, <3>3
    <2>5. l \in (f - 1) .. l
        BY <1>1
    <2> HIDE DEF f, l
    <2> QED
        BY <1>2, <1>4, <2>4, <2>5
  <1> QED
      BY <1>6, <1>7

\* The first pass copies the stored rows over zeros.
LEMMA StoredTurns ==
  ASSUME ContentInv, NEW i \in Ino, NEW off \in Position, NEW len \in Nat \ {0},
         off + len <= MaxFileSize
  PROVE  Turns(off, len, [j \in 1 .. len |-> Zero], [c \in Chunk |-> TRUE],
               [c \in Chunk |-> stored[i][c].len], [c \in Chunk |-> stored[i][c].data],
               [j \in 1 .. len |-> Flat(stored[i], off + j - 1)])
  <1>0. StateType /\ Padded
      BY DEF ContentInv, BufferInv, StateInv
  <1>1. ASSUME NEW c \in Chunk PROVE stored[i][c].len \in 0 .. ChunkSize
      BY <1>0, <1>1, SlotTypes
  <1>2. ASSUME NEW j \in 1 .. len
        PROVE  Flat(stored[i], off + j - 1)
               = IF (off + j - 1) % ChunkSize < stored[i][(off + j - 1) \div ChunkSize].len
                 THEN stored[i][(off + j - 1) \div ChunkSize].data[(off + j - 1) % ChunkSize]
                 ELSE Zero
    <2> DEFINE d == (off + j - 1) \div ChunkSize
               k == (off + j - 1) % ChunkSize
    <2>1. off + j - 1 \in Position
        BY ReadSpan
    <2>2. d \in Chunk /\ k \in Within
        BY <2>1, PositionIs
    <2>3. Flat(stored[i], off + j - 1) = stored[i][d].data[k]
        BY DEF Flat
    <2> HIDE DEF d, k
    <2>4. k \in Int /\ stored[i][d].len \in Int
        BY <1>1, <2>2, Limits DEF Within
    <2>5. stored[i][d].len <= k => stored[i][d].data[k] = Zero
        BY <1>0, <2>2 DEF Padded, PaddedRow
    <2>6. Flat(stored[i], off + j - 1) = IF k < stored[i][d].len THEN stored[i][d].data[k] ELSE Zero
        BY <2>3, <2>4, <2>5
    <2> QED
        BY <2>6 DEF d, k
  <1>3. \A j \in 1 .. len : (off + j - 1) \div ChunkSize \in Chunk
      BY ReadSpan, PositionIs
  <1> QED
      BY <1>1, <1>2, <1>3 DEF Turns

\* The second pass copies the dirty chunks over the stored rows; what comes out are
\* the bytes of the file.
LEMMA DirtyTurns ==
  ASSUME ContentInv, NEW i \in Ino, NEW off \in Position, NEW len \in Nat \ {0},
         off + len <= size[i]
  PROVE  Turns(off, len, [j \in 1 .. len |-> Flat(stored[i], off + j - 1)],
               [c \in Chunk |-> IsDirty(i, c)],
               [c \in Chunk |-> alen[dirty[i][c]]], [c \in Chunk |-> abytes[dirty[i][c]]],
               [j \in 1 .. len |-> ReadByte(i, off + j - 1)])
  <1>0. StateType
      BY DEF ContentInv, BufferInv, StateInv
  <1>1. ASSUME NEW c \in Chunk, IsDirty(i, c) PROVE alen[dirty[i][c]] \in 0 .. ChunkSize
      BY <1>0, <1>1, SlotTypes
  <1>2. size[i] \in Nat /\ size[i] <= MaxFileSize /\ off + len <= MaxFileSize
      BY <1>0, Limits DEF StateType, Position
  <1>3. \A j \in 1 .. len : /\ off + j - 1 \in Position
                            /\ (off + j - 1) \div ChunkSize \in Chunk
                            /\ ~(off + j - 1 >= size[i])
    <2>1. \A j \in 1 .. len : off + j - 1 \in Position
        BY <1>2, ReadSpan
    <2>2. \A j \in 1 .. len : ~(off + j - 1 >= size[i])
        BY <1>2, Limits DEF Position
    <2> QED
        BY <2>1, <2>2, PositionIs
  <1>4. ASSUME NEW j \in 1 .. len
        PROVE  ReadByte(i, off + j - 1)
               = IF IsDirty(i, (off + j - 1) \div ChunkSize)
                    /\ (off + j - 1) % ChunkSize < alen[dirty[i][(off + j - 1) \div ChunkSize]]
                 THEN abytes[dirty[i][(off + j - 1) \div ChunkSize]][(off + j - 1) % ChunkSize]
                 ELSE Flat(stored[i], off + j - 1)
    <2> DEFINE p == off + j - 1
    <2>1. ~(p >= size[i])
        BY <1>3
    <2> HIDE DEF p
    <2>2. ReadByte(i, p)
          = IF IsDirty(i, p \div ChunkSize) /\ p % ChunkSize < alen[dirty[i][p \div ChunkSize]]
            THEN abytes[dirty[i][p \div ChunkSize]][p % ChunkSize] ELSE Flat(stored[i], p)
        BY <2>1 DEF ReadByte, Flat
    <2> QED
        BY <2>2 DEF p
  <1> QED
      BY <1>1, <1>3, <1>4 DEF Turns

\* read_slot returns the bytes of the file, as many as there are.
LEMMA ReadSlotIs ==
  ASSUME ContentInv, NEW i \in Ino, NEW off \in Position, NEW n \in 1 .. MaxFileSize
  PROVE  ReadSlot(i, off, n) =
           [j \in 1 .. Smaller(n, Larger(size[i] - off, 0)) |-> ReadByte(i, off + j - 1)]
  <1>0. /\ StateType /\ size[i] \in Nat /\ size[i] <= MaxFileSize /\ off \in Nat /\ n \in Nat \ {0}
    <2>1. StateType
        BY DEF ContentInv, BufferInv, StateInv
    <2> QED
        BY <2>1, Limits DEF StateType, Position
  <1>1. CASE off >= size[i]
    <2>1. Smaller(n, Larger(size[i] - off, 0)) = 0
        BY <1>0, <1>1 DEF Smaller, Larger
    <2>2. 1 .. 0 = {}
        OBVIOUS
    <2>3. [j \in 1 .. 0 |-> ReadByte(i, off + j - 1)] = <<>>
        BY <2>2
    <2>4. ReadSlot(i, off, n) = <<>>
        BY <1>1 DEF ReadSlot
    <2> QED
        BY <2>1, <2>3, <2>4
  <1>2. CASE ~(off >= size[i])
    <2> DEFINE len   == Smaller(n, size[i] - off)
               first == SpanFirst(off)
               last  == SpanLast(off, len)
               fromDb[c \in (first - 1) .. last] ==
                 IF c < first THEN [j \in 1 .. len |-> Zero]
                 ELSE CopyOut(off, len, c, stored[i][c].data, stored[i][c].len, fromDb[c - 1])
               overlaid[c \in (first - 1) .. last] ==
                 IF c < first THEN fromDb[last]
                 ELSE IF IsDirty(i, c)
                 THEN CopyOut(off, len, c, abytes[dirty[i][c]], alen[dirty[i][c]], overlaid[c - 1])
                 ELSE overlaid[c - 1]
    <2>1. ReadSlot(i, off, n) = overlaid[last]
        BY <1>2 DEF ReadSlot
    <2>2. /\ len \in Nat \ {0} /\ off + len <= size[i] /\ off + len <= MaxFileSize
          /\ Smaller(n, Larger(size[i] - off, 0)) = len
      <3>1. PICK z \in Nat : z = size[i]
          BY <1>0
      <3>2. len = IF n <= z - off THEN n ELSE z - off
          BY <3>1 DEF Smaller
      <3>3. Smaller(n, Larger(size[i] - off, 0)) = len
          BY <1>0, <1>2, <3>1 DEF Smaller, Larger
      <3> HIDE DEF len
      <3>4. /\ len \in Nat \ {0} /\ off + len <= z
          BY <1>0, <1>2, <3>1, <3>2
      <3>5. off + len <= MaxFileSize
          BY <1>0, <3>1, <3>4, Limits
      <3> QED
          BY <3>1, <3>3, <3>4, <3>5
    <2> HIDE DEF len
    <2>3. /\ first \in Nat /\ last \in Nat /\ first <= last /\ first .. last \subseteq Chunk
        BY <2>2, ReadSpan
    <2>4. \A c \in (first - 1) .. last : ~(c < first) => c \in Chunk
      <3>1. \A c \in (first - 1) .. last : ~(c < first) => c \in first .. last
          BY <2>3
      <3> HIDE DEF first, last
      <3> QED
          BY <2>3, <3>1
    <2> DEFINE zeros == [j \in 1 .. len |-> Zero]
               rows  == [j \in 1 .. len |-> Flat(stored[i], off + j - 1)]
               bytes == [j \in 1 .. len |-> ReadByte(i, off + j - 1)]
               all   == [c \in Chunk |-> TRUE]
               slen  == [c \in Chunk |-> stored[i][c].len]
               sdata == [c \in Chunk |-> stored[i][c].data]
               ds    == [c \in Chunk |-> IsDirty(i, c)]
               dlen  == [c \in Chunk |-> alen[dirty[i][c]]]
               ddata == [c \in Chunk |-> abytes[dirty[i][c]]]
    <2>5. \A g : Pass(off, len, zeros, all, slen, sdata, g)
                 = [c \in (first - 1) .. last |->
                      IF c < first THEN [j \in 1 .. len |-> Zero]
                      ELSE CopyOut(off, len, c, stored[i][c].data, stored[i][c].len, g[c - 1])]
      <3> HIDE DEF fromDb, overlaid
      <3> QED
          BY <2>4 DEF Pass
    <2>6. fromDb[last] = rows
      <3>1. Turns(off, len, zeros, all, slen, sdata, rows)
          BY <2>2, StoredTurns
      <3> HIDE DEF zeros, rows, all, slen, sdata
      <3>2. /\ Filled(off, len, zeros, rows)
               = Pass(off, len, zeros, all, slen, sdata, Filled(off, len, zeros, rows))
            /\ \A h : h = Pass(off, len, zeros, all, slen, sdata, h) => h[SpanLast(off, len)] = rows
          BY <2>2, <3>1, PassFills
      <3>3. fromDb = CHOOSE g : g = [c \in (first - 1) .. last |->
                      IF c < first THEN [j \in 1 .. len |-> Zero]
                      ELSE CopyOut(off, len, c, stored[i][c].data, stored[i][c].len, g[c - 1])]
          BY DEF fromDb
      <3>4. \E g : g = [c \in (first - 1) .. last |->
                      IF c < first THEN [j \in 1 .. len |-> Zero]
                      ELSE CopyOut(off, len, c, stored[i][c].data, stored[i][c].len, g[c - 1])]
          BY <2>5, <3>2
      <3> HIDE DEF fromDb, first, last
      <3>5. fromDb = [c \in (first - 1) .. last |->
                      IF c < first THEN [j \in 1 .. len |-> Zero]
                      ELSE CopyOut(off, len, c, stored[i][c].data, stored[i][c].len, fromDb[c - 1])]
          BY <3>3, <3>4
      <3>6. fromDb = Pass(off, len, zeros, all, slen, sdata, fromDb)
          BY <2>5, <3>5
      <3> QED
          BY <3>2, <3>6 DEF last
    <2>7. ASSUME NEW base
          PROVE  \A g : Pass(off, len, base, ds, dlen, ddata, g)
                 = [c \in (first - 1) .. last |->
                      IF c < first THEN base
                      ELSE IF IsDirty(i, c)
                      THEN CopyOut(off, len, c, abytes[dirty[i][c]], alen[dirty[i][c]], g[c - 1])
                      ELSE g[c - 1]]
      <3> HIDE DEF fromDb, overlaid
      <3> QED
          BY <2>4 DEF Pass
    <2>8. overlaid[last] = bytes
      <3>1. Turns(off, len, rows, ds, dlen, ddata, bytes)
          BY <2>2, DirtyTurns
      <3> HIDE DEF rows, bytes, ds, dlen, ddata, fromDb
      <3>2. /\ Filled(off, len, rows, bytes)
               = Pass(off, len, rows, ds, dlen, ddata, Filled(off, len, rows, bytes))
            /\ \A h : h = Pass(off, len, rows, ds, dlen, ddata, h) => h[SpanLast(off, len)] = bytes
          BY <2>2, <3>1, PassFills
      <3>3. overlaid = CHOOSE g : g = [c \in (first - 1) .. last |->
                      IF c < first THEN fromDb[last]
                      ELSE IF IsDirty(i, c)
                      THEN CopyOut(off, len, c, abytes[dirty[i][c]], alen[dirty[i][c]], g[c - 1])
                      ELSE g[c - 1]]
          BY DEF overlaid
      <3>4. \E g : g = [c \in (first - 1) .. last |->
                      IF c < first THEN fromDb[last]
                      ELSE IF IsDirty(i, c)
                      THEN CopyOut(off, len, c, abytes[dirty[i][c]], alen[dirty[i][c]], g[c - 1])
                      ELSE g[c - 1]]
        <4> HIDE DEF overlaid, first, last
        <4> QED
          BY <2>6, <2>7, <3>2
      <3> HIDE DEF overlaid, first, last
      <3>5. overlaid = [c \in (first - 1) .. last |->
                      IF c < first THEN fromDb[last]
                      ELSE IF IsDirty(i, c)
                      THEN CopyOut(off, len, c, abytes[dirty[i][c]], alen[dirty[i][c]], overlaid[c - 1])
                      ELSE overlaid[c - 1]]
          BY <3>3, <3>4
      <3>6. overlaid = Pass(off, len, rows, ds, dlen, ddata, overlaid)
        <4>1. Pass(off, len, fromDb[last], ds, dlen, ddata, overlaid)
              = [c \in (first - 1) .. last |->
                      IF c < first THEN fromDb[last]
                      ELSE IF IsDirty(i, c)
                      THEN CopyOut(off, len, c, abytes[dirty[i][c]], alen[dirty[i][c]], overlaid[c - 1])
                      ELSE overlaid[c - 1]]
            BY <2>7, Zenon
        <4>2. overlaid = Pass(off, len, fromDb[last], ds, dlen, ddata, overlaid)
            BY <3>5, <4>1, Zenon
        <4> QED
            BY <2>6, <4>2
      <3> QED
          BY <3>2, <3>6 DEF last
    <2> HIDE DEF overlaid, fromDb, first, last
    <2> QED
        BY <2>1, <2>2, <2>8
  <1> QED
      BY <1>1, <1>2

\* Reads, whatever their offset and length, return the bytes of the file: the span
\* arithmetic, the zeroed buffer and the two passes of read_slot lose none, make none up
\* and stop at the size.
THEOREM ReadsSafe == Spec => []ReadsReturnContent
  <1>1. ContentInv => ReadsReturnContent
      BY ReadSlotIs DEF ReadsReturnContent
  <1> QED
      BY <1>1, ContentAlways, PTL
==============================================================================
