----------------------------- MODULE WriteBuffer -----------------------------
(***************************************************************************)
(* Buffered file data: the chunk arena (src/arena.rs), the write, read,    *)
(* flush, eviction and truncation paths of the FUSE layer (src/fuse.rs)    *)
(* and the rows they leave in file_chunks and inodes.size (src/db.rs).     *)
(*                                                                         *)
(* Every operation holds the table lock from start to end, so operations   *)
(* do not interleave.  A write is nevertheless a sequence of steps, one    *)
(* per chunk and one per eviction, because it can fail, or the process can *)
(* die, between any two of them: `writing` is the write that holds the     *)
(* lock.                                                                   *)
(*                                                                         *)
(* Not here: handles, unlinked inodes and the life of a slot (OpenTable).  *)
(* An inode without a slot has no dirty chunk and its size is the stored   *)
(* one, which is what `size` says for it.                                  *)
(*                                                                         *)
(* A definition whose comment begins "Faulty" is a wrong variant of the    *)
(* one after it; no specification uses it.  Each shows that a property of  *)
(* this module would notice that mistake in the code.                      *)
(***************************************************************************)
EXTENDS ChunkSpan, Sequences, FiniteSets

CONSTANTS Ino,       \* regular files
          MaxSlots,  \* arena slots in the write buffer budget
          Byte,      \* byte values
          Zero,      \* the byte of a hole
          Payloads,  \* the buffers a write may carry
          NoWrite    \* value of `writing` when the lock is free

ASSUME BufferAssumption ==
  /\ MaxSlots \in Nat \ {0}
  /\ Zero \in Byte
  /\ Payloads \subseteq Seq(Byte) \ {<<>>}

VARIABLES stored,   \* file_chunks: stored[i][c] is the row of chunk c of inode i
          dbsize,   \* inodes.size
          size,     \* OpenInodes.size
          dirty,    \* DirtyIdx: dirty[i][c] is the arena slot of a dirty chunk
          abytes,   \* ChunkArena.bytes, slot by slot
          alen,     \* ChunkArena.len
          free,     \* ChunkArena.free, as a set: any free slot may be popped
          grown,    \* slots reserved so far (ChunkArena.len.len())
          writing   \* the write in progress, with the next chunk it will touch

db    == <<stored, dbsize>>
arena == <<abytes, alen, free, grown>>
vars  == <<stored, dbsize, size, dirty, abytes, alen, free, grown, writing>>

ArenaSlot == 0 .. (MaxSlots - 1)
NoSlot    == -1

Job == [ino : Ino, off : 0 .. (MaxFileSize - 1), data : Payloads,
        chunk : 0 .. MaxChunks]

\* The write as FileContents sees it.
Request == [ino : Ino, off : 0 .. (MaxFileSize - 1), data : Payloads, upto : 0 .. MaxFileSize]

ASSUME NoWriteAssumption == NoWrite \notin Job \cup Request

\* A chunk row: its length and bytes.  Length 0 stands for no row; positions
\* past the length are Zero so that equal rows are equal values.
RowOf(len, bytes) ==
  [len  |-> len,
   data |-> [k \in Within |-> IF k < len THEN bytes[k] ELSE Zero]]

NoRow == RowOf(0, [k \in Within |-> Zero])

IsDirty(i, c)  == dirty[i][c] # NoSlot
DirtyChunks(i) == {c \in Chunk : IsDirty(i, c)}
NoDirty        == [c \in Chunk |-> NoSlot]

Init ==
  /\ stored  = [i \in Ino |-> [c \in Chunk |-> NoRow]]
  /\ dbsize  = [i \in Ino |-> 0]
  /\ size    = [i \in Ino |-> 0]
  /\ dirty   = [i \in Ino |-> NoDirty]
  /\ abytes  = [a \in ArenaSlot |-> [k \in Within |-> Zero]]
  /\ alen    = [a \in ArenaSlot |-> 0]
  /\ free    = {}
  /\ grown   = 0
  /\ writing = NoWrite

------------------------------------------------------------------------------
(* The arena *)

\* ChunkArena::alloc: a freed slot if there is one, else the next slot of the
\* budget, else none.
Allocatable ==
  IF free # {} THEN free ELSE {a \in ArenaSlot : a = grown}

\* Faulty: a reused slot counted as a new one.
ReservedTwice(a) == grown + 1

Reserved(a) == IF a = grown THEN grown + 1 ELSE grown

\* Faulty: the gap before the piece keeps the bytes of the slot's last user.
OverlaidStale(bytes, len, w) ==
  LET from == PieceStart(w.off, w.chunk)
      to   == PieceEnd(w.off, Len(w.data), w.chunk)
  IN  [k \in Within |->
         IF from <= k /\ k < to
         THEN w.data[BufStart(w.off, w.chunk) + (k - from) + 1]
         ELSE bytes[k]]

\* Faulty: every piece is taken from the start of the buffer.
OverlaidFromStart(bytes, len, w) ==
  LET from == PieceStart(w.off, w.chunk)
      to   == PieceEnd(w.off, Len(w.data), w.chunk)
  IN  [k \in Within |->
         CASE from <= k /\ k < to  -> w.data[(k - from) + 1]
           [] len <= k /\ k < from -> Zero
           [] OTHER                -> bytes[k]]

\* ChunkArena::write, on a slot that holds bytes, len of them valid: the piece
\* of chunk c in write w, with the gap before it zeroed.
Overlaid(bytes, len, w) ==
  LET from == PieceStart(w.off, w.chunk)
      to   == PieceEnd(w.off, Len(w.data), w.chunk)
  IN  [k \in Within |->
         CASE from <= k /\ k < to  -> w.data[BufStart(w.off, w.chunk) + (k - from) + 1]
           [] len <= k /\ k < from -> Zero
           [] OTHER                -> bytes[k]]

\* Db::read_chunk_into: the stored bytes over whatever the reused slot held.
Loaded(row, bytes) ==
  [k \in Within |-> IF k < row.len THEN row.data[k] ELSE bytes[k]]

------------------------------------------------------------------------------
(* Flushing *)

\* Db::replace_chunks: the rows of inode i after its dirty chunks are upserted.
FlushedRows(i) ==
  [c \in Chunk |->
     IF IsDirty(i, c) THEN RowOf(alen[dirty[i][c]], abytes[dirty[i][c]])
                      ELSE stored[i][c]]

\* Faulty: the chunks are stored but stay dirty.
FlushSlotKeep(i) ==
  /\ stored' = [stored EXCEPT ![i] = FlushedRows(i)]
  /\ dbsize' = [dbsize EXCEPT ![i] = size[i]]
  /\ UNCHANGED <<dirty, free, size, abytes, alen, grown>>

\* flush_slot, when the transaction commits: rows and size are stored together
\* and the arena slots released.  When it fails nothing changes.
FlushSlot(i) ==
  /\ stored' = [stored EXCEPT ![i] = FlushedRows(i)]
  /\ dbsize' = [dbsize EXCEPT ![i] = size[i]]
  /\ dirty'  = [dirty EXCEPT ![i] = NoDirty]
  /\ free'   = free \cup {dirty[i][c] : c \in DirtyChunks(i)}
  /\ UNCHANGED <<size, abytes, alen, grown>>

\* flush, fsync, release and setattr of a linked file.
Flush(i) ==
  /\ writing = NoWrite
  /\ DirtyChunks(i) # {}
  /\ FlushSlot(i)
  /\ UNCHANGED writing

------------------------------------------------------------------------------
(* Writing *)

\* write_slot up to its loop: EFBIG is the guard.
WriteStart(i, off, data) ==
  /\ writing = NoWrite
  /\ off + Len(data) <= MaxFileSize
  /\ writing' = [ino |-> i, off |-> off, data |-> data, chunk |-> SpanFirst(off)]
  /\ UNCHANGED <<db, size, dirty, arena>>

\* The loop of write_slot has a chunk left to do.
InLoop == writing # NoWrite /\ writing.chunk <= SpanLast(writing.off, Len(writing.data))

\* The end, in the file, of the piece the loop is at.
AtEnd(w) == ChunkStart(w.chunk) + PieceEnd(w.off, Len(w.data), w.chunk)

\* Faulty: the size grows only with the last chunk of the write.
PutPieceLateSize(w, a, bytes, len) ==
  /\ abytes'  = [abytes EXCEPT ![a] = Overlaid(bytes, len, w)]
  /\ alen'    = [alen EXCEPT ![a] =
                   Larger(len, PieceEnd(w.off, Len(w.data), w.chunk))]
  /\ size'    = IF w.chunk = SpanLast(w.off, Len(w.data))
                THEN [size EXCEPT ![w.ino] = Larger(@, AtEnd(w))]
                ELSE size
  /\ writing' = [w EXCEPT !.chunk = @ + 1]

\* The tail of the loop body: copy the piece into slot a (which holds bytes,
\* len of them valid), grow the size, go to the next chunk.
PutPiece(w, a, bytes, len) ==
  /\ abytes'  = [abytes EXCEPT ![a] = Overlaid(bytes, len, w)]
  /\ alen'    = [alen EXCEPT ![a] =
                   Larger(len, PieceEnd(w.off, Len(w.data), w.chunk))]
  /\ size'    = [size EXCEPT ![w.ino] = Larger(@, AtEnd(w))]
  /\ writing' = [w EXCEPT !.chunk = @ + 1]

\* The chunk is already dirty.
WriteHit ==
  /\ InLoop
  /\ IsDirty(writing.ino, writing.chunk)
  /\ LET a == dirty[writing.ino][writing.chunk]
     IN  PutPiece(writing, a, abytes[a], alen[a])
  /\ UNCHANGED <<db, dirty, free, grown>>

\* The chunk needs a slot and gets one.  A piece that does not cover the chunk
\* is laid over the stored bytes; one that does starts from length 0.
WriteNew ==
  /\ InLoop
  /\ ~IsDirty(writing.ino, writing.chunk)
  /\ \E a \in Allocatable :
       LET row  == stored[writing.ino][writing.chunk]
           full == IsFullChunk(writing.off, Len(writing.data), writing.chunk)
       IN  /\ free'  = free \ {a}
           /\ grown' = Reserved(a)
           /\ dirty' = [dirty EXCEPT ![writing.ino][writing.chunk] = a]
           /\ IF full THEN PutPiece(writing, a, abytes[a], 0)
                      ELSE PutPiece(writing, a, Loaded(row, abytes[a]), row.len)
  /\ UNCHANGED db

\* Faulty: the inode being written is never chosen.
VictimsButWriter ==
  {v \in Ino : /\ DirtyChunks(v) # {}
               /\ v # writing.ino
               /\ \A u \in Ino \ {writing.ino} :
                    Cardinality(DirtyChunks(u)) <= Cardinality(DirtyChunks(v))}

\* OpenInodes::largest_dirty: any inode with the most dirty chunks, at least one.
Victims ==
  {v \in Ino : /\ DirtyChunks(v) # {}
               /\ \A u \in Ino : Cardinality(DirtyChunks(u)) <= Cardinality(DirtyChunks(v))}

\* The budget is used up: alloc_chunk flushes a victim, possibly the inode
\* being written, and tries again.
NeedsSlot ==
  /\ InLoop
  /\ ~IsDirty(writing.ino, writing.chunk)
  /\ Allocatable = {}

WriteEvict ==
  /\ NeedsSlot
  /\ \E v \in Victims : FlushSlot(v)
  /\ UNCHANGED writing

\* The eviction's transaction fails: the write returns its error, leaving the
\* chunks it has already buffered.
WriteEvictFail ==
  /\ NeedsSlot
  /\ writing' = NoWrite
  /\ UNCHANGED <<db, size, dirty, arena>>

\* Faulty: the slot is not given back.
WriteLoadFailLeak ==
  /\ InLoop
  /\ ~IsDirty(writing.ino, writing.chunk)
  /\ ~IsFullChunk(writing.off, Len(writing.data), writing.chunk)
  /\ \E a \in Allocatable :
       /\ free'  = free \ {a}
       /\ grown' = Reserved(a)
       /\ alen'  = [alen EXCEPT ![a] = 0]
  /\ writing' = NoWrite
  /\ UNCHANGED <<db, size, dirty, abytes>>

\* Loading the stored bytes fails: the slot goes back and the write returns.
WriteLoadFail ==
  /\ InLoop
  /\ ~IsDirty(writing.ino, writing.chunk)
  /\ ~IsFullChunk(writing.off, Len(writing.data), writing.chunk)
  /\ \E a \in Allocatable :
       /\ free'  = free \cup {a}
       /\ grown' = Reserved(a)
       /\ alen'  = [alen EXCEPT ![a] = 0]
  /\ writing' = NoWrite
  /\ UNCHANGED <<db, size, dirty, abytes>>

\* Every chunk is done: the write is acknowledged and the lock released.
WriteReturn ==
  /\ writing # NoWrite
  /\ ~InLoop
  /\ writing' = NoWrite
  /\ UNCHANGED <<db, size, dirty, arena>>

------------------------------------------------------------------------------
(* Truncating *)

\* Db::truncate_file: rows past the last chunk are deleted and the last chunk
\* is cut to its new length; nothing is written when the file grows.
CutRows(rows, n) ==
  LET last    == (n - 1) \div ChunkSize
      lastLen == ((n - 1) % ChunkSize) + 1
  IN  [c \in Chunk |->
         CASE n = 0 \/ c > last                     -> NoRow
           [] n > 0 /\ c = last /\ rows[c].len > lastLen -> RowOf(lastLen, rows[c].data)
           [] OTHER                                 -> rows[c]]

\* Faulty: the slot keeps its old size.
TruncateLockedKeepSize(i, n) ==
  /\ writing = NoWrite
  /\ stored' = [stored EXCEPT ![i] = CutRows(FlushedRows(i), n)]
  /\ dbsize' = [dbsize EXCEPT ![i] = n]
  /\ dirty'  = [dirty EXCEPT ![i] = NoDirty]
  /\ free'   = free \cup {dirty[i][c] : c \in DirtyChunks(i)}
  /\ UNCHANGED <<size, abytes, alen, grown, writing>>

\* truncate_locked: the dirty chunks are flushed (a transaction), then the rows
\* are cut (a second one).  A failure or a crash between the two is the step
\* Flush, followed by Crash.
TruncateLocked(i, n) ==
  /\ writing = NoWrite
  /\ stored' = [stored EXCEPT ![i] = CutRows(FlushedRows(i), n)]
  /\ dbsize' = [dbsize EXCEPT ![i] = n]
  /\ size'   = [size EXCEPT ![i] = n]
  /\ dirty'  = [dirty EXCEPT ![i] = NoDirty]
  /\ free'   = free \cup {dirty[i][c] : c \in DirtyChunks(i)}
  /\ UNCHANGED <<abytes, alen, grown, writing>>

\* setattr with a size (EFBIG above MaxFileSize).
Truncate(i, n) == TruncateLocked(i, n)

\* fallocate, mode 0: only ever extends.
Fallocate(i, end) ==
  /\ end > size[i]
  /\ TruncateLocked(i, end)

------------------------------------------------------------------------------
\* The process dies, at any point, and dbfs is started again: the table and the
\* arena are empty, sizes come from the database.
Crash ==
  /\ size'    = dbsize
  /\ dirty'   = [i \in Ino |-> NoDirty]
  /\ abytes'  = [a \in ArenaSlot |-> [k \in Within |-> Zero]]
  /\ alen'    = [a \in ArenaSlot |-> 0]
  /\ free'    = {}
  /\ grown'   = 0
  /\ writing' = NoWrite
  /\ UNCHANGED db

WriteStep == WriteHit \/ WriteNew \/ WriteEvict \/ WriteReturn

Next ==
  \/ \E i \in Ino, off \in 0 .. (MaxFileSize - 1), data \in Payloads :
       WriteStart(i, off, data)
  \/ WriteStep
  \/ WriteEvictFail \/ WriteLoadFail
  \/ \E i \in Ino : Flush(i)
  \/ \E i \in Ino, n \in 0 .. MaxFileSize : Truncate(i, n)
  \/ \E i \in Ino, end \in 1 .. MaxFileSize : Fallocate(i, end)
  \/ Crash

\* Fairness: the thread that holds the table lock keeps running; nothing in the
\* loop of write_slot waits for another operation.  Failures are never forced.
Spec == Init /\ [][Next]_vars /\ WF_vars(WriteStep)

------------------------------------------------------------------------------
(* Reading *)

\* What position p of inode i reads as: zero in a hole, else the stored byte,
\* else the dirty byte that overlays it.
ReadByte(i, p) ==
  LET c == p \div ChunkSize
      k == p % ChunkSize
  IN  CASE p >= size[i]                               -> Zero
        [] IsDirty(i, c) /\ k < alen[dirty[i][c]]     -> abytes[dirty[i][c]][k]
        [] OTHER                                      -> stored[i][c].data[k]

\* Faulty: the chunk is copied to the start of the buffer.
CopyOutToStart(off, n, c, bytes, len, out) ==
  LET from  == PieceStart(off, c)
      avail == Smaller(len, PieceEnd(off, n, c))
  IN  [j \in DOMAIN out |->
         IF j <= avail - from THEN bytes[from + (j - 1)] ELSE out[j]]

\* ChunkSpan::copy_out: chunk c, len valid bytes of it, copied into the buffer
\* out of a read of n bytes at off.
CopyOut(off, n, c, bytes, len, out) ==
  LET from  == PieceStart(off, c)
      avail == Smaller(len, PieceEnd(off, n, c))
      at    == BufStart(off, c)
  IN  [j \in DOMAIN out |->
         IF at < j /\ j <= at + (avail - from) THEN bytes[from + (j - 1 - at)]
                                               ELSE out[j]]

\* read_slot: a zeroed buffer, over it every stored chunk of the span, over
\* that every dirty chunk of the span.
ReadSlot(i, off, n) ==
  IF off >= size[i] THEN <<>>
  ELSE LET len   == Smaller(n, size[i] - off)
           first == SpanFirst(off)
           last  == SpanLast(off, len)
           fromDb[c \in (first - 1) .. last] ==
             IF c < first THEN [j \in 1 .. len |-> Zero]
             ELSE CopyOut(off, len, c, stored[i][c].data, stored[i][c].len, fromDb[c - 1])
           overlaid[c \in (first - 1) .. last] ==
             IF c < first THEN fromDb[last]
             ELSE IF IsDirty(i, c)
             THEN CopyOut(off, len, c, abytes[dirty[i][c]], alen[dirty[i][c]], overlaid[c - 1])
             ELSE overlaid[c - 1]
       IN  overlaid[last]

------------------------------------------------------------------------------
(* What the files look like, and the specification this one implements *)

Position == 0 .. (MaxFileSize - 1)

ContentOf(i) ==
  [size |-> size[i], data |-> [p \in Position |-> ReadByte(i, p)]]

\* What a restart would show: the stored rows alone.
SavedOf(i) ==
  [size |-> dbsize[i],
   data |-> [p \in Position |->
               IF p < dbsize[i] THEN stored[i][p \div ChunkSize].data[p % ChunkSize]
                                ELSE Zero]]

\* How far the write has come, as a position in the file.
PlacedUpto(w) ==
  IF w.chunk = SpanFirst(w.off) THEN w.off
  ELSE Smaller(ChunkStart(w.chunk), w.off + Len(w.data))

RequestOf(w) ==
  IF w = NoWrite THEN NoWrite
  ELSE [ino |-> w.ino, off |-> w.off, data |-> w.data, upto |-> PlacedUpto(w)]

Files == INSTANCE FileContents
           WITH Limit   <- MaxFileSize,
                content <- [i \in Ino |-> ContentOf(i)],
                saved   <- [i \in Ino |-> SavedOf(i)],
                request <- RequestOf(writing)

\* Chunks, arena slots, evictions and two-step truncations are invisible: what
\* reads return and what a crash leaves behind change exactly as plain file
\* images would (write_slot, flush_slot, truncate_locked, read_slot).
ImplementsFileContents == Files!Spec

------------------------------------------------------------------------------
(* Properties *)

Row == [len : 0 .. ChunkSize, data : [Within -> Byte]]

TypeOK ==
  /\ stored  \in [Ino -> [Chunk -> Row]]
  /\ dbsize  \in [Ino -> 0 .. MaxFileSize]
  /\ size    \in [Ino -> 0 .. MaxFileSize]
  /\ dirty   \in [Ino -> [Chunk -> ArenaSlot \cup {NoSlot}]]
  /\ abytes  \in [ArenaSlot -> [Within -> Byte]]
  /\ alen    \in [ArenaSlot -> 0 .. ChunkSize]
  /\ free    \in SUBSET ArenaSlot
  /\ grown   \in 0 .. MaxSlots
  /\ writing \in Job \cup {NoWrite}

Used == {dirty[ic[1]][ic[2]] : ic \in Ino \X Chunk} \ {NoSlot}

\* Every reserved arena slot is either free or holds exactly one dirty chunk of
\* one inode: no slot is leaked by a failed write or an eviction, and no two
\* chunks share one (ChunkArena::alloc/release, DirtyIdx::release_into).
ArenaConserved ==
  /\ free \cap Used = {}
  /\ free \cup Used = 0 .. (grown - 1)
  /\ \A i, j \in Ino, c, d \in Chunk :
       IsDirty(i, c) /\ dirty[i][c] = dirty[j][d] => i = j /\ c = d

\* No chunk, stored or dirty, reaches past the size kept with it, and a dirty
\* chunk never holds fewer bytes than the row it will replace: flushing loses
\* nothing, and growing a file later exposes no old bytes (write_slot grows the
\* size chunk by chunk for this; truncate_file cuts the last chunk).
SizesCover ==
  \A i \in Ino, c \in Chunk :
    /\ stored[i][c].len > 0 => ChunkStart(c) + stored[i][c].len <= dbsize[i]
    /\ dbsize[i] <= size[i]
    /\ IsDirty(i, c) => /\ alen[dirty[i][c]] > 0
                        /\ ChunkStart(c) + alen[dirty[i][c]] <= size[i]
                        /\ stored[i][c].len <= alen[dirty[i][c]]

\* An inode with nothing dirty has its size in the database, so its slot may be
\* dropped (free_if_idle) and reloaded (slot_for) without changing the file.
CleanSizeStored ==
  \A i \in Ino : DirtyChunks(i) = {} => size[i] = dbsize[i]

\* The EIO that alloc_chunk returns when no inode is dirty is never returned:
\* when the budget is used up there is something to evict.
EvictionFindsVictim == NeedsSlot => Victims # {}

\* The bytes a write has placed so far read back as written, whatever was
\* evicted in between, its own earlier chunks included; when it is acknowledged
\* that is all of them (write_slot, alloc_chunk).
PlacedBytesReadBack ==
  writing # NoWrite =>
    \A p \in writing.off .. (PlacedUpto(writing) - 1) :
      ReadByte(writing.ino, p) = writing.data[p - writing.off + 1]

\* A read of any range returns the bytes of the file at those positions, cut at
\* the end of the file: the span arithmetic of read_into and copy_out and the
\* dirty overlay agree with the byte-by-byte meaning.
ReadsReturnContent ==
  \A i \in Ino, off \in Position, n \in 1 .. MaxFileSize :
    ReadSlot(i, off, n) =
      [j \in 1 .. Smaller(n, Larger(size[i] - off, 0)) |-> ReadByte(i, off + j - 1)]

\* The steps a write may still take: for each chunk left an eviction and a piece,
\* but no second eviction, and its return.
StepsLeft ==
  IF writing = NoWrite THEN 0
  ELSE 2 * (SpanLast(writing.off, Len(writing.data)) + 1 - writing.chunk)
       + (IF InLoop /\ ~NeedsSlot THEN 0 ELSE 1)

\* Every step while a write is in progress brings it closer to its end, whatever
\* fails: one eviction is enough for a chunk, so the loop of alloc_chunk runs at
\* most twice, and nobody takes the slot away in between (write_slot, alloc_chunk).
WriteMovesOn == [][StepsLeft > 0 => StepsLeft' < StepsLeft /\ StepsLeft' >= 0]_vars

\* A write gets to its end: the allocate-or-evict loop of alloc_chunk cannot
\* spin, because an eviction frees a slot.
WriteReturns == writing # NoWrite ~> writing = NoWrite
==============================================================================
