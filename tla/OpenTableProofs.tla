--------------------------- MODULE OpenTableProofs ---------------------------
(***************************************************************************)
(* Handles, slots, inodes and chunk rows stay together although all their  *)
(* numbers are reused: proofs about OpenTable, for any names, handles,     *)
(* files, inode numbers, chunks per file and budget.                       *)
(***************************************************************************)
EXTENDS OpenTable, FiniteSetTheorems, WellFoundedInduction, TLAPS

------------------------------------------------------------------------------
(* The inductive invariant.  Its first part is about a table t, the rows of     *)
(* inodes r and the opened files o, so that the operators that requests are     *)
(* composed of can be looked at one by one.                                     *)

TableShape == [ino : [Slot -> InoNum \cup {NoIno}],
               refs : [Slot -> Nat],
               unlinked : [Slot -> BOOLEAN],
               dirty : [Slot -> [Chunk -> MaybeFile]],
               byIno : [InoNum -> Slot \cup {NoSlot}],
               slot : [Fh -> Slot \cup {NoSlot}]]
RowShape == [InoNum -> [file : MaybeFile, nlink : Nat]]

\* The index and the slots agree.
Indexed(t) ==
  /\ \A i \in InoNum : t.byIno[i] # NoSlot => t.ino[t.byIno[i]] = i
  /\ \A s \in Slot : t.ino[s] # NoIno => t.byIno[t.ino[s]] = s

\* refs counts handles.
Counted(t) == \A s \in Slot : t.refs[s] = Cardinality({h \in Fh : t.slot[h] = s})

\* A handle in use leads to the file it was opened on.
Reached(t, r, o) ==
  \A h \in Fh :
    /\ o[h] = NoFile => t.slot[h] = NoSlot
    /\ o[h] # NoFile => t.slot[h] # NoSlot /\ t.ino[t.slot[h]] # NoIno
                        /\ r[t.ino[t.slot[h]]].file = o[h]

\* A dirty chunk is data of its slot's inode.
Owned(t, r) ==
  \A s \in Slot, c \in Chunk :
    t.dirty[s][c] # NoFile => t.ino[s] # NoIno /\ t.dirty[s][c] = r[t.ino[s]].file

\* `unlinked` marks the live slots of inodes without a name.
Marked(t, r) ==
  \A s \in Slot : t.unlinked[s] <=> (t.ino[s] # NoIno /\ r[t.ino[s]].nlink = 0)

TableInv(t, r, o) ==
  t \in TableShape /\ Indexed(t) /\ Counted(t) /\ Reached(t, r, o) /\ Owned(t, r) /\ Marked(t, r)

\* A live slot is there for a reason; this fails between the two halves of a release.
Busy(t, s) ==
  t.ino[s] # NoIno => /\ t.refs[s] > 0 \/ DirtyChunks(t, s) # {}
                      /\ t.unlinked[s] => t.refs[s] > 0

\* A number is not in use without a file, and a file has one number.
RowsSound(r) ==
  /\ r \in RowShape
  /\ \A i \in InoNum : r[i].file = NoFile => r[i].nlink = 0
  /\ \A i, j \in InoNum : r[i].file = r[j].file /\ r[i].file # NoFile => i = j

\* Chunk rows are data of the inode whose key range they are in.
ChunkRowsSound(ch, r) ==
  /\ ch \in [Key -> MaybeFile]
  /\ \A i \in InoNum, c \in Chunk : ch[ChunkKey(i, c)] \in {NoFile, r[i].file}
  /\ \A k \in Key : k < ChunkKey(2, 0) => ch[k] = NoFile

\* The chunks of inode i that wait in the table.
Pending(t, i) == IF t.byIno[i] = NoSlot THEN {} ELSE DirtyChunks(t, t.byIno[i])

\* What is owed to a file with a name waits in the table.
OwedKept(t, r, w) ==
  \A p \in w, i \in InoNum : r[i].file = p[1] /\ r[i].nlink > 0 => p[2] \in Pending(t, i)

\* During startup nothing is open; the orphan being swept has no chunks left.
StartupInv ==
  /\ ~mounted => table = EmptyTable /\ opened = [h \in Fh |-> NoFile] /\ owed = {}
  /\ swept # NoIno => /\ ~mounted
                      /\ inode[swept].nlink = 0
                      /\ \A c \in Chunk : chunks[ChunkKey(swept, c)] = NoFile

RestShape ==
  /\ dirent  \in [Name -> InoNum \cup {NoIno}]
  /\ mounted \in BOOLEAN
  /\ swept   \in InoNum \cup {NoIno}
  /\ opened  \in [Fh -> MaybeFile]
  /\ owed    \in SUBSET (FileId \X Chunk)
  /\ stuck   \in SUBSET InoNum

OpenInv ==
  /\ TableInv(table, inode, opened)
  /\ \A s \in Slot : Busy(table, s)
  /\ RowsSound(inode)
  /\ ChunkRowsSound(chunks, inode)
  /\ StartupInv
  /\ RestShape
  /\ NlinkCountsNames
  /\ OwedKept(table, inode, owed)
  /\ OrphansAccounted
------------------------------------------------------------------------------
(* Numbers *)

\* Zero is neither a slot nor an inode.
LEMMA Zeros == NoSlot \notin Slot /\ NoIno \notin InoNum
  BY DEF NoSlot, Slot, NoIno, InoNum

\* The chunk keys of an inode number are in the table and below those of the next.
LEMMA KeyRange ==
  ASSUME NEW i \in InoNum, NEW c \in 0 .. MaxChunks
  PROVE  /\ ChunkKey(i, c) \in Nat
         /\ i * MaxChunks \in Nat /\ ChunkKey(i, c) = i * MaxChunks + c
         /\ c \in Chunk => ChunkKey(i, c) \in Key
         /\ ChunkKey(i, c) >= ChunkKey(2, 0)
  <1> USE TableAssumption DEF InoNum, Chunk, Key, ChunkKey
  <1>1. i \in Nat /\ MaxChunks \in Nat /\ i <= MaxIno /\ 2 <= i
      OBVIOUS
  <1>2. i * MaxChunks \in Nat /\ MaxIno * MaxChunks \in Nat /\ 2 * MaxChunks \in Nat
      BY <1>1
  <1>3. i * MaxChunks <= MaxIno * MaxChunks /\ 2 * MaxChunks <= i * MaxChunks
      BY <1>1
  <1> QED
      BY <1>1, <1>2, <1>3

\* Different chunks have different keys.
LEMMA KeyInjective ==
  ASSUME NEW i \in InoNum, NEW j \in InoNum, NEW c \in Chunk, NEW d \in Chunk,
         ChunkKey(i, c) = ChunkKey(j, d)
  PROVE  i = j /\ c = d
  <1> USE TableAssumption DEF InoNum, Chunk
  <1>1. i * MaxChunks \in Nat /\ j * MaxChunks \in Nat
        /\ i * MaxChunks + c = j * MaxChunks + d
      BY KeyRange DEF ChunkKey
  <1>2. ASSUME NEW a \in Nat, NEW b \in Nat, a < b
        PROVE  a * MaxChunks + MaxChunks <= b * MaxChunks
    <2>1. a * MaxChunks + MaxChunks = (a + 1) * MaxChunks
        OBVIOUS
    <2>2. a + 1 <= b
        BY <1>2
    <2>3. (a + 1) * MaxChunks <= b * MaxChunks
        BY <2>2
    <2> QED
        BY <2>1, <2>3
  <1>3. ~(i < j)
      BY <1>1, <1>2
  <1>4. ~(j < i)
      BY <1>1, <1>2
  <1>5. i = j
      BY <1>3, <1>4
  <1> QED
      BY <1>1, <1>5

\* The number of a new row is free.
LEMMA NewInoFree ==
  ASSUME NewIno <= MaxIno
  PROVE  NewIno \in InoNum /\ NewIno \notin Rows
  <1> USE TableAssumption DEF InoNum
  <1> DEFINE Fits(m) == (\A i \in Rows : i < m) /\ (m = 2 \/ m - 1 \in Rows)
             T == {m \in Nat : 2 <= m /\ \A i \in Rows : i < m}
  <1>0. Rows \subseteq 2 .. MaxIno
      BY DEF Rows
  <1>1. T \subseteq Nat /\ T # {}
    <2>1. MaxIno + 1 \in T
        BY <1>0
    <2> QED
        BY <2>1
  <1>2. PICK m \in T : \A n \in T : ~(<<n, m>> \in OpToRel(<, Nat))
    <2> HIDE DEF T
    <2> QED
        BY <1>1, NatLessThanWellFounded, WFMin
  <1>3. ASSUME NEW n \in T PROVE ~(n < m)
    <2>1. n \in Nat /\ m \in Nat /\ ~(<<n, m>> \in OpToRel(<, Nat))
        BY <1>2
    <2> QED
        BY <2>1 DEF OpToRel
  <1>4. m \in 2 .. (MaxIno + 1)
    <2>1. MaxIno + 1 \in T
        BY <1>0
    <2>2. ~(MaxIno + 1 < m)
        BY <1>3, <2>1
    <2> QED
        BY <2>2
  <1>5. m = 2 \/ m - 1 \in Rows
    <2> SUFFICES ASSUME m # 2, m - 1 \notin Rows PROVE FALSE
        OBVIOUS
    <2>1. m - 1 \in Nat /\ 2 <= m - 1 /\ m - 1 < m
        BY <1>4
    <2>2. \A i \in Rows : i < m /\ i # m - 1 /\ i \in Int
        BY <1>0
    <2>3. \A i \in Rows : i < m - 1
        BY <2>2, <1>4
    <2> QED
        BY <1>3, <2>1, <2>3
  <1>6. \E n \in 2 .. (MaxIno + 1) : Fits(n)
      BY <1>4, <1>5
  <1>7. NewIno \in 2 .. (MaxIno + 1) /\ Fits(NewIno)
    <2> DEFINE New == CHOOSE n \in 2 .. (MaxIno + 1) : Fits(n)
    <2>1. New \in 2 .. (MaxIno + 1) /\ Fits(New)
        BY <1>6
    <2>2. NewIno = New
        BY DEF NewIno
    <2> QED
        BY <2>1, <2>2
  <1> QED
      BY <1>7

------------------------------------------------------------------------------
(* The operators of the table *)

\* What each field is after an operator.
LEMMA Fields ==
  ASSUME NEW t \in TableShape
  PROVE  /\ DOMAIN t = {"ino", "refs", "unlinked", "dirty", "byIno", "slot"}
         /\ t.ino \in [Slot -> InoNum \cup {NoIno}] /\ t.refs \in [Slot -> Nat]
         /\ t.unlinked \in [Slot -> BOOLEAN] /\ t.dirty \in [Slot -> [Chunk -> MaybeFile]]
         /\ t.byIno \in [InoNum -> Slot \cup {NoSlot}] /\ t.slot \in [Fh -> Slot \cup {NoSlot}]
  BY DEF TableShape

\* A live slot belongs to an inode that exists.
LEMMA LiveHasRow ==
  ASSUME NEW t, NEW r, NEW o, NEW s \in Slot, TableInv(t, r, o), Busy(t, s),
         t.ino[s] # NoIno
  PROVE  t.ino[s] \in InoNum /\ r[t.ino[s]].file # NoFile
  <1>1. t.ino[s] \in InoNum
      BY Fields DEF TableInv
  <1>2. CASE t.refs[s] > 0
    <2>1. {h \in Fh : t.slot[h] = s} # {}
        BY <1>2, FS_EmptySet DEF TableInv, Counted
    <2> QED
        BY <1>1, <2>1, Zeros DEF TableInv, Reached
  <1>3. CASE DirtyChunks(t, s) # {}
      BY <1>1, <1>3 DEF TableInv, Owned, DirtyChunks
  <1> QED
      BY <1>2, <1>3 DEF Busy

\* Insert, on a free slot, for an inode that has a name and no slot.
LEMMA InsertKeeps ==
  ASSUME NEW t, NEW r, NEW o, TableInv(t, r, o), NEW s \in FreeSlots(t), NEW i \in InoNum,
         t.byIno[i] = NoSlot, r[i].nlink # 0
  PROVE  /\ TableInv(Insert(t, s, i), r, o)
         /\ Insert(t, s, i).ino = [t.ino EXCEPT ![s] = i]
         /\ Insert(t, s, i).byIno = [t.byIno EXCEPT ![i] = s]
         /\ Insert(t, s, i).dirty = t.dirty
         /\ Insert(t, s, i).slot = t.slot
         /\ \A u \in Slot \ {s} : Busy(t, u) => Busy(Insert(t, s, i), u)
  <1> USE Zeros
  <1> DEFINE n == Insert(t, s, i)
  <1>1. t \in TableShape /\ s \in Slot /\ t.ino[s] = NoIno
      BY DEF TableInv, FreeSlots
  <1>2. /\ n.ino = [t.ino EXCEPT ![s] = i] /\ n.refs = [t.refs EXCEPT ![s] = 0]
        /\ n.unlinked = [t.unlinked EXCEPT ![s] = FALSE] /\ n.dirty = t.dirty
        /\ n.byIno = [t.byIno EXCEPT ![i] = s] /\ n.slot = t.slot
        /\ n \in TableShape
      BY <1>1 DEF Insert, TableShape
  <1> HIDE DEF n
  <1>3. Indexed(n)
      BY <1>1, <1>2, Fields DEF TableInv, Indexed
  <1>4. \A h \in Fh : t.slot[h] # s
      BY <1>1 DEF TableInv, Reached
  <1>5. Counted(n)
    <2>1. {h \in Fh : n.slot[h] = s} = {}
        BY <1>2, <1>4
    <2> QED
        BY <1>1, <1>2, <2>1, Fields, FS_EmptySet DEF TableInv, Counted
  <1>6. Reached(n, r, o)
      BY <1>1, <1>2, <1>4, Fields DEF TableInv, Reached
  <1>7. Owned(n, r) /\ Marked(n, r)
      BY <1>1, <1>2, Fields DEF TableInv, Owned, Marked
  <1>8. \A u \in Slot \ {s} : Busy(t, u) => Busy(n, u)
      BY <1>1, <1>2, Fields DEF Busy, DirtyChunks
  <1> QED
      BY <1>2, <1>3, <1>5, <1>6, <1>7, <1>8 DEF TableInv, n

\* open_slot, on a live slot with a handle that is not in use.
LEMMA OpenSlotKeeps ==
  ASSUME NEW t, NEW r, NEW o \in [Fh -> MaybeFile], TableInv(t, r, o), NEW s \in Slot,
         NEW h \in Fh, t.ino[s] # NoIno, o[h] = NoFile, r[t.ino[s]].file # NoFile,
         NEW p, p[h] = r[t.ino[s]].file, \A g \in Fh \ {h} : p[g] = o[g]
  PROVE  /\ TableInv(OpenSlot(t, s, h), r, p)
         /\ OpenSlot(t, s, h).ino = t.ino /\ OpenSlot(t, s, h).byIno = t.byIno
         /\ OpenSlot(t, s, h).dirty = t.dirty
         /\ OpenSlot(t, s, h).refs = [t.refs EXCEPT ![s] = @ + 1]
         /\ Busy(OpenSlot(t, s, h), s)
         /\ \A u \in Slot : Busy(t, u) => Busy(OpenSlot(t, s, h), u)
  <1> USE Zeros
  <1> DEFINE n == OpenSlot(t, s, h)
  <1>1. t \in TableShape /\ t.slot[h] = NoSlot
      BY DEF TableInv, Reached
  <1>2. /\ n.ino = t.ino /\ n.refs = [t.refs EXCEPT ![s] = @ + 1]
        /\ n.unlinked = t.unlinked /\ n.dirty = t.dirty
        /\ n.byIno = t.byIno /\ n.slot = [t.slot EXCEPT ![h] = s]
        /\ n \in TableShape
    <2>1. [t.refs EXCEPT ![s] = @ + 1] \in [Slot -> Nat]
          /\ [t.slot EXCEPT ![h] = s] \in [Fh -> Slot \cup {NoSlot}]
        BY <1>1, Fields
    <2> QED
        BY <1>1, <2>1 DEF OpenSlot, TableShape
  <1> HIDE DEF n
  <1>3. Indexed(n) /\ Owned(n, r) /\ Marked(n, r)
      BY <1>2 DEF TableInv, Indexed, Owned, Marked
  <1>4. Reached(n, r, p)
      BY <1>1, <1>2, Fields DEF TableInv, Reached
  <1>5. ASSUME NEW u \in Slot PROVE n.refs[u] = Cardinality({g \in Fh : n.slot[g] = u})
    <2> DEFINE Old(v) == {g \in Fh : t.slot[g] = v}
               New(v) == {g \in Fh : n.slot[g] = v}
    <2>0. t.refs[u] = Cardinality(Old(u)) /\ t.refs[u] \in Nat
        BY <1>1, Fields DEF TableInv, Counted
    <2>1. CASE u # s
      <3>1. New(u) = Old(u)
          BY <1>1, <1>2, <2>1, Fields
      <3>2. n.refs[u] = t.refs[u]
          BY <1>1, <1>2, <2>1, Fields
      <3> QED
          BY <2>0, <3>1, <3>2
    <2>2. CASE u = s
      <3>1. New(s) = Old(s) \cup {h} /\ h \notin Old(s)
          BY <1>1, <1>2, Fields
      <3>2. IsFiniteSet(Old(s))
          BY TableAssumption, FS_Subset
      <3>3. Cardinality(New(s)) = Cardinality(Old(s)) + 1
        <4> HIDE DEF Old, New
        <4> QED
            BY <3>1, <3>2, FS_AddElement
      <3>4. n.refs[s] = t.refs[s] + 1
          BY <1>1, <1>2, Fields
      <3> QED
          BY <2>0, <2>2, <3>3, <3>4
    <2> QED
        BY <2>1, <2>2
  <1>6. \A u \in Slot : Busy(t, u) => Busy(n, u)
      BY <1>1, <1>2, Fields DEF Busy, DirtyChunks
  <1>7. Busy(n, s)
      BY <1>1, <1>2, Fields DEF Busy, DirtyChunks
  <1> QED
      BY <1>2, <1>3, <1>4, <1>5, <1>6, <1>7 DEF TableInv, Counted, n

\* Handles::release and the decrement.
LEMMA DropHandleKeeps ==
  ASSUME NEW t, NEW r, NEW o \in [Fh -> MaybeFile], TableInv(t, r, o), NEW h \in Fh,
         o[h] # NoFile, NEW p, p[h] = NoFile, \A g \in Fh \ {h} : p[g] = o[g]
  PROVE  /\ TableInv(DropHandle(t, h), r, p)
         /\ t.slot[h] \in Slot /\ t.refs[t.slot[h]] > 0
         /\ t.ino[t.slot[h]] \in InoNum
         /\ DropHandle(t, h).ino = t.ino /\ DropHandle(t, h).byIno = t.byIno
         /\ DropHandle(t, h).dirty = t.dirty /\ DropHandle(t, h).unlinked = t.unlinked
         /\ DropHandle(t, h).refs = [t.refs EXCEPT ![t.slot[h]] = @ - 1]
         /\ \A u \in Slot \ {t.slot[h]} : Busy(t, u) => Busy(DropHandle(t, h), u)
  <1> USE Zeros
  <1> DEFINE n == DropHandle(t, h)
             s == t.slot[h]
             Old(v) == {g \in Fh : t.slot[g] = v}
             New(v) == {g \in Fh : n.slot[g] = v}
  <1>1. t \in TableShape /\ s \in Slot /\ t.ino[s] \in InoNum
      BY Fields DEF TableInv, Reached
  <1>2. \A u \in Slot : t.refs[u] = Cardinality(Old(u)) /\ t.refs[u] \in Nat /\ IsFiniteSet(Old(u))
      BY <1>1, Fields, TableAssumption, FS_Subset DEF TableInv, Counted
  <1>3. Cardinality(Old(s) \ {h}) = Cardinality(Old(s)) - 1 /\ Cardinality(Old(s)) # 0
    <2>1. h \in Old(s) /\ IsFiniteSet(Old(s))
        BY <1>1, <1>2
    <2> HIDE DEF Old
    <2> QED
        BY <2>1, FS_RemoveElement, FS_EmptySet
  <1>4. t.refs[s] > 0
      BY <1>1, <1>2, <1>3
  <1>5. /\ n.ino = t.ino /\ n.refs = [t.refs EXCEPT ![s] = @ - 1]
        /\ n.unlinked = t.unlinked /\ n.dirty = t.dirty
        /\ n.byIno = t.byIno /\ n.slot = [t.slot EXCEPT ![h] = NoSlot]
        /\ n \in TableShape
    <2>1. [t.refs EXCEPT ![s] = @ - 1] \in [Slot -> Nat]
          /\ [t.slot EXCEPT ![h] = NoSlot] \in [Fh -> Slot \cup {NoSlot}]
        BY <1>1, <1>4, Fields
    <2> QED
        BY <1>1, <2>1 DEF DropHandle, TableShape
  <1> HIDE DEF n
  <1>6. Indexed(n) /\ Owned(n, r) /\ Marked(n, r)
      BY <1>5 DEF TableInv, Indexed, Owned, Marked
  <1>7. Reached(n, r, p)
      BY <1>1, <1>5, Fields DEF TableInv, Reached
  <1>8. ASSUME NEW u \in Slot PROVE n.refs[u] = Cardinality(New(u))
    <2>1. CASE u # s
      <3>1. New(u) = Old(u) /\ n.refs[u] = t.refs[u]
          BY <1>1, <1>5, <2>1, Fields
      <3> QED
          BY <1>2, <3>1
    <2>2. CASE u = s
      <3>1. New(s) = Old(s) \ {h} /\ n.refs[s] = t.refs[s] - 1
          BY <1>1, <1>5, Fields
      <3> QED
          BY <1>1, <1>2, <1>3, <2>2, <3>1
    <2> QED
        BY <2>1, <2>2
  <1>9. \A u \in Slot \ {s} : Busy(t, u) => Busy(n, u)
      BY <1>1, <1>5, Fields DEF Busy, DirtyChunks
  <1> QED
      BY <1>1, <1>4, <1>5, <1>6, <1>7, <1>8, <1>9 DEF TableInv, Counted, n

\* Forgetting the dirty chunks of a slot.
LEMMA CleanedKeeps ==
  ASSUME NEW t, NEW r, NEW o, TableInv(t, r, o), NEW s \in Slot
  PROVE  /\ TableInv(Cleaned(t, s), r, o)
         /\ Cleaned(t, s).ino = t.ino /\ Cleaned(t, s).byIno = t.byIno
         /\ Cleaned(t, s).refs = t.refs /\ Cleaned(t, s).unlinked = t.unlinked
         /\ Cleaned(t, s).slot = t.slot
         /\ DirtyChunks(Cleaned(t, s), s) = {}
         /\ \A u \in Slot \ {s} : DirtyChunks(Cleaned(t, s), u) = DirtyChunks(t, u)
         /\ \A u \in Slot \ {s} : Busy(t, u) => Busy(Cleaned(t, s), u)
  <1> USE Zeros
  <1> DEFINE n == Cleaned(t, s)
  <1>1. t \in TableShape /\ Clean \in [Chunk -> MaybeFile]
      BY DEF TableInv, Clean, MaybeFile
  <1>2. /\ n.ino = t.ino /\ n.refs = t.refs /\ n.unlinked = t.unlinked
        /\ n.dirty = [t.dirty EXCEPT ![s] = Clean]
        /\ n.byIno = t.byIno /\ n.slot = t.slot
        /\ n \in TableShape
      BY <1>1 DEF Cleaned, TableShape
  <1> HIDE DEF n
  <1>3. Indexed(n) /\ Counted(n) /\ Reached(n, r, o) /\ Marked(n, r)
      BY <1>2 DEF TableInv, Indexed, Counted, Reached, Marked
  <1>4. n.dirty[s] = Clean /\ \A u \in Slot \ {s} : n.dirty[u] = t.dirty[u]
      BY <1>1, <1>2, Fields
  <1>5. Owned(n, r)
    <2> SUFFICES ASSUME NEW u \in Slot, NEW c \in Chunk, n.dirty[u][c] # NoFile
                 PROVE  n.ino[u] # NoIno /\ n.dirty[u][c] = r[n.ino[u]].file
        BY DEF Owned
    <2>1. u # s
        BY <1>4 DEF Clean
    <2> QED
        BY <1>2, <1>4, <2>1 DEF TableInv, Owned
  <1>6. DirtyChunks(n, s) = {} /\ \A u \in Slot \ {s} : DirtyChunks(n, u) = DirtyChunks(t, u)
      BY <1>4 DEF DirtyChunks, Clean
  <1>7. \A u \in Slot \ {s} : Busy(t, u) => Busy(n, u)
      BY <1>2, <1>6 DEF Busy
  <1> QED
      BY <1>2, <1>3, <1>5, <1>6, <1>7 DEF TableInv, n

\* Removing a live slot that has neither handles nor data.
LEMMA RemoveKeeps ==
  ASSUME NEW t, NEW r, NEW o, TableInv(t, r, o), NEW s \in Slot,
         t.ino[s] # NoIno, t.refs[s] = 0, DirtyChunks(t, s) = {}
  PROVE  /\ TableInv(Remove(t, s), r, o)
         /\ Remove(t, s).ino = [t.ino EXCEPT ![s] = NoIno]
         /\ Remove(t, s).byIno = [t.byIno EXCEPT ![t.ino[s]] = NoSlot]
         /\ Remove(t, s).dirty = t.dirty /\ Remove(t, s).slot = t.slot
         /\ Remove(t, s).refs = t.refs
         /\ \A u \in Slot : (u # s => Busy(t, u)) => Busy(Remove(t, s), u)
         /\ \A i \in InoNum : Pending(Remove(t, s), i) = Pending(t, i)
         /\ \A i \in InoNum : IsOpen(Remove(t, s), i) <=> IsOpen(t, i)
  <1> USE Zeros
  <1> DEFINE n == Remove(t, s)
             i == t.ino[s]
  <1>1. t \in TableShape /\ i \in InoNum /\ t.byIno[i] = s
      BY Fields DEF TableInv, Indexed
  <1>2. /\ n.ino = [t.ino EXCEPT ![s] = NoIno] /\ n.refs = [t.refs EXCEPT ![s] = 0]
        /\ n.unlinked = [t.unlinked EXCEPT ![s] = FALSE] /\ n.dirty = t.dirty
        /\ n.byIno = [t.byIno EXCEPT ![i] = NoSlot] /\ n.slot = t.slot
        /\ n \in TableShape
    <2>1. /\ [t.ino EXCEPT ![s] = NoIno] \in [Slot -> InoNum \cup {NoIno}]
          /\ [t.refs EXCEPT ![s] = 0] \in [Slot -> Nat]
          /\ [t.unlinked EXCEPT ![s] = FALSE] \in [Slot -> BOOLEAN]
          /\ [t.byIno EXCEPT ![i] = NoSlot] \in [InoNum -> Slot \cup {NoSlot}]
        BY <1>1, Fields
    <2> QED
        BY <1>1, <2>1 DEF Remove, TableShape
  <1>3. n.refs = t.refs
      BY <1>1, <1>2, Fields
  <1> HIDE DEF n
  <1>4. \A h \in Fh : t.slot[h] # s
    <2>1. Cardinality({h \in Fh : t.slot[h] = s}) = 0
        BY DEF TableInv, Counted
    <2>2. IsFiniteSet({h \in Fh : t.slot[h] = s})
        BY TableAssumption, FS_Subset
    <2>3. {h \in Fh : t.slot[h] = s} = {}
        BY <2>1, <2>2, FS_EmptySet
    <2> QED
        BY <2>3
  <1>5. Indexed(n)
      BY <1>1, <1>2, Fields DEF TableInv, Indexed
  <1>6. Counted(n)
      BY <1>2, <1>3 DEF TableInv, Counted
  <1>7. Reached(n, r, o)
      BY <1>1, <1>2, <1>4, Fields DEF TableInv, Reached
  <1>8. Owned(n, r)
      BY <1>1, <1>2, Fields DEF TableInv, Owned, DirtyChunks
  <1>9. Marked(n, r)
      BY <1>1, <1>2, Fields DEF TableInv, Marked
  <1>10. \A u \in Slot : (u # s => Busy(t, u)) => Busy(n, u)
      BY <1>1, <1>2, <1>3, Fields DEF Busy, DirtyChunks
  <1>11. \A j \in InoNum : j # i => n.byIno[j] = t.byIno[j]
      BY <1>1, <1>2, Fields
  <1>12. n.byIno[i] = NoSlot
      BY <1>1, <1>2, Fields
  <1>13. \A j \in InoNum : Pending(n, j) = Pending(t, j)
    <2> SUFFICES ASSUME NEW j \in InoNum PROVE Pending(n, j) = Pending(t, j)
        OBVIOUS
    <2>1. \A u : DirtyChunks(n, u) = DirtyChunks(t, u)
        BY <1>2 DEF DirtyChunks
    <2>2. CASE j = i
        BY <1>1, <1>12, <2>2 DEF Pending
    <2>3. CASE j # i
        BY <1>11, <2>1, <2>3 DEF Pending
    <2> QED
        BY <2>2, <2>3
  <1>14. \A j \in InoNum : IsOpen(n, j) <=> IsOpen(t, j)
      BY <1>1, <1>3, <1>11, <1>12 DEF IsOpen
  <1> QED
      BY <1>2, <1>3, <1>5, <1>6, <1>7, <1>8, <1>9, <1>10, <1>13, <1>14 DEF TableInv, n

\* free_if_idle, on a live slot that is not both unlinked and without handles.
LEMMA FreeIfIdleKeeps ==
  ASSUME NEW t, NEW r, NEW o, TableInv(t, r, o), NEW s \in Slot,
         t.ino[s] # NoIno, t.unlinked[s] => t.refs[s] > 0
  PROVE  /\ TableInv(FreeIfIdle(t, s), r, o)
         /\ FreeIfIdle(t, s).dirty = t.dirty /\ FreeIfIdle(t, s).slot = t.slot
         /\ (\A u \in Slot \ {s} : Busy(t, u)) => \A u \in Slot : Busy(FreeIfIdle(t, s), u)
         /\ \A i \in InoNum : Pending(FreeIfIdle(t, s), i) = Pending(t, i)
         /\ \A i \in InoNum : IsOpen(FreeIfIdle(t, s), i) <=> IsOpen(t, i)
  <1>1. CASE t.refs[s] = 0 /\ DirtyChunks(t, s) = {}
    <2>1. FreeIfIdle(t, s) = Remove(t, s)
        BY <1>1 DEF FreeIfIdle
    <2>2. /\ TableInv(Remove(t, s), r, o)
          /\ Remove(t, s).dirty = t.dirty /\ Remove(t, s).slot = t.slot
          /\ \A u \in Slot : (u # s => Busy(t, u)) => Busy(Remove(t, s), u)
          /\ \A i \in InoNum : Pending(Remove(t, s), i) = Pending(t, i)
          /\ \A i \in InoNum : IsOpen(Remove(t, s), i) <=> IsOpen(t, i)
        BY <1>1, RemoveKeeps
    <2> QED
        BY <2>1, <2>2
  <1>2. CASE ~(t.refs[s] = 0 /\ DirtyChunks(t, s) = {})
    <2>1. FreeIfIdle(t, s) = t
        BY <1>2 DEF FreeIfIdle
    <2>2. t.refs[s] \in Nat
        BY Fields DEF TableInv
    <2>3. Busy(t, s)
        BY <1>2, <2>2 DEF Busy
    <2> QED
        BY <2>1, <2>3
  <1> QED
      BY <1>1, <1>2

\* The data of a write, through a handle in use.
LEMMA BufferedKeeps ==
  ASSUME NEW t, NEW r, TableInv(t, r, opened), opened \in [Fh -> MaybeFile],
         NEW h \in Fh, opened[h] # NoFile, NEW c \in Chunk
  PROVE  /\ TableInv(Buffered(t, h, c), r, opened)
         /\ t.slot[h] \in Slot /\ t.ino[t.slot[h]] \in InoNum
         /\ t.byIno[t.ino[t.slot[h]]] = t.slot[h]
         /\ Buffered(t, h, c).byIno = t.byIno /\ Buffered(t, h, c).refs = t.refs
         /\ \A u \in Slot : Busy(t, u) => Busy(Buffered(t, h, c), u)
         /\ c \in Pending(Buffered(t, h, c), t.ino[t.slot[h]])
         /\ \A i \in InoNum : Pending(t, i) \subseteq Pending(Buffered(t, h, c), i)
  <1> USE Zeros
  <1> DEFINE n == Buffered(t, h, c)
             s == t.slot[h]
  <1>1. t \in TableShape /\ s \in Slot /\ t.ino[s] \in InoNum /\ t.byIno[t.ino[s]] = s
        /\ r[t.ino[s]].file = opened[h] /\ opened[h] \in MaybeFile
      BY Fields DEF TableInv, Reached, Indexed
  <1>2. /\ n.ino = t.ino /\ n.refs = t.refs /\ n.unlinked = t.unlinked
        /\ n.dirty = [t.dirty EXCEPT ![s] = [@ EXCEPT ![c] = opened[h]]]
        /\ n.byIno = t.byIno /\ n.slot = t.slot
        /\ n \in TableShape
    <2>1. [t.dirty EXCEPT ![s] = [@ EXCEPT ![c] = opened[h]]] \in [Slot -> [Chunk -> MaybeFile]]
        BY <1>1, Fields
    <2> QED
        BY <1>1, <2>1 DEF Buffered, TableShape
  <1> HIDE DEF n
  <1>3. Indexed(n) /\ Counted(n) /\ Reached(n, r, opened) /\ Marked(n, r)
      BY <1>2 DEF TableInv, Indexed, Counted, Reached, Marked
  <1>4. \A u \in Slot, d \in Chunk :
          n.dirty[u][d] = IF u = s /\ d = c THEN opened[h] ELSE t.dirty[u][d]
      BY <1>1, <1>2, Fields
  <1>5. Owned(n, r)
      BY <1>1, <1>2, <1>4, Zeros DEF TableInv, Owned
  <1>6. c \in DirtyChunks(n, s) /\ \A u \in Slot : DirtyChunks(t, u) \subseteq DirtyChunks(n, u)
      BY <1>1, <1>4 DEF DirtyChunks
  <1>7. \A u \in Slot : Busy(t, u) => Busy(n, u)
      BY <1>2, <1>6 DEF Busy
  <1>8. c \in Pending(n, t.ino[s]) /\ \A i \in InoNum : Pending(t, i) \subseteq Pending(n, i)
      BY <1>1, <1>2, <1>6, Fields DEF Pending
  <1> QED
      BY <1>1, <1>2, <1>3, <1>5, <1>7, <1>8 DEF TableInv, n

\* The table does not depend on rows of inodes that have no slot.
LEMMA RowsChange ==
  ASSUME NEW t, NEW r, NEW q, NEW o, TableInv(t, r, o),
         \A s \in Slot : t.ino[s] # NoIno =>
           /\ q[t.ino[s]].file = r[t.ino[s]].file
           /\ q[t.ino[s]].nlink = 0 <=> r[t.ino[s]].nlink = 0
  PROVE  TableInv(t, q, o)
  <1>1. Reached(t, q, o)
    <2>1. \A h \in Fh : t.slot[h] # NoSlot => t.slot[h] \in Slot
        BY Fields DEF TableInv
    <2> QED
        BY <2>1 DEF TableInv, Reached
  <1>2. Owned(t, q) /\ Marked(t, q)
      BY DEF TableInv, Owned, Marked
  <1> QED
      BY <1>1, <1>2 DEF TableInv

\* entry_removed's mark.
MarkSlot(t, s) == [t EXCEPT !.unlinked[s] = TRUE]

\* It goes on the slot of an inode that has lost its last name.
LEMMA MarkKeeps ==
  ASSUME NEW t, NEW r, NEW q, NEW o, TableInv(t, r, o), NEW s \in Slot, t.ino[s] # NoIno,
         q[t.ino[s]].nlink = 0,
         \A i \in InoNum : q[i].file = r[i].file,
         \A i \in InoNum : i # t.ino[s] => (q[i].nlink = 0 <=> r[i].nlink = 0)
  PROVE  /\ TableInv(MarkSlot(t, s), q, o)
         /\ \A i \in InoNum : Pending(MarkSlot(t, s), i) = Pending(t, i)
         /\ \A i \in InoNum : IsOpen(MarkSlot(t, s), i) <=> IsOpen(t, i)
         /\ t.refs[s] > 0 =>
              \A u \in Slot : Busy(t, u) => Busy(MarkSlot(t, s), u)
  <1> USE Zeros
  <1> DEFINE n == MarkSlot(t, s)
  <1>1. t \in TableShape /\ t.ino[s] \in InoNum
      BY Fields DEF TableInv
  <1>2. /\ n.ino = t.ino /\ n.refs = t.refs /\ n.unlinked = [t.unlinked EXCEPT ![s] = TRUE]
        /\ n.dirty = t.dirty /\ n.byIno = t.byIno /\ n.slot = t.slot
        /\ n \in TableShape
      BY <1>1 DEF MarkSlot, TableShape
  <1> HIDE DEF n
  <1>3. Indexed(n) /\ Counted(n)
      BY <1>2 DEF TableInv, Indexed, Counted
  <1>4. Reached(n, q, o)
    <2>1. \A h \in Fh : t.slot[h] # NoSlot => t.slot[h] \in Slot
        BY <1>1, Fields
    <2>2. \A u \in Slot : t.ino[u] # NoIno => t.ino[u] \in InoNum
        BY <1>1, Fields
    <2> QED
        BY <1>2, <2>1, <2>2 DEF TableInv, Reached
  <1>5. Owned(n, q)
      BY <1>1, <1>2, Fields DEF TableInv, Owned
  <1>6. Marked(n, q)
    <2> SUFFICES ASSUME NEW u \in Slot
                 PROVE  n.unlinked[u] <=> (n.ino[u] # NoIno /\ q[n.ino[u]].nlink = 0)
        BY DEF Marked
    <2>1. CASE u = s
        BY <1>1, <1>2, <2>1, Fields
    <2>2. CASE u # s
      <3>1. n.unlinked[u] = t.unlinked[u]
          BY <1>1, <1>2, <2>2, Fields
      <3>2. t.ino[u] # NoIno => t.ino[u] \in InoNum /\ t.ino[u] # t.ino[s]
          BY <1>1, <2>2, Fields DEF TableInv, Indexed
      <3> QED
          BY <1>2, <3>1, <3>2 DEF TableInv, Marked
    <2> QED
        BY <2>1, <2>2
  <1>7. \A i \in InoNum : Pending(n, i) = Pending(t, i) /\ (IsOpen(n, i) <=> IsOpen(t, i))
      BY <1>2 DEF Pending, DirtyChunks, IsOpen
  <1>8. t.refs[s] > 0 => \A u \in Slot : Busy(t, u) => Busy(n, u)
      BY <1>1, <1>2, Fields DEF Busy, DirtyChunks
  <1> QED
      BY <1>2, <1>3, <1>4, <1>5, <1>6, <1>7, <1>8 DEF TableInv, n

------------------------------------------------------------------------------
(* Chunk rows and what is owed *)

\* Deleting some rows leaves the others where they belong.
LEMMA FewerRows ==
  ASSUME NEW ch, NEW r, ChunkRowsSound(ch, r), NEW g \in [Key -> MaybeFile],
         \A k \in Key : g[k] \in {NoFile, ch[k]}
  PROVE  ChunkRowsSound(g, r)
  <1>1. \A i \in InoNum, c \in Chunk : ChunkKey(i, c) \in Key
      BY KeyRange, TableAssumption DEF Chunk
  <1> QED
      BY <1>1 DEF ChunkRowsSound

\* Deleting the rows of an inode's key range leaves none of its data, so that its
\* number may be used for another file.
LEMMA RangeDeleted ==
  ASSUME NEW ch, NEW r, NEW q, ChunkRowsSound(ch, r), NEW i \in InoNum,
         \A j \in InoNum \ {i} : q[j].file = r[j].file
  PROVE  ChunkRowsSound([k \in Key |-> IF k \in KeysOf(i) THEN NoFile ELSE ch[k]], q)
  <1> DEFINE g == [k \in Key |-> IF k \in KeysOf(i) THEN NoFile ELSE ch[k]]
  <1>1. \A j \in InoNum, c \in Chunk : ChunkKey(j, c) \in Key
      BY KeyRange, TableAssumption DEF Chunk
  <1>2. g \in [Key -> MaybeFile]
      BY DEF ChunkRowsSound, MaybeFile
  <1>3. \A c \in Chunk : g[ChunkKey(i, c)] = NoFile
      BY <1>1 DEF KeysOf
  <1>4. ASSUME NEW j \in InoNum \ {i}, NEW c \in Chunk
        PROVE  g[ChunkKey(j, c)] \in {NoFile, q[j].file}
      BY <1>1 DEF ChunkRowsSound
  <1>5. \A k \in Key : k < ChunkKey(2, 0) => g[k] = NoFile
      BY DEF ChunkRowsSound
  <1> QED
      BY <1>2, <1>3, <1>4, <1>5 DEF ChunkRowsSound

\* replace_chunks stores the data of a slot under its own inode.
LEMMA StoredSound ==
  ASSUME NEW t, NEW o, TableInv(t, inode, o), NEW s \in Slot, t.ino[s] # NoIno,
         ChunkRowsSound(chunks, inode)
  PROVE  ChunkRowsSound(Stored(t, s), inode)
  <1> DEFINE D == DirtyChunks(t, s)
             i == t.ino[s]
             At(k) == CHOOSE c \in D : k = ChunkKey(i, c)
             g == Stored(t, s)
  <1>1. i \in InoNum /\ D \subseteq Chunk /\ t.dirty[s] \in [Chunk -> MaybeFile]
      BY Fields DEF TableInv, DirtyChunks
  <1>2. \A j \in InoNum, c \in Chunk : ChunkKey(j, c) \in Key /\ ~(ChunkKey(j, c) < ChunkKey(2, 0))
    <2>1. ChunkKey(2, 0) \in Nat
        BY TableAssumption DEF ChunkKey
    <2> QED
        BY <2>1, KeyRange, TableAssumption DEF Chunk
  <1>3. \A k \in Key : (\E c \in D : k = ChunkKey(i, c)) => At(k) \in D /\ k = ChunkKey(i, At(k))
      OBVIOUS
  <1>4. g = [k \in Key |-> IF \E c \in D : k = ChunkKey(i, c) THEN t.dirty[s][At(k)] ELSE chunks[k]]
      BY DEF Stored
  <1> HIDE DEF At, D, g
  <1>5. g \in [Key -> MaybeFile]
      BY <1>1, <1>3, <1>4 DEF ChunkRowsSound
  <1>6. ASSUME NEW j \in InoNum, NEW c \in Chunk
        PROVE  g[ChunkKey(j, c)] \in {NoFile, inode[j].file}
    <2> DEFINE k == ChunkKey(j, c)
    <2>1. CASE \E d \in D : k = ChunkKey(i, d)
      <3>1. At(k) \in D /\ k = ChunkKey(i, At(k)) /\ g[k] = t.dirty[s][At(k)]
          BY <1>2, <1>3, <1>4, <2>1
      <3>2. i = j
          BY <1>1, <3>1, KeyInjective
      <3>3. t.dirty[s][At(k)] = inode[i].file
          BY <1>1, <3>1 DEF TableInv, Owned, D, DirtyChunks
      <3> QED
          BY <3>1, <3>2, <3>3
    <2>2. CASE ~ \E d \in D : k = ChunkKey(i, d)
        BY <1>2, <1>4, <2>2 DEF ChunkRowsSound
    <2> QED
        BY <2>1, <2>2
  <1>7. \A k \in Key : k < ChunkKey(2, 0) => g[k] = NoFile
      BY <1>1, <1>2, <1>4 DEF ChunkRowsSound
  <1> QED
      BY <1>5, <1>6, <1>7 DEF ChunkRowsSound, g

\* A flush of a slot takes from what is owed exactly what it stores.
LEMMA FlushOwed ==
  ASSUME NEW t, NEW r, NEW o, TableInv(t, r, o), NEW s \in Slot,
         NEW w \in SUBSET (FileId \X Chunk), OwedKept(t, r, w)
  PROVE  OwedKept(Cleaned(t, s), r, w \ Settled(t, s))
  <1> SUFFICES ASSUME NEW p \in w, p \notin Settled(t, s), NEW i \in InoNum,
                      r[i].file = p[1], r[i].nlink > 0
               PROVE  p[2] \in Pending(Cleaned(t, s), i)
      BY DEF OwedKept
  <1>1. p[2] \in Pending(t, i) /\ p = <<p[1], p[2]>>
      BY DEF OwedKept
  <1>2. t.byIno[i] # NoSlot /\ t.byIno[i] \in Slot /\ p[2] \in DirtyChunks(t, t.byIno[i])
      BY <1>1, Fields DEF TableInv, Pending
  <1>3. t.byIno[i] # s
    <2> SUFFICES ASSUME t.byIno[i] = s PROVE FALSE
        OBVIOUS
    <2>1. t.ino[s] = i /\ p[2] \in DirtyChunks(t, s)
        BY <1>2 DEF TableInv, Indexed
    <2>2. t.dirty[s][p[2]] = p[1]
        BY <2>1 DEF TableInv, Owned, DirtyChunks
    <2> QED
        BY <1>1, <2>1, <2>2 DEF Settled
  <1> QED
      BY <1>2, <1>3, CleanedKeeps DEF Pending

\* A flush followed by free_if_idle, as every request but fsync does it.
LEMMA FlushKeeps ==
  ASSUME NEW t, NEW r, NEW o, TableInv(t, r, o), NEW s \in Slot, t.ino[s] # NoIno,
         \A u \in Slot \ {s} : Busy(t, u), t.unlinked[s] => t.refs[s] > 0,
         NEW w \in SUBSET (FileId \X Chunk), OwedKept(t, r, w)
  PROVE  LET n == FreeIfIdle(Cleaned(t, s), s)
         IN  /\ TableInv(n, r, o)
             /\ \A u \in Slot : Busy(n, u)
             /\ OwedKept(n, r, w \ Settled(t, s))
             /\ n.slot = t.slot
             /\ \A i \in InoNum : IsOpen(n, i) <=> IsOpen(t, i)
  <1> DEFINE m == Cleaned(t, s)
             n == FreeIfIdle(m, s)
  <1>1. /\ TableInv(m, r, o) /\ m.ino = t.ino /\ m.unlinked = t.unlinked /\ m.refs = t.refs
        /\ m.byIno = t.byIno /\ m.slot = t.slot
        /\ \A u \in Slot \ {s} : Busy(m, u)
      BY CleanedKeeps
  <1>2. OwedKept(m, r, w \ Settled(t, s))
      BY FlushOwed
  <1> HIDE DEF m
  <1>3. /\ TableInv(n, r, o) /\ \A u \in Slot : Busy(n, u)
        /\ n.slot = m.slot
        /\ \A i \in InoNum : Pending(n, i) = Pending(m, i)
        /\ \A i \in InoNum : IsOpen(n, i) <=> IsOpen(m, i)
      BY <1>1, FreeIfIdleKeeps
  <1> HIDE DEF n
  <1>4. OwedKept(n, r, w \ Settled(t, s))
      BY <1>2, <1>3 DEF OwedKept
  <1>5. \A i \in InoNum : IsOpen(n, i) <=> IsOpen(t, i)
      BY <1>1, <1>3 DEF IsOpen
  <1> QED
      BY <1>1, <1>3, <1>4, <1>5 DEF m, n

------------------------------------------------------------------------------
(* An inode loses an entry *)

\* The names of an inode are finitely many; a name that leads to it counts.
LEMMA NamesCount ==
  ASSUME RestShape, RowsSound(inode), NlinkCountsNames, NEW i \in InoNum
  PROVE  /\ IsFiniteSet(NamesOf(i)) /\ Cardinality(NamesOf(i)) \in Nat
         /\ inode[i].nlink \in Nat /\ inode[i].nlink = Cardinality(NamesOf(i))
         /\ \A n \in Name : dirent[n] = i => inode[i].file # NoFile /\ inode[i].nlink > 0
  <1>1. IsFiniteSet(NamesOf(i))
      BY TableAssumption, FS_Subset DEF NamesOf
  <1>2. Cardinality(NamesOf(i)) \in Nat /\ (Cardinality(NamesOf(i)) = 0 <=> NamesOf(i) = {})
      BY <1>1, FS_CardinalityType, FS_EmptySet
  <1>3. inode[i].nlink \in Nat
      BY DEF RowsSound, RowShape
  <1>4. inode[i].nlink = Cardinality(NamesOf(i))
      BY <1>2 DEF NlinkCountsNames, RowsSound
  <1>5. ASSUME NEW n \in Name, dirent[n] = i PROVE inode[i].file # NoFile /\ inode[i].nlink > 0
    <2>1. NamesOf(i) # {}
        BY <1>5 DEF NamesOf
    <2> QED
        BY <1>2, <1>3, <1>4, <2>1 DEF NlinkCountsNames
  <1> QED
      BY <1>1, <1>2, <1>3, <1>4, <1>5

\* An inode without an open handle has no handle at all.
LEMMA NotOpen ==
  ASSUME NEW t, NEW r, NEW o, TableInv(t, r, o), RowsSound(r), NEW i \in InoNum,
         ~IsOpen(t, i), r[i].file # NoFile
  PROVE  /\ \A h \in Fh : o[h] # r[i].file
         /\ t.byIno[i] # NoSlot => t.byIno[i] \in Slot /\ t.refs[t.byIno[i]] = 0
  <1>1. t.byIno[i] # NoSlot => t.byIno[i] \in Slot /\ t.refs[t.byIno[i]] = 0
      BY Fields DEF TableInv, IsOpen
  <1>2. ASSUME NEW h \in Fh, o[h] = r[i].file PROVE FALSE
    <2> DEFINE s == t.slot[h]
    <2>1. s \in Slot /\ t.ino[s] \in InoNum /\ r[t.ino[s]].file = o[h]
        BY <1>2, Fields DEF TableInv, Reached
    <2>2. t.ino[s] = i /\ t.byIno[i] = s
        BY <1>2, <2>1, Zeros DEF RowsSound, TableInv, Indexed
    <2>3. Cardinality({g \in Fh : t.slot[g] = s}) = 0
        BY <1>1, <2>1, <2>2, Zeros DEF TableInv, Counted
    <2>4. IsFiniteSet({g \in Fh : t.slot[g] = s})
        BY TableAssumption, FS_Subset
    <2>5. {g \in Fh : t.slot[g] = s} = {}
        BY <2>3, <2>4, FS_EmptySet
    <2> QED
        BY <2>5
  <1> QED
      BY <1>1, <1>2

\* discard_slot, on a slot without handles: what is left does not depend on its inode.
LEMMA DiscardKeeps ==
  ASSUME NEW t, NEW r, NEW o, TableInv(t, r, o), NEW s \in Slot, NEW i \in InoNum,
         t.ino[s] = i, t.refs[s] = 0, \A u \in Slot \ {s} : Busy(t, u)
  PROVE  LET d == DiscardSlot(t, s)
         IN  /\ TableInv(d, r, o) /\ \A u \in Slot : Busy(d, u)
             /\ \A u \in Slot : d.ino[u] # NoIno => d.ino[u] \in InoNum /\ d.ino[u] # i
             /\ \A j \in InoNum : j # i => Pending(d, j) = Pending(t, j)
             /\ \A j \in InoNum : IsOpen(d, j) <=> IsOpen(t, j)
  <1> USE Zeros
  <1> DEFINE m == Cleaned(t, s)
             d == Remove(m, s)
  <1>1. /\ TableInv(m, r, o)
        /\ m.ino = t.ino /\ m.byIno = t.byIno /\ m.refs = t.refs
        /\ DirtyChunks(m, s) = {}
        /\ \A u \in Slot \ {s} : DirtyChunks(m, u) = DirtyChunks(t, u)
        /\ \A u \in Slot \ {s} : Busy(m, u)
      BY CleanedKeeps
  <1> HIDE DEF m
  <1>2. TableInv(m, r, o) /\ m.ino[s] # NoIno /\ m.refs[s] = 0 /\ DirtyChunks(m, s) = {}
      BY <1>1
  <1>3. /\ TableInv(d, r, o)
        /\ d.ino = [m.ino EXCEPT ![s] = NoIno]
        /\ \A u \in Slot : (u # s => Busy(m, u)) => Busy(d, u)
        /\ \A j \in InoNum : Pending(d, j) = Pending(m, j)
        /\ \A j \in InoNum : IsOpen(d, j) <=> IsOpen(m, j)
      BY <1>2, RemoveKeeps
  <1> HIDE DEF d
  <1>4. ASSUME NEW u \in Slot, d.ino[u] # NoIno PROVE d.ino[u] \in InoNum /\ d.ino[u] # i
    <2>1. t.ino \in [Slot -> InoNum \cup {NoIno}]
        BY Fields DEF TableInv
    <2>2. u # s /\ d.ino[u] = t.ino[u]
        BY <1>1, <1>3, <1>4, <2>1
    <2> QED
        BY <1>4, <2>1, <2>2 DEF TableInv, Indexed
  <1>5. \A j \in InoNum : j # i => Pending(m, j) = Pending(t, j)
    <2>1. \A j \in InoNum : j # i => t.byIno[j] # s /\ (t.byIno[j] # NoSlot => t.byIno[j] \in Slot)
        BY Fields DEF TableInv, Indexed
    <2> QED
        BY <1>1, <2>1 DEF Pending
  <1>6. \A j \in InoNum : IsOpen(m, j) <=> IsOpen(t, j)
      BY <1>1 DEF IsOpen
  <1>7. DiscardSlot(t, s) = d
      BY DEF DiscardSlot, d, m
  <1>8. \A j \in InoNum : /\ j # i => Pending(d, j) = Pending(t, j)
                          /\ IsOpen(d, j) <=> IsOpen(t, j)
      BY <1>3, <1>5, <1>6
  <1>9. \A u \in Slot : Busy(d, u)
      BY <1>1, <1>3
  <1> QED
      BY <1>3, <1>4, <1>7, <1>8, <1>9

\* unlink and a replacing rename, but for the entry: drop_unlinked_inode and
\* entry_removed agree on whether the inode lives on.
LEMMA LoseEntryKeeps ==
  ASSUME OpenInv, mounted, NEW n \in Name, dirent[n] # NoIno, LoseEntry(dirent[n])
  PROVE  LET i    == dirent[n]
             gone == ~(inode[i].nlink > 1 \/ IsOpen(table, i))
         IN  /\ i \in InoNum /\ inode[i].nlink > 0
             /\ inode' = IF gone THEN [inode EXCEPT ![i] = NoRow]
                                 ELSE [inode EXCEPT ![i].nlink = @ - 1]
             /\ TableInv(table', inode', opened)
             /\ \A s \in Slot : Busy(table', s)
             /\ RowsSound(inode')
             /\ ChunkRowsSound(chunks', inode')
             /\ OwedKept(table', inode', owed)
             /\ \A j \in InoNum :
                  inode'[j].file # NoFile /\ inode'[j].nlink = 0 =>
                    IsOpen(table', j) \/ j \in stuck
  <1> USE Zeros
  <1> DEFINE i == dirent[n]
             gone == ~(inode[i].nlink > 1 \/ IsOpen(table, i))
  <1>0. /\ TableInv(table, inode, opened) /\ \A s \in Slot : Busy(table, s)
        /\ RowsSound(inode) /\ ChunkRowsSound(chunks, inode) /\ RestShape
        /\ NlinkCountsNames /\ OwedKept(table, inode, owed)
      BY DEF OpenInv
  <1>1. i \in InoNum /\ inode[i].file # NoFile /\ inode[i].nlink > 0 /\ inode[i].nlink \in Nat
      BY <1>0, NamesCount DEF RestShape
  <1>2. \A j \in InoNum : inode[j].file # NoFile /\ inode[j].nlink = 0 =>
                            IsOpen(table, j) \/ j \in stuck
      BY DEF OpenInv, OrphansAccounted, Orphans, Rows
  <1>3. inode \in RowShape /\ \A j \in InoNum : inode[j].file \in MaybeFile /\ inode[j].nlink \in Nat
      BY <1>0 DEF RowsSound, RowShape
  <1>4. CASE inode[i].nlink > 1 \/ IsOpen(table, i)
    <2>1. inode' = [inode EXCEPT ![i].nlink = @ - 1] /\ chunks' = chunks
        BY <1>4 DEF LoseEntry, DropUnlinkedInode
    <2>2. /\ inode' \in RowShape
          /\ inode'[i].nlink = inode[i].nlink - 1
          /\ \A j \in InoNum : inode'[j].file = inode[j].file
          /\ \A j \in InoNum \ {i} : inode'[j] = inode[j]
        BY <1>1, <1>3, <2>1 DEF RowShape
    <2>3. RowsSound(inode') /\ ChunkRowsSound(chunks', inode')
        BY <1>0, <1>1, <2>1, <2>2 DEF RowsSound, ChunkRowsSound
    <2>4. CASE inode[i].nlink > 1
      <3>1. table' = table
          BY <2>4 DEF LoseEntry, EntryRemoved
      <3>2. TableInv(table, inode', opened)
        <4>1. \A s \in Slot : table.ino[s] # NoIno =>
                /\ inode'[table.ino[s]].file = inode[table.ino[s]].file
                /\ inode'[table.ino[s]].nlink = 0 <=> inode[table.ino[s]].nlink = 0
            BY <1>0, <1>1, <2>2, <2>4, Fields DEF TableInv
        <4> QED
            BY <1>0, <4>1, RowsChange
      <3>3. OwedKept(table, inode', owed)
          BY <1>0, <1>1, <2>2, <2>4 DEF OwedKept
      <3> QED
          BY <1>0, <1>1, <1>2, <1>4, <2>1, <2>2, <2>3, <2>4, <3>1, <3>2, <3>3
    <2>5. CASE ~(inode[i].nlink > 1)
      <3> DEFINE s == table.byIno[i]
      <3>1. inode'[i].nlink = 0
          BY <1>1, <2>2, <2>5
      <3>2. s \in Slot /\ table.ino[s] = i /\ table.refs[s] > 0
          BY <1>0, <1>1, <1>4, <2>5, Fields DEF TableInv, Indexed, IsOpen
      <3>3. table' = MarkSlot(table, s)
          BY <1>4, <2>5, <3>2 DEF LoseEntry, EntryRemoved, MarkSlot
      <3>4. /\ TableInv(table', inode', opened)
            /\ \A u \in Slot : Busy(table', u)
            /\ \A j \in InoNum : Pending(table', j) = Pending(table, j)
            /\ \A j \in InoNum : IsOpen(table', j) <=> IsOpen(table, j)
        <4>1. /\ table.ino[s] # NoIno /\ inode'[table.ino[s]].nlink = 0
              /\ \A j \in InoNum : inode'[j].file = inode[j].file
              /\ \A j \in InoNum : j # table.ino[s] =>
                   (inode'[j].nlink = 0 <=> inode[j].nlink = 0)
            BY <1>1, <2>2, <3>1, <3>2
        <4> HIDE DEF s
        <4>2. /\ TableInv(MarkSlot(table, s), inode', opened)
              /\ \A j \in InoNum : Pending(MarkSlot(table, s), j) = Pending(table, j)
              /\ \A j \in InoNum : IsOpen(MarkSlot(table, s), j) <=> IsOpen(table, j)
              /\ \A u \in Slot : Busy(table, u) => Busy(MarkSlot(table, s), u)
            BY <1>0, <3>2, <4>1, MarkKeeps
        <4> QED
            BY <1>0, <3>3, <4>2
      <3>5. OwedKept(table', inode', owed)
        <4>1. \A j \in InoNum : inode'[j].nlink > 0 => j # i
            BY <3>1
        <4> QED
            BY <1>0, <2>2, <3>4, <4>1 DEF OwedKept
      <3> QED
          BY <1>1, <1>2, <1>4, <2>1, <2>2, <2>3, <2>5, <3>4, <3>5
    <2> QED
        BY <2>4, <2>5
  <1>5. CASE gone
    <2>1. /\ inode' = [inode EXCEPT ![i] = NoRow]
          /\ chunks' = [k \in Key |-> IF k \in KeysOf(i) THEN NoFile ELSE chunks[k]]
        BY <1>5 DEF LoseEntry, DropUnlinkedInode
    <2>2. /\ inode' \in RowShape /\ inode'[i] = NoRow
          /\ \A j \in InoNum \ {i} : inode'[j] = inode[j]
        BY <1>1, <1>3, <2>1 DEF RowShape, NoRow, MaybeFile
    <2>3. RowsSound(inode')
        BY <1>0, <2>2 DEF RowsSound, NoRow
    <2>4. ChunkRowsSound(chunks', inode')
      <3>1. \A j \in InoNum \ {i} : inode'[j].file = inode[j].file
          BY <2>2
      <3>2. ChunkRowsSound([k \in Key |-> IF k \in KeysOf(i) THEN NoFile ELSE chunks[k]], inode')
          BY <1>0, <1>1, <3>1, RangeDeleted
      <3> QED
          BY <2>1, <3>2
    <2>5. /\ TableInv(table', inode', opened) /\ \A s \in Slot : Busy(table', s)
          /\ \A j \in InoNum \ {i} : Pending(table', j) = Pending(table, j)
          /\ \A j \in InoNum \ {i} : IsOpen(table', j) <=> IsOpen(table, j)
      <3>1. CASE table.byIno[i] = NoSlot
        <4>1. table' = table
            BY <1>5, <3>1 DEF LoseEntry, EntryRemoved
        <4>2. \A s \in Slot : table.ino[s] # NoIno => table.ino[s] \in InoNum \ {i}
            BY <1>0, <3>1, Fields DEF TableInv, Indexed
        <4>3. TableInv(table, inode', opened)
            BY <1>0, <2>2, <4>2, RowsChange
        <4> QED
            BY <1>0, <4>1, <4>3
      <3>2. CASE table.byIno[i] # NoSlot
        <4> DEFINE s == table.byIno[i]
        <4>1. s \in Slot /\ table.ino[s] = i /\ table.refs[s] = 0
            BY <1>0, <1>1, <1>5, <3>2, NotOpen DEF TableInv, Indexed
        <4>2. table' = DiscardSlot(table, s)
            BY <1>5, <3>2 DEF LoseEntry, EntryRemoved
        <4> HIDE DEF s
        <4>3. /\ TableInv(table', inode, opened) /\ \A u \in Slot : Busy(table', u)
              /\ \A u \in Slot : table'.ino[u] # NoIno => table'.ino[u] \in InoNum /\ table'.ino[u] # i
              /\ \A j \in InoNum : j # i => Pending(table', j) = Pending(table, j)
              /\ \A j \in InoNum : IsOpen(table', j) <=> IsOpen(table, j)
            BY <1>0, <1>1, <4>1, <4>2, DiscardKeeps
        <4>4. TableInv(table', inode', opened)
          <5>1. \A u \in Slot : table'.ino[u] # NoIno =>
                  /\ inode'[table'.ino[u]].file = inode[table'.ino[u]].file
                  /\ inode'[table'.ino[u]].nlink = 0 <=> inode[table'.ino[u]].nlink = 0
              BY <2>2, <4>3
          <5> QED
              BY <4>3, <5>1, RowsChange
        <4> QED
            BY <4>3, <4>4
      <3> QED
          BY <3>1, <3>2
    <2>6. OwedKept(table', inode', owed)
      <3>1. \A j \in InoNum : inode'[j].nlink > 0 => j # i
          BY <2>2 DEF NoRow
      <3> QED
          BY <1>0, <2>2, <2>5, <3>1 DEF OwedKept
    <2>7. \A j \in InoNum : inode'[j].file # NoFile /\ inode'[j].nlink = 0 =>
                              IsOpen(table', j) \/ j \in stuck
      <3>1. \A j \in InoNum : inode'[j].file # NoFile => j # i
          BY <2>2 DEF NoRow
      <3> QED
          BY <1>2, <2>2, <2>5, <3>1
    <2> QED
        BY <1>1, <1>5, <2>1, <2>3, <2>4, <2>5, <2>6, <2>7
  <1> QED
      BY <1>4, <1>5

------------------------------------------------------------------------------
(* Names *)

NamesIn(d, i) == {n \in Name : d[n] = i}
NamesSound(d, r) ==
  \A i \in InoNum : IF r[i].file = NoFile THEN NamesIn(d, i) = {}
                    ELSE r[i].nlink = Cardinality(NamesIn(d, i))

\* The names of an inode are finitely many.
LEMMA NamesFinite ==
  ASSUME NEW d, NEW i
  PROVE  IsFiniteSet(NamesIn(d, i)) /\ Cardinality(NamesIn(d, i)) \in Nat
  <1>1. IsFiniteSet(NamesIn(d, i))
      BY TableAssumption, FS_Subset DEF NamesIn
  <1> QED
      BY <1>1, FS_CardinalityType

\* A free name becomes a name of inode i.
LEMMA NameAdded ==
  ASSUME NEW d \in [Name -> InoNum \cup {NoIno}], NEW n \in Name, NEW i \in InoNum,
         d[n] = NoIno, NEW e \in [Name -> InoNum \cup {NoIno}],
         e[n] = i, \A x \in Name \ {n} : e[x] = d[x]
  PROVE  /\ \A j \in InoNum : j # i => NamesIn(e, j) = NamesIn(d, j)
         /\ Cardinality(NamesIn(e, i)) = Cardinality(NamesIn(d, i)) + 1
  <1>1. \A j \in InoNum : j # i => NamesIn(e, j) = NamesIn(d, j)
      BY Zeros DEF NamesIn
  <1>2. NamesIn(e, i) = NamesIn(d, i) \cup {n} /\ n \notin NamesIn(d, i)
      BY Zeros DEF NamesIn
  <1>3. Cardinality(NamesIn(e, i)) = Cardinality(NamesIn(d, i)) + 1
      BY <1>2, NamesFinite, FS_AddElement
  <1> QED
      BY <1>1, <1>3

\* A name of inode i becomes free.
LEMMA NameDropped ==
  ASSUME NEW d \in [Name -> InoNum \cup {NoIno}], NEW n \in Name, NEW i \in InoNum,
         d[n] = i, NEW e \in [Name -> InoNum \cup {NoIno}],
         e[n] = NoIno, \A x \in Name \ {n} : e[x] = d[x]
  PROVE  /\ \A j \in InoNum : j # i => NamesIn(e, j) = NamesIn(d, j)
         /\ Cardinality(NamesIn(e, i)) = Cardinality(NamesIn(d, i)) - 1
         /\ Cardinality(NamesIn(d, i)) \in Nat
         /\ Cardinality(NamesIn(d, i)) = 1 => NamesIn(e, i) = {}
  <1>1. \A j \in InoNum : j # i => NamesIn(e, j) = NamesIn(d, j)
      BY Zeros DEF NamesIn
  <1>2. NamesIn(e, i) = NamesIn(d, i) \ {n} /\ n \in NamesIn(d, i)
      BY Zeros DEF NamesIn
  <1>3. IsFiniteSet(NamesIn(d, i)) /\ IsFiniteSet(NamesIn(e, i))
        /\ Cardinality(NamesIn(d, i)) \in Nat /\ Cardinality(NamesIn(e, i)) \in Nat
      BY NamesFinite
  <1>4. Cardinality(NamesIn(e, i)) = Cardinality(NamesIn(d, i)) - 1
      BY <1>2, <1>3, FS_RemoveElement
  <1>5. Cardinality(NamesIn(e, i)) = 0 => NamesIn(e, i) = {}
      BY <1>3, FS_EmptySet
  <1> QED
      BY <1>1, <1>3, <1>4, <1>5

\* The last name of an inode is its only one, so the cascade finds no other.
LEMMA WithoutIs ==
  ASSUME OpenInv, NEW n \in Name
  PROVE  Without(n) = [dirent EXCEPT ![n] = NoIno]
  <1> USE Zeros
  <1> DEFINE i == dirent[n]
             d == [dirent EXCEPT ![n] = NoIno]
  <1>1. dirent \in [Name -> InoNum \cup {NoIno}]
      BY DEF OpenInv, RestShape
  <1>2. CASE i = NoIno \/ inode[i].nlink > 1 \/ IsOpen(table, i)
      BY <1>2 DEF Without
  <1>3. CASE ~(i = NoIno \/ inode[i].nlink > 1 \/ IsOpen(table, i))
    <2>1. i \in InoNum
        BY <1>1, <1>3
    <2>2. inode[i].nlink = 1 /\ inode[i].nlink = Cardinality(NamesOf(i))
        BY <1>3, <2>1, NamesCount DEF OpenInv
    <2>3. NamesIn(d, i) = {}
      <3>1. NamesIn(dirent, i) = NamesOf(i)
          BY DEF NamesIn, NamesOf
      <3>2. d \in [Name -> InoNum \cup {NoIno}] /\ d[n] = NoIno /\ i = dirent[n]
            /\ \A x \in Name \ {n} : d[x] = dirent[x]
          BY <1>1
      <3> HIDE DEF d, i
      <3> QED
          BY <1>1, <2>1, <2>2, <3>1, <3>2, NameDropped
    <2>4. \A x \in Name : d[x] # i
        BY <2>3 DEF NamesIn
    <2>5. Without(n) = [x \in Name |-> IF d[x] = i THEN NoIno ELSE d[x]]
        BY <1>3 DEF Without
    <2>6. d \in [Name -> InoNum \cup {NoIno}]
        BY <1>1
    <2> HIDE DEF d, i
    <2>7. [x \in Name |-> IF d[x] = i THEN NoIno ELSE d[x]] = d
        BY <2>4, <2>6
    <2> QED
        BY <2>5, <2>7 DEF d
  <1> QED
      BY <1>2, <1>3

\* nlink follows the entry that goes.
LEMMA EntryGone ==
  ASSUME OpenInv, NEW n \in Name, dirent[n] \in InoNum,
         LET i    == dirent[n]
             gone == ~(inode[i].nlink > 1 \/ IsOpen(table, i))
         IN  inode' = IF gone THEN [inode EXCEPT ![i] = NoRow]
                              ELSE [inode EXCEPT ![i].nlink = @ - 1]
  PROVE  NamesSound([dirent EXCEPT ![n] = NoIno], inode')
  <1> USE Zeros
  <1> DEFINE i == dirent[n]
             d == [dirent EXCEPT ![n] = NoIno]
  <1>1. dirent \in [Name -> InoNum \cup {NoIno}] /\ inode \in RowShape
      BY DEF OpenInv, RestShape, RowsSound
  <1>2. /\ inode[i].nlink = Cardinality(NamesIn(dirent, i)) /\ inode[i].nlink > 0
        /\ inode[i].file # NoFile /\ inode[i].nlink \in Nat
      BY NamesCount DEF OpenInv, NamesIn, NamesOf
  <1>3. /\ \A j \in InoNum : j # i => NamesIn(d, j) = NamesIn(dirent, j)
        /\ Cardinality(NamesIn(d, i)) = Cardinality(NamesIn(dirent, i)) - 1
        /\ Cardinality(NamesIn(dirent, i)) = 1 => NamesIn(d, i) = {}
    <2>1. d \in [Name -> InoNum \cup {NoIno}] /\ d[n] = NoIno /\ i = dirent[n] /\ i \in InoNum
          /\ \A x \in Name \ {n} : d[x] = dirent[x]
        BY <1>1
    <2> HIDE DEF d, i
    <2> QED
        BY <1>1, <2>1, NameDropped
  <1>4. \A j \in InoNum \ {i} : inode'[j] = inode[j]
      BY <1>1 DEF RowShape
  <1>5. \/ inode'[i] = NoRow /\ inode[i].nlink = 1
        \/ inode'[i].file = inode[i].file /\ inode'[i].nlink = inode[i].nlink - 1
      BY <1>1, <1>2 DEF RowShape
  <1> HIDE DEF d, i
  <1>6. ASSUME NEW j \in InoNum
        PROVE  IF inode'[j].file = NoFile THEN NamesIn(d, j) = {}
               ELSE inode'[j].nlink = Cardinality(NamesIn(d, j))
    <2>1. CASE j = i
        BY <1>2, <1>3, <1>5, <2>1 DEF NoRow
    <2>2. CASE j # i
      <3>1. inode'[j] = inode[j] /\ NamesIn(d, j) = NamesIn(dirent, j)
          BY <1>3, <1>4, <2>2
      <3> QED
          BY <3>1 DEF OpenInv, NlinkCountsNames, NamesIn, NamesOf
    <2> QED
        BY <2>1, <2>2
  <1> QED
      BY <1>6 DEF NamesSound, d

\* A name becomes another name of the same inode.
LEMMA NameMoves ==
  ASSUME NEW d \in [Name -> InoNum \cup {NoIno}], NEW r, NamesSound(d, r),
         NEW n \in Name, NEW m \in Name, n # m, d[n] \in InoNum, d[m] = NoIno
  PROVE  NamesSound([d EXCEPT ![n] = NoIno, ![m] = d[n]], r)
  <1> USE Zeros
  <1> DEFINE i == d[n]
             e == [d EXCEPT ![n] = NoIno]
             f == [e EXCEPT ![m] = i]
  <1>1. /\ e \in [Name -> InoNum \cup {NoIno}]
        /\ \A j \in InoNum : j # i => NamesIn(e, j) = NamesIn(d, j)
        /\ Cardinality(NamesIn(e, i)) = Cardinality(NamesIn(d, i)) - 1
        /\ Cardinality(NamesIn(d, i)) \in Nat
    <2>1. e \in [Name -> InoNum \cup {NoIno}] /\ e[n] = NoIno /\ i = d[n] /\ i \in InoNum
          /\ \A x \in Name \ {n} : e[x] = d[x]
        OBVIOUS
    <2> HIDE DEF e, i
    <2> QED
        BY <2>1, NameDropped
  <1>2. e[m] = NoIno /\ n \in NamesIn(d, i)
      BY DEF NamesIn
  <1>3. [d EXCEPT ![n] = NoIno, ![m] = d[n]] = f
      OBVIOUS
  <1> HIDE DEF e, i
  <1>4. /\ \A j \in InoNum : j # i => NamesIn(f, j) = NamesIn(e, j)
        /\ Cardinality(NamesIn(f, i)) = Cardinality(NamesIn(e, i)) + 1
    <2>1. i \in InoNum
        BY DEF i
    <2>2. f \in [Name -> InoNum \cup {NoIno}] /\ f[m] = i /\ \A x \in Name \ {m} : f[x] = e[x]
        BY <1>1, <2>1
    <2> HIDE DEF f
    <2> QED
        BY <1>1, <1>2, <2>1, <2>2, NameAdded
  <1>5. r[i].file # NoFile
      BY <1>2 DEF NamesSound, i
  <1> HIDE DEF f
  <1>6. ASSUME NEW j \in InoNum
        PROVE  IF r[j].file = NoFile THEN NamesIn(f, j) = {}
               ELSE r[j].nlink = Cardinality(NamesIn(f, j))
    <2>1. CASE j = i
        BY <1>1, <1>4, <1>5, <2>1 DEF NamesSound
    <2>2. CASE j # i
        BY <1>1, <1>4, <2>2 DEF NamesSound
    <2> QED
        BY <2>1, <2>2
  <1> QED
      BY <1>3, <1>6 DEF NamesSound

------------------------------------------------------------------------------
(* The requests *)

\* While mounted no sweep is under way.
LEMMA MountedFacts ==
  ASSUME OpenInv, mounted
  PROVE  /\ swept = NoIno
         /\ \A i \in InoNum : inode[i].file # NoFile /\ inode[i].nlink = 0 =>
                                IsOpen(table, i) \/ i \in stuck
         /\ NamesSound(dirent, inode)
         /\ inode \in RowShape
         /\ \A i \in InoNum : inode[i].file \in MaybeFile /\ inode[i].nlink \in Nat
  BY DEF OpenInv, StartupInv, OrphansAccounted, Orphans, Rows, NlinkCountsNames, NamesOf,
     NamesSound, NamesIn, RowsSound, RowShape

\* What is left to show of a request that ends mounted.
LEMMA MountedAfter ==
  ASSUME mounted', swept' = NoIno, RestShape',
         TableInv(table', inode', opened'), \A s \in Slot : Busy(table', s),
         RowsSound(inode'), ChunkRowsSound(chunks', inode'), NamesSound(dirent', inode'),
         OwedKept(table', inode', owed'),
         \A i \in InoNum : inode'[i].file # NoFile /\ inode'[i].nlink = 0 =>
                             IsOpen(table', i) \/ i \in stuck'
  PROVE  OpenInv'
  <1>1. StartupInv'
      BY DEF StartupInv
  <1>2. NlinkCountsNames'
      BY DEF NlinkCountsNames, NamesSound, NamesOf, NamesIn
  <1>3. OrphansAccounted'
      BY DEF OrphansAccounted, Orphans, Rows, IsOpen
  <1>4. OwedKept(table, inode, owed)'
      BY DEF OwedKept, Pending, DirtyChunks
  <1>5. TableInv(table, inode, opened)' /\ (\A s \in Slot : Busy(table, s))'
      BY DEF TableInv, Indexed, Counted, Reached, Owned, Marked, Busy, DirtyChunks
  <1>6. RowsSound(inode)' /\ ChunkRowsSound(chunks, inode)'
      BY DEF RowsSound, ChunkRowsSound
  <1> QED
      BY <1>1, <1>2, <1>3, <1>4, <1>5, <1>6 DEF OpenInv

\* create_node: the new row has a free number and an identity nothing refers to.
LEMMA CreateNodeKeeps ==
  ASSUME OpenInv, NEW n \in Name, CreateNode(n)
  PROVE  /\ NewIno \in InoNum /\ table.byIno[NewIno] = NoSlot
         /\ inode'[NewIno] = [file |-> NewFile, nlink |-> 1]
         /\ NewFile \in FileId /\ NewFile # NoFile
         /\ TableInv(table, inode', opened)
         /\ RowsSound(inode') /\ ChunkRowsSound(chunks', inode')
         /\ NamesSound(dirent', inode') /\ dirent' \in [Name -> InoNum \cup {NoIno}]
         /\ OwedKept(table, inode', owed') /\ owed' \in SUBSET (FileId \X Chunk)
         /\ stuck' \in SUBSET InoNum
         /\ \A i \in InoNum : inode'[i].file # NoFile /\ inode'[i].nlink = 0 =>
                                IsOpen(table, i) \/ i \in stuck'
  <1> USE Zeros
  <1>0. /\ TableInv(table, inode, opened) /\ \A s \in Slot : Busy(table, s)
        /\ RowsSound(inode) /\ ChunkRowsSound(chunks, inode) /\ RestShape
        /\ OwedKept(table, inode, owed) /\ NamesSound(dirent, inode)
        /\ inode \in RowShape
        /\ \A i \in InoNum : inode[i].file # NoFile /\ inode[i].nlink = 0 =>
                               IsOpen(table, i) \/ i \in stuck
      BY MountedFacts DEF OpenInv, CreateNode
  <1> DEFINE i == NewIno
             f == NewFile
  <1>1. i \in InoNum /\ inode[i].file = NoFile /\ inode[i].nlink = 0
      BY <1>0, NewInoFree DEF CreateNode, Rows, RowsSound
  <1>2. f \in FileId /\ f # NoFile /\ \A j \in InoNum : inode[j].file # f
      BY TableAssumption DEF CreateNode, NewFile, Unused
  <1>3. /\ inode' = [inode EXCEPT ![i] = [file |-> f, nlink |-> 1]]
        /\ owed' = {p \in owed : p[1] # f} /\ stuck' = stuck \ {i} /\ chunks' = chunks
      BY DEF CreateNode
  <1> HIDE DEF i, f
  <1>4. /\ inode' \in RowShape /\ inode'[i] = [file |-> f, nlink |-> 1]
        /\ \A j \in InoNum : j # i => inode'[j] = inode[j]
      BY <1>0, <1>1, <1>2, <1>3 DEF RowShape, MaybeFile
  <1>5. RowsSound(inode')
      BY <1>0, <1>2, <1>4 DEF RowsSound
  <1>6. \A s \in Slot : table.ino[s] # NoIno => table.ino[s] \in InoNum /\ table.ino[s] # i
      BY <1>0, <1>1, LiveHasRow
  <1>7. TableInv(table, inode', opened)
    <2>1. \A s \in Slot : table.ino[s] # NoIno =>
            /\ inode'[table.ino[s]].file = inode[table.ino[s]].file
            /\ inode'[table.ino[s]].nlink = 0 <=> inode[table.ino[s]].nlink = 0
        BY <1>4, <1>6
    <2> QED
        BY <1>0, <2>1, RowsChange
  <1>8. table.byIno[i] = NoSlot
      BY <1>0, <1>1, <1>6, Fields DEF TableInv, Indexed
  <1>9. ChunkRowsSound(chunks', inode')
    <2>1. ASSUME NEW j \in InoNum, NEW c \in Chunk
          PROVE  chunks[ChunkKey(j, c)] \in {NoFile, inode'[j].file}
        BY <1>0, <1>1, <1>4 DEF ChunkRowsSound
    <2> QED
        BY <1>0, <1>3, <2>1 DEF ChunkRowsSound
  <1>10. NamesSound(dirent', inode') /\ dirent' \in [Name -> InoNum \cup {NoIno}]
    <2>1. dirent \in [Name -> InoNum \cup {NoIno}]
        BY <1>0 DEF RestShape
    <2>2. dirent' \in [Name -> InoNum \cup {NoIno}] /\ dirent[n] = NoIno /\ dirent'[n] = i
          /\ \A x \in Name \ {n} : dirent'[x] = dirent[x]
        BY <1>1, <2>1 DEF CreateNode, i
    <2>3. /\ \A j \in InoNum : j # i => NamesIn(dirent', j) = NamesIn(dirent, j)
          /\ Cardinality(NamesIn(dirent', i)) = Cardinality(NamesIn(dirent, i)) + 1
        BY <1>1, <2>1, <2>2, NameAdded
    <2>4. Cardinality(NamesIn(dirent, i)) = 0
        BY <1>0, <1>1, FS_EmptySet DEF NamesSound
    <2>5. ASSUME NEW j \in InoNum
          PROVE  IF inode'[j].file = NoFile THEN NamesIn(dirent', j) = {}
                 ELSE inode'[j].nlink = Cardinality(NamesIn(dirent', j))
      <3>1. CASE j = i
          BY <1>2, <1>4, <2>3, <2>4, <3>1
      <3>2. CASE j # i
          BY <1>0, <1>4, <2>3, <3>2 DEF NamesSound
      <3> QED
          BY <3>1, <3>2
    <2> QED
        BY <2>2, <2>5 DEF NamesSound
  <1>11. OwedKept(table, inode', owed')
    <2> SUFFICES ASSUME NEW p \in owed', NEW j \in InoNum,
                        inode'[j].file = p[1], inode'[j].nlink > 0
                 PROVE  p[2] \in Pending(table, j)
        BY DEF OwedKept
    <2>1. j # i /\ p \in owed
        BY <1>3, <1>4
    <2> QED
        BY <1>0, <1>4, <2>1 DEF OwedKept
  <1>12. owed' \in SUBSET (FileId \X Chunk) /\ stuck' \in SUBSET InoNum
      BY <1>0, <1>3 DEF RestShape
  <1>13. \A j \in InoNum : inode'[j].file # NoFile /\ inode'[j].nlink = 0 =>
                             IsOpen(table, j) \/ j \in stuck'
      BY <1>0, <1>3, <1>4
  <1> QED
      BY <1>1, <1>2, <1>4, <1>5, <1>7, <1>8, <1>9, <1>10, <1>11, <1>12, <1>13 DEF i, f

\* mknod.
LEMMA MknodStep == ASSUME OpenInv, NEW n \in Name, Mknod(n) PROVE OpenInv'
  <1>1. CreateNode(n) /\ UNCHANGED <<table, opened>>
      BY DEF Mknod
  <1>2. mounted' /\ swept' = NoIno
      BY <1>1, MountedFacts DEF CreateNode
  <1>3. RestShape'
      BY <1>1, <1>2, CreateNodeKeeps DEF OpenInv, RestShape
  <1>4. \A s \in Slot : Busy(table', s)
      BY <1>1 DEF OpenInv
  <1> QED
      BY <1>1, <1>2, <1>3, <1>4, CreateNodeKeeps, MountedAfter

\* create.
LEMMA CreateOpenStep ==
  ASSUME OpenInv, NEW n \in Name, NEW h \in Fh, CreateOpen(n, h) PROVE OpenInv'
  <1> USE Zeros
  <1> DEFINE i == NewIno
             r == inode'
  <1>1. CreateNode(n) /\ opened[h] = NoFile /\ opened' = [opened EXCEPT ![h] = NewFile]
      BY DEF CreateOpen
  <1>2. mounted' /\ swept' = NoIno
      BY <1>1, MountedFacts DEF CreateNode
  <1>3. PICK s \in FreeSlots(table) : table' = OpenSlot(Insert(table, s, i), s, h)
      BY DEF CreateOpen
  <1> DEFINE m == Insert(table, s, i)
             t == OpenSlot(m, s, h)
  <1>4. /\ i \in InoNum /\ table.byIno[i] = NoSlot /\ r[i] = [file |-> NewFile, nlink |-> 1]
        /\ NewFile \in FileId /\ NewFile # NoFile /\ TableInv(table, r, opened)
        /\ RowsSound(r) /\ ChunkRowsSound(chunks', r)
        /\ NamesSound(dirent', r) /\ dirent' \in [Name -> InoNum \cup {NoIno}]
        /\ OwedKept(table, r, owed') /\ owed' \in SUBSET (FileId \X Chunk)
        /\ stuck' \in SUBSET InoNum
        /\ \A j \in InoNum : r[j].file # NoFile /\ r[j].nlink = 0 => IsOpen(table, j) \/ j \in stuck'
      BY <1>1, CreateNodeKeeps
  <1>5. s \in Slot /\ table.ino[s] = NoIno /\ opened \in [Fh -> MaybeFile]
        /\ \A u \in Slot : Busy(table, u)
      BY DEF FreeSlots, OpenInv, RestShape
  <1> HIDE DEF i, r
  <1>6. /\ TableInv(m, r, opened) /\ m.ino = [table.ino EXCEPT ![s] = i]
        /\ m.byIno = [table.byIno EXCEPT ![i] = s] /\ m.dirty = table.dirty
        /\ \A u \in Slot \ {s} : Busy(table, u) => Busy(m, u)
      BY <1>4, InsertKeeps
  <1>7. table.ino \in [Slot -> InoNum \cup {NoIno}] /\ table.byIno \in [InoNum -> Slot \cup {NoSlot}]
      BY <1>4, Fields DEF TableInv
  <1>8. m.ino[s] = i /\ m.byIno[i] = s /\ \A j \in InoNum : j # i => m.byIno[j] = table.byIno[j]
      BY <1>4, <1>5, <1>6, <1>7
  <1> HIDE DEF m
  <1>9. /\ TableInv(t, r, opened')
        /\ t.byIno = m.byIno /\ t.dirty = m.dirty /\ t.refs = [m.refs EXCEPT ![s] = @ + 1]
        /\ Busy(t, s) /\ \A u \in Slot : Busy(m, u) => Busy(t, u)
    <2>1. m.ino[s] # NoIno /\ r[m.ino[s]].file # NoFile
        BY <1>4, <1>8
    <2>2. opened[h] = NoFile /\ opened'[h] = r[m.ino[s]].file
          /\ \A g \in Fh \ {h} : opened'[g] = opened[g]
        BY <1>1, <1>4, <1>5, <1>8
    <2> QED
        BY <1>5, <1>6, <2>1, <2>2, OpenSlotKeeps
  <1>10. \A u \in Slot : Busy(t, u)
      BY <1>5, <1>6, <1>9
  <1>11. m.refs \in [Slot -> Nat]
      BY <1>6, Fields DEF TableInv
  <1> HIDE DEF t
  <1>12. \A j \in InoNum : Pending(table, j) \subseteq Pending(t, j)
    <2>1. \A j \in InoNum : j # i => t.byIno[j] = table.byIno[j]
        BY <1>8, <1>9
    <2>2. t.dirty = table.dirty
        BY <1>6, <1>9
    <2> QED
        BY <1>4, <2>1, <2>2 DEF Pending, DirtyChunks
  <1>13. OwedKept(t, r, owed')
      BY <1>4, <1>12 DEF OwedKept
  <1>14. \A j \in InoNum : r[j].file # NoFile /\ r[j].nlink = 0 => IsOpen(t, j) \/ j \in stuck'
    <2> SUFFICES ASSUME NEW j \in InoNum, r[j].file # NoFile, r[j].nlink = 0, j \notin stuck'
                 PROVE  IsOpen(t, j)
        OBVIOUS
    <2>1. j # i /\ IsOpen(table, j)
        BY <1>4
    <2>2. table.byIno[j] # s /\ table.byIno[j] \in Slot
        BY <1>4, <1>5, <1>7, <2>1 DEF IsOpen, TableInv, Indexed
    <2>3. m.refs = [table.refs EXCEPT ![s] = 0]
        BY <1>4, <1>5 DEF m, Insert, TableInv, TableShape
    <2>4. t.refs[table.byIno[j]] = table.refs[table.byIno[j]]
      <3>1. table.refs \in [Slot -> Nat]
          BY <1>4, Fields DEF TableInv
      <3> QED
          BY <1>5, <1>9, <1>11, <2>2, <2>3, <3>1
    <2> QED
        BY <1>8, <1>9, <2>1, <2>2, <2>4 DEF IsOpen
  <1>15. RestShape'
      BY <1>1, <1>2, <1>4, <1>5 DEF RestShape, MaybeFile
  <1> QED
      BY <1>2, <1>3, <1>4, <1>9, <1>10, <1>13, <1>14, <1>15, MountedAfter DEF t, m, r

\* open.
LEMMA OpenHandleStep ==
  ASSUME OpenInv, NEW i \in InoNum, NEW h \in Fh, Open(i, h) PROVE OpenInv'
  <1> USE Zeros
  <1>0. /\ TableInv(table, inode, opened) /\ \A s \in Slot : Busy(table, s)
        /\ RowsSound(inode) /\ ChunkRowsSound(chunks, inode) /\ RestShape
        /\ OwedKept(table, inode, owed)
      BY DEF OpenInv
  <1>1. /\ mounted' /\ swept' = NoIno /\ mounted /\ NamesSound(dirent, inode)
        /\ \A j \in InoNum : inode[j].file # NoFile /\ inode[j].nlink = 0 =>
                               IsOpen(table, j) \/ j \in stuck
      BY MountedFacts DEF Open
  <1>2. inode[i].file # NoFile /\ opened[h] = NoFile /\ inode[i].file \in MaybeFile
      BY <1>1, MountedFacts DEF Open, KernelKnows
  <1>3. /\ opened' \in [Fh -> MaybeFile] /\ opened \in [Fh -> MaybeFile]
        /\ opened'[h] = inode[i].file /\ \A g \in Fh \ {h} : opened'[g] = opened[g]
      BY <1>0, <1>2 DEF Open, RestShape
  <1>4. table.byIno \in [InoNum -> Slot \cup {NoSlot}] /\ table.ino \in [Slot -> InoNum \cup {NoIno}]
        /\ table.refs \in [Slot -> Nat]
      BY <1>0, Fields DEF TableInv
  <1>5. UNCHANGED <<inode, dirent, chunks, owed, stuck>>
      BY DEF Open, disk
  <1>6. \E s \in Slot : \E m :
          /\ table' = OpenSlot(m, s, h)
          /\ TableInv(m, inode, opened) /\ m.ino[s] = i
          /\ \A u \in Slot \ {s} : Busy(m, u)
          /\ \A j \in InoNum : Pending(m, j) = Pending(table, j)
          /\ \A j \in InoNum : IsOpen(table, j) => IsOpen(m, j)
    <2>1. CASE table.byIno[i] # NoSlot
      <3>1. table' = OpenSlot(table, table.byIno[i], h)
          BY <2>1 DEF Open
      <3>2. table.byIno[i] \in Slot /\ table.ino[table.byIno[i]] = i
          BY <1>0, <1>4, <2>1 DEF TableInv, Indexed
      <3> QED
          BY <1>0, <3>1, <3>2
    <2>2. CASE table.byIno[i] = NoSlot
      <3>1. PICK s \in FreeSlots(table) : table' = OpenSlot(Insert(table, s, i), s, h)
          BY <2>2 DEF Open
      <3> DEFINE m == Insert(table, s, i)
      <3>2. inode[i].nlink # 0
        <4> SUFFICES ASSUME inode[i].nlink = 0 PROVE FALSE
            OBVIOUS
        <4>1. PICK g \in Fh : opened[g] = inode[i].file
            BY DEF Open, KernelKnows
        <4>2. table.slot[g] \in Slot /\ table.ino[table.slot[g]] \in InoNum
              /\ inode[table.ino[table.slot[g]]].file = inode[i].file
            BY <1>0, <1>2, <4>1, Fields DEF TableInv, Reached
        <4>3. table.ino[table.slot[g]] = i
            BY <1>0, <1>2, <4>2 DEF RowsSound
        <4> QED
            BY <1>0, <2>2, <4>2, <4>3 DEF TableInv, Indexed
      <3>3. s \in Slot /\ table.ino[s] = NoIno
          BY DEF FreeSlots
      <3>4. /\ TableInv(m, inode, opened) /\ m.ino = [table.ino EXCEPT ![s] = i]
            /\ m.byIno = [table.byIno EXCEPT ![i] = s] /\ m.dirty = table.dirty
            /\ \A u \in Slot \ {s} : Busy(table, u) => Busy(m, u)
          BY <1>0, <2>2, <3>2, InsertKeeps
      <3>5. m.refs = [table.refs EXCEPT ![s] = 0]
          BY <1>0, <3>3 DEF Insert, TableInv, TableShape
      <3>6. m.ino[s] = i /\ m.byIno[i] = s /\ \A j \in InoNum : j # i => m.byIno[j] = table.byIno[j]
          BY <1>4, <3>3, <3>4
      <3>7. \A u \in Slot : u # s => m.refs[u] = table.refs[u]
          BY <1>4, <3>5
      <3>8. m.dirty = table.dirty
          BY <3>4
      <3>9. DirtyChunks(table, s) = {}
          BY <1>0, <3>3 DEF TableInv, Owned, DirtyChunks
      <3> HIDE DEF m
      <3>10. \A j \in InoNum : Pending(m, j) = Pending(table, j)
        <4>1. \A u : DirtyChunks(m, u) = DirtyChunks(table, u)
            BY <3>8 DEF DirtyChunks
        <4> QED
            BY <2>2, <3>3, <3>6, <3>9, <4>1 DEF Pending
      <3>11. ASSUME NEW j \in InoNum, IsOpen(table, j) PROVE IsOpen(m, j)
        <4>1. table.byIno[j] \in Slot /\ table.byIno[j] # s /\ j # i
            BY <1>0, <1>4, <2>2, <3>3, <3>11 DEF IsOpen, TableInv, Indexed
        <4> QED
            BY <3>6, <3>7, <3>11, <4>1 DEF IsOpen
      <3>12. /\ table' = OpenSlot(m, s, h) /\ TableInv(m, inode, opened) /\ m.ino[s] = i
             /\ \A u \in Slot \ {s} : Busy(m, u)
          BY <1>0, <3>1, <3>4, <3>6 DEF m
      <3> QED
          BY <3>3, <3>10, <3>11, <3>12
    <2> QED
        BY <2>1, <2>2
  <1>6a. PICK s \in Slot : \E m :
          /\ table' = OpenSlot(m, s, h)
          /\ TableInv(m, inode, opened) /\ m.ino[s] = i
          /\ \A u \in Slot \ {s} : Busy(m, u)
          /\ \A j \in InoNum : Pending(m, j) = Pending(table, j)
          /\ \A j \in InoNum : IsOpen(table, j) => IsOpen(m, j)
      BY <1>6
  <1>7. PICK m :
          /\ table' = OpenSlot(m, s, h)
          /\ TableInv(m, inode, opened) /\ m.ino[s] = i
          /\ \A u \in Slot \ {s} : Busy(m, u)
          /\ \A j \in InoNum : Pending(m, j) = Pending(table, j)
          /\ \A j \in InoNum : IsOpen(table, j) => IsOpen(m, j)
      BY <1>6a
  <1> DEFINE t == OpenSlot(m, s, h)
  <1>8. /\ TableInv(t, inode, opened')
        /\ t.byIno = m.byIno /\ t.dirty = m.dirty /\ t.refs = [m.refs EXCEPT ![s] = @ + 1]
        /\ Busy(t, s) /\ \A u \in Slot : Busy(m, u) => Busy(t, u)
    <2>1. m.ino[s] # NoIno /\ inode[m.ino[s]].file = inode[i].file
        BY <1>7
    <2> HIDE DEF t
    <2> QED
        BY <1>2, <1>3, <1>7, <2>1, OpenSlotKeeps DEF t
  <1>9. m.refs \in [Slot -> Nat] /\ m.byIno \in [InoNum -> Slot \cup {NoSlot}]
      BY <1>7, Fields DEF TableInv
  <1> HIDE DEF t
  <1>10. \A j \in InoNum : Pending(t, j) = Pending(table, j)
      BY <1>7, <1>8 DEF Pending, DirtyChunks
  <1>11. \A j \in InoNum : IsOpen(table, j) => IsOpen(t, j)
      BY <1>7, <1>8, <1>9 DEF IsOpen
  <1>12. OwedKept(t, inode, owed)
      BY <1>0, <1>10 DEF OwedKept
  <1>13. RestShape'
      BY <1>0, <1>1, <1>3, <1>5 DEF RestShape
  <1>14. table' = t /\ \A u \in Slot : Busy(t, u)
      BY <1>7, <1>8 DEF t
  <1> QED
      BY <1>0, <1>1, <1>5, <1>8, <1>11, <1>12, <1>13, <1>14, MountedAfter

\* Requests that leave inodes, entries and handles alone: the table, the chunk rows
\* and what is owed decide.
LEMMA DataStep ==
  ASSUME OpenInv, mounted, UNCHANGED <<inode, dirent, mounted, swept, opened, stuck>>,
         TableInv(table', inode, opened), \A s \in Slot : Busy(table', s),
         ChunkRowsSound(chunks', inode), OwedKept(table', inode, owed'),
         owed' \in SUBSET (FileId \X Chunk),
         \A i \in InoNum : IsOpen(table', i) <=> IsOpen(table, i)
  PROVE  OpenInv'
  <1>1. /\ swept = NoIno /\ NamesSound(dirent, inode)
        /\ \A j \in InoNum : inode[j].file # NoFile /\ inode[j].nlink = 0 =>
                               IsOpen(table, j) \/ j \in stuck
      BY MountedFacts
  <1>2. RestShape' /\ RowsSound(inode)
      BY DEF OpenInv, RestShape
  <1>3. \A j \in InoNum : inode[j].file # NoFile /\ inode[j].nlink = 0 =>
                            IsOpen(table', j) \/ j \in stuck
      BY <1>1
  <1> QED
      BY <1>1, <1>2, <1>3, MountedAfter

\* A write's data lands on the file the handle was opened on.
LEMMA WriteOwed ==
  ASSUME NEW t, TableInv(t, inode, opened), RowsSound(inode), opened \in [Fh -> MaybeFile],
         NEW h \in Fh, opened[h] # NoFile, NEW c \in Chunk,
         NEW w \in SUBSET (FileId \X Chunk), OwedKept(t, inode, w)
  PROVE  /\ OwedKept(Buffered(t, h, c), inode, w \cup {<<opened[h], c>>})
         /\ w \cup {<<opened[h], c>>} \in SUBSET (FileId \X Chunk)
  <1> USE Zeros
  <1> DEFINE n == Buffered(t, h, c)
             i == t.ino[t.slot[h]]
  <1>1. /\ c \in Pending(n, i) /\ \A j \in InoNum : Pending(t, j) \subseteq Pending(n, j)
        /\ i \in InoNum
      BY BufferedKeeps
  <1>2. inode[i].file = opened[h]
      BY DEF TableInv, Reached
  <1> HIDE DEF n
  <1>3. ASSUME NEW p \in w \cup {<<opened[h], c>>}, NEW j \in InoNum,
               inode[j].file = p[1], inode[j].nlink > 0
        PROVE  p[2] \in Pending(n, j)
    <2>1. CASE p \in w
        BY <1>1, <1>3, <2>1 DEF OwedKept
    <2>2. CASE p = <<opened[h], c>>
      <3>1. j = i
          BY <1>1, <1>2, <1>3, <2>2 DEF RowsSound
      <3> QED
          BY <1>1, <2>2, <3>1
    <2> QED
        BY <2>1, <2>2
  <1>4. opened[h] \in FileId
      BY DEF MaybeFile
  <1> QED
      BY <1>3, <1>4 DEF OwedKept, n

\* write_fh with room.
LEMMA WriteStep ==
  ASSUME OpenInv, NEW h \in Fh, NEW c \in Chunk, Write(h, c) PROVE OpenInv'
  <1>0. /\ TableInv(table, inode, opened) /\ \A s \in Slot : Busy(table, s)
        /\ RowsSound(inode) /\ ChunkRowsSound(chunks, inode)
        /\ opened \in [Fh -> MaybeFile] /\ owed \in SUBSET (FileId \X Chunk)
        /\ OwedKept(table, inode, owed)
      BY DEF OpenInv, RestShape
  <1>1. /\ mounted /\ opened[h] # NoFile /\ table' = Buffered(table, h, c)
        /\ owed' = owed \cup {<<opened[h], c>>}
        /\ UNCHANGED <<inode, dirent, chunks, mounted, swept, opened, stuck>>
      BY DEF Write, disk
  <1>2. /\ OwedKept(Buffered(table, h, c), inode, owed \cup {<<opened[h], c>>})
        /\ owed \cup {<<opened[h], c>>} \in SUBSET (FileId \X Chunk)
      BY <1>0, <1>1, WriteOwed
  <1>3. /\ TableInv(Buffered(table, h, c), inode, opened)
        /\ Buffered(table, h, c).byIno = table.byIno /\ Buffered(table, h, c).refs = table.refs
        /\ \A u \in Slot : Busy(table, u) => Busy(Buffered(table, h, c), u)
      BY <1>0, <1>1, BufferedKeeps
  <1>4. \A i \in InoNum : IsOpen(Buffered(table, h, c), i) <=> IsOpen(table, i)
      BY <1>3 DEF IsOpen
  <1>5. /\ TableInv(table', inode, opened) /\ \A s \in Slot : Busy(table', s)
        /\ OwedKept(table', inode, owed') /\ owed' \in SUBSET (FileId \X Chunk)
        /\ \A i \in InoNum : IsOpen(table', i) <=> IsOpen(table, i)
      BY <1>0, <1>1, <1>2, <1>3, <1>4
  <1>6. ChunkRowsSound(chunks', inode)
      BY <1>0, <1>1
  <1> QED
      BY <1>1, <1>5, <1>6, DataStep

\* A handle in use keeps its slot alive.
LEMMA HandleLive ==
  ASSUME NEW t, NEW r, NEW o, TableInv(t, r, o), NEW h \in Fh, o[h] # NoFile
  PROVE  /\ t.slot[h] \in Slot /\ t.ino[t.slot[h]] \in InoNum /\ t.ino[t.slot[h]] # NoIno
         /\ t.byIno[t.ino[t.slot[h]]] = t.slot[h]
         /\ r[t.ino[t.slot[h]]].file = o[h]
         /\ t.refs[t.slot[h]] \in Nat /\ t.refs[t.slot[h]] > 0
  <1> USE Zeros
  <1> DEFINE s == t.slot[h]
             H == {g \in Fh : t.slot[g] = s}
  <1>1. s \in Slot /\ t.ino[s] \in InoNum /\ t.byIno[t.ino[s]] = s /\ r[t.ino[s]].file = o[h]
      BY Fields DEF TableInv, Reached, Indexed
  <1>2. t.refs[s] = Cardinality(H) /\ t.refs[s] \in Nat
      BY <1>1, Fields DEF TableInv, Counted
  <1>3. IsFiniteSet(H) /\ H # {}
      BY TableAssumption, FS_Subset
  <1> HIDE DEF H
  <1>4. Cardinality(H) # 0
      BY <1>3, FS_EmptySet
  <1> QED
      BY <1>1, <1>2, <1>4

\* A flushed slot that a handle keeps.
LEMMA FlushOpen ==
  ASSUME OpenInv, NEW h \in Fh, opened[h] # NoFile
  PROVE  LET s == table.slot[h]
             n == Cleaned(table, s)
         IN  /\ TableInv(n, inode, opened) /\ \A u \in Slot : Busy(n, u)
             /\ OwedKept(n, inode, owed \ Settled(table, s))
             /\ n.slot = table.slot
             /\ \A i \in InoNum : IsOpen(n, i) <=> IsOpen(table, i)
             /\ ChunkRowsSound(Stored(table, s), inode)
  <1> DEFINE s == table.slot[h]
             n == Cleaned(table, s)
  <1>0. /\ TableInv(table, inode, opened) /\ \A u \in Slot : Busy(table, u)
        /\ ChunkRowsSound(chunks, inode)
        /\ owed \in SUBSET (FileId \X Chunk) /\ OwedKept(table, inode, owed)
      BY DEF OpenInv, RestShape
  <1>1. s \in Slot /\ table.ino[s] # NoIno /\ table.refs[s] > 0
      BY <1>0, HandleLive
  <1> HIDE DEF s
  <1>2. /\ TableInv(n, inode, opened) /\ n.refs = table.refs /\ n.byIno = table.byIno
        /\ n.slot = table.slot /\ \A u \in Slot \ {s} : Busy(table, u) => Busy(n, u)
      BY <1>0, <1>1, CleanedKeeps
  <1>3. OwedKept(n, inode, owed \ Settled(table, s))
      BY <1>0, <1>1, FlushOwed
  <1> HIDE DEF n
  <1>4. Busy(n, s)
      BY <1>1, <1>2 DEF Busy
  <1>5. \A u \in Slot : Busy(n, u)
      BY <1>0, <1>2, <1>4
  <1>6. \A i \in InoNum : IsOpen(n, i) <=> IsOpen(table, i)
      BY <1>2 DEF IsOpen
  <1>7. ChunkRowsSound(Stored(table, s), inode)
      BY <1>0, <1>1, StoredSound
  <1> QED
      BY <1>2, <1>3, <1>5, <1>6, <1>7 DEF s, n

\* A flushed slot that is freed if nothing keeps it.
LEMMA FlushFree ==
  ASSUME OpenInv, NEW s \in Slot, table.ino[s] # NoIno
  PROVE  LET n == FreeIfIdle(Cleaned(table, s), s)
         IN  /\ TableInv(n, inode, opened) /\ \A u \in Slot : Busy(n, u)
             /\ OwedKept(n, inode, owed \ Settled(table, s))
             /\ n.slot = table.slot
             /\ \A i \in InoNum : IsOpen(n, i) <=> IsOpen(table, i)
             /\ ChunkRowsSound(Stored(table, s), inode)
  <1>1. /\ TableInv(table, inode, opened) /\ \A u \in Slot : Busy(table, u)
        /\ ChunkRowsSound(chunks, inode)
        /\ owed \in SUBSET (FileId \X Chunk) /\ OwedKept(table, inode, owed)
      BY DEF OpenInv, RestShape
  <1>2. table.unlinked[s] => table.refs[s] > 0
      BY <1>1 DEF Busy
  <1>3. ChunkRowsSound(Stored(table, s), inode)
      BY <1>1, StoredSound
  <1> QED
      BY <1>1, <1>2, <1>3, FlushKeeps

\* flush and fsync.
LEMMA FlushFhStep == ASSUME OpenInv, NEW h \in Fh, FlushFh(h) PROVE OpenInv'
  <1>1. /\ mounted /\ opened[h] # NoFile
        /\ chunks' = Stored(table, table.slot[h]) /\ table' = Cleaned(table, table.slot[h])
        /\ owed' = owed \ Settled(table, table.slot[h])
        /\ UNCHANGED <<inode, dirent, mounted, swept, opened, stuck>>
      BY DEF FlushFh
  <1>2. owed' \in SUBSET (FileId \X Chunk)
      BY <1>1 DEF OpenInv, RestShape
  <1>3. /\ TableInv(table', inode, opened) /\ \A u \in Slot : Busy(table', u)
        /\ OwedKept(table', inode, owed') /\ ChunkRowsSound(chunks', inode)
        /\ \A i \in InoNum : IsOpen(table', i) <=> IsOpen(table, i)
      BY <1>1, FlushOpen
  <1> QED
      BY <1>1, <1>2, <1>3, DataStep

\* A slot that the index names is live.
LEMMA LiveSlot ==
  ASSUME OpenInv, NEW s \in LiveSlots(table)
  PROVE  s \in Slot /\ table.ino[s] # NoIno
  <1>1. PICK i \in InoNum : s = table.byIno[i] /\ s # NoSlot
      BY DEF LiveSlots
  <1>2. TableInv(table, inode, opened)
      BY DEF OpenInv
  <1> QED
      BY <1>1, <1>2, Fields, Zeros DEF TableInv, Indexed

\* flush_file and flush_all.
LEMMA FlushLiveStep == ASSUME OpenInv, NEW s \in Slot, FlushLive(s) PROVE OpenInv'
  <1>1. /\ mounted /\ s \in LiveSlots(table)
        /\ chunks' = Stored(table, s) /\ table' = FreeIfIdle(Cleaned(table, s), s)
        /\ owed' = owed \ Settled(table, s)
        /\ UNCHANGED <<inode, dirent, mounted, swept, opened, stuck>>
      BY DEF FlushLive
  <1>2. owed' \in SUBSET (FileId \X Chunk)
      BY <1>1 DEF OpenInv, RestShape
  <1>3. /\ TableInv(table', inode, opened) /\ \A u \in Slot : Busy(table', u)
        /\ OwedKept(table', inode, owed') /\ ChunkRowsSound(chunks', inode)
        /\ \A i \in InoNum : IsOpen(table', i) <=> IsOpen(table, i)
      BY <1>1, LiveSlot, FlushFree
  <1> QED
      BY <1>1, <1>2, <1>3, DataStep

\* write_fh that evicts another slot's data, or its own.
LEMMA WriteEvictStep ==
  ASSUME OpenInv, NEW h \in Fh, NEW c \in Chunk, WriteEvict(h, c) PROVE OpenInv'
  <1>0. /\ mounted /\ opened[h] # NoFile /\ RowsSound(inode) /\ opened \in [Fh -> MaybeFile]
        /\ owed \in SUBSET (FileId \X Chunk)
        /\ UNCHANGED <<inode, dirent, mounted, swept, opened, stuck>>
      BY DEF WriteEvict, OpenInv, RestShape
  <1>1. PICK v \in Victims(table) :
          /\ chunks' = Stored(table, v)
          /\ table' = Buffered(IF v = table.slot[h] THEN Cleaned(table, v)
                               ELSE FreeIfIdle(Cleaned(table, v), v), h, c)
          /\ owed' = (owed \ Settled(table, v)) \cup {<<opened[h], c>>}
      BY DEF WriteEvict
  <1> DEFINE m == IF v = table.slot[h] THEN Cleaned(table, v) ELSE FreeIfIdle(Cleaned(table, v), v)
             w == owed \ Settled(table, v)
  <1>2. v \in LiveSlots(table) /\ v \in Slot /\ table.ino[v] # NoIno
      BY LiveSlot DEF Victims
  <1>3. /\ TableInv(m, inode, opened) /\ \A u \in Slot : Busy(m, u)
        /\ OwedKept(m, inode, w)
        /\ \A i \in InoNum : IsOpen(m, i) <=> IsOpen(table, i)
        /\ ChunkRowsSound(Stored(table, v), inode)
    <2>1. CASE v = table.slot[h]
        BY <1>0, <2>1, FlushOpen
    <2>2. CASE v # table.slot[h]
        BY <1>2, <2>2, FlushFree
    <2> QED
        BY <2>1, <2>2
  <1>4. w \in SUBSET (FileId \X Chunk)
      BY <1>0
  <1> HIDE DEF m, w
  <1>5. /\ OwedKept(Buffered(m, h, c), inode, w \cup {<<opened[h], c>>})
        /\ w \cup {<<opened[h], c>>} \in SUBSET (FileId \X Chunk)
      BY <1>0, <1>3, <1>4, WriteOwed
  <1>6. /\ TableInv(Buffered(m, h, c), inode, opened)
        /\ Buffered(m, h, c).byIno = m.byIno /\ Buffered(m, h, c).refs = m.refs
        /\ \A u \in Slot : Busy(m, u) => Busy(Buffered(m, h, c), u)
      BY <1>0, <1>3, BufferedKeeps
  <1>7. \A i \in InoNum : IsOpen(Buffered(m, h, c), i) <=> IsOpen(table, i)
      BY <1>3, <1>6 DEF IsOpen
  <1>8. table' = Buffered(m, h, c) /\ owed' = w \cup {<<opened[h], c>>}
      BY <1>1 DEF m, w
  <1>9. /\ TableInv(table', inode, opened) /\ \A s \in Slot : Busy(table', s)
        /\ OwedKept(table', inode, owed') /\ owed' \in SUBSET (FileId \X Chunk)
        /\ \A i \in InoNum : IsOpen(table', i) <=> IsOpen(table, i)
        /\ ChunkRowsSound(chunks', inode)
      BY <1>1, <1>3, <1>5, <1>6, <1>7, <1>8
  <1> QED
      BY <1>0, <1>9, DataStep

\* setattr, fallocate and truncation.
LEMMA SetattrStep ==
  ASSUME OpenInv, NEW i \in InoNum, NEW n \in 0 .. MaxChunks, Setattr(i, n) PROVE OpenInv'
  <1> DEFINE s == table.byIno[i]
             rows == IF s = NoSlot THEN chunks ELSE Stored(table, s)
  <1>0. /\ mounted /\ UNCHANGED <<inode, dirent, mounted, swept, opened, stuck>>
        /\ chunks' = [k \in Key |->
                        IF k \in KeysOf(i) /\ k >= ChunkKey(i, n) THEN NoFile ELSE rows[k]]
      BY DEF Setattr
  <1>1. /\ TableInv(table, inode, opened) /\ \A u \in Slot : Busy(table, u)
        /\ ChunkRowsSound(chunks, inode)
        /\ owed \in SUBSET (FileId \X Chunk) /\ OwedKept(table, inode, owed)
      BY DEF OpenInv, RestShape
  <1>2. /\ TableInv(table', inode, opened) /\ \A u \in Slot : Busy(table', u)
        /\ OwedKept(table', inode, owed') /\ ChunkRowsSound(rows, inode)
        /\ owed' \in SUBSET (FileId \X Chunk)
        /\ \A j \in InoNum : IsOpen(table', j) <=> IsOpen(table, j)
    <2>1. CASE s = NoSlot
        BY <1>1, <2>1 DEF Setattr
    <2>2. CASE s # NoSlot
      <3>1. s \in Slot /\ table.ino[s] # NoIno
          BY <1>1, <2>2, Fields, Zeros DEF TableInv, Indexed
      <3>2. table' = FreeIfIdle(Cleaned(table, s), s) /\ owed' = owed \ Settled(table, s)
          BY <2>2 DEF Setattr
      <3> HIDE DEF s
      <3> QED
          BY <1>1, <2>2, <3>1, <3>2, FlushFree
    <2> QED
        BY <2>1, <2>2
  <1> HIDE DEF rows
  <1>3. ChunkRowsSound(chunks', inode)
    <2>1. chunks' \in [Key -> MaybeFile] /\ \A k \in Key : chunks'[k] \in {NoFile, rows[k]}
        BY <1>0, <1>2 DEF ChunkRowsSound, MaybeFile
    <2> QED
        BY <1>2, <2>1, FewerRows
  <1> QED
      BY <1>0, <1>2, <1>3, DataStep

\* release of the last handle of an unlinked inode, whether its deletion succeeds or not.
LEMMA ReleaseUnlinkedStep == ASSUME OpenInv, NEW h \in Fh, ReleaseUnlinked(h) PROVE OpenInv'
  <1> USE Zeros
  <1> DEFINE s == table.slot[h]
             i == table.ino[s]
             t == DropHandle(table, h)
  <1>0. /\ TableInv(table, inode, opened) /\ \A u \in Slot : Busy(table, u)
        /\ RowsSound(inode) /\ ChunkRowsSound(chunks, inode) /\ RestShape
        /\ OwedKept(table, inode, owed)
      BY DEF OpenInv
  <1>1. /\ mounted /\ opened[h] # NoFile /\ table.refs[s] = 1 /\ table.unlinked[s]
        /\ table' = DiscardSlot(t, s)
        /\ UNCHANGED <<mounted, swept, owed>>
      BY DEF ReleaseUnlinked
  <1>2. /\ swept = NoIno /\ NamesSound(dirent, inode) /\ inode \in RowShape
        /\ \A j \in InoNum : inode[j].file # NoFile /\ inode[j].nlink = 0 =>
                               IsOpen(table, j) \/ j \in stuck
      BY <1>1, MountedFacts
  <1>3. /\ opened \in [Fh -> MaybeFile] /\ opened' \in [Fh -> MaybeFile]
        /\ opened'[h] = NoFile /\ \A g \in Fh \ {h} : opened'[g] = opened[g]
      BY <1>0 DEF ReleaseUnlinked, RestShape, MaybeFile
  <1>4. s \in Slot /\ i \in InoNum /\ table.byIno[i] = s /\ inode[i].file # NoFile
      BY <1>0, <1>1, HandleLive
  <1>5. inode[i].nlink = 0
      BY <1>0, <1>1, <1>4 DEF TableInv, Marked
  <1>6. \/ UNCHANGED <<inode, dirent, chunks>> /\ stuck' = stuck \cup {i}
        \/ DeleteInodeRows(i) /\ stuck' = stuck
      BY DEF ReleaseUnlinked, disk
  <1> HIDE DEF t, s, i
  <1>7. /\ TableInv(t, inode, opened') /\ t.ino = table.ino /\ t.byIno = table.byIno
        /\ t.dirty = table.dirty /\ t.refs = [table.refs EXCEPT ![s] = @ - 1]
        /\ \A u \in Slot \ {s} : Busy(t, u)
      BY <1>0, <1>1, <1>3, DropHandleKeeps DEF t, s
  <1>8. table.refs \in [Slot -> Nat]
      BY <1>0, Fields DEF TableInv
  <1>9. t.refs[s] = 0 /\ (\A u \in Slot : u # s => t.refs[u] = table.refs[u]) /\ t.ino[s] = i
      BY <1>1, <1>4, <1>7, <1>8 DEF i
  <1>10. TableInv(t, inode, opened') /\ \A u \in Slot \ {s} : Busy(t, u)
      BY <1>7
  <1>11. /\ TableInv(table', inode, opened') /\ \A u \in Slot : Busy(table', u)
         /\ \A u \in Slot : table'.ino[u] # NoIno => table'.ino[u] \in InoNum /\ table'.ino[u] # i
         /\ \A j \in InoNum : j # i => Pending(table', j) = Pending(t, j)
         /\ \A j \in InoNum : IsOpen(table', j) <=> IsOpen(t, j)
    <2>1. t.refs[s] = 0 /\ t.ino[s] = i
        BY <1>9
    <2> QED
        BY <1>1, <1>4, <1>10, <2>1, DiscardKeeps
  <1>12. \A j \in InoNum : j # i => Pending(table', j) = Pending(table, j)
      BY <1>7, <1>11 DEF Pending, DirtyChunks
  <1>13. \A j \in InoNum : j # i /\ IsOpen(table, j) => IsOpen(table', j)
    <2>1. \A j \in InoNum : j # i => table.byIno[j] # s
        BY <1>0, <1>4 DEF TableInv, Indexed, i
    <2>2. \A j \in InoNum : table.byIno[j] # NoSlot => table.byIno[j] \in Slot
        BY <1>0, Fields DEF TableInv
    <2>3. t.byIno = table.byIno
        BY <1>7
    <2> QED
        BY <1>9, <1>11, <2>1, <2>2, <2>3 DEF IsOpen
  <1>14. stuck' \in SUBSET InoNum /\ mounted' /\ swept' = NoIno
      BY <1>0, <1>1, <1>2, <1>4, <1>6 DEF RestShape
  <1>15. CASE UNCHANGED <<inode, dirent, chunks>> /\ stuck' = stuck \cup {i}
    <2>1. RestShape'
        BY <1>0, <1>1, <1>3, <1>14, <1>15 DEF RestShape
    <2>2. OwedKept(table', inode', owed')
      <3>1. \A j \in InoNum : inode[j].nlink > 0 => j # i
          BY <1>5
      <3> QED
          BY <1>0, <1>1, <1>12, <1>15, <3>1 DEF OwedKept
    <2>3. \A j \in InoNum : inode'[j].file # NoFile /\ inode'[j].nlink = 0 =>
                              IsOpen(table', j) \/ j \in stuck'
        BY <1>2, <1>13, <1>15
    <2> QED
        BY <1>0, <1>2, <1>11, <1>14, <1>15, <2>1, <2>2, <2>3, MountedAfter
  <1>16. CASE DeleteInodeRows(i) /\ stuck' = stuck
    <2>1. inode' \in RowShape /\ inode'[i] = NoRow /\ \A j \in InoNum : j # i => inode'[j] = inode[j]
        BY <1>2, <1>4, <1>16 DEF DeleteInodeRows, RowShape, NoRow, MaybeFile
    <2>2. RowsSound(inode')
        BY <1>0, <2>1 DEF RowsSound, NoRow
    <2>3. ChunkRowsSound(chunks', inode')
      <3>1. \A j \in InoNum \ {i} : inode'[j].file = inode[j].file
          BY <2>1
      <3>2. ChunkRowsSound([k \in Key |-> IF k \in KeysOf(i) THEN NoFile ELSE chunks[k]], inode')
          BY <1>0, <1>4, <3>1, RangeDeleted
      <3> QED
          BY <1>16, <3>2 DEF DeleteInodeRows
    <2>4. NamesIn(dirent, i) = {}
      <3>1. Cardinality(NamesIn(dirent, i)) = 0
          BY <1>2, <1>4, <1>5 DEF NamesSound
      <3> QED
          BY <3>1, NamesFinite, FS_EmptySet
    <2>5. dirent' = dirent
      <3>1. dirent \in [Name -> InoNum \cup {NoIno}] /\ \A n \in Name : dirent[n] # i
          BY <1>0, <2>4 DEF RestShape, NamesIn
      <3> QED
          BY <1>16, <3>1 DEF DeleteInodeRows
    <2>6. NamesSound(dirent', inode')
      <3>1. NamesSound(dirent, inode')
        <4>1. \A j \in InoNum : j # i => inode'[j] = inode[j]
            BY <2>1
        <4>2. inode'[i].file = NoFile
            BY <2>1 DEF NoRow
        <4> QED
            BY <1>2, <2>4, <4>1, <4>2 DEF NamesSound
      <3> QED
          BY <2>5, <3>1
    <2>7. RestShape'
        BY <1>0, <1>1, <1>3, <1>14, <2>5 DEF RestShape
    <2>8. TableInv(table', inode', opened')
      <3>1. \A u \in Slot : table'.ino[u] # NoIno =>
              /\ inode'[table'.ino[u]].file = inode[table'.ino[u]].file
              /\ inode'[table'.ino[u]].nlink = 0 <=> inode[table'.ino[u]].nlink = 0
          BY <1>11, <2>1
      <3> QED
          BY <1>11, <3>1, RowsChange
    <2>9. OwedKept(table', inode', owed')
      <3>1. \A j \in InoNum : inode'[j].nlink > 0 => j # i
          BY <2>1 DEF NoRow
      <3> QED
          BY <1>0, <1>1, <1>12, <2>1, <3>1 DEF OwedKept
    <2>10. \A j \in InoNum : inode'[j].file # NoFile /\ inode'[j].nlink = 0 =>
                               IsOpen(table', j) \/ j \in stuck'
      <3>1. \A j \in InoNum : inode'[j].file # NoFile => j # i
          BY <2>1 DEF NoRow
      <3> QED
          BY <1>2, <1>13, <1>16, <2>1, <3>1
    <2> QED
        BY <1>11, <1>14, <2>2, <2>3, <2>6, <2>7, <2>8, <2>9, <2>10, MountedAfter
  <1> QED
      BY <1>6, <1>15, <1>16

\* release otherwise: nothing to flush, flushed, or the flush failed.
LEMMA ReleaseFlushStep == ASSUME OpenInv, NEW h \in Fh, ReleaseFlush(h) PROVE OpenInv'
  <1> USE Zeros
  <1> DEFINE s == table.slot[h]
             t == DropHandle(table, h)
  <1>0. /\ TableInv(table, inode, opened) /\ \A u \in Slot : Busy(table, u)
        /\ RowsSound(inode) /\ ChunkRowsSound(chunks, inode) /\ RestShape
        /\ OwedKept(table, inode, owed) /\ owed \in SUBSET (FileId \X Chunk)
      BY DEF OpenInv, RestShape
  <1>1. /\ mounted /\ opened[h] # NoFile /\ ~(table.refs[s] = 1 /\ table.unlinked[s])
        /\ UNCHANGED <<inode, dirent, mounted, swept, stuck>>
      BY DEF ReleaseFlush
  <1>2. /\ swept = NoIno /\ NamesSound(dirent, inode)
        /\ \A j \in InoNum : inode[j].file # NoFile /\ inode[j].nlink = 0 =>
                               IsOpen(table, j) \/ j \in stuck
      BY <1>1, MountedFacts
  <1>3. /\ opened \in [Fh -> MaybeFile] /\ opened' \in [Fh -> MaybeFile]
        /\ opened'[h] = NoFile /\ \A g \in Fh \ {h} : opened'[g] = opened[g]
      BY <1>0 DEF ReleaseFlush, RestShape, MaybeFile
  <1>4. /\ s \in Slot /\ table.ino[s] \in InoNum /\ table.ino[s] # NoIno
        /\ table.byIno[table.ino[s]] = s /\ table.refs[s] \in Nat /\ table.refs[s] > 0
      BY <1>0, <1>1, HandleLive
  <1>5. \/ FlushSkips(s) /\ table' = FreeIfIdle(t, s) /\ UNCHANGED <<chunks, owed>>
        \/ /\ chunks' = Stored(table, s)
           /\ table' = FreeIfIdle(Cleaned(t, s), s)
           /\ owed' = owed \ Settled(table, s)
        \/ ~FlushSkips(s) /\ table' = t /\ UNCHANGED <<chunks, owed>>
      BY DEF ReleaseFlush
  <1> HIDE DEF t, s
  <1>6. /\ TableInv(t, inode, opened') /\ t.ino = table.ino /\ t.byIno = table.byIno
        /\ t.dirty = table.dirty /\ t.unlinked = table.unlinked
        /\ t.refs = [table.refs EXCEPT ![s] = @ - 1]
        /\ \A u \in Slot \ {s} : Busy(t, u)
      BY <1>0, <1>1, <1>3, DropHandleKeeps DEF t, s
  <1>7. table.refs \in [Slot -> Nat]
      BY <1>0, Fields DEF TableInv
  <1>8. TableInv(t, inode, opened') /\ \A u \in Slot \ {s} : Busy(t, u)
      BY <1>6
  <1>9. t.refs[s] \in Nat /\ t.refs[s] = table.refs[s] - 1 /\ t.ino[s] # NoIno
      BY <1>4, <1>6, <1>7
  <1>10. t.unlinked[s] => t.refs[s] > 0
    <2>1. t.unlinked[s] = table.unlinked[s]
        BY <1>6
    <2> QED
        BY <1>1, <1>4, <1>9, <2>1
  <1>11. OwedKept(t, inode, owed) /\ Settled(t, s) = Settled(table, s)
         /\ DirtyChunks(t, s) = DirtyChunks(table, s)
      BY <1>0, <1>6 DEF OwedKept, Pending, DirtyChunks, Settled
  <1>12. \A j \in InoNum : inode[j].nlink = 0 /\ IsOpen(table, j) => IsOpen(t, j)
    <2> SUFFICES ASSUME NEW j \in InoNum, inode[j].nlink = 0, IsOpen(table, j)
                 PROVE  IsOpen(t, j)
        OBVIOUS
    <2> DEFINE u == table.byIno[j]
    <2>1. u \in Slot /\ table.ino[u] = j /\ t.byIno[j] = u /\ table.refs[u] > 0 /\ u # NoSlot
        BY <1>0, <1>6, Fields DEF TableInv, Indexed, IsOpen
    <2>2. table.unlinked[u]
        BY <1>0, <2>1 DEF TableInv, Marked
    <2>3. CASE u = s
      <3>1. t.unlinked[s] = table.unlinked[s]
          BY <1>6
      <3> HIDE DEF u
      <3> QED
          BY <1>10, <2>1, <2>2, <2>3, <3>1 DEF IsOpen
    <2>4. CASE u # s
      <3>1. t.refs[u] = table.refs[u]
          BY <1>6, <1>7, <2>1, <2>4
      <3> HIDE DEF u
      <3> QED
          BY <2>1, <3>1 DEF IsOpen
    <2> QED
        BY <2>3, <2>4
  <1>13. /\ TableInv(table', inode, opened') /\ \A u \in Slot : Busy(table', u)
         /\ OwedKept(table', inode, owed') /\ owed' \in SUBSET (FileId \X Chunk)
         /\ ChunkRowsSound(chunks', inode)
         /\ \A j \in InoNum : IsOpen(table', j) <=> IsOpen(t, j)
    <2>1. CASE FlushSkips(s) /\ table' = FreeIfIdle(t, s) /\ UNCHANGED <<chunks, owed>>
      <3>1. /\ TableInv(FreeIfIdle(t, s), inode, opened')
            /\ \A u \in Slot : Busy(FreeIfIdle(t, s), u)
            /\ \A j \in InoNum : Pending(FreeIfIdle(t, s), j) = Pending(t, j)
            /\ \A j \in InoNum : IsOpen(FreeIfIdle(t, s), j) <=> IsOpen(t, j)
          BY <1>4, <1>8, <1>9, <1>10, FreeIfIdleKeeps
      <3>2. OwedKept(FreeIfIdle(t, s), inode, owed)
          BY <1>11, <3>1 DEF OwedKept
      <3> QED
          BY <1>0, <2>1, <3>1, <3>2
    <2>2. CASE /\ chunks' = Stored(table, s)
               /\ table' = FreeIfIdle(Cleaned(t, s), s)
               /\ owed' = owed \ Settled(table, s)
      <3>1. ChunkRowsSound(Stored(table, s), inode)
          BY <1>0, <1>4, StoredSound
      <3> DEFINE n == FreeIfIdle(Cleaned(t, s), s)
      <3>2. /\ TableInv(n, inode, opened') /\ \A u \in Slot : Busy(n, u)
            /\ OwedKept(n, inode, owed \ Settled(t, s))
            /\ \A j \in InoNum : IsOpen(n, j) <=> IsOpen(t, j)
          BY <1>0, <1>4, <1>8, <1>9, <1>10, <1>11, FlushKeeps
      <3> HIDE DEF n
      <3>3. table' = n
          BY <2>2 DEF n
      <3> QED
          BY <1>0, <1>11, <2>2, <3>1, <3>2, <3>3
    <2>3. CASE ~FlushSkips(s) /\ table' = t /\ UNCHANGED <<chunks, owed>>
      <3>1. DirtyChunks(t, s) # {}
          BY <1>11, <2>3 DEF FlushSkips
      <3>2. Busy(t, s)
          BY <1>10, <3>1 DEF Busy
      <3> QED
          BY <1>0, <1>8, <1>11, <2>3, <3>2
    <2> QED
        BY <1>5, <2>1, <2>2, <2>3
  <1>14. RestShape' /\ mounted' /\ swept' = NoIno
      BY <1>0, <1>1, <1>2, <1>3, <1>13 DEF RestShape
  <1>15. \A j \in InoNum : inode[j].file # NoFile /\ inode[j].nlink = 0 =>
                             IsOpen(table', j) \/ j \in stuck
      BY <1>2, <1>12, <1>13
  <1> QED
      BY <1>0, <1>1, <1>2, <1>13, <1>14, <1>15, MountedAfter

------------------------------------------------------------------------------
(* Names *)

\* link: one more name, one more link.
LEMMA LinkStep == ASSUME OpenInv, NEW i \in InoNum, NEW n \in Name, Link(i, n) PROVE OpenInv'
  <1> USE Zeros
  <1>0. /\ TableInv(table, inode, opened) /\ \A u \in Slot : Busy(table, u)
        /\ RowsSound(inode) /\ ChunkRowsSound(chunks, inode) /\ RestShape
        /\ OwedKept(table, inode, owed) /\ dirent \in [Name -> InoNum \cup {NoIno}]
      BY DEF OpenInv, RestShape
  <1>1. /\ mounted /\ inode[i].nlink > 0 /\ dirent[n] = NoIno
        /\ UNCHANGED <<chunks, table, mounted, swept, opened, owed, stuck>>
      BY DEF Link
  <1>2. /\ swept = NoIno /\ NamesSound(dirent, inode) /\ inode \in RowShape
        /\ inode[i].file \in MaybeFile /\ inode[i].nlink \in Nat
        /\ \A j \in InoNum : inode[j].file # NoFile /\ inode[j].nlink = 0 =>
                               IsOpen(table, j) \/ j \in stuck
      BY <1>1, MountedFacts
  <1>3. /\ inode' \in RowShape
        /\ inode'[i].file = inode[i].file /\ inode'[i].nlink = inode[i].nlink + 1
        /\ \A j \in InoNum : j # i => inode'[j] = inode[j]
      BY <1>2 DEF Link, RowShape
  <1>4. /\ dirent' \in [Name -> InoNum \cup {NoIno}] /\ dirent'[n] = i
        /\ \A x \in Name \ {n} : dirent'[x] = dirent[x]
      BY <1>0 DEF Link
  <1>5. inode[i].file # NoFile
      BY <1>0, <1>1 DEF RowsSound
  <1>6. \A j \in InoNum : /\ inode'[j].file = inode[j].file
                          /\ inode'[j].nlink = 0 <=> inode[j].nlink = 0
                          /\ inode'[j].nlink > 0 => inode[j].nlink > 0
      BY <1>1, <1>2, <1>3
  <1>7. TableInv(table, inode', opened)
    <2>1. \A s \in Slot : table.ino[s] # NoIno => table.ino[s] \in InoNum
        BY <1>0, Fields DEF TableInv
    <2>2. \A s \in Slot : table.ino[s] # NoIno =>
            /\ inode'[table.ino[s]].file = inode[table.ino[s]].file
            /\ inode'[table.ino[s]].nlink = 0 <=> inode[table.ino[s]].nlink = 0
        BY <1>6, <2>1
    <2> QED
        BY <1>0, <2>2, RowsChange
  <1>8. RowsSound(inode') /\ ChunkRowsSound(chunks, inode') /\ OwedKept(table, inode', owed)
    <2>1. RowsSound(inode')
        BY <1>0, <1>3, <1>6 DEF RowsSound
    <2>2. ChunkRowsSound(chunks, inode')
        BY <1>0, <1>6 DEF ChunkRowsSound
    <2>3. OwedKept(table, inode', owed)
        BY <1>0, <1>6 DEF OwedKept
    <2> QED
        BY <2>1, <2>2, <2>3
  <1>9. NamesSound(dirent', inode')
    <2>1. /\ \A j \in InoNum : j # i => NamesIn(dirent', j) = NamesIn(dirent, j)
          /\ Cardinality(NamesIn(dirent', i)) = Cardinality(NamesIn(dirent, i)) + 1
        BY <1>0, <1>1, <1>4, NameAdded
    <2>2. inode[i].nlink = Cardinality(NamesIn(dirent, i))
        BY <1>2, <1>5 DEF NamesSound
    <2>3. ASSUME NEW j \in InoNum
          PROVE  IF inode'[j].file = NoFile THEN NamesIn(dirent', j) = {}
                 ELSE inode'[j].nlink = Cardinality(NamesIn(dirent', j))
      <3>1. CASE j = i
          BY <1>3, <1>5, <2>1, <2>2, <3>1
      <3>2. CASE j # i
          BY <1>2, <1>3, <2>1, <3>2 DEF NamesSound
      <3> QED
          BY <3>1, <3>2
    <2> QED
        BY <2>3 DEF NamesSound
  <1>10. RestShape' /\ mounted' /\ swept' = NoIno
      BY <1>0, <1>1, <1>2, <1>4 DEF RestShape
  <1> QED
      BY <1>0, <1>1, <1>2, <1>6, <1>7, <1>8, <1>9, <1>10, MountedAfter

\* unlink.
LEMMA UnlinkStep == ASSUME OpenInv, NEW n \in Name, Unlink(n) PROVE OpenInv'
  <1>0. RestShape /\ dirent \in [Name -> InoNum \cup {NoIno}]
      BY DEF OpenInv, RestShape
  <1>1. /\ mounted /\ dirent[n] # NoIno /\ LoseEntry(dirent[n])
        /\ UNCHANGED <<mounted, swept, opened, owed, stuck>>
      BY DEF Unlink
  <1>2. swept = NoIno
      BY <1>1, MountedFacts
  <1>3. /\ TableInv(table', inode', opened) /\ \A s \in Slot : Busy(table', s)
        /\ RowsSound(inode') /\ ChunkRowsSound(chunks', inode')
        /\ OwedKept(table', inode', owed)
        /\ \A j \in InoNum : inode'[j].file # NoFile /\ inode'[j].nlink = 0 =>
                               IsOpen(table', j) \/ j \in stuck
      BY <1>1, LoseEntryKeeps
  <1>4. NamesSound([dirent EXCEPT ![n] = NoIno], inode')
      BY <1>0, <1>1, LoseEntryKeeps, EntryGone
  <1>5. dirent' = [dirent EXCEPT ![n] = NoIno]
      BY WithoutIs DEF Unlink
  <1>6. RestShape' /\ mounted' /\ swept' = NoIno
      BY <1>0, <1>1, <1>2, <1>5 DEF RestShape
  <1>7. NamesSound(dirent', inode')
      BY <1>4, <1>5
  <1> QED
      BY <1>1, <1>3, <1>6, <1>7, MountedAfter

\* rename, onto a free name or over another file.
LEMMA RenameStep ==
  ASSUME OpenInv, NEW n \in Name, NEW m \in Name, Rename(n, m) PROVE OpenInv'
  <1> USE Zeros
  <1> DEFINE d == [dirent EXCEPT ![m] = NoIno]
  <1>0. RestShape /\ dirent \in [Name -> InoNum \cup {NoIno}]
      BY DEF OpenInv, RestShape
  <1>1. /\ mounted /\ n # m /\ dirent[n] \in InoNum
        /\ UNCHANGED <<mounted, swept, opened, owed, stuck>>
      BY <1>0 DEF Rename
  <1>2. /\ swept = NoIno /\ NamesSound(dirent, inode)
        /\ \A j \in InoNum : inode[j].file # NoFile /\ inode[j].nlink = 0 =>
                               IsOpen(table, j) \/ j \in stuck
      BY <1>1, MountedFacts
  <1>3. /\ d \in [Name -> InoNum \cup {NoIno}] /\ d[n] = dirent[n] /\ d[m] = NoIno
        /\ d[n] \in InoNum
      BY <1>0, <1>1
  <1>4. dirent' = [d EXCEPT ![n] = NoIno, ![m] = d[n]]
      BY <1>3, WithoutIs DEF Rename
  <1>5. /\ TableInv(table', inode', opened) /\ \A s \in Slot : Busy(table', s)
        /\ RowsSound(inode') /\ ChunkRowsSound(chunks', inode')
        /\ OwedKept(table', inode', owed) /\ NamesSound(d, inode')
        /\ \A j \in InoNum : inode'[j].file # NoFile /\ inode'[j].nlink = 0 =>
                               IsOpen(table', j) \/ j \in stuck
    <2>1. CASE dirent[m] = NoIno
      <3>1. UNCHANGED <<inode, chunks, table>> /\ d = dirent
          BY <1>0, <2>1 DEF Rename
      <3> HIDE DEF d
      <3> QED
          BY <1>2, <3>1 DEF OpenInv
    <2>2. CASE dirent[m] # NoIno
      <3>1. LoseEntry(dirent[m]) /\ dirent[m] \in InoNum
          BY <1>0, <2>2 DEF Rename
      <3>2. NamesSound([dirent EXCEPT ![m] = NoIno], inode')
          BY <1>1, <2>2, <3>1, LoseEntryKeeps, EntryGone
      <3> QED
          BY <1>1, <2>2, <3>1, <3>2, LoseEntryKeeps
    <2> QED
        BY <2>1, <2>2
  <1> HIDE DEF d
  <1>6. NamesSound([d EXCEPT ![n] = NoIno, ![m] = d[n]], inode')
      BY <1>1, <1>3, <1>5, NameMoves
  <1>7. RestShape' /\ mounted' /\ swept' = NoIno
      BY <1>0, <1>1, <1>2, <1>3, <1>4 DEF RestShape
  <1>8. NamesSound(dirent', inode')
      BY <1>4, <1>6
  <1> QED
      BY <1>1, <1>5, <1>7, <1>8, MountedAfter

------------------------------------------------------------------------------
(* Crash and restart *)

\* A table with nothing in it is sound whatever the rows.
LEMMA EmptySound ==
  ASSUME NEW r, NEW o, \A h \in Fh : o[h] = NoFile
  PROVE  TableInv(EmptyTable, r, o) /\ \A s \in Slot : Busy(EmptyTable, s)
  <1> USE Zeros
  <1> DEFINE e == EmptyTable
  <1>1. /\ e.ino = [s \in Slot |-> NoIno] /\ e.refs = [s \in Slot |-> 0]
        /\ e.unlinked = [s \in Slot |-> FALSE] /\ e.dirty = [s \in Slot |-> Clean]
        /\ e.byIno = [i \in InoNum |-> NoSlot] /\ e.slot = [h \in Fh |-> NoSlot]
      BY DEF EmptyTable
  <1>2. e \in TableShape
      BY DEF EmptyTable, TableShape, Clean, MaybeFile
  <1> HIDE DEF e
  <1>3. Indexed(e) /\ Reached(e, r, o) /\ Marked(e, r)
      BY <1>1 DEF Indexed, Reached, Marked
  <1>4. Owned(e, r)
      BY <1>1 DEF Owned, Clean
  <1>5. Counted(e)
    <2>1. \A s \in Slot : {h \in Fh : e.slot[h] = s} = {}
        BY <1>1
    <2> QED
        BY <1>1, <2>1, FS_EmptySet DEF Counted
  <1>6. \A s \in Slot : Busy(e, s)
      BY <1>1 DEF Busy
  <1> QED
      BY <1>2, <1>3, <1>4, <1>5, <1>6 DEF TableInv, e

\* What is left to show of a step that ends in startup.
LEMMA StartingAfter ==
  ASSUME ~mounted', table' = EmptyTable, opened' = [h \in Fh |-> NoFile], owed' = {},
         RestShape', RowsSound(inode'), ChunkRowsSound(chunks', inode'),
         NamesSound(dirent', inode'),
         swept' # NoIno => /\ inode'[swept'].nlink = 0
                           /\ \A c \in Chunk : chunks'[ChunkKey(swept', c)] = NoFile
  PROVE  OpenInv'
  <1>1. TableInv(table', inode', opened') /\ \A s \in Slot : Busy(table', s)
    <2>1. \A h \in Fh : opened'[h] = NoFile
        OBVIOUS
    <2>2. TableInv(EmptyTable, inode', opened') /\ \A s \in Slot : Busy(EmptyTable, s)
        BY <2>1, EmptySound
    <2> QED
        BY <2>2
  <1>2. StartupInv' /\ OrphansAccounted'
      BY DEF StartupInv, OrphansAccounted
  <1>3. NlinkCountsNames'
      BY DEF NlinkCountsNames, NamesOf, NamesSound, NamesIn
  <1>4. OwedKept(table', inode', owed')
      BY DEF OwedKept
  <1> QED
      BY <1>1, <1>2, <1>3, <1>4 DEF OpenInv

\* The process dies.
LEMMA CrashStep == ASSUME OpenInv, Crash PROVE OpenInv'
  <1>1. /\ table' = EmptyTable /\ ~mounted' /\ swept' = NoIno /\ opened' = [h \in Fh |-> NoFile]
        /\ owed' = {} /\ stuck' = {} /\ mounted' \in BOOLEAN
        /\ inode' = inode /\ dirent' = dirent /\ chunks' = chunks
      BY DEF Crash, disk
  <1>2. RestShape'
      BY <1>1 DEF OpenInv, RestShape, MaybeFile
  <1>3. RowsSound(inode') /\ ChunkRowsSound(chunks', inode') /\ NamesSound(dirent', inode')
      BY <1>1 DEF OpenInv, NlinkCountsNames, NamesOf, NamesSound, NamesIn
  <1> QED
      BY <1>1, <1>2, <1>3, StartingAfter

\* The sweep deletes an orphan's chunks.
LEMMA SweepChunksStep == ASSUME OpenInv, NEW i \in InoNum, SweepChunks(i) PROVE OpenInv'
  <1> USE Zeros
  <1>1. /\ ~mounted /\ i \in Orphans /\ swept' = i
        /\ chunks' = [k \in Key |-> IF k \in KeysOf(i) THEN NoFile ELSE chunks[k]]
        /\ UNCHANGED <<inode, dirent, table, mounted, opened, owed, stuck>>
      BY DEF SweepChunks
  <1>2. table = EmptyTable /\ opened = [h \in Fh |-> NoFile] /\ owed = {}
      BY <1>1 DEF OpenInv, StartupInv
  <1>3. ChunkRowsSound(chunks, inode) /\ RowsSound(inode) /\ NamesSound(dirent, inode)
      BY DEF OpenInv, NlinkCountsNames, NamesOf, NamesSound, NamesIn
  <1>4. ChunkRowsSound(chunks', inode)
      BY <1>1, <1>3, RangeDeleted
  <1>5. \A c \in Chunk : chunks'[ChunkKey(i, c)] = NoFile
    <2>1. \A c \in Chunk : ChunkKey(i, c) \in Key /\ ChunkKey(i, c) \in KeysOf(i)
      <3>1. Chunk \subseteq 0 .. MaxChunks
          BY TableAssumption DEF Chunk
      <3> QED
          BY <3>1, KeyRange DEF KeysOf
    <2> QED
        BY <1>1, <2>1
  <1>6. inode[i].nlink = 0
      BY <1>1 DEF Orphans
  <1>7. RestShape'
      BY <1>1 DEF OpenInv, RestShape
  <1>8. ~mounted' /\ table' = EmptyTable /\ opened' = [h \in Fh |-> NoFile] /\ owed' = {}
      BY <1>1, <1>2
  <1>9. RowsSound(inode') /\ ChunkRowsSound(chunks', inode') /\ NamesSound(dirent', inode')
      BY <1>1, <1>3, <1>4
  <1>10. inode'[swept'].nlink = 0 /\ \A c \in Chunk : chunks'[ChunkKey(swept', c)] = NoFile
      BY <1>1, <1>5, <1>6
  <1> QED
      BY <1>7, <1>8, <1>9, <1>10, StartingAfter

\* The sweep deletes the orphan's row; nothing named it.
LEMMA SweepRowStep == ASSUME OpenInv, SweepRow PROVE OpenInv'
  <1> USE Zeros
  <1> DEFINE i == swept
  <1>0. RestShape /\ i \in InoNum /\ RowsSound(inode) /\ ChunkRowsSound(chunks, inode)
      BY DEF OpenInv, RestShape, SweepRow
  <1>1. /\ ~mounted /\ swept' = NoIno /\ inode' = [inode EXCEPT ![i] = NoRow]
        /\ dirent' = [n \in Name |-> IF dirent[n] = i THEN NoIno ELSE dirent[n]]
        /\ UNCHANGED <<chunks, table, mounted, opened, owed, stuck>>
      BY DEF SweepRow
  <1>2. table = EmptyTable /\ opened = [h \in Fh |-> NoFile] /\ owed = {}
      BY <1>1 DEF OpenInv, StartupInv
  <1>3. inode[i].nlink = 0 /\ \A c \in Chunk : chunks[ChunkKey(i, c)] = NoFile
      BY <1>0 DEF OpenInv, StartupInv
  <1>4. NamesOf(i) = {}
    <2>1. Cardinality(NamesOf(i)) = 0 /\ IsFiniteSet(NamesOf(i))
        BY <1>0, <1>3, NamesCount DEF OpenInv
    <2> QED
        BY <2>1, FS_EmptySet
  <1>5. dirent' = dirent
    <2>1. \A n \in Name : dirent[n] # i
        BY <1>4 DEF NamesOf
    <2>2. dirent \in [Name -> InoNum \cup {NoIno}]
        BY <1>0 DEF RestShape
    <2> QED
        BY <1>1, <2>1, <2>2
  <1>6. /\ inode' \in RowShape /\ inode'[i] = NoRow
        /\ \A j \in InoNum : j # i => inode'[j] = inode[j]
      BY <1>0, <1>1 DEF RowsSound, RowShape, NoRow, MaybeFile
  <1> HIDE DEF i
  <1>7. RowsSound(inode')
      BY <1>0, <1>6 DEF RowsSound, NoRow
  <1>8. ChunkRowsSound(chunks, inode')
      BY <1>0, <1>3, <1>6 DEF ChunkRowsSound
  <1>9. NamesSound(dirent, inode')
    <2>1. NamesSound(dirent, inode) /\ NamesIn(dirent, i) = {}
        BY <1>4 DEF OpenInv, NlinkCountsNames, NamesOf, NamesSound, NamesIn
    <2> QED
        BY <1>6, <2>1 DEF NamesSound, NoRow
  <1>10. RestShape'
    <2>1. dirent' \in [Name -> InoNum \cup {NoIno}]
        BY <1>0, <1>5 DEF RestShape
    <2> QED
        BY <1>0, <1>1, <2>1 DEF RestShape
  <1>11. ~mounted' /\ table' = EmptyTable /\ opened' = [h \in Fh |-> NoFile] /\ owed' = {}
      BY <1>1, <1>2
  <1>12. ChunkRowsSound(chunks', inode') /\ NamesSound(dirent', inode') /\ swept' = NoIno
    <2>1. chunks' = chunks /\ swept' = NoIno
        BY <1>1
    <2> QED
        BY <1>5, <1>8, <1>9, <2>1
  <1> QED
      BY <1>7, <1>10, <1>11, <1>12, StartingAfter

\* Startup ends when no orphan is left.
LEMMA StartedStep == ASSUME OpenInv, Started PROVE OpenInv'
  <1>1. /\ mounted' /\ mounted' \in BOOLEAN /\ swept = NoIno /\ Orphans = {}
        /\ inode' = inode /\ dirent' = dirent /\ chunks' = chunks
        /\ UNCHANGED <<table, swept, opened, owed, stuck>>
      BY DEF Started, disk
  <1>2. \A i \in InoNum : ~(inode[i].file # NoFile /\ inode[i].nlink = 0)
      BY <1>1 DEF Orphans, Rows
  <1>3. NamesSound(dirent, inode)
      BY DEF OpenInv, NlinkCountsNames, NamesOf, NamesSound, NamesIn
  <1>4. RestShape'
      BY <1>1 DEF OpenInv, RestShape
  <1>5. /\ TableInv(table', inode', opened') /\ \A s \in Slot : Busy(table', s)
        /\ RowsSound(inode') /\ ChunkRowsSound(chunks', inode') /\ NamesSound(dirent', inode')
        /\ OwedKept(table', inode', owed')
      BY <1>1, <1>3 DEF OpenInv
  <1>6. \A i \in InoNum : inode'[i].file # NoFile /\ inode'[i].nlink = 0 =>
                            IsOpen(table', i) \/ i \in stuck'
      BY <1>1, <1>2
  <1> QED
      BY <1>1, <1>4, <1>5, <1>6, MountedAfter

------------------------------------------------------------------------------
(* The invariant holds *)

\* The first mount of an empty database.
LEMMA OpenInit == Init => OpenInv
  <1> SUFFICES ASSUME Init PROVE OpenInv
      OBVIOUS
  <1> USE Zeros
  <1>1. TableInv(table, inode, opened) /\ \A s \in Slot : Busy(table, s)
    <2>1. table = EmptyTable /\ \A h \in Fh : opened[h] = NoFile
        BY DEF Init
    <2> QED
        BY <2>1, EmptySound
  <1>2. inode \in RowShape /\ \A i \in InoNum : inode[i].file = NoFile /\ inode[i].nlink = 0
      BY DEF Init, RowShape, NoRow, MaybeFile
  <1>3. RowsSound(inode)
      BY <1>2 DEF RowsSound
  <1>4. chunks \in [Key -> MaybeFile] /\ \A k \in Key : chunks[k] = NoFile
      BY DEF Init, MaybeFile
  <1>5. ChunkRowsSound(chunks, inode)
    <2>1. \A i \in InoNum, c \in Chunk : ChunkKey(i, c) \in Key
      <3>1. Chunk \subseteq 0 .. MaxChunks
          BY TableAssumption DEF Chunk
      <3> QED
          BY <3>1, KeyRange
    <2> QED
        BY <1>4, <2>1 DEF ChunkRowsSound
  <1>6. mounted /\ swept = NoIno /\ owed = {} /\ stuck = {} /\ mounted \in BOOLEAN
      BY DEF Init
  <1>7. StartupInv /\ OwedKept(table, inode, owed)
      BY <1>6 DEF StartupInv, OwedKept
  <1>8. RestShape
      BY <1>6 DEF Init, RestShape, MaybeFile
  <1>9. NlinkCountsNames
    <2>1. \A i \in InoNum : NamesOf(i) = {}
        BY DEF Init, NamesOf
    <2> QED
        BY <1>2, <2>1 DEF NlinkCountsNames
  <1>10. OrphansAccounted
      BY <1>2 DEF OrphansAccounted, Orphans, Rows
  <1> QED
      BY <1>1, <1>3, <1>5, <1>7, <1>8, <1>9, <1>10 DEF OpenInv

\* Every request, failure, crash and startup step keeps the invariant.
LEMMA OpenStep == OpenInv /\ [Next]_vars => OpenInv'
  <1> SUFFICES ASSUME OpenInv, [Next]_vars PROVE OpenInv'
      OBVIOUS
  <1>1. CASE UNCHANGED vars
    <2>1. /\ inode' = inode /\ dirent' = dirent /\ chunks' = chunks /\ table' = table
          /\ mounted' = mounted /\ swept' = swept /\ opened' = opened /\ owed' = owed
          /\ stuck' = stuck
        BY <1>1 DEF vars
    <2>2. RestShape' /\ StartupInv' /\ NlinkCountsNames' /\ OrphansAccounted'
        BY <2>1 DEF OpenInv, RestShape, StartupInv, NlinkCountsNames, NamesOf,
                    OrphansAccounted, Orphans, Rows
    <2> QED
        BY <2>1, <2>2 DEF OpenInv
  <1>2. CASE \E n \in Name : Mknod(n) \/ Unlink(n)
      BY <1>2, MknodStep, UnlinkStep
  <1>3. CASE \E n \in Name, h \in Fh : CreateOpen(n, h)
      BY <1>3, CreateOpenStep
  <1>4. CASE \E n, m \in Name : Rename(n, m)
      BY <1>4, RenameStep
  <1>5. CASE \E i \in InoNum, n \in Name : Link(i, n)
      BY <1>5, LinkStep
  <1>6. CASE \E i \in InoNum, h \in Fh : Open(i, h)
      BY <1>6, OpenHandleStep
  <1>7. CASE \E i \in InoNum, n \in 0 .. MaxChunks : Setattr(i, n)
      BY <1>7, SetattrStep
  <1>8. CASE \E h \in Fh, c \in Chunk : Write(h, c) \/ WriteEvict(h, c)
      BY <1>8, WriteStep, WriteEvictStep
  <1>9. CASE \E h \in Fh : FlushFh(h) \/ ReleaseUnlinked(h) \/ ReleaseFlush(h)
      BY <1>9, FlushFhStep, ReleaseUnlinkedStep, ReleaseFlushStep
  <1>10. CASE \E s \in Slot : FlushLive(s)
      BY <1>10, FlushLiveStep
  <1>11. CASE \E i \in InoNum : SweepChunks(i)
      BY <1>11, SweepChunksStep
  <1>12. CASE SweepRow \/ Started \/ Crash
      BY <1>12, SweepRowStep, StartedStep, CrashStep
  <1> QED
      BY <1>1, <1>2, <1>3, <1>4, <1>5, <1>6, <1>7, <1>8, <1>9, <1>10, <1>11, <1>12 DEF Next

\* The invariant holds in every reachable state.
LEMMA OpenAlways == Spec => []OpenInv
  BY OpenInit, OpenStep, PTL DEF Spec

------------------------------------------------------------------------------
(* What it means *)

\* Every variable keeps its type: link counts and reference counts never go
\* below zero (nlink - 1 in drop_unlinked_inode, refs - 1 in release_fh) or
\* past the number of names and handles.
THEOREM OpenTypeCorrect == Spec => []TypeOK
  <1>1. OpenInv => TypeOK
    <2> SUFFICES ASSUME OpenInv PROVE TypeOK
        OBVIOUS
    <2>0. /\ TableInv(table, inode, opened) /\ RowsSound(inode) /\ RestShape
          /\ NlinkCountsNames /\ ChunkRowsSound(chunks, inode)
        BY DEF OpenInv
    <2>1. Cardinality(Name) \in Nat /\ Cardinality(Fh) \in Nat
        BY TableAssumption, FS_CardinalityType
    <2>2. \A i \in InoNum : inode[i].nlink \in 0 .. Cardinality(Name)
      <3> SUFFICES ASSUME NEW i \in InoNum PROVE inode[i].nlink \in 0 .. Cardinality(Name)
          OBVIOUS
      <3>1. inode[i].nlink \in Nat /\ inode[i].nlink = Cardinality(NamesOf(i))
          BY <2>0, NamesCount
      <3>2. NamesOf(i) \subseteq Name
          BY DEF NamesOf
      <3>3. Cardinality(NamesOf(i)) <= Cardinality(Name)
          BY <3>2, TableAssumption, FS_Subset
      <3> QED
          BY <2>1, <3>1, <3>3
    <2>3. \A s \in Slot : table.refs[s] \in 0 .. Cardinality(Fh)
      <3> SUFFICES ASSUME NEW s \in Slot PROVE table.refs[s] \in 0 .. Cardinality(Fh)
          OBVIOUS
      <3> DEFINE H == {h \in Fh : table.slot[h] = s}
      <3>1. table.refs[s] \in Nat /\ table.refs[s] = Cardinality(H)
          BY <2>0, Fields DEF TableInv, Counted
      <3>2. H \subseteq Fh
          OBVIOUS
      <3> HIDE DEF H
      <3>3. Cardinality(H) <= Cardinality(Fh)
          BY <3>2, TableAssumption, FS_Subset
      <3> QED
          BY <2>1, <3>1, <3>3
    <2>4. inode \in [InoNum -> [file : MaybeFile, nlink : 0 .. Cardinality(Name)]]
        BY <2>0, <2>2 DEF RowsSound, RowShape
    <2>5. table.refs \in [Slot -> 0 .. Cardinality(Fh)]
      <3>1. table.refs \in [Slot -> Nat]
          BY <2>0, Fields DEF TableInv
      <3> QED
          BY <2>3, <3>1
    <2>6. table \in [ino : [Slot -> InoNum \cup {NoIno}],
                     refs : [Slot -> 0 .. Cardinality(Fh)],
                     unlinked : [Slot -> BOOLEAN],
                     dirty : [Slot -> [Chunk -> MaybeFile]],
                     byIno : [InoNum -> Slot \cup {NoSlot}],
                     slot : [Fh -> Slot \cup {NoSlot}]]
        BY <2>0, <2>5 DEF TableInv, TableShape
    <2> QED
        BY <2>0, <2>4, <2>6 DEF TypeOK, RestShape, ChunkRowsSound
  <1> QED
      BY <1>1, OpenAlways, PTL

\* A handle reaches the file it was opened on for as long as it is open,
\* through unlink, rename, failing flushes and the reuse of every number
\* (release_fh, entry_removed, Handles::alloc).
THEOREM HandleReachesFile == Spec => []HandleIdentity
  <1>1. OpenInv => HandleIdentity
      BY Zeros, Fields DEF OpenInv, TableInv, Indexed, Reached, HandleIdentity
  <1> QED
      BY <1>1, OpenAlways, PTL

\* No file inherits another's chunks although inode numbers come back and
\* file_chunks has no foreign key (delete_inode_rows, the startup sweep).
THEOREM ChunksOwned == Spec => []ChunkOwnership
  <1>1. OpenInv => ChunkOwnership
      BY DEF OpenInv, TableInv, Owned, ChunkRowsSound, ChunkOwnership
  <1> QED
      BY <1>1, OpenAlways, PTL

\* An acknowledged write waits where a flush finds it until it is stored or
\* its file loses its last name.
THEOREM AcknowledgedBuffered == Spec => []UnsavedBuffered
  <1>1. OpenInv => UnsavedBuffered
      BY DEF OpenInv, OwedKept, Pending, UnsavedBuffered
  <1> QED
      BY <1>1, OpenAlways, PTL

\* A slot is live exactly while it has a handle or unflushed data, refs counts
\* its handles, and `unlinked` marks exactly the open inodes without a name.
THEOREM SlotsAreExact == Spec => []SlotsExact
  <1>1. OpenInv => SlotsExact
    <2> SUFFICES ASSUME OpenInv, NEW s \in Slot
                 PROVE  IF table.ino[s] = NoIno
                        THEN /\ s \notin LiveSlots(table) /\ HandlesOn(s) = {}
                             /\ DirtyChunks(table, s) = {}
                        ELSE /\ table.byIno[table.ino[s]] = s
                             /\ table.refs[s] = Cardinality(HandlesOn(s))
                             /\ table.refs[s] > 0 \/ DirtyChunks(table, s) # {}
                             /\ table.unlinked[s] <=> inode[table.ino[s]].nlink = 0
                             /\ table.unlinked[s] => table.refs[s] > 0
        BY DEF SlotsExact
    <2>0. TableInv(table, inode, opened) /\ Busy(table, s)
        BY DEF OpenInv
    <2>1. CASE table.ino[s] = NoIno
      <3>1. s \notin LiveSlots(table)
          BY <2>0, <2>1, Zeros DEF TableInv, Indexed, LiveSlots
      <3>2. HandlesOn(s) = {}
          BY <2>0, <2>1, Zeros DEF TableInv, Reached, HandlesOn
      <3>3. DirtyChunks(table, s) = {}
          BY <2>0, <2>1 DEF TableInv, Owned, DirtyChunks
      <3> QED
          BY <2>1, <3>1, <3>2, <3>3
    <2>2. CASE table.ino[s] # NoIno
        BY <2>0, <2>2 DEF TableInv, Indexed, Counted, Marked, Busy, HandlesOn
    <2> QED
        BY <2>1, <2>2
  <1> QED
      BY <1>1, OpenAlways, PTL

\* nlink is the number of names and no name leads to a missing inode.
THEOREM LinksCounted == Spec => []NlinkCountsNames
  <1>1. OpenInv => NlinkCountsNames
      BY DEF OpenInv
  <1> QED
      BY <1>1, OpenAlways, PTL

\* No inode without a name is forgotten: it is open, or its failed deletion is
\* left to the next start.
THEOREM OrphansKept == Spec => []OrphansAccounted
  <1>1. OpenInv => OrphansAccounted
      BY DEF OpenInv
  <1> QED
      BY <1>1, OpenAlways, PTL

\* A row that changes its file is the row of an inode without a name, or the
\* row of the inode whose last name an unlink or a rename removes.
LEMMA RowGone ==
  ASSUME OpenInv, Next, NEW i \in Rows, inode'[i].file # inode[i].file
  PROVE  /\ \A j \in InoNum : j # i => inode'[j].file = inode[j].file
         /\ Cardinality(NamesOf(i)) <= 1
         /\ NamesOf(i) # {} => mounted /\ opened' = opened
  <1> USE Zeros
  <1> DEFINE Goal == /\ \A j \in InoNum : j # i => inode'[j].file = inode[j].file
                     /\ Cardinality(NamesOf(i)) <= 1
                     /\ NamesOf(i) # {} => mounted /\ opened' = opened
  <1>0. /\ RestShape /\ RowsSound(inode) /\ inode \in RowShape /\ NlinkCountsNames
        /\ TableInv(table, inode, opened) /\ i \in InoNum
        /\ dirent \in [Name -> InoNum \cup {NoIno}]
      BY DEF OpenInv, RowsSound, RestShape, Rows
  <1>1. /\ IsFiniteSet(NamesOf(i)) /\ Cardinality(NamesOf(i)) \in Nat
        /\ inode[i].nlink = Cardinality(NamesOf(i))
      BY <1>0, NamesCount
  <1>2. inode[i].nlink = 0 => NamesOf(i) = {} /\ Cardinality(NamesOf(i)) <= 1
    <2>1. Cardinality(NamesOf(i)) = 0 <=> NamesOf(i) = {}
        BY <1>1, FS_EmptySet
    <2> QED
        BY <1>1, <2>1
  <1>3. ASSUME NEW j \in InoNum, inode' = [inode EXCEPT ![j] = NoRow]
        PROVE  i = j /\ \A k \in InoNum : k # i => inode'[k].file = inode[k].file
      BY <1>0, <1>3 DEF RowShape
  <1>4. ~(inode' = inode)
      OBVIOUS
  <1>5. ASSUME NEW n \in Name, CreateNode(n) PROVE FALSE
      BY <1>0, <1>5, NewInoFree DEF CreateNode, RowShape
  <1>6. ASSUME NEW m \in Name, mounted, dirent[m] # NoIno, LoseEntry(dirent[m]),
               opened' = opened
        PROVE  Goal
    <2> DEFINE j == dirent[m]
    <2>1. j \in InoNum
        BY <1>0, <1>6
    <2>2. \/ inode' = [inode EXCEPT ![j].nlink = @ - 1]
          \/ ~(inode[j].nlink > 1) /\ inode' = [inode EXCEPT ![j] = NoRow]
        BY <1>6 DEF LoseEntry, DropUnlinkedInode
    <2> HIDE DEF j
    <2>3. CASE inode' = [inode EXCEPT ![j].nlink = @ - 1]
        BY <1>0, <2>1, <2>3 DEF RowShape
    <2>4. CASE ~(inode[j].nlink > 1) /\ inode' = [inode EXCEPT ![j] = NoRow]
      <3>1. i = j /\ \A k \in InoNum : k # i => inode'[k].file = inode[k].file
          BY <1>3, <2>1, <2>4
      <3>2. Cardinality(NamesOf(i)) <= 1
          BY <1>1, <2>4, <3>1
      <3> QED
          BY <1>6, <3>1, <3>2
    <2> QED
        BY <2>2, <2>3, <2>4
  <1>7. ASSUME NEW h \in Fh, ReleaseUnlinked(h) PROVE Goal
    <2> DEFINE s == table.slot[h]
               j == table.ino[s]
    <2>1. /\ opened[h] # NoFile /\ table.unlinked[s]
          /\ (inode' = [inode EXCEPT ![j] = NoRow] \/ inode' = inode)
        BY <1>7 DEF ReleaseUnlinked, DeleteInodeRows, disk
    <2>2. s \in Slot /\ j \in InoNum /\ j # NoIno
        BY <1>0, <2>1, HandleLive DEF OpenInv
    <2>3. inode[j].nlink = 0
        BY <1>0, <2>1, <2>2 DEF TableInv, Marked
    <2> HIDE DEF j
    <2>4. i = j /\ \A k \in InoNum : k # i => inode'[k].file = inode[k].file
        BY <1>3, <1>4, <2>1, <2>2
    <2> QED
        BY <1>2, <2>3, <2>4
  <1>8. ASSUME SweepRow PROVE Goal
    <2>1. swept \in InoNum /\ inode[swept].nlink = 0 /\ inode' = [inode EXCEPT ![swept] = NoRow]
        BY <1>0, <1>8 DEF SweepRow, OpenInv, StartupInv, RestShape
    <2>2. i = swept /\ \A k \in InoNum : k # i => inode'[k].file = inode[k].file
        BY <1>3, <2>1
    <2> QED
        BY <1>2, <2>1, <2>2
  <1>9. ASSUME NEW j \in InoNum, NEW n \in Name, Link(j, n) PROVE Goal
      BY <1>0, <1>9 DEF Link, RowShape
  <1>10. ASSUME NEW n \in Name, Unlink(n) PROVE Goal
    <2>1. mounted /\ dirent[n] # NoIno /\ LoseEntry(dirent[n]) /\ opened' = opened
        BY <1>10 DEF Unlink
    <2> QED
        BY <1>6, <2>1
  <1>11. ASSUME NEW n \in Name, NEW m \in Name, Rename(n, m) PROVE Goal
    <2>1. mounted /\ dirent[m] # NoIno /\ LoseEntry(dirent[m]) /\ opened' = opened
        BY <1>4, <1>11 DEF Rename
    <2> QED
        BY <1>6, <2>1
  <1>12. /\ \A n \in Name : ~Mknod(n)
         /\ \A n \in Name, h \in Fh : ~CreateOpen(n, h)
      BY <1>5 DEF Mknod, CreateOpen
  <1>13. /\ \A j \in InoNum, h \in Fh : ~Open(j, h)
         /\ \A j \in InoNum, n \in 0 .. MaxChunks : ~Setattr(j, n)
         /\ \A h \in Fh, c \in Chunk : ~Write(h, c) /\ ~WriteEvict(h, c)
         /\ \A h \in Fh : ~FlushFh(h) /\ ~ReleaseFlush(h)
         /\ \A s \in Slot : ~FlushLive(s)
         /\ \A j \in InoNum : ~SweepChunks(j)
         /\ ~Started /\ ~Crash
      BY <1>4 DEF Open, Setattr, Write, WriteEvict, FlushFh, ReleaseFlush, FlushLive,
         SweepChunks, Started, Crash, disk
  <1> QED
    <2> HIDE DEF Goal
    <2>1. Goal
        BY <1>7, <1>8, <1>9, <1>10, <1>11, <1>12, <1>13 DEF Next
    <2> QED
        BY <2>1 DEF Goal

\* An inode row is deleted only when no handle is left on its file and no name
\* but the one being removed led to it; a close or the startup sweep deletes
\* only inodes without a name (drop_unlinked_inode, delete_inode, initialize).
THEOREM OnlyUnreachableDeleted == Spec => DeletedOnlyUnreachable
  <1>1. OpenInv /\ OpenInv' /\ [Next]_vars =>
          [\A i \in Rows : inode'[i].file # inode[i].file =>
             /\ \A h \in Fh : opened'[h] # inode[i].file
             /\ Cardinality(NamesOf(i)) <= 1
             /\ NamesOf(i) # {} => mounted /\ opened' = opened]_vars
    <2> SUFFICES ASSUME OpenInv, OpenInv', Next, NEW i \in Rows,
                        inode'[i].file # inode[i].file
                 PROVE  /\ \A h \in Fh : opened'[h] # inode[i].file
                        /\ Cardinality(NamesOf(i)) <= 1
                        /\ NamesOf(i) # {} => mounted /\ opened' = opened
        OBVIOUS
    <2>1. /\ \A j \in InoNum : j # i => inode'[j].file = inode[j].file
          /\ Cardinality(NamesOf(i)) <= 1
          /\ NamesOf(i) # {} => mounted /\ opened' = opened
        BY RowGone
    <2>2. ASSUME NEW h \in Fh, opened'[h] = inode[i].file PROVE FALSE
      <3>1. i \in InoNum /\ inode[i].file # NoFile
          BY DEF Rows
      <3>2. /\ TableInv(table', inode', opened')
            /\ \A j, k \in InoNum : inode[j].file = inode[k].file /\ inode[j].file # NoFile => j = k
          BY DEF OpenInv, RowsSound
      <3>3. PICK j \in InoNum : inode'[j].file = opened'[h]
          BY <2>2, <3>1, <3>2, Zeros, Fields DEF TableInv, Reached
      <3> QED
          BY <2>1, <2>2, <3>1, <3>2, <3>3
    <2> QED
        BY <2>1, <2>2
  <1> QED
      BY <1>1, OpenAlways, PTL DEF Spec, DeletedOnlyUnreachable
==============================================================================
