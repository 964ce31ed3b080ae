------------------------------ MODULE OpenTable ------------------------------
(***************************************************************************)
(* The life of inodes, table slots and file handles: the open table of     *)
(* src/open_table.rs, the operations of src/fuse.rs that open, write,      *)
(* flush, close, link, rename and unlink regular files, and the rows of    *)
(* inodes, dirents and file_chunks that src/db.rs keeps for them, with the *)
(* sweep of orphans at startup.                                            *)
(*                                                                         *)
(* The names are those of one directory, the root, inode 1.  The FUSE      *)
(* session dispatches one request at a time and each takes the table lock, *)
(* so an action is a whole request.  Any transaction may fail, and the     *)
(* process may die between any two requests or during the startup sweep.   *)
(*                                                                         *)
(* Ghost state tells files apart from the inode numbers, slots and handles *)
(* that are reused for them: a FileId is a file's identity, and chunk data *)
(* is represented by the FileId of the file it was written to.             *)
(*                                                                         *)
(* A definition whose comment begins "Faulty" is a wrong variant of the    *)
(* one after it; no specification uses it.                                 *)
(***************************************************************************)
EXTENDS Integers, FiniteSets

CONSTANTS Name,       \* entry names
          Fh,         \* file handle numbers
          FileId,     \* identities of files (ghost)
          MaxIno,     \* largest inode number
          MaxChunks,  \* chunks per file
          Budget,     \* arena slots: dirty chunks that fit in memory
          NoFile      \* no file

ASSUME TableAssumption ==
  /\ MaxIno \in Nat \ {0, 1}
  /\ MaxChunks \in Nat \ {0}
  /\ Budget \in Nat \ {0}
  /\ NoFile \notin FileId
  /\ IsFiniteSet(Name) /\ IsFiniteSet(Fh)

Root   == 1
NoIno  == 0
NoSlot == 0
InoNum == 2 .. MaxIno          \* of regular files
Slot   == 1 .. (MaxIno - 1)    \* enough for one per inode
Chunk  == 0 .. (MaxChunks - 1)

\* chunk_key: chunks of all inodes share one integer key space.
ChunkKey(i, c) == i * MaxChunks + c
Key            == 0 .. ChunkKey(MaxIno, MaxChunks - 1)

VARIABLES inode,    \* inodes: inode[i] has the file it is (ghost; NoFile: no row) and nlink
          dirent,   \* dirents of the root: dirent[n] is the child inode or NoIno
          chunks,   \* file_chunks: chunks[k] is the file whose data row k holds, or NoFile
          table,    \* OpenTable
          mounted,  \* FALSE while Db::open sweeps orphans
          swept,    \* the orphan whose chunks the sweep has deleted, its row being next
          opened,   \* ghost: the file the kernel opened as fh, or NoFile
          owed,     \* ghost: chunks written and acknowledged, not yet stored
          stuck     \* ghost: unlinked inodes whose deletion failed

disk == <<inode, dirent, chunks>>
vars == <<inode, dirent, chunks, table, mounted, swept, opened, owed, stuck>>

NoRow == [file |-> NoFile, nlink |-> 0]
Clean == [c \in Chunk |-> NoFile]

EmptyTable ==
  [ino      |-> [s \in Slot |-> NoIno],    \* OpenInodes, by slot
   refs     |-> [s \in Slot |-> 0],
   unlinked |-> [s \in Slot |-> FALSE],
   dirty    |-> [s \in Slot |-> Clean],    \* dirty[s][c]: whose data, or NoFile
   byIno    |-> [i \in InoNum |-> NoSlot],
   slot     |-> [h \in Fh |-> NoSlot]]     \* Handles

Init ==
  /\ inode   = [i \in InoNum |-> NoRow]
  /\ dirent  = [n \in Name |-> NoIno]
  /\ chunks  = [k \in Key |-> NoFile]
  /\ table   = EmptyTable
  /\ mounted = TRUE
  /\ swept   = NoIno
  /\ opened  = [h \in Fh |-> NoFile]
  /\ owed    = {}
  /\ stuck   = {}

------------------------------------------------------------------------------
(* OpenInodes and Handles: each operator gives the table after the call. *)

LiveSlots(t)      == {t.byIno[i] : i \in InoNum} \ {NoSlot}
DirtyChunks(t, s) == {c \in Chunk : t.dirty[s][c] # NoFile}
IsOpen(t, i)      == t.byIno[i] # NoSlot /\ t.refs[t.byIno[i]] > 0

\* A slot insert may use: any freed one, or a new one.
FreeSlots(t) == {s \in Slot : t.ino[s] = NoIno}

Insert(t, s, i) ==
  [t EXCEPT !.ino[s] = i, !.refs[s] = 0, !.unlinked[s] = FALSE, !.byIno[i] = s]

\* The caller has dealt with the dirty chunks.
Remove(t, s) ==
  [t EXCEPT !.byIno[t.ino[s]] = NoSlot, !.ino[s] = NoIno,
            !.refs[s] = 0, !.unlinked[s] = FALSE]

\* open_slot: a new handle h on slot s.
OpenSlot(t, s, h) == [t EXCEPT !.refs[s] = @ + 1, !.slot[h] = s]

\* Faulty: the handle goes but stays counted.
DropHandleCounted(t, h) == [t EXCEPT !.slot[h] = NoSlot]

\* Handles::release and the decrement that follows it in release_fh.
DropHandle(t, h) == [t EXCEPT !.refs[t.slot[h]] = @ - 1, !.slot[h] = NoSlot]

Cleaned(t, s) == [t EXCEPT !.dirty[s] = Clean]

FreeIfIdle(t, s) ==
  IF t.refs[s] = 0 /\ DirtyChunks(t, s) = {} THEN Remove(t, s) ELSE t

DiscardSlot(t, s) == Remove(Cleaned(t, s), s)

\* Faulty: the slot is dropped with its handles.
EntryRemovedDiscard(t, i, nlink) ==
  IF nlink > 1 \/ t.byIno[i] = NoSlot THEN t
  ELSE DiscardSlot(t, t.byIno[i])

\* entry_removed, for an inode that had nlink names before the entry went.
EntryRemoved(t, i, nlink) ==
  IF nlink > 1 \/ t.byIno[i] = NoSlot THEN t
  ELSE IF IsOpen(t, i) THEN [t EXCEPT !.unlinked[t.byIno[i]] = TRUE]
  ELSE DiscardSlot(t, t.byIno[i])

------------------------------------------------------------------------------
(* The database *)

KeysOf(i) == {ChunkKey(i, c) : c \in Chunk}

\* replace_chunks for slot s: its dirty chunks become rows of its inode.
Stored(t, s) ==
  [k \in Key |->
     IF \E c \in DirtyChunks(t, s) : k = ChunkKey(t.ino[s], c)
     THEN t.dirty[s][CHOOSE c \in DirtyChunks(t, s) : k = ChunkKey(t.ino[s], c)]
     ELSE chunks[k]]

\* What flushing slot s settles.
Settled(t, s) == {<<t.dirty[s][c], c>> : c \in DirtyChunks(t, s)}

\* delete_inode_rows: the chunk range, then the row; entries that still name it
\* go by foreign-key cascade.
DeleteInodeRows(i) ==
  /\ chunks' = [k \in Key |-> IF k \in KeysOf(i) THEN NoFile ELSE chunks[k]]
  /\ inode'  = [inode EXCEPT ![i] = NoRow]
  /\ dirent' = [n \in Name |-> IF dirent[n] = i THEN NoIno ELSE dirent[n]]

\* drop_unlinked_inode, on inodes and file_chunks: one link less, or the rows
\* deleted when the last name goes and nothing has the inode open.
DropUnlinkedInode(i, isOpen) ==
  IF inode[i].nlink > 1 \/ isOpen
  THEN inode' = [inode EXCEPT ![i].nlink = @ - 1] /\ UNCHANGED chunks
  ELSE /\ inode'  = [inode EXCEPT ![i] = NoRow]
       /\ chunks' = [k \in Key |-> IF k \in KeysOf(i) THEN NoFile ELSE chunks[k]]

\* The entries once n is gone and the cascade of drop_unlinked_inode has run.
Without(n) ==
  LET i == dirent[n]
      d == [dirent EXCEPT ![n] = NoIno]
  IN  IF i = NoIno \/ inode[i].nlink > 1 \/ IsOpen(table, i) THEN d
      ELSE [x \in Name |-> IF d[x] = i THEN NoIno ELSE d[x]]

\* SQLite gives a new row the largest number in use plus one, so the numbers of
\* deleted inodes come back.
Rows   == {i \in InoNum : inode[i].file # NoFile}
NewIno == CHOOSE m \in 2 .. (MaxIno + 1) :
            /\ \A i \in Rows : i < m
            /\ m = 2 \/ m - 1 \in Rows

\* An identity nothing refers to any more (ghost).
Unused == {f \in FileId : /\ \A i \in InoNum : inode[i].file # f
                          /\ \A h \in Fh : opened[h] # f
                          /\ \A k \in Key : chunks[k] # f
                          /\ \A s \in Slot, c \in Chunk : table.dirty[s][c] # f}
NewFile == CHOOSE f \in Unused : TRUE

------------------------------------------------------------------------------
(* Creating and opening *)

\* create_node for a regular file (AlreadyExists and the inode limit are the
\* guards).
CreateNode(n) ==
  /\ mounted
  /\ dirent[n] = NoIno
  /\ NewIno <= MaxIno
  /\ Unused # {}
  /\ inode'  = [inode EXCEPT ![NewIno] = [file |-> NewFile, nlink |-> 1]]
  /\ dirent' = [dirent EXCEPT ![n] = NewIno]
  /\ owed'   = {p \in owed : p[1] # NewFile}
  /\ stuck'  = stuck \ {NewIno}
  /\ UNCHANGED <<chunks, mounted, swept>>

Mknod(n) ==
  /\ CreateNode(n)
  /\ UNCHANGED <<table, opened>>

CreateOpen(n, h) ==
  /\ opened[h] = NoFile
  /\ CreateNode(n)
  /\ \E s \in FreeSlots(table) :
       table' = OpenSlot(Insert(table, s, NewIno), s, h)
  /\ opened' = [opened EXCEPT ![h] = NewFile]

\* External: the kernel sends requests for an inode that has a name or that it
\* has open.
KernelKnows(i) ==
  /\ inode[i].file # NoFile
  /\ inode[i].nlink > 0 \/ \E h \in Fh : opened[h] = inode[i].file

Open(i, h) ==
  /\ mounted
  /\ KernelKnows(i)
  /\ opened[h] = NoFile
  /\ IF table.byIno[i] # NoSlot
     THEN table' = OpenSlot(table, table.byIno[i], h)
     ELSE \E s \in FreeSlots(table) : table' = OpenSlot(Insert(table, s, i), s, h)
  /\ opened' = [opened EXCEPT ![h] = inode[i].file]
  /\ UNCHANGED <<disk, mounted, swept, owed, stuck>>

------------------------------------------------------------------------------
(* Writing and flushing *)

InUse(t) == Cardinality({sc \in Slot \X Chunk : t.dirty[sc[1]][sc[2]] # NoFile})

\* The data of an acknowledged write: what the kernel believes it wrote to.
Buffered(t, h, c) == [t EXCEPT !.dirty[t.slot[h]][c] = opened[h]]

\* write_fh of one chunk that is dirty already or has room.
Write(h, c) ==
  /\ mounted
  /\ opened[h] # NoFile
  /\ c \in DirtyChunks(table, table.slot[h]) \/ InUse(table) < Budget
  /\ table' = Buffered(table, h, c)
  /\ owed'  = owed \cup {<<opened[h], c>>}
  /\ UNCHANGED <<disk, mounted, swept, opened, stuck>>

\* largest_dirty
Victims(t) ==
  {v \in LiveSlots(t) :
     /\ DirtyChunks(t, v) # {}
     /\ \A u \in LiveSlots(t) :
          Cardinality(DirtyChunks(t, u)) <= Cardinality(DirtyChunks(t, v))}

\* write_fh when the budget is used up: alloc_chunk flushes a victim, unlinked
\* or not, and frees its slot if it is idle and not the one being written.
WriteEvict(h, c) ==
  /\ mounted
  /\ opened[h] # NoFile
  /\ c \notin DirtyChunks(table, table.slot[h])
  /\ InUse(table) >= Budget
  /\ \E v \in Victims(table) :
       LET flushed == Cleaned(table, v)
       IN  /\ chunks' = Stored(table, v)
           /\ table'  = Buffered(IF v = table.slot[h] THEN flushed ELSE FreeIfIdle(flushed, v),
                                 h, c)
           /\ owed'   = (owed \ Settled(table, v)) \cup {<<opened[h], c>>}
  /\ UNCHANGED <<inode, dirent, mounted, swept, opened, stuck>>

\* flush_slot of slot s skips an unlinked inode.
FlushSkips(s) == DirtyChunks(table, s) = {} \/ table.unlinked[s]

\* flush and fsync through a handle.
FlushFh(h) ==
  /\ mounted
  /\ opened[h] # NoFile
  /\ ~FlushSkips(table.slot[h])
  /\ chunks' = Stored(table, table.slot[h])
  /\ table'  = Cleaned(table, table.slot[h])
  /\ owed'   = owed \ Settled(table, table.slot[h])
  /\ UNCHANGED <<inode, dirent, mounted, swept, opened, stuck>>

\* flush_file, and one turn of the loop of flush_all.
FlushLive(s) ==
  /\ mounted
  /\ s \in LiveSlots(table)
  /\ ~FlushSkips(s)
  /\ chunks' = Stored(table, s)
  /\ table'  = FreeIfIdle(Cleaned(table, s), s)
  /\ owed'   = owed \ Settled(table, s)
  /\ UNCHANGED <<inode, dirent, mounted, swept, opened, stuck>>

\* setattr: buffered data is flushed, unlinked or not; with a size that keeps n
\* chunks, truncate_file deletes the rows past them.  A failing second
\* transaction, and fallocate, leave what n = MaxChunks leaves.
Setattr(i, n) ==
  /\ mounted
  /\ KernelKnows(i)
  /\ LET s     == table.byIno[i]
         rows  == IF s = NoSlot THEN chunks ELSE Stored(table, s)
     IN  /\ chunks' = [k \in Key |->
                         IF k \in KeysOf(i) /\ k >= ChunkKey(i, n) THEN NoFile ELSE rows[k]]
         /\ IF s = NoSlot
            THEN UNCHANGED <<table, owed>>
            ELSE /\ table' = FreeIfIdle(Cleaned(table, s), s)
                 /\ owed'  = owed \ Settled(table, s)
  /\ UNCHANGED <<inode, dirent, mounted, swept, opened, stuck>>

------------------------------------------------------------------------------
(* Closing *)

\* Faulty: the slot is dropped and nothing deletes the inode.
ReleaseUnlinkedKeep(h) ==
  /\ mounted
  /\ opened[h] # NoFile
  /\ table.refs[table.slot[h]] = 1 /\ table.unlinked[table.slot[h]]
  /\ table'  = DiscardSlot(DropHandle(table, h), table.slot[h])
  /\ opened' = [opened EXCEPT ![h] = NoFile]
  /\ UNCHANGED <<disk, mounted, swept, owed, stuck>>

\* Faulty: the last close deletes the inode whether it was unlinked or not.
ReleaseDeletes(h) ==
  LET s == table.slot[h]
  IN  /\ mounted
      /\ opened[h] # NoFile
      /\ table.refs[s] = 1
      /\ table'  = DiscardSlot(DropHandle(table, h), s)
      /\ opened' = [opened EXCEPT ![h] = NoFile]
      /\ DeleteInodeRows(table.ino[s])
      /\ UNCHANGED <<mounted, swept, owed, stuck>>

\* release_fh on the last handle of an unlinked inode: slot and data are
\* dropped and the inode deleted; if that transaction fails the row stays.
ReleaseUnlinked(h) ==
  LET s == table.slot[h]
      i == table.ino[s]
  IN  /\ mounted
      /\ opened[h] # NoFile
      /\ table.refs[s] = 1 /\ table.unlinked[s]
      /\ table'  = DiscardSlot(DropHandle(table, h), s)
      /\ opened' = [opened EXCEPT ![h] = NoFile]
      /\ \/ DeleteInodeRows(i) /\ stuck' = stuck
         \/ UNCHANGED disk /\ stuck' = stuck \cup {i}
      /\ UNCHANGED <<mounted, swept, owed>>

\* Faulty: the last close drops the slot even when its flush failed.
ReleaseFlushDrop(h) ==
  LET s == table.slot[h]
  IN  /\ mounted
      /\ opened[h] # NoFile
      /\ ~(table.refs[s] = 1 /\ table.unlinked[s])
      /\ opened' = [opened EXCEPT ![h] = NoFile]
      /\ table'  = FreeIfIdle(Cleaned(DropHandle(table, h), s), s)
      /\ \/ UNCHANGED <<chunks, owed>>
         \/ chunks' = Stored(table, s) /\ owed' = owed \ Settled(table, s)
      /\ UNCHANGED <<inode, dirent, mounted, swept, stuck>>

\* release_fh otherwise: flush (an unlinked inode with handles left is
\* skipped), free the slot if idle; if the flush fails the data stays.
ReleaseFlush(h) ==
  LET s == table.slot[h]
      t == DropHandle(table, h)
  IN  /\ mounted
      /\ opened[h] # NoFile
      /\ ~(table.refs[s] = 1 /\ table.unlinked[s])
      /\ opened' = [opened EXCEPT ![h] = NoFile]
      /\ IF FlushSkips(s)
         THEN table' = FreeIfIdle(t, s) /\ UNCHANGED <<chunks, owed>>
         ELSE \/ /\ chunks' = Stored(table, s)
                 /\ table'  = FreeIfIdle(Cleaned(t, s), s)
                 /\ owed'   = owed \ Settled(table, s)
              \/ table' = t /\ UNCHANGED <<chunks, owed>>
      /\ UNCHANGED <<inode, dirent, mounted, swept, stuck>>

------------------------------------------------------------------------------
(* Names *)

\* External: the kernel refuses to link an inode without a name.
Link(i, n) ==
  /\ mounted
  /\ inode[i].nlink > 0
  /\ dirent[n] = NoIno
  /\ inode'  = [inode EXCEPT ![i].nlink = @ + 1]
  /\ dirent' = [dirent EXCEPT ![n] = i]
  /\ UNCHANGED <<chunks, table, mounted, swept, opened, owed, stuck>>

\* What unlink and a replacing rename do to the inode that loses an entry.
LoseEntry(i) ==
  /\ DropUnlinkedInode(i, IsOpen(table, i))
  /\ table' = EntryRemoved(table, i, inode[i].nlink)

Unlink(n) ==
  /\ mounted
  /\ dirent[n] # NoIno
  /\ LoseEntry(dirent[n])
  /\ dirent' = Without(n)
  /\ UNCHANGED <<mounted, swept, opened, owed, stuck>>

\* Faulty: the replaced inode keeps its link count.
RenameKeepsLink(n, m) ==
  /\ mounted
  /\ n # m
  /\ dirent[n] # NoIno
  /\ dirent[n] # dirent[m]
  /\ dirent' = [dirent EXCEPT ![n] = NoIno, ![m] = dirent[n]]
  /\ UNCHANGED <<inode, chunks, table, mounted, swept, opened, owed, stuck>>

\* External: the kernel does not rename between two names of one inode.
Rename(n, m) ==
  /\ mounted
  /\ n # m
  /\ dirent[n] # NoIno
  /\ dirent[n] # dirent[m]
  /\ IF dirent[m] = NoIno THEN UNCHANGED <<inode, chunks, table>>
                          ELSE LoseEntry(dirent[m])
  /\ dirent' = [Without(m) EXCEPT ![n] = NoIno, ![m] = dirent[n]]
  /\ UNCHANGED <<mounted, swept, opened, owed, stuck>>

------------------------------------------------------------------------------
(* Crash and restart *)

\* The process dies, mounted or starting; the kernel's handles die with it.
Crash ==
  /\ table'   = EmptyTable
  /\ mounted' = FALSE
  /\ swept'   = NoIno
  /\ opened'  = [h \in Fh |-> NoFile]
  /\ owed'    = {}
  /\ stuck'   = {}
  /\ UNCHANGED disk

Orphans == {i \in Rows : inode[i].nlink = 0}

\* Faulty: the row goes first, and its chunks with the second statement.
SweepRowsFirst(i) ==
  /\ ~mounted
  /\ swept = NoIno
  /\ i \in Orphans
  /\ inode' = [inode EXCEPT ![i] = NoRow]
  /\ swept' = i
  /\ UNCHANGED <<dirent, chunks, table, mounted, opened, owed, stuck>>

\* The sweep runs outside a transaction: the two statements of
\* delete_inode_rows commit one by one.
SweepChunks(i) ==
  /\ ~mounted
  /\ swept = NoIno
  /\ i \in Orphans
  /\ chunks' = [k \in Key |-> IF k \in KeysOf(i) THEN NoFile ELSE chunks[k]]
  /\ swept'  = i
  /\ UNCHANGED <<inode, dirent, table, mounted, opened, owed, stuck>>

SweepRow ==
  /\ ~mounted
  /\ swept # NoIno
  /\ inode'  = [inode EXCEPT ![swept] = NoRow]
  /\ dirent' = [n \in Name |-> IF dirent[n] = swept THEN NoIno ELSE dirent[n]]
  /\ swept'  = NoIno
  /\ UNCHANGED <<chunks, table, mounted, opened, owed, stuck>>

Started ==
  /\ ~mounted
  /\ swept = NoIno
  /\ Orphans = {}
  /\ mounted' = TRUE
  /\ UNCHANGED <<disk, table, swept, opened, owed, stuck>>

Next ==
  \/ \E n \in Name : Mknod(n) \/ Unlink(n)
  \/ \E n \in Name, h \in Fh : CreateOpen(n, h)
  \/ \E n, m \in Name : Rename(n, m)
  \/ \E i \in InoNum, n \in Name : Link(i, n)
  \/ \E i \in InoNum, h \in Fh : Open(i, h)
  \/ \E i \in InoNum, n \in 0 .. MaxChunks : Setattr(i, n)
  \/ \E h \in Fh, c \in Chunk : Write(h, c) \/ WriteEvict(h, c)
  \/ \E h \in Fh : FlushFh(h) \/ ReleaseUnlinked(h) \/ ReleaseFlush(h)
  \/ \E s \in Slot : FlushLive(s)
  \/ \E i \in InoNum : SweepChunks(i)
  \/ SweepRow \/ Started \/ Crash

Spec == Init /\ [][Next]_vars

------------------------------------------------------------------------------
(* Properties *)

MaybeFile == FileId \cup {NoFile}

TypeOK ==
  /\ inode   \in [InoNum -> [file : MaybeFile, nlink : 0 .. Cardinality(Name)]]
  /\ dirent  \in [Name -> InoNum \cup {NoIno}]
  /\ chunks  \in [Key -> MaybeFile]
  /\ table   \in [ino : [Slot -> InoNum \cup {NoIno}],
                  refs : [Slot -> 0 .. Cardinality(Fh)],
                  unlinked : [Slot -> BOOLEAN],
                  dirty : [Slot -> [Chunk -> MaybeFile]],
                  byIno : [InoNum -> Slot \cup {NoSlot}],
                  slot : [Fh -> Slot \cup {NoSlot}]]
  /\ mounted \in BOOLEAN
  /\ swept   \in InoNum \cup {NoIno}
  /\ opened  \in [Fh -> MaybeFile]
  /\ owed    \in SUBSET (FileId \X Chunk)
  /\ stuck   \in SUBSET InoNum

NamesOf(i) == {n \in Name : dirent[n] = i}
HandlesOn(s) == {h \in Fh : table.slot[h] = s}

\* A file handle reaches the file it was opened on for as long as it is open,
\* through unlinks, renames over it, failed flushes and the reuse of its slot,
\* handle and inode numbers (release_fh, entry_removed, Handles::alloc).
HandleIdentity ==
  \A h \in Fh :
    IF opened[h] = NoFile THEN table.slot[h] = NoSlot
    ELSE LET s == table.slot[h]
         IN  /\ s # NoSlot
             /\ table.ino[s] # NoIno
             /\ table.byIno[table.ino[s]] = s
             /\ inode[table.ino[s]].file = opened[h]

\* Each chunk row belongs to the file whose inode row its key falls under, and
\* each dirty chunk to the file of its slot's inode: although file_chunks has no
\* foreign key and inode numbers come back, no file ever inherits another's
\* data and no row is left behind (delete_inode_rows, the startup sweep).
ChunkOwnership ==
  /\ \A i \in InoNum, c \in Chunk :
       chunks[ChunkKey(i, c)] \in {NoFile, inode[i].file}
  /\ \A k \in Key : k < ChunkKey(2, 0) => chunks[k] = NoFile
  /\ \A s \in Slot, c \in Chunk :
       table.dirty[s][c] # NoFile =>
         table.ino[s] # NoIno /\ table.dirty[s][c] = inode[table.ino[s]].file

\* An acknowledged write that is not stored yet is still buffered where a later
\* flush finds it, if its file still has a name: closing with a failing flush,
\* eviction, rename and unlink of another name drop nothing.
UnsavedBuffered ==
  \A p \in owed, i \in InoNum :
    inode[i].file = p[1] /\ inode[i].nlink > 0 =>
      table.byIno[i] # NoSlot /\ p[2] \in DirtyChunks(table, table.byIno[i])

\* A slot is live exactly while its inode has an open handle or unflushed data
\* (the doc of OpenInodes), refs counts its handles, the index and the slots
\* agree, and `unlinked` marks exactly the open inodes without a name.
SlotsExact ==
  \A s \in Slot :
    IF table.ino[s] = NoIno
    THEN s \notin LiveSlots(table) /\ HandlesOn(s) = {} /\ DirtyChunks(table, s) = {}
    ELSE /\ table.byIno[table.ino[s]] = s
         /\ table.refs[s] = Cardinality(HandlesOn(s))
         /\ table.refs[s] > 0 \/ DirtyChunks(table, s) # {}
         /\ table.unlinked[s] <=> inode[table.ino[s]].nlink = 0
         /\ table.unlinked[s] => table.refs[s] > 0

\* nlink is the number of names, and no name leads to a missing inode.
NlinkCountsNames ==
  \A i \in InoNum :
    IF inode[i].file = NoFile THEN NamesOf(i) = {}
    ELSE inode[i].nlink = Cardinality(NamesOf(i))

\* While mounted, an inode without a name is open, or its deletion failed and
\* the next start sweeps it: unlinking never leaks an inode silently.
OrphansAccounted ==
  mounted => \A i \in Orphans : IsOpen(table, i) \/ i \in stuck

\* An inode row is deleted only when no handle is left on its file and no name
\* but the one being removed led to it; closing a handle, or the startup sweep,
\* deletes only inodes without a name.  So the foreign-key cascade on dirents
\* never takes a name the user did not remove (drop_unlinked_inode,
\* delete_inode, initialize).
DeletedOnlyUnreachable ==
  [][\A i \in Rows : inode'[i].file # inode[i].file =>
       /\ \A h \in Fh : opened'[h] # inode[i].file
       /\ Cardinality(NamesOf(i)) <= 1
       /\ NamesOf(i) # {} => mounted /\ opened' = opened]_vars
==============================================================================
