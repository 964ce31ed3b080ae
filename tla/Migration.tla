------------------------------ MODULE Migration ------------------------------
(***************************************************************************)
(* Db::open of src/db.rs on any database a dbfs may have written: the      *)
(* tables of initialize, migrate and its steps, and the root inode.  Every *)
(* statement may fail and the process may die before and after each.       *)
(*                                                                         *)
(* A table is a layout ("none" when it does not exist) and its rows.  Rows *)
(* of inodes are numbers and rows of dirents names: their other columns    *)
(* are copied as they are, but for the times: module Timestamps follows    *)
(* one time of inode 2, which is upgraded with its table.  Rows of         *)
(* file_chunks are [ino, index, data] in the old layout and [id, data]     *)
(* after.  The journal mode, which Db::open sets too, is left out.         *)
(*                                                                         *)
(* A definition whose comment begins "Faulty" is a wrong variant of the    *)
(* one after it; no specification uses it.                                 *)
(***************************************************************************)
EXTENDS Integers, FiniteSets, Timestamps

CONSTANTS MaxChunks,  \* chunks of a file that a chunk key has room for
          MaxIno,     \* largest inode number that a chunk key has room for
          MaxFaults   \* bound on failures and crashes

ASSUME MigrationAssumption == MaxChunks \in Nat \ {0} /\ MaxIno \in Nat /\ MaxFaults \in Nat

SchemaVersion == 4
Root          == 1
TableOrder    == <<"inodes", "dirents", "file_chunks", "symlink_targets">>
Tables        == {TableOrder[k] : k \in DOMAIN TableOrder}
Indexes       == {"dirents_child", "dirents_name", "dirents_scan"}

VARIABLES disk,     \* the database: [version, indexes, t: the tables]
          tx,       \* the same inside the migration's transaction
          fk,       \* PRAGMA foreign_keys of the connection
          pc,       \* where Db::open is; "closed", "open" and "refused" outside
          faults,   \* failures so far
          original  \* ghost: the database as it was written

db   == <<disk, tx, fk, pc, faults, original>>
vars == <<db, times>>

Table(layout, rows) == [layout |-> layout, rows |-> rows]

------------------------------------------------------------------------------
(* The databases that may be found: one directory entry and one symlink target,  *)
(* chunks of a file, of an inode that does not exist, and past the size limit.   *)

Chunk(i, k)  == [ino |-> i, index |-> k, data |-> <<i, k>>]
Fitting      == {Chunk(2, 0), Chunk(2, MaxChunks - 1), Chunk(3, 0)}
PastLimit    == {Chunk(2, MaxChunks), Chunk(MaxIno + 1, 0)}
ChunkSets    == {{}, Fitting} \cup {Fitting \cup {c} : c \in PastLimit}
Key(c)       == [id |-> c.ino * MaxChunks + c.index, data |-> c.data]

Db(v, inodes, dirents, chunks, targets, idx) ==
  [version |-> v, indexes |-> idx,
   t |-> [inodes |-> inodes, dirents |-> dirents,
          file_chunks |-> chunks, symlink_targets |-> targets]]

None     == Table("none", {})
Fresh    == Db(0, None, None, None, None, {})
Inos     == {Root, 2}
OldIndexes(v) == CASE v < 2 -> {} [] v = 2 -> {"dirents_child"} [] OTHER -> Indexes

\* Unversioned databases have the seconds alone or with nanoseconds, and may lack
\* the tables that came later; the others are complete.
Old(v) ==
  {Db(v, Table(l, Inos), Table(IF v < 3 THEN "pair" ELSE "id", {"name"}), Table("pair", c),
      Table("table", {2}), OldIndexes(v)) :
     l \in IF v = 0 THEN {"secs", "split"} ELSE {"split"}, c \in ChunkSets}
Unversioned == {Db(0, Table(l, Inos), None, None, None, {}) : l \in {"secs", "split"}}

AtVersion(v) ==
  Db(v, Table("ns", Inos), Table("id", {"name"}), Table("key", {Key(Chunk(2, 0))}),
     Table("table", {2}), Indexes)
Current == AtVersion(SchemaVersion)
\* A newer dbfs may have the same tables or have moved the data to others.
Newer == {AtVersion(SchemaVersion + 1),
          [AtVersion(SchemaVersion + 1) EXCEPT !.t.file_chunks = None]}

Databases == {Fresh, Current} \cup Newer \cup Unversioned \cup UNION {Old(v) : v \in 0 .. 3}

Init ==
  /\ disk \in Databases
  /\ original = disk
  /\ tx = disk
  /\ fk = FALSE
  /\ pc = "closed"
  /\ faults = 0
  /\ CASE disk.t.inodes.layout = "secs"  -> OldTime([secs : -Horizon .. Horizon, nsec : {0}])
       [] disk.t.inodes.layout = "split" -> OldTime(Pairs(-Horizon .. Horizon))
       [] OTHER                          -> NewTime

------------------------------------------------------------------------------
(* Statements that commit by themselves *)

\* Db::open: a connection, foreign keys on.
Open ==
  /\ pc = "closed"
  /\ fk' = TRUE
  /\ pc' = "create"
  /\ UNCHANGED <<disk, tx, faults, original, times>>

NewLayout == [inodes |-> "ns", dirents |-> "id", file_chunks |-> "key",
              symlink_targets |-> "table"]
Missing   == {t \in Tables : disk.t[t].layout = "none"}

\* initialize: CREATE TABLE IF NOT EXISTS, a statement for each table in turn.
CreateTable ==
  /\ pc = "create"
  /\ \E k \in DOMAIN TableOrder :
       /\ TableOrder[k] \in Missing
       /\ \A j \in 1 .. k - 1 : TableOrder[j] \notin Missing
       /\ disk' = [disk EXCEPT !.t[TableOrder[k]] = Table(NewLayout[TableOrder[k]], {})]
  /\ UNCHANGED <<tx, fk, pc, faults, original, times>>

\* Faulty: foreign keys stay on.
CheckVersionKeysOn ==
  /\ pc = "create" /\ Missing = {}
  /\ pc' = IF disk.version > SchemaVersion THEN "refused"
           ELSE IF disk.version = SchemaVersion THEN "root" ELSE "nsec"
  /\ tx' = disk
  /\ UNCHANGED <<disk, fk, faults, original, times>>

\* migrate: newer is refused, current is done, otherwise foreign keys off and begin.
CheckVersion ==
  /\ pc = "create" /\ Missing = {}
  /\ pc' = IF disk.version > SchemaVersion THEN "refused"
           ELSE IF disk.version = SchemaVersion THEN "root" ELSE "nsec"
  /\ fk' = (disk.version >= SchemaVersion)
  /\ tx' = disk
  /\ UNCHANGED <<disk, faults, original, times>>

------------------------------------------------------------------------------
(* migrate_steps: each step changes tx and passes control to the next *)

Version         == disk.version
SplitTimestamps == disk.t.inodes.layout # "ns"

Step(at, new, next) ==
  /\ pc = at
  /\ tx' = new
  /\ pc' = next
  /\ UNCHANGED <<disk, fk, faults, original, times>>

\* A statement that fails: the transaction is rolled back and Db::open returns.
Stop(at) ==
  /\ pc = at
  /\ tx' = disk
  /\ pc' = "refused"
  /\ fk' = TRUE
  /\ UNCHANGED <<disk, faults, original, times>>

\* DROP TABLE: its indexes go with it, and its rows are deleted first when foreign
\* keys are on, which deletes the rows that reference them.
Dropped(d, t) ==
  [d EXCEPT !.indexes = IF t = "dirents" THEN {} ELSE @,
            !.t = IF t = "inodes" /\ fk
                  THEN [u \in Tables |-> IF u = "file_chunks" /\ @[u].layout = "key" THEN @[u]
                                         ELSE Table(@[u].layout, {})]
                  ELSE @]

EnsureNsecColumns ==
  Step("nsec", IF Version < 1 /\ SplitTimestamps THEN [tx EXCEPT !.t.inodes.layout = "split"]
               ELSE tx, "child")

\* Faulty: CREATE INDEX without IF NOT EXISTS, whatever the version.
ChildIndexStrict ==
  IF "dirents_child" \in tx.indexes THEN Stop("child")
  ELSE Step("child", [tx EXCEPT !.indexes = @ \cup {"dirents_child"}], "dirents")

ChildIndex ==
  Step("child", IF Version < 2 THEN [tx EXCEPT !.indexes = @ \cup {"dirents_child"}] ELSE tx,
       "dirents")

StableIds ==
  Step("dirents", IF Version < 3 /\ tx.t.dirents.layout # "id"
                  THEN [Dropped(tx, "dirents") EXCEPT !.t.dirents = Table("id", tx.t.dirents.rows)]
                  ELSE tx, "indexes")

DirentIndexes ==
  Step("indexes", IF Version < 3 THEN [tx EXCEPT !.indexes = Indexes] ELSE tx, "times")

\* The statement reads the columns for nanoseconds.
MergeTimestampColumns ==
  IF Version < 4 /\ SplitTimestamps
  THEN IF tx.t.inodes.layout = "split"
       THEN Step("times", [Dropped(tx, "inodes") EXCEPT !.t.inodes = Table("ns", tx.t.inodes.rows)],
                 "chunks")
       ELSE Stop("times")
  ELSE Step("times", tx, "chunks")

TooLarge(d) == {c \in d.t.file_chunks.rows : c.index >= MaxChunks \/ c.ino > MaxIno}

Rekeyed(rows, inos) == {Key(c) : c \in {r \in rows : r.ino \in inos}}

RekeyFileChunks ==
  IF Version < 4 /\ tx.t.file_chunks.layout = "pair"
  THEN IF TooLarge(tx) # {} THEN Stop("chunks")
       ELSE Step("chunks", [tx EXCEPT !.t.file_chunks =
                              Table("key", Rekeyed(tx.t.file_chunks.rows, tx.t.inodes.rows))],
                 "version")
  ELSE Step("chunks", tx, "version")

\* Faulty: the version is set outside the transaction.
SetVersionOutside ==
  /\ pc = "version"
  /\ disk' = [disk EXCEPT !.version = SchemaVersion]
  /\ tx' = [tx EXCEPT !.version = SchemaVersion]
  /\ pc' = "commit"
  /\ UNCHANGED <<fk, faults, original, times>>

SetVersion == Step("version", [tx EXCEPT !.version = SchemaVersion], "commit")

\* Faulty: foreign keys stay off.
CommitKeysOff ==
  /\ pc = "commit"
  /\ disk' = tx
  /\ pc' = "root"
  /\ IF row.layout # tx.t.inodes.layout THEN Upgrade ELSE UNCHANGED times
  /\ UNCHANGED <<tx, fk, faults, original>>

\* The commit, with the times of the merged columns, and migrate's restoring of
\* foreign keys.
Commit ==
  /\ pc = "commit"
  /\ disk' = tx
  /\ pc' = "root"
  /\ fk' = TRUE
  /\ IF row.layout # tx.t.inodes.layout THEN Upgrade ELSE UNCHANGED times
  /\ UNCHANGED <<tx, faults, original>>

\* INSERT OR IGNORE of the root; the rest of initialize is in Namespace.
InsertRoot ==
  /\ pc = "root"
  /\ disk' = [disk EXCEPT !.t.inodes.rows = @ \cup {Root}]
  /\ pc' = "open"
  /\ UNCHANGED <<tx, fk, faults, original, times>>

\* Requests while it is mounted, as far as they matter here.
Serve ==
  /\ pc = "open"
  /\ Rewrite \/ \E t \in Pairs(-Horizon .. Horizon) : SetTime(t)
  /\ UNCHANGED db

\* Unmounted, or the error reported; it may be started again.
Close ==
  /\ pc \in {"open", "refused"}
  /\ pc' = "closed"
  /\ tx' = disk
  /\ UNCHANGED <<disk, fk, faults, original, times>>

\* Any statement fails, or the process dies: what is not committed is gone.
Fault ==
  /\ pc # "closed"
  /\ faults < MaxFaults
  /\ faults' = faults + 1
  /\ tx' = disk
  /\ pc' = "closed"
  /\ UNCHANGED <<disk, fk, original, times>>

MigrateSteps ==
  \/ EnsureNsecColumns \/ ChildIndex \/ StableIds \/ DirentIndexes
  \/ MergeTimestampColumns \/ RekeyFileChunks \/ SetVersion \/ Commit

Initialize == CreateTable \/ CheckVersion \/ MigrateSteps \/ InsertRoot

Next == Open \/ Initialize \/ Serve \/ Close \/ Fault

\* The thread runs until Db::open returns, and dbfs is started again.
Spec == Init /\ [][Next]_vars /\ WF_vars(Open \/ Initialize \/ Close)

------------------------------------------------------------------------------
(* Properties *)

\* What file_chunks holds, whichever its layout: <<inode, chunk, data>>.
Chunks(d) ==
  IF d.t.file_chunks.layout = "key"
  THEN {<<r.id \div MaxChunks, r.id % MaxChunks, r.data>> : r \in d.t.file_chunks.rows}
  ELSE {<<r.ino, r.index, r.data>> : r \in d.t.file_chunks.rows}

\* Whatever fails and whenever: the inodes, names, targets and chunks of the
\* database are there at every moment, under their numbers; only chunks that
\* belong to no inode may go (migrate, merge_timestamp_columns, rekey_file_chunks).
ContentsKept ==
  /\ disk.t.inodes.rows \in {original.t.inodes.rows, original.t.inodes.rows \cup {Root}}
  /\ disk.t.dirents.rows = original.t.dirents.rows
  /\ disk.t.symlink_targets.rows = original.t.symlink_targets.rows
  /\ Chunks(disk) \in {Chunks(original), {c \in Chunks(original) : c[1] \in original.t.inodes.rows}}

\* "A failure leaves the database at its old version" (migrate): the version on
\* disk is the old one, with every old table and index as it was and nothing but
\* missing tables added, or the current one with everything the current version
\* has.  The tables of initialize come before the version is known, so a newer
\* database may get them too, against what NewerUntouched says.
WholeVersions ==
  \/ /\ disk.version = original.version
     /\ disk.indexes = original.indexes
     /\ \A t \in Tables :
          \/ disk.t[t].layout = original.t[t].layout
          \/ original.t[t].layout = "none" /\ disk.t[t].layout = NewLayout[t]
  \/ /\ disk.version = SchemaVersion
     /\ disk.indexes = Indexes
     /\ \A t \in Tables : disk.t[t].layout = NewLayout[t]

\* "A database written by a newer dbfs is refused, not modified" (README.md).
NewerUntouched == original.version > SchemaVersion => disk = original

\* A database in use is current, has its indexes and its root, and cascades work
\* (initialize): also one that was only half created when dbfs died.
OpenIsCurrent ==
  pc = "open" => /\ disk.version = SchemaVersion /\ disk.indexes = Indexes
                 /\ \A t \in Tables : disk.t[t].layout = NewLayout[t]
                 /\ Root \in disk.t.inodes.rows
                 /\ fk

Upgradable ==
  /\ original.version <= SchemaVersion
  /\ original.t.file_chunks.layout = "pair" => TooLarge(original) = {}

\* Db::open refuses a database only for what was in it when it was found, a newer
\* version or a chunk past the limit, never for what an earlier version, a failed
\* statement or an interrupted start left behind; and such a one is never opened
\* (migrate, merge_timestamp_columns, rekey_file_chunks).
RefusedForCause == (pc = "refused" => ~Upgradable) /\ (pc = "open" => Upgradable)

\* Every start opens the database in the end, again and again, if it is not newer
\* and has no chunk past the limit, and is refused otherwise: no step gets stuck on
\* what an earlier version or an interrupted start left behind (migrate_steps).
OpensOrRefuses == []<>(pc = IF Upgradable THEN "open" ELSE "refused")
==============================================================================
