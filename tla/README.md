# dbfs in TLA+

dbfs is a FUSE filesystem whose files and directories are rows of one SQLite
database. Writes are buffered in memory, in an arena of 64 KiB chunks with a
fixed budget, and reach the database when a file is flushed, closed, truncated
or evicted, and when the process shuts down. This project models the buffers, the
tables around them, the directory tree, the database file through upgrades,
crashes and power losses, and the threads of a mount, checks them with TLC on
small instances and proves the most important properties with TLAPS for all
instances.

Paths below are relative to the repository: `src/fuse.rs`, `src/db.rs` and so on.

## The system

| Component | State | Operations | Module |
|---|---|---|---|
| Write buffer (`arena.rs`, `fuse.rs`, `db.rs`) | arena bytes, lengths and free list; dirty index and size of each open inode; `file_chunks`, `inodes.size` | write, evict, flush, truncate, fallocate, read, restart | `ChunkSpan`, `WriteBuffer` |
| Open table (`open_table.rs`, `fuse.rs`, `db.rs`) | slots, handles, `unlinked` marks; `inodes.nlink`, `dirents`, `file_chunks` keys | open, create, mknod, write, flush, release, setattr, link, unlink, rename, crash, startup sweep | `OpenTable` |
| Attributes (`fuse.rs`, `db.rs`) | size and mtime in the row and in the slot | write, flush, release, setattr, truncate, link, getattr, lookup, shutdown flush | `Attributes` |
| Mount and shutdown (`run.rs`, `fuse.rs`) | three threads, the event channel, `closing`, `last_flush`, the exit status | signal, requests, flush_all on two threads, unmount, wait, report | `Mount` |
| Namespace (`db.rs`) | `inodes`, `dirents`, `symlink_targets`, directory link counts | mkdir, create, mknod, symlink, link, unlink, rmdir, rename, last close, crash, recount and sweep | `Namespace` |
| readdir (`fuse.rs`, `db.rs`) | cookies, which the kernel keeps | readdir in pieces | `Readdir` |
| Schema and migration (`db.rs`) | `user_version`, table layouts, indexes | initialize, migrate | `Migration` |
| Timestamps (`model.rs`, `db.rs`) | a time column | set, rewrite, upgrade, show | `Timestamps` |
| Durability (`db.rs`) | write-ahead log, page cache, disk | commit, checkpoint, sync_durable, power loss | `Durability` |
| Mount options, command line (`run.rs`, `cli.rs`) | flags, options, buffer size | parse, validate, open, mount | `MountOptions` |

How they interact. The FUSE session thread takes one request at a time. An
operation on file data takes the table lock first and then, inside each `Db`
method, the connection lock, and keeps the table lock to its end. The main
thread reaches the same table on a shutdown signal. Two places do not hold the
table lock throughout, and both matter: `getattr` and `lookup` read the row
before they take it, and `flush_all` drops it before it syncs.

What is hard here, and what makes each part correct:

* Write buffer: a write may evict its own earlier chunks, fail or die between
  any two chunks; arena slots are reused with old bytes in them. Reads must
  return what was written, a crash must leave a whole earlier content, and no
  slot may be lost.
* Open table: inode, slot and handle numbers are all reused; files are unlinked
  and replaced while open; chunk rows have no foreign key. A handle must keep
  reaching its own file and no file may get another's chunks.
* Attributes: row and slot disagree while data is buffered. Every reply must
  show the operations made so far.
* Shutdown: two threads flush the same buffers and record the outcome in any
  order, a session may never end. Exit status 0 must mean that nothing
  acknowledged is lost, and a signal must end the process.
* Namespace: a rename moves whole subtrees and replaces entries, link counts are
  kept by increments and recounted at startup, and deletes cascade. The
  directories must stay one tree and no name may go that nobody removed.
* readdir: a listing takes many requests, between which everything may change and
  entry ids come back. What stays must be listed exactly once.
* Migration: tables are created before the version is known, the upgrade runs with
  foreign keys off, and any statement may fail. The file must be of one whole
  version, with its contents, and the next start must get through.
* Durability: commits are not synced, fsync syncs the log without a lock, and
  checkpoints empty it. What a successful fsync covered must survive.

The hazards behind these are listed one by one, with the line where each bites,
in `PROJECT.json`.

## Modules

Every specification keeps the names of the code. A definition whose comment
begins "Faulty" is a wrong variant of the definition after it; no specification
uses it. It records a mistake that one of the properties would notice.

**`ChunkSpan`** is `ChunkSpan` and `ChunkPiece` of `db.rs`: which chunks a byte
range covers and which piece of each.

**`WriteBuffer`** has the arena (`abytes`, `alen`, `free`, `grown`), the dirty
index and size of each inode (`dirty`, `size`) and the database (`stored`,
`dbsize`). Operations hold the table lock, so they do not interleave, but
`write_slot` is a sequence of steps (`WriteStart`, then per chunk `WriteHit` or
`WriteNew`, `WriteEvict` for each turn of `alloc_chunk`'s loop, `WriteReturn`)
because it can fail (`WriteEvictFail`, `WriteLoadFail`) or the process can die
(`Crash`) between any two. `truncate_locked` is one step; a failure between its
two transactions is the step `Flush`. `ReadSlot` computes a read as the code
does, chunk by chunk; `ReadByte` says what it should return. The free list is a
set: the order of reuse is not promised. A payload is a sequence of bytes.

**`FileContents`** is the abstract specification: a file has a content, which
reads return, and a saved copy, which is what a crash leaves. Writes place
bytes from first to last, saving copies the content in one step. There are no
chunks, no arena and no evictions. `WriteBuffer!ImplementsFileContents` is the
refinement, with `ContentOf`, `SavedOf` and `RequestOf` as the mapping.

**`OpenTable`** abstracts the bytes to the identity of the file they were written
to, and keeps all numbers and their reuse: `NewIno` is SQLite's largest rowid
plus one, chunk keys are `ino * MaxChunks + chunk`. Ghost variables (`opened`,
`owed`, `stuck`) say which file the kernel opened as a handle, which
acknowledged chunks are not stored yet, and which deletions failed. An action
is a whole request. The startup sweep runs outside a transaction, so its two
statements are two steps. Names are those of one directory. External, from how
the code uses it: the kernel only names inodes that have a name or are open,
does not link an inode without a name, and does not rename between two names of
one inode.

**`Attributes`** is one regular file with a name: row, slot, clock, the two
halves of `getattr`, and the shutdown thread. A write sets mtime, then buffers its
chunks one by one (`Placed`); it may evict its own chunks on the way (`PlaceUpto`) and
fail before any of them (`WriteFails`). `told` is what the operations amount to. That
includes failed writes, as far as the code keeps them: the size that covers the
chunks buffered so far and, when the file has a dirty chunk, of this write or of
an earlier one, the mtime. The file thus shows the mtime of a write that returned
an error; the repository promises nothing else.

**`Mount`** has a program counter for the main and the session thread. A file is
three facts: it has a name, it has acknowledged data in memory only, it has
stored data that is not synced. `flush_all` is two steps, the loop under the
lock and the sync after it, and `record_flush` a third, on either thread.

**`Namespace`** has the three tables (`db`), the open inodes and the stage of
`Db::open`. An action is a whole request: what returns an error is its guard, and
its transaction is composed of operators that are its statements (`WithEntry`,
`AddDirectoryNlink`, `DropUnlinkedInode`, `Moved`), in the order of the code.
`DeleteInodeRows` includes the cascades of the foreign keys. Numbers and entry ids
are the largest in use plus one, as in SQLite, so both are reused. `Climb` is the
walk of `is_descendant`. External: the kernel links only an inode with a name and
does not rename between two names of one inode.

**`Readdir`** extends `Namespace` with one listing. A reply is `ReaddirStream`, the set
of entries it gives in the order of their cookies; any non-empty beginning of it
counts, because the reply buffer is full or the process takes no more, and the next
request starts after it. All requests of `Namespace`
happen in between.

**`Migration`** is `Db::open` as a program counter over the statements. A table is a
layout and its rows; `disk` is what is committed and `tx` the transaction. It
starts from every database an older, this or a newer dbfs may have left:
unversioned ones with and without nanoseconds or the later tables, versions 1 to 4
with chunks that fit, chunks past the limit and chunks of inodes that are gone.
`Fault` is a failing statement or a crash, at any point. `Dropped` is SQLite's
`DROP TABLE`, which deletes what references the table when foreign keys are on.

**`Timestamps`** follows one time of one inode, as operators and steps that
`Migration` takes: the commit of an upgrade converts it with its table, and while
the database is open `Serve` sets and rewrites it. A `SystemTime` is a number of
nanoseconds, `Pairs` are the (secs, nsec) of `Timestamp` and of the kernel. `FuserTime` and `FuserSplit` are
what fuser does on either side; the rest is the code's.

**`Durability`** numbers the commits. SQLite's log, its checkpoints and the host's
page cache are external and as small as the promise of fsync allows: a frame is in
the cache or on the disk, a recovery replays the log up to the first missing
frame. Pages whose sync failed stay dirty: on a host that marks them clean, as
Linux does, an fsync after a failed one (or after a failed sync in a checkpoint)
may succeed without them, and `FsyncedSurvives` would not hold.

**`MountOptions`** goes from the command line to the mount: `Parse` (clap and
`parse_size`), `Validate` (`mount_options_for`), `OpenDb`, `Mount`. An option is a name
and a value, and a list of options is how often each is in it: nothing depends on
the order of the finished list, while an option that is there twice shows. The order
of the tokens is kept, since the last fsname wins.

**`MC*`** modules give the constants values for TLC. **`*Proofs`** hold the
theorems.

## Runs

| Run | What it shows | Bounds and why |
|---|---|---|
| `write_buffer` | types, arena slots, sizes, eviction, placed bytes, reads, refinement of `FileContents`; every step brings a write closer to its end, writes return | one file of three chunks of two bytes, two arena slots, one three-byte payload with distinct neighbours: a write covers a full and a partial chunk on either side, and the third chunk evicts the file's own others. A second file is out of reach of these properties in one run; the proofs are for any number of files, and `open_table` evicts one file for another |
| `open_table` | identity of handles, ownership of chunks, nothing owed is dropped, exact slots, link counts, orphans, deletions | three names, three handles, inode numbers 2 and 3, two chunks each, a budget of two: every number is reused, a file has two names and two handles, eviction happens; names and handles are symmetric |
| `mount_shutdown` | exit status, no signal lost, termination | two files (one fails while the other succeeds), two signals (one starts the shutdown, one arrives during it) |
| `mount_flush_failure` | violated: see Findings | as `mount_shutdown` |
| `attributes` | overlay, `setattr` and `getattr` replies, with writes that fail half-way | sizes 0..3, times 0..2, two handles: before, at and after a write; a write that evicts its first chunk, buffers the second and fails at the third |
| `attributes_getattr_race`, `attributes_link_reply` | violated: see Findings | as `attributes` |
| `namespace` (`MCReaddir`) | one tree, exact link counts, sound entries, open inodes kept, one entry at a time; what stays in a directory is listed exactly once | three names per directory, three inodes besides the root, three entry ids: a chain of two directories and one moved below the other, a directory replaced by another, hard links across directories, reuse of every number; in a listing, two entries change around one that stays and a freed id comes back below or above the position; names are symmetric |
| `migration` | contents, whole versions, current when open, refused only for cause, every start ends; times come back, the upgrade agrees | two chunks per file, inode numbers to 3, two faults: a fault in the first start and another in the one that repairs it; chunks that fit, of an inode that is gone, and past either limit of a key; 4 nanoseconds to the second, an i64 of -15 to 14 and times to 4 seconds: the last full second, the partial one at each end and times past it, on both sides |
| `migration_newer` | violated: see Findings | as `migration` |
| `durability` | what was synced survives, recovery leaves a prefix | two threads, four commits, two failing syncs, any number of power losses: a commit before, during and after each of two overlapping syncs and a checkpoint |
| `mount_options` | permissions, access, last names, tokens, nothing twice, untouched database, budget | all flags, two tokens (so one can override or contradict another), sizes from 0 to past the limit (`MaxDigits` 3 with a `Kilo` of 4 and a `MaxUsize` of 127) |

Deadlock is checked in every run but `mount_options`, where a command line is
handled once and then the program serves or exits. `Mount` ends in `Done`, a
stuttering step of a process that has exited.

Fairness. `WriteBuffer`: weak fairness of the steps of a write, because the
thread that holds the table lock waits for nobody inside `write_slot`; failures
are not forced. `Mount`: weak fairness of the main thread, of `destroy` and of
the signal waiter; the timeout of `recv_timeout` is part of the main thread.
Nothing makes the kernel send requests or end the session, which is why
`SignalEndsProcess` needs `SHUTDOWN_GRACE`. `Migration`: weak fairness of the steps
of `Db::open`, which runs to its end on one thread, and of starting dbfs again;
faults are bounded and not forced.

## Proofs

All proofs hold for every value of the constants that the named assumptions allow.
Each module's theorems rest on one inductive invariant; where a run's property
is not inductive, this says what had to be added and why. Induction over the length
of a walk, a loop or a count is done with a least counterexample (`LeastOf`: a
non-empty set of naturals has a least element). Where a `TypeOK` says more than
types, bounds of indices in `WriteBuffer` and counts in `Namespace`, a run checks it
too; elsewhere the proof is enough.

**`WriteBufferProofs`**, for every chunk size, file size, budget, set of files and set
of payloads: `TypeOK`, `ArenaConserved`, `SizesCover`, `CleanSizeStored`,
`EvictionFindsVictim`, `PlacedBytesReadBack`, `ReadsReturnContent`,
`ImplementsFileContents` and `WriteMovesOn`. `BufferInv` joins the first four with `WriteFits` (the write
in progress lies inside the file and its next chunk inside its span), which gives
the bounds of every index. The argument:

1. chunk arithmetic (`DivFacts`, `TimesMono`, `SpanBounds`, `PieceBounds`): the one
   nonlinear part, isolated so that the steps below are linear;
2. types and lengths of what the helpers build (`FlushedRowsType`, `CutRowsType`);
3. one lemma per piece of an operation (`FlushKeeps`, `TruncateKeeps`, `HitKeeps`,
   `NewKeeps`, `LoadFailKeeps`, `EmptyKeeps`). `Conserved`, a form of
   `ArenaConserved` without the set `Used`, is what makes `SizesCover` go through:
   changing the length of an arena slot must touch one dirty chunk only;
4. `EvictionSafe` follows from `BufferInv`: with the budget used up every slot
   holds a dirty chunk, and among bounded counts there is a largest.

The refinement adds `Padded`: no stored row has a byte past its length. Then the
content of a file is the image of the rows that a flush would store
(`ImagesShown`): the comparison with the size in `ReadByte` changes nothing, because
rows are padded and lie within the sizes. With that, a flush or an eviction changes
the saved copy only (`FlushShows`), a truncation cuts the image (`TruncateShows`), and
putting one piece of a write into a chunk, whether it was dirty, stored or new,
places the bytes from one `PlacedUpto` to the next and no other (`PutShows`,
`PieceByte`). `RefineStep` maps every step to a step of `FileContents` or a stutter.
`PlacedStep` carries over what was placed before.
For `ReadsReturnContent`, each of the two loops of `read_slot` is an equation that a
function satisfies (`Pass`); `PassFills` gives the solution and shows that all
solutions agree on the last chunk.

`WriteMovesOn` is the safety half of `WriteReturns`: `StepsLeft`, two for each chunk
left and one for the return, goes down with every step, since a flush of a dirty
inode frees a slot and nothing else runs while the table is locked. What is left to
fairness is only that the thread goes on.

Assumptions: `ChunkAssumption`, `BufferAssumption` and `NoWriteAssumption`, that is,
positive sizes, non-empty payloads, a zero byte, and a value for "no write" that
is neither a write of the buffer nor a request of `FileContents`.

**`MountProofs`**, for any set of files and any number of signals: `TypeOK`,
`ExitZeroMeansDurable`, `ExitOneHasCause` and `ShutdownHeeded`. `DurableInv` follows the outcome of a
flush from the loop of `flush_all` through the sync and the recording to the
exit: once a thread is past its loop without an error nothing is pending,
because no write is accepted any more, either since `closing` is set or since
the session thread has left its request loop. It also needs that `SessionEnded`
is on the channel only when the session thread is gone. `CauseInv` says that
every remembered error happened. `ShutdownHeeded`, the safety half of
`SignalEndsProcess`, is inductive with `TypeOK`.

**`DurabilityProofs`**, for any threads and any number of commits, failing syncs,
checkpoints and power losses: `FsyncedSurvives` and `RecoversPrefix`. Its
`DurableInv` says where every commit is: in the database file or in the log, as a
frame that is dirty or stored (`LogComplete`); that a checkpoint past its first sync
works on a log without dirty frames; and that without a log a commit is in the file
when it returns. `Kept(promised)` is then preserved by a checkpoint, which raises
`base`, and by a power loss, which takes only dirty frames.

**`AttributesProofs`**, for any sizes, clock and number of handles: `TypeOK`,
`OverlayShowsTold`, `SetattrReplyCurrent` and `GetattrReplyCurrent`. `ToldInv` says who
holds size and mtime: a dirty slot, otherwise the row, with a clean slot repeating
the size; it is needed because a clean slot may be dropped. `PlacedSomewhere` says the
same of a write in its middle, whichever of its chunks an eviction has stored.
`GettingInv` is about what a getattr has read before it takes the lock. Assumption:
`None` is no slot and no attribute.

**`OpenTableProofs`**, for any finite sets of names and handles (directories and
processes are finite), any files, inode numbers, chunks per file and budget: `TypeOK`,
all six invariants of the run and the action property `DeletedOnlyUnreachable`.
The invariant is about a table, rows and opened files as values (`TableInv`), so that
the operators a request is composed of are treated one by one, states between them
included. Added to the properties: index and slots agree (`Indexed`), a file has one
number (`RowsSound`), chunk rows belong to the inode whose key range they are in
(`ChunkRowsSound`, which needs that key ranges are disjoint), and what startup may
assume (`StartupInv`).

**`NamespaceProofs`**, for any names, inode numbers and entry ids: `TypeOK`, `OneTree`,
`LinkCountsExact`, `EntriesSound` and `OneEntryAtATime`. `DbInv` replaces "going up
reaches the root" by `Rooted`: no set of directories without the root is closed
upwards. A move keeps that, because such a set after the move would be one before it,
or would contain the moved directory and its new parent, and then the walk of
`is_descendant` had found it (`Escapes`). `WalkReachesRoot` goes back: a walk that
is `MaxIno` long without reaching the root visits a directory twice, and those in
between are closed upwards. `Counted` is kept by every increment and decrement,
also while the count of a parent is one too high in the middle of a rename
(`OneHigh`), so the recount at startup finds nothing to change
(`RecountChangesNothing`).

Of listings, with the same generality: `EveryStayerOnce`, and that `ReaddirSpec`
implies `Namespace`'s `Spec`, so that the theorems above hold of the composition
that the run checks. `StreamInv` says that exactly those were seen, of the
ones that stayed, whose entry is at or before the cookie. That a cookie keeps its
meaning is `SameId`: while an inode has a single name in the directory its entry keeps
its id. `MovesKeepId` says so of every step of `Namespace`: entries come, or go, or one
moves under its id and no other entry of its inode goes with it. The last part
depends on the kernel not renaming between two names of one inode.

**`MigrationProofs`**, for any limits of a chunk key, length of a second and range of
nanoseconds, and any faults: `ContentsKept`, `WholeVersions`, `OpenIsCurrent`,
`RefusedForCause` and `TimesKept`. `TxInv` says what the transaction has done before
each statement, and `MigrationInv` that the file on disk is as some dbfs left it, with the missing tables
added, or migrated. `TimeInv` says that the time in the row is what the time
told comes to on the way it took. `TimestampsAssumption` asks that the largest number
of nanoseconds is not the last one of its second: i64::MAX is 854775807 into its
second. Without it the upgrade, which clamps the last second at the lower end as a
whole, could move a time by a full second. For `RefusedForCause`, `UpgradeInv` says
what the steps that may refuse find: the upgrade of the times meets only layouts that
a version had or an earlier step made, never what an interrupted start left, and a
database is brought to the current version only if it was upgradable.

**`MountOptionsProofs`**, for any labels, number of tokens and digits, chunk size,
default and largest number: `OptionsAsAsked` and `BudgetAsAsked`. `CommandInv` says what
each stage has established for the next. What `AllOptions` computes is given in closed
form (`Listed`: an option is present when a flag or a token asks for it and, for a
name, no later token replaced it). `FoldIs` shows that this satisfies the equation of
the loop and that, at a least position where another solution would differ, it does
not; `LastGiven` is the part about names. The sizes need `WholeChunks`, a fact of
division.

Only model-checked: the liveness properties `WriteReturns`, `SignalEndsProcess` and
`OpensOrRefuses`, which need fairness, out of the prover's reach. Their safety halves
(`WriteMovesOn`, `ShutdownHeeded`, `RefusedForCause`) are proved. `WriteReturns` is
checked with one file; for several, `WriteMovesOn` says that a write runs out of steps. Every invariant and
every action property of a passing run is a theorem.

## Findings

* `attributes_link_reply`: `link` replies with the row alone, so size and mtime of
  buffered writes are missing from what the kernel is told.
* `attributes_getattr_race`: a shutdown flush between the two halves of `getattr`
  or `lookup` makes them reply with the state before an acknowledged write.
* `mount_flush_failure`: `mount_dbfs` promises an error for "a flush failure at any
  point", but the second of the two shutdown flushes overwrites the outcome of
  the first. No data is lost: `ExitZeroMeansDurable` holds.
* `migration_newer`: the README says that a newer database "is refused, not modified",
  but `initialize` creates the tables it lacks before `migrate` looks at the version.
  What it held is kept (`ContentsKept`), and `WholeVersions` says that missing tables
  are all that is added.

Worth knowing: unlink and rename over a file flush nothing, although
`docs/docker.md` lists them among the operations that do (nothing is lost by it:
`UnsavedBuffered`); `merge_timestamp_columns` clamps the whole last second at either end of the
range, where `to_ns` keeps it (`UpgradeAgrees` says by how much); `from_system_time` turns a time within the
second before the epoch into one after it, but fuser never passes one, because
its own split has the same gap (`SetTimeComesBack`).

## Not modelled

Queries that change nothing (`statfs`, `readlink`, extended attributes), the
direct storage calls `write_file`, `write_file_batch` and `read_file`, which only
tests use (a mount goes through the buffers to `replace_chunks`, `truncate_file`
and `read_into`, which `WriteBuffer` has), the mapping of errors to errnos (a
finite table; the models tell success from failure), kernel cache settings
(constants for the kernel; its writeback cache is not part of dbfs), entry points
and benchmarks. Modes, owners and the times of
directories are plain columns that nothing else depends on. A panic inside a
handler poisons the table mutex and ends the process abnormally; it is left out.

SQLite is taken at its word, except in `Durability`: a transaction happens or does
not, and a committed one survives the death of the process. `Mount` takes a
successful sync to cover what was stored before it, which `Durability` examines.

One hazard has no property: the reuse of inode numbers under one generation needs
the kernel's inode cache. The order of ctime is left out too: a flush stores the
time of the write, which may be older than a ctime stored since, but nothing in
the repository promises an order.

## Plan

The parts in the inventory are modelled and what can be proved of them is. Open are
the liveness properties beyond their bounds, a model of the kernel's inode cache for
the hazard without a property, and, when the code changes, the modules it touches.
