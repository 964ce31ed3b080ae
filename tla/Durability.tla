----------------------------- MODULE Durability -----------------------------
(***************************************************************************)
(* What a successful fsync promises: sync_durable of src/db.rs, called by  *)
(* the session thread (sync_fh) and by the shutdown thread (flush_all),    *)
(* over SQLite's write-ahead log and the host's page cache.                *)
(*                                                                         *)
(* Commits are numbered.  The log holds the commits after `base`, which    *)
(* are in the database file itself.  The log, checkpoints and the page     *)
(* cache are external: they are here as far as the pragmas of Db::open     *)
(* (journal_mode = WAL, synchronous = NORMAL, wal_autocheckpoint) and the  *)
(* fdatasync of sync_database_file meet them.  A commit and a checkpoint   *)
(* hold the connection's lock, sync_database_file holds none.              *)
(*                                                                         *)
(* A definition whose comment begins "Faulty" is a wrong variant of the    *)
(* one after it; no specification uses it.                                 *)
(***************************************************************************)
EXTENDS Integers, FiniteSetsExt

CONSTANTS Thread,      \* the threads that commit and sync
          MaxCommits,  \* bound on commits
          MaxFailures  \* bound on failing syncs

ASSUME DurabilityAssumption == MaxCommits \in Nat /\ MaxFailures \in Nat

VARIABLES committed,  \* number of the last commit
          journal,    \* "wal", or "rollback" when the file system has no shared memory
          base,       \* commits whose pages are synced in the database file
          dirty,      \* log frames, by commit, only in the page cache
          stored,     \* log frames on the disk
          ckpt,       \* the checkpoint's stage: "idle", "log", "pages"
          pages,      \* commits whose pages a checkpoint may have put in the database
          pc,         \* each thread in sync_durable: "out", "path", "log" or "db"
          target,     \* ghost: the last commit when a thread entered sync_durable
          promised,   \* ghost: commits covered by a sync that returned Ok
          failures

files == <<base, dirty, stored, ckpt, pages>>
vars  == <<committed, journal, files, pc, target, promised, failures>>

Init ==
  /\ committed = 0 /\ base = 0 /\ pages = 0 /\ promised = 0 /\ failures = 0
  /\ journal \in {"wal", "rollback"}
  /\ dirty = {} /\ stored = {}
  /\ ckpt = "idle"
  /\ pc = [t \in Thread |-> "out"]
  /\ target = [t \in Thread |-> 0]

\* What a power loss now would leave: the log is replayed up to its first frame
\* that is not on the disk.
Recoverable == Max({n \in base .. committed : base + 1 .. n \subseteq stored})

------------------------------------------------------------------------------
(* External: SQLite and the page cache *)

\* A transaction of any request.  Without a log, it is synced before it returns.
Commit ==
  /\ ckpt = "idle"
  /\ committed < MaxCommits
  /\ committed' = committed + 1
  /\ IF journal = "wal"
     THEN dirty' = dirty \cup {committed + 1} /\ UNCHANGED <<base, pages>>
     ELSE base' = committed + 1 /\ pages' = committed + 1 /\ UNCHANGED dirty
  /\ UNCHANGED <<journal, stored, ckpt, pc, target, promised, failures>>

\* The host writes a page when it likes.
Writeback ==
  /\ \E f \in dirty : dirty' = dirty \ {f} /\ stored' = stored \cup {f}
  /\ UNCHANGED <<committed, journal, base, ckpt, pages, pc, target, promised, failures>>

\* A sync that fails leaves its pages dirty: the host is assumed to keep them for the
\* next sync, which is what a retry of fsync relies on.
Synced   == dirty' = {} /\ stored' = stored \cup dirty /\ UNCHANGED failures
Unsynced ==
  /\ failures < MaxFailures
  /\ failures' = failures + 1
  /\ UNCHANGED <<dirty, stored>>

\* Faulty: synchronous = OFF, no sync of the log.
CheckpointLogOff ==
  /\ ckpt = "idle" /\ journal = "wal" /\ committed > base
  /\ ckpt' = "log"
  /\ UNCHANGED <<committed, journal, base, dirty, stored, pages, pc, target, promised, failures>>

\* wal_autocheckpoint, after a commit: the log is synced, its pages are written to
\* the database, the database is synced, and the log starts again.  A failing sync
\* ends the checkpoint, not the commit.
CheckpointLog ==
  /\ ckpt = "idle" /\ journal = "wal" /\ committed > base
  /\ \/ Synced /\ ckpt' = "log"
     \/ Unsynced /\ UNCHANGED ckpt
  /\ UNCHANGED <<committed, journal, base, pages, pc, target, promised>>

CheckpointPages ==
  /\ ckpt = "log"
  /\ pages' = committed
  /\ ckpt' = "pages"
  /\ UNCHANGED <<committed, journal, base, dirty, stored, pc, target, promised, failures>>

CheckpointEnd ==
  /\ ckpt = "pages"
  /\ ckpt' = "idle"
  /\ \/ base' = committed /\ dirty' = {} /\ stored' = {} /\ UNCHANGED failures
     \/ failures < MaxFailures /\ failures' = failures + 1 /\ UNCHANGED <<base, dirty, stored>>
  /\ UNCHANGED <<committed, journal, pages, pc, target, promised>>

\* The host stops; dbfs is mounted again on what is left.
PowerLoss ==
  /\ committed' = Recoverable
  /\ dirty' = {} /\ stored' = base + 1 .. Recoverable
  /\ ckpt' = "idle"
  /\ pages' = Min({pages, Recoverable})
  /\ pc' = [t \in Thread |-> "out"]
  /\ target' = [t \in Thread |-> 0]
  /\ UNCHANGED <<journal, base, promised, failures>>

------------------------------------------------------------------------------
(* sync_durable *)

Move(t, to) == pc' = [pc EXCEPT ![t] = to]

\* sync_fh and flush_all: what was flushed is committed; the path is read under
\* the connection's lock.
SyncDurable(t) ==
  /\ pc[t] = "out" /\ ckpt = "idle"
  /\ Move(t, "path")
  /\ target' = [target EXCEPT ![t] = committed]
  /\ UNCHANGED <<committed, journal, files, promised, failures>>

\* Faulty: opens the database file always.
OpenLogNever(t) ==
  /\ pc[t] = "path"
  /\ Move(t, "db")
  /\ UNCHANGED <<committed, journal, files, target, promised, failures>>

\* sync_database_file opens the log if there is one, otherwise the database.
OpenLog(t) ==
  /\ pc[t] = "path"
  /\ Move(t, IF journal = "wal" THEN "log" ELSE "db")
  /\ UNCHANGED <<committed, journal, files, target, promised, failures>>

Promise(t) == promised' = Max({promised, target[t]})

\* sync_data; an error is returned to the caller.
SyncData(t) ==
  /\ Move(t, "out")
  /\ \/ pc[t] = "log" /\ Synced /\ Promise(t)
     \/ pc[t] = "log" /\ Unsynced /\ UNCHANGED promised
     \/ pc[t] = "db" /\ Promise(t) /\ UNCHANGED <<dirty, stored, failures>>
  /\ UNCHANGED <<committed, journal, base, ckpt, pages, target>>

Next ==
  \/ Commit \/ Writeback \/ CheckpointLog \/ CheckpointPages \/ CheckpointEnd \/ PowerLoss
  \/ \E t \in Thread : SyncDurable(t) \/ OpenLog(t) \/ SyncData(t)

Spec == Init /\ [][Next]_vars

------------------------------------------------------------------------------
(* Properties *)

\* "so the committed bytes reach the host" (README): every commit before a
\* successful fsync is on the disk from then on, although the file is opened and
\* synced without a lock, while the other thread commits and a checkpoint empties
\* the log, and also after an earlier fsync failed (sync_database_file).
FsyncedSurvives == promised <= Recoverable

\* A power loss leaves a prefix of the commits: no page of a commit that is lost
\* is in the database already (synchronous = NORMAL in Db::open).
RecoversPrefix == pages <= Recoverable
==============================================================================
