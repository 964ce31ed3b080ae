-------------------------- MODULE DurabilityProofs --------------------------
(***************************************************************************)
(* What fsync promised is never lost: proofs about Durability, for any     *)
(* threads and any number of commits, failing syncs and power losses.      *)
(***************************************************************************)
EXTENDS Durability, WellFoundedInduction, TLAPS

\* A non-empty set of integers with an upper bound has a maximum, and Max is it.
LEMMA MaxOfBounded ==
  ASSUME NEW S, NEW a \in Int, NEW b \in Int, S \subseteq a .. b, S # {}
  PROVE  Max(S) \in S /\ \A y \in S : y <= Max(S)
  <1> DEFINE T == {b - x : x \in S}
  <1>1. T \subseteq Nat /\ T # {}
      OBVIOUS
  <1>2. PICK t \in T : \A u \in T : ~(<<u, t>> \in OpToRel(<, Nat))
      BY <1>1, NatLessThanWellFounded, WFMin
  <1>3. ASSUME NEW u \in T PROVE ~(u < t)
    <2>1. u \in Nat /\ t \in Nat /\ ~(<<u, t>> \in OpToRel(<, Nat))
        BY <1>1, <1>2
    <2> QED
        BY <2>1 DEF OpToRel
  <1>4. PICK x \in S : t = b - x
      OBVIOUS
  <1>5. ASSUME NEW y \in S PROVE x >= y
    <2>1. ~(b - y < t) /\ x \in Int /\ y \in Int
        BY <1>3
    <2> QED
        BY <2>1, <1>4
  <1> QED
      BY <1>5 DEF Max

------------------------------------------------------------------------------
(***************************************************************************)
(* Neither property is inductive.  DurableInv says where every commit is:  *)
(* in the database file, or in the log as a frame that is dirty or stored. *)
(***************************************************************************)

Types ==
  /\ committed \in Nat
  /\ base \in 0 .. committed
  /\ pages \in 0 .. committed
  /\ promised \in 0 .. committed
  /\ failures \in Nat
  /\ pc \in [Thread -> {"out", "path", "log", "db"}]
  /\ target \in [Thread -> 0 .. committed]
  /\ ckpt \in {"idle", "log", "pages"}

\* The log has a frame for each commit that is not in the database file.
LogComplete ==
  /\ base + 1 .. committed \subseteq dirty \cup stored
  /\ dirty \cup stored \subseteq base + 1 .. committed

\* After its first sync a checkpoint works on a log that is on the disk as a whole.
CheckpointSynced == ckpt # "idle" => dirty = {}

\* Without a log a commit is in the database file when it returns; sync_database_file
\* opens the database file only then.
RollbackSynced ==
  /\ journal # "wal" => base = committed
  /\ \A t \in Thread : pc[t] = "db" => journal # "wal"

\* The commits up to n would survive a power loss.
Kept(n) == n <= committed /\ base + 1 .. n \subseteq stored

DurableInv ==
  /\ Types
  /\ LogComplete
  /\ CheckpointSynced
  /\ RollbackSynced
  /\ Kept(promised)
  /\ Kept(pages)

\* Recovery leaves n or more commits exactly if the first n are kept.
LEMMA RecoverableKeeps ==
  ASSUME Types
  PROVE  /\ Recoverable \in base .. committed
         /\ Kept(Recoverable)
         /\ \A n \in Nat : Kept(n) => n <= Recoverable
  <1> DEFINE S == {n \in base .. committed : base + 1 .. n \subseteq stored}
  <1>1. base \in S
      BY DEF Types
  <1>2. Max(S) \in S /\ \A n \in S : n <= Max(S)
    <2>1. S \subseteq base .. committed /\ S # {} /\ base \in Int /\ committed \in Int
        BY <1>1 DEF Types
    <2> HIDE DEF S
    <2> QED
        BY <2>1, MaxOfBounded
  <1>3. \A n \in Nat : Kept(n) => n <= Max(S)
    <2> SUFFICES ASSUME NEW n \in Nat, Kept(n) PROVE n <= Max(S)
        OBVIOUS
    <2>1. CASE n < base
        BY <2>1, <1>1, <1>2 DEF Types
    <2>2. CASE n >= base
        BY <2>2, <1>2 DEF Types, Kept
    <2> QED
        BY <2>1, <2>2 DEF Types
  <1> QED
      BY <1>2, <1>3 DEF Recoverable, Kept, Types

\* A sync of the log keeps every commit.
LEMMA SyncedKeeps ==
  ASSUME Types, LogComplete, Synced, UNCHANGED <<committed, base>>
  PROVE  \A n \in 0 .. committed : Kept(n)'
  BY DEF Types, LogComplete, Synced, Kept

\* Every step preserves the invariant.
LEMMA DurableStep == DurableInv /\ [Next]_vars => DurableInv'
  <1> SUFFICES ASSUME DurableInv, [Next]_vars PROVE DurableInv'
      OBVIOUS
  <1> USE DEF DurableInv
  <1>1. CASE Commit
    <2>1. CASE journal = "wal"
        BY <1>1, <2>1 DEF Commit, Types, LogComplete, CheckpointSynced, RollbackSynced, Kept
    <2>2. CASE journal # "wal"
        BY <1>1, <2>2 DEF Commit, Types, LogComplete, CheckpointSynced, RollbackSynced, Kept
    <2> QED
        BY <2>1, <2>2
  <1>2. CASE Writeback
      BY <1>2 DEF Writeback, Types, LogComplete, CheckpointSynced, RollbackSynced, Kept
  <1>3. CASE CheckpointLog
    <2>1. CASE Synced /\ ckpt' = "log"
        BY <1>3, <2>1 DEF CheckpointLog, Synced, Types, LogComplete, CheckpointSynced,
           RollbackSynced, Kept
    <2>2. CASE Unsynced /\ UNCHANGED ckpt
        BY <1>3, <2>2 DEF CheckpointLog, Unsynced, Types, LogComplete, CheckpointSynced,
           RollbackSynced, Kept
    <2> QED
        BY <1>3, <2>1, <2>2 DEF CheckpointLog
  <1>4. CASE CheckpointPages
      BY <1>4 DEF CheckpointPages, Types, LogComplete, CheckpointSynced, RollbackSynced, Kept
  <1>5. CASE CheckpointEnd
      BY <1>5 DEF CheckpointEnd, Types, LogComplete, CheckpointSynced, RollbackSynced, Kept
  <1>6. CASE PowerLoss
    <2>1. /\ Recoverable \in base .. committed
          /\ Kept(Recoverable)
          /\ promised <= Recoverable /\ pages <= Recoverable
        BY RecoverableKeeps DEF Types
    <2>2. pages' = pages
        BY <1>6, <2>1 DEF PowerLoss, Min, Types
    <2>3. Types'
        BY <1>6, <2>1, <2>2 DEF PowerLoss, Types
    <2>4. LogComplete' /\ CheckpointSynced'
        BY <1>6, <2>1 DEF PowerLoss, Types, LogComplete, CheckpointSynced
    <2>5. RollbackSynced'
        BY <1>6, <2>1 DEF PowerLoss, Types, RollbackSynced
    <2>6. Kept(promised)' /\ Kept(pages)'
      <3>1. UNCHANGED <<base, promised, pages>> /\ stored' = base + 1 .. Recoverable
            /\ committed' = Recoverable
          BY <1>6, <2>2 DEF PowerLoss
      <3>2. base + 1 .. promised \subseteq base + 1 .. Recoverable
            /\ base + 1 .. pages \subseteq base + 1 .. Recoverable
          BY <2>1 DEF Types
      <3> QED
          BY <2>1, <3>1, <3>2 DEF Kept
    <2> QED
        BY <2>3, <2>4, <2>5, <2>6
  <1>7. ASSUME NEW t \in Thread, SyncDurable(t) PROVE DurableInv'
      BY <1>7 DEF SyncDurable, Move, files, Types, LogComplete, CheckpointSynced,
         RollbackSynced, Kept
  <1>8. ASSUME NEW t \in Thread, OpenLog(t) PROVE DurableInv'
      BY <1>8 DEF OpenLog, Move, files, Types, LogComplete, CheckpointSynced,
         RollbackSynced, Kept
  <1>9. ASSUME NEW t \in Thread, SyncData(t) PROVE DurableInv'
    <2>1. target[t] \in 0 .. committed /\ promised \in 0 .. committed
        BY DEF Types
    <2>2. Max({promised, target[t]}) \in {promised, target[t]}
        BY <2>1, MaxOfBounded DEF Types
    <2>3. CASE pc[t] = "log" /\ Synced /\ Promise(t)
      <3>1. Kept(promised)' /\ Kept(pages)'
          BY <1>9, <2>1, <2>2, <2>3, SyncedKeeps DEF SyncData, Promise, Types
      <3> QED
          BY <1>9, <2>1, <2>2, <2>3, <3>1 DEF SyncData, Promise, Move, Synced, Types,
             LogComplete, CheckpointSynced, RollbackSynced
    <2>4. CASE pc[t] = "log" /\ Unsynced /\ UNCHANGED promised
        BY <1>9, <2>4 DEF SyncData, Unsynced, Move, Types, LogComplete, CheckpointSynced,
           RollbackSynced, Kept
    <2>5. CASE pc[t] = "db" /\ Promise(t) /\ UNCHANGED <<dirty, stored, failures>>
        BY <1>9, <2>1, <2>2, <2>5 DEF SyncData, Promise, Move, Types, LogComplete,
           CheckpointSynced, RollbackSynced, Kept
    <2> QED
        BY <1>9, <2>3, <2>4, <2>5 DEF SyncData
  <1>10. CASE UNCHANGED vars
      BY <1>10 DEF vars, files, Types, LogComplete, CheckpointSynced, RollbackSynced, Kept
  <1> QED
      BY <1>1, <1>2, <1>3, <1>4, <1>5, <1>6, <1>7, <1>8, <1>9, <1>10 DEF Next

\* A new database satisfies it.
LEMMA DurableInit == Init => DurableInv
  BY DEF Init, DurableInv, Types, LogComplete, CheckpointSynced, RollbackSynced, Kept

\* It holds in every state.
LEMMA DurableAlways == Spec => []DurableInv
  BY DurableInit, DurableStep, PTL DEF Spec

\* What a successful fsync covered is never lost, whatever fails afterwards
\* (sync_database_file).
THEOREM FsyncDurable == Spec => []FsyncedSurvives
  <1>1. DurableInv => FsyncedSurvives
      BY RecoverableKeeps DEF DurableInv, Types, FsyncedSurvives
  <1> QED
      BY <1>1, DurableAlways, PTL

\* A power loss leaves a prefix of the commits (synchronous = NORMAL in Db::open).
THEOREM PrefixRecovered == Spec => []RecoversPrefix
  <1>1. DurableInv => RecoversPrefix
      BY RecoverableKeeps DEF DurableInv, Types, RecoversPrefix
  <1> QED
      BY <1>1, DurableAlways, PTL
=============================================================================
