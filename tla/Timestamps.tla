----------------------------- MODULE Timestamps -----------------------------
(***************************************************************************)
(* One time of one inode on its way from the kernel to the database and    *)
(* back: Timestamp of src/model.rs, the time columns of src/db.rs in both  *)
(* layouts, and the upgrade from the older to the newer one.  When these   *)
(* steps happen is in module Migration.                                    *)
(*                                                                         *)
(* The kernel and the rows of schema version 3 have (secs, nsec), version  *)
(* 4 one i64 of nanoseconds.  The i64 and the second are scaled down:      *)
(* MaxNs stands for i64::MAX, NsPerSec for 10^9.                           *)
(*                                                                         *)
(* A definition whose comment begins "Faulty" is a wrong variant of the    *)
(* one after it; no specification uses it.                                 *)
(***************************************************************************)
EXTENDS Integers, FiniteSetsExt

CONSTANTS NsPerSec,  \* nanoseconds in a second
          MaxNs,     \* i64::MAX
          Horizon    \* seconds from the epoch to the farthest time that is set

ASSUME TimestampsAssumption ==
  /\ NsPerSec \in Nat \ {0, 1}
  /\ MaxNs \in Nat /\ MaxNs > 2 * NsPerSec
  /\ MaxNs % NsPerSec # NsPerSec - 1   \* i64::MAX is 854775807 in its second
  /\ Horizon \in Nat

MinNs   == -MaxNs - 1
MaxSecs == MaxNs \div NsPerSec   \* 9223372036

VARIABLES told,  \* ghost: the time last set, as the kernel gave it
          row,   \* the columns: [layout |-> "split", time] or [layout |-> "ns", ns]
          old    \* ghost: it was set before the upgrade

times == <<told, row, old>>

Abs(n)         == Max({n, -n})
Pairs(s)       == [secs : s, nsec : 0 .. NsPerSec - 1]
Clamp(n)       == Max({MinNs, Min({MaxNs, n})})
Sign(n, m)     == IF n < 0 THEN -m ELSE m

------------------------------------------------------------------------------
(* A SystemTime is a number of nanoseconds, before the epoch a negative one. *)

\* External: fuser splits at zero, so (-2, nsec) is before -2 seconds, not after.
FuserTime(t) == Sign(t.secs, Abs(t.secs) * NsPerSec + t.nsec)
FuserSplit(x) == [secs |-> Sign(x, Abs(x) \div NsPerSec), nsec |-> Abs(x) % NsPerSec]

\* from_system_time
FromSystemTime(x) == [secs |-> Sign(x, Abs(x) \div NsPerSec), nsec |-> Abs(x) % NsPerSec]

\* to_ns: in 128 bits, then clamped.
ToNs(t) == Clamp(Sign(t.secs, Abs(t.secs) * NsPerSec + t.nsec))

FromNs(n) == [secs |-> Sign(n, Abs(n) \div NsPerSec), nsec |-> Abs(n) % NsPerSec]

\* to_system_time
ToSystemTime(t) ==
  IF t.secs >= 0 THEN t.secs * NsPerSec + t.nsec ELSE -(Abs(t.secs) * NsPerSec + t.nsec)

\* Faulty: one formula for both sides of the epoch.
MergedForward(t) ==
  IF t.secs > MaxSecs - 1 THEN MaxNs
  ELSE IF t.secs < -(MaxSecs - 1) THEN MinNs
  ELSE t.secs * NsPerSec + t.nsec

\* The CASE of merge_timestamp_columns; its limit is a second inside the range.
MergedNs(t) ==
  IF t.secs > MaxSecs - 1 THEN MaxNs
  ELSE IF t.secs < -(MaxSecs - 1) THEN MinNs
  ELSE IF t.secs < 0 THEN t.secs * NsPerSec - t.nsec
  ELSE t.secs * NsPerSec + t.nsec

------------------------------------------------------------------------------

InNs(n) == [layout |-> "ns", ns |-> n]

\* A file at the epoch in the new layout; in the old one, with any time an older
\* dbfs may have stored.
NewTime == told = [secs |-> 0, nsec |-> 0] /\ row = InNs(0) /\ old = FALSE
OldTime(ts) ==
  /\ told \in ts
  /\ row = [layout |-> "split", time |-> FromSystemTime(FuserTime(told))]
  /\ old = TRUE

\* setattr with a time: time_or_now, update_metadata.
SetTime(t) ==
  /\ told' = t
  /\ row'  = InNs(ToNs(FromSystemTime(FuserTime(t))))
  /\ old'  = FALSE

\* setattr of something else: the row is read (inode_from_row) and written back.
Rewrite ==
  /\ row' = InNs(ToNs(FromNs(row.ns)))
  /\ UNCHANGED <<told, old>>

Upgrade ==
  /\ row.layout = "split"
  /\ row' = InNs(MergedNs(row.time))
  /\ UNCHANGED <<told, old>>

------------------------------------------------------------------------------
(* Properties *)

\* getattr: file_attr_from_inode, and back through fuser.
Shown == FuserSplit(ToSystemTime(FromNs(row.ns)))

\* How far from the epoch, in the kernel's pairs; the range is 1677 to 2262.
Magnitude(t) == Abs(t.secs) * NsPerSec + t.nsec
InRange(t)   == Magnitude(t) <= Abs(IF t.secs < 0 THEN MinNs ELSE MaxNs)

\* A time in the range comes back exactly as it was set, before and after the
\* epoch and however often the row is rewritten (so none is stored within the second
\* before the epoch, where the sign of zero seconds is lost); any other comes back
\* as the end of the range on its own side (Timestamp, update_metadata).
SetTimeComesBack ==
  row.layout = "ns" /\ ~old =>
    IF InRange(told) THEN Shown = told
    ELSE Shown = FuserSplit(IF told.secs < 0 THEN MinNs ELSE MaxNs)

\* The upgrade in SQL agrees with to_ns but in the last second at either end, which
\* it clamps as a whole: no time moves by a second or more unless it is out of the
\* range (merge_timestamp_columns).
UpgradeAgrees ==
  row.layout = "ns" /\ old =>
    /\ Abs(told.secs) < MaxSecs => Shown = told
    /\ InRange(told) => Abs(FuserTime(Shown) - FuserTime(told)) < NsPerSec
    /\ ~InRange(told) => row.ns \in {MinNs, MaxNs} /\ (row.ns < 0 <=> told.secs < 0)

\* Times survive the way to the database and back, and the upgrade.
TimesKept == SetTimeComesBack /\ UpgradeAgrees
=============================================================================
