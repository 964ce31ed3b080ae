--------------------------- MODULE MigrationProofs ---------------------------
(***************************************************************************)
(* Times survive the way to the database, back and through the upgrade,    *)
(* and databases survive Db::open whatever fails: proofs about Timestamps  *)
(* and Migration, for any length of a second, range of the nanoseconds and *)
(* limits of a chunk key.                                                  *)
(***************************************************************************)
EXTENDS Migration, TLAPS

------------------------------------------------------------------------------
(* Numbers *)

\* Euclidean division.
LEMMA Division ==
  ASSUME NEW n \in Nat, NEW d \in Nat \ {0}
  PROVE  /\ n \div d \in Nat /\ n % d \in 0 .. (d - 1)
         /\ n = (n \div d) * d + (n % d)
  OBVIOUS

\* Multiplication is monotonic.
LEMMA Monotonic ==
  ASSUME NEW a \in Nat, NEW b \in Nat, NEW d \in Nat, a <= b
  PROVE  a * d \in Nat /\ b * d \in Nat /\ a * d <= b * d
  OBVIOUS

\* Quotient and remainder are determined by their sum.
LEMMA DivisionUnique ==
  ASSUME NEW a \in Nat, NEW d \in Nat \ {0}, NEW b \in 0 .. (d - 1)
  PROVE  /\ a * d + b \in Nat
         /\ (a * d + b) \div d = a /\ (a * d + b) % d = b
  <1> DEFINE n == a * d + b
             q == n \div d
             r == n % d
  <1>0. a * d \in Nat /\ n \in Nat
      BY Monotonic
  <1>1. q \in Nat /\ r \in 0 .. (d - 1) /\ n = q * d + r
      BY <1>0, Division
  <1>2. q * d \in Nat /\ n = a * d + b
      BY <1>1, Monotonic
  <1>3. (a + 1) * d = a * d + d /\ (q + 1) * d = q * d + d
      BY <1>1
  <1> HIDE DEF n, q, r
  <1>4. ~(a < q)
    <2> SUFFICES ASSUME a + 1 <= q PROVE FALSE
        BY <1>1
    <2>1. (a + 1) * d <= q * d
        BY <1>1, Monotonic
    <2> QED
        BY <1>0, <1>1, <1>2, <1>3, <2>1
  <1>5. ~(q < a)
    <2> SUFFICES ASSUME q + 1 <= a PROVE FALSE
        BY <1>1
    <2>1. (q + 1) * d <= a * d
        BY <1>1, Monotonic
    <2> QED
        BY <1>0, <1>1, <1>2, <1>3, <2>1
  <1>6. q = a
      BY <1>1, <1>4, <1>5
  <1>7. r = b
      BY <1>0, <1>1, <1>2, <1>6
  <1> QED
      BY <1>0, <1>6, <1>7 DEF n, q, r

\* The absolute value.
LEMMA AbsIs == ASSUME NEW n \in Int PROVE Abs(n) = IF n < 0 THEN -n ELSE n
  <1> DEFINE m == IF n < 0 THEN -n ELSE n
  <1>1. m \in {n, -n} /\ \A y \in {n, -n} : m >= y
      OBVIOUS
  <1>2. \A x \in {n, -n} : (\A y \in {n, -n} : x >= y) => x = m
      BY <1>1
  <1> QED
      BY <1>1, <1>2 DEF Abs, Max

\* The limits of the nanoseconds.
LEMMA Limits ==
  /\ NsPerSec \in Nat \ {0} /\ NsPerSec > 1 /\ MaxNs \in Nat /\ MinNs \in Int
  /\ MinNs = -MaxNs - 1 /\ MaxSecs \in Nat \ {0}
  /\ MaxNs >= 2 * NsPerSec /\ MinNs <= -NsPerSec
  /\ MaxSecs * NsPerSec \in Nat
  /\ MaxSecs * NsPerSec <= MaxNs /\ MaxNs + 1 < MaxSecs * NsPerSec + NsPerSec
  <1> DEFINE q == MaxNs \div NsPerSec
             r == MaxNs % NsPerSec
             d == NsPerSec
  <1>1. d \in Nat \ {0} /\ d > 1 /\ MaxNs \in Nat /\ MaxNs > 2 * d /\ r # d - 1
      BY TimestampsAssumption
  <1>2. q \in Nat /\ r \in 0 .. (d - 1) /\ MaxNs = q * d + r
      BY <1>1, Division
  <1> HIDE DEF q, r
  <1>3. q # 0
    <2> SUFFICES ASSUME q = 0 PROVE FALSE
        OBVIOUS
    <2>1. q * d = 0
        BY <1>1
    <2> QED
        BY <1>1, <1>2, <2>1
  <1>4. q * d \in Nat
      BY <1>1, <1>2, Monotonic
  <1>5. q * d <= MaxNs /\ MaxNs + 1 < q * d + d
      BY <1>1, <1>2, <1>4
  <1> QED
      BY <1>1, <1>2, <1>3, <1>4, <1>5 DEF MinNs, MaxSecs, q

\* Clamping to an i64.
LEMMA ClampIs ==
  ASSUME NEW n \in Int
  PROVE  Clamp(n) = IF n > MaxNs THEN MaxNs ELSE IF n < MinNs THEN MinNs ELSE n
  <1>0. MinNs \in Int /\ MaxNs \in Int /\ MinNs < MaxNs
      BY Limits
  <1> DEFINE u == IF n > MaxNs THEN MaxNs ELSE n
             v == IF u < MinNs THEN MinNs ELSE u
  <1>1. Min({MaxNs, n}) = u
    <2>1. u \in {MaxNs, n} /\ \A y \in {MaxNs, n} : u <= y
        BY <1>0
    <2>2. \A x \in {MaxNs, n} : (\A y \in {MaxNs, n} : x <= y) => x = u
        BY <1>0, <2>1
    <2> QED
        BY <2>1, <2>2 DEF Min
  <1>2. u \in Int
      BY <1>0
  <1>3. Max({MinNs, u}) = v
    <2> HIDE DEF u
    <2>1. v \in {MinNs, u} /\ \A y \in {MinNs, u} : v >= y
        BY <1>0, <1>2
    <2>2. \A x \in {MinNs, u} : (\A y \in {MinNs, u} : x >= y) => x = v
        BY <1>0, <1>2, <2>1
    <2> QED
        BY <2>1, <2>2 DEF Max
  <1> QED
      BY <1>0, <1>1, <1>3 DEF Clamp

------------------------------------------------------------------------------
(* Conversions of times *)

\* The numbers of nanoseconds that a pair stands for: none within the second
\* before the epoch.
Exact == {n \in Int : n >= 0 \/ n <= -NsPerSec}

\* What a pair stands for, spelled out.
LEMMA FuserTimeIs ==
  ASSUME NEW t \in Pairs(Int)
  PROVE  /\ t.secs \in Int /\ t.nsec \in 0 .. (NsPerSec - 1)
         /\ t.secs >= 0 => /\ t.secs * NsPerSec \in Nat
                           /\ FuserTime(t) = t.secs * NsPerSec + t.nsec
         /\ t.secs < 0 => /\ (-t.secs) * NsPerSec \in Nat /\ (-t.secs) * NsPerSec >= NsPerSec
                          /\ FuserTime(t) = -((-t.secs) * NsPerSec + t.nsec)
         /\ FuserTime(t) \in Exact /\ (FuserTime(t) < 0 <=> t.secs < 0)
  <1>0. t.secs \in Int /\ t.nsec \in 0 .. (NsPerSec - 1) /\ NsPerSec \in Nat \ {0}
      BY Limits DEF Pairs
  <1>1. CASE t.secs >= 0
    <2>1. t.secs * NsPerSec \in Nat
        BY <1>0, <1>1, Monotonic
    <2>2. FuserTime(t) = t.secs * NsPerSec + t.nsec
        BY <1>0, <1>1, AbsIs DEF FuserTime, Sign
    <2> QED
        BY <1>0, <1>1, <2>1, <2>2 DEF Exact
  <1>2. CASE t.secs < 0
    <2> DEFINE a == -t.secs
    <2>1. a \in Nat /\ 1 <= a
        BY <1>0, <1>2
    <2>2. 1 * NsPerSec <= a * NsPerSec /\ a * NsPerSec \in Nat
        BY <1>0, <2>1, Monotonic
    <2>3. Abs(t.secs) = a
        BY <1>0, <1>2, AbsIs
    <2>4. FuserTime(t) = -(a * NsPerSec + t.nsec)
        BY <1>2, <2>3 DEF FuserTime, Sign
    <2>5. a * NsPerSec >= NsPerSec
        BY <1>0, <2>2
    <2>6. FuserTime(t) \in Exact /\ FuserTime(t) < 0
        BY <1>0, <2>2, <2>4, <2>5 DEF Exact
    <2> QED
        BY <1>0, <1>2, <2>2, <2>4, <2>5, <2>6
  <1> QED
      BY <1>0, <1>1, <1>2

\* from_system_time gives back the pair the kernel sent.
LEMMA PairBack ==
  ASSUME NEW t \in Pairs(Int)
  PROVE  FromSystemTime(FuserTime(t)) = t
  <1> DEFINE x == FuserTime(t)
             b == t.nsec
  <1>0. t.secs \in Int /\ b \in 0 .. (NsPerSec - 1) /\ NsPerSec \in Nat \ {0} /\ x \in Int
        /\ t = [secs |-> t.secs, nsec |-> b]
      BY FuserTimeIs, Limits DEF Pairs, Exact
  <1>1. CASE t.secs >= 0
    <2> DEFINE a == t.secs
    <2>1. x = a * NsPerSec + b /\ x >= 0
        BY <1>0, <1>1, FuserTimeIs
    <2>2. Abs(x) = a * NsPerSec + b
        BY <1>0, <2>1, AbsIs
    <2>3. a \in Nat
        BY <1>0, <1>1
    <2>4. (a * NsPerSec + b) \div NsPerSec = a /\ (a * NsPerSec + b) % NsPerSec = b
      <3> HIDE DEF a, b
      <3> QED
          BY <1>0, <2>3, DivisionUnique
    <2>5. Sign(x, a) = a
        BY <1>0, <2>1 DEF Sign
    <2>6. FromSystemTime(x) = [secs |-> t.secs, nsec |-> b]
      <3> HIDE DEF x
      <3> QED
          BY <2>2, <2>4, <2>5 DEF FromSystemTime
    <2> QED
        BY <1>0, <2>6
  <1>2. CASE t.secs < 0
    <2> DEFINE a == -t.secs
    <2>1. x = -(a * NsPerSec + b) /\ x < 0
        BY <1>0, <1>2, FuserTimeIs
    <2>2. Abs(x) = a * NsPerSec + b
      <3>1. a * NsPerSec \in Nat
          BY <1>2, FuserTimeIs
      <3> HIDE DEF a
      <3> QED
          BY <1>0, <2>1, <3>1, AbsIs
    <2>3. a \in Nat
        BY <1>0, <1>2
    <2>4. (a * NsPerSec + b) \div NsPerSec = a /\ (a * NsPerSec + b) % NsPerSec = b
      <3> HIDE DEF a, b
      <3> QED
          BY <1>0, <2>3, DivisionUnique
    <2>5. Sign(x, a) = t.secs
        BY <1>0, <2>1 DEF Sign
    <2>6. FromSystemTime(x) = [secs |-> t.secs, nsec |-> b]
      <3> HIDE DEF x
      <3> QED
          BY <2>2, <2>4, <2>5 DEF FromSystemTime
    <2> QED
        BY <1>0, <2>6
  <1> QED
      BY <1>0, <1>1, <1>2

\* The three splits of a number into a pair are the same, and for exact numbers
\* the pair stands for the number.
LEMMA NumberBack ==
  ASSUME NEW n \in Exact
  PROVE  /\ FromNs(n) \in Pairs(Int) /\ FuserTime(FromNs(n)) = n
         /\ ToSystemTime(FromNs(n)) = n /\ FuserSplit(n) = FromNs(n)
  <1> DEFINE m == Abs(n)
             q == m \div NsPerSec
             r == m % NsPerSec
             t == FromNs(n)
  <1>0. n \in Int /\ NsPerSec \in Nat \ {0} /\ (n >= 0 \/ n <= -NsPerSec)
      BY Limits DEF Exact
  <1>1. m \in Nat /\ m = IF n < 0 THEN -n ELSE n
      BY <1>0, AbsIs
  <1> HIDE DEF m
  <1>2. q \in Nat /\ r \in 0 .. (NsPerSec - 1) /\ m = q * NsPerSec + r /\ q * NsPerSec \in Nat
    <2>1. m \in Nat /\ NsPerSec \in Nat \ {0}
        BY <1>0, <1>1
    <2>2. q \in Nat /\ r \in 0 .. (NsPerSec - 1) /\ m = q * NsPerSec + r
        BY <2>1, Division
    <2> HIDE DEF q
    <2> QED
        BY <2>1, <2>2, Monotonic
  <1>3. t = [secs |-> Sign(n, q), nsec |-> r]
      BY DEF FromNs, m
  <1> HIDE DEF q, r, t
  <1>4. t.secs = (IF n < 0 THEN -q ELSE q) /\ t.nsec = r /\ t \in Pairs(Int)
      BY <1>0, <1>2, <1>3 DEF Sign, Pairs
  <1>5. n < 0 => q > 0
    <2> SUFFICES ASSUME n < 0, q = 0 PROVE FALSE
        BY <1>2
    <2>1. q * NsPerSec = 0
        BY <1>0
    <2> QED
        BY <1>0, <1>1, <1>2, <2>1
  <1>6. FuserTime(t) = n
    <2>1. CASE n < 0
      <3>1. t.secs < 0 /\ -t.secs = q
          BY <1>2, <1>4, <1>5, <2>1
      <3>2. FuserTime(t) = -(q * NsPerSec + r)
          BY <1>4, <3>1, FuserTimeIs
      <3> QED
          BY <1>0, <1>1, <1>2, <2>1, <3>2
    <2>2. CASE ~(n < 0)
      <3>1. t.secs >= 0 /\ t.secs = q
          BY <1>0, <1>2, <1>4, <2>2
      <3>2. FuserTime(t) = q * NsPerSec + r
          BY <1>4, <3>1, FuserTimeIs
      <3> QED
          BY <1>0, <1>1, <1>2, <2>2, <3>2
    <2> QED
        BY <2>1, <2>2
  <1>7. ToSystemTime(t) = FuserTime(t)
      BY <1>4, FuserTimeIs, AbsIs DEF ToSystemTime
  <1>8. FuserSplit(n) = t
      BY DEF FuserSplit, FromNs, t
  <1> QED
      BY <1>4, <1>6, <1>7, <1>8 DEF t

\* What a row may hold.
Stored == {n \in Exact : MinNs <= n /\ n <= MaxNs}

\* to_ns stores the number nearest to the pair; a row read and written back is the
\* same.
LEMMA ToNsIs ==
  /\ \A t \in Pairs(Int) : ToNs(t) = Clamp(FuserTime(t)) /\ ToNs(t) \in Stored
  /\ \A n \in Stored : ToNs(FromNs(n)) = n
  <1>1. ASSUME NEW t \in Pairs(Int) PROVE ToNs(t) = Clamp(FuserTime(t)) /\ ToNs(t) \in Stored
    <2>1. ToNs(t) = Clamp(FuserTime(t))
        BY DEF ToNs, FuserTime
    <2>2. FuserTime(t) \in Exact
        BY FuserTimeIs
    <2> DEFINE x == FuserTime(t)
               y == Clamp(x)
    <2>3. x \in Int /\ (x >= 0 \/ x <= -NsPerSec)
        BY <2>2 DEF Exact
    <2>4. y = IF x > MaxNs THEN MaxNs ELSE IF x < MinNs THEN MinNs ELSE x
        BY <2>3, ClampIs
    <2> HIDE DEF x, y
    <2>5. y \in Stored
        BY <2>3, <2>4, Limits DEF Stored, Exact
    <2> QED
        BY <2>1, <2>5 DEF x, y
  <1>2. ASSUME NEW n \in Stored PROVE ToNs(FromNs(n)) = n
    <2>1. n \in Exact /\ n \in Int /\ MinNs <= n /\ n <= MaxNs
        BY DEF Stored, Exact
    <2>2. FromNs(n) \in Pairs(Int) /\ FuserTime(FromNs(n)) = n
        BY <2>1, NumberBack
    <2>3. ToNs(FromNs(n)) = Clamp(n)
        BY <1>1, <2>2
    <2>4. Clamp(n) = n
        BY <2>1, ClampIs, Limits
    <2> QED
        BY <2>3, <2>4
  <1> QED
      BY <1>1, <1>2

\* The CASE of merge_timestamp_columns: exact but for the last second.
LEMMA MergedIs ==
  ASSUME NEW t \in Pairs(Int)
  PROVE  /\ MergedNs(t) \in Stored
         /\ \/ /\ Abs(t.secs) < MaxSecs /\ MergedNs(t) = FuserTime(t)
            \/ /\ t.secs >= MaxSecs /\ MergedNs(t) = MaxNs
               /\ FuserTime(t) >= MaxSecs * NsPerSec
            \/ /\ t.secs <= -MaxSecs /\ MergedNs(t) = MinNs
               /\ FuserTime(t) <= -(MaxSecs * NsPerSec)
  <1> DEFINE x == FuserTime(t)
             s == t.secs
             k == MaxSecs * NsPerSec
  <1>0. /\ s \in Int /\ t.nsec \in 0 .. (NsPerSec - 1) /\ x \in Exact /\ x \in Int
        /\ NsPerSec \in Nat \ {0} /\ MaxSecs \in Nat \ {0} /\ k \in Nat
        /\ MaxNs \in Nat /\ MinNs = -MaxNs - 1 /\ k <= MaxNs /\ MaxNs >= NsPerSec
      BY FuserTimeIs, Limits DEF Exact
  <1>1. CASE s >= MaxSecs
    <2>1. MergedNs(t) = MaxNs
        BY <1>0, <1>1 DEF MergedNs
    <2>2. k <= s * NsPerSec
        BY <1>0, <1>1, Monotonic
    <2>3. x >= k
        BY <1>0, <1>1, <2>2, FuserTimeIs
    <2>4. MaxNs \in Stored
        BY <1>0 DEF Stored, Exact
    <2> QED
        BY <1>1, <2>1, <2>3, <2>4
  <1>2. CASE s <= -MaxSecs
    <2>1. MergedNs(t) = MinNs
        BY <1>0, <1>2 DEF MergedNs
    <2>2. k <= (-s) * NsPerSec
      <3>1. -s \in Nat /\ MaxSecs <= -s
          BY <1>0, <1>2
      <3> QED
          BY <1>0, <3>1, Monotonic
    <2>3. x <= -k
        BY <1>0, <1>2, <2>2, FuserTimeIs
    <2>4. MinNs \in Stored
        BY <1>0 DEF Stored, Exact
    <2> QED
        BY <1>2, <2>1, <2>3, <2>4
  <1>3. CASE -MaxSecs < s /\ s < MaxSecs
    <2>1. Abs(s) < MaxSecs
        BY <1>0, <1>3, AbsIs
    <2>2. CASE s >= 0
      <3>1. MergedNs(t) = x
          BY <1>0, <1>3, <2>2, FuserTimeIs DEF MergedNs
      <3>2. (s + 1) * NsPerSec <= k /\ (s + 1) * NsPerSec = s * NsPerSec + NsPerSec
          BY <1>0, <1>3, <2>2, Monotonic
      <3>3. s * NsPerSec \in Nat /\ x = s * NsPerSec + t.nsec
          BY <2>2, FuserTimeIs
      <3>4. x <= MaxNs /\ x >= 0
          BY <1>0, <3>2, <3>3
      <3>5. x \in Stored
          BY <1>0, <3>4 DEF Stored
      <3> QED
          BY <2>1, <3>1, <3>5
    <2>3. CASE s < 0
      <3> DEFINE a == -s
      <3>0. a \in Nat /\ a + 1 <= MaxSecs
          BY <1>0, <1>3, <2>3
      <3>1. MergedNs(t) = s * NsPerSec - t.nsec
          BY <1>0, <1>3, <2>3 DEF MergedNs
      <3>2. (a + 1) * NsPerSec <= k /\ (a + 1) * NsPerSec = a * NsPerSec + NsPerSec
        <4>1. NsPerSec \in Nat /\ MaxSecs \in Nat /\ a + 1 \in Nat
            BY <1>0, <3>0
        <4> HIDE DEF a
        <4>2. (a + 1) * NsPerSec <= MaxSecs * NsPerSec
            BY <3>0, <4>1, Monotonic
        <4>3. (a + 1) * NsPerSec = a * NsPerSec + NsPerSec
            BY <3>0, <4>1
        <4> QED
            BY <4>2, <4>3
      <3>3. a * NsPerSec \in Nat /\ x = -(a * NsPerSec + t.nsec)
          BY <2>3, FuserTimeIs
      <3>4. s * NsPerSec = -(a * NsPerSec)
          BY <1>0
      <3>5. MergedNs(t) = x
          BY <1>0, <3>1, <3>3, <3>4
      <3>6. x >= MinNs /\ x <= MaxNs
          BY <1>0, <3>2, <3>3
      <3>7. x \in Stored
          BY <1>0, <3>6 DEF Stored
      <3> QED
          BY <2>1, <3>5, <3>7
    <2> QED
        BY <1>0, <2>2, <2>3
  <1> QED
      BY <1>0, <1>1, <1>2, <1>3

------------------------------------------------------------------------------
(* Times *)

\* The row is what the time told comes to, on the way it took.
TimeInv ==
  /\ told \in Pairs(Int) /\ old \in BOOLEAN
  /\ \/ row = [layout |-> "split", time |-> told] /\ old
     \/ row = InNs(IF old THEN MergedNs(told) ELSE Clamp(FuserTime(told)))

\* Then times are kept.
LEMMA TimeInvKeeps == ASSUME TimeInv PROVE TimesKept
  <1> DEFINE n == IF old THEN MergedNs(told) ELSE Clamp(FuserTime(told))
             x == FuserTime(told)
  <1>0. told \in Pairs(Int) /\ old \in BOOLEAN
      BY DEF TimeInv
  <1>1. SUFFICES ASSUME row = InNs(n) PROVE TimesKept
    <2>1. CASE row = [layout |-> "split", time |-> told]
      <3>1. row.layout # "ns"
          BY <2>1
      <3> QED
          BY <3>1 DEF TimesKept, SetTimeComesBack, UpgradeAgrees
    <2> QED
        BY <2>1 DEF TimeInv
  <1>2. row.layout = "ns" /\ row.ns = n
      BY <1>1 DEF InNs
  <1>3. n \in Stored /\ n \in Exact
    <2>1. MergedNs(told) \in Stored
        BY <1>0, MergedIs
    <2>2. Clamp(FuserTime(told)) \in Stored
        BY <1>0, ToNsIs
    <2>3. n \in Stored
        BY <2>1, <2>2
    <2> QED
        BY <2>3 DEF Stored
  <1>4. Shown = FromNs(n) /\ FuserTime(Shown) = n
    <2> HIDE DEF n
    <2> QED
        BY <1>2, <1>3, NumberBack DEF Shown
  <1>5. /\ FromNs(x) = told /\ x \in Int /\ (x < 0 <=> told.secs < 0) /\ x \in Exact
    <2>1. FromSystemTime(x) = told
        BY <1>0, PairBack
    <2>2. FromNs(x) = FromSystemTime(x)
        BY DEF FromNs, FromSystemTime
    <2>3. x \in Exact /\ (x < 0 <=> told.secs < 0)
        BY <1>0, FuserTimeIs
    <2> HIDE DEF x
    <2> QED
        BY <2>1, <2>2, <2>3 DEF Exact
  <1>6. InRange(told) <=> MinNs <= x /\ x <= MaxNs
    <2>1. Magnitude(told) = IF x < 0 THEN -x ELSE x
      <3>0. told.secs \in Int /\ told.nsec \in Int
          BY <1>0, FuserTimeIs
      <3>1. Magnitude(told) = Abs(told.secs) * NsPerSec + told.nsec
          BY DEF Magnitude
      <3>2. CASE told.secs >= 0
        <4>1. x = told.secs * NsPerSec + told.nsec /\ Abs(told.secs) = told.secs /\ ~(x < 0)
            BY <1>0, <1>5, <3>0, <3>2, FuserTimeIs, AbsIs
        <4> QED
            BY <3>1, <4>1
      <3>3. CASE told.secs < 0
        <4> DEFINE a == -told.secs
                   u == a * NsPerSec
        <4>1. x = -(u + told.nsec) /\ u \in Nat
            BY <1>0, <3>3, FuserTimeIs
        <4>2. Abs(told.secs) = a
            BY <3>0, <3>3, AbsIs
        <4>3. Magnitude(told) = u + told.nsec
            BY <3>1, <4>2
        <4>4. x < 0
            BY <1>5, <3>3
        <4> HIDE DEF u, x
        <4> QED
            BY <3>0, <4>1, <4>3, <4>4
      <3> QED
          BY <3>0, <3>2, <3>3
    <2>2. Abs(MinNs) = MaxNs + 1 /\ Abs(MaxNs) = MaxNs
        BY Limits, AbsIs
    <2>3. Abs(IF told.secs < 0 THEN MinNs ELSE MaxNs) = IF told.secs < 0 THEN MaxNs + 1 ELSE MaxNs
        BY <2>2
    <2> HIDE DEF x
    <2> QED
        BY <1>5, <2>1, <2>3, Limits DEF InRange
  <1>7. MinNs \in Exact /\ MaxNs \in Exact
      BY Limits DEF Exact
  <1>8. CASE ~old
    <2>1. n = IF x > MaxNs THEN MaxNs ELSE IF x < MinNs THEN MinNs ELSE x
        BY <1>5, <1>8, ClampIs
    <2>2. CASE InRange(told)
      <3>1. n = x
          BY <1>5, <1>6, <2>1, <2>2, Limits
      <3>2. Shown = told
          BY <1>4, <1>5, <3>1
      <3> QED
          BY <1>8, <2>2, <3>2 DEF TimesKept, SetTimeComesBack, UpgradeAgrees
    <2>3. CASE ~InRange(told)
      <3>1. n = IF told.secs < 0 THEN MinNs ELSE MaxNs
        <4> HIDE DEF n, x
        <4> QED
            BY <1>5, <1>6, <2>1, <2>3, Limits
      <3>2. FuserSplit(n) = FromNs(n)
          BY <1>3, NumberBack
      <3>3. Shown = FuserSplit(IF told.secs < 0 THEN MinNs ELSE MaxNs)
        <4> HIDE DEF n
        <4> QED
            BY <1>4, <3>1, <3>2
      <3> QED
          BY <1>8, <2>3, <3>3 DEF TimesKept, SetTimeComesBack, UpgradeAgrees
    <2> QED
        BY <2>2, <2>3
  <1>9. CASE old
    <2> DEFINE k == MaxSecs * NsPerSec
    <2>1. \/ Abs(told.secs) < MaxSecs /\ n = x
          \/ told.secs >= MaxSecs /\ n = MaxNs /\ x >= k
          \/ told.secs <= -MaxSecs /\ n = MinNs /\ x <= -k
        BY <1>0, <1>9, MergedIs
    <2>2. /\ k \in Nat /\ k <= MaxNs /\ MaxNs + 1 < k + NsPerSec /\ MaxNs \in Nat
          /\ MinNs = -MaxNs - 1 /\ NsPerSec \in Nat \ {0} /\ MaxSecs \in Nat \ {0}
          /\ told.secs \in Int
        BY <1>0, Limits, FuserTimeIs
    <2>3. n \in Int /\ MinNs <= n /\ n <= MaxNs
        BY <1>3 DEF Stored, Exact
    <2> HIDE DEF n, x, k
    <2>4. Abs(told.secs) < MaxSecs => n = x
        BY <2>1, <2>2, AbsIs
    <2>5. Abs(told.secs) < MaxSecs => Shown = told
        BY <1>4, <1>5, <2>4
    <2>6. InRange(told) => Abs(n - x) < NsPerSec
      <3>1. Abs(n - x) = IF n - x < 0 THEN -(n - x) ELSE n - x
          BY <1>5, <2>3, AbsIs
      <3> QED
          BY <1>5, <1>6, <2>1, <2>2, <2>3, <3>1
    <2>7. ~InRange(told) => n \in {MinNs, MaxNs} /\ (n < 0 <=> told.secs < 0)
        BY <1>5, <1>6, <2>1, <2>2, <2>3
    <2>8. InRange(told) => Abs(FuserTime(Shown) - FuserTime(told)) < NsPerSec
        BY <1>4, <2>6 DEF x
    <2> QED
        BY <1>2, <1>9, <2>5, <2>7, <2>8 DEF TimesKept, SetTimeComesBack, UpgradeAgrees
  <1> QED
      BY <1>0, <1>8, <1>9

------------------------------------------------------------------------------
(* The inductive invariant *)

Shaped(d) ==
  /\ DOMAIN d = {"version", "indexes", "t"} /\ DOMAIN d.t = Tables
  /\ \A t \in Tables : DOMAIN d.t[t] = {"layout", "rows"}

IsCurrent(d) ==
  /\ d.version = SchemaVersion /\ d.indexes = Indexes
  /\ \A t \in Tables : d.t[t].layout = NewLayout[t]

\* The rows of an old chunk table.
IsPair(r) ==
  r = [ino |-> r.ino, index |-> r.index, data |-> r.data] /\ r.ino \in Nat /\ r.index \in Nat

\* What is known of a database that some dbfs wrote.
Written(d) ==
  /\ Shaped(d) /\ d.version \in Nat
  /\ \A t \in Tables : d.t[t].layout = "none" => d.t[t].rows = {}
  /\ d.t.inodes.layout \in {"none", "secs", "split", "ns"}
  /\ d.t.symlink_targets.layout \in {"none", "table"}
  /\ d.version >= 3 => d.indexes = Indexes /\ d.t.dirents.layout = "id"
  /\ d.version < SchemaVersion =>
       /\ d.t.file_chunks.layout \in {"none", "pair"}
       /\ \A r \in d.t.file_chunks.rows : IsPair(r)
  /\ d.version = SchemaVersion => IsCurrent(d) /\ Root \in d.t.inodes.rows

\* d is the original, with some of the tables it lacks.
Created(d) ==
  /\ Shaped(d) /\ d.version = original.version /\ d.indexes = original.indexes
  /\ \A t \in Tables :
       \/ d.t[t] = original.t[t]
       \/ original.t[t].layout = "none" /\ d.t[t] = Table(NewLayout[t], {})

KeptChunks(d) ==
  Chunks(d) \in {Chunks(original), {c \in Chunks(original) : c[1] \in original.t.inodes.rows}}

\* d is current, with the contents of the original.
Migrated(d) ==
  /\ Shaped(d) /\ original.version <= SchemaVersion /\ IsCurrent(d)
  /\ d.t.inodes.rows \in {original.t.inodes.rows, original.t.inodes.rows \cup {Root}}
  /\ d.t.dirents.rows = original.t.dirents.rows
  /\ d.t.symlink_targets.rows = original.t.symlink_targets.rows
  /\ KeptChunks(d)

\* What the transaction has done before each statement.
TxInv ==
  /\ Created(disk) /\ disk.version < SchemaVersion /\ Missing = {} /\ ~fk
  /\ Shaped(tx)
  /\ tx.version = IF pc = "commit" THEN SchemaVersion ELSE disk.version
  /\ tx.t.inodes.rows = disk.t.inodes.rows
  /\ tx.t.dirents.rows = disk.t.dirents.rows
  /\ tx.t.symlink_targets = disk.t.symlink_targets
  /\ disk.t.inodes.layout = "ns" \/ pc \in {"chunks", "version", "commit"} =>
       tx.t.inodes.layout = "ns"
  /\ pc \in {"indexes", "times", "chunks", "version", "commit"} \/ disk.version = 3 =>
       tx.t.dirents.layout = "id"
  /\ pc \in {"times", "chunks", "version", "commit"} \/ disk.version = 3 =>
       tx.indexes = Indexes
  /\ IF pc \in {"version", "commit"} THEN tx.t.file_chunks.layout = "key" /\ KeptChunks(tx)
                                     ELSE tx.t.file_chunks = disk.t.file_chunks

InTransaction == {"nsec", "child", "dirents", "indexes", "times", "chunks", "version", "commit"}

DbInv ==
  /\ Written(original)
  /\ Created(disk) \/ Migrated(disk)
  /\ pc \in {"closed", "create", "root", "open", "refused"} \cup InTransaction
  /\ pc \in {"create", "root", "open"} => fk
  /\ pc \in {"root", "open"} => IsCurrent(disk)
  /\ pc = "open" => Root \in disk.t.inodes.rows
  /\ pc \in InTransaction => TxInv

\* The time's layout is that of its table.
LayoutInv == row.layout = IF disk.t.inodes.layout \in {"none", "ns"} THEN "ns" ELSE "split"

MigrationInv == DbInv /\ TimeInv /\ LayoutInv

------------------------------------------------------------------------------
(* Initial states *)

\* The four tables.
LEMMA TablesAre ==
  /\ Tables = {"inodes", "dirents", "file_chunks", "symlink_targets"}
  /\ DOMAIN TableOrder = 1 .. 4
  /\ \A k \in 1 .. 4 : TableOrder[k] \in Tables
  BY DEF Tables, TableOrder

\* A database put together from four tables.
LEMMA DbIs ==
  ASSUME NEW v, NEW l1, NEW l2, NEW l3, NEW l4, NEW r1, NEW r2, NEW r3, NEW r4, NEW i,
         NEW b, b = Db(v, Table(l1, r1), Table(l2, r2), Table(l3, r3), Table(l4, r4), i)
  PROVE  /\ Shaped(b) /\ b.version = v /\ b.indexes = i
         /\ b.t.inodes = Table(l1, r1) /\ b.t.dirents = Table(l2, r2)
         /\ b.t.file_chunks = Table(l3, r3) /\ b.t.symlink_targets = Table(l4, r4)
         /\ b.t.inodes.layout = l1 /\ b.t.dirents.layout = l2
         /\ b.t.file_chunks.layout = l3 /\ b.t.symlink_targets.layout = l4
         /\ b.t.inodes.rows = r1 /\ b.t.dirents.rows = r2
         /\ b.t.file_chunks.rows = r3 /\ b.t.symlink_targets.rows = r4
  BY TablesAre DEF Shaped, Db, Table

\* The rows of an old chunk table are pairs.
LEMMA ChunkSetsArePairs == ASSUME NEW c \in ChunkSets, NEW r \in c PROVE IsPair(r)
  <1>1. PICK i \in Nat, k \in Nat : r = Chunk(i, k)
    <2>1. /\ MaxIno + 1 \in Nat /\ MaxChunks \in Nat /\ MaxChunks - 1 \in Nat
        BY MigrationAssumption
    <2>2. r \in Fitting \cup PastLimit
        BY DEF ChunkSets
    <2> QED
        BY <2>1, <2>2 DEF Fitting, PastLimit
  <1> QED
      BY <1>1 DEF Chunk, IsPair

\* Db::open only meets databases that some dbfs has written.
LEMMA DatabasesWritten == ASSUME NEW d \in Databases PROVE Written(d)
  <1>1. CASE d = Fresh
    <2>1. d = Db(0, Table("none", {}), Table("none", {}), Table("none", {}), Table("none", {}), {})
        BY <1>1 DEF Fresh, None
    <2> QED
        BY <2>1, DbIs, TablesAre DEF Written, SchemaVersion
  <1>2. ASSUME NEW v \in {4, 5}, d = AtVersion(v) PROVE Written(d)
    <2>1. d = Db(v, Table("ns", Inos), Table("id", {"name"}), Table("key", {Key(Chunk(2, 0))}),
                 Table("table", {2}), Indexes)
        BY <1>2 DEF AtVersion
    <2>2. Root \in Inos
        BY DEF Inos
    <2> QED
        BY <2>1, <2>2, DbIs, TablesAre DEF Written, SchemaVersion, IsCurrent, NewLayout
  <1>3. CASE d = [AtVersion(5) EXCEPT !.t.file_chunks = None]
    <2>1. d = Db(5, Table("ns", Inos), Table("id", {"name"}), Table("none", {}),
                 Table("table", {2}), Indexes)
        BY <1>3 DEF AtVersion, Db, None
    <2> QED
        BY <2>1, DbIs, TablesAre DEF Written, SchemaVersion
  <1>4. CASE d \in Unversioned
    <2>1. PICK l \in {"secs", "split"} :
            d = Db(0, Table(l, Inos), Table("none", {}), Table("none", {}), Table("none", {}), {})
        BY <1>4 DEF Unversioned, None
    <2> QED
        BY <2>1, DbIs, TablesAre DEF Written, SchemaVersion
  <1>5. ASSUME NEW v \in 0 .. 3, d \in Old(v) PROVE Written(d)
    <2>1. PICK l \in {"secs", "split"}, c \in ChunkSets :
            d = Db(v, Table(l, Inos), Table(IF v < 3 THEN "pair" ELSE "id", {"name"}),
                   Table("pair", c), Table("table", {2}), OldIndexes(v))
        BY <1>5 DEF Old
    <2> DEFINE m == IF v < 3 THEN "pair" ELSE "id"
    <2>2. m # "none" /\ (v >= 3 => m = "id" /\ OldIndexes(v) = Indexes)
        BY DEF OldIndexes
    <2>3. \A r \in c : IsPair(r)
        BY ChunkSetsArePairs
    <2>4. d = Db(v, Table(l, Inos), Table(m, {"name"}), Table("pair", c), Table("table", {2}),
                 OldIndexes(v))
        BY <2>1
    <2> HIDE DEF m
    <2>5. /\ Shaped(d) /\ d.version = v /\ d.indexes = OldIndexes(v)
          /\ d.t.inodes.layout = l /\ d.t.dirents.layout = m
          /\ d.t.file_chunks.layout = "pair" /\ d.t.symlink_targets.layout = "table"
          /\ d.t.file_chunks.rows = c
        BY <2>4, DbIs
    <2> QED
        BY <2>2, <2>3, <2>5, TablesAre DEF Written, SchemaVersion
  <1> QED
      BY <1>1, <1>2, <1>3, <1>4, <1>5 DEF Databases, Current, Newer, SchemaVersion

\* A database as found.
LEMMA MigrationInit == ASSUME Init PROVE MigrationInv
  <1>1. disk \in Databases /\ original = disk /\ pc = "closed"
      BY DEF Init
  <1>2. Written(disk)
      BY <1>1, DatabasesWritten
  <1>3. Created(disk)
      BY <1>1, <1>2 DEF Created, Written
  <1>4. DbInv
      BY <1>1, <1>2, <1>3 DEF DbInv, InTransaction
  <1>5. TimeInv /\ LayoutInv
    <2>1. ASSUME NEW ts, ts \subseteq Pairs(Int), OldTime(ts)
          PROVE  TimeInv /\ row.layout = "split"
      <3>1. told \in Pairs(Int) /\ old = TRUE
          BY <2>1 DEF OldTime
      <3>2. FromSystemTime(FuserTime(told)) = told
          BY <3>1, PairBack
      <3> QED
          BY <2>1, <3>1, <3>2 DEF OldTime, TimeInv
    <2>2. CASE disk.t.inodes.layout = "secs"
      <3>1. [secs : -Horizon .. Horizon, nsec : {0}] \subseteq Pairs(Int)
          BY Limits, TimestampsAssumption DEF Pairs
      <3> QED
          BY <2>1, <2>2, <3>1 DEF Init, LayoutInv
    <2>3. CASE disk.t.inodes.layout = "split"
      <3>1. Pairs(-Horizon .. Horizon) \subseteq Pairs(Int)
          BY TimestampsAssumption DEF Pairs
      <3> QED
          BY <2>1, <2>3, <3>1 DEF Init, LayoutInv
    <2>4. CASE disk.t.inodes.layout \in {"none", "ns"}
      <3>1. NewTime
          BY <2>4 DEF Init
      <3>2. told = [secs |-> 0, nsec |-> 0] /\ row = InNs(0) /\ old = FALSE
          BY <3>1 DEF NewTime
      <3>3. told \in Pairs(Int)
          BY <3>2, Limits DEF Pairs
      <3>4. FuserTime(told) = 0
          BY <3>2, <3>3, FuserTimeIs, Limits
      <3>5. Clamp(0) = 0
          BY ClampIs, Limits
      <3>6. row.layout = "ns"
          BY <3>2 DEF InNs
      <3> QED
          BY <2>4, <3>2, <3>3, <3>4, <3>5, <3>6 DEF TimeInv, LayoutInv
    <2> QED
        BY <1>2, <2>2, <2>3, <2>4 DEF Written
  <1> QED
      BY <1>4, <1>5 DEF MigrationInv

------------------------------------------------------------------------------
(* Statements *)

\* A created database has the contents of the original, and tables of the old
\* layouts or new ones.
LEMMA CreatedIs ==
  ASSUME Written(original), Created(disk)
  PROVE  /\ disk.t.inodes.rows = original.t.inodes.rows
         /\ disk.t.dirents.rows = original.t.dirents.rows
         /\ disk.t.symlink_targets.rows = original.t.symlink_targets.rows
         /\ Chunks(disk) = Chunks(original)
         /\ disk.t.inodes.layout \in {"none", "secs", "split", "ns"}
         /\ disk.t.symlink_targets.layout \in {"none", "table"}
         /\ disk.version \in Nat
         /\ disk.version = 3 => disk.indexes = Indexes /\ disk.t.dirents.layout = "id"
         /\ disk.version < SchemaVersion =>
              \/ disk.t.file_chunks = original.t.file_chunks
                 /\ disk.t.file_chunks.layout \in {"none", "pair"}
                 /\ \A r \in disk.t.file_chunks.rows : IsPair(r)
              \/ disk.t.file_chunks = Table("key", {})
         /\ disk.version = SchemaVersion => IsCurrent(disk) /\ Root \in disk.t.inodes.rows
  <1>0. ASSUME NEW t \in Tables
        PROVE  /\ disk.t[t].rows = original.t[t].rows
               /\ \/ disk.t[t] = original.t[t]
                  \/ original.t[t].layout = "none" /\ disk.t[t].layout = NewLayout[t]
    <2>1. \/ disk.t[t] = original.t[t]
          \/ original.t[t].layout = "none" /\ disk.t[t] = Table(NewLayout[t], {})
        BY DEF Created
    <2>2. original.t[t].layout = "none" => original.t[t].rows = {}
        BY DEF Written
    <2>3. \A l : Table(l, {}).layout = l /\ Table(l, {}).rows = {}
        BY DEF Table
    <2> QED
        BY <2>1, <2>2, <2>3
  <1>1. \A t \in Tables : disk.t[t].rows = original.t[t].rows
      BY <1>0
  <1>2. \A t \in Tables : disk.t[t] = original.t[t]
                          \/ (original.t[t].layout = "none" /\ disk.t[t].layout = NewLayout[t])
      BY <1>0
  <1>3. /\ NewLayout["inodes"] = "ns" /\ NewLayout["file_chunks"] = "key"
        /\ NewLayout["symlink_targets"] = "table" /\ NewLayout["dirents"] = "id"
      BY DEF NewLayout
  <1>4. Chunks(disk) = Chunks(original)
    <2>1. CASE disk.t["file_chunks"] = original.t["file_chunks"]
        BY <2>1 DEF Chunks
    <2>2. CASE original.t["file_chunks"].layout = "none" /\ disk.t["file_chunks"].layout = "key"
      <3>1. original.t["file_chunks"].rows = {} /\ disk.t["file_chunks"].rows = {}
          BY <1>1, <2>2, TablesAre DEF Written
      <3> QED
          BY <2>2, <3>1 DEF Chunks
    <2> QED
        BY <1>2, <1>3, <2>1, <2>2, TablesAre
  <1>5. disk.t.inodes.layout \in {"none", "secs", "split", "ns"}
      BY <1>2, <1>3, TablesAre DEF Written
  <1>6. disk.t.symlink_targets.layout \in {"none", "table"}
      BY <1>2, <1>3, TablesAre DEF Written
  <1>7. disk.version \in Nat /\ (disk.version = 3 => disk.indexes = Indexes
                                                     /\ disk.t.dirents.layout = "id")
      BY <1>2, <1>3, TablesAre DEF Written, Created
  <1>8. disk.version < SchemaVersion =>
          \/ disk.t.file_chunks = original.t.file_chunks
             /\ disk.t.file_chunks.layout \in {"none", "pair"}
             /\ \A r \in disk.t.file_chunks.rows : IsPair(r)
          \/ disk.t.file_chunks = Table("key", {})
      BY <1>3, TablesAre DEF Written, Created
  <1>9. disk.version = SchemaVersion => IsCurrent(disk) /\ Root \in disk.t.inodes.rows
    <2> SUFFICES ASSUME disk.version = SchemaVersion PROVE IsCurrent(disk) /\ Root \in disk.t.inodes.rows
        OBVIOUS
    <2>1. IsCurrent(original) /\ Root \in original.t.inodes.rows /\ disk.indexes = original.indexes
        BY DEF Written, Created
    <2>2. \A t \in Tables : disk.t[t].layout = NewLayout[t]
        BY <1>2, <2>1 DEF IsCurrent
    <2> QED
        BY <1>1, <2>1, <2>2, TablesAre DEF IsCurrent
  <1> QED
      BY <1>1, <1>4, <1>5, <1>6, <1>7, <1>8, <1>9, TablesAre

\* What is said of the disk stays true while nothing is written to it.
LEMMA SameDisk ==
  ASSUME disk' = disk, original' = original
  PROVE  /\ Created(disk)' = Created(disk) /\ Migrated(disk)' = Migrated(disk)
         /\ IsCurrent(disk)' = IsCurrent(disk) /\ Written(original)' = Written(original)
         /\ Missing' = Missing
  <1>1. Created(disk)' = Created(disk)
      BY DEF Created
  <1>2. Migrated(disk)' = Migrated(disk)
      BY DEF Migrated, KeptChunks
  <1>3. IsCurrent(disk)' = IsCurrent(disk) /\ Written(original)' = Written(original)
      BY DEF IsCurrent, Written
  <1>4. Missing' = Missing
      BY DEF Missing
  <1> QED
      BY <1>1, <1>2, <1>3, <1>4

\* A statement outside the transaction that writes nothing.
LEMMA QuietStep ==
  ASSUME DbInv, disk' = disk, original' = original,
         pc' \in {"closed", "create", "root", "open", "refused"},
         pc' \in {"create", "root", "open"} => fk', pc' = "root" => IsCurrent(disk), pc' # "open"
  PROVE  DbInv'
  <1>1. Written(original)' /\ (Created(disk)' \/ Migrated(disk)') /\ (pc' = "root" => IsCurrent(disk)')
      BY SameDisk DEF DbInv
  <1>2. pc' \notin InTransaction
      BY DEF InTransaction
  <1> QED
      BY <1>1, <1>2 DEF DbInv

\* CREATE TABLE.
LEMMA CreateTableStep ==
  ASSUME DbInv, CreateTable
  PROVE  /\ DbInv'
         /\ \/ disk'.t.inodes.layout = disk.t.inodes.layout
            \/ disk.t.inodes.layout = "none" /\ disk'.t.inodes.layout = "ns"
  <1>1. PICK k \in DOMAIN TableOrder :
          /\ TableOrder[k] \in Missing
          /\ disk' = [disk EXCEPT !.t[TableOrder[k]] = Table(NewLayout[TableOrder[k]], {})]
      BY DEF CreateTable
  <1> DEFINE t == TableOrder[k]
  <1>2. /\ original' = original /\ pc' = "create" /\ fk' = fk /\ fk
        /\ t \in Tables /\ disk.t[t].layout = "none"
      BY <1>1, TablesAre DEF CreateTable, Missing, DbInv
  <1>3. disk' = [disk EXCEPT !.t[t] = Table(NewLayout[t], {})]
      BY <1>1
  <1> HIDE DEF t
  <1>4. NewLayout[t] # "none"
      BY <1>2, TablesAre DEF NewLayout
  <1>5. Created(disk)
    <2>1. ~IsCurrent(disk)
        BY <1>2, <1>4 DEF IsCurrent
    <2> QED
        BY <2>1 DEF DbInv, Migrated
  <1>6. /\ Shaped(disk') /\ disk'.version = disk.version /\ disk'.indexes = disk.indexes
        /\ disk'.t[t] = Table(NewLayout[t], {})
        /\ \A u \in Tables : u # t => disk'.t[u] = disk.t[u]
      BY <1>2, <1>3, <1>5 DEF Created, Shaped, Table
  <1>7. original.t[t].layout = "none"
    <2>1. disk.t[t] = original.t[t] \/ original.t[t].layout = "none"
        BY <1>2, <1>5 DEF Created
    <2> QED
        BY <1>2, <2>1
  <1>8. Created(disk')
      BY <1>2, <1>5, <1>6, <1>7 DEF Created
  <1>9. Created(disk)' /\ Written(original)'
      BY <1>2, <1>8 DEF Created, Written, DbInv
  <1>10. DbInv'
      BY <1>2, <1>9 DEF DbInv, InTransaction
  <1>11. \/ disk'.t["inodes"].layout = disk.t["inodes"].layout
         \/ disk.t["inodes"].layout = "none" /\ disk'.t["inodes"].layout = "ns"
    <2>1. CASE t = "inodes"
        BY <1>2, <1>6, <2>1 DEF Table, NewLayout
    <2>2. CASE t # "inodes"
        BY <1>6, <2>2, TablesAre
    <2> QED
        BY <2>1, <2>2
  <1> QED
      BY <1>10, <1>11

\* migrate up to BEGIN.
LEMMA CheckVersionStep == ASSUME DbInv, CheckVersion PROVE DbInv'
  <1>0. /\ Written(original) /\ (Created(disk) \/ Migrated(disk)) /\ Missing = {}
        /\ disk' = disk /\ original' = original /\ tx' = disk
        /\ fk' = (disk.version >= SchemaVersion)
        /\ pc' = IF disk.version > SchemaVersion THEN "refused"
                 ELSE IF disk.version = SchemaVersion THEN "root" ELSE "nsec"
      BY DEF DbInv, CheckVersion
  <1>1. disk.version \in Nat
      BY <1>0, CreatedIs DEF Migrated, IsCurrent, SchemaVersion
  <1>2. CASE disk.version >= SchemaVersion
    <2>1. /\ pc' \in {"root", "refused"} /\ (pc' = "root" => disk.version = SchemaVersion) /\ fk'
      <3>1. fk'
          BY <1>0, <1>2
      <3>2. pc' = IF disk.version > SchemaVersion THEN "refused"
                  ELSE IF disk.version = SchemaVersion THEN "root" ELSE "nsec"
          BY <1>0
      <3> QED
          BY <1>1, <1>2, <3>1, <3>2 DEF SchemaVersion
    <2>2. pc' = "root" => IsCurrent(disk)
        BY <1>0, <2>1, CreatedIs DEF Migrated
    <2> QED
        BY <1>0, <2>1, <2>2, QuietStep
  <1>3. CASE disk.version < SchemaVersion
    <2>1. pc' = "nsec" /\ ~fk'
      <3>1. ~(disk.version >= SchemaVersion)
          BY <1>1, <1>3 DEF SchemaVersion
      <3>2. ~fk'
          BY <1>0, <3>1
      <3>3. pc' = IF disk.version > SchemaVersion THEN "refused"
                  ELSE IF disk.version = SchemaVersion THEN "root" ELSE "nsec"
          BY <1>0
      <3> QED
          BY <1>1, <1>3, <3>2, <3>3 DEF SchemaVersion
    <2>2. Created(disk)
        BY <1>0, <1>3 DEF Migrated, IsCurrent, SchemaVersion
    <2>3. /\ Written(original)' /\ Created(disk)' /\ Missing' = {}
        BY <1>0, <2>2, SameDisk
    <2>4. /\ disk.version = 3 => disk.indexes = Indexes /\ disk.t.dirents.layout = "id"
        BY <1>0, <2>2, CreatedIs
    <2>5. Shaped(disk)
        BY <2>2 DEF Created
    <2>6. TxInv'
        BY <1>0, <1>3, <2>1, <2>3, <2>4, <2>5 DEF TxInv
    <2> QED
        BY <2>1, <2>3, <2>6 DEF DbInv, InTransaction
  <1> QED
      BY <1>1, <1>2, <1>3 DEF SchemaVersion

------------------------------------------------------------------------------
(* The transaction *)

\* What a step of migrate_steps does not touch stays true; the rest of TxInv is
\* about tx and has to be shown of its new value.
LEMMA TxStep ==
  ASSUME DbInv, NEW at \in InTransaction, NEW new, NEW next \in InTransaction,
         Step(at, new, next), Shaped(new),
         new.version = IF next = "commit" THEN SchemaVersion ELSE disk.version,
         new.t.inodes.rows = disk.t.inodes.rows, new.t.dirents.rows = disk.t.dirents.rows,
         new.t.symlink_targets = disk.t.symlink_targets,
         disk.t.inodes.layout = "ns" \/ next \in {"chunks", "version", "commit"} =>
           new.t.inodes.layout = "ns",
         next \in {"indexes", "times", "chunks", "version", "commit"} \/ disk.version = 3 =>
           new.t.dirents.layout = "id",
         next \in {"times", "chunks", "version", "commit"} \/ disk.version = 3 =>
           new.indexes = Indexes,
         IF next \in {"version", "commit"} THEN new.t.file_chunks.layout = "key" /\ KeptChunks(new)
                                           ELSE new.t.file_chunks = disk.t.file_chunks
  PROVE  DbInv'
  <1>1. /\ pc = at /\ pc' = next /\ tx' = new /\ disk' = disk /\ original' = original /\ fk' = fk
      BY DEF Step
  <1>2. Written(original) /\ TxInv
      BY <1>1 DEF DbInv
  <1>3. /\ Written(original)' /\ Created(disk)' /\ Missing' = {} /\ ~fk'
        /\ disk'.version < SchemaVersion
      BY <1>1, <1>2, SameDisk DEF TxInv
  <1>4. KeptChunks(tx)' = KeptChunks(new)
      BY <1>1 DEF KeptChunks
  <1>5. TxInv'
      BY <1>1, <1>3, <1>4 DEF TxInv
  <1> QED
      BY <1>1, <1>3, <1>5 DEF DbInv, InTransaction

\* A statement of the transaction fails.
LEMMA StopStep == ASSUME DbInv, NEW at, Stop(at) PROVE DbInv'
  <1>1. disk' = disk /\ original' = original /\ pc' = "refused" /\ fk' = TRUE
      BY DEF Stop
  <1> QED
      BY <1>1, QuietStep

\* ensure_nsec_columns.
LEMMA EnsureNsecColumnsStep == ASSUME DbInv, EnsureNsecColumns PROVE DbInv'
  <1> DEFINE new == IF Version < 1 /\ SplitTimestamps THEN [tx EXCEPT !.t.inodes.layout = "split"]
                    ELSE tx
  <1>1. Step("nsec", new, "child")
      BY DEF EnsureNsecColumns
  <1>2. pc = "nsec" /\ TxInv
      BY <1>1 DEF Step, DbInv, InTransaction
  <1>3. /\ Shaped(new) /\ new.version = tx.version /\ new.indexes = tx.indexes
        /\ new.t.inodes.rows = tx.t.inodes.rows /\ new.t.dirents = tx.t.dirents
        /\ new.t.symlink_targets = tx.t.symlink_targets /\ new.t.file_chunks = tx.t.file_chunks
        /\ disk.t.inodes.layout = "ns" => new.t.inodes.layout = tx.t.inodes.layout
    <2>1. CASE Version < 1 /\ SplitTimestamps
        BY <1>2, <2>1, TablesAre DEF TxInv, Shaped, SplitTimestamps
    <2>2. CASE ~(Version < 1 /\ SplitTimestamps)
        BY <1>2, <2>2 DEF TxInv
    <2> QED
        BY <2>1, <2>2
  <1> HIDE DEF new
  <1> QED
      BY <1>1, <1>2, <1>3, TxStep DEF TxInv, InTransaction

\* The index of version 2.
LEMMA ChildIndexStep == ASSUME DbInv, ChildIndex PROVE DbInv'
  <1> DEFINE new == IF Version < 2 THEN [tx EXCEPT !.indexes = @ \cup {"dirents_child"}] ELSE tx
  <1>1. Step("child", new, "dirents")
      BY DEF ChildIndex
  <1>2. pc = "child" /\ TxInv
      BY <1>1 DEF Step, DbInv, InTransaction
  <1>3. /\ Shaped(new) /\ new.version = tx.version /\ new.t = tx.t
        /\ disk.version = 3 => new.indexes = tx.indexes
      BY <1>2 DEF TxInv, Shaped, Version
  <1> HIDE DEF new
  <1> QED
      BY <1>1, <1>2, <1>3, TxStep DEF TxInv, InTransaction

\* Stable ids for entries: the table is written anew.
LEMMA StableIdsStep == ASSUME DbInv, StableIds PROVE DbInv'
  <1> DEFINE k == [Dropped(tx, "dirents") EXCEPT !.t.dirents = Table("id", tx.t.dirents.rows)]
             new == IF Version < 3 /\ tx.t.dirents.layout # "id" THEN k ELSE tx
  <1>1. Step("dirents", new, "indexes")
      BY DEF StableIds
  <1>2. pc = "dirents" /\ TxInv /\ Written(original)
      BY <1>1 DEF Step, DbInv, InTransaction
  <1>3. /\ Shaped(k) /\ k.version = tx.version /\ k.t.inodes = tx.t.inodes
        /\ k.t.symlink_targets = tx.t.symlink_targets /\ k.t.file_chunks = tx.t.file_chunks
        /\ k.t.dirents.rows = tx.t.dirents.rows /\ k.t.dirents.layout = "id"
    <2>1. Dropped(tx, "dirents") = [tx EXCEPT !.indexes = {}, !.t = tx.t]
        BY DEF Dropped
    <2> QED
        BY <1>2, <2>1, TablesAre DEF TxInv, Shaped, Table
  <1> HIDE DEF k
  <1>4. disk.version \in Nat /\ disk.version < SchemaVersion
      BY <1>2, CreatedIs DEF TxInv
  <1>5. /\ Shaped(new) /\ new.version = tx.version /\ new.t.inodes = tx.t.inodes
        /\ new.t.symlink_targets = tx.t.symlink_targets /\ new.t.file_chunks = tx.t.file_chunks
        /\ new.t.dirents.rows = tx.t.dirents.rows /\ new.t.dirents.layout = "id"
        /\ disk.version = 3 => new.indexes = tx.indexes
    <2>1. CASE Version < 3 /\ tx.t.dirents.layout # "id"
        BY <1>3, <2>1 DEF Version
    <2>2. CASE tx.t.dirents.layout = "id"
        BY <1>2, <2>2 DEF TxInv
    <2>3. CASE ~(Version < 3)
      <3>1. disk.version = 3
          BY <1>4, <2>3 DEF Version, SchemaVersion
      <3> QED
          BY <1>2, <2>3, <3>1 DEF TxInv
    <2> QED
        BY <2>1, <2>2, <2>3
  <1> HIDE DEF new
  <1> QED
      BY <1>1, <1>2, <1>5, TxStep DEF TxInv, InTransaction

\* The indexes of version 3.
LEMMA DirentIndexesStep == ASSUME DbInv, DirentIndexes PROVE DbInv'
  <1> DEFINE new == IF Version < 3 THEN [tx EXCEPT !.indexes = Indexes] ELSE tx
  <1>1. Step("indexes", new, "times")
      BY DEF DirentIndexes
  <1>2. pc = "indexes" /\ TxInv /\ Written(original)
      BY <1>1 DEF Step, DbInv, InTransaction
  <1>3. disk.version \in Nat /\ disk.version < SchemaVersion
      BY <1>2, CreatedIs DEF TxInv
  <1>4. Shaped(new) /\ new.version = tx.version /\ new.t = tx.t /\ new.indexes = Indexes
    <2>1. CASE Version < 3
        BY <1>2, <2>1 DEF TxInv, Shaped
    <2>2. CASE ~(Version < 3)
      <3>1. disk.version = 3
          BY <1>3, <2>2 DEF Version, SchemaVersion
      <3> QED
          BY <1>2, <2>2, <3>1 DEF TxInv
    <2> QED
        BY <2>1, <2>2
  <1> HIDE DEF new
  <1> QED
      BY <1>1, <1>2, <1>4, TxStep DEF TxInv, InTransaction

\* merge_timestamp_columns: foreign keys are off, so dropping the table deletes
\* nothing elsewhere.
LEMMA MergeStep == ASSUME DbInv, MergeTimestampColumns PROVE DbInv'
  <1>1. CASE Version < 4 /\ SplitTimestamps /\ tx.t.inodes.layout # "split"
      BY <1>1, StopStep DEF MergeTimestampColumns
  <1>2. CASE Version < 4 /\ SplitTimestamps /\ tx.t.inodes.layout = "split"
    <2> DEFINE new == [Dropped(tx, "inodes") EXCEPT !.t.inodes = Table("ns", tx.t.inodes.rows)]
    <2>1. Step("times", new, "chunks")
        BY <1>2 DEF MergeTimestampColumns
    <2>2. pc = "times" /\ TxInv
        BY <2>1 DEF Step, DbInv, InTransaction
    <2>3. Dropped(tx, "inodes") = [tx EXCEPT !.indexes = tx.indexes, !.t = tx.t]
        BY <2>2 DEF Dropped, TxInv
    <2>4. /\ Shaped(new) /\ new.version = tx.version /\ new.indexes = tx.indexes
          /\ new.t.inodes.layout = "ns" /\ new.t.inodes.rows = tx.t.inodes.rows
          /\ new.t.dirents = tx.t.dirents /\ new.t.file_chunks = tx.t.file_chunks
          /\ new.t.symlink_targets = tx.t.symlink_targets
        BY <2>2, <2>3, TablesAre DEF TxInv, Shaped, Table
    <2> HIDE DEF new
    <2> QED
        BY <2>1, <2>2, <2>4, TxStep DEF TxInv, InTransaction
  <1>3. CASE ~(Version < 4 /\ SplitTimestamps)
    <2>1. Step("times", tx, "chunks")
        BY <1>3 DEF MergeTimestampColumns
    <2>2. pc = "times" /\ TxInv
        BY <2>1 DEF Step, DbInv, InTransaction
    <2>3. tx.t.inodes.layout = "ns"
        BY <1>3, <2>2 DEF TxInv, Version, SplitTimestamps, SchemaVersion
    <2> QED
        BY <2>1, <2>2, <2>3, TxStep DEF TxInv, InTransaction
  <1> QED
      BY <1>1, <1>2, <1>3

\* Every chunk that fits is found under its new key, where it was.
LEMMA RekeyedChunks ==
  ASSUME NEW rows, NEW inos, \A r \in rows : IsPair(r) /\ r.index < MaxChunks
  PROVE  {<<r.id \div MaxChunks, r.id % MaxChunks, r.data>> : r \in Rekeyed(rows, inos)}
         = {c \in {<<r.ino, r.index, r.data>> : r \in rows} : c[1] \in inos}
  <1> DEFINE Place(r) == <<r.id \div MaxChunks, r.id % MaxChunks, r.data>>
             Pair(r)  == <<r.ino, r.index, r.data>>
             L == {Place(r) : r \in Rekeyed(rows, inos)}
             R == {c \in {Pair(r) : r \in rows} : c[1] \in inos}
  <1>1. ASSUME NEW r \in rows PROVE Place(Key(r)) = Pair(r) /\ Pair(r)[1] = r.ino
    <2>1. r.ino \in Nat /\ r.index \in 0 .. (MaxChunks - 1) /\ MaxChunks \in Nat \ {0}
        BY MigrationAssumption DEF IsPair
    <2>2. /\ (r.ino * MaxChunks + r.index) \div MaxChunks = r.ino
          /\ (r.ino * MaxChunks + r.index) % MaxChunks = r.index
        BY <2>1, DivisionUnique
    <2>3. Key(r).id = r.ino * MaxChunks + r.index /\ Key(r).data = r.data
        BY DEF Key
    <2> QED
        BY <2>2, <2>3
  <1> HIDE DEF Place, Pair
  <1>2. ASSUME NEW x \in L PROVE x \in R
    <2>1. PICK y \in Rekeyed(rows, inos) : x = Place(y)
        OBVIOUS
    <2>2. PICK r \in rows : r.ino \in inos /\ y = Key(r)
        BY <2>1 DEF Rekeyed
    <2>3. x = Pair(r) /\ Pair(r)[1] = r.ino
        BY <1>1, <2>1, <2>2
    <2> QED
        BY <2>2, <2>3
  <1>3. ASSUME NEW x \in R PROVE x \in L
    <2>1. PICK r \in rows : x = Pair(r)
        OBVIOUS
    <2>2. r.ino \in inos /\ x = Place(Key(r))
        BY <1>1, <2>1
    <2>3. Key(r) \in Rekeyed(rows, inos)
        BY <2>2 DEF Rekeyed
    <2> QED
        BY <2>2, <2>3
  <1>4. L = R
      BY <1>2, <1>3
  <1> QED
      BY <1>4 DEF Place, Pair

\* rekey_file_chunks.
LEMMA RekeyStep == ASSUME DbInv, RekeyFileChunks PROVE DbInv'
  <1>1. CASE Version < 4 /\ tx.t.file_chunks.layout = "pair" /\ TooLarge(tx) # {}
      BY <1>1, StopStep DEF RekeyFileChunks
  <1>2. CASE Version < 4 /\ tx.t.file_chunks.layout = "pair" /\ TooLarge(tx) = {}
    <2> DEFINE rows == tx.t.file_chunks.rows
               inos == tx.t.inodes.rows
               new  == [tx EXCEPT !.t.file_chunks = Table("key", Rekeyed(rows, inos))]
    <2>1. Step("chunks", new, "version")
        BY <1>2 DEF RekeyFileChunks
    <2>2. pc = "chunks" /\ TxInv /\ Written(original)
        BY <2>1 DEF Step, DbInv, InTransaction
    <2>3. /\ Shaped(new) /\ new.version = tx.version /\ new.indexes = tx.indexes
          /\ new.t.inodes = tx.t.inodes /\ new.t.dirents = tx.t.dirents
          /\ new.t.symlink_targets = tx.t.symlink_targets
          /\ new.t.file_chunks.layout = "key" /\ new.t.file_chunks.rows = Rekeyed(rows, inos)
        BY <2>2, TablesAre DEF TxInv, Shaped, Table
    <2> HIDE DEF new
    <2>4. /\ tx.t.file_chunks = original.t.file_chunks /\ \A r \in rows : IsPair(r)
          /\ inos = original.t.inodes.rows
      <3>1. Created(disk) /\ tx.t.file_chunks = disk.t.file_chunks /\ inos = disk.t.inodes.rows
            /\ disk.version < SchemaVersion
          BY <2>2 DEF TxInv
      <3>2. disk.t.file_chunks # Table("key", {})
          BY <1>2, <3>1 DEF Table
      <3> QED
          BY <2>2, <3>1, <3>2, CreatedIs
    <2>5. \A r \in rows : r.index < MaxChunks
        BY <1>2, <2>4, MigrationAssumption DEF TooLarge, IsPair
    <2>6. Chunks(new) = {c \in Chunks(original) : c[1] \in original.t.inodes.rows}
      <3>1. Chunks(original) = {<<r.ino, r.index, r.data>> : r \in rows}
          BY <1>2, <2>4 DEF Chunks
      <3>2. Chunks(new) = {<<r.id \div MaxChunks, r.id % MaxChunks, r.data>> :
                             r \in Rekeyed(rows, inos)}
          BY <2>3 DEF Chunks
      <3>3. {<<r.id \div MaxChunks, r.id % MaxChunks, r.data>> : r \in Rekeyed(rows, inos)}
            = {c \in {<<r.ino, r.index, r.data>> : r \in rows} : c[1] \in inos}
        <4>1. \A r \in rows : IsPair(r) /\ r.index < MaxChunks
            BY <2>4, <2>5
        <4> HIDE DEF rows, inos
        <4> QED
            BY <4>1, RekeyedChunks
      <3>4. inos = original.t.inodes.rows
          BY <2>4
      <3> HIDE DEF rows, inos
      <3> QED
          BY <3>1, <3>2, <3>3, <3>4
    <2>7. KeptChunks(new)
        BY <2>6 DEF KeptChunks
    <2> QED
        BY <2>1, <2>2, <2>3, <2>7, TxStep DEF TxInv, InTransaction
  <1>3. CASE ~(Version < 4 /\ tx.t.file_chunks.layout = "pair")
    <2>1. Step("chunks", tx, "version")
        BY <1>3 DEF RekeyFileChunks
    <2>2. pc = "chunks" /\ TxInv /\ Written(original)
        BY <2>1 DEF Step, DbInv, InTransaction
    <2>3. /\ Created(disk) /\ tx.t.file_chunks = disk.t.file_chunks
          /\ disk.version < SchemaVersion /\ disk.t.file_chunks.layout # "none"
        BY <2>2, TablesAre DEF TxInv, Missing
    <2>4. tx.t.file_chunks = Table("key", {})
        BY <1>3, <2>2, <2>3, CreatedIs DEF Version, SchemaVersion
    <2>5. tx.t.file_chunks.layout = "key"
        BY <2>4 DEF Table
    <2>6. KeptChunks(tx)
      <3>1. Chunks(tx) = Chunks(disk)
          BY <2>3 DEF Chunks
      <3>2. Chunks(disk) = Chunks(original)
          BY <2>2, <2>3, CreatedIs
      <3> QED
          BY <3>1, <3>2 DEF KeptChunks
    <2> QED
        BY <2>1, <2>2, <2>5, <2>6, TxStep DEF TxInv, InTransaction
  <1> QED
      BY <1>1, <1>2, <1>3

\* PRAGMA user_version.
LEMMA SetVersionStep == ASSUME DbInv, SetVersion PROVE DbInv'
  <1> DEFINE new == [tx EXCEPT !.version = SchemaVersion]
  <1>1. Step("version", new, "commit")
      BY DEF SetVersion
  <1>2. pc = "version" /\ TxInv
      BY <1>1 DEF Step, DbInv, InTransaction
  <1>3. /\ Shaped(new) /\ new.version = SchemaVersion /\ new.indexes = tx.indexes /\ new.t = tx.t
      BY <1>2 DEF TxInv, Shaped
  <1> HIDE DEF new
  <1>4. KeptChunks(new) = KeptChunks(tx)
      BY <1>3 DEF KeptChunks, Chunks
  <1> QED
      BY <1>1, <1>2, <1>3, <1>4, TxStep DEF TxInv, InTransaction

\* COMMIT: the database is current and has what the original had.
LEMMA CommitStep == ASSUME DbInv, Commit PROVE DbInv' /\ tx.t.inodes.layout = "ns"
  <1>1. /\ pc = "commit" /\ disk' = tx /\ pc' = "root" /\ fk' = TRUE /\ original' = original
      BY DEF Commit
  <1>2. TxInv /\ Written(original)
      BY <1>1 DEF DbInv, InTransaction
  <1>3. /\ Shaped(tx) /\ tx.version = SchemaVersion /\ tx.indexes = Indexes
        /\ tx.t.inodes.layout = "ns" /\ tx.t.dirents.layout = "id"
        /\ tx.t.file_chunks.layout = "key" /\ KeptChunks(tx)
      BY <1>1, <1>2 DEF TxInv
  <1>4. tx.t.symlink_targets.layout = "table"
    <2>1. Created(disk) /\ disk.t.symlink_targets.layout # "none"
          /\ tx.t.symlink_targets = disk.t.symlink_targets
        BY <1>2, TablesAre DEF TxInv, Missing
    <2> QED
        BY <1>2, <2>1, CreatedIs
  <1>5. IsCurrent(tx)
      BY <1>3, <1>4, TablesAre DEF IsCurrent, NewLayout
  <1>6. /\ tx.t.inodes.rows = original.t.inodes.rows
        /\ tx.t.dirents.rows = original.t.dirents.rows
        /\ tx.t.symlink_targets.rows = original.t.symlink_targets.rows
        /\ original.version <= SchemaVersion
    <2>1. Created(disk) /\ disk.version < SchemaVersion /\ disk.version = original.version
        BY <1>2 DEF TxInv, Created
    <2>2. /\ disk.t.inodes.rows = original.t.inodes.rows
          /\ disk.t.dirents.rows = original.t.dirents.rows
          /\ disk.t.symlink_targets.rows = original.t.symlink_targets.rows
          /\ disk.version \in Nat
        BY <1>2, <2>1, CreatedIs
    <2> QED
        BY <1>2, <2>1, <2>2 DEF TxInv, SchemaVersion
  <1>7. Migrated(tx)
      BY <1>3, <1>5, <1>6 DEF Migrated
  <1>8. Migrated(disk)' /\ IsCurrent(disk)' /\ Written(original)'
      BY <1>1, <1>2, <1>5, <1>7 DEF Migrated, KeptChunks, IsCurrent, Written
  <1> QED
      BY <1>1, <1>3, <1>8 DEF DbInv, InTransaction

\* INSERT OR IGNORE of the root.
LEMMA InsertRootStep ==
  ASSUME DbInv, InsertRoot
  PROVE  DbInv' /\ disk'.t.inodes.layout = disk.t.inodes.layout
  <1>1. /\ pc = "root" /\ disk' = [disk EXCEPT !.t.inodes.rows = @ \cup {Root}]
        /\ pc' = "open" /\ fk' = fk /\ original' = original
      BY DEF InsertRoot
  <1>2. Written(original) /\ (Created(disk) \/ Migrated(disk)) /\ IsCurrent(disk) /\ fk
      BY <1>1 DEF DbInv
  <1>3. Shaped(disk)
      BY <1>2 DEF Created, Migrated
  <1>4. /\ Shaped(disk') /\ disk'.version = disk.version /\ disk'.indexes = disk.indexes
        /\ disk'.t.inodes.layout = disk.t.inodes.layout
        /\ disk'.t.inodes.rows = disk.t.inodes.rows \cup {Root}
        /\ disk'.t.dirents = disk.t.dirents /\ disk'.t.file_chunks = disk.t.file_chunks
        /\ disk'.t.symlink_targets = disk.t.symlink_targets
      BY <1>1, <1>3, TablesAre DEF Shaped
  <1>5. IsCurrent(disk')
    <2>1. \A t \in Tables : disk'.t[t].layout = disk.t[t].layout
        BY <1>4, TablesAre
    <2> QED
        BY <1>2, <1>4, <2>1 DEF IsCurrent
  <1>6. Migrated(disk)
    <2> SUFFICES ASSUME Created(disk) PROVE Migrated(disk)
        BY <1>2
    <2>1. /\ disk.t.inodes.rows = original.t.inodes.rows
          /\ disk.t.dirents.rows = original.t.dirents.rows
          /\ disk.t.symlink_targets.rows = original.t.symlink_targets.rows
          /\ Chunks(disk) = Chunks(original)
        BY <1>2, CreatedIs
    <2>2. original.version = SchemaVersion
        BY <1>2 DEF Created, IsCurrent
    <2> QED
        BY <1>2, <1>3, <2>1, <2>2 DEF Migrated, KeptChunks, SchemaVersion
  <1>7. KeptChunks(disk') = KeptChunks(disk)
      BY <1>4 DEF KeptChunks, Chunks
  <1>8. Migrated(disk')
      BY <1>4, <1>5, <1>6, <1>7 DEF Migrated
  <1>9. Migrated(disk)' /\ IsCurrent(disk)' /\ Written(original)'
      BY <1>1, <1>2, <1>5, <1>8 DEF Migrated, KeptChunks, IsCurrent, Written
  <1> QED
      BY <1>1, <1>2, <1>4, <1>9 DEF DbInv, InTransaction

\* Steps outside the transaction that write nothing to the disk.
LEMMA OutsideStep ==
  ASSUME DbInv, Open \/ Close \/ Fault \/ Serve \/ UNCHANGED vars
  PROVE  DbInv' /\ disk' = disk
  <1>1. CASE Open
    <2>1. disk' = disk /\ original' = original /\ pc' = "create" /\ fk'
        BY <1>1 DEF Open
    <2> QED
        BY <2>1, QuietStep
  <1>2. CASE Close \/ Fault
    <2>1. disk' = disk /\ original' = original /\ pc' = "closed"
        BY <1>2 DEF Close, Fault
    <2> QED
        BY <2>1, QuietStep
  <1>3. CASE Serve \/ UNCHANGED vars
    <2>1. /\ disk' = disk /\ original' = original /\ pc' = pc /\ fk' = fk /\ tx' = tx
        BY <1>3 DEF Serve, db, vars
    <2>2. /\ Created(disk)' = Created(disk) /\ Migrated(disk)' = Migrated(disk)
          /\ IsCurrent(disk)' = IsCurrent(disk) /\ Written(original)' = Written(original)
          /\ Missing' = Missing
        BY <2>1, SameDisk
    <2>3. KeptChunks(tx)' = KeptChunks(tx)
        BY <2>1 DEF KeptChunks
    <2>4. TxInv => TxInv'
        BY <2>1, <2>2, <2>3 DEF TxInv
    <2> QED
        BY <2>1, <2>2, <2>4 DEF DbInv
  <1> QED
      BY <1>1, <1>2, <1>3

------------------------------------------------------------------------------
(* The times along the way *)

\* What a row holds in the new layout.
LEMMA RowStored == ASSUME TimeInv, row.layout = "ns" PROVE row = InNs(row.ns) /\ row.ns \in Stored
  <1> DEFINE n == IF old THEN MergedNs(told) ELSE Clamp(FuserTime(told))
  <1>1. told \in Pairs(Int)
      BY DEF TimeInv
  <1>2. row = InNs(n)
      BY DEF TimeInv
  <1>3. n \in Stored
      BY <1>1, MergedIs, ToNsIs
  <1>4. \A m : InNs(m).ns = m
      BY DEF InNs
  <1> HIDE DEF n
  <1> QED
      BY <1>2, <1>3, <1>4

\* A row read and written back is the same row.
LEMMA RewriteStep == ASSUME TimeInv, row.layout = "ns", Rewrite PROVE times' = times
  <1>1. row = InNs(row.ns) /\ row.ns \in Stored
      BY RowStored
  <1>2. ToNs(FromNs(row.ns)) = row.ns
      BY <1>1, ToNsIs
  <1>3. row' = InNs(ToNs(FromNs(row.ns))) /\ told' = told /\ old' = old
      BY DEF Rewrite
  <1>4. row' = row
      BY <1>1, <1>2, <1>3
  <1> QED
      BY <1>3, <1>4 DEF times

\* setattr with a time.
LEMMA SetTimeStep ==
  ASSUME NEW t \in Pairs(-Horizon .. Horizon), SetTime(t)
  PROVE  TimeInv' /\ row'.layout = "ns"
  <1>1. t \in Pairs(Int)
      BY TimestampsAssumption DEF Pairs
  <1>2. told' = t /\ old' = FALSE /\ row' = InNs(ToNs(FromSystemTime(FuserTime(t))))
      BY DEF SetTime
  <1>3. ToNs(FromSystemTime(FuserTime(t))) = Clamp(FuserTime(t))
      BY <1>1, PairBack, ToNsIs
  <1>4. row' = InNs(Clamp(FuserTime(told')))
      BY <1>2, <1>3
  <1>5. TimeInv'
      BY <1>1, <1>2, <1>4 DEF TimeInv
  <1> QED
      BY <1>2, <1>5 DEF InNs

\* The upgrade.
LEMMA UpgradeStep == ASSUME TimeInv, Upgrade PROVE TimeInv' /\ row'.layout = "ns"
  <1>1. row.layout = "split" /\ told' = told /\ old' = old /\ row' = InNs(MergedNs(row.time))
      BY DEF Upgrade
  <1>2. \A n : InNs(n).layout = "ns"
      BY DEF InNs
  <1>3. row = [layout |-> "split", time |-> told] /\ old
      BY <1>1, <1>2 DEF TimeInv
  <1>4. row' = InNs(MergedNs(told))
      BY <1>1, <1>3
  <1>5. TimeInv'
      BY <1>1, <1>3, <1>4 DEF TimeInv
  <1> QED
      BY <1>2, <1>4, <1>5

\* A step that leaves the times alone and the layout of their table, or creates it.
LEMMA SameTimes ==
  ASSUME TimeInv, LayoutInv, times' = times,
         \/ disk'.t.inodes.layout = disk.t.inodes.layout
         \/ disk.t.inodes.layout = "none" /\ disk'.t.inodes.layout = "ns"
  PROVE  TimeInv' /\ LayoutInv'
  <1>1. told' = told /\ row' = row /\ old' = old
      BY DEF times
  <1>2. TimeInv'
      BY <1>1 DEF TimeInv
  <1> QED
      BY <1>1, <1>2 DEF LayoutInv

\* A statement of the transaction leaves the disk and the times alone.
LEMMA StatementStep ==
  ASSUME \/ EnsureNsecColumns \/ ChildIndex \/ StableIds \/ DirentIndexes
         \/ MergeTimestampColumns \/ RekeyFileChunks \/ SetVersion
  PROVE  disk' = disk /\ times' = times
  <1>1. ASSUME NEW at, NEW new, NEW next, Step(at, new, next) PROVE disk' = disk /\ times' = times
      BY <1>1 DEF Step
  <1>2. ASSUME NEW at, Stop(at) PROVE disk' = disk /\ times' = times
      BY <1>2 DEF Stop
  <1>3. CASE EnsureNsecColumns
      BY <1>1, <1>3 DEF EnsureNsecColumns
  <1>4. CASE ChildIndex
      BY <1>1, <1>4 DEF ChildIndex
  <1>5. CASE StableIds
      BY <1>1, <1>5 DEF StableIds
  <1>6. CASE DirentIndexes
      BY <1>1, <1>6 DEF DirentIndexes
  <1>7. CASE MergeTimestampColumns
      BY <1>1, <1>2, <1>7 DEF MergeTimestampColumns
  <1>8. CASE RekeyFileChunks
      BY <1>1, <1>2, <1>8 DEF RekeyFileChunks
  <1>9. CASE SetVersion
      BY <1>1, <1>9 DEF SetVersion
  <1> QED
      BY <1>3, <1>4, <1>5, <1>6, <1>7, <1>8, <1>9

\* Every step keeps the invariant.
LEMMA MigrationStep == ASSUME MigrationInv, [Next]_vars PROVE MigrationInv'
  <1>0. DbInv /\ TimeInv /\ LayoutInv
      BY DEF MigrationInv
  <1>1. ASSUME DbInv', disk' = disk, times' = times PROVE MigrationInv'
      BY <1>0, <1>1, SameTimes DEF MigrationInv
  <1>2. CASE Open \/ Close \/ Fault \/ UNCHANGED vars
    <2>1. times' = times
        BY <1>2 DEF Open, Close, Fault, vars
    <2>2. DbInv' /\ disk' = disk
        BY <1>0, <1>2, OutsideStep
    <2> QED
        BY <1>1, <2>1, <2>2
  <1>3. CASE Serve
    <2>1. DbInv' /\ disk' = disk
        BY <1>0, <1>3, OutsideStep
    <2>2. row.layout = "ns" /\ disk.t["inodes"].layout = "ns"
      <3>1. IsCurrent(disk)
          BY <1>0, <1>3 DEF Serve, DbInv
      <3>2. disk.t["inodes"].layout = "ns"
          BY <3>1, TablesAre DEF IsCurrent, NewLayout
      <3> QED
          BY <1>0, <3>2 DEF LayoutInv
    <2>3. CASE Rewrite
        BY <1>0, <1>1, <2>1, <2>2, <2>3, RewriteStep
    <2>4. CASE \E t \in Pairs(-Horizon .. Horizon) : SetTime(t)
      <3>1. TimeInv' /\ row'.layout = "ns"
          BY <2>4, SetTimeStep
      <3>2. LayoutInv'
          BY <2>1, <2>2, <3>1 DEF LayoutInv
      <3> QED
          BY <2>1, <3>1, <3>2 DEF MigrationInv
    <2> QED
        BY <1>3, <2>3, <2>4 DEF Serve
  <1>4. CASE CreateTable
    <2>1. /\ DbInv'
          /\ \/ disk'.t.inodes.layout = disk.t.inodes.layout
             \/ disk.t.inodes.layout = "none" /\ disk'.t.inodes.layout = "ns"
        BY <1>0, <1>4, CreateTableStep
    <2>2. times' = times
        BY <1>4 DEF CreateTable
    <2> QED
        BY <1>0, <2>1, <2>2, SameTimes DEF MigrationInv
  <1>5. CASE CheckVersion
    <2>1. DbInv'
        BY <1>0, <1>5, CheckVersionStep
    <2>2. disk' = disk /\ times' = times
        BY <1>5 DEF CheckVersion
    <2> QED
        BY <1>1, <2>1, <2>2
  <1>6. CASE \/ EnsureNsecColumns \/ ChildIndex \/ StableIds \/ DirentIndexes
             \/ MergeTimestampColumns \/ RekeyFileChunks \/ SetVersion
    <2>1. DbInv'
        BY <1>0, <1>6, EnsureNsecColumnsStep, ChildIndexStep, StableIdsStep, DirentIndexesStep,
           MergeStep, RekeyStep, SetVersionStep
    <2>2. disk' = disk /\ times' = times
        BY <1>6, StatementStep
    <2> QED
        BY <1>1, <2>1, <2>2
  <1>7. CASE Commit
    <2>1. DbInv' /\ tx.t.inodes.layout = "ns"
        BY <1>0, <1>7, CommitStep
    <2>2. disk' = tx /\ IF row.layout # tx.t.inodes.layout THEN Upgrade ELSE UNCHANGED times
        BY <1>7 DEF Commit
    <2>3. TimeInv' /\ row'.layout = "ns"
      <3>1. CASE row.layout = "ns"
        <4>1. told' = told /\ row' = row /\ old' = old
            BY <2>1, <2>2, <3>1 DEF times
        <4> QED
            BY <1>0, <3>1, <4>1 DEF TimeInv
      <3>2. CASE row.layout # "ns"
          BY <1>0, <2>1, <2>2, <3>2, UpgradeStep
      <3> QED
          BY <3>1, <3>2
    <2>4. LayoutInv'
        BY <2>1, <2>2, <2>3 DEF LayoutInv
    <2> QED
        BY <2>1, <2>3, <2>4 DEF MigrationInv
  <1>8. CASE InsertRoot
    <2>1. DbInv' /\ disk'.t.inodes.layout = disk.t.inodes.layout
        BY <1>0, <1>8, InsertRootStep
    <2>2. times' = times
        BY <1>8 DEF InsertRoot
    <2> QED
        BY <1>0, <2>1, <2>2, SameTimes DEF MigrationInv
  <1> QED
      BY <1>2, <1>3, <1>4, <1>5, <1>6, <1>7, <1>8 DEF Next, Initialize, MigrateSteps

\* The invariant holds throughout.
LEMMA MigrationAlways == Spec => []MigrationInv
  <1>1. Init => MigrationInv
      BY MigrationInit
  <1>2. MigrationInv /\ [Next]_vars => MigrationInv'
      BY MigrationStep
  <1> QED
      BY <1>1, <1>2, PTL DEF Spec

------------------------------------------------------------------------------
(* Theorems *)

\* Whatever statement of Db::open fails and wherever the process dies, the inodes,
\* names, symlink targets and chunks of the database stay there under their
\* numbers; a migration only drops chunks that belong to no inode.
THEOREM ContentsStayKept == Spec => []ContentsKept
  <1>1. MigrationInv => ContentsKept
    <2> SUFFICES ASSUME MigrationInv PROVE ContentsKept
        OBVIOUS
    <2>1. Written(original) /\ (Created(disk) \/ Migrated(disk))
        BY DEF MigrationInv, DbInv
    <2>2. CASE Created(disk)
      <3>1. /\ disk.t.inodes.rows = original.t.inodes.rows
            /\ disk.t.dirents.rows = original.t.dirents.rows
            /\ disk.t.symlink_targets.rows = original.t.symlink_targets.rows
            /\ Chunks(disk) = Chunks(original)
          BY <2>1, <2>2, CreatedIs
      <3> QED
          BY <3>1 DEF ContentsKept
    <2>3. CASE Migrated(disk)
        BY <2>3 DEF Migrated, KeptChunks, ContentsKept
    <2> QED
        BY <2>1, <2>2, <2>3
  <1> QED
      BY <1>1, MigrationAlways, PTL

\* A failed migration leaves the database at its old version, with every table and
\* index it had and none added but the missing ones; a committed one has everything the current version has.
THEOREM VersionsStayWhole == Spec => []WholeVersions
  <1>1. MigrationInv => WholeVersions
    <2> SUFFICES ASSUME MigrationInv PROVE WholeVersions
        OBVIOUS
    <2>1. CASE Created(disk)
      <3>1. \A t \in Tables :
              \/ disk.t[t].layout = original.t[t].layout
              \/ original.t[t].layout = "none" /\ disk.t[t].layout = NewLayout[t]
        <4>1. \A t \in Tables : Table(NewLayout[t], {}).layout = NewLayout[t]
            BY DEF Table
        <4> QED
            BY <2>1, <4>1 DEF Created
      <3> QED
          BY <2>1, <3>1 DEF Created, WholeVersions
    <2>2. CASE Migrated(disk)
        BY <2>2 DEF Migrated, IsCurrent, WholeVersions
    <2> QED
        BY <2>1, <2>2 DEF MigrationInv, DbInv
  <1> QED
      BY <1>1, MigrationAlways, PTL

\* A database that Db::open returns is current, whole, has its root, and its
\* connection enforces foreign keys, whatever earlier starts left behind.
THEOREM OpenStaysCurrent == Spec => []OpenIsCurrent
  <1>1. MigrationInv => OpenIsCurrent
      BY DEF MigrationInv, DbInv, IsCurrent, OpenIsCurrent
  <1> QED
      BY <1>1, MigrationAlways, PTL

\* A time in the range of the nanoseconds comes back as it was set, any other as
\* the end of the range on its side; the upgrade moves none by a second or more.
THEOREM TimesStayKept == Spec => []TimesKept
  <1>1. MigrationInv => TimesKept
      BY TimeInvKeeps DEF MigrationInv
  <1> QED
      BY <1>1, MigrationAlways, PTL

------------------------------------------------------------------------------
(* What is refused *)

\* What decides between opening and refusing, before each statement.
UpgradeInv ==
  /\ original.version >= 1 => original.t.inodes.layout # "secs"
  /\ disk.version = SchemaVersion \/ pc \in {"version", "commit"} => Upgradable
  /\ pc = "nsec" => tx = disk
  /\ pc \in {"child", "dirents", "indexes", "times"} /\ SplitTimestamps =>
       tx.t.inodes.layout = "split"
  /\ pc = "refused" => ~Upgradable

\* A current database is upgradable; unversioned ones alone have only seconds.
LEMMA UpgradeInit == ASSUME Init PROVE UpgradeInv
  <1>1. disk \in Databases /\ original = disk /\ pc = "closed"
      BY DEF Init
  <1>2. ASSUME disk.version = SchemaVersion PROVE Upgradable
    <2>1. IsCurrent(disk)
        BY <1>1, <1>2, DatabasesWritten DEF Written
    <2>2. disk.t.file_chunks.layout = "key"
        BY <2>1, TablesAre DEF IsCurrent, NewLayout
    <2> QED
        BY <1>1, <1>2, <2>2 DEF Upgradable, SchemaVersion
  <1>3. disk.version >= 1 => disk.t.inodes.layout # "secs"
    <2> SUFFICES ASSUME disk.version >= 1 PROVE disk.t.inodes.layout # "secs"
        OBVIOUS
    <2>1. \A v, i, e, c, s, x : Db(v, i, e, c, s, x).version = v /\ Db(v, i, e, c, s, x).t.inodes = i
        BY DEF Db
    <2>2. \A l, r : Table(l, r).layout = l
        BY DEF Table
    <2>3. CASE disk = Fresh \/ disk \in Unversioned
        BY <2>1, <2>3 DEF Fresh, Unversioned
    <2>4. CASE disk \in {Current} \cup Newer
      <3>1. disk.t.inodes.layout = "ns"
          BY <2>1, <2>2, <2>4 DEF Current, Newer, AtVersion, Db
      <3> QED
          BY <3>1
    <2>5. ASSUME NEW v \in 0 .. 3, disk \in Old(v) PROVE disk.t.inodes.layout # "secs"
      <3>1. PICK l \in (IF v = 0 THEN {"secs", "split"} ELSE {"split"}), c \in ChunkSets :
              disk = Db(v, Table(l, Inos), Table(IF v < 3 THEN "pair" ELSE "id", {"name"}),
                        Table("pair", c), Table("table", {2}), OldIndexes(v))
          BY <2>5 DEF Old
      <3>2. disk.version = v /\ disk.t.inodes.layout = l
          BY <2>1, <2>2, <3>1
      <3> QED
          BY <3>2
    <2> QED
        BY <1>1, <2>3, <2>4, <2>5 DEF Databases
  <1> QED
      BY <1>1, <1>2, <1>3 DEF UpgradeInv

\* Nothing is written and no statement of the transaction follows.
LEMMA UpgradeQuiet ==
  ASSUME UpgradeInv, disk'.version = disk.version, original' = original,
         pc' \in {"closed", "create", "root", "open"}
  PROVE  UpgradeInv'
  BY DEF UpgradeInv, Upgradable, TooLarge

\* The chunks that the transaction finds are those of the original.
LEMMA FoundChunks ==
  ASSUME DbInv, pc = "chunks"
  PROVE  /\ original.version <= SchemaVersion
         /\ tx.t.file_chunks.layout = "pair" <=> original.t.file_chunks.layout = "pair"
         /\ tx.t.file_chunks.layout = "pair" => TooLarge(tx) = TooLarge(original)
  <1>1. Written(original) /\ TxInv
      BY DEF DbInv, InTransaction
  <1>2. Created(disk) /\ disk.version < SchemaVersion /\ tx.t.file_chunks = disk.t.file_chunks
      BY <1>1 DEF TxInv
  <1>3. disk.version \in Nat /\ disk.version = original.version
      BY <1>1, <1>2, CreatedIs DEF Created
  <1>4. \/ disk.t["file_chunks"] = original.t["file_chunks"]
        \/ original.t["file_chunks"].layout = "none" /\ disk.t["file_chunks"].layout = "key"
      BY <1>2, TablesAre DEF Created, Table, NewLayout
  <1> QED
      BY <1>2, <1>3, <1>4 DEF TooLarge, SchemaVersion

\* Each statement passes on what decides.
LEMMA UpgradeStepKeeps == ASSUME MigrationInv, UpgradeInv, [Next]_vars PROVE UpgradeInv'
  <1>0. DbInv
      BY DEF MigrationInv
  <1>1. CASE Open \/ Close \/ Fault
      BY <1>1, UpgradeQuiet DEF Open, Close, Fault
  <1>2. CASE Serve \/ UNCHANGED vars
    <2>1. UNCHANGED <<disk, tx, pc, original>>
        BY <1>2 DEF Serve, vars, db
    <2> QED
        BY <2>1 DEF UpgradeInv, Upgradable, TooLarge, SplitTimestamps
  <1>3. CASE CreateTable
    <2>1. disk'.version = disk.version /\ original' = original /\ pc' = "create"
        BY <1>0, <1>3 DEF CreateTable, DbInv, Created, Migrated, Shaped
    <2> QED
        BY <2>1, UpgradeQuiet
  <1>4. CASE CheckVersion
    <2>1. /\ disk' = disk /\ original' = original /\ tx' = disk
          /\ pc' = IF disk.version > SchemaVersion THEN "refused"
                   ELSE IF disk.version = SchemaVersion THEN "root" ELSE "nsec"
        BY <1>4 DEF CheckVersion
    <2>2. ASSUME pc' = "refused" PROVE ~Upgradable
      <3>1. disk.version > SchemaVersion
          BY <2>1, <2>2
      <3>2. Created(disk)
          BY <1>0, <3>1 DEF DbInv, Migrated, IsCurrent, SchemaVersion
      <3>3. original.version = disk.version /\ disk.version \in Nat
          BY <1>0, <3>2, CreatedIs DEF Created, DbInv
      <3> QED
          BY <3>1, <3>3 DEF Upgradable, SchemaVersion
    <2> QED
        BY <2>1, <2>2 DEF UpgradeInv, Upgradable, TooLarge
  <1>5. ASSUME NEW at \in InTransaction, NEW new, NEW next, Step(at, new, next)
        PROVE  /\ pc = at /\ pc' = next /\ tx' = new /\ disk' = disk /\ original' = original
               /\ SplitTimestamps' = SplitTimestamps /\ Upgradable' = Upgradable
               /\ TxInv /\ Shaped(tx)
      BY <1>0, <1>5 DEF Step, SplitTimestamps, Upgradable, TooLarge, DbInv, TxInv
  <1>6. CASE EnsureNsecColumns
    <2> DEFINE new == IF Version < 1 /\ SplitTimestamps THEN [tx EXCEPT !.t.inodes.layout = "split"]
                      ELSE tx
    <2>1. Step("nsec", new, "child")
        BY <1>6 DEF EnsureNsecColumns
    <2>2. /\ pc = "nsec" /\ pc' = "child" /\ tx' = new /\ disk' = disk /\ original' = original
          /\ SplitTimestamps' = SplitTimestamps /\ Upgradable' = Upgradable /\ TxInv /\ Shaped(tx)
      <3> HIDE DEF new
      <3> QED
          BY <1>5, <2>1 DEF InTransaction
    <2>3. ASSUME SplitTimestamps PROVE new.t.inodes.layout = "split"
      <3>1. CASE Version < 1
          BY <2>2, <2>3, <3>1, TablesAre DEF Shaped
      <3>2. CASE ~(Version < 1)
        <4>1. /\ Created(disk) /\ Written(original) /\ Missing = {}
              /\ disk.t.inodes.layout \in {"none", "secs", "split", "ns"} /\ disk.version \in Nat
            BY <1>0, <2>2, CreatedIs DEF TxInv, DbInv
        <4>2. original.version >= 1
            BY <3>2, <4>1 DEF Version, Created
        <4>3. disk.t["inodes"] = original.t["inodes"] \/ disk.t["inodes"].layout = "ns"
            BY <4>1, TablesAre DEF Created, Table, NewLayout
        <4>4. disk.t["inodes"].layout # "none"
            BY <4>1, TablesAre DEF Missing
        <4>5. disk.t.inodes.layout = "split"
            BY <2>3, <4>1, <4>2, <4>3, <4>4 DEF UpgradeInv, SplitTimestamps
        <4> QED
            BY <2>2, <3>2, <4>5 DEF UpgradeInv
      <3> QED
          BY <3>1, <3>2
    <2> HIDE DEF new
    <2> QED
        BY <2>2, <2>3 DEF UpgradeInv
  <1>7. ASSUME NEW at \in InTransaction, NEW new, NEW next,
               Step(at, new, next), at \in {"child", "dirents", "indexes"},
               next \in {"dirents", "indexes", "times"}, new.t.inodes = tx.t.inodes
        PROVE  UpgradeInv'
      BY <1>5, <1>7 DEF UpgradeInv
  <1>8. CASE ChildIndex
    <2> DEFINE new == IF Version < 2 THEN [tx EXCEPT !.indexes = @ \cup {"dirents_child"}] ELSE tx
    <2>1. Step("child", new, "dirents")
        BY <1>8 DEF ChildIndex
    <2>2. Shaped(tx)
      <3> HIDE DEF new
      <3> QED
          BY <1>5, <2>1 DEF InTransaction
    <2>3. new.t.inodes = tx.t.inodes
        BY <2>2 DEF Shaped
    <2> HIDE DEF new
    <2> QED
        BY <1>7, <2>1, <2>3 DEF InTransaction
  <1>9. CASE StableIds
    <2> DEFINE k == [Dropped(tx, "dirents") EXCEPT !.t.dirents = Table("id", tx.t.dirents.rows)]
               new == IF Version < 3 /\ tx.t.dirents.layout # "id" THEN k ELSE tx
    <2>1. Step("dirents", new, "indexes")
        BY <1>9 DEF StableIds
    <2>2. Shaped(tx)
      <3> HIDE DEF new
      <3> QED
          BY <1>5, <2>1 DEF InTransaction
    <2>3. Dropped(tx, "dirents") = [tx EXCEPT !.indexes = {}, !.t = tx.t]
        BY DEF Dropped
    <2>4. k.t.inodes = tx.t.inodes
        BY <2>2, <2>3, TablesAre DEF Shaped, Table
    <2> HIDE DEF k
    <2>5. new.t.inodes = tx.t.inodes
        BY <2>4
    <2> HIDE DEF new
    <2> QED
        BY <1>7, <2>1, <2>5 DEF InTransaction
  <1>10. CASE DirentIndexes
    <2> DEFINE new == IF Version < 3 THEN [tx EXCEPT !.indexes = Indexes] ELSE tx
    <2>1. Step("indexes", new, "times")
        BY <1>10 DEF DirentIndexes
    <2>2. Shaped(tx)
      <3> HIDE DEF new
      <3> QED
          BY <1>5, <2>1 DEF InTransaction
    <2>3. new.t.inodes = tx.t.inodes
        BY <2>2 DEF Shaped
    <2> HIDE DEF new
    <2> QED
        BY <1>7, <2>1, <2>3 DEF InTransaction
  <1>11. CASE MergeTimestampColumns
    <2>1. pc = "times" /\ (SplitTimestamps => tx.t.inodes.layout = "split")
        BY <1>11 DEF MergeTimestampColumns, Step, Stop, UpgradeInv
    <2>2. \E new : Step("times", new, "chunks")
        BY <1>11, <2>1 DEF MergeTimestampColumns
    <2>3. PICK new : Step("times", new, "chunks")
        BY <2>2
    <2>4. pc' = "chunks" /\ disk' = disk /\ original' = original /\ Upgradable' = Upgradable
        BY <1>5, <2>3 DEF InTransaction
    <2> QED
        BY <2>4 DEF UpgradeInv
  <1>12. CASE RekeyFileChunks
    <2>1. pc = "chunks"
        BY <1>12 DEF RekeyFileChunks, Step, Stop
    <2>2. disk.version \in Nat /\ disk.version < SchemaVersion
        BY <1>0, <2>1, CreatedIs DEF DbInv, TxInv, InTransaction
    <2>3. CASE tx.t.file_chunks.layout = "pair" /\ TooLarge(tx) # {}
      <3>1. Stop("chunks")
          BY <1>12, <2>2, <2>3 DEF RekeyFileChunks, Version, SchemaVersion
      <3>2. ~Upgradable
          BY <1>0, <2>1, <2>3, FoundChunks DEF Upgradable
      <3> QED
          BY <3>1, <3>2 DEF Stop, UpgradeInv, Upgradable, TooLarge
    <2>4. CASE ~(tx.t.file_chunks.layout = "pair" /\ TooLarge(tx) # {})
      <3>1. \E new : Step("chunks", new, "version")
          BY <1>12, <2>4 DEF RekeyFileChunks
      <3>2. PICK new : Step("chunks", new, "version")
          BY <3>1
      <3>3. pc' = "version" /\ disk' = disk /\ original' = original /\ Upgradable' = Upgradable
          BY <1>5, <3>2 DEF InTransaction
      <3>4. Upgradable
          BY <1>0, <2>1, <2>4, FoundChunks DEF Upgradable
      <3> QED
          BY <3>3, <3>4 DEF UpgradeInv
    <2> QED
        BY <2>3, <2>4
  <1>13. CASE SetVersion
    <2>1. PICK new : Step("version", new, "commit")
        BY <1>13 DEF SetVersion
    <2>2. /\ pc = "version" /\ pc' = "commit" /\ disk' = disk /\ original' = original
          /\ Upgradable' = Upgradable
        BY <1>5, <2>1 DEF InTransaction
    <2> QED
        BY <2>2 DEF UpgradeInv
  <1>14. CASE Commit
    <2>1. pc = "commit" /\ pc' = "root" /\ original' = original
        BY <1>14 DEF Commit
    <2>2. Upgradable /\ Upgradable' = Upgradable
        BY <2>1 DEF UpgradeInv, Upgradable, TooLarge
    <2> QED
        BY <2>1, <2>2 DEF UpgradeInv
  <1>15. CASE InsertRoot
    <2>1. disk'.version = disk.version /\ original' = original /\ pc' = "open"
        BY <1>0, <1>15 DEF InsertRoot, DbInv, Created, Migrated, Shaped
    <2> QED
        BY <2>1, UpgradeQuiet
  <1> QED
      BY <1>1, <1>2, <1>3, <1>4, <1>6, <1>8, <1>9, <1>10, <1>11, <1>12, <1>13, <1>14, <1>15
         DEF Next, Initialize, MigrateSteps

\* Db::open refuses newer databases and those with a chunk past the limit of a key,
\* and no other, whatever version wrote them and however many starts were cut short.
THEOREM RefusalsHaveCause == Spec => []RefusedForCause
  <1>1. Init => UpgradeInv
      BY UpgradeInit
  <1>2. MigrationInv /\ UpgradeInv /\ [Next]_vars => UpgradeInv'
      BY UpgradeStepKeeps
  <1>3. MigrationInv /\ UpgradeInv => RefusedForCause
      BY DEF MigrationInv, DbInv, IsCurrent, UpgradeInv, RefusedForCause
  <1> QED
      BY <1>1, <1>2, <1>3, MigrationAlways, PTL DEF Spec
==============================================================================
