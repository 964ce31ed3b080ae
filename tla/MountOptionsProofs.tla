-------------------------- MODULE MountOptionsProofs --------------------------
(***************************************************************************)
(* A mount has the options that were asked for, none twice, and the memory *)
(* that was asked for, whatever is typed in whatever order: proofs about   *)
(* MountOptions, for any labels, any number of tokens and any sizes.       *)
(***************************************************************************)
EXTENDS MountOptions, WellFoundedInduction, TLAPS

Names == {"fsname", "subtype"}

------------------------------------------------------------------------------
(* What the fold over the tokens of -o returns *)

\* o is the last token of its name among the first k of s.
LastOf(s, k, o) ==
  \E j \in 1 .. k : s[j] = o /\ \A l \in 1 .. k : j < l => s[l].name # o.name

\* o is in the list once the flags f and the first k tokens of s are taken.
Present(f, s, k, o) ==
  IF o.name \in Names
  THEN \/ LastOf(s, k, o)
       \/ o = DbfsName /\ \A l \in 1 .. k : s[l].name # o.name
  ELSE o = Opt("default_permissions") \/ o.name \in f \/ \E j \in 1 .. k : s[j] = o

Listed(f, s, k) == [o \in Option |-> IF Present(f, s, k, o) THEN 1 ELSE 0]

\* Options are records of a name and a value; only names have values.
LEMMA OptionIs ==
  /\ Tokens \subseteq Option /\ DbfsName \in Option
  /\ \A n \in Flags : Opt(n) \in Option /\ n \notin Names
  /\ Opt("default_permissions") \in Option
  /\ \A o \in Option : o.name \notin Names => o = Opt(o.name)
  /\ DbfsName.name = "fsname" /\ DbfsName # Opt("default_permissions")
  /\ \A n : Opt(n).name = n
  <1>1. Tokens \subseteq Option /\ DbfsName \in Option
      BY DEF Option
  <1>2. \A n \in Flags : Opt(n) \in Option /\ n \notin Names
      BY DEF Option, Tokens, Flags, Names
  <1>3. Opt("default_permissions") \in Option
      BY DEF Option, Tokens
  <1>4. /\ DbfsName.name = "fsname" /\ DbfsName # Opt("default_permissions")
        /\ \A n : Opt(n).name = n
      BY DEF DbfsName, Opt
  <1>5. ASSUME NEW o \in Option, o.name \notin Names PROVE o = Opt(o.name)
    <2>1. o # DbfsName
        BY <1>4, <1>5 DEF Names
    <2>2. ASSUME NEW n, NEW e \in Valued(n) PROVE e.name = n
      <3>1. PICK v \in Label \cup {""} : e = [name |-> n, value |-> v]
          BY Zenon DEF Valued
      <3> QED
          BY <3>1
    <2>3. o \notin Valued("fsname") /\ o \notin Valued("subtype")
        BY <1>5, <2>2 DEF Names
    <2>4. \E n : o = Opt(n)
        BY <2>1, <2>3 DEF Option, Tokens
    <2> QED
        BY <1>4, <2>4
  <1> QED
      BY <1>1, <1>2, <1>3, <1>4, <1>5

\* The list before any token of -o.
LEMMA FlagsListed ==
  ASSUME NEW s, flags \in SUBSET Flags
  PROVE  WithFlags = Listed(flags, s, 0)
  <1> DEFINE P(f, o) == IF Present(f, s, 0, o) THEN 1 ELSE 0
  <1>1. \A f : Listed(f, s, 0) = [o \in Option |-> P(f, o)]
      BY DEF Listed
  <1>2. \A f, o : Present(f, s, 0, o) <=> IF o.name \in Names THEN o = DbfsName
                                          ELSE o = Opt("default_permissions") \/ o.name \in f
    <2>1. \A j : j \notin 1 .. 0
        OBVIOUS
    <2> QED
        BY <2>1 DEF Present, LastOf
  <1>3. MountOptionsDefault = [o \in Option |-> IF o = DbfsName \/ o = Opt("default_permissions") THEN 1 ELSE 0]
      BY OptionIs DEF MountOptionsDefault, Push, NoOptions
  <1>4. MountOptionsDefault = Listed({}, s, 0)
    <2>1. \A o \in Option : P({}, o) = IF o = DbfsName \/ o = Opt("default_permissions") THEN 1 ELSE 0
        BY <1>2, OptionIs DEF Names
    <2> QED
        BY <1>1, <1>3, <2>1
  <1>5. ASSUME NEW f \in SUBSET Flags, NEW n \in Flags \ f
        PROVE  WithFlag(Listed(f, s, 0), n) = Listed(f \cup (flags \cap {n}), s, 0)
    <2>1. CASE n \notin flags
      <3>1. f \cup (flags \cap {n}) = f
          BY <2>1
      <3> QED
          BY <2>1, <3>1 DEF WithFlag
    <2>2. CASE n \in flags
      <3>1. f \cup (flags \cap {n}) = f \cup {n}
          BY <2>2
      <3>2. Opt(n) \in Option /\ n \notin Names /\ Opt(n).name = n /\ n # "default_permissions"
          BY OptionIs DEF Flags
      <3>3. Opt(n) # Opt("default_permissions")
          BY <3>2, OptionIs
      <3>4. Listed(f, s, 0)[Opt(n)] = 0
          BY <1>2, <3>2, <3>3 DEF Listed
      <3>5. WithFlag(Listed(f, s, 0), n) = [Listed(f, s, 0) EXCEPT ![Opt(n)] = 1]
          BY <2>2, <3>2, <3>4 DEF WithFlag, WithOption, Push, Has, Names
      <3>6. \A o \in Option : P(f \cup {n}, o) = IF o = Opt(n) THEN 1 ELSE P(f, o)
          BY <1>2, <3>2, OptionIs
      <3> QED
          BY <1>1, <3>1, <3>2, <3>5, <3>6
    <2> QED
        BY <2>1, <2>2
  <1> DEFINE f1 == {} \cup (flags \cap {"allow_other"})
             f2 == f1 \cup (flags \cap {"allow_root"})
             f3 == f2 \cup (flags \cap {"auto_unmount"})
  <1>6. f1 \subseteq Flags /\ f2 \subseteq Flags /\ f3 = flags
      BY DEF Flags
  <1>7. "allow_other" \in Flags \ {} /\ "allow_root" \in Flags \ f1 /\ "auto_unmount" \in Flags \ f2
      BY DEF Flags
  <1> HIDE DEF f1, f2, f3
  <1>8. WithFlag(MountOptionsDefault, "allow_other") = Listed(f1, s, 0)
      BY <1>4, <1>5, <1>7 DEF f1
  <1>9. WithFlag(Listed(f1, s, 0), "allow_root") = Listed(f2, s, 0)
      BY <1>5, <1>6, <1>7 DEF f2
  <1>10. WithFlag(Listed(f2, s, 0), "auto_unmount") = Listed(f3, s, 0)
      BY <1>5, <1>6, <1>7 DEF f3
  <1> QED
      BY <1>6, <1>8, <1>9, <1>10 DEF WithFlags

\* One more token.
LEMMA TokenListed ==
  ASSUME NEW f \in SUBSET Flags, NEW s \in Seq(Tokens), NEW k \in 1 .. Len(s)
  PROVE  Listed(f, s, k) = WithOption(Listed(f, s, k - 1), s[k])
  <1> DEFINE t == s[k]
             old == Listed(f, s, k - 1)
  <1>1. t \in Tokens /\ t \in Option
      BY OptionIs
  <1>2. k \in Nat /\ k \in 1 .. k /\ \A j : j \in 1 .. k <=> j = k \/ j \in 1 .. (k - 1)
      OBVIOUS
  <1>3. \A j \in 1 .. (k - 1) : j < k /\ ~(k < j)
      OBVIOUS
  <1>4. CASE t.name \in Names
    <2>1. \A o \in Option : o.name # t.name => (Present(f, s, k, o) <=> Present(f, s, k - 1, o))
      <3> SUFFICES ASSUME NEW o \in Option, o.name # t.name
                   PROVE  Present(f, s, k, o) <=> Present(f, s, k - 1, o)
          OBVIOUS
      <3>1. s[k] # o
          OBVIOUS
      <3>2. LastOf(s, k, o) <=> LastOf(s, k - 1, o)
          BY <1>2, <1>3, <3>1 DEF LastOf
      <3> QED
          BY <1>2, <3>1, <3>2 DEF Present
    <2>2. \A o \in Option : o.name = t.name => (Present(f, s, k, o) <=> o = t)
      <3> SUFFICES ASSUME NEW o \in Option, o.name = t.name
                   PROVE  Present(f, s, k, o) <=> o = t
          OBVIOUS
      <3>1. LastOf(s, k, o) <=> o = t
          BY <1>2, <1>3 DEF LastOf
      <3> QED
          BY <1>2, <1>4, <3>1 DEF Present
    <2>3. WithOption(old, t) = [o \in Option |-> IF o = t THEN 1 ELSE IF o.name = t.name THEN 0 ELSE old[o]]
      <3> DEFINE kept == [e \in Option |-> IF e.name = t.name THEN 0 ELSE old[e]]
      <3>1. WithOption(old, t) = [kept EXCEPT ![t] = kept[t] + 1]
        <4> HIDE DEF t, old
        <4> QED
            BY <1>4 DEF WithOption, Push, Names
      <3>2. kept[t] = 0
          BY <1>1
      <3>3. WithOption(old, t) = [kept EXCEPT ![t] = 1]
        <4> HIDE DEF kept, t, old
        <4>1. kept[t] + 1 = 1
            BY <3>2
        <4> QED
            BY <3>1, <4>1
      <3> HIDE DEF t, old
      <3> QED
          BY <1>1, <3>3
    <2> QED
        BY <1>1, <2>1, <2>2, <2>3 DEF Listed
  <1>5. CASE t.name \notin Names
    <2>1. \A o \in Option : Present(f, s, k, o) <=> Present(f, s, k - 1, o) \/ o = t
      <3> SUFFICES ASSUME NEW o \in Option
                   PROVE  Present(f, s, k, o) <=> Present(f, s, k - 1, o) \/ o = t
          OBVIOUS
      <3>1. CASE o.name \in Names
        <4>1. o.name # t.name
            BY <1>5, <3>1
        <4>2. LastOf(s, k, o) <=> LastOf(s, k - 1, o)
            BY <1>2, <1>3, <4>1 DEF LastOf
        <4> QED
            BY <1>2, <3>1, <4>1, <4>2 DEF Present
      <3>2. CASE o.name \notin Names
          BY <1>2, <3>2 DEF Present
      <3> QED
          BY <3>1, <3>2
    <2>2. WithOption(old, t) = IF Present(f, s, k - 1, t) THEN old ELSE [old EXCEPT ![t] = 1]
      <3>1. old[t] = IF Present(f, s, k - 1, t) THEN 1 ELSE 0
          BY <1>1 DEF Listed
      <3>2. WithOption(old, t) = IF old[t] > 0 THEN old ELSE [old EXCEPT ![t] = old[t] + 1]
        <4> HIDE DEF t, old
        <4> QED
            BY <1>5 DEF WithOption, Push, Names, Has
      <3> HIDE DEF t, old
      <3>3. CASE Present(f, s, k - 1, t)
          BY <3>1, <3>2, <3>3
      <3>4. CASE ~Present(f, s, k - 1, t)
        <4>1. old[t] + 1 = 1 /\ ~(old[t] > 0)
            BY <3>1, <3>4
        <4> QED
            BY <3>2, <3>4, <4>1
      <3> QED
          BY <3>3, <3>4
    <2> QED
        BY <1>1, <2>1, <2>2 DEF Listed
  <1> QED
      BY <1>4, <1>5

\* A set of naturals has a least element.
LEMMA LeastOf ==
  ASSUME NEW T \in SUBSET Nat, T # {}
  PROVE  \E m \in T : \A n \in T : m <= n
  <1>1. PICK m \in T : \A n \in T : ~(<<n, m>> \in OpToRel(<, Nat))
      BY NatLessThanWellFounded, WFMin
  <1>2. ASSUME NEW n \in T PROVE m <= n
    <2>1. ~(n < m)
        BY <1>1 DEF OpToRel
    <2> QED
        BY <2>1
  <1> QED
      BY <1>2

\* A set of indexes has a greatest one, and Max is it.
LEMMA GreatestOf ==
  ASSUME NEW n \in Nat, NEW T \in SUBSET (1 .. n), T # {}
  PROVE  Max(T) \in T /\ \A j \in T : j <= Max(T)
  <1> DEFINE U == {n - j : j \in T}
  <1>0. \A j \in T : j \in Int /\ n - j \in Nat
      OBVIOUS
  <1>1. U \subseteq Nat /\ U # {}
      BY <1>0
  <1>2. PICK m \in U : \A u \in U : m <= u
    <2> HIDE DEF U
    <2> QED
        BY <1>1, LeastOf
  <1>3. PICK x \in T : m = n - x
      OBVIOUS
  <1>4. \A j \in T : m <= n - j
      BY <1>2
  <1>5. \A j \in T : x >= j
      BY <1>0, <1>3, <1>4
  <1>6. Max(T) \in T /\ \A j \in T : Max(T) >= j
      BY <1>5 DEF Max
  <1> QED
      BY <1>6

\* The fold satisfies its equation, and the equation determines it: the list after
\* all tokens.
LEMMA FoldIs ==
  ASSUME flags \in SUBSET Flags, extra \in Seq(Tokens)
  PROVE  AllOptions = Listed(flags, extra, Len(extra))
  <1> DEFINE n == Len(extra)
             L(k) == Listed(flags, extra, k)
             Step(k, g) == IF k = 0 THEN WithFlags ELSE WithOption(g[k - 1], extra[k])
             Folds(g) == g = [k \in 0 .. n |-> Step(k, g)]
             all == [k \in 0 .. n |-> L(k)]
             upto == CHOOSE g : Folds(g)
  <1>1. n \in Nat
      OBVIOUS
  <1>2. L(0) = WithFlags
      BY FlagsListed
  <1>3. \A k \in 1 .. n : L(k) = WithOption(L(k - 1), extra[k])
      BY TokenListed
  <1>4. AllOptions = upto[n]
      BY DEF AllOptions
  <1> HIDE DEF n, L
  <1>5. Folds(all)
    <2>1. ASSUME NEW k \in 0 .. n PROVE L(k) = Step(k, all)
      <3>1. CASE k = 0
          BY <1>2, <3>1
      <3>2. CASE k # 0
        <4>1. k \in 1 .. n /\ k - 1 \in 0 .. n
            BY <1>1, <3>2
        <4> QED
            BY <1>3, <3>2, <4>1
      <3> QED
          BY <3>1, <3>2
    <2> HIDE DEF Step
    <2> QED
        BY <2>1
  <1>6. ASSUME NEW g, Folds(g) PROVE g[n] = L(n)
    <2>1. \A k \in 0 .. n : g[k] = Step(k, g)
      <3> HIDE DEF Step
      <3> QED
          BY <1>6
    <2> DEFINE T == {k \in 0 .. n : g[k] # L(k)}
    <2>2. CASE T = {}
        BY <1>1, <2>2
    <2>3. CASE T # {}
      <3>1. T \subseteq Nat
          BY <1>1
      <3>2. PICK m \in T : \A k \in T : m <= k
        <4> HIDE DEF T
        <4> QED
            BY <2>3, <3>1, LeastOf
      <3>3. m \in 0 .. n /\ g[m] # L(m)
          OBVIOUS
      <3>4. CASE m = 0
          BY <1>2, <2>1, <3>3, <3>4
      <3>5. CASE m # 0
        <4>1. m \in 1 .. n /\ m - 1 \in 0 .. n /\ ~(m <= m - 1)
            BY <1>1, <3>3, <3>5
        <4>2. g[m - 1] = L(m - 1)
            BY <3>2, <4>1
        <4> QED
            BY <1>3, <2>1, <3>3, <3>5, <4>1, <4>2
      <3> QED
          BY <3>4, <3>5
    <2> QED
        BY <2>2, <2>3
  <1> HIDE DEF Folds, all
  <1>7. Folds(upto)
      BY <1>5
  <1> HIDE DEF upto
  <1> QED
      BY <1>4, <1>6, <1>7 DEF n, L

------------------------------------------------------------------------------
(* The inductive invariant *)

SizeShape == [digits : 0 .. MaxDigits, shift : 0 .. 3] \cup {[digits |-> 0, shift |-> -1]}

\* The command line passes mount_options_for.
Valid == ~Conflict(AllOptions) /\ \A k \in DOMAIN extra : ~BadToken(extra[k])

\* Each stage keeps what the ones before it established.
CommandInv ==
  /\ flags \in SUBSET Flags /\ extra \in Seq(Tokens) /\ size \in SizeShape
  /\ stage = "typing" => db = "untouched" /\ slots = 0
  /\ stage \in {"parsed", "validated", "opened", "mounted"} => size.shift < 0 \/ Bytes(size) # 0
  /\ stage \in {"validated", "opened", "mounted"} => options = AllOptions /\ Valid
  /\ db = "opened" => Valid
  /\ BudgetAsAsked

\* The command line is the same: so are the options it asks for.
LEMMA SameLine ==
  ASSUME UNCHANGED <<flags, extra>>
  PROVE  AllOptions' = AllOptions /\ Valid' = Valid
  <1>1. AllOptions' = AllOptions
      BY DEF AllOptions, WithFlags, WithFlag
  <1> QED
      BY <1>1 DEF Valid, Conflict, Has

\* Whole chunks in a budget of at least one.
LEMMA WholeChunks ==
  ASSUME NEW b \in Nat, b >= ChunkSize
  PROVE  LET n == Max({b \div ChunkSize, 1})
         IN  n * ChunkSize <= b /\ b < (n + 1) * ChunkSize
  <1>1. ChunkSize \in Nat /\ ChunkSize > 0
      BY MountOptionsAssumption
  <1> DEFINE q == b \div ChunkSize
             r == b % ChunkSize
  <1>2. q \in Nat /\ r \in Nat /\ r < ChunkSize /\ b = ChunkSize * q + r
      BY <1>1
  <1> HIDE DEF q, r
  <1>3. q >= 1
      BY <1>1, <1>2
  <1>4. Max({q, 1}) = q
      BY <1>2, <1>3 DEF Max
  <1>5. q * ChunkSize <= b /\ b < (q + 1) * ChunkSize
      BY <1>1, <1>2
  <1> QED
      BY <1>4, <1>5 DEF q

LEMMA BytesIs ==
  ASSUME NEW s \in SizeShape, s.shift >= 0, Bytes(s) # 0
  PROVE  /\ Bytes(s) = s.digits * Power(s.shift)
         /\ Bytes(s) \in Nat /\ Bytes(s) >= ChunkSize
  <1>1. s.digits \in Nat /\ s.shift \in 0 .. 3
      BY MountOptionsAssumption DEF SizeShape
  <1>2. Power(s.shift) \in Nat
      BY <1>1, MountOptionsAssumption DEF Power
  <1>3. PICK b \in Nat : b = s.digits * Power(s.shift)
      BY <1>1, <1>2
  <1> QED
      BY <1>3, MountOptionsAssumption DEF Bytes

LEMMA CommandInit == Init => CommandInv
  BY DEF Init, CommandInv, SizeShape, BudgetAsAsked

LEMMA CommandStep == CommandInv /\ [Next]_vars => CommandInv'
  <1> SUFFICES ASSUME CommandInv, [Next]_vars PROVE CommandInv'
      OBVIOUS
  <1>1. ASSUME NEW token \in Tokens, Type(token) PROVE CommandInv'
    <2>1. extra' \in Seq(Tokens)
        BY <1>1 DEF Type, CommandInv
    <2> QED
        BY <1>1, <2>1 DEF Type, CommandInv, BudgetAsAsked
  <1>2. CASE Parse
    <2>1. /\ UNCHANGED <<flags, extra, size, options, slots, db>>
          /\ stage = "typing"
          /\ stage' \in {"refused", "parsed"}
          /\ stage' = "parsed" => ~(size.shift >= 0) \/ Bytes(size) # 0
        BY <1>2 DEF Parse
    <2>2. size.shift \in Int
        BY DEF CommandInv, SizeShape
    <2>3. stage' = "parsed" => size.shift < 0 \/ Bytes(size) # 0
        BY <2>1, <2>2
    <2> QED
        BY <2>1, <2>3, SameLine DEF CommandInv, BudgetAsAsked
  <1>3. CASE Validate
      BY <1>3, SameLine DEF Validate, CommandInv, BudgetAsAsked, Valid
  <1>4. CASE OpenDb
    <2>1. BudgetAsAsked'
      <3> DEFINE budget == IF size.shift < 0 THEN DefaultBuffer ELSE Bytes(size)
      <3>1. slots' = Max({budget \div ChunkSize, 1}) /\ size' = size
          BY <1>4 DEF OpenDb
      <3>2. size \in SizeShape /\ (size.shift < 0 \/ Bytes(size) # 0)
          BY <1>4 DEF OpenDb, CommandInv
      <3>3. size.shift \in Int
          BY <3>2 DEF SizeShape
      <3>4. /\ budget \in Nat /\ budget >= ChunkSize
            /\ budget = IF size.shift < 0 THEN DefaultBuffer ELSE size.digits * Power(size.shift)
          BY <3>2, <3>3, BytesIs, MountOptionsAssumption
      <3> HIDE DEF budget
      <3>5. slots' * ChunkSize <= budget /\ budget < (slots' + 1) * ChunkSize
          BY <3>1, <3>4, WholeChunks
      <3> QED
          BY <3>1, <3>4, <3>5 DEF BudgetAsAsked
    <2> QED
        BY <1>4, <2>1, SameLine DEF OpenDb, CommandInv
  <1>5. CASE Mount
      BY <1>5, SameLine DEF Mount, CommandInv, BudgetAsAsked
  <1>6. CASE UNCHANGED vars
      BY <1>6, SameLine DEF vars, CommandInv, BudgetAsAsked
  <1> QED
      BY <1>1, <1>2, <1>3, <1>4, <1>5, <1>6 DEF Next

LEMMA CommandAlways == Spec => []CommandInv
  BY CommandInit, CommandStep, PTL DEF Spec

------------------------------------------------------------------------------
(* The theorems *)

\* The arena gets as many whole chunks as the memory asked for holds, and at least
\* one (parse_size, ChunkArena::new), for any chunk size and any number typed.
THEOREM BudgetSafe == Spec => []BudgetAsAsked
  <1>1. CommandInv => BudgetAsAsked
      BY DEF CommandInv
  <1> QED
      BY <1>1, CommandAlways, PTL

\* The last token of a name is the one at the greatest index.
LEMMA LastGiven ==
  ASSUME NEW name \in Names, flags \in SUBSET Flags, extra \in Seq(Tokens)
  PROVE  {o \in Option : o.name = name /\ Present(flags, extra, Len(extra), o)} = Named(name)
  <1> DEFINE n == Len(extra)
             given == {k \in DOMAIN extra : extra[k].name = name}
             S == {o \in Option : o.name = name /\ Present(flags, extra, n, o)}
  <1>1. n \in Nat /\ DOMAIN extra = 1 .. n /\ \A k \in 1 .. n : extra[k] \in Option
      BY OptionIs
  <1> HIDE DEF n
  <1>2. CASE given # {}
    <2> DEFINE m == Max(given)
    <2>1. given \in SUBSET (1 .. n)
        BY <1>1
    <2>2. m \in given /\ \A j \in given : j <= m
      <3> HIDE DEF given
      <3> QED
          BY <1>1, <1>2, <2>1, GreatestOf
    <2> HIDE DEF m
    <2>3. m \in 1 .. n /\ extra[m].name = name /\ extra[m] \in Option
        BY <1>1, <2>2
    <2>4. \A l \in 1 .. n : m < l => extra[l].name # name
        BY <1>1, <2>2, <2>3
    <2>5. ASSUME NEW o \in Option, o.name = name PROVE LastOf(extra, n, o) <=> o = extra[m]
      <3>1. LastOf(extra, n, extra[m])
          BY <2>3, <2>4 DEF LastOf
      <3>2. ASSUME LastOf(extra, n, o) PROVE o = extra[m]
        <4>1. PICK j \in 1 .. n : extra[j] = o /\ \A l \in 1 .. n : j < l => extra[l].name # o.name
            BY <3>2 DEF LastOf
        <4>2. j \in given
            BY <1>1, <2>5, <4>1
        <4>3. j <= m /\ ~(j < m)
            BY <2>2, <2>3, <2>5, <4>1, <4>2
        <4>4. j = m
            BY <2>3, <4>3
        <4> QED
            BY <4>1, <4>4
      <3> QED
          BY <3>1, <3>2
    <2>6. \A o \in Option : o.name = name => (Present(flags, extra, n, o) <=> o = extra[m])
        BY <2>3, <2>5 DEF Present
    <2>7. S = {extra[m]}
        BY <2>3, <2>6
    <2>8. Named(name) = {extra[m]}
        BY <1>2 DEF Named, m
    <2> QED
        BY <2>7, <2>8 DEF n
  <1>3. CASE given = {}
    <2>1. \A k \in 1 .. n : extra[k].name # name
        BY <1>1, <1>3
    <2>2. \A o \in Option : o.name = name => (Present(flags, extra, n, o) <=> o = DbfsName)
        BY <2>1 DEF Present, LastOf
    <2>3. S = IF name = "fsname" THEN {DbfsName} ELSE {}
        BY <2>2, OptionIs
    <2>4. Named(name) = IF name = "fsname" THEN {DbfsName} ELSE {}
        BY <1>3 DEF Named
    <2> QED
        BY <2>3, <2>4 DEF n
  <1> QED
      BY <1>2, <1>3

\* Whatever is typed in whatever order, a mount has the options asked for and no
\* other, keeps default_permissions, and only a valid command line opens the
\* database (mount_options_for, run_with_mounter).
THEOREM OptionsSafe == Spec => []OptionsAsAsked
  <1>1. ASSUME CommandInv PROVE OptionsAsAsked
    <2>1. ValidBeforeOpen
        BY <1>1 DEF CommandInv, Valid, ValidBeforeOpen
    <2>2. ASSUME stage = "mounted"
          PROVE  /\ \A o \in Option : options[o] = IF Present(flags, extra, Len(extra), o) THEN 1 ELSE 0
                 /\ ~Conflict(options) /\ flags \in SUBSET Flags /\ extra \in Seq(Tokens)
      <3>1. options = AllOptions /\ Valid /\ flags \in SUBSET Flags /\ extra \in Seq(Tokens)
          BY <1>1, <2>2 DEF CommandInv
      <3> QED
          BY <3>1, FoldIs DEF Listed, Valid
    <2>3. stage = "mounted" =>
            \A o \in Option : Has(options, o) <=> Present(flags, extra, Len(extra), o)
        BY <2>2 DEF Has
    <2>4. \A o : o.name \notin Names =>
            (Present(flags, extra, Len(extra), o)
             <=> o = Opt("default_permissions") \/ o.name \in flags \/ \E j \in 1 .. Len(extra) : extra[j] = o)
        BY DEF Present
    <2>5. PermissionsChecked
        BY <2>3, <2>4, OptionIs DEF PermissionsChecked, Names
    <2>6. AccessAsAsked
      <3> SUFFICES ASSUME stage = "mounted" PROVE AccessAsAsked
          BY DEF AccessAsAsked
      <3>1. ASSUME NEW n \in Flags PROVE Has(options, Opt(n)) <=> Asked(Opt(n))
        <4>1. Opt(n) \in Option /\ Opt(n).name \notin Names /\ Opt(n) # Opt("default_permissions")
              /\ DOMAIN extra = 1 .. Len(extra)
            BY <2>2, OptionIs DEF Flags
        <4> QED
            BY <2>3, <2>4, <4>1 DEF Asked
      <3> QED
          BY <2>2, <3>1 DEF AccessAsAsked, Conflict
    <2>7. TokensAsGiven
      <3> SUFFICES ASSUME stage = "mounted" PROVE TokensAsGiven
          BY DEF TokensAsGiven
      <3>1. ASSUME NEW name \in Names
            PROVE  {o \in Option : o.name = name /\ Has(options, o)} = Named(name)
          BY <2>2, <2>3, LastGiven
      <3>2. ASSUME NEW k \in DOMAIN extra, extra[k].name \notin Names PROVE Has(options, extra[k])
        <4>1. extra[k] \in Option /\ k \in 1 .. Len(extra)
            BY <2>2, OptionIs
        <4> QED
            BY <2>3, <2>4, <3>2, <4>1
      <3>3. \A o \in Option : options[o] <= 1
          BY <2>2
      <3> QED
          BY <3>1, <3>2, <3>3 DEF TokensAsGiven, Names
    <2> QED
        BY <2>1, <2>5, <2>6, <2>7 DEF OptionsAsAsked
  <1> QED
      BY <1>1, CommandAlways, PTL
==============================================================================
