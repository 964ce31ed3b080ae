--------------------------- MODULE NamespaceProofs ---------------------------
(***************************************************************************)
(* The directories stay one tree, links stay counted and entries stay      *)
(* sound through every sequence of requests, crashes and startups, and a   *)
(* listing misses nothing and repeats nothing, whatever requests come      *)
(* between its own: proofs about Namespace and Readdir, for any names,     *)
(* inode numbers and dirent ids.                                           *)
(***************************************************************************)
EXTENDS Readdir, FiniteSetTheorems, WellFoundedInduction, TLAPS

------------------------------------------------------------------------------
(* The inductive invariant, of a database d *)

IntRow  == [kind : Kind, nlink : Int]
RowMap  == UNION {[D -> IntRow] : D \in SUBSET Ino}
Entry   == [id : 1 .. MaxId, parent : Ino, name : Name, child : Ino]
DbShape == [inodes : RowMap, dirents : SUBSET Entry, targets : SUBSET Ino]

DirsOf(d)      == {i \in DOMAIN d.inodes : d.inodes[i].kind = "dir"}
Subdirs(d, p)  == {e \in d.dirents : e.parent = p /\ e.child \in DirsOf(d)}
NamesFor(d, i) == {e \in d.dirents : e.child = i}

\* Entries are in directories and lead to inodes, never to the root.
Placed(d) ==
  \A e \in d.dirents : e.parent \in DirsOf(d) /\ e.child \in DOMAIN d.inodes /\ e.child # Root

\* Entries differ in id and place, and no directory has two.
Distinct(d) ==
  \A e, f \in d.dirents :
    \/ e.id = f.id
    \/ e.parent = f.parent /\ e.name = f.name
    \/ e.child = f.child /\ e.child \in DirsOf(d)
    => e = f

\* No set of directories without the root is closed upwards.
Rooted(d) ==
  \A S \in SUBSET (DirsOf(d) \ {Root}) :
    S # {} => \E e \in d.dirents : e.child \in S /\ e.parent \notin S

Targeted(d) == d.targets = {i \in DOMAIN d.inodes : d.inodes[i].kind = "symlink"}

Counted(d) ==
  \A i \in DOMAIN d.inodes :
    d.inodes[i].nlink = IF i \in DirsOf(d) THEN 2 + Cardinality(Subdirs(d, i))
                                           ELSE Cardinality(NamesFor(d, i))

DbInv(d) ==
  /\ d \in DbShape /\ IsFiniteSet(d.dirents)
  /\ Root \in DirsOf(d)
  /\ Placed(d) /\ Distinct(d) /\ Rooted(d) /\ Targeted(d) /\ Counted(d)

\* Only files are open, and none during startup.
OpenInv ==
  /\ \A i \in open : i \in Inodes /\ db.inodes[i].kind = "file"
  /\ phase \in {"serving", "counting", "sweeping"}
  /\ phase # "serving" => open = {}

TreeInv == DbInv(db) /\ OpenInv

------------------------------------------------------------------------------
(* Numbers *)

\* A set of numbers that is not empty has a least one.
LEMMA LeastOf ==
  ASSUME NEW T, T \subseteq Nat, T # {}
  PROVE  \E m \in T : \A u \in T : ~(u < m)
  <1>1. PICK m \in T : \A u \in T : ~(<<u, m>> \in OpToRel(<, Nat))
      BY NatLessThanWellFounded, WFMin
  <1>2. ASSUME NEW u \in T PROVE ~(u < m)
    <2>1. u \in Nat /\ m \in Nat /\ ~(<<u, m>> \in OpToRel(<, Nat))
        BY <1>1
    <2> QED
        BY <2>1 DEF OpToRel
  <1> QED
      BY <1>2

\* The number after the largest in use is free.
LEMMA NextRowFree ==
  ASSUME NEW S, NEW b \in Nat, S \subseteq 0 .. b
  PROVE  NextRow(S) \in Nat \ {0} /\ NextRow(S) \notin S
  <1> DEFINE U == S \cup {0}
             T == {b - x : x \in U}
  <1>1. T \subseteq Nat /\ T # {}
      OBVIOUS
  <1>2. PICK t \in T : \A u \in T : ~(u < t)
    <2> HIDE DEF T
    <2> QED
        BY <1>1, LeastOf
  <1>3. PICK x \in U : t = b - x
      OBVIOUS
  <1>4. ASSUME NEW y \in U PROVE x >= y
    <2>1. ~(b - y < t) /\ x \in Int /\ y \in Int
        BY <1>2
    <2> QED
        BY <2>1, <1>3
  <1>5. Max(U) \in U /\ \A y \in U : Max(U) >= y
      BY <1>4 DEF Max
  <1>6. NextRow(S) = Max(U) + 1
      BY DEF NextRow
  <1> HIDE DEF U
  <1>7. \A y \in U : y \in Nat
      BY DEF U
  <1>8. S \subseteq U
      BY DEF U
  <1> DEFINE m == Max(U)
  <1>9. m \in Nat /\ \A y \in S : y \in Nat /\ m >= y
      BY <1>5, <1>7, <1>8
  <1>10. NextRow(S) = m + 1
      BY <1>6
  <1> HIDE DEF m
  <1> QED
      BY <1>9, <1>10

------------------------------------------------------------------------------
(* The walk of is_descendant *)

\* One turn of the loop of is_descendant.
Up(x) == IF x \in {0, Root} THEN x ELSE ParentOf(x)

\* f is the walk from i, n turns long.
IsWalk(f, i, n) == f = [k \in 0 .. n |-> IF k = 0 THEN i ELSE Up(f[k - 1])]

\* A walk may be as long as one likes.
LEMMA WalkExists == ASSUME NEW i, NEW n \in Nat PROVE \E f : IsWalk(f, i, n)
  <1> SUFFICES ASSUME ~\E f : IsWalk(f, i, n) PROVE FALSE
      OBVIOUS
  <1> DEFINE T == {m \in Nat : ~\E f : IsWalk(f, i, m)}
  <1>1. T \subseteq Nat /\ T # {}
      OBVIOUS
  <1>2. PICK m \in T : \A u \in T : ~(u < m)
    <2> HIDE DEF T
    <2> QED
        BY <1>1, LeastOf
  <1>4. m # 0
    <2> DEFINE z == [k \in 0 .. 0 |-> i]
    <2>1. IsWalk(z, i, 0)
        BY DEF IsWalk
    <2> QED
        BY <2>1
  <1>5. m - 1 \in Nat /\ m - 1 \notin T
      BY <1>1, <1>2, <1>4
  <1>6. PICK f : IsWalk(f, i, m - 1)
      BY <1>5
  <1> DEFINE g == [k \in 0 .. m |-> IF k = 0 THEN i ELSE Up(f[k - 1])]
  <1>7. \A k \in 0 .. m - 1 : f[k] = IF k = 0 THEN i ELSE Up(f[k - 1])
      BY <1>6 DEF IsWalk
  <1>8. \A k \in 0 .. m - 1 : g[k] = f[k]
      BY <1>1, <1>7
  <1>9. \A k \in 0 .. m : k # 0 => g[k - 1] = f[k - 1]
      BY <1>1, <1>8
  <1>10. g = [k \in 0 .. m |-> IF k = 0 THEN i ELSE Up(g[k - 1])]
      BY <1>9
  <1>11. IsWalk(g, i, m)
      BY <1>10 DEF IsWalk
  <1> QED
      BY <1>11

\* is_descendant walks.
LEMMA ClimbIs ==
  ASSUME NEW i
  PROVE  /\ Climb(i)[0] = i
         /\ \A k \in 1 .. MaxIno : Climb(i)[k] = Up(Climb(i)[k - 1])
  <1>1. \E f : IsWalk(f, i, MaxIno)
      BY WalkExists, NamespaceAssumption
  <1>2. IsWalk(Climb(i), i, MaxIno)
    <2> DEFINE at == CHOOSE f : f = [k \in 0 .. MaxIno |->
                       IF k = 0 THEN i
                       ELSE IF f[k - 1] \in {0, Root} THEN f[k - 1] ELSE ParentOf(f[k - 1])]
    <2>1. \E f : f = [k \in 0 .. MaxIno |->
                       IF k = 0 THEN i
                       ELSE IF f[k - 1] \in {0, Root} THEN f[k - 1] ELSE ParentOf(f[k - 1])]
        BY <1>1 DEF IsWalk, Up
    <2>2. IsWalk(at, i, MaxIno)
        BY <2>1, Zenon DEF IsWalk, Up
    <2>3. Climb(i) = at
        BY DEF Climb
    <2> QED
        BY <2>2, <2>3
  <1> QED
      BY <1>2, NamespaceAssumption DEF IsWalk

\* The shape of a database, unfolded.
LEMMA Shape ==
  ASSUME NEW d \in DbShape
  PROVE  /\ d.inodes \in [DOMAIN d.inodes -> IntRow] /\ DOMAIN d.inodes \subseteq Ino
         /\ d.dirents \subseteq Entry /\ d.targets \subseteq Ino
         /\ \A i \in DOMAIN d.inodes : d.inodes[i].kind \in Kind /\ d.inodes[i].nlink \in Int
  <1>1. d.inodes \in RowMap /\ d.dirents \subseteq Entry /\ d.targets \subseteq Ino
      BY DEF DbShape
  <1>2. PICK D \in SUBSET Ino : d.inodes \in [D -> IntRow]
      BY <1>1 DEF RowMap
  <1> QED
      BY <1>1, <1>2 DEF IntRow

\* parent_of_dir gives the parent of a directory's one entry.
LEMMA ParentIs ==
  ASSUME DbInv(db), NEW e \in db.dirents, e.child \in DirsOf(db)
  PROVE  e.child # Root /\ e.parent \in DirsOf(db) /\ ParentOf(e.child) = e.parent
  <1>1. e.child # Root /\ e.parent \in DirsOf(db)
      BY DEF DbInv, Placed
  <1> DEFINE f == CHOOSE x \in db.dirents : x.child = e.child
  <1>2. f \in db.dirents /\ f.child = e.child
      OBVIOUS
  <1>3. f = e
      BY <1>2 DEF DbInv, Distinct
  <1>4. ParentOf(e.child) = f.parent
      BY <1>1 DEF ParentOf
  <1> QED
      BY <1>1, <1>3, <1>4

\* A directory but the root has an entry.
LEMMA Named ==
  ASSUME NEW d, Rooted(d), NEW i \in DirsOf(d), i # Root
  PROVE  \E e \in d.dirents : e.child = i /\ e.parent # i
  <1>1. {i} \in SUBSET (DirsOf(d) \ {Root}) /\ {i} # {}
      OBVIOUS
  <1>2. PICK e \in d.dirents : e.child \in {i} /\ e.parent \notin {i}
      BY <1>1 DEF Rooted
  <1> QED
      BY <1>2

\* The walk from a directory goes from directory to parent and stays at the root.
LEMMA WalkUp ==
  ASSUME DbInv(db), NEW q \in DirsOf(db)
  PROVE  /\ Climb(q)[0] = q
         /\ \A k \in 0 .. MaxIno : Climb(q)[k] \in DirsOf(db)
         /\ \A k \in 1 .. MaxIno : Climb(q)[k - 1] = Root => Climb(q)[k] = Root
         /\ \A k \in 1 .. MaxIno : Climb(q)[k - 1] # Root =>
              \E e \in db.dirents : e.child = Climb(q)[k - 1] /\ e.parent = Climb(q)[k]
  <1> DEFINE W == Climb(q)
  <1>1. W[0] = q /\ \A k \in 1 .. MaxIno : W[k] = Up(W[k - 1])
      BY ClimbIs
  <1> HIDE DEF W
  <1>2. 0 \notin DirsOf(db)
      BY Shape DEF DbInv, DirsOf, Ino
  <1>3. ASSUME NEW k \in 1 .. MaxIno, W[k - 1] \in DirsOf(db), W[k - 1] # Root
        PROVE  \E e \in db.dirents : e.child = W[k - 1] /\ e.parent = W[k] /\ W[k] \in DirsOf(db)
    <2>1. W[k] = ParentOf(W[k - 1])
        BY <1>1, <1>2, <1>3 DEF Up
    <2>2. PICK e \in db.dirents : e.child = W[k - 1]
        BY <1>3, Named DEF DbInv
    <2>3. ParentOf(e.child) = e.parent /\ e.parent \in DirsOf(db)
        BY <1>3, <2>2, ParentIs
    <2> QED
        BY <2>1, <2>2, <2>3
  <1>4. ASSUME NEW k \in 1 .. MaxIno, W[k - 1] = Root PROVE W[k] = Root
      BY <1>1, <1>4 DEF Up
  <1>5. \A k \in 0 .. MaxIno : W[k] \in DirsOf(db)
    <2> DEFINE T == {k \in 0 .. MaxIno : W[k] \notin DirsOf(db)}
    <2> SUFFICES ASSUME T # {} PROVE FALSE
        OBVIOUS
    <2>1. T \subseteq Nat
        OBVIOUS
    <2>2. PICK m \in T : \A u \in T : ~(u < m)
      <3> HIDE DEF T
      <3> QED
          BY <2>1, LeastOf
    <2>3. m \in 1 .. MaxIno /\ m - 1 \in 0 .. MaxIno /\ m - 1 < m
        BY <1>1, NamespaceAssumption
    <2>4. W[m - 1] \in DirsOf(db)
        BY <2>2, <2>3
    <2>5. Root \in DirsOf(db)
        BY DEF DbInv
    <2> QED
        BY <1>3, <1>4, <2>3, <2>4, <2>5
  <1>6. \A k \in 1 .. MaxIno : k - 1 \in 0 .. MaxIno
      BY NamespaceAssumption
  <1> QED
      BY <1>1, <1>3, <1>4, <1>5, <1>6 DEF W

\* The walk from a directory reaches the root: if it did not it would pass
\* through one directory twice, and the ones between would be closed upwards.
LEMMA WalkReachesRoot ==
  ASSUME DbInv(db), NEW q \in DirsOf(db)
  PROVE  Climb(q)[MaxIno] = Root
  <1> DEFINE W == Climb(q)
  <1>0. MaxIno \in Nat /\ MaxIno > 0
      BY NamespaceAssumption
  <1>1. /\ \A k \in 0 .. MaxIno : W[k] \in DirsOf(db)
        /\ \A k \in 1 .. MaxIno : W[k - 1] = Root => W[k] = Root
        /\ \A k \in 1 .. MaxIno : W[k - 1] # Root =>
             \E e \in db.dirents : e.child = W[k - 1] /\ e.parent = W[k]
      BY WalkUp
  <1> HIDE DEF W
  <1> SUFFICES ASSUME W[MaxIno] # Root PROVE FALSE
      BY DEF W
  <1>2. \A k \in 0 .. MaxIno : W[k] # Root
    <2> DEFINE T == {k \in 0 .. MaxIno : W[MaxIno - k] = Root}
    <2>1. T = {}
      <3> SUFFICES ASSUME T # {} PROVE FALSE
          OBVIOUS
      <3>1. T \subseteq Nat
          OBVIOUS
      <3>2. PICK m \in T : \A u \in T : ~(u < m)
        <4> HIDE DEF T
        <4> QED
            BY <3>1, LeastOf
      <3>3. m \in 0 .. MaxIno /\ m # 0 /\ W[MaxIno - m] = Root
          BY <1>0
      <3>4. MaxIno - (m - 1) \in 1 .. MaxIno /\ (MaxIno - (m - 1)) - 1 = MaxIno - m
          BY <1>0, <3>3
      <3>5. W[MaxIno - (m - 1)] = Root
          BY <1>1, <3>3, <3>4
      <3>6. m - 1 \in T /\ m - 1 < m
          BY <1>0, <3>3, <3>5
      <3> QED
          BY <3>2, <3>6
    <2> QED
      <3> SUFFICES ASSUME NEW k \in 0 .. MaxIno, W[k] = Root PROVE FALSE
          OBVIOUS
      <3>1. MaxIno - k \in 0 .. MaxIno /\ MaxIno - (MaxIno - k) = k
          BY <1>0
      <3>2. MaxIno - k \in T
          BY <3>1
      <3> QED
          BY <2>1, <3>2
  <1>3. PICK x \in 0 .. MaxIno, y \in 0 .. MaxIno : x < y /\ W[x] = W[y]
    <2> DEFINE f == [k \in 0 .. MaxIno |-> W[k]]
    <2>1. f \in [0 .. MaxIno -> Ino]
        BY <1>1, Shape DEF DbInv, DirsOf
    <2>2. IsFiniteSet(0 .. MaxIno) /\ Cardinality(0 .. MaxIno) = MaxIno + 1
        BY <1>0, FS_Interval
    <2>3. IsFiniteSet(Ino) /\ Cardinality(Ino) = MaxIno
        BY <1>0, FS_Interval DEF Ino
    <2>4. Cardinality(Ino) < Cardinality(0 .. MaxIno)
        BY <1>0, <2>2, <2>3
    <2>5. PICK a \in 0 .. MaxIno, b \in 0 .. MaxIno : a # b /\ f[a] = f[b]
      <3> DEFINE D == 0 .. MaxIno
      <3>1. IsFiniteSet(D) /\ IsFiniteSet(Ino) /\ Cardinality(Ino) < Cardinality(D)
          BY <2>2, <2>3, <2>4
      <3>2. f \in [D -> Ino]
          BY <2>1
      <3>3. \E a, b \in D : a # b /\ f[a] = f[b]
        <4> HIDE DEF D, f
        <4> QED
            BY <3>1, <3>2, FS_PigeonHole
      <3> QED
          BY <3>3
    <2>6. W[a] = W[b] /\ (a < b \/ b < a)
        BY <1>0, <2>5
    <2> QED
        BY <2>6
  <1> DEFINE S == {W[k] : k \in x .. (y - 1)}
  <1>4. S \in SUBSET (DirsOf(db) \ {Root}) /\ W[x] \in S
      BY <1>0, <1>1, <1>2, <1>3
  <1>5. PICK e \in db.dirents : e.child \in S /\ e.parent \notin S
      BY <1>4 DEF DbInv, Rooted
  <1>6. PICK k \in x .. (y - 1) : e.child = W[k]
      BY <1>5
  <1>7. k + 1 \in 1 .. MaxIno /\ (k + 1) - 1 = k /\ (k + 1 \in x .. (y - 1) \/ k + 1 = y)
        /\ k \in 0 .. MaxIno
      BY <1>0, <1>3, <1>6
  <1>8. PICK g \in db.dirents : g.child = W[k] /\ g.parent = W[k + 1]
      BY <1>1, <1>2, <1>7
  <1>9. e = g
      BY <1>1, <1>6, <1>7, <1>8 DEF DbInv, Distinct
  <1>10. W[k + 1] \in S
      BY <1>3, <1>4, <1>7
  <1> QED
      BY <1>5, <1>8, <1>9, <1>10

\* is_descendant says no: then some entry but c's leads out of every set of
\* directories without the root that q is in.
LEMMA Escapes ==
  ASSUME DbInv(db), NEW q \in DirsOf(db), NEW c, ~IsDescendant(q, c),
         NEW S \in SUBSET (DirsOf(db) \ {Root}), q \in S
  PROVE  \E e \in db.dirents : e.child \in S /\ e.child # c /\ e.parent \notin S
  <1> DEFINE W == Climb(q)
             T == {k \in 0 .. MaxIno : W[k] \notin S}
  <1>0. MaxIno \in Nat /\ MaxIno > 0
      BY NamespaceAssumption
  <1>1. /\ W[0] = q /\ W[MaxIno] = Root
        /\ \A k \in 1 .. MaxIno : W[k - 1] # Root =>
             \E e \in db.dirents : e.child = W[k - 1] /\ e.parent = W[k]
      BY WalkUp, WalkReachesRoot
  <1>2. \A k \in 0 .. MaxIno : W[k] # c
      BY DEF IsDescendant
  <1> HIDE DEF W
  <1>3. T \subseteq Nat /\ T # {}
      BY <1>0, <1>1
  <1>4. PICK m \in T : \A u \in T : ~(u < m)
    <2> HIDE DEF T
    <2> QED
        BY <1>3, LeastOf
  <1>5. m \in 1 .. MaxIno /\ m - 1 \in 0 .. MaxIno /\ m - 1 < m /\ W[m] \notin S
      BY <1>0, <1>1
  <1>6. W[m - 1] \in S
      BY <1>4, <1>5
  <1>7. PICK e \in db.dirents : e.child = W[m - 1] /\ e.parent = W[m]
      BY <1>1, <1>5, <1>6
  <1> QED
      BY <1>2, <1>5, <1>6, <1>7

------------------------------------------------------------------------------
(* The statements a transaction is made of *)

\* Rows put together are a database.
LEMMA MakeDb ==
  ASSUME NEW D \in SUBSET Ino, NEW f \in [D -> IntRow], NEW E \in SUBSET Entry,
         NEW T \in SUBSET Ino
  PROVE  [inodes |-> f, dirents |-> E, targets |-> T] \in DbShape
  <1>1. f \in RowMap
      BY DEF RowMap
  <1> QED
      BY <1>1 DEF DbShape

SetEntries(d, E) == [d EXCEPT !.dirents = E]
AddNlink(d, i, z) == [d EXCEPT !.inodes[i].nlink = @ + z]

\* Entries replaced.
LEMMA EntriesSet ==
  ASSUME NEW d \in DbShape, NEW E \in SUBSET Entry
  PROVE  /\ SetEntries(d, E) \in DbShape /\ SetEntries(d, E).inodes = d.inodes
         /\ SetEntries(d, E).dirents = E /\ SetEntries(d, E).targets = d.targets
  BY DEF SetEntries, DbShape

\* add_directory_nlink, and the two updates of nlink that look like it.
LEMMA NlinkAdded ==
  ASSUME NEW d \in DbShape, NEW i \in DOMAIN d.inodes, NEW z \in Int,
         NEW b, b = AddNlink(d, i, z)
  PROVE  /\ b \in DbShape /\ DOMAIN b.inodes = DOMAIN d.inodes
         /\ b.dirents = d.dirents /\ b.targets = d.targets
         /\ b.inodes[i].kind = d.inodes[i].kind
         /\ b.inodes[i].nlink = d.inodes[i].nlink + z
         /\ \A j \in DOMAIN d.inodes : j # i => b.inodes[j] = d.inodes[j]
  <1>1. /\ d.inodes \in [DOMAIN d.inodes -> IntRow] /\ DOMAIN d.inodes \subseteq Ino
        /\ d.dirents \subseteq Entry /\ d.targets \subseteq Ino
      BY Shape
  <1> DEFINE f == [d.inodes EXCEPT ![i] = [d.inodes[i] EXCEPT !.nlink = d.inodes[i].nlink + z]]
  <1>2. /\ b.inodes = f /\ b.dirents = d.dirents /\ b.targets = d.targets
        /\ b = [inodes |-> f, dirents |-> d.dirents, targets |-> d.targets]
      BY DEF DbShape, AddNlink
  <1>3. /\ f \in [DOMAIN d.inodes -> IntRow] /\ f[i].kind = d.inodes[i].kind
        /\ f[i].nlink = d.inodes[i].nlink + z
        /\ \A j \in DOMAIN d.inodes : j # i => f[j] = d.inodes[j]
      BY <1>1 DEF IntRow
  <1> HIDE DEF f
  <1>4. [inodes |-> f, dirents |-> d.dirents, targets |-> d.targets] \in DbShape
      BY <1>1, <1>3, MakeDb
  <1> QED
      BY <1>2, <1>3, <1>4

\* delete_inode_rows.
LEMMA RowsDeleted ==
  ASSUME NEW d \in DbShape, NEW i, NEW b, b = DeleteInodeRows(d, i)
  PROVE  /\ b \in DbShape /\ DOMAIN b.inodes = DOMAIN d.inodes \ {i}
         /\ \A j \in DOMAIN b.inodes : b.inodes[j] = d.inodes[j]
         /\ b.dirents = {e \in d.dirents : e.parent # i /\ e.child # i}
         /\ b.targets = d.targets \ {i}
  <1>1. /\ d.inodes \in [DOMAIN d.inodes -> IntRow] /\ DOMAIN d.inodes \subseteq Ino
        /\ d.dirents \subseteq Entry /\ d.targets \subseteq Ino
      BY Shape
  <1> DEFINE D == DOMAIN d.inodes \ {i}
             f == [j \in D |-> d.inodes[j]]
             E == {e \in d.dirents : e.parent # i /\ e.child # i}
             T == d.targets \ {i}
  <1>2. b = [inodes |-> f, dirents |-> E, targets |-> T]
      BY DEF DeleteInodeRows
  <1>3. D \in SUBSET Ino /\ f \in [D -> IntRow] /\ E \in SUBSET Entry /\ T \in SUBSET Ino
      BY <1>1
  <1>4. [inodes |-> f, dirents |-> E, targets |-> T] \in DbShape
    <2> HIDE DEF D, f, E, T
    <2> QED
        BY <1>3, MakeDb
  <1> QED
      BY <1>2, <1>4

------------------------------------------------------------------------------
(* What changes of entries and rows do to a sound database *)

\* All of the invariant but the link counts.
StructInv(d) ==
  /\ d \in DbShape /\ IsFiniteSet(d.dirents)
  /\ Root \in DirsOf(d)
  /\ Placed(d) /\ Distinct(d) /\ Rooted(d) /\ Targeted(d)

\* Entries go, and with them rows that nothing names any more.
LEMMA EntriesFewer ==
  ASSUME NEW d, StructInv(d), NEW b \in DbShape, b.dirents \subseteq d.dirents,
         DOMAIN b.inodes \subseteq DOMAIN d.inodes, Root \in DOMAIN b.inodes,
         \A j \in DOMAIN b.inodes : b.inodes[j].kind = d.inodes[j].kind,
         \A e \in b.dirents : e.parent \in DOMAIN b.inodes /\ e.child \in DOMAIN b.inodes,
         \A e \in d.dirents : e \notin b.dirents => e.child \notin DirsOf(b),
         \A j \in Ino : j \in b.targets <=> j \in d.targets /\ j \in DOMAIN b.inodes
  PROVE  /\ StructInv(b)
         /\ \A j : j \in DirsOf(b) <=> j \in DirsOf(d) /\ j \in DOMAIN b.inodes
  <1>1. \A j : j \in DirsOf(b) <=> j \in DirsOf(d) /\ j \in DOMAIN b.inodes
      BY DEF DirsOf
  <1>2. IsFiniteSet(b.dirents) /\ Root \in DirsOf(b)
      BY <1>1, FS_Subset DEF StructInv
  <1>3. Placed(b) /\ Distinct(b)
      BY <1>1 DEF StructInv, Placed, Distinct
  <1>4. Rooted(b)
    <2> SUFFICES ASSUME NEW S \in SUBSET (DirsOf(b) \ {Root}), S # {}
                 PROVE  \E e \in b.dirents : e.child \in S /\ e.parent \notin S
        BY DEF Rooted
    <2>1. S \in SUBSET (DirsOf(d) \ {Root})
        BY <1>1
    <2>2. PICK e \in d.dirents : e.child \in S /\ e.parent \notin S
        BY <2>1 DEF StructInv, Rooted
    <2> QED
        BY <2>2
  <1>5. Targeted(b)
    <2>1. b.targets \subseteq Ino /\ DOMAIN b.inodes \subseteq Ino
        BY Shape
    <2> QED
        BY <2>1 DEF StructInv, Targeted
  <1> QED
      BY <1>1, <1>2, <1>3, <1>4, <1>5 DEF StructInv

\* An entry comes, for a new row or for a row that is no directory.
LEMMA EntryMore ==
  ASSUME NEW d, StructInv(d), NEW b \in DbShape, NEW x \in Entry,
         b.dirents = d.dirents \cup {x}, DOMAIN b.inodes = DOMAIN d.inodes \cup {x.child},
         \A j \in DOMAIN d.inodes : b.inodes[j].kind = d.inodes[j].kind,
         x.child \notin DirsOf(d), x.child # Root, x.parent \in DirsOf(d),
         \A e \in d.dirents : e.id # x.id /\ ~(e.parent = x.parent /\ e.name = x.name),
         x.child \in DOMAIN d.inodes \/ \A e \in d.dirents : e.child # x.child,
         x.child \in DOMAIN d.inodes => x.child \notin DirsOf(b),
         Targeted(b)
  PROVE  /\ StructInv(b)
         /\ \A j : j \in DirsOf(d) <=> j \in DirsOf(b) /\ j \in DOMAIN d.inodes
  <1>1. \A j : j \in DirsOf(d) <=> j \in DirsOf(b) /\ j \in DOMAIN d.inodes
      BY DEF DirsOf
  <1>2. IsFiniteSet(b.dirents) /\ Root \in DirsOf(b)
      BY <1>1, FS_AddElement DEF StructInv
  <1>3. Placed(b)
      BY <1>1 DEF StructInv, Placed
  <1>4. Distinct(b)
    <2> SUFFICES ASSUME NEW e \in b.dirents, NEW f \in b.dirents,
                        \/ e.id = f.id
                        \/ e.parent = f.parent /\ e.name = f.name
                        \/ e.child = f.child /\ e.child \in DirsOf(b)
                 PROVE  e = f
        BY DEF Distinct
    <2>1. CASE e \in d.dirents /\ f \in d.dirents
        BY <1>1, <2>1 DEF StructInv, Distinct, Placed
    <2>2. CASE e = x /\ f \in d.dirents
        BY <2>2
    <2>3. CASE f = x /\ e \in d.dirents
        BY <2>3
    <2> QED
        BY <2>1, <2>2, <2>3
  <1>5. Rooted(b)
    <2> SUFFICES ASSUME NEW S \in SUBSET (DirsOf(b) \ {Root}), S # {}
                 PROVE  \E e \in b.dirents : e.child \in S /\ e.parent \notin S
        BY DEF Rooted
    <2> DEFINE U == S \ {x.child}
    <2>1. U \in SUBSET (DirsOf(d) \ {Root})
        BY <1>1 DEF DirsOf
    <2>2. CASE U # {}
      <3>1. PICK e \in d.dirents : e.child \in U /\ e.parent \notin U
          BY <2>1, <2>2 DEF StructInv, Rooted
      <3>2. e.parent # x.child
          BY DEF StructInv, Placed
      <3> QED
          BY <3>1, <3>2
    <2>3. CASE U = {}
      <3>1. S = {x.child} /\ x.parent # x.child
          BY <2>3
      <3> QED
          BY <3>1
    <2> QED
        BY <2>2, <2>3
  <1> QED
      BY <1>1, <1>2, <1>3, <1>4, <1>5 DEF StructInv

\* An entry moves, below no directory of its own.
LEMMA EntryMoves ==
  ASSUME NEW d, StructInv(d), NEW b \in DbShape, NEW s \in d.dirents, NEW x \in Entry,
         b.dirents = (d.dirents \ {s}) \cup {x}, DOMAIN b.inodes = DOMAIN d.inodes,
         \A j \in DOMAIN d.inodes : b.inodes[j].kind = d.inodes[j].kind,
         b.targets = d.targets, x.id = s.id, x.child = s.child, x.parent \in DirsOf(d),
         \A e \in d.dirents : ~(e.parent = x.parent /\ e.name = x.name),
         s.child \in DirsOf(d) =>
           \A S \in SUBSET (DirsOf(d) \ {Root}) :
             x.parent \in S =>
               \E e \in d.dirents : e.child \in S /\ e.child # s.child /\ e.parent \notin S
  PROVE  StructInv(b) /\ DirsOf(b) = DirsOf(d)
  <1>1. DirsOf(b) = DirsOf(d)
      BY DEF DirsOf
  <1>2. IsFiniteSet(b.dirents)
    <2>1. IsFiniteSet(d.dirents \ {s})
        BY FS_RemoveElement DEF StructInv
    <2> QED
        BY <2>1, FS_AddElement
  <1>3. Placed(b)
      BY <1>1 DEF StructInv, Placed
  <1>4. Distinct(b)
    <2> SUFFICES ASSUME NEW e \in b.dirents, NEW f \in b.dirents,
                        \/ e.id = f.id
                        \/ e.parent = f.parent /\ e.name = f.name
                        \/ e.child = f.child /\ e.child \in DirsOf(d)
                 PROVE  e = f
        BY <1>1 DEF Distinct
    <2>1. CASE e \in d.dirents /\ f \in d.dirents
        BY <2>1 DEF StructInv, Distinct
    <2>2. ASSUME NEW g \in d.dirents, g # s
          PROVE  /\ g.id # x.id /\ ~(g.parent = x.parent /\ g.name = x.name)
                 /\ ~(g.child = x.child /\ g.child \in DirsOf(d))
        BY <2>2 DEF StructInv, Distinct
    <2>3. CASE e = x /\ f \in d.dirents /\ f # s
        BY <2>2, <2>3
    <2>4. CASE f = x /\ e \in d.dirents /\ e # s
        BY <2>2, <2>4
    <2> QED
        BY <2>1, <2>3, <2>4
  <1>5. Rooted(b)
    <2> SUFFICES ASSUME NEW S \in SUBSET (DirsOf(d) \ {Root}), S # {}
                 PROVE  \E e \in b.dirents : e.child \in S /\ e.parent \notin S
        BY <1>1 DEF Rooted
    <2>1. CASE s.child \notin S
      <3>1. PICK e \in d.dirents : e.child \in S /\ e.parent \notin S
          BY DEF StructInv, Rooted
      <3> QED
          BY <2>1, <3>1
    <2>2. CASE s.child \in S /\ x.parent \notin S
        BY <2>2
    <2>3. CASE s.child \in S /\ x.parent \in S
      <3>1. PICK e \in d.dirents : e.child \in S /\ e.child # s.child /\ e.parent \notin S
          BY <2>3
      <3> QED
          BY <3>1
    <2> QED
        BY <2>1, <2>2, <2>3
  <1>6. Targeted(b)
      BY DEF StructInv, Targeted
  <1> QED
      BY <1>1, <1>2, <1>3, <1>4, <1>5, <1>6 DEF StructInv

\* What is counted can be counted.
LEMMA Countable ==
  ASSUME NEW d, IsFiniteSet(d.dirents), NEW j
  PROVE  /\ IsFiniteSet(Subdirs(d, j)) /\ Cardinality(Subdirs(d, j)) \in Nat
         /\ IsFiniteSet(NamesFor(d, j)) /\ Cardinality(NamesFor(d, j)) \in Nat
  <1>1. Subdirs(d, j) \in SUBSET d.dirents /\ NamesFor(d, j) \in SUBSET d.dirents
      BY DEF Subdirs, NamesFor
  <1>2. IsFiniteSet(Subdirs(d, j)) /\ IsFiniteSet(NamesFor(d, j))
      BY <1>1, FS_Subset
  <1> QED
      BY <1>2, FS_CardinalityType

\* A name of a file goes, others or a handle being left.
LEMMA DropKeeps ==
  ASSUME NEW d, DbInv(d), NEW x \in d.dirents, x.child \notin DirsOf(d),
         NEW b \in DbShape, DOMAIN b.inodes = DOMAIN d.inodes,
         b.dirents = d.dirents \ {x}, b.targets = d.targets,
         b.inodes[x.child].kind = d.inodes[x.child].kind,
         b.inodes[x.child].nlink = d.inodes[x.child].nlink - 1,
         \A j \in DOMAIN d.inodes : j # x.child => b.inodes[j] = d.inodes[j]
  PROVE  DbInv(b)
  <1> DEFINE c == x.child
  <1>0. StructInv(d) /\ Counted(d) /\ IsFiniteSet(d.dirents) /\ Placed(d)
      BY DEF DbInv, StructInv
  <1>1. c \in DOMAIN d.inodes
      BY <1>0 DEF Placed
  <1>2. \A j \in DOMAIN d.inodes : b.inodes[j].kind = d.inodes[j].kind
      BY <1>1
  <1>3. DirsOf(b) = DirsOf(d)
      BY <1>2 DEF DirsOf
  <1>4. StructInv(b)
    <2>1. \A e \in d.dirents : e \notin b.dirents => e.child \notin DirsOf(b)
        BY <1>3
    <2>2. \A e \in b.dirents : e.parent \in DOMAIN b.inodes /\ e.child \in DOMAIN b.inodes
        BY <1>0 DEF Placed, DirsOf
    <2>3. Root \in DOMAIN b.inodes
        BY <1>0 DEF StructInv, DirsOf
    <2>4. \A j \in Ino : j \in b.targets <=> j \in d.targets /\ j \in DOMAIN b.inodes
        BY <1>0 DEF StructInv, Targeted
    <2> QED
        BY <1>0, <1>2, <2>1, <2>2, <2>3, <2>4, EntriesFewer
  <1>5. ASSUME NEW j \in DOMAIN b.inodes
        PROVE  b.inodes[j].nlink = IF j \in DirsOf(b) THEN 2 + Cardinality(Subdirs(b, j))
                                                      ELSE Cardinality(NamesFor(b, j))
    <2>1. Subdirs(b, j) = Subdirs(d, j)
        BY <1>3 DEF Subdirs
    <2>2. CASE j # c
      <3>1. NamesFor(b, j) = NamesFor(d, j)
          BY <2>2 DEF NamesFor
      <3> QED
          BY <1>0, <1>3, <2>1, <2>2, <3>1 DEF Counted
    <2>3. CASE j = c
      <3>1. NamesFor(b, c) = NamesFor(d, c) \ {x} /\ x \in NamesFor(d, c)
          BY DEF NamesFor
      <3>2. Cardinality(NamesFor(d, c) \ {x}) = Cardinality(NamesFor(d, c)) - 1
          BY <1>0, <3>1, Countable, FS_RemoveElement
      <3>3. d.inodes[c].nlink = Cardinality(NamesFor(d, c))
          BY <1>0, <1>1 DEF Counted
      <3> QED
          BY <1>3, <2>3, <3>1, <3>2, <3>3
    <2> QED
        BY <2>2, <2>3
  <1> QED
      BY <1>4, <1>5 DEF DbInv, StructInv, Counted

\* An entry goes with the file it was the last name of, or with the empty
\* directory it named: the cascade finds nothing more to delete.
LEMMA DeleteKeeps ==
  ASSUME NEW d, DbInv(d), NEW x \in d.dirents,
         \/ x.child \in DirsOf(d) /\ \A e \in d.dirents : e.parent # x.child
         \/ x.child \notin DirsOf(d) /\ d.inodes[x.child].nlink <= 1,
         NEW b \in DbShape, DOMAIN b.inodes = DOMAIN d.inodes \ {x.child},
         b.dirents = {e \in d.dirents \ {x} : e.parent # x.child /\ e.child # x.child},
         b.targets = d.targets \ {x.child},
         \A j \in DOMAIN b.inodes :
           /\ b.inodes[j].kind = d.inodes[j].kind
           /\ b.inodes[j].nlink = IF x.child \in DirsOf(d) /\ j = x.parent
                                  THEN d.inodes[j].nlink - 1 ELSE d.inodes[j].nlink
  PROVE  DbInv(b) /\ b.dirents = d.dirents \ {x}
  <1> DEFINE c == x.child
  <1>0. StructInv(d) /\ Counted(d) /\ IsFiniteSet(d.dirents) /\ Placed(d) /\ Distinct(d)
      BY DEF DbInv, StructInv
  <1>1. c \in DOMAIN d.inodes /\ c # Root /\ x.parent \in DirsOf(d)
      BY <1>0 DEF Placed
  <1>2. \A e \in d.dirents : e # x => e.child # c
    <2>1. CASE c \in DirsOf(d)
        BY <1>0, <2>1 DEF Distinct
    <2>2. CASE c \notin DirsOf(d) /\ d.inodes[c].nlink <= 1
      <3>1. Cardinality(NamesFor(d, c)) <= 1 /\ x \in NamesFor(d, c)
          BY <1>0, <1>1, <2>2 DEF Counted, NamesFor
      <3>2. Cardinality(NamesFor(d, c) \ {x}) = 0 /\ IsFiniteSet(NamesFor(d, c) \ {x})
        <4>1. /\ Cardinality(NamesFor(d, c) \ {x}) = Cardinality(NamesFor(d, c)) - 1
              /\ IsFiniteSet(NamesFor(d, c) \ {x}) /\ Cardinality(NamesFor(d, c)) \in Nat
            BY <1>0, <3>1, Countable, FS_RemoveElement
        <4>2. Cardinality(NamesFor(d, c) \ {x}) \in Nat
            BY <4>1, FS_CardinalityType
        <4> QED
            BY <3>1, <4>1, <4>2
      <3>3. NamesFor(d, c) \ {x} = {}
          BY <3>2, FS_EmptySet
      <3> QED
          BY <3>3 DEF NamesFor
    <2> QED
        BY <2>1, <2>2
  <1>3. \A e \in d.dirents : e.parent # c
      BY <1>0 DEF Placed
  <1>4. b.dirents = d.dirents \ {x}
      BY <1>2, <1>3
  <1>5. \A j : j \in DirsOf(b) <=> j \in DirsOf(d) /\ j # c
      BY DEF DirsOf
  <1>6. StructInv(b)
    <2>1. \A e \in d.dirents : e \notin b.dirents => e.child \notin DirsOf(b)
        BY <1>4, <1>5
    <2>2. \A e \in b.dirents : e.parent \in DOMAIN b.inodes /\ e.child \in DOMAIN b.inodes
        BY <1>0, <1>2, <1>3, <1>4 DEF Placed, DirsOf
    <2>3. Root \in DOMAIN b.inodes
        BY <1>0, <1>1 DEF StructInv, DirsOf
    <2>4. \A j \in Ino : j \in b.targets <=> j \in d.targets /\ j \in DOMAIN b.inodes
        BY <1>0 DEF StructInv, Targeted
    <2>5. b.dirents \subseteq d.dirents
        BY <1>4
    <2> QED
        BY <1>0, <2>1, <2>2, <2>3, <2>4, <2>5, EntriesFewer
  <1>7. ASSUME NEW j \in DOMAIN b.inodes
        PROVE  b.inodes[j].nlink = IF j \in DirsOf(b) THEN 2 + Cardinality(Subdirs(b, j))
                                                      ELSE Cardinality(NamesFor(b, j))
    <2>0. j \in DOMAIN d.inodes /\ j # c /\ (j \in DirsOf(b) <=> j \in DirsOf(d))
        BY <1>5
    <2>1. NamesFor(b, j) = NamesFor(d, j)
        BY <1>4, <2>0 DEF NamesFor
    <2>2. CASE c \in DirsOf(d) /\ j = x.parent
      <3>1. Subdirs(b, j) = Subdirs(d, j) \ {x} /\ x \in Subdirs(d, j)
          BY <1>2, <1>4, <1>5, <2>2 DEF Subdirs
      <3>2. /\ Cardinality(Subdirs(d, j) \ {x}) = Cardinality(Subdirs(d, j)) - 1
            /\ Cardinality(Subdirs(d, j)) \in Nat
          BY <1>0, <3>1, Countable, FS_RemoveElement
      <3>3. d.inodes[j].nlink = 2 + Cardinality(Subdirs(d, j)) /\ j \in DirsOf(d)
          BY <1>0, <1>1, <2>0, <2>2 DEF Counted
      <3> QED
          BY <2>0, <2>2, <3>1, <3>2, <3>3
    <2>3. CASE ~(c \in DirsOf(d) /\ j = x.parent)
      <3>1. Subdirs(b, j) = Subdirs(d, j)
          BY <1>2, <1>4, <1>5, <2>3 DEF Subdirs
      <3> QED
          BY <1>0, <2>0, <2>1, <2>3, <3>1 DEF Counted
    <2> QED
        BY <2>2, <2>3
  <1> QED
      BY <1>4, <1>6, <1>7 DEF DbInv, StructInv, Counted

\* An inode without a name goes; no entry goes with it.
LEMMA OrphanKeeps ==
  ASSUME NEW d, DbInv(d), NEW c \in DOMAIN d.inodes, d.inodes[c].nlink = 0,
         NEW b, b = DeleteInodeRows(d, c)
  PROVE  /\ DbInv(b) /\ b.dirents = d.dirents
         /\ DOMAIN b.inodes = DOMAIN d.inodes \ {c}
         /\ \A j \in DOMAIN b.inodes : b.inodes[j] = d.inodes[j]
  <1>0. /\ StructInv(d) /\ Counted(d) /\ IsFiniteSet(d.dirents) /\ Placed(d)
        /\ d \in DbShape
      BY DEF DbInv, StructInv
  <1>1. /\ b \in DbShape /\ DOMAIN b.inodes = DOMAIN d.inodes \ {c}
        /\ \A j \in DOMAIN b.inodes : b.inodes[j] = d.inodes[j]
        /\ b.dirents = {e \in d.dirents : e.parent # c /\ e.child # c}
        /\ b.targets = d.targets \ {c}
      BY <1>0, RowsDeleted
  <1>2. c \notin DirsOf(d)
      BY <1>0, Countable DEF Counted
  <1>3. \A e \in d.dirents : e.parent # c /\ e.child # c
    <2>1. Cardinality(NamesFor(d, c)) = 0
        BY <1>0, <1>2 DEF Counted
    <2>2. NamesFor(d, c) = {}
        BY <1>0, <2>1, Countable, FS_EmptySet
    <2> QED
        BY <1>0, <1>2, <2>2 DEF NamesFor, Placed
  <1>4. b.dirents = d.dirents
      BY <1>1, <1>3
  <1>5. DirsOf(b) = DirsOf(d)
      BY <1>1, <1>2 DEF DirsOf
  <1>6. StructInv(b)
    <2>1. /\ b.dirents \subseteq d.dirents /\ DOMAIN b.inodes \subseteq DOMAIN d.inodes
          /\ \A j \in DOMAIN b.inodes : b.inodes[j].kind = d.inodes[j].kind
        BY <1>1, <1>4
    <2>2. \A e \in d.dirents : e \notin b.dirents => e.child \notin DirsOf(b)
        BY <1>4
    <2>3. \A e \in b.dirents : e.parent \in DOMAIN b.inodes /\ e.child \in DOMAIN b.inodes
        BY <1>0, <1>1, <1>3 DEF Placed, DirsOf
    <2>4. Root \in DOMAIN b.inodes
        BY <1>0, <1>5 DEF StructInv, DirsOf
    <2>5. \A j \in Ino : j \in b.targets <=> j \in d.targets /\ j \in DOMAIN b.inodes
        BY <1>0, <1>1 DEF StructInv, Targeted
    <2> QED
        BY <1>0, <1>1, <2>1, <2>2, <2>3, <2>4, <2>5, EntriesFewer
  <1>7. \A j : Subdirs(b, j) = Subdirs(d, j) /\ NamesFor(b, j) = NamesFor(d, j)
      BY <1>4, <1>5 DEF Subdirs, NamesFor
  <1>8. Counted(b)
      BY <1>0, <1>1, <1>5, <1>7 DEF Counted
  <1> QED
      BY <1>1, <1>4, <1>6, <1>8 DEF DbInv, StructInv

\* An entry and its new inode come.
LEMMA CreateKeeps ==
  ASSUME NEW d, DbInv(d), NEW b \in DbShape, NEW x \in Entry, NEW kind \in Kind,
         x.child \notin DOMAIN d.inodes, x.parent \in DirsOf(d),
         \A e \in d.dirents : e.id # x.id /\ ~(e.parent = x.parent /\ e.name = x.name),
         DOMAIN b.inodes = DOMAIN d.inodes \cup {x.child}, b.dirents = d.dirents \cup {x},
         \A j : j \in b.targets <=> j \in d.targets \/ (kind = "symlink" /\ j = x.child),
         b.inodes[x.child].kind = kind,
         b.inodes[x.child].nlink = IF kind = "dir" THEN 2 ELSE 1,
         \A j \in DOMAIN d.inodes :
           /\ b.inodes[j].kind = d.inodes[j].kind
           /\ b.inodes[j].nlink = IF kind = "dir" /\ j = x.parent
                                  THEN d.inodes[j].nlink + 1 ELSE d.inodes[j].nlink
  PROVE  DbInv(b)
  <1> DEFINE c == x.child
  <1>0. StructInv(d) /\ Counted(d) /\ IsFiniteSet(d.dirents) /\ Placed(d)
      BY DEF DbInv, StructInv
  <1>1. c # Root /\ c \notin DirsOf(d) /\ \A e \in d.dirents : e.child # c /\ e.parent # c
      BY <1>0 DEF StructInv, DirsOf, Placed
  <1>2. Targeted(b)
      BY <1>0 DEF StructInv, Targeted
  <1>3. StructInv(b)
      BY <1>0, <1>1, <1>2, EntryMore
  <1>4. \A j : j \in DirsOf(b) <=> j \in DirsOf(d) \/ (kind = "dir" /\ j = c)
      BY DEF DirsOf
  <1>5. ASSUME NEW j \in DOMAIN b.inodes
        PROVE  b.inodes[j].nlink = IF j \in DirsOf(b) THEN 2 + Cardinality(Subdirs(b, j))
                                                      ELSE Cardinality(NamesFor(b, j))
    <2>1. CASE j = c
      <3>1. Subdirs(b, c) = {}
          BY <1>1 DEF Subdirs
      <3>2. NamesFor(b, c) = {x}
          BY <1>1 DEF NamesFor
      <3>3. Cardinality(Subdirs(b, c)) = 0
          BY <3>1, FS_EmptySet
      <3>4. Cardinality({x}) = 1
          BY FS_Singleton
      <3>5. Cardinality(NamesFor(b, c)) = 1
          BY <3>2, <3>4
      <3> QED
          BY <1>1, <1>4, <2>1, <3>3, <3>5
    <2>2. CASE j # c
      <3>0. j \in DOMAIN d.inodes /\ (j \in DirsOf(b) <=> j \in DirsOf(d))
          BY <1>4, <2>2
      <3>1. NamesFor(b, j) = NamesFor(d, j)
          BY <2>2 DEF NamesFor
      <3>2. CASE kind = "dir" /\ j = x.parent
        <4>1. Subdirs(b, j) = Subdirs(d, j) \cup {x} /\ x \notin Subdirs(d, j)
            BY <1>1, <1>4, <3>2 DEF Subdirs
        <4>2. Cardinality(Subdirs(d, j) \cup {x}) = Cardinality(Subdirs(d, j)) + 1
            BY <1>0, <4>1, Countable, FS_AddElement
        <4>3. /\ d.inodes[j].nlink = 2 + Cardinality(Subdirs(d, j))
              /\ Cardinality(Subdirs(d, j)) \in Nat
            BY <1>0, <3>0, <3>2, Countable DEF Counted
        <4> QED
            BY <3>0, <3>2, <4>1, <4>2, <4>3
      <3>3. CASE ~(kind = "dir" /\ j = x.parent)
        <4>1. Subdirs(b, j) = Subdirs(d, j)
            BY <1>1, <1>4, <3>3 DEF Subdirs
        <4> QED
            BY <1>0, <3>0, <3>1, <3>3, <4>1 DEF Counted
      <3> QED
          BY <3>2, <3>3
    <2> QED
        BY <2>1, <2>2
  <1> QED
      BY <1>3, <1>5 DEF DbInv, StructInv, Counted

\* A file gets one more name.
LEMMA LinkKeeps ==
  ASSUME NEW d, DbInv(d), NEW b \in DbShape, NEW x \in Entry,
         x.child \in DOMAIN d.inodes, x.child \notin DirsOf(d), x.parent \in DirsOf(d),
         \A e \in d.dirents : e.id # x.id /\ ~(e.parent = x.parent /\ e.name = x.name),
         DOMAIN b.inodes = DOMAIN d.inodes, b.dirents = d.dirents \cup {x},
         b.targets = d.targets,
         b.inodes[x.child].kind = d.inodes[x.child].kind,
         b.inodes[x.child].nlink = d.inodes[x.child].nlink + 1,
         \A j \in DOMAIN d.inodes : j # x.child => b.inodes[j] = d.inodes[j]
  PROVE  DbInv(b)
  <1> DEFINE c == x.child
  <1>0. StructInv(d) /\ Counted(d) /\ IsFiniteSet(d.dirents) /\ Placed(d)
      BY DEF DbInv, StructInv
  <1>1. c # Root
      BY <1>0 DEF StructInv
  <1>2. \A j \in DOMAIN d.inodes : b.inodes[j].kind = d.inodes[j].kind
      OBVIOUS
  <1>3. DirsOf(b) = DirsOf(d) /\ Targeted(b)
      BY <1>0, <1>2 DEF StructInv, DirsOf, Targeted
  <1>4. StructInv(b)
    <2>1. DOMAIN b.inodes = DOMAIN d.inodes \cup {x.child}
        OBVIOUS
    <2> QED
        BY <1>0, <1>1, <1>2, <1>3, <2>1, EntryMore
  <1>5. ASSUME NEW j \in DOMAIN b.inodes
        PROVE  b.inodes[j].nlink = IF j \in DirsOf(b) THEN 2 + Cardinality(Subdirs(b, j))
                                                      ELSE Cardinality(NamesFor(b, j))
    <2>1. Subdirs(b, j) = Subdirs(d, j)
        BY <1>3 DEF Subdirs
    <2>2. CASE j # c
      <3>1. NamesFor(b, j) = NamesFor(d, j)
          BY <2>2 DEF NamesFor
      <3> QED
          BY <1>0, <1>3, <2>1, <2>2, <3>1 DEF Counted
    <2>3. CASE j = c
      <3>1. NamesFor(b, c) = NamesFor(d, c) \cup {x} /\ x \notin NamesFor(d, c)
          BY DEF NamesFor
      <3>2. Cardinality(NamesFor(d, c) \cup {x}) = Cardinality(NamesFor(d, c)) + 1
          BY <1>0, <3>1, Countable, FS_AddElement
      <3>3. d.inodes[c].nlink = Cardinality(NamesFor(d, c))
          BY <1>0 DEF Counted
      <3> QED
          BY <1>3, <2>3, <3>1, <3>2, <3>3
    <2> QED
        BY <2>2, <2>3
  <1> QED
      BY <1>4, <1>5 DEF DbInv, StructInv, Counted

\* A set that loses one element and gets one.
LEMMA Exchange ==
  ASSUME NEW S, IsFiniteSet(S), NEW s \in S, NEW x, x \notin S,
         NEW T, \A e : e \in T <=> e = x \/ (e \in S /\ e # s)
  PROVE  Cardinality(T) = Cardinality(S)
  <1>1. Cardinality(S) \in Nat
      BY FS_CardinalityType
  <1>2. Cardinality(S \ {s}) = Cardinality(S) - 1 /\ IsFiniteSet(S \ {s})
      BY FS_RemoveElement
  <1> DEFINE U == S \ {s}
  <1>3. x \notin U /\ IsFiniteSet(U)
      BY <1>2
  <1>4. T = U \cup {x}
      OBVIOUS
  <1>5. Cardinality(U) = Cardinality(S) - 1
      BY <1>2
  <1> HIDE DEF U
  <1>6. Cardinality(U \cup {x}) = Cardinality(U) + 1
      BY <1>3, FS_AddElement
  <1> QED
      BY <1>1, <1>4, <1>5, <1>6

\* An entry moves to a place that is free.
LEMMA MoveKeeps ==
  ASSUME NEW d, DbInv(d), NEW b \in DbShape, NEW s \in d.dirents, NEW x \in Entry,
         b.dirents = (d.dirents \ {s}) \cup {x}, DOMAIN b.inodes = DOMAIN d.inodes,
         b.targets = d.targets, x.id = s.id, x.child = s.child, x.parent \in DirsOf(d),
         \A e \in d.dirents : ~(e.parent = x.parent /\ e.name = x.name),
         s.child \in DirsOf(d) =>
           \A S \in SUBSET (DirsOf(d) \ {Root}) :
             x.parent \in S =>
               \E e \in d.dirents : e.child \in S /\ e.child # s.child /\ e.parent \notin S,
         \A j \in DOMAIN d.inodes :
           /\ b.inodes[j].kind = d.inodes[j].kind
           /\ b.inodes[j].nlink =
                IF s.child \in DirsOf(d) /\ s.parent # x.parent /\ j = s.parent
                THEN d.inodes[j].nlink - 1
                ELSE IF s.child \in DirsOf(d) /\ s.parent # x.parent /\ j = x.parent
                THEN d.inodes[j].nlink + 1
                ELSE d.inodes[j].nlink
  PROVE  DbInv(b)
  <1> DEFINE c == x.child
  <1>0. StructInv(d) /\ Counted(d) /\ IsFiniteSet(d.dirents) /\ Placed(d)
      BY DEF DbInv, StructInv
  <1>1. StructInv(b) /\ DirsOf(b) = DirsOf(d)
      BY <1>0, EntryMoves
  <1>2. x \notin d.dirents
      OBVIOUS
  <1>3. ASSUME NEW j \in DOMAIN b.inodes
        PROVE  b.inodes[j].nlink = IF j \in DirsOf(b) THEN 2 + Cardinality(Subdirs(b, j))
                                                      ELSE Cardinality(NamesFor(b, j))
    <2>0. /\ IsFiniteSet(Subdirs(d, j)) /\ Cardinality(Subdirs(d, j)) \in Nat
          /\ IsFiniteSet(NamesFor(d, j)) /\ Cardinality(NamesFor(d, j)) \in Nat
          /\ x \notin Subdirs(d, j) /\ x \notin NamesFor(d, j)
          /\ d.inodes[j].nlink = IF j \in DirsOf(d) THEN 2 + Cardinality(Subdirs(d, j))
                                                    ELSE Cardinality(NamesFor(d, j))
      <3>1. x \notin Subdirs(d, j) /\ x \notin NamesFor(d, j)
          BY <1>2 DEF Subdirs, NamesFor
      <3> QED
          BY <1>0, <3>1, Countable DEF Counted
    <2>1. Cardinality(NamesFor(b, j)) = Cardinality(NamesFor(d, j))
      <3>1. CASE j = c
        <4>1. \A e : e \in NamesFor(b, j) <=> e = x \/ (e \in NamesFor(d, j) /\ e # s)
            BY <3>1 DEF NamesFor
        <4>2. s \in NamesFor(d, j)
            BY <3>1 DEF NamesFor
        <4> QED
            BY <2>0, <4>1, <4>2, Exchange
      <3>2. CASE j # c
        <4>1. NamesFor(b, j) = NamesFor(d, j)
            BY <3>2 DEF NamesFor
        <4> QED
            BY <4>1
      <3> QED
          BY <3>1, <3>2
    <2>2. CASE c \notin DirsOf(d) \/ (j # s.parent /\ j # x.parent)
      <3>1. Subdirs(b, j) = Subdirs(d, j)
          BY <1>1, <2>2 DEF Subdirs
      <3> QED
          BY <1>1, <2>0, <2>1, <2>2, <3>1
    <2>3. CASE c \in DirsOf(d) /\ j = s.parent /\ j = x.parent
      <3>0. s \in Subdirs(d, j)
          BY <2>3 DEF Subdirs
      <3>1. \A e : e \in Subdirs(b, j) <=> e = x \/ (e \in Subdirs(d, j) /\ e # s)
          BY <1>1, <2>3 DEF Subdirs
      <3>2. Cardinality(Subdirs(b, j)) = Cardinality(Subdirs(d, j))
          BY <2>0, <3>0, <3>1, Exchange
      <3> QED
          BY <1>1, <2>0, <2>1, <2>3, <3>2
    <2>4. CASE c \in DirsOf(d) /\ j = s.parent /\ j # x.parent
      <3>0. j \in DirsOf(d)
          BY <1>0, <2>4 DEF Placed
      <3>1. Subdirs(b, j) = Subdirs(d, j) \ {s}
          BY <1>1, <2>4 DEF Subdirs
      <3>2. s \in Subdirs(d, j)
          BY <2>4 DEF Subdirs
      <3>3. Cardinality(Subdirs(d, j) \ {s}) = Cardinality(Subdirs(d, j)) - 1
          BY <2>0, <3>2, FS_RemoveElement
      <3>4. Cardinality(Subdirs(b, j)) = Cardinality(Subdirs(d, j)) - 1
          BY <3>1, <3>3
      <3> QED
          BY <1>1, <2>0, <2>4, <3>0, <3>4
    <2>5. CASE c \in DirsOf(d) /\ j # s.parent /\ j = x.parent
      <3>1. Subdirs(b, j) = Subdirs(d, j) \cup {x}
          BY <1>1, <2>5 DEF Subdirs
      <3>3. Cardinality(Subdirs(d, j) \cup {x}) = Cardinality(Subdirs(d, j)) + 1
          BY <2>0, FS_AddElement
      <3>2. Cardinality(Subdirs(b, j)) = Cardinality(Subdirs(d, j)) + 1
          BY <3>1, <3>3
      <3> QED
          BY <1>1, <2>0, <2>5, <3>2
    <2> QED
        BY <2>2, <2>3, <2>4, <2>5
  <1> QED
      BY <1>1, <1>3 DEF DbInv, StructInv, Counted

------------------------------------------------------------------------------
(* Requests *)

\* How entries come and go between databases d and b: they come, or they go, or one
\* moves under its id, and then no other entry for its inode goes.
MovesKeepId(d, b) ==
  \/ d.dirents \subseteq b.dirents
  \/ b.dirents \subseteq d.dirents
  \/ \E s \in d.dirents :
       /\ \A f \in b.dirents : f \in d.dirents \/ (f.id = s.id /\ f.child = s.child)
       /\ \A e \in d.dirents : e = s \/ e \in b.dirents \/ e.child # s.child

\* What a step leaves: a sound database, open files that exist, at most one entry
\* less, and entries that keep their ids.
Kept ==
  /\ DbInv(db')
  /\ \A j \in open' : j \in DOMAIN db'.inodes /\ db'.inodes[j].kind = "file"
  /\ \E z : Ids(db) \ Ids(db') \subseteq {z}
  /\ MovesKeepId(db, db')

\* The entry an insert makes.
NewEntry(p, n, i) == [id |-> NewId, parent |-> p, name |-> n, child |-> i]

\* Its id and its place are free.
LEMMA EntryFresh ==
  ASSUME DbInv(db), NewId <= MaxId, NEW p \in DirsOf(db), NEW n \in Name, NEW i \in Ino,
         ~Has(p, n)
  PROVE  /\ NewEntry(p, n, i) \in Entry
         /\ \A e \in db.dirents : e.id # NewId /\ ~(e.parent = p /\ e.name = n)
  <1> DEFINE S == {e.id : e \in db.dirents}
  <1>1. db.dirents \subseteq Entry /\ p \in Ino
      BY Shape DEF DbInv, DirsOf
  <1>2. S \subseteq 0 .. MaxId /\ MaxId \in Nat
      BY <1>1, NamespaceAssumption DEF Entry
  <1>3. NextRow(S) \in Nat \ {0} /\ NextRow(S) \notin S
    <2> HIDE DEF S
    <2> QED
        BY <1>2, NextRowFree
  <1>4. NewId = NextRow(S)
      BY DEF NewId
  <1>5. NewId \in 1 .. MaxId /\ \A e \in db.dirents : e.id # NewId
    <2>1. \A e \in db.dirents : e.id \in S
        OBVIOUS
    <2> HIDE DEF S
    <2> QED
        BY <1>2, <1>3, <1>4, <2>1
  <1> QED
      BY <1>1, <1>5 DEF NewEntry, Entry, Has

\* The number of a new inode is free.
LEMMA NewInoFree ==
  ASSUME DbInv(db), NewIno <= MaxIno
  PROVE  NewIno \in Ino /\ NewIno \notin Inodes
  <1>1. Inodes \subseteq 0 .. MaxIno /\ MaxIno \in Nat
      BY Shape, NamespaceAssumption DEF DbInv, Inodes, Ino
  <1>2. NextRow(Inodes) \in Nat \ {0} /\ NextRow(Inodes) \notin Inodes
      BY <1>1, NextRowFree
  <1> QED
      BY <1>1, <1>2 DEF NewIno, Ino

\* mkdir, create, mknod and symlink.
LEMMA CreateNodeStep ==
  ASSUME TreeInv, NEW p \in Dirs, NEW n \in Name, NEW kind \in Kind, CreateNode(p, n, kind)
  PROVE  Kept
  <1> DEFINE i   == NewIno
             x   == NewEntry(p, n, i)
             row == [kind |-> kind, nlink |-> IF kind = "dir" THEN 2 ELSE 1]
             f   == WithRow(db.inodes, i, row)
             T   == IF kind = "symlink" THEN db.targets \cup {i} ELSE db.targets
             D   == DOMAIN db.inodes \cup {i}
             E   == db.dirents \cup {x}
             new == [db EXCEPT !.inodes = f, !.targets = T]
             b   == WithEntry(new, p, n, i)
  <1>0. DbInv(db) /\ db \in DbShape /\ p \in DirsOf(db)
      BY DEF TreeInv, DbInv, Dirs, IsDir, Inodes, DirsOf
  <1>1. /\ db.inodes \in [DOMAIN db.inodes -> IntRow] /\ DOMAIN db.inodes \subseteq Ino
        /\ db.dirents \subseteq Entry /\ db.targets \subseteq Ino
      BY <1>0, Shape
  <1>2. i \in Ino /\ i \notin DOMAIN db.inodes
      BY <1>0, NewInoFree DEF CreateNode, Inodes
  <1>3. x \in Entry /\ \A e \in db.dirents : e.id # x.id /\ ~(e.parent = p /\ e.name = n)
      BY <1>0, <1>2, EntryFresh DEF CreateNode, NewEntry
  <1>4. x.parent = p /\ x.name = n /\ x.child = i
      BY DEF NewEntry
  <1>5. /\ D \in SUBSET Ino /\ f \in [D -> IntRow] /\ f[i] = row
        /\ \A j \in DOMAIN db.inodes : f[j] = db.inodes[j]
      BY <1>1, <1>2 DEF WithRow, IntRow
  <1>6. E \in SUBSET Entry /\ T \in SUBSET Ino
      BY <1>1, <1>2, <1>3
  <1>7. db' = IF kind = "dir" THEN AddDirectoryNlink(b, p, 1) ELSE b
      BY DEF CreateNode
  <1>8. b \in DbShape /\ b.inodes = f /\ b.dirents = E /\ b.targets = T
    <2>1. new \in DbShape /\ new.inodes = f /\ new.dirents = db.dirents /\ new.targets = T
      <3>1. D \in SUBSET Ino /\ f \in [D -> IntRow] /\ T \in SUBSET Ino /\ db \in DbShape
          BY <1>0, <1>5, <1>6
      <3>2. f \in RowMap
        <4> HIDE DEF f, D
        <4> QED
            BY <3>1 DEF RowMap
      <3> HIDE DEF f, T, D
      <3> QED
          BY <3>1, <3>2 DEF DbShape
    <2>2. b = SetEntries(new, new.dirents \cup {x})
        BY DEF WithEntry, NewEntry, SetEntries
    <2> HIDE DEF new, f, T, x, b
    <2>3. new.dirents \cup {x} \in SUBSET Entry
        BY <1>6, <2>1
    <2>4. new \in DbShape
        BY <2>1
    <2>5. /\ b \in DbShape /\ b.inodes = new.inodes /\ b.dirents = new.dirents \cup {x}
          /\ b.targets = new.targets
        BY <2>2, <2>3, <2>4, EntriesSet
    <2> QED
        BY <2>1, <2>5
  <1>9. DOMAIN f = D /\ p \in DOMAIN db.inodes /\ p # i
      BY <1>0, <1>2, <1>5 DEF DirsOf
  <1> HIDE DEF f, b
  <1>10. /\ db' \in DbShape /\ DOMAIN db'.inodes = D /\ db'.dirents = E /\ db'.targets = T
         /\ db'.inodes[i].kind = kind /\ db'.inodes[i].nlink = IF kind = "dir" THEN 2 ELSE 1
         /\ \A j \in DOMAIN db.inodes :
              /\ db'.inodes[j].kind = db.inodes[j].kind
              /\ db'.inodes[j].nlink = IF kind = "dir" /\ j = p
                                       THEN db.inodes[j].nlink + 1 ELSE db.inodes[j].nlink
    <2>1. CASE kind = "dir"
      <3>1. p \in DOMAIN b.inodes
          BY <1>8, <1>9
      <3> DEFINE g == AddNlink(b, p, 1)
      <3>2. db' = g
          BY <1>7, <2>1, <3>1 DEF AddDirectoryNlink, AddNlink
      <3>3. b \in DbShape
          BY <1>8
      <3>4. /\ g \in DbShape /\ DOMAIN g.inodes = DOMAIN b.inodes
            /\ g.dirents = b.dirents /\ g.targets = b.targets
            /\ g.inodes[p].kind = b.inodes[p].kind
            /\ g.inodes[p].nlink = b.inodes[p].nlink + 1
            /\ \A j \in DOMAIN b.inodes : j # p => g.inodes[j] = b.inodes[j]
          BY <3>1, <3>3, NlinkAdded
      <3> HIDE DEF g
      <3> QED
          BY <1>5, <1>8, <1>9, <2>1, <3>2, <3>4
    <2>2. CASE kind # "dir"
      <3>1. db' = b
          BY <1>7, <2>2
      <3> QED
          BY <1>5, <1>8, <1>9, <2>2, <3>1
    <2> QED
        BY <2>1, <2>2
  <1> HIDE DEF x
  <1>11. DbInv(db')
    <2>1. \A j : j \in db'.targets <=> j \in db.targets \/ (kind = "symlink" /\ j = x.child)
        BY <1>4, <1>10
    <2> HIDE DEF T
    <2> QED
        BY <1>0, <1>2, <1>3, <1>4, <1>10, <2>1, CreateKeeps
  <1>12. open' = open /\ \A j \in open : j \in DOMAIN db.inodes /\ db.inodes[j].kind = "file"
      BY DEF CreateNode, TreeInv, OpenInv, Inodes
  <1>13. Ids(db) \ Ids(db') \subseteq {0}
      BY <1>10 DEF Ids
  <1>14. MovesKeepId(db, db')
      BY <1>10 DEF MovesKeepId
  <1> QED
      BY <1>10, <1>11, <1>12, <1>13, <1>14 DEF Kept

\* link.
LEMMA LinkStep ==
  ASSUME TreeInv, NEW p \in Dirs, NEW n \in Name, NEW i \in Inodes, Link(i, p, n)
  PROVE  Kept
  <1> DEFINE x == NewEntry(p, n, i)
             E == db.dirents \cup {x}
             b == AddNlink(db, i, 1)
  <1>0. /\ DbInv(db) /\ db \in DbShape /\ p \in DirsOf(db)
        /\ i \in DOMAIN db.inodes /\ i \notin DirsOf(db)
      BY DEF TreeInv, DbInv, Dirs, IsDir, Inodes, DirsOf, Link
  <1>1. DOMAIN db.inodes \subseteq Ino /\ db.dirents \subseteq Entry
      BY <1>0, Shape
  <1>2. x \in Entry /\ \A e \in db.dirents : e.id # x.id /\ ~(e.parent = p /\ e.name = n)
      BY <1>0, <1>1, EntryFresh DEF Link, NewEntry
  <1>3. x.parent = p /\ x.name = n /\ x.child = i
      BY DEF NewEntry
  <1>4. /\ b \in DbShape /\ DOMAIN b.inodes = DOMAIN db.inodes
        /\ b.dirents = db.dirents /\ b.targets = db.targets
        /\ b.inodes[i].kind = db.inodes[i].kind
        /\ b.inodes[i].nlink = db.inodes[i].nlink + 1
        /\ \A j \in DOMAIN db.inodes : j # i => b.inodes[j] = db.inodes[j]
      BY <1>0, NlinkAdded
  <1>5. db' = SetEntries(b, b.dirents \cup {x})
      BY DEF Link, WithEntry, NewEntry, SetEntries, AddNlink
  <1> HIDE DEF b, x
  <1>6. b.dirents \cup {x} \in SUBSET Entry
      BY <1>1, <1>2, <1>4
  <1>7. /\ db' \in DbShape /\ db'.inodes = b.inodes /\ db'.dirents = b.dirents \cup {x}
        /\ db'.targets = b.targets
      BY <1>4, <1>5, <1>6, EntriesSet
  <1>8. /\ DOMAIN db'.inodes = DOMAIN db.inodes /\ db'.dirents = db.dirents \cup {x}
        /\ db'.targets = db.targets
        /\ db'.inodes[i].kind = db.inodes[i].kind
        /\ db'.inodes[i].nlink = db.inodes[i].nlink + 1
        /\ \A j \in DOMAIN db.inodes : j # i => db'.inodes[j] = db.inodes[j]
      BY <1>4, <1>7
  <1>9. DbInv(db')
    <2>1. db' \in DbShape
        BY <1>7
    <2> QED
        BY <1>0, <1>2, <1>3, <1>8, <2>1, LinkKeeps
  <1>10. open' = open /\ \A j \in open : j \in DOMAIN db.inodes /\ db.inodes[j].kind = "file"
      BY DEF Link, TreeInv, OpenInv, Inodes
  <1>11. Ids(db) \ Ids(db') \subseteq {0}
      BY <1>8 DEF Ids
  <1>12. MovesKeepId(db, db')
      BY <1>8 DEF MovesKeepId
  <1> QED
      BY <1>8, <1>9, <1>10, <1>11, <1>12 DEF Kept

\* A name that exists is found.
LEMMA LookupIs ==
  ASSUME NEW p, NEW n, Has(p, n)
  PROVE  Lookup(p, n) \in db.dirents /\ Lookup(p, n).parent = p /\ Lookup(p, n).name = n
  BY DEF Has, Lookup

\* What drop_unlinked_inode leaves once entry x is gone: one name less of the
\* inode it named, or no such inode.
AfterDrop(d, x) ==
  \/ /\ x.child \notin DirsOf(db) /\ d \in DbShape /\ DOMAIN d.inodes = DOMAIN db.inodes
     /\ d.dirents = db.dirents \ {x} /\ d.targets = db.targets
     /\ d.inodes[x.child].kind = db.inodes[x.child].kind
     /\ d.inodes[x.child].nlink = db.inodes[x.child].nlink - 1
     /\ \A j \in DOMAIN db.inodes : j # x.child => d.inodes[j] = db.inodes[j]
  \/ /\ x.child \in DirsOf(db) \/ (db.inodes[x.child].nlink <= 1 /\ x.child \notin open)
     /\ d \in DbShape /\ DOMAIN d.inodes = DOMAIN db.inodes \ {x.child}
     /\ d.dirents = {e \in db.dirents \ {x} : e.parent # x.child /\ e.child # x.child}
     /\ d.targets = db.targets \ {x.child}
     /\ \A j \in DOMAIN d.inodes : d.inodes[j] = db.inodes[j]

\* drop_unlinked_inode for the file that entry x named, or for the empty
\* directory; then the parent's count is not yet right.
LEMMA Dropped ==
  ASSUME DbInv(db), NEW x \in db.dirents,
         NEW d, d = DropUnlinkedInode([db EXCEPT !.dirents = @ \ {x}], x.child, x.child \in open)
  PROVE  AfterDrop(d, x)
  <1> DEFINE c == x.child
             g == SetEntries(db, db.dirents \ {x})
  <1>0. /\ db \in DbShape /\ db.dirents \ {x} \in SUBSET Entry /\ c \in DOMAIN db.inodes
        /\ db.inodes[c].nlink \in Int
      BY Shape DEF DbInv, Placed
  <1>1. /\ g \in DbShape /\ g.inodes = db.inodes /\ g.dirents = db.dirents \ {x}
        /\ g.targets = db.targets
      BY <1>0, EntriesSet
  <1>2. d = DropUnlinkedInode(g, c, c \in open)
      BY DEF SetEntries
  <1> HIDE DEF g
  <1>3. g \in DbShape /\ c \in DOMAIN g.inodes
      BY <1>0, <1>1
  <1>4. CASE g.inodes[c].kind # "dir" /\ (g.inodes[c].nlink > 1 \/ c \in open)
    <2>1. d = [g EXCEPT !.inodes[c].nlink = @ - 1]
        BY <1>2, <1>4 DEF DropUnlinkedInode
    <2> DEFINE k == AddNlink(g, c, -1)
    <2>2. d = k
      <3>1. g.inodes[c].nlink - 1 = g.inodes[c].nlink + (-1)
          BY <1>0, <1>1
      <3> QED
          BY <2>1, <3>1 DEF AddNlink
    <2>6. /\ k \in DbShape /\ DOMAIN k.inodes = DOMAIN g.inodes
          /\ k.dirents = g.dirents /\ k.targets = g.targets
          /\ k.inodes[c].kind = g.inodes[c].kind
          /\ k.inodes[c].nlink = g.inodes[c].nlink + (-1)
          /\ \A j \in DOMAIN g.inodes : j # c => k.inodes[j] = g.inodes[j]
        BY <1>3, NlinkAdded
    <2> HIDE DEF k
    <2>3. /\ d \in DbShape /\ DOMAIN d.inodes = DOMAIN g.inodes
          /\ d.dirents = g.dirents /\ d.targets = g.targets
          /\ d.inodes[c].kind = g.inodes[c].kind
          /\ d.inodes[c].nlink = g.inodes[c].nlink + (-1)
          /\ \A j \in DOMAIN g.inodes : j # c => d.inodes[j] = g.inodes[j]
        BY <2>2, <2>6
    <2>4. c \notin DirsOf(db)
        BY <1>1, <1>4 DEF DirsOf
    <2>5. d.inodes[c].nlink = db.inodes[c].nlink - 1
        BY <1>0, <1>1, <2>3
    <2> QED
        BY <1>1, <2>3, <2>4, <2>5 DEF AfterDrop
  <1>5. CASE ~(g.inodes[c].kind # "dir" /\ (g.inodes[c].nlink > 1 \/ c \in open))
    <2> DEFINE k == DeleteInodeRows(g, c)
    <2>1. d = k
        BY <1>2, <1>5 DEF DropUnlinkedInode
    <2>5. /\ k \in DbShape /\ DOMAIN k.inodes = DOMAIN g.inodes \ {c}
          /\ \A j \in DOMAIN k.inodes : k.inodes[j] = g.inodes[j]
          /\ k.dirents = {e \in g.dirents : e.parent # c /\ e.child # c}
          /\ k.targets = g.targets \ {c}
        BY <1>3, RowsDeleted
    <2> HIDE DEF k
    <2>2. /\ d \in DbShape /\ DOMAIN d.inodes = DOMAIN g.inodes \ {c}
          /\ \A j \in DOMAIN d.inodes : d.inodes[j] = g.inodes[j]
          /\ d.dirents = {e \in g.dirents : e.parent # c /\ e.child # c}
          /\ d.targets = g.targets \ {c}
        BY <2>1, <2>5
    <2>3. c \in DirsOf(db) \/ (db.inodes[c].nlink <= 1 /\ c \notin open)
        BY <1>0, <1>1, <1>5 DEF DirsOf
    <2>4. d.dirents = {e \in db.dirents \ {x} : e.parent # c /\ e.child # c}
        BY <1>1, <2>2
    <2> QED
        BY <1>1, <2>2, <2>3, <2>4 DEF AfterDrop
  <1> QED
      BY <1>4, <1>5

\* unlink.
LEMMA UnlinkStep == ASSUME TreeInv, NEW p, NEW n, Unlink(p, n) PROVE Kept
  <1> DEFINE x == Lookup(p, n)
             d == DropUnlinkedInode([db EXCEPT !.dirents = @ \ {x}], x.child, x.child \in open)
  <1>0. /\ DbInv(db) /\ open' = open
        /\ \A j \in open : j \in DOMAIN db.inodes /\ db.inodes[j].kind = "file"
      BY DEF TreeInv, OpenInv, Inodes, Unlink
  <1>1. x \in db.dirents /\ x.child \in DOMAIN db.inodes /\ x.child \notin DirsOf(db)
    <2>1. x \in db.dirents /\ ~IsDir(x.child)
        BY LookupIs DEF Unlink
    <2> QED
        BY <1>0, <2>1 DEF DbInv, Placed, IsDir, DirsOf, Inodes
  <1>2. db' = d
      BY DEF Unlink
  <1> HIDE DEF x
  <1>3. AfterDrop(d, x)
    <2>1. DbInv(db) /\ x \in db.dirents
        BY <1>0, <1>1
    <2> QED
        BY <2>1, Dropped
  <1> HIDE DEF d
  <1>4. /\ DbInv(d) /\ d.dirents = db.dirents \ {x}
        /\ \A j \in open : j \in DOMAIN d.inodes /\ d.inodes[j].kind = "file"
    <2>1. CASE DOMAIN d.inodes = DOMAIN db.inodes
      <3>1. /\ d \in DbShape
            /\ d.dirents = db.dirents \ {x} /\ d.targets = db.targets
            /\ d.inodes[x.child].kind = db.inodes[x.child].kind
            /\ d.inodes[x.child].nlink = db.inodes[x.child].nlink - 1
            /\ \A j \in DOMAIN db.inodes : j # x.child => d.inodes[j] = db.inodes[j]
          BY <1>1, <1>3, <2>1 DEF AfterDrop
      <3>2. DbInv(d)
          BY <1>0, <1>1, <2>1, <3>1, DropKeeps
      <3> QED
          BY <1>0, <2>1, <3>1, <3>2
    <2>2. CASE DOMAIN d.inodes # DOMAIN db.inodes
      <3>1. /\ db.inodes[x.child].nlink <= 1 /\ x.child \notin open
            /\ d \in DbShape /\ DOMAIN d.inodes = DOMAIN db.inodes \ {x.child}
            /\ d.dirents = {e \in db.dirents \ {x} : e.parent # x.child /\ e.child # x.child}
            /\ d.targets = db.targets \ {x.child}
            /\ \A j \in DOMAIN d.inodes : d.inodes[j] = db.inodes[j]
          BY <1>1, <1>3, <2>2 DEF AfterDrop
      <3>2. \A j \in DOMAIN d.inodes :
              /\ d.inodes[j].kind = db.inodes[j].kind
              /\ d.inodes[j].nlink = IF x.child \in DirsOf(db) /\ j = x.parent
                                     THEN db.inodes[j].nlink - 1 ELSE db.inodes[j].nlink
          BY <1>1, <3>1
      <3>3. DbInv(d) /\ d.dirents = db.dirents \ {x}
          BY <1>0, <1>1, <3>1, <3>2, DeleteKeeps
      <3> QED
          BY <1>0, <3>1, <3>3
    <2> QED
        BY <2>1, <2>2
  <1>5. Ids(db) \ Ids(d) \subseteq {x.id}
      BY <1>4 DEF Ids
  <1>6. MovesKeepId(db, d)
      BY <1>4 DEF MovesKeepId
  <1> QED
      BY <1>0, <1>2, <1>4, <1>5, <1>6 DEF Kept

\* rmdir.
LEMMA RemoveDirStep == ASSUME TreeInv, NEW p, NEW n, RemoveDir(p, n) PROVE Kept
  <1> DEFINE x == Lookup(p, n)
             c == x.child
             g == SetEntries(db, db.dirents \ {x})
             h == DeleteInodeRows(g, c)
             d == AddDirectoryNlink(h, p, -1)
  <1>0. /\ DbInv(db) /\ open' = open /\ db \in DbShape
        /\ \A j \in open : j \in DOMAIN db.inodes /\ db.inodes[j].kind = "file"
      BY DEF TreeInv, OpenInv, Inodes, RemoveDir, DbInv
  <1>1. /\ x \in db.dirents /\ x.parent = p /\ c \in DirsOf(db)
        /\ \A e \in db.dirents : e.parent # c
      BY LookupIs DEF RemoveDir, IsDir, DirsOf, Inodes, Entries
  <1>2. db' = d
      BY DEF RemoveDir, SetEntries
  <1>3. /\ g \in DbShape /\ g.inodes = db.inodes /\ g.dirents = db.dirents \ {x}
        /\ g.targets = db.targets
    <2>1. db \in DbShape /\ db.dirents \ {x} \in SUBSET Entry
        BY <1>0, Shape
    <2> HIDE DEF x
    <2> QED
        BY <2>1, EntriesSet
  <1> HIDE DEF g
  <1>4. /\ h \in DbShape /\ DOMAIN h.inodes = DOMAIN g.inodes \ {c}
        /\ \A j \in DOMAIN h.inodes : h.inodes[j] = g.inodes[j]
        /\ h.dirents = {e \in g.dirents : e.parent # c /\ e.child # c}
        /\ h.targets = g.targets \ {c}
      BY <1>3, RowsDeleted
  <1> HIDE DEF h
  <1>5. p # c /\ p \in DOMAIN db.inodes /\ c \in DOMAIN db.inodes
      BY <1>0, <1>1 DEF DbInv, Placed, DirsOf
  <1>6. h \in DbShape /\ p \in DOMAIN h.inodes
      BY <1>3, <1>4, <1>5
  <1>7. /\ d \in DbShape /\ DOMAIN d.inodes = DOMAIN h.inodes
        /\ d.dirents = h.dirents /\ d.targets = h.targets
        /\ d.inodes[p].kind = h.inodes[p].kind
        /\ d.inodes[p].nlink = h.inodes[p].nlink + (-1)
        /\ \A j \in DOMAIN h.inodes : j # p => d.inodes[j] = h.inodes[j]
    <2>1. d = AddNlink(h, p, -1)
        BY <1>6 DEF AddDirectoryNlink, AddNlink
    <2> HIDE DEF d
    <2> QED
        BY <1>6, <2>1, NlinkAdded
  <1> HIDE DEF d, x
  <1>8. \A j \in DOMAIN d.inodes :
          /\ d.inodes[j].kind = db.inodes[j].kind
          /\ d.inodes[j].nlink = IF x.child \in DirsOf(db) /\ j = x.parent
                                 THEN db.inodes[j].nlink - 1 ELSE db.inodes[j].nlink
    <2>1. db.inodes[p].nlink \in Int
        BY <1>0, <1>5, Shape
    <2> QED
        BY <1>1, <1>3, <1>4, <1>6, <1>7, <2>1
  <1>9. /\ d \in DbShape /\ DOMAIN d.inodes = DOMAIN db.inodes \ {x.child}
        /\ d.dirents = {e \in db.dirents \ {x} : e.parent # x.child /\ e.child # x.child}
        /\ d.targets = db.targets \ {x.child}
      BY <1>3, <1>4, <1>7
  <1>10. DbInv(d) /\ d.dirents = db.dirents \ {x}
      BY <1>0, <1>1, <1>8, <1>9, DeleteKeeps
  <1>11. \A j \in open : j \in DOMAIN d.inodes /\ d.inodes[j].kind = "file"
      BY <1>0, <1>1, <1>8, <1>9 DEF DirsOf
  <1>12. Ids(db) \ Ids(d) \subseteq {x.id}
      BY <1>10 DEF Ids
  <1>13. MovesKeepId(db, d)
      BY <1>10 DEF MovesKeepId
  <1> QED
      BY <1>0, <1>2, <1>10, <1>11, <1>12, <1>13 DEF Kept

\* What a replacing rename does to the entry t in its way: apart from the count
\* of the parent, which it corrects last, an unlink or an rmdir.
LEMMA Replaced ==
  ASSUME TreeInv, NEW t \in db.dirents,
         t.child \in DirsOf(db) => \A e \in db.dirents : e.parent # t.child,
         NEW d, AfterDrop(d, t)
  PROVE  \E g : /\ DbInv(g) /\ g.dirents = db.dirents \ {t}
                /\ d \in DbShape /\ DOMAIN d.inodes = DOMAIN g.inodes
                /\ d.dirents = g.dirents /\ d.targets = g.targets
                /\ \A j \in DOMAIN g.inodes :
                     /\ j \in DOMAIN db.inodes
                     /\ g.inodes[j].kind = db.inodes[j].kind
                     /\ d.inodes[j].kind = db.inodes[j].kind
                     /\ d.inodes[j].nlink = IF t.child \in DirsOf(db) /\ j = t.parent
                                            THEN g.inodes[j].nlink + 1 ELSE g.inodes[j].nlink
                /\ \A j \in DOMAIN db.inodes : j # t.child => j \in DOMAIN g.inodes
                /\ t.child \notin DirsOf(g)
                /\ \A j \in open : j \in DOMAIN g.inodes
  <1>0. /\ DbInv(db) /\ t.child \in DOMAIN db.inodes /\ t.parent \in DOMAIN db.inodes
        /\ t.parent \in DirsOf(db)
        /\ \A j \in open : j \in DOMAIN db.inodes /\ db.inodes[j].kind = "file"
      BY DEF TreeInv, OpenInv, Inodes, DbInv, Placed, DirsOf
  <1>2. CASE DOMAIN d.inodes = DOMAIN db.inodes
    <2>1. /\ t.child \notin DirsOf(db) /\ d \in DbShape
          /\ d.dirents = db.dirents \ {t} /\ d.targets = db.targets
          /\ d.inodes[t.child].kind = db.inodes[t.child].kind
          /\ d.inodes[t.child].nlink = db.inodes[t.child].nlink - 1
          /\ \A j \in DOMAIN db.inodes : j # t.child => d.inodes[j] = db.inodes[j]
        BY <1>0, <1>2 DEF AfterDrop
    <2>2. DbInv(d)
      <3>1. DbInv(db) /\ d \in DbShape
          BY <1>0, <2>1
      <3> QED
          BY <1>2, <2>1, <3>1, DropKeeps
    <2>3. t.child \notin DirsOf(d)
        BY <1>2, <2>1 DEF DirsOf
    <2>4. \A j \in DOMAIN d.inodes : d.inodes[j].kind = db.inodes[j].kind
        BY <1>2, <2>1
    <2> WITNESS d
    <2> QED
        BY <1>0, <1>2, <2>1, <2>2, <2>3, <2>4
  <1>3. CASE DOMAIN d.inodes # DOMAIN db.inodes
    <2>1. /\ t.child \in DirsOf(db) \/ (db.inodes[t.child].nlink <= 1 /\ t.child \notin open)
          /\ d \in DbShape /\ DOMAIN d.inodes = DOMAIN db.inodes \ {t.child}
          /\ d.dirents = {e \in db.dirents \ {t} : e.parent # t.child /\ e.child # t.child}
          /\ d.targets = db.targets \ {t.child}
          /\ \A j \in DOMAIN d.inodes : d.inodes[j] = db.inodes[j]
        BY <1>3 DEF AfterDrop
    <2>2. \A j \in open : j # t.child
        BY <1>0, <2>1 DEF DirsOf
    <2>3. CASE t.child \notin DirsOf(db)
      <3>1. \A j \in DOMAIN d.inodes :
              /\ d.inodes[j].kind = db.inodes[j].kind
              /\ d.inodes[j].nlink = IF t.child \in DirsOf(db) /\ j = t.parent
                                     THEN db.inodes[j].nlink - 1 ELSE db.inodes[j].nlink
          BY <2>1, <2>3
      <3>2. DbInv(d) /\ d.dirents = db.dirents \ {t}
        <4>1. DbInv(db) /\ d \in DbShape /\ db.inodes[t.child].nlink <= 1
            BY <1>0, <2>1, <2>3
        <4> QED
            BY <2>1, <2>3, <3>1, <4>1, DeleteKeeps
      <3>3. t.child \notin DirsOf(d)
          BY <2>1 DEF DirsOf
      <3> WITNESS d
      <3> QED
          BY <1>0, <2>1, <2>2, <2>3, <3>1, <3>2, <3>3
    <2>4. CASE t.child \in DirsOf(db)
      <3> DEFINE q == t.parent
                 g == AddNlink(d, q, -1)
      <3>1. q \in DOMAIN d.inodes /\ d \in DbShape /\ db.inodes[q].nlink \in Int
        <4>1. q # t.child
            BY <2>4
        <4>2. db.inodes[q].nlink \in Int
            BY <1>0, Shape DEF DbInv
        <4> QED
            BY <1>0, <2>1, <4>1, <4>2
      <3>2. /\ g \in DbShape /\ DOMAIN g.inodes = DOMAIN d.inodes
            /\ g.dirents = d.dirents /\ g.targets = d.targets
            /\ g.inodes[q].kind = d.inodes[q].kind
            /\ g.inodes[q].nlink = d.inodes[q].nlink + (-1)
            /\ \A j \in DOMAIN d.inodes : j # q => g.inodes[j] = d.inodes[j]
        <4> HIDE DEF q
        <4> QED
            BY <3>1, NlinkAdded
      <3> HIDE DEF g
      <3>3. \A j \in DOMAIN g.inodes :
              /\ g.inodes[j].kind = db.inodes[j].kind
              /\ g.inodes[j].nlink = IF t.child \in DirsOf(db) /\ j = t.parent
                                     THEN db.inodes[j].nlink - 1 ELSE db.inodes[j].nlink
              /\ d.inodes[j].nlink = IF t.child \in DirsOf(db) /\ j = t.parent
                                     THEN g.inodes[j].nlink + 1 ELSE g.inodes[j].nlink
          BY <2>1, <2>4, <3>1, <3>2
      <3>4. /\ DOMAIN g.inodes = DOMAIN db.inodes \ {t.child}
            /\ g.dirents = {e \in db.dirents \ {t} : e.parent # t.child /\ e.child # t.child}
            /\ g.targets = db.targets \ {t.child} /\ g \in DbShape
          BY <2>1, <3>2
      <3>5. DbInv(g) /\ g.dirents = db.dirents \ {t}
        <4>1. DbInv(db)
            BY <1>0
        <4> QED
            BY <2>4, <3>3, <3>4, <4>1, DeleteKeeps
      <3>6. t.child \notin DirsOf(g)
          BY <3>4 DEF DirsOf
      <3> WITNESS g
      <3> QED
          BY <1>0, <2>1, <2>2, <3>2, <3>3, <3>4, <3>5, <3>6
    <2> QED
        BY <2>3, <2>4
  <1> QED
      BY <1>2, <1>3

\* The three corrections of link counts at the end of rename_entry, on a database
\* d in which the entry has moved already: a is whether a directory changes its
\* parent, z whether it replaces one.
Corrected(d, p, q, a, z) ==
  LET u == IF a THEN AddDirectoryNlink(AddDirectoryNlink(d, p, -1), q, 1) ELSE d
  IN  IF z THEN AddDirectoryNlink(u, q, -1) ELSE u

\* What they come to.
LEMMA Recounted ==
  ASSUME NEW d \in DbShape, NEW p \in DOMAIN d.inodes, NEW q \in DOMAIN d.inodes,
         NEW a \in BOOLEAN, NEW z \in BOOLEAN, a => p # q,
         NEW b, b = Corrected(d, p, q, a, z)
  PROVE  /\ b \in DbShape /\ DOMAIN b.inodes = DOMAIN d.inodes
         /\ b.dirents = d.dirents /\ b.targets = d.targets
         /\ \A j \in DOMAIN d.inodes :
              /\ b.inodes[j].kind = d.inodes[j].kind
              /\ b.inodes[j].nlink = d.inodes[j].nlink
                                     + (IF a /\ j = p THEN -1 ELSE IF a /\ j = q THEN 1 ELSE 0)
                                     + (IF z /\ j = q THEN -1 ELSE 0)
  <1> DEFINE v == AddNlink(d, p, -1)
             w == AddNlink(v, q, 1)
             u == IF a THEN w ELSE d
             y == AddNlink(u, q, -1)
  <1>0. \A j \in DOMAIN d.inodes : d.inodes[j].nlink \in Int
      BY Shape
  <1>1. /\ v \in DbShape /\ DOMAIN v.inodes = DOMAIN d.inodes
        /\ v.dirents = d.dirents /\ v.targets = d.targets
        /\ v.inodes[p].kind = d.inodes[p].kind
        /\ v.inodes[p].nlink = d.inodes[p].nlink + (-1)
        /\ \A j \in DOMAIN d.inodes : j # p => v.inodes[j] = d.inodes[j]
      BY NlinkAdded
  <1>2. v = AddDirectoryNlink(d, p, -1)
      BY DEF AddDirectoryNlink, AddNlink
  <1> HIDE DEF v
  <1>3. v \in DbShape /\ q \in DOMAIN v.inodes
      BY <1>1
  <1>4. /\ w \in DbShape /\ DOMAIN w.inodes = DOMAIN v.inodes
        /\ w.dirents = v.dirents /\ w.targets = v.targets
        /\ w.inodes[q].kind = v.inodes[q].kind
        /\ w.inodes[q].nlink = v.inodes[q].nlink + 1
        /\ \A j \in DOMAIN v.inodes : j # q => w.inodes[j] = v.inodes[j]
      BY <1>3, NlinkAdded
  <1>5. w = AddDirectoryNlink(v, q, 1)
      BY <1>3 DEF AddDirectoryNlink, AddNlink
  <1> HIDE DEF w
  <1>6. /\ u \in DbShape /\ DOMAIN u.inodes = DOMAIN d.inodes
        /\ u.dirents = d.dirents /\ u.targets = d.targets
        /\ \A j \in DOMAIN d.inodes :
             /\ u.inodes[j].kind = d.inodes[j].kind
             /\ u.inodes[j].nlink = d.inodes[j].nlink
                                    + (IF a /\ j = p THEN -1 ELSE IF a /\ j = q THEN 1 ELSE 0)
    <2>1. CASE a
        BY <1>0, <1>1, <1>4, <2>1
    <2>2. CASE ~a
        BY <1>0, <2>2
    <2> QED
        BY <2>1, <2>2
  <1>7. b = IF z THEN AddDirectoryNlink(u, q, -1) ELSE u
      BY <1>2, <1>5 DEF Corrected
  <1> HIDE DEF u
  <1>8. u \in DbShape /\ q \in DOMAIN u.inodes /\ \A j \in DOMAIN d.inodes : u.inodes[j].nlink \in Int
    <2>1. u \in DbShape /\ q \in DOMAIN u.inodes /\ DOMAIN u.inodes = DOMAIN d.inodes
        BY <1>6
    <2> QED
        BY <2>1, Shape
  <1>9. /\ y \in DbShape /\ DOMAIN y.inodes = DOMAIN u.inodes
        /\ y.dirents = u.dirents /\ y.targets = u.targets
        /\ y.inodes[q].kind = u.inodes[q].kind
        /\ y.inodes[q].nlink = u.inodes[q].nlink + (-1)
        /\ \A j \in DOMAIN u.inodes : j # q => y.inodes[j] = u.inodes[j]
      BY <1>8, NlinkAdded
  <1>10. y = AddDirectoryNlink(u, q, -1)
      BY <1>8 DEF AddDirectoryNlink, AddNlink
  <1> HIDE DEF y
  <1>11. CASE z
      BY <1>6, <1>7, <1>8, <1>9, <1>10, <1>11
  <1>12. CASE ~z
      BY <1>6, <1>7, <1>8, <1>12
  <1> QED
      BY <1>11, <1>12

\* d is g but for the count of q, which is too high by z: one when a directory was
\* replaced there.
OneHigh(d, g, q, z) ==
  /\ d \in DbShape /\ DOMAIN d.inodes = DOMAIN g.inodes
  /\ d.dirents = g.dirents /\ d.targets = g.targets
  /\ \A j \in DOMAIN g.inodes :
       /\ d.inodes[j].kind = g.inodes[j].kind
       /\ d.inodes[j].nlink = IF j = q THEN g.inodes[j].nlink + z ELSE g.inodes[j].nlink

\* The rest of the transaction of rename_entry: the move and the corrections.
Rest(d, g, s, q, m, z) ==
  Corrected(Moved(d, s, q, m), s.parent, q, s.child \in DirsOf(g) /\ s.parent # q, z = 1)

\* The place m of q is free, and no directory goes below itself.
FreeFor(g, s, q, m) ==
  /\ \A e \in g.dirents : ~(e.parent = q /\ e.name = m)
  /\ s.child \in DirsOf(g) =>
       \A S \in SUBSET (DirsOf(g) \ {Root}) :
         q \in S => \E e \in g.dirents : e.child \in S /\ e.child # s.child /\ e.parent \notin S

\* Of database b: it is sound, and it is g after s has moved, keeping its id.
MovedIn(g, b, s) ==
  /\ DbInv(b) /\ Ids(b) = Ids(g) /\ DOMAIN b.inodes = DOMAIN g.inodes
  /\ \A j \in DOMAIN g.inodes : b.inodes[j].kind = g.inodes[j].kind
  /\ \E x : x.id = s.id /\ x.child = s.child /\ b.dirents = (g.dirents \ {s}) \cup {x}

\* Then it keeps the invariant.
LEMMA MovedOver ==
  ASSUME NEW g, DbInv(g), NEW d, NEW z \in {0, 1}, NEW q \in DirsOf(g), OneHigh(d, g, q, z),
         NEW s \in g.dirents, NEW m \in Name,
         FreeFor(g, s, q, m),
         NEW b, b = Rest(d, g, s, q, m, z)
  PROVE  MovedIn(g, b, s)
  <1> DEFINE x == [s EXCEPT !.parent = q, !.name = m]
             p == s.parent
             E == (d.dirents \ {s}) \cup {x}
             v == SetEntries(d, E)
             a == s.child \in DirsOf(g) /\ s.parent # q
             y == z = 1
  <1>00. /\ d \in DbShape /\ DOMAIN d.inodes = DOMAIN g.inodes
         /\ d.dirents = g.dirents /\ d.targets = g.targets
         /\ \A j \in DOMAIN g.inodes :
              /\ d.inodes[j].kind = g.inodes[j].kind
              /\ d.inodes[j].nlink = IF j = q THEN g.inodes[j].nlink + z ELSE g.inodes[j].nlink
      BY DEF OneHigh
  <1>0. /\ g \in DbShape /\ g.dirents \subseteq Entry /\ DOMAIN g.inodes \subseteq Ino
        /\ p \in DOMAIN g.inodes /\ q \in DOMAIN g.inodes
        /\ \A j \in DOMAIN g.inodes : g.inodes[j].nlink \in Int
    <2>1. g \in DbShape
        BY DEF DbInv
    <2> QED
        BY <2>1, Shape DEF DbInv, Placed, DirsOf
  <1>1. /\ x \in Entry /\ x.id = s.id /\ x.child = s.child /\ x.parent = q /\ x.name = m
    <2>1. s \in Entry /\ q \in Ino
        BY <1>0
    <2> QED
        BY <2>1 DEF Entry
  <1>2. v = Moved(d, s, q, m)
      BY DEF Moved, SetEntries
  <1>3. E \in SUBSET Entry
      BY <1>00, <1>0, <1>1
  <1> HIDE DEF x
  <1>4. /\ v \in DbShape /\ v.inodes = d.inodes /\ v.dirents = E /\ v.targets = d.targets
    <2>1. d \in DbShape
        BY <1>00
    <2> HIDE DEF E
    <2> QED
        BY <1>3, <2>1, EntriesSet
  <1>5. b = Corrected(v, p, q, a, y)
      BY <1>2 DEF Rest
  <1>6. v \in DbShape /\ p \in DOMAIN v.inodes /\ q \in DOMAIN v.inodes /\ a \in BOOLEAN /\ y \in BOOLEAN
        /\ (a => p # q)
      BY <1>00, <1>0, <1>4
  <1> HIDE DEF v
  <1>7. /\ b \in DbShape /\ DOMAIN b.inodes = DOMAIN v.inodes
        /\ b.dirents = v.dirents /\ b.targets = v.targets
        /\ \A j \in DOMAIN v.inodes :
             /\ b.inodes[j].kind = v.inodes[j].kind
             /\ b.inodes[j].nlink = v.inodes[j].nlink
                                    + (IF a /\ j = p THEN -1 ELSE IF a /\ j = q THEN 1 ELSE 0)
                                    + (IF y /\ j = q THEN -1 ELSE 0)
    <2> HIDE DEF a, p, y
    <2> QED
        BY <1>5, <1>6, Recounted
  <1>8. /\ b \in DbShape /\ b.dirents = (g.dirents \ {s}) \cup {x}
        /\ DOMAIN b.inodes = DOMAIN g.inodes /\ b.targets = g.targets
      BY <1>00, <1>4, <1>7
  <1>9. \A j \in DOMAIN g.inodes :
          /\ b.inodes[j].kind = g.inodes[j].kind
          /\ b.inodes[j].nlink =
               IF s.child \in DirsOf(g) /\ s.parent # x.parent /\ j = s.parent
               THEN g.inodes[j].nlink - 1
               ELSE IF s.child \in DirsOf(g) /\ s.parent # x.parent /\ j = x.parent
               THEN g.inodes[j].nlink + 1
               ELSE g.inodes[j].nlink
    <2> TAKE j \in DOMAIN g.inodes
    <2> DEFINE N == g.inodes[j].nlink
               K == d.inodes[j].nlink
    <2>1. /\ b.inodes[j].kind = g.inodes[j].kind
          /\ b.inodes[j].nlink = K + (IF a /\ j = p THEN -1 ELSE IF a /\ j = q THEN 1 ELSE 0)
                                   + (IF y /\ j = q THEN -1 ELSE 0)
        BY <1>00, <1>4, <1>7
    <2>2. N \in Int /\ K = IF j = q THEN N + z ELSE N
        BY <1>00, <1>0
    <2> HIDE DEF N, K
    <2>3. b.inodes[j].nlink = IF a /\ j = p THEN N - 1 ELSE IF a /\ j = q THEN N + 1 ELSE N
        BY <2>1, <2>2
    <2> QED
        BY <1>1, <2>1, <2>3 DEF N
  <1>10. /\ x \in Entry /\ x.id = s.id /\ x.child = s.child /\ x.parent \in DirsOf(g)
         /\ \A e \in g.dirents : ~(e.parent = x.parent /\ e.name = x.name)
         /\ s.child \in DirsOf(g) =>
              \A S \in SUBSET (DirsOf(g) \ {Root}) :
                x.parent \in S =>
                  \E e \in g.dirents : e.child \in S /\ e.child # s.child /\ e.parent \notin S
      BY <1>1 DEF FreeFor
  <1>11. DbInv(b)
      BY <1>8, <1>9, <1>10, MoveKeeps
  <1>12. Ids(b) = Ids(g)
      BY <1>1, <1>8 DEF Ids
  <1> QED
      BY <1>1, <1>8, <1>9, <1>11, <1>12 DEF MovedIn

\* rename to a free name.
LEMMA RenameFree ==
  ASSUME TreeInv, NEW p, NEW n, NEW q, NEW m \in Name, NEW r, Rename(p, n, q, m, r), ~Has(q, m)
  PROVE  Kept
  <1> DEFINE s == Lookup(p, n)
             z == 0
             b == Rest(db, db, s, q, m, z)
  <1>0. /\ DbInv(db) /\ open' = open /\ db \in DbShape
        /\ \A j \in open : j \in DOMAIN db.inodes /\ db.inodes[j].kind = "file"
      BY DEF TreeInv, OpenInv, Inodes, Rename, DbInv
  <1>1. s \in db.dirents /\ s.parent = p /\ q \in DirsOf(db)
      BY LookupIs DEF Rename, IsDir, DirsOf, Inodes
  <1>2. IsDir(s.child) <=> s.child \in DirsOf(db)
      BY DEF IsDir, DirsOf, Inodes
  <1>3. db' = b
      BY <1>1, <1>2 DEF Rename, Renamed, Rest, Corrected
  <1>4. s.child \in DirsOf(db) => ~IsDescendant(q, s.child)
      BY <1>2 DEF Rename
  <1> HIDE DEF s
  <1>5. s.child \in DirsOf(db) =>
          \A S \in SUBSET (DirsOf(db) \ {Root}) :
            q \in S => \E e \in db.dirents : e.child \in S /\ e.child # s.child /\ e.parent \notin S
      BY <1>0, <1>1, <1>4, Escapes
  <1>6. \A e \in db.dirents : ~(e.parent = q /\ e.name = m)
      BY DEF Has
  <1>7. OneHigh(db, db, q, z)
    <2>1. \A j \in DOMAIN db.inodes : db.inodes[j].nlink \in Int
        BY <1>0, Shape
    <2> QED
        BY <1>0, <2>1 DEF OneHigh
  <1>8. MovedIn(db, b, s)
    <2>1. DbInv(db) /\ s \in db.dirents /\ q \in DirsOf(db) /\ z \in {0, 1}
        BY <1>0, <1>1
    <2>2. FreeFor(db, s, q, m)
        BY <1>5, <1>6 DEF FreeFor
    <2> HIDE DEF z
    <2> QED
        BY <1>7, <2>1, <2>2, MovedOver
  <1> HIDE DEF b
  <1>9. Ids(db) \ Ids(b) \subseteq {0}
      BY <1>8 DEF MovedIn
  <1>10. MovesKeepId(db, b)
      BY <1>1, <1>8 DEF MovesKeepId, MovedIn
  <1> QED
      BY <1>0, <1>3, <1>8, <1>9, <1>10 DEF Kept, MovedIn

\* rename over another entry.
LEMMA RenameOver ==
  ASSUME TreeInv, NEW p, NEW n, NEW q, NEW m \in Name, NEW r, Rename(p, n, q, m, r), Has(q, m)
  PROVE  Kept
  <1> DEFINE s == Lookup(p, n)
             t == Lookup(q, m)
             d == DropUnlinkedInode([db EXCEPT !.dirents = @ \ {t}], t.child, t.child \in open)
             z == IF t.child \in DirsOf(db) THEN 1 ELSE 0
             a == s.child \in DirsOf(db) /\ s.parent # q
             b == Corrected(Moved(d, s, q, m), s.parent, q, a, z = 1)
  <1>0. /\ DbInv(db) /\ open' = open /\ db \in DbShape
        /\ \A j \in open : j \in DOMAIN db.inodes /\ db.inodes[j].kind = "file"
      BY DEF TreeInv, OpenInv, Inodes, Rename, DbInv
  <1>1. /\ s \in db.dirents /\ s.parent = p /\ q \in DirsOf(db)
        /\ t \in db.dirents /\ t.parent = q /\ t.name = m
      BY LookupIs DEF Rename, IsDir, DirsOf, Inodes
  <1>2. \A i : IsDir(i) <=> i \in DirsOf(db)
      BY DEF IsDir, DirsOf, Inodes
  <1>3. /\ s.child \in DirsOf(db) <=> t.child \in DirsOf(db)
        /\ s.child \in DirsOf(db) => \A e \in db.dirents : e.parent # t.child
        /\ s.child \in DirsOf(db) => ~IsDescendant(q, s.child)
        /\ t.child # s.child
      BY <1>2 DEF Rename, MayReplace, Entries
  <1>4. db' = b
    <2>1. /\ IsDir(s.child) /\ p # q <=> a
          /\ IsDir(t.child) <=> z = 1
        BY <1>1, <1>2
    <2>2. db' = Renamed(p, s, q, m)
        BY DEF Rename
    <2> HIDE DEF s, a, z
    <2> QED
        BY <1>1, <2>1, <2>2 DEF Renamed, Corrected
  <1> HIDE DEF s, t
  <1>5. AfterDrop(d, t)
    <2>1. DbInv(db) /\ t \in db.dirents
        BY <1>0, <1>1
    <2> QED
        BY <2>1, Dropped
  <1> HIDE DEF d
  <1>6. PICK g : /\ DbInv(g) /\ g.dirents = db.dirents \ {t}
                 /\ d \in DbShape /\ DOMAIN d.inodes = DOMAIN g.inodes
                 /\ d.dirents = g.dirents /\ d.targets = g.targets
                 /\ \A j \in DOMAIN g.inodes :
                      /\ j \in DOMAIN db.inodes
                      /\ g.inodes[j].kind = db.inodes[j].kind
                      /\ d.inodes[j].kind = db.inodes[j].kind
                      /\ d.inodes[j].nlink = IF t.child \in DirsOf(db) /\ j = t.parent
                                             THEN g.inodes[j].nlink + 1 ELSE g.inodes[j].nlink
                 /\ \A j \in DOMAIN db.inodes : j # t.child => j \in DOMAIN g.inodes
                 /\ t.child \notin DirsOf(g)
                 /\ \A j \in open : j \in DOMAIN g.inodes
    <2>1. t \in db.dirents /\ (t.child \in DirsOf(db) => \A e \in db.dirents : e.parent # t.child)
        BY <1>1, <1>3
    <2> QED
        BY <1>5, <2>1, Replaced
  <1>7. DirsOf(g) = DirsOf(db) \ {t.child}
    <2>1. ASSUME NEW i \in DirsOf(db), i # t.child PROVE i \in DirsOf(g)
        BY <1>6, <2>1 DEF DirsOf
    <2>2. ASSUME NEW i \in DirsOf(g) PROVE i \in DirsOf(db)
        BY <1>6 DEF DirsOf
    <2> QED
        BY <1>6, <2>1, <2>2
  <1>8. s \in g.dirents /\ q \in DirsOf(g) /\ (s.child \in DirsOf(g) <=> s.child \in DirsOf(db))
    <2>1. q # t.child
        BY <1>1, <1>3
    <2> QED
        BY <1>1, <1>3, <1>6, <1>7, <2>1
  <1>9. s.child \in DirsOf(g) =>
          \A S \in SUBSET (DirsOf(g) \ {Root}) :
            q \in S => \E e \in g.dirents : e.child \in S /\ e.child # s.child /\ e.parent \notin S
    <2> SUFFICES ASSUME s.child \in DirsOf(g), NEW S \in SUBSET (DirsOf(g) \ {Root}), q \in S
                 PROVE  \E e \in g.dirents : e.child \in S /\ e.child # s.child /\ e.parent \notin S
        OBVIOUS
    <2>1. S \in SUBSET (DirsOf(db) \ {Root}) /\ t.child \notin S
        BY <1>7
    <2>2. ~IsDescendant(q, s.child) /\ q \in DirsOf(db) /\ DbInv(db)
        BY <1>0, <1>1, <1>3, <1>8
    <2>3. PICK e \in db.dirents : e.child \in S /\ e.child # s.child /\ e.parent \notin S
        BY <2>1, <2>2, Escapes
    <2> QED
        BY <1>6, <2>1, <2>3
  <1>10. \A e \in g.dirents : ~(e.parent = q /\ e.name = m)
      BY <1>0, <1>1, <1>6 DEF DbInv, Distinct
  <1>11. OneHigh(d, g, q, z)
    <2>1. \A j \in DOMAIN g.inodes : g.inodes[j].nlink \in Int
        BY <1>6, Shape DEF DbInv
    <2> QED
        BY <1>1, <1>6, <2>1 DEF OneHigh
  <1>12. b = Rest(d, g, s, q, m, z)
    <2>1. a = (s.child \in DirsOf(g) /\ s.parent # q)
        BY <1>8
    <2> HIDE DEF a
    <2> QED
        BY <2>1 DEF Rest
  <1>13. MovedIn(g, b, s)
    <2>1. DbInv(g) /\ z \in {0, 1} /\ s \in g.dirents /\ q \in DirsOf(g)
        BY <1>6, <1>8
    <2>2. FreeFor(g, s, q, m)
        BY <1>9, <1>10 DEF FreeFor
    <2> HIDE DEF b, z
    <2> QED
        BY <1>11, <1>12, <2>1, <2>2, MovedOver
  <1> HIDE DEF b
  <1>14. Ids(db) \ Ids(b) \subseteq {t.id}
    <2>1. Ids(db) \ Ids(g) \subseteq {t.id}
        BY <1>6 DEF Ids
    <2> QED
        BY <1>13, <2>1 DEF MovedIn
  <1>15. \A j \in open : j \in DOMAIN b.inodes /\ b.inodes[j].kind = "file"
      BY <1>0, <1>6, <1>13 DEF MovedIn
  <1>16. MovesKeepId(db, b)
      BY <1>1, <1>3, <1>6, <1>13 DEF MovesKeepId, MovedIn
  <1> QED
      BY <1>0, <1>4, <1>13, <1>14, <1>15, <1>16 DEF Kept, MovedIn

------------------------------------------------------------------------------
(* Every step *)

\* release, the sweep: an inode without a name goes.
LEMMA OrphanStep ==
  ASSUME TreeInv, NEW i, i \in DOMAIN db.inodes, db.inodes[i].nlink = 0,
         db' = DeleteInodeRows(db, i), open' \subseteq open, i \notin open'
  PROVE  Kept /\ Ids(db') = Ids(db)
  <1>0. /\ DbInv(db) /\ \A j \in open : j \in DOMAIN db.inodes /\ db.inodes[j].kind = "file"
      BY DEF TreeInv, OpenInv, Inodes
  <1> DEFINE b == DeleteInodeRows(db, i)
  <1>1. /\ DbInv(b) /\ b.dirents = db.dirents /\ DOMAIN b.inodes = DOMAIN db.inodes \ {i}
        /\ \A j \in DOMAIN b.inodes : b.inodes[j] = db.inodes[j]
    <2>1. DbInv(db)
        BY <1>0
    <2> QED
        BY <2>1, OrphanKeeps
  <1>2. db' = b
      OBVIOUS
  <1> HIDE DEF b
  <1>3. Ids(b) = Ids(db) /\ Ids(db) \ Ids(b) \subseteq {0}
      BY <1>1 DEF Ids
  <1>4. \A j \in open' : j \in DOMAIN b.inodes /\ b.inodes[j].kind = "file"
      BY <1>0, <1>1
  <1>5. MovesKeepId(db, b)
      BY <1>1 DEF MovesKeepId
  <1> QED
      BY <1>1, <1>2, <1>3, <1>4, <1>5 DEF Kept

\* A step that leaves the database alone.
LEMMA SameDb ==
  ASSUME TreeInv, db' = db, \A j \in open' : j \in DOMAIN db.inodes /\ db.inodes[j].kind = "file"
  PROVE  Kept /\ Ids(db') = Ids(db)
  <1>1. DbInv(db) /\ Ids(db) \ Ids(db) \subseteq {0}
      BY DEF TreeInv
  <1>2. MovesKeepId(db, db)
      BY DEF MovesKeepId
  <1> QED
      BY <1>1, <1>2 DEF Kept

\* The recount at startup finds every count as it is.
LEMMA RecountChangesNothing ==
  ASSUME TreeInv, RecomputeDirectoryNlink
  PROVE  db' = db
  <1>0. DbInv(db) /\ db \in DbShape
      BY DEF TreeInv, DbInv
  <1>1. /\ db.inodes \in [DOMAIN db.inodes -> IntRow]
        /\ db = [inodes |-> db.inodes, dirents |-> db.dirents, targets |-> db.targets]
      BY <1>0, Shape DEF DbShape
  <1> DEFINE f == [i \in Inodes |-> IF IsDir(i) THEN [db.inodes[i] EXCEPT !.nlink = 2 + SubdirCount(i)]
                                                ELSE db.inodes[i]]
  <1>2. db' = [db EXCEPT !.inodes = f]
      BY DEF RecomputeDirectoryNlink
  <1>3. ASSUME NEW i \in DOMAIN db.inodes PROVE f[i] = db.inodes[i]
    <2>1. CASE IsDir(i)
      <3>1. {e \in Entries(i) : IsDir(e.child)} = Subdirs(db, i)
          BY DEF Entries, Subdirs, IsDir, DirsOf, Inodes
      <3>2. db.inodes[i].nlink = 2 + SubdirCount(i)
        <4>1. i \in DirsOf(db)
            BY <2>1 DEF IsDir, DirsOf, Inodes
        <4>2. db.inodes[i].nlink = 2 + Cardinality(Subdirs(db, i))
            BY <1>0, <4>1 DEF DbInv, Counted
        <4> QED
            BY <3>1, <4>2 DEF SubdirCount
      <3>3. f[i] = [db.inodes[i] EXCEPT !.nlink = db.inodes[i].nlink]
          BY <2>1, <3>2 DEF Inodes
      <3>4. db.inodes[i] \in IntRow
          BY <1>1
      <3> QED
          BY <3>3, <3>4 DEF IntRow
    <2>2. CASE ~IsDir(i)
        BY <2>2 DEF Inodes
    <2> QED
        BY <2>1, <2>2
  <1>4. f = db.inodes
    <2>1. f = [i \in DOMAIN db.inodes |-> f[i]]
        BY DEF Inodes
    <2> HIDE DEF f
    <2> QED
        BY <1>1, <1>3, <2>1
  <1> HIDE DEF f
  <1> QED
      BY <1>1, <1>2, <1>4

\* What every request, crash and stage of the startup leaves.
LEMMA StepKeeps ==
  ASSUME TreeInv, [Next]_tree
  PROVE  /\ Kept /\ phase' \in {"serving", "counting", "sweeping"}
         /\ phase' # "serving" => open' = {}
         /\ phase # "serving" => Ids(db') = Ids(db)
  <1>0. /\ \A j \in open : j \in DOMAIN db.inodes /\ db.inodes[j].kind = "file"
        /\ phase \in {"serving", "counting", "sweeping"} /\ (phase # "serving" => open = {})
      BY DEF TreeInv, OpenInv, Inodes
  <1>1. ASSUME NEW p \in Dirs, NEW n \in Name, NEW k \in Kind, CreateNode(p, n, k) PROVE Kept
      BY <1>1, CreateNodeStep
  <1>2. ASSUME NEW p \in Dirs, NEW n \in Name, NEW i \in Inodes, Link(i, p, n) PROVE Kept
      BY <1>2, LinkStep
  <1>3. ASSUME NEW e \in db.dirents, Unlink(e.parent, e.name) PROVE Kept
      BY <1>3, UnlinkStep
  <1>4. ASSUME NEW e \in db.dirents, RemoveDir(e.parent, e.name) PROVE Kept
      BY <1>4, RemoveDirStep
  <1>5. ASSUME NEW e \in db.dirents, NEW q \in Dirs, NEW m \in Name, NEW r,
               Rename(e.parent, e.name, q, m, r)
        PROVE  Kept
    <2>1. CASE Has(q, m)
        BY <1>5, <2>1, RenameOver
    <2>2. CASE ~Has(q, m)
        BY <1>5, <2>2, RenameFree
    <2> QED
        BY <2>1, <2>2
  <1>6. CASE Request
    <2>1. Kept
        BY <1>1, <1>2, <1>3, <1>4, <1>5, <1>6 DEF Request
    <2>2. phase = "serving" /\ phase' = phase
      <3>1. ASSUME NEW p, NEW n, NEW k, CreateNode(p, n, k) PROVE phase = "serving" /\ phase' = phase
          BY <3>1 DEF CreateNode
      <3>2. ASSUME NEW p, NEW n, NEW i, Link(i, p, n) PROVE phase = "serving" /\ phase' = phase
          BY <3>2 DEF Link
      <3>3. ASSUME NEW p, NEW n, Unlink(p, n) PROVE phase = "serving" /\ phase' = phase
          BY <3>3 DEF Unlink
      <3>4. ASSUME NEW p, NEW n, RemoveDir(p, n) PROVE phase = "serving" /\ phase' = phase
          BY <3>4 DEF RemoveDir
      <3>5. ASSUME NEW p, NEW n, NEW q, NEW m, NEW r, Rename(p, n, q, m, r)
            PROVE  phase = "serving" /\ phase' = phase
          BY <3>5 DEF Rename
      <3> QED
          BY <1>6, <3>1, <3>2, <3>3, <3>4, <3>5 DEF Request
    <2> QED
        BY <2>1, <2>2
  <1>7. ASSUME NEW i \in Ino, Open(i) PROVE Kept /\ phase = "serving" /\ phase' = phase
    <2>1. /\ db' = db /\ phase = "serving" /\ phase' = phase
          /\ \A j \in open' : j \in DOMAIN db.inodes /\ db.inodes[j].kind = "file"
        BY <1>0, <1>7 DEF Open, Inodes
    <2> QED
        BY <2>1, SameDb
  <1>8. ASSUME NEW i \in Ino, Release(i) PROVE Kept /\ phase = "serving" /\ phase' = phase
    <2>1. /\ phase = "serving" /\ phase' = phase /\ open' \subseteq open /\ i \notin open'
          /\ i \in DOMAIN db.inodes
        BY <1>0, <1>8 DEF Release
    <2>2. CASE db' = db
      <3>1. \A j \in open' : j \in DOMAIN db.inodes /\ db.inodes[j].kind = "file"
          BY <1>0, <2>1
      <3> QED
          BY <2>1, <2>2, <3>1, SameDb
    <2>3. CASE db' # db
      <3>1. db' = DeleteInodeRows(db, i) /\ db.inodes[i].nlink = 0
          BY <1>8, <2>3 DEF Release
      <3> QED
          BY <2>1, <3>1, OrphanStep
    <2> QED
        BY <2>2, <2>3
  <1>9. ASSUME NEW i \in Ino, SweepOrphan(i)
        PROVE  Kept /\ Ids(db') = Ids(db) /\ phase = "sweeping" /\ phase' = phase /\ open' = open
    <2>1. /\ db' = DeleteInodeRows(db, i) /\ db.inodes[i].nlink = 0 /\ i \in DOMAIN db.inodes
          /\ phase = "sweeping" /\ phase' = phase /\ open' = open
        BY <1>9 DEF SweepOrphan, Orphans, Inodes
    <2>2. open' \subseteq open /\ i \notin open'
        BY <1>0, <2>1
    <2> QED
        BY <2>1, <2>2, OrphanStep
  <1>10. CASE RecomputeDirectoryNlink
    <2>1. db' = db
        BY <1>10, RecountChangesNothing
    <2>2. phase = "counting" /\ phase' = "sweeping" /\ open' = open
        BY <1>10 DEF RecomputeDirectoryNlink
    <2> QED
        BY <1>0, <2>1, <2>2, SameDb
  <1>11. CASE Started
    <2>1. db' = db /\ phase' = "serving" /\ open' = open
        BY <1>11 DEF Started
    <2> QED
        BY <1>0, <2>1, SameDb
  <1>12. CASE Crash
    <2>1. db' = db /\ phase' = "counting" /\ open' = {}
        BY <1>12 DEF Crash
    <2> QED
        BY <1>0, <2>1, SameDb
  <1>13. CASE UNCHANGED tree
    <2>1. db' = db /\ phase' = phase /\ open' = open
        BY <1>13 DEF tree
    <2> QED
        BY <1>0, <2>1, SameDb
  <1>14. ASSUME NEW i \in Ino, Open(i) \/ Release(i) \/ SweepOrphan(i)
         PROVE  /\ Kept /\ phase' \in {"serving", "counting", "sweeping"}
                /\ phase' # "serving" => open' = {}
                /\ phase # "serving" => Ids(db') = Ids(db)
      BY <1>0, <1>7, <1>8, <1>9, <1>14
  <1> QED
      BY <1>6, <1>10, <1>11, <1>12, <1>13, <1>14 DEF Next

\* A new database is the root alone.
LEMMA TreeInit == ASSUME Init PROVE TreeInv
  <1> DEFINE f == [i \in {Root} |-> [kind |-> "dir", nlink |-> 2]]
             b == [inodes |-> f, dirents |-> {}, targets |-> {}]
             D == {Root}
             N == {}
  <1>1. db = b /\ open = {} /\ phase = "serving"
      BY DEF Init
  <1>2. D \in SUBSET Ino /\ f \in [D -> IntRow] /\ N \in SUBSET Entry /\ N \in SUBSET Ino
      BY NamespaceAssumption DEF Ino, Root, IntRow, Kind
  <1>3. [inodes |-> f, dirents |-> N, targets |-> N] \in DbShape
    <2> HIDE DEF D, f, N
    <2> QED
        BY <1>2, MakeDb
  <1>4. /\ db \in DbShape /\ db.dirents = {} /\ db.targets = {} /\ DOMAIN db.inodes = {Root}
        /\ db.inodes[Root].kind = "dir" /\ db.inodes[Root].nlink = 2
      BY <1>1, <1>3
  <1>5. IsFiniteSet(db.dirents)
      BY <1>4, FS_EmptySet
  <1>6. DirsOf(db) = {Root}
      BY <1>4 DEF DirsOf
  <1>7. Placed(db) /\ Distinct(db) /\ Targeted(db)
      BY <1>4 DEF Placed, Distinct, Targeted
  <1>8. Rooted(db)
      BY <1>6 DEF Rooted
  <1>9. Counted(db)
    <2>1. Subdirs(db, Root) = {}
        BY <1>4 DEF Subdirs
    <2>2. Cardinality({}) = 0
        BY FS_EmptySet
    <2> QED
        BY <1>4, <1>6, <2>1, <2>2 DEF Counted
  <1> QED
      BY <1>1, <1>4, <1>5, <1>6, <1>7, <1>8, <1>9 DEF TreeInv, DbInv, OpenInv

\* TreeInv is an invariant.
LEMMA TreeAlways == Spec => []TreeInv
  <1>1. TreeInv /\ [Next]_tree => TreeInv'
    <2> SUFFICES ASSUME TreeInv, [Next]_tree PROVE TreeInv'
        OBVIOUS
    <2>1. /\ Kept /\ phase' \in {"serving", "counting", "sweeping"}
          /\ phase' # "serving" => open' = {}
        BY StepKeeps
    <2>2. DbInv(db)'
        BY <2>1 DEF Kept
    <2>3. OpenInv'
        BY <2>1 DEF Kept, OpenInv, Inodes
    <2> QED
        BY <2>2, <2>3 DEF TreeInv
  <1>2. Init => TreeInv
      BY TreeInit
  <1> QED
      BY <1>1, <1>2, PTL DEF Spec

------------------------------------------------------------------------------
(* The properties *)

\* Directories, names and link counts in the invariant are those of Namespace.
LEMMA SameNotions ==
  /\ Inodes = DOMAIN db.inodes /\ Dirs = DirsOf(db)
  /\ \A i : IsDir(i) <=> i \in DirsOf(db)
  /\ \A i : NamesOf(i) = NamesFor(db, i)
  /\ \A i : SubdirCount(i) = Cardinality(Subdirs(db, i))
  <1>1. /\ Inodes = DOMAIN db.inodes /\ Dirs = DirsOf(db)
        /\ \A i : IsDir(i) <=> i \in DirsOf(db)
        /\ \A i : NamesOf(i) = NamesFor(db, i)
      BY DEF Inodes, Dirs, DirsOf, IsDir, NamesOf, NamesFor
  <1>2. ASSUME NEW i PROVE SubdirCount(i) = Cardinality(Subdirs(db, i))
    <2>1. {e \in Entries(i) : IsDir(e.child)} = Subdirs(db, i)
        BY <1>1 DEF Entries, Subdirs
    <2> QED
        BY <2>1 DEF SubdirCount
  <1> QED
      BY <1>1, <1>2

\* Every row, entry and open inode has its type through every sequence of
\* requests and startups; link counts never go below zero, whatever the
\* decrements of unlink, rmdir and rename (drop_unlinked_inode,
\* add_directory_nlink).
THEOREM NamespaceTypeCorrect == Spec => []TypeOK
  <1>1. TreeInv => TypeOK
    <2> SUFFICES ASSUME TreeInv PROVE TypeOK
        OBVIOUS
    <2>0. DbInv(db) /\ db \in DbShape
        BY DEF TreeInv, DbInv
    <2>1. /\ db.inodes \in [DOMAIN db.inodes -> IntRow] /\ DOMAIN db.inodes \subseteq Ino
          /\ db.dirents \subseteq Entry /\ db.targets \subseteq Ino
        BY <2>0, Shape
    <2>2. ASSUME NEW i \in DOMAIN db.inodes PROVE db.inodes[i] \in Row
      <3>1. db.inodes[i] \in IntRow
          BY <2>1
      <3>2. db.inodes[i].nlink \in Nat
        <4>1. Cardinality(Subdirs(db, i)) \in Nat /\ Cardinality(NamesFor(db, i)) \in Nat
            BY <2>0, Countable DEF DbInv
        <4> QED
            BY <2>0, <4>1 DEF DbInv, Counted
      <3> QED
          BY <3>1, <3>2 DEF IntRow, Row
    <2>3. open \subseteq Ino /\ phase \in {"serving", "counting", "sweeping"}
        BY <2>1 DEF TreeInv, OpenInv, Inodes
    <2> QED
        BY <2>1, <2>2, <2>3 DEF TypeOK, Inodes, Entry
  <1> QED
      BY <1>1, TreeAlways, PTL

\* Whatever moves, replacements and removals happen, each directory but the root
\* has exactly one name and going up from it reaches the root: no rename cuts a
\* subtree off or closes a cycle, and the walk of is_descendant ends
\* (rename_entry, is_descendant).
THEOREM TreeStaysOne == Spec => []OneTree
  <1>1. TreeInv => OneTree
    <2> SUFFICES ASSUME TreeInv PROVE OneTree
        OBVIOUS
    <2>0. DbInv(db)
        BY DEF TreeInv
    <2>1. IsDir(Root) /\ NamesOf(Root) = {}
        BY <2>0, SameNotions DEF DbInv, Placed, NamesFor
    <2>2. ASSUME NEW i \in DirsOf(db), i # Root
          PROVE  Cardinality(NamesOf(i)) = 1 /\ Climb(i)[MaxIno] = Root
      <3>1. PICK e \in db.dirents : e.child = i
          BY <2>0, <2>2, Named DEF DbInv
      <3>2. NamesFor(db, i) = {e}
          BY <2>0, <2>2, <3>1 DEF NamesFor, DbInv, Distinct
      <3>3. Cardinality({e}) = 1
          BY FS_Singleton
      <3>4. Climb(i)[MaxIno] = Root
          BY <2>0, WalkReachesRoot
      <3> QED
          BY <3>2, <3>3, <3>4, SameNotions
    <2> QED
        BY <2>1, <2>2, SameNotions DEF OneTree
  <1> QED
      BY <1>1, TreeAlways, PTL

\* The increments and decrements of mkdir, link, unlink, rmdir and rename always
\* add up to what a recount gives, so the recount at startup changes nothing
\* (add_directory_nlink, drop_unlinked_inode, recompute_directory_nlink).
THEOREM LinkCountsStayExact == Spec => []LinkCountsExact
  <1>1. TreeInv => LinkCountsExact
    <2> SUFFICES ASSUME TreeInv, NEW i \in Inodes
                 PROVE  db.inodes[i].nlink = IF IsDir(i) THEN 2 + SubdirCount(i)
                                                         ELSE Cardinality(NamesOf(i))
        BY DEF LinkCountsExact
    <2>1. db.inodes[i].nlink = IF i \in DirsOf(db) THEN 2 + Cardinality(Subdirs(db, i))
                                                   ELSE Cardinality(NamesFor(db, i))
        BY DEF TreeInv, DbInv, Counted, Inodes
    <2> QED
        BY <2>1, SameNotions
  <1> QED
      BY <1>1, TreeAlways, PTL

\* Entries are in directories, lead to inodes and differ in id and place; targets
\* are those of the symlinks although numbers are reused; an open inode exists,
\* whatever happened to its names (create_node, delete_inode_rows,
\* drop_unlinked_inode).
THEOREM EntriesStaySound == Spec => []EntriesSound
  <1>1. TreeInv => EntriesSound
    <2> SUFFICES ASSUME TreeInv PROVE EntriesSound
        OBVIOUS
    <2>0. /\ Placed(db) /\ Distinct(db) /\ Targeted(db)
          /\ \A i \in open : i \in DOMAIN db.inodes
        BY DEF TreeInv, DbInv, OpenInv, Inodes
    <2>1. \A e \in db.dirents : IsDir(e.parent) /\ e.child \in Inodes
        BY <2>0, SameNotions DEF Placed
    <2>2. \A e, f \in db.dirents :
            e # f => e.id # f.id /\ <<e.parent, e.name>> # <<f.parent, f.name>>
        BY <2>0 DEF Distinct
    <2>3. db.targets = {i \in Inodes : db.inodes[i].kind = "symlink"} /\ open \subseteq Inodes
        BY <2>0, SameNotions DEF Targeted
    <2> QED
        BY <2>1, <2>2, <2>3 DEF EntriesSound
  <1> QED
      BY <1>1, TreeAlways, PTL

\* No request takes more than one entry and no startup takes any: the cascade
\* behind delete_inode_rows never finds an entry that nobody asked to remove
\* (remove_dir, rename_entry, initialize).
THEOREM EntriesGoOneByOne == Spec => OneEntryAtATime
  <1>1. TreeInv /\ [Next]_tree =>
          [/\ Cardinality(Ids(db) \ Ids(db')) <= 1
           /\ phase # "serving" => Ids(db) = Ids(db')]_tree
    <2> SUFFICES ASSUME TreeInv, [Next]_tree
                 PROVE  /\ Cardinality(Ids(db) \ Ids(db')) <= 1
                        /\ phase # "serving" => Ids(db) = Ids(db')
        OBVIOUS
    <2>1. Kept /\ (phase # "serving" => Ids(db') = Ids(db))
        BY StepKeeps
    <2> DEFINE G == Ids(db) \ Ids(db')
    <2>2. PICK z : G \subseteq {z}
        BY <2>1 DEF Kept
    <2>3. Cardinality({z}) = 1 /\ IsFiniteSet({z})
        BY FS_Singleton
    <2>4. Cardinality(G) <= Cardinality({z})
      <3> HIDE DEF G
      <3> QED
          BY <2>2, <2>3, FS_Subset
    <2> QED
        BY <2>1, <2>3, <2>4
  <1> QED
      BY <1>1, TreeAlways, PTL DEF Spec, OneEntryAtATime

------------------------------------------------------------------------------
(* Listings: the inductive invariant *)

StreamShape ==
  [dir : Nat, pos : Nat, done : BOOLEAN, stay : SUBSET Ino, seen : SUBSET Ino, twice : BOOLEAN]

\* Of those that stayed, the kernel has seen the ones whose entry is at or before its
\* cookie.
Seen(s, d) == {i \in s.stay : \E e \in NamesIn(d, s.dir, i) : e.id + DotDot <= s.pos}

StreamInv ==
  /\ stream \in StreamShape
  /\ ~stream.twice
  /\ stream.stay \subseteq Single(db, stream.dir)
  /\ stream.seen = Seen(stream, db)
  /\ stream.done => stream.seen = stream.stay

ListInv == TreeInv /\ StreamInv

------------------------------------------------------------------------------

\* An inode with a single name has one entry.
LEMMA OneEntry ==
  ASSUME NEW d, DbInv(d), NEW p, NEW i \in Single(d, p)
  PROVE  \E e : NamesIn(d, p, i) = {e}
  <1> DEFINE N == NamesIn(d, p, i)
  <1>1. Cardinality(N) = 1
      BY DEF Single
  <1>2. N \subseteq d.dirents /\ IsFiniteSet(d.dirents)
      BY DEF NamesIn, DbInv
  <1> HIDE DEF N
  <1>3. IsFiniteSet(N)
      BY <1>2, FS_Subset
  <1> QED
      BY <1>1, <1>3, FS_Singleton DEF N

\* Its id stays while it has a single name: a rename keeps the id, and what else
\* comes or goes is not its name (read_dir_after: "Entry ids never change for the
\* life of an entry").
LEMMA SameId ==
  ASSUME NEW d, NEW b, DbInv(d), DbInv(b), MovesKeepId(d, b), NEW p,
         NEW i \in Single(d, p), i \in Single(b, p),
         NEW e \in NamesIn(d, p, i), NEW f \in NamesIn(b, p, i)
  PROVE  e.id = f.id
  <1>1. /\ \A g \in NamesIn(d, p, i) : g = e
        /\ \A g \in NamesIn(b, p, i) : g = f
      BY OneEntry
  <1>2. /\ e \in d.dirents /\ e.parent = p /\ e.child = i
        /\ f \in b.dirents /\ f.parent = p /\ f.child = i
      BY DEF NamesIn
  <1>3. e \in b.dirents => e = f
      BY <1>1, <1>2 DEF NamesIn
  <1>4. f \in d.dirents => e = f
      BY <1>1, <1>2 DEF NamesIn
  <1> QED
      BY <1>2, <1>3, <1>4 DEF MovesKeepId

\* The reply to a request: the entries after the cookie, and none but them.
LEMMA ReplyIs ==
  ASSUME DbInv(db), stream.pos \in Nat
  PROVE  /\ \A r \in ReaddirStream(stream.pos) :
              /\ r.cookie \in Nat /\ stream.pos < r.cookie
              /\ DotDot < r.cookie =>
                   \E e \in Entries(stream.dir) : r = [cookie |-> e.id + DotDot, ino |-> e.child]
         /\ \A e \in Entries(stream.dir) :
              /\ e.id \in Nat /\ e.id > 0
              /\ stream.pos < e.id + DotDot =>
                   [cookie |-> e.id + DotDot, ino |-> e.child] \in ReaddirStream(stream.pos)
         /\ ReaddirStream(stream.pos) = {} => stream.pos >= DotDot
  <1> DEFINE m == Max({stream.pos - DotDot, 0})
  <1>1. m = IF stream.pos >= DotDot THEN stream.pos - DotDot ELSE 0
    <2>1. \A x \in Int : Max({x, 0}) = IF x >= 0 THEN x ELSE 0
        BY DEF Max
    <2>2. stream.pos - DotDot \in Int
        BY DEF DotDot
    <2>3. m = IF stream.pos - DotDot >= 0 THEN stream.pos - DotDot ELSE 0
        BY <2>1, <2>2
    <2> QED
        BY <2>3 DEF DotDot
  <1>2. \A e \in Entries(stream.dir) : e.id \in Nat /\ e.id > 0
    <2>1. db.dirents \subseteq Entry
        BY Shape DEF DbInv
    <2> QED
        BY <2>1, NamespaceAssumption DEF Entries, Entry
  <1>3. ReaddirStream(stream.pos) =
          {r \in DotEntries : stream.pos < r.cookie} \cup ReadDirAfter(m)
      BY DEF ReaddirStream
  <1>4. \A e \in Entries(stream.dir) : e.id > m <=> stream.pos < e.id + DotDot
      BY <1>1, <1>2 DEF DotDot
  <1> HIDE DEF m
  <1>5. /\ \A r \in ReadDirAfter(m) : \E e \in Entries(stream.dir) :
             e.id > m /\ r = [cookie |-> e.id + DotDot, ino |-> e.child]
        /\ \A e \in Entries(stream.dir) :
             e.id > m => [cookie |-> e.id + DotDot, ino |-> e.child] \in ReadDirAfter(m)
      BY DEF ReadDirAfter
  <1>6. \A r \in DotEntries : r.cookie \in Nat /\ r.cookie <= DotDot
      BY DEF DotEntries, Dot, DotDot
  <1>7. \E r \in DotEntries : r.cookie = DotDot
      BY DEF DotEntries
  <1>8. ASSUME NEW r \in ReaddirStream(stream.pos)
        PROVE  /\ r.cookie \in Nat /\ stream.pos < r.cookie
               /\ DotDot < r.cookie =>
                    \E e \in Entries(stream.dir) : r = [cookie |-> e.id + DotDot, ino |-> e.child]
    <2>1. CASE r \in DotEntries /\ stream.pos < r.cookie
        BY <1>6, <2>1 DEF DotDot
    <2>2. CASE r \in ReadDirAfter(m)
      <3>1. PICK e \in Entries(stream.dir) :
              e.id > m /\ r = [cookie |-> e.id + DotDot, ino |-> e.child]
          BY <1>5, <2>2
      <3>2. r.cookie = e.id + DotDot
          BY <3>1
      <3> QED
          BY <1>2, <1>4, <3>1, <3>2 DEF DotDot
    <2> QED
        BY <1>3, <2>1, <2>2
  <1>9. \A e \in Entries(stream.dir) : stream.pos < e.id + DotDot =>
          [cookie |-> e.id + DotDot, ino |-> e.child] \in ReaddirStream(stream.pos)
      BY <1>3, <1>4, <1>5
  <1>10. ReaddirStream(stream.pos) = {} => stream.pos >= DotDot
      BY <1>3, <1>6, <1>7 DEF DotDot
  <1> QED
      BY <1>2, <1>8, <1>9, <1>10

------------------------------------------------------------------------------
(* Every step *)

\* When nothing is listed there is nothing to get wrong.
LEMMA NothingListed == stream' = NoStream => StreamInv'
  BY DEF StreamInv, StreamShape, NoStream, Seen

\* Requests of others, crashes and startups between the requests of a listing.
LEMMA ChangeKeeps == ASSUME ListInv, Change PROVE ListInv'
  <1> DEFINE stay == stream.stay \cap Single(db', stream.dir)
  <1>1. TreeInv /\ Next
      BY DEF ListInv, Change
  <1>2. Kept /\ TreeInv'
    <2>1. /\ Kept /\ phase' \in {"serving", "counting", "sweeping"}
          /\ phase' # "serving" => open' = {}
        BY <1>1, StepKeeps
    <2>2. DbInv(db)'
        BY <2>1 DEF Kept
    <2>3. OpenInv'
        BY <2>1 DEF Kept, OpenInv, Inodes
    <2> QED
        BY <2>1, <2>2, <2>3 DEF TreeInv
  <1>3. CASE stream' = NoStream
      BY <1>2, <1>3, NothingListed DEF ListInv
  <1>4. CASE ~stream.done /\ stream' = [stream EXCEPT !.stay = stay, !.seen = @ \cap stay]
    <2>0. /\ stream \in StreamShape /\ ~stream.twice /\ stream.stay \subseteq Single(db, stream.dir)
          /\ stream.seen = Seen(stream, db)
        BY DEF ListInv, StreamInv
    <2>1. /\ stream' \in StreamShape /\ stream'.dir = stream.dir /\ stream'.pos = stream.pos
          /\ stream'.done = stream.done /\ stream'.twice = stream.twice
          /\ stream'.stay = stay /\ stream'.seen = stream.seen \cap stay
        BY <1>4, <2>0 DEF StreamShape
    <2>2. ASSUME NEW i \in stay
          PROVE  (\E e \in NamesIn(db, stream.dir, i) : e.id + DotDot <= stream.pos)
                 <=> \E f \in NamesIn(db', stream.dir, i) : f.id + DotDot <= stream.pos
      <3>1. i \in Single(db, stream.dir) /\ i \in Single(db', stream.dir)
          BY <2>0
      <3>2. DbInv(db) /\ DbInv(db') /\ MovesKeepId(db, db')
          BY <1>1, <1>2 DEF TreeInv, Kept
      <3>3. PICK e : NamesIn(db, stream.dir, i) = {e}
          BY <3>1, <3>2, OneEntry
      <3>4. PICK f : NamesIn(db', stream.dir, i) = {f}
          BY <3>1, <3>2, OneEntry
      <3>5. e.id = f.id
        <4>1. e \in NamesIn(db, stream.dir, i) /\ f \in NamesIn(db', stream.dir, i)
            BY <3>3, <3>4
        <4> QED
            BY <3>1, <3>2, <4>1, SameId
      <3> QED
          BY <3>3, <3>4, <3>5
    <2>3. stream'.seen = Seen(stream', db')
      <3>1. Seen(stream', db') =
              {i \in stay : \E f \in NamesIn(db', stream.dir, i) : f.id + DotDot <= stream.pos}
          BY <2>1 DEF Seen
      <3>2. stream.seen = {i \in stream.stay : \E e \in NamesIn(db, stream.dir, i) :
                                                 e.id + DotDot <= stream.pos}
          BY <2>0 DEF Seen
      <3> QED
          BY <2>1, <2>2, <3>1, <3>2
    <2>4. stream'.stay \subseteq Single(db', stream'.dir)
        BY <2>1
    <2> QED
        BY <1>2, <1>4, <2>0, <2>1, <2>3, <2>4 DEF ListInv, StreamInv
  <1> QED
      BY <1>3, <1>4 DEF Change

\* A listing begins.
LEMMA OpenDirKeeps == ASSUME ListInv, NEW i \in Ino, OpenDir(i) PROVE ListInv'
  <1>1. UNCHANGED tree /\ stream' = [NoStream EXCEPT !.dir = i, !.stay = Single(db, i)]
      BY DEF OpenDir
  <1>2. TreeInv' /\ db' = db /\ DbInv(db)
      BY <1>1 DEF ListInv, TreeInv, tree, OpenInv, Inodes
  <1>3. /\ stream' \in StreamShape /\ stream'.dir = i /\ stream'.pos = 0 /\ ~stream'.done
        /\ ~stream'.twice /\ stream'.stay = Single(db, i) /\ stream'.seen = {}
    <2>1. Single(db, i) \in SUBSET Ino /\ i \in Nat
        BY NamespaceAssumption DEF Single, Ino
    <2>2. stream' = [dir |-> i, pos |-> 0, done |-> FALSE, stay |-> Single(db, i), seen |-> {},
                     twice |-> FALSE]
        BY <1>1 DEF NoStream
    <2> QED
        BY <2>1, <2>2 DEF StreamShape
  <1>4. \A e \in db.dirents : e.id \in Nat /\ e.id > 0
    <2>1. db.dirents \subseteq Entry
        BY <1>2, Shape DEF DbInv
    <2> QED
        BY <2>1, NamespaceAssumption DEF Entry
  <1>5. \A e \in db.dirents : ~(e.id + DotDot <= 0)
      BY <1>4 DEF DotDot
  <1>6. Seen(stream', db') = {}
      BY <1>2, <1>3, <1>5 DEF Seen, NamesIn
  <1> QED
      BY <1>2, <1>3, <1>6 DEF ListInv, StreamInv

\* A request of the listing that finds nothing more: what stayed was seen.
LEMMA ReadEndKeeps ==
  ASSUME ListInv, UNCHANGED tree, ReaddirStream(stream.pos) = {},
         stream' = [stream EXCEPT !.done = TRUE]
  PROVE  ListInv'
  <1>1. TreeInv' /\ db' = db /\ DbInv(db)
      BY DEF ListInv, TreeInv, tree, OpenInv, Inodes
  <1>2. /\ stream \in StreamShape /\ ~stream.twice /\ stream.stay \subseteq Single(db, stream.dir)
        /\ stream.seen = Seen(stream, db) /\ stream.pos \in Nat
      BY DEF ListInv, StreamInv, StreamShape
  <1>3. /\ stream' \in StreamShape /\ stream'.dir = stream.dir /\ stream'.pos = stream.pos
        /\ stream'.twice = stream.twice /\ stream'.stay = stream.stay /\ stream'.seen = stream.seen
      BY <1>2 DEF StreamShape
  <1>4. ASSUME NEW i \in stream.stay PROVE i \in stream.seen
    <2>1. PICK e : NamesIn(db, stream.dir, i) = {e}
        BY <1>1, <1>2, OneEntry
    <2>2. e \in NamesIn(db, stream.dir, i)
        BY <2>1
    <2>3. e \in Entries(stream.dir)
        BY <2>2 DEF NamesIn, Entries
    <2>4. e.id \in Nat /\ ~(stream.pos < e.id + DotDot)
        BY <1>1, <1>2, <2>3, ReplyIs
    <2>5. e.id + DotDot <= stream.pos
        BY <1>2, <2>4 DEF DotDot
    <2> QED
        BY <1>2, <2>2, <2>5 DEF Seen
  <1>5. Seen(stream', db') = Seen(stream, db) /\ stream.seen \subseteq stream.stay
      BY <1>1, <1>2, <1>3 DEF Seen
  <1> QED
      BY <1>1, <1>2, <1>3, <1>4, <1>5 DEF ListInv, StreamInv

\* A request of the listing whose entries are taken up to the last one taken: none
\* of those that stayed is among them again, and none before it is left out.
LEMMA ReadSomeKeeps ==
  ASSUME ListInv, UNCHANGED tree, ~stream.done, NEW last \in ReaddirStream(stream.pos), NEW told,
         told = {r \in ReaddirStream(stream.pos) :
                   /\ DotDot < r.cookie /\ r.cookie <= last.cookie
                   /\ r.ino \in stream.stay},
         stream' = [stream EXCEPT
                      !.pos   = last.cookie,
                      !.seen  = @ \cup {r.ino : r \in told},
                      !.twice = @ \/ \E r \in told :
                                       \/ r.ino \in stream.seen
                                       \/ \E u \in told \ {r} : u.ino = r.ino]
  PROVE  ListInv'
  <1>1. TreeInv' /\ db' = db /\ DbInv(db)
      BY DEF ListInv, TreeInv, tree, OpenInv, Inodes
  <1>2. /\ stream \in StreamShape /\ ~stream.twice /\ stream.stay \subseteq Single(db, stream.dir)
        /\ stream.seen = Seen(stream, db) /\ stream.pos \in Nat /\ stream.stay \subseteq Ino
      BY DEF ListInv, StreamInv, StreamShape
  <1>3. last.cookie \in Nat /\ stream.pos < last.cookie
      BY <1>1, <1>2, ReplyIs
  <1>4. ASSUME NEW r \in told
        PROVE  \E e \in NamesIn(db, stream.dir, r.ino) :
                 /\ r = [cookie |-> e.id + DotDot, ino |-> e.child] /\ e.id \in Nat
                 /\ stream.pos < e.id + DotDot /\ e.id + DotDot <= last.cookie
    <2>1. r \in ReaddirStream(stream.pos) /\ DotDot < r.cookie /\ r.cookie <= last.cookie
        OBVIOUS
    <2>2. PICK e \in Entries(stream.dir) : r = [cookie |-> e.id + DotDot, ino |-> e.child]
        BY <1>1, <1>2, <2>1, ReplyIs
    <2>3. e.id \in Nat /\ stream.pos < r.cookie
        BY <1>1, <1>2, <2>1, ReplyIs
    <2>4. r.cookie = e.id + DotDot /\ r.ino = e.child
        BY <2>2
    <2>5. e \in NamesIn(db, stream.dir, r.ino)
        BY <2>4 DEF NamesIn, Entries
    <2> QED
        BY <2>1, <2>2, <2>3, <2>4, <2>5
  <1>5. ASSUME NEW r \in told PROVE r.ino \notin stream.seen
    <2>1. PICK e \in NamesIn(db, stream.dir, r.ino) : e.id \in Nat /\ stream.pos < e.id + DotDot
        BY <1>4
    <2>2. r.ino \in Single(db, stream.dir)
        BY <1>2
    <2>3. \A f \in NamesIn(db, stream.dir, r.ino) : f = e
        BY <1>1, <2>2, OneEntry
    <2>4. ~(e.id + DotDot <= stream.pos)
        BY <1>2, <2>1 DEF DotDot
    <2> QED
        BY <1>2, <2>3, <2>4 DEF Seen
  <1>6. ASSUME NEW r \in told, NEW u \in told, u.ino = r.ino PROVE u = r
    <2>1. r.ino \in Single(db, stream.dir)
        BY <1>2
    <2>2. PICK e \in NamesIn(db, stream.dir, r.ino) : r = [cookie |-> e.id + DotDot, ino |-> e.child]
        BY <1>4
    <2>3. PICK f \in NamesIn(db, stream.dir, u.ino) : u = [cookie |-> f.id + DotDot, ino |-> f.child]
        BY <1>4
    <2>4. e = f
        BY <1>1, <1>6, <2>1, OneEntry
    <2> QED
        BY <2>2, <2>3, <2>4
  <1>7. ~\E r \in told : \/ r.ino \in stream.seen
                         \/ \E u \in told \ {r} : u.ino = r.ino
      BY <1>5, <1>6
  <1> DEFINE new == {r.ino : r \in told}
  <1>8. new \subseteq stream.stay
      OBVIOUS
  <1>9. /\ stream' \in StreamShape /\ stream'.dir = stream.dir /\ stream'.pos = last.cookie
        /\ ~stream'.done /\ ~stream'.twice /\ stream'.stay = stream.stay
        /\ stream'.seen = stream.seen \cup new
    <2>1. PICK t \in BOOLEAN : t = (stream.twice \/ \E r \in told : \/ r.ino \in stream.seen
                                                 \/ \E u \in told \ {r} : u.ino = r.ino)
        OBVIOUS
    <2>2. ~t
        BY <1>2, <1>7, <2>1
    <2> HIDE DEF new
    <2>3. stream' = [stream EXCEPT !.pos = last.cookie, !.seen = @ \cup new, !.twice = t]
        BY <2>1 DEF new
    <2>4. new \subseteq Ino
        BY <1>2, <1>8
    <2> QED
        BY <1>2, <1>3, <2>2, <2>3, <2>4 DEF StreamShape
  <1>10. ASSUME NEW i \in stream.stay
         PROVE  i \in new \/ i \in stream.seen
                <=> \E e \in NamesIn(db, stream.dir, i) : e.id + DotDot <= last.cookie
    <2>1. PICK e : NamesIn(db, stream.dir, i) = {e}
        BY <1>1, <1>2, OneEntry
    <2>2. e \in Entries(stream.dir) /\ e.child = i
        BY <2>1 DEF NamesIn, Entries
    <2>3. e.id \in Nat /\ e.id > 0
        BY <1>1, <1>2, <2>2, ReplyIs
    <2>4. i \in stream.seen <=> e.id + DotDot <= stream.pos
        BY <1>2, <2>1 DEF Seen
    <2>5. i \in new => e.id + DotDot <= last.cookie
      <3>1. ASSUME NEW r \in told, r.ino = i PROVE e.id + DotDot <= last.cookie
          BY <1>4, <2>1, <3>1
      <3> QED
          BY <3>1
    <2>6. stream.pos < e.id + DotDot /\ e.id + DotDot <= last.cookie => i \in new
      <3> HAVE stream.pos < e.id + DotDot /\ e.id + DotDot <= last.cookie
      <3> DEFINE r == [cookie |-> e.id + DotDot, ino |-> e.child]
      <3>1. r \in ReaddirStream(stream.pos)
          BY <1>1, <1>2, <2>2, ReplyIs
      <3>2. r.cookie = e.id + DotDot /\ r.ino = i /\ DotDot < r.cookie
          BY <2>2, <2>3 DEF DotDot
      <3> HIDE DEF r
      <3>3. r \in told
          BY <3>1, <3>2
      <3> QED
          BY <3>2, <3>3
    <2> HIDE DEF new
    <2>7. e.id + DotDot \in Nat
        BY <2>3 DEF DotDot
    <2>8. e.id + DotDot <= last.cookie <=>
            \/ e.id + DotDot <= stream.pos
            \/ stream.pos < e.id + DotDot /\ e.id + DotDot <= last.cookie
        BY <1>2, <1>3, <2>7
    <2> QED
        BY <2>1, <2>4, <2>5, <2>6, <2>8
  <1>11. stream'.seen = Seen(stream', db')
    <2> HIDE DEF new
    <2>1. Seen(stream', db') =
            {i \in stream.stay : \E e \in NamesIn(db, stream.dir, i) : e.id + DotDot <= last.cookie}
        BY <1>1, <1>9 DEF Seen
    <2>2. stream.seen \subseteq stream.stay
        BY <1>2 DEF Seen
    <2> QED
        BY <1>8, <1>9, <1>10, <2>1, <2>2
  <1> QED
      BY <1>1, <1>2, <1>9, <1>11 DEF ListInv, StreamInv

\* ListInv is an invariant.
LEMMA ListAlways == ReaddirSpec => []ListInv
  <1>1. ReaddirInit => ListInv
    <2> SUFFICES ASSUME ReaddirInit PROVE ListInv
        OBVIOUS
    <2>1. TreeInv /\ stream = NoStream
        BY TreeInit DEF ReaddirInit
    <2>2. StreamInv
        BY <2>1 DEF StreamInv, StreamShape, NoStream, Seen
    <2> QED
        BY <2>1, <2>2 DEF ListInv
  <1>2. ListInv /\ [ReaddirNext]_<<tree, stream>> => ListInv'
    <2> SUFFICES ASSUME ListInv, [ReaddirNext]_<<tree, stream>> PROVE ListInv'
        OBVIOUS
    <2>1. CASE Change
        BY <2>1, ChangeKeeps
    <2>2. ASSUME NEW i \in Ino, OpenDir(i) PROVE ListInv'
        BY <2>2, OpenDirKeeps
    <2>3. CASE ReadDir
      <3>1. UNCHANGED tree /\ ~stream.done
          BY <2>3 DEF ReadDir
      <3>2. CASE ReaddirStream(stream.pos) = {} /\ stream' = [stream EXCEPT !.done = TRUE]
          BY <3>1, <3>2, ReadEndKeeps
      <3>3. ASSUME NEW last \in ReaddirStream(stream.pos), NEW told,
                   told = {r \in ReaddirStream(stream.pos) :
                             /\ DotDot < r.cookie /\ r.cookie <= last.cookie
                             /\ r.ino \in stream.stay},
                   stream' = [stream EXCEPT
                                !.pos   = last.cookie,
                                !.seen  = @ \cup {r.ino : r \in told},
                                !.twice = @ \/ \E r \in told :
                                                 \/ r.ino \in stream.seen
                                                 \/ \E u \in told \ {r} : u.ino = r.ino]
            PROVE  ListInv'
          BY <3>1, <3>3, ReadSomeKeeps
      <3> QED
          BY <2>3, <3>2, <3>3 DEF ReadDir
    <2>4. CASE CloseDir
      <3>1. UNCHANGED tree /\ stream' = NoStream
          BY <2>4 DEF CloseDir
      <3>2. TreeInv'
          BY <3>1 DEF ListInv, TreeInv, tree, OpenInv, Inodes
      <3> QED
          BY <3>1, <3>2, NothingListed DEF ListInv
    <2>5. CASE UNCHANGED <<tree, stream>>
      <3>1. db' = db /\ stream' = stream /\ TreeInv'
          BY <2>5 DEF ListInv, TreeInv, tree, OpenInv, Inodes
      <3> QED
          BY <3>1 DEF ListInv, StreamInv
    <2> QED
        BY <2>1, <2>2, <2>3, <2>4, <2>5 DEF ReaddirNext
  <1> QED
      BY <1>1, <1>2, PTL DEF ReaddirSpec

------------------------------------------------------------------------------

\* A listing taken to its end reports every inode that kept a single name in the
\* directory exactly once, in however many requests, and although between them
\* entries come, move and go, ids of removed entries are given out again and hard
\* links to the same inode are made elsewhere (readdir_stream, read_dir_after).
THEOREM ListingComplete == ReaddirSpec => []EveryStayerOnce
  <1>1. ListInv => EveryStayerOnce
      BY DEF ListInv, StreamInv, EveryStayerOnce
  <1> QED
      BY <1>1, ListAlways, PTL

\* Listings change nothing: with them the tree behaves as Namespace says, and what is
\* proved of it there holds here.
THEOREM ListingsChangeNothing == ReaddirSpec => Spec
  <1>1. ReaddirInit => Init
      BY DEF ReaddirInit
  <1>2. [ReaddirNext]_<<tree, stream>> => [Next]_tree
      BY DEF ReaddirNext, Change, OpenDir, ReadDir, CloseDir
  <1> QED
      BY <1>1, <1>2, PTL DEF ReaddirSpec, Spec

==============================================================================
