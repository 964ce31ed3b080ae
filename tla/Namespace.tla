------------------------------ MODULE Namespace ------------------------------
(***************************************************************************)
(* The directory tree of src/db.rs: inodes, dirents and symlink_targets    *)
(* under mkdir, create, symlink, link, unlink, rmdir and rename, and what  *)
(* Db::open does to them at startup.                                       *)
(*                                                                         *)
(* The FUSE session dispatches one request at a time and no other thread   *)
(* changes these tables, so an action is a whole request: the checks that  *)
(* return an error are its guards, and its transaction commits as one      *)
(* step.  A failing transaction changes nothing and is no step.  Data,     *)
(* times and the open table are in other modules; here an inode is open or *)
(* not.                                                                    *)
(*                                                                         *)
(* A definition whose comment begins "Faulty" is a wrong variant of the    *)
(* one after it; no specification uses it.                                 *)
(***************************************************************************)
EXTENDS Integers, FiniteSetsExt

CONSTANTS Name,    \* entry names
          MaxIno,  \* largest inode number
          MaxId    \* bound on dirent ids

ASSUME NamespaceAssumption ==
  /\ MaxIno \in Nat \ {0}
  /\ MaxId \in Nat

Root == 1
Ino  == 1 .. MaxIno
Kind == {"dir", "file", "symlink"}

VARIABLES db,    \* [inodes: rows by number, dirents: set of rows, targets: symlink_targets]
          open,  \* inodes with an open handle
          phase  \* "serving", or the stage of Db::open: "counting", "sweeping"

tree == <<db, open, phase>>

Inodes  == DOMAIN db.inodes
IsDir(i)  == i \in Inodes /\ db.inodes[i].kind = "dir"
Dirs      == {i \in Inodes : IsDir(i)}
Entries(p)   == {e \in db.dirents : e.parent = p}
Has(p, n)    == \E e \in db.dirents : e.parent = p /\ e.name = n
Lookup(p, n) == CHOOSE e \in db.dirents : e.parent = p /\ e.name = n

\* A new database: the root directory alone.
Init ==
  /\ db    = [inodes  |-> [i \in {Root} |-> [kind |-> "dir", nlink |-> 2]],
              dirents |-> {}, targets |-> {}]
  /\ open  = {}
  /\ phase = "serving"

------------------------------------------------------------------------------
(* Statements: each operator gives the database after it. *)

\* SQLite gives a new row the largest number in use plus one.
NextRow(used) == Max(used \cup {0}) + 1
NewIno == NextRow(Inodes)
NewId  == NextRow({e.id : e \in db.dirents})

\* The rows of inodes with row number i added.
WithRow(rows, i, row) == [j \in DOMAIN rows \cup {i} |-> IF j = i THEN row ELSE rows[j]]

WithEntry(d, p, n, i) ==
  [d EXCEPT !.dirents = @ \cup {[id |-> NewId, parent |-> p, name |-> n, child |-> i]}]

AddDirectoryNlink(d, i, delta) ==
  IF i \in DOMAIN d.inodes THEN [d EXCEPT !.inodes[i].nlink = @ + delta] ELSE d

\* Faulty: the cascade does not reach symlink_targets.
DeleteInodeKeepTarget(d, i) ==
  [inodes  |-> [j \in DOMAIN d.inodes \ {i} |-> d.inodes[j]],
   dirents |-> {e \in d.dirents : e.parent # i /\ e.child # i},
   targets |-> d.targets]

\* delete_inode_rows; the foreign keys take entries in and of it, and a target.
DeleteInodeRows(d, i) ==
  [inodes  |-> [j \in DOMAIN d.inodes \ {i} |-> d.inodes[j]],
   dirents |-> {e \in d.dirents : e.parent # i /\ e.child # i},
   targets |-> d.targets \ {i}]

DropUnlinkedInode(d, i, isOpen) ==
  IF d.inodes[i].kind # "dir" /\ (d.inodes[i].nlink > 1 \/ isOpen)
  THEN [d EXCEPT !.inodes[i].nlink = @ - 1]
  ELSE DeleteInodeRows(d, i)

------------------------------------------------------------------------------
(* is_descendant walks up the entries, from i to the root. *)

\* parent_of_dir; 0 when no entry names i.
ParentOf(i) ==
  IF i = Root THEN Root
  ELSE IF \E e \in db.dirents : e.child = i
       THEN (CHOOSE e \in db.dirents : e.child = i).parent
       ELSE 0

\* Where the walk from i is after k turns of its loop.
Climb(i) ==
  LET at[k \in 0 .. MaxIno] ==
        IF k = 0 THEN i ELSE IF at[k-1] \in {0, Root} THEN at[k-1] ELSE ParentOf(at[k-1])
  IN  at

\* Faulty: looks at the directory itself and its parent only.
IsDescendantShallow(i, ancestor) == ancestor \in {i, ParentOf(i)}

IsDescendant(i, ancestor) == \E k \in 0 .. MaxIno : Climb(i)[k] = ancestor

------------------------------------------------------------------------------
(* Requests *)

\* Faulty: the number of a new inode is not checked.
CreateNodeAnyIno(p, n, kind) ==
  /\ phase = "serving"
  /\ IsDir(p)
  /\ ~Has(p, n)
  /\ NewId <= MaxId
  /\ kind = "file"
  /\ db' = WithEntry([db EXCEPT !.inodes = WithRow(@, NewIno, [kind |-> kind, nlink |-> 1])],
                     p, n, NewIno)
  /\ UNCHANGED <<open, phase>>

\* create_node: mkdir, create, mknod and symlink.  Not found, not a directory,
\* a name that exists and the inode limit are errors.
CreateNode(p, n, kind) ==
  /\ phase = "serving"
  /\ IsDir(p)
  /\ ~Has(p, n)
  /\ NewIno <= MaxIno
  /\ NewId <= MaxId
  /\ LET row == [kind |-> kind, nlink |-> IF kind = "dir" THEN 2 ELSE 1]
         new == [db EXCEPT !.inodes  = WithRow(@, NewIno, row),
                           !.targets = IF kind = "symlink" THEN @ \cup {NewIno} ELSE @]
         named == WithEntry(new, p, n, NewIno)
     IN  db' = IF kind = "dir" THEN AddDirectoryNlink(named, p, 1) ELSE named
  /\ UNCHANGED <<open, phase>>

\* External: the kernel links only an inode that has a name.
Link(i, p, n) ==
  /\ phase = "serving"
  /\ i \in Inodes /\ ~IsDir(i) /\ db.inodes[i].nlink > 0
  /\ IsDir(p)
  /\ ~Has(p, n)
  /\ NewId <= MaxId
  /\ db' = WithEntry([db EXCEPT !.inodes[i].nlink = @ + 1], p, n, i)
  /\ UNCHANGED <<open, phase>>

\* unlink_entry
Unlink(p, n) ==
  /\ phase = "serving"
  /\ Has(p, n)
  /\ LET e == Lookup(p, n)
     IN  /\ ~IsDir(e.child)
         /\ db' = DropUnlinkedInode([db EXCEPT !.dirents = @ \ {e}], e.child, e.child \in open)
  /\ UNCHANGED <<open, phase>>

\* remove_dir
RemoveDir(p, n) ==
  /\ phase = "serving"
  /\ Has(p, n)
  /\ LET e == Lookup(p, n)
     IN  /\ IsDir(e.child)
         /\ Entries(e.child) = {}
         /\ db' = AddDirectoryNlink(DeleteInodeRows([db EXCEPT !.dirents = @ \ {e}], e.child),
                                    p, -1)
  /\ UNCHANGED <<open, phase>>

\* What rename_entry demands of an entry t that the name n of q replaces.
MayReplace(source, t) ==
  /\ IsDir(source) <=> IsDir(t.child)
  /\ IsDir(source) => Entries(t.child) = {}

Moved(d, s, q, m) ==
  [d EXCEPT !.dirents = (@ \ {s}) \cup {[s EXCEPT !.parent = q, !.name = m]}]

\* Faulty: the directory a rename replaces stays counted in its parent.
RenamedKeepsCount(p, s, q, m) ==
  LET dropped == IF Has(q, m)
                 THEN DropUnlinkedInode([db EXCEPT !.dirents = @ \ {Lookup(q, m)}],
                                        Lookup(q, m).child, Lookup(q, m).child \in open)
                 ELSE db
      moved   == Moved(dropped, s, q, m)
  IN  IF IsDir(s.child) /\ p # q
      THEN AddDirectoryNlink(AddDirectoryNlink(moved, p, -1), q, 1)
      ELSE moved

\* The transaction of rename_entry: entry s of p becomes m of q.  The entry keeps
\* its id.
Renamed(p, s, q, m) ==
  LET replaced == Has(q, m)
      t        == Lookup(q, m)
      dropped  == IF replaced
                  THEN DropUnlinkedInode([db EXCEPT !.dirents = @ \ {t}], t.child, t.child \in open)
                  ELSE db
      moved    == Moved(dropped, s, q, m)
      counted  == IF IsDir(s.child) /\ p # q
                  THEN AddDirectoryNlink(AddDirectoryNlink(moved, p, -1), q, 1)
                  ELSE moved
  IN  IF replaced /\ IsDir(t.child) THEN AddDirectoryNlink(counted, q, -1) ELSE counted

\* rename_entry; renaming an entry to itself is no step.  External: the kernel
\* does not rename between two names of one inode.
Rename(p, n, q, m, noreplace) ==
  /\ phase = "serving"
  /\ Has(p, n)
  /\ IsDir(q)
  /\ <<p, n>> # <<q, m>>
  /\ LET s == Lookup(p, n)
     IN  /\ IsDir(s.child) => ~IsDescendant(q, s.child)
         /\ Has(q, m) => /\ ~noreplace
                         /\ MayReplace(s.child, Lookup(q, m))
                         /\ Lookup(q, m).child # s.child
         /\ db' = Renamed(p, s, q, m)
  /\ UNCHANGED <<open, phase>>

Open(i) ==
  /\ phase = "serving"
  /\ i \in Inodes /\ db.inodes[i].kind = "file" /\ db.inodes[i].nlink > 0
  /\ open' = open \cup {i}
  /\ UNCHANGED <<db, phase>>

\* The last close deletes an inode without a name (release_fh); a failing
\* deletion leaves it for the next start.
Release(i) ==
  /\ phase = "serving"
  /\ i \in open
  /\ open' = open \ {i}
  /\ \/ db' = IF db.inodes[i].nlink = 0 THEN DeleteInodeRows(db, i) ELSE db
     \/ db.inodes[i].nlink = 0 /\ UNCHANGED db
  /\ UNCHANGED phase

------------------------------------------------------------------------------
(* Crash and startup (initialize) *)

Crash ==
  /\ phase' = "counting"
  /\ open'  = {}
  /\ UNCHANGED db

SubdirCount(p) == Cardinality({e \in Entries(p) : IsDir(e.child)})

RecomputeDirectoryNlink ==
  /\ phase = "counting"
  /\ db' = [db EXCEPT !.inodes =
              [i \in Inodes |-> IF IsDir(i) THEN [@[i] EXCEPT !.nlink = 2 + SubdirCount(i)]
                                            ELSE @[i]]]
  /\ phase' = "sweeping"
  /\ UNCHANGED open

\* Faulty: takes the inodes with one name too.
OrphansOne == {i \in Inodes \ {Root} : db.inodes[i].nlink <= 1}

Orphans == {i \in Inodes \ {Root} : db.inodes[i].nlink = 0}

SweepOrphan(i) ==
  /\ phase = "sweeping"
  /\ i \in Orphans
  /\ db' = DeleteInodeRows(db, i)
  /\ UNCHANGED <<open, phase>>

Started ==
  /\ phase = "sweeping"
  /\ Orphans = {}
  /\ phase' = "serving"
  /\ UNCHANGED <<db, open>>

\* Requests that name no directory or no entry are errors; noreplace makes no
\* difference where there is nothing to replace.
Request ==
  \/ \E p \in Dirs, n \in Name :
       \/ \E k \in Kind : CreateNode(p, n, k)
       \/ \E i \in Inodes : Link(i, p, n)
  \/ \E e \in db.dirents :
       \/ Unlink(e.parent, e.name)
       \/ RemoveDir(e.parent, e.name)
       \/ \E q \in Dirs, m \in Name :
            \E noreplace \in IF Has(q, m) THEN BOOLEAN ELSE {FALSE} :
              Rename(e.parent, e.name, q, m, noreplace)

Next ==
  \/ Request
  \/ \E i \in Ino : Open(i) \/ Release(i) \/ SweepOrphan(i)
  \/ RecomputeDirectoryNlink \/ Started \/ Crash

Spec == Init /\ [][Next]_tree

------------------------------------------------------------------------------
(* Properties *)

Row == [kind : Kind, nlink : Nat]

TypeOK ==
  /\ Inodes \subseteq Ino
  /\ \A i \in Inodes : db.inodes[i] \in Row
  /\ db.dirents \subseteq [id : 1 .. MaxId, parent : Ino, name : Name, child : Ino]
  /\ db.targets \subseteq Ino
  /\ open \subseteq Ino
  /\ phase \in {"serving", "counting", "sweeping"}

NamesOf(i) == {e \in db.dirents : e.child = i}

\* The directories are one tree: every directory but the root has exactly one
\* name, and going up from it reaches the root.  So no chain of moves cuts a
\* subtree off or closes a cycle, and the walk of is_descendant, which stops only
\* at the root, ends (rename_entry, is_descendant).
OneTree ==
  /\ IsDir(Root) /\ NamesOf(Root) = {}
  /\ \A i \in Dirs \ {Root} :
       /\ Cardinality(NamesOf(i)) = 1
       /\ Climb(i)[MaxIno] = Root

\* Link counts are what a recount gives, for directories (so the recount at
\* startup never changes anything a user saw) and for files, through moves,
\* replacements and removals (add_directory_nlink, recompute_directory_nlink,
\* drop_unlinked_inode).
LinkCountsExact ==
  \A i \in Inodes :
    db.inodes[i].nlink = IF IsDir(i) THEN 2 + SubdirCount(i) ELSE Cardinality(NamesOf(i))

\* Entries are in directories, lead to inodes, and differ in name within one
\* directory; symlinks and only symlinks have targets although numbers are
\* reused (the invariants of the design document; the foreign-key cascades).  An
\* open inode is never deleted, whatever happens to its names (drop_unlinked_inode).
EntriesSound ==
  /\ \A e \in db.dirents : IsDir(e.parent) /\ e.child \in Inodes
  /\ \A e, f \in db.dirents :
       e # f => e.id # f.id /\ <<e.parent, e.name>> # <<f.parent, f.name>>
  /\ db.targets = {i \in Inodes : db.inodes[i].kind = "symlink"}
  /\ open \subseteq Inodes

\* A step removes at most one entry, and none below or beside it: the cascade
\* behind delete_inode_rows never takes a name nobody asked to remove, and
\* startup takes none at all (remove_dir, rename_entry, initialize).
Ids(d) == {e.id : e \in d.dirents}
OneEntryAtATime ==
  [][/\ Cardinality(Ids(db) \ Ids(db')) <= 1
     /\ phase # "serving" => Ids(db) = Ids(db')]_tree
==============================================================================
