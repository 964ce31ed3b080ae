------------------------------- MODULE Readdir -------------------------------
(***************************************************************************)
(* readdir_stream of src/fuse.rs and read_dir_after of src/db.rs: one      *)
(* process lists a directory, in as many requests as its buffers need,     *)
(* while the requests of Namespace change the tree between them.           *)
(*                                                                         *)
(* A cookie is the offset a reply gives with an entry and that a later     *)
(* request starts after: 1 for ".", 2 for "..", id + 2 for the row of      *)
(* dirents with that id.                                                   *)
(***************************************************************************)
EXTENDS Namespace

VARIABLE stream  \* the listing in progress: dir, pos, done, and the ghosts below

Dot    == 1
DotDot == 2

\* dir: the directory, 0 when none is being listed.  pos: the cookie the kernel
\* is at.  done: the end was reported.  Ghosts: stay, the inodes that had exactly
\* one name in the directory ever since it was opened; seen, those of them that
\* were reported; twice, one of them was reported again.
NoStream == [dir |-> 0, pos |-> 0, done |-> FALSE, stay |-> {}, seen |-> {}, twice |-> FALSE]

ReaddirInit == Init /\ stream = NoStream

NamesIn(d, p, i) == {e \in d.dirents : e.parent = p /\ e.child = i}
Single(d, p)     == {i \in Ino : Cardinality(NamesIn(d, p, i)) = 1}

------------------------------------------------------------------------------
(* The reply to a request that starts after cookie `offset`: a set of entries, *)
(* given in the order of their cookies, and so cut at one of them.             *)

\* read_dir_after: the rows of the directory above an id, in the order of ids.
ReadDirAfter(after) ==
  {[cookie |-> e.id + DotDot, ino |-> e.child] : e \in {f \in Entries(stream.dir) : f.id > after}}

DotEntries == {[cookie |-> Dot, ino |-> stream.dir],
               [cookie |-> DotDot, ino |-> ParentOf(stream.dir)]}

\* Faulty: positions for cookies (LIMIT/OFFSET), as before schema version 3.
StreamPositional(offset) ==
  LET Position(e) == Cardinality({f \in Entries(stream.dir) : f.id <= e.id})
      all == DotEntries \cup {[cookie |-> Position(e) + DotDot, ino |-> e.child] :
                                e \in Entries(stream.dir)}
  IN  {r \in all : r.cookie > offset}

ReaddirStream(offset) ==
  {r \in DotEntries : offset < r.cookie} \cup ReadDirAfter(Max({offset - DotDot, 0}))

------------------------------------------------------------------------------

\* opendir keeps no state in dbfs; offset 0 starts a listing.
OpenDir(i) ==
  /\ phase = "serving"
  /\ stream.dir = 0
  /\ IsDir(i)
  /\ stream' = [NoStream EXCEPT !.dir = i, !.stay = Single(db, i)]
  /\ UNCHANGED tree

\* One readdir request.  emit stops it when the reply is full, after the first entry
\* at the earliest, and, external, the process may take fewer entries still and
\* start the next request after the last one it took: the entries up to that one
\* count.  When they are taken one by one does not matter, since the reply is fixed
\* by then.  Without any entry the listing is at its end.
ReadDir ==
  /\ phase = "serving"
  /\ stream.dir # 0 /\ ~stream.done
  /\ LET reply == ReaddirStream(stream.pos)
         Told(last) == {r \in reply : /\ DotDot < r.cookie /\ r.cookie <= last.cookie
                                      /\ r.ino \in stream.stay}
     IN  \/ /\ reply = {}
            /\ stream' = [stream EXCEPT !.done = TRUE]
         \/ \E last \in reply :
              stream' = [stream EXCEPT
                !.pos   = last.cookie,
                !.seen  = @ \cup {r.ino : r \in Told(last)},
                !.twice = @ \/ \E r \in Told(last) :
                                 \/ r.ino \in stream.seen
                                 \/ \E u \in Told(last) \ {r} : u.ino = r.ino]
  /\ UNCHANGED tree

CloseDir == /\ stream.dir # 0
            /\ stream' = NoStream
            /\ UNCHANGED tree

\* Any other request, or a crash.  External: the kernel lists no removed directory.
\* After its end a listing is forgotten, whatever happens then.
Change ==
  /\ Next
  /\ LET stay == stream.stay \cap Single(db', stream.dir)
     IN  stream' = IF stream.dir \in DOMAIN db'.inodes /\ phase' = "serving" /\ ~stream.done
                   THEN [stream EXCEPT !.stay = stay, !.seen = @ \cap stay]
                   ELSE NoStream

ReaddirNext ==
  \/ Change
  \/ \E i \in Ino : OpenDir(i)
  \/ ReadDir \/ CloseDir

ReaddirSpec == ReaddirInit /\ [][ReaddirNext]_<<tree, stream>>

------------------------------------------------------------------------------
(* Properties *)

\* No entry is repeated, and a directory listed to its end has none missing: an
\* inode that had one name in the directory all along, under whatever name, was
\* reported exactly once, although other entries came, went and took over freed ids
\* between the requests ("never skips or repeats the remaining entries",
\* readdir_stream).  So one that deletes or renames what it lists misses nothing.
EveryStayerOnce == ~stream.twice /\ (stream.done => stream.seen = stream.stay)
==============================================================================
