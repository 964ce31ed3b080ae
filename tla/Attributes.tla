----------------------------- MODULE Attributes -----------------------------
(***************************************************************************)
(* Size and times of one regular file: the inodes row (src/db.rs), the     *)
(* slot that overrides it while it is live (src/open_table.rs), and the    *)
(* attributes that getattr, lookup, setattr and link return (src/fuse.rs). *)
(* The session thread serves one request at a time, but getattr and lookup *)
(* read the row first and take the table lock afterwards, and the shutdown *)
(* thread's flush_all may run in between.                                  *)
(*                                                                         *)
(* A write that fails half-way is not acknowledged, but the chunks it has  *)
(* buffered stay, with the size that covers them, and so does its mtime    *)
(* when the inode has dirty chunks: the ghost told includes them.          *)
(*                                                                         *)
(* A definition whose comment begins "Faulty" is a wrong variant of the    *)
(* one after it; no specification uses it.                                 *)
(***************************************************************************)
EXTENDS Integers

CONSTANTS MaxSize,   \* file sizes, in chunks (bound)
          MaxTime,   \* clock readings (bound)
          MaxRefs,   \* open handles (bound)
          None       \* no slot, no reply, no getattr in progress

ASSUME AttrAssumption ==
  /\ MaxSize \in Nat \ {0}
  /\ MaxTime \in Nat \ {0}
  /\ MaxRefs \in Nat \ {0}

Size == 0 .. MaxSize
Time == 0 .. MaxTime
Attr == [size : Size, mtime : Time, ctime : Time]

VARIABLES now,      \* the system clock
          row,      \* the inodes row
          slot,     \* the slot of the inode, or None
          closing,  \* shutdown has started
          getting,  \* the row a getattr in progress has read, or None
          raced,    \* ghost: flush_all has stored data since getattr read the row
          reply,    \* the latest attribute reply, with the attributes that were due
          told      \* ghost: size and mtime the operations so far amount to, the
                    \* buffered part of failed writes included

vars == <<now, row, slot, closing, getting, raced, reply, told>>

SlotState == [size : Size, mtime : Time, dirty : BOOLEAN, refs : 0 .. MaxRefs]

ASSUME NoneAssumption == None \notin Attr \cup SlotState \cup Size \cup Time

Init ==
  /\ now     = 0
  /\ row     = [size |-> 0, mtime |-> 0, ctime |-> 0]
  /\ slot    = None
  /\ closing = FALSE
  /\ getting = None
  /\ raced   = FALSE
  /\ reply   = None
  /\ told    = [size |-> 0, mtime |-> 0]

Tick ==
  /\ now < MaxTime
  /\ now' = now + 1
  /\ UNCHANGED <<row, slot, closing, getting, raced, reply, told>>

\* The session thread is between two requests.
Idle == getting = None

------------------------------------------------------------------------------
(* Slot and row *)

\* slot_for
Found == IF slot = None THEN [size |-> row.size, mtime |-> 0, dirty |-> FALSE, refs |-> 0]
                        ELSE slot

\* Faulty: the row gets the time of the flush, not of the write.
StoredRowNow(s) == IF s # None /\ s.dirty
                   THEN [size |-> s.size, mtime |-> now, ctime |-> now]
                   ELSE row

\* replace_chunks and set_size: the row after a flush of the slot s.
StoredRow(s) == IF s # None /\ s.dirty
                THEN [size |-> s.size, mtime |-> s.mtime, ctime |-> s.mtime]
                ELSE row

FlushedRow == StoredRow(slot)

\* The slot s, flushed, and dropped if nothing has it open.
Kept(s) == IF s = None \/ s.refs = 0 THEN None ELSE [s EXCEPT !.dirty = FALSE]

\* overlay_attr
Overlay(attr) ==
  IF slot = None THEN attr
  ELSE IF slot.dirty
  THEN [size |-> slot.size, mtime |-> slot.mtime, ctime |-> slot.mtime]
  ELSE [attr EXCEPT !.size = slot.size]

Reply(op, attr, due) == [op |-> op, size |-> attr.size, mtime |-> attr.mtime, due |-> due]

------------------------------------------------------------------------------
(* Requests *)

Open ==
  /\ Idle
  /\ Found.refs < MaxRefs
  /\ slot' = [Found EXCEPT !.refs = @ + 1]
  /\ UNCHANGED <<now, row, closing, getting, raced, reply, told>>

Longer(size, k) == IF k > size THEN k ELSE size

\* write_slot sets mtime first, then buffers its chunks one by one and grows the
\* size with each: the slot with the chunks up to position k, or none if k is 0.
Placed(k) == [slot EXCEPT !.size = Longer(@, k), !.mtime = now, !.dirty = @ \/ k > 0]

\* The chunks up to position k are in.  alloc_chunk may have flushed this inode on
\* the way, last when those up to position e were.
PlaceUpto(k) ==
  \/ slot' = Placed(k) /\ UNCHANGED row
  \/ \E e \in 0 .. k :
       /\ row'  = StoredRow(Placed(e))
       /\ slot' = [Placed(k) EXCEPT !.dirty = e < k]

\* write_fh, up to position n; the last chunk stays buffered.
Write(n) ==
  /\ Idle
  /\ ~closing
  /\ slot # None /\ slot.refs > 0
  /\ PlaceUpto(n) /\ slot'.dirty
  /\ told' = [size |-> Longer(told.size, n), mtime |-> now]
  /\ UNCHANGED <<now, closing, getting, raced, reply>>

\* write_fh fails after position k, in alloc_chunk or read_chunk_into.  What is
\* buffered then has the mtime of this write, chunks of earlier writes too.
WriteFails(k) ==
  /\ Idle
  /\ ~closing
  /\ slot # None /\ slot.refs > 0
  /\ PlaceUpto(k)
  /\ told' = IF Placed(k).dirty THEN [size |-> Longer(told.size, k), mtime |-> now] ELSE told
  /\ UNCHANGED <<now, closing, getting, raced, reply>>

\* flush and fsync; an eviction by another file's write is the same step.
Flush ==
  /\ Idle
  /\ slot # None
  /\ row'  = FlushedRow
  /\ slot' = Kept(slot)
  /\ UNCHANGED <<now, closing, getting, raced, reply, told>>

\* release_fh: a failing flush keeps the slot, dirty and perhaps unopened.
Release ==
  /\ Idle
  /\ slot # None /\ slot.refs > 0
  /\ LET s == [slot EXCEPT !.refs = @ - 1]
     IN  \/ row' = FlushedRow /\ slot' = Kept(s)
         \/ slot.dirty /\ slot' = s /\ UNCHANGED row
  /\ UNCHANGED <<now, closing, getting, raced, reply, told>>

\* Faulty: buffered writes are left to a later flush.
SetattrUnflushed(n, m) ==
  /\ Idle
  /\ LET size  == IF n = None THEN row.size ELSE n
         mtime == IF m # None THEN m ELSE IF n # None THEN now ELSE row.mtime
         attr  == [size |-> size, mtime |-> mtime, ctime |-> now]
     IN  /\ row'   = attr
         /\ slot'  = IF slot = None \/ n = None THEN slot ELSE [slot EXCEPT !.size = n]
         /\ told'  = [size  |-> IF n = None THEN told.size ELSE n,
                      mtime |-> IF m = None /\ n = None THEN told.mtime ELSE mtime]
         /\ reply' = Reply("setattr", attr, told')
  /\ UNCHANGED <<now, closing, getting, raced>>

\* setattr with an optional size n and an optional mtime m: flush, truncate
\* (which sets mtime to now), then update_metadata, which returns the row.
Setattr(n, m) ==
  /\ Idle
  /\ LET size  == IF n = None THEN FlushedRow.size ELSE n
         mtime == IF m # None THEN m ELSE IF n # None THEN now ELSE FlushedRow.mtime
         attr  == [size |-> size, mtime |-> mtime, ctime |-> now]
         kept  == Kept(slot)
     IN  /\ row'   = attr
         /\ slot'  = IF kept = None \/ n = None THEN kept ELSE [kept EXCEPT !.size = n]
         /\ told'  = [size  |-> IF n = None THEN told.size ELSE n,
                      mtime |-> IF m = None /\ n = None THEN told.mtime ELSE mtime]
         /\ reply' = Reply("setattr", attr, told')
  /\ UNCHANGED <<now, closing, getting, raced>>

\* truncate_locked alone: fallocate, or a setattr with a size whose
\* update_metadata fails after it.
Truncate(n) ==
  /\ Idle
  /\ row'  = [size |-> n, mtime |-> now, ctime |-> now]
  /\ slot' = IF Kept(slot) = None THEN None ELSE [Kept(slot) EXCEPT !.size = n]
  /\ told' = [size |-> n, mtime |-> now]
  /\ UNCHANGED <<now, closing, getting, raced, reply>>

\* link: the reply is the row, with the new ctime.
Link ==
  /\ Idle
  /\ row'   = [row EXCEPT !.ctime = now]
  /\ reply' = Reply("link", row, told)
  /\ UNCHANGED <<now, slot, closing, getting, raced, told>>

\* getattr and lookup, first half: the row, under the connection lock.
GetattrRead ==
  /\ Idle
  /\ getting' = row
  /\ raced'   = FALSE
  /\ UNCHANGED <<now, row, slot, closing, reply, told>>

\* Faulty: only the size is overlaid.
GetattrReplySizeOnly ==
  /\ ~Idle
  /\ reply'   = Reply("getattr", [getting EXCEPT !.size = Overlay(getting).size], told)
  /\ getting' = None
  /\ raced'   = FALSE
  /\ UNCHANGED <<now, row, slot, closing, told>>

\* getattr and lookup, second half: the overlay, under the table lock.
GetattrReply ==
  /\ ~Idle
  /\ reply'   = Reply("getattr", Overlay(getting), told)
  /\ getting' = None
  /\ raced'   = FALSE
  /\ UNCHANGED <<now, row, slot, closing, told>>

\* The shutdown thread: refuse_writes and flush_all, which may fail to store
\* this file.
FlushAll ==
  /\ closing' = TRUE
  /\ \/ /\ row'   = FlushedRow
        /\ slot'  = Kept(slot)
        /\ raced' = (raced \/ (getting # None /\ slot # None /\ slot.dirty))
     \/ slot # None /\ slot.dirty /\ UNCHANGED <<row, slot, raced>>
  /\ UNCHANGED <<now, getting, reply, told>>

Next ==
  \/ Tick \/ Open \/ Flush \/ Release \/ Link
  \/ \E n \in 1 .. MaxSize : Write(n)
  \/ \E k \in 0 .. MaxSize - 1 : WriteFails(k)
  \/ \E n \in Size \cup {None}, m \in Time \cup {None} : Setattr(n, m)
  \/ \E n \in Size : Truncate(n)
  \/ GetattrRead \/ GetattrReply
  \/ FlushAll

Spec == Init /\ [][Next]_vars

------------------------------------------------------------------------------
(* Properties *)

TypeOK ==
  /\ now     \in Time
  /\ row     \in Attr
  /\ slot    \in SlotState \cup {None}
  /\ closing \in BOOLEAN
  /\ getting \in Attr \cup {None}
  /\ raced   \in BOOLEAN
  /\ told    \in [size : Size, mtime : Time]
  /\ reply   = None \/ reply \in [op : {"setattr", "link", "getattr"}, size : Size,
                                  mtime : Time, due : [size : Size, mtime : Time]]

\* Row and overlay together always show the size and mtime that the operations
\* amount to, acknowledged ones and what failed writes have buffered: a flush,
\* whenever and by whichever thread, in the middle of a write too, changes
\* neither, and in particular does not overwrite an mtime set after the write
\* (write_slot, set_size, overlay_attr, the comment in setattr).
OverlayShowsTold ==
  /\ Overlay(row).size = told.size
  /\ Overlay(row).mtime = told.mtime

Right(r) == r.size = r.due.size /\ r.mtime = r.due.mtime

\* The attributes setattr returns include the writes buffered before it, the
\* buffered part of failed ones too; the kernel caches them.
SetattrReplyCurrent == reply # None /\ reply.op = "setattr" => Right(reply)

\* A getattr or lookup that no shutdown flush interrupts returns the current
\* size and mtime, as told has them: a reply is current unless raced.
GetattrReplyCurrent ==
  [][getting # None /\ ~raced /\ getting' = None => Right(reply')]_vars

\* What write_updates_mtime_before_flush asserts of every getattr after a
\* write: the mtime, and with it the size, is the one of the write.
GetattrAlwaysCurrent == reply # None /\ reply.op = "getattr" => Right(reply)

\* "Authoritative while the slot is live" (OpenInodes.size): the size link
\* returns is the slot's, as it is for setattr.
LinkReplyCurrent == reply # None /\ reply.op = "link" => Right(reply)
=============================================================================
