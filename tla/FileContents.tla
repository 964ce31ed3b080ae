---------------------------- MODULE FileContents ----------------------------
(***************************************************************************)
(* What dbfs promises about the bytes of its files, without chunks,        *)
(* buffers or a database.  Every file has a content, which reads return,   *)
(* and a saved copy, which is what is left after the process dies.  The    *)
(* saved copy is only ever a whole earlier content of that file: saving    *)
(* copies the content in one step, and a crash falls back to it.  A write  *)
(* places its bytes from first to last, in one or more runs; it may fail   *)
(* after any of them, and other files may be saved in between.             *)
(***************************************************************************)
EXTENDS Integers, Sequences

CONSTANTS Ino,      \* the files
          Limit,    \* largest file size
          Zero,     \* the byte a hole reads as
          Payloads, \* the buffers a write may carry
          NoWrite   \* value of `request` when no write is running

VARIABLES content,  \* what a read returns
          saved,    \* what a restart returns
          request   \* the write being served; bytes before upto are placed

vars == <<content, saved, request>>

Position == 0 .. (Limit - 1)

\* A file image has a size, and bytes (Zero past the size).
Empty == [size |-> 0, data |-> [p \in Position |-> Zero]]

Init ==
  /\ content = [i \in Ino |-> Empty]
  /\ saved   = [i \in Ino |-> Empty]
  /\ request = NoWrite

\* Image f with bytes upto .. to - 1 of the file taken from request r; a gap
\* between the old end and upto reads as Zero.
Written(f, r, to) ==
  [size |-> IF to > f.size THEN to ELSE f.size,
   data |-> [p \in Position |->
               IF r.upto <= p /\ p < to THEN r.data[p - r.off + 1] ELSE f.data[p]]]

\* Image f cut or extended with zeros to size n.
Resized(f, n) ==
  [size |-> n, data |-> [p \in Position |-> IF p < n THEN f.data[p] ELSE Zero]]

Begin(i, off, data) ==
  /\ request = NoWrite
  /\ off + Len(data) <= Limit
  /\ request' = [ino |-> i, off |-> off, data |-> data, upto |-> off]
  /\ UNCHANGED <<content, saved>>

\* The next run of bytes is accepted and reads see it at once.
Place(to) ==
  /\ request # NoWrite
  /\ request.upto < to
  /\ to <= request.off + Len(request.data)
  /\ content' = [content EXCEPT ![request.ino] = Written(@, request, to)]
  /\ request' = [request EXCEPT !.upto = to]
  /\ UNCHANGED saved

\* The write returns: with all its bytes placed, or with an error.
End ==
  /\ request # NoWrite
  /\ request' = NoWrite
  /\ UNCHANGED <<content, saved>>

\* The content becomes the saved copy.
Save(i) ==
  /\ saved' = [saved EXCEPT ![i] = content[i]]
  /\ UNCHANGED <<content, request>>

\* truncate and fallocate change the content and its saved copy together.
Resize(i, n) ==
  /\ request = NoWrite
  /\ content' = [content EXCEPT ![i] = Resized(@, n)]
  /\ saved'   = [saved EXCEPT ![i] = Resized(content[i], n)]
  /\ UNCHANGED request

\* The process dies: what was not saved is gone.
Lose ==
  /\ content' = saved
  /\ request' = NoWrite
  /\ UNCHANGED saved

Next ==
  \/ \E i \in Ino, off \in Position, data \in Payloads : Begin(i, off, data)
  \/ \E to \in 1 .. Limit : Place(to)
  \/ End
  \/ \E i \in Ino : Save(i)
  \/ \E i \in Ino, n \in 0 .. Limit : Resize(i, n)
  \/ Lose

Spec == Init /\ [][Next]_vars
=============================================================================
