-------------------------- MODULE AttributesProofs --------------------------
(***************************************************************************)
(* The size and mtime a request sees are the ones the operations amount    *)
(* to: proofs about Attributes, for any sizes, clock and number of handles.*)
(***************************************************************************)
EXTENDS Attributes, TLAPS

\* The slot holds a write that the row does not have.
Unsaved == slot # None /\ slot.dirty

(***************************************************************************)
(* OverlayShowsTold is not inductive: a clean slot is dropped when nothing *)
(* has it open, and what shows then is the row.  ToldInv says who holds    *)
(* size and mtime: a dirty slot, otherwise the row, with a clean slot      *)
(* repeating the size.                                                     *)
(***************************************************************************)
ToldInv ==
  /\ Unsaved => slot.size = told.size /\ slot.mtime = told.mtime
  /\ ~Unsaved => row.size = told.size /\ row.mtime = told.mtime
  /\ slot # None => slot.size = told.size

\* What a getattr in progress has read is current, as far as no slot overrides it.
GettingInv ==
  getting # None /\ ~raced /\ ~Unsaved =>
    getting.size = told.size /\ getting.mtime = told.mtime

AttrInv == TypeOK /\ ToldInv /\ GettingInv /\ SetattrReplyCurrent

\* A flushed row shows what was told; the slot that is kept is clean and of that size.
LEMMA FlushShowsTold ==
  ASSUME TypeOK, ToldInv
  PROVE  /\ FlushedRow \in Attr
         /\ FlushedRow.size = told.size /\ FlushedRow.mtime = told.mtime
         /\ Kept(slot) \in SlotState \cup {None}
         /\ Kept(slot) # None => Kept(slot).size = told.size /\ ~Kept(slot).dirty
  BY NoneAssumption DEF TypeOK, ToldInv, Unsaved, FlushedRow, StoredRow, Kept,
     Attr, SlotState

\* open leaves a slot, of the size and in the state it found.
LEMMA OpenedSlot ==
  ASSUME TypeOK, Open
  PROVE  /\ slot' \in SlotState
         /\ slot'.size = Found.size /\ slot'.mtime = Found.mtime /\ slot'.dirty = Found.dirty
  <1> USE AttrAssumption DEF TypeOK, Attr, SlotState, Size, Time
  <1>1. Found \in SlotState
      BY DEF Found
  <1> QED
      BY <1>1 DEF Open

\* The slot with the chunks of a write up to position k.
LEMMA PlacedSlot ==
  ASSUME TypeOK, slot # None, NEW k \in Size
  PROVE  /\ Longer(slot.size, k) \in Size /\ Placed(k) \in SlotState
         /\ Placed(k).size = Longer(slot.size, k) /\ Placed(k).mtime = now
         /\ Placed(k).dirty <=> slot.dirty \/ k > 0
  <1>1. slot \in SlotState /\ now \in Time
      BY DEF TypeOK
  <1>2. Longer(slot.size, k) \in Size
      BY <1>1 DEF SlotState, Longer
  <1> DEFINE d == slot.dirty \/ k > 0
  <1>3. Placed(k) = [slot EXCEPT !.size = Longer(slot.size, k), !.mtime = now, !.dirty = d]
      BY <1>1 DEF Placed, SlotState
  <1>4. d \in BOOLEAN
      OBVIOUS
  <1> HIDE DEF d
  <1>5. Placed(k) \in SlotState
      BY <1>1, <1>2, <1>3, <1>4 DEF SlotState
  <1>6. /\ Placed(k).size = Longer(slot.size, k) /\ Placed(k).mtime = now
        /\ Placed(k).dirty = d
      BY <1>1, <1>3 DEF SlotState
  <1> QED
      BY <1>2, <1>5, <1>6 DEF d

\* What a write leaves once its chunks up to position k are in, evictions included:
\* size and mtime are in the slot, or in the row if the slot is clean.
LEMMA PlacedSomewhere ==
  ASSUME TypeOK, slot # None, NEW k \in Size, PlaceUpto(k)
  PROVE  /\ slot' \in SlotState /\ row' \in Attr
         /\ slot'.size = Longer(slot.size, k) /\ slot'.mtime = now
         /\ slot'.dirty => Placed(k).dirty
         /\ ~slot'.dirty /\ Placed(k).dirty =>
              row'.size = Longer(slot.size, k) /\ row'.mtime = now
         /\ ~Placed(k).dirty => row' = row
  <1>1. row \in Attr /\ now \in Time
      BY DEF TypeOK
  <1>2. CASE slot' = Placed(k) /\ UNCHANGED row
      BY <1>1, <1>2, PlacedSlot
  <1>3. ASSUME NEW e \in 0 .. k, row' = StoredRow(Placed(e)),
               slot' = [Placed(k) EXCEPT !.dirty = e < k]
        PROVE  /\ slot' \in SlotState /\ row' \in Attr
               /\ slot'.size = Longer(slot.size, k) /\ slot'.mtime = now
               /\ slot'.dirty => Placed(k).dirty
               /\ ~slot'.dirty /\ Placed(k).dirty =>
                    row'.size = Longer(slot.size, k) /\ row'.mtime = now
               /\ ~Placed(k).dirty => row' = row
    <2>1. e \in Size /\ (e < k) \in BOOLEAN
        BY AttrAssumption DEF Size
    <2>2. /\ slot' \in SlotState /\ slot'.size = Longer(slot.size, k) /\ slot'.mtime = now
          /\ slot'.dirty <=> e < k
      <3> DEFINE d == e < k
      <3>1. slot' = [Placed(k) EXCEPT !.dirty = d] /\ d \in BOOLEAN
          BY <1>3, <2>1
      <3> HIDE DEF d
      <3>2. /\ slot' \in SlotState /\ slot'.size = Placed(k).size /\ slot'.mtime = Placed(k).mtime
            /\ slot'.dirty = d
          BY <3>1, PlacedSlot DEF SlotState
      <3> QED
          BY <3>2, PlacedSlot DEF d
    <2>3. Placed(e) \in SlotState /\ Placed(e) # None
        BY <2>1, PlacedSlot, NoneAssumption
    <2>4. /\ Placed(e).dirty => row' = [size |-> Longer(slot.size, e), mtime |-> now, ctime |-> now]
          /\ ~Placed(e).dirty => row' = row
        BY <1>3, <2>1, <2>3, PlacedSlot DEF StoredRow
    <2>5. row' \in Attr
        BY <1>1, <2>1, <2>4, PlacedSlot DEF Attr
    <2>6. e < k => Placed(k).dirty
        BY <2>1, PlacedSlot, AttrAssumption DEF Size
    <2>7. ~(e < k) => e = k
        BY AttrAssumption DEF Size
    <2>8. ~Placed(k).dirty => ~Placed(e).dirty
        BY <2>6, <2>7
    <2> QED
        BY <2>2, <2>4, <2>5, <2>6, <2>7, <2>8
  <1> QED
      BY <1>2, <1>3 DEF PlaceUpto

\* A write, whole or failing, leaves size and mtime where ToldInv looks for them.
LEMMA WrittenTold ==
  ASSUME TypeOK, ToldInv, NEW k \in Size,
         Write(k) \/ WriteFails(k)
  PROVE  /\ slot' \in SlotState /\ row' \in Attr /\ told' \in [size : Size, mtime : Time]
         /\ slot'.size = told'.size
         /\ slot'.dirty => slot'.mtime = told'.mtime
         /\ ~slot'.dirty => row'.size = told'.size /\ row'.mtime = told'.mtime
  <1>1. slot # None /\ PlaceUpto(k)
      BY DEF Write, WriteFails
  <1>2. slot.size = told.size /\ now \in Time /\ told \in [size : Size, mtime : Time]
      BY <1>1 DEF ToldInv, TypeOK
  <1>3. \/ slot'.dirty /\ told' = [size |-> Longer(slot.size, k), mtime |-> now]
        \/ told' = IF Placed(k).dirty THEN [size |-> Longer(slot.size, k), mtime |-> now]
                   ELSE told
      BY <1>2 DEF Write, WriteFails
  <1>4. Longer(slot.size, k) \in Size
      BY <1>1, PlacedSlot
  <1>5. ~Placed(k).dirty => ~slot.dirty /\ k = 0 /\ Longer(slot.size, k) = slot.size
    <2>1. slot.size \in Size
        BY <1>2
    <2> QED
        BY <1>1, <2>1, PlacedSlot, AttrAssumption DEF Size, Longer
  <1>6. ~slot.dirty => row.size = told.size /\ row.mtime = told.mtime
      BY <1>1 DEF ToldInv, Unsaved
  <1> QED
      BY <1>1, <1>2, <1>3, <1>4, <1>5, <1>6, PlacedSomewhere

\* Each state variable keeps its type.
LEMMA TypeStep == TypeOK /\ ToldInv /\ [Next]_vars => TypeOK'
  <1> SUFFICES ASSUME TypeOK, ToldInv, [Next]_vars PROVE TypeOK'
      OBVIOUS
  <1>0. ASSUME NEW k \in Size, Write(k) \/ WriteFails(k) PROVE TypeOK'
      BY <1>0, WrittenTold DEF TypeOK, Write, WriteFails
  <1> USE AttrAssumption, NoneAssumption DEF TypeOK, Attr, SlotState, Size, Time
  <1>1. FlushedRow \in Attr
      BY DEF FlushedRow, StoredRow
  <1>2. \A s \in SlotState \cup {None} : Kept(s) \in SlotState \cup {None}
      BY DEF Kept
  <1>3. CASE Tick
      BY <1>3 DEF Tick
  <1>4. CASE Open
      BY <1>4, OpenedSlot DEF Open
  <1>5. /\ \A n \in 1 .. MaxSize : Write(n) => TypeOK'
        /\ \A k \in 0 .. MaxSize - 1 : WriteFails(k) => TypeOK'
      BY <1>0
  <1>6. CASE Flush
      BY <1>6, <1>1, <1>2 DEF Flush
  <1>7. CASE Release
      BY <1>7, <1>1, <1>2 DEF Release
  <1>8. ASSUME NEW n \in Size \cup {None}, NEW m \in Time \cup {None}, Setattr(n, m)
        PROVE  TypeOK'
      BY <1>8, <1>1, <1>2 DEF Setattr, Reply
  <1>9. ASSUME NEW n \in Size, Truncate(n) PROVE TypeOK'
      BY <1>9, <1>2 DEF Truncate
  <1>10. CASE Link
      BY <1>10 DEF Link, Reply
  <1>11. CASE GetattrRead
      BY <1>11 DEF GetattrRead
  <1>12. CASE GetattrReply
    <2>1. Overlay(getting) \in Attr
        BY <1>12 DEF GetattrReply, Idle, Overlay
    <2> QED
        BY <1>12, <2>1 DEF GetattrReply, Reply
  <1>13. CASE FlushAll
      BY <1>13, <1>1, <1>2 DEF FlushAll
  <1>14. CASE UNCHANGED vars
      BY <1>14 DEF vars
  <1> QED
      BY <1>3, <1>4, <1>5, <1>6, <1>7, <1>8, <1>9, <1>10, <1>11, <1>12, <1>13, <1>14 DEF Next

\* Every step preserves the invariant.
LEMMA AttrStep == AttrInv /\ [Next]_vars => AttrInv'
  <1> SUFFICES ASSUME AttrInv, [Next]_vars
               PROVE  ToldInv' /\ GettingInv' /\ SetattrReplyCurrent'
      BY TypeStep DEF AttrInv
  <1> USE NoneAssumption DEF ToldInv, Unsaved, GettingInv, SetattrReplyCurrent
  <1>0. TypeOK /\ ToldInv /\ GettingInv /\ SetattrReplyCurrent
      BY DEF AttrInv
  <1>1. /\ FlushedRow \in Attr
        /\ FlushedRow.size = told.size /\ FlushedRow.mtime = told.mtime
        /\ Kept(slot) \in SlotState \cup {None}
        /\ Kept(slot) # None => Kept(slot).size = told.size /\ ~Kept(slot).dirty
      BY <1>0, FlushShowsTold
  <1>2. CASE Tick
      BY <1>0, <1>2 DEF Tick
  <1>3. CASE Open
    <2>1. Found.size = told.size /\ (slot = None => ~Found.dirty) /\ (slot # None => Found = slot)
        BY <1>0 DEF Found
    <2> QED
        BY <1>0, <1>3, <2>1, OpenedSlot DEF Open, Idle
  <1>4. ASSUME NEW k \in Size, Write(k) \/ WriteFails(k)
        PROVE  ToldInv' /\ GettingInv' /\ SetattrReplyCurrent'
    <2>1. slot' # None
        BY <1>0, <1>4, WrittenTold
    <2>2. ToldInv'
        BY <1>0, <1>4, <2>1, WrittenTold
    <2> QED
        BY <1>0, <1>4, <2>2 DEF Write, WriteFails, Idle
  <1>14. 1 .. MaxSize \subseteq Size /\ 0 .. MaxSize - 1 \subseteq Size
      BY AttrAssumption DEF Size
  <1>5. CASE Flush
      BY <1>0, <1>1, <1>5 DEF Flush, Idle
  <1>6. CASE Release
    <2> DEFINE s == [slot EXCEPT !.refs = @ - 1]
    <2>0. s \in SlotState
        BY <1>0, <1>6, AttrAssumption DEF Release, TypeOK, SlotState
    <2>1. slot \in SlotState /\ s.size = slot.size /\ s.mtime = slot.mtime
          /\ s.dirty = slot.dirty
        BY <1>0, <1>6 DEF Release, TypeOK, SlotState
    <2>2. CASE row' = FlushedRow /\ slot' = Kept(s)
      <3>1. slot' # None => slot'.size = told.size /\ ~slot'.dirty
        <4>1. CASE s.refs = 0 \/ s = None
            BY <2>2, <4>1 DEF Kept
        <4>2. CASE ~(s.refs = 0 \/ s = None)
          <5>1. slot' = [s EXCEPT !.dirty = FALSE]
              BY <2>2, <4>2 DEF Kept
          <5> QED
              BY <1>0, <2>1, <5>1, <1>6 DEF Release, SlotState
        <4> QED
            BY <4>1, <4>2
      <3> QED
          BY <1>0, <1>1, <1>6, <2>2, <3>1 DEF Release, Idle
    <2>3. CASE slot.dirty /\ slot' = s /\ UNCHANGED row
      <3>1. slot' \in SlotState /\ slot'.size = told.size /\ slot'.mtime = told.mtime
            /\ slot'.dirty
          BY <1>0, <1>6, <2>0, <2>1, <2>3 DEF Release
      <3> QED
          BY <1>0, <1>6, <3>1 DEF Release, Idle
    <2> QED
        BY <1>6, <2>2, <2>3 DEF Release
  <1>7. ASSUME NEW n \in Size \cup {None}, NEW m \in Time \cup {None}, Setattr(n, m)
        PROVE  ToldInv' /\ GettingInv' /\ SetattrReplyCurrent'
    <2>1. ToldInv'
        BY <1>0, <1>1, <1>7 DEF Setattr, TypeOK, SlotState
    <2> QED
        BY <1>0, <1>1, <1>7, <2>1 DEF Setattr, Idle, Reply, Right
  <1>8. ASSUME NEW n \in Size, Truncate(n)
        PROVE  ToldInv' /\ GettingInv' /\ SetattrReplyCurrent'
      BY <1>0, <1>1, <1>8 DEF Truncate, Idle, SlotState
  <1>9. CASE Link
      BY <1>0, <1>9 DEF Link, Idle, Reply, TypeOK, Attr
  <1>10. CASE GetattrRead
      BY <1>0, <1>10 DEF GetattrRead
  <1>11. CASE GetattrReply
      BY <1>0, <1>11 DEF GetattrReply, Reply
  <1>12. CASE FlushAll
      BY <1>0, <1>1, <1>12 DEF FlushAll, FlushedRow, StoredRow
  <1>13. CASE UNCHANGED vars
      BY <1>0, <1>13 DEF vars
  <1> QED
      BY <1>2, <1>3, <1>4, <1>14, <1>5, <1>6, <1>7, <1>8, <1>9, <1>10, <1>11, <1>12, <1>13
      DEF Next

\* A fresh file satisfies it.
LEMMA AttrInit == Init => AttrInv
  <1> SUFFICES ASSUME Init PROVE AttrInv
      OBVIOUS
  <1>1. 0 \in Size /\ 0 \in Time
      BY AttrAssumption DEF Size, Time
  <1>2. row \in Attr /\ told \in [size : Size, mtime : Time]
      BY <1>1 DEF Init, Attr
  <1> QED
      BY <1>1, <1>2 DEF Init, AttrInv, TypeOK, ToldInv, Unsaved, GettingInv,
         SetattrReplyCurrent

\* It holds in every state.
LEMMA AttrAlways == Spec => []AttrInv
  BY AttrInit, AttrStep, PTL DEF Spec

\* The state stays well-typed: sizes and times in range, a slot with a count of its
\* handles.
THEOREM AttributesTypeCorrect == Spec => []TypeOK
  <1>1. AttrInv => TypeOK
      BY DEF AttrInv
  <1> QED
      BY <1>1, AttrAlways, PTL

\* Row and slot together show the size and mtime of the last request that buffered or
\* stored anything: a flush by either thread, in the middle of a write too, changes
\* neither (write_slot, overlay_attr, set_size).
THEOREM OverlayCurrent == Spec => []OverlayShowsTold
  <1>1. AttrInv => OverlayShowsTold
      BY NoneAssumption DEF AttrInv, TypeOK, ToldInv, Unsaved, OverlayShowsTold, Overlay, Attr
  <1> QED
      BY <1>1, AttrAlways, PTL

\* setattr replies with the writes buffered before it, failed ones as far as they
\* were.
THEOREM SetattrCurrent == Spec => []SetattrReplyCurrent
  <1>1. AttrInv => SetattrReplyCurrent
      BY DEF AttrInv
  <1> QED
      BY <1>1, AttrAlways, PTL

\* getattr and lookup, which take two locks one after the other, reply with the
\* current size and mtime unless flush_all stored data in between.
THEOREM GetattrCurrent == Spec => GetattrReplyCurrent
  <1>1. AttrInv /\ [Next]_vars =>
          [getting # None /\ ~raced /\ getting' = None => Right(reply')]_vars
    <2> SUFFICES ASSUME AttrInv, Next, getting # None, ~raced, getting' = None
                 PROVE  Right(reply')
        OBVIOUS
    <2>1. GetattrReply
        BY DEF Next, Idle, Tick, Open, Flush, Release, Link, Write, WriteFails, Setattr,
           Truncate, GetattrRead, FlushAll
    <2>2. Overlay(getting).size = told.size /\ Overlay(getting).mtime = told.mtime
        BY NoneAssumption DEF AttrInv, TypeOK, ToldInv, Unsaved, GettingInv, Overlay, Attr
    <2> QED
        BY <2>1, <2>2 DEF GetattrReply, Reply, Right
  <1> QED
      BY <1>1, AttrAlways, PTL DEF Spec, GetattrReplyCurrent
=============================================================================
