----------------------------- MODULE MountProofs -----------------------------
(***************************************************************************)
(* Exit status 0 means that nothing acknowledged is lost: proofs about     *)
(* Mount, for any set of files and any number of signals.                  *)
(***************************************************************************)
EXTENDS Mount, TLAPS

\* What the mpsc channel holds stays well-typed when an event is sent to it or
\* taken from it.
LEMMA EventSeq ==
  ASSUME NEW S, NEW q \in Seq(S)
  PROVE  /\ \A e \in S : Append(q, e) \in Seq(S)
         /\ q # <<>> => Head(q) \in S /\ Tail(q) \in Seq(S)
  OBVIOUS

\* Types are preserved by every step of the three threads.
LEMMA TypeStep == TypeOK /\ [Next]_vars => TypeOK'
  <1> SUFFICES ASSUME TypeOK, [Next]_vars PROVE TypeOK'
      OBVIOUS
  <1> USE MountAssumption DEF TypeOK, Running, Thread, Label
  <1>1. CASE Signal
      BY <1>1 DEF Signal, files
  <1>2. CASE WaiterSend
    <2>1. events' \in Seq({Shutdown} \cup SessionEnded)
        BY <1>2, EventSeq DEF WaiterSend
    <2> QED
        BY <1>2, <2>1 DEF WaiterSend, files
  <1>3. CASE Request
      BY <1>3 DEF Request, Write, FlushFile, Unlink, SyncFile, Serving
  <1>4. CASE SessionStops
      BY <1>4 DEF SessionStops, Serving, Goto, files
  <1>5. ASSUME NEW t \in Thread, FlushSlots(t) PROVE TypeOK'
      BY <1>5 DEF FlushSlots, Goto
  <1>6. ASSUME NEW t \in Thread, SyncDurable(t) PROVE TypeOK'
      BY <1>6 DEF SyncDurable, Goto
  <1>7. ASSUME NEW t \in Thread, RecordFlush(t) PROVE TypeOK'
      BY <1>7 DEF RecordFlush, Goto, Later, files
  <1>8. CASE SessionSends
    <2>1. events' \in Seq({Shutdown} \cup SessionEnded)
        BY <1>8, EventSeq DEF SessionSends
    <2> QED
        BY <1>8, <2>1 DEF SessionSends, Goto, files
  <1>9. CASE MainReceives
      BY <1>9 DEF MainReceives, Received, Ended, Goto, files
  <1>10. CASE RefuseWrites
      BY <1>10 DEF RefuseWrites, Goto, files
  <1>11. CASE Unmount
      BY <1>11 DEF Unmount, Goto, files
  <1>12. CASE DrainReceives
      BY <1>12 DEF DrainReceives, Received, Ended, Goto, files
  <1>13. CASE DrainTimeout
      BY <1>13 DEF DrainTimeout, Goto, files
  <1>14. CASE Report
      BY <1>14 DEF Report, Goto, files
  <1>15. CASE UNCHANGED vars
      BY <1>15 DEF vars
  <1> QED
      BY <1>1, <1>2, <1>3, <1>4, <1>5, <1>6, <1>7, <1>8, <1>9, <1>10, <1>11, <1>12,
         <1>13, <1>14, <1>15 DEF Next, MainStep, DestroyStep, Done

\* The process starts well-typed.
LEMMA TypeInit == Init => TypeOK
  <1> SUFFICES ASSUME Init PROVE TypeOK
      OBVIOUS
  <1>1. events \in Seq({Shutdown} \cup SessionEnded)
      BY DEF Init
  <1>2. pc \in [Thread -> Label]
      BY DEF Init, Thread, Label
  <1>3. /\ err \in [Thread -> BOOLEAN]
        /\ signals \in 0 .. MaxSignals
      BY MountAssumption DEF Init
  <1> QED
      BY <1>1, <1>2, <1>3 DEF Init, TypeOK

\* The variables of the mounted process keep their types.
THEOREM TypeCorrect == Spec => []TypeOK
  BY TypeInit, TypeStep, PTL DEF Spec

------------------------------------------------------------------------------
(***************************************************************************)
(* ExitZeroMeansDurable is not inductive: the outcome that Report reads    *)
(* was recorded earlier, by either thread, and describes a flush and a     *)
(* sync made earlier still.  DurableInv carries the fact from the loop of  *)
(* flush_all, through the sync and the recording, to the exit: at each of  *)
(* these points nothing is pending unless an error is remembered, because  *)
(* no write is accepted any more, either since the main thread has set     *)
(* `closing` or since the session thread has left its request loop.        *)
(***************************************************************************)

Unflushed == linked \cap unsaved
Pending   == linked \cap (unsaved \cup unsynced)

\* The main thread flushes, and reports after a shutdown, only with the table
\* closed; it reports without it only when the session is gone.
WritesStopped ==
  /\ pc["main"] \in {"flush", "sync", "record", "unmount", "drain"} => closing
  /\ pc["main"] = "report" => closing \/ pc["session"] = "gone"

\* A flush_all without an error has saved, and then synced, everything.
FlushedSoFar ==
  \A t \in Thread :
    /\ pc[t] = "sync"   /\ ~err[t] => Unflushed = {}
    /\ pc[t] = "record" /\ ~err[t] => Pending = {}

\* Once a thread is past its flush, last_flush tells the truth about the data.
OutcomeTrue ==
  pc["main"] \in {"unmount", "drain", "report"} \/ pc["session"] \in {"send", "gone"}
    => lastFlush \/ Pending = {}

\* SessionEnded is on the channel only when the session thread is gone.
EndIsLast == pc["session"] # "gone" => events \in Seq({Shutdown})

\* The inductive invariant of the shutdown.
DurableInv ==
  /\ TypeOK
  /\ WritesStopped
  /\ FlushedSoFar
  /\ OutcomeTrue
  /\ EndIsLast
  /\ ExitZeroMeansDurable

\* Every step of the three threads keeps DurableInv.
LEMMA DurableStep == DurableInv /\ [Next]_vars => DurableInv'
  <1> SUFFICES ASSUME DurableInv, [Next]_vars PROVE DurableInv'
      OBVIOUS
  <1>0. TypeOK /\ TypeOK'
      BY TypeStep DEF DurableInv
  <1>a. /\ pc \in [Thread -> Label] /\ err \in [Thread -> BOOLEAN]
        /\ "main" \in Thread /\ "session" \in Thread
      BY <1>0 DEF TypeOK, Thread
  <1> DEFINE Rest == WritesStopped /\ FlushedSoFar /\ OutcomeTrue /\ EndIsLast
                       /\ ExitZeroMeansDurable
  <1> SUFFICES Rest'
      BY <1>0 DEF DurableInv
  <1>b. Rest
      BY DEF DurableInv
  <1> USE <1>a, <1>b DEF WritesStopped, FlushedSoFar, OutcomeTrue, EndIsLast,
                         ExitZeroMeansDurable, Unflushed, Pending, Thread
  <1>1. CASE Signal
      BY <1>1 DEF Signal, files
  <1>2. CASE WaiterSend
    <2>1. EndIsLast'
        BY <1>2, EventSeq DEF WaiterSend
    <2> QED
        BY <1>2, <2>1 DEF WaiterSend, files
  <1>3. CASE Request
    <2>1. ASSUME NEW f \in File, Write(f) PROVE Rest'
        BY <2>1 DEF Write, Serving, Alive, Running
    <2>2. ASSUME NEW f \in File, FlushFile(f) PROVE Rest'
        BY <2>2 DEF FlushFile, Serving
    <2>3. ASSUME NEW f \in File, Unlink(f) PROVE Rest'
        BY <2>3 DEF Unlink, Serving
    <2>4. CASE SyncFile
        BY <2>4 DEF SyncFile, Serving
    <2> QED
        BY <1>3, <2>1, <2>2, <2>3, <2>4 DEF Request
  <1>4. CASE SessionStops
      BY <1>4 DEF SessionStops, Serving, Goto, files
  <1>5. ASSUME NEW t \in Thread, FlushSlots(t) PROVE Rest'
      BY <1>5 DEF FlushSlots, Goto, Alive, Running
  <1>6. ASSUME NEW t \in Thread, SyncDurable(t) PROVE Rest'
      BY <1>6 DEF SyncDurable, Goto, Alive, Running
  <1>7. ASSUME NEW t \in Thread, RecordFlush(t) PROVE Rest'
      BY <1>7 DEF RecordFlush, Goto, Later, files, Alive, Running
  <1>8. CASE SessionSends
      BY <1>8 DEF SessionSends, Goto, files, Alive, Running
  <1>9. CASE MainReceives
      BY <1>9 DEF MainReceives, Received, Ended, Goto, files
  <1>10. CASE RefuseWrites
      BY <1>10 DEF RefuseWrites, Goto, files
  <1>11. CASE Unmount
      BY <1>11 DEF Unmount, Goto, files
  <1>12. CASE DrainReceives
      BY <1>12 DEF DrainReceives, Received, Ended, Goto, files
  <1>13. CASE DrainTimeout
      BY <1>13 DEF DrainTimeout, Goto, files
  <1>14. CASE Report
      BY <1>14 DEF Report, Goto, files
  <1>15. CASE UNCHANGED vars
      BY <1>15 DEF vars
  <1> QED
      BY <1>1, <1>2, <1>3, <1>4, <1>5, <1>6, <1>7, <1>8, <1>9, <1>10, <1>11, <1>12,
         <1>13, <1>14, <1>15 DEF Next, MainStep, DestroyStep, Done

\* Exit status 0 is a promise: whatever ended the process, and however the two
\* flush_all calls of mount_dbfs and destroy interleaved, no acknowledged write
\* to a file that still has a name is missing from the synced database.
THEOREM ExitZeroDurable == Spec => []ExitZeroMeansDurable
  <1>1. Init => DurableInv
    <2> SUFFICES ASSUME Init PROVE DurableInv
        OBVIOUS
    <2>1. TypeOK
        BY TypeInit
    <2>2. pc["main"] = "recv" /\ pc["session"] = "serve"
        BY DEF Init, Thread
    <2>3. EndIsLast
        BY DEF Init, EndIsLast
    <2>4. ExitZeroMeansDurable
        BY DEF Init, ExitZeroMeansDurable, Running
    <2> QED
        BY <2>1, <2>2, <2>3, <2>4 DEF DurableInv, WritesStopped, FlushedSoFar,
           OutcomeTrue, Thread
  <1>2. DurableInv => ExitZeroMeansDurable
      BY DEF DurableInv
  <1> QED
      BY <1>1, <1>2, DurableStep, PTL DEF Spec

------------------------------------------------------------------------------
(***************************************************************************)
(* The converse: status 1 is never reported without a failure.  Each place *)
(* that remembers an error (a flush_all in progress, last_flush, an event  *)
(* on the channel) remembers one that happened.                            *)
(***************************************************************************)

\* The inductive invariant of the error paths.
CauseInv ==
  /\ TypeOK
  /\ \A t \in Thread : err[t] => failed
  /\ lastFlush => failed
  /\ ~failed => events \in Seq({Shutdown, "EndedOk"})
  /\ ExitOneHasCause

\* Every step of the three threads keeps CauseInv.
LEMMA CauseStep == CauseInv /\ [Next]_vars => CauseInv'
  <1> SUFFICES ASSUME CauseInv, [Next]_vars PROVE CauseInv'
      OBVIOUS
  <1>0. TypeOK /\ TypeOK'
      BY TypeStep DEF CauseInv
  <1>a. /\ err \in [Thread -> BOOLEAN]
        /\ failed \in BOOLEAN
      BY <1>0 DEF TypeOK
  <1> DEFINE Rest == /\ \A t \in Thread : err[t] => failed
                     /\ lastFlush => failed
                     /\ ~failed => events \in Seq({Shutdown, "EndedOk"})
                     /\ ExitOneHasCause
  <1> SUFFICES Rest'
      BY <1>0 DEF CauseInv
  <1>b. Rest
      BY DEF CauseInv
  <1> USE <1>a, <1>b DEF ExitOneHasCause
  <1>1. CASE Signal
      BY <1>1 DEF Signal
  <1>2. CASE WaiterSend
    <2>1. ~failed' => events' \in Seq({Shutdown, "EndedOk"})
        BY <1>2, EventSeq DEF WaiterSend
    <2> QED
        BY <1>2, <2>1 DEF WaiterSend
  <1>3. CASE Request
      BY <1>3 DEF Request, Write, FlushFile, Unlink, SyncFile
  <1>4. CASE SessionStops
      BY <1>4 DEF SessionStops
  <1>5. ASSUME NEW t \in Thread, FlushSlots(t) PROVE Rest'
      BY <1>5 DEF FlushSlots
  <1>6. ASSUME NEW t \in Thread, SyncDurable(t) PROVE Rest'
      BY <1>6 DEF SyncDurable
  <1>7. ASSUME NEW t \in Thread, RecordFlush(t) PROVE Rest'
      BY <1>7 DEF RecordFlush
  <1>8. CASE SessionSends
    <2>1. ~failed' => events' \in Seq({Shutdown, "EndedOk"})
        BY <1>8, EventSeq DEF SessionSends, SessionEnded
    <2> QED
        BY <1>8, <2>1 DEF SessionSends
  <1>9. CASE MainReceives
    <2>1. ~failed => events' \in Seq({Shutdown, "EndedOk"}) /\ Received # "EndedErr"
        BY <1>9, EventSeq DEF MainReceives, Received, Shutdown
    <2> QED
        BY <1>9, <2>1 DEF MainReceives, Ended
  <1>10. CASE RefuseWrites
      BY <1>10 DEF RefuseWrites
  <1>11. CASE Unmount
      BY <1>11 DEF Unmount
  <1>12. CASE DrainReceives
    <2>1. ~failed => events' \in Seq({Shutdown, "EndedOk"}) /\ Received # "EndedErr"
        BY <1>12, EventSeq DEF DrainReceives, Received, Shutdown
    <2> QED
        BY <1>12, <2>1 DEF DrainReceives, Ended
  <1>13. CASE DrainTimeout
      BY <1>13 DEF DrainTimeout
  <1>14. CASE Report
      BY <1>14 DEF Report
  <1>15. CASE UNCHANGED vars
      BY <1>15 DEF vars
  <1> QED
      BY <1>1, <1>2, <1>3, <1>4, <1>5, <1>6, <1>7, <1>8, <1>9, <1>10, <1>11, <1>12,
         <1>13, <1>14, <1>15 DEF Next, MainStep, DestroyStep, Done, Thread

\* Exit status 1 has a cause: a flush, a sync, the unmount or the session
\* failed; a file held open past SHUTDOWN_GRACE never turns into an error.
THEOREM ExitOneCaused == Spec => []ExitOneHasCause
  <1>1. Init => CauseInv
    <2> SUFFICES ASSUME Init PROVE CauseInv
        OBVIOUS
    <2>1. TypeOK
        BY TypeInit
    <2>2. events \in Seq({Shutdown, "EndedOk"})
        BY DEF Init
    <2>3. ExitOneHasCause
        BY DEF Init, ExitOneHasCause, Running
    <2> QED
        BY <2>1, <2>2, <2>3 DEF Init, CauseInv
  <1>2. CauseInv => ExitOneHasCause
      BY DEF CauseInv
  <1> QED
      BY <1>1, <1>2, CauseStep, PTL DEF Spec

------------------------------------------------------------------------------
(* Signals *)

\* No shutdown signal is lost between the signal, the waiter and the channel: the
\* main thread does not wait in recv for an event that nobody will send.
THEOREM SignalNotLost == Spec => []ShutdownHeeded
  <1>1. Init => ShutdownHeeded
      BY DEF Init, ShutdownHeeded
  <1>2. TypeOK /\ ShutdownHeeded /\ [Next]_vars => ShutdownHeeded'
    <2> SUFFICES ASSUME TypeOK, ShutdownHeeded, [Next]_vars PROVE ShutdownHeeded'
        OBVIOUS
    <2> USE DEF ShutdownHeeded, Goto
    <2>0. pc \in [Thread -> Label] /\ "main" \in Thread /\ "session" \in Thread
        BY DEF TypeOK, Thread
    <2>1. \A q, e : q \in Seq({Shutdown} \cup SessionEnded) => Append(q, e) # <<>>
        OBVIOUS
    <2>2. events \in Seq({Shutdown} \cup SessionEnded)
        BY DEF TypeOK
    <2>3. CASE Signal
        BY <2>3 DEF Signal
    <2>4. CASE WaiterSend
        BY <2>1, <2>2, <2>4 DEF WaiterSend
    <2>5. CASE Request
        BY <2>5 DEF Request, Write, FlushFile, Unlink, SyncFile
    <2>6. CASE SessionStops
        BY <2>0, <2>6 DEF SessionStops
    <2>7. CASE DestroyStep
      <3>1. pc'["main"] = pc["main"] /\ pending' = pending /\ signals' = signals
          BY <2>0, <2>7 DEF DestroyStep, FlushSlots, SyncDurable, RecordFlush, SessionSends
      <3>2. events' = events \/ events' # <<>>
          BY <2>1, <2>2, <2>7 DEF DestroyStep, FlushSlots, SyncDurable, RecordFlush, SessionSends
      <3> QED
          BY <3>1, <3>2
    <2>8. CASE MainStep
      <3>1. pc'["main"] # "recv"
          BY <2>0, <2>8 DEF MainStep, MainReceives, RefuseWrites, FlushSlots, SyncDurable,
                            RecordFlush, Later, Unmount, DrainReceives, DrainTimeout, Report, Ended
      <3> QED
          BY <3>1
    <2>9. CASE Done \/ UNCHANGED vars
        BY <2>9 DEF Done, vars
    <2> QED
        BY <2>3, <2>4, <2>5, <2>6, <2>7, <2>8, <2>9 DEF Next
  <1> QED
      BY <1>1, <1>2, TypeCorrect, PTL DEF Spec
==============================================================================
