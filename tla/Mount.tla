-------------------------------- MODULE Mount --------------------------------
(***************************************************************************)
(* The mounted process of src/run.rs: the main thread, the signal waiter   *)
(* and the session thread, the shutdown flush and the exit status.  The    *)
(* session thread serves one request at a time and runs `destroy` when it  *)
(* ends; on a signal the main thread flushes the same buffers, detaches    *)
(* the mount and waits at most SHUTDOWN_GRACE.  Both threads may be inside *)
(* flush_all at once: its loop holds the table lock, the sync after it and *)
(* the recording of the outcome do not.                                    *)
(*                                                                         *)
(* A file here is only what shutdown needs of it: does it have a name, has *)
(* it acknowledged data that is not in the database, has it data in the    *)
(* database that is not yet synced.                                        *)
(*                                                                         *)
(* A definition whose comment begins "Faulty" is a wrong variant of the    *)
(* one after it; no specification uses it.                                 *)
(***************************************************************************)
EXTENDS Integers, Sequences

CONSTANTS File,        \* open files
          MaxSignals   \* shutdown signals that arrive (bound)

ASSUME MountAssumption == MaxSignals \in Nat

VARIABLES pc,        \* what the main and the session thread do next
          pending,   \* a blocked shutdown signal is pending
          signals,   \* signals so far
          events,    \* the mpsc channel to the main thread
          closing,   \* OpenTable.closing
          linked,    \* files that have a name
          unsaved,   \* files with acknowledged data in the arena only
          unsynced,  \* files with data in the database, not synced
          err,       \* err[t]: the flush_all that thread t runs has met an error
          lastFlush, \* Shared.last_flush: TRUE for an error
          exit,      \* exit status, Running until there is one
          failed     \* ghost: some flush, sync, unmount or session failed

vars == <<pc, pending, signals, events, closing, linked, unsaved, unsynced,
          err, lastFlush, exit, failed>>

files == <<linked, unsaved, unsynced>>

Thread  == {"main", "session"}
Label   == {"recv", "refuse", "flush", "sync", "record", "unmount", "drain",
            "report", "exited", "serve", "send", "gone"}
Running == -1

Shutdown     == "Shutdown"
SessionEnded == {"EndedOk", "EndedErr"}

Init ==
  /\ pc        = [t \in Thread |-> IF t = "main" THEN "recv" ELSE "serve"]
  /\ pending   = FALSE
  /\ signals   = 0
  /\ events    = <<>>
  /\ closing   = FALSE
  /\ linked    = File
  /\ unsaved   = {}
  /\ unsynced  = {}
  /\ err       = [t \in Thread |-> FALSE]
  /\ lastFlush = FALSE
  /\ exit      = Running
  /\ failed    = FALSE

Alive     == exit = Running
Goto(t, l) == pc' = [pc EXCEPT ![t] = l]

------------------------------------------------------------------------------
(* Signals *)

Signal ==
  /\ Alive
  /\ signals < MaxSignals
  /\ pending' = TRUE
  /\ signals' = signals + 1
  /\ UNCHANGED <<pc, events, closing, files, err, lastFlush, exit, failed>>

\* Faulty: a signal is taken without an event.
WaiterDrops ==
  /\ Alive
  /\ pending
  /\ pending' = FALSE
  /\ UNCHANGED <<pc, signals, events, closing, files, err, lastFlush, exit, failed>>

\* spawn_signal_waiter: sigwait, then send.
WaiterSend ==
  /\ Alive
  /\ pending
  /\ pending' = FALSE
  /\ events'  = Append(events, Shutdown)
  /\ UNCHANGED <<pc, signals, closing, files, err, lastFlush, exit, failed>>

------------------------------------------------------------------------------
(* Requests, on the session thread *)

Serving == Alive /\ pc["session"] = "serve"

\* Faulty: shutdown does not stop writes.
WriteAlways(f) ==
  /\ Serving
  /\ unsaved' = unsaved \cup {f}
  /\ UNCHANGED <<pc, pending, signals, events, closing, linked, unsynced, err,
                 lastFlush, exit, failed>>

\* write_slot: EIO once closing is set.
Write(f) ==
  /\ Serving
  /\ ~closing
  /\ unsaved' = unsaved \cup {f}
  /\ UNCHANGED <<pc, pending, signals, events, closing, linked, unsynced, err,
                 lastFlush, exit, failed>>

\* flush or release of a named file; an eviction does the same to any file.
FlushFile(f) ==
  /\ Serving
  /\ f \in unsaved
  /\ unsaved'  = unsaved \ {f}
  /\ unsynced' = unsynced \cup {f}
  /\ UNCHANGED <<pc, pending, signals, events, closing, linked, err, lastFlush,
                 exit, failed>>

\* sync_durable, from fsync: the WAL holds the data of every file.
SyncFile ==
  /\ Serving
  /\ unsynced' = {}
  /\ UNCHANGED <<pc, pending, signals, events, closing, linked, unsaved, err,
                 lastFlush, exit, failed>>

\* The last name of an open file is removed.
Unlink(f) ==
  /\ Serving
  /\ linked' = linked \ {f}
  /\ UNCHANGED <<pc, pending, signals, events, closing, unsaved, unsynced, err,
                 lastFlush, exit, failed>>

\* The session ends (unmounted from outside, or nothing holds the detached
\* mount): `destroy` runs next.
SessionStops ==
  /\ Serving
  /\ Goto("session", "flush")
  /\ UNCHANGED <<pending, signals, events, closing, files, err, lastFlush, exit, failed>>

------------------------------------------------------------------------------
(* flush_all and record_flush, on either thread *)

Later(t) == IF t = "main" THEN "unmount" ELSE "send"

\* The loop of flush_all, under the table lock: files without a name are
\* skipped, the files in bad fail and stay unsaved.
FlushSlots(t) ==
  /\ Alive
  /\ pc[t] = "flush"
  /\ \E bad \in SUBSET (unsaved \cap linked) :
       /\ unsaved'  = (unsaved \ linked) \cup bad
       /\ unsynced' = unsynced \cup ((unsaved \cap linked) \ bad)
       /\ err'      = [err EXCEPT ![t] = bad # {}]
       /\ failed'   = (failed \/ bad # {})
  /\ Goto(t, "sync")
  /\ UNCHANGED <<pending, signals, events, closing, linked, lastFlush, exit>>

\* sync_durable, after the lock is released.
SyncDurable(t) ==
  /\ Alive
  /\ pc[t] = "sync"
  /\ \/ unsynced' = {} /\ UNCHANGED <<err, failed>>
     \/ /\ err'    = [err EXCEPT ![t] = TRUE]
        /\ failed' = TRUE
        /\ UNCHANGED unsynced
  /\ Goto(t, "record")
  /\ UNCHANGED <<pending, signals, events, closing, linked, unsaved, lastFlush, exit>>

RecordFlush(t) ==
  /\ Alive
  /\ pc[t] = "record"
  /\ lastFlush' = err[t]
  /\ Goto(t, Later(t))
  /\ UNCHANGED <<pending, signals, events, closing, files, err, exit, failed>>

\* spawn_session after the session is dropped.
SessionSends ==
  /\ Alive
  /\ pc["session"] = "send"
  /\ \E e \in SessionEnded :
       /\ events' = Append(events, e)
       /\ failed' = (failed \/ e = "EndedErr")
  /\ Goto("session", "gone")
  /\ UNCHANGED <<pending, signals, closing, files, err, lastFlush, exit>>

------------------------------------------------------------------------------
(* The main thread *)

Received == Head(events)

\* What a SessionEnded event leads to: its error is reported, or the outcome of
\* the latest flush is.
Ended(e) ==
  IF e = "EndedErr"
  THEN exit' = 1 /\ Goto("main", "exited")
  ELSE UNCHANGED exit /\ Goto("main", "report")

MainReceives ==
  /\ Alive
  /\ pc["main"] = "recv"
  /\ events # <<>>
  /\ events' = Tail(events)
  /\ IF Received = Shutdown THEN UNCHANGED exit /\ Goto("main", "refuse")
                            ELSE Ended(Received)
  /\ UNCHANGED <<pending, signals, closing, files, err, lastFlush, failed>>

RefuseWrites ==
  /\ Alive
  /\ pc["main"] = "refuse"
  /\ closing' = TRUE
  /\ Goto("main", "flush")
  /\ UNCHANGED <<pending, signals, events, files, err, lastFlush, exit, failed>>

Unmount ==
  /\ Alive
  /\ pc["main"] = "unmount"
  /\ \/ Goto("main", "drain") /\ UNCHANGED <<exit, failed>>
     \/ Goto("main", "exited") /\ exit' = 1 /\ failed' = TRUE
  /\ UNCHANGED <<pending, signals, events, closing, files, err, lastFlush>>

\* shut_down's loop: further signals are ignored.
DrainReceives ==
  /\ Alive
  /\ pc["main"] = "drain"
  /\ events # <<>>
  /\ events' = Tail(events)
  /\ IF Received = Shutdown THEN UNCHANGED <<exit, pc>> ELSE Ended(Received)
  /\ UNCHANGED <<pending, signals, closing, files, err, lastFlush, failed>>

\* Faulty: the wait has no limit.
DrainForever == FALSE

\* SHUTDOWN_GRACE runs out.
DrainTimeout ==
  /\ Alive
  /\ pc["main"] = "drain"
  /\ Goto("main", "report")
  /\ UNCHANGED <<pending, signals, events, closing, files, err, lastFlush, exit, failed>>

\* Faulty: a session that outlives the wait is an error.
ReportUngone ==
  /\ Alive
  /\ pc["main"] = "report"
  /\ exit' = IF lastFlush \/ pc["session"] # "gone" THEN 1 ELSE 0
  /\ Goto("main", "exited")
  /\ UNCHANGED <<pending, signals, events, closing, files, err, lastFlush, failed>>

\* flush_failure, and the process's exit status.
Report ==
  /\ Alive
  /\ pc["main"] = "report"
  /\ exit' = IF lastFlush THEN 1 ELSE 0
  /\ Goto("main", "exited")
  /\ UNCHANGED <<pending, signals, events, closing, files, err, lastFlush, failed>>

\* The process is gone; nothing happens any more.
Done == ~Alive /\ UNCHANGED vars

MainStep ==
  \/ MainReceives \/ RefuseWrites
  \/ FlushSlots("main") \/ SyncDurable("main") \/ RecordFlush("main")
  \/ Unmount \/ DrainReceives \/ DrainTimeout \/ Report

DestroyStep ==
  \/ FlushSlots("session") \/ SyncDurable("session") \/ RecordFlush("session")
  \/ SessionSends

Request ==
  \/ \E f \in File : Write(f) \/ FlushFile(f) \/ Unlink(f)
  \/ SyncFile

Next ==
  \/ Signal \/ WaiterSend
  \/ Request \/ SessionStops
  \/ MainStep \/ DestroyStep
  \/ Done

\* Fairness: each thread runs when it can.  DrainTimeout is a clock, so it comes
\* too.  Nothing makes the kernel send requests, signals or the end of the
\* session.
Spec ==
  /\ Init /\ [][Next]_vars
  /\ WF_vars(MainStep) /\ WF_vars(DestroyStep) /\ WF_vars(WaiterSend)

------------------------------------------------------------------------------
(* Properties *)

TypeOK ==
  /\ pc        \in [Thread -> Label]
  /\ pending   \in BOOLEAN
  /\ signals   \in 0 .. MaxSignals
  /\ events    \in Seq({Shutdown} \cup SessionEnded)
  /\ closing   \in BOOLEAN
  /\ linked    \in SUBSET File
  /\ unsaved   \in SUBSET File
  /\ unsynced  \in SUBSET File
  /\ err       \in [Thread -> BOOLEAN]
  /\ lastFlush \in BOOLEAN
  /\ exit      \in {Running, 0, 1}
  /\ failed    \in BOOLEAN

\* When dbfs exits with status 0, every acknowledged write to a file that still
\* has a name is in the database and synced, whichever of signal, unmount and
\* timeout ended it and however the two flush_all calls interleaved (mount_dbfs,
\* shut_down, destroy).
ExitZeroMeansDurable ==
  exit = 0 => linked \cap (unsaved \cup unsynced) = {}

\* A non-zero exit has a cause: a flush, a sync, the unmount or the session
\* failed.  A process that keeps a file open past SHUTDOWN_GRACE is not one.
ExitOneHasCause == exit = 1 => failed

\* A signal is not lost: after one, the main thread never waits for an event that
\* nobody will send, however requests, the end of the session and the waiter
\* interleave (spawn_signal_waiter, mount_dbfs).
ShutdownHeeded == signals > 0 /\ pc["main"] = "recv" => pending \/ events # <<>>

\* A shutdown signal ends the process, even if a file stays open for ever and
\* the session never ends (SHUTDOWN_GRACE).
SignalEndsProcess == pending ~> exit # Running

\* The doc comment of mount_dbfs: "A flush failure at any point makes this
\* return an error."
FlushFailureIsError == failed /\ exit # Running => exit = 1
==============================================================================
