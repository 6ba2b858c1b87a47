------------------------------- MODULE LogRing --------------------------------
(***************************************************************************)
(* The log that the ADMIN console shows (management-log.c): esp_log calls  *)
(* management_log_vprintf from any task, chunks gather in one pending line *)
(* until a newline commits it to a ring, NUT's syslog calls go straight to *)
(* the ring, and a request copies a window out of it.                      *)
(*                                                                         *)
(* The uptime is read before the lock is taken; everything under the lock  *)
(* is one step.  A chunk is abstracted to who wrote it and how it ends.    *)
(***************************************************************************)
EXTENDS Integers, Sequences

CONSTANTS
    Writers,        \* tasks that log
    LogCapacity,    \* MANAGEMENT_LOG_ENTRY_CAPACITY
    LogWindow,      \* MANAGEMENT_LOG_STATUS_WINDOW
    MaxUptime,      \* bounds the clock
    MaxStored       \* bounds the entries ever stored

ASSUME LogAssumption ==
    /\ LogCapacity \in Nat \ {0} /\ LogWindow \in 1 .. LogCapacity
    /\ MaxUptime \in Nat /\ MaxStored \in Nat

VARIABLES
    ring,       \* management_log_entries with _next and _count
    pending,    \* whether management_log_pending holds text
    writer,     \* each task in management_log_vprintf or _capture_syslog
    logReader,  \* the request that copies the log
    uptime,
    stored      \* entries stored so far: the stamp of the next one

logVars == <<ring, pending, writer, logReader, uptime, stored>>

(* A line in one chunk, a part of a line, a line longer than the chunk       *)
(* buffer, the TLS handshake line, and a syslog call.                        *)
ChunkKinds == {"line", "part", "long", "handshake", "syslog"}
LogEntries == [by : Writers \cup {"reader"}, at : 0 .. MaxUptime, stamp : 1 .. MaxStored]
LogCalls == [pc : {"away", "capture", "newline"}, kind : ChunkKinds, at : 0 .. MaxUptime]
NoEntry == [by |-> "nobody", at |-> 0, stamp |-> 0]
Away == [pc |-> "away", kind |-> "line", at |-> 0]
NoCopy == [pc |-> "away", upto |-> 0, copy |-> << >>]

RingStates ==
    [slot : [1 .. LogCapacity -> LogEntries \cup {NoEntry}],
     next : 0 .. LogCapacity - 1, count : 0 .. LogCapacity]
ReaderStates == [pc : {"away", "copy", "done"}, upto : 0 .. MaxStored, copy : Seq(LogEntries)]

LogTypeOK ==
    /\ ring \in RingStates /\ pending \in BOOLEAN /\ writer \in [Writers -> LogCalls]
    /\ logReader \in ReaderStates /\ uptime \in 0 .. MaxUptime /\ stored \in 0 .. MaxStored

LogInit ==
    /\ ring = [slot |-> [i \in 1 .. LogCapacity |-> NoEntry], next |-> 0, count |-> 0]
    /\ pending = FALSE
    /\ writer = [w \in Writers |-> Away]
    /\ logReader = NoCopy /\ uptime = 0 /\ stored = 0

-----------------------------------------------------------------------------
Store_CountWraps(by, at, empty) ==
    IF empty
    THEN UNCHANGED <<ring, stored>>
    ELSE /\ stored < MaxStored /\ stored' = stored + 1
         /\ ring' = [slot |-> [ring.slot EXCEPT ![ring.next + 1] =
                                 [by |-> by, at |-> at, stamp |-> stored + 1]],
                     next |-> (ring.next + 1) % LogCapacity,
                     count |-> (ring.count + 1) % (LogCapacity + 1)]

(* management_log_store_locked; an empty message is not kept.                *)
Store(by, at, empty) ==
    IF empty
    THEN UNCHANGED <<ring, stored>>
    ELSE /\ stored < MaxStored /\ stored' = stored + 1
         /\ ring' = [slot |-> [ring.slot EXCEPT ![ring.next + 1] =
                                 [by |-> by, at |-> at, stamp |-> stored + 1]],
                     next |-> (ring.next + 1) % LogCapacity,
                     count |-> IF ring.count < LogCapacity THEN ring.count + 1 ELSE ring.count]

(* management_log_vprintf has formatted; _capture_chunk and _capture_syslog  *)
(* read the uptime before they wait for the lock.                            *)
BeginLog(w, kind) ==
    /\ writer[w].pc = "away"
    /\ writer' = [writer EXCEPT ![w] = [pc |-> "capture", kind |-> kind, at |-> uptime]]
    /\ UNCHANGED <<ring, pending, logReader, uptime, stored>>

(* management_log_capture_chunk under the lock: the chunk joins the pending  *)
(* line and a newline commits the line.  The handshake line alone is not     *)
(* kept.  A chunk that filled the buffer lost its newline: a second call     *)
(* commits it, and what other tasks add in between is cut off.               *)
CaptureChunk(w) ==
    LET kind == writer[w].kind IN
    /\ writer[w].pc = "capture" /\ kind # "syslog"
    /\ IF kind \in {"part", "long"}
       THEN pending' = TRUE /\ UNCHANGED <<ring, stored>>
       ELSE Store(w, writer[w].at, kind = "handshake" /\ ~pending) /\ pending' = FALSE
    /\ writer' = [writer EXCEPT ![w] =
                    IF kind = "long" THEN [pc |-> "newline", kind |-> "line", at |-> uptime] ELSE Away]
    /\ UNCHANGED <<logReader, uptime>>

CaptureNewline(w) ==
    /\ writer[w].pc = "newline"
    /\ Store(w, writer[w].at, ~pending) /\ pending' = FALSE
    /\ writer' = [writer EXCEPT ![w] = Away]
    /\ UNCHANGED <<logReader, uptime>>

(* management_log_capture_syslog stores the message, past the pending line. *)
CaptureSyslog(w) ==
    /\ writer[w].pc = "capture" /\ writer[w].kind = "syslog"
    /\ Store(w, writer[w].at, FALSE)
    /\ writer' = [writer EXCEPT ![w] = Away]
    /\ UNCHANGED <<pending, logReader, uptime>>

(* The newest n entries, oldest first. *)
Window(n) ==
    [i \in 1 .. n |-> ring.slot[((ring.next + LogCapacity - n + i - 1) % LogCapacity) + 1]]

FlushPending_Dropped ==
    /\ logReader.pc = "away"
    /\ logReader' = [pc |-> "copy", upto |-> stored + (IF pending THEN 1 ELSE 0), copy |-> << >>]
    /\ pending' = FALSE
    /\ UNCHANGED <<ring, stored, writer, uptime>>

(* management_log_append_snapshot and _copy_snapshot first commit what is    *)
(* pending, release the lock, and take it again to copy.                     *)
FlushPending ==
    /\ logReader.pc = "away"
    /\ Store("reader", uptime, ~pending) /\ pending' = FALSE
    /\ logReader' = [pc |-> "copy", upto |-> stored', copy |-> << >>]
    /\ UNCHANGED <<writer, uptime>>

CopySnapshot(limit) ==
    /\ logReader.pc = "copy"
    /\ logReader' = [logReader EXCEPT !.pc = "done",
                       !.copy = Window(IF ring.count < limit THEN ring.count ELSE limit)]
    /\ UNCHANGED <<ring, pending, writer, uptime, stored>>

SendLog ==
    /\ logReader.pc = "done"
    /\ logReader' = NoCopy
    /\ UNCHANGED <<ring, pending, writer, uptime, stored>>

LogTick ==
    /\ uptime < MaxUptime /\ uptime' = uptime + 1
    /\ UNCHANGED <<ring, pending, writer, logReader, stored>>

LogNext ==
    \/ \E w \in Writers :
          \/ \E kind \in ChunkKinds : BeginLog(w, kind)
          \/ CaptureChunk(w) \/ CaptureNewline(w) \/ CaptureSyslog(w)
    \/ FlushPending \/ CopySnapshot(LogCapacity) \/ CopySnapshot(LogWindow) \/ SendLog
    \/ LogTick

LogSpec == LogInit /\ [][LogNext]_logVars

-----------------------------------------------------------------------------
Bounded == INSTANCE BoundedLog WITH
              Entries <- LogEntries, Keep <- LogCapacity, kept <- Window(ring.count)

(* The ring with its wrapping index is the bounded queue a reader expects:   *)
(* each stored entry comes last, and only the oldest goes                    *)
(* (management-log.c:121-130, 420-428).                                      *)
LogIsBoundedQueue == Bounded!Spec

(* A copy holds successive entries and misses nothing that was logged before *)
(* the request, the flushed pending line included, although the lock is free *)
(* between the flush and the copy (management-log.c:411-429).                *)
SnapshotIsCurrent ==
    logReader.pc = "done" =>
       LET c == logReader.copy IN
       /\ \A i \in 1 .. Len(c) - 1 : c[i + 1].stamp = c[i].stamp + 1
       /\ logReader.upto > 0 => Len(c) > 0 /\ c[Len(c)].stamp >= logReader.upto

(* The uptime is read outside the lock, so entries of different tasks may be *)
(* out of order; those of one task never are (management-log.c:157, 279).    *)
TaskInOrder ==
    \A i, j \in 1 .. ring.count :
       LET e == Window(ring.count) IN
       i < j /\ e[i].by = e[j].by /\ e[i].by # "reader" => e[i].at <= e[j].at

(* What a reader of the log may rely on: nothing is missing from a copy, and *)
(* every task's entries are in order (management-log.c:150-300, 398-433).    *)
LogSafe == LogTypeOK /\ SnapshotIsCurrent /\ TaskInOrder
=============================================================================
