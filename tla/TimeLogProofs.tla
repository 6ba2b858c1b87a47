----------------------------- MODULE TimeLogProofs ----------------------------
(***************************************************************************)
(* The clock of the firmware (TimeConfig) and the log it stamps (LogRing): *)
(* for any clocks, writers, entries and capacity.  Each part has its       *)
(* inductive invariant, a lemma for each action, and the theorems.         *)
(***************************************************************************)
EXTENDS TimeConfig, LogRing, TLAPS

(* Facts about sequences, for any sequences: the solver knows them of single  *)
(* ones, and the proofs below cite them by name.                              *)

(* The empty sequence, and what is not it. *)
LEMMA EmptySeq ==
    ASSUME NEW S
    PROVE  /\ << >> \in Seq(S)
           /\ Len(<< >>) = 0
           /\ \A s \in Seq(S) : s # << >> => Len(s) \in Nat \ {0}
OBVIOUS

(* A sequence is a function from an interval. *)
LEMMA LenProperties ==
    ASSUME NEW S, NEW s \in Seq(S)
    PROVE  Len(s) \in Nat /\ s \in [1..Len(s) -> S] /\ DOMAIN s = 1..Len(s)
OBVIOUS

(* The sequences over S, as functions. *)
LEMMA SeqDef == \A S : Seq(S) = UNION {[1..n -> S] : n \in Nat}
OBVIOUS

(* Sequences with the same elements are equal. *)
LEMMA SeqEqual ==
    ASSUME NEW S, NEW s \in Seq(S), NEW t \in Seq(S),
           Len(s) = Len(t), \A i \in 1..Len(s) : s[i] = t[i]
    PROVE  s = t
OBVIOUS

(* What is in a part of a sequence, and where. *)
LEMMA SubSeqProperties ==
    ASSUME NEW S, NEW s, NEW m \in Int, NEW n \in Int, \A i \in m..n : s[i] \in S
    PROVE  /\ SubSeq(s, m, n) \in Seq(S)
           /\ Len(SubSeq(s, m, n)) = IF m <= n THEN n - m + 1 ELSE 0
           /\ \A i \in 1..n - m + 1 : SubSeq(s, m, n)[i] = s[m + i - 1]
OBVIOUS

(* One element more. *)
LEMMA AppendProperties ==
    ASSUME NEW S, NEW s \in Seq(S), NEW e \in S
    PROVE  /\ Append(s, e) \in Seq(S)
           /\ Append(s, e) # << >>
           /\ Len(Append(s, e)) = Len(s) + 1
           /\ \A i \in 1..Len(s) : Append(s, e)[i] = s[i]
           /\ Append(s, e)[Len(s) + 1] = e
OBVIOUS

-----------------------------------------------------------------------------
(* Between a reply that sets the clock and its callback, and between a       *)
(* manual setting and its entry, the source may be out of date; each then    *)
(* knows what the clock is, unless the two have met.                         *)
Busy == {"commit", "zone", "state"}

ConfInv ==
    /\ timeOp.pc # "idle" => timeState.loaded
    /\ timeOp.pc \in Busy => timeNvs = timeOp.new
    /\ timeState.loaded /\ ~timeHist.failed /\ timeOp.pc \notin Busy => timeState.conf = timeNvs
    /\ timeState.waiting /\ timeOp.pc # "init" => sntp.running

SourceInv ==
    ~timeHist.raced =>
      /\ timeOp.pc = "sync" => sntp.due = "none" /\ clock = [by |-> "manual", valid |-> TRUE]
      /\ sntp.due # "none" => clock = [by |-> "ntp", valid |-> sntp.due = "valid"]
      /\ timeOp.pc # "sync" /\ sntp.due = "none" =>
           /\ timeState.synchronized => clock.by = "ntp" /\ clock.valid
           /\ clock.valid => clock.by = IF timeState.source = "unavailable" THEN "retained"
                                        ELSE timeState.source

TimeInv == TimeTypeOK /\ ConfInv /\ SourceInv

LEMMA TimeInitially == TimeInit => TimeInv
BY DEF TimeInit, TimeInv, TimeTypeOK, Unloaded, TimeIdle, NoConfig, DefaultConfig, TimeConfigs,
       Sources,
       ConfInv, SourceInv, Busy, Clocks, TimeStates, SntpStates, TimeOps

(* Each field has its type; the two that are neither names nor               *)
(* configurations are Boolean.                                               *)
LEMMA TimeFields ==
    ASSUME TimeTypeOK
    PROVE  /\ timeState.source \in Sources /\ timeState.conf \in TimeConfigs
           /\ timeState.synchronized \in BOOLEAN /\ timeState.waiting \in BOOLEAN
           /\ timeState.loaded \in BOOLEAN /\ timeOp.new \in TimeConfigs
           /\ timeOp.new.ntp \in BOOLEAN /\ timeHist.raced \in BOOLEAN /\ clock.valid \in BOOLEAN
BY Zenon DEF TimeTypeOK, TimeStates, TimeOps, TimeConfigs, Clocks

LEMMA IdleOp == TimeIdle \in TimeOps /\ TimeIdle.pc = "idle"
BY DEF TimeIdle, TimeOps, NoConfig, TimeConfigs

LEMMA StartTimeKeeps == ASSUME TimeInv, TimeStart PROVE TimeInv'
<1> DEFINE conf == IF timeState.loaded THEN timeState.conf ELSE timeNvs
           src == IF clock.valid /\ timeState.source = "unavailable" THEN "retained" ELSE timeState.source
<1>0. TimeTypeOK /\ timeOp.pc = "idle" /\ UNCHANGED <<clock, sntp, timeNvs, timeHist>>
  BY DEF TimeInv, TimeStart
<1>1. conf \in TimeConfigs /\ src \in Sources
  BY <1>0, TimeFields DEF TimeTypeOK, Sources
<1>2. \/ /\ timeOp' = [pc |-> "apply", new |-> conf]
         /\ timeState' = [timeState EXCEPT !.conf = conf, !.loaded = TRUE, !.source = src]
      \/ timeState' = [timeState EXCEPT !.conf = conf, !.loaded = TRUE] /\ UNCHANGED timeOp
  BY <1>0 DEF TimeStart, TimeTypeOK, TimeStates
<1>3. ~timeHist.failed => conf = timeNvs
  BY <1>0 DEF TimeInv, ConfInv, Busy
<1>4. src = timeState.source \/ (clock.valid /\ timeState.source = "unavailable" /\ src = "retained")
  OBVIOUS
<1> HIDE DEF conf, src
<1>5. /\ timeState' \in TimeStates /\ timeState'.conf = conf /\ timeState'.loaded
      /\ timeState'.waiting = timeState.waiting /\ timeState'.synchronized = timeState.synchronized
      /\ timeState'.source \in {src, timeState.source}
  <2>0. timeState \in TimeStates /\ timeState.source \in Sources
    BY <1>0, TimeFields DEF TimeTypeOK
  <2>1. CASE timeState' = [timeState EXCEPT !.conf = conf, !.loaded = TRUE, !.source = src]
    <3>1. timeState' \in TimeStates
      BY <1>1, <2>0, <2>1 DEF TimeStates
    <3> QED BY <2>0, <2>1, <3>1 DEF TimeStates
  <2>2. CASE timeState' = [timeState EXCEPT !.conf = conf, !.loaded = TRUE]
    <3>1. timeState' \in TimeStates
      BY <1>1, <2>0, <2>2 DEF TimeStates
    <3> QED BY <2>0, <2>2, <3>1 DEF TimeStates
  <2> QED BY <1>2, <2>1, <2>2
<1>6. timeOp' \in TimeOps /\ timeOp'.pc \in {"idle", "apply"}
  BY <1>0, <1>1, <1>2 DEF TimeTypeOK, TimeOps
<1>7. TimeTypeOK'
  BY <1>0, <1>5, <1>6 DEF TimeTypeOK
<1>8. ConfInv'
  BY <1>0, <1>3, <1>5, <1>6 DEF TimeInv, ConfInv, Busy
<1>9. SourceInv'
  BY <1>0, <1>4, <1>5, <1>6 DEF TimeInv, SourceInv
<1> QED BY <1>7, <1>8, <1>9 DEF TimeInv

LEMMA CommitTimeKeeps == ASSUME TimeInv, UpdateCommits PROVE TimeInv'
<1>0. TimeTypeOK /\ timeOp.pc \in {"commit", "zone"} /\ UNCHANGED <<clock, timeState, sntp, timeNvs>>
  BY DEF TimeInv, UpdateCommits
<1> DEFINE next == IF timeOp.pc = "commit" THEN "zone" ELSE "state"
<1>1. CASE timeOp' = [timeOp EXCEPT !.pc = next] /\ UNCHANGED timeHist
  <2>1. timeOp' \in TimeOps /\ timeOp'.pc \in {"zone", "state"} /\ timeOp'.new = timeOp.new
    BY <1>0, <1>1 DEF TimeTypeOK, TimeOps
  <2> QED BY <1>0, <1>1, <2>1 DEF TimeInv, TimeTypeOK, ConfInv, SourceInv, Busy
<1>2. CASE timeOp' = TimeIdle /\ timeHist' = [timeHist EXCEPT !.failed = TRUE]
  <2>1. /\ timeHist' \in [raced : BOOLEAN, failed : BOOLEAN] /\ timeHist'.failed
        /\ timeHist'.raced = timeHist.raced
    BY Zenon, <1>0, <1>2 DEF TimeTypeOK
  <2> QED BY <1>0, <1>2, <2>1, IdleOp DEF TimeInv, TimeTypeOK, ConfInv, SourceInv, Busy
<1> QED BY <1>0, <1>1, <1>2 DEF UpdateCommits, TimeTypeOK, TimeOps

LEMMA ApplyTimeKeeps == ASSUME TimeInv, ApplySntp PROVE TimeInv'
<1>0. TimeTypeOK /\ timeOp.pc = "apply" /\ UNCHANGED <<clock, timeNvs, timeHist>>
  BY DEF TimeInv, ApplySntp
<1>1. sntp' \in SntpStates /\ sntp'.due = sntp.due
  BY Zenon, <1>0 DEF ApplySntp, TimeTypeOK, SntpStates
<1> DEFINE w == timeOp.new.ntp
<1>2. w \in BOOLEAN
  BY <1>0, TimeFields, Zenon
<1>3. timeState' = [timeState EXCEPT !.waiting = w] /\ timeOp' = IF w THEN [timeOp EXCEPT !.pc = "init"] ELSE TimeIdle
  BY DEF ApplySntp
<1> HIDE DEF w
<1>4. /\ timeState' \in TimeStates /\ timeState'.waiting = w /\ timeState'.conf = timeState.conf
      /\ timeState'.loaded = timeState.loaded /\ timeState'.synchronized = timeState.synchronized
      /\ timeState'.source = timeState.source
  BY <1>0, <1>2, <1>3 DEF TimeTypeOK, TimeStates
<1>5. timeOp' \in TimeOps /\ (w => timeOp'.pc = "init") /\ (~w => timeOp'.pc = "idle")
  <2>1. CASE w
    BY <1>0, <1>3, <2>1 DEF TimeTypeOK, TimeOps
  <2>2. CASE ~w
    BY <1>3, <2>2, IdleOp
  <2> QED BY <2>1, <2>2
<1>6. TimeTypeOK'
  BY <1>0, <1>1, <1>4, <1>5 DEF TimeTypeOK
<1>7. ConfInv'
  BY <1>0, <1>4, <1>5 DEF TimeInv, ConfInv, Busy
<1>8. SourceInv'
  BY <1>0, <1>1, <1>4, <1>5 DEF TimeInv, SourceInv
<1> QED BY <1>6, <1>7, <1>8 DEF TimeInv

LEMMA InitSntpKeeps == ASSUME TimeInv, InitSntp PROVE TimeInv'
<1>0. TimeTypeOK /\ timeOp.pc = "init" /\ timeOp' = TimeIdle /\ UNCHANGED <<clock, timeNvs, timeHist>>
  BY DEF TimeInv, InitSntp
<1>1. CASE sntp' = [sntp EXCEPT !.running = TRUE] /\ UNCHANGED timeState
  <2>1. sntp' \in SntpStates /\ sntp'.running /\ sntp'.due = sntp.due
    BY Zenon, <1>0, <1>1 DEF TimeTypeOK, SntpStates
  <2> QED BY <1>0, <1>1, <2>1, IdleOp DEF TimeInv, TimeTypeOK, ConfInv, SourceInv, Busy
<1>2. CASE timeState' = [timeState EXCEPT !.waiting = FALSE] /\ UNCHANGED sntp
  <2>1. /\ timeState' \in TimeStates /\ ~timeState'.waiting /\ timeState'.conf = timeState.conf
        /\ timeState'.loaded = timeState.loaded /\ timeState'.synchronized = timeState.synchronized
        /\ timeState'.source = timeState.source
    BY Zenon, <1>0, <1>2 DEF TimeTypeOK, TimeStates
  <2> QED BY <1>0, <1>2, <2>1, IdleOp DEF TimeInv, TimeTypeOK, ConfInv, SourceInv, Busy
<1> QED BY <1>1, <1>2 DEF InitSntp

LEMMA ManualKeeps == ASSUME TimeInv, ManualSetsClock PROVE TimeInv'
<1>0. TimeTypeOK /\ timeOp.pc = "idle" /\ timeState.loaded /\ UNCHANGED <<timeState, sntp, timeNvs>>
  BY DEF TimeInv, ManualSetsClock
<1>1. clock' = [by |-> "manual", valid |-> TRUE] /\ clock' \in Clocks
  BY DEF ManualSetsClock, Clocks, Sources
<1>2. timeOp' \in TimeOps /\ timeOp'.pc = "sync"
  BY DEF ManualSetsClock, TimeOps, NoConfig, TimeConfigs
<1> DEFINE t == timeHist.raced \/ sntp.due # "none"
<1>3. t \in BOOLEAN
  BY <1>0, TimeFields, Zenon
<1>4. timeHist' = [timeHist EXCEPT !.raced = t] /\ (~t => sntp.due = "none")
  BY DEF ManualSetsClock
<1> HIDE DEF t
<1>5. /\ timeHist' \in [raced : BOOLEAN, failed : BOOLEAN] /\ timeHist'.raced = t
      /\ timeHist'.failed = timeHist.failed
  BY <1>0, <1>3, <1>4 DEF TimeTypeOK
<1>6. TimeTypeOK'
  BY <1>0, <1>1, <1>2, <1>5 DEF TimeTypeOK
<1>7. ConfInv'
  BY <1>0, <1>2, <1>5 DEF TimeInv, ConfInv, Busy
<1>8. SourceInv'
  BY <1>0, <1>1, <1>2, <1>4, <1>5 DEF SourceInv
<1> QED BY <1>6, <1>7, <1>8 DEF TimeInv

LEMMA ManualDoneKeeps == ASSUME TimeInv, ManualSetsSource PROVE TimeInv'
<1>0. TimeTypeOK /\ timeOp.pc = "sync" /\ timeOp' = TimeIdle /\ UNCHANGED <<clock, sntp, timeNvs, timeHist>>
  BY DEF TimeInv, ManualSetsSource
<1>1. /\ timeState' \in TimeStates /\ timeState'.waiting = timeState.waiting
      /\ timeState'.conf = timeState.conf /\ timeState'.loaded = timeState.loaded
      /\ ~timeState'.synchronized /\ timeState'.source = "manual"
  BY Zenon, <1>0 DEF ManualSetsSource, TimeTypeOK, TimeStates, Sources
<1>2. TimeTypeOK'
  BY <1>0, <1>1, IdleOp DEF TimeTypeOK
<1>3. ConfInv'
  BY <1>0, <1>1, IdleOp DEF TimeInv, ConfInv, Busy
<1>4. SourceInv'
  BY <1>0, <1>1, IdleOp DEF TimeInv, SourceInv
<1> QED BY <1>2, <1>3, <1>4 DEF TimeInv

LEMMA RequestSyncKeeps == ASSUME TimeInv, RequestSync PROVE TimeInv'
<1>0. TimeTypeOK /\ sntp.running /\ UNCHANGED <<clock, sntp, timeNvs, timeOp, timeHist>>
  BY DEF TimeInv, RequestSync
<1>1. /\ timeState' \in TimeStates /\ timeState'.conf = timeState.conf
      /\ timeState'.loaded = timeState.loaded /\ timeState'.synchronized = timeState.synchronized
      /\ timeState'.source = timeState.source
  BY Zenon, <1>0 DEF RequestSync, TimeTypeOK, TimeStates
<1> QED BY <1>0, <1>1 DEF TimeInv, TimeTypeOK, ConfInv, SourceInv, Busy

LEMMA CallbackKeeps == ASSUME TimeInv, SyncCallback PROVE TimeInv'
<1> DEFINE ok == sntp.due = "valid"
           src == IF ok THEN "ntp" ELSE timeState.source
<1>0. TimeTypeOK /\ sntp.due # "none" /\ UNCHANGED <<clock, timeNvs, timeOp, timeHist>>
  BY DEF TimeInv, SyncCallback
<1>1. ok \in BOOLEAN
  OBVIOUS
<1>2. src \in Sources
  BY <1>0, TimeFields DEF Sources
<1>3. timeState' = [timeState EXCEPT !.waiting = FALSE, !.synchronized = ok, !.source = src]
  BY DEF SyncCallback
<1>4. sntp' \in SntpStates /\ sntp'.due = "none" /\ sntp'.running = sntp.running
  BY <1>0 DEF SyncCallback, TimeTypeOK, SntpStates
<1>5. (ok => sntp.due = "valid" /\ src = "ntp") /\ (~ok => sntp.due # "valid")
  OBVIOUS
<1> HIDE DEF ok, src
<1>6. /\ timeState' \in TimeStates /\ ~timeState'.waiting /\ timeState'.conf = timeState.conf
      /\ timeState'.loaded = timeState.loaded /\ timeState'.synchronized = ok /\ timeState'.source = src
  BY Zenon, <1>0, <1>1, <1>2, <1>3 DEF TimeTypeOK, TimeStates
<1>7. TimeTypeOK'
  BY <1>0, <1>4, <1>6 DEF TimeTypeOK
<1>8. ConfInv'
  BY <1>0, <1>4, <1>6 DEF TimeInv, ConfInv, Busy
<1>9. SourceInv'
  <2> SUFFICES ASSUME ~timeHist.raced PROVE SourceInv'
    BY <1>0 DEF SourceInv
  <2>1. clock = [by |-> "ntp", valid |-> sntp.due = "valid"] /\ timeOp.pc # "sync"
    BY <1>0 DEF TimeInv, SourceInv
  <2>2. clock.by = "ntp" /\ (clock.valid <=> ok)
    BY <1>5, <2>1, Zenon
  <2> QED BY <1>0, <1>4, <1>5, <1>6, <2>1, <2>2 DEF SourceInv
<1> QED BY <1>7, <1>8, <1>9 DEF TimeInv

LEMMA TimeStep == TimeInv /\ [TimeNext]_timeVars => TimeInv'
<1> SUFFICES ASSUME TimeInv, [TimeNext]_timeVars PROVE TimeInv'
  OBVIOUS
<1>1. CASE UNCHANGED timeVars
  BY <1>1 DEF timeVars, TimeInv, TimeTypeOK, ConfInv, SourceInv
<1>2. CASE TimeStart
  BY <1>2, StartTimeKeeps
<1>3. ASSUME NEW conf \in [ntp : BOOLEAN, server : TimeServers], UpdateStores(conf) PROVE TimeInv'
  BY <1>3 DEF UpdateStores, TimeConfigs, TimeInv, TimeTypeOK, ConfInv, SourceInv, Busy, TimeOps
<1>4. CASE UpdateCommits
  BY <1>4, CommitTimeKeeps
<1>5. CASE UpdateTakesEffect
  BY Zenon, <1>5
     DEF UpdateTakesEffect, TimeInv, TimeTypeOK, ConfInv, SourceInv, Busy, TimeStates, TimeOps
<1>6. CASE ApplySntp
  BY <1>6, ApplyTimeKeeps
<1>7. CASE InitSntp
  BY <1>7, InitSntpKeeps
<1>8. CASE ManualSetsClock
  BY <1>8, ManualKeeps
<1>9. CASE ManualSetsSource
  BY <1>9, ManualDoneKeeps
<1>10. CASE RequestSync
  BY <1>10, RequestSyncKeeps
<1>11. ASSUME NEW v \in BOOLEAN, SntpSetsClock(v) PROVE TimeInv'
  BY <1>11
     DEF SntpSetsClock, TimeInv, TimeTypeOK, ConfInv, SourceInv, Busy, Clocks, SntpStates, Sources
<1>12. ASSUME NEW v \in BOOLEAN, TimeRestart(v) PROVE TimeInv'
  BY <1>12, IdleOp
     DEF TimeRestart, Unloaded, NoConfig, TimeInv, TimeTypeOK, ConfInv, SourceInv, Busy, Clocks,
              TimeStates, SntpStates, Sources, TimeConfigs
<1>13. CASE SyncCallback
  BY <1>13, CallbackKeeps
<1> QED BY <1>1, <1>2, <1>3, <1>4, <1>5, <1>6, <1>7, <1>8, <1>9, <1>10, <1>11, <1>12, <1>13
           DEF TimeNext

THEOREM TimeIsSafe == TimeSpec => []TimeSafe
<1>1. TimeInv => TimeSafe
  BY DEF TimeInv, ConfInv, SourceInv, Busy, TimeSafe, TimeTypeOK, StatusRead, SourceTellsClock,
         SynchronizedIsNtp, PendingHasClient, ConfigInUseIsStored
<1> QED BY <1>1, TimeInitially, TimeStep, PTL DEF TimeSpec

-----------------------------------------------------------------------------
(* The entries the ring holds, oldest first.                                 *)
Kept == Window(ring.count)

(* The ring is filled from its first slot; the newest entry is the last one  *)
(* stored, and each older one was stored just before the next.               *)
RingInv ==
    /\ ring.count < LogCapacity => ring.next = ring.count
    /\ stored > 0 => ring.count > 0
    /\ \A i \in 1 .. ring.count : Kept[i] \in LogEntries /\ Kept[i].stamp = stored - ring.count + i

(* No entry is from the future, nor is one of a task newer than the uptime   *)
(* that task has read for its next.                                          *)
OrderInv ==
    /\ \A i \in 1 .. ring.count : Kept[i].at <= uptime
    /\ \A w \in Writers : writer[w].pc # "away" =>
         /\ writer[w].at <= uptime
         /\ \A i \in 1 .. ring.count :
              Kept[i].by = w /\ w # "reader" => Kept[i].at <= writer[w].at
    /\ \A i, j \in 1 .. ring.count :
         i < j /\ Kept[i].by = Kept[j].by /\ Kept[i].by # "reader" => Kept[i].at <= Kept[j].at

CopyInv == logReader.upto <= stored /\ SnapshotIsCurrent

LogInv == LogTypeOK /\ RingInv /\ OrderInv /\ CopyInv

-----------------------------------------------------------------------------
(* An index that passes the end of the ring at most once.                    *)
LEMMA Wraps ==
    ASSUME NEW a \in 0 .. 2 * LogCapacity - 1
    PROVE  a % LogCapacity = IF a < LogCapacity THEN a ELSE a - LogCapacity
BY LogAssumption

(* Where the i-th of the newest n entries is.                                *)
LEMMA WindowSlot ==
    ASSUME LogTypeOK, NEW n \in 0 .. LogCapacity, NEW i \in 1 .. n
    PROVE  Window(n)[i] = ring.slot[IF ring.next + i <= n THEN ring.next + LogCapacity - n + i
                                    ELSE ring.next - n + i]
<1> DEFINE a == ring.next + LogCapacity - n + i - 1
<1>1. /\ ring.next \in 0 .. LogCapacity - 1 /\ LogCapacity \in Nat /\ n \in Int /\ i \in Int
      /\ 1 <= i /\ i <= n /\ n <= LogCapacity
  BY LogAssumption DEF LogTypeOK, RingStates
<1>2. a \in 0 .. 2 * LogCapacity - 1
  BY <1>1
<1>3. Window(n)[i] = ring.slot[(a % LogCapacity) + 1]
  BY DEF Window
<1>4. (a % LogCapacity) + 1 = IF ring.next + i <= n THEN ring.next + LogCapacity - n + i
                              ELSE ring.next - n + i
  <2>1. a % LogCapacity = IF a < LogCapacity THEN a ELSE a - LogCapacity
    BY <1>2, Wraps
  <2>2. a < LogCapacity <=> ring.next + i <= n
    BY <1>1
  <2> QED BY <1>1, <2>1, <2>2
<1> QED BY <1>3, <1>4

(* management_log_store_locked with a message: the entry is the newest, and  *)
(* only a full ring loses its oldest.                                        *)
Shifts(e, d) ==
    /\ ring'.count = ring.count + 1 - d /\ ring'.count >= 1
    /\ d = 1 <=> ring.count = LogCapacity
    /\ \A i \in 1 .. ring'.count - 1 : i + d \in 1 .. ring.count /\ Kept'[i] = Kept[i + d]
    /\ Kept'[ring'.count] = e

LEMMA StoreShifts ==
    ASSUME LogTypeOK, ring.count < LogCapacity => ring.next = ring.count,
           NEW by \in Writers \cup {"reader"}, NEW at \in 0 .. MaxUptime, Store(by, at, FALSE),
           NEW e, e = [by |-> by, at |-> at, stamp |-> stored + 1]
    PROVE  /\ e \in LogEntries /\ stored' = stored + 1 /\ stored' \in 0 .. MaxStored
           /\ ring' \in RingStates /\ (ring'.count < LogCapacity => ring'.next = ring'.count)
           /\ \E d \in {0, 1} : Shifts(e, d)
<1>0. /\ ring \in RingStates /\ stored \in 0 .. MaxStored /\ MaxStored \in Nat
      /\ LogCapacity \in Nat /\ LogCapacity >= 1 /\ MaxUptime \in Nat
  BY LogAssumption DEF LogTypeOK
<1>1. stored < MaxStored /\ stored' = stored + 1
  BY DEF Store
<1>2. e \in LogEntries
  BY <1>0, <1>1 DEF LogEntries
<1>3. ring.next \in 0 .. LogCapacity - 1 /\ ring.count \in 0 .. LogCapacity
  BY <1>0 DEF RingStates
<1>s. ring.slot \in [1 .. LogCapacity -> LogEntries \cup {NoEntry}]
  BY <1>0 DEF RingStates
<1> DEFINE nx == IF ring.next + 1 < LogCapacity THEN ring.next + 1 ELSE 0
           ct == IF ring.count < LogCapacity THEN ring.count + 1 ELSE ring.count
           sl == [ring.slot EXCEPT ![ring.next + 1] = e]
<1>4. (ring.next + 1) % LogCapacity = nx
  <2> DEFINE a == ring.next + 1
  <2>0. LogCapacity \in Nat /\ LogCapacity >= 1
    BY <1>0
  <2>1. a \in 0 .. 2 * LogCapacity - 1
    BY <1>3, <2>0
  <2>2. a % LogCapacity = IF a < LogCapacity THEN a ELSE a - LogCapacity
    <3> HIDE DEF a
    <3> QED BY <2>1, Wraps
  <2>3. a < LogCapacity \/ a = LogCapacity
    BY <1>0, <1>3
  <2>4. (IF a < LogCapacity THEN a ELSE a - LogCapacity) = nx
    BY <1>0, <1>3, <2>3
  <2> QED BY <2>2, <2>4
<1>5. ring' = [slot |-> sl, next |-> nx, count |-> ct]
  BY <1>4 DEF Store
<1>6. nx \in 0 .. LogCapacity - 1 /\ ct \in 1 .. LogCapacity
  <2>1. nx \in 0 .. LogCapacity - 1
    BY <1>0, <1>3
  <2>2. ct \in 1 .. LogCapacity
    BY <1>0, <1>3
  <2> QED BY <2>1, <2>2
<1>7. /\ sl \in [1 .. LogCapacity -> LogEntries \cup {NoEntry}] /\ sl[ring.next + 1] = e
      /\ \A k \in 1 .. LogCapacity : k # ring.next + 1 => sl[k] = ring.slot[k]
  <2>0. LogCapacity \in Nat /\ LogCapacity >= 1
    BY <1>0
  <2>1. ring.next + 1 \in 1 .. LogCapacity
    BY <1>3, <2>0
  <2>2. sl \in [1 .. LogCapacity -> LogEntries \cup {NoEntry}]
    BY <1>2, <1>s
  <2>3. sl[ring.next + 1] = e
    BY <1>s, <2>1
  <2>4. ASSUME NEW k \in 1 .. LogCapacity, k # ring.next + 1 PROVE sl[k] = ring.slot[k]
    BY <1>s, <2>4
  <2> QED BY <2>2, <2>3, <2>4
<1>n. /\ ring.next + 1 < LogCapacity => nx = ring.next + 1
      /\ ring.next + 1 >= LogCapacity => nx = 0
      /\ ring.count < LogCapacity => ct = ring.count + 1
      /\ ring.count = LogCapacity => ct = ring.count
  BY <1>0, <1>3
<1> HIDE DEF nx, ct, sl
<1>8. ring' \in RingStates /\ ring'.slot = sl /\ ring'.next = nx /\ ring'.count = ct
  BY <1>5, <1>6, <1>7 DEF RingStates
<1>9. LogTypeOK => \A i \in 1 .. ring.count :
        Kept[i] = ring.slot[IF ring.next + i <= ring.count THEN ring.next + LogCapacity - ring.count + i
                            ELSE ring.next - ring.count + i]
  BY Zenon, <1>3, WindowSlot DEF Kept
<1>10. \A i \in 1 .. ct :
        Kept'[i] = sl[IF nx + i <= ct THEN nx + LogCapacity - ct + i ELSE nx - ct + i]
  <2> SUFFICES ASSUME NEW i \in 1 .. ct
               PROVE  Kept'[i] = sl[IF nx + i <= ct THEN nx + LogCapacity - ct + i ELSE nx - ct + i]
    OBVIOUS
  <2> DEFINE a == nx + LogCapacity - ct + i - 1
  <2>1. a \in 0 .. 2 * LogCapacity - 1 /\ i \in Int
    BY <1>0, <1>6
  <2>2. Kept'[i] = sl[(a % LogCapacity) + 1]
    BY <1>8 DEF Kept, Window
  <2>3. a % LogCapacity = IF a < LogCapacity THEN a ELSE a - LogCapacity
    BY <2>1, Wraps
  <2>4. a < LogCapacity <=> nx + i <= ct
    BY <1>0, <1>6, <2>1
  <2>5. (a % LogCapacity) + 1 = IF nx + i <= ct THEN nx + LogCapacity - ct + i ELSE nx - ct + i
    BY <1>0, <1>6, <2>1, <2>3, <2>4
  <2> QED BY <2>2, <2>5
<1>11. ct < LogCapacity => nx = ct
  BY <1>0, <1>3, <1>6, <1>n
<1>12. \E d \in {0, 1} : Shifts(e, d)
  <2>1. CASE ring.count < LogCapacity
    <3>0. ring.next = ring.count /\ ct = ring.count + 1
      BY <1>n, <2>1
    <3>1. \A i \in 1 .. ct : Kept'[i] = sl[i]
      <4> SUFFICES ASSUME NEW i \in 1 .. ct PROVE Kept'[i] = sl[i]
        OBVIOUS
      <4>1. (IF nx + i <= ct THEN nx + LogCapacity - ct + i ELSE nx - ct + i) = i
        BY <1>0, <1>3, <1>6, <1>n, <2>1, <3>0
      <4> QED BY <1>10, <4>1
    <3>2. \A i \in 1 .. ring.count : Kept[i] = ring.slot[i]
      <4> SUFFICES ASSUME NEW i \in 1 .. ring.count PROVE Kept[i] = ring.slot[i]
        OBVIOUS
      <4>1. (IF ring.next + i <= ring.count THEN ring.next + LogCapacity - ring.count + i
             ELSE ring.next - ring.count + i) = i
        BY <1>0, <1>3, <3>0
      <4> QED BY <1>9, <4>1
    <3>3. ASSUME NEW i \in 1 .. ct - 1 PROVE i + 0 \in 1 .. ring.count /\ Kept'[i] = Kept[i + 0]
      <4>1. i \in 1 .. ring.count /\ i \in 1 .. ct /\ i \in 1 .. LogCapacity /\ i # ring.next + 1 /\ i + 0 = i
        BY <1>0, <1>3, <1>6, <3>0
      <4> QED BY <1>7, <3>1, <3>2, <4>1
    <3>4. Kept'[ct] = e
      BY <1>3, <1>6, <1>7, <3>0, <3>1
    <3>5. Shifts(e, 0)
      BY <1>3, <1>6, <1>8, <2>1, <3>0, <3>3, <3>4 DEF Shifts
    <3> QED BY <3>5
  <2>2. CASE ring.count = LogCapacity
    <3>0. ct = LogCapacity
      BY <1>n, <2>2
    <3>1. ASSUME NEW i \in 1 .. LogCapacity - 1
          PROVE  i + 1 \in 1 .. ring.count /\ Kept'[i] = Kept[i + 1]
      <4> DEFINE k == IF nx + i <= ct THEN nx + LogCapacity - ct + i ELSE nx - ct + i
      <4>1. k = IF ring.next + (i + 1) <= ring.count THEN ring.next + LogCapacity - ring.count + (i + 1)
                ELSE ring.next - ring.count + (i + 1)
        <5>1. CASE ring.next + 1 < LogCapacity
          <6>1. nx = ring.next + 1 /\ ct = LogCapacity /\ ring.count = LogCapacity
            BY <5>1, <1>n, <2>2, <3>0
          <6>2. nx + i <= ct <=> ring.next + (i + 1) <= ring.count
            BY <6>1, <1>0, <1>3
          <6>3. nx + LogCapacity - ct + i = ring.next + LogCapacity - ring.count + (i + 1)
            BY <6>1, <1>0, <1>3
          <6>4. nx - ct + i = ring.next - ring.count + (i + 1)
            <7>1. ring.next \in Int /\ LogCapacity \in Int /\ i \in Int
              BY <1>0, <1>3
            <7>2. (ring.next + 1) - LogCapacity + i = ring.next - LogCapacity + (i + 1)
              BY <7>1
            <7> QED BY <6>1, <7>2
          <6> QED BY <6>2, <6>3, <6>4
        <5>2. CASE ring.next + 1 >= LogCapacity
          BY <5>2, <1>0, <1>3, <1>n, <2>2, <3>0
        <5> QED BY <1>0, <1>3, <5>1, <5>2
      <4>2. k \in 1 .. LogCapacity /\ k # ring.next + 1
        BY <1>0, <1>3, <1>6, <1>n, <2>2, <3>0
      <4>3. i + 1 \in 1 .. ring.count /\ i \in 1 .. ct
        BY <1>0, <2>2, <3>0
      <4>4. Kept'[i] = sl[k] /\ Kept[i + 1] = ring.slot[k]
        BY <1>9, <1>10, <4>1, <4>3
      <4> QED BY <1>7, <4>2, <4>3, <4>4
    <3>2. Kept'[ct] = e
      <4>1. ct \in 1 .. ct
        BY <1>0, <3>0
      <4>2. (IF nx + ct <= ct THEN nx + LogCapacity - ct + ct ELSE nx - ct + ct) = ring.next + 1
        BY <1>0, <1>3, <1>6, <1>n, <2>2, <3>0
      <4> QED BY <1>7, <1>10, <4>1, <4>2
    <3>3. Shifts(e, 1)
      BY <1>0, <1>6, <1>8, <2>2, <3>0, <3>1, <3>2 DEF Shifts
    <3> QED BY <3>3
  <2> QED BY <1>0, <1>3, <2>1, <2>2
<1> QED BY <1>0, <1>1, <1>2, <1>8, <1>11, <1>12

(* Who may store with the ring as it is, and what the tasks wait with then.  *)
CallsKept(by) ==
    \A w \in Writers : writer'[w].pc # "away" =>
       \/ writer'[w].at = uptime'
       \/ writer'[w] = writer[w] /\ (w # by \/ w = "reader")

LEMMA RingKept ==
    ASSUME LogInv, NEW by, UNCHANGED <<ring, stored>>, uptime \in Int, uptime' \in Int, uptime <= uptime',
           \A w \in Writers : writer'[w].pc # "away" =>
              writer'[w].at = uptime' \/ writer'[w] = writer[w]
    PROVE  RingInv' /\ OrderInv'
<1>1. Kept' = Kept /\ ring' = ring
  BY DEF Kept, Window
<1>2. RingInv'
  BY <1>1 DEF LogInv, RingInv
<1>0. \A i \in 1 .. ring.count : Kept[i].at \in Int /\ Kept[i].at <= uptime'
  BY LogAssumption DEF LogInv, RingInv, OrderInv, LogEntries
<1>t. \A w \in Writers : writer[w].at \in Int
  BY LogAssumption DEF LogInv, LogTypeOK, LogCalls
<1>3. ASSUME NEW w \in Writers, writer'[w].pc # "away"
      PROVE  /\ writer'[w].at <= uptime'
             /\ \A i \in 1 .. ring.count : Kept[i].by = w /\ w # "reader" => Kept[i].at <= writer'[w].at
  <2>1. CASE writer'[w].at = uptime'
    BY <1>0, <2>1
  <2>2. CASE writer'[w] = writer[w]
    <3>1. /\ writer[w].at <= uptime
          /\ \A i \in 1 .. ring.count : Kept[i].by = w /\ w # "reader" => Kept[i].at <= writer[w].at
      BY <1>3, <2>2 DEF LogInv, OrderInv
    <3> QED BY <1>t, <2>2, <3>1
  <2> QED BY <1>3, <2>1, <2>2
<1>4. OrderInv'
  BY <1>0, <1>1, <1>3 DEF LogInv, OrderInv
<1> QED BY <1>2, <1>4

LEMMA StoreKeeps ==
    ASSUME LogInv, NEW by \in Writers \cup {"reader"}, NEW at \in 0 .. MaxUptime,
           Store(by, at, FALSE), UNCHANGED uptime, at <= uptime, CallsKept(by),
           by # "reader" => by \in Writers /\ writer[by].pc # "away" /\ at = writer[by].at
    PROVE  ring' \in RingStates /\ stored' \in 0 .. MaxStored /\ stored <= stored' /\ RingInv' /\ OrderInv'
<1> DEFINE e == [by |-> by, at |-> at, stamp |-> stored + 1]
<1>0. LogTypeOK /\ (ring.count < LogCapacity => ring.next = ring.count)
  BY DEF LogInv, RingInv
<1>1. /\ e \in LogEntries /\ stored' = stored + 1 /\ stored' \in 0 .. MaxStored
      /\ ring' \in RingStates /\ (ring'.count < LogCapacity => ring'.next = ring'.count)
      /\ \E d \in {0, 1} : Shifts(e, d)
  BY Zenon, <1>0, StoreShifts
<1>2. PICK d \in {0, 1} : Shifts(e, d)
  BY <1>1
<1>3. e.by = by /\ e.at = at /\ e.stamp = stored + 1
  OBVIOUS
<1> HIDE DEF e
<1>4. /\ ring.count \in Nat /\ ring'.count \in Nat /\ stored \in Nat /\ uptime \in Int /\ at \in Int
      /\ LogCapacity \in Nat /\ d \in Int
  BY <1>0, <1>1, LogAssumption DEF LogTypeOK, RingStates
<1>5. /\ ring'.count = ring.count + 1 - d /\ ring'.count >= 1 /\ Kept'[ring'.count] = e
      /\ \A i \in 1 .. ring'.count - 1 : i + d \in 1 .. ring.count /\ Kept'[i] = Kept[i + d]
  BY <1>2 DEF Shifts
<1>6. \A i \in 1 .. ring'.count : i = ring'.count \/ i \in 1 .. ring'.count - 1
  BY <1>4
<1>7. ASSUME NEW i \in 1 .. ring'.count
      PROVE  Kept'[i] \in LogEntries /\ Kept'[i].stamp = stored' - ring'.count + i
  <2>1. CASE i = ring'.count
    BY <1>1, <1>3, <1>4, <1>5, <2>1
  <2>2. CASE i \in 1 .. ring'.count - 1
    <3>1. i + d \in 1 .. ring.count /\ Kept'[i] = Kept[i + d]
      BY <1>5, <2>2
    <3>2. Kept[i + d] \in LogEntries /\ Kept[i + d].stamp = stored - ring.count + (i + d)
      BY <3>1 DEF LogInv, RingInv
    <3>3. stored - ring.count + (i + d) = stored' - ring'.count + i
      BY <1>1, <1>4, <1>5
    <3> QED BY <3>1, <3>2, <3>3
  <2> QED BY <1>6, <2>1, <2>2
<1>8. RingInv'
  BY <1>1, <1>4, <1>5, <1>7 DEF RingInv
<1>9. ASSUME NEW i \in 1 .. ring'.count
      PROVE  Kept'[i].at \in Int /\ Kept'[i].at <= uptime
  <2>1. Kept'[i].at \in Int
    BY <1>7, LogAssumption DEF LogEntries
  <2>2. CASE i = ring'.count
    BY <1>3, <1>5, <2>1, <2>2
  <2>3. CASE i \in 1 .. ring'.count - 1
    BY <1>5, <2>1, <2>3 DEF LogInv, OrderInv
  <2> QED BY <1>6, <2>2, <2>3
<1>10. ASSUME NEW w \in Writers, writer'[w].pc # "away"
       PROVE  /\ writer'[w].at <= uptime
              /\ \A i \in 1 .. ring'.count : Kept'[i].by = w /\ w # "reader" => Kept'[i].at <= writer'[w].at
  <2>1. CASE writer'[w].at = uptime
    BY <1>4, <1>9, <2>1
  <2>2. CASE writer'[w] = writer[w] /\ (w # by \/ w = "reader")
    <3>1. /\ writer[w].at <= uptime
          /\ \A i \in 1 .. ring.count : Kept[i].by = w /\ w # "reader" => Kept[i].at <= writer[w].at
      BY <1>10, <2>2 DEF LogInv, OrderInv
    <3>2. ASSUME NEW i \in 1 .. ring'.count, Kept'[i].by = w, w # "reader"
          PROVE  Kept'[i].at <= writer'[w].at
      <4>1. i # ring'.count
        BY <1>3, <1>5, <2>2, <3>2
      <4> QED BY <1>5, <1>6, <2>2, <3>1, <3>2, <4>1
    <3> QED BY <2>2, <3>1, <3>2
  <2> QED BY <1>10, <2>1, <2>2 DEF CallsKept
<1>11. ASSUME NEW i \in 1 .. ring'.count, NEW j \in 1 .. ring'.count, i < j,
              Kept'[i].by = Kept'[j].by, Kept'[i].by # "reader"
       PROVE  Kept'[i].at <= Kept'[j].at
  <2>0. i \in 1 .. ring'.count - 1
    BY <1>4, <1>11
  <2>1. i + d \in 1 .. ring.count /\ Kept'[i] = Kept[i + d]
    BY <1>5, <2>0
  <2>2. CASE j = ring'.count
    <3>1. Kept[i + d].by = by /\ by # "reader" /\ Kept'[j].at = at
      BY <1>3, <1>5, <1>11, <2>1, <2>2
    <3> QED BY <2>1, <2>2, <3>1 DEF LogInv, OrderInv
  <2>3. CASE j \in 1 .. ring'.count - 1
    <3>1. j + d \in 1 .. ring.count /\ Kept'[j] = Kept[j + d] /\ i + d < j + d
      BY <1>4, <1>5, <1>11, <2>3
    <3> QED BY <1>11, <2>1, <3>1 DEF LogInv, OrderInv
  <2> QED BY <1>6, <2>2, <2>3
<1>12. OrderInv'
  BY <1>9, <1>10, <1>11 DEF OrderInv
<1> QED BY <1>1, <1>4, <1>8, <1>12

(* A task's call ends, or waits again with the present uptime; what it left  *)
(* is stored or was empty.                                                   *)
LEMMA CallKeeps ==
    ASSUME LogInv, NEW w \in Writers, writer[w].pc # "away", NEW c \in LogCalls,
           Store(w, writer[w].at, FALSE) \/ UNCHANGED <<ring, stored>>,
           writer' = [writer EXCEPT ![w] = c], c.pc # "away" => c.at = uptime,
           pending' \in BOOLEAN, UNCHANGED <<logReader, uptime>>
    PROVE  LogInv'
<1>0. LogTypeOK /\ uptime \in Int /\ stored \in Int
  BY LogAssumption DEF LogInv, LogTypeOK
<1>1. /\ writer' \in [Writers -> LogCalls] /\ writer'[w] = c
      /\ \A v \in Writers : v # w => writer'[v] = writer[v]
  BY <1>0 DEF LogTypeOK
<1>2. /\ ring' \in RingStates /\ stored' \in 0 .. MaxStored /\ stored <= stored'
      /\ RingInv' /\ OrderInv'
  <2>1. CASE Store(w, writer[w].at, FALSE)
    <3>1. writer[w].at \in 0 .. MaxUptime /\ writer[w].at <= uptime
      BY <1>0 DEF LogInv, LogTypeOK, LogCalls, OrderInv
    <3>2. CallsKept(w)
      BY <1>1 DEF CallsKept
    <3> QED BY Zenon, <2>1, <3>1, <3>2, StoreKeeps
  <2>2. CASE UNCHANGED <<ring, stored>>
    <3>1. RingInv' /\ OrderInv'
      BY <1>0, <1>1, <2>2, RingKept
    <3> QED BY <1>0, <2>2, <3>1 DEF LogTypeOK
  <2> QED BY Zenon, <2>1, <2>2
<1>3. LogTypeOK'
  BY <1>0, <1>1, <1>2 DEF LogTypeOK
<1>4. CopyInv'
  <2>1. stored' \in Int /\ logReader.upto \in Int
    BY <1>0, <1>2, LogAssumption DEF LogTypeOK, ReaderStates
  <2> QED BY <1>0, <1>2, <2>1 DEF LogInv, CopyInv, SnapshotIsCurrent
<1> QED BY <1>2, <1>3, <1>4 DEF LogInv

LEMMA CapturesKeep ==
    ASSUME LogInv, NEW w \in Writers, CaptureChunk(w) \/ CaptureNewline(w) \/ CaptureSyslog(w)
    PROVE  LogInv'
<1>0. LogTypeOK /\ writer[w].pc # "away" /\ UNCHANGED <<logReader, uptime>>
  BY Zenon DEF LogInv, CaptureChunk, CaptureNewline, CaptureSyslog
<1>1. Away \in LogCalls /\ Away.pc = "away"
  BY LogAssumption DEF Away, LogCalls, ChunkKinds
<1>2. pending' \in BOOLEAN
  BY Zenon, <1>0 DEF LogTypeOK, CaptureChunk, CaptureNewline, CaptureSyslog
<1>3. Store(w, writer[w].at, FALSE) \/ UNCHANGED <<ring, stored>>
  BY Zenon DEF CaptureChunk, CaptureNewline, CaptureSyslog, Store
<1>4. \E c \in LogCalls : writer' = [writer EXCEPT ![w] = c] /\ (c.pc # "away" => c.at = uptime)
  <2>1. CASE CaptureChunk(w) /\ writer[w].kind = "long"
    <3> DEFINE c == [pc |-> "newline", kind |-> "line", at |-> uptime]
    <3>1. c \in LogCalls /\ c.at = uptime
      BY <1>0 DEF LogTypeOK, LogCalls, ChunkKinds
    <3>2. writer' = [writer EXCEPT ![w] = c]
      BY <2>1 DEF CaptureChunk
    <3> QED BY Zenon, <3>1, <3>2
  <2>2. CASE ~(CaptureChunk(w) /\ writer[w].kind = "long")
    <3>1. writer' = [writer EXCEPT ![w] = Away]
      BY Zenon, <2>2 DEF CaptureChunk, CaptureNewline, CaptureSyslog
    <3> QED BY Zenon, <1>1, <3>1
  <2> QED BY <2>1, <2>2
<1> QED BY Zenon, <1>0, <1>2, <1>3, <1>4, CallKeeps

LEMMA BeginKeeps == ASSUME LogInv, NEW w \in Writers, NEW kind \in ChunkKinds, BeginLog(w, kind) PROVE LogInv'
<1>0. LogTypeOK /\ uptime \in Int
  BY LogAssumption DEF LogInv, LogTypeOK
<1> DEFINE c == [pc |-> "capture", kind |-> kind, at |-> uptime]
<1>1. c \in LogCalls /\ c.at = uptime
  BY <1>0 DEF LogTypeOK, LogCalls
<1>2. writer' = [writer EXCEPT ![w] = c] /\ UNCHANGED <<ring, pending, logReader, uptime, stored>>
  BY DEF BeginLog
<1> HIDE DEF c
<1>3. /\ writer' \in [Writers -> LogCalls] /\ writer'[w] = c
      /\ \A v \in Writers : v # w => writer'[v] = writer[v]
  BY <1>0, <1>1, <1>2 DEF LogTypeOK
<1>4. RingInv' /\ OrderInv'
  BY <1>0, <1>1, <1>2, <1>3, RingKept
<1>5. LogTypeOK'
  BY <1>0, <1>2, <1>3 DEF LogTypeOK
<1>6. CopyInv'
  BY <1>2 DEF LogInv, CopyInv, SnapshotIsCurrent
<1> QED BY <1>4, <1>5, <1>6 DEF LogInv

LEMMA FlushKeeps == ASSUME LogInv, FlushPending PROVE LogInv'
<1>0. /\ LogTypeOK /\ uptime \in 0 .. MaxUptime /\ uptime \in Int /\ stored \in Int
      /\ UNCHANGED <<writer, uptime>> /\ pending' = FALSE
  BY LogAssumption DEF LogInv, LogTypeOK, FlushPending
<1>1. Store("reader", uptime, FALSE) \/ UNCHANGED <<ring, stored>>
  BY DEF FlushPending, Store
<1>2. /\ ring' \in RingStates /\ stored' \in 0 .. MaxStored /\ RingInv' /\ OrderInv'
  <2>1. CASE Store("reader", uptime, FALSE)
    <3> DEFINE by == "reader"
    <3>1. CallsKept(by) /\ Store(by, uptime, FALSE) /\ by \in Writers \cup {"reader"} /\ by = "reader"
      BY Zenon, <1>0, <2>1 DEF CallsKept
    <3>2. uptime <= uptime
      BY <1>0
    <3> HIDE DEF by
    <3> QED BY Zenon, <1>0, <3>1, <3>2, StoreKeeps
  <2>2. CASE UNCHANGED <<ring, stored>>
    <3>1. RingInv' /\ OrderInv'
      BY <1>0, <2>2, RingKept
    <3> QED BY <1>0, <2>2, <3>1 DEF LogTypeOK
  <2> QED BY Zenon, <1>1, <2>1, <2>2
<1>3. logReader' = [pc |-> "copy", upto |-> stored', copy |-> << >>]
  BY DEF FlushPending
<1>4. logReader' \in ReaderStates /\ logReader'.pc = "copy" /\ logReader'.upto = stored'
  BY <1>2, <1>3 DEF ReaderStates
<1>5. LogTypeOK'
  BY Zenon, <1>0, <1>2, <1>4 DEF LogTypeOK
<1>6. CopyInv'
  BY <1>2, <1>4, LogAssumption DEF CopyInv, SnapshotIsCurrent
<1> QED BY <1>2, <1>5, <1>6 DEF LogInv

(* A window of the ring is a sequence of entries, the last of what is kept.  *)
LEMMA WindowIsTail ==
    ASSUME LogInv, NEW n \in 0 .. ring.count
    PROVE  /\ Window(n) \in Seq(LogEntries) /\ Len(Window(n)) = n
           /\ \A i \in 1 .. n : Window(n)[i] = Kept[i + (ring.count - n)] /\ i + (ring.count - n) \in 1 .. ring.count
<1>0. /\ ring.count \in 0 .. LogCapacity /\ LogCapacity \in Nat /\ n \in Nat /\ n <= ring.count
      /\ ring.next \in Int
  BY LogAssumption DEF LogInv, LogTypeOK, RingStates
<1>1. ASSUME NEW i \in 1 .. n
      PROVE  Window(n)[i] = Kept[i + (ring.count - n)] /\ i + (ring.count - n) \in 1 .. ring.count
  <2> DEFINE k == i + (ring.count - n)
  <2>1. k \in 1 .. ring.count
    BY <1>0
  <2>2. ring.next + LogCapacity - n + i - 1 = ring.next + LogCapacity - ring.count + k - 1
    BY <1>0
  <2>3. Window(n)[i] = ring.slot[((ring.next + LogCapacity - n + i - 1) % LogCapacity) + 1]
    BY DEF Window
  <2>4. Kept[k] = ring.slot[((ring.next + LogCapacity - ring.count + k - 1) % LogCapacity) + 1]
    BY <2>1 DEF Kept, Window
  <2> QED BY <2>1, <2>2, <2>3, <2>4
<1>2. \A i \in 1 .. n : Window(n)[i] \in LogEntries
  BY <1>1 DEF LogInv, RingInv
<1>3. Window(n) \in [1 .. n -> LogEntries]
  BY <1>2 DEF Window
<1>4. Window(n) \in Seq(LogEntries)
  BY <1>0, <1>3, SeqDef
<1>5. Len(Window(n)) = n
  BY <1>0, <1>3, <1>4, LenProperties
<1> QED BY <1>1, <1>4, <1>5

LEMMA CopyKeeps == ASSUME LogInv, NEW limit \in 1 .. LogCapacity, CopySnapshot(limit) PROVE LogInv'
<1>0. /\ LogTypeOK /\ ring.count \in 0 .. LogCapacity /\ LogCapacity \in Nat /\ stored \in Nat
      /\ uptime \in Int /\ logReader \in ReaderStates /\ UNCHANGED <<ring, pending, writer, uptime, stored>>
  BY LogAssumption DEF LogInv, LogTypeOK, RingStates, CopySnapshot
<1> DEFINE n == IF ring.count < limit THEN ring.count ELSE limit
           d == ring.count - n
           c == Window(n)
<1>1. n \in 0 .. ring.count /\ n \in Nat /\ (ring.count > 0 => n > 0) /\ d \in Int /\ d + n = ring.count
  BY <1>0
<1>2. logReader' = [logReader EXCEPT !.pc = "done", !.copy = c]
  BY DEF CopySnapshot
<1> HIDE DEF n
<1>3. /\ c \in Seq(LogEntries) /\ Len(c) = n
      /\ \A i \in 1 .. n : c[i] = Kept[i + d] /\ i + d \in 1 .. ring.count
  BY Zenon, <1>1, WindowIsTail
<1> HIDE DEF c, d
<1>4. /\ logReader' \in ReaderStates /\ logReader'.pc = "done" /\ logReader'.copy = c
      /\ logReader'.upto = logReader.upto /\ logReader.upto \in Int
  <2>1. logReader' \in ReaderStates /\ logReader'.pc = "done" /\ logReader'.copy = c
    BY Zenon, <1>0, <1>2, <1>3 DEF ReaderStates
  <2>2. logReader'.upto = logReader.upto /\ logReader.upto \in 0 .. MaxStored
    BY <1>0, <1>2 DEF ReaderStates
  <2> QED BY <2>1, <2>2
<1>5. \A i \in 1 .. n : c[i].stamp = stored - ring.count + (i + d)
  BY <1>3 DEF LogInv, RingInv
<1>6. ASSUME NEW i \in 1 .. n - 1 PROVE c[i + 1].stamp = c[i].stamp + 1
  <2>1. i \in 1 .. n /\ i + 1 \in 1 .. n
    BY <1>1
  <2>2. c[i].stamp = stored - ring.count + (i + d) /\ c[i + 1].stamp = stored - ring.count + ((i + 1) + d)
    BY <1>5, <2>1
  <2> QED BY <1>0, <1>1, <2>1, <2>2
<1>7. logReader.upto > 0 => n > 0 /\ c[n].stamp >= logReader.upto
  <2> SUFFICES ASSUME logReader.upto > 0 PROVE n > 0 /\ c[n].stamp >= logReader.upto
    OBVIOUS
  <2>1. logReader.upto <= stored
    BY DEF LogInv, CopyInv
  <2>2. n > 0
    BY <1>0, <1>1, <1>4, <2>1 DEF LogInv, RingInv
  <2>3. c[n].stamp = stored
    BY <1>0, <1>1, <1>5, <2>2
  <2> QED BY <1>0, <1>4, <2>1, <2>2, <2>3
<1>8. CopyInv'
  BY Zenon, <1>0, <1>3, <1>4, <1>6, <1>7 DEF LogInv, CopyInv, SnapshotIsCurrent
<1>9. RingInv' /\ OrderInv'
  BY <1>0, RingKept
<1>10. LogTypeOK'
  BY <1>0, <1>4 DEF LogTypeOK
<1> QED BY <1>8, <1>9, <1>10 DEF LogInv

LEMMA LogInitially == LogInit => LogInv
<1> SUFFICES ASSUME LogInit PROVE LogInv
  OBVIOUS
<1>1. ring.count = 0 /\ ring.next = 0 /\ ring \in RingStates
  BY LogAssumption DEF LogInit, RingStates
<1>2. NoCopy \in ReaderStates /\ NoCopy.pc = "away" /\ NoCopy.upto = 0
  BY LogAssumption DEF NoCopy, ReaderStates
<1>3. Away \in LogCalls /\ Away.pc = "away"
  BY LogAssumption DEF Away, LogCalls, ChunkKinds
<1>4. writer \in [Writers -> LogCalls] /\ \A w \in Writers : writer[w].pc = "away"
  BY <1>3 DEF LogInit
<1>5. LogTypeOK
  <2>1. pending \in BOOLEAN
    BY Zenon DEF LogInit
  <2>2. uptime \in 0 .. MaxUptime /\ stored \in 0 .. MaxStored
    BY LogAssumption DEF LogInit
  <2>3. logReader \in ReaderStates
    BY <1>2 DEF LogInit
  <2> QED BY <1>1, <1>4, <2>1, <2>2, <2>3 DEF LogTypeOK
<1>6. RingInv /\ OrderInv
  <2>1. 1 .. ring.count = {} /\ stored = 0 /\ ring.next = ring.count
    BY <1>1 DEF LogInit
  <2>2. ~(stored > 0)
    BY <2>1
  <2>3. RingInv
    BY Zenon, <2>1, <2>2 DEF RingInv
  <2>4. OrderInv
    BY Zenon, <1>4, <2>1 DEF OrderInv
  <2> QED BY <2>3, <2>4
<1>7. CopyInv
  <2>1. logReader = NoCopy /\ stored = 0
    BY DEF LogInit
  <2>2. logReader.upto <= stored
    BY <1>2, <2>1
  <2>3. logReader.pc # "done"
    BY <1>2, <2>1
  <2> QED BY Zenon, <2>2, <2>3 DEF CopyInv, SnapshotIsCurrent
<1> QED BY <1>5, <1>6, <1>7 DEF LogInv

LEMMA LogStep == LogInv /\ [LogNext]_logVars => LogInv'
<1> SUFFICES ASSUME LogInv, [LogNext]_logVars PROVE LogInv'
  OBVIOUS
<1>0. LogTypeOK /\ uptime \in 0 .. MaxUptime /\ uptime \in Int /\ MaxUptime \in Nat
  BY LogAssumption DEF LogInv, LogTypeOK
<1>1. CASE UNCHANGED logVars
  <2>1. UNCHANGED <<ring, pending, writer, logReader, uptime, stored>>
    BY <1>1 DEF logVars
  <2>2. RingInv' /\ OrderInv'
    BY <1>0, <2>1, RingKept
  <2>3. LogTypeOK' /\ CopyInv'
    BY <2>1 DEF LogInv, LogTypeOK, CopyInv, SnapshotIsCurrent
  <2> QED BY <2>2, <2>3 DEF LogInv
<1>2. CASE LogTick
  <2>1. /\ UNCHANGED <<ring, pending, writer, logReader, stored>>
        /\ uptime' \in 0 .. MaxUptime /\ uptime' \in Int /\ uptime <= uptime'
    BY <1>0, <1>2 DEF LogTick
  <2>2. RingInv' /\ OrderInv'
    BY <1>0, <2>1, RingKept
  <2>3. LogTypeOK' /\ CopyInv'
    BY <2>1 DEF LogInv, LogTypeOK, CopyInv, SnapshotIsCurrent
  <2> QED BY <2>2, <2>3 DEF LogInv
<1>3. CASE SendLog
  <2>1. /\ UNCHANGED <<ring, pending, writer, uptime, stored>> /\ logReader' = NoCopy
    BY <1>3 DEF SendLog
  <2>2. RingInv' /\ OrderInv'
    BY <1>0, <2>1, RingKept
  <2>3. NoCopy \in ReaderStates /\ NoCopy.pc = "away" /\ NoCopy.upto = 0
    BY LogAssumption DEF NoCopy, ReaderStates
  <2>4. LogTypeOK'
    BY <1>0, <2>1, <2>3 DEF LogTypeOK
  <2>5. logReader'.upto <= stored'
    <3>1. stored \in Nat
      BY <1>0, LogAssumption DEF LogTypeOK
    <3> QED BY <2>1, <2>3, <3>1
  <2>6. logReader'.pc # "done"
    BY <2>1, <2>3
  <2>7. CopyInv'
    BY Zenon, <2>5, <2>6 DEF CopyInv, SnapshotIsCurrent
  <2> QED BY <2>2, <2>4, <2>7 DEF LogInv
<1>4. LogCapacity \in 1 .. LogCapacity /\ LogWindow \in 1 .. LogCapacity
  BY LogAssumption
<1> QED BY <1>1, <1>2, <1>3, <1>4, BeginKeeps, CapturesKeep, FlushKeeps, CopyKeeps DEF LogNext

LEMMA LogAlways == LogSpec => []LogInv
BY LogInitially, LogStep, PTL DEF LogSpec

(* For any number of tasks and any capacity: a copy of the log misses nothing *)
(* that was logged before the request, and no task's entries change places.  *)
THEOREM LogIsSafe == LogSpec => []LogSafe
<1>1. LogInv => LogSafe
  BY DEF LogInv, CopyInv, OrderInv, LogSafe, TaskInOrder, Kept
<1> QED BY <1>1, LogAlways, PTL

(* A step of the ring is a step of the bounded queue.                        *)
LEMMA RingRecords ==
    ASSUME LogInv, LogInv', NEW by \in Writers \cup {"reader"}, NEW at \in 0 .. MaxUptime,
           Store(by, at, FALSE)
    PROVE  \E e \in LogEntries : Kept' = Bounded!Newest(Append(Kept, e))
<1> DEFINE e == [by |-> by, at |-> at, stamp |-> stored + 1]
<1>1. e \in LogEntries /\ \E d \in {0, 1} : Shifts(e, d)
  BY Zenon, StoreShifts DEF LogInv, RingInv
<1>2. PICK d \in {0, 1} : Shifts(e, d)
  BY <1>1
<1> HIDE DEF e
<1>3. /\ ring.count \in 0 .. LogCapacity /\ ring'.count \in 0 .. LogCapacity /\ LogCapacity \in Nat
  BY LogAssumption DEF LogInv, LogTypeOK, RingStates
<1>4. Kept \in Seq(LogEntries) /\ Len(Kept) = ring.count
  BY <1>3, WindowIsTail DEF Kept
<1>5. Kept' \in Seq(LogEntries) /\ Len(Kept') = ring'.count
  <2>1. /\ \A i \in 1 .. ring'.count : Kept'[i] \in LogEntries
    BY DEF LogInv, RingInv
  <2>2. Kept' \in [1 .. ring'.count -> LogEntries]
    BY Zenon, <2>1 DEF Kept, Window
  <2>3. Kept' \in Seq(LogEntries)
    BY <1>3, <2>2, SeqDef
  <2> QED BY <1>3, <2>2, <2>3, LenProperties
<1> DEFINE long == Append(Kept, e)
           new == Bounded!Newest(long)
<1>6. /\ long \in Seq(LogEntries) /\ Len(long) = ring.count + 1
      /\ \A i \in 1 .. ring.count : long[i] = Kept[i]
      /\ long[ring.count + 1] = e
  BY <1>1, <1>4, AppendProperties
<1> HIDE DEF long
<1>7. /\ new \in Seq(LogEntries) /\ Len(new) = ring.count + 1 - d
      /\ \A i \in 1 .. ring.count + 1 - d : new[i] = long[i + d]
  <2>1. CASE d = 0
    <3>1. ring.count < LogCapacity
      BY <1>2, <1>3, <2>1 DEF Shifts
    <3>2. new = long
      BY <1>3, <1>6, <3>1 DEF Bounded!Newest
    <3>3. \A i \in 1 .. ring.count + 1 : i + 0 = i
      BY <1>3
    <3> QED BY <1>3, <1>6, <2>1, <3>2, <3>3
  <2>2. CASE d = 1
    <3>1. ring.count = LogCapacity
      BY <1>2, <2>2 DEF Shifts
    <3>2. new = SubSeq(long, 2, LogCapacity + 1)
      <4>1. Len(long) = LogCapacity + 1 /\ ~(Len(long) <= LogCapacity) /\ Len(long) - LogCapacity + 1 = 2
        BY <1>3, <1>6, <3>1
      <4> QED BY <4>1 DEF Bounded!Newest
    <3>3. \A i \in 2 .. LogCapacity + 1 : long[i] \in LogEntries
      <4>1. \A i \in 2 .. LogCapacity + 1 : i \in 1 .. Len(long)
        BY <1>3, <1>6, <3>1
      <4>2. \A i \in 1 .. Len(long) : long[i] \in LogEntries
        BY <1>6
      <4> QED BY Zenon, <4>1, <4>2
    <3>5. /\ new \in Seq(LogEntries) /\ Len(new) = LogCapacity
          /\ \A i \in 1 .. LogCapacity : new[i] = long[i + 1]
      <4> DEFINE m == 2
                 n == LogCapacity + 1
      <4>1. m \in Int /\ n \in Int /\ m <= n /\ n - m + 1 = LogCapacity
        BY <1>3, LogAssumption
      <4>2. \A i \in m .. n : long[i] \in LogEntries
        BY <3>3
      <4>3. \A i \in 1 .. LogCapacity : m + i - 1 = i + 1
        BY <1>3
      <4>4. new = SubSeq(long, m, n)
        BY <3>2
      <4> HIDE DEF m, n, new
      <4>5. /\ SubSeq(long, m, n) \in Seq(LogEntries)
            /\ Len(SubSeq(long, m, n)) = IF m <= n THEN n - m + 1 ELSE 0
            /\ \A i \in 1 .. n - m + 1 : SubSeq(long, m, n)[i] = long[m + i - 1]
        BY <4>1, <4>2, SubSeqProperties
      <4> DEFINE sub == SubSeq(long, m, n)
      <4>6. /\ sub \in Seq(LogEntries) /\ Len(sub) = LogCapacity
            /\ \A i \in 1 .. n - m + 1 : sub[i] = long[m + i - 1]
        BY <4>1, <4>5
      <4> HIDE DEF sub
      <4>7. \A i \in 1 .. LogCapacity : sub[i] = long[i + 1]
        BY <4>1, <4>3, <4>6
      <4> QED BY <4>4, <4>6, <4>7 DEF sub
    <3> HIDE DEF new
    <3>6. ring.count + 1 - d = LogCapacity
      BY <1>3, <2>2, <3>1
    <3> QED BY <2>2, <3>5, <3>6
  <2> QED BY <2>1, <2>2
<1> HIDE DEF new
<1>8. /\ ring'.count = ring.count + 1 - d /\ ring'.count >= 1 /\ Kept'[ring'.count] = e
      /\ \A i \in 1 .. ring'.count - 1 : i + d \in 1 .. ring.count /\ Kept'[i] = Kept[i + d]
  BY <1>2 DEF Shifts
<1>9. ASSUME NEW i \in 1 .. ring'.count PROVE Kept'[i] = new[i]
  <2>1. CASE i = ring'.count
    <3>1. i + d = ring.count + 1
      BY <1>3, <1>8, <2>1
    <3> QED BY <1>6, <1>7, <1>8, <2>1, <3>1
  <2>2. CASE i # ring'.count
    <3>1. i \in 1 .. ring'.count - 1
      BY <1>3, <2>2
    <3> QED BY <1>6, <1>7, <1>8, <3>1
  <2> QED BY <2>1, <2>2
<1>10. Kept' = new
  BY <1>5, <1>7, <1>8, <1>9, SeqEqual
<1> QED BY <1>1, <1>10 DEF new, long

LEMMA RingSteps == LogInv /\ LogInv' /\ [LogNext]_logVars => [Bounded!Record]_(Window(ring.count))
<1> SUFFICES ASSUME LogInv, LogInv', [LogNext]_logVars, Kept' # Kept PROVE Bounded!Record
  BY DEF Kept
<1>1. \E by \in Writers \cup {"reader"}, at \in 0 .. MaxUptime : Store(by, at, FALSE)
  <2>0. LogTypeOK /\ uptime \in 0 .. MaxUptime /\ \A w \in Writers : writer[w].at \in 0 .. MaxUptime
    BY DEF LogInv, LogTypeOK, LogCalls
  <2>1. ring' # ring
    BY DEF Kept, Window
  <2>2. ASSUME NEW w \in Writers, CaptureChunk(w) \/ CaptureNewline(w) \/ CaptureSyslog(w)
        PROVE  Store(w, writer[w].at, FALSE)
    BY Zenon, <2>1, <2>2 DEF CaptureChunk, CaptureNewline, CaptureSyslog, Store
  <2>3. FlushPending => Store("reader", uptime, FALSE)
    BY <2>1 DEF FlushPending, Store
  <2>4. (\E w \in Writers : CaptureChunk(w) \/ CaptureNewline(w) \/ CaptureSyslog(w)) \/ FlushPending
    BY <2>1 DEF LogNext, logVars, BeginLog, CopySnapshot, SendLog, LogTick
  <2> QED BY Zenon, <2>0, <2>2, <2>3, <2>4
<1>2. \E e \in LogEntries : Kept' = Bounded!Newest(Append(Kept, e))
  BY Zenon, <1>1, RingRecords
<1> QED BY <1>2 DEF Bounded!Record, Kept

(* The ring with its wrapping index implements the bounded queue of its      *)
(* newest entries, for every capacity.                                       *)
THEOREM LogRefinesQueue == LogSpec => LogIsBoundedQueue
<1>1. LogInit => Bounded!Init
  <2> SUFFICES ASSUME LogInit PROVE Window(ring.count) = << >>
    BY DEF Bounded!Init
  <2>1. LogInv /\ ring.count = 0
    BY LogInitially DEF LogInit
  <2>2. 0 \in 0 .. ring.count
    BY <2>1
  <2>3. Window(0) \in Seq(LogEntries) /\ Len(Window(0)) = 0
    BY <2>1, <2>2, WindowIsTail
  <2> QED BY <2>1, <2>3, EmptySeq
<1> QED BY <1>1, LogAlways, RingSteps, PTL DEF LogSpec, LogIsBoundedQueue, Bounded!Spec
=============================================================================
