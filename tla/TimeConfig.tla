------------------------------ MODULE TimeConfig ------------------------------
(***************************************************************************)
(* The device clock (time_config.c, time-config-storage.c and the time     *)
(* route): the stored configuration, the SNTP client and where the time    *)
(* came from.                                                              *)
(*                                                                         *)
(* Operations run under time_operation_mutex, one step per NVS call, clock *)
(* call and critical section.  SNTP's own task takes no mutex: it sets the *)
(* clock and then calls time_config_sync_callback.  The two are separate   *)
(* steps, and any operation may come between them.                         *)
(***************************************************************************)
EXTENDS Naturals

CONSTANTS TimeServers       \* NTP server and zone of a configuration

VARIABLES
    clock,      \* who set the system clock, and if it is past 2024
    timeState,  \* what time_state_lock guards
    sntp,       \* sntp_initialized; whether the clock is set and the callback due
    timeNvs,    \* the stored configuration; nothing stored reads as the defaults
    timeOp,     \* the operation that holds time_operation_mutex
    timeHist    \* what the properties remember

timeVars == <<clock, timeState, sntp, timeNvs, timeOp, timeHist>>

TimeConfigs == [ntp : BOOLEAN, server : TimeServers \cup {"default"}]
DefaultConfig == [ntp |-> TRUE, server |-> "default"]
NoConfig == [ntp |-> FALSE, server |-> "default"]
Sources == {"unavailable", "retained", "manual", "ntp"}
TimeIdle == [pc |-> "idle", new |-> NoConfig]

Clocks == [by : Sources, valid : BOOLEAN]
TimeStates == [source : Sources, synchronized : BOOLEAN, waiting : BOOLEAN,
               conf : TimeConfigs, loaded : BOOLEAN]
SntpStates == [running : BOOLEAN, due : {"none", "valid", "invalid"}]
TimeOps == [pc : {"idle", "commit", "zone", "apply", "init", "state", "sync"}, new : TimeConfigs]

TimeTypeOK ==
    /\ clock \in Clocks /\ timeState \in TimeStates /\ sntp \in SntpStates
    /\ timeNvs \in TimeConfigs /\ timeOp \in TimeOps
    /\ timeHist \in [raced : BOOLEAN, failed : BOOLEAN]

Unloaded == [source |-> "unavailable", synchronized |-> FALSE, waiting |-> FALSE,
             conf |-> NoConfig, loaded |-> FALSE]

TimeInit ==
    /\ clock = [by |-> "unavailable", valid |-> FALSE]
    /\ timeState = Unloaded
    /\ sntp = [running |-> FALSE, due |-> "none"]
    /\ timeNvs = DefaultConfig /\ timeOp = TimeIdle
    /\ timeHist = [raced |-> FALSE, failed |-> FALSE]

-----------------------------------------------------------------------------
(* time_config_start, each time the station has an address: the first call   *)
(* loads the configuration, and a clock kept over a restart is noticed.  The *)
(* change of TZ may fail.                                                    *)
TimeStart ==
    LET conf == IF timeState.loaded THEN timeState.conf ELSE timeNvs IN
    /\ timeOp.pc = "idle"
    /\ \/ /\ timeOp' = [pc |-> "apply", new |-> conf]
          /\ timeState' = [timeState EXCEPT !.conf = conf, !.loaded = TRUE,
                             !.source = IF clock.valid /\ @ = "unavailable" THEN "retained" ELSE @]
       \/ timeState' = [timeState EXCEPT !.conf = conf, !.loaded = TRUE] /\ UNCHANGED timeOp
    /\ UNCHANGED <<clock, sntp, timeNvs, timeHist>>

(* time_config_update: nvs_set_blob, which may fail *)
UpdateStores(conf) ==
    /\ timeOp.pc = "idle" /\ timeState.loaded
    /\ timeNvs' = conf /\ timeOp' = [pc |-> "commit", new |-> conf]
    /\ UNCHANGED <<clock, timeState, sntp, timeHist>>

UpdateCommits_ErrorIgnored ==
    /\ timeOp.pc \in {"commit", "zone"}
    /\ timeOp' \in {[timeOp EXCEPT !.pc = IF @ = "commit" THEN "zone" ELSE "state"], TimeIdle}
    /\ UNCHANGED <<clock, timeState, sntp, timeNvs, timeHist>>

(* nvs_commit and the change of TZ: an error leaves the configuration in     *)
(* use as it was, with the new one already stored.                           *)
UpdateCommits ==
    /\ timeOp.pc \in {"commit", "zone"}
    /\ \/ timeOp' = [timeOp EXCEPT !.pc = IF @ = "commit" THEN "zone" ELSE "state"] /\ UNCHANGED timeHist
       \/ timeOp' = TimeIdle /\ timeHist' = [timeHist EXCEPT !.failed = TRUE]
    /\ UNCHANGED <<clock, timeState, sntp, timeNvs>>

UpdateTakesEffect ==
    /\ timeOp.pc = "state"
    /\ timeState' = [timeState EXCEPT !.conf = timeOp.new]
    /\ timeOp' = [timeOp EXCEPT !.pc = "apply"]
    /\ timeHist' = [timeHist EXCEPT !.failed = FALSE]
    /\ UNCHANGED <<clock, sntp, timeNvs>>

(* time_config_apply_sntp: the old client stops; a disabled one stays so.    *)
ApplySntp ==
    /\ timeOp.pc = "apply"
    /\ sntp' = [sntp EXCEPT !.running = FALSE]
    /\ timeState' = [timeState EXCEPT !.waiting = timeOp.new.ntp]
    /\ timeOp' = IF timeOp.new.ntp THEN [timeOp EXCEPT !.pc = "init"] ELSE TimeIdle
    /\ UNCHANGED <<clock, timeNvs, timeHist>>

(* esp_netif_sntp_init *)
InitSntp ==
    /\ timeOp.pc = "init"
    /\ \/ sntp' = [sntp EXCEPT !.running = TRUE] /\ UNCHANGED timeState
       \/ timeState' = [timeState EXCEPT !.waiting = FALSE] /\ UNCHANGED sntp
    /\ timeOp' = TimeIdle
    /\ UNCHANGED <<clock, timeNvs, timeHist>>

(* time_config_set_manual: the clock first, then where it came from.         *)
ManualSetsClock ==
    /\ timeOp.pc = "idle" /\ timeState.loaded
    /\ clock' = [by |-> "manual", valid |-> TRUE]
    /\ timeOp' = [pc |-> "sync", new |-> NoConfig]
    /\ timeHist' = [timeHist EXCEPT !.raced = @ \/ sntp.due # "none"]
    /\ UNCHANGED <<timeState, sntp, timeNvs>>

ManualSetsSource ==
    /\ timeOp.pc = "sync"
    /\ timeState' = [timeState EXCEPT !.synchronized = FALSE, !.source = "manual"]
    /\ timeOp' = TimeIdle
    /\ UNCHANGED <<clock, sntp, timeNvs, timeHist>>

(* time_config_request_sync; esp_netif_sntp_start may fail.                  *)
RequestSync ==
    /\ timeOp.pc = "idle"
    /\ timeState.loaded /\ timeState.conf.ntp /\ sntp.running
    /\ timeState' \in {[timeState EXCEPT !.waiting = TRUE], [timeState EXCEPT !.waiting = FALSE]}
    /\ UNCHANGED <<clock, sntp, timeNvs, timeOp, timeHist>>

(* SNTP's task: a reply sets the clock ...                                   *)
SntpSetsClock(valid) ==
    /\ sntp.running /\ sntp.due = "none"
    /\ clock' = [by |-> "ntp", valid |-> valid]
    /\ sntp' = [sntp EXCEPT !.due = IF valid THEN "valid" ELSE "invalid"]
    /\ timeHist' = [timeHist EXCEPT !.raced = @ \/ timeOp.pc = "sync"]
    /\ UNCHANGED <<timeState, timeNvs, timeOp>>

(* ... and time_config_sync_callback says so.                                *)
SyncCallback ==
    /\ sntp.due # "none"
    /\ timeState' = [timeState EXCEPT !.waiting = FALSE, !.synchronized = sntp.due = "valid",
                       !.source = IF sntp.due = "valid" THEN "ntp" ELSE @]
    /\ sntp' = [sntp EXCEPT !.due = "none"]
    /\ UNCHANGED <<clock, timeNvs, timeOp, timeHist>>

(* A restart; the clock survives a software reset.                           *)
TimeRestart(kept) ==
    /\ clock' = IF kept /\ clock.valid THEN [by |-> "retained", valid |-> TRUE]
                ELSE [by |-> "unavailable", valid |-> FALSE]
    /\ timeState' = Unloaded /\ timeOp' = TimeIdle
    /\ sntp' = [running |-> FALSE, due |-> "none"]
    /\ timeHist' = [raced |-> FALSE, failed |-> FALSE]
    /\ UNCHANGED timeNvs

TimeNext ==
    \/ TimeStart
    \/ \E conf \in [ntp : BOOLEAN, server : TimeServers] : UpdateStores(conf)
    \/ UpdateCommits \/ UpdateTakesEffect \/ ApplySntp \/ InitSntp
    \/ ManualSetsClock \/ ManualSetsSource \/ RequestSync
    \/ \E v \in BOOLEAN : SntpSetsClock(v) \/ TimeRestart(v)
    \/ SyncCallback

TimeSpec == TimeInit /\ [][TimeNext]_timeVars

-----------------------------------------------------------------------------
(* time_config_get_status takes the mutex, so it reads between operations.   *)
StatusRead == timeOp.pc = "idle" /\ sntp.due = "none"

(* The status names the true origin of a clock it calls available, unless a  *)
(* manual setting and an SNTP reply overlapped: the reply's callback does    *)
(* not know that the clock was set again (time_config.c:45-55, 278-286).     *)
SourceTellsClock ==
    StatusRead /\ clock.valid /\ timeState.source # "unavailable" /\ ~timeHist.raced =>
       timeState.source = clock.by

(* "Synchronized" is never said of a clock set by hand or of an invalid one  *)
(* (time_config.c:47-54, 285).                                               *)
SynchronizedIsNtp ==
    StatusRead /\ timeState.synchronized /\ ~timeHist.raced => clock.by = "ntp" /\ clock.valid

(* The status never reports a pending synchronization without a client that  *)
(* could end it (time_config.c:74-106, 312-321).                             *)
PendingHasClient == timeOp.pc = "idle" /\ timeState.waiting => sntp.running

(* The configuration in use is the stored one, unless the last update was    *)
(* answered with an error: then the next restart brings the refused one      *)
(* (time_config.c:178-193).                                                  *)
ConfigInUseIsStored ==
    timeOp.pc = "idle" /\ timeState.loaded /\ ~timeHist.failed => timeState.conf = timeNvs

(* The time status is true of the clock, of the client and of what is        *)
(* stored, through every overlap of requests, SNTP replies and errors        *)
(* (time_config.c:45-394).                                                   *)
TimeSafe == TimeTypeOK /\ SourceTellsClock /\ SynchronizedIsNtp /\ PendingHasClient /\ ConfigInUseIsStored
=============================================================================
