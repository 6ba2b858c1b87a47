------------------------------- MODULE OtaBoot -------------------------------
(***************************************************************************)
(* From a verified upload to a confirmed boot: the two application slots   *)
(* of boards/partitions, the bootloader's choice between them, the result  *)
(* src/src/ota.c keeps in NVS, and app_main's confirmation of a new image. *)
(* Power may fail between any two steps.                                   *)
(*                                                                         *)
(* Both install requests share their tail (ota_install_staged_from_request *)
(* after the staged image was checked again, ota_process_from_request      *)
(* after the length was checked), so there is one install here.  The       *)
(* management server is started by a Wi-Fi event, before app_main reaches  *)
(* ota_mark_running_image_valid: an install can arrive during the trial.   *)
(***************************************************************************)
EXTENDS Integers

CONSTANTS
    Images,     \* firmware images
    NoPromise   \* no install has been answered as installed

ASSUME PromiseAssumption == NoPromise \notin Images

VARIABLES
    slot,       \* slot[s]: the image in flash, whether it is whole, its otadata state
    boot,       \* the slot the newest otadata entry selects
    running,    \* the slot that runs
    result,     \* "ota-result" in NVS
    install,        \* the install the httpd task is running
    confirm,    \* how far app_main is with ota_mark_running_image_valid
    rebootDue,  \* ota_reboot_task is waiting out its delay
    promised    \* history: the image last answered as installed, until a
                \* restart or the next install

bootVars == <<slot, boot, running, result, install, confirm, rebootDue, promised>>

Slots == {0, 1}
Other(s) == 1 - s
States == {"valid", "new", "pending", "aborted"}
Results == {"not_available", "rejected", "failed", "pending", "installed"}
Done == [pc |-> "idle", image |-> NoPromise, verdict |-> "not_available"]

BootTypeOK ==
    /\ slot \in [Slots -> [image : Images, whole : BOOLEAN, state : States]]
    /\ boot \in Slots
    /\ running \in Slots
    /\ result \in Results
    /\ install \in [pc : {"idle", "writing", "ended", "recording", "responding"},
                image : Images \cup {NoPromise}, verdict : Results]
    /\ confirm \in {"starting", "confirmed", "refused", "done"}
    /\ rebootDue \in BOOLEAN
    /\ promised \in Images \cup {NoPromise}

(* A device flashed over the cable: app0 runs, app1 holds nothing bootable. *)
BootInit ==
    /\ \E i \in Images :
         slot = [s \in Slots |-> [image |-> i, whole |-> s = 0, state |-> "valid"]]
    /\ boot = 0
    /\ running = 0
    /\ result = "not_available"
    /\ install = Done
    /\ confirm = "starting"
    /\ rebootDue = FALSE
    /\ promised = NoPromise

-----------------------------------------------------------------------------
(* The second-stage bootloader (rollback enabled): an image still on trial *)
(* is given up, the newest entry that is not given up is selected, a new   *)
(* image goes on trial, and a slot whose image does not verify is passed   *)
(* over for the other one.                                                 *)

GivenUp(s) == slot[s].state \in {"pending", "aborted"}
BootSelects == IF GivenUp(boot) THEN Other(boot) ELSE boot
BootRuns == IF slot[BootSelects].whole THEN BootSelects ELSE Other(BootSelects)

StateAfterBoot(s) ==
    CASE GivenUp(s) -> "aborted"
      [] slot[s].state = "new" /\ s = BootSelects -> "pending"
      [] OTHER -> slot[s].state

Restart ==
    /\ slot' = [s \in Slots |-> [slot[s] EXCEPT !.state = StateAfterBoot(s)]]
    /\ boot' = BootSelects
    /\ running' = BootRuns
    /\ install' = Done
    /\ confirm' = "starting"
    /\ rebootDue' = FALSE
    /\ promised' = NoPromise
    /\ UNCHANGED result

(* Power loss, a panic, the watchdog, or another feature's esp_restart. *)
BootPowerLoss == Restart

(* ota_reboot_task after OTA_REBOOT_DELAY_MS *)
RebootFires == rebootDue /\ Restart

-----------------------------------------------------------------------------
(* The install request *)

(* esp_ota_get_next_update_partition *)
NextUpdatePartition == Other(running)

(* esp_ota_begin refuses while the running image is on trial *)
BeginAllowed == slot[running].state # "pending"

(* The request ends before the flash is touched: no partition, a length    *)
(* that does not fit, a staged image that fails its second validation, or  *)
(* esp_ota_begin refused.                                                  *)
InstallRefused ==
    /\ install.pc = "idle"
    /\ \E v \in {"failed", "rejected"} :
         install' = [pc |-> "recording", image |-> NoPromise, verdict |-> v]
    /\ UNCHANGED <<slot, boot, running, result, confirm, rebootDue, promised>>

(* esp_ota_begin erases the inactive slot; from here on it is not whole. *)
InstallBegins ==
    /\ install.pc = "idle"
    /\ BeginAllowed
    /\ slot' = [slot EXCEPT ![NextUpdatePartition].whole = FALSE]
    /\ \E i \in Images : install' = [Done EXCEPT !.pc = "writing", !.image = i]
    /\ promised' = NoPromise
    /\ UNCHANGED <<boot, running, result, confirm, rebootDue>>

(* A receive timeout, a lost connection, a failed esp_ota_write or an      *)
(* image esp_ota_end does not accept.                                      *)
InstallFails ==
    /\ install.pc \in {"writing", "ended"}
    /\ install' = [install EXCEPT !.pc = "recording", !.verdict = "failed"]
    /\ UNCHANGED <<slot, boot, running, result, confirm, rebootDue, promised>>

(* The last esp_ota_write, then esp_ota_end verifies what was written. *)
InstallEnds ==
    /\ install.pc = "writing"
    /\ slot' = [slot EXCEPT ![NextUpdatePartition].image = install.image,
                            ![NextUpdatePartition].whole = TRUE]
    /\ install' = [install EXCEPT !.pc = "ended"]
    /\ UNCHANGED <<boot, running, result, confirm, rebootDue, promised>>

InstallSelects_BeforeEnd ==
    /\ install.pc \in {"writing", "ended"}
    /\ boot' = NextUpdatePartition
    /\ slot' = [slot EXCEPT ![NextUpdatePartition].state = "new"]
    /\ install' = [install EXCEPT !.pc = "recording", !.verdict = "pending"]
    /\ UNCHANGED <<running, result, confirm, rebootDue, promised>>

(* esp_ota_set_boot_partition *)
InstallSelects ==
    /\ install.pc = "ended"
    /\ boot' = NextUpdatePartition
    /\ slot' = [slot EXCEPT ![NextUpdatePartition].state = "new"]
    /\ install' = [install EXCEPT !.pc = "recording", !.verdict = "pending"]
    /\ UNCHANGED <<running, result, confirm, rebootDue, promised>>

(* ota_record_result: a failed NVS write is only logged. *)
InstallRecords ==
    /\ install.pc = "recording"
    /\ result' \in {result, install.verdict}
    /\ install' = IF install.verdict = "pending" THEN [install EXCEPT !.pc = "responding"] ELSE Done
    /\ UNCHANGED <<slot, boot, running, confirm, rebootDue, promised>>

(* "Firmware verified. Restarting now." was sent and ota_reboot_task runs. *)
InstallAnswered ==
    /\ install.pc = "responding"
    /\ install' = Done
    /\ promised' = install.image
    /\ rebootDue' = TRUE
    /\ UNCHANGED <<slot, boot, running, result, confirm>>

(* The answer was sent and the task could not be created: esp_restart. *)
InstallRestartsAtOnce == install.pc = "responding" /\ Restart

(* The answer could not be sent: no restart is scheduled. *)
InstallUnanswered ==
    /\ install.pc = "responding"
    /\ install' = Done
    /\ UNCHANGED <<slot, boot, running, result, confirm, rebootDue, promised>>

-----------------------------------------------------------------------------
(* ota_mark_running_image_valid, the last call of app_main *)

ConfirmValid_AnyState ==
    /\ confirm = "starting"
    /\ slot' = [slot EXCEPT ![boot].state = "valid"]
    /\ confirm' = "confirmed"
    /\ UNCHANGED <<boot, running, result, install, rebootDue, promised>>

(* esp_ota_mark_app_valid_cancel_rollback acts on the selected entry. *)
ConfirmValid ==
    /\ confirm = "starting"
    /\ slot[running].state = "pending"
    /\ slot' = [slot EXCEPT ![boot].state = "valid"]
    /\ confirm' = "confirmed"
    /\ UNCHANGED <<boot, running, result, install, rebootDue, promised>>

ConfirmFails ==
    /\ confirm = "starting"
    /\ slot[running].state = "pending"
    /\ confirm' = "refused"
    /\ UNCHANGED <<slot, boot, running, result, install, rebootDue, promised>>

ConfirmNotNeeded ==
    /\ confirm = "starting"
    /\ slot[running].state # "pending"
    /\ confirm' = "done"
    /\ UNCHANGED <<slot, boot, running, result, install, rebootDue, promised>>

ConfirmRecords ==
    /\ confirm \in {"confirmed", "refused"}
    /\ result' \in {result, IF confirm = "confirmed" THEN "installed" ELSE "failed"}
    /\ confirm' = "done"
    /\ UNCHANGED <<slot, boot, running, install, rebootDue, promised>>

-----------------------------------------------------------------------------
BootNext ==
    \/ BootPowerLoss
    \/ RebootFires
    \/ InstallRefused
    \/ InstallBegins
    \/ InstallFails
    \/ InstallEnds
    \/ InstallSelects
    \/ InstallRecords
    \/ InstallAnswered
    \/ InstallRestartsAtOnce
    \/ InstallUnanswered
    \/ ConfirmValid
    \/ ConfirmFails
    \/ ConfirmNotNeeded
    \/ ConfirmRecords

BootSpec == BootInit /\ [][BootNext]_bootVars

(* The reboot task is not starved: it only waits out a delay.  Power loss  *)
(* is never assumed.                                                       *)
BootFairSpec == BootSpec /\ WF_bootVars(RebootFires)

-----------------------------------------------------------------------------
(* Properties *)

(* Whatever instant the power fails at, in or after any number of          *)
(* installs, failed installs and rollbacks, the bootloader starts a whole  *)
(* image that has not been given up.                                       *)
AlwaysBootable ==
    slot[BootRuns].whole /\ ~GivenUp(BootRuns)

(* While the running image is on trial (before ota_mark_running_image_valid*)
(* confirms it), the other slot still holds the whole, confirmed image to  *)
(* roll back to, whatever install requests arrive in the meantime.         *)
TrialKeepsFallback ==
    slot[running].state = "pending" =>
        slot[Other(running)].whole /\ slot[Other(running)].state = "valid"

(* An install answered "Firmware verified. Restarting now." is honoured by *)
(* the next restart, however it comes about, unless another install began  *)
(* in between: the bootloader will run exactly that image, on trial.       *)
PromiseKept ==
    promised # NoPromise =>
        /\ BootRuns = Other(running)
        /\ slot[BootRuns].image = promised
        /\ StateAfterBoot(BootRuns) = "pending"

(* An image is confirmed only by having run: a slot's state becomes valid  *)
(* only while that slot runs, its image untouched since the bootloader put *)
(* it on trial.                                                            *)
ConfirmedByRunning ==
    [][\A s \in Slots :
         slot'[s].state = "valid" /\ slot[s].state # "valid" =>
             s = running /\ slot[s].whole /\ slot'[s] = [slot[s] EXCEPT !.state = "valid"]]_bootVars

(* An install answered as installed is followed by a restart, also when    *)
(* the reboot task cannot be created.                                      *)
AnswerRestarts ==
    (promised # NoPromise /\ confirm = "done") ~> (confirm = "starting")

(* The two slots (ota.c:498-866): the device always boots, a trial can be    *)
(* rolled back, and an answer is kept.                                       *)
BootSafe == BootTypeOK /\ AlwaysBootable /\ TrialKeepsFallback /\ PromiseKept
=============================================================================
