------------------------------ MODULE OtaStage ------------------------------
(***************************************************************************)
(* The staged firmware image of src/src/ota.c: one checked image kept in   *)
(* PSRAM for at most ten minutes.  Two tasks work on it:                   *)
(*                                                                         *)
(*   - the httpd task, which runs one request at a time to its end: a      *)
(*     browser "check" (ota_stage_from_request), a browser "install"       *)
(*     (ota_install_staged_from_request) or an "agent" install             *)
(*     (ota_install_from_request);                                         *)
(*   - the esp_timer task, which runs ota_stage_expiry_callback, possibly  *)
(*     on the other core.                                                  *)
(*                                                                         *)
(* Both use ota_stage_lock without waiting.  Time is relative: stage.left  *)
(* and timer.left count the ticks to expires_at_us and to the alarm, so    *)
(* that no behaviour is cut off by a clock bound.                          *)
(***************************************************************************)
EXTENDS Integers

CONSTANTS
    Buffers,    \* addresses the PSRAM allocator can return
    Idents,     \* stage identifiers ota_generate_stage_identifier can draw
    NoImage,    \* the NULL image pointer, and the identifier of no stage
    Expiry,     \* OTA_STAGE_EXPIRY_US in ticks
    Retry       \* the delay of the callback's second attempt, in ticks

ASSUME NoImageAssumption == NoImage \notin Buffers /\ NoImage \notin Idents
ASSUME TimeAssumption == Expiry \in Nat /\ Retry \in Nat

VARIABLES
    lock,       \* holder of ota_stage_lock: "free", "request" or "timer"
    stage,      \* ota_staged_image
    timer,      \* ota_stage_expiry_timer, a one-shot alarm
    cb,         \* where the running expiry callback is
    req,        \* the request the httpd task is running
    inProgress, \* ota_update_in_progress
    heap,       \* the allocated buffers
    panicked,   \* a FreeRTOS or heap assertion has stopped the firmware
    intruded    \* history: since boot, a request went past a busy lock

stageVars == <<lock, stage, timer, cb, req, inProgress, heap, panicked, intruded>>

EmptyStage == [image |-> NoImage, ident |-> NoImage, left |-> 0]
Idle == [pc |-> "idle", op |-> "none", ident |-> NoImage, buffer |-> NoImage,
         then |-> "none"]

Entered(op, ident) ==
    [pc |-> "entered", op |-> op, ident |-> ident, buffer |-> NoImage, then |-> "none"]

Ops == {"check", "install", "agent"}
CbSteps == {"idle", "fired", "holding", "freeing", "wiping"}
ReqSteps == {"idle", "entered", "receiving", "freeing", "wiping",
             "publishing", "arming", "responding", "writing", "streaming"}

StageTypeOK ==
    /\ lock \in {"free", "request", "timer"}
    /\ stage \in [image : Buffers \cup {NoImage}, ident : Idents \cup {NoImage},
                  left : Nat]
    /\ timer \in [armed : BOOLEAN, left : Nat]
    /\ cb \in CbSteps
    /\ req \in [pc : ReqSteps, op : Ops \cup {"none"}, ident : Idents \cup {NoImage},
                buffer : Buffers \cup {NoImage},
                then : {"none", "publish", "finish"}]
    /\ inProgress \in BOOLEAN
    /\ heap \in SUBSET Buffers
    /\ panicked \in BOOLEAN
    /\ intruded \in BOOLEAN

(* ota_init: the lock and the timer exist, nothing is staged *)
StageInit ==
    /\ lock = "free"
    /\ stage = EmptyStage
    /\ timer = [armed |-> FALSE, left |-> 0]
    /\ cb = "idle"
    /\ req = Idle
    /\ inProgress = FALSE
    /\ heap = {}
    /\ panicked = FALSE
    /\ intruded = FALSE

-----------------------------------------------------------------------------
(* Helpers *)

At(step) == ~panicked /\ req.pc = step
CbAt(step) == ~panicked /\ cb = step

IsExpired == stage.image # NoImage /\ stage.left = 0

Disarmed == [armed |-> FALSE, left |-> 0]

(* esp_timer_start_once: refused with ESP_ERR_INVALID_STATE while armed *)
StartOnce(ticks) ==
    IF timer.armed THEN timer ELSE [armed |-> TRUE, left |-> ticks]

(* First half of ota_clear_staged_image: zeroize and free what the image   *)
(* pointer designates; freeing what is not allocated trips the heap check. *)
FreeStaged ==
    /\ heap' = heap \ {stage.image}
    /\ panicked' = (stage.image # NoImage /\ stage.image \notin heap)

(* ota_give_stage_lock by a request: giving a free mutex does nothing, and *)
(* FreeRTOS asserts that the task giving a held mutex is its holder.       *)
GiveByRequest ==
    /\ lock' = IF lock = "request" THEN "free" ELSE lock
    /\ panicked' = (lock = "timer")

-----------------------------------------------------------------------------
(* ota_take_stage_lock and the entry of the three requests *)

(* The lock is free: take it, drop an expired stage. *)
TakeLock(op, ident) ==
    /\ At("idle")
    /\ lock = "free"
    /\ lock' = "request"
    /\ req' = Entered(op, ident)
    /\ stage' = IF IsExpired THEN EmptyStage ELSE stage
    /\ heap' = IF IsExpired THEN heap \ {stage.image} ELSE heap
    /\ UNCHANGED <<timer, cb, panicked, inProgress, intruded>>

(* The lock is busy: the 409 answer is sent, and the result of sending it  *)
(* is returned as the result of taking the lock.  ESP_OK lets the caller   *)
(* go on without the lock; a failed send makes it return.                  *)
BusyLock(op, ident) ==
    /\ At("idle")
    /\ lock # "free"
    /\ \E sent \in BOOLEAN :
         /\ req' = IF sent THEN Entered(op, ident)
                   ELSE Idle
         /\ intruded' = (intruded \/ sent)
    /\ UNCHANGED <<lock, stage, timer, cb, heap, panicked, inProgress>>

(* Every early return of a request that has entered: an identifier that    *)
(* does not match or no image; no inactive partition, a bad length, no     *)
(* PSRAM, esp_ota_begin refused.                                           *)
Refuse ==
    /\ At("entered")
    /\ req.op = "install" =>
         inProgress \/ stage.image = NoImage \/ stage.ident # req.ident
    /\ req' = Idle
    /\ GiveByRequest
    /\ UNCHANGED <<stage, timer, cb, heap, inProgress, intruded>>

-----------------------------------------------------------------------------
(* ota_stage_from_request *)

CheckReceives ==
    /\ ~inProgress
    /\ At("entered") /\ req.op = "check"
    /\ \E b \in Buffers \ heap :
         /\ heap' = heap \cup {b}
         /\ req' = [req EXCEPT !.pc = "receiving", !.buffer = b]
    /\ inProgress' = TRUE
    /\ UNCHANGED <<lock, stage, timer, cb, panicked, intruded>>

(* The upload fails, times out four times, or is not a valid image. *)
CheckFails ==
    /\ At("receiving")
    /\ heap' = heap \ {req.buffer}
    /\ req' = Idle
    /\ GiveByRequest
    /\ inProgress' = FALSE
    /\ UNCHANGED <<stage, timer, cb, intruded>>

(* A valid image: esp_timer_stop, then the old stage is cleared. *)
CheckAccepts ==
    /\ At("receiving")
    /\ timer' = Disarmed
    /\ req' = [req EXCEPT !.pc = "freeing", !.then = "publish"]
    /\ UNCHANGED <<lock, stage, cb, heap, panicked, inProgress, intruded>>

(* The two halves of ota_clear_staged_image, in a request *)
RequestFrees ==
    /\ At("freeing")
    /\ FreeStaged
    /\ req' = [req EXCEPT !.pc = "wiping"]
    /\ UNCHANGED <<lock, stage, timer, cb, inProgress, intruded>>

RequestWipesForNew ==
    /\ At("wiping") /\ req.then = "publish"
    /\ stage' = EmptyStage
    /\ req' = [req EXCEPT !.pc = "publishing"]
    /\ UNCHANGED <<lock, timer, cb, heap, panicked, inProgress, intruded>>

(* ... and ota_update_in_progress is dropped and the lock given back *)
RequestWipesAndLeaves ==
    /\ At("wiping") /\ req.then = "finish"
    /\ stage' = EmptyStage
    /\ req' = Idle
    /\ GiveByRequest
    /\ inProgress' = FALSE
    /\ UNCHANGED <<timer, cb, heap, intruded>>

CheckPublishes ==
    /\ At("publishing")
    /\ \E i \in Idents \ {stage.ident} :
         stage' = [image |-> req.buffer, ident |-> i, left |-> Expiry]
    /\ req' = [req EXCEPT !.pc = "arming"]
    /\ UNCHANGED <<lock, timer, cb, heap, panicked, inProgress, intruded>>

(* esp_timer_start_once succeeds, or the new stage is cleared again. *)
CheckArms ==
    /\ At("arming")
    /\ timer' = StartOnce(Expiry)
    /\ req' = IF timer.armed THEN [req EXCEPT !.pc = "freeing", !.then = "finish"]
              ELSE [req EXCEPT !.pc = "responding"]
    /\ inProgress' = timer.armed
    /\ UNCHANGED <<lock, stage, cb, heap, panicked, intruded>>

(* ota_send_staged_response tells the browser the identifier. *)
CheckResponds ==
    /\ At("responding")
    /\ req' = Idle
    /\ GiveByRequest
    /\ UNCHANGED <<stage, timer, cb, heap, inProgress, intruded>>

-----------------------------------------------------------------------------
(* ota_install_staged_from_request *)

StagedInstallBegins_AnyIdentifier ==
    /\ ~inProgress
    /\ At("entered") /\ req.op = "install"
    /\ stage.image # NoImage
    /\ timer' = Disarmed
    /\ req' = [req EXCEPT !.pc = "writing", !.buffer = stage.image]
    /\ inProgress' = TRUE
    /\ UNCHANGED <<lock, stage, cb, heap, panicked, intruded>>

StagedInstallBegins ==
    /\ ~inProgress
    /\ At("entered") /\ req.op = "install"
    /\ stage.image # NoImage
    /\ stage.ident = req.ident
    /\ timer' = Disarmed
    /\ req' = [req EXCEPT !.pc = "writing", !.buffer = stage.image]
    /\ inProgress' = TRUE
    /\ UNCHANGED <<lock, stage, cb, heap, panicked, intruded>>

(* Re-validation, the flash writes and the boot selection, whatever their  *)
(* outcome: the stage is cleared on all paths.                             *)
StagedInstallEnds ==
    /\ At("writing")
    /\ req' = [req EXCEPT !.pc = "freeing", !.then = "finish"]
    /\ UNCHANGED <<lock, stage, timer, cb, heap, panicked, inProgress, intruded>>

-----------------------------------------------------------------------------
(* ota_install_from_request: the agent's image is streamed to the inactive *)
(* partition and never touches the stage.                                  *)

AgentStreams ==
    /\ ~inProgress
    /\ At("entered") /\ req.op = "agent"
    /\ req' = [req EXCEPT !.pc = "streaming"]
    /\ inProgress' = TRUE
    /\ UNCHANGED <<lock, stage, timer, cb, heap, panicked, intruded>>

AgentEnds ==
    /\ At("streaming")
    /\ req' = Idle
    /\ GiveByRequest
    /\ inProgress' = FALSE
    /\ UNCHANGED <<stage, timer, cb, heap, intruded>>

-----------------------------------------------------------------------------
(* ota_stage_expiry_callback *)

TimerFires ==
    /\ timer.armed /\ timer.left = 0
    /\ CbAt("idle")
    /\ timer' = Disarmed
    /\ cb' = "fired"
    /\ UNCHANGED <<lock, stage, req, heap, panicked, inProgress, intruded>>

CallbackTakes ==
    /\ CbAt("fired")
    /\ lock = "free"
    /\ lock' = "timer"
    /\ cb' = "holding"
    /\ UNCHANGED <<stage, timer, req, heap, panicked, inProgress, intruded>>

CallbackRetriesLater_GivesUp ==
    /\ CbAt("fired")
    /\ lock # "free"
    /\ cb' = "idle"
    /\ UNCHANGED <<lock, stage, timer, req, heap, panicked, inProgress, intruded>>

CallbackRetriesLater ==
    /\ CbAt("fired")
    /\ lock # "free"
    /\ timer' = StartOnce(Retry)
    /\ cb' = "idle"
    /\ UNCHANGED <<lock, stage, req, heap, panicked, inProgress, intruded>>

CallbackFindsExpired_Unchecked ==
    /\ CbAt("holding")
    /\ stage.image # NoImage
    /\ cb' = "freeing"
    /\ UNCHANGED <<lock, stage, timer, req, heap, panicked, inProgress, intruded>>

CallbackFindsExpired ==
    /\ CbAt("holding")
    /\ IsExpired
    /\ cb' = "freeing"
    /\ UNCHANGED <<lock, stage, timer, req, heap, panicked, inProgress, intruded>>

CallbackFindsFresh ==
    /\ CbAt("holding")
    /\ ~IsExpired
    /\ lock' = "free"
    /\ cb' = "idle"
    /\ UNCHANGED <<stage, timer, req, heap, panicked, inProgress, intruded>>

CallbackFrees ==
    /\ CbAt("freeing")
    /\ FreeStaged
    /\ cb' = "wiping"
    /\ UNCHANGED <<lock, stage, timer, req, inProgress, intruded>>

CallbackWipes ==
    /\ CbAt("wiping")
    /\ stage' = EmptyStage
    /\ lock' = "free"
    /\ cb' = "idle"
    /\ UNCHANGED <<timer, req, heap, panicked, inProgress, intruded>>

-----------------------------------------------------------------------------
(* The environment: time passes *)

Down(n) == IF n = 0 THEN 0 ELSE n - 1

StageTick ==
    /\ ~panicked
    /\ stage.left # 0 \/ timer.left # 0
    /\ stage' = [stage EXCEPT !.left = Down(stage.left)]
    /\ timer' = [timer EXCEPT !.left = Down(timer.left)]
    /\ UNCHANGED <<lock, cb, req, heap, panicked, inProgress, intruded>>

Take == \E op \in Ops, ident \in Idents : TakeLock(op, ident) \/ BusyLock(op, ident)

RequestSteps ==
    \/ Refuse
    \/ CheckReceives \/ CheckFails \/ CheckAccepts
    \/ RequestFrees \/ RequestWipesForNew \/ RequestWipesAndLeaves
    \/ CheckPublishes \/ CheckArms \/ CheckResponds
    \/ StagedInstallBegins \/ StagedInstallEnds
    \/ AgentStreams \/ AgentEnds

CallbackSteps ==
    \/ CallbackTakes \/ CallbackRetriesLater
    \/ CallbackFindsExpired \/ CallbackFindsFresh
    \/ CallbackFrees \/ CallbackWipes

(* A failed assertion restarts the chip; PSRAM and all tasks start afresh. *)
StageReboot ==
    /\ panicked
    /\ lock' = "free"
    /\ stage' = EmptyStage
    /\ timer' = Disarmed
    /\ cb' = "idle"
    /\ req' = Idle
    /\ inProgress' = FALSE
    /\ heap' = {}
    /\ panicked' = FALSE
    /\ intruded' = FALSE

StageNext ==
    \/ Take \/ RequestSteps
    \/ TimerFires \/ CallbackSteps
    \/ StageTick \/ StageReboot

StageSpec == StageInit /\ [][StageNext]_stageVars

(* Fairness: the scheduler runs the esp_timer task and the httpd task, the *)
(* handlers end (a receive times out at most four times in a row), time    *)
(* passes.  Nothing is assumed of the arrival of requests.                 *)
StageFairSpec ==
    /\ StageSpec
    /\ WF_stageVars(RequestSteps) /\ WF_stageVars(CallbackSteps)
    /\ WF_stageVars(TimerFires) /\ WF_stageVars(StageTick)

-----------------------------------------------------------------------------
(* Properties *)

(* A retained image is always watched: when neither the httpd task nor the *)
(* expiry callback is at work, the timer is armed, and it does not go off  *)
(* before the image has expired (an early alarm would find the image fresh *)
(* and, being one-shot, never come back).                                  *)
Watched ==
    stage.image # NoImage /\ req.pc = "idle" /\ cb = "idle"
        => timer.armed /\ timer.left >= stage.left

(* The lock keeps the heap sound: as long as no request has run into the   *)
(* busy lock, nothing is freed twice, no mutex is given by a stranger, and *)
(* between requests exactly the staged image is allocated.                 *)
HeapSound ==
    ~intruded =>
        /\ ~panicked
        /\ req.pc = "idle" /\ cb = "idle" => heap = {stage.image} \ {NoImage}

(* While a confirmed install reads the staged buffer, the buffer is the    *)
(* one whose identifier was confirmed and nobody has freed it.             *)
InstallReadsLiveImage ==
    At("writing") /\ ~intruded =>
        stage.image = req.buffer /\ stage.ident = req.ident /\ req.buffer \in heap

(* "Failed replacement leaves a previously checked image intact until its  *)
(* own expiry": an unexpired image leaves the stage only when the request  *)
(* that installs it (or that could not retain it) clears its own image, or *)
(* when a complete, validated one is there to replace it.                  *)
LiveStageKept ==
    [][~intruded /\ stage.image # NoImage /\ stage.left # 0 /\ stage'.image # stage.image
         => /\ At("wiping")
            /\ \/ req.buffer = stage.image
               \/ req.then = "publish" /\ req.buffer \in heap]_stageVars

(* An expired image is eventually discarded, even if it expires while a    *)
(* request holds the lock.                                                 *)
ExpiredDropped ==
    \A b \in Buffers : IsExpired /\ stage.image = b ~> stage.image # b \/ panicked

(* ESP32_V2_9_2_STAGED_OTA_CONTRACT.md: check, replacement, expiry and the *)
(* installs are serialized, a conflicting operation gets a busy answer.    *)
Serialized == req.pc \notin {"idle", "entered"} => lock = "request"

(* The staged image and its lock (ota.c:366-739): the retained image is      *)
(* watched, the heap is sound, and an install reads what was confirmed.      *)
StageSafe == StageTypeOK /\ Watched /\ HeapSound /\ InstallReadsLiveImage
=============================================================================
