---------------------------- MODULE FirmwareProofs ----------------------------
(***************************************************************************)
(* What the firmware keeps across updates and boots, in this order: the    *)
(* staged image and its expiry (OtaStage), the installed image and its     *)
(* confirmation (OtaBoot), and the files a boot makes (FirmwareFiles) -    *)
(* for any set of images, buffers, clocks and files.  Each part has its    *)
(* inductive invariant, a lemma for each action, and the theorems.         *)
(***************************************************************************)
EXTENDS OtaStage, OtaBoot, FirmwareFiles, TLAPS

(* The request has stopped the timer, or is about to clear the stage. *)
Clearing == {"freeing", "wiping", "publishing", "arming", "writing"}

(* Watched is not inductive: it says nothing while the callback runs, and  *)
(* the callback gives up for good when it finds a fresh image.  Outside    *)
(* the window, an armed timer never goes off before the image expires, and *)
(* an unarmed one means that a callback is on its way to an expired image. *)
WatchInv ==
    /\ StageTypeOK
    /\ stage.left <= Expiry
    /\ stage.image # NoImage /\ req.pc \notin Clearing =>
         IF timer.armed THEN timer.left >= stage.left
         ELSE cb # "idle" /\ stage.left = 0

USE DEF Ops, CbSteps, ReqSteps

(* The initial state of ota_init satisfies the inductive invariant. *)
LEMMA InitWatch == StageInit => WatchInv
<1> SUFFICES ASSUME StageInit PROVE WatchInv
  OBVIOUS
<1>1. StageTypeOK
  BY Zenon DEF StageInit, StageTypeOK, EmptyStage, Idle
<1>2. stage.image = NoImage /\ stage.left = 0
  BY DEF StageInit, EmptyStage
<1> QED BY <1>1, <1>2, TimeAssumption DEF WatchInv

(* Every step of the two tasks keeps the types: buffers come from the      *)
(* allocator, the remaining times stay natural numbers.                    *)
LEMMA TypeStep == StageTypeOK /\ [StageNext]_stageVars => StageTypeOK'
<1> SUFFICES ASSUME StageTypeOK, [StageNext]_stageVars PROVE StageTypeOK'
  OBVIOUS
<1> USE TimeAssumption DEF StageTypeOK, EmptyStage, Idle, Entered, Disarmed, StartOnce, FreeStaged,
        GiveByRequest, At, CbAt, IsExpired, Down
<1>1. CASE Take
  <2> PICK op \in Ops, ident \in Idents : TakeLock(op, ident) \/ BusyLock(op, ident)
    BY <1>1 DEF Take
  <2>1. CASE TakeLock(op, ident) BY <2>1 DEF TakeLock
  <2>2. CASE BusyLock(op, ident) BY <2>2 DEF BusyLock
  <2> QED BY <2>1, <2>2
<1>2. CASE RequestSteps
  <2>1. CASE Refuse BY <2>1 DEF Refuse
  <2>2. CASE CheckReceives
    <3>1. PICK b \in Buffers : /\ heap' = heap \cup {b}
                               /\ req' = [req EXCEPT !.pc = "receiving", !.buffer = b]
      BY Zenon, <2>2 DEF CheckReceives
    <3>2. req' \in [pc : ReqSteps, op : Ops \cup {"none"}, ident : Idents \cup {NoImage},
                   buffer : Buffers \cup {NoImage}, then : {"none", "publish", "finish"}]
      BY Zenon, <3>1
    <3> QED BY <2>2, <3>1, <3>2 DEF CheckReceives
  <2>3. CASE CheckFails BY Zenon, <2>3 DEF CheckFails
  <2>4. CASE CheckAccepts BY Zenon, <2>4 DEF CheckAccepts
  <2>5. CASE RequestFrees BY <2>5 DEF RequestFrees
  <2>6. CASE RequestWipesForNew BY <2>6 DEF RequestWipesForNew
  <2>7. CASE RequestWipesAndLeaves BY Zenon, <2>7 DEF RequestWipesAndLeaves
  <2>8. CASE CheckPublishes
    <3>1. PICK i \in Idents : stage' = [image |-> req.buffer, ident |-> i, left |-> Expiry]
      BY <2>8 DEF CheckPublishes
    <3>2. stage' \in [image : Buffers \cup {NoImage}, ident : Idents \cup {NoImage},
                       left : Nat]
      BY <3>1
    <3>3. req' \in [pc : ReqSteps, op : Ops \cup {"none"}, ident : Idents \cup {NoImage},
                   buffer : Buffers \cup {NoImage}, then : {"none", "publish", "finish"}]
      BY <2>8 DEF CheckPublishes
    <3> QED BY <2>8, <3>2, <3>3 DEF CheckPublishes
  <2>9. CASE CheckArms
    <3>1. timer' \in [armed : BOOLEAN, left : Nat]
      BY <2>9 DEF CheckArms
    <3>2. req' \in [pc : ReqSteps, op : Ops \cup {"none"}, ident : Idents \cup {NoImage},
                   buffer : Buffers \cup {NoImage}, then : {"none", "publish", "finish"}]
      BY Zenon, <2>9 DEF CheckArms
    <3>3. inProgress' \in BOOLEAN
      BY <2>9 DEF CheckArms
    <3> QED BY <2>9, <3>1, <3>2, <3>3 DEF CheckArms
  <2>10. CASE CheckResponds BY <2>10 DEF CheckResponds
  <2>11. CASE StagedInstallBegins BY Zenon, <2>11 DEF StagedInstallBegins
  <2>12. CASE StagedInstallEnds
    <3>1. req' \in [pc : ReqSteps, op : Ops \cup {"none"}, ident : Idents \cup {NoImage},
                   buffer : Buffers \cup {NoImage}, then : {"none", "publish", "finish"}]
      BY Zenon, <2>12 DEF StagedInstallEnds
    <3> QED BY <2>12, <3>1 DEF StagedInstallEnds
  <2>13. CASE AgentStreams BY <2>13 DEF AgentStreams
  <2>14. CASE AgentEnds BY Zenon, <2>14 DEF AgentEnds
  <2> QED BY <1>2, <2>1, <2>2, <2>3, <2>4, <2>5, <2>6, <2>7, <2>8, <2>9, <2>10,
             <2>11, <2>12, <2>13, <2>14 DEF RequestSteps
<1>3. CASE TimerFires BY <1>3 DEF TimerFires
<1>4. CASE CallbackSteps
  <2>1. CASE CallbackTakes BY <2>1 DEF CallbackTakes
  <2>2. CASE CallbackRetriesLater BY <2>2 DEF CallbackRetriesLater
  <2>3. CASE CallbackFindsExpired BY <2>3 DEF CallbackFindsExpired
  <2>4. CASE CallbackFindsFresh BY <2>4 DEF CallbackFindsFresh
  <2>5. CASE CallbackFrees BY <2>5 DEF CallbackFrees
  <2>6. CASE CallbackWipes BY <2>6 DEF CallbackWipes
  <2> QED BY <1>4, <2>1, <2>2, <2>3, <2>4, <2>5, <2>6 DEF CallbackSteps
<1>5. CASE StageTick BY <1>5 DEF StageTick
<1>6. CASE StageReboot BY Zenon, <1>6 DEF StageReboot
<1>7. CASE UNCHANGED stageVars BY <1>7 DEF stageVars
<1> QED BY <1>1, <1>2, <1>3, <1>4, <1>5, <1>6, <1>7 DEF StageNext

(* Every step keeps the image watched.  The steps that could disturb it    *)
(* are the ones that bring an image out of the window (CheckArms, which    *)
(* has just armed the timer for the full delay), the callback that leaves  *)
(* (a fresh image is one the timer is armed for) and the passing of time.  *)
LEMMA WatchStep == WatchInv /\ [StageNext]_stageVars => WatchInv'
<1> SUFFICES ASSUME WatchInv, [StageNext]_stageVars PROVE WatchInv'
  OBVIOUS
<1>0. StageTypeOK /\ StageTypeOK'
  BY TypeStep DEF WatchInv
<1> USE <1>0, TimeAssumption DEF WatchInv, Clearing
<1>1. CASE Take
  <2> PICK op \in Ops, ident \in Idents : TakeLock(op, ident) \/ BusyLock(op, ident)
    BY <1>1 DEF Take
  <2>1. CASE TakeLock(op, ident)
    BY <2>1 DEF TakeLock, Entered, EmptyStage, At, StageTypeOK
  <2>2. CASE BusyLock(op, ident)
    BY <2>2 DEF BusyLock, Entered, Idle, At, StageTypeOK
  <2> QED BY <2>1, <2>2
<1>2. CASE RequestSteps
  <2> USE DEF At, StageTypeOK
  <2>1. CASE Refuse BY <2>1 DEF Refuse, Idle
  <2>2. CASE CheckReceives BY <2>2 DEF CheckReceives
  <2>3. CASE CheckFails BY <2>3 DEF CheckFails, Idle
  <2>4. CASE CheckAccepts BY <2>4 DEF CheckAccepts
  <2>5. CASE RequestFrees BY <2>5 DEF RequestFrees
  <2>6. CASE RequestWipesForNew BY <2>6 DEF RequestWipesForNew, EmptyStage
  <2>7. CASE RequestWipesAndLeaves BY <2>7 DEF RequestWipesAndLeaves, EmptyStage
  <2>8. CASE CheckPublishes BY <2>8 DEF CheckPublishes
  <2>9. CASE CheckArms BY <2>9 DEF CheckArms, StartOnce
  <2>10. CASE CheckResponds BY <2>10 DEF CheckResponds, Idle
  <2>11. CASE StagedInstallBegins BY <2>11 DEF StagedInstallBegins
  <2>12. CASE StagedInstallEnds BY <2>12 DEF StagedInstallEnds
  <2>13. CASE AgentStreams BY <2>13 DEF AgentStreams
  <2>14. CASE AgentEnds BY <2>14 DEF AgentEnds, Idle
  <2> QED BY Zenon, <1>2, <2>1, <2>2, <2>3, <2>4, <2>5, <2>6, <2>7, <2>8, <2>9, <2>10,
             <2>11, <2>12, <2>13, <2>14 DEF RequestSteps
<1>3. CASE TimerFires BY <1>3 DEF TimerFires, Disarmed, CbAt, StageTypeOK
<1>4. CASE CallbackSteps
  <2> USE DEF CbAt, StageTypeOK, IsExpired
  <2>1. CASE CallbackTakes BY <2>1 DEF CallbackTakes
  <2>2. CASE CallbackRetriesLater BY <2>2 DEF CallbackRetriesLater, StartOnce
  <2>3. CASE CallbackFindsExpired BY <2>3 DEF CallbackFindsExpired
  <2>4. CASE CallbackFindsFresh BY <2>4 DEF CallbackFindsFresh
  <2>5. CASE CallbackFrees BY <2>5 DEF CallbackFrees
  <2>6. CASE CallbackWipes BY <2>6 DEF CallbackWipes, EmptyStage
  <2> QED BY <1>4, <2>1, <2>2, <2>3, <2>4, <2>5, <2>6 DEF CallbackSteps
<1>5. CASE StageTick BY <1>5 DEF StageTick, Down, StageTypeOK
<1>6. CASE StageReboot BY <1>6 DEF StageReboot, EmptyStage
<1>7. CASE UNCHANGED stageVars BY <1>7 DEF stageVars
<1> QED BY <1>1, <1>2, <1>3, <1>4, <1>5, <1>6, <1>7 DEF StageNext

(* The state of ota.c keeps its types, whatever the two tasks do. *)
THEOREM TypeCorrect == StageSpec => []StageTypeOK
<1>1. StageInit => StageTypeOK
  BY InitWatch DEF WatchInv
<1> QED BY <1>1, TypeStep, PTL DEF StageSpec

(* A checked image that is retained is watched by the expiry timer         *)
(* whenever no task is at work on it: ota_stage_expiry_callback's one-shot *)
(* alarm is never lost, not even when a request meets the busy lock.       *)
THEOREM StageWatched == StageSpec => []Watched
<1>1. WatchInv => Watched
  BY DEF WatchInv, Watched, Clearing, StageTypeOK
<1> QED BY <1>1, InitWatch, WatchStep, PTL DEF StageSpec

-----------------------------------------------------------------------------
(* What is allocated: the staged image, until the first half of a clear    *)
(* has freed it, and the image a check has received and not yet published. *)
StagedHeap == IF req.pc = "wiping" \/ cb = "wiping" THEN {} ELSE {stage.image} \ {NoImage}
Unpublished ==
    \/ req.pc \in {"receiving", "publishing"}
    \/ req.pc \in {"freeing", "wiping"} /\ req.then = "publish"
OwnHeap == IF Unpublished THEN {req.buffer} ELSE {}

(* HeapSound speaks of the quiet states only; the strengthening follows    *)
(* the lock and the two allocations through every step.                    *)
HeapInv ==
    /\ ~panicked
    /\ req.pc # "idle" <=> lock = "request"
    /\ cb \in {"holding", "freeing", "wiping"} <=> lock = "timer"
    /\ heap = StagedHeap \cup OwnHeap
    /\ Unpublished => req.buffer \in Buffers /\ req.buffer # stage.image
    /\ req.pc = "publishing" => stage.image = NoImage
    /\ req.pc \in {"arming", "writing"} => stage.image = req.buffer /\ req.buffer \in Buffers
    /\ req.pc = "writing" => stage.ident = req.ident

SoundUnlessIntruded == intruded \/ HeapInv

(* The strengthened invariant is kept by every step: a step either belongs *)
(* to the task that holds the lock, or touches neither stage nor heap.     *)
LEMMA HeapStep == StageTypeOK /\ SoundUnlessIntruded /\ [StageNext]_stageVars => SoundUnlessIntruded'
<1> SUFFICES ASSUME StageTypeOK, SoundUnlessIntruded, [StageNext]_stageVars, ~intruded'
             PROVE  HeapInv'
  BY DEF SoundUnlessIntruded
<1>1. CASE StageReboot
  BY <1>1 DEF StageReboot, HeapInv, StagedHeap, OwnHeap, Unpublished, EmptyStage, Idle
<1>2. CASE ~StageReboot
  <2>1. ~intruded
    <3>1. CASE Take
      <4> PICK op \in Ops, ident \in Idents : TakeLock(op, ident) \/ BusyLock(op, ident)
        BY <3>1 DEF Take
      <4> QED BY DEF TakeLock, BusyLock, StageTypeOK
    <3>2. CASE RequestSteps
      BY Zenon, <3>2
         DEF RequestSteps, Refuse, CheckReceives, CheckFails, CheckAccepts, RequestFrees,
         RequestWipesForNew, RequestWipesAndLeaves, CheckPublishes, CheckArms, CheckResponds,
         StagedInstallBegins, StagedInstallEnds, AgentStreams, AgentEnds
    <3>3. CASE TimerFires \/ CallbackSteps \/ StageTick \/ UNCHANGED stageVars
      BY <3>3 DEF TimerFires, CallbackSteps, CallbackTakes, CallbackRetriesLater,
         CallbackFindsExpired, CallbackFindsFresh, CallbackFrees, CallbackWipes, StageTick, stageVars
    <3> QED BY <1>2, <3>1, <3>2, <3>3 DEF StageNext
  <2>2. HeapInv
    BY <2>1 DEF SoundUnlessIntruded
  <2> USE <2>2, NoImageAssumption DEF HeapInv, StagedHeap, OwnHeap, Unpublished, StageTypeOK
  <2>3. CASE Take
    <3> PICK op \in Ops, ident \in Idents : TakeLock(op, ident) \/ BusyLock(op, ident)
      BY <2>3 DEF Take
    <3>1. CASE TakeLock(op, ident) BY <3>1 DEF TakeLock, Entered, EmptyStage, At, IsExpired
    <3>2. CASE BusyLock(op, ident)
      <4>1. UNCHANGED <<lock, stage, timer, cb, heap, panicked, inProgress>> /\ req' = Idle /\ req.pc = "idle"
        BY <3>2, <2>1 DEF BusyLock, At
      <4> QED BY <4>1 DEF Idle
    <3> QED BY <3>1, <3>2
  <2>4. CASE RequestSteps
    <3> USE DEF At, GiveByRequest
    <3>1. CASE Refuse BY <3>1 DEF Refuse, Idle
    <3>2. CASE CheckReceives BY <3>2 DEF CheckReceives
    <3>3. CASE CheckFails BY <3>3 DEF CheckFails, Idle
    <3>4. CASE CheckAccepts BY <3>4 DEF CheckAccepts
    <3>5. CASE RequestFrees BY <3>5 DEF RequestFrees, FreeStaged
    <3>6. CASE RequestWipesForNew BY <3>6 DEF RequestWipesForNew, EmptyStage
    <3>7. CASE RequestWipesAndLeaves BY <3>7 DEF RequestWipesAndLeaves, EmptyStage, Idle
    <3>8. CASE CheckPublishes BY <3>8 DEF CheckPublishes
    <3>9. CASE CheckArms BY <3>9 DEF CheckArms
    <3>10. CASE CheckResponds BY <3>10 DEF CheckResponds, Idle
    <3>11. CASE StagedInstallBegins BY <3>11 DEF StagedInstallBegins
    <3>12. CASE StagedInstallEnds BY <3>12 DEF StagedInstallEnds
    <3>13. CASE AgentStreams BY <3>13 DEF AgentStreams
    <3>14. CASE AgentEnds BY <3>14 DEF AgentEnds, Idle
    <3> QED BY Zenon, <2>4, <3>1, <3>2, <3>3, <3>4, <3>5, <3>6, <3>7, <3>8, <3>9, <3>10,
               <3>11, <3>12, <3>13, <3>14 DEF RequestSteps
  <2>5. CASE TimerFires BY <2>5 DEF TimerFires, CbAt
  <2>6. CASE CallbackSteps
    <3> USE DEF CbAt
    <3>1. CASE CallbackTakes BY <3>1 DEF CallbackTakes
    <3>2. CASE CallbackRetriesLater BY <3>2 DEF CallbackRetriesLater
    <3>3. CASE CallbackFindsExpired BY <3>3 DEF CallbackFindsExpired
    <3>4. CASE CallbackFindsFresh BY <3>4 DEF CallbackFindsFresh
    <3>5. CASE CallbackFrees BY <3>5 DEF CallbackFrees, FreeStaged
    <3>6. CASE CallbackWipes BY <3>6 DEF CallbackWipes, EmptyStage
    <3> QED BY <2>6, <3>1, <3>2, <3>3, <3>4, <3>5, <3>6 DEF CallbackSteps
  <2>7. CASE StageTick BY <2>7 DEF StageTick
  <2>8. CASE UNCHANGED stageVars BY <2>8 DEF stageVars
  <2> QED BY <1>2, <2>3, <2>4, <2>5, <2>6, <2>7, <2>8 DEF StageNext
<1> QED BY <1>1, <1>2

(* As long as no request has run into the busy lock, ota_clear_staged_image *)
(* never frees twice, no mutex is given by a stranger, nothing is leaked,   *)
(* and an install reads the very buffer whose identifier was confirmed.     *)
THEOREM LockProtects == StageSpec => [](HeapSound /\ InstallReadsLiveImage)
<1>1. StageInit => StageTypeOK /\ SoundUnlessIntruded
  BY InitWatch DEF WatchInv, StageInit, SoundUnlessIntruded, HeapInv, StagedHeap, OwnHeap,
     Unpublished, EmptyStage, Idle
<1>2. StageTypeOK /\ SoundUnlessIntruded => HeapSound /\ InstallReadsLiveImage
  <2> SUFFICES ASSUME StageTypeOK, HeapInv PROVE HeapSound /\ InstallReadsLiveImage
    BY DEF SoundUnlessIntruded, HeapSound, InstallReadsLiveImage
  <2>1. HeapSound
    BY DEF HeapInv, StagedHeap, OwnHeap, Unpublished, HeapSound
  <2>2. req.pc = "writing" => req.buffer \in heap
    BY NoImageAssumption DEF HeapInv, StagedHeap
  <2> QED BY <2>1, <2>2 DEF HeapInv, InstallReadsLiveImage, At
<1> QED BY <1>1, <1>2, TypeStep, HeapStep, PTL DEF StageSpec

(* The three together: the staged image is safe from ota_init on, whatever *)
(* requests, alarms and failures follow.                                   *)
THEOREM StageIsSafe == StageSpec => []StageSafe
<1>1. StageTypeOK /\ Watched /\ HeapSound /\ InstallReadsLiveImage => StageSafe
  BY DEF StageSafe
<1> QED BY <1>1, TypeCorrect, StageWatched, LockProtects, PTL

-----------------------------------------------------------------------------
(* LiveStageKept needs to know what a clear is about to wipe: the callback  *)
(* only an expired image, a request that does not publish only its own.     *)
WipeInv ==
    /\ cb \in {"freeing", "wiping"} => stage.left = 0
    /\ req.pc \in {"freeing", "wiping"} => req.then \in {"publish", "finish"}
    /\ req.pc \in {"freeing", "wiping"} /\ req.then = "finish" => req.buffer = stage.image

WipesUnlessIntruded == intruded \/ (HeapInv /\ WipeInv)

(* Every step keeps what the clears rely on.                                *)
LEMMA WipeStep ==
    StageTypeOK /\ WipesUnlessIntruded /\ [StageNext]_stageVars => WipesUnlessIntruded'
<1> SUFFICES ASSUME StageTypeOK, WipesUnlessIntruded, [StageNext]_stageVars, ~intruded'
             PROVE  WipeInv'
  BY HeapStep DEF SoundUnlessIntruded, WipesUnlessIntruded
<1>1. CASE StageReboot
  BY <1>1 DEF StageReboot, WipeInv, EmptyStage, Idle
<1>2. CASE UNCHANGED stageVars
  BY <1>2 DEF stageVars, WipesUnlessIntruded, WipeInv
<1>3. CASE Take
  <2> PICK op \in Ops, ident \in Idents : TakeLock(op, ident) \/ BusyLock(op, ident)
    BY <1>3 DEF Take
  <2> USE DEF WipesUnlessIntruded, HeapInv, WipeInv, StageTypeOK
  <2>1. CASE TakeLock(op, ident) BY <2>1 DEF TakeLock, Entered, EmptyStage, At, IsExpired
  <2>2. CASE BusyLock(op, ident) BY <2>2 DEF BusyLock, Idle, Entered, At
  <2> QED BY <2>1, <2>2
<1>4. CASE RequestSteps
  <2>1. ~intruded
    BY Zenon, <1>4 DEF RequestSteps, Refuse, CheckReceives, CheckFails, CheckAccepts, RequestFrees,
       RequestWipesForNew, RequestWipesAndLeaves, CheckPublishes, CheckArms, CheckResponds,
       StagedInstallBegins, StagedInstallEnds, AgentStreams, AgentEnds
  <2> USE <2>1 DEF WipesUnlessIntruded, HeapInv, WipeInv, StageTypeOK, At
  <2>2. CASE Refuse BY <2>2 DEF Refuse, Idle
  <2>3. CASE CheckReceives BY <2>3 DEF CheckReceives
  <2>4. CASE CheckFails BY <2>4 DEF CheckFails, Idle
  <2>5. CASE CheckAccepts BY <2>5 DEF CheckAccepts
  <2>6. CASE RequestFrees BY <2>6 DEF RequestFrees
  <2>7. CASE RequestWipesForNew BY <2>7 DEF RequestWipesForNew, EmptyStage
  <2>8. CASE RequestWipesAndLeaves BY <2>8 DEF RequestWipesAndLeaves, EmptyStage, Idle
  <2>9. CASE CheckPublishes BY <2>9 DEF CheckPublishes
  <2>10. CASE CheckArms BY <2>10 DEF CheckArms
  <2>11. CASE CheckResponds BY <2>11 DEF CheckResponds, Idle
  <2>12. CASE StagedInstallBegins BY <2>12 DEF StagedInstallBegins
  <2>13. CASE StagedInstallEnds BY <2>13 DEF StagedInstallEnds
  <2>14. CASE AgentStreams BY <2>14 DEF AgentStreams
  <2>15. CASE AgentEnds BY <2>15 DEF AgentEnds, Idle
  <2> QED BY <1>4, <2>2, <2>3, <2>4, <2>5, <2>6, <2>7, <2>8, <2>9, <2>10,
              <2>11, <2>12, <2>13, <2>14, <2>15 DEF RequestSteps
<1>5. CASE TimerFires \/ CallbackSteps
  <2>1. ~intruded
    BY <1>5 DEF TimerFires, CallbackSteps, CallbackTakes, CallbackRetriesLater,
       CallbackFindsExpired, CallbackFindsFresh, CallbackFrees, CallbackWipes
  <2> QED
    BY <1>5, <2>1 DEF WipesUnlessIntruded, HeapInv, WipeInv, StageTypeOK, CbAt, IsExpired,
       TimerFires, CallbackSteps, CallbackTakes, CallbackRetriesLater, CallbackFindsExpired,
       CallbackFindsFresh, CallbackFrees, CallbackWipes, EmptyStage
<1>6. CASE StageTick
  BY <1>6 DEF StageTick, WipesUnlessIntruded, WipeInv, StageTypeOK, Down
<1> QED BY <1>1, <1>2, <1>3, <1>4, <1>5, <1>6 DEF StageNext

(* An unexpired checked image leaves the stage only when the request that   *)
(* clears it owns it or has a validated one to publish in its place: the    *)
(* staged OTA contract's promise about failed replacements, for every       *)
(* number of buffers and every delay.                                       *)
THEOREM ReplacedOnlyByValidated == StageSpec => LiveStageKept
<1>1. StageInit => StageTypeOK /\ WipesUnlessIntruded
  BY InitWatch DEF WatchInv, StageInit, WipesUnlessIntruded, WipeInv, HeapInv, StagedHeap,
     OwnHeap, Unpublished, EmptyStage, Idle
<1>2. StageTypeOK /\ WipesUnlessIntruded /\ [StageNext]_stageVars =>
        [~intruded /\ stage.image # NoImage /\ stage.left # 0 /\ stage'.image # stage.image
           => /\ At("wiping")
              /\ \/ req.buffer = stage.image
                 \/ req.then = "publish" /\ req.buffer \in heap]_stageVars
  <2> SUFFICES ASSUME StageTypeOK, HeapInv, WipeInv, StageNext, stage.image # NoImage,
                      stage.left # 0, stage'.image # stage.image
               PROVE  /\ At("wiping")
                      /\ \/ req.buffer = stage.image
                         \/ req.then = "publish" /\ req.buffer \in heap
    BY DEF WipesUnlessIntruded
  <2>1. CASE Take
    <3> PICK op \in Ops, ident \in Idents : TakeLock(op, ident) \/ BusyLock(op, ident)
      BY <2>1 DEF Take
    <3> QED BY DEF TakeLock, BusyLock, IsExpired
  <2>2. CASE RequestSteps
    <3>1. CASE CheckPublishes
      BY <3>1 DEF CheckPublishes, At, HeapInv
    <3>2. CASE RequestWipesForNew \/ RequestWipesAndLeaves
      <4>1. At("wiping") /\ (req.then = "publish" \/ req.then = "finish")
        BY <3>2 DEF RequestWipesForNew, RequestWipesAndLeaves
      <4>2. CASE req.then = "publish"
        BY <4>1, <4>2 DEF At, HeapInv, OwnHeap, Unpublished
      <4>3. CASE req.then = "finish"
        BY <4>1, <4>3 DEF At, WipeInv
      <4> QED BY <4>1, <4>2, <4>3
    <3>3. CASE ~CheckPublishes /\ ~RequestWipesForNew /\ ~RequestWipesAndLeaves
      BY Zenon, <2>2, <3>3 DEF RequestSteps, Refuse, CheckReceives, CheckFails, CheckAccepts,
         RequestFrees, CheckArms, CheckResponds, StagedInstallBegins, StagedInstallEnds,
         AgentStreams, AgentEnds
    <3> QED BY <3>1, <3>2, <3>3
  <2>3. CASE TimerFires \/ CallbackSteps
    BY <2>3 DEF TimerFires, CallbackSteps, CallbackTakes, CallbackRetriesLater,
       CallbackFindsExpired, CallbackFindsFresh, CallbackFrees, CallbackWipes, WipeInv, CbAt
  <2>4. CASE StageTick
    BY <2>4 DEF StageTick, StageTypeOK
  <2>5. CASE StageReboot
    BY <2>5 DEF StageReboot, HeapInv
  <2> QED BY <2>1, <2>2, <2>3, <2>4, <2>5 DEF StageNext
<1> QED BY <1>1, <1>2, TypeStep, WipeStep, PTL DEF StageSpec, LiveStageKept

HIDE DEF Ops, CbSteps, ReqSteps

-----------------------------------------------------------------------------
(* What an install has established at each of its steps. *)
InstallInv ==
    /\ install.pc \in {"writing", "ended"} =>
         slot[running].state = "valid" /\ promised = NoPromise /\ install.image \in Images
    /\ install.pc = "ended" =>
         slot[Other(running)].whole /\ slot[Other(running)].image = install.image
    /\ (install.pc = "responding" \/ (install.pc = "recording" /\ install.verdict = "pending")) =>
         /\ boot = Other(running)
         /\ slot[boot].whole
         /\ slot[boot].image = install.image
         /\ slot[boot].state = "new"

(* The running slot is whole and never given up; while it is on trial it   *)
(* is the selected one and the other slot is the confirmed fallback; a     *)
(* promised image waits, whole and new, in the other slot.                 *)
SlotInv ==
    /\ slot[running].whole
    /\ slot[running].state \in {"valid", "pending"}
    /\ slot[running].state = "pending" =>
         /\ boot = running
         /\ slot[Other(running)].whole
         /\ slot[Other(running)].state = "valid"
    /\ promised # NoPromise =>
         /\ boot = Other(running)
         /\ slot[boot].whole
         /\ slot[boot].image = promised
         /\ slot[boot].state = "new"

BootInv == BootTypeOK /\ SlotInv /\ InstallInv

(* The device has two OTA slots, each the other of the other. *)
LEMMA OtherSlot == \A s \in Slots : Other(s) \in Slots /\ Other(s) # s /\ Other(Other(s)) = s
                                    /\ \A t \in Slots : t = s \/ t = Other(s)
BY DEF Slots, Other

LEMMA InitBoot == BootInit => BootInv
<1> SUFFICES ASSUME BootInit PROVE BootInv
  OBVIOUS
<1>1. PICK i \in Images :
        slot = [s \in Slots |-> [image |-> i, whole |-> s = 0, state |-> "valid"]]
  BY DEF BootInit
<1>2. slot \in [Slots -> [image : Images, whole : BOOLEAN, state : States]]
  BY <1>1 DEF States
<1>3. BootTypeOK
  BY Zenon, <1>2 DEF BootInit, BootTypeOK, Slots, Results, Done
<1>4. slot[0].whole /\ slot[0].state = "valid"
  BY Zenon, <1>1 DEF Slots
<1>5. SlotInv /\ InstallInv
  BY <1>4 DEF BootInit, SlotInv, InstallInv, Done
<1> QED BY <1>3, <1>5 DEF BootInv

(* A restart from any state of the invariant leads to one. *)
LEMMA RestartStep == BootInv /\ Restart => BootInv'
<1> SUFFICES ASSUME BootInv, Restart PROVE BootInv'
  OBVIOUS
<1> USE DEF BootInv
<1>1. BootSelects \in Slots /\ BootRuns \in Slots
  BY OtherSlot DEF BootSelects, BootRuns, BootTypeOK
<1>2. \A s \in Slots : StateAfterBoot(s) \in States
  BY DEF StateAfterBoot, States, BootTypeOK, GivenUp
<1>3. \A s \in Slots : /\ slot'[s].state = StateAfterBoot(s)
                       /\ slot'[s].whole = slot[s].whole
                       /\ slot'[s].image = slot[s].image
  BY <1>2 DEF Restart, BootTypeOK
<1>4. slot' \in [Slots -> [image : Images, whole : BOOLEAN, state : States]]
  BY <1>2 DEF Restart, BootTypeOK
<1>5. BootTypeOK'
  BY Zenon, <1>1, <1>4 DEF Restart, BootTypeOK, Done, Results
<1>6. SlotInv'
  <2> DEFINE o == Other(running)
  <2>1. /\ running \in Slots /\ o \in Slots /\ o # running /\ Other(o) = running
        /\ boot = running \/ boot = o
    BY OtherSlot DEF BootTypeOK
  <2>2. running' = BootRuns /\ boot' = BootSelects /\ promised' = NoPromise
    BY DEF Restart
  <2> HIDE DEF o
  <2>3. CASE boot = running /\ slot[running].state = "valid"
    <3>1. BootSelects = running /\ BootRuns = running
      BY <2>1, <2>3 DEF SlotInv, BootSelects, BootRuns, GivenUp
    <3>2. StateAfterBoot(running) = "valid"
      BY <2>3 DEF StateAfterBoot, GivenUp
    <3> QED BY Zenon, <2>1, <2>2, <3>1, <3>2, <1>3 DEF SlotInv
  <2>4. CASE boot = running /\ slot[running].state = "pending"
    <3>0. slot[o].whole /\ slot[o].state = "valid" /\ Other(boot) = o
      BY <2>4 DEF SlotInv, o
    <3>1. BootSelects = o /\ BootRuns = o
      BY <2>4, <3>0 DEF BootSelects, BootRuns, GivenUp
    <3>2. StateAfterBoot(o) = "valid"
      BY <3>0 DEF StateAfterBoot, GivenUp
    <3> QED BY Zenon, <2>1, <2>2, <3>0, <3>1, <3>2, <1>3 DEF SlotInv
  <2>5. CASE boot = o
    <3>0. slot[running].whole /\ slot[running].state = "valid" /\ Other(boot) = running
      BY <2>1, <2>5 DEF SlotInv
    <3>1. StateAfterBoot(running) = "valid"
      BY <3>0 DEF StateAfterBoot, GivenUp
    <3>2. CASE GivenUp(o) \/ ~slot[o].whole
      <4>1. BootRuns = running
        BY <2>1, <2>5, <3>0, <3>2 DEF BootSelects, BootRuns
      <4> QED BY <2>1, <2>2, <3>0, <3>1, <4>1, <1>3 DEF SlotInv
    <3>3. CASE ~GivenUp(o) /\ slot[o].whole
      <4>1. BootSelects = o /\ BootRuns = o
        BY <2>5, <3>3 DEF BootSelects, BootRuns
      <4>2. StateAfterBoot(o) \in {"valid", "pending"}
        BY <3>3, <4>1, <2>1 DEF StateAfterBoot, BootTypeOK, States, GivenUp
      <4> QED BY <2>1, <2>2, <3>0, <3>1, <3>3, <4>1, <4>2, <1>3 DEF SlotInv
    <3> QED BY <3>2, <3>3
  <2> QED BY Zenon, <2>1, <2>3, <2>4, <2>5 DEF SlotInv
<1>7. InstallInv'
  BY DEF InstallInv, Restart, Done
<1> QED BY <1>5, <1>6, <1>7

LEMMA BootStep == BootInv /\ [BootNext]_bootVars => BootInv'
<1> SUFFICES ASSUME BootInv, [BootNext]_bootVars PROVE BootInv'
  OBVIOUS
<1> USE DEF BootInv
<1>1. CASE BootPowerLoss
  BY <1>1, RestartStep DEF BootPowerLoss
<1>2. CASE RebootFires
  BY <1>2, RestartStep DEF RebootFires
<1>3. CASE InstallRestartsAtOnce
  BY <1>3, RestartStep DEF InstallRestartsAtOnce
<1>4. CASE InstallRefused
  <2>1. PICK v \in {"failed", "rejected"} :
           install' = [pc |-> "recording", image |-> NoPromise, verdict |-> v]
    BY Zenon, <1>4 DEF InstallRefused
  <2>2. /\ install' \in [pc : {"idle", "writing", "ended", "recording", "responding"},
                          image : Images \cup {NoPromise}, verdict : Results]
        /\ install'.pc = "recording" /\ install'.verdict # "pending"
    BY <2>1 DEF Results
  <2>3. BootTypeOK'
    BY Zenon, <1>4, <2>2 DEF InstallRefused, BootTypeOK
  <2>4. SlotInv'
    BY Zenon, <1>4 DEF InstallRefused, SlotInv
  <2>5. InstallInv'
    BY <2>2 DEF InstallInv
  <2> QED BY <2>3, <2>4, <2>5
<1>5. CASE InstallBegins
  <2> DEFINE o == Other(running)
  <2>0. running \in Slots /\ o \in Slots /\ o # running
    BY OtherSlot DEF BootTypeOK
  <2>1. slot' \in [Slots -> [image : Images, whole : BOOLEAN, state : States]]
    <3>1. slot \in [Slots -> [image : Images, whole : BOOLEAN, state : States]]
      BY DEF BootTypeOK
    <3>2. slot' = [slot EXCEPT ![NextUpdatePartition].whole = FALSE]
      BY <1>5 DEF InstallBegins
    <3> QED BY Zenon, <3>1, <3>2
  <2>2. PICK i \in Images : install' = [pc |-> "writing", image |-> i,
                                    verdict |-> "not_available"]
    BY Zenon, <1>5 DEF InstallBegins, Done
  <2>3. BootTypeOK'
    BY <1>5, <2>1, <2>2 DEF InstallBegins, BootTypeOK, Results
  <2>4. slot'[running] = slot[running] /\ slot[running].state = "valid"
    BY <1>5, <2>0 DEF InstallBegins, NextUpdatePartition, BeginAllowed, BootTypeOK, SlotInv
  <2>a. running' = running /\ promised' = NoPromise
    BY <1>5 DEF InstallBegins
  <2>5. SlotInv'
    BY <2>4, <2>a DEF SlotInv
  <2>6. InstallInv'
    BY Zenon, <2>2, <2>4, <2>a DEF InstallInv
  <2> QED BY <2>3, <2>5, <2>6
<1>6. CASE InstallFails
  BY Zenon, <1>6 DEF InstallFails, BootTypeOK, SlotInv, InstallInv, Results
<1>7. CASE InstallEnds
  <2> DEFINE o == Other(running)
  <2>0. running \in Slots /\ o \in Slots /\ o # running
    BY OtherSlot DEF BootTypeOK
  <2>1. slot' = [slot EXCEPT ![o] = [slot[o] EXCEPT !.image = install.image, !.whole = TRUE]]
    BY Zenon, <1>7, <2>0 DEF InstallEnds, NextUpdatePartition, BootTypeOK
  <2>2. install.image \in Images
    BY <1>7 DEF InstallEnds, InstallInv
  <2>a. slot[o] \in [image : Images, whole : BOOLEAN, state : States]
    BY <2>0 DEF BootTypeOK
  <2>b. [slot[o] EXCEPT !.image = install.image, !.whole = TRUE]
          \in [image : Images, whole : BOOLEAN, state : States]
    BY Zenon, <2>a, <2>2
  <2>c. slot' \in [Slots -> [image : Images, whole : BOOLEAN, state : States]]
    BY Zenon, <2>b, <2>1 DEF BootTypeOK
  <2>d. install' \in [pc : {"idle", "writing", "ended", "recording", "responding"},
                  image : Images \cup {NoPromise}, verdict : Results]
    BY <1>7 DEF InstallEnds, BootTypeOK
  <2>3. BootTypeOK'
    BY <1>7, <2>c, <2>d DEF InstallEnds, BootTypeOK
  <2>4. slot'[running] = slot[running] /\ slot'[o].whole /\ slot'[o].image = install.image
    BY <2>0, <2>1 DEF BootTypeOK
  <2>5. SlotInv' /\ InstallInv'
    BY <1>7, <2>4 DEF InstallEnds, SlotInv, InstallInv
  <2> QED BY <2>3, <2>5
<1>8. CASE InstallSelects
  <2> USE <1>8 DEF InstallSelects, NextUpdatePartition
  <2>0. running \in Slots /\ Other(running) \in Slots
    BY OtherSlot DEF BootTypeOK
  <2>d. [slot[Other(running)] EXCEPT !.state = "new"]
          \in [image : Images, whole : BOOLEAN, state : States]
    BY <2>0 DEF BootTypeOK, States
  <2>a. slot' \in [Slots -> [image : Images, whole : BOOLEAN, state : States]]
    BY <2>0, <2>d DEF BootTypeOK
  <2>b. install' \in [pc : {"idle", "writing", "ended", "recording", "responding"},
                  image : Images \cup {NoPromise}, verdict : Results]
    BY Zenon DEF BootTypeOK, Results
  <2>1. BootTypeOK'
    BY OtherSlot, <2>a, <2>b DEF BootTypeOK
  <2>2. /\ slot'[running] = slot[running]
        /\ slot'[Other(running)].whole /\ slot'[Other(running)].state = "new"
        /\ slot'[Other(running)].image = install.image
    BY OtherSlot DEF BootTypeOK, InstallInv
  <2>c. install'.image = install.image /\ install'.pc = "recording"
    BY DEF BootTypeOK
  <2>3. SlotInv' /\ InstallInv'
    BY Zenon, <2>2, <2>c DEF SlotInv, InstallInv
  <2> QED BY <2>1, <2>3
<1>9. CASE InstallRecords
  BY <1>9 DEF InstallRecords, BootTypeOK, SlotInv, InstallInv, Done, Results
<1>10. CASE InstallAnswered
  BY Zenon, <1>10 DEF InstallAnswered, BootTypeOK, SlotInv, InstallInv, Done, Results
<1>11. CASE InstallUnanswered
  BY Zenon, <1>11 DEF InstallUnanswered, BootTypeOK, SlotInv, InstallInv, Done, Results
<1>12. CASE ConfirmValid
  <2> USE <1>12 DEF ConfirmValid
  <2>1. BootTypeOK'
    BY DEF BootTypeOK, States
  <2>2. SlotInv' /\ InstallInv'
    BY OtherSlot DEF BootTypeOK, SlotInv, InstallInv
  <2> QED BY <2>1, <2>2
<1>13. CASE ConfirmFails \/ ConfirmNotNeeded \/ ConfirmRecords
  <2>1. UNCHANGED <<slot, boot, running, install, rebootDue, promised>>
    BY <1>13 DEF ConfirmFails, ConfirmNotNeeded, ConfirmRecords
  <2>2. confirm' \in {"refused", "done"} /\ result' \in Results
    BY <1>13 DEF ConfirmFails, ConfirmNotNeeded, ConfirmRecords, BootTypeOK, Results
  <2>3. BootTypeOK'
    BY <2>1, <2>2 DEF BootTypeOK
  <2>4. SlotInv' /\ InstallInv'
    BY <2>1 DEF SlotInv, InstallInv
  <2> QED BY <2>3, <2>4
<1>14. CASE UNCHANGED bootVars
  <2>1. BootTypeOK'
    BY Zenon, <1>14 DEF bootVars, BootTypeOK
  <2>2. SlotInv'
    BY Zenon, <1>14 DEF bootVars, SlotInv
  <2>3. InstallInv'
    BY Zenon, <1>14 DEF bootVars, InstallInv
  <2> QED BY <2>1, <2>2, <2>3
<1> QED
  BY <1>1, <1>2, <1>3, <1>4, <1>5, <1>6, <1>7, <1>8, <1>9, <1>10, <1>11, <1>12, <1>13,
     <1>14 DEF BootNext

LEMMA InvBootable == BootInv => AlwaysBootable /\ TrialKeepsFallback /\ PromiseKept
<1> SUFFICES ASSUME BootInv PROVE AlwaysBootable /\ TrialKeepsFallback /\ PromiseKept
  OBVIOUS
<1> USE OtherSlot DEF BootInv, BootTypeOK, SlotInv, BootRuns, BootSelects, GivenUp
<1>1. AlwaysBootable
  <2>1. CASE boot = running
    BY <2>1 DEF AlwaysBootable
  <2>2. CASE boot = Other(running)
    BY Zenon, <2>2 DEF AlwaysBootable
  <2> QED BY <2>1, <2>2
<1>2. TrialKeepsFallback
  BY DEF TrialKeepsFallback
<1>3. PromiseKept
  BY Zenon DEF PromiseKept, StateAfterBoot
<1> QED BY <1>1, <1>2, <1>3

(* Whatever the images and however many installs and power losses, the     *)
(* bootloader of the two-slot layout finds a whole image that has not been *)
(* given up: ota.c never leaves the device without one.                    *)
THEOREM DeviceBoots == BootSpec => []AlwaysBootable
<1>1. BootInv => AlwaysBootable
  BY InvBootable
<1> QED BY InitBoot, BootStep, <1>1, PTL DEF BootSpec

(* An image on trial always has its confirmed fallback in the other slot,  *)
(* and an install answered as installed is what the next restart runs.     *)
THEOREM TrialsAndPromises == BootSpec => [](TrialKeepsFallback /\ PromiseKept)
<1>1. BootInv => TrialKeepsFallback /\ PromiseKept
  BY InvBootable
<1> QED BY InitBoot, BootStep, <1>1, PTL DEF BootSpec

(* All three, with the types. *)
THEOREM BootIsSafe == BootSpec => []BootSafe
<1>1. BootInv => BootSafe
  BY InvBootable DEF BootInv, BootSafe
<1> QED BY InitBoot, BootStep, <1>1, PTL DEF BootSpec

(* A slot becomes valid only while it runs and is whole, and nothing else   *)
(* about it changes then: ota_mark_running_image_valid confirms the image   *)
(* that the bootloader put on trial, never one that was just written.       *)
THEOREM ConfirmedOnlyByRunning == BootSpec => ConfirmedByRunning
<1> DEFINE A == \A s \in Slots :
                  slot'[s].state = "valid" /\ slot[s].state # "valid" =>
                      s = running /\ slot[s].whole /\ slot'[s] = [slot[s] EXCEPT !.state = "valid"]
<1>1. BootInv /\ [BootNext]_bootVars => [A]_bootVars
  <2> SUFFICES ASSUME BootInv, BootNext, NEW s \in Slots,
                      slot'[s].state = "valid", slot[s].state # "valid"
               PROVE  s = running /\ slot[s].whole
                      /\ slot'[s] = [slot[s] EXCEPT !.state = "valid"]
    OBVIOUS
  <2> USE DEF BootInv, BootTypeOK
  <2>1. CASE Restart
    <3>1. slot'[s].state = StateAfterBoot(s)
      BY <2>1 DEF Restart
    <3> QED BY <3>1 DEF StateAfterBoot
  <2>2. CASE ConfirmValid
    BY <2>2 DEF ConfirmValid, SlotInv
  <2>3. CASE InstallBegins
    BY <2>3 DEF InstallBegins
  <2>4. CASE InstallEnds
    BY <2>4 DEF InstallEnds
  <2>5. CASE InstallSelects
    BY <2>5 DEF InstallSelects
  <2>6. CASE ~Restart /\ ~ConfirmValid /\ ~InstallBegins /\ ~InstallEnds /\ ~InstallSelects
    BY <2>6 DEF BootNext, BootPowerLoss, RebootFires, InstallRestartsAtOnce, InstallRefused,
       InstallFails, InstallRecords, InstallAnswered, InstallUnanswered, ConfirmFails,
       ConfirmNotNeeded, ConfirmRecords
  <2> QED BY <2>1, <2>2, <2>3, <2>4, <2>5, <2>6
<1> QED BY InitBoot, BootStep, <1>1, PTL DEF BootSpec, ConfirmedByRunning

-----------------------------------------------------------------------------
(* What the boot has done so far, by where it is: directories of one group   *)
(* come all or not at all unless a boot was cut off inside the group, and    *)
(* the files before the current one are complete.                            *)
UsrDirs == {Dirs[3], Dirs[4], Dirs[5]}
Made == flash.dirs \cap UsrDirs

PlaceInv ==
    /\ drivers # {} => bootStep.pc \in {"upsd", "up"}
    /\ bootStep.pc = "vardirs" => bootStep.group = 1 /\ bootStep.i \in 1 .. 2
    /\ bootStep.pc = "usrdirs" => bootStep.group = 3 /\ bootStep.i \in 3 .. 5
    /\ bootStep.pc \in {"open", "write"} => bootStep.i \in 1 .. 4
FullInv ==
    /\ bootStep.pc \in {"open", "write"} =>
         \A j \in 1 .. 4 : j < bootStep.i => ConfFiles[j] \in flash.full
    /\ bootStep.pc \in {"hid", "drv", "upsd", "up"} /\ ~bootHist.failed =>
         \A j \in 1 .. 4 : ConfFiles[j] \in flash.full
DirsInv ==
    ~bootHist.torn =>
      /\ bootStep.pc \in {"open", "write"} => Dirs[5] \in flash.dirs
      /\ IF MidGroup /\ bootStep.pc = "usrdirs"
         THEN Made = {Dirs[3]} \cup (IF bootStep.i = 5 THEN {Dirs[4]} ELSE {})
         ELSE Made = {} \/ Made = UsrDirs

FilesInv == FilesTypeOK /\ PlaceInv /\ FullInv /\ DirsInv

AllDirs == {Dirs[i] : i \in 1 .. 5}
AllFiles == {ConfFiles[i] : i \in 1 .. 4}
Steps == [pc : {"var", "vardirs", "usr", "usrdirs", "open", "write", "hid", "drv", "upsd", "up"},
          i : 1 .. 5, group : 0 .. 5]
Disks == [dirs : SUBSET AllDirs, full : SUBSET AllFiles]
Histories == [torn : BOOLEAN, failed : BOOLEAN]

LEMMA FilesTypes ==
    FilesTypeOK <=> /\ bootStep \in Steps /\ flash \in Disks
                    /\ drivers \subseteq {"drv_main", "nut_main"} /\ bootHist \in Histories
BY DEF FilesTypeOK, Steps, Disks, AllDirs, AllFiles, Histories

(* The directories differ from each other, and so do the files. *)
LEMMA NamesDiffer ==
    /\ \A i, j \in 1 .. 5 : i # j => Dirs[i] # Dirs[j]
    /\ \A i, j \in 1 .. 4 : i # j => ConfFiles[i] # ConfFiles[j]
    /\ \A i \in 1 .. 5 : Dirs[i] \in AllDirs
    /\ \A i \in 1 .. 4 : ConfFiles[i] \in AllFiles
BY DEF Dirs, ConfFiles, AllDirs, AllFiles

LEMMA FilesInitially == FilesInit => FilesInv
<1> SUFFICES ASSUME FilesInit PROVE FilesInv
  OBVIOUS
<1>1. /\ bootStep \in Steps /\ flash \in Disks /\ drivers = {} /\ bootHist \in Histories
      /\ bootStep.pc = "var" /\ flash.dirs = {}
  <2>1. bootStep \in Steps /\ bootStep.pc = "var"
    BY DEF FilesInit, BootStart, Steps
  <2>2. flash \in Disks /\ flash.dirs = {}
    BY DEF FilesInit, Disks
  <2>3. drivers = {} /\ bootHist \in Histories
    BY Zenon DEF FilesInit, Histories
  <2> QED BY <2>1, <2>2, <2>3
<1>2. FilesTypeOK
  BY <1>1, FilesTypes
<1>3. PlaceInv /\ FullInv /\ DirsInv
  BY <1>1 DEF PlaceInv, FullInv, DirsInv, MidGroup, Made
<1> QED BY <1>2, <1>3 DEF FilesInv

(* A step to another place leaves that place, and starts a group there. *)
LEMMA GoesTo ==
    ASSUME NEW pc \in {"vardirs", "usr", "usrdirs", "open", "hid", "drv", "upsd", "up"},
           NEW i \in 1 .. 5, Goto(pc, i)
    PROVE  bootStep' \in Steps /\ bootStep'.pc = pc /\ bootStep'.i = i /\ bootStep'.group = i
           /\ ~MidGroup'
<1>1. bootStep' \in Steps /\ bootStep'.pc = pc /\ bootStep'.i = i /\ bootStep'.group = i
  BY DEF Goto, Steps
<1> QED BY <1>1 DEF MidGroup

(* Formatting takes all the files and directories of the one partition. *)
LEMMA FormatsOne ==
    ASSUME flash \in Disks, NEW gone \in {1 .. 2, 3 .. 5}, Formatted(gone)
    PROVE  /\ flash' \in Disks
           /\ flash' = flash \/ Made' = (IF gone = 1 .. 2 THEN Made ELSE {})
<1>1. CASE flash' = flash
  BY <1>1
<1>2. CASE flash' # flash
  <2>1. flash' = [dirs |-> flash.dirs \ {Dirs[i] : i \in gone},
                  full |-> IF 5 \in gone THEN {} ELSE flash.full]
    BY <1>2 DEF Formatted
  <2>2. /\ flash'.dirs = flash.dirs \ {Dirs[i] : i \in gone}
        /\ flash'.full = IF 5 \in gone THEN {} ELSE flash.full
    BY <2>1
  <2>3. flash' \in Disks
    BY <2>1 DEF Disks
  <2>4. CASE gone = 1 .. 2
    <3>1. \A d \in UsrDirs : d \notin {Dirs[i] : i \in gone}
      BY <2>4, NamesDiffer DEF UsrDirs
    <3>2. Made' = Made
      BY <2>2, <3>1 DEF Made
    <3> QED BY <2>3, <2>4, <3>2
  <2>5. CASE gone = 3 .. 5
    <3>1. \A d \in UsrDirs : d \in {Dirs[i] : i \in gone}
      BY <2>5 DEF UsrDirs
    <3>2. Made' = {} /\ gone # 1 .. 2
      BY <2>2, <2>5, <3>1 DEF Made
    <3> QED BY <2>3, <3>2
  <2> QED BY <2>4, <2>5
<1> QED BY <1>1, <1>2

(* A group of directories: one more is made, unless it is there, which ends *)
(* the group.                                                               *)
LEMMA FilesMakesDir == FilesInv /\ MakesDir => FilesInv'
<1> SUFFICES ASSUME FilesInv, MakesDir PROVE FilesInv'
  OBVIOUS
<1>0. /\ bootStep \in Steps /\ flash \in Disks /\ bootHist \in Histories
      /\ drivers \subseteq {"drv_main", "nut_main"}
  BY FilesTypes DEF FilesInv
<1>1. /\ flash' \in Disks /\ flash'.full = flash.full
      /\ flash'.dirs = flash.dirs \cup {Dirs[bootStep.i]}
  BY <1>0, NamesDiffer DEF MakesDir, Disks, Steps
<1>2. drivers' = drivers /\ drivers = {} /\ bootHist' = bootHist
  BY DEF MakesDir, FilesInv, PlaceInv
<1>v. CASE bootStep.pc = "vardirs"
  <2>1. bootStep.i \in 1 .. 2 /\ bootStep.group = 1
    BY <1>v DEF FilesInv, PlaceInv
  <2>2. Made' = Made
    BY <1>1, <2>1, NamesDiffer DEF Made, UsrDirs
  <2>3. /\ bootStep' \in Steps /\ bootStep'.pc \in {"vardirs", "usr"}
        /\ bootStep'.pc = "vardirs" => bootStep'.group = 1 /\ bootStep'.i \in 1 .. 2
    <3>1. CASE Dirs[bootStep.i] \in flash.dirs \/ bootStep.i = LastDir
      BY <1>v, <3>1, GoesTo DEF MakesDir, AfterDirs
    <3>2. CASE ~(Dirs[bootStep.i] \in flash.dirs \/ bootStep.i = LastDir)
      BY <1>0, <1>v, <2>1, <3>2 DEF MakesDir, LastDir, Steps
    <3> QED BY <3>1, <3>2
  <2>4. FilesTypeOK'
    BY <1>0, <1>1, <1>2, <2>3, FilesTypes
       DEF FilesTypeOK, Steps, Disks, AllDirs, AllFiles, Histories
  <2>5. PlaceInv' /\ FullInv'
    BY <1>2, <2>3 DEF PlaceInv, FullInv
  <2>6. DirsInv'
    BY <1>v, <1>2, <2>2, <2>3 DEF FilesInv, DirsInv
  <2> QED BY <2>4, <2>5, <2>6 DEF FilesInv
<1>u. CASE bootStep.pc = "usrdirs"
  <2>1. bootStep.i \in 3 .. 5 /\ bootStep.group = 3
    BY <1>u DEF FilesInv, PlaceInv
  <2>2. Made' = Made \cup {Dirs[bootStep.i]}
    BY <1>1, <2>1 DEF Made, UsrDirs
  <2>3. ~bootHist.torn =>
          \/ bootStep.i = 3 /\ (Made = {} \/ Made = UsrDirs)
          \/ bootStep.i = 4 /\ Made = {Dirs[3]}
          \/ bootStep.i = 5 /\ Made = {Dirs[3], Dirs[4]}
    BY <1>u, <2>1 DEF FilesInv, DirsInv, MidGroup
  <2>m. Dirs[bootStep.i] \in flash.dirs <=> Dirs[bootStep.i] \in Made
    BY <2>1 DEF Made, UsrDirs
  <2>a. CASE Dirs[bootStep.i] \in flash.dirs \/ bootStep.i = LastDir
    <3>1. bootStep' \in Steps /\ bootStep'.pc = "open" /\ bootStep'.i = 1 /\ ~MidGroup'
      BY <1>u, <2>a, GoesTo DEF MakesDir, AfterDirs
    <3>2. ~bootHist.torn => Made' = UsrDirs
      BY <1>u, <2>1, <2>2, <2>3, <2>m, <2>a, NamesDiffer DEF UsrDirs, LastDir
    <3>3. FilesTypeOK'
      BY <1>0, <1>1, <1>2, <3>1 DEF FilesTypeOK, Steps, Disks, AllDirs, AllFiles, Histories
    <3>4. PlaceInv' /\ FullInv'
      BY <1>2, <3>1 DEF PlaceInv, FullInv
    <3>5. DirsInv'
      BY <1>2, <3>1, <3>2 DEF DirsInv, Made, UsrDirs
    <3> QED BY <3>3, <3>4, <3>5 DEF FilesInv
  <2>b. CASE ~(Dirs[bootStep.i] \in flash.dirs \/ bootStep.i = LastDir)
    <3>1. /\ bootStep' \in Steps /\ bootStep'.pc = "usrdirs" /\ bootStep'.i = bootStep.i + 1
          /\ bootStep'.group = 3 /\ bootStep.i \in 3 .. 4
      BY <1>0, <1>u, <2>1, <2>b DEF MakesDir, LastDir, Steps
    <3>2. MidGroup'
      BY <3>1 DEF MidGroup
    <3>3. ~bootHist.torn => Made' = {Dirs[3]} \cup (IF bootStep'.i = 5 THEN {Dirs[4]} ELSE {})
      BY <2>1, <2>2, <2>3, <2>m, <2>b, <3>1, NamesDiffer DEF UsrDirs
    <3>4. FilesTypeOK'
      BY <1>0, <1>1, <1>2, <3>1 DEF FilesTypeOK, Steps, Disks, AllDirs, AllFiles, Histories
    <3>5. PlaceInv' /\ FullInv'
      BY <1>2, <3>1 DEF PlaceInv, FullInv
    <3>6. DirsInv'
      BY <1>2, <3>1, <3>2, <3>3 DEF DirsInv
    <3> QED BY <3>4, <3>5, <3>6 DEF FilesInv
  <2> QED BY <2>a, <2>b
<1> QED BY <1>v, <1>u DEF MakesDir

(* The two steps that end a boot early keep the flash, and remember whether *)
(* they did so inside a group.                                              *)
LEMMA FilesCut ==
    ASSUME FilesInv, NEW failed \in BOOLEAN, UNCHANGED flash,
           bootHist' = [torn |-> bootHist.torn \/ MidGroup, failed |-> failed],
           bootStep' \in Steps, ~MidGroup', bootStep'.pc \in {"var", "hid"},
           bootStep'.pc = "hid" => failed, drivers' = {}
    PROVE  FilesInv'
<1> DEFINE t == bootHist.torn \/ MidGroup
<1>1. bootHist \in Histories /\ t \in BOOLEAN
  BY Zenon DEF FilesInv, FilesTypeOK, Histories
<1>2. (~t => ~bootHist.torn /\ ~MidGroup) /\ bootHist' = [torn |-> t, failed |-> failed]
  OBVIOUS
<1> HIDE DEF t
<1>3. bootHist' \in Histories /\ bootHist'.torn = t /\ bootHist'.failed = failed
  BY <1>1, <1>2 DEF Histories
<1>4. FilesTypeOK'
  BY <1>3 DEF FilesInv, FilesTypeOK, Steps, Histories
<1>5. PlaceInv' /\ FullInv'
  BY <1>3 DEF PlaceInv, FullInv
<1>6. Made' = Made
  BY DEF Made
<1>7. DirsInv'
  BY <1>2, <1>3, <1>6 DEF FilesInv, DirsInv
<1> QED BY <1>4, <1>5, <1>7 DEF FilesInv

LEMMA FilesStep == FilesInv /\ [FilesNext]_bootFsVars => FilesInv'
<1> SUFFICES ASSUME FilesInv, [FilesNext]_bootFsVars PROVE FilesInv'
  OBVIOUS
<1>0. /\ bootStep \in Steps /\ flash \in Disks /\ bootHist \in Histories
      /\ drivers \subseteq {"drv_main", "nut_main"}
  BY FilesTypes DEF FilesInv
<1>t. ASSUME bootStep' \in Steps, flash' \in Disks, UNCHANGED bootHist,
             drivers' \subseteq {"drv_main", "nut_main"}
      PROVE  FilesTypeOK'
  BY <1>0, <1>t DEF FilesTypeOK, Steps, Disks, AllDirs, AllFiles, Histories
<1>1. CASE UNCHANGED bootFsVars
  BY <1>1 DEF bootFsVars, FilesInv, FilesTypeOK, PlaceInv, FullInv, DirsInv, MidGroup, Made
<1>2. CASE MountsVar
  <2>1. bootStep' \in Steps /\ bootStep'.pc = "vardirs" /\ bootStep'.i = 1 /\ bootStep'.group = 1 /\ ~MidGroup'
    BY <1>2, GoesTo DEF MountsVar
  <2>2. flash' \in Disks /\ Made' = Made
    BY <1>0, <1>2, FormatsOne DEF MountsVar, Made
  <2>3. drivers' = drivers /\ drivers = {} /\ bootHist' = bootHist
    BY <1>2 DEF MountsVar, FilesInv, PlaceInv
  <2>4. PlaceInv' /\ FullInv'
    BY <2>1, <2>3 DEF PlaceInv, FullInv
  <2>5. DirsInv'
    BY <1>2, <2>1, <2>2, <2>3 DEF MountsVar, FilesInv, DirsInv, MidGroup
  <2> QED BY <1>t, <2>1, <2>2, <2>3, <2>4, <2>5 DEF FilesInv
<1>3. CASE MountsUsr
  <2>1. bootStep' \in Steps /\ bootStep'.pc = "usrdirs" /\ bootStep'.i = 3 /\ bootStep'.group = 3 /\ ~MidGroup'
    BY <1>3, GoesTo DEF MountsUsr
  <2>2. flash' \in Disks /\ (Made' = Made \/ Made' = {})
    BY <1>0, <1>3, FormatsOne DEF MountsUsr, Made
  <2>3. drivers' = drivers /\ drivers = {} /\ bootHist' = bootHist
    BY <1>3 DEF MountsUsr, FilesInv, PlaceInv
  <2>4. PlaceInv' /\ FullInv'
    BY <2>1, <2>3 DEF PlaceInv, FullInv
  <2>5. DirsInv'
    BY <1>3, <2>1, <2>2, <2>3 DEF MountsUsr, FilesInv, DirsInv, MidGroup
  <2> QED BY <1>t, <2>1, <2>2, <2>3, <2>4, <2>5 DEF FilesInv
<1>4. CASE MakesDir
  BY <1>4, FilesMakesDir
<1>5. CASE OpensFile
  <2>1. /\ flash' \in Disks /\ flash'.dirs = flash.dirs
        /\ flash'.full = flash.full \ {ConfFiles[bootStep.i]}
    BY <1>0, <1>5 DEF OpensFile, Disks
  <2>2. bootStep' \in Steps /\ bootStep'.pc = "write" /\ bootStep'.i = bootStep.i
    BY <1>0, <1>5 DEF OpensFile, Steps
  <2>3. drivers' = drivers /\ drivers = {} /\ bootHist' = bootHist
    BY <1>5 DEF OpensFile, FilesInv, PlaceInv
  <2>4. bootStep.i \in 1 .. 4
    BY <1>5 DEF OpensFile, FilesInv, PlaceInv
  <2>5. PlaceInv'
    BY <2>2, <2>3, <2>4 DEF PlaceInv
  <2>6. FullInv'
    BY <1>5, <2>1, <2>2, <2>4, NamesDiffer DEF OpensFile, FilesInv, FullInv
  <2>7. DirsInv'
    BY <1>5, <2>1, <2>2, <2>3 DEF OpensFile, FilesInv, DirsInv, MidGroup, Made
  <2> QED BY <1>t, <2>1, <2>2, <2>3, <2>5, <2>6, <2>7 DEF FilesInv
<1>6. CASE WritesFile
  <2>4. bootStep.i \in 1 .. 4
    BY <1>6 DEF WritesFile, FilesInv, PlaceInv
  <2>1. /\ flash' \in Disks /\ flash'.dirs = flash.dirs
        /\ flash'.full = flash.full \cup {ConfFiles[bootStep.i]}
    BY <1>0, <1>6, <2>4, NamesDiffer DEF WritesFile, Disks
  <2>2. /\ bootStep' \in Steps /\ ~MidGroup'
        /\ bootStep.i < 4 => bootStep'.pc = "open" /\ bootStep'.i = bootStep.i + 1
        /\ bootStep.i = 4 => bootStep'.pc = "hid"
    BY <1>6, <2>4, GoesTo DEF WritesFile
  <2>3. drivers' = drivers /\ drivers = {} /\ bootHist' = bootHist
    BY <1>6 DEF WritesFile, FilesInv, PlaceInv
  <2>5. PlaceInv'
    BY <2>2, <2>3, <2>4 DEF PlaceInv
  <2>6. FullInv'
    BY <1>6, <2>1, <2>2, <2>4 DEF WritesFile, FilesInv, FullInv
  <2>7. DirsInv'
    BY <1>6, <2>1, <2>2, <2>3, <2>4 DEF WritesFile, FilesInv, DirsInv, MidGroup, Made
  <2> QED BY <1>t, <2>1, <2>2, <2>3, <2>5, <2>6, <2>7 DEF FilesInv
<1>7. CASE MountFails
  <2>1. bootStep' \in Steps /\ bootStep'.pc = "hid" /\ ~MidGroup'
    BY <1>7, GoesTo DEF MountFails
  <2>2. drivers' = {}
    BY <1>7 DEF MountFails, FilesInv, PlaceInv
  <2> QED BY <1>7, <2>1, <2>2, FilesCut DEF MountFails
<1>8. CASE StartsTasks
  <2>1. /\ bootStep' \in Steps /\ ~MidGroup' /\ bootStep'.pc \in {"drv", "upsd", "up"}
        /\ bootStep.pc \in {"hid", "drv", "upsd"}
    BY <1>8, GoesTo DEF StartsTasks
  <2>2. flash' = flash /\ bootHist' = bootHist
    BY <1>8 DEF StartsTasks
  <2>3. drivers' \subseteq {"drv_main", "nut_main"} /\ (drivers' # {} => bootStep'.pc \in {"upsd", "up"})
    <3>1. CASE bootStep.pc = "hid"
      BY <1>0, <1>8, <3>1 DEF StartsTasks, FilesInv, PlaceInv
    <3>2. CASE bootStep.pc = "drv"
      BY <1>0, <1>8, <3>2, GoesTo DEF StartsTasks
    <3>3. CASE bootStep.pc = "upsd"
      BY <1>0, <1>8, <3>3, GoesTo DEF StartsTasks
    <3> QED BY <2>1, <3>1, <3>2, <3>3
  <2>4. PlaceInv'
    BY <2>1, <2>3 DEF PlaceInv
  <2>5. FullInv'
    BY <2>1, <2>2 DEF FilesInv, FullInv
  <2>6. DirsInv'
    BY <2>1, <2>2 DEF FilesInv, DirsInv, MidGroup, Made
  <2> QED BY <1>0, <1>t, <2>1, <2>2, <2>3, <2>4, <2>5, <2>6 DEF FilesInv
<1>9. CASE FilesPowerLoss
  <2>1. bootStep' \in Steps /\ bootStep'.pc = "var" /\ ~MidGroup'
    BY <1>9 DEF FilesPowerLoss, BootStart, Steps, MidGroup
  <2> QED BY <1>9, <2>1, FilesCut DEF FilesPowerLoss
<1> QED BY <1>1, <1>2, <1>3, <1>4, <1>5, <1>6, <1>7, <1>8, <1>9 DEF FilesNext

(* Every boot that gets as far as the drivers gives them complete files, and *)
(* writes them to a directory that is there, unless mountFS failed or some   *)
(* boot was cut off inside a group of directories (mountFS of main.c).       *)
THEOREM FilesAreSafe == FilesSpec => []FilesSafe
<1>1. FilesInv => FilesSafe
  <2> SUFFICES ASSUME FilesInv PROVE FilesSafe
    OBVIOUS
  <2>1. FilesTypeOK
    BY DEF FilesInv
  <2>2. ConfiguredAtStart
    <3> SUFFICES ASSUME drivers # {}, ~bootHist.failed PROVE flash.full = AllFiles
      BY DEF ConfiguredAtStart, AllFiles
    <3>1. flash.full \subseteq AllFiles
      BY <2>1, FilesTypes DEF Disks
    <3>2. \A j \in 1 .. 4 : ConfFiles[j] \in flash.full
      BY DEF FilesInv, PlaceInv, FullInv
    <3> QED BY <3>1, <3>2 DEF AllFiles
  <2>3. DirectoryThere
    BY DEF FilesInv, DirsInv, DirectoryThere
  <2> QED BY <2>1, <2>2, <2>3 DEF FilesSafe
<1> QED BY <1>1, FilesInitially, FilesStep, PTL DEF FilesSpec
=============================================================================
