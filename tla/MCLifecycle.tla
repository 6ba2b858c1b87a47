----------------------------- MODULE MCLifecycle ------------------------------
(***************************************************************************)
(* What the firmware starts and must bring to an end: the staged image and *)
(* its expiry, the boot of an installed image, the HTTPS server, the       *)
(* captive DNS server and the clients of upsd.  They share no state and    *)
(* their product would show nothing that each alone does not, so a         *)
(* behaviour is one component's: which is chosen at the start, and the     *)
(* others stay as they are.                                                *)
(***************************************************************************)
EXTENDS OtaStage, OtaBoot, HttpsStart, DnsServer, UpsdClients

Queries == {"query"}

VARIABLE which

lifecycleVars == <<which, stageVars, bootVars, httpsVars, dnsVars, vars>>

LifecycleInit ==
    /\ which \in {"stage", "boot", "https", "dns", "upsd"}
    /\ StageInit /\ BootInit /\ HttpsInit /\ DnsInit /\ Init

LifecycleNext ==
    /\ UNCHANGED which
    /\ \/ which = "stage" /\ StageNext /\ UNCHANGED <<bootVars, httpsVars, dnsVars, vars>>
       \/ which = "boot" /\ BootNext /\ UNCHANGED <<stageVars, httpsVars, dnsVars, vars>>
       \/ which = "https" /\ HttpsNext /\ UNCHANGED <<stageVars, bootVars, dnsVars, vars>>
       \/ which = "dns" /\ DnsNext /\ UNCHANGED <<stageVars, bootVars, httpsVars, vars>>
       \/ which = "upsd" /\ Next /\ UNCHANGED <<stageVars, bootVars, httpsVars, dnsVars>>

(* Each component's own fairness, of the one that was chosen.  The actions  *)
(* of HttpsFairness, DnsFairness and RebootFires are not enabled initially. *)
LifecycleSpec ==
    /\ LifecycleInit /\ [][LifecycleNext]_lifecycleVars
    /\ WF_stageVars(which = "stage" /\ RequestSteps)
    /\ WF_stageVars(which = "stage" /\ CallbackSteps)
    /\ WF_stageVars(which = "stage" /\ TimerFires)
    /\ WF_stageVars(which = "stage" /\ StageTick)
    /\ WF_bootVars(RebootFires)
    /\ HttpsFairness /\ DnsFairness
    /\ WF_vars(which = "upsd" /\ Upsd) /\ SF_vars(which = "upsd" /\ Tick)

(* What a task was started for is done in the end: the restart after an      *)
(* answered install (OtaBoot), an attempt to start the HTTPS server          *)
(* (HttpsStart), and the release of a stopped DNS server (DnsServer).        *)
TasksEnd == AnswerRestarts /\ StartCanRepeat /\ StoppedIsFreed
=============================================================================
