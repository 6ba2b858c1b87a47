--------------------------- MODULE DriverShutdown ---------------------------
(***************************************************************************)
(* Powering the load down: driver.killpower and shutdown.default from a    *)
(* client, or drivername -k (drivers/main.c); the list of sdcommands, each *)
(* tried until one is handled; and what usbhid-ups makes of a command - a  *)
(* few writes to the device, of which any may fail - with its fallbacks    *)
(* for what the device does not offer (instcmd, setvar, upsdrv_shutdown).  *)
(***************************************************************************)
EXTENDS Integers, Sequences

CONSTANTS
    Names,      \* commands and variables by name, those the device lacks among them
    Offers,     \* what a device may support: sets of names of its HID table
    Custom      \* settings of sdcommands: lists of commands (<< >>: not set)

ASSUME ShutdownAssumption ==
    /\ {"shutdown.return", "shutdown.reboot", "shutdown.stayoff", "shutdown.default", "load.off",
        "load.off.delay", "load.on.delay", "ups.start.auto", "unknown"} \subseteq Names
    /\ Offers \subseteq SUBSET (Names \ {"unknown"}) /\ Custom \subseteq Seq(Names)

VARIABLES
    offer,      \* what this device supports
    custom,     \* sdcommands
    allow,      \* driver.flag.allow_killpower
    handling,   \* handling_upsdrv_shutdown
    exitFlag,   \* exit_flag: "no", "success", "failure"
    job,        \* what is being carried out: [for, outer, inner, writes, cmd]
    answer,     \* what the client was told
    ups         \* the device: the writes tried for this request, and those it accepted

shutdownVars == <<offer, custom, allow, handling, exitFlag, job, answer, ups>>

DeviceWrites == [name : Names, must : BOOLEAN]
Jobs ==
    [for : {"none", "killpower", "forceshutdown", "default"}, outer : Seq(Names), inner : Seq(Names),
     writes : Seq(DeviceWrites), cmd : Names \cup {"none"}]
Devices == [tried : SUBSET Names, accepted : Seq(Names)]

NotAsked == [tried |-> {}, accepted |-> << >>]
Idle == [for |-> "none", outer |-> << >>, inner |-> << >>, writes |-> << >>, cmd |-> "none"]

ShutdownInit ==
    /\ offer \in Offers /\ custom \in Custom
    /\ allow = FALSE /\ handling = 0 /\ exitFlag = "no"
    /\ job = Idle /\ answer = "none"
    /\ ups = NotAsked

-----------------------------------------------------------------------------
(* instcmd of usbhid-ups: the writes to the device a command comes to.      *)
(* setvar of ups.start.auto need not succeed.  "unknown" is a name the      *)
(* device does not have, nor a fallback for it: it always fails.            *)

Must(name) == [name |-> IF name \in offer THEN name ELSE "unknown", must |-> TRUE]
SetAuto == IF "ups.start.auto" \in offer THEN <<[name |-> "ups.start.auto", must |-> FALSE]>> ELSE << >>

WritesOf_OffFirst(cmd) ==
    IF cmd \in {"shutdown.return", "shutdown.stayoff"} \ offer
    THEN SetAuto \o <<Must("load.off.delay"), Must("load.on.delay")>>
    ELSE IF cmd \in {"load.off"} \ offer THEN <<Must("load.off.delay")>>
    ELSE <<Must(cmd)>>
WritesOf(cmd) ==
    IF cmd \in {"shutdown.return", "shutdown.stayoff"} \ offer
    THEN SetAuto \o <<Must("load.on.delay"), Must("load.off.delay")>>
    ELSE IF cmd \in {"load.off"} \ offer THEN <<Must("load.off.delay")>>
    ELSE <<Must(cmd)>>

-----------------------------------------------------------------------------
(* Requests.  The list is sdcommands, or shutdown.default alone. *)

SdCommands == IF custom = << >> THEN <<"shutdown.default">> ELSE custom
ByDefault == <<"shutdown.return", "shutdown.reboot", "load.off.delay", "shutdown.stayoff">>

(* driver.killpower *)
Killpower ==
    /\ job = Idle /\ exitFlag = "no"
    /\ IF allow
       THEN /\ job' = [Idle EXCEPT !.for = "killpower", !.outer = SdCommands]
            /\ handling' = 1 /\ answer' = "none" /\ ups' = NotAsked
       ELSE answer' = "invalid" /\ UNCHANGED <<job, handling, ups>>
    /\ UNCHANGED <<offer, custom, allow, exitFlag>>

(* drivername -k, in a process of its own *)
ForceKill ==
    /\ job = Idle /\ exitFlag = "no"
    /\ job' = [Idle EXCEPT !.for = "forceshutdown", !.outer = SdCommands]
    /\ handling' = 1 /\ answer' = "none" /\ ups' = NotAsked
    /\ UNCHANGED <<offer, custom, allow, exitFlag>>

(* shutdown.default as an instant command: upsdrv_shutdown itself *)
ShutdownDefault ==
    /\ job = Idle /\ exitFlag = "no"
    /\ job' = [Idle EXCEPT !.for = "default", !.inner = ByDefault]
    /\ answer' = "none" /\ ups' = NotAsked
    /\ UNCHANGED <<offer, custom, allow, handling, exitFlag>>

SetAllow(on) ==
    /\ job = Idle /\ allow # on
    /\ allow' = on
    /\ UNCHANGED <<offer, custom, handling, exitFlag, job, answer, ups>>

-----------------------------------------------------------------------------
(* do_loop_shutdown_commands, of the list and (for shutdown.default) of the *)
(* driver's own.                                                            *)

Busy == job # Idle

NextOuter ==
    /\ Busy /\ job.inner = << >> /\ job.writes = << >> /\ job.outer # << >>
    /\ LET cmd == Head(job.outer) IN
       job' = [job EXCEPT !.cmd = cmd, !.outer = Tail(@),
                          !.inner = IF cmd = "shutdown.default" THEN ByDefault ELSE << >>,
                          !.writes = IF cmd = "shutdown.default" THEN << >> ELSE WritesOf(cmd)]
    /\ UNCHANGED <<offer, custom, allow, handling, exitFlag, answer, ups>>
NextInner ==
    /\ Busy /\ job.inner # << >> /\ job.writes = << >>
    /\ job' = [job EXCEPT !.writes = WritesOf(Head(job.inner)), !.inner = Tail(@)]
    /\ UNCHANGED <<offer, custom, allow, handling, exitFlag, answer, ups>>

(* The end: what the client is told (or -k exits with), and how the driver  *)
(* will exit.                                                               *)
Ends(handled) ==
    /\ job' = Idle
    /\ answer' = IF job.for # "forceshutdown" \/ handled THEN "handled" ELSE "invalid"
    /\ exitFlag' = IF handling = 0 THEN exitFlag ELSE IF handled THEN "success" ELSE "failure"

(* A command was handled, or it failed: the loop it belongs to stops, or    *)
(* goes on, or has nothing left.  shutdown.default in a list counts as      *)
(* handled whatever came of it, and overwrites the exit flag.               *)
CommandDone(handled) ==
    LET within == job.for = "default" \/ job.cmd = "shutdown.default"
        left == IF within THEN job.inner ELSE job.outer
    IN  IF handled \/ left = << >>
        THEN Ends(handled \/ (within /\ job.for # "default"))
        ELSE job' = [job EXCEPT !.writes = << >>] /\ UNCHANGED <<answer, exitFlag>>

(* HIDSetDataValue, for the next write *)
WriteAccepted ==
    /\ Busy /\ job.writes # << >> /\ Head(job.writes).name # "unknown"
    /\ LET w == Head(job.writes).name IN
          ups' = [tried |-> ups.tried \cup {w}, accepted |-> Append(ups.accepted, w)]
    /\ IF Len(job.writes) = 1 THEN CommandDone(TRUE)
       ELSE job' = [job EXCEPT !.writes = Tail(@)] /\ UNCHANGED <<answer, exitFlag>>
    /\ UNCHANGED <<offer, custom, allow, handling>>
WriteFails ==
    /\ Busy /\ job.writes # << >>
    /\ IF Head(job.writes).must THEN CommandDone(FALSE)
       ELSE job' = [job EXCEPT !.writes = Tail(@)] /\ UNCHANGED <<answer, exitFlag>>
    /\ ups' = [ups EXCEPT !.tried = @ \cup {Head(job.writes).name}]
    /\ UNCHANGED <<offer, custom, allow, handling>>

ShutdownNext ==
    \/ Killpower \/ ForceKill \/ ShutdownDefault \/ \E on \in BOOLEAN : SetAllow(on)
    \/ NextOuter \/ NextInner \/ WriteAccepted \/ WriteFails

ShutdownSpec == ShutdownInit /\ [][ShutdownNext]_shutdownVars

-----------------------------------------------------------------------------
(* Properties *)

ShutdownTypeOK ==
    /\ offer \in SUBSET Names /\ custom \in Seq(Names) /\ allow \in BOOLEAN /\ handling \in {0, 1}
    /\ exitFlag \in {"no", "success", "failure"} /\ answer \in {"none", "handled", "invalid"}
    /\ job \in Jobs /\ ups \in Devices

Accepted == {ups.accepted[i] : i \in 1 .. Len(ups.accepted)}
SwitchesOff == {"load.off.delay", "shutdown.return", "shutdown.stayoff", "shutdown.reboot"}

(* The list returns STAT_INSTCMD_HANDLED "if one of those was accepted by    *)
(* the device" (main.c:777-779), and the driver exits as successful on it:   *)
(* then the device did accept a command.                                     *)
HandledMeansAccepted ==
    exitFlag = "success" => \E w \in Accepted : w # "ups.start.auto"

(* With the start and the off delay as all it has, the default shutdown does *)
(* not switch a device off before it tried to set its start delay.           *)
OnBeforeOff ==
    (/\ custom = << >> /\ "load.on.delay" \in offer
     /\ offer \cap (SwitchesOff \ {"load.off.delay"}) = {}
     /\ "load.off.delay" \in Accepted) => "load.on.delay" \in ups.tried

(* Once the device accepts to switch off, nothing more is written to it for  *)
(* this request: a later command of the list cannot change how it returns.   *)
OffIsLast ==
    \A i \in 1..Len(ups.accepted) - 1 : ups.accepted[i] \notin SwitchesOff

(* A driver that exits as failed has not switched the device off.            *)
FailureIsHarmless ==
    exitFlag = "failure" => Accepted \cap SwitchesOff = {}

(* A driver asked for shutdown.default alone goes on running.                *)
OnlyKillpowerExits == exitFlag # "no" => handling = 1

(* The shutdown of the load (drivers/main.c:785-1035, usbhid-ups.c:940-1195). *)
ShutdownSafe ==
    ShutdownTypeOK /\ OnBeforeOff /\ OffIsLast /\ FailureIsHarmless /\ OnlyKillpowerExits
=============================================================================
