----------------------------- MODULE UpsStatus -----------------------------
(***************************************************************************)
(* ups.status and ups.alarm of usbhid-ups: status bits gathered from       *)
(* events and walks (process_boolean_info), turned into tokens at the end  *)
(* of each update (ups_status_set, status_commit), and into alarms at a    *)
(* full update only (ups_alarm_set, alarm_commit).  Low and replace        *)
(* battery may be held back for a while, and the warning about discharging *)
(* on line is throttled.                                                   *)
(***************************************************************************)
EXTENDS Integers, FiniteSets

CONSTANTS
    Settings,       \* settings: [calibration, onbattery, delay, always, ignorelb, throttle]
    PollInterval,   \* poll_interval
    PollFreq,       \* pollfreq
    Charges,        \* battery.charge; 0: the device does not report it
    Hover,          \* onlinedischarge_log_throttle_hovercharge; battery.charge.low
    MaxTime         \* bound: the clock

ASSUME StatusAssumption ==
    /\ PollInterval \in Nat /\ PollFreq \in Nat /\ MaxTime \in Nat
    /\ Charges \subseteq Nat /\ Hover \in Nat
    /\ Settings \subseteq [calibration : BOOLEAN, onbattery : BOOLEAN, delay : Int, always : BOOLEAN,
                           ignorelb : BOOLEAN, throttle : Int]

VARIABLES
    set,        \* the settings of this driver
    now,        \* time()
    hd,         \* the device is open
    poll,       \* [last, changed]: lastpoll, data_has_changed
    since,      \* [lb, rb]: last_lb_start, last_rb_start; 0: unset
    warn,       \* [at, charge, sec]: onlinedischarge_log_throttle_*; again: repeated too soon
    active,     \* alarm_active
    stale,      \* dstate's stale
    pub,        \* what clients see: ups.status and ups.alarm
    held        \* history: since when updates withhold LB (0: they do not), ever too long

statusVars == <<set, now, hd, poll, since, warn, active, stale, pub, held>>

Bits == {"ONLINE", "DISCHRG", "CALIB", "LOWBATT", "REPLACEBATT"}
AlarmBits == {"REPLACEBATT"}
Words == {"OL", "OB", "CAL", "DISCHRG", "LB", "RB", "ALARM"}
NotHeld == [lb |-> 0, late |-> FALSE]
Nothing == [status |-> {}, alarm |-> {}, bits |-> {}]

StatusInit ==
    /\ set \in Settings
    /\ now = 1 /\ hd = TRUE
    /\ poll = [last |-> 1, changed |-> FALSE]
    /\ since = [lb |-> 0, rb |-> 0]
    /\ warn = [at |-> 0, charge |-> -1, sec |-> set.throttle, again |-> FALSE]
    /\ active = FALSE /\ stale = TRUE
    /\ pub = Nothing
    /\ held = NotHeld

-----------------------------------------------------------------------------
(* ups_status_set and status_commit, for the bits b and the charge c *)

Unmanaged(b) == {"ONLINE", "DISCHRG"} \subseteq b /\ ~set.onbattery /\ ~set.calibration

Line(b) ==
    IF "ONLINE" \notin b THEN {"OB"}
    ELSE IF "DISCHRG" \notin b THEN {"OL"}
    ELSE {t \in {"OB"} : set.onbattery} \cup {t \in {"OL"} : Unmanaged(b)}
Calibrating(b) == "CALIB" \in b \/ ({"ONLINE", "DISCHRG"} \subseteq b /\ set.calibration)

(* LB and RB are reported at once, or when patience expired. *)
Promptly(b) ==
    \/ set.delay < 1
    \/ ~Calibrating(b) /\ ~set.always
    \/ "ONLINE" \notin b
Expired(start) == start # 0 /\ now - start > set.delay

StartedAt(start) == IF start = 0 THEN now ELSE start
LbSince(b) ==
    IF "LOWBATT" \notin b THEN 0
    ELSE IF Promptly(b) THEN since.lb ELSE StartedAt(since.lb)
RbPromptly(b) == Promptly(b) \/ LbSince(b) = 0
RbSince(b) ==
    IF "REPLACEBATT" \notin b THEN 0
    ELSE IF RbPromptly(b) THEN since.rb ELSE StartedAt(since.rb)

Tokens(b, c) ==
    Line(b) \cup {t \in {"CAL"} : Calibrating(b)} \cup {t \in {"DISCHRG"} : t \in b}
    \cup {t \in {"LB"} : IF set.ignorelb THEN c # 0 /\ c < Hover
                         ELSE "LOWBATT" \in b /\ (Promptly(b) \/ Expired(since.lb))}
    \cup {t \in {"RB"} : "REPLACEBATT" \in b /\ (RbPromptly(b) \/ Expired(since.rb))}

(* The warning about OL+DISCHRG: on a changed charge, or after a time.  The *)
(* time is only counted from an earlier warning.                            *)
Seconds(c) == IF c = 0 /\ warn.sec = -2 THEN 30 ELSE warn.sec
Warns(b, c) ==
    /\ Unmanaged(b) /\ "CALIB" \notin b
    /\ \/ c > 0 /\ c # warn.charge /\ c < Hover
       \/ warn.at > 0 /\ Seconds(c) >= 0 /\ now - warn.at >= Seconds(c)
Throttle(b, c) ==
    LET kept == IF "DISCHRG" \in b THEN warn ELSE [warn EXCEPT !.at = 0, !.charge = -1]
        timed == IF Unmanaged(b) /\ "CALIB" \notin b THEN [kept EXCEPT !.sec = Seconds(c)] ELSE kept
        again == warn.at # 0 /\ c \in {0, warn.charge} /\ (Seconds(c) < 0 \/ now - warn.at < Seconds(c))
    IN  IF Warns(b, c)
        THEN [timed EXCEPT !.at = now, !.charge = IF c > 0 THEN c ELSE @, !.again = again]
        ELSE timed

Publish(b, c, full) ==
    /\ active' = IF full THEN b \cap AlarmBits # {} ELSE active
    /\ pub' = [status |-> Tokens(b, c) \cup {t \in {"ALARM"} : active'},
               alarm |-> IF full THEN b \cap AlarmBits ELSE pub.alarm, bits |-> b]
    /\ since' = [lb |-> LbSince(b), rb |-> RbSince(b)]
    /\ warn' = Throttle(b, c)
    /\ LET start == IF "LOWBATT" \in b /\ "LB" \notin Tokens(b, c) THEN StartedAt(held.lb) ELSE 0 IN
       held' = [lb |-> start, late |-> ~set.ignorelb /\ start # 0 /\ now - start > set.delay]

-----------------------------------------------------------------------------
(* upsdrv_updateinfo.  Any read may time out, so that an update sets any of *)
(* the bits; events set bits too.                                           *)

Full == now > poll.last + PollFreq \/ poll.changed
Proceeds == hd \/ now >= poll.last + PollInterval

UpdateDone ==
    /\ Proceeds
    /\ \E b \in SUBSET Bits : \E c \in (IF Unmanaged(b) \/ set.ignorelb THEN Charges ELSE {0}) :
          Publish(b, c, Full)
    /\ hd' = TRUE
    /\ poll' = IF Full THEN [last |-> now, changed |-> FALSE] ELSE poll
    /\ stale' = IF Full THEN FALSE ELSE stale
    /\ UNCHANGED <<set, now>>

(* The device is lost: while events are read, or in the walk, where a full  *)
(* update has already forgotten the alarms.                                 *)
UpdateLost_Polled ==
    /\ Proceeds
    /\ active' = IF Full THEN FALSE ELSE active
    /\ poll' = IF Full THEN [last |-> now, changed |-> FALSE] ELSE poll
    /\ stale' = stale
    /\ hd' = FALSE
    /\ UNCHANGED <<set, now, since, warn, pub, held>>
UpdateLost ==
    /\ Proceeds
    /\ hd' = FALSE /\ stale' = TRUE
    /\ active' \in {active, IF Full THEN FALSE ELSE active}
    /\ UNCHANGED <<set, now, poll, since, warn, pub, held>>

(* It cannot be opened again: the next full update is put off, too. *)
ReconnectRefused ==
    /\ ~hd /\ Proceeds
    /\ poll' = [poll EXCEPT !.last = now]
    /\ stale' = TRUE
    /\ UNCHANGED <<set, now, hd, since, warn, active, pub, held>>

(* The attachment changed: invalidate_replaced_device. *)
DeviceReplaced ==
    /\ hd
    /\ hd' = FALSE /\ stale' = TRUE /\ pub' = Nothing
    /\ poll' = [poll EXCEPT !.last = 0]
    /\ held' = NotHeld
    /\ UNCHANGED <<set, now, since, warn, active>>

(* Stale for five minutes: the values are purged. *)
ValuesPurged ==
    /\ stale /\ pub # Nothing
    /\ pub' = Nothing /\ held' = NotHeld
    /\ UNCHANGED <<set, now, hd, poll, since, warn, active, stale>>

(* instcmd or setvar succeeded *)
DataChanges ==
    /\ hd /\ ~poll.changed
    /\ poll' = [poll EXCEPT !.changed = TRUE]
    /\ UNCHANGED <<set, now, hd, since, warn, active, stale, pub, held>>

ClockTicks ==
    /\ now < MaxTime
    /\ now' = now + 1
    /\ UNCHANGED <<set, hd, poll, since, warn, active, stale, pub, held>>

StatusNext ==
    \/ UpdateDone \/ UpdateLost \/ ReconnectRefused \/ DeviceReplaced
    \/ ValuesPurged \/ DataChanges \/ ClockTicks

StatusSpec == StatusInit /\ [][StatusNext]_statusVars

-----------------------------------------------------------------------------
(* Properties *)

StatusTypeOK ==
    /\ set \in Settings /\ now \in Nat \ {0}
    /\ hd \in BOOLEAN /\ active \in BOOLEAN /\ stale \in BOOLEAN
    /\ poll \in [last : Nat, changed : BOOLEAN]
    /\ since \in [lb : Nat, rb : Nat]
    /\ warn \in [at : Nat, charge : Int, sec : Int, again : BOOLEAN]
    /\ pub \in [status : SUBSET Words, alarm : SUBSET AlarmBits, bits : SUBSET Bits]
    /\ held \in [lb : Nat, late : BOOLEAN]

(* While the data counts as good, ups.status says ALARM exactly if ups.alarm *)
(* is published - although alarms are forgotten before the walk that may     *)
(* fail, and quick updates publish the status without them.                  *)
AlarmAgrees == ~stale => ("ALARM" \in pub.status <=> pub.alarm # {})

(* A UPS off line with a low battery is OB LB in the same update: the delay  *)
(* for calibrating devices does not apply to an actual power failure.        *)
LowBatteryAtOnce ==
    (~set.ignorelb /\ pub # Nothing /\ "LOWBATT" \in pub.bits /\ "ONLINE" \notin pub.bits)
        => {"OB", "LB"} \subseteq pub.status

(* Low battery is not withheld, in consecutive updates, for longer than      *)
(* lbrb_log_delay_sec; nor is replace battery longer than that from the time *)
(* it was first withheld.                                                    *)
HeldBriefly ==
    /\ ~held.late
    /\ ("REPLACEBATT" \in pub.bits /\ "RB" \notin pub.status) => since.rb # 0

(* The warning about OL+DISCHRG is repeated only when the charge changed or  *)
(* onlinedischarge_log_throttle_sec have passed.                             *)
WarningThrottled == ~warn.again

(* The line is reported one way.                                             *)
NotBothLines == ~({"OL", "OB"} \subseteq pub.status)

(* What is published of the state of the UPS (usbhid-ups.c:1378-1527,        *)
(* 2456-2817).                                                               *)
StatusSafe ==
    /\ StatusTypeOK /\ AlarmAgrees /\ LowBatteryAtOnce /\ HeldBriefly /\ WarningThrottled
    /\ NotBothLines
=============================================================================
