----------------------------- MODULE DriverProofs -----------------------------
(***************************************************************************)
(* A driver beside its polls: the status it makes of the values            *)
(* (UpsStatus), the shutdown of the UPS (DriverShutdown), and the dialog   *)
(* of a running instance with a later one (DriverQuery).  Each part has    *)
(* its inductive invariant, a lemma for each action, and its theorem.      *)
(***************************************************************************)
EXTENDS UpsStatus, DriverShutdown, DriverQuery, TLAPS

(* Facts about sequences, for any sequences: the solver knows them of single  *)
(* ones, and the proofs below cite them by name.                              *)

(* The empty sequence, and what is not it. *)
LEMMA EmptySeq ==
    ASSUME NEW S
    PROVE  /\ << >> \in Seq(S)
           /\ Len(<< >>) = 0
           /\ \A s \in Seq(S) : s # << >> => Len(s) \in Nat \ {0}
OBVIOUS

(* Sequences with the same elements are equal. *)
LEMMA SeqEqual ==
    ASSUME NEW S, NEW s \in Seq(S), NEW t \in Seq(S),
           Len(s) = Len(t), \A i \in 1..Len(s) : s[i] = t[i]
    PROVE  s = t
OBVIOUS

(* What is in a concatenation, and where. *)
LEMMA ConcatProperties ==
    ASSUME NEW S, NEW s \in Seq(S), NEW t \in Seq(S)
    PROVE  /\ s \o t \in Seq(S)
           /\ Len(s \o t) = Len(s) + Len(t)
           /\ \A i \in 1..Len(s) + Len(t) :
                 (s \o t)[i] = IF i <= Len(s) THEN s[i] ELSE t[i - Len(s)]
OBVIOUS

(* What is in a part of a sequence, and where. *)
LEMMA SubSeqProperties ==
    ASSUME NEW S, NEW s, NEW m \in Int, NEW n \in Int, \A i \in m..n : s[i] \in S
    PROVE  /\ SubSeq(s, m, n) \in Seq(S)
           /\ Len(SubSeq(s, m, n)) = IF m <= n THEN n - m + 1 ELSE 0
           /\ \A i \in 1..n - m + 1 : SubSeq(s, m, n)[i] = s[m + i - 1]
OBVIOUS

(* The first element and the rest. *)
LEMMA HeadTailProperties ==
    ASSUME NEW S, NEW s \in Seq(S), s # << >>
    PROVE  /\ Head(s) \in S
           /\ Tail(s) \in Seq(S)
           /\ Len(Tail(s)) = Len(s) - 1
           /\ \A i \in 1..Len(Tail(s)) : Tail(s)[i] = s[i + 1]
OBVIOUS

(* One element more. *)
LEMMA AppendProperties ==
    ASSUME NEW S, NEW s \in Seq(S), NEW e \in S
    PROVE  /\ Append(s, e) \in Seq(S)
           /\ Append(s, e) # << >>
           /\ Len(Append(s, e)) = Len(s) + 1
           /\ \A i \in 1..Len(s) : Append(s, e)[i] = s[i]
           /\ Append(s, e)[Len(s) + 1] = e
OBVIOUS

-----------------------------------------------------------------------------
(* alarm_active and ups.alarm agree unless the data is stale; and while low  *)
(* battery is withheld its delay runs, from no later than the first update   *)
(* that withheld it.                                                         *)
AlarmInv == ~stale => (active <=> pub.alarm # {}) /\ (active <=> "ALARM" \in pub.status)
DelayInv ==
    /\ since.lb <= now /\ held.lb <= now
    /\ ~set.ignorelb /\ held.lb # 0 => since.lb # 0 /\ since.lb <= held.lb
StatusInv ==
    /\ StatusTypeOK /\ AlarmInv /\ DelayInv
    /\ LowBatteryAtOnce /\ HeldBriefly /\ WarningThrottled /\ NotBothLines

LEMMA StatusInits == StatusInit => StatusInv
<1> SUFFICES ASSUME StatusInit PROVE StatusInv
  OBVIOUS
<1>1. set \in Settings /\ set.throttle \in Int
  BY StatusAssumption DEF StatusInit
<1>m. -1 \in Int /\ 0 \in Nat /\ 1 \in Nat \ {0}
  OBVIOUS
<1>2. StatusTypeOK
  <2>1. warn \in [at : Nat, charge : Int, sec : Int, again : BOOLEAN]
    BY <1>1, <1>m DEF StatusInit
  <2>2. poll \in [last : Nat, changed : BOOLEAN] /\ since \in [lb : Nat, rb : Nat]
    BY <1>m DEF StatusInit
  <2>3. /\ pub \in [status : SUBSET Words, alarm : SUBSET AlarmBits, bits : SUBSET Bits]
        /\ held \in [lb : Nat, late : BOOLEAN]
    BY <1>m DEF StatusInit, Nothing, NotHeld
  <2> QED BY Zenon, <1>1, <1>m, <2>1, <2>2, <2>3 DEF StatusInit, StatusTypeOK
<1>3. pub.status = {} /\ pub.alarm = {} /\ pub.bits = {} /\ held.lb = 0 /\ held.late = FALSE
      /\ since.lb = 0 /\ warn.again = FALSE /\ now = 1
  BY DEF StatusInit, Nothing, NotHeld
<1> QED BY <1>2, <1>3 DEF StatusInit, StatusInv, AlarmInv, DelayInv, LowBatteryAtOnce, HeldBriefly,
                          WarningThrottled, NotBothLines

-----------------------------------------------------------------------------
(* One update *)

(* The words of a status, one by one. *)
LEMMA TokensAre ==
    ASSUME NEW b \in SUBSET Bits, NEW c \in Nat
    PROVE /\ Tokens(b, c) \subseteq Words \ {"ALARM"}
          /\ ~({"OL", "OB"} \subseteq Tokens(b, c))
          /\ "ONLINE" \notin b => "OB" \in Tokens(b, c)
          /\ ~set.ignorelb => ("LB" \in Tokens(b, c) <=> "LOWBATT" \in b /\ (Promptly(b) \/ Expired(since.lb)))
          /\ "RB" \in Tokens(b, c) <=> "REPLACEBATT" \in b /\ (RbPromptly(b) \/ Expired(since.rb))
<1>1. Line(b) \subseteq {"OB", "OL"} /\ ~({"OL", "OB"} \subseteq Line(b))
  BY DEF Line, Unmanaged
<1>2. "ONLINE" \notin b => "OB" \in Line(b)
  BY DEF Line
<1>3. /\ Tokens(b, c) \subseteq Words \ {"ALARM"}
      /\ ~({"OL", "OB"} \subseteq Tokens(b, c))
      /\ "ONLINE" \notin b => "OB" \in Tokens(b, c)
  BY <1>1, <1>2 DEF Tokens, Words
<1>4. ~set.ignorelb => ("LB" \in Tokens(b, c) <=> "LOWBATT" \in b /\ (Promptly(b) \/ Expired(since.lb)))
  BY <1>1 DEF Tokens
<1>5. "RB" \in Tokens(b, c) <=> "REPLACEBATT" \in b /\ (RbPromptly(b) \/ Expired(since.rb))
  BY <1>1 DEF Tokens
<1> QED BY <1>3, <1>4, <1>5

(* The warning is not repeated too soon. *)
LEMMA ThrottleType ==
    ASSUME StatusTypeOK, WarningThrottled, NEW b \in SUBSET Bits, NEW c \in Nat
    PROVE /\ Throttle(b, c) \in [at : Nat, charge : Int, sec : Int, again : BOOLEAN]
          /\ ~Throttle(b, c).again
<1> DEFINE Warnings == [at : Nat, charge : Int, sec : Int, again : BOOLEAN]
           kept == IF "DISCHRG" \in b THEN warn ELSE [warn EXCEPT !.at = 0, !.charge = -1]
           timed == IF Unmanaged(b) /\ "CALIB" \notin b THEN [kept EXCEPT !.sec = Seconds(c)] ELSE kept
           again == warn.at # 0 /\ c \in {0, warn.charge} /\ (Seconds(c) < 0 \/ now - warn.at < Seconds(c))
<1>1. warn \in Warnings /\ Seconds(c) \in Int /\ now \in Nat
  BY DEF StatusTypeOK, Seconds
<1>m. -1 \in Int /\ 0 \in Nat
  OBVIOUS
<1>2. kept \in Warnings /\ kept.again = warn.again
  <2>1. [warn EXCEPT !.at = 0, !.charge = -1] \in Warnings
    BY Zenon, <1>1, <1>m
  <2>2. [warn EXCEPT !.at = 0, !.charge = -1].again = warn.again
    BY <1>1
  <2> QED BY <1>1, <2>1, <2>2
<1>3. timed \in Warnings /\ timed.again = warn.again
  BY <1>1, <1>2
<1>4. Warns(b, c) => again = FALSE
  BY <1>1 DEF Warns
<1>5. warn.again = FALSE
  BY <1>1 DEF WarningThrottled
<1>6. Throttle(b, c) = IF Warns(b, c)
          THEN [timed EXCEPT !.at = now, !.charge = IF c > 0 THEN c ELSE @, !.again = again]
          ELSE timed
  BY DEF Throttle
<1> HIDE DEF kept, timed, again
<1>7. CASE Warns(b, c)
  <2>1. Throttle(b, c) = [timed EXCEPT !.at = now, !.charge = IF c > 0 THEN c ELSE @, !.again = FALSE]
    BY Zenon, <1>4, <1>6, <1>7
  <2>2. (IF c > 0 THEN c ELSE timed.charge) \in Int
    BY <1>3
  <2> QED BY Zenon, <1>1, <1>3, <2>1, <2>2
<1>8. CASE ~Warns(b, c)
  BY <1>3, <1>5, <1>6, <1>8
<1> QED BY <1>7, <1>8

LEMMA PublishKeeps ==
    ASSUME StatusInv, NEW b \in SUBSET Bits, NEW c \in Nat, NEW full \in BOOLEAN, Publish(b, c, full),
           hd' \in BOOLEAN, poll' \in [last : Nat, changed : BOOLEAN],
           stale' = IF full THEN FALSE ELSE stale, UNCHANGED <<set, now>>
    PROVE StatusInv'
<1> DEFINE tokens == Tokens(b, c)
           start == IF "LOWBATT" \in b /\ "LB" \notin tokens THEN StartedAt(held.lb) ELSE 0
           late == ~set.ignorelb /\ start # 0 /\ now - start > set.delay
<1>0. StatusTypeOK
  BY DEF StatusInv
<1>1. /\ tokens \subseteq Words \ {"ALARM"} /\ ~({"OL", "OB"} \subseteq tokens)
      /\ "ONLINE" \notin b => "OB" \in tokens
      /\ ~set.ignorelb => ("LB" \in tokens <=> "LOWBATT" \in b /\ (Promptly(b) \/ Expired(since.lb)))
      /\ "RB" \in tokens <=> "REPLACEBATT" \in b /\ (RbPromptly(b) \/ Expired(since.rb))
  BY TokensAre
<1>2. active' \in BOOLEAN /\ active' = IF full THEN b \cap AlarmBits # {} ELSE active
  <2>1. active' = IF full THEN b \cap AlarmBits # {} ELSE active
    BY DEF Publish
  <2> QED BY Zenon, <1>0, <2>1 DEF StatusTypeOK
<1>3. /\ pub'.status = tokens \cup {t \in {"ALARM"} : active'}
      /\ pub'.alarm = IF full THEN b \cap AlarmBits ELSE pub.alarm
      /\ pub'.bits = b
      /\ pub' = [status |-> pub'.status, alarm |-> pub'.alarm, bits |-> pub'.bits]
  BY DEF Publish
<1>4. since' = [lb |-> LbSince(b), rb |-> RbSince(b)] /\ since'.lb = LbSince(b) /\ since'.rb = RbSince(b)
  BY DEF Publish
<1>5. warn' \in [at : Nat, charge : Int, sec : Int, again : BOOLEAN] /\ ~warn'.again
  BY <1>0, ThrottleType DEF Publish, StatusInv
<1>6. held' = [lb |-> start, late |-> late] /\ held'.lb = start /\ held'.late = late
  BY DEF Publish
<1>t. late \in BOOLEAN
  BY Zenon
<1>s. start = IF "LOWBATT" \in b /\ "LB" \notin tokens THEN StartedAt(held.lb) ELSE 0
  OBVIOUS
<1>l. late = (~set.ignorelb /\ start # 0 /\ now - start > set.delay)
  OBVIOUS
<1> HIDE DEF tokens, start, late
<1>7. set.delay \in Int /\ now \in Nat \ {0} /\ since.lb \in Nat /\ since.rb \in Nat /\ held.lb \in Nat
  BY <1>0, StatusAssumption DEF StatusTypeOK
<1>8. LbSince(b) \in Nat /\ RbSince(b) \in Nat /\ start \in Nat
  BY <1>7, <1>s DEF LbSince, RbSince, StartedAt
<1>9. StatusTypeOK'
  <2>1. pub' \in [status : SUBSET Words, alarm : SUBSET AlarmBits, bits : SUBSET Bits]
    <3>1. pub'.status \in SUBSET Words
      BY <1>1, <1>3 DEF Words
    <3>2. pub'.alarm \in SUBSET AlarmBits
      BY <1>0, <1>3 DEF StatusTypeOK
    <3> QED BY <1>3, <3>1, <3>2
  <2>2. held' \in [lb : Nat, late : BOOLEAN]
    BY <1>6, <1>8, <1>t
  <2>3. since' \in [lb : Nat, rb : Nat]
    BY <1>4, <1>8
  <2>4. stale' \in BOOLEAN
    BY Zenon, <1>0 DEF StatusTypeOK
  <2> QED BY Zenon, <1>0, <1>2, <1>5, <2>1, <2>2, <2>3, <2>4 DEF StatusTypeOK
<1>10. AlarmInv'
  <2>1. "ALARM" \in pub'.status <=> active'
    BY <1>1, <1>2, <1>3
  <2> QED BY <1>2, <1>3, <2>1 DEF StatusInv, AlarmInv
<1>11. "LOWBATT" \in b /\ "LB" \notin tokens /\ ~set.ignorelb =>
          /\ set.delay >= 1 /\ LbSince(b) = StartedAt(since.lb)
          /\ since.lb # 0 => now - since.lb <= set.delay
  BY <1>1, <1>7 DEF Promptly, Expired, LbSince
<1>12. DelayInv' /\ late = FALSE
  <2>1. since.lb <= now /\ held.lb <= now
        /\ (~set.ignorelb /\ held.lb # 0 => since.lb # 0 /\ since.lb <= held.lb)
    BY DEF StatusInv, DelayInv
  <2>2. LbSince(b) <= now /\ start <= now
    BY <1>7, <1>s, <2>1 DEF LbSince, StartedAt
  <2>3. ~set.ignorelb /\ start # 0 => LbSince(b) # 0 /\ LbSince(b) <= start
    BY <1>7, <1>11, <1>s, <2>1 DEF StartedAt
  <2>4. ~set.ignorelb /\ start # 0 => ~(now - start > set.delay)
    BY <1>7, <1>11, <1>s, <2>1 DEF StartedAt
  <2> QED BY Zenon, <1>4, <1>6, <1>l, <1>t, <2>2, <2>3, <2>4 DEF DelayInv
<1>13. LowBatteryAtOnce'
  <2>1. "LOWBATT" \in b /\ "ONLINE" \notin b /\ ~set.ignorelb => {"OB", "LB"} \subseteq tokens
    BY <1>1 DEF Promptly
  <2> QED BY <1>3, <2>1 DEF LowBatteryAtOnce
<1>14. HeldBriefly'
  <2>1. "REPLACEBATT" \in b /\ "RB" \notin tokens => RbSince(b) # 0
    BY <1>1, <1>7 DEF RbSince, StartedAt
  <2>2. "RB" \notin pub'.status => "RB" \notin tokens
    BY <1>3
  <2> QED BY <1>3, <1>4, <1>6, <1>12, <2>1, <2>2 DEF HeldBriefly
<1>15. NotBothLines'
  BY <1>1, <1>3 DEF NotBothLines
<1> QED BY <1>5, <1>9, <1>10, <1>12, <1>13, <1>14, <1>15 DEF StatusInv, WarningThrottled

-----------------------------------------------------------------------------
(* The steps *)

LEMMA UpdateDoneKeeps == StatusInv /\ UpdateDone => StatusInv'
<1> SUFFICES ASSUME StatusInv, UpdateDone PROVE StatusInv'
  OBVIOUS
<1> DEFINE full == Full
<1>0. StatusTypeOK
  BY DEF StatusInv
<1>1. PICK b \in SUBSET Bits :
         \E c \in (IF Unmanaged(b) \/ set.ignorelb THEN Charges ELSE {0}) : Publish(b, c, full)
  BY DEF UpdateDone
<1>2. PICK c \in Nat : Publish(b, c, full)
  BY <1>1, StatusAssumption
<1>3. full \in BOOLEAN
  BY <1>0 DEF Full, StatusTypeOK
<1>4. poll' \in [last : Nat, changed : BOOLEAN] /\ hd' \in BOOLEAN
  BY <1>0 DEF UpdateDone, StatusTypeOK
<1>5. stale' = (IF full THEN FALSE ELSE stale) /\ UNCHANGED <<set, now>>
  BY DEF UpdateDone
<1> HIDE DEF full
<1> QED BY Zenon, <1>2, <1>3, <1>4, <1>5, PublishKeeps

(* What the other steps leave of the published status. *)
LEMMA OthersKeep ==
    ASSUME StatusInv,
           UpdateLost \/ ReconnectRefused \/ DeviceReplaced \/ ValuesPurged \/ DataChanges \/ ClockTicks
    PROVE StatusInv'
<1>0. StatusTypeOK
  BY DEF StatusInv
<1>1. UNCHANGED <<set, since, warn>> /\ now' \in {now, now + 1}
  BY Zenon DEF UpdateLost, ReconnectRefused, DeviceReplaced, ValuesPurged, DataChanges, ClockTicks
<1>2. (pub' = pub /\ held' = held) \/ (pub' = Nothing /\ held' = NotHeld)
  BY Zenon DEF UpdateLost, ReconnectRefused, DeviceReplaced, ValuesPurged, DataChanges, ClockTicks
<1>3. stale' \/ (stale' = stale /\ active' = active /\ pub' = pub)
  <2>1. CASE UpdateLost \/ ReconnectRefused \/ DeviceReplaced
    BY Zenon, <2>1 DEF UpdateLost, ReconnectRefused, DeviceReplaced
  <2>2. CASE ValuesPurged
    BY <2>2 DEF ValuesPurged
  <2>3. CASE DataChanges \/ ClockTicks
    BY <2>3 DEF DataChanges, ClockTicks
  <2> QED BY <2>1, <2>2, <2>3
<1>4. /\ Nothing \in [status : SUBSET Words, alarm : SUBSET AlarmBits, bits : SUBSET Bits]
      /\ NotHeld \in [lb : Nat, late : BOOLEAN]
      /\ Nothing.status = {} /\ Nothing.bits = {} /\ NotHeld.lb = 0 /\ NotHeld.late = FALSE
  BY DEF Nothing, NotHeld
<1>5. now' \in Nat \ {0} /\ now <= now'
  BY <1>0, <1>1 DEF StatusTypeOK
<1>6. poll' \in [last : Nat, changed : BOOLEAN]
  <2>1. CASE UNCHANGED poll
    BY <1>0, <2>1 DEF StatusTypeOK
  <2>2. CASE ReconnectRefused \/ DeviceReplaced
    <3>1. poll' = [poll EXCEPT !.last = now] \/ poll' = [poll EXCEPT !.last = 0]
      BY <2>2 DEF ReconnectRefused, DeviceReplaced
    <3> QED BY <1>0, <3>1 DEF StatusTypeOK
  <2>3. CASE DataChanges
    BY Zenon, <1>0, <2>3 DEF StatusTypeOK, DataChanges
  <2> QED BY Zenon, <2>1, <2>2, <2>3 DEF UpdateLost, ValuesPurged, ClockTicks
<1>7. hd' \in BOOLEAN /\ active' \in BOOLEAN /\ stale' \in BOOLEAN
  BY Zenon, <1>0
     DEF StatusTypeOK, UpdateLost, ReconnectRefused, DeviceReplaced, ValuesPurged, DataChanges,
              ClockTicks
<1>8. StatusTypeOK'
  BY <1>0, <1>1, <1>2, <1>4, <1>5, <1>6, <1>7 DEF StatusTypeOK
<1>9. AlarmInv'
  BY <1>3 DEF StatusInv, AlarmInv
<1>10. DelayInv'
  BY <1>0, <1>1, <1>2, <1>4, <1>5 DEF StatusInv, DelayInv, StatusTypeOK
<1>11. LowBatteryAtOnce' /\ NotBothLines'
  BY <1>1, <1>2, <1>4 DEF StatusInv, LowBatteryAtOnce, NotBothLines
<1>12. HeldBriefly' /\ WarningThrottled'
  BY <1>1, <1>2, <1>4 DEF StatusInv, HeldBriefly, WarningThrottled
<1> QED BY <1>8, <1>9, <1>10, <1>11, <1>12 DEF StatusInv

(* ups.status and ups.alarm of usbhid-ups, for all settings, poll            *)
(* intervals, charges and clocks (drivers/usbhid-ups.c, upsdrv_updateinfo    *)
(* and ups_status_set): they agree about alarms while the data is good, a    *)
(* low battery off line is reported in the same update, no longer withheld   *)
(* than the delay, the warning is throttled and one line is reported.        *)
THEOREM StatusIsSafe == StatusSpec => []StatusSafe
<1>1. StatusInit => StatusInv
  BY StatusInits
<1>2. StatusInv /\ [StatusNext]_statusVars => StatusInv'
  <2> SUFFICES ASSUME StatusInv, [StatusNext]_statusVars PROVE StatusInv'
    OBVIOUS
  <2>1. CASE UNCHANGED statusVars
    BY <2>1
       DEF statusVars, StatusInv, StatusTypeOK, AlarmInv, DelayInv, LowBatteryAtOnce, HeldBriefly,
                WarningThrottled, NotBothLines
  <2>2. CASE StatusNext
    BY <2>2, UpdateDoneKeeps, OthersKeep DEF StatusNext
  <2> QED BY <2>1, <2>2
<1>3. StatusInv => StatusSafe
  BY DEF StatusInv, AlarmInv, AlarmAgrees, StatusSafe
<1> QED BY <1>1, <1>2, <1>3, PTL DEF StatusSpec

-----------------------------------------------------------------------------
(* While a request is carried out the device has not been switched off and   *)
(* no end of the driver is decided; and of the writes of a command only the  *)
(* last one can switch it off.                                               *)
BusyInv == job # Idle => job.for # "none" /\ exitFlag = "no" /\ Accepted \cap SwitchesOff = {}
LastOff(writes) == \A i \in 1 .. Len(writes) - 1 : writes[i].name \notin SwitchesOff

(* A device with the two delays alone: until the start delay was tried the   *)
(* default shutdown is on its way there.                                     *)
OnlyDelays ==
    /\ custom = << >> /\ "load.on.delay" \in offer
    /\ offer \cap (SwitchesOff \ {"load.off.delay"}) = {}
On == Must("load.on.delay")
Off == Must("load.off.delay")
Again == [name |-> "ups.start.auto", must |-> FALSE]
OnFirst ==
    OnlyDelays /\ job # Idle =>
        \/ "load.on.delay" \in ups.tried
        \/ job.writes = << >> /\ job.inner = ByDefault
        \/ job.writes = << >> /\ job.inner = << >> /\ job.outer = <<"shutdown.default">>
        \/ job.writes = <<On, Off>>
        \/ job.writes = <<Again, On, Off>>

ShutdownInv ==
    /\ ShutdownTypeOK /\ BusyInv /\ LastOff(job.writes) /\ OnFirst
    /\ OnBeforeOff /\ OffIsLast /\ FailureIsHarmless /\ OnlyKillpowerExits

-----------------------------------------------------------------------------
(* Commands and their writes *)

LEMMA IdleFields ==
    /\ Idle \in Jobs /\ Idle.for = "none" /\ Idle.writes = << >>
    /\ NotAsked \in Devices /\ NotAsked.tried = {} /\ NotAsked.accepted = << >>
<1>1. /\ << >> \in Seq(Names) /\ << >> \in Seq(DeviceWrites)
  BY EmptySeq
<1> QED BY <1>1, ShutdownAssumption DEF Idle, Jobs, NotAsked, Devices

LEMMA MustFields ==
    ASSUME NEW n \in Names
    PROVE Must(n) \in DeviceWrites /\ Must(n).must = TRUE /\ Must(n).name \in {n, "unknown"}
          /\ (n \in offer => Must(n).name = n)
<1> QED BY ShutdownAssumption DEF Must, DeviceWrites

LEMMA Concat12 == ASSUME NEW a, NEW b, NEW c PROVE <<a>> \o <<b, c>> = <<a, b, c>>
<1> DEFINE S == {a, b, c}
           s == <<a>>
           t == <<b, c>>
           u == <<a, b, c>>
<1>1. s \in Seq(S) /\ t \in Seq(S) /\ u \in Seq(S) /\ Len(s) = 1 /\ Len(t) = 2 /\ Len(u) = 3
  OBVIOUS
<1>2. s[1] = a /\ t[1] = b /\ t[2] = c /\ u[1] = a /\ u[2] = b /\ u[3] = c
  OBVIOUS
<1> HIDE DEF S, s, t, u
<1>p. /\ s \o t \in Seq(S) /\ Len(s \o t) = Len(s) + Len(t)
      /\ \A i \in 1 .. Len(s) + Len(t) : (s \o t)[i] = IF i <= Len(s) THEN s[i] ELSE t[i - Len(s)]
  BY Zenon, <1>1, ConcatProperties
<1>3. /\ s \o t \in Seq(S) /\ Len(s \o t) = 3
      /\ \A i \in 1 .. 3 : (s \o t)[i] = IF i <= 1 THEN s[i] ELSE t[i - 1]
  BY <1>1, <1>p
<1>4. \A i \in 1 .. 3 : (s \o t)[i] = u[i]
  BY <1>2, <1>3
<1>5. s \o t = u
  BY <1>1, <1>3, <1>4, SeqEqual
<1> QED BY <1>5 DEF s, t, u

LEMMA SetAutoFirst ==
    SetAuto \o <<On, Off>> = IF "ups.start.auto" \in offer THEN <<Again, On, Off>> ELSE <<On, Off>>
<1>1. CASE "ups.start.auto" \in offer
  <2>1. SetAuto = <<Again>>
    BY Zenon, <1>1 DEF SetAuto, Again
  <2>2. <<Again>> \o <<On, Off>> = <<Again, On, Off>>
    BY Concat12
  <2> QED BY <1>1, <2>1, <2>2
<1>2. CASE "ups.start.auto" \notin offer
  <2>1. SetAuto = << >>
    BY <1>2 DEF SetAuto
  <2> HIDE DEF On, Off
  <2>2. << >> \o <<On, Off>> = <<On, Off>>
    OBVIOUS
  <2> QED BY <1>2, <2>1, <2>2
<1> QED BY Zenon, <1>1, <1>2

LEMMA WritesType ==
    ASSUME NEW c \in Names
    PROVE WritesOf(c) \in Seq(DeviceWrites) /\ LastOff(WritesOf(c))
<1>1. /\ On \in DeviceWrites /\ On.name \in {"load.on.delay", "unknown"}
      /\ Off \in DeviceWrites /\ Again \in DeviceWrites /\ Again.name = "ups.start.auto"
      /\ Must(c) \in DeviceWrites
  <2> DEFINE n == "load.on.delay"
             f == "load.off.delay"
  <2>1. n \in Names /\ f \in Names /\ "ups.start.auto" \in Names
    BY ShutdownAssumption
  <2>2. On = Must(n) /\ Off = Must(f) /\ n = "load.on.delay"
    BY DEF On, Off
  <2>3. Again \in DeviceWrites /\ Again.name = "ups.start.auto"
    BY <2>1 DEF Again, DeviceWrites
  <2> HIDE DEF n, f
  <2> QED BY Zenon, <2>1, <2>2, <2>3, MustFields
<1>2. \/ WritesOf(c) = <<Again, On, Off>> \/ WritesOf(c) = <<On, Off>>
      \/ WritesOf(c) = <<Off>> \/ WritesOf(c) = <<Must(c)>>
  BY Zenon, SetAutoFirst DEF WritesOf, On, Off
<1> HIDE DEF On, Off, Again
<1>3. On.name \notin SwitchesOff /\ Again.name \notin SwitchesOff
  BY <1>1 DEF SwitchesOff
<1>4. CASE WritesOf(c) = <<Again, On, Off>>
  BY <1>1, <1>3, <1>4 DEF LastOff
<1>5. CASE WritesOf(c) = <<On, Off>>
  BY <1>1, <1>3, <1>5 DEF LastOff
<1>6. CASE WritesOf(c) = <<Off>>
  BY <1>1, <1>6 DEF LastOff
<1>7. CASE WritesOf(c) = <<Must(c)>>
  <2> DEFINE m == Must(c)
  <2>1. m \in DeviceWrites /\ WritesOf(c) = <<m>>
    BY <1>1, <1>7
  <2> HIDE DEF m
  <2> QED BY <2>1 DEF LastOff
<1> QED BY <1>2, <1>4, <1>5, <1>6, <1>7

(* What the end of a command does: the request ends, or goes on with the     *)
(* next command of the list when this one failed.                            *)
LEMMA DoneEffect ==
    ASSUME ShutdownTypeOK, exitFlag = "no", NEW h \in BOOLEAN, CommandDone(h)
    PROVE \/ /\ job' = Idle /\ answer' \in {"handled", "invalid"}
             /\ exitFlag' \in {"no", "success", "failure"} /\ (exitFlag' # "no" => handling = 1)
             /\ h => exitFlag' # "failure"
          \/ /\ ~h /\ job' = [job EXCEPT !.writes = << >>] /\ UNCHANGED <<answer, exitFlag>>
<1>1. CASE \E e \in BOOLEAN : Ends(e) /\ (h => e)
  <2>1. PICK e \in BOOLEAN : Ends(e) /\ (h => e)
    BY <1>1
  <2>2. handling \in {0, 1}
    BY DEF ShutdownTypeOK
  <2>3. job' = Idle /\ answer' \in {"handled", "invalid"}
    BY <2>1 DEF Ends
  <2>4. exitFlag' = IF handling = 0 THEN exitFlag ELSE IF e THEN "success" ELSE "failure"
    BY <2>1 DEF Ends
  <2>5. CASE handling = 0
    BY <2>1, <2>3, <2>4, <2>5
  <2>6. CASE handling = 1
    BY <2>1, <2>3, <2>4, <2>6
  <2> QED BY <2>2, <2>5, <2>6
<1>2. CASE ~h /\ job' = [job EXCEPT !.writes = << >>] /\ UNCHANGED <<answer, exitFlag>>
  BY <1>2
<1> DEFINE within == job.for = "default" \/ job.cmd = "shutdown.default"
           left == IF within THEN job.inner ELSE job.outer
           e == h \/ (within /\ job.for # "default")
<1>3. IF h \/ left = << >> THEN Ends(e)
      ELSE job' = [job EXCEPT !.writes = << >>] /\ UNCHANGED <<answer, exitFlag>>
  BY DEF CommandDone
<1>4. e \in BOOLEAN /\ (h => e)
  BY Zenon
<1> QED BY Zenon, <1>1, <1>2, <1>3, <1>4

-----------------------------------------------------------------------------
(* The steps *)

LEMMA ShutdownInits == ShutdownInit => ShutdownInv
<1> SUFFICES ASSUME ShutdownInit PROVE ShutdownInv
  OBVIOUS
<1>1. /\ job = Idle /\ job \in Jobs /\ job.writes = << >>
      /\ ups \in Devices /\ ups.accepted = << >> /\ exitFlag = "no"
  BY IdleFields DEF ShutdownInit
<1>2. ShutdownTypeOK
  BY Zenon, <1>1, ShutdownAssumption DEF ShutdownInit, ShutdownTypeOK
<1>3. Accepted = {}
  BY <1>1 DEF Accepted
<1>4. BusyInv /\ OnFirst
  BY <1>1 DEF BusyInv, OnFirst
<1>5. LastOff(job.writes) /\ OffIsLast
  BY <1>1 DEF LastOff, OffIsLast
<1> QED BY <1>1, <1>2, <1>3, <1>4, <1>5
    DEF ShutdownInv, OnBeforeOff, FailureIsHarmless, OnlyKillpowerExits

(* A request begins. *)
LEMMA RequestKeeps ==
    ASSUME ShutdownInv, UNCHANGED <<offer, custom, allow, exitFlag>>, exitFlag = "no",
           answer' \in {"none", "handled", "invalid"}, handling' \in {0, 1},
           ups' = NotAsked, job' \in Jobs, job'.for # "none", job'.writes = << >>,
           job'.inner = ByDefault \/ (job'.inner = << >> /\ (custom = << >> => job'.outer = <<"shutdown.default">>))
    PROVE ShutdownInv'
<1>1. ups' \in Devices /\ ups'.accepted = << >>
  BY IdleFields
<1>2. ShutdownTypeOK'
  BY <1>1 DEF ShutdownInv, ShutdownTypeOK
<1>3. Accepted' = {}
  BY <1>1 DEF Accepted
<1>4. BusyInv'
  BY <1>3 DEF BusyInv
<1>5. OnFirst'
  BY DEF OnFirst, OnlyDelays, ByDefault
<1>6. LastOff(job'.writes) /\ OffIsLast'
  BY <1>1 DEF LastOff, OffIsLast
<1> QED BY <1>2, <1>3, <1>4, <1>5, <1>6
    DEF ShutdownInv, OnBeforeOff, FailureIsHarmless, OnlyKillpowerExits

LEMMA ByDefaultType == ByDefault \in Seq(Names) /\ ByDefault # << >> /\ Head(ByDefault) = "shutdown.return"
                       /\ Tail(ByDefault) \in Seq(Names)
<1>1. ByDefault \in Seq(Names)
  BY ShutdownAssumption DEF ByDefault
<1>2. ByDefault # << >> /\ Head(ByDefault) = "shutdown.return"
  BY DEF ByDefault
<1> QED BY <1>1, <1>2

LEMMA RequestsKeep ==
    ShutdownInv /\ (Killpower \/ ForceKill \/ ShutdownDefault \/ \E on \in BOOLEAN : SetAllow(on))
        => ShutdownInv'
<1> SUFFICES ASSUME ShutdownInv,
                    Killpower \/ ForceKill \/ ShutdownDefault \/ \E on \in BOOLEAN : SetAllow(on)
             PROVE ShutdownInv'
  OBVIOUS
<1>0. ShutdownTypeOK
  BY DEF ShutdownInv
<1>1. CASE (Killpower /\ allow) \/ ForceKill
  <2>1. PICK f \in {"killpower", "forceshutdown"} : job' = [Idle EXCEPT !.for = f, !.outer = SdCommands]
    BY <1>1 DEF Killpower, ForceKill
  <2>2. SdCommands \in Seq(Names) /\ (custom = << >> => SdCommands = <<"shutdown.default">>)
    BY <1>0, ShutdownAssumption DEF SdCommands, ShutdownTypeOK
  <2>3. /\ job' = [for |-> f, outer |-> SdCommands, inner |-> << >>, writes |-> << >>, cmd |-> "none"]
    BY Zenon, <2>1 DEF Idle
  <2>4. job' \in Jobs /\ job'.for # "none" /\ job'.writes = << >> /\ job'.inner = << >>
        /\ job'.outer = SdCommands
    <3>1. << >> \in Seq(Names) /\ << >> \in Seq(DeviceWrites)
      BY EmptySeq
    <3> QED BY <2>2, <2>3, <3>1 DEF Jobs
  <2>5. /\ UNCHANGED <<offer, custom, allow, exitFlag>> /\ exitFlag = "no" /\ answer' = "none"
        /\ handling' = 1 /\ ups' = NotAsked
    BY <1>1 DEF Killpower, ForceKill
  <2> QED BY <2>2, <2>4, <2>5, RequestKeeps
<1>2. CASE ShutdownDefault
  <2>1. job' = [for |-> "default", outer |-> << >>, inner |-> ByDefault, writes |-> << >>, cmd |-> "none"]
    BY Zenon, <1>2 DEF ShutdownDefault, Idle
  <2>2. job' \in Jobs /\ job'.for # "none" /\ job'.writes = << >> /\ job'.inner = ByDefault
    <3>1. << >> \in Seq(Names) /\ << >> \in Seq(DeviceWrites)
      BY EmptySeq
    <3> QED BY <2>1, <3>1, ByDefaultType DEF Jobs
  <2>3. /\ UNCHANGED <<offer, custom, allow, handling, exitFlag>> /\ exitFlag = "no"
        /\ answer' = "none" /\ ups' = NotAsked
    BY <1>2 DEF ShutdownDefault
  <2>4. handling' \in {0, 1}
    BY <1>0, <2>3 DEF ShutdownTypeOK
  <2> QED BY <2>2, <2>3, <2>4, RequestKeeps
<1>3. CASE (Killpower /\ ~allow) \/ \E on \in BOOLEAN : SetAllow(on)
  <2>1. /\ UNCHANGED <<offer, custom, handling, exitFlag, job, ups>>
        /\ answer' \in {answer, "invalid"} /\ allow' \in BOOLEAN
    BY <1>0, <1>3 DEF Killpower, SetAllow, ShutdownTypeOK
  <2>2. ShutdownTypeOK'
    BY <1>0, <2>1 DEF ShutdownTypeOK
  <2>3. BusyInv' /\ LastOff(job'.writes) /\ OnFirst'
    BY <2>1 DEF ShutdownInv, BusyInv, OnFirst, OnlyDelays, Accepted, On, Off, Must
  <2>4. OnBeforeOff' /\ OffIsLast' /\ FailureIsHarmless' /\ OnlyKillpowerExits'
    BY <2>1 DEF ShutdownInv, OnBeforeOff, OffIsLast, FailureIsHarmless, OnlyKillpowerExits, Accepted
  <2> QED BY <2>2, <2>3, <2>4 DEF ShutdownInv
<1> QED BY <1>1, <1>2, <1>3

(* A step of a request that is under way, which ends it or goes on, without  *)
(* a write that is accepted.                                                 *)
LEMMA GoesOn ==
    ASSUME ShutdownInv, job # Idle, UNCHANGED <<offer, custom, allow, handling>>,
           answer' \in {"none", "handled", "invalid"}, exitFlag' \in {"no", "success", "failure"},
           exitFlag' # "no" => handling = 1 /\ job' = Idle,
           job' \in Jobs, job' # Idle => job'.for # "none", LastOff(job'.writes), OnFirst',
           ups' \in Devices, ups'.accepted = ups.accepted
    PROVE ShutdownInv'
<1>1. Accepted' = Accepted /\ Accepted \cap SwitchesOff = {}
  BY DEF ShutdownInv, BusyInv, Accepted
<1>2. ShutdownTypeOK'
  BY DEF ShutdownInv, ShutdownTypeOK
<1>3. BusyInv'
  BY <1>1 DEF BusyInv
<1>4. OnBeforeOff' /\ FailureIsHarmless'
  BY <1>1 DEF OnBeforeOff, FailureIsHarmless, SwitchesOff
<1>5. OffIsLast' /\ OnlyKillpowerExits'
  BY DEF ShutdownInv, OffIsLast, OnlyKillpowerExits
<1> QED BY <1>2, <1>3, <1>4, <1>5 DEF ShutdownInv

LEMMA ChoosesKeep == ShutdownInv /\ (NextOuter \/ NextInner) => ShutdownInv'
<1> SUFFICES ASSUME ShutdownInv, NextOuter \/ NextInner PROVE ShutdownInv'
  OBVIOUS
<1>0. /\ ShutdownTypeOK /\ job # Idle /\ job.for # "none" /\ exitFlag = "no" /\ job \in Jobs
      /\ UNCHANGED <<offer, custom, allow, handling, exitFlag, answer, ups>>
  BY DEF ShutdownInv, ShutdownTypeOK, NextOuter, NextInner, Busy, BusyInv
<1>1. CASE NextOuter
  <2> DEFINE cmd == Head(job.outer)
             inner == IF cmd = "shutdown.default" THEN ByDefault ELSE << >>
             writes == IF cmd = "shutdown.default" THEN << >> ELSE WritesOf(cmd)
  <2>1. /\ job.inner = << >> /\ job.writes = << >> /\ job.outer \in Seq(Names) /\ job.outer # << >>
        /\ job' = [job EXCEPT !.cmd = cmd, !.outer = Tail(@), !.inner = inner, !.writes = writes]
    BY <1>0, <1>1 DEF NextOuter, Jobs
  <2>2. cmd \in Names /\ Tail(job.outer) \in Seq(Names)
    BY <2>1
  <2>3. inner \in Seq(Names) /\ writes \in Seq(DeviceWrites) /\ LastOff(writes)
    <3>1. << >> \in Seq(Names) /\ << >> \in Seq(DeviceWrites) /\ LastOff(<< >>)
      BY EmptySeq DEF LastOff
    <3> HIDE DEF cmd
    <3>2. WritesOf(cmd) \in Seq(DeviceWrites) /\ LastOff(WritesOf(cmd))
      BY <2>2, WritesType
    <3> QED BY <3>1, <3>2, ByDefaultType
  <2>4. job.outer = <<"shutdown.default">> => inner = ByDefault /\ writes = << >>
    OBVIOUS
  <2> HIDE DEF cmd, inner, writes
  <2>5. /\ job' \in Jobs /\ job'.for = job.for /\ job'.writes = writes /\ job'.inner = inner
    BY Zenon, <1>0, <2>1, <2>2, <2>3 DEF Jobs
  <2>6. job' # Idle
    BY <1>0, <2>5, IdleFields
  <2>7. OnFirst'
    <3>1. OnlyDelays => "load.on.delay" \in ups.tried \/ job.outer = <<"shutdown.default">>
      BY <1>0, <2>1, ByDefaultType DEF ShutdownInv, OnFirst
    <3> QED BY <1>0, <2>4, <2>5, <3>1 DEF OnFirst, OnlyDelays
  <2> QED BY <1>0, <2>3, <2>5, <2>7, GoesOn DEF ShutdownTypeOK
<1>2. CASE NextInner
  <2> DEFINE cmd == Head(job.inner)
             writes == WritesOf(cmd)
  <2>1. /\ job.inner \in Seq(Names) /\ job.inner # << >> /\ job.writes = << >>
        /\ job' = [job EXCEPT !.writes = writes, !.inner = Tail(@)]
    BY <1>0, <1>2 DEF NextInner, Jobs
  <2>2. cmd \in Names /\ Tail(job.inner) \in Seq(Names)
    BY <2>1
  <2>3. writes \in Seq(DeviceWrites) /\ LastOff(writes)
    <3> HIDE DEF cmd
    <3> QED BY <2>2, WritesType
  <2>4. OnlyDelays /\ job.inner = ByDefault => writes = <<On, Off>> \/ writes = <<Again, On, Off>>
    <3> SUFFICES ASSUME OnlyDelays, job.inner = ByDefault
                 PROVE writes = <<On, Off>> \/ writes = <<Again, On, Off>>
      OBVIOUS
    <3>1. cmd = "shutdown.return" /\ "shutdown.return" \notin offer
      BY ByDefaultType DEF OnlyDelays, SwitchesOff
    <3>2. writes = SetAuto \o <<On, Off>>
      BY <3>1 DEF WritesOf, On, Off
    <3> QED BY Zenon, <3>2, SetAutoFirst
  <2> HIDE DEF cmd, writes
  <2>5. job' \in Jobs /\ job'.for = job.for /\ job'.writes = writes
    BY Zenon, <1>0, <2>1, <2>2, <2>3 DEF Jobs
  <2>6. job' # Idle
    BY <1>0, <2>5, IdleFields
  <2>7. OnFirst'
    <3>1. OnlyDelays => "load.on.delay" \in ups.tried \/ job.inner = ByDefault
      BY <1>0, <2>1 DEF ShutdownInv, OnFirst
    <3>2. OnlyDelays' = OnlyDelays /\ On' = On /\ Off' = Off
      BY <1>0 DEF OnlyDelays, On, Off, Must
    <3> QED BY <1>0, <2>4, <2>5, <3>1, <3>2 DEF OnFirst
  <2> QED BY <1>0, <2>3, <2>5, <2>7, GoesOn DEF ShutdownTypeOK
<1> QED BY <1>1, <1>2

(* The fields of the first writes. *)
LEMMA OnOffAuto ==
    /\ "load.on.delay" \in offer => On.name = "load.on.delay"
    /\ On.must = TRUE /\ Again.must = FALSE /\ Again.name = "ups.start.auto"
<1>1. "load.on.delay" \in Names
  BY ShutdownAssumption
<1>2. On.must = TRUE /\ ("load.on.delay" \in offer => On.name = "load.on.delay")
  BY DEF On, Must
<1> QED BY <1>2 DEF Again

(* Where the default shutdown of a device with the two delays stands when a  *)
(* write is due and the start delay was not tried.                           *)
LEMMA DueWrite ==
    ASSUME ShutdownInv, job # Idle, job.writes # << >>, OnlyDelays, "load.on.delay" \notin ups.tried
    PROVE \/ Head(job.writes).name = "load.on.delay"
          \/ /\ Head(job.writes) = Again /\ Tail(job.writes) = <<On, Off>> /\ Len(job.writes) = 3
<1>1. job.writes = <<On, Off>> \/ job.writes = <<Again, On, Off>>
  BY DEF ShutdownInv, OnFirst
<1>2. On.name = "load.on.delay"
  BY OnOffAuto DEF OnlyDelays
<1> HIDE DEF On, Off, Again
<1>3. Head(<<On, Off>>) = On /\ Head(<<Again, On, Off>>) = Again /\ Tail(<<Again, On, Off>>) = <<On, Off>>
      /\ Len(<<Again, On, Off>>) = 3
  OBVIOUS
<1> QED BY Zenon, <1>1, <1>2, <1>3

(* The writes that are left after the first. *)
LEMMA TailWrites ==
    ASSUME NEW w \in Seq(DeviceWrites), w # << >>, LastOff(w)
    PROVE /\ Head(w) \in DeviceWrites /\ Tail(w) \in Seq(DeviceWrites) /\ LastOff(Tail(w))
          /\ Head(w).name \in SwitchesOff => Len(w) = 1
<1>1. Len(w) \in Nat /\ Len(w) >= 1 /\ Head(w) = w[1]
  OBVIOUS
<1>2. /\ Head(w) \in DeviceWrites /\ Tail(w) \in Seq(DeviceWrites) /\ Len(Tail(w)) = Len(w) - 1
      /\ \A i \in 1 .. Len(w) - 1 : Tail(w)[i] = w[i + 1]
  BY HeadTailProperties
<1>3. LastOff(Tail(w))
  <2> SUFFICES ASSUME NEW i \in 1 .. Len(Tail(w)) - 1 PROVE Tail(w)[i].name \notin SwitchesOff
    BY DEF LastOff
  <2>1. i + 1 \in 1 .. Len(w) - 1 /\ i \in 1 .. Len(w) - 1
    BY <1>1, <1>2
  <2> QED BY <1>2, <2>1 DEF LastOff
<1>4. Head(w).name \in SwitchesOff => Len(w) = 1
  <2> DEFINE n == Len(w)
  <2>n. n \in Nat /\ n >= 1
    BY <1>1
  <2> HIDE DEF n
  <2>m. n # 1 => 1 \in 1 .. n - 1
    BY <2>n
  <2>1. Len(w) # 1 => 1 \in 1 .. Len(w) - 1
    BY <2>m DEF n
  <2> QED BY <1>1, <2>1 DEF LastOff
<1> QED BY <1>2, <1>3, <1>4

LEMMA WriteFailsKeeps == ShutdownInv /\ WriteFails => ShutdownInv'
<1> SUFFICES ASSUME ShutdownInv, WriteFails PROVE ShutdownInv'
  OBVIOUS
<1> DEFINE w == Head(job.writes)
<1>0. /\ ShutdownTypeOK /\ job # Idle /\ job.for # "none" /\ exitFlag = "no" /\ job \in Jobs
      /\ ups \in Devices /\ answer \in {"none", "handled", "invalid"}
      /\ UNCHANGED <<offer, custom, allow, handling>>
  BY DEF ShutdownInv, ShutdownTypeOK, WriteFails, Busy, BusyInv
<1>1. /\ job.writes \in Seq(DeviceWrites) /\ job.writes # << >> /\ LastOff(job.writes)
  BY <1>0 DEF WriteFails, Jobs, ShutdownInv
<1>2. w \in DeviceWrites /\ Tail(job.writes) \in Seq(DeviceWrites) /\ LastOff(Tail(job.writes))
  BY <1>1, TailWrites
<1>3. /\ ups' \in Devices /\ ups'.accepted = ups.accepted /\ ups'.tried = ups.tried \cup {w.name}
  <2>1. ups' = [ups EXCEPT !.tried = ups.tried \cup {w.name}] /\ w.name \in Names
    BY <1>2 DEF WriteFails, DeviceWrites
  <2> HIDE DEF w
  <2> QED BY <1>0, <2>1 DEF Devices
<1>4. OnlyDelays' = OnlyDelays /\ On' = On /\ Off' = Off
  BY <1>0 DEF OnlyDelays, On, Off, Must
<1>5. OnlyDelays /\ "load.on.delay" \notin ups.tried =>
         w.name = "load.on.delay" \/ (w.must = FALSE /\ Tail(job.writes) = <<On, Off>>)
  BY <1>0, <1>1, DueWrite, OnOffAuto
<1>6. CASE w.must
  <2>1. CommandDone(FALSE)
    BY Zenon, <1>6 DEF WriteFails
  <2>2. \/ /\ job' = Idle /\ answer' \in {"handled", "invalid"}
           /\ exitFlag' \in {"no", "success", "failure"} /\ (exitFlag' # "no" => handling = 1)
        \/ /\ job' = [job EXCEPT !.writes = << >>] /\ UNCHANGED <<answer, exitFlag>>
    BY Zenon, <1>0, <2>1, DoneEffect
  <2>3. << >> \in Seq(DeviceWrites) /\ LastOff(<< >>)
    BY EmptySeq DEF LastOff
  <2>4. job' \in Jobs /\ LastOff(job'.writes) /\ (job' # Idle => job'.for # "none")
    BY Zenon, <1>0, <2>2, <2>3, IdleFields DEF Jobs
  <2>5. OnlyDelays => "load.on.delay" \in ups'.tried
    BY <1>2, <1>3, <1>5, <1>6
  <2>6. OnFirst'
    BY <1>4, <2>5 DEF OnFirst
  <2> HIDE DEF w
  <2> QED BY <1>0, <1>3, <2>2, <2>4, <2>6, GoesOn
<1>7. CASE ~w.must
  <2>1. job' = [job EXCEPT !.writes = Tail(job.writes)] /\ UNCHANGED <<answer, exitFlag>>
    BY <1>7 DEF WriteFails
  <2>2. job' \in Jobs /\ job'.for = job.for /\ job'.writes = Tail(job.writes)
    BY Zenon, <1>0, <1>2, <2>1 DEF Jobs
  <2>3. OnFirst'
    BY <1>3, <1>4, <1>5, <2>2 DEF OnFirst
  <2> HIDE DEF w
  <2> QED BY <1>0, <1>2, <1>3, <2>1, <2>2, <2>3, GoesOn
<1> QED BY <1>6, <1>7

LEMMA WriteAcceptedKeeps == ShutdownInv /\ WriteAccepted => ShutdownInv'
<1> SUFFICES ASSUME ShutdownInv, WriteAccepted PROVE ShutdownInv'
  OBVIOUS
<1> DEFINE w == Head(job.writes).name
<1>0. /\ ShutdownTypeOK /\ job # Idle /\ job.for # "none" /\ exitFlag = "no" /\ job \in Jobs
      /\ ups \in Devices /\ answer \in {"none", "handled", "invalid"}
      /\ UNCHANGED <<offer, custom, allow, handling>>
  BY DEF ShutdownInv, ShutdownTypeOK, WriteAccepted, Busy, BusyInv
<1>1. /\ job.writes \in Seq(DeviceWrites) /\ job.writes # << >> /\ LastOff(job.writes)
  BY <1>0 DEF WriteAccepted, Jobs, ShutdownInv
<1>2. /\ Head(job.writes) \in DeviceWrites /\ Tail(job.writes) \in Seq(DeviceWrites)
      /\ LastOff(Tail(job.writes)) /\ (w \in SwitchesOff => Len(job.writes) = 1)
  BY <1>1, TailWrites
<1>3. w \in Names
  BY <1>2 DEF DeviceWrites
<1>4. ups' = [tried |-> ups.tried \cup {w}, accepted |-> Append(ups.accepted, w)]
  BY DEF WriteAccepted
<1>5. OnlyDelays /\ "load.on.delay" \notin ups.tried =>
         w = "load.on.delay" \/ (w = "ups.start.auto" /\ Tail(job.writes) = <<On, Off>> /\ Len(job.writes) = 3)
  BY <1>0, <1>1, DueWrite, OnOffAuto
<1>6. IF Len(job.writes) = 1 THEN CommandDone(TRUE)
      ELSE job' = [job EXCEPT !.writes = Tail(job.writes)] /\ UNCHANGED <<answer, exitFlag>>
  BY Zenon DEF WriteAccepted
<1> HIDE DEF w
<1>7. /\ ups' \in Devices /\ ups'.tried = ups.tried \cup {w} /\ ups'.accepted = Append(ups.accepted, w)
      /\ ups.accepted \in Seq(Names)
  <2>1. ups.tried \in SUBSET Names /\ ups.accepted \in Seq(Names)
    BY <1>0 DEF Devices
  <2>2. Append(ups.accepted, w) \in Seq(Names)
    BY <1>3, <2>1, AppendProperties
  <2> QED BY <1>3, <1>4, <2>1, <2>2 DEF Devices
<1>8. /\ Len(ups'.accepted) = Len(ups.accepted) + 1 /\ Len(ups.accepted) \in Nat
      /\ \A i \in 1 .. Len(ups.accepted) : ups'.accepted[i] = ups.accepted[i]
      /\ ups'.accepted[Len(ups.accepted) + 1] = w
  BY <1>3, <1>7, AppendProperties
<1>9. Accepted' = Accepted \cup {w} /\ Accepted \cap SwitchesOff = {}
  <2>1. Accepted' = Accepted \cup {w}
    BY <1>8 DEF Accepted
  <2> QED BY <1>0, <2>1 DEF ShutdownInv, BusyInv
<1>10. OffIsLast'
  <2> SUFFICES ASSUME NEW i \in 1 .. Len(ups'.accepted) - 1 PROVE ups'.accepted[i] \notin SwitchesOff
    BY DEF OffIsLast
  <2>1. i \in 1 .. Len(ups.accepted)
    BY <1>8
  <2>2. ups.accepted[i] \in Accepted
    BY <2>1 DEF Accepted
  <2> QED BY <1>8, <1>9, <2>1, <2>2
<1>11. OnlyDelays' = OnlyDelays /\ On' = On /\ Off' = Off
  BY <1>0 DEF OnlyDelays, On, Off, Must
<1>12. OnBeforeOff'
  <2>1. "load.off.delay" \in SwitchesOff
    BY DEF SwitchesOff
  <2>2. "load.off.delay" \in Accepted' => w = "load.off.delay"
    BY <1>9, <2>1
  <2>3. OnlyDelays /\ "load.off.delay" \in Accepted' => "load.on.delay" \in ups'.tried
    BY <1>5, <1>7, <2>2
  <2> QED BY <1>11, <2>3 DEF OnBeforeOff, OnlyDelays
<1>13. CASE Len(job.writes) = 1
  <2>1. /\ job' = Idle /\ answer' \in {"handled", "invalid"}
        /\ exitFlag' \in {"no", "success"} /\ (exitFlag' # "no" => handling = 1)
    <3> DEFINE h == TRUE
    <3>1. CommandDone(h) /\ h \in BOOLEAN /\ h
      BY Zenon, <1>6, <1>13
    <3> HIDE DEF h
    <3> QED BY Zenon, <1>0, <3>1, DoneEffect
  <2>2. job' \in Jobs /\ LastOff(job'.writes) /\ BusyInv' /\ OnFirst'
    <3>1. LastOff(<< >>)
      BY DEF LastOff
    <3> QED BY <2>1, <3>1, IdleFields DEF BusyInv, OnFirst
  <2>3. ShutdownTypeOK'
    BY <1>0, <1>7, <2>1, <2>2 DEF ShutdownTypeOK
  <2>4. FailureIsHarmless' /\ OnlyKillpowerExits'
    BY <1>0, <2>1 DEF FailureIsHarmless, OnlyKillpowerExits
  <2> QED BY <1>10, <1>12, <2>2, <2>3, <2>4 DEF ShutdownInv
<1>14. CASE Len(job.writes) # 1
  <2>1. job' = [job EXCEPT !.writes = Tail(job.writes)] /\ UNCHANGED <<answer, exitFlag>>
    BY <1>6, <1>14
  <2>2. job' \in Jobs /\ job'.for = job.for /\ job'.writes = Tail(job.writes)
    BY Zenon, <1>0, <1>2, <2>1 DEF Jobs
  <2>3. OnFirst'
    BY <1>5, <1>7, <1>11, <2>2 DEF OnFirst
  <2>4. ShutdownTypeOK'
    BY <1>0, <1>7, <2>1, <2>2 DEF ShutdownTypeOK
  <2>5. BusyInv'
    BY <1>0, <1>2, <1>9, <1>14, <2>1, <2>2 DEF BusyInv
  <2>6. FailureIsHarmless' /\ OnlyKillpowerExits'
    BY <1>0, <2>1 DEF FailureIsHarmless, OnlyKillpowerExits
  <2> QED BY <1>2, <1>10, <1>12, <2>2, <2>3, <2>4, <2>5, <2>6 DEF ShutdownInv
<1> QED BY <1>13, <1>14

(* Powering the load down, for any device and any sdcommands (drivers/main.c *)
(* and usbhid-ups.c): a device is not switched off before its start delay    *)
(* was tried, nothing is written to it once it accepted to switch off, a     *)
(* driver that exits as failed has not switched it off, and only a shutdown  *)
(* of the driver itself ends it.                                             *)
THEOREM ShutdownIsSafe == ShutdownSpec => []ShutdownSafe
<1>1. ShutdownInit => ShutdownInv
  BY ShutdownInits
<1>2. ShutdownInv /\ [ShutdownNext]_shutdownVars => ShutdownInv'
  <2> SUFFICES ASSUME ShutdownInv, [ShutdownNext]_shutdownVars PROVE ShutdownInv'
    OBVIOUS
  <2>1. CASE UNCHANGED shutdownVars
    BY Zenon, <2>1
       DEF shutdownVars, ShutdownInv, ShutdownTypeOK, BusyInv, OnFirst, OnlyDelays, On, Off, Must,
                Accepted, OnBeforeOff, OffIsLast, FailureIsHarmless, OnlyKillpowerExits
  <2>2. CASE ShutdownNext
    BY <2>2, RequestsKeep, ChoosesKeep, WriteAcceptedKeeps, WriteFailsKeeps DEF ShutdownNext
  <2> QED BY <2>1, <2>2
<1>3. ShutdownInv => ShutdownSafe
  BY DEF ShutdownInv, ShutdownSafe
<1> QED BY <1>1, <1>2, <1>3, PTL DEF ShutdownSpec

-----------------------------------------------------------------------------
(* A tracking line under way carries what the driver did for its identifier; *)
(* a command under way has not been carried out and is there once.  So an    *)
(* identifier has one answer for good.                                       *)
TrackedInv ==
    \A i \in 1 .. Len(toCaller) : toCaller[i].kind = "tracking" =>
        /\ toCaller[i].id \in 1 .. MaxQueries /\ toCaller[i].status \in Statuses
        /\ drv.done[toCaller[i].id] = toCaller[i].status
PostedInv ==
    \A i \in 1 .. Len(toDriver) : toDriver[i].kind = "INSTCMD" =>
        /\ toDriver[i].id \in 1 .. caller.id /\ drv.done[toDriver[i].id] = NotYet
        /\ \A j \in 1 .. Len(toDriver) :
              toDriver[j].kind = "INSTCMD" /\ toDriver[j].id = toDriver[i].id => i = j
        /\ toDriver[i].id = caller.id => caller.pc \in {"wait", "finish", "idle"}
FreshInv ==
    /\ \A id \in 1 .. MaxQueries : id > caller.id => drv.done[id] = NotYet
    /\ caller.pc \in {"prepare", "flush", "post"} => drv.done[caller.id] = NotYet
    /\ caller.pc # "idle" => caller.id > 0
    /\ ResultIsOwn

(* In the first query the driver reads NOBROADCAST before anything else, and *)
(* BROADCAST not before the query ends: it answers PING when it is quiet.    *)
QuietInv ==
    caller.id = 1 /\ caller.pc # "idle" =>
        /\ \A i \in 1 .. Len(toDriver) : toDriver[i].kind # "BROADCAST"
        /\ ~drv.quiet =>
              /\ \A i \in 1 .. Len(toCaller) : toCaller[i] # Pong
              /\ ~caller.flushed
              /\ drv.up /\ caller.pc # "prepare" =>
                    toDriver # << >> /\ toDriver[1].kind = "NOBROADCAST"
        /\ \A i, j \in 1 .. Len(toCaller) : toCaller[i] = Pong /\ i < j => toCaller[j] # Noise
        /\ caller.flushed => \A i \in 1 .. Len(toCaller) : toCaller[i] # Noise
        /\ caller.pc = "prepare" => toDriver = << >>
FirstInv ==
    caller.id = 0 => /\ toDriver = << >>
                     /\ \A i \in 1 .. Len(toCaller) : toCaller[i] # Pong

(* The last the driver hears of a query is BROADCAST. *)
RestoreInv ==
    caller.pc = "idle" /\ drv.up =>
        IF toDriver = << >> THEN ~drv.quiet ELSE toDriver[Len(toDriver)].kind = "BROADCAST"

QueryInv ==
    QueryTypeOK /\ TrackedInv /\ PostedInv /\ FreshInv /\ QuietInv /\ FirstInv /\ RestoreInv

-----------------------------------------------------------------------------
(* Lines, and what is read of them *)

LEMMA Constants ==
    /\ 0 \in 0 .. MaxQueries /\ NotYet \in Int /\ Failed \in Int /\ NotYet < 0 /\ Failed < 0
    /\ \A s \in Statuses : s \in Nat
<1> QED BY QueryAssumption DEF NotYet, Failed

LEMMA ReplyLines ==
    /\ Noise \in Replies /\ Pong \in Replies /\ Rest \in Replies
    /\ Noise.kind = "noise" /\ Pong.kind = "pong" /\ Rest.kind = "rest"
    /\ Noise # Pong /\ Noise # Rest /\ Pong # Rest
<1>1. Noise \in Replies /\ Pong \in Replies /\ Rest \in Replies
  BY Constants DEF Noise, Pong, Rest, Replies
<1>2. Noise.kind = "noise" /\ Pong.kind = "pong" /\ Rest.kind = "rest"
  BY DEF Noise, Pong, Rest
<1> QED BY <1>1, <1>2

LEMMA TrackingLine ==
    ASSUME NEW id \in 0 .. MaxQueries, NEW s \in Statuses
    PROVE /\ Tracking(id, s) \in Replies /\ Tracking(id, s).kind = "tracking"
          /\ Tracking(id, s).id = id /\ Tracking(id, s).status = s
<1> QED BY Constants DEF Tracking, Replies

LEMMA AskLine ==
    ASSUME QueryTypeOK, NEW k \in {"NOBROADCAST", "BROADCAST", "PING", "INSTCMD"}
    PROVE Ask(k) \in Asks /\ Ask(k).kind = k /\ Ask(k).id = caller.id
<1> QED BY DEF Ask, Asks, QueryTypeOK, CallerStates

LEMMA FirstOfThree ==
    ASSUME QueryTypeOK
    PROVE Len(toCaller) \in Nat /\ Len(toDriver) \in Nat
          /\ (\A i \in 1 .. Len(toCaller) : toCaller[i] \in Replies)
          /\ (\A i \in 1 .. Len(toDriver) : toDriver[i] \in Asks)
<1> QED BY DEF QueryTypeOK

(* A read takes the first m lines, or all but the end of the next one: what  *)
(* is left are later lines and perhaps the rest of a line.                   *)
LEMMA ReadEffect ==
    ASSUME QueryTypeOK, NEW read \in Reads
    PROVE /\ read.left \in Seq(Replies)
          /\ \E m \in 0 .. Len(toCaller) :
                /\ \A line \in read.whole : \E i \in 1 .. m : line = toCaller[i]
                /\ \A j \in 1 .. Len(read.left) :
                      \/ read.left[j] = Rest
                      \/ m + j \in 1 .. Len(toCaller) /\ read.left[j] = toCaller[m + j]
<1> DEFINE L == Len(toCaller)
<1>0. L \in Nat /\ \A i \in 1 .. L : toCaller[i] \in Replies
  BY FirstOfThree
<1>s. \A n \in 0 .. L :
         /\ SubSeq(toCaller, n + 1, L) \in Seq(Replies)
         /\ Len(SubSeq(toCaller, n + 1, L)) = L - n
         /\ \A j \in 1 .. L - n : SubSeq(toCaller, n + 1, L)[j] = toCaller[n + j]
  <2> SUFFICES ASSUME NEW n \in 0 .. L
               PROVE /\ SubSeq(toCaller, n + 1, L) \in Seq(Replies)
                     /\ Len(SubSeq(toCaller, n + 1, L)) = L - n
                     /\ \A j \in 1 .. L - n : SubSeq(toCaller, n + 1, L)[j] = toCaller[n + j]
    OBVIOUS
  <2> DEFINE a == n + 1
  <2>1. a \in Int /\ L \in Int /\ \A i \in a .. L : toCaller[i] \in Replies
    BY <1>0
  <2>2. L - a + 1 = L - n /\ (a <= L <=> L - n > 0) /\ (\A j \in 1 .. L - n : a + j - 1 = n + j)
    BY <1>0
  <2> HIDE DEF a, L
  <2>3. /\ SubSeq(toCaller, a, L) \in Seq(Replies)
        /\ Len(SubSeq(toCaller, a, L)) = IF a <= L THEN L - a + 1 ELSE 0
        /\ \A i \in 1 .. L - a + 1 : SubSeq(toCaller, a, L)[i] = toCaller[a + i - 1]
    BY <2>1, SubSeqProperties
  <2>4. L - n \in Nat
    BY <1>0
  <2>5. /\ SubSeq(toCaller, a, L) \in Seq(Replies)
        /\ Len(SubSeq(toCaller, a, L)) = L - n
        /\ \A i \in 1 .. L - n : SubSeq(toCaller, a, L)[i] = toCaller[n + i]
    BY <2>2, <2>3, <2>4
  <2> QED BY <2>5 DEF a
<1>w. \A n \in 0 .. L : \A line \in Lines(SubSeq(toCaller, 1, n)) : \E i \in 1 .. n : line = toCaller[i]
  <2> SUFFICES ASSUME NEW n \in 0 .. L, NEW line \in Lines(SubSeq(toCaller, 1, n))
               PROVE \E i \in 1 .. n : line = toCaller[i]
    OBVIOUS
  <2> DEFINE a == 1
  <2>1. a \in Int /\ n \in Int /\ \A i \in a .. n : toCaller[i] \in Replies
    BY <1>0
  <2>2. n - a + 1 = n /\ (a <= n <=> n > 0) /\ n >= 0 /\ (\A j \in 1 .. n : a + j - 1 = j)
    BY <1>0
  <2>5. Lines(SubSeq(toCaller, 1, n)) = Lines(SubSeq(toCaller, a, n))
    OBVIOUS
  <2> HIDE DEF a, L
  <2>3. /\ Len(SubSeq(toCaller, a, n)) = IF a <= n THEN n - a + 1 ELSE 0
        /\ \A i \in 1 .. n - a + 1 : SubSeq(toCaller, a, n)[i] = toCaller[a + i - 1]
    BY <2>1, SubSeqProperties
  <2>4. Len(SubSeq(toCaller, a, n)) = n /\ \A i \in 1 .. n : SubSeq(toCaller, a, n)[i] = toCaller[i]
    BY <2>1, <2>2, <2>3
  <2> QED BY <2>4, <2>5 DEF Lines
<1>1. CASE \E n \in 1 .. L : /\ read.whole = Lines(SubSeq(toCaller, 1, n))
                             /\ read.left = SubSeq(toCaller, n + 1, L)
  <2>1. PICK n \in 1 .. L : /\ read.whole = Lines(SubSeq(toCaller, 1, n))
                            /\ read.left = SubSeq(toCaller, n + 1, L)
    BY <1>1
  <2>2. n \in 0 .. L
    BY <1>0
  <2> DEFINE t == SubSeq(toCaller, n + 1, L)
  <2>3. t \in Seq(Replies) /\ Len(t) = L - n /\ \A j \in 1 .. L - n : t[j] = toCaller[n + j]
    BY <2>2, <1>s
  <2>4. read.left = t
    BY <2>1
  <2> HIDE DEF t
  <2>5. \A j \in 1 .. Len(t) : n + j \in 1 .. L /\ t[j] = toCaller[n + j]
    BY <1>0, <2>2, <2>3
  <2>6. \A line \in read.whole : \E i \in 1 .. n : line = toCaller[i]
    BY <1>w, <2>1, <2>2
  <2> QED BY <2>2, <2>3, <2>4, <2>5, <2>6
<1>2. CASE \E n \in 1 .. L : /\ read.whole = Lines(SubSeq(toCaller, 1, n - 1))
                             /\ read.left = <<Rest>> \o SubSeq(toCaller, n + 1, L)
  <2>1. PICK n \in 1 .. L : /\ read.whole = Lines(SubSeq(toCaller, 1, n - 1))
                            /\ read.left = <<Rest>> \o SubSeq(toCaller, n + 1, L)
    BY <1>2
  <2> DEFINE m == n - 1
             t == SubSeq(toCaller, n + 1, L)
             r == <<Rest>>
  <2>2. n \in 0 .. L /\ m \in 0 .. L /\ m = n - 1
    BY <1>0
  <2>3. t \in Seq(Replies) /\ Len(t) = L - n /\ \A j \in 1 .. L - n : t[j] = toCaller[n + j]
    BY <2>2, <1>s
  <2>4. r \in Seq(Replies) /\ Len(r) = 1 /\ r[1] = Rest
    BY ReplyLines
  <2>5. read.left = r \o t /\ read.whole = Lines(SubSeq(toCaller, 1, m))
    BY <2>1
  <2> HIDE DEF m, t, r
  <2>6. /\ r \o t \in Seq(Replies) /\ Len(r \o t) = Len(r) + Len(t)
        /\ \A i \in 1 .. Len(r) + Len(t) : (r \o t)[i] = IF i <= Len(r) THEN r[i] ELSE t[i - Len(r)]
    BY Zenon, <2>3, <2>4, ConcatProperties
  <2>7. \A j \in 1 .. Len(r \o t) : (r \o t)[j] = Rest \/ (m + j \in 1 .. L /\ (r \o t)[j] = toCaller[m + j])
    <3> SUFFICES ASSUME NEW j \in 1 .. Len(r \o t), j # 1
                 PROVE m + j \in 1 .. L /\ (r \o t)[j] = toCaller[m + j]
      BY <1>0, <2>2, <2>3, <2>4, <2>6
    <3>1. j - 1 \in 1 .. L - n /\ j \in 1 .. Len(r) + Len(t) /\ ~(j <= Len(r))
      BY <1>0, <2>2, <2>3, <2>4, <2>6
    <3>2. n + (j - 1) = m + j /\ m + j \in 1 .. L
      BY <1>0, <2>2, <3>1
    <3>3. (r \o t)[j] = t[j - 1]
      BY <2>4, <2>6, <3>1
    <3> QED BY Zenon, <2>3, <3>1, <3>2, <3>3
  <2>8. \A line \in read.whole : \E i \in 1 .. m : line = toCaller[i]
    BY <1>w, <2>2, <2>5
  <2>9. /\ \A line \in read.whole : \E i \in 1 .. m : line = toCaller[i]
        /\ \A j \in 1 .. Len(read.left) :
              \/ read.left[j] = Rest
              \/ m + j \in 1 .. L /\ read.left[j] = toCaller[m + j]
    BY <2>5, <2>7, <2>8
  <2>10. read.left \in Seq(Replies) /\ m \in 0 .. Len(toCaller)
    BY <2>2, <2>5, <2>6
  <2> QED BY <2>9, <2>10
<1>3. CASE read \in WholeReads
  <2>1. PICK n \in 1 .. L : read = Read(n, {}, After(n))
    BY <1>3 DEF WholeReads
  <2> QED BY Zenon, <1>1, <2>1 DEF Read, After
<1>4. CASE \E n \in {i \in 1..Len(toCaller) : toCaller[i].kind # "rest"} : read \in CutReads(n)
  <2>1. PICK n \in 1 .. L : read \in CutReads(n)
    BY <1>4
  <2>2. PICK part : read = Read(n - 1, part, <<Rest>> \o After(n))
    BY <2>1 DEF CutReads
  <2> QED BY Zenon, <1>2, <2>2 DEF Read, After
<1> QED BY <1>3, <1>4 DEF Reads

-----------------------------------------------------------------------------
(* What the parts of a step change *)

LEMMA CallerFields ==
    ASSUME QueryTypeOK
    PROVE /\ caller.id \in Nat /\ caller.id \in 0 .. MaxQueries
          /\ caller.pc \in {"idle", "prepare", "flush", "post", "wait", "finish"}
          /\ caller.result \in Statuses \cup {Failed, NotYet}
<1> QED BY QueryAssumption DEF QueryTypeOK, CallerStates

LEMMA PongSeen ==
    ASSUME QueryTypeOK, caller' = [caller EXCEPT !.pc = "post", !.flushed = TRUE]
    PROVE /\ caller' \in CallerStates /\ caller'.id = caller.id /\ caller'.pc = "post"
          /\ caller'.result = caller.result /\ caller'.flushed
<1> QED BY Zenon DEF QueryTypeOK, CallerStates

LEMMA PcChange ==
    ASSUME QueryTypeOK, NEW pc \in {"idle", "prepare", "flush", "post", "wait", "finish"},
           caller' = [caller EXCEPT !.pc = pc]
    PROVE /\ caller' \in CallerStates /\ caller'.id = caller.id /\ caller'.pc = pc
          /\ caller'.result = caller.result /\ caller'.flushed = caller.flushed
<1> QED BY Zenon DEF QueryTypeOK, CallerStates

LEMMA Returned ==
    ASSUME QueryTypeOK, NEW result \in Statuses \cup {Failed, NotYet},
           caller' = [caller EXCEPT !.pc = "finish", !.result = result]
    PROVE /\ caller' \in CallerStates /\ caller'.id = caller.id /\ caller'.pc = "finish"
          /\ caller'.result = result /\ caller'.flushed = caller.flushed
<1> QED BY Zenon DEF QueryTypeOK, CallerStates

(* upsdrvquery_write puts its lines after the others, or gives up. *)
LEMMA WriteEffect ==
    ASSUME QueryTypeOK, NEW lines \in Seq(Asks),
           NEW pc \in {"idle", "prepare", "flush", "post", "wait", "finish"}, Writes(lines, pc)
    PROVE /\ caller' \in CallerStates /\ toDriver' \in Seq(Asks)
          /\ caller'.id = caller.id /\ caller'.flushed = caller.flushed
          /\ drv.up => /\ caller'.pc = pc /\ caller'.result = caller.result
                       /\ Len(toDriver') = Len(toDriver) + Len(lines)
                       /\ \A i \in 1 .. Len(toDriver') :
                             toDriver'[i] = IF i <= Len(toDriver) THEN toDriver[i]
                                            ELSE lines[i - Len(toDriver)]
          /\ ~drv.up => caller'.pc = "finish" /\ caller'.result = Failed /\ toDriver' = toDriver
<1>0. toDriver \in Seq(Asks)
  BY DEF QueryTypeOK
<1>1. CASE drv.up
  <2>1. toDriver' = toDriver \o lines /\ caller' = [caller EXCEPT !.pc = pc]
    BY <1>1 DEF Writes
  <2>2. /\ caller' \in CallerStates /\ caller'.id = caller.id /\ caller'.pc = pc
        /\ caller'.result = caller.result /\ caller'.flushed = caller.flushed
    BY <2>1, PcChange
  <2>3. /\ toDriver' \in Seq(Asks) /\ Len(toDriver') = Len(toDriver) + Len(lines)
        /\ \A i \in 1 .. Len(toDriver) + Len(lines) :
              toDriver'[i] = IF i <= Len(toDriver) THEN toDriver[i] ELSE lines[i - Len(toDriver)]
    BY <1>0, <2>1, ConcatProperties
  <2> QED BY Zenon, <1>1, <2>2, <2>3
<1>2. CASE ~drv.up
  <2>1. toDriver' = toDriver /\ caller' = [caller EXCEPT !.pc = "finish", !.result = Failed]
    BY <1>2 DEF Writes
  <2> QED BY Zenon, <1>0, <1>2, <2>1, Returned
<1> QED BY Zenon, <1>1, <1>2

(* Lines that are no commands, behind the others. *)
LEMMA NoCommandAdded ==
    ASSUME PostedInv, drv' = drv, caller'.id = caller.id,
           \A i \in 1 .. Len(toDriver') : toDriver'[i].kind = "INSTCMD" =>
              i \in 1 .. Len(toDriver) /\ toDriver'[i] = toDriver[i],
           \A i \in 1 .. Len(toDriver) : toDriver[i].kind = "INSTCMD" /\ toDriver[i].id = caller.id =>
              caller'.pc \in {"wait", "finish", "idle"}
    PROVE PostedInv'
<1> SUFFICES ASSUME NEW i \in 1 .. Len(toDriver'), toDriver'[i].kind = "INSTCMD"
             PROVE /\ toDriver'[i].id \in 1 .. caller'.id /\ drv'.done[toDriver'[i].id] = NotYet
                   /\ \A j \in 1 .. Len(toDriver') :
                         toDriver'[j].kind = "INSTCMD" /\ toDriver'[j].id = toDriver'[i].id => i = j
                   /\ toDriver'[i].id = caller'.id => caller'.pc \in {"wait", "finish", "idle"}
  BY DEF PostedInv
<1>1. i \in 1 .. Len(toDriver) /\ toDriver'[i] = toDriver[i]
  OBVIOUS
<1>2. toDriver'[i].id \in 1 .. caller'.id /\ drv'.done[toDriver'[i].id] = NotYet
  BY <1>1 DEF PostedInv
<1>3. ASSUME NEW j \in 1 .. Len(toDriver'), toDriver'[j].kind = "INSTCMD",
             toDriver'[j].id = toDriver'[i].id
      PROVE i = j
  <2>1. j \in 1 .. Len(toDriver) /\ toDriver'[j] = toDriver[j]
    BY <1>3
  <2> QED BY <1>1, <1>3, <2>1 DEF PostedInv
<1> QED BY <1>1, <1>2, <1>3

-----------------------------------------------------------------------------
(* The steps of the caller *)

(* A step of the caller inside its query, which keeps its result or fails. *)
LEMMA FreshKept ==
    ASSUME FreshInv, drv' = drv, caller'.id = caller.id, caller.pc # "idle",
           caller'.result = caller.result \/ caller'.result = Failed,
           caller'.pc \in {"prepare", "flush", "post"} => caller.pc \in {"prepare", "flush", "post"}
    PROVE FreshInv'
<1>1. \A id \in 1 .. MaxQueries : id > caller'.id => drv'.done[id] = NotYet
  BY DEF FreshInv
<1>2. caller'.pc \in {"prepare", "flush", "post"} => drv'.done[caller'.id] = NotYet
  BY DEF FreshInv
<1>3. caller'.pc # "idle" => caller'.id > 0
  BY DEF FreshInv
<1>4. ResultIsOwn'
  <2>1. CASE caller'.result = caller.result
    BY <2>1 DEF FreshInv, ResultIsOwn
  <2>2. CASE caller'.result = Failed
    <3>1. ~(Failed >= 0)
      BY DEF Failed
    <3> QED BY Zenon, <2>2, <3>1 DEF ResultIsOwn
  <2> QED BY <2>1, <2>2
<1> QED BY Zenon, <1>1, <1>2, <1>3, <1>4 DEF FreshInv

LEMMA PrepareKeeps == ASSUME QueryInv, Prepare PROVE QueryInv'
<1> DEFINE lines == <<Ask("NOBROADCAST"), Ask("PING")>>
<1>0. QueryTypeOK /\ caller.pc = "prepare" /\ Writes(lines, "flush")
  BY DEF Prepare, QueryInv
<1>u. toCaller' = toCaller /\ drv' = drv
  BY DEF Prepare
<1>1. /\ lines \in Seq(Asks) /\ Len(lines) = 2
      /\ lines[1].kind = "NOBROADCAST" /\ lines[2].kind = "PING"
  BY <1>0, AskLine
<1> HIDE DEF lines
<1>2. /\ caller' \in CallerStates /\ toDriver' \in Seq(Asks)
      /\ caller'.id = caller.id /\ caller'.flushed = caller.flushed
      /\ drv.up => /\ caller'.pc = "flush" /\ caller'.result = caller.result
                   /\ Len(toDriver') = Len(toDriver) + Len(lines)
                   /\ \A i \in 1 .. Len(toDriver') :
                         toDriver'[i] = IF i <= Len(toDriver) THEN toDriver[i]
                                        ELSE lines[i - Len(toDriver)]
      /\ ~drv.up => caller'.pc = "finish" /\ caller'.result = Failed /\ toDriver' = toDriver
  BY Zenon, <1>0, <1>1, WriteEffect
<1>3. Len(toDriver) \in Nat /\ caller.id \in Nat
  BY <1>0, FirstOfThree, CallerFields
<1>4. drv.up => /\ Len(toDriver') = Len(toDriver) + 2
                /\ \A i \in 1 .. Len(toDriver) : toDriver'[i] = toDriver[i]
                /\ \A i \in 1 .. Len(toDriver') : i > Len(toDriver) =>
                      toDriver'[i].kind \in {"NOBROADCAST", "PING"}
                /\ toDriver = << >> => toDriver'[1].kind = "NOBROADCAST"
  <2>1. SUFFICES ASSUME drv.up PROVE
                /\ Len(toDriver') = Len(toDriver) + 2
                /\ \A i \in 1 .. Len(toDriver) : toDriver'[i] = toDriver[i]
                /\ \A i \in 1 .. Len(toDriver') : i > Len(toDriver) =>
                      toDriver'[i].kind \in {"NOBROADCAST", "PING"}
                /\ toDriver = << >> => toDriver'[1].kind = "NOBROADCAST"
    OBVIOUS
  <2>2. \A i \in 1 .. Len(toDriver') : i > Len(toDriver) => i - Len(toDriver) \in {1, 2}
    BY <1>1, <1>2, <1>3, <2>1
  <2>3. \A i \in 1 .. Len(toDriver') : i > Len(toDriver) =>
           toDriver'[i] = lines[i - Len(toDriver)]
    BY <1>2, <1>3, <2>1
  <2>4. toDriver = << >> => Len(toDriver) = 0 /\ 1 - Len(toDriver) = 1
    OBVIOUS
  <2>5. Len(toDriver') = Len(toDriver) + 2 /\ \A i \in 1 .. Len(toDriver) : toDriver'[i] = toDriver[i]
    BY <1>1, <1>2, <1>3, <2>1
  <2>6. \A i \in 1 .. Len(toDriver') : i > Len(toDriver) => toDriver'[i].kind \in {"NOBROADCAST", "PING"}
    BY <1>1, <2>2, <2>3
  <2>7. toDriver = << >> => toDriver'[1].kind = "NOBROADCAST"
    BY <1>1, <2>3, <2>4, <2>5
  <2> QED BY <2>5, <2>6, <2>7
<1>5. QueryTypeOK'
  BY <1>0, <1>2, <1>u DEF QueryTypeOK
<1>6. TrackedInv'
  BY <1>u DEF QueryInv, TrackedInv
<1>7. PostedInv'
  <2>1. \A i \in 1 .. Len(toDriver') : toDriver'[i].kind = "INSTCMD" =>
             i \in 1 .. Len(toDriver) /\ toDriver'[i] = toDriver[i]
    BY <1>2, <1>3, <1>4
  <2>2. \A i \in 1 .. Len(toDriver) : toDriver[i].kind = "INSTCMD" => toDriver[i].id # caller.id
    BY <1>0 DEF QueryInv, PostedInv
  <2> QED BY <1>2, <1>u, <2>1, <2>2, NoCommandAdded DEF QueryInv
<1>8. FreshInv'
  <2>1. FreshInv /\ caller.pc # "idle"
    BY <1>0 DEF QueryInv
  <2>2. /\ caller'.result = caller.result \/ caller'.result = Failed
        /\ caller.pc \in {"prepare", "flush", "post"}
    BY <1>0, <1>2
  <2> QED BY Zenon, <1>2, <1>u, <2>1, <2>2, FreshKept
<1>9. QuietInv'
  <2>1. SUFFICES ASSUME caller'.id = 1, caller'.pc # "idle" PROVE QuietInv'
    BY DEF QuietInv
  <2>2. caller.id = 1 /\ caller.pc # "idle" /\ toDriver = << >> /\ caller'.pc # "prepare"
    BY <1>0, <1>2, <2>1 DEF QueryInv, QuietInv
  <2>3. /\ \A i \in 1 .. Len(toDriver') : toDriver'[i].kind # "BROADCAST"
        /\ drv.up => toDriver' # << >> /\ toDriver'[1].kind = "NOBROADCAST"
    BY <1>2, <1>3, <1>4, <2>2
  <2>4. /\ ~drv.quiet => (\A i \in 1 .. Len(toCaller) : toCaller[i] # Pong) /\ ~caller.flushed
        /\ \A i, j \in 1 .. Len(toCaller) : toCaller[i] = Pong /\ i < j => toCaller[j] # Noise
        /\ caller.flushed => \A i \in 1 .. Len(toCaller) : toCaller[i] # Noise
    BY <2>2 DEF QueryInv, QuietInv
  <2> QED BY <1>2, <1>u, <2>2, <2>3, <2>4 DEF QuietInv
<1>10. FirstInv'
  BY <1>0, <1>2, <1>3, <1>u DEF QueryInv, FirstInv, FreshInv
<1>11. RestoreInv'
  BY <1>2, <1>u DEF RestoreInv
<1> QED BY <1>5, <1>6, <1>7, <1>8, <1>9, <1>10, <1>11 DEF QueryInv

LEMMA PostKeeps == ASSUME QueryInv, Post PROVE QueryInv'
<1> DEFINE lines == <<Ask("INSTCMD")>>
<1>0. QueryTypeOK /\ caller.pc = "post" /\ Writes(lines, "wait")
  BY DEF Post, QueryInv
<1>u. toCaller' = toCaller /\ drv' = drv
  BY DEF Post
<1>1. lines \in Seq(Asks) /\ Len(lines) = 1 /\ lines[1].kind = "INSTCMD" /\ lines[1].id = caller.id
  BY <1>0, AskLine
<1> HIDE DEF lines
<1>2. /\ caller' \in CallerStates /\ toDriver' \in Seq(Asks)
      /\ caller'.id = caller.id /\ caller'.flushed = caller.flushed
      /\ drv.up => /\ caller'.pc = "wait" /\ caller'.result = caller.result
                   /\ Len(toDriver') = Len(toDriver) + Len(lines)
                   /\ \A i \in 1 .. Len(toDriver') :
                         toDriver'[i] = IF i <= Len(toDriver) THEN toDriver[i]
                                        ELSE lines[i - Len(toDriver)]
      /\ ~drv.up => caller'.pc = "finish" /\ caller'.result = Failed /\ toDriver' = toDriver
  BY Zenon, <1>0, <1>1, WriteEffect
<1>3. Len(toDriver) \in Nat /\ caller.id \in Nat
  BY <1>0, FirstOfThree, CallerFields
<1>4. drv.up => /\ Len(toDriver') = Len(toDriver) + 1
                /\ \A i \in 1 .. Len(toDriver) : toDriver'[i] = toDriver[i]
                /\ toDriver'[Len(toDriver')].kind = "INSTCMD"
                /\ toDriver'[Len(toDriver')].id = caller.id
  BY <1>1, <1>2, <1>3
<1>5. QueryTypeOK'
  BY <1>0, <1>2, <1>u DEF QueryTypeOK
<1>6. TrackedInv'
  BY <1>u DEF QueryInv, TrackedInv
<1>7. PostedInv'
  <2>1. \A i \in 1 .. Len(toDriver) : toDriver[i].kind = "INSTCMD" => toDriver[i].id # caller.id
    BY <1>0 DEF QueryInv, PostedInv
  <2>2. drv.done[caller.id] = NotYet /\ caller.id > 0
    BY <1>0 DEF QueryInv, FreshInv
  <2>3. CASE drv.up
    <3> SUFFICES ASSUME NEW i \in 1 .. Len(toDriver'), toDriver'[i].kind = "INSTCMD"
                 PROVE /\ toDriver'[i].id \in 1 .. caller'.id /\ drv'.done[toDriver'[i].id] = NotYet
                       /\ \A j \in 1 .. Len(toDriver') :
                             toDriver'[j].kind = "INSTCMD" /\ toDriver'[j].id = toDriver'[i].id
                             => i = j
                       /\ toDriver'[i].id = caller'.id => caller'.pc \in {"wait", "finish", "idle"}
      BY DEF PostedInv
    <3>0. \A j \in 1 .. Len(toDriver') : j \in 1 .. Len(toDriver) \/ j = Len(toDriver')
      BY <1>3, <1>4, <2>3
    <3>1. CASE i = Len(toDriver')
      BY <1>2, <1>3, <1>4, <1>u, <2>1, <2>2, <2>3, <3>0, <3>1
    <3>2. CASE i \in 1 .. Len(toDriver)
      <4>1. toDriver'[i] = toDriver[i] /\ toDriver[i].id # caller.id
        BY <1>4, <2>1, <2>3, <3>2
      <4>2. /\ toDriver[i].id \in 1 .. caller.id /\ drv.done[toDriver[i].id] = NotYet
            /\ \A j \in 1 .. Len(toDriver) :
                  toDriver[j].kind = "INSTCMD" /\ toDriver[j].id = toDriver[i].id => i = j
        BY Zenon, <3>2, <4>1 DEF QueryInv, PostedInv
      <4>3. ASSUME NEW j \in 1 .. Len(toDriver'), toDriver'[j].kind = "INSTCMD",
                   toDriver'[j].id = toDriver'[i].id
            PROVE i = j
        <5>1. j # Len(toDriver')
          BY Zenon, <1>4, <2>3, <4>1, <4>3
        <5>2. j \in 1 .. Len(toDriver) /\ toDriver'[j] = toDriver[j]
          BY Zenon, <1>4, <2>3, <3>0, <5>1
        <5> QED BY Zenon, <4>1, <4>2, <4>3, <5>2
      <4> QED BY Zenon, <1>2, <1>u, <4>1, <4>2, <4>3
    <3> QED BY <3>0, <3>1, <3>2
  <2>4. CASE ~drv.up
    BY <1>2, <1>u, <2>4 DEF QueryInv, PostedInv
  <2> QED BY <2>3, <2>4
<1>8. FreshInv'
  <2>1. FreshInv /\ caller.pc # "idle"
    BY <1>0 DEF QueryInv
  <2>2. /\ caller'.result = caller.result \/ caller'.result = Failed
        /\ caller.pc \in {"prepare", "flush", "post"}
    BY <1>0, <1>2
  <2> QED BY Zenon, <1>2, <1>u, <2>1, <2>2, FreshKept
<1>9. QuietInv'
  <2> SUFFICES ASSUME caller'.id = 1, caller'.pc # "idle" PROVE QuietInv'
    BY DEF QuietInv
  <2>0. /\ QuietInv /\ caller.id = 1 /\ caller.pc = "post" /\ caller'.pc # "prepare"
        /\ toDriver \in Seq(Asks)
    BY <1>0, <1>2, <1>u DEF QueryInv, QueryTypeOK
  <2>1. ASSUME ~drv.quiet, drv.up PROVE Len(toDriver) >= 1 /\ toDriver[1].kind = "NOBROADCAST"
    <3>1. toDriver # << >> /\ toDriver[1].kind = "NOBROADCAST"
      BY <2>0, <2>1 DEF QuietInv
    <3> QED BY <1>3, <2>0, <3>1
  <2>2. drv.up => toDriver' # << >>
    BY <1>3, <1>4
  <2>3. drv.up => \A i \in 1 .. Len(toDriver') : i \in 1 .. Len(toDriver) \/ i = Len(toDriver')
    BY <1>3, <1>4
  <2>4. \A i \in 1 .. Len(toDriver') : toDriver'[i].kind # "BROADCAST"
    <3>1. \A i \in 1 .. Len(toDriver) : toDriver[i].kind # "BROADCAST"
      BY <2>0 DEF QuietInv
    <3> QED BY <1>2, <1>4, <2>3, <3>1
  <2>5. ASSUME ~drv'.quiet, drv'.up PROVE toDriver' # << >> /\ toDriver'[1].kind = "NOBROADCAST"
    BY <1>3, <1>4, <1>u, <2>1, <2>2, <2>5
  <2> QED BY <1>2, <1>u, <2>0, <2>4, <2>5 DEF QuietInv
<1>10. FirstInv'
  BY <1>0, <1>2, <1>3, <1>u DEF QueryInv, FirstInv, FreshInv
<1>11. RestoreInv'
  BY <1>2, <1>u DEF RestoreInv
<1> QED BY <1>5, <1>6, <1>7, <1>8, <1>9, <1>10, <1>11 DEF QueryInv
LEMMA BeginKeeps == ASSUME QueryInv, Begin PROVE QueryInv'
<1>0. QueryTypeOK /\ caller.pc = "idle" /\ caller.id < MaxQueries /\ caller.id \in Nat
  BY CallerFields DEF Begin, QueryInv
<1>u. toCaller' = toCaller /\ drv' = drv /\ toDriver' = toDriver
  BY DEF Begin
<1>1. /\ caller'.pc = "prepare" /\ caller'.id = caller.id + 1 /\ caller'.flushed = FALSE
      /\ caller'.result = NotYet
  BY DEF Begin
<1>2. caller' \in CallerStates
  BY <1>0, QueryAssumption DEF Begin, CallerStates
<1>3. caller.id + 1 \in 1 .. MaxQueries
  BY <1>0, QueryAssumption
<1>5. QueryTypeOK'
  BY <1>0, <1>2, <1>u DEF QueryTypeOK
<1>6. TrackedInv'
  BY <1>u DEF QueryInv, TrackedInv
<1>7. PostedInv'
  <2>1. \A id : id \in 1 .. caller.id => id \in 1 .. caller'.id /\ id # caller'.id
    BY <1>0, <1>1
  <2> QED BY <1>u, <2>1 DEF QueryInv, PostedInv
<1>8. FreshInv'
  BY <1>0, <1>1, <1>3, <1>u, Constants DEF QueryInv, FreshInv, ResultIsOwn
<1>9. QuietInv'
  <2> SUFFICES ASSUME caller'.id = 1 PROVE QuietInv'
    BY Zenon DEF QuietInv
  <2>1. caller.id = 0
    BY <1>0, <1>1
  <2>2. toDriver = << >> /\ \A i \in 1 .. Len(toCaller) : toCaller[i] # Pong
    BY <2>1 DEF QueryInv, FirstInv
  <2>3. 1 .. Len(toDriver) = {}
    BY <2>2
  <2> QED BY Zenon, <1>1, <1>u, <2>2, <2>3 DEF QuietInv
<1>10. FirstInv'
  BY <1>0, <1>1 DEF FirstInv
<1>11. RestoreInv'
  BY <1>1 DEF RestoreInv
<1> QED BY <1>5, <1>6, <1>7, <1>8, <1>9, <1>10, <1>11 DEF QueryInv

LEMMA FinishKeeps == ASSUME QueryInv, Finish PROVE QueryInv'
<1>0. /\ QueryTypeOK /\ caller.pc = "finish" /\ caller.id \in Nat /\ Len(toDriver) \in Nat
      /\ toDriver \in Seq(Asks)
  BY CallerFields, FirstOfThree DEF Finish, QueryInv, QueryTypeOK
<1>u. toCaller' = toCaller /\ drv' = drv /\ caller' = [caller EXCEPT !.pc = "idle"]
  BY DEF Finish
<1>1. /\ caller' \in CallerStates /\ caller'.pc = "idle" /\ caller'.id = caller.id
      /\ caller'.result = caller.result /\ caller'.flushed = caller.flushed
  BY <1>0, <1>u, PcChange
<1> DEFINE line == Ask("BROADCAST")
<1>2. line \in Asks /\ line.kind = "BROADCAST"
  BY <1>0, AskLine
<1>3. toDriver' = IF drv.up THEN Append(toDriver, line) ELSE toDriver
  BY DEF Finish
<1> HIDE DEF line
<1>4. /\ toDriver' \in Seq(Asks)
      /\ drv.up => /\ Len(toDriver') = Len(toDriver) + 1 /\ toDriver'[Len(toDriver')] = line
                   /\ \A i \in 1 .. Len(toDriver) : toDriver'[i] = toDriver[i]
      /\ ~drv.up => toDriver' = toDriver
  BY <1>0, <1>2, <1>3, AppendProperties
<1>5. QueryTypeOK'
  BY <1>0, <1>1, <1>4, <1>u DEF QueryTypeOK
<1>6. TrackedInv'
  BY <1>u DEF QueryInv, TrackedInv
<1>7. PostedInv'
  <2>1. \A i \in 1 .. Len(toDriver') : toDriver'[i].kind = "INSTCMD" =>
           i \in 1 .. Len(toDriver) /\ toDriver'[i] = toDriver[i]
    BY <1>0, <1>2, <1>4
  <2> QED BY <1>1, <1>u, <2>1, NoCommandAdded DEF QueryInv
<1>8. FreshInv'
  BY <1>0, <1>1, <1>u DEF QueryInv, FreshInv, ResultIsOwn
<1>9. QuietInv'
  BY <1>1 DEF QuietInv
<1>10. FirstInv'
  BY <1>0, <1>1, <1>u DEF QueryInv, FirstInv, FreshInv
<1>11. RestoreInv'
  <2>1. drv.up => toDriver' # << >>
    BY <1>0, <1>4
  <2> QED BY <1>1, <1>2, <1>4, <1>u, <2>1 DEF RestoreInv
<1> QED BY <1>5, <1>6, <1>7, <1>8, <1>9, <1>10, <1>11 DEF QueryInv

(* The wait is given up: for the PONG, and for the answer. *)
LEMMA ExpiryKeeps == ASSUME QueryInv, FlushExpires \/ WaitFails PROVE QueryInv'
<1>0. QueryTypeOK /\ caller.id \in Nat
  BY CallerFields DEF QueryInv
<1>u. toCaller' = toCaller /\ drv' = drv /\ toDriver' = toDriver
  BY DEF FlushExpires, WaitFails
<1>1. /\ caller' \in CallerStates /\ caller'.id = caller.id /\ caller'.flushed = caller.flushed
      /\ \/ caller.pc = "flush" /\ caller'.pc = "post" /\ caller'.result = caller.result
         \/ caller.pc = "wait" /\ caller'.pc = "finish" /\ caller'.result = Failed
  <2>1. CASE FlushExpires
    BY <1>0, <2>1, PcChange DEF FlushExpires
  <2>2. CASE WaitFails
    BY Zenon, <1>0, <2>2, Returned DEF WaitFails, Returns
  <2> QED BY <2>1, <2>2
<1>5. QueryTypeOK'
  BY <1>0, <1>1, <1>u DEF QueryTypeOK
<1>6. TrackedInv'
  BY <1>u DEF QueryInv, TrackedInv
<1>7. PostedInv'
  BY <1>1, <1>u DEF QueryInv, PostedInv
<1>8. FreshInv'
  <2>1. FreshInv /\ caller.pc # "idle"
    BY <1>1 DEF QueryInv
  <2>2. /\ caller'.result = caller.result \/ caller'.result = Failed
        /\ caller'.pc \in {"prepare", "flush", "post"} => caller.pc \in {"prepare", "flush", "post"}
    BY <1>1
  <2> QED BY Zenon, <1>1, <1>u, <2>1, <2>2, FreshKept
<1>9. QuietInv'
  BY <1>0, <1>1, <1>u DEF QueryInv, QuietInv
<1>10. FirstInv'
  BY <1>0, <1>1, <1>u DEF QueryInv, FirstInv
<1>11. RestoreInv'
  BY <1>1 DEF RestoreInv
<1> QED BY <1>5, <1>6, <1>7, <1>8, <1>9, <1>10, <1>11 DEF QueryInv
(* What is left after a read says no more than what was there, and in the    *)
(* same order; what was read was there before it.                            *)
LEMMA ReadKeeps ==
    ASSUME QueryInv, NEW read \in Reads, toCaller' = read.left, drv' = drv
    PROVE /\ toCaller' \in Seq(Replies) /\ TrackedInv'
          /\ \A line \in read.whole : line.kind = "tracking" =>
                line.status \in Statuses /\ drv.done[line.id] = line.status
          /\ \A line \in {Noise, Pong} :
                (\A i \in 1 .. Len(toCaller) : toCaller[i] # line) =>
                   line \notin read.whole /\ \A i \in 1 .. Len(toCaller') : toCaller'[i] # line
          /\ (\A i, j \in 1 .. Len(toCaller) : toCaller[i] = Pong /\ i < j => toCaller[j] # Noise) =>
                /\ \A i, j \in 1 .. Len(toCaller') : toCaller'[i] = Pong /\ i < j => toCaller'[j] # Noise
                /\ Pong \in read.whole => \A i \in 1 .. Len(toCaller') : toCaller'[i] # Noise
<1>0. QueryTypeOK /\ TrackedInv
  BY DEF QueryInv
<1>1. PICK m \in 0 .. Len(toCaller) :
         /\ \A line \in read.whole : \E i \in 1 .. m : line = toCaller[i]
         /\ \A j \in 1 .. Len(read.left) :
               \/ read.left[j] = Rest
               \/ m + j \in 1 .. Len(toCaller) /\ read.left[j] = toCaller[m + j]
  BY <1>0, ReadEffect
<1>2. toCaller' \in Seq(Replies) /\ Len(toCaller') \in Nat /\ Len(toCaller) \in Nat
  BY <1>0, ReadEffect, FirstOfThree
<1>3. \A j \in 1 .. Len(toCaller') :
         \/ toCaller'[j] = Rest
         \/ m + j \in 1 .. Len(toCaller) /\ toCaller'[j] = toCaller[m + j]
  BY <1>1
<1>4. \A line \in read.whole : \E i \in 1 .. Len(toCaller) : i <= m /\ line = toCaller[i]
  BY <1>1, <1>2
<1>5. TrackedInv'
  BY Zenon, <1>0, <1>3, ReplyLines DEF TrackedInv
<1>6. \A line \in read.whole : line.kind = "tracking" =>
         line.status \in Statuses /\ drv.done[line.id] = line.status
  BY <1>0, <1>4 DEF TrackedInv
<1>7. \A line \in {Noise, Pong} :
         (\A i \in 1 .. Len(toCaller) : toCaller[i] # line) =>
            line \notin read.whole /\ \A i \in 1 .. Len(toCaller') : toCaller'[i] # line
  BY <1>3, <1>4, ReplyLines
<1>8. ASSUME \A i, j \in 1 .. Len(toCaller) : toCaller[i] = Pong /\ i < j => toCaller[j] # Noise
      PROVE /\ \A i, j \in 1 .. Len(toCaller') : toCaller'[i] = Pong /\ i < j => toCaller'[j] # Noise
            /\ Pong \in read.whole => \A i \in 1 .. Len(toCaller') : toCaller'[i] # Noise
  <2>1. ASSUME NEW i \in 1 .. Len(toCaller'), NEW j \in 1 .. Len(toCaller'),
               toCaller'[i] = Pong, i < j, toCaller'[j] = Noise
        PROVE FALSE
    <3>1. /\ m + i \in 1 .. Len(toCaller) /\ toCaller[m + i] = Pong
          /\ m + j \in 1 .. Len(toCaller) /\ toCaller[m + j] = Noise
      BY <1>3, <2>1, ReplyLines
    <3>2. m + i < m + j
      BY <1>2, <2>1
    <3> QED BY <1>8, <3>1, <3>2
  <2>2. ASSUME Pong \in read.whole, NEW j \in 1 .. Len(toCaller'), toCaller'[j] = Noise
        PROVE FALSE
    <3>1. PICK i \in 1 .. Len(toCaller) : i <= m /\ toCaller[i] = Pong
      BY <1>4, <2>2
    <3>2. m + j \in 1 .. Len(toCaller) /\ toCaller[m + j] = Noise
      BY <1>3, <2>2, ReplyLines
    <3>3. i < m + j
      BY <1>2, <3>1
    <3> QED BY <1>8, <3>1, <3>2, <3>3
  <2> QED BY <2>1, <2>2
<1> QED BY <1>2, <1>5, <1>6, <1>7, <1>8

LEMMA FlushKeeps == ASSUME QueryInv, Flush PROVE QueryInv'
<1>0. QueryTypeOK /\ caller.pc = "flush" /\ caller.id \in Nat
  BY CallerFields DEF QueryInv, Flush
<1>u. toDriver' = toDriver /\ drv' = drv
  BY DEF Flush
<1>1. PICK read \in Reads :
         /\ toCaller' = read.left
         /\ caller' = IF Pong \in read.whole
                      THEN [caller EXCEPT !.pc = "post", !.flushed = TRUE] ELSE caller
  BY DEF Flush
<1>2. /\ caller' \in CallerStates /\ caller'.id = caller.id /\ caller'.result = caller.result
      /\ IF Pong \in read.whole THEN caller'.pc = "post" /\ caller'.flushed ELSE caller' = caller
  <2>1. CASE Pong \in read.whole
    BY <1>0, <1>1, <2>1, PongSeen
  <2>2. CASE Pong \notin read.whole
    BY <1>0, <1>1, <2>2 DEF QueryTypeOK
  <2> QED BY <2>1, <2>2
<1>3. /\ toCaller' \in Seq(Replies) /\ TrackedInv'
      /\ \A line \in {Noise, Pong} :
            (\A i \in 1 .. Len(toCaller) : toCaller[i] # line) =>
               line \notin read.whole /\ \A i \in 1 .. Len(toCaller') : toCaller'[i] # line
      /\ (\A i, j \in 1 .. Len(toCaller) : toCaller[i] = Pong /\ i < j => toCaller[j] # Noise) =>
            /\ \A i, j \in 1 .. Len(toCaller') : toCaller'[i] = Pong /\ i < j => toCaller'[j] # Noise
            /\ Pong \in read.whole => \A i \in 1 .. Len(toCaller') : toCaller'[i] # Noise
  BY <1>1, <1>u, ReadKeeps
<1>5. QueryTypeOK'
  BY <1>0, <1>2, <1>3, <1>u DEF QueryTypeOK
<1>7. PostedInv'
  BY <1>0, <1>2, <1>u DEF QueryInv, PostedInv
<1>8. FreshInv'
  BY <1>0, <1>2, <1>u DEF QueryInv, FreshInv, ResultIsOwn
<1>9. QuietInv'
  <2> SUFFICES ASSUME caller.id = 1
               PROVE QuietInv'
    BY <1>2 DEF QuietInv
  <2>1. /\ \A i \in 1 .. Len(toDriver) : toDriver[i].kind # "BROADCAST"
        /\ ~drv.quiet =>
              /\ \A i \in 1 .. Len(toCaller) : toCaller[i] # Pong
              /\ ~caller.flushed
              /\ drv.up => toDriver # << >> /\ toDriver[1].kind = "NOBROADCAST"
        /\ \A i, j \in 1 .. Len(toCaller) : toCaller[i] = Pong /\ i < j => toCaller[j] # Noise
        /\ caller.flushed => \A i \in 1 .. Len(toCaller) : toCaller[i] # Noise
    BY <1>0 DEF QueryInv, QuietInv
  <2>2. ~drv.quiet => Pong \notin read.whole
    BY Zenon, <1>3, <2>1
  <2>3. /\ \A i \in 1 .. Len(toDriver') : toDriver'[i].kind # "BROADCAST"
        /\ ~drv'.quiet => /\ \A i \in 1 .. Len(toCaller') : toCaller'[i] # Pong
                          /\ ~caller'.flushed
                          /\ drv'.up => toDriver' # << >> /\ toDriver'[1].kind = "NOBROADCAST"
    BY <1>2, <1>3, <1>u, <2>1, <2>2
  <2>4. caller'.flushed => \A i \in 1 .. Len(toCaller') : toCaller'[i] # Noise
    BY <1>2, <1>3, <2>1
  <2>5. \A i, j \in 1 .. Len(toCaller') : toCaller'[i] = Pong /\ i < j => toCaller'[j] # Noise
    BY Zenon, <1>3, <2>1
  <2>6. caller'.pc # "prepare"
    BY <1>0, <1>2
  <2> QED BY <2>3, <2>4, <2>5, <2>6 DEF QuietInv
<1>10. FirstInv'
  BY <1>0, <1>2, <1>u DEF QueryInv, FirstInv, FreshInv
<1>11. RestoreInv'
  BY <1>0, <1>2 DEF RestoreInv
<1> QED BY <1>3, <1>5, <1>7, <1>8, <1>9, <1>10, <1>11 DEF QueryInv

LEMMA WaitReplyKeeps == ASSUME QueryInv, WaitReply PROVE QueryInv'
<1>0. QueryTypeOK /\ caller.pc = "wait" /\ caller.id \in Nat
  BY Zenon, CallerFields DEF QueryInv, WaitReply
<1>u. toDriver' = toDriver /\ drv' = drv
  BY DEF WaitReply
<1>1. PICK read \in Reads :
         /\ toCaller' = read.left
         /\ \/ \E line \in Own(read.whole) : Returns(line.status)
            \/ Own(read.whole) = {} /\ Own(read.part) # {} /\ Returns(Failed)
            \/ Own(read.whole \cup read.part) = {} /\ UNCHANGED caller
  BY Zenon DEF WaitReply
<1>3. /\ toCaller' \in Seq(Replies) /\ TrackedInv'
      /\ \A line \in read.whole : line.kind = "tracking" =>
            line.status \in Statuses /\ drv.done[line.id] = line.status
      /\ \A line \in {Noise, Pong} :
            (\A i \in 1 .. Len(toCaller) : toCaller[i] # line) =>
               \A i \in 1 .. Len(toCaller') : toCaller'[i] # line
      /\ (\A i, j \in 1 .. Len(toCaller) : toCaller[i] = Pong /\ i < j => toCaller[j] # Noise) =>
            \A i, j \in 1 .. Len(toCaller') : toCaller'[i] = Pong /\ i < j => toCaller'[j] # Noise
  BY Zenon, <1>1, <1>u, ReadKeeps
<1>2. /\ caller' \in CallerStates /\ caller'.id = caller.id /\ caller'.flushed = caller.flushed
      /\ caller'.pc \in {"wait", "finish"}
      /\ caller'.result >= 0 => drv.done[caller.id] = caller'.result
  <2>1. CASE \E line \in Own(read.whole) : Returns(line.status)
    <3>1. PICK line \in read.whole : line.kind = "tracking" /\ line.id = caller.id /\ Returns(line.status)
      BY <2>1 DEF Own
    <3>2. line.status \in Statuses /\ drv.done[line.id] = line.status
      BY Zenon, <1>3, <3>1
    <3> QED BY Zenon, <1>0, <3>1, <3>2, Returned DEF Returns
  <2>2. CASE Returns(Failed)
    <3>1. Failed \in Statuses \cup {Failed, NotYet} /\ ~(Failed >= 0)
      BY DEF Failed
    <3>2. caller' = [caller EXCEPT !.pc = "finish", !.result = Failed]
      BY <2>2 DEF Returns
    <3> QED BY Zenon, <1>0, <3>1, <3>2, Returned
  <2>3. CASE UNCHANGED caller
    BY Zenon, <1>0, <2>3 DEF QueryTypeOK, QueryInv, FreshInv, ResultIsOwn
  <2> QED BY <1>1, <2>1, <2>2, <2>3
<1>5. QueryTypeOK'
  BY <1>0, <1>2, <1>3, <1>u DEF QueryTypeOK
<1>7. PostedInv'
  BY <1>0, <1>2, <1>u DEF QueryInv, PostedInv
<1>8. FreshInv'
  BY <1>0, <1>2, <1>u DEF QueryInv, FreshInv, ResultIsOwn
<1>9. QuietInv'
  <2> SUFFICES ASSUME caller.id = 1
               PROVE QuietInv'
    BY <1>2 DEF QuietInv
  <2>1. /\ \A i \in 1 .. Len(toDriver) : toDriver[i].kind # "BROADCAST"
        /\ ~drv.quiet =>
              /\ \A i \in 1 .. Len(toCaller) : toCaller[i] # Pong
              /\ ~caller.flushed
              /\ drv.up => toDriver # << >> /\ toDriver[1].kind = "NOBROADCAST"
        /\ \A i, j \in 1 .. Len(toCaller) : toCaller[i] = Pong /\ i < j => toCaller[j] # Noise
        /\ caller.flushed => \A i \in 1 .. Len(toCaller) : toCaller[i] # Noise
    BY Zenon, <1>0 DEF QueryInv, QuietInv
  <2>3. /\ \A i \in 1 .. Len(toDriver') : toDriver'[i].kind # "BROADCAST"
        /\ ~drv'.quiet => /\ \A i \in 1 .. Len(toCaller') : toCaller'[i] # Pong
                          /\ ~caller'.flushed
                          /\ drv'.up => toDriver' # << >> /\ toDriver'[1].kind = "NOBROADCAST"
    BY <1>2, <1>3, <1>u, <2>1
  <2>4. caller'.flushed => \A i \in 1 .. Len(toCaller') : toCaller'[i] # Noise
    BY <1>2, <1>3, <2>1
  <2>5. \A i, j \in 1 .. Len(toCaller') : toCaller'[i] = Pong /\ i < j => toCaller'[j] # Noise
    BY <1>3, <2>1
  <2>6. caller'.pc # "prepare"
    BY <1>2
  <2> QED BY <2>3, <2>4, <2>5, <2>6 DEF QuietInv
<1>10. FirstInv'
  <2>1. caller.id > 0
    BY <1>0 DEF QueryInv, FreshInv
  <2>2. caller'.id # 0
    BY <1>0, <1>2, <2>1
  <2> QED BY <2>2 DEF FirstInv
<1>11. RestoreInv'
  BY <1>2 DEF RestoreInv
<1> QED BY Zenon, <1>3, <1>5, <1>7, <1>8, <1>9, <1>10, <1>11 DEF QueryInv
-----------------------------------------------------------------------------
(* The steps of the driver *)

LEMMA SetQuiet ==
    ASSUME QueryTypeOK, NEW quiet \in BOOLEAN, drv' = [drv EXCEPT !.quiet = quiet]
    PROVE drv' \in DrvStates /\ drv'.done = drv.done /\ drv'.up = drv.up /\ drv'.quiet = quiet
<1> QED BY Zenon DEF QueryTypeOK, DrvStates

LEMMA SetDone ==
    ASSUME QueryTypeOK, NEW id \in 1 .. MaxQueries, NEW status \in Statuses,
           drv' = [drv EXCEPT !.done[id] = status]
    PROVE /\ drv' \in DrvStates /\ drv'.up = drv.up /\ drv'.quiet = drv.quiet
          /\ drv'.done[id] = status
          /\ \A other \in 1 .. MaxQueries : other # id => drv'.done[other] = drv.done[other]
<1> DEFINE d == [drv.done EXCEPT ![id] = status]
<1>1. drv.done \in [1 .. MaxQueries -> Statuses \cup {NotYet}]
  BY DEF QueryTypeOK, DrvStates
<1>2. /\ d \in [1 .. MaxQueries -> Statuses \cup {NotYet}] /\ d[id] = status
      /\ \A other \in 1 .. MaxQueries : other # id => d[other] = drv.done[other]
  BY Zenon, <1>1
<1>3. drv' = [drv EXCEPT !.done = d]
  OBVIOUS
<1> HIDE DEF d
<1>4. drv' \in DrvStates /\ drv'.up = drv.up /\ drv'.quiet = drv.quiet /\ drv'.done = d
  BY <1>2, <1>3, Zenon DEF QueryTypeOK, DrvStates
<1> QED BY Zenon, <1>2, <1>4

(* What the driver reads is the first line; the others move up. *)
LEMMA TakesLine ==
    ASSUME QueryTypeOK, toDriver # << >>, toDriver' = Tail(toDriver)
    PROVE /\ Len(toDriver) \in Nat /\ Len(toDriver) >= 1 /\ Head(toDriver) = toDriver[1]
          /\ toDriver[1] \in Asks /\ toDriver' \in Seq(Asks)
          /\ Len(toDriver') = Len(toDriver) - 1
          /\ \A i \in 1 .. Len(toDriver') :
                i + 1 \in 1 .. Len(toDriver) /\ toDriver'[i] = toDriver[i + 1]
<1>1. toDriver \in Seq(Asks) /\ Len(toDriver) \in Nat /\ Len(toDriver) >= 1
  BY DEF QueryTypeOK
<1>2. /\ Head(toDriver) = toDriver[1] /\ Tail(toDriver) \in Seq(Asks)
      /\ Len(Tail(toDriver)) = Len(toDriver) - 1
      /\ \A i \in 1 .. Len(Tail(toDriver)) : Tail(toDriver)[i] = toDriver[i + 1]
  BY <1>1, HeadTailProperties
<1>3. toDriver[1] \in Asks
  BY <1>1, FirstOfThree
<1> QED BY <1>1, <1>2, <1>3

(* Taking a line off leaves the commands behind it as they were. *)
LEMMA CommandsMoveUp ==
    ASSUME QueryInv, toDriver # << >>, toDriver' = Tail(toDriver), caller' = caller,
           \A i \in 1 .. Len(toDriver') : toDriver'[i].kind = "INSTCMD" =>
              drv'.done[toDriver'[i].id] = drv.done[toDriver'[i].id]
    PROVE PostedInv'
<1>0. QueryTypeOK /\ PostedInv
  BY DEF QueryInv
<1>1. /\ Len(toDriver) \in Nat
      /\ \A i \in 1 .. Len(toDriver') :
            i + 1 \in 1 .. Len(toDriver) /\ toDriver'[i] = toDriver[i + 1]
  BY Zenon, <1>0, TakesLine
<1> SUFFICES ASSUME NEW i \in 1 .. Len(toDriver'), toDriver'[i].kind = "INSTCMD"
             PROVE /\ toDriver'[i].id \in 1 .. caller'.id /\ drv'.done[toDriver'[i].id] = NotYet
                   /\ \A j \in 1 .. Len(toDriver') :
                         toDriver'[j].kind = "INSTCMD" /\ toDriver'[j].id = toDriver'[i].id => i = j
                   /\ toDriver'[i].id = caller'.id => caller'.pc \in {"wait", "finish", "idle"}
  BY Zenon DEF PostedInv
<1>2. i + 1 \in 1 .. Len(toDriver) /\ toDriver'[i] = toDriver[i + 1]
  BY <1>1
<1>3. /\ toDriver'[i].id \in 1 .. caller'.id /\ drv'.done[toDriver'[i].id] = NotYet
      /\ toDriver'[i].id = caller'.id => caller'.pc \in {"wait", "finish", "idle"}
  BY <1>0, <1>2 DEF PostedInv
<1>4. ASSUME NEW j \in 1 .. Len(toDriver'), toDriver'[j].kind = "INSTCMD",
             toDriver'[j].id = toDriver'[i].id
      PROVE i = j
  <2>1. j + 1 \in 1 .. Len(toDriver) /\ toDriver'[j] = toDriver[j + 1]
    BY <1>1
  <2>2. j + 1 = i + 1
    BY <1>0, <1>2, <1>4, <2>1 DEF PostedInv
  <2> QED BY <2>2
<1> QED BY Zenon, <1>3, <1>4

(* What is left of a step of the driver once its effect is known: it reads a *)
(* line and answers PING and a command, the command once.                    *)
LEMMA HandlesKeeps == ASSUME QueryInv, DriverHandles PROVE QueryInv'
<1> DEFINE line == toDriver[1]
           n == Len(toDriver)
<1>0. /\ QueryTypeOK /\ drv.up /\ toDriver # << >> /\ toDriver' = Tail(toDriver)
      /\ caller' = caller /\ Head(toDriver) = line
  BY TakesLine DEF QueryInv, DriverHandles
<1>1. /\ n \in Nat /\ n >= 1 /\ line \in Asks /\ toDriver' \in Seq(Asks)
      /\ Len(toDriver') = n - 1
      /\ \A i \in 1 .. Len(toDriver') : i + 1 \in 1 .. n /\ toDriver'[i] = toDriver[i + 1]
  BY <1>0, TakesLine
<1>c. caller.id \in Nat /\ caller.id \in 0 .. MaxQueries
  BY <1>0, CallerFields
<1>l. toCaller \in Seq(Replies) /\ Len(toCaller) \in Nat
  BY <1>0 DEF QueryTypeOK
<1>2. \/ line.kind = "NOBROADCAST" /\ drv' = [drv EXCEPT !.quiet = TRUE] /\ toCaller' = toCaller
      \/ line.kind = "BROADCAST" /\ drv' = [drv EXCEPT !.quiet = FALSE] /\ toCaller' = toCaller
      \/ line.kind = "PING" /\ toCaller' = Append(toCaller, Pong) /\ drv' = drv
      \/ /\ line.kind = "INSTCMD"
         /\ \E status \in Statuses : /\ drv' = [drv EXCEPT !.done[line.id] = status]
                                     /\ toCaller' = Append(toCaller, Tracking(line.id, status))
  BY <1>0 DEF DriverHandles
<1>3. FirstInv' /\ caller.id > 0
  <2>1. caller.id # 0
    BY <1>0 DEF QueryInv, FirstInv
  <2> QED BY <1>0, <1>c, <2>1 DEF FirstInv
<1> DEFINE OneLine(new) == /\ toCaller' \in Seq(Replies) /\ Len(toCaller') = Len(toCaller) + 1
                           /\ toCaller'[Len(toCaller) + 1] = new
                           /\ \A i \in 1 .. Len(toCaller) : toCaller'[i] = toCaller[i]
<1>a. ASSUME NEW new \in Replies, toCaller' = Append(toCaller, new)
      PROVE OneLine(new)
  BY <1>l, <1>a, AppendProperties
<1>q. ASSUME caller.id = 1, caller.pc # "idle"
      PROVE /\ \A i \in 1 .. Len(toDriver') : toDriver'[i].kind # "BROADCAST"
            /\ line.kind # "BROADCAST" /\ caller.pc # "prepare"
            /\ ~drv.quiet => line.kind = "NOBROADCAST"
  BY <1>0, <1>1, <1>q DEF QueryInv, QuietInv
<1>r. ASSUME caller.pc = "idle"
      PROVE IF n = 1 THEN line.kind = "BROADCAST"
            ELSE toDriver' # << >> /\ toDriver'[Len(toDriver')].kind = "BROADCAST"
  <2>1. toDriver[n].kind = "BROADCAST"
    BY <1>0, <1>r DEF QueryInv, RestoreInv
  <2>2. n # 1 => Len(toDriver') \in 1 .. Len(toDriver') /\ Len(toDriver') + 1 = n
    BY <1>1
  <2>3. n # 1 => toDriver' # << >>
    BY <1>1
  <2> QED BY <1>1, <2>1, <2>2, <2>3
<1>e. n = 1 => toDriver' = << >>
  BY <1>1
<1>4. CASE /\ line.kind \in {"NOBROADCAST", "BROADCAST"} /\ toCaller' = toCaller
           /\ drv' = [drv EXCEPT !.quiet = (line.kind = "NOBROADCAST")]
  <2>1. /\ drv' \in DrvStates /\ drv'.done = drv.done /\ drv'.up = drv.up
        /\ drv'.quiet = (line.kind = "NOBROADCAST")
    BY Zenon, <1>0, <1>4, SetQuiet
  <2>2. QueryTypeOK' /\ TrackedInv'
    BY <1>0, <1>1, <1>4, <2>1 DEF QueryTypeOK, QueryInv, TrackedInv
  <2>3. PostedInv'
    BY <1>0, <2>1, CommandsMoveUp
  <2>4. FreshInv'
    BY <1>0, <2>1 DEF QueryInv, FreshInv, ResultIsOwn
  <2>5. QuietInv'
    BY Zenon, <1>0, <1>4, <1>q, <2>1 DEF QueryInv, QuietInv
  <2>6. RestoreInv'
    BY Zenon, <1>0, <1>e, <1>r, <2>1 DEF RestoreInv
  <2> QED BY <1>3, <2>2, <2>3, <2>4, <2>5, <2>6 DEF QueryInv
<1>5. CASE line.kind = "PING" /\ toCaller' = Append(toCaller, Pong) /\ drv' = drv
  <2>1. OneLine(Pong)
    BY <1>5, <1>a, ReplyLines
  <2>i. \A i \in 1 .. Len(toCaller') : i \in 1 .. Len(toCaller) \/ toCaller'[i] = Pong
    BY <1>l, <2>1
  <2>2. QueryTypeOK'
    BY <1>0, <1>1, <1>5, <2>1 DEF QueryTypeOK
  <2>3. TrackedInv'
    BY <1>5, <2>1, <2>i, ReplyLines DEF QueryInv, TrackedInv
  <2>4. PostedInv'
    BY <1>0, <1>5, CommandsMoveUp
  <2>5. FreshInv'
    BY <1>0, <1>5 DEF QueryInv, FreshInv, ResultIsOwn
  <2>6. QuietInv'
    <3> SUFFICES ASSUME caller.id = 1, caller.pc # "idle" PROVE QuietInv'
      BY <1>0 DEF QuietInv
    <3>1. drv'.quiet /\ caller.pc # "prepare"
      BY <1>5, <1>q
    <3>2. /\ \A i, j \in 1 .. Len(toCaller) : toCaller[i] = Pong /\ i < j => toCaller[j] # Noise
          /\ caller.flushed => \A i \in 1 .. Len(toCaller) : toCaller[i] # Noise
      BY DEF QueryInv, QuietInv
    <3>3. \A i, j \in 1 .. Len(toCaller') : toCaller'[i] = Pong /\ i < j => toCaller'[j] # Noise
      <4> SUFFICES ASSUME NEW i \in 1 .. Len(toCaller'), NEW j \in 1 .. Len(toCaller'),
                          toCaller'[i] = Pong, i < j
                   PROVE toCaller'[j] # Noise
        OBVIOUS
      <4>1. CASE j \in 1 .. Len(toCaller)
        <5>1. i \in 1 .. Len(toCaller)
          BY <1>l, <4>1
        <5>2. toCaller'[i] = toCaller[i] /\ toCaller'[j] = toCaller[j]
          BY Zenon, <2>1, <4>1, <5>1
        <5> QED BY Zenon, <3>2, <4>1, <5>1, <5>2
      <4>2. CASE j \notin 1 .. Len(toCaller)
        BY Zenon, <2>i, ReplyLines, <4>2
      <4> QED BY <4>1, <4>2
    <3>4. caller'.flushed => \A i \in 1 .. Len(toCaller') : toCaller'[i] # Noise
      BY <1>0, <2>1, <2>i, <3>2, ReplyLines
    <3> QED BY <1>0, <1>q, <3>1, <3>3, <3>4 DEF QuietInv
  <2>7. RestoreInv'
    BY <1>0, <1>5, <1>r DEF RestoreInv
  <2> QED BY <1>3, <2>2, <2>3, <2>4, <2>5, <2>6, <2>7 DEF QueryInv
<1>6. CASE /\ line.kind = "INSTCMD"
           /\ \E status \in Statuses : /\ drv' = [drv EXCEPT !.done[line.id] = status]
                                       /\ toCaller' = Append(toCaller, Tracking(line.id, status))
  <2>0. PICK status \in Statuses : /\ drv' = [drv EXCEPT !.done[line.id] = status]
                                   /\ toCaller' = Append(toCaller, Tracking(line.id, status))
    BY <1>6
  <2> DEFINE id == line.id
             new == Tracking(id, status)
  <2>1. 1 \in 1 .. n
    BY <1>1
  <2>2. /\ id \in 1 .. caller.id /\ drv.done[id] = NotYet
        /\ \A j \in 1 .. n : toDriver[j].kind = "INSTCMD" /\ toDriver[j].id = id => 1 = j
        /\ id = caller.id => caller.pc \in {"wait", "finish", "idle"}
    BY <1>6, <2>1 DEF QueryInv, PostedInv
  <2>3. id \in 1 .. MaxQueries /\ id \in 0 .. MaxQueries
    BY <1>c, <2>2, QueryAssumption
  <2>4. new \in Replies /\ new.kind = "tracking" /\ new.id = id /\ new.status = status
    BY <2>3, TrackingLine
  <2>5. /\ drv' \in DrvStates /\ drv'.up = drv.up /\ drv'.quiet = drv.quiet
        /\ drv'.done[id] = status
        /\ \A other \in 1 .. MaxQueries : other # id => drv'.done[other] = drv.done[other]
    BY Zenon, <1>0, <2>0, <2>3, SetDone
  <2>6. OneLine(new)
    BY <1>a, <2>0, <2>4
  <2>7. status \in Nat /\ status # NotYet
    BY Constants
  <2> HIDE DEF id, new
  <2>i. \A i \in 1 .. Len(toCaller') : i \in 1 .. Len(toCaller) \/ toCaller'[i] = new
    BY <1>l, <2>6
  <2>8. QueryTypeOK'
    BY <1>0, <1>1, <2>5, <2>6 DEF QueryTypeOK
  <2>9. TrackedInv'
    <3>1. \A i \in 1 .. Len(toCaller) : toCaller[i].kind = "tracking" =>
             /\ toCaller[i].id \in 1 .. MaxQueries /\ toCaller[i].status \in Statuses
             /\ drv.done[toCaller[i].id] = toCaller[i].status
      BY DEF QueryInv, TrackedInv
    <3>2. \A i \in 1 .. Len(toCaller) : toCaller[i].kind = "tracking" => toCaller[i].id # id
      <4>1. \A other \in Statuses : other # NotYet
        BY Constants
      <4> QED BY Zenon, <2>2, <3>1, <4>1
    <3>3. ASSUME NEW i \in 1 .. Len(toCaller'), toCaller'[i].kind = "tracking"
          PROVE /\ toCaller'[i].id \in 1 .. MaxQueries /\ toCaller'[i].status \in Statuses
                /\ drv'.done[toCaller'[i].id] = toCaller'[i].status
      <4>1. CASE i \in 1 .. Len(toCaller)
        <5>1. toCaller'[i] = toCaller[i]
          BY Zenon, <2>6, <4>1
        <5> QED BY Zenon, <2>5, <3>1, <3>2, <3>3, <4>1, <5>1
      <4>2. CASE toCaller'[i] = new
        BY Zenon, <2>3, <2>4, <2>5, <4>2
      <4> QED BY Zenon, <2>i, <4>1, <4>2
    <3> QED BY Zenon, <3>3 DEF TrackedInv
  <2>10. PostedInv'
    <3>1. \A i \in 1 .. Len(toDriver') : toDriver'[i].kind = "INSTCMD" =>
             toDriver'[i].id # id /\ toDriver'[i].id \in 1 .. MaxQueries
      <4> SUFFICES ASSUME NEW i \in 1 .. Len(toDriver'), toDriver'[i].kind = "INSTCMD"
                   PROVE toDriver'[i].id # id /\ toDriver'[i].id \in 1 .. MaxQueries
        OBVIOUS
      <4>1. i + 1 \in 1 .. n /\ toDriver'[i] = toDriver[i + 1] /\ i + 1 # 1
        BY <1>1
      <4>2. toDriver'[i].id # id
        BY <2>2, <4>1
      <4>3. toDriver'[i].id \in 1 .. caller.id
        BY <4>1 DEF QueryInv, PostedInv
      <4> QED BY <1>c, <4>2, <4>3, QueryAssumption
    <3> QED BY <1>0, <2>5, <3>1, CommandsMoveUp
  <2>11. FreshInv'
    <3>1. \A other \in 1 .. MaxQueries : other > caller.id => other # id
      BY <1>c, <2>2
    <3>2. caller.id \in 1 .. MaxQueries
      BY <1>3, <1>c, QueryAssumption
    <3>3. (caller.pc \in {"prepare", "flush", "post"} => drv'.done[caller.id] = NotYet)
      <4> SUFFICES ASSUME caller.pc \in {"prepare", "flush", "post"} PROVE drv'.done[caller.id] = NotYet
        OBVIOUS
      <4>1. drv.done[caller.id] = NotYet
        BY DEF QueryInv, FreshInv
      <4>2. caller.id # id
        BY <2>2
      <4> QED BY <2>5, <3>2, <4>1, <4>2
    <3>4. caller.result >= 0 => drv'.done[caller.id] = caller.result
      <4> SUFFICES ASSUME caller.result >= 0 PROVE drv'.done[caller.id] = caller.result
        OBVIOUS
      <4>1. drv.done[caller.id] = caller.result
        BY DEF QueryInv, FreshInv, ResultIsOwn
      <4>2. caller.result # NotYet
        BY Constants
      <4>3. caller.id # id
        BY Zenon, <2>2, <4>1, <4>2
      <4> QED BY Zenon, <2>5, <3>2, <4>1, <4>3
    <3> QED BY <1>0, <2>5, <3>1, <3>3, <3>4 DEF QueryInv, FreshInv, ResultIsOwn
  <2>12. QuietInv'
    <3> SUFFICES ASSUME caller.id = 1, caller.pc # "idle" PROVE QuietInv'
      BY <1>0 DEF QuietInv
    <3>1. drv'.quiet /\ caller.pc # "prepare"
      BY <1>6, <1>q, <2>5
    <3>2. /\ \A i, j \in 1 .. Len(toCaller) : toCaller[i] = Pong /\ i < j => toCaller[j] # Noise
          /\ caller.flushed => \A i \in 1 .. Len(toCaller) : toCaller[i] # Noise
      BY DEF QueryInv, QuietInv
    <3>0. new # Pong /\ new # Noise
      BY <2>4, ReplyLines
    <3>3. \A i, j \in 1 .. Len(toCaller') : toCaller'[i] = Pong /\ i < j => toCaller'[j] # Noise
      <4> SUFFICES ASSUME NEW i \in 1 .. Len(toCaller'), NEW j \in 1 .. Len(toCaller'),
                          toCaller'[i] = Pong, i < j
                   PROVE toCaller'[j] # Noise
        OBVIOUS
      <4>1. CASE j \in 1 .. Len(toCaller)
        <5>1. i \in 1 .. Len(toCaller)
          BY <1>l, <4>1
        <5>2. toCaller'[i] = toCaller[i] /\ toCaller'[j] = toCaller[j]
          BY Zenon, <2>6, <4>1, <5>1
        <5> QED BY Zenon, <3>2, <4>1, <5>1, <5>2
      <4>2. CASE j \notin 1 .. Len(toCaller)
        BY Zenon, <2>i, <3>0, <4>2
      <4> QED BY <4>1, <4>2
    <3>4. caller'.flushed => \A i \in 1 .. Len(toCaller') : toCaller'[i] # Noise
      BY <1>0, <2>6, <2>i, <3>0, <3>2
    <3> QED BY <1>0, <1>q, <3>1, <3>3, <3>4 DEF QuietInv
  <2>13. RestoreInv'
    BY <1>0, <1>6, <1>r DEF RestoreInv
  <2> QED BY <1>3, <2>8, <2>9, <2>10, <2>11, <2>12, <2>13 DEF QueryInv
<1>7. line.kind = "NOBROADCAST" => (line.kind = "NOBROADCAST") = TRUE
  OBVIOUS
<1>8. line.kind = "BROADCAST" => (line.kind = "NOBROADCAST") = FALSE
  OBVIOUS
<1> QED BY Zenon, <1>2, <1>4, <1>5, <1>6, <1>7, <1>8

LEMMA BroadcastsKeeps == ASSUME QueryInv, DriverBroadcasts PROVE QueryInv'
<1>0. /\ QueryTypeOK /\ ~drv.quiet /\ toCaller' = Append(toCaller, Noise)
      /\ caller' = caller /\ toDriver' = toDriver /\ drv' = drv
  BY DEF QueryInv, DriverBroadcasts
<1>l. toCaller \in Seq(Replies) /\ Len(toCaller) \in Nat
  BY <1>0 DEF QueryTypeOK
<1>1. /\ toCaller' \in Seq(Replies) /\ Len(toCaller') = Len(toCaller) + 1
      /\ toCaller'[Len(toCaller) + 1] = Noise
      /\ \A i \in 1 .. Len(toCaller) : toCaller'[i] = toCaller[i]
  BY <1>0, <1>l, AppendProperties, ReplyLines
<1>i. \A i \in 1 .. Len(toCaller') : i \in 1 .. Len(toCaller) \/ toCaller'[i] = Noise
  BY <1>l, <1>1
<1>2. QueryTypeOK'
  BY <1>0, <1>1 DEF QueryTypeOK
<1>3. TrackedInv'
  BY <1>0, <1>1, <1>i, ReplyLines DEF QueryInv, TrackedInv
<1>4. PostedInv' /\ FreshInv' /\ RestoreInv'
  BY <1>0 DEF QueryInv, PostedInv, FreshInv, ResultIsOwn, RestoreInv
<1>5. QuietInv' /\ FirstInv'
  <2>1. (\A i \in 1 .. Len(toCaller) : toCaller[i] # Pong) =>
           \A i \in 1 .. Len(toCaller') : toCaller'[i] # Pong
    BY <1>1, <1>i, ReplyLines
  <2>2. FirstInv'
    BY <1>0, <2>1 DEF QueryInv, FirstInv
  <2>3. QuietInv'
    BY <1>0, <2>1 DEF QueryInv, QuietInv
  <2> QED BY <2>2, <2>3
<1> QED BY <1>2, <1>3, <1>4, <1>5 DEF QueryInv

LEMMA QuitKeeps == ASSUME QueryInv, DriverQuits PROVE QueryInv'
<1>1. caller' = caller /\ toDriver' = toDriver /\ toCaller' = toCaller /\ QueryTypeOK
  BY DEF QueryInv, DriverQuits
<1>2. drv' \in DrvStates /\ drv'.done = drv.done /\ drv'.quiet = drv.quiet /\ drv'.up = FALSE
  BY <1>1, Zenon DEF QueryTypeOK, DrvStates, DriverQuits
<1>3. QueryTypeOK' /\ TrackedInv' /\ PostedInv'
  BY <1>1, <1>2 DEF QueryTypeOK, QueryInv, TrackedInv, PostedInv
<1>4. FreshInv' /\ FirstInv' /\ RestoreInv'
  BY <1>1, <1>2 DEF QueryInv, FreshInv, ResultIsOwn, FirstInv, RestoreInv
<1>5. QuietInv'
  BY <1>1, <1>2 DEF QueryInv, QuietInv
<1> QED BY <1>3, <1>4, <1>5 DEF QueryInv

-----------------------------------------------------------------------------
LEMMA QueryInitially == QueryInit => QueryInv
<1> SUFFICES ASSUME QueryInit PROVE QueryInv
  OBVIOUS
<1>1. QueryTypeOK
  <2>1. caller \in CallerStates
    BY Constants DEF QueryInit, CallerStates
  <2>2. drv \in DrvStates
    BY DEF QueryInit, DrvStates
  <2>3. toDriver \in Seq(Asks) /\ toCaller \in Seq(Replies)
    <3>1. toDriver = << >> /\ toCaller = << >>
      BY DEF QueryInit
    <3> QED BY <3>1, EmptySeq
  <2> QED BY <2>1, <2>2, <2>3 DEF QueryTypeOK
<1>2. Len(toDriver) = 0 /\ Len(toCaller) = 0
  BY DEF QueryInit
<1>3. TrackedInv /\ PostedInv /\ FirstInv
  <2>1. 1 .. Len(toDriver) = {} /\ 1 .. Len(toCaller) = {}
    BY <1>2
  <2>2. TrackedInv
    BY <2>1 DEF TrackedInv
  <2>3. PostedInv
    BY <2>1 DEF PostedInv
  <2>4. FirstInv
    BY <2>1 DEF FirstInv, QueryInit
  <2> QED BY <2>2, <2>3, <2>4
<1>4. FreshInv
  <2>1. caller.id = 0 /\ caller.pc = "idle" /\ caller.result = NotYet
    BY DEF QueryInit
  <2>2. \A id \in 1 .. MaxQueries : drv.done[id] = NotYet
    BY DEF QueryInit
  <2>3. ~(caller.result >= 0)
    BY <2>1 DEF NotYet
  <2> QED BY Zenon, <2>1, <2>2, <2>3 DEF FreshInv, ResultIsOwn
<1>5. QuietInv /\ RestoreInv
  BY DEF QuietInv, RestoreInv, QueryInit
<1> QED BY <1>1, <1>3, <1>4, <1>5 DEF QueryInv

LEMMA QueryStep == QueryInv /\ [QueryNext]_queryVars => QueryInv'
<1> SUFFICES ASSUME QueryInv, [QueryNext]_queryVars PROVE QueryInv'
  OBVIOUS
<1>1. CASE UNCHANGED queryVars
  <2>1. QueryTypeOK' /\ TrackedInv' /\ PostedInv' /\ FreshInv'
    BY <1>1 DEF QueryInv, queryVars, QueryTypeOK, TrackedInv, PostedInv, FreshInv, ResultIsOwn
  <2>2. QuietInv' /\ FirstInv' /\ RestoreInv'
    BY <1>1 DEF QueryInv, queryVars, QuietInv, FirstInv, RestoreInv
  <2> QED BY <2>1, <2>2 DEF QueryInv
<1> QED BY <1>1, HandlesKeeps, BroadcastsKeeps, QuitKeeps, BeginKeeps, PrepareKeeps, FlushKeeps,
           ExpiryKeeps, PostKeeps, WaitReplyKeeps, FinishKeeps DEF QueryNext

(* The dialog with a running driver (upsdrvquery.c), whatever is read of a   *)
(* line at a time and whenever a wait is given up: a status that is returned *)
(* is the driver's answer to this very query, nothing but answers follows    *)
(* the PONG of a first query, and the broadcasts come back.                  *)
THEOREM QueryIsSafe == QuerySpec => []QuerySafe
<1>1. QueryInv => QuerySafe
  <2> SUFFICES ASSUME QueryInv PROVE QuerySafe
    OBVIOUS
  <2>1. QueryTypeOK /\ ResultIsOwn /\ BroadcastsRestored
    BY DEF QueryInv, FreshInv, RestoreInv, BroadcastsRestored
  <2>2. QuietAfterPong
    BY DEF QueryInv, QuietInv, QuietAfterPong, Lines
  <2> QED BY <2>1, <2>2 DEF QuerySafe
<1> QED BY <1>1, QueryInitially, QueryStep, PTL DEF QuerySpec
=============================================================================
