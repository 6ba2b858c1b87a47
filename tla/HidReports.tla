---------------------------- MODULE HidReports ----------------------------
(***************************************************************************)
(* libhid.c: the values of a UPS are fields of reports.  The driver keeps  *)
(* the last copy of each report and when it got it, answers reads from a   *)
(* copy that is young enough (HIDGetDataValue), files reports that arrive  *)
(* on the interrupt pipe (HIDGetEvents), and sets a field by changing its  *)
(* copy and sending the whole report (HIDSetDataValue).  The UPS changes   *)
(* on its own, refuses, and sends reports that are too short.              *)
(*                                                                         *)
(* A report is a sequence of bits, ByteBits to a byte, the byte with its   *)
(* ID left out.  An input and a feature report of one ID have one layout.  *)
(* Fields have no physical range and no unit, so their logical value is    *)
(* the one the driver uses.                                                *)
(***************************************************************************)
EXTENDS Integers, Sequences, FiniteSets

CONSTANTS
    HidFields,      \* HIDData_t: [id, off, size, min, max, cst]
    ReportLen,      \* replen, by report ID
    ByteBits,       \* the bits of a byte
    Pictures,       \* by report ID: what the UPS may report
    WantedValues,   \* values a client may set
    FieldAges,      \* the ages that reads allow
    EventSize,      \* MAX_EVENT_NUM
    MaxChanges,     \* bound: the sets and the changes the UPS makes on its own
    LastTick        \* bound: the clock

VARIABLES
    clock,      \* time(), which starts at 0 with the system
    rbuf,       \* reportbuf, by ID: [ts, bits]
    unit,       \* the reports of the UPS itself
    past,       \* history, by ID: <<bits, until>>, what it reported and until when,
                \*   as long as a read may still return it
    sound,      \* history, by ID: the bytes of the copy that came with its time stamp
    changes,    \* how many of those there were
    reply       \* the last operation and its result

hidReportVars == <<clock, rbuf, unit, past, sound, changes, reply>>

ReportIds == DOMAIN ReportLen
Width(id) == ReportLen[id] * ByteBits
Ago(id) == [bits |-> [k \in 1..Width(id) |-> 0], ts |-> 0]
NoReply == [op |-> "none"]

-----------------------------------------------------------------------------
(* hidparser.c: fields and bits *)

Raw(bits, f) ==
    LET Sum[n \in 0..f.size] == IF n = 0 THEN 0 ELSE Sum[n - 1] + bits[f.off + n] * 2 ^ (n - 1)
    IN Sum[f.size]

(* bits of a number without its sign *)
HiBit(x) == CHOOSE k \in 0..31 : x < 2 ^ k /\ (k = 0 \/ x >= 2 ^ (k - 1))
Magnitude(x) == IF x >= 0 THEN x ELSE -(x + 1)
SignBit(f) ==
    2 ^ (IF Magnitude(f.max) > Magnitude(f.min) THEN HiBit(Magnitude(f.max)) ELSE HiBit(Magnitude(f.min)))

GetValue(bits, f) ==
    LET sign == SignBit(f)
        masked == Raw(bits, f) % (IF f.min < 0 THEN 2 * sign ELSE sign)
        value == IF f.min < 0 /\ masked >= sign THEN masked - 2 * sign ELSE masked
    IN IF value < f.min THEN f.min ELSE IF value > f.max THEN f.max ELSE value

SetValue(bits, f, v) ==
    [k \in DOMAIN bits |->
       IF k - f.off \in 1..f.size THEN (v \div 2 ^ (k - f.off - 1)) % 2 ELSE bits[k]]

-----------------------------------------------------------------------------
(* The UPS and the clock *)

HidReportsInit ==
    /\ clock = 0
    /\ rbuf = [id \in ReportIds |-> Ago(id)]
    /\ unit \in {u \in [ReportIds -> UNION {Pictures[id] : id \in ReportIds}] :
                   \A id \in ReportIds : u[id] \in Pictures[id]}
    /\ past = [id \in ReportIds |-> {}]
    /\ sound = [id \in ReportIds |-> 0]
    /\ changes = 0
    /\ reply = NoReply

TimePasses ==
    /\ clock < LastTick
    /\ clock' = clock + 1 /\ reply' = NoReply
    /\ past' = [id \in ReportIds |-> {h \in past[id] : \E age \in FieldAges : h[2] + age > clock'}]
    /\ UNCHANGED <<rbuf, unit, sound, changes>>

Becomes(id, bits) ==
    /\ unit' = [unit EXCEPT ![id] = bits]
    /\ past' = IF bits = unit[id] THEN past ELSE [past EXCEPT ![id] = @ \cup {<<unit[id], clock>>}]

UnitChanges(id) ==
    /\ changes < MaxChanges
    /\ \E bits \in Pictures[id] \ {unit[id]} : Becomes(id, bits)
    /\ changes' = changes + 1 /\ reply' = NoReply
    /\ UNCHANGED <<clock, rbuf, sound>>

-----------------------------------------------------------------------------
(* Reading *)

(* n bytes of the report arrive; the rest of the copy stays. *)
Copied(id, n) == [k \in 1..Width(id) |-> IF k <= n * ByteBits THEN unit[id][k] ELSE rbuf[id].bits[k]]
Fetched(id, n) ==
    /\ rbuf' = [rbuf EXCEPT ![id] = [bits |-> Copied(id, n), ts |-> clock]]
    /\ sound' = [sound EXCEPT ![id] = n]

StillGood(f, age) == rbuf[f.id].ts + age > clock
Got(f, age, bits) == [op |-> "get", field |-> f, age |-> age, value |-> GetValue(bits, f)]

(* refresh_report_buffer and GetValue *)
ReadsCopy(f, age) ==
    /\ StillGood(f, age)
    /\ reply' = Got(f, age, rbuf[f.id].bits)
    /\ UNCHANGED <<clock, rbuf, unit, past, sound, changes>>
ReadsUnit(f, age) ==
    /\ ~StillGood(f, age)
    /\ \/ \E n \in 1..ReportLen[f.id] :
             Fetched(f.id, n) /\ reply' = Got(f, age, Copied(f.id, n))
       \/ reply' = NoReply /\ UNCHANGED <<rbuf, sound>>      \* get_report fails
    /\ UNCHANGED <<clock, unit, past, changes>>

(* HIDGetEvents: the report is filed, and the driver reads its fields. *)
Events(id) ==
    LET fs == {f \in HidFields : f.id = id} IN
    {e \in SUBSET fs : /\ Cardinality(e) = IF Cardinality(fs) < EventSize THEN Cardinality(fs) ELSE EventSize
                       /\ \A f \in e, g \in fs \ e : f.off < g.off}
Interrupts(id) ==
    /\ \E n \in 1..ReportLen[id], e \in Events(id), age \in FieldAges :
          /\ Fetched(id, n)
          /\ \E f \in e : reply' = Got(f, age, Copied(id, n))
    /\ UNCHANGED <<clock, unit, past, changes>>

-----------------------------------------------------------------------------
(* Writing: set_item_buffered changes the copy, sends it whole, and lets    *)
(* every copy expire when it was sent.                                      *)

Expired(buffers) == [id \in ReportIds |-> [buffers[id] EXCEPT !.ts = 0]]

SetSucceeds_KeepsCopies(f, v) ==
    LET sent == SetValue(rbuf[f.id].bits, f, v) IN
    /\ changes < MaxChanges /\ changes' = changes + 1
    /\ Becomes(f.id, sent) \/ \E bits \in Pictures[f.id] : Becomes(f.id, bits)
    /\ rbuf' = [rbuf EXCEPT ![f.id].bits = sent]
    /\ reply' = [op |-> "set", field |-> f, value |-> v, sent |-> sent, copy |-> rbuf[f.id].bits,
                 before |-> unit[f.id]]
    /\ UNCHANGED <<clock, sound>>
(* The UPS takes the report, or makes of it what it can. *)
SetSucceeds(f, v) ==
    LET sent == SetValue(rbuf[f.id].bits, f, v) IN
    /\ changes < MaxChanges /\ changes' = changes + 1
    /\ Becomes(f.id, sent) \/ \E bits \in Pictures[f.id] : Becomes(f.id, bits)
    /\ rbuf' = Expired([rbuf EXCEPT ![f.id].bits = sent])
    /\ reply' = [op |-> "set", field |-> f, value |-> v, sent |-> sent, copy |-> rbuf[f.id].bits,
                 before |-> unit[f.id]]
    /\ UNCHANGED <<clock, sound>>

(* It refuses, or its answer is lost: the copy has the new value already. *)
SetFails(f, v) ==
    LET sent == SetValue(rbuf[f.id].bits, f, v) IN
    /\ changes < MaxChanges /\ changes' = changes + 1
    /\ Becomes(f.id, sent) \/ UNCHANGED <<unit, past>>
    /\ rbuf' = [rbuf EXCEPT ![f.id].bits = sent]
    /\ sound' = [sound EXCEPT ![f.id] = 0]
    /\ reply' = NoReply
    /\ UNCHANGED clock

HidReportsNext ==
    \/ TimePasses
    \/ \E id \in ReportIds : UnitChanges(id) \/ Interrupts(id)
    \/ \E f \in HidFields, age \in FieldAges : ReadsCopy(f, age) \/ ReadsUnit(f, age)
    \/ \E f \in {g \in HidFields : ~g.cst}, v \in WantedValues : SetSucceeds(f, v) \/ SetFails(f, v)

-----------------------------------------------------------------------------
(* Properties *)

(* A read with age n returns what the UPS reported for the field less than n *)
(* seconds ago, whatever was set and filed in between.  Not covered: bytes   *)
(* missing from a short report, a report whose last set failed, and the      *)
(* first n seconds of the clock, when a time stamp of 0 counts as recent.    *)
Covered(f) == f.off + f.size <= sound[f.id] * ByteBits
ReadsAreRecent ==
    (reply.op = "get" /\ Covered(reply.field) /\ clock >= reply.age) =>
       LET f == reply.field IN
       \/ GetValue(unit[f.id], f) = reply.value
       \/ \E h \in past[f.id] : GetValue(h[1], f) = reply.value /\ h[2] > clock - reply.age

(* A value within the range of the field reads back from the report that was *)
(* sent, and the other fields of that report are sent as the copy had them:  *)
(* as the UPS has them, if the copy is right.                                *)
SetsOneField ==
    reply.op = "set" =>
       LET f == reply.field IN
       /\ reply.value \in f.min..f.max => GetValue(reply.sent, f) = reply.value
       /\ \A g \in HidFields :
             (g.id = f.id /\ g # f) =>
                 /\ GetValue(reply.sent, g) = GetValue(reply.copy, g)
                 /\ reply.copy = reply.before => GetValue(reply.sent, g) = GetValue(reply.before, g)

HidReportsSafe == ReadsAreRecent /\ SetsOneField
=============================================================================
