---------------------------- MODULE UpsdTracking -----------------------------
(***************************************************************************)
(* INSTCMD and SET VAR on their way through upsd: the checks of netset.c   *)
(* and netinstcmd.c, the entry in tracking_list, the line to the driver    *)
(* and the TRACKING line it answers with, which upsd applies whenever it   *)
(* comes (server/sstate.c).  Entries go TRACKINGDELAY after the request.   *)
(***************************************************************************)
EXTENDS Integers

CONSTANTS
    Delay,      \* ticks a tracking entry is kept
    MaxIds,     \* bound: ids given out, nut_uuid_v4 never repeats one
    Askers,     \* the clients that send commands
    SetVars,    \* what the driver says of its variables
    SetValues   \* values clients set

ASSUME TrackingAssumption == Delay \in Nat /\ MaxIds \in Nat

VARIABLES
    track,      \* the list at tracking_list: the entry of every id that is listed
    wire,       \* commands in the socket, those the driver works on, its verdicts
    link,       \* the driver: connected, and its data fresh
    tracks,     \* client->tracking per client, and tracking_enabled
    pass        \* where mainloop is

trackVars == <<track, wire, link, tracks, pass>>

Ids == 1 .. MaxIds
Verdicts == {"SUCCESS", "ERR FAILED", "ERR UNKNOWN", "ERR INVALID-ARGUMENT"}

TrackEntries == [status : Verdicts \cup {"PENDING"}, age : 0 .. Delay + 1]
Unlisted == [status |-> "unlisted", age |-> 0]
ListedIds == {id \in Ids : track[id] # Unlisted}

Wires ==
    [last : 0 .. MaxIds, sent : SUBSET Ids, done : SUBSET (Ids \X Verdicts),
     back : SUBSET (Ids \X Verdicts), told : SUBSET Ids, age : [Ids -> 0 .. Delay + 1]]

TrackTypeOK ==
    /\ track \in [Ids -> TrackEntries \cup {Unlisted}]
    /\ wire \in Wires
    /\ link \in [up : BOOLEAN, stale : BOOLEAN]
    /\ tracks \in [on : SUBSET Askers, enabled : BOOLEAN] /\ pass \in {"top", "serve"}

TrackInit ==
    /\ track = [id \in Ids |-> Unlisted]
    /\ wire = [last |-> 0, sent |-> {}, done |-> {}, back |-> {}, told |-> {},
             age |-> [id \in Ids |-> 0]]
    /\ link = [up |-> FALSE, stale |-> TRUE]
    /\ tracks = [on |-> {}, enabled |-> FALSE] /\ pass = "top"

-----------------------------------------------------------------------------
(* tracking_cleanup *)
TrackingCleaned(list) == [id \in Ids |-> IF list[id].age <= Delay THEN list[id] ELSE Unlisted]

(* The top of mainloop: clean up, connect the driver or see how it feeds. *)
TrackPassBegins ==
    /\ pass = "top" /\ pass' = "serve"
    /\ track' = TrackingCleaned(track)
    /\ link' \in IF link.up THEN [up : {TRUE}, stale : BOOLEAN]
                 ELSE {link, [up |-> TRUE, stale |-> link.stale]}
    /\ UNCHANGED <<wire, tracks>>

TrackPassEnds ==
    /\ pass = "serve" /\ pass' = "top"
    /\ UNCHANGED <<track, wire, link, tracks>>

(* The clock, which a pass is quick against. *)
TrackTick ==
    /\ pass = "top" /\ ListedIds # {} /\ \A id \in ListedIds : track[id].age <= Delay
    /\ track' = [id \in Ids |-> IF id \in ListedIds THEN [track[id] EXCEPT !.age = @ + 1] ELSE Unlisted]
    /\ wire' = [wire EXCEPT !.age = [id \in Ids |->
                                    IF id <= wire.last /\ @[id] <= Delay THEN @[id] + 1 ELSE @[id]]]
    /\ UNCHANGED <<link, tracks, pass>>

(* SET TRACKING ON: tracking_enable. *)
SetsTrackingOn(c) ==
    /\ pass = "serve"
    /\ tracks' = [on |-> tracks.on \cup {c}, enabled |-> TRUE]
    /\ UNCHANGED <<track, wire, link, pass>>

SetsTrackingOff_ForAll(c) ==
    /\ pass = "serve"
    /\ tracks' = [on |-> tracks.on \ {c}, enabled |-> FALSE]
    /\ UNCHANGED <<track, wire, link, pass>>

(* SET TRACKING OFF: tracking_disable only looks for other users, and what *)
(* is listed stays.                                                        *)
SetsTrackingOff(c) ==
    /\ pass = "serve"
    /\ tracks' = [tracks EXCEPT !.on = @ \ {c}]
    /\ UNCHANGED <<track, wire, link, pass>>

(* tracking_add *)
TrackingAdd(id) ==
    IF tracks.enabled THEN [track EXCEPT ![id] = [status |-> "PENDING", age |-> 0]] ELSE track

SstateLost == link' = [link EXCEPT !.up = FALSE]

(* The end of send_instcmd and set_var: the entry is added before the line *)
(* is sent, and a failed send leaves it.  ups_available comes first.       *)
PassesOn ==
    /\ pass = "serve" /\ link.up /\ ~link.stale /\ tracks.on # {} /\ wire.last < MaxIds
    /\ track' = TrackingAdd(wire.last + 1)
    /\ \/ /\ wire' = [wire EXCEPT !.last = @ + 1, !.sent = @ \cup {wire.last + 1}]
          /\ UNCHANGED link
       \/ /\ wire' = [wire EXCEPT !.last = @ + 1, !.sent = {}, !.back = {}]
          /\ SstateLost
    /\ UNCHANGED <<tracks, pass>>

(* INSTCMD of a command the driver offers, by a user who may. *)
SendsInstcmd == PassesOn

(* set_var's checks of the variable and the value: the error, or OK. *)
SetVerdict(v, x) ==
    CASE ~v.known -> "VAR-NOT-SUPPORTED"
      [] v.known /\ ~v.rw -> "READONLY"
      [] v.known /\ v.rw /\ v.string /\ v.aux < 1 -> "SET-FAILED"
      [] v.known /\ v.rw /\ v.string /\ v.aux >= 1 /\ v.aux < x.len -> "TOO-LONG"
      [] OTHER -> IF \/ v.enums # {} /\ x.text \notin v.enums
                     \/ v.ranges # {} /\ \A g \in v.ranges : x.number \notin g[1] .. g[2]
                  THEN "INVALID-VALUE" ELSE "OK"

(* SET VAR of a value the variable allows. *)
SendsSet == (\E v \in SetVars, x \in SetValues : SetVerdict(v, x) = "OK") /\ PassesOn

(* The driver takes a line, acts on it and writes its verdict, if it does. *)
DriverActs ==
    /\ \E id \in wire.sent, v \in Verdicts :
        wire' = [wire EXCEPT !.sent = @ \ {id}, !.done = @ \cup {<<id, v>>},
                             !.back = IF link.up THEN @ \cup {<<id, v>>} ELSE @]
    /\ UNCHANGED <<track, link, tracks, pass>>

(* upsd finds the connection gone: what was in it is lost either way. *)
LinkDrops ==
    /\ pass = "serve" /\ link.up /\ SstateLost
    /\ \E kept \in {{}, wire.sent} : wire' = [wire EXCEPT !.sent = kept, !.back = {}]
    /\ UNCHANGED <<track, tracks, pass>>

(* tracking_set, which does nothing for an id that is not listed. *)
TrackingSet(id, status) ==
    IF id \in ListedIds THEN [track EXCEPT ![id] = [status |-> status, age |-> track[id].age]] ELSE track

(* TRACKING <id> <status>; verdicts of different commands in any order. *)
DriverReports ==
    /\ pass = "serve" /\ link.up
    /\ \E r \in wire.back :
        /\ track' = TrackingSet(r[1], r[2])
        /\ wire' = [wire EXCEPT !.back = @ \ {r}, !.told = @ \cup {r[1]}]
    /\ UNCHANGED <<link, tracks, pass>>

TrackNext ==
    \/ TrackPassBegins \/ TrackPassEnds \/ TrackTick
    \/ \E c \in Askers : SetsTrackingOn(c) \/ SetsTrackingOff(c)
    \/ SendsInstcmd \/ SendsSet \/ DriverActs \/ LinkDrops \/ DriverReports

TrackSpec == TrackInit /\ [][TrackNext]_trackVars

-----------------------------------------------------------------------------
(* What GET TRACKING would say of a command. *)
TrackingGet(id) == IF id \in ListedIds THEN track[id].status ELSE "ERR UNKNOWN"

(* GET TRACKING never says more than the driver did with that very         *)
(* command, and what upsd was told of it is said until it is cleaned away: *)
(* not PENDING any more, whatever was sent or lost in between.             *)
TrackingTrue ==
    /\ \A id \in Ids : TrackingGet(id) \in Verdicts \ {"ERR UNKNOWN"} =>
        <<id, TrackingGet(id)>> \in wire.done
    /\ \A id \in wire.told : TrackingGet(id) # "PENDING"

(* A command whose sender was given an id stays listed for TRACKINGDELAY,  *)
(* whoever switches tracking off meanwhile (tracking_disable: "disable     *)
(* general status tracking only if no client use it anymore").             *)
TrackingKept ==
    \A id \in 1 .. wire.last :
        wire.age[id] <= Delay => id \in ListedIds

(* While upsd serves no entry is older than TRACKINGDELAY: the list is     *)
(* bounded by what is sent in that time (tracking_cleanup).                *)
TrackingBounded == pass = "serve" => \A id \in ListedIds : track[id].age <= Delay

(* The outcomes upsd reports of commands it passed on. *)
TrackingSafe == TrackTypeOK /\ TrackingTrue /\ TrackingKept /\ TrackingBounded
=============================================================================
