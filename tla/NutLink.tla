------------------------------- MODULE NutLink -------------------------------
(***************************************************************************)
(* The link between the driver task and upsd: the driver's state socket    *)
(* (drivers/dstate.c), which runs over loopback TCP on the ESP32, and      *)
(* upsd's copy of the driver's state (server/sstate.c, and the part of     *)
(* server/upsd.c that watches its staleness).                              *)
(*                                                                         *)
(* The two tasks share nothing but the two byte streams of a connection,   *)
(* so a step of either is one operation on a socket.  A message stands for *)
(* one line of the protocol; a stream holds at most BufCap of them.        *)
(***************************************************************************)
EXTENDS Integers, Sequences, FiniteSets

CONSTANTS
    Vars,       \* variables of the driver's tree
    Status,     \* ups.status, one of them
    Values,     \* their values
    Absent,     \* a variable the tree does not hold
    Wait,       \* the value upsd gives ups.status while it waits for the dump
    Conns,      \* connections the IP stack can hold at a time
    NoConn,     \* upsd has no connection
    BufCap,     \* lines a stream buffers before a write would block
    MaxAge,     \* MAXAGE, in ticks
    ReqCap      \* requests a stream buffers before a write would block

ASSUME LinkAssumption ==
    /\ Status \in Vars
    /\ Absent \notin Values /\ Wait \notin Values /\ Wait # Absent
    /\ NoConn \notin Conns
    /\ BufCap \in Nat \ {0} /\ MaxAge \in Nat \ {0} /\ ReqCap \in Nat \ {0}
    /\ IsFiniteSet(Vars)

VARIABLES
    drv,        \* the driver: its tree, staleness, and what it is sending
    net,        \* the connections
    ups,        \* upsd's upstype_t
    loop        \* where upsd's main loop is

linkVars == <<drv, net, ups, loop>>

PingAge == MaxAge \div 3
SetInfo(v, x) == <<"SETINFO", v, x>>
DelInfo(v) == <<"DELINFO", v>>
Lines == {SetInfo(v, x) : v \in Vars, x \in Values} \cup {DelInfo(v) : v \in Vars}
         \cup {<<"DATAOK">>, <<"DATASTALE">>, <<"DUMPDONE">>, <<"PONG">>}
Requests == {"DUMPALL", "PING"}

Closed == [drv |-> "none", srv |-> FALSE, sync |-> FALSE, reset |-> FALSE,
           toDrv |-> <<>>, toUps |-> <<>>]
Dialed == [drv |-> "pending", srv |-> TRUE, sync |-> FALSE, reset |-> FALSE,
           toDrv |-> <<"DUMPALL">>, toUps |-> <<>>]
NoTree == [v \in Vars |-> Absent]

DriverStates ==
    [info : [Vars -> Values \cup {Absent}], stale : BOOLEAN, auto : BOOLEAN,
     at : Conns \cup {NoConn}, out : Seq(Lines), batch : Seq(Requests)]
Connections ==
    [drv : {"none", "pending", "open"}, srv : BOOLEAN, sync : BOOLEAN, reset : BOOLEAN,
     toDrv : Seq(Requests), toUps : Seq(Lines)]
Copies ==
    [fd : Conns \cup {NoConn}, info : [Vars -> Values \cup {Absent, Wait}],
     dumpdone : BOOLEAN, dataOk : BOOLEAN, stale : BOOLEAN,
     heard : 0..MaxAge + 1, ping : 0..PingAge + 1]

(* send_to_all and send_to_one never leave more in a stream than it takes. *)
LinkTypeOK ==
    /\ drv \in DriverStates
    /\ net \in [Conns -> Connections]
    /\ \A c \in Conns : Len(net[c].toUps) <= BufCap
    /\ ups \in Copies
    /\ loop \in {"scan", "poll"}

DrvStart == [info |-> NoTree, stale |-> TRUE, auto |-> TRUE, at |-> NoConn,
             out |-> <<>>, batch |-> <<>>]
UpsStart == [fd |-> NoConn, info |-> NoTree, dumpdone |-> FALSE, dataOk |-> FALSE,
             stale |-> TRUE, heard |-> 0, ping |-> PingAge + 1]

LinkInit ==
    /\ drv = DrvStart
    /\ net = [c \in Conns |-> Closed]
    /\ ups = UpsStart
    /\ loop = "scan"

-----------------------------------------------------------------------------
(* The driver *)

Idle == drv.at = NoConn
Full(c) == Len(net[c].toUps) >= BufCap
Listening(c) == net[c].drv = "open" /\ net[c].srv

(* sock_disconnect.  Closing with unread input resets the connection. *)
DriverClosed(k) == [k EXCEPT !.drv = "none", !.toDrv = <<>>, !.sync = FALSE,
                             !.reset = @ \/ (k.srv /\ k.toDrv # <<>>)]

(* send_to_all: append the line; a connection that cannot take it whole is *)
(* dropped, and "auto" mode turns synchronous for the next connections.    *)
(* A synchronous connection makes the driver wait for room.                *)
Broadcast(line, d) ==
    /\ \A c \in Conns : Listening(c) /\ net[c].sync => ~Full(c)
    /\ net' = [c \in Conns |->
                IF ~Listening(c) THEN net[c]
                ELSE IF Full(c) THEN DriverClosed(net[c])
                ELSE [net[c] EXCEPT !.toUps = Append(@, line)]]
    /\ drv' = [d EXCEPT !.auto = @ /\ ~\E c \in Conns : Listening(c) /\ Full(c)]
    /\ UNCHANGED <<ups, loop>>

(* dstate_setinfo tells the listeners only of a change. *)
DriverSets(v, x) ==
    /\ Idle
    /\ drv.info[v] # x
    /\ Broadcast(SetInfo(v, x), [drv EXCEPT !.info[v] = x])

DriverDeletes(v) ==
    /\ Idle
    /\ drv.info[v] # Absent
    /\ Broadcast(DelInfo(v), [drv EXCEPT !.info[v] = Absent])

DriverDataOk ==
    /\ Idle
    /\ drv.stale
    /\ Broadcast(<<"DATAOK">>, [drv EXCEPT !.stale = FALSE])

DriverDataStale_Silently ==
    /\ Idle
    /\ ~drv.stale
    /\ drv' = [drv EXCEPT !.stale = TRUE]
    /\ UNCHANGED <<net, ups, loop>>

DriverDataStale ==
    /\ Idle
    /\ ~drv.stale
    /\ Broadcast(<<"DATASTALE">>, [drv EXCEPT !.stale = TRUE])

(* sock_connect *)
DriverAccepts(c) ==
    /\ Idle
    /\ net[c].drv = "pending"
    /\ net' = [net EXCEPT ![c].drv = "open", ![c].sync = ~drv.auto]
    /\ UNCHANGED <<drv, ups, loop>>

(* sock_read: one read takes some of the requests that have arrived. *)
DriverReads(c) ==
    /\ Idle
    /\ net[c].drv = "open"
    /\ \E n \in 1..Len(net[c].toDrv) :
         /\ drv' = [drv EXCEPT !.at = c, !.batch = SubSeq(net[c].toDrv, 1, n)]
         /\ net' = [net EXCEPT ![c].toDrv = SubSeq(@, n + 1, Len(@))]
    /\ UNCHANGED <<ups, loop>>

(* A zero-sized read, or an error: the other side has gone.  If it left    *)
(* lines unread the connection was reset, and waiting requests are lost.   *)
DriverReadsEnd(c) ==
    /\ Idle
    /\ net[c].drv = "open" /\ ~net[c].srv
    /\ net' = [net EXCEPT ![c] = DriverClosed(@)]
    /\ UNCHANGED <<drv, ups, loop>>

(* The lines of a tree, each once, in the one order in which it is walked. *)
Listing(S) ==
    CHOOSE s \in [1..Cardinality(S) -> S] :
        \A x \in S : \E i \in 1..Cardinality(S) : s[i] = x

(* The answer to DUMPALL: the staleness flag first, the tree, DATAOK, and  *)
(* DUMPDONE.                                                               *)
Dump ==
    (IF drv.stale THEN << <<"DATASTALE">> >> ELSE <<>>)
    \o Listing({SetInfo(v, drv.info[v]) : v \in {w \in Vars : drv.info[w] # Absent}})
    \o (IF drv.stale THEN <<>> ELSE << <<"DATAOK">> >>)
    \o << <<"DUMPDONE">> >>

Alive == ~Idle /\ net[drv.at].drv = "open"

(* sock_arg, the next request of the batch *)
DriverServes ==
    /\ Alive
    /\ drv.out = <<>> /\ drv.batch # <<>>
    /\ drv' = [drv EXCEPT !.batch = Tail(@),
                          !.out = IF Head(drv.batch) = "PING" THEN << <<"PONG">> >> ELSE Dump]
    /\ UNCHANGED <<net, ups, loop>>

(* send_to_one.  What is written to a peer that has closed is lost. *)
DriverSends ==
    /\ Alive
    /\ drv.out # <<>>
    /\ net[drv.at].srv => ~Full(drv.at)
    /\ drv' = [drv EXCEPT !.out = Tail(@)]
    /\ net' = IF net[drv.at].srv
                THEN [net EXCEPT ![drv.at].toUps = Append(@, Head(drv.out))] ELSE net
    /\ UNCHANGED <<ups, loop>>

(* The write fails a second time: the connection is closed and freed, the  *)
(* rest of the answer dropped.                                             *)
DriverSendFails ==
    /\ Alive
    /\ drv.out # <<>>
    /\ ~net[drv.at].srv \/ (Full(drv.at) /\ ~net[drv.at].sync)
    /\ net' = [net EXCEPT ![drv.at] = DriverClosed(@)]
    /\ drv' = [drv EXCEPT !.out = <<>>, !.auto = @ /\ ~net[drv.at].srv]
    /\ UNCHANGED <<ups, loop>>

DriverServed ==
    /\ ~Idle
    /\ drv.out = <<>> /\ drv.batch = <<>>
    /\ drv' = [drv EXCEPT !.at = NoConn]
    /\ UNCHANGED <<net, ups, loop>>

(* sock_read goes on with the rest of the batch on the freed connection:   *)
(* the bytes are parsed to no effect, or the firmware aborts and restarts. *)
DriverParsesFreed ==
    /\ ~Idle /\ ~Alive
    /\ drv.batch # <<>>
    /\ drv' = [drv EXCEPT !.batch = <<>>]
    /\ UNCHANGED <<net, ups, loop>>

FreedAborts ==
    /\ ~Idle /\ ~Alive
    /\ drv.batch # <<>>
    /\ drv' = DrvStart
    /\ net' = [c \in Conns |-> Closed]
    /\ ups' = UpsStart
    /\ loop' = "scan"

-----------------------------------------------------------------------------
(* upsd *)

(* The copy after one line: parse_args *)
Parsed(u, line) ==
    LET op == line[1]
    IN [u EXCEPT
          !.info = CASE op = "SETINFO" -> [@ EXCEPT ![line[2]] = line[3]]
                     [] op = "DELINFO" -> [@ EXCEPT ![line[2]] = Absent]
                     [] OTHER -> @,
          !.dumpdone = @ \/ op = "DUMPDONE",
          !.dataOk = IF op = "DATAOK" THEN TRUE ELSE IF op = "DATASTALE" THEN FALSE ELSE @]

(* sstate_disconnect: the tree and the command list are freed. *)
Disconnected(u) == [u EXCEPT !.fd = NoConn, !.info = NoTree]

ServerClosed(k) == [k EXCEPT !.srv = FALSE, !.reset = FALSE, !.toUps = <<>>]

(* sstate_connect *)
UpsdConnects ==
    /\ loop = "scan"
    /\ ups.fd = NoConn
    /\ \E c \in Conns :
         /\ net[c].drv = "none" /\ ~net[c].srv
         /\ net' = [net EXCEPT ![c] = Dialed]
         /\ ups' = [ups EXCEPT !.fd = c, !.dumpdone = FALSE, !.stale = FALSE,
                               !.heard = 0, !.info[Status] = Wait]
    /\ loop' = "poll"
    /\ UNCHANGED drv

UpsdConnectFails ==
    /\ loop = "scan"
    /\ ups.fd = NoConn
    /\ \A c \in Conns : net[c].drv # "none" \/ net[c].srv
    /\ loop' = "poll"
    /\ UNCHANGED <<drv, net, ups>>

Dead_Ageless(u) == u.dumpdone /\ ~u.dataOk

(* sstate_dead *)
Dead(u) == u.heard > MaxAge \/ (u.dumpdone /\ ~u.dataOk)
PingDue == ups.heard > PingAge /\ ups.ping > PingAge

UpsdScans ==
    /\ loop = "scan"
    /\ ups.fd # NoConn
    /\ ~PingDue
    /\ ups' = [ups EXCEPT !.stale = Dead(ups)]
    /\ loop' = "poll"
    /\ UNCHANGED <<drv, net>>

UpsdPings_Never ==
    /\ loop = "scan"
    /\ ups.fd # NoConn
    /\ PingDue /\ ~net[ups.fd].reset
    /\ ups' = [ups EXCEPT !.stale = Dead(ups)]
    /\ loop' = "poll"
    /\ UNCHANGED <<drv, net>>

(* sendping: a write to a driver that has closed is answered by a reset. *)
UpsdPings ==
    /\ loop = "scan"
    /\ ups.fd # NoConn
    /\ PingDue /\ ~net[ups.fd].reset
    /\ net[ups.fd].drv # "none" => Len(net[ups.fd].toDrv) < ReqCap
    /\ net' = IF net[ups.fd].drv = "none"
                THEN [net EXCEPT ![ups.fd].reset = TRUE]
                ELSE [net EXCEPT ![ups.fd].toDrv = Append(@, "PING")]
    /\ ups' = [ups EXCEPT !.ping = 0, !.stale = Dead(ups)]
    /\ loop' = "poll"
    /\ UNCHANGED drv

UpsdPingFails ==
    /\ loop = "scan"
    /\ ups.fd # NoConn
    /\ PingDue /\ net[ups.fd].reset
    /\ net' = [net EXCEPT ![ups.fd] = ServerClosed(@)]
    /\ ups' = Disconnected([ups EXCEPT !.stale = Dead(ups)])
    /\ loop' = "poll"
    /\ UNCHANGED drv

(* The driver does not read: the ping cannot be written, which counts as a *)
(* failure like any other.                                                 *)
UpsdGivesUp ==
    /\ loop = "scan"
    /\ ups.fd # NoConn
    /\ PingDue /\ ~net[ups.fd].reset
    /\ net[ups.fd].drv # "none" /\ Len(net[ups.fd].toDrv) >= ReqCap
    /\ net' = [net EXCEPT ![ups.fd] = ServerClosed(@)]
    /\ ups' = Disconnected([ups EXCEPT !.stale = Dead(ups)])
    /\ loop' = "poll"
    /\ UNCHANGED drv

(* poll reports an error on the driver's socket. *)
UpsdHangsUp ==
    /\ loop = "poll"
    /\ ups.fd # NoConn
    /\ net[ups.fd].reset
    /\ net' = [net EXCEPT ![ups.fd] = ServerClosed(@)]
    /\ ups' = Disconnected(ups)
    /\ UNCHANGED <<drv, loop>>

(* sstate_readline.  At the end of the stream read returns zero and        *)
(* nothing happens.                                                        *)
UpsdReads ==
    /\ loop = "poll"
    /\ ups.fd # NoConn
    /\ ~net[ups.fd].reset /\ net[ups.fd].toUps # <<>>
    /\ ups' = [Parsed(ups, Head(net[ups.fd].toUps)) EXCEPT !.heard = 0]
    /\ net' = [net EXCEPT ![ups.fd].toUps = Tail(@)]
    /\ UNCHANGED <<drv, loop>>

(* The clients have had their turn; the loop starts over. *)
UpsdPolled ==
    /\ loop = "poll"
    /\ loop' = "scan"
    /\ UNCHANGED <<drv, net, ups>>

(* Time. *)
Older(age, limit) == IF age > limit THEN age ELSE age + 1

Tick ==
    /\ loop = "poll"
    /\ ups' = [ups EXCEPT !.heard = Older(@, MaxAge), !.ping = Older(@, PingAge)]
    /\ loop' = "scan"
    /\ UNCHANGED <<drv, net>>

-----------------------------------------------------------------------------
DriverTalks == DriverServes \/ DriverSends \/ DriverSendFails \/ DriverServed

LinkNext ==
    \/ \E v \in Vars, x \in Values : DriverSets(v, x)
    \/ \E v \in Vars : DriverDeletes(v)
    \/ DriverDataOk
    \/ DriverDataStale
    \/ \E c \in Conns : DriverAccepts(c)
    \/ \E c \in Conns : DriverReads(c)
    \/ \E c \in Conns : DriverReadsEnd(c)
    \/ DriverTalks
    \/ DriverParsesFreed
    \/ FreedAborts
    \/ UpsdConnects
    \/ UpsdConnectFails
    \/ UpsdScans
    \/ UpsdPings
    \/ UpsdPingFails
    \/ UpsdGivesUp
    \/ UpsdHangsUp
    \/ UpsdReads
    \/ UpsdPolled
    \/ Tick

LinkSpec == LinkInit /\ [][LinkNext]_linkVars

(* Both tasks keep running: the driver comes back to its sockets after     *)
(* every update, upsd's poll returns after at most two seconds and reports *)
(* what is there, and time passes.  Nothing is assumed of the UPS.         *)
LinkFairSpec ==
    /\ LinkSpec
    /\ \A c \in Conns : /\ WF_linkVars(DriverAccepts(c))
                        /\ WF_linkVars(DriverReads(c))
                        /\ WF_linkVars(DriverReadsEnd(c))
    /\ WF_linkVars(DriverTalks) /\ WF_linkVars(DriverParsesFreed)
    /\ WF_linkVars(UpsdConnects \/ UpsdConnectFails \/ UpsdScans \/ UpsdPings
                   \/ UpsdPingFails \/ UpsdGivesUp)
    /\ SF_linkVars(UpsdHangsUp) /\ SF_linkVars(UpsdReads) /\ SF_linkVars(Tick)

-----------------------------------------------------------------------------
(* Properties *)

Linked == ups.fd # NoConn /\ net[ups.fd].drv = "open" /\ ~net[ups.fd].reset
Quiet == Idle /\ net[ups.fd].toUps = <<>>

(* After DUMPDONE upsd knows everything that the driver does: when no line *)
(* is under way, its tree is the driver's tree (but for the WAIT it put in *)
(* itself, while the driver has no status), and so is the staleness.       *)
Mirror ==
    Linked /\ ups.dumpdone /\ Quiet =>
        /\ ups.dataOk = ~drv.stale
        /\ \A v \in Vars : \/ ups.info[v] = drv.info[v]
                           \/ v = Status /\ ups.info[v] = Wait /\ drv.info[v] = Absent

(* While upsd waits in poll, a UPS it would answer for is one it has heard *)
(* within MAXAGE: a hung driver's last data are not passed on.             *)
HeardWithinMaxAge ==
    loop = "poll" /\ ups.fd # NoConn /\ ~ups.stale => ups.heard <= MaxAge

(* The two ways in which a link is lost over and over: the firmware        *)
(* restarts, or the driver is too busy to read what upsd asks.             *)
LinkKeepsFailing == []<><<FreedAborts \/ UpsdGivesUp>>_linkVars

(* A connection the driver dropped, whoever noticed first and whatever was *)
(* in its buffers, is replaced: unless the link keeps failing, upsd gets a *)
(* complete dump again and again.                                          *)
Relinked == LinkKeepsFailing \/ []<>(Linked /\ ups.dumpdone)

(* Data that stay stale in the driver end up stale in upsd. *)
StaleReachesUpsd ==
    LinkKeepsFailing \/ (<>[](drv.stale) => <>[](ups.fd = NoConn \/ ups.stale))

(* What the link comes to: a driver that is heard again and again, and data  *)
(* that are stale on both ends (server/upsd.c:1420-1447, sstate.c:462-511).  *)
LinkLive == Relinked /\ StaleReachesUpsd

(* Both ends of the link agree, whatever was dropped and reconnected         *)
(* (dstate.c:235-1160, server/sstate.c:44-430).                              *)
LinkSafe == LinkTypeOK /\ Mirror
=============================================================================
