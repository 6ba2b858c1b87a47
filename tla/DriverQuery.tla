---------------------------- MODULE DriverQuery ----------------------------
(***************************************************************************)
(* A dialog with a running driver over its socket (drivers/upsdrvquery.c): *)
(* silence the broadcasts, wait until what was under way has been read,    *)
(* post a command with an identifier, and look for the status that comes   *)
(* back under it.  The stream may be read in pieces that end in the middle *)
(* of a line, answers may come after the caller gave up, and the driver    *)
(* may quit.  Two queries may use one connection.                          *)
(***************************************************************************)
EXTENDS Integers, Sequences

CONSTANTS
    MaxQueries,     \* queries on the connection
    MaxNoise,       \* broadcasts that may be under way at once
    Statuses        \* what a command may return (0: handled)

ASSUME QueryAssumption == MaxQueries \in Nat /\ MaxNoise \in Nat /\ Statuses \subseteq Nat

VARIABLES
    caller,     \* [pc, id, flushed, result]
    toDriver,   \* lines the driver has not handled yet
    toCaller,   \* what the caller has not read yet
    drv         \* [up, quiet, done]: its side of the connection

queryVars == <<caller, toDriver, toCaller, drv>>

NotYet == -2
Failed == -1

CallerStates ==
    [pc : {"idle", "prepare", "flush", "post", "wait", "finish"}, id : 0 .. MaxQueries,
     flushed : BOOLEAN, result : Statuses \cup {Failed, NotYet}]
Asks == [kind : {"NOBROADCAST", "BROADCAST", "PING", "INSTCMD"}, id : 0 .. MaxQueries]
Replies == [kind : {"noise", "pong", "tracking", "rest"}, id : 0 .. MaxQueries, status : Nat]
DrvStates == [up : BOOLEAN, quiet : BOOLEAN, done : [1 .. MaxQueries -> Statuses \cup {NotYet}]]

QueryInit ==
    /\ caller = [pc |-> "idle", id |-> 0, flushed |-> FALSE, result |-> NotYet]
    /\ toDriver = << >> /\ toCaller = << >>
    /\ drv = [up |-> TRUE, quiet |-> FALSE, done |-> [i \in 1..MaxQueries |-> NotYet]]

Noise == [kind |-> "noise", id |-> 0, status |-> 0]
Pong == [kind |-> "pong", id |-> 0, status |-> 0]
Tracking(id, status) == [kind |-> "tracking", id |-> id, status |-> status]
Ask(kind) == [kind |-> kind, id |-> caller.id]
Lines(s) == {s[i] : i \in 1 .. Len(s)}

-----------------------------------------------------------------------------
(* The driver: sock_arg and send_to_all of dstate.c *)

DriverHandles ==
    /\ drv.up /\ toDriver # << >>
    /\ toDriver' = Tail(toDriver)
    /\ LET line == Head(toDriver) IN
       \/ /\ line.kind = "NOBROADCAST"
          /\ drv' = [drv EXCEPT !.quiet = TRUE] /\ UNCHANGED toCaller
       \/ /\ line.kind = "BROADCAST"
          /\ drv' = [drv EXCEPT !.quiet = FALSE] /\ UNCHANGED toCaller
       \/ /\ line.kind = "PING"
          /\ toCaller' = Append(toCaller, Pong) /\ UNCHANGED drv
       \/ /\ line.kind = "INSTCMD"
          /\ \E status \in Statuses :
                /\ drv' = [drv EXCEPT !.done[line.id] = status]
                /\ toCaller' = Append(toCaller, Tracking(line.id, status))
    /\ UNCHANGED caller

DriverBroadcasts ==
    /\ drv.up /\ ~drv.quiet
    /\ Len(SelectSeq(toCaller, LAMBDA line : line.kind = "noise")) < MaxNoise
    /\ toCaller' = Append(toCaller, Noise)
    /\ UNCHANGED <<caller, toDriver, drv>>

DriverQuits ==
    /\ drv.up
    /\ drv' = [drv EXCEPT !.up = FALSE]
    /\ UNCHANGED <<caller, toDriver, toCaller>>

-----------------------------------------------------------------------------
(* upsdrvquery_read_timeout: some whole lines and perhaps the beginning of   *)
(* the next.  A beginning that ends after the identifier shows which query   *)
(* it answers (part), a shorter one shows nothing; the rest of a line begins *)
(* like no answer.                                                           *)

Rest == [kind |-> "rest", id |-> 0, status |-> 0]
Read(n, part, left) == [whole |-> Lines(SubSeq(toCaller, 1, n)), part |-> part, left |-> left]
After(n) == SubSeq(toCaller, n + 1, Len(toCaller))
WholeReads == {Read(n, {}, After(n)) : n \in 1..Len(toCaller)}
CutReads(n) == {Read(n - 1, part, <<Rest>> \o After(n)) : part \in {{}, {toCaller[n]}}}
Reads ==
    WholeReads \cup UNION {CutReads(n) : n \in {i \in 1..Len(toCaller) : toCaller[i].kind # "rest"}}

(* upsdrvquery_write, which fails when the driver has closed the connection. *)
Writes(lines, pc) ==
    IF drv.up
    THEN toDriver' = toDriver \o lines /\ caller' = [caller EXCEPT !.pc = pc]
    ELSE caller' = [caller EXCEPT !.pc = "finish", !.result = Failed] /\ UNCHANGED toDriver

(* upsdrvquery_prepare *)
Prepare_PingFirst ==
    /\ caller.pc = "prepare"
    /\ Writes(<<Ask("PING"), Ask("NOBROADCAST")>>, "flush")
    /\ UNCHANGED <<toCaller, drv>>
Prepare ==
    /\ caller.pc = "prepare"
    /\ Writes(<<Ask("NOBROADCAST"), Ask("PING")>>, "flush")
    /\ UNCHANGED <<toCaller, drv>>

Flush ==
    /\ caller.pc = "flush"
    /\ \E read \in Reads :
          /\ toCaller' = read.left
          /\ caller' = IF Pong \in read.whole
                       THEN [caller EXCEPT !.pc = "post", !.flushed = TRUE] ELSE caller
    /\ UNCHANGED <<toDriver, drv>>
FlushExpires ==
    /\ caller.pc = "flush"
    /\ caller' = [caller EXCEPT !.pc = "post"]
    /\ UNCHANGED <<toDriver, toCaller, drv>>

(* upsdrvquery_request *)
Post ==
    /\ caller.pc = "post"
    /\ Writes(<<Ask("INSTCMD")>>, "wait")
    /\ UNCHANGED <<toCaller, drv>>

Own(lines) == {line \in lines : line.kind = "tracking" /\ line.id = caller.id}
Returns(status) == caller' = [caller EXCEPT !.pc = "finish", !.result = status]
WaitReply ==
    /\ caller.pc = "wait"
    /\ \E read \in Reads :
          /\ toCaller' = read.left
          /\ \/ \E line \in Own(read.whole) : Returns(line.status)
             \/ Own(read.whole) = {} /\ Own(read.part) # {} /\ Returns(Failed)
             \/ Own(read.whole \cup read.part) = {} /\ UNCHANGED caller
    /\ UNCHANGED <<toDriver, drv>>
WaitFails ==
    /\ caller.pc = "wait"
    /\ Returns(Failed)
    /\ UNCHANGED <<toDriver, toCaller, drv>>

-----------------------------------------------------------------------------
(* upsdrvquery_oneshot_conn *)

Begin ==
    /\ caller.pc = "idle" /\ caller.id < MaxQueries
    /\ caller' = [pc |-> "prepare", id |-> caller.id + 1, flushed |-> FALSE, result |-> NotYet]
    /\ UNCHANGED <<toDriver, toCaller, drv>>

Finish ==
    /\ caller.pc = "finish"
    /\ caller' = [caller EXCEPT !.pc = "idle"]
    /\ toDriver' = IF drv.up THEN Append(toDriver, Ask("BROADCAST")) ELSE toDriver
    /\ UNCHANGED <<toCaller, drv>>

QueryNext ==
    \/ DriverHandles \/ DriverBroadcasts \/ DriverQuits
    \/ Begin \/ Prepare \/ Flush \/ FlushExpires \/ Post \/ WaitReply \/ WaitFails \/ Finish

QuerySpec == QueryInit /\ [][QueryNext]_queryVars

-----------------------------------------------------------------------------
(* Properties *)

QueryTypeOK ==
    /\ caller \in CallerStates /\ drv \in DrvStates
    /\ toDriver \in Seq(Asks) /\ toCaller \in Seq(Replies)

(* A status the caller returns is the one the driver gave to this very       *)
(* query, even when the answer to an earlier one that was given up arrives   *)
(* in between (upsdrvquery.c:621-634).                                       *)
ResultIsOwn == caller.result >= 0 => drv.done[caller.id] = caller.result

(* Once the PONG was seen nothing but answers is under way: the driver       *)
(* handled NOBROADCAST before PING (upsdrvquery.c:435-449).  A later query   *)
(* on the connection may see the PONG an earlier one did not wait for.       *)
QuietAfterPong ==
    caller.pc \in {"post", "wait"} /\ caller.flushed /\ caller.id = 1 => Noise \notin Lines(toCaller)

(* Whichever way the query ended, the broadcasts the caller silenced are     *)
(* back once the driver has worked off what it was sent.                     *)
BroadcastsRestored == caller.pc = "idle" /\ toDriver = << >> /\ drv.up => ~drv.quiet

(* The dialog with a running driver (drivers/upsdrvquery.c). *)
QuerySafe == QueryTypeOK /\ ResultIsOwn /\ QuietAfterPong /\ BroadcastsRestored
=============================================================================
