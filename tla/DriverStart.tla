---------------------------- MODULE DriverStart ----------------------------
(***************************************************************************)
(* A driver starts, or is run with -k or -c, while an older instance may   *)
(* still hold the device (drivers/main.c, drivers_main): it asks the other *)
(* one over its socket (upsdrvquery.c) to exit, then signals it by its PID *)
(* file (sendsignalfn of common.c), then takes the device, the PID file    *)
(* and the socket.  The older instance answers, or is late, or never does. *)
(***************************************************************************)
EXTENDS Integers

CONSTANTS
    MaxAsks,    \* requests after the first that was answered (10)
    MaxTerms    \* SIGTERMs before the SIGKILL (3)

ASSUME StartAssumption == MaxAsks \in Nat /\ MaxTerms \in Nat \ {0}

VARIABLES
    run,        \* how things are: [op, foreground, oldPid, signalable, name]
    old,        \* the older instance: [pc, queue, reply]
    fresh,      \* the one that starts: [pc, query, left]
    device,     \* who has it open
    sock,       \* whose socket the path leads to
    pidfile,    \* whose number the PID file holds
    done        \* whether the UPS was sent a shutdown, and a stranger signalled

startVars == <<run, old, fresh, device, sock, pidfile, done>>

Requests == {"allow", "killpower", "exit"}
Runs == [op : {"start", "killpower", "exit", "signal"}, foreground : BOOLEAN, oldPid : BOOLEAN,
         signalable : BOOLEAN, name : {"match", "mismatch", "unknown"}]
OldStates ==
    [pc : {"running", "told", "cleaned", "gone"}, queue : Requests \cup {"none"},
     reply : {"none", "handled", "invalid"}]
FreshStates ==
    [pc : {"allow", "kill", "ask", "again", "pid", "term", "kill9", "writepid", "init", "listen",
           "serving", "shutdown", "command", "signal", "succeeded", "exited"},
     query : Requests \cup {"none"}, left : 0 .. MaxAsks + MaxTerms]
Effects == [shutdowns : BOOLEAN, strangers : BOOLEAN]

OldAlive == old.pc \in {"running", "told", "cleaned"}

FirstStep == [start |-> "ask", killpower |-> "allow", exit |-> "command", signal |-> "signal"]

(* The old one may have a PID file; or be gone and have left one, whose      *)
(* number another program may have by now.                                   *)
StartInit ==
    /\ run \in Runs
    /\ old \in [pc : {"running", "gone"}, queue : {"none"}, reply : {"none"}]
    /\ fresh = [pc |-> FirstStep[run.op], query |-> "none", left |-> 0]
    /\ device = IF old.pc = "running" THEN {"old"} ELSE {}
    /\ sock \in IF old.pc = "running" THEN {"old"} ELSE {"none", "old"}
    /\ pidfile \in IF old.pc = "running" THEN (IF run.oldPid THEN {"old"} ELSE {"none", "garbage"})
                   ELSE {"none", "old", "stranger"}
    /\ done = [shutdowns |-> FALSE, strangers |-> FALSE]

-----------------------------------------------------------------------------
(* upsdrvquery_oneshot.  A request that timed out is still in the socket.   *)

Goes(pc) == fresh' = [fresh EXCEPT !.pc = pc, !.query = "none"]

Connects == sock = "old" /\ OldAlive
Posts(req) ==
    /\ fresh.query = "none" /\ Connects
    /\ old' = [old EXCEPT !.queue = req, !.reply = "none"]
    /\ fresh' = [fresh EXCEPT !.query = req]
Unreachable == fresh.query = "none" /\ ~Connects

(* The reply, or the end of the wait: a limited one, or the connection's. *)
Answered == fresh.query # "none" /\ old.reply # "none"
GivesUp == fresh.query # "none" /\ (fresh.query = "killpower" => ~OldAlive)

-----------------------------------------------------------------------------
(* The old instance: main_instcmd, the end of its loop, its atexit handlers. *)
(* driver.killpower is refused when allow_killpower is off again; if not, it *)
(* counts as handled whatever the UPS made of it.                            *)

OldServes ==
    /\ old.pc = "running" /\ old.queue # "none"
    /\ \E handled \in IF old.queue = "killpower" THEN BOOLEAN ELSE {TRUE} :
          /\ old' = [old EXCEPT !.queue = "none", !.reply = IF handled THEN "handled" ELSE "invalid",
                                !.pc = IF handled /\ old.queue # "allow" THEN "told" ELSE @]
          /\ done' = [done EXCEPT !.shutdowns = @ \/ (old.queue = "killpower" /\ handled)]
    /\ UNCHANGED <<run, fresh, device, sock, pidfile>>

OldReleasesDevice ==
    /\ old.pc = "told"
    /\ old' = [old EXCEPT !.pc = "cleaned"]
    /\ device' = device \ {"old"}
    /\ UNCHANGED <<run, fresh, sock, pidfile, done>>

OldCleansUp ==
    /\ old.pc = "cleaned"
    /\ old' = [old EXCEPT !.pc = "gone"]
    /\ pidfile' = IF run.oldPid THEN "none" ELSE pidfile
    /\ sock' = "none"
    /\ UNCHANGED <<run, fresh, device, done>>

-----------------------------------------------------------------------------
(* drivername -k: the running driver is to do it, if it can. *)

AskAllow ==
    /\ fresh.pc = "allow"
    /\ \/ Posts("allow")
       \/ Unreachable /\ Goes("ask") /\ UNCHANGED old
       \/ Answered /\ Goes("kill") /\ UNCHANGED old
       \/ GivesUp /\ Goes("ask") /\ UNCHANGED old
    /\ UNCHANGED <<run, device, sock, pidfile, done>>

AskKillpower_AnyAnswer ==
    /\ fresh.pc = "kill"
    /\ \/ Posts("killpower")
       \/ Unreachable /\ Goes("ask") /\ UNCHANGED old
       \/ Answered /\ Goes("succeeded") /\ UNCHANGED old
       \/ GivesUp /\ ~Answered /\ Goes("ask") /\ UNCHANGED old
    /\ UNCHANGED <<run, device, sock, pidfile, done>>
AskKillpower ==
    /\ fresh.pc = "kill"
    /\ \/ Posts("killpower")
       \/ Unreachable /\ Goes("ask") /\ UNCHANGED old
       \/ Answered /\ Goes(IF old.reply = "handled" THEN "succeeded" ELSE "ask") /\ UNCHANGED old
       \/ GivesUp /\ ~Answered /\ Goes("ask") /\ UNCHANGED old
    /\ UNCHANGED <<run, device, sock, pidfile, done>>

(* driver.exit, and again until no answer comes or the patience is over. *)
AskExit ==
    /\ fresh.pc = "ask"
    /\ \/ Posts("exit")
       \/ Unreachable /\ Goes("pid") /\ UNCHANGED old
       \/ Answered /\ fresh' = [fresh EXCEPT !.pc = "again", !.query = "none", !.left = MaxAsks]
                   /\ UNCHANGED old
       \/ GivesUp /\ Goes("pid") /\ UNCHANGED old
    /\ UNCHANGED <<run, device, sock, pidfile, done>>

AskAgain ==
    /\ fresh.pc = "again"
    /\ \/ fresh.left > 0 /\ Posts("exit")
       \/ fresh.left = 0 /\ Goes("pid") /\ UNCHANGED old
       \/ Unreachable /\ Goes("pid") /\ UNCHANGED old
       \/ Answered /\ fresh' = [fresh EXCEPT !.query = "none", !.left = @ - 1] /\ UNCHANGED old
       \/ GivesUp /\ Goes("pid") /\ UNCHANGED old
    /\ UNCHANGED <<run, device, sock, pidfile, done>>

-----------------------------------------------------------------------------
(* sendsignalfn: a number in the file, of a process of our name (as far as  *)
(* that can be told), which kill accepts.                                   *)
NameAllows(who) == run.name = "unknown" \/ (who = "old" /\ run.name = "match")
Signals(who) ==
    /\ pidfile = who /\ NameAllows(who) /\ run.signalable
    /\ who = "old" => OldAlive

(* The PID file is looked at only where one will be written, or for -k. *)
SkipsPid ==
    /\ fresh.pc = "pid" /\ run.foreground /\ run.op = "start"
    /\ Goes("init")
    /\ UNCHANGED <<run, old, device, sock, pidfile, done>>
LooksAtPid ==
    /\ fresh.pc = "pid" /\ ~(run.foreground /\ run.op = "start")
    /\ fresh' = [fresh EXCEPT !.pc = "term", !.left = MaxTerms]
    /\ UNCHANGED <<run, old, device, sock, pidfile, done>>

Hit(who, pc) ==
    /\ old' = IF who = "old" THEN [old EXCEPT !.pc = IF @ = "running" \/ pc = "gone" THEN pc ELSE @] ELSE old
    /\ device' = IF who = "old" /\ pc = "gone" THEN device \ {"old"} ELSE device
    /\ done' = [done EXCEPT !.strangers = @ \/ who = "stranger"]

Terminates ==
    /\ fresh.pc = "term"
    /\ IF pidfile # "none" /\ fresh.left > 0 /\ \E who \in {"old", "stranger"} : Signals(who)
       THEN Hit(pidfile, "told") /\ fresh' = [fresh EXCEPT !.left = @ - 1]
       ELSE /\ Goes(IF fresh.left < MaxTerms /\ pidfile # "none" THEN "kill9" ELSE "writepid")
            /\ UNCHANGED <<old, device, done>>
    /\ UNCHANGED <<run, sock, pidfile>>

Kills ==
    /\ fresh.pc = "kill9"
    /\ Goes("writepid")
    /\ IF \E who \in {"old", "stranger"} : Signals(who) THEN Hit(pidfile, "gone")
       ELSE UNCHANGED <<old, device, done>>
    /\ UNCHANGED <<run, sock, pidfile>>

Interrupted ==
    /\ fresh.pc = "again" \/ (fresh.pc = "term" /\ fresh.left < MaxTerms /\ run.op = "start")
    /\ Goes("exited")
    /\ UNCHANGED <<run, old, device, sock, pidfile, done>>

(* drivername -c exit goes through the socket, and its exit code is the       *)
(* answer's; -c reload is a signal by the PID file.                          *)
CommandAsks ==
    /\ fresh.pc = "command"
    /\ \/ Posts("exit")
       \/ (Unreachable \/ GivesUp) /\ Goes("exited") /\ UNCHANGED old
       \/ Answered /\ Goes("succeeded") /\ UNCHANGED old
    /\ UNCHANGED <<run, device, sock, pidfile, done>>

CommandSignals ==
    /\ fresh.pc = "signal"
    /\ IF \E who \in {"old", "stranger"} : Signals(who)
       THEN Goes("succeeded") /\ done' = [done EXCEPT !.strangers = @ \/ pidfile = "stranger"]
       ELSE Goes("exited") /\ UNCHANGED done
    /\ UNCHANGED <<run, old, device, sock, pidfile>>

-----------------------------------------------------------------------------
(* The device, then the socket *)

WritesPid ==
    /\ fresh.pc = "writepid"
    /\ pidfile' = IF run.op = "start" THEN "fresh" ELSE pidfile
    /\ Goes("init")
    /\ UNCHANGED <<run, old, device, sock, done>>

InitUps ==
    /\ fresh.pc = "init"
    /\ \/ /\ device' = device \cup {"fresh"}
          /\ Goes(IF run.op = "start" THEN "listen" ELSE "shutdown")
          /\ UNCHANGED pidfile
       \/ /\ Goes("exited")
          /\ pidfile' = IF run.op = "start" /\ ~run.foreground THEN "none" ELSE pidfile
          /\ UNCHANGED device
    /\ UNCHANGED <<run, old, sock, done>>

Listens ==
    /\ fresh.pc = "listen"
    /\ sock' = "fresh"
    /\ pidfile' = IF run.foreground THEN pidfile ELSE "fresh"
    /\ Goes("serving")
    /\ UNCHANGED <<run, old, device, done>>

ForceShutdown ==
    /\ fresh.pc = "shutdown"
    /\ done' = [done EXCEPT !.shutdowns = TRUE]
    /\ device' = device \ {"fresh"}
    /\ Goes("succeeded") \/ Goes("exited")
    /\ UNCHANGED <<run, old, sock, pidfile>>

StartNext ==
    \/ OldServes \/ OldReleasesDevice \/ OldCleansUp
    \/ AskAllow \/ AskKillpower \/ AskExit \/ AskAgain
    \/ SkipsPid \/ LooksAtPid \/ Terminates \/ Kills \/ Interrupted
    \/ CommandAsks \/ CommandSignals
    \/ WritesPid \/ InitUps \/ Listens \/ ForceShutdown

StartSpec == StartInit /\ [][StartNext]_startVars

-----------------------------------------------------------------------------
(* Properties *)

StartTypeOK ==
    /\ run \in Runs /\ old \in OldStates /\ fresh \in FreshStates /\ done \in Effects
    /\ device \subseteq {"old", "fresh"} /\ sock \in {"none", "old", "fresh"}
    /\ pidfile \in {"none", "garbage", "old", "stranger", "fresh"}

(* The old instance left a PID file and may be signalled. *)
Killable == run.oldPid /\ run.signalable /\ run.name # "mismatch"

(* Whatever the old driver answers, and however late it acts on what it was  *)
(* asked, the two are never both at the device, provided the old one can be  *)
(* reached by its PID file and the new one uses PID files                    *)
(* (drivers/main.c:2725-2770).                                               *)
OneAtDevice == Killable /\ ~(run.foreground /\ run.op = "start") => device # {"old", "fresh"}

(* Nor does the old one, on its way out, remove the socket or the PID file   *)
(* of the new one.                                                           *)
KeepsOwnFiles ==
    fresh.pc = "serving" /\ Killable /\ ~run.foreground => sock = "fresh" /\ pidfile = "fresh"

(* A stale PID file whose number now belongs to another program makes the    *)
(* driver signal that program only if its name cannot be found out.          *)
StrangersSpared == done.strangers => run.name = "unknown"

(* When drivername -k ends as a success the UPS was sent its shutdown        *)
(* command, by the running driver or by this one.                            *)
ShutdownSent == run.op = "killpower" /\ fresh.pc = "succeeded" => done.shutdowns

(* When drivername -c exit succeeds the running driver is on its way out.    *)
CommandObeyed == run.op = "exit" /\ fresh.pc = "succeeded" => old.pc # "running"

(* Starting next to an older instance (drivers/main.c:2415-2790). *)
StartSafe == StartTypeOK /\ OneAtDevice /\ KeepsOwnFiles /\ StrangersSpared /\ ShutdownSent
             /\ CommandObeyed
=============================================================================
