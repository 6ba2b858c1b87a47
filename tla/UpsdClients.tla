----------------------------- MODULE UpsdClients -----------------------------
(***************************************************************************)
(* The network side of upsd: its one task polls the driver's socket, the   *)
(* clients it has accepted and the listening socket, at most MAXCONN of    *)
(* them at a time (server/upsd.c), and answers the clients' commands       *)
(* (server/net*.c).  The firmware's upsd.conf says MAXCONN 4.              *)
(*                                                                         *)
(* A pass of mainloop sheds the silent clients one by one; then it is      *)
(* Scan, Poll and one step for every ready socket.  Clients send and hang  *)
(* up at any time in between.  A tick is a fraction of the minute after    *)
(* which a silent client is shed; a pass takes at most two seconds, so at  *)
(* least one ends in every tick.                                           *)
(***************************************************************************)
EXTENDS Integers, Sequences, FiniteSets

CONSTANTS
    Clients,        \* hosts that may connect, each with one connection
    MaxConn,        \* MAXCONN
    Limit,          \* ticks a client may stay silent
    Commands,       \* what clients send, out of AllCommands
    LoginAllowed    \* upsd.users lets them LOGIN

(* Queries are all commands that only read: VER, HELP, GET, LIST...         *)
(* "auth" is USERNAME with PASSWORD, "garbled" a line parseconf refuses.    *)
AllCommands == {"query", "garbled", "auth", "login", "logout"}
None == "none"

ASSUME ClientsAssumption ==
    /\ MaxConn \in Nat \ {0} /\ Limit \in Nat \ {0}
    /\ IsFiniteSet(Clients) /\ "driver" \notin Clients /\ "server" \notin Clients
    /\ Commands \subseteq AllCommands /\ LoginAllowed \in BOOLEAN

VARIABLES
    client,     \* per host: the connection and its nut_ctype_t
    list,       \* the list at firstclient, newest first
    ups,        \* the driver's socket, and numlogins
    loop        \* where mainloop is, fds[] and what poll found ready

vars == <<client, list, ups, loop>>

Sockets == Clients \cup {"driver", "server"}

ClientStates ==
    [conn : {"none", "backlog", "open"}, auth : BOOLEAN, login : BOOLEAN, idle : 0 .. Limit + 1,
     zeroed : BOOLEAN, inbox : Commands \cup {None}, waited : 0 .. 2, fin : BOOLEAN]
LoopStates ==
    [pc : {"scan", "poll", "serve"}, fds : Seq(Sockets), ready : SUBSET Sockets, passed : BOOLEAN]

(* poll never gets more than MAXCONN sockets, the size of fds[]. *)
TypeOK ==
    /\ client \in [Clients -> ClientStates] /\ list \in Seq(Clients)
    /\ ups \in [driver : {"down", "new", "up"}, numlogins : Int]
    /\ loop \in LoopStates /\ Len(loop.fds) <= MaxConn

Fresh == [conn |-> "none", auth |-> FALSE, login |-> FALSE,
          idle |-> 0, zeroed |-> FALSE, inbox |-> None, waited |-> 0, fin |-> FALSE]

Init ==
    /\ client = [k \in Clients |-> Fresh]
    /\ list = <<>>
    /\ ups = [driver |-> "down", numlogins |-> 0]
    /\ loop = [pc |-> "scan", fds |-> <<>>, ready |-> {}, passed |-> FALSE]

-----------------------------------------------------------------------------
(* The clients, the driver's socket and the clock. *)

ClientDials(k) ==
    /\ client[k].conn = "none"
    /\ client' = [client EXCEPT ![k].conn = "backlog"]
    /\ UNCHANGED <<list, ups, loop>>

ClientSends(k) ==
    /\ client[k].conn # "none" /\ client[k].inbox = None /\ ~client[k].fin
    /\ \E cmd \in Commands : client' = [client EXCEPT ![k].inbox = cmd]
    /\ UNCHANGED <<list, ups, loop>>

ClientHangsUp(k) ==
    /\ client[k].conn # "none" /\ ~client[k].fin
    /\ client' = [client EXCEPT ![k].fin = TRUE]
    /\ UNCHANGED <<list, ups, loop>>

DriverDrops ==
    /\ ups.driver # "down"
    /\ ups' = [ups EXCEPT !.driver = "down"]
    /\ UNCHANGED <<client, list, loop>>

Sooner(n, most) == IF n < most THEN n + 1 ELSE n

Tick ==
    /\ loop.pc = "scan" /\ loop.passed
    /\ client' = [k \in Clients |->
            [client[k] EXCEPT
                !.idle = IF client[k].conn = "open" THEN Sooner(@, Limit + 1) ELSE @,
                !.waited = IF client[k].conn = "open" /\ client[k].inbox # None
                           THEN Sooner(@, 2) ELSE @]]
    /\ loop' = [loop EXCEPT !.passed = FALSE]
    /\ UNCHANGED <<list, ups>>

-----------------------------------------------------------------------------
(* mainloop *)

Members(s) == {s[i] : i \in DOMAIN s}

(* The list without its i-th element. *)
LinkedOut(s, i) == SubSeq(s, 1, i - 1) \o SubSeq(s, i + 1, Len(s))

(* client_disconnect: the client is unlinked, and logged out if it was in. *)
Disconnects(k) ==
    /\ client' = [client EXCEPT ![k] = Fresh]
    /\ list' = LinkedOut(list, CHOOSE i \in DOMAIN list : list[i] = k)
    /\ ups' = [ups EXCEPT !.numlogins = IF client[k].login THEN @ - 1 ELSE @]

(* What sstate_connect and the driver make of the driver's socket. *)
ScannedDriver ==
    IF ups.driver = "down" THEN {"down", "new"} ELSE {"up"}
DriverFds(d) == IF d = "up" THEN <<"driver">> ELSE <<>>

Shed_OnlyPolled(k) ==
    /\ client[k].zeroed \/ client[k].idle > Limit
    /\ \E i \in DOMAIN list : list[i] = k /\ i < MaxConn

(* Nothing heard for the minute, or last_heard zeroed. *)
Shed(k) ==
    client[k].zeroed \/ client[k].idle > Limit

Taken(s, n) == SubSeq(s, 1, IF n < Len(s) THEN n ELSE Len(s))

(* fds[]: the driver, the newest clients and, if there is room, the server. *)
Polled(d, kept) ==
    LET fds == DriverFds(d) \o Taken(kept, MaxConn - Len(DriverFds(d)))
    IN  IF Len(fds) < MaxConn THEN Append(fds, "server") ELSE fds

(* The scan over the clients sheds the silent ones, one after the other. *)
Sheds(k) ==
    /\ loop.pc = "scan" /\ k \in Members(list) /\ Shed(k)
    /\ Disconnects(k)
    /\ UNCHANGED loop

(* Up to poll: the driver is reconnected and fds[] is filled. *)
Scan ==
    /\ loop.pc = "scan" /\ \A k \in Members(list) : ~Shed(k)
    /\ \E d \in ScannedDriver :
          /\ ups' = [ups EXCEPT !.driver = d]
          /\ loop' = [loop EXCEPT !.pc = "poll", !.fds = Polled(d, list)]
    /\ UNCHANGED <<client, list>>

Readable(s) ==
    \/ s \in Clients /\ (client[s].inbox # None \/ client[s].fin)
    \/ s = "server" /\ \E k \in Clients : client[k].conn = "backlog"

(* poll returns the readable sockets, or times out.  The driver's socket   *)
(* is read in NutLink.                                                     *)
Poll ==
    /\ loop.pc = "poll"
    /\ loop' = [loop EXCEPT !.ready = {s \in Members(loop.fds) : Readable(s)}, !.pc = "serve"]
    /\ UNCHANGED <<client, list, ups>>

(* The ready sockets are served in the order of fds[]. *)
Serving(s) ==
    /\ loop.pc = "serve" /\ s \in loop.ready
    /\ \A i, j \in DOMAIN loop.fds : loop.fds[i] = s /\ j < i => loop.fds[j] \notin loop.ready
Served(s) == loop' = [loop EXCEPT !.ready = @ \ {s}]

PassEnds ==
    /\ loop.pc = "serve" /\ loop.ready = {}
    /\ loop' = [loop EXCEPT !.pc = "scan", !.fds = <<>>, !.passed = TRUE]
    /\ UNCHANGED <<client, list, ups>>

(* client_connect; accept fails when the client has already gone. *)
Accepts ==
    /\ Serving("server") /\ Served("server")
    /\ \E k \in Clients :
        /\ client[k].conn = "backlog"
        /\ client' = [client EXCEPT ![k].conn = "open"]
        /\ list' = <<k>> \o list
    /\ UNCHANGED ups

ReadsEnd_NotUnlinked(k) ==
    /\ Serving(k) /\ Served(k)
    /\ client[k].fin
    /\ client' = [client EXCEPT ![k] = Fresh]
    /\ ups' = [ups EXCEPT !.numlogins = IF client[k].login THEN @ - 1 ELSE @]
    /\ UNCHANGED list

(* client_readline finds the end of the stream, or poll or read an error. *)
(* A client that went away in error may leave a command unread.           *)
ReadsEnd(k) ==
    /\ Serving(k) /\ Served(k)
    /\ client[k].fin
    /\ Disconnects(k)

-----------------------------------------------------------------------------
(* The commands.  Each refreshes last_heard, does its work and answers; an *)
(* answer that cannot be written zeroes last_heard, which makes the next   *)
(* scan shed the client (sendback).                                        *)

Handling(k, cmd) == Serving(k) /\ Served(k) /\ client[k].inbox = cmd

(* The client after the command, when the handler left it as c. *)
Answered(k, c) ==
    /\ \E ok \in BOOLEAN :
        client' = [client EXCEPT ![k] =
            [c EXCEPT !.idle = 0, !.inbox = None, !.waited = 0, !.zeroed = @ \/ ~ok]]
    /\ UNCHANGED list

HandlesQuery(k) ==
    /\ Handling(k, "query")
    /\ Answered(k, client[k])
    /\ UNCHANGED ups

(* A line with a parse error is dropped: it is neither answered nor heard. *)
HandlesGarbled(k) ==
    /\ Handling(k, "garbled")
    /\ client' = [client EXCEPT ![k].inbox = None, ![k].waited = 0]
    /\ UNCHANGED <<list, ups>>

HandlesAuth(k) ==
    /\ Handling(k, "auth")
    /\ Answered(k, [client[k] EXCEPT !.auth = TRUE])
    /\ UNCHANGED ups

HandlesLogin_CountsFirst(k) ==
    /\ Handling(k, "login")
    /\ LET granted == client[k].auth /\ ~client[k].login /\ LoginAllowed
       IN  /\ Answered(k, [client[k] EXCEPT !.login = @ \/ granted])
           /\ ups' = [ups EXCEPT !.numlogins = @ + 1]

(* net_login, behind check_command's test of the username and password. *)
HandlesLogin(k) ==
    /\ Handling(k, "login")
    /\ LET granted == client[k].auth /\ ~client[k].login /\ LoginAllowed
       IN  /\ Answered(k, [client[k] EXCEPT !.login = @ \/ granted])
           /\ ups' = [ups EXCEPT !.numlogins = IF granted THEN @ + 1 ELSE @]

HandlesLogout(k) ==
    /\ Handling(k, "logout")
    /\ Answered(k, [client[k] EXCEPT !.zeroed = TRUE])
    /\ UNCHANGED ups

-----------------------------------------------------------------------------
Upsd ==
    \/ Scan \/ Poll \/ Accepts \/ PassEnds
    \/ \E k \in Clients :
        \/ Sheds(k) \/ ReadsEnd(k) \/ HandlesQuery(k) \/ HandlesGarbled(k) \/ HandlesAuth(k)
        \/ HandlesLogin(k) \/ HandlesLogout(k)

Next ==
    \/ Upsd \/ Tick \/ DriverDrops
    \/ \E k \in Clients : ClientDials(k) \/ ClientSends(k) \/ ClientHangsUp(k)

Spec == Init /\ [][Next]_vars

(* upsd's task runs whenever it can, and the clock advances however many   *)
(* passes it makes: a tick is possible only between two of them, so its    *)
(* fairness is strong.                                                     *)
FairSpec == Spec /\ WF_vars(Upsd) /\ SF_vars(Tick)

-----------------------------------------------------------------------------
Open == {k \in Clients : client[k].conn = "open"}

(* upsd's count of logins is the number of connected clients that hold     *)
(* one, however they leave: LOGOUT, a failed answer, silence, a hang-up.   *)
(* An upsmon primary shuts down when this count says it is alone.          *)
LoginsCounted == ups.numlogins = Cardinality({k \in Clients : client[k].login})

(* The list holds exactly the open connections, each once, and never more  *)
(* than MAXCONN of them: the listening socket is left out of fds[] when    *)
(* the budget is spent.                                                    *)
ListSound ==
    /\ Members(list) = Open /\ Len(list) = Cardinality(Open)
    /\ Len(list) <= MaxConn

(* An accepted client that sends nothing is shed in the end, also one that *)
(* there is no room to poll (mainloop's scan over the clients).            *)
SilentShed ==
    \A k \in Clients :
        client[k].conn = "open" ~> (client[k].conn # "open" \/ client[k].inbox # None)

(* With a slot for the driver and one for every client nobody starves: a   *)
(* command of an accepted client is read before the second tick, whatever  *)
(* the driver's socket, the listener and the other clients do.             *)
AcceptedIsServed == \A k \in Open : client[k].waited <= 1

(* The sessions of upsd, of any client and however it leaves: the count of   *)
(* logins is right and nobody accepted starves (server/upsd.c:533-597,       *)
(* 1386-1605).                                                               *)
SessionsSafe == TypeOK /\ LoginsCounted /\ AcceptedIsServed
=============================================================================
