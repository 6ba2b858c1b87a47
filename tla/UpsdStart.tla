------------------------------ MODULE UpsdStart ------------------------------
(***************************************************************************)
(* How upsd starts, listens and ends (server/upsd.c: main, server_load,    *)
(* setuptcp, upsd_cleanup; server/conf.c: load_upsdconf).  An address is a *)
(* name a LISTEN line gives; what it resolves to, and which sockets the    *)
(* system refuses beside one another, are constants.  A bind or a listen   *)
(* may also fail for a reason of the system's own.                         *)
(***************************************************************************)
EXTENDS Integers, Sequences, SequencesExt, FiniteSets

CONSTANTS
    ListenFiles,    \* the LISTEN lines of upsd.conf: a set of sequences of names
    Resolved,       \* getaddrinfo: for -4, -6 or neither, per name, the socket addresses
    Clash,          \* pairs of socket addresses that exclude one another
    MaxConns,       \* values of MAXCONN
    SystemConns     \* CONFIG_LWIP_MAX_SOCKETS

ASSUME UpsdStartAssumption ==
    /\ DOMAIN Resolved = {"any", "v4", "v6"}
    /\ \A pair \in Clash : <<pair[2], pair[1]>> \in Clash
    /\ SystemConns \in Nat \ {0}

VARIABLES
    stage,      \* where main is
    options,    \* the command line and the environment
    settings,   \* what upsd.conf says
    listens,    \* the LISTEN lines, or the defaults
    firstaddr,  \* the list of listeners: name, the line it is for, its socket
    cursor,     \* the entry server_load's loop is at
    sockets,    \* the descriptors bound and listening
    pid_file,   \* what the PID file is
    pidbefore   \* what it was when upsd was started

upsdStartVars == <<stage, options, settings, listens, firstaddr, cursor, sockets, pid_file, pidbefore>>

NoSocket == "closed"
Localhost == {"localhost", "localhost6", "127.0.0.1", "::1"}
Environment == {"unset", "true", "false"}
Options == [cmd : {"start", "signal"}, pid : {"file", "dead", "live"}, af : {"any", "v4", "v6"},
            foreground : 0 .. 2, envAll : Environment, envDevice : Environment]
Unread == [notAll |-> FALSE, noDevice |-> FALSE, maxconn |-> SystemConns]

UpsdStartInit ==
    /\ stage = "probe"
    /\ options \in Options
    /\ settings = Unread
    /\ listens = <<>> /\ firstaddr = <<>> /\ cursor = 1 /\ sockets = {}
    /\ pid_file \in {"none", "garbled", "stale", "running"}
    /\ pidbefore = pid_file

(* exit() after atexit(upsd_cleanup): the PID file goes, unless main has     *)
(* cleared its name, and server_free closes what the list holds.             *)
Cleanup ==
    /\ stage' = "exited"
    /\ pid_file' = IF stage = "serving" /\ options.foreground = 1 THEN pid_file ELSE "none"
    /\ sockets' = sockets \ {firstaddr[i].sock : i \in DOMAIN firstaddr}
    /\ firstaddr' = <<>>
    /\ UNCHANGED <<options, settings, listens, cursor, pidbefore>>

-----------------------------------------------------------------------------
(* Is there an upsd already?  A signal, or one that runs, ends this one      *)
(* before upsd_cleanup is registered.                                        *)

SignalArrives == IF options.pid = "file" THEN pid_file = "running" ELSE options.pid = "live"

Probes ==
    /\ stage = "probe"
    /\ stage' = IF options.cmd = "signal" \/ SignalArrives THEN "exited" ELSE "conf"
    /\ UNCHANGED <<options, settings, listens, firstaddr, cursor, sockets, pid_file, pidbefore>>

(* listen_add appends to the list, and does nothing during a reload. *)
ListenAdd(list, names) ==
    list \o [i \in 1 .. Len(names) |-> [name |-> names[i], line |-> i, sock |-> NoSocket]]

(* server_load's default when upsd.conf has no LISTEN line. *)
Defaults(af) == IF af = "any" THEN <<"::1", "127.0.0.1">>
                ELSE IF af = "v4" THEN <<"127.0.0.1">> ELSE <<"::1">>

Overridden(fromFile, env) == IF env = "unset" THEN fromFile ELSE env = "true"

(* load_upsdconf, then the environment, which has the last word. *)
LoadsConf ==
    /\ stage = "conf"
    /\ \E lines \in ListenFiles, notAll, noDevice \in BOOLEAN, max \in MaxConns \cup {SystemConns} :
          LET names == IF lines = <<>> THEN Defaults(options.af) ELSE lines
          IN /\ listens' = names
             /\ firstaddr' = ListenAdd(<<>>, names)
             /\ settings' = [notAll |-> Overridden(notAll, options.envAll),
                             noDevice |-> Overridden(noDevice, options.envDevice),
                             maxconn |-> max]
    /\ stage' = "listen"
    /\ UNCHANGED <<options, cursor, sockets, pid_file, pidbefore>>

ConfUnreadable == stage = "conf" /\ Cleanup

-----------------------------------------------------------------------------
(* setuptcp. *)

(* What one pass over the addresses of a name may end with: the first that   *)
(* binds and listens, or none; a name that does not resolve is fatal.        *)
Bound(name, open) ==
    IF Resolved[options.af][name] = <<>> THEN {}
    ELSE {NoSocket} \cup
            {a \in ToSet(Resolved[options.af][name]) :
                \A o \in open : <<a, o>> \notin Clash}

BindsAddress(i) ==
    /\ firstaddr[i].name # "*"
    /\ \E s \in Bound(firstaddr[i].name, sockets) :
          /\ firstaddr' = [firstaddr EXCEPT ![i].sock = s]
          /\ sockets' = (sockets \cup {s}) \ {NoSocket}

Replaced(i, name, s) == [firstaddr EXCEPT ![i].name = name, ![i].sock = s]

StarList_SixForgotten(i, s6, s4) ==
    IF s4 = NoSocket THEN Replaced(i, "::0", s6) ELSE Replaced(i, "0.0.0.0", s4)

(* LISTEN *: IPv6 first, then IPv4; the IPv4 one takes the entry's place and *)
(* the IPv6 one is put behind it, or takes the place itself.                 *)
StarList(i, s6, s4) ==
    IF s4 = NoSocket THEN Replaced(i, "::0", s6)
    ELSE IF s6 = NoSocket THEN Replaced(i, "0.0.0.0", s4)
    ELSE InsertAt(Replaced(i, "0.0.0.0", s4), i + 1,
                  [name |-> "::0", line |-> firstaddr[i].line, sock |-> s6])

Sixes == IF options.af = "v4" THEN {NoSocket} ELSE Bound("::0", sockets)
Fours(s6) == IF options.af = "v6" THEN {NoSocket}
             ELSE Bound("0.0.0.0", (sockets \cup {s6}) \ {NoSocket})

BindsStar(i) ==
    /\ firstaddr[i].name = "*"
    /\ \E s6 \in Sixes : \E s4 \in Fours(s6) :
          /\ {s4, s6} # {NoSocket}
          /\ firstaddr' = StarList(i, s6, s4)
          /\ sockets' = (sockets \cup {s4, s6}) \ {NoSocket}

(* One turn of server_load's loop; an entry that LISTEN * has put into the   *)
(* list is bound already.                                                    *)
SetsUp ==
    /\ stage = "listen" /\ cursor <= Len(firstaddr)
    /\ \/ firstaddr[cursor].sock # NoSocket /\ UNCHANGED <<firstaddr, sockets>>
       \/ firstaddr[cursor].sock = NoSocket /\ (BindsAddress(cursor) \/ BindsStar(cursor))
    /\ cursor' = cursor + 1
    /\ UNCHANGED <<stage, options, settings, listens, pid_file, pidbefore>>

(* A name that does not resolve, a LISTEN * with neither address, a socket   *)
(* option refused.  The system closes what exit leaves open.                 *)
SetUpFatal ==
    /\ stage = "listen" /\ cursor <= Len(firstaddr)
    /\ firstaddr[cursor].sock = NoSocket
    /\ Cleanup

Valid(e) == e.sock # NoSocket
ValidEntries == {i \in DOMAIN firstaddr : Valid(firstaddr[i])}
LocalEntries == {i \in DOMAIN firstaddr : firstaddr[i].name \in Localhost}

AllValid == Len(firstaddr) = Cardinality(ValidEntries)
(* The shortfall is one of addresses of localhost only. *)
LetSlide ==
    Len(firstaddr) - Cardinality(ValidEntries)
      = Cardinality(LocalEntries) - Cardinality(ValidEntries \cap LocalEntries)

Accounts ==
    /\ stage = "listen" /\ cursor > Len(firstaddr)
    /\ IF ValidEntries # {} /\ (AllValid \/ LetSlide \/ settings.notAll)
       THEN /\ stage' = "devices"
            /\ UNCHANGED <<options, settings, listens, firstaddr, cursor, sockets, pid_file, pidbefore>>
       ELSE Cleanup

-----------------------------------------------------------------------------
(* The rest of main: ups.conf, the poll arrays, the PID file, the main loop. *)

PollFits(max) == max <= SystemConns /\ max >= 1

LoadsDevices ==
    /\ stage = "devices"
    /\ \E readable \in BOOLEAN, numUps \in 0 .. 1 :
          IF readable /\ PollFits(settings.maxconn) /\ (numUps > 0 \/ settings.noDevice)
          THEN /\ stage' = "pid"
               /\ UNCHANGED <<options, settings, listens, firstaddr, cursor, sockets, pid_file, pidbefore>>
          ELSE Cleanup

StoresPid ==
    /\ stage = "pid"
    /\ stage' = "serving"
    /\ pid_file' = IF options.foreground = 1 THEN pid_file ELSE "own"
    /\ UNCHANGED <<options, settings, listens, firstaddr, cursor, sockets, pidbefore>>

(* SIGHUP: upsd.conf is read again, LISTEN lines are passed over and the      *)
(* poll arrays get the new size.                                              *)
RereadsConf ==
    /\ stage = "serving"
    /\ \E max \in MaxConns \cup {settings.maxconn} :
          IF PollFits(max)
          THEN /\ settings' = [settings EXCEPT !.maxconn = max]
               /\ UNCHANGED <<stage, options, listens, firstaddr, cursor, sockets, pid_file, pidbefore>>
          ELSE Cleanup

Stops == stage = "serving" /\ Cleanup

UpsdStartNext ==
    \/ Probes \/ LoadsConf \/ ConfUnreadable
    \/ SetsUp \/ SetUpFatal \/ Accounts
    \/ LoadsDevices \/ StoresPid \/ RereadsConf \/ Stops

-----------------------------------------------------------------------------
(* An upsd that serves listens somewhere, and unless ALLOW_NOT_ALL_LISTENERS *)
(* is set every LISTEN line for an address other than localhost has its      *)
(* socket (docs/man/upsd.conf.txt:89), whatever LISTEN * has done to the     *)
(* list (server_load).                                                       *)
LinesHonoured ==
    stage \in {"devices", "pid", "serving"} =>
        /\ sockets # {}
        /\ settings.notAll \/ \A n \in DOMAIN listens :
              \/ listens[n] \in Localhost
              \/ \E e \in ToSet(firstaddr) : e.line = n /\ Valid(e)

(* Every listening descriptor is in the list, once, so that mainloop polls   *)
(* it and server_free closes it (setuptcp, server_load, server_free).        *)
SocketsListed ==
    /\ sockets = {e.sock : e \in {f \in ToSet(firstaddr) : Valid(f)}}
    /\ \A i, j \in DOMAIN firstaddr : Valid(firstaddr[i]) /\ firstaddr[i].sock = firstaddr[j].sock
                                         => i = j

(* The PID file names this upsd exactly while it serves, but for one in the  *)
(* foreground; the file of an upsd that runs is neither taken nor removed.   *)
PidFileOwned ==
    /\ pid_file = "own" <=> stage = "serving" /\ options.foreground # 1
    /\ pidbefore = "running" /\ options.pid = "file" => pid_file = "running"

(* What holds of the listeners and the PID file (upsd.c: main, server_load).  *)
UpsdStartSafe == LinesHonoured /\ SocketsListed /\ PidFileOwned
=============================================================================
