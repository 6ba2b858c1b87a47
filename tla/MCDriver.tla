------------------------------ MODULE MCDriver ------------------------------
(***************************************************************************)
(* The driver program, one piece at a time: how an instance takes over     *)
(* from an older one, the dialog of a query to a running driver, the       *)
(* configuration and its reload, and the shutdown of the load.  They meet  *)
(* in nothing that the models hold, so a behaviour is one piece's: which   *)
(* is chosen at the start, and the others stay in one initial state.       *)
(***************************************************************************)
EXTENDS DriverStart, DriverQuery, DriverConf, DriverShutdown

(* ups.conf: the port, and one or two lines that matter *)
Ln(sec, v, x) == [section |-> sec, var |-> v, val |-> x]
ConfLines ==
    {Ln("global", "pollinterval", "5"), Ln("ours", "pollinterval", "0"),
     Ln("global", "user", "a"), Ln("ours", "user", "b"),
     Ln("global", "debug_min", "2"), Ln("ours", "debug_min", "1"),
     Ln("ours", "port", "b"), Ln("ours", "sdcommands", "a"), Ln("ours", "sdcommands", "b"),
     Ln("ours", "fixed", "a"), Ln("ours", "fixed", "A"), Ln("ours", "fixed", "b"),
     Ln("ours", "loose", "a"), Ln("ours", "loose", "b"), Ln("ours", "flag", None),
     Ln("ours", "nolock", None), Ln("ours", "override", "a"), Ln("ours", "unheard", "a"),
     Ln("ours", "driver", "hid"), Ln("ours", "driver", "other")}
Port == Ln("ours", "port", "a")
Pairs ==
    {p \in ConfLines \X ConfLines : p[1] # p[2] /\ p[1].var = p[2].var /\ p[2].section = "ours"
                                    /\ p[2].var \in {"user", "debug_min", "sdcommands"}}
MCFiles == {<<Port>>} \cup {<<l, Port>> : l \in ConfLines} \cup {<<p[1], Port, p[2]>> : p \in Pairs}
Opt(n, l) == [name |-> n, line |-> l]
Plain == <<Opt("a", None)>>
MCCommandLines ==
    LET a == Opt("a", None)  u == Opt("u", Ln("ours", "user", "b"))
        x == Opt("x", Ln("ours", "fixed", "b"))  d == Opt("D", None) IN
    {Plain, <<u, a>>, <<a, u>>, <<x, a>>, <<a, x>>, <<d, a>>}
MCLowered(t) == IF t = "A" THEN "a" ELSE t

MCNames ==
    {"shutdown.return", "shutdown.reboot", "shutdown.stayoff", "shutdown.default", "load.off",
     "load.off.delay", "load.on.delay", "ups.start.auto", "unknown"}
MCOffers ==
    {{"shutdown.return", "load.off.delay"}, {"load.on.delay", "load.off.delay", "ups.start.auto"},
     {"load.off.delay"}, {"shutdown.reboot"}, {}}
MCCustom == {<< >>, <<"load.off", "shutdown.stayoff">>, <<"shutdown.stayoff", "shutdown.default">>}

VARIABLE which

driverVars == <<startVars, queryVars, confVars, shutdownVars>>

DriverParts == {"start", "query", "conf", "shutdown"}

PiecesInit ==
    /\ which # "start" =>
          /\ run = [op |-> "start", foreground |-> TRUE, oldPid |-> TRUE, signalable |-> TRUE, name |-> "match"]
          /\ old = [pc |-> "running", queue |-> "none", reply |-> "none"]
    /\ StartInit
    /\ QueryInit
    /\ which # "conf" => file = <<Port>> /\ conf = Started(Plain, <<Port>>)
    /\ ConfInit
    /\ which # "shutdown" => offer = {} /\ custom = << >>
    /\ ShutdownInit

DriverNext ==
    /\ UNCHANGED which
    /\ \/ which = "start" /\ StartNext /\ UNCHANGED <<queryVars, confVars, shutdownVars>>
       \/ which = "query" /\ QueryNext /\ UNCHANGED <<startVars, confVars, shutdownVars>>
       \/ which = "conf" /\ ConfNext /\ UNCHANGED <<startVars, queryVars, shutdownVars>>
       \/ which = "shutdown" /\ ShutdownNext /\ UNCHANGED <<startVars, queryVars, confVars>>

DriverSpec == which \in DriverParts /\ PiecesInit /\ [][DriverNext]_<<which, driverVars>>
=============================================================================
