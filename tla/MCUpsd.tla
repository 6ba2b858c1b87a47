-------------------------------- MODULE MCUpsd --------------------------------
(***************************************************************************)
(* upsd's sessions (UpsdClients), its tables under reloads (UpsdTables),   *)
(* the commands it passes on (UpsdTracking), its copy of the driver's      *)
(* variables (StateMirror) and the parser of every line (ParseConf).  Each *)
(* is checked by itself: which is chosen at the start, and the others stay *)
(* as they are.  The command lists and the trees of StateMirror do not     *)
(* meet, so they too are explored one at a time.                           *)
(***************************************************************************)
EXTENDS UpsdClients, UpsdTables, UpsdTracking, StateMirror, ParseConf

CONSTANTS a, b, p, q

SessionCommands == {"garbled", "auth", "login", "logout"}

TwoCases == "u" :> "u" @@ "U" :> "u" @@ "v" :> "v"

Section(n, d) == [name |-> n, driver |-> d, port |-> TRUE]
UpsConfs ==
    {<<Section("u", "d1")>>, <<Section("u", "d2"), Section("v", "d1")>>,
     <<Section("U", "d1"), Section("v", "none")>>, <<Section("u", "d1"), Section("U", "d2")>>, <<>>}

Setting(k, x) == [key |-> k, val |-> x]
UsersConfs ==
    {<<Setting("section", a), Setting("password", p), Setting("upsmon", "primary"),
       Setting("instcmds", "all")>>,
     <<Setting("password", p), Setting("section", a), Setting("password", q),
       Setting("password", p), Setting("section", b), Setting("password", p),
       Setting("upsmon", "secondary"), Setting("section", a), Setting("actions", "SET")>>}
AnyUsers == CHOOSE f \in UsersConfs : TRUE
Presented == {<<a, p>>, <<b, p>>}

Plain == [known |-> TRUE, rw |-> TRUE, string |-> FALSE, aux |-> 0, enums |-> {}, ranges |-> {}]
SomeVars ==
    {[Plain EXCEPT !.string = TRUE, !.aux = 1], [Plain EXCEPT !.enums = {"5"}],
     [Plain EXCEPT !.ranges = {<<0, 4>>, <<6, 9>>}], [Plain EXCEPT !.rw = FALSE]}
SomeValues == {[text |-> "5", len |-> 1, number |-> 5], [text |-> "long", len |-> 4, number |-> 0]}

MCFold(v) == IF v = "ON" THEN "on" ELSE v
MCRanges == {<<1, 2>>, <<1, 3>>}

VARIABLE which

upsdVars == <<which, vars, tabvars, trackVars, mirrorVars, parseVars>>

UpsdInit ==
    /\ which \in {"clients", "tables", "tracking", "tree", "cmds", "parser"}
    /\ Init /\ TablesInit /\ TrackInit
    /\ which # "tables" => files = [ups |-> <<Section("u", "d1")>>, users |-> AnyUsers]
    /\ MirrorInit /\ (which # "tree" => dtree = EmptyTree)
    /\ ParseInit
UpsdNext ==
    /\ UNCHANGED which
    /\ \/ which = "clients" /\ Next /\ UNCHANGED <<tabvars, trackVars, mirrorVars, parseVars>>
       \/ which = "tables" /\ TablesNext /\ UNCHANGED <<vars, trackVars, mirrorVars, parseVars>>
       \/ which = "tracking" /\ TrackNext /\ UNCHANGED <<vars, tabvars, mirrorVars, parseVars>>
       \/ which = "tree" /\ TreeNext /\ UNCHANGED <<vars, tabvars, trackVars, parseVars>>
       \/ which = "cmds" /\ CmdsNext /\ UNCHANGED <<vars, tabvars, trackVars, parseVars>>
       \/ which = "parser" /\ ParseNext /\ UNCHANGED <<vars, tabvars, trackVars, mirrorVars>>

UpsdSpec == UpsdInit /\ [][UpsdNext]_upsdVars

Symmetry == Permutations(Clients) \cup Permutations(Hosts)

(* upsd's copy of the variables equals the driver's once it is synchronized, *)
(* and lookups are as the insertions promised (StateMirror); the words of a  *)
(* line are the ones written (ParseConf).                                    *)
SharedSafe == CASE which \in {"tree", "cmds"} -> MirrorSafe
                [] which = "parser" -> ParseSafe
                [] OTHER -> TRUE
=============================================================================
