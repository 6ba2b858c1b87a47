---------------------------- MODULE StateMirror ----------------------------
(***************************************************************************)
(* The variable tree (common/state.c) on both ends of the link between     *)
(* driver and upsd: dstate.c changes the driver's tree and tells its       *)
(* listener, parse_args of sstate.c applies the line to upsd's, and        *)
(* netget.c and netlist.c answer clients from it.  The transport is        *)
(* NutLink's subject: here a line that is sent arrives.                    *)
(*                                                                         *)
(* A name is a number, in the order of strcasecmp.  A tree is its root and *)
(* the links between the nodes, which are known by their names.            *)
(***************************************************************************)
EXTENDS Integers, Sequences, SequencesExt, FiniteSets

CONSTANTS
    N,          \* names 1..N
    External,   \* names dstate_variable_is_external holds of
    Detailed,   \* names given enums, ranges, flags, a length and any value here
    Usual,      \* the value of the others
    StatusVar,  \* ups.status
    Values,     \* values of variables
    EnumValues, \* values of enums, from the tables of the drivers
    Fold(_),    \* what strcasecmp compares of a value
    Special,    \* values holding a quote or a backslash
    Wait,       \* upsd's own status, until the driver's arrives
    Garbled,    \* what the parser makes of such a value that was not escaped
    Ranges,     \* ranges a driver adds, <<min, max>>
    Flags,      \* among "RW", "STRING", "NUMBER"
    Cmds        \* instant commands, numbers in the order of their names

Names == 1..N
Nil == 0
Links == 0..N

ASSUME MirrorAssumption ==
    /\ N \in Nat /\ External \subseteq Names /\ Detailed \subseteq Names
    /\ Special \subseteq Values /\ Usual \in Values /\ Garbled \notin Values
    /\ Cmds \subseteq Nat /\ Flags \subseteq {"RW", "STRING", "NUMBER"}

VARIABLES
    dtree,      \* the driver's dtree_root
    stree,      \* upsd's inforoot
    cmds        \* the command lists: [drv, upsd], each a sequence

mirrorVars == <<dtree, stree, cmds>>

-----------------------------------------------------------------------------
(* Trees *)

NoNode == [raw |-> Garbled, enums |-> <<>>, ranges |-> <<>>, aux |-> 0, flags |-> {}]
EmptyTree == [root |-> Nil, left |-> [n \in Names |-> Nil], right |-> [n \in Names |-> Nil],
              node |-> [n \in Names |-> NoNode]]

(* A link is the root's or a side of a node. *)
Target(t, link) ==
    CASE link[1] = "root" -> t.root
      [] link[1] = "left" -> t.left[link[2]]
      [] link[1] = "right" -> t.right[link[2]]
Relinked(t, link, n) ==
    CASE link[1] = "root" -> [t EXCEPT !.root = n]
      [] link[1] = "left" -> [t EXCEPT !.left[link[2]] = n]
      [] link[1] = "right" -> [t EXCEPT !.right[link[2]] = n]

(* The loop that every function of state.c starts with: from a link, left  *)
(* of the greater names and right of the smaller, to n or to the end.      *)
Sought(t, from, n) ==
    LET At[i \in Links] ==
            IF i = 0 THEN from
            ELSE LET link == At[i - 1]
                     node == Target(t, link)
                 IN CASE node = Nil \/ node = n -> link
                      [] node > n -> <<"left", node>>
                      [] OTHER -> <<"right", node>>
    IN IF Target(t, from) = Nil THEN from ELSE At[N]
Root == <<"root", Nil>>
Find(t, n) == Target(t, Sought(t, Root, n))

(* st_tree_node_add: nothing to add, or added where the search ends. *)
NodeAdd(t, from, n) ==
    IF n = Nil \/ Target(t, Sought(t, from, n)) # Nil THEN t
    ELSE Relinked(t, Sought(t, from, n), n)

(* What a traversal meets, in order. *)
Walk(t) ==
    LET W[p \in Links, d \in Links] ==
            IF p = Nil \/ d = 0 THEN <<>>
            ELSE W[t.left[p], d - 1] \o <<p>> \o W[t.right[p], d - 1]
    IN W[t.root, N]

Immutable(t, n) == "IMMUTABLE" \in t.node[n].flags

(* state_delinfo: the left subtree goes under the right one, which takes    *)
(* the place of the node.                                                   *)
Unlinked_LosesLeft(t, n) ==
    [Relinked(t, Sought(t, Root, n), IF t.right[n] = Nil THEN t.left[n] ELSE t.right[n])
        EXCEPT !.left[n] = Nil, !.right[n] = Nil, !.node[n] = NoNode]
Unlinked(t, n) ==
    LET hung == NodeAdd(t, <<"right", n>>, t.left[n])
        out == Relinked(hung, Sought(t, Root, n), hung.right[n])
    IN [out EXCEPT !.left[n] = Nil, !.right[n] = Nil, !.node[n] = NoNode]
Deletes(t, n) == Find(t, n) = n /\ ~Immutable(t, n)
DelInfo(t, n) == IF Deletes(t, n) THEN Unlinked(t, n) ELSE t

(* state_setinfo: a new node, or a changed value.  A value that differs in  *)
(* case only counts as the same.                                            *)
Sets(t, n, v) == Find(t, n) = Nil \/ (Fold(t.node[n].raw) # Fold(v) /\ ~Immutable(t, n))
SetInfo(t, n, v) ==
    IF Find(t, n) = Nil
    THEN [Relinked(t, Sought(t, Root, n), n) EXCEPT !.node[n] = [NoNode EXCEPT !.raw = v]]
    ELSE IF Sets(t, n, v) THEN [t EXCEPT !.node[n].raw = v] ELSE t

-----------------------------------------------------------------------------
(* What hangs off a node.  Each function finds the node or fails.           *)

AddsEnum(t, n, v) == Find(t, n) = n /\ ~Contains(t.node[n].enums, v)
AddEnum(t, n, v) ==
    IF AddsEnum(t, n, v) THEN [t EXCEPT !.node[n].enums = Append(@, v)] ELSE t

(* st_tree_del_enum: the first one equal but for case. *)
EnumAt(t, n, v) == {i \in DOMAIN t.node[n].enums : Fold(t.node[n].enums[i]) = Fold(v)}
DelsEnum(t, n, v) == Find(t, n) = n /\ EnumAt(t, n, v) # {}
DelEnum(t, n, v) ==
    IF DelsEnum(t, n, v) THEN [t EXCEPT !.node[n].enums = RemoveAt(@, Min(EnumAt(t, n, v)))]
    ELSE t

(* A range with one bound in common is taken for the range itself. *)
SameRange(r, q) == r[1] = q[1] \/ r[2] = q[2]
RangeAt(t, n, r) == {i \in DOMAIN t.node[n].ranges : SameRange(t.node[n].ranges[i], r)}
AddsRange(t, n, r) == r[1] <= r[2] /\ Find(t, n) = n /\ RangeAt(t, n, r) = {}
AddRange(t, n, r) ==
    IF AddsRange(t, n, r) THEN [t EXCEPT !.node[n].ranges = Append(@, r)] ELSE t
DelsRange(t, n, r) == Find(t, n) = n /\ RangeAt(t, n, r) # {}
DelRange(t, n, r) ==
    IF DelsRange(t, n, r) THEN [t EXCEPT !.node[n].ranges = RemoveAt(@, Min(RangeAt(t, n, r)))]
    ELSE t

(* state_setaux and state_setflags; the server's knows three flags. *)
SetAux(t, n, a) == IF Find(t, n) = n THEN [t EXCEPT !.node[n].aux = a] ELSE t
SetFlags(t, n, f) == IF Find(t, n) = n THEN [t EXCEPT !.node[n].flags = f] ELSE t

(* state_addcmd and state_delcmd on a sorted list. *)
AddCmd(list, c) ==
    IF Contains(list, c) THEN list
    ELSE LET before == SelectSeq(list, LAMBDA d : d < c)
         IN before \o <<c>> \o SubSeq(list, Len(before) + 1, Len(list))
DelCmd(list, c) == SelectSeq(list, LAMBDA d : d # c)

-----------------------------------------------------------------------------
(* The link.  An unescaped value is not the one that the parser returns,    *)
(* and a SETFLAGS line without flags is too short for parse_args.           *)

Unescaped(v) == IF v \in Special THEN Garbled ELSE v
Wire(f) == f \ {"IMMUTABLE"}
ParseSetFlags(t, n, f) == IF Wire(f) = {} THEN t ELSE SetFlags(t, n, Wire(f))

(* DUMPALL: upsd starts with a status of its own, then every node of the    *)
(* driver's tree, in order, escaped.                                        *)
DumpNode(t, n) ==
    LET d == dtree.node[n]
        set == SetInfo(t, n, d.raw)
        enums == FoldLeft(LAMBDA u, v : AddEnum(u, n, v), set, d.enums)
        ranges == FoldLeft(LAMBDA u, r : AddRange(u, n, r), enums, d.ranges)
        aux == IF d.aux # 0 THEN SetAux(ranges, n, d.aux) ELSE ranges
    IN ParseSetFlags(aux, n, d.flags)
Dumped ==
    LET w == Walk(dtree)
        After[i \in 0..Len(w)] ==
            IF i = 0 THEN SetInfo(EmptyTree, StatusVar, Wait)
            ELSE CHOOSE t \in {DumpNode(u, w[i]) : u \in {After[i - 1]}} : TRUE
    IN After[Len(w)]

(* What storeval does with the override.* lines of ups.conf, before anyone  *)
(* listens.                                                                 *)
Overridden(over, v) ==
    FoldLeft(LAMBDA t, n : SetFlags(SetInfo(t, n, v), n, {"IMMUTABLE"}),
             EmptyTree, SetToSortSeq(over, <))

MirrorInit ==
    /\ \E over \in {{}} \cup {{n} : n \in Names} : dtree = Overridden(over, Usual)
    /\ stree = Dumped
    /\ cmds = [drv |-> <<>>, upsd |-> <<>>]

(* sstate_disconnect frees upsd's copy; sstate_connect asks for a dump. *)
Reconnects ==
    /\ stree' = Dumped
    /\ cmds' = [cmds EXCEPT !.upsd = FoldLeft(AddCmd, <<>>, cmds.drv)]
    /\ UNCHANGED dtree

-----------------------------------------------------------------------------
(* dstate.c: change the tree, and say so when it changed. *)

DstateSetinfo(n, v) ==
    /\ dtree' = SetInfo(dtree, n, v)
    /\ stree' = IF Sets(dtree, n, v) THEN SetInfo(stree, n, Unescaped(v)) ELSE stree
    /\ UNCHANGED cmds

DstateDelinfo(n) ==
    /\ dtree' = DelInfo(dtree, n)
    /\ stree' = IF Deletes(dtree, n) THEN DelInfo(stree, n) ELSE stree
    /\ UNCHANGED cmds

DstateAddenum(n, v) ==
    /\ dtree' = AddEnum(dtree, n, v)
    /\ stree' = IF AddsEnum(dtree, n, v) THEN AddEnum(stree, n, v) ELSE stree
    /\ UNCHANGED cmds

DstateDelenum(n, v) ==
    /\ dtree' = DelEnum(dtree, n, v)
    /\ stree' = IF DelsEnum(dtree, n, v) THEN DelEnum(stree, n, v) ELSE stree
    /\ UNCHANGED cmds

(* dstate_setflags, for a node that exists and may change. *)
ChangesFlags(t, n, f) == Find(t, n) = n /\ ~Immutable(t, n) /\ t.node[n].flags # f
FlagsSet(t, n, f) == IF ChangesFlags(t, n, f) THEN SetFlags(t, n, f) ELSE t
FlagsSent(s, t, n, f) == IF ChangesFlags(t, n, f) THEN ParseSetFlags(s, n, f) ELSE s

DstateSetflags(n, f) ==
    /\ dtree' = FlagsSet(dtree, n, f)
    /\ stree' = FlagsSent(stree, dtree, n, f)
    /\ UNCHANGED cmds

(* A range makes its variable a number. *)
DstateAddrange(n, r) ==
    LET added == AddRange(dtree, n, r)
        f == added.node[n].flags \cup {"NUMBER"}
    IN IF AddsRange(dtree, n, r)
       THEN /\ dtree' = FlagsSet(added, n, f)
            /\ stree' = FlagsSent(AddRange(stree, n, r), added, n, f)
            /\ UNCHANGED cmds
       ELSE UNCHANGED mirrorVars

DstateDelrange(n, r) ==
    /\ dtree' = DelRange(dtree, n, r)
    /\ stree' = IF DelsRange(dtree, n, r) THEN DelRange(stree, n, r) ELSE stree
    /\ UNCHANGED cmds

DstateSetaux(n, a) ==
    /\ dtree' = SetAux(dtree, n, a)
    /\ stree' = IF Find(dtree, n) = n /\ dtree.node[n].aux # a THEN SetAux(stree, n, a) ELSE stree
    /\ UNCHANGED cmds

DstateAddcmd(c) ==
    /\ cmds' = [drv |-> AddCmd(cmds.drv, c),
                upsd |-> IF Contains(cmds.drv, c) THEN cmds.upsd ELSE AddCmd(cmds.upsd, c)]
    /\ UNCHANGED <<dtree, stree>>

DstateDelcmd(c) ==
    /\ cmds' = [drv |-> DelCmd(cmds.drv, c),
                upsd |-> IF Contains(cmds.drv, c) THEN DelCmd(cmds.upsd, c) ELSE cmds.upsd]
    /\ UNCHANGED <<dtree, stree>>

(* dstate_purge_external_values: the first external variable of the         *)
(* traversal is deleted, over and over, until none is left or one stays.    *)
Externals(t) == SelectSeq(Walk(t), LAMBDA n : n \in External)
PurgeStep(t) ==
    LET x == Externals(t)
    IN IF x = <<>> \/ ~Deletes(t, Head(x)) THEN t ELSE Unlinked(t, Head(x))
PurgeLoop(t) ==
    LET After[i \in Links] ==
            IF i = 0 THEN t ELSE CHOOSE u \in {PurgeStep(s) : s \in {After[i - 1]}} : TRUE
    IN After[N]
PurgesExternal ==
    LET gone == SelectSeq(Externals(dtree), LAMBDA n : Find(PurgeLoop(dtree), n) = Nil)
    IN /\ dtree' = PurgeLoop(dtree)
       /\ stree' = FoldLeft(DelInfo, stree, gone)
       /\ UNCHANGED cmds

TreeNext ==
    \/ Reconnects
    \/ PurgesExternal
    \/ \E n \in Names : DstateDelinfo(n) \/ DstateSetinfo(n, Usual)
    \/ \E n \in Detailed :
          \/ \E v \in Values : DstateSetinfo(n, v)
          \/ \E v \in EnumValues : DstateAddenum(n, v) \/ DstateDelenum(n, v)
          \/ \E r \in Ranges : DstateAddrange(n, r) \/ DstateDelrange(n, r)
          \/ \E f \in SUBSET Flags : DstateSetflags(n, f)
          \/ \E a \in {0, 1} : DstateSetaux(n, a)
CmdsNext ==
    \/ Reconnects
    \/ \E c \in Cmds : DstateAddcmd(c) \/ DstateDelcmd(c)
MirrorNext == TreeNext \/ CmdsNext

MirrorSpec == MirrorInit /\ [][MirrorNext]_mirrorVars

-----------------------------------------------------------------------------
(* Answers of upsd.  A list is written line by line; the client gets those   *)
(* before the first write that fails.                                        *)

GetVar(n, fsd) ==
    IF Find(stree, n) = Nil THEN <<"ERR", n>>
    ELSE <<IF n = StatusVar /\ fsd THEN "FSD" ELSE "VAR", n, stree.node[n].raw>>
GetType(n) ==
    LET x == stree.node[n]
    IN [rw |-> "RW" \in x.flags, enum |-> x.enums # <<>>, range |-> x.ranges # <<>>,
        len |-> IF "STRING" \in x.flags THEN x.aux ELSE -1]
List(lines, k) == SubSeq(<<"BEGIN">> \o lines \o <<"END">>, 1, k)
TreeLines(rw, fsd) ==
    LET shown == SelectSeq(Walk(stree), LAMBDA n : rw => "RW" \in stree.node[n].flags)
    IN [i \in DOMAIN shown |->
           IF rw THEN <<"RW", shown[i], stree.node[shown[i]].raw>> ELSE GetVar(shown[i], fsd)]

-----------------------------------------------------------------------------
(* Properties *)

NodeOK(x) ==
    /\ x.raw \in Values \cup {Garbled, Wait}
    /\ x.aux \in {0, 1} /\ x.flags \subseteq {"RW", "STRING", "NUMBER", "IMMUTABLE"}
    /\ ToSet(x.ranges) \subseteq Ranges /\ ToSet(x.enums) \subseteq EnumValues
MirrorTypeOK == \A n \in Names : NodeOK(dtree.node[n]) /\ NodeOK(stree.node[n])

(* Whatever was inserted, deleted and hung elsewhere, each variable is in a   *)
(* tree once, a traversal meets the variables in the order of their names,    *)
(* and a search finds those and no others (state.c:108, 198, 274, 718).       *)
Ordered(t) ==
    LET w == Walk(t)
    IN /\ \A i, j \in DOMAIN w : i < j => w[i] < w[j]
       /\ \A n \in Names : (Find(t, n) = n) <=> Contains(w, n)

(* upsd holds the driver's variables, with the driver's values, enums,        *)
(* ranges and lengths, whether they came one by one or in a dump: all but a   *)
(* value that needed escaping, and flags that were all taken away.            *)
SameNode(d, x) ==
    /\ x.raw = d.raw \/ (d.raw \in Special /\ x.raw = Garbled)
    /\ x.enums = d.enums /\ x.ranges = d.ranges /\ x.aux = d.aux
    /\ x.flags = Wire(d.flags) \/ Wire(d.flags) = {}
Mirrored ==
    /\ cmds.upsd = cmds.drv
    /\ \A n \in Names :
          \/ Find(dtree, n) = n /\ Find(stree, n) = n /\ SameNode(dtree.node[n], stree.node[n])
          \/ Find(dtree, n) = Nil /\ (Find(stree, n) = Nil \/ n = StatusVar)

(* The list of commands stays sorted, without duplicates. *)
CmdsSorted == \A i, j \in DOMAIN cmds.drv : i < j => cmds.drv[i] < cmds.drv[j]

(* An answer that ends with END LIST holds every variable once, with the      *)
(* value that GET VAR gives for it, and LIST RW holds those whose type is RW; *)
(* one that was cut short has no END.                                         *)
ListsComplete ==
    \A fsd \in BOOLEAN, rw \in BOOLEAN :
        LET lines == TreeLines(rw, fsd)
            shown == {n \in Names : Find(stree, n) = n /\ (rw => GetType(n).rw)}
        IN /\ {lines[i][2] : i \in DOMAIN lines} = shown
           /\ Len(lines) = Cardinality(shown)
           /\ \A k \in 0..(Len(lines) + 1) : ~Contains(List(lines, k), "END")

(* When no override is in force the purge leaves no external variable. *)
PurgeIsComplete ==
    (\A n \in External : ~Immutable(dtree, n)) => Externals(PurgeLoop(dtree)) = <<>>

(* The trees, what upsd knows and what it answers (state.c, dstate.c:1358-    *)
(* 1828, netlist.c).                                                          *)
MirrorSafe ==
    /\ MirrorTypeOK
    /\ Ordered(dtree) /\ Ordered(stree)
    /\ Mirrored /\ CmdsSorted
    /\ ListsComplete /\ PurgeIsComplete
=============================================================================
