------------------------------ MODULE HidParse ------------------------------
(***************************************************************************)
(* hidparser.c: a report descriptor is read item by item (HIDParse), its   *)
(* global and local items kept as an environment for the main items, and   *)
(* every main item turned into as many objects as the report count says    *)
(* (Parse_ReportDesc).  The descriptor grows as it is read, so every       *)
(* descriptor of up to MaxItems items is parsed.                           *)
(*                                                                         *)
(* A node of a path is <<page, usage>>.  Sizes are bits.  Values of four   *)
(* bytes, units and physical ranges are not in the model.                  *)
(***************************************************************************)
EXTENDS Integers, Sequences, FiniteSets, SequencesExt

CONSTANTS
    Items,          \* [kind, value, bytes]: the items a descriptor is made of
    Preludes,       \* the environment items it may start with
    MaxItems,       \* bound: its items after those
    PathSize,       \* PATH_SIZE
    UsageTabSize,   \* USAGE_TAB_SIZE
    MaxReport,      \* MAX_REPORT
    MaxOffset       \* UINT16_MAX

VARIABLES
    desc,       \* the items read so far
    begins,     \* how many of them it started with
    parser,     \* HIDParser_t
    objects,    \* HIDDesc_t: item[0..nitems-1]
    replen,     \* HIDDesc_t: the length of a report in bytes, by report ID
    parsed      \* "going", "more" (bytes are known to follow), "failed" (NULL) or "done"

hidParseVars == <<desc, begins, parser, objects, replen, parsed>>

ZeroNode == <<0, 0>>
IndexPage == 255
MainKinds == {"input", "output", "feature"}

CleanEnvironment == [path |-> << >>, ReportID |-> 0, Size |-> 0, LogMin |-> 0, LogMax |-> 0]
HIDParser == [data |-> CleanEnvironment, tab |-> << >>, beyond |-> ZeroNode, UPage |-> 0, ReportCount |-> 0,
              Count |-> 0, offsets |-> << >>, item |-> [kind |-> "none", value |-> 0, bytes |-> 0]]

-----------------------------------------------------------------------------
(* The items *)

(* FormatValue: the sign of a value of one or two bytes *)
Signed(v, bytes) ==
    LET w == 2 ^ (8 * bytes) IN IF bytes > 0 /\ v >= w \div 2 THEN v - w ELSE v

(* UsageTab[0]: what follows the usages in the table moves up with them.   *)
(* Behind a full table that is the next member of the structure.           *)
NextUsage(p) == IF p.tab = << >> THEN p.beyond ELSE p.tab[1]
ResetLocalState(p) == [p EXCEPT !.tab = << >>, !.beyond = ZeroNode]
Unstacked(p) ==
    IF p.tab = << >> THEN p
    ELSE [p EXCEPT !.tab = Tail(@),
                   !.beyond = IF Len(p.tab) = UsageTabSize THEN <<0, UsageTabSize>> ELSE @]

(* LogMax below LogMin is taken for an unsigned number. *)
LogMaxOf(p, i) ==
    LET m == Signed(i.value, i.bytes) IN IF m < p.data.LogMin THEN i.value ELSE m

(* Items that only change the environment *)
Global(p, i) ==
    CASE i.kind = "upage" -> [p EXCEPT !.UPage = i.value]
      [] i.kind = "id" -> [p EXCEPT !.data.ReportID = i.value]
      [] i.kind = "size" -> [p EXCEPT !.data.Size = i.value]
      [] i.kind = "count" -> [p EXCEPT !.ReportCount = i.value]
      [] i.kind = "logmin" -> [p EXCEPT !.data.LogMin = Signed(i.value, i.bytes)]
      [] i.kind = "logmax" -> [p EXCEPT !.data.LogMax = LogMaxOf(p, i)]
      [] OTHER -> p     \* a long item is skipped, an unknown one ignored

(* A usage of four bytes brings its page along. *)
NodeOf(page, i) ==
    IF i.bytes = 4 THEN <<i.value \div 65536, i.value % 65536>> ELSE <<page, i.value>>
Usage(p, i) == [p EXCEPT !.tab = Append(@, NodeOf(p.UPage, i))]

CollectionNodes(p, i) ==
    <<NextUsage(p)>> \o IF i.value >= 128 THEN <<<<IndexPage, i.value - 128>>>> ELSE << >>
Collection(p, i) ==
    ResetLocalState([p EXCEPT !.data.path = @ \o CollectionNodes(p, i)])

(* An index goes with the collection it is of. *)
EndCollection(p) ==
    LET up == Front(p.data.path) IN
    ResetLocalState([p EXCEPT !.data.path = IF Last(@)[1] = IndexPage THEN Front(up) ELSE up])

Environ(p, i) ==
    CASE i.kind = "usage" -> Usage(p, i)
      [] i.kind = "collection" -> Collection(p, i)
      [] i.kind = "end" -> EndCollection(p)
      [] OTHER -> Global(p, i)

(* GetReportOffset: an entry with ID 0 counts as unused, so report 0 never  *)
(* takes one of its own, and starts again at 0 every time.                  *)
OffsetKey(p, i) == <<p.data.ReportID, i.kind>>
GetReportOffset(p, i) ==
    LET k == OffsetKey(p, i) IN
    IF k \in DOMAIN p.offsets THEN p.offsets[k] ELSE 0
SlotLeft(p, i) ==
    OffsetKey(p, i) \in DOMAIN p.offsets \/ Cardinality(DOMAIN p.offsets) < MaxReport

(* A main item, or the next control of one *)
Object(p, i) ==
    [id |-> p.data.ReportID, type |-> i.kind, offset |-> GetReportOffset(p, i), size |-> p.data.Size,
     path |-> Append(p.data.path, NextUsage(p)), min |-> p.data.LogMin, max |-> p.data.LogMax]
Begun(p) == IF p.Count = 0 THEN p.ReportCount ELSE p.Count
Main(p, i) ==
    LET left == Begun(p) - 1
        key == OffsetKey(p, i)
        next == GetReportOffset(p, i) + p.data.Size
        keys == DOMAIN p.offsets \cup {k \in {key} : k[1] # 0}
        offs == [k \in keys |-> IF k = key THEN next ELSE p.offsets[k]]
        q == [Unstacked(p) EXCEPT !.Count = left, !.offsets = offs]
    IN IF left = 0 THEN ResetLocalState(q) ELSE q

(* HIDParse gives up: -2 *)
Refused(p, i) ==
    \/ i.kind = "cut"
    \/ i.kind = "usage" /\ Len(p.tab) >= UsageTabSize
    \/ i.kind = "collection" /\ Len(p.data.path) + Len(CollectionNodes(p, i)) > PathSize
    \/ i.kind = "end" /\ p.data.path = << >>
    \/ /\ i.kind \in MainKinds
       /\ \/ Begun(p) = 0
          \/ Len(p.data.path) >= PathSize
          \/ ~SlotLeft(p, i)
          \/ p.data.Size > MaxOffset - GetReportOffset(p, i)

-----------------------------------------------------------------------------
(* Parse_ReportDesc *)

HidParseInit ==
    /\ desc \in Preludes
    /\ begins = Len(desc)
    /\ parser = FoldLeft(Environ, HIDParser, desc)
    /\ objects = << >>
    /\ replen = [id \in {} |-> 0]
    /\ parsed = "going"

Bytes(o) == (o.offset + o.size + 7) \div 8
Recorded(o) ==
    /\ objects' = IF o.path[Len(o.path)] # ZeroNode THEN Append(objects, o) ELSE objects
    /\ replen' = [id \in DOMAIN replen \cup {o.id} |->
                     IF id # o.id THEN replen[id]
                     ELSE IF id \in DOMAIN replen /\ replen[id] > Bytes(o) THEN replen[id] ELSE Bytes(o)]

Going == parsed \in {"going", "more"} /\ Len(objects) < MaxReport

ParsesItem(i) ==
    /\ Going /\ parser.Count = 0
    /\ Len(desc) < begins + MaxItems
    /\ desc' = Append(desc, i)
    /\ IF Refused(parser, i)
       THEN parsed' = "failed" /\ UNCHANGED <<parser, objects, replen>>
       ELSE /\ parsed' = "going"
            /\ IF i.kind \in MainKinds
               THEN parser' = [Main(parser, i) EXCEPT !.item = i] /\ Recorded(Object(parser, i))
               ELSE parser' = Environ(parser, i) /\ UNCHANGED <<objects, replen>>
    /\ UNCHANGED begins

(* The next control of the same main item, which the loop comes to only if *)
(* bytes follow the item.                                                  *)
ParsesControl ==
    LET i == parser.item IN
    /\ Going /\ parser.Count > 0
    /\ Len(desc) < begins + MaxItems
    /\ UNCHANGED <<desc, begins>>
    /\ IF Refused(parser, i)
       THEN parsed' = "failed" /\ UNCHANGED <<parser, objects, replen>>
       ELSE parsed' = "more" /\ parser' = Main(parser, i) /\ Recorded(Object(parser, i))

(* The descriptor ends, or MAX_REPORT objects are enough. *)
ParseEnds ==
    /\ parsed = "going" \/ (parsed = "more" /\ Len(objects) = MaxReport)
    /\ parsed' = IF objects = << >> THEN "failed" ELSE "done"
    /\ UNCHANGED <<desc, begins, parser, objects, replen>>

HidParseNext == (\E i \in Items : ParsesItem(i)) \/ ParsesControl \/ ParseEnds

-----------------------------------------------------------------------------
(* What a descriptor means, said of all its items at once *)

Positions(kinds, from, to) == {n \in from..to : desc[n].kind \in kinds}
LastBefore(kinds, n) ==
    LET s == Positions(kinds, 1, n - 1) IN IF s = {} THEN 0 ELSE CHOOSE m \in s : \A k \in s : k <= m
ValueAt(kind, n) == IF LastBefore({kind}, n) = 0 THEN 0 ELSE desc[LastBefore({kind}, n)].value
SignedAt(kind, n) ==
    LET m == LastBefore({kind}, n) IN IF m = 0 THEN 0 ELSE Signed(desc[m].value, desc[m].bytes)

(* the usages that a main item, a collection or its end at n may use *)
UsagesAt(n) ==
    LET from == LastBefore(MainKinds \cup {"collection", "end"}, n)
        at == SetToSortSeq(Positions({"usage"}, from + 1, n - 1), LAMBDA x, y : x < y)
    IN [j \in 1..Len(at) |->
          NodeOf(ValueAt("upage", at[j]), desc[at[j]])]
UsageFor(n, j) == IF j <= Len(UsagesAt(n)) THEN UsagesAt(n)[j] ELSE ZeroNode

OpenAt(n) ==
    {c \in Positions({"collection"}, 1, n - 1) :
       \A m \in c + 1..n - 1 :
          Cardinality(Positions({"end"}, c + 1, m)) <= Cardinality(Positions({"collection"}, c + 1, m))}
PathAt(n) ==
    FoldLeft(LAMBDA path, c : path \o <<UsageFor(c, 1)>> \o
                 IF desc[c].value >= 128 THEN <<<<IndexPage, desc[c].value - 128>>>> ELSE << >>,
             << >>, SetToSortSeq(OpenAt(n), LAMBDA x, y : x < y))

MaxAt(n) ==
    LET m == LastBefore({"logmax"}, n) IN
    IF m # 0 /\ SignedAt("logmax", n) < SignedAt("logmin", m) THEN desc[m].value ELSE SignedAt("logmax", n)

(* The controls of the main item at n, in their report after those before *)
BitsBefore(n) ==
    FoldSet(LAMBDA m, sum : sum + ValueAt("size", m) * ValueAt("count", m), 0,
            {m \in Positions({desc[n].kind}, 1, n - 1) : ValueAt("id", m) = ValueAt("id", n)})
ControlsAt(n) ==
    [j \in 1..ValueAt("count", n) |->
       [id |-> ValueAt("id", n), type |-> desc[n].kind,
        offset |-> IF ValueAt("id", n) = 0 THEN 0 ELSE BitsBefore(n) + (j - 1) * ValueAt("size", n),
        size |-> ValueAt("size", n), path |-> Append(PathAt(n), UsageFor(n, j)),
        min |-> SignedAt("logmin", n), max |-> MaxAt(n)]]
Meant ==
    SelectSeq(FlattenSeq([n \in 1..Len(desc) |-> IF desc[n].kind \in MainKinds THEN ControlsAt(n) ELSE << >>]),
              LAMBDA o : o.path[Len(o.path)] # ZeroNode)

(* The usage table was full, and a control came after its usages. *)
TableOverrun ==
    \E n \in Positions(MainKinds, 1, Len(desc)) :
       Len(UsagesAt(n)) = UsageTabSize /\ ValueAt("count", n) > UsageTabSize
(* The descriptor ends with a main item of several controls. *)
EndsInControls == desc[Len(desc)].kind \in MainKinds /\ ValueAt("count", Len(desc)) > 1

(* Parse_ReportDesc finds the objects the descriptor means, in their order   *)
(* and with the path, place and range they have there: all of them, unless   *)
(* there are more than MAX_REPORT or the descriptor ends before its last     *)
(* controls are looked at.                                                   *)
ObjectsAreMeant ==
    parsed = "done" /\ ~TableOverrun =>
       /\ IsPrefix(objects, Meant)
       /\ Len(objects) < MaxReport /\ ~EndsInControls => objects = Meant

(* Objects of one report do not share bits, and lie within the report that   *)
(* new_report_buffer makes room for.                                         *)
ObjectsFitReports ==
    \A x \in 1..Len(objects) :
       LET o == objects[x] IN
       /\ o.offset + o.size <= 8 * replen[o.id]
       /\ \A y \in 1..x - 1 :
             (objects[y].id = o.id /\ objects[y].type = o.type /\ o.id # 0)
               => objects[y].offset + objects[y].size <= o.offset

HidParseSafe == ObjectsAreMeant /\ ObjectsFitReports
=============================================================================
