---------------------------- MODULE NutLinkProofs ----------------------------
(***************************************************************************)
(* The connection of upsd to a driver (NutLink), for any variables and     *)
(* values, any number of connections, and buffers and ages of any size.    *)
(* The driver's lines are read as a stream that settles, for each variable *)
(* and for the staleness, what upsd will believe when it has read all of   *)
(* it: first what a stream of lines settles, what a dump tells and what    *)
(* reading a line does; then the inductive invariant and that every step   *)
(* keeps its types; then the properties.                                   *)
(***************************************************************************)
EXTENDS NutLink, FiniteSetTheorems, TLAPS

(* Facts about sequences, for any sequences: the solver knows them of single  *)
(* ones, and the proofs below cite them by name.                              *)

(* A sequence over a set is one over a larger set. *)
LEMMA SeqMonotonic ==
    ASSUME NEW S, NEW T, NEW s \in Seq(S), S \subseteq T
    PROVE  s \in Seq(T)
OBVIOUS

(* The elements of a sequence over S are in S. *)
LEMMA ElementOfSeq ==
    ASSUME NEW S, NEW s \in Seq(S), NEW n \in 1..Len(s)
    PROVE  s[n] \in S
OBVIOUS

(* The empty sequence, and what is not it. *)
LEMMA EmptySeq ==
    ASSUME NEW S
    PROVE  /\ << >> \in Seq(S)
           /\ Len(<< >>) = 0
           /\ \A s \in Seq(S) : s # << >> => Len(s) \in Nat \ {0}
OBVIOUS

(* A sequence is a function from an interval. *)
LEMMA LenProperties ==
    ASSUME NEW S, NEW s \in Seq(S)
    PROVE  Len(s) \in Nat /\ s \in [1..Len(s) -> S] /\ DOMAIN s = 1..Len(s)
OBVIOUS

(* The sequences over S, as functions. *)
LEMMA SeqDef == \A S : Seq(S) = UNION {[1..n -> S] : n \in Nat}
OBVIOUS

(* Sequences with the same elements are equal. *)
LEMMA SeqEqual ==
    ASSUME NEW S, NEW s \in Seq(S), NEW t \in Seq(S),
           Len(s) = Len(t), \A i \in 1..Len(s) : s[i] = t[i]
    PROVE  s = t
OBVIOUS

(* What is in a concatenation, and where. *)
LEMMA ConcatProperties ==
    ASSUME NEW S, NEW s \in Seq(S), NEW t \in Seq(S)
    PROVE  /\ s \o t \in Seq(S)
           /\ Len(s \o t) = Len(s) + Len(t)
           /\ \A i \in 1..Len(s) + Len(t) :
                 (s \o t)[i] = IF i <= Len(s) THEN s[i] ELSE t[i - Len(s)]
OBVIOUS

(* The empty sequence adds nothing. *)
LEMMA ConcatEmptySeq ==
    ASSUME NEW S, NEW s \in Seq(S)
    PROVE  s \o << >> = s /\ << >> \o s = s
OBVIOUS

(* Concatenation is associative. *)
LEMMA ConcatAssociative ==
    ASSUME NEW S, NEW s \in Seq(S), NEW t \in Seq(S), NEW u \in Seq(S)
    PROVE  (s \o t) \o u = s \o (t \o u)
OBVIOUS

(* The first element and the rest. *)
LEMMA HeadTailProperties ==
    ASSUME NEW S, NEW s \in Seq(S), s # << >>
    PROVE  /\ Head(s) \in S
           /\ Tail(s) \in Seq(S)
           /\ Len(Tail(s)) = Len(s) - 1
           /\ \A i \in 1..Len(Tail(s)) : Tail(s)[i] = s[i + 1]
OBVIOUS

(* One element more. *)
LEMMA AppendProperties ==
    ASSUME NEW S, NEW s \in Seq(S), NEW e \in S
    PROVE  /\ Append(s, e) \in Seq(S)
           /\ Append(s, e) # << >>
           /\ Len(Append(s, e)) = Len(s) + 1
           /\ \A i \in 1..Len(s) : Append(s, e)[i] = s[i]
           /\ Append(s, e)[Len(s) + 1] = e
OBVIOUS

(* To append is to concatenate. *)
LEMMA AppendIsConcat ==
    ASSUME NEW S, NEW s \in Seq(S), NEW e \in S
    PROVE  Append(s, e) = s \o <<e>>
OBVIOUS

-----------------------------------------------------------------------------
-----------------------------------------------------------------------------
(* Streams of lines *)

(* Whoever reads s to its end knows what is right: the last line of s that  *)
(* is about it tells the right thing; without one, it is right now.         *)
Settles(s, about, right, now) ==
    /\ \A i \in DOMAIN s :
          s[i] \in about /\ (\A j \in DOMAIN s : j > i => s[j] \notin about) => s[i] \in right
    /\ (\A i \in DOMAIN s : s[i] \notin about) => now

LEMMA SettlesEmpty ==
    ASSUME NEW about, NEW right, NEW now \in BOOLEAN
    PROVE  Settles(<<>>, about, right, now) <=> now
  BY DEF Settles

(* A last line that tells the right thing settles it. *)
LEMMA SettlesTold ==
    ASSUME NEW S, NEW s \in Seq(S), NEW line \in S, NEW about, NEW right, NEW now,
           line \in right, line \in about
    PROVE  Settles(Append(s, line), about, right, now)
  <1>1. /\ DOMAIN Append(s, line) = 1 .. Len(s) + 1 /\ Len(s) \in Nat
        /\ Append(s, line)[Len(s) + 1] = line
    BY AppendProperties, LenProperties
  <1>2. Len(s) + 1 \in DOMAIN Append(s, line)
    BY <1>1
  <1>3. \A i \in DOMAIN Append(s, line) : i # Len(s) + 1 => Len(s) + 1 > i
    BY <1>1
  <1> QED BY <1>1, <1>2, <1>3 DEF Settles

(* A line about something else leaves it settled. *)
LEMMA SettlesOther ==
    ASSUME NEW S, NEW s \in Seq(S), NEW line \in S, NEW about, NEW right, NEW now,
           line \notin about, Settles(s, about, right, now)
    PROVE  Settles(Append(s, line), about, right, now)
  <1>1. /\ DOMAIN Append(s, line) = 1 .. Len(s) + 1 /\ Len(s) \in Nat
        /\ Append(s, line)[Len(s) + 1] = line
        /\ DOMAIN s = 1 .. Len(s)
        /\ \A i \in DOMAIN s : Append(s, line)[i] = s[i]
    BY AppendProperties, LenProperties
  <1>2. \A i \in DOMAIN Append(s, line) : i \in DOMAIN s \/ i = Len(s) + 1
    BY <1>1
  <1>3. DOMAIN s \subseteq DOMAIN Append(s, line)
    BY <1>1
  <1> QED BY <1>1, <1>2, <1>3 DEF Settles

(* Reading the first line keeps it settled. *)
LEMMA SettlesRead ==
    ASSUME NEW S, NEW s \in Seq(S), s # <<>>, NEW about, NEW right, NEW now, NEW then,
           Settles(s, about, right, now),
           Head(s) \in right => then,
           Head(s) \notin about /\ now => then
    PROVE  Settles(Tail(s), about, right, then)
  <1>1. /\ Len(s) \in Nat /\ Len(s) >= 1 /\ DOMAIN s = 1 .. Len(s)
        /\ Len(Tail(s)) = Len(s) - 1 /\ DOMAIN Tail(s) = 1 .. Len(s) - 1
        /\ \A i \in DOMAIN Tail(s) : Tail(s)[i] = s[i + 1]
        /\ s[1] = Head(s)
    BY HeadTailProperties, LenProperties, EmptySeq
  <1>2. \A i \in DOMAIN Tail(s) : i + 1 \in DOMAIN s /\ i \in Int
    BY <1>1
  <1>3. \A j \in DOMAIN s : j \in Int /\ (j = 1 \/ (j > 1 /\ j - 1 \in DOMAIN Tail(s) /\ Tail(s)[j - 1] = s[j]))
    BY <1>1
  <1>4. ASSUME NEW i \in DOMAIN Tail(s), Tail(s)[i] \in about,
               \A j \in DOMAIN Tail(s) : j > i => Tail(s)[j] \notin about
        PROVE  Tail(s)[i] \in right
    <2>1. \A j \in DOMAIN s : j > i + 1 => s[j] \notin about
      <3>1. ASSUME NEW j \in DOMAIN s, j > i + 1
            PROVE  s[j] \notin about
        <4>1. i \in Int /\ i >= 1 /\ j \in Int
          BY <1>1, <1>2, <1>3
        <4>2. j - 1 \in DOMAIN Tail(s) /\ Tail(s)[j - 1] = s[j]
          BY <1>3, <3>1, <4>1
        <4>3. j - 1 > i
          BY <3>1, <4>1
        <4> QED BY <1>4, <4>2, <4>3
      <3> QED BY <3>1
    <2>2. s[i + 1] \in about /\ i + 1 \in DOMAIN s /\ s[i + 1] = Tail(s)[i]
      BY <1>1, <1>2, <1>4
    <2> QED BY <2>1, <2>2 DEF Settles
  <1>5. ASSUME \A i \in DOMAIN Tail(s) : Tail(s)[i] \notin about
        PROVE  then
    <2>1. \A j \in DOMAIN s : j # 1 => s[j] \notin about
      BY Zenon, <1>3, <1>5
    <2>2. 1 \in DOMAIN s
      BY <1>1
    <2>3. CASE Head(s) \in about
      <3>1. s[1] \in right
        BY <1>1, <2>1, <2>2, <2>3 DEF Settles
      <3> QED BY <1>1, <3>1
    <2>4. CASE Head(s) \notin about
      <3>1. now
        BY <1>1, <2>1, <2>4 DEF Settles
      <3> QED BY <3>1, <2>4
    <2> QED BY <2>3, <2>4
  <1> QED BY <1>4, <1>5 DEF Settles

(* A dump that tells it, and nothing else about it, settles it. *)
LEMMA SettlesDump ==
    ASSUME NEW S, NEW s \in Seq(S), NEW d \in Seq(S), NEW about, NEW right, NEW now,
           \A i \in DOMAIN d : d[i] \in about => d[i] \in right,
           (\E i \in DOMAIN d : d[i] \in about) \/ Settles(s, about, right, now)
    PROVE  Settles(s \o d, about, right, now)
  <1> DEFINE t == s \o d  n == Len(s)
  <1>1. /\ n \in Nat /\ Len(d) \in Nat /\ DOMAIN s = 1 .. n /\ DOMAIN d = 1 .. Len(d)
        /\ DOMAIN t = 1 .. n + Len(d)
    BY ConcatProperties, LenProperties
  <1>2. /\ \A i \in DOMAIN s : i \in DOMAIN t /\ t[i] = s[i]
        /\ \A i \in DOMAIN d : n + i \in DOMAIN t /\ t[n + i] = d[i]
        /\ \A i \in DOMAIN t : i \in DOMAIN s \/ (i - n \in DOMAIN d /\ t[i] = d[i - n])
    BY <1>1, ConcatProperties
  <1> HIDE DEF t
  <1>3. ASSUME NEW i \in DOMAIN t, t[i] \in about, \A j \in DOMAIN t : j > i => t[j] \notin about
        PROVE  t[i] \in right
    <2>1. CASE i \in DOMAIN s
      <3>1. \A j \in DOMAIN d : n + j > i
        BY <1>1, <2>1
      <3>2. \A j \in DOMAIN d : d[j] \notin about
        BY <1>2, <1>3, <3>1
      <3>3. Settles(s, about, right, now)
        BY <3>2
      <3>4. \A j \in DOMAIN s : j > i => s[j] \notin about
        BY <1>2, <1>3
      <3> QED BY <1>2, <1>3, <2>1, <3>3, <3>4 DEF Settles
    <2>2. CASE i \notin DOMAIN s
      BY <1>2, <1>3, <2>2
    <2> QED BY <2>1, <2>2
  <1>4. ASSUME \A i \in DOMAIN t : t[i] \notin about
        PROVE  now
    <2>1. \A i \in DOMAIN d : d[i] \notin about
      BY <1>2, <1>4
    <2>2. \A i \in DOMAIN s : s[i] \notin about
      BY <1>2, <1>4
    <2> QED BY <2>1, <2>2 DEF Settles
  <1>5. Settles(t, about, right, now)
    BY <1>3, <1>4 DEF Settles
  <1> QED BY <1>5 DEF t

LEMMA HeadAndTail ==
    ASSUME NEW S, NEW s \in Seq(S), s # <<>>
    PROVE  s = <<Head(s)>> \o Tail(s)
  <1>1. Head(s) \in S /\ Tail(s) \in Seq(S) /\ <<Head(s)>> \in Seq(S)
    BY HeadTailProperties
  <1> QED BY <1>1, HeadTailProperties, ConcatProperties, LenProperties, SeqEqual

(* The lines of a stream *)
Has(s, x) == \E i \in DOMAIN s : s[i] = x

LEMMA HasOne ==
    ASSUME NEW S, NEW y \in S
    PROVE  <<y>> \in Seq(S) /\ \A x : Has(<<y>>, x) <=> x = y
  BY DEF Has

LEMMA HasConcat ==
    ASSUME NEW S, NEW s \in Seq(S), NEW t \in Seq(S), NEW x
    PROVE  Has(s \o t, x) <=> Has(s, x) \/ Has(t, x)
  <1> DEFINE u == s \o t  n == Len(s)
  <1>1. /\ n \in Nat /\ Len(t) \in Nat /\ DOMAIN s = 1 .. n /\ DOMAIN t = 1 .. Len(t)
        /\ DOMAIN u = 1 .. n + Len(t)
    BY ConcatProperties, LenProperties
  <1>2. /\ \A i \in DOMAIN s : i \in DOMAIN u /\ u[i] = s[i]
        /\ \A i \in DOMAIN t : n + i \in DOMAIN u /\ u[n + i] = t[i]
        /\ \A i \in DOMAIN u : (i \in DOMAIN s /\ u[i] = s[i]) \/ (i - n \in DOMAIN t /\ u[i] = t[i - n])
    BY <1>1, ConcatProperties
  <1> HIDE DEF u
  <1>3. Has(u, x) <=> Has(s, x) \/ Has(t, x)
    BY <1>2 DEF Has
  <1> QED BY <1>3 DEF u

LEMMA HasAppend ==
    ASSUME NEW S, NEW s \in Seq(S), NEW y \in S, NEW x
    PROVE  Has(Append(s, y), x) <=> Has(s, x) \/ x = y
  <1>1. Append(s, y) = s \o <<y>> /\ <<y>> \in Seq(S)
    BY AppendIsConcat, HasOne
  <1>2. Has(s \o <<y>>, x) <=> Has(s, x) \/ Has(<<y>>, x)
    BY Zenon, <1>1, HasConcat
  <1>3. Has(<<y>>, x) <=> x = y
    BY HasOne
  <1> QED BY <1>1, <1>2, <1>3

LEMMA HasTail ==
    ASSUME NEW S, NEW s \in Seq(S), s # <<>>, NEW x
    PROVE  Has(s, x) <=> x = Head(s) \/ Has(Tail(s), x)
  <1>1. Head(s) \in S /\ Tail(s) \in Seq(S) /\ s = <<Head(s)>> \o Tail(s)
    BY HeadTailProperties, HeadAndTail
  <1>2. Has(<<Head(s)>>, x) <=> x = Head(s)
    BY <1>1, HasOne
  <1>3. Has(<<Head(s)>> \o Tail(s), x) <=> Has(<<Head(s)>>, x) \/ Has(Tail(s), x)
    <2>1. <<Head(s)>> \in Seq(S)
      BY <1>1, HasOne
    <2> QED BY Zenon, <1>1, <2>1, HasConcat
  <1> QED BY Zenon, <1>1, <1>2, <1>3

(* Moving the first line of out to the end of s changes no stream. *)
LEMMA StreamMoves ==
    ASSUME NEW S, NEW s \in Seq(S), NEW out \in Seq(S), out # <<>>
    PROVE  Append(s, Head(out)) \o Tail(out) = s \o out
  <1>1. /\ Head(out) \in S /\ Tail(out) \in Seq(S) /\ Append(s, Head(out)) \in Seq(S)
        /\ <<Head(out)>> \in Seq(S)
    BY HeadTailProperties, AppendProperties
  <1>2. Append(s, Head(out)) = s \o <<Head(out)>>
    BY <1>1, AppendIsConcat
  <1>3. (s \o <<Head(out)>>) \o Tail(out) = s \o (<<Head(out)>> \o Tail(out))
    BY <1>1, ConcatAssociative
  <1>4. <<Head(out)>> \o Tail(out) = out
    BY HeadAndTail
  <1> QED BY <1>2, <1>3, <1>4

-----------------------------------------------------------------------------
(* The lines *)

About(v) == {SetInfo(v, x) : x \in Values} \cup {DelInfo(v)}
Telling(v, x) == IF x = Absent THEN {DelInfo(v)} ELSE {SetInfo(v, x)}
FlagLines == {<<"DATAOK">>, <<"DATASTALE">>}
Flag(stale) == IF stale THEN <<"DATASTALE">> ELSE <<"DATAOK">>
Marks == {<<"DUMPDONE">>, <<"PONG">>}

(* No two kinds of lines are confused. *)
LEMMA LineKinds ==
    /\ \A v, x : SetInfo(v, x)[1] = "SETINFO" /\ SetInfo(v, x)[2] = v /\ SetInfo(v, x)[3] = x
    /\ \A v : DelInfo(v)[1] = "DELINFO" /\ DelInfo(v)[2] = v
    /\ <<"DATAOK">>[1] = "DATAOK" /\ <<"DATASTALE">>[1] = "DATASTALE"
    /\ <<"DUMPDONE">>[1] = "DUMPDONE" /\ <<"PONG">>[1] = "PONG"
  BY DEF SetInfo, DelInfo

LEMMA LineMembers ==
    /\ \A v \in Vars : \A x \in Values : SetInfo(v, x) \in Lines
    /\ \A v \in Vars : DelInfo(v) \in Lines
    /\ FlagLines \subseteq Lines /\ Marks \subseteq Lines
    /\ \A line \in Lines :
          \/ \E v \in Vars : line \in About(v)
          \/ line \in FlagLines \cup Marks
  BY DEF Lines, FlagLines, Marks, About

LEMMA AboutOne ==
    ASSUME NEW v, NEW w, NEW line \in About(v)
    PROVE  /\ line \in About(w) => v = w
           /\ line \notin FlagLines \cup Marks
           /\ line[1] \in {"SETINFO", "DELINFO"} /\ line[2] = v
  BY LineKinds DEF About, FlagLines, Marks

-----------------------------------------------------------------------------
(* The dump *)

LEMMA ListingLists ==
    ASSUME NEW S, IsFiniteSet(S)
    PROVE  /\ Listing(S) \in Seq(S)
           /\ \A x \in S : \E i \in DOMAIN Listing(S) : Listing(S)[i] = x
  <1> DEFINE n == Cardinality(S)
  <1>1. n \in Nat /\ ExistsBijection(1..n, S)
    BY FS_CardinalityType
  <1>2. \E f \in [1..n -> S] : \A x \in S : \E i \in 1..n : f[i] = x
    BY <1>1 DEF ExistsBijection, Bijection, Surjection
  <1>3. /\ Listing(S) \in [1..n -> S]
        /\ \A x \in S : \E i \in 1..n : Listing(S)[i] = x
    BY Zenon, <1>2 DEF Listing
  <1>4. DOMAIN Listing(S) = 1..n
    BY <1>3
  <1>5. Listing(S) \in Seq(S)
    BY <1>1, <1>3, SeqDef
  <1> QED BY <1>3, <1>4, <1>5

Held == {w \in Vars : drv.info[w] # Absent}
TreeLines == {SetInfo(v, drv.info[v]) : v \in Held}

LEMMA TreeLinesFinite == IsFiniteSet(TreeLines)
  <1> DEFINE f == [v \in Held |-> SetInfo(v, drv.info[v])]
  <1>1. IsFiniteSet(Held)
    BY LinkAssumption, FS_Subset DEF Held
  <1>2. f \in Surjection(Held, TreeLines)
    BY DEF Surjection, TreeLines
  <1> QED BY <1>1, <1>2, FS_Surjection

(* The lines of a dump: each variable of the tree once told as it is, the   *)
(* staleness, and DUMPDONE (dstate.c, dump_tree and sock_arg).              *)
LEMMA DumpLines ==
    ASSUME drv \in DriverStates
    PROVE  /\ Dump \in Seq(Lines)
           /\ \A x : Has(Dump, x) <=> x \in TreeLines \cup {Flag(drv.stale), <<"DUMPDONE">>}
  <1> DEFINE first == IF drv.stale THEN << <<"DATASTALE">> >> ELSE <<>>
             tree == Listing(TreeLines)
             last == IF drv.stale THEN <<>> ELSE << <<"DATAOK">> >>
             done == << <<"DUMPDONE">> >>
             ends == {Flag(drv.stale), <<"DUMPDONE">>}
  <1>1. Dump = ((first \o tree) \o last) \o done
    BY DEF Dump, TreeLines, Held
  <1>2. TreeLines \subseteq Lines /\ ends \subseteq Lines
    BY LineMembers DEF TreeLines, Held, Flag, FlagLines, Marks, DriverStates
  <1>3. /\ tree \in Seq(TreeLines)
        /\ \A x \in TreeLines : Has(tree, x)
    BY TreeLinesFinite, ListingLists DEF Has
  <1>4. tree \in Seq(Lines)
    BY <1>2, <1>3, SeqMonotonic
  <1>5. \A x : Has(tree, x) => x \in TreeLines
    BY <1>3, LenProperties, ElementOfSeq DEF Has
  <1>6. /\ first \in Seq(Lines)
        /\ \A x : Has(first, x) <=> drv.stale /\ x = <<"DATASTALE">>
    <2>1. CASE drv.stale
      BY <1>2, <2>1, HasOne DEF Flag
    <2>2. CASE ~drv.stale
      BY <2>2 DEF Has
    <2> QED BY <2>1, <2>2
  <1>7. /\ last \in Seq(Lines)
        /\ \A x : Has(last, x) <=> ~drv.stale /\ x = <<"DATAOK">>
    <2>1. CASE drv.stale
      BY <2>1 DEF Has
    <2>2. CASE ~drv.stale
      BY <1>2, <2>2, HasOne DEF Flag
    <2> QED BY <2>1, <2>2
  <1>8. done \in Seq(Lines) /\ \A x : Has(done, x) <=> x = <<"DUMPDONE">>
    BY <1>2, HasOne
  <1> HIDE DEF first, tree, last, done
  <1>9. first \o tree \in Seq(Lines) /\ (first \o tree) \o last \in Seq(Lines)
    BY <1>4, <1>6, <1>7, ConcatProperties
  <1>10. Dump \in Seq(Lines)
    BY <1>1, <1>8, <1>9, ConcatProperties
  <1>11. \A x : Has(Dump, x) <=> Has(first, x) \/ Has(tree, x) \/ Has(last, x) \/ Has(done, x)
    <2> TAKE x
    <2>1. Has(Dump, x) <=> Has((first \o tree) \o last, x) \/ Has(done, x)
      BY Zenon, <1>1, <1>8, <1>9, HasConcat
    <2>2. Has((first \o tree) \o last, x) <=> Has(first \o tree, x) \/ Has(last, x)
      BY Zenon, <1>7, <1>9, HasConcat
    <2>3. Has(first \o tree, x) <=> Has(first, x) \/ Has(tree, x)
      BY <1>4, <1>6, HasConcat
    <2> QED BY <2>1, <2>2, <2>3
  <1>12. \A x : Has(Dump, x) <=> x \in TreeLines \cup ends
    BY <1>3, <1>5, <1>6, <1>7, <1>8, <1>11 DEF Flag
  <1> QED BY <1>10, <1>12

-----------------------------------------------------------------------------
(* Types *)

LEMMA ClosedType ==
    /\ Closed \in Connections /\ Len(Closed.toUps) <= BufCap
    /\ Dialed \in Connections /\ Len(Dialed.toUps) <= BufCap
  BY LinkAssumption DEF Closed, Dialed, Connections, Requests

LEMMA DriverClosedType ==
    ASSUME NEW k \in Connections
    PROVE  /\ DriverClosed(k) \in Connections /\ DriverClosed(k).toUps = k.toUps
           /\ DriverClosed(k).drv = "none" /\ DriverClosed(k).srv = k.srv
  <1>1. <<>> \in Seq(Requests)
    OBVIOUS
  <1> DEFINE r == k.reset \/ (k.srv /\ k.toDrv # <<>>)
  <1>2. r \in BOOLEAN
    OBVIOUS
  <1>3. DriverClosed(k) = [k EXCEPT !.drv = "none", !.toDrv = <<>>, !.sync = FALSE, !.reset = r]
    BY DEF DriverClosed, Connections
  <1> HIDE DEF r
  <1> QED BY Zenon, <1>1, <1>2, <1>3 DEF Connections

LEMMA ServerClosedType ==
    ASSUME NEW k \in Connections
    PROVE  /\ ServerClosed(k) \in Connections /\ ServerClosed(k).toUps = <<>>
           /\ ServerClosed(k).drv = k.drv /\ ~ServerClosed(k).srv
  <1>1. <<>> \in Seq(Lines)
    OBVIOUS
  <1> QED BY Zenon, <1>1 DEF ServerClosed, Connections

LEMMA PingAgeType == PingAge \in Nat
  BY LinkAssumption DEF PingAge

LEMMA StartType == DrvStart \in DriverStates /\ UpsStart \in Copies
  BY LinkAssumption DEF DrvStart, UpsStart, DriverStates, Copies, NoTree, PingAge

Taken(u, line) == [Parsed(u, line) EXCEPT !.heard = 0]

(* What one line does to upsd's copy: only what the line is about changes   *)
(* (sstate.c, parse_args).                                                  *)
LineEffect(u, line, w) ==
    /\ w \in Copies /\ w.fd = u.fd /\ w.heard = 0 /\ w.stale = u.stale
    /\ w.dumpdone <=> u.dumpdone \/ line = <<"DUMPDONE">>
    /\ \A v \in Vars : line \notin About(v) => w.info[v] = u.info[v]
    /\ \A v \in Vars : \A x \in Values : line = SetInfo(v, x) => w.info[v] = x
    /\ \A v \in Vars : line = DelInfo(v) => w.info[v] = Absent
    /\ line \notin FlagLines => w.dataOk = u.dataOk
    /\ line = <<"DATAOK">> => w.dataOk
    /\ line = <<"DATASTALE">> => ~w.dataOk

LEMMA ReadLine ==
    ASSUME NEW u \in Copies, NEW line \in Lines
    PROVE  LineEffect(u, line, Taken(u, line))
  <1> DEFINE i == CASE line[1] = "SETINFO" -> [u.info EXCEPT ![line[2]] = line[3]]
                    [] line[1] = "DELINFO" -> [u.info EXCEPT ![line[2]] = Absent]
                    [] OTHER -> u.info
             d == u.dumpdone \/ line[1] = "DUMPDONE"
             o == IF line[1] = "DATAOK" THEN TRUE
                  ELSE IF line[1] = "DATASTALE" THEN FALSE ELSE u.dataOk
             w == Taken(u, line)
  <1>0. /\ u.info \in [Vars -> Values \cup {Absent, Wait}] /\ u.dumpdone \in BOOLEAN
        /\ u.dataOk \in BOOLEAN
    BY DEF Copies
  <1>1. w = [u EXCEPT !.info = i, !.dumpdone = d, !.dataOk = o, !.heard = 0]
    BY DEF Taken, Parsed, Copies
  <1>2. /\ d \in BOOLEAN /\ o \in BOOLEAN
        /\ d <=> u.dumpdone \/ line = <<"DUMPDONE">>
        /\ line \notin FlagLines => o = u.dataOk
        /\ line = <<"DATAOK">> => o
        /\ line = <<"DATASTALE">> => ~o
    <2>1. \/ \E v \in Vars : line \in About(v)
          \/ line \in {<<"DATAOK">>, <<"DATASTALE">>, <<"DUMPDONE">>, <<"PONG">>}
      BY LineMembers DEF FlagLines, Marks
    <2>2. CASE \E v \in Vars : line \in About(v)
      BY Zenon, <1>0, <2>2, AboutOne DEF FlagLines, Marks
    <2>3. CASE line \in {<<"DATAOK">>, <<"DATASTALE">>, <<"DUMPDONE">>, <<"PONG">>}
      BY Zenon, <1>0, <2>3, LineKinds DEF FlagLines
    <2> QED BY Zenon, <2>1, <2>2, <2>3
  <1>3. /\ i \in [Vars -> Values \cup {Absent, Wait}]
        /\ \A v \in Vars : line \notin About(v) => i[v] = u.info[v]
        /\ \A v \in Vars : \A x \in Values : line = SetInfo(v, x) => i[v] = x
        /\ \A v \in Vars : line = DelInfo(v) => i[v] = Absent
    <2>1. ASSUME NEW v \in Vars, NEW x \in Values, line = SetInfo(v, x)
          PROVE  i = [u.info EXCEPT ![v] = x] /\ line \in About(v)
      BY <2>1, LineKinds DEF About
    <2>2. ASSUME NEW v \in Vars, line = DelInfo(v)
          PROVE  i = [u.info EXCEPT ![v] = Absent] /\ line \in About(v)
      BY <2>2, LineKinds DEF About
    <2>3. ASSUME line \in FlagLines \cup Marks
          PROVE  i = u.info
      BY <2>3, LineKinds DEF FlagLines, Marks
    <2> HIDE DEF i
    <2>4. ASSUME NEW v \in Vars, NEW x \in Values, line = SetInfo(v, x)
          PROVE  <1>3!:
      BY <1>0, <2>1, <2>4, LineKinds DEF About
    <2>5. ASSUME NEW v \in Vars, line = DelInfo(v)
          PROVE  <1>3!:
      BY <1>0, <2>2, <2>5, LineKinds DEF About
    <2>6. ASSUME line \in FlagLines \cup Marks
          PROVE  <1>3!:
      <3>1. \A v \in Vars : line \notin About(v)
        BY <2>6, AboutOne
      <3>2. \A v \in Vars : line # DelInfo(v) /\ \A x \in Values : line # SetInfo(v, x)
        BY <3>1 DEF About
      <3> QED BY <1>0, <2>3, <2>6, <3>2
    <2>7. \/ line \in FlagLines \cup Marks
          \/ \E v \in Vars : line = DelInfo(v)
          \/ \E v \in Vars : \E x \in Values : line = SetInfo(v, x)
      BY LineMembers DEF About
    <2> QED BY <2>4, <2>5, <2>6, <2>7
  <1> HIDE DEF i, d, o
  <1>4. /\ w \in Copies /\ w.fd = u.fd /\ w.heard = 0 /\ w.stale = u.stale
        /\ w.info = i /\ w.dumpdone = d /\ w.dataOk = o
    <2>1. 0 \in 0..MaxAge + 1
      BY LinkAssumption
    <2>2. /\ i \in [Vars -> Values \cup {Absent, Wait}]
          /\ d \in BOOLEAN /\ o \in BOOLEAN
      BY <1>2, <1>3
    <2> HIDE DEF w
    <2> QED BY Zenon, <1>1, <2>1, <2>2 DEF Copies
  <1>5. w.dumpdone <=> u.dumpdone \/ line = <<"DUMPDONE">>
    BY <1>2, <1>4
  <1> HIDE DEF w
  <1>6. LineEffect(u, line, w)
    BY <1>2, <1>3, <1>4, <1>5 DEF LineEffect
  <1> QED BY <1>6 DEF w

LEMMA LinkInitType == LinkInit => LinkTypeOK
  BY StartType, ClosedType DEF LinkInit, LinkTypeOK

-----------------------------------------------------------------------------
(* The inductive invariant *)

(* What the driver has written to upsd, or is about to, and upsd has not    *)
(* read.                                                                    *)
Stream == IF drv.at = ups.fd THEN net[ups.fd].toUps \o drv.out ELSE net[ups.fd].toUps

(* upsd has nothing of v but its own WAIT; it has of v what the driver has. *)
Unset(v) == ups.info[v] = Absent \/ (v = Status /\ ups.info[v] = Wait)
Known(v) == ups.info[v] = drv.info[v] \/ (drv.info[v] = Absent /\ Unset(v))

(* Mirror speaks of a quiet link only, and is not inductive.  Before the    *)
(* dump a variable the driver has may never have been told: upsd will then  *)
(* have nothing of it, but never an old value (TreeMayLack).  From the      *)
(* moment DUMPDONE is under way the stream settles every variable           *)
(* (TreeFollows) and the staleness (FlagFollows).                           *)
TreeFollows(v) == Settles(Stream, About(v), Telling(v, drv.info[v]), Known(v))
TreeMayLack(v) ==
    Settles(Stream, About(v), Telling(v, drv.info[v]) \cup {DelInfo(v)}, Known(v) \/ Unset(v))
FlagFollows == Settles(Stream, FlagLines, {Flag(drv.stale)}, ups.dataOk = ~drv.stale)

Dumped == ups.dumpdone \/ Has(Stream, <<"DUMPDONE">>)

(* upsd's connection: it is open on upsd's side, the driver writes only to  *)
(* an open one, and nothing is on one that it has not accepted yet.         *)
ConnInv ==
    /\ ups.fd # NoConn => net[ups.fd].srv
    /\ ups.fd = NoConn => ups.info = NoTree
    /\ drv.out # <<>> => drv.at # NoConn /\ net[drv.at].drv = "open"
    /\ ups.fd # NoConn /\ net[ups.fd].drv = "pending" =>
          net[ups.fd].toUps = <<>> /\ ~ups.dumpdone /\ \A v \in Vars : Unset(v)

MirrorInv ==
    Linked => /\ \A v \in Vars : TreeMayLack(v)
              /\ Dumped => FlagFollows /\ \A v \in Vars : TreeFollows(v)

LinkInv == LinkTypeOK /\ ConnInv /\ MirrorInv /\ HeardWithinMaxAge

LEMMA LinkInitially == LinkInit => LinkInv
  <1> SUFFICES ASSUME LinkInit PROVE LinkInv
    OBVIOUS
  <1>1. LinkTypeOK
    BY LinkInitType
  <1>2. ConnInv /\ MirrorInv /\ HeardWithinMaxAge
    BY LinkAssumption
       DEF LinkInit, DrvStart, UpsStart, ConnInv, MirrorInv, Linked, HeardWithinMaxAge
  <1> QED BY <1>1, <1>2 DEF LinkInv

-----------------------------------------------------------------------------
(* send_to_all *)

LEMMA BroadcastType ==
    ASSUME LinkTypeOK, NEW line \in Lines, NEW d \in DriverStates, Broadcast(line, d)
    PROVE  LinkTypeOK'
  <1>1. net' \in [Conns -> Connections] /\ \A c \in Conns : Len(net'[c].toUps) <= BufCap
    <2>1. \A c \in Conns : net[c] \in Connections /\ Len(net[c].toUps) <= BufCap
      BY DEF LinkTypeOK
    <2>2. ASSUME NEW c \in Conns, Listening(c), ~Full(c)
          PROVE  net'[c] \in Connections /\ Len(net'[c].toUps) <= BufCap
      <3>1. /\ Append(net[c].toUps, line) \in Seq(Lines)
            /\ Len(Append(net[c].toUps, line)) = Len(net[c].toUps) + 1
            /\ Len(net[c].toUps) \in Nat /\ Len(net[c].toUps) < BufCap
        BY <2>1, <2>2, LinkAssumption, AppendProperties, LenProperties
           DEF LinkAssumption, Full, Connections
      <3>2. net'[c] = [net[c] EXCEPT !.toUps = Append(net[c].toUps, line)]
        BY <2>2 DEF Broadcast
      <3> DEFINE q == Append(net[c].toUps, line)
      <3>3. q \in Seq(Lines) /\ Len(q) <= BufCap
        BY <3>1, LinkAssumption
      <3> HIDE DEF q
      <3>4. net'[c] \in Connections /\ net'[c].toUps = q
        BY Zenon, <2>1, <3>2, <3>3 DEF Connections, q
      <3> QED BY <3>3, <3>4
    <2>3. ASSUME NEW c \in Conns
          PROVE  net'[c] \in Connections /\ Len(net'[c].toUps) <= BufCap
      BY Zenon, <2>1, <2>2, DriverClosedType DEF Broadcast
    <2> QED BY Zenon, <2>3 DEF Broadcast
  <1>2. drv' \in DriverStates
    BY Zenon DEF Broadcast, DriverStates
  <1> QED BY <1>1, <1>2 DEF LinkTypeOK, Broadcast

LEMMA LinkTypeStep == LinkInv /\ LinkNext => LinkTypeOK'
  <1> SUFFICES ASSUME LinkInv, LinkNext PROVE LinkTypeOK'
    OBVIOUS
  <1> USE LinkAssumption
  <1>0. /\ LinkTypeOK /\ ConnInv /\ drv \in DriverStates /\ net \in [Conns -> Connections]
        /\ ups \in Copies /\ \A c \in Conns : Len(net[c].toUps) <= BufCap
    BY DEF LinkInv, LinkTypeOK
  <1>1. ASSUME NEW v \in Vars, NEW x \in Values, DriverSets(v, x) PROVE LinkTypeOK'
    <2>1. SetInfo(v, x) \in Lines
      BY LineMembers
    <2>2. [drv EXCEPT !.info[v] = x] \in DriverStates
      BY <1>0 DEF DriverStates
    <2> QED BY <1>0, <1>1, <2>1, <2>2, BroadcastType DEF DriverSets
  <1>2. ASSUME NEW v \in Vars, DriverDeletes(v) PROVE LinkTypeOK'
    <2>1. DelInfo(v) \in Lines
      BY LineMembers
    <2>2. [drv EXCEPT !.info[v] = Absent] \in DriverStates
      BY <1>0 DEF DriverStates
    <2> QED BY <1>0, <1>2, <2>1, <2>2, BroadcastType DEF DriverDeletes
  <1>3. CASE DriverDataOk
    <2>1. <<"DATAOK">> \in Lines
      BY LineMembers DEF FlagLines
    <2>2. [drv EXCEPT !.stale = FALSE] \in DriverStates
      BY Zenon, <1>0 DEF DriverStates
    <2> QED BY <1>0, <1>3, <2>1, <2>2, BroadcastType DEF DriverDataOk
  <1>4. CASE DriverDataStale
    <2>1. <<"DATASTALE">> \in Lines
      BY LineMembers DEF FlagLines
    <2>2. [drv EXCEPT !.stale = TRUE] \in DriverStates
      BY Zenon, <1>0 DEF DriverStates
    <2> QED BY <1>0, <1>4, <2>1, <2>2, BroadcastType DEF DriverDataStale
  <1>5. ASSUME NEW c \in Conns, DriverAccepts(c) PROVE LinkTypeOK'
    <2>1. net[c] \in Connections
      BY <1>0
    <2>2. (~drv.auto) \in BOOLEAN
      OBVIOUS
    <2>3. /\ [net[c] EXCEPT !.drv = "open", !.sync = ~drv.auto] \in Connections
          /\ [net[c] EXCEPT !.drv = "open", !.sync = ~drv.auto].toUps = net[c].toUps
      BY Zenon, <2>1 DEF Connections
    <2>4. net' = [net EXCEPT ![c] = [net[c] EXCEPT !.drv = "open", !.sync = ~drv.auto]]
      BY Zenon, <1>0, <1>5 DEF DriverAccepts
    <2> QED BY <1>0, <1>5, <2>3, <2>4 DEF LinkTypeOK, DriverAccepts
  <1>6. ASSUME NEW c \in Conns, DriverReads(c) PROVE LinkTypeOK'
    <2>1. PICK n \in 1..Len(net[c].toDrv) :
            /\ drv' = [drv EXCEPT !.at = c, !.batch = SubSeq(net[c].toDrv, 1, n)]
            /\ net' = [net EXCEPT ![c].toDrv = SubSeq(@, n + 1, Len(@))]
      BY Zenon, <1>6 DEF DriverReads
    <2>2. net[c] \in Connections /\ net[c].toDrv \in Seq(Requests)
      BY <1>0 DEF Connections
    <2>3. /\ SubSeq(net[c].toDrv, 1, n) \in Seq(Requests)
          /\ SubSeq(net[c].toDrv, n + 1, Len(net[c].toDrv)) \in Seq(Requests)
      BY <2>2
    <2>4. drv' \in DriverStates
      BY Zenon, <1>0, <2>1, <2>3 DEF DriverStates
    <2> DEFINE k == [net[c] EXCEPT !.toDrv = SubSeq(net[c].toDrv, n + 1, Len(net[c].toDrv))]
    <2>5. k \in Connections /\ k.toUps = net[c].toUps
      BY Zenon, <2>2, <2>3 DEF Connections
    <2>6. net' = [net EXCEPT ![c] = k]
      BY <1>0, <2>1
    <2> HIDE DEF k
    <2> QED BY Zenon, <1>0, <1>6, <2>4, <2>5, <2>6 DEF LinkTypeOK, DriverReads
  <1>7. ASSUME NEW c \in Conns, DriverReadsEnd(c) PROVE LinkTypeOK'
    <2>1. net' = [net EXCEPT ![c] = DriverClosed(net[c])]
      BY <1>0, <1>7 DEF DriverReadsEnd
    <2>2. DriverClosed(net[c]) \in Connections /\ DriverClosed(net[c]).toUps = net[c].toUps
      BY <1>0, DriverClosedType
    <2> QED BY <1>0, <1>7, <2>1, <2>2 DEF LinkTypeOK, DriverReadsEnd
  <1>8. CASE DriverServes
    <2>1. Dump \in Seq(Lines) /\ << <<"PONG">> >> \in Seq(Lines)
      BY <1>0, DumpLines, LineMembers, HasOne DEF Marks
    <2>2. Tail(drv.batch) \in Seq(Requests)
      BY <1>0, <1>8, HeadTailProperties DEF DriverServes, DriverStates
    <2>3. drv' \in DriverStates
      <3> DEFINE o == IF Head(drv.batch) = "PING" THEN << <<"PONG">> >> ELSE Dump
      <3>1. o \in Seq(Lines)
        BY <2>1
      <3>2. drv' = [drv EXCEPT !.batch = Tail(drv.batch), !.out = o]
        BY <1>8 DEF DriverServes
      <3> HIDE DEF o
      <3> QED BY Zenon, <1>0, <2>2, <3>1, <3>2 DEF DriverStates
    <2> QED BY <1>0, <1>8, <2>3 DEF LinkTypeOK, DriverServes
  <1>9. CASE DriverSends
    <2>1. drv.out \in Seq(Lines) /\ drv.out # <<>> /\ drv.at \in Conns
      BY <1>0, <1>9 DEF DriverSends, Alive, Idle, DriverStates
    <2>2. Tail(drv.out) \in Seq(Lines) /\ Head(drv.out) \in Lines
      BY <2>1, HeadTailProperties
    <2>3. drv' \in DriverStates
      BY Zenon, <1>0, <1>9, <2>2 DEF DriverSends, DriverStates
    <2>4. CASE net[drv.at].srv
      <3> DEFINE k == [net[drv.at] EXCEPT !.toUps = Append(net[drv.at].toUps, Head(drv.out))]
      <3>1. net[drv.at] \in Connections /\ net[drv.at].toUps \in Seq(Lines)
        BY <1>0, <2>1 DEF Connections
      <3>2. /\ Append(net[drv.at].toUps, Head(drv.out)) \in Seq(Lines)
            /\ Len(Append(net[drv.at].toUps, Head(drv.out))) <= BufCap
        BY <1>9, <2>2, <2>4, <3>1, AppendProperties, LenProperties DEF DriverSends, Full
      <3>3. k \in Connections /\ Len(k.toUps) <= BufCap
        BY Zenon, <3>1, <3>2 DEF Connections
      <3>4. net' = [net EXCEPT ![drv.at] = k]
        BY <1>0, <1>9, <2>4 DEF DriverSends
      <3> HIDE DEF k
      <3> QED BY Zenon, <1>0, <1>9, <2>1, <2>3, <3>3, <3>4 DEF LinkTypeOK, DriverSends
    <2>5. CASE ~net[drv.at].srv
      BY <1>0, <1>9, <2>3, <2>5 DEF LinkTypeOK, DriverSends
    <2> QED BY <2>4, <2>5
  <1>10. CASE DriverSendFails
    <2>1. drv.at \in Conns
      BY <1>0, <1>10 DEF DriverSendFails, Alive, Idle, DriverStates
    <2>2. net' = [net EXCEPT ![drv.at] = DriverClosed(net[drv.at])]
      BY <1>0, <1>10 DEF DriverSendFails
    <2>3. /\ DriverClosed(net[drv.at]) \in Connections
          /\ DriverClosed(net[drv.at]).toUps = net[drv.at].toUps
      BY <1>0, <2>1, DriverClosedType
    <2>4. drv' \in DriverStates
      <3>1. <<>> \in Seq(Lines) /\ (drv.auto /\ ~net[drv.at].srv) \in BOOLEAN
        OBVIOUS
      <3>2. drv' = [drv EXCEPT !.out = <<>>, !.auto = drv.auto /\ ~net[drv.at].srv]
        BY <1>10 DEF DriverSendFails
      <3> QED BY Zenon, <1>0, <3>1, <3>2 DEF DriverStates
    <2> QED BY <1>0, <1>10, <2>1, <2>2, <2>3, <2>4 DEF LinkTypeOK, DriverSendFails
  <1>11. CASE DriverServed
    BY <1>0, <1>11 DEF LinkTypeOK, DriverServed, DriverStates
  <1>12. CASE DriverParsesFreed
    <2>1. <<>> \in Seq(Requests)
      OBVIOUS
    <2> QED BY Zenon, <1>0, <1>12, <2>1 DEF LinkTypeOK, DriverParsesFreed, DriverStates
  <1>13. CASE FreedAborts
    BY <1>13, StartType, ClosedType DEF LinkTypeOK, FreedAborts
  <1>14. CASE UpsdConnects
    <2>1. PICK c \in Conns :
            /\ net' = [net EXCEPT ![c] = Dialed]
            /\ ups' = [ups EXCEPT !.fd = c, !.dumpdone = FALSE, !.stale = FALSE,
                                  !.heard = 0, !.info[Status] = Wait]
      BY Zenon, <1>14 DEF UpsdConnects
    <2>2. ups' \in Copies
      <3> DEFINE i == [ups.info EXCEPT ![Status] = Wait]
      <3>1. i \in [Vars -> Values \cup {Absent, Wait}]
        BY <1>0 DEF Copies
      <3>2. ups' = [ups EXCEPT !.fd = c, !.dumpdone = FALSE, !.stale = FALSE, !.heard = 0, !.info = i]
        BY <1>0, <2>1 DEF Copies
      <3> HIDE DEF i
      <3>3. 0 \in 0..MaxAge + 1
        OBVIOUS
      <3> QED BY Zenon, <1>0, <3>1, <3>2, <3>3 DEF Copies
    <2> QED BY <1>0, <1>14, <2>1, <2>2, ClosedType DEF LinkTypeOK, UpsdConnects
  <1>15. CASE UpsdConnectFails
    BY <1>0, <1>15 DEF LinkTypeOK, UpsdConnectFails
  <1>16. CASE UpsdScans
    <2>1. Dead(ups) \in BOOLEAN
      BY DEF Dead
    <2> QED BY <1>0, <1>16, <2>1 DEF LinkTypeOK, UpsdScans, Copies
  <1>17. CASE UpsdPings
    <2>1. Dead(ups) \in BOOLEAN
      BY DEF Dead
    <2>2. ups' \in Copies
      <3>1. 0 \in 0..PingAge + 1
        BY PingAgeType
      <3> QED BY Zenon, <1>0, <1>17, <2>1, <3>1 DEF UpsdPings, Copies
    <2>3. ups.fd \in Conns
      BY <1>0, <1>17 DEF UpsdPings, Copies
    <2>4. net[ups.fd] \in Connections /\ "PING" \in Requests
      BY <1>0, <2>3 DEF Requests
    <2>5. Append(net[ups.fd].toDrv, "PING") \in Seq(Requests)
      BY <2>4, AppendProperties DEF Connections
    <2>6. \E k \in Connections : net' = [net EXCEPT ![ups.fd] = k] /\ k.toUps = net[ups.fd].toUps
      <3>1. CASE net[ups.fd].drv = "none"
        <4> DEFINE k == [net[ups.fd] EXCEPT !.reset = TRUE]
        <4>1. k \in Connections /\ k.toUps = net[ups.fd].toUps
          BY Zenon, <2>4 DEF Connections
        <4>2. net' = [net EXCEPT ![ups.fd] = k]
          BY <1>0, <1>17, <3>1 DEF UpsdPings
        <4> QED BY Zenon, <4>1, <4>2
      <3>2. CASE net[ups.fd].drv # "none"
        <4> DEFINE k == [net[ups.fd] EXCEPT !.toDrv = Append(net[ups.fd].toDrv, "PING")]
        <4>1. k \in Connections /\ k.toUps = net[ups.fd].toUps
          BY Zenon, <2>4, <2>5 DEF Connections
        <4>2. net' = [net EXCEPT ![ups.fd] = k]
          BY <1>0, <1>17, <3>2 DEF UpsdPings
        <4> QED BY Zenon, <4>1, <4>2
      <3> QED BY <3>1, <3>2
    <2> QED BY <1>0, <1>17, <2>2, <2>3, <2>6 DEF LinkTypeOK, UpsdPings
  <1>18. ASSUME UpsdPingFails \/ UpsdGivesUp \/ UpsdHangsUp PROVE LinkTypeOK'
    <2>1. Dead(ups) \in BOOLEAN /\ NoTree \in [Vars -> Values \cup {Absent, Wait}]
      BY DEF Dead, NoTree
    <2>2. ups' \in Copies
      <3>1. [ups EXCEPT !.stale = Dead(ups)] \in Copies
        BY <1>0, <2>1 DEF Copies
      <3>2. \A u \in Copies : Disconnected(u) \in Copies
        BY Zenon, <2>1 DEF Disconnected, Copies
      <3> QED BY <1>0, <1>18, <3>1, <3>2 DEF UpsdPingFails, UpsdGivesUp, UpsdHangsUp
    <2>3. ups.fd \in Conns
      BY <1>0, <1>18 DEF UpsdPingFails, UpsdGivesUp, UpsdHangsUp, Copies
    <2>4. net' = [net EXCEPT ![ups.fd] = ServerClosed(net[ups.fd])]
      BY <1>0, <1>18 DEF UpsdPingFails, UpsdGivesUp, UpsdHangsUp
    <2>5. ServerClosed(net[ups.fd]) \in Connections /\ Len(ServerClosed(net[ups.fd]).toUps) <= BufCap
      BY <1>0, <2>3, ServerClosedType
    <2>6. loop' \in {"scan", "poll"} /\ drv' = drv
      BY <1>0, <1>18 DEF LinkTypeOK, UpsdPingFails, UpsdGivesUp, UpsdHangsUp
    <2> QED BY <1>0, <2>2, <2>3, <2>4, <2>5, <2>6 DEF LinkTypeOK
  <1>21. CASE UpsdReads
    <2>1. ups.fd \in Conns /\ net[ups.fd].toUps # <<>>
      BY <1>0, <1>21 DEF UpsdReads, Copies
    <2>2. net[ups.fd] \in Connections /\ net[ups.fd].toUps \in Seq(Lines)
      BY <1>0, <2>1 DEF Connections
    <2> DEFINE line == Head(net[ups.fd].toUps)  rest == Tail(net[ups.fd].toUps)
               k == [net[ups.fd] EXCEPT !.toUps = rest]
    <2>3. line \in Lines /\ rest \in Seq(Lines) /\ Len(rest) = Len(net[ups.fd].toUps) - 1
      BY <2>1, <2>2, HeadTailProperties
    <2>4. ups' = Taken(ups, line) /\ net' = [net EXCEPT ![ups.fd] = k]
          /\ UNCHANGED <<drv, loop>>
      BY <1>0, <1>21 DEF UpsdReads, Taken
    <2> HIDE DEF line, rest
    <2>5. Len(rest) <= BufCap
      BY <1>0, <2>1, <2>2, <2>3, LenProperties
    <2>6. k \in Connections /\ Len(k.toUps) <= BufCap
      BY Zenon, <2>2, <2>3, <2>5 DEF Connections
    <2>7. ups' \in Copies
      BY <1>0, <2>3, <2>4, ReadLine DEF LineEffect
    <2> HIDE DEF k
    <2> QED BY <1>0, <2>1, <2>4, <2>6, <2>7 DEF LinkTypeOK
  <1>19. CASE UpsdPolled
    BY <1>0, <1>19 DEF LinkTypeOK, UpsdPolled
  <1>20. CASE Tick
    <2>1. ups' \in Copies
      <3>1. Older(ups.heard, MaxAge) \in 0..MaxAge + 1
        BY <1>0 DEF Copies, Older
      <3>2. Older(ups.ping, PingAge) \in 0..PingAge + 1
        BY <1>0, PingAgeType DEF Copies, Older
      <3>3. ups' = [ups EXCEPT !.heard = Older(ups.heard, MaxAge), !.ping = Older(ups.ping, PingAge)]
        BY <1>20 DEF Tick
      <3> QED BY Zenon, <1>0, <3>1, <3>2, <3>3 DEF Copies
    <2> QED BY <1>0, <1>20, <2>1 DEF LinkTypeOK, Tick
  <1> QED BY <1>1, <1>2, <1>3, <1>4, <1>5, <1>6, <1>7, <1>8, <1>9, <1>10, <1>11, <1>12, <1>13,
             <1>14, <1>15, <1>16, <1>17, <1>18, <1>19, <1>20, <1>21 DEF LinkNext, DriverTalks

-----------------------------------------------------------------------------
(* What sstate_readline does to the copy *)
LEMMA LineTaken ==
    ASSUME LinkTypeOK, UpsdReads, NEW line, line = Head(net[ups.fd].toUps)
    PROVE  /\ ups.fd \in Conns /\ line \in Lines /\ net[ups.fd].toUps \in Seq(Lines)
           /\ net[ups.fd].toUps # <<>>
           /\ LineEffect(ups, line, ups')
  <1>1. /\ ups \in Copies /\ ups.fd \in Conns
        /\ net[ups.fd].toUps \in Seq(Lines) /\ net[ups.fd].toUps # <<>>
    BY DEF LinkTypeOK, UpsdReads, Copies, Connections
  <1>2. line \in Lines
    BY <1>1, HeadTailProperties
  <1>3. ups' = Taken(ups, line)
    BY DEF UpsdReads, Taken
  <1>4. LineEffect(ups, line, Taken(ups, line))
    BY <1>1, <1>2, ReadLine
  <1> QED BY <1>1, <1>2, <1>3, <1>4

-----------------------------------------------------------------------------
(* MAXAGE *)

LEMMA HeardStep == LinkInv /\ LinkNext => HeardWithinMaxAge'
  <1> SUFFICES ASSUME LinkInv, LinkNext PROVE HeardWithinMaxAge'
    OBVIOUS
  <1> USE LinkAssumption
  <1>0. ups \in Copies /\ net \in [Conns -> Connections] /\ HeardWithinMaxAge
    BY DEF LinkInv, LinkTypeOK
  <1>1. CASE UNCHANGED <<ups, loop>>
    BY <1>0, <1>1 DEF HeardWithinMaxAge
  <1>2. CASE FreedAborts \/ UpsdPolled \/ Tick
    BY <1>2 DEF FreedAborts, UpsdPolled, Tick, HeardWithinMaxAge
  <1>3. CASE UpsdConnects
    BY <1>0, <1>3 DEF UpsdConnects, HeardWithinMaxAge, Copies
  <1>4. CASE UpsdConnectFails
    BY <1>0, <1>4 DEF UpsdConnectFails, HeardWithinMaxAge
  <1>5. CASE UpsdScans \/ UpsdPings
    <2>1. ups'.fd = ups.fd /\ ups'.heard = ups.heard /\ ups'.stale = Dead(ups)
      BY Zenon, <1>0, <1>5 DEF UpsdScans, UpsdPings, Copies
    <2>2. ~ups'.stale => ~(ups.heard > MaxAge)
      BY <2>1, Zenon DEF Dead
    <2>3. ~ups'.stale => ups'.heard <= MaxAge
      BY <1>0, <2>1, <2>2 DEF Copies
    <2> QED BY <2>3 DEF HeardWithinMaxAge
  <1>6. CASE UpsdPingFails \/ UpsdGivesUp \/ UpsdHangsUp
    <2>1. \A u \in Copies : Disconnected(u).fd = NoConn
      BY DEF Disconnected, Copies
    <2>2. (Dead(ups)) \in BOOLEAN
      BY DEF Dead
    <2>3. [ups EXCEPT !.stale = Dead(ups)] \in Copies
      BY <1>0, <2>2 DEF Copies
    <2>4. ups'.fd = NoConn
      BY <1>0, <1>6, <2>1, <2>3 DEF UpsdPingFails, UpsdGivesUp, UpsdHangsUp
    <2> QED BY <2>4 DEF HeardWithinMaxAge
  <1>7. CASE UpsdReads
    <2>1. ups'.heard = 0
      BY <1>7, LineTaken DEF LinkInv, LineEffect
    <2> QED BY <2>1 DEF HeardWithinMaxAge
  <1> QED BY Zenon, <1>1, <1>2, <1>3, <1>4, <1>5, <1>6, <1>7
          DEF LinkNext, DriverTalks, DriverSets, DriverDeletes, DriverDataOk, DriverDataStale, Broadcast,
              DriverAccepts, DriverReads, DriverReadsEnd, DriverServes, DriverSends, DriverSendFails,
              DriverServed, DriverParsesFreed

-----------------------------------------------------------------------------
(* Which connections are in use *)

(* send_to_all leaves a stream longer by the line, or the connection        *)
(* dropped.                                                                 *)
LEMMA BroadcastReaches ==
    ASSUME LinkTypeOK, ConnInv, Idle, NEW line \in Lines, NEW d \in DriverStates, Broadcast(line, d),
           d.at = drv.at, d.out = drv.out
    PROVE  /\ ups' = ups /\ drv'.info = d.info /\ drv'.stale = d.stale
           /\ drv'.at = NoConn /\ drv.at = NoConn /\ drv'.out = drv.out /\ drv.out = <<>>
           /\ \A c \in Conns : /\ net'[c].srv = net[c].srv
                               /\ net'[c].drv # "none" => /\ net'[c].drv = net[c].drv
                                                          /\ net'[c].reset = net[c].reset
                               /\ net'[c].drv = "pending" => net'[c].toUps = net[c].toUps
                               /\ net'[c].drv = "open" /\ net[c].srv =>
                                    net'[c].toUps = Append(net[c].toUps, line)
  <1>1. /\ ups' = ups /\ drv'.info = d.info /\ drv'.stale = d.stale
        /\ drv'.at = d.at /\ drv'.out = d.out
    BY DEF Broadcast, DriverStates
  <1>2. drv.at = NoConn /\ drv.out = <<>>
    BY DEF Idle, ConnInv
  <1>3. ASSUME NEW c \in Conns
        PROVE  /\ net'[c].srv = net[c].srv
               /\ net'[c].drv # "none" => /\ net'[c].drv = net[c].drv
                                          /\ net'[c].reset = net[c].reset
               /\ net'[c].drv = "pending" => net'[c].toUps = net[c].toUps
               /\ net'[c].drv = "open" /\ net[c].srv =>
                                    net'[c].toUps = Append(net[c].toUps, line)
    <2>0. net[c] \in Connections
      BY DEF LinkTypeOK
    <2>1. CASE ~Listening(c)
      <3>1. net'[c] = net[c]
        BY <2>1 DEF Broadcast
      <3> QED BY <2>1, <3>1 DEF Listening
    <2>2. CASE Listening(c) /\ Full(c)
      <3>1. net'[c] = DriverClosed(net[c])
        BY <2>2 DEF Broadcast
      <3> QED BY <2>0, <3>1, DriverClosedType
    <2>3. CASE Listening(c) /\ ~Full(c)
      <3>1. net'[c] = [net[c] EXCEPT !.toUps = Append(net[c].toUps, line)]
        BY <2>3 DEF Broadcast
      <3> QED BY Zenon, <2>0, <2>3, <3>1 DEF Connections, Listening
    <2> QED BY <2>1, <2>2, <2>3
  <1> QED BY <1>1, <1>2, <1>3

(* What sstate_disconnect leaves of the copy *)
LEMMA LinkDropped ==
    ASSUME ups \in Copies, UpsdPingFails \/ UpsdGivesUp \/ UpsdHangsUp
    PROVE  ups'.fd = NoConn /\ ups'.info = NoTree
  <1>1. \A u \in Copies : Disconnected(u).fd = NoConn /\ Disconnected(u).info = NoTree
    BY DEF Disconnected, Copies
  <1>2. (Dead(ups)) \in BOOLEAN
    BY DEF Dead
  <1>3. [ups EXCEPT !.stale = Dead(ups)] \in Copies
    BY <1>2 DEF Copies
  <1> QED BY <1>1, <1>3 DEF UpsdPingFails, UpsdGivesUp, UpsdHangsUp

LEMMA ConnStep == LinkInv /\ LinkNext => ConnInv'
  <1> SUFFICES ASSUME LinkInv, LinkNext PROVE ConnInv'
    OBVIOUS
  <1> USE LinkAssumption
  <1>0. /\ drv \in DriverStates /\ ups \in Copies /\ net \in [Conns -> Connections]
        /\ LinkTypeOK /\ ConnInv
    BY DEF LinkInv, LinkTypeOK
  <1>1. ASSUME NEW line \in Lines, NEW d \in DriverStates, Idle, Broadcast(line, d),
               d.at = drv.at, d.out = drv.out
        PROVE  ConnInv'
    <2>1. \A c \in Conns : /\ net'[c].srv = net[c].srv
                           /\ net'[c].drv = "pending" => /\ net[c].drv = "pending"
                                                         /\ net'[c].toUps = net[c].toUps
      BY <1>0, <1>1, BroadcastReaches
    <2>2. ups' = ups /\ drv'.out = <<>>
      BY <1>0, <1>1, BroadcastReaches
    <2> QED BY <1>0, <2>1, <2>2 DEF ConnInv, Copies, Unset
  <1>2. ASSUME NEW v \in Vars, NEW x \in Values, DriverSets(v, x)
        PROVE  ConnInv'
    <2> DEFINE d == [drv EXCEPT !.info[v] = x]
    <2>1. d \in DriverStates /\ d.at = drv.at /\ d.out = drv.out
      BY <1>0 DEF DriverStates
    <2>2. SetInfo(v, x) \in Lines
      BY LineMembers DEF About
    <2>3. Idle /\ Broadcast(SetInfo(v, x), d)
      BY <1>2 DEF DriverSets
    <2> HIDE DEF d
    <2> QED BY <1>1, <2>1, <2>2, <2>3
  <1>3. ASSUME NEW v \in Vars, DriverDeletes(v)
        PROVE  ConnInv'
    <2> DEFINE d == [drv EXCEPT !.info[v] = Absent]
    <2>1. d \in DriverStates /\ d.at = drv.at /\ d.out = drv.out
      BY Zenon, <1>0 DEF DriverStates
    <2>2. DelInfo(v) \in Lines
      BY LineMembers DEF About
    <2>3. Idle /\ Broadcast(DelInfo(v), d)
      BY <1>3 DEF DriverDeletes
    <2> HIDE DEF d
    <2> QED BY <1>1, <2>1, <2>2, <2>3
  <1>4. CASE DriverDataOk \/ DriverDataStale
    <2>1. \A b \in BOOLEAN : LET d == [drv EXCEPT !.stale = b] IN
             d \in DriverStates /\ d.at = drv.at /\ d.out = drv.out
      BY <1>0 DEF DriverStates
    <2>2. <<"DATAOK">> \in Lines /\ <<"DATASTALE">> \in Lines
      BY LineMembers DEF FlagLines
    <2>3. Idle /\ (\/ Broadcast(<<"DATAOK">>, [drv EXCEPT !.stale = FALSE])
                  \/ Broadcast(<<"DATASTALE">>, [drv EXCEPT !.stale = TRUE]))
      BY <1>4 DEF DriverDataOk, DriverDataStale
    <2> QED BY Zenon, <1>1, <2>1, <2>2, <2>3
  <1>5. ASSUME NEW c \in Conns, DriverAccepts(c)
        PROVE  ConnInv'
    BY <1>0, <1>5 DEF DriverAccepts, ConnInv, Idle, Copies, Connections, Unset
  <1>6. ASSUME NEW c \in Conns, DriverReads(c)
        PROVE  ConnInv'
    <2>1. drv'.out = drv.out /\ drv.out = <<>> /\ ups' = ups
      BY <1>0, <1>6 DEF DriverReads, DriverStates, ConnInv, Idle
    <2>2. \A k \in Conns : /\ net'[k].srv = net[k].srv /\ net'[k].drv = net[k].drv
                           /\ net'[k].toUps = net[k].toUps
      BY <1>0, <1>6 DEF DriverReads, Connections
    <2> QED BY <1>0, <2>1, <2>2 DEF ConnInv, Copies, Unset
  <1>7. ASSUME NEW c \in Conns, DriverReadsEnd(c)
        PROVE  ConnInv'
    <2>1. c # ups.fd /\ drv.out = <<>>
      BY <1>0, <1>7 DEF DriverReadsEnd, ConnInv, Idle
    <2> QED BY <1>0, <1>7, <2>1 DEF DriverReadsEnd, ConnInv, Copies, Unset
  <1>8. CASE DriverServes
    <2>1. drv'.at = drv.at /\ drv.at # NoConn /\ net[drv.at].drv = "open"
      BY <1>0, <1>8 DEF DriverServes, Alive, Idle, DriverStates
    <2> QED BY <1>0, <1>8, <2>1 DEF DriverServes, ConnInv, Unset
  <1>9. CASE DriverSends
    <2>1. /\ drv'.at = drv.at /\ drv.at \in Conns /\ drv.at # NoConn
          /\ net[drv.at].drv = "open" /\ ups' = ups
      BY <1>0, <1>9 DEF DriverSends, Alive, Idle, DriverStates
    <2>2. \A k \in Conns : /\ net'[k].srv = net[k].srv /\ net'[k].drv = net[k].drv
                           /\ k # drv.at => net'[k].toUps = net[k].toUps
      BY <1>0, <1>9, <2>1 DEF DriverSends, Connections
    <2> QED BY <1>0, <2>1, <2>2 DEF ConnInv, Copies, Unset
  <1>10. CASE DriverSendFails
    <2>1. drv'.out = <<>> /\ drv.at \in Conns /\ ups' = ups
      BY <1>0, <1>10 DEF DriverSendFails, Alive, Idle, DriverStates
    <2>2. \A k \in Conns : /\ net'[k].srv = net[k].srv
                           /\ net'[k].drv = "pending" => net'[k] = net[k]
      BY <1>0, <1>10, <2>1, DriverClosedType DEF DriverSendFails
    <2> QED BY <1>0, <2>1, <2>2 DEF ConnInv, Copies, Unset
  <1>11. CASE DriverServed \/ DriverParsesFreed
    BY <1>0, <1>11 DEF DriverServed, DriverParsesFreed, ConnInv, DriverStates, Copies, Unset
  <1>12. CASE FreedAborts
    BY <1>12 DEF FreedAborts, DrvStart, UpsStart, ConnInv
  <1>13. CASE UpsdConnects
    <2>1. PICK c \in Conns : /\ net[c].drv = "none" /\ ups.fd = NoConn /\ drv' = drv
                             /\ net' = [net EXCEPT ![c] = Dialed]
                             /\ ups' = [ups EXCEPT !.fd = c, !.dumpdone = FALSE, !.stale = FALSE,
                                                   !.heard = 0, !.info[Status] = Wait]
      BY Zenon, <1>13 DEF UpsdConnects
    <2>2. Dialed.srv /\ Dialed.toUps = <<>>
      BY DEF Dialed
    <2>3. /\ ups'.fd = c /\ ~ups'.dumpdone
          /\ \A v \in Vars : ups'.info[v] = IF v = Status THEN Wait ELSE ups.info[v]
      BY <1>0, <2>1 DEF Copies
    <2>4. \A v \in Vars : ups.info[v] = Absent
      BY <1>0, <2>1 DEF ConnInv, NoTree
    <2>5. \A v \in Vars : Unset(v)'
      BY <2>3, <2>4 DEF Unset
    <2>6. net'[c] = Dialed /\ \A k \in Conns : k # c => net'[k] = net[k]
      BY <1>0, <2>1
    <2>7. drv.out # <<>> => drv.at # NoConn /\ drv.at \in Conns /\ net'[drv.at].drv = "open"
      BY <1>0, <2>1, <2>6 DEF ConnInv, DriverStates
    <2> QED BY <2>1, <2>2, <2>3, <2>5, <2>6, <2>7 DEF ConnInv
  <1>14. CASE UpsdConnectFails \/ UpsdPolled
    BY <1>0, <1>14 DEF UpsdConnectFails, UpsdPolled, ConnInv, Unset
  <1>15. CASE UpsdScans \/ Tick
    <2>1. /\ ups'.fd = ups.fd /\ ups'.info = ups.info /\ ups'.dumpdone = ups.dumpdone
          /\ drv' = drv /\ net' = net
      BY Zenon, <1>0, <1>15 DEF UpsdScans, Tick, Copies
    <2> QED BY <1>0, <2>1 DEF ConnInv, Unset
  <1>16. CASE UpsdPings
    <2>1. /\ ups'.fd = ups.fd /\ ups'.info = ups.info /\ ups'.dumpdone = ups.dumpdone
          /\ drv' = drv
      BY <1>0, <1>16 DEF UpsdPings, Copies
    <2>2. \A k \in Conns : /\ net'[k].srv = net[k].srv /\ net'[k].drv = net[k].drv
                           /\ net'[k].toUps = net[k].toUps
      BY <1>0, <1>16 DEF UpsdPings, Connections, Copies
    <2> QED BY <1>0, <2>1, <2>2 DEF ConnInv, Unset, Copies, DriverStates
  <1>17. CASE UpsdPingFails \/ UpsdGivesUp \/ UpsdHangsUp
    <2>1. ups'.fd = NoConn /\ ups'.info = NoTree
      BY <1>0, <1>17, LinkDropped
    <2>2. ups.fd \in Conns /\ drv' = drv /\ net' = [net EXCEPT ![ups.fd] = ServerClosed(net[ups.fd])]
      BY <1>0, <1>17 DEF UpsdPingFails, UpsdGivesUp, UpsdHangsUp, Copies
    <2>3. \A k \in Conns : net'[k].drv = net[k].drv
      BY <1>0, <2>2, ServerClosedType
    <2> QED BY <1>0, <2>1, <2>2, <2>3 DEF ConnInv, DriverStates
  <1>18. CASE UpsdReads
    <2>1. /\ ups.fd # NoConn /\ ups.fd \in Conns /\ drv' = drv
          /\ net[ups.fd].toUps # <<>>
          /\ Head(net[ups.fd].toUps) \in Lines
      BY <1>0, <1>18, HeadTailProperties DEF UpsdReads, Copies, Connections
    <2>2. ups'.fd = ups.fd
      BY <1>0, <1>18, LineTaken DEF LineEffect
    <2>3. \A k \in Conns : net'[k].srv = net[k].srv /\ net'[k].drv = net[k].drv
      BY <1>0, <1>18, <2>1 DEF UpsdReads, Connections
    <2>4. net[ups.fd].drv # "pending"
      BY <1>0, <2>1 DEF ConnInv
    <2> QED BY <1>0, <2>1, <2>2, <2>3, <2>4 DEF ConnInv, DriverStates
  <1> QED BY <1>2, <1>3, <1>4, <1>5, <1>6, <1>7, <1>8, <1>9, <1>10, <1>11, <1>12, <1>13, <1>14,
             <1>15, <1>16, <1>17, <1>18 DEF LinkNext, DriverTalks

-----------------------------------------------------------------------------
(* What the lines under way tell *)

LEMMA SettlesWeaker ==
    ASSUME NEW s, NEW about, NEW right, NEW now, NEW right2, NEW now2,
           Settles(s, about, right, now), \A x \in about : x \in right => x \in right2, now => now2
    PROVE  Settles(s, about, right2, now2)
  BY DEF Settles

LEMMA TailConcat ==
    ASSUME NEW S, NEW s \in Seq(S), NEW t \in Seq(S), s # <<>>
    PROVE  /\ s \o t \in Seq(S) /\ s \o t # <<>>
           /\ Head(s \o t) = Head(s) /\ Tail(s \o t) = Tail(s) \o t
  <1>1. /\ Tail(s) \in Seq(S) /\ Len(s) \in Nat /\ Len(s) >= 1 /\ Len(t) \in Nat
        /\ Len(Tail(s)) = Len(s) - 1 /\ Head(s) = s[1]
        /\ \A i \in 1 .. Len(Tail(s)) : Tail(s)[i] = s[i + 1]
    BY HeadTailProperties, LenProperties, EmptySeq
  <1> DEFINE u == s \o t
  <1>2. /\ u \in Seq(S) /\ Len(u) = Len(s) + Len(t)
        /\ \A i \in 1 .. Len(s) + Len(t) : u[i] = IF i <= Len(s) THEN s[i] ELSE t[i - Len(s)]
    BY ConcatProperties
  <1> DEFINE w == Tail(s) \o t
  <1>3. /\ w \in Seq(S) /\ Len(w) = Len(s) - 1 + Len(t)
        /\ \A i \in 1 .. Len(s) - 1 + Len(t) :
             w[i] = IF i <= Len(s) - 1 THEN Tail(s)[i] ELSE t[i - (Len(s) - 1)]
    BY <1>1, ConcatProperties
  <1> HIDE DEF u, w
  <1>4. u # <<>>
    BY <1>1, <1>2, EmptySeq
  <1>5. /\ Tail(u) \in Seq(S) /\ Len(Tail(u)) = Len(u) - 1 /\ Head(u) = u[1]
        /\ \A i \in 1 .. Len(Tail(u)) : Tail(u)[i] = u[i + 1]
    BY <1>2, <1>4, HeadTailProperties
  <1>6. Head(u) = Head(s)
    BY <1>1, <1>2, <1>5
  <1>7. Len(Tail(u)) = Len(w)
    BY <1>1, <1>2, <1>3, <1>5
  <1>8. \A i \in 1 .. Len(w) : Tail(u)[i] = w[i]
    <2> TAKE i \in 1 .. Len(w)
    <2>1. Tail(u)[i] = u[i + 1] /\ i + 1 \in 1 .. Len(s) + Len(t) /\ i \in 1 .. Len(s) - 1 + Len(t)
      BY <1>1, <1>2, <1>3, <1>5, <1>7
    <2>2. CASE i <= Len(s) - 1
      <3>1. u[i + 1] = s[i + 1] /\ w[i] = Tail(s)[i] /\ Tail(s)[i] = s[i + 1]
        BY <1>1, <1>2, <1>3, <2>1, <2>2
      <3> QED BY Zenon, <2>1, <3>1
    <2>3. CASE ~(i <= Len(s) - 1)
      <3>0. ~(i + 1 <= Len(s))
        BY <1>1, <2>1, <2>3
      <3>1. u[i + 1] = t[i + 1 - Len(s)]
        BY <1>2, <2>1, <3>0
      <3>3. w[i] = t[i - (Len(s) - 1)]
        BY <1>3, <2>1, <2>3
      <3>2. i + 1 - Len(s) = i - (Len(s) - 1)
        BY <1>1, <2>1
      <3> QED BY Zenon, <2>1, <3>1, <3>2, <3>3
    <2> QED BY Zenon, <2>2, <2>3
  <1>9. Tail(u) = w
    BY <1>3, <1>5, <1>7, <1>8, SeqEqual
  <1> QED BY <1>2, <1>4, <1>6, <1>9 DEF u, w

LEMMA StreamType ==
    ASSUME LinkTypeOK, ups.fd # NoConn
    PROVE  /\ Stream \in Seq(Lines) /\ net[ups.fd].toUps \in Seq(Lines) /\ drv.out \in Seq(Lines)
           /\ ups.fd \in Conns
           /\ drv.out = <<>> => Stream = net[ups.fd].toUps
  <1>1. net[ups.fd].toUps \in Seq(Lines) /\ drv.out \in Seq(Lines) /\ ups.fd \in Conns
    BY DEF LinkTypeOK, Copies, Connections, DriverStates
  <1>2. net[ups.fd].toUps \o drv.out \in Seq(Lines)
    BY <1>1, ConcatProperties
  <1>3. drv.out = <<>> => net[ups.fd].toUps \o drv.out = net[ups.fd].toUps
    BY <1>1, ConcatEmptySeq
  <1> QED BY Zenon, <1>1, <1>2, <1>3 DEF Stream

(* A step that sends nothing upsd has not been sent, and changes nothing of *)
(* the two trees *)
LEMMA MirrorFrame ==
    ASSUME MirrorInv,
           Linked' => /\ Linked /\ Stream' = Stream
                      /\ ups'.info = ups.info /\ ups'.dumpdone = ups.dumpdone
                      /\ ups'.dataOk = ups.dataOk
                      /\ drv'.info = drv.info /\ drv'.stale = drv.stale
    PROVE  MirrorInv'
  <1> SUFFICES ASSUME Linked'
               PROVE  /\ \A v \in Vars : TreeMayLack(v)'
                      /\ Dumped' => FlagFollows' /\ \A v \in Vars : TreeFollows(v)'
    BY DEF MirrorInv
  <1>1. \A v \in Vars : TreeMayLack(v)' <=> TreeMayLack(v)
    BY DEF TreeMayLack, Known, Unset
  <1>2. \A v \in Vars : TreeFollows(v)' <=> TreeFollows(v)
    BY DEF TreeFollows, Known, Unset
  <1>3. FlagFollows' <=> FlagFollows
    BY DEF FlagFollows
  <1>4. Dumped' <=> Dumped
    BY DEF Dumped
  <1> QED BY <1>1, <1>2, <1>3, <1>4 DEF MirrorInv

(* send_to_all of a change of a variable *)
LEMMA MirrorTold ==
    ASSUME MirrorInv, NEW line \in Lines, NEW v \in Vars,
           Linked' => Linked /\ Stream \in Seq(Lines) /\ Stream' = Append(Stream, line),
           ups' = ups, drv'.stale = drv.stale,
           \A w \in Vars : w # v => drv'.info[w] = drv.info[w],
           line \in About(v), line \in Telling(v, drv'.info[v])
    PROVE  MirrorInv'
  <1> SUFFICES ASSUME Linked'
               PROVE  /\ \A w \in Vars : TreeMayLack(w)'
                      /\ Dumped' => FlagFollows' /\ \A w \in Vars : TreeFollows(w)'
    BY DEF MirrorInv
  <1>0. Linked /\ Stream \in Seq(Lines) /\ Stream' = Append(Stream, line)
    OBVIOUS
  <1>1. line \notin FlagLines /\ line # <<"DUMPDONE">> /\ \A w \in Vars : w # v => line \notin About(w)
    BY AboutOne DEF Marks
  <1>2. Dumped' => Dumped
    BY <1>0, <1>1, HasAppend DEF Dumped
  <1>3. TreeFollows(v)'
    BY <1>0, SettlesTold DEF TreeFollows
  <1>4. TreeMayLack(v)'
    BY <1>0, SettlesTold DEF TreeMayLack
  <1>5. ASSUME NEW w \in Vars, w # v
        PROVE  /\ TreeFollows(w) => TreeFollows(w)'
               /\ TreeMayLack(w) => TreeMayLack(w)'
    <2>1. Known(w)' = Known(w) /\ Unset(w)' = Unset(w) /\ drv'.info[w] = drv.info[w]
      BY <1>5 DEF Known, Unset
    <2>2. line \notin About(w)
      BY <1>1, <1>5
    <2>3. TreeFollows(w) => TreeFollows(w)'
      BY <1>0, <2>1, <2>2, SettlesOther DEF TreeFollows
    <2>4. TreeMayLack(w) => TreeMayLack(w)'
      BY <1>0, <2>1, <2>2, SettlesOther DEF TreeMayLack
    <2> QED BY <2>3, <2>4
  <1>6. FlagFollows => FlagFollows'
    BY <1>0, <1>1, SettlesOther DEF FlagFollows
  <1> QED BY <1>0, <1>2, <1>3, <1>4, <1>5, <1>6 DEF MirrorInv

(* send_to_all of a change of staleness *)
LEMMA MirrorFlagged ==
    ASSUME MirrorInv, NEW line \in Lines,
           Linked' => Linked /\ Stream \in Seq(Lines) /\ Stream' = Append(Stream, line),
           ups' = ups, drv'.info = drv.info, line \in FlagLines, line = Flag(drv'.stale)
    PROVE  MirrorInv'
  <1> SUFFICES ASSUME Linked'
               PROVE  /\ \A w \in Vars : TreeMayLack(w)'
                      /\ Dumped' => FlagFollows' /\ \A w \in Vars : TreeFollows(w)'
    BY DEF MirrorInv
  <1>0. Linked /\ Stream \in Seq(Lines) /\ Stream' = Append(Stream, line)
    OBVIOUS
  <1>1. line # <<"DUMPDONE">> /\ \A w \in Vars : line \notin About(w)
    BY AboutOne DEF FlagLines
  <1>2. Dumped' => Dumped
    BY <1>0, <1>1, HasAppend DEF Dumped
  <1>3. ASSUME NEW w \in Vars
        PROVE  /\ TreeFollows(w) => TreeFollows(w)'
               /\ TreeMayLack(w) => TreeMayLack(w)'
    <2>1. Known(w)' = Known(w) /\ Unset(w)' = Unset(w) /\ drv'.info[w] = drv.info[w]
      BY DEF Known, Unset
    <2>2. line \notin About(w)
      BY <1>1
    <2>3. TreeFollows(w) => TreeFollows(w)'
      BY <1>0, <2>1, <2>2, SettlesOther DEF TreeFollows
    <2>4. TreeMayLack(w) => TreeMayLack(w)'
      BY <1>0, <2>1, <2>2, SettlesOther DEF TreeMayLack
    <2> QED BY <2>3, <2>4
  <1>4. FlagFollows'
    <2> DEFINE right == {Flag(drv'.stale)}
               now   == ups'.dataOk = ~drv'.stale
    <2>1. line \in right
      OBVIOUS
    <2> HIDE DEF right, now
    <2>2. Settles(Append(Stream, line), FlagLines, right, now)
      BY Zenon, <1>0, <2>1, SettlesTold
    <2> QED BY Zenon, <1>0, <2>2 DEF FlagFollows, right, now
  <1> QED BY <1>0, <1>2, <1>3, <1>4 DEF MirrorInv

(* sstate_readline *)
LEMMA MirrorRead ==
    ASSUME LinkInv, UpsdReads
    PROVE  MirrorInv'
  <1> DEFINE line == Head(net[ups.fd].toUps)
  <1>0. LinkTypeOK /\ MirrorInv /\ drv \in DriverStates /\ ups.fd # NoConn /\ drv' = drv
    BY DEF LinkInv, LinkTypeOK, UpsdReads
  <1>1. /\ ups.fd \in Conns /\ line \in Lines
        /\ net[ups.fd].toUps \in Seq(Lines) /\ net[ups.fd].toUps # <<>>
        /\ LineEffect(ups, line, ups')
    BY <1>0, LineTaken
  <1>2. drv.out \in Seq(Lines)
    BY <1>0 DEF DriverStates
  <1>3. ups'.fd = ups.fd
    BY <1>1 DEF LineEffect
  <1>4. net \in [Conns -> Connections] /\ net' = [net EXCEPT ![ups.fd].toUps = Tail(net[ups.fd].toUps)]
    BY <1>0 DEF LinkTypeOK, UpsdReads
  <1>5. /\ net'[ups.fd].toUps = Tail(net[ups.fd].toUps)
        /\ net'[ups.fd].drv = net[ups.fd].drv /\ net'[ups.fd].reset = net[ups.fd].reset
    BY <1>1, <1>4 DEF Connections
  <1>6. Linked' => Linked
    BY <1>3, <1>5 DEF Linked
  <1>7. /\ Stream \in Seq(Lines) /\ Stream # <<>> /\ Head(Stream) = line
        /\ Stream' = Tail(Stream)
    <2>1. /\ net[ups.fd].toUps \o drv.out \in Seq(Lines) /\ net[ups.fd].toUps \o drv.out # <<>>
          /\ Head(net[ups.fd].toUps \o drv.out) = line
          /\ Tail(net[ups.fd].toUps \o drv.out) = Tail(net[ups.fd].toUps) \o drv.out
      BY Zenon, <1>1, <1>2, TailConcat
    <2>2. Stream' = IF drv.at = ups.fd THEN Tail(net[ups.fd].toUps) \o drv.out
                                        ELSE Tail(net[ups.fd].toUps)
      BY <1>0, <1>3, <1>5 DEF Stream
    <2> HIDE DEF line
    <2>3. line = Head(net[ups.fd].toUps)
      BY DEF line
    <2> QED BY Zenon, <1>1, <2>1, <2>2, <2>3 DEF Stream
  <1> HIDE DEF line
  <1> SUFFICES ASSUME Linked'
               PROVE  /\ \A w \in Vars : TreeMayLack(w)'
                      /\ Dumped' => FlagFollows' /\ \A w \in Vars : TreeFollows(w)'
    BY DEF MirrorInv
  <1>8. Dumped' => Dumped
    BY <1>1, <1>7, HasTail DEF Dumped, LineEffect
  <1>9. ASSUME NEW w \in Vars
        PROVE  /\ TreeFollows(w) => TreeFollows(w)'
               /\ TreeMayLack(w) => TreeMayLack(w)'
    <2>0. drv.info[w] \in Values \cup {Absent}
      BY <1>0 DEF DriverStates
    <2>1. line \in Telling(w, drv.info[w]) => ups'.info[w] = drv.info[w]
      BY <1>1, <2>0 DEF Telling, LineEffect
    <2>2. line = DelInfo(w) => Unset(w)'
      BY <1>1 DEF Unset, LineEffect
    <2>3. line \notin About(w) => Known(w)' = Known(w) /\ Unset(w)' = Unset(w)
      BY <1>0, <1>1 DEF Known, Unset, LineEffect
    <2>4. line \in Telling(w, drv.info[w]) => Known(w)'
      BY <1>0, <2>1 DEF Known
    <2>5. TreeFollows(w) => TreeFollows(w)'
      BY <1>0, <1>7, <2>3, <2>4, SettlesRead DEF TreeFollows
    <2>6. TreeMayLack(w) => TreeMayLack(w)'
      BY Zenon, <1>0, <1>7, <2>2, <2>3, <2>4, SettlesRead DEF TreeMayLack
    <2> QED BY <2>5, <2>6
  <1>10. FlagFollows => FlagFollows'
    <2>1. drv.stale \in BOOLEAN /\ ups'.dataOk \in BOOLEAN
      BY <1>0, <1>1 DEF DriverStates, LineEffect, Copies
    <2>2. line = Flag(drv.stale) => ups'.dataOk = ~drv.stale
      BY <1>1, <2>1 DEF Flag, LineEffect
    <2>3. line \notin FlagLines => ups'.dataOk = ups.dataOk
      BY <1>1 DEF LineEffect
    <2> QED BY Zenon, <1>0, <1>7, <2>2, <2>3, SettlesRead DEF FlagFollows
  <1> QED BY <1>6, <1>8, <1>9, <1>10, <1>0 DEF MirrorInv

(* sock_connect: nothing has been sent, and upsd has only its WAIT. *)
LEMMA MirrorAccepted ==
    ASSUME LinkInv, NEW c \in Conns, DriverAccepts(c)
    PROVE  MirrorInv'
  <1>0. /\ net \in [Conns -> Connections] /\ ups \in Copies /\ drv \in DriverStates /\ ConnInv
        /\ LinkTypeOK /\ MirrorInv /\ ups' = ups /\ drv' = drv
    BY DEF LinkInv, LinkTypeOK, DriverAccepts
  <1>1. \A k \in Conns : /\ net'[k].toUps = net[k].toUps /\ net'[k].reset = net[k].reset
                         /\ k # c => net'[k].drv = net[k].drv
    BY <1>0 DEF DriverAccepts, Connections
  <1>2. CASE c # ups.fd
    <2>1. ups.fd # NoConn => Stream' = Stream /\ (Linked' => Linked)
      BY <1>0, <1>1, <1>2 DEF Stream, Linked, Copies
    <2>2. Linked' => ups.fd # NoConn
      BY <1>0 DEF Linked
    <2> QED BY <1>0, <2>1, <2>2, MirrorFrame
  <1>3. CASE c = ups.fd
    <2>1. /\ net[ups.fd].toUps = <<>> /\ ~ups.dumpdone /\ \A v \in Vars : Unset(v)
          /\ drv.out = <<>> /\ drv.at = NoConn
      BY <1>0, <1>3, LinkAssumption DEF ConnInv, DriverAccepts, Idle
    <2>2. Stream' = <<>>
      BY <1>0, <1>1, <1>3, <2>1, LinkAssumption DEF Stream
    <2>3. ~Dumped'
      BY <1>0, <2>1, <2>2 DEF Dumped, Has
    <2>4. ASSUME NEW v \in Vars PROVE TreeMayLack(v)'
      <3>1. Unset(v)'
        BY <1>0, <2>1 DEF Unset
      <3> QED BY <2>2, <3>1 DEF TreeMayLack, Settles
    <2> QED BY <2>3, <2>4 DEF MirrorInv
  <1> QED BY <1>2, <1>3

(* sock_arg: after a dump every variable is told as it is, or was never     *)
(* told at all and is in neither tree.                                      *)
LEMMA MirrorServed ==
    ASSUME LinkInv, DriverServes
    PROVE  MirrorInv'
  <1>0. /\ LinkTypeOK /\ MirrorInv /\ drv \in DriverStates /\ ups' = ups /\ net' = net
        /\ drv.out = <<>>
    BY DEF LinkInv, LinkTypeOK, DriverServes
  <1>1. /\ drv'.at = drv.at /\ drv'.info = drv.info /\ drv'.stale = drv.stale
        /\ drv'.out = IF Head(drv.batch) = "PING" THEN << <<"PONG">> >> ELSE Dump
    BY <1>0 DEF DriverServes, DriverStates
  <1>2. Linked' <=> Linked
    BY <1>0 DEF Linked
  <1>3. CASE drv.at # ups.fd
    <2>1. Stream' = Stream
      BY <1>0, <1>1, <1>3 DEF Stream
    <2> QED BY <1>0, <1>1, <1>2, <2>1, MirrorFrame
  <1>4. CASE drv.at = ups.fd
    <2> SUFFICES ASSUME Linked'
                 PROVE  /\ \A w \in Vars : TreeMayLack(w)'
                        /\ Dumped' => FlagFollows' /\ \A w \in Vars : TreeFollows(w)'
      BY DEF MirrorInv
    <2>0. Linked /\ ups.fd # NoConn
      BY <1>2 DEF Linked
    <2> DEFINE s == net[ups.fd].toUps
    <2>1. s \in Seq(Lines) /\ Stream = s
      BY <1>0, <2>0, StreamType
    <2>2. Stream' = s \o drv'.out
      BY <1>0, <1>1, <1>4 DEF Stream
    <2> HIDE DEF s
    <2>3. ASSUME NEW w \in Vars
          PROVE  Known(w)' = Known(w) /\ Unset(w)' = Unset(w) /\ drv'.info[w] = drv.info[w]
      BY <1>0, <1>1 DEF Known, Unset
    <2>4. CASE Head(drv.batch) = "PING"
      <3> DEFINE d == << <<"PONG">> >>
      <3>1. <<"PONG">> \in Lines
        BY LineMembers DEF Marks
      <3>2. d \in Seq(Lines) /\ \A i \in DOMAIN d : d[i] = <<"PONG">>
        BY <3>1
      <3>3. <<"PONG">> # <<"DUMPDONE">> /\ <<"PONG">> \notin FlagLines
        BY LineKinds DEF FlagLines
      <3>4. \A w \in Vars : <<"PONG">> \notin About(w)
        BY AboutOne DEF Marks
      <3>5. Stream' = s \o d
        BY <1>1, <2>2, <2>4
      <3> HIDE DEF d
      <3>6. ~Has(d, <<"DUMPDONE">>)
        BY <3>2, <3>3 DEF Has
      <3>7. Dumped' => Dumped
        BY <1>0, <2>1, <3>2, <3>5, <3>6, HasConcat DEF Dumped
      <3>8. ASSUME NEW w \in Vars
            PROVE  /\ TreeFollows(w) => TreeFollows(w)'
                   /\ TreeMayLack(w) => TreeMayLack(w)'
        <4>1. \A i \in DOMAIN d : d[i] \notin About(w)
          BY <3>2, <3>4
        <4>2. TreeFollows(w) => TreeFollows(w)'
          BY <2>1, <2>3, <3>2, <3>5, <4>1, SettlesDump DEF TreeFollows
        <4>3. TreeMayLack(w) => TreeMayLack(w)'
          BY Zenon, <2>1, <2>3, <3>2, <3>5, <4>1, SettlesDump DEF TreeMayLack
        <4> QED BY <4>2, <4>3
      <3>9. FlagFollows => FlagFollows'
        <4>1. \A i \in DOMAIN d : d[i] \notin FlagLines
          BY <3>2, <3>3
        <4> QED BY <1>0, <1>1, <2>1, <3>2, <3>5, <4>1, SettlesDump DEF FlagFollows
      <3> QED BY <1>0, <2>0, <3>7, <3>8, <3>9 DEF MirrorInv
    <2>5. CASE Head(drv.batch) # "PING"
      <3> DEFINE d == Dump
      <3>1. d \in Seq(Lines) /\ \A x : Has(d, x) <=> x \in TreeLines \cup {Flag(drv.stale), <<"DUMPDONE">>}
        BY <1>0, DumpLines
      <3>2. Stream' = s \o d
        BY <1>1, <2>2, <2>5
      <3> HIDE DEF d
      <3>3. Flag(drv.stale) \in FlagLines /\ <<"DUMPDONE">> \notin FlagLines
        BY LineKinds DEF Flag, FlagLines
      <3>4. ASSUME NEW w \in Vars
            PROVE  TreeFollows(w)' /\ TreeMayLack(w)'
        <4>0. drv.info[w] \in Values \cup {Absent}
          BY <1>0 DEF DriverStates
        <4>1. Flag(drv.stale) \notin About(w) /\ <<"DUMPDONE">> \notin About(w)
          BY <3>3, AboutOne DEF Marks
        <4>2. ASSUME NEW x \in TreeLines, x \in About(w)
              PROVE  x \in Telling(w, drv.info[w])
          <5>1. PICK v \in Held : x = SetInfo(v, drv.info[v])
            BY <4>2 DEF TreeLines
          <5>2. v \in Vars /\ drv.info[v] # Absent /\ drv.info[v] \in Values
            BY <1>0 DEF Held, DriverStates
          <5>3. x \in About(v)
            BY <5>1, <5>2 DEF About
          <5>4. v = w
            BY <4>2, <5>3, AboutOne
          <5> QED BY <5>1, <5>2, <5>4 DEF Telling
        <4>3. \A i \in DOMAIN d : d[i] \in About(w) => d[i] \in Telling(w, drv.info[w])
          BY <3>1, <4>1, <4>2 DEF Has
        <4>4. (\E i \in DOMAIN d : d[i] \in About(w))
              \/ Settles(s, About(w), Telling(w, drv.info[w]), Known(w))
          <5>1. CASE drv.info[w] = Absent
            <6>1. Settles(s, About(w), Telling(w, drv.info[w]) \cup {DelInfo(w)}, Known(w) \/ Unset(w))
              BY Zenon, <1>0, <2>0, <2>1 DEF MirrorInv, TreeMayLack
            <6>2. Known(w) \/ Unset(w) => Known(w)
              BY <5>1 DEF Known, Unset
            <6>3. Telling(w, drv.info[w]) \cup {DelInfo(w)} = Telling(w, drv.info[w])
              BY <5>1 DEF Telling
            <6> QED BY Zenon, <6>1, <6>2, <6>3, SettlesWeaker
          <5>2. CASE drv.info[w] # Absent
            <6>1. SetInfo(w, drv.info[w]) \in TreeLines
              BY <5>2 DEF TreeLines, Held
            <6>2. SetInfo(w, drv.info[w]) \in About(w)
              BY <4>0, <5>2 DEF About
            <6>3. Has(d, SetInfo(w, drv.info[w]))
              BY <3>1, <6>1
            <6> QED BY <6>2, <6>3 DEF Has
          <5> QED BY <5>1, <5>2
        <4>5. Settles(s \o d, About(w), Telling(w, drv.info[w]), Known(w))
          BY Zenon, <2>1, <3>1, <4>3, <4>4, SettlesDump
        <4>6. TreeFollows(w)'
          BY <2>3, <3>2, <4>5 DEF TreeFollows
        <4>7. Settles(s \o d, About(w), Telling(w, drv.info[w]) \cup {DelInfo(w)}, Known(w) \/ Unset(w))
          BY <4>5, Zenon DEF Settles
        <4>8. TreeMayLack(w)'
          BY Zenon, <2>3, <3>2, <4>7 DEF TreeMayLack
        <4> QED BY <4>6, <4>8
      <3>5. FlagFollows'
        <4>1. \A x \in TreeLines : x \notin FlagLines
          <5> SUFFICES ASSUME NEW v \in Held PROVE SetInfo(v, drv.info[v]) \notin FlagLines
            BY DEF TreeLines
          <5>1. SetInfo(v, drv.info[v]) \in About(v)
            BY <1>0 DEF Held, DriverStates, About
          <5> QED BY <5>1, AboutOne
        <4>2. \A i \in DOMAIN d : d[i] \in FlagLines => d[i] \in {Flag(drv.stale)}
          BY <3>1, <3>3, <4>1 DEF Has
        <4>3. \E i \in DOMAIN d : d[i] \in FlagLines
          BY <3>1, <3>3 DEF Has
        <4>4. Settles(s \o d, FlagLines, {Flag(drv.stale)}, ups.dataOk = ~drv.stale)
          BY <2>1, <3>1, <4>2, <4>3, SettlesDump
        <4> QED BY <1>0, <1>1, <3>2, <4>4 DEF FlagFollows
      <3> QED BY <3>4, <3>5
    <2> QED BY <2>4, <2>5
  <1> QED BY <1>3, <1>4

LEMMA MirrorStep == LinkInv /\ LinkNext => MirrorInv'
  <1> SUFFICES ASSUME LinkInv, LinkNext PROVE MirrorInv'
    OBVIOUS
  <1> USE LinkAssumption
  <1>0. /\ drv \in DriverStates /\ ups \in Copies /\ net \in [Conns -> Connections]
        /\ LinkTypeOK /\ ConnInv /\ MirrorInv
    BY DEF LinkInv, LinkTypeOK
  <1>1. ASSUME NEW line \in Lines, NEW d \in DriverStates, Idle, Broadcast(line, d),
               d.at = drv.at, d.out = drv.out
        PROVE  /\ Linked' => Linked /\ Stream \in Seq(Lines) /\ Stream' = Append(Stream, line)
               /\ ups' = ups /\ drv'.info = d.info /\ drv'.stale = d.stale
    <2>1. /\ ups' = ups /\ drv'.info = d.info /\ drv'.stale = d.stale
          /\ drv'.at = NoConn /\ drv.at = NoConn
          /\ drv'.out = <<>> /\ drv.out = <<>>
          /\ \A c \in Conns : /\ net'[c].srv = net[c].srv
                              /\ net'[c].drv # "none" => /\ net'[c].drv = net[c].drv
                                                         /\ net'[c].reset = net[c].reset
                              /\ net'[c].drv = "open" /\ net[c].srv =>
                                   net'[c].toUps = Append(net[c].toUps, line)
      BY <1>0, <1>1, BroadcastReaches
    <2>2. ASSUME Linked'
          PROVE  Linked /\ Stream \in Seq(Lines) /\ Stream' = Append(Stream, line)
      <3>1. ups.fd # NoConn /\ ups.fd \in Conns /\ net'[ups.fd].drv = "open" /\ ~net'[ups.fd].reset
        BY <1>0, <2>1, <2>2 DEF Linked, Copies
      <3>2. Linked /\ net[ups.fd].srv
        BY <1>0, <2>1, <3>1 DEF Linked, ConnInv
      <3>3. Stream \in Seq(Lines) /\ Stream = net[ups.fd].toUps
        BY <1>0, <2>1, <3>1, StreamType
      <3>4. Stream' = net'[ups.fd].toUps
        BY <2>1, <3>1 DEF Stream
      <3> QED BY <2>1, <3>1, <3>2, <3>3, <3>4
    <2> QED BY <2>1, <2>2
  <1>2. ASSUME NEW v \in Vars, NEW x \in Values, DriverSets(v, x)
        PROVE  MirrorInv'
    <2> DEFINE d == [drv EXCEPT !.info[v] = x]
    <2>1. /\ d \in DriverStates /\ d.at = drv.at /\ d.out = drv.out /\ d.stale = drv.stale
          /\ d.info[v] = x /\ \A w \in Vars : w # v => d.info[w] = drv.info[w]
      BY <1>0 DEF DriverStates
    <2>2. SetInfo(v, x) \in Lines /\ SetInfo(v, x) \in About(v) /\ SetInfo(v, x) \in Telling(v, x)
      BY LineMembers DEF About, Telling
    <2>3. Idle /\ Broadcast(SetInfo(v, x), d)
      BY <1>2 DEF DriverSets
    <2> HIDE DEF d
    <2>4. /\ Linked' => Linked /\ Stream \in Seq(Lines) /\ Stream' = Append(Stream, SetInfo(v, x))
          /\ ups' = ups /\ drv'.info = d.info /\ drv'.stale = d.stale
      BY <1>1, <2>1, <2>2, <2>3
    <2> QED BY <1>0, <2>1, <2>2, <2>4, MirrorTold
  <1>3. ASSUME NEW v \in Vars, DriverDeletes(v)
        PROVE  MirrorInv'
    <2> DEFINE d == [drv EXCEPT !.info[v] = Absent]
    <2>1. /\ d \in DriverStates /\ d.at = drv.at /\ d.out = drv.out /\ d.stale = drv.stale
          /\ d.info[v] = Absent /\ \A w \in Vars : w # v => d.info[w] = drv.info[w]
      BY <1>0 DEF DriverStates
    <2>2. DelInfo(v) \in Lines /\ DelInfo(v) \in About(v) /\ DelInfo(v) \in Telling(v, Absent)
      BY LineMembers DEF About, Telling
    <2>3. Idle /\ Broadcast(DelInfo(v), d)
      BY <1>3 DEF DriverDeletes
    <2> HIDE DEF d
    <2>4. /\ Linked' => Linked /\ Stream \in Seq(Lines) /\ Stream' = Append(Stream, DelInfo(v))
          /\ ups' = ups /\ drv'.info = d.info /\ drv'.stale = d.stale
      BY <1>1, <2>1, <2>2, <2>3
    <2> QED BY <1>0, <2>1, <2>2, <2>4, MirrorTold
  <1>4. ASSUME NEW b \in BOOLEAN, Idle, Broadcast(Flag(b), [drv EXCEPT !.stale = b])
        PROVE  MirrorInv'
    <2> DEFINE d == [drv EXCEPT !.stale = b]
    <2>1. /\ d \in DriverStates /\ d.at = drv.at /\ d.out = drv.out /\ d.stale = b
          /\ d.info = drv.info
      BY <1>0 DEF DriverStates
    <2>2. Flag(b) \in Lines /\ Flag(b) \in FlagLines
      BY LineMembers DEF Flag, FlagLines
    <2>3. Broadcast(Flag(b), d)
      BY <1>4
    <2> HIDE DEF d
    <2>4. /\ Linked' => Linked /\ Stream \in Seq(Lines) /\ Stream' = Append(Stream, Flag(b))
          /\ ups' = ups /\ drv'.info = d.info /\ drv'.stale = d.stale
      BY <1>1, <1>4, <2>1, <2>2, <2>3
    <2> QED BY <1>0, <2>1, <2>2, <2>4, MirrorFlagged
  <1>5. CASE DriverDataOk \/ DriverDataStale
    BY Zenon, <1>4, <1>5 DEF DriverDataOk, DriverDataStale, Flag
  <1>6. ASSUME NEW c \in Conns, DriverReads(c)
        PROVE  MirrorInv'
    <2>1. /\ drv'.out = <<>> /\ drv.out = <<>> /\ ups' = ups
          /\ drv'.info = drv.info /\ drv'.stale = drv.stale
      BY <1>0, <1>6 DEF DriverReads, DriverStates, ConnInv, Idle
    <2>2. \A k \in Conns : /\ net'[k].drv = net[k].drv /\ net'[k].reset = net[k].reset
                           /\ net'[k].toUps = net[k].toUps
      BY <1>0, <1>6 DEF DriverReads, Connections
    <2>3. ASSUME Linked' PROVE Linked /\ Stream' = Stream
      <3>1. ups.fd # NoConn /\ ups.fd \in Conns
        BY <1>0, <2>1, <2>3 DEF Linked, Copies
      <3>2. Linked
        BY <2>1, <2>2, <2>3, <3>1 DEF Linked
      <3>3. Stream = net[ups.fd].toUps /\ net[ups.fd].toUps \in Seq(Lines)
        BY <1>0, <2>1, <3>1, StreamType
      <3>4. Stream' = IF drv'.at = ups.fd THEN net[ups.fd].toUps \o <<>> ELSE net[ups.fd].toUps
        BY <2>1, <2>2, <3>1 DEF Stream
      <3>5. net[ups.fd].toUps \o <<>> = net[ups.fd].toUps
        BY <3>3, ConcatEmptySeq
      <3> QED BY <3>2, <3>3, <3>4, <3>5
    <2> QED BY <1>0, <2>1, <2>3, MirrorFrame
  <1>7. ASSUME NEW c \in Conns, DriverReadsEnd(c)
        PROVE  MirrorInv'
    <2>1. c # ups.fd /\ ups' = ups /\ drv' = drv
      BY <1>0, <1>7 DEF DriverReadsEnd, ConnInv
    <2>2. ups.fd # NoConn => net'[ups.fd] = net[ups.fd]
      BY <1>0, <1>7, <2>1 DEF DriverReadsEnd, Copies
    <2>3. Linked' => Linked /\ Stream' = Stream
      BY <2>1, <2>2 DEF Linked, Stream
    <2> QED BY <1>0, <2>1, <2>3, MirrorFrame
  <1>8. CASE DriverSends
    <2>1. /\ drv'.at = drv.at /\ drv.at \in Conns /\ drv'.out = Tail(drv.out) /\ drv.out # <<>>
          /\ drv.out \in Seq(Lines) /\ drv'.info = drv.info /\ drv'.stale = drv.stale /\ ups' = ups
      BY <1>0, <1>8 DEF DriverSends, Alive, Idle, DriverStates
    <2>2. \A k \in Conns : /\ net'[k].reset = net[k].reset /\ net'[k].drv = net[k].drv
                           /\ k # drv.at => net'[k].toUps = net[k].toUps
                           /\ k = drv.at /\ net[k].srv =>
                                net'[k].toUps = Append(net[k].toUps, Head(drv.out))
      <3>1. CASE ~net[drv.at].srv
        BY <1>8, <3>1 DEF DriverSends
      <3>2. CASE net[drv.at].srv
        <4> DEFINE t == Append(net[drv.at].toUps, Head(drv.out))
        <4>1. net' = [net EXCEPT ![drv.at].toUps = t]
          BY <1>8, <3>2 DEF DriverSends
        <4> HIDE DEF t
        <4>2. \A k \in Conns : /\ net'[k].reset = net[k].reset /\ net'[k].drv = net[k].drv
                               /\ k # drv.at => net'[k].toUps = net[k].toUps
                               /\ k = drv.at => net'[k].toUps = t
          BY <1>0, <2>1, <4>1 DEF Connections
        <4> QED BY <4>2 DEF t
      <3> QED BY <3>1, <3>2
    <2>3. ASSUME Linked' PROVE Linked /\ Stream' = Stream
      <3>1. ups.fd # NoConn /\ ups.fd \in Conns /\ net[ups.fd].srv
        BY <1>0, <2>1, <2>3 DEF Linked, Copies, ConnInv
      <3>2. Linked
        BY <2>1, <2>2, <2>3, <3>1 DEF Linked
      <3>3. net[ups.fd].toUps \in Seq(Lines)
        BY <1>0, <3>1, StreamType
      <3>4. CASE drv.at # ups.fd
        BY <2>1, <2>2, <3>1, <3>2, <3>4 DEF Stream
      <3>5. CASE drv.at = ups.fd
        <4>1. Stream' = Append(net[ups.fd].toUps, Head(drv.out)) \o Tail(drv.out)
          BY Zenon, <2>1, <2>2, <3>1, <3>5 DEF Stream
        <4>2. Stream = net[ups.fd].toUps \o drv.out
          BY <3>5 DEF Stream
        <4> QED BY Zenon, <2>1, <3>2, <3>3, <4>1, <4>2, StreamMoves
      <3> QED BY <3>4, <3>5
    <2> QED BY <1>0, <2>1, <2>3, MirrorFrame
  <1>9. CASE DriverSendFails
    <2>1. /\ drv'.at = drv.at /\ drv.at \in Conns /\ ups' = ups
          /\ drv'.info = drv.info /\ drv'.stale = drv.stale
      BY <1>0, <1>9 DEF DriverSendFails, Alive, Idle, DriverStates
    <2>2. net'[drv.at].drv = "none" /\ \A k \in Conns : k # drv.at => net'[k] = net[k]
      BY <1>0, <1>9, <2>1, DriverClosedType DEF DriverSendFails
    <2>3. Linked' => Linked /\ Stream' = Stream
      BY <1>0, <2>1, <2>2 DEF Linked, Stream, Copies
    <2> QED BY <1>0, <2>1, <2>3, MirrorFrame
  <1>10. CASE DriverServed \/ DriverParsesFreed
    <2>1. /\ drv.out = <<>> /\ drv'.out = <<>> /\ ups' = ups /\ net' = net
          /\ drv'.info = drv.info /\ drv'.stale = drv.stale
      BY <1>0, <1>10 DEF DriverServed, DriverParsesFreed, Alive, Idle, ConnInv, DriverStates
    <2>2. ASSUME Linked' PROVE Linked /\ Stream' = Stream
      <3>1. Linked /\ ups.fd # NoConn
        BY <2>1, <2>2 DEF Linked
      <3>2. Stream = net[ups.fd].toUps /\ net[ups.fd].toUps \in Seq(Lines)
        BY <1>0, <2>1, <3>1, StreamType
      <3>3. Stream' = IF drv'.at = ups.fd THEN net[ups.fd].toUps \o <<>> ELSE net[ups.fd].toUps
        BY <2>1 DEF Stream
      <3>4. net[ups.fd].toUps \o <<>> = net[ups.fd].toUps
        BY <3>2, ConcatEmptySeq
      <3> QED BY <3>1, <3>2, <3>3, <3>4
    <2> QED BY <1>0, <2>1, <2>2, MirrorFrame
  <1>11. CASE FreedAborts
    <2>1. ~Linked'
      BY <1>11 DEF FreedAborts, UpsStart, Linked
    <2> QED BY <2>1 DEF MirrorInv
  <1>12. CASE UpsdConnects
    <2>1. PICK c \in Conns : /\ net' = [net EXCEPT ![c] = Dialed]
                             /\ ups' = [ups EXCEPT !.fd = c, !.dumpdone = FALSE, !.stale = FALSE,
                                                   !.heard = 0, !.info[Status] = Wait]
      BY Zenon, <1>12 DEF UpsdConnects
    <2>2. ups'.fd = c /\ net'[c] = Dialed
      BY <1>0, <2>1 DEF Copies
    <2>3. Dialed.drv # "open"
      BY DEF Dialed
    <2>4. ~Linked'
      BY <2>2, <2>3 DEF Linked
    <2> QED BY <2>4 DEF MirrorInv
  <1>13. CASE UpsdConnectFails \/ UpsdPolled
    <2>1. UNCHANGED <<drv, net, ups>>
      BY <1>13 DEF UpsdConnectFails, UpsdPolled
    <2>2. Linked' => Linked /\ Stream' = Stream
      BY <2>1 DEF Linked, Stream
    <2> QED BY <1>0, <2>1, <2>2, MirrorFrame
  <1>14. CASE UpsdScans \/ Tick \/ UpsdPings
    <2>1. /\ ups'.fd = ups.fd /\ ups'.info = ups.info /\ ups'.dumpdone = ups.dumpdone
          /\ ups'.dataOk = ups.dataOk /\ drv' = drv
      BY Zenon, <1>0, <1>14 DEF UpsdScans, Tick, UpsdPings, Copies
    <2>2. \A k \in Conns : /\ net'[k].drv = net[k].drv /\ net'[k].toUps = net[k].toUps
                           /\ net[k].reset => net'[k].reset
      <3>1. CASE UpsdScans \/ Tick
        BY <3>1 DEF UpsdScans, Tick
      <3>2. CASE UpsdPings /\ net[ups.fd].drv = "none"
        <4>1. net' = [net EXCEPT ![ups.fd].reset = TRUE]
          BY <3>2 DEF UpsdPings
        <4> QED BY <1>0, <4>1 DEF Connections
      <3>3. CASE UpsdPings /\ net[ups.fd].drv # "none"
        <4>1. net' = [net EXCEPT ![ups.fd].toDrv = Append(@, "PING")]
          BY <3>3 DEF UpsdPings
        <4> QED BY <1>0, <4>1 DEF Connections
      <3> QED BY <1>14, <3>1, <3>2, <3>3
    <2>3. Linked' => Linked /\ Stream' = Stream
      BY <1>0, <2>1, <2>2 DEF Linked, Stream, Copies
    <2> QED BY <1>0, <2>1, <2>3, MirrorFrame
  <1>15. CASE UpsdPingFails \/ UpsdGivesUp \/ UpsdHangsUp
    BY <1>0, <1>15, LinkDropped DEF Linked, MirrorInv
  <1> QED BY <1>2, <1>3, <1>5, <1>6, <1>7, <1>8, <1>9, <1>10, <1>11, <1>12, <1>13, <1>14, <1>15,
             MirrorRead, MirrorAccepted, MirrorServed DEF LinkNext, DriverTalks

-----------------------------------------------------------------------------
LEMMA LinkStutters == LinkInv /\ UNCHANGED linkVars => LinkInv'
  <1> SUFFICES ASSUME LinkInv, UNCHANGED linkVars PROVE LinkInv'
    OBVIOUS
  <1>0. drv' = drv /\ net' = net /\ ups' = ups /\ loop' = loop
    BY DEF linkVars
  <1>1. LinkTypeOK'
    BY Zenon, <1>0 DEF LinkInv, LinkTypeOK
  <1>2. ConnInv'
    BY Zenon, <1>0 DEF LinkInv, ConnInv, Unset
  <1>3. HeardWithinMaxAge'
    BY Zenon, <1>0 DEF LinkInv, HeardWithinMaxAge
  <1>4. MirrorInv'
    <2>1. Linked' = Linked /\ Stream' = Stream
      BY Zenon, <1>0 DEF Linked, Stream
    <2>2. Dumped' = Dumped /\ FlagFollows' = FlagFollows
      BY Zenon, <1>0, <2>1 DEF Dumped, FlagFollows
    <2>3. ASSUME NEW v PROVE TreeFollows(v)' = TreeFollows(v) /\ TreeMayLack(v)' = TreeMayLack(v)
      BY Zenon, <1>0, <2>1 DEF TreeFollows, TreeMayLack, Known, Unset
    <2> QED BY Zenon, <2>1, <2>2, <2>3 DEF LinkInv, MirrorInv
  <1> QED BY Zenon, <1>1, <1>2, <1>3, <1>4 DEF LinkInv

LEMMA LinkAlways == LinkSpec => []LinkInv
  <1>1. LinkInv /\ [LinkNext]_linkVars => LinkInv'
    BY LinkTypeStep, ConnStep, MirrorStep, HeardStep, LinkStutters DEF LinkInv
  <1> QED BY LinkInitially, <1>1, PTL DEF LinkSpec

(* When no line is under way the copy that upsd serves is the driver's tree *)
(* and staleness, for any variables, values, connections and buffer sizes:  *)
(* no order of updates, dumps, full buffers, drops and reconnects leaves a  *)
(* stale value behind a finished dump (dstate.c and sstate.c).              *)
THEOREM CopyFollowsDriver == LinkSpec => []LinkSafe
  <1>1. LinkInv => LinkSafe
    <2> SUFFICES ASSUME LinkInv, Linked, ups.dumpdone, Quiet
                 PROVE  /\ ups.dataOk = ~drv.stale
                        /\ \A v \in Vars : \/ ups.info[v] = drv.info[v]
                                           \/ v = Status /\ ups.info[v] = Wait /\ drv.info[v] = Absent
      BY DEF LinkSafe, Mirror, LinkInv
    <2>1. LinkTypeOK /\ MirrorInv /\ ConnInv /\ ups.fd # NoConn
      BY DEF LinkInv, Linked
    <2>2. Stream = <<>>
      BY <2>1, StreamType DEF Quiet, Idle, ConnInv
    <2>3. Dumped
      BY DEF Dumped
    <2>4. FlagFollows /\ \A v \in Vars : TreeFollows(v)
      BY <2>1, <2>3 DEF MirrorInv
    <2>5. ups.dataOk = ~drv.stale
      BY <2>2, <2>4 DEF FlagFollows, Settles
    <2>6. \A v \in Vars : Known(v)
      BY <2>2, <2>4 DEF TreeFollows, Settles
    <2> QED BY <2>5, <2>6 DEF Known, Unset
  <1> QED BY LinkAlways, <1>1, PTL

(* upsd never answers for a driver that it has not heard within MAXAGE      *)
(* (sstate_dead).                                                           *)
THEOREM HungDriverIsNoticed == LinkSpec => []HeardWithinMaxAge
  <1>1. LinkInv => HeardWithinMaxAge
    BY DEF LinkInv
  <1> QED BY LinkAlways, <1>1, PTL
=============================================================================
