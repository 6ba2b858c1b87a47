------------------------------ MODULE ScanSetup -----------------------------
(***************************************************************************)
(* What nut-scanner settles before it scans.                               *)
(*                                                                         *)
(* The addresses it tries: the -s, -e and -m options add ranges to a list, *)
(* "-m auto" adds the subnets of the local interfaces, and the scans then  *)
(* walk the list from address to address.  Model of handle_arg_cidr and    *)
(* the option loop of tools/nut-scanner/nut-scanner.c and of nutscan-ip.c. *)
(* As the code keeps them, an IPv4 address is one number, of V4Bits bits,  *)
(* and an IPv6 address V6Bytes bytes of V6ByteBits bits, most significant  *)
(* first.                                                                  *)
(*                                                                         *)
(* The libraries it loads at run time: nutscan_init looks for each library *)
(* under several names and records in nutscan_avail_<kind> whether its     *)
(* kind of scan is available; nutscan_free unloads them.  Model of         *)
(* nutscan-init.c and of the nutscan_load_ and nutscan_unload_ functions   *)
(* of the scan_ files.                                                     *)
(***************************************************************************)
EXTENDS Integers, Sequences, FiniteSets, SequencesExt

CONSTANTS V4Bits, V6Bytes, V6ByteBits,
          Addresses,     \* the addresses the command line may give
          Cidrs,         \* the address/mask pairs it may give
          AutoModes,     \* the "auto..." arguments it may give
          Interfaces,    \* the addresses of the local interfaces, in order
          TextBefore(_, _), \* strcmp's order of two printed addresses
          MaxRangeOptions   \* bound on the options given

VARIABLES
  given,       \* the -s, -e and -m options so far
  start_ip,    \* the address of an unpaired -s, or NoAddress
  end_ip,      \* the address of an unpaired -e, or NoAddress
  auto_nets,   \* what a first "-m auto" left: 0, 4, 6, 46 or -1
  ranges,      \* ip_ranges_list
  walk,        \* the iterator: the range it is in, its address and its last
  tried        \* the addresses handed to the scans

rangeVars == <<given, start_ip, end_ip, auto_nets, ranges, walk, tried>>

NoAddress == [family |-> 0, ip |-> <<>>]     \* a null pointer
Invalid   == [family |-> -1, ip |-> <<>>]    \* text that is no address

ByteMax == 2^V6ByteBits - 1
V6Bits == V6Bytes * V6ByteBits

\* The number an IPv6 address stands for.
Number(bytes) == FoldLeft(LAMBDA n, b : n * (ByteMax + 1) + b, 0, bytes)

-----------------------------------------------------------------------------
(* nutscan-ip.c *)

\* As increment_IPv6, with the carry lost.
increment_IPv6_NoCarry(bytes) ==
  [bytes EXCEPT ![V6Bytes] = (@ + 1) % (ByteMax + 1)]

\* Bytes are incremented from the last one up to the first that does not
\* wrap to zero.
increment_IPv6(bytes) ==
  LET Wraps(i) == \A j \in i + 1 .. V6Bytes : bytes[j] = ByteMax IN
  [i \in 1 .. V6Bytes |->
     IF Wraps(i) THEN (bytes[i] + 1) % (ByteMax + 1) ELSE bytes[i]]

\* The order of two addresses of one family: IPv6 addresses are compared at
\* the first byte in which they differ.
Exceeds(a, b) ==
  \E i \in DOMAIN a.ip :
    a.ip[i] > b.ip[i] /\ \A j \in 1 .. i - 1 : a.ip[j] = b.ip[j]

Successor(a) ==
  IF a.family = 4
  THEN [a EXCEPT !.ip = <<(@[1] + 1) % 2^V4Bits>>]
  ELSE [a EXCEPT !.ip = increment_IPv6(@)]

\* nutscan_add_ip_range: with one address missing the other is both ends;
\* the ends are put into the order of their texts.
AddRange(list, from, to) ==
  LET a == IF from = NoAddress THEN to ELSE from
      b == IF to = NoAddress THEN from ELSE to
  IN
  IF a = NoAddress THEN list
  ELSE Append(list, IF TextBefore(b, a) THEN <<b, a>> ELSE <<a, b>>)

\* nutscan_ip_iter_init: the family is the first address's; an address that
\* does not resolve in it gives no iterator; the ends are put into order.
NoWalk == [at |-> 0, ip |-> NoAddress, last |-> NoAddress]
IterInit(r, at) ==
  LET a == r[at][1]
      b == r[at][2]
  IN
  IF a = Invalid \/ b.family # a.family THEN [NoWalk EXCEPT !.at = at]
  ELSE IF Exceeds(a, b) THEN [at |-> at, ip |-> b, last |-> a]
       ELSE [at |-> at, ip |-> a, last |-> b]

\* nutscan_cidr_to_ip, for a mask within the address: the bits after the
\* mask are cleared for the first address and set for the last.  For IPv6
\* that is done to the byte the mask ends in and to the bytes after it.
CidrRange(ip, mask) ==
  IF ip = Invalid THEN <<NoAddress, NoAddress>>
  ELSE IF ip.family = 4
  THEN LET hosts == 2^(V4Bits - mask)
           first == ip.ip[1] - (ip.ip[1] % hosts)
       IN <<[ip EXCEPT !.ip = <<first>>], [ip EXCEPT !.ip = <<first + hosts - 1>>]>>
  ELSE LET byte == mask \div V6ByteBits + 1
           bits == 2^(V6ByteBits - (mask % V6ByteBits))
           End(fill, part(_)) ==
             [i \in 1 .. V6Bytes |->
                IF i < byte THEN ip.ip[i]
                ELSE IF i = byte THEN part(ip.ip[i]) ELSE fill]
       IN <<[ip EXCEPT !.ip = End(0, LAMBDA b : b - (b % bits))],
            [ip EXCEPT !.ip = End(ByteMax, LAMBDA b : b - (b % bits) + bits - 1)]>>

-----------------------------------------------------------------------------
(* The options *)

Keep == start_ip' = NoAddress /\ end_ip' = NoAddress

\* -s: an earlier -s is saved with what it was paired with; an earlier
\* unpaired -e makes this one a range.
OptionStart(a) ==
  LET saved == IF start_ip # NoAddress
               THEN AddRange(ranges, start_ip, end_ip) ELSE ranges
      end == IF start_ip # NoAddress THEN NoAddress ELSE end_ip
  IN
  IF end # NoAddress
  THEN ranges' = AddRange(saved, a, end) /\ Keep
  ELSE ranges' = saved /\ start_ip' = a /\ end_ip' = NoAddress

\* -e, likewise.
OptionEnd(a) ==
  LET saved == IF end_ip # NoAddress
               THEN AddRange(ranges, start_ip, end_ip) ELSE ranges
      start == IF end_ip # NoAddress THEN NoAddress ELSE start_ip
  IN
  IF start # NoAddress
  THEN ranges' = AddRange(saved, start, a) /\ Keep
  ELSE ranges' = saved /\ end_ip' = a /\ start_ip' = NoAddress

\* An interface's subnet is scanned if it is of a family asked for, has an
\* address, has no more host bits than the limit, is not the loopback and
\* is up.
AutoWanted(mode, i) ==
  /\ mode.nets = 46 \/ mode.nets = i.address.family
  /\ i.named
  /\ (IF i.address.family = 4 THEN V4Bits ELSE V6Bits) - i.mask <= mode.limit
  /\ ~i.loopback
  /\ i.up

AutoRanges(list, mode) ==
  LET Add(l, i) ==
        LET r == CidrRange(i.address, i.mask) IN AddRange(l, r[1], r[2])
  IN FoldLeft(Add, list, SelectSeq(Interfaces, LAMBDA i : AutoWanted(mode, i)))

\* -m: an unpaired -s or -e is saved first.  Only the first "auto" counts,
\* even one with an unknown keyword, which is then taken for an address and
\* is none.
OptionCidr(c) ==
  LET saved == AddRange(ranges, start_ip, end_ip)
      r == CidrRange(c.address, c.mask)
  IN
  /\ ranges' = AddRange(saved, r[1], r[2])
  /\ Keep /\ UNCHANGED auto_nets

OptionAuto(mode) ==
  LET saved == AddRange(ranges, start_ip, end_ip) IN
  /\ ranges' = IF auto_nets = 0 /\ mode.nets > 0
               THEN AutoRanges(saved, mode) ELSE saved
  /\ auto_nets' = IF auto_nets = 0 THEN mode.nets ELSE auto_nets
  /\ Keep

RangeOption ==
  /\ Len(given) < MaxRangeOptions /\ walk = NoWalk /\ tried = <<>>
  /\ \/ \E a \in Addresses :
          /\ given' = Append(given, [opt |-> "s", address |-> a])
          /\ OptionStart(a) /\ UNCHANGED auto_nets
     \/ \E a \in Addresses :
          /\ given' = Append(given, [opt |-> "e", address |-> a])
          /\ OptionEnd(a) /\ UNCHANGED auto_nets
     \/ \E c \in Cidrs :
          /\ given' = Append(given, [opt |-> "m"] @@ c)
          /\ OptionCidr(c)
     \/ \E mode \in AutoModes :
          /\ given' = Append(given, [opt |-> "auto"] @@ mode)
          /\ OptionAuto(mode)
  /\ UNCHANGED <<walk, tried>>

\* main saves what is left unpaired and a scan starts to walk the list.
WalkBegins ==
  LET all == AddRange(ranges, start_ip, end_ip)
      w == IF all = <<>> THEN NoWalk ELSE IterInit(all, 1)
  IN
  /\ walk = NoWalk /\ tried = <<>>
  /\ all # <<>>
  /\ ranges' = all /\ Keep
  /\ walk' = w
  /\ tried' = IF w.ip = NoAddress THEN <<>> ELSE <<w.ip>>
  /\ UNCHANGED <<given, auto_nets>>

\* nutscan_ip_ranges_iter_inc: the next address of the range, or the first
\* of the next range.
NextWalk ==
  IF walk.ip # walk.last
  THEN [walk EXCEPT !.ip = Successor(@)]
  ELSE IF walk.at < Len(ranges) THEN IterInit(ranges, walk.at + 1) ELSE NoWalk

WalkGoesOn ==
  /\ walk.ip # NoAddress
  /\ walk' = NextWalk
  /\ tried' = IF walk'.ip = NoAddress THEN tried ELSE Append(tried, walk'.ip)
  /\ UNCHANGED <<given, start_ip, end_ip, auto_nets, ranges>>

RangesInit ==
  /\ given = <<>>
  /\ start_ip = NoAddress /\ end_ip = NoAddress
  /\ auto_nets = 0
  /\ ranges = <<>>
  /\ walk = NoWalk
  /\ tried = <<>>

RangesNext == RangeOption \/ WalkBegins \/ WalkGoesOn

-----------------------------------------------------------------------------
(* Properties *)

ValueOf(a) == IF a.family = 4 THEN a.ip[1] ELSE Number(a.ip)

\* All addresses between two, in either order.
Between(a, b) ==
  LET lo == IF ValueOf(a) <= ValueOf(b) THEN ValueOf(a) ELSE ValueOf(b)
      hi == IF ValueOf(a) <= ValueOf(b) THEN ValueOf(b) ELSE ValueOf(a)
  IN {<<a.family, n>> : n \in lo .. hi}

Good(r) == r[1] # Invalid /\ r[1].family = r[2].family

\* The walk hands out the addresses of the ranges one after the other, each
\* once and in increasing order, and stops at the end of the last one, or
\* before the first range with an address that cannot be resolved
\* (nutscan_ip_ranges_iter_init, nutscan_ip_ranges_iter_inc).
WalkIsExact ==
  LET bad == {i \in DOMAIN ranges : ~Good(ranges[i])}
      upto == IF bad = {} THEN Len(ranges) ELSE (CHOOSE i \in bad : \A j \in bad : i <= j) - 1
      Count(i) == Cardinality(Between(ranges[i][1], ranges[i][2]))
      Total == FoldLeft(LAMBDA n, i : n + Count(i), 0, [i \in 1 .. upto |-> i])
      over == tried # <<>> /\ walk.ip = NoAddress
  IN
  /\ over => Len(tried) = Total
  /\ Len(tried) <= Total
  /\ \A i \in 1 .. upto :
       LET first == 1 + FoldLeft(LAMBDA n, j : n + Count(j), 0, [j \in 1 .. i - 1 |-> j])
           part == SubSeq(tried, first, IF Len(tried) < first + Count(i) - 1
                                        THEN Len(tried) ELSE first + Count(i) - 1)
       IN /\ {<<a.family, ValueOf(a)>> : a \in Range(part)}
                \subseteq Between(ranges[i][1], ranges[i][2])
          /\ \A x, y \in DOMAIN part : x < y => ValueOf(part[x]) < ValueOf(part[y])

\* Every address, mask and interface the options name is covered by a range
\* of the list once the walk begins: an address given by -s or -e alone by a
\* range of its own, and a mask by exactly the addresses that agree with it
\* on the masked bits (the option loop of main, handle_arg_cidr,
\* nutscan_cidr_to_ip).
OptionsCovered ==
  LET Bits(a) == IF a.family = 4 THEN V4Bits ELSE V6Bits
      Net(a, mask) == {<<a.family, n>> : n \in {x \in 0 .. 2^Bits(a) - 1 :
                         x \div 2^(Bits(a) - mask) = ValueOf(a) \div 2^(Bits(a) - mask)}}
      paired == start_ip = NoAddress /\ end_ip = NoAddress
  IN
  tried # <<>> \/ walk # NoWalk =>
    /\ paired
    /\ \A o \in Range(given) :
         /\ o.opt \in {"s", "e"} /\ o.address # Invalid =>
              (\E r \in Range(ranges) : o.address \in {r[1], r[2]})
         /\ o.opt = "m" /\ o.address # Invalid =>
              (\E r \in Range(ranges) :
                 Good(r) /\ Between(r[1], r[2]) = Net(o.address, o.mask))

\* "-m auto" never adds more addresses of an interface than the limit's host
\* bits allow, and adds every subnet it should (the filters of
\* handle_arg_cidr).
AutoWithinLimit ==
  \A n \in DOMAIN given :
    /\ given[n].opt = "auto" /\ given[n].nets > 0
    /\ \A m \in 1 .. n - 1 : given[m].opt # "auto"
    => LET Size(i) == 2^((IF i.address.family = 4 THEN V4Bits ELSE V6Bits) - i.mask)
           Added(i) == \E r \in Range(ranges) :
                         /\ Good(r) /\ r[1].family = i.address.family
                         /\ <<i.address.family, ValueOf(i.address)>>
                              \in Between(r[1], r[2])
                         /\ Cardinality(Between(r[1], r[2])) = Size(i)
       IN /\ \A i \in Range(Interfaces) :
               /\ i.named /\ i.up /\ ~i.loopback
               /\ given[n].nets \in {46, i.address.family}
               /\ Size(i) <= 2^(given[n].limit)
               => Added(i)
          /\ \A i \in Range(Interfaces) :
               /\ Size(i) > 2^(given[n].limit)
               /\ \A o \in Range(given) : o.opt = "auto"
               => ~Added(i)

RangesSafe == WalkIsExact /\ OptionsCovered /\ AutoWithinLimit

-----------------------------------------------------------------------------
(* The libraries *)

CONSTANTS NamesOf,       \* library -> the names it is looked for under, in order
          Systems,       \* what may be installed: library -> name ->
                         \*   [resolves, opens], whether get_libname finds the
                         \*   name and what opening it gives: "nothing", a
                         \*   library "lacking" symbols the scan needs, an
                         \*   "old" one without an optional symbol, or "whole"
          MaxInits       \* bound on the calls of nutscan_init

VARIABLES
  installed,   \* what is installed now
  handle,      \* library -> dl_handle: "null", "failed" (the value 1) or the
               \*   name it was opened under
  avail,       \* library -> its nutscan_avail_ flag
  dlinits,     \* the calls of lt_dlinit that lt_dlexit has not undone
  loading,     \* the libraries nutscan_init has still to deal with
  inits        \* calls of nutscan_init so far

libVars == <<installed, handle, avail, dlinits, loading, inits>>

\* The order nutscan_init loads them in; "neon" serves the xml scans and
\* "upsclient" the nut scans.
LoadOrder == <<"usb", "snmp", "neon", "avahi", "freeipmi", "upsclient">>
Libraries == {LoadOrder[i] : i \in DOMAIN LoadOrder}
Loaded(l) == handle[l] \notin {"null", "failed"}

-----------------------------------------------------------------------------
(* The nutscan_load_<l>_library functions *)

\* A library that is loaded, or that failed to load before, is not tried
\* again.  One that cannot be opened or lacks a symbol is marked as failed,
\* and lt_dlexit undoes the lt_dlinit.  r is what the call before left.
OpenLibrary(r, l, name, enough, dlWorks) ==
  IF r.handle # "null" THEN [r EXCEPT !.ok = r.handle # "failed"]
  ELSE IF ~dlWorks THEN [r EXCEPT !.ok = FALSE]
  ELSE IF installed[l][name].opens \in enough
       THEN [handle |-> name, ok |-> TRUE, dl |-> r.dl + 1]
       ELSE [handle |-> "failed", ok |-> FALSE, dl |-> r.dl]

\* libusb may lack the functions for the port number and for strings.
nutscan_load_usb_library(r, name, dl) == OpenLibrary(r, "usb", name, {"whole", "old"}, dl)
nutscan_load_snmp_library(r, name, dl) == OpenLibrary(r, "snmp", name, {"whole"}, dl)
nutscan_load_neon_library(r, name, dl) == OpenLibrary(r, "neon", name, {"whole"}, dl)
nutscan_load_avahi_library(r, name, dl) == OpenLibrary(r, "avahi", name, {"whole"}, dl)
nutscan_load_ipmi_library(r, name, dl) == OpenLibrary(r, "freeipmi", name, {"whole"}, dl)
nutscan_load_upsclient_library(r, name, dl) == OpenLibrary(r, "upsclient", name, {"whole"}, dl)

LoadOf(l, r, name, dl) ==
  CASE l = "usb" -> nutscan_load_usb_library(r, name, dl)
    [] l = "snmp" -> nutscan_load_snmp_library(r, name, dl)
    [] l = "neon" -> nutscan_load_neon_library(r, name, dl)
    [] l = "avahi" -> nutscan_load_avahi_library(r, name, dl)
    [] l = "freeipmi" -> nutscan_load_ipmi_library(r, name, dl)
    [] l = "upsclient" -> nutscan_load_upsclient_library(r, name, dl)

Before(l) == [handle |-> handle[l], ok |-> avail[l], dl |-> dlinits]

\* The names get_libname finds; the first of them is loaded.
Resolving(l) == SelectSeq(NamesOf[l], LAMBDA n : installed[l][n].resolves)

\* Without one, the names are loaded in turn until one succeeds.
InTurn(l, dl) ==
  LET after[i \in 0 .. Len(NamesOf[l])] ==
        IF i = 0 THEN Before(l)
        ELSE IF after[i - 1].ok THEN after[i - 1]
        ELSE LoadOf(l, after[i - 1], NamesOf[l][i], dl)
  IN after[Len(NamesOf[l])]

-----------------------------------------------------------------------------
(* nutscan_init, library by library *)

\* The flag and the handle of l are set to what the load returned.
Settles(l, dl) ==
  LET r == IF Resolving(l) # <<>> THEN LoadOf(l, Before(l), Resolving(l)[1], dl)
                            ELSE InTurn(l, dl) IN
  /\ loading # <<>> /\ Head(loading) = l
  /\ handle' = [handle EXCEPT ![l] = r.handle]
  /\ avail' = [avail EXCEPT ![l] = r.ok]
  /\ dlinits' = r.dl

LoadsUsb(dl) == Settles("usb", dl)
LoadsSnmp(dl) == Settles("snmp", dl)
LoadsNeon(dl) == Settles("neon", dl)
LoadsAvahi(dl) == Settles("avahi", dl)
LoadsIpmi(dl) == Settles("freeipmi", dl)

\* libupsclient, with the names SOFILE, plain and SOPATH: if none is found,
\* the results of the first and the last go into the flag of the xml scans,
\* and the plain name is loaded whatever the first one gave.
LoadsUpsclient(dl) ==
  LET l == "upsclient"
      Load(r, n) == nutscan_load_upsclient_library(r, n, dl)
      found == Load(Before(l), Resolving(l)[1])
      sofile == IF avail[l] THEN Before(l) ELSE Load(Before(l), NamesOf[l][1])
      plain == Load(sofile, NamesOf[l][2])
      sopath == IF plain.ok THEN plain ELSE Load(plain, NamesOf[l][3])
  IN
  /\ loading = <<l>>
  /\ IF Resolving(l) # <<>>
     THEN /\ handle' = [handle EXCEPT ![l] = found.handle]
          /\ avail' = [avail EXCEPT ![l] = found.ok]
          /\ dlinits' = found.dl
     ELSE /\ handle' = [handle EXCEPT ![l] = sopath.handle]
          /\ avail' = [avail EXCEPT ![l] = plain.ok,
                                    !["neon"] = IF ~plain.ok THEN sopath.ok
                                                ELSE IF ~avail[l] THEN sofile.ok ELSE @]
          /\ dlinits' = sopath.dl

LibraryLoads ==
  \E dl \in BOOLEAN :
    /\ \/ LoadsUsb(dl) \/ LoadsSnmp(dl) \/ LoadsNeon(dl)
       \/ LoadsAvahi(dl) \/ LoadsIpmi(dl) \/ LoadsUpsclient(dl)
    /\ loading' = Tail(loading)
    /\ UNCHANGED <<installed, inits>>

\* nutscan_init is called, perhaps again.
InitCalled ==
  /\ loading = <<>> /\ inits < MaxInits
  /\ loading' = LoadOrder
  /\ inits' = inits + 1
  /\ UNCHANGED <<installed, handle, avail, dlinits>>

\* nutscan_unload_library: loaded or not, and whatever the flag says, the
\* library may be tried again.
Unloaded == [l \in Libraries |-> "null"]

\* nutscan_free: each library that was loaded is closed, with an lt_dlexit.
\* Before nutscan_init is called again, what is installed may change.
Frees ==
  /\ loading = <<>> /\ inits > 0
  /\ handle' = Unloaded
  /\ avail' = [l \in Libraries |-> FALSE]
  /\ dlinits' = dlinits - Cardinality({l \in Libraries : Loaded(l)})
  /\ installed' \in IF inits < MaxInits THEN Systems ELSE {installed}
  /\ UNCHANGED <<loading, inits>>

LibsInit ==
  /\ installed \in Systems
  /\ handle = [l \in Libraries |-> "null"]
  /\ avail = [l \in Libraries |-> FALSE]
  /\ dlinits = 0
  /\ loading = <<>>
  /\ inits = 0

LibsNext == LibraryLoads \/ InitCalled \/ Frees

-----------------------------------------------------------------------------
(* Properties *)

\* lt_dlinit and lt_dlexit are balanced over every mix of loads, failed
\* loads and unloads: the count is that of the loaded libraries, so lt_dlexit
\* never closes a library another scan still uses (the err: labels of the
\* nutscan_load_ functions, nutscan_unload_library).
DlinitBalanced == dlinits = Cardinality({l \in Libraries : Loaded(l)})

\* Whenever nutscan_init has returned, the flag of a kind says whether its
\* library is loaded, and that is whether the first name tried has a usable
\* library: a failure before the last nutscan_free does not count.  The flag
\* of the xml scans is left out where the names of libupsclient do not
\* resolve, for nutscan_init then overwrites it.
AvailAsInstalled ==
  \A l \in Libraries :
    /\ loading = <<>> /\ handle[l] # "null"
    /\ l = "neon" => Resolving("upsclient") # <<>>
    => LET first == IF Resolving(l) # <<>> THEN Resolving(l)[1] ELSE NamesOf[l][1]
           opens == installed[l][first].opens
       IN /\ avail[l] = Loaded(l)
          /\ avail[l] = (opens = "whole" \/ (l = "usb" /\ opens = "old"))

LibsSafe == DlinitBalanced /\ AvailAsInstalled
=============================================================================
