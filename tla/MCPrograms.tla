------------------------------ MODULE MCPrograms ------------------------------
(***************************************************************************)
(* Programs and their inputs, one at a time: the pieces of the driver      *)
(* program (MCDriver), the start of upsd from its configuration            *)
(* (UpsdStart), the report descriptor and the reports of a UPS (HidParse,  *)
(* HidReports), and nut-scanner: its libraries, the addresses it tries,    *)
(* its threads, its probes and its lists (the Scan modules).  They share   *)
(* no state: which is chosen at the start, and the others stay in one      *)
(* initial state.                                                          *)
(***************************************************************************)
EXTENDS MCDriver, UpsdStart, HidParse, HidReports, ScanPool, ScanProbes, ScanSetup

(* upsd.conf, and a system where an address and its wildcard exclude each  *)
(* other, with IPV6_V6ONLY set                                             *)
MCHostNames == {"localhost", "127.0.0.1", "::1", "::0", "0.0.0.0", "lan"}
MCResolved ==
    [af \in {"any", "v4", "v6"} |-> [n \in MCHostNames |->
        CASE n = "localhost" -> IF af = "any" THEN <<"::1", "127.0.0.1">>
                                ELSE IF af = "v4" THEN <<"127.0.0.1">> ELSE <<"::1">>
          [] n \in {"::1", "::0"} -> IF af = "v4" THEN << >> ELSE <<n>>
          [] OTHER -> IF af = "v6" THEN << >> ELSE <<n>>]]
MCClash ==
    LET Under == {<<"0.0.0.0", "127.0.0.1">>, <<"0.0.0.0", "lan">>, <<"::0", "::1">>} IN
    {<<n, n>> : n \in MCHostNames \ {"localhost"}} \cup Under \cup {<<u[2], u[1]>> : u \in Under}
MCListenFiles ==
    {<< >>, <<"*">>, <<"*", "lan">>, <<"lan", "*">>, <<"lan", "localhost">>,
     <<"localhost", "127.0.0.1", "lan">>}

(* Descriptors: what they begin with, and the items that follow *)
It(k, v, b) == [kind |-> k, value |-> v, bytes |-> b]
MCItems ==
    {It("usage", 1, 1), It("usage", 133 * 65536 + 2, 4), It("upage", 132, 1),
     It("collection", 0, 1), It("collection", 129, 1), It("end", 0, 0), It("id", 2, 1),
     It("size", 3, 1), It("count", 0, 1), It("count", 3, 1), It("logmin", 200, 1),
     It("logmax", 255, 1), It("feature", 2, 1), It("input", 2, 1), It("cut", 0, 1)}
Base == <<It("upage", 131, 1), It("id", 1, 1), It("size", 4, 1), It("count", 2, 1)>>
InOne == <<It("usage", 4, 1), It("collection", 0, 1)>>
MCPreludes ==
    {Base, Base \o InOne \o <<It("usage", 5, 1)>>,
     Base \o InOne \o <<It("usage", 3, 1), It("collection", 129, 1), It("usage", 5, 1), It("logmin", 200, 1)>>}

(* A report of two bytes of two bits, with one field of each sign *)
Field(o, lo, hi) == [id |-> 1, off |-> o, size |-> 2, min |-> lo, max |-> hi, cst |-> FALSE]
MCFields == {Field(0, 0, 2), Field(2, -1, 1)}
MCReportLen == <<2>>
MCWantedValues == {-1, 5}
MCPictures == <<{<<0, 1, 1, 0>>, <<1, 0, 1, 1>>}>>

(* nut-scanner: hosts and permits *)
ScanKinds == {"usb", "snmp", "xml", "nut", "sim", "avahi", "ipmi", "serial"}
MCRequests == {{"usb", "xml", "nut"}, {"snmp", "avahi", "ipmi", "serial"}}
MCTargets ==
    [k \in ScanKinds |-> CASE k = "nut" -> <<1, 1, 0>> [] k = "xml" -> <<1, 0>>
                           [] k = "snmp" -> <<2, 1>> [] k = "serial" -> <<1>> [] OTHER -> << >>]
MCOwn == [k \in ScanKinds |-> CASE k = "nut" -> 2 [] k = "xml" -> 1 [] OTHER -> 0]

(* nut-scanner: addresses.  The order of their texts is not the numeric     *)
(* one: 5 comes before 2, and IPv6 texts come before IPv4 ones.             *)
V4(n) == [family |-> 4, ip |-> <<n>>]
V6(x, y) == [family |-> 6, ip |-> <<x, y>>]
MCAddresses == {V4(2), V4(5), V6(0, 3), V6(1, 1), Invalid}
MCCidrs ==
    {[address |-> V4(5), mask |-> 1], [address |-> V4(5), mask |-> 3],
     [address |-> V6(1, 1), mask |-> 3], [address |-> V6(1, 1), mask |-> 1]}
MCAutoModes == {[nets |-> 46, limit |-> 1], [nets |-> 4, limit |-> 2], [nets |-> -1, limit |-> 2]}
Interface(x, m, up, lo) == [address |-> x, mask |-> m, up |-> up, loopback |-> lo, named |-> TRUE]
MCInterfaces ==
    <<Interface(V4(1), 3, TRUE, TRUE), Interface(V4(6), 1, TRUE, FALSE),
      Interface(V6(2, 1), 3, TRUE, FALSE), Interface(V4(3), 2, FALSE, FALSE)>>
MCTextBefore(x, y) ==
    x # y /\ IF x.family = y.family THEN x.ip \in {<<5>>, <<1, 1>>} ELSE x.family > y.family

(* nut-scanner: libraries, alike but for one or two *)
Has(r, o) == [resolves |-> r, opens |-> o]
MCNamesOf ==
    [l \in Libraries |-> IF l = "upsclient" THEN <<"sofile", "plain", "sopath">> ELSE <<"sofile", "plain">>]
Alike ==
    {[n \in {"sofile", "plain", "sopath"} |-> IF n = "plain" THEN x ELSE y] :
       x \in {Has(TRUE, "whole"), Has(FALSE, "whole"), Has(TRUE, "lacking")},
       y \in {Has(FALSE, "nothing"), Has(TRUE, "old"), Has(FALSE, "whole")}}
MCSystems ==
    {[l \in Libraries |-> IF l \in odd THEN y ELSE x] :
       x \in Alike, y \in Alike, odd \in {{"usb", "neon", "upsclient"}}}

(* nut-scanner: what answers the probes *)
MCServices == [listed : {0, 1, 2}, found : {0, 1, 2}]
MCXmlHosts == [a |-> "ups", b |-> "pdu"]
Mib(m, s, o) == [mib |-> m, sysoid |-> s, oid |-> o]
MCSnmpTable ==
    <<Mib("m1", "s1", "o1"), Mib("m1", "s1", Null), Mib("m2", "s2", "o2"), Mib("m3", Null, "o3"),
      Mib("m2", "s3", "o2")>>
MCSnmpAgents == [sysoid : {"s1", "s2", "s4"}, answers : {{}, {"o1"}, {"o2", "o3"}}]
NoSettings ==
    [community |-> Null, secLevel |-> Null, secName |-> Null, authPassword |-> Null,
     privPassword |-> Null, authProtocol |-> Null, privProtocol |-> Null]
MCSnmpSettings ==
    {NoSettings, [NoSettings EXCEPT !.community = "private"], [NoSettings EXCEPT !.community = ""]}
      \cup [community : {Null}, secLevel : {"noAuthNoPriv", "authPriv", "authNoPriv", "odd"},
            secName : {Null, "n"}, authPassword : {Null, "long", "short"},
            privPassword : {Null, "secret"}, authProtocol : {Null, "SHA", "bad"},
            privProtocol : {Null, "AES"}]
OnPort(s, r, x) == [speaks |-> s, rate |-> r, needsAuth |-> x]
MCPortUnits ==
    LET Units == {OnPort("shut", 1, FALSE), OnPort("xcp", 1, TRUE), OnPort("xcp", 2, TRUE),
                  OnPort("q1", 1, FALSE), OnPort(Null, 1, FALSE)}
    IN {[p1 |-> x, p2 |-> y] : x \in Units, y \in Units}
OnUsb(d, o, s, v) == [driver |-> d, opens |-> o, serial |-> s, product |-> "p", vendor |-> v]
MCUsbTrees ==
    LET Attached == {OnUsb("usbhid-ups", TRUE, "n1", Null), OnUsb("usbhid-ups", TRUE, Null, "v"),
                  OnUsb(Null, TRUE, "n2", "v"), OnUsb("x", FALSE, "n1", "v"), OnUsb("x", TRUE, "n2", "v")}
    IN {<<x, y, z>> : x \in Attached, y \in Attached, z \in Attached}

programsVars ==
    <<which, driverVars, upsdStartVars, hidParseVars, hidReportVars, poolVars, probeVars, listVars,
      rangeVars, libVars>>

Parts ==
    DriverParts \cup {"upsd", "descriptor", "reports", "pool", "xml", "snmp", "serial", "usb", "lists",
                     "ranges", "libs"}

(* One initial state of every part that is not chosen.  upsd's options are *)
(* varied one family of addresses at a time.                               *)
ProgramsInit ==
    /\ which \in Parts
    /\ which # "upsd" => options = (CHOOSE o \in Options : TRUE) /\ pid_file = "none"
    /\ UpsdStartInit
    /\ options.af # "any" => options.envAll = "unset" /\ options.envDevice = "unset" /\ options.foreground = 0
    /\ which # "descriptor" => desc = Base
    /\ HidParseInit
    /\ which # "reports" => unit = <<<<0, 1, 1, 0>>>>
    /\ HidReportsInit
    /\ PoolInit /\ (which # "pool" => main.asked = {"usb", "xml", "nut"})
    /\ XmlInit /\ (which # "xml" => ~xml.unicast)
    /\ IF which = "snmp" THEN SnmpInit ELSE snmp = SnmpStart([sysoid |-> "s1", answers |-> {}], NoSettings)
    /\ SerialInit /\ (which # "serial" => \A p \in DOMAIN ports : ports[p].unit.speaks = Null)
    /\ UsbInit /\ (which # "usb" => \A i \in DOMAIN usb.tree : usb.tree[i].driver = Null)
    /\ ProbesIdle
    /\ ListsInit /\ (which # "lists" => scans.nut = "off" /\ scans.avahi = "off")
    /\ RangesInit
    /\ which # "libs" => installed = CHOOSE x \in MCSystems : TRUE
    /\ LibsInit
    /\ PiecesInit

ProbesOf(p) ==
    \/ p = "xml" /\ XmlNext
    \/ p = "snmp" /\ SnmpNext
    \/ p = "serial" /\ SerialNext
    \/ p = "usb" /\ UsbNext

scannerVars == <<poolVars, probeVars, listVars, rangeVars, libVars>>
inputVars == <<driverVars, upsdStartVars, hidParseVars, hidReportVars>>

ProgramsNext ==
    \/ DriverNext /\ UNCHANGED <<upsdStartVars, hidParseVars, hidReportVars, scannerVars>>
    \/ /\ which = "upsd" /\ UpsdStartNext
       /\ UNCHANGED <<which, driverVars, hidParseVars, hidReportVars, scannerVars>>
    \/ /\ which = "descriptor" /\ HidParseNext
       /\ UNCHANGED <<which, driverVars, upsdStartVars, hidReportVars, scannerVars>>
    \/ /\ which = "reports" /\ HidReportsNext
       /\ UNCHANGED <<which, driverVars, upsdStartVars, hidParseVars, scannerVars>>
    \/ /\ which = "pool" /\ PoolNext
       /\ UNCHANGED <<which, inputVars, probeVars, listVars, rangeVars, libVars>>
    \/ /\ ProbesOf(which)
       /\ UNCHANGED <<which, inputVars, poolVars, listVars, rangeVars, libVars>>
    \/ /\ which = "lists" /\ ListsNext
       /\ UNCHANGED <<which, inputVars, poolVars, probeVars, rangeVars, libVars>>
    \/ /\ which = "ranges" /\ RangesNext
       /\ UNCHANGED <<which, inputVars, poolVars, probeVars, listVars, libVars>>
    \/ /\ which = "libs" /\ LibsNext
       /\ UNCHANGED <<which, inputVars, poolVars, probeVars, listVars, rangeVars>>

ProgramsSpec == ProgramsInit /\ [][ProgramsNext]_programsVars

-----------------------------------------------------------------------------
(* Properties *)

\* What a UPS describes and reports is understood as it is meant
\* (HIDParse of hidparser.c, refresh_report_buffer of libhid.c): the two
\* properties of HidParse and HidReports.
HidInputSafe ==
    /\ which = "descriptor" => HidParseSafe
    /\ which = "reports" => HidReportsSafe

\* nut-scanner tries the addresses it was given, with no more threads than
\* it may, never gets stuck, takes every answer for what it is, lists each
\* device once, frees each once and unloads the libraries it loaded: the
\* properties of the Scan modules.
ScannerSafe ==
    /\ which = "pool" => PoolSafe /\ NeverStuck
    /\ which = "xml" => XmlSafe
    /\ which = "snmp" => SnmpSafe
    /\ which = "serial" => SerialSafe
    /\ which = "usb" => UsbSafe
    /\ which = "lists" => ListsSafe
    /\ which = "ranges" => RangesSafe
    /\ which = "libs" => LibsSafe

=============================================================================
