----------------------------- MODULE ScanProbes -----------------------------
(***************************************************************************)
(* How nut-scanner probes: an XML request over UDP, an SNMP agent, a pair  *)
(* of serial ports and the devices on the USB.  Model of the workers of    *)
(* tools/nut-scanner/scan_xml_http.c, scan_snmp.c and scan_eaton_serial.c, *)
(* of scan_usb.c and of the check of serial numbers in nutscan-display.c.  *)
(* The loops that start the workers are ScanPool's.                        *)
(***************************************************************************)
EXTENDS Naturals, Sequences, FiniteSets, SequencesExt

CONSTANTS XmlHosts,      \* host -> "ups", or "pdu" for one netxml-ups cannot use
          SnmpTable,     \* snmp_device_table: [mib, sysoid, oid], Null for NULL
          SnmpAgents,    \* the agents: [sysoid, answers], the oids it answers
          SnmpSettings,  \* the settings nut-scanner may be given
          PortUnits,     \* what may be attached to the serial ports:
                         \*   port -> [speaks, rate, needsAuth]
          Rates,         \* how many rates of pw_baud_rates are tried
          UsbTrees,      \* what may be on the USB: sequences of
                         \*   [driver, opens, serial, product, vendor]
          MaxLosses      \* bound on lost answers and failed calls

VARIABLES
  xml,         \* the XML worker
  asked,       \* requests that reached a host it has not answered
  arrived,     \* answers at the socket, not read
  snmp,        \* the SNMP worker
  ports,       \* port -> its worker
  fds,         \* descriptor -> the port it is open on, or Null
  upsfd,       \* the global descriptor AUTH is sent to
  authed,      \* the ports whose unit received AUTH at its rate
  disturbed,   \* the ports whose XCP probe another one overlapped
  usb,         \* the USB scan
  devices,     \* the devices found
  losses       \* lost answers and failed calls so far

xmlVars == <<xml, asked, arrived>>
serialVars == <<ports, fds, upsfd, authed, disturbed>>
probeVars == <<xmlVars, snmp, serialVars, usb, devices, losses>>

Null == "null"

\* Something fails that may fail.
Lose == losses < MaxLosses /\ losses' = losses + 1

-----------------------------------------------------------------------------
(* scan_xml_http.c: nutscan_scan_xml_http_thready *)

MaxRetries == 3

\* The request is sent, to one host or to all; it may not reach some.  When
\* sending fails the worker sleeps, which costs a round; without a socket it
\* ends at once.
XmlSends ==
  /\ xml.at = "sends"
  /\ \/ \E reached \in SUBSET xml.hosts :
          /\ asked' = asked \cup {[host |-> h, round |-> xml.round] : h \in reached}
          /\ xml' = [xml EXCEPT !.at = "listens"]
          /\ UNCHANGED losses
     \/ /\ Lose
        /\ xml' = [xml EXCEPT !.round = @ + 1,
                              !.at = IF xml.round + 1 = MaxRetries THEN "ended" ELSE @]
        /\ UNCHANGED asked
     \/ /\ Lose /\ xml.round = 0
        /\ xml' = [xml EXCEPT !.at = "ended"]
        /\ UNCHANGED asked
  /\ UNCHANGED <<arrived, devices>>

\* A host answers, perhaps long after the round it was asked in.
XmlHostAnswers ==
  /\ xml.at # "ended"
  /\ \E a \in asked : asked' = asked \ {a} /\ arrived' = arrived \cup {a}
  /\ UNCHANGED <<xml, devices, losses>>

\* startelm_cb, over the answer: the device is compatible.
Compatible(a) == XmlHosts[a.host] = "ups"

\* An answer is read.  For a single host the first one decides; otherwise
\* the worker goes on listening.  An address that cannot be converted loses
\* the answer, and a failed allocation ends the worker.
XmlReads ==
  /\ xml.at = "listens"
  /\ \E a \in arrived :
       /\ arrived' = arrived \ {a}
       /\ \/ /\ devices' = IF Compatible(a) THEN Append(devices, a) ELSE devices
             /\ xml' = [xml EXCEPT !.at = IF xml.unicast THEN "ended" ELSE @]
             /\ UNCHANGED losses
          \/ Lose /\ UNCHANGED <<xml, devices>>
          \/ Lose /\ xml' = [xml EXCEPT !.at = "ended"] /\ UNCHANGED devices
  /\ UNCHANGED asked

\* Nothing more arrives in time, or waiting fails: a broadcast that found
\* something is over, else the request is sent again, MaxRetries times in all.
XmlRoundEnds ==
  /\ xml.at = "listens"
  /\ (arrived = {} /\ UNCHANGED losses) \/ Lose
  /\ xml' = IF ~xml.unicast /\ devices # <<>>
            THEN [xml EXCEPT !.at = "ended"]
            ELSE [xml EXCEPT !.round = @ + 1,
                             !.at = IF xml.round + 1 = MaxRetries THEN "ended" ELSE "sends"]
  /\ UNCHANGED <<asked, arrived, devices>>

XmlInit ==
  /\ \E unicast \in BOOLEAN : \E hosts \in SUBSET DOMAIN XmlHosts :
       /\ unicast => Cardinality(hosts) = 1
       /\ ~unicast => hosts = DOMAIN XmlHosts
       /\ xml = [at |-> "sends", round |-> 0, unicast |-> unicast, hosts |-> hosts]

XmlNext ==
  /\ XmlSends \/ XmlHostAnswers \/ XmlReads \/ XmlRoundEnds
  /\ UNCHANGED <<snmp, serialVars, usb>>

-----------------------------------------------------------------------------
(* scan_snmp.c: try_SysOID_thready *)

SecLevels == {"noAuthNoPriv", "authNoPriv", "authPriv"}

\* generate_Ku makes a key of a pass phrase that is long enough.
Key(protocol, password) ==
  IF password = "short" THEN <<>> ELSE <<protocol, password>>

Default(given, default) == IF given = Null THEN default ELSE given

\* init_session: version 1 unless only a security level is given.  What the
\* level does not need is not looked at.
NoSession == [version |-> 0]
init_session(sec) ==
  LET auth == Key(Default(sec.authProtocol, "MD5"), sec.authPassword)
      priv == Key(Default(sec.authProtocol, "MD5"), sec.privPassword)
      badAuth == sec.authPassword = Null \/ sec.authProtocol = "bad" \/ auth = <<>>
      badPriv == sec.privPassword = Null \/ sec.privProtocol = "bad" \/ priv = <<>>
      v3 == [version |-> 3, level |-> sec.secLevel, name |-> sec.secName]
  IN
  IF sec.community # Null \/ sec.secLevel = Null
  THEN [version |-> 1, community |-> Default(sec.community, "public")]
  ELSE IF sec.secLevel \notin SecLevels \/ sec.secName = Null THEN NoSession
  ELSE IF sec.secLevel = "noAuthNoPriv" THEN v3
  ELSE IF badAuth THEN NoSession
  ELSE IF sec.secLevel = "authNoPriv" THEN v3 @@ [auth |-> auth]
  ELSE IF badPriv THEN NoSession
  ELSE v3 @@ [auth |-> auth, priv |-> priv, proto |-> Default(sec.privProtocol, "DES")]

\* scan_snmp_add_device: the options listed for a device.  A session
\* without a community is taken for one of version 3.
SnmpOptions(session, sec) ==
  IF session.version = 1 /\ session.community # ""
  THEN [f \in DOMAIN sec |-> IF f = "community" THEN session.community ELSE Null]
  ELSE [sec EXCEPT !.community = Null]

SnmpFound(entry) ==
  Append(devices, [mib |-> entry.mib, options |-> SnmpOptions(snmp.session, snmp.sec)])

\* The session is opened and the agent asked for its sysOID; an agent that
\* does not answer ends the worker.
SnmpOpens ==
  /\ snmp.at = "opens"
  /\ LET s == init_session(snmp.sec) IN
     \/ /\ s # NoSession
        /\ snmp' = [snmp EXCEPT !.at = "sysoid", !.session = s]
        /\ UNCHANGED losses
     \/ /\ s = NoSession /\ UNCHANGED losses
        /\ snmp' = [snmp EXCEPT !.at = "ended"]
     \/ Lose /\ snmp' = [snmp EXCEPT !.at = "ended"]
  /\ UNCHANGED devices

\* scan_snmp_get_oid: whether the agent's answer arrives and is good.
GetOid(oid) ==
  IF oid \in snmp.agent.answers THEN {TRUE} \cup (IF losses < MaxLosses THEN {FALSE} ELSE {})
  ELSE {FALSE}

Lost(oid, got) ==
  losses' = IF oid \in snmp.agent.answers /\ ~got THEN losses + 1 ELSE losses

\* One entry of the table is compared with the sysOID; if it has an oid as
\* well, that must be answered too.  mib_found is set once a device is added.
SnmpMatches ==
  /\ snmp.at = "sysoid"
  /\ IF snmp.index > Len(SnmpTable)
     THEN /\ snmp' = [snmp EXCEPT !.index = 1,
                                  !.at = IF snmp.mib_found = Null THEN "all" ELSE "ended"]
          /\ UNCHANGED <<devices, losses>>
     ELSE LET e == SnmpTable[snmp.index]
              relevant == e.sysoid # Null /\ e.sysoid = snmp.agent.sysoid
              next == [snmp EXCEPT !.index = @ + 1]
          IN
          \/ /\ ~relevant
             /\ snmp' = next /\ UNCHANGED <<devices, losses>>
          \/ /\ relevant /\ e.oid = Null
             /\ devices' = SnmpFound(e)
             /\ snmp' = [next EXCEPT !.mib_found = e.sysoid]
             /\ UNCHANGED losses
          \/ /\ relevant /\ e.oid # Null
             /\ \E got \in GetOid(e.oid) :
                  /\ devices' = IF got THEN SnmpFound(e) ELSE devices
                  /\ snmp' = IF got THEN [next EXCEPT !.mib_found = e.mib] ELSE next
                  /\ Lost(e.oid, got)

\* try_all_oid: called only without a mib_found, so that the entries of one
\* MIB are not told apart.
SnmpTriesAll ==
  /\ snmp.at = "all"
  /\ IF snmp.index > Len(SnmpTable)
     THEN snmp' = [snmp EXCEPT !.at = "ended"] /\ UNCHANGED <<devices, losses>>
     ELSE LET e == SnmpTable[snmp.index] IN
          /\ snmp' = [snmp EXCEPT !.index = @ + 1]
          /\ \E got \in (IF e.oid = Null THEN {FALSE} ELSE GetOid(e.oid)) :
               /\ devices' = IF got THEN SnmpFound(e) ELSE devices
               /\ Lost(e.oid, got)

SnmpStart(a, s) ==
  [at |-> "opens", agent |-> a, sec |-> s, session |-> NoSession, index |-> 1,
   mib_found |-> Null]

SnmpInit == \E a \in SnmpAgents, s \in SnmpSettings : snmp = SnmpStart(a, s)

SnmpNext ==
  /\ SnmpOpens \/ SnmpMatches \/ SnmpTriesAll
  /\ UNCHANGED <<xmlVars, serialVars, usb>>

-----------------------------------------------------------------------------
(* scan_eaton_serial.c: nutscan_scan_eaton_serial_device_thready *)

At(p, at) == ports[p].at = at
To(p, at) == [ports EXCEPT ![p].at = at]

\* ser_open_nf and ser_close; the lowest free descriptor is used.
FreeFd == CHOOSE d \in DOMAIN fds : fds[d] = Null /\ \A e \in DOMAIN fds : fds[e] = Null => d <= e
Open(p, at) ==
  /\ fds' = [fds EXCEPT ![FreeFd] = p]
  /\ ports' = [ports EXCEPT ![p].at = at, ![p].fd = FreeFd]
Close(p, at) ==
  /\ fds' = [fds EXCEPT ![ports[p].fd] = Null]
  /\ ports' = [ports EXCEPT ![p].at = at, ![p].fd = Null]

\* A probe found its unit: the device is listed and the port closed.
Found(p, driver) ==
  /\ devices' = Append(devices, [port |-> p, driver |-> driver])
  /\ Close(p, "done")

\* nutscan_scan_eaton_serial_shut: the port that cannot be opened, or a unit
\* that does not synchronise in MAX_TRY attempts, leads on to XCP.
Shut(p) ==
  /\ \/ /\ At(p, "shut")
        /\ \/ Open(p, "sync") /\ UNCHANGED losses
           \/ Lose /\ ports' = To(p, "xcp") /\ UNCHANGED fds
        /\ UNCHANGED devices
     \/ /\ At(p, "sync") /\ ports[p].unit.speaks = "shut"
        /\ Found(p, "mge-shut") /\ UNCHANGED losses
     \/ /\ At(p, "sync")
        /\ IF ports[p].unit.speaks = "shut" THEN Lose ELSE UNCHANGED losses
        /\ Close(p, "xcp") /\ UNCHANGED devices
  /\ UNCHANGED <<upsfd, authed, disturbed>>

\* nutscan_scan_eaton_serial_xcp: the descriptor is also kept in upsfd, for
\* send_write_command.
XcpOpens(p) ==
  /\ At(p, "xcp")
  /\ Open(p, "auth")
  /\ upsfd' = FreeFd
  /\ disturbed' = disturbed \cup {q \in DOMAIN ports : At(q, "auth") \/ At(q, "asks")}
  /\ UNCHANGED <<authed, devices, losses>>

\* At the next rate AUTH is sent to upsfd, whatever port that is now, and
\* reaches its unit if that port is set to the unit's rate.
XcpAuth(p) ==
  /\ At(p, "auth")
  /\ LET to == fds[upsfd] IN
     authed' = IF to # Null /\ ports[to].unit.rate = ports[to].rate
               THEN authed \cup {to} ELSE authed
  /\ ports' = To(p, "asks")
  /\ UNCHANGED <<fds, upsfd, disturbed, devices, losses>>

\* The unit is asked at that rate.  Without an answer the next rate is tried,
\* and after the last, or when the port fails, Q1.
XcpAsks(p) ==
  LET u == ports[p].unit
      answers == u.speaks = "xcp" /\ u.rate = ports[p].rate
                 /\ (u.needsAuth => p \in authed)
  IN
  /\ At(p, "asks")
  /\ \/ answers /\ Found(p, "bcmxcp") /\ UNCHANGED losses
     \/ /\ IF answers THEN Lose ELSE UNCHANGED losses
        /\ UNCHANGED devices
        /\ IF ports[p].rate < Rates
           THEN /\ ports' = [ports EXCEPT ![p].at = "auth", ![p].rate = @ + 1]
                /\ UNCHANGED fds
           ELSE Close(p, "q1")
  /\ UNCHANGED <<upsfd, authed, disturbed>>

\* A port that cannot be opened, set or written to ends the XCP probe.
XcpFails(p) ==
  /\ Lose
  /\ \/ At(p, "xcp") /\ ports' = To(p, "q1") /\ UNCHANGED fds
     \/ At(p, "auth") /\ Close(p, "q1")
  /\ UNCHANGED <<upsfd, authed, disturbed, devices>>

\* nutscan_scan_eaton_serial_q1: MAXTRIES attempts to get a status line.
Q1(p) ==
  /\ \/ /\ At(p, "q1")
        /\ \/ Open(p, "status") /\ UNCHANGED losses
           \/ Lose /\ ports' = To(p, "done") /\ UNCHANGED fds
        /\ UNCHANGED devices
     \/ /\ At(p, "status") /\ ports[p].unit.speaks = "q1"
        /\ Found(p, "blazer_ser") /\ UNCHANGED losses
     \/ /\ At(p, "status")
        /\ IF ports[p].unit.speaks = "q1" THEN Lose ELSE UNCHANGED losses
        /\ Close(p, "done") /\ UNCHANGED devices
  /\ UNCHANGED <<upsfd, authed, disturbed>>

SerialInit ==
  \E units \in PortUnits :
    ports = [p \in DOMAIN units |->
               [at |-> "shut", fd |-> Null, rate |-> 1, unit |-> units[p]]]

SerialNext ==
  /\ \E p \in DOMAIN ports :
       \/ Shut(p) \/ XcpOpens(p) \/ XcpAuth(p) \/ XcpAsks(p) \/ XcpFails(p) \/ Q1(p)
  /\ UNCHANGED <<xmlVars, snmp, usb>>

-----------------------------------------------------------------------------
(* scan_usb.c: nutscan_scan_usb *)

UsbDevice == usb.tree[usb.at]

\* The next device of the bus: one whose IDs are not in the table, or that
\* cannot be opened, is skipped.  After the last, the list is returned.
UsbOpens ==
  /\ usb.does = "looks"
  /\ usb' = IF usb.at > Len(usb.tree) THEN [usb EXCEPT !.does = "returned"]
            ELSE IF UsbDevice.driver # Null /\ UsbDevice.opens
                 THEN [usb EXCEPT !.does = "reads", !.udev = TRUE]
                 ELSE [usb EXCEPT !.at = @ + 1]
  /\ UNCHANGED <<devices, losses>>

\* nut_usb_get_string: the language is asked for, then the string in it, each
\* in up to MAX_STRING_DESC_TRIES attempts.  A string that is absent, cannot
\* be read or is empty leaves the pointer as it was.
Strings == {"serial", "product", "vendor"}
UsbReads ==
  /\ usb.does = "reads"
  /\ \E unread \in SUBSET {s \in Strings : UsbDevice[s] # Null} :
       /\ losses + Cardinality(unread) <= MaxLosses
       /\ losses' = losses + Cardinality(unread)
       /\ usb' = [usb EXCEPT !.does = "lists",
                    !.text = [s \in Strings |->
                                IF UsbDevice[s] # Null /\ s \notin unread
                                THEN UsbDevice[s] ELSE @[s]]]
  /\ UNCHANGED devices

\* The device is listed with what was read, which is then forgotten, and
\* closed.
UsbLists ==
  /\ usb.does = "lists"
  /\ devices' = Append(devices, [nth |-> usb.at, driver |-> UsbDevice.driver] @@ usb.text)
  /\ usb' = [usb EXCEPT !.does = "looks", !.at = @ + 1, !.udev = FALSE,
                        !.text = [s \in Strings |-> Null]]
  /\ UNCHANGED losses

\* No memory, or no use of the bus: a device that is open is closed and
\* nothing returned.
UsbFails ==
  /\ usb.does \in {"looks", "reads", "lists"}
  /\ Lose
  /\ usb' = [usb EXCEPT !.does = "returned", !.udev = FALSE]
  /\ devices' = <<>>

\* nutscan_display_sanity_check_serial: names are counted back from the last
\* number nutscan_display_ups_conf used; serial numbers are collected in the
\* order they appear, each with the names it appears under.
Named(shown, last) ==
  LET first == last - Len(shown)
      Collect(map, i) ==
        LET s == shown[i].serial
            at == {k \in DOMAIN map : map[k].serial = s}
        IN IF s = Null THEN map
           ELSE IF at = {} THEN Append(map, [serial |-> s, names |-> {first + i - 1}])
           ELSE [map EXCEPT ![CHOOSE k \in at : TRUE].names = @ \cup {first + i - 1}]
  IN FoldLeft(Collect, <<>>, [i \in DOMAIN shown |-> i])

\* The list is shown after others, with the next number first.
UsbShows ==
  /\ usb.does = "returned"
  /\ \E first \in 1 .. 2 :
       usb' = [usb EXCEPT !.does = "shown",
                          !.names = [i \in DOMAIN devices |-> first + i - 1],
                          !.warned = Named(devices, first + Len(devices))]
  /\ UNCHANGED <<devices, losses>>

UsbInit ==
  \E tree \in UsbTrees :
    usb = [does |-> "looks", at |-> 1, tree |-> tree, udev |-> FALSE,
           text |-> [s \in Strings |-> Null], names |-> <<>>, warned |-> <<>>]

UsbNext ==
  /\ UsbOpens \/ UsbReads \/ UsbLists \/ UsbFails \/ UsbShows
  /\ UNCHANGED <<xmlVars, snmp, serialVars>>

-----------------------------------------------------------------------------
ProbesIdle ==
  /\ asked = {} /\ arrived = {}
  /\ fds = [d \in 1 .. Cardinality(DOMAIN ports) |-> Null]
  /\ upsfd = 1
  /\ authed = {} /\ disturbed = {}
  /\ devices = <<>>
  /\ losses = 0

-----------------------------------------------------------------------------
(* Properties *)

\* Each answer is listed at most once, and only those of compatible devices;
\* one host is listed at most once when it alone is asked.  A broadcast is
\* repeated only as long as nothing was found, at most MaxRetries times, and
\* ends without a failure only once everything that arrived was read
\* (nutscan_scan_xml_http_thready).
XmlSafe ==
  /\ IsInjective(devices)
  /\ \A d \in ToSet(devices) : Compatible(d)
  /\ xml.unicast => Len(devices) <= 1
  /\ ~xml.unicast /\ xml.at = "sends" => devices = <<>>
  /\ xml.at = "ended" /\ losses = 0 =>
       /\ ~xml.unicast => arrived = {}
       /\ devices = <<>> => xml.unicast \/ xml.round = MaxRetries

\* With the options listed for a device, init_session opens the session the
\* device was found in, unless the community is empty.  Without lost answers
\* the devices listed are the table's entries that match the agent's sysOID
\* and whose oid, if any, it answers; if there is none of those, the entries
\* whose oid it answers (init_session, scan_snmp_add_device,
\* try_SysOID_thready, try_all_oid).
SnmpSafe ==
  LET Answered(e) == e.oid \in snmp.agent.answers
      Matching(e) == /\ e.sysoid # Null /\ e.sysoid = snmp.agent.sysoid
                     /\ e.oid = Null \/ Answered(e)
      match == SelectSeq(SnmpTable, Matching)
      listed == IF match # <<>> THEN match ELSE SelectSeq(SnmpTable, Answered)
  IN
  /\ snmp.sec.community # "" =>
       \A d \in ToSet(devices) : init_session(d.options) = snmp.session
  /\ snmp.at = "ended" /\ losses = 0 /\ snmp.session # NoSession =>
       [i \in DOMAIN devices |-> devices[i].mib] = [i \in DOMAIN listed |-> listed[i].mib]

\* A port is listed at most once, with the driver of its unit; when all
\* probes are over every descriptor is closed, and, if no answer was lost,
\* every unit is listed whose XCP probe was not overlapped by another port's
\* (nutscan_scan_eaton_serial_shut, _xcp and _q1).
DriverOf == [shut |-> "mge-shut", xcp |-> "bcmxcp", q1 |-> "blazer_ser"]
SerialSafe ==
  LET over == \A p \in DOMAIN ports : ports[p].at = "done"
      listed == {d.port : d \in ToSet(devices)}
  IN
  /\ Cardinality(listed) = Len(devices)
  /\ \A d \in ToSet(devices) : d.driver = DriverOf[ports[d.port].unit.speaks]
  /\ over => \A d \in DOMAIN fds : fds[d] = Null
  /\ over /\ losses = 0 =>
       \A p \in DOMAIN ports :
         ports[p].unit.speaks # Null => p \in listed \cup disturbed

\* A device is listed with its own strings or without, never with those of a
\* device before it; it is closed when the next one is looked at; and the
\* check of serial numbers names the devices by the numbers they were shown
\* with, each serial number once (nutscan_scan_usb,
\* nutscan_display_sanity_check_serial).
UsbSafe ==
  /\ \A d \in ToSet(devices) : \A s \in Strings :
       d[s] \in {Null, usb.tree[d.nth][s]}
  /\ usb.does \in {"looks", "returned", "shown"} => ~usb.udev
  /\ usb.does = "shown" =>
       {<<w.serial, w.names>> : w \in ToSet(usb.warned)} =
       {<<s, {usb.names[i] : i \in {j \in DOMAIN devices : devices[j].serial = s}}>> :
          s \in {d.serial : d \in ToSet(devices)} \ {Null}}

=============================================================================
