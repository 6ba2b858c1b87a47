--------------------------- MODULE HidDriverProofs ---------------------------
(***************************************************************************)
(* The driver at its device: what it publishes of which device             *)
(* (HidDriver), for any devices, addresses, reports and attachments; and   *)
(* which of two instances has the device (DriverStart), for any number of  *)
(* requests and signals.                                                   *)
(***************************************************************************)
EXTENDS HidDriver, DriverStart, TLAPS

(* The open interface is that of the device whose descriptor is loaded.    *)
Attached == handle # NoHandle /\ usb.dev = desc

(* The USB client and the bus: a handle is always the present device's,    *)
(* and every attachment still to come has a generation left.               *)
BusInv ==
    /\ handle # NoHandle => usb.hid /\ handle = usb.addr
    /\ usb.hid => usb.addr \in Addrs
    /\ usb.bus = "none" => ~usb.hid
    /\ usb.bus # "none" => usb.dev \in Devices
    /\ usb.hid => gen + 1 <= MaxGen
    /\ usb.bus = "present" /\ ~usb.hid => gen + 2 <= MaxGen
    /\ active <= gen

(* Where the driver stands: it walks only with a device it supports, its   *)
(* descriptor and the published identity are of one device, and the data   *)
(* are stale wherever the driver has none.                                 *)
PollInv ==
    /\ pc \in Walks => hd /\ ~unsup
    /\ pc \in {"waiting", "initopen", "fault", "open"} => ds.stale
    /\ ds.purged => ds.stale
    /\ ~unsup /\ (hd \/ pc = "opened") => desc # NoDev
    /\ ~unsup /\ ~reprobe /\ pc \notin {"waiting", "initopen"} => desc # NoDev
    /\ ds.ident = desc \/ ds.purged

(* OneDeviceAtATime is not inductive: what is published next comes from    *)
(* the walk and its buffers.  While the attachment has not moved inside a  *)
(* poll, all of them hold the values of the device whose descriptor is     *)
(* loaded, and a walk reads from that device.                              *)
OneDeviceInv ==
    ~moved =>
        /\ ds.meas \cup walk.read \cup walk.fresh \cup walk.buffer \subseteq {desc}
        /\ ~unsup /\ (pc \in Walks \cup {"opened"} \/ (hd /\ (pc = "checks" \/ active = gen)))
              => Attached

HidInv == HidSafe /\ BusInv /\ PollInv /\ OneDeviceInv

-----------------------------------------------------------------------------
(* What dstate.c's operations do to what is published *)

LEMMA StaleKeeps ==
    ASSUME NEW d \in Published
    PROVE  /\ DataStale(d) \in Published
           /\ DataStale(d).stale
           /\ DataStale(d).purged = d.purged /\ DataStale(d).ident = d.ident
           /\ DataStale(d).cached = d.cached /\ DataStale(d).meas = d.meas
  BY Zenon DEF DataStale, Published

LEMMA PurgeKeeps ==
    ASSUME NEW d \in Published
    PROVE  /\ Purge(d) \in Published
           /\ Purge(d).stale = d.stale /\ Purge(d).purged = d.purged
           /\ Purge(d).ident = NoDev /\ Purge(d).cached = d.cached /\ Purge(d).meas = {}
  BY Zenon DEF Purge, Published

LEMMA TimeoutKeeps ==
    ASSUME NEW d \in Published, NEW e \in TimeoutCheck(d)
    PROVE  /\ e \in Published
           /\ e.stale = d.stale /\ e.cached = d.cached
           /\ e.meas \subseteq d.meas
           /\ e.purged = d.purged \/ (e.purged /\ d.stale)
           /\ e.ident = d.ident \/ (e.ident = NoDev /\ e.purged)
  <1>1. CASE e = d
    BY <1>1 DEF Published
  <1>2. CASE e = [Purge(d) EXCEPT !.purged = TRUE] /\ d.stale
    <2>1. Purge(d) \in Published /\ Purge(d).ident = NoDev /\ Purge(d).meas = {}
          /\ Purge(d).stale = d.stale /\ Purge(d).cached = d.cached
      BY PurgeKeeps
    <2> HIDE DEF Purge
    <2>2. e \in Published /\ e.purged /\ e.stale = d.stale /\ e.cached = d.cached
          /\ e.ident = NoDev /\ e.meas = {}
      BY Zenon, <1>2, <2>1 DEF Published
    <2> QED BY Zenon, <1>2, <2>2
  <1> QED BY <1>1, <1>2 DEF TimeoutCheck

(* dstate_datastale, and the check of its age that follows *)
LEMMA LostKeeps ==
    ASSUME NEW d \in Published, NEW e \in TimeoutCheck(DataStale(d))
    PROVE  /\ e \in Published
           /\ e.stale /\ e.cached = d.cached
           /\ e.meas \subseteq d.meas
           /\ e.ident \in {d.ident, NoDev}
           /\ (e.ident = d.ident /\ e.purged = d.purged) \/ e.purged
  <1> DEFINE x == DataStale(d)
  <1>1. /\ x \in Published /\ x.stale /\ x.purged = d.purged /\ x.ident = d.ident
        /\ x.cached = d.cached /\ x.meas = d.meas
    BY StaleKeeps
  <1>2. e \in TimeoutCheck(x)
    OBVIOUS
  <1> HIDE DEF x
  <1>3. /\ e \in Published /\ e.stale = x.stale /\ e.cached = x.cached
        /\ e.meas \subseteq x.meas
        /\ e.purged = x.purged \/ (e.purged /\ x.stale)
        /\ e.ident = x.ident \/ (e.ident = NoDev /\ e.purged)
    BY Zenon, <1>1, <1>2, TimeoutKeeps
  <1> QED BY <1>1, <1>3

LEMMA OkKeeps ==
    ASSUME NEW d \in Published
    PROVE  /\ DataOk(d) \in Published
           /\ ~DataOk(d).stale
           /\ DataOk(d).purged => d.purged /\ ~d.stale
           /\ DataOk(d).ident = d.ident /\ DataOk(d).cached = d.cached
           /\ DataOk(d).meas = d.meas
  BY Zenon DEF DataOk, Published

-----------------------------------------------------------------------------
(* What the steps of a poll do to the walk and to what is published *)

LEMMA WalkStarted ==
    ASSUME walk \in ReportWalks, NEW step, StartWalk(step)
    PROVE  /\ walk' \in ReportWalks
           /\ walk'.read = {} /\ walk'.fresh = {} /\ walk'.buffer = walk.fresh
  BY HidAssumption DEF StartWalk, ReportWalks

LEMMA Counted ==
    ASSUME walk \in ReportWalks, walk.left > 0
    PROVE  /\ walk.left - 1 \in 0..Reports
           /\ walk.read \subseteq Devices /\ walk.fresh \subseteq Devices
           /\ walk.buffer \subseteq Devices /\ walk.missed \in BOOLEAN
  BY HidAssumption DEF ReportWalks

LEMMA ReportRead ==
    ASSUME HidTypeOK, BusInv, ReadReport
    PROVE  /\ walk' \in ReportWalks
           /\ walk'.read = walk.read \cup {usb.dev} /\ walk'.fresh = walk.fresh \cup {usb.dev}
           /\ walk'.buffer = walk.buffer
           /\ ds' \in Published
           /\ ds'.stale = ds.stale /\ ds'.purged = ds.purged /\ ds'.ident = ds.ident
           /\ ds'.cached = ds.cached /\ ds'.meas = ds.meas \cup {usb.dev}
  <1>1. usb.dev \in Devices
    BY DEF BusInv, ReadReport, Reachable
  <1>2. walk' = [walk EXCEPT !.left = walk.left - 1, !.read = walk.read \cup {usb.dev},
                             !.fresh = walk.fresh \cup {usb.dev}]
    BY DEF ReadReport
  <1>3. walk \in ReportWalks /\ walk.left > 0 /\ ds \in Published
    BY DEF HidTypeOK, ReadReport, InWalk
  <1>4. /\ walk' \in ReportWalks
        /\ walk'.read = walk.read \cup {usb.dev} /\ walk'.fresh = walk.fresh \cup {usb.dev}
        /\ walk'.buffer = walk.buffer
    BY Zenon, <1>1, <1>2, <1>3, Counted DEF ReportWalks
  <1>5. ds' = [ds EXCEPT !.meas = ds.meas \cup {usb.dev}]
    BY DEF ReadReport
  <1> QED BY <1>1, <1>3, <1>4, <1>5 DEF Published

LEMMA BufferRead ==
    ASSUME HidTypeOK, ReadBuffered
    PROVE  /\ walk' \in ReportWalks
           /\ walk'.read = walk.read \cup walk.buffer /\ walk'.fresh = walk.fresh
           /\ walk'.buffer = walk.buffer
           /\ ds' \in Published
           /\ ds'.stale = ds.stale /\ ds'.purged = ds.purged /\ ds'.ident = ds.ident
           /\ ds'.cached = ds.cached /\ ds'.meas = ds.meas \cup walk.buffer
  <1>1. walk' = [walk EXCEPT !.left = walk.left - 1, !.read = walk.read \cup walk.buffer]
    BY DEF ReadBuffered
  <1>2. walk \in ReportWalks /\ walk.left > 0 /\ ds \in Published
    BY DEF HidTypeOK, ReadBuffered, InWalk
  <1>3. walk.buffer \subseteq Devices
    BY <1>2, Counted
  <1>4. /\ walk' \in ReportWalks
        /\ walk'.read = walk.read \cup walk.buffer /\ walk'.fresh = walk.fresh
        /\ walk'.buffer = walk.buffer
    BY Zenon, <1>1, <1>2, Counted DEF ReportWalks
  <1>5. ds' = [ds EXCEPT !.meas = ds.meas \cup walk.buffer]
    BY DEF ReadBuffered
  <1> QED BY <1>2, <1>3, <1>4, <1>5 DEF Published

LEMMA ReportMissed ==
    ASSUME HidTypeOK, ReadTimesOut
    PROVE  /\ walk' \in ReportWalks
           /\ walk'.read = walk.read /\ walk'.fresh = walk.fresh /\ walk'.buffer = walk.buffer
  <1>1. walk' = [walk EXCEPT !.left = walk.left - 1, !.missed = TRUE]
    BY DEF ReadTimesOut
  <1>2. walk \in ReportWalks /\ walk.left > 0
    BY DEF HidTypeOK, ReadTimesOut, InWalk
  <1> QED BY Zenon, <1>1, <1>2, Counted DEF ReportWalks

LEMMA Invalidated ==
    ASSUME HidTypeOK, InvalidateReplaced
    PROVE  /\ ds' \in Published
           /\ ds'.stale /\ ds'.purged = ds.purged
           /\ ds'.ident = NoDev /\ ds'.cached = NoDev /\ ds'.meas = {}
  <1> DEFINE d == Purge(DataStale(ds))
  <1>1. /\ d \in Published /\ d.stale /\ d.purged = ds.purged
        /\ d.ident = NoDev /\ d.meas = {}
    BY StaleKeeps, PurgeKeeps DEF HidTypeOK
  <1>2. ds' = [d EXCEPT !.cached = NoDev]
    BY DEF InvalidateReplaced
  <1> HIDE DEF d
  <1> QED BY <1>1, <1>2 DEF Published

LEMMA FullUpdate ==
    ASSUME HidTypeOK, FullWalkDone
    PROVE  /\ ds' \in Published
           /\ ~ds'.stale /\ ds'.cached = ds.cached
           /\ ds'.purged => ds.purged /\ ~ds.stale
           /\ ds'.ident = IF ds.purged /\ ds.cached # NoDev THEN ds.cached ELSE ds.ident
           /\ ds'.meas \subseteq walk.read \cup ds.meas
  <1> DEFINE i == IF ds.purged /\ ds.cached # NoDev THEN ds.cached ELSE ds.ident
             m == walk.read \cup (IF walk.missed THEN ds.meas ELSE {})
             d == [ds EXCEPT !.ident = i, !.meas = m]
  <1>0. ds \in Published /\ walk \in ReportWalks
    BY DEF HidTypeOK
  <1>1. i \in Good \cup {NoDev}
    BY <1>0 DEF Published
  <1>2. m \subseteq walk.read \cup ds.meas /\ m \subseteq Devices
    BY <1>0 DEF Published, ReportWalks
  <1>3. ds' = DataOk(d)
    BY DEF FullWalkDone
  <1>4. i = IF ds.purged /\ ds.cached # NoDev THEN ds.cached ELSE ds.ident
    OBVIOUS
  <1> HIDE DEF i, m
  <1>5. /\ d \in Published /\ d.ident = i /\ d.meas = m
        /\ d.stale = ds.stale /\ d.purged = ds.purged /\ d.cached = ds.cached
    BY Zenon, <1>0, <1>1, <1>2 DEF Published
  <1> HIDE DEF d
  <1> QED BY <1>2, <1>3, <1>4, <1>5, OkKeeps

-----------------------------------------------------------------------------
LEMMA HidInitially == HidInit => HidInv
  <1> SUFFICES ASSUME HidInit PROVE HidInv
    OBVIOUS
  <1> USE HidAssumption DEF HidInit, Off, NoWalk
  <1>1. HidTypeOK
    <2>1. usb \in Buses
      BY DEF Buses
    <2>2. walk \in ReportWalks
      BY DEF ReportWalks
    <2>3. ds \in Published
      BY DEF Published
    <2>4. pc \in Pcs
      BY DEF Pcs
    <2>5. gen \in 0..MaxGen /\ active \in 0..MaxGen /\ errs \in 0..MaxErrs
      BY SMT
    <2>6. /\ sim \in BOOLEAN /\ hd \in BOOLEAN /\ reprobe \in BOOLEAN /\ unsup \in BOOLEAN
          /\ moved \in BOOLEAN
      BY Zenon
    <2>7. /\ handle \in Addrs \cup {NoHandle} /\ udev \in Addrs \cup {NoHandle}
          /\ desc \in Good \cup {NoDev} /\ exact \in Good \cup {NoDev, Dangling}
      OBVIOUS
    <2> QED BY <2>1, <2>2, <2>3, <2>4, <2>5, <2>6, <2>7 DEF HidTypeOK
  <1>2. CacheFollowsDevice /\ StaleWithoutDevice
    BY DEF CacheFollowsDevice, StaleWithoutDevice
  <1>3. BusInv
    BY DEF BusInv
  <1>4. PollInv /\ OneDeviceInv
    BY DEF PollInv, OneDeviceInv, Walks
  <1> QED BY <1>1, <1>2, <1>3, <1>4 DEF HidInv, HidSafe

LEMMA RestartTypes ==
    ASSUME Restart, errs' \in 0..MaxErrs
    PROVE  HidTypeOK'
  <1>1. usb' \in Buses
    BY DEF Restart, Off, Buses
  <1>2. pc' \in Pcs
    BY DEF Restart, Pcs
  <1>3. /\ sim' \in BOOLEAN /\ hd' \in BOOLEAN /\ reprobe' \in BOOLEAN
        /\ unsup' \in BOOLEAN /\ moved' \in BOOLEAN
    BY Zenon DEF Restart
  <1>4. walk' \in ReportWalks
    BY HidAssumption DEF Restart, NoWalk, ReportWalks
  <1>5. ds' \in Published
    BY DEF Restart, Published
  <1>6. handle' = NoHandle /\ gen' = 0 /\ udev' = NoHandle /\ active' = 0 /\ desc' = NoDev /\ exact' = NoDev
    BY DEF Restart
  <1> QED BY <1>1, <1>2, <1>3, <1>4, <1>5, <1>6, HidAssumption DEF HidTypeOK

LEMMA HidTypeStep == HidInv /\ HidNext => HidTypeOK'
  <1> SUFFICES ASSUME HidInv, HidNext PROVE HidTypeOK'
    OBVIOUS
  <1> USE HidAssumption DEF usbVars, drvVars
  <1>0. HidTypeOK /\ BusInv
    BY DEF HidInv, HidSafe
  <1>1. ASSUME NEW d \in Devices, Enumerate(d) PROVE HidTypeOK'
    <2> USE <1>0, <1>1 DEF HidTypeOK, Enumerate, Polling
    <2>1. usb' \in Buses
      BY DEF Buses
    <2>2. /\ sim' \in BOOLEAN /\ hd' \in BOOLEAN /\ reprobe' \in BOOLEAN
          /\ unsup' \in BOOLEAN /\ moved' \in BOOLEAN
      BY Zenon
    <2> QED BY <2>1, <2>2 DEF BusInv
  <1>2. CASE Unplug
    <2> USE <1>0, <1>2 DEF HidTypeOK, Unplug
    <2>1. usb' \in Buses
      BY DEF Buses
    <2> QED BY <2>1
  <1>3. CASE BusFree
    <2> USE <1>0, <1>3 DEF HidTypeOK, BusFree, Off
    <2>1. usb' \in Buses
      BY DEF Buses
    <2> QED BY <2>1
  <1>4. CASE HidConnected
    <2> USE <1>0, <1>4 DEF HidTypeOK, HidConnected
    <2>1. usb' \in Buses
      BY Zenon DEF BusInv, Buses
    <2> QED BY <2>1 DEF BusInv
  <1>5. CASE HidDisconnected
    <2> USE <1>0, <1>5 DEF HidTypeOK, HidDisconnected, Polling
    <2>1. usb' \in Buses
      BY Zenon DEF Buses
    <2>2. /\ sim' \in BOOLEAN /\ hd' \in BOOLEAN /\ reprobe' \in BOOLEAN
          /\ unsup' \in BOOLEAN /\ moved' \in BOOLEAN
      BY Zenon
    <2> QED BY <2>1, <2>2 DEF BusInv
  <1>6. CASE DiscoveryOpens
    <2> USE <1>0, <1>6 DEF HidTypeOK, DiscoveryOpens
    <2>1. usb' \in Buses
      BY Zenon DEF Buses
    <2> QED BY <2>1
  <1>7. CASE DiscoveryCloses
    <2> USE <1>0, <1>7 DEF HidTypeOK, DiscoveryCloses
    <2>1. usb' \in Buses
      BY Zenon DEF Buses
    <2> QED BY <2>1
  <1>8. CASE SimulationStarts
    <2> USE <1>0, <1>8 DEF HidTypeOK, SimulationStarts
    <2>1. /\ sim' \in BOOLEAN /\ hd' \in BOOLEAN /\ reprobe' \in BOOLEAN
          /\ unsup' \in BOOLEAN /\ moved' \in BOOLEAN
      BY Zenon
    <2> QED BY <2>1
  <1>9. CASE SimulationEnds
    <2> USE <1>0, <1>9 DEF HidTypeOK, SimulationEnds
    <2>1. /\ sim' \in BOOLEAN /\ hd' \in BOOLEAN /\ reprobe' \in BOOLEAN
          /\ unsup' \in BOOLEAN /\ moved' \in BOOLEAN
      BY Zenon
    <2> QED BY <2>1
  <1>10. CASE DriverStarts
    <2> USE <1>0, <1>10 DEF HidTypeOK, DriverStarts
    <2>1. pc' \in Pcs
      BY DEF Pcs, Walks
    <2> QED BY <2>1
  <1>11. CASE InitOpens
    <2> USE <1>0, <1>11 DEF HidTypeOK, InitOpens, OpenProbes, NewExactMatcher
    <2>1. pc' \in Pcs
      BY DEF Pcs, Walks, StartWalk
    <2>2. /\ sim' \in BOOLEAN /\ hd' \in BOOLEAN /\ reprobe' \in BOOLEAN
          /\ unsup' \in BOOLEAN /\ moved' \in BOOLEAN
      BY Zenon
    <2>3. walk' \in ReportWalks
      <3>1. CASE unsup'
        <4>1. walk' = NoWalk
          BY <3>1
        <4> QED BY <4>1 DEF NoWalk, ReportWalks
      <3>2. CASE ~unsup'
        <4>1. StartWalk("initwalk")
          BY <3>2
        <4> QED BY <4>1, WalkStarted
      <3> QED BY <3>1, <3>2
    <2>4. desc' \in Good \cup {NoDev} /\ exact' \in Good \cup {NoDev, Dangling}
      BY DEF Buses
    <2>5. ds' \in Published
      BY Zenon DEF Published
    <2> QED BY <2>1, <2>2, <2>3, <2>4, <2>5
  <1>12. CASE InitFindsNothing
    <2> USE <1>0, <1>12 DEF HidTypeOK, InitFindsNothing
    <2>1. pc' \in Pcs
      BY DEF Pcs, Walks
    <2>2. /\ sim' \in BOOLEAN /\ hd' \in BOOLEAN /\ reprobe' \in BOOLEAN
          /\ unsup' \in BOOLEAN /\ moved' \in BOOLEAN
      BY Zenon
    <2> QED BY <2>1, <2>2
  <1>13. CASE PollBegins
    <2> USE <1>0, <1>13 DEF HidTypeOK, PollBegins
    <2>1. pc' \in Pcs
      BY DEF Pcs, Walks
    <2>2. /\ sim' \in BOOLEAN /\ hd' \in BOOLEAN /\ reprobe' \in BOOLEAN
          /\ unsup' \in BOOLEAN /\ moved' \in BOOLEAN
      BY Zenon
    <2> QED BY <2>1, <2>2
  <1>14. CASE InvalidateReplaced
    <2> USE <1>0, <1>14 DEF HidTypeOK, InvalidateReplaced, NoWalk
    <2>1. pc' \in Pcs
      BY DEF Pcs, Walks
    <2>2. /\ sim' \in BOOLEAN /\ hd' \in BOOLEAN /\ reprobe' \in BOOLEAN
          /\ unsup' \in BOOLEAN /\ moved' \in BOOLEAN
      BY Zenon
    <2>3. ds' \in Published
      BY Zenon, Invalidated
    <2>4. walk' \in ReportWalks
      BY DEF ReportWalks
    <2>5. desc' \in Good \cup {NoDev} /\ exact' \in Good \cup {NoDev, Dangling}
      BY DEF Buses
    <2> QED BY <2>1, <2>2, <2>3, <2>4, <2>5
  <1>15. CASE PollUnsupported
    <2> USE <1>0, <1>15 DEF HidTypeOK, PollUnsupported
    <2>1. pc' \in Pcs
      BY DEF Pcs, Walks
    <2>2. ds' \in Published
      BY StaleKeeps, TimeoutKeeps
    <2> QED BY <2>1, <2>2
  <1>16. CASE PollEndsEarly
    <2> USE <1>0, <1>16 DEF HidTypeOK, PollEndsEarly, Proceeds
    <2>1. pc' \in Pcs
      BY DEF Pcs, Walks
    <2>2. ds' \in Published
      BY StaleKeeps, TimeoutKeeps
    <2> QED BY <2>1, <2>2
  <1>17. CASE PollReconnects
    <2> USE <1>0, <1>17 DEF HidTypeOK, PollReconnects, Proceeds
    <2>1. pc' \in Pcs
      BY DEF Pcs, Walks
    <2>2. ds' \in Published
      BY StaleKeeps, TimeoutKeeps
    <2> QED BY <2>1, <2>2
  <1>18. CASE PollWalks
    <2> USE <1>0, <1>18 DEF HidTypeOK, PollWalks, Proceeds, StartWalk
    <2>1. pc' \in Pcs
      BY DEF Pcs, Walks
    <2>2. ds' \in Published
      BY TimeoutKeeps
    <2>3. walk' \in ReportWalks
      BY DEF ReportWalks
    <2> QED BY <2>1, <2>2, <2>3
  <1>19. CASE ReconnectFails
    <2> USE <1>0, <1>19 DEF HidTypeOK, ReconnectFails
    <2>1. pc' \in Pcs
      BY DEF Pcs, Walks
    <2>2. ds' \in Published
      BY TimeoutKeeps
    <2> QED BY <2>1, <2>2
  <1>20. CASE ReconnectProbes
    <2> USE <1>0, <1>20 DEF HidTypeOK, ReconnectProbes, OpenProbes, NoWalk, NewExactMatcher
    <2>1. pc' \in Pcs
      BY DEF Pcs, Walks
    <2>2. /\ sim' \in BOOLEAN /\ hd' \in BOOLEAN /\ reprobe' \in BOOLEAN
          /\ unsup' \in BOOLEAN /\ moved' \in BOOLEAN
      BY Zenon
    <2>3. ds' \in Published
      BY Zenon DEF Published
    <2>4. walk' \in ReportWalks
      BY DEF ReportWalks
    <2>5. desc' \in Good \cup {NoDev} /\ exact' \in Good \cup {NoDev, Dangling}
      BY DEF Buses
    <2> QED BY <2>1, <2>2, <2>3, <2>4, <2>5
  <1>21. CASE ReconnectResumes
    <2> USE <1>0, <1>21 DEF HidTypeOK, ReconnectResumes
    <2>1. pc' \in Pcs
      BY DEF Pcs, Walks
    <2> QED BY <2>1
  <1>22. CASE Reconnected
    <2> USE <1>0, <1>22 DEF HidTypeOK, Reconnected, StartWalk
    <2>1. pc' \in Pcs
      BY DEF Pcs, Walks
    <2>2. /\ sim' \in BOOLEAN /\ hd' \in BOOLEAN /\ reprobe' \in BOOLEAN
          /\ unsup' \in BOOLEAN /\ moved' \in BOOLEAN
      BY Zenon
    <2>3. ds' \in Published
      BY StaleKeeps, TimeoutKeeps
    <2>4. walk' \in ReportWalks
      BY WalkStarted
    <2> QED BY <2>1, <2>2, <2>3, <2>4
  <1>23. CASE ReadReport
    <2> USE <1>0, <1>23 DEF HidTypeOK, ReadReport, InWalk, Reachable
    <2>1. walk' \in ReportWalks
      BY ReportRead
    <2>2. ds' \in Published
      BY ReportRead
    <2> QED BY <2>1, <2>2
  <1>24. CASE ReadBuffered
    <2> USE <1>0, <1>24 DEF HidTypeOK, ReadBuffered, InWalk
    <2>1. walk' \in ReportWalks
      BY BufferRead
    <2>2. ds' \in Published
      BY BufferRead
    <2> QED BY <2>1, <2>2
  <1>25. CASE ReadTimesOut
    <2> USE <1>0, <1>25 DEF HidTypeOK, ReadTimesOut, InWalk, Reachable
    <2>1. walk' \in ReportWalks
      BY ReportMissed
    <2> QED BY <2>1
  <1>26. CASE WalkLost
    <2> USE <1>0, <1>26 DEF HidTypeOK, WalkLost, InWalk, Reachable
    <2>1. pc' \in Pcs
      BY DEF Pcs, Walks
    <2>2. /\ sim' \in BOOLEAN /\ hd' \in BOOLEAN /\ reprobe' \in BOOLEAN
          /\ unsup' \in BOOLEAN /\ moved' \in BOOLEAN
      BY Zenon
    <2>3. ds' \in Published
      BY StaleKeeps, TimeoutKeeps
    <2> QED BY <2>1, <2>2, <2>3
  <1>27. CASE InitWalkFatal
    <2>1. errs' \in 0..MaxErrs
      BY <1>0, <1>27, HidAssumption DEF HidTypeOK, InitWalkFatal
    <2> QED BY <1>27, <2>1, RestartTypes DEF InitWalkFatal
  <1>28. CASE InitFaults \/ MatcherFault
    <2>1. errs' \in 0..MaxErrs /\ Restart
      BY <1>0, <1>28 DEF HidTypeOK, InitFaults, MatcherFault
    <2> QED BY <2>1, RestartTypes
  <1>30. CASE InitWalkDone
    <2> USE <1>0, <1>30 DEF HidTypeOK, InitWalkDone, WalkEnds
    <2>1. pc' \in Pcs
      BY DEF Pcs, Walks
    <2> QED BY <2>1
  <1>31. CASE ReconnectWalkDone
    <2> USE <1>0, <1>31 DEF HidTypeOK, ReconnectWalkDone, StartWalk, WalkEnds
    <2>1. pc' \in Pcs
      BY DEF Pcs, Walks
    <2>2. walk' \in ReportWalks
      BY DEF ReportWalks
    <2> QED BY <2>1, <2>2
  <1>32. CASE QuickWalkDone
    <2> USE <1>0, <1>32 DEF HidTypeOK, QuickWalkDone, WalkEnds
    <2>1. pc' \in Pcs
      BY DEF Pcs, Walks
    <2> QED BY <2>1
  <1>33. CASE FullWalkDone
    <2> USE <1>0, <1>33 DEF HidTypeOK, FullWalkDone, WalkEnds
    <2>1. pc' \in Pcs
      BY DEF Pcs, Walks
    <2>2. /\ sim' \in BOOLEAN /\ hd' \in BOOLEAN /\ reprobe' \in BOOLEAN
          /\ unsup' \in BOOLEAN /\ moved' \in BOOLEAN
      BY Zenon
    <2>3. ds' \in Published
      BY Zenon, FullUpdate
    <2> QED BY <2>1, <2>2, <2>3
  <1> QED BY <1>1, <1>2, <1>3, <1>4, <1>5, <1>6, <1>7, <1>8, <1>9, <1>10, <1>11, <1>12, <1>13,
             <1>14, <1>15, <1>16, <1>17, <1>18, <1>19, <1>20, <1>21, <1>22, <1>23, <1>24, <1>25,
             <1>26, <1>27, <1>28, <1>30, <1>31, <1>32, <1>33 DEF HidNext, UsbStep, DriverStep

(* Opening and probing a device: whatever was known of another device is    *)
(* gone, or this is the device that was known (usbhid-ups.c callback).      *)
LEMMA Probed ==
    ASSUME HidInv, OpenProbes
    PROVE  /\ handle # NoHandle /\ usb.bus = "present" /\ hd' /\ udev' = handle
           /\ ds'.stale = ds.stale /\ ds'.purged = ds.purged /\ ds'.meas = ds.meas
           /\ ds'.cached = desc' /\ exact' \in {desc', Dangling}
           /\ ds'.ident \in {NoDev, desc'} /\ (ds'.ident = desc' \/ ds'.purged)
           /\ ~unsup' => desc' = usb.dev /\ desc' # NoDev
           /\ desc = NoDev \/ desc = desc'
  <1> USE HidAssumption DEF OpenProbes
  <1>1. ds \in Published /\ usb.dev \in Devices /\ CacheFollowsDevice /\ PollInv
        /\ desc \in Good \cup {NoDev} /\ exact \in Good \cup {NoDev, Dangling}
    BY DEF HidInv, HidSafe, HidTypeOK, BusInv
  <1>2. exact = NoDev \/ exact = usb.dev \/ (exact = Dangling /\ desc = usb.dev)
    BY DEF Matches
  <1>3. desc = NoDev \/ desc = usb.dev
    BY <1>1, <1>2 DEF CacheFollowsDevice, Devices
  <1>4. CASE usb.dev \in Good
    <2>1. ds' = [ds EXCEPT !.ident = usb.dev, !.cached = usb.dev]
      BY <1>4
    <2>2. /\ ds'.stale = ds.stale /\ ds'.purged = ds.purged /\ ds'.meas = ds.meas
          /\ ds'.cached = usb.dev /\ ds'.ident = usb.dev
      BY <1>1, <2>1 DEF Published
    <2> QED BY <1>1, <1>3, <1>4, <2>2 DEF NewExactMatcher, Devices
  <1>5. CASE usb.dev \notin Good
    <2>1. desc = NoDev
      BY <1>1, <1>2, <1>3, <1>5 DEF CacheFollowsDevice, Devices
    <2> QED BY <1>1, <1>5, <2>1 DEF CacheFollowsDevice, PollInv
  <1> QED BY <1>4, <1>5

LEMMA Restarted ==
    ASSUME Restart
    PROVE  BusInv' /\ CacheFollowsDevice' /\ StaleWithoutDevice' /\ PollInv' /\ OneDeviceInv'
  <1>1. /\ usb'.bus = "none" /\ ~usb'.hid /\ handle' = NoHandle /\ gen' = 0 /\ active' = 0
        /\ pc' = "waiting" /\ ~hd' /\ ~unsup' /\ desc' = NoDev
        /\ walk'.read = {} /\ walk'.fresh = {} /\ walk'.buffer = {}
        /\ ds'.stale /\ ~ds'.purged /\ ds'.ident = NoDev /\ ds'.meas = {}
    BY DEF Restart, Off, NoWalk
  <1>2. BusInv'
    BY <1>1 DEF BusInv
  <1>3. CacheFollowsDevice' /\ StaleWithoutDevice'
    BY <1>1 DEF Restart, CacheFollowsDevice, StaleWithoutDevice
  <1>4. PollInv'
    BY <1>1 DEF PollInv, Walks
  <1>5. OneDeviceInv'
    BY <1>1 DEF OneDeviceInv, Walks
  <1> QED BY <1>2, <1>3, <1>4, <1>5

LEMMA HidStep == HidInv /\ HidNext => HidInv'
  <1> SUFFICES ASSUME HidInv, HidNext PROVE HidInv'
    OBVIOUS
  <1> USE HidAssumption DEF usbVars, drvVars, Walks
  <1>0. /\ HidTypeOK /\ CacheFollowsDevice /\ StaleWithoutDevice /\ BusInv /\ PollInv /\ OneDeviceInv
        /\ usb \in Buses /\ ds \in Published /\ walk \in ReportWalks
    BY DEF HidInv, HidSafe, HidTypeOK
  <1>t. HidTypeOK'
    BY HidTypeStep
  <1> DEFINE Rest == CacheFollowsDevice /\ StaleWithoutDevice /\ BusInv /\ PollInv /\ OneDeviceInv
  <1>1. ASSUME NEW d \in Devices, Enumerate(d) PROVE Rest'
    <2> USE <1>0, <1>1 DEF Enumerate, Polling
    <2>1. BusInv'
      BY DEF HidTypeOK, BusInv, Buses
    <2>2. CacheFollowsDevice' /\ StaleWithoutDevice' /\ PollInv'
      BY DEF HidTypeOK, BusInv, CacheFollowsDevice, StaleWithoutDevice, PollInv, Published
    <2>3. OneDeviceInv'
      BY DEF HidTypeOK, BusInv, CacheFollowsDevice, PollInv, OneDeviceInv, Attached, Published
    <2> QED BY <2>1, <2>2, <2>3
  <1>2. ASSUME Unplug PROVE Rest'
    <2> USE <1>0, <1>2 DEF Unplug
    <2>1. BusInv'
      BY DEF HidTypeOK, BusInv, Buses
    <2>2. CacheFollowsDevice' /\ StaleWithoutDevice' /\ PollInv'
      BY DEF HidTypeOK, BusInv, CacheFollowsDevice, StaleWithoutDevice, PollInv, Published
    <2>3. OneDeviceInv'
      BY DEF HidTypeOK, BusInv, CacheFollowsDevice, PollInv, OneDeviceInv, Attached, Published
    <2> QED BY <2>1, <2>2, <2>3
  <1>3. ASSUME BusFree PROVE Rest'
    <2> USE <1>0, <1>3 DEF BusFree, Off
    <2>1. BusInv'
      BY DEF HidTypeOK, BusInv, Buses
    <2>2. CacheFollowsDevice' /\ StaleWithoutDevice' /\ PollInv'
      BY DEF HidTypeOK, BusInv, CacheFollowsDevice, StaleWithoutDevice, PollInv, Published
    <2>3. OneDeviceInv'
      BY DEF HidTypeOK, BusInv, CacheFollowsDevice, PollInv, OneDeviceInv, Attached, Published
    <2> QED BY <2>1, <2>2, <2>3
  <1>4. ASSUME HidConnected PROVE Rest'
    <2> USE <1>0, <1>4 DEF HidConnected
    <2>1. BusInv'
      BY DEF HidTypeOK, BusInv, Buses
    <2>2. CacheFollowsDevice' /\ StaleWithoutDevice' /\ PollInv'
      BY DEF HidTypeOK, BusInv, CacheFollowsDevice, StaleWithoutDevice, PollInv, Published
    <2>3. OneDeviceInv'
      BY DEF HidTypeOK, BusInv, CacheFollowsDevice, PollInv, OneDeviceInv, Attached, Published
    <2> QED BY <2>1, <2>2, <2>3
  <1>5. ASSUME HidDisconnected PROVE Rest'
    <2> USE <1>0, <1>5 DEF HidDisconnected, Polling
    <2>1. BusInv'
      BY DEF HidTypeOK, BusInv, Buses
    <2>2. CacheFollowsDevice' /\ StaleWithoutDevice' /\ PollInv'
      BY DEF HidTypeOK, BusInv, CacheFollowsDevice, StaleWithoutDevice, PollInv, Published
    <2>3. OneDeviceInv'
      <3>1. active # gen' \/ handle = NoHandle
        BY DEF HidTypeOK, BusInv
      <3>2. ~moved' => ~moved /\ pc \notin Walks \cup {"opened", "checks"}
        BY Zenon DEF HidTypeOK
      <3>3. gen' = gen \/ active # gen'
        BY DEF HidTypeOK, BusInv
      <3> QED BY <3>1, <3>2, <3>3 DEF OneDeviceInv, Attached
    <2> QED BY <2>1, <2>2, <2>3
  <1>6. ASSUME DiscoveryOpens PROVE Rest'
    <2> USE <1>0, <1>6 DEF DiscoveryOpens
    <2>1. BusInv'
      BY DEF HidTypeOK, BusInv, Buses
    <2>2. CacheFollowsDevice' /\ StaleWithoutDevice' /\ PollInv'
      BY DEF HidTypeOK, BusInv, CacheFollowsDevice, StaleWithoutDevice, PollInv, Published
    <2>3. OneDeviceInv'
      BY DEF HidTypeOK, BusInv, CacheFollowsDevice, PollInv, OneDeviceInv, Attached, Published
    <2> QED BY <2>1, <2>2, <2>3
  <1>7. ASSUME DiscoveryCloses PROVE Rest'
    <2> USE <1>0, <1>7 DEF DiscoveryCloses
    <2>1. BusInv'
      BY DEF HidTypeOK, BusInv, Buses
    <2>2. CacheFollowsDevice' /\ StaleWithoutDevice' /\ PollInv'
      BY DEF HidTypeOK, BusInv, CacheFollowsDevice, StaleWithoutDevice, PollInv, Published
    <2>3. OneDeviceInv'
      BY DEF HidTypeOK, BusInv, CacheFollowsDevice, PollInv, OneDeviceInv, Attached, Published
    <2> QED BY <2>1, <2>2, <2>3
  <1>8. ASSUME SimulationStarts PROVE Rest'
    <2> USE <1>0, <1>8 DEF SimulationStarts
    <2>1. BusInv'
      BY DEF HidTypeOK, BusInv, Buses
    <2>2. CacheFollowsDevice' /\ StaleWithoutDevice' /\ PollInv'
      BY DEF HidTypeOK, BusInv, CacheFollowsDevice, StaleWithoutDevice, PollInv, Published
    <2>3. OneDeviceInv'
      BY DEF HidTypeOK, BusInv, CacheFollowsDevice, PollInv, OneDeviceInv, Attached, Published
    <2> QED BY <2>1, <2>2, <2>3
  <1>9. ASSUME SimulationEnds PROVE Rest'
    <2> USE <1>0, <1>9 DEF SimulationEnds
    <2>1. BusInv'
      BY DEF HidTypeOK, BusInv, Buses
    <2>2. CacheFollowsDevice' /\ StaleWithoutDevice' /\ PollInv'
      BY DEF HidTypeOK, BusInv, CacheFollowsDevice, StaleWithoutDevice, PollInv, Published
    <2>3. OneDeviceInv'
      BY DEF HidTypeOK, BusInv, CacheFollowsDevice, PollInv, OneDeviceInv, Attached, Published
    <2> QED BY <2>1, <2>2, <2>3
  <1>10. ASSUME DriverStarts PROVE Rest'
    <2> USE <1>0, <1>10 DEF DriverStarts
    <2>1. BusInv'
      BY DEF HidTypeOK, BusInv, Buses
    <2>2. CacheFollowsDevice' /\ StaleWithoutDevice' /\ PollInv'
      BY DEF HidTypeOK, BusInv, CacheFollowsDevice, StaleWithoutDevice, PollInv, Published
    <2>3. OneDeviceInv'
      BY DEF HidTypeOK, BusInv, CacheFollowsDevice, PollInv, OneDeviceInv, Attached, Published
    <2> QED BY <2>1, <2>2, <2>3
  <1>11. ASSUME InitOpens PROVE Rest'
    <2> USE <1>0, <1>11
    <2>1. BusInv'
      BY DEF HidTypeOK, BusInv, Buses, InitOpens, OpenProbes
    <2>2. OpenProbes /\ pc = "initopen" /\ ~reprobe' /\ active' = gen
          /\ UNCHANGED <<usb, handle, gen, moved>>
      BY DEF InitOpens
    <2>3. /\ walk'.read = {} /\ walk'.fresh = {} /\ walk'.buffer \subseteq walk.fresh
          /\ IF unsup' THEN pc' = "top" ELSE pc' = "initwalk"
      <3>1. CASE unsup'
        BY <3>1 DEF InitOpens, NoWalk
      <3>2. CASE ~unsup'
        BY <3>2, WalkStarted DEF InitOpens, StartWalk
      <3> QED BY <3>1, <3>2
    <2>4. CacheFollowsDevice' /\ StaleWithoutDevice' /\ PollInv'
      BY <2>2, <2>3, Probed DEF CacheFollowsDevice, StaleWithoutDevice, PollInv
    <2>5. OneDeviceInv'
      <3>1. ~moved => ds.meas \cup walk.fresh \subseteq {desc}
        BY DEF OneDeviceInv
      <3>2. ds.meas \subseteq Devices /\ walk.fresh \subseteq Devices
        BY DEF Published, ReportWalks
      <3>3. ~moved => ds.meas \cup walk.fresh \subseteq {desc'}
        BY Zenon, <3>1, <3>2, <2>2, Probed DEF Devices
      <3> QED BY <3>3, <2>2, <2>3, Probed DEF OneDeviceInv, Attached
    <2> QED BY <2>1, <2>4, <2>5
  <1>12. ASSUME InitFindsNothing PROVE Rest'
    <2> USE <1>0, <1>12 DEF InitFindsNothing
    <2>1. BusInv'
      BY DEF HidTypeOK, BusInv, Buses
    <2>2. CacheFollowsDevice' /\ StaleWithoutDevice' /\ PollInv'
      BY DEF HidTypeOK, BusInv, CacheFollowsDevice, StaleWithoutDevice, PollInv, Published
    <2>3. OneDeviceInv'
      BY DEF HidTypeOK, BusInv, CacheFollowsDevice, PollInv, OneDeviceInv, Attached, Published
    <2> QED BY <2>1, <2>2, <2>3
  <1>13. ASSUME PollBegins PROVE Rest'
    <2> USE <1>0, <1>13 DEF PollBegins
    <2>1. BusInv'
      BY DEF HidTypeOK, BusInv, Buses
    <2>2. CacheFollowsDevice' /\ StaleWithoutDevice' /\ PollInv'
      BY DEF HidTypeOK, BusInv, CacheFollowsDevice, StaleWithoutDevice, PollInv, Published
    <2>3. OneDeviceInv'
      BY DEF HidTypeOK, BusInv, CacheFollowsDevice, PollInv, OneDeviceInv, Attached, Published
    <2> QED BY <2>1, <2>2, <2>3
  <1>14. ASSUME InvalidateReplaced PROVE Rest'
    <2> USE <1>0, <1>14 DEF InvalidateReplaced, NoWalk
    <2>1. BusInv'
      BY DEF HidTypeOK, BusInv, Buses
    <2>2. CacheFollowsDevice' /\ StaleWithoutDevice' /\ PollInv'
      BY Zenon, Invalidated DEF HidTypeOK, BusInv, CacheFollowsDevice, StaleWithoutDevice, PollInv
    <2>3. OneDeviceInv'
      BY Zenon, Invalidated
         DEF HidTypeOK, BusInv, CacheFollowsDevice, PollInv, OneDeviceInv, Attached
    <2> QED BY <2>1, <2>2, <2>3
  <1>15. ASSUME PollUnsupported \/ PollEndsEarly PROVE Rest'
    <2>1. /\ pc = "checks" /\ pc' = "top" /\ walk' = walk /\ ds' \in TimeoutCheck(DataStale(ds))
          /\ UNCHANGED <<usb, handle, gen, hd, active, reprobe, unsup, desc, exact, moved>>
      BY <1>15 DEF PollUnsupported, PollEndsEarly, Proceeds
    <2>2. /\ ds'.stale /\ ds'.cached = ds.cached /\ ds'.meas \subseteq ds.meas
          /\ ds'.ident \in {ds.ident, NoDev}
          /\ (ds'.ident = ds.ident /\ ds'.purged = ds.purged) \/ ds'.purged
      BY Zenon, <1>0, <2>1, LostKeeps
    <2>3. BusInv'
      BY <1>0, <2>1 DEF BusInv
    <2>4. PollInv'
      BY Zenon, <1>0, <2>1, <2>2 DEF PollInv
    <2>5. CacheFollowsDevice' /\ StaleWithoutDevice'
      BY Zenon, <1>0, <2>1, <2>2 DEF CacheFollowsDevice, StaleWithoutDevice
    <2>6. OneDeviceInv'
      BY <1>0, <2>1, <2>2 DEF OneDeviceInv, Attached
    <2> QED BY <2>3, <2>4, <2>5, <2>6
  <1>17. ASSUME PollReconnects PROVE Rest'
    <2>1. /\ pc = "checks" /\ ~hd /\ pc' = "open" /\ walk' = walk
          /\ handle' \in {handle, NoHandle}
          /\ ds' \in TimeoutCheck(DataStale(ds))
          /\ UNCHANGED <<usb, gen, hd, active, reprobe, unsup, desc, exact, moved>>
      BY <1>17 DEF PollReconnects, Proceeds
    <2>2. /\ ds'.stale /\ ds'.cached = ds.cached /\ ds'.meas \subseteq ds.meas
          /\ ds'.ident \in {ds.ident, NoDev}
          /\ (ds'.ident = ds.ident /\ ds'.purged = ds.purged) \/ ds'.purged
      BY <1>0, <2>1, LostKeeps
    <2>3. BusInv'
      BY <1>0, <2>1 DEF BusInv
    <2>4. PollInv'
      BY <1>0, <2>1, <2>2 DEF PollInv
    <2>5. CacheFollowsDevice' /\ StaleWithoutDevice'
      BY <1>0, <2>1, <2>2 DEF CacheFollowsDevice, StaleWithoutDevice
    <2>6. OneDeviceInv'
      BY <1>0, <2>1, <2>2 DEF OneDeviceInv, Attached
    <2> QED BY <2>3, <2>4, <2>5, <2>6
  <1>18. ASSUME PollWalks PROVE Rest'
    <2> USE <1>0, <1>18 DEF PollWalks, Proceeds, StartWalk
    <2>1. BusInv'
      BY DEF HidTypeOK, BusInv, Buses
    <2>2. CacheFollowsDevice' /\ StaleWithoutDevice' /\ PollInv'
      BY TimeoutKeeps, WalkStarted
         DEF HidTypeOK, BusInv, CacheFollowsDevice, StaleWithoutDevice, PollInv
    <2>3. OneDeviceInv'
      BY TimeoutKeeps, WalkStarted
         DEF HidTypeOK, BusInv, CacheFollowsDevice, PollInv, OneDeviceInv, Attached
    <2> QED BY <2>1, <2>2, <2>3
  <1>19. ASSUME ReconnectFails PROVE Rest'
    <2>1. /\ pc = "open" /\ pc' = "top" /\ walk' = walk /\ ds' \in TimeoutCheck(ds)
          /\ UNCHANGED <<usb, handle, gen, hd, active, reprobe, unsup, desc, exact, moved>>
      BY <1>19 DEF ReconnectFails
    <2>2. /\ ds'.stale = ds.stale /\ ds'.cached = ds.cached /\ ds'.meas \subseteq ds.meas
          /\ ds'.purged = ds.purged \/ (ds'.purged /\ ds.stale)
          /\ ds'.ident = ds.ident \/ (ds'.ident = NoDev /\ ds'.purged)
      BY Zenon, <1>0, <2>1, TimeoutKeeps
    <2>3. BusInv'
      BY <1>0, <2>1 DEF BusInv
    <2>4. PollInv' /\ CacheFollowsDevice' /\ StaleWithoutDevice'
      BY <1>0, <2>1, <2>2 DEF PollInv, CacheFollowsDevice, StaleWithoutDevice, Walks
    <2>5. OneDeviceInv'
      BY <1>0, <2>1, <2>2 DEF OneDeviceInv, Attached, Walks
    <2> QED BY <2>3, <2>4, <2>5
  <1>20. ASSUME ReconnectProbes PROVE Rest'
    <2> USE <1>0, <1>20
    <2>1. BusInv'
      BY DEF HidTypeOK, BusInv, Buses, ReconnectProbes, OpenProbes
    <2>2. /\ OpenProbes /\ pc = "open" /\ pc' = "opened" /\ reprobe /\ reprobe'
          /\ UNCHANGED <<usb, handle, gen, active, moved>>
          /\ walk'.read = {} /\ walk'.fresh = {} /\ walk'.buffer = {}
      BY DEF ReconnectProbes, NoWalk
    <2>3. CacheFollowsDevice' /\ StaleWithoutDevice' /\ PollInv'
      BY <2>2, Probed DEF CacheFollowsDevice, StaleWithoutDevice, PollInv
    <2>4. OneDeviceInv'
      <3>1. ASSUME ~moved PROVE ds.meas \subseteq {desc'}
        <4>1. ds.meas \subseteq {desc} /\ (desc = NoDev \/ desc = desc')
          BY <2>2, <3>1, Probed DEF OneDeviceInv
        <4>2. NoDev \notin ds.meas
          BY HidAssumption DEF HidTypeOK, Published, Devices
        <4> QED BY <4>1, <4>2
      <3> QED BY <3>1, <2>2, Probed DEF OneDeviceInv, Attached
    <2> QED BY <2>1, <2>3, <2>4
  <1>21. ASSUME ReconnectResumes PROVE Rest'
    <2> USE <1>0, <1>21 DEF ReconnectResumes
    <2>1. BusInv'
      BY DEF HidTypeOK, BusInv, Buses
    <2>2. CacheFollowsDevice' /\ StaleWithoutDevice' /\ PollInv'
      BY DEF HidTypeOK, BusInv, CacheFollowsDevice, StaleWithoutDevice, PollInv, Published
    <2>3. ~unsup => Attached
      BY DEF OpenFails, Matches, Attached, CacheFollowsDevice, PollInv
    <2>4. OneDeviceInv'
      BY <2>3 DEF OneDeviceInv, Attached
    <2> QED BY <2>1, <2>2, <2>4
  <1>22. ASSUME Reconnected PROVE Rest'
    <2>0. /\ pc = "opened" /\ hd' = TRUE /\ active' = IF reprobe THEN gen ELSE active
          /\ UNCHANGED <<usb, handle, gen, reprobe, unsup, desc, exact, moved>>
          /\ active \in Nat /\ gen \in Nat
      BY <1>0, <1>22 DEF Reconnected, HidTypeOK
    <2>b. active <= gen
      BY <1>0 DEF BusInv
    <2>a. active' <= gen'
      BY <2>0, <2>b
    <2>1. BusInv'
      BY <1>0, <2>0, <2>a DEF BusInv
    <2>2. CASE unsup
      <3>1. /\ pc' = "top" /\ walk' = walk /\ ds'.stale /\ ds'.cached = ds.cached
            /\ ds'.meas \subseteq ds.meas
            /\ ds'.ident \in {ds.ident, NoDev}
            /\ (ds'.ident = ds.ident /\ ds'.purged = ds.purged) \/ ds'.purged
        BY <1>0, <1>22, <2>2, LostKeeps DEF Reconnected
      <3>2. CacheFollowsDevice' /\ StaleWithoutDevice'
        BY <1>0, <2>0, <2>2, <3>1 DEF CacheFollowsDevice, StaleWithoutDevice
      <3>4. PollInv'
        BY <1>0, <2>0, <2>2, <3>1 DEF PollInv
      <3>3. OneDeviceInv'
        BY <1>0, <2>0, <2>2, <3>1 DEF OneDeviceInv, Walks
      <3> QED BY <2>1, <3>2, <3>3, <3>4
    <2>3. CASE ~unsup
      <3>1. /\ pc' = "iwalk" /\ ds' = ds
            /\ walk'.read = {} /\ walk'.fresh = {} /\ walk'.buffer = walk.fresh
        BY <1>0, <1>22, <2>3, WalkStarted DEF Reconnected, StartWalk
      <3>2. CacheFollowsDevice' /\ StaleWithoutDevice' /\ PollInv'
        BY <1>0, <2>0, <2>3, <3>1 DEF CacheFollowsDevice, StaleWithoutDevice, PollInv, Walks
      <3>3. OneDeviceInv'
        BY <1>0, <2>0, <2>3, <3>1 DEF OneDeviceInv, Attached, Walks
      <3> QED BY <2>1, <3>2, <3>3
    <2> QED BY <2>2, <2>3
  <1>23. ASSUME ReadReport PROVE Rest'
    <2> USE <1>0, <1>23 DEF ReadReport, InWalk, Reachable
    <2>1. BusInv'
      BY DEF HidTypeOK, BusInv, Buses
    <2>2. CacheFollowsDevice' /\ StaleWithoutDevice' /\ PollInv'
      BY ReportRead DEF HidTypeOK, BusInv, CacheFollowsDevice, StaleWithoutDevice, PollInv
    <2>3. OneDeviceInv'
      BY ReportRead DEF HidTypeOK, BusInv, CacheFollowsDevice, PollInv, OneDeviceInv, Attached
    <2> QED BY <2>1, <2>2, <2>3
  <1>24. ASSUME ReadBuffered PROVE Rest'
    <2> USE <1>0, <1>24 DEF ReadBuffered, InWalk
    <2>1. BusInv'
      BY DEF HidTypeOK, BusInv, Buses
    <2>2. CacheFollowsDevice' /\ StaleWithoutDevice' /\ PollInv'
      BY BufferRead DEF HidTypeOK, BusInv, CacheFollowsDevice, StaleWithoutDevice, PollInv
    <2>3. OneDeviceInv'
      BY BufferRead DEF HidTypeOK, BusInv, CacheFollowsDevice, PollInv, OneDeviceInv, Attached
    <2> QED BY <2>1, <2>2, <2>3
  <1>25. ASSUME ReadTimesOut PROVE Rest'
    <2> USE <1>0, <1>25 DEF ReadTimesOut, InWalk, Reachable
    <2>1. BusInv'
      BY DEF HidTypeOK, BusInv, Buses
    <2>2. CacheFollowsDevice' /\ StaleWithoutDevice' /\ PollInv'
      BY ReportMissed DEF HidTypeOK, BusInv, CacheFollowsDevice, StaleWithoutDevice, PollInv
    <2>3. OneDeviceInv'
      BY ReportMissed DEF HidTypeOK, BusInv, CacheFollowsDevice, PollInv, OneDeviceInv, Attached
    <2> QED BY <2>1, <2>2, <2>3
  <1>26. ASSUME WalkLost PROVE Rest'
    <2>1. /\ ~hd' /\ pc' = "top" /\ walk' = walk
          /\ UNCHANGED <<usb, handle, gen, active, reprobe, unsup, desc, exact, moved>>
          /\ ds' \in TimeoutCheck(DataStale(ds))
      BY <1>26 DEF WalkLost
    <2>2. /\ ds'.stale /\ ds'.cached = ds.cached /\ ds'.meas \subseteq ds.meas
          /\ ds'.ident \in {ds.ident, NoDev}
          /\ (ds'.ident = ds.ident /\ ds'.purged = ds.purged) \/ ds'.purged
      BY <1>0, <2>1, LostKeeps
    <2>3. BusInv'
      BY <1>0, <2>1 DEF BusInv
    <2>4. pc \in Walks /\ pc # "initwalk"
      BY <1>26 DEF WalkLost, InWalk
    <2>5. PollInv'
      BY <1>0, <2>1, <2>2, <2>4 DEF PollInv
    <2>6. CacheFollowsDevice' /\ StaleWithoutDevice'
      BY <1>0, <2>1, <2>2 DEF CacheFollowsDevice, StaleWithoutDevice
    <2>7. OneDeviceInv'
      BY <1>0, <2>1, <2>2 DEF OneDeviceInv, Walks
    <2> QED BY <2>3, <2>5, <2>6, <2>7
  <1>27. ASSUME InitWalkFatal PROVE Rest'
    BY <1>27, Restarted DEF InitWalkFatal
  <1>28. ASSUME InitFaults PROVE Rest'
    BY <1>28, Restarted DEF InitFaults
  <1>29. ASSUME MatcherFault PROVE Rest'
    BY <1>29, Restarted DEF MatcherFault
  <1>30. ASSUME InitWalkDone PROVE Rest'
    <2> USE <1>0, <1>30 DEF InitWalkDone, WalkEnds
    <2>1. BusInv'
      BY DEF HidTypeOK, BusInv, Buses
    <2>2. CacheFollowsDevice' /\ StaleWithoutDevice' /\ PollInv'
      BY Zenon DEF HidTypeOK, BusInv, CacheFollowsDevice, StaleWithoutDevice, PollInv, Published
    <2>3. OneDeviceInv'
      BY Zenon DEF HidTypeOK, BusInv, CacheFollowsDevice, PollInv, OneDeviceInv, Attached, Published
    <2> QED BY <2>1, <2>2, <2>3
  <1>31. ASSUME ReconnectWalkDone PROVE Rest'
    <2> USE <1>0, <1>31 DEF ReconnectWalkDone, StartWalk, WalkEnds
    <2>1. BusInv'
      BY DEF HidTypeOK, BusInv, Buses
    <2>2. CacheFollowsDevice' /\ StaleWithoutDevice' /\ PollInv'
      BY WalkStarted DEF HidTypeOK, BusInv, CacheFollowsDevice, StaleWithoutDevice, PollInv
    <2>3. OneDeviceInv'
      BY WalkStarted DEF HidTypeOK, BusInv, CacheFollowsDevice, PollInv, OneDeviceInv, Attached
    <2> QED BY <2>1, <2>2, <2>3
  <1>32. ASSUME QuickWalkDone PROVE Rest'
    <2> USE <1>0, <1>32 DEF QuickWalkDone, WalkEnds
    <2>1. BusInv'
      BY DEF HidTypeOK, BusInv, Buses
    <2>2. CacheFollowsDevice' /\ StaleWithoutDevice' /\ PollInv'
      BY Zenon DEF HidTypeOK, BusInv, CacheFollowsDevice, StaleWithoutDevice, PollInv, Published
    <2>3. OneDeviceInv'
      BY Zenon DEF HidTypeOK, BusInv, CacheFollowsDevice, PollInv, OneDeviceInv, Attached, Published
    <2> QED BY <2>1, <2>2, <2>3
  <1>33. ASSUME FullWalkDone PROVE Rest'
    <2> USE <1>0, <1>33
    <2>1. BusInv'
      BY DEF HidTypeOK, BusInv, Buses, FullWalkDone
    <2>2. /\ pc = "fwalk" /\ pc' = "top" /\ active' = gen
          /\ UNCHANGED <<usb, handle, gen, hd, unsup, desc, exact, walk, moved>>
      BY DEF FullWalkDone
    <2>3. CacheFollowsDevice' /\ StaleWithoutDevice' /\ PollInv'
      BY <2>2, FullUpdate DEF CacheFollowsDevice, StaleWithoutDevice, PollInv
    <2>4. OneDeviceInv'
      <3>1. ~moved => ds'.meas \subseteq {desc} /\ Attached
        BY <2>2, FullUpdate DEF OneDeviceInv, PollInv
      <3> QED BY <3>1, <2>2 DEF OneDeviceInv, Attached
    <2> QED BY <2>1, <2>3, <2>4
  <1> QED BY Zenon, <1>t, <1>1, <1>2, <1>3, <1>4, <1>5, <1>6, <1>7, <1>8, <1>9, <1>10, <1>11, <1>12,
             <1>13,
             <1>14, <1>15, <1>17, <1>18, <1>19, <1>20, <1>21, <1>22, <1>23, <1>24, <1>25,
             <1>26, <1>27, <1>28, <1>29, <1>30, <1>31, <1>32, <1>33
             DEF HidNext, UsbStep, DriverStep, HidInv, HidSafe

LEMMA HidAlways == HidSpec => []HidInv
  <1>1. HidInv /\ UNCHANGED hidVars => HidInv'
    <2> SUFFICES ASSUME HidInv, UNCHANGED hidVars PROVE HidInv'
      OBVIOUS
    <2>1. HidTypeOK'
      BY DEF HidInv, HidSafe, HidTypeOK, hidVars
    <2>2. CacheFollowsDevice' /\ StaleWithoutDevice'
      BY Zenon DEF HidInv, HidSafe, CacheFollowsDevice, StaleWithoutDevice, hidVars
    <2>3. BusInv' /\ PollInv'
      BY DEF HidInv, BusInv, PollInv, hidVars
    <2>4. OneDeviceInv'
      BY Zenon DEF HidInv, OneDeviceInv, Attached, hidVars
    <2> QED BY <2>1, <2>2, <2>3, <2>4 DEF HidInv, HidSafe
  <1> QED BY <1>1, HidInitially, HidStep, PTL DEF HidSpec

(* Whatever devices come and go while the driver polls (usb.c, espusb.c and *)
(* upsdrv_updateinfo interleaved), the descriptor, the matcher and the      *)
(* cached identity are one device's, and without a device the data are      *)
(* stale.                                                                   *)
THEOREM DriverHasOneDevice == HidSpec => []HidSafe
  <1>1. HidInv => HidSafe
    BY DEF HidInv
  <1> QED BY HidAlways, <1>1, PTL

(* Values published as current are those of the device that is identified,  *)
(* unless the attachment changed inside the poll that read them             *)
(* (upsdrv_updateinfo's reading of the generation before and after).        *)
THEOREM CurrentValuesAreOneDevices == HidSpec => []OneDeviceAtATime
  <1>1. HidInv => OneDeviceAtATime
    BY DEF HidInv, PollInv, OneDeviceInv, OneDeviceAtATime
  <1> QED BY HidAlways, <1>1, PTL

-----------------------------------------------------------------------------
(* The two meet at the device only if the old one is not found by its PID    *)
(* file: while it is alive the file is its own, and the new one gets past    *)
(* the signals only when it is not.                                          *)
UsesPid == Killable /\ ~(run.foreground /\ run.op = "start")
Taking == {"writepid", "init", "listen", "serving", "shutdown"}
TakeInv ==
    /\ "old" \in device => old.pc \in {"running", "told"}
    /\ "fresh" \in device => fresh.pc \in {"listen", "serving", "shutdown"}
    /\ UsesPid /\ OldAlive => pidfile = "old"
    /\ UsesPid /\ fresh.pc \in Taking => ~OldAlive

(* Where each way to call the program leads. *)
PathInv ==
    /\ run.op = "exit" => fresh.pc \in {"command", "succeeded", "exited"}
    /\ run.op = "signal" => fresh.pc \in {"signal", "succeeded", "exited"}
    /\ run.op = "start" =>
          fresh.pc \notin {"allow", "kill", "shutdown", "command", "signal", "succeeded"}
    /\ run.op = "killpower" => fresh.pc \notin {"listen", "serving", "command", "signal"}
    /\ fresh.pc = "again" /\ fresh.query # "none" => fresh.left > 0

(* An answer to the last request is what the old one made of that request:   *)
(* an earlier one that is still queued is replaced, with its answer.         *)
DialogInv ==
    /\ fresh.pc = "kill" /\ fresh.query # "none" =>
         /\ old.queue \in {"none", "killpower"} /\ (old.queue # "none" => old.reply = "none")
         /\ old.reply = "handled" => done.shutdowns
    /\ fresh.pc = "command" /\ fresh.query # "none" =>
         /\ old.queue \in {"none", "exit"} /\ (old.queue # "none" => old.reply = "none")
         /\ old.reply # "none" => old.pc # "running"

Outcomes == KeepsOwnFiles /\ StrangersSpared /\ ShutdownSent /\ CommandObeyed
StartInv == StartTypeOK /\ PathInv /\ TakeInv /\ DialogInv /\ Outcomes

(* What a step of the dialog does to the program that starts. *)
LEMMA GoesEffect ==
    ASSUME StartTypeOK, NEW p, Goes(p), p \in {"allow", "kill", "ask", "again", "pid", "term", "kill9",
               "writepid", "init", "listen", "serving", "shutdown", "command", "signal", "succeeded", "exited"}
    PROVE fresh' \in FreshStates /\ fresh'.pc = p /\ fresh'.query = "none" /\ fresh'.left = fresh.left
<1> QED BY Zenon DEF StartTypeOK, Goes, FreshStates

(* What a request does to both. *)
LEMMA PostsEffect ==
    ASSUME StartTypeOK, NEW r \in Requests, Posts(r)
    PROVE /\ fresh' \in FreshStates /\ fresh'.pc = fresh.pc /\ fresh'.query = r /\ fresh'.left = fresh.left
          /\ old' \in OldStates /\ old'.pc = old.pc /\ old'.queue = r /\ old'.reply = "none"
          /\ OldAlive
<1> QED BY Zenon DEF StartTypeOK, Posts, FreshStates, OldStates, Connects

LEMMA StartInits == StartInit => StartInv
<1> SUFFICES ASSUME StartInit PROVE StartInv
  OBVIOUS
<1>1. run \in Runs /\ old \in OldStates /\ done \in Effects /\ ~done.shutdowns /\ ~done.strangers
  BY Zenon DEF StartInit, OldStates, Effects, Requests
<1>2. /\ fresh \in FreshStates /\ fresh.query = "none" /\ fresh.left = 0
      /\ fresh.pc = FirstStep[run.op]
  <2>1. FirstStep[run.op] \in {"ask", "allow", "command", "signal"}
    <3>1. run.op \in {"start", "killpower", "exit", "signal"}
      BY <1>1 DEF Runs
    <3>2. /\ FirstStep["start"] = "ask" /\ FirstStep["killpower"] = "allow"
          /\ FirstStep["exit"] = "command" /\ FirstStep["signal"] = "signal"
      BY DEF FirstStep
    <3> QED BY Zenon, <3>1, <3>2
  <2>2. 0 \in 0 .. MaxAsks + MaxTerms
    BY StartAssumption
  <2> QED BY Zenon, <2>1, <2>2 DEF StartInit, FreshStates
<1>3. /\ run.op = "start" => fresh.pc = "ask"
      /\ run.op = "killpower" => fresh.pc = "allow"
      /\ run.op = "exit" => fresh.pc = "command"
      /\ run.op = "signal" => fresh.pc = "signal"
  <2>1. /\ FirstStep["start"] = "ask" /\ FirstStep["killpower"] = "allow"
        /\ FirstStep["exit"] = "command" /\ FirstStep["signal"] = "signal"
    BY DEF FirstStep
  <2> QED BY Zenon, <1>2, <2>1
<1>4. fresh.pc \in {"ask", "allow", "command", "signal"}
  BY <1>1, <1>3 DEF Runs
<1>5. StartTypeOK
  BY <1>1, <1>2 DEF StartInit, StartTypeOK
<1>6. PathInv
  BY <1>1, <1>2, <1>3 DEF PathInv, Runs
<1>7. TakeInv
  BY Zenon, <1>4 DEF TakeInv, StartInit, OldAlive, Taking, UsesPid, Killable
<1> QED BY <1>1, <1>2, <1>4, <1>5, <1>6, <1>7
    DEF StartInv, DialogInv, Outcomes, KeepsOwnFiles, StrangersSpared, ShutdownSent, CommandObeyed

-----------------------------------------------------------------------------
(* The old instance *)

LEMMA OldServesKeeps == StartInv /\ OldServes => StartInv'
<1> SUFFICES ASSUME StartInv, OldServes PROVE StartInv'
  OBVIOUS
<1>1. PICK handled \in IF old.queue = "killpower" THEN BOOLEAN ELSE {TRUE} :
          /\ old' = [old EXCEPT !.queue = "none", !.reply = IF handled THEN "handled" ELSE "invalid",
                                !.pc = IF handled /\ old.queue # "allow" THEN "told" ELSE @]
          /\ done' = [done EXCEPT !.shutdowns = @ \/ (old.queue = "killpower" /\ handled)]
  BY Zenon DEF OldServes
<1>2. /\ old' \in OldStates /\ old'.queue = "none" /\ old'.reply \in {"handled", "invalid"}
      /\ old'.reply = "handled" <=> handled
      /\ old'.pc = IF handled /\ old.queue # "allow" THEN "told" ELSE "running"
  BY Zenon, <1>1 DEF StartInv, StartTypeOK, OldStates, OldServes
<1>3. done' \in Effects /\ done'.strangers = done.strangers
  <2> DEFINE t == done.shutdowns \/ (old.queue = "killpower" /\ handled)
  <2>1. t \in BOOLEAN
    BY Zenon
  <2>2. done' = [done EXCEPT !.shutdowns = t]
    BY <1>1
  <2> HIDE DEF t
  <2> QED BY <2>1, <2>2 DEF StartInv, StartTypeOK, Effects
<1>4. (done.shutdowns => done'.shutdowns) /\ (old.queue = "killpower" /\ handled => done'.shutdowns)
  BY Zenon, <1>1 DEF StartInv, StartTypeOK, Effects
<1>5. UNCHANGED <<run, fresh, device, sock, pidfile>> /\ old.pc = "running" /\ old.queue # "none"
  BY DEF OldServes
<1>6. OldAlive /\ OldAlive'
  BY <1>2, <1>5 DEF OldAlive
<1>7. StartTypeOK' /\ PathInv' /\ TakeInv'
  <2>1. StartTypeOK'
    BY <1>2, <1>3, <1>5 DEF StartInv, StartTypeOK
  <2>2. PathInv'
    BY Zenon, <1>5 DEF StartInv, PathInv
  <2>3. TakeInv'
    BY Zenon, <1>2, <1>5, <1>6 DEF StartInv, TakeInv, UsesPid, Killable
  <2> QED BY <2>1, <2>2, <2>3
<1>8. DialogInv'
  BY Zenon, <1>1, <1>2, <1>4, <1>5 DEF StartInv, DialogInv, StartTypeOK, OldStates, Requests
<1>9. Outcomes'
  BY Zenon, <1>2, <1>3, <1>4, <1>5
     DEF StartInv, Outcomes, KeepsOwnFiles, Killable, StrangersSpared, ShutdownSent, CommandObeyed
<1> QED BY <1>7, <1>8, <1>9 DEF StartInv


(* On its way out the old one gives up the device before it removes its      *)
(* files: a new one that serves has seen it gone.                            *)
LEMMA OldLeavesKeeps == StartInv /\ (OldReleasesDevice \/ OldCleansUp) => StartInv'
<1> SUFFICES ASSUME StartInv, OldReleasesDevice \/ OldCleansUp PROVE StartInv'
  OBVIOUS
<1>1. /\ old' \in OldStates /\ old'.queue = old.queue /\ old'.reply = old.reply
      /\ old.pc \in {"told", "cleaned"} /\ old'.pc \in {"cleaned", "gone"}
  BY DEF StartInv, StartTypeOK, OldStates, OldReleasesDevice, OldCleansUp
<1>2. UNCHANGED <<run, fresh, done>> /\ device' \subseteq device
  BY DEF OldReleasesDevice, OldCleansUp
<1>3. CASE OldReleasesDevice
  <2>1. "old" \notin device' /\ UNCHANGED <<sock, pidfile>> /\ OldAlive
    BY <1>3 DEF OldReleasesDevice, OldAlive
  <2>2. StartTypeOK' /\ PathInv' /\ TakeInv'
    <3>1. StartTypeOK'
      BY <1>1, <1>2, <2>1 DEF StartInv, StartTypeOK
    <3>2. PathInv'
      BY Zenon, <1>2 DEF StartInv, PathInv
    <3>3. TakeInv'
      BY Zenon, <1>2, <2>1 DEF StartInv, TakeInv, UsesPid, Killable
    <3> QED BY <3>1, <3>2, <3>3
  <2>3. DialogInv' /\ Outcomes'
    BY Zenon, <1>1, <1>2, <2>1
       DEF StartInv, DialogInv, Outcomes, KeepsOwnFiles, Killable, StrangersSpared,
                            ShutdownSent, CommandObeyed
  <2> QED BY <2>2, <2>3 DEF StartInv
<1>4. CASE OldCleansUp
  <2>1. /\ device' = device /\ old.pc = "cleaned" /\ old'.pc = "gone"
        /\ pidfile' \in {pidfile, "none"} /\ sock' = "none"
    BY <1>4 DEF OldCleansUp, StartInv, StartTypeOK, OldStates
  <2>2. OldAlive /\ ~OldAlive'
    BY <2>1 DEF OldAlive
  <2>3. "old" \notin device'
    BY <2>1 DEF StartInv, TakeInv, OldAlive
  <2>4. StartTypeOK' /\ PathInv' /\ TakeInv'
    BY <1>1, <1>2, <2>1, <2>2, <2>3 DEF StartInv, StartTypeOK, PathInv, TakeInv, UsesPid, Killable
  <2>5. DialogInv' /\ Outcomes'
    BY <1>1, <1>2, <2>1, <2>2
       DEF StartInv, DialogInv, Outcomes, KeepsOwnFiles, Killable, StrangersSpared, ShutdownSent,
           CommandObeyed, TakeInv, UsesPid, Taking
  <2> QED BY <2>4, <2>5 DEF StartInv
<1> QED BY <1>3, <1>4

-----------------------------------------------------------------------------
(* The dialog *)

(* A request is posted in a step that allows for it. *)
LEMMA PostsKeeps ==
    ASSUME StartInv, NEW r \in Requests, Posts(r), UNCHANGED <<run, device, sock, pidfile, done>>,
           fresh.pc \in {"allow", "kill", "ask", "again", "command"},
           fresh.pc = "kill" => r = "killpower", fresh.pc = "command" => r = "exit",
           fresh.pc = "again" => fresh.left > 0
    PROVE StartInv'
<1>1. StartTypeOK
  BY DEF StartInv
<1>2. /\ fresh' \in FreshStates /\ fresh'.pc = fresh.pc /\ fresh'.query = r /\ fresh'.left = fresh.left
      /\ old' \in OldStates /\ old'.pc = old.pc /\ old'.queue = r /\ old'.reply = "none"
  BY <1>1, PostsEffect
<1>3. StartTypeOK' /\ PathInv' /\ TakeInv'
  <2>1. StartTypeOK'
    BY <1>1, <1>2 DEF StartTypeOK
  <2>2. PathInv'
    BY <1>2 DEF StartInv, PathInv
  <2>3. UsesPid' = UsesPid /\ OldAlive' = OldAlive
    BY <1>2 DEF UsesPid, Killable, OldAlive
  <2>4. TakeInv'
    BY <1>2, <2>3 DEF StartInv, TakeInv
  <2> QED BY <2>1, <2>2, <2>4
<1>4. DialogInv' /\ Outcomes'
  BY <1>2 DEF StartInv, DialogInv, Outcomes, KeepsOwnFiles, Killable, StrangersSpared, ShutdownSent,
              CommandObeyed
<1> QED BY <1>3, <1>4 DEF StartInv

(* The new program goes on, with nothing asked, short of the device. *)
LEMMA MovesKeeps ==
    ASSUME StartInv, fresh' \in FreshStates, fresh'.query = "none",
           UNCHANGED <<run, old, device, sock, pidfile, done>>, PathInv',
           fresh.pc \notin Taking, fresh'.pc \in Taking => fresh'.pc # "serving" /\ ~UsesPid,
           fresh'.pc = "succeeded" /\ run.op = "killpower" => done.shutdowns,
           fresh'.pc = "succeeded" /\ run.op = "exit" => old.pc # "running"
    PROVE StartInv'
<1>1. StartTypeOK' /\ TakeInv'
  BY DEF StartInv, StartTypeOK, TakeInv, UsesPid, Killable, OldAlive, Taking
<1>2. DialogInv' /\ Outcomes'
  BY DEF StartInv, DialogInv, Outcomes, KeepsOwnFiles, Killable, StrangersSpared, ShutdownSent,
         CommandObeyed, Taking
<1> QED BY <1>1, <1>2 DEF StartInv

(* The same, for a step that only changes where it is. *)
LEMMA GoesKeeps ==
    ASSUME StartInv, NEW p, Goes(p), p \in {"kill", "ask", "pid", "init", "exited", "succeeded"},
           UNCHANGED <<run, old, device, sock, pidfile, done>>,
           p = "kill" => fresh.pc = "allow",
           p = "ask" => fresh.pc \in {"allow", "kill"},
           p = "pid" => fresh.pc \in {"ask", "again"},
           p = "init" => fresh.pc = "pid" /\ ~UsesPid,
           p = "exited" => fresh.pc \in {"again", "term", "command"},
           p = "succeeded" => \/ fresh.pc = "kill" /\ done.shutdowns
                              \/ fresh.pc = "command" /\ old.pc # "running"
    PROVE StartInv'
<1>1. fresh' \in FreshStates /\ fresh'.pc = p /\ fresh'.query = "none"
  BY GoesEffect DEF StartInv
<1>2. fresh.pc \notin Taking
  BY DEF Taking
<1>3. PathInv'
  BY <1>1 DEF StartInv, PathInv
<1>4. /\ fresh'.pc = "succeeded" /\ run.op = "killpower" => done.shutdowns
      /\ fresh'.pc = "succeeded" /\ run.op = "exit" => old.pc # "running"
  BY <1>1 DEF StartInv, PathInv
<1>5. fresh'.pc \in Taking => fresh'.pc # "serving" /\ ~UsesPid
  BY <1>1 DEF Taking
<1> QED BY <1>1, <1>2, <1>3, <1>4, <1>5, MovesKeeps

LEMMA AsksKeep ==
    StartInv /\ (AskAllow \/ AskKillpower \/ AskExit \/ AskAgain \/ CommandAsks) => StartInv'
<1> SUFFICES ASSUME StartInv, AskAllow \/ AskKillpower \/ AskExit \/ AskAgain \/ CommandAsks
             PROVE StartInv'
  OBVIOUS
<1>0. UNCHANGED <<run, device, sock, pidfile, done>>
  BY DEF AskAllow, AskKillpower, AskExit, AskAgain, CommandAsks
<1>r. "allow" \in Requests /\ "killpower" \in Requests /\ "exit" \in Requests
  BY DEF Requests
<1>1. CASE AskAllow
  <2>1. CASE Posts("allow")
    BY <1>0, <1>1, <1>r, <2>1, PostsKeeps DEF AskAllow
  <2>2. CASE Goes("kill") /\ UNCHANGED old
    BY <1>0, <1>1, <2>2, GoesKeeps DEF AskAllow
  <2>3. CASE Goes("ask") /\ UNCHANGED old
    BY <1>0, <1>1, <2>3, GoesKeeps DEF AskAllow
  <2> QED BY <1>1, <2>1, <2>2, <2>3 DEF AskAllow
<1>2. CASE AskKillpower
  <2>1. CASE Posts("killpower")
    BY <1>0, <1>2, <1>r, <2>1, PostsKeeps DEF AskKillpower
  <2>2. CASE Answered /\ old.reply = "handled" /\ Goes("succeeded") /\ UNCHANGED old
    <3>1. fresh.pc = "kill" /\ done.shutdowns
      BY <1>2, <2>2 DEF AskKillpower, StartInv, DialogInv, Answered
    <3> QED BY <1>0, <2>2, <3>1, GoesKeeps
  <2>3. CASE Goes("ask") /\ UNCHANGED old
    BY <1>0, <1>2, <2>3, GoesKeeps DEF AskKillpower
  <2> QED BY <1>2, <2>1, <2>2, <2>3 DEF AskKillpower
<1>3. CASE AskExit
  <2>1. CASE Posts("exit")
    BY <1>0, <1>3, <1>r, <2>1, PostsKeeps DEF AskExit
  <2>2. CASE fresh' = [fresh EXCEPT !.pc = "again", !.query = "none", !.left = MaxAsks] /\ UNCHANGED old
    <3>1. /\ fresh' \in FreshStates /\ fresh'.pc = "again" /\ fresh'.query = "none"
      <4>1. MaxAsks \in 0 .. MaxAsks + MaxTerms
        BY StartAssumption
      <4> QED BY Zenon, <2>2, <4>1 DEF StartInv, StartTypeOK, FreshStates
    <3>2. PathInv' /\ fresh.pc \notin Taking /\ fresh'.pc \notin Taking
      BY <1>0, <1>3, <3>1 DEF AskExit, StartInv, PathInv, Taking
    <3> QED BY <1>0, <2>2, <3>1, <3>2, MovesKeeps
  <2>3. CASE Goes("pid") /\ UNCHANGED old
    BY <1>0, <1>3, <2>3, GoesKeeps DEF AskExit
  <2> QED BY <1>3, <2>1, <2>2, <2>3 DEF AskExit
<1>4. CASE AskAgain
  <2>1. CASE fresh.left > 0 /\ Posts("exit")
    BY <1>0, <1>4, <1>r, <2>1, PostsKeeps DEF AskAgain
  <2>2. CASE Answered /\ fresh' = [fresh EXCEPT !.query = "none", !.left = @ - 1] /\ UNCHANGED old
    <3>1. fresh.left \in 0 .. MaxAsks + MaxTerms /\ fresh.left > 0
      BY <1>4, <2>2 DEF AskAgain, Answered, StartInv, StartTypeOK, FreshStates, PathInv
    <3>2. fresh.left - 1 \in 0 .. MaxAsks + MaxTerms
      BY <3>1, StartAssumption
    <3>3. fresh' \in FreshStates /\ fresh'.pc = "again" /\ fresh'.query = "none"
      BY Zenon, <1>4, <2>2, <3>2 DEF AskAgain, StartInv, StartTypeOK, FreshStates
    <3>4. PathInv' /\ fresh.pc \notin Taking /\ fresh'.pc \notin Taking
      BY <1>0, <1>4, <3>3 DEF AskAgain, StartInv, PathInv, Taking
    <3> QED BY <1>0, <2>2, <3>3, <3>4, MovesKeeps
  <2>3. CASE Goes("pid") /\ UNCHANGED old
    BY <1>0, <1>4, <2>3, GoesKeeps DEF AskAgain
  <2> QED BY <1>4, <2>1, <2>2, <2>3 DEF AskAgain
<1>5. CASE CommandAsks
  <2>1. CASE Posts("exit")
    BY <1>0, <1>5, <1>r, <2>1, PostsKeeps DEF CommandAsks
  <2>2. CASE Goes("exited") /\ UNCHANGED old
    BY <1>0, <1>5, <2>2, GoesKeeps DEF CommandAsks
  <2>3. CASE Answered /\ Goes("succeeded") /\ UNCHANGED old
    <3>1. fresh.pc = "command" /\ old.pc # "running"
      BY <1>5, <2>3 DEF CommandAsks, StartInv, DialogInv, Answered
    <3> QED BY <1>0, <2>3, <3>1, GoesKeeps
  <2> QED BY <1>5, <2>1, <2>2, <2>3 DEF CommandAsks
<1> QED BY <1>1, <1>2, <1>3, <1>4, <1>5

-----------------------------------------------------------------------------
(* The signals *)

(* A number that kill accepts is the old one's, which is alive, or a         *)
(* stranger's whose name could not be found out.                             *)
LEMMA SignalsWhom ==
    ASSUME StartTypeOK, \E who \in {"old", "stranger"} : Signals(who)
    PROVE (pidfile = "old" /\ OldAlive) \/ (pidfile = "stranger" /\ run.name = "unknown")
<1>1. PICK who \in {"old", "stranger"} : Signals(who)
  OBVIOUS
<1> QED BY <1>1 DEF Signals, NameAllows

(* The old one, alive and with a PID file that may be used, is signalled. *)
LEMMA AliveIsSignalled ==
    ASSUME StartInv, UsesPid, OldAlive
    PROVE pidfile = "old" /\ \E who \in {"old", "stranger"} : Signals(who)
<1>1. pidfile = "old" /\ run.signalable /\ run.name \in {"match", "unknown"}
  BY DEF StartInv, TakeInv, UsesPid, Killable, StartTypeOK, Runs
<1>2. Signals("old")
  BY <1>1 DEF Signals, NameAllows
<1> QED BY <1>1, <1>2

(* What a signal does. *)
LEMMA HitEffect ==
    ASSUME StartInv, NEW p \in {"told", "gone"}, Hit(pidfile, p),
           (pidfile = "old" /\ OldAlive) \/ (pidfile = "stranger" /\ run.name = "unknown")
    PROVE /\ old' \in OldStates /\ old'.queue = old.queue /\ old'.reply = old.reply
          /\ old'.pc = "running" => old.pc = "running"
          /\ OldAlive' => OldAlive /\ (p = "gone" => pidfile # "old")
          /\ device' \subseteq device
          /\ "old" \in device' => old'.pc \in {"running", "told"}
          /\ done' \in Effects /\ done'.shutdowns = done.shutdowns
          /\ done'.strangers => done.strangers \/ run.name = "unknown"
<1>1. done' \in Effects /\ done'.shutdowns = done.shutdowns
  <2> DEFINE t == done.strangers \/ pidfile = "stranger"
  <2>1. t \in BOOLEAN
    BY Zenon
  <2>2. done' = [done EXCEPT !.strangers = t]
    BY DEF Hit
  <2> HIDE DEF t
  <2> QED BY <2>1, <2>2 DEF StartInv, StartTypeOK, Effects
<1>2. done'.strangers => done.strangers \/ run.name = "unknown"
  BY DEF Hit, StartInv, StartTypeOK, Effects
<1>3. CASE pidfile = "old" /\ OldAlive
  <2>1. old' = [old EXCEPT !.pc = IF old.pc = "running" \/ p = "gone" THEN p ELSE old.pc]
    BY <1>3 DEF Hit
  <2>2. /\ old' \in OldStates /\ old'.queue = old.queue /\ old'.reply = old.reply
        /\ old'.pc = IF old.pc = "running" \/ p = "gone" THEN p ELSE old.pc
    BY <2>1 DEF StartInv, StartTypeOK, OldStates
  <2>3. device' = IF p = "gone" THEN device \ {"old"} ELSE device
    BY <1>3 DEF Hit
  <2>4. "old" \in device' => old'.pc \in {"running", "told"}
    BY <2>2, <2>3 DEF StartInv, TakeInv
  <2> QED BY <1>1, <1>2, <1>3, <2>2, <2>3, <2>4 DEF OldAlive
<1>4. CASE pidfile = "stranger"
  BY <1>1, <1>2, <1>4 DEF Hit, StartInv, StartTypeOK, TakeInv, OldAlive
<1> QED BY Zenon, <1>3, <1>4

(* A signal does no harm to the invariant, if the program goes on to the     *)
(* files and the device only when the old one is gone.                       *)
LEMMA HitKeeps ==
    ASSUME StartInv, NEW p \in {"told", "gone"}, Hit(pidfile, p), UNCHANGED <<run, sock, pidfile>>,
           (pidfile = "old" /\ OldAlive) \/ (pidfile = "stranger" /\ run.name = "unknown"),
           fresh.pc \in {"term", "kill9"}, fresh' \in FreshStates,
           fresh'.pc \in {"term", "kill9"} \/ (fresh'.pc = "writepid" /\ (UsesPid => ~OldAlive'))
    PROVE StartInv'
<1>1. /\ old' \in OldStates /\ old'.queue = old.queue /\ old'.reply = old.reply
      /\ old'.pc = "running" => old.pc = "running"
      /\ OldAlive' => OldAlive
      /\ device' \subseteq device
      /\ "old" \in device' => old'.pc \in {"running", "told"}
      /\ done' \in Effects /\ done'.shutdowns = done.shutdowns
      /\ done'.strangers => done.strangers \/ run.name = "unknown"
  BY HitEffect
<1>2. "fresh" \notin device'
  BY Zenon, <1>1 DEF StartInv, TakeInv, Taking
<1>3. StartTypeOK' /\ PathInv'
  BY <1>1 DEF StartInv, StartTypeOK, PathInv
<1>4. TakeInv'
  BY Zenon, <1>1, <1>2 DEF StartInv, TakeInv, UsesPid, Killable, Taking
<1>5. DialogInv' /\ Outcomes'
  BY Zenon, <1>1
     DEF StartInv, DialogInv, Outcomes, KeepsOwnFiles, Killable, StrangersSpared, ShutdownSent,
              CommandObeyed
<1> QED BY <1>3, <1>4, <1>5 DEF StartInv

LEMMA SignalsKeep ==
    StartInv /\ (SkipsPid \/ LooksAtPid \/ Terminates \/ Kills \/ Interrupted) => StartInv'
<1> SUFFICES ASSUME StartInv, SkipsPid \/ LooksAtPid \/ Terminates \/ Kills \/ Interrupted
             PROVE StartInv'
  OBVIOUS
<1>0. StartTypeOK
  BY DEF StartInv
<1>1. CASE SkipsPid
  BY <1>1, GoesKeeps DEF SkipsPid, UsesPid
<1>2. CASE Interrupted
  BY <1>2, GoesKeeps DEF Interrupted
<1>3. CASE LooksAtPid
  <2>1. MaxTerms \in 0 .. MaxAsks + MaxTerms
    BY StartAssumption
  <2>2. fresh' \in FreshStates /\ fresh'.pc = "term" /\ fresh'.query = fresh.query
    BY Zenon, <1>0, <1>3, <2>1 DEF LooksAtPid, StartTypeOK, FreshStates
  <2>3. UNCHANGED <<run, old, device, sock, pidfile, done>> /\ fresh.pc = "pid"
    BY <1>3 DEF LooksAtPid
  <2>4. StartTypeOK' /\ PathInv' /\ TakeInv'
    BY <2>2, <2>3 DEF StartInv, StartTypeOK, PathInv, TakeInv, Taking, UsesPid, Killable, OldAlive
  <2>5. DialogInv' /\ Outcomes'
    BY <2>2, <2>3 DEF StartInv, DialogInv, Outcomes, KeepsOwnFiles, Killable, StrangersSpared,
                      ShutdownSent, CommandObeyed
  <2> QED BY <2>4, <2>5 DEF StartInv
<1>4. CASE Terminates
  <2>1. CASE pidfile # "none" /\ fresh.left > 0 /\ \E who \in {"old", "stranger"} : Signals(who)
    <3>1. Hit(pidfile, "told") /\ fresh' = [fresh EXCEPT !.left = @ - 1] /\ fresh.pc = "term"
      BY <1>4, <2>1 DEF Terminates
    <3>2. fresh.left - 1 \in 0 .. MaxAsks + MaxTerms
      BY <1>0, <2>1, StartAssumption DEF StartTypeOK, FreshStates
    <3>3. fresh' \in FreshStates /\ fresh'.pc = "term"
      BY <1>0, <3>1, <3>2 DEF StartTypeOK, FreshStates
    <3> QED BY <1>0, <1>4, <2>1, <3>1, <3>3, SignalsWhom, HitKeeps DEF Terminates
  <2>2. CASE ~(pidfile # "none" /\ fresh.left > 0 /\ \E who \in {"old", "stranger"} : Signals(who))
    <3> DEFINE p == IF fresh.left < MaxTerms /\ pidfile # "none" THEN "kill9" ELSE "writepid"
    <3>1. Goes(p) /\ UNCHANGED <<run, old, device, sock, pidfile, done>> /\ fresh.pc = "term"
      BY <1>4, <2>2 DEF Terminates
    <3>2. p \in {"kill9", "writepid"}
      OBVIOUS
    <3>3. UsesPid /\ OldAlive => p = "kill9"
      BY <2>2, AliveIsSignalled, StartAssumption DEF StartInv, StartTypeOK, FreshStates
    <3> HIDE DEF p
    <3>4. fresh' \in FreshStates /\ fresh'.pc = p /\ fresh'.query = "none"
      BY <1>0, <3>1, <3>2, GoesEffect
    <3>5. StartTypeOK' /\ PathInv'
      BY <3>1, <3>2, <3>4 DEF StartInv, StartTypeOK, PathInv
    <3>6. TakeInv'
      BY <3>1, <3>2, <3>3, <3>4 DEF StartInv, TakeInv, Taking, UsesPid, Killable, OldAlive
    <3>7. DialogInv' /\ Outcomes'
      BY <3>1, <3>2, <3>4
         DEF StartInv, DialogInv, Outcomes, KeepsOwnFiles, Killable, StrangersSpared,
                              ShutdownSent, CommandObeyed
    <3> QED BY <3>5, <3>6, <3>7 DEF StartInv
  <2> QED BY <2>1, <2>2
<1>5. CASE Kills
  <2>1. fresh.pc = "kill9" /\ Goes("writepid") /\ UNCHANGED <<run, sock, pidfile>>
    BY <1>5 DEF Kills
  <2>2. fresh' \in FreshStates /\ fresh'.pc = "writepid" /\ fresh'.query = "none"
    BY <1>0, <2>1, GoesEffect
  <2>3. CASE \E who \in {"old", "stranger"} : Signals(who)
    <3>1. Hit(pidfile, "gone")
      BY <1>5, <2>3 DEF Kills
    <3>2. (pidfile = "old" /\ OldAlive) \/ (pidfile = "stranger" /\ run.name = "unknown")
      BY <1>0, <2>3, SignalsWhom
    <3> DEFINE p == "gone"
    <3>3. p \in {"told", "gone"} /\ Hit(pidfile, p) /\ p = "gone"
      BY <3>1
    <3> HIDE DEF p
    <3>4. OldAlive' => OldAlive /\ pidfile # "old"
      BY <3>2, <3>3, HitEffect
    <3>5. UsesPid => ~OldAlive'
      BY <3>4 DEF StartInv, TakeInv
    <3> QED BY <2>1, <2>2, <3>2, <3>3, <3>5, HitKeeps
  <2>4. CASE ~\E who \in {"old", "stranger"} : Signals(who)
    <3>1. UNCHANGED <<run, old, device, sock, pidfile, done>>
      BY <1>5, <2>4 DEF Kills
    <3>2. UsesPid => ~OldAlive
      BY <2>4, AliveIsSignalled
    <3>3. StartTypeOK' /\ PathInv'
      BY <2>1, <2>2, <3>1 DEF StartInv, StartTypeOK, PathInv
    <3>4. TakeInv'
      BY <2>1, <2>2, <3>1, <3>2 DEF StartInv, TakeInv, Taking, UsesPid, Killable, OldAlive
    <3>5. DialogInv' /\ Outcomes'
      BY <2>2, <3>1 DEF StartInv, DialogInv, Outcomes, KeepsOwnFiles, Killable, StrangersSpared,
                        ShutdownSent, CommandObeyed
    <3> QED BY <3>3, <3>4, <3>5 DEF StartInv
  <2> QED BY <2>3, <2>4
<1> QED BY <1>1, <1>2, <1>3, <1>4, <1>5

-----------------------------------------------------------------------------
(* The files and the device *)

LEMMA CommandSignalsKeeps == StartInv /\ CommandSignals => StartInv'
<1> SUFFICES ASSUME StartInv, CommandSignals PROVE StartInv'
  OBVIOUS
<1>0. StartTypeOK
  BY DEF StartInv
<1>1. fresh.pc = "signal" /\ run.op = "signal" /\ UNCHANGED <<run, old, device, sock, pidfile>>
  BY DEF CommandSignals, StartInv, StartTypeOK, PathInv, Runs
<1>2. PICK p \in {"succeeded", "exited"} : Goes(p)
  BY DEF CommandSignals
<1>3. fresh' \in FreshStates /\ fresh'.pc = p /\ fresh'.query = "none"
  BY <1>0, <1>2, GoesEffect
<1>4. done' \in Effects /\ (done'.strangers => run.name = "unknown")
  <2>1. CASE \E who \in {"old", "stranger"} : Signals(who)
    <3> DEFINE t == done.strangers \/ pidfile = "stranger"
    <3>1. t \in BOOLEAN
      BY Zenon
    <3>2. done' = [done EXCEPT !.strangers = t]
      BY <2>1 DEF CommandSignals
    <3>3. t => run.name = "unknown"
      BY <1>0, <2>1, SignalsWhom DEF StartInv, Outcomes, StrangersSpared
    <3> HIDE DEF t
    <3> QED BY <1>0, <3>1, <3>2, <3>3 DEF StartTypeOK, Effects
  <2>2. CASE ~\E who \in {"old", "stranger"} : Signals(who)
    BY <1>0, <2>2 DEF CommandSignals, StartTypeOK, StartInv, Outcomes, StrangersSpared
  <2> QED BY <2>1, <2>2
<1>5. StartTypeOK' /\ PathInv' /\ TakeInv'
  BY Zenon, <1>0, <1>1, <1>3, <1>4
     DEF StartInv, StartTypeOK, PathInv, TakeInv, Taking, UsesPid, Killable,
                                OldAlive
<1>6. DialogInv' /\ Outcomes'
  BY <1>1, <1>3, <1>4
     DEF StartInv, DialogInv, Outcomes, KeepsOwnFiles, StrangersSpared, ShutdownSent,
                          CommandObeyed
<1> QED BY <1>5, <1>6 DEF StartInv

LEMMA TakesKeep == StartInv /\ (WritesPid \/ InitUps \/ Listens \/ ForceShutdown) => StartInv'
<1> SUFFICES ASSUME StartInv, WritesPid \/ InitUps \/ Listens \/ ForceShutdown PROVE StartInv'
  OBVIOUS
<1>0. StartTypeOK /\ fresh.pc \in Taking
  BY DEF StartInv, WritesPid, InitUps, Listens, ForceShutdown, Taking
<1>1. run.op \in {"start", "killpower"} /\ (UsesPid => ~OldAlive)
  BY <1>0 DEF StartInv, StartTypeOK, PathInv, TakeInv, Taking, Runs
<1>2. /\ UNCHANGED <<run, old>> /\ sock' \in {sock, "fresh"} /\ pidfile' \in {pidfile, "fresh", "none"}
      /\ device' \in {device, device \cup {"fresh"}, device \ {"fresh"}}
  BY DEF WritesPid, InitUps, Listens, ForceShutdown
<1>3. done' \in Effects /\ done'.strangers = done.strangers /\ (done.shutdowns => done'.shutdowns)
  BY Zenon, <1>0 DEF WritesPid, InitUps, Listens, ForceShutdown, StartTypeOK, Effects
<1>4. PICK p \in {"init", "listen", "shutdown", "serving", "succeeded", "exited"} :
         /\ Goes(p)
         /\ p = "listen" => run.op = "start"
         /\ p = "shutdown" => run.op = "killpower"
         /\ p = "serving" => fresh.pc = "listen" /\ sock' = "fresh" /\ (~run.foreground => pidfile' = "fresh")
         /\ p = "succeeded" => fresh.pc = "shutdown" /\ done'.shutdowns
         /\ "fresh" \in device' => p \in {"listen", "shutdown", "serving"}
  <2>1. CASE WritesPid
    <3>1. "fresh" \notin device'
      BY <2>1 DEF WritesPid, StartInv, TakeInv
    <3> QED BY <2>1, <3>1 DEF WritesPid
  <2>2. CASE InitUps
    <3>1. CASE Goes(IF run.op = "start" THEN "listen" ELSE "shutdown")
      BY <1>1, <3>1
    <3>2. CASE Goes("exited") /\ UNCHANGED device
      <4>1. "fresh" \notin device'
        BY <2>2, <3>2 DEF InitUps, StartInv, TakeInv
      <4> QED BY <3>2, <4>1
    <3> QED BY <2>2, <3>1, <3>2 DEF InitUps
  <2>3. CASE Listens
    BY <2>3 DEF Listens
  <2>4. CASE ForceShutdown
    <3>1. done'.shutdowns /\ "fresh" \notin device' /\ fresh.pc = "shutdown"
      BY <1>0, <2>4 DEF ForceShutdown, StartTypeOK, Effects
    <3> QED BY <2>4, <3>1 DEF ForceShutdown
  <2> QED BY Zenon, <2>1, <2>2, <2>3, <2>4
<1>5. fresh' \in FreshStates /\ fresh'.pc = p /\ fresh'.query = "none"
  BY <1>0, <1>4, GoesEffect
<1>6. StartTypeOK'
  BY <1>0, <1>2, <1>3, <1>5 DEF StartTypeOK
<1>7. PathInv'
  <2>1. fresh.pc = "listen" => run.op = "start"
    BY <1>1 DEF StartInv, PathInv
  <2>2. fresh.pc = "shutdown" => run.op = "killpower"
    BY <1>1 DEF StartInv, PathInv
  <2> QED BY <1>1, <1>2, <1>4, <1>5, <2>1, <2>2 DEF PathInv
<1>8. TakeInv'
  BY <1>1, <1>2, <1>4, <1>5 DEF StartInv, TakeInv, Taking, UsesPid, Killable, OldAlive
<1>9. DialogInv'
  BY <1>4, <1>5 DEF DialogInv
<1>10. Outcomes'
  BY Zenon, <1>1, <1>2, <1>3, <1>4, <1>5
     DEF StartInv, Outcomes, KeepsOwnFiles, Killable, StrangersSpared, ShutdownSent, CommandObeyed
<1> QED BY <1>6, <1>7, <1>8, <1>9, <1>10 DEF StartInv

(* Whatever the old instance does and however late, starting a driver is     *)
(* safe, for any number of requests and signals (drivers/main.c,             *)
(* drivers_main): one of the two is at the device if PID files serve, the    *)
(* new one keeps its files, a stranger is signalled only if its name cannot  *)
(* be told, -k succeeds only after a shutdown was sent, and -c exit only if  *)
(* the old one leaves.                                                       *)
THEOREM StartIsSafe == StartSpec => []StartSafe
<1>1. StartInit => StartInv
  BY StartInits
<1>2. StartInv /\ [StartNext]_startVars => StartInv'
  <2> SUFFICES ASSUME StartInv, [StartNext]_startVars PROVE StartInv'
    OBVIOUS
  <2>1. CASE UNCHANGED startVars
    <3>1. UNCHANGED <<run, old, fresh, device, sock, pidfile, done>>
      BY <2>1 DEF startVars
    <3>2. StartTypeOK' /\ PathInv' /\ DialogInv'
      BY Zenon, <3>1 DEF StartInv, StartTypeOK, PathInv, DialogInv
    <3>3. TakeInv'
      BY Zenon, <3>1 DEF StartInv, TakeInv, UsesPid, Killable, OldAlive
    <3>4. Outcomes'
      BY Zenon, <3>1
         DEF StartInv, Outcomes, KeepsOwnFiles, StrangersSpared, ShutdownSent, CommandObeyed,
                         Killable
    <3> QED BY <3>2, <3>3, <3>4 DEF StartInv
  <2>2. CASE StartNext
    BY <2>2, OldServesKeeps, OldLeavesKeeps, AsksKeep, SignalsKeep, CommandSignalsKeeps, TakesKeep
       DEF StartNext
  <2> QED BY <2>1, <2>2
<1>3. StartInv => StartSafe
  <2> SUFFICES ASSUME StartInv PROVE StartSafe
    OBVIOUS
  <2>1. OneAtDevice
    BY DEF StartInv, TakeInv, UsesPid, Taking, OldAlive, OneAtDevice
  <2> QED BY <2>1 DEF StartInv, Outcomes, StartSafe
<1> QED BY <1>1, <1>2, <1>3, PTL DEF StartSpec
=============================================================================
