------------------------------ MODULE HidDriver ------------------------------
(***************************************************************************)
(* The UPS as the read-only NUT driver sees it: attachment of the USB      *)
(* device (src/src/usb.c), the espusb transport (drivers/espusb.c), the    *)
(* poll loop of drivers/usbhid-ups.c and the staleness of the published    *)
(* state (drivers/dstate.c).                                               *)
(*                                                                         *)
(* Three tasks interleave: the driver task, the HID class driver's task    *)
(* (which owns espusb_hid_device_handle and the attachment generation) and *)
(* the discovery task (which owns the device that control transfers go     *)
(* to).  One iteration of the poll loop is split where the others can      *)
(* step in: at its reads of the generation and of the handle, and between  *)
(* two reports.  Published values are abstracted to the device they came   *)
(* from.                                                                   *)
(***************************************************************************)
EXTENDS Integers

CONSTANTS
    Good,       \* UPSs a subdriver claims and whose descriptor parses
    Broken,     \* UPSs a subdriver claims but whose descriptor does not parse
    Foreign,    \* HID devices that no subdriver claims
    NoDev,      \* no device
    Dangling,   \* the exact matcher points at freed memory
    Addrs,      \* addresses of HID interface objects; a freed one is reused
    NoHandle,   \* the NULL handle
    DelaySet,   \* ups.conf sets lbrb_log_delay_sec (the firmware's own does not)
    Reports,    \* reports one walk reads
    MaxGen,     \* bound: attachment generations
    MaxErrs     \* bound: control transfers that fail with an I/O error

ASSUME HidAssumption ==
    /\ NoDev \notin Good \cup Broken \cup Foreign
    /\ Dangling \notin Good \cup Broken \cup Foreign \cup {NoDev}
    /\ DelaySet \in BOOLEAN
    /\ NoHandle \notin Addrs
    /\ Reports \in Nat \ {0} /\ MaxGen \in Nat /\ MaxErrs \in Nat

Devices == Good \cup Broken \cup Foreign

VARIABLES
    usb,        \* the bus, and which client has the device open
    handle,     \* espusb_hid_device_handle
    gen,        \* espusb_hid_attachment_generation
    sim,        \* the diagnostic disconnect simulation is active
    pc,         \* where the driver task is
    hd,         \* hd # NULL
    udev,       \* the handle inside the open transport wrapper
    active,     \* active_usb_generation
    reprobe,    \* reprobe_required
    unsup,      \* unsupported_device
    desc,       \* the device whose report descriptor is loaded
    exact,      \* the device the exact matcher accepts
    walk,       \* the report walk in progress
    ds,         \* dstate: staleness and whose values are published
    errs,       \* I/O errors so far
    moved       \* history: the attachment changed inside a poll iteration, and
                \* no device was invalidated since

usbVars == <<usb, handle, gen>>
drvVars == <<hd, udev, active, reprobe, unsup, desc, exact>>
hidVars == <<usb, handle, gen, sim, pc, hd, udev, active, reprobe, unsup, desc, exact,
          walk, ds, errs, moved>>

Off == [bus |-> "none", dev |-> NoDev, addr |-> NoHandle, hid |-> FALSE, disc |-> FALSE]
NoWalk == [left |-> 0, read |-> {}, fresh |-> {}, buffer |-> {}, missed |-> FALSE]
Walks == {"initwalk", "iwalk", "fwalk", "qwalk"}
Pcs == {"waiting", "initopen", "top", "invalidate", "checks", "open",
        "opened", "fault"} \cup Walks

(* The driver is inside an iteration of its poll loop. *)
Polling == pc \notin {"waiting", "top"}

Buses == [bus : {"none", "present", "gone"}, dev : Devices \cup {NoDev},
          addr : Addrs \cup {NoHandle}, hid : BOOLEAN, disc : BOOLEAN]
ReportWalks == [left : 0..Reports, read : SUBSET Devices, fresh : SUBSET Devices,
                buffer : SUBSET Devices, missed : BOOLEAN]
Published == [stale : BOOLEAN, purged : BOOLEAN, ident : Good \cup {NoDev},
              cached : Good \cup {NoDev}, meas : SUBSET Devices]

HidTypeOK ==
    /\ usb \in Buses
    /\ handle \in Addrs \cup {NoHandle}
    /\ gen \in 0..MaxGen
    /\ sim \in BOOLEAN
    /\ pc \in Pcs
    /\ hd \in BOOLEAN
    /\ udev \in Addrs \cup {NoHandle}
    /\ active \in 0..MaxGen
    /\ reprobe \in BOOLEAN
    /\ unsup \in BOOLEAN
    /\ desc \in Good \cup {NoDev}
    /\ exact \in Good \cup {NoDev, Dangling}
    /\ walk \in ReportWalks
    /\ ds \in Published
    /\ errs \in 0..MaxErrs
    /\ moved \in BOOLEAN

(* The firmware has just started; nothing has been enumerated. *)
HidInit ==
    /\ usb = Off
    /\ handle = NoHandle
    /\ gen = 0
    /\ sim = FALSE
    /\ pc = "waiting"
    /\ hd = FALSE
    /\ udev = NoHandle
    /\ active = 0
    /\ reprobe = FALSE
    /\ unsup = FALSE
    /\ desc = NoDev
    /\ exact = NoDev
    /\ walk = NoWalk
    /\ ds = [stale |-> TRUE, purged |-> FALSE, ident |-> NoDev, cached |-> NoDev,
             meas |-> {}]
    /\ errs = 0
    /\ moved = FALSE

-----------------------------------------------------------------------------
(* The USB host library: a device is enumerated only after both clients    *)
(* have let go of the previous one.                                        *)

Enumerate(d) ==
    /\ usb.bus = "none"
    /\ gen + 2 <= MaxGen
    /\ usb' = [bus |-> "present", dev |-> d, addr |-> NoHandle, hid |-> FALSE, disc |-> FALSE]
    /\ moved' = (moved \/ Polling)
    /\ UNCHANGED <<handle, gen, sim, pc, drvVars, walk, ds, errs>>

Unplug ==
    /\ usb.bus = "present"
    /\ usb' = [usb EXCEPT !.bus = "gone"]
    /\ UNCHANGED <<handle, gen, sim, pc, drvVars, walk, ds, errs, moved>>

BusFree ==
    /\ usb.bus = "gone" /\ ~usb.hid /\ ~usb.disc
    /\ usb' = Off
    /\ UNCHANGED <<handle, gen, sim, pc, drvVars, walk, ds, errs, moved>>

(* hid_host_device_callback: the interface is opened and started, the      *)
(* handle published, the generation advanced.                              *)
HidConnected ==
    /\ usb.bus = "present" /\ ~usb.hid
    /\ \E a \in Addrs :
         /\ usb' = [usb EXCEPT !.hid = TRUE, !.addr = a]
         /\ handle' = a
    /\ gen' = gen + 1
    /\ UNCHANGED <<sim, pc, drvVars, walk, ds, errs, moved>>

(* hid_host_interface_callback, DISCONNECTED: close, and if this is the    *)
(* published handle, withdraw it and advance the generation.               *)
HidDisconnected ==
    /\ usb.bus = "gone" /\ usb.hid
    /\ usb' = [usb EXCEPT !.hid = FALSE, !.addr = NoHandle]
    /\ handle' = IF handle = usb.addr THEN NoHandle ELSE handle
    /\ gen' = IF handle = usb.addr THEN gen + 1 ELSE gen
    /\ moved' = (moved \/ Polling)
    /\ UNCHANGED <<sim, pc, drvVars, walk, ds, errs>>

(* The discovery client opens the device, later closes the one that left. *)
DiscoveryOpens ==
    /\ usb.bus = "present" /\ ~usb.disc
    /\ usb' = [usb EXCEPT !.disc = TRUE]
    /\ UNCHANGED <<handle, gen, sim, pc, drvVars, walk, ds, errs, moved>>

DiscoveryCloses ==
    /\ usb.bus = "gone" /\ usb.disc
    /\ usb' = [usb EXCEPT !.disc = FALSE]
    /\ UNCHANGED <<handle, gen, sim, pc, drvVars, walk, ds, errs, moved>>

(* nut-diagnostics.c: the simulation is started over the network, and ends *)
(* by itself after at most NUT_DIAGNOSTIC_DISCONNECT_MAX_SECONDS.          *)
SimulationStarts ==
    /\ ~sim
    /\ sim' = TRUE
    /\ UNCHANGED <<usbVars, pc, drvVars, walk, ds, errs, moved>>

SimulationEnds ==
    /\ sim
    /\ sim' = FALSE
    /\ UNCHANGED <<usbVars, pc, drvVars, walk, ds, errs, moved>>

-----------------------------------------------------------------------------
(* dstate.c *)

DataStale(d) == [d EXCEPT !.stale = TRUE]

(* dstate_purge_external_values keeps driver.*, the cached identity among  *)
(* them.                                                                   *)
Purge(d) == [d EXCEPT !.ident = NoDev, !.meas = {}]

(* dstate_stale_timeout_check: once the data have been stale for five      *)
(* minutes.  The five minutes may be over at any check.                    *)
TimeoutCheck(d) ==
    {d} \cup IF d.stale /\ ~d.purged THEN {[Purge(d) EXCEPT !.purged = TRUE]} ELSE {}

(* dstate_dataok acts only on stale data. *)
DataOk(d) == IF d.stale THEN [d EXCEPT !.stale = FALSE, !.purged = FALSE] ELSE d

-----------------------------------------------------------------------------
(* The transport *)

(* The matcher chain: any subdriver's claim, then the exact matcher.  One   *)
(* that has been freed still accepts its device until its memory is reused. *)
Matches(d) ==
    /\ d \notin Foreign
    /\ exact = NoDev \/ exact = d \/ (exact = Dangling /\ desc = d)

(* nut_espusb_open fails: no handle, parameters or device information not  *)
(* available (the device may be leaving), or no match.                     *)
OpenFails == handle = NoHandle \/ usb.bus = "gone" \/ ~Matches(usb.dev) \/ exact = Dangling

(* USBNewExactMatcher frees what *matcher points at.  callback has freed    *)
(* the previous matcher already and leaves the pointer: if there was one,   *)
(* the block freed again is the one that has just been allocated.           *)
NewExactMatcher == IF exact = NoDev THEN usb.dev ELSE Dangling

(* nut_espusb_open with a callback: the descriptor is parsed, and on       *)
(* success the device becomes the one the driver knows; a descriptor that  *)
(* does not parse leaves an open, unsupported device.                      *)
OpenProbes ==
    /\ handle # NoHandle /\ usb.bus = "present" /\ Matches(usb.dev)
    /\ udev' = handle
    /\ hd' = TRUE
    /\ IF usb.dev \in Good
         THEN /\ desc' = usb.dev /\ exact' = NewExactMatcher /\ unsup' = FALSE
              /\ ds' = [ds EXCEPT !.ident = usb.dev, !.cached = usb.dev]
         ELSE /\ desc' = NoDev /\ exact' = NoDev /\ unsup' = TRUE
              /\ ds' = ds

(* A walk starts.  What the previous walk read from the device is in the   *)
(* report buffer and may still be fresh enough to be used again.           *)
StartWalk(step) ==
    /\ pc' = step
    /\ walk' = [left |-> Reports, read |-> {}, fresh |-> {}, buffer |-> walk.fresh,
                missed |-> FALSE]

-----------------------------------------------------------------------------
(* Start of the driver *)

(* drv_main polls usb_hid_device_ready. *)
DriverStarts ==
    /\ pc = "waiting"
    /\ handle # NoHandle /\ usb.disc
    /\ pc' = "initopen"
    /\ UNCHANGED <<usbVars, sim, drvVars, walk, ds, errs, moved>>

(* upsdrv_initups *)
InitOpens ==
    /\ pc = "initopen"
    /\ OpenProbes
    /\ active' = gen
    /\ reprobe' = FALSE
    /\ IF unsup' THEN pc' = "top" /\ walk' = NoWalk ELSE StartWalk("initwalk")
    /\ UNCHANGED <<usbVars, sim, errs, moved>>

(* Without a device hd is NULL.  The defaults that depend on the product    *)
(* are looked up in *hd all the same, unless ups.conf sets the delay.       *)
InitFindsNothing ==
    /\ pc = "initopen"
    /\ OpenFails
    /\ unsup' = TRUE
    /\ reprobe' = TRUE
    /\ pc' = IF DelaySet THEN "top" ELSE "fault"
    /\ UNCHANGED <<usbVars, sim, hd, udev, active, desc, exact, walk, ds, errs, moved>>

-----------------------------------------------------------------------------
(* upsdrv_updateinfo *)

PollBegins ==
    /\ pc = "top"
    /\ pc' = IF hd /\ gen # active THEN "invalidate" ELSE "checks"
    /\ reprobe' = (reprobe \/ (~hd /\ gen # active))
    /\ active' = IF ~hd THEN gen ELSE active
    /\ UNCHANGED <<usbVars, sim, hd, udev, unsup, desc, exact, walk, ds, errs, moved>>

InvalidateReplaced_KeepsValues ==
    /\ pc = "invalidate"
    /\ pc' = "checks"
    /\ ds' = [DataStale(ds) EXCEPT !.cached = NoDev]
    /\ handle' = IF udev = handle THEN NoHandle ELSE handle
    /\ udev' = NoHandle /\ hd' = FALSE
    /\ desc' = NoDev /\ exact' = NoDev
    /\ unsup' = FALSE /\ reprobe' = TRUE
    /\ active' = gen
    /\ moved' = FALSE
    /\ walk' = NoWalk
    /\ UNCHANGED <<usb, gen, sim, errs>>

InvalidateReplaced_KeepsCache ==
    /\ pc = "invalidate"
    /\ pc' = "checks"
    /\ ds' = Purge(DataStale(ds))
    /\ handle' = IF udev = handle THEN NoHandle ELSE handle
    /\ udev' = NoHandle /\ hd' = FALSE
    /\ desc' = NoDev /\ exact' = NoDev
    /\ unsup' = FALSE /\ reprobe' = TRUE
    /\ active' = gen
    /\ moved' = FALSE
    /\ walk' = NoWalk
    /\ UNCHANGED <<usb, gen, sim, errs>>

(* invalidate_replaced_device; closing the wrapper also closes the         *)
(* published interface when the addresses are equal.                       *)
InvalidateReplaced ==
    /\ pc = "invalidate"
    /\ pc' = "checks"
    /\ ds' = [Purge(DataStale(ds)) EXCEPT !.cached = NoDev]
    /\ handle' = IF udev = handle THEN NoHandle ELSE handle
    /\ udev' = NoHandle /\ hd' = FALSE
    /\ desc' = NoDev /\ exact' = NoDev
    /\ unsup' = FALSE /\ reprobe' = TRUE
    /\ active' = gen
    /\ moved' = FALSE
    /\ walk' = NoWalk
    /\ UNCHANGED <<usb, gen, sim, errs>>

(* An open but unsupported device stays stale. *)
PollUnsupported ==
    /\ pc = "checks" /\ unsup /\ hd
    /\ pc' = "top"
    /\ ds' \in TimeoutCheck(DataStale(ds))
    /\ UNCHANGED <<usbVars, sim, drvVars, walk, errs, moved>>

Proceeds == pc = "checks" /\ ~(unsup /\ hd)

(* The simulation is on, or (no device) the last attempt is less than      *)
(* poll_interval ago.                                                      *)
PollEndsEarly ==
    /\ Proceeds
    /\ sim \/ ~hd
    /\ pc' = "top"
    /\ ds' \in TimeoutCheck(DataStale(ds))
    /\ UNCHANGED <<usbVars, sim, drvVars, walk, errs, moved>>

(* reconnect_ups closes the previous handle first; closing the published   *)
(* interface withdraws it without advancing the generation.                *)
PollReconnects ==
    /\ Proceeds
    /\ ~sim /\ ~hd
    /\ pc' = "open"
    /\ ds' \in TimeoutCheck(DataStale(ds))
    /\ handle' = IF udev = handle THEN NoHandle ELSE handle
    /\ udev' = NoHandle
    /\ UNCHANGED <<usb, gen, sim, hd, active, reprobe, unsup, desc, exact, walk, errs, moved>>

(* A full update every pollfreq seconds, a quick one otherwise. *)
PollWalks ==
    /\ Proceeds
    /\ ~sim /\ hd
    /\ ds' \in TimeoutCheck(ds)
    /\ \E step \in {"fwalk", "qwalk"} : StartWalk(step)
    /\ UNCHANGED <<usbVars, sim, drvVars, errs, moved>>

ReconnectFails ==
    /\ pc = "open"
    /\ OpenFails
    /\ pc' = "top"
    /\ ds' \in TimeoutCheck(ds)
    /\ UNCHANGED <<usbVars, sim, drvVars, walk, errs, moved>>

(* reprobe_required: the transport calls back with the descriptor. *)
ReconnectProbes ==
    /\ pc = "open" /\ reprobe
    /\ OpenProbes
    /\ pc' = "opened"
    /\ walk' = NoWalk
    /\ UNCHANGED <<usbVars, sim, active, reprobe, errs, moved>>

(* The device known already: a handle is enough. *)
ReconnectResumes ==
    /\ pc = "open" /\ ~reprobe
    /\ ~OpenFails
    /\ udev' = handle
    /\ pc' = "opened"
    /\ UNCHANGED <<usbVars, sim, hd, active, reprobe, unsup, desc, exact, walk, ds, errs,
                   moved>>

Reconnected ==
    /\ pc = "opened"
    /\ hd' = TRUE
    /\ active' = IF reprobe THEN gen ELSE active
    /\ IF unsup THEN pc' = "top" /\ ds' \in TimeoutCheck(DataStale(ds)) /\ walk' = walk
                ELSE StartWalk("iwalk") /\ ds' = ds
    /\ UNCHANGED <<usbVars, sim, udev, reprobe, unsup, desc, exact, errs, moved>>

-----------------------------------------------------------------------------
(* hid_ups_walk: one step per report *)

InWalk == pc \in Walks /\ walk.left > 0
Reachable == usb.disc /\ usb.bus = "present"

(* GET_REPORT goes to the device the discovery client has open. *)
ReadReport ==
    /\ InWalk /\ Reachable
    /\ walk' = [walk EXCEPT !.left = @ - 1, !.read = @ \cup {usb.dev},
                            !.fresh = @ \cup {usb.dev}]
    /\ ds' = [ds EXCEPT !.meas = @ \cup {usb.dev}]
    /\ UNCHANGED <<usbVars, sim, pc, drvVars, errs, moved>>

ReadBuffered ==
    /\ InWalk /\ walk.buffer # {}
    /\ walk' = [walk EXCEPT !.left = @ - 1, !.read = @ \cup walk.buffer]
    /\ ds' = [ds EXCEPT !.meas = @ \cup walk.buffer]
    /\ UNCHANGED <<usbVars, sim, pc, drvVars, errs, moved>>

(* A timeout, an overflow or a stall of one report: go on with the next. *)
ReadTimesOut ==
    /\ InWalk /\ Reachable
    /\ walk' = [walk EXCEPT !.left = @ - 1, !.missed = TRUE]
    /\ UNCHANGED <<usbVars, sim, pc, drvVars, ds, errs, moved>>

WalkLost_OnlyErrors ==
    /\ InWalk /\ pc # "initwalk"
    /\ errs' = IF Reachable THEN errs + 1 ELSE errs
    /\ Reachable => errs < MaxErrs
    /\ IF Reachable
         THEN hd' = FALSE /\ pc' = "top" /\ ds' \in TimeoutCheck(DataStale(ds)) /\ walk' = walk
         ELSE walk' = [walk EXCEPT !.left = @ - 1, !.missed = TRUE] /\ UNCHANGED <<hd, pc, ds>>
    /\ UNCHANGED <<usbVars, sim, udev, active, reprobe, unsup, desc, exact, moved>>

(* No device, or an I/O error: the instance is given up until a reconnect. *)
WalkLost ==
    /\ InWalk /\ pc # "initwalk"
    /\ ~Reachable \/ errs < MaxErrs
    /\ errs' = IF Reachable THEN errs + 1 ELSE errs
    /\ hd' = FALSE
    /\ pc' = "top"
    /\ ds' \in TimeoutCheck(DataStale(ds))
    /\ UNCHANGED <<usbVars, sim, udev, active, reprobe, unsup, desc, exact, walk, moved>>

(* The firmware starts over. *)
Restart ==
    /\ usb' = Off /\ handle' = NoHandle /\ gen' = 0
    /\ pc' = "waiting"
    /\ hd' = FALSE /\ udev' = NoHandle /\ active' = 0 /\ reprobe' = FALSE
    /\ unsup' = FALSE /\ desc' = NoDev /\ exact' = NoDev
    /\ walk' = NoWalk
    /\ ds' = [stale |-> TRUE, purged |-> FALSE, ident |-> NoDev, cached |-> NoDev,
              meas |-> {}]
    /\ sim' = FALSE /\ moved' = FALSE

(* A lost device while the driver initialises: fatalx, exit. *)
InitWalkFatal ==
    /\ InWalk /\ pc = "initwalk"
    /\ ~Reachable \/ errs < MaxErrs
    /\ errs' = IF Reachable THEN errs + 1 ELSE errs
    /\ Restart

(* The load through the NULL pointer ends in the panic handler. *)
InitFaults ==
    /\ pc = "fault"
    /\ errs' = errs
    /\ Restart

(* The heap notices the second free, or a dangling matcher is followed. *)
MatcherFault ==
    /\ \/ pc = "open" /\ reprobe /\ handle # NoHandle /\ exact # NoDev /\ Matches(usb.dev)
       \/ pc \in {"open", "invalidate"} /\ exact = Dangling
    /\ errs' = errs
    /\ Restart

WalkEnds == pc \in Walks /\ walk.left = 0

InitWalkDone ==
    /\ WalkEnds /\ pc = "initwalk"
    /\ pc' = "top"
    /\ UNCHANGED <<usbVars, sim, drvVars, walk, ds, errs, moved>>

(* After a reconnect the regular update follows in the same iteration. *)
ReconnectWalkDone ==
    /\ WalkEnds /\ pc = "iwalk"
    /\ \E step \in {"fwalk", "qwalk"} : StartWalk(step)
    /\ UNCHANGED <<usbVars, sim, drvVars, ds, errs, moved>>

QuickWalkDone ==
    /\ WalkEnds /\ pc = "qwalk"
    /\ pc' = "top"
    /\ UNCHANGED <<usbVars, sim, drvVars, walk, ds, errs, moved>>

(* A full update: the cached identity is restored if a purge removed it,   *)
(* the data become current, the generation of now is adopted.              *)
FullWalkDone ==
    /\ WalkEnds /\ pc = "fwalk"
    /\ pc' = "top"
    /\ ds' = DataOk([ds EXCEPT
                !.ident = IF ds.purged /\ ds.cached # NoDev THEN ds.cached ELSE @,
                !.meas = walk.read \cup (IF walk.missed THEN @ ELSE {})])
    /\ active' = gen
    /\ reprobe' = FALSE
    /\ UNCHANGED <<usbVars, sim, hd, udev, unsup, desc, exact, walk, errs, moved>>

-----------------------------------------------------------------------------
DriverStep ==
    \/ DriverStarts
    \/ InitOpens
    \/ InitFindsNothing
    \/ PollBegins
    \/ InvalidateReplaced
    \/ PollUnsupported
    \/ PollEndsEarly
    \/ PollReconnects
    \/ PollWalks
    \/ ReconnectFails
    \/ ReconnectProbes
    \/ ReconnectResumes
    \/ Reconnected
    \/ ReadReport
    \/ ReadBuffered
    \/ ReadTimesOut
    \/ WalkLost
    \/ InitWalkFatal
    \/ InitFaults
    \/ MatcherFault
    \/ InitWalkDone
    \/ ReconnectWalkDone
    \/ QuickWalkDone
    \/ FullWalkDone

UsbStep ==
    \/ BusFree
    \/ HidConnected
    \/ HidDisconnected
    \/ DiscoveryOpens
    \/ DiscoveryCloses

HidNext ==
    \/ \E d \in Devices : Enumerate(d)
    \/ Unplug
    \/ SimulationStarts
    \/ SimulationEnds
    \/ UsbStep
    \/ DriverStep

HidSpec == HidInit /\ [][HidNext]_hidVars

-----------------------------------------------------------------------------
(* Properties *)

(* The descriptor, the exact matcher and the cached identity always belong *)
(* to one device, and the published identity is that device's or none: no  *)
(* sequence of swaps, purges and restores brings back the identity of a    *)
(* UPS that was invalidated.                                               *)
CacheFollowsDevice ==
    /\ ds.cached = desc
    /\ exact \in {desc, Dangling}
    /\ ds.ident \in {NoDev, desc}

(* Between two polls, a driver that has lost its device or has one it      *)
(* cannot parse publishes its data as stale.                               *)
StaleWithoutDevice == pc = "top" /\ (~hd \/ unsup) => ds.stale

(* Data published as current are one device's own, as long as the          *)
(* attachment did not change inside a poll iteration.                      *)
OneDeviceAtATime == ~ds.stale /\ ~moved => ds.meas \subseteq {ds.ident}

(* A UPS that leaves for good is noticed: the data end up stale, whatever  *)
(* the poll was doing and whatever the report buffer still holds.          *)
LossNoticed == []<>(usb.bus = "present") \/ <>[](ds.stale)

(* A reprobe is broad: it considers whatever device is attached.           *)
(* (UPS replacement specification: a new generation clears the exact       *)
(* matcher before the reprobe.)                                            *)
ReprobeIsBroad == pc = "open" /\ reprobe /\ handle # NoHandle => Matches(usb.dev)

(* A device that is not supported, or that leaves before it was opened,    *)
(* does not end the driver at its start: it waits with stale data.         *)
(* (usbhid-ups.c:125-127; the message at 1687.)                            *)
StartSurvives == pc # "fault"

(* A working UPS that stays attached since the start is current again and  *)
(* again, through simulated losses and reports that time out: what the     *)
(* poll lost went through upsdrv_updateinfo's stale and reconnect handling *)
(* and came to an end.                                                     *)
FirstAttachmentIsPolled ==
    <>[](usb.bus = "present" /\ usb.dev \in Good /\ ~sim /\ gen <= 1 /\ errs = 0)
        => []<>(~ds.stale)

(* What the poll comes to, with a UPS that leaves and with one that stays    *)
(* (drivers/usbhid-ups.c:1295-1522).                                         *)
HidLive == LossNoticed /\ FirstAttachmentIsPolled

(* What the driver publishes is about the device it has: the cache follows   *)
(* the device, and without one the data are stale (usbhid-ups.c:342-393,     *)
(* 1295-1522).                                                               *)
HidSafe == HidTypeOK /\ CacheFollowsDevice /\ StaleWithoutDevice
=============================================================================
