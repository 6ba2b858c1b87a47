---------------------------- MODULE WifiProvision ----------------------------
(***************************************************************************)
(* Wi-Fi provisioning: the boot sequence that tests pending credentials,   *)
(* falls back on the saved ones and then on the setup portal (wifi.c,      *)
(* wifi-portal-lifecycle.c), the two credential records in NVS             *)
(* (wifi-credentials.c), the event handler that retries, the portal and    *)
(* the management routes that stage new credentials, and the BOOT button.  *)
(*                                                                         *)
(* Tasks: app_main inside wifi_provisioning_init (main), the event loop    *)
(* task (wifi.handler), one HTTP handler at a time (web), the restart task *)
(* (wifi.restart) and the recovery task (recovery).  The station driver    *)
(* and its event queue (sta) are the environment.  Each NVS call is a step *)
(* of its own: power can be lost between any two.                          *)
(***************************************************************************)
EXTENDS Integers, Sequences

CONSTANTS
    Submissions,    \* credentials a user may enter, [ssid, password]
    Working,        \* those a network in range accepts and gives a lease
    Open,           \* the empty password
    Unset,          \* an NVS key that does not exist
    MaxRetries,     \* WIFI_MAXIMUM_RETRIES
    MaxEvents       \* bound: events the driver posts before they are handled

ASSUME WifiAssumption ==
    /\ Working \subseteq Submissions
    /\ \A c \in Submissions :
          c = [ssid |-> c.ssid, password |-> c.password] /\ Unset \notin {c.ssid, c.password}
    /\ MaxRetries \in Nat /\ MaxEvents \in Nat \ {0}

VARIABLES
    nvs,        \* the namespace wifi-config: the active and the pending record
    sta,        \* the station driver: its state, configuration, posted events
    wifi,       \* the static variables of wifi.c, the event bits, the tasks it starts
    main,       \* wifi_provisioning_init and the records it has loaded
    web,        \* the HTTP handler that stores a submission
    recovery,   \* wifi_recovery_task: "idle", or "erased" and about to restart
    hist        \* what the properties remember

wifiVars == <<nvs, sta, wifi, main, web, recovery, hist>>

Ssids == {c.ssid : c \in Submissions} \cup {Unset}
Passwords == {c.password : c \in Submissions} \cup {Unset}
Records == [ssid : Ssids, password : Passwords]
Blank == [ssid |-> Unset, password |-> Unset]

(* wifi_credentials_load_keys: both keys are there. *)
Whole(c) == Unset \notin {c.ssid, c.password}

Saving == {"saveSsid", "savePassword"}
Trying == {"eraseSsid", "erasePassword", "connect", "wait", "connected", "failed"} \cup Saving

NvsStates == [active : Records, pending : Records]
StaEvents == {"associated", "gotIp", "disconnected"}
StaStates ==
    [state : {"idle", "connecting", "associated", "online"}, net : Records,
     config : Records, queue : Seq(StaEvents)]
WifiStates ==
    [requested : BOOLEAN, retries : 0 .. MaxRetries, connected : BOOLEAN,
     handler : {"idle", "retrying"}, portal : {"off", "starting", "on"},
     managed : BOOLEAN, restart : BOOLEAN]
MainStates ==
    [pc : Trying \cup {"start", "joined", "portal", "portalWait", "done"},
     kind : {"pending", "saved"}, pend : Records, saved : Records]
WebStates ==
    [pc : {"idle", "writeSsid", "writePassword", "schedule"},
     via : {"portal", "management"}, creds : Records]
WifiHists == [leased : SUBSET Records, torn : BOOLEAN, attempted : BOOLEAN]

(* The retry counter never passes its limit, and every record is made of    *)
(* submitted parts.                                                         *)
WifiTypeOK ==
    /\ nvs \in NvsStates /\ sta \in StaStates /\ wifi \in WifiStates /\ main \in MainStates
    /\ web \in WebStates /\ recovery \in {"idle", "erased"} /\ hist \in WifiHists

StaOff == [state |-> "idle", net |-> Blank, config |-> Blank, queue |-> <<>>]
WifiOff == [requested |-> FALSE, retries |-> 0, connected |-> FALSE, handler |-> "idle",
            portal |-> "off", managed |-> FALSE, restart |-> FALSE]
MainStart == [pc |-> "start", kind |-> "pending", pend |-> Blank, saved |-> Blank]
WebIdle == [pc |-> "idle", via |-> "portal", creds |-> Blank]

(* A device with nothing saved, or with a network it has joined before. *)
WifiInit ==
    \E c \in Working \cup {Blank} :
        /\ nvs = [active |-> c, pending |-> Blank]
        /\ hist = [leased |-> {c} \ {Blank}, torn |-> FALSE, attempted |-> FALSE]
        /\ sta = StaOff /\ wifi = WifiOff /\ main = MainStart
        /\ web = WebIdle /\ recovery = "idle"

-----------------------------------------------------------------------------
(* The station driver of ESP-IDF. *)

Posted(s, e) == [s EXCEPT !.queue = Append(@, e)]
EspConnect(s) == IF s.state = "idle" THEN [s EXCEPT !.state = "connecting", !.net = s.config] ELSE s
EspDisconnect(s) ==
    IF s.state = "idle" THEN s
    ELSE Posted([s EXCEPT !.state = "idle", !.net = Blank], "disconnected")

StaAssociates ==
    /\ sta.state = "connecting" /\ Len(sta.queue) < MaxEvents
    /\ sta' = Posted([sta EXCEPT !.state = "associated"], "associated")
    /\ UNCHANGED <<nvs, wifi, main, web, recovery, hist>>

StaLeases ==
    /\ sta.state = "associated" /\ sta.net \in Working /\ Len(sta.queue) < MaxEvents
    /\ sta' = Posted([sta EXCEPT !.state = "online"], "gotIp")
    /\ hist' = [hist EXCEPT !.leased = @ \cup {sta.net}]
    /\ UNCHANGED <<nvs, wifi, main, web, recovery>>

StaLoses ==
    /\ sta.state # "idle" /\ Len(sta.queue) < MaxEvents
    /\ sta' = EspDisconnect(sta)
    /\ UNCHANGED <<nvs, wifi, main, web, recovery, hist>>

-----------------------------------------------------------------------------
(* wifi_event_handler, on the event loop task. *)

Event(e) == wifi.handler = "idle" /\ sta.queue # <<>> /\ Head(sta.queue) = e
Handled == sta' = [sta EXCEPT !.queue = Tail(@)]
(* xEventGroupSetBits releases a task that waits for the bit. *)
Woken(pc) == main' = IF main.pc = "wait" THEN [main EXCEPT !.pc = pc] ELSE main

(* IP_EVENT_STA_GOT_IP, which also starts the management server. *)
EventGotIp ==
    /\ Event("gotIp") /\ Handled
    /\ wifi' = [wifi EXCEPT !.retries = 0, !.connected = TRUE, !.managed = TRUE]
    /\ Woken("connected")
    /\ UNCHANGED <<nvs, web, recovery, hist>>

EventAssociated ==
    /\ Event("associated") /\ Handled
    /\ UNCHANGED <<nvs, wifi, main, web, recovery, hist>>

EventDisconnected ==
    /\ Event("disconnected") /\ Handled
    /\ ~wifi.requested
    /\ wifi' = [wifi EXCEPT !.connected = FALSE]
    /\ UNCHANGED <<nvs, main, web, recovery, hist>>

(* The handler has seen connection_requested; esp_wifi_connect comes later. *)
EventRetries ==
    /\ Event("disconnected") /\ Handled
    /\ wifi.requested /\ wifi.retries < MaxRetries
    /\ wifi' = [wifi EXCEPT !.connected = FALSE, !.retries = @ + 1, !.handler = "retrying"]
    /\ UNCHANGED <<nvs, main, web, recovery, hist>>

EventReconnects ==
    /\ wifi.handler = "retrying"
    /\ wifi' = [wifi EXCEPT !.handler = "idle"]
    /\ sta' = EspConnect(sta)
    /\ UNCHANGED <<nvs, main, web, recovery, hist>>

EventGivesUp ==
    /\ Event("disconnected") /\ Handled
    /\ wifi.requested /\ wifi.retries = MaxRetries
    /\ wifi' = [wifi EXCEPT !.connected = FALSE, !.requested = FALSE]
    /\ Woken("failed")
    /\ UNCHANGED <<nvs, web, recovery, hist>>

-----------------------------------------------------------------------------
(* wifi_provisioning_init *)

MainLoads ==
    /\ main.pc = "start"
    /\ main' = [pc |-> IF Whole(nvs.pending) THEN "eraseSsid"
                       ELSE IF Whole(nvs.active) THEN "connect" ELSE "portal",
                kind |-> IF Whole(nvs.pending) THEN "pending" ELSE "saved",
                pend |-> nvs.pending, saved |-> nvs.active]
    /\ UNCHANGED <<nvs, sta, wifi, web, recovery, hist>>

(* The records are wiped from memory when the attempts are over. *)
Finished(pc) == [MainStart EXCEPT !.pc = pc]

(* What follows a failed attempt: saved after pending, the portal after saved. *)
NextAttempt ==
    main' = IF main.kind = "pending" /\ Whole(main.saved)
            THEN [main EXCEPT !.pc = "connect", !.kind = "saved"]
            ELSE Finished("portal")

(* wifi_try_pending_credentials erases the record before it is tested. *)
MainErasesSsid ==
    /\ main.pc = "eraseSsid"
    /\ nvs' = [nvs EXCEPT !.pending.ssid = Unset]
    /\ main' = [main EXCEPT !.pc = "erasePassword"]
    /\ UNCHANGED <<sta, wifi, web, recovery, hist>>

MainErasesPassword ==
    /\ main.pc = "erasePassword"
    /\ nvs' = [nvs EXCEPT !.pending.password = Unset]
    /\ main' = [main EXCEPT !.pc = "connect"]
    /\ UNCHANGED <<sta, wifi, web, recovery, hist>>

(* A record that cannot be erased is not tried. *)
MainEraseFails ==
    /\ main.pc \in {"eraseSsid", "erasePassword"}
    /\ NextAttempt
    /\ UNCHANGED <<nvs, sta, wifi, web, recovery, hist>>

Target == IF main.kind = "pending" THEN main.pend ELSE main.saved

MainConnects_SavesFirst ==
    /\ main.pc = "connect" /\ sta.state # "connecting"
    /\ nvs' = IF main.kind = "pending" THEN [nvs EXCEPT !.active = main.pend] ELSE nvs
    /\ wifi' = [wifi EXCEPT !.connected = FALSE, !.retries = 0, !.requested = TRUE]
    /\ sta' = EspConnect([sta EXCEPT !.config = Target])
    /\ main' = [main EXCEPT !.pc = "wait"]
    /\ hist' = [hist EXCEPT !.attempted = @ \/ main.kind = "pending"]
    /\ UNCHANGED <<web, recovery>>

(* wifi_connect_with_timeout, up to xEventGroupWaitBits.  The driver takes *)
(* no new configuration while it is connecting.                            *)
MainConnects ==
    /\ main.pc = "connect" /\ sta.state # "connecting"
    /\ wifi' = [wifi EXCEPT !.connected = FALSE, !.retries = 0, !.requested = TRUE]
    /\ sta' = EspConnect([sta EXCEPT !.config = Target])
    /\ main' = [main EXCEPT !.pc = "wait"]
    /\ hist' = [hist EXCEPT !.attempted = @ \/ main.kind = "pending"]
    /\ UNCHANGED <<nvs, web, recovery>>

(* esp_wifi_set_config or esp_wifi_connect returns an error. *)
MainCannotConnect ==
    /\ main.pc = "connect"
    /\ wifi' = [wifi EXCEPT !.connected = FALSE, !.retries = 0, !.requested = FALSE]
    /\ NextAttempt
    /\ UNCHANGED <<nvs, sta, web, recovery, hist>>

MainConnectionFails_NoTimeout ==
    /\ main.pc = "failed"
    /\ wifi' = [wifi EXCEPT !.requested = FALSE]
    /\ sta' = EspDisconnect(sta)
    /\ NextAttempt
    /\ UNCHANGED <<nvs, web, recovery, hist>>

(* The retries are used up, or the wait times out. *)
MainConnectionFails ==
    /\ main.pc \in {"wait", "failed"}
    /\ wifi' = [wifi EXCEPT !.requested = FALSE]
    /\ sta' = EspDisconnect(sta)
    /\ NextAttempt
    /\ UNCHANGED <<nvs, web, recovery, hist>>

MainIsConnected ==
    /\ main.pc = "connected"
    /\ main' = IF main.kind = "pending" THEN [main EXCEPT !.pc = "saveSsid"] ELSE Finished("joined")
    /\ UNCHANGED <<nvs, sta, wifi, web, recovery, hist>>

(* wifi_credentials_save: two keys, two writes. *)
MainSavesSsid ==
    /\ main.pc = "saveSsid"
    /\ nvs' = [nvs EXCEPT !.active.ssid = main.pend.ssid]
    /\ main' = [main EXCEPT !.pc = "savePassword"]
    /\ UNCHANGED <<sta, wifi, web, recovery, hist>>

MainSavesPassword ==
    /\ main.pc = "savePassword"
    /\ nvs' = [nvs EXCEPT !.active.password = main.pend.password]
    /\ main' = Finished("joined")
    /\ hist' = [hist EXCEPT !.torn = FALSE]
    /\ UNCHANGED <<sta, wifi, web, recovery>>

MainSaveFails ==
    /\ main.pc \in Saving
    /\ wifi' = [wifi EXCEPT !.requested = FALSE]
    /\ sta' = EspDisconnect(sta)
    /\ NextAttempt
    /\ hist' = [hist EXCEPT !.torn = @ \/ main.pc = "savePassword"]
    /\ UNCHANGED <<nvs, web, recovery>>

(* wifi_portal_lifecycle_schedule; the task may not be created. *)
MainSchedulesPortal ==
    /\ main.pc = "portal"
    /\ \E portal \in {"starting", "off"} : wifi' = [wifi EXCEPT !.portal = portal]
    /\ main' = [main EXCEPT !.pc = "portalWait"]
    /\ UNCHANGED <<nvs, sta, web, recovery, hist>>

(* The portal has started, or five seconds have passed. *)
MainReturns ==
    /\ main.pc = "portalWait"
    /\ main' = [main EXCEPT !.pc = "done"]
    /\ UNCHANGED <<nvs, sta, wifi, web, recovery, hist>>

(* wifi_portal_lifecycle_task: access point, DHCP, web server and DNS, or none. *)
PortalStarts ==
    /\ wifi.portal = "starting"
    /\ \E portal \in {"on", "off"} : wifi' = [wifi EXCEPT !.portal = portal]
    /\ UNCHANGED <<nvs, sta, main, web, recovery, hist>>

-----------------------------------------------------------------------------
(* The setup portal and the management console. *)

(* portal_networks_handler stops the station before it scans. *)
PortalScans ==
    /\ web.pc = "idle" /\ wifi.portal = "on"
    /\ wifi' = [wifi EXCEPT !.requested = FALSE]
    /\ sta' = EspDisconnect(sta)
    /\ UNCHANGED <<nvs, main, web, recovery, hist>>

(* portal_configure_handler *)
PortalSubmits ==
    /\ web.pc = "idle" /\ wifi.portal = "on"
    /\ \E c \in Submissions : web' = [pc |-> "writeSsid", via |-> "portal", creds |-> c]
    /\ UNCHANGED <<nvs, sta, wifi, main, recovery, hist>>

WouldClearActivePassword(c) ==
    /\ Whole(nvs.active) /\ nvs.active.ssid = c.ssid
    /\ nvs.active.password # Open /\ c.password = Open

(* wifi_management_stage_credentials *)
ManagementSubmits ==
    /\ web.pc = "idle" /\ wifi.managed /\ wifi.connected
    /\ \E c \in Submissions :
        /\ ~WouldClearActivePassword(c)
        /\ web' = [pc |-> "writeSsid", via |-> "management", creds |-> c]
    /\ UNCHANGED <<nvs, sta, wifi, main, recovery, hist>>

(* wifi_pending_credentials_save; a new submission replaces the last one. *)
WebWritesSsid ==
    /\ web.pc = "writeSsid"
    /\ nvs' = [nvs EXCEPT !.pending.ssid = web.creds.ssid]
    /\ web' = [web EXCEPT !.pc = "writePassword"]
    /\ hist' = [hist EXCEPT !.attempted = FALSE]
    /\ UNCHANGED <<sta, wifi, main, recovery>>

WebWritesPassword ==
    /\ web.pc = "writePassword"
    /\ nvs' = [nvs EXCEPT !.pending.password = web.creds.password]
    /\ web' = [web EXCEPT !.pc = "schedule"]
    /\ UNCHANGED <<sta, wifi, main, recovery, hist>>

WebWriteFails ==
    /\ web.pc \in {"writeSsid", "writePassword"}
    /\ web' = WebIdle
    /\ UNCHANGED <<nvs, sta, wifi, main, recovery, hist>>

(* The restart task is created and the client is told what will happen. *)
WebSchedulesRestart ==
    /\ web.pc = "schedule"
    /\ wifi' = [wifi EXCEPT !.restart = TRUE]
    /\ web' = WebIdle
    /\ UNCHANGED <<nvs, sta, main, recovery, hist>>

(* Only the management route takes the record back, and ignores how far that went. *)
WebCannotSchedule ==
    /\ web.pc = "schedule"
    /\ \E p \in {nvs.pending, [nvs.pending EXCEPT !.ssid = Unset], Blank} :
        /\ web.via = "portal" => p = nvs.pending
        /\ nvs' = [nvs EXCEPT !.pending = p]
    /\ web' = WebIdle
    /\ UNCHANGED <<sta, wifi, main, recovery, hist>>

-----------------------------------------------------------------------------
(* Restarts *)

Reboot ==
    /\ sta' = StaOff /\ wifi' = WifiOff /\ main' = MainStart
    /\ web' = WebIdle /\ recovery' = "idle"
    /\ hist' = [hist EXCEPT !.torn = @ \/ main.pc = "savePassword"]

(* wifi_restart_task, 1.5 seconds after a request that is only accepted     *)
(* once the station is online or the portal is up: by then a save is over.  *)
RestartFires ==
    /\ wifi.restart /\ main.pc \notin Saving
    /\ Reboot
    /\ UNCHANGED nvs

PowerLoss ==
    /\ Reboot
    /\ UNCHANGED nvs

(* wifi_perform_wifi_reset, when BOOT has been held for three seconds: the  *)
(* records have been loaded by then.                                        *)
ResetErases ==
    /\ recovery = "idle" /\ main.pc # "start"
    /\ nvs' = [active |-> Blank, pending |-> Blank]
    /\ recovery' = "erased"
    /\ hist' = [hist EXCEPT !.torn = FALSE]
    /\ UNCHANGED <<sta, wifi, main, web>>

(* wifi_restart_after_recovery, 250 ms later. *)
ResetRestarts ==
    /\ recovery = "erased"
    /\ Reboot
    /\ UNCHANGED nvs

MainStep ==
    \/ MainLoads \/ MainErasesSsid \/ MainErasesPassword \/ MainEraseFails
    \/ MainConnects \/ MainCannotConnect \/ MainConnectionFails \/ MainIsConnected
    \/ MainSavesSsid \/ MainSavesPassword \/ MainSaveFails
    \/ MainSchedulesPortal \/ MainReturns
EventStep ==
    \/ EventGotIp \/ EventAssociated \/ EventDisconnected
    \/ EventRetries \/ EventReconnects \/ EventGivesUp
WebStep ==
    \/ WebWritesSsid \/ WebWritesPassword \/ WebWriteFails
    \/ WebSchedulesRestart \/ WebCannotSchedule

WifiNext ==
    \/ StaAssociates \/ StaLeases \/ StaLoses
    \/ EventStep \/ MainStep \/ PortalStarts
    \/ PortalScans \/ PortalSubmits \/ ManagementSubmits \/ WebStep
    \/ RestartFires \/ PowerLoss \/ ResetErases \/ ResetRestarts

WifiSpec == WifiInit /\ [][WifiNext]_wifiVars

-----------------------------------------------------------------------------
(* Properties *)

(* Submitted credentials are tested at most once: by the time wifi.c asks  *)
(* the driver to join the network the pending record is gone, so neither a *)
(* crash nor a power cut during the test makes the next boot repeat it.    *)
TriedOnce == hist.attempted => nvs.pending.ssid = Unset

(* Whatever fails during a change of network, the record the device boots  *)
(* from is one it has had a DHCP lease with, unless a power cut or an NVS  *)
(* error fell between the two writes of wifi_credentials_save.             *)
SavedWasValidated ==
    Whole(nvs.active) /\ ~hist.torn /\ main.pc # "savePassword" => nvs.active \in hist.leased

(* wifi_provisioning_init returns, or the device reboots: the mounts, the  *)
(* driver and upsd that app_main starts next never wait for a network.     *)
InitReturns == (main.pc # "start") ~> (main.pc \in {"joined", "done", "start"})

(* The stored networks, through every power cut, NVS error and event         *)
(* (wifi.c:247-613, wifi-credentials.c).                                     *)
WifiSafe == WifiTypeOK /\ TriedOnce /\ SavedWasValidated
=============================================================================
