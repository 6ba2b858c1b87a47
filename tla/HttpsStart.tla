------------------------------ MODULE HttpsStart ------------------------------
(***************************************************************************)
(* The start of the ADMIN console and the settings it keeps: every time    *)
(* the station gets an address wifi.c schedules a task that starts the     *)
(* HTTPS server (management.c), with a certificate and a key loaded from   *)
(* NVS or made and stored there (management-certificates.c); the device    *)
(* name and log level are saved by a request (management-device-config.c). *)
(*                                                                         *)
(* Each NVS call is a step, may fail, and is durable when it returns;      *)
(* power is lost between any two.  A certificate and a key are numbered by *)
(* the pair they were made as.                                             *)
(***************************************************************************)
EXTENDS Naturals

CONSTANTS
    StartTasks,     \* task slots, more than the code should ever use
    MaxPairs,       \* bounds the pairs ever made
    DeviceSettings  \* a device name and a log level

ASSUME HttpsAssumption == MaxPairs \in Nat

VARIABLES
    certNvs,    \* the stored certificate and private key; 0 is absent
    material,   \* management_certificate_material
    https,      \* management_https_server is running
    scheduled,  \* management_start_scheduled
    starter,    \* each wifi_start_management_task
    device,     \* the device settings: stored, in use, loaded, and being saved
    certHist    \* what the properties remember

httpsVars == <<certNvs, material, https, scheduled, starter, device, certHist>>

Pairs == 0 .. MaxPairs
NoMaterial == [cert |-> 0, key |-> 0]
NoTask == [pc |-> "none", pair |-> 0]
DefaultSettings == "default"
DeviceSaving == {"idle", "commit", "state"}

Materials == [cert : Pairs, key : Pairs]
Starters == [pc : {"none", "begin", "cert", "key", "commit", "serve", "end"}, pair : Pairs]
Devices == [nvs : DeviceSettings \cup {DefaultSettings}, ram : DeviceSettings \cup {DefaultSettings},
            new : DeviceSettings \cup {DefaultSettings}, pc : DeviceSaving, refused : BOOLEAN]

HttpsTypeOK ==
    /\ certNvs \in Materials /\ material \in Materials
    /\ https \in BOOLEAN /\ scheduled \in BOOLEAN
    /\ starter \in [StartTasks -> Starters]
    /\ device \in Devices
    /\ certHist \in [made : Pairs, torn : BOOLEAN, misread : BOOLEAN]

HttpsInit ==
    /\ certNvs = NoMaterial /\ material = NoMaterial
    /\ https = FALSE /\ scheduled = FALSE
    /\ starter = [t \in StartTasks |-> NoTask]
    /\ device = [nvs |-> DefaultSettings, ram |-> DefaultSettings, new |-> DefaultSettings,
                 pc |-> "idle", refused |-> FALSE]
    /\ certHist = [made |-> 0, torn |-> FALSE, misread |-> FALSE]

-----------------------------------------------------------------------------
Continues(t, pc) == starter' = [starter EXCEPT ![t].pc = pc]
Ends(t) == starter' = [starter EXCEPT ![t] = [pc |-> "end", pair |-> 0]]

GotIpSchedules_Always(t) ==
    /\ starter[t].pc = "none"
    /\ scheduled' = TRUE
    /\ Continues(t, "begin")
    /\ UNCHANGED <<certNvs, material, https, device, certHist>>

(* IP_EVENT_STA_GOT_IP: one task unless one is scheduled; xTaskCreate may    *)
(* fail, and the flag is taken back.                                         *)
GotIpSchedules(t) ==
    /\ starter[t].pc = "none" /\ ~scheduled
    /\ scheduled' = TRUE
    /\ Continues(t, "begin")
    /\ UNCHANGED <<certNvs, material, https, device, certHist>>

(* management_server_start, already running *)
AlreadyServing(t) ==
    /\ starter[t].pc = "begin" /\ https
    /\ Ends(t)
    /\ UNCHANGED <<certNvs, material, https, scheduled, device, certHist>>

(* The new certificate is stored, next to the key of an older pair. *)
HalfStored(t) == starter[t].pc = "key" /\ certNvs.key # 0

(* management_certificates_load_or_create: both blobs are there              *)
LoadsPair(t) ==
    /\ starter[t].pc = "begin" /\ ~https
    /\ certNvs.cert # 0 /\ certNvs.key # 0
    /\ material' = certNvs
    /\ Continues(t, "serve")
    /\ UNCHANGED <<certNvs, https, scheduled, device, certHist>>

(* ... or one is missing, or could not be read: a new pair is made.          *)
MakesPair(t, misread) ==
    /\ starter[t].pc = "begin" /\ ~https
    /\ certNvs.cert = 0 \/ certNvs.key = 0 \/ misread
    /\ certHist.made < MaxPairs
    /\ material' = NoMaterial
    /\ starter' = [starter EXCEPT ![t] = [pc |-> "cert", pair |-> certHist.made + 1]]
    /\ certHist' = [certHist EXCEPT !.made = @ + 1, !.misread = @ \/ misread]
    /\ UNCHANGED <<certNvs, https, scheduled, device>>

(* management_certificates_generate, or one of its three NVS calls, fails.   *)
CannotMake(t) ==
    /\ starter[t].pc \in {"begin", "cert", "key", "commit"} /\ ~https
    /\ Ends(t)
    /\ certHist' = [certHist EXCEPT !.torn = @ \/ HalfStored(t)]
    /\ UNCHANGED <<certNvs, material, https, scheduled, device>>

StoresCert_KeyKept(t) ==
    /\ starter[t].pc = "cert"
    /\ certNvs' = [certNvs EXCEPT !.cert = starter[t].pair]
    /\ Continues(t, IF certNvs.key = 0 THEN "key" ELSE "commit")
    /\ UNCHANGED <<material, https, scheduled, device, certHist>>

(* management_certificates_store *)
StoresCert(t) ==
    /\ starter[t].pc = "cert"
    /\ certNvs' = [certNvs EXCEPT !.cert = starter[t].pair]
    /\ Continues(t, "key")
    /\ UNCHANGED <<material, https, scheduled, device, certHist>>

StoresKey(t) ==
    /\ starter[t].pc = "key"
    /\ certNvs' = [certNvs EXCEPT !.key = starter[t].pair]
    /\ Continues(t, "commit")
    /\ certHist' = [certHist EXCEPT !.torn = FALSE]
    /\ UNCHANGED <<material, https, scheduled, device>>

CommitsPair(t) ==
    /\ starter[t].pc = "commit"
    /\ material' = [cert |-> starter[t].pair, key |-> starter[t].pair]
    /\ Continues(t, "serve")
    /\ UNCHANGED <<certNvs, https, scheduled, device, certHist>>

(* httpd_ssl_start and the registration of the routes, which may fail.       *)
Serves(t) ==
    /\ starter[t].pc = "serve"
    /\ https' \in BOOLEAN
    /\ Ends(t)
    /\ UNCHANGED <<certNvs, material, scheduled, device, certHist>>

StarterEnds(t) ==
    /\ starter[t].pc = "end"
    /\ scheduled' = FALSE
    /\ starter' = [starter EXCEPT ![t] = NoTask]
    /\ UNCHANGED <<certNvs, material, https, device, certHist>>

(* management_device_config_save: the blob, the commit, then the record in   *)
(* use; a write that fails leaves that one as it was.                        *)
DeviceSaves(s) ==
    /\ https /\ device.pc = "idle"
    /\ device' = [device EXCEPT !.nvs = s, !.new = s, !.pc = "commit"]
    /\ UNCHANGED <<certNvs, material, https, scheduled, starter, certHist>>

DeviceCommits ==
    /\ device.pc = "commit"
    /\ device' \in {[device EXCEPT !.pc = "state"], [device EXCEPT !.pc = "idle", !.refused = TRUE]}
    /\ UNCHANGED <<certNvs, material, https, scheduled, starter, certHist>>

DeviceTakesEffect ==
    /\ device.pc = "state"
    /\ device' = [device EXCEPT !.ram = device.new, !.pc = "idle", !.refused = FALSE]
    /\ UNCHANGED <<certNvs, material, https, scheduled, starter, certHist>>

(* Power is lost; management_device_config_initialize loads at the boot.     *)
HttpsPowerLoss ==
    /\ material' = NoMaterial /\ https' = FALSE /\ scheduled' = FALSE
    /\ starter' = [t \in StartTasks |-> NoTask]
    /\ device' = [device EXCEPT !.ram = device.nvs, !.pc = "idle", !.refused = FALSE,
                                !.new = DefaultSettings]
    /\ certHist' = [certHist EXCEPT !.torn = @ \/ \E t \in StartTasks : HalfStored(t)]
    /\ UNCHANGED certNvs

StarterMoves(t) ==
    \/ AlreadyServing(t) \/ LoadsPair(t) \/ MakesPair(t, FALSE) \/ MakesPair(t, TRUE)
    \/ CannotMake(t) \/ StoresCert(t) \/ StoresKey(t) \/ CommitsPair(t) \/ Serves(t) \/ StarterEnds(t)

HttpsNext ==
    \/ \E t \in StartTasks : GotIpSchedules(t) \/ StarterMoves(t)
    \/ \E s \in DeviceSettings : DeviceSaves(s)
    \/ DeviceCommits \/ DeviceTakesEffect \/ HttpsPowerLoss

(* A starter task that exists runs to its end: each of its calls returns.    *)
HttpsFairness == \A t \in StartTasks : WF_httpsVars(StarterMoves(t))

HttpsSpec == HttpsInit /\ [][HttpsNext]_httpsVars /\ HttpsFairness

-----------------------------------------------------------------------------
(* The server runs with a certificate that its key fits, unless a new pair   *)
(* replaced an old one whose key could not be read and the write was cut off *)
(* between the two blobs (management-certificates.c:78-105).                 *)
ServedPairFits ==
    https => material.cert # 0 /\ (material.cert = material.key \/ (certHist.torn /\ certHist.misread))

(* The certificate and key a running server points to are not freed or       *)
(* replaced: one starter at a time, and none loads while the server runs     *)
(* (wifi.c:346-350, management.c:109, management-certificates.c:107).        *)
MaterialKept == [][https /\ https' => material' = material]_httpsVars

(* The device keeps its identity: a stored pair is replaced only when one    *)
(* could not be read (management-certificates.c:273).                        *)
IdentityKept ==
    [][certNvs.cert # 0 /\ certNvs.key # 0 /\ certNvs' # certNvs => certHist.misread]_httpsVars

(* The device settings in use are the stored ones, unless the last save was  *)
(* answered with an error (management-device-config.c:286-295).              *)
DeviceInUseIsStored == device.pc = "idle" /\ ~device.refused => device.ram = device.nvs

(* After an attempt to start the server ends, the next address makes another *)
(* one possible: the flag is never left set (wifi.c:125-127, 355).           *)
StartCanRepeat == scheduled ~> ~scheduled

(* What is in use fits together and is what is stored: the served pair and   *)
(* the device settings.                                                      *)
HttpsSafe == HttpsTypeOK /\ ServedPairFits /\ DeviceInUseIsStored

(* What no step takes away: the material of a running server, and the        *)
(* identity of a device that could read it.                                  *)
HttpsKept == MaterialKept /\ IdentityKept
=============================================================================
