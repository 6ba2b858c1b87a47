----------------------------- MODULE MCDevices -----------------------------
(* The USB driver and the network provisioning share no state: for liveness *)
(* one is chosen and the other stays still.                                 *)
EXTENDS HidDriver, WifiProvision

CONSTANTS home, homeKey     \* one network

VARIABLE which

deviceVars == <<which, hidVars, wifiVars>>

MCOneSubmission == {[ssid |-> home, password |-> homeKey]}

DevicesInit ==
    /\ which \in {"hid", "wifi"}
    /\ HidInit /\ WifiInit
    /\ which # "wifi" => nvs.active = Blank

DevicesNext ==
    /\ UNCHANGED which
    /\ \/ which = "hid" /\ HidNext /\ UNCHANGED wifiVars
       \/ which = "wifi" /\ WifiNext /\ UNCHANGED hidVars

DevicesSpec == DevicesInit /\ [][DevicesNext]_deviceVars

(* Both USB tasks and the driver task keep running, the simulation         *)
(* expires, and the clock advances: a reconnect is not put off for ever,   *)
(* and neither is a full update.  Nothing is assumed of the cable.         *)
HidFairness ==
    /\ WF_hidVars(which = "hid" /\ BusFree)
    /\ WF_hidVars(which = "hid" /\ HidConnected) /\ WF_hidVars(which = "hid" /\ HidDisconnected)
    /\ WF_hidVars(which = "hid" /\ DiscoveryOpens) /\ WF_hidVars(which = "hid" /\ DiscoveryCloses)
    /\ WF_hidVars(which = "hid" /\ DriverStep) /\ WF_hidVars(which = "hid" /\ SimulationEnds)
    /\ SF_hidVars(which = "hid" /\ PollReconnects)
    /\ SF_hidVars(which = "hid" /\ (PollWalks \/ ReconnectWalkDone) /\ pc' = "fwalk")

(* Every task runs, a connection attempt ends, and the restart tasks fire. *)
WifiFairness ==
    /\ WF_wifiVars(which = "wifi" /\ MainStep) /\ WF_wifiVars(which = "wifi" /\ EventStep)
    /\ WF_wifiVars(which = "wifi" /\ WebStep) /\ WF_wifiVars(which = "wifi" /\ PortalStarts)
    /\ WF_wifiVars(which = "wifi" /\ (StaLeases \/ (sta.state # "online" /\ StaLoses)))
    /\ WF_wifiVars(which = "wifi" /\ RestartFires) /\ WF_wifiVars(which = "wifi" /\ ResetRestarts)

DevicesFairSpec ==
    /\ DevicesSpec
    /\ HidFairness
    /\ WifiFairness
=============================================================================
