------------------------------ MODULE MCServices ------------------------------
(***************************************************************************)
(* The services of the firmware that keep state over requests, failures    *)
(* and restarts: the network settings, the API tokens, the log, the time   *)
(* and the files that the boot leaves.  They share no state, so a          *)
(* behaviour is one component's: which is chosen at the start, and the     *)
(* others stay as they are.                                                *)
(***************************************************************************)
EXTENDS WifiProvision, TokenStore, LogRing, TimeConfig, FirmwareFiles

Names == {<<"a", "lower">>, <<"a", "upper">>, <<"b", "lower">>}

CONSTANTS home, other, homeKey      \* two networks, one of them without a password

MCSubmissions ==
    {[ssid |-> home, password |-> homeKey], [ssid |-> other, password |-> Open]}

VARIABLE which

servicesVars == <<which, wifiVars, tokenVars, logVars, timeVars, bootFsVars>>

ServicesInit ==
    /\ which \in {"wifi", "tokens", "log", "time", "files"}
    /\ WifiInit /\ (which # "wifi" => nvs.active = Blank)
    /\ TokenInit /\ LogInit /\ TimeInit /\ FilesInit

ServicesNext ==
    /\ UNCHANGED which
    /\ \/ which = "wifi" /\ WifiNext /\ UNCHANGED <<tokenVars, logVars, timeVars, bootFsVars>>
       \/ which = "tokens" /\ TokenNext /\ UNCHANGED <<wifiVars, logVars, timeVars, bootFsVars>>
       \/ which = "log" /\ LogNext /\ UNCHANGED <<wifiVars, tokenVars, timeVars, bootFsVars>>
       \/ which = "time" /\ TimeNext /\ UNCHANGED <<wifiVars, tokenVars, logVars, bootFsVars>>
       \/ which = "files" /\ FilesNext /\ UNCHANGED <<wifiVars, tokenVars, logVars, timeVars>>

ServicesSpec == ServicesInit /\ [][ServicesNext]_servicesVars
=============================================================================
