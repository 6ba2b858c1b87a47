----------------------------- MODULE MCManagement -----------------------------
(***************************************************************************)
(* Two components with few variables and many inputs: the web management's *)
(* sessions and credential (Management), and ups.status of the driver      *)
(* (UpsStatus).  They share no state: which is chosen at the start, and    *)
(* the other stays as it is.                                               *)
(***************************************************************************)
EXTENDS Management, UpsStatus, TLC

StatusSetting(c, o, d, a, i, t) ==
    [calibration |-> c, onbattery |-> o, delay |-> d, always |-> a, ignorelb |-> i, throttle |-> t]
MCSettings ==
    {StatusSetting(TRUE, FALSE, 1, FALSE, FALSE, -2), StatusSetting(FALSE, TRUE, 1, TRUE, FALSE, -1),
     StatusSetting(FALSE, FALSE, 0, FALSE, FALSE, 1)}

VARIABLE which

MCInit ==
    /\ which \in {"management", "status"}
    /\ Init /\ (which # "management" => nvs.cred = None /\ nvs.salt = None)
    /\ StatusInit /\ (which # "status" => set = StatusSetting(FALSE, FALSE, 0, FALSE, FALSE, 1))
(* The clock of the status has a bound: there it rests. *)
MCNext ==
    /\ UNCHANGED which
    /\ \/ which = "management" /\ Next /\ UNCHANGED statusVars
       \/ which = "status" /\ StatusNext /\ UNCHANGED vars
       \/ which = "status" /\ now = MaxTime /\ UNCHANGED <<vars, statusVars>>

MCSpec == MCInit /\ [][MCNext]_<<which, vars, statusVars>>

Symmetry == Permutations(Passwords) \cup Permutations(Browsers)
=============================================================================
