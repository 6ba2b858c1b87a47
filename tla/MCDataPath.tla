----------------------------- MODULE MCDataPath -----------------------------
(***************************************************************************)
(* The way of the data: from the UPS over USB into the driver (HidDriver), *)
(* and from the driver over its socket into upsd (NutLink).  The two meet  *)
(* only in the values and in the stale flag, which both models choose      *)
(* freely, so one is chosen at the start and the other stays still.        *)
(***************************************************************************)
EXTENDS HidDriver, NutLink, TLC

VARIABLE which

pathVars == <<which, hidVars, linkVars>>

PathInit == which \in {"hid", "link"} /\ HidInit /\ LinkInit
PathNext ==
    /\ UNCHANGED which
    /\ \/ which = "hid" /\ HidNext /\ UNCHANGED linkVars
       \/ which = "link" /\ LinkNext /\ UNCHANGED hidVars

PathSpec == PathInit /\ [][PathNext]_pathVars

(* Two devices of a kind, two addresses or two connections are              *)
(* interchangeable.                                                         *)
Symmetry == Permutations(Good) \cup Permutations(Addrs) \cup Permutations(Conns)
=============================================================================
