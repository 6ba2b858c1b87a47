-------------------------- MODULE CredentialRegister --------------------------
(***************************************************************************)
(* What the ADMIN credential promises, whatever is lost on the way: one    *)
(* register that holds the password in force.  It changes in one step,     *)
(* only to the password that a request under way asks for, or to nothing   *)
(* when the device is reset.                                               *)
(***************************************************************************)
CONSTANTS Passwords, None

VARIABLES
    password,   \* the password that a login must show, None before setup
    asked,      \* the password a request is installing, None without one
    erasing     \* a factory reset is under way

vars == <<password, asked, erasing>>

Init == password \in Passwords \cup {None} /\ asked = None /\ ~erasing

(* A request that may install p begins. *)
Ask(p) == asked = None /\ asked' = p /\ UNCHANGED <<password, erasing>>

(* Its password comes into force, all at once. *)
Take == asked # None /\ password' = asked /\ UNCHANGED <<asked, erasing>>

(* The request is answered. *)
Forget == asked # None /\ asked' = None /\ UNCHANGED <<password, erasing>>

(* The factory reset erases it, whatever a request is doing, and only as it *)
(* begins.                                                                  *)
Erase == ~erasing /\ erasing' /\ password' = None /\ UNCHANGED asked

(* The reset gives up, or the device restarts and drops the request too. *)
EraseEnds == erasing /\ ~erasing' /\ asked' \in {asked, None} /\ UNCHANGED password

Next == (\E p \in Passwords : Ask(p)) \/ Take \/ Forget \/ Erase \/ EraseEnds

Spec == Init /\ [][Next]_vars
=============================================================================
