------------------------------ MODULE BoundedLog ------------------------------
(***************************************************************************)
(* What the management log promises a reader: the newest entries, at most  *)
(* Keep of them, oldest first.                                             *)
(***************************************************************************)
EXTENDS Integers, Sequences

CONSTANTS Entries, Keep

VARIABLE kept

Newest(s) == IF Len(s) <= Keep THEN s ELSE SubSeq(s, Len(s) - Keep + 1, Len(s))

Init == kept = << >>

Record ==
    /\ kept' # kept
    /\ \E e \in Entries : kept' = Newest(Append(kept, e))

Spec == Init /\ [][Record]_kept
=============================================================================
