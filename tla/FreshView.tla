------------------------------ MODULE FreshView ------------------------------
(***************************************************************************)
(* What a view promises that loads the record of a key it is given: it      *)
(* shows nothing, or the record of the key it has now.                      *)
(***************************************************************************)
CONSTANTS Key, Nil

VARIABLES key, shown

Init == key \in Key \cup {Nil} /\ shown = Nil

Change == key' \in Key \cup {Nil} /\ shown' = Nil

Show == key # Nil /\ shown' = key /\ UNCHANGED key

Next == Change \/ Show

Spec == Init /\ [][Next]_<<key, shown>>
=============================================================================
