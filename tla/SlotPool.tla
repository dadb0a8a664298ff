------------------------------- MODULE SlotPool -------------------------------
(***************************************************************************)
(* What a connection table promises whoever holds its section: a new       *)
(* connection gets the lowest number that is free, the number that is      *)
(* given back is free again, and no other.  Who gives it back is not       *)
(* asked, nor how the table finds the free ones.  Once it is asked for a   *)
(* number while none is free, nothing is promised any more.                *)
(***************************************************************************)
EXTENDS Integers

CONSTANTS Ids,
          Void    \* anything may be in use

VARIABLE used     \* the numbers in use, or Void

Init == used = {}

Take ==
  \E id \in Ids \ used :
    /\ \A lower \in Ids \ used : id <= lower
    /\ used' = used \cup {id}

GiveBack == \E id \in used : used' = used \ {id}

Exhaust ==
  /\ Ids \subseteq used
  /\ used' = Void

Next == used # Void /\ (Take \/ GiveBack \/ Exhaust)

Spec == Init /\ [][Next]_used

=============================================================================
