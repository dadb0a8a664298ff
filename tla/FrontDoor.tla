------------------------------- MODULE FrontDoor -------------------------------
(***************************************************************************)
(* What the accept thread promises of the remotes that connect: they stand *)
(* in one line, they are called to the door one at a time in the order     *)
(* they came, nobody else is called before the one at the door was let in  *)
(* or dismissed, and at no time are more than Capacity inside.             *)
(***************************************************************************)
EXTENDS Naturals, Sequences, FiniteSets

CONSTANTS Guests,     \* the remotes
          Nobody,     \* there is no one at the door
          Capacity    \* how many may be inside

VARIABLES line,       \* the guests that wait, in the order they came
          atDoor,     \* the guest that was called, or Nobody
          inside      \* the guests that were let in

door == <<line, atDoor, inside>>

Init == line = <<>> /\ atDoor = Nobody /\ inside = {}

Waiting == {line[i] : i \in 1 .. Len(line)}

(* A guest comes, or comes again after it was dismissed.                   *)
Come(g) ==
  /\ g \notin Waiting \cup inside \cup {atDoor}
  /\ line' = Append(line, g)
  /\ UNCHANGED <<atDoor, inside>>

CallFirst ==
  /\ atDoor = Nobody
  /\ line # <<>>
  /\ atDoor' = Head(line)
  /\ line' = Tail(line)
  /\ UNCHANGED inside

(* The first in the line has gone before it was called.                    *)
Missed ==
  /\ atDoor = Nobody
  /\ line # <<>>
  /\ line' = Tail(line)
  /\ UNCHANGED <<atDoor, inside>>

LetIn ==
  /\ atDoor # Nobody
  /\ Cardinality(inside) < Capacity
  /\ inside' = inside \cup {atDoor}
  /\ atDoor' = Nobody
  /\ UNCHANGED line

Dismiss ==
  /\ atDoor # Nobody
  /\ atDoor' = Nobody
  /\ UNCHANGED <<line, inside>>

Next == (\E g \in Guests : Come(g)) \/ CallFirst \/ Missed \/ LetIn \/ Dismiss

Spec == Init /\ [][Next]_door

=============================================================================
