-------------------------------- MODULE IdPool --------------------------------
(***************************************************************************)
(* What an array of buffers promises its users: a buffer is known by an ID *)
(* nobody else has, and the next one is the one with the lowest ID that is *)
(* free.  How the array finds it is not said here.  Once it is asked for   *)
(* one while none is free, nothing is promised any more.                   *)
(***************************************************************************)
EXTENDS Integers

CONSTANTS Owners, Ids,
          NoId,   \* the owner holds no ID
          Void    \* it may hold anything

VARIABLE idOf     \* owner -> the ID it holds, NoId or Void

InUse == {idOf[o] : o \in Owners} \ {NoId}

Init == idOf = [o \in Owners |-> NoId]

Acquire(o) ==
  /\ idOf[o] = NoId
  /\ \E id \in Ids \ InUse :
       /\ \A lower \in Ids \ InUse : id <= lower
       /\ idOf' = [idOf EXCEPT ![o] = id]

Drop(o) ==
  /\ idOf[o] \in Ids
  /\ idOf' = [idOf EXCEPT ![o] = NoId]

Exhaust(o) ==
  /\ idOf[o] = NoId
  /\ Ids \subseteq InUse
  /\ idOf' = [r \in Owners |-> Void]

Next == \E o \in Owners : Acquire(o) \/ Drop(o) \/ Exhaust(o)

Spec == Init /\ [][Next]_idOf

=============================================================================
