-------------------------------- MODULE SlotMap --------------------------------
(***************************************************************************)
(* What a self-filling array promises its callers: a value put into it is  *)
(* found at the index that was returned for it, unchanged, until that very *)
(* index is set or deleted.  Where free indexes come from is not said.     *)
(***************************************************************************)
EXTENDS Integers

CONSTANTS Values, None   \* what is stored, and a value that is never stored

VARIABLES
  contents,  \* index in use -> the value at it
  ret        \* the last call, and what it returned

vars == <<contents, ret>>

Returns(op, value) == ret' = [call |-> op, value |-> value]

Init ==
  /\ contents = [i \in {} |-> None]
  /\ ret = [call |-> "init", value |-> 0]

(* Some index that is not in use is given to the value.                    *)
Add(v) ==
  \E i \in {ret'.value} \ DOMAIN contents :
    /\ i \in Nat
    /\ Returns("add", i)
    /\ contents' = [j \in DOMAIN contents \cup {i} |-> IF j = i THEN v ELSE contents[j]]

Delete(i) ==
  /\ Returns("delete", 0)
  /\ contents' = [j \in DOMAIN contents \ {i} |-> contents[j]]

Set(i, v) ==
  /\ Returns("set", 1)
  /\ contents' = [contents EXCEPT ![i] = v]

(* The first index of a value, -1 if it is nowhere.                        *)
Find(v) ==
  /\ UNCHANGED contents
  /\ \/ \E i \in DOMAIN contents :
          /\ contents[i] = v
          /\ \A j \in DOMAIN contents : contents[j] = v => i <= j
          /\ Returns("find", i)
     \/ /\ \A i \in DOMAIN contents : contents[i] # v
        /\ Returns("find", -1)

(* Looking for None never returns an index in use.                         *)
FindNone ==
  /\ UNCHANGED contents
  /\ ret'.value \notin DOMAIN contents
  /\ Returns("find", ret'.value)

(* A call that is refused changes nothing.                                 *)
Refuse ==
  /\ UNCHANGED contents
  /\ \/ Returns("add", -1)
     \/ Returns("delete", -1)
     \/ Returns("set", 0)
     \/ Returns("set", 1)

Next ==
  \/ \E v \in Values : Add(v) \/ Find(v)
  \/ \E i \in DOMAIN contents : Delete(i)
  \/ \E i \in DOMAIN contents, v \in Values : Set(i, v)
  \/ FindNone
  \/ Refuse

Spec == Init /\ [][Next]_vars

=============================================================================
