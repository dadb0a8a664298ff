--------------------------- MODULE ConnectionArray ---------------------------
(***************************************************************************)
(* The self-filling array of POLYM_CONNECTION objects of                   *)
(* Polymorphic-Win/sock_datatypes.c, used three times by sock.c (peers,    *)
(* services, clients).  An array is a vector of pointers to heap objects;  *)
(* an object says by its `index` field whether its slot is taken.          *)
(*                                                                         *)
(* Every operation runs under the critical section of its table, so each   *)
(* one is a single action here.  The clients of the array are the Owners:  *)
(* an owner is one remote connection, which takes a slot, marks it ready   *)
(* and gives one back, the way sock.c does (allocateNewX, freeX, removeX). *)
(*                                                                         *)
(* allocateNewX returns the ID of the new connection by reading `index`    *)
(* through the pointer to the object's info as if it pointed to the object *)
(* itself, so beyond the object's end: the owner is told the number that   *)
(* lies there, and it is by that number that the table is asked to free a  *)
(* slot, its own, another's or nobody's.                                   *)
(***************************************************************************)
EXTENDS Integers, FiniteSets

CONSTANTS
  Owners,       \* the connections that use the array
  NoHandle,     \* an owner that holds no slot
  InitialSize,  \* POLYM_INITIAL_CONNECTION_STORAGE_SIZE
  ExtendBy,     \* the 10 of connection_array_extend(vector, 10)
  MaxSize,      \* bound: the array is not extended beyond it
  StrayIds,     \* what may be read beyond an object, besides its own index
  Realm         \* the realm code of the connections of this array

ASSUME ArrayAssumption ==
  /\ IsFiniteSet(Owners)
  /\ InitialSize \in Nat \ {0}
  /\ ExtendBy \in Nat \ {0}
  /\ MaxSize \in Nat
  /\ StrayIds \subseteq Nat
  /\ Realm \in 0 .. 2

ASSUME HandleAssumption == NoHandle \notin [id : Nat, ptr : Nat \X Nat]

VARIABLES
  size,       \* vector->size
  count,      \* vector->count
  nextIndex,  \* vector->nextIndex
  ptr,        \* vector->connections: slot -> object
  index,      \* object -> its index field, -1 when the slot is free
  realm,      \* object -> its info.realm field, once it has been written
  connectionID, \* object -> its info.connectionID field, once written
  handle,     \* owner -> the ID and the object it was given, or NoHandle
  robbed      \* history: owners whose slot was freed by another's call

vars == <<size, count, nextIndex, ptr, index, realm, connectionID, handle, robbed>>

-----------------------------------------------------------------------------

(* The slots of the array.                                                 *)
Slots == 0 .. size - 1

(* The object that malloc made for slot x when the array had n slots.      *)
Object(x, n) == <<x, n>>

(* definitions.h: POLY_REALM_UNINIT; info.realm is a uint8_t, and the      *)
(* comparison of connection_array_get is made on int.                      *)
POLY_REALM_UNINIT == -2
AsInt(v) == v  \* fault: info.realm is an int
AsUint8(v) == v % 256

(* "empty slot is denoted by an index of < 0"                              *)
Vacant(x) == index[ptr[x]] < 0
Occupied == {x \in Slots : ~ Vacant(x)}

(* Slots whose object was replaced: they existed when it was made.         *)
Seams == {x \in Slots : x < ptr[x][2]}

(* connection_array_get: does it return an object for this ID?             *)
Present(id) ==
  /\ id \in Slots
  /\ ~ Vacant(id)
  /\ realm[ptr[id]] # POLY_REALM_UNINIT

(* connection_array_get_all: the number returned for a caller's maxCount,  *)
(* POLYM_SERVICE_ARRAY_GETALL_OVERFLOW when the scan stops before the last *)
(* slot because the output is full.                                        *)
POLYM_SERVICE_ARRAY_GETALL_OVERFLOW == -1

(* Fault: the scan stops at maxCount and says nothing of the rest.         *)
GetAllTruncated(maxCount) ==
  LET found == Cardinality({x \in Slots : Present(x)})
  IN  IF found < maxCount THEN found ELSE maxCount

GetAllCount(maxCount) ==
  LET found == {x \in Slots : Present(x)}
      Before(x) == Cardinality({y \in found : y <= x})
  IN  IF maxCount > 0 /\ \E x \in found : Before(x) = maxCount /\ x # size - 1
      THEN POLYM_SERVICE_ARRAY_GETALL_OVERFLOW
      ELSE IF Cardinality(found) < maxCount THEN Cardinality(found) ELSE maxCount

-----------------------------------------------------------------------------

(* connection_array_init(_capacity)                                        *)
Init ==
  /\ size = InitialSize
  /\ count = 0
  /\ nextIndex = 0
  /\ ptr = [x \in 0 .. InitialSize - 1 |-> Object(x, 0)]
  /\ index = [p \in {Object(x, 0) : x \in 0 .. InitialSize - 1} |-> -1]
  /\ realm = [p \in {} |-> 0]
  /\ connectionID = [p \in {} |-> 0]
  /\ handle = [o \in Owners |-> NoHandle]
  /\ robbed = {}

(* The owner takes slot x, whose object is p: the body of the scan's if,   *)
(* and the ID that allocateNewX then returns.  What connectionID held is   *)
(* not read again before it is written.                                    *)
Claim(o, x, p) ==
  /\ count' = count + 1
  /\ nextIndex' = x + 1
  /\ realm' = [q \in DOMAIN realm \cup {p} |->
                 IF q = p THEN AsUint8(POLY_REALM_UNINIT) ELSE realm[q]]
  /\ \E id \in {x} \cup StrayIds : handle' = [handle EXCEPT ![o] = [id |-> id, ptr |-> p]]
  /\ connectionID' = [q \in DOMAIN connectionID \ {p} |-> connectionID[q]]
  /\ UNCHANGED robbed

(* Fault: nextIndex is taken to be free without a look.                     *)
AllocateTrusting(o) ==
  /\ handle[o] = NoHandle
  /\ nextIndex < size
  /\ index' = [index EXCEPT ![ptr[nextIndex]] = nextIndex]
  /\ Claim(o, nextIndex, ptr[nextIndex])
  /\ UNCHANGED <<size, ptr>>

(* connection_array_allocate, when the scan from nextIndex finds a slot.   *)
AllocateFound(o) ==
  /\ handle[o] = NoHandle
  /\ \E x \in Slots :
       /\ x >= nextIndex
       /\ Vacant(x)
       /\ \A y \in nextIndex .. x - 1 : ~ Vacant(y)
       /\ index' = [index EXCEPT ![ptr[x]] = x]
       /\ Claim(o, x, ptr[x])
  /\ UNCHANGED <<size, ptr>>

(* Fault: the loop ends one slot too early.                                *)
ExtendedShort == [x \in 0 .. size + ExtendBy - 2 |->
                    IF x >= size - 1 THEN Object(x, size) ELSE ptr[x]]

(* connection_array_extend's new vector: its loop starts at oldsize - 1.   *)
Extended == [x \in 0 .. size + ExtendBy - 1 |->
               IF x >= size - 1 THEN Object(x, size) ELSE ptr[x]]

(* connection_array_allocate, when the scan finds nothing: the array is    *)
(* extended and scanned again from the same nextIndex.                     *)
AllocateGrowing(o) ==
  /\ handle[o] = NoHandle
  /\ \A y \in nextIndex .. size - 1 : ~ Vacant(y)
  /\ size + ExtendBy <= MaxSize
  /\ LET fresh == {Object(y, size) : y \in size - 1 .. size + ExtendBy - 1}
         x == IF nextIndex < size THEN size - 1 ELSE nextIndex
     IN  /\ size' = size + ExtendBy
         /\ ptr' = Extended
         /\ index' = [p \in DOMAIN index \cup fresh |->
                        IF p = Object(x, size) THEN x
                        ELSE IF p \in fresh THEN -1 ELSE index[p]]
         /\ Claim(o, x, Object(x, size))

(* connections.c writes the ID and the realm through the owner's own       *)
(* pointer when the handshake is done.                                     *)
Ready(o) ==
  /\ handle[o] # NoHandle
  /\ LET p == handle[o].ptr
     IN  /\ realm' = [realm EXCEPT ![p] = Realm]
         /\ connectionID' = [q \in DOMAIN connectionID \cup {p} |->
                               IF q = p THEN handle[o].id ELSE connectionID[q]]
  /\ UNCHANGED <<size, count, nextIndex, ptr, index, handle, robbed>>

(* The ID an owner asks to be freed: the one it was told (freeX in the     *)
(* handshake) or the one its object holds by now (removeConnection, which  *)
(* does nothing for a realm that has not been written).                    *)
FreedIds(o) ==
  LET p == handle[o].ptr
  IN  {handle[o].id} \cup (IF realm[p] = Realm THEN {connectionID[p]} ELSE {})

(* The others whose object is in the slot that is freed.                   *)
Victims(o, id) == {r \in Owners \ {o} : handle[r] # NoHandle /\ handle[r].ptr = ptr[id]}

(* The owner lets go of its object, whatever was freed.                    *)
LetGo(o) == handle' = [handle EXCEPT ![o] = NoHandle]

(* Fault: nextIndex is not lowered.                                        *)
ReleaseKeepingNext(o) ==
  /\ handle[o] # NoHandle
  /\ \E id \in FreedIds(o) :
       IF Present(id)
       THEN /\ index' = [index EXCEPT ![ptr[id]] = -1]
            /\ count' = count - 1
            /\ robbed' = (robbed \cup Victims(o, id)) \ {o}
       ELSE UNCHANGED <<index, count>> /\ robbed' = robbed \ {o}
  /\ LetGo(o)
  /\ UNCHANGED <<size, nextIndex, ptr, realm, connectionID>>

(* Fault: the scan starts at the slot freed last, wherever it is.          *)
ReleaseRaisingNext(o) ==
  /\ handle[o] # NoHandle
  /\ \E id \in FreedIds(o) :
       IF Present(id)
       THEN /\ index' = [index EXCEPT ![ptr[id]] = -1]
            /\ count' = count - 1
            /\ nextIndex' = id
            /\ robbed' = (robbed \cup Victims(o, id)) \ {o}
       ELSE UNCHANGED <<index, count, nextIndex>> /\ robbed' = robbed \ {o}
  /\ LetGo(o)
  /\ UNCHANGED <<size, ptr, realm, connectionID>>

(* freeXInternal: connection_array_get, then connection_array_free if it   *)
(* found the ID.                                                           *)
Release(o) ==
  /\ handle[o] # NoHandle
  /\ \E id \in FreedIds(o) :
       IF Present(id)
       THEN /\ index' = [index EXCEPT ![ptr[id]] = -1]
            /\ count' = count - 1
            /\ nextIndex' = IF id < nextIndex THEN id ELSE nextIndex
            /\ robbed' = (robbed \cup Victims(o, id)) \ {o}
       ELSE UNCHANGED <<index, count, nextIndex>> /\ robbed' = robbed \ {o}
  /\ LetGo(o)
  /\ UNCHANGED <<size, ptr, realm, connectionID>>

Next ==
  \E o \in Owners :
    \/ AllocateFound(o)
    \/ AllocateGrowing(o)
    \/ Ready(o)
    \/ Release(o)

Spec == Init /\ [][Next]_vars

-----------------------------------------------------------------------------

Handles == [id : Nat, ptr : Nat \X Nat]

(* The types of the fields; each slot points to an object made for it, and *)
(* each object's index is -1 or its slot.                                  *)
TypeOK ==
  /\ size \in Nat \ {0}
  /\ count \in Nat
  /\ nextIndex \in 0 .. size
  /\ ptr \in [Slots -> DOMAIN index]
  /\ \A p \in DOMAIN index : p \in Nat \X Nat /\ index[p] \in {-1, p[1]}
  /\ \A x \in Slots : ptr[x][1] = x
  /\ DOMAIN realm \subseteq DOMAIN index
  /\ \A p \in DOMAIN realm : realm[p] \in 0 .. 255
  /\ handle \in [Owners -> Handles \cup {NoHandle}]
  /\ robbed \subseteq Owners

(* The scan may start at nextIndex because nothing is free below it: the   *)
(* only vacant slots it skips are those whose object an extension replaced.*)
HolesOnlyAtSeams ==
  \A x \in Slots : x < nextIndex /\ Vacant(x) => x \in Seams

(* vector->count exceeds the slots in use by exactly one for each          *)
(* extension, which drops one connection in use and nothing else;          *)
(* sock_datatypes.h:75 takes it for the number in use.                     *)
CountDrifts == count = Cardinality(Occupied) + Cardinality(Seams)

(* A slot that is taken is found by its number from the moment it is       *)
(* taken, so that whoever comes by that number can free it: the test of    *)
(* connection_array_get for a realm not yet written never hides one.       *)
TakenIsFound == \A x \in Occupied : Present(x)

(* Two owners come to share an object only by a free with a wrong ID:      *)
(* allocations and extensions alone, however they are mixed, give no       *)
(* object to a second owner.  One that was not robbed has its object to    *)
(* itself, in use, and in its slot unless an extension replaced it.        *)
OnlyTheRobbedShare ==
  /\ \A o, r \in Owners :
       o # r /\ handle[o] # NoHandle /\ handle[r] # NoHandle /\ handle[o].ptr = handle[r].ptr
         => o \in robbed \/ r \in robbed
  /\ \A o \in Owners \ robbed :
       handle[o] # NoHandle =>
         LET p == handle[o].ptr
         IN  index[p] = p[1] /\ (ptr[p[1]] = p \/ p[1] \in Seams)

(* A count that connection_array_get_all returns is never a partial one:   *)
(* either the overflow code, or all connections present were delivered.    *)
GetAllComplete ==
  \A m \in 1 .. size + 1 :
    \/ GetAllCount(m) = Cardinality({x \in Slots : Present(x)})
    \/ /\ GetAllCount(m) = POLYM_SERVICE_ARRAY_GETALL_OVERFLOW
       /\ Cardinality({x \in Slots : Present(x)}) >= m

(* sock.c:22 "stores peer connections by ID", info_structure.h:62 "the ID  *)
(* of the given connection on its realm": two connections that are both in *)
(* use never have the same ID.                                             *)
IdsUnique ==
  \A o, r \in Owners :
    o # r /\ handle[o] # NoHandle /\ handle[r] # NoHandle => handle[o].id # handle[r].id

(* What the invariants above need to be inductive: the array never shrinks,*)
(* objects are older than the present size (so an extension makes new      *)
(* ones), the original array has no seam, and an allocated object has a    *)
(* realm.                                                                  *)
ObjectsFit ==
  /\ size >= InitialSize
  /\ \A p \in DOMAIN index : p[2] < size
  /\ size = InitialSize => Seams = {}
  /\ \A x \in Occupied : ptr[x] \in DOMAIN realm

(* What an owner holds is an object that was made for a slot.              *)
HandleInv ==
  \A o \in Owners : handle[o] # NoHandle =>
    handle[o].ptr \in DOMAIN index /\ handle[o].ptr[1] \in Slots

IInv ==
  /\ TypeOK
  /\ ObjectsFit
  /\ HolesOnlyAtSeams
  /\ CountDrifts
  /\ HandleInv
  /\ OnlyTheRobbedShare

(* The table as a pool of slot numbers, until it grows.                    *)
slotsInUse == IF size > InitialSize THEN {-1} ELSE Occupied

Pool == INSTANCE SlotPool WITH
  Ids <- 0 .. InitialSize - 1, Void <- {-1}, used <- slotsInUse

(* Until it has to grow the array behaves as the pool: the scan from       *)
(* nextIndex finds the lowest free slot after any order of frees, a free   *)
(* by whatever ID frees that slot or none, and the array grows only when   *)
(* every slot is in use.                                                   *)
ImplementsPool == Pool!Spec

=============================================================================
