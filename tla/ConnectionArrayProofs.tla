------------------------ MODULE ConnectionArrayProofs ------------------------
(* The invariants of ConnectionArray, for arrays of every size and any     *)
(* finite number of owners.                                                *)
EXTENDS ConnectionArray, FiniteSetTheorems, WellFoundedInduction, TLAPS

(* Every set of slots the invariants count is finite.                      *)
LEMMA SlotSets ==
  ASSUME TypeOK
  PROVE  /\ IsFiniteSet(Slots)
         /\ IsFiniteSet(Occupied) /\ Cardinality(Occupied) \in Nat
         /\ IsFiniteSet(Seams) /\ Cardinality(Seams) \in Nat
<1>1. IsFiniteSet(Slots)
  BY FS_Interval DEF TypeOK, Slots
<1>2. Occupied \in SUBSET Slots /\ Seams \in SUBSET Slots
  BY DEF Occupied, Seams
<1>3. IsFiniteSet(Occupied) /\ IsFiniteSet(Seams)
  BY <1>1, <1>2, FS_Subset
<1> QED
  BY <1>1, <1>3, FS_CardinalityType

(* An owner's handle is a record once it is not NoHandle.                  *)
LEMMA HandleType ==
  ASSUME TypeOK, NEW o \in Owners, handle[o] # NoHandle
  PROVE  /\ handle[o] \in Handles
         /\ handle[o].id \in Nat
         /\ handle[o].ptr \in Nat \X Nat
         /\ handle[o] = [id |-> handle[o].id, ptr |-> handle[o].ptr]
<1>1. handle[o] \in Handles
  BY DEF TypeOK
<1> QED
  BY <1>1 DEF Handles

(* What is stored for POLY_REALM_UNINIT is a byte, so never -2 itself.     *)
LEMMA UninitByte == AsUint8(POLY_REALM_UNINIT) \in 0 .. 255
<1>1. \A v \in Int : AsUint8(v) \in 0 .. 255
  BY DEF AsUint8
<1>2. POLY_REALM_UNINIT \in Int
  BY DEF POLY_REALM_UNINIT
<1> QED
  BY <1>1, <1>2

(* A realm field is a byte, so an occupied slot is always present.         *)
LEMMA OccupiedPresent == TypeOK /\ ObjectsFit => TakenIsFound
<1> USE DEF TakenIsFound
<1> SUFFICES ASSUME TypeOK, ObjectsFit, NEW x \in Occupied
             PROVE  Present(x)
  OBVIOUS
<1>1. realm[ptr[x]] \in 0 .. 255
  BY DEF ObjectsFit, TypeOK
<1> QED
  BY <1>1 DEF Present, Occupied, POLY_REALM_UNINIT

LEMMA PresentOccupied ==
  ASSUME NEW x, Present(x)
  PROVE  x \in Occupied
BY DEF Present, Occupied

LEMMA InitIInv == Init => IInv
<1> SUFFICES ASSUME Init PROVE IInv
  OBVIOUS
<1> DEFINE Objects == {Object(x, 0) : x \in 0 .. InitialSize - 1}
<1>1. /\ size = InitialSize /\ size \in Nat \ {0}
      /\ Slots = 0 .. InitialSize - 1
      /\ DOMAIN index = Objects
  BY ArrayAssumption DEF Init, Slots
<1>2. \A x \in Slots : /\ ptr[x] = <<x, 0>> /\ ptr[x] \in Objects
                       /\ index[ptr[x]] = -1
  BY <1>1 DEF Init, Object
<1>3. \A p \in Objects : p \in Nat \X Nat /\ p[2] = 0 /\ index[p] = -1
  BY <1>1 DEF Init, Object
<1>4. Occupied = {} /\ Seams = {}
  BY <1>2, <1>1 DEF Occupied, Seams, Vacant, Slots
<1>5. TypeOK
  <2>1. ptr \in [Slots -> DOMAIN index]
    BY <1>1, <1>2 DEF Init
  <2>2. \A p \in DOMAIN realm : realm[p] \in 0 .. 255
    BY DEF Init
  <2>3. DOMAIN realm \subseteq DOMAIN index
    BY DEF Init
  <2>4. handle \in [Owners -> Handles \cup {NoHandle}] /\ robbed \subseteq Owners
    BY DEF Init
  <2>5. count \in Nat /\ nextIndex \in 0 .. size
    BY <1>1 DEF Init
  <2>6. \A p \in DOMAIN index : p \in Nat \X Nat /\ index[p] \in {-1, p[1]}
    BY <1>1, <1>3
  <2>7. \A x \in Slots : ptr[x][1] = x
    BY <1>2
  <2> QED
    BY <1>1, <2>1, <2>2, <2>3, <2>4, <2>5, <2>6, <2>7 DEF TypeOK
<1>6. ObjectsFit
  BY <1>1, <1>3, <1>4 DEF ObjectsFit
<1>7. HolesOnlyAtSeams
  BY <1>1 DEF HolesOnlyAtSeams, Init, Slots
<1>8. CountDrifts
  BY <1>4, FS_EmptySet DEF CountDrifts, Init
<1>9. HandleInv /\ OnlyTheRobbedShare
  BY DEF HandleInv, OnlyTheRobbedShare, Init
<1> QED
  BY <1>5, <1>6, <1>7, <1>8, <1>9 DEF IInv

LEMMA AllocateFoundIInv ==
  ASSUME IInv, NEW o \in Owners, AllocateFound(o)
  PROVE  IInv'
<1> USE DEF IInv
<1>1. PICK x \in Slots : /\ x >= nextIndex
                         /\ Vacant(x)
                         /\ \A y \in nextIndex .. x - 1 : ~ Vacant(y)
                         /\ index' = [index EXCEPT ![ptr[x]] = x]
                         /\ Claim(o, x, ptr[x])
  BY DEF AllocateFound
<1>2. /\ size' = size /\ ptr' = ptr /\ Slots' = Slots
      /\ DOMAIN index' = DOMAIN index
      /\ handle[o] = NoHandle
  BY <1>1 DEF AllocateFound, Slots
<1>3. /\ x \in Nat /\ x < size
      /\ ptr[x] \in DOMAIN index /\ ptr[x][1] = x
      /\ index'[ptr[x]] = x
  BY <1>1 DEF TypeOK, Slots
<1>4. \A y \in Slots : y # x => ptr[y] # ptr[x] /\ index'[ptr[y]] = index[ptr[y]]
  BY <1>1, <1>3 DEF TypeOK
<1>5. Seams' = Seams
  BY <1>2 DEF Seams
<1>6. Occupied' = Occupied \cup {x} /\ x \notin Occupied
  <2>1. Vacant(x) /\ \A y \in Slots : Vacant(y)' <=> y # x /\ Vacant(y)
    <3>1. Vacant(x) /\ ~ (x < 0)
      BY <1>1, <1>3
    <3>2. \A y \in Slots : y # x => (Vacant(y)' <=> Vacant(y))
      BY <1>2, <1>4 DEF Vacant
    <3>3. ~ Vacant(x)'
      BY <1>2, <1>3, <3>1 DEF Vacant
    <3> QED
      BY <3>1, <3>2, <3>3
  <2> QED
    BY <1>2, <2>1 DEF Occupied
<1>7. TypeOK'
  <2>1. handle' \in [Owners -> Handles \cup {NoHandle}] /\ robbed' \subseteq Owners
    <3>1. ptr[x] \in Nat \X Nat
      BY <1>3 DEF TypeOK
    <3>2. {x} \cup StrayIds \subseteq Nat
      BY <1>3, ArrayAssumption
    <3> QED
      BY <1>1, <3>1, <3>2 DEF Claim, TypeOK, Handles
  <2>2. /\ DOMAIN realm' \subseteq DOMAIN index'
        /\ \A p \in DOMAIN realm' : realm'[p] \in 0 .. 255
    BY <1>1, <1>2, <1>3, UninitByte DEF Claim, TypeOK
  <2>3. count' \in Nat /\ nextIndex' \in 0 .. size'
    BY <1>1, <1>2, <1>3 DEF Claim, TypeOK
  <2>4. \A p \in DOMAIN index' : p \in Nat \X Nat /\ index'[p] \in {-1, p[1]}
    BY <1>1, <1>2, <1>3 DEF TypeOK
  <2> QED
    BY <1>2, <2>1, <2>2, <2>3, <2>4 DEF TypeOK
<1>8. ObjectsFit'
  <2>1. \A y \in Occupied' : ptr'[y] \in DOMAIN realm'
    BY <1>1, <1>2, <1>6 DEF ObjectsFit, Claim
  <2> QED
    BY <1>2, <1>5, <2>1 DEF ObjectsFit
<1>9. HolesOnlyAtSeams'
  <2> SUFFICES ASSUME NEW y \in Slots, y < x + 1, Vacant(y)'
               PROVE  y \in Seams
    BY <1>1, <1>2, <1>5 DEF HolesOnlyAtSeams, Claim
  <2>1. y < x /\ Vacant(y)
    BY <1>1, <1>2, <1>3, <1>4 DEF Vacant, Slots, TypeOK
  <2>2. y < nextIndex
    BY <1>1, <1>3, <2>1 DEF Slots, TypeOK
  <2> QED
    BY <2>1, <2>2 DEF HolesOnlyAtSeams
<1>10. CountDrifts'
  <2>1. Cardinality(Occupied') = Cardinality(Occupied) + 1
    BY <1>6, SlotSets, FS_AddElement
  <2> QED
    BY <1>1, <1>5, <2>1, SlotSets DEF CountDrifts, Claim, TypeOK
<1>11. /\ handle'[o] # NoHandle => handle'[o].ptr = ptr[x]
       /\ \A r \in Owners : r # o => handle'[r] = handle[r]
       /\ robbed' = robbed
  BY <1>1 DEF Claim, TypeOK
<1>12. HandleInv'
  BY <1>2, <1>3, <1>11 DEF HandleInv, Slots
<1>13. \A r \in Owners \ robbed : handle[r] # NoHandle => handle[r].ptr # ptr[x]
  <2> SUFFICES ASSUME NEW r \in Owners \ robbed, handle[r] # NoHandle, handle[r].ptr = ptr[x]
               PROVE  FALSE
    OBVIOUS
  <2>1. index[ptr[x]] = x
    BY <1>3 DEF OnlyTheRobbedShare
  <2> QED
    BY <1>1, <1>3, <2>1 DEF Vacant
<1>14. OnlyTheRobbedShare'
  <2>1. ASSUME NEW q \in Owners, NEW r \in Owners, q # r, handle'[q] # NoHandle,
               handle'[r] # NoHandle, handle'[q].ptr = handle'[r].ptr
        PROVE  q \in robbed \/ r \in robbed
    BY <1>11, <1>13, <2>1 DEF OnlyTheRobbedShare
  <2>2. ASSUME NEW r \in Owners \ robbed, handle'[r] # NoHandle
        PROVE  /\ index'[handle'[r].ptr] = handle'[r].ptr[1]
               /\ ptr[handle'[r].ptr[1]] = handle'[r].ptr \/ handle'[r].ptr[1] \in Seams
    <3>1. CASE r = o
      BY <1>3, <1>11, <2>2, <3>1
    <3>2. CASE r # o
      <4>1. handle[r] # NoHandle /\ handle'[r].ptr = handle[r].ptr
        BY <1>11, <2>2, <3>2
      <4>2. handle[r].ptr \in DOMAIN index /\ handle[r].ptr # ptr[x]
        BY <1>13, <4>1 DEF HandleInv
      <4> QED
        BY <1>1, <4>1, <4>2 DEF OnlyTheRobbedShare
    <3> QED
      BY <3>1, <3>2
  <2> QED
    BY <1>2, <1>5, <1>11, <2>1, <2>2 DEF OnlyTheRobbedShare
<1> QED
  BY <1>7, <1>8, <1>9, <1>10, <1>12, <1>14

(* An extension replaces the object of the last slot, occupied or claimed, *)
(* by a new one: Occupied moves from that slot to the claimed one.         *)
LEMMA AllocateGrowingIInv ==
  ASSUME IInv, NEW o \in Owners, AllocateGrowing(o)
  PROVE  IInv'
<1> USE DEF IInv
<1> DEFINE last == size - 1
           fresh == {Object(y, size) : y \in last .. size + ExtendBy - 1}
           x == IF nextIndex < size THEN last ELSE nextIndex
<1>1. /\ handle[o] = NoHandle
      /\ \A y \in nextIndex .. last : ~ Vacant(y)
      /\ size' = size + ExtendBy
      /\ ptr' = Extended
      /\ index' = [p \in DOMAIN index \cup fresh |->
                     IF p = Object(x, size) THEN x
                     ELSE IF p \in fresh THEN -1 ELSE index[p]]
      /\ Claim(o, x, Object(x, size))
  BY DEF AllocateGrowing
<1>2. /\ size \in Nat \ {0} /\ nextIndex \in 0 .. size /\ ExtendBy \in Nat \ {0}
      /\ size' \in Nat \ {0} /\ size < size'
      /\ last \in Slots
      /\ x \in {last, size}
      /\ Slots = 0 .. last /\ Slots' = 0 .. size + ExtendBy - 1
      /\ x \in Slots' /\ last .. size + ExtendBy - 1 \subseteq Slots'
  BY <1>1, ArrayAssumption DEF TypeOK, Slots
<1>3. /\ \A y \in 0 .. size - 2 : y \in Slots /\ ptr'[y] = ptr[y]
      /\ \A y \in last .. size + ExtendBy - 1 : ptr'[y] = <<y, size>>
      /\ DOMAIN ptr' = Slots'
  BY <1>1, <1>2 DEF Extended, Object
<1>4. /\ DOMAIN index' = DOMAIN index \cup fresh
      /\ \A p \in DOMAIN index : p \notin fresh /\ index'[p] = index[p]
      /\ index'[<<x, size>>] = x
      /\ \A p \in fresh : p # <<x, size>> => index'[p] = -1
      /\ <<x, size>> \in fresh
  <2>1. \A p \in DOMAIN index : p[2] # size
    BY <1>2 DEF TypeOK, ObjectsFit
  <2>2. \A p \in fresh : p[2] = size
    BY DEF Object
  <2>3. <<x, size>> \in fresh
    BY <1>2 DEF Object
  <2> QED
    BY <1>1, <2>1, <2>2, <2>3 DEF Object
<1>5. last \in Occupied
  <2>1. CASE nextIndex < size
    BY <1>1, <1>2, <2>1 DEF Occupied
  <2>2. CASE nextIndex = size
    <3>1. last \notin Seams
      BY <1>2 DEF Seams, ObjectsFit, TypeOK
    <3> QED
      BY <1>2, <2>2, <3>1 DEF HolesOnlyAtSeams, Occupied
  <2> QED
    BY <1>2, <2>1, <2>2
<1>6. Seams' = Seams \cup {last} /\ last \notin Seams
  <2>1. last \notin Seams
    BY <1>2 DEF Seams, ObjectsFit, TypeOK
  <2>2. ASSUME NEW y \in Slots' PROVE y \in Seams' <=> y \in Seams \cup {last}
    <3>1. CASE y \in 0 .. size - 2
      BY <1>2, <1>3, <3>1 DEF Seams
    <3>2. CASE y \in last .. size + ExtendBy - 1
      BY <1>2, <1>3, <3>2, <2>1 DEF Seams
    <3> QED
      BY <1>2, <3>1, <3>2
  <2>3. Seams' \subseteq Slots' /\ Seams \cup {last} \subseteq Slots'
    BY <1>2 DEF Seams
  <2> QED
    BY <2>1, <2>2, <2>3
<1>7. \A y \in Slots' : Vacant(y)' <=> y # x /\ (y \in 0 .. size - 2 => Vacant(y))
  <2> SUFFICES ASSUME NEW y \in Slots'
               PROVE  Vacant(y)' <=> y # x /\ (y \in 0 .. size - 2 => Vacant(y))
    OBVIOUS
  <2>1. CASE y \in 0 .. size - 2
    <3>1. ptr'[y] = ptr[y] /\ ptr[y] \in DOMAIN index /\ y # x
      BY <1>2, <1>3, <2>1 DEF TypeOK
    <3> QED
      BY <1>4, <2>1, <3>1 DEF Vacant
  <2>2. CASE y \in last .. size + ExtendBy - 1
    <3>1. ptr'[y] = <<y, size>> /\ <<y, size>> \in fresh
      BY <1>3, <2>2 DEF Object
    <3>2. CASE y = x
      BY <1>2, <1>4, <3>1, <3>2 DEF Vacant
    <3>3. CASE y # x
      BY <1>2, <1>4, <2>2, <3>1, <3>3 DEF Vacant
    <3> QED
      BY <3>2, <3>3
  <2> QED
    BY <1>2, <2>1, <2>2
<1>8. Occupied' = (Occupied \ {last}) \cup {x} /\ x \notin Occupied \ {last}
  <2>1. x \notin Occupied \ {last}
    BY <1>2 DEF Occupied
  <2>2. ASSUME NEW y \in Slots'
        PROVE  y \in Occupied' <=> y \in (Occupied \ {last}) \cup {x}
    BY <1>2, <1>7 DEF Occupied
  <2>3. Occupied' \subseteq Slots' /\ (Occupied \ {last}) \cup {x} \subseteq Slots'
    BY <1>2 DEF Occupied
  <2> QED
    BY <2>1, <2>2, <2>3
<1>9. TypeOK'
  <2>1. \A p \in fresh : p \in Nat \X Nat /\ p[1] \in Nat
    BY <1>2 DEF Object
  <2>2. ptr' \in [Slots' -> DOMAIN index']
    <3>1. \A y \in last .. size + ExtendBy - 1 : ptr'[y] \in fresh
      BY <1>3 DEF Object
    <3>2. \A y \in 0 .. size - 2 : ptr'[y] \in DOMAIN index
      BY <1>2, <1>3 DEF TypeOK
    <3>3. Slots' = (0 .. size - 2) \cup (last .. size + ExtendBy - 1)
      BY <1>2
    <3>4. \A y \in Slots' : ptr'[y] \in DOMAIN index'
      BY <1>4, <3>1, <3>2, <3>3
    <3>5. ptr' = [y \in Slots' |-> ptr'[y]]
      BY <1>1, <1>2 DEF Extended
    <3> QED
      BY <3>4, <3>5
  <2>3. ASSUME NEW p \in DOMAIN index'
        PROVE  p \in Nat \X Nat /\ index'[p] \in {-1, p[1]}
    <3>1. CASE p \in DOMAIN index
      BY <1>4, <3>1 DEF TypeOK
    <3>2. CASE p \in fresh /\ p # <<x, size>>
      BY <1>4, <2>1, <3>2
    <3>3. CASE p = <<x, size>>
      <4>1. p[1] = x
        BY <3>3
      <4>2. p \in Nat \X Nat
        BY <1>4, <2>1, <3>3
      <4> QED
        BY <1>4, <3>3, <4>1, <4>2
    <3> QED
      BY <1>4, <3>1, <3>2, <3>3
  <2>4. \A y \in Slots' : ptr'[y][1] = y
    <3>1. \A y \in last .. size + ExtendBy - 1 : ptr'[y][1] = y
      BY <1>3
    <3>2. \A y \in 0 .. size - 2 : ptr'[y][1] = y
      BY <1>3 DEF TypeOK
    <3>3. \A y \in Slots' : y \in 0 .. size - 2 \/ y \in last .. size + ExtendBy - 1
      BY <1>2
    <3> QED
      BY <3>1, <3>2, <3>3
  <2>5. /\ DOMAIN realm' \subseteq DOMAIN index'
        /\ \A p \in DOMAIN realm' : realm'[p] \in 0 .. 255
    BY <1>1, <1>4, UninitByte DEF Claim, TypeOK, Object
  <2>6. count' \in Nat /\ nextIndex' \in 0 .. size'
    BY <1>1, <1>2 DEF Claim, TypeOK
  <2>7. handle' \in [Owners -> Handles \cup {NoHandle}] /\ robbed' \subseteq Owners
    <3>1. <<x, size>> \in Nat \X Nat /\ {x} \cup StrayIds \subseteq Nat
      BY <1>2, ArrayAssumption
    <3> QED
      BY <1>1, <3>1 DEF Claim, TypeOK, Handles, Object
  <2> QED
    BY <1>2, <2>2, <2>3, <2>4, <2>5, <2>6, <2>7 DEF TypeOK
<1>10. ObjectsFit'
  <2>1. \A p \in DOMAIN index' : p[2] < size'
    <3>1. \A p \in DOMAIN index : p[2] < size'
      BY <1>2 DEF ObjectsFit, TypeOK
    <3>2. \A p \in fresh : p[2] < size'
      BY <1>2 DEF Object
    <3> QED
      BY <1>4, <3>1, <3>2
  <2>2. size' >= InitialSize /\ size' # InitialSize
    BY <1>2, ArrayAssumption DEF ObjectsFit
  <2>3. ASSUME NEW y \in Occupied' PROVE ptr'[y] \in DOMAIN realm'
    <3>1. CASE y = x
      <4>1. ptr'[x] = <<x, size>>
        BY <1>2, <1>3
      <4> QED
        BY <1>1, <3>1, <4>1 DEF Claim, Object
    <3>2. CASE y # x
      <4>1. y \in 0 .. size - 2 /\ y \in Occupied
        BY <1>2, <1>8, <3>2 DEF Occupied
      <4> QED
        BY <1>1, <1>3, <4>1 DEF Claim, ObjectsFit
    <3> QED
      BY <3>1, <3>2
  <2> QED
    BY <2>1, <2>2, <2>3 DEF ObjectsFit
<1>11. HolesOnlyAtSeams'
  <2> SUFFICES ASSUME NEW y \in Slots', y < x + 1, Vacant(y)'
               PROVE  y \in Seams'
    BY <1>1 DEF HolesOnlyAtSeams, Claim
  <2>1. y # x /\ (y \in 0 .. size - 2 => Vacant(y))
    BY <1>7
  <2>2. CASE y = last
    BY <1>6, <2>2
  <2>3. CASE y \in 0 .. size - 2
    <3>1. y < nextIndex
      BY <1>1, <1>2, <2>1, <2>3
    <3> QED
      BY <1>2, <1>6, <2>1, <2>3, <3>1 DEF HolesOnlyAtSeams
  <2> QED
    BY <1>2, <2>1, <2>2, <2>3
<1>12. CountDrifts'
  <2>1. Cardinality(Occupied') = Cardinality(Occupied)
    <3>1. /\ IsFiniteSet(Occupied \ {last})
          /\ Cardinality(Occupied \ {last}) = Cardinality(Occupied) - 1
      BY <1>5, SlotSets, FS_RemoveElement
    <3>2. Cardinality(Occupied') = Cardinality(Occupied \ {last}) + 1
      BY <1>8, <3>1, FS_AddElement
    <3> QED
      BY <3>1, <3>2, SlotSets
  <2>2. Cardinality(Seams') = Cardinality(Seams) + 1
    BY <1>6, SlotSets, FS_AddElement
  <2> QED
    BY <1>1, <2>1, <2>2, SlotSets DEF CountDrifts, Claim, TypeOK
<1>13. /\ handle'[o] # NoHandle => handle'[o].ptr = <<x, size>>
       /\ \A r \in Owners : r # o => handle'[r] = handle[r]
       /\ robbed' = robbed
  BY <1>1 DEF Claim, TypeOK, Object
<1>14. HandleInv'
  <2>1. <<x, size>> \in DOMAIN index' /\ x \in Slots'
    BY <1>2, <1>4
  <2>2. Slots \subseteq Slots'
    BY <1>2
  <2> HIDE DEF x, fresh
  <2> QED
    BY <1>4, <1>13, <2>1, <2>2 DEF HandleInv
<1>15. \A y \in Slots : y # last => ptr'[y] = ptr[y]
  BY <1>2, <1>3
<1>16. \A r \in Owners : handle[r] # NoHandle => handle[r].ptr # <<x, size>>
  BY <1>4 DEF HandleInv
<1>17. OnlyTheRobbedShare'
  <2> HIDE DEF x, fresh, last
  <2>1. ASSUME NEW q \in Owners, NEW r \in Owners, q # r, handle'[q] # NoHandle,
               handle'[r] # NoHandle, handle'[q].ptr = handle'[r].ptr
        PROVE  q \in robbed \/ r \in robbed
    BY <1>13, <1>16, <2>1 DEF OnlyTheRobbedShare
  <2>2. ASSUME NEW r \in Owners \ robbed, handle'[r] # NoHandle
        PROVE  LET p == handle'[r].ptr
               IN  index'[p] = p[1] /\ (ptr'[p[1]] = p \/ p[1] \in Seams')
    <3>1. CASE r = o
      <4>1. ptr'[x] = <<x, size>> /\ <<x, size>>[1] = x
        BY <1>2, <1>3 DEF x, last
      <4> QED
        BY <1>4, <1>13, <2>2, <3>1, <4>1
    <3>2. CASE r # o
      <4>1. handle[r] # NoHandle /\ handle'[r].ptr = handle[r].ptr
        BY <1>13, <2>2, <3>2
      <4>2. handle[r].ptr \in DOMAIN index /\ handle[r].ptr[1] \in Slots
        BY <4>1 DEF HandleInv
      <4>3. /\ index[handle[r].ptr] = handle[r].ptr[1]
            /\ ptr[handle[r].ptr[1]] = handle[r].ptr \/ handle[r].ptr[1] \in Seams
        BY <4>1 DEF OnlyTheRobbedShare
      <4> QED
        BY <1>4, <1>6, <1>15, <4>1, <4>2, <4>3
    <3> QED
      BY <3>1, <3>2
  <2> QED
    BY <1>13, <2>1, <2>2 DEF OnlyTheRobbedShare
<1> QED
  BY <1>9, <1>10, <1>11, <1>12, <1>14, <1>17

LEMMA ReadyIInv ==
  ASSUME IInv, NEW o \in Owners, Ready(o)
  PROVE  IInv'
<1> USE DEF IInv
<1>1. /\ realm' = [realm EXCEPT ![handle[o].ptr] = Realm]
      /\ UNCHANGED <<size, count, nextIndex, ptr, index, handle, robbed>>
  BY DEF Ready
<1>2. /\ DOMAIN realm' = DOMAIN realm
      /\ \A p \in DOMAIN realm' : realm'[p] \in 0 .. 255
  BY <1>1, ArrayAssumption DEF TypeOK
<1>3. Slots' = Slots /\ Occupied' = Occupied /\ Seams' = Seams
  BY <1>1 DEF Slots, Occupied, Vacant, Seams
<1>4. TypeOK' /\ ObjectsFit'
  BY <1>1, <1>2, <1>3 DEF TypeOK, ObjectsFit
<1>5. HolesOnlyAtSeams' /\ CountDrifts' /\ HandleInv' /\ OnlyTheRobbedShare'
  BY <1>1, <1>3 DEF HolesOnlyAtSeams, CountDrifts, HandleInv, OnlyTheRobbedShare, Vacant
<1> QED
  BY <1>4, <1>5

LEMMA ReleaseIInv ==
  ASSUME IInv, NEW o \in Owners, Release(o)
  PROVE  IInv'
<1> USE DEF IInv
<1>0. PICK id \in FreedIds(o) :
        IF Present(id)
        THEN /\ index' = [index EXCEPT ![ptr[id]] = -1]
             /\ count' = count - 1
             /\ nextIndex' = IF id < nextIndex THEN id ELSE nextIndex
             /\ robbed' = (robbed \cup Victims(o, id)) \ {o}
        ELSE UNCHANGED <<index, count, nextIndex>> /\ robbed' = robbed \ {o}
  BY DEF Release
<1>1. /\ handle[o] # NoHandle
      /\ handle' = [handle EXCEPT ![o] = NoHandle]
      /\ size' = size /\ ptr' = ptr /\ realm' = realm
      /\ Slots' = Slots /\ Seams' = Seams
  BY DEF Release, LetGo, Slots, Seams
<1>2. \A r \in Owners : handle'[r] = IF r = o THEN NoHandle ELSE handle[r]
  BY <1>1 DEF TypeOK
<1>3. handle' \in [Owners -> Handles \cup {NoHandle}] /\ robbed' \subseteq Owners
  BY <1>0, <1>1 DEF TypeOK, Victims
<1>4. /\ Occupied' = Occupied \ {id}
      /\ \A y \in Slots : Vacant(y)' => y = id \/ Vacant(y)
      /\ DOMAIN index' = DOMAIN index
      /\ \A p \in DOMAIN index : index'[p] \in {-1, p[1]}
      /\ count' = count - IF id \in Occupied THEN 1 ELSE 0
      /\ nextIndex' \in 0 .. size
      /\ nextIndex' <= nextIndex
      /\ id \in Occupied => nextIndex' <= id
  <2>1. CASE Present(id)
    <3>1. /\ index' = [index EXCEPT ![ptr[id]] = -1]
          /\ count' = count - 1
          /\ nextIndex' = IF id < nextIndex THEN id ELSE nextIndex
      BY <1>0, <2>1
    <3>2. id \in Occupied /\ id \in Slots /\ ptr[id] \in DOMAIN index
      BY <2>1, PresentOccupied DEF Occupied, TypeOK
    <3>3. \A y \in Slots : /\ ptr[y] \in DOMAIN index
                           /\ y # id => ptr[y] # ptr[id]
      BY <3>2 DEF TypeOK
    <3>4. \A y \in Slots : Vacant(y)' <=> y = id \/ Vacant(y)
      BY <1>1, <3>1, <3>2, <3>3 DEF Vacant
    <3>5. Occupied' = Occupied \ {id}
      BY <1>1, <3>4 DEF Occupied
    <3>6. nextIndex' \in 0 .. size /\ nextIndex' <= nextIndex /\ nextIndex' <= id
      BY <3>1, <3>2 DEF TypeOK, Slots
    <3> QED
      BY <3>1, <3>2, <3>4, <3>5, <3>6 DEF TypeOK
  <2>2. CASE ~ Present(id)
    <3>1. UNCHANGED <<index, count, nextIndex>>
      BY <1>0, <2>2
    <3>2. id \notin Occupied
      BY <2>2, OccupiedPresent DEF TakenIsFound
    <3> QED
      BY <1>1, <3>1, <3>2 DEF Occupied, Vacant, TypeOK
  <2> QED
    BY <2>1, <2>2
<1>5. /\ Cardinality(Occupied') = Cardinality(Occupied) - IF id \in Occupied THEN 1 ELSE 0
      /\ Cardinality(Occupied') \in Nat
  <2>1. IsFiniteSet(Occupied \ {id})
    BY SlotSets, FS_RemoveElement
  <2> QED
    BY <1>4, <2>1, SlotSets, FS_RemoveElement, FS_CardinalityType
<1>6. CountDrifts' /\ count' \in Nat
  <2>1. count' = Cardinality(Occupied') + Cardinality(Seams)
    BY <1>4, <1>5, SlotSets DEF CountDrifts, TypeOK
  <2> QED
    BY <1>1, <1>5, <2>1, SlotSets DEF CountDrifts
<1>7. TypeOK'
  BY <1>1, <1>3, <1>4, <1>6 DEF TypeOK
<1>8. ObjectsFit'
  BY <1>1, <1>4 DEF ObjectsFit
<1>9. HolesOnlyAtSeams'
  <2> SUFFICES ASSUME NEW y \in Slots, y < nextIndex', Vacant(y)'
               PROVE  y \in Seams
    BY <1>1 DEF HolesOnlyAtSeams
  <2>1. y < nextIndex
    BY <1>4 DEF TypeOK, Slots
  <2>2. Vacant(y)
    BY <1>4 DEF Occupied, TypeOK, Slots
  <2> QED
    BY <2>1, <2>2 DEF HolesOnlyAtSeams
<1>10. HandleInv'
  BY <1>1, <1>2, <1>4 DEF HandleInv
<1>11. ASSUME NEW r \in Owners \ robbed', handle'[r] # NoHandle
       PROVE  /\ r \notin robbed /\ r # o
              /\ handle[r] # NoHandle /\ handle'[r] = handle[r]
              /\ index'[handle[r].ptr] = index[handle[r].ptr]
  <2>1. r # o /\ handle[r] # NoHandle /\ handle'[r] = handle[r] /\ r \notin robbed
    BY <1>0, <1>2, <1>11
  <2>2. CASE Present(id)
    <3>1. r \notin Victims(o, id)
      BY <1>0, <1>11, <2>1, <2>2
    <3>2. handle[r].ptr # ptr[id] /\ handle[r].ptr \in DOMAIN index
      BY <2>1, <3>1 DEF Victims, HandleInv
    <3> QED
      BY <1>0, <2>1, <2>2, <3>2
  <2>3. CASE ~ Present(id)
    BY <1>0, <2>1, <2>3
  <2> QED
    BY <2>2, <2>3
<1>12. OnlyTheRobbedShare'
  <2>1. ASSUME NEW q \in Owners, NEW r \in Owners, q # r, handle'[q] # NoHandle,
               handle'[r] # NoHandle, handle'[q].ptr = handle'[r].ptr,
               q \notin robbed', r \notin robbed'
        PROVE  FALSE
    BY <1>11, <2>1 DEF OnlyTheRobbedShare
  <2>2. ASSUME NEW r \in Owners \ robbed', handle'[r] # NoHandle
        PROVE  LET p == handle'[r].ptr
               IN  index'[p] = p[1] /\ (ptr[p[1]] = p \/ p[1] \in Seams)
    BY <1>11, <2>2 DEF OnlyTheRobbedShare
  <2> QED
    BY <1>1, <2>1, <2>2 DEF OnlyTheRobbedShare
<1> QED
  BY <1>6, <1>7, <1>8, <1>9, <1>10, <1>12

(* The conjunction is an invariant of the array.                           *)
LEMMA StepIInv == IInv /\ [Next]_vars => IInv'
<1> SUFFICES ASSUME IInv, [Next]_vars PROVE IInv'
  OBVIOUS
<1>1. ASSUME NEW o \in Owners, AllocateFound(o) PROVE IInv'
  BY <1>1, AllocateFoundIInv
<1>2. ASSUME NEW o \in Owners, AllocateGrowing(o) PROVE IInv'
  BY <1>2, AllocateGrowingIInv
<1>3. ASSUME NEW o \in Owners, Ready(o) PROVE IInv'
  BY <1>3, ReadyIInv
<1>4. ASSUME NEW o \in Owners, Release(o) PROVE IInv'
  BY <1>4, ReleaseIInv
<1>5. CASE UNCHANGED vars
  BY <1>5 DEF vars, IInv, TypeOK, ObjectsFit, HolesOnlyAtSeams, CountDrifts,
              HandleInv, OnlyTheRobbedShare, Slots, Occupied, Seams, Vacant
<1> QED
  BY <1>1, <1>2, <1>3, <1>4, <1>5 DEF Next

(* The strengthened invariant holds of the array under any sequence of the *)
(* calls of sock.c.                                                        *)
THEOREM Invariance == Spec => []IInv
BY InitIInv, StepIInv, PTL DEF Spec

(* The fields keep their types; every slot has its own object.             *)
THEOREM TypeCorrect == Spec => []TypeOK
BY Invariance, PTL DEF IInv

(* A scan from nextIndex misses no free slot but those an extension made   *)
(* unreachable (connection_array_allocate, connection_array_free).         *)
THEOREM ScanMissesOnlySeams == Spec => []HolesOnlyAtSeams
BY Invariance, PTL DEF IInv

(* vector->count is too high by exactly one for each connection an         *)
(* extension dropped (connection_array_extend), though sock_datatypes.h:75 *)
(* takes it for the number of connections in the array.                    *)
THEOREM CountIsTooHigh == Spec => []CountDrifts
BY Invariance, PTL DEF IInv

(* A slot in use is found by its number at all times, so that it can be    *)
(* freed (connection_array_get, freeXInternal).                            *)
THEOREM TakenSlotsAreFound == Spec => []TakenIsFound
<1>1. IInv => TakenIsFound
  BY OccupiedPresent DEF IInv
<1> QED
  BY <1>1, Invariance, PTL

(* Only a free by an ID that is another's makes two owners share an object *)
(* (connection_array_allocate, connection_array_extend, freeXInternal).    *)
THEOREM SharingNeedsARobbery == Spec => []OnlyTheRobbedShare
BY Invariance, PTL DEF IInv

-----------------------------------------------------------------------------

(* A set of naturals has a least element.                                  *)
LEMMA LeastOf ==
  ASSUME NEW S \in SUBSET Nat, S # {}
  PROVE  \E x \in S : \A y \in S : x <= y
<1> DEFINE LT == {ss \in Nat \X Nat : ss[1] < ss[2]}
<1>1. IsWellFoundedOn(LT, Nat)
  BY NatLessThanWellFounded DEF OpToRel
<1> HIDE DEF LT
<1>2. PICK x \in S : \A y \in S : <<y, x>> \notin LT
  BY <1>1, WFMin
<1>3. \A y \in S : ~ (y < x)
  BY <1>2 DEF LT
<1> QED
  BY <1>3

(* A bounded set of naturals has a greatest element.                       *)
LEMMA GreatestOf ==
  ASSUME NEW S \in SUBSET Nat, S # {}, NEW n \in Nat, \A y \in S : y <= n
  PROVE  \E x \in S : \A y \in S : y <= x
<1> DEFINE D == {d \in Nat : n - d \in S}
<1>1. D # {}
  <2>1. PICK y \in S : TRUE
    OBVIOUS
  <2>2. n - y \in Nat /\ n - (n - y) = y
    OBVIOUS
  <2> QED
    BY <2>2
<1>2. PICK d \in D : \A e \in D : d <= e
  BY <1>1, LeastOf
<1>3. ASSUME NEW y \in S PROVE y <= n - d
  <2>1. n - y \in Nat /\ n - (n - y) = y
    OBVIOUS
  <2>2. d <= n - y
    BY <1>2, <2>1
  <2> QED
    BY <2>1, <2>2
<1> QED
  BY <1>2, <1>3

(* The scan of a set of slots passes m members at one of them, if there    *)
(* are as many.                                                            *)
LEMMA ScanReaches ==
  ASSUME NEW S \in SUBSET Nat, IsFiniteSet(S),
         NEW n \in Nat, \A y \in S : y <= n,
         NEW m \in Nat \ {0}, Cardinality(S) >= m
  PROVE  \E x \in S : Cardinality({y \in S : y <= x}) = m
<1> DEFINE Upto(x) == {y \in S : y <= x}
           Reached == {x \in S : Cardinality(Upto(x)) >= m}
<1>1. \A T \in SUBSET S : IsFiniteSet(T) /\ Cardinality(T) \in Nat
  BY FS_Subset, FS_CardinalityType
<1>2. S # {}
  BY FS_EmptySet
<1>3. PICK top \in S : \A y \in S : y <= top
  BY <1>2, GreatestOf
<1>4. Upto(top) = S
  BY <1>3
<1>5. top \in Reached
  BY <1>4
<1>6. PICK x \in Reached : \A y \in Reached : x <= y
  <2>1. Reached \in SUBSET Nat /\ Reached # {}
    BY <1>5
  <2> HIDE DEF Reached
  <2> QED
    BY <2>1, LeastOf
<1>7. ASSUME Cardinality(Upto(x)) > m PROVE FALSE
  <2> DEFINE Passed == Upto(x) \ {x}
  <2>1. x \in Upto(x) /\ IsFiniteSet(Upto(x)) /\ Cardinality(Upto(x)) \in Nat
    BY <1>1
  <2>2. IsFiniteSet(Passed) /\ Cardinality(Passed) = Cardinality(Upto(x)) - 1
    BY <2>1, FS_RemoveElement
  <2>3. Cardinality(Passed) >= m
    BY <1>7, <2>1, <2>2
  <2>4. Passed # {}
    BY <2>3, FS_EmptySet
  <2>5. Passed \in SUBSET Nat /\ \A y \in Passed : y <= n
    OBVIOUS
  <2>6. PICK z \in Passed : \A y \in Passed : y <= z
    <3> HIDE DEF Passed
    <3> QED
      BY <2>4, <2>5, GreatestOf
  <2>7. z \in S /\ z < x /\ Upto(z) = Passed
    <3>1. z \in S /\ z \in Nat /\ x \in Nat /\ z < x
      OBVIOUS
    <3>2. \A y \in S : y <= z => y \in Passed
      BY <3>1
    <3> QED
      BY <2>6, <3>1, <3>2
  <2>8. z \in Reached
    BY <2>3, <2>7
  <2> QED
    BY <1>6, <2>7, <2>8
<1>8. Cardinality(Upto(x)) \in Nat /\ Cardinality(Upto(x)) >= m
  BY <1>1, <1>6
<1>9. x \in S /\ Cardinality(Upto(x)) = m
  <2> HIDE DEF Upto
  <2> QED
    BY <1>6, <1>7, <1>8
<1> QED
  BY <1>9

(* A list that connection_array_get_all returns is complete, unless it     *)
(* returns the overflow code, and then as many were found as fit.          *)
LEMMA GetAllCounts == TypeOK => GetAllComplete
<1> SUFFICES ASSUME TypeOK, NEW m \in 1 .. size + 1
             PROVE  LET found == {x \in Slots : Present(x)}
                    IN  \/ GetAllCount(m) = Cardinality(found)
                        \/ /\ GetAllCount(m) = POLYM_SERVICE_ARRAY_GETALL_OVERFLOW
                           /\ Cardinality(found) >= m
  BY DEF GetAllComplete
<1> DEFINE found == {x \in Slots : Present(x)}
           Before(x) == Cardinality({y \in found : y <= x})
<1> HIDE DEF found
<1>1. size \in Nat \ {0} /\ m \in Nat \ {0}
  BY DEF TypeOK
<1>2. found \in SUBSET (0 .. size - 1)
  BY DEF found, Slots
<1>3. IsFiniteSet(found) /\ Cardinality(found) \in Nat
  <2>1. IsFiniteSet(0 .. size - 1)
    BY <1>1, FS_Interval
  <2>2. IsFiniteSet(found)
    BY <1>2, <2>1, FS_Subset
  <2> QED
    BY <2>2, FS_CardinalityType
<1>4. GetAllCount(m) =
        IF \E x \in found : Before(x) = m /\ x # size - 1
        THEN POLYM_SERVICE_ARRAY_GETALL_OVERFLOW
        ELSE IF Cardinality(found) < m THEN Cardinality(found) ELSE m
  BY <1>1 DEF GetAllCount, found
<1>5. CASE \E x \in found : Before(x) = m /\ x # size - 1
  <2>1. PICK x \in found : Before(x) = m
    BY <1>5
  <2>2. Before(x) <= Cardinality(found)
    BY <1>3, FS_Subset
  <2>3. Cardinality(found) >= m
    BY <1>1, <1>3, <2>1, <2>2
  <2> QED
    BY <1>4, <1>5, <2>3 DEF found
<1>6. CASE ~ \E x \in found : Before(x) = m /\ x # size - 1
  <2>1. CASE Cardinality(found) < m
    BY <1>4, <1>6, <2>1 DEF found
  <2>2. CASE Cardinality(found) >= m
    <3>1. PICK x \in found : Before(x) = m
      <4>1. found \in SUBSET Nat /\ size - 1 \in Nat /\ \A y \in found : y <= size - 1
        BY <1>1, <1>2
      <4> QED
        BY <1>1, <1>3, <2>2, <4>1, ScanReaches
    <3>2. x = size - 1
      BY <1>6, <3>1
    <3>3. {y \in found : y <= x} = found
      <4>1. \A y \in found : y <= x
        BY <1>1, <1>2, <3>2
      <4> QED
        BY <4>1
    <3>4. Cardinality(found) = m
      BY <3>1, <3>3
    <3> QED
      BY <1>1, <1>4, <1>6, <3>4 DEF found
  <2> QED
    BY <1>1, <1>3, <2>1, <2>2
<1> QED
  BY <1>5, <1>6

(* A list of the connected that is returned is never a partial one         *)
(* (connection_array_get_all).                                             *)
THEOREM ListsAreComplete == Spec => []GetAllComplete
BY TypeCorrect, GetAllCounts, PTL

-----------------------------------------------------------------------------

(* The array grows for the first time only when every slot is taken.        *)
LEMMA FullWhenGrowing ==
  ASSUME IInv, size = InitialSize, NEW o \in Owners, AllocateGrowing(o)
  PROVE  Slots \subseteq Occupied
<1> USE DEF IInv
<1>1. \A y \in nextIndex .. size - 1 : ~ Vacant(y)
  BY DEF AllocateGrowing
<1> SUFFICES ASSUME NEW y \in Slots PROVE ~ Vacant(y)
  BY DEF Occupied
<1>2. Seams = {}
  BY DEF ObjectsFit
<1>3. CASE y < nextIndex
  BY <1>2, <1>3 DEF HolesOnlyAtSeams
<1>4. CASE y >= nextIndex
  BY <1>1, <1>4 DEF Slots, TypeOK
<1> QED
  BY <1>3, <1>4 DEF Slots, TypeOK

(* Until it grows the array implements the pool that always hands out the  *)
(* lowest free slot, and it grows only when none is free.                  *)
THEOREM PoolRefinement == Spec => ImplementsPool
<1>1. Init => Pool!Init
  <2> SUFFICES ASSUME Init PROVE Occupied = {} /\ ~ (size > InitialSize)
    BY DEF Pool!Init, slotsInUse
  <2>1. Slots = 0 .. InitialSize - 1 /\ InitialSize \in Nat
    BY ArrayAssumption DEF Init, Slots
  <2>2. \A x \in Slots : Vacant(x)
    BY <2>1 DEF Init, Vacant, Object
  <2> QED
    BY <2>1, <2>2 DEF Occupied, Init
<1>2. IInv /\ [Next]_vars => [Pool!Next]_slotsInUse
  <2> SUFFICES ASSUME IInv, [Next]_vars PROVE [Pool!Next]_slotsInUse
    OBVIOUS
  <2> USE DEF IInv
  <2>1. size \in Nat /\ size >= InitialSize /\ InitialSize \in Nat /\ ExtendBy \in Nat \ {0}
    BY ArrayAssumption DEF TypeOK, ObjectsFit
  <2>2. CASE UNCHANGED vars
    BY <2>2 DEF vars, slotsInUse, Occupied, Slots, Vacant
  <2>3. CASE size > InitialSize /\ Next
    <3>1. size' = size \/ size' = size + ExtendBy
      BY <2>3 DEF Next, AllocateFound, AllocateGrowing, Ready, Release
    <3> QED
      BY <2>1, <2>3, <3>1 DEF slotsInUse
  <2>4. CASE size = InitialSize /\ Next
    <3>1. slotsInUse = Occupied /\ Slots = 0 .. InitialSize - 1
      BY <2>1, <2>4 DEF slotsInUse, Slots
    <3>2. Occupied \subseteq Slots /\ Slots \subseteq Nat /\ slotsInUse # {-1}
      BY <2>1, <3>1 DEF Occupied
    <3>3. size' = size => slotsInUse' = Occupied'
      BY <2>1, <2>4 DEF slotsInUse
    <3>4. ASSUME NEW o \in Owners, AllocateFound(o) PROVE Pool!Take
      <4>1. PICK x \in Slots : /\ x >= nextIndex
                               /\ Vacant(x)
                               /\ \A y \in nextIndex .. x - 1 : ~ Vacant(y)
                               /\ index' = [index EXCEPT ![ptr[x]] = x]
        BY <3>4 DEF AllocateFound
      <4>2. size' = size /\ ptr' = ptr /\ Slots' = Slots
        BY <3>4 DEF AllocateFound, Slots
      <4>3. Occupied' = Occupied \cup {x} /\ x \notin Occupied
        <5>1. \A y \in Slots : ptr[y] \in DOMAIN index /\ (y # x => ptr[y] # ptr[x])
          BY DEF TypeOK
        <5>2. \A y \in Slots : Vacant(y)' <=> y # x /\ Vacant(y)
          BY <3>2, <4>1, <4>2, <5>1 DEF Vacant
        <5> QED
          BY <4>1, <4>2, <5>2 DEF Occupied
      <4>4. ASSUME NEW lower \in Slots \ Occupied PROVE x <= lower
        <5> SUFFICES ASSUME lower < x PROVE FALSE
          BY DEF Slots, TypeOK
        <5>1. Vacant(lower)
          BY DEF Occupied
        <5>2. lower < nextIndex
          <6>1. lower \in Int /\ nextIndex \in Int /\ x \in Int
            BY DEF Slots, TypeOK
          <6> QED
            BY <4>1, <5>1, <6>1
        <5> QED
          BY <2>4, <5>1, <5>2 DEF HolesOnlyAtSeams, ObjectsFit
      <4> QED
        BY <3>1, <3>3, <4>1, <4>2, <4>3, <4>4 DEF Pool!Take
    <3>5. ASSUME NEW o \in Owners, Ready(o) PROVE UNCHANGED slotsInUse
      BY <3>5 DEF Ready, slotsInUse, Occupied, Slots, Vacant
    <3>6. ASSUME NEW o \in Owners, Release(o) PROVE Pool!GiveBack \/ UNCHANGED slotsInUse
      <4>0. size' = size /\ ptr' = ptr /\ Slots' = Slots
        BY <3>6 DEF Release, Slots
      <4>1. CASE index' = index
        BY <3>1, <3>3, <4>0, <4>1 DEF Occupied, Vacant
      <4>2. CASE \E id \in Slots : Present(id) /\ index' = [index EXCEPT ![ptr[id]] = -1]
        <5>1. PICK id \in Slots : Present(id) /\ index' = [index EXCEPT ![ptr[id]] = -1]
          BY <4>2
        <5>2. \A y \in Slots : ptr[y] \in DOMAIN index /\ (y # id => ptr[y] # ptr[id])
          BY DEF TypeOK
        <5>3. \A y \in Slots : Vacant(y)' <=> y = id \/ Vacant(y)
          BY <4>0, <5>1, <5>2 DEF Vacant
        <5>4. Occupied' = Occupied \ {id} /\ id \in Occupied
          BY <4>0, <5>1, <5>3, PresentOccupied DEF Occupied
        <5> QED
          BY <3>1, <3>3, <4>0, <5>4 DEF Pool!GiveBack
      <4> QED
        BY <3>6, <4>1, <4>2 DEF Release, Present
    <3>7. ASSUME NEW o \in Owners, AllocateGrowing(o) PROVE Pool!Exhaust
      <4>1. size' = size + ExtendBy
        BY <3>7 DEF AllocateGrowing
      <4>2. slotsInUse' = {-1}
        BY <2>1, <2>4, <4>1 DEF slotsInUse
      <4>3. Slots \subseteq Occupied
        BY <2>4, <3>7, FullWhenGrowing
      <4> QED
        BY <3>1, <4>2, <4>3 DEF Pool!Exhaust
    <3> QED
      BY <2>4, <3>2, <3>4, <3>5, <3>6, <3>7 DEF Next, Pool!Next
  <2> QED
    BY <2>1, <2>2, <2>3, <2>4
<1> QED
  BY <1>1, <1>2, Invariance, PTL DEF Spec, ImplementsPool, Pool!Spec

=============================================================================
