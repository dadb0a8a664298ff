--------------------------- MODULE BufferArrayProofs ---------------------------
(* The invariants of BufferArray, and the pool of buffers it implements,   *)
(* for arrays of every size and any finite number of senders.              *)
EXTENDS BufferArray, FiniteSetTheorems, TLAPS

LEMMA UsedFinite ==
  ASSUME TypeOK
  PROVE  IsFiniteSet(used) /\ Cardinality(used) \in Nat
<1>1. IsFiniteSet(Slots)
  BY FS_Interval, BufferAssumption DEF Slots
<1> QED
  BY <1>1, FS_Subset, FS_CardinalityType DEF TypeOK

LEMMA InitIInv == Init => IInv
<1> SUFFICES ASSUME Init PROVE IInv
  OBVIOUS
<1>1. count = Cardinality(used)
  BY FS_EmptySet DEF Init
<1>2. TypeOK
  <2>1. nextIndex \in 0 .. InitialSize
    BY BufferAssumption DEF Init
  <2> QED
    BY <1>1, <2>1 DEF Init, TypeOK
<1>3. OneHolder /\ FaultsOnlyWhenFull
  BY DEF Init, OneHolder, FaultsOnlyWhenFull
<1>4. NothingFreeBelow
  BY DEF Init, NothingFreeBelow, Slots
<1> QED
  BY <1>2, <1>3, <1>4 DEF IInv

LEMMA AllocateIInv ==
  ASSUME IInv, NEW s \in Senders, Allocate(s)
  PROVE  IInv'
<1> USE DEF IInv
<1>1. PICK x \in Slots \ used : /\ x >= nextIndex
                                /\ nextIndex .. x - 1 \subseteq used
                                /\ Claim(s, x)
  BY DEF Allocate
<1>2. /\ used' = used \cup {x} /\ nextIndex' = x + 1 /\ count' = count + 1
      /\ buffer' = [buffer EXCEPT ![s] = x] /\ flying' = flying
      /\ faulted = FALSE /\ faulted' = FALSE /\ buffer[s] = None
  BY <1>1 DEF Allocate, Wants, Claim, TypeOK
<1>3. x \in Int /\ None \notin Slots /\ x # None /\ nextIndex \in Int
  BY DEF Slots, None, TypeOK
<1>4. TypeOK'
  <2>1. count' = Cardinality(used')
    BY <1>1, <1>2, UsedFinite, FS_AddElement DEF TypeOK
  <2>2. nextIndex' \in 0 .. InitialSize
    BY <1>1, <1>2, BufferAssumption DEF Slots
  <2> QED
    BY <1>1, <1>2, <2>1, <2>2 DEF TypeOK
<1>5. OneHolder'
  <2>1. \A y \in used : Holders(y)' = Holders(y)
    <3> SUFFICES ASSUME NEW y \in used PROVE Holders(y)' = Holders(y)
      OBVIOUS
    <3>1. y # x /\ y # None
      BY <1>1, <1>3 DEF TypeOK
    <3> QED
      BY <1>2, <3>1 DEF Holders, TypeOK
  <2>2. Holders(x)' = {s}
    BY <1>1, <1>2, <1>3 DEF Holders, OneHolder, TypeOK
  <2> QED
    BY <1>2, <1>3, <2>1, <2>2 DEF OneHolder, TypeOK
<1>6. NothingFreeBelow'
  <2> SUFFICES ASSUME NEW y \in Slots, y < x + 1 PROVE y \in used \cup {x}
    BY <1>2 DEF NothingFreeBelow
  <2>1. y < nextIndex \/ y \in nextIndex .. x - 1 \/ y = x
    BY <1>3 DEF Slots
  <2> QED
    BY <1>1, <2>1 DEF NothingFreeBelow
<1>7. FaultsOnlyWhenFull'
  BY <1>2 DEF FaultsOnlyWhenFull
<1> QED
  BY <1>4, <1>5, <1>6, <1>7

(* The scan that finds nothing has passed over every slot.                 *)
LEMMA ScannedAll ==
  ASSUME IInv, nextIndex .. InitialSize - 1 \subseteq used
  PROVE  used = Slots
<1>1. ASSUME NEW y \in Slots PROVE y \in used
  <2>1. y < nextIndex \/ y \in nextIndex .. InitialSize - 1
    BY BufferAssumption DEF IInv, TypeOK, Slots
  <2> QED
    BY <2>1 DEF IInv, NothingFreeBelow
<1> QED
  BY <1>1 DEF IInv, TypeOK

LEMMA ExtendIInv ==
  ASSUME IInv, NEW s \in Senders, Extend(s)
  PROVE  IInv'
<1>1. used = Slots
  BY ScannedAll DEF Extend
<1>2. faulted' = TRUE /\ UNCHANGED <<used, count, nextIndex, buffer, flying>>
  BY DEF Extend, array
<1> QED
  BY <1>1, <1>2 DEF IInv, TypeOK, OneHolder, Holders, NothingFreeBelow, FaultsOnlyWhenFull

LEMMA SendAsyncIInv ==
  ASSUME IInv, NEW s \in Senders, SendAsync(s)
  PROVE  IInv'
<1>1. /\ UNCHANGED <<used, count, nextIndex, buffer, faulted>>
      /\ flying' = flying \cup {s} /\ buffer[s] # None
  BY DEF SendAsync, array
<1> QED
  BY <1>1 DEF IInv, TypeOK, OneHolder, Holders, NothingFreeBelow, FaultsOnlyWhenFull

LEMMA CompletedIInv ==
  ASSUME IInv, NEW s \in Senders, Completed(s)
  PROVE  IInv'
<1> USE DEF IInv
<1> DEFINE x == buffer[s]
<1>1. /\ used' = used \ {x} /\ count' = count - 1
      /\ nextIndex' = IF x < nextIndex THEN x ELSE nextIndex
      /\ buffer' = [buffer EXCEPT ![s] = None]
      /\ flying' = flying \ {s} /\ s \in flying
      /\ faulted = FALSE /\ faulted' = FALSE
  BY DEF Completed, Free, TypeOK
<1>2. x \in used /\ x \in Slots /\ x # None /\ Holders(x) = {s}
  <2>1. x # None /\ x \in used /\ s \in Holders(x)
    BY <1>1 DEF OneHolder, Holders
  <2> QED
    BY <2>1 DEF OneHolder, TypeOK
<1>3. nextIndex \in Int /\ x \in Int /\ None \notin Slots
  BY <1>2 DEF TypeOK, Slots, None
<1> HIDE DEF x
<1>4. TypeOK'
  <2>1. count' = Cardinality(used')
    BY <1>1, <1>2, UsedFinite, FS_RemoveElement DEF TypeOK
  <2>2. nextIndex' \in 0 .. InitialSize
    BY <1>1, <1>2, BufferAssumption DEF Slots, TypeOK
  <2>3. buffer' \in [Senders -> Slots \cup {None}]
    BY <1>1 DEF TypeOK
  <2> QED
    BY <1>1, <2>1, <2>2, <2>3 DEF TypeOK
<1>5. OneHolder'
  <2>1. \A y \in used \ {x} : Holders(y)' = Holders(y)
    <3> SUFFICES ASSUME NEW y \in used \ {x} PROVE Holders(y)' = Holders(y)
      OBVIOUS
    <3>1. y # None /\ s \notin Holders(y)
      BY <1>3 DEF TypeOK, Holders, x
    <3> QED
      BY <1>1, <3>1 DEF Holders, TypeOK
  <2>2. ASSUME NEW r \in Senders, r # s, buffer[r] # None PROVE buffer[r] \in used \ {x}
    BY <1>2, <2>2 DEF OneHolder, Holders
  <2>3. \A r \in Senders : r # s => buffer'[r] = buffer[r]
    BY <1>1 DEF TypeOK
  <2>4. buffer'[s] = None
    BY <1>1 DEF TypeOK
  <2> QED
    BY <1>1, <2>1, <2>2, <2>3, <2>4 DEF OneHolder, TypeOK
<1>6. NothingFreeBelow'
  <2> SUFFICES ASSUME NEW y \in Slots, y < nextIndex' PROVE y \in used \ {x}
    BY <1>1 DEF NothingFreeBelow
  <2>1. y < nextIndex /\ y # x
    BY <1>1, <1>3 DEF Slots
  <2> QED
    BY <2>1 DEF NothingFreeBelow
<1>7. FaultsOnlyWhenFull'
  BY <1>1 DEF FaultsOnlyWhenFull
<1> QED
  BY <1>4, <1>5, <1>6, <1>7

LEMMA StepIInv ==
  ASSUME IInv, [Next]_vars
  PROVE  IInv'
<1>1. CASE Next
  BY <1>1, AllocateIInv, ExtendIInv, SendAsyncIInv, CompletedIInv DEF Next
<1>2. CASE UNCHANGED vars
  BY <1>2 DEF vars, array, IInv, TypeOK, OneHolder, Holders, NothingFreeBelow,
              FaultsOnlyWhenFull
<1> QED
  BY <1>1, <1>2

(* The inductive invariant holds of every run.                             *)
THEOREM Invariance == Spec => []IInv
<1>1. IInv /\ [Next]_vars => IInv'
  BY StepIInv
<1> QED
  BY InitIInv, <1>1, PTL DEF Spec

(* The count of the array is exact, however the sends overlap.             *)
THEOREM TypeCorrect == Spec => []TypeOK
<1>1. IInv => TypeOK
  BY DEF IInv
<1> QED
  BY <1>1, Invariance, PTL

(* A buffer belongs to one sender until its completion is handled, and none*)
(* is lost.                                                                *)
THEOREM BufferOwned == Spec => []OneHolder
<1>1. IInv => OneHolder
  BY DEF IInv
<1> QED
  BY <1>1, Invariance, PTL

(* The scan of message_buffer_array_allocate never passes over a free slot.*)
THEOREM ScanComplete == Spec => []NothingFreeBelow
<1>1. IInv => NothingFreeBelow
  BY DEF IInv
<1> QED
  BY <1>1, Invariance, PTL

(* The process is lost only when every buffer is in use.                   *)
THEOREM FaultNeedsAll == Spec => []FaultsOnlyWhenFull
<1>1. IInv => FaultsOnlyWhenFull
  BY DEF IInv
<1> QED
  BY <1>1, Invariance, PTL

(* The buffers in use are what the abstract pool calls in use.             *)
LEMMA InUseUsed ==
  ASSUME IInv, ~ faulted
  PROVE  Pool!InUse = used
<1>1. Pool!InUse = {buffer[s] : s \in Senders} \ {None}
  BY DEF Pool!InUse, heldId
<1>2. \A x \in used : x # None /\ \E s \in Senders : buffer[s] = x
  <2>1. \A x \in used : x # None
    BY DEF IInv, TypeOK, Slots, None
  <2>2. \A x \in used : \E s \in Senders : s \in Holders(x)
    BY DEF IInv, OneHolder
  <2> QED
    BY <2>1, <2>2 DEF Holders
<1> QED
  BY <1>1, <1>2 DEF IInv, OneHolder

(* BufferArray implements the pool of buffers.                             *)
THEOREM PoolRefinement == Spec => ImplementsPool
<1>1. Init => Pool!Init
  BY DEF Init, Pool!Init, heldId
<1>2. ASSUME IInv, [Next]_vars PROVE [Pool!Next]_heldId
  <2>1. CASE UNCHANGED vars
    BY <2>1 DEF vars, heldId
  <2>2. ASSUME NEW s \in Senders, Allocate(s) PROVE Pool!Acquire(s)
    <3>1. PICK x \in Slots \ used : /\ x >= nextIndex
                                    /\ nextIndex .. x - 1 \subseteq used
                                    /\ Claim(s, x)
      BY <2>2 DEF Allocate
    <3>2. faulted = FALSE /\ faulted' = FALSE /\ buffer[s] = None
      BY <1>2, <2>2 DEF Allocate, Wants, IInv, TypeOK
    <3>3. heldId = [r \in Senders |-> buffer[r]] /\ heldId' = [r \in Senders |-> buffer'[r]]
      BY <3>2 DEF heldId
    <3>4. heldId' = [heldId EXCEPT ![s] = x] /\ heldId[s] = None
      BY <1>2, <3>1, <3>2, <3>3 DEF Claim, IInv, TypeOK
    <3>5. ASSUME NEW lower \in Slots \ used PROVE x <= lower
      <4>1. lower \in Int /\ x \in Int /\ nextIndex \in Int
        BY <1>2 DEF IInv, TypeOK, Slots
      <4>2. lower >= nextIndex /\ lower \notin nextIndex .. x - 1
        BY <1>2, <3>1, <4>1 DEF IInv, NothingFreeBelow
      <4> QED
        BY <4>1, <4>2
    <3> QED
      BY <1>2, <3>1, <3>2, <3>4, <3>5, InUseUsed DEF Pool!Acquire
  <2>3. ASSUME NEW s \in Senders, Extend(s) PROVE Pool!Exhaust(s)
    <3>1. faulted = FALSE /\ faulted' = TRUE /\ buffer[s] = None
      BY <1>2, <2>3 DEF Extend, Wants, IInv, TypeOK
    <3>2. heldId[s] = None /\ heldId' = [r \in Senders |-> Unknown]
      BY <3>1 DEF heldId
    <3>3. Slots \subseteq Pool!InUse
      BY <1>2, <2>3, <3>1, ScannedAll, InUseUsed DEF Extend
    <3> QED
      BY <3>2, <3>3 DEF Pool!Exhaust
  <2>4. ASSUME NEW s \in Senders, SendAsync(s) PROVE UNCHANGED heldId
    BY <2>4 DEF SendAsync, heldId
  <2>5. ASSUME NEW s \in Senders, Completed(s) PROVE Pool!Drop(s)
    <3>1. /\ faulted = FALSE /\ faulted' = FALSE /\ s \in flying
          /\ buffer' = [buffer EXCEPT ![s] = None]
      BY <1>2, <2>5 DEF Completed, IInv, TypeOK
    <3>2. heldId = [r \in Senders |-> buffer[r]] /\ heldId' = [r \in Senders |-> buffer'[r]]
      BY <3>1 DEF heldId
    <3>3. heldId[s] \in Slots
      BY <1>2, <3>1, <3>2 DEF IInv, OneHolder, TypeOK
    <3>4. heldId' = [heldId EXCEPT ![s] = None]
      BY <1>2, <3>1, <3>2 DEF IInv, TypeOK
    <3> QED
      BY <3>3, <3>4 DEF Pool!Drop
  <2> QED
    BY <1>2, <2>1, <2>2, <2>3, <2>4, <2>5 DEF Next, Pool!Next
<1> QED
  BY <1>1, <1>2, Invariance, PTL DEF Spec, ImplementsPool, Pool!Spec

=============================================================================
