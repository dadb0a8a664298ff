---------------------------- MODULE IntArrayProofs ----------------------------
(* The invariants of IntArray and that it implements SlotMap, for every    *)
(* set of values, every capacity and every size.                           *)
EXTENDS IntArray, FiniteSetTheorems, SequenceTheorems, TLAPS

IInv == TypeOK /\ InCapacity /\ VacanciesAreHoles /\ CountIsUsed

(* Growing by one fits into the doubled capacity.                          *)
LEMMA DoubledFits ==
  ASSUME NEW c \in Nat, NEW n \in Nat, n <= c
  PROVE  DoubledIfFull(c, n) \in Nat /\ n + 1 <= DoubledIfFull(c, n)
BY IntArrayAssumption DEF DoubledIfFull

(* The indexes in use are finitely many.                                   *)
LEMMA UsedFinite ==
  ASSUME TypeOK
  PROVE  IsFiniteSet(Used) /\ Cardinality(Used) \in Nat
<1>1. IsFiniteSet(Indexes)
  BY FS_Interval DEF Indexes, TypeOK
<1>2. Used \in SUBSET Indexes
  BY DEF Used
<1> QED
  BY <1>1, <1>2, FS_Subset, FS_CardinalityType

LEMMA InitIInv == Init => IInv
<1> SUFFICES ASSUME Init PROVE IInv
  OBVIOUS
<1>1. Indexes = {} /\ vacancies = <<>> /\ Len(vacancies) = 0
  BY DEF Init, Indexes
<1>2. capacity \in Nat /\ vacCapacity \in Nat
  BY IntArrayAssumption DEF Init
<1>3. TypeOK
  <2>1. ret \in [call : {"init", "add", "delete", "find", "set"}, value : Int]
    BY DEF Init
  <2>2. data \in [Indexes -> Values \cup {INT_MIN}]
    BY <1>1 DEF Init
  <2>3. vacancies \in Seq(Indexes)
    BY <1>1
  <2> QED
    BY <1>2, <2>1, <2>2, <2>3, IntArrayAssumption DEF TypeOK, Init
<1>4. InCapacity
  BY <1>1, <1>2 DEF InCapacity, Init
<1>5. VacanciesAreHoles
  BY <1>1 DEF VacanciesAreHoles
<1>6. CountIsUsed
  BY <1>1, FS_EmptySet DEF CountIsUsed, Used, Init
<1> QED
  BY <1>3, <1>4, <1>5, <1>6 DEF IInv

(* Putting a value at the end.                                             *)
LEMMA AppendIInv ==
  ASSUME IInv, NEW v \in Values, AppendValue(v)
  PROVE  IInv'
<1> USE DEF IInv
<1>1. /\ size < MaxSize /\ size' = size + 1 /\ count' = count + 1
      /\ capacity' = DoubledIfFull(capacity, size)
      /\ data' = [i \in 0 .. size |-> IF i = size THEN v ELSE data[i]]
      /\ vacancies' = vacancies /\ vacCapacity' = vacCapacity
      /\ ret' = [call |-> "add", value |-> size]
  BY DEF AppendValue, holes, Returns
<1>2. /\ Indexes' = Indexes \cup {size} /\ size \notin Indexes
      /\ Indexes' = 0 .. size
      /\ size \in Nat
  BY <1>1 DEF Indexes, TypeOK
<1>3. capacity' \in Nat /\ size' <= capacity'
  BY <1>1, DoubledFits DEF TypeOK, InCapacity
<1>4. TypeOK'
  <2>1. data' \in [Indexes' -> Values \cup {INT_MIN}]
    BY <1>1, <1>2 DEF TypeOK
  <2>2. vacancies' \in Seq(Indexes')
    BY <1>1, <1>2 DEF TypeOK
  <2>3. size' \in 0 .. MaxSize
    BY <1>1, IntArrayAssumption DEF TypeOK
  <2> QED
    BY <1>1, <1>2, <1>3, <2>1, <2>2, <2>3 DEF TypeOK
<1>5. InCapacity'
  BY <1>1, <1>3 DEF InCapacity
<1>6. /\ data'[size] = v /\ v # INT_MIN
      /\ \A i \in Indexes : data'[i] = data[i] /\ i \in Indexes'
  BY <1>1, <1>2, IntArrayAssumption DEF Indexes, TypeOK
<1>7. VacanciesAreHoles'
  <2>1. \A k \in 1 .. Len(vacancies) : vacancies[k] \in Indexes
    BY DEF TypeOK
  <2> QED
    BY <1>1, <1>2, <1>6, <2>1 DEF VacanciesAreHoles
<1>8. CountIsUsed'
  <2>1. Used' = Used \cup {size} /\ size \notin Used
    BY <1>2, <1>6 DEF Used
  <2>2. Cardinality(Used') = Cardinality(Used) + 1
    BY <2>1, UsedFinite, FS_AddElement
  <2> QED
    BY <1>1, <2>2 DEF CountIsUsed
<1> QED
  BY <1>4, <1>5, <1>7, <1>8

(* Filling the last vacancy.                                               *)
LEMMA FillIInv ==
  ASSUME IInv, NEW v \in Values, Push(v), vacancies # <<>>
  PROVE  /\ IInv'
         /\ LET i == vacancies[Len(vacancies)]
            IN  /\ i \in Indexes /\ data[i] = INT_MIN
                /\ Indexes' = Indexes
                /\ data' = [data EXCEPT ![i] = v]
                /\ ret' = [call |-> "add", value |-> i]
<1> USE DEF IInv
<1> DEFINE n == Len(vacancies)
           i == vacancies[n]
<1>1. /\ data' = [data EXCEPT ![i] = v]
      /\ count' = count + 1
      /\ vacancies' = SubSeq(vacancies, 1, n - 1)
      /\ ret' = [call |-> "add", value |-> i]
      /\ size' = size /\ capacity' = capacity /\ vacCapacity' = vacCapacity
      /\ Indexes' = Indexes
  BY DEF Push, Returns, Indexes
<1>2. /\ n \in Nat \ {0}
      /\ vacancies' \in Seq(Indexes)
      /\ Len(vacancies') = n - 1
      /\ \A k \in 1 .. n - 1 : vacancies'[k] = vacancies[k]
  <2>1. vacancies \in Seq(Indexes) /\ n \in Nat \ {0}
    BY EmptySeq DEF TypeOK
  <2>2. \A k \in 1 .. n - 1 : vacancies[k] \in Indexes
    BY <2>1, ElementOfSeq
  <2>3. /\ vacancies' \in Seq(Indexes)
        /\ Len(vacancies') = IF 1 <= n - 1 THEN (n - 1) - 1 + 1 ELSE 0
        /\ \A k \in 1 .. (n - 1) - 1 + 1 : vacancies'[k] = vacancies[1 + k - 1]
    BY <1>1, <2>1, <2>2, SubSeqProperties
  <2>4. \A k \in 1 .. n - 1 : k \in 1 .. (n - 1) - 1 + 1 /\ 1 + k - 1 = k
    BY <2>1
  <2>5. Len(vacancies') = n - 1
    <3> HIDE DEF n
    <3>1. CASE n = 1
      BY <2>3, <3>1
    <3>2. CASE n > 1
      <4>1. Len(vacancies') = (n - 1) - 1 + 1
        BY <2>1, <2>3, <3>2
      <4> QED
        BY <2>1, <4>1
    <3> QED
      BY <2>1, <3>1, <3>2
  <2> QED
    BY <2>1, <2>3, <2>4, <2>5
<1>3. i \in Indexes /\ data[i] = INT_MIN
  BY <1>2 DEF TypeOK, VacanciesAreHoles
<1>4. TypeOK'
  BY <1>1, <1>2, <1>3 DEF TypeOK, Indexes
<1>5. InCapacity'
  BY <1>1, <1>2 DEF InCapacity, TypeOK
<1>6. /\ data'[i] = v /\ v # INT_MIN
      /\ \A j \in Indexes : j # i => data'[j] = data[j]
  BY <1>1, <1>3, IntArrayAssumption DEF TypeOK
<1>7. VacanciesAreHoles'
  <2>1. \A k \in 1 .. n - 1 : vacancies[k] # i /\ vacancies[k] \in Indexes
    BY <1>2 DEF VacanciesAreHoles, TypeOK
  <2>2. \A k \in 1 .. Len(vacancies') : data'[vacancies'[k]] = INT_MIN
    BY <1>2, <1>6, <2>1 DEF VacanciesAreHoles
  <2>3. \A j \in Indexes : data'[j] = INT_MIN =>
          \E k \in 1 .. Len(vacancies') : vacancies'[k] = j
    <3> SUFFICES ASSUME NEW j \in Indexes, data'[j] = INT_MIN
                 PROVE  \E k \in 1 .. n - 1 : vacancies'[k] = j
      BY <1>2
    <3>1. j # i /\ data[j] = INT_MIN
      BY <1>6
    <3>2. PICK k \in 1 .. n : vacancies[k] = j
      BY <3>1 DEF VacanciesAreHoles
    <3>3. k \in 1 .. n - 1
      BY <1>2, <3>1, <3>2
    <3> QED
      BY <1>2, <3>2, <3>3
  <2>4. \A k, l \in 1 .. Len(vacancies') : vacancies'[k] = vacancies'[l] => k = l
    BY <1>2 DEF VacanciesAreHoles
  <2> QED
    BY <1>1, <2>2, <2>3, <2>4 DEF VacanciesAreHoles
<1>8. CountIsUsed'
  <2>1. Used' = Used \cup {i} /\ i \notin Used
    BY <1>1, <1>3, <1>6 DEF Used
  <2>2. Cardinality(Used') = Cardinality(Used) + 1
    BY <2>1, UsedFinite, FS_AddElement
  <2> QED
    BY <1>1, <2>2 DEF CountIsUsed
<1> QED
  BY <1>1, <1>3, <1>4, <1>5, <1>7, <1>8

LEMMA DeleteIInv ==
  ASSUME IInv, NEW i \in Indexes, data[i] # INT_MIN, Delete(i)
  PROVE  /\ IInv'
         /\ Indexes' = Indexes
         /\ data' = [data EXCEPT ![i] = INT_MIN]
         /\ ret' = [call |-> "delete", value |-> 0]
<1> USE DEF IInv
<1> DEFINE n == Len(vacancies)
<1>1. /\ data' = [data EXCEPT ![i] = INT_MIN]
      /\ count' = count - 1
      /\ vacancies' = Append(vacancies, i)
      /\ vacCapacity' = DoubledIfFull(vacCapacity, n)
      /\ ret' = [call |-> "delete", value |-> 0]
      /\ size' = size /\ capacity' = capacity
      /\ Indexes' = Indexes
  BY DEF Delete, Returns, Indexes, TypeOK
<1>2. /\ n \in Nat
      /\ vacancies' \in Seq(Indexes)
      /\ Len(vacancies') = n + 1
      /\ \A k \in 1 .. n : vacancies'[k] = vacancies[k]
      /\ vacancies'[n + 1] = i
  BY <1>1, AppendProperties DEF TypeOK
<1>3. vacCapacity' \in Nat /\ n + 1 <= vacCapacity'
  BY <1>1, <1>2, DoubledFits DEF TypeOK, InCapacity
<1>4. /\ data'[i] = INT_MIN
      /\ \A j \in Indexes : j # i => data'[j] = data[j]
  BY <1>1 DEF TypeOK
<1>5. Used' = Used \ {i} /\ i \in Used
  BY <1>1, <1>4 DEF Used
<1>6. CountIsUsed' /\ count' \in Nat
  <2>1. Cardinality(Used') = Cardinality(Used) - 1
    BY <1>5, UsedFinite, FS_RemoveElement
  <2>2. Cardinality(Used') \in Nat
    BY <1>5, UsedFinite, FS_RemoveElement, FS_CardinalityType
  <2> QED
    BY <1>1, <2>1, <2>2 DEF CountIsUsed
<1>7. TypeOK'
  BY <1>1, <1>2, <1>3, <1>6 DEF TypeOK
<1>8. InCapacity'
  BY <1>1, <1>2, <1>3 DEF InCapacity
<1>9. VacanciesAreHoles'
  <2>1. \A k \in 1 .. n : vacancies[k] \in Indexes /\ vacancies[k] # i
    BY <1>2 DEF VacanciesAreHoles, TypeOK
  <2>2. \A k \in 1 .. Len(vacancies') : k \in 1 .. n \/ k = n + 1
    BY <1>2
  <2>3. \A k \in 1 .. Len(vacancies') : data'[vacancies'[k]] = INT_MIN
    BY <1>2, <1>4, <2>1, <2>2 DEF VacanciesAreHoles
  <2>4. \A j \in Indexes : data'[j] = INT_MIN =>
          \E k \in 1 .. Len(vacancies') : vacancies'[k] = j
    <3> SUFFICES ASSUME NEW j \in Indexes, data'[j] = INT_MIN
                 PROVE  \E k \in 1 .. n + 1 : vacancies'[k] = j
      BY <1>2
    <3>1. CASE j = i
      BY <1>2, <3>1
    <3>2. CASE j # i
      <4>1. PICK k \in 1 .. n : vacancies[k] = j
        BY <1>4, <3>2 DEF VacanciesAreHoles
      <4> QED
        BY <1>2, <4>1
    <3> QED
      BY <3>1, <3>2
  <2>5. \A k, l \in 1 .. Len(vacancies') : vacancies'[k] = vacancies'[l] => k = l
    BY <1>2, <2>1, <2>2 DEF VacanciesAreHoles
  <2> QED
    BY <1>1, <2>3, <2>4, <2>5 DEF VacanciesAreHoles
<1> QED
  BY <1>1, <1>6, <1>7, <1>8, <1>9

LEMMA SetIInv ==
  ASSUME IInv, NEW i \in Indexes, NEW v \in Values, data[i] # INT_MIN, Set(i, v)
  PROVE  /\ IInv'
         /\ Indexes' = Indexes
         /\ data' = [data EXCEPT ![i] = v]
         /\ ret' = [call |-> "set", value |-> 1]
<1> USE DEF IInv
<1>1. /\ data' = [data EXCEPT ![i] = v]
      /\ ret' = [call |-> "set", value |-> 1]
      /\ UNCHANGED <<size, capacity, count, vacancies, vacCapacity>>
      /\ Indexes' = Indexes
  BY IntArrayAssumption DEF Set, Returns, holes, Indexes
<1>2. /\ data'[i] = v /\ v # INT_MIN
      /\ \A j \in Indexes : j # i => data'[j] = data[j]
  BY <1>1, IntArrayAssumption DEF TypeOK
<1>3. Used' = Used
  BY <1>1, <1>2 DEF Used
<1>4. TypeOK' /\ InCapacity' /\ CountIsUsed'
  BY <1>1, <1>3 DEF TypeOK, InCapacity, CountIsUsed
<1>5. VacanciesAreHoles'
  <2>1. \A k \in 1 .. Len(vacancies) : vacancies[k] \in Indexes /\ vacancies[k] # i
    BY DEF VacanciesAreHoles, TypeOK
  <2> QED
    BY <1>1, <1>2, <2>1 DEF VacanciesAreHoles
<1> QED
  BY <1>1, <1>4, <1>5

(* A call that leaves the array alone preserves everything.                *)
LEMMA SameIInv ==
  ASSUME IInv, UNCHANGED <<data, size, count, vacancies>>,
         ret' \in [call : {"init", "add", "delete", "find", "set"}, value : Int],
         capacity' \in Nat, size <= capacity',
         vacCapacity' \in Nat, Len(vacancies) <= vacCapacity'
  PROVE  IInv' /\ UNCHANGED contents
BY DEF IInv, TypeOK, InCapacity, VacanciesAreHoles, CountIsUsed, Used, Indexes, contents

(* What one step does: it keeps the invariant, and on the contents it is a *)
(* step of the map or none.                                                *)
LEMMA StepRefines ==
  ASSUME IInv, [Next]_vars
  PROVE  IInv' /\ [Map!Next]_(Map!vars)
<1> USE DEF IInv
<1> DEFINE Added(i, v) == /\ IInv'
                          /\ i \in Nat \ Used
                          /\ Used' = Used \cup {i}
                          /\ \A j \in Used : data'[j] = data[j]
                          /\ data'[i] = v
                          /\ ret' = [call |-> "add", value |-> i]
<1>1. ASSUME NEW v \in Values, NEW i, Added(i, v)
      PROVE  IInv' /\ Map!Add(v)
  <2>1. contents' = [j \in DOMAIN contents \cup {i} |-> IF j = i THEN v ELSE contents[j]]
    BY <1>1 DEF contents
  <2> QED
    BY <1>1, <2>1 DEF Map!Add, Map!Returns, contents
<1>2. ASSUME NEW v \in Values, AppendValue(v)
      PROVE  Added(size, v)
  <2>1. IInv'
    BY <1>2, AppendIInv
  <2>2. /\ size \in Nat /\ size \notin Indexes
        /\ Indexes' = Indexes \cup {size} /\ Indexes' = 0 .. size
        /\ data' = [i \in 0 .. size |-> IF i = size THEN v ELSE data[i]]
        /\ ret' = [call |-> "add", value |-> size]
    BY <1>2 DEF AppendValue, Returns, Indexes, TypeOK
  <2>3. data'[size] = v /\ \A j \in Indexes : data'[j] = data[j]
    BY <2>2 DEF Indexes
  <2> QED
    BY <2>1, <2>2, <2>3, IntArrayAssumption DEF Used
<1>3. ASSUME NEW v \in Values, Push(v), vacancies # <<>>
      PROVE  Added(vacancies[Len(vacancies)], v)
  <2> DEFINE i == vacancies[Len(vacancies)]
  <2>1. /\ IInv' /\ i \in Indexes /\ data[i] = INT_MIN /\ Indexes' = Indexes
        /\ data' = [data EXCEPT ![i] = v]
        /\ ret' = [call |-> "add", value |-> i]
    BY <1>3, FillIInv
  <2> HIDE DEF i
  <2>2. data'[i] = v /\ \A j \in Indexes : j # i => data'[j] = data[j]
    BY <2>1 DEF TypeOK
  <2>3. Used' = Used \cup {i} /\ i \in Nat \ Used
    <3>1. i \in Nat /\ i \notin Used /\ v # INT_MIN
      BY <2>1, IntArrayAssumption DEF Used, Indexes, TypeOK
    <3>2. Used' = {j \in Indexes : data'[j] # INT_MIN}
      BY <2>1 DEF Used
    <3> QED
      BY <2>1, <2>2, <3>1, <3>2 DEF Used
  <2>4. \A j \in Used : data'[j] = data[j]
    BY <2>1, <2>2 DEF Used
  <2>5. Added(i, v)
    BY <2>1, <2>2, <2>3, <2>4
  <2> QED
    BY <2>5 DEF i
<1>4. ASSUME NEW v \in Values, Push(v)
      PROVE  IInv' /\ Map!Add(v)
  <2>1. CASE vacancies # <<>>
    BY <1>1, <1>3, <1>4, <2>1
  <2>2. CASE vacancies = <<>>
    <3>1. AppendValue(v)
      BY <1>4, <2>2 DEF Push
    <3> QED
      BY <1>1, <1>2, <3>1
  <2> QED
    BY <2>1, <2>2
<1>5. ASSUME NEW i \in Arguments, Delete(i)
      PROVE  IInv' /\ [Map!Next]_(Map!vars)
  <2>1. CASE i \in Indexes /\ data[i] # INT_MIN
    <3>1. /\ IInv' /\ Indexes' = Indexes
          /\ data' = [data EXCEPT ![i] = INT_MIN]
          /\ ret' = [call |-> "delete", value |-> 0]
      BY <1>5, <2>1, DeleteIInv
    <3>2. Used' = Used \ {i} /\ i \in Used /\ \A j \in Used \ {i} : data'[j] = data[j]
      BY <2>1, <3>1 DEF Used, TypeOK
    <3>3. contents' = [j \in DOMAIN contents \ {i} |-> contents[j]]
      BY <3>2 DEF contents
    <3>4. Map!Delete(i) /\ i \in DOMAIN contents
      BY <3>1, <3>2, <3>3 DEF Map!Delete, Map!Returns, contents
    <3> QED
      BY <3>1, <3>4 DEF Map!Next
  <2>2. CASE ~ (i \in Indexes /\ data[i] # INT_MIN)
    <3>1. UNCHANGED <<members, holes>> /\ ret' = [call |-> "delete", value |-> -1]
      BY <1>5, <2>2 DEF Delete, Returns, Indexes, Arguments, TypeOK
    <3>2. IInv' /\ UNCHANGED contents
      BY <3>1, SameIInv DEF members, holes, TypeOK, InCapacity
    <3> QED
      BY <3>1, <3>2 DEF Map!Next, Map!Refuse, Map!Returns
  <2> QED
    BY <2>1, <2>2
<1>6. ASSUME NEW v \in Values \cup {INT_MIN}, Find(v)
      PROVE  IInv' /\ [Map!Next]_(Map!vars)
  <2> DEFINE at == {i \in Indexes : data[i] = v}
  <2>1. /\ UNCHANGED <<members, holes>>
        /\ \/ at = {} /\ ret' = [call |-> "find", value |-> -1]
           \/ \E i \in at : /\ ret' = [call |-> "find", value |-> i]
                            /\ \A j \in at : i <= j
    BY <1>6 DEF Find, Returns
  <2>2. at \subseteq Int
    BY DEF Indexes, TypeOK
  <2>3. ret' \in [call : {"init", "add", "delete", "find", "set"}, value : Int]
    BY <2>1, <2>2
  <2>4. IInv' /\ UNCHANGED contents
    BY <2>1, <2>3, SameIInv DEF members, holes, TypeOK, InCapacity
  <2>5. CASE v \in Values
    <3>1. \A i : i \in at <=> i \in DOMAIN contents /\ contents[i] = v
      BY <2>5, IntArrayAssumption DEF contents, Used
    <3>2. Map!Find(v)
      BY <2>1, <2>4, <3>1 DEF Map!Find, Map!Returns
    <3> QED
      BY <2>4, <2>5, <3>2 DEF Map!Next
  <2>6. CASE v = INT_MIN
    <3>1. at \cap DOMAIN contents = {} /\ -1 \notin DOMAIN contents
      BY <2>6 DEF contents, Used, Indexes, TypeOK
    <3>2. Map!FindNone
      BY <2>1, <2>4, <3>1 DEF Map!FindNone, Map!Returns
    <3> QED
      BY <2>4, <3>2 DEF Map!Next
  <2> QED
    BY <2>5, <2>6
<1>7. ASSUME NEW i \in Arguments, NEW v \in Values \cup {INT_MIN}, Set(i, v)
      PROVE  IInv' /\ [Map!Next]_(Map!vars)
  <2>1. CASE i \in Indexes /\ v # INT_MIN /\ data[i] # INT_MIN
    <3>1. /\ IInv' /\ Indexes' = Indexes
          /\ data' = [data EXCEPT ![i] = v]
          /\ ret' = [call |-> "set", value |-> 1]
      BY <1>7, <2>1, SetIInv
    <3>2. /\ Used' = Used /\ i \in Used
          /\ \A j \in Used : data'[j] = IF j = i THEN v ELSE data[j]
      BY <2>1, <3>1 DEF Used, TypeOK
    <3>3. contents' = [contents EXCEPT ![i] = v]
      BY <3>2 DEF contents
    <3>4. Map!Set(i, v) /\ i \in DOMAIN contents /\ v \in Values
      BY <2>1, <3>1, <3>2, <3>3 DEF Map!Set, Map!Returns, contents
    <3> QED
      BY <3>1, <3>4 DEF Map!Next
  <2>2. CASE ~ (i \in Indexes /\ v # INT_MIN /\ data[i] # INT_MIN)
    <3>1. /\ UNCHANGED <<members, holes>>
          /\ \/ ret' = [call |-> "set", value |-> 0]
             \/ ret' = [call |-> "set", value |-> 1]
      BY <1>7, <2>2 DEF Set, Returns
    <3>2. IInv' /\ UNCHANGED contents
      BY <3>1, SameIInv DEF members, holes, TypeOK, InCapacity
    <3> QED
      BY <3>1, <3>2 DEF Map!Next, Map!Refuse, Map!Returns
  <2> QED
    BY <2>1, <2>2
<1>8. ASSUME Refuse
      PROVE  IInv' /\ [Map!Next]_(Map!vars)
  <2>1. UNCHANGED <<members, holes>> /\ ret' = [call |-> "add", value |-> -1]
    BY <1>8 DEF Refuse, Returns
  <2>2. IInv' /\ UNCHANGED contents
    BY <2>1, SameIInv DEF members, holes, TypeOK, InCapacity
  <2> QED
    BY <2>1, <2>2 DEF Map!Next, Map!Refuse, Map!Returns
<1>9. ASSUME Trim
      PROVE  IInv' /\ UNCHANGED Map!vars
  <2>1. Len(vacancies) \in Nat
    BY LenProperties DEF TypeOK
  <2>2. IInv' /\ UNCHANGED contents
    BY <1>9, <2>1, SameIInv DEF Trim, TypeOK
  <2> QED
    BY <1>9, <2>2 DEF Trim, Map!vars
<1>10. CASE UNCHANGED vars
  <2>1. IInv' /\ UNCHANGED contents
    BY <1>10, SameIInv DEF vars, TypeOK, InCapacity
  <2> QED
    BY <1>10, <2>1 DEF vars, Map!vars
<1> QED
  BY <1>1, <1>2, <1>4, <1>5, <1>6, <1>7, <1>8, <1>9, <1>10 DEF Next, Map!Next

(* The invariant holds of the array under any sequence of the calls of     *)
(* vector.c.                                                               *)
THEOREM Invariance == Spec => []IInv
<1>1. IInv /\ [Next]_vars => IInv'
  BY StepRefines
<1> QED
  BY InitIInv, <1>1, PTL DEF Spec

(* The fields keep their types, the vacancies are indexes of the array.    *)
THEOREM TypeCorrect == Spec => []TypeOK
BY Invariance, PTL DEF IInv

(* No call sequence writes beyond the memory of members or vacancies.      *)
THEOREM WritesInCapacity == Spec => []InCapacity
BY Invariance, PTL DEF IInv

(* The stack of vacancies is exactly the set of holes, without repetition. *)
THEOREM HolesAreListed == Spec => []VacanciesAreHoles
BY Invariance, PTL DEF IInv

(* members.count is the number of slots used.                              *)
THEOREM CountCorrect == Spec => []CountIsUsed
BY Invariance, PTL DEF IInv

(* The array implements the map from returned indexes to values.           *)
THEOREM MapRefinement == Spec => ImplementsMap
<1>1. Init => Map!Init
  BY DEF Init, Map!Init, contents, Used, Indexes
<1>2. IInv /\ [Next]_vars => [Map!Next]_(Map!vars)
  BY StepRefines
<1> QED
  BY Invariance, <1>1, <1>2, PTL DEF Spec, ImplementsMap, Map!Spec
=============================================================================
