------------------------------- MODULE IntArray -------------------------------
(***************************************************************************)
(* The self-filling int_array of vector.c: members, in which INT_MIN marks *)
(* a hole, and a stack of vacancies, the indexes of the holes.  The daemon *)
(* keeps its lists of connected services and peers in such arrays.         *)
(***************************************************************************)
EXTENDS Integers, Sequences, FiniteSets

CONSTANTS
  Values,      \* the integers that are stored
  INT_MIN,     \* the mark of a hole
  Capacities,  \* the capacities an array is initialised with
  VECTOR_INITIAL_CAPACITY,
  MaxSize      \* the largest size reached; in C, that of an int

ASSUME IntArrayAssumption ==
  /\ INT_MIN \notin Values
  /\ Capacities \subseteq Nat
  /\ VECTOR_INITIAL_CAPACITY \in Nat \ {0}
  /\ MaxSize \in Nat

VARIABLES
  data,         \* members.data, up to members.size
  size,         \* members.size
  capacity,     \* members.capacity
  count,        \* members.count
  vacancies,    \* vacancies.data, up to vacancies.size
  vacCapacity,  \* vacancies.capacity
  ret           \* the last call, and what it returned

vars == <<data, size, capacity, count, vacancies, vacCapacity, ret>>
members == <<data, size, capacity, count>>
holes == <<vacancies, vacCapacity>>

Indexes == 0 .. size - 1

(* What a caller may pass as an index: outside the array on both sides.    *)
Arguments == -1 .. MaxSize

-----------------------------------------------------------------------------

(* int_array_init, int_array_init_capacity                                 *)
Init ==
  /\ \E c \in Capacities \cup {VECTOR_INITIAL_CAPACITY} : capacity = c /\ vacCapacity = c
  /\ size = 0
  /\ count = 0
  /\ data = [i \in {} |-> INT_MIN]
  /\ vacancies = <<>>
  /\ ret = [call |-> "init", value |-> 0]

(* Fault: an array without memory is only doubled.                         *)
DoubledAlways(c, n) == IF n >= c THEN 2 * c ELSE c

(* int_array_double_capacity_if_full, and the same for the vacancies: the  *)
(* capacity c before n elements grow by one.                               *)
DoubledIfFull(c, n) ==
  LET allocated == IF c = 0 THEN VECTOR_INITIAL_CAPACITY ELSE c
  IN  IF n >= allocated THEN 2 * allocated ELSE allocated

Returns(op, value) == ret' = [call |-> op, value |-> value]

(* int_array_append and int_array_push refuse INT_MIN.                     *)
Refuse ==
  /\ Returns("add", -1)
  /\ UNCHANGED <<members, holes>>

(* int_array_append                                                        *)
AppendValue(v) ==
  /\ size < MaxSize
  /\ capacity' = DoubledIfFull(capacity, size)
  /\ size' = size + 1
  /\ data' = [i \in 0 .. size |-> IF i = size THEN v ELSE data[i]]
  /\ count' = count + 1
  /\ Returns("add", size)
  /\ UNCHANGED holes

(* Faults: the vacancy is not popped; the member is not counted; the first *)
(* vacancy is filled and the last one popped.                              *)
PushWithoutPop(v) ==
  IF vacancies # <<>>
  THEN LET i == vacancies[Len(vacancies)]
       IN  /\ data' = [data EXCEPT ![i] = v]
           /\ count' = count + 1
           /\ Returns("add", i)
           /\ UNCHANGED <<size, capacity, holes>>
  ELSE AppendValue(v)

PushUncounted(v) ==
  IF vacancies # <<>>
  THEN LET i == vacancies[Len(vacancies)]
       IN  /\ data' = [data EXCEPT ![i] = v]
           /\ vacancies' = SubSeq(vacancies, 1, Len(vacancies) - 1)
           /\ Returns("add", i)
           /\ UNCHANGED <<size, capacity, count, vacCapacity>>
  ELSE AppendValue(v)

PushFirst(v) ==
  IF vacancies # <<>>
  THEN LET i == vacancies[1]
       IN  /\ data' = [data EXCEPT ![i] = v]
           /\ count' = count + 1
           /\ vacancies' = SubSeq(vacancies, 1, Len(vacancies) - 1)
           /\ Returns("add", i)
           /\ UNCHANGED <<size, capacity, vacCapacity>>
  ELSE AppendValue(v)

(* int_array_push: the last vacancy is filled, if there is one.            *)
Push(v) ==
  IF vacancies # <<>>
  THEN LET i == vacancies[Len(vacancies)]
       IN  /\ data' = [data EXCEPT ![i] = v]
           /\ count' = count + 1
           /\ vacancies' = SubSeq(vacancies, 1, Len(vacancies) - 1)
           /\ Returns("add", i)
           /\ UNCHANGED <<size, capacity, vacCapacity>>
  ELSE AppendValue(v)

(* Fault: a hole is deleted again.                                         *)
DeleteAgain(i) ==
  IF i >= size \/ i < 0
  THEN Returns("delete", -1) /\ UNCHANGED <<members, holes>>
  ELSE /\ vacCapacity' = DoubledIfFull(vacCapacity, Len(vacancies))
       /\ vacancies' = Append(vacancies, i)
       /\ data' = [data EXCEPT ![i] = INT_MIN]
       /\ count' = count - 1
       /\ Returns("delete", 0)
       /\ UNCHANGED <<size, capacity>>

(* int_array_delete                                                        *)
Delete(i) ==
  IF i >= size \/ i < 0 \/ data[i] = INT_MIN
  THEN Returns("delete", -1) /\ UNCHANGED <<members, holes>>
  ELSE /\ vacCapacity' = DoubledIfFull(vacCapacity, Len(vacancies))
       /\ vacancies' = Append(vacancies, i)
       /\ data' = [data EXCEPT ![i] = INT_MIN]
       /\ count' = count - 1
       /\ Returns("delete", 0)
       /\ UNCHANGED <<size, capacity>>

(* int_array_find, with the int_array_get of each index.                   *)
Find(v) ==
  LET at == {i \in Indexes : data[i] = v}
  IN  /\ IF at = {}
         THEN Returns("find", -1)
         ELSE \E i \in at : Returns("find", i) /\ \A j \in at : i <= j
      /\ UNCHANGED <<members, holes>>

(* int_array_set: -1, for INT_MIN and for a hole, is `true` in a bool; an  *)
(* index is looked up before it is compared with the bounds, so out of     *)
(* them either answer is possible.                                         *)
Set(i, v) ==
  IF i \in Indexes /\ v # INT_MIN /\ data[i] # INT_MIN
  THEN /\ data' = [data EXCEPT ![i] = v]
       /\ Returns("set", 1)
       /\ UNCHANGED <<size, capacity, count, holes>>
  ELSE /\ \/ Returns("set", 1)
          \/ v # INT_MIN /\ i \notin Indexes /\ Returns("set", 0)
       /\ UNCHANGED <<members, holes>>

(* int_array_trim: an empty array keeps no memory.                         *)
Trim ==
  /\ capacity' = size
  /\ vacCapacity' = Len(vacancies)
  /\ UNCHANGED <<data, size, count, vacancies, ret>>

Next ==
  \/ \E v \in Values : AppendValue(v) \/ Push(v)
  \/ Refuse
  \/ \E i \in Arguments : Delete(i)
  \/ \E v \in Values \cup {INT_MIN} : Find(v)
  \/ \E i \in Arguments, v \in Values \cup {INT_MIN} : Set(i, v)
  \/ Trim

Spec == Init /\ [][Next]_vars

-----------------------------------------------------------------------------

TypeOK ==
  /\ size \in 0 .. MaxSize
  /\ capacity \in Nat
  /\ count \in Nat
  /\ data \in [Indexes -> Values \cup {INT_MIN}]
  /\ vacancies \in Seq(Indexes)
  /\ vacCapacity \in Nat
  /\ ret \in [call : {"init", "add", "delete", "find", "set"}, value : Int]

(* Every write of the array stays inside the memory it has: no sequence of *)
(* growing, deleting and trimming leaves more elements than capacity.      *)
InCapacity == size <= capacity /\ Len(vacancies) <= vacCapacity

(* The stack of vacancies lists exactly the holes, each of them once: a    *)
(* push never overwrites a member, and no hole is lost.                    *)
VacanciesAreHoles ==
  /\ \A k \in 1 .. Len(vacancies) : data[vacancies[k]] = INT_MIN
  /\ \A i \in Indexes : data[i] = INT_MIN => \E k \in 1 .. Len(vacancies) : vacancies[k] = i
  /\ \A k, l \in 1 .. Len(vacancies) : vacancies[k] = vacancies[l] => k = l

(* vector.h: count is "the number of slots used".                          *)
Used == {i \in Indexes : data[i] # INT_MIN}
CountIsUsed == count = Cardinality(Used)

(* The array as its callers see it: the indexes in use and their values.   *)
contents == [i \in Used |-> data[i]]

Map == INSTANCE SlotMap WITH None <- INT_MIN

(* The array keeps what it was given at the index it returned.             *)
ImplementsMap == Map!Spec

=============================================================================
