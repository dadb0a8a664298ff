------------------------------ MODULE BufferArray ------------------------------
(***************************************************************************)
(* The message buffers of the asynchronous sends of Polymorphic-Win/sock.c,*)
(* and the array of sock_datatypes.c they come from.  The array of the     *)
(* service strings has the same code; nobody gives a service string back.  *)
(*                                                                         *)
(* Unlike the connection array this one cannot grow: its extension gives   *)
(* the array structure itself, a static variable, to realloc().            *)
(*                                                                         *)
(* The array is used under its critical section, so each operation is one  *)
(* action.  A Sender is one user: it takes a buffer, starts a send from    *)
(* it, and the worker that takes the completion gives the buffer back.     *)
(***************************************************************************)
EXTENDS Integers, FiniteSets

CONSTANTS
  Senders,
  InitialSize  \* POLYM_INITIAL_MESSAGE_BUFFER_STORAGE_SIZE

ASSUME BufferAssumption ==
  /\ IsFiniteSet(Senders)
  /\ InitialSize \in Nat \ {0}

VARIABLES
  used,       \* the slots whose buffer has an index >= 0
  count,      \* vector->count
  nextIndex,  \* vector->nextIndex
  faulted,    \* the extension has ended the process
  buffer,     \* sender -> the slot of its buffer, None if it has none
  flying      \* the senders whose send is pending or completed, but whose
              \* completion no worker has taken

array == <<used, count, nextIndex>>
vars == <<used, count, nextIndex, faulted, buffer, flying>>

Slots == 0 .. InitialSize - 1
None == -1
Unknown == -2

-----------------------------------------------------------------------------

(* message_buffer_array_init, service_string_array_init                    *)
Init ==
  /\ used = {}
  /\ count = 0
  /\ nextIndex = 0
  /\ faulted = FALSE
  /\ buffer = [s \in Senders |-> None]
  /\ flying = {}

(* The sender takes slot x: the body of the scan's if.                     *)
Claim(s, x) ==
  /\ used' = used \cup {x}
  /\ count' = count + 1
  /\ nextIndex' = x + 1
  /\ buffer' = [buffer EXCEPT ![s] = x]

Wants(s) == ~ faulted /\ buffer[s] = None

(* Fault: the scan starts at the last slot.                                *)
AllocateBackwards(s) ==
  /\ Wants(s)
  /\ \E x \in Slots \ used :
       /\ x + 1 .. InitialSize - 1 \subseteq used
       /\ used' = used \cup {x}
       /\ count' = count + 1
       /\ buffer' = [buffer EXCEPT ![s] = x]
  /\ UNCHANGED <<nextIndex, faulted, flying>>

(* message_buffer_array_allocate, when the scan from nextIndex finds a     *)
(* slot; allocateServiceString.                                            *)
Allocate(s) ==
  /\ Wants(s)
  /\ \E x \in Slots \ used :
       /\ x >= nextIndex
       /\ nextIndex .. x - 1 \subseteq used
       /\ Claim(s, x)
  /\ UNCHANGED <<faulted, flying>>

(* Fault: the last slot is not scanned.                                    *)
ExtendEarly(s) ==
  /\ Wants(s)
  /\ nextIndex .. InitialSize - 2 \subseteq used
  /\ faulted' = TRUE
  /\ UNCHANGED <<array, buffer, flying>>

(* When it finds none the array is extended: realloc() is given what       *)
(* malloc() never returned, and the heap, or the write to slot             *)
(* oldsize - 1 of the NULL it answers, ends the process.                   *)
Extend(s) ==
  /\ Wants(s)
  /\ nextIndex .. InitialSize - 1 \subseteq used
  /\ faulted' = TRUE
  /\ UNCHANGED <<array, buffer, flying>>

(* Fault: the buffer is given back when the send has been started.         *)
SendAsyncFreeing(s) ==
  /\ ~ faulted /\ buffer[s] # None /\ s \notin flying
  /\ flying' = flying \cup {s}
  /\ used' = used \ {buffer[s]}
  /\ count' = count - 1
  /\ nextIndex' = IF buffer[s] < nextIndex THEN buffer[s] ELSE nextIndex
  /\ UNCHANGED <<faulted, buffer>>

(* sockSendAsync: WSASend accepts the buffer, and a completion will come.  *)
(* If it fails, or the protocol is not TCP, no completion comes and        *)
(* the buffer stays with the sender, who may try again.                    *)
SendAsync(s) ==
  /\ ~ faulted /\ buffer[s] # None /\ s \notin flying
  /\ flying' = flying \cup {s}
  /\ UNCHANGED <<array, faulted, buffer>>

(* Fault: a slot given back is not scanned again.                          *)
FreeAhead(x) ==
  /\ used' = used \ {x}
  /\ count' = count - 1
  /\ nextIndex' = nextIndex

(* Fault: count only grows.                                                *)
FreeUncounted(x) ==
  /\ used' = used \ {x}
  /\ count' = count
  /\ nextIndex' = IF x < nextIndex THEN x ELSE nextIndex

(* message_buffer_array_free                                               *)
Free(x) ==
  /\ used' = used \ {x}
  /\ count' = count - 1
  /\ nextIndex' = IF x < nextIndex THEN x ELSE nextIndex

(* eventListener, POLYM_EVENT_ASYNC_SEND: sent or failed, the buffer named *)
(* by the overlap is given back.                                           *)
Completed(s) ==
  /\ ~ faulted /\ s \in flying
  /\ flying' = flying \ {s}
  /\ Free(buffer[s])
  /\ buffer' = [buffer EXCEPT ![s] = None]
  /\ UNCHANGED faulted

Next == \E s \in Senders : Allocate(s) \/ Extend(s) \/ SendAsync(s) \/ Completed(s)

Spec == Init /\ [][Next]_vars

-----------------------------------------------------------------------------

(* count is the number of slots in use.                                    *)
TypeOK ==
  /\ used \subseteq Slots
  /\ nextIndex \in 0 .. InitialSize
  /\ count = Cardinality(used)
  /\ faulted \in BOOLEAN
  /\ buffer \in [Senders -> Slots \cup {None}]
  /\ flying \subseteq Senders

(* A buffer in use belongs to one sender, from before its send until after *)
(* its completion; and no buffer is lost.                                  *)
Holders(x) == {s \in Senders : buffer[s] = x}

OneHolder ==
  /\ \A x \in used : \E s \in Senders : Holders(x) = {s}
  /\ \A s \in Senders : buffer[s] # None => buffer[s] \in used
  /\ \A s \in flying : buffer[s] # None

(* The scan may start at nextIndex: whatever order the sends complete in,  *)
(* no slot below it is free.                                               *)
NothingFreeBelow == \A x \in Slots : x < nextIndex => x \in used

(* sock_datatypes.c:178 "no open spaces found": the process is only lost   *)
(* to a request beyond the capacity, never to one a free slot could serve. *)
FaultsOnlyWhenFull == faulted => used = Slots

IInv == TypeOK /\ OneHolder /\ NothingFreeBelow /\ FaultsOnlyWhenFull

heldId == [s \in Senders |-> IF faulted THEN Unknown ELSE buffer[s]]

Pool == INSTANCE IdPool WITH
  Owners <- Senders, Ids <- Slots, NoId <- None, Void <- Unknown, idOf <- heldId

(* As long as the capacity lasts the buffers are a pool of which the       *)
(* lowest free one is given out, each to one sender at a time.             *)
ImplementsPool == Pool!Spec

=============================================================================
