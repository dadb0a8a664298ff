------------------------------- MODULE SockSend -------------------------------
(***************************************************************************)
(* sockSend and tcpSend of Polymorphic-Win/sock.c: workers forward messages*)
(* to each other's connections, each under the mutex of the connection, in *)
(* as many calls of send() as it takes.  What the remote end hears is the  *)
(* stream of bytes.  A message is reduced to its header, the code and the  *)
(* identifier that processCommand reads first.                             *)
(*                                                                         *)
(* Nobody gives a connection the memory of its mutex: the pointer is what  *)
(* malloc() left there, and initializeNewTCPConnection makes a section of  *)
(* the place it points to.  Two connections may get the same place.        *)
(***************************************************************************)
EXTENDS Codec, FiniteSets

CONSTANTS
  Workers,
  Connections,    \* numbered in the order in which they are accepted
  Nobody, Lost,   \* owners of a section that is free, or of one that is broken
  NoJob,          \* a worker that sends nothing
  Places,         \* where the pointer to a mutex may point
  Messages,       \* the headers of the messages forwarded, in that order
  MaxAttempts     \* the 10 of tcpSend

Header == [code : Short, id : Short]

ASSUME SendAssumption ==
  /\ Connections \subseteq Nat
  /\ Nobody \notin Workers /\ Lost \notin Workers /\ Nobody # Lost
  /\ NoJob \notin [connection : Connections, header : Header]
  /\ Messages \in Seq(Header)
  /\ MaxAttempts \in Nat \ {0}

VARIABLES
  opened,    \* the connections that have been initialised
  section,   \* connection -> where its connectionMutex points
  owner,     \* place -> the worker inside the section there, Nobody or Lost
  pc,        \* worker -> where it is in sockSend
  job,       \* worker -> the connection and the header it sends
  index,     \* worker -> tcpSend's index; -1 is the uint32_t 2^32 - 1
  attempts,  \* worker -> tcpSend's attempts
  taken,     \* the number of messages workers have begun to forward
  wire,      \* connection -> the bytes sent
  dead,      \* connections on which send() fails from now on
  said,      \* connection -> the headers whose sending has begun (history)
  spoilt     \* connections on which a message was cut short, or send()
             \* failed and then worked again (history)

mutexes == <<opened, section, owner>>
loops == <<index, attempts>>
vars == <<opened, section, owner, pc, job, index, attempts, taken, wire, dead, said, spoilt>>

(* definitions.h: POLY_COMMAND_HEADER_SIZE                                 *)
Size == 4
HeaderBytes(h) == insertShortIntoBuffer(h.code) \o insertShortIntoBuffer(h.id)

ByteOf(h, k) == LET bytes == HeaderBytes(h) IN bytes[k + 1]

Jobs == [connection : Connections, header : Header]

-----------------------------------------------------------------------------

Init ==
  /\ opened = {}
  /\ section \in [Connections -> Places]
  /\ owner = [p \in Places |-> Nobody]
  /\ pc = [w \in Workers |-> "idle"]
  /\ job = [w \in Workers |-> NoJob]
  /\ index = [w \in Workers |-> 0]
  /\ attempts = [w \in Workers |-> 0]
  /\ taken = 0
  /\ wire = [c \in Connections |-> <<>>]
  /\ dead = {}
  /\ said = [c \in Connections |-> <<>>]
  /\ spoilt = {}

(* initializeNewTCPConnection: InitializeCriticalSection, whoever is in it.*)
Open(c) ==
  /\ c \notin opened
  /\ \A d \in Connections : d < c => d \in opened
  /\ opened' = opened \cup {c}
  /\ owner' = [owner EXCEPT ![section[c]] = Nobody]
  /\ UNCHANGED <<section, pc, job, loops, taken, wire, dead, said, spoilt>>

(* sendMessageIn and its like: a worker has found the connection to send to*)
Begin(w) ==
  /\ pc[w] = "idle" /\ taken < Len(Messages)
  /\ \E c \in opened :
       job' = [job EXCEPT ![w] = [connection |-> c, header |-> Messages[taken + 1]]]
  /\ taken' = taken + 1
  /\ pc' = [pc EXCEPT ![w] = "enter"]
  /\ UNCHANGED <<mutexes, loops, wire, dead, said, spoilt>>

Target(w) == job[w].connection
Mutex(w) == section[Target(w)]

(* tcpSend is called.                                                      *)
StartLoop(w) ==
  /\ index' = [index EXCEPT ![w] = 0]
  /\ attempts' = [attempts EXCEPT ![w] = 0]
  /\ said' = [said EXCEPT ![Target(w)] = Append(@, job[w].header)]
  /\ pc' = [pc EXCEPT ![w] = "sending"]
  /\ UNCHANGED <<opened, section, job, taken, wire, dead, spoilt>>

(* Fault: the mutex is not entered.                                        *)
EnterUnlocked(w) ==
  /\ pc[w] = "enter"
  /\ owner' = [owner EXCEPT ![Mutex(w)] = w]
  /\ StartLoop(w)

(* lockConnectionMutex                                                     *)
Enter(w) ==
  /\ pc[w] = "enter"
  /\ owner[Mutex(w)] = Nobody
  /\ owner' = [owner EXCEPT ![Mutex(w)] = w]
  /\ StartLoop(w)

(* Fault: the loop is left one byte too late.                              *)
ContinuesPast(i, n) == 0 <= i /\ i <= Size /\ n < MaxAttempts

(* The while condition of tcpSend, on an unsigned index.                   *)
Continues(i, n) == 0 <= i /\ i < Size /\ n < MaxAttempts

(* Fault: the attempts are not counted.                                    *)
AdvanceUncounted(w, i) ==
  /\ index' = [index EXCEPT ![w] = i]
  /\ attempts' = [attempts EXCEPT ![w] = @ + 1]
  /\ pc' = [pc EXCEPT ![w] = IF Continues(i, 0) THEN "sending" ELSE "leave"]

Advance(w, i) ==
  /\ index' = [index EXCEPT ![w] = i]
  /\ attempts' = [attempts EXCEPT ![w] = @ + 1]
  /\ pc' = [pc EXCEPT ![w] = IF Continues(i, attempts[w] + 1) THEN "sending" ELSE "leave"]

(* Fault: send() is given the buffer and not &buffer[index].               *)
TransmitRestarting(w) ==
  /\ pc[w] = "sending" /\ Target(w) \notin dead
  /\ \E n \in 1 .. Size - index[w] :
       /\ wire' = [wire EXCEPT ![Target(w)] =
                     @ \o SubSeq(HeaderBytes(job[w].header), 1, n)]
       /\ Advance(w, index[w] + n)
  /\ UNCHANGED <<mutexes, job, taken, dead, said, spoilt>>

(* send() takes some of the bytes that are left; it may also never return. *)
Transmit(w) ==
  /\ pc[w] = "sending" /\ Target(w) \notin dead
  /\ \E n \in 1 .. Size - index[w] :
       /\ wire' = [wire EXCEPT ![Target(w)] =
                     @ \o SubSeq(HeaderBytes(job[w].header), index[w] + 1, index[w] + n)]
       /\ Advance(w, index[w] + n)
  /\ UNCHANGED <<mutexes, job, taken, dead, said, spoilt>>

(* send() fails, once or from now on: its -1 is added to the index, so that *)
(* a byte that has been sent will be sent again.                           *)
TransmitFails(w) ==
  /\ pc[w] = "sending"
  /\ Advance(w, index[w] - 1)
  /\ \/ dead' = dead \cup {Target(w)} /\ spoilt' = spoilt
     \/ Target(w) \notin dead /\ dead' = dead /\ spoilt' = spoilt \cup {Target(w)}
  /\ UNCHANGED <<mutexes, job, taken, wire, said>>

(* LeaveCriticalSection; of a section that was initialised since, it does  *)
(* anything.                                                               *)
LeaveSection(w) ==
  \E o \in IF owner[Mutex(w)] = w THEN {Nobody} ELSE {owner[Mutex(w)], Nobody, Lost} :
    owner' = [owner EXCEPT ![Mutex(w)] = o]

Return(w) ==
  /\ pc' = [pc EXCEPT ![w] = "idle"]
  /\ job' = [job EXCEPT ![w] = NoJob]
  /\ index' = [index EXCEPT ![w] = 0]
  /\ attempts' = [attempts EXCEPT ![w] = 0]
  /\ spoilt' = IF index[w] = Size THEN spoilt ELSE spoilt \cup {Target(w)}
  /\ UNCHANGED <<opened, section, taken, wire, dead, said>>

(* Fault: an early return when the message was cut short.                  *)
LeaveWhenWhole(w) ==
  /\ pc[w] = "leave"
  /\ IF index[w] = Size THEN LeaveSection(w) ELSE owner' = owner
  /\ Return(w)

(* unlockConnectionMutex; sockSend returns the index, at which those who   *)
(* forward a message do not look.                                          *)
Leave(w) ==
  /\ pc[w] = "leave"
  /\ LeaveSection(w)
  /\ Return(w)

Next ==
  \/ \E c \in Connections : Open(c)
  \/ \E w \in Workers : Begin(w) \/ Enter(w) \/ Transmit(w) \/ TransmitFails(w) \/ Leave(w)

Spec == Init /\ [][Next]_vars

(* A worker that waits for a section gets it if it becomes free again and  *)
(* again, and one whose send() has returned goes on.  The remote end does  *)
(* not have to read what is sent, so send() does not have to return.       *)
FairSpec == Spec /\ \A w \in Workers : SF_vars(Enter(w)) /\ WF_vars(Leave(w))

-----------------------------------------------------------------------------

TypeOK ==
  /\ opened \subseteq Connections
  /\ section \in [Connections -> Places]
  /\ owner \in [Places -> Workers \cup {Nobody, Lost}]
  /\ pc \in [Workers -> {"idle", "enter", "sending", "leave"}]
  /\ job \in [Workers -> Jobs \cup {NoJob}]
  /\ \A w \in Workers : pc[w] # "idle" => job[w] \in Jobs
  /\ index \in [Workers -> -1 .. Size]
  /\ attempts \in [Workers -> 0 .. MaxAttempts]
  /\ taken \in 0 .. Len(Messages)
  /\ wire \in [Connections -> Seq(Byte)]
  /\ dead \subseteq Connections
  /\ said \in [Connections -> Seq(Header)]
  /\ spoilt \subseteq Connections
  /\ \A w \in Workers : pc[w] = "sending" => Continues(index[w], attempts[w])

(* Another connection has its mutex in the same place.                     *)
Shares(c) == \E d \in opened \ {c} : section[d] = section[c]

(* The connections whose stream can still be told into messages.           *)
Sound(c) == c \in opened /\ c \notin spoilt /\ ~ Shares(c)

Inside(w) == pc[w] \in {"sending", "leave"}

(* What processCommand reads of the headers at the other end.              *)
Heard(c) ==
  [k \in 1 .. Len(wire[c]) \div Size |->
     [code |-> getShortFromBuffer(<<wire[c][Size * k - 3], wire[c][Size * k - 2]>>),
      id   |-> getShortFromBuffer(<<wire[c][Size * k - 1], wire[c][Size * k]>>)]]

(* sock_datatypes.h:49 "synchronizes access to this connection": the remote*)
(* end hears the very headers that were sent, in the order in which the    *)
(* workers got the mutex, in whatever pieces send() took them.             *)
HeardAsSaid ==
  \A c \in Connections : Sound(c) =>
    \A k \in 1 .. Len(wire[c]) \div Size :
      k <= Len(said[c]) /\ Heard(c)[k] = said[c][k]

(* sockSend returns the length of the message only when all of it, and     *)
(* nothing after it, has been sent.                                        *)
WholeIfReported ==
  \A w \in Workers :
    pc[w] = "leave" /\ index[w] = Size /\ Sound(Target(w)) =>
      Len(wire[Target(w)]) = Size * Len(said[Target(w)])

(* The mutex of a connection belongs to the one worker that sends on it.   *)
OneInside ==
  \A w \in Workers :
    Inside(w) /\ ~ Shares(Target(w)) => owner[Mutex(w)] = w

(* No mutex is held by a worker that has returned from sockSend or waits   *)
(* for a mutex, wherever the mutexes are and whoever broke them: there is  *)
(* no circle of workers that wait for each other.                          *)
HoldersSend ==
  \A p \in Places : owner[p] \in Workers =>
    Inside(owner[p]) /\ Mutex(owner[p]) = p

(* What is on the wire of a sound connection is a prefix of what was said; *)
(* it is all that was said but for the message of the worker inside, of    *)
(* which index bytes are out until the connection dies.                    *)
BytesInv(c) ==
  \A i \in 1 .. Len(wire[c]) :
    /\ (i - 1) \div Size < Len(said[c])
    /\ wire[c][i] = ByteOf(said[c][(i - 1) \div Size + 1], (i - 1) % Size)

LengthInv(c) ==
  IF \E w \in Workers : Inside(w) /\ Target(w) = c
  THEN \A w \in Workers : Inside(w) /\ Target(w) = c =>
         /\ said[c] # <<>> /\ said[c][Len(said[c])] = job[w].header
         /\ Size * (Len(said[c]) - 1) <= Len(wire[c])
         /\ c \in dead => index[w] < Size
         /\ c \notin dead => Len(wire[c]) = Size * (Len(said[c]) - 1) + index[w]
  ELSE Len(wire[c]) = Size * Len(said[c])

(* Nothing is sent on a connection before it is initialised, nor by a      *)
(* worker that is idle.                                                    *)
FreshInv ==
  /\ \A w \in Workers : pc[w] = "idle" => job[w] = NoJob
  /\ \A w \in Workers : pc[w] # "idle" => Target(w) \in opened
  /\ \A c \in Connections \ opened : wire[c] = <<>> /\ said[c] = <<>>

IInv ==
  /\ TypeOK
  /\ OneInside
  /\ FreshInv
  /\ \A c \in Connections : Sound(c) => BytesInv(c) /\ LengthInv(c)

(* The loops of tcpSend, on connections that share a mutex or a failure,   *)
(* as sends that happen at once or garble their connection.                *)
Delivered == [w \in Workers |-> pc[w] = "leave" /\ index[w] = Size]
Lines ==
  [c \in Connections |->
     IF c \notin opened THEN "shut" ELSE IF Sound(c) THEN "clear" ELSE "garbled"]
HeardClearly == [c \in Connections |-> IF Sound(c) THEN Heard(c) ELSE <<>>]

Calls == INSTANCE AtomicSend WITH
  Headers <- {Messages[i] : i \in 1 .. Len(Messages)},
  call <- job, delivered <- Delivered, line <- Lines, heard <- HeardClearly

(* In whatever pieces and between whatever other sends the bytes of a      *)
(* message go out, the remote end hears it at once, whole and once, and a  *)
(* call that returns without that has ruined its connection: no call       *)
(* returns the length for less, or less for a connection that is sound.    *)
ImplementsAtomicSend == Calls!Spec

(* A worker waits for ever only behind one whose send() does not return:   *)
(* the remote end of that connection does not read.  (Or the section has   *)
(* been broken.)                                                           *)
Stuck(w) ==
  \/ owner[Mutex(w)] = Lost
  \/ \E u \in Workers : pc[u] = "sending" /\ owner[Mutex(w)] = u

WaitsOnlyOnSends ==
  \A w \in Workers : <>[](pc[w] = "enter") => <>[](pc[w] = "enter" /\ Stuck(w))

=============================================================================
