--------------------------- MODULE ConnectionTables ---------------------------
(***************************************************************************)
(* The tables of connected peers and services of Polymorphic-Win/sock.c:   *)
(* the functions sock.h exports, called by any thread with any ID, and the *)
(* critical sections around them.  The table of clients has the code of    *)
(* the table of peers.                                                     *)
(*                                                                         *)
(* A table is reduced to what ConnectionArray shows of it: an allocation   *)
(* takes the lowest vacant ID.  What this module keeps is who is inside    *)
(* which section, and which objects closeConnection has given back to the  *)
(* heap while their slots still point to them.                             *)
(***************************************************************************)
EXTENDS Integers, FiniteSets

CONSTANTS
  Threads,       \* the accept thread and the workers
  Nobody, Lost,  \* owners of a section that is free, or of one that is broken
  MaxId,         \* the IDs of a table are 0 .. MaxId; others are not followed
  MaxDepth,      \* how often a section is entered and not left
  Ops,           \* the functions called, of "allocate", "free", "remove",
                 \* "find" and "getAll"
  ForeignLeave   \* leaving a section one does not own: "ignored", "broken",
                 \* or "released": an entry of the thread that does is undone

ASSUME TablesAssumption ==
  /\ Nobody \notin Threads /\ Lost \notin Threads /\ Nobody # Lost
  /\ MaxId \in Nat /\ MaxDepth \in Nat \ {0}
  /\ Ops \subseteq {"allocate", "free", "remove", "find", "getAll"}
  /\ ForeignLeave \subseteq {"ignored", "broken", "released"}
  /\ ForeignLeave \notin {{}, {"released"}}

VARIABLES
  owner,    \* section -> the thread inside it, Nobody or Lost
  depth,    \* section -> how often its owner has entered it
  taken,    \* table -> IDs whose object has an index >= 0
  freed,    \* table -> IDs whose slot points to an object given to free()
  pc,       \* thread -> where it is in its call
  call,     \* thread -> its call
  pointers  \* thread -> the connection objects it has pointers to

sections == <<owner, depth>>
tables == <<taken, freed>>
vars == <<owner, depth, taken, freed, pc, call, pointers>>

Realms == {"peer", "service"}
Sections == Realms \cup {"serviceString"}
Ids == 0 .. MaxId

-----------------------------------------------------------------------------

NoCall == [op |-> "none", realm |-> "peer", id |-> 0]

(* startListenSocket                                                       *)
Init ==
  /\ owner = [s \in Sections |-> Nobody]
  /\ depth = [s \in Sections |-> 0]
  /\ taken = [m \in Realms |-> {}]
  /\ freed = [m \in Realms |-> {}]
  /\ pc = [t \in Threads |-> "idle"]
  /\ call = [t \in Threads |-> NoCall]
  /\ pointers = [t \in Threads |-> {}]

(* A thread calls one of the functions for one of the tables.              *)
Begin(t) ==
  /\ pc[t] = "idle"
  /\ \E op \in Ops, m \in Realms, x \in Ids :
       /\ op \in {"free", "remove"} /\ owner[m] = t => depth[m] < MaxDepth
       /\ op \in {"allocate", "getAll"} => x = 0
       /\ call' = [call EXCEPT ![t] = [op |-> op, realm |-> m, id |-> x]]
  /\ pc' = [pc EXCEPT ![t] = "enter"]
  /\ UNCHANGED <<sections, tables, pointers>>

(* EnterCriticalSection: a section is recursive.                           *)
EnterSection(t, s) ==
  /\ owner[s] \in {Nobody, t}
  /\ owner' = [owner EXCEPT ![s] = t]
  /\ depth' = [depth EXCEPT ![s] = @ + 1]

(* Fault: a lock that does not count how often it was entered.             *)
LeaveSectionAtOnce(t, s) ==
  /\ owner[s] = t
  /\ depth' = [depth EXCEPT ![s] = @ - 1]
  /\ owner' = [owner EXCEPT ![s] = Nobody]

(* LeaveCriticalSection does not ask who calls it: it undoes an entry of   *)
(* the owner, whoever that is, and frees the section with the last one.    *)
(* Microsoft leaves it undefined for anyone but the owner.                 *)
UndoEntry(s) ==
  /\ depth' = [depth EXCEPT ![s] = @ - 1]
  /\ owner' = [owner EXCEPT ![s] = IF depth[s] = 1 THEN Nobody ELSE @]

LeaveSection(t, s) ==
  \/ owner[s] = t /\ UndoEntry(s)
  \/ owner[s] \in Threads \ {t} /\ "released" \in ForeignLeave /\ UndoEntry(s)
  \/ owner[s] # t /\ "ignored" \in ForeignLeave /\ UNCHANGED sections
  \/ /\ owner[s] # t /\ "broken" \in ForeignLeave
     /\ owner' = [owner EXCEPT ![s] = Lost]
     /\ depth' = [depth EXCEPT ![s] = 0]

Goto(t, where) == pc' = [pc EXCEPT ![t] = where] /\ UNCHANGED call
Return(t) == pc' = [pc EXCEPT ![t] = "idle"] /\ call' = [call EXCEPT ![t] = NoCall]

(* Fault: freePeer and removePeer enter the section of the services.       *)
EnterServices(t) ==
  /\ pc[t] = "enter"
  /\ EnterSection(t, IF call[t].op \in {"free", "remove"} THEN "service" ELSE call[t].realm)
  /\ Goto(t, "inside")
  /\ UNCHANGED <<tables, pointers>>

Enter(t) ==
  /\ pc[t] = "enter"
  /\ EnterSection(t, call[t].realm)
  /\ Goto(t, "inside")
  /\ UNCHANGED <<tables, pointers>>

(* What a scan of table m takes for occupied: the index of an object that  *)
(* was freed may read as anything.                                         *)
Readings(m) == {(taken[m] \ freed[m]) \cup r : r \in SUBSET freed[m]}

Inside(t, op) == pc[t] = "inside" /\ call[t].op = op

(* allocateNewPeer, allocateNewService                                     *)
Allocate(t) ==
  /\ Inside(t, "allocate")
  /\ LET m == call[t].realm
     IN  \E occupied \in Readings(m) :
           IF Ids \subseteq occupied
           THEN UNCHANGED <<taken, pointers>>
           ELSE \E x \in Ids \ occupied :
                  /\ \A y \in Ids \ occupied : x <= y
                  /\ taken' = [taken EXCEPT ![m] = @ \cup {x}]
                  /\ pointers' = [pointers EXCEPT ![t] = {<<m, x>>}]
  /\ Goto(t, "leave")
  /\ UNCHANGED <<sections, freed>>

(* freePeer, freeService: they return before they leave the section.       *)
Free(t) ==
  /\ Inside(t, "free")
  /\ \E occupied \in Readings(call[t].realm) :
       IF call[t].id \in occupied
       THEN taken' = [taken EXCEPT ![call[t].realm] = @ \ {call[t].id}]
       ELSE UNCHANGED taken
  /\ Return(t)
  /\ UNCHANGED <<sections, freed, pointers>>

(* removePeer, removeService: freeXInternal; an ID that is not there is    *)
(* answered before the section is left.                                    *)
Remove(t) ==
  /\ Inside(t, "remove")
  /\ \E occupied \in Readings(call[t].realm) :
       IF call[t].id \in occupied
       THEN /\ taken' = [taken EXCEPT ![call[t].realm] = @ \ {call[t].id}]
            /\ Goto(t, "close")
       ELSE UNCHANGED taken /\ Return(t)
  /\ UNCHANGED <<sections, freed, pointers>>

(* Fault: the object is freed under the section of the service string.     *)
CloseConnectionNested(t) ==
  /\ pc[t] = "close"
  /\ owner["serviceString"] \in {Nobody, t}
  /\ freed' = [freed EXCEPT ![call[t].realm] = @ \cup {call[t].id}]
  /\ Goto(t, "leave")
  /\ UNCHANGED <<sections, taken, pointers>>

(* closeConnection gives the object to free(); the array keeps the pointer.*)
(* (It also frees buffer.buf, which is a part of the object: in the builds *)
(* followed here the heap ignores that.)                                   *)
CloseConnection(t) ==
  /\ pc[t] = "close"
  /\ freed' = [freed EXCEPT ![call[t].realm] = @ \cup {call[t].id}]
  /\ Goto(t, "leave")
  /\ UNCHANGED <<sections, taken, pointers>>

(* getConnectionFromPeerID, getConnectionFromServiceID: both look into the *)
(* table of the services.                                                  *)
TableOfLookup(m) == "service"

FindConnection(t) ==
  /\ Inside(t, "find")
  /\ LET m == TableOfLookup(call[t].realm)
     IN  \E occupied \in Readings(m) :
           pointers' = [pointers EXCEPT ![t] =
                          IF call[t].id \in occupied THEN {<<m, call[t].id>>} ELSE {}]
  /\ Goto(t, "leave")
  /\ UNCHANGED <<sections, tables>>

(* getCurrentPeerConnections, getCurrentServiceConnections                 *)
GetAll(t) ==
  /\ Inside(t, "getAll") \/ Inside(t, "rebuild")
  /\ \E occupied \in Readings(call[t].realm) :
       pointers' = [pointers EXCEPT ![t] = {call[t].realm} \X occupied]
  /\ Goto(t, "leave")
  /\ UNCHANGED <<sections, tables>>

(* The section is left.  removeService goes on with rebuildServiceString,  *)
(* which lists the services first; the others return, and their caller     *)
(* uses what it got.                                                       *)
Leave(t) ==
  /\ pc[t] = "leave"
  /\ LeaveSection(t, call[t].realm)
  /\ IF call[t].op = "remove" /\ call[t].realm = "service"
     THEN /\ pc' = [pc EXCEPT ![t] = "enter"]
          /\ call' = [call EXCEPT ![t].op = "rebuild"]
     ELSE IF call[t].op = "rebuild" THEN Goto(t, "enterString")
     ELSE IF pointers[t] # {} THEN Goto(t, "use") ELSE Return(t)
  /\ UNCHANGED <<tables, pointers>>

(* The callers: the handshake fills in the connection it allocated, a      *)
(* command is sent on the connection it found, addressConnected and        *)
(* serviceStringExists look into all of them.                              *)
Use(t) ==
  /\ pc[t] = "use"
  /\ pointers' = [pointers EXCEPT ![t] = {}]
  /\ Return(t)
  /\ UNCHANGED <<sections, tables>>

(* rebuildServiceString enters the section of the string, which nobody     *)
(* leaves: entries beyond MaxDepth + 1 are not counted ...                 *)
EnterString(t) ==
  /\ pc[t] = "enterString"
  /\ owner["serviceString"] \in {Nobody, t}
  /\ owner' = [owner EXCEPT !["serviceString"] = t]
  /\ depth' = [depth EXCEPT !["serviceString"] = IF @ > MaxDepth THEN @ ELSE @ + 1]
  /\ Goto(t, "concat")
  /\ UNCHANGED <<tables, pointers>>

(* ... appends the string of each service, for which concatServiceString   *)
(* enters and leaves the same section, and leaves that of the services.    *)
Concat(t) ==
  /\ pc[t] = "concat"
  /\ LeaveSection(t, "service")
  /\ pointers' = [pointers EXCEPT ![t] = {}]
  /\ Return(t)
  /\ UNCHANGED tables

Step(t) ==
  \/ Enter(t) \/ Allocate(t) \/ Free(t) \/ Remove(t) \/ CloseConnection(t)
  \/ FindConnection(t) \/ GetAll(t) \/ Leave(t) \/ Use(t)
  \/ EnterString(t) \/ Concat(t)

Next == \E t \in Threads : Begin(t) \/ Step(t)

Spec == Init /\ [][Next]_vars

(* A thread inside a call runs; one that waits for a section gets it if it *)
(* becomes free again and again, which is what Windows promises.  Nobody   *)
(* has to call a function.                                                 *)
FairSpec ==
  /\ Spec
  /\ \A t \in Threads : WF_vars(Step(t)) /\ SF_vars(Enter(t)) /\ SF_vars(EnterString(t))

-----------------------------------------------------------------------------

PCs == {"idle", "enter", "inside", "close", "leave", "use", "enterString", "concat"}
Calls == [op : Ops \cup {"none", "rebuild"}, realm : Realms, id : Ids]

TypeOK ==
  /\ owner \in [Sections -> Threads \cup {Nobody, Lost}]
  /\ depth \in [Sections -> 0 .. MaxDepth + 1]
  /\ \A s \in Sections : depth[s] > 0 <=> owner[s] \in Threads
  /\ taken \in [Realms -> SUBSET Ids]
  /\ freed \in [Realms -> SUBSET Ids]
  /\ pc \in [Threads -> PCs]
  /\ call \in [Threads -> Calls]
  /\ pointers \in [Threads -> SUBSET (Realms \X Ids)]

(* The table a thread reads or changes inside a section.                   *)
Touches(t) ==
  IF pc[t] \notin {"inside", "close", "leave"} THEN {}
  ELSE IF call[t].op = "find" THEN {TableOfLookup(call[t].realm)} ELSE {call[t].realm}
Modifies(t) == call[t].op \in {"allocate", "free", "remove"}

(* A lookup of a peer reads the services under the section of the peers.   *)
Astray(t) == call[t].op = "find" /\ call[t].realm = "peer"

(* While a thread changes table m, no other thread is anywhere in it but a *)
(* lookup of a peer.                                                       *)
NoRaceIn(m) ==
  \A t, u \in Threads :
    t # u /\ Modifies(t) /\ ~ Astray(u) => m \notin Touches(t) \cap Touches(u)

(* In the table of the peers a thread that changes it is alone, although   *)
(* freePeer and removePeer leak the section and a removal frees the object *)
(* inside it.  (No lookup goes there: getConnectionFromPeerID reads the    *)
(* services, with which the peers have no section in common.)              *)
PeersAlone == NoRaceIn("peer")

(* The same of both tables.  The program does not keep it: when            *)
(* rebuildServiceString leaves the section of the services while another   *)
(* thread is inside, a third one may follow.                               *)
NoRace == \A m \in Realms : NoRaceIn(m)

(* What they need to be inductive: a thread inside a section owns it, or*)
(* the section was broken since and lets nobody else in; no two threads are*)
(* inside one; and the section of a table is entered no deeper than the    *)
(* leaks that are allowed.                                                 *)
InSection(t, m) == pc[t] \in {"inside", "close", "leave"} /\ call[t].realm = m

InsideInv(M) ==
  /\ \A t \in Threads, m \in M : InSection(t, m) => owner[m] \in {t, Lost}
  /\ \A t, u \in Threads, m \in M : t # u => ~ (InSection(t, m) /\ InSection(u, m))

DepthInv ==
  \A t \in Threads, s \in Realms : owner[s] = t =>
    /\ ~ InSection(t, s) => depth[s] <= MaxDepth
    /\ call[t].op \in {"free", "remove"} /\ call[t].realm = s =>
         (pc[t] = "enter" => depth[s] < MaxDepth) /\ (pc[t] = "inside" => depth[s] <= MaxDepth)

(* For the tables of M, a set of realms.                                   *)
IInv(M) == TypeOK /\ InsideInv(M) /\ DepthInv

(* The one step that lets a second thread into a table: t, done with the   *)
(* service string, leaves the section of the services while another thread *)
(* is inside, and that releases it.                                        *)
GivesAway(t) ==
  /\ Concat(t) /\ owner'["service"] = Nobody
  /\ \E u \in Threads \ {t} : InSection(u, "service")

(* How often u's present call has entered s; a section entered more often  *)
(* than that has been leaked by an earlier call.                           *)
InUse(u, s) ==
  CASE pc[u] \in {"inside", "close", "leave"} /\ call[u].realm = s -> 1
    [] pc[u] = "concat" /\ s = "serviceString" -> 1
    [] OTHER -> 0
Leaked(s) ==
  \/ owner[s] = Lost
  \/ \E u \in Threads : owner[s] = u /\ depth[s] > InUse(u, s)

Waits(t) == pc[t] \in {"enter", "enterString"}
Wanted(t) == IF pc[t] = "enter" THEN call[t].realm ELSE "serviceString"

(* The functions never wait on each other in a circle: a thread waits for  *)
(* ever only for a section that some call returned without leaving, or     *)
(* that was broken.                                                        *)
WaitsOnlyOnLeaks ==
  \A t \in Threads : Waits(t) ~> (~ Waits(t) \/ Leaked(Wanted(t)))

(* sock.c:377: "Rebuilds the server's combined service string."            *)
RebuildCompletes ==
  \A t \in Threads : pc[t] = "enterString" ~> pc[t] = "concat"

=============================================================================
