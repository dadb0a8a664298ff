------------------------------ MODULE AcceptLoop ------------------------------
(***************************************************************************)
(* The accept thread of the daemon (sock.c acceptNewTCPConnections) with   *)
(* the handshake it runs for every connection (connections.c               *)
(* initializeIncomingConnection), the remotes that connect, and the main   *)
(* thread that shuts the daemon down (closeListenSocket).                  *)
(*                                                                         *)
(* The handshake is handed the address of the SOCKET variable where the    *)
(* send and receive functions expect a POLYM_CONNECTION, the critical      *)
(* section of the clients is never initialised, the pointer that the loop  *)
(* registers is never assigned, and the size of a service string is not    *)
(* compared with the 256 bytes it is received into.  What such an access   *)
(* does is up to the build: the constants below hold the outcomes it may   *)
(* have.                                                                   *)
(***************************************************************************)
EXTENDS Integers, Sequences, FiniteSets

CONSTANTS
  Remotes,         \* the remote ends that connect, again and again
  NoRemote,        \* the local `socket` when it holds no connection
  maxConnections,  \* sock.c: 500
  StringStorage,   \* POLYM_INITIAL_MESSAGE_BUFFER_STORAGE_SIZE, of serviceStrings
  StackAsConnection, \* sending on &socket: protocol read as "tcp" or "other",
                     \* mutex read as one that "hangs" or "faults"
  ClientLock,      \* entering clientConnectionsCriticalSection:
                   \* "enters", "hangs" or "faults"
  StrayWrite       \* writing outside the object meant: "kept" or "faults"

ASSUME AcceptAssumption ==
  /\ IsFiniteSet(Remotes)
  /\ NoRemote \notin Remotes
  /\ maxConnections \in Nat
  /\ StringStorage \in Nat
  /\ StackAsConnection \subseteq {"tcp", "other", "hangs", "faults"}
  /\ ClientLock \subseteq {"enters", "hangs", "faults"}
  /\ StrayWrite \subseteq {"kept", "faults"}

POLY_REALM_PEER == 0
POLY_REALM_SERVICE == 1
POLY_REALM_CLIENT == 2
Realms == {POLY_REALM_PEER, POLY_REALM_SERVICE, POLY_REALM_CLIENT}

VARIABLES
  pc,             \* where the accept thread is
  socket,         \* its local SOCKET: the remote at the other end, or NoRemote
  realm,          \* the realm the handshake has received, a local of it
  sock,           \* remote -> what has become of our end of its connection
  told,           \* remote -> the result code it was sent
  unread,         \* remote -> whether bytes of it wait to be received
  backlog,        \* connections that listen() queues for accept()
  numConnections, \* "the number of current connections"
  slots,          \* realm -> objects in use in its connection array
  strings,        \* serviceStrings in use
  isShutdown,     \* the global of the same name
  winsock         \* whether WSACleanup has not been called yet

vars == <<pc, socket, realm, sock, told, unread, backlog, numConnections,
          slots, strings, isShutdown, winsock>>

environment == <<unread, backlog>>
budget == <<numConnections, slots, strings>>
shutdownVars == <<isShutdown, winsock>>

Dead == {"exited", "hung", "faulted"}

-----------------------------------------------------------------------------

Init ==
  /\ pc = "accept"
  /\ socket = NoRemote
  /\ realm = POLY_REALM_PEER
  /\ sock = [r \in Remotes |-> "none"]
  /\ told = [r \in Remotes |-> "nothing"]
  /\ unread = [r \in Remotes |-> FALSE]
  /\ backlog = <<>>
  /\ numConnections = 0
  /\ slots = [m \in Realms |-> 0]
  /\ strings = 0
  /\ isShutdown = FALSE
  /\ winsock = TRUE

-----------------------------------------------------------------------------
(* The remotes.                                                            *)

(* A remote opens a connection; one that was turned away may come again.   *)
Connect(r) ==
  /\ winsock
  /\ sock[r] \in {"none", "closed"}
  /\ sock' = [sock EXCEPT ![r] = "queued"]
  /\ told' = [told EXCEPT ![r] = "nothing"]
  /\ unread' = [unread EXCEPT ![r] = FALSE]
  /\ backlog' = Append(backlog, r)
  /\ UNCHANGED <<pc, socket, realm, budget, shutdownVars>>

(* Bytes of the remote arrive, in time for a receive or too late for it.   *)
Arrive(r) ==
  /\ sock[r] \in {"queued", "open"}
  /\ ~ unread[r]
  /\ unread' = [unread EXCEPT ![r] = TRUE]
  /\ UNCHANGED <<pc, socket, realm, sock, told, backlog, budget, shutdownVars>>

-----------------------------------------------------------------------------
(* The accept thread.                                                      *)

(* accept() returns the first connection of the queue, or fails because    *)
(* that connection was reset meanwhile, or because winsock is gone.  The   *)
(* result is not tested.  The timeouts of setsockopt belong to this step.  *)
Accept ==
  /\ pc = "accept"
  /\ IF winsock
     THEN /\ backlog # <<>>
          /\ backlog' = Tail(backlog)
          /\ LET r == Head(backlog)
             IN  \/ socket' = r /\ sock' = [sock EXCEPT ![r] = "open"]
                 \/ socket' = NoRemote /\ sock' = [sock EXCEPT ![r] = "closed"]
     ELSE socket' = NoRemote /\ UNCHANGED <<sock, backlog>>
  /\ pc' = "admit"
  /\ UNCHANGED <<realm, told, unread, budget, shutdownVars>>

Live == socket # NoRemote /\ winsock
Tell(code) == told' = IF socket = NoRemote THEN told ELSE [told EXCEPT ![socket] = code]
Close ==
  IF socket = NoRemote
  THEN UNCHANGED <<sock, unread>>
  ELSE /\ sock' = [sock EXCEPT ![socket] = "closed"]
       /\ unread' = [unread EXCEPT ![socket] = FALSE]

(* Fault: the loop is left only when accept() failed.                      *)
LeaveWhenInvalid ==
  /\ pc = "admit"
  /\ isShutdown
  /\ socket = NoRemote
  /\ pc' = "exited"
  /\ UNCHANGED <<socket, realm, sock, told, environment, budget, shutdownVars>>

(* The loop is left at shutdown, whatever accept() returned.               *)
Leave ==
  /\ pc = "admit"
  /\ isShutdown
  /\ pc' = "exited"
  /\ UNCHANGED <<socket, realm, sock, told, environment, budget, shutdownVars>>

(* Fault: the connection is told so, and accepted all the same.            *)
RefuseAndGoOn ==
  /\ pc = "admit"
  /\ ~ isShutdown
  /\ numConnections = maxConnections
  /\ \/ Live /\ Tell("full")
     \/ UNCHANGED told
  /\ pc' = "greet"
  /\ UNCHANGED <<socket, realm, sock, environment, budget, shutdownVars>>

(* At the maximum the connection is told so and closed.                    *)
Refuse ==
  /\ pc = "admit"
  /\ ~ isShutdown
  /\ numConnections = maxConnections
  /\ \/ Live /\ Tell("full")
     \/ UNCHANGED told
  /\ Close
  /\ pc' = "accept"
  /\ UNCHANGED <<socket, realm, backlog, budget, shutdownVars>>

(* Faults: the maximum is not enforced; the connection is not counted.     *)
AdmitAnyone ==
  /\ pc = "admit"
  /\ ~ isShutdown
  /\ numConnections' = numConnections + 1
  /\ pc' = "greet"
  /\ UNCHANGED <<socket, realm, sock, told, environment, slots, strings, shutdownVars>>

AdmitUncounted ==
  /\ pc = "admit"
  /\ ~ isShutdown
  /\ numConnections # maxConnections
  /\ pc' = "greet"
  /\ UNCHANGED <<socket, realm, sock, told, environment, budget, shutdownVars>>

Admit ==
  /\ pc = "admit"
  /\ ~ isShutdown
  /\ numConnections # maxConnections
  /\ numConnections' = numConnections + 1
  /\ pc' = "greet"
  /\ UNCHANGED <<socket, realm, sock, told, environment, slots, strings, shutdownVars>>

(* sendGreeting: the first use of &socket as a POLYM_CONNECTION.  The same *)
(* bytes are read by the later sends and receives, so once they have been  *)
(* taken for a TCP connection they are taken for one until the loop turns. *)
Greet ==
  /\ pc = "greet"
  /\ \E as \in StackAsConnection :
       CASE as = "tcp"    -> \/ Live /\ pc' = "encryption"
                             \/ pc' = "close"
         [] as = "other"  -> pc' = "close"
         [] as = "hangs"  -> pc' = "hung"
         [] as = "faults" -> pc' = "faulted"
  /\ UNCHANGED <<socket, realm, sock, told, environment, budget, shutdownVars>>

(* A receive of the handshake returns the bytes it asked for ...           *)
Received(stage) ==
  /\ pc = stage
  /\ Live
  /\ unread[socket]
  /\ unread' \in {unread, [unread EXCEPT ![socket] = FALSE]}

(* Fault: the sockets have no timeout.                                     *)
ReceiveFailsNoTimeout(stage) ==
  /\ pc = stage
  /\ ~ Live
  /\ UNCHANGED unread

(* ... or fails: the connection is gone, or SO_RCVTIMEO has passed.        *)
ReceiveFails(stage) ==
  /\ pc = stage
  /\ Live => ~ unread[socket]
  /\ UNCHANGED unread

(* Fault: the handshake starts again when nothing was received.            *)
RecvEncryptionAgain ==
  /\ \/ Received("encryption") /\ pc' \in {"realm", "close"}
     \/ ReceiveFails("encryption") /\ pc' = "greet"
  /\ UNCHANGED <<socket, realm, sock, told, backlog, budget, shutdownVars>>

RecvEncryption ==
  /\ \/ Received("encryption") /\ pc' \in {"realm", "close"}
     \/ ReceiveFails("encryption") /\ pc' = "close"
  /\ UNCHANGED <<socket, realm, sock, told, backlog, budget, shutdownVars>>

RecvRealm ==
  /\ \/ /\ Received("realm")
        /\ \/ /\ realm' \in Realms
              /\ pc' = IF realm' = POLY_REALM_SERVICE THEN "size" ELSE "allocate"
           \/ realm' = realm /\ pc' = "close"
     \/ ReceiveFails("realm") /\ pc' = "close" /\ realm' = realm
  /\ UNCHANGED <<socket, sock, told, backlog, budget, shutdownVars>>

RecvSize ==
  /\ \/ Received("size") /\ pc' \in {"allocate", "close"}
     \/ ReceiveFails("size") /\ pc' = "close"
  /\ UNCHANGED <<socket, realm, sock, told, backlog, budget, shutdownVars>>

(* allocateNewPeer, allocateNewService, allocateNewClient: only the last   *)
(* enters a critical section nobody initialised.                           *)
Allocate ==
  /\ pc = "allocate"
  /\ \E lock \in IF realm = POLY_REALM_CLIENT THEN ClientLock ELSE {"enters"} :
       CASE lock = "enters" ->
              /\ slots' = [slots EXCEPT ![realm] = @ + 1]
              /\ pc' = IF realm = POLY_REALM_SERVICE THEN "addString" ELSE "reply"
         [] lock = "hangs"  -> pc' = "hung" /\ UNCHANGED slots
         [] lock = "faults" -> pc' = "faulted" /\ UNCHANGED slots
  /\ UNCHANGED <<socket, realm, sock, told, environment, numConnections, strings, shutdownVars>>

(* allocateServiceString: a full array is extended by a realloc of the     *)
(* array's own static structure.                                           *)
AddString ==
  /\ pc = "addString"
  /\ IF strings < StringStorage
     THEN strings' = strings + 1 /\ pc' = "string"
     ELSE pc' = "faulted" /\ UNCHANGED strings
  /\ UNCHANGED <<socket, realm, sock, told, environment, numConnections, slots, shutdownVars>>

(* freePeer, freeService or freeClient, by an ID read from outside the     *)
(* object: it may be the ID of no connection, or of any.                   *)
FreeByGarbageId ==
  slots' \in {slots, [slots EXCEPT ![realm] = @ - 1]}

RecvString ==
  /\ \/ Received("string") /\ pc' = "reply" /\ UNCHANGED slots
     \/ Received("string") /\ "faults" \in StrayWrite /\ pc' = "faulted" /\ UNCHANGED slots
     \/ ReceiveFails("string") /\ pc' = "close" /\ FreeByGarbageId
  /\ UNCHANGED <<socket, realm, sock, told, backlog, numConnections, strings, shutdownVars>>

(* Fault: a service that was sent its code is taken for a failure.         *)
ReplySwapped ==
  /\ pc = "reply"
  /\ \/ /\ Live
        /\ Tell("pass")
        /\ pc' = IF realm = POLY_REALM_SERVICE THEN "close" ELSE "register"
        /\ UNCHANGED slots
     \/ /\ UNCHANGED told
        /\ FreeByGarbageId
        /\ pc' = "close"
  /\ UNCHANGED <<socket, realm, sock, environment, numConnections, strings, shutdownVars>>

(* The result code.  When it cannot be sent the slot is freed, and for a   *)
(* service, unlike the others, the handshake returns its realm.            *)
Reply ==
  /\ pc = "reply"
  /\ \/ Live /\ Tell("pass") /\ pc' = "register" /\ UNCHANGED slots
     \/ /\ UNCHANGED told
        /\ FreeByGarbageId
        /\ pc' = IF realm = POLY_REALM_SERVICE THEN "register" ELSE "close"
  /\ UNCHANGED <<socket, realm, sock, environment, numConnections, strings, shutdownVars>>

(* Fault: a failed connection is only forgotten.                           *)
ForgetFailed ==
  /\ pc = "close"
  /\ pc' = "accept"
  /\ realm' = POLY_REALM_PEER
  /\ UNCHANGED <<socket, sock, told, environment, budget, shutdownVars>>

(* POLY_REALM_FAILED: the connection is closed.  The handshake's locals    *)
(* are gone.                                                               *)
CloseFailed ==
  /\ pc = "close"
  /\ Close
  /\ pc' = "accept"
  /\ realm' = POLY_REALM_PEER
  /\ UNCHANGED <<socket, told, backlog, budget, shutdownVars>>

(* The new connection is put on the completion port and its first receive  *)
(* is posted; neither result is tested, so a connection whose remote has   *)
(* reset it meanwhile may be left open with no receive: deaf.              *)
Register ==
  /\ pc = "register"
  /\ \E write \in StrayWrite :
       IF write = "kept"
       THEN /\ IF Live
               THEN \E end \in {"armed", "deaf"} : sock' = [sock EXCEPT ![socket] = end]
               ELSE UNCHANGED sock
            /\ pc' = "accept"
       ELSE pc' = "faulted" /\ UNCHANGED sock
  /\ realm' = POLY_REALM_PEER
  /\ UNCHANGED <<socket, told, environment, budget, shutdownVars>>

AcceptThread ==
  \/ Accept \/ Leave \/ Refuse \/ Admit
  \/ Greet \/ RecvEncryption \/ RecvRealm \/ RecvSize
  \/ Allocate \/ AddString \/ RecvString \/ Reply
  \/ CloseFailed \/ Register

-----------------------------------------------------------------------------
(* The main thread: closeListenSocket.                                     *)

SetShutdown ==
  /\ ~ isShutdown
  /\ isShutdown' = TRUE
  /\ UNCHANGED <<pc, socket, realm, sock, told, environment, budget, winsock>>

Cleanup ==
  /\ isShutdown
  /\ winsock
  /\ winsock' = FALSE
  /\ UNCHANGED <<pc, socket, realm, sock, told, environment, budget, isShutdown>>

Next ==
  \/ \E r \in Remotes : Connect(r) \/ Arrive(r)
  \/ AcceptThread
  \/ SetShutdown
  \/ Cleanup

Spec == Init /\ [][Next]_vars

(* The system schedules the accept thread: no call of it blocks for ever,  *)
(* since accept() has a connection to return or fails, and the sockets     *)
(* have timeouts of 5 s.  The main thread, once in closeListenSocket, runs *)
(* to its end.  Nothing is assumed of the remotes, nor of the user who     *)
(* asks for the shutdown.                                                  *)
FairSpec == Spec /\ WF_vars(AcceptThread) /\ WF_vars(Cleanup)

-----------------------------------------------------------------------------

Handshake == {"greet", "encryption", "realm", "size", "allocate", "addString",
              "string", "reply", "register", "close"}
PCs == {"accept", "admit"} \cup Handshake \cup Dead

TypeOK ==
  /\ pc \in PCs
  /\ socket \in Remotes \cup {NoRemote}
  /\ realm \in Realms
  /\ sock \in [Remotes -> {"none", "queued", "open", "closed", "armed", "deaf"}]
  /\ told \in [Remotes -> {"nothing", "full", "pass"}]
  /\ unread \in [Remotes -> BOOLEAN]
  /\ backlog \in Seq(Remotes)
  /\ numConnections \in 0 .. maxConnections
  /\ slots \in [Realms -> Nat]
  /\ strings \in 0 .. StringStorage
  /\ isShutdown \in BOOLEAN
  /\ winsock \in BOOLEAN

Allocated == slots[POLY_REALM_PEER] + slots[POLY_REALM_SERVICE] + slots[POLY_REALM_CLIENT]
Registered == {r \in Remotes : sock[r] \in {"armed", "deaf"}}

(* The budget of maxConnections covers the objects of all three tables,    *)
(* those that failed handshakes leave behind included, and the registered  *)
(* connections, whether their receive could be posted or not, together     *)
(* with the one in its handshake: a connection is counted before it takes  *)
(* anything.                                                               *)
WithinBudget ==
  /\ Allocated + (IF pc \in {"greet", "encryption", "realm", "size", "allocate"} THEN 1 ELSE 0)
       <= numConnections
  /\ Cardinality(Registered) + (IF pc \in Handshake THEN 1 ELSE 0) <= numConnections

(* No failure of a handshake leaves its socket over: when the loop comes   *)
(* back to accept(), each connection it ever took is closed, or went       *)
(* through the whole handshake and was registered.  Besides a shutdown,    *)
(* only the receive that could not be posted on a registered connection    *)
(* leaves one open that nobody attends to.                                 *)
NoSocketLost ==
  \A r \in Remotes :
    sock[r] = "open" => (socket = r /\ pc # "accept") \/ isShutdown

(* A remote that was told it is in is never closed: no later step of the   *)
(* handshake fails after the result code 0 was sent, so the connection is  *)
(* registered, though perhaps without its receive.                         *)
PassMeansIn ==
  \A r \in Remotes :
    told[r] = "pass" =>
      \/ r \in Registered
      \/ socket = r /\ pc \in {"register", "faulted"}
      \/ isShutdown

(* What the invariants above need to be inductive: a connection waits in   *)
(* the queue once and has been told nothing; the one in its handshake is   *)
(* open and has been told nothing until its reply; a slot that may be      *)
(* freed was allocated; winsock goes only at a shutdown.                   *)
QueueInv ==
  /\ \A i \in 1 .. Len(backlog) : sock[backlog[i]] = "queued"
  /\ \A i, j \in 1 .. Len(backlog) : backlog[i] = backlog[j] => i = j
  /\ \A r \in Remotes : sock[r] = "queued" => told[r] = "nothing"

CurrentInv ==
  socket # NoRemote /\ pc \notin {"accept", "exited"} =>
    /\ sock[socket] = "open"
    /\ pc \in {"admit"} \cup (Handshake \ {"register"}) => told[socket] = "nothing"

HeldInv ==
  /\ pc \in {"addString", "string", "reply"} => slots[realm] > 0
  /\ ~ winsock => isShutdown

IInv ==
  /\ TypeOK
  /\ WithinBudget
  /\ NoSocketLost
  /\ PassMeansIn
  /\ QueueInv
  /\ CurrentInv
  /\ HeldInv

(* The remotes as guests: the one at the door is the one whose connection  *)
(* the loop has taken from the queue and not yet closed or registered.     *)
AtDoor == IF pc \in {"accept", "exited"} THEN NoRemote ELSE socket

Door == INSTANCE FrontDoor WITH
  Guests <- Remotes, Nobody <- NoRemote, Capacity <- maxConnections,
  line <- backlog, atDoor <- AtDoor, inside <- Registered

(* Connections are dealt with one by one in the order they came, each is   *)
(* done with before the next is taken, and more than maxConnections are    *)
(* never registered.                                                       *)
ImplementsDoor == Door!Spec

(* How many steps of the accept thread, at most, are left of its loop.     *)
Stages == 11
Stage(p) ==
  CASE p = "admit"      -> 11
    [] p = "greet"      -> 10
    [] p = "encryption" -> 9
    [] p = "realm"      -> 8
    [] p = "size"       -> 7
    [] p = "allocate"   -> 6
    [] p = "addString"  -> 5
    [] p = "string"     -> 4
    [] p = "reply"      -> 3
    [] p \in {"register", "close"} -> 2
    [] OTHER -> 0

(* How many are left before the i-th connection of the queue is taken, and *)
(* how many before the thread has ended, once a shutdown was asked for.    *)
Turn(i) == (Stages + 1) * i + Stage(pc)
ToExit ==
  CASE pc \in Dead -> 0
    [] pc = "admit" -> 1
    [] OTHER -> 2 + Stage(pc)

(* The wait of a queued connection is bounded: each step of the accept     *)
(* thread, whatever the remotes before it do or fail to do, brings its turn*)
(* nearer, and nothing that happens meanwhile moves it away again.         *)
WaitBounded ==
  [][winsock => \A i \in 1 .. Len(backlog), j \in 1 .. Len(backlog') :
       backlog'[j] = backlog[i] =>
         /\ Turn(j)' <= Turn(i)
         /\ pc' # pc => Turn(j)' < Turn(i)]_vars

(* The rest of the loop is bounded from the moment of a shutdown: no step  *)
(* of the accept thread starts anything anew.                              *)
ShutdownBounded ==
  [][isShutdown => /\ ToExit' <= ToExit
                   /\ pc' # pc => ToExit' < ToExit]_vars

(* Every queued connection is dealt with, closed or registered, however    *)
(* slow or silent the ones before it are: the timeouts bound each          *)
(* handshake.  (One that is registered may still be deaf.)                 *)
EveryoneServed ==
  \A r \in Remotes :
    sock[r] = "queued" ~> (sock[r] = "closed" \/ r \in Registered \/ isShutdown \/ pc \in Dead)

(* After a shutdown request the accept thread ends, even out of the middle *)
(* of a handshake.                                                         *)
ShutdownEndsLoop == isShutdown ~> pc \in Dead

(* Protocol.txt:89-93: a client gets a result code (or, the send failing,  *)
(* is closed), unless the daemon is being shut down.                       *)
ClientAnswered ==
  \A r \in Remotes :
    socket = r /\ pc = "allocate" /\ realm = POLY_REALM_CLIENT ~>
      (told[r] = "pass" \/ sock[r] = "closed" \/ isShutdown)

=============================================================================
