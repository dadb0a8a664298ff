------------------------------- MODULE EventLoop -------------------------------
(***************************************************************************)
(* The completion port and the worker threads of the daemon (sock.c        *)
(* eventListener) with the commands they run (commands.c processCommand    *)
(* and the handlers it calls), on connections whose remotes send commands  *)
(* and hang up.                                                            *)
(*                                                                         *)
(* A connection has one overlap and one buffer for the header of a         *)
(* command, so it may have one receive posted at a time.  A worker that    *)
(* takes its completion receives the rest of the command itself, posts     *)
(* the receive again, and only then forwards or answers the command: from  *)
(* there on another worker may be given the next command, or the hang-up,  *)
(* of the same connection.                                                 *)
(*                                                                         *)
(* initializeNewTCPConnection gives every connection event type 0,         *)
(* "accept", and realm UNINIT.  EventTypes and Realms are constants, so    *)
(* that the handlers can be checked on the connections they are written    *)
(* for as well.                                                            *)
(*                                                                         *)
(* Each connection has an object of its own here, and neither the memory   *)
(* of a freed one nor the number of a closed socket is used anew.          *)
(***************************************************************************)
EXTENDS Integers, Sequences, FiniteSets

CONSTANTS
  Conns,        \* connections
  NoConn,       \* no connection; also the completion key of a shutdown event
  Workers,      \* worker threads
  EventTypes,   \* what a receive's overlap says: "accept" or "listen"
  Realms,       \* of "peer", "service", "client" and "uninit"
  Commands,     \* command codes that remotes send
  MaxShutdowns, \* bound: shutdown events in the port at a time
  StaleUse,     \* using a freed connection: it "works" or "faults"
  Waits,        \* a wait for a section that may have been leaked, or for a
                \* connection's mutex that may have been broken: it may "end"
                \* or "last"
  ClientLock    \* entering clientConnectionsCriticalSection, which nobody
                \* initialised: "enters", "hangs" or "faults"

ASSUME LoopAssumption ==
  /\ NoConn \notin Conns
  /\ Workers \cap {"none", "posted", "queued", "dropped"} = {}
  /\ EventTypes \subseteq {"accept", "listen"}
  /\ Realms \subseteq {"peer", "service", "client", "uninit"}
  /\ Commands # {}
  /\ MaxShutdowns \in Nat
  /\ StaleUse \subseteq {"works", "faults"}
  /\ Waits \subseteq {"end", "last"}
  /\ ClientLock \subseteq {"enters", "hangs", "faults"}

VARIABLES
  life,       \* connection -> "none", "open", "freed", or of an object that
              \* was freed in its handshake: "void", then "loose"
  listed,     \* connections that their table may still point to
  strayed,    \* history: those freed by the removal of another connection
  remote,     \* connection -> whether its remote is there
  realm,      \* connection -> info.realm
  eventType,  \* connection -> overlap.eventType
  header,     \* connection -> the command code in bufferMemory
  posted,     \* connection -> receives posted and not completed
  port,       \* the completion port: a queue of packets
  at,         \* worker -> where it is in eventListener
  conn,       \* worker -> the connection whose event it handles
  table,      \* worker -> the table the command names its destination in
  dest,       \* worker -> the destination it looked up
  running     \* FALSE after an access violation

tables == <<life, listed, strayed>>
object == <<tables, realm, eventType>>
locals == <<conn, table, dest>>
vars == <<object, remote, header, posted, port, at, locals, running>>

Packets == [conn : Conns \cup {NoConn}, bytes : {0, 4}]

(* processCommand and the realm switch of each handler.  CONNECT has no    *)
(* default for other realms, the MESSAGE commands rearm there.             *)
Known == {"CONNECT", "MESSAGE", "MESSAGE_SERVICE", "MESSAGE_CLIENT"}
Forwarded == {<<"MESSAGE", "service">>, <<"MESSAGE", "peer">>,
              <<"MESSAGE_SERVICE", "service">>,
              <<"MESSAGE_CLIENT", "service">>, <<"MESSAGE_CLIENT", "client">>}
Refused == {"CONNECT"} \X {"peer", "client"} \cup
           {<<"MESSAGE", "client">>, <<"MESSAGE_CLIENT", "peer">>} \cup
           {"MESSAGE_SERVICE"} \X {"peer", "client"}
Rearmed == (Known \ {"CONNECT"}) \X {"uninit"}
Connects == {<<"CONNECT", "service">>}

(* Commands that are neither answered nor followed by another receive.     *)
Ignored(k, m) == <<k, m>> \notin Forwarded \cup Refused \cup Rearmed \cup Connects

(* sendMessageOut asks getConnectionFromPeerID, which looks into the table *)
(* of the services as well.                                                *)
TableFor(k, m) == IF k = "MESSAGE_CLIENT" /\ m = "service" THEN "client" ELSE "service"

InPort(c) == \E i \in 1 .. Len(port) : port[i].conn = c

(* The object has been freed; its socket is open.                          *)
Freed(c) == life[c] \in {"void", "loose", "freed"}
Connected(c) == life[c] \in {"open", "loose"}

(* The table of realm k may point to d: initializeNewTCPConnection does    *)
(* not ask in which table a connection is.                                 *)
InTable(d, k) == realm[d] \in {k, "uninit"}

(* The worker has the event of c and has not posted c's receive again; if  *)
(* it is "stuck" it never will.                                            *)
Holding == {"process", "fields", "body", "rearm", "failed", "stuck"}
Holds(w, c) == conn[w] = c /\ at[w] \in Holding

-----------------------------------------------------------------------------

Init ==
  /\ life = [c \in Conns |-> "none"]
  /\ listed = {}
  /\ strayed = {}
  /\ remote = [c \in Conns |-> TRUE]
  /\ realm \in [Conns -> Realms]
  /\ eventType \in [Conns -> EventTypes]
  /\ header = [c \in Conns |-> CHOOSE k \in Commands : TRUE]  \* written before it is read
  /\ posted = [c \in Conns |-> 0]
  /\ port = <<>>
  /\ at = [w \in Workers |-> "wait"]
  /\ conn = [w \in Workers |-> NoConn]
  /\ table = [w \in Workers |-> "service"]
  /\ dest = [w \in Workers |-> NoConn]
  /\ running = TRUE

-----------------------------------------------------------------------------
(* The accept thread, the remotes and the completion port.                 *)

(* A step that uses the objects of some connections, freed or not.         *)
Use(some) ==
  /\ running
  /\ running' \in IF \E c \in some : Freed(c) THEN {how = "works" : how \in StaleUse} ELSE {TRUE}

(* A connection enters the port and its first receive is posted, or the    *)
(* remote is gone and WSARecv fails.  The object may have been freed.      *)
Register(c) ==
  /\ life[c] \in {"none", "void"}
  /\ Use({c})
  /\ life' = [life EXCEPT ![c] = IF @ = "void" THEN "loose" ELSE "open"]
  /\ listed' = IF life[c] = "void" THEN listed ELSE listed \cup {c}
  /\ \/ posted' = [posted EXCEPT ![c] = @ + 1] /\ UNCHANGED remote
     \/ remote' = [remote EXCEPT ![c] = FALSE] /\ UNCHANGED posted
  /\ UNCHANGED <<strayed, realm, eventType, header, port, at, locals>>

(* The header of a command has arrived.                                    *)
Receive(c) ==
  /\ running
  /\ posted[c] > 0
  /\ Connected(c)
  /\ remote[c]
  /\ \E k \in Commands : header' = [header EXCEPT ![c] = k]
  /\ posted' = [posted EXCEPT ![c] = @ - 1]
  /\ port' = Append(port, [conn |-> c, bytes |-> 4])
  /\ UNCHANGED <<object, remote, at, locals, running>>

HangUp(c) ==
  /\ running
  /\ Connected(c)
  /\ remote[c]
  /\ remote' = [remote EXCEPT ![c] = FALSE]
  /\ UNCHANGED <<object, header, posted, port, at, locals, running>>

(* The receive ends with no bytes: the remote hung up, or the socket was   *)
(* closed under it.                                                        *)
ReceiveNothing(c) ==
  /\ running
  /\ posted[c] > 0
  /\ Connected(c) => ~ remote[c]
  /\ posted' = [posted EXCEPT ![c] = @ - 1]
  /\ port' = Append(port, [conn |-> c, bytes |-> 0])
  /\ UNCHANGED <<object, remote, header, at, locals, running>>

(* closeWorkerThreads: shutdownOverlap keeps event type 0, "accept", since *)
(* initSocketLib returns before it is assigned.                            *)
CloseWorkerThreads ==
  /\ running
  /\ Cardinality({i \in 1 .. Len(port) : port[i].conn = NoConn}) < MaxShutdowns
  /\ port' = Append(port, [conn |-> NoConn, bytes |-> 0])
  /\ UNCHANGED <<object, remote, header, posted, at, locals, running>>

-----------------------------------------------------------------------------
(* The workers.                                                            *)

Goto(w, place) == at' = [at EXCEPT ![w] = place]

(* Fault: the worker keeps the destination of the command before.          *)
FinishStale(w) ==
  /\ Goto(w, "wait")
  /\ conn' = [conn EXCEPT ![w] = NoConn]
  /\ table' = [table EXCEPT ![w] = "service"]
  /\ UNCHANGED dest

Leave(w, place) ==
  /\ Goto(w, place)
  /\ conn' = [conn EXCEPT ![w] = NoConn]
  /\ table' = [table EXCEPT ![w] = "service"]
  /\ dest' = [dest EXCEPT ![w] = NoConn]

Finish(w) == Leave(w, "wait")

(* The worker exits, or waits for ever with the receive posted again.      *)
End(w) == Leave(w, "ended")

(* rearmListenSocket: WSARecv fails on a closed socket, and may fail on    *)
(* one whose remote has gone; its result is used by nobody.                *)
Rearm(c) ==
  \/ Connected(c) /\ posted' = [posted EXCEPT ![c] = @ + 1]
  \/ (~ Connected(c) \/ ~ remote[c]) /\ UNCHANGED posted

(* What overlap.eventType is read as: of a freed object it may be anything.*)
EventOf(c) == IF Freed(c) THEN {"accept", "listen", "other"} ELSE {eventType[c]}

(* Fault: a dropped event is followed by another receive, which takes the  *)
(* rest of the command for the next header.                                *)
TakeAcceptArmed(w) ==
  /\ running
  /\ at[w] = "wait"
  /\ port # <<>>
  /\ \/ Head(port).conn = NoConn /\ UNCHANGED posted
     \/ \E c \in Conns : Head(port).conn = c /\ "accept" \in EventOf(c) /\ Rearm(c)
  /\ port' = Tail(port)
  /\ UNCHANGED <<object, remote, header, at, locals, running>>

(* GetQueuedCompletionStatus returned the packet at the head of the port.  *)
Take(w, c, type) ==
  /\ at[w] = "wait"
  /\ port # <<>>
  /\ Head(port).conn = c
  /\ IF c = NoConn THEN type = "accept" /\ Use({}) ELSE type \in EventOf(c) /\ Use({c})
  /\ port' = Tail(port)

TakeAccept(w) ==
  /\ \E c \in Conns \cup {NoConn} : Take(w, c, "accept")
  /\ UNCHANGED <<object, remote, header, posted, at, locals>>

(* An event of no type there is: the worker exits.                         *)
TakeOther(w) ==
  \E c \in Conns :
    /\ Take(w, c, "other")
    /\ End(w)
    /\ UNCHANGED <<object, remote, header, posted>>

TakeListen(w, c) ==
  /\ Take(w, c, "listen")
  /\ Goto(w, "process")
  /\ conn' = [conn EXCEPT ![w] = c]
  /\ UNCHANGED <<listed, strayed, realm, eventType, remote, posted, table, dest>>

TakeCommand(w) ==
  \E c \in Conns :
    /\ TakeListen(w, c)
    /\ Head(port).bytes > 0
    /\ UNCHANGED <<life, header>>

(* Fault: nothing is disposed of.                                          *)
TakeHangUpKeeping(w) ==
  \E c \in Conns :
    /\ TakeListen(w, c)
    /\ Head(port).bytes = 0
    /\ UNCHANGED life
    /\ \E k \in Commands : header' = [header EXCEPT ![c] = k]

(* closeConnection frees the object and leaves it in its table.  The       *)
(* worker goes on to process the command in its header: one of before, or  *)
(* anything.                                                               *)
TakeHangUp(w) ==
  \E c \in Conns :
    /\ TakeListen(w, c)
    /\ Head(port).bytes = 0
    /\ life' = [life EXCEPT ![c] = "freed"]
    /\ \E k \in Commands : header' = [header EXCEPT ![c] = k]

Processing(w, treatments) ==
  at[w] = "process" /\ <<header[conn[w]], realm[conn[w]]>> \in treatments

Ignore(w) ==
  /\ at[w] = "process"
  /\ Ignored(header[conn[w]], realm[conn[w]])
  /\ Use({conn[w]})
  /\ Finish(w)
  /\ UNCHANGED <<object, remote, header, posted, port>>

RearmOnly(w) ==
  /\ Processing(w, Rearmed)
  /\ Use({conn[w]})
  /\ Rearm(conn[w])
  /\ Finish(w)
  /\ UNCHANGED <<object, remote, header, port>>

(* Fault: a command that is not allowed is answered and no more.           *)
RefuseOnly(w) ==
  /\ Processing(w, Refused)
  /\ Use({conn[w]})
  /\ Goto(w, "error")
  /\ UNCHANGED <<object, remote, header, posted, port, locals>>

Refuse(w) ==
  /\ Processing(w, Refused)
  /\ Use({conn[w]})
  /\ Rearm(conn[w])
  /\ Goto(w, "error")
  /\ UNCHANGED <<object, remote, header, port, locals>>

(* removePeer and removeService free what their table has under the ID     *)
(* that the worker's connection was given: itself, another that is served  *)
(* or in its handshake,                                                    *)
RemoveFound(w, d) ==
  /\ realm[conn[w]] \in {"peer", "service"}
  /\ InTable(d, realm[conn[w]])
  /\ "end" \in Waits
  /\ Use({conn[w], d})
  /\ \/ d \in listed /\ life' = [life EXCEPT ![d] = "freed"]
     \/ life[d] = "none" /\ life' = [life EXCEPT ![d] = "void"]
  /\ listed' = listed \ {d}
  /\ strayed' = IF d = conn[w] THEN strayed ELSE strayed \cup {d}

(* or nobody.                                                              *)
Remove(w) ==
  \/ Use({conn[w]}) /\ UNCHANGED tables
  \/ \E d \in Conns : RemoveFound(w, d)

(* sendDisconnect: the worker may wait for ever for the connection's       *)
(* mutex, for the section of the table, or, when a service was removed,    *)
(* for that of the service string.                                         *)
DisconnectStuck(w) ==
  /\ "last" \in Waits
  /\ \/ Use({conn[w]}) /\ UNCHANGED tables
     \/ realm[conn[w]] = "service" /\ \E d \in Conns : RemoveFound(w, d)
  /\ Goto(w, "stuck")
  /\ UNCHANGED locals

(* Fault: the receive is posted before the rest of the command is read.    *)
ConnectArmed(w) ==
  /\ Processing(w, Connects)
  /\ Rearm(conn[w])
  /\ Remove(w)
  /\ Finish(w)
  /\ UNCHANGED <<realm, eventType, remote, header, port>>

(* recvConnect passes a byte of its buffer where its address is meant: the *)
(* receive fails, and trySockRecv disconnects the service.                 *)
Connect(w) ==
  /\ Processing(w, Connects)
  /\ \/ Remove(w) /\ Finish(w)
     \/ DisconnectStuck(w)
  /\ UNCHANGED <<realm, eventType, remote, header, posted, port>>

(* Fault: the receive is posted before the rest of the command is read.    *)
ForwardArmed(w) ==
  /\ Processing(w, Forwarded)
  /\ Use({conn[w]})
  /\ Rearm(conn[w])
  /\ table' = [table EXCEPT ![w] = TableFor(header[conn[w]], realm[conn[w]])]
  /\ Goto(w, "fields")
  /\ UNCHANGED <<object, remote, header, port, conn, dest>>

Forward(w) ==
  /\ Processing(w, Forwarded)
  /\ Use({conn[w]})
  /\ table' = [table EXCEPT ![w] = TableFor(header[conn[w]], realm[conn[w]])]
  /\ Goto(w, "fields")
  /\ UNCHANGED <<object, remote, header, posted, port, conn, dest>>

(* trySockRecv, for the fields of the command and then for its message     *)
RecvPart(w, part, next) ==
  /\ at[w] = part
  /\ \/ /\ Connected(conn[w])
        /\ Use({conn[w]})
        /\ Goto(w, next)
        /\ UNCHANGED <<tables, locals>>
     \/ /\ Remove(w)
        /\ Goto(w, "failed")
        /\ UNCHANGED locals
     \/ DisconnectStuck(w)
  /\ UNCHANGED <<realm, eventType, remote, header, posted, port>>

RecvFields(w) == RecvPart(w, "fields", "body")
RecvBody(w) == RecvPart(w, "body", "rearm")

RearmThen(w, place, next) ==
  /\ at[w] = place
  /\ Use({conn[w]})
  /\ Rearm(conn[w])
  /\ Goto(w, next)
  /\ UNCHANGED <<object, remote, header, port, locals>>

RearmReceived(w) == RearmThen(w, "rearm", "lookup")

(* The receive failed: it is posted again, on a connection that            *)
(* trySockRecv removed if it was a peer or a service.                      *)
RearmFailed(w) == RearmThen(w, "failed", "error")

SendError(w) ==
  /\ at[w] = "error"
  /\ Use({conn[w]})
  /\ Finish(w)
  /\ UNCHANGED <<object, remote, header, posted, port>>

(* The ID of the sender is put into the message, and the destination       *)
(* looked up by an ID that may be nobody's, or not the one it should be.   *)
Lookup(w) ==
  /\ at[w] = "lookup"
  /\ Use({conn[w]})
  /\ IF table[w] = "client" THEN "enters" \in ClientLock ELSE "end" \in Waits
  /\ \/ Goto(w, "error") /\ UNCHANGED dest
     \/ \E d \in listed :
          /\ InTable(d, table[w])
          /\ dest' = [dest EXCEPT ![w] = d]
          /\ Goto(w, "send")
  /\ UNCHANGED <<object, remote, header, posted, port, conn, table>>

(* The section of the clients was never initialised; that of the services, *)
(* or of the peers, may be leaked.                                         *)
LookupStuck(w) ==
  /\ running
  /\ at[w] = "lookup"
  /\ IF table[w] = "client"
     THEN \E how \in ClientLock \ {"enters"} : running' = (how = "hangs")
     ELSE "last" \in Waits /\ UNCHANGED running
  /\ End(w)
  /\ UNCHANGED <<object, remote, header, posted, port>>

(* sockSend to the destination; how it ends is used by nobody.             *)
Send(w) ==
  /\ at[w] = "send"
  /\ Use({dest[w]})
  /\ Finish(w)
  /\ UNCHANGED <<object, remote, header, posted, port>>

(* sockSend waits for ever for the mutex.                                  *)
SendStuck(w) ==
  /\ "last" \in Waits
  /\ \/ at[w] = "error" /\ Use({conn[w]})
     \/ at[w] = "send" /\ Use({dest[w]})
  /\ End(w)
  /\ UNCHANGED <<object, remote, header, posted, port>>

Worker(w) ==
  \/ TakeAccept(w) \/ TakeOther(w) \/ TakeCommand(w) \/ TakeHangUp(w)
  \/ Ignore(w) \/ RearmOnly(w) \/ Refuse(w) \/ Connect(w) \/ Forward(w)
  \/ RecvFields(w) \/ RecvBody(w) \/ RearmReceived(w) \/ RearmFailed(w)
  \/ SendError(w) \/ Lookup(w) \/ LookupStuck(w) \/ Send(w)
  \/ SendStuck(w)

Next ==
  \/ \E c \in Conns : Register(c) \/ Receive(c) \/ HangUp(c) \/ ReceiveNothing(c)
  \/ CloseWorkerThreads
  \/ \E w \in Workers : Worker(w)

Spec == Init /\ [][Next]_vars

(* The system runs every worker that has a step to make; one that waits    *)
(* for ever is "stuck" or "ended" and has none, and what lies within a     *)
(* step ends: recv() and send() return after 5 s on the accepted sockets.  *)
(* The system reports a hang-up.  Nothing is assumed of the remotes.       *)
Fairness ==
  /\ \A w \in Workers : WF_vars(Worker(w))
  /\ \A c \in Conns : WF_vars(ReceiveNothing(c))

FairSpec == Spec /\ Fairness

-----------------------------------------------------------------------------

Places == {"wait", "error", "lookup", "send", "ended"} \cup Holding

TypeOK ==
  /\ life \in [Conns -> {"none", "void", "open", "loose", "freed"}]
  /\ listed \subseteq Conns
  /\ strayed \subseteq Conns
  /\ remote \in [Conns -> BOOLEAN]
  /\ realm \in [Conns -> Realms]
  /\ eventType \in [Conns -> EventTypes]
  /\ header \in [Conns -> Commands]
  /\ posted \in [Conns -> Nat]
  /\ port \in Seq(Packets)
  /\ at \in [Workers -> Places]
  /\ conn \in [Workers -> Conns \cup {NoConn}]
  /\ \A w \in Workers : conn[w] = NoConn <=> at[w] \in {"wait", "ended"}
  /\ table \in [Workers -> {"client", "service"}]
  /\ dest \in [Workers -> Conns \cup {NoConn}]
  /\ \A w \in Workers : at[w] = "send" <=> dest[w] # NoConn
  /\ running \in BOOLEAN

Once(c) == \A i, j \in 1 .. Len(port) : port[i].conn = c /\ port[j].conn = c => i = j

(* The bytes of a connection go to one reader at a time, in their order:   *)
(* its receive is posted once, or its completion is queued once, or one    *)
(* worker holds it, and never two of these.                                *)
OneReader ==
  \A c \in Conns :
    /\ posted[c] <= 1
    /\ posted[c] = 1 => ~ InPort(c)
    /\ Once(c)
    /\ \A w \in Workers : Holds(w, c) => posted[c] = 0 /\ ~ InPort(c)
    /\ \A w, v \in Workers : Holds(w, c) /\ Holds(v, c) => w = v

Attended(c) == posted[c] > 0 \/ InPort(c) \/ \E w \in Workers : Holds(w, c)
Unheard(c) ==
  \/ eventType[c] = "accept"
  \/ ~ remote[c]
  \/ Ignored(header[c], realm[c])
  \/ <<header[c], realm[c]>> \in Connects

(* An open connection that nobody listens to any more, and no worker deals *)
(* with or is stuck with, has hung up, or its events are dropped, or the   *)
(* last it sent was a command that processCommand ignores, or a CONNECT    *)
(* whose removal did not find it: no other path forgets to listen again.   *)
ListenedTo ==
  \A c \in Conns : life[c] = "open" /\ ~ Attended(c) => Unheard(c)

(* The handler that frees its own connection leaves nothing behind: no     *)
(* receive into the freed buffer is posted, then or by a later step, and   *)
(* no completion that carries the freed overlap waits in the port.  (Of a  *)
(* connection that the removal of another frees, by an ID that is not its  *)
(* own, the receive is usually posted.)                                    *)
NothingPendingOnFreed ==
  \A c \in Conns : life[c] = "freed" /\ c \notin strayed => posted[c] = 0 /\ ~ InPort(c)

(* What the invariants need to be inductive.                               *)
FreshInv ==
  \A c \in Conns :
    life[c] \in {"none", "void"} =>
      c \notin listed /\ posted[c] = 0 /\ ~ InPort(c) /\ \A w \in Workers : ~ Holds(w, c)
StrayInv == \A c \in Conns : life[c] \in {"void", "loose"} => c \in strayed

IInv == TypeOK /\ OneReader /\ ListenedTo /\ NothingPendingOnFreed /\ FreshInv /\ StrayInv

(* The receive of each connection as a baton.                              *)
Where(c) ==
  IF life[c] \in {"none", "void"} THEN "none"
  ELSE IF posted[c] > 0 THEN "posted"
  ELSE IF InPort(c) THEN "queued"
  ELSE IF \E w \in Workers : Holds(w, c) THEN CHOOSE w \in Workers : Holds(w, c)
  ELSE "dropped"

receiver == [c \in Conns |-> Where(c)]

Receiver == INSTANCE Baton WITH Owners <- Conns, Hands <- Workers, baton <- receiver

(* Each connection's receive is handed on as a baton is, and a connection  *)
(* once dropped is never read from again.                                  *)
ImplementsBaton == Receiver!Spec

Stopped == ~ running \/ \A w \in Workers : at[w] \in {"stuck", "ended"}

(* A connection whose remote hangs up while it is listened to is closed    *)
(* and freed, unless the daemon crashed or no worker is left: not one      *)
(* hang-up is lost, whatever the workers wait for.                         *)
HangUpDisposed ==
  \A c \in Conns :
    (life[c] = "open" /\ posted[c] > 0 /\ ~ remote[c] /\ eventType[c] = "listen")
      ~> (life[c] = "freed" \/ Stopped)

(* sock.c:247: "Recieved data on one of the sockets that are listening":   *)
(* a command that arrived is processed.                                    *)
CommandIn(c) == \E i \in 1 .. Len(port) : port[i] = [conn |-> c, bytes |-> 4]
CommandsProcessed ==
  \A c \in Conns : CommandIn(c) ~> (Stopped \/ \E w \in Workers : conn[w] = c)

(* sock.c:249: "the connection was closed. dispose of it": what has been   *)
(* disposed of is not used.                                                *)
Using == {"process", "fields", "body", "rearm", "failed", "error", "lookup"}
DisposedNotUsed ==
  \A w \in Workers :
    /\ at[w] \in Using => ~ Freed(conn[w])
    /\ at[w] = "send" => ~ Freed(dest[w])

=============================================================================
