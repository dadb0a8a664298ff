# Verification of the Polymorphic daemon

Polymorphic is a message-switching peer-to-peer daemon written in C on Win32
sockets and completion ports. Remote peers, local services and local clients
connect to one listening socket; services and clients exchange messages with
services of other peers through the daemon. This directory models the daemon in
TLA+, checks the models with TLC on small instances, and proves the most
important results with TLAPS for every value of the constants.

Paths below are relative to `src/`; `sock.c`, `sock_datatypes.c` and `utils.c`
are in `Polymorphic-Win/`, the other sources in `Polymorphic/`.

## 1. Inventory

### 1.1 The parts

| Part | Code | State | Operations |
|---|---|---|---|
| Connection arrays | `sock_datatypes.c` 1-115 | a vector of pointers to `POLYM_CONNECTION`, `size`, `count`, `nextIndex`; one array each for peers, services and clients | init, extend, allocate, get, get_all, free |
| Connection tables | `sock.c` 80-105, 300-575 | the three arrays, their critical sections, the combined service string and its section | allocateNewX, freeX, removeX, getConnectionFromXID, getCurrentXConnections, closeConnection, rebuildServiceString |
| Accept loop and incoming handshake | `sock.c` 716-772, `connections.c` 1-155 | `numConnections`, `isShutdown`, the sockets in a handshake | accept, refuse, greet, negotiate, allocate, reply, register, close |
| Event loop | `sock.c` 226-302, 619-634 | the completion port, up to 30 worker threads, per connection one overlap and one header buffer | take an event, dispose of a connection, post a receive again, shutdown events |
| Commands | `commands.c` | none of its own; reads the tables | CONNECT, MESSAGE, MESSAGE_SERVICE, MESSAGE_CLIENT, DISCONNECT, ERROR |
| Synchronous sends | `sock.c` 121-192 | per connection a mutex; the socket | sockSend, tcpSend, sockRecv |
| Asynchronous sends, message buffers | `sock_datatypes.c` 117-209, `sock.c` 194-223, 258-265 | an array of send buffers | allocate, extend, sockSendAsync, completion, free |
| Service strings | `sock_datatypes.c` 211-295, `sock.c` 303-317, 534-548 | an array of string objects | allocate, free, exists |
| Self-filling integer array | `vector.c` 186-380 | members, holes, a stack of vacancies, two capacities | init, append, push, delete, find, set, trim |
| Wire conversions | `utils.c` | none | insert and get shorts and longs, with and without byte order |
| Outgoing connections | `connections.c` 157-258, `sock.c` 583-713 | slots of the peer table; the lists of connected peers and services | initializeOutgoingConnection, openNewTCPConnection, connectServiceToPeer, addressConnected |
| Start and shutdown | `sock.c` 52-72, 774-871, `main.c` | winsock, the threads, `isShutdown` | startListenSocket, closeListenSocket, closeWorkerThreads |
| Connection timers | `sock.c` checkAlive, newConnectionTimeout | a timer queue | never registered |
| Simple vectors | `vector.c` 1-185 | | no callers in the daemon |

### 1.2 How they interact

- The **main thread** starts the daemon, then one accept thread and the workers,
  and at the end calls `closeListenSocket`: it sets `isShutdown` and tears winsock down.
- The **accept thread** runs the whole handshake of one connection after the
  other: it counts the connection, takes a slot of the table of its realm,
  answers, and hands the socket to the completion port with a first receive posted.
- The **workers** take completed receives from the port, run the command in the
  received header, post the next receive and send on connections they look up by
  ID. They add and remove connections too.
- The **tables** are the shared state. Each function enters the critical section
  of its table, but what it returns is a bare pointer that is used afterwards.
- The **arrays** below them are sequential: they rely on the tables' sections, and
  the message buffers on a section of their own.
- **sockSend** runs in any thread; the mutex of the connection keeps the bytes of
  two messages apart.

### 1.3 What is hard here

- Interleavings of the accept thread, the workers and the shutdown: lookups whose
  result outlives the section, removals that free objects, sections that are left
  late, never, or in the name of another.
- A connection handed from worker to worker through the completion port: the
  receive is posted again in the middle of a handler, on each of its paths.
- A handshake that fails after any of its steps, with something taken at each.
- Remotes that stall or hang up: the accept thread serves one at a time and waits
  5 s at most; a worker that sends may wait for a remote that does not read.
- Messages that `send()` takes in pieces, from several workers, on one connection.
- Long sequences of legal calls: arrays that grow, shrink, trim and reuse slots.
- Limits: 500 connections, 10 service strings, 10 message buffers, a full array,
  capacity 0, IDs that a `uint8_t` or `uint16_t` cuts off, -1 in an unsigned index.

The list of single hazards, with their lines and the properties that would
notice each one going wrong, is `hazards` in `PROJECT.json`.

### 1.4 What makes each part correct

- **Arrays**: an object has one owner; a free slot is found, the lowest first; a slot taken
  can be given back; a list is complete or says it is not.
- **Tables**: whoever changes a table is alone in it; a lookup finds the realm it
  asks for, and an object that exists and is not freed in use; nobody waits for ever.
- **Accept loop**: the budget is never exceeded; every socket is closed or
  registered; what a remote was told is what becomes of it; a stalled remote
  stalls nobody for ever; a shutdown ends the loop.
- **Integer array**: what was added is found at its index until it is set or deleted;
  writes stay inside the memory.
- **Event loop, commands**: the bytes of a connection are read by one reader at a
  time; no handler forgets to listen again; a connection is disposed of when its
  remote hangs up, and nothing is completed into what was freed; data received is
  processed.
- **Sends**: the remote end reads the messages that were sent, whole and one after the
  other; who waits for a connection waits for a remote, not for the daemon.
- **Message buffers**: a buffer belongs to one send until its completion, and comes back.
- **Conversions**: what is inserted is what is got.

## 2. Plan

The modules, most important behaviour first; all of them are done.

| Module | Composes | Abstract specification |
|---|---|---|
| `ConnectionArray` | an array and its owners | `SlotPool`: the lowest free slot, and the one given back is free again |
| `AcceptLoop` | the handshake, the tables as counters, the service strings as a counter, the shutdown | `FrontDoor`: remotes in one line, served one by one, so many and no more |
| `ConnectionTables` | arrays (as sets of IDs), sections, freed objects | |
| `EventLoop` | completion port, workers, commands, remotes, freed objects | `Baton`: the receive of a connection, handed on |
| `SockSend` | workers, mutexes, sockets, the conversions of `Codec` | `AtomicSend`: a message goes out whole and at once |
| `BufferArray` | array, senders, completions | `IdPool`: a buffer nobody else has, the lowest free one |
| `IntArray` | | `SlotMap`: a map from returned indexes to values |
| `Codec` | | |

Each component has its theorems in a module `...Proofs` (section 6) and a module
`MC...` with its instance for TLC. What is left out, and why, is section 7: outgoing
connections, which nothing reaches, are the largest part of it. Were they made to
work, their module would come next, with `IntArray` for the lists of connected
peers; and then the composition of `EventLoop` with `ConnectionTables`, for which
`EventLoop` now has `listed`, the part of a table its handlers change.

## 3. Modules and code

Actions have the names of the functions or of the steps of the handlers they
model; `map` in `PROJECT.json` gives the lines of every definition. Operators
whose comment begins with "Fault" are no part of any model: each is a plausible
mistake in the definition after it, used to confirm that a property depends on
that definition.

### ConnectionArray, SlotPool

One array with its owners, the connections that take a slot, fill it in and give
one back by ID. An object is a heap object: `<<slot, size of the array when it was
made>>`, so replacing it is visible. `connection_array_extend` starts its loop
at `oldsize - 1` and thereby replaces the object of the last old slot; such slots
are the `Seams`. `info.realm` is a `uint8_t`, so the -2 written into it reads
back as 254 (`AsUint8`) and is never equal to `POLY_REALM_UNINIT`. Each
operation is one action because the table's section encloses it.

`allocateNewX` returns its ID as `(*(POLYM_CONNECTION**)out)->index`, where `out` holds
the address of the object's `info`: it reads an `int` beyond the object. What lies
there may be anything (`StrayIds`), or, where the build's layout has it so, the index itself;
`Claim` gives an owner any of these. The owner frees by the ID it was told, while its
handshake runs, or by the one written into its object (`FreedIds`), and `Release` frees
whatever the table has under that ID: its own slot, another's, or none. `robbed`, a
history variable, remembers whose slot was freed by another's call.

`AllocateFound` is the scan that finds a slot, `AllocateGrowing` the one that
does not, with the extension and the second scan; `Ready` the write of the ID and the
realm through the owner's pointer; `Release` `freeXInternal`.

`SlotPool` is what the table promises as such: the lowest free slot is taken, and what
is given back is free again. It does not ask who gives back, since the table does not.

### AcceptLoop, FrontDoor

`pc` is the place of the accept thread in `acceptNewTCPConnections` and
`initializeIncomingConnection`. The remotes may connect at any time, send late
or never, and come back after having been closed. `Accept` may fail, and its
result is not tested, as in the code. Each receive either gets its bytes or
fails (closed, or 5 s over). `SetShutdown` and `Cleanup` are the two statements
of `closeListenSocket`, at any time between any two steps of the accept thread.
Sends to a closed socket fail; sends to an open one may.

Some steps have undefined behaviour, and their outcomes are constants:

| Constant | The code | Outcomes |
|---|---|---|
| `StackAsConnection` | `&socket` passed where a `POLYM_CONNECTION*` is expected: the bytes behind a local are read as protocol and mutex | read as TCP, as another protocol, a mutex that hangs or faults |
| `ClientLock` | entering `clientConnectionsCriticalSection`, which `startListenSocket` never initialises (it initialises the services' twice) | enters, hangs, faults |
| `StrayWrite` | the received string, written into 256 bytes whatever its length, and the uninitialised pointer that the loop registers | kept, faults |

The theorems hold for every choice of outcomes.

The peers', services' and clients' tables are counters here (`slots`), because
the handshake only takes slots and frees them by an ID read from outside the
object (`FreeByGarbageId`: some connection of that realm, or none). A service whose
result code could not be sent is freed and yet registered by the loop, since the
handshake then returns the realm; the model does that too.

`FrontDoor` is what the remotes are promised: one line, and one at a time at the
door, called in the order they came; nobody is called before the one at the
door was let in or dismissed; and there are never more than `Capacity` inside. The line
is the backlog, who is at the door is `socket` between `Accept` and the end of its
handshake (`AtDoor`), and inside are the registered connections. A registered connection
is `armed`, or `deaf`: the results of `CreateIoCompletionPort` and `WSARecv` are not
tested, so a connection whose remote has reset it since stays open without a receive.

### IntArray, SlotMap

`data`, `size`, `capacity`, `count` and the stack of vacancies, one action per
function of `vector.c`, with arguments out of range and with the hole mark
itself. `int_array_set` answers `true` for most refusals because -1 is returned
as a `bool`; the model keeps that. `ret` is the last answer, so that the map can
speak of it. An array extended from capacity 0 (an empty trimmed one) gets the
initial capacity first.

### ConnectionTables

The functions of `sock.h` over the tables of peers and of services, called by any
thread, with the critical sections as recursive locks (`owner`, `depth`). The
table of clients has the same code as the one of peers. An array is reduced to
the set of `taken` IDs, its lowest free one being allocated, which is what
`ConnectionArray` shows of it. `freed` are the IDs whose slot still points to an
object `closeConnection` gave to `free()`; the index read from it may be
anything (`Readings`). What the code does with its sections is kept:

- `freePeer` and `freeService` return before they leave their section;
- `removePeer` and `removeService` do when the ID is not there;
- `getConnectionFromPeerID` looks into the table of the services;
- `rebuildServiceString` enters the section of the string and leaves that of the
  services. What leaving a section one does not own does is the constant
  `ForeignLeave`: an entry of its owner is undone and the section free after the last
  (`released`, which is what Windows does to a section that is owned), nothing, or the
  section is broken for good (it is undefined, and worse for a section nobody owns).

`closeConnection` also frees `buffer.buf`, which points into the object; the
builds followed here ignore that (otherwise the process ends there).

### EventLoop, Baton

The completion port (`port`, a queue of packets), the workers and the commands they
run, on connections whose remotes may send commands and hang up at any time. A
worker is at one place of `eventListener` and of the handler it runs (`at`):
`wait` in `GetQueuedCompletionStatus`, `process` the switches of `processCommand` and of
the handler, `fields` and `body` the two receives of the rest of a command, `rearm`
and `failed` the two calls of `rearmListenSocket` after them, `lookup` and `send` the
forwarding, `error` the answer. The steps are the places at which another thread
may come between.

- `posted`, `port` and `header` are what a connection has one of: a receive, its
  completion and `bufferMemory`. That there is never more than one of them in use is
  what `OneReader` says, not how the model is built: `posted` is a number.
- The handlers share their form; what differs is which pairs of command and realm are
  forwarded, refused, rearmed, or ignored (`Forwarded`, `Refused`, `Rearmed`,
  `Ignored`). CONNECT has no default for other realms: it is ignored there.
- `RecvPart` is `trySockRecv`. A failure disconnects: `sendDisconnect` sends four bytes and
  compares with six, so it is never graceful, and `removeConnection` (`Remove`) asks for
  the removal of peers and services, and does nothing with others. The handler then
  posts a receive and answers on the connection all the same.
- The ID by which `Remove` asks is the garbage of `allocateNewX`, or shared since an extension.
  So it frees the worker's own connection, any other the table may point to, one that is
  still in its handshake (`void`, which the accept thread then registers: `loose`), or
  none. `strayed`, a history variable, remembers those freed by another's removal. The
  table may point to all that were registered and not removed (`listed`), in any table
  where the realm was overwritten by UNINIT (`InTable`).
- `Register` may fail to post the first receive, because the remote is gone.
- `TakeHangUp`: the object is freed and stays in its table (`listed`), and the worker goes
  on to process a command from its header.
- `recvConnect` passes a byte of its buffer where its address is meant, so its receive
  always fails and the service is removed (`Connect`).
- The event type is read from the overlap of the connection, which may have been freed by
  another's removal while a completion was queued: `EventOf` is then anything, and with a
  type there is not the worker exits (`TakeOther`).
- A worker may wait for ever (`Waits`): for a section that some call leaked, for that of
  the service string when it removed a service (`tables_rebuild`), or for a mutex that was
  broken. It is `stuck` if it holds the receive of its connection, else `ended`
  (`DisconnectStuck`, `LookupStuck`, `SendStuck`).
- Each connection has an object of its own: `Register` is not led astray by the pointer that
  the accept loop never assigns (`sock.c`:753), and neither the memory of a freed object nor
  the number of a closed socket is used anew.
- `StaleUse` is what using a freed object does, `ClientLock` what entering the section
  of the clients does, which nobody initialised.

`initializeNewTCPConnection` gives every connection event type 0, "accept", and realm
UNINIT, so in the daemon as it is no handler runs (`events_data`). `EventTypes` and
`Realms` are constants, so that the handlers are also checked on the connections they
are written for; a run says which it takes.

`Baton` is what the event loop promises: the receive of a connection is posted,
queued, held by one worker, or dropped for good. `receiver` reads it off the state.

### SockSend, Codec, AtomicSend

`sockSend` and `tcpSend` by workers that forward messages, on connections that are
initialised one after the other. A message is its header, the four bytes that
`processCommand` reads first; `Codec` has the conversions of `utils.c` that write and
read them (which, converting twice, put the lower byte first). `wire` is what `send()`
has taken, `said` the messages whose sending has begun. `Transmit` is one `send()` that
takes some of the bytes left; `TransmitFails` one that fails, once or from now on, and
whose -1 the code adds to the index: at 0 that is 2^32 - 1, which ends the loop.

Nobody assigns `connectionMutex`: `InitializeCriticalSection` makes a section wherever
the pointer in the malloc'd object points (`section`, any place), also while a worker
is inside the one of another connection. Connections that share a place, on which a
message was cut short, or on which a failure passed, are not `Sound`: what the
remote end hears there is garbled, and the properties except them.

`AtomicSend` is what the callers of `sockSend` may think: a message goes out whole and
at once, at a moment between the call and its return. A call that returns without
having sent its message leaves the connection garbled, and a failure in the middle
may. The refinement maps the moment at which the last byte is taken to `Deliver`
(`Delivered`), and a connection that is open and `Sound` to a clear line (`Lines`), on
which is heard what the remote end reads header by header, but for a message that is
still being sent (`HeardClearly`).

### BufferArray

The message buffers with their senders: `Allocate` and `Extend` are the two outcomes
of the scan, `SendAsync` is `sockSendAsync`, and `Completed` the case of `eventListener` that
gives the buffer of a completed send back. The extension gives `realloc()` the array
structure, a static variable, so the process ends (`faulted`). The service strings have
the same code, without a free. So far nothing in the daemon allocates a message
buffer; the module is the array with a user who keeps to its interface.

## 4. Runs

| Run | Instance | Shows |
|---|---|---|
| `array` | 3 connections, size 2, extended by 2 up to 6, IDs that read as one's own or as 0 | the invariants of the array over two extensions, refills and frees by wrong IDs, and the refinement of `SlotPool` |
| `array_ids` | the same, every ID one's own | **violated** `IdsUnique`: the extension hands out the last ID again |
| `accept` | 3 remotes, budget 2, 1 string, all outcomes | safety and liveness of the accept loop and the refinement of `FrontDoor` |
| `accept_client` | 2 remotes, budget 2 | **violated** `ClientAnswered`: the uninitialised section may hold the thread for ever |
| `int_array` | 2 values, capacities 0, 1 and 2, 4 members | all properties of the integer array and the refinement of `SlotMap` |
| `tables` | 2 threads, allocate, free, remove, find and the listing by `rebuildServiceString`, 1 ID per table, sections leaked once, every outcome of the wrong leave | types, mutual exclusion among the peers, no circular wait |
| `tables_rebuild` | 2 threads, 1 ID | **violated** `RebuildCompletes` |
| `events` | 2 connections, one of them a service, 2 workers, event type "listen", 3 realms, CONNECT and MESSAGE_CLIENT, waits that end or last | safety and liveness of the event loop and the refinement of `Baton` |
| `events_data` | 2 connections, 2 workers, event type "accept" | **violated** `CommandsProcessed`: a command is dropped |
| `events_in_use` | the same with "listen" | **violated** `DisposedNotUsed`: a freed connection is used |
| `buffers` | 5 senders, 4 buffers | all properties of the buffers and the refinement of `IdPool` |
| `sends` | 2 workers, 2 connections, 2 places, 2 messages, 3 attempts | the bytes on the wire, the refinement of `AtomicSend`, and who waits for whom |

The violated ones state what a comment or the protocol document says of the
program and what the code does not do; `findings` in `PROJECT.json` quotes both.

### 4.1 The properties that hold

- `HolesOnlyAtSeams`: the scan may start at `nextIndex`, since below it nothing is
  vacant but the slots an extension replaced.
- `TakenIsFound`: a slot that is taken is found by its number, and so can be freed, from
  the moment it is taken. It needs the realm to be a byte: were it an `int`, a slot could
  not be freed before its handshake is over.
- `OnlyTheRobbedShare`: two connections share an object only if the slot of one was freed
  by the other's, or a third's, wrong ID; allocations, frees and extensions, however they
  are mixed, do not bring it about by themselves. Who was not robbed has its object, in
  use and in its slot, unless an extension replaced it there. (An ID may be shared without
  that: `IdsUnique`.)
- `GetAllComplete`: a list is complete unless the overflow code is returned. (The
  converse fails: a full list that is complete may be called an overflow.)
- `ImplementsPool` (array): the lowest free slot is taken, a free by whatever ID frees one
  slot or none, and only a request beyond the capacity is not served so.
- `WithinBudget`: objects of all tables, those leaked by failed handshakes included,
  and registered connections never exceed the connections counted.
- `NoSocketLost`: back at `accept`, each socket is closed or registered, unless a shutdown
  cut in: no failure of a handshake leaves one over. A registered one may be deaf.
- `PassMeansIn`: no later step closes a remote that was sent the code 0; it is registered,
  armed or deaf, or about to be.
- `ImplementsDoor`: nobody overtakes in the line, or comes to the door while another is
  there, on any path out of a handshake, failures and the shutdown included.
- `WaitBounded`: each step of the accept thread brings the turn of every queued connection
  nearer, and nothing moves it away again; a connection waits for at most twelve steps for
  each one before it, silent remotes, failures and later arrivals notwithstanding.
- `EveryoneServed`, `ShutdownEndsLoop`: liveness of the accept loop. A thread that hangs
  or faults on the way has ended, as `Dead` counts. The first is
  `WaitBounded` and the fairness of the accept thread; for the second the bound is the
  theorem `ShutdownIsBounded`, at most twelve steps from the request.
- `InCapacity`, `VacanciesAreHoles`, `CountIsUsed`, `ImplementsMap`: the integer array.
- `PeersAlone`: while a thread changes the table of the peers no other thread is in it, in
  spite of the sections that `freePeer` and `removePeer` leak. The same of both tables,
  `NoRace`, does not hold: when `rebuildServiceString` leaves the section of the services
  while another thread is inside, a third may follow. Section 6 has the theorem about that.
- `WaitsOnlyOnLeaks`: the functions never wait on each other in a circle; who waits
  for ever waits for a section that an earlier call leaked or that was broken. So it
  says nothing of the leaks themselves: for the string's that is `RebuildCompletes`; the
  others are part of the models, and what follows from them is in `EventLoop` (`Waits`).
- `OneReader`: a connection's receive is posted once, or its completion is queued once,
  or one worker holds it; never two of these, so its bytes have one reader.
- `ListenedTo`: an open connection that nobody listens to, and no worker deals or is stuck
  with, has hung up, or gets events of type "accept", or sent a command that
  `processCommand` ignores, or a CONNECT whose removal hit another connection or none.
  Every other path through the handlers posts the receive again.
- `NothingPendingOnFreed`: when a handler frees the connection it has in hand, no receive
  into its buffer is posted, then or by a later step of anybody, and no completion that
  carries its overlap waits in the port: both lie in the object that `closeConnection`
  gives to `free()`, and nothing cancels them. A connection that the removal of another
  frees (`strayed`) usually does have its receive posted; that is what the code does.
- `ImplementsBaton`: the same as a behaviour, and what was dropped is never read again.
- `HangUpDisposed`: a remote that hangs up while it is listened to is disposed of, unless
  the process ended or no worker is left, all being stuck or ended.
- `OneHolder`, `NothingFreeBelow`, `FaultsOnlyWhenFull`, `ImplementsPool` (buffers): a buffer belongs to one sender
  until its completion; whatever the order of the completions, the scan misses no
  free buffer, and the process is only lost to a request beyond the capacity.
- `HeardAsSaid`: on a sound connection the remote end, reading header by header, gets the
  headers that were sent, in the order of the mutex.
- `WholeIfReported`: `sockSend` returns the length of the message only when it is all sent.
- `ImplementsAtomicSend`: whatever the workers do in between, on a clear connection each
  message goes out as if at once, while its caller is in `sockSend`, and a call that
  reports it was not sent leaves no clear connection behind.
- `WaitsOnlyOnSends`: a worker waits for a mutex for ever only behind a `send()` that does
  not return, or for a section that was broken.

### 4.2 Bounds

- Arrays: with size 2, an extension by 2 and three owners an array is filled, extended
  while it holds live connections at the seam, emptied, and extended again. `MaxSize = 6`
  bounds the extensions: frees by wrong IDs leave slots nobody gives back, so that the
  array may grow for ever. `StrayIds = {0}` has an owner free its own slot, another's, or
  one that is vacant. Where it is empty (`array_ids`) every ID is one's own; two owners at
  the seam are what `IdsUnique` needs.
- Accept loop: a third remote queues behind a slow one and one that is in; a budget
  of 2 is filled by two failed handshakes, by two registered connections or by one of each; one
  service string is enough to reach the failing extension.
- Integer array: `MaxSize = 4` is two doublings from capacity 1 and from none, and
  holes at both ends and in the middle. In C the size is bounded by an `int`.
- Tables: `MaxDepth = 1` bounds how often the section of a table is leaked by the thread
  that owns it (`Begin`); a second leak adds nothing but depth. The section of the string
  may be entered any number of times; two entries are counted, since nobody leaves it.
  The lists of peers, and of services but by `rebuildServiceString`, have no callers in the
  daemon and are left out of the run; the theorems have them. `MaxId` bounds the
  IDs followed; a table that is full of them grows beyond, unobserved. One ID per
  table is enough for what the run asks, who is inside which section and what was
  freed; which ID is chosen is `ConnectionArray`'s question, and the theorems
  hold for every `MaxId`.
- Event loop: two workers and two connections, so that a worker may take a
  connection's hang-up while another forwards its command to the other connection,
  or to itself. CONNECT and MESSAGE_CLIENT on services, clients and uninitialised
  connections reach every treatment (forwarded to services and to clients, refused,
  rearmed, ignored, connecting); the other commands repeat these. One of the connections
  is a service (`MCInit`), since only peers and services are removed; that the other
  is of any realm makes it the one that is removed in its stead. `MaxShutdowns = 1`
  bounds the shutdown events in the port at a time; they are dropped. In
  `StaleUse` and `ClientLock` the run leaves out "faults", which only ends the process,
  and so cuts behaviours off.
- Buffers: more senders than buffers, and enough of either for holes in the middle.
- Sends: a message of each of two workers, which may meet on one connection, or two of
  one worker; `MaxAttempts = 3` for the code's 10, so that a message is sent in up to three
  pieces and the attempts run out with part of it sent. More messages one after the other
  add nothing the theorems do not cover. Two places suffice for mutexes apart and in one place.
- Symmetry is used by `array` and `array_ids`, whose owners are alike; the refinement of
  `array` speaks of slots, not of owners. No liveness run uses it.
- The daemon may stop: the accept loop ends at a shutdown or by a fault, threads wait
  for leaked sections, workers wait for events or hang, the buffers' extension ends
  the process, and there are no more messages to send; and an array at `MaxSize` may be
  full of slots that nobody gives back. Those runs do not check for deadlock; `int_array` does.

### 4.3 Fairness

- `AcceptLoop!FairSpec`: weak fairness of the accept thread. None of its calls blocks
  for ever: `accept` has a connection or fails, and `setsockopt` gives the sockets 5 s
  for sends and receives. Weak fairness of `Cleanup`: the main thread goes on
  after it has set the flag. Nothing is assumed of the remotes, nor that a shutdown
  is ever asked for.
- `ConnectionTables!FairSpec`: weak fairness of a thread inside a call, and strong fairness
  of entering a section, since Windows does not pass over a waiting thread for ever.
  No thread has to start a call.
- `EventLoop!FairSpec` (`Fairness`): weak fairness of each worker, that is of its having a step: `send()` and
  `recv()` return after 5 s on the accepted sockets. A worker that waits for ever, for a
  leaked section, a broken mutex or the section of the service string, is `stuck` or `ended`
  and has no step, so fairness does not carry it on; where `Waits` has "last", it may come to
  that at every such wait. Weak fairness too of `ReceiveNothing`, since the system completes the
  receive of a socket whose remote is gone. Nothing is assumed of the remotes.
- `SockSend!FairSpec`: strong fairness of entering a mutex and weak fairness of leaving it.
  `send()` itself gets none: here a send may block for ever, as it does on the
  sockets of outgoing connections and for a mutex whose holder is stuck.

## 5. Findings

Confirmed by a run:

1. `connection_array_extend` replaces a live object: two connections with one ID
   (`array_ids`).
2. The clients' critical section is never initialised (`accept_client`).
3. `rebuildServiceString` leaves the wrong section; its own stays held
   (`tables_rebuild`).
4. The receive of a connection says "accept": commands are dropped (`events_data`).
5. After a hang-up the handler uses the connection it disposed of (`events_in_use`).
   The handler is checked on receives that say "listen", which 4 prevents today.

Part of the models, without a run of their own, since the code does these things on
every path and reading it is enough:

- `numConnections` counts failed and ended handshakes for ever; after 500 the daemon
  refuses everybody (`Admit`, `CloseFailed`).
- A service whose result code could not be sent is registered after it was freed
  (`AcceptLoop!Reply`, `Register`).
- `getConnectionFromPeerID` looks into the services (`TableOfLookup`, `TableFor`).
- The table keeps pointers to freed connections (`freed`, `listed`), and a lookup's result
  is used after its section was left (`Use`, `Send`).
- `allocateNewX` returns an ID read beyond the object, and connections are freed by it
  (`Claim`, `FreedIds`, `RemoveFound`).
- `sock_datatypes.h`:75 calls `count` "the number of messages currently on the array"; it is
  too high by one per extension (`CountDrifts`, theorem `CountIsTooHigh`). Nothing reads it.
- A first receive that fails leaves its connection open and unheard (`AcceptLoop!Register`).
- A CONNECT is followed by no other receive, and its removal may hit another connection
  (`Connect`, `RemoveFound`).
- A worker that reads the event type of a freed connection may exit (`TakeOther`).
- After a failed receive the handler listens and answers on what was removed
  (`RearmFailed`); commands that are ignored end the listening (`Ignored`).
- A shutdown event ends no worker: its event type is never assigned
  (`CloseWorkerThreads`).
- A failed `send()` moves the index back, and the mutex of a connection is wherever
  its memory says (`TransmitFails`, `Open`).
- Of a long that was inserted `getLongFromBuffer` returns the higher half only (theorem
  `LongLosesLowHalf`).

## 6. Proofs

The proof modules prove the safety properties of the passing runs, and all
refinements of abstract specifications, from the assumptions on the constants alone,
for any number of owners, values, remotes, workers, connections, senders and
messages, any sizes, and any outcomes of the undefined steps. Two theorems have a
hypothesis of their own:

- `ConnectionTablesProofs!MutualExclusion` speaks of the behaviours without the step
  `GivesAway`: `rebuildServiceString` leaves the section of the services while another
  thread is inside, and undoes its only entry. It is the one step of the program that can
  break `NoRace`, and Windows takes it, so `NoRace` is no property of the program: no run has it,
  and where the step occurs TLC finds two threads in the table of the services. The types,
  and the table of the peers, need no hypothesis.
- `EventLoopProofs!AsShippedNothingIsHandled` is about the daemon as it is, where every
  connection has the event type "accept".

| Theorem | Statement |
|---|---|
| `ConnectionArrayProofs!TypeCorrect`, `ScanMissesOnlySeams`, `CountIsTooHigh`, `TakenSlotsAreFound`, `SharingNeedsARobbery`, `ListsAreComplete` | the invariants of the array |
| `ConnectionArrayProofs!PoolRefinement` | until it grows the array implements `SlotPool`, and it grows only when it is full |
| `IntArrayProofs!TypeCorrect`, `WritesInCapacity`, `HolesAreListed`, `CountCorrect` | the invariants of the integer array |
| `IntArrayProofs!MapRefinement` | the integer array implements `SlotMap` |
| `AcceptLoopProofs!TypeCorrect`, `BudgetHolds`, `SocketsAccounted`, `PassIsKept` | the invariants of the accept loop |
| `AcceptLoopProofs!DoorRefinement` | the accept loop implements `FrontDoor` |
| `AcceptLoopProofs!WaitIsBounded`, `ShutdownIsBounded` | the two bounds, as action properties (`ShutdownBounded` is proved only) |
| `ConnectionTablesProofs!TypeCorrect`, `PeersApart` | the types of the sections, and that nobody races for the peers |
| `ConnectionTablesProofs!MutualExclusion` | `NoRace`, unless the services' section is given away |
| `EventLoopProofs!TypeCorrect`, `ReadByOne`, `NobodyForgotten`, `NothingPending` | the invariants of the event loop |
| `EventLoopProofs!AsShippedNothingIsHandled` | with event type "accept" no worker leaves `GetQueuedCompletionStatus` to handle anything |
| `EventLoopProofs!BatonRefinement` | the event loop implements `Baton` |
| `BufferArrayProofs!TypeCorrect`, `BufferOwned`, `ScanComplete`, `FaultNeedsAll` | the invariants of the buffers |
| `BufferArrayProofs!PoolRefinement` | the buffers implement `IdPool` |
| `SockSendProofs!ShortRoundTrip`, `LongLosesLowHalf` | what the conversions give back |
| `SockSendProofs!TypeCorrect`, `HeardRight`, `ReportedWhole` | the bytes on the wire |
| `SockSendProofs!HoldersOnlySend` | who holds a mutex is sending or about to leave it, even where mutexes lie in one place and are made anew under their holders: the workers never wait for each other in a circle |
| `SockSendProofs!AtomicSendRefinement` | the sends implement `AtomicSend` |

Each module proves `Invariance`, that its `IInv` is an invariant, from
`Init => IInv` and one lemma or step per action; the others follow from it.

**The array.** `IInv` adds `ObjectsFit` to the invariants: objects are older than the
present size, so that an extension makes objects nobody has; the array never
shrinks; an occupied object has a realm, hence is present. The hard step is
`AllocateGrowing`: the occupied slots after it are those before it without the
last old one, plus the one claimed, while the seams gain exactly the last old
one; `CountDrifts` follows from the cardinalities. For `OnlyTheRobbedShare`, an owner that was
not robbed has an object in use, or one that an extension took out of its slot, so a scan
gives its object to nobody else; and a free that hits it makes it robbed (`Victims`), whoever
asked for it.
For the refinement, an array that grows for the first time is full, so the abstract
pool is exhausted too. For `ListsAreComplete`, the least slot at which the scan has counted enough has counted
exactly `maxCount` (`ScanReaches`); if it is the last slot, nothing was left out.

**The integer array.** Its invariants are inductive together. `StepRefines` shows
for each call that it is a step of the map on `contents`, or refuses; a push needs
`VacanciesAreHoles`, which says the vacancy popped is not an index in use.

**The accept loop.** `IInv` adds three facts. `QueueInv`: a connection is queued once
and has been told nothing, so taking it from the queue leaves the others queued.
`CurrentInv`: the connection in its handshake is open and told nothing until its
reply, so closing it never breaks `PassMeansIn` or takes a registered one away.
`HeldInv`: a slot that may be freed was allocated, so the counters do not go
negative; winsock goes only at a shutdown, which is why `Register` can rely on
a live socket otherwise. One lemma per action, one step per conjunct. For the
refinement, `CurrentInv` says that the remote at the door is neither waiting nor inside,
`QueueInv` that the one called was only once in the line, and `WithinBudget` that there is
room for one more when it is let in; `CloseDismisses`, `RegisterLetsIn` and the lemmas beside
them map the steps, and every other step of a handshake leaves the door as it is. For the bounds,
`Onward` says where each step goes, `StageFalls` that this is always forward, and
`SameTurn` that a connection has one place in the queue.

**The tables.** `InsideInv`: a thread inside a table owns its section, or the section was
broken meanwhile and nobody enters it before that thread has left; and no two threads are
inside one. A thread that leaks a section may come back into it, which does not break
this; nor does the leave at the end of a function, since the section left is one's own or
broken. What may break it is the leave of another's section, `GivesAway`, and that is
always the section of the services. So `IInv` has a parameter, the realms for which
`InsideInv` is claimed: every step keeps it for the peers, and every step but `GivesAway` for
all realms. `DepthInv` bounds how often a section is entered, for the types.
`LeaveEffect` and `EnterEffect` say what the two calls do to all sections.

**The event loop.** `OneReader` alone is not inductive: a worker that posts a receive
must hold it. `FreshInv` adds that a connection that is not registered yet is in no table and
has no receive anywhere; `StrayInv` that one freed in its handshake was freed by another's
call. A step moves one connection's receive from one place to the next; lemmas say what a
change at the port, at a worker or in `posted` does to all connections, and the actions use
them. For the refinement, `OneReader` is what makes `Where` a function: the place at which a
connection's receive is found is the only one. `NothingPending` rests on both: the worker that
frees its own connection holds the receive, so it is neither posted nor queued, and nobody
posts it again, since `WSARecv` fails on the closed socket. A removal leaves all receives where
they are, so whichever object it frees only `strayed` and `ListenedTo` have to know. That no
handler runs if all events say "accept" needs that no event type is read from a freed object:
nothing is freed then, and that is inductive with the types alone.

**The buffers.** Their invariants are inductive together; `OneHolder` is what makes the
slot given back one that was in use, for the count, and `NothingFreeBelow` makes a
scan that fails mean that all buffers are in use.

**The sends.** `IInv` adds `OneInside`, that the mutex of a connection that shares its place
with no other belongs to the worker that sends; `BytesInv`, that each byte on the
wire is that of the message its position says; `LengthInv`, how many there are: all of
the messages said, but for the last, of which the worker inside has sent `index`
bytes, until the connection dies; and `FreshInv`, that nothing is sent before a
connection is initialised. `Transmit` extends `BytesInv` by the piece sent, whose
positions `Position` gives; `Leave` needs `LengthInv` to see that a message was whole;
and `HeardAsSaid` follows from `BytesInv` with the round trip of the conversions. For the
refinement, `HeardFacts` says what is heard on a sound connection by the number of whole
messages on its wire; a `Transmit` that does not reach the last byte leaves that number,
the one that does adds the header of the caller's message to it, and no other step
changes the wire of a sound connection.

Only model-checked: liveness under fairness (`EveryoneServed`, `ShutdownEndsLoop`, `WaitsOnlyOnLeaks`,
`HangUpDisposed`, `WaitsOnlyOnSends`) and everything that depends on fairness, which the
prover does not handle.

## 7. Not modelled

- **Outgoing connections.** `initializeOutgoingConnection` has no callers.
  `connectServiceToPeer` comes after a receive of `recvConnect` that always fails
  (`commands.c`:114 passes a byte where an address is meant). What they would do
  starts from pointers that are wrong: a connection is allocated twice, the second
  time into the pointer of the first's information.
- **The fields of commands.** The handlers take 6 bytes of a MESSAGE after its header where
  the layout has 8, 4 of 6 of a MESSAGE_SERVICE and 8 of 6 of a MESSAGE_CLIENT, so they
  read lengths that were not received; `sendMessageIn` is given the length of the
  text for that of the message at `commands.c`:248; `sendError` writes past its array.
  These are mistakes of layout on single paths, not of state; the models keep which
  receives and sends there are, in which order, and that each may fail. An ID that
  a handler reads may be anybody's (`Lookup`).
- **The start.** `startListenSocket` is a straight line of calls before other threads run;
  each failure ends it, with what was made before left behind.
- **The text** of the combined service string, encryption (only "none" exists),
  formatting, addresses and logging: no property depends on them.
- **The connection timers**, which nothing registers, and the **simple vectors**, which
  nothing in the daemon uses.
- `connection_array_free_container`, `message_buffer_array_free_container`, `addNewService`
  and `freeServiceString`, which nothing calls (the last frees a client's slot).
- **The operating system**: winsock, the heap, the completion port and the critical
  sections appear through what the code can observe of them.
