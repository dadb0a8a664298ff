---------------------------- MODULE EventLoopProofs ----------------------------
(* The event loop reads each connection with one worker at a time and       *)
(* forgets none, for any number of connections, workers and shutdown        *)
(* events; the receives are handed on as batons.                            *)
EXTENDS EventLoop, TLAPS

-----------------------------------------------------------------------------
(* What the steps do to the port and to the workers' holdings.              *)

SamePort == \A c \in Conns : (InPort(c)' <=> InPort(c)) /\ (Once(c) => Once(c)')

PortAdds(d) ==
  /\ \A c \in Conns : c # d => (InPort(c)' <=> InPort(c)) /\ (Once(c) => Once(c)')
  /\ InPort(d)' /\ Once(d)'

PortLoses(d) ==
  /\ \A c \in Conns : c # d => (InPort(c)' <=> InPort(c)) /\ (Once(c) => Once(c)')
  /\ ~ InPort(d)' /\ Once(d)'

SameHands == \A w \in Workers, c \in Conns : Holds(w, c)' <=> Holds(w, c)

HandsBack(v) == \A w \in Workers, c \in Conns : Holds(w, c)' <=> Holds(w, c) /\ w # v

HandsTake(v, d) ==
  \A w \in Workers, c \in Conns : Holds(w, c)' <=> Holds(w, c) \/ (w = v /\ c = d)

(* Registered is as before.  Who is freed was freed in another's handler,   *)
(* or has nothing pending.                                                  *)
Fresh(c) == life[c] \in {"none", "void"}

Ages ==
  /\ strayed \subseteq strayed' /\ listed' \subseteq listed
  /\ \A c \in Conns :
       \/ life'[c] = life[c]
       \/ life[c] = "none" /\ life'[c] = "void" /\ c \in strayed'
       \/ /\ ~ Fresh(c) /\ life'[c] = "freed"
          /\ c \in strayed' \/ (posted'[c] = 0 /\ ~ InPort(c)')

Settled == UNCHANGED <<realm, eventType>> /\ \A c \in Conns : remote'[c] => remote[c]

Rest == OneReader /\ ListenedTo /\ NothingPendingOnFreed /\ FreshInv /\ StrayInv

-----------------------------------------------------------------------------
(* The port is a queue.                                                     *)

(* A packet of another connection, or of none, is added.                    *)
LEMMA AppendPacket ==
  ASSUME TypeOK, NEW p \in Packets, port' = Append(port, p)
  PROVE  /\ \A c \in Conns : c # p.conn => (InPort(c)' <=> InPort(c)) /\ (Once(c) => Once(c)')
         /\ ~ InPort(p.conn) => InPort(p.conn)' /\ Once(p.conn)'
<1>1. port \in Seq(Packets)
  BY DEF TypeOK
<1>2. /\ Len(port') = Len(port) + 1
      /\ \A i \in 1 .. Len(port) : port'[i] = port[i]
      /\ port'[Len(port) + 1] = p
  BY <1>1
<1>3. Len(port) \in Nat
  BY <1>1
<1> QED
  BY <1>2, <1>3 DEF InPort, Once

(* The first packet is taken.                                               *)
LEMMA TakePacket ==
  ASSUME TypeOK, NEW d, port # <<>>, Head(port).conn = d, port' = Tail(port)
  PROVE  /\ \A c \in Conns : c # d => (InPort(c)' <=> InPort(c)) /\ (Once(c) => Once(c)')
         /\ InPort(d)
         /\ Once(d) => ~ InPort(d)' /\ Once(d)'
<1>1. port \in Seq(Packets)
  BY DEF TypeOK
<1>2. /\ Len(port) \in Nat /\ Len(port) > 0
      /\ Len(port') = Len(port) - 1
      /\ \A i \in 1 .. Len(port') : port'[i] = port[i + 1]
      /\ port[1].conn = d
  BY <1>1
<1>3. \A c \in Conns : c # d => (InPort(c)' <=> InPort(c))
  <2> SUFFICES ASSUME NEW c \in Conns, c # d
               PROVE  InPort(c)' <=> InPort(c)
    OBVIOUS
  <2>1. ASSUME InPort(c) PROVE InPort(c)'
    <3>1. PICK i \in 1 .. Len(port) : port[i].conn = c
      BY <2>1 DEF InPort
    <3>2. i - 1 \in 1 .. Len(port') /\ port'[i - 1] = port[i]
      BY <1>2, <3>1
    <3> QED
      BY <3>1, <3>2 DEF InPort
  <2> QED
    BY <1>2, <2>1 DEF InPort
<1>4. \A c \in Conns : Once(c) => Once(c)'
  <2> SUFFICES ASSUME NEW c \in Conns, Once(c), NEW i \in 1 .. Len(port'),
                      NEW j \in 1 .. Len(port'), port'[i].conn = c, port'[j].conn = c
               PROVE  i = j
    BY DEF Once
  <2>1. i + 1 = j + 1
    BY <1>2 DEF Once
  <2> QED
    BY <2>1
<1>5. InPort(d)
  BY <1>2 DEF InPort
<1>6. ASSUME Once(d) PROVE ~ InPort(d)' /\ Once(d)'
  <2>1. \A i \in 1 .. Len(port') : port'[i].conn # d
    BY <1>2, <1>6 DEF Once
  <2> QED
    BY <2>1 DEF InPort, Once
<1> QED
  BY <1>2, <1>3, <1>4, <1>5, <1>6

-----------------------------------------------------------------------------
(* What each kind of step does to the invariant and to the batons.          *)

(* Where the baton of a connection is.                                      *)
LEMMA WhereIs ==
  ASSUME TypeOK, Rest, NEW c \in Conns
  PROVE  /\ Fresh(c) => Where(c) = "none"
         /\ ~ Fresh(c) /\ posted[c] = 1 => Where(c) = "posted"
         /\ ~ Fresh(c) /\ InPort(c) => Where(c) = "queued"
         /\ \A w \in Workers : Holds(w, c) => Where(c) = w
         /\ ~ Fresh(c) /\ ~ Attended(c) => Where(c) = "dropped"
<1>1. posted[c] \in Nat
  BY DEF TypeOK
<1>2. ASSUME NEW w \in Workers, Holds(w, c) PROVE Where(c) = w
  <2>1. /\ ~ Fresh(c) /\ posted[c] = 0 /\ ~ InPort(c)
        /\ \A v \in Workers : Holds(v, c) => v = w
    BY <1>2 DEF Rest, OneReader, FreshInv, Fresh
  <2> QED
    BY <1>2, <2>1 DEF Where, Fresh
<1>3. InPort(c) => posted[c] = 0
  BY <1>1 DEF Rest, OneReader
<1> QED
  BY <1>1, <1>2, <1>3 DEF Where, Attended, Fresh

(* What aging leaves of the invariant, when the ports and posts agree.      *)
LEMMA AgesKeeps ==
  ASSUME TypeOK, TypeOK', Rest, Ages
  PROVE  /\ \A c \in Conns : (Fresh(c)' <=> Fresh(c)) /\ (life'[c] = "open" => life[c] = "open")
         /\ StrayInv'
         /\ \A c \in Conns :
              /\ life'[c] = "freed" /\ c \notin strayed'
              /\ life[c] = "freed" => posted'[c] = 0 /\ ~ InPort(c)'
              => posted'[c] = 0 /\ ~ InPort(c)'
<1>1. \A c \in Conns : Fresh(c)' <=> Fresh(c)
  BY DEF Ages, Fresh
<1>2. \A c \in Conns : life'[c] = "open" => life[c] = "open"
  BY DEF Ages
<1>3. StrayInv'
  BY DEF Ages, StrayInv, Rest
<1>4. ASSUME NEW c \in Conns, life'[c] = "freed", c \notin strayed',
             life[c] = "freed" => posted'[c] = 0 /\ ~ InPort(c)'
      PROVE  posted'[c] = 0 /\ ~ InPort(c)'
  BY <1>4 DEF Ages
<1> QED
  BY <1>1, <1>2, <1>3, <1>4

(* Nothing moves: the receives stay where they are.                         *)
LEMMA QuietStep ==
  ASSUME TypeOK, TypeOK', Rest, SamePort, SameHands, Ages, Settled,
         UNCHANGED <<posted, header>>
  PROVE  Rest' /\ receiver' = receiver
<1> USE DEF Rest
<1>1. OneReader'
  BY DEF OneReader, SamePort, SameHands
<1>2. FreshInv' /\ StrayInv' /\ NothingPendingOnFreed'
  <2>1. FreshInv'
    BY AgesKeeps DEF FreshInv, Fresh, SamePort, SameHands, Ages
  <2>2. NothingPendingOnFreed'
    BY AgesKeeps DEF NothingPendingOnFreed, SamePort, Ages
  <2> QED
    BY <2>1, <2>2, AgesKeeps
<1>3. ListenedTo'
  <2>1. \A c \in Conns : Attended(c)' <=> Attended(c)
    BY DEF Attended, SamePort, SameHands
  <2>2. \A c \in Conns : Unheard(c) => Unheard(c)'
    BY DEF Unheard, Settled
  <2> QED
    BY <2>1, <2>2, AgesKeeps DEF ListenedTo
<1>4. \A c \in Conns : Where(c)' = Where(c)
  BY AgesKeeps DEF Where, SamePort, SameHands, Fresh
<1> QED
  BY <1>1, <1>2, <1>3, <1>4 DEF receiver

(* One connection's baton moves and no other does.                          *)
LEMMA OneMoves ==
  ASSUME NEW d \in Conns, NEW a, NEW b, Where(d) = a, Where(d)' = b,
         \A c \in Conns : c # d => Where(c)' = Where(c)
  PROVE  Receiver!Move(d, a, b)
<1>1. receiver[d] = a
  BY DEF receiver
<1>2. receiver' = [receiver EXCEPT ![d] = b]
  BY DEF receiver
<1> QED
  BY <1>1, <1>2 DEF Receiver!Move

(* A worker gives a connection up without listening to it again.            *)
LEMMA ReleaseStep ==
  ASSUME TypeOK, TypeOK', Rest, NEW v \in Workers, NEW d \in Conns, Holds(v, d),
         SamePort, HandsBack(v), Ages, Settled, UNCHANGED <<posted, header>>,
         life'[d] = "open" => Unheard(d)
  PROVE  Rest' /\ Receiver!Drop(d, v)
<1> USE DEF Rest
<1>1. /\ \A w \in Workers : ~ Holds(w, d)'
      /\ \A w \in Workers, c \in Conns : c # d => (Holds(w, c)' <=> Holds(w, c))
  BY DEF HandsBack, OneReader, Holds
<1>2. OneReader'
  BY <1>1 DEF OneReader, SamePort
<1>3. FreshInv' /\ StrayInv' /\ NothingPendingOnFreed'
  <2>1. FreshInv'
    BY <1>1, AgesKeeps DEF FreshInv, Fresh, SamePort, Ages
  <2>2. NothingPendingOnFreed'
    BY AgesKeeps DEF NothingPendingOnFreed, SamePort, Ages
  <2> QED
    BY <2>1, <2>2, AgesKeeps
<1>4. ListenedTo'
  <2>1. ASSUME NEW c \in Conns, c # d PROVE Attended(c)' <=> Attended(c)
    BY <1>1, <2>1 DEF Attended, SamePort
  <2>2. \A c \in Conns : Unheard(c) => Unheard(c)'
    BY DEF Unheard, Settled
  <2> QED
    BY <2>1, <2>2, AgesKeeps DEF ListenedTo
<1>5. ASSUME NEW c \in Conns, c # d PROVE Where(c)' = Where(c)
  <2>1. \A w \in Workers : Holds(w, c)' <=> Holds(w, c)
    BY <1>1, <1>5
  <2> QED
    BY <2>1, AgesKeeps DEF Where, SamePort, Fresh
<1>6. ~ Fresh(d) /\ posted[d] = 0 /\ ~ InPort(d)
  BY DEF OneReader, FreshInv, Fresh
<1>7. Where(d) = v
  BY WhereIs
<1>8. Where(d)' = "dropped"
  BY <1>1, <1>6, AgesKeeps DEF Where, SamePort, Fresh
<1>9. Receiver!Move(d, v, "dropped")
  BY <1>5, <1>7, <1>8, OneMoves
<1> QED
  BY <1>2, <1>3, <1>4, <1>9 DEF Receiver!Drop

(* A worker posts the receive of its connection again, or fails to.         *)
LEMMA RearmStep ==
  ASSUME TypeOK, TypeOK', Rest, NEW v \in Workers, NEW d \in Conns, Holds(v, d),
         SamePort, HandsBack(v), Settled, UNCHANGED <<tables, header>>, Rearm(d)
  PROVE  Rest' /\ (Receiver!Repost(d, v) \/ Receiver!Drop(d, v))
<1> USE DEF Rest, tables
<1>1. /\ \A w \in Workers : ~ Holds(w, d)'
      /\ \A w \in Workers, c \in Conns : c # d => (Holds(w, c)' <=> Holds(w, c))
  BY DEF HandsBack, OneReader, Holds
<1>2. ~ Fresh(d) /\ posted[d] = 0 /\ ~ InPort(d)
  BY DEF OneReader, FreshInv, Fresh
<1>3. CASE UNCHANGED posted /\ (~ Connected(d) \/ ~ remote[d])
  <2>1. Ages
    BY DEF Ages
  <2>2. life'[d] = "open" => Unheard(d)
    BY <1>3 DEF Unheard, Connected
  <2> QED
    BY <1>3, <2>1, <2>2, ReleaseStep
<1>4. CASE Connected(d) /\ posted' = [posted EXCEPT ![d] = @ + 1]
  <2>1. posted'[d] = 1 /\ \A c \in Conns : c # d => posted'[c] = posted[c]
    BY <1>2, <1>4 DEF TypeOK
  <2>2. OneReader'
    BY <1>1, <1>2, <2>1 DEF OneReader, SamePort
  <2>3. FreshInv' /\ StrayInv' /\ NothingPendingOnFreed'
    <3>1. FreshInv'
      BY <1>1, <1>2, <2>1 DEF FreshInv, Fresh, SamePort
    <3>2. NothingPendingOnFreed'
      BY <1>4, <2>1 DEF NothingPendingOnFreed, Connected, SamePort
    <3> QED
      BY <3>1, <3>2 DEF StrayInv
  <2>4. ListenedTo'
    <3>1. Attended(d)'
      BY <2>1 DEF Attended
    <3>2. ASSUME NEW c \in Conns, c # d PROVE Attended(c)' <=> Attended(c)
      BY <1>1, <2>1, <3>2 DEF Attended, SamePort
    <3>3. \A c \in Conns : Unheard(c) => Unheard(c)'
      BY DEF Unheard, Settled
    <3> QED
      BY <3>1, <3>2, <3>3 DEF ListenedTo
  <2>5. ASSUME NEW c \in Conns, c # d PROVE Where(c)' = Where(c)
    <3>1. \A w \in Workers : Holds(w, c)' <=> Holds(w, c)
      BY <1>1, <2>5
    <3> QED
      BY <2>1, <2>5, <3>1 DEF Where, SamePort
  <2>6. Where(d) = v
    BY WhereIs
  <2>7. Where(d)' = "posted"
    BY <1>2, <2>1 DEF Where, Fresh
  <2>8. Receiver!Move(d, v, "posted")
    BY <2>5, <2>6, <2>7, OneMoves
  <2> QED
    BY <2>2, <2>3, <2>4, <2>8 DEF Receiver!Repost
<1> QED
  BY <1>3, <1>4 DEF Rearm

(* A worker takes the completion of a connection from the port.             *)
LEMMA TakeStep ==
  ASSUME TypeOK, TypeOK', Rest, NEW v \in Workers, NEW d \in Conns, InPort(d),
         PortLoses(d), HandsTake(v, d), Ages, Settled, UNCHANGED posted,
         \A c \in Conns : c # d => header'[c] = header[c]
  PROVE  Rest' /\ Receiver!Take(d, v)
<1> USE DEF Rest
<1>1. ~ Fresh(d) /\ posted[d] = 0 /\ \A w \in Workers : ~ Holds(w, d)
  <2>1. posted[d] \in Nat
    BY DEF TypeOK
  <2> QED
    BY <2>1 DEF OneReader, FreshInv, Fresh
<1>2. /\ \A w \in Workers : Holds(w, d)' <=> w = v
      /\ \A w \in Workers, c \in Conns : c # d => (Holds(w, c)' <=> Holds(w, c))
  BY <1>1 DEF HandsTake
<1>3. OneReader'
  BY <1>1, <1>2 DEF OneReader, PortLoses
<1>4. FreshInv' /\ StrayInv' /\ NothingPendingOnFreed'
  <2>1. FreshInv'
    BY <1>1, <1>2, AgesKeeps DEF FreshInv, Fresh, PortLoses, Ages
  <2>2. NothingPendingOnFreed'
    BY <1>1, AgesKeeps DEF NothingPendingOnFreed, PortLoses, Ages
  <2> QED
    BY <2>1, <2>2, AgesKeeps
<1>5. ListenedTo'
  <2>1. ASSUME NEW c \in Conns, c # d
        PROVE  (Attended(c)' <=> Attended(c)) /\ (Unheard(c) => Unheard(c)')
    BY <1>2, <2>1 DEF Attended, Unheard, PortLoses, Settled
  <2>2. Attended(d)'
    BY <1>2 DEF Attended
  <2> QED
    BY <2>1, <2>2, AgesKeeps DEF ListenedTo
<1>6. ASSUME NEW c \in Conns, c # d PROVE Where(c)' = Where(c)
  <2>1. \A w \in Workers : Holds(w, c)' <=> Holds(w, c)
    BY <1>2, <1>6
  <2> QED
    BY <1>6, <2>1, AgesKeeps DEF Where, PortLoses, Fresh
<1>7. Where(d) = "queued"
  BY <1>1, WhereIs
<1>8. Where(d)' = v
  <2>1. posted'[d] = 0 /\ ~ InPort(d)' /\ ~ Fresh(d)'
    BY <1>1, AgesKeeps DEF PortLoses
  <2> QED
    BY <1>2, <2>1 DEF Where, Fresh
<1>9. Receiver!Move(d, "queued", v)
  BY <1>6, <1>7, <1>8, OneMoves
<1> QED
  BY <1>3, <1>4, <1>5, <1>9 DEF Receiver!Take

(* A completion is dropped: its type is "accept", or its overlap was freed. *)
LEMMA DiscardStep ==
  ASSUME TypeOK, TypeOK', Rest, NEW d \in Conns, InPort(d), Freed(d) \/ eventType[d] = "accept",
         PortLoses(d), SameHands,
         UNCHANGED <<tables, remote, realm, eventType, header, posted>>
  PROVE  Rest' /\ Receiver!Discard(d)
<1> USE DEF Rest, tables
<1>1. ~ Fresh(d) /\ posted[d] = 0 /\ \A w \in Workers : ~ Holds(w, d)
  <2>1. posted[d] \in Nat
    BY DEF TypeOK
  <2> QED
    BY <2>1 DEF OneReader, FreshInv, Fresh
<1>2. OneReader'
  BY <1>1 DEF OneReader, PortLoses, SameHands
<1>3. FreshInv' /\ StrayInv' /\ NothingPendingOnFreed'
  BY <1>1 DEF FreshInv, Fresh, StrayInv, NothingPendingOnFreed, PortLoses, SameHands
<1>4. ListenedTo'
  <2>1. life'[d] = "open" => Unheard(d)'
    BY DEF Unheard, Freed
  <2>2. ASSUME NEW c \in Conns, c # d PROVE Attended(c)' <=> Attended(c)
    BY <2>2 DEF Attended, PortLoses, SameHands
  <2>3. \A c \in Conns : Unheard(c) => Unheard(c)'
    BY DEF Unheard
  <2> QED
    BY <2>1, <2>2, <2>3 DEF ListenedTo
<1>5. ASSUME NEW c \in Conns, c # d PROVE Where(c)' = Where(c)
  BY <1>5 DEF Where, PortLoses, SameHands
<1>6. Where(d) = "queued"
  BY <1>1, WhereIs
<1>7. Where(d)' = "dropped"
  <2>1. \A w \in Workers : ~ Holds(w, d)'
    BY <1>1 DEF SameHands
  <2> QED
    BY <1>1, <2>1 DEF Where, PortLoses, Fresh
<1>8. Receiver!Move(d, "queued", "dropped")
  BY <1>5, <1>6, <1>7, OneMoves
<1> QED
  BY <1>2, <1>3, <1>4, <1>8 DEF Receiver!Discard

(* A receive completes, with a header or with nothing.                      *)
LEMMA CompleteStep ==
  ASSUME TypeOK, TypeOK', Rest, NEW d \in Conns, posted[d] > 0,
         posted' = [posted EXCEPT ![d] = @ - 1], ~ InPort(d) => PortAdds(d), SameHands,
         UNCHANGED <<tables, remote, realm, eventType>>,
         \A c \in Conns : c # d => header'[c] = header[c]
  PROVE  Rest' /\ Receiver!Complete(d)
<1> USE DEF Rest, tables
<1>1. /\ posted[d] = 1 /\ ~ InPort(d) /\ ~ Fresh(d)
      /\ \A w \in Workers : ~ Holds(w, d)
  <2>1. posted[d] \in Nat /\ posted[d] <= 1
    BY DEF OneReader, TypeOK
  <2> QED
    BY <2>1 DEF OneReader, FreshInv, Fresh
<1>2. /\ posted'[d] = 0 /\ \A c \in Conns : c # d => posted'[c] = posted[c]
      /\ PortAdds(d)
  BY <1>1 DEF TypeOK
<1>3. OneReader'
  BY <1>1, <1>2 DEF OneReader, PortAdds, SameHands
<1>4. FreshInv' /\ StrayInv' /\ NothingPendingOnFreed'
  <2>1. FreshInv'
    BY <1>1, <1>2 DEF FreshInv, Fresh, PortAdds, SameHands
  <2>2. NothingPendingOnFreed'
    BY <1>1, <1>2 DEF NothingPendingOnFreed, PortAdds
  <2> QED
    BY <2>1, <2>2 DEF StrayInv
<1>5. ListenedTo'
  <2>1. Attended(d)'
    BY <1>2 DEF Attended, PortAdds
  <2>2. ASSUME NEW c \in Conns, c # d
        PROVE  (Attended(c)' <=> Attended(c)) /\ (Unheard(c) => Unheard(c)')
    BY <1>2, <2>2 DEF Attended, Unheard, PortAdds, SameHands
  <2> QED
    BY <2>1, <2>2 DEF ListenedTo
<1>6. ASSUME NEW c \in Conns, c # d PROVE Where(c)' = Where(c)
  BY <1>2, <1>6 DEF Where, PortAdds, SameHands
<1>7. Where(d) = "posted"
  BY <1>1, WhereIs
<1>8. Where(d)' = "queued"
  BY <1>1, <1>2 DEF Where, PortAdds, Fresh
<1>9. Receiver!Move(d, "posted", "queued")
  BY <1>6, <1>7, <1>8, OneMoves
<1> QED
  BY <1>3, <1>4, <1>5, <1>9 DEF Receiver!Complete

(* A connection enters the port, with its first receive or without.         *)
LEMMA RegisterStep ==
  ASSUME TypeOK, TypeOK', Rest, NEW d \in Conns, Register(d)
  PROVE  Rest' /\ (Receiver!Register(d) \/ Receiver!Miss(d))
<1> USE DEF Rest
<1>1. /\ Fresh(d) /\ ~ Fresh(d)' /\ life'[d] \in {"open", "loose"}
      /\ life'[d] = "loose" => life[d] = "void"
      /\ \A c \in Conns : c # d => life'[c] = life[c] /\ (c \in listed' <=> c \in listed)
  BY DEF Register, TypeOK, Fresh
<1>2. posted[d] = 0 /\ ~ InPort(d) /\ \A w \in Workers : ~ Holds(w, d)
  BY <1>1 DEF FreshInv, Fresh
<1>3. /\ \/ posted'[d] = 1
         \/ posted'[d] = 0 /\ ~ remote'[d]
      /\ \A c \in Conns : c # d => posted'[c] = posted[c] /\ remote'[c] = remote[c]
  BY <1>2 DEF Register, TypeOK
<1>4. UNCHANGED <<strayed, realm, eventType, header, port, at, conn>>
  BY DEF Register, locals
<1>5. SamePort /\ SameHands
  BY <1>4 DEF SamePort, SameHands, InPort, Once, Holds
<1>6. OneReader'
  BY <1>2, <1>3, <1>5 DEF OneReader, SamePort, SameHands
<1>7. FreshInv' /\ StrayInv' /\ NothingPendingOnFreed'
  <2>1. FreshInv'
    BY <1>1, <1>3, <1>5 DEF FreshInv, Fresh, SamePort, SameHands
  <2>2. StrayInv'
    BY <1>1, <1>4 DEF StrayInv
  <2>3. NothingPendingOnFreed'
    BY <1>1, <1>3, <1>4, <1>5 DEF NothingPendingOnFreed, SamePort
  <2> QED
    BY <2>1, <2>2, <2>3
<1>8. ListenedTo'
  <2>1. Attended(d)' \/ Unheard(d)'
    BY <1>3 DEF Attended, Unheard
  <2>2. ASSUME NEW c \in Conns, c # d
        PROVE  (Attended(c)' <=> Attended(c)) /\ (Unheard(c) => Unheard(c)')
    BY <1>3, <1>4, <1>5, <2>2 DEF Attended, Unheard, SamePort, SameHands
  <2> QED
    BY <1>1, <2>1, <2>2 DEF ListenedTo
<1>9. ASSUME NEW c \in Conns, c # d PROVE Where(c)' = Where(c)
  BY <1>1, <1>3, <1>5, <1>9 DEF Where, SamePort, SameHands
<1>10. Where(d) = "none" /\ Where(d)' \in {"posted", "dropped"}
  BY <1>1, <1>2, <1>3, <1>5 DEF Where, Fresh, SamePort, SameHands
<1>11. Receiver!Move(d, "none", "posted") \/ Receiver!Move(d, "none", "dropped")
  BY <1>9, <1>10, OneMoves
<1> QED
  BY <1>6, <1>7, <1>8, <1>11 DEF Receiver!Register, Receiver!Miss

-----------------------------------------------------------------------------
(* The actions are steps of these kinds.                                    *)

Good == Rest' /\ [Receiver!Next]_receiver

(* What leaves the frame as it is.                                          *)
LEMMA Frame ==
  /\ UNCHANGED port => SamePort
  /\ UNCHANGED <<at, conn>> => SameHands
  /\ UNCHANGED tables => Ages
  /\ UNCHANGED <<realm, eventType, remote>> => Settled
<1>1. UNCHANGED port => SamePort
  BY DEF SamePort, InPort, Once
<1>2. UNCHANGED <<at, conn>> => SameHands
  BY DEF SameHands, Holds
<1>3. UNCHANGED tables => Ages
  BY DEF Ages, tables
<1>4. UNCHANGED <<realm, eventType, remote>> => Settled
  BY DEF Settled
<1> QED
  BY <1>1, <1>2, <1>3, <1>4

(* What a worker's change of place does to its holdings.                    *)
LEMMA Moved ==
  ASSUME TypeOK, NEW w \in Workers, NEW place, Goto(w, place), UNCHANGED conn
  PROVE  /\ (at[w] \in Holding <=> place \in Holding) => SameHands
         /\ place \notin Holding => HandsBack(w)
<1>1. at'[w] = place /\ \A v \in Workers : v # w => at'[v] = at[v]
  BY DEF Goto, TypeOK
<1>2. (at[w] \in Holding <=> place \in Holding) => SameHands
  BY <1>1 DEF SameHands, Holds
<1>3. place \notin Holding => HandsBack(w)
  BY <1>1 DEF HandsBack, Holds
<1> QED
  BY <1>2, <1>3

(* What the end of a command, or of the worker, does to them.               *)
LEMMA Finished ==
  ASSUME TypeOK, NEW w \in Workers, Finish(w) \/ End(w)
  PROVE  /\ HandsBack(w)
         /\ at[w] \notin Holding => SameHands
<1>1. /\ at'[w] \in {"wait", "ended"} /\ \A v \in Workers : v # w => at'[v] = at[v]
      /\ \A v \in Workers : v # w => conn'[v] = conn[v]
  BY DEF Finish, End, Leave, Goto, TypeOK
<1>2. HandsBack(w)
  BY <1>1 DEF HandsBack, Holds, Holding
<1>3. at[w] \notin Holding => SameHands
  BY <1>2 DEF SameHands, HandsBack, Holds
<1> QED
  BY <1>2, <1>3

(* Whom a removal frees: nobody, the worker's own connection, which has     *)
(* nothing pending, or a stray.                                             *)
LEMMA Removed ==
  ASSUME TypeOK, Rest, NEW w \in Workers, Holds(w, conn[w]), conn[w] \in Conns,
         Remove(w) \/ DisconnectStuck(w), UNCHANGED <<posted, port>>
  PROVE  Ages
<1> PICK c \in Conns : c = conn[w]
  OBVIOUS
<1>1. ~ Fresh(c) /\ posted[c] = 0 /\ ~ InPort(c)
  BY DEF Rest, OneReader, FreshInv, Fresh
<1>2. CASE UNCHANGED tables
  BY <1>2, Frame
<1>3. ASSUME NEW d \in Conns, RemoveFound(w, d) PROVE Ages
  <2>1. strayed \subseteq strayed' /\ listed' \subseteq listed /\ (d # c => d \in strayed')
    BY <1>3 DEF RemoveFound
  <2>2. \/ d \in listed /\ life'[d] = "freed"
        \/ life[d] = "none" /\ life'[d] = "void"
    BY <1>3 DEF RemoveFound, TypeOK
  <2>3. d \in listed => ~ Fresh(d)
    BY DEF Rest, FreshInv, Fresh
  <2>4. \A e \in Conns : e # d => life'[e] = life[e]
    BY <1>3 DEF RemoveFound, TypeOK
  <2>5. posted'[c] = 0 /\ ~ InPort(c)'
    BY <1>1 DEF InPort
  <2>6. CASE d = c
    BY <1>1, <2>1, <2>2, <2>3, <2>4, <2>5, <2>6 DEF Ages, Fresh
  <2>7. CASE d # c
    BY <2>1, <2>2, <2>3, <2>4, <2>7 DEF Ages
  <2> QED
    BY <2>6, <2>7
<1> QED
  BY <1>2, <1>3 DEF Remove, DisconnectStuck

(* The worker's connection is one it holds.                                 *)
LEMMA Held ==
  ASSUME TypeOK, NEW w \in Workers, at[w] \in Holding
  PROVE  conn[w] \in Conns /\ Holds(w, conn[w])
BY LoopAssumption DEF TypeOK, Holds, Holding

(* A quiet step is good.                                                    *)
LEMMA QuietGood ==
  ASSUME TypeOK, TypeOK', Rest, SamePort, SameHands, Ages, Settled,
         UNCHANGED <<posted, header>>
  PROVE  Good
BY QuietStep DEF Good

(* So is giving a connection up that is not heard any more.                 *)
LEMMA ReleaseGood ==
  ASSUME TypeOK, TypeOK', Rest, NEW v \in Workers, NEW d \in Conns, Holds(v, d),
         SamePort, HandsBack(v), Ages, Settled, UNCHANGED <<posted, header>>,
         life'[d] = "open" => Unheard(d)
  PROVE  Good
BY ReleaseStep DEF Good, Receiver!Next

(* And listening to it again.                                               *)
LEMMA RearmGood ==
  ASSUME TypeOK, TypeOK', Rest, NEW v \in Workers, NEW d \in Conns, Holds(v, d),
         UNCHANGED <<port, object, remote, header>>, HandsBack(v), Rearm(d)
  PROVE  Good
<1>1. SamePort /\ Settled
  BY Frame DEF object
<1>2. UNCHANGED <<tables, header>>
  BY DEF object
<1> QED
  BY <1>1, <1>2, RearmStep DEF Good, Receiver!Next

-----------------------------------------------------------------------------
(* The types, of the connections and of the workers.                        *)

DataTypes ==
  /\ life \in [Conns -> {"none", "void", "open", "loose", "freed"}]
  /\ listed \subseteq Conns
  /\ strayed \subseteq Conns
  /\ remote \in [Conns -> BOOLEAN]
  /\ realm \in [Conns -> Realms]
  /\ eventType \in [Conns -> EventTypes]
  /\ header \in [Conns -> Commands]
  /\ posted \in [Conns -> Nat]
  /\ port \in Seq(Packets)
  /\ running \in BOOLEAN

WorkerTypes ==
  /\ at \in [Workers -> Places]
  /\ conn \in [Workers -> Conns \cup {NoConn}]
  /\ \A w \in Workers : conn[w] = NoConn <=> at[w] \in {"wait", "ended"}
  /\ table \in [Workers -> {"client", "service"}]
  /\ dest \in [Workers -> Conns \cup {NoConn}]
  /\ \A w \in Workers : at[w] = "send" <=> dest[w] # NoConn

(* Together they are the types of all variables, now and next.              *)
LEMMA Types == TypeOK <=> DataTypes /\ WorkerTypes
BY DEF TypeOK, DataTypes, WorkerTypes

(* The same of the next state.                                              *)
LEMMA TypesNext == TypeOK' <=> DataTypes' /\ WorkerTypes'
BY DEF TypeOK, DataTypes, WorkerTypes

(* The end of a command, or of the worker.                                  *)
LEMMA FinishTypes ==
  ASSUME WorkerTypes, NEW w \in Workers, Finish(w) \/ End(w)
  PROVE  WorkerTypes'
<1>1. PICK place \in {"wait", "ended"} : Leave(w, place)
  BY DEF Finish, End
<1> QED
  BY <1>1, LoopAssumption DEF WorkerTypes, Leave, Goto, Places

(* A step from place to place in the middle of a command.                   *)
LEMMA GotoTypes ==
  ASSUME WorkerTypes, NEW w \in Workers, NEW place \in Places, Goto(w, place),
         place \notin {"wait", "ended", "send"}, at[w] \notin {"wait", "ended", "send"},
         UNCHANGED <<conn, dest>>, table' \in [Workers -> {"client", "service"}]
  PROVE  WorkerTypes'
<1>1. at'[w] = place /\ \A v \in Workers : v # w => at'[v] = at[v]
  BY DEF Goto, WorkerTypes
<1>2. at' \in [Workers -> Places]
  BY DEF Goto, WorkerTypes
<1> QED
  BY <1>1, <1>2 DEF WorkerTypes

TableTypes ==
  /\ life' \in [Conns -> {"none", "void", "open", "loose", "freed"}]
  /\ listed' \subseteq Conns
  /\ strayed' \subseteq Conns

(* The effects of the helpers on the connections.                           *)
LEMMA HelperTypes ==
  ASSUME DataTypes
  PROVE  /\ \A c : Rearm(c) => posted' \in [Conns -> Nat]
         /\ \A some : Use(some) => running' \in BOOLEAN
         /\ UNCHANGED tables => TableTypes
         /\ \A w : Remove(w) \/ DisconnectStuck(w) => TableTypes /\ running' \in BOOLEAN
<1> USE DEF DataTypes, TableTypes
<1>1. \A c : Rearm(c) => posted' \in [Conns -> Nat]
  BY DEF Rearm
<1>2. \A some : Use(some) => running' \in BOOLEAN
  BY DEF Use
<1>3. UNCHANGED tables => TableTypes
  BY DEF tables
<1>4. ASSUME NEW w, NEW d \in Conns, RemoveFound(w, d) PROVE TableTypes /\ running' \in BOOLEAN
  BY <1>2, <1>4 DEF RemoveFound
<1> QED
  BY <1>1, <1>2, <1>3, <1>4 DEF Remove, DisconnectStuck

(* What is outside the workers, by action.                                  *)
LEMMA EnvironmentTypes ==
  ASSUME TypeOK,
         \/ \E c \in Conns : Register(c) \/ Receive(c) \/ HangUp(c) \/ ReceiveNothing(c)
         \/ CloseWorkerThreads
  PROVE  TypeOK'
<1> USE LoopAssumption DEF TypeOK, object, tables, locals
<1>1. ASSUME NEW c \in Conns, Register(c) PROVE TypeOK'
  <2>1. life' \in [Conns -> {"none", "void", "open", "loose", "freed"}]
    BY <1>1 DEF Register
  <2>2. listed' \subseteq Conns
    BY <1>1 DEF Register
  <2>3. \/ posted' = [posted EXCEPT ![c] = @ + 1] /\ remote' = remote
        \/ remote' = [remote EXCEPT ![c] = FALSE] /\ posted' = posted
    BY <1>1 DEF Register
  <2>4. remote' \in [Conns -> BOOLEAN] /\ posted' \in [Conns -> Nat]
    <3>1. CASE posted' = [posted EXCEPT ![c] = @ + 1] /\ remote' = remote
      BY <3>1
    <3>2. CASE remote' = [remote EXCEPT ![c] = FALSE] /\ posted' = posted
      BY <3>2
    <3> QED
      BY <2>3, <3>1, <3>2
  <2>5. running' \in BOOLEAN
    BY <1>1 DEF Register, Use
  <2> QED
    BY <1>1, <2>1, <2>2, <2>3, <2>4, <2>5 DEF Register
<1>2. ASSUME NEW c \in Conns, Receive(c) PROVE TypeOK'
  BY <1>2 DEF Receive, Packets
<1>3. ASSUME NEW c \in Conns, HangUp(c) PROVE TypeOK'
  BY <1>3 DEF HangUp, Packets
<1>4. ASSUME NEW c \in Conns, ReceiveNothing(c) PROVE TypeOK'
  BY <1>4 DEF ReceiveNothing, Packets
<1>5. ASSUME CloseWorkerThreads PROVE TypeOK'
  BY <1>5 DEF CloseWorkerThreads, Packets
<1> QED
  BY <1>1, <1>2, <1>3, <1>4, <1>5

(* The workers, by action: the connections.                                 *)
LEMMA WorkerKeepsData ==
  ASSUME DataTypes, NEW w \in Workers, Worker(w)
  PROVE  DataTypes'
<1> USE HelperTypes DEF DataTypes, TableTypes, object
<1>1. CASE TakeAccept(w)
  BY <1>1 DEF TakeAccept, Take
<1>2. CASE TakeOther(w)
  BY <1>2 DEF TakeOther, Take
<1>3. CASE TakeCommand(w)
  BY <1>3 DEF TakeCommand, TakeListen, Take
<1>4. CASE TakeHangUp(w)
  BY <1>4 DEF TakeHangUp, TakeListen, Take
<1>5. CASE Ignore(w)
  BY <1>5 DEF Ignore
<1>6. CASE RearmOnly(w)
  BY <1>6 DEF RearmOnly
<1>7. CASE Refuse(w)
  BY <1>7 DEF Refuse
<1>8. CASE Connect(w)
  BY <1>8 DEF Connect
<1>9. CASE Forward(w)
  BY <1>9 DEF Forward
<1>10. CASE RecvFields(w)
  BY <1>10 DEF RecvFields, RecvPart
<1>11. CASE RecvBody(w)
  BY <1>11 DEF RecvBody, RecvPart
<1>12. CASE RearmReceived(w)
  BY <1>12 DEF RearmReceived, RearmThen
<1>13. CASE RearmFailed(w)
  BY <1>13 DEF RearmFailed, RearmThen
<1>14. CASE SendError(w)
  BY <1>14 DEF SendError
<1>15. CASE Lookup(w)
  BY <1>15 DEF Lookup
<1>16. CASE LookupStuck(w)
  BY <1>16 DEF LookupStuck
<1>17. CASE Send(w)
  BY <1>17 DEF Send
<1>18. CASE SendStuck(w)
  BY <1>18 DEF SendStuck
<1> QED
  BY <1>1, <1>2, <1>3, <1>4, <1>5, <1>6, <1>7, <1>8, <1>9,
     <1>10, <1>11, <1>12, <1>13, <1>14, <1>15, <1>16, <1>17, <1>18 DEF Worker

(* And the workers themselves.                                              *)
LEMMA WorkerKeepsPlaces ==
  ASSUME TypeOK, NEW w \in Workers, Worker(w)
  PROVE  WorkerTypes'
<1> USE Types DEF locals
<1>1. CASE TakeAccept(w)
  BY <1>1 DEF TakeAccept, WorkerTypes
<1>2. ASSUME NEW c \in Conns, TakeListen(w, c) PROVE WorkerTypes'
  BY <1>2, LoopAssumption DEF TakeListen, Take, WorkerTypes, Places, Holding, Goto
<1>3. CASE \/ TakeOther(w) \/ Ignore(w) \/ RearmOnly(w) \/ SendError(w) \/ LookupStuck(w)
           \/ Send(w) \/ SendStuck(w)
  <2>1. Finish(w) \/ End(w)
    BY <1>3 DEF TakeOther, Ignore, RearmOnly, SendError, LookupStuck, Send, SendStuck
  <2> QED
    BY <2>1, FinishTypes
<1>4. CASE Refuse(w)
  <2>1. at[w] = "process" /\ Goto(w, "error") /\ UNCHANGED <<conn, table, dest>>
    BY <1>4 DEF Refuse, Processing
  <2> QED
    BY <2>1, GotoTypes DEF WorkerTypes, Places
<1>5. CASE Forward(w)
  <2>1. /\ at[w] = "process" /\ Goto(w, "fields") /\ UNCHANGED <<conn, dest>>
        /\ table' \in [Workers -> {"client", "service"}]
    BY <1>5 DEF Forward, Processing, TableFor, WorkerTypes
  <2> QED
    BY <2>1, GotoTypes DEF Places, Holding
<1>6. CASE RecvFields(w) \/ RecvBody(w) \/ Connect(w)
  <2>1. \/ Finish(w)
        \/ /\ at[w] \in {"fields", "body", "process"} /\ UNCHANGED <<conn, table, dest>>
           /\ \E place \in {"body", "rearm", "failed", "stuck"} : Goto(w, place)
    BY <1>6 DEF RecvFields, RecvBody, RecvPart, Connect, Processing, DisconnectStuck
  <2> QED
    BY <2>1, FinishTypes, GotoTypes DEF WorkerTypes, Places, Holding
<1>7. CASE RearmReceived(w) \/ RearmFailed(w)
  <2>1. /\ at[w] \in {"rearm", "failed"} /\ UNCHANGED <<conn, table, dest>>
        /\ \E place \in {"lookup", "error"} : Goto(w, place)
    BY <1>7 DEF RearmReceived, RearmFailed, RearmThen
  <2> QED
    BY <2>1, GotoTypes DEF WorkerTypes, Places
<1>8. CASE Lookup(w)
  <2>1. at[w] = "lookup" /\ UNCHANGED <<conn, table>>
    BY <1>8 DEF Lookup
  <2>2. CASE Goto(w, "error") /\ UNCHANGED dest
    BY <2>1, <2>2, GotoTypes DEF WorkerTypes, Places
  <2>3. ASSUME NEW d \in listed, dest' = [dest EXCEPT ![w] = d], Goto(w, "send")
        PROVE  WorkerTypes'
    <3>1. d \in Conns /\ d # NoConn
      BY LoopAssumption DEF DataTypes
    <3> QED
      BY <2>1, <2>3, <3>1 DEF WorkerTypes, Goto, Places
  <2> QED
    BY <1>8, <2>2, <2>3 DEF Lookup
<1> QED
  BY <1>1, <1>2, <1>3, <1>4, <1>5, <1>6, <1>7, <1>8 DEF Worker, TakeCommand, TakeHangUp

(* The variables keep their types.                                          *)
LEMMA TypeStep ==
  ASSUME TypeOK, [Next]_vars
  PROVE  TypeOK'
<1>1. ASSUME NEW w \in Workers, Worker(w) PROVE TypeOK'
  BY <1>1, Types, TypesNext, WorkerKeepsData, WorkerKeepsPlaces
<1>2. CASE UNCHANGED vars
  BY <1>2 DEF vars, object, tables, locals, TypeOK
<1> QED
  BY <1>1, <1>2, EnvironmentTypes DEF Next

-----------------------------------------------------------------------------
(* Every action is good.                                                    *)

(* The accept thread, the remotes and the port.                             *)
LEMMA EnvironmentGood ==
  ASSUME TypeOK, TypeOK', Rest,
         \/ \E c \in Conns : Register(c) \/ Receive(c) \/ HangUp(c) \/ ReceiveNothing(c)
         \/ CloseWorkerThreads
  PROVE  Good
<1> USE DEF object, locals
<1>1. ASSUME NEW c \in Conns, Register(c) PROVE Good
  BY <1>1, RegisterStep DEF Good, Receiver!Next
<1>2. ASSUME NEW c \in Conns, NEW p \in Packets, p.conn = c, posted[c] > 0,
             posted' = [posted EXCEPT ![c] = @ - 1], port' = Append(port, p),
             UNCHANGED <<object, remote, at, conn>>,
             \A d \in Conns : d # c => header'[d] = header[d]
      PROVE  Good
  <2>1. ~ InPort(c) => PortAdds(c)
    BY <1>2, AppendPacket DEF PortAdds
  <2>2. SameHands
    BY <1>2, Frame
  <2> QED
    BY <1>2, <2>1, <2>2, CompleteStep DEF Good, Receiver!Next
<1>3. ASSUME NEW c \in Conns, Receive(c) PROVE Good
  <2>1. [conn |-> c, bytes |-> 4] \in Packets
    BY DEF Packets
  <2>2. \A d \in Conns : d # c => header'[d] = header[d]
    BY <1>3 DEF Receive, TypeOK
  <2> QED
    BY <1>2, <1>3, <2>1, <2>2 DEF Receive
<1>4. ASSUME NEW c \in Conns, ReceiveNothing(c) PROVE Good
  <2>1. [conn |-> c, bytes |-> 0] \in Packets
    BY DEF Packets
  <2> QED
    BY <1>2, <1>4, <2>1 DEF ReceiveNothing
<1>5. ASSUME NEW c \in Conns, HangUp(c) PROVE Good
  <2>1. Settled
    BY <1>5 DEF HangUp, Settled, TypeOK
  <2> QED
    BY <1>5, <2>1, Frame, QuietGood DEF HangUp
<1>6. CASE CloseWorkerThreads
  <2>1. [conn |-> NoConn, bytes |-> 0] \in Packets
    BY DEF Packets
  <2>2. SamePort
    BY <1>6, <2>1, AppendPacket, LoopAssumption DEF CloseWorkerThreads, SamePort
  <2> QED
    BY <1>6, <2>2, Frame, QuietGood DEF CloseWorkerThreads
<1> QED
  BY <1>1, <1>3, <1>4, <1>5, <1>6

(* A worker that takes an event.                                            *)
LEMMA TakeGood ==
  ASSUME TypeOK, TypeOK', Rest, NEW w \in Workers,
         TakeAccept(w) \/ TakeOther(w) \/ TakeCommand(w) \/ TakeHangUp(w)
  PROVE  Good
<1> USE DEF object, locals
<1>1. ASSUME NEW d \in Conns, NEW type, Take(w, d, type)
      PROVE  /\ at[w] = "wait" /\ InPort(d) /\ PortLoses(d)
             /\ type # "listen" => Freed(d) \/ eventType[d] = "accept"
  <2>1. Head(port).conn = d /\ port # <<>> /\ port' = Tail(port) /\ at[w] = "wait"
    BY <1>1 DEF Take
  <2>2. InPort(d) /\ PortLoses(d)
    BY <2>1, TakePacket DEF PortLoses, Rest, OneReader
  <2>3. type \in EventOf(d)
    BY <1>1, LoopAssumption DEF Take
  <2>4. eventType[d] \in {"accept", "listen"}
    BY LoopAssumption DEF TypeOK
  <2> QED
    BY <2>1, <2>2, <2>3, <2>4 DEF EventOf
<1>2. CASE TakeAccept(w) \/ TakeOther(w)
  <2>1. UNCHANGED <<tables, remote, realm, eventType, header, posted>>
    BY <1>2 DEF TakeAccept, TakeOther
  <2>2. SameHands
    <3>1. CASE TakeAccept(w)
      BY <3>1, Frame DEF TakeAccept
    <3>2. CASE TakeOther(w)
      <4>1. at[w] = "wait" /\ End(w)
        BY <3>2 DEF TakeOther, Take
      <4> QED
        BY <4>1, Finished DEF Holding
    <3> QED
      BY <1>2, <3>1, <3>2
  <2>3. CASE Take(w, NoConn, "accept")
    <3>1. SamePort
      BY <2>3, TakePacket, LoopAssumption DEF Take, SamePort
    <3>2. Ages /\ Settled
      BY <2>1, Frame
    <3> QED
      BY <2>1, <2>2, <3>1, <3>2, QuietGood
  <2>4. ASSUME NEW d \in Conns, Take(w, d, "accept") \/ Take(w, d, "other") PROVE Good
    <3>1. InPort(d) /\ PortLoses(d) /\ (Freed(d) \/ eventType[d] = "accept")
      BY <1>1, <2>4
    <3> QED
      BY <2>1, <2>2, <3>1, DiscardStep DEF Good, Receiver!Next
  <2> QED
    BY <1>2, <2>3, <2>4 DEF TakeAccept, TakeOther
<1>3. ASSUME NEW d \in Conns, TakeListen(w, d),
             UNCHANGED life \/ life' = [life EXCEPT ![d] = "freed"],
             \A c \in Conns : c # d => header'[c] = header[c]
      PROVE  Good
  <2>1. InPort(d) /\ PortLoses(d) /\ at[w] = "wait"
    BY <1>1, <1>3 DEF TakeListen
  <2>2. /\ at'[w] = "process" /\ conn'[w] = d
        /\ \A v \in Workers : v # w => at'[v] = at[v] /\ conn'[v] = conn[v]
        /\ UNCHANGED <<listed, strayed, realm, eventType, remote, posted>>
    BY <1>3 DEF TakeListen, Goto, TypeOK
  <2>3. HandsTake(w, d)
    BY <2>1, <2>2 DEF HandsTake, Holds, Holding
  <2>4. posted[d] = 0 /\ ~ Fresh(d)
    <3>1. posted[d] \in Nat /\ posted[d] <= 1 /\ posted[d] # 1
      BY <2>1 DEF Rest, OneReader, TypeOK
    <3>2. ~ Fresh(d)
      BY <2>1 DEF Rest, FreshInv, Fresh
    <3> QED
      BY <3>1, <3>2
  <2>5. Ages
    <3>1. CASE UNCHANGED life
      BY <2>2, <3>1 DEF Ages
    <3>2. CASE life' = [life EXCEPT ![d] = "freed"]
      <4>1. life'[d] = "freed" /\ \A c \in Conns : c # d => life'[c] = life[c]
        BY <3>2 DEF TypeOK
      <4>2. posted'[d] = 0 /\ ~ InPort(d)'
        BY <2>1, <2>2, <2>4 DEF PortLoses
      <4> QED
        BY <2>2, <2>4, <4>1, <4>2 DEF Ages
    <3> QED
      BY <1>3, <3>1, <3>2
  <2>6. Settled
    BY <2>2, Frame
  <2> QED
    BY <1>3, <2>1, <2>2, <2>3, <2>5, <2>6, TakeStep DEF Good, Receiver!Next
<1>4. CASE TakeCommand(w)
  BY <1>3, <1>4 DEF TakeCommand
<1>5. CASE TakeHangUp(w)
  <2>1. PICK d \in Conns : /\ TakeListen(w, d) /\ life' = [life EXCEPT ![d] = "freed"]
                           /\ \E k \in Commands : header' = [header EXCEPT ![d] = k]
    BY <1>5 DEF TakeHangUp
  <2>2. \A c \in Conns : c # d => header'[c] = header[c]
    BY <2>1 DEF TypeOK
  <2> QED
    BY <1>3, <2>1, <2>2
<1> QED
  BY <1>2, <1>4, <1>5

(* A worker that holds a connection.                                        *)
LEMMA HolderGood ==
  ASSUME TypeOK, TypeOK', Rest, NEW w \in Workers, at[w] \in Holding, Worker(w)
  PROVE  Good
<1> USE DEF object, locals
<1>1. PICK d \in Conns : d = conn[w] /\ Holds(w, d)
  BY Held
<1>2. CASE Ignore(w)
  <2>1. Unheard(d)
    BY <1>1, <1>2 DEF Ignore, Unheard
  <2>2. HandsBack(w) /\ SamePort /\ Ages /\ Settled
    BY <1>2, Finished, Frame DEF Ignore
  <2> QED
    BY <1>1, <1>2, <2>1, <2>2, ReleaseGood DEF Ignore
<1>3. CASE RearmOnly(w) \/ Refuse(w) \/ RearmReceived(w) \/ RearmFailed(w)
  <2>1. HandsBack(w)
    <3>1. CASE RearmOnly(w)
      BY <3>1, Finished DEF RearmOnly
    <3>2. CASE Refuse(w)
      BY <3>2, Moved DEF Refuse, Holding
    <3>3. CASE RearmReceived(w) \/ RearmFailed(w)
      BY <3>3, Moved DEF RearmReceived, RearmFailed, RearmThen, Holding
    <3> QED
      BY <1>3, <3>1, <3>2, <3>3
  <2>2. Rearm(d) /\ UNCHANGED <<port, object, remote, header>>
    BY <1>1, <1>3 DEF RearmOnly, Refuse, RearmReceived, RearmFailed, RearmThen
  <2> QED
    BY <1>1, <2>1, <2>2, RearmGood
<1>4. CASE Connect(w)
  <2>1. /\ at[w] = "process"
        /\ UNCHANGED <<realm, eventType, remote, header, posted, port>>
        /\ \/ Remove(w) /\ Finish(w)
           \/ DisconnectStuck(w)
    BY <1>4 DEF Connect, Processing
  <2>2. Ages /\ Settled /\ SamePort
    BY <1>1, <2>1, Removed, Frame
  <2>3. CASE Finish(w)
    <3>1. Unheard(d)
      BY <1>1, <1>4 DEF Connect, Processing, Unheard
    <3> QED
      BY <1>1, <2>1, <2>2, <2>3, <3>1, Finished, ReleaseGood
  <2>4. CASE DisconnectStuck(w)
    <3>1. SameHands
      BY <2>1, <2>4, Moved DEF DisconnectStuck, Holding
    <3> QED
      BY <2>1, <2>2, <3>1, QuietGood
  <2> QED
    BY <2>1, <2>3, <2>4
<1>5. CASE Forward(w)
  <2>1. SameHands
    BY <1>5, Moved DEF Forward, Holding
  <2> QED
    BY <1>5, <2>1, Frame, QuietGood DEF Forward
<1>6. CASE RecvFields(w) \/ RecvBody(w)
  <2>1. /\ UNCHANGED <<realm, eventType, remote, header, posted, port, conn>>
        /\ \E place \in {"body", "rearm", "failed", "stuck"} : Goto(w, place)
        /\ UNCHANGED tables \/ Remove(w) \/ DisconnectStuck(w)
    BY <1>6 DEF RecvFields, RecvBody, RecvPart, DisconnectStuck
  <2>2. SameHands
    BY <2>1, Moved DEF Holding
  <2>3. Ages
    BY <1>1, <2>1, Frame, Removed
  <2> QED
    BY <2>1, <2>2, <2>3, Frame, QuietGood
<1>7. TakeAccept(w) \/ TakeOther(w) \/ TakeCommand(w) \/ TakeHangUp(w) => at[w] = "wait"
  BY DEF TakeAccept, TakeOther, TakeCommand, TakeHangUp, TakeListen, Take
<1>8. SendError(w) \/ Lookup(w) \/ LookupStuck(w) \/ Send(w) \/ SendStuck(w) =>
        at[w] \in {"error", "lookup", "send"}
  BY DEF SendError, Lookup, LookupStuck, Send, SendStuck
<1> QED
  BY <1>2, <1>3, <1>4, <1>5, <1>6, <1>7, <1>8 DEF Worker, Holding

(* A worker that has posted the receive again.                              *)
LEMMA AfterRearmGood ==
  ASSUME TypeOK, TypeOK', Rest, NEW w \in Workers,
         SendError(w) \/ Lookup(w) \/ LookupStuck(w) \/ Send(w) \/ SendStuck(w)
  PROVE  Good
<1> USE DEF object, locals
<1>1. UNCHANGED <<tables, realm, eventType, remote, header, posted, port>>
  BY DEF SendError, Lookup, LookupStuck, Send, SendStuck
<1>2. SameHands
  <2>1. at[w] \in {"error", "lookup", "send"}
    BY DEF SendError, Lookup, LookupStuck, Send, SendStuck
  <2>2. CASE Finish(w) \/ End(w)
    BY <2>1, <2>2, Finished DEF Holding
  <2>3. CASE Lookup(w)
    <3>1. UNCHANGED conn /\ \E place \in {"error", "send"} : Goto(w, place)
      BY <2>3 DEF Lookup
    <3> QED
      BY <2>1, <3>1, Moved DEF Holding
  <2> QED
    BY <2>2, <2>3 DEF SendError, LookupStuck, Send, SendStuck
<1> QED
  BY <1>1, <1>2, Frame, QuietGood

(* Every step keeps the invariant, and is a step of the batons or none      *)
(* of theirs.                                                               *)
LEMMA StepGood ==
  ASSUME IInv, [Next]_vars
  PROVE  IInv' /\ Good
<1>1. TypeOK /\ TypeOK' /\ Rest
  BY TypeStep DEF IInv, Rest
<1>2. ASSUME NEW w \in Workers, Worker(w) PROVE Good
  <2>1. at[w] \in Holding \/ TakeAccept(w) \/ TakeOther(w) \/ TakeCommand(w) \/ TakeHangUp(w)
          \/ SendError(w) \/ Lookup(w) \/ LookupStuck(w) \/ Send(w) \/ SendStuck(w)
    BY <1>2 DEF Worker, Ignore, RearmOnly, Refuse, Connect, Forward, Processing, RecvFields,
       RecvBody, RecvPart, RearmReceived, RearmFailed, RearmThen, Holding
  <2> QED
    BY <1>1, <1>2, <2>1, HolderGood, TakeGood, AfterRearmGood
<1>3. ASSUME UNCHANGED vars PROVE Good
  <2>1. UNCHANGED <<tables, realm, eventType, remote, header, posted, port, at, conn>>
    BY <1>3 DEF vars, object, locals
  <2>2. SamePort /\ SameHands /\ Ages /\ Settled /\ UNCHANGED <<posted, header>>
    BY <1>1, <2>1, Frame
  <2> QED
    BY <1>1, <2>2, QuietGood
<1>4. Good
  BY <1>1, <1>2, <1>3, EnvironmentGood DEF Next
<1>5. Rest'
  BY <1>4 DEF Good
<1>6. IInv'
  BY <1>1, <1>5 DEF Rest, IInv
<1> QED
  BY <1>4, <1>6

(* The invariant holds before any connection is accepted.                   *)
LEMMA InitIInv == Init => IInv /\ Receiver!Init
<1> SUFFICES ASSUME Init PROVE IInv /\ Receiver!Init
  OBVIOUS
<1> USE DEF Init
<1>1. DataTypes
  BY LoopAssumption DEF DataTypes
<1>2. WorkerTypes
  BY LoopAssumption DEF WorkerTypes, Places
<1>3. \A c \in Conns : ~ InPort(c) /\ Once(c) /\ \A w \in Workers : ~ Holds(w, c)
  BY DEF InPort, Once, Holds, Holding
<1>4. OneReader /\ ListenedTo /\ NothingPendingOnFreed /\ FreshInv /\ StrayInv
  BY <1>3 DEF OneReader, ListenedTo, NothingPendingOnFreed, FreshInv, StrayInv
<1>5. Receiver!Init
  BY DEF Receiver!Init, receiver, Where
<1> QED
  BY <1>1, <1>2, <1>4, <1>5, Types DEF IInv

(* The strengthened invariant holds whatever the remotes do, however the    *)
(* workers are scheduled and whatever using a freed connection does.        *)
THEOREM Invariance == Spec => []IInv
<1>1. IInv /\ [Next]_vars => IInv'
  BY StepGood
<1> QED
  BY <1>1, InitIInv, PTL DEF Spec

(* The variables keep their types; who waits has no connection, and only    *)
(* who sends has a destination.                                             *)
THEOREM TypeCorrect == Spec => []TypeOK
<1>1. IInv => TypeOK
  BY DEF IInv
<1> QED
  BY <1>1, Invariance, PTL

(* No connection is read by two, nor by one and the port.                   *)
THEOREM ReadByOne == Spec => []OneReader
<1>1. IInv => OneReader
  BY DEF IInv
<1> QED
  BY <1>1, Invariance, PTL

(* No handler forgets to listen again.                                      *)
THEOREM NobodyForgotten == Spec => []ListenedTo
<1>1. IInv => ListenedTo
  BY DEF IInv
<1> QED
  BY <1>1, Invariance, PTL

(* The handler that frees its own connection leaves nothing pending on it.  *)
THEOREM NothingPending == Spec => []NothingPendingOnFreed
<1>1. IInv => NothingPendingOnFreed
  BY DEF IInv
<1> QED
  BY <1>1, Invariance, PTL

(* The event loop hands the receive of each connection on as a baton.       *)
THEOREM BatonRefinement == Spec => ImplementsBaton
<1>1. IInv /\ [Next]_vars => [Receiver!Next]_receiver
  BY StepGood DEF Good
<1> QED
  BY <1>1, InitIInv, Invariance, PTL DEF Spec, ImplementsBaton, Receiver!Spec

-----------------------------------------------------------------------------
(* The daemon as it is: every connection keeps the event type 0 that        *)
(* initializeNewTCPConnection gives it.                                     *)

(* Every worker waits, nothing is disposed of, and so nothing that was      *)
(* disposed of is used.                                                     *)
NothingHandled == \A w \in Workers : at[w] = "wait"
NothingFreed == \A c \in Conns : ~ Freed(c)

(* No command and no hang-up is ever handled: the workers take completions  *)
(* out of the port and drop them.  (The run events_data shows the drop; the *)
(* handlers' faults below it are never reached either.)                     *)
THEOREM AsShippedNothingIsHandled ==
  ASSUME EventTypes \subseteq {"accept"}
  PROVE  Spec => [](NothingHandled /\ NothingFreed /\ DisposedNotUsed)
<1> DEFINE Idle == NothingHandled /\ NothingFreed
<1>1. Init => Idle
  BY DEF Init, NothingHandled, NothingFreed, Freed
<1>2. ASSUME TypeOK, Idle, [Next]_vars PROVE Idle'
  <2> USE <1>2 DEF NothingHandled, NothingFreed, Freed, object, tables, locals
  <2>1. ASSUME NEW w \in Workers, Worker(w)
        PROVE  TakeAccept(w)
    <3>1. ASSUME NEW c \in Conns PROVE ~ TakeListen(w, c) /\ ~ Take(w, c, "other")
      BY LoopAssumption DEF TakeListen, Take, EventOf, TypeOK
    <3>2. at[w] = "wait"
      OBVIOUS
    <3> QED
      BY <2>1, <3>1, <3>2 DEF Worker, TakeOther, TakeCommand, TakeHangUp, Ignore, RearmOnly, Refuse,
         Connect, Forward, Processing, RecvFields, RecvBody, RecvPart, RearmReceived,
         RearmFailed, RearmThen, SendError, Lookup, LookupStuck, Send, SendStuck
  <2>2. ASSUME NEW w \in Workers, TakeAccept(w) PROVE Idle'
    BY <2>2 DEF TakeAccept
  <2>3. ASSUME NEW c \in Conns, Register(c) \/ Receive(c) \/ HangUp(c) \/ ReceiveNothing(c)
        PROVE  Idle'
    BY <2>3 DEF Register, Receive, HangUp, ReceiveNothing, TypeOK
  <2>4. CASE CloseWorkerThreads
    BY <2>4 DEF CloseWorkerThreads
  <2>5. CASE UNCHANGED vars
    BY <2>5 DEF vars
  <2> QED
    BY <2>1, <2>2, <2>3, <2>4, <2>5 DEF Next
<1>3. TypeOK /\ Idle => NothingHandled /\ NothingFreed /\ DisposedNotUsed
  BY DEF NothingHandled, DisposedNotUsed, Using
<1> QED
  BY <1>1, <1>2, <1>3, TypeCorrect, PTL DEF Spec

=============================================================================
