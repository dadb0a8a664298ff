--------------------------- MODULE AcceptLoopProofs ---------------------------
(* The safety of AcceptLoop for any number of remotes, any budget and any  *)
(* outcome of the accesses outside an object.                              *)
EXTENDS AcceptLoop, FiniteSetTheorems, SequenceTheorems, TLAPS

(* The realms and the counters of their tables.                            *)
LEMMA AllocatedNat ==
  ASSUME slots \in [Realms -> Nat]
  PROVE  Allocated \in Nat
BY DEF Allocated, Realms, POLY_REALM_PEER, POLY_REALM_SERVICE, POLY_REALM_CLIENT

(* One more object in one of the tables.                                   *)
LEMMA AllocateOne ==
  ASSUME slots \in [Realms -> Nat], NEW m \in Realms,
         slots' = [slots EXCEPT ![m] = @ + 1]
  PROVE  slots' \in [Realms -> Nat] /\ Allocated' = Allocated + 1 /\ slots'[m] > 0
<1> USE DEF Realms, POLY_REALM_PEER, POLY_REALM_SERVICE, POLY_REALM_CLIENT
<1>1. slots[0] \in Nat /\ slots[1] \in Nat /\ slots[2] \in Nat
  OBVIOUS
<1>2. slots' \in [Realms -> Nat] /\ slots'[m] > 0
  OBVIOUS
<1>3. CASE m = 0
  BY <1>1, <1>3 DEF Allocated
<1>4. CASE m = 1
  BY <1>1, <1>4 DEF Allocated
<1>5. CASE m = 2
  BY <1>1, <1>5 DEF Allocated
<1> QED
  BY <1>2, <1>3, <1>4, <1>5

(* Freeing by an ID that may be wrong takes away one object or none.       *)
LEMMA FreeOne ==
  ASSUME slots \in [Realms -> Nat], realm \in Realms, slots[realm] > 0, FreeByGarbageId
  PROVE  slots' \in [Realms -> Nat] /\ Allocated' \in Nat /\ Allocated' <= Allocated
<1> USE DEF Realms, POLY_REALM_PEER, POLY_REALM_SERVICE, POLY_REALM_CLIENT
<1>1. slots[0] \in Nat /\ slots[1] \in Nat /\ slots[2] \in Nat
  OBVIOUS
<1>2. slots' \in [Realms -> Nat]
  BY DEF FreeByGarbageId
<1>3. slots'[0] <= slots[0] /\ slots'[1] <= slots[1] /\ slots'[2] <= slots[2]
  BY <1>1 DEF FreeByGarbageId
<1> QED
  BY <1>1, <1>2, <1>3 DEF Allocated

(* The registered connections are finitely many.                           *)
LEMMA RegisteredFinite ==
  IsFiniteSet(Registered) /\ Cardinality(Registered) \in Nat
<1>1. Registered \in SUBSET Remotes
  BY DEF Registered
<1> QED
  BY <1>1, AcceptAssumption, FS_Subset, FS_CardinalityType

(* Numbers below a number below the limit.                                 *)
LEMMA AtMost ==
  ASSUME NEW a \in Nat, NEW b \in Nat, NEW c \in Nat, a <= b, b <= c
  PROVE  a + 0 <= c
OBVIOUS

LEMMA InitIInv == Init => IInv
<1> SUFFICES ASSUME Init PROVE IInv
  OBVIOUS
<1> USE DEF Init
<1>1. TypeOK
  <2>1. backlog \in Seq(Remotes) /\ Len(backlog) = 0
    OBVIOUS
  <2>2. slots \in [Realms -> Nat]
    OBVIOUS
  <2>3. numConnections \in 0 .. maxConnections /\ strings \in 0 .. StringStorage
    BY AcceptAssumption
  <2>4. /\ pc \in PCs /\ socket \in Remotes \cup {NoRemote} /\ realm \in Realms
        /\ sock \in [Remotes -> {"none", "queued", "open", "closed", "armed", "deaf"}]
        /\ told \in [Remotes -> {"nothing", "full", "pass"}]
        /\ unread \in [Remotes -> BOOLEAN]
        /\ isShutdown \in BOOLEAN /\ winsock \in BOOLEAN
    BY DEF PCs, Realms
  <2> QED
    BY <2>1, <2>2, <2>3, <2>4 DEF TypeOK
<1>2. WithinBudget
  <2>1. Registered = {} /\ Allocated = 0
    BY DEF Registered, Allocated, Realms, POLY_REALM_PEER, POLY_REALM_SERVICE, POLY_REALM_CLIENT
  <2> QED
    BY <2>1, FS_EmptySet DEF WithinBudget, Handshake
<1>3. NoSocketLost /\ PassMeansIn /\ QueueInv /\ CurrentInv /\ HeldInv
  BY DEF NoSocketLost, PassMeansIn, QueueInv, CurrentInv, HeldInv, Handshake
<1> QED
  BY <1>1, <1>2, <1>3 DEF IInv

(* A remote opens a connection.                                            *)
LEMMA ConnectIInv ==
  ASSUME IInv, NEW r \in Remotes, Connect(r)
  PROVE  IInv'
<1> USE DEF IInv, Connect, environment, budget, shutdownVars, Handshake
<1>1. TypeOK'
  BY AcceptAssumption DEF TypeOK
<1>2. WithinBudget'
  BY RegisteredFinite, AllocatedNat DEF WithinBudget, TypeOK, Registered, Allocated
<1>3. NoSocketLost'
  BY DEF NoSocketLost, TypeOK, CurrentInv, HeldInv
<1>4. PassMeansIn'
  BY AcceptAssumption DEF PassMeansIn, Registered, TypeOK, CurrentInv, QueueInv, HeldInv
<1>5. QueueInv'
  <2>1. /\ backlog' = Append(backlog, r) /\ r \in Remotes
        /\ sock' = [sock EXCEPT ![r] = "queued"]
        /\ told' = [told EXCEPT ![r] = "nothing"]
        /\ sock[r] # "queued"
    OBVIOUS
  <2>2. /\ Len(backlog') = Len(backlog) + 1
        /\ \A i \in 1 .. Len(backlog) : backlog'[i] = backlog[i]
        /\ backlog'[Len(backlog) + 1] = r
        /\ Len(backlog) \in Nat
        /\ \A i \in 1 .. Len(backlog) : backlog[i] \in Remotes
    BY <2>1, AppendProperties, ElementOfSeq, LenProperties DEF TypeOK
  <2>3. \A i \in 1 .. Len(backlog') : i \in 1 .. Len(backlog) \/ i = Len(backlog) + 1
    BY <2>2
  <2>4. \A i \in 1 .. Len(backlog) : backlog'[i] # r /\ sock'[backlog'[i]] = "queued"
    BY <2>1, <2>2 DEF QueueInv, TypeOK
  <2>5. sock'[r] = "queued" /\ told'[r] = "nothing"
    BY <2>1 DEF TypeOK
  <2>6. \A q \in Remotes : sock'[q] = "queued" => told'[q] = "nothing"
    BY <2>1, <2>5 DEF QueueInv, TypeOK
  <2>7. \A i, j \in 1 .. Len(backlog') : backlog'[i] = backlog'[j] => i = j
    BY <2>2, <2>3, <2>4 DEF QueueInv
  <2> QED
    BY <2>2, <2>3, <2>4, <2>5, <2>6, <2>7 DEF QueueInv
<1>6. CurrentInv'
  BY AcceptAssumption DEF CurrentInv, TypeOK, QueueInv
<1>7. HeldInv'
  BY DEF HeldInv, TypeOK
<1> QED
  BY <1>1, <1>2, <1>3, <1>4, <1>5, <1>6, <1>7

(* Bytes of a remote arrive.                                               *)
LEMMA ArriveIInv ==
  ASSUME IInv, NEW r \in Remotes, Arrive(r)
  PROVE  IInv'
<1> USE DEF IInv, Arrive, environment, budget, shutdownVars, Handshake
<1>1. TypeOK'
  BY AcceptAssumption DEF TypeOK
<1>2. WithinBudget'
  BY RegisteredFinite, AllocatedNat DEF WithinBudget, TypeOK, Registered, Allocated
<1>3. NoSocketLost'
  BY DEF NoSocketLost, TypeOK, CurrentInv, HeldInv
<1>4. PassMeansIn'
  BY AcceptAssumption DEF PassMeansIn, Registered, TypeOK, CurrentInv, QueueInv, HeldInv
<1>5. QueueInv'
  BY AcceptAssumption DEF QueueInv, TypeOK, CurrentInv
<1>6. CurrentInv'
  BY AcceptAssumption DEF CurrentInv, TypeOK, QueueInv
<1>7. HeldInv'
  BY DEF HeldInv, TypeOK
<1> QED
  BY <1>1, <1>2, <1>3, <1>4, <1>5, <1>6, <1>7

(* A connection is taken from the queue.                                   *)
LEMMA AcceptIInv ==
  ASSUME IInv, Accept
  PROVE  IInv'
<1> USE DEF IInv, Accept, environment, budget, shutdownVars, Handshake, PCs
<1>1. TypeOK'
  <2>1. /\ socket' \in Remotes \cup {NoRemote}
        /\ sock' \in [Remotes -> {"none", "queued", "open", "closed", "armed", "deaf"}]
        /\ backlog' \in Seq(Remotes)
    <3>1. CASE winsock
      <4>1. Head(backlog) \in Remotes /\ Tail(backlog) \in Seq(Remotes)
        BY <3>1, HeadTailProperties DEF TypeOK
      <4> QED
        BY <3>1, <4>1 DEF TypeOK
    <3>2. CASE ~ winsock
      BY <3>2 DEF TypeOK
    <3> QED
      BY <3>1, <3>2
  <2> QED
    BY <2>1 DEF TypeOK
<1>2. WithinBudget'
  <2>1. Registered' = Registered
    <3>1. CASE winsock
      <4>1. sock[Head(backlog)] = "queued" /\ Head(backlog) \in Remotes
        BY <3>1, LenProperties, EmptySeq, HeadTailProperties DEF QueueInv, TypeOK
      <4> QED
        BY <3>1, <4>1 DEF Registered, TypeOK
    <3>2. CASE ~ winsock
      BY <3>2 DEF Registered
    <3> QED
      BY <3>1, <3>2
  <2> QED
    BY <2>1 DEF WithinBudget, Allocated
<1>3. NoSocketLost'
  BY DEF NoSocketLost, TypeOK, CurrentInv, HeldInv
<1>4. PassMeansIn'
  BY AcceptAssumption DEF PassMeansIn, Registered, TypeOK, CurrentInv, QueueInv, HeldInv
<1>5. QueueInv'
  <2>1. CASE ~ winsock
    BY <2>1 DEF QueueInv
  <2>2. CASE winsock
    <3> DEFINE q == Head(backlog)
    <3>1. /\ backlog # <<>> /\ backlog' = Tail(backlog)
          /\ sock' \in {[sock EXCEPT ![q] = "open"], [sock EXCEPT ![q] = "closed"]}
          /\ told' = told
      BY <2>2
    <3>2. /\ q \in Remotes /\ q = backlog[1]
          /\ Len(backlog) \in Nat /\ Len(backlog) > 0
          /\ Len(backlog') = Len(backlog) - 1
          /\ \A i \in 1 .. Len(backlog') : backlog'[i] = backlog[i + 1]
          /\ \A i \in 1 .. Len(backlog) : backlog[i] \in Remotes
      BY <3>1, HeadTailProperties, LenProperties, EmptySeq, ElementOfSeq DEF TypeOK
    <3> HIDE DEF q
    <3>3. \A i \in 1 .. Len(backlog') : i + 1 \in 1 .. Len(backlog) /\ i + 1 # 1
      BY <3>2
    <3>4. \A i \in 1 .. Len(backlog') : backlog'[i] # q /\ backlog'[i] \in Remotes
      BY <3>2, <3>3 DEF QueueInv
    <3>5. \A i \in 1 .. Len(backlog') : sock'[backlog'[i]] = "queued"
      <4>1. \A i \in 1 .. Len(backlog') : sock[backlog'[i]] = "queued"
        BY <3>2, <3>3 DEF QueueInv
      <4>2. \A p \in Remotes : p # q => sock'[p] = sock[p]
        BY <3>1 DEF TypeOK
      <4> QED
        BY <3>4, <4>1, <4>2
    <3>6. \A i, j \in 1 .. Len(backlog') : backlog'[i] = backlog'[j] => i = j
      <4> SUFFICES ASSUME NEW i \in 1 .. Len(backlog'), NEW j \in 1 .. Len(backlog'),
                          backlog'[i] = backlog'[j]
                   PROVE  i = j
        OBVIOUS
      <4>1. i + 1 = j + 1
        BY <3>2, <3>3 DEF QueueInv
      <4> QED
        BY <4>1
    <3>7. \A p \in Remotes : sock'[p] = "queued" => told'[p] = "nothing"
      BY <3>1, <3>2 DEF QueueInv, TypeOK
    <3> QED
      BY <3>5, <3>6, <3>7 DEF QueueInv
  <2> QED
    BY <2>1, <2>2
<1>6. CurrentInv'
  BY AcceptAssumption DEF CurrentInv, TypeOK, QueueInv
<1>7. HeldInv'
  BY DEF HeldInv, TypeOK
<1> QED
  BY <1>1, <1>2, <1>3, <1>4, <1>5, <1>6, <1>7

(* The loop ends.                                                          *)
LEMMA LeaveIInv ==
  ASSUME IInv, Leave
  PROVE  IInv'
<1> USE DEF IInv, Leave, environment, budget, shutdownVars, Handshake, PCs, Dead
<1>1. TypeOK'
  BY AcceptAssumption DEF TypeOK
<1>2. WithinBudget'
  BY RegisteredFinite, AllocatedNat DEF WithinBudget, TypeOK, Registered, Allocated
<1>3. NoSocketLost'
  BY DEF NoSocketLost, TypeOK, CurrentInv, HeldInv
<1>4. PassMeansIn'
  BY AcceptAssumption DEF PassMeansIn, Registered, TypeOK, CurrentInv, QueueInv, HeldInv
<1>5. QueueInv'
  BY AcceptAssumption DEF QueueInv, TypeOK, CurrentInv
<1>6. CurrentInv'
  BY AcceptAssumption DEF CurrentInv, TypeOK, QueueInv
<1>7. HeldInv'
  BY DEF HeldInv, TypeOK
<1> QED
  BY <1>1, <1>2, <1>3, <1>4, <1>5, <1>6, <1>7

(* A connection is turned away.                                            *)
LEMMA RefuseIInv ==
  ASSUME IInv, Refuse
  PROVE  IInv'
<1> USE DEF IInv, Refuse, environment, budget, shutdownVars, Handshake, PCs, Tell, Close, Live
<1>1. TypeOK'
  BY AcceptAssumption DEF TypeOK
<1>2. WithinBudget'
  <2>1. Registered' \in SUBSET Registered
    BY AcceptAssumption DEF Registered, TypeOK
  <2>2. Cardinality(Registered') \in Nat /\ Cardinality(Registered') <= Cardinality(Registered)
    BY <2>1, RegisteredFinite, FS_Subset, FS_CardinalityType
  <2> QED
    BY <2>2, RegisteredFinite, AllocatedNat DEF WithinBudget, Allocated, TypeOK
<1>3. NoSocketLost'
  BY AcceptAssumption DEF NoSocketLost, TypeOK
<1>4. PassMeansIn'
  BY AcceptAssumption DEF PassMeansIn, Registered, TypeOK, CurrentInv, QueueInv, HeldInv
<1>5. QueueInv'
  BY AcceptAssumption DEF QueueInv, TypeOK, CurrentInv
<1>6. CurrentInv'
  BY AcceptAssumption DEF CurrentInv, TypeOK, QueueInv
<1>7. HeldInv'
  BY DEF HeldInv, TypeOK
<1> QED
  BY <1>1, <1>2, <1>3, <1>4, <1>5, <1>6, <1>7

(* A connection is counted.                                                *)
LEMMA AdmitIInv ==
  ASSUME IInv, Admit
  PROVE  IInv'
<1> USE DEF IInv, Admit, environment, budget, shutdownVars, Handshake, PCs
<1>1. TypeOK'
  BY AcceptAssumption DEF TypeOK
<1>2. WithinBudget'
  BY RegisteredFinite, AllocatedNat DEF WithinBudget, TypeOK, Registered, Allocated
<1>3. NoSocketLost'
  BY DEF NoSocketLost, TypeOK, CurrentInv, HeldInv
<1>4. PassMeansIn'
  BY AcceptAssumption DEF PassMeansIn, Registered, TypeOK, CurrentInv, QueueInv, HeldInv
<1>5. QueueInv'
  <2>1. sock' = sock /\ told' = told /\ backlog' = backlog
    OBVIOUS
  <2> QED
    BY <2>1 DEF QueueInv
<1>6. CurrentInv'
  BY AcceptAssumption DEF CurrentInv, TypeOK, QueueInv
<1>7. HeldInv'
  BY DEF HeldInv, TypeOK
<1> QED
  BY <1>1, <1>2, <1>3, <1>4, <1>5, <1>6, <1>7

(* The greeting is sent.                                                   *)
LEMMA GreetIInv ==
  ASSUME IInv, Greet
  PROVE  IInv'
<1> USE DEF IInv, Greet, environment, budget, shutdownVars, Handshake, PCs, Dead
<1>1. TypeOK'
  BY AcceptAssumption DEF TypeOK
<1>2. WithinBudget'
  BY RegisteredFinite, AllocatedNat DEF WithinBudget, TypeOK, Registered, Allocated
<1>3. NoSocketLost'
  <2>1. pc' # "accept" /\ sock' = sock /\ socket' = socket /\ isShutdown' = isShutdown
    BY AcceptAssumption
  <2> QED
    BY <2>1 DEF NoSocketLost
<1>4. PassMeansIn'
  BY AcceptAssumption DEF PassMeansIn, Registered, TypeOK, CurrentInv, QueueInv, HeldInv
<1>5. QueueInv'
  BY AcceptAssumption DEF QueueInv, TypeOK, CurrentInv
<1>6. CurrentInv'
  BY AcceptAssumption DEF CurrentInv, TypeOK, QueueInv
<1>7. HeldInv'
  <2>1. pc' \notin {"addString", "string", "reply"}
    BY AcceptAssumption
  <2> QED
    BY <2>1 DEF HeldInv
<1> QED
  BY <1>1, <1>2, <1>3, <1>4, <1>5, <1>6, <1>7

(* The encryption setting is received.                                     *)
LEMMA RecvEncryptionIInv ==
  ASSUME IInv, RecvEncryption
  PROVE  IInv'
<1> USE DEF IInv, RecvEncryption, environment, budget, shutdownVars, Handshake, PCs, Received, ReceiveFails
<1>1. TypeOK'
  BY AcceptAssumption DEF TypeOK
<1>2. WithinBudget'
  BY RegisteredFinite, AllocatedNat DEF WithinBudget, TypeOK, Registered, Allocated
<1>3. NoSocketLost'
  BY DEF NoSocketLost, TypeOK, CurrentInv, HeldInv
<1>4. PassMeansIn'
  BY AcceptAssumption DEF PassMeansIn, Registered, TypeOK, CurrentInv, QueueInv, HeldInv
<1>5. QueueInv'
  <2>1. sock' = sock /\ told' = told /\ backlog' = backlog
    OBVIOUS
  <2> QED
    BY <2>1 DEF QueueInv
<1>6. CurrentInv'
  BY AcceptAssumption DEF CurrentInv, TypeOK, QueueInv
<1>7. HeldInv'
  BY DEF HeldInv, TypeOK
<1> QED
  BY <1>1, <1>2, <1>3, <1>4, <1>5, <1>6, <1>7

(* The realm is received.                                                  *)
LEMMA RecvRealmIInv ==
  ASSUME IInv, RecvRealm
  PROVE  IInv'
<1> USE DEF IInv, RecvRealm, environment, budget, shutdownVars, Handshake, PCs, Received, ReceiveFails
<1>1. TypeOK'
  BY AcceptAssumption DEF TypeOK
<1>2. WithinBudget'
  BY RegisteredFinite, AllocatedNat DEF WithinBudget, TypeOK, Registered, Allocated
<1>3. NoSocketLost'
  BY DEF NoSocketLost, TypeOK, CurrentInv, HeldInv
<1>4. PassMeansIn'
  BY AcceptAssumption DEF PassMeansIn, Registered, TypeOK, CurrentInv, QueueInv, HeldInv
<1>5. QueueInv'
  BY AcceptAssumption DEF QueueInv, TypeOK, CurrentInv
<1>6. CurrentInv'
  BY AcceptAssumption DEF CurrentInv, TypeOK, QueueInv
<1>7. HeldInv'
  BY DEF HeldInv, TypeOK
<1> QED
  BY <1>1, <1>2, <1>3, <1>4, <1>5, <1>6, <1>7

(* The size of a service string is received.                               *)
LEMMA RecvSizeIInv ==
  ASSUME IInv, RecvSize
  PROVE  IInv'
<1> USE DEF IInv, RecvSize, environment, budget, shutdownVars, Handshake, PCs, Received, ReceiveFails
<1>1. TypeOK'
  BY AcceptAssumption DEF TypeOK
<1>2. WithinBudget'
  BY RegisteredFinite, AllocatedNat DEF WithinBudget, TypeOK, Registered, Allocated
<1>3. NoSocketLost'
  BY DEF NoSocketLost, TypeOK, CurrentInv, HeldInv
<1>4. PassMeansIn'
  BY AcceptAssumption DEF PassMeansIn, Registered, TypeOK, CurrentInv, QueueInv, HeldInv
<1>5. QueueInv'
  <2>1. sock' = sock /\ told' = told /\ backlog' = backlog
    OBVIOUS
  <2> QED
    BY <2>1 DEF QueueInv
<1>6. CurrentInv'
  BY AcceptAssumption DEF CurrentInv, TypeOK, QueueInv
<1>7. HeldInv'
  BY DEF HeldInv, TypeOK
<1> QED
  BY <1>1, <1>2, <1>3, <1>4, <1>5, <1>6, <1>7

(* A slot is taken.                                                        *)
LEMMA AllocateIInv ==
  ASSUME IInv, Allocate
  PROVE  IInv'
<1> USE DEF IInv, Allocate, environment, budget, shutdownVars, Handshake, PCs, Dead
<1>a. \/ slots' = [slots EXCEPT ![realm] = @ + 1] /\ pc' \in {"addString", "reply"}
      \/ slots' = slots /\ pc' \in {"hung", "faulted"}
  BY AcceptAssumption
<1>b. realm \in Realms /\ slots \in [Realms -> Nat]
  BY DEF TypeOK
<1>1. TypeOK'
  BY <1>a, <1>b, AllocateOne DEF TypeOK
<1>2. WithinBudget'
  <2>1. Registered' = Registered
    BY DEF Registered
  <2>2. CASE slots' = slots /\ pc' \in {"hung", "faulted"}
    BY <2>1, <2>2, RegisteredFinite, AllocatedNat, <1>b DEF WithinBudget, Allocated, TypeOK
  <2>3. CASE slots' = [slots EXCEPT ![realm] = @ + 1] /\ pc' \in {"addString", "reply"}
    <3>1. Allocated' = Allocated + 1
      BY <1>b, <2>3, AllocateOne
    <3>2. Allocated + 1 <= numConnections /\ Cardinality(Registered) + 1 <= numConnections
      BY DEF WithinBudget
    <3>3. numConnections' = numConnections
      OBVIOUS
    <3> QED
      BY <2>1, <2>3, <3>1, <3>2, <3>3, <1>b, AllocatedNat DEF WithinBudget, TypeOK
  <2> QED
    BY <1>a, <2>2, <2>3
<1>3. NoSocketLost'
  BY <1>a DEF NoSocketLost
<1>4. PassMeansIn'
  BY AcceptAssumption DEF PassMeansIn, Registered, TypeOK, CurrentInv, QueueInv, HeldInv
<1>5. QueueInv'
  BY AcceptAssumption DEF QueueInv, TypeOK, CurrentInv
<1>6. CurrentInv'
  BY AcceptAssumption DEF CurrentInv, TypeOK, QueueInv
<1>7. HeldInv'
  BY <1>a, <1>b, AllocateOne DEF HeldInv
<1> QED
  BY <1>1, <1>2, <1>3, <1>4, <1>5, <1>6, <1>7

(* A service string is taken.                                              *)
LEMMA AddStringIInv ==
  ASSUME IInv, AddString
  PROVE  IInv'
<1> USE DEF IInv, AddString, environment, budget, shutdownVars, Handshake, PCs, Dead
<1>1. TypeOK'
  BY AcceptAssumption DEF TypeOK
<1>2. WithinBudget'
  BY RegisteredFinite, AllocatedNat DEF WithinBudget, TypeOK, Registered, Allocated
<1>3. NoSocketLost'
  BY DEF NoSocketLost, TypeOK, CurrentInv, HeldInv
<1>4. PassMeansIn'
  BY AcceptAssumption DEF PassMeansIn, Registered, TypeOK, CurrentInv, QueueInv, HeldInv
<1>5. QueueInv'
  BY DEF QueueInv
<1>6. CurrentInv'
  BY AcceptAssumption DEF CurrentInv, TypeOK, QueueInv
<1>7. HeldInv'
  BY DEF HeldInv, TypeOK
<1> QED
  BY <1>1, <1>2, <1>3, <1>4, <1>5, <1>6, <1>7

(* The service string is received.                                         *)
LEMMA RecvStringIInv ==
  ASSUME IInv, RecvString
  PROVE  IInv'
<1> USE DEF IInv, RecvString, environment, budget, shutdownVars, Handshake, PCs, Dead, Received, ReceiveFails
<1>a. realm \in Realms /\ slots \in [Realms -> Nat] /\ slots[realm] > 0
  BY DEF TypeOK, HeldInv
<1>b. /\ slots' \in [Realms -> Nat]
      /\ Allocated \in Nat /\ Allocated' \in Nat /\ Allocated' <= Allocated
  <2>1. CASE FreeByGarbageId
    BY <1>a, <2>1, FreeOne, AllocatedNat
  <2>2. CASE slots' = slots
    BY <1>a, <2>2, AllocatedNat DEF Allocated
  <2> QED
    BY <2>1, <2>2
<1>1. TypeOK'
  BY <1>b, AcceptAssumption DEF TypeOK
<1>2. WithinBudget'
  <2>1. Registered' = Registered
    BY DEF Registered
  <2>2. /\ numConnections \in Nat /\ numConnections' = numConnections
        /\ Allocated <= numConnections
        /\ Cardinality(Registered) + 1 <= numConnections
    BY <1>b, RegisteredFinite DEF WithinBudget, TypeOK
  <2>3. pc' \notin {"greet", "encryption", "realm", "size", "allocate"}
    OBVIOUS
  <2>4. Allocated' + 0 <= numConnections'
    <3>1. numConnections' \in Nat /\ Allocated <= numConnections'
      BY <2>2
    <3> HIDE DEF IInv, RecvString
    <3> QED
      BY <1>b, <3>1, AtMost
  <2>5. Cardinality(Registered') = Cardinality(Registered) /\ Cardinality(Registered) \in Nat
    BY <2>1, RegisteredFinite
  <2>6. Cardinality(Registered') + (IF pc' \in Handshake THEN 1 ELSE 0) <= numConnections'
    BY <2>2, <2>5
  <2> QED
    BY <2>3, <2>4, <2>6 DEF WithinBudget
<1>3. NoSocketLost'
  BY DEF NoSocketLost, TypeOK, CurrentInv, HeldInv
<1>4. PassMeansIn'
  BY AcceptAssumption DEF PassMeansIn, Registered, TypeOK, CurrentInv, QueueInv, HeldInv
<1>5. QueueInv'
  BY AcceptAssumption DEF QueueInv, TypeOK, CurrentInv
<1>6. CurrentInv'
  BY AcceptAssumption DEF CurrentInv, TypeOK, QueueInv
<1>7. HeldInv'
  BY DEF HeldInv, TypeOK
<1> QED
  BY <1>1, <1>2, <1>3, <1>4, <1>5, <1>6, <1>7

(* The result code is sent.                                                *)
LEMMA ReplyIInv ==
  ASSUME IInv, Reply
  PROVE  IInv'
<1> USE DEF IInv, Reply, environment, budget, shutdownVars, Handshake, PCs, Tell, Live
<1>a. realm \in Realms /\ slots \in [Realms -> Nat] /\ slots[realm] > 0
  BY DEF TypeOK, HeldInv
<1>b. /\ slots' \in [Realms -> Nat]
      /\ Allocated \in Nat /\ Allocated' \in Nat /\ Allocated' <= Allocated
  <2>1. CASE FreeByGarbageId
    BY <1>a, <2>1, FreeOne, AllocatedNat
  <2>2. CASE slots' = slots
    BY <1>a, <2>2, AllocatedNat DEF Allocated
  <2> QED
    BY <2>1, <2>2
<1>1. TypeOK'
  BY <1>b, AcceptAssumption DEF TypeOK
<1>2. WithinBudget'
  <2>1. Registered' = Registered
    BY DEF Registered
  <2>2. /\ numConnections \in Nat /\ numConnections' = numConnections
        /\ Allocated <= numConnections
        /\ Cardinality(Registered) + 1 <= numConnections
    BY <1>b, RegisteredFinite DEF WithinBudget, TypeOK
  <2>3. pc' \notin {"greet", "encryption", "realm", "size", "allocate"}
    OBVIOUS
  <2>4. Allocated' + 0 <= numConnections'
    <3>1. numConnections' \in Nat /\ Allocated <= numConnections'
      BY <2>2
    <3> HIDE DEF IInv, Reply
    <3> QED
      BY <1>b, <3>1, AtMost
  <2>5. Cardinality(Registered') = Cardinality(Registered) /\ Cardinality(Registered) \in Nat
    BY <2>1, RegisteredFinite
  <2>6. Cardinality(Registered') + (IF pc' \in Handshake THEN 1 ELSE 0) <= numConnections'
    BY <2>2, <2>5
  <2> QED
    BY <2>3, <2>4, <2>6 DEF WithinBudget
<1>3. NoSocketLost'
  BY DEF NoSocketLost, TypeOK, CurrentInv, HeldInv
<1>4. PassMeansIn'
  BY AcceptAssumption DEF PassMeansIn, Registered, TypeOK, CurrentInv, QueueInv, HeldInv
<1>5. QueueInv'
  <2>1. sock' = sock /\ backlog' = backlog
    OBVIOUS
  <2>2. CASE told' = told
    BY <2>1, <2>2 DEF QueueInv
  <2>3. CASE Live /\ told' = [told EXCEPT ![socket] = "pass"]
    <3>1. socket \in Remotes /\ sock[socket] = "open"
      BY <2>3 DEF CurrentInv, TypeOK
    <3>2. \A q \in Remotes : q # socket => told'[q] = told[q]
      BY <2>3 DEF TypeOK
    <3> QED
      BY <2>1, <3>1, <3>2 DEF QueueInv
  <2> QED
    BY <2>2, <2>3
<1>6. CurrentInv'
  BY AcceptAssumption DEF CurrentInv, TypeOK, QueueInv
<1>7. HeldInv'
  BY DEF HeldInv, TypeOK
<1> QED
  BY <1>1, <1>2, <1>3, <1>4, <1>5, <1>6, <1>7

(* A failed connection is closed.                                          *)
LEMMA CloseFailedIInv ==
  ASSUME IInv, CloseFailed
  PROVE  IInv'
<1> USE DEF IInv, CloseFailed, environment, budget, shutdownVars, Handshake, PCs, Close
<1>1. TypeOK'
  <2>1. realm' \in Realms
    BY DEF Realms
  <2> QED
    BY <2>1, AcceptAssumption DEF TypeOK
<1>2. WithinBudget'
  <2>1. Registered' \in SUBSET Registered
    BY AcceptAssumption DEF Registered, TypeOK
  <2>2. Cardinality(Registered') \in Nat /\ Cardinality(Registered') <= Cardinality(Registered)
    BY <2>1, RegisteredFinite, FS_Subset, FS_CardinalityType
  <2> QED
    BY <2>2, RegisteredFinite, AllocatedNat DEF WithinBudget, Allocated, TypeOK
<1>3. NoSocketLost'
  BY AcceptAssumption DEF NoSocketLost, TypeOK
<1>4. PassMeansIn'
  BY AcceptAssumption DEF PassMeansIn, Registered, TypeOK, CurrentInv, QueueInv, HeldInv
<1>5. QueueInv'
  BY AcceptAssumption DEF QueueInv, TypeOK, CurrentInv
<1>6. CurrentInv'
  BY AcceptAssumption DEF CurrentInv, TypeOK, QueueInv
<1>7. HeldInv'
  BY DEF HeldInv, TypeOK
<1> QED
  BY <1>1, <1>2, <1>3, <1>4, <1>5, <1>6, <1>7

(* A connection is registered, with its receive or without.                *)
LEMMA RegisterIInv ==
  ASSUME IInv, Register
  PROVE  IInv'
<1> USE DEF IInv, Register, environment, budget, shutdownVars, Handshake, PCs, Dead, Live
<1>1. TypeOK'
  <2>1. realm' \in Realms
    BY DEF Realms
  <2>2. sock' \in [Remotes -> {"none", "queued", "open", "closed", "armed", "deaf"}]
    BY DEF TypeOK
  <2>3. pc' \in PCs
    BY AcceptAssumption
  <2> QED
    BY <2>1, <2>2, <2>3 DEF TypeOK
<1>2. WithinBudget'
  <2>1. Registered' \in SUBSET (Registered \cup {socket})
    BY AcceptAssumption DEF Registered, TypeOK
  <2>2. /\ Cardinality(Registered') \in Nat
        /\ Cardinality(Registered') <= Cardinality(Registered) + 1
    <3>1. /\ IsFiniteSet(Registered \cup {socket})
          /\ Cardinality(Registered \cup {socket}) <= Cardinality(Registered) + 1
      <4>1. /\ IsFiniteSet(Registered \cup {socket})
            /\ Cardinality(Registered \cup {socket}) =
                 IF socket \in Registered THEN Cardinality(Registered) ELSE Cardinality(Registered) + 1
        BY RegisteredFinite, FS_AddElement
      <4>2. Cardinality(Registered) \in Nat
        BY RegisteredFinite
      <4> QED
        BY <4>1, <4>2
    <3>2. /\ IsFiniteSet(Registered')
          /\ Cardinality(Registered') <= Cardinality(Registered \cup {socket})
      BY <2>1, <3>1, FS_Subset
    <3> QED
      BY <3>1, <3>2, RegisteredFinite, FS_CardinalityType
  <2>3. sock' = sock => Cardinality(Registered') = Cardinality(Registered)
    BY DEF Registered
  <2> QED
    BY <2>2, <2>3, RegisteredFinite, AllocatedNat DEF WithinBudget, Allocated, TypeOK
<1>3. NoSocketLost'
  <2>1. CASE pc' = "faulted" /\ sock' = sock
    BY <2>1 DEF NoSocketLost
  <2>2. CASE Live /\ pc' = "accept"
             /\ \E end \in {"armed", "deaf"} : sock' = [sock EXCEPT ![socket] = end]
    BY <2>2 DEF NoSocketLost, TypeOK
  <2>3. CASE ~ Live /\ pc' = "accept" /\ sock' = sock
    BY <2>3, AcceptAssumption DEF NoSocketLost, HeldInv
  <2> QED
    BY <2>1, <2>2, <2>3
<1>4. PassMeansIn'
  BY AcceptAssumption DEF PassMeansIn, Registered, TypeOK, CurrentInv, QueueInv, HeldInv
<1>5. QueueInv'
  <2>1. backlog' = backlog /\ told' = told
    OBVIOUS
  <2>2. CASE sock' = sock
    BY <2>1, <2>2 DEF QueueInv
  <2>3. CASE Live /\ \E end \in {"armed", "deaf"} : sock' = [sock EXCEPT ![socket] = end]
    <3>0. PICK end \in {"armed", "deaf"} : sock' = [sock EXCEPT ![socket] = end]
      BY <2>3
    <3>1. socket \in Remotes /\ sock[socket] = "open"
      BY <2>3 DEF CurrentInv, TypeOK
    <3>2. \A q \in Remotes : sock'[q] = IF q = socket THEN end ELSE sock[q]
      BY <3>0, <3>1 DEF TypeOK
    <3>3. \A i \in 1 .. Len(backlog) : backlog[i] \in Remotes
      BY ElementOfSeq DEF TypeOK
    <3>4. \A i \in 1 .. Len(backlog) : sock'[backlog[i]] = "queued"
      BY <3>1, <3>2, <3>3 DEF QueueInv
    <3>5. \A q \in Remotes : sock'[q] = "queued" => told[q] = "nothing"
      BY <3>2 DEF QueueInv
    <3> QED
      BY <2>1, <3>4, <3>5 DEF QueueInv
  <2> QED
    BY <2>2, <2>3
<1>6. CurrentInv'
  BY AcceptAssumption DEF CurrentInv, TypeOK, QueueInv
<1>7. HeldInv'
  BY DEF HeldInv, TypeOK
<1> QED
  BY <1>1, <1>2, <1>3, <1>4, <1>5, <1>6, <1>7

(* The shutdown is requested.                                              *)
LEMMA SetShutdownIInv ==
  ASSUME IInv, SetShutdown
  PROVE  IInv'
<1> USE DEF IInv, SetShutdown, environment, budget, shutdownVars, Handshake
<1>1. TypeOK'
  BY AcceptAssumption DEF TypeOK
<1>2. WithinBudget'
  BY RegisteredFinite, AllocatedNat DEF WithinBudget, TypeOK, Registered, Allocated
<1>3. NoSocketLost'
  BY DEF NoSocketLost, TypeOK, CurrentInv, HeldInv
<1>4. PassMeansIn'
  BY AcceptAssumption DEF PassMeansIn, Registered, TypeOK, CurrentInv, QueueInv, HeldInv
<1>5. QueueInv'
  BY AcceptAssumption DEF QueueInv, TypeOK, CurrentInv
<1>6. CurrentInv'
  BY AcceptAssumption DEF CurrentInv, TypeOK, QueueInv
<1>7. HeldInv'
  BY DEF HeldInv, TypeOK
<1> QED
  BY <1>1, <1>2, <1>3, <1>4, <1>5, <1>6, <1>7

(* Winsock is torn down.                                                   *)
LEMMA CleanupIInv ==
  ASSUME IInv, Cleanup
  PROVE  IInv'
<1> USE DEF IInv, Cleanup, environment, budget, shutdownVars, Handshake
<1>1. TypeOK'
  BY AcceptAssumption DEF TypeOK
<1>2. WithinBudget'
  BY RegisteredFinite, AllocatedNat DEF WithinBudget, TypeOK, Registered, Allocated
<1>3. NoSocketLost'
  BY DEF NoSocketLost, TypeOK, CurrentInv, HeldInv
<1>4. PassMeansIn'
  BY AcceptAssumption DEF PassMeansIn, Registered, TypeOK, CurrentInv, QueueInv, HeldInv
<1>5. QueueInv'
  BY AcceptAssumption DEF QueueInv, TypeOK, CurrentInv
<1>6. CurrentInv'
  BY AcceptAssumption DEF CurrentInv, TypeOK, QueueInv
<1>7. HeldInv'
  BY DEF HeldInv, TypeOK
<1> QED
  BY <1>1, <1>2, <1>3, <1>4, <1>5, <1>6, <1>7

(* Every step keeps the invariant.                                         *)
LEMMA StepIInv ==
  ASSUME IInv, [Next]_vars
  PROVE  IInv'
<1>1. CASE \E r \in Remotes : Connect(r) \/ Arrive(r)
  BY <1>1, ConnectIInv, ArriveIInv
<1>2. CASE AcceptThread
  BY <1>2, AcceptIInv, LeaveIInv, RefuseIInv, AdmitIInv, GreetIInv, RecvEncryptionIInv,
     RecvRealmIInv, RecvSizeIInv, AllocateIInv, AddStringIInv, RecvStringIInv, ReplyIInv,
     CloseFailedIInv, RegisterIInv DEF AcceptThread
<1>3. CASE SetShutdown
  BY <1>3, SetShutdownIInv
<1>4. CASE Cleanup
  BY <1>4, CleanupIInv
<1>5. CASE UNCHANGED vars
  <2>1. Registered' = Registered /\ Allocated' = Allocated
    BY <1>5 DEF vars, Registered, Allocated
  <2>2. TypeOK' /\ NoSocketLost' /\ PassMeansIn' /\ QueueInv' /\ CurrentInv' /\ HeldInv'
    BY <1>5 DEF vars, IInv, TypeOK, NoSocketLost, PassMeansIn, Registered, QueueInv, CurrentInv, HeldInv
  <2>3. WithinBudget'
    BY <1>5, <2>1 DEF vars, IInv, WithinBudget
  <2> QED
    BY <2>2, <2>3 DEF IInv
<1> QED
  BY <1>1, <1>2, <1>3, <1>4, <1>5 DEF Next

(* The invariant holds of every run, whatever the remotes and the builds   *)
(* do and whenever the daemon is shut down.                                *)
THEOREM Invariance == Spec => []IInv
BY InitIInv, StepIInv, PTL DEF Spec

(* The variables keep their types; the budget is never exceeded by the     *)
(* counter itself.                                                         *)
THEOREM TypeCorrect == Spec => []TypeOK
<1>1. IInv => TypeOK
  BY DEF IInv
<1> QED
  BY <1>1, Invariance, PTL

(* Objects and registered connections stay within the connections counted. *)
THEOREM BudgetHolds == Spec => []WithinBudget
<1>1. IInv => WithinBudget
  BY DEF IInv
<1> QED
  BY <1>1, Invariance, PTL

(* No failed handshake leaves its socket open: every socket that was       *)
(* accepted is closed or registered when the loop turns.                   *)
THEOREM SocketsAccounted == Spec => []NoSocketLost
<1>1. IInv => NoSocketLost
  BY DEF IInv
<1> QED
  BY <1>1, Invariance, PTL

(* A remote that was sent the result code 0 is never closed by a later     *)
(* step of the handshake: it is registered, or just being so.              *)
THEOREM PassIsKept == Spec => []PassMeansIn
<1>1. IInv => PassMeansIn
  BY DEF IInv
<1> QED
  BY <1>1, Invariance, PTL

-----------------------------------------------------------------------------
(* The accept thread as the keeper of a front door.                        *)

(* Who waits or is at the door is known by what became of the connection.  *)
LEMMA WhoIsWhere ==
  ASSUME IInv
  PROVE  /\ \A r \in Door!Waiting : r \in Remotes /\ sock[r] = "queued"
         /\ AtDoor # NoRemote => AtDoor \in Remotes /\ sock[AtDoor] = "open"
<1>1. \A r \in Door!Waiting : r \in Remotes /\ sock[r] = "queued"
  BY ElementOfSeq DEF IInv, TypeOK, QueueInv, Door!Waiting
<1>2. AtDoor # NoRemote => AtDoor \in Remotes /\ sock[AtDoor] = "open"
  BY DEF IInv, TypeOK, CurrentInv, AtDoor
<1> QED
  BY <1>1, <1>2

(* A remote that connects joins the end of the line.                       *)
LEMMA ConnectComes ==
  ASSUME IInv, NEW r \in Remotes, Connect(r)
  PROVE  Door!Come(r)
<1>1. sock[r] \in {"none", "closed"}
  BY DEF Connect
<1>2. r \notin Door!Waiting /\ r # AtDoor
  BY <1>1, WhoIsWhere, AcceptAssumption
<1>3. r \notin Registered
  BY <1>1 DEF Registered
<1>4. Registered' = Registered
  BY <1>1 DEF Connect, Registered, IInv, TypeOK
<1>5. backlog' = Append(backlog, r) /\ AtDoor' = AtDoor
  BY DEF Connect, AtDoor
<1> QED
  BY <1>2, <1>3, <1>4, <1>5 DEF Door!Come

(* accept() calls the first of the line, unless it has gone.               *)
LEMMA AcceptCalls ==
  ASSUME IInv, Accept
  PROVE  Door!CallFirst \/ Door!Missed \/ UNCHANGED Door!door
<1>1. AtDoor = NoRemote /\ AtDoor' = socket'
  BY DEF Accept, AtDoor
<1>2. CASE ~ winsock
  <2>1. AtDoor' = NoRemote /\ backlog' = backlog /\ sock' = sock
    BY <1>1, <1>2 DEF Accept
  <2> QED
    BY <1>1, <2>1 DEF Door!door, Registered
<1>3. CASE winsock
  <2>1. backlog # <<>> /\ backlog' = Tail(backlog)
    BY <1>3 DEF Accept
  <2>2. Head(backlog) \in Remotes /\ sock[Head(backlog)] = "queued"
    BY <2>1, LenProperties, EmptySeq, HeadTailProperties DEF IInv, QueueInv, TypeOK
  <2>3. CASE socket' = Head(backlog) /\ sock' = [sock EXCEPT ![Head(backlog)] = "open"]
    <3>1. Registered' = Registered
      BY <2>2, <2>3 DEF Registered, IInv, TypeOK
    <3> QED
      BY <1>1, <2>1, <2>3, <3>1 DEF Door!CallFirst
  <2>4. CASE socket' = NoRemote /\ sock' = [sock EXCEPT ![Head(backlog)] = "closed"]
    <3>1. Registered' = Registered
      BY <2>2, <2>4 DEF Registered, IInv, TypeOK
    <3> QED
      BY <1>1, <2>1, <2>4, <3>1 DEF Door!Missed
  <2> QED
    BY <1>3, <2>3, <2>4 DEF Accept
<1> QED
  BY <1>2, <1>3

(* A connection that is closed, or left at a shutdown, is dismissed.       *)
LEMMA CloseDismisses ==
  ASSUME IInv, Leave \/ Refuse \/ CloseFailed
  PROVE  Door!Dismiss \/ UNCHANGED Door!door
<1>1. AtDoor = socket /\ AtDoor' = NoRemote /\ backlog' = backlog
  BY DEF AtDoor, Leave, Refuse, CloseFailed, environment
<1>2. Registered' = Registered
  <2>1. CASE sock' = sock
    BY <2>1 DEF Registered
  <2>2. CASE socket # NoRemote /\ sock' = [sock EXCEPT ![socket] = "closed"]
    <3>1. socket \in Remotes /\ sock[socket] = "open"
      BY <1>1, <2>2, WhoIsWhere
    <3> QED
      BY <2>2, <3>1 DEF Registered, IInv, TypeOK
  <2> QED
    BY <2>1, <2>2 DEF Leave, Refuse, CloseFailed, Close
<1> QED
  BY <1>1, <1>2 DEF Door!Dismiss, Door!door

(* A connection is registered only where there is room: it was counted     *)
(* before its handshake.                                                   *)
LEMMA RegisterLetsIn ==
  ASSUME IInv, Register
  PROVE  Door!LetIn \/ Door!Dismiss \/ UNCHANGED Door!door
<1>1. AtDoor = socket /\ backlog' = backlog /\ socket' = socket /\ pc = "register"
  BY DEF AtDoor, Register, environment
<1>2. CASE pc' = "faulted" /\ sock' = sock
  BY <1>1, <1>2 DEF AtDoor, Registered, Door!door
<1>3. CASE pc' = "accept" /\ ~ Live /\ sock' = sock
  <2>1. AtDoor' = NoRemote /\ Registered' = Registered
    BY <1>3 DEF AtDoor, Registered
  <2> QED
    BY <1>1, <2>1 DEF Door!Dismiss, Door!door
<1>4. CASE pc' = "accept" /\ Live
           /\ \E end \in {"armed", "deaf"} : sock' = [sock EXCEPT ![socket] = end]
  <2>1. AtDoor' = NoRemote /\ AtDoor # NoRemote /\ socket \in Remotes
    BY <1>1, <1>4, WhoIsWhere DEF AtDoor, Live
  <2>2. Registered' = Registered \cup {AtDoor}
    <3>1. Registered' = Registered \cup {socket}
      BY <1>4, <2>1 DEF Registered, IInv, TypeOK
    <3> QED
      BY <1>1, <3>1
  <2>3. Cardinality(Registered) < maxConnections
    <3>1. Cardinality(Registered) + 1 <= numConnections
      BY <1>1 DEF IInv, WithinBudget, Handshake
    <3>2. numConnections \in Nat /\ numConnections <= maxConnections
      BY AcceptAssumption DEF IInv, TypeOK
    <3> QED
      BY <3>1, <3>2, RegisteredFinite, AcceptAssumption
  <2> QED
    <3>1. Door!Cardinality(Registered) = Cardinality(Registered)
      BY DEF Door!Cardinality, Cardinality
    <3> QED
      BY <1>1, <2>1, <2>2, <2>3, <3>1 DEF Door!LetIn
<1> QED
  BY <1>2, <1>3, <1>4, AcceptAssumption DEF Register

(* The rest of the handshake leaves the remote at the door.                *)
LEMMA HandshakeWaits ==
  ASSUME Admit \/ Greet \/ RecvEncryption \/ RecvRealm \/ RecvSize \/ Allocate
           \/ AddString \/ RecvString \/ Reply
  PROVE  UNCHANGED Door!door
<1>1. UNCHANGED <<socket, sock, backlog>>
  BY DEF Admit, Greet, RecvEncryption, RecvRealm, RecvSize, Allocate, AddString, RecvString,
     Reply, environment
<1>2. pc \notin {"accept", "exited"}
  BY DEF Admit, Greet, RecvEncryption, RecvRealm, RecvSize, Allocate, AddString, RecvString,
     Reply, Received, ReceiveFails
<1>3. pc' \notin {"accept", "exited"}
  <2>1. CASE Admit \/ AddString \/ RecvString \/ Reply
    BY <2>1 DEF Admit, AddString, RecvString, Reply
  <2>2. CASE Greet
    BY <2>2, AcceptAssumption DEF Greet
  <2>3. CASE RecvEncryption \/ RecvRealm \/ RecvSize
    BY <2>3 DEF RecvEncryption, RecvRealm, RecvSize
  <2>4. CASE Allocate
    BY <2>4, AcceptAssumption DEF Allocate
  <2> QED
    BY <2>1, <2>2, <2>3, <2>4
<1> QED
  BY <1>1, <1>2, <1>3 DEF Door!door, Registered, AtDoor

(* The accept thread keeps the line, calls one remote at a time and lets   *)
(* no more in than its budget, whatever the remotes and the builds do and  *)
(* whenever the daemon is shut down.                                       *)
THEOREM DoorRefinement == Spec => ImplementsDoor
<1>1. Init => Door!Init
  BY DEF Init, Door!Init, AtDoor, Registered
<1>2. ASSUME IInv, [Next]_vars PROVE [Door!Next]_(Door!door)
  <2>1. CASE \E r \in Remotes : Connect(r)
    BY <1>2, <2>1, ConnectComes DEF Door!Next
  <2>2. CASE AcceptThread
    BY <1>2, <2>2, AcceptCalls, CloseDismisses, RegisterLetsIn, HandshakeWaits
       DEF AcceptThread, Door!Next
  <2>3. CASE (\E r \in Remotes : Arrive(r)) \/ SetShutdown \/ Cleanup \/ UNCHANGED vars
    BY <2>3 DEF Arrive, SetShutdown, Cleanup, vars, environment, Door!door, Registered, AtDoor
  <2> QED
    BY <1>2, <2>1, <2>2, <2>3 DEF Next
<1> QED
  BY <1>1, <1>2, Invariance, PTL DEF Spec, ImplementsDoor, Door!Spec

-----------------------------------------------------------------------------
(* The wait of a queued connection, and the rest of the loop after a        *)
(* shutdown, in steps of the accept thread.                                 *)

(* Where the accept thread goes from where it is: always forward.           *)
LEMMA Onward ==
  ASSUME AcceptThread, ~ Accept
  PROVE  /\ backlog' = backlog
         /\ \/ pc = "admit" /\ pc' = "exited"
            \/ pc = "admit" /\ pc' \in {"accept", "greet"} /\ ~ isShutdown
            \/ pc = "greet" /\ pc' \in {"encryption", "close", "hung", "faulted"}
            \/ pc = "encryption" /\ pc' \in {"realm", "close"}
            \/ pc = "realm" /\ pc' \in {"size", "allocate", "close"}
            \/ pc = "size" /\ pc' \in {"allocate", "close"}
            \/ pc = "allocate" /\ pc' \in {"addString", "reply", "hung", "faulted"}
            \/ pc = "addString" /\ pc' \in {"string", "faulted"}
            \/ pc = "string" /\ pc' \in {"reply", "close", "faulted"}
            \/ pc = "reply" /\ pc' \in {"register", "close"}
            \/ pc \in {"close", "register"} /\ pc' \in {"accept", "faulted"}
<1> USE AcceptAssumption DEF environment
<1>1. CASE Leave \/ Refuse \/ Admit
  BY <1>1 DEF Leave, Refuse, Admit
<1>2. CASE Greet
  <2>1. PICK as \in StackAsConnection :
          CASE as = "tcp"    -> \/ Live /\ pc' = "encryption"
                                \/ pc' = "close"
            [] as = "other"  -> pc' = "close"
            [] as = "hangs"  -> pc' = "hung"
            [] as = "faults" -> pc' = "faulted"
    BY <1>2 DEF Greet
  <2>2. as \in {"tcp", "other", "hangs", "faults"}
    OBVIOUS
  <2>3. pc' \in {"encryption", "close", "hung", "faulted"}
    BY <2>1, <2>2
  <2> QED
    BY <1>2, <2>3 DEF Greet
<1>3. CASE RecvEncryption \/ RecvRealm \/ RecvSize
  BY <1>3 DEF RecvEncryption, RecvRealm, RecvSize, Received, ReceiveFails
<1>4. CASE Allocate
  <2>1. PICK lock \in IF realm = POLY_REALM_CLIENT THEN ClientLock ELSE {"enters"} :
          CASE lock = "enters" ->
                 /\ slots' = [slots EXCEPT ![realm] = @ + 1]
                 /\ pc' = IF realm = POLY_REALM_SERVICE THEN "addString" ELSE "reply"
            [] lock = "hangs"  -> pc' = "hung" /\ UNCHANGED slots
            [] lock = "faults" -> pc' = "faulted" /\ UNCHANGED slots
    BY <1>4 DEF Allocate
  <2>2. lock \in {"enters", "hangs", "faults"}
    OBVIOUS
  <2>3. pc' \in {"addString", "reply", "hung", "faulted"}
    BY <2>1, <2>2
  <2> QED
    BY <1>4, <2>3 DEF Allocate
<1>5. CASE AddString \/ RecvString \/ Reply
  BY <1>5 DEF AddString, RecvString, Reply, Received, ReceiveFails
<1>6. CASE CloseFailed \/ Register
  BY <1>6 DEF CloseFailed, Register
<1> QED
  BY <1>1, <1>2, <1>3, <1>4, <1>5, <1>6 DEF AcceptThread

(* Any step but the taking of the next connection brings the end of the     *)
(* loop's turn nearer.                                                      *)
LEMMA StageFalls ==
  ASSUME AcceptThread, ~ Accept
  PROVE  Stage(pc') < Stage(pc) /\ Stage(pc) \in Nat /\ Stage(pc') \in Nat
<1> QED
  BY Onward DEF Stage

(* The same connection, before and after a step that leaves the queue.      *)
LEMMA SameTurn ==
  ASSUME QueueInv, backlog \in Seq(Remotes),
         NEW i \in 1 .. Len(backlog), NEW j \in 1 .. Len(backlog), backlog[j] = backlog[i]
  PROVE  i = j
<1> QED
  BY DEF QueueInv

(* The wait of every queued connection is bounded.                          *)
THEOREM WaitIsBounded == Spec => WaitBounded
<1> DEFINE Nearer ==
      winsock => \A i \in 1 .. Len(backlog), j \in 1 .. Len(backlog') :
        backlog'[j] = backlog[i] =>
          /\ Turn(j)' <= Turn(i)
          /\ pc' # pc => Turn(j)' < Turn(i)
<1>1. ASSUME IInv, [Next]_vars PROVE [Nearer]_vars
  <2> SUFFICES ASSUME Next, winsock,
                      NEW i \in 1 .. Len(backlog), NEW j \in 1 .. Len(backlog'),
                      backlog'[j] = backlog[i]
               PROVE  /\ Stages * j + j + Stage(pc') <= Stages * i + i + Stage(pc)
                      /\ pc' # pc => Stages * j + j + Stage(pc') < Stages * i + i + Stage(pc)
    BY <1>1 DEF Turn, Stages
  <2> USE DEF Stages
  <2>0. backlog \in Seq(Remotes) /\ QueueInv /\ Stage(pc) \in Nat /\ i \in Nat
    BY <1>1 DEF IInv, TypeOK, Stage
  <2>1. ASSUME backlog' = backlog PROVE i = j
    BY <2>0, <2>1, SameTurn
  <2>2. CASE Accept
    <3>1. /\ backlog # <<>> /\ backlog' = Tail(backlog)
          /\ pc = "accept" /\ pc' = "admit"
      BY <2>2 DEF Accept
    <3>2. j + 1 \in 1 .. Len(backlog) /\ backlog'[j] = backlog[j + 1]
      BY <2>0, <3>1
    <3>3. i = j + 1
      BY <2>0, <3>2, SameTurn
    <3>4. Stage(pc) = 0 /\ Stage(pc') = 11
      BY <3>1 DEF Stage
    <3> QED
      BY <3>3, <3>4, <2>0, <3>2
  <2>3. CASE AcceptThread /\ ~ Accept
    <3>1. i = j
      BY <2>1, <2>3, Onward
    <3> QED
      BY <2>0, <2>3, <3>1, StageFalls
  <2>4. ASSUME NEW r \in Remotes, Connect(r) PROVE i = j /\ pc' = pc
    <3>1. backlog' = Append(backlog, r) /\ pc' = pc /\ sock[r] # "queued"
      BY <2>4 DEF Connect
    <3>2. sock[backlog[i]] = "queued"
      BY <2>0 DEF QueueInv
    <3>3. j \in 1 .. Len(backlog) /\ backlog'[j] = backlog[j]
      BY <2>0, <3>1, <3>2
    <3> QED
      BY <2>0, <3>1, <3>3, SameTurn
  <2>5. ASSUME (\E r \in Remotes : Arrive(r)) \/ SetShutdown \/ Cleanup PROVE i = j /\ pc' = pc
    <3>1. backlog' = backlog /\ pc' = pc
      BY <2>5 DEF Arrive, SetShutdown, Cleanup, environment
    <3> QED
      BY <2>1, <3>1
  <2>6. CASE i = j /\ pc' = pc
    BY <2>0, <2>6
  <2> QED
    BY <2>2, <2>3, <2>4, <2>5, <2>6 DEF Next
<1> QED
  BY <1>1, Invariance, PTL DEF Spec, WaitBounded

(* The rest of the loop is bounded from the moment of a shutdown.           *)
THEOREM ShutdownIsBounded == Spec => ShutdownBounded
<1> DEFINE Nearer == isShutdown => /\ ToExit' <= ToExit
                                   /\ pc' # pc => ToExit' < ToExit
<1>1. ASSUME TypeOK, [Next]_vars PROVE [Nearer]_vars
  <2> SUFFICES ASSUME Next, isShutdown
               PROVE  ToExit' <= ToExit /\ (pc' # pc => ToExit' < ToExit)
    BY <1>1
  <2>1. CASE Accept
    BY <2>1 DEF Accept, ToExit, Stage, Dead
  <2>2. CASE AcceptThread /\ ~ Accept
    BY <2>2, Onward DEF ToExit, Stage, Dead
  <2>3. CASE (\E r \in Remotes : Connect(r) \/ Arrive(r)) \/ SetShutdown \/ Cleanup
    <3>1. pc' = pc
      BY <2>3 DEF Connect, Arrive, SetShutdown, Cleanup
    <3>2. ToExit' = ToExit /\ ToExit \in Nat
      BY <3>1 DEF ToExit, Stage, Dead
    <3> QED
      BY <3>1, <3>2
  <2> QED
    BY <2>1, <2>2, <2>3 DEF Next
<1> QED
  BY <1>1, TypeCorrect, PTL DEF Spec, ShutdownBounded

=============================================================================
