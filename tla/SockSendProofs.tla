---------------------------- MODULE SockSendProofs ----------------------------
(* What utils.c puts into a buffer and gets out of it again, and what the  *)
(* remote end hears of the messages that sockSend puts on the wire: for    *)
(* any number of workers, connections and messages.                        *)
EXTENDS SockSend, SequenceTheorems, TLAPS

(* Bytes and shorts as inequalities.                                       *)
LEMMA Ranges ==
  /\ \A x \in Byte : x \in Int /\ 0 <= x /\ x <= 255
  /\ \A x \in Int : 0 <= x /\ x <= 255 => x \in Byte
  /\ \A x \in Short : x \in Int /\ 0 <= x /\ x <= 65535
  /\ \A x \in Int : 0 <= x /\ x <= 65535 => x \in Short
<1>1. \A x \in Byte : x \in Int /\ 0 <= x /\ x <= 255
  BY SMT DEF Byte
<1>2. \A x \in Int : 0 <= x /\ x <= 255 => x \in Byte
  BY SMT DEF Byte
<1>3. \A x \in Short : x \in Int /\ 0 <= x /\ x <= 65535
  BY SMT DEF Short, UINT16_MAX
<1>4. UINT16_MAX \in Int /\ UINT16_MAX = 65535
  BY SMT DEF UINT16_MAX
<1>5. \A x \in Int : 0 <= x /\ x <= UINT16_MAX => x \in Short
  <2>1. UINT16_MAX \in Int
    BY <1>4
  <2> QED
    BY <2>1, SMT DEF Short
<1>6. \A x \in Int : 0 <= x /\ x <= 65535 => x \in Short
  BY <1>4, <1>5, SMT
<1> QED
  BY <1>1, <1>2, <1>3, <1>6

(* Two bytes and the short they make.                                      *)
LEMMA JoinSplit ==
  ASSUME NEW p \in Byte, NEW q \in Byte
  PROVE  Join(p, q) \in Short /\ High(Join(p, q)) = p /\ Low(Join(p, q)) = q
<1>1. p \in Int /\ 0 <= p /\ p <= 255 /\ q \in Int /\ 0 <= q /\ q <= 255
  BY Ranges
<1>2. p * 256 + q \in Int /\ 0 <= p * 256 + q /\ p * 256 + q <= 65535
  BY <1>1, SMT
<1>3. (p * 256 + q) % 256 = q /\ (p * 256 + q) \div 256 = p
  BY <1>1, SMT
<1>4. Join(p, q) \in Int /\ 0 <= Join(p, q) /\ Join(p, q) <= 65535
  BY <1>2, SMT DEF Join
<1>5. High(Join(p, q)) = p /\ Low(Join(p, q)) = q
  BY <1>3, SMT DEF Join, High, Low
<1> QED
  BY <1>4, <1>5, Ranges

(* A short and its two bytes.                                              *)
LEMMA SplitJoin ==
  ASSUME NEW x \in Short
  PROVE  High(x) \in Byte /\ Low(x) \in Byte /\ Join(High(x), Low(x)) = x
<1>1. x \in Int /\ 0 <= x /\ x <= 65535
  BY Ranges
<1>2. High(x) \in Int /\ 0 <= High(x) /\ High(x) <= 255
  BY <1>1, SMT DEF High
<1>3. Low(x) \in Int /\ 0 <= Low(x) /\ Low(x) <= 255
  BY <1>1, SMT DEF Low
<1>4. ASSUME NEW h \in Int, NEW l \in Int, h = x \div 256, l = x % 256
      PROVE  x = h * 256 + l
  BY <1>1, <1>4, SMT
<1>5. High(x) = x \div 256 /\ Low(x) = x % 256
  BY SMT DEF High, Low
<1>6. x = High(x) * 256 + Low(x)
  BY <1>2, <1>3, <1>4, <1>5, SMT
<1>7. x = Join(High(x), Low(x))
  BY <1>6, SMT DEF Join
<1> QED
  BY <1>2, <1>3, <1>7, Ranges

(* Swapping the bytes twice does nothing.                                  *)
LEMMA SwapTwice ==
  ASSUME NEW x \in Short
  PROVE  Swap(x) \in Short /\ Swap(Swap(x)) = x
<1>1. Low(x) \in Byte /\ High(x) \in Byte
  BY SplitJoin
<1>2. Swap(x) \in Short /\ High(Swap(x)) = Low(x) /\ Low(Swap(x)) = High(x)
  BY <1>1, JoinSplit DEF Swap
<1>3. Swap(Swap(x)) = Join(High(x), Low(x))
  BY <1>2 DEF Swap
<1> QED
  BY <1>2, <1>3, SplitJoin

(* utils.c: what insertShortIntoBuffer writes, getShortFromBuffer reads.   *)
THEOREM ShortRoundTrip ==
  \A x \in Short : getShortFromBuffer(insertShortIntoBuffer(x)) = x
<1> SUFFICES ASSUME NEW x \in Short PROVE getShortFromBuffer(insertShortIntoBuffer(x)) = x
  OBVIOUS
<1>1. getShortFromBufferNC(insertShortIntoBuffer(x)) = Join(High(Swap(x)), Low(Swap(x)))
  BY DEF getShortFromBufferNC, insertShortIntoBuffer, insertShortIntoBufferNC
<1>2. getShortFromBufferNC(insertShortIntoBuffer(x)) = Swap(x)
  BY <1>1, SwapTwice, SplitJoin
<1> QED
  BY <1>2, SwapTwice DEF getShortFromBuffer

(* utils.c:53: of a long only the higher half comes back.                  *)
THEOREM LongLosesLowHalf ==
  \A high, low \in Short : getLongFromBuffer(insertLongIntoBuffer(high, low)) = high
<1> SUFFICES ASSUME NEW high \in Short, NEW low \in Short
             PROVE  getLongFromBuffer(insertLongIntoBuffer(high, low)) = high
  OBVIOUS
<1> DEFINE b == insertLongIntoBuffer(high, low)
<1>1. b[3] = High(Swap(high)) /\ b[4] = Low(Swap(high))
  BY DEF insertLongIntoBuffer, insertShortIntoBufferNC
<1>2. getShortFromBufferNC(<<b[3], b[4]>>) = Join(High(Swap(high)), Low(Swap(high)))
  BY <1>1 DEF getShortFromBufferNC
<1>3. getShortFromBufferNC(<<b[3], b[4]>>) = Swap(high)
  BY <1>2, SwapTwice, SplitJoin
<1> QED
  BY <1>3, SwapTwice DEF getLongFromBuffer

-----------------------------------------------------------------------------

(* The four bytes of a header.                                             *)
LEMMA HeaderBytesType ==
  ASSUME NEW h \in Header
  PROVE  HeaderBytes(h) \in Seq(Byte) /\ Len(HeaderBytes(h)) = Size
<1>1. h.code \in Short /\ h.id \in Short
  BY DEF Header
<1>2. \A x \in Short : \E p \in Byte, q \in Byte : insertShortIntoBuffer(x) = <<p, q>>
  BY SwapTwice, SplitJoin DEF insertShortIntoBuffer, insertShortIntoBufferNC
<1>3. PICK a \in Byte, b \in Byte, c \in Byte, d \in Byte :
        insertShortIntoBuffer(h.code) = <<a, b>> /\ insertShortIntoBuffer(h.id) = <<c, d>>
  BY <1>1, <1>2
<1>4. <<a, b>> \in Seq(Byte) /\ Len(<<a, b>>) = 2 /\ <<c, d>> \in Seq(Byte) /\ Len(<<c, d>>) = 2
  OBVIOUS
<1>5. HeaderBytes(h) = <<a, b>> \o <<c, d>>
  BY <1>3 DEF HeaderBytes
<1>6. HeaderBytes(h) \in Seq(Byte) /\ Len(HeaderBytes(h)) = 2 + 2
  BY <1>4, <1>5, ConcatProperties
<1> QED
  BY <1>6 DEF Size

LEMMA HeaderDecodes ==
  ASSUME NEW h \in Header
  PROVE  /\ getShortFromBuffer(<<ByteOf(h, 0), ByteOf(h, 1)>>) = h.code
         /\ getShortFromBuffer(<<ByteOf(h, 2), ByteOf(h, 3)>>) = h.id
<1>1. h.code \in Short /\ h.id \in Short
  BY DEF Header
<1>2. /\ ByteOf(h, 0) = High(Swap(h.code)) /\ ByteOf(h, 1) = Low(Swap(h.code))
      /\ ByteOf(h, 2) = High(Swap(h.id)) /\ ByteOf(h, 3) = Low(Swap(h.id))
  BY DEF ByteOf, HeaderBytes, insertShortIntoBuffer, insertShortIntoBufferNC
<1>3. \A x \in Short : getShortFromBuffer(<<High(Swap(x)), Low(Swap(x))>>) = x
  BY ShortRoundTrip DEF insertShortIntoBuffer, insertShortIntoBufferNC
<1> QED
  BY <1>1, <1>2, <1>3

(* Where the bytes of a message are on the wire.                           *)
LEMMA Position ==
  \A m \in Nat, r \in 0 .. 3 :
    (Size * m + r) \div Size = m /\ (Size * m + r) % Size = r
BY DEF Size

-----------------------------------------------------------------------------

LEMMA InitIInv == Init => IInv
<1> SUFFICES ASSUME Init PROVE IInv
  OBVIOUS
<1>1. TypeOK
  BY SendAssumption DEF Init, TypeOK, Size
<1>2. OneInside
  BY DEF Init, OneInside, Inside
<1>3. FreshInv
  BY DEF Init, FreshInv
<1>4. \A c \in Connections : ~ Sound(c)
  BY DEF Init, Sound
<1> QED
  BY <1>1, <1>2, <1>3, <1>4 DEF IInv

(* Only one worker is inside the mutex of a connection.                    *)
LEMMA Unique ==
  ASSUME IInv, NEW c \in Connections, ~ Shares(c),
         NEW u \in Workers, NEW w \in Workers,
         Inside(u), Inside(w), Target(u) = c, Target(w) = c
  PROVE  u = w
BY DEF IInv, OneInside, Mutex

(* What a step does elsewhere does not matter to connection d.             *)
LEMMA Elsewhere ==
  ASSUME NEW d \in Connections, BytesInv(d), LengthInv(d),
         wire'[d] = wire[d], said'[d] = said[d], d \in dead' <=> d \in dead,
         \A u \in Workers :
           /\ (Inside(u) /\ Target(u) = d)' <=> (Inside(u) /\ Target(u) = d)
           /\ Inside(u) /\ Target(u) = d => job'[u] = job[u] /\ index'[u] = index[u]
  PROVE  BytesInv(d)' /\ LengthInv(d)'
<1>1. BytesInv(d)'
  BY DEF BytesInv
<1>2. LengthInv(d)'
  <2>1. CASE \E w \in Workers : Inside(w) /\ Target(w) = d
    <3>1. \E w \in Workers : (Inside(w) /\ Target(w) = d)'
      BY <2>1
    <3>2. ASSUME NEW w \in Workers, (Inside(w) /\ Target(w) = d)'
          PROVE  /\ said'[d] # <<>> /\ said'[d][Len(said'[d])] = job'[w].header
                 /\ Size * (Len(said'[d]) - 1) <= Len(wire'[d])
                 /\ d \in dead' => index'[w] < Size
                 /\ d \notin dead' => Len(wire'[d]) = Size * (Len(said'[d]) - 1) + index'[w]
      <4>1. Inside(w) /\ Target(w) = d /\ job'[w] = job[w] /\ index'[w] = index[w]
        BY <3>2
      <4> QED
        BY <2>1, <4>1 DEF LengthInv
    <3> QED
      BY <3>1, <3>2 DEF LengthInv
  <2>2. CASE ~ \E w \in Workers : Inside(w) /\ Target(w) = d
    <3>1. ~ \E w \in Workers : (Inside(w) /\ Target(w) = d)'
      BY <2>2
    <3>2. Len(wire[d]) = Size * Len(said[d])
      BY <2>2 DEF LengthInv
    <3> QED
      BY <3>1, <3>2 DEF LengthInv
  <2> QED
    BY <2>1, <2>2
<1> QED
  BY <1>1, <1>2

LEMMA OpenIInv ==
  ASSUME IInv, NEW c \in Connections, Open(c)
  PROVE  IInv'
<1> USE DEF IInv
<1>1. /\ c \notin opened /\ opened' = opened \cup {c}
      /\ owner' = [owner EXCEPT ![section[c]] = Nobody]
      /\ UNCHANGED <<section, pc, job, index, attempts, taken, wire, dead, said, spoilt>>
  BY DEF Open, loops
<1>2. TypeOK'
  BY <1>1 DEF TypeOK, Continues
<1>3. \A d \in Connections : Shares(d) => Shares(d)'
  BY <1>1 DEF Shares
<1>4. OneInside'
  <2> SUFFICES ASSUME NEW w \in Workers, Inside(w), ~ Shares(Target(w))'
               PROVE  owner'[section[Target(w)]] = w
    BY <1>1 DEF OneInside, Inside, Target, Mutex
  <2>1. Target(w) \in opened /\ Target(w) # c /\ Target(w) \in Connections
    BY <1>1 DEF FreshInv, Inside, TypeOK
  <2>2. section[Target(w)] # section[c]
    BY <1>1, <2>1 DEF Shares, Target
  <2>3. ~ Shares(Target(w))
    BY <1>1, <2>1 DEF Shares, Target
  <2>4. owner[section[Target(w)]] = w
    BY <2>3 DEF OneInside, Mutex
  <2> QED
    BY <1>1, <2>1, <2>2, <2>4 DEF TypeOK
<1>5. FreshInv'
  BY <1>1 DEF FreshInv, Target
<1>6. ASSUME NEW d \in Connections, Sound(d)' PROVE BytesInv(d)' /\ LengthInv(d)'
  <2>1. CASE d # c
    <3>1. Sound(d)
      BY <1>1, <1>3, <1>6, <2>1 DEF Sound
    <3>2. \A u \in Workers : (Inside(u) /\ Target(u) = d)' <=> (Inside(u) /\ Target(u) = d)
      BY <1>1 DEF Inside, Target
    <3> QED
      BY <1>1, <3>1, <3>2, Elsewhere
  <2>2. CASE d = c
    <3>1. wire'[c] = <<>> /\ said'[c] = <<>>
      BY <1>1 DEF FreshInv
    <3>2. \A u \in Workers : ~ (Inside(u) /\ Target(u) = c)'
      BY <1>1 DEF FreshInv, Inside, Target
    <3>3. Len(wire'[c]) = 0 /\ Len(said'[c]) = 0
      BY <3>1
    <3> QED
      BY <2>2, <3>2, <3>3 DEF BytesInv, LengthInv, Size
  <2> QED
    BY <2>1, <2>2
<1> QED
  BY <1>2, <1>4, <1>5, <1>6

LEMMA BeginIInv ==
  ASSUME IInv, NEW w \in Workers, Begin(w)
  PROVE  IInv'
<1> USE DEF IInv
<1>1. PICK c \in opened :
        job' = [job EXCEPT ![w] = [connection |-> c, header |-> Messages[taken + 1]]]
  BY DEF Begin
<1>2. /\ pc[w] = "idle" /\ taken < Len(Messages) /\ taken' = taken + 1
      /\ pc' = [pc EXCEPT ![w] = "enter"]
      /\ UNCHANGED <<opened, section, owner, index, attempts, wire, dead, said, spoilt>>
  BY DEF Begin, loops, mutexes
<1>3. TypeOK'
  <2>1. Messages[taken + 1] \in Header /\ taken + 1 \in 0 .. Len(Messages)
    BY <1>2, SendAssumption DEF TypeOK
  <2>2. [connection |-> c, header |-> Messages[taken + 1]] \in Jobs
    BY <1>1, <2>1 DEF Jobs, TypeOK
  <2>3. /\ job' \in [Workers -> Jobs \cup {NoJob}]
        /\ \A u \in Workers : pc'[u] # "idle" => job'[u] \in Jobs
    BY <1>1, <1>2, <2>2 DEF TypeOK
  <2> QED
    BY <1>1, <1>2, <2>1, <2>3 DEF TypeOK, Continues
<1>4. \A u \in Workers : Inside(u)' <=> Inside(u)
  BY <1>2 DEF Inside, TypeOK
<1>5. \A u \in Workers : Inside(u) => job'[u] = job[u] /\ index'[u] = index[u]
  BY <1>1, <1>2 DEF Inside, TypeOK
<1>6. \A d \in Connections : (Shares(d)' <=> Shares(d)) /\ (Sound(d)' <=> Sound(d))
  BY <1>2 DEF Shares, Sound
<1>7. OneInside'
  BY <1>2, <1>4, <1>5 DEF OneInside, Target, Mutex, Shares
<1>8. FreshInv'
  BY <1>1, <1>2 DEF FreshInv, Target, TypeOK
<1>9. \A d \in Connections : Sound(d)' => BytesInv(d)' /\ LengthInv(d)'
  BY <1>2, <1>4, <1>5, <1>6, Elsewhere DEF Target
<1> QED
  BY <1>3, <1>7, <1>8, <1>9

LEMMA EnterIInv ==
  ASSUME IInv, NEW w \in Workers, Enter(w)
  PROVE  IInv'
<1> USE DEF IInv
<1>0. PICK c, h : c = Target(w) /\ h = job[w].header
  OBVIOUS
<1>1. /\ pc[w] = "enter" /\ owner[section[c]] = Nobody
      /\ owner' = [owner EXCEPT ![section[c]] = w]
      /\ index' = [index EXCEPT ![w] = 0]
      /\ attempts' = [attempts EXCEPT ![w] = 0]
      /\ said' = [said EXCEPT ![c] = Append(@, h)]
      /\ pc' = [pc EXCEPT ![w] = "sending"]
      /\ UNCHANGED <<opened, section, job, taken, wire, dead, spoilt>>
  BY <1>0 DEF Enter, StartLoop, Mutex
<1>2. c \in Connections /\ c \in opened /\ h \in Header /\ section[c] \in Places
  BY <1>0, <1>1 DEF TypeOK, Jobs, FreshInv, Target
<1>3. said[c] \in Seq(Header) /\ said'[c] = Append(said[c], h)
  BY <1>1, <1>2 DEF TypeOK
<1>4. /\ Append(said[c], h) \in Seq(Header)
      /\ Len(Append(said[c], h)) = Len(said[c]) + 1
      /\ Append(said[c], h)[Len(said[c]) + 1] = h
      /\ \A i \in 1 .. Len(said[c]) : Append(said[c], h)[i] = said[c][i]
  BY <1>2, <1>3, AppendProperties
<1>5. TypeOK'
  <2>1. said' \in [Connections -> Seq(Header)]
    BY <1>1, <1>2, <1>3, <1>4 DEF TypeOK
  <2>2. owner' \in [Places -> Workers \cup {Nobody, Lost}]
    BY <1>1, <1>2 DEF TypeOK
  <2>3. 0 \in -1 .. Size /\ 0 \in 0 .. MaxAttempts /\ Continues(0, 0)
    BY SendAssumption DEF Size, Continues
  <2>4. index' \in [Workers -> -1 .. Size] /\ attempts' \in [Workers -> 0 .. MaxAttempts]
    BY <1>1, <2>3 DEF TypeOK
  <2>5. \A u \in Workers : pc'[u] = "sending" => Continues(index'[u], attempts'[u])
    <3> SUFFICES ASSUME NEW u \in Workers, pc'[u] = "sending"
                 PROVE  Continues(index'[u], attempts'[u])
      OBVIOUS
    <3>1. CASE u = w
      BY <1>1, <2>3, <3>1 DEF TypeOK
    <3>2. CASE u # w
      BY <1>1, <3>2 DEF TypeOK
    <3> QED
      BY <3>1, <3>2
  <2>6. pc' \in [Workers -> {"idle", "enter", "sending", "leave"}]
    BY <1>1 DEF TypeOK
  <2>7. \A u \in Workers : pc'[u] # "idle" => job'[u] \in Jobs
    BY <1>1 DEF TypeOK
  <2> QED
    BY <1>1, <2>1, <2>2, <2>4, <2>5, <2>6, <2>7 DEF TypeOK
<1>6. /\ \A u \in Workers : u # w => (Inside(u)' <=> Inside(u)) /\ index'[u] = index[u]
      /\ ~ Inside(w) /\ Inside(w)' /\ index'[w] = 0
  BY <1>1 DEF Inside, TypeOK
<1>7. \A d \in Connections : (Shares(d)' <=> Shares(d)) /\ (Sound(d)' <=> Sound(d))
  BY <1>1 DEF Shares, Sound
<1>8. OneInside'
  <2> SUFFICES ASSUME NEW u \in Workers, Inside(u)', ~ Shares(Target(u))
               PROVE  owner'[section[Target(u)]] = u
    BY <1>1 DEF OneInside, Target, Mutex, Shares
  <2>1. CASE u = w
    BY <1>0, <1>1, <1>2, <2>1 DEF TypeOK
  <2>2. CASE u # w
    <3>1. Inside(u) /\ owner[section[Target(u)]] = u
      BY <1>6, <2>2 DEF OneInside, Mutex
    <3>2. section[Target(u)] # section[c]
      BY <1>1, <3>1, SendAssumption
    <3> QED
      BY <1>1, <3>1, <3>2 DEF TypeOK
  <2> QED
    BY <2>1, <2>2
<1>9. FreshInv'
  BY <1>0, <1>1, <1>2 DEF FreshInv, Target, TypeOK
<1>10. ASSUME NEW d \in Connections, Sound(d)' PROVE BytesInv(d)' /\ LengthInv(d)'
  <2>1. Sound(d) /\ BytesInv(d) /\ LengthInv(d)
    BY <1>7, <1>10
  <2>2. CASE d # c
    <3>1. \A u \in Workers : (Inside(u) /\ Target(u) = d)' <=> (Inside(u) /\ Target(u) = d)
      BY <1>0, <1>1, <1>6, <2>2 DEF Target
    <3>2. \A u \in Workers :
            Inside(u) /\ Target(u) = d => job'[u] = job[u] /\ index'[u] = index[u]
      BY <1>1, <1>6
    <3> QED
      BY <1>1, <2>1, <2>2, <3>1, <3>2, Elsewhere DEF TypeOK
  <2>3. CASE d = c
    <3>1. ASSUME NEW u \in Workers, Inside(u), Target(u) = c PROVE FALSE
      <4>1. owner[section[c]] = u
        BY <2>1, <2>3, <3>1 DEF OneInside, Mutex, Sound
      <4> QED
        BY <1>1, <4>1, SendAssumption
    <3>2. Len(wire[c]) = Size * Len(said[c])
      BY <2>1, <2>3, <3>1 DEF LengthInv
    <3>3. \A u \in Workers : (Inside(u) /\ Target(u) = c)' <=> u = w
      BY <1>0, <1>1, <1>6, <3>1 DEF Target
    <3>4. Len(said[c]) \in Nat /\ Len(wire[c]) \in Nat /\ wire[c] \in Seq(Byte)
      BY <1>2, <1>3 DEF TypeOK
    <3>5. BytesInv(c)'
      <4> SUFFICES ASSUME NEW i \in 1 .. Len(wire[c])
                   PROVE  /\ (i - 1) \div Size < Len(said'[c])
                          /\ wire[c][i] = ByteOf(said'[c][(i - 1) \div Size + 1], (i - 1) % Size)
        BY <1>1 DEF BytesInv
      <4> DEFINE k == (i - 1) \div Size
      <4>1. k < Len(said[c]) /\ wire[c][i] = ByteOf(said[c][k + 1], (i - 1) % Size)
        BY <2>1, <2>3 DEF BytesInv
      <4>2. k \in Nat
        BY <3>4 DEF Size
      <4> HIDE DEF k
      <4>3. said'[c][k + 1] = said[c][k + 1]
        BY <1>3, <1>4, <3>4, <4>1, <4>2
      <4>4. k < Len(said'[c])
        BY <1>3, <1>4, <3>4, <4>1, <4>2
      <4> QED
        BY <4>1, <4>3, <4>4 DEF k
    <3>6. LengthInv(c)'
      <4>1. Len(said'[c]) - 1 = Len(said[c]) /\ said'[c] # <<>> /\ said'[c][Len(said'[c])] = h
        BY <1>3, <1>4, <3>4
      <4>2. job'[w].header = h /\ index'[w] = 0 /\ wire'[c] = wire[c]
        BY <1>0, <1>1, <1>6
      <4>3. Size * (Len(said'[c]) - 1) <= Len(wire'[c])
        BY <3>2, <3>4, <4>1, <4>2 DEF Size
      <4>4. index'[w] < Size /\ Len(wire'[c]) = Size * (Len(said'[c]) - 1) + index'[w]
        <5>1. Size * (Len(said'[c]) - 1) = Len(wire'[c])
          BY <3>2, <4>1, <4>2
        <5>2. index'[w] = 0 /\ Len(wire'[c]) + 0 = Len(wire'[c])
          BY <3>4, <4>2
        <5> QED
          BY <5>1, <5>2 DEF Size
      <4> QED
        BY <3>3, <4>1, <4>2, <4>3, <4>4 DEF LengthInv
    <3> QED
      BY <2>3, <3>5, <3>6
  <2> QED
    BY <2>2, <2>3
<1> QED
  BY <1>5, <1>8, <1>9, <1>10

(* One turn of the loop of tcpSend.                                        *)
LEMMA AdvanceFacts ==
  ASSUME TypeOK, NEW w \in Workers, pc[w] = "sending",
         NEW i \in -1 .. Size, Advance(w, i)
  PROVE  /\ index' \in [Workers -> -1 .. Size]
         /\ attempts' \in [Workers -> 0 .. MaxAttempts]
         /\ pc' \in [Workers -> {"idle", "enter", "sending", "leave"}]
         /\ \A u \in Workers : pc'[u] = "sending" => Continues(index'[u], attempts'[u])
         /\ \A u \in Workers : Inside(u)' <=> Inside(u)
         /\ \A u \in Workers : (pc'[u] = "idle") <=> (pc[u] = "idle")
         /\ index'[w] = i
         /\ \A u \in Workers : u # w => index'[u] = index[u]
<1>1. /\ index' = [index EXCEPT ![w] = i]
      /\ attempts' = [attempts EXCEPT ![w] = attempts[w] + 1]
      /\ pc' = [pc EXCEPT ![w] = IF Continues(i, attempts[w] + 1) THEN "sending" ELSE "leave"]
  BY DEF Advance
<1>2. attempts[w] + 1 \in 0 .. MaxAttempts
  BY SendAssumption DEF TypeOK, Continues
<1>3. /\ index' \in [Workers -> -1 .. Size]
      /\ attempts' \in [Workers -> 0 .. MaxAttempts]
      /\ pc' \in [Workers -> {"idle", "enter", "sending", "leave"}]
  BY <1>1, <1>2 DEF TypeOK
<1>4. \A u \in Workers : pc'[u] = "sending" => Continues(index'[u], attempts'[u])
  <2> SUFFICES ASSUME NEW u \in Workers, pc'[u] = "sending"
               PROVE  Continues(index'[u], attempts'[u])
    OBVIOUS
  <2>1. CASE u = w
    <3>1. index'[w] = i /\ attempts'[w] = attempts[w] + 1
      BY <1>1 DEF TypeOK
    <3>2. Continues(i, attempts[w] + 1)
      BY <1>1, <2>1 DEF TypeOK
    <3> QED
      BY <2>1, <3>1, <3>2
  <2>2. CASE u # w
    BY <1>1, <2>2 DEF TypeOK
  <2> QED
    BY <2>1, <2>2
<1>5. \A u \in Workers : Inside(u)' <=> Inside(u)
  BY <1>1 DEF Inside, TypeOK
<1>6. \A u \in Workers : (pc'[u] = "idle") <=> (pc[u] = "idle")
  BY <1>1 DEF TypeOK
<1>7. index'[w] = i /\ \A u \in Workers : u # w => index'[u] = index[u]
  BY <1>1 DEF TypeOK
<1> QED
  BY <1>3, <1>4, <1>5, <1>6, <1>7

LEMMA TransmitIInv ==
  ASSUME IInv, NEW w \in Workers, Transmit(w)
  PROVE  IInv'
<1> USE DEF IInv
<1>0. PICK c, h, idx : c = Target(w) /\ h = job[w].header /\ idx = index[w]
  OBVIOUS
<1>1. /\ pc[w] = "sending" /\ c \notin dead
      /\ UNCHANGED <<opened, section, owner, job, taken, dead, said, spoilt>>
  BY <1>0 DEF Transmit, mutexes
<1>2. PICK n \in 1 .. Size - idx :
        /\ wire' = [wire EXCEPT ![c] = @ \o SubSeq(HeaderBytes(h), idx + 1, idx + n)]
        /\ Advance(w, idx + n)
  BY <1>0 DEF Transmit
<1>3. c \in Connections /\ c \in opened /\ h \in Header
  BY <1>0, <1>1 DEF TypeOK, Jobs, FreshInv, Target
<1>4. idx \in Int /\ 0 <= idx /\ idx < Size /\ n \in Int /\ 1 <= n /\ idx + n <= Size
  BY <1>0, <1>1, <1>2 DEF TypeOK, Continues, Size
<1>5. idx + n \in -1 .. Size
  BY <1>4 DEF Size
<1>6. /\ index' \in [Workers -> -1 .. Size]
      /\ attempts' \in [Workers -> 0 .. MaxAttempts]
      /\ pc' \in [Workers -> {"idle", "enter", "sending", "leave"}]
      /\ \A u \in Workers : pc'[u] = "sending" => Continues(index'[u], attempts'[u])
      /\ \A u \in Workers : Inside(u)' <=> Inside(u)
      /\ \A u \in Workers : (pc'[u] = "idle") <=> (pc[u] = "idle")
      /\ index'[w] = idx + n
      /\ \A u \in Workers : u # w => index'[u] = index[u]
  BY <1>1, <1>2, <1>5, AdvanceFacts
<1>7. PICK y : y = SubSeq(HeaderBytes(h), idx + 1, idx + n)
  OBVIOUS
<1>8. y \in Seq(Byte) /\ Len(y) = n /\ \A j \in 1 .. n : y[j] = ByteOf(h, idx + j - 1)
  <2>1. HeaderBytes(h) \in Seq(Byte) /\ Len(HeaderBytes(h)) = Size
    BY <1>3, HeaderBytesType
  <2>2. idx + 1 \in 1 .. Len(HeaderBytes(h)) /\ idx + n \in idx .. Len(HeaderBytes(h))
    BY <1>4, <2>1 DEF Size
  <2>3. /\ y \in Seq(Byte) /\ Len(y) = n
        /\ \A j \in 1 .. n : y[j] = HeaderBytes(h)[idx + 1 + j - 1]
    BY <1>4, <1>7, <2>1, <2>2, SubSeqProperties
  <2>4. ASSUME NEW j \in 1 .. n PROVE y[j] = ByteOf(h, idx + j - 1)
    <3>1. idx + 1 + j - 1 = (idx + j - 1) + 1
      BY <1>4
    <3> QED
      BY <2>3, <3>1 DEF ByteOf
  <2> QED
    BY <2>3, <2>4
<1>9. wire[c] \in Seq(Byte) /\ wire'[c] = wire[c] \o y
  BY <1>2, <1>3, <1>7 DEF TypeOK
<1>10. /\ wire[c] \o y \in Seq(Byte)
       /\ Len(wire[c] \o y) = Len(wire[c]) + n
       /\ \A i \in 1 .. Len(wire[c]) : (wire[c] \o y)[i] = wire[c][i]
       /\ \A j \in 1 .. n : (wire[c] \o y)[Len(wire[c]) + j] = y[j]
  BY <1>8, <1>9, ConcatProperties
<1>11. TypeOK'
  <2>1. wire' \in [Connections -> Seq(Byte)]
    BY <1>2, <1>3, <1>7, <1>9, <1>10 DEF TypeOK
  <2>2. \A u \in Workers : pc'[u] # "idle" => job'[u] \in Jobs
    BY <1>1, <1>6 DEF TypeOK
  <2> QED
    BY <1>1, <1>6, <2>1, <2>2 DEF TypeOK
<1>12. \A d \in Connections : (Shares(d)' <=> Shares(d)) /\ (Sound(d)' <=> Sound(d))
  BY <1>1 DEF Shares, Sound
<1>13. OneInside'
  BY <1>1, <1>6 DEF OneInside, Target, Mutex, Shares
<1>14. FreshInv'
  BY <1>1, <1>2, <1>3, <1>6 DEF FreshInv, Target, TypeOK
<1>15. ASSUME NEW d \in Connections, Sound(d)' PROVE BytesInv(d)' /\ LengthInv(d)'
  <2>1. Sound(d) /\ BytesInv(d) /\ LengthInv(d)
    BY <1>12, <1>15
  <2>2. CASE d # c
    <3>1. \A u \in Workers : (Inside(u) /\ Target(u) = d)' <=> (Inside(u) /\ Target(u) = d)
      BY <1>1, <1>6 DEF Target
    <3>2. \A u \in Workers :
            Inside(u) /\ Target(u) = d => job'[u] = job[u] /\ index'[u] = index[u]
      BY <1>0, <1>1, <1>6, <2>2
    <3>3. wire'[d] = wire[d] /\ said'[d] = said[d] /\ (d \in dead' <=> d \in dead)
      BY <1>1, <1>2, <2>2 DEF TypeOK
    <3> QED
      BY <2>1, <3>1, <3>2, <3>3, Elsewhere
  <2>3. CASE d = c
    <3>1. Inside(w) /\ Target(w) = c
      BY <1>0, <1>1 DEF Inside
    <3>2. \A u \in Workers : (Inside(u) /\ Target(u) = c)' <=> u = w
      BY <1>1, <1>6, <2>1, <2>3, <3>1, Unique DEF Target, Sound
    <3>3. PICK m : m = Len(said[c]) - 1
      OBVIOUS
    <3>4. /\ said[c] \in Seq(Header) /\ said[c] # <<>> /\ said[c][Len(said[c])] = h
          /\ Len(wire[c]) = Size * (Len(said[c]) - 1) + idx
      BY <1>0, <1>1, <2>1, <2>3, <3>1 DEF LengthInv, TypeOK
    <3>5. m \in Nat /\ Len(said[c]) = m + 1
      BY <3>3, <3>4
    <3>6. Len(wire[c]) = Size * m + idx
      BY <3>3, <3>4
    <3>7. BytesInv(c)'
      <4> SUFFICES ASSUME NEW i \in 1 .. Len(wire'[c])
                   PROVE  /\ (i - 1) \div Size < Len(said[c])
                          /\ wire'[c][i] = ByteOf(said[c][(i - 1) \div Size + 1], (i - 1) % Size)
        BY <1>1 DEF BytesInv
      <4>1. CASE i <= Len(wire[c])
        <5>1. i \in 1 .. Len(wire[c])
          BY <1>9, <4>1
        <5>2. wire'[c][i] = wire[c][i]
          BY <1>9, <1>10, <5>1
        <5> QED
          BY <2>1, <2>3, <5>1, <5>2 DEF BytesInv
      <4>2. CASE i > Len(wire[c])
        <5>1. PICK j : j = i - Len(wire[c])
          OBVIOUS
        <5>2. j \in 1 .. n /\ i = Len(wire[c]) + j
          BY <1>4, <1>9, <1>10, <4>2, <5>1
        <5>3. wire'[c][i] = ByteOf(h, idx + j - 1)
          BY <1>8, <1>9, <1>10, <5>2
        <5>4. PICK r : r = idx + j - 1
          OBVIOUS
        <5>5. r \in 0 .. 3 /\ i - 1 = Size * m + r
          BY <1>4, <3>5, <3>6, <5>2, <5>4 DEF Size
        <5>6. (i - 1) \div Size = m /\ (i - 1) % Size = r
          BY <3>5, <5>5, Position
        <5> QED
          BY <3>4, <3>5, <5>3, <5>4, <5>6
      <4> QED
        BY <1>9, <4>1, <4>2
    <3>8. LengthInv(c)'
      <4>1. Len(wire'[c]) = Size * m + (idx + n)
        BY <1>4, <1>9, <1>10, <3>5, <3>6 DEF Size
      <4>2. Size * m <= Len(wire'[c])
        BY <1>4, <3>5, <4>1 DEF Size
      <4>3. job'[w].header = h /\ said'[c] = said[c] /\ Len(said'[c]) - 1 = m /\ c \notin dead'
        BY <1>0, <1>1, <3>3
      <4> QED
        BY <1>6, <3>2, <3>4, <4>1, <4>2, <4>3 DEF LengthInv
    <3> QED
      BY <2>3, <3>7, <3>8
  <2> QED
    BY <2>2, <2>3
<1> QED
  BY <1>11, <1>13, <1>14, <1>15

LEMMA TransmitFailsIInv ==
  ASSUME IInv, NEW w \in Workers, TransmitFails(w)
  PROVE  IInv'
<1> USE DEF IInv
<1>0. PICK c, idx : c = Target(w) /\ idx = index[w]
  OBVIOUS
<1>1. /\ pc[w] = "sending" /\ Advance(w, idx - 1)
      /\ \/ dead' = dead \cup {c} /\ spoilt' = spoilt
         \/ dead' = dead /\ spoilt' = spoilt \cup {c}
      /\ UNCHANGED <<opened, section, owner, job, taken, wire, said>>
  BY <1>0 DEF TransmitFails, mutexes
<1>2. c \in Connections
  BY <1>0, <1>1 DEF TypeOK, Jobs, Target
<1>3. idx \in Int /\ 0 <= idx /\ idx < Size /\ idx - 1 \in -1 .. Size /\ idx - 1 < Size
  BY <1>0, <1>1 DEF TypeOK, Continues, Size
<1>4. /\ index' \in [Workers -> -1 .. Size]
      /\ attempts' \in [Workers -> 0 .. MaxAttempts]
      /\ pc' \in [Workers -> {"idle", "enter", "sending", "leave"}]
      /\ \A u \in Workers : pc'[u] = "sending" => Continues(index'[u], attempts'[u])
      /\ \A u \in Workers : Inside(u)' <=> Inside(u)
      /\ \A u \in Workers : (pc'[u] = "idle") <=> (pc[u] = "idle")
      /\ index'[w] = idx - 1
      /\ \A u \in Workers : u # w => index'[u] = index[u]
  BY <1>1, <1>3, AdvanceFacts
<1>5. TypeOK'
  <2>1. dead' \subseteq Connections /\ spoilt' \subseteq Connections
    BY <1>1, <1>2 DEF TypeOK
  <2>2. \A u \in Workers : pc'[u] # "idle" => job'[u] \in Jobs
    BY <1>1, <1>4 DEF TypeOK
  <2> QED
    BY <1>1, <1>4, <2>1, <2>2 DEF TypeOK
<1>6. \A d \in Connections : (Shares(d)' <=> Shares(d)) /\ (Sound(d)' => Sound(d))
  BY <1>1 DEF Shares, Sound
<1>7. OneInside'
  BY <1>1, <1>4 DEF OneInside, Target, Mutex, Shares
<1>8. FreshInv'
  BY <1>1, <1>4 DEF FreshInv, Target
<1>9. ASSUME NEW d \in Connections, Sound(d)' PROVE BytesInv(d)' /\ LengthInv(d)'
  <2>1. Sound(d) /\ BytesInv(d) /\ LengthInv(d)
    BY <1>6, <1>9
  <2>2. \A u \in Workers : (Inside(u) /\ Target(u) = d)' <=> (Inside(u) /\ Target(u) = d)
    BY <1>1, <1>4 DEF Target
  <2>3. CASE d # c
    <3>1. \A u \in Workers :
            Inside(u) /\ Target(u) = d => job'[u] = job[u] /\ index'[u] = index[u]
      BY <1>0, <1>1, <1>4, <2>3
    <3>2. d \in dead' <=> d \in dead
      BY <1>1, <2>3
    <3> QED
      BY <1>1, <2>1, <2>2, <3>1, <3>2, Elsewhere
  <2>4. CASE d = c
    <3>1. Inside(w) /\ Target(w) = c
      BY <1>0, <1>1 DEF Inside
    <3>2. \A u \in Workers : Inside(u) /\ Target(u) = c => u = w
      BY <2>1, <2>4, <3>1, Unique DEF Sound
    <3>3. c \in dead'
      BY <1>1, <1>9, <2>4 DEF Sound
    <3>4. /\ said[c] # <<>> /\ said[c][Len(said[c])] = job[w].header
          /\ Size * (Len(said[c]) - 1) <= Len(wire[c])
      BY <2>1, <2>4, <3>1 DEF LengthInv
    <3>5. BytesInv(c)'
      BY <1>1, <2>1, <2>4 DEF BytesInv
    <3>6. LengthInv(c)'
      BY <1>1, <1>3, <1>4, <2>2, <2>4, <3>1, <3>2, <3>3, <3>4 DEF LengthInv
    <3> QED
      BY <2>4, <3>5, <3>6
  <2> QED
    BY <2>3, <2>4
<1> QED
  BY <1>5, <1>7, <1>8, <1>9

LEMMA LeaveIInv ==
  ASSUME IInv, NEW w \in Workers, Leave(w)
  PROVE  IInv'
<1> USE DEF IInv
<1>0. PICK c : c = Target(w)
  OBVIOUS
<1>1. /\ pc[w] = "leave"
      /\ pc' = [pc EXCEPT ![w] = "idle"]
      /\ job' = [job EXCEPT ![w] = NoJob]
      /\ index' = [index EXCEPT ![w] = 0]
      /\ attempts' = [attempts EXCEPT ![w] = 0]
      /\ spoilt' = IF index[w] = Size THEN spoilt ELSE spoilt \cup {c}
      /\ UNCHANGED <<opened, section, taken, wire, dead, said>>
  BY <1>0 DEF Leave, Return
<1>2. PICK o \in Workers \cup {Nobody, Lost} : owner' = [owner EXCEPT ![section[c]] = o]
  <2>1. c \in Connections
    BY <1>0, <1>1 DEF TypeOK, Jobs, Target
  <2>2. owner[section[c]] \in Workers \cup {Nobody, Lost}
    BY <2>1 DEF TypeOK
  <2> QED
    BY <1>0, <2>2 DEF Leave, LeaveSection, Mutex
<1>3. c \in Connections /\ c \in opened /\ section[c] \in Places
  BY <1>0, <1>1 DEF TypeOK, Jobs, Target, FreshInv
<1>4. TypeOK'
  <2>1. spoilt' \subseteq Connections /\ owner' \in [Places -> Workers \cup {Nobody, Lost}]
    BY <1>1, <1>2, <1>3 DEF TypeOK
  <2>2. 0 \in -1 .. Size /\ 0 \in 0 .. MaxAttempts
    BY SendAssumption DEF Size
  <2>3. /\ index' \in [Workers -> -1 .. Size] /\ attempts' \in [Workers -> 0 .. MaxAttempts]
        /\ pc' \in [Workers -> {"idle", "enter", "sending", "leave"}]
        /\ job' \in [Workers -> Jobs \cup {NoJob}]
    BY <1>1, <2>2 DEF TypeOK
  <2>4. \A u \in Workers : pc'[u] # "idle" => job'[u] \in Jobs
    BY <1>1 DEF TypeOK
  <2>5. \A u \in Workers : pc'[u] = "sending" => Continues(index'[u], attempts'[u])
    BY <1>1 DEF TypeOK
  <2> QED
    BY <1>1, <2>1, <2>3, <2>4, <2>5 DEF TypeOK
<1>5. /\ ~ Inside(w)' /\ Inside(w) /\ Target(w) = c
      /\ \A u \in Workers : u # w =>
           (Inside(u)' <=> Inside(u)) /\ job'[u] = job[u] /\ index'[u] = index[u]
  BY <1>0, <1>1 DEF Inside, TypeOK
<1>6. \A d \in Connections : (Shares(d)' <=> Shares(d)) /\ (Sound(d)' => Sound(d))
  BY <1>1 DEF Shares, Sound
<1>7. OneInside'
  <2> SUFFICES ASSUME NEW u \in Workers, Inside(u)', ~ Shares(Target(u))'
               PROVE  owner'[section'[Target(u)']] = u
    BY DEF OneInside, Mutex
  <2>1. u # w /\ Inside(u) /\ Target(u)' = Target(u)
    BY <1>5 DEF Target
  <2>2. PICK d : d = Target(u)
    OBVIOUS
  <2>3. d \in Connections /\ d \in opened
    BY <1>5, <2>1, <2>2 DEF TypeOK, Jobs, Target, FreshInv, Inside
  <2>4. ~ Shares(d)
    BY <1>1, <2>1, <2>2 DEF Shares
  <2>5. owner[section[d]] = u
    BY <2>1, <2>2, <2>4 DEF OneInside, Mutex
  <2>6. d # c
    BY <1>5, <2>1, <2>2, <2>3, <2>4, Unique
  <2>7. section[d] # section[c]
    BY <1>3, <2>4, <2>6 DEF Shares
  <2>8. section'[Target(u)'] = section[d] /\ section[d] \in Places
    BY <1>1, <2>1, <2>2, <2>3 DEF TypeOK
  <2>9. owner'[section[d]] = owner[section[d]]
    BY <1>2, <2>7, <2>8 DEF TypeOK
  <2> QED
    BY <2>5, <2>8, <2>9
<1>8. FreshInv'
  BY <1>1, <1>5 DEF FreshInv, Target, TypeOK
<1>9. ASSUME NEW d \in Connections, Sound(d)' PROVE BytesInv(d)' /\ LengthInv(d)'
  <2>1. Sound(d) /\ BytesInv(d) /\ LengthInv(d)
    BY <1>6, <1>9
  <2>2. CASE d # c
    <3>1. \A u \in Workers : (Inside(u) /\ Target(u) = d)' <=> (Inside(u) /\ Target(u) = d)
      BY <1>5, <2>2 DEF Target
    <3>2. \A u \in Workers :
            Inside(u) /\ Target(u) = d => job'[u] = job[u] /\ index'[u] = index[u]
      BY <1>5, <2>2
    <3> QED
      BY <1>1, <2>1, <3>1, <3>2, Elsewhere
  <2>3. CASE d = c
    <3>1. \A u \in Workers : ~ (Inside(u) /\ Target(u) = c)'
      BY <1>5, <2>1, <2>3, Unique DEF Target, Sound
    <3>2. index[w] = Size
      BY <1>1, <1>3, <1>9, <2>3 DEF Sound
    <3>3. Len(wire[c]) = Size * (Len(said[c]) - 1) + Size
      <4>1. ~ (Size < Size)
        BY DEF Size
      <4> QED
        BY <1>5, <2>1, <2>3, <3>2, <4>1 DEF LengthInv
    <3>4. Len(said[c]) \in Nat
      BY <1>3 DEF TypeOK
    <3>5. Len(wire[c]) = Size * Len(said[c])
      BY <3>3, <3>4 DEF Size
    <3>6. BytesInv(c)'
      BY <1>1, <2>1, <2>3 DEF BytesInv
    <3>7. LengthInv(c)'
      BY <1>1, <3>1, <3>5 DEF LengthInv
    <3> QED
      BY <2>3, <3>6, <3>7
  <2> QED
    BY <2>2, <2>3
<1> QED
  BY <1>4, <1>7, <1>8, <1>9

LEMMA StutterIInv ==
  ASSUME IInv, UNCHANGED vars
  PROVE  IInv'
<1>1. UNCHANGED <<opened, section, owner, pc, job, index, attempts, taken, wire, dead, said,
                  spoilt>>
  BY DEF vars
<1>2. TypeOK' /\ OneInside' /\ FreshInv'
  BY <1>1 DEF IInv, TypeOK, OneInside, FreshInv, Inside, Target, Mutex, Shares
<1>3. \A d \in Connections : Sound(d)' <=> Sound(d)
  BY <1>1 DEF Sound, Shares
<1>4. \A d \in Connections : (BytesInv(d)' <=> BytesInv(d)) /\ (LengthInv(d)' <=> LengthInv(d))
  BY <1>1 DEF BytesInv, LengthInv, Inside, Target
<1> QED
  BY <1>2, <1>3, <1>4 DEF IInv

LEMMA StepIInv == IInv /\ [Next]_vars => IInv'
<1> SUFFICES ASSUME IInv, [Next]_vars PROVE IInv'
  OBVIOUS
<1>1. ASSUME NEW c \in Connections, Open(c) PROVE IInv'
  BY <1>1, OpenIInv
<1>2. ASSUME NEW w \in Workers, Begin(w) PROVE IInv'
  BY <1>2, BeginIInv
<1>3. ASSUME NEW w \in Workers, Enter(w) PROVE IInv'
  BY <1>3, EnterIInv
<1>4. ASSUME NEW w \in Workers, Transmit(w) PROVE IInv'
  BY <1>4, TransmitIInv
<1>5. ASSUME NEW w \in Workers, TransmitFails(w) PROVE IInv'
  BY <1>5, TransmitFailsIInv
<1>6. ASSUME NEW w \in Workers, Leave(w) PROVE IInv'
  BY <1>6, LeaveIInv
<1>7. CASE UNCHANGED vars
  BY <1>7, StutterIInv
<1> QED
  BY <1>1, <1>2, <1>3, <1>4, <1>5, <1>6, <1>7 DEF Next

(* The invariant that carries the others, of sock.c:146-173.               *)
THEOREM Invariance == Spec => []IInv
<1> QED
  BY InitIInv, StepIInv, PTL DEF Spec

(* Every variable of the sends keeps its type; the loop of tcpSend ends    *)
(* after ten attempts or with an index that is within the message or -1.   *)
THEOREM TypeCorrect == Spec => []TypeOK
<1>1. IInv => TypeOK
  BY DEF IInv
<1> QED
  BY <1>1, Invariance, PTL

LEMMA IInvHeard == IInv => HeardAsSaid
<1> SUFFICES ASSUME IInv, NEW c \in Connections, Sound(c), NEW k \in 1 .. Len(wire[c]) \div Size
             PROVE  k <= Len(said[c]) /\ Heard(c)[k] = said[c][k]
  BY DEF HeardAsSaid
<1>1. BytesInv(c) /\ wire[c] \in Seq(Byte) /\ said[c] \in Seq(Header)
  BY DEF IInv, TypeOK
<1>2. PICK m : m = k - 1
  OBVIOUS
<1>3. Len(wire[c]) \in Nat /\ m \in Nat /\ k = m + 1
  BY <1>1, <1>2 DEF Size
<1>4. Size * m + 4 <= Len(wire[c])
  <2>1. PICK l : l = Len(wire[c])
    OBVIOUS
  <2>2. l \in Nat /\ k \in Nat /\ k <= l \div 4
    <3>1. k \in 1 .. l \div 4 /\ l \in Nat
      BY <1>3, <2>1, Zenon DEF Size
    <3>2. l \div 4 \in Nat
      BY <3>1
    <3> QED
      BY <1>3, <3>1, <3>2
  <2>3. 4 * (l \div 4) <= l
    BY <2>2
  <2>4. 4 * k <= l
    BY <2>2, <2>3
  <2> QED
    BY <1>3, <2>1, <2>4 DEF Size
<1>5. ASSUME NEW r \in 0 .. 3
      PROVE  m < Len(said[c]) /\ wire[c][Size * m + r + 1] = ByteOf(said[c][k], r)
  <2>1. PICK i : i = Size * m + r + 1
    OBVIOUS
  <2>2. i \in 1 .. Len(wire[c]) /\ i - 1 = Size * m + r
    BY <1>3, <1>4, <2>1 DEF Size
  <2>3. (i - 1) \div Size = m /\ (i - 1) % Size = r
    BY <1>3, <2>2, Position
  <2> QED
    BY <1>1, <1>3, <2>1, <2>2, <2>3 DEF BytesInv
<1>6. k <= Len(said[c])
  <2>1. m < Len(said[c])
    BY <1>5
  <2> QED
    BY <1>1, <1>3, <2>1
<1>7. /\ wire[c][Size * k - 3] = ByteOf(said[c][k], 0)
      /\ wire[c][Size * k - 2] = ByteOf(said[c][k], 1)
      /\ wire[c][Size * k - 1] = ByteOf(said[c][k], 2)
      /\ wire[c][Size * k] = ByteOf(said[c][k], 3)
  <2>1. /\ Size * k - 3 = Size * m + 0 + 1 /\ Size * k - 2 = Size * m + 1 + 1
        /\ Size * k - 1 = Size * m + 2 + 1 /\ Size * k = Size * m + 3 + 1
    BY <1>3 DEF Size
  <2> QED
    BY <1>5, <2>1
<1>8. said[c][k] \in Header
  BY <1>1, <1>3, <1>6
<1>9. Heard(c)[k] = [code |-> said[c][k].code, id |-> said[c][k].id]
  BY <1>7, <1>8, HeaderDecodes DEF Heard
<1>10. said[c][k] = [code |-> said[c][k].code, id |-> said[c][k].id]
  BY <1>8 DEF Header
<1> QED
  BY <1>6, <1>9, <1>10

(* The remote end reads the headers that were sent, whole and in the order *)
(* of the mutex, however many workers send and however send() cuts them.   *)
THEOREM HeardRight == Spec => []HeardAsSaid
<1> QED
  BY IInvHeard, Invariance, PTL

LEMMA IInvWhole == IInv => WholeIfReported
<1> SUFFICES ASSUME IInv, NEW w \in Workers, pc[w] = "leave", index[w] = Size, Sound(Target(w))
             PROVE  Len(wire[Target(w)]) = Size * Len(said[Target(w)])
  BY DEF WholeIfReported
<1>1. PICK c : c = Target(w)
  OBVIOUS
<1>2. c \in Connections /\ Inside(w)
  BY <1>1 DEF IInv, TypeOK, Jobs, Target, Inside
<1>3. LengthInv(c)
  BY <1>1, <1>2 DEF IInv
<1>4. Len(wire[c]) = Size * (Len(said[c]) - 1) + Size
  BY <1>1, <1>2, <1>3 DEF LengthInv, Size
<1>5. Len(said[c]) \in Nat
  BY <1>2 DEF IInv, TypeOK
<1> QED
  BY <1>1, <1>4, <1>5 DEF Size

(* sockSend reports a message as sent only when all of it is on the wire.  *)
THEOREM ReportedWhole == Spec => []WholeIfReported
<1> QED
  BY IInvWhole, Invariance, PTL

(* A mutex is held by a worker in the loop of tcpSend or about to leave it, *)
(* and by its own connection's: inductive with the types.                   *)
LEMMA HoldersStep ==
  ASSUME TypeOK, HoldersSend, [Next]_vars
  PROVE  HoldersSend'
<1> USE SendAssumption DEF HoldersSend, mutexes, loops
<1> SUFFICES ASSUME NEW p \in Places, NEW u \in Workers, owner'[p] = u
             PROVE  /\ pc'[u] \in {"sending", "leave"}
                    /\ section'[job'[u].connection] = p
  BY DEF Inside, Mutex, Target
<1>1. owner[p] = u => pc[u] \in {"sending", "leave"} /\ section[job[u].connection] = p
  BY DEF Inside, Mutex, Target
<1>2. ASSUME NEW c \in Connections, Open(c) PROVE owner[p] = u /\ UNCHANGED <<pc, job, section>>
  <2>1. owner' = [owner EXCEPT ![section[c]] = Nobody] /\ u # Nobody
    BY <1>2 DEF Open
  <2> QED
    BY <1>2, <2>1 DEF Open, TypeOK
<1>3. ASSUME NEW w \in Workers, Begin(w) PROVE owner[p] = u /\ u # w /\ UNCHANGED section
                                               /\ pc'[u] = pc[u] /\ job'[u] = job[u]
  <2>1. owner[p] = u /\ u # w /\ UNCHANGED section
    BY <1>1, <1>3 DEF Begin
  <2> QED
    BY <1>3, <2>1 DEF Begin, TypeOK
<1>4. ASSUME NEW w \in Workers, Enter(w)
      PROVE  /\ pc'[u] \in {"sending", "leave"}
             /\ section'[job'[u].connection] = p
  <2>1. /\ pc' = [pc EXCEPT ![w] = "sending"] /\ UNCHANGED <<section, job>>
        /\ pc[w] = "enter" /\ owner' = [owner EXCEPT ![section[job[w].connection]] = w]
    BY <1>4 DEF Enter, StartLoop, Mutex, Target
  <2>2. CASE u = w
    <3>1. p = section[job[w].connection]
      BY <1>1, <2>1, <2>2 DEF TypeOK
    <3> QED
      BY <2>1, <2>2, <3>1 DEF TypeOK
  <2>3. CASE u # w
    BY <1>1, <2>1, <2>3 DEF TypeOK
  <2> QED
    BY <2>2, <2>3
<1>5. ASSUME NEW w \in Workers, NEW i, Advance(w, i), UNCHANGED <<owner, section, job>>,
             pc[w] = "sending"
      PROVE  /\ pc'[u] \in {"sending", "leave"}
             /\ section'[job'[u].connection] = p
  BY <1>1, <1>5 DEF Advance, TypeOK
<1>6. ASSUME NEW w \in Workers, Transmit(w) \/ TransmitFails(w)
      PROVE  /\ pc'[u] \in {"sending", "leave"}
             /\ section'[job'[u].connection] = p
  <2>1. \E i : Advance(w, i) /\ UNCHANGED <<owner, section, job>> /\ pc[w] = "sending"
    BY <1>6 DEF Transmit, TransmitFails
  <2> QED
    BY <1>5, <2>1
<1>7. ASSUME NEW w \in Workers, Leave(w)
      PROVE  owner[p] = u /\ u # w /\ UNCHANGED section /\ pc'[u] = pc[u] /\ job'[u] = job[u]
  <2>1. PICK o \in IF owner[section[job[w].connection]] = w THEN {Nobody}
                   ELSE {owner[section[job[w].connection]], Nobody, Lost} :
          owner' = [owner EXCEPT ![section[job[w].connection]] = o]
    BY <1>7 DEF Leave, LeaveSection, Mutex, Target
  <2>2. pc' = [pc EXCEPT ![w] = "idle"] /\ job' = [job EXCEPT ![w] = NoJob] /\ UNCHANGED section
    BY <1>7 DEF Leave, Return
  <2>3. u # Nobody /\ u # Lost
    OBVIOUS
  <2>4. owner[p] = u /\ u # w
    BY <1>1, <2>1, <2>3 DEF TypeOK
  <2> QED
    BY <2>2, <2>4 DEF TypeOK
<1>8. CASE UNCHANGED vars
  BY <1>1, <1>8 DEF vars
<1> QED
  BY <1>1, <1>2, <1>3, <1>4, <1>6, <1>7, <1>8 DEF Next

(* The workers never wait for each other in a circle, however many          *)
(* connections have their mutex in one place and whatever was made anew or  *)
(* broken under whoever is in it: who holds a mutex waits for send() only.  *)
THEOREM HoldersOnlySend == Spec => []HoldersSend
<1>1. Init => HoldersSend
  BY SendAssumption DEF Init, HoldersSend
<1>2. TypeOK /\ HoldersSend /\ [Next]_vars => HoldersSend'
  BY HoldersStep
<1> QED
  BY <1>1, <1>2, TypeCorrect, PTL DEF Spec

-----------------------------------------------------------------------------
(* The sends as if each happened at once.                                  *)

(* What is heard of a sound connection is a sequence of headers, those of  *)
(* the messages that are out in all their bytes.                           *)
HeardFacts(c) ==
  /\ Heard(c) \in Seq(Header)
  /\ Len(Heard(c)) = Len(wire[c]) \div Size
  /\ \A k \in 1 .. Len(Heard(c)) : k <= Len(said[c]) /\ Heard(c)[k] = said[c][k]

HeardInv == \A c \in Connections : Sound(c) => HeardFacts(c)

LEMMA HeardSeq == IInv => HeardInv
<1> SUFFICES ASSUME IInv, NEW c \in Connections, Sound(c) PROVE HeardFacts(c)
  BY DEF HeardInv
<1>1. PICK n : n = Len(wire[c]) \div Size
  OBVIOUS
<1>2. n \in Nat
  <2>1. PICK l : l = Len(wire[c])
    OBVIOUS
  <2>2. l \in Nat /\ n = l \div 4
    <3>1. l \in Nat
      BY <2>1 DEF IInv, TypeOK
    <3> QED
      BY <1>1, <2>1, <3>1, Zenon DEF Size
  <2> QED
    BY <2>2
<1>3. \A k \in 1 .. n : k <= Len(said[c]) /\ Heard(c)[k] = said[c][k]
  BY <1>1, IInvHeard DEF HeardAsSaid
<1>4. Heard(c) \in [1 .. n -> Header]
  <2>1. \A k \in 1 .. n : said[c][k] \in Header
    <3> SUFFICES ASSUME NEW k \in 1 .. n PROVE said[c][k] \in Header
      OBVIOUS
    <3>1. said[c] \in Seq(Header) /\ k \in 1 .. Len(said[c])
      BY <1>2, <1>3 DEF IInv, TypeOK
    <3> QED
      BY <3>1, ElementOfSeq
  <2>2. Heard(c) = [k \in 1 .. n |-> Heard(c)[k]]
    BY <1>1 DEF Heard
  <2>3. \A k \in 1 .. n : Heard(c)[k] \in Header
    BY <1>3, <2>1
  <2>4. PICK s : s = Heard(c)
    OBVIOUS
  <2>5. s = [k \in 1 .. n |-> s[k]] /\ \A k \in 1 .. n : s[k] \in Header
    BY <2>2, <2>3, <2>4, Zenon
  <2> QED
    BY <2>4, <2>5
<1>5. Heard(c) \in Seq(Header) /\ Len(Heard(c)) = n
  <2>1. Heard(c) \in Seq(Header)
    BY <1>2, <1>4, SeqDef
  <2>2. DOMAIN Heard(c) = 1 .. Len(Heard(c)) /\ DOMAIN Heard(c) = 1 .. n /\ Len(Heard(c)) \in Nat
    BY <1>4, <2>1, LenProperties
  <2>3. PICK l : l = Len(Heard(c))
    OBVIOUS
  <2>4. l \in Nat /\ \A x \in Int : x \in 1 .. l <=> x \in 1 .. n
    BY <2>2, <2>3, Zenon
  <2>5. l = n
    BY <1>2, <2>4
  <2> QED
    BY <2>1, <2>3, <2>5
<1> QED
  BY <1>1, <1>3, <1>5 DEF HeardFacts

(* Nothing new is heard unless another header is whole.                    *)
LEMMA HeardStays ==
  ASSUME HeardInv, HeardInv', NEW d \in Connections, Sound(d), Sound(d)',
         said'[d] = said[d], Len(wire'[d]) \div Size = Len(wire[d]) \div Size
  PROVE  Heard(d)' = Heard(d)
<1>1. HeardFacts(d) /\ HeardFacts(d)'
  BY DEF HeardInv
<1>2. /\ Heard(d) \in Seq(Header) /\ Heard(d)' \in Seq(Header)
      /\ Len(Heard(d)') = Len(Heard(d))
      /\ \A k \in 1 .. Len(Heard(d)) : Heard(d)'[k] = Heard(d)[k]
  BY <1>1 DEF HeardFacts
<1> HIDE DEF HeardInv
<1> QED
  BY <1>2, SeqEqual

(* What opening a connection does to those that share its mutex.           *)
LEMMA OpenCalls ==
  ASSUME IInv, HeardInv, HeardInv', NEW c \in Connections, Open(c)
  PROVE  Calls!Open(c)
<1>1. /\ c \notin opened /\ opened' = opened \cup {c} /\ opened \subseteq Connections
      /\ UNCHANGED <<section, pc, job, index, wire, said, spoilt>>
  BY DEF Open, loops, IInv, TypeOK
<1>2. PICK broken : broken = {d \in opened \cup {c} : ~ Sound(d)'}
  OBVIOUS
<1>3. \A d \in opened : Sound(d)' => Sound(d)
  BY <1>1 DEF Sound, Shares
<1>4. Lines[c] = "shut" /\ broken \in SUBSET {d \in Connections : d = c \/ Lines[d] # "shut"}
  BY <1>1, <1>2 DEF Lines
<1>5. Lines' = [d \in Connections |-> IF d \in broken THEN "garbled"
                                     ELSE IF d = c THEN "clear" ELSE Lines[d]]
  BY <1>1, <1>2, <1>3 DEF Lines
<1>6. HeardClearly' = [d \in Connections |-> IF d \in broken THEN <<>> ELSE HeardClearly[d]]
  <2> SUFFICES ASSUME NEW d \in Connections
               PROVE  HeardClearly'[d] = IF d \in broken THEN <<>> ELSE HeardClearly[d]
    BY DEF HeardClearly
  <2>1. CASE d \in broken
    BY <1>2, <2>1 DEF HeardClearly
  <2>2. CASE d \notin opened \cup {c}
    BY <1>1, <1>2, <2>2 DEF HeardClearly, Sound
  <2>3. CASE d \in opened /\ d \notin broken
    <3>1. Sound(d)' /\ Sound(d)
      BY <1>2, <1>3, <2>3
    <3>2. Heard(d)' = Heard(d)
      BY <1>1, <3>1, HeardStays
    <3> QED
      BY <2>3, <3>1, <3>2 DEF HeardClearly
  <2>4. CASE d = c /\ d \notin broken
    <3>1. Sound(c)' /\ ~ Sound(c)
      BY <1>1, <1>2, <2>4 DEF Sound
    <3>2. wire'[c] = <<>>
      BY <1>1 DEF IInv, FreshInv
    <3>3. Heard(c)' \in Seq(Header) /\ Len(Heard(c)') = Len(wire'[c]) \div Size
      BY <3>1 DEF HeardInv, HeardFacts
    <3>4. Len(Heard(c)') = 0
      BY <3>2, <3>3 DEF Size
    <3>5. Heard(c)' = <<>>
      BY <3>3, <3>4, EmptySeq
    <3> QED
      BY <2>4, <3>1, <3>5 DEF HeardClearly
  <2> QED
    BY <2>1, <2>2, <2>3, <2>4
<1>7. job' = job /\ Delivered' = Delivered
  BY <1>1 DEF Delivered
<1> QED
  BY <1>4, <1>5, <1>6, <1>7 DEF Calls!Open

(* What is heard does not change with what workers do off the wire.        *)
LEMMA OffTheWire ==
  ASSUME HeardInv, HeardInv', UNCHANGED <<opened, section, wire, spoilt>>
  PROVE  Lines' = Lines /\ HeardClearly' = HeardClearly
<1>1. \A d \in Connections : Sound(d)' <=> Sound(d)
  BY DEF Sound, Shares
<1>2. \A d \in Connections : Heard(d)' = Heard(d)
  BY DEF Heard
<1> QED
  BY <1>1, <1>2 DEF Lines, HeardClearly

LEMMA BeginCalls ==
  ASSUME IInv, HeardInv, HeardInv', NEW w \in Workers, Begin(w)
  PROVE  Calls!Ask(w)
<1>1. PICK c \in opened :
        job' = [job EXCEPT ![w] = [connection |-> c, header |-> Messages[taken + 1]]]
  BY DEF Begin
<1>2. /\ pc[w] = "idle" /\ taken < Len(Messages) /\ pc' = [pc EXCEPT ![w] = "enter"]
      /\ UNCHANGED <<opened, section, index, wire, spoilt>>
  BY DEF Begin, mutexes, loops
<1>3. job[w] = NoJob
  BY <1>2 DEF IInv, FreshInv
<1>4. PICK h : h = Messages[taken + 1]
  OBVIOUS
<1>5. h \in {Messages[i] : i \in 1 .. Len(Messages)}
  <2>1. taken + 1 \in 1 .. Len(Messages)
    BY <1>2, SendAssumption DEF IInv, TypeOK
  <2> QED
    BY <1>4, <2>1
<1>6. c \in Connections /\ Lines[c] # "shut"
  BY DEF Lines, IInv, TypeOK
<1>7. Delivered' = Delivered
  BY <1>2 DEF Delivered, IInv, TypeOK
<1>8. Lines' = Lines /\ HeardClearly' = HeardClearly
  BY <1>2, OffTheWire
<1>9. job' = [job EXCEPT ![w] = [connection |-> c, header |-> h]]
  BY <1>1, <1>4
<1> QED
  BY <1>3, <1>5, <1>6, <1>7, <1>8, <1>9 DEF Calls!Ask

LEMMA EnterCalls ==
  ASSUME IInv, HeardInv, HeardInv', NEW w \in Workers, Enter(w)
  PROVE  UNCHANGED Calls!vars
<1>1. /\ pc[w] = "enter" /\ pc' = [pc EXCEPT ![w] = "sending"]
      /\ index' = [index EXCEPT ![w] = 0]
      /\ UNCHANGED <<opened, section, job, wire, spoilt>>
  BY DEF Enter, StartLoop
<1>2. Delivered' = Delivered
  BY <1>1 DEF Delivered, IInv, TypeOK
<1> QED
  BY <1>1, <1>2, OffTheWire DEF Calls!vars

(* A worker that sends has a job, and is done when the index is that of    *)
(* the last byte.                                                          *)
LEMMA AdvanceDelivers ==
  ASSUME IInv, NEW w \in Workers, pc[w] = "sending", NEW i \in -1 .. Size, Advance(w, i)
  PROVE  /\ job[w] \in Jobs /\ job[w] # NoJob /\ ~ Delivered[w]
         /\ Delivered' = [Delivered EXCEPT ![w] = (i = Size)]
<1>1. job[w] \in Jobs /\ job[w] # NoJob /\ ~ Delivered[w]
  BY SendAssumption DEF IInv, TypeOK, Jobs, Delivered
<1>2. /\ index' = [index EXCEPT ![w] = i]
      /\ \A u \in Workers : u # w => pc'[u] = pc[u]
      /\ pc'[w] = "sending" \/ pc'[w] = "leave"
      /\ pc'[w] = "sending" => i < Size
  BY DEF Advance, IInv, TypeOK, Continues
<1>3. Delivered'[w] <=> i = Size
  <2>1. index'[w] = i
    BY <1>2 DEF IInv, TypeOK
  <2>2. i < Size => i # Size
    BY DEF Size
  <2> QED
    BY <1>2, <2>1, <2>2 DEF Delivered
<1>4. \A u \in Workers : u # w => Delivered'[u] = Delivered[u]
  BY <1>2 DEF Delivered, IInv, TypeOK
<1> QED
  BY <1>1, <1>3, <1>4 DEF Delivered

(* The call of send() that takes the last byte delivers the message; the   *)
(* ones before it are not noticed.                                         *)
LEMMA TransmitCalls ==
  ASSUME IInv, IInv', HeardInv, HeardInv', NEW w \in Workers, Transmit(w)
  PROVE  Calls!Deliver(w) \/ UNCHANGED Calls!vars
<1>0. PICK c, h, idx : c = Target(w) /\ h = job[w].header /\ idx = index[w]
  OBVIOUS
<1>1. /\ pc[w] = "sending" /\ c \notin dead
      /\ UNCHANGED <<opened, section, owner, job, taken, dead, said, spoilt>>
  BY <1>0 DEF Transmit, mutexes
<1>2. PICK n \in 1 .. Size - idx :
        /\ wire' = [wire EXCEPT ![c] = @ \o SubSeq(HeaderBytes(h), idx + 1, idx + n)]
        /\ Advance(w, idx + n)
  BY <1>0 DEF Transmit
<1>3. c \in Connections /\ c \in opened /\ h \in Header
  BY <1>0, <1>1 DEF IInv, TypeOK, Jobs, FreshInv, Target
<1>4. idx \in Int /\ 0 <= idx /\ idx < Size /\ n \in Int /\ 1 <= n /\ idx + n <= Size
  <2>1. idx \in -1 .. Size /\ Continues(idx, attempts[w])
    BY <1>0, <1>1 DEF IInv, TypeOK
  <2> QED
    BY <2>1 DEF Continues, Size
<1>5. idx + n \in -1 .. Size
  BY <1>4 DEF Size
<1>6. /\ job[w] \in Jobs /\ job[w] # NoJob /\ ~ Delivered[w]
      /\ Delivered' = [Delivered EXCEPT ![w] = (idx + n = Size)]
  BY <1>1, <1>2, <1>5, AdvanceDelivers
<1>7. \A d \in Connections : Sound(d)' <=> Sound(d)
  BY <1>1 DEF Sound, Shares
<1>8. Lines' = Lines
  BY <1>1, <1>7 DEF Lines
<1>9. ASSUME NEW d \in Connections, d # c PROVE HeardClearly'[d] = HeardClearly[d]
  <2>1. wire'[d] = wire[d]
    BY <1>2, <1>9 DEF IInv, TypeOK
  <2>2. Heard(d)' = Heard(d)
    BY <2>1 DEF Heard
  <2> QED
    BY <1>7, <2>2 DEF HeardClearly
<1>10. ASSUME ~ Sound(c) PROVE HeardClearly'[c] = HeardClearly[c]
  BY <1>3, <1>7, <1>10 DEF HeardClearly
<1>11. ASSUME Sound(c)
       PROVE  /\ said[c] \in Seq(Header) /\ said[c] # <<>> /\ said[c][Len(said[c])] = h
              /\ \E m \in Nat : /\ Len(said[c]) = m + 1
                               /\ Len(wire[c]) = Size * m + idx
                               /\ Len(wire'[c]) = Size * m + (idx + n)
  <2>1. Inside(w) /\ LengthInv(c)
    BY <1>1, <1>3, <1>11 DEF Inside, IInv
  <2>2. Inside(w)' /\ LengthInv(c)' /\ index'[w] = idx + n
    <3>1. pc'[w] \in {"sending", "leave"} /\ index'[w] = idx + n
      BY <1>2 DEF Advance, IInv, TypeOK
    <3> QED
      BY <1>3, <1>7, <1>11, <3>1 DEF Inside, IInv
  <2>3. PICK m : m = Len(said[c]) - 1
    OBVIOUS
  <2>4. /\ said[c] \in Seq(Header) /\ said[c] # <<>> /\ said[c][Len(said[c])] = h
        /\ Len(wire[c]) = Size * m + idx
    BY <1>0, <1>1, <1>3, <2>1, <2>3 DEF LengthInv, IInv, TypeOK
  <2>5. m \in Nat /\ Len(said[c]) = m + 1
    BY <2>3, <2>4
  <2>6. Target(w)' = c /\ c \notin dead' /\ said'[c] = said[c]
    BY <1>0, <1>1 DEF Target
  <2>7. Len(wire'[c]) = Size * m + (idx + n)
    BY <2>2, <2>3, <2>6 DEF LengthInv
  <2> QED
    BY <2>4, <2>5, <2>7
<1>12. CASE idx + n # Size
  <2>1. Delivered' = Delivered
    BY <1>6, <1>12 DEF Delivered
  <2>2. ASSUME Sound(c) PROVE HeardClearly'[c] = HeardClearly[c]
    <3>1. PICK m \in Nat : Len(wire[c]) = Size * m + idx /\ Len(wire'[c]) = Size * m + (idx + n)
      BY <1>11, <2>2
    <3>2. idx \in 0 .. 3 /\ idx + n \in 0 .. 3
      BY <1>4, <1>12 DEF Size
    <3>3. Len(wire[c]) \div Size = m /\ Len(wire'[c]) \div Size = m
      BY <3>1, <3>2, Position
    <3>4. Heard(c)' = Heard(c)
      BY <1>1, <1>3, <1>7, <2>2, <3>3, HeardStays
    <3> QED
      BY <1>3, <1>7, <2>2, <3>4 DEF HeardClearly
  <2>3. HeardClearly' = HeardClearly
    BY <1>9, <1>10, <2>2 DEF HeardClearly
  <2> QED
    BY <1>1, <1>8, <2>1, <2>3 DEF Calls!vars
<1>13. CASE idx + n = Size
  <2>1. Delivered' = [Delivered EXCEPT ![w] = TRUE]
    BY <1>6, <1>13
  <2>2. c = job[w].connection /\ h = job[w].header
    BY <1>0 DEF Target
  <2>3. ASSUME ~ Sound(c)
        PROVE  Lines[c] # "clear" /\ HeardClearly' = HeardClearly
    BY <1>3, <1>9, <1>10, <2>3 DEF Lines, HeardClearly
  <2>4. ASSUME Sound(c)
        PROVE  Lines[c] = "clear" /\ HeardClearly' = [HeardClearly EXCEPT ![c] = Append(@, h)]
    <3>1. PICK m \in Nat : /\ Len(said[c]) = m + 1
                           /\ Len(wire[c]) = Size * m + idx
                           /\ Len(wire'[c]) = Size * m + (idx + n)
      BY <1>11, <2>4
    <3>2. Len(wire[c]) \div Size = m
      <4>1. idx \in 0 .. 3
        BY <1>4 DEF Size
      <4> QED
        BY <3>1, <4>1, Position
    <3>3. Len(wire'[c]) \div Size = m + 1
      <4>1. Len(wire'[c]) = Size * (m + 1) + 0
        BY <1>13, <3>1 DEF Size
      <4> QED
        BY <4>1, Position
    <3>4. HeardFacts(c) /\ HeardFacts(c)'
      BY <1>3, <1>7, <2>4 DEF HeardInv
    <3>5. PICK s, t : s = Heard(c) /\ t = Heard(c)'
      OBVIOUS
    <3>6. /\ s \in Seq(Header) /\ Len(s) = m
          /\ t \in Seq(Header) /\ Len(t) = m + 1
          /\ \A k \in 1 .. m : s[k] = said[c][k]
          /\ \A k \in 1 .. m + 1 : t[k] = said[c][k]
      BY <1>1, <3>2, <3>3, <3>4, <3>5 DEF HeardFacts
    <3>7. /\ Append(s, h) \in Seq(Header) /\ Len(Append(s, h)) = m + 1
          /\ \A k \in 1 .. m : Append(s, h)[k] = s[k]
          /\ Append(s, h)[m + 1] = h
      BY <1>3, <3>6, AppendProperties
    <3>8. h = said[c][m + 1]
      BY <1>11, <2>4, <3>1
    <3>9. \A k \in 1 .. m + 1 : t[k] = Append(s, h)[k]
      <4> SUFFICES ASSUME NEW k \in 1 .. m + 1 PROVE t[k] = Append(s, h)[k]
        OBVIOUS
      <4>1. k \in 1 .. m \/ k = m + 1
        BY <3>1
      <4> QED
        BY <3>6, <3>7, <3>8, <4>1
    <3>10. t = Append(s, h)
      BY <3>6, <3>7, <3>9, SeqEqual
    <3>11. HeardClearly'[c] = Append(HeardClearly[c], h)
      BY <1>3, <1>7, <2>4, <3>5, <3>10 DEF HeardClearly
    <3> QED
      BY <1>3, <1>9, <2>4, <3>11 DEF Lines, HeardClearly
  <2>5. HeardClearly' = IF Lines[job[w].connection] = "clear"
                        THEN [HeardClearly EXCEPT ![job[w].connection] = Append(@, job[w].header)]
                        ELSE HeardClearly
    BY <2>2, <2>3, <2>4
  <2> QED
    BY <1>1, <1>6, <1>8, <2>1, <2>5 DEF Calls!Deliver
<1> QED
  BY <1>12, <1>13

(* A connection that is spoilt is garbled.                                 *)
LEMMA SpoilGarbles ==
  ASSUME IInv, HeardInv, HeardInv', NEW c \in opened,
         UNCHANGED <<opened, section, wire, said>>, spoilt' = spoilt \cup {c}
  PROVE  Calls!Garble({c}) /\ Lines[c] # "shut"
<1>1. c \in Connections /\ ~ Sound(c)'
  BY DEF IInv, TypeOK, Sound
<1>2. \A d \in Connections : d # c => (Sound(d)' <=> Sound(d))
  BY DEF Sound, Shares
<1>3. \A d \in Connections : Heard(d)' = Heard(d)
  BY DEF Heard
<1>4. Lines' = [d \in Connections |-> IF d \in {c} THEN "garbled" ELSE Lines[d]]
  BY <1>1, <1>2 DEF Lines
<1>5. HeardClearly' = [d \in Connections |-> IF d \in {c} THEN <<>> ELSE HeardClearly[d]]
  BY <1>1, <1>2, <1>3 DEF HeardClearly
<1>6. Lines[c] # "shut"
  BY <1>1 DEF Lines
<1> QED
  BY <1>4, <1>5, <1>6 DEF Calls!Garble

LEMMA TransmitFailsCalls ==
  ASSUME IInv, HeardInv, HeardInv', NEW w \in Workers, TransmitFails(w)
  PROVE  (\E c \in Connections : Calls!Fail(c)) \/ UNCHANGED Calls!vars
<1>1. PICK c, idx : c = Target(w) /\ idx = index[w]
  OBVIOUS
<1>2. /\ pc[w] = "sending" /\ Advance(w, idx - 1)
      /\ spoilt' = spoilt \/ spoilt' = spoilt \cup {c}
      /\ UNCHANGED <<opened, section, owner, job, taken, wire, said>>
  BY <1>1 DEF TransmitFails, mutexes
<1>3. c \in opened /\ c \in Connections
  BY <1>1, <1>2 DEF IInv, FreshInv, TypeOK
<1>4. idx - 1 \in -1 .. Size /\ idx - 1 # Size
  BY <1>1, <1>2 DEF IInv, TypeOK, Continues, Size
<1>5. Delivered' = Delivered
  <2>1. ~ Delivered[w] /\ Delivered' = [Delivered EXCEPT ![w] = (idx - 1 = Size)]
    BY <1>2, <1>4, AdvanceDelivers
  <2> QED
    BY <1>4, <2>1 DEF Delivered
<1>6. CASE spoilt' = spoilt
  BY <1>2, <1>5, <1>6, OffTheWire DEF Calls!vars
<1>7. CASE spoilt' = spoilt \cup {c}
  BY <1>2, <1>3, <1>5, <1>7, SpoilGarbles DEF Calls!Fail
<1> QED
  BY <1>2, <1>6, <1>7

(* A call returns the length of a message that went out, or garbles.       *)
LEMMA LeaveCalls ==
  ASSUME IInv, HeardInv, HeardInv', NEW w \in Workers, Leave(w)
  PROVE  Calls!Return(w) \/ Calls!GiveUp(w)
<1>1. PICK c : c = Target(w)
  OBVIOUS
<1>2. /\ pc[w] = "leave" /\ pc' = [pc EXCEPT ![w] = "idle"]
      /\ job' = [job EXCEPT ![w] = NoJob]
      /\ index' = [index EXCEPT ![w] = 0]
      /\ spoilt' = IF index[w] = Size THEN spoilt ELSE spoilt \cup {c}
      /\ UNCHANGED <<opened, section, wire, said>>
  BY <1>1 DEF Leave, Return
<1>3. c \in opened /\ job[w] # NoJob /\ c = job[w].connection
  BY <1>1, <1>2, SendAssumption DEF IInv, FreshInv, TypeOK, Jobs, Target
<1>4. Delivered' = [Delivered EXCEPT ![w] = FALSE] /\ (Delivered[w] <=> index[w] = Size)
  BY <1>2 DEF Delivered, IInv, TypeOK
<1>5. CASE index[w] = Size
  <2>1. Lines' = Lines /\ HeardClearly' = HeardClearly
    BY <1>2, <1>5, OffTheWire
  <2> QED
    BY <1>2, <1>3, <1>4, <1>5, <2>1 DEF Calls!Return
<1>6. CASE index[w] # Size
  <2>1. Calls!Garble({c})
    BY <1>2, <1>3, <1>6, SpoilGarbles
  <2>2. Delivered' = Delivered
    BY <1>4, <1>6 DEF Delivered
  <2> QED
    BY <1>2, <1>3, <1>4, <1>6, <2>1, <2>2 DEF Calls!GiveUp
<1> QED
  BY <1>5, <1>6

(* For any number of workers, connections and messages, and whatever       *)
(* send() takes at a time, the sends on a connection that keeps its mutex  *)
(* to itself are as if each message had gone out at once; and a call that  *)
(* does not send its message leaves its connection garbled.                *)
THEOREM AtomicSendRefinement == Spec => ImplementsAtomicSend
<1>1. Init => Calls!Init
  <2> SUFFICES ASSUME Init PROVE Calls!Init
    OBVIOUS
  <2>1. \A c \in Connections : ~ Sound(c)
    BY DEF Init, Sound
  <2>2. Lines = [c \in Connections |-> "shut"] /\ HeardClearly = [c \in Connections |-> <<>>]
    BY <2>1 DEF Init, Lines, HeardClearly
  <2>3. Delivered = [w \in Workers |-> FALSE]
    BY DEF Init, Delivered
  <2> QED
    BY <2>2, <2>3 DEF Init, Calls!Init
<1>2. ASSUME IInv, IInv', HeardInv, HeardInv', [Next]_vars
      PROVE  [Calls!Next]_(Calls!vars)
  <2>1. ASSUME NEW c \in Connections, Open(c) PROVE Calls!Next
    BY <1>2, <2>1, OpenCalls DEF Calls!Next
  <2>2. ASSUME NEW w \in Workers, Begin(w) PROVE Calls!Next
    BY <1>2, <2>2, BeginCalls DEF Calls!Next
  <2>3. ASSUME NEW w \in Workers, Enter(w) PROVE UNCHANGED Calls!vars
    BY <1>2, <2>3, EnterCalls
  <2>4. ASSUME NEW w \in Workers, Transmit(w) PROVE Calls!Next \/ UNCHANGED Calls!vars
    BY <1>2, <2>4, TransmitCalls DEF Calls!Next
  <2>5. ASSUME NEW w \in Workers, TransmitFails(w) PROVE Calls!Next \/ UNCHANGED Calls!vars
    BY <1>2, <2>5, TransmitFailsCalls DEF Calls!Next
  <2>6. ASSUME NEW w \in Workers, Leave(w) PROVE Calls!Next
    BY <1>2, <2>6, LeaveCalls DEF Calls!Next
  <2>7. CASE UNCHANGED vars
    <3>1. UNCHANGED <<opened, section, wire, spoilt, job, pc, index>>
      BY <2>7 DEF vars
    <3> QED
      BY <1>2, <3>1, OffTheWire DEF Calls!vars, Delivered
  <2> QED
    BY <1>2, <2>1, <2>2, <2>3, <2>4, <2>5, <2>6, <2>7 DEF Next
<1> QED
  BY <1>1, <1>2, HeardSeq, Invariance, PTL DEF Spec, ImplementsAtomicSend, Calls!Spec

=============================================================================
