------------------------ MODULE ConnectionTablesProofs ------------------------
(* Mutual exclusion in the tables, for any number of threads and IDs and    *)
(* any depth of leaks: always in the table of the peers, and in that of the *)
(* services unless rebuildServiceString gives its section away.             *)
EXTENDS ConnectionTables, TLAPS

(* The invariant holds before any function is called.                       *)
LEMMA InitIInv ==
  ASSUME NEW M \in SUBSET Realms, Init
  PROVE  IInv(M)
<1> SUFFICES ASSUME Init PROVE IInv(M)
  OBVIOUS
<1> USE DEF Init, Realms, Sections, NoCall
<1>1. TypeOK
  <2>1. \A s \in Sections : ~ (depth[s] > 0) /\ owner[s] \notin Threads
    BY TablesAssumption
  <2>2. depth \in [Sections -> 0 .. MaxDepth + 1] /\ call \in [Threads -> Calls]
    BY TablesAssumption DEF Calls, Ids
  <2> QED
    BY <2>1, <2>2 DEF TypeOK, PCs
<1>2. InsideInv(M)
  BY DEF InsideInv, InSection
<1>3. DepthInv
  BY TablesAssumption DEF DepthInv
<1> QED
  BY <1>1, <1>2, <1>3 DEF IInv

(* What leaving a section may do: one entry is undone, if only one's own is *)
(* for certain; or the section stays as it is, or is broken.                *)
LEMMA LeaveEffect ==
  ASSUME TypeOK, NEW t \in Threads, NEW s \in Sections, LeaveSection(t, s)
  PROVE  /\ owner' \in [Sections -> Threads \cup {Nobody, Lost}]
         /\ depth' \in [Sections -> 0 .. MaxDepth + 1]
         /\ \A z \in Sections : depth'[z] > 0 <=> owner'[z] \in Threads
         /\ \A z \in Sections, u \in Threads :
              owner'[z] = u => owner[z] = u /\ depth'[z] <= depth[z]
         /\ owner'[s] = t => depth'[s] = depth[s] - 1
         /\ \A z \in Sections, u \in Threads :
              u # t /\ owner[z] \in {u, Lost} =>
                owner'[z] \in {u, Lost} \/ (z = s /\ owner'[z] = Nobody)
<1> USE TablesAssumption DEF TypeOK
<1>1. CASE owner[s] \in Threads /\ UndoEntry(s)
  <2>1. depth[s] \in 1 .. MaxDepth + 1
    BY <1>1
  <2>2. /\ depth' = [depth EXCEPT ![s] = @ - 1]
        /\ owner' = [owner EXCEPT ![s] = IF depth[s] = 1 THEN Nobody ELSE @]
    BY <1>1 DEF UndoEntry
  <2>3. depth'[s] \in 0 .. MaxDepth + 1 /\ depth'[s] = depth[s] - 1
    BY <2>1, <2>2
  <2> QED
    BY <1>1, <2>1, <2>2, <2>3
<1>2. CASE owner[s] # t /\ UNCHANGED sections
  BY <1>2 DEF sections
<1>3. CASE /\ owner[s] # t
           /\ owner' = [owner EXCEPT ![s] = Lost]
           /\ depth' = [depth EXCEPT ![s] = 0]
  BY <1>3
<1> QED
  BY <1>1, <1>2, <1>3 DEF LeaveSection

(* What entering a section does.                                            *)
LEMMA EnterEffect ==
  ASSUME TypeOK, NEW t \in Threads, NEW s \in Sections, EnterSection(t, s),
         owner[s] = t => depth[s] <= MaxDepth
  PROVE  /\ owner' \in [Sections -> Threads \cup {Nobody, Lost}]
         /\ depth' \in [Sections -> 0 .. MaxDepth + 1]
         /\ \A z \in Sections : depth'[z] > 0 <=> owner'[z] \in Threads
         /\ owner[s] \in {Nobody, t} /\ owner'[s] = t
         /\ depth'[s] = depth[s] + 1
         /\ owner[s] = Nobody => depth[s] = 0
         /\ \A z \in Sections : z # s => owner'[z] = owner[z] /\ depth'[z] = depth[z]
<1> USE TablesAssumption DEF TypeOK, EnterSection
<1>1. owner[s] \in {Nobody, t} /\ owner' = [owner EXCEPT ![s] = t]
  OBVIOUS
<1>2. depth' = [depth EXCEPT ![s] = @ + 1] /\ depth[s] \in Nat
  OBVIOUS
<1>3. owner[s] = Nobody => depth[s] = 0
  BY <1>2
<1>4. depth[s] + 1 \in 1 .. MaxDepth + 1
  BY <1>1, <1>2, <1>3
<1> QED
  BY <1>1, <1>2, <1>3, <1>4

(* A function is called.                                                    *)
LEMMA BeginIInv ==
  ASSUME NEW M \in SUBSET Realms, IInv(M), NEW t \in Threads, Begin(t)
  PROVE  IInv(M)'
<1> USE TablesAssumption DEF IInv, Begin, sections, tables
<1>1. PICK op \in Ops, m \in Realms, x \in Ids :
        /\ op \in {"free", "remove"} /\ owner[m] = t => depth[m] < MaxDepth
        /\ call' = [call EXCEPT ![t] = [op |-> op, realm |-> m, id |-> x]]
  OBVIOUS
<1>2. /\ pc' = [pc EXCEPT ![t] = "enter"] /\ pc[t] = "idle"
      /\ UNCHANGED <<sections, tables, pointers>>
  OBVIOUS
<1>3. TypeOK'
  BY <1>1, <1>2 DEF TypeOK, PCs, Calls
<1>4. InsideInv(M)'
  BY <1>1, <1>2 DEF InsideInv, InSection, TypeOK
<1>5. DepthInv'
  BY <1>1, <1>2 DEF DepthInv, InSection, TypeOK
<1> QED
  BY <1>3, <1>4, <1>5

(* A section is entered.                                                    *)
LEMMA EnterIInv ==
  ASSUME NEW M \in SUBSET Realms, IInv(M), NEW t \in Threads, Enter(t)
  PROVE  IInv(M)'
<1> USE TablesAssumption DEF IInv, Enter, Goto, tables
<1> DEFINE s == call[t].realm
<1>1. s \in Realms /\ s \in Sections
  BY DEF TypeOK, Calls, Sections
<1>2. ~ InSection(t, s)
  BY DEF InSection
<1>3. owner[s] = t => depth[s] <= MaxDepth
  BY <1>1, <1>2 DEF DepthInv
<1>4. /\ owner' \in [Sections -> Threads \cup {Nobody, Lost}]
      /\ depth' \in [Sections -> 0 .. MaxDepth + 1]
      /\ \A z \in Sections : depth'[z] > 0 <=> owner'[z] \in Threads
      /\ owner[s] \in {Nobody, t} /\ owner'[s] = t
      /\ depth'[s] = depth[s] + 1
      /\ owner[s] = Nobody => depth[s] = 0
      /\ \A z \in Sections : z # s => owner'[z] = owner[z] /\ depth'[z] = depth[z]
  BY <1>1, <1>3, EnterEffect
<1>5. /\ pc[t] = "enter" /\ pc' = [pc EXCEPT ![t] = "inside"]
      /\ UNCHANGED <<call, tables, pointers>>
  OBVIOUS
<1> HIDE DEF Enter, s
<1>6. TypeOK'
  BY <1>4, <1>5 DEF TypeOK, PCs
<1>7. \A u \in Threads : u # t => pc'[u] = pc[u]
  BY <1>5 DEF TypeOK
<1>8. pc'[t] = "inside"
  BY <1>5 DEF TypeOK
<1>9. InsideInv(M)'
  <2>1. \A u \in Threads, m \in Realms : u # t => (InSection(u, m)' <=> InSection(u, m))
    BY <1>5, <1>7 DEF InSection
  <2>2. \A m \in Realms : InSection(t, m)' => m = s
    BY <1>5 DEF InSection, s
  <2>3. s \in M => \A u \in Threads : u # t => ~ InSection(u, s)
    BY <1>1, <1>4 DEF InsideInv
  <2>4. \A u \in Threads, m \in M : InSection(u, m)' => owner'[m] \in {u, Lost}
    BY <1>4, <2>1, <2>2, <2>3 DEF InsideInv, Sections
  <2>5. \A u, v \in Threads, m \in M :
          u # v => ~ (InSection(u, m)' /\ InSection(v, m)')
    BY <2>1, <2>2, <2>3 DEF InsideInv
  <2> QED
    BY <2>4, <2>5 DEF InsideInv
<1>10. DepthInv'
  <2> SUFFICES ASSUME NEW u \in Threads, NEW z \in Realms, owner'[z] = u
               PROVE  /\ ~ InSection(u, z)' => depth'[z] <= MaxDepth
                      /\ call'[u].op \in {"free", "remove"} /\ call'[u].realm = z =>
                           /\ pc'[u] = "enter" => depth'[z] < MaxDepth
                           /\ pc'[u] = "inside" => depth'[z] <= MaxDepth
    BY DEF DepthInv
  <2>1. CASE z = s
    <3>1. u = t
      BY <1>4, <2>1
    <3>3. InSection(u, z)'
      BY <1>5, <1>8, <2>1, <3>1 DEF InSection, s
    <3>4. pc'[u] # "enter"
      BY <1>8, <3>1
    <3>2. call[t].op \in {"free", "remove"} => depth'[s] <= MaxDepth
      <4>1. CASE owner[s] = Nobody
        BY <1>4, <4>1
      <4>2. CASE owner[s] = t
        <5>1. call[t].op \in {"free", "remove"} => depth[s] < MaxDepth
          BY <1>1, <1>5, <4>2 DEF DepthInv, s
        <5>2. depth[s] \in Nat
          BY <1>1 DEF TypeOK
        <5> QED
          BY <1>4, <5>1, <5>2
      <4> QED
        BY <1>4, <4>1, <4>2
    <3> QED
      BY <1>5, <2>1, <3>1, <3>2, <3>3, <3>4
  <2>2. CASE z # s
    <3>1. owner[z] = u /\ depth'[z] = depth[z]
      BY <1>4, <2>2 DEF Sections
    <3>2. InSection(u, z)' <=> InSection(u, z)
      BY <1>5, <1>7, <2>2 DEF InSection, s
    <3>3. call[u].realm = z => pc'[u] = pc[u]
      BY <1>7, <2>2 DEF s
    <3> QED
      BY <1>5, <3>1, <3>2, <3>3 DEF DepthInv
  <2> QED
    BY <2>1, <2>2
<1> QED
  BY <1>6, <1>9, <1>10

(* A slot is taken.                                                         *)
LEMMA AllocateIInv ==
  ASSUME NEW M \in SUBSET Realms, IInv(M), NEW t \in Threads, Allocate(t)
  PROVE  IInv(M)'
<1> USE TablesAssumption DEF IInv, Allocate, Inside, Goto, sections
<1>1. TypeOK'
  <2>1. call[t].realm \in Realms /\ call[t].id \in Ids
    BY DEF TypeOK, Calls
  <2>2. taken' \in [Realms -> SUBSET Ids] /\ pointers' \in [Threads -> SUBSET (Realms \X Ids)]
    BY <2>1 DEF TypeOK
  <2> QED
    BY <2>2 DEF TypeOK, PCs
<1>2. InsideInv(M)'
  BY DEF InsideInv, InSection, TypeOK
<1>3. DepthInv'
  BY DEF DepthInv, InSection, TypeOK
<1> QED
  BY <1>1, <1>2, <1>3

(* A slot is freed; the section is not left.                                *)
LEMMA FreeIInv ==
  ASSUME NEW M \in SUBSET Realms, IInv(M), NEW t \in Threads, Free(t)
  PROVE  IInv(M)'
<1> USE TablesAssumption DEF IInv, Free, Inside, Return, sections
<1>0. NoCall \in Calls /\ NoCall.op = "none"
  BY DEF NoCall, Calls, Realms, Ids
<1>1. TypeOK'
  <2>1. call[t].realm \in Realms /\ call[t].id \in Ids
    BY DEF TypeOK, Calls
  <2>2. taken' \in [Realms -> SUBSET Ids]
    BY <2>1 DEF TypeOK
  <2> QED
    BY <1>0, <2>2 DEF TypeOK, PCs
<1>2. InsideInv(M)'
  BY DEF InsideInv, InSection, TypeOK
<1>3. DepthInv'
  BY DEF DepthInv, InSection, TypeOK
<1> QED
  BY <1>1, <1>2, <1>3

(* A slot is freed, or the ID is not there.                                 *)
LEMMA RemoveIInv ==
  ASSUME NEW M \in SUBSET Realms, IInv(M), NEW t \in Threads, Remove(t)
  PROVE  IInv(M)'
<1> USE TablesAssumption DEF IInv, Remove, Inside, Return, Goto, sections
<1>0. NoCall \in Calls /\ NoCall.op = "none"
  BY DEF NoCall, Calls, Realms, Ids
<1>1. TypeOK'
  <2>1. call[t].realm \in Realms /\ call[t].id \in Ids
    BY DEF TypeOK, Calls
  <2>2. taken' \in [Realms -> SUBSET Ids]
    BY <2>1 DEF TypeOK
  <2> QED
    BY <1>0, <2>2 DEF TypeOK, PCs
<1>2. InsideInv(M)'
  BY DEF InsideInv, InSection, TypeOK
<1>3. DepthInv'
  BY DEF DepthInv, InSection, TypeOK
<1> QED
  BY <1>1, <1>2, <1>3

(* The object is given to the heap.                                         *)
LEMMA CloseConnectionIInv ==
  ASSUME NEW M \in SUBSET Realms, IInv(M), NEW t \in Threads, CloseConnection(t)
  PROVE  IInv(M)'
<1> USE TablesAssumption DEF IInv, CloseConnection, Goto, sections
<1>1. TypeOK'
  <2>1. call[t].realm \in Realms /\ call[t].id \in Ids
    BY DEF TypeOK, Calls
  <2>2. freed' \in [Realms -> SUBSET Ids]
    BY <2>1 DEF TypeOK
  <2> QED
    BY <2>2 DEF TypeOK, PCs
<1>2. InsideInv(M)'
  BY DEF InsideInv, InSection, TypeOK
<1>3. DepthInv'
  BY DEF DepthInv, InSection, TypeOK
<1> QED
  BY <1>1, <1>2, <1>3

(* A connection is looked up.                                               *)
LEMMA FindConnectionIInv ==
  ASSUME NEW M \in SUBSET Realms, IInv(M), NEW t \in Threads, FindConnection(t)
  PROVE  IInv(M)'
<1> USE TablesAssumption DEF IInv, FindConnection, Inside, Goto, sections, tables
<1>1. TypeOK'
  <2>1. call[t].realm \in Realms /\ call[t].id \in Ids
    BY DEF TypeOK, Calls
  <2>2. pointers' \in [Threads -> SUBSET (Realms \X Ids)]
    BY <2>1 DEF TypeOK, TableOfLookup, Realms
  <2> QED
    BY <2>2 DEF TypeOK, PCs
<1>2. InsideInv(M)'
  BY DEF InsideInv, InSection, TypeOK
<1>3. DepthInv'
  BY DEF DepthInv, InSection, TypeOK
<1> QED
  BY <1>1, <1>2, <1>3

(* The connections are listed.                                              *)
LEMMA GetAllIInv ==
  ASSUME NEW M \in SUBSET Realms, IInv(M), NEW t \in Threads, GetAll(t)
  PROVE  IInv(M)'
<1> USE TablesAssumption DEF IInv, GetAll, Inside, Goto, sections, tables
<1>1. TypeOK'
  <2>1. call[t].realm \in Realms /\ call[t].id \in Ids
    BY DEF TypeOK, Calls
  <2>2. \A r \in Readings(call[t].realm) : r \subseteq Ids
    BY <2>1 DEF Readings, TypeOK
  <2>3. pointers' \in [Threads -> SUBSET (Realms \X Ids)]
    BY <2>1, <2>2 DEF TypeOK
  <2> QED
    BY <2>3 DEF TypeOK, PCs
<1>2. InsideInv(M)'
  BY DEF InsideInv, InSection, TypeOK
<1>3. DepthInv'
  BY DEF DepthInv, InSection, TypeOK
<1> QED
  BY <1>1, <1>2, <1>3

(* A section is left.                                                       *)
LEMMA LeaveIInv ==
  ASSUME NEW M \in SUBSET Realms, IInv(M), NEW t \in Threads, Leave(t)
  PROVE  IInv(M)'
<1> USE TablesAssumption DEF IInv, tables
<1> DEFINE s == call[t].realm
<1>0. LeaveSection(t, s) /\ pc[t] = "leave"
  BY DEF Leave
<1>1. s \in Realms /\ s \in Sections /\ LeaveSection(t, s)
  BY <1>0 DEF TypeOK, Calls, Sections
<1>2. NoCall \in Calls /\ NoCall.op = "none"
  BY DEF NoCall, Calls, Realms, Ids
<1>3. /\ pc' \in [Threads -> PCs] /\ call' \in [Threads -> Calls]
      /\ \A u \in Threads : u # t => pc'[u] = pc[u] /\ call'[u] = call[u]
      /\ pc'[t] \in {"idle", "use", "enter", "enterString"}
      /\ pc'[t] = "enter" => call'[t].op = "rebuild"
      /\ UNCHANGED <<tables, pointers>>
  <2>1. CASE call[t].op = "remove" /\ call[t].realm = "service"
    <3>1. /\ pc' = [pc EXCEPT ![t] = "enter"] /\ call' = [call EXCEPT ![t].op = "rebuild"]
          /\ UNCHANGED <<tables, pointers>>
      BY <2>1 DEF Leave
    <3>2. call[t] \in Calls /\ [call[t] EXCEPT !.op = "rebuild"] \in Calls
      BY DEF TypeOK, Calls
    <3>3. /\ call' \in [Threads -> Calls] /\ call'[t].op = "rebuild"
          /\ \A u \in Threads : u # t => call'[u] = call[u]
      BY <3>1, <3>2 DEF TypeOK, Calls
    <3> QED
      BY <3>1, <3>3 DEF TypeOK, PCs
  <2>2. CASE ~ (call[t].op = "remove" /\ call[t].realm = "service")
    BY <1>2, <2>2 DEF Leave, TypeOK, PCs, Goto, Return
  <2> QED
    BY <2>1, <2>2
<1> HIDE DEF s
<1>4. /\ owner' \in [Sections -> Threads \cup {Nobody, Lost}]
      /\ depth' \in [Sections -> 0 .. MaxDepth + 1]
      /\ \A z \in Sections : depth'[z] > 0 <=> owner'[z] \in Threads
      /\ \A z \in Sections, u \in Threads :
           owner'[z] = u => owner[z] = u /\ depth'[z] <= depth[z]
      /\ owner'[s] = t => depth'[s] = depth[s] - 1
      /\ \A z \in Sections, u \in Threads :
           u # t /\ owner[z] \in {u, Lost} =>
             owner'[z] \in {u, Lost} \/ (z = s /\ owner'[z] = Nobody)
  BY <1>1, LeaveEffect
<1>5. \A u \in Threads : u # t => pc'[u] = pc[u] /\ call'[u] = call[u]
  BY <1>3 DEF TypeOK
<1>6. pc'[t] \notin {"inside", "close", "leave"}
  BY <1>3 DEF TypeOK
<1>7. TypeOK'
  BY <1>3, <1>4 DEF TypeOK
<1>8. \A u \in Threads, z \in Sections :
        /\ u # t => (InSection(u, z)' <=> InSection(u, z))
        /\ ~ InSection(t, z)'
  BY <1>5, <1>6 DEF InSection
<1>9. InsideInv(M)'
  <2>1. InSection(t, s)
    BY <1>0 DEF InSection, s
  <2>2. \A u \in Threads, m \in M : u # t /\ InSection(u, m) => m # s
    BY <2>1 DEF InsideInv
  <2> QED
    BY <1>4, <1>8, <2>2 DEF InsideInv, Sections
<1>10. DepthInv'
  <2> SUFFICES ASSUME NEW u \in Threads, NEW z \in Realms, owner'[z] = u
               PROVE  /\ ~ InSection(u, z)' => depth'[z] <= MaxDepth
                      /\ call'[u].op \in {"free", "remove"} /\ call'[u].realm = z =>
                           /\ pc'[u] = "enter" => depth'[z] < MaxDepth
                           /\ pc'[u] = "inside" => depth'[z] <= MaxDepth
    BY DEF DepthInv
  <2>1. owner[z] = u /\ depth'[z] <= depth[z] /\ depth'[z] \in Nat /\ depth[z] \in Nat
    BY <1>4 DEF TypeOK, Sections
  <2>2. CASE u # t
    <3>1. ~ InSection(u, z) => depth[z] <= MaxDepth
      BY <2>1 DEF DepthInv
    <3>2. call[u].op \in {"free", "remove"} /\ call[u].realm = z =>
            /\ pc[u] = "enter" => depth[z] < MaxDepth
            /\ pc[u] = "inside" => depth[z] <= MaxDepth
      BY <2>1 DEF DepthInv
    <3> QED
      BY <1>5, <1>8, <2>1, <2>2, <3>1, <3>2 DEF Sections
  <2>3. CASE u = t
    <3>1. depth'[z] <= MaxDepth
      <4>1. CASE z = s
        BY <1>1, <1>4, <2>1, <2>3, <4>1 DEF TypeOK
      <4>2. CASE z # s
        <5>1. ~ InSection(t, z)
          BY <4>2 DEF InSection, s
        <5> QED
          BY <2>1, <2>3, <5>1 DEF DepthInv
      <4> QED
        BY <4>1, <4>2
    <3> QED
      BY <1>3, <1>6, <2>3, <3>1 DEF TypeOK
  <2> QED
    BY <2>2, <2>3
<1> QED
  BY <1>7, <1>9, <1>10

(* The caller uses what it got.                                             *)
LEMMA UseIInv ==
  ASSUME NEW M \in SUBSET Realms, IInv(M), NEW t \in Threads, Use(t)
  PROVE  IInv(M)'
<1> USE TablesAssumption DEF IInv, Use, Return, sections, tables
<1>0. NoCall \in Calls /\ NoCall.op = "none"
  BY DEF NoCall, Calls, Realms, Ids
<1>1. TypeOK'
  BY <1>0 DEF TypeOK, PCs
<1>2. InsideInv(M)'
  BY DEF InsideInv, InSection, TypeOK
<1>3. DepthInv'
  BY DEF DepthInv, InSection, TypeOK
<1> QED
  BY <1>1, <1>2, <1>3

(* The section of the string is entered.                                    *)
LEMMA EnterStringIInv ==
  ASSUME NEW M \in SUBSET Realms, IInv(M), NEW t \in Threads, EnterString(t)
  PROVE  IInv(M)'
<1> USE TablesAssumption DEF IInv, tables
<1> DEFINE s == "serviceString"
<1>1. s \in Sections /\ s \notin Realms
  BY DEF Sections, Realms
<1>2. /\ owner[s] \in {Nobody, t} /\ owner' = [owner EXCEPT ![s] = t]
      /\ depth' = [depth EXCEPT ![s] = IF @ > MaxDepth THEN @ ELSE @ + 1]
      /\ pc[t] = "enterString" /\ pc' = [pc EXCEPT ![t] = "concat"]
      /\ UNCHANGED <<call, tables, pointers>>
  BY DEF EnterString, Goto
<1> HIDE DEF s
<1>3. depth[s] \in 0 .. MaxDepth + 1 /\ depth'[s] \in 1 .. MaxDepth + 1
  <2>1. depth[s] \in 0 .. MaxDepth + 1 /\ MaxDepth \in Nat
    BY <1>1 DEF TypeOK
  <2>2. depth'[s] = IF depth[s] > MaxDepth THEN depth[s] ELSE depth[s] + 1
    BY <1>1, <1>2 DEF TypeOK
  <2> QED
    BY <2>1, <2>2
<1>4. /\ owner' \in [Sections -> Threads \cup {Nobody, Lost}]
      /\ depth' \in [Sections -> 0 .. MaxDepth + 1]
      /\ \A z \in Sections : depth'[z] > 0 <=> owner'[z] \in Threads
  BY <1>1, <1>2, <1>3 DEF TypeOK
<1>6. TypeOK'
  BY <1>2, <1>4 DEF TypeOK, PCs
<1>7. \A u \in Threads, z \in Sections : InSection(u, z)' <=> InSection(u, z)
  BY <1>2 DEF InSection, TypeOK
<1>8. \A m \in Realms : m \in Sections /\ owner'[m] = owner[m] /\ depth'[m] = depth[m]
  BY <1>1, <1>2 DEF Sections, TypeOK
<1>9. InsideInv(M)'
  BY <1>7, <1>8 DEF InsideInv
<1>10. DepthInv'
  <2>1. \A u \in Threads : pc'[u] \in {"enter", "inside"} => pc'[u] = pc[u]
    BY <1>2 DEF TypeOK
  <2> QED
    BY <1>2, <1>7, <1>8, <2>1 DEF DepthInv
<1> QED
  BY <1>6, <1>9, <1>10

(* The string is rebuilt, and the services' section left.                   *)
LEMMA ConcatIInv ==
  ASSUME NEW M \in SUBSET Realms, IInv(M), NEW t \in Threads, Concat(t),
         "service" \in M => ~ GivesAway(t)
  PROVE  IInv(M)'
<1> USE TablesAssumption DEF IInv, tables
<1> DEFINE s == "service"
<1>1. s \in Realms /\ s \in Sections /\ LeaveSection(t, s)
  BY DEF Concat, Sections, Realms
<1>2. NoCall \in Calls /\ NoCall.op = "none"
  BY DEF NoCall, Calls, Realms, Ids
<1>3. /\ pc' \in [Threads -> PCs] /\ call' \in [Threads -> Calls]
      /\ \A u \in Threads : u # t => pc'[u] = pc[u] /\ call'[u] = call[u]
      /\ pc'[t] = "idle" /\ pc[t] = "concat"
      /\ UNCHANGED tables /\ pointers' \in [Threads -> SUBSET (Realms \X Ids)]
  BY <1>2 DEF Concat, Return, TypeOK, PCs
<1> HIDE DEF s
<1>4. /\ owner' \in [Sections -> Threads \cup {Nobody, Lost}]
      /\ depth' \in [Sections -> 0 .. MaxDepth + 1]
      /\ \A z \in Sections : depth'[z] > 0 <=> owner'[z] \in Threads
      /\ \A z \in Sections, u \in Threads :
           owner'[z] = u => owner[z] = u /\ depth'[z] <= depth[z]
      /\ owner'[s] = t => depth'[s] = depth[s] - 1
      /\ \A z \in Sections, u \in Threads :
           u # t /\ owner[z] \in {u, Lost} =>
             owner'[z] \in {u, Lost} \/ (z = s /\ owner'[z] = Nobody)
  BY <1>1, LeaveEffect
<1>5. \A u \in Threads : u # t => pc'[u] = pc[u] /\ call'[u] = call[u]
  BY <1>3 DEF TypeOK
<1>6. pc'[t] \notin {"inside", "close", "leave"}
  BY <1>3 DEF TypeOK
<1>7. TypeOK'
  BY <1>3, <1>4 DEF TypeOK
<1>8. \A u \in Threads, z \in Sections :
        /\ u # t => (InSection(u, z)' <=> InSection(u, z))
        /\ ~ InSection(t, z)'
  BY <1>5, <1>6 DEF InSection
<1>9. InsideInv(M)'
  <2>1. \A u \in Threads : u # t /\ InSection(u, s) /\ s \in M => owner'[s] # Nobody
    BY DEF GivesAway, s
  <2> QED
    BY <1>4, <1>8, <2>1 DEF InsideInv, Sections
<1>10. DepthInv'
  <2> SUFFICES ASSUME NEW u \in Threads, NEW z \in Realms, owner'[z] = u
               PROVE  /\ ~ InSection(u, z)' => depth'[z] <= MaxDepth
                      /\ call'[u].op \in {"free", "remove"} /\ call'[u].realm = z =>
                           /\ pc'[u] = "enter" => depth'[z] < MaxDepth
                           /\ pc'[u] = "inside" => depth'[z] <= MaxDepth
    BY DEF DepthInv
  <2>1. owner[z] = u /\ depth'[z] <= depth[z] /\ depth'[z] \in Nat /\ depth[z] \in Nat
    BY <1>4 DEF TypeOK, Sections
  <2>2. CASE u # t
    <3>1. ~ InSection(u, z) => depth[z] <= MaxDepth
      BY <2>1 DEF DepthInv
    <3>2. call[u].op \in {"free", "remove"} /\ call[u].realm = z =>
            /\ pc[u] = "enter" => depth[z] < MaxDepth
            /\ pc[u] = "inside" => depth[z] <= MaxDepth
      BY <2>1 DEF DepthInv
    <3> QED
      BY <1>5, <1>8, <2>1, <2>2, <3>1, <3>2 DEF Sections
  <2>3. CASE u = t
    <3>1. depth'[z] <= MaxDepth
      <4>1. ~ InSection(t, z)
        BY <1>3 DEF InSection
      <4> QED
        BY <2>1, <2>3, <4>1 DEF DepthInv
    <3> QED
      BY <1>3, <1>6, <2>3, <3>1 DEF TypeOK
  <2> QED
    BY <2>2, <2>3
<1> QED
  BY <1>7, <1>9, <1>10

(* Every step keeps the invariant.                                          *)
LEMMA StepIInv ==
  ASSUME NEW M \in SUBSET Realms, IInv(M), [Next]_vars,
         "service" \in M => \A t \in Threads : ~ GivesAway(t)
  PROVE  IInv(M)'
<1>1. CASE Next
  <2>1. PICK t \in Threads : Begin(t) \/ Step(t)
    BY <1>1 DEF Next
  <2> QED
    BY <2>1, BeginIInv, EnterIInv, AllocateIInv, FreeIInv, RemoveIInv, CloseConnectionIInv,
       FindConnectionIInv, GetAllIInv, LeaveIInv, UseIInv, EnterStringIInv, ConcatIInv DEF Step
<1>2. CASE UNCHANGED vars
  BY <1>2 DEF vars, sections, tables, IInv, TypeOK, InsideInv, DepthInv, InSection
<1> QED
  BY <1>1, <1>2

(* A thread that changes a table of M is alone in it.                       *)
LEMMA AloneInside ==
  ASSUME NEW M \in SUBSET Realms, IInv(M), NEW m \in M
  PROVE  NoRaceIn(m)
<1> SUFFICES ASSUME NEW t \in Threads, NEW u \in Threads, t # u, Modifies(t), ~ Astray(u),
                    m \in Touches(t), m \in Touches(u)
             PROVE  FALSE
  BY DEF NoRaceIn
<1>1. call[t].op # "find" /\ call[u].realm \in Realms
  BY DEF Modifies, IInv, TypeOK, Calls
<1>2. InSection(t, m)
  BY <1>1 DEF Touches, InSection
<1>3. InSection(u, m)
  <2>1. CASE call[u].op = "find"
    BY <1>1, <2>1 DEF Touches, InSection, Astray, TableOfLookup, Realms
  <2>2. CASE call[u].op # "find"
    BY <2>2 DEF Touches, InSection
  <2> QED
    BY <2>1, <2>2
<1> QED
  BY <1>2, <1>3 DEF IInv, InsideInv

-----------------------------------------------------------------------------

(* Whatever leaving another thread's section does, the invariant holds for  *)
(* the peers.                                                               *)
THEOREM Invariance == Spec => []IInv({"peer"})
<1>1. {"peer"} \in SUBSET Realms /\ "service" \notin {"peer"}
  BY DEF Realms
<1>2. Init => IInv({"peer"})
  BY <1>1, InitIInv
<1>3. IInv({"peer"}) /\ [Next]_vars => IInv({"peer"})'
  BY <1>1, StepIInv
<1> QED
  BY <1>2, <1>3, PTL DEF Spec

(* A section has an owner exactly as long as it is entered, and the leaks   *)
(* of the functions stay within the depth followed.                         *)
THEOREM TypeCorrect == Spec => []TypeOK
<1>1. IInv({"peer"}) => TypeOK
  BY DEF IInv
<1> QED
  BY <1>1, Invariance, PTL

(* While a thread changes the peers nobody else is in their table, whatever *)
(* freePeer and removePeer leak and rebuildServiceString leaves.            *)
THEOREM PeersApart == Spec => []PeersAlone
<1>1. IInv({"peer"}) => PeersAlone
  BY AloneInside DEF Realms, PeersAlone
<1> QED
  BY <1>1, Invariance, PTL

(* While a thread changes a table nobody else is in it, in spite of the     *)
(* sections that freeX and removeX leak, unless rebuildServiceString        *)
(* releases the section of the services while another thread is inside:     *)
(* that is the only step of the program that can break it.                  *)
THEOREM MutualExclusion ==
  Spec /\ [][\A t \in Threads : ~ GivesAway(t)]_vars => []NoRace
<1> DEFINE Kept == \A t \in Threads : ~ GivesAway(t)
<1>1. Init => IInv(Realms)
  BY InitIInv
<1>2. IInv(Realms) /\ [Next]_vars /\ [Kept]_vars => IInv(Realms)'
  <2>1. CASE Kept
    BY <2>1, StepIInv
  <2>2. CASE UNCHANGED vars
    BY <2>2 DEF vars, sections, tables, IInv, TypeOK, InsideInv, DepthInv, InSection
  <2> QED
    BY <2>1, <2>2
<1>3. IInv(Realms) => NoRace
  BY AloneInside DEF NoRace
<1> QED
  BY <1>1, <1>2, <1>3, PTL DEF Spec

=============================================================================
