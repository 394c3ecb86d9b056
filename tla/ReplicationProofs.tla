-------------------------- MODULE ReplicationProofs --------------------------
(***************************************************************************)
(* Theorems about module Replication, for every number of replicas,        *)
(* tablets, cells and values, and any number of crashes and suspensions.   *)
(***************************************************************************)
EXTENDS Replication, TabletOpsProofs, SequenceTheorems

-----------------------------------------------------------------------------
(* What a request does to a store.                                          *)

\* The fields a request has.
LEMMA RequestFields ==
  ASSUME NEW r \in Requests
  PROVE  /\ r.op \in {"get", "put", "cput", "delete", "keyvalue"}
         /\ r.op # "keyvalue" => r.cell \in Cells
         /\ r.op \in {"put", "cput"} => r.new \in Values
         /\ r.op = "cput" => r.cur \in Values
BY DEF Requests

\* Getting a tablet into memory gives a store again, whatever the store.
LEMMA WithTabletType ==
  ASSUME NEW s \in Stores, NEW t \in Tablets
  PROVE  WithTablet(s, t) \in Stores
<1> DEFINE m == MakeRoom(s)
<1>1. m \in Stores
  <2>1. CASE Len(s.mem) = NumTabletMem
    <3>1. s.mem # << >> /\ Head(s.mem) \in Tablets /\ Tail(s.mem) \in Seq(Tablets)
      BY <2>1, StoreFields, NumTabletMemAssumption
    <3>2. /\ SetTablet(s.map, Head(s.mem), NoContents) \in Contents
          /\ SetTablet(s.ckpt, Head(s.mem), s.map) \in Contents
      BY StoreFields, SetTabletType, NoContentsType
    <3>3. [s.log EXCEPT ![Head(s.mem)] = << >>] \in [Tablets -> Seq(LogRecords)]
      <4>1. s.log \in [Tablets -> Seq(LogRecords)] /\ << >> \in Seq(LogRecords)
        BY StoreFields
      <4> QED
        BY <4>1
    <3>4. UnloadTablet(s) \in Stores
      <4> DEFINE h == Head(s.mem)
      <4> HIDE DEF h
      <4> QED
        BY <3>1, <3>2, <3>3 DEF UnloadTablet, Stores, h
    <3> QED
      BY <2>1, <3>4 DEF MakeRoom
  <2>2. CASE Len(s.mem) # NumTabletMem
    BY <2>2 DEF MakeRoom
  <2> QED
    BY <2>1, <2>2
<1>2. LoadTablet(m, t) \in Stores
  <2> HIDE DEF m
  <2>1. Append(m.mem, t) \in Seq(Tablets)
        /\ SetTablet(m.map, t, m.ckpt) \in Contents
    BY <1>1, StoreFields, SetTabletType
  <2> QED
    BY <1>1, <2>1 DEF LoadTablet, Stores
<1> QED
  BY <1>2 DEF WithTablet

\* LocalKeyvalue gets every tablet in turn: it stays inside any set of stores
\* that no getting of a tablet leaves.
LEMMA KeyvalueStays ==
  ASSUME NEW G, NEW s \in G,
         \A x \in G : \A t \in Tablets : WithTablet(x, t) \in G
  PROVE  LocalKeyvalue(s) \in G
<1> DEFINE N == NumTablets
           Loop(f) == [n \in 0 .. N |-> IF n = 0 THEN s
                                        ELSE WithTablet(f[n - 1], n - 1)]
           F == [n \in 1 .. N |-> [x \in G |-> WithTablet(x, n - 1)]]
           after == CHOOSE f : f = Loop(f)
<1>1. N \in Nat /\ \A n \in 1 .. N : n - 1 \in Tablets
  BY NumTabletsAssumption DEF Tablets
<1>2. LocalKeyvalue(s) = after[N]
  BY DEF LocalKeyvalue
<1> HIDE DEF N
<1>3. \E f : f = Loop(f)
  <2>1. F \in [1 .. N -> [G -> G]]
    BY <1>1
  <2> HIDE DEF F
  <2>2. PICK f : Runs(f, N, G, s, F)
    BY <1>1, <2>1, LoopExists
  <2>3. ASSUME NEW n \in 1 .. N PROVE f[n] = WithTablet(f[n - 1], n - 1)
    <3>1. f[n - 1] \in G
      BY <1>1, <2>2 DEF Runs
    <3> QED
      BY <2>2, <3>1 DEF F, Runs
  <2>4. f = Loop(f)
    BY <1>1, <2>2, <2>3 DEF Runs
  <2> QED
    BY <2>4
<1>4. after = Loop(after)
  <2> HIDE DEF Loop
  <2> QED
    BY <1>3
<1> HIDE DEF after
<1>5. \A n \in 0 .. N : after[n] = IF n = 0 THEN s
                                   ELSE WithTablet(after[n - 1], n - 1)
  BY <1>4
<1> DEFINE out == {n \in 0 .. N : after[n] \notin G}
<1>6. out = {}
  <2> SUFFICES ASSUME out # {} PROVE FALSE
    OBVIOUS
  <2>1. PICK n \in out : \A k \in out : n <= k
    <3>1. out \in SUBSET Nat
      BY <1>1
    <3> HIDE DEF out
    <3> QED
      BY <3>1, LeastNatural
  <2>2. n \in 1 .. N /\ n - 1 \in 0 .. N /\ n - 1 \notin out
    BY <1>1, <1>5, <2>1
  <2> QED
    BY <1>1, <1>5, <2>1, <2>2
<1> QED
  BY <1>1, <1>2, <1>6

\* Logging and applying a record gives a store again.
LEMMA LogAndApplyType ==
  ASSUME NEW s \in Stores, NEW r \in LogRecords
  PROVE  LogAndApply(s, r) \in Stores
<1> DEFINE t == TabletOf[r.cell]
<1>1. r.cell \in Cells /\ r.value \in Values \cup {NoValue} /\ t \in Tablets
  BY TabletOfAssumption DEF LogRecords
<1>2. Append(s.log[t], r) \in Seq(LogRecords)
  BY <1>1, StoreFields
<1>3. [s.log EXCEPT ![t] = Append(s.log[t], r)] \in [Tablets -> Seq(LogRecords)]
  BY <1>2, StoreFields
<1>4. [s.map EXCEPT ![r.cell] = r.value] \in Contents
  BY <1>1, StoreFields DEF Contents
<1> QED
  BY <1>3, <1>4 DEF LogAndApply, Stores

\* Executing a request gives a store again, and a sound one if it was sound.
LEMMA ApplyStays ==
  ASSUME NEW r \in Requests, NEW s \in Stores
  PROVE  Apply(r, s) \in Stores /\ (StoreOK(s) => StoreOK(Apply(r, s)))
<1>1. CASE r.op = "keyvalue"
  <2> DEFINE G == {x \in Stores : StoreOK(x)}
  <2>1. LocalKeyvalue(s) \in Stores
    BY WithTabletType, KeyvalueStays
  <2>2. ASSUME StoreOK(s) PROVE LocalKeyvalue(s) \in G
    <3>1. \A x \in G : \A t \in Tablets : WithTablet(x, t) \in G
      BY WithTabletType, WithTabletOK
    <3>2. s \in G
      BY <2>2
    <3> HIDE DEF G
    <3> QED
      BY <3>1, <3>2, KeyvalueStays
  <2> QED
    BY <1>1, <2>1, <2>2 DEF Apply
<1>2. CASE r.op # "keyvalue"
  <2>1. r.cell \in Cells /\ TabletOf[r.cell] \in Tablets
    BY <1>2, RequestFields, TabletOfAssumption
  <2> DEFINE w == WithTablet(s, TabletOf[r.cell])
  <2>2. w \in Stores
    BY <2>1, WithTabletType
  <2>3. DeleteRecord(r.cell) \in LogRecords
    BY <2>1 DEF DeleteRecord, LogRecords
  <2>4. r.op \in {"put", "cput"} => PutRecord(r.cell, r.new) \in LogRecords
    BY <2>1, RequestFields DEF PutRecord, LogRecords
  <2> HIDE DEF w
  <2>5. CASE r.op = "get"
    <3>1. Apply(r, s) = LocalGet(s, r.cell) /\ Apply(r, s) = w
      BY <2>5 DEF Apply, LocalGet, w
    <3> QED
      BY <2>1, <2>2, <3>1, LocalGetOK
  <2>6. CASE r.op = "put"
    <3>1. /\ Apply(r, s) = LocalPut(s, r.cell, r.new)
          /\ Apply(r, s) = LogAndApply(w, PutRecord(r.cell, r.new))
      BY <2>6 DEF Apply, LocalPut, w
    <3>2. Apply(r, s) \in Stores
      BY <2>2, <2>4, <2>6, <3>1, LogAndApplyType
    <3>3. StoreOK(s) => StoreOK(LocalPut(s, r.cell, r.new))
      BY <2>1, <2>6, RequestFields, LocalPutOK
    <3> QED
      BY <3>1, <3>2, <3>3
  <2>7. CASE r.op = "cput"
    <3>1. /\ Apply(r, s) = LocalCput(s, r.cell, r.cur, r.new)
          /\ Apply(r, s) = IF w.map[r.cell] = r.cur
                           THEN LogAndApply(w, PutRecord(r.cell, r.new)) ELSE w
      BY <2>7 DEF Apply, LocalCput, w
    <3>2. Apply(r, s) \in Stores
      BY <2>2, <2>4, <2>7, <3>1, LogAndApplyType
    <3>3. StoreOK(s) => StoreOK(LocalCput(s, r.cell, r.cur, r.new))
      <4>1. r.cur \in Values /\ r.new \in Values
        BY <2>7, RequestFields
      <4> QED
        BY <2>1, <4>1, LocalCputOK
    <3> QED
      BY <3>1, <3>2, <3>3
  <2>8. CASE r.op = "delete"
    <3>1. /\ Apply(r, s) = LocalDelete(s, r.cell)
          /\ Apply(r, s) = IF w.map[r.cell] # NoValue
                           THEN LogAndApply(w, DeleteRecord(r.cell)) ELSE w
      BY <2>8 DEF Apply, LocalDelete, w
    <3>2. Apply(r, s) \in Stores
      BY <2>2, <2>3, <3>1, LogAndApplyType
    <3> QED
      BY <2>1, <3>1, <3>2, LocalDeleteOK
  <2> QED
    BY <1>2, <2>5, <2>6, <2>7, <2>8, RequestFields
<1> QED
  BY <1>1, <1>2

\* A log replays to some value: the last record of a cell exists.
LEMMA ReplayCellType ==
  ASSUME NEW s \in Stores, NEW c \in Cells
  PROVE  ReplayCell(s, c) \in Values \cup {NoValue}
<1> DEFINE lg == s.log[TabletOf[c]]
           base == s.ckpt[c]
           P(v) == v \in Values \cup {NoValue} /\ ReplaysTo(base, lg, c, v)
<1>1. lg \in Seq(LogRecords) /\ base \in Values \cup {NoValue}
  BY StoreFields, TabletOfAssumption DEF Contents
<1>2. \E v : P(v)
  <2>1. CASE Records(lg, c) = {}
    BY <1>1, <2>1 DEF ReplaysTo
  <2>2. CASE Records(lg, c) # {}
    <3> HIDE DEF lg, base
    <3> DEFINE back == {Len(lg) - i : i \in Records(lg, c)}
    <3>1. back \in SUBSET Nat /\ back # {}
      BY <1>1, <2>2 DEF Records
    <3>2. PICK k \in back : \A j \in back : k <= j
      <4> HIDE DEF back
      <4> QED
        BY <3>1, LeastNatural
    <3>3. PICK i \in Records(lg, c) : k = Len(lg) - i
      BY <3>2
    <3>4. IsLast(i, Records(lg, c))
      <4>1. \A j \in Records(lg, c) : j \in Nat /\ k <= Len(lg) - j
        BY <1>1, <3>2 DEF Records
      <4>2. \A j \in Records(lg, c) : j <= i
        BY <1>1, <3>3, <4>1
      <4> QED
        BY <4>2 DEF IsLast
    <3>5. i \in DOMAIN lg /\ lg[i] \in LogRecords
      BY <1>1, <3>3 DEF Records
    <3>6. lg[i].value \in Values \cup {NoValue}
      BY <3>5 DEF LogRecords
    <3> QED
      BY <3>4, <3>5, <3>6 DEF ReplaysTo
  <2> QED
    BY <2>1, <2>2
<1>3. ReplayCell(s, c) = CHOOSE v : P(v)
  BY Zenon DEF ReplayCell
<1> HIDE DEF P
<1>4. P(CHOOSE v : P(v))
  BY <1>2
<1> QED
  BY <1>3, <1>4 DEF P

-----------------------------------------------------------------------------
(* Type correctness.                                                        *)

\* A primary that executes a request is the last to run it, and the node it
\* has checked is another one.
CallsShape ==
    \A p \in Nodes :
        ~LockFree(p) =>
            LET todo == call[p].todo
            IN  /\ todo # << >> /\ todo[Len(todo)] = p
                /\ call[p].checked => Head(todo) # p

\* Who is asked to run a request: the primary alone, or every node and the
\* primary last.
LEMMA AudienceShape ==
  ASSUME TypeOK, NEW p \in Nodes, NEW r \in Requests
  PROVE  LET todo == Audience(p, r)
         IN  /\ todo \in Seq(Nodes) /\ Distinct(todo)
             /\ todo # << >> /\ todo[Len(todo)] = p
             /\ \/ todo = << p >> /\ r.op = "get"
                   /\ TabletOf[r.cell] \in Resident(store[p])
                \/ /\ Elements(todo) = Nodes
                   /\ r.op = "get" => TabletOf[r.cell] \notin Resident(store[p])
<1> DEFINE n == NumReplicas - 1
           all == Append(Peers(p), p)
<1>1. n \in Nat /\ p \in 1 .. n + 1 /\ Nodes = 1 .. n + 1
  BY ReplicasAssumption DEF Nodes
<1>2. /\ Peers(p) \in [1 .. n -> Nodes]
      /\ \A i \in 1 .. n : Peers(p)[i] = IF i < p THEN i ELSE i + 1
  <2> HIDE DEF n
  <2>1. Peers(p) = [i \in 1 .. n |-> IF i < p THEN i ELSE i + 1]
    BY DEF Peers, n
  <2> QED
    BY <1>1, <2>1
<1> HIDE DEF n
<1>3. Peers(p) \in Seq(Nodes) /\ Len(Peers(p)) = n
  <2>1. Peers(p) \in Seq(Nodes)
    BY <1>1, <1>2, SeqDef
  <2> QED
    BY <1>1, <1>2, <2>1
<1>4. /\ all \in Seq(Nodes) /\ Len(all) = n + 1 /\ all[n + 1] = p
      /\ DOMAIN all = 1 .. n + 1
      /\ \A i \in 1 .. n : all[i] = IF i < p THEN i ELSE i + 1
  BY <1>1, <1>2, <1>3
<1> HIDE DEF all
<1>5. Distinct(all)
  BY <1>1, <1>4 DEF Distinct
<1>6. Elements(all) = Nodes
  <2>1. ASSUME NEW m \in Nodes PROVE \E i \in DOMAIN all : all[i] = m
    <3>1. CASE m < p
      <4>1. m \in 1 .. n
        BY <1>1, <3>1
      <4>2. m \in DOMAIN all /\ all[m] = m
        BY <1>1, <1>4, <3>1, <4>1
      <4> QED
        BY <4>2
    <3>2. CASE m = p
      <4>1. n + 1 \in DOMAIN all /\ all[n + 1] = m
        BY <1>1, <1>4, <3>2
      <4> QED
        BY <4>1
    <3>3. CASE m > p
      <4>1. m - 1 \in 1 .. n /\ ~ (m - 1 < p) /\ (m - 1) + 1 = m
        BY <1>1, <3>3
      <4>2. m - 1 \in DOMAIN all /\ all[m - 1] = m
        BY <1>1, <1>4, <4>1
      <4> QED
        BY <4>2
    <3> QED
      BY <1>1, <3>1, <3>2, <3>3
  <2> QED
    BY <1>4, <2>1 DEF Elements
<1>7. << p >> \in Seq(Nodes) /\ Distinct(<< p >>)
  BY DEF Distinct
<1>8. all # << >>
  BY <1>1, <1>4
<1>9. Audience(p, r) = IF r.op = "get" /\ TabletOf[r.cell] \in Resident(store[p])
                       THEN << p >> ELSE all
  BY DEF Audience, all
<1>10. << p >> # << >> /\ << p >>[Len(<< p >>)] = p
  OBVIOUS
<1>11. CASE r.op = "get" /\ TabletOf[r.cell] \in Resident(store[p])
  BY <1>7, <1>9, <1>10, <1>11
<1>12. CASE ~ (r.op = "get" /\ TabletOf[r.cell] \in Resident(store[p]))
  BY <1>4, <1>5, <1>6, <1>8, <1>9, <1>12
<1> QED
  BY <1>11, <1>12

\* A call that is not NoCall has the fields of one.
LEMMA CallFields ==
  ASSUME TypeOK, NEW p \in Nodes, ~LockFree(p)
  PROVE  /\ call[p] \in Calls /\ call[p].request \in Requests
         /\ call[p].todo \in Seq(Nodes) /\ call[p].checked \in BOOLEAN
BY DEF TypeOK, LockFree, Calls

\* What a call is after its first node is done or skipped.
LEMMA NextNodeCall ==
  ASSUME TypeOK, CallsShape, NEW p \in Nodes, ~LockFree(p),
         Head(call[p].todo) # p, NextNode(p)
  PROVE  /\ call' \in [Nodes -> Calls \cup {NoCall}]
         /\ \A q \in Nodes : q # p => call'[q] = call[q]
         /\ call'[p] # NoCall
         /\ call'[p].request = call[p].request
         /\ call'[p].todo = Tail(call[p].todo)
         /\ call'[p].checked = FALSE
         /\ CallsShape'
<1> DEFINE todo == call[p].todo
           tail == Tail(todo)
<1>1. /\ todo \in Seq(Nodes) /\ todo # << >> /\ todo[Len(todo)] = p
      /\ Head(todo) # p /\ call[p].request \in Requests
      /\ call[p].checked \in BOOLEAN
  BY CallFields DEF CallsShape
<1>2. /\ tail \in Seq(Nodes) /\ tail # << >> /\ tail[Len(tail)] = p
  <2> HIDE DEF todo
  <2>1. Len(todo) \in Nat /\ Len(todo) # 0 /\ Head(todo) = todo[1]
    BY <1>1
  <2>2. Len(todo) >= 2
    BY <1>1, <2>1
  <2>3. /\ tail \in Seq(Nodes) /\ Len(tail) = Len(todo) - 1
        /\ tail[Len(todo) - 1] = todo[Len(todo)]
    BY <1>1, <2>1, <2>2
  <2>4. tail # << >>
    <3>1. Len(tail) # 0
      BY <2>1, <2>2, <2>3
    <3> QED
      BY <3>1, EmptySeq
  <2> QED
    BY <1>1, <2>3, <2>4
<1> DEFINE new == [request |-> call[p].request, todo |-> tail, checked |-> FALSE]
<1>3. call' = [call EXCEPT ![p] = new]
  BY DEF NextNode
<1>4. new \in Calls /\ new # NoCall
  <2>1. new.todo # NoCall.todo
    BY <1>2 DEF NoCall
  <2> QED
    BY <1>1, <1>2, <2>1 DEF Calls
<1> HIDE DEF tail
<1>5. call'[p] = new /\ \A q \in Nodes : q # p => call'[q] = call[q]
  BY <1>3 DEF TypeOK
<1>6. call' \in [Nodes -> Calls \cup {NoCall}]
  BY <1>3, <1>4 DEF TypeOK
<1>7. CallsShape'
  BY <1>2, <1>5 DEF CallsShape, LockFree
<1> QED
  BY <1>4, <1>5, <1>6, <1>7 DEF tail

\* The number of steps of a recovery.
LEMMA ReplayStepType ==
  /\ ReplayStep \in Nat /\ 2 * NumTablets \in Nat
  /\ ReplayStep = 2 * NumTablets + 1
  /\ RunStep = ReplayStep + 1 /\ NotifyStep = ReplayStep + 2
BY NumTabletsAssumption DEF ReplayStep, RunStep, NotifyStep

\* The fields of a recovery thread.
LEMMA ThreadFields ==
  ASSUME TypeOK, NEW p \in Nodes, NEW i \in DOMAIN threads[p]
  PROVE  /\ threads[p][i] \in Threads /\ threads[p][i].target \in Nodes
         /\ threads[p][i].step \in Nat /\ ReplayStep \in Nat
         /\ threads[p][i] = [target |-> threads[p][i].target,
                             step |-> threads[p][i].step]
<1>1. threads[p][i] \in Threads
  BY DEF TypeOK
<1> QED
  BY <1>1, ReplayStepType DEF Threads

\* A recovery thread that goes on keeps its target; the others stay.
LEMMA AdvanceEffect ==
  ASSUME TypeOK, NEW p \in Nodes, NEW i \in DOMAIN threads[p],
         threads[p][i].step <= RunStep,
         NEW after, after = [threads EXCEPT ![p][i].step = @ + 1]
  PROVE  /\ after \in [Nodes -> Seq(Threads)]
         /\ \A q \in Nodes : q # p => after[q] = threads[q]
         /\ DOMAIN after[p] = DOMAIN threads[p]
         /\ \A j \in DOMAIN threads[p] :
                /\ after[p][j].target = threads[p][j].target
                /\ after[p][j].step = IF j = i THEN threads[p][j].step + 1
                                                  ELSE threads[p][j].step
<1> DEFINE t == threads[p][i]
           next == [target |-> t.target, step |-> t.step + 1]
           new == [threads[p] EXCEPT ![i] = next]
<1>1. threads[p] \in Seq(Threads) /\ i \in 1 .. Len(threads[p]) /\ t \in Threads
  BY DEF TypeOK
<1>2. next \in Threads /\ next = [t EXCEPT !.step = @ + 1]
  <2>1. t.step \in 0 .. NotifyStep /\ t.step <= RunStep /\ t.target \in Nodes
        /\ t = [target |-> t.target, step |-> t.step]
    BY <1>1 DEF Threads
  <2>2. t.step + 1 \in 0 .. NotifyStep
    BY <2>1, ReplayStepType
  <2>3. next \in Threads
    BY <2>1, <2>2 DEF Threads
  <2> QED
    BY <2>1, <2>3
<1>3. after = [threads EXCEPT ![p] = new]
  BY <1>2
<1> HIDE DEF next, t
<1>4. /\ new \in Seq(Threads) /\ DOMAIN new = DOMAIN threads[p]
      /\ \A j \in DOMAIN threads[p] : new[j] = IF j = i THEN next
                                               ELSE threads[p][j]
  BY <1>1, <1>2, ExceptSeq
<1>5. /\ after[p] = new /\ after \in [Nodes -> Seq(Threads)]
      /\ \A q \in Nodes : q # p => after[q] = threads[q]
  BY <1>3, <1>4 DEF TypeOK
<1>6. /\ next.target = threads[p][i].target
      /\ next.step = threads[p][i].step + 1
  BY DEF next, t
<1> HIDE DEF new
<1> QED
  BY <1>4, <1>5, <1>6

\* Erasing the i-th element moves those behind it one place forward.
LEMMA RemoveAtElement ==
    ASSUME NEW S, NEW q \in Seq(S), NEW i \in DOMAIN q
    PROVE  /\ RemoveAt(q, i) \in Seq(S)
           /\ DOMAIN RemoveAt(q, i) = 1 .. Len(q) - 1
           /\ \A j \in 1 .. Len(q) - 1 :
                 RemoveAt(q, i)[j] = IF j < i THEN q[j] ELSE q[j + 1]
<1> DEFINE a == SubSeq(q, 1, i - 1)
           b == SubSeq(q, i + 1, Len(q))
<1>1. /\ i \in 1 .. Len(q) /\ Len(q) \in Nat
      /\ a \in Seq(S) /\ Len(a) = i - 1 /\ \A j \in 1 .. i - 1 : a[j] = q[j]
  OBVIOUS
<1>2. /\ b \in Seq(S) /\ Len(b) = Len(q) - i
      /\ \A j \in 1 .. Len(q) - i : b[j] = q[j + i]
  BY <1>1
<1>3. RemoveAt(q, i) = a \o b
  BY DEF RemoveAt
<1> HIDE DEF a, b
<1>4. /\ a \o b \in Seq(S) /\ DOMAIN (a \o b) = 1 .. Len(q) - 1
      /\ \A j \in 1 .. Len(q) - 1 :
            (a \o b)[j] = IF j < i THEN a[j] ELSE b[j - (i - 1)]
  BY <1>1, <1>2
<1>5. ASSUME NEW j \in i .. Len(q) - 1
      PROVE  b[j - (i - 1)] = q[j + 1]
  <2>1. j - (i - 1) \in 1 .. Len(q) - i /\ (j - (i - 1)) + i = j + 1
    BY <1>1
  <2> QED
    BY <1>2, <2>1
<1>6. \A j \in 1 .. Len(q) - 1 :
          (a \o b)[j] = IF j < i THEN q[j] ELSE q[j + 1]
  BY <1>1, <1>4, <1>5
<1> QED
  BY <1>3, <1>4, <1>6

\* Where the j-th of the threads was before the i-th ended.
Was(i, j) == IF j < i THEN j ELSE j + 1

\* Each thread that is left was there before, at another position than the
\* i-th, and each of the others stays.
OthersStay(p, i) ==
    /\ \A q \in Nodes : q # p => threads'[q] = threads[q]
    /\ \A j \in DOMAIN threads'[p] :
          /\ Was(i, j) \in DOMAIN threads[p] /\ Was(i, j) # i
          /\ threads'[p][j] = threads[p][Was(i, j)]
    /\ \A j, k \in DOMAIN threads'[p] : Was(i, j) = Was(i, k) => j = k
    /\ \A k \in DOMAIN threads[p] : k # i =>
          \E j \in DOMAIN threads'[p] : Was(i, j) = k

\* What the end of the i-th thread does to the others.
LEMMA ThreadEnds ==
  ASSUME TypeOK, NEW p \in Nodes, NEW i \in DOMAIN threads[p],
         threads' = [threads EXCEPT ![p] = RemoveAt(@, i)]
  PROVE  threads' \in [Nodes -> Seq(Threads)] /\ OthersStay(p, i)
<1> DEFINE q == threads[p]
<1>1. q \in Seq(Threads) /\ Len(q) \in Nat /\ i \in 1 .. Len(q)
      /\ DOMAIN q = 1 .. Len(q)
  BY DEF TypeOK
<1>2. /\ RemoveAt(q, i) \in Seq(Threads)
      /\ DOMAIN RemoveAt(q, i) = 1 .. Len(q) - 1
      /\ \A j \in 1 .. Len(q) - 1 :
            RemoveAt(q, i)[j] = IF j < i THEN q[j] ELSE q[j + 1]
  <2> HIDE DEF q
  <2> QED
    BY <1>1, RemoveAtElement
<1>3. /\ threads'[p] = RemoveAt(q, i)
      /\ threads' \in [Nodes -> Seq(Threads)]
      /\ \A m \in Nodes : m # p => threads'[m] = threads[m]
  BY <1>2 DEF TypeOK
<1> HIDE DEF q
<1>4. /\ \A j \in 1 .. Len(q) - 1 :
             /\ Was(i, j) \in DOMAIN q /\ Was(i, j) # i
             /\ RemoveAt(q, i)[j] = q[Was(i, j)]
      /\ \A j, k \in 1 .. Len(q) - 1 : Was(i, j) = Was(i, k) => j = k
  BY <1>1, <1>2 DEF Was
<1>5. ASSUME NEW k \in DOMAIN q, k # i
      PROVE  \E j \in 1 .. Len(q) - 1 : Was(i, j) = k
  <2>1. CASE k < i
    <3>1. k \in 1 .. Len(q) - 1 /\ Was(i, k) = k
      BY <1>1, <2>1 DEF Was
    <3> QED
      BY <3>1
  <2>2. CASE k > i
    <3>1. k - 1 \in 1 .. Len(q) - 1 /\ Was(i, k - 1) = k
      BY <1>1, <2>2 DEF Was
    <3> QED
      BY <3>1
  <2> QED
    BY <1>1, <1>5, <2>1, <2>2
<1> QED
  BY <1>2, <1>3, <1>4, <1>5 DEF q, OthersStay

\* A recovery that the primary accepts appends a thread at step 0.
LEMMA RecoveryStarts ==
  ASSUME TypeOK, NEW p \in Nodes, NEW n \in Nodes,
         threads' = [threads EXCEPT ![p] = Append(@, [target |-> n, step |-> 0])]
  PROVE  /\ threads' \in [Nodes -> Seq(Threads)]
         /\ \A q \in Nodes : q # p => threads'[q] = threads[q]
         /\ DOMAIN threads'[p] = DOMAIN threads[p] \cup {Len(threads[p]) + 1}
         /\ Len(threads[p]) + 1 \notin DOMAIN threads[p]
         /\ \A j \in DOMAIN threads[p] : threads'[p][j] = threads[p][j]
         /\ threads'[p][Len(threads[p]) + 1] = [target |-> n, step |-> 0]
<1> DEFINE q == threads[p]
           x == [target |-> n, step |-> 0]
<1>1. q \in Seq(Threads) /\ x \in Threads
  <2>1. 0 \in 0 .. NotifyStep
    BY ReplayStepType
  <2> QED
    BY <2>1 DEF TypeOK, Threads
<1>2. threads' = [threads EXCEPT ![p] = Append(q, x)]
  OBVIOUS
<1> HIDE DEF q, x
<1>3. /\ Append(q, x) \in Seq(Threads)
      /\ DOMAIN Append(q, x) = DOMAIN q \cup {Len(q) + 1}
      /\ Len(q) + 1 \notin DOMAIN q
      /\ \A j \in DOMAIN q : Append(q, x)[j] = q[j]
      /\ Append(q, x)[Len(q) + 1] = x
  BY <1>1
<1> QED
  BY <1>2, <1>3 DEF TypeOK, q, x

\* Copying a file and replaying give stores again.
LEMMA OverwrittenType ==
  ASSUME NEW s \in Stores, NEW from \in Stores, NEW step \in 1 .. 2 * NumTablets
  PROVE  Overwritten(s, step, from) \in Stores
<1> DEFINE t == (step - 1) \div 2
<1>1. CASE step % 2 = 1
  <2>1. SetTablet(s.ckpt, t, from.ckpt) \in Contents
    BY StoreFields, SetTabletType
  <2> HIDE DEF t
  <2>2. [s EXCEPT !.ckpt = SetTablet(@, t, from.ckpt)] \in Stores
    BY <2>1 DEF Stores
  <2> QED
    BY <1>1, <2>2 DEF Overwritten, t
<1>2. CASE step % 2 # 1
  <2>1. t \in Tablets
    BY NumTabletsAssumption DEF Tablets
  <2> HIDE DEF t
  <2>2. [s EXCEPT !.log[t] = from.log[t]] \in Stores
    <3>1. [s.log EXCEPT ![t] = from.log[t]] \in [Tablets -> Seq(LogRecords)]
      BY <2>1, StoreFields
    <3> QED
      BY <3>1 DEF Stores
  <2> QED
    BY <1>2, <2>2 DEF Overwritten, t
<1> QED
  BY <1>1, <1>2

LEMMA ReplayedType ==
  ASSUME NEW s \in Stores, NEW mem \in Seq(Tablets)
  PROVE  Replayed(s, mem) \in Stores
<1>1. [c \in Cells |-> IF TabletOf[c] \in Elements(mem)
                       THEN ReplayCell(s, c) ELSE NoValue] \in Contents
  BY ReplayCellType DEF Contents
<1> QED
  BY <1>1 DEF Replayed, Stores

\* The request for a recovery.
LEMMA RequestRecoveryType ==
  ASSUME TypeOK, NEW n \in Nodes, primary \in Nodes, RequestRecovery(n)
  PROVE  /\ status' \in [Nodes -> NodeStatus] /\ view' \in [Nodes -> NodeStatus]
         /\ threads' \in [Nodes -> Seq(Threads)]
         /\ primary' = primary /\ masterUp' = masterUp
<1>1. CASE UNCHANGED << status, threads, view >>
  BY <1>1 DEF TypeOK, RequestRecovery
<1>2. CASE /\ status' = [status EXCEPT ![primary] = "RECOVERING"]
           /\ threads' = [threads EXCEPT
                            ![primary] = Append(@, [target |-> n, step |-> 0])]
           /\ view' = [view EXCEPT ![n] = "RECOVERING"]
  BY <1>2, RecoveryStarts DEF TypeOK, RequestRecovery, NodeStatus
<1> QED
  BY <1>1, <1>2 DEF RequestRecovery

\* The types after a secondary request: n refuses it, dies of it or runs it.
ServeTyped ==
    /\ status' \in [Nodes -> NodeStatus] /\ store' \in [Nodes -> Stores]
    /\ threads' \in [Nodes -> Seq(Threads)] /\ late' \subseteq LateRequests

LEMMA ServeType ==
  ASSUME TypeOK, NEW n \in Nodes, NEW r \in Requests,
         NEW pending \in SUBSET LateRequests, Serve(n, r, pending)
  PROVE  ServeTyped
<1>1. CASE late' = pending /\ UNCHANGED << status, store, threads >>
  BY <1>1 DEF TypeOK, ServeTyped
<1>2. CASE Stop(n, pending)
  <2>1. << >> \in Seq(Threads) /\ InitStore \in Stores
    BY InitStoreOK DEF StoreOK
  <2> QED
    BY <1>2, <2>1 DEF Stop, TypeOK, NodeStatus, ServeTyped
<1>3. CASE /\ store' = [store EXCEPT ![n] = Apply(r, @)]
           /\ late' = pending /\ UNCHANGED << status, threads >>
  <2>1. Apply(r, store[n]) \in Stores
    BY ApplyStays DEF TypeOK
  <2> QED
    BY <1>3, <2>1 DEF TypeOK, ServeTyped
<1> QED
  BY <1>1, <1>2, <1>3 DEF Serve

\* What the crash of a node leaves behind.
LEMMA InFlightType ==
  ASSUME TypeOK, CallsShape, NEW p \in Nodes
  PROVE  InFlight(p) \subseteq LateRequests
<1>1. CASE LockFree(p)
  BY <1>1 DEF InFlight
<1>2. CASE ~LockFree(p)
  <2>1. /\ call[p].request \in Requests /\ call[p].todo \in Seq(Nodes)
        /\ call[p].todo # << >>
    BY <1>2, CallFields DEF CallsShape
  <2>2. Head(call[p].todo) \in Nodes
    BY <2>1
  <2>3. [to |-> Head(call[p].todo), request |-> call[p].request] \in LateRequests
    BY <2>1, <2>2 DEF LateRequests
  <2> QED
    BY <2>3 DEF InFlight
<1> QED
  BY <1>1, <1>2

\* Type correctness is inductive, with the shape of calls: one step per
\* action.
LEMMA NextType ==
  ASSUME TypeOK, CallsShape, [Next]_vars
  PROVE  TypeOK' /\ CallsShape'
<1> USE DEF master
<1>1. CASE UNCHANGED vars
  BY <1>1 DEF vars, TypeOK, CallsShape, LockFree
<1>2. ASSUME NEW x \in late, ExecuteLate(x)
      PROVE  TypeOK' /\ CallsShape'
  <2>1. x \in LateRequests /\ late \ {x} \in SUBSET LateRequests
    BY DEF TypeOK
  <2>2. ServeTyped
    BY <1>2, <2>1, ServeType DEF ExecuteLate, LateRequests
  <2> QED
    BY <1>2, <2>2 DEF ExecuteLate, ServeTyped, TypeOK, CallsShape, LockFree
<1>3. ASSUME NEW p \in Nodes, NEW r \in Requests, Begin(p, r)
      PROVE  TypeOK' /\ CallsShape'
  <2> DEFINE new == [request |-> r, todo |-> Audience(p, r), checked |-> FALSE]
  <2>1. /\ new \in Calls
        /\ new.todo # << >> /\ new.todo[Len(new.todo)] = p
    BY AudienceShape DEF Calls
  <2>2. call' = [call EXCEPT ![p] = new]
    BY <1>3 DEF Begin
  <2> HIDE DEF new
  <2>3. call' \in [Nodes -> Calls \cup {NoCall}]
    BY <2>1, <2>2 DEF TypeOK
  <2>4. CallsShape'
    <3>1. new.checked = FALSE
      BY DEF new
    <3>2. call'[p] = new /\ \A q \in Nodes : q # p => call'[q] = call[q]
      BY <2>2 DEF TypeOK
    <3> QED
      BY <2>1, <3>1, <3>2 DEF CallsShape, LockFree
  <2>5. faults' \in 0 .. MaxFaults
    BY <1>3, BoundsAssumption DEF Begin, ClientFinds, TypeOK
  <2> QED
    BY <1>3, <2>3, <2>4, <2>5 DEF Begin, TypeOK
<1>4. ASSUME NEW p \in Nodes, CheckPeer(p)
      PROVE  TypeOK' /\ CallsShape'
  <2>1. Head(call[p].todo) # p /\ ~LockFree(p)
    BY <1>4 DEF CheckPeer
  <2>2. CASE NextNode(p)
    BY <1>4, <2>1, <2>2, NextNodeCall DEF CheckPeer, TypeOK
  <2>3. CASE call' = [call EXCEPT ![p].checked = TRUE]
    <3>1. [call[p] EXCEPT !.checked = TRUE] \in Calls
      BY <2>1, CallFields DEF Calls
    <3>2. call' \in [Nodes -> Calls \cup {NoCall}]
      BY <2>3, <3>1 DEF TypeOK
    <3>3. /\ call'[p].todo = call[p].todo
          /\ \A q \in Nodes : q # p => call'[q] = call[q]
      <4>1. [call[p] EXCEPT !.checked = TRUE].todo = call[p].todo
        BY <2>1, CallFields DEF Calls
      <4> QED
        BY <2>3, <4>1 DEF TypeOK
    <3>4. CallsShape'
      BY <2>1, <3>3 DEF CallsShape, LockFree
    <3> QED
      BY <1>4, <3>2, <3>4 DEF CheckPeer, TypeOK
  <2> QED
    BY <1>4, <2>2, <2>3 DEF CheckPeer
<1>5. ASSUME NEW p \in Nodes, ExecutePeer(p)
      PROVE  TypeOK' /\ CallsShape'
  <2> DEFINE n == Head(call[p].todo)
             r == call[p].request
  <2>1. ~LockFree(p) /\ n # p /\ NextNode(p)
    BY <1>5 DEF ExecutePeer, CallsShape
  <2>2. r \in Requests /\ n \in Nodes
    BY <2>1, CallFields DEF CallsShape
  <2>3. ServeTyped
    BY <1>5, <2>2, ServeType DEF ExecutePeer, TypeOK
  <2> QED
    BY <1>5, <2>1, <2>3, NextNodeCall DEF ExecutePeer, ServeTyped, TypeOK
<1>6. ASSUME NEW p \in Nodes, ExecuteLocal(p)
      PROVE  TypeOK' /\ CallsShape'
  <2>1. Apply(call[p].request, store[p]) \in Stores
    BY <1>6, CallFields, ApplyStays DEF ExecuteLocal, TypeOK
  <2>2. call' = [call EXCEPT ![p] = NoCall]
    BY <1>6 DEF ExecuteLocal
  <2>3. CallsShape'
    BY <2>2 DEF CallsShape, LockFree, TypeOK
  <2> QED
    BY <1>6, <2>1, <2>2, <2>3 DEF ExecuteLocal, TypeOK
<1>7. ASSUME NEW p \in Nodes, NEW i \in DOMAIN threads[p], SendSrecovery(p, i)
      PROVE  TypeOK' /\ CallsShape'
  <2>1. threads[p][i].step <= RunStep
    BY <1>7, ReplayStepType DEF SendSrecovery, ThreadAt
  <2>2. status' \in [Nodes -> NodeStatus]
    BY <1>7 DEF SendSrecovery, TypeOK, NodeStatus
  <2> QED
    BY <1>7, <2>1, <2>2, AdvanceEffect
       DEF SendSrecovery, Advance, TypeOK, CallsShape, LockFree
<1>8. ASSUME NEW p \in Nodes, NEW i \in DOMAIN threads[p], CopyFile(p, i)
      PROVE  TypeOK' /\ CallsShape'
  <2> DEFINE n == threads[p][i].target
             s == Overwritten(store[n], threads[p][i].step, store[p])
  <2>1. /\ threads[p][i].step \in 1 .. 2 * NumTablets
        /\ threads[p][i].step <= RunStep
    BY <1>8, ReplayStepType DEF CopyFile, ThreadAt
  <2>2. n \in Nodes
    BY ThreadFields
  <2>3. s \in Stores
    BY <2>1, <2>2, OverwrittenType DEF TypeOK
  <2>4. store' = [store EXCEPT ![n] = s] \/ store' = store
    BY <1>8 DEF CopyFile
  <2> HIDE DEF s, n
  <2>5. store' \in [Nodes -> Stores]
    BY <2>2, <2>3, <2>4 DEF TypeOK
  <2> QED
    BY <1>8, <2>1, <2>5, AdvanceEffect
       DEF CopyFile, Advance, TypeOK, CallsShape, LockFree
<1>9. ASSUME NEW p \in Nodes, NEW i \in DOMAIN threads[p], SendReplay(p, i)
      PROVE  TypeOK' /\ CallsShape'
  <2> DEFINE n == threads[p][i].target
             mem == store[p].mem
             after == [threads EXCEPT ![p][i].step = @ + 1]
  <2>1. threads[p][i].step <= RunStep
    BY <1>9, ReplayStepType DEF SendReplay, ThreadAt
  <2>2. n \in Nodes /\ mem \in Seq(Tablets)
    BY ThreadFields, StoreFields DEF TypeOK
  <2>3. after \in [Nodes -> Seq(Threads)]
    BY <2>1, AdvanceEffect
  <2>4. UNCHANGED << call, view, primary, known, masterUp, faults >>
    BY <1>9 DEF SendReplay
  <2>5. ServeTyped
    <3> DEFINE s == Replayed(store[n], mem)
    <3>1. CASE UNCHANGED << status, store, late >> /\ Advance(p, i)
      BY <2>3, <3>1 DEF Advance, TypeOK, ServeTyped
    <3>2. CASE /\ status' = [status EXCEPT ![n] = "CRASHED"]
               /\ store' = [store EXCEPT ![n] = InitStore]
               /\ threads' = [after EXCEPT ![n] = << >>]
               /\ late' = {x \in late : x.to # n}
      <4>1. InitStore \in Stores /\ << >> \in Seq(Threads)
        BY InitStoreOK DEF StoreOK
      <4> HIDE DEF after
      <4> QED
        BY <2>3, <3>2, <4>1 DEF TypeOK, NodeStatus, ServeTyped
    <3>3. CASE /\ status' = [status EXCEPT ![n] = "RUNNING"]
               /\ store' = [store EXCEPT ![n] = s]
               /\ Advance(p, i) /\ late' = late
      <4>1. s \in Stores
        BY <2>2, ReplayedType DEF TypeOK
      <4>2. threads' = after
        BY <3>3 DEF Advance
      <4> HIDE DEF after, s
      <4> QED
        BY <2>3, <3>3, <4>1, <4>2 DEF TypeOK, NodeStatus, ServeTyped
    <3> QED
      BY <1>9, <3>1, <3>2, <3>3 DEF SendReplay
  <2> QED
    BY <2>4, <2>5 DEF ServeTyped, TypeOK, CallsShape, LockFree
<1>10. ASSUME NEW p \in Nodes, NEW i \in DOMAIN threads[p],
              NotifyRecoveryFinished(p, i)
       PROVE  TypeOK' /\ CallsShape'
  <2>1. threads' \in [Nodes -> Seq(Threads)]
    BY <1>10, ThreadEnds DEF NotifyRecoveryFinished
  <2>2. view' \in [Nodes -> NodeStatus] /\ masterUp' \in BOOLEAN
    BY <1>10 DEF NotifyRecoveryFinished, TypeOK, NodeStatus
  <2> QED
    BY <1>10, <2>1, <2>2
       DEF NotifyRecoveryFinished, TypeOK, CallsShape, LockFree
<1>11. ASSUME NEW n \in Nodes, HealthCrashed(n)
       PROVE  TypeOK' /\ CallsShape'
  <2>1. primary' \in Nodes \cup {NoNode}
    BY <1>11 DEF HealthCrashed, NextPrimary, TypeOK
  <2>2. known' \subseteq Nodes
    BY <1>11, <2>1 DEF HealthCrashed, ClientsLearn, TypeOK
  <2> QED
    BY <1>11, <2>1, <2>2
       DEF HealthCrashed, TypeOK, NodeStatus, CallsShape, LockFree
<1>12. ASSUME NEW n \in Nodes, HealthRunning(n)
       PROVE  TypeOK' /\ CallsShape'
  <2>1. UNCHANGED << store, call, late, faults >> /\ ClientsLearn
    BY <1>12 DEF HealthRunning
  <2>2. CASE RequestRecovery(n) /\ primary # NoNode
    <3>1. known' \subseteq Nodes
      BY <2>1, <2>2, RequestRecoveryType DEF ClientsLearn, TypeOK
    <3> QED
      BY <2>1, <2>2, <3>1, RequestRecoveryType DEF TypeOK, CallsShape, LockFree
  <2>3. CASE /\ view' = view \/ view' = [view EXCEPT ![n] = "RUNNING"]
             /\ primary' = primary \/ primary' = n
             /\ masterUp' \in BOOLEAN
             /\ UNCHANGED << status, threads >>
    <3>1. primary' \in Nodes \cup {NoNode} /\ known' \subseteq Nodes
      BY <2>1, <2>3 DEF ClientsLearn, TypeOK
    <3> QED
      BY <2>1, <2>3, <3>1 DEF TypeOK, NodeStatus, CallsShape, LockFree
  <2> QED
    BY <1>12, <2>2, <2>3 DEF HealthRunning, Abort, TypeOK
<1>13. ASSUME NEW n \in Nodes, HealthNotRunning(n)
       PROVE  TypeOK' /\ CallsShape'
  BY <1>13
     DEF HealthNotRunning, Abort, TypeOK, NodeStatus, CallsShape, LockFree
<1>14. ASSUME NEW n \in Nodes, Suspend(n)
       PROVE  TypeOK' /\ CallsShape'
  <2>1. faults' \in 0 .. MaxFaults
    BY <1>14, BoundsAssumption DEF Suspend, TypeOK
  <2>2. primary' \in Nodes \cup {NoNode}
    BY <1>14 DEF Suspend, NextPrimary, TypeOK
  <2>3. known' \subseteq Nodes
    BY <1>14, <2>2 DEF Suspend, ClientsLearn, TypeOK
  <2> QED
    BY <1>14, <2>1, <2>2, <2>3
       DEF Suspend, TypeOK, NodeStatus, CallsShape, LockFree
<1>15. ASSUME NEW n \in Nodes, Revive(n)
       PROVE  TypeOK' /\ CallsShape'
  <2>1. primary \in Nodes
    BY <1>15 DEF Revive, TypeOK
  <2> QED
    BY <1>15, <2>1, RequestRecoveryType DEF Revive, TypeOK, CallsShape, LockFree
<1>16. ASSUME NEW n \in Nodes, Crash(n)
       PROVE  TypeOK' /\ CallsShape'
  <2>1. << >> \in Seq(Threads) /\ InitStore \in Stores
    BY InitStoreOK DEF StoreOK
  <2>2. faults' \in 0 .. MaxFaults
    BY <1>16, BoundsAssumption DEF Crash, TypeOK
  <2>3. late' \subseteq LateRequests
    BY <1>16, InFlightType DEF Crash, Stop, TypeOK
  <2> QED
    BY <1>16, <2>1, <2>2, <2>3
       DEF Crash, Stop, TypeOK, NodeStatus, CallsShape, LockFree
<1>17. ASSUME NEW n \in Nodes, Restart(n)
       PROVE  TypeOK' /\ CallsShape'
  BY <1>17 DEF Restart, TypeOK, NodeStatus, CallsShape, LockFree
<1>18. ASSUME NEW p \in Nodes, NEW i \in DOMAIN threads[p], SetRunning(p, i)
       PROVE  TypeOK' /\ CallsShape'
  <2>1. threads[p][i].step <= RunStep
    BY <1>18, ReplayStepType DEF SetRunning, ThreadAt
  <2>2. status' \in [Nodes -> NodeStatus]
    BY <1>18 DEF SetRunning, TypeOK, NodeStatus
  <2> QED
    BY <1>18, <2>1, <2>2, AdvanceEffect
       DEF SetRunning, Advance, TypeOK, CallsShape, LockFree
<1> QED
  BY <1>1, <1>2, <1>3, <1>4, <1>5, <1>6, <1>7, <1>8, <1>9, <1>10, <1>11,
     <1>12, <1>13, <1>14, <1>15, <1>16, <1>17, <1>18 DEF Next

\* The types of the initial state.
LEMMA InitType == Init => TypeOK /\ CallsShape
<1>1. InitStore \in Stores /\ << >> \in Seq(Threads)
  BY InitStoreOK DEF StoreOK
<1> QED
  BY <1>1, BoundsAssumption
     DEF Init, TypeOK, CallsShape, NodeStatus, LockFree, NoCall

\* Whatever fails and whoever asks, every store stays a store of the engine,
\* every call keeps its primary last and every recovery its steps.
THEOREM TypeCorrect == Spec => []TypeOK
<1>1. Spec => [](TypeOK /\ CallsShape)
  BY InitType, NextType, PTL DEF Spec
<1> QED
  BY <1>1, PTL

-----------------------------------------------------------------------------
(* A recovery copies the primary, unless the operator suspends a node that  *)
(* takes part in one.                                                       *)

NoSuspendInRecovery == "suspend_recovering" \notin Hazards

\* The recovery threads that have not set their primary RUNNING yet.
Active(p) == {i \in DOMAIN threads[p] : threads[p][i].step <= RunStep}

\* A node without a process has no request, no thread and no files.
CrashedIsEmpty ==
    \A n \in Nodes : status[n] = "CRASHED" =>
        LockFree(n) /\ DOMAIN threads[n] = {} /\ store[n] = InitStore

\* Only the primary recovers others, one at a time; it serves no request
\* until Replay is answered.
RecoveryByPrimary ==
    \A p \in Nodes :
        /\ \A i \in DOMAIN threads[p] : p = primary /\ threads[p][i].target # p
        /\ Active(p) # {} => status[p] = "RECOVERING"
        /\ \A i, j \in Active(p) : i = j

RecoveringIsIdle == \A n \in Nodes : status[n] = "RECOVERING" => LockFree(n)

\* Only the target of a recovery may have a store that is not sound.
SoundUnlessTarget ==
    \A n \in Nodes : status[n] # "RECOVERING" \/ Active(n) # {}
                     => StoreOK(store[n])

\* What a thread has copied when it is at step k and its target RECOVERING:
\* after Replay the target is not.
Copied(from, to, k) ==
    /\ k # RunStep
    /\ \A c \in Cells : 2 * TabletOf[c] + 1 < k => to.ckpt[c] = from.ckpt[c]
    /\ \A t \in Tablets : 2 * t + 2 < k => to.log[t] = from.log[t]

CopiedSoFar ==
    \A p \in Nodes : \A i \in Active(p) :
        LET n == threads[p][i].target
        IN  status[n] = "RECOVERING"
            => Copied(store[p], store[n], threads[p][i].step)

RecoveryInv ==
    /\ TypeOK /\ CallsShape
    /\ CrashedIsEmpty /\ RecoveryByPrimary /\ RecoveringIsIdle
    /\ SoundUnlessTarget /\ CopiedSoFar

\* Copying one more file.
LEMMA CopyNext ==
  ASSUME NEW from \in Stores, NEW to \in Stores, NEW k \in 1 .. 2 * NumTablets,
         Copied(from, to, k)
  PROVE  Copied(from, Overwritten(to, k, from), k + 1)
<1> DEFINE t == (k - 1) \div 2
           s == Overwritten(to, k, from)
<1>1. /\ k + 1 # RunStep
      /\ \A x \in Tablets : 2 * x + 1 \in Nat /\ 2 * x + 2 \in Nat
  BY NumTabletsAssumption, ReplayStepType DEF Tablets
<1>2. CASE k % 2 = 1
  <2>1. /\ t \in Tablets /\ k = 2 * t + 1
        /\ \A x \in Tablets : 2 * x + 1 < k + 1 => x = t \/ 2 * x + 1 < k
        /\ \A x \in Tablets : 2 * x + 2 < k + 1 => 2 * x + 2 < k
    BY <1>2, NumTabletsAssumption DEF Tablets
  <2>2. /\ s.log = to.log
        /\ \A c \in Cells : s.ckpt[c] = IF TabletOf[c] = t THEN from.ckpt[c]
                                                          ELSE to.ckpt[c]
    <3>1. s = [to EXCEPT !.ckpt = SetTablet(@, t, from.ckpt)]
      BY <1>2 DEF Overwritten
    <3>2. s.ckpt = SetTablet(to.ckpt, t, from.ckpt) /\ s.log = to.log
      BY <3>1 DEF Stores
    <3> HIDE DEF s, t
    <3> QED
      BY <3>2 DEF SetTablet
  <2> HIDE DEF s, t
  <2> QED
    BY <1>1, <2>1, <2>2, TabletOfAssumption DEF Copied, s
<1>3. CASE k % 2 # 1
  <2>1. /\ t \in Tablets /\ k = 2 * t + 2
        /\ \A x \in Tablets : 2 * x + 2 < k + 1 => x = t \/ 2 * x + 2 < k
        /\ \A x \in Tablets : 2 * x + 1 < k + 1 => 2 * x + 1 < k
    BY <1>3, NumTabletsAssumption DEF Tablets
  <2>2. s.ckpt = to.ckpt /\ s.log = [to.log EXCEPT ![t] = from.log[t]]
    <3>1. s = [to EXCEPT !.log[t] = from.log[t]]
      BY <1>3 DEF Overwritten
    <3> QED
      BY <3>1 DEF Stores
  <2>3. \A x \in Tablets : s.log[x] = IF x = t THEN from.log[t] ELSE to.log[x]
    <3> HIDE DEF s, t
    <3> QED
      BY <2>1, <2>2, StoreFields
  <2> HIDE DEF s, t
  <2> QED
    BY <1>1, <2>1, <2>2, <2>3, TabletOfAssumption DEF Copied, s
<1> QED
  BY <1>2, <1>3

\* Once every file is copied, Replay makes the target the primary's equal.
LEMMA ReplayCopies ==
  ASSUME NEW from, StoreOK(from), NEW to \in Stores,
         Copied(from, to, ReplayStep)
  PROVE  /\ \A t \in Elements(from.mem) : ~ReplayAborts(to, t)
         /\ Replayed(to, from.mem) = from
<1>1. from \in Stores
  BY DEF StoreOK
<1>2. to.ckpt = from.ckpt /\ to.log = from.log
  <2>1. \A c \in Cells : to.ckpt[c] = from.ckpt[c]
    BY TabletOfAssumption, NumTabletsAssumption DEF Copied, ReplayStep, Tablets
  <2>2. \A t \in Tablets : to.log[t] = from.log[t]
    BY NumTabletsAssumption DEF Copied, ReplayStep, Tablets
  <2>3. /\ to.ckpt \in Contents /\ from.ckpt \in Contents
        /\ to.log \in [Tablets -> Seq(LogRecords)]
        /\ from.log \in [Tablets -> Seq(LogRecords)]
    BY <1>1, StoreFields
  <2> QED
    BY <2>1, <2>2, <2>3 DEF Contents
<1>3. \A t \in Elements(from.mem) : ~ReplayAborts(to, t)
  BY <1>1, <1>2, StoreFields DEF StoreOK, ReplayOK, ReplayAborts, Resident
<1>4. \A c \in Cells : ReplayCell(to, c) = ReplayCell(from, c)
  BY <1>2 DEF ReplayCell
<1> DEFINE map == [c \in Cells |-> IF TabletOf[c] \in Elements(from.mem)
                                   THEN ReplayCell(to, c) ELSE NoValue]
<1>5. map = from.map
  <2>1. \A c \in Cells : map[c] = from.map[c]
    BY <1>4, ReplayRebuildsMemory DEF StoreOK, MemEquationHolds, Resident
  <2>2. from.map \in Contents
    BY <1>1, StoreFields
  <2> QED
    BY <2>1, <2>2 DEF Contents
<1>6. Replayed(to, from.mem)
        = [mem |-> from.mem, map |-> map, ckpt |-> to.ckpt, log |-> to.log]
  <2>1. Replayed(to, from.mem) = [to EXCEPT !.mem = from.mem, !.map = map]
    BY DEF Replayed
  <2> HIDE DEF map
  <2> QED
    BY <2>1 DEF Stores
<1> HIDE DEF map
<1>7. from = [mem |-> from.mem, map |-> from.map, ckpt |-> from.ckpt,
              log |-> from.log]
  BY <1>1 DEF Stores
<1> QED
  BY <1>2, <1>3, <1>5, <1>6, <1>7

\* What a step of a thread does to the active ones.
LEMMA ActiveAdvances ==
  ASSUME TypeOK, NEW p \in Nodes, NEW i \in DOMAIN threads[p],
         threads[p][i].step <= RunStep, Advance(p, i)
  PROVE  /\ \A q \in Nodes : q # p => Active(q)' = Active(q)
         /\ Active(p)' = IF threads[p][i].step = RunStep
                         THEN Active(p) \ {i} ELSE Active(p)
<1>1. /\ \A q \in Nodes : q # p => threads'[q] = threads[q]
      /\ DOMAIN threads'[p] = DOMAIN threads[p]
      /\ \A j \in DOMAIN threads[p] :
             threads'[p][j].step = IF j = i THEN threads[p][j].step + 1
                                            ELSE threads[p][j].step
  BY AdvanceEffect DEF Advance
<1>2. \A j \in DOMAIN threads[p] : threads[p][j].step \in Nat
  BY ThreadFields
<1> QED
  BY <1>1, <1>2, ReplayStepType DEF Active

\* A node that stops takes its threads with it; what they copied to stays a
\* target, which nobody reads.
LEMMA StopKeepsRecovery ==
  ASSUME RecoveryInv, NEW n \in Nodes, NEW pending, Stop(n, pending),
         LockFree(n)',
         \A q \in Nodes : q # n => (LockFree(q)' <=> LockFree(q)),
         primary' = primary, TypeOK', CallsShape'
  PROVE  RecoveryInv'
<1>1. /\ TypeOK /\ CallsShape /\ CrashedIsEmpty /\ RecoveryByPrimary
      /\ RecoveringIsIdle /\ SoundUnlessTarget /\ CopiedSoFar
  BY DEF RecoveryInv
<1>2. /\ status'[n] = "CRASHED" /\ store'[n] = InitStore
      /\ DOMAIN threads'[n] = {}
      /\ \A m \in Nodes : m # n => /\ status'[m] = status[m]
                                   /\ store'[m] = store[m]
                                   /\ threads'[m] = threads[m]
  BY <1>1 DEF Stop, TypeOK
<1>3. Active(n)' = {} /\ \A m \in Nodes : m # n => Active(m)' = Active(m)
  BY <1>2 DEF Active
<1>4. CrashedIsEmpty' /\ RecoveringIsIdle'
  BY <1>1, <1>2 DEF CrashedIsEmpty, RecoveringIsIdle
<1>5. RecoveryByPrimary'
  BY <1>1, <1>2, <1>3 DEF RecoveryByPrimary
<1>6. SoundUnlessTarget'
  BY <1>1, <1>2, <1>3, InitStoreOK DEF SoundUnlessTarget
<1>7. CopiedSoFar'
  <2>1. ASSUME NEW q \in Nodes, NEW i \in Active(q)',
               status'[threads'[q][i].target] = "RECOVERING"
        PROVE  Copied(store'[q], store'[threads'[q][i].target],
                      threads'[q][i].step)
    <3>1. q # n /\ i \in Active(q) /\ threads'[q] = threads[q]
          /\ store'[q] = store[q]
      BY <1>2, <1>3
    <3>2. threads[q][i].target \in Nodes
      BY <1>1, <3>1, ThreadFields DEF Active
    <3> QED
      BY <1>1, <1>2, <2>1, <3>1, <3>2 DEF CopiedSoFar
  <2> QED
    BY <2>1 DEF CopiedSoFar
<1> QED
  BY <1>4, <1>5, <1>6, <1>7 DEF RecoveryInv

\* A secondary request changes the sound store of a node that takes no part in
\* a recovery, or ends the node.
LEMMA ServeKeepsRecovery ==
  ASSUME RecoveryInv, NEW n \in Nodes, NEW r \in Requests, NEW pending,
         Serve(n, r, pending), primary' = primary,
         \A q \in Nodes : LockFree(q)' <=> LockFree(q),
         TypeOK', CallsShape'
  PROVE  RecoveryInv'
<1>1. /\ TypeOK /\ CallsShape /\ CrashedIsEmpty /\ RecoveryByPrimary
      /\ RecoveringIsIdle /\ SoundUnlessTarget /\ CopiedSoFar
  BY DEF RecoveryInv
<1>2. CASE UNCHANGED << status, store, threads >>
  BY <1>1, <1>2
     DEF RecoveryInv, CrashedIsEmpty, RecoveryByPrimary, Active,
         RecoveringIsIdle, SoundUnlessTarget, CopiedSoFar
<1>3. CASE Stop(n, pending)
  BY <1>3, StopKeepsRecovery DEF Serve
<1>4. CASE /\ status[n] = "RUNNING" /\ store' = [store EXCEPT ![n] = Apply(r, @)]
           /\ UNCHANGED << status, threads >>
  <2>1. StoreOK(store[n])
    BY <1>1, <1>4 DEF SoundUnlessTarget
  <2>2. StoreOK(store'[n]) /\ \A m \in Nodes : m # n => store'[m] = store[m]
    BY <1>1, <1>4, <2>1, ApplyStays DEF TypeOK
  <2>3. \A m \in Nodes : Active(m)' = Active(m)
    BY <1>4 DEF Active
  <2>4. Active(n) = {}
    BY <1>1, <1>4 DEF RecoveryByPrimary
  <2>5. CrashedIsEmpty' /\ RecoveringIsIdle'
    BY <1>1, <1>4, <2>2 DEF CrashedIsEmpty, RecoveringIsIdle
  <2>6. RecoveryByPrimary'
    BY <1>1, <1>4, <2>3 DEF RecoveryByPrimary
  <2>7. SoundUnlessTarget'
    BY <1>1, <1>4, <2>2, <2>3 DEF SoundUnlessTarget
  <2>8. CopiedSoFar'
    BY <1>1, <1>4, <2>2, <2>3, <2>4 DEF CopiedSoFar
  <2> QED
    BY <2>5, <2>6, <2>7, <2>8 DEF RecoveryInv
<1> QED
  BY <1>1, <1>2, <1>3, <1>4 DEF Serve, TypeOK

\* Requests keep the invariant of recoveries: they change sound stores of
\* nodes that take no part in one.
LEMMA RequestKeepsRecovery ==
  ASSUME RecoveryInv, NEW p \in Nodes,
         (\E r \in Requests : Begin(p, r)) \/ CheckPeer(p) \/ ExecutePeer(p)
         \/ ExecuteLocal(p),
         TypeOK', CallsShape'
  PROVE  RecoveryInv'
<1> USE DEF master
<1>1. /\ TypeOK /\ CallsShape /\ CrashedIsEmpty /\ RecoveryByPrimary
      /\ RecoveringIsIdle /\ SoundUnlessTarget /\ CopiedSoFar
  BY DEF RecoveryInv
<1>2. \A n \in Nodes : Active(n) # {} => status[n] = "RECOVERING"
  BY <1>1 DEF RecoveryByPrimary
<1>3. ASSUME NEW r \in Requests, Begin(p, r)
      PROVE  RecoveryInv'
  <2>1. /\ status[p] = "RUNNING"
        /\ \A q \in Nodes : q # p => call'[q] = call[q]
        /\ UNCHANGED << status, store, threads, primary >>
    BY <1>3 DEF Begin, TypeOK
  <2> QED
    BY <1>1, <2>1 DEF RecoveryInv, CrashedIsEmpty, RecoveryByPrimary, Active,
          RecoveringIsIdle, SoundUnlessTarget, CopiedSoFar, LockFree
<1>4. CASE CheckPeer(p)
  <2>1. /\ ~LockFree(p) /\ UNCHANGED << status, store, threads, primary >>
        /\ \A q \in Nodes : q # p => call'[q] = call[q]
    BY <1>4, NextNodeCall DEF CheckPeer, TypeOK, RecoveryInv
  <2> QED
    BY <1>1, <2>1 DEF RecoveryInv, CrashedIsEmpty, RecoveryByPrimary, Active,
          RecoveringIsIdle, SoundUnlessTarget, CopiedSoFar, LockFree
<1>5. CASE ExecutePeer(p)
  <2>1. ~LockFree(p) /\ NextNode(p) /\ primary' = primary
    BY <1>5 DEF ExecutePeer
  <2>2. PICK n \in Nodes, r \in Requests :
             n = Head(call[p].todo) /\ r = call[p].request
    BY <1>1, <2>1, CallFields DEF CallsShape
  <2>3. n # p /\ LockFree(n)
    BY <1>1, <1>5, <2>2 DEF ExecutePeer, Serve, CallsShape
  <2>4. \A q \in Nodes : LockFree(q)' <=> LockFree(q)
    BY <1>1, <2>1, <2>2, <2>3, NextNodeCall DEF LockFree
  <2>5. Serve(n, r, late)
    BY <1>5, <2>2 DEF ExecutePeer
  <2> QED
    BY <2>1, <2>4, <2>5, ServeKeepsRecovery
<1>6. CASE ExecuteLocal(p)
  <2>1. /\ ~LockFree(p) /\ UNCHANGED << status, threads, primary >>
        /\ store' = [store EXCEPT ![p] = Apply(call[p].request, @)]
        /\ \A q \in Nodes : q # p => call'[q] = call[q]
    BY <1>1, <1>6 DEF ExecuteLocal, TypeOK
  <2>2. status[p] # "RECOVERING" /\ status[p] # "CRASHED"
    BY <1>1, <2>1 DEF RecoveringIsIdle, CrashedIsEmpty
  <2>3. StoreOK(store'[p]) /\ \A m \in Nodes : m # p => store'[m] = store[m]
    BY <1>1, <2>1, <2>2, CallFields, ApplyStays DEF TypeOK, SoundUnlessTarget
  <2>4. \A m \in Nodes : Active(m)' = Active(m)
    BY <2>1 DEF Active
  <2>5. CrashedIsEmpty' /\ RecoveringIsIdle'
    BY <1>1, <2>1, <2>2, <2>3 DEF CrashedIsEmpty, RecoveringIsIdle, LockFree
  <2>6. RecoveryByPrimary'
    BY <1>1, <2>1, <2>4 DEF RecoveryByPrimary
  <2>7. SoundUnlessTarget'
    BY <1>1, <2>1, <2>3, <2>4 DEF SoundUnlessTarget
  <2>8. CopiedSoFar'
    BY <1>1, <1>2, <2>1, <2>2, <2>3, <2>4 DEF CopiedSoFar
  <2> QED
    BY <2>5, <2>6, <2>7, <2>8 DEF RecoveryInv
<1> QED
  BY <1>3, <1>4, <1>5, <1>6

\* SendReplay never makes the target abort: a target that still is RECOVERING
\* becomes the primary's equal.
LEMMA SendReplayEffect ==
  ASSUME RecoveryInv, NEW p \in Nodes, NEW i \in DOMAIN threads[p],
         SendReplay(p, i), NEW n \in Nodes, n = threads[p][i].target
  PROVE  /\ n # p /\ threads[p][i].step = ReplayStep /\ LockFree(n)
         /\ Advance(p, i) /\ UNCHANGED << call, late, master, faults >>
         /\ \A m \in Nodes \ {n} :
                status'[m] = status[m] /\ store'[m] = store[m]
         /\ status[n] # "RECOVERING" =>
                status'[n] = status[n] /\ store'[n] = store[n]
         /\ status[n] = "RECOVERING" =>
                status'[n] = "RUNNING" /\ store'[n] = store[p]
<1>1. /\ TypeOK /\ RecoveryByPrimary /\ SoundUnlessTarget /\ CopiedSoFar
  BY DEF RecoveryInv
<1>2. /\ threads[p][i].step = ReplayStep /\ LockFree(n)
      /\ UNCHANGED << call, master, faults >>
  BY DEF SendReplay, ThreadAt
<1>3. i \in Active(p) /\ n # p
  <2>1. n # p
    BY <1>1 DEF RecoveryByPrimary
  <2> QED
    BY <1>2, <2>1, ReplayStepType DEF Active
<1>4. StoreOK(store[p]) /\ store[n] \in Stores
  BY <1>1, <1>3 DEF SoundUnlessTarget, TypeOK
<1> DEFINE mem == store[p].mem
<1>5. CASE status[n] # "RECOVERING"
  <2>1. UNCHANGED << status, store, late >> /\ Advance(p, i)
    BY <1>5 DEF SendReplay
  <2> QED
    BY <1>2, <1>3, <1>5, <2>1
<1>6. CASE status[n] = "RECOVERING"
  <2>1. Copied(store[p], store[n], ReplayStep)
    BY <1>1, <1>2, <1>3, <1>6 DEF CopiedSoFar
  <2>2. /\ ~ \E t \in Elements(mem) : ReplayAborts(store[n], t)
        /\ Replayed(store[n], mem) = store[p]
    BY <1>4, <2>1, ReplayCopies
  <2>3. /\ status' = [status EXCEPT ![n] = "RUNNING"] /\ Advance(p, i)
        /\ store' = [store EXCEPT ![n] = Replayed(store[n], mem)] /\ late' = late
    BY <1>6, <2>2 DEF SendReplay
  <2>4. /\ store'[n] = store[p]
        /\ \A m \in Nodes : m # n => store'[m] = store[m]
    BY <1>1, <2>2, <2>3 DEF TypeOK
  <2>5. /\ status'[n] = "RUNNING"
        /\ \A m \in Nodes : m # n => status'[m] = status[m]
    BY <1>1, <2>3 DEF TypeOK
  <2> QED
    BY <1>2, <1>3, <1>6, <2>3, <2>4, <2>5
<1> QED
  BY <1>5, <1>6

\* The steps of a recovery keep it: CopyFile copies from a primary whose
\* store stands still, SendReplay finds every file copied, and the primary is
\* set RUNNING only when its target is no longer RECOVERING.
LEMMA ThreadKeepsRecovery ==
  ASSUME RecoveryInv, NEW p \in Nodes, NEW i \in DOMAIN threads[p],
         SendSrecovery(p, i) \/ CopyFile(p, i) \/ SendReplay(p, i)
         \/ SetRunning(p, i) \/ NotifyRecoveryFinished(p, i),
         TypeOK', CallsShape'
  PROVE  RecoveryInv'
<1> USE DEF master
<1>1. /\ TypeOK /\ CallsShape /\ CrashedIsEmpty /\ RecoveryByPrimary
      /\ RecoveringIsIdle /\ SoundUnlessTarget /\ CopiedSoFar
  BY DEF RecoveryInv
<1>2. PICK n \in Nodes : n = threads[p][i].target
  BY <1>1, ThreadFields
<1>3. n # p /\ p = primary /\ status[p] # "CRASHED"
  BY <1>1, <1>2 DEF RecoveryByPrimary, CrashedIsEmpty
<1>4. \A q \in Nodes : q # p => DOMAIN threads[q] = {} /\ Active(q) = {}
  BY <1>1, <1>3 DEF RecoveryByPrimary, Active
<1>5. CASE ~ NotifyRecoveryFinished(p, i)
  <2>1. /\ threads[p][i].step <= RunStep /\ call' = call /\ primary' = primary
    BY <1>1, <1>5, ThreadFields, ReplayStepType
       DEF SendSrecovery, CopyFile, SendReplay, SetRunning, ThreadAt
  <2>2. Active(p) = {i} /\ status[p] = "RECOVERING"
    BY <1>1, <2>1 DEF RecoveryByPrimary, Active
  <2>3. StoreOK(store[p]) /\ (~SetRunning(p, i) => LockFree(n))
    BY <1>1, <1>2, <1>5, <2>2
       DEF SendSrecovery, CopyFile, SendReplay, SoundUnlessTarget
  <2>4. CASE Advance(p, i)
    <3>1. /\ \A q \in Nodes : q # p => threads'[q] = threads[q]
          /\ DOMAIN threads'[p] = DOMAIN threads[p]
          /\ \A j \in DOMAIN threads[p] :
                 threads'[p][j].target = threads[p][j].target
          /\ threads'[p][i].step = threads[p][i].step + 1
      BY <1>1, <2>1, <2>4, AdvanceEffect DEF Advance
    <3>2. /\ Active(p)' = IF threads[p][i].step = RunStep THEN {} ELSE {i}
          /\ \A q \in Nodes : q # p => Active(q)' = {}
      BY <1>1, <1>4, <2>1, <2>2, <2>4, ActiveAdvances
    <3>3. RecoveryByPrimary' <=> (Active(p)' # {} => status'[p] = "RECOVERING")
      BY <1>1, <1>3, <2>1, <3>1, <3>2 DEF RecoveryByPrimary
    <3>4. CopiedSoFar' <=> (/\ Active(p)' # {} /\ status'[n] = "RECOVERING"
                            => Copied(store'[p], store'[n],
                                      threads[p][i].step + 1))
      BY <1>2, <3>1, <3>2 DEF CopiedSoFar
    <3>5. CASE SendSrecovery(p, i)
      <4>1. /\ threads[p][i].step = 0 /\ store' = store /\ Active(p)' = {i}
            /\ \A m \in Nodes : m # n => status'[m] = status[m]
            /\ status'[n] = IF status[n] \in {"RUNNING", "SUSPENDED"}
                            THEN "RECOVERING" ELSE status[n]
        BY <1>1, <1>2, <2>1, <3>2, <3>5, ReplayStepType
           DEF SendSrecovery, ThreadAt, TypeOK
      <4>2. CrashedIsEmpty' /\ RecoveringIsIdle'
        BY <1>1, <1>3, <2>1, <2>3, <3>1, <3>5, <4>1
           DEF CrashedIsEmpty, RecoveringIsIdle, LockFree, SendSrecovery
      <4>3. SoundUnlessTarget'
        BY <1>1, <1>3, <2>3, <3>2, <4>1, <1>4 DEF SoundUnlessTarget
      <4>4. Copied(store[p], store[n], 1)
        BY TabletOfAssumption, NumTabletsAssumption, ReplayStepType
           DEF Copied, Tablets
      <4> QED
        BY <1>3, <2>2, <3>3, <3>4, <4>1, <4>2, <4>3, <4>4 DEF RecoveryInv
    <3>6. CASE CopyFile(p, i)
      <4>1. /\ threads[p][i].step \in 1 .. 2 * NumTablets /\ status' = status
            /\ Active(p)' = {i}
        BY <3>2, <3>6, ReplayStepType DEF CopyFile, ThreadAt
      <4>2. IF status[n] = "RECOVERING"
            THEN store' = [store EXCEPT ![n] = Overwritten(@, threads[p][i].step,
                                                           store[p])]
            ELSE store' = store
        BY <1>2, <3>6 DEF CopyFile
      <4>3. CASE status[n] = "RECOVERING"
        <5>1. /\ store'[n] = Overwritten(store[n], threads[p][i].step, store[p])
              /\ \A m \in Nodes : m # n => store'[m] = store[m]
          BY <1>1, <4>2, <4>3 DEF TypeOK
        <5>2. Copied(store[p], store[n], threads[p][i].step)
          BY <1>1, <1>2, <2>2, <4>3 DEF CopiedSoFar
        <5>3. Copied(store'[p], store'[n], threads[p][i].step + 1)
          BY <1>1, <1>3, <4>1, <5>1, <5>2, CopyNext DEF TypeOK
        <5>4. CrashedIsEmpty' /\ RecoveringIsIdle'
          BY <1>1, <1>3, <2>1, <3>1, <4>1, <4>3, <5>1
             DEF CrashedIsEmpty, RecoveringIsIdle, LockFree
        <5>5. SoundUnlessTarget'
          <6>1. Active(n)' = {} /\ status'[n] = "RECOVERING"
            BY <1>3, <3>2, <4>1, <4>3
          <6>2. \A m \in Nodes :
                    \/ StoreOK(store[m])
                    \/ status[m] = "RECOVERING" /\ m # p
            BY <1>1, <2>3 DEF SoundUnlessTarget
          <6> QED
            BY <1>3, <2>3, <3>2, <4>1, <5>1, <6>1, <6>2 DEF SoundUnlessTarget
        <5> QED
          BY <2>2, <3>3, <3>4, <4>1, <5>3, <5>4, <5>5 DEF RecoveryInv
      <4>4. CASE status[n] # "RECOVERING"
        <5>1. CrashedIsEmpty' /\ RecoveringIsIdle'
          BY <1>1, <1>3, <2>1, <3>1, <4>1, <4>2, <4>4
             DEF CrashedIsEmpty, RecoveringIsIdle, LockFree
        <5>2. SoundUnlessTarget'
          BY <1>1, <1>4, <2>3, <3>2, <4>1, <4>2, <4>4 DEF SoundUnlessTarget
        <5> QED
          BY <2>2, <3>3, <3>4, <4>1, <4>4, <5>1, <5>2 DEF RecoveryInv
      <4> QED
        BY <4>3, <4>4
    <3>7. CASE SendReplay(p, i)
      <4>1. Active(p)' = {i}
        BY <3>2, <3>7, ReplayStepType DEF SendReplay, ThreadAt
      <4>2. /\ LockFree(n)
            /\ \A m \in Nodes \ {n} :
                   status'[m] = status[m] /\ store'[m] = store[m]
            /\ \/ status'[n] = status[n] /\ store'[n] = store[n]
                  /\ status[n] # "RECOVERING"
               \/ status'[n] = "RUNNING" /\ store'[n] = store[p]
        BY <1>2, <3>7, SendReplayEffect
      <4>3. CrashedIsEmpty' /\ RecoveringIsIdle'
        BY <1>1, <1>3, <2>1, <3>1, <4>2
           DEF CrashedIsEmpty, RecoveringIsIdle, LockFree
      <4>4. SoundUnlessTarget'
        BY <1>1, <1>3, <1>4, <2>3, <3>2, <4>1, <4>2 DEF SoundUnlessTarget
      <4> QED
        BY <1>3, <2>2, <3>3, <3>4, <4>1, <4>2, <4>3, <4>4 DEF RecoveryInv
    <3>8. CASE SetRunning(p, i)
      <4>1. /\ threads[p][i].step = RunStep /\ store' = store
            /\ status'[p] = "RUNNING"
            /\ \A m \in Nodes : m # p => status'[m] = status[m]
        BY <1>1, <3>8 DEF SetRunning, ThreadAt, TypeOK
      <4>2. Active(p)' = {}
        BY <3>2, <4>1
      <4>3. CrashedIsEmpty' /\ RecoveringIsIdle'
        BY <1>1, <1>3, <2>1, <3>1, <4>1
           DEF CrashedIsEmpty, RecoveringIsIdle, LockFree
      <4>4. SoundUnlessTarget'
        BY <1>1, <1>4, <2>3, <3>2, <4>1, <4>2 DEF SoundUnlessTarget
      <4> QED
        BY <3>3, <3>4, <4>2, <4>3, <4>4 DEF RecoveryInv
    <3> QED
      BY <1>5, <3>5, <3>6, <3>7, <3>8
  <2>5. Advance(p, i)
    BY <1>2, <1>5, SendReplayEffect DEF SendSrecovery, CopyFile, SetRunning
  <2> QED
    BY <2>4, <2>5
<1>6. CASE NotifyRecoveryFinished(p, i)
  <2>1. /\ threads[p][i].step = NotifyStep
        /\ threads' = [threads EXCEPT ![p] = RemoveAt(@, i)]
        /\ UNCHANGED << status, store, call, primary >>
    BY <1>6 DEF NotifyRecoveryFinished, ThreadAt
  <2>2. OthersStay(p, i)
    BY <1>1, <2>1, ThreadEnds
  <2>3. /\ \A q \in Nodes : q # p => threads'[q] = threads[q]
        /\ \A j \in DOMAIN threads'[p] :
               /\ Was(i, j) \in DOMAIN threads[p] /\ Was(i, j) # i
               /\ threads'[p][j] = threads[p][Was(i, j)]
        /\ \A j, k \in DOMAIN threads'[p] : Was(i, j) = Was(i, k) => j = k
        /\ \A k \in DOMAIN threads[p] : k # i =>
               \E j \in DOMAIN threads'[p] : Was(i, j) = k
    BY <2>2 DEF OthersStay
  <2>4. i \notin Active(p)
    <3>1. ~ (NotifyStep <= RunStep)
      BY ReplayStepType
    <3> QED
      BY <2>1, <3>1 DEF Active
  <2>5. /\ \A j \in Active(p)' : Was(i, j) \in Active(p)
        /\ Active(p) # {} => Active(p)' # {}
        /\ \A q \in Nodes : q # p => Active(q)' = Active(q)
    BY <2>3, <2>4 DEF Active
  <2>6. \A j \in DOMAIN threads'[p] :
            Was(i, j) \in DOMAIN threads[p] /\ threads'[p][j] = threads[p][Was(i, j)]
    BY <2>3
  <2>7. CrashedIsEmpty' /\ RecoveringIsIdle'
    BY <1>1, <1>3, <2>1, <2>3 DEF CrashedIsEmpty, RecoveringIsIdle, LockFree
  <2>8. RecoveryByPrimary'
    <3>1. \A j, k \in Active(p)' : j = k
      BY <1>1, <2>3, <2>5 DEF RecoveryByPrimary, Active
    <3>2. Active(p)' # {} => Active(p) # {}
      BY <2>5
    <3>3. \A j \in DOMAIN threads'[p] : threads'[p][j].target # p
      BY <1>1, <2>6 DEF RecoveryByPrimary
    <3>4. ASSUME NEW q \in Nodes
          PROVE  /\ \A j \in DOMAIN threads'[q] :
                        q = primary' /\ threads'[q][j].target # q
                 /\ Active(q)' # {} => status'[q] = "RECOVERING"
                 /\ \A j, k \in Active(q)' : j = k
      <4>1. CASE q = p
        BY <1>1, <1>3, <2>1, <3>1, <3>2, <3>3, <4>1 DEF RecoveryByPrimary
      <4>2. CASE q # p
        BY <1>1, <2>1, <2>3, <2>5, <4>2 DEF RecoveryByPrimary
      <4> QED
        BY <4>1, <4>2
    <3> QED
      BY <3>4 DEF RecoveryByPrimary
  <2>9. SoundUnlessTarget'
    BY <1>1, <2>1, <2>5, <1>4 DEF SoundUnlessTarget
  <2>10. CopiedSoFar'
    <3>1. ASSUME NEW j \in Active(p)', status[threads'[p][j].target] = "RECOVERING"
          PROVE  Copied(store[p], store[threads'[p][j].target],
                        threads'[p][j].step)
      <4>1. j \in DOMAIN threads'[p]
        BY DEF Active
      <4> QED
        BY <1>1, <2>5, <2>6, <3>1, <4>1 DEF CopiedSoFar
    <3> QED
      BY <1>4, <2>1, <2>5, <3>1 DEF CopiedSoFar
  <2> QED
    BY <2>7, <2>8, <2>9, <2>10 DEF RecoveryInv
<1> QED
  BY <1>5, <1>6

\* Asking the primary for a recovery: it is refused, or a thread starts.
LEMMA RequestRecoveryCases ==
  ASSUME TypeOK, NEW n \in Nodes, primary \in Nodes, RequestRecovery(n)
  PROVE  /\ LockFree(primary) /\ primary' = primary /\ masterUp' = masterUp
         /\ \/ UNCHANGED << status, threads, view >>
            \/ /\ status[primary] = "RUNNING" /\ status[n] # "CRASHED"
               /\ status' = [status EXCEPT ![primary] = "RECOVERING"]
               /\ threads' = [threads EXCEPT
                        ![primary] = Append(@, [target |-> n, step |-> 0])]
               /\ view' = [view EXCEPT ![n] = "RECOVERING"]
BY DEF RequestRecovery

LEMMA RequestRecoveryKeepsRecovery ==
  ASSUME RecoveryInv, NEW n \in Nodes, primary \in Nodes, n # primary,
         RequestRecovery(n), UNCHANGED << store, call >>, TypeOK', CallsShape'
  PROVE  RecoveryInv'
<1>1. /\ TypeOK /\ CallsShape /\ CrashedIsEmpty /\ RecoveryByPrimary
      /\ RecoveringIsIdle /\ SoundUnlessTarget /\ CopiedSoFar
  BY DEF RecoveryInv
<1>2. PICK p \in Nodes : p = primary
  OBVIOUS
<1>3. LockFree(p) /\ primary' = p
  BY <1>1, <1>2, RequestRecoveryCases
<1>4. CASE UNCHANGED << status, threads >>
  BY <1>1, <1>2, <1>3, <1>4
     DEF RecoveryInv, CrashedIsEmpty, RecoveryByPrimary, Active,
         RecoveringIsIdle, SoundUnlessTarget, CopiedSoFar, LockFree
<1>5. CASE /\ status[p] = "RUNNING"
           /\ status' = [status EXCEPT ![p] = "RECOVERING"]
           /\ threads' = [threads EXCEPT
                            ![p] = Append(@, [target |-> n, step |-> 0])]
  <2> DEFINE last == Len(threads[p]) + 1
  <2>1. /\ \A q \in Nodes : q # p => threads'[q] = threads[q]
        /\ DOMAIN threads'[p] = DOMAIN threads[p] \cup {last}
        /\ last \notin DOMAIN threads[p]
        /\ \A j \in DOMAIN threads[p] : threads'[p][j] = threads[p][j]
        /\ threads'[p][last] = [target |-> n, step |-> 0]
    BY <1>1, <1>5, RecoveryStarts
  <2>2. status'[p] = "RECOVERING" /\ \A q \in Nodes : q # p => status'[q] = status[q]
    BY <1>1, <1>5 DEF TypeOK
  <2>3. \A q \in Nodes : Active(q) # {} => status[q] = "RECOVERING"
    BY <1>1 DEF RecoveryByPrimary
  <2>4. PICK new : new = last
    OBVIOUS
  <2> HIDE DEF last
  <2>5. Active(p) = {} /\ \A q \in Nodes : q # p => DOMAIN threads[q] = {}
    BY <1>1, <1>2, <1>5, <2>3 DEF RecoveryByPrimary
  <2>6. /\ Active(p)' = {new}
        /\ \A q \in Nodes : q # p => Active(q)' = {}
    BY <2>1, <2>4, <2>5, ReplayStepType DEF Active
  <2>7. CrashedIsEmpty' /\ RecoveringIsIdle'
    BY <1>1, <1>3, <2>1, <2>2 DEF CrashedIsEmpty, RecoveringIsIdle, LockFree
  <2>8. RecoveryByPrimary'
    BY <1>1, <1>2, <1>3, <2>1, <2>2, <2>4, <2>5, <2>6 DEF RecoveryByPrimary
  <2>9. SoundUnlessTarget'
    BY <1>1, <1>5, <2>2, <2>6 DEF SoundUnlessTarget
  <2>10. Copied(store[p], store[n], 0)
    BY TabletOfAssumption, ReplayStepType DEF Copied, Tablets
  <2>11. CopiedSoFar'
    BY <2>1, <2>4, <2>6, <2>10 DEF CopiedSoFar
  <2> QED
    BY <2>7, <2>8, <2>9, <2>11 DEF RecoveryInv
<1> QED
  BY <1>1, <1>2, <1>4, <1>5, RequestRecoveryCases

\* The master and the failures keep it.
LEMMA MasterKeepsRecovery ==
  ASSUME RecoveryInv, NoSuspendInRecovery, NEW n \in Nodes,
         HealthCrashed(n) \/ HealthRunning(n) \/ HealthNotRunning(n)
         \/ Suspend(n) \/ Revive(n) \/ Crash(n) \/ Restart(n),
         TypeOK', CallsShape'
  PROVE  RecoveryInv'
<1> USE DEF master
<1>1. /\ TypeOK /\ CallsShape /\ CrashedIsEmpty /\ RecoveryByPrimary
      /\ RecoveringIsIdle /\ SoundUnlessTarget /\ CopiedSoFar
  BY DEF RecoveryInv
<1>2. ASSUME UNCHANGED << status, store, call, threads >>,
             primary' = primary \/ \A q \in Nodes : DOMAIN threads[q] = {}
      PROVE  RecoveryInv'
  BY <1>1, <1>2
     DEF RecoveryInv, CrashedIsEmpty, RecoveryByPrimary, Active,
         RecoveringIsIdle, SoundUnlessTarget, CopiedSoFar, LockFree
<1>3. CASE HealthCrashed(n)
  <2>1. CASE primary = n
    <3>1. \A q \in Nodes : DOMAIN threads[q] = {}
      BY <1>1, <1>3, <2>1 DEF HealthCrashed, CrashedIsEmpty, RecoveryByPrimary
    <3> QED
      BY <1>2, <1>3, <3>1 DEF HealthCrashed
  <2>2. CASE primary # n
    BY <1>2, <1>3, <2>2 DEF HealthCrashed
  <2> QED
    BY <2>1, <2>2
<1>4. CASE HealthRunning(n)
  <2>1. UNCHANGED << store, call >>
    BY <1>4 DEF HealthRunning
  <2>2. CASE primary = NoNode
    <3>1. \A q \in Nodes : DOMAIN threads[q] = {}
      BY <1>1, <2>2 DEF RecoveryByPrimary, NoNode, Nodes
    <3> QED
      BY <1>2, <1>4, <2>1, <2>2, <3>1 DEF HealthRunning
  <2>3. CASE primary # NoNode /\ ~ RequestRecovery(n)
    BY <1>2, <1>4, <2>1, <2>3 DEF HealthRunning, Abort
  <2>4. CASE primary # NoNode /\ RequestRecovery(n) /\ primary = n
    BY <1>2, <1>4, <2>1, <2>4 DEF HealthRunning, Abort
  <2>5. CASE primary # NoNode /\ RequestRecovery(n) /\ primary # n
    BY <1>1, <2>1, <2>5, RequestRecoveryKeepsRecovery DEF TypeOK
  <2> QED
    BY <2>2, <2>3, <2>4, <2>5
<1>5. CASE HealthNotRunning(n)
  BY <1>2, <1>5 DEF HealthNotRunning, Abort
<1>6. CASE Suspend(n)
  <2>1. /\ status[n] = "RUNNING" /\ ~InRecovery(n)
        /\ UNCHANGED << store, call, threads >>
        /\ status' = [status EXCEPT ![n] = "SUSPENDED"]
    BY <1>6 DEF Suspend, NoSuspendInRecovery, May
  <2>2. status'[n] = "SUSPENDED" /\ \A m \in Nodes : m # n => status'[m] = status[m]
    BY <1>1, <2>1 DEF TypeOK
  <2>3. primary' = primary \/ \A q \in Nodes : DOMAIN threads[q] = {}
    BY <1>1, <1>6, <2>1 DEF Suspend, InRecovery, RecoveryByPrimary
  <2>4. \A m \in Nodes : Active(m)' = Active(m)
    BY <2>1 DEF Active
  <2>5. Active(n) = {}
    BY <2>1 DEF InRecovery, Active
  <2>6. CrashedIsEmpty' /\ RecoveringIsIdle'
    BY <1>1, <2>1, <2>2 DEF CrashedIsEmpty, RecoveringIsIdle, LockFree
  <2>7. RecoveryByPrimary'
    BY <1>1, <2>1, <2>2, <2>3, <2>4, <2>5 DEF RecoveryByPrimary
  <2>8. SoundUnlessTarget'
    BY <1>1, <2>1, <2>2, <2>4 DEF SoundUnlessTarget
  <2>9. CopiedSoFar'
    <3>1. \A q \in Nodes : \A i \in Active(q) : threads[q][i].target # n
      BY <2>1 DEF InRecovery, Active
    <3>2. \A q \in Nodes : \A i \in Active(q) : threads[q][i].target \in Nodes
      BY <1>1, ThreadFields DEF Active
    <3> QED
      BY <1>1, <2>1, <2>2, <2>4, <3>1, <3>2 DEF CopiedSoFar
  <2> QED
    BY <2>6, <2>7, <2>8, <2>9 DEF RecoveryInv
<1>7. CASE Revive(n)
  BY <1>1, <1>7, RequestRecoveryKeepsRecovery DEF Revive, TypeOK
<1>8. CASE Crash(n)
  <2>1. PICK pending : Stop(n, pending)
    BY <1>8 DEF Crash
  <2>2. /\ primary' = primary /\ LockFree(n)'
        /\ \A q \in Nodes : q # n => (LockFree(q)' <=> LockFree(q))
    BY <1>1, <1>8 DEF Crash, LockFree, TypeOK
  <2> QED
    BY <2>1, <2>2, StopKeepsRecovery
<1>9. CASE Restart(n)
  <2>1. /\ status[n] = "CRASHED" /\ UNCHANGED << store, call, threads, primary >>
        /\ status' = [status EXCEPT ![n] = "RUNNING"]
    BY <1>9 DEF Restart
  <2>2. status'[n] = "RUNNING" /\ \A m \in Nodes : m # n => status'[m] = status[m]
    BY <1>1, <2>1 DEF TypeOK
  <2>3. Active(n) = {} /\ \A m \in Nodes : Active(m)' = Active(m)
    BY <1>1, <2>1 DEF Active, CrashedIsEmpty
  <2>4. CrashedIsEmpty' /\ RecoveringIsIdle'
    BY <1>1, <2>1, <2>2 DEF CrashedIsEmpty, RecoveringIsIdle, LockFree
  <2>5. RecoveryByPrimary'
    BY <1>1, <2>1, <2>2, <2>3 DEF RecoveryByPrimary
  <2>6. SoundUnlessTarget'
    BY <1>1, <2>1, <2>2, <2>3, InitStoreOK DEF SoundUnlessTarget, CrashedIsEmpty
  <2>7. CopiedSoFar'
    <3>1. \A q \in Nodes : \A i \in Active(q) : threads[q][i].target \in Nodes
      BY <1>1, ThreadFields DEF Active
    <3> QED
      BY <1>1, <2>1, <2>2, <2>3, <3>1 DEF CopiedSoFar
  <2> QED
    BY <2>4, <2>5, <2>6, <2>7 DEF RecoveryInv
<1> QED
  BY <1>3, <1>4, <1>5, <1>6, <1>7, <1>8, <1>9

\* The invariant of recoveries is inductive.
LEMMA NextRecovery ==
  ASSUME RecoveryInv, NoSuspendInRecovery, [Next]_vars
  PROVE  RecoveryInv'
<1>1. TypeOK' /\ CallsShape'
  BY NextType DEF RecoveryInv
<1>2. CASE UNCHANGED vars
  <2>1. UNCHANGED << status, store, call, threads, primary >>
    BY <1>2 DEF vars
  <2> QED
    BY <1>1, <2>1
       DEF RecoveryInv, CrashedIsEmpty, RecoveryByPrimary, Active,
           RecoveringIsIdle, SoundUnlessTarget, CopiedSoFar, LockFree
<1>3. ASSUME NEW x \in late, ExecuteLate(x)
      PROVE  RecoveryInv'
  <2>1. /\ x.to \in Nodes /\ x.request \in Requests
        /\ Serve(x.to, x.request, late \ {x})
        /\ primary' = primary /\ call' = call
    BY <1>3 DEF ExecuteLate, master, RecoveryInv, TypeOK, LateRequests
  <2> QED
    BY <1>1, <2>1, ServeKeepsRecovery DEF LockFree
<1> QED
  BY <1>1, <1>2, <1>3, RequestKeepsRecovery, ThreadKeepsRecovery,
     MasterKeepsRecovery DEF Next

LEMMA InitRecovery == Init => RecoveryInv
<1> SUFFICES ASSUME Init PROVE RecoveryInv
  OBVIOUS
<1>1. TypeOK /\ CallsShape
  BY InitType
<1>2. \A n \in Nodes : DOMAIN threads[n] = {} /\ Active(n) = {}
  BY DEF Init, Active
<1> QED
  BY <1>1, <1>2, InitStoreOK
     DEF Init, RecoveryInv, CrashedIsEmpty, RecoveryByPrimary, RecoveringIsIdle,
         SoundUnlessTarget, CopiedSoFar

\* A node that can serve requests always has a sound store, whatever crashes,
\* restarts and recoveries that are cut short came before, as long as the
\* operator leaves the nodes of a recovery alone.
THEOREM StoresStaySound ==
  ASSUME NoSuspendInRecovery
  PROVE  Spec => []StoresSound
<1>1. Init => RecoveryInv
  BY InitRecovery
<1>2. RecoveryInv /\ [Next]_vars => RecoveryInv'
  BY NextRecovery
<1>3. RecoveryInv => StoresSound
  BY DEF RecoveryInv, SoundUnlessTarget, StoresSound
<1> QED
  BY <1>1, <1>2, <1>3, PTL DEF Spec

\* Under the same assumption a node leaves a recovery only as the equal of
\* the node that recovered it, tablet order included: whatever was lost on
\* the way, Replay finds every file copied.
THEOREM RecoveryCopies ==
  ASSUME NoSuspendInRecovery
  PROVE  Spec => RecoveryCopiesNode
<1> DEFINE Copies(p, n) ==
               (\E i \in DOMAIN threads[p] :
                    SendReplay(p, i) /\ threads[p][i].target = n)
               /\ status[n] = "RECOVERING" /\ status'[n] = "RUNNING"
               => store'[n] = store[p]
           AllCopy == \A p, n \in Nodes : Copies(p, n)
<1>1. Init => RecoveryInv
  BY InitRecovery
<1>2. RecoveryInv /\ [Next]_vars => RecoveryInv'
  BY NextRecovery
<1>3. RecoveryInv => AllCopy
  BY SendReplayEffect
<1>4. Spec => [][AllCopy]_vars
  <2> HIDE DEF AllCopy
  <2> QED
    BY <1>1, <1>2, <1>3, PTL DEF Spec
<1> QED
  BY <1>4 DEF RecoveryCopiesNode

-----------------------------------------------------------------------------
(* The master's picture of an undisturbed cluster: who the primary is, who  *)
(* takes part in a recovery and who executes requests.                      *)

\* Nobody dies inside a request or a recovery, or restarts unseen, no client
\* uses the address of an old primary and the operator lets recoveries be;
\* the master may look too early.
Undisturbed == Hazards \subseteq {"early_health"}

Targeted(n) ==
    \E p \in Nodes : \E i \in DOMAIN threads[p] : threads[p][i].target = n

PrimaryIsViewed == primary # NoNode => view[primary] # "CRASHED"

\* A RECOVERING node is one of the two nodes of a recovery that is not over.
RecoveringTakesPart ==
    \A n \in Nodes : status[n] = "RECOVERING" =>
        \/ Active(n) # {}
        \/ \E p \in Nodes : \E i \in Active(p) : threads[p][i].target = n

ViewRecoveringTakesPart ==
    masterUp => \A n \in Nodes : view[n] = "RECOVERING" =>
                    n = primary \/ Targeted(n)

\* Nothing touches a node that the operator has suspended.
ViewSuspendedIsLeftAlone ==
    \A n \in Nodes : view[n] = "SUSPENDED" =>
        /\ status[n] \in {"SUSPENDED", "CRASHED"}
        /\ DOMAIN threads[n] = {} /\ ~Targeted(n)

SomeRunningNodeIsPrimary ==
    masterUp /\ primary = NoNode => \A n \in Nodes : view[n] # "RUNNING"

OnlyPrimaryExecutes ==
    \A p \in Nodes : ~LockFree(p) => p = primary /\ status[p] = "RUNNING"

\* Clients know the primary alone, and no request outlives its primary.
NobodyIsLate == known = {} /\ late = {}

MasterInv ==
    /\ NobodyIsLate /\ PrimaryIsViewed
    /\ RecoveringTakesPart /\ ViewRecoveringTakesPart /\ ViewSuspendedIsLeftAlone
    /\ SomeRunningNodeIsPrimary /\ OnlyPrimaryExecutes

\* Who has recovery threads, and whom they recover.
LEMMA OnlyPrimaryRecovers ==
  ASSUME RecoveryInv
  PROVE  /\ \A p \in Nodes : p # primary => DOMAIN threads[p] = {} /\ Active(p) = {}
         /\ \A p \in Nodes : Active(p) \subseteq DOMAIN threads[p]
         /\ \A p \in Nodes : ~LockFree(p) => Active(p) = {}
         /\ primary = NoNode => \A n \in Nodes : ~Targeted(n) /\ n # primary
         /\ primary # NoNode => ~Targeted(primary) /\ primary \in Nodes
<1>1. TypeOK /\ RecoveryByPrimary /\ RecoveringIsIdle
  BY DEF RecoveryInv
<1>2. NoNode \notin Nodes
  BY DEF NoNode, Nodes
<1> QED
  BY <1>1, <1>2
     DEF RecoveryByPrimary, RecoveringIsIdle, Active, Targeted, TypeOK

SameThreads ==
    \A p \in Nodes : /\ DOMAIN threads'[p] = DOMAIN threads[p]
                     /\ \A i \in DOMAIN threads[p] : threads'[p][i] = threads[p][i]

\* The same threads take the same parts.
LEMMA SamePartners ==
  ASSUME SameThreads
  PROVE  \A n \in Nodes : /\ Active(n)' = Active(n)
                          /\ Targeted(n)' <=> Targeted(n)
                          /\ AwaitsRecovery(n)' <=> AwaitsRecovery(n)
BY DEF SameThreads, Active, Targeted, AwaitsRecovery

\* A node that stops without a thread, and a request that goes on, change
\* nothing the master relies on.
LEMMA MasterStays ==
  ASSUME RecoveryInv', MasterInv, SameThreads, UNCHANGED master,
         \A n \in Nodes : status'[n] \in {status[n], "CRASHED"},
         \A p \in Nodes : ~LockFree(p)' => ~LockFree(p), late' \subseteq late
  PROVE  MasterInv'
<1> USE DEF MasterInv, master
<1>1. \A n \in Nodes : /\ DOMAIN threads'[n] = DOMAIN threads[n]
                       /\ Active(n)' = Active(n)
                       /\ Targeted(n)' <=> Targeted(n)
                       /\ \A i \in Active(n) : threads'[n][i] = threads[n][i]
  BY SamePartners DEF SameThreads, Active
<1>2. PrimaryIsViewed' /\ SomeRunningNodeIsPrimary' /\ NobodyIsLate'
  BY DEF PrimaryIsViewed, SomeRunningNodeIsPrimary, NobodyIsLate
<1>3. RecoveringTakesPart'
  BY <1>1 DEF RecoveringTakesPart
<1>4. ViewRecoveringTakesPart'
  BY <1>1 DEF ViewRecoveringTakesPart
<1>5. ViewSuspendedIsLeftAlone'
  BY <1>1 DEF ViewSuspendedIsLeftAlone
<1>6. OnlyPrimaryExecutes'
  BY DEF OnlyPrimaryExecutes, RecoveryInv, CrashedIsEmpty
<1> QED
  BY <1>2, <1>3, <1>4, <1>5, <1>6

\* Requests keep the picture: the primary alone executes them.
LEMMA RequestKeepsMaster ==
  ASSUME RecoveryInv, RecoveryInv', MasterInv, NEW p \in Nodes,
         (\E r \in Requests : Begin(p, r)) \/ CheckPeer(p) \/ ExecutePeer(p)
         \/ ExecuteLocal(p)
  PROVE  MasterInv'
<1>1. TypeOK /\ CallsShape /\ \A n \in Nodes : n # primary => DOMAIN threads[n] = {}
  BY OnlyPrimaryRecovers DEF RecoveryInv
<1>2. ASSUME NEW r \in Requests, Begin(p, r)
      PROVE  MasterInv'
  <2>1. /\ p = primary /\ status[p] = "RUNNING"
        /\ \A q \in Nodes : q # p => call'[q] = call[q]
        /\ UNCHANGED << status, late, threads, view, primary, known, masterUp >>
    BY <1>1, <1>2
       DEF Begin, ClientFinds, master, TypeOK, MasterInv, NobodyIsLate
  <2>2. OnlyPrimaryExecutes'
    BY <2>1 DEF MasterInv, OnlyPrimaryExecutes, LockFree
  <2> QED
    BY <2>1, <2>2
       DEF MasterInv, PrimaryIsViewed, RecoveringTakesPart, Active, Targeted,
           ViewRecoveringTakesPart, ViewSuspendedIsLeftAlone,
           SomeRunningNodeIsPrimary, NobodyIsLate
<1>3. CASE CheckPeer(p)
  <2>1. /\ ~LockFree(p) /\ UNCHANGED << status, late, threads, master >>
        /\ \A q \in Nodes : q # p => call'[q] = call[q]
    BY <1>1, <1>3, NextNodeCall DEF CheckPeer, TypeOK
  <2> QED
    BY <2>1, MasterStays DEF SameThreads, LockFree
<1>4. CASE ExecutePeer(p)
  <2>1. ~LockFree(p) /\ NextNode(p) /\ UNCHANGED master
    BY <1>4 DEF ExecutePeer
  <2>2. PICK n \in Nodes : n = Head(call[p].todo)
    BY <1>1, <2>1, CallFields DEF CallsShape
  <2>3. n # p
    BY <1>1, <1>4, <2>2 DEF ExecutePeer, CallsShape
  <2>4. /\ \A q \in Nodes : ~LockFree(q)' => ~LockFree(q)
        /\ late' \subseteq late
    BY <1>1, <1>4, <2>1, <2>2, <2>3, NextNodeCall
       DEF LockFree, ExecutePeer, Serve, Stop
  <2>5. CASE UNCHANGED << status, threads >>
    BY <2>1, <2>4, <2>5, MasterStays DEF SameThreads
  <2>6. CASE Stop(n, late)
    <3>1. p = primary
      BY <2>1 DEF MasterInv, OnlyPrimaryExecutes
    <3>2. /\ DOMAIN threads[n] = {} /\ DOMAIN threads'[n] = {}
          /\ \A q \in Nodes : q # n => threads'[q] = threads[q]
      BY <1>1, <2>3, <2>6, <3>1 DEF Stop, TypeOK
    <3>3. \A m \in Nodes : status'[m] \in {status[m], "CRASHED"}
      BY <1>1, <2>6 DEF Stop, TypeOK
    <3>4. SameThreads
      BY <3>2 DEF SameThreads
    <3> QED
      BY <2>1, <2>4, <3>3, <3>4, MasterStays
  <2> QED
    BY <1>4, <2>2, <2>5, <2>6 DEF ExecutePeer, Serve
<1>5. CASE ExecuteLocal(p)
  <2>1. /\ UNCHANGED << status, late, threads, master >>
        /\ ~LockFree(p) /\ \A q \in Nodes : q # p => call'[q] = call[q]
    BY <1>1, <1>5 DEF ExecuteLocal, TypeOK
  <2> QED
    BY <2>1, MasterStays DEF SameThreads, LockFree
<1> QED
  BY <1>2, <1>3, <1>4, <1>5

\* The steps of a recovery change the status of its two nodes only, which the
\* master does not take for suspended.
LEMMA ThreadKeepsMaster ==
  ASSUME RecoveryInv, RecoveryInv', MasterInv, NEW p \in Nodes,
         NEW i \in DOMAIN threads[p],
         SendSrecovery(p, i) \/ CopyFile(p, i) \/ SendReplay(p, i)
         \/ SetRunning(p, i) \/ NotifyRecoveryFinished(p, i)
  PROVE  MasterInv'
<1> USE DEF master
<1>1. /\ TypeOK /\ RecoveryByPrimary /\ RecoveringIsIdle /\ CopiedSoFar
      /\ NobodyIsLate /\ PrimaryIsViewed /\ RecoveringTakesPart
      /\ ViewRecoveringTakesPart /\ ViewSuspendedIsLeftAlone
      /\ SomeRunningNodeIsPrimary /\ OnlyPrimaryExecutes
  BY DEF RecoveryInv, MasterInv
<1>2. PICK n \in Nodes : n = threads[p][i].target
  BY <1>1, ThreadFields
<1>3. /\ n # p /\ p = primary /\ primary # NoNode
      /\ \A q \in Nodes : q # p => DOMAIN threads[q] = {} /\ Active(q) = {}
  BY <1>1, <1>2, OnlyPrimaryRecovers DEF RecoveryByPrimary, NoNode, Nodes
<1>4. view[n] # "SUSPENDED" /\ view[p] # "SUSPENDED"
  BY <1>1, <1>2 DEF ViewSuspendedIsLeftAlone, Targeted
<1>5. CASE ~ NotifyRecoveryFinished(p, i)
  <2>1. /\ threads[p][i].step <= RunStep /\ UNCHANGED << call, master >>
    BY <1>1, <1>5, ThreadFields, ReplayStepType
       DEF SendSrecovery, CopyFile, SendReplay, SetRunning, ThreadAt
  <2>2. Active(p) = {i} /\ LockFree(p)
    BY <1>1, <2>1 DEF RecoveryByPrimary, RecoveringIsIdle, Active
  <2>3. Advance(p, i)
    BY <1>2, <1>5, SendReplayEffect DEF SendSrecovery, CopyFile, SetRunning
  <2>4. /\ \A q \in Nodes : q # p => threads'[q] = threads[q]
        /\ DOMAIN threads'[p] = DOMAIN threads[p]
        /\ \A j \in DOMAIN threads[p] :
               threads'[p][j].target = threads[p][j].target
    BY <1>1, <2>1, <2>3, AdvanceEffect DEF Advance
  <2>5. \A m \in Nodes : /\ DOMAIN threads'[m] = DOMAIN threads[m]
                         /\ Targeted(m)' <=> Targeted(m)
    BY <2>4 DEF Targeted
  <2>6. \A m \in Nodes : ~LockFree(m)' => m = p
    BY <1>1, <1>3, <2>1 DEF OnlyPrimaryExecutes, LockFree
  <2>7. \A m \in Nodes \ {n, p} : status'[m] = status[m] /\ status[m] # "RECOVERING"
    <3>1. \A m \in Nodes \ {n, p} : status[m] # "RECOVERING"
      BY <1>1, <1>2, <1>3, <2>2 DEF RecoveringTakesPart
    <3>2. \A m \in Nodes \ {n, p} : status'[m] = status[m]
      BY <1>1, <1>2, <1>5, SendReplayEffect
         DEF SendSrecovery, CopyFile, SetRunning, TypeOK
    <3> QED
      BY <3>1, <3>2
  <2>8. RecoveringTakesPart'
    <3>1. CASE threads[p][i].step # RunStep
      <4>1. Active(p)' = {i} /\ threads'[p][i].target = n
        BY <1>1, <1>2, <2>1, <2>2, <2>3, <2>4, <3>1, ActiveAdvances
      <4> QED
        BY <2>7, <4>1 DEF RecoveringTakesPart
    <3>2. CASE threads[p][i].step = RunStep
      <4>1. SetRunning(p, i)
        BY <1>5, <3>2, ReplayStepType
           DEF SendSrecovery, CopyFile, SendReplay, ThreadAt
      <4>2. status[n] # "RECOVERING"
        BY <1>1, <1>2, <2>2, <3>2 DEF CopiedSoFar, Copied
      <4>3. status'[p] = "RUNNING" /\ status'[n] # "RECOVERING"
        BY <1>1, <1>3, <4>1, <4>2 DEF SetRunning, TypeOK
      <4> QED
        BY <2>7, <4>3 DEF RecoveringTakesPart
    <3> QED
      BY <3>1, <3>2
  <2>9. ViewSuspendedIsLeftAlone' /\ ViewRecoveringTakesPart'
    BY <1>1, <1>4, <2>1, <2>5, <2>7
       DEF ViewSuspendedIsLeftAlone, ViewRecoveringTakesPart
  <2>10. OnlyPrimaryExecutes'
    BY <2>1, <2>2, <2>6 DEF OnlyPrimaryExecutes, LockFree
  <2>11. late' = late
    BY <1>2, <1>5, SendReplayEffect DEF SendSrecovery, CopyFile, SetRunning
  <2> QED
    BY <1>1, <2>1, <2>8, <2>9, <2>10, <2>11
       DEF MasterInv, PrimaryIsViewed, SomeRunningNodeIsPrimary, NobodyIsLate
<1>6. CASE NotifyRecoveryFinished(p, i)
  <2>1. /\ threads[p][i].step = NotifyStep
        /\ threads' = [threads EXCEPT ![p] = RemoveAt(@, i)]
        /\ UNCHANGED << status, call, late, primary, known >>
        /\ \A m \in Nodes : m # n => view'[m] = view[m]
        /\ masterUp' => view'[n] # "RECOVERING" /\ masterUp
        /\ view'[n] # "SUSPENDED"
        /\ view'[n] \in {view[n], "RUNNING"}
    BY <1>1, <1>2, <1>4, <1>6 DEF NotifyRecoveryFinished, ThreadAt, TypeOK
  <2>2. OthersStay(p, i)
    BY <1>1, <2>1, ThreadEnds
  <2>3. /\ \A q \in Nodes : q # p => threads'[q] = threads[q]
        /\ \A j \in DOMAIN threads'[p] :
               /\ Was(i, j) \in DOMAIN threads[p]
               /\ threads'[p][j] = threads[p][Was(i, j)]
        /\ \A k \in DOMAIN threads[p] : k # i =>
               \E j \in DOMAIN threads'[p] :
                   Was(i, j) = k /\ threads'[p][j] = threads[p][k]
    BY <2>2 DEF OthersStay
  <2>4. i \notin Active(p)
    <3>1. ~ (NotifyStep <= RunStep)
      BY ReplayStepType
    <3> QED
      BY <2>1, <3>1 DEF Active
  <2>5. \A m \in Nodes : Targeted(m)' => Targeted(m)
    BY <2>3 DEF Targeted
  <2>6. \A m \in Nodes : m # n /\ Targeted(m) => Targeted(m)'
    BY <1>2, <2>3 DEF Targeted
  <2>7. RecoveringTakesPart'
    <3>1. \A k \in Active(p) :
              \E j \in Active(p)' : threads'[p][j].target = threads[p][k].target
      BY <2>3, <2>4 DEF Active
    <3>2. \A q \in Nodes : q # p => Active(q)' = Active(q)
      BY <2>3 DEF Active
    <3> QED
      BY <1>1, <1>3, <2>1, <3>1, <3>2 DEF RecoveringTakesPart
  <2>8. ViewRecoveringTakesPart'
    BY <1>1, <2>1, <2>6 DEF ViewRecoveringTakesPart
  <2>9. ViewSuspendedIsLeftAlone'
    BY <1>1, <1>4, <2>1, <2>3, <2>5 DEF ViewSuspendedIsLeftAlone
  <2>10. PrimaryIsViewed' /\ SomeRunningNodeIsPrimary'
    BY <1>1, <1>3, <2>1 DEF PrimaryIsViewed, SomeRunningNodeIsPrimary
  <2>11. OnlyPrimaryExecutes'
    BY <1>1, <2>1 DEF OnlyPrimaryExecutes, LockFree
  <2> QED
    BY <1>1, <2>1, <2>7, <2>8, <2>9, <2>10, <2>11
       DEF MasterInv, NobodyIsLate
<1> QED
  BY <1>5, <1>6

LEMMA RequestRecoveryKeepsMaster ==
  ASSUME RecoveryInv, RecoveryInv', MasterInv, NEW n \in Nodes,
         primary \in Nodes, n # primary, RequestRecovery(n),
         UNCHANGED << call, late, known >>
  PROVE  MasterInv'
<1>1. /\ TypeOK /\ RecoveryByPrimary
      /\ NobodyIsLate /\ PrimaryIsViewed /\ RecoveringTakesPart
      /\ ViewRecoveringTakesPart /\ ViewSuspendedIsLeftAlone
      /\ SomeRunningNodeIsPrimary /\ OnlyPrimaryExecutes
  BY DEF RecoveryInv, MasterInv
<1>2. PICK p \in Nodes : p = primary
  OBVIOUS
<1>3. /\ LockFree(p) /\ primary' = p /\ masterUp' = masterUp
      /\ \A q \in Nodes : q # p => DOMAIN threads[q] = {} /\ Active(q) = {}
  BY <1>1, <1>2, RequestRecoveryCases, OnlyPrimaryRecovers
<1>4. CASE UNCHANGED << status, threads, view >>
  BY <1>1, <1>2, <1>3, <1>4
     DEF MasterInv, PrimaryIsViewed, RecoveringTakesPart, Active, Targeted,
         ViewRecoveringTakesPart, ViewSuspendedIsLeftAlone,
         SomeRunningNodeIsPrimary, OnlyPrimaryExecutes, NobodyIsLate, LockFree
<1>5. CASE /\ status[p] = "RUNNING"
           /\ status' = [status EXCEPT ![p] = "RECOVERING"]
           /\ threads' = [threads EXCEPT
                            ![p] = Append(@, [target |-> n, step |-> 0])]
           /\ view' = [view EXCEPT ![n] = "RECOVERING"]
  <2>1. PICK new : new = Len(threads[p]) + 1
    OBVIOUS
  <2>2. /\ \A q \in Nodes : q # p => threads'[q] = threads[q]
        /\ DOMAIN threads'[p] = DOMAIN threads[p] \cup {new}
        /\ \A j \in DOMAIN threads[p] : threads'[p][j] = threads[p][j]
        /\ threads'[p][new].target = n /\ threads'[p][new].step = 0
    <3>1. threads'[p][new] = [target |-> n, step |-> 0]
      BY <1>1, <1>5, <2>1, RecoveryStarts
    <3>2. /\ \A q \in Nodes : q # p => threads'[q] = threads[q]
          /\ DOMAIN threads'[p] = DOMAIN threads[p] \cup {new}
          /\ \A j \in DOMAIN threads[p] : threads'[p][j] = threads[p][j]
      BY <1>1, <1>5, <2>1, RecoveryStarts
    <3> QED
      BY <3>1, <3>2
  <2>3. /\ status'[p] = "RECOVERING" /\ view'[n] = "RECOVERING"
        /\ \A q \in Nodes : q # p => status'[q] = status[q]
        /\ \A q \in Nodes : q # n => view'[q] = view[q]
    BY <1>1, <1>5 DEF TypeOK
  <2>4. \A m \in Nodes : Targeted(m)' <=> Targeted(m) \/ m = n
    BY <2>2 DEF Targeted
  <2>5. new \in Active(p)'
    BY <2>2, ReplayStepType DEF Active
  <2>6. RecoveringTakesPart'
    <3>1. Active(p) = {}
      BY <1>1, <1>5 DEF RecoveryByPrimary
    <3>2. \A m \in Nodes : status[m] # "RECOVERING"
      BY <1>1, <1>3, <3>1 DEF RecoveringTakesPart
    <3> QED
      BY <2>3, <2>5, <3>2 DEF RecoveringTakesPart
  <2>7. ViewRecoveringTakesPart'
    BY <1>1, <1>2, <1>3, <2>3, <2>4 DEF ViewRecoveringTakesPart
  <2>8. ViewSuspendedIsLeftAlone'
    <3>1. view[p] # "SUSPENDED"
      BY <1>1, <1>5 DEF ViewSuspendedIsLeftAlone
    <3> QED
      BY <1>1, <1>2, <2>2, <2>3, <2>4, <3>1 DEF ViewSuspendedIsLeftAlone
  <2>9. OnlyPrimaryExecutes'
    BY <1>1, <1>2, <1>3 DEF OnlyPrimaryExecutes, LockFree
  <2>10. PrimaryIsViewed' /\ SomeRunningNodeIsPrimary'
    BY <1>1, <1>2, <1>3, <2>3, OnlyPrimaryRecovers
       DEF PrimaryIsViewed, SomeRunningNodeIsPrimary, NoNode, Nodes
  <2> QED
    BY <1>1, <2>6, <2>7, <2>8, <2>9, <2>10
       DEF MasterInv, NobodyIsLate
<1> QED
  BY <1>1, <1>2, <1>4, <1>5, RequestRecoveryCases

\* The decisions of the master and the failures keep its picture true.
LEMMA MasterKeepsMaster ==
  ASSUME RecoveryInv, RecoveryInv', MasterInv, Undisturbed, NEW n \in Nodes,
         HealthCrashed(n) \/ HealthRunning(n) \/ HealthNotRunning(n)
         \/ Suspend(n) \/ Revive(n) \/ Crash(n) \/ Restart(n)
  PROVE  MasterInv'
<1> USE DEF master
<1>1. /\ TypeOK /\ RecoveryByPrimary /\ CrashedIsEmpty
      /\ NobodyIsLate /\ PrimaryIsViewed /\ RecoveringTakesPart
      /\ ViewRecoveringTakesPart /\ ViewSuspendedIsLeftAlone
      /\ SomeRunningNodeIsPrimary /\ OnlyPrimaryExecutes
  BY DEF RecoveryInv, MasterInv
<1>2. ClientsLearn => known' = known
  BY DEF ClientsLearn, Undisturbed, May
<1>3. ASSUME UNCHANGED << status, call, late, threads, known >>,
             PrimaryIsViewed', ViewRecoveringTakesPart',
             ViewSuspendedIsLeftAlone', SomeRunningNodeIsPrimary',
             primary' = primary \/ \A p \in Nodes : LockFree(p)
      PROVE  MasterInv'
  BY <1>1, <1>3
     DEF MasterInv, RecoveringTakesPart, Active, OnlyPrimaryExecutes,
         NobodyIsLate, LockFree
<1>4. CASE HealthCrashed(n)
  <2>1. /\ masterUp /\ status[n] = "CRASHED" /\ view'[n] = "CRASHED"
        /\ \A m \in Nodes : m # n => view'[m] = view[m]
        /\ UNCHANGED << status, call, late, threads, known, masterUp >>
    BY <1>1, <1>4, <1>2 DEF HealthCrashed, TypeOK
  <2>2. \A m \in Nodes : Targeted(m)' <=> Targeted(m)
    BY <2>1 DEF Targeted
  <2>3. ViewSuspendedIsLeftAlone'
    BY <1>1, <2>1, <2>2 DEF ViewSuspendedIsLeftAlone
  <2>4. CASE primary # n
    BY <1>1, <1>3, <1>4, <2>1, <2>2, <2>3, <2>4
       DEF HealthCrashed, PrimaryIsViewed, ViewRecoveringTakesPart,
           SomeRunningNodeIsPrimary
  <2>5. CASE primary = n
    <3>1. DOMAIN threads[n] = {} /\ \A p \in Nodes : LockFree(p)
      BY <1>1, <2>1, <2>5 DEF CrashedIsEmpty, OnlyPrimaryExecutes
    <3>2. \A m \in Nodes : ~Targeted(m)
      BY <2>5, <3>1, OnlyPrimaryRecovers DEF Targeted
    <3>3. ViewRecoveringTakesPart'
      BY <1>1, <2>1, <2>5, <3>2 DEF ViewRecoveringTakesPart
    <3>4. \/ primary' = NoNode /\ \A m \in Nodes : view'[m] # "RUNNING"
          \/ primary' \in Nodes /\ view'[primary'] = "RUNNING"
      BY <1>4, <2>5 DEF HealthCrashed, NextPrimary
    <3>5. PrimaryIsViewed' /\ SomeRunningNodeIsPrimary'
      BY <3>4 DEF PrimaryIsViewed, SomeRunningNodeIsPrimary, NoNode, Nodes
    <3> QED
      BY <1>3, <2>1, <2>3, <3>1, <3>3, <3>5
  <2> QED
    BY <2>4, <2>5
<1>5. CASE HealthRunning(n)
  <2>1. masterUp /\ status[n] = "RUNNING" /\ UNCHANGED << call, late, known >>
    BY <1>5, <1>2 DEF HealthRunning
  <2>2. CASE primary = NoNode
    <3>1. /\ \A m \in Nodes : ~Targeted(m) /\ m # primary
          /\ \A p \in Nodes : LockFree(p)
      BY <1>1, <2>2, OnlyPrimaryRecovers DEF OnlyPrimaryExecutes
    <3>2. \A m \in Nodes : view[m] # "RECOVERING" /\ view[m] # "RUNNING"
      BY <1>1, <2>1, <2>2, <3>1
         DEF ViewRecoveringTakesPart, SomeRunningNodeIsPrimary
    <3>3. view[n] = "CRASHED"
      BY <1>1, <2>1, <3>2
         DEF ViewSuspendedIsLeftAlone, TypeOK, NodeStatus
    <3>4. /\ view'[n] = "RUNNING" /\ primary' = n
          /\ \A m \in Nodes : m # n => view'[m] = view[m]
          /\ UNCHANGED << status, threads >>
      BY <1>1, <1>5, <2>2, <3>1, <3>3 DEF HealthRunning, TypeOK
    <3>5. \A m \in Nodes : Targeted(m)' <=> Targeted(m)
      BY <3>4 DEF Targeted
    <3>6. ViewSuspendedIsLeftAlone' /\ ViewRecoveringTakesPart'
      BY <1>1, <3>2, <3>4, <3>5
         DEF ViewSuspendedIsLeftAlone, ViewRecoveringTakesPart
    <3>7. PrimaryIsViewed' /\ SomeRunningNodeIsPrimary'
      BY <3>4 DEF PrimaryIsViewed, SomeRunningNodeIsPrimary, NoNode, Nodes
    <3> QED
      BY <1>3, <2>1, <3>1, <3>4, <3>6, <3>7
  <2>3. CASE primary # NoNode /\ view[n] # "CRASHED"
    <3>1. /\ view'[n] = "RUNNING"
          /\ \A m \in Nodes : m # n => view'[m] = view[m]
          /\ UNCHANGED << primary, status, threads, masterUp >>
      BY <1>1, <1>5, <2>3 DEF HealthRunning, TypeOK
    <3>2. \A m \in Nodes : Targeted(m)' <=> Targeted(m)
      BY <3>1 DEF Targeted
    <3>3. ViewSuspendedIsLeftAlone' /\ ViewRecoveringTakesPart'
      BY <1>1, <3>1, <3>2 DEF ViewSuspendedIsLeftAlone, ViewRecoveringTakesPart
    <3>4. PrimaryIsViewed' /\ SomeRunningNodeIsPrimary'
      BY <1>1, <2>3, <3>1
         DEF PrimaryIsViewed, SomeRunningNodeIsPrimary, TypeOK
    <3> QED
      BY <1>3, <2>1, <3>1, <3>3, <3>4
  <2>4. CASE primary # NoNode /\ view[n] = "CRASHED"
    <3>1. primary # n /\ primary \in Nodes
      BY <1>1, <2>4 DEF PrimaryIsViewed, TypeOK
    <3>2. RequestRecovery(n)
      BY <1>5, <2>4, <3>1 DEF HealthRunning
    <3> QED
      BY <2>1, <3>1, <3>2, RequestRecoveryKeepsMaster
  <2> QED
    BY <2>2, <2>3, <2>4
<1>6. CASE HealthNotRunning(n)
  <2>1. /\ status[n] \in {"SUSPENDED", "RECOVERING"}
        /\ UNCHANGED << status, call, late, threads, known, primary >>
    BY <1>6 DEF HealthNotRunning, Abort
  <2>2. \A m \in Nodes : Targeted(m)' <=> Targeted(m)
    BY <2>1 DEF Targeted
  <2>3. CASE view' = view /\ (masterUp' => masterUp)
    BY <1>1, <1>3, <2>1, <2>2, <2>3
       DEF PrimaryIsViewed, ViewRecoveringTakesPart, ViewSuspendedIsLeftAlone,
           SomeRunningNodeIsPrimary
  <2>4. CASE /\ status[n] = "RECOVERING" /\ masterUp' = masterUp
             /\ view' = [view EXCEPT ![n] = "RECOVERING"]
    <3>1. /\ view'[n] = "RECOVERING"
          /\ \A m \in Nodes : m # n => view'[m] = view[m]
      BY <1>1, <2>4 DEF TypeOK
    <3>2. n = primary \/ Targeted(n)
      BY <1>1, <2>4, OnlyPrimaryRecovers DEF RecoveringTakesPart, Targeted
    <3>3. ViewSuspendedIsLeftAlone' /\ ViewRecoveringTakesPart'
      BY <1>1, <2>1, <2>2, <2>4, <3>1, <3>2
         DEF ViewSuspendedIsLeftAlone, ViewRecoveringTakesPart
    <3>4. PrimaryIsViewed' /\ SomeRunningNodeIsPrimary'
      BY <1>1, <2>1, <2>4, <3>1 DEF PrimaryIsViewed, SomeRunningNodeIsPrimary
    <3> QED
      BY <1>3, <2>1, <3>3, <3>4
  <2> QED
    BY <1>6, <2>3, <2>4 DEF HealthNotRunning, Abort
<1>7. CASE Suspend(n)
  <2>1. /\ masterUp /\ status[n] = "RUNNING" /\ ~InRecovery(n) /\ LockFree(n)
        /\ UNCHANGED << call, late, threads, known, masterUp >>
    BY <1>7, <1>2 DEF Suspend, Undisturbed, May
  <2>2. /\ status'[n] = "SUSPENDED" /\ view'[n] = "SUSPENDED"
        /\ \A m \in Nodes : m # n => status'[m] = status[m] /\ view'[m] = view[m]
    BY <1>1, <1>7, <2>1 DEF Suspend, TypeOK
  <2>3. \A m \in Nodes : /\ Targeted(m)' <=> Targeted(m)
                         /\ Active(m)' = Active(m)
    BY <2>1 DEF Targeted, Active
  <2>4. DOMAIN threads[n] = {} /\ ~Targeted(n)
    BY <2>1 DEF InRecovery, Targeted
  <2>5. RecoveringTakesPart'
    BY <1>1, <2>1, <2>2, <2>3 DEF RecoveringTakesPart
  <2>6. ViewSuspendedIsLeftAlone'
    BY <1>1, <2>1, <2>2, <2>3, <2>4 DEF ViewSuspendedIsLeftAlone
  <2>7. CASE primary # n
    <3>1. primary' = primary
      BY <1>7, <2>7 DEF Suspend
    <3>2. /\ PrimaryIsViewed' /\ ViewRecoveringTakesPart'
          /\ SomeRunningNodeIsPrimary'
      BY <1>1, <2>1, <2>2, <2>3, <2>7, <3>1
         DEF PrimaryIsViewed, ViewRecoveringTakesPart, SomeRunningNodeIsPrimary,
             TypeOK
    <3>3. OnlyPrimaryExecutes'
      BY <1>1, <2>1, <2>2, <3>1 DEF OnlyPrimaryExecutes, LockFree
    <3> QED
      BY <1>1, <2>1, <2>5, <2>6, <3>2, <3>3 DEF MasterInv, NobodyIsLate
  <2>8. CASE primary = n
    <3>1. \A m \in Nodes : ~Targeted(m)
      BY <2>4, <2>8, OnlyPrimaryRecovers DEF Targeted
    <3>2. \A m \in Nodes : LockFree(m)
      BY <1>1, <2>1, <2>8 DEF OnlyPrimaryExecutes
    <3>3. \A m \in Nodes : view'[m] # "RECOVERING"
      BY <1>1, <2>1, <2>2, <2>8, <3>1 DEF ViewRecoveringTakesPart
    <3>4. primary' \in Nodes /\ view'[primary'] \in {"RUNNING", "SUSPENDED"}
      BY <1>7, <2>2, <2>8 DEF Suspend, NextPrimary
    <3>5. /\ ViewRecoveringTakesPart' /\ PrimaryIsViewed'
          /\ SomeRunningNodeIsPrimary'
      BY <3>3, <3>4
         DEF ViewRecoveringTakesPart, PrimaryIsViewed,
             SomeRunningNodeIsPrimary, NoNode, Nodes
    <3>6. OnlyPrimaryExecutes'
      BY <2>1, <3>2 DEF OnlyPrimaryExecutes, LockFree
    <3> QED
      BY <1>1, <2>1, <2>5, <2>6, <3>5, <3>6 DEF MasterInv, NobodyIsLate
  <2> QED
    BY <2>7, <2>8
<1>8. CASE Revive(n)
  <2>1. n # primary /\ primary \in Nodes
    BY <1>1, <1>8 DEF Revive, TypeOK
  <2> QED
    BY <1>8, <2>1, RequestRecoveryKeepsMaster DEF Revive
<1>9. CASE Crash(n)
  <2>1. /\ LockFree(n) /\ threads[n] = << >> /\ UNCHANGED master
        /\ call' = [call EXCEPT ![n] = NoCall] /\ Stop(n, late)
    BY <1>9 DEF Crash, InFlight, Undisturbed, May, Idle
  <2>2. /\ DOMAIN threads[n] = {} /\ DOMAIN threads'[n] = {}
        /\ \A q \in Nodes : q # n => threads'[q] = threads[q]
    BY <1>1, <2>1 DEF Stop, TypeOK
  <2>3. SameThreads
    BY <2>2 DEF SameThreads
  <2>4. \A m \in Nodes : status'[m] \in {status[m], "CRASHED"}
    BY <1>1, <2>1 DEF Stop, TypeOK
  <2>5. \A q \in Nodes : ~LockFree(q)' => ~LockFree(q)
    BY <1>1, <2>1 DEF LockFree, TypeOK
  <2>6. late' \subseteq late
    BY <2>1 DEF Stop
  <2> QED
    BY <2>1, <2>3, <2>4, <2>5, <2>6, MasterStays
<1>10. CASE Restart(n)
  <2>1. /\ view[n] = "CRASHED" /\ status[n] = "CRASHED"
        /\ UNCHANGED << call, late, threads, view, primary, known, masterUp >>
    BY <1>10 DEF Restart, Undisturbed, May
  <2>2. status'[n] = "RUNNING" /\ \A m \in Nodes : m # n => status'[m] = status[m]
    BY <1>1, <1>10 DEF Restart, TypeOK
  <2>3. \A m \in Nodes : /\ Targeted(m)' <=> Targeted(m)
                         /\ Active(m)' = Active(m)
    BY <2>1 DEF Targeted, Active
  <2>4. RecoveringTakesPart' /\ ViewSuspendedIsLeftAlone'
    BY <1>1, <2>1, <2>2, <2>3 DEF RecoveringTakesPart, ViewSuspendedIsLeftAlone
  <2>5. OnlyPrimaryExecutes'
    BY <1>1, <2>1, <2>2 DEF OnlyPrimaryExecutes, LockFree
  <2> QED
    BY <1>1, <2>1, <2>3, <2>4, <2>5
       DEF MasterInv, PrimaryIsViewed, ViewRecoveringTakesPart,
           SomeRunningNodeIsPrimary, NobodyIsLate
<1> QED
  BY <1>4, <1>5, <1>6, <1>7, <1>8, <1>9, <1>10

\* The picture of the master is inductive.
LEMMA NextMaster ==
  ASSUME RecoveryInv, MasterInv, Undisturbed, [Next]_vars
  PROVE  RecoveryInv' /\ MasterInv'
<1>1. NoSuspendInRecovery
  BY DEF Undisturbed, NoSuspendInRecovery
<1>2. RecoveryInv'
  BY <1>1, NextRecovery
<1>3. CASE UNCHANGED vars
  <2>1. UNCHANGED << status, call, late, threads, master >> /\ SameThreads
    BY <1>3 DEF vars, master, SameThreads
  <2> QED
    BY <1>2, <2>1, MasterStays DEF LockFree
<1>4. \A x \in late : FALSE
  BY DEF MasterInv, NobodyIsLate
<1> QED
  BY <1>2, <1>3, <1>4, RequestKeepsMaster, ThreadKeepsMaster, MasterKeepsMaster
     DEF Next

LEMMA InitMaster == Init => MasterInv
BY DEF Init, MasterInv, PrimaryIsViewed, RecoveringTakesPart,
       ViewRecoveringTakesPart, ViewSuspendedIsLeftAlone,
       SomeRunningNodeIsPrimary, OnlyPrimaryExecutes, NobodyIsLate, LockFree

-----------------------------------------------------------------------------
(* The nodes in service of an undisturbed cluster share one store.          *)

\* A node in service: it is RUNNING for the master too and no recovery of it
\* is about to start, or it is the primary in a recovery of another.
InSync(n) ==
    \/ status[n] = "RUNNING" /\ view[n] # "CRASHED" /\ ~AwaitsRecovery(n)
    \/ Active(n) # {}

\* A get that goes to the peers finds its tablet in nobody's memory.
CallsInOrder ==
    \A p \in Nodes : ~LockFree(p) =>
        LET r == call[p].request
            todo == call[p].todo
        IN  /\ Distinct(todo)
            /\ r.op = "get" /\ Head(todo) # p =>
                   TabletOf[r.cell] \notin Resident(store[p])

InSyncAgree ==
    (\A p \in Nodes : LockFree(p)) =>
        \A m, n \in Nodes : InSync(m) /\ InSync(n) => store[m] = store[n]

\* During a request the nodes that still have to run it hold what the primary
\* holds, and the others what it will hold.
InSyncFollow ==
    \A p \in Nodes : ~LockFree(p) =>
        \A n \in Nodes : InSync(n) =>
            store[n] = IF n \in Elements(call[p].todo) THEN store[p]
                       ELSE Apply(call[p].request, store[p])

LockstepInv == RecoveryInv /\ MasterInv /\ CallsInOrder /\ InSyncAgree
               /\ InSyncFollow

\* Nobody is in a recovery while the primary is RUNNING and serves requests.
LEMMA RunningPrimary ==
  ASSUME RecoveryInv, MasterInv, NEW p \in Nodes, p = primary,
         status[p] = "RUNNING"
  PROVE  /\ \A n \in Nodes : Active(n) = {} /\ ~AwaitsRecovery(n)
         /\ \A n \in Nodes :
                InSync(n) <=> status[n] = "RUNNING" /\ view[n] # "CRASHED"
         /\ InSync(p)
<1>1. Active(p) = {}
  BY DEF RecoveryInv, RecoveryByPrimary
<1>2. \A n \in Nodes : Active(n) = {}
  BY <1>1, OnlyPrimaryRecovers
<1>3. \A n \in Nodes : ~AwaitsRecovery(n)
  <2>1. ASSUME NEW n \in Nodes, NEW q \in Nodes, NEW i \in DOMAIN threads[q],
               threads[q][i] = [target |-> n, step |-> 0]
        PROVE  FALSE
    <3>1. threads[q][i].step = 0
      BY <2>1
    <3>2. i \in Active(q)
      BY <3>1, ReplayStepType DEF Active
    <3> QED
      BY <1>2, <3>2
  <2> QED
    BY <2>1 DEF AwaitsRecovery
<1>4. view[p] # "CRASHED"
  BY DEF MasterInv, PrimaryIsViewed, NoNode, Nodes
<1> QED
  BY <1>2, <1>3, <1>4 DEF InSync

\* When nobody comes into service and no node in service changes, neither the
\* agreement nor a request in flight is disturbed.
LEMMA NobodyJoins ==
  ASSUME LockstepInv, RecoveryInv', MasterInv', call' = call,
         \A m \in Nodes : InSync(m)' => InSync(m) /\ store'[m] = store[m],
         \A p \in Nodes : ~LockFree(p) => store'[p] = store[p]
  PROVE  LockstepInv'
<1>1. \A p \in Nodes : LockFree(p)' <=> LockFree(p)
  BY DEF LockFree
<1>2. InSyncAgree'
  BY <1>1 DEF LockstepInv, InSyncAgree
<1>3. CallsInOrder' /\ InSyncFollow'
  BY <1>1 DEF LockstepInv, CallsInOrder, InSyncFollow
<1> QED
  BY <1>2, <1>3 DEF LockstepInv

\* A request that is done with its first node: the node runs it, or it is out
\* of service.
LEMMA NextNodeFollows ==
  ASSUME LockstepInv, RecoveryInv', MasterInv', NEW p \in Nodes, ~LockFree(p),
         NEW n \in Nodes, n = Head(call[p].todo), n # p, NextNode(p),
         \A m \in Nodes \ {n} : (InSync(m)' => InSync(m)) /\ store'[m] = store[m],
         InSync(n)' => store'[n] = Apply(call[p].request, store[p])
  PROVE  LockstepInv'
<1>1. /\ TypeOK /\ CallsShape /\ CallsInOrder /\ InSyncFollow
      /\ OnlyPrimaryExecutes
  BY DEF LockstepInv, RecoveryInv, MasterInv
<1>2. /\ \A q \in Nodes : q # p => LockFree(q)
      /\ call[p].todo \in Seq(Nodes) /\ call[p].todo # << >>
      /\ Distinct(call[p].todo)
  BY <1>1, CallFields DEF OnlyPrimaryExecutes, CallsShape, CallsInOrder
<1>3. /\ call'[p].request = call[p].request
      /\ call'[p].todo = Tail(call[p].todo)
      /\ ~LockFree(p)' /\ \A q \in Nodes : q # p => LockFree(q)'
  BY <1>1, <1>2, NextNodeCall DEF LockFree
<1>4. /\ Distinct(call'[p].todo)
      /\ Elements(call'[p].todo) = Elements(call[p].todo) \ {n}
  BY <1>2, <1>3, PopFront
<1>5. CallsInOrder'
  BY <1>1, <1>3, <1>4 DEF CallsInOrder
<1>6. InSyncAgree'
  BY <1>3 DEF InSyncAgree
<1>7. InSyncFollow'
  <2>1. store'[p] = store[p]
    OBVIOUS
  <2>2. ASSUME NEW m \in Nodes, InSync(m)'
        PROVE  store'[m] = IF m \in Elements(call'[p].todo) THEN store'[p]
                           ELSE Apply(call'[p].request, store'[p])
    <3>1. CASE m = n
      BY <1>3, <1>4, <2>1, <2>2, <3>1
    <3>2. CASE m # n
      BY <1>1, <1>3, <1>4, <2>1, <2>2, <3>2 DEF InSyncFollow
    <3> QED
      BY <3>1, <3>2
  <2> QED
    BY <1>3, <2>2 DEF InSyncFollow
<1> QED
  BY <1>5, <1>6, <1>7 DEF LockstepInv

\* Requests keep the nodes in service in lock step.
LEMMA RequestKeepsLockstep ==
  ASSUME LockstepInv, RecoveryInv', MasterInv', NEW p \in Nodes,
         (\E r \in Requests : Begin(p, r)) \/ CheckPeer(p) \/ ExecutePeer(p)
         \/ ExecuteLocal(p)
  PROVE  LockstepInv'
<1> USE DEF master
<1>1. /\ RecoveryInv /\ MasterInv /\ TypeOK /\ CallsShape /\ CallsInOrder
      /\ InSyncAgree /\ InSyncFollow /\ OnlyPrimaryExecutes
  BY DEF LockstepInv, RecoveryInv, MasterInv
<1>2. p = primary /\ status[p] = "RUNNING"
  BY <1>1 DEF Begin, ClientFinds, CheckPeer, ExecutePeer, ExecuteLocal,
              MasterInv, NobodyIsLate, OnlyPrimaryExecutes
<1>3. /\ InSync(p) /\ \A n \in Nodes : Active(n) = {}
      /\ \A n \in Nodes : InSync(n) <=> status[n] = "RUNNING" /\ view[n] # "CRASHED"
  BY <1>1, <1>2, RunningPrimary
<1>4. \A q \in Nodes : q # p => LockFree(q)
  BY <1>1, <1>2 DEF OnlyPrimaryExecutes
<1>5. ASSUME UNCHANGED << status, threads, view >>
      PROVE  \A n \in Nodes : InSync(n)' <=> InSync(n)
  BY <1>5 DEF InSync, Active, AwaitsRecovery
<1>6. ASSUME NEW r \in Requests, Begin(p, r)
      PROVE  LockstepInv'
  <2> DEFINE new == [request |-> r, todo |-> Audience(p, r), checked |-> FALSE]
  <2>1. /\ new.request = r /\ new.todo = Audience(p, r) /\ new # NoCall
    <3>1. Audience(p, r) # << >>
      BY <1>1, AudienceShape
    <3>2. new.todo # NoCall.todo
      BY <3>1 DEF NoCall
    <3> QED
      BY <3>2
  <2>2. PICK todo : todo = Audience(p, r)
    OBVIOUS
  <2>3. /\ Distinct(todo)
        /\ \/ todo = << p >> /\ r.op = "get"
              /\ TabletOf[r.cell] \in Resident(store[p])
           \/ /\ Elements(todo) = Nodes
              /\ r.op = "get" => TabletOf[r.cell] \notin Resident(store[p])
    BY <1>1, <2>2, AudienceShape
  <2>4. /\ LockFree(p) /\ UNCHANGED << status, store, threads, view >>
        /\ call' = [call EXCEPT ![p] = new]
    BY <1>6 DEF Begin
  <2> HIDE DEF new
  <2>5. /\ call'[p].request = r /\ call'[p].todo = todo
        /\ ~LockFree(p)' /\ \A q \in Nodes : q # p => LockFree(q)'
    BY <1>1, <1>4, <2>1, <2>2, <2>4 DEF LockFree, TypeOK
  <2>6. CallsInOrder'
    BY <2>3, <2>4, <2>5 DEF CallsInOrder
  <2>7. InSyncAgree'
    BY <2>5 DEF InSyncAgree
  <2>8. ASSUME NEW n \in Nodes, InSync(n)
        PROVE  store[n] = IF n \in Elements(todo) THEN store[p]
                          ELSE Apply(r, store[p])
    <3>1. store[n] = store[p]
      BY <1>1, <1>3, <1>4, <2>4, <2>8 DEF InSyncAgree
    <3>2. Elements(todo) # Nodes => Apply(r, store[p]) = store[p]
      BY <2>3 DEF Apply, LocalGet, WithTablet
    <3> QED
      BY <3>1, <3>2
  <2>9. InSyncFollow'
    BY <1>5, <2>4, <2>5, <2>8 DEF InSyncFollow
  <2> QED
    BY <2>6, <2>7, <2>9 DEF LockstepInv
<1>7. CASE CheckPeer(p)
  <2>1. ~LockFree(p) /\ UNCHANGED << status, store, threads, view >>
    BY <1>7 DEF CheckPeer
  <2>2. PICK n \in Nodes : n = Head(call[p].todo)
    BY <1>1, <2>1, CallFields DEF CallsShape
  <2>3. CASE status[n] # "RUNNING"
    <3>1. n # p /\ NextNode(p) /\ ~InSync(n)
      BY <1>3, <1>7, <2>2, <2>3 DEF CheckPeer
    <3> QED
      BY <1>5, <2>1, <2>2, <3>1, NextNodeFollows
  <2>4. CASE status[n] = "RUNNING"
    <3>1. call' = [call EXCEPT ![p].checked = TRUE]
      BY <1>7, <2>2, <2>4 DEF CheckPeer
    <3>2. PICK new \in Calls : new = [call[p] EXCEPT !.checked = TRUE]
      BY <1>1, <2>1, CallFields DEF Calls
    <3>3. new.request = call[p].request /\ new.todo = call[p].todo
      BY <1>1, <2>1, <3>2, CallFields DEF Calls
    <3>4. call'[p] = new /\ \A q \in Nodes : q # p => call'[q] = call[q]
      BY <1>1, <3>1, <3>2 DEF TypeOK
    <3>5. \A q \in Nodes : ~LockFree(q)' => ~LockFree(q)
      BY <2>1, <3>4 DEF LockFree
    <3>6. CallsInOrder'
      BY <1>1, <2>1, <3>3, <3>4, <3>5 DEF CallsInOrder
    <3>7. ~LockFree(p)'
      BY <1>1, <2>1, <3>3, <3>4 DEF LockFree, NoCall, CallsShape
    <3>8. InSyncAgree' /\ InSyncFollow'
      BY <1>1, <1>5, <2>1, <3>3, <3>4, <3>5, <3>7 DEF InSyncAgree, InSyncFollow
    <3> QED
      BY <3>6, <3>8 DEF LockstepInv
  <2> QED
    BY <2>3, <2>4
<1>8. CASE ExecutePeer(p)
  <2>1. ~LockFree(p) /\ NextNode(p) /\ UNCHANGED view
    BY <1>8 DEF ExecutePeer
  <2>2. PICK n \in Nodes, r \in Requests :
             n = Head(call[p].todo) /\ r = call[p].request
    BY <1>1, <2>1, CallFields DEF CallsShape
  <2>3. n # p /\ LockFree(n) /\ n \in Elements(call[p].todo)
    <3>1. call[p].todo \in Seq(Nodes) /\ call[p].todo # << >>
          /\ Distinct(call[p].todo)
      BY <1>1, <2>1, CallFields DEF CallsShape, CallsInOrder
    <3> QED
      BY <1>1, <1>8, <2>2, <3>1, PopFront DEF ExecutePeer, Serve, CallsShape
  <2>4. CASE UNCHANGED << status, store, threads >> /\ status[n] # "RUNNING"
    <3>1. ~InSync(n)
      BY <1>3, <2>4
    <3> QED
      BY <1>5, <2>1, <2>2, <2>3, <2>4, <3>1, NextNodeFollows
  <2>5. CASE Stop(n, late)
    <3>1. /\ status'[n] = "CRASHED" /\ DOMAIN threads'[n] = {}
          /\ \A m \in Nodes \ {n} : /\ status'[m] = status[m]
                                    /\ store'[m] = store[m]
                                    /\ threads'[m] = threads[m]
      BY <1>1, <2>5 DEF Stop, TypeOK
    <3>2. \A m \in Nodes : InSync(m)' => m # n
      BY <3>1 DEF InSync, Active
    <3>3. \A m \in Nodes \ {n} : InSync(m)' => InSync(m)
      BY <1>3, <2>1, <3>1 DEF InSync, Active
    <3> QED
      BY <2>1, <2>2, <2>3, <3>1, <3>2, <3>3, NextNodeFollows
  <2>6. CASE store' = [store EXCEPT ![n] = Apply(r, @)]
             /\ UNCHANGED << status, threads >>
    <3>1. /\ store'[n] = Apply(r, store[n])
          /\ \A m \in Nodes \ {n} : store'[m] = store[m]
      BY <1>1, <2>6 DEF TypeOK
    <3>2. InSync(n) => store[n] = store[p]
      BY <1>1, <2>1, <2>3 DEF InSyncFollow
    <3> QED
      BY <1>5, <2>1, <2>2, <2>3, <2>6, <3>1, <3>2, NextNodeFollows
  <2> QED
    BY <1>8, <2>2, <2>4, <2>5, <2>6 DEF ExecutePeer, Serve
<1>9. CASE ExecuteLocal(p)
  <2>1. /\ ~LockFree(p) /\ Head(call[p].todo) = p
        /\ UNCHANGED << status, threads, view >>
        /\ store'[p] = Apply(call[p].request, store[p])
        /\ \A m \in Nodes \ {p} : store'[m] = store[m]
        /\ call'[p] = NoCall /\ \A q \in Nodes : q # p => call'[q] = call[q]
    BY <1>1, <1>9 DEF ExecuteLocal, TypeOK
  <2>2. PICK todo \in Seq(Nodes) : todo = call[p].todo
    BY <1>1, <2>1, CallFields
  <2>3. Distinct(todo) /\ todo # << >> /\ todo[Len(todo)] = p /\ Head(todo) = p
    BY <1>1, <2>1, <2>2 DEF CallsShape, CallsInOrder
  <2>4. \A m \in Nodes : m \in Elements(todo) => m = p
    <3>1. Len(todo) \in Nat /\ Len(todo) # 0 /\ DOMAIN todo = 1 .. Len(todo)
          /\ Head(todo) = todo[1]
      BY <2>3
    <3>2. Len(todo) = 1
      BY <2>3, <3>1 DEF Distinct
    <3> QED
      BY <2>3, <3>1, <3>2 DEF Elements
  <2>5. \A m \in Nodes : InSync(m) => store'[m] = Apply(call[p].request, store[p])
    BY <1>1, <2>1, <2>2, <2>4 DEF InSyncFollow
  <2>6. \A q \in Nodes : LockFree(q)'
    BY <1>4, <2>1 DEF LockFree
  <2>7. CallsInOrder' /\ InSyncFollow'
    BY <2>6 DEF CallsInOrder, InSyncFollow
  <2>8. InSyncAgree'
    BY <1>5, <2>1, <2>5 DEF InSyncAgree
  <2> QED
    BY <2>7, <2>8 DEF LockstepInv
<1> QED
  BY <1>6, <1>7, <1>8, <1>9

\* A recovery takes its target out of service and brings it back as the
\* primary's equal, while nobody executes a request.
LEMMA ThreadKeepsLockstep ==
  ASSUME LockstepInv, RecoveryInv', MasterInv', NEW p \in Nodes,
         NEW i \in DOMAIN threads[p],
         SendSrecovery(p, i) \/ CopyFile(p, i) \/ SendReplay(p, i)
         \/ SetRunning(p, i) \/ NotifyRecoveryFinished(p, i)
  PROVE  LockstepInv'
<1> USE DEF master
<1>1. /\ RecoveryInv /\ MasterInv /\ TypeOK /\ RecoveryByPrimary
      /\ RecoveringIsIdle /\ OnlyPrimaryExecutes /\ InSyncAgree
  BY DEF LockstepInv, RecoveryInv, MasterInv
<1>2. PICK n \in Nodes : n = threads[p][i].target
  BY <1>1, ThreadFields
<1>3. /\ n # p /\ p = primary
      /\ \A q \in Nodes : q # p => DOMAIN threads[q] = {} /\ Active(q) = {}
  BY <1>1, <1>2, OnlyPrimaryRecovers DEF RecoveryByPrimary
<1>4. CASE ~ NotifyRecoveryFinished(p, i)
  <2>1. /\ threads[p][i].step <= RunStep /\ UNCHANGED << call, view >>
    BY <1>1, <1>4, ThreadFields, ReplayStepType
       DEF SendSrecovery, CopyFile, SendReplay, SetRunning, ThreadAt
  <2>2. Active(p) = {i} /\ InSync(p)
    BY <1>1, <2>1 DEF RecoveryByPrimary, Active, InSync
  <2>3. \A q \in Nodes : LockFree(q) /\ LockFree(q)'
    BY <1>1, <1>3, <2>1, <2>2
       DEF RecoveryByPrimary, RecoveringIsIdle, OnlyPrimaryExecutes, LockFree
  <2>4. Advance(p, i)
    BY <1>1, <1>2, <1>4, SendReplayEffect
       DEF SendSrecovery, CopyFile, SetRunning
  <2>5. /\ \A q \in Nodes : q # p => Active(q)' = {}
        /\ Active(p)' = IF threads[p][i].step = RunStep THEN {} ELSE {i}
    BY <1>1, <1>3, <2>1, <2>2, <2>4, ActiveAdvances
  <2>6. \A m \in Nodes : AwaitsRecovery(m) => m = n /\ threads[p][i].step = 0
    <3>1. ASSUME NEW m \in Nodes, NEW q \in Nodes, NEW j \in DOMAIN threads[q],
                 threads[q][j] = [target |-> m, step |-> 0]
          PROVE  m = n /\ threads[p][i].step = 0
      <4>1. threads[q][j].step = 0 /\ threads[q][j].target = m
        BY <3>1
      <4>2. j \in Active(q)
        BY <4>1, ReplayStepType DEF Active
      <4>3. q = p /\ j = i
        BY <1>3, <2>2, <4>2
      <4> QED
        BY <1>2, <4>1, <4>3
    <3> QED
      BY <3>1 DEF AwaitsRecovery
  <2>7. CASE SendSrecovery(p, i)
    <3>1. /\ store' = store
          /\ status'[n] = IF status[n] \in {"RUNNING", "SUSPENDED"}
                          THEN "RECOVERING" ELSE status[n]
          /\ \A m \in Nodes \ {n} : status'[m] = status[m]
      BY <1>1, <1>2, <2>7 DEF SendSrecovery, TypeOK
    <3>2. ~InSync(n)'
      BY <1>3, <2>5, <3>1 DEF InSync
    <3>3. \A m \in Nodes : InSync(m)' => InSync(m)
      BY <1>3, <2>1, <2>2, <2>5, <2>6, <3>1, <3>2 DEF InSync
    <3> QED
      BY <2>1, <2>3, <3>1, <3>3, NobodyJoins
  <2>8. CASE CopyFile(p, i)
    <3>1. /\ threads[p][i].step # 0 /\ status' = status
          /\ \A m \in Nodes \ {n} : store'[m] = store[m]
          /\ status[n] # "RECOVERING" => store'[n] = store[n]
      BY <1>1, <1>2, <2>8 DEF CopyFile, ThreadAt, TypeOK
    <3>2. \A m \in Nodes : InSync(m)' => InSync(m)
      BY <1>3, <2>1, <2>2, <2>6, <2>5, <3>1 DEF InSync
    <3>3. InSync(n)' => status[n] # "RECOVERING"
      BY <1>3, <2>5, <3>1 DEF InSync
    <3> QED
      BY <2>1, <2>3, <3>1, <3>2, <3>3, NobodyJoins
  <2>9. CASE SendReplay(p, i)
    <3>1. /\ threads[p][i].step = ReplayStep /\ ReplayStep # 0
          /\ store'[p] = store[p]
          /\ \A m \in Nodes \ {n} :
                 status'[m] = status[m] /\ store'[m] = store[m]
          /\ \/ status'[n] = status[n] /\ store'[n] = store[n]
             \/ store'[n] = store[p]
      BY <1>1, <1>2, <2>9, SendReplayEffect, ReplayStepType
    <3>2. ASSUME NEW m \in Nodes, InSync(m)' PROVE store'[m] = store[p]
      <4>1. CASE m = p \/ (m = n /\ store'[n] = store[p])
        BY <3>1, <4>1
      <4>2. CASE store'[m] = store[m] /\ status'[m] = status[m]
        <5>1. InSync(m)
          BY <2>1, <2>2, <2>5, <2>6, <3>1, <3>2, <4>2 DEF InSync
        <5> QED
          BY <1>1, <2>2, <2>3, <4>2, <5>1 DEF InSyncAgree
      <4> QED
        BY <3>1, <4>1, <4>2
    <3>3. InSyncAgree'
      BY <3>2 DEF InSyncAgree
    <3>4. CallsInOrder' /\ InSyncFollow'
      BY <2>3 DEF CallsInOrder, InSyncFollow
    <3> QED
      BY <3>3, <3>4 DEF LockstepInv
  <2>10. CASE SetRunning(p, i)
    <3>1. /\ threads[p][i].step = RunStep /\ RunStep # 0 /\ store' = store
          /\ \A m \in Nodes \ {p} : status'[m] = status[m]
      BY <1>1, <2>10, ReplayStepType DEF SetRunning, ThreadAt, TypeOK
    <3>2. \A m \in Nodes : InSync(m)' => InSync(m)
      BY <2>1, <2>2, <2>5, <2>6, <3>1 DEF InSync
    <3> QED
      BY <2>1, <2>3, <3>1, <3>2, NobodyJoins
  <2> QED
    BY <1>4, <2>7, <2>8, <2>9, <2>10
<1>5. CASE NotifyRecoveryFinished(p, i)
  <2>1. /\ threads[p][i].step = NotifyStep
        /\ threads' = [threads EXCEPT ![p] = RemoveAt(@, i)]
        /\ UNCHANGED << status, store, call, primary >>
        /\ \A m \in Nodes : view[m] = "CRASHED" => view'[m] = "CRASHED"
    BY <1>1, <1>2, <1>5 DEF NotifyRecoveryFinished, ThreadAt, TypeOK
  <2>2. OthersStay(p, i)
    BY <1>1, <2>1, ThreadEnds
  <2>3. /\ \A q \in Nodes : q # p => threads'[q] = threads[q]
        /\ \A j \in DOMAIN threads'[p] :
               /\ Was(i, j) \in DOMAIN threads[p]
               /\ threads'[p][j] = threads[p][Was(i, j)]
        /\ \A k \in DOMAIN threads[p] : k # i =>
               \E j \in DOMAIN threads'[p] : threads'[p][j] = threads[p][k]
    BY <2>2 DEF OthersStay
  <2>4. \A m \in Nodes : threads[p][i] # [target |-> m, step |-> 0]
    BY <2>1, ReplayStepType
  <2>5. \A m \in Nodes : AwaitsRecovery(m) => AwaitsRecovery(m)'
    BY <2>3, <2>4 DEF AwaitsRecovery
  <2>6. \A m \in Nodes : Active(m)' # {} => Active(m) # {}
    BY <2>3 DEF Active
  <2>7. \A m \in Nodes : InSync(m)' => InSync(m)
    BY <2>1, <2>5, <2>6 DEF InSync
  <2> QED
    BY <2>1, <2>7, NobodyJoins
<1> QED
  BY <1>4, <1>5

\* The node that the master asks the primary to recover is not in service,
\* and the primary stays in service.
LEMMA RequestRecoveryKeepsLockstep ==
  ASSUME LockstepInv, RecoveryInv', MasterInv', NEW n \in Nodes,
         primary \in Nodes, n # primary, RequestRecovery(n),
         UNCHANGED << store, call >>
  PROVE  LockstepInv'
<1>1. /\ RecoveryInv /\ MasterInv /\ TypeOK
  BY DEF LockstepInv, RecoveryInv
<1>2. PICK p \in Nodes : p = primary
  OBVIOUS
<1>3. CASE UNCHANGED << status, threads, view >>
  BY <1>3, NobodyJoins DEF InSync, Active, AwaitsRecovery
<1>4. CASE /\ status[p] = "RUNNING"
           /\ status' = [status EXCEPT ![p] = "RECOVERING"]
           /\ threads' = [threads EXCEPT
                            ![p] = Append(@, [target |-> n, step |-> 0])]
           /\ view' = [view EXCEPT ![n] = "RECOVERING"]
  <2>1. PICK new : new = Len(threads[p]) + 1
    OBVIOUS
  <2>2. /\ \A q \in Nodes : q # p => threads'[q] = threads[q]
        /\ new \in DOMAIN threads'[p]
        /\ threads'[p][new] = [target |-> n, step |-> 0]
    BY <1>1, <1>4, <2>1, RecoveryStarts
  <2>3. /\ status'[p] = "RECOVERING"
        /\ \A q \in Nodes : q # p => status'[q] = status[q]
        /\ \A q \in Nodes : q # n => view'[q] = view[q]
    BY <1>1, <1>4 DEF TypeOK
  <2>4. AwaitsRecovery(n)'
    BY <2>2 DEF AwaitsRecovery
  <2>5. InSync(p) /\ \A m \in Nodes : ~AwaitsRecovery(m)
    BY <1>1, <1>2, <1>4, RunningPrimary
  <2>6. \A m \in Nodes : m # p => Active(m)' = {}
    <3>1. \A m \in Nodes : m # p => DOMAIN threads'[m] = {}
      BY <1>1, <1>2, <2>2, OnlyPrimaryRecovers
    <3> QED
      BY <3>1 DEF Active
  <2>7. \A m \in Nodes : InSync(m)' => InSync(m)
    BY <2>3, <2>4, <2>5, <2>6 DEF InSync
  <2> QED
    BY <2>7, NobodyJoins
<1> QED
  BY <1>1, <1>2, <1>3, <1>4, RequestRecoveryCases

\* Nobody comes into service by a decision of the master or a failure, but
\* for the first primary, which is then alone.
LEMMA MasterKeepsLockstep ==
  ASSUME LockstepInv, RecoveryInv', MasterInv', Undisturbed, NEW n \in Nodes,
         HealthCrashed(n) \/ HealthRunning(n) \/ HealthNotRunning(n)
         \/ Suspend(n) \/ Revive(n) \/ Crash(n) \/ Restart(n)
  PROVE  LockstepInv'
<1> USE DEF master
<1>1. /\ RecoveryInv /\ MasterInv /\ TypeOK /\ RecoveryByPrimary /\ CrashedIsEmpty
      /\ PrimaryIsViewed /\ ViewRecoveringTakesPart /\ ViewSuspendedIsLeftAlone
      /\ SomeRunningNodeIsPrimary /\ OnlyPrimaryExecutes
  BY DEF LockstepInv, RecoveryInv, MasterInv
<1>2. ASSUME UNCHANGED << status, store, call, threads >>,
             \A m \in Nodes : view[m] = "CRASHED" => view'[m] = "CRASHED"
      PROVE  LockstepInv'
  BY <1>2, NobodyJoins DEF InSync, Active, AwaitsRecovery
<1>3. CASE HealthCrashed(n)
  BY <1>1, <1>2, <1>3 DEF HealthCrashed, TypeOK
<1>4. CASE HealthRunning(n)
  <2>1. masterUp /\ UNCHANGED << store, call >>
    BY <1>4 DEF HealthRunning
  <2>2. CASE view[n] # "CRASHED"
    BY <1>1, <1>2, <1>4, <2>1, <2>2 DEF HealthRunning, TypeOK
  <2>3. CASE view[n] = "CRASHED" /\ primary = NoNode
    <3>1. /\ \A m \in Nodes : ~Targeted(m) /\ m # primary /\ Active(m) = {}
          /\ \A p \in Nodes : LockFree(p)
      BY <1>1, <2>3, OnlyPrimaryRecovers DEF OnlyPrimaryExecutes
    <3>2. /\ \A m \in Nodes : m # n => view'[m] = view[m]
          /\ UNCHANGED << status, threads >>
      BY <1>1, <1>4, <2>3, <3>1 DEF HealthRunning, TypeOK
    <3>3. ASSUME NEW m \in Nodes, m # n PROVE ~InSync(m)'
      <4>1. view[m] \notin {"RECOVERING", "RUNNING"}
        BY <1>1, <2>1, <2>3, <3>1
           DEF ViewRecoveringTakesPart, SomeRunningNodeIsPrimary
      <4>2. view[m] = "CRASHED" \/ status[m] # "RUNNING"
        BY <1>1, <4>1 DEF ViewSuspendedIsLeftAlone, TypeOK, NodeStatus
      <4>3. Active(m)' = {}
        BY <3>1, <3>2 DEF Active
      <4> QED
        BY <3>2, <3>3, <4>2, <4>3 DEF InSync
    <3>4. \A p \in Nodes : LockFree(p)'
      BY <2>1, <3>1 DEF LockFree
    <3>5. InSyncAgree' /\ CallsInOrder' /\ InSyncFollow'
      BY <3>3, <3>4 DEF InSyncAgree, CallsInOrder, InSyncFollow
    <3> QED
      BY <3>5 DEF LockstepInv
  <2>4. CASE view[n] = "CRASHED" /\ primary # NoNode
    <3>1. primary # n /\ primary \in Nodes
      BY <1>1, <2>4 DEF PrimaryIsViewed, TypeOK
    <3>2. RequestRecovery(n)
      BY <1>4, <2>4, <3>1 DEF HealthRunning
    <3> QED
      BY <2>1, <3>1, <3>2, RequestRecoveryKeepsLockstep
  <2> QED
    BY <2>2, <2>3, <2>4
<1>5. CASE HealthNotRunning(n)
  <2>1. /\ UNCHANGED << status, store, call, threads >>
        /\ \/ view' = view
           \/ view[n] = "RUNNING" /\ view' = [view EXCEPT ![n] = "RECOVERING"]
    BY <1>5 DEF HealthNotRunning, Abort
  <2>2. \A m \in Nodes : view[m] = "CRASHED" => view'[m] = "CRASHED"
    BY <1>1, <2>1 DEF TypeOK
  <2> QED
    BY <1>2, <2>1, <2>2
<1>6. CASE Suspend(n)
  <2>1. /\ status[n] = "RUNNING" /\ ~InRecovery(n)
        /\ UNCHANGED << store, call, threads >>
        /\ status'[n] = "SUSPENDED"
        /\ \A m \in Nodes : m # n => status'[m] = status[m] /\ view'[m] = view[m]
    BY <1>1, <1>6 DEF Suspend, Undisturbed, May, TypeOK
  <2>2. Active(n)' = {}
    BY <2>1 DEF InRecovery, Active
  <2>3. \A m \in Nodes : InSync(m)' => InSync(m)
    BY <2>1, <2>2 DEF InSync, Active, AwaitsRecovery
  <2> QED
    BY <2>1, <2>3, NobodyJoins
<1>7. CASE Revive(n)
  <2>1. n # primary /\ primary \in Nodes
    BY <1>1, <1>7 DEF Revive, TypeOK
  <2> QED
    BY <1>7, <2>1, RequestRecoveryKeepsLockstep DEF Revive
<1>8. CASE Crash(n)
  <2>1. /\ LockFree(n) /\ threads[n] = << >> /\ UNCHANGED view
        /\ call' = [call EXCEPT ![n] = NoCall] /\ Stop(n, late)
    BY <1>8 DEF Crash, InFlight, Undisturbed, May, Idle
  <2>2. call' = call
    BY <1>1, <2>1 DEF LockFree, TypeOK
  <2>3. /\ status'[n] = "CRASHED"
        /\ \A m \in Nodes \ {n} : status'[m] = status[m] /\ store'[m] = store[m]
    BY <1>1, <2>1 DEF Stop, TypeOK
  <2>4. /\ DOMAIN threads[n] = {} /\ DOMAIN threads'[n] = {}
        /\ \A q \in Nodes : q # n => threads'[q] = threads[q]
    BY <1>1, <2>1 DEF Stop, TypeOK
  <2>5. \A m \in Nodes : /\ Active(m)' = Active(m)
                         /\ AwaitsRecovery(m)' <=> AwaitsRecovery(m)
    BY <2>4 DEF Active, AwaitsRecovery
  <2>6. \A m \in Nodes : InSync(m)' => m # n /\ InSync(m)
    BY <2>1, <2>3, <2>4, <2>5 DEF InSync, Active
  <2> QED
    BY <2>1, <2>2, <2>3, <2>6, NobodyJoins
<1>9. CASE Restart(n)
  <2>1. /\ view[n] = "CRASHED"
        /\ UNCHANGED << store, call, threads, view >>
        /\ \A m \in Nodes : m # n => status'[m] = status[m]
    BY <1>1, <1>9 DEF Restart, Undisturbed, May, TypeOK
  <2>2. \A m \in Nodes : InSync(m)' => InSync(m)
    BY <2>1 DEF InSync, Active, AwaitsRecovery
  <2> QED
    BY <2>1, <2>2, NobodyJoins
<1> QED
  BY <1>3, <1>4, <1>5, <1>6, <1>7, <1>8, <1>9

\* The agreement of the nodes in service is inductive.
LEMMA NextLockstep ==
  ASSUME LockstepInv, Undisturbed, [Next]_vars
  PROVE  LockstepInv'
<1>1. RecoveryInv' /\ MasterInv'
  BY NextMaster DEF LockstepInv
<1>2. CASE UNCHANGED vars
  <2>1. UNCHANGED << status, store, call, threads, view >>
    BY <1>2 DEF vars
  <2> QED
    BY <1>1, <2>1, NobodyJoins DEF InSync, Active, AwaitsRecovery
<1>3. \A x \in late : FALSE
  BY DEF LockstepInv, MasterInv, NobodyIsLate
<1> QED
  BY <1>1, <1>2, <1>3, RequestKeepsLockstep, ThreadKeepsLockstep,
     MasterKeepsLockstep DEF Next

LEMMA InitLockstep == Init => LockstepInv
<1> SUFFICES ASSUME Init PROVE LockstepInv
  OBVIOUS
<1>1. InSyncAgree /\ CallsInOrder /\ InSyncFollow
  BY DEF Init, InSyncAgree, CallsInOrder, InSyncFollow, LockFree
<1> QED
  BY <1>1, InitRecovery, InitMaster DEF LockstepInv

\* The nodes that the master has as RUNNING share memory, files and tablet
\* order up to the request in flight: the primary's lock, the order of its
\* peers and the copies of a recovery are enough for that, whatever requests
\* come and whatever nodes crash, restart, are suspended and revived.
THEOREM LockstepHolds ==
  ASSUME Undisturbed
  PROVE  Spec => []Lockstep
<1>1. Init => LockstepInv
  BY InitLockstep
<1>2. LockstepInv /\ [Next]_vars => LockstepInv'
  BY NextLockstep
<1>3. LockstepInv => Lockstep
  <2> SUFFICES ASSUME LockstepInv, primary # NoNode,
                      status[primary] = "RUNNING", NEW n \in Nodes,
                      status[n] = "RUNNING", view[n] = "RUNNING"
               PROVE  Settled(n) = Settled(primary)
    BY DEF Lockstep
  <2>1. /\ TypeOK /\ RecoveryInv /\ MasterInv /\ InSyncAgree /\ InSyncFollow
        /\ OnlyPrimaryExecutes
    BY DEF LockstepInv, RecoveryInv, MasterInv
  <2>2. PICK p \in Nodes : p = primary
    BY <2>1 DEF TypeOK
  <2>3. InSync(p) /\ InSync(n)
    BY <2>1, <2>2, RunningPrimary
  <2> DEFINE due(m) == {q \in Nodes : ~LockFree(q)
                              /\ \E i \in DOMAIN call[q].todo :
                                     call[q].todo[i] = m}
             r == call[p].request
  <2>4. \A m \in Nodes : due(m) = IF ~LockFree(p) /\ m \in Elements(call[p].todo)
                                  THEN {p} ELSE {}
    BY <2>1, <2>2 DEF OnlyPrimaryExecutes, Elements
  <2>5. \A m \in Nodes :
            Settled(m) = IF ~LockFree(p) /\ m \in Elements(call[p].todo)
                         THEN Apply(r, store[m]) ELSE store[m]
    <3>1. (CHOOSE q \in {p} : TRUE) = p
      OBVIOUS
    <3>2. \A m \in Nodes :
              Settled(m) = IF due(m) = {} THEN store[m]
                           ELSE Apply(call[CHOOSE q \in due(m) : TRUE].request,
                                      store[m])
      BY DEF Settled
    <3> HIDE DEF due
    <3> QED
      BY <2>4, <3>1, <3>2
  <2>6. CASE LockFree(p)
    <3>1. \A q \in Nodes : LockFree(q)
      BY <2>1, <2>2, <2>6 DEF OnlyPrimaryExecutes
    <3> QED
      BY <2>1, <2>2, <2>3, <2>5, <2>6, <3>1 DEF InSyncAgree
  <2>7. CASE ~LockFree(p)
    <3>1. \A m \in Nodes : InSync(m) =>
              store[m] = IF m \in Elements(call[p].todo) THEN store[p]
                         ELSE Apply(r, store[p])
      BY <2>1, <2>7 DEF InSyncFollow
    <3> QED
      BY <2>2, <2>3, <2>5, <2>7, <3>1
  <2> QED
    BY <2>6, <2>7
<1> QED
  BY <1>1, <1>2, <1>3, PTL DEF Spec

\* The assertion of KVSget holds on every node in service: a peer that is
\* asked for a get has the tablets of the primary in memory, and the primary
\* asks only for a tablet it lacks.
THEOREM SgetIsSafe ==
  ASSUME Undisturbed
  PROVE  Spec => []SgetFindsTabletOnDisk
<1>1. Init => LockstepInv
  BY InitLockstep
<1>2. LockstepInv /\ [Next]_vars => LockstepInv'
  BY NextLockstep
<1>3. LockstepInv => SgetFindsTabletOnDisk
  <2> SUFFICES ASSUME LockstepInv, NEW p \in Nodes, ~LockFree(p),
                      call[p].checked, NEW n, n = Head(call[p].todo),
                      status[n] = "RUNNING", view[n] = "RUNNING"
               PROVE  ~SecondaryAborts(call[p].request, store[n])
    BY DEF SgetFindsTabletOnDisk
  <2>1. /\ TypeOK /\ CallsShape /\ RecoveryInv /\ MasterInv /\ CallsInOrder
        /\ InSyncFollow /\ OnlyPrimaryExecutes
    BY DEF LockstepInv, RecoveryInv, MasterInv
  <2>2. /\ call[p].todo \in Seq(Nodes) /\ call[p].todo # << >>
        /\ Distinct(call[p].todo) /\ n # p
    BY <2>1, CallFields DEF CallsShape, CallsInOrder
  <2>3. n \in Nodes /\ n \in Elements(call[p].todo)
    BY <2>2, PopFront
  <2>4. InSync(n)
    BY <2>1, <2>3, RunningPrimary DEF OnlyPrimaryExecutes
  <2>5. store[n] = store[p]
    BY <2>1, <2>3, <2>4 DEF InSyncFollow
  <2> QED
    BY <2>1, <2>2, <2>5 DEF CallsInOrder, SecondaryAborts
<1> QED
  BY <1>1, <1>2, <1>3, PTL DEF Spec
=============================================================================
