-------------------------- MODULE TabletStoreProofs --------------------------
(* One node's storage engine keeps its invariants and implements KVTable,   *)
(* for any number of tablets, cells and values and any memory limit.        *)
EXTENDS TabletStore, TabletOpsProofs

-----------------------------------------------------------------------------
\* The inductive invariant: the store is sound and KVKeyvalueRequest has
\* copied the tablets it has passed.
IInv == /\ StoreOK(store)
        /\ cursor \in 0 .. NumTablets
        /\ pairs \in Contents
        /\ reply \in [status : {"SUCCESS", "FAILURE"}, message : Messages]
        /\ ScanOK

\* A message is a value, NoValue or a whole table.
LEMMA ReplyTypes ==
    /\ Failure \in [status : {"SUCCESS", "FAILURE"}, message : Messages]
    /\ \A m \in Messages :
           Success(m) \in [status : {"SUCCESS", "FAILURE"},
                           message : Messages]
    /\ NoValue \in Messages /\ Contents \subseteq Messages
    /\ Values \subseteq Messages
BY DEF Failure, Success, Messages

\* A node starts in a state that satisfies the invariant.
LEMMA InitIInv == Init => IInv
<1> SUFFICES ASSUME Init PROVE IInv
  OBVIOUS
<1>1. StoreOK(store) /\ pairs \in Contents
  BY InitStoreOK, NoContentsType DEF Init
<1>2. cursor = NumTablets /\ cursor \in 0 .. NumTablets
  BY NumTabletsAssumption DEF Init
<1>3. ScanOK
  BY <1>2 DEF ScanOK, LockFree
<1> QED
  BY <1>1, <1>2, <1>3, ReplyTypes DEF IInv, Init

\* A handler that runs with execute_lock free and leaves the scan alone keeps
\* the invariant if it keeps the store sound.
LEMMA HandlerKeepsIInv ==
    ASSUME IInv, LockFree, UNCHANGED << cursor, pairs >>,
           StoreOK(store'),
           reply' \in [status : {"SUCCESS", "FAILURE"}, message : Messages]
    PROVE  IInv'
BY DEF IInv, ScanOK, LockFree

\* Every step keeps the invariant.
LEMMA StepIInv == IInv /\ [Next]_vars => IInv'
<1> SUFFICES ASSUME IInv, [Next]_vars PROVE IInv'
  OBVIOUS
<1>0. StoreOK(store)
  BY DEF IInv
<1>1. ASSUME NEW c \in Cells, Get(c) PROVE IInv'
  <2>1. StoreOK(store')
    BY <1>0, <1>1, LocalGetOK DEF Get
  <2>2. store'.map[c] \in Messages
    BY <2>1, StoreFields DEF StoreOK, Contents, Messages
  <2>3. reply' \in [status : {"SUCCESS", "FAILURE"}, message : Messages]
    BY <1>1, <2>2, ReplyTypes DEF Get
  <2> QED
    BY <1>1, <2>1, <2>3, HandlerKeepsIInv DEF Get
<1>2. ASSUME NEW c \in Cells, Delete(c) PROVE IInv'
  <2>1. StoreOK(store')
    BY <1>0, <1>2, LocalDeleteOK DEF Delete
  <2>2. reply' \in [status : {"SUCCESS", "FAILURE"}, message : Messages]
    BY <1>2, ReplyTypes DEF Delete
  <2> QED
    BY <1>2, <2>1, <2>2, HandlerKeepsIInv DEF Delete
<1>3. ASSUME NEW c \in Cells, NEW v \in Values, Put(c, v) PROVE IInv'
  <2>1. StoreOK(store')
    BY <1>0, <1>3, LocalPutOK DEF Put
  <2>2. reply' \in [status : {"SUCCESS", "FAILURE"}, message : Messages]
    BY <1>3, ReplyTypes DEF Put
  <2> QED
    BY <1>3, <2>1, <2>2, HandlerKeepsIInv DEF Put
<1>4. ASSUME NEW c \in Cells, NEW cur \in Values, NEW new \in Values,
             CPut(c, cur, new)
      PROVE  IInv'
  <2>1. StoreOK(store')
    BY <1>0, <1>4, LocalCputOK DEF CPut
  <2>2. reply' \in [status : {"SUCCESS", "FAILURE"}, message : Messages]
    BY <1>4, ReplyTypes DEF CPut
  <2> QED
    BY <1>4, <2>1, <2>2, HandlerKeepsIInv DEF CPut
<1>5. ASSUME StartKeyvalue PROVE IInv'
  <2>1. ScanOK'
    BY <1>5, TabletOfAssumption DEF StartKeyvalue, ScanOK, Tablets
  <2> QED
    BY <1>5, <2>1, NoContentsType, NumTabletsAssumption
    DEF StartKeyvalue, IInv
<1>6. ASSUME VisitTablet PROVE IInv'
  <2>1. /\ cursor \in Tablets /\ cursor' = cursor + 1
        /\ cursor' \in 0 .. NumTablets
    BY <1>6, NumTabletsAssumption DEF VisitTablet, LockFree, IInv, Tablets
  <2>2. /\ StoreOK(store') /\ TableOf(store') = TableOf(store)
        /\ cursor \in Resident(store')
    BY <1>0, <1>6, <2>1, WithTabletOK DEF VisitTablet
  <2>3. pairs' = SetTablet(pairs, cursor, store'.map) /\ pairs' \in Contents
    BY <1>6, <2>2, StoreFields, SetTabletType DEF VisitTablet, IInv, StoreOK
  <2>4. ScanOK'
    <3> SUFFICES ASSUME NEW c \in Cells, TabletOf[c] < cursor'
                 PROVE  pairs'[c] = TableOf(store')[c]
      BY DEF ScanOK
    <3>1. CASE TabletOf[c] = cursor
      <4>1. pairs'[c] = store'.map[c]
        BY <2>3, <3>1 DEF SetTablet
      <4> QED
        BY <2>2, <3>1, <4>1, TableOfType
    <3>2. CASE TabletOf[c] # cursor
      <4>1. TabletOf[c] < cursor
        BY <2>1, <3>2, TabletOfAssumption DEF Tablets
      <4>2. pairs'[c] = pairs[c]
        BY <2>3, <3>2 DEF SetTablet
      <4> QED
        BY <1>6, <2>2, <4>1, <4>2 DEF VisitTablet, IInv, ScanOK
    <3> QED
      BY <3>1, <3>2
  <2>5. reply' \in [status : {"SUCCESS", "FAILURE"}, message : Messages]
    BY <1>6, <2>3, ReplyTypes DEF VisitTablet, IInv
  <2> QED
    BY <2>1, <2>2, <2>3, <2>4, <2>5 DEF IInv
<1>7. ASSUME Restart PROVE IInv'
  <2>1. StoreOK(store') /\ pairs' \in Contents
    BY <1>7, InitStoreOK, NoContentsType DEF Restart
  <2>2. ScanOK'
    BY <1>7 DEF Restart, ScanOK, LockFree
  <2> QED
    BY <1>7, <2>1, <2>2, ReplyTypes, NumTabletsAssumption DEF Restart, IInv
<1>8. ASSUME UNCHANGED vars PROVE IInv'
  BY <1>8 DEF vars, IInv, ScanOK, LockFree
<1> QED
  BY <1>1, <1>2, <1>3, <1>4, <1>5, <1>6, <1>7, <1>8 DEF Next

\* In every behaviour of a node the store is sound and a running
\* KVKeyvalueRequest has copied the tablets it has passed.
THEOREM Invariance == Spec => []IInv
BY InitIInv, StepIInv, PTL DEF Spec

-----------------------------------------------------------------------------
\* Type correctness of the storage engine.
THEOREM TypeCorrect == Spec => []TypeOK
<1>1. IInv => TypeOK
  BY DEF IInv, TypeOK, StoreOK
<1> QED
  BY Invariance, <1>1, PTL

\* Memory state = checkpoint state + operations in log file, whatever the
\* handlers do and however tablets are evicted and loaded; the logs of tablets
\* that are on disk only are empty.
THEOREM MemEquationAlways == Spec => []MemEquation
<1>1. IInv => MemEquation
  BY DEF IInv, MemEquation, StoreOK
<1> QED
  BY Invariance, <1>1, PTL

\* LoadTablet always has room and no tablet is resident twice.
THEOREM ResidentSetAlways == Spec => []ResidentSet
<1>1. IInv => ResidentSet
  BY DEF IInv, ResidentSet, StoreOK
<1> QED
  BY Invariance, <1>1, PTL

\* No log the handlers write makes ReplayTablet's assertion fail.
THEOREM ReplayNeverAbortsAlways == Spec => []ReplayNeverAborts
<1>1. IInv => ReplayNeverAborts
  BY DEF IInv, ReplayNeverAborts, StoreOK
<1> QED
  BY Invariance, <1>1, PTL

\* A running KVKeyvalueRequest has collected the table as it is, from every
\* tablet it has passed, however many it has evicted since.
THEOREM ScanOKAlways == Spec => []ScanOK
<1>1. IInv => ScanOK
  BY DEF IInv
<1> QED
  BY Invariance, <1>1, PTL

-----------------------------------------------------------------------------
(* The refinement.                                                          *)

\* A starting node is an empty dictionary.
LEMMA InitRefines == Init => Table!Init
BY InitStoreOK DEF Init, Table!Init, Table!Empty, NoContents, Failure,
                   Table!Failure

\* Each step of the storage engine is the dictionary operation of the same
\* name, or moves tablets without changing table or response.
LEMMA StepRefines == IInv /\ [Next]_vars => [Table!Next]_(Table!vars)
<1> SUFFICES ASSUME IInv, [Next]_vars
             PROVE  Table!Next \/ UNCHANGED Table!vars
  OBVIOUS
<1> USE DEF Success, Failure, Table!Success, Table!Failure
<1>0. StoreOK(store)
  BY DEF IInv
<1>1. ASSUME NEW c \in Cells, Get(c) PROVE Table!Get(c)
  <2>1. /\ TableOf(store') = TableOf(store)
        /\ store'.map[c] = TableOf(store)[c]
    BY <1>0, <1>1, LocalGetOK DEF Get
  <2> QED
    BY <1>1, <2>1 DEF Get, Table!Get
<1>2. ASSUME NEW c \in Cells, Delete(c) PROVE Table!Delete(c)
  <2>1. TableOf(store') = IF TableOf(store)[c] # NoValue
                          THEN [TableOf(store) EXCEPT ![c] = NoValue]
                          ELSE TableOf(store)
    BY <1>0, <1>2, LocalDeleteOK DEF Delete
  <2>2. LocalGet(store, c).map[c] = TableOf(store)[c]
    BY <1>0, LocalGetOK
  <2> QED
    BY <1>2, <2>1, <2>2 DEF Delete, Table!Delete
<1>3. ASSUME NEW c \in Cells, NEW v \in Values, Put(c, v)
      PROVE  Table!Put(c, v)
  <2>1. TableOf(store') = [TableOf(store) EXCEPT ![c] = v]
    BY <1>0, <1>3, LocalPutOK DEF Put
  <2> QED
    BY <1>3, <2>1 DEF Put, Table!Put
<1>4. ASSUME NEW c \in Cells, NEW cur \in Values, NEW new \in Values,
             CPut(c, cur, new)
      PROVE  Table!CPut(c, cur, new)
  <2>1. TableOf(store') = IF TableOf(store)[c] = cur
                          THEN [TableOf(store) EXCEPT ![c] = new]
                          ELSE TableOf(store)
    BY <1>0, <1>4, LocalCputOK DEF CPut
  <2>2. LocalGet(store, c).map[c] = TableOf(store)[c]
    BY <1>0, LocalGetOK
  <2> QED
    BY <1>4, <2>1, <2>2 DEF CPut, Table!CPut, Table!Put
<1>5. ASSUME StartKeyvalue PROVE UNCHANGED Table!vars
  BY <1>5 DEF StartKeyvalue, Table!vars
<1>6. ASSUME VisitTablet PROVE Table!ShowKeyValue \/ UNCHANGED Table!vars
  <2>1. cursor \in Tablets /\ cursor' = cursor + 1
    BY <1>6, NumTabletsAssumption DEF VisitTablet, LockFree, IInv, Tablets
  <2>2. /\ StoreOK(store') /\ TableOf(store') = TableOf(store)
        /\ cursor \in Resident(store')
    BY <1>0, <1>6, <2>1, WithTabletOK DEF VisitTablet
  <2>3. CASE cursor' # NumTablets
    BY <1>6, <2>2, <2>3 DEF VisitTablet, Table!vars
  <2>4. CASE cursor' = NumTablets
    <3>1. ASSUME NEW c \in Cells PROVE pairs'[c] = TableOf(store)[c]
      <4>1. pairs'[c] = IF TabletOf[c] = cursor THEN store'.map[c]
                                                ELSE pairs[c]
        BY <1>6 DEF VisitTablet, SetTablet
      <4>2. CASE TabletOf[c] = cursor
        BY <2>2, <4>1, <4>2, TableOfType
      <4>3. CASE TabletOf[c] # cursor
        <5>1. TabletOf[c] < cursor
          BY <2>1, <2>4, <4>3, TabletOfAssumption DEF Tablets
        <5> QED
          BY <1>6, <4>1, <4>3, <5>1 DEF VisitTablet, IInv, ScanOK
      <4> QED
        BY <4>2, <4>3
    <3>2. pairs' = TableOf(store)
      BY <1>6, <3>1 DEF VisitTablet, SetTablet, TableOf
    <3> QED
      BY <1>6, <2>2, <2>4, <3>2 DEF VisitTablet, Table!ShowKeyValue
  <2> QED
    BY <2>3, <2>4
<1>7. ASSUME Restart PROVE Table!Reset
  BY <1>7, InitStoreOK
  DEF Restart, Table!Reset, Table!Empty, NoContents
<1>8. ASSUME UNCHANGED vars PROVE UNCHANGED Table!vars
  BY <1>8 DEF vars, Table!vars
<1> QED
  BY <1>1, <1>2, <1>3, <1>4, <1>5, <1>6, <1>7, <1>8 DEF Next, Table!Next

\* The storage engine implements the dictionary of KVTable: residency,
\* eviction, checkpoints and logs are invisible in the responses.
THEOREM ImplementsTable == Spec => TableSpec
BY InitRefines, StepRefines, Invariance, PTL
DEF Spec, TableSpec, Table!Spec
=============================================================================
