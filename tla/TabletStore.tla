----------------------------- MODULE TabletStore -----------------------------
(***************************************************************************)
(* One RUNNING KVStore node without its peers: the handlers Execute runs   *)
(* one at a time under execute_lock, as the node's secondary handlers      *)
(* (KVSget, KVSput, ...) and the local half of its primary handlers run    *)
(* them.  KVKeyvalueRequest visits the tablets one after the other, each   *)
(* visit a step here, and holds the lock in between.                       *)
(***************************************************************************)
EXTENDS TabletOps

CONSTANT MaxLog   \* bound: no log file grows beyond MaxLog records

ASSUME MaxLogAssumption == MaxLog \in Nat

VARIABLES
    store,   \* memory and disk of the node
    cursor,  \* the next tablet KVKeyvalueRequest visits; NumTablets: it is
             \* not running and execute_lock is free
    pairs,   \* the cells KVKeyvalueRequest has collected
    reply    \* the last response

vars == << store, cursor, pairs, reply >>

Success(m) == [status |-> "SUCCESS", message |-> m]

Failure == [status |-> "FAILURE", message |-> NoValue]

Init == /\ store = InitStore
        /\ cursor = NumTablets
        /\ pairs = NoContents
        /\ reply = Failure

\* Bug: the loop over the tablets runs once too often.
LockFreeLate == cursor > NumTablets

LockFree == cursor = NumTablets

LogHasRoom(c) == Len(store.log[TabletOf[c]]) < MaxLog

Get(c) ==
    /\ LockFree
    /\ store' = LocalGet(store, c)
    /\ reply' = IF store'.map[c] = NoValue THEN Failure
                                           ELSE Success(store'.map[c])
    /\ UNCHANGED << cursor, pairs >>

Put(c, v) ==
    /\ LockFree /\ LogHasRoom(c)
    /\ store' = LocalPut(store, c, v)
    /\ reply' = Success(NoValue)
    /\ UNCHANGED << cursor, pairs >>

CPut(c, cur, new) ==
    /\ LockFree /\ LogHasRoom(c)
    /\ store' = LocalCput(store, c, cur, new)
    /\ reply' = IF LocalGet(store, c).map[c] = cur THEN Success(NoValue)
                                                   ELSE Failure
    /\ UNCHANGED << cursor, pairs >>

Delete(c) ==
    /\ LockFree /\ LogHasRoom(c)
    /\ store' = LocalDelete(store, c)
    /\ reply' = IF LocalGet(store, c).map[c] # NoValue THEN Success(NoValue)
                                                       ELSE Failure
    /\ UNCHANGED << cursor, pairs >>

\* KVKeyvalueRequest takes the lock and starts with tablet 0.
StartKeyvalue ==
    /\ LockFree
    /\ cursor' = 0
    /\ pairs' = NoContents
    /\ UNCHANGED << store, reply >>

\* Bug: the cells are copied before the tablet is loaded.
VisitTabletTooEarly ==
    /\ ~LockFree
    /\ store' = WithTablet(store, cursor)
    /\ pairs' = SetTablet(pairs, cursor, store.map)
    /\ cursor' = cursor + 1
    /\ reply' = IF cursor' = NumTablets THEN Success(pairs') ELSE reply

\* It loads the next tablet and copies its cells; the last one answers.
VisitTablet ==
    /\ ~LockFree
    /\ store' = WithTablet(store, cursor)
    /\ pairs' = SetTablet(pairs, cursor, store'.map)
    /\ cursor' = cursor + 1
    /\ reply' = IF cursor' = NumTablets THEN Success(pairs') ELSE reply

\* The process dies at any point and starts again.
Restart ==
    /\ store' = InitStore
    /\ cursor' = NumTablets
    /\ pairs' = NoContents
    /\ reply' = Failure

Next == \/ \E c \in Cells : Get(c) \/ Delete(c)
        \/ \E c \in Cells, v \in Values : Put(c, v)
        \/ \E c \in Cells, cur, new \in Values : CPut(c, cur, new)
        \/ StartKeyvalue
        \/ VisitTablet
        \/ Restart

Spec == Init /\ [][Next]_vars

-----------------------------------------------------------------------------
Messages == Values \cup {NoValue} \cup Contents

\* The variables have their types: the store of memory vector, maps and files,
\* the loop counter of KVKeyvalueRequest and the responses of the handlers.
TypeOK == /\ store \in Stores
          /\ cursor \in 0 .. NumTablets
          /\ pairs \in Contents
          /\ reply \in [status : {"SUCCESS", "FAILURE"}, message : Messages]

\* However tablets are loaded, evicted and updated, the memory of a resident
\* tablet is what replaying its log over its checkpoint gives, so that a
\* secondary rebuilt by KVReplay from copies of both files is identical; and
\* UnloadTablet and LoadTablet leave no record behind in the log of a tablet
\* that is on disk only, which LoadTablet would not read.
MemEquation == MemEquationHolds(store) /\ LogsOK(store)

\* The assertion of LoadTablet that there is room holds, and no tablet is in
\* tablet_mem_vec twice (its two copies would diverge).
ResidentSet == ResidentSetOK(store)

\* The assertion of ReplayTablet that a deleted cell exists holds for every
\* log the handlers write: they log a delete only of a cell in the map.
ReplayNeverAborts == ReplayOK(store)

\* The node behaves as one dictionary: eviction and loading of tablets are
\* invisible to Get, Put, CPut, Delete and KVKeyvalueRequest.
Table == INSTANCE KVTable WITH table <- TableOf(store)

TableSpec == Table!Spec

\* What the inductive argument adds: KVKeyvalueRequest has collected exactly
\* the cells of the tablets it has passed.
ScanOK ==
    ~LockFree =>
        \A c \in Cells : TabletOf[c] < cursor => pairs[c] = TableOf(store)[c]

=============================================================================
