------------------------------ MODULE TabletOps ------------------------------
(***************************************************************************)
(* The storage engine of one KVStore node (KVStore/kvstore_node.cc and     *)
(* kvstore_node_utils.cc) as operators on a store, the value of all its    *)
(* state.  A table of cells <row, col> is split into tablets; a tablet has *)
(* a checkpoint file and a log file on disk, and at most NumTabletMem      *)
(* tablets are resident in memory, replaced first-in first-out.            *)
(***************************************************************************)
EXTENDS Integers, Sequences

CONSTANTS
    NumTablets,     \* num_tablet_total
    NumTabletMem,   \* num_tablet_mem: how many tablets fit in memory
    Cells,          \* the <row, col> keys
    Values,         \* the values clients write
    NoValue,        \* the cell does not exist
    TabletOf        \* the tablet the digest of a cell falls in

Tablets == 0 .. NumTablets - 1

ASSUME NumTabletsAssumption == NumTablets \in Nat \ {0}
ASSUME NumTabletMemAssumption == NumTabletMem \in Nat \ {0}
ASSUME NoValueAssumption == NoValue \notin Values
ASSUME TabletOfAssumption == TabletOf \in [Cells -> Tablets]

-----------------------------------------------------------------------------
(* A store.  map and ckpt hold the cells of every tablet: the std::map of a *)
(* tablet is the part of map on the cells of that tablet.                   *)

Contents == [Cells -> Values \cup {NoValue}]

NoContents == [c \in Cells |-> NoValue]

LogRecords == [op : {"put"}, cell : Cells, value : Values]
              \cup [op : {"delete"}, cell : Cells, value : {NoValue}]

Stores == [mem  : Seq(Tablets),                 \* tablet_mem_vec
           map  : Contents,                     \* Tablet::map of resident tablets
           ckpt : Contents,                     \* the checkpoint files
           log  : [Tablets -> Seq(LogRecords)]] \* the log files

\* InitEnv: a process that starts wipes its directory, whatever it held.
InitStore == [mem  |-> << >>, map |-> NoContents, ckpt |-> NoContents,
              log  |-> [t \in Tablets |-> << >>]]

Elements(q) == {q[i] : i \in DOMAIN q}

Distinct(q) == \A i, j \in DOMAIN q : q[i] = q[j] => i = j

Resident(s) == Elements(s.mem)

-----------------------------------------------------------------------------
(* Moving tablets between memory and disk.                                  *)

\* Take the cells of tablet t from new and the others from old.
SetTablet(old, t, new) ==
    [c \in Cells |-> IF TabletOf[c] = t THEN new[c] ELSE old[c]]

\* Bug: the log is not truncated after the checkpoint.
UnloadTabletKeepsLog(s) ==
    LET t == Head(s.mem)
    IN  [s EXCEPT !.mem  = Tail(s.mem),
                  !.map  = SetTablet(s.map, t, NoContents),
                  !.ckpt = SetTablet(s.ckpt, t, s.map)]

\* The front tablet is written to its checkpoint, its log is truncated.
UnloadTablet(s) ==
    LET t == Head(s.mem)
    IN  [mem  |-> Tail(s.mem),
         map  |-> SetTablet(s.map, t, NoContents),
         ckpt |-> SetTablet(s.ckpt, t, s.map),
         log  |-> [s.log EXCEPT ![t] = << >>]]

\* Bug: the checkpoint is not read.
LoadTabletEmpty(s, t) == [s EXCEPT !.mem = Append(s.mem, t)]

\* The checkpoint alone is read: the log of the tablet is not replayed.
LoadTablet(s, t) ==
    [s EXCEPT !.mem = Append(s.mem, t), !.map = SetTablet(s.map, t, s.ckpt)]

\* Bug: one tablet too many.
MakeRoomLate(s) == IF Len(s.mem) > NumTabletMem THEN UnloadTablet(s) ELSE s

MakeRoom(s) == IF Len(s.mem) = NumTabletMem THEN UnloadTablet(s) ELSE s

\* How every handler gets its tablet: from memory, or by loading it.
WithTablet(s, t) ==
    IF t \in Resident(s) THEN s ELSE LoadTablet(MakeRoom(s), t)

-----------------------------------------------------------------------------
(* The local part of the handlers.                                          *)

PutRecord(c, v) == [op |-> "put", cell |-> c, value |-> v]

DeleteRecord(c) == [op |-> "delete", cell |-> c, value |-> NoValue]

\* Append to the log file, then change the map.
LogAndApply(s, r) ==
    LET t == TabletOf[r.cell]
    IN  [s EXCEPT !.log = [s.log EXCEPT ![t] = Append(s.log[t], r)],
                  !.map = [s.map EXCEPT ![r.cell] = r.value]]

LocalGet(s, c) == WithTablet(s, TabletOf[c])

LocalPut(s, c, v) == LogAndApply(WithTablet(s, TabletOf[c]), PutRecord(c, v))

LocalCput(s, c, cur, new) ==
    LET l == WithTablet(s, TabletOf[c])
    IN  IF l.map[c] = cur THEN LogAndApply(l, PutRecord(c, new)) ELSE l

\* Bug: a delete is logged before the cell is looked up.
LocalDeleteUnchecked(s, c) ==
    LogAndApply(WithTablet(s, TabletOf[c]), DeleteRecord(c))

LocalDelete(s, c) ==
    LET l == WithTablet(s, TabletOf[c])
    IN  IF l.map[c] # NoValue THEN LogAndApply(l, DeleteRecord(c)) ELSE l

-----------------------------------------------------------------------------
(* Replaying a log over a checkpoint (ReplayTablet).  The loop applies the  *)
(* records in order, so the last record of a cell decides its value; a cell *)
(* without a record keeps the value of the checkpoint.                      *)

\* The loop itself, record by record.
ReplayLoop(base, lg) ==
    LET after[n \in 0 .. Len(lg)] ==
            IF n = 0 THEN base
            ELSE [after[n - 1] EXCEPT ![lg[n].cell] = lg[n].value]
    IN  after[Len(lg)]

Records(lg, c) == {i \in DOMAIN lg : lg[i].cell = c}

IsLast(i, is) == i \in is /\ \A j \in is : j <= i

ReplaysTo(base, lg, c, v) ==
    \/ Records(lg, c) = {} /\ v = base
    \/ \E i \in DOMAIN lg : IsLast(i, Records(lg, c)) /\ v = lg[i].value

ReplayCell(s, c) ==
    CHOOSE v \in Values \cup {NoValue} :
        ReplaysTo(s.ckpt[c], s.log[TabletOf[c]], c, v)

\* The loop asserts that the cell a delete record names exists: its last
\* earlier record is a put, or it has none and the checkpoint holds it.
DeleteFindsCell(base, lg, i) ==
    LET before == {j \in Records(lg, lg[i].cell) : j < i}
    IN  \/ before = {} /\ base[lg[i].cell] # NoValue
        \/ \E j \in DOMAIN lg : IsLast(j, before) /\ lg[j].value # NoValue

ReplayAborts(s, t) ==
    \E i \in DOMAIN s.log[t] :
        s.log[t][i].op = "delete" /\ ~DeleteFindsCell(s.ckpt, s.log[t], i)

-----------------------------------------------------------------------------
(* What every store satisfies.                                              *)

\* At most NumTabletMem tablets are resident, none of them twice.
ResidentSetOK(s) ==
    /\ Len(s.mem) <= NumTabletMem
    /\ Distinct(s.mem)

\* Memory state = checkpoint state + operations in log file, for each
\* resident tablet; nothing is kept in memory of the others.
MemEquationHolds(s) ==
    \A c \in Cells :
        IF TabletOf[c] \in Resident(s)
        THEN ReplaysTo(s.ckpt[c], s.log[TabletOf[c]], c, s.map[c])
        ELSE s.map[c] = NoValue

\* The log of a tablet names its own cells; it is empty when the tablet is
\* not resident, so that loading the checkpoint alone loses nothing.
LogsOK(s) ==
    \A t \in Tablets :
        /\ t \notin Resident(s) => s.log[t] = << >>
        /\ \A i \in DOMAIN s.log[t] : TabletOf[s.log[t][i].cell] = t

\* No log makes ReplayTablet abort.
ReplayOK(s) == \A t \in Tablets : ~ReplayAborts(s, t)

StoreOK(s) == /\ s \in Stores
              /\ ResidentSetOK(s)
              /\ MemEquationHolds(s)
              /\ LogsOK(s)
              /\ ReplayOK(s)

\* The table a store stands for: the memory of resident tablets, the
\* checkpoint of the others.
TableOf(s) == [c \in Cells |-> IF TabletOf[c] \in Resident(s)
                               THEN s.map[c] ELSE s.ckpt[c]]
=============================================================================
