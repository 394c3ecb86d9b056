------------------------------- MODULE KVTable -------------------------------
(***************************************************************************)
(* What a KVStore node promises its callers: one dictionary from cells to  *)
(* values, whatever tablets happen to be in memory.  Each operation takes  *)
(* effect in one step and leaves its response in reply.                    *)
(***************************************************************************)
CONSTANTS Cells, Values, NoValue

VARIABLES
    table,  \* the value of each cell, or NoValue
    reply   \* the last response: its status and message

vars == << table, reply >>

Success(m) == [status |-> "SUCCESS", message |-> m]

Failure == [status |-> "FAILURE", message |-> NoValue]

Empty == [c \in Cells |-> NoValue]

Init == table = Empty /\ reply = Failure

Get(c) ==
    /\ reply' = IF table[c] = NoValue THEN Failure ELSE Success(table[c])
    /\ UNCHANGED table

Put(c, v) ==
    /\ table' = [table EXCEPT ![c] = v]
    /\ reply' = Success(NoValue)

CPut(c, cur, new) ==
    IF table[c] = cur THEN Put(c, new)
                      ELSE reply' = Failure /\ UNCHANGED table

Delete(c) ==
    IF table[c] # NoValue
    THEN table' = [table EXCEPT ![c] = NoValue] /\ reply' = Success(NoValue)
    ELSE reply' = Failure /\ UNCHANGED table

\* The whole table, as the administration console shows it.
ShowKeyValue == reply' = Success(table) /\ UNCHANGED table

\* A node that restarts comes back empty.
Reset == table' = Empty /\ reply' = Failure

Next == \/ \E c \in Cells : Get(c) \/ Delete(c)
        \/ \E c \in Cells, v \in Values : Put(c, v)
        \/ \E c \in Cells, cur, new \in Values : CPut(c, cur, new)
        \/ ShowKeyValue
        \/ Reset

Spec == Init /\ [][Next]_vars
=============================================================================
