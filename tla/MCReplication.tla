---------------------------- MODULE MCReplication ----------------------------
(* Three replicas, two tablets of which one fits in memory, so that every   *)
(* change of tablet evicts; the cell is in tablet 0, and a KVKeyvalueRequest *)
(* leaves tablet 1 in memory instead.                                       *)
EXTENDS Replication, TLC

CONSTANTS a, v1

MCCells == {a}
MCValues == {v1}
MCTabletOf == a :> 0
=============================================================================
