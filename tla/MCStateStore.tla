---------------------------- MODULE MCStateStore ----------------------------
(* StateStore on two workers, two routes and two payloads; the one caller  *)
(* of Save passes a table with one record.                                 *)
EXTENDS StateStore, TLC

CONSTANTS w1, w2, r1, r2, d1, d2

MCWorkers  == {w1, w2}
MCRouteIds == {r1, r2}
MCPayloads == {d1, d2}
MCSavedTables == {r1 :> d1 @@ r2 :> Absent}

=============================================================================
