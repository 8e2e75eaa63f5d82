---------------------------- MODULE MCTetrisRoom ----------------------------
(* TetrisRoom.tla for TLC: nodes, pings, versions, and bounds for each run. *)
EXTENDS TetrisRoom

TwoNodes    == 1..2
ThreeNodes  == 1..3
OneVersion  == {1}
TwoVersions == {1, 2}

TwoPings == [n \in Nodes |-> {1, 2}]

(* Node 1 may report a lower or a higher ping than node 2.                 *)
AroundPing == [n \in Nodes |-> IF n = 1 THEN {1, 3} ELSE {2}]

(* The same bounds for every node, and bounds for no operation.            *)
Each(bounds) == [n \in Nodes |-> bounds]
Never        == [op \in Operations |-> 0]

(* Every player registers and gets ready once.                             *)
Once == Each([Never EXCEPT !["upsert"] = 1, !["ready"] = 1])

(* A player may register again, and a node restart.                        *)
Again == Each([Never EXCEPT !["upsert"] = 2, !["ready"] = 1, !["restart"] = 1])

(* The player of node 1 gets ready again, with another ping, and its two   *)
(* clients submit snapshots, which node 2 only receives.                   *)
Watched == [Once EXCEPT ![1]["ready"] = 2, ![1]["toggle"] = 1, ![1]["sync"] = 2]
=============================================================================
