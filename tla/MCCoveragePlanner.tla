------------------------- MODULE MCCoveragePlanner -------------------------
(***************************************************************************)
(* CoveragePlanner on maps of rows seven cells wide: free, parted in two   *)
(* runs of three, parted in a run of two and one of four, walled on the    *)
(* right, and two smaller maps.                                            *)
(***************************************************************************)
EXTENDS CoveragePlanner

Rows == {{}, {3}, {2}, {5, 6}}
Tall(f) == [width |-> 7, height |-> Cardinality(DOMAIN f),
            blocked |-> UNION {f[y] \X {y} : y \in DOMAIN f}]
Small == [width |-> 5, height |-> 2, blocked |-> {<<2, 1>>}]
Hall  == [width |-> 3, height |-> 4, blocked |-> {}]
MCMaps == {Tall(f) : f \in [0 .. 1 -> Rows] \cup [0 .. 2 -> Rows]} \cup {Small, Hall}
MCUpdates == {Small, Hall, Tall([y \in 0 .. 2 |-> {3}])}
=============================================================================
