--------------------------- MODULE MCScadaPatrol ---------------------------
(***************************************************************************)
(* ScadaPatrol with small routes: two and three waypoints, one that visits *)
(* a place twice, one and two loops, two homes.                            *)
(***************************************************************************)
EXTENDS ScadaPatrol

CONSTANTS H, A, B

Short  == [route |-> <<A, B>>, loops |-> 1, home |-> H]
Looped == [route |-> <<A, B>>, loops |-> 2, home |-> H]
Back   == [route |-> <<A, B, A>>, loops |-> 2, home |-> H]
Moved  == [route |-> <<B, H>>, loops |-> 1, home |-> A]

MCPlaces       == {H, A, B}
SingleMissions == {Short, Looped, Back, Moved}
TwoMissions    == {Short, Moved}
StartOnly      == {"patrol_start"}
StartStop      == {"patrol_start", "patrol_stop"}
AllCommands    == Commands
=============================================================================
