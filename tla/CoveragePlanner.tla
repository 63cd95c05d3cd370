-------------------------- MODULE CoveragePlanner --------------------------
(***************************************************************************)
(* The request generate_coverage of the SCADA bridge: CoveragePlanner      *)
(* turns the last map into waypoints (back and forth over free stripes, or *)
(* a spiral), and validates them.  It runs on the command thread, while    *)
(* the executor's map_cb may replace the map between its two readings.     *)
(*                                                                         *)
(* Coordinates are cells: a waypoint is the centre of one.  Lengths in     *)
(* metres of the request are the cells they are truncated to.  All maps    *)
(* have one origin and resolution.  A step is one turn of a loop.          *)
(***************************************************************************)
EXTENDS Integers, Sequences, FiniteSets

CONSTANTS
    Maps,         \* maps to plan on: [width, height, blocked]
    Updates,      \* those that may arrive later
    NoMap,        \* none received yet
    Stripes,      \* cells of robot_width * (1 - overlap)
    Inflations,   \* cells of robot_width / 2 + min_clearance
    MinLength,    \* min_length of a free segment
    Flat,         \* the 0.01 of _optimize_waypoints, in cells
    MaxWaypoints  \* the 1000 of validate_waypoints

ASSUME MapsAssumption ==
    /\ Maps \subseteq [width : Nat, height : Nat, blocked : SUBSET (Nat \X Nat)]
    /\ Updates \subseteq Maps
    /\ NoMap \notin Maps

ASSUME LengthsAssumption ==
    /\ Stripes \subseteq Nat /\ Stripes # {}
    /\ Inflations \subseteq Nat /\ Inflations # {}
    /\ MinLength \in Nat \ {0}
    /\ Flat \in Nat
    /\ MaxWaypoints \in Nat

Requests == [pattern : {"boustrophedon", "spiral"},
             stripe : Stripes, inflation : Inflations]

VARIABLES
    map,       \* _last_map_msg
    pc,        \* the loop the command thread is in
    request,   \* payload of the request
    planned,   \* the map given to generate_coverage_waypoints
    at,        \* y_cell, i of _optimize_waypoints, or layer
    x,         \* where the row is still to be scanned, or along the edge
    direction, \* 1 left to right, -1 right to left
    waypoints,
    optimized,
    answer     \* status of the last reply

planning == <<map, request, planned, answer>>
vars == <<planning, pc, at, x, direction, waypoints, optimized>>

EdgesOfLayer == {"top", "right", "bottom", "left"}

TypeOK ==
    /\ map \in Maps \cup {NoMap}
    /\ pc \in {"recv", "rows", "optimize", "validate"} \cup EdgesOfLayer
    /\ request \in Requests
    /\ planned \in Maps \cup {NoMap}
    /\ pc # "recv" => planned \in Maps
    /\ at \in Nat
    /\ pc = "optimize" => at \in 2 .. Len(waypoints)
    /\ x \in Int
    /\ direction \in {1, -1}
    /\ waypoints \in Seq(Int \X Int)
    /\ optimized \in Seq(Int \X Int)
    /\ answer \in {"none", "ok", "error"}

Init ==
    /\ map \in Maps \cup {NoMap}
    /\ pc = "recv"
    /\ request = CHOOSE r \in Requests : TRUE
    /\ planned = NoMap
    /\ at = 0
    /\ x = 0
    /\ direction = 1
    /\ waypoints = <<>>
    /\ optimized = <<>>
    /\ answer = "none"

-----------------------------------------------------------------------------
(* The grid.                                                               *)

Cells(m) == (0 .. m.width - 1) \X (0 .. m.height - 1)
FreeCells(m) == Cells(m) \ m.blocked

Apart(i, j) == IF i < j THEN j - i ELSE i - j
Near(c, d, n) == Apart(c[1], d[1]) <= n /\ Apart(c[2], d[2]) <= n

\* Mutant: obstacles are inflated by one cell less.
ClearLess(m, n, c) ==
    c \in FreeCells(m) /\ \A o \in m.blocked : ~Near(c, o, n - 1)

\* A cell outside every inflated obstacle.
Clear(m, n, c) == c \in Cells(m) /\ \A o \in m.blocked : ~Near(c, o, n)

\* The free runs <<start, end>> of row y that are long enough.
Runs(m, n, y) ==
    {r \in (0 .. m.width) \X (0 .. m.width) :
        /\ r[2] - r[1] >= MinLength
        /\ \A i \in r[1] .. r[2] - 1 : Clear(m, n, <<i, y>>)
        /\ ~Clear(m, n, <<r[1] - 1, y>>)
        /\ ~Clear(m, n, <<r[2], y>>)}

LastCellWide(r) == r[2]  \* mutant: one cell too far
LastCell(r) == r[2] - 1

\* How far three points are from being on one line.
Cross(p, q, r) ==
    LET c == (q[1] - p[1]) * (r[2] - q[2]) - (q[2] - p[2]) * (r[1] - q[1])
    IN  IF c < 0 THEN -c ELSE c

StripeCellsAny == request.stripe  \* mutant: not at least one
StripeCells == IF request.stripe < 1 THEN 1 ELSE request.stripe

-----------------------------------------------------------------------------
(* The request.                                                            *)

\* map_cb, on the executor.
MapArrives(m) ==
    /\ map' = m
    /\ UNCHANGED <<request, planned, answer, pc, at, x, direction, waypoints, optimized>>

NoMapYet ==
    /\ pc = "recv"
    /\ map = NoMap
    /\ answer' = "error"
    /\ UNCHANGED <<map, request, planned, pc, at, x, direction, waypoints, optimized>>

\* generate_coverage_waypoints is handed the map.
Plan(r) ==
    /\ pc = "recv"
    /\ map # NoMap
    /\ request' = r
    /\ planned' = map
    /\ IF r.pattern = "spiral"
       THEN pc' = "top" /\ at' = 1 /\ x' = -1
       ELSE pc' = "rows" /\ at' = 0 /\ x' = 0
    /\ UNCHANGED <<map, answer, direction, waypoints, optimized>>

Valid(w, m) ==
    /\ Len(w) \in 2 .. MaxWaypoints
    /\ \A i \in DOMAIN w : w[i] \in FreeCells(m)

\* The waypoints are held against the map of this moment.
Validate ==
    /\ pc = "validate"
    /\ answer' = IF Valid(waypoints, map) THEN "ok" ELSE "error"
    /\ pc' = "recv"
    /\ planned' = NoMap
    /\ at' = 0 /\ x' = 0 /\ direction' = 1
    /\ waypoints' = <<>> /\ optimized' = <<>>
    /\ UNCHANGED <<map, request>>

-----------------------------------------------------------------------------
(* Back and forth.                                                         *)

Ahead == {r \in Runs(planned, request.inflation, at) : r[1] >= x}

\* The next of free_segments: its start and end, or its end and start.
Segment ==
    /\ pc = "rows"
    /\ at < planned.height
    /\ \E r \in Ahead :
        /\ \A q \in Ahead : q[1] >= r[1]
        /\ waypoints' =
             LET first == <<r[1], at>>
                 last  == <<LastCell(r), at>>
             IN  IF direction = 1 THEN Append(Append(waypoints, first), last)
                                  ELSE Append(Append(waypoints, last), first)
        /\ x' = r[2]
    /\ UNCHANGED <<planning, pc, at, direction, optimized>>

\* The direction alternates after a row that had a segment.
NextRow ==
    /\ pc = "rows"
    /\ at < planned.height
    /\ Ahead = {}
    /\ at' = at + StripeCells
    /\ x' = 0
    /\ direction' = IF x > 0 THEN -direction ELSE direction
    /\ UNCHANGED <<planning, pc, waypoints, optimized>>

RowsDone ==
    /\ pc = "rows"
    /\ at >= planned.height
    /\ IF Len(waypoints) < 3
       THEN pc' = "validate" /\ UNCHANGED <<at, optimized>>
       ELSE pc' = "optimize" /\ at' = 2 /\ optimized' = <<waypoints[1]>>
    /\ UNCHANGED <<planning, x, direction, waypoints>>

OptimizePoint ==
    /\ pc = "optimize"
    /\ at < Len(waypoints)
    /\ optimized' =
         IF Cross(waypoints[at - 1], waypoints[at], waypoints[at + 1]) > Flat
         THEN Append(optimized, waypoints[at]) ELSE optimized
    /\ at' = at + 1
    /\ UNCHANGED <<planning, pc, x, direction, waypoints>>

OptimizedNoLast ==  \* mutant: the last point is not kept
    /\ pc = "optimize"
    /\ at = Len(waypoints)
    /\ waypoints' = optimized
    /\ pc' = "validate"
    /\ UNCHANGED <<planning, at, x, direction, optimized>>

Optimized ==
    /\ pc = "optimize"
    /\ at = Len(waypoints)
    /\ waypoints' = Append(optimized, waypoints[at])
    /\ pc' = "validate"
    /\ UNCHANGED <<planning, at, x, direction, optimized>>

-----------------------------------------------------------------------------
(* The spiral.                                                             *)

Centre(m) == <<m.width \div 2, m.height \div 2>>
Layers(m) == (IF m.width > m.height THEN m.width ELSE m.height) \div 2

\* The k-th cell from the middle of an edge of layer n, in the order they are
\* walked.
OnEdge(edge, c, n, k) ==
    CASE edge = "top"    -> <<c[1] + k, c[2] - n>>
      [] edge = "right"  -> <<c[1] + n, c[2] + k>>
      [] edge = "bottom" -> <<c[1] - k, c[2] + n>>
      [] edge = "left"   -> <<c[1] - n, c[2] - k>>

NextEdge == [top |-> "right", right |-> "bottom", bottom |-> "left", left |-> "top"]

EdgeCell ==
    /\ pc \in EdgesOfLayer
    /\ at <= Layers(planned)
    /\ LET p == OnEdge(pc, Centre(planned), at, x)
       IN  waypoints' = IF p \in Cells(planned) THEN Append(waypoints, p) ELSE waypoints
    /\ IF x < at
       THEN x' = x + 1 /\ UNCHANGED <<pc, at>>
       ELSE /\ pc' = NextEdge[pc]
            /\ at' = IF pc = "left" THEN at + 1 ELSE at
            /\ x' = -at'
    /\ UNCHANGED <<planning, direction, optimized>>

LayersDone ==
    /\ pc \in EdgesOfLayer
    /\ at > Layers(planned)
    /\ pc' = "validate"
    /\ UNCHANGED <<planning, at, x, direction, waypoints, optimized>>

-----------------------------------------------------------------------------

Serve == \/ NoMapYet \/ Validate
         \/ Segment \/ NextRow \/ RowsDone \/ OptimizePoint \/ Optimized
         \/ EdgeCell \/ LayersDone

Next ==
    \/ \E m \in Updates : MapArrives(m)
    \/ \E r \in Requests : Plan(r)
    \/ Serve

Spec == Init /\ [][Next]_vars

\* The command thread is scheduled.
FairSpec == Spec /\ WF_vars(Serve)

-----------------------------------------------------------------------------
(* Properties.                                                             *)

Planned(pattern) == pc = "validate" /\ request.pattern = pattern
Reached == {waypoints[i] : i \in DOMAIN waypoints}

\* The stripes driven on, and the ends of a run in one.
Stripe(y) == \E k \in 0 .. y : y = k * StripeCells
Ends(r, y) == {<<r[1], y>>, <<r[2] - 1, y>>}

\* No waypoint of a back-and-forth route is nearer to an obstacle of the map
\* it was planned on than the robot and its clearance need
\* (_inflate_obstacles, _find_free_segments).
KeepsClear ==
    Planned("boustrophedon") =>
        /\ Reached \subseteq FreeCells(planned)
        /\ \A c \in Reached, o \in planned.blocked : ~Near(c, o, request.inflation)

\* A route of an allowed length is refused only if the map was replaced
\* between planning and validation, or if it is a spiral and more than its
\* centre is blocked (cmd_loop, generate_coverage).
RefusedOnlyOnNewMap ==
    [][(pc = "validate" /\ pc' = "recv" /\ answer' = "error"
            /\ Len(waypoints) \in 2 .. MaxWaypoints)
       => \/ map # planned
          \/ request.pattern = "spiral" /\ planned.blocked \ {Centre(planned)} # {}]_vars

\* Dropping points "on straight lines" keeps both ends of every stripe that
\* has one free run, whatever the stripes around it, unless the run and the
\* distance to the next stripe are so short that the turn counts as straight
\* (_optimize_waypoints).
SinglePassesKept ==
    Planned("boustrophedon") => \A y \in 0 .. planned.height - 1 :
        LET free == Runs(planned, request.inflation, y)
        IN  Stripe(y) => \A r \in free :
                free = {r} /\ (r[2] - 1 - r[1]) * StripeCells > Flat
                    => Ends(r, y) \subseteq Reached

\* Every request is answered: a stripe of no cells does not stop the loop
\* (max(1, ...) in _generate_boustrophedon).
Answered == (pc # "recv") ~> (pc = "recv")

-----------------------------------------------------------------------------
(* What the class promises and the code does not keep; see the README.     *)

\* "waypoints that cover the entire navigable area of the map": the ends of
\* every free run of every stripe are on the route.
CoversStripes ==
    Planned("boustrophedon") => \A y \in 0 .. planned.height - 1 :
        Stripe(y) => \A r \in Runs(planned, request.inflation, y) :
            Ends(r, y) \subseteq Reached
=============================================================================
