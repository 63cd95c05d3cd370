----------------------- MODULE CoveragePlannerProofs -----------------------
(***************************************************************************)
(* Proofs about CoveragePlanner for maps of every size, stripes,           *)
(* inflations and shortest runs of every length, and maps that arrive at   *)
(* any moment.                                                             *)
(***************************************************************************)
EXTENDS CoveragePlanner, TLAPS

-----------------------------------------------------------------------------
(* The grid.                                                               *)

\* What a map is made of.
LEMMA MapShape ==
    ASSUME NEW m \in Maps
    PROVE  m.width \in Nat /\ m.height \in Nat /\ m.blocked \subseteq Nat \X Nat
  BY MapsAssumption

\* What a request is made of; a stripe has at least one cell.
LEMMA RequestShape ==
    ASSUME request \in Requests
    PROVE  /\ request.stripe \in Nat /\ request.inflation \in Nat
           /\ request.pattern \in {"boustrophedon", "spiral"}
           /\ StripeCells \in Nat \ {0}
  <1>1. /\ request.pattern \in {"boustrophedon", "spiral"}
        /\ request.stripe \in Stripes /\ request.inflation \in Inflations
    BY DEF Requests
  <1>2. request.stripe \in Nat /\ request.inflation \in Nat
    BY <1>1, LengthsAssumption
  <1> QED
    BY <1>1, <1>2 DEF StripeCells

\* A cell clear of the inflated obstacles is a free cell of the map: inflating
\* by any number of cells covers the obstacle itself (_inflate_obstacles).
LEMMA ClearIsFree ==
    ASSUME NEW m \in Maps, NEW n \in Nat, NEW c, Clear(m, n, c)
    PROVE  c \in FreeCells(m) /\ c \in Int \X Int
  <1> USE MapShape
  <1>1. c \in Cells(m) /\ c \in Int \X Int
    BY DEF Clear, Cells
  <1>2. Near(c, c, n)
    BY <1>1 DEF Near, Apart
  <1> QED
    BY <1>1, <1>2 DEF Clear, FreeCells

\* Both ends of a free run are cells clear of obstacles (_find_free_segments).
LEMMA RunClear ==
    ASSUME NEW m \in Maps, NEW n \in Nat, NEW y \in Nat, NEW r \in Runs(m, n, y)
    PROVE  /\ r \in Nat \X Nat /\ r[1] < r[2]
           /\ r[2] - r[1] >= MinLength
           /\ Clear(m, n, <<r[1], y>>) /\ Clear(m, n, <<r[2] - 1, y>>)
  <1>1. r \in Nat \X Nat /\ r[2] - r[1] >= MinLength
    BY MapShape DEF Runs
  <1>2. r[1] \in r[1] .. r[2] - 1 /\ r[2] - 1 \in r[1] .. r[2] - 1
    BY <1>1, LengthsAssumption
  <1> QED
    BY <1>1, <1>2, LengthsAssumption DEF Runs

\* Two rows driven on are a stripe apart or more.
LEMMA StripesApart ==
    ASSUME request \in Requests, NEW y \in Nat, NEW z \in Nat,
           Stripe(y), Stripe(z), y < z
    PROVE  y + StripeCells <= z
  <1>0. StripeCells \in Nat \ {0}
    BY RequestShape
  <1>1. PICK k \in 0 .. y : y = k * StripeCells
    BY DEF Stripe
  <1>2. PICK l \in 0 .. z : z = l * StripeCells
    BY DEF Stripe
  <1>3. DEFINE S == StripeCells
  <1> HIDE DEF S
  <1>4. S \in Nat \ {0} /\ y = k * S /\ z = l * S
    BY <1>0, <1>1, <1>2 DEF S
  <1>5. CASE l <= k
    <2>1. (k - l) * S >= 0
      BY <1>4, <1>5
    <2>2. (k - l) * S = k * S - l * S
      BY <1>4
    <2> QED
      BY <1>4, <2>1, <2>2
  <1>6. CASE l >= k + 1
    <2>1. (l - (k + 1)) * S >= 0
      BY <1>4, <1>6
    <2>2. (l - (k + 1)) * S = l * S - (k * S + S)
      BY <1>4
    <2> QED
      BY <1>4, <2>1, <2>2 DEF S
  <1> QED
    BY <1>5, <1>6

\* The next row scanned is again one to drive on.
LEMMA NextStripe ==
    ASSUME request \in Requests, NEW y \in Nat, Stripe(y)
    PROVE  Stripe(y + StripeCells)
  <1>0. StripeCells \in Nat \ {0}
    BY RequestShape
  <1>1. PICK k \in 0 .. y : y = k * StripeCells
    BY DEF Stripe
  <1>2. DEFINE S == StripeCells
  <1> HIDE DEF S
  <1>3. S \in Nat \ {0} /\ y = k * S
    BY <1>0, <1>1 DEF S
  <1>4. y + S = (k + 1) * S /\ k + 1 \in 0 .. y + S
    BY <1>3
  <1> QED
    BY <1>4 DEF S, Stripe

-----------------------------------------------------------------------------
(* Types.                                                                  *)

\* The initial state has its type: there is a request to stand for none.
LEMMA TypeInit == Init => TypeOK
  <1>1. \E r : r \in Requests
    <2>1. PICK s \in Stripes : TRUE
      BY LengthsAssumption
    <2>2. PICK n \in Inflations : TRUE
      BY LengthsAssumption
    <2> WITNESS [pattern |-> "spiral", stripe |-> s, inflation |-> n]
    <2> QED
      BY DEF Requests
  <1>2. (CHOOSE r \in Requests : TRUE) \in Requests
    BY <1>1
  <1> QED
    BY <1>2 DEF Init, TypeOK

\* Every action keeps the types.
LEMMA TypeStep == TypeOK /\ [Next]_vars => TypeOK'
  <1> SUFFICES ASSUME TypeOK, [Next]_vars PROVE TypeOK'
    OBVIOUS
  <1> USE DEF TypeOK, planning, EdgesOfLayer
  <1>1. ASSUME NEW m \in Updates, MapArrives(m) PROVE TypeOK'
    BY <1>1, MapsAssumption DEF MapArrives
  <1>2. ASSUME NEW r \in Requests, Plan(r) PROVE TypeOK'
    BY <1>2 DEF Plan
  <1>3. CASE NoMapYet
    BY <1>3 DEF NoMapYet
  <1>4. CASE Validate
    BY <1>4 DEF Validate
  <1>5. CASE Segment
    <2>1. PICK r \in Ahead :
            /\ waypoints' = IF direction = 1
                 THEN Append(Append(waypoints, <<r[1], at>>), <<LastCell(r), at>>)
                 ELSE Append(Append(waypoints, <<LastCell(r), at>>), <<r[1], at>>)
            /\ x' = r[2]
      BY <1>5 DEF Segment
    <2>2. planned \in Maps /\ request.inflation \in Nat
      BY <1>5, RequestShape DEF Segment
    <2>3. r \in Nat \X Nat
      BY <2>2, RunClear DEF Ahead
    <2>4. <<r[1], at>> \in Int \X Int /\ <<LastCell(r), at>> \in Int \X Int /\ x' \in Int
      BY <2>1, <2>3 DEF LastCell
    <2>5. waypoints' \in Seq(Int \X Int)
      BY <2>1, <2>4
    <2> QED
      BY <1>5, <2>4, <2>5 DEF Segment
  <1>6. CASE NextRow
    BY <1>6, RequestShape DEF NextRow
  <1>7. CASE RowsDone
    <2>1. CASE Len(waypoints) < 3
      BY <1>7, <2>1 DEF RowsDone
    <2>2. CASE ~(Len(waypoints) < 3)
      <3>1. waypoints[1] \in Int \X Int /\ 2 \in 2 .. Len(waypoints)
        BY <2>2
      <3>2. <<waypoints[1]>> \in Seq(Int \X Int)
        BY <3>1
      <3>3. /\ pc' = "optimize" /\ at' = 2 /\ optimized' = <<waypoints[1]>>
            /\ UNCHANGED <<map, request, planned, answer, x, direction, waypoints>>
            /\ planned \in Maps
        BY <1>7, <2>2 DEF RowsDone
      <3>4. optimized' \in Seq(Int \X Int) /\ at' \in 2 .. Len(waypoints')
        BY <3>1, <3>2, <3>3
      <3> QED
        BY <3>3, <3>4
    <2> QED
      BY <2>1, <2>2
  <1>8. CASE OptimizePoint
    <2>1. optimized' \in Seq(Int \X Int)
      BY <1>8 DEF OptimizePoint
    <2> QED
      BY <1>8, <2>1 DEF OptimizePoint
  <1>9. CASE Optimized
    <2>1. waypoints[at] \in Int \X Int
      BY <1>9 DEF Optimized
    <2>2. waypoints' \in Seq(Int \X Int)
      BY <1>9, <2>1 DEF Optimized
    <2> QED
      BY <1>9, <2>2 DEF Optimized
  <1>10. CASE EdgeCell
    <2> DEFINE p == OnEdge(pc, Centre(planned), at, x)
    <2>1. waypoints' = IF p \in Cells(planned) THEN Append(waypoints, p) ELSE waypoints
      BY <1>10 DEF EdgeCell
    <2>2. p \in Cells(planned) => p \in Int \X Int
      BY <1>10, MapShape DEF EdgeCell, Cells
    <2> HIDE DEF p
    <2>3. waypoints' \in Seq(Int \X Int)
      BY <2>1, <2>2
    <2>4. pc' \in EdgesOfLayer /\ at' \in Nat
      BY <1>10 DEF EdgeCell, NextEdge
    <2>5. x' \in Int
      BY <1>10, <2>4 DEF EdgeCell
    <2> QED
      BY <1>10, <2>3, <2>4, <2>5 DEF EdgeCell
  <1>11. CASE LayersDone
    BY <1>11 DEF LayersDone
  <1>12. CASE UNCHANGED vars
    BY <1>12 DEF vars
  <1> QED
    BY <1>1, <1>2, <1>3, <1>4, <1>5, <1>6, <1>7, <1>8, <1>9, <1>10, <1>11, <1>12
       DEF Next, Serve

\* Every variable keeps its type; a route is planned on a map that was received.
THEOREM TypeCorrect == Spec => []TypeOK
  BY TypeInit, TypeStep, PTL DEF Spec

-----------------------------------------------------------------------------
(* Where the waypoints lie.                                                *)

\* The loops of a pattern only run for it, and nothing is left of the route of
\* an earlier request.
LoopOfPattern ==
    /\ pc \in {"rows", "optimize"} => request.pattern = "boustrophedon"
    /\ pc \in EdgesOfLayer => request.pattern = "spiral"
    /\ pc = "recv" => waypoints = <<>> /\ optimized = <<>>

AllClear(w) == \A j \in DOMAIN w : Clear(planned, request.inflation, w[j])

\* A back-and-forth route is clear of the inflated obstacles at every point of
\* its making.
RouteClear ==
    pc # "recv" /\ request.pattern = "boustrophedon"
        => AllClear(waypoints) /\ AllClear(optimized)

\* A spiral stays on the map, and no layer reaches back to the centre.
RouteOnMap ==
    pc # "recv" /\ request.pattern = "spiral"
        => /\ pc # "validate" => at >= 1
           /\ \A j \in DOMAIN waypoints :
                 waypoints[j] \in Cells(planned) \ {Centre(planned)}

PlaceInv == TypeOK /\ LoopOfPattern /\ RouteClear /\ RouteOnMap

\* The route after waypoints.append: the points it had, and one more.
LEMMA AppendElements ==
    ASSUME NEW T, NEW w \in Seq(T), NEW e \in T
    PROVE  /\ Append(w, e) \in Seq(T)
           /\ Len(Append(w, e)) = Len(w) + 1
           /\ \A j \in DOMAIN Append(w, e) : j \in DOMAIN w \/ j = Len(w) + 1
           /\ \A j \in DOMAIN w : j \in DOMAIN Append(w, e) /\ Append(w, e)[j] = w[j]
           /\ Len(w) + 1 \in DOMAIN Append(w, e) /\ Append(w, e)[Len(w) + 1] = e
  OBVIOUS

\* A clear point added to a clear route.
LEMMA ClearAppended ==
    ASSUME NEW T, NEW w \in Seq(T), AllClear(w), NEW e \in T,
           Clear(planned, request.inflation, e)
    PROVE  AllClear(Append(w, e))
  <1> SUFFICES ASSUME NEW j \in DOMAIN Append(w, e)
               PROVE  Clear(planned, request.inflation, Append(w, e)[j])
    BY Zenon DEF AllClear
  <1>1. CASE j \in DOMAIN w
    <2>1. Append(w, e)[j] = w[j]
      BY <1>1, AppendElements
    <2> QED
      BY <1>1, <2>1, Zenon DEF AllClear
  <1>2. CASE j = Len(w) + 1
    BY <1>2, AppendElements, Zenon
  <1> QED
    BY <1>1, <1>2, AppendElements, Zenon

\* A step along the edge of a layer never comes back to the centre of the map.
LEMMA EdgeOffCentre ==
    ASSUME NEW m \in Maps, NEW n \in Nat \ {0}, NEW k \in Int, NEW e \in EdgesOfLayer
    PROVE  OnEdge(e, Centre(m), n, k) # Centre(m)
  <1>1. m.width \in Nat /\ m.height \in Nat
    BY MapShape
  <1>2. PICK a, b \in Int : Centre(m) = <<a, b>>
    BY <1>1 DEF Centre
  <1>3. OnEdge(e, <<a, b>>, n, k) # <<a, b>>
    BY DEF OnEdge, EdgesOfLayer
  <1> QED
    BY <1>2, <1>3

\* Before the first request there is no route.
LEMMA PlaceInit == Init => PlaceInv
  <1> SUFFICES ASSUME Init PROVE PlaceInv
    OBVIOUS
  <1>1. TypeOK
    BY TypeInit
  <1> QED
    BY <1>1 DEF Init, PlaceInv, LoopOfPattern, RouteClear, RouteOnMap, EdgesOfLayer

\* Every action keeps the waypoints where they belong.
LEMMA PlaceStep == PlaceInv /\ [Next]_vars => PlaceInv'
  <1> SUFFICES ASSUME PlaceInv, [Next]_vars PROVE PlaceInv'
    OBVIOUS
  <1>0. TypeOK /\ TypeOK'
    BY TypeStep DEF PlaceInv
  <1> SUFFICES LoopOfPattern' /\ RouteClear' /\ RouteOnMap'
    BY <1>0 DEF PlaceInv
  <1> USE DEF PlaceInv, LoopOfPattern, RouteClear, RouteOnMap, AllClear, planning, EdgesOfLayer
  <1>1. ASSUME NEW m \in Updates, MapArrives(m) PROVE PlaceInv'
    BY <1>1, <1>0 DEF MapArrives
  <1>2. ASSUME NEW r \in Requests, Plan(r) PROVE PlaceInv'
    <2>1. r.pattern \in {"boustrophedon", "spiral"}
      BY DEF Requests
    <2>2. waypoints' = <<>> /\ optimized' = <<>> /\ request' = r
      BY <1>2 DEF Plan
    <2>3. CASE r.pattern = "spiral"
      BY <1>2, <2>2, <2>3, <1>0 DEF Plan
    <2>4. CASE r.pattern = "boustrophedon"
      BY <1>2, <2>2, <2>4, <1>0 DEF Plan
    <2> QED
      BY <2>1, <2>3, <2>4
  <1>3. CASE NoMapYet
    BY <1>3, <1>0 DEF NoMapYet
  <1>4. CASE Validate
    BY <1>4, <1>0 DEF Validate
  <1>5. CASE Segment
    <2>1. PICK r \in Ahead :
            /\ waypoints' = IF direction = 1
                 THEN Append(Append(waypoints, <<r[1], at>>), <<LastCell(r), at>>)
                 ELSE Append(Append(waypoints, <<LastCell(r), at>>), <<r[1], at>>)
      BY <1>5 DEF Segment
    <2>2. planned \in Maps /\ request.inflation \in Nat /\ at \in Nat
      BY <1>0, <1>5, RequestShape DEF Segment, TypeOK
    <2>3. /\ Clear(planned, request.inflation, <<r[1], at>>)
          /\ Clear(planned, request.inflation, <<LastCell(r), at>>)
      BY <2>2, RunClear DEF Ahead, LastCell
    <2>4. /\ <<r[1], at>> \in Int \X Int
          /\ <<LastCell(r), at>> \in Int \X Int
      BY <2>2, <2>3, ClearIsFree
    <2>5. ASSUME NEW a \in Int \X Int, NEW b \in Int \X Int,
                 Clear(planned, request.inflation, a), Clear(planned, request.inflation, b),
                 waypoints' = Append(Append(waypoints, a), b)
          PROVE  AllClear(waypoints')
      <3>1. waypoints \in Seq(Int \X Int) /\ AllClear(waypoints)
        BY <1>0, <1>5 DEF Segment, TypeOK
      <3>2. AllClear(Append(waypoints, a))
        BY <2>5, <3>1, ClearAppended
      <3>3. Append(waypoints, a) \in Seq(Int \X Int)
        BY <3>1, AppendElements
      <3> QED
        BY <2>5, <3>2, <3>3, ClearAppended
    <2>6. AllClear(waypoints')
      BY <2>1, <2>3, <2>4, <2>5
    <2> QED
      BY <1>5, <2>6 DEF Segment
  <1>6. CASE NextRow
    BY <1>6, <1>0 DEF NextRow
  <1>7. CASE RowsDone
    <2>1. CASE Len(waypoints) < 3
      BY <1>7, <2>1, <1>0 DEF RowsDone
    <2>2. CASE ~(Len(waypoints) < 3)
      <3>1. 1 \in DOMAIN waypoints /\ DOMAIN optimized' = {1} /\ optimized'[1] = waypoints[1]
        BY <1>0, <1>7, <2>2 DEF RowsDone, TypeOK
      <3> QED
        BY <1>7, <2>2, <3>1 DEF RowsDone
    <2> QED
      BY <2>1, <2>2
  <1>8. CASE OptimizePoint
    <2>1. /\ waypoints \in Seq(Int \X Int) /\ optimized \in Seq(Int \X Int)
          /\ at \in DOMAIN waypoints /\ waypoints[at] \in Int \X Int
      BY <1>0, <1>8 DEF OptimizePoint, TypeOK
    <2>2. AllClear(waypoints) /\ AllClear(optimized)
      BY <1>8 DEF OptimizePoint
    <2>3. AllClear(Append(optimized, waypoints[at]))
      <3>1. Clear(planned, request.inflation, waypoints[at])
        BY <2>1, <2>2 DEF AllClear
      <3> HIDE DEF AllClear
      <3> QED
        BY <2>1, <2>2, <3>1, ClearAppended
    <2>4. optimized' = Append(optimized, waypoints[at]) \/ optimized' = optimized
      BY <1>8 DEF OptimizePoint
    <2> QED
      BY <1>8, <2>2, <2>3, <2>4 DEF OptimizePoint
  <1>9. CASE Optimized
    <2>1. /\ waypoints \in Seq(Int \X Int) /\ optimized \in Seq(Int \X Int)
          /\ at \in DOMAIN waypoints /\ waypoints[at] \in Int \X Int
      BY <1>0, <1>9 DEF Optimized, TypeOK
    <2>2. AllClear(waypoints) /\ AllClear(optimized)
      BY <1>9 DEF Optimized
    <2>3. AllClear(Append(optimized, waypoints[at]))
      <3>1. Clear(planned, request.inflation, waypoints[at])
        BY <2>1, <2>2 DEF AllClear
      <3> HIDE DEF AllClear
      <3> QED
        BY <2>1, <2>2, <3>1, ClearAppended
    <2> QED
      BY <1>9, <2>2, <2>3 DEF Optimized
  <1>10. CASE EdgeCell
    <2> DEFINE p == OnEdge(pc, Centre(planned), at, x)
    <2>1. /\ waypoints \in Seq(Int \X Int) /\ planned \in Maps /\ x \in Int
          /\ at \in Nat \ {0} /\ pc \in EdgesOfLayer
      BY <1>0, <1>10 DEF EdgeCell, TypeOK
    <2>2. p # Centre(planned)
      BY <2>1, EdgeOffCentre
    <2>3. p \in Cells(planned) => p \in Int \X Int
      BY <2>1, MapShape DEF Cells
    <2>4. waypoints' = IF p \in Cells(planned) THEN Append(waypoints, p) ELSE waypoints
      BY <1>10 DEF EdgeCell
    <2> HIDE DEF p
    <2>5. \A j \in DOMAIN waypoints' :
             waypoints'[j] \in Cells(planned) \ {Centre(planned)}
      <3>1. \A j \in DOMAIN waypoints :
               waypoints[j] \in Cells(planned) \ {Centre(planned)}
        BY <1>10 DEF EdgeCell
      <3>2. CASE p \in Cells(planned)
        BY <2>1, <2>2, <2>3, <2>4, <3>1, <3>2, AppendElements
      <3>3. CASE p \notin Cells(planned)
        BY <2>4, <3>1, <3>3
      <3> QED
        BY <3>2, <3>3
    <2>6. at' >= 1 /\ pc' \in EdgesOfLayer
      BY <1>10, <2>1 DEF EdgeCell, NextEdge
    <2>7. planned' = planned /\ request' = request
      BY <1>10 DEF EdgeCell
    <2>8. request.pattern = "spiral"
      BY <2>1
    <2> QED
      BY <2>5, <2>6, <2>7, <2>8
  <1>11. CASE LayersDone
    BY <1>11 DEF LayersDone
  <1>12. CASE UNCHANGED vars
    BY <1>12 DEF vars
  <1> QED
    BY <1>1, <1>2, <1>3, <1>4, <1>5, <1>6, <1>7, <1>8, <1>9, <1>10, <1>11, <1>12
       DEF Next, Serve

\* Whatever the thread does and whichever maps arrive, waypoints are where they
\* belong.
LEMMA Placed == Spec => []PlaceInv
  BY PlaceInit, PlaceStep, PTL DEF Spec

\* Whatever the map, the stripes and the inflation, no waypoint of a
\* back-and-forth route is blocked or nearer to an obstacle than the robot and
\* its clearance need (_inflate_obstacles, _find_free_segments).
THEOREM AlwaysKeepsClear == Spec => []KeepsClear
  <1>1. PlaceInv => KeepsClear
    <2> SUFFICES ASSUME PlaceInv, Planned("boustrophedon"), NEW c \in Reached
                 PROVE  /\ c \in FreeCells(planned)
                        /\ \A o \in planned.blocked : ~Near(c, o, request.inflation)
      BY DEF KeepsClear
    <2>1. Clear(planned, request.inflation, c)
      BY DEF PlaceInv, RouteClear, AllClear, Planned, Reached
    <2>2. planned \in Maps /\ request.inflation \in Nat
      BY RequestShape DEF PlaceInv, TypeOK, Planned
    <2> QED
      BY <2>1, <2>2, ClearIsFree DEF Clear
  <1> QED
    BY <1>1, Placed, PTL

\* A route of an allowed length is refused only over another map than it was
\* planned on, or for an obstacle that a spiral, which inflates none, runs into
\* (cmd_loop, validate_waypoints).
THEOREM RefusedForAReason == Spec => RefusedOnlyOnNewMap
  <1>1. ASSUME PlaceInv, Next, pc = "validate", pc' = "recv", answer' = "error",
               Len(waypoints) \in 2 .. MaxWaypoints, map = planned
        PROVE  request.pattern = "spiral" /\ planned.blocked \ {Centre(planned)} # {}
    <2>1. answer' = IF Valid(waypoints, map) THEN "ok" ELSE "error"
      BY <1>1 DEF Next, Serve, MapArrives, NoMapYet, Plan, Validate, Segment, NextRow,
         RowsDone, OptimizePoint, Optimized, EdgeCell, LayersDone, EdgesOfLayer
    <2>2. PICK i \in DOMAIN waypoints : waypoints[i] \notin FreeCells(planned)
      BY <1>1, <2>1 DEF Valid
    <2>3. planned \in Maps /\ request.inflation \in Nat
          /\ request.pattern \in {"boustrophedon", "spiral"}
      BY <1>1, RequestShape DEF PlaceInv, TypeOK
    <2>4. request.pattern # "boustrophedon"
      BY <1>1, <2>2, <2>3, ClearIsFree DEF PlaceInv, RouteClear, AllClear
    <2>5. waypoints[i] \in Cells(planned) \ {Centre(planned)}
      BY <1>1, <2>3, <2>4 DEF PlaceInv, RouteOnMap
    <2> QED
      BY <2>2, <2>3, <2>4, <2>5 DEF FreeCells
  <1>2. PlaceInv /\ [Next]_vars =>
          [(pc = "validate" /\ pc' = "recv" /\ answer' = "error"
               /\ Len(waypoints) \in 2 .. MaxWaypoints)
           => \/ map # planned
              \/ request.pattern = "spiral"
                    /\ planned.blocked \ {Centre(planned)} # {}]_vars
    BY <1>1
  <1> QED
    BY <1>2, Placed, PTL DEF Spec, RefusedOnlyOnNewMap

-----------------------------------------------------------------------------
(* Which waypoints are kept.                                               *)

FreeRuns(y) == Runs(planned, request.inflation, y)

\* The row scanned is one to drive on; the route lies in the rows before it,
\* or in this one once a segment of it was found.
RowsInOrder ==
    pc = "rows" =>
        /\ Stripe(at)
        /\ x \in Nat
        /\ x > 0 => \E q \in FreeRuns(at) : q[1] < x
        /\ \A j \in DOMAIN waypoints :
              /\ waypoints[j][2] <= at
              /\ x = 0 => waypoints[j][2] + StripeCells <= at

\* The route w goes from one end of run r of row y to the other, comes from a
\* row at least s before it and leaves for one at least s after it.
PassedAt(w, y, r, s, j) ==
    /\ \/ w[j] = <<r[1], y>> /\ w[j + 1] = <<r[2] - 1, y>>
       \/ w[j] = <<r[2] - 1, y>> /\ w[j + 1] = <<r[1], y>>
    /\ j > 1 => w[j - 1][2] + s <= y
    /\ j + 1 < Len(w) => y + s <= w[j + 2][2]

Passed(w, y, r, s) == \E j \in 1 .. Len(w) - 1 : PassedAt(w, y, r, s, j)

\* Run r is the only one of stripe y.
Single(y, r) == y \in 0 .. planned.height - 1 /\ Stripe(y) /\ FreeRuns(y) = {r}

\* The only run of a row is on the route once the row was scanned up to it.
SinglesPassed ==
    /\ pc = "rows" => \A y \in 0 .. planned.height - 1 : \A r \in FreeRuns(y) :
          Single(y, r) /\ (y < at \/ (y = at /\ r[1] < x)) => Passed(waypoints, y, r, StripeCells)
    /\ pc = "optimize" => \A y \in 0 .. planned.height - 1 : \A r \in FreeRuns(y) :
          Single(y, r) => Passed(waypoints, y, r, StripeCells)

Turning(j) == Cross(waypoints[j - 1], waypoints[j], waypoints[j + 1]) > Flat

\* The points kept so far are the first and those at which the route turns.
TurnsKept ==
    pc = "optimize" =>
        /\ \E k \in DOMAIN optimized : optimized[k] = waypoints[1]
        /\ \A j \in 2 .. at - 1 : Turning(j)
              => \E k \in DOMAIN optimized : optimized[k] = waypoints[j]

PassInv == PlaceInv /\ RowsInOrder /\ SinglesPassed /\ TurnsKept /\ SinglePassesKept

-----------------------------------------------------------------------------
(* A route that grows by a segment, and the turns of a single one.         *)

\* Two more points: where the old ones and the new ones are.
LEMMA AppendTwo ==
    ASSUME NEW T, NEW w \in Seq(T), NEW a \in T, NEW b \in T
    PROVE  LET v == Append(Append(w, a), b)
           IN  /\ v \in Seq(T) /\ Len(v) = Len(w) + 2
               /\ DOMAIN v = 1 .. Len(w) + 2
               /\ \A j \in 1 .. Len(w) : v[j] = w[j]
               /\ v[Len(w) + 1] = a /\ v[Len(w) + 2] = b
  OBVIOUS

\* A run that was passed stays so when the route goes on in a later stripe.
LEMMA PassedGrows ==
    ASSUME NEW w \in Seq(Int \X Int), NEW a \in Int \X Int, NEW b \in Int \X Int,
           NEW y \in Nat, NEW r \in Nat \X Nat, NEW s \in Nat,
           y + s <= a[2], Passed(w, y, r, s)
    PROVE  Passed(Append(Append(w, a), b), y, r, s)
  <1> DEFINE v == Append(Append(w, a), b)
  <1>1. /\ Len(v) = Len(w) + 2 /\ Len(w) \in Nat
        /\ \A j \in 1 .. Len(w) : v[j] = w[j]
        /\ v[Len(w) + 1] = a
    BY AppendTwo
  <1> HIDE DEF v
  <1>2. PICK j \in 1 .. Len(w) - 1 : PassedAt(w, y, r, s, j)
    BY DEF Passed
  <1> DEFINE n == Len(w)
  <1> HIDE DEF n
  <1>n. n \in Nat /\ Len(v) = n + 2 /\ j \in 1 .. n - 1 /\ (\A i \in 1 .. n : v[i] = w[i])
    BY <1>1, <1>2 DEF n
  <1>3. j \in 1 .. Len(v) - 1 /\ v[j] = w[j] /\ v[j + 1] = w[j + 1]
    BY <1>n
  <1>4. j > 1 => v[j - 1] = w[j - 1]
    BY <1>n
  <1>5. y + s <= v[j + 2][2]
    <2>1. CASE j + 1 < n
      <3>1. v[j + 2] = w[j + 2]
        BY <1>n, <2>1
      <3> QED
        BY <1>2, <2>1, <3>1 DEF PassedAt, n
    <2>2. CASE j + 1 = n
      <3>1. v[j + 2] = a
        <4>1. v[n + 1] = a
          BY <1>1 DEF n
        <4>2. j + 2 = n + 1
          BY <1>n, <2>2
        <4> QED
          BY <4>1, <4>2
      <3> QED
        BY <3>1
    <2> QED
      BY <1>n, <2>1, <2>2
  <1>6. PassedAt(v, y, r, s, j)
    BY <1>2, <1>3, <1>4, <1>5 DEF PassedAt
  <1> QED
    BY <1>3, <1>6 DEF Passed, v

\* A run is passed by the segment that is appended for it.
LEMMA PassedNow ==
    ASSUME NEW w \in Seq(Int \X Int), NEW a \in Int \X Int, NEW b \in Int \X Int,
           NEW y \in Nat, NEW r \in Nat \X Nat, NEW s \in Nat,
           \/ a = <<r[1], y>> /\ b = <<r[2] - 1, y>>
           \/ a = <<r[2] - 1, y>> /\ b = <<r[1], y>>,
           \A j \in DOMAIN w : w[j][2] + s <= y
    PROVE  Passed(Append(Append(w, a), b), y, r, s)
  <1> DEFINE v == Append(Append(w, a), b)
  <1> DEFINE n == Len(w) + 1
  <1>1. /\ Len(v) = n + 1 /\ n \in Nat /\ n >= 1
        /\ \A j \in 1 .. Len(w) : v[j] = w[j]
        /\ v[n] = a /\ v[n + 1] = b
    BY AppendTwo
  <1>2. n > 1 => v[n - 1] = w[n - 1] /\ n - 1 \in DOMAIN w
    BY <1>1
  <1> HIDE DEF v, n
  <1>3. PassedAt(v, y, r, s, n)
    <2>1. \/ v[n] = <<r[1], y>> /\ v[n + 1] = <<r[2] - 1, y>>
          \/ v[n] = <<r[2] - 1, y>> /\ v[n + 1] = <<r[1], y>>
      BY <1>1, Zenon
    <2>2. n > 1 => v[n - 1][2] + s <= y
      BY <1>2
    <2>3. ~(n + 1 < Len(v))
      BY <1>1
    <2> QED
      BY <2>1, <2>2, <2>3, Zenon DEF PassedAt
  <1>4. n \in 1 .. Len(v) - 1
    BY <1>1
  <1>5. Passed(v, y, r, s)
    BY <1>3, <1>4, Zenon DEF Passed
  <1> QED
    BY <1>5 DEF v

\* Products of naturals grow with their factors.
LEMMA Products ==
    ASSUME NEW a \in Nat, NEW b \in Nat, NEW c \in Nat, a <= b
    PROVE  c * a <= c * b
  <1>1. c * (b - a) \in Nat
    OBVIOUS
  <1>2. c * (b - a) = c * b - c * a
    OBVIOUS
  <1> QED
    BY <1>1, <1>2

\* The route turns at both ends of a run that is long enough, seen from any
\* point a stripe or more away (the cross product of _optimize_waypoints).
LEMMA RunTurns ==
    ASSUME NEW f \in Int, NEW t \in Int, NEW y \in Nat, NEW s \in Nat, NEW len \in Nat,
           t - f = len \/ f - t = len, len * s > Flat,
           NEW p \in Int \X Int
    PROVE  /\ p[2] + s <= y => Cross(p, <<f, y>>, <<t, y>>) > Flat
           /\ y + s <= p[2] => Cross(<<f, y>>, <<t, y>>, p) > Flat
  <1>0. Flat \in Nat
    BY LengthsAssumption
  <1>1. ASSUME p[2] + s <= y PROVE Cross(p, <<f, y>>, <<t, y>>) > Flat
    <2>1. PICK d \in Nat : d = y - p[2] /\ s <= d
      BY <1>1
    <2>2. len * s <= len * d
      BY <2>1, Products
    <2>3. len * d \in Nat /\ len * d > Flat
      BY <1>0, <2>1, <2>2
    <2>4. (f - p[1]) * (y - y) - (y - p[2]) * (t - f) = 0 - d * (t - f)
      BY <2>1
    <2>5. 0 - d * (t - f) = len * d \/ 0 - d * (t - f) = -(len * d)
      BY <2>1
    <2> QED
      BY <1>0, <2>3, <2>4, <2>5 DEF Cross
  <1>2. ASSUME y + s <= p[2] PROVE Cross(<<f, y>>, <<t, y>>, p) > Flat
    <2>1. PICK d \in Nat : d = p[2] - y /\ s <= d
      BY <1>2
    <2>2. len * s <= len * d
      BY <2>1, Products
    <2>3. len * d \in Nat /\ len * d > Flat
      BY <1>0, <2>1, <2>2
    <2>4. (t - f) * (p[2] - y) - (y - y) * (p[1] - t) = (t - f) * d
      BY <2>1
    <2>5. (t - f) * d = len * d \/ (t - f) * d = -(len * d)
      BY <2>1
    <2> QED
      BY <1>0, <2>3, <2>4, <2>5 DEF Cross
  <1> QED
    BY <1>1, <1>2

-----------------------------------------------------------------------------
(* The planning loops, one by one.                                         *)

\* While a request is served its stripes and free runs are the same.
LEMMA SameRequest ==
    ASSUME UNCHANGED <<request, planned>>
    PROVE  /\ StripeCells' = StripeCells
           /\ \A y : FreeRuns(y)' = FreeRuns(y)
           /\ \A y : Stripe(y)' <=> Stripe(y)
           /\ \A y, r : Single(y, r)' <=> Single(y, r)
  BY DEF StripeCells, FreeRuns, Stripe, Single

\* A segment is appended: an earlier single run stays passed, and the one of
\* this row, if it is single, is the segment.
LEMMA SegmentPasses ==
    ASSUME PassInv, TypeOK', Segment
    PROVE  (RowsInOrder /\ SinglesPassed)'
  <1>1. /\ planned \in Maps /\ at \in Nat /\ request \in Requests
        /\ waypoints \in Seq(Int \X Int)
        /\ pc = "rows" /\ pc' = "rows" /\ at' = at
        /\ UNCHANGED <<request, planned>>
    BY DEF PassInv, PlaceInv, TypeOK, Segment, planning
  <1>2. request.inflation \in Nat /\ StripeCells \in Nat \ {0}
    BY <1>1, RequestShape
  <1>3. PICK r \in Ahead :
          /\ waypoints' = IF direction = 1
               THEN Append(Append(waypoints, <<r[1], at>>), <<LastCell(r), at>>)
               ELSE Append(Append(waypoints, <<LastCell(r), at>>), <<r[1], at>>)
          /\ x' = r[2]
    BY DEF Segment
  <1>4. /\ r \in FreeRuns(at) /\ r[1] >= x
        /\ r \in Nat \X Nat /\ r[1] < r[2]
    BY <1>1, <1>2, <1>3, RunClear DEF Ahead, FreeRuns
  <1>5. PICK a \in Int \X Int, b \in Int \X Int :
          /\ waypoints' = Append(Append(waypoints, a), b)
          /\ a[2] = at /\ b[2] = at
          /\ \/ a = <<r[1], at>> /\ b = <<r[2] - 1, at>>
             \/ a = <<r[2] - 1, at>> /\ b = <<r[1], at>>
    <2>1. LastCell(r) = r[2] - 1
      BY DEF LastCell
    <2>2. <<r[1], at>> \in Int \X Int /\ <<r[2] - 1, at>> \in Int \X Int
      BY <1>1, <1>4
    <2>3. CASE direction = 1
      BY <1>3, <2>1, <2>2, <2>3
    <2>4. CASE direction # 1
      BY <1>3, <2>1, <2>2, <2>4
    <2> QED
      BY <2>3, <2>4
  <1>6. /\ Stripe(at) /\ x \in Nat
        /\ x > 0 => \E q \in FreeRuns(at) : q[1] < x
        /\ \A j \in DOMAIN waypoints :
              /\ waypoints[j][2] <= at
              /\ x = 0 => waypoints[j][2] + StripeCells <= at
    BY <1>1 DEF PassInv, RowsInOrder
  <1>7. RowsInOrder'
    <2>1. x' \in Nat /\ x' > 0 /\ r[1] < x'
      BY <1>3, <1>4
    <2>2. \A j \in DOMAIN waypoints' : waypoints'[j][2] <= at
      <3>1. DOMAIN waypoints' = 1 .. Len(waypoints) + 2
            /\ (\A j \in 1 .. Len(waypoints) : waypoints'[j] = waypoints[j])
            /\ waypoints'[Len(waypoints) + 1] = a /\ waypoints'[Len(waypoints) + 2] = b
        BY <1>1, <1>5, AppendTwo
      <3>2. ASSUME NEW j \in 1 .. Len(waypoints) PROVE waypoints'[j][2] <= at
        BY <1>6, <3>1
      <3>3. waypoints'[Len(waypoints) + 1][2] = at /\ waypoints'[Len(waypoints) + 2][2] = at
        BY <1>5, <3>1
      <3>4. \A j \in DOMAIN waypoints' :
               j \in 1 .. Len(waypoints) \/ j \in {Len(waypoints) + 1, Len(waypoints) + 2}
        <4>1. Len(waypoints) \in Nat
          BY <1>1
        <4> QED
          BY <3>1, <4>1
      <3> QED
        BY <1>1, <3>2, <3>3, <3>4
    <2> QED
      BY <1>1, <1>4, <1>6, <2>1, <2>2, SameRequest DEF RowsInOrder
  <1>8. ASSUME NEW y \in 0 .. planned.height - 1, NEW q \in FreeRuns(y), Single(y, q),
               y < at \/ (y = at /\ q[1] < x')
        PROVE  Passed(waypoints', y, q, StripeCells)
    <2>0. y \in Nat
      BY <1>1, MapShape
    <2>1. q \in Nat \X Nat
      BY <1>1, <1>2, <2>0, RunClear DEF FreeRuns
    <2>2. CASE y < at
      <3>1. Passed(waypoints, y, q, StripeCells)
        BY <1>1, <1>8, <2>2 DEF PassInv, SinglesPassed
      <3>2. y + StripeCells <= a[2]
        BY <1>1, <1>5, <1>6, <1>8, <2>0, <2>2, StripesApart DEF Single
      <3> QED
        BY <1>1, <1>2, <1>5, <2>0, <2>1, <3>1, <3>2, PassedGrows
    <2>3. CASE y = at
      <3>1. q = r
        BY <1>4, <1>8, <2>3 DEF Single
      <3>2. x = 0
        BY <1>4, <1>6, <1>8, <2>3, <3>1 DEF Single
      <3>3. \A j \in DOMAIN waypoints : waypoints[j][2] + StripeCells <= at
        BY <1>6, <3>2
      <3> QED
        BY <1>1, <1>2, <1>4, <1>5, <2>3, <3>1, <3>3, PassedNow
    <2> QED
      BY <1>1, <1>8, <2>0, <2>2, <2>3
  <1>9. SinglesPassed'
    BY <1>1, <1>8, SameRequest DEF SinglesPassed
  <1> QED
    BY <1>7, <1>9

\* The next row: this one has no run ahead, so its only run, if it has one, was
\* passed, and the rows skipped are none to drive on.
LEMMA NextRowPasses ==
    ASSUME PassInv, TypeOK', NextRow
    PROVE  (RowsInOrder /\ SinglesPassed)'
  <1>1. /\ planned \in Maps /\ at \in Nat /\ request \in Requests
        /\ waypoints \in Seq(Int \X Int) /\ waypoints' = waypoints
        /\ pc = "rows" /\ pc' = "rows" /\ at' = at + StripeCells /\ x' = 0
        /\ Ahead = {}
        /\ UNCHANGED <<request, planned>>
    BY DEF PassInv, PlaceInv, TypeOK, NextRow, planning
  <1>2. request.inflation \in Nat /\ StripeCells \in Nat \ {0}
    BY <1>1, RequestShape
  <1>3. /\ Stripe(at) /\ x \in Nat
        /\ \A j \in DOMAIN waypoints : waypoints[j][2] <= at
    BY <1>1 DEF PassInv, RowsInOrder
  <1>4. \A j \in DOMAIN waypoints : waypoints[j][2] \in Int
    BY <1>1
  <1>5. Stripe(at')
    BY <1>1, <1>3, NextStripe
  <1>6. \A j \in DOMAIN waypoints : waypoints[j][2] + StripeCells <= at' /\ waypoints[j][2] <= at'
    BY <1>1, <1>2, <1>3, <1>4
  <1>7. RowsInOrder'
    BY <1>1, <1>5, <1>6, SameRequest DEF RowsInOrder
  <1>8. ASSUME NEW y \in 0 .. planned.height - 1, NEW q \in FreeRuns(y), Single(y, q),
               y < at' \/ (y = at' /\ q[1] < x')
        PROVE  Passed(waypoints, y, q, StripeCells)
    <2>0. y \in Nat
      BY <1>1, MapShape
    <2>1. q \in Nat \X Nat
      BY <1>1, <1>2, <2>0, RunClear DEF FreeRuns
    <2>2. y <= at
      <3>1. y < at'
        BY <1>1, <1>8, <2>1
      <3>2. y <= at \/ at + StripeCells <= y
        BY <1>1, <1>3, <1>8, <2>0, StripesApart DEF Single
      <3> QED
        BY <1>1, <1>2, <2>0, <3>1, <3>2
    <2>3. y = at => q[1] < x
      BY <1>1, <1>3, <2>1 DEF Ahead, FreeRuns
    <2>4. y < at \/ (y = at /\ q[1] < x)
      BY <1>1, <2>0, <2>2, <2>3
    <2> QED
      BY <1>1, <1>8, <2>4 DEF PassInv, SinglesPassed
  <1>9. SinglesPassed'
    BY <1>1, <1>8, SameRequest DEF SinglesPassed
  <1> QED
    BY <1>7, <1>9

\* The rows are done: every single run was passed.
LEMMA AllPassed ==
    ASSUME PassInv, RowsDone,
           NEW y \in 0 .. planned.height - 1, NEW r \in FreeRuns(y), Single(y, r)
    PROVE  Passed(waypoints, y, r, StripeCells)
  <1>1. pc = "rows" /\ at >= planned.height /\ planned \in Maps /\ at \in Nat
    BY DEF RowsDone, PassInv, PlaceInv, TypeOK
  <1>2. y < at
    BY <1>1, MapShape
  <1> QED
    BY <1>1, <1>2 DEF PassInv, SinglesPassed

\* The last point is kept as well: both ends of a single run are on the route
\* that is left, if the run is long enough for the turns to count.
LEMMA EndsKept ==
    ASSUME PassInv, TypeOK', Optimized
    PROVE  SinglePassesKept'
  <1>1. /\ planned \in Maps /\ request \in Requests /\ pc = "optimize"
        /\ waypoints \in Seq(Int \X Int) /\ optimized \in Seq(Int \X Int)
        /\ at = Len(waypoints) /\ at \in Nat /\ at >= 2
        /\ waypoints' = Append(optimized, waypoints[at])
        /\ UNCHANGED <<request, planned>>
    BY DEF PassInv, PlaceInv, TypeOK, Optimized, planning
  <1>2. request.inflation \in Nat /\ StripeCells \in Nat \ {0}
    BY <1>1, RequestShape
  <1>3. ASSUME NEW j \in 1 .. at, j = 1 \/ j = at \/ Turning(j)
        PROVE  waypoints[j] \in Reached'
    <2>0. waypoints[at] \in Int \X Int
      BY <1>1
    <2>1. ASSUME NEW k \in DOMAIN optimized PROVE optimized[k] \in Reached'
      <3>1. k \in DOMAIN waypoints' /\ waypoints'[k] = optimized[k]
        <4>1. /\ k \in DOMAIN Append(optimized, waypoints[at])
              /\ Append(optimized, waypoints[at])[k] = optimized[k]
          <5>1. optimized \in Seq(Int \X Int)
            BY <1>1
          <5> QED
            BY <2>0, <5>1, AppendElements
        <4> QED
          BY <1>1, <4>1, Zenon
      <3> QED
        BY <3>1 DEF Reached
    <2>2. waypoints[at] \in Reached'
      <3>1. Len(optimized) + 1 \in DOMAIN waypoints' /\ waypoints'[Len(optimized) + 1] = waypoints[at]
        BY <1>1, <2>0, AppendElements
      <3> QED
        BY <3>1 DEF Reached
    <2>3. CASE j = at
      BY <2>2, <2>3
    <2>4. CASE j = 1
      BY <1>1, <2>1, <2>4 DEF PassInv, TurnsKept
    <2>5. CASE j \in 2 .. at - 1 /\ Turning(j)
      BY <1>1, <2>1, <2>5 DEF PassInv, TurnsKept
    <2> QED
      BY <1>1, <1>3, <2>3, <2>4, <2>5
  <1>4. ASSUME NEW y \in 0 .. planned.height - 1, NEW r \in FreeRuns(y), Single(y, r),
               (r[2] - 1 - r[1]) * StripeCells > Flat
        PROVE  <<r[1], y>> \in Reached' /\ <<r[2] - 1, y>> \in Reached'
    <2>0. y \in Nat
      BY <1>1, MapShape
    <2>1. r \in Nat \X Nat /\ r[1] < r[2]
      BY <1>1, <1>2, <2>0, RunClear DEF FreeRuns
    <2>2. PICK len \in Nat : len = r[2] - 1 - r[1]
      BY <2>1
    <2>3. Passed(waypoints, y, r, StripeCells)
      BY <1>1, <1>4 DEF PassInv, SinglesPassed
    <2>4. PICK j \in 1 .. at - 1 : PassedAt(waypoints, y, r, StripeCells, j)
      BY <1>1, <2>3 DEF Passed
    <2>5. PICK f \in Int, t \in Int :
            /\ waypoints[j] = <<f, y>> /\ waypoints[j + 1] = <<t, y>>
            /\ t - f = len \/ f - t = len
            /\ {<<f, y>>, <<t, y>>} = {<<r[1], y>>, <<r[2] - 1, y>>}
      <3>1. CASE waypoints[j] = <<r[1], y>> /\ waypoints[j + 1] = <<r[2] - 1, y>>
        BY <2>1, <2>2, <3>1
      <3>2. CASE waypoints[j] = <<r[2] - 1, y>> /\ waypoints[j + 1] = <<r[1], y>>
        BY <2>1, <2>2, <3>2
      <3> QED
        BY <2>4, <3>1, <3>2 DEF PassedAt
    <2>6. len * StripeCells > Flat
      BY <1>4, <2>2
    <2>7. waypoints[j] \in Reached'
      <3>1. CASE j = 1
        BY <1>1, <1>3, <2>4, <3>1
      <3>2. CASE j > 1
        <4>1. j - 1 \in 1 .. Len(waypoints) /\ j \in 1 .. at
          BY <1>1, <2>4, <3>2
        <4>2. waypoints[j - 1] \in Int \X Int /\ waypoints[j - 1][2] + StripeCells <= y
          BY <1>1, <2>4, <3>2, <4>1 DEF PassedAt
        <4>3. Cross(waypoints[j - 1], <<f, y>>, <<t, y>>) > Flat
          <5>1. \A c \in Int \X Int : c[2] + StripeCells <= y
                  => Cross(c, <<f, y>>, <<t, y>>) > Flat
            BY <1>2, <2>0, <2>2, <2>5, <2>6, RunTurns
          <5> QED
            BY <4>2, <5>1
        <4>4. Turning(j)
          BY <2>5, <4>3 DEF Turning
        <4> QED
          BY <1>3, <4>1, <4>4
      <3> QED
        BY <2>4, <3>1, <3>2
    <2>8. waypoints[j + 1] \in Reached'
      <3>1. CASE j + 1 = at
        BY <1>1, <1>3, <3>1
      <3>2. CASE j + 1 < at
        <4>1. j + 2 \in 1 .. Len(waypoints) /\ j + 1 \in 1 .. at
          BY <1>1, <2>4, <3>2
        <4>2. waypoints[j + 2] \in Int \X Int /\ y + StripeCells <= waypoints[j + 2][2]
          BY <1>1, <2>4, <3>2, <4>1 DEF PassedAt
        <4>3. Cross(<<f, y>>, <<t, y>>, waypoints[j + 2]) > Flat
          BY <1>2, <2>0, <2>2, <2>5, <2>6, <4>2, RunTurns
        <4>4. (j + 1) - 1 = j /\ (j + 1) + 1 = j + 2
          BY <2>4
        <4>5. Turning(j + 1)
          BY <2>5, <4>3, <4>4 DEF Turning
        <4> QED
          BY <1>3, <4>1, <4>5
      <3> QED
        BY <1>1, <2>4, <3>1, <3>2
    <2> QED
      BY <2>5, <2>7, <2>8
  <1>5. \A y \in 0 .. planned.height - 1 : \A r \in FreeRuns(y) :
          Single(y, r) /\ (r[2] - 1 - r[1]) * StripeCells > Flat => Ends(r, y) \subseteq Reached'
    BY <1>4 DEF Ends
  <1> QED
    BY <1>1, <1>5, SameRequest DEF SinglePassesKept, Single, FreeRuns

\* Before the first request nothing was to be passed.
LEMMA PassInit == Init => PassInv
  <1>1. Init => PlaceInv
    BY PlaceInit
  <1> QED
    BY <1>1 DEF Init, PassInv, RowsInOrder, SinglesPassed, TurnsKept, SinglePassesKept, Planned

\* Planning starts in row 0, which is one to drive on, with nothing passed.
LEMMA PlanPasses ==
    ASSUME PassInv, TypeOK', NEW n \in Requests, Plan(n)
    PROVE  (RowsInOrder /\ SinglesPassed /\ TurnsKept /\ SinglePassesKept)'
  <1>1. CASE n.pattern = "spiral"
    BY <1>1 DEF Plan, RowsInOrder, SinglesPassed, TurnsKept, SinglePassesKept, Planned
  <1>2. CASE n.pattern # "spiral"
    <2>1. /\ pc' = "rows" /\ at' = 0 /\ x' = 0 /\ waypoints' = <<>>
          /\ request' \in Requests /\ planned' \in Maps
      BY <1>2 DEF Plan, PassInv, PlaceInv, LoopOfPattern, TypeOK
    <2>2. Stripe(at)'
      <3>1. StripeCells' \in Nat
        <4>1. request'.stripe \in Nat
          BY <2>1, LengthsAssumption DEF Requests
        <4> QED
          BY <4>1 DEF StripeCells
      <3>2. \A s \in Nat : \E k \in 0 .. 0 : 0 = k * s
        OBVIOUS
      <3> QED
        BY <2>1, <3>1, <3>2 DEF Stripe
    <2>3. RowsInOrder'
      BY <2>1, <2>2 DEF RowsInOrder
    <2>4. SinglesPassed'
      <3>1. request'.inflation \in Nat
        BY <2>1, LengthsAssumption DEF Requests
      <3>2. ASSUME NEW y \in 0 .. planned'.height - 1,
                   NEW r \in Runs(planned', request'.inflation, y)
            PROVE  ~(y < 0 \/ (y = 0 /\ r[1] < 0))
        <4>1. y \in Nat
          BY <2>1, MapShape
        <4>2. r \in Nat \X Nat
          BY <2>1, <3>1, <4>1, RunClear
        <4> QED
          BY <4>1, <4>2
      <3> QED
        BY <2>1, <3>2 DEF SinglesPassed, FreeRuns
    <2> QED
      BY <2>1, <2>3, <2>4 DEF TurnsKept, SinglePassesKept, Planned
  <1> QED
    BY <1>1, <1>2

\* The rows are done: a route of two points needs no more, a longer one is
\* optimized from its first point on.
LEMMA RowsDonePasses ==
    ASSUME PassInv, TypeOK', RowsDone
    PROVE  (RowsInOrder /\ SinglesPassed /\ TurnsKept /\ SinglePassesKept)'
  <1>1. /\ waypoints \in Seq(Int \X Int) /\ waypoints' = waypoints
        /\ UNCHANGED <<request, planned>>
    BY DEF PassInv, PlaceInv, TypeOK, RowsDone, planning
  <1>2. \A y \in 0 .. planned.height - 1 : \A r \in FreeRuns(y) :
          Single(y, r) => Passed(waypoints, y, r, StripeCells)
    BY AllPassed
  <1>3. CASE Len(waypoints) < 3
    <2>1. pc' = "validate"
      BY <1>3 DEF RowsDone
    <2>2. ASSUME NEW y \in 0 .. planned.height - 1, NEW r \in FreeRuns(y), Single(y, r)
          PROVE  Ends(r, y) \subseteq Reached'
      <3>1. PICK j \in 1 .. Len(waypoints) - 1 : PassedAt(waypoints, y, r, StripeCells, j)
        BY <1>2, <2>2 DEF Passed
      <3>2. j \in DOMAIN waypoints /\ j + 1 \in DOMAIN waypoints
        BY <1>1
      <3>3. {waypoints[j], waypoints[j + 1]} \subseteq Reached'
        BY <1>1, <3>2 DEF Reached
      <3> QED
        BY <3>1, <3>3 DEF PassedAt, Ends
    <2>3. SinglePassesKept'
      BY <1>1, <2>2, SameRequest DEF SinglePassesKept, Single, FreeRuns
    <2> QED
      BY <2>1, <2>3 DEF RowsInOrder, SinglesPassed, TurnsKept
  <1>4. CASE ~(Len(waypoints) < 3)
    <2>1. pc' = "optimize" /\ at' = 2 /\ optimized' = <<waypoints[1]>>
      BY <1>4 DEF RowsDone
    <2>2. SinglesPassed'
      BY <1>1, <1>2, <2>1, SameRequest DEF SinglesPassed
    <2>3. TurnsKept'
      <3>1. 1 \in DOMAIN optimized' /\ optimized'[1] = waypoints'[1]
        BY <1>1, <2>1
      <3>2. 2 .. at' - 1 = {}
        BY <2>1
      <3> QED
        BY <3>1, <3>2 DEF TurnsKept
    <2> QED
      BY <2>1, <2>2, <2>3 DEF RowsInOrder, SinglePassesKept, Planned
  <1> QED
    BY <1>3, <1>4

\* A point in the middle is kept if the route turns there.
LEMMA PointKept ==
    ASSUME PassInv, TypeOK', OptimizePoint
    PROVE  (SinglesPassed /\ TurnsKept)'
  <1>1. /\ pc = "optimize" /\ pc' = "optimize"
        /\ waypoints \in Seq(Int \X Int) /\ optimized \in Seq(Int \X Int)
        /\ at \in 2 .. Len(waypoints) /\ at' = at + 1
        /\ waypoints' = waypoints /\ UNCHANGED <<request, planned>>
        /\ optimized' = IF Turning(at) THEN Append(optimized, waypoints[at]) ELSE optimized
    BY DEF PassInv, PlaceInv, TypeOK, OptimizePoint, planning, Turning
  <1>2. SinglesPassed'
    BY <1>1, SameRequest DEF PassInv, SinglesPassed
  <1>3. waypoints[at] \in Int \X Int
    BY <1>1
  <1>4. ASSUME NEW p, \E k \in DOMAIN optimized : optimized[k] = p
        PROVE  \E k \in DOMAIN optimized' : optimized'[k] = p
    <2>1. PICK k \in DOMAIN optimized : optimized[k] = p
      BY <1>4
    <2>2. k \in DOMAIN optimized' /\ optimized'[k] = optimized[k]
      <3>1. CASE Turning(at)
        <4>1. /\ k \in DOMAIN Append(optimized, waypoints[at])
              /\ Append(optimized, waypoints[at])[k] = optimized[k]
          <5>1. optimized \in Seq(Int \X Int)
            BY <1>1
          <5> QED
            BY <1>3, <5>1, AppendElements
        <4> QED
          BY <1>1, <3>1, <4>1, Zenon
      <3>2. CASE ~Turning(at)
        BY <1>1, <3>2
      <3> QED
        BY <3>1, <3>2
    <2> QED
      BY <2>1, <2>2
  <1>5. Turning(at) => \E k \in DOMAIN optimized' : optimized'[k] = waypoints[at]
    <2> SUFFICES ASSUME Turning(at)
                 PROVE  \E k \in DOMAIN optimized' : optimized'[k] = waypoints[at]
      OBVIOUS
    <2>1. /\ Len(optimized) + 1 \in DOMAIN optimized'
          /\ optimized'[Len(optimized) + 1] = waypoints[at]
      BY <1>1, <1>3
    <2> QED
      BY <2>1
  <1>6. \A j : Turning(j)' <=> Turning(j)
    BY <1>1 DEF Turning
  <1>7. ASSUME NEW j \in 2 .. at' - 1, Turning(j)
        PROVE  \E k \in DOMAIN optimized' : optimized'[k] = waypoints[j]
    <2>1. CASE j = at
      BY <1>5, <1>7, <2>1
    <2>2. CASE j \in 2 .. at - 1
      BY <1>1, <1>4, <1>7, <2>2 DEF PassInv, TurnsKept
    <2>3. j = at \/ j \in 2 .. at - 1
      BY <1>1
    <2> QED
      BY <2>1, <2>2, <2>3
  <1>8. \E k \in DOMAIN optimized' : optimized'[k] = waypoints[1]
    BY <1>1, <1>4 DEF PassInv, TurnsKept
  <1>9. TurnsKept'
    BY <1>1, <1>6, <1>7, <1>8 DEF TurnsKept
  <1> QED
    BY <1>2, <1>9

\* Every action keeps the single runs on the route.
LEMMA PassStep == PassInv /\ [Next]_vars => PassInv'
  <1> SUFFICES ASSUME PassInv, [Next]_vars PROVE PassInv'
    OBVIOUS
  <1>0. PlaceInv' /\ TypeOK'
    BY PlaceStep DEF PassInv, PlaceInv
  <1>1. ASSUME UNCHANGED <<request, planned, pc, at, x, waypoints, optimized>>
        PROVE  PassInv'
    BY <1>0, <1>1, SameRequest DEF PassInv, RowsInOrder, SinglesPassed, TurnsKept, Turning,
       SinglePassesKept, Planned, Reached, FreeRuns
  <1>2. CASE (\E m \in Updates : MapArrives(m)) \/ NoMapYet \/ UNCHANGED vars
    BY <1>1, <1>2 DEF MapArrives, NoMapYet, vars, planning
  <1>3. ASSUME NEW n \in Requests, Plan(n) PROVE PassInv'
    BY <1>0, <1>3, PlanPasses DEF PassInv
  <1>4. CASE Validate
    BY <1>0, <1>4 DEF Validate, PassInv, RowsInOrder, SinglesPassed, TurnsKept,
       SinglePassesKept, Planned
  <1>5. CASE Segment
    <2>1. pc' = "rows"
      BY <1>5 DEF Segment
    <2> QED
      BY <1>0, <1>5, <2>1, SegmentPasses DEF PassInv, TurnsKept, SinglePassesKept, Planned
  <1>6. CASE NextRow
    <2>1. pc' = "rows"
      BY <1>6 DEF NextRow
    <2> QED
      BY <1>0, <1>6, <2>1, NextRowPasses DEF PassInv, TurnsKept, SinglePassesKept, Planned
  <1>7. CASE RowsDone
    BY <1>0, <1>7, RowsDonePasses DEF PassInv
  <1>8. CASE OptimizePoint
    <2>1. pc' = "optimize"
      BY <1>8 DEF OptimizePoint
    <2> QED
      BY <1>0, <1>8, <2>1, PointKept DEF PassInv, RowsInOrder, SinglePassesKept, Planned
  <1>9. CASE Optimized
    <2>1. pc' = "validate"
      BY <1>9 DEF Optimized
    <2> QED
      BY <1>0, <1>9, <2>1, EndsKept DEF PassInv, RowsInOrder, SinglesPassed, TurnsKept
  <1>10. CASE EdgeCell
    <2>1. pc' \in EdgesOfLayer
      BY <1>10 DEF EdgeCell, NextEdge, EdgesOfLayer
    <2> QED
      BY <1>0, <2>1 DEF PassInv, RowsInOrder, SinglesPassed, TurnsKept, SinglePassesKept,
         Planned, EdgesOfLayer
  <1>11. CASE LayersDone
    <2>1. pc' = "validate" /\ request'.pattern = "spiral"
      BY <1>11 DEF LayersDone, PassInv, PlaceInv, LoopOfPattern, planning
    <2> QED
      BY <1>0, <2>1 DEF PassInv, RowsInOrder, SinglesPassed, TurnsKept, SinglePassesKept,
         Planned
  <1> QED
    BY <1>2, <1>3, <1>4, <1>5, <1>6, <1>7, <1>8, <1>9, <1>10, <1>11 DEF Next, Serve

\* On a map of any size and with stripes of any width, dropping the points "on
\* straight lines" never loses an end of a stripe's only run, as long as run
\* and stripe are long and wide enough for the turn to count
\* (_optimize_waypoints).
THEOREM SinglePassesAlwaysKept == Spec => []SinglePassesKept
  <1>1. PassInv => SinglePassesKept
    BY DEF PassInv
  <1> QED
    BY <1>1, PassInit, PassStep, PTL DEF Spec

-----------------------------------------------------------------------------
(* Every loop of a request ends: what is still before the command thread   *)
(* shrinks at each turn.  This is what Answered rests on besides fairness. *)

EdgeRank == [top |-> 0, right |-> 1, bottom |-> 2, left |-> 3]

\* A turn of a loop goes on in the order of its row, layer, edge and cell; the
\* map and the request, which bound them, stay those of the start.
Onward ==
    /\ UNCHANGED <<planned, request>>
    /\ \/ pc' = "validate" /\ pc # "validate"
       \/ pc = "rows" /\ pc' = "optimize"
       \/ /\ pc = "rows" /\ pc' = "rows"
          /\ at' > at \/ (at' = at /\ x' > x)
       \/ /\ pc = "optimize" /\ pc' = "optimize"
          /\ at' > at /\ UNCHANGED waypoints
       \/ /\ pc \in EdgesOfLayer /\ pc' \in EdgesOfLayer
          /\ \/ at' > at
             \/ at' = at /\ EdgeRank[pc'] > EdgeRank[pc]
             \/ at' = at /\ pc' = pc /\ x' > x

\* A turn of the command thread while it works on a request goes on, or answers.
EveryTurnGoesOn == [][pc # "recv" /\ Serve => pc' = "recv" \/ Onward]_vars

\* The rows, layers, cells and points there are.
TurnsBounded ==
    /\ pc = "rows" => /\ at < planned.height + StripeCells
                      /\ x \in 0 .. planned.width
    /\ pc = "optimize" => at \in 2 .. Len(waypoints)
    /\ pc \in EdgesOfLayer => /\ at \in 1 .. Layers(planned) + 1
                              /\ x \in -at .. at

TurnInv == TypeOK /\ TurnsBounded

\* The layers of a map are as many as half its longer side.
LEMMA LayersShape ==
    ASSUME NEW m \in Maps
    PROVE  Layers(m) \in Nat
  BY MapShape DEF Layers

\* No turn leaves the bounds: rows advance by at least one cell and only from a
\* row of the map, and a scan goes on behind the run it found.
LEMMA TurnsBoundedStep == TurnInv /\ [Next]_vars => TurnsBounded'
  <1> SUFFICES ASSUME TurnInv, [Next]_vars PROVE TurnsBounded'
    OBVIOUS
  <1> USE DEF TurnInv, TurnsBounded, planning, EdgesOfLayer
  <1>0. TypeOK'
    BY TypeStep
  <1>1. CASE (\E m \in Updates : MapArrives(m)) \/ NoMapYet \/ UNCHANGED vars
    BY <1>1 DEF MapArrives, NoMapYet, vars, StripeCells
  <1>2. ASSUME NEW r \in Requests, Plan(r) PROVE TurnsBounded'
    <2>1. planned' \in Maps /\ request' \in Requests
      BY <1>2 DEF Plan, TypeOK
    <2>2. /\ planned'.width \in Nat /\ planned'.height \in Nat
          /\ Layers(planned') \in Nat
      BY <2>1, MapShape, LayersShape
    <2>3. StripeCells' \in Nat \ {0}
      <3>1. request'.stripe \in Nat
        BY <2>1, LengthsAssumption DEF Requests
      <3> QED
        BY <3>1 DEF StripeCells
    <2>4. CASE r.pattern = "spiral"
      <3>1. pc' = "top" /\ at' = 1 /\ x' = -1
        BY <1>2, <2>4 DEF Plan
      <3>2. Layers(planned)' \in Nat
        BY <2>2 DEF Layers
      <3> QED
        BY <3>1, <3>2
    <2>5. CASE r.pattern # "spiral"
      <3>1. pc' = "rows" /\ at' = 0 /\ x' = 0
        BY <1>2, <2>5 DEF Plan
      <3> QED
        BY <2>2, <2>3, <3>1
    <2> QED
      BY <2>4, <2>5
  <1>3. CASE Validate \/ LayersDone \/ Optimized
    BY <1>3 DEF Validate, LayersDone, Optimized
  <1>4. CASE Segment
    <2>1. PICK r \in Runs(planned, request.inflation, at) : x' = r[2]
      BY <1>4 DEF Segment, Ahead
    <2>2. x' \in 0 .. planned.width
      BY <1>4, <2>1, MapShape DEF Segment, Runs, TypeOK
    <2> QED
      BY <1>4, <2>2 DEF Segment, StripeCells
  <1>5. CASE NextRow
    <2>1. planned \in Maps /\ StripeCells \in Nat \ {0} /\ at \in Nat
      BY <1>5, RequestShape DEF NextRow, TypeOK
    <2>2. planned.width \in Nat /\ planned.height \in Nat
      BY <2>1, MapShape
    <2>3. at' = at + StripeCells /\ x' = 0 /\ at < planned.height /\ pc' = "rows"
      BY <1>5 DEF NextRow
    <2>4. UNCHANGED <<planned, StripeCells>>
      BY <1>5 DEF NextRow, StripeCells
    <2> QED
      BY <2>1, <2>2, <2>3, <2>4
  <1>6. CASE RowsDone
    BY <1>0, <1>6 DEF RowsDone, TypeOK
  <1>7. CASE OptimizePoint
    BY <1>0, <1>7 DEF OptimizePoint, TypeOK
  <1>8. CASE EdgeCell
    <2>1. planned \in Maps /\ at \in Nat /\ x \in Int
      BY <1>8 DEF EdgeCell, TypeOK
    <2>2. Layers(planned) \in Nat
      BY <2>1, LayersShape
    <2>3. Layers(planned)' = Layers(planned) /\ pc' # "rows" /\ pc' # "optimize"
      BY <1>8 DEF EdgeCell, Layers, NextEdge
    <2>4. at \in 1 .. Layers(planned) /\ x \in -at .. at
      BY <1>8, <2>1, <2>2 DEF EdgeCell
    <2>5. CASE x < at
      BY <1>8, <2>2, <2>3, <2>4, <2>5 DEF EdgeCell
    <2>6. CASE ~(x < at)
      <3>1. at' \in {at, at + 1} /\ x' = -at'
        BY <1>8, <2>6 DEF EdgeCell
      <3>2. at' \in 1 .. Layers(planned) + 1
        BY <2>1, <2>2, <2>4, <3>1
      <3>3. x' \in -at' .. at'
        <4>1. \A n \in Nat : -n \in -n .. n
          OBVIOUS
        <4>2. at' \in Nat
          BY <2>1, <3>1
        <4> QED
          BY <3>1, <4>1, <4>2, Zenon
      <3> QED
        BY <2>3, <3>2, <3>3
    <2> QED
      BY <2>5, <2>6
  <1> QED
    BY <1>1, <1>2, <1>3, <1>4, <1>5, <1>6, <1>7, <1>8 DEF Next, Serve

\* The loops have as many turns as the map has rows, layers and cells, and the
\* route points, whatever the stripe (max(1, ...) in _generate_boustrophedon).
THEOREM AlwaysBounded == Spec => []TurnsBounded
  <1>1. Init => TurnsBounded
    BY DEF Init, TurnsBounded, EdgesOfLayer
  <1> QED
    BY <1>1, TypeInit, TypeStep, TurnsBoundedStep, PTL DEF Spec, TurnInv

\* No turn of a loop is spent on a place the loop has been at: with
\* AlwaysBounded, a request cannot keep the command thread for ever.
THEOREM AlwaysGoesOn == Spec => EveryTurnGoesOn
  <1>1. TypeOK /\ [Next]_vars
            => [pc # "recv" /\ Serve => pc' = "recv" \/ Onward]_vars
    <2> SUFFICES ASSUME TypeOK, pc # "recv", Serve
                 PROVE  pc' = "recv" \/ Onward
      OBVIOUS
    <2> USE DEF planning, EdgesOfLayer, Onward, TypeOK
    <2>1. CASE NoMapYet \/ Validate
      BY <2>1 DEF NoMapYet, Validate
    <2>2. CASE Segment
      <3>1. PICK r \in Runs(planned, request.inflation, at) : r[1] >= x /\ x' = r[2]
        BY <2>2 DEF Segment, Ahead
      <3>2. r \in Nat \X Nat /\ r[1] < r[2]
        BY <2>2, <3>1, RunClear, RequestShape DEF Segment
      <3>3. x' > x
        BY <3>1, <3>2
      <3> QED
        BY <2>2, <3>3 DEF Segment
    <2>3. CASE NextRow
      <3>1. at' > at
        BY <2>3, RequestShape DEF NextRow
      <3> QED
        BY <2>3, <3>1 DEF NextRow
    <2>4. CASE RowsDone \/ Optimized \/ LayersDone
      BY <2>4 DEF RowsDone, Optimized, LayersDone
    <2>5. CASE OptimizePoint
      BY <2>5 DEF OptimizePoint
    <2>6. CASE EdgeCell
      <3>1. CASE x < at
        BY <2>6, <3>1 DEF EdgeCell
      <3>2. CASE ~(x < at) /\ pc = "left"
        BY <2>6, <3>2 DEF EdgeCell, NextEdge
      <3>3. CASE ~(x < at) /\ pc # "left"
        BY <2>6, <3>3 DEF EdgeCell, NextEdge, EdgeRank
      <3> QED
        BY <3>1, <3>2, <3>3
    <2> QED
      BY <2>1, <2>2, <2>3, <2>4, <2>5, <2>6 DEF Serve
  <1> QED
    BY <1>1, TypeInit, TypeStep, PTL DEF Spec, EveryTurnGoesOn
=============================================================================
