--------------------------- MODULE PatrolMission ---------------------------
(***************************************************************************)
(* What a patrol promises the operator, without threads, locks or timers:  *)
(* the robot is sent home, then to every waypoint of the route in order,   *)
(* once per loop, then home again; it is sent to the next place only after *)
(* it has been reported at the one it was sent to; and the mission is      *)
(* completed only after the last of these legs.  ScadaPatrol implements    *)
(* this specification (see MCScadaPatrol).                                 *)
(***************************************************************************)
EXTENDS Integers, Sequences

CONSTANTS
    Places,         \* the places goals name and the robot can be reported at
    Missions,       \* the accepted patrol requests: [route, loops, home]
    NoMission,      \* no mission is under way
    NoPlace         \* no goal was ever published

VARIABLES
    st,             \* "idle", "active", or how the last mission ended
    mission,        \* the mission under way
    leg,            \* the leg of its tour the robot is on, 0 when none
    goal,           \* the last goal the navigation stack was given
    at              \* where the robot was last reported

vars == <<st, mission, leg, goal, at>>

Ended == {"completed", "failed"}

\* The tour: home, loops times the route, home.
TourLen(m) == m.loops * Len(m.route) + 2

Stop(m, k) == IF k \in {1, TourLen(m)}
              THEN m.home
              ELSE m.route[((k - 2) % Len(m.route)) + 1]

Reached == goal = Stop(mission, leg) /\ at = Stop(mission, leg)

Init == /\ st = "idle"
        /\ mission = NoMission
        /\ leg = 0
        /\ goal = NoPlace
        /\ at \in Places

Begin == /\ st # "active"
         /\ \E m \in Missions : mission' = m
         /\ st' = "active"
         /\ leg' = 1
         /\ UNCHANGED <<goal, at>>

Send == /\ st = "active"
        /\ goal' = Stop(mission, leg)
        /\ UNCHANGED <<st, mission, leg, at>>

Arrive == /\ st = "active"
          /\ leg < TourLen(mission)
          /\ Reached
          /\ leg' = leg + 1
          /\ UNCHANGED <<st, mission, goal, at>>

Finish(end) == /\ st = "active"
               /\ end = "completed" => leg = TourLen(mission) /\ Reached
               /\ st' = end
               /\ mission' = NoMission
               /\ leg' = 0
               /\ UNCHANGED <<goal, at>>

Move == /\ at' \in Places
        /\ UNCHANGED <<st, mission, leg, goal>>

Next == Begin \/ Send \/ Arrive \/ (\E end \in Ended : Finish(end)) \/ Move

Spec == Init /\ [][Next]_vars
=============================================================================
