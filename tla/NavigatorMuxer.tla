--------------------------- MODULE NavigatorMuxer ---------------------------
(***************************************************************************)
(* nav2_bt_navigator::NavigatorMuxer: the object the navigators of the     *)
(* bt_navigator node (navigate_to_pose, navigate_through_poses) share so   *)
(* that only one of them drives the robot.  Each navigator runs on the     *)
(* worker thread of its own BtActionServer; each method of the muxer is    *)
(* one block under its mutex.                                              *)
(***************************************************************************)
CONSTANTS
    Navigators, \* names of the navigators
    Nobody      \* the empty name

VARIABLES
    at,   \* where the worker of each navigator is
    owner \* current_navigator_

vars == <<at, owner>>

Positions == {"idle", "asking", "starting", "running"}

TypeOK ==
    /\ at \in [Navigators -> Positions]
    /\ owner \in Navigators \cup {Nobody}

Init ==
    /\ at = [n \in Navigators |-> "idle"]
    /\ owner = Nobody

Goto(n, position) == at' = [at EXCEPT ![n] = position]

\* A goal reaches the navigator's onGoalReceived.
TakeGoal(n) ==
    /\ at[n] = "idle"
    /\ Goto(n, "asking")
    /\ UNCHANGED owner

\* isNavigating(): a goal is refused while any navigator is at work.
Ask(n) ==
    /\ at[n] = "asking"
    /\ Goto(n, IF owner # Nobody THEN "idle" ELSE "starting")
    /\ UNCHANGED owner

\* goalReceived() refuses the goal.
Decline(n) ==
    /\ at[n] = "starting"
    /\ Goto(n, "idle")
    /\ UNCHANGED owner

\* startNavigating(): an owner found here is logged and replaced.
StartNavigating(n) ==
    /\ at[n] = "starting"
    /\ owner' = n
    /\ Goto(n, "running")

\* stopNavigating(): another owner is logged and left alone.
StopNavigating(n) ==
    /\ at[n] = "running"
    /\ owner' = IF owner = n THEN Nobody ELSE owner
    /\ Goto(n, "idle")

Next ==
    \E n \in Navigators :
        TakeGoal(n) \/ Ask(n) \/ Decline(n) \/ StartNavigating(n) \/ StopNavigating(n)

Spec == Init /\ [][Next]_vars

-----------------------------------------------------------------------------
(* Properties.                                                             *)

\* The muxer is only held by a navigator that is navigating, even after two
\* of them started over each other: it is never left locked (navigator.hpp,
\* startNavigating and stopNavigating).
OwnerNavigates == owner # Nobody => at[owner] = "running"

\* "The muxing object to ensure only one navigator can be active at a time"
\* (navigator.hpp, on_configure).
OneAtATime ==
    \A m, n \in Navigators : at[m] = "running" /\ at[n] = "running" => m = n

=============================================================================
