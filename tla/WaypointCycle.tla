--------------------------- MODULE WaypointCycle ----------------------------
(***************************************************************************)
(* The waypoint_cycle node: every point clicked in RViz is a waypoint, and *)
(* the node drives the robot round them for ever.  It sends the next       *)
(* waypoint on /goal_pose when the status topic of navigate_to_pose says   *)
(* that the newest goal is over.                                           *)
(*                                                                         *)
(* The action server (BtActionServer) is seen through that topic: it takes *)
(* goals in the order they were sent, publishes the list of statuses when  *)
(* one changes, and the node looks at the last of the list only.  Lists    *)
(* that end with EXECUTING are ignored by the node and not queued here.    *)
(***************************************************************************)
EXTENDS Naturals, Sequences

CONSTANTS
    MaxPoints, \* bound: points clicked
    MaxCancels \* bound: cancel requests of other clients

ASSUME CycleAssumption == MaxPoints \in Nat \ {0} /\ MaxCancels \in Nat

VARIABLES
    count,    \* self.count: waypoints clicked
    index,    \* self.index: the next waypoint
    tryAgain, \* self.try_again
    sent,     \* waypoint of the last goal sent
    said,     \* what the last log line says of the waypoint
    heard,    \* the last status handled
    goals,    \* goals on their way to the server, oldest first
    driving,  \* waypoint of the newest goal of the server
    newest,   \* status of the newest goal of the server
    older,    \* an older goal of the server has not ended yet
    statuses, \* status messages on their way to the node, oldest first
    cancels   \* cancel requests so far

nodeVars == <<count, index, tryAgain, sent, said, heard>>
serverVars == <<driving, newest, older, cancels>>
cycleVars == <<nodeVars, serverVars, goals, statuses>>

Over == {"succeeded", "canceled", "aborted"}
Heard == Over \cup {"canceling"}
Said == {"nothing", "reached", "complete", "unreachable"}

CycleTypeOK ==
    /\ count \in 0..MaxPoints
    /\ index \in 0..count
    /\ index = 0 <=> count = 0
    /\ tryAgain \in BOOLEAN
    /\ sent \in Nat /\ (count > 0 => sent < count)
    /\ said \in Said
    /\ heard \in Heard \cup {"none"}
    /\ goals \in Seq(0..MaxPoints - 1)
    /\ driving \in 0..MaxPoints - 1
    /\ newest \in Heard \cup {"none", "executing"}
    /\ older \in BOOLEAN
    /\ statuses \in Seq(Heard)
    /\ cancels \in 0..MaxCancels

CycleInit ==
    /\ count = 0
    /\ index = 0
    /\ tryAgain = TRUE
    /\ sent = 0
    /\ said = "nothing"
    /\ heard = "none"
    /\ goals = <<>>
    /\ driving = 0
    /\ newest = "none"
    /\ older = FALSE
    /\ statuses = <<>>
    /\ cancels = 0

-----------------------------------------------------------------------------
(* The node.                                                               *)

\* publish_pose(i).
PublishPose(i) ==
    /\ goals' = Append(goals, i)
    /\ sent' = i

\* click_callback: the first point is sent at once.
Click ==
    /\ count < MaxPoints
    /\ count' = count + 1
    /\ IF count = 0
       THEN PublishPose(0) /\ index' = 1
       ELSE UNCHANGED <<goals, sent, index>>
    /\ UNCHANGED <<tryAgain, said, heard, serverVars, statuses>>

Hear(s) ==
    /\ statuses # <<>>
    /\ s = Head(statuses)
    /\ statuses' = Tail(statuses)
    /\ heard' = s

\* Mutant: the round ends one waypoint early.
FollowingShort == IF index + 1 >= count THEN 0 ELSE index

\* Where the branch of a goal that is over goes next.
Following == IF index = count THEN 0 ELSE index

\* pose_callback, status of a goal that is over.
GoalOver ==
    /\ \E s \in Over : Hear(s)
    /\ count > 0
    /\ tryAgain' = TRUE
    /\ said' = IF index < count THEN "reached"
               ELSE IF count > 1 THEN "complete" ELSE said
    /\ PublishPose(Following)
    /\ index' = Following + 1
    /\ UNCHANGED <<count, serverVars>>

\* pose_callback, any other status: the waypoint is sent once more ...
SendAgain ==
    /\ Hear("canceling")
    /\ count > 0
    /\ tryAgain
    /\ said' = "unreachable"
    /\ PublishPose(index - 1)
    /\ tryAgain' = FALSE
    /\ UNCHANGED <<count, index, serverVars>>

\* ... and then given up, unless it is the last one.
GiveUp ==
    /\ Hear("canceling")
    /\ count > 0
    /\ ~tryAgain
    /\ said' = "unreachable"
    /\ IF index < count
       THEN PublishPose(index) /\ index' = index + 1 /\ tryAgain' = TRUE
       ELSE UNCHANGED <<goals, sent, index, tryAgain>>
    /\ UNCHANGED <<count, serverVars>>

Node == GoalOver \/ SendAgain \/ GiveUp

-----------------------------------------------------------------------------
(* The action server and its other clients.                                *)

\* A goal is accepted; one still under way is preempted, and ends later.
Accept ==
    /\ goals # <<>>
    /\ goals' = Tail(goals)
    /\ driving' = Head(goals)
    /\ older' = (older \/ newest \in {"executing", "canceling"})
    /\ newest' = "executing"
    /\ UNCHANGED <<nodeVars, statuses, cancels>>

\* The goal preempted ends: the list is published again with the status the
\* newest goal has.
OlderEnds ==
    /\ older
    /\ newest \in {"executing", "canceling"}
    /\ older' = FALSE
    /\ statuses' = IF newest = "executing" THEN statuses
                   ELSE Append(statuses, newest)
    /\ UNCHANGED <<nodeVars, driving, newest, goals, cancels>>

Cancel ==
    /\ cancels < MaxCancels
    /\ newest = "executing"
    /\ newest' = "canceling"
    /\ cancels' = cancels + 1
    /\ statuses' = Append(statuses, "canceling")
    /\ UNCHANGED <<nodeVars, driving, older, goals>>

End(s) ==
    /\ ~older
    /\ newest = "canceling" \/ (newest = "executing" /\ s # "canceled")
    /\ newest' = s
    /\ statuses' = Append(statuses, s)
    /\ UNCHANGED <<nodeVars, driving, older, goals, cancels>>

Ends == \E s \in Over : End(s)

CycleNext == Click \/ Node \/ Accept \/ OlderEnds \/ Cancel \/ Ends

CycleSpec == CycleInit /\ [][CycleNext]_cycleVars

\* Callbacks are run, goals are taken and every goal ends.
FairCycleSpec ==
    /\ CycleSpec
    /\ WF_cycleVars(Node) /\ WF_cycleVars(Accept)
    /\ WF_cycleVars(OlderEnds) /\ WF_cycleVars(Ends)

-----------------------------------------------------------------------------
(* Properties.                                                             *)

\* Waypoints are sent in the order they were clicked and round again after
\* the last one, whatever is clicked or cancelled meanwhile; a waypoint is
\* only repeated in its own place (pose_callback).
NextInTurn ==
    [][Node /\ goals' # goals
       => sent' \in {sent, sent + 1} \/ (sent' = 0 /\ sent + 1 = count)]_cycleVars

\* The robot is sent to every waypoint again and again: neither the end of a
\* round nor a cancelled goal stops the cycle (pose_callback).
CycleGoesOn ==
    \A w \in 0..MaxPoints - 1 : [](count > w => <>(driving = w /\ newest = "executing"))

\* "Reach the target point" is only said of a goal that succeeded
\* (waypoint_cycle.py, pose_callback).
ReachedIsReached == said = "reached" => heard = "succeeded"
=============================================================================
