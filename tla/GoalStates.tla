----------------------------- MODULE GoalStates -----------------------------
(***************************************************************************)
(* The states of a goal of a ROS 2 action, and how it moves among them, as *)
(* the clients and the servers of the robot use them.                      *)
(***************************************************************************)

Over == {"succeeded", "aborted", "canceled"}

\* From a to b: a goal is rejected or runs; while it runs it may be asked to be
\* cancelled; it ends once, canceled only if that was asked.
Move(a, b) ==
    \/ a = "none" /\ b \in {"rejected", "executing"}
    \/ a = "executing" /\ b \in {"canceling", "succeeded", "aborted"}
    \/ a = "canceling" /\ b \in Over
=============================================================================
