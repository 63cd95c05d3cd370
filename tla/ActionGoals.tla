---------------------------- MODULE ActionGoals -----------------------------
(***************************************************************************)
(* What the clients of an action server may rely on, without threads,      *)
(* locks, handles or trees: goals are served one at a time and in the      *)
(* order in which they were accepted; the newest goal accepted is the only *)
(* one that waits, and the one it displaces is ended; only the goal served *)
(* succeeds, only one asked to be cancelled is canceled; and a goal that   *)
(* ended stays as it is.  BtActionServer implements this specification.    *)
(***************************************************************************)

CONSTANTS
    Goals,   \* goals the clients may send
    NoGoal

VARIABLES
    status,   \* what the clients are told of each goal
    serving,  \* the goal the robot is driven to
    waiting,  \* the goal that will take over from it
    arriving  \* the goal accepted last, until it is given its place

vars == <<status, serving, waiting, arriving>>

Init ==
    /\ status = [g \in Goals |-> "none"]
    /\ serving = NoGoal
    /\ waiting = NoGoal
    /\ arriving = NoGoal

\* How goals end that are given up: a goal asked to be cancelled is canceled.
GivenUp(gs) ==
    [g \in Goals |-> IF g \notin gs THEN status[g]
                     ELSE IF status[g] = "canceling" THEN "canceled" ELSE "aborted"]

-----------------------------------------------------------------------------
\* A goal is accepted ...
Arrive(g) ==
    /\ status[g] = "none"
    /\ arriving = NoGoal
    /\ status' = [status EXCEPT ![g] = "executing"]
    /\ arriving' = g
    /\ UNCHANGED <<serving, waiting>>

\* ... or rejected by a server that is not active.
Refuse(g) ==
    /\ status[g] = "none"
    /\ status' = [status EXCEPT ![g] = "rejected"]
    /\ UNCHANGED <<serving, waiting, arriving>>

\* Nothing is served: the newest goal is, and one left waiting is given up.
Start ==
    /\ arriving # NoGoal
    /\ serving = NoGoal
    /\ status' = GivenUp({waiting})
    /\ serving' = arriving
    /\ waiting' = NoGoal
    /\ arriving' = NoGoal

\* The newest goal waits in the place of an older one.
Queue ==
    /\ arriving # NoGoal
    /\ status' = GivenUp({waiting})
    /\ waiting' = arriving
    /\ arriving' = NoGoal
    /\ UNCHANGED serving

\* The goal that waits takes over; a goal still served is aborted.
TakeOver ==
    /\ waiting # NoGoal
    /\ status' = [g \in Goals |-> IF g = serving THEN "aborted" ELSE status[g]]
    /\ serving' = waiting
    /\ waiting' = NoGoal
    /\ UNCHANGED arriving

\* A client asks to cancel a goal that has its place.
Cancel(g) ==
    /\ g \in {serving, waiting}
    /\ status[g] = "executing"
    /\ status' = [status EXCEPT ![g] = "canceling"]
    /\ UNCHANGED <<serving, waiting, arriving>>

Succeed ==
    /\ serving # NoGoal
    /\ status' = [status EXCEPT ![serving] = "succeeded"]
    /\ serving' = NoGoal
    /\ UNCHANGED <<waiting, arriving>>

\* The goal served, the one that waits, or both are given up.
GiveUp(gs) ==
    /\ status' = GivenUp(gs)
    /\ serving' = IF serving \in gs THEN NoGoal ELSE serving
    /\ waiting' = IF waiting \in gs THEN NoGoal ELSE waiting
    /\ UNCHANGED arriving

Next ==
    \/ \E g \in Goals : Arrive(g) \/ Refuse(g) \/ Cancel(g)
    \/ Start \/ Queue \/ TakeOver \/ Succeed
    \/ \E gs \in SUBSET ({serving, waiting} \ {NoGoal}) : GiveUp(gs)

Spec == Init /\ [][Next]_vars
=============================================================================
