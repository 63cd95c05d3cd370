--------------------------- MODULE BtActionServer ---------------------------
(***************************************************************************)
(* nav2_behavior_tree::BtActionServer as the bt_navigator node uses it for *)
(* the goals of navigate_to_pose: the execute callback that runs a         *)
(* behaviour tree on the worker thread of a SimpleActionServer.  The       *)
(* server has no thread of its own here (spin_thread is FALSE), so goals,  *)
(* cancel requests and lifecycle transitions are served one after another  *)
(* by the executor of the node.                                            *)
(*                                                                         *)
(* The behaviour tree is abstract: a tick returns running, success or      *)
(* failure, and drives the robot to the goal on the blackboard.            *)
(***************************************************************************)
EXTENDS SimpleActionServer

CONSTANTS
    Trees,       \* behaviour tree files a goal may name
    DefaultTree, \* the one loaded on activation
    MissingTree  \* one that cannot be opened

ASSUME TreesAssumption == {DefaultTree, MissingTree} \subseteq Trees

VARIABLES
    wants,   \* the tree each goal asks for
    tree,    \* current_bt_xml_filename_
    pursued, \* the goal on the blackboard
    result,  \* outcome of the run so far
    earned   \* history: goals a tick succeeded for

btVars == <<wants, tree, pursued, result, earned>>
vars == <<serverVars, worker, btVars>>

\* Positions of the worker inside the callback.
Looping == {"serverActive", "cancel", "tick", "preempt", "pendingGoal",
            "accept", "terminatePending"}
WorkerAt == {"idle", "while", "goal", "refuse", "finish", "after", "leaving",
             "crashed"} \cup Looping

Results == {"running", "success", "failure", "canceled"}

TypeOK ==
    /\ status \in [Goals -> Status]
    /\ current \in Handles
    /\ pending \in Handles
    /\ preempt \in BOOLEAN
    /\ active \in BOOLEAN
    /\ stop \in BOOLEAN
    /\ worker \in WorkerAt
    /\ exec \in ExecAt
    /\ held \in Handles
    /\ wants \in [Goals -> Trees]
    /\ tree \in Trees
    /\ pursued \in Handles
    /\ result \in Results
    /\ earned \subseteq Goals
    /\ worker = "finish" => result # "running"
    /\ worker \in Looping => pursued \in Goals

Init ==
    /\ ServerInit
    /\ wants = [g \in Goals |-> DefaultTree]
    /\ tree = DefaultTree
    /\ pursued = NoGoal
    /\ result = "running"
    /\ earned = {}

-----------------------------------------------------------------------------
(* The executor: the handlers of the wrapper.                              *)

Request(g) ==
    /\ \/ /\ RequestGoal(g)
          /\ \E t \in Trees : wants' = [wants EXCEPT ![g] = t]
       \/ /\ RefuseGoal(g)
          /\ UNCHANGED wants
    /\ UNCHANGED <<tree, pursued, result, earned>>

Accepted == (QueueGoal \/ StartGoal) /\ UNCHANGED btVars

Cancel == (MarkCanceling \/ \E g \in Goals : RequestCancel(g)) /\ UNCHANGED btVars

\* on_activate() loads the default tree first.
OnActivate ==
    /\ Activate
    /\ tree' = DefaultTree
    /\ UNCHANGED <<wants, pursued, result, earned>>

OnDeactivate == (Deactivate \/ Deactivated \/ MissDeadline) /\ UNCHANGED btVars

-----------------------------------------------------------------------------
(* executeCallback() and BehaviorTreeEngine::run() on the worker.          *)

Goto(position) == worker' = position
KeepServer == UNCHANGED serverVars
KeepThreads == UNCHANGED <<active, stop, exec, held>>

\* The goal handed to the callback is null: dereferencing it ends the process.
Crash == Goto("crashed") /\ KeepServer /\ UNCHANGED btVars

\* loadBehaviorTree() keeps the previous tree when the file cannot be opened.
TreeLoads(g) == wants[g] # MissingTree

\* get_current_goal(), then on_goal_received: the tree is loaded and the goal
\* is put on the blackboard.
ReceiveGoal ==
    /\ worker = "goal"
    /\ Active(current)
    /\ TreeLoads(current)
    /\ tree' = wants[current]
    /\ pursued' = current
    /\ result' = "running"
    /\ Goto("serverActive")
    /\ KeepServer
    /\ UNCHANGED <<wants, earned>>

\* The tree cannot be loaded, or the other navigator holds the muxer.
DeclineGoal ==
    /\ worker = "goal"
    /\ Active(current)
    /\ Goto("refuse")
    /\ KeepServer
    /\ UNCHANGED btVars

ReceiveNull ==
    /\ worker = "goal"
    /\ ~Active(current)
    /\ Crash

Refuse ==
    /\ worker = "refuse"
    /\ TerminateCurrent
    /\ Goto("after")
    /\ KeepThreads
    /\ UNCHANGED btVars

\* is_canceling: is_server_active() ...
CheckActive ==
    /\ worker = "serverActive"
    /\ IF active
       THEN Goto("cancel") /\ UNCHANGED result
       ELSE Goto("finish") /\ result' = "canceled"
    /\ KeepServer
    /\ UNCHANGED <<wants, tree, pursued, earned>>

\* ... then is_cancel_requested(), in another locked block.
CheckCancel ==
    /\ worker = "cancel"
    /\ IF CancelRequested
       THEN Goto("finish") /\ result' = "canceled"
       ELSE Goto("tick") /\ UNCHANGED result
    /\ KeepServer
    /\ UNCHANGED <<wants, tree, pursued, earned>>

\* tickRoot(): one tick of the tree towards the goal on the blackboard.
Tick(r) ==
    /\ worker = "tick"
    /\ result' = r
    /\ earned' = IF r = "success" THEN earned \cup {pursued} ELSE earned
    /\ Goto("preempt")
    /\ KeepServer
    /\ UNCHANGED <<wants, tree, pursued>>

\* A tree that throws is a failure, without another call of onLoop.
TickThrows ==
    /\ worker = "tick"
    /\ result' = "failure"
    /\ Goto("finish")
    /\ KeepServer
    /\ UNCHANGED <<wants, tree, pursued, earned>>

AfterLoop == IF result = "running" THEN "serverActive" ELSE "finish"

\* Mutant: the loop never looks for a preemption.
CheckPreemptNever ==
    /\ worker = "preempt"
    /\ Goto(AfterLoop)
    /\ KeepServer
    /\ UNCHANGED btVars

\* on_loop: is_preempt_requested() ...
CheckPreempt ==
    /\ worker = "preempt"
    /\ Goto(IF preempt THEN "pendingGoal" ELSE AfterLoop)
    /\ KeepServer
    /\ UNCHANGED btVars

\* ... get_pending_goal(), and onPreempt's choice by its tree ...
GetPending ==
    /\ worker = "pendingGoal"
    /\ Active(pending)
    /\ Goto(IF wants[pending] = tree THEN "accept" ELSE "terminatePending")
    /\ KeepServer
    /\ UNCHANGED btVars

GetPendingNull ==
    /\ worker = "pendingGoal"
    /\ ~Active(pending)
    /\ Crash

\* Mutant: the goal is taken over without its pose.
AcceptPreemptOldPose ==
    /\ worker = "accept"
    /\ AcceptPending
    /\ Goto(AfterLoop)
    /\ KeepThreads
    /\ UNCHANGED btVars

\* ... which it carries out on whatever is pending by now.
AcceptPreempt ==
    /\ worker = "accept"
    /\ AcceptPending
    /\ pursued' = pending
    /\ Goto(AfterLoop)
    /\ KeepThreads
    /\ UNCHANGED <<wants, tree, result, earned>>

AcceptNull ==
    /\ worker = "accept"
    /\ ~Active(pending)
    /\ Crash

RejectPreempt ==
    /\ worker = "terminatePending"
    /\ TerminatePending
    /\ Goto(AfterLoop)
    /\ KeepThreads
    /\ UNCHANGED btVars

\* The end of the run is reported on whatever is current by now.
Outcome ==
    \/ result = "success" /\ SucceedCurrent
    \/ result = "failure" /\ TerminateCurrent
    \/ result = "canceled" /\ TerminateAll

Finish ==
    /\ worker = "finish"
    /\ Outcome
    /\ Goto("after")
    /\ KeepThreads
    /\ UNCHANGED btVars

Work == (WorkWhile \/ WorkStop \/ WorkNext \/ WorkDone \/ WorkReturn)
        /\ UNCHANGED btVars

LoopStep == CheckActive \/ CheckCancel \/ CheckPreempt \/ GetPending
            \/ GetPendingNull \/ AcceptPreempt \/ AcceptNull \/ RejectPreempt

WorkerStep ==
    \/ ReceiveGoal \/ DeclineGoal \/ ReceiveNull \/ Refuse
    \/ LoopStep
    \/ \E r \in {"running", "success", "failure"} : Tick(r)
    \/ TickThrows
    \/ Finish
    \/ Work

Next ==
    \/ \E g \in Goals : Request(g)
    \/ Accepted
    \/ Cancel
    \/ OnActivate
    \/ OnDeactivate
    \/ WorkerStep

Spec == Init /\ [][Next]_vars

-----------------------------------------------------------------------------
(* Fairness: the two threads are scheduled.  TreeEnds says that the tree   *)
(* does not answer "running" for ever: the default trees of bt_navigator   *)
(* bound their retries, while follow_point.xml keeps following until it    *)
(* is cancelled.  Only CurrentEnds supposes it.  Both properties suppose   *)
(* StaysUp: a deactivation may leave the loop with a live goal             *)
(* (DeactivateEndsGoals, below).                                           *)

ThreadsRun == WF_vars(WorkerStep) /\ WF_vars(Accepted) /\ WF_vars(MarkCanceling /\ UNCHANGED btVars)
StaysUp == [](exec # "waiting")
TreeEnds == SF_vars(Tick("success") \/ Tick("failure"))

LiveSpec == Spec /\ ThreadsRun

-----------------------------------------------------------------------------
(* Properties.                                                             *)

\* A goal the server accepted and has not ended is the current one, the
\* pending one or in the hands of handle_accepted(): replacing a pending goal,
\* preempting and deactivating end every goal they drop
\* (simple_action_server.hpp, handle_accepted and accept_pending_goal).
NoGoalLost ==
    \A g \in Goals :
        Active(g) => g \in {current, pending} \/ (exec = "accepted" /\ g = held)

\* While the tree runs for a live goal, the goal on the blackboard is that
\* goal, through every preemption (navigate_to_pose.cpp, onPreempt and
\* initializeGoalPose).
PursuesCurrent ==
    worker \in Looping /\ Active(current) => pursued = current

\* preempt_requested_ is only up while a live goal is pending, so the pointers
\* the callback reads in separate locked blocks are never null, as long as the
\* worker has not missed the deadline of deactivate() (bt_action_server_impl.hpp,
\* executeCallback; navigate_to_pose.cpp, onPreempt).
BtNeverGivenNull ==
    exec # "failed" => /\ preempt => Active(pending)
                       /\ worker # "crashed"

\* The goals as a client sees them: those in the slots that have not ended, and
\* the one handle_accepted() was called with.
servingBar  == IF Active(current) THEN current ELSE NoGoal
waitingBar  == IF Active(pending) THEN pending ELSE NoGoal
arrivingBar == IF exec = "accepted" THEN held ELSE NoGoal

Promise == INSTANCE ActionGoals
           WITH serving <- servingBar, waiting <- waitingBar, arriving <- arrivingBar

\* Whatever the interleaving of the handlers with the worker, clients see goals
\* served one at a time and in order, each with one end
\* (simple_action_server.hpp, handle_accepted and work).
GoalsServedInTurn == Promise!Spec

\* A pending goal is taken over, rejected or ended by the running worker, even
\* under a tree that would run for ever (onLoop, and the end of work()).
PreemptServed ==
    StaysUp => (preempt /\ worker \in Looping \cup {"refuse", "finish", "after"}) ~> ~preempt

\* A goal that became current ends, whatever preempts or cancels it, if no run
\* of the tree goes on for ever (executeCallback and work()).
CurrentEnds ==
    TreeEnds /\ StaysUp => \A g \in Goals : (current = g /\ Active(g)) ~> ~Active(g)

-----------------------------------------------------------------------------
(* What comments, messages and tests say and the code does not keep; the   *)
(* README gives each trace.                                                *)

\* handle_accepted(): "Shouldn't reach a state with a pending goal but no
\* current one": no goal waits where no worker will look for it.
NeverOnlyPending ==
    ~(worker = "idle" /\ Active(pending) /\ ~Active(current))

\* is_cancel_requested(): "A cancel request is assumed if either handle is
\* canceled by the client": with nothing pending, a current goal the client
\* cancelled ends the run at the next check.
CancelHeeded ==
    [][worker = "cancel" /\ Canceling(current) /\ ~preempt
       => worker' # "tick"]_vars

\* A goal is reported succeeded only after the tree succeeded for it: a goal
\* that preempts an older one as this completes gets a run of its own
\* (test_actions.cpp, test_simple_action_preemption_after_succeeded).
SuccessIsEarned ==
    \A g \in Goals : status[g] = "succeeded" => g \in earned

\* A goal runs under the tree it names: one that asks for another tree than
\* the running one is not taken over (navigate_to_pose.cpp, onPreempt).
RightTree ==
    worker \in Looping /\ pursued = current /\ Active(current)
        => wants[current] = tree

\* A server that completed its deactivation has no live goal left
\* (test_actions.cpp, test_simple_action_activation_cycling).
DeactivateEndsGoals ==
    exec = "idle" /\ ~active => \A g \in Goals : ~Active(g)
=============================================================================
