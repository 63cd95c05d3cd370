------------------------- MODULE SimpleActionServer -------------------------
(***************************************************************************)
(* nav2_util::SimpleActionServer: the wrapper through which every nav2     *)
(* server (navigator, planner, controller, behaviours) takes goals.        *)
(*                                                                         *)
(* Two threads share its fields.  The executor of the node delivers goal   *)
(* requests, cancel requests and the lifecycle transitions; a worker       *)
(* thread, started by std::async for the first goal, runs the execute      *)
(* callback until no goal is left.  Every method takes update_mutex_, so   *)
(* the step of a thread is one locked block; a block read by the next one  *)
(* may be stale by then.                                                   *)
(*                                                                         *)
(* This module holds the state, the handlers of the executor and the       *)
(* methods the execute callback calls.  What the callback does with them   *)
(* is in the module of the server (BtActionServer).                        *)
(***************************************************************************)
EXTENDS Naturals, FiniteSets

CONSTANTS
    Goals,     \* goals the clients may send
    NoGoal,    \* a null goal handle
    Lifecycle  \* TRUE: the lifecycle manager may deactivate the node

ASSUME GoalsAssumption == NoGoal \notin Goals
ASSUME SwitchAssumption == Lifecycle \in BOOLEAN

VARIABLES
    status,  \* state of each goal handle, as rclcpp_action keeps it
    current, \* current_handle_
    pending, \* pending_handle_
    preempt, \* preempt_requested_
    active,  \* server_active_
    stop,    \* stop_execution_
    worker,  \* where the worker thread is; "idle" when there is none
    exec,    \* where the executor thread is
    held     \* the goal the executor is handling

serverVars == <<status, current, pending, preempt, active, stop, exec, held>>

Handles == Goals \cup {NoGoal}

Live == {"executing", "canceling"}
Over == {"succeeded", "canceled", "aborted"}
Status == {"none", "rejected"} \cup Live \cup Over

ExecAt == {"idle", "accepted", "cancelling", "waiting", "failed"}

\* is_active(handle).
Active(h) == h # NoGoal /\ status[h] \in Live

\* handle->is_canceling().
Canceling(h) == h # NoGoal /\ status[h] = "canceling"

\* terminate(handle), for every handle of a set: a goal asked to be cancelled
\* is canceled, any other live one aborted.  The handle is passed by value, so
\* its reset() leaves the caller's own handle alone.
Terminated(hs) ==
    [g \in Goals |->
        IF g \in hs /\ Active(g)
        THEN IF Canceling(g) THEN "canceled" ELSE "aborted"
        ELSE status[g]]

-----------------------------------------------------------------------------
(* The executor thread.                                                    *)

ServerInit ==
    /\ status = [g \in Goals |-> "none"]
    /\ current = NoGoal
    /\ pending = NoGoal
    /\ preempt = FALSE
    /\ active = FALSE
    /\ stop = FALSE
    /\ worker = "idle"
    /\ exec = "idle"
    /\ held = NoGoal

\* The process lives and the executor has no callback under way.
Ready == exec = "idle" /\ worker # "crashed"

\* handle_goal(): ACCEPT_AND_EXECUTE puts the goal in the state EXECUTING
\* before handle_accepted() sees it.
RequestGoal(g) ==
    /\ Ready
    /\ status[g] = "none"
    /\ active
    /\ status' = [status EXCEPT ![g] = "executing"]
    /\ exec' = "accepted"
    /\ held' = g
    /\ UNCHANGED <<current, pending, preempt, active, stop, worker>>

RefuseGoal(g) ==
    /\ Ready
    /\ status[g] = "none"
    /\ ~active
    /\ status' = [status EXCEPT ![g] = "rejected"]
    /\ UNCHANGED <<current, pending, preempt, active, stop, worker, exec, held>>

\* is_running(): the future is valid and its thread has not returned.
Running == worker # "idle"

\* Mutant: the goal in the pending slot is replaced without being ended.
QueueGoalDropsOld ==
    /\ exec = "accepted"
    /\ worker # "crashed"
    /\ Active(current) \/ Running
    /\ pending' = held
    /\ preempt' = TRUE
    /\ exec' = "idle"
    /\ held' = NoGoal
    /\ UNCHANGED <<status, current, active, stop, worker>>

\* handle_accepted() while an older goal is live, or the worker still runs.
QueueGoal ==
    /\ exec = "accepted"
    /\ worker # "crashed"
    /\ Active(current) \/ Running
    /\ status' = Terminated({pending})
    /\ pending' = held
    /\ preempt' = TRUE
    /\ exec' = "idle"
    /\ held' = NoGoal
    /\ UNCHANGED <<current, active, stop, worker>>

\* handle_accepted() with nothing under way: a new worker.  A pending goal
\* found here was forgotten by the previous one.
StartGoal ==
    /\ exec = "accepted"
    /\ ~Active(current)
    /\ ~Running
    /\ status' = Terminated({pending})
    /\ preempt' = (preempt /\ ~Active(pending))
    /\ current' = held
    /\ worker' = "while"
    /\ exec' = "idle"
    /\ held' = NoGoal
    /\ UNCHANGED <<pending, active, stop>>

\* handle_cancel() accepts the request of a live goal ...
RequestCancel(g) ==
    /\ Ready
    /\ Active(g)
    /\ exec' = "cancelling"
    /\ held' = g
    /\ UNCHANGED <<status, current, pending, preempt, active, stop, worker>>

\* ... and rclcpp_action marks it outside the lock; a goal that ended in
\* between, or was marked before, is left as it is.
MarkCanceling ==
    /\ exec = "cancelling"
    /\ worker # "crashed"
    /\ status' = [status EXCEPT ![held] =
                    IF @ = "executing" THEN "canceling" ELSE @]
    /\ exec' = "idle"
    /\ held' = NoGoal
    /\ UNCHANGED <<current, pending, preempt, active, stop, worker>>

Activate ==
    /\ Ready
    /\ ~active
    /\ active' = TRUE
    /\ stop' = FALSE
    /\ UNCHANGED <<status, current, pending, preempt, worker, exec, held>>

\* deactivate(): the locked block, then the wait for the worker.
Deactivate ==
    /\ Lifecycle
    /\ Ready
    /\ active
    /\ active' = FALSE
    /\ stop' = TRUE
    /\ exec' = "waiting"
    /\ UNCHANGED <<status, current, pending, preempt, worker, held>>

Deactivated ==
    /\ exec = "waiting"
    /\ ~Running
    /\ exec' = "idle"
    /\ UNCHANGED <<status, current, pending, preempt, active, stop, worker, held>>

\* The worker missed server_timeout_: its goals are terminated under it and
\* the transition throws.
MissDeadline ==
    /\ exec = "waiting"
    /\ Running
    /\ worker # "crashed"
    /\ status' = Terminated({current, pending})
    /\ preempt' = FALSE
    /\ exec' = "failed"
    /\ UNCHANGED <<current, pending, active, stop, worker, held>>

-----------------------------------------------------------------------------
(* The methods the worker calls, each one locked block.  The caller moves  *)
(* the worker.                                                             *)

\* is_cancel_requested().
CancelRequested ==
    /\ current # NoGoal
    /\ Canceling(IF pending # NoGoal THEN pending ELSE current)

\* accept_pending_goal(), when the pending goal is live: the current goal, if
\* it is still live, is aborted.
AcceptPending ==
    /\ Active(pending)
    /\ status' = [g \in Goals |->
                    IF g = current /\ g # pending /\ Active(g)
                    THEN "aborted" ELSE status[g]]
    /\ current' = pending
    /\ pending' = NoGoal
    /\ preempt' = FALSE

\* Mutant: the request outlives the goal.
TerminatePendingKeepsFlag ==
    /\ status' = Terminated({pending})
    /\ UNCHANGED <<current, pending, preempt>>

\* terminate_pending_goal().
TerminatePending ==
    /\ status' = Terminated({pending})
    /\ preempt' = (preempt /\ ~Active(pending))
    /\ UNCHANGED <<current, pending>>

TerminateCurrent ==
    /\ status' = Terminated({current})
    /\ UNCHANGED <<current, pending, preempt>>

TerminateAll ==
    /\ status' = Terminated({current, pending})
    /\ preempt' = FALSE
    /\ UNCHANGED <<current, pending>>

\* succeeded_current() drops its handle.
SucceedCurrent ==
    /\ status' = [g \in Goals |->
                    IF g = current /\ Active(g) THEN "succeeded" ELSE status[g]]
    /\ current' = IF Active(current) THEN NoGoal ELSE current
    /\ UNCHANGED <<pending, preempt>>

-----------------------------------------------------------------------------
(* work(): the loop of the worker around the execute callback.             *)

\* The loop condition, read without the lock.
WorkWhile ==
    /\ worker = "while"
    /\ worker' = IF ~stop /\ Active(current) THEN "goal" ELSE "leaving"
    /\ UNCHANGED serverVars

\* The locked block after the callback returned, when the server must stop.
\* Where no completion callback was given, calling it ends the thread.
WorkStop ==
    /\ worker = "after"
    /\ stop
    /\ TerminateAll
    /\ worker' = "leaving"
    /\ UNCHANGED <<active, stop, exec, held>>

\* Mutant: the loop is left with the goal it just accepted.
WorkNextLeaves ==
    /\ worker = "after"
    /\ ~stop
    /\ ~Active(current)
    /\ AcceptPending
    /\ worker' = "leaving"
    /\ UNCHANGED <<active, stop, exec, held>>

\* The same block when a goal waits: it becomes the current one.
WorkNext ==
    /\ worker = "after"
    /\ ~stop
    /\ ~Active(current)
    /\ AcceptPending
    /\ worker' = "while"
    /\ UNCHANGED <<active, stop, exec, held>>

\* The same block with nothing left to do, or with a goal the callback did not
\* end: it is terminated, and calling the missing completion callback ends the
\* thread here too.
WorkDone ==
    /\ worker = "after"
    /\ ~stop
    /\ Active(current) \/ ~Active(pending)
    /\ TerminateCurrent
    /\ worker' = "leaving"
    /\ UNCHANGED <<active, stop, exec, held>>

\* The thread function returns: only now is the future ready.
WorkReturn ==
    /\ worker = "leaving"
    /\ worker' = "idle"
    /\ UNCHANGED serverVars
=============================================================================
