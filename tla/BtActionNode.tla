---------------------------- MODULE BtActionNode ----------------------------
(***************************************************************************)
(* nav2_behavior_tree::BtActionNode: the leaf of a behaviour tree that     *)
(* sends a goal to an action server (planner, controller, behaviours),     *)
(* replaces it when the tree's input changes, waits for the result and     *)
(* cancels it when the tree is halted.                                     *)
(*                                                                         *)
(* One thread ticks and halts the node.  The callbacks of the action       *)
(* client run on that thread only while it spins: they take, in any order, *)
(* responses, status updates and results.  The server decides, runs and    *)
(* ends goals at any time.  Goals are numbered in the order they are sent. *)
(***************************************************************************)
EXTENDS Integers

CONSTANTS
    MaxGoals,  \* bound of a run: goals sent
    Timeout    \* server_timeout_ in loops of the tree (bt_loop_duration_)

ASSUME BoundsAssumption == MaxGoals \in Nat /\ Timeout \in Nat \ {0}

Goals == 1 .. MaxGoals
None == 0
Handles == Goals \cup {None}

VARIABLES
    status,    \* status() of the node; a parent resets what ended to idle
    pc,        \* where the thread is in tick() or halt()
    sent,      \* number of goals sent so far
    handle,    \* goal_handle_
    future,    \* the goal future_goal_handle_ waits for
    elapsed,   \* loops since time_goal_sent_
    updated,   \* goal_updated_
    available, \* goal_result_available_
    result,    \* the goal result_ is of
    known,     \* status of each goal as the client has it
    server,    \* the goals at the server
    cancels    \* goals whose cancelling was requested

nodeVars == <<status, pc, sent, handle, future, elapsed, updated, available, result>>
vars == <<nodeVars, known, server, cancels>>

Live == {"accepted", "executing"}
Ended == {"succeeded", "aborted", "canceled"}
Spinning == {"response", "newResponse", "some", "haltSome", "cancel"}

TypeOK ==
    /\ status \in {"idle", "running"}
    /\ pc \in {"out", "check", "wait", "crashed"} \cup Spinning
    /\ sent \in Handles
    /\ handle \in Handles
    /\ future \in Handles
    /\ elapsed \in 0 .. Timeout
    /\ updated \in BOOLEAN
    /\ available \in BOOLEAN
    /\ result \in Handles
    /\ known \in [Goals -> {"unknown", "rejected"} \cup Live \cup Ended]
    /\ server \in [Goals -> {"unsent", "requested", "rejected"} \cup Live \cup Ended]
    /\ cancels \subseteq Goals

Init ==
    /\ status = "idle"
    /\ pc = "out"
    /\ sent = 0
    /\ handle = None
    /\ future = None
    /\ elapsed = 0
    /\ updated = FALSE
    /\ available = FALSE
    /\ result = None
    /\ known = [g \in Goals |-> "unknown"]
    /\ server = [g \in Goals |-> "unsent"]
    /\ cancels = {}

-----------------------------------------------------------------------------
(* tick()                                                                  *)

KeepServer == UNCHANGED <<known, server, cancels>>

SendKeepsResult ==  \* mutant: the result of the last run is still up
    /\ sent < MaxGoals
    /\ sent' = sent + 1
    /\ future' = sent + 1
    /\ elapsed' = 0
    /\ server' = [server EXCEPT ![sent + 1] = "requested"]
    /\ UNCHANGED available

\* send_new_goal()
Send ==
    /\ sent < MaxGoals
    /\ sent' = sent + 1
    /\ future' = sent + 1
    /\ elapsed' = 0
    /\ available' = FALSE
    /\ server' = [server EXCEPT ![sent + 1] = "requested"]

\* The first tick of a run.
TickFirst ==
    /\ pc = "out"
    /\ status = "idle"
    /\ Send
    /\ status' = "running"
    /\ pc' = "response"
    /\ UNCHANGED <<handle, updated, result, known, cancels>>

TickAgain ==
    /\ pc = "out"
    /\ status = "running"
    /\ pc' = IF future # None THEN "check" ELSE "wait"
    /\ UNCHANGED <<status, sent, handle, future, elapsed, updated, available, result>>
    /\ KeepServer

\* The deadline passed between two ticks, or there is time left to spin.
Check ==
    /\ pc = "check"
    /\ IF elapsed >= Timeout
       THEN future' = None /\ status' = "idle" /\ pc' = "out"
       ELSE UNCHANGED <<future, status>> /\ pc' = "response"
    /\ UNCHANGED <<sent, handle, elapsed, updated, available, result>>
    /\ KeepServer

AcknowledgedAny ==  \* mutant: a rejection is not looked at
    /\ pc \in {"response", "newResponse"}
    /\ known[future] # "unknown"
    /\ future' = None
    /\ handle' = IF known[future] = "rejected" THEN None ELSE future
    /\ pc' = IF pc = "response" THEN "wait" ELSE "some"
    /\ UNCHANGED <<status, sent, elapsed, updated, available, result>>
    /\ KeepServer

\* is_future_goal_handle_complete(): the response arrived; a rejection fails
\* the node, and leaves it without a goal handle.
Acknowledged ==
    /\ pc \in {"response", "newResponse"}
    /\ known[future] # "unknown"
    /\ future' = None
    /\ IF known[future] = "rejected"
       THEN handle' = None /\ status' = "idle" /\ pc' = "out"
       ELSE /\ handle' = future
            /\ pc' = IF pc = "response" THEN "wait" ELSE "some"
            /\ UNCHANGED status
    /\ UNCHANGED <<sent, elapsed, updated, available, result>>
    /\ KeepServer

LateForEver ==  \* mutant: the waiting is not counted
    /\ pc \in {"response", "newResponse"}
    /\ known[future] = "unknown"
    /\ pc' = "out"
    /\ UNCHANGED <<status, sent, handle, future, elapsed, updated, available, result>>
    /\ KeepServer

\* A loop of the tree went by without one.
Late ==
    /\ pc \in {"response", "newResponse"}
    /\ known[future] = "unknown"
    /\ elapsed' = elapsed + 1
    /\ IF elapsed' < Timeout
       THEN UNCHANGED <<future, status>>
       ELSE future' = None /\ status' = "idle"
    /\ pc' = "out"
    /\ UNCHANGED <<sent, handle, updated, available, result>>
    /\ KeepServer

\* on_wait_for_result() may find a new input; a live goal is then replaced.
WaitReplace ==
    /\ pc = "wait"
    /\ handle # None
    /\ known[handle] \in Live
    /\ updated' = FALSE
    /\ Send
    /\ pc' = "newResponse"
    /\ UNCHANGED <<status, handle, result, known, cancels>>

\* No new input, or nothing to replace; get_status() needs a goal handle.
WaitOn ==
    /\ pc = "wait"
    /\ updated' \in {updated, TRUE}
    /\ (handle # None /\ updated') => (known[handle] \notin Live \/ sent = MaxGoals)
    /\ pc' = IF handle = None THEN "crashed" ELSE "some"
    /\ UNCHANGED <<status, sent, handle, future, elapsed, available, result>>
    /\ KeepServer

\* After spin_some(): with a result the run ends.
Yield ==
    /\ pc = "some"
    /\ pc' = "out"
    /\ IF available
       THEN handle' = None /\ status' = "idle"
       ELSE UNCHANGED <<handle, status>>
    /\ UNCHANGED <<sent, future, elapsed, updated, available, result>>
    /\ KeepServer

-----------------------------------------------------------------------------
(* halt()                                                                  *)

\* should_cancel_goal(): without a handle there is nothing to cancel.
Halt ==
    /\ pc = "out"
    /\ status = "running"
    /\ IF handle = None
       THEN status' = "idle" /\ UNCHANGED pc
       ELSE pc' = "haltSome" /\ UNCHANGED status
    /\ UNCHANGED <<sent, handle, future, elapsed, updated, available, result>>
    /\ KeepServer

CancellableExecuting == {"executing"}  \* mutant: not the accepted ones
Cancellable == {"accepted", "executing"}

HaltCancels ==
    /\ pc = "haltSome"
    /\ IF known[handle] \in Cancellable
       THEN cancels' = cancels \cup {handle} /\ pc' = "cancel" /\ UNCHANGED status
       ELSE status' = "idle" /\ pc' = "out" /\ UNCHANGED cancels
    /\ UNCHANGED <<sent, handle, future, elapsed, updated, available, result, known, server>>

\* The server answered the request, or the deadline passed.
Halted ==
    /\ pc = "cancel"
    /\ status' = "idle"
    /\ pc' = "out"
    /\ UNCHANGED <<sent, handle, future, elapsed, updated, available, result>>
    /\ KeepServer

-----------------------------------------------------------------------------
(* What the client takes while the thread spins.                           *)

\* spin_until_future_complete() returns as soon as the response is there.
Spins ==
    /\ pc \in Spinning
    /\ pc \in {"response", "newResponse"} => known[future] = "unknown"

\* The answer to a goal request.
TakeResponse(g) ==
    /\ Spins
    /\ known[g] = "unknown"
    /\ server[g] \notin {"unsent", "requested"}
    /\ known' = [known EXCEPT ![g] = IF server[g] = "rejected" THEN "rejected" ELSE "accepted"]
    /\ UNCHANGED <<nodeVars, server, cancels>>

TakeStatus(g) ==
    /\ Spins
    /\ known[g] = "accepted"
    /\ server[g] = "executing"
    /\ known' = [known EXCEPT ![g] = "executing"]
    /\ UNCHANGED <<nodeVars, server, cancels>>

TakeResultAny(g) ==  \* mutant: of whichever goal
    /\ Spins
    /\ known[g] \in Live
    /\ server[g] \in Ended
    /\ known' = [known EXCEPT ![g] = server[g]]
    /\ IF future = None
       THEN available' = TRUE /\ result' = g
       ELSE UNCHANGED <<available, result>>
    /\ UNCHANGED <<status, pc, sent, handle, future, elapsed, updated, server, cancels>>

\* The result callback: not while a response is awaited, and only of the
\* goal at hand.
TakeResult(g) ==
    /\ Spins
    /\ known[g] \in Live
    /\ server[g] \in Ended
    /\ known' = [known EXCEPT ![g] = server[g]]
    /\ IF future = None /\ handle = g
       THEN available' = TRUE /\ result' = g
       ELSE UNCHANGED <<available, result>>
    /\ pc' = IF future = None /\ handle = None THEN "crashed" ELSE pc
    /\ UNCHANGED <<status, sent, handle, future, elapsed, updated, server, cancels>>

-----------------------------------------------------------------------------
(* The action server, seen from the node.                                  *)

Decide(g) ==
    /\ server[g] = "requested"
    /\ \E s \in {"accepted", "rejected"} : server' = [server EXCEPT ![g] = s]
    /\ UNCHANGED <<nodeVars, known, cancels>>

Execute(g) ==
    /\ server[g] = "accepted"
    /\ server' = [server EXCEPT ![g] = "executing"]
    /\ UNCHANGED <<nodeVars, known, cancels>>

\* Cancelled only on request.
End(g) ==
    /\ server[g] \in Live
    /\ \E s \in {"succeeded", "aborted"} \cup (IF g \in cancels THEN {"canceled"} ELSE {}) :
           server' = [server EXCEPT ![g] = s]
    /\ UNCHANGED <<nodeVars, known, cancels>>

\* Time between two ticks.
Time ==
    /\ pc = "out"
    /\ future # None
    /\ elapsed < Timeout
    /\ elapsed' = elapsed + 1
    /\ UNCHANGED <<status, pc, sent, handle, future, updated, available, result>>
    /\ KeepServer

-----------------------------------------------------------------------------
Tick == TickAgain \/ Check \/ Acknowledged \/ Late \/ WaitReplace \/ WaitOn \/ Yield
HaltStep == HaltCancels \/ Halted

Next ==
    \/ TickFirst
    \/ Tick
    \/ Halt
    \/ HaltStep
    \/ Time
    \/ \E g \in Goals : TakeResponse(g) \/ TakeStatus(g) \/ TakeResult(g)
    \/ \E g \in Goals : Decide(g) \/ Execute(g) \/ End(g)

Spec == Init /\ [][Next]_vars

\* The tree goes on ticking a running node, spin_some() gets to a result that
\* waits, and the server ends the goals it accepted.  It need not answer.
FairSpec ==
    /\ Spec
    /\ WF_vars(Tick)
    /\ WF_vars(HaltStep)
    /\ \A g \in Goals : SF_vars(TakeResult(g)) /\ WF_vars(End(g))

-----------------------------------------------------------------------------
(* Properties.                                                             *)

\* A run that ends with a result ends with that of the last goal sent, however
\* often goals were replaced and however late the older results arrive
\* (send_new_goal, the result callback).
NewestReported ==
    [][(pc = "some" /\ status' = "idle")
       => (result = sent /\ server[sent] \in Ended)]_vars

\* The goal handle is there whenever it is dereferenced: by a tick that waits,
\* and by the callback of a result that is not dropped (tick, send_new_goal).
HandleThere == pc # "crashed"

\* A halted node has asked the server to cancel the goal it knows of, or that
\* goal has ended, even if no status of it arrived yet (should_cancel_goal).
HaltReachesServer ==
    [][(pc \in {"haltSome", "cancel"} /\ status' = "idle")
       => (handle \in cancels \/ server[handle] \in Ended)]_vars

\* The goals as rclcpp_action has them: one is running from its acceptance on,
\* and cancelling from the moment that was requested.
lifeBar ==
    [g \in Goals |->
        CASE server[g] \in {"unsent", "requested"} -> "none"
          [] server[g] \in Live -> IF g \in cancels THEN "canceling" ELSE "executing"
          [] OTHER -> server[g]]

Call == INSTANCE ActionCall
        WITH running <- (status = "running"), newest <- sent, held <- handle, life <- lifeBar

\* Whenever goals are replaced, halted or given up, and however late responses
\* and results come, the node keeps to ActionCall: only the newest goal's end
\* ends a run with a result, a run is abandoned only before that goal's handle
\* came, and halted only with the goal it holds over or being cancelled (tick,
\* halt, send_new_goal, is_future_goal_handle_complete).
CallKept == Call!Spec

\* A run ends: by the deadline if the server does not answer a goal, by the
\* result if it does (tick, is_future_goal_handle_complete).
RunEnds == status = "running" ~> status = "idle"

-----------------------------------------------------------------------------
(* What a comment says and the code does not keep; see the README.         *)

\* halt(): "we make sure to cancel the ROS2 action if it is still running":
\* no goal of a node at rest runs, or will run, without being cancelled.
NothingUnwatched ==
    status = "idle" => \A g \in Goals : server[g] \in {"requested"} \cup Live => g \in cancels
=============================================================================
