----------------------------- MODULE ActionCall -----------------------------
(***************************************************************************)
(* What a behaviour tree may rely on from a leaf that calls an action,     *)
(* without ticks, futures, callbacks or deadlines: a run sends a goal and  *)
(* may replace it once the server has taken it; it ends with the outcome   *)
(* of its newest goal, is given up only before the server's answer to that *)
(* goal was seen, or is stopped with the goal it holds over or asked to be *)
(* cancelled.  BtActionNode implements this specification.                 *)
(***************************************************************************)
EXTENDS Integers, GoalStates

CONSTANT MaxGoals  \* bound of a run: goals sent

Goals == 1 .. MaxGoals
None == 0

VARIABLES
    running,  \* the leaf is running
    newest,   \* the goal sent last
    held,     \* the goal the leaf can cancel; it may be of an earlier run
    life      \* the state of each goal at the server

vars == <<running, newest, held, life>>

Init ==
    /\ running = FALSE
    /\ newest = None
    /\ held = None
    /\ life = [g \in Goals |-> "none"]

-----------------------------------------------------------------------------
\* A run begins.
Start ==
    /\ ~running
    /\ newest < MaxGoals
    /\ running' = TRUE
    /\ newest' = newest + 1
    /\ UNCHANGED <<held, life>>

\* The leaf learns that the server took its newest goal.
Acknowledge ==
    /\ running
    /\ held # newest
    /\ life[newest] \notin {"none", "rejected"}
    /\ held' = newest
    /\ UNCHANGED <<running, newest, life>>

\* It sends another goal instead, and holds the old one meanwhile.
Replace ==
    /\ running
    /\ held = newest
    /\ newest < MaxGoals
    /\ newest' = newest + 1
    /\ UNCHANGED <<running, held, life>>

\* It asks the server to cancel the goal it holds.
Ask ==
    /\ running
    /\ held # None
    /\ life[held] = "executing"
    /\ life' = [life EXCEPT ![held] = "canceling"]
    /\ UNCHANGED <<running, newest, held>>

\* The run ends with the outcome of the newest goal ...
Report ==
    /\ running
    /\ held = newest
    /\ life[newest] \in Over
    /\ running' = FALSE
    /\ held' = None
    /\ UNCHANGED <<newest, life>>

\* ... without one, as the goal was rejected or nothing is known of it yet ...
GiveUp ==
    /\ running
    /\ held # newest
    /\ running' = FALSE
    /\ held' = held \/ (life[newest] = "rejected" /\ held' = None)
    /\ UNCHANGED <<newest, life>>

\* ... or because the tree wants no more of it.
Stop ==
    /\ running
    /\ held # None
    /\ life[held] \in {"canceling"} \cup Over
    /\ running' = FALSE
    /\ UNCHANGED <<newest, held, life>>

\* The server decides about a goal it was sent, or ends it.
Serve(g) ==
    /\ g <= newest
    /\ \E s \in {"rejected", "executing"} \cup Over :
           /\ Move(life[g], s)
           /\ life' = [life EXCEPT ![g] = s]
    /\ UNCHANGED <<running, newest, held>>

Next ==
    \/ Start \/ Acknowledge \/ Replace \/ Ask
    \/ Report \/ GiveUp \/ Stop
    \/ \E g \in Goals : Serve(g)

Spec == Init /\ [][Next]_vars
=============================================================================
