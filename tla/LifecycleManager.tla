-------------------------- MODULE LifecycleManager --------------------------
(***************************************************************************)
(* The lifecycle manager of nav2 (nav2_lifecycle_manager) and the servers  *)
(* it manages, in the order of node_names: 1 .. N.  A command of the       *)
(* operator, a broken bond and the respawn timer are served one at a time  *)
(* by one executor; each is a list of transitions (left) that all servers  *)
(* are taken through, a server at a time (at), with two service calls per  *)
(* server: change_state, then get_state with what follows it.              *)
(*                                                                         *)
(* A server may refuse a transition, fail in it, stay in it for ever (a    *)
(* costmap activates only when there is a transform), crash and be         *)
(* respawned.  Its bond is "lost" from its crash until the heartbeat       *)
(* timeout makes it "broken"; heartbeats that come too late break a bond   *)
(* as well.  The bonds are looked at by a timer of 200 ms, which starts    *)
(* anew whenever a startup or a resume succeeds.                           *)
(***************************************************************************)
EXTENDS Integers, Sequences

CONSTANTS
    N,              \* number of managed servers
    MaxCrashes      \* bound: crashes

ASSUME ServersAssumption == N \in Nat \ {0}
ASSUME CrashesAssumption == MaxCrashes \in Nat

VARIABLES
    node,           \* lifecycle state of each server, "down" after a crash
    bond,           \* bond_map_, "none": no entry
    active,         \* system_active_; the bond timer exists just then
    due,            \* the period of the bond timer is over
    respawn,        \* bond_respawn_timer_ before its first or a later tick, or none
    clients,        \* node_map_ holds service clients
    step, kind, left, at,   \* what the executor is doing
    crashes

serves == <<kind, left, at>>
vars   == <<node, bond, active, due, respawn, clients, step, serves, crashes>>

Nodes == 1 .. N
\* the commands, and what the manager begins by itself: startup when the servers are back
\* and the hard reset
Ups   == {"startup", "resume", "recover"}
Downs == {"reset", "pause", "shutdown"}
Commands == Downs \cup {"startup", "resume"}
Kinds == Ups \cup Downs \cup {"hard"}
Transitions == {"configure", "activate", "deactivate", "cleanup", "finalize"}
States == {"unconfigured", "inactive", "active", "finalized", "down"}

\* the transitions of startup, resume, reset, pause and shutdownAllNodes
Plan == [startup  |-> <<"configure", "activate">>,
         recover  |-> <<"configure", "activate">>,
         resume   |-> <<"activate">>,
         reset    |-> <<"deactivate", "cleanup">>,
         hard     |-> <<"deactivate", "cleanup">>,
         pause    |-> <<"deactivate">>,
         shutdown |-> <<"deactivate", "cleanup", "finalize">>]

From == [configure |-> "unconfigured", activate |-> "inactive", deactivate |-> "active",
         cleanup |-> "inactive", finalize |-> "unconfigured"]
\* transition_state_map_
Target == [configure |-> "inactive", activate |-> "active", deactivate |-> "inactive",
           cleanup |-> "unconfigured", finalize |-> "finalized"]

Upward(t) == t \in {"configure", "activate"}
First(t)  == IF Upward(t) THEN 1 ELSE N

Init ==
    /\ node = [n \in Nodes |-> "unconfigured"]
    /\ bond = [n \in Nodes |-> "none"]
    /\ active = FALSE /\ due = FALSE /\ respawn = "off" /\ clients = TRUE
    /\ step = "idle" /\ kind = "startup" /\ left = <<>> /\ at = 1
    /\ crashes = 0

Begin(k) == /\ step' = "change" /\ kind' = k
            /\ left' = Plan[k] /\ at' = First(Head(Plan[k]))

-----------------------------------------------------------------------------
(* changeStateForAllNodes.                                                 *)

\* what the function that called changeStateForAllNodes does when it is through
Finish(ok) ==
    /\ step' = "idle" /\ left' = <<>> /\ UNCHANGED <<kind, at>>
    /\ active' = (active \/ (ok /\ kind \in Ups))
    /\ due' = (due /\ ~(ok /\ kind \in Ups))      \* createBondTimer: a new period
    /\ clients' = (clients /\ kind # "shutdown")
    /\ respawn' = IF kind = "hard" /\ respawn = "off" THEN "first" ELSE respawn

EndsAgain(ok) ==    \* mutant: the transition that failed is tried again
    IF Tail(left) # <<>> /\ (ok \/ kind = "shutdown")
    THEN /\ step' = "change" /\ left' = Tail(left)
         /\ at' = First(left'[1])
         /\ UNCHANGED <<kind, active, due, clients, respawn>>
    ELSE IF ok THEN Finish(ok)
    ELSE step' = "change" /\ UNCHANGED <<kind, left, at, active, due, clients, respawn>>

\* shutdownAllNodes goes on with the next transition in any case, the others only after
\* a success
Ends(ok) ==
    IF Tail(left) # <<>> /\ (ok \/ kind = "shutdown")
    THEN /\ step' = "change" /\ left' = Tail(left)
         /\ at' = First(left'[1])
         /\ UNCHANGED <<kind, active, due, clients, respawn>>
    ELSE Finish(ok)

\* after a crash of a server bond_map_ is cleared
Clear(b) == IF kind = "hard" /\ step' = "idle" THEN [n \in Nodes |-> "none"] ELSE b

Last(t) == IF Upward(t) THEN N ELSE 1

Advance == IF at = Last(Head(left))
           THEN Ends(TRUE)
           ELSE /\ step' = "change"
                /\ at' = IF Upward(Head(left)) THEN at + 1 ELSE at - 1
                /\ UNCHANGED <<kind, left, active, due, clients, respawn>>

FailsNever == Advance       \* mutant: a server that failed is passed over

\* changeStateForNode answered false
Fails == IF kind = "hard" THEN Advance ELSE Ends(FALSE)

Lost(n) == [bond EXCEPT ![n] = IF @ = "up" THEN "lost" ELSE @]

\* change_state: the server is there and takes the request
Call ==
    /\ step = "change" /\ clients /\ node[at] # "down"
    /\ step' = "called"
    /\ UNCHANGED <<node, bond, active, due, respawn, clients, serves, crashes>>

\* the server makes the transition, fails in it, or refuses it; the answer does not say
\* which
Change ==
    LET t == Head(left) IN
    /\ step = "called"
    /\ \/ /\ node[at] = From[t]
          /\ \E s \in {Target[t], From[t], "unconfigured"} : node' = [node EXCEPT ![at] = s]
       \/ node[at] # From[t] /\ UNCHANGED node
    /\ bond' = IF node[at] = "active" /\ node'[at] # "active" THEN Lost(at) ELSE bond
    /\ step' = "check"
    /\ UNCHANGED <<active, due, respawn, clients, serves, crashes>>

\* the server is not there, or too busy to tell its state in time: change_state or get_state
\* throws, which ends the loop, a hard reset's too
Throws ==
    /\ \/ step = "change" /\ clients /\ node[at] = "down"
       \/ step = "check"
    /\ Ends(FALSE)
    /\ bond' = Clear(bond)
    /\ UNCHANGED <<node, crashes>>

ActivatedUnbound ==         \* mutant: no bond is created
    Advance /\ UNCHANGED bond

\* createBondConnection: an entry that exists is not looked at; a new bond forms in time
\* or not, and is entered in either case
Activated == \/ /\ bond[at] # "none" /\ UNCHANGED bond
                /\ Advance
             \/ /\ bond[at] = "none" /\ bond' = [bond EXCEPT ![at] = "up"]
                /\ Advance
             \/ /\ bond[at] = "none"
                /\ \E b \in {"up", "lost"} : bond' = [bond EXCEPT ![at] = b]
                /\ Fails

\* get_state, and what changeStateForNode does next
Check ==
    LET t == Head(left) IN
    /\ step = "check" /\ node[at] # "down"
    /\ \/ /\ node[at] # Target[t]
          /\ Fails /\ bond' = Clear(bond)
       \/ node[at] = "active" /\ t = "activate" /\ Activated
       \/ /\ node[at] = Target[t] /\ t # "activate"
          /\ Advance
          /\ bond' = Clear(IF t = "deactivate" THEN [bond EXCEPT ![at] = "none"] ELSE bond)
    /\ UNCHANGED <<node, crashes>>

\* destroyLifecycleServiceClients left null pointers in node_map_
NullClient ==
    /\ step = "change" /\ ~clients
    /\ step' = "crashed"
    /\ UNCHANGED <<node, bond, active, due, respawn, clients, serves, crashes>>

Serve == Call \/ Throws \/ Check \/ NullClient

-----------------------------------------------------------------------------
(* The callbacks.                                                          *)

\* managerCallback
Command(k) ==
    /\ step = "idle"
    /\ active' = (active /\ k \notin Downs)
    /\ due' = (due /\ k \notin Downs)
    /\ Begin(k)
    /\ UNCHANGED <<node, bond, respawn, clients, crashes>>

CheckFirstBond ==           \* mutant: only the first server's bond is looked at
    /\ step = "idle" /\ active /\ due
    /\ due' = FALSE
    /\ \/ /\ bond[1] = "broken"
          /\ active' = FALSE /\ Begin("hard")
       \/ /\ bond[1] # "broken"
          /\ UNCHANGED <<active, step, serves>>
    /\ UNCHANGED <<node, bond, respawn, clients, crashes>>

\* 200 ms have passed
BondTimerElapses ==
    /\ active /\ ~due /\ due' = TRUE
    /\ UNCHANGED <<node, bond, active, respawn, clients, step, serves, crashes>>

\* checkBondConnections: a broken bond resets all servers
CheckBondConnections ==
    /\ step = "idle" /\ active /\ due
    /\ due' = FALSE
    /\ \/ /\ \E n \in Nodes : bond[n] = "broken"
          /\ active' = FALSE /\ Begin("hard")
       \/ /\ \A n \in Nodes : bond[n] # "broken"
          /\ UNCHANGED <<active, step, serves>>
    /\ UNCHANGED <<node, bond, respawn, clients, crashes>>

\* checkBondRespawnConnection: all servers answer, or it is tried again for a while
CheckBondRespawnConnection ==
    /\ step = "idle" /\ respawn # "off"
    /\ \/ /\ active
          /\ respawn' = "off" /\ UNCHANGED <<step, serves>>
       \/ /\ ~active /\ ~clients
          /\ step' = "crashed" /\ UNCHANGED <<respawn, serves>>
       \/ /\ ~active /\ clients /\ \A n \in Nodes : node[n] # "down"
          /\ respawn' = "off" /\ Begin("recover")
       \/ /\ ~active /\ clients /\ \E n \in Nodes : node[n] = "down"
          /\ respawn' \in IF respawn = "first" THEN {"later"} ELSE {"later", "off"}
          /\ UNCHANGED <<step, serves>>
    /\ UNCHANGED <<node, bond, active, due, clients, crashes>>

-----------------------------------------------------------------------------
(* The servers.                                                            *)

\* a server that dies in a transition never answers: change_state has no timeout
Crash(n) ==
    /\ node[n] # "down"
    /\ crashes < MaxCrashes /\ crashes' = crashes + 1
    /\ node' = [node EXCEPT ![n] = "down"] /\ bond' = Lost(n)
    /\ step' = IF step = "called" /\ n = at THEN "hung" ELSE step
    /\ UNCHANGED <<active, due, respawn, clients, serves>>

Respawn(n) ==
    /\ node[n] = "down"
    /\ node' = [node EXCEPT ![n] = "unconfigured"]
    /\ UNCHANGED <<bond, active, due, respawn, clients, step, serves, crashes>>

\* no heartbeat for bond_timeout: the server is gone, or too busy
BondBreaks(n) ==
    /\ bond[n] \in {"up", "lost"}
    /\ bond' = [bond EXCEPT ![n] = "broken"]
    /\ UNCHANGED <<node, active, due, respawn, clients, step, serves, crashes>>

Next ==
    \/ Serve \/ Change
    \/ \E k \in Commands : Command(k)
    \/ BondTimerElapses \/ CheckBondConnections \/ CheckBondRespawnConnection
    \/ \E n \in Nodes : Crash(n) \/ Respawn(n) \/ BondBreaks(n)

Spec == Init /\ [][Next]_vars

\* The executor runs, and when timer and requests are ready takes the timer; time passes,
\* and a lost bond runs into its timeout.  Nothing is assumed of a server that is to change
\* its state.
FairSpec == /\ Spec
            /\ WF_vars(Serve)
            /\ WF_vars(BondTimerElapses) /\ SF_vars(CheckBondConnections)
            /\ \A n \in Nodes : WF_vars(bond[n] = "lost" /\ BondBreaks(n))

-----------------------------------------------------------------------------
(* Properties.                                                             *)

Working == step \in {"change", "called", "check"}

\* Every variable keeps its type; the executor at work has a transition under way, and the
\* bond timer is due only while it exists.
TypeOK ==
    /\ node \in [Nodes -> States]
    /\ bond \in [Nodes -> {"none", "up", "lost", "broken"}]
    /\ active \in BOOLEAN /\ due \in BOOLEAN /\ (due => active)
    /\ respawn \in {"off", "first", "later"} /\ clients \in BOOLEAN
    /\ step \in {"idle", "change", "called", "check", "hung", "crashed"} /\ kind \in Kinds
    /\ left \in Seq(Transitions) /\ at \in Nodes
    /\ crashes \in 0 .. MaxCrashes
    /\ Working => left # <<>>

\* The manager will notice a server that does not work: it is active, or its bond is
\* lost.  Without an entry in bond_map_ checkBondConnections would follow a null pointer.
Watched(n) == bond[n] # "none" /\ (node[n] = "active" \/ bond[n] # "up")

\* is_active answers yes only while every server is watched, through commands that fail
\* halfway, crashes, respawns and bonds that form late (startup, resume, reset, pause).
ActiveIsWatched == active => \A n \in Nodes : Watched(n)

\* A server is activated only when those before it are active or found lost, and a reset or
\* pause deactivates one only when those after it are not active
\* (changeStateForAllNodes: "Should transition in reverse order").
InOrder ==
    Working =>
        /\ Head(left) = "activate" => \A n \in Nodes : n < at => Watched(n)
        /\ Head(left) = "deactivate" /\ kind \in {"reset", "pause"} =>
               \A n \in Nodes : n > at => node[n] # "active"

\* No server keeps the manager waiting for ever.
Answered == []<>(step \notin {"called", "hung"})

\* Commands that may start the bond timer anew come to an end.
TimerLeftAlone == <>[](Working => kind \notin {"startup", "resume"})

Noticed == active /\ (\E n \in Nodes : bond[n] = "lost") ~> ~active

\* A server that is lost takes the system out of service, also in the middle of commands,
\* if servers answer and the operator does not resume for ever (checkBondConnections).
CrashNoticed == Answered /\ TimerLeftAlone => Noticed

\* Every command and callback comes to an end, whatever fails in it, if servers answer
\* (changeStateForAllNodes).
CommandEnds == Answered => (Working ~> step \in {"idle", "crashed"})

-----------------------------------------------------------------------------
(* Statements the code does not keep (README, section 6).                  *)

\* "if one is down, bring them all down", "hard reset to transition all still active down".
OthersBroughtDown ==
    [][kind = "hard" /\ Working /\ step' = "idle"
         => \A n \in Nodes : node[n] # "active"]_vars

\* "Managed nodes have been paused" (or reset, shut down): only the operator ends that.
OperatorHeeded ==
    [][kind' = "recover" /\ kind # "recover" => kind \notin Downs]_vars

\* No command, and no timer, follows the client pointers that a shutdown has cleared.
NoNullClient == step # "crashed"

\* A server that dies in a transition, or does not come to the end of it, does not take the
\* manager with it.
NeverHung == Working ~> step \in {"idle", "crashed"}

\* A server that is lost is noticed whatever the operator does: the bond timer is not set
\* back for ever.
AlwaysNoticed == Answered => Noticed
=============================================================================
