---------------------------- MODULE ScadaPatrol ----------------------------
(***************************************************************************)
(* The patrol of wheeltec_scada_bridge/node.py.  Two threads work on the   *)
(* mission: the executor, whose timers run patrol_tick and                 *)
(* update_map_pose one at a time, and the command thread, which serves one *)
(* operator request at a time (cmd_loop).  _patrol_lock is held for single *)
(* blocks only, so every block, and every access outside one, is an action *)
(* of its own and the threads interleave between them.                     *)
(*                                                                         *)
(* Places stand for coordinates: the distance to a goal is within the      *)
(* waypoint tolerance iff the reported place is the goal.  Times are ages: *)
(* age is how long ago the goal was sent, in units that saturate one past  *)
(* the timeout.                                                            *)
(***************************************************************************)
EXTENDS Integers, Sequences

CONSTANTS
    Places,         \* the places of goals and reported poses
    Missions,       \* the valid patrol_start payloads: [route, loops, home]
    NoPlace,        \* _patrol_last_goal, _patrol_home before the first one
    Requests,       \* which of the patrol's commands the operator uses
    Timeout,        \* _patrol_waypoint_timeout_sec, in units of age
    MaxRuns,        \* bound: patrols accepted
    MaxRequests     \* bound: requests received

Commands == {"patrol_start", "patrol_stop", "nav_goal"}

ASSUME PlacesAssumption == NoPlace \notin Places

\* lines 580-585: what _start_patrol requires of a payload
ASSUME MissionsAssumption ==
    /\ Missions \subseteq [route : Seq(Places), loops : Nat \ {0}, home : Places]
    /\ \A m \in Missions : Len(m.route) >= 2

ASSUME BoundsAssumption == /\ Requests \subseteq Commands
                           /\ Timeout \in Nat
                           /\ MaxRuns \in Nat
                           /\ MaxRequests \in Nat

VARIABLES
    status, phase, wps, home, total, loop, idx,     \* self._patrol_*
    lastGoal, age,
    tele,           \* telemetry_data["patrol"]
    pose,           \* telemetry_data["map_pose"]
    goalTopic,      \* the last message on /goal_pose
    pcC, reply, answer, stopC, goalC,   \* command thread
    pcX, seenAge, adv, stopX,           \* executor, inside patrol_tick
    runs, requests                      \* bounds only

mission == <<status, phase, wps, home, total, loop, idx, lastGoal, age, tele>>
cmd     == <<pcC, reply, answer, stopC, goalC>>
tick    == <<pcX, seenAge, adv, stopX>>
bounds  == <<runs, requests>>
vars    == <<mission, pose, goalTopic, cmd, tick, bounds>>

NotSent == -1
Ages    == NotSent .. Timeout + 1

\* _is_patrol_active
ActiveStatus == {"starting", "running", "returning_home"}
Active == status \in ActiveStatus

EndStatus == {"completed", "failed", "stopped", "aborted"}
Status    == {"idle"} \cup ActiveStatus \cup EndStatus
Phase     == {"idle", "go_home_start", "patrol", "return_home_end"}
NoAdvance == [to |-> NoPlace, status |-> "idle", loop |-> 0, idx |-> -1]
Advance   == [to : Places, status : ActiveStatus, loop : Nat, idx : Nat \cup {-1}]

Reports   == [status : Status, loop : Nat, idx : Nat \cup {-1}, total : Nat, count : Nat,
              last : Places \cup {NoPlace}]

Report(s) == [status |-> s, loop |-> loop, idx |-> idx,
              total |-> total, count |-> Len(wps), last |-> lastGoal]

Init ==
    /\ status = "idle" /\ phase = "idle"
    /\ wps = <<>> /\ home = NoPlace
    /\ total = 0 /\ loop = 0 /\ idx = -1
    /\ lastGoal = NoPlace /\ age = NotSent
    /\ tele = Report("idle")
    /\ pose \in Places
    /\ goalTopic = NoPlace
    /\ pcC = "recv" /\ reply = "none" /\ answer = "none"
    /\ stopC = "idle" /\ goalC = NoPlace
    /\ pcX = "idle" /\ seenAge = NotSent /\ adv = NoAdvance /\ stopX = "idle"
    /\ runs = 0 /\ requests = 0

-----------------------------------------------------------------------------
(* The blocks both threads are built from.                                 *)

\* _set_patrol_state
SetPatrolState(s) == /\ status' = s
                     /\ tele' = Report(s)
                     /\ UNCHANGED <<phase, wps, home, total, loop, idx, lastGoal, age>>

\* _publish_goal: the message first, the record of it in a block of its own
PublishGoal(p) == /\ goalTopic' = p
                  /\ UNCHANGED mission

RecordGoalUntimed(p) ==     \* mutant: the send time is not renewed
    /\ lastGoal' = p
    /\ UNCHANGED <<status, phase, wps, home, total, loop, idx, age, tele>>

RecordGoal(p) == /\ lastGoal' = p
                 /\ age' = 0
                 /\ UNCHANGED <<status, phase, wps, home, total, loop, idx, tele>>

ClearKeepsRoute ==          \* mutant: waypoints and loops are kept
    /\ phase' = "idle"
    /\ loop' = 0 /\ idx' = -1
    /\ age' = NotSent
    /\ UNCHANGED <<status, wps, home, total, lastGoal, tele>>

\* the locked block of _stop_patrol; lastGoal stays
ClearMission == /\ phase' = "idle"
                /\ wps' = <<>>
                /\ total' = 0 /\ loop' = 0 /\ idx' = -1
                /\ age' = NotSent
                /\ UNCHANGED <<status, home, lastGoal, tele>>

-----------------------------------------------------------------------------
(* The command thread.                                                     *)

Receive(r) == /\ pcC = "recv"
              /\ r \in Requests
              /\ requests < MaxRequests
              /\ requests' = requests + 1
              /\ reply' = "none"
              /\ UNCHANGED <<pose, goalTopic, tick>>

\* patrol_start with a payload the validation refuses, or while a patrol is active
RefuseStart == /\ Receive("patrol_start")
               /\ pcC' = "reply" /\ answer' = "error"
               /\ UNCHANGED <<mission, stopC, goalC, runs>>

\* patrol_start: validation and the locked block of _start_patrol
AcceptStart(m) == /\ Receive("patrol_start")
                  /\ runs < MaxRuns
                  /\ ~Active
                  /\ wps' = m.route /\ home' = m.home /\ total' = m.loops
                  /\ loop' = 0 /\ idx' = -1
                  /\ phase' = "go_home_start"
                  /\ goalC' = m.home
                  /\ runs' = runs + 1
                  /\ pcC' = "start_set"
                  /\ UNCHANGED <<status, lastGoal, age, tele, answer, stopC>>

StartSet == /\ pcC = "start_set"
            /\ SetPatrolState("starting")
            /\ answer' = "started"
            /\ pcC' = "publish"
            /\ UNCHANGED <<pose, goalTopic, reply, stopC, goalC, tick, bounds>>

CmdPublish == /\ pcC = "publish"
              /\ PublishGoal(goalC)
              /\ pcC' = IF answer = "started" THEN "record" ELSE "reply"
              /\ UNCHANGED <<pose, reply, answer, stopC, goalC, tick, bounds>>

StartRecord == /\ pcC = "record"
               /\ RecordGoal(goalC)
               /\ pcC' = "reply"
               /\ UNCHANGED <<pose, goalTopic, reply, answer, stopC, goalC, tick, bounds>>

\* patrol_stop; a stop while nothing runs is answered "stopped" as well
ReceiveStop == /\ Receive("patrol_stop")
               /\ answer' = "stopped"
               /\ IF Active THEN pcC' = "stop_clear" /\ stopC' = "stopped"
                            ELSE pcC' = "reply" /\ UNCHANGED stopC
               /\ UNCHANGED <<mission, goalC, runs>>

\* nav_goal: an active patrol is aborted before the payload is looked at;
\* NoPlace is a payload _safe_float refuses
ReceiveNavGoal(p) == /\ Receive("nav_goal")
                     /\ goalC' = p
                     /\ answer' = IF p = NoPlace THEN "error" ELSE "goal_sent"
                     /\ IF Active THEN pcC' = "stop_clear" /\ stopC' = "aborted"
                                  ELSE /\ pcC' = IF p = NoPlace THEN "reply" ELSE "publish"
                                       /\ UNCHANGED stopC
                     /\ UNCHANGED <<mission, runs>>

CmdStopClear == /\ pcC = "stop_clear"
                /\ ClearMission
                /\ pcC' = "stop_set"
                /\ UNCHANGED <<pose, goalTopic, reply, answer, stopC, goalC, tick, bounds>>

CmdStopSet == /\ pcC = "stop_set"
              /\ SetPatrolState(stopC)
              /\ pcC' = IF answer = "goal_sent" THEN "publish" ELSE "reply"
              /\ UNCHANGED <<pose, goalTopic, reply, answer, stopC, goalC, tick, bounds>>

Reply == /\ pcC = "reply"
         /\ reply' = answer
         /\ pcC' = "recv" /\ answer' = "none" /\ stopC' = "idle" /\ goalC' = NoPlace
         /\ UNCHANGED <<mission, pose, goalTopic, tick, bounds>>

CmdStep == \/ StartSet \/ CmdPublish \/ StartRecord
           \/ CmdStopClear \/ CmdStopSet \/ Reply

CmdReceive == \/ RefuseStart \/ ReceiveStop
              \/ \E m \in Missions : AcceptStart(m)
              \/ \E p \in Places \cup {NoPlace} : ReceiveNavGoal(p)

-----------------------------------------------------------------------------
(* The executor thread: patrol_tick.                                       *)

TickIdle == pcX' = "idle" /\ seenAge' = NotSent /\ adv' = NoAdvance /\ stopX' = "idle"

TickActive == /\ pcX = "idle"
              /\ Active
              /\ pcX' = "read_sent"
              /\ UNCHANGED <<mission, pose, goalTopic, cmd, seenAge, adv, stopX, bounds>>

TickReadSent == /\ pcX = "read_sent"
                /\ seenAge' = age
                /\ pcX' = "distance"
                /\ UNCHANGED <<mission, pose, goalTopic, cmd, adv, stopX, bounds>>

\* _distance_to_current_goal: the goal is read under the lock, the pose is
\* only ever written by this thread
TickDistance == /\ pcX = "distance"
                /\ pcX' = IF lastGoal = pose THEN "advance" ELSE "timeout"
                /\ UNCHANGED <<mission, pose, goalTopic, cmd, seenAge, adv, stopX, bounds>>

Overdue(a) == a # NotSent /\ a > Timeout

TickTimeout == /\ pcX = "timeout"
               /\ IF Overdue(seenAge)
                  THEN /\ pcX' = "stop_clear" /\ stopX' = "failed"
                       /\ seenAge' = NotSent /\ UNCHANGED adv
                  ELSE TickIdle
               /\ UNCHANGED <<mission, pose, goalTopic, cmd, bounds>>

\* _advance_patrol_goal decides on a snapshot taken in one locked block ...
GoTo(next, p, s, l, i) ==
    /\ pcX' = next
    /\ adv' = [to |-> p, status |-> s, loop |-> l, idx |-> i]
    /\ UNCHANGED stopX

EndWith(s) == pcX' = "stop_clear" /\ stopX' = s /\ UNCHANGED adv

LoopsLeftOneMore == loop <= total                   \* mutant: off by one
LoopsLeft        == loop < total

TickAdvance ==
    /\ pcX = "advance"
    /\ seenAge' = NotSent
    /\ \/ /\ phase = "go_home_start"
          /\ IF wps = <<>> THEN EndWith("failed")
                           ELSE GoTo("write_first", wps[1], "running", 1, 0)
       \/ /\ phase = "patrol"
          /\ \/ /\ idx < Len(wps) - 1
                /\ GoTo("write_idx", wps[idx + 2], "running", loop, idx + 1)
             \/ /\ idx >= Len(wps) - 1 /\ LoopsLeft
                /\ GoTo("write_loop", wps[1], "running", loop + 1, 0)
             \/ /\ idx >= Len(wps) - 1 /\ ~LoopsLeft
                /\ IF home = NoPlace THEN EndWith("failed")
                   ELSE GoTo("write_return", home, "returning_home", loop, idx)
       \/ phase = "return_home_end" /\ EndWith("completed")
       \/ phase = "idle" /\ pcX' = "idle" /\ UNCHANGED <<adv, stopX>>
    /\ UNCHANGED <<mission, pose, goalTopic, cmd, bounds>>

\* ... and writes what it decided in later ones
TickWriteUnreported(pc) ==  \* mutant: no _set_patrol_state after the write
    /\ pcX = pc /\ pcX' = "publish"
    /\ UNCHANGED <<status, wps, home, total, lastGoal, age, tele,
                   pose, goalTopic, cmd, seenAge, adv, stopX, bounds>>

TickWrite(pc) ==
    /\ pcX = pc
    /\ pcX' = "set"
    /\ UNCHANGED <<status, wps, home, total, lastGoal, age, tele,
                   pose, goalTopic, cmd, seenAge, adv, stopX, bounds>>

WriteFirst == /\ TickWrite("write_first")
              /\ phase' = "patrol" /\ loop' = 1 /\ idx' = 0

WriteIdx == /\ TickWrite("write_idx")
            /\ idx' = adv.idx
            /\ UNCHANGED <<phase, loop>>

WriteLoop == /\ TickWrite("write_loop")
             /\ loop' = adv.loop /\ idx' = 0
             /\ UNCHANGED phase

WriteReturn == /\ TickWrite("write_return")
               /\ phase' = "return_home_end"
               /\ UNCHANGED <<loop, idx>>

TickSet == /\ pcX = "set"
           /\ SetPatrolState(adv.status)
           /\ pcX' = "publish"
           /\ UNCHANGED <<pose, goalTopic, cmd, seenAge, adv, stopX, bounds>>

TickPublish == /\ pcX = "publish"
               /\ PublishGoal(adv.to)
               /\ pcX' = "record"
               /\ UNCHANGED <<pose, cmd, seenAge, adv, stopX, bounds>>

TickRecord == /\ pcX = "record"
              /\ RecordGoal(adv.to)
              /\ TickIdle
              /\ UNCHANGED <<pose, goalTopic, cmd, bounds>>

TickStopClear == /\ pcX = "stop_clear"
                 /\ ClearMission
                 /\ pcX' = "stop_set"
                 /\ UNCHANGED <<pose, goalTopic, cmd, seenAge, adv, stopX, bounds>>

TickStopSet == /\ pcX = "stop_set"
               /\ SetPatrolState(stopX)
               /\ TickIdle
               /\ UNCHANGED <<pose, goalTopic, cmd, bounds>>

TickStep == \/ TickActive \/ TickReadSent \/ TickDistance \/ TickTimeout
            \/ TickAdvance \/ WriteFirst \/ WriteIdx \/ WriteLoop \/ WriteReturn
            \/ TickSet \/ TickPublish \/ TickRecord \/ TickStopClear \/ TickStopSet

-----------------------------------------------------------------------------
(* The robot and the clock.                                                *)

\* update_map_pose, on the executor: the robot may have been moved anywhere,
\* and a failed lookup leaves the old pose in place
UpdateMapPose(p) == /\ pcX = "idle"
                    /\ pose' = p
                    /\ UNCHANGED <<mission, goalTopic, cmd, tick, bounds>>

Older(a) == IF a = NotSent \/ a > Timeout THEN a ELSE a + 1

Time == /\ age' = Older(age)
        /\ seenAge' = Older(seenAge)
        /\ UNCHANGED <<status, phase, wps, home, total, loop, idx, lastGoal, tele,
                       pose, goalTopic, cmd, pcX, adv, stopX, bounds>>

Next == CmdStep \/ CmdReceive \/ TickStep \/ Time \/ \E p \in Places : UpdateMapPose(p)

Spec == Init /\ [][Next]_vars

\* Both threads keep running and time passes; nothing is assumed of the
\* operator or of the robot.
FairSpec == Spec /\ WF_vars(CmdStep) /\ WF_vars(TickStep) /\ WF_vars(Time)

-----------------------------------------------------------------------------
\* Every variable keeps its type: in particular the index and loop written
\* from a stale snapshot, whatever happened to the mission since.
TypeOK ==
    /\ status \in Status /\ phase \in Phase
    /\ wps \in Seq(Places) /\ home \in Places \cup {NoPlace}
    /\ total \in Nat /\ loop \in Nat /\ idx \in Nat \cup {-1}
    /\ lastGoal \in Places \cup {NoPlace} /\ age \in Ages
    /\ tele \in Reports
    /\ pose \in Places /\ goalTopic \in Places \cup {NoPlace}
    /\ pcC \in {"recv", "start_set", "publish", "record", "stop_clear", "stop_set", "reply"}
    /\ reply \in {"none", "started", "stopped", "goal_sent", "error"}
    /\ answer \in {"none", "started", "stopped", "goal_sent", "error"}
    /\ stopC \in {"idle", "stopped", "aborted"} /\ goalC \in Places \cup {NoPlace}
    /\ pcX \in {"idle", "read_sent", "distance", "timeout", "advance", "write_first",
                "write_idx", "write_loop", "write_return", "set", "publish", "record",
                "stop_clear", "stop_set"}
    /\ seenAge \in Ages /\ adv \in Advance \cup {NoAdvance}
    /\ stopX \in {"idle", "completed", "failed"}
    /\ runs \in Nat /\ requests \in Nat

AtRest == pcC = "recv" /\ pcX = "idle"

\* patrol_tick gives up only on a goal whose send time is set.  Whatever the
\* order of commands and ticks, an active patrol has one, unless a thread is
\* about to publish a goal or to end the patrol.
WatchdogArmed ==
    Active => \/ age # NotSent
              \/ pcC \in {"publish", "record"} /\ answer = "started"
              \/ pcC = "stop_set"
              \/ pcX \in {"publish", "record", "stop_set"}

\* The patrol telemetry (the operator's only view of the mission) agrees with
\* the mission's fields unless a thread stands between writing them and
\* calling _set_patrol_state.  Its last_goal does not: _publish_goal records the
\* goal after the report (see GoalReported).
TelemetryAgrees ==
    \/ [tele EXCEPT !.last = lastGoal] = Report(status)
    \/ pcC \in {"start_set", "stop_set"}
    \/ pcX \in {"set", "stop_set"}

\* A mission is under way exactly when its status says so, and its loop and
\* index stay inside the route, so that the snapshot taken by
\* _advance_patrol_goal always yields a goal (or the end).
MissionKept ==
    /\ AtRest => (Active <=> phase # "idle")
    /\ phase # "idle" => Len(wps) >= 2 /\ home \in Places
    /\ phase = "patrol" => loop \in 1 .. total /\ idx \in 0 .. Len(wps) - 1

\* Once a stop has been answered no tick decides on a waypoint again: a tick that
\* undoes the stop with what it decided before (StoppedStaysStopped) drives on to
\* that goal, at most home after it, and not through the route (_stop_patrol,
\* _advance_patrol_goal).
NoWaypointAfterStop ==
    [][reply = "stopped" /\ pcX = "advance"
         => pcX' \notin {"write_first", "write_idx", "write_loop"}]_vars

\* Every patrol ends: each leg either is reached or times out.
MissionEnds == Active ~> ~Active

\* Whatever the commands, a patrol cannot stay active for ever while the robot
\* is not at the goal it waits for.
WatchdogBites == []<>(~Active \/ pose = lastGoal)

-----------------------------------------------------------------------------
(* The mission PatrolMission describes, read off the program's state: it    *)
(* lasts as long as the phase is not "idle", and the phase, the loop and    *)
(* the index say which leg the robot is on.                                 *)

NoMission == [route |-> <<>>, loops |-> 0, home |-> NoPlace]

missionBar == IF phase = "idle" THEN NoMission
              ELSE [route |-> wps, loops |-> total, home |-> home]

legBar == CASE phase = "idle"            -> 0
            [] phase = "go_home_start"   -> 1
            [] phase = "patrol"          -> 2 + (loop - 1) * Len(wps) + idx
            [] phase = "return_home_end" -> total * Len(wps) + 2

stBar == IF phase # "idle" THEN "active"
         ELSE IF pcX = "stop_set" THEN stopX ELSE status

Abstract == INSTANCE PatrolMission
            WITH st <- stBar, mission <- missionBar, leg <- legBar,
                 goal <- goalTopic, at <- pose

\* Left alone with one mission, the two threads perform the patrol that
\* PatrolMission promises: home, every waypoint in order for every loop, home.
PatrolImplemented == Abstract!Spec

-----------------------------------------------------------------------------
(* What comments, messages and help texts say and the code does not keep;  *)
(* the README gives each trace.                                            *)

\* The operator was told the patrol is stopped, and has asked for nothing
\* since: the patrol is not active (cmd_loop, patrol_stop).
StoppedStaysStopped == reply = "stopped" => ~Active

\* "Timeout while waiting to reach patrol goal" (patrol_tick): a goal is not given
\* up before its time because the tick still holds the send time of an earlier one.
FreshGoalKept == [][pcX = "timeout" /\ pcX' = "stop_clear" => age \notin 0 .. Timeout]_vars

\* last_goal of the telemetry (line 553) is the goal the patrol waits for.
GoalReported == AtRest /\ Active => tele.last = lastGoal

\* "Navigating to home before patrol" (_start_patrol): the patrol phase begins
\* only when the robot is reported at the mission's home.
HomeBeforePatrol == [][phase = "go_home_start" /\ phase' = "patrol" => pose = home]_vars
=============================================================================
