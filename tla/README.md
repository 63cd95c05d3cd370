# A TLA+ verification of wheeltec_ros2

The repository is the software of a Wheeltec mobile robot: a serial driver for the chassis, lidar drivers, a
copy of the Navigation2 (nav2) stack with its parameters, a node that drives the robot to its charger, a node
that cycles through clicked waypoints, and a bridge through which a web SCADA station commands the robot. This
directory holds TLA+ models of the parts that carry control logic, the TLC configurations that check them on
small instances, and proofs checked by TLAPS for all values of the constants. Paths below are relative to
the repository's own `src/`, unless a file is named alone.

Contents: [1 Inventory](#1-inventory), [2 Modules](#2-modules-and-their-code), [3 Runs](#3-what-the-runs-check),
[4 Fairness](#4-fairness), [5 Proofs](#5-what-is-proved), [6 What the code does not
keep](#6-what-the-code-does-not-keep), [7 Limits](#7-what-is-not-modelled), [8 Plan](#8-plan).

## 1 Inventory

| Component | State | Operations | Talks to | What is hard |
|---|---|---|---|---|
| SCADA bridge, `wheeltec_scada_bridge/node.py` | mission fields `_patrol_*`, `telemetry_data`, the last map | commands on a ZMQ REP socket (`cmd_loop`, own thread); timers `patrol_tick`, `update_map_pose`, telemetry, map (executor) | publishes `/goal_pose`, `/cmd_vel` | two threads share the mission; `_patrol_lock` is held for single blocks, so a stop, a start or a goal falls between the blocks of a tick; a watchdog on the age of the goal |
| SCADA processes, the same file and `main.py` | `_managed_processes`, `_current_map_path`, the reported navigation mode | requests about modes, SLAM, nav2 and maps; `_start_managed_process`, `_stop_managed_process`; `destroy_node` on the main thread | starts SLAM and nav2 with `ros2 launch` in process groups, sends them SIGTERM and SIGKILL | processes exit by themselves, ignore signals and miss deadlines; an exception skips the rest of a request; a request served during the shutdown |
| Coverage planner, `coverage_planner.py` | none | grid in, waypoints out | called by `cmd_loop`, which reads the last map once to plan and again to validate | runs at the borders of the grid; truncated lengths; a map replaced in between |
| Automatic recharging, `auto_recharge_ros2/auto_recharger.py` | docking flag, rotation search, filters, what the sensors said | one long step `autoRecharger(key)`, callbacks, `set_charge_mode` | `set_charge` service of the chassis, `navigate_to_pose` through `BasicNavigator` | waiting for a service spins the node, so callbacks run in the middle of the step; results of an earlier goal; counters that survive a stop; the navigation client waits without a limit, and the node with it |
| Navigation client, `nav2_simple_commander/robot_navigator.py` | goal handle, result future, status | `goToPose`, `cancelTask`, `isTaskComplete`, `getResult` | `navigate_to_pose` | state left over from the previous goal |
| Chassis driver, `turn_on_wheeltec_robot/src/wheeltec_robot.cpp` | two receive buffers and counters, last sensor values, `AutoRecharge` | `Get_Sensor_Data_New`, `Cmd_Vel_Callback`, `Set_Charge`, publishers | serial line; `/odom`, `/imu`, `set_charge` | two parsers of one byte stream, lost bytes, a read that times out, data bytes that look like headers and tails |
| Waypoint cycle, `nav2_waypoint_cycle/waypoint_cycle.py` | list of points, index, "goal under way" flags | clicked point, goal status | `navigate_to_pose` | statuses are repeated lists; cancels come from elsewhere |
| nav2 action server, `nav2_util/simple_action_server.hpp` | current and pending handle, `preempt_requested_`, `stop_execution_`, the worker's future | goal, cancel and accepted handlers; `activate`, `deactivate`; the worker's `work()` and its methods | every nav2 server is built on it | handlers and worker interleave between locked blocks; preemption, cancel and deactivation race |
| nav2 bt_navigator, `bt_action_server_impl.hpp`, `navigate_to_pose.cpp`, `behavior_tree_engine.cpp`, `navigator.hpp` | the loaded tree, the blackboard's goal, the muxer | `executeCallback`, `onGoalReceived`, `onLoop`, `onPreempt`, muxer | the action server, behaviour tree nodes | a goal replaced between two looks at it; two navigators starting together |
| nav2 tree nodes, `nav2_behavior_tree/bt_action_node.hpp` | goal handle, the future of a response, `goal_updated_`, result | `tick`, `halt`, response, status and result callbacks while the node spins | sends goals to planner, controller and behaviours | a goal replaced, halted or given up before its response; results of older goals |
| nav2 lifecycle manager, `nav2_lifecycle_manager/src/lifecycle_manager.cpp` | `bond_map_`, `node_map_`, `system_active_`, two timers | startup, resume, pause, reset, shutdown; `checkBondConnections`, `checkBondRespawnConnection` | `change_state` and `get_state` of every server; bonds | servers that refuse, fail, crash and come back in the middle of a list of transitions; a service without a timeout, and servers that do not come to an end; a timer that every startup and resume creates anew |
| nav2 waypoint follower, collision monitor, velocity smoother, controller, planner and behaviour servers, control nodes of the trees | - | - | - | not modelled, see 7 and 8 |
| Drivers of the lidars, numeric parts of nav2, keyboard, scan filter, launch files | - | - | - | not modelled, see 7 |

How a mission flows: the operator's `patrol_start` reaches the SCADA bridge (ScadaPatrol); its goals go out on
`/goal_pose`; bt_navigator turns them into action goals (SimpleActionServer, BtActionServer, NavigatorMuxer);
its tree calls the other servers (BtActionNode), which the lifecycle manager brings up and watches
(LifecycleManager); the operator has SLAM or nav2 started, stopped and given maps (ScadaProcesses) and may ask for a
route that covers a map (CoveragePlanner); velocity commands reach the chassis, whose frames come back over the serial line (ChassisLink); independently
AutoRecharger and WaypointCycle send `navigate_to_pose` goals to the same bt_navigator.

What makes each part correct:

* SCADA bridge: a patrol visits home, every waypoint of every loop in order, home; it is completed only then;
  it ends, by arrival or by the watchdog; a stop ends the route; what the operator is told agrees with what the robot does.
* Recharging: whatever is in motion (a navigation goal, a rotation) is supervised by the code that can end it;
  a search that finds nothing and a charge that is complete are ended.
* Serial link: a frame delivered was sent; after noise, or a data byte that looks like a header, both parsers are in step again.
* Waypoint cycle: waypoints are sent in turn, for ever.
* Action server: an accepted goal is never dropped, ends, and the tree works for the goal the server reports on.
* Muxer: it is never left locked.
* Processes: SLAM and nav2 never localise together; what runs is listed, reported and on the map that was asked for; nothing
  outlives the node; every request is answered.
* Coverage: a route keeps clear of obstacles, keeps its stripes and is refused only for a reason.
* Tree node: what it reports is the result of its newest goal; a halt reaches the goal; every run ends.
* Lifecycle manager: order is kept; a system reported active is watched; a lost server is noticed; every command ends, if the servers answer.

## 2 Modules and their code

Each module opens with what its state and steps stand for; `PROJECT.json` maps every definition to its lines.

**PatrolMission** is the abstract patrol: a tour (home, `loops` times the route, home), one leg at a time, next
leg only after the robot was reported at the stop it was sent to. **ScadaPatrol** is the code. Every block under
`_patrol_lock`, and every access outside it, is one action; `pcC` is where the command thread stands (`recv`,
`start_set`, `publish`, `record`, `stop_clear`, `stop_set`, `reply`) and `pcX` where the executor stands inside
`patrol_tick`, with the locals it carries across blocks (`seenAge`, `adv`, `stopX`). `_set_patrol_state` writes the
status and the telemetry report together (`Report`, with `last_goal`); `_publish_goal`, called after it, publishes (`PublishGoal`) and then
records the goal under the lock (`RecordGoal`). Coordinates are places; "within the tolerance" is being at the place. Times are ages
that saturate one past the timeout. `update_map_pose` moves the robot anywhere, between ticks, as both run on
the one executor thread. **MCScadaPatrol** gives routes of two and three waypoints (one visits a place twice).

**AutoRecharger** divides `autoRecharger` into its sections, in order: key, low battery, navigation feedback at
its reduced rate, red signal found, rotation finished, battery full, bookkeeping; then `main`'s `spin_once`. A
`set_charge_mode` call (`Call`, `Answer`) suspends a section at `pc = "charge"` while callbacks run, is retried
when the service is missing, and then resumes `after`. The navigation client's result, status and acceptance are
`task`, `status`, `accepted`: a refused goal leaves the earlier `task` and `status` in place, as the code does. `goToPose` and `cancelTask` wait
for the navigation without a limit (`robot_navigator.py:141-142, 151, 275`) and serve no callback of the node meanwhile: the section stands at a place of its own
(`Goals`, `Cancels`) until `NavReply`, which may never come. `Waits` is everything the node waits for without a limit: the navigation, the chassis' answer to `set_charge` and a message to serve.

**ChassisLink**: `Get_Sensor_Data_New` fed one byte per step, with both parsers (`rx`, `rx2`), `Check_Sum` (exclusive
or) and the length, tail and checksum tests. The set of bytes, the four codes, the two frame sizes and the operator the checksum
folds are constants, so that the proofs hold for the real ones; **MCChassisLink** runs them with bytes of three bits, the real
exclusive or and frames shorter than the chassis' 24 and 8 bytes that keep header, data, checksum, tail and different lengths. `Lose` drops a byte on the line;
`ReadTimeout` processes an arbitrary byte that was never sent, which is what the uninitialised buffer gives. Data and checksums may hold any byte, header and
tail codes included, as the comment at line 432 says; the properties count such bytes (`Misleads`, `codes`) beside the `glitches`, and `trouble` counts both since the parsers were last
empty before a frame. The three counters record what happened and have no influence on it.

**WaypointCycle**: clicked points, the status callback with its success, retry and give-up branches, and the
status list of the server, whose last entry is the newest goal. The server and cancels by others are external.

**SimpleActionServer** has the executor's handlers and the methods the worker calls, each one block under
`update_mutex_`; the state of each goal handle is kept as `rclcpp_action` keeps it, and `exec`/`worker` say
where the two threads are. **BtActionServer** extends it with what runs on the worker: `onGoalReceived` with the
loading of the tree, `BehaviorTreeEngine::run` (check active, cancel, tick, `onLoop` after the tick), `onPreempt` in
its separate blocks (look at the pending goal, then accept or terminate whatever is pending by then) and the
report of the result. `worker = "crashed"` stands for a null goal dereferenced. Trees are names; a tick answers
running, success or failure, or throws. **ActionGoals** is what the clients of such a server may rely on, without threads, locks, handles
or trees: goals served one at a time, in the order of their acceptance, the newest one accepted the only one that waits; none is dropped. What BtActionServer
calls a current, a pending and a just accepted handle becomes `serving`, `waiting` and `arriving`. **NavigatorMuxer** is the muxer with one worker per navigator.

**ScadaProcesses**: the command thread takes a request as a list of steps (`todo`: stop, start, register, report the mode,
remember or save a map, list nodes), which an exception cuts short and `Reply` answers. Inside `_stop_managed_process`
each thread has a position `at[t]`: look the name up and poll, signal, wait, kill, wait again, forget (`finally: pop`). The main
thread (`life`: spin, closing, closed, exited) walks over the names while the daemon command thread goes on. `leader` says what a
process is: running (as SLAM or nav2), a zombie, or gone once `poll()` or `wait()` collected it, which is when a
signal to its group raises. `survivors` records those SIGKILL did not end in time. Telemetry and images are left out.

**CoveragePlanner**: both patterns, one step for each turn of the code's loops: the free runs of a row one by one (`Segment`, `NextRow`), the
edges of a layer of the spiral cell by cell (`EdgeCell`), the dropping of points on straight lines (`OptimizePoint`) and the validation. The inflation and the free
runs of one row are operators. `MapArrives` is `map_cb` on the other thread.
**MCCoveragePlanner** builds the maps.

**LifecycleManager**: a command, a broken bond and the respawn timer are a list of transitions (`left`), applied to one server
at a time (`at`) with two service calls each (`step`); the hard reset goes on after a refusal and is ended by an exception. Servers
crash, respawn, refuse and fail; bonds form late, are lost, and break. `step = "called"` is the wait for `change_state`, which has no timeout (`service_client.hpp:115`):
a server may stay in its transition for ever, as `Costmap2DROS::on_activate` does while a transform is missing (`costmap_2d_ros.cpp:226-239`, called from `planner_server.cpp:164`); `"hung"` is that call once the
server died in it, `"crashed"` a null client dereferenced. `due` says that the 200 ms of the bond timer are over; a startup or resume that succeeds creates the timer anew (`lifecycle_manager.cpp:353, 365`).

**BtActionNode**: `tick` and `halt` at their positions (`pc`), the callbacks that run while the node spins, and an action server that
accepts, refuses, runs and ends goals at any time. `elapsed` counts loops of the tree towards `server_timeout_`. **ActionCall** is what a tree
may rely on from such a leaf, without ticks, futures, callbacks or deadlines: a run ends with the outcome of its newest goal, is given up only
before that goal was acknowledged, or is stopped with the goal it holds over or asked to be cancelled (`lifeBar` forgets what is still on its way).
**GoalStates** is how a goal of a ROS 2 action moves between its states. The two sides of an action meet there: every step of
BtActionServer is such a move, and the server inside BtActionNode may make any of them at any time, so neither model supposes of the other more
than the other keeps.

## 3 What the runs check

Each of them ends within a few minutes on two cores.

| Run | Checks | Shows |
|---|---|---|
| `patrol_single` (7.6k states) | `PatrolImplemented`, `MissionKept`, `MissionEnds` | one mission, starts repeated: the two threads implement PatrolMission (refinement); the fields stay consistent; the mission ends |
| `patrol_commands` (843k) | `WatchdogArmed`, `TelemetryAgrees`, `NoWaypointAfterStop`, `WatchdogBites` | four requests of any kind, two missions: what survives every race. A tick that undoes a stop drives on to the one goal it had decided on and ends the route there; telemetry agrees with the fields, `last_goal` apart (`GoalReported`, section 6) |
| `patrol_stop_race` | `StoppedStaysStopped` violated | section 6 |
| `recharger` (2.2M) | `NavSupervised`, `TurnSupervised`, `TurnGivenUp`, `ChargingEnds` | every key, every sensor reading, services missing or refused, navigation refused, failed, done, late with its answers or silent for ever: what moves is supervised; the search and the charging end if navigation and chassis answer (`Answered`) |
| `recharger_arrive` | `ArrivedAtGoal` violated | section 6 |
| `link` (4.2M) | `DeliversWhatWasSent`, `Resynchronises` | six frames, with and without codes among their data, and two glitches anywhere: what each glitch and each code costs, and that one alone invents no frame |
| `cycle` (13k) | `NextInTurn`, `CycleGoesOn` | points clicked at any time, three cancels |
| `nav_goals` (976k) | `PursuesCurrent`, `BtNeverGivenNull`, `GoalsServedInTurn`, `CurrentEnds`, `PreemptServed` | three goals for three trees (default, another, a missing file), with cancels, deactivation and missed deadlines: the server implements ActionGoals (refinement), which includes that no goal is dropped (`NoGoalLost` is not run of its own, see `PromiseKeepsGoals` in section 5), goals end, pending goals are served |
| `processes` (354k) | `OneLocaliser`, `NothingForgotten`, `ModeTruthful`, `NavOnAskedMap`, `NothingLeftBehind`, `RequestAnswered`, `ShutdownEnds` | every request, processes that exit or survive signals, a shutdown at any moment |
| `lifecycle` (460k) | `ActiveIsWatched`, `InOrder`, `CrashNoticed`, `CommandEnds` | three servers, every command, two crashes at any moment, servers that never answer; the two liveness properties hold if they do (`Answered`), the first also only if startups and resumes come to an end (`TimerLeftAlone`) |
| `coverage` (415k) | `KeepsClear`, `SinglePassesKept`, `RefusedOnlyOnNewMap`, `Answered` | both patterns on eighty-two maps, the map replaced at any moment |
| `bt_action` (426k) | `HandleThere`, `CallKept`, `NewestReported`, `HaltReachesServer`, `RunEnds` | three goals replaced, halted, rejected or never answered, callbacks late and in any order; the node implements ActionCall (refinement) |

The type invariants are theorems, or lemmas of the proofs (section 5), and are not run again.

Bounds, and why they are enough to be interesting:

* Patrol: `Timeout = 1` gives the ages "fresh", "due" and "overdue" the code distinguishes; `MaxRuns` (missions accepted)
  and `MaxRequests` (requests received) bound the operator only, never the threads. A race needs one command between two
  blocks of one tick, a restart race two missions; four requests allow start, stop, start, goal in any order.
  `patrol_single` has one mission because across a restart the code does not implement PatrolMission (section 6).
* Recharger: the filters of 5, 10 and 3 readings and the 10 retries become `LowFilter = 0`, `FullFilter = 1`, `RedFilter = 1` and
  `MaxCallCount = 0`: the second full reading counts, while one low reading, one infrared reading and one refused call are at their
  limits at once. Longer filters only delay the same branches, and the theorems hold for every length; `AutoRechargerArrive.cfg`
  uses the next larger ones. `Akm` is true: the Ackermann car docks in the other mode as well.
* Link: of the motion frames one holds no code, one the charging header, one its own header and tail (and a checksum like a tail); of the charging frames one holds no
  code and one the motion header with a checksum like its own tail. `MaxFrames = 6` and `MaxGlitches = 2` let glitches and codes compound, with room for the
  two frames each of two may cost and for the parsers to be in step again.
* Waypoints: three points let the index wrap while a point is added; `MaxCancels = 3` lets every point be cancelled.
* Action server: three goals fill both slots with one in `handle_accepted()`.
* Processes: two processes and one map. A third process adds a survivor to a later start; the theorems cover any number of both.
* Lifecycle: three servers give a first, a middle and a last one; with two crashes a server is lost while another's loss is dealt with.
* Coverage: rows seven cells wide hold every relation of runs to `MinLength` (longer, equal, shorter, two in a row, at the border), two or
  three rows every change between neighbours; stripes of no cell, one and two; lengths in cells. `Flat = 2` and `MaxWaypoints = 20` are scaled to these maps, so that points are dropped and
  routes refused for their number; the theorems hold for every value.
* Tree node: three goals let two results be late at once; `Timeout = 2` lets a response come within the deadline or after it.
* Deadlock is checked in the patrol and `coverage` runs. Elsewhere the system may stop: the node is quit, frames, goals,
  cancels or crashes run out, the process crashed or exited.

For every property of a passing run `PROJECT.json` names a mutant: an operator beside the real one that changes it the way a
bug would (a count one too many, a flag not reset, a guard dropped), under which TLC finds the property violated. The
mutants are marked as such in the modules and are used by nothing else.

## 4 Fairness

* ScadaPatrol `FairSpec`: weak fairness of both threads' steps (they are threads of one process and the lock is held for
  single blocks) and of time. Nothing is assumed of the operator or the robot: it may never arrive.
* AutoRecharger `FairSpec`: weak fairness of the node's step while it waits for nobody (`~Waits`): the loop reads a key (it returns after a tenth
  of a second) and runs its sections. Nothing is assumed of those it waits for without a limit; `TurnGivenUp` and `ChargingEnds` say so in their own words, as they suppose
  `Answered`: again and again the node is past its waits. `NavNotNeeded` (section 6) is what becomes of the first without the navigation. Particular callbacks, keys and navigation results are not assumed.
* WaypointCycle `FairSpec`: the node's callback runs, and the server accepts and ends goals.
* BtActionServer `LiveSpec`: weak fairness of the worker and of the executor's callback under way; nothing of the clients
  or the lifecycle manager. Both liveness properties suppose `StaysUp` (no deactivation is waiting: one may leave the loop with a live
  goal, section 6); `CurrentEnds` also supposes `TreeEnds`, that ticks do not answer "running" for ever.
* ScadaProcesses `FairSpec`: weak fairness of the two threads. Their waits have deadlines; nothing is assumed of the processes.
* LifecycleManager `FairSpec`: weak fairness of the executor at work, of the 200 ms of the bond timer and of the heartbeat timeout of a lost bond; strong fairness of
  `checkBondConnections` once the timer is due, because the executor takes a timer that is ready before a service request. Commands can starve the check all the
  same: each startup or resume that succeeds creates the timer anew, and `CrashNoticed` therefore supposes that they come to an end (`AlwaysNoticed`, section 6). Nothing is assumed of a server that is to
  change its state: `CrashNoticed` and `CommandEnds` suppose `Answered`. Nothing of commands, crashes or respawns.
* CoveragePlanner `FairSpec`: weak fairness of the command thread.
* BtActionNode `FairSpec`: the tree ticks a running node (weak); `spin_some` gets to a result that waits (strong, as it is only
  enabled while the node spins); the server ends goals it accepted (weak). It need not answer a request.

## 5 What is proved

TLAPS checks these for every value of the constants, under the assumptions the modules state of them: a null value is not a goal, a place,
a map or a navigator; missions have at least two waypoints and one loop, which `_start_patrol` tests; there is a server to manage, and a
point to click; the four codes of the serial line are bytes and all different; a frame has room for its
header, checksum and tail; maps are finite grids; bounds are numbers. Three theorems about patrols have a
further hypothesis, named in their statement and explained below.

* `ScadaPatrolProofs`: `TypeCorrect`, `WatchdogAlwaysArmed`, `TelemetryAlwaysAgrees`, each `Spec => []...`. The type
  invariant is not inductive: a tick writes an index and loop from a snapshot taken earlier, and indexes the route with
  them. `RouteKept` (a mission with loops has at least two waypoints, because `_start_patrol` and `_stop_patrol` set and
  clear both in one block) is the strengthening. The other two are inductive given it: the disjuncts that name positions
  of the two threads say exactly which blocks may be under way.
  `MissionAlwaysKept` supposes `StartsOnly`: the operator starts patrols, any number of them and at any moment, but neither stops one nor
  sends single goals, which from within a tick really breaks the mission (`StoppedStaysStopped`, section 6). It rests on `OnRoute`
  (the fields are those of an accepted payload, and what a tick is about to write is the next stop) and on `Turns` (where the two threads may stand
  together; in particular no mission begins while a tick is under way, since the status it would test is active).
  `PatrolImplementsMission` supposes `Single`, one mission besides, because the second one meets the last goal of the
  first (`HomeBeforePatrol`). `Told` says that the goal on record is that of the mission's fields or a thread is about to publish it, `Seen` that
  a tick about to advance saw the robot at that goal; the refinement
  of PatrolMission follows by cases: `AcceptStart` begins the tour, publishing a goal is
  `Send`, `WriteFirst` to `WriteReturn` are `Arrive`, `TickStopClear` is `Finish`, a new pose is `Move`, and everything else stutters.
  `StopEndsTheRoute` is about any commands: `_stop_patrol` clears the route and the loops in one block (`Cleared`), so that whatever a tick writes back after it leaves
  nothing to go through; `Stopping` says where the threads stand while that is so.
* `BtActionServerProofs`: `TypeCorrect`, `GoalsNeverLost`, `TreePursuesCurrent`, `NeverGivenNull`, `CallbackAlwaysEndsGoal`. The inductive
  invariant is `IInv == TypeOK /\ HandlesApart /\ NoGoalLost /\ PursuesCurrent`: `HandlesApart` says the two slots and
  the goal in `handle_accepted()` are different goals the server accepted, without which ending one could end another.
  `NeverGivenNull` adds `GoalAtHand`: at the positions where the callback relies on a live goal there is one; it needs
  that a pending goal found in one block can be replaced but not removed before the next, which is false once
  `deactivate()` gave up waiting, hence the condition `exec # "failed"`. The proofs have one step per action; the lemma
  `TerminatedStatus` says what `terminate()` leaves of a goal's state.
  `AlwaysServedInTurn` is the refinement of ActionGoals, for any goals and trees and across deactivations. A slot counts as long as its
  goal has not ended, since the code clears `current_handle_` only some blocks after the goal it holds was terminated; with that mapping every block
  under the mutex is one abstract step or a stutter. There is one lemma for each thing a block can do to the goals: terminate some
  (`TerminationSeen`), take over the pending one (`TakeOverSeen`), succeed (`SuccessSeen`), nothing (`NothingSeen`), and what the handlers do (`ExecutorSeen`).
  `PromiseKeepsGoals` is about ActionGoals alone: it implies that a goal accepted and not ended has a place. `CallbackAlwaysEndsGoal` says that
  the warning of `work()`, "Current goal was not completed successfully", never comes for the navigator: its callback returns with its goal ended, whatever
  preempted it, since no handler makes another goal current until the worker has returned; after a failed deactivation nothing is pending (`FailedIsEmpty`). `AlwaysLivesKept` follows from
  the refinement: a step of ActionGoals moves each goal as GoalStates allows, so it needs no second walk through the blocks.
  `NeverLeftLocked` is about NavigatorMuxer, from the typing of its positions, for any number of navigators.
* `GoalClientsProofs`, on AutoRecharger: `TypeCorrect`, `NavAlwaysSupervised`, `TurnAlwaysSupervised`, for every filter length and number of
  retries. Supervision of navigation needs `RunningAccepted` (a goal under way was accepted), without which a feedback section could
  stop listening on a stale result; supervision of the turn is inductive with the types. On WaypointCycle: `CycleTypeCorrect`, `AlwaysInTurn`, `AlwaysTurning`.
  The type does not say that the last waypoint sent is the one before the index (`SentBeforeIndex`), which every branch of the callback keeps.
  `AlwaysTurning`: at the end of a round the callback gives a cancelled waypoint up and sends nothing; the cycle still goes on, because the last status in
  the queue is that of the end of the newest goal whenever that has ended and nothing was sent since.
* `ChassisLinkProofs`: `TypeCorrect`, `AlwaysResynchronises` and `AlwaysDeliversWhatWasSent`, for frames of any size, any data, bytes and codes, any
  number of glitches, and *any* checksum: nothing is used of it but that both ends compute the same. Nothing is supposed of the data.
  Resynchronisation is a debt: `Debt` is the number of frames a parser that is out of step may still lose, zero when it is in step, one or two
  otherwise, and `Owing` (what was lost and what is owed make at most two frames for each glitch and each misleading byte) is inductive: a byte that arrives and does not mislead costs nothing that
  was not owed (`ByteSuits`, `DebtPaid`), and a glitch or a misleading byte, the frame it falls in included, at most two frames of a kind. The bound is only as good as the data: with a code in every frame it allows every frame to be lost, and
  `IntactDelivered` (section 6) shows the loss. That one trouble invents no frame rests on `OneTrouble`: before the first the parsers are in step, and before the
  second one that holds as many bytes as were sent of its frame holds those (`Aligned`). A tail that does not mislead is the end of its own frame; one that does is met by parsers in step, when no frame is due.
* `CoveragePlannerProofs`, for maps of every size: `TypeCorrect`; `AlwaysKeepsClear` (`RouteClear`: every point found so far, kept or dropped, is clear of the
  inflated obstacles of the map planned on); `RefusedForAReason` (a route of an allowed length is refused only on another map, or as a spiral around
  obstacles; `RouteOnMap` keeps a spiral on the map and off its centre); `SinglePassesAlwaysKept`. The last one needs to know what the loops have left behind: `SinglesPassed` (the only run of a stripe
  already swept has its two ends next to each other in the list, with the neighbours at least a stripe away), `RowsInOrder`, and `TurnsKept`
  (every point looked at so far at which the route turns was kept), with the lemmas `RunTurns` and `StripesApart` about the cross product at those ends. The property is about runs
  whose length times the stripe exceeds `Flat`: the code compares the cross product with an absolute 0.01 square metres, so shorter ones may be dropped.
* `LifecycleManagerProofs`: `TypeCorrect`, `AlwaysWatched`, `AlwaysInOrder`, for any number of servers and crashes. The inductive invariant is
  `TypeOK /\ Ascending /\ ActiveIsWatched /\ InOrder`: a successful startup leaves every server watched because those it passed
  are (`InOrder`) and because "activate" is its last transition (`Ascending`).
* `BtActionNodeProofs`: `HandleAlwaysThere`, `AlwaysNewestReported`, `HaltAlwaysReachesServer`, for any number of goals and any
  deadline. `Position` ties what the thread holds to where it is, `HandleNewest` says the handle is the last goal's outside the
  wait for a response, `ResultNewest` that a result taken is the last goal's; `Unsent` and `ClientKnows` bound what the server
  and the client know. `AlwaysKeepsCall` is the refinement of ActionCall: the first tick is `Start`, a response that names the newest goal `Acknowledge`,
  a new goal `Replace`, the cancel of a halt `Ask`, the end of a tick `Report` or `GiveUp`, of a halt `Stop` or `GiveUp`, and callbacks are stutters; besides the invariant it
  needs that an older goal's handle is all there is while a response is awaited (`HandleOlder`) and that only goals the server took are cancelled (`CancelsTaken`).
  `ServerUnrestricted` makes it an assume-guarantee argument: any move of GoalStates, at any time, on any goal sent, is a step of the model's server.
* `ScadaProcessesProofs`: `AlwaysOneLocaliser`, `NothingEverForgotten`, `ModeAlwaysTruthful`, `NavAlwaysOnAskedMap`,
  `NothingEverLeftBehind`, for any number of processes and maps. While the node spins the main thread stops nothing, so the argument is
  about one thread: `Listed`, `Cleared`, `Holding`, `Fresh` and `Reported` say, from the list of steps still under way, what was
  stopped already, what is about to start and what the mode may still say. `Closing` carries the shutdown: as long as no
  request is served, what runs is listed under a name still to be stopped, or survived.

So every safety property a passing run checks is a theorem, refinements included, except the statements of section 6. Liveness is out of the
prover's reach, as fairness and ENABLED are, but what a liveness property rests on besides fairness is an invariant or an action property, and is proved for these:

| Liveness property | Theorems | Measure |
|---|---|---|
| `RequestAnswered` | `StepsAlwaysBounded`, `StepsAlwaysCount` | six for each step left of the request, less what is done of the stop under way: at most thirty, and every step of the thread lowers it |
| `ShutdownEnds` | `StopsAlwaysCount` | the same for the names `destroy_node` has left to stop; the command thread, which still serves, does not raise it |
| `CommandEnds` | `CallsAlwaysBounded`, `CallsAlwaysCount` | service calls left, each of them answered, at most six a server; crashes, bonds and refusals do not raise it |
| `MissionEnds` | `AlwaysOnwards`, `ThreadsAlwaysNearer` | the stops of the tour left; between two of them the age of the goal, which only the record of the next goal sets back; the blocks left of a tick, at most eight. With `StartsOnly`, for any number of missions |
| `WatchdogBites` | `ThreadsAlwaysNearer`, `WatchdogAlwaysArmed` | the blocks left of a tick and of a request, under any commands; an active patrol has a send time |
| `TurnGivenUp`, `ChargingEnds` | `CallAlwaysBounded`, `PassAlwaysCounts` | the sections left of a pass through the loop, each wait of theirs answered, then the tries left of a service call |
| `CycleGoesOn` | `AlwaysTurning`, `AlwaysInTurn` | something is always under way that makes the node send again, and what it sends is next in turn |
| `PreemptServed` | `PreemptAlwaysNearer` | the blocks between the worker and the pending goal, at most seven with one tick of the tree |
| `RunEnds` | `RunAlwaysBounded`, `RunAlwaysCounts` | three steps for each loop left of the deadline, and the steps left of the tick; a result that is there stays |
| `Answered` | `AlwaysBounded`, `AlwaysGoesOn` | the loop the planner is in, then its counter: every turn goes on, and no counter passes its end |

Fairness takes such a measure down as long as a step is possible, which is what ENABLED would say and TLC checks; a lifecycle manager that waits for ever is excepted in
`CommandEnds` by `Answered`, one that crashes in its conclusion (`NeverHung` and `NoNullClient`, section 6). `TurnGivenUp` and `ChargingEnds` need besides that the
section looked at counts, as its action says. `CurrentEnds` and `CrashNoticed` have no measure here.
Only model-checked are thus the liveness properties themselves and the statements of section 6.

## 6 What the code does not keep

Statements of comments, messages, help texts and tests of the repository, and what they take for granted, that TLC refutes. The first two are runs; the
others are stated in the last section of their modules, and the trace appears when the formula takes the place of the
ones in the configuration named (as an invariant, or a property if it is one of steps, `[][...]_vars`), changed as said, with
`CHECK_DEADLOCK FALSE`.

| Property | Trace | To see it |
|---|---|---|
| `StoppedStaysStopped` | `patrol_stop` is served between the snapshot of a tick and its writes; the tick sets the status to "running" again and publishes the next waypoint after the operator was answered "stopped". If the robot then stands at that waypoint the status stays "running" with no mission, and later starts are refused | run `patrol_stop_race` |
| `ArrivedAtGoal` | a navigation goal succeeds, the next one is refused: `isTaskComplete` and `getResult` answer from the first, "reached the goal" is logged and the rotation starts where the robot stands | run `recharger_arrive` |
| `NeverOnlyPending` | a goal accepted between the worker's last block under the mutex and the return of its thread is stored as pending, and nobody is left to run it; the next goal aborts it | `BtGoals.cfg` |
| `FreshGoalKept` | a tick reads the age of the goal (`node.py:722`); `patrol_stop` and `patrol_start` are served, and the new mission's goal is recorded; the tick finds the age it holds over the limit and fails the new mission | `ScadaPatrolCommands.cfg` |
| `GoalReported` | `_set_patrol_state` reports before `_publish_goal` records the goal (`node.py:553, 573`): the telemetry names the previous goal, or none, until the robot has reached the new one | `ScadaPatrolCommands.cfg` |
| `HomeBeforePatrol` | `_start_patrol` sets the status before it records the home goal; a tick in between compares the pose with the previous mission's last goal and enters the patrol phase | `ScadaPatrolStop.cfg`, `Requests <- StartOnly`, `MaxRuns = 2` |
| `SearchStopped` | key e stops a rotation search but leaves its counters; infrared readings then start the docking | `AutoRechargerArrive.cfg` |
| `NavNotNeeded` | the robot rotates in search of the signal when a goal is sent (key q again, or a low battery); the node has it cancelled as overdue and bt_navigator no longer answers: `cancelTask` waits for ever, and the robot rotates on past its full turn with nobody to stop it | `AutoRecharger.cfg` |
| `QuitStopsNavigation` | Ctrl-C ends the node with its navigation goal still running | `AutoRechargerArrive.cfg`, `Keys <- Quitting` |
| `CancelHeeded` | after a rejected preemption the ended pending handle stays in its slot (`terminate()` takes it by value) and `is_cancel_requested()` asks only that one, so a cancel of the current goal is not seen | `BtGoals.cfg` |
| `SuccessIsEarned` | a goal that arrives during the last tick of the older one becomes current after that tick and is reported succeeded in its place | `BtGoals.cfg` |
| `RightTree` | the pending goal whose tree was compared is replaced before `accept_pending_goal()`: the new one runs under the wrong tree | `BtGoals.cfg` |
| `DeactivateEndsGoals` | deactivation before the worker reads its loop condition: the loop is left with a live goal, and after activation new goals queue behind it | `BtGoals.cfg` |
| `OneAtATime` | two navigators pass `isNavigating()` before either calls `startNavigating()` | `NavigatorMuxer.cfg` |
| `IntactDelivered` | on an undisturbed line a charging frame holds the motion header in its data: the motion parser opens a frame there, collects the beginning of the next, intact motion frame, and drops both | `ChassisLink.cfg`, `MaxGlitches = 0` |
| `ChargeAfterTail` | the code does not look at the byte before the header, as its comment says | `ChassisLink.cfg` |
| `ReachedIsReached` | an aborted goal (status 6) passes the test `>= 4` and is logged as reached; it is not retried | `WaypointCycle.cfg` |
| `IdleIsIdle` | a request to stop nav2, or SLAM, reports "idle" also while the other runs | `ScadaProcesses.cfg` |
| `NothingOutlives` | the command thread, a daemon, has created a process but not yet entered it in `_managed_processes` when the main thread copies the names to stop, or goes on to start one after that | `ScadaProcesses.cfg` |
| `OthersBroughtDown` | "if one is down, bring them all down" (`lifecycle_manager.cpp:397`): the hard reset throws at the crashed server and ends there, so the servers before it stay active | `LifecycleManager.cfg` |
| `OperatorHeeded` | the respawn timer is not cancelled by the operator's pause or reset, and starts the servers again | `LifecycleManager.cfg` |
| `NoNullClient` | a command, or the respawn timer, after a shutdown follows the clients the shutdown cleared | `LifecycleManager.cfg` |
| `NeverHung` | `change_state` waits for an answer without a timeout: a server that dies in a transition, or stays in it (a costmap without its transform), blocks the manager | `LifecycleManager.cfg` |
| `AlwaysNoticed` | the servers are active and one loses its bond; the operator repeats `resume`, and each one that succeeds creates the bond timer anew before its 200 ms are over: the loss is never seen | `LifecycleManager.cfg` |
| `CoversStripes` | points "on straight lines" include the inner ends of several runs in one row: whole runs leave the route that is to "cover the entire navigable area" | `CoveragePlanner.cfg` |
| `NothingUnwatched` | `halt()` is to "make sure to cancel the ROS2 action if it is still running" (`bt_action_node.hpp:289-292`), but a goal not yet acknowledged, by a halt or by the deadline, has no handle to cancel: the server may accept and run it | `BtActionNode.cfg` |

## 7 What is not modelled

* Numbers: poses, velocities, filters, the quaternion, costmaps, planners and controllers. Floating point is out of
  TLC's reach; distances and turns appear as the comparisons the code makes with them.
* Within the modelled parts: the text of logs and telemetry besides the patrol report, camera and map encoding, the
  docking velocities, feedback messages of actions.
* The behaviour trees themselves, their control nodes, and what the nodes derived from BtActionNode put into goals; `navigate_through_poses` is the same server with another goal type.
* A SimpleActionServer that spins its own node (`spin_thread`), and execute callbacks that throw.
* Localisation: a transform that fails leaves the old pose. Poses move freely here, so no property depends on them being right.
* Members of a process group that outlive its leader, and a `ps` listing that is out of date: ScadaProcesses follows leaders.
* The payload of `nav_goal` (a bad one aborts the mission without a goal), velocity commands, camera and map images.
* The chassis driver's commands (`Cmd_Vel_Callback`, `Set_Charge`): what the frames mean is decided by firmware that is not here, so a
  property beyond the layout of the frame would be a guess.
* In LifecycleManager, bonds switched off (`bond_timeout` 0) and diagnostics; in BtActionNode, an interrupted executor.
* In CoveragePlanner, yaws, maps of different origin or resolution, and the truncation of metres to cells.
* Other clients of `navigate_to_pose`: WaypointCycle admits their cancels, not their goals.
* Lidar drivers, `v650_wheeltec_robot.cpp` (not built), launch files, URDF: no control logic of the robot's own.

## 8 Plan

Done: PatrolMission, ScadaPatrol, AutoRecharger, ChassisLink, WaypointCycle, ActionGoals, SimpleActionServer, BtActionServer,
NavigatorMuxer, ScadaProcesses, LifecycleManager, CoveragePlanner, ActionCall, GoalStates, BtActionNode, and the proofs of section 5. Next, in this order:
1. **BtNavigator**: two BtActionServers composed with the muxer, and an abstract NavigateToPose (each goal accepted is
   executed for its own pose and gets one result) that it is shown to implement as far as section 6 allows.
2. The control nodes of the trees (RecoveryNode, PipelineSequence, RoundRobin) over BtActionNodes, checked against their documentation.
3. Waypoint follower, velocity smoother, collision monitor: their control part; a SimpleActionServer with `spin_thread`.
4. LifecycleManager with SimpleActionServer's deactivation instead of abstract servers.
5. ScadaProcesses with ScadaPatrol: a patrol stop waits while a process is being stopped, as one thread serves both.

Theorems to come: the blocks `CurrentEnds` waits for besides a tree that ends, and the heartbeat and timer of `CrashNoticed`; for
BtNavigator that the goals of two navigators are each served in turn, from `AlwaysServedInTurn` and `NeverLeftLocked`; for the control nodes
that they call their leaves only as ActionCall allows.
